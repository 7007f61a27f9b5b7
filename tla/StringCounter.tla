---------------------------- MODULE StringCounter ---------------------------
(***************************************************************************)
(* StringCounter of src/map/string_counter.c: a hash map from strings to   *)
(* counts, of which each string is a copy that the counter keeps while the *)
(* string is in it.  The hash map is the dictionary that HashMap shows it  *)
(* to be.                                                                  *)
(*                                                                         *)
(* A heap h holds text, what is in each cell of memory, and counts, from   *)
(* the cells of the counter's keys to their numbers.  An operation gives   *)
(* the set of its outcomes: the heap after it, the pointer it answers, and *)
(* the fault it ended with; memory may be refused to every allocation.     *)
(***************************************************************************)
EXTENDS Integers, Functions, FiniteSets, TLC

CONSTANTS
  Texts,
  Cells,     \* what malloc can give out for a string
  Free,      \* the content of a cell that is not allocated
  Null       \* the null pointer

ASSUME StringCounterAssumption ==
  /\ Null \notin Cells
  /\ Free \notin Texts

VARIABLES
  heap,      \* [text, counts]
  fault      \* "none", "null" for a null pointer followed, "freed" for freed memory

EmptyHeap == [text |-> [c \in Cells |-> Free], counts |-> <<>>]

Outcome(h, p, f) == [heap |-> h, pointer |-> p, fault |-> f]
Fine(h, p) == Outcome(h, p, "none")

\* map_node_for.
NodeFor(h, t) == {c \in DOMAIN h.counts : h.text[c] = t}
The(S) == CHOOSE c \in S : TRUE

FreeCells(h) == {c \in Cells : h.text[c] = Free}
NewCell(h) == The(FreeCells(h))

\* mem_strdup, which writes to what it was given, and its counterpart.
StrDup(h, t) ==
  {Outcome(h, Null, "null")}
  \cup IF FreeCells(h) = {} THEN {}
       ELSE {Fine([h EXCEPT !.text[NewCell(h)] = t], NewCell(h))}

Release(h, c) == [h EXCEPT !.text[c] = Free]

\* sct_put of a new string: without a node there is no entry, and nobody told.
PutNew(h, t, n) ==
  {Fine(h, Null)}
  \cup {IF dup.fault # "none" THEN dup
        ELSE [dup EXCEPT !.heap.counts = [c \in DOMAIN @ \cup {dup.pointer} |->
                                            IF c = dup.pointer THEN n ELSE @[c]]]
        : dup \in StrDup(h, t)}

\* sct_put.
CounterPut(h, t, n) ==
  IF NodeFor(h, t) = {} THEN PutNew(h, t, n)
  ELSE {Fine([h EXCEPT !.counts[The(NodeFor(h, t))] = n], Null)}

\* sct_ref answers the key of the entry, if there is one at last.
Ref(h, t) ==
  IF NodeFor(h, t) = {} THEN PutNew(h, t, 1)
  ELSE LET c == The(NodeFor(h, t)) IN {Fine([h EXCEPT !.counts[c] = @ + 1], c)}

\* sct_remove: the node frees its key.
CounterRemove(h, t) ==
  LET hit == NodeFor(h, t)
      rest == [h EXCEPT !.counts = Restrict(@, DOMAIN @ \ hit)]
  IN  IF hit = {} THEN h ELSE Release(rest, The(hit))

\* Mutant: a string goes when its count is below two.
Unref_Low(h, t) ==
  LET hit == NodeFor(h, t)
  IN  IF hit = {} THEN h
      ELSE IF h.counts[The(hit)] <= 2 THEN CounterRemove(h, t)
      ELSE [h EXCEPT !.counts[The(hit)] = @ - 1]

\* sct_unref.
Unref(h, t) ==
  LET hit == NodeFor(h, t)
  IN  IF hit = {} THEN h
      ELSE IF h.counts[The(hit)] = 1 THEN CounterRemove(h, t)
      ELSE [h EXCEPT !.counts[The(hit)] = @ - 1]

\* sct_clear.
CounterClear(h) ==
  [text |-> [c \in Cells |-> IF c \in DOMAIN h.counts THEN Free ELSE h.text[c]], counts |-> <<>>]

\* sct_get_count; the null value's number is 0.
GetCount(h, t) == IF NodeFor(h, t) = {} THEN 0 ELSE h.counts[The(NodeFor(h, t))]

=============================================================================
