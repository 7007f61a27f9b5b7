--------------------------- MODULE CharRingBuffer ---------------------------
(***************************************************************************)
(* The ring buffer of src/string/char_ring_buffer.c: `crb` is the struct   *)
(* that every function takes a pointer to.  A loop that stores characters  *)
(* one by one is written as its effect (Store).                            *)
(*                                                                         *)
(* Next has the calls the library makes (the scanner and look-behind       *)
(* buffers of json_parser.c), and filling from a reader by a client that   *)
(* keeps to buffers whose room is where the code takes it to be;           *)
(* GeneratedNext those of the functions a macro makes of the same code.    *)
(***************************************************************************)
EXTENDS Integers, SequencesExt

CONSTANTS
  Chars,
  Capacity,
  MaxAdd,      \* bound: characters in one add
  Word,        \* size_t arithmetic is modulo Word
  EOF, FULL    \* CRB_ERR_EOF, CRB_ERR_BUFFER_FULL

ASSUME CrbAssumption ==
  /\ Capacity \in Nat \ {0}
  /\ MaxAdd \in Nat \ {0}
  /\ Word \in Nat /\ Word > 2 * Capacity + MaxAdd
  /\ Chars # {}

VARIABLES
  crb,        \* [buffer, start_index, end_index, length]
  out,        \* what the last call returned: [ret, text]
  overrun     \* ghost: characters stored past the end of the buffer

vars == <<crb, out, overrun>>

Slots == 0..(Capacity - 1)

Texts == UNION {[1..n -> Chars] : n \in 0..MaxAdd}

Lesser(x, y) == IF x < y THEN x ELSE y

Result(ret, text) == [ret |-> ret, text |-> text]

-----------------------------------------------------------------------------
(* Indices. *)

Wrap(i) == i % Capacity

\* How far slot i is after index e, going round.
Ahead(e, i) == IF e <= i THEN i - e ELSE i + Capacity - e

\* The character k places after the oldest one.
CharAt(k) == crb.buffer[Wrap(crb.start_index + k)]

\* The contents, oldest first.
Contents == [k \in 1..crb.length |-> CharAt(k - 1)]

-----------------------------------------------------------------------------
(* Adding. *)

\* The buffer after s, no longer than Capacity, is stored from index e on.
StoreFrom(buffer, e, s) ==
  [i \in Slots |-> IF Ahead(e, i) < Len(s) THEN s[Ahead(e, i) + 1] ELSE buffer[i]]

\* The loop of the adds: each character goes to end_index; one that finds the
\* buffer full pushes the oldest out.
Store(s) ==
  LET pushed == crb.length + Len(s) - Lesser(crb.length + Len(s), Capacity)
  IN  [crb EXCEPT !.buffer      = StoreFrom(@, crb.end_index, s),
                  !.start_index = Wrap(@ + pushed),
                  !.end_index   = Wrap(@ + Len(s)),
                  !.length      = Lesser(@ + Len(s), Capacity)]

AddStr(s) ==
  /\ crb' = Store(SubSeq(s, Len(s) - Lesser(Len(s), Capacity) + 1, Len(s)))
  /\ out' = Result(0, <<>>)
  /\ UNCHANGED overrun

AddChar(c) ==
  /\ crb' = Store(<<c>>)
  /\ out' = Result(0, <<>>)
  /\ UNCHANGED overrun

\* Nothing is stored once the buffer is full.
AddStrStrict(s) ==
  LET n == Lesser(Len(s), Capacity - crb.length)
  IN  /\ IF s # <<>> /\ crb.length >= Capacity
         THEN /\ out' = Result(FULL, <<>>)
              /\ UNCHANGED crb
         ELSE /\ out' = Result(n, <<>>)
              /\ crb' = Store(SubSeq(s, 1, n))
      /\ UNCHANGED overrun

AddCharStrict(c) == AddStrStrict(<<c>>)

-----------------------------------------------------------------------------
(* Reading. *)

\* Mutant: the start runs off the end of the buffer.
GetNext_NoWrap ==
  /\ IF crb.length = 0
     THEN /\ out' = Result(EOF, <<>>)
          /\ UNCHANGED crb
     ELSE /\ out' = Result(1, <<CharAt(0)>>)
          /\ crb' = [crb EXCEPT !.start_index = @ + 1, !.length = @ - 1]
  /\ UNCHANGED overrun

GetNext ==
  /\ IF crb.length = 0
     THEN /\ out' = Result(EOF, <<>>)
          /\ UNCHANGED crb
     ELSE /\ out' = Result(1, <<CharAt(0)>>)
          /\ crb' = [crb EXCEPT !.start_index = Wrap(@ + 1), !.length = @ - 1]
  /\ UNCHANGED overrun

Peek(offset) ==
  /\ out' = IF offset < crb.length THEN Result(1, <<CharAt(offset)>>)
                                   ELSE Result(EOF, <<>>)
  /\ UNCHANGED <<crb, overrun>>

\* Asked to go past the end, it advances by the excess.
Advance(byte_count) ==
  LET advanced == IF crb.length < byte_count THEN byte_count - crb.length
                                             ELSE byte_count
  IN  /\ IF crb.length = 0
         THEN /\ out' = Result(EOF, <<>>)
              /\ UNCHANGED crb
         ELSE /\ out' = Result(advanced, <<>>)
              /\ crb' = [crb EXCEPT !.start_index = Wrap(@ + advanced),
                                    !.length = (@ - advanced) % Word]
      /\ UNCHANGED overrun

\* Mutant: the second loop is skipped when the contents end at the last slot.
Sprint_NoWrap ==
  /\ out' = Result(0, [k \in 1..Lesser(crb.length, Capacity - crb.start_index) |->
                         CharAt(k - 1)])
  /\ UNCHANGED <<crb, overrun>>

\* The part up to the last slot, then the part from the first one.
Sprint ==
  LET first == Lesser(crb.length, Capacity - crb.start_index)
      second == IF crb.start_index >= crb.end_index
                THEN Lesser(crb.length - first, crb.end_index + 1) ELSE 0
  IN  /\ out' = Result(0, [k \in 1..first |-> crb.buffer[crb.start_index + k - 1]]
                          \o [k \in 1..second |-> crb.buffer[k - 1]])
      /\ UNCHANGED <<crb, overrun>>

-----------------------------------------------------------------------------
(* Filling from a reader that has `text` to give. *)

\* The contiguous room the code computes: for an empty buffer the whole
\* capacity, wherever end_index is.
FreeSpace ==
  IF crb.length = 0 THEN Capacity
  ELSE IF crb.end_index >= crb.start_index THEN Capacity - crb.end_index
       ELSE crb.start_index - crb.end_index

\* The code writes the room it computes from end_index on, which is outside of
\* an empty buffer whose indices have moved (char_ring_buffer.c:45): a client
\* fills another, and is told what the reader has given or that it failed.
Fill(text) ==
  LET n == Lesser(Len(text), FreeSpace)
      inside == Lesser(n, Capacity - crb.end_index)
  IN  /\ FreeSpace <= Capacity - crb.end_index
      /\ \/ /\ crb.length >= Capacity
            /\ out' = Result(FULL, <<>>)
            /\ UNCHANGED <<crb, overrun>>
         \/ /\ crb.length < Capacity
            /\ out' = Result(EOF, <<>>)
            /\ UNCHANGED <<crb, overrun>>
         \/ /\ crb.length < Capacity
            /\ out' = Result(n, <<>>)
            /\ crb' = [crb EXCEPT !.buffer    = StoreFrom(@, crb.end_index, SubSeq(text, 1, inside)),
                                  !.end_index = Wrap(@ + n),
                                  !.length    = @ + n]
            /\ overrun' = n - inside

-----------------------------------------------------------------------------

\* The arena's memory is zeroed; a zero byte is as good as any character.
New ==
  [buffer |-> [i \in Slots |-> CHOOSE c \in Chars : TRUE],
   start_index |-> 0, end_index |-> 0, length |-> 0]

Init ==
  /\ crb = New
  /\ out = Result(0, <<>>)
  /\ overrun = 0

\* json_parser.c advances only over characters it made sure are buffered.
Next ==
  \/ \E s \in Texts : AddStr(s) \/ AddStrStrict(s)
  \/ \E s \in Texts : Fill(s)
  \/ \E c \in Chars : AddChar(c) \/ AddCharStrict(c)
  \/ GetNext
  \/ \E k \in 0..Capacity : Peek(k)
  \/ \E n \in 0..crb.length : Advance(n)
  \/ Sprint

Spec == Init /\ [][Next]_vars

-----------------------------------------------------------------------------
(* The functions CHAR_RING_BUFFER generates for a buffer of a fixed size:   *)
(* the same ones, here with their loops.  A client may mix the two; the     *)
(* struct is the same.                                                      *)

\* One turn of the loop of an add.
Stored(b, c) ==
  [b EXCEPT !.buffer[b.end_index] = c,
            !.start_index = IF b.length = Capacity THEN Wrap(@ + 1) ELSE @,
            !.end_index = Wrap(@ + 1),
            !.length = IF @ = Capacity THEN @ ELSE @ + 1]

\* The last characters of s, as many as there is room for in all.
LastOf(s) == IF Len(s) > Capacity THEN SubSeq(s, Len(s) - Capacity + 1, Len(s)) ELSE s

GeneratedAddStr(s) ==
  /\ crb' = FoldLeft(Stored, crb, LastOf(s))
  /\ out' = Result(0, <<>>)
  /\ UNCHANGED overrun

GeneratedAddChar(c) ==
  /\ crb' = Stored(crb, c)
  /\ out' = Result(0, <<>>)
  /\ UNCHANGED overrun

\* One turn of the loop of a strict add: the buffer and what it has added.
StoredStrict(at, c) ==
  IF at.b.length < Capacity
  THEN [b |-> [at.b EXCEPT !.buffer[at.b.end_index] = c,
                           !.end_index = Wrap(@ + 1), !.length = @ + 1],
        added |-> at.added + 1]
  ELSE at

GeneratedAddStrStrict(s) ==
  LET end == FoldLeft(StoredStrict, [b |-> crb, added |-> 0], s)
      full == s # <<>> /\ crb.length >= Capacity
  IN  /\ crb' = end.b
      /\ out' = Result(IF full THEN FULL ELSE end.added, <<>>)
      /\ UNCHANGED overrun

GeneratedAddCharStrict(c) ==
  LET end == StoredStrict([b |-> crb, added |-> 0], c)
  IN  /\ crb' = end.b
      /\ out' = Result(IF crb.length >= Capacity THEN FULL ELSE 1, <<>>)
      /\ UNCHANGED overrun

\* The length goes down before the character is read.
GeneratedGetNext ==
  /\ \/ /\ crb.length = 0
        /\ out' = Result(EOF, <<>>)
        /\ UNCHANGED crb
     \/ /\ crb.length > 0
        /\ out' = Result(1, <<crb.buffer[crb.start_index]>>)
        /\ crb' = [crb EXCEPT !.length = @ - 1, !.start_index = Wrap(@ + 1)]
  /\ UNCHANGED overrun

GeneratedPeek(offset) ==
  /\ \/ offset >= crb.length /\ out' = Result(EOF, <<>>)
     \/ /\ offset < crb.length
        /\ out' = Result(1, <<crb.buffer[(crb.start_index + offset) % Capacity]>>)
  /\ UNCHANGED <<crb, overrun>>

\* Both loops, over the indices each would visit; either ends with the contents.
GeneratedSprint ==
  LET first == [k \in 1..(Capacity - crb.start_index) |-> crb.start_index + k - 1]
      second == IF crb.start_index >= crb.end_index
                THEN [k \in 1..(crb.end_index + 1) |-> k - 1] ELSE <<>>
      written == FoldLeft(LAMBDA text, i : IF Len(text) < crb.length
                                           THEN Append(text, crb.buffer[i]) ELSE text,
                          <<>>, first \o second)
  IN  /\ out' = Result(0, written)
      /\ UNCHANGED <<crb, overrun>>

\* What the reader writes is in place before the indices move.
GeneratedFill(text) ==
  LET taken == SubSeq(text, 1, Lesser(Len(text), FreeSpace))
      read == [crb EXCEPT !.buffer = StoreFrom(@, crb.end_index, taken)]
  IN  /\ FreeSpace <= Capacity - crb.end_index
      /\ \/ crb.length >= Capacity /\ out' = Result(FULL, <<>>) /\ UNCHANGED crb
         \/ crb.length < Capacity /\ out' = Result(EOF, <<>>) /\ UNCHANGED crb
         \/ /\ crb.length < Capacity
            /\ out' = Result(Len(taken), <<>>)
            /\ crb' = [read EXCEPT !.length = @ + Len(taken),
                                   !.end_index = (@ + Len(taken)) % Capacity]
      /\ UNCHANGED overrun

GeneratedNext ==
  \/ \E s \in Texts : GeneratedAddStr(s) \/ GeneratedAddStrStrict(s) \/ GeneratedFill(s)
  \/ \E c \in Chars : GeneratedAddChar(c) \/ GeneratedAddCharStrict(c)
  \/ GeneratedGetNext
  \/ \E k \in 0..Capacity : GeneratedPeek(k)
  \/ GeneratedSprint

-----------------------------------------------------------------------------
(* Properties. *)

\* Type invariant, and the redundancy of the struct: end_index is always where
\* start_index and length say it is.
TypeOK ==
  /\ crb \in [buffer : [Slots -> Chars], start_index : Slots, end_index : Slots,
              length : 0..Capacity]
  /\ crb.end_index = Wrap(crb.start_index + crb.length)
  /\ overrun = 0

\* The ring buffer implements the bounded queue: every call returns what the
\* queue would return, and leaves the contents the queue would have, wherever
\* the indices have wrapped to.
Queue == INSTANCE CharQueue WITH q <- Contents
ImplementsQueue == Queue!Spec

=============================================================================
