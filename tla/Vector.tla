------------------------------- MODULE Vector -------------------------------
(***************************************************************************)
(* The vectors of src/vector: vector.c for int, and vec_template.inc, the  *)
(* same text for the other element types.  The buffer is a sequence, whose *)
(* place i + 1 is the index i; past length it keeps what was there.  A     *)
(* write past it is lost, so that the element will read as Junk.           *)
(*                                                                         *)
(* And the indexed access of src/array (an array with its length) and      *)
(* src/carray (functions for plain C arrays), as the elements a call reads *)
(* or writes.  A size_t wraps.                                             *)
(***************************************************************************)
EXTENDS Integers, SequencesExt

CONSTANTS
  Items,           \* the elements
  Junk,            \* what is in memory that nobody has written
  NoVector,        \* there is no vector yet
  VecCapacities,   \* arguments of vector_init
  MaxVector,       \* bound: elements of the vector
  Powers,          \* 2 and its doublings to beyond MaxVector
  WordSize,        \* the values of a size_t
  DefaultLimit     \* 10, DEFAULT_LIMIT in carray.c

ASSUME VectorAssumption ==
  /\ MaxVector \in Nat
  /\ VecCapacities \subseteq Nat
  /\ 2 \in Powers /\ Powers \subseteq Nat \ {0}
  /\ \A p \in Powers : (p # 2 => p % 2 = 0 /\ p \div 2 \in Powers) /\ (p <= MaxVector => 2 * p \in Powers)
  /\ NoVector \notin Seq(Items)
  /\ NoVector \notin [v : Seq(Items \cup {Junk}), length : Nat, capacity : Nat]
  /\ Junk \notin Items \cup {"empty", "range"}
  /\ WordSize \in Nat \ {0} /\ DefaultLimit \in Nat

\* The vector: [v, length, capacity], or NoVector before vector_init.
VARIABLE vec

At(v, i) == IF i \in 0..(Len(v) - 1) THEN v[i + 1] ELSE Junk

Elements(v, first, n) == [j \in 1..n |-> At(v, first + j - 1)]

\* memcpy and memmove: the elements src to the buffer v at i.
Moved(v, i, src) ==
  [j \in 1..Len(v) |-> IF j - 1 \in i..(i + Len(src) - 1) THEN src[j - i] ELSE v[j]]

\* The doubling of vector_ensure_capacity: once before its loop, then in it.
Doubled(capacity, wanted) ==
  LET twice == IF capacity = 0 THEN 1 ELSE capacity * 2
  IN  Min({c \in {twice * p : p \in Powers} : c >= wanted})

\* Mutant: a full vector does not grow.
MustGrow_Late(wanted) == wanted > vec.capacity

MustGrow(wanted) == wanted >= vec.capacity

\* vector_ensure_capacity, given memory.
Ensured(wanted) ==
  IF ~MustGrow(wanted) THEN vec
  ELSE LET n == Doubled(vec.capacity, wanted)
       IN  [vec EXCEPT !.v = [i \in 1..n |-> At(vec.v, i - 1)], !.capacity = n]

\* vector_get, where an error is "empty" or "range".
VectorGet(i) ==
  IF vec.length = 0 THEN "empty" ELSE IF vec.length - 1 < i THEN "range" ELSE At(vec.v, i)

\* vector_get_or, which answers "empty" for an empty vector and does not fall back.
VectorGetOr(i, fallback) ==
  IF vec.length # 0 /\ vec.length - 1 < i THEN fallback ELSE VectorGet(i)

-----------------------------------------------------------------------------

\* Given memory; the buffer is cleared, which no call relies on.
VectorInit(n) ==
  /\ vec = NoVector
  /\ vec' = [v |-> [i \in 1..n |-> Junk], length |-> 0, capacity |-> n]

\* vector_append wants room for the elements it has, which grows a full vector.
VectorAppend(element) ==
  LET e == Ensured(vec.length)
  IN  vec' = [e EXCEPT !.v = Moved(@, e.length, <<element>>), !.length = @ + 1]

VectorAppendAll(elements) ==
  LET e == Ensured(vec.length + Len(elements))
  IN  vec' = [e EXCEPT !.v = Moved(@, e.length, elements), !.length = @ + Len(elements)]

VectorInsert(v, i) ==
  LET e == Ensured(vec.length)
      shifted == Moved(e.v, i + 1, Elements(e.v, i, e.length - i))
  IN  vec' = [e EXCEPT !.v = Moved(shifted, i, <<v>>), !.length = @ + 1]

\* realloc gives nothing, or the index is out of range.
VectorRefuses(wanted, i) ==
  /\ MustGrow(wanted) \/ i > vec.length
  /\ UNCHANGED vec

\* vector_pop, vector_pop_or, and vector_pop_unsafe as far as it may be called.
VectorPop == vec.length > 0 /\ vec' = [vec EXCEPT !.length = @ - 1]

VectorDelete(i) ==
  /\ i < vec.length
  /\ vec' = [vec EXCEPT !.v = Moved(@, i, Elements(vec.v, i + 1, vec.length - i - 1)),
                        !.length = @ - 1]

-----------------------------------------------------------------------------

VecInit == vec = NoVector

VecCall ==
  \/ \E n \in 0..2 : \E es \in [1..n -> Items] :
       vec.length + n <= MaxVector /\ VectorAppendAll(es)
  \/ \E v \in Items : vec.length < MaxVector /\ VectorAppend(v)
  \/ \E v \in Items, i \in 0..vec.length : vec.length < MaxVector /\ VectorInsert(v, i)
  \/ \E n, i \in 0..MaxVector : VectorRefuses(n, i)
  \/ VectorPop
  \/ \E i \in 0..MaxVector : VectorDelete(i)

VecNext ==
  \/ \E n \in VecCapacities : VectorInit(n)
  \/ vec # NoVector /\ VecCall

-----------------------------------------------------------------------------
(* Arrays. *)

Wrap(n) == n % WordSize

\* array_get and array_set test index > length - 1.
ArrayRefuses(length, index) == index > Wrap(length - 1)

\* The place they use, none on an error.
ArrayAccess(length, index) == IF ArrayRefuses(length, index) THEN {} ELSE {index}

\* Mutant: not limited to the array.
SetAllCount_All(length, index, n) == IF ArrayRefuses(length, index) \/ length = 0 THEN 0 ELSE n

\* The elements that array_set_all copies from its n elements to index.
SetAllCount(length, index, n) ==
  LET end == Wrap(index + n - 1)
      last_index == IF Wrap(length - 1) < end THEN Wrap(length - 1) ELSE end
  IN  IF ArrayRefuses(length, index) \/ length = 0 THEN 0 ELSE Wrap(last_index - index + 1)

SetAllAccess(length, index, n) == index..(index + SetAllCount(length, index, n) - 1)

\* The elements array_as_array gives out: all in array.c, and in the template
\* those that start in the first length bytes.
AsArray(length, elementSize) == length
TemplateAsArray(length, elementSize) == length \div elementSize

\* carray_get and carray_set.
CArrayRefuses(n, index) == n = 0 \/ index >= n
CArrayAccess(n, index) == IF CArrayRefuses(n, index) THEN {} ELSE {index}

\* What carray_get_or gives out: the place it reads, or the fallback.
CArrayGetOr(n, index, fallback) == IF CArrayRefuses(n, index) THEN fallback ELSE index

AtMost(n, limit) == 0..((IF n < limit THEN n ELSE limit) - 1)

\* The elements that array_repr prints, and carray_repr, whose caller may set
\* the limit.
ArrayRepr(length) == AtMost(length, DefaultLimit)
CArrayRepr(n, limit) == AtMost(n, IF limit = 0 THEN DefaultLimit ELSE limit)

-----------------------------------------------------------------------------
(* Properties. *)

AbstractVector == INSTANCE AbstractLists WITH
  Ids <- {"vector"}, Values <- Items, Absent <- NoVector,
  seqs <- [id \in {"vector"} |-> IF vec = NoVector THEN NoVector ELSE Elements(vec.v, 0, vec.length)]

\* Append, insert, remove and pop, in any order and through growth from any
\* capacity, none too, keep the vector the sequence its client made.
VectorImplementsSequence == AbstractVector!Spec
=============================================================================
