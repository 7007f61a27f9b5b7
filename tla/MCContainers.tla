---------------------------- MODULE MCContainers ----------------------------
(***************************************************************************)
(* The sequential containers, each explored on its own: the lists over a   *)
(* memory pool, a vector, a bit set, a map whose values are strings, a     *)
(* string counter; who frees the strings they are given; and the           *)
(* comparisons they rest on.  Which one is chosen in the initial state; the *)
(* others stay as they began.                                              *)
(***************************************************************************)
EXTENDS ArrayList, Vector, BitSet, StringValues, CounterClient, ColValues, Ownership

\* No call looks at an element.
MCSymmetry == Permutations(Values)

MCCounts == {-1, 0, 2}

SampleKeys ==
  {[type |-> t, content |-> c] : t \in {NONE, NULL, VOID_PTR, TEXT}, c \in {"p", "q"}}
  \cup {[type |-> LONG, content |-> n] : n \in 0..2}
  \cup {[type |-> DOUBLE, content |-> d] : d \in {NaN, MinusZero, PlusZero, "1.5"}}

\* Bytes, one of them with the highest bit.
SampleTexts == UNION {[1..n -> {65, 200}] : n \in 0..PointerSize}

VARIABLES
  subject,
  pair       \* the two keys, or the two reference strings, that are compared

vars == <<listVars, vec, bitVars, valueVars, counterVars, ownershipVars, subject, pair>>

Init ==
  /\ subject \in {"lists", "vector", "bits", "values", "counter", "policies", "keys", "references"}
  /\ ListInit /\ VecInit /\ BitInit
  /\ heap = EmptyHeap /\ fault = "none"
  /\ ValuesInit /\ CounterInit /\ OwnershipInit
  /\ subject # "policies" => deal.role = "key" /\ deal.policy = "NONE"
  /\ CASE subject = "keys"       -> pair \in SampleKeys \X SampleKeys
       [] subject = "references" -> pair \in SampleTexts \X SampleTexts
       [] OTHER                  -> pair = <<>>

Next ==
  /\ fault = "none"
  /\ \/ subject = "lists" /\ ListNext
     \/ subject = "vector" /\ VecNext
     \/ subject = "bits" /\ BitNext
     \/ subject = "values" /\ ValuesNext /\ UNCHANGED <<owed, base, pointer>>
     \/ subject = "counter" /\ CounterNext /\ UNCHANGED <<map, policy, said, held, ownString, refused>>
     \/ subject = "policies" /\ OwnershipNext
  /\ subject # "lists" => UNCHANGED listVars
  /\ subject # "vector" => UNCHANGED vec
  /\ subject # "bits" => UNCHANGED bitVars
  /\ subject \notin {"values", "counter"} => UNCHANGED <<valueVars, counterVars>>
  /\ subject # "policies" => UNCHANGED ownershipVars
  /\ UNCHANGED <<subject, pair>>

Spec == Init /\ [][Next]_vars

Sizes == 0..(WordSize - 1)

-----------------------------------------------------------------------------
(* Properties. *)

\* An indexed call touches no element outside its array, and copies no element
\* the caller does not have: but for an array of length zero, whose last index
\* wraps to the largest number there is, and for array_set_all of no elements
\* at the front, or of so many that the last index wraps.  Nothing is said of
\* vector_get_or on an empty vector: vector.h:44-49 promises the fallback for
\* every index not in 0..length-1, and the code answers VEC_ERR_EMPTY.
AccessStaysInside ==
  /\ \A length, index, n \in Sizes :
       /\ CArrayAccess(length, index) \subseteq 0..(length - 1)
       /\ CArrayGetOr(length, index, length) \in 0..length
       /\ ArrayRepr(length) \cup CArrayRepr(length, n) \subseteq 0..(length - 1)
       /\ length > 0 => ArrayAccess(length, index) \subseteq 0..(length - 1)
       /\ n > 0 /\ index + n - 1 < WordSize =>
            /\ SetAllAccess(length, index, n) \subseteq 0..(length - 1)
            /\ SetAllCount(length, index, n) <= n
  /\ vec # NoVector =>
       \A i \in 0..MaxVector, v \in Items :
         /\ VectorGet(i) # Junk
         /\ vec.length > 0 => VectorGetOr(i, v) = IF i < vec.length THEN VectorGet(i) ELSE v
         /\ i < vec.length => VectorGet(i) \in Items
  /\ \A id \in {l \in Lists : lists[l] # Absent}, i \in 0..MaxLength :
       ListGet(lists[id], i) \in Values <=> i < lists[id].size

\* A map of strings keeps for each key the text last put for it, and every
\* string in memory belongs to one of its values: ValuesKeepTheirText and
\* CellsAreAccounted.  A counter on its own keeps the copies of its keys and
\* frees each with its entry.
StringsAreAccounted ==
  /\ subject = "values" => ValuesKeepTheirText /\ CellsAreAccounted
  /\ subject = "counter" /\ fault = "none" =>
       DOMAIN heap.counts = {c \in Cells : heap.text[c] # Free}

\* Keys that are equal hash alike, so that a lookup finds an entry by any key
\* equal to its own, and a key is equal to itself unless it is of no type or
\* NaN, which no lookup finds again.  Reference strings are ordered: equal are
\* the equal ones, and turning the arguments round turns the answer; both
\* files look for a text in the same place, unless it is exactly as long as
\* the room for it, and hash it alike if it is ASCII.
ComparisonsAgree ==
  LET a == pair[1]
      b == pair[2]
  IN  /\ subject = "keys" =>
           /\ Equals(a, b) => RawHash(a) = RawHash(b)
           /\ EqualsKey(a, b) <=> Equals(a, b)
           /\ Equals(a, b) <=> Equals(b, a)
           /\ a = b => Equals(a, b) \/ a.type = NONE \/ a.content = NaN
      /\ subject = "references" =>
           /\ RefCompare(a, b) = -RefCompare(b, a)
           /\ RefCompare(a, b) = 0 <=> a = b
           /\ EqualsRefString(a, b) <=> a = b
           /\ HashString(a) = RefHash(a) <=> \A i \in DOMAIN a : a[i] < 128
           /\ InPlace(Len(a)) = RefInPlace(Len(a)) \/ Len(a) = PointerSize - 1

=============================================================================
