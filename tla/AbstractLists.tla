---------------------------- MODULE AbstractLists ---------------------------
(***************************************************************************)
(* What a set of growing lists promises: each is a sequence, and a call    *)
(* changes one of them, or none.                                           *)
(***************************************************************************)
EXTENDS Integers, SequencesExt

CONSTANTS
  Ids,      \* the lists there can be
  Values,
  Absent    \* there is no such list

VARIABLE seqs

Exists(l) == seqs[l] # Absent

Become(l, s) == seqs' = [seqs EXCEPT ![l] = s]

Create(l) == ~Exists(l) /\ Become(l, <<>>)

Extend(l) ==
  /\ Exists(l)
  /\ \E n \in 1..2 : \E vs \in [1..n -> Values] : Become(l, seqs[l] \o vs)

Insert(l) ==
  /\ Exists(l)
  /\ \E i \in 1..(Len(seqs[l]) + 1), v \in Values : Become(l, InsertAt(seqs[l], i, v))

Delete(l) ==
  /\ Exists(l)
  /\ \E i \in 1..Len(seqs[l]) : Become(l, RemoveAt(seqs[l], i))

Clear(l) == Exists(l) /\ Become(l, <<>>)

Destroy(l) == Exists(l) /\ Become(l, Absent)

Init == seqs = [l \in Ids |-> Absent]

Next ==
  \E l \in Ids : Create(l) \/ Extend(l) \/ Insert(l) \/ Delete(l) \/ Clear(l) \/ Destroy(l)

Spec == Init /\ [][Next]_seqs

=============================================================================
