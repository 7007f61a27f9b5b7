----------------------------- MODULE FileCursor -----------------------------
(***************************************************************************)
(* What the JSON parser expects of a byte source: a cursor that moves      *)
(* forward over the bytes of a file, shows the bytes at and after itself,  *)
(* and remembers the last Capacity bytes it moved over.  Looking further   *)
(* than the byte at the cursor may come back with EOF, never with a wrong  *)
(* byte.                                                                   *)
(***************************************************************************)
EXTENDS Integers, Sequences

CONSTANTS Capacity, MaxLook, EOF

VARIABLES file, index, behind, out

Left == SubSeq(file, index + 1, Len(file))

Prefixes(s) == {SubSeq(s, 1, n) : n \in 0..Len(s)}

Recent(s) == SubSeq(s, IF Len(s) > Capacity THEN Len(s) - Capacity + 1 ELSE 1, Len(s))

Look(k) ==
  /\ \/ k >= 1 /\ out' = [k |-> k, ret |-> EOF, text |-> <<>>]
     \/ out' = [k |-> k, text |-> <<>>,
                ret |-> IF index + k < Len(file) THEN file[index + k + 1] ELSE EOF]
  /\ UNCHANGED <<file, index, behind>>

Move(n) ==
  /\ n <= Len(Left)
  /\ index' = index + n
  /\ behind' = Recent(behind \o SubSeq(Left, 1, n))
  /\ \E ret \in {0, n} : out' = [k |-> n, ret |-> ret, text |-> <<>>]
  /\ UNCHANGED file

Show ==
  /\ \E text \in Prefixes(Left) : out' = [k |-> 0, ret |-> 0, text |-> text]
  /\ UNCHANGED <<file, index, behind>>

Init ==
  /\ index = 0
  /\ behind = <<>>
  /\ out = [k |-> 0, ret |-> 0, text |-> <<>>]

Next ==
  \/ \E k \in 0..MaxLook : Look(k) \/ Move(k)
  \/ Show

Spec == Init /\ [][Next]_<<file, index, behind, out>>

=============================================================================
