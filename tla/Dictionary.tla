----------------------------- MODULE Dictionary -----------------------------
(***************************************************************************)
(* What a HashMap promises its client: a finite partial function from keys *)
(* to values.  put returns nothing, so the client is not told when memory  *)
(* runs out and a new key is left out.                                     *)
(***************************************************************************)
EXTENDS Functions

CONSTANTS
  Keys, Values,
  None      \* there is no map

VARIABLE dict

Create == dict = None /\ dict' = <<>>

Put ==
  LET old == dict
      new == dict'
  IN  \E k \in Keys, v \in Values :
        new = [x \in DOMAIN old \cup {k} |-> IF x = k THEN v ELSE old[x]]

Delete ==
  LET old == dict
      new == dict'
  IN  \E k \in Keys : new = Restrict(old, DOMAIN old \ {k})

Clear == dict' = <<>>

Destroy == dict' = None

Init == dict = None

Next ==
  \/ Create
  \/ dict # None /\ (Put \/ Delete \/ Clear \/ Destroy)

Spec == Init /\ [][Next]_dict

=============================================================================
