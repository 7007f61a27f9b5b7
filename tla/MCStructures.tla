---------------------------- MODULE MCStructures ----------------------------
(***************************************************************************)
(* The structures below the rest of the library, each explored on its own: *)
(* the arena, the ring buffer with the functions its macro generates, the  *)
(* file source, the hash map, and the globals of the parser in several     *)
(* threads.  Which one is chosen in the initial state.                     *)
(***************************************************************************)
EXTENDS CharRingBuffer, Arena, FileInput, HashMap, JsonGlobals, TLC

MCEOF == -1
MCFULL == -3

\* Properties of the globals are safety alone, and treat all of these alike.
MCSymmetry == Permutations(Threads) \cup Permutations(Configs) \cup Permutations(Addresses)

VARIABLE subject

MCvars == <<vars, arenaVars, inputVars, mapVars, globalsVars, subject>>

MCInit ==
  /\ subject \in {"ring", "arena", "input", "map", "globals"}
  /\ Init /\ ArenaInit /\ InputInit /\ MapInit /\ GlobalsInit
  /\ subject # "input" => file = <<>> /\ length_bytes = 0

MCNext ==
  /\ \/ subject = "ring" /\ (Next \/ GeneratedNext)
     \/ subject = "arena" /\ ArenaNext
     \/ subject = "input" /\ InputNext
     \/ subject = "map" /\ MapNext
     \/ subject = "globals" /\ GlobalsNext
  /\ subject # "ring" => UNCHANGED vars
  /\ subject # "arena" => UNCHANGED arenaVars
  /\ subject # "input" => UNCHANGED inputVars
  /\ subject # "map" => UNCHANGED mapVars
  /\ subject # "globals" => UNCHANGED globalsVars
  /\ UNCHANGED subject

MCSpec == MCInit /\ [][MCNext]_MCvars

=============================================================================
