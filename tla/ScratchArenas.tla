---------------------------- MODULE ScratchArenas ---------------------------
(***************************************************************************)
(* The two scratch arenas that src/memory/allocator.c keeps for a thread,  *)
(* and the functions that use them: each takes a scratch arena, allocates  *)
(* what it returns in an arena of its caller's choice, and releases the    *)
(* scratch.  Functions call one another, so scopes nest.                   *)
(*                                                                         *)
(* An arena is the sequence of what lies in it; a mark is a length of it.  *)
(***************************************************************************)
EXTENDS Integers, Sequences

CONSTANTS
  MaxDepth,    \* bound: calls that are running
  MaxResults   \* bound: results that are there at a time

ASSUME ScratchAssumption == MaxDepth \in Nat /\ MaxResults \in Nat

USER == 0      \* an arena that is no scratch arena
Scratches == {1, 2}

MARKER == 0    \* what lies in an arena and is no result
WORK == -1

VARIABLES
  created,   \* THREAD_SCRATCH_ARENAS: whether each slot has its arena
  content,   \* what lies in each arena, oldest first
  calls,     \* the running calls: [target, owner, scratch, mark, result, risky]
  results,   \* ghost: what was returned: [id, arena, owner, risky]
  broken     \* a null pointer was followed

scratchVars == <<created, content, calls, results, broken>>

Top == calls[Len(calls)]

\* Mutant: the pointer that stands for the conflicts is compared, not each.
Serves_Anyone(slot, conflicts) == TRUE

\* A slot that is in none of the conflicts.  An arena that could not be created
\* is the null pointer, which no caller names.
Serves(slot, conflicts) == slot \notin conflicts \/ ~created[slot]

\* The slot whose arena alok_arena_get_scratch gives: one conflict at most
\* leaves one of the two.
Chosen(conflicts) == IF Serves(1, conflicts) THEN 1 ELSE 2

\* The first call of a thread creates both arenas.  When one is refused the
\* caller gets no arena: the library's own callers use it all the same, a
\* careful client does not; after that it asks again for the first only.
FirstCall ==
  /\ ~broken /\ ~created[1]
  /\ \E m \in {<<TRUE, TRUE>>, <<TRUE, FALSE>>, <<FALSE, FALSE>>}, careful \in BOOLEAN :
       /\ created' = m
       /\ broken' = ~(careful \/ m[2])
  /\ UNCHANGED <<content, calls, results>>

\* The arenas a call can be asked to leave its result in, and the call each
\* belongs to: the user's, the one the caller was given, the caller's scratch.
Targets ==
  {[arena |-> USER, owner |-> 0]} \cup
  (IF calls = <<>> THEN {} ELSE {[arena |-> Top.target, owner |-> Top.owner],
                                 [arena |-> Top.scratch, owner |-> Len(calls)]})

\* A function is called to leave its result in a target.  slice_split names it
\* as a conflict; pvt_parse_string passes its address too, but a count of 0.
\* The scope begins with a mark, below a marker of its own.
Call(conflict, t) ==
  LET slot == Chosen(IF conflict THEN {t.arena} ELSE {})
  IN  /\ ~broken /\ created[1] /\ Len(calls) < MaxDepth
      /\ IF created[slot]
         THEN /\ calls' = Append(calls, [ target |-> t.arena, owner |-> t.owner, scratch |-> slot,
                                          mark |-> Len(content[slot]), result |-> 0,
                                          risky |-> (~conflict /\ t.arena = slot) \/
                                                   (t.owner < Len(calls) /\ calls # <<>> /\ Top.risky) ])
              /\ content' = [content EXCEPT ![slot] = Append(@, MARKER)]
              /\ UNCHANGED broken
         ELSE broken' = TRUE /\ UNCHANGED <<content, calls>>
      /\ UNCHANGED <<created, results>>

\* The running function allocates something for itself.
Work ==
  /\ ~broken /\ calls # <<>>
  /\ WORK \notin {content[Top.scratch][i] : i \in (Top.mark + 1)..Len(content[Top.scratch])}
  /\ content' = [content EXCEPT ![Top.scratch] = Append(@, WORK)]
  /\ UNCHANGED <<created, calls, results, broken>>

Used == {r.id : r \in results} \cup {calls[i].result : i \in 1..Len(calls)}

\* It allocates its result.
Result ==
  /\ ~broken /\ calls # <<>> /\ Top.result = 0
  /\ \E id \in 1..MaxResults :
       /\ id \notin Used /\ \A j \in 1..(id - 1) : j \in Used
       /\ content' = [content EXCEPT ![Top.target] = Append(@, id)]
       /\ calls' = [calls EXCEPT ![Len(calls)].result = id]
  /\ UNCHANGED <<created, results, broken>>

\* alok_arena_release_scratch, and the return to the caller.  What was left in
\* the scratch of this call nobody asks for any more.
ReturnFrom ==
  LET n == Len(calls)
      mine == [id |-> Top.result, arena |-> Top.target, owner |-> Top.owner, risky |-> Top.risky]
  IN  /\ ~broken /\ calls # <<>> /\ Top.result # 0
      /\ content' = [content EXCEPT ![Top.scratch] = SubSeq(@, 1, Top.mark)]
      /\ calls' = SubSeq(calls, 1, n - 1)
      /\ results' = {r \in results \cup {mine} : r.owner < n}
      /\ UNCHANGED <<created, broken>>

ScratchInit ==
  /\ created = <<FALSE, FALSE>>
  /\ content = [a \in Scratches \cup {USER} |-> <<>>]
  /\ calls = <<>> /\ results = {} /\ broken = FALSE

ScratchNext ==
  \/ FirstCall
  \/ \E conflict \in BOOLEAN : \E t \in Targets : Call(conflict, t)
  \/ Work
  \/ Result
  \/ ReturnFrom

-----------------------------------------------------------------------------
(* Properties. *)

\* What a function returns in the arena of its caller is there after it has
\* released its scratch arena, and as long as the caller that owns the arena
\* runs, however calls nest: unless the function took the arena it was to
\* return the result in for its scratch, which pvt_parse_string does when it
\* is given the first scratch arena (json_parser.c:1539).  A null arena is
\* used only after the second could not be created (allocator.c:249).
ResultsSurvive ==
  /\ \A r \in results : ~r.risky => \E i \in 1..Len(content[r.arena]) : content[r.arena][i] = r.id
  /\ broken => ~created[2]

=============================================================================
