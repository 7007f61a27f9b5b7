----------------------------- MODULE CharQueue ------------------------------
(***************************************************************************)
(* What a CharRingBuffer promises its caller: a queue of at most Capacity  *)
(* characters.  An add either pushes the oldest characters out or, in the  *)
(* strict form, takes only what fits; reads take from the front, look at   *)
(* it, or skip over it.  `out` is what the last call returned.             *)
(***************************************************************************)
EXTENDS Integers, Sequences

CONSTANTS
  Chars,       \* the characters
  Capacity,    \* the most characters the queue holds
  MaxAdd,      \* bound: characters in one add
  EOF, FULL    \* error returns, not counts

VARIABLES q, out

Lesser(x, y) == IF x < y THEN x ELSE y

\* The strings a caller may add.
Texts == UNION {[1..n -> Chars] : n \in 0..MaxAdd}

\* The last n characters of s, or all of them.
Suffix(s, n) == SubSeq(s, Len(s) - Lesser(Len(s), n) + 1, Len(s))

Result(ret, text) == [ret |-> ret, text |-> text]

Room == Capacity - Len(q)

Overwrite(s) ==
  /\ q' = Suffix(q \o s, Capacity)
  /\ out' = Result(0, <<>>)

Offer(s) ==
  IF s # <<>> /\ Room = 0
  THEN /\ out' = Result(FULL, <<>>)
       /\ UNCHANGED q
  ELSE LET n == Lesser(Len(s), Room)
       IN  /\ q' = q \o SubSeq(s, 1, n)
           /\ out' = Result(n, <<>>)

\* A reader fills some of the room there is, or fails.
Fill(s) ==
  \/ Room = 0 /\ out' = Result(FULL, <<>>) /\ UNCHANGED q
  \/ Room > 0 /\ out' = Result(EOF, <<>>) /\ UNCHANGED q
  \/ \E n \in 0..Lesser(Len(s), Room) :
       /\ Room > 0
       /\ q' = q \o SubSeq(s, 1, n)
       /\ out' = Result(n, <<>>)

Take ==
  IF q = <<>>
  THEN out' = Result(EOF, <<>>) /\ UNCHANGED q
  ELSE out' = Result(1, <<Head(q)>>) /\ q' = Tail(q)

Look(k) ==
  /\ out' = IF k < Len(q) THEN Result(1, <<q[k + 1]>>) ELSE Result(EOF, <<>>)
  /\ UNCHANGED q

Skip(n) ==
  IF q = <<>>
  THEN out' = Result(EOF, <<>>) /\ UNCHANGED q
  ELSE LET k == Lesser(n, Len(q))
       IN  /\ q' = SubSeq(q, k + 1, Len(q))
           /\ out' = Result(k, <<>>)

ReadAll ==
  /\ out' = Result(0, q)
  /\ UNCHANGED q

Init ==
  /\ q = <<>>
  /\ out = Result(0, <<>>)

Next ==
  \/ \E s \in Texts : Overwrite(s) \/ Offer(s) \/ Fill(s)
  \/ Take
  \/ \E k \in 0..Capacity : Look(k) \/ Skip(k)
  \/ ReadAll

Spec == Init /\ [][Next]_<<q, out>>

=============================================================================
