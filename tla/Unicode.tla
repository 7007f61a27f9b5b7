------------------------------- MODULE Unicode ------------------------------
(***************************************************************************)
(* What the Unicode standard says of UTF-8: the scalar values, and the one *)
(* encoding of each, which is the shortest.  A byte is a number.           *)
(***************************************************************************)
EXTENDS Integers, Sequences, SequencesExt

\* Up to 10FFFF, but for the surrogates D800 to DFFF.
IsScalar(cp) == cp \in Nat /\ (cp < 55296 \/ (57343 < cp /\ cp <= 1114111))

Size(cp) == IF cp < 128 THEN 1 ELSE IF cp < 2048 THEN 2 ELSE IF cp < 65536 THEN 3 ELSE 4

\* What a lead byte holds above its part of the code point.
Mark == <<0, 192, 224, 240>>

Encoding(cp) ==
  LET n == Size(cp)
  IN  [i \in 1..n |-> IF i = 1 THEN Mark[n] + cp \div 64^(n - 1)
                               ELSE 128 + ((cp \div 64^(n - i)) % 64)]

CodePoint(bytes) ==
  FoldLeft(LAMBDA cp, b : cp * 64 + (b - 128), bytes[1] - Mark[Len(bytes)], Tail(bytes))

IsCharacter(bytes) ==
  /\ Len(bytes) \in 1..4
  /\ IsScalar(CodePoint(bytes))
  /\ Encoding(CodePoint(bytes)) = bytes

\* The code points of a text from each position on, if it is well formed.
IllFormed == <<-1>>

CodePoints(text) ==
  LET from[i \in 1..(Len(text) + 1)] ==
        IF i > Len(text) THEN <<>>
        ELSE LET ends == {j \in i..Len(text) : j < i + 4 /\ IsCharacter(SubSeq(text, i, j))}
             IN  IF ends = {} THEN IllFormed
                 ELSE LET j == CHOOSE j \in ends : TRUE
                          rest == from[j + 1]
                      IN  IF rest = IllFormed THEN IllFormed
                          ELSE <<CodePoint(SubSeq(text, i, j))>> \o rest
  IN  from[1]

=============================================================================
