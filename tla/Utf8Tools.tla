------------------------------ MODULE Utf8Tools -----------------------------
(***************************************************************************)
(* The other two readers of UTF-8 in the library, over a text that ends    *)
(* with a NUL: src/string/string_utils_utf8.c, which checks some of what   *)
(* it reads, and src/unicode/unicode_tools.c, which trusts it.             *)
(***************************************************************************)
EXTENDS Integers, Sequences, SequencesExt, FiniteSets

\* The byte at position p of a text: its NUL behind the end.
Byte(text, p) == IF p <= Len(text) THEN text[p] ELSE 0

ALL_ONES == 2^30   \* stands for the all-ones word, which is no code point

Continuation(b) == b \in 128..191

-----------------------------------------------------------------------------
(* string_utils_utf8.c                                                      *)

\* The number of bytes a lead byte announces, and what it contributes.
Announced(b) ==
  CASE b < 128        -> 1
    [] b \in 192..223 -> 2
    [] b \in 224..239 -> 3
    [] b \in 240..247 -> 4
    [] OTHER          -> 0

\* Mutant: the character after the one at p begins at the next byte.
After_NextByte(text, p) == p + 1

\* Where the character after the one at p begins, walking byte by byte: behind
\* the NUL never; 0 when the walk meets it or p holds no lead byte.
After(text, p) ==
  LET n == Announced(Byte(text, p))
  IN  IF n = 0 \/ \E i \in 0..(n - 1) : Byte(text, p + i) = 0 THEN 0 ELSE p + n

\* sutil8_char_at, index from 0.
CharAt(text, index) ==
  LET start[i \in 0..index] ==
        IF i = 0 THEN 1
        ELSE LET before == start[i - 1]
             IN  IF before = 0 THEN 0 ELSE After(text, before)
      p == start[index]
      n == Announced(Byte(text, p))
      own == Byte(text, p) % <<128, 32, 16, 8>>[n]
  IN  IF p = 0 THEN ALL_ONES
      ELSE IF Byte(text, p) = 0 \/ n = 0 THEN ALL_ONES
      ELSE IF \E i \in 1..(n - 1) : ~Continuation(Byte(text, p + i)) THEN ALL_ONES
      ELSE FoldLeft(LAMBDA cp, b : (cp * 64) + (b % 64), own, SubSeq(text, p + 1, p + n - 1))

\* sutil8_char_count: the bytes that are not continuation bytes.
CharCount(text) == Cardinality({p \in 1..Len(text) : ~Continuation(text[p])})

-----------------------------------------------------------------------------
(* unicode_tools.c                                                          *)

\* utf8_to_codepoint: how many bytes it consumes at p, whatever they are.
Consumed(b) ==
  CASE b \in 192..223 -> 2
    [] b \in 224..239 -> 3
    [] b \in 240..247 -> 4
    [] OTHER          -> 1

\* The code point it finds at p, reading behind the NUL as zeros; -1 is the
\* output variable it leaves as it was.
CodepointAt(text, p) ==
  LET b == Byte(text, p)
      own == b % <<128, 32, 16, 8>>[Consumed(b)]
      bytes == [i \in 1..(Consumed(b) - 1) |-> Byte(text, p + i)]
  IN  IF Consumed(b) = 1 /\ b >= 128 THEN -1
      ELSE FoldLeft(LAMBDA cp, c : (cp * 64) + (c % 64), own, bytes)

MAX_REPR_COLS == 128

\* The columns of repr_hex_and_chars, and the position its loop stops at:
\* behind the NUL when the last character is cut short.
Columns(text) ==
  LET from[p \in 1..(Len(text) + 4)] ==
        IF Byte(text, p) = 0 THEN [cps |-> <<>>, stop |-> p]
        ELSE LET rest == from[p + Consumed(text[p])]
             IN  [rest EXCEPT !.cps = <<CodepointAt(text, p)>> \o @]
  IN  from[1]

\* The bytes repr_hex_and_chars_for_codepoint writes, which refuses nothing.
Written(cp) ==
  LET tail(shift) == 128 + ((cp \div shift) % 64)
      bytes == CASE cp < 128     -> <<cp>>
                 [] cp \in 128..2047   -> <<192 + (cp \div 64), tail(1)>>
                 [] cp \in 2048..65535 -> <<224 + (cp \div 4096), tail(64), tail(1)>>
                 [] OTHER        -> <<240 + (cp \div 262144), tail(4096), tail(64), tail(1)>>
  IN  bytes

\* buffer_writer_impl: what of the bytes still fits.
BufferWrite(buf, capacity, bytes) ==
  LET room == IF Len(buf) < capacity THEN capacity - Len(buf) ELSE 0
  IN  buf \o (IF Len(bytes) < room THEN bytes ELSE SubSeq(bytes, 1, room))

=============================================================================
