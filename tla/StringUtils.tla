----------------------------- MODULE StringUtils ----------------------------
(***************************************************************************)
(* src/string/string_utils.c and src/string/string_buffer.c: functions on  *)
(* C strings, most of which return a new one.  A string is the sequence of *)
(* its bytes without the NUL.  Each is what the code computes when malloc  *)
(* gives it memory.                                                        *)
(***************************************************************************)
EXTENDS Integers, Sequences, SequencesExt, FiniteSets

LOCAL Byte(str, i) == IF i < Len(str) THEN str[i + 1] ELSE 0

\* A char converted to uint32_t: its sign is extended, modulo 2^32 to -128..127.
LOCAL Word(c) == IF c < 128 THEN c ELSE c - 256

UINT32_MAX == -1

\* sutil_char_at goes by way of unsigned char, sutil_char_in does not.
SutilCharAt(str, index) == IF index >= Len(str) THEN UINT32_MAX ELSE str[index + 1]

SutilCharIn(c, chars) == \E i \in 1..Len(chars) : c = Word(chars[i])

SutilLower(str) == [i \in 1..Len(str) |-> IF str[i] \in 65..90 THEN str[i] + 32 ELSE str[i]]

SutilUpper(str) == [i \in 1..Len(str) |-> IF str[i] \in 97..122 THEN str[i] - 32 ELSE str[i]]

\* sutil_concat_strings: what the fixed array of arguments holds.
SutilConcat(strs, maxArgs) ==
  FlattenSeq(SubSeq(strs, 1, IF Len(strs) < maxArgs THEN Len(strs) ELSE maxArgs))

-----------------------------------------------------------------------------
(* Searching.  The comparisons stop at a NUL, so they may run off the end.  *)

LOCAL Matches(str, i, sub) == \A k \in 0..(Len(sub) - 1) : Byte(str, i + k) = Byte(sub, k)

SutilStartsWith(str, prefix) == prefix # <<>> /\ str # <<>> /\ Matches(str, 0, prefix)

SutilStartsWithIgnoreCase(str, prefix) ==
  prefix # <<>> /\ str # <<>> /\ Matches(SutilUpper(str), 0, SutilUpper(prefix))

SutilEndsWith(str, suffix) ==
  Len(suffix) <= Len(str) /\ Matches(str, Len(str) - Len(suffix), suffix)

\* sutil_index_start_end_impl_: the first place from start to end, both
\* included.
SutilIndex(str, sub, start, end) ==
  LET at == {i \in start..end : Matches(str, i, sub)}
  IN  IF Len(str) < Len(sub) \/ str = <<>> \/ sub = <<>> \/ start > Len(str) - Len(sub) \/ end > Len(str)
      THEN -1
      ELSE IF at = {} THEN -1 ELSE CHOOSE i \in at : \A j \in at : i <= j

SutilStringsEqual(str1, str2, ignoreCase) ==
  IF ignoreCase THEN SutilLower(str1) = SutilLower(str2) ELSE str1 = str2

-----------------------------------------------------------------------------
(* Stripping and replacing.                                                 *)

SUTIL_WHITESPACE == <<32, 9, 10, 13, 11, 12>>

LOCAL CharSet(chars) == IF chars = <<>> THEN SUTIL_WHITESPACE ELSE chars

\* The number of characters of the set that str begins with.
LOCAL Span(str, chars) ==
  CHOOSE n \in 0..Len(str) :
    /\ \A i \in 1..n : SutilCharIn(Word(str[i]), CharSet(chars))
    /\ n < Len(str) => ~SutilCharIn(Word(str[n + 1]), CharSet(chars))

SutilStripLeft(str, chars) == SubSeq(str, Span(str, chars) + 1, Len(str))

SutilStripRight(str, chars) == SubSeq(str, 1, Len(str) - Span(Reverse(str), chars))

\* sutil_strip measures both ends of the original string.
SutilStrip(str, chars) ==
  LET left == Span(str, chars)
  IN  IF left = Len(str) THEN <<>> ELSE SubSeq(str, left + 1, Len(str) - Span(Reverse(str), chars))

\* sutil_replace_match_chars and sb_replace_match_chars: the new text and the
\* number of replacements.
ReplaceMatchChars(str, match, replacement) ==
  LET hit(i) == \E k \in 1..Len(match) : match[k] = str[i]
  IN  IF match = <<>> \/ replacement = 0 THEN [text |-> str, count |-> 0]
      ELSE [ text  |-> [i \in 1..Len(str) |-> IF hit(i) THEN replacement ELSE str[i]],
             count |-> Cardinality({i \in 1..Len(str) : hit(i)}) ]

-----------------------------------------------------------------------------
(* Padding.                                                                 *)

LOCAL Fill(n, c) == [i \in 1..n |-> c]

SutilPadCenter(str, width, c) ==
  LET left == (width - Len(str)) \div 2
  IN  IF width <= Len(str) THEN str
      ELSE Fill(left, c) \o str \o Fill(width - Len(str) - left, c)

SutilPadLeft(str, width, c) == IF width <= Len(str) THEN str ELSE Fill(width - Len(str), c) \o str

SutilPadRight(str, width, c) == IF width <= Len(str) THEN str ELSE str \o Fill(width - Len(str), c)

LOCAL Sign(str) == IF Byte(str, 0) \in {43, 45} THEN 1 ELSE 0

\* sutil_zfill builds a new string behind the sign.
SutilZFill(str, width) ==
  IF width <= Len(str) THEN str
  ELSE SubSeq(str, 1, Sign(str)) \o Fill(width - Len(str), 48) \o SubSeq(str, Sign(str) + 1, Len(str))

\* sb_zfill moves the digits and the NUL within the widened buffer, then writes
\* the zeros: byte by byte.
SbZFill(str, width) ==
  LET padding == width - Len(str)
      moved(i) == i >= Sign(str) + padding
  IN  IF width <= Len(str) THEN str
      ELSE [i \in 1..width |-> IF moved(i - 1) THEN Byte(str, i - 1 - padding)
                               ELSE IF i - 1 >= Sign(str) THEN 48 ELSE Byte(str, i - 1)]

\* sb_join, of at most maxArgs strings.
SbJoin(separator, strs, maxArgs) ==
  LET n == IF Len(strs) < maxArgs THEN Len(strs) ELSE maxArgs
  IN  FlattenSeq([i \in 1..n |-> IF i < n THEN strs[i] \o separator ELSE strs[i]])

SbCentered(str, width, c) == IF width <= 0 \/ width <= Len(str) THEN str ELSE SutilPadCenter(str, width, c)

=============================================================================
