----------------------------- MODULE JsonString -----------------------------
(***************************************************************************)
(* pvt_parse_string of src/json_parser/json_parser.c: escapes, surrogate   *)
(* pairs and the validation of UTF-8, byte by byte.  A step is one turn of *)
(* the function's loop.  The text is what follows the opening quotation    *)
(* mark; it ends with a NUL in a string, and in a file with EOF, which     *)
(* pvt_current_char casts to the byte 0xFF.                                *)
(***************************************************************************)
EXTENDS Integers, Sequences, SequencesExt, Unicode

CONSTANTS
  Texts,     \* sequences of bytes
  AllowU     \* the flag JSON_CONFIG_ALLOW_UNICODE_U_ESCAPE

ASSUME JsonStringAssumption ==
  /\ Texts \subseteq Seq(0..255)
  /\ AllowU \in BOOLEAN

VARIABLES
  text, end,   \* what is read, and the byte that current_char gives behind it
  pos,         \* position of current_char
  sb,          \* the string builder's bytes
  err,         \* error->err_type
  ret,         \* "none" while the loop runs, then "value" or "null"
  scratch      \* ghost: the scratch arena is held

stringVars == <<text, end, pos, sb, err, ret, scratch>>

NUL == 0
QUOTE == 34
REVERSE_SOLIDUS == 92
LOWER_U == 117
UPPER_U == 85

-----------------------------------------------------------------------------
(* Reading.                                                                 *)

\* pvt_current_char at position p.
CurrentChar(p) == IF p <= Len(text) THEN text[p] ELSE end

\* pvt_peek_next_char: at the end of either source EOF, as a char.
PeekNextChar(p) == IF p + 1 <= Len(text) THEN text[p + 1] ELSE 255

\* What a function that may refuse returns: where it stops, what it appended
\* to the builder, the error it recorded, and whether it returned a null.
Accept(p, bytes) == [pos |-> p, bytes |-> bytes, err |-> "NONE", null |-> FALSE]
Reject(p, type) == [pos |-> p, bytes |-> <<>>, err |-> type, null |-> TRUE]

-----------------------------------------------------------------------------
(* Code points.                                                             *)

HexToDec(hex) ==
  CASE hex \in 48..57  -> hex - 48
    [] hex \in 65..70  -> hex - 55
    [] hex \in 97..102 -> hex - 87
    [] OTHER           -> -1

\* pvt_decode_utf8: the bits of the bytes; as many ones lead the first byte as
\* there are bytes.
DecodeUtf8(bytes) ==
  LET own == <<128, 32, 16, 8>>[Len(bytes)]
  IN  FoldLeft(LAMBDA cp, b : (cp * 64) + (b % 64), bytes[1] % own, Tail(bytes))

HighSurrogate(cp) == 55296 <= cp /\ cp <= 56319
LowSurrogate(cp) == 56320 <= cp /\ cp <= 57343

\* pvt_encode_utf8: the bytes appended, or why there are none.  The builder's
\* append of a NUL does nothing (string_builder.c:134).
EncodeUtf8(cp) ==
  LET tail(shift) == 128 + ((cp \div shift) % 64)
  IN  IF HighSurrogate(cp) THEN Reject(0, "RESERVED_FOR_HIGH_SURROGATE")
      ELSE IF LowSurrogate(cp) THEN Reject(0, "RESERVED_FOR_LOW_SURROGATE")
      ELSE CASE cp = 0                        -> Accept(0, <<>>)
             [] 0 < cp /\ cp <= 127           -> Accept(0, <<cp>>)
             [] 127 < cp /\ cp <= 2047        -> Accept(0, <<192 + cp \div 64, tail(1)>>)
             [] 2047 < cp /\ cp <= 65535      -> Accept(0, <<224 + cp \div 4096, tail(64), tail(1)>>)
             [] 65535 < cp /\ cp <= 1114111   -> Accept(0, <<240 + cp \div 262144, tail(4096), tail(64), tail(1)>>)
             [] OTHER                         -> Reject(0, "CODEPOINT_OUT_OF_RANGE")

-----------------------------------------------------------------------------
(* Escapes.                                                                 *)

\* pvt_parse_hex_impl: n hex digits from p on.
ParseHex(p, n) ==
  LET IsHex(i) == HexToDec(CurrentChar(p + i)) >= 0
      digits == CHOOSE m \in 0..n : (\A i \in 0..(m - 1) : IsHex(i)) /\ (m < n => ~IsHex(m))
      value[i \in 0..digits] ==
        IF i = 0 THEN 0 ELSE value[i - 1] * 16 + HexToDec(CurrentChar(p + i - 1))
  IN  [ pos |-> p + digits,
        value |-> IF digits = n THEN value[n] ELSE 0,
        err |-> IF digits = n THEN "NONE"
                ELSE IF CurrentChar(p + digits) = NUL THEN "UNEXPECTED_EOF"
                ELSE "INVALID_UNICODE_ESCAPE" ]

\* An error recorded by an earlier escape of the string is still there.
Recorded(hex) == IF hex.err = "NONE" THEN err ELSE hex.err

\* The bytes of a code point; its refusal is recorded, but not returned.
Encoded(p, cp) == [EncodeUtf8(cp) EXCEPT !.pos = p, !.null = FALSE]

\* The escape \U and six digits, p at the U.
LongEscape(p) ==
  LET hex == ParseHex(p + 1, 6)
  IN  IF ~AllowU THEN Reject(p, "INVALID_ESCAPE_SEQUENCE")
      ELSE IF Recorded(hex) # "NONE" THEN Reject(hex.pos, Recorded(hex))
      ELSE Encoded(hex.pos, hex.value)

\* Mutant: whatever four digits follow a high surrogate are combined with it.
SurrogatePair_AnySecond(p, cp1) ==
  LET hex == ParseHex(p + 2, 4)
  IN  IF CurrentChar(p) # REVERSE_SOLIDUS \/ PeekNextChar(p) # LOWER_U
      THEN Reject(p, "NO_FOLLOWING_LOW_SURROGATE")
      ELSE IF Recorded(hex) # "NONE" THEN Reject(hex.pos, Recorded(hex))
      ELSE Encoded(hex.pos, 65536 + (cp1 - 55296) * 1024 + (hex.value - 56320))

\* What must follow the high surrogate cp1, at p.
SurrogatePair(p, cp1) ==
  LET hex == ParseHex(p + 2, 4)
  IN  IF CurrentChar(p) # REVERSE_SOLIDUS \/ PeekNextChar(p) # LOWER_U
      THEN Reject(p, "NO_FOLLOWING_LOW_SURROGATE")
      ELSE IF Recorded(hex) # "NONE" THEN Reject(hex.pos, Recorded(hex))
      ELSE IF ~LowSurrogate(hex.value) THEN Reject(hex.pos, "NO_FOLLOWING_LOW_SURROGATE")
      ELSE Encoded(hex.pos, 65536 + (cp1 - 55296) * 1024 + (hex.value - 56320))

\* pvt_parse_unicode_escape, p at the u or U.
UnicodeEscape(p) ==
  LET hex == ParseHex(p + 1, 4)
  IN  IF CurrentChar(p) = UPPER_U THEN LongEscape(p)
      ELSE IF Recorded(hex) # "NONE" THEN Reject(hex.pos, Recorded(hex))
      ELSE IF LowSurrogate(hex.value) THEN Reject(hex.pos, "NO_PRECEDING_HIGH_SURROGATE")
      ELSE IF HighSurrogate(hex.value) THEN SurrogatePair(hex.pos, hex.value)
      ELSE Encoded(hex.pos, hex.value)

\* The escapes of one letter and the bytes they stand for: " \ / b f n r t.
Escapes == [b \in {34, 92, 47, 98, 102, 110, 114, 116} |->
  CASE b = 98 -> 8 [] b = 102 -> 12 [] b = 110 -> 10 [] b = 114 -> 13 [] b = 116 -> 9
    [] OTHER -> b]

\* pvt_parse_backlash_escapes, p at the backslash.
BackslashEscape(p) ==
  LET b == CurrentChar(p + 1)
  IN  CASE b = NUL                  -> Reject(p + 1, "UNEXPECTED_EOF")
        [] b \in DOMAIN Escapes     -> Accept(p + 2, <<Escapes[b]>>)
        [] b \in {LOWER_U, UPPER_U} -> UnicodeEscape(p + 1)
        [] OTHER                    -> Reject(p + 1, "INVALID_ESCAPE_SEQUENCE")

-----------------------------------------------------------------------------
(* pvt_validate_utf8.                                                       *)

SequenceLength(lead) ==
  CASE lead <= 127       -> 1
    [] lead \in 194..223 -> 2
    [] lead \in 224..239 -> 3
    [] lead \in 240..244 -> 4
    [] OTHER             -> 0

\* The second bytes a three-byte sequence may have: not those of a longer form
\* than needed (E0), nor of a surrogate (ED).
SecondOfThree(lead) ==
  CASE lead = 224 -> 160..191
    [] lead = 237 -> 128..159
    [] OTHER      -> 128..191

\* Those of a four-byte sequence: not of a longer form than needed (F0), nor
\* beyond the last code point (F4).
SecondOfFour(lead) ==
  CASE lead = 240 -> 144..191
    [] lead = 244 -> 128..143
    [] OTHER      -> 128..191

\* What is said of a second byte b that is not one of those.
SecondByteError(lead, b) ==
  CASE lead \in {224, 240} /\ b \in 128..191 -> "OVERLONG_SEQUENCE"
    [] lead = 237 /\ b \in 160..175          -> "RESERVED_FOR_HIGH_SURROGATE"
    [] lead = 237 /\ b \in 176..191          -> "RESERVED_FOR_LOW_SURROGATE"
    [] lead = 244 /\ b >= 144                -> "CODEPOINT_OUT_OF_RANGE"
    [] OTHER                                 -> "INVALID_UTF8_CONTINUATION_BYTE"

StartByteError(lead) ==
  IF lead \in {192, 193} THEN "OVERLONG_SEQUENCE" ELSE "INVALID_UTF8_START_BYTE"

ValidateUtf8(p) ==
  LET lead == CurrentChar(p)
      n    == SequenceLength(lead)
      Valid(i) == CurrentChar(p + i) \in
        CASE i = 1 /\ n = 3 -> SecondOfThree(lead)
          [] i = 1 /\ n = 4 -> SecondOfFour(lead)
          [] OTHER          -> 128..191
      bad  == {i \in 1..(n - 1) : ~Valid(i) /\ \A j \in 1..(i - 1) : Valid(j)}
  IN  IF n = 0 THEN Reject(p, StartByteError(lead))
      ELSE IF bad = {} THEN Accept(p + n, [i \in 1..n |-> CurrentChar(p + i - 1)])
      ELSE LET i == CHOOSE i \in bad : TRUE
           IN  Reject(p + i, IF i = 1 THEN SecondByteError(lead, CurrentChar(p + 1))
                                      ELSE "INVALID_UTF8_CONTINUATION_BYTE")

-----------------------------------------------------------------------------
(* The loop of pvt_parse_string.                                            *)

\* A function of the loop has returned r.
Continue(r) ==
  /\ pos' = r.pos
  /\ sb' = sb \o r.bytes
  /\ err' = IF r.err = "NONE" THEN err ELSE r.err
  /\ UNCHANGED <<text, end>>

\* Mutant: a return with null keeps the scratch arena.
Finish_NullKeeps(value) ==
  /\ ret' = value
  /\ scratch' = (value = "null")

Finish(value) ==
  /\ ret' = value
  /\ scratch' = FALSE

ClosingQuote ==
  /\ ret = "none" /\ CurrentChar(pos) = QUOTE
  /\ Continue(Accept(pos + 1, <<>>))
  /\ Finish("value")

Escape ==
  /\ ret = "none" /\ CurrentChar(pos) = REVERSE_SOLIDUS
  /\ LET r == BackslashEscape(pos)
     IN  /\ Continue(r)
         /\ IF r.null THEN Finish("null") ELSE UNCHANGED <<ret, scratch>>

ControlChar ==
  /\ ret = "none" /\ CurrentChar(pos) \in 1..31
  /\ Continue(Reject(pos, "UNESCAPED_CONTROL_CHAR"))
  /\ Finish("null")

\* The path that returns without releasing the scratch arena.
Character ==
  /\ ret = "none" /\ CurrentChar(pos) \in 32..255 \ {QUOTE, REVERSE_SOLIDUS}
  /\ LET r == ValidateUtf8(pos)
     IN  /\ Continue(r)
         /\ ret' = IF r.null THEN "null" ELSE "none"
  /\ UNCHANGED scratch

Unterminated ==
  /\ ret = "none" /\ CurrentChar(pos) = NUL
  /\ Continue(Reject(pos, "UNTERMINATED_STRING"))
  /\ Finish("null")

StringInit ==
  /\ text \in Texts
  /\ end \in {NUL, 255}
  /\ pos = 1
  /\ sb = <<>>
  /\ err = "NONE"
  /\ ret = "none"
  /\ scratch = TRUE

StringNext == ClosingQuote \/ Escape \/ ControlChar \/ Character \/ Unterminated

\* pvt_jsonp_parse_impl, for a text that is one string: a value counts only if
\* no error was recorded.
Accepted == ret = "value" /\ err = "NONE"

-----------------------------------------------------------------------------
(* What the text means. *)

\* How a hexadecimal digit is written.
HexDigits(d) == IF d < 10 THEN {48 + d} ELSE {55 + d, 87 + d}

\* The number that the n bytes of a text from p on write, or -1.
Number(t, p, n) ==
  IF p + n - 1 <= Len(t) /\ \A i \in p..(p + n - 1) : \E d \in 0..15 : t[i] \in HexDigits(d)
  THEN FoldLeft(LAMBDA v, h : (v * 16) + (CHOOSE d \in 0..15 : h \in HexDigits(d)),
                0, SubSeq(t, p, p + n - 1))
  ELSE -1

Starts(t, p, bytes) == p + Len(bytes) - 1 <= Len(t) /\ SubSeq(t, p, p + Len(bytes) - 1) = bytes

\* The pieces a string may continue with at p: where they end, what they mean.
Pieces(t, p) ==
       {[next |-> j + 1, means |-> SubSeq(t, p, j)] :
          j \in {j \in p..Len(t) : j < p + 4 /\ t[p] >= 32 /\ t[p] # REVERSE_SOLIDUS
                                       /\ IsCharacter(SubSeq(t, p, j))}}
  \cup {[next |-> p + 2, means |-> <<Escapes[b]>>] : b \in {b \in DOMAIN Escapes : Starts(t, p, <<92, b>>)}}
  \cup {[next |-> p + 6, means |-> Encoding(v)] :
          v \in {v \in {Number(t, p + 2, 4)} : Starts(t, p, <<92, 117>>) /\ IsScalar(v)}}
  \cup {[next |-> p + 8, means |-> Encoding(v)] :
          v \in {v \in {Number(t, p + 2, 6)} : AllowU /\ Starts(t, p, <<92, 85>>) /\ IsScalar(v)}}
  \cup {[next |-> p + 12, means |-> Encoding(65536 + (w[1] - 55296) * 1024 + (w[2] - 56320))] :
          w \in {w \in {<<Number(t, p + 2, 4), Number(t, p + 8, 4)>>} :
                  /\ Starts(t, p, <<92, 117>>) /\ Starts(t, p + 6, <<92, 117>>)
                  /\ 55296 <= w[1] /\ w[1] <= 56319 /\ 56320 <= w[2] /\ w[2] <= 57343}}

\* The string that the text denotes, or none.
Denoted(t) ==
  LET from[p \in 1..(Len(t) + 1)] ==
        IF p > Len(t) THEN IllFormed
        ELSE IF t[p] = QUOTE THEN <<>>
        ELSE IF Pieces(t, p) = {} THEN IllFormed
        ELSE LET piece == CHOOSE piece \in Pieces(t, p) : TRUE
                 tail == from[piece.next]
             IN  IF tail = IllFormed THEN IllFormed ELSE piece.means \o tail
  IN  from[1]

\* A builder's append of a NUL does nothing.
WithoutNul(bytes) ==
  LET kept[n \in 0..Len(bytes)] ==
        IF n = 0 THEN <<>>
        ELSE IF bytes[n] = NUL THEN kept[n - 1] ELSE Append(kept[n - 1], bytes[n])
  IN  kept[Len(bytes)]

-----------------------------------------------------------------------------
(* Properties. *)

\* The parser accepts exactly the strings the standard gives a meaning, and
\* returns the UTF-8 of that meaning: escapes of any form, surrogate pairs and
\* raw bytes.  In particular an error that an escape recorded without refusing
\* (a \U above the last code point, or a surrogate) is not forgotten at the end
\* of the string.  One code point gets lost: the NUL that \u0000 writes.
DecodesAsUnicodeSays ==
  ret # "none" =>
    IF Accepted THEN Denoted(text) # IllFormed /\ sb = WithoutNul(Denoted(text))
                ELSE Denoted(text) = IllFormed

\* The scratch arena is held after the return only if the text is not UTF-8
\* (json_parser.c:1584), or is a file that ends inside the string.
ScratchReleased ==
  ret # "none" /\ scratch =>
    \/ CodePoints(text) = IllFormed
    \/ end = 255 /\ pos > Len(text)

=============================================================================
