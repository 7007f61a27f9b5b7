------------------------------ MODULE JsonParser ----------------------------
(***************************************************************************)
(* The recursive descent parser of src/json_parser/json_parser.c, with the *)
(* C stack made explicit: one frame per parse_object or parse_array that   *)
(* is running.  A text is a sequence of characters; scalars are parsed in  *)
(* one step, by operators that walk the text as the code does.             *)
(*                                                                         *)
(* The four entry points differ in what ends the text (a NUL from a        *)
(* string, from a file EOF, which pvt_current_char casts to the byte 0xFF) *)
(* and in whether they look back at what the parser left unread.           *)
(***************************************************************************)
EXTENDS Integers, SequencesExt

CONSTANTS
  Texts,      \* the texts to parse
  Entries,    \* the entry points: string, ex, file, stream
  Confs,      \* contexts: [depth_max, arrays, objects, bom], the last three
              \* the flags ALLOW_TRAILING_COMMAS_IN_... and FAIL_ON_INITIAL_BOM
  Keyword,    \* the characters of the one keyword, for true, false and null
  NumberRoom, \* 1024, sizeof CharBuffer.buffer
  Behind,     \* what may lie on the stack behind that buffer: the digits there
              \* before a byte that ends a number
  MaxLong,    \* LONG_MAX
  Huge        \* the least whole number that strtod finds too large

ASSUME JsonParserAssumption ==
  /\ Entries \subseteq {"string", "ex", "file", "stream"}
  /\ Confs \subseteq [depth_max : Nat, arrays : BOOLEAN, objects : BOOLEAN, bom : BOOLEAN]
  /\ Keyword \in Seq(STRING) /\ Keyword # <<>>

VARIABLES
  text, entry, conf,   \* what the client passed
  index,               \* position of current_char
  frames,              \* kinds of the objects and arrays being parsed, outermost first
  depth_current,
  pc,
  err                  \* error->err_type

vars == <<text, entry, conf, index, frames, depth_current, pc, err>>

input == <<text, entry, conf>>

-----------------------------------------------------------------------------
(* Characters.  "q" is the quotation mark, "\\" the backslash, "ff" the     *)
(* byte 0xFF and "ctl" a control character.                                 *)

Digits == {"0", "1"}

FromFile == entry \in {"file", "stream"}

End == IF FromFile THEN "ff" ELSE "nul"

\* pvt_current_char with the cursor at i.
At(i) == IF i <= Len(text) THEN text[i] ELSE End

\* The first position from i on whose character is not in chars.
Past(i, chars) ==
  CHOOSE j \in i..(Len(text) + 1) :
    /\ At(j) \notin chars
    /\ \A k \in i..(j - 1) : At(k) \in chars

SkipWhitespace(i) == Past(i, {" "})

-----------------------------------------------------------------------------
(* Scalars: where the parse of the one that begins at i ends, or its error. *)

Ok(end) == [err |-> "NONE", end |-> end]

Error(type) == [err |-> type, end |-> 0]

\* Mutant: a leading zero may be followed by digits.
Number_LeadingZero(i) ==
  LET int == IF At(i) = "-" THEN i + 1 ELSE i
  IN  IF At(int) \in Digits THEN Ok(Past(int, Digits)) ELSE Error("INVALID_NUMBER_FORMAT")

\* One digit and those that follow it.
SomeDigits(i) == IF At(i) \in Digits THEN Ok(Past(i, Digits)) ELSE Error("INVALID_NUMBER_FORMAT")

\* The parts of pvt_parse_number, the last two only if they begin at i.
IntegerPart(i) ==
  IF At(i) = "0" /\ At(i + 1) \in Digits THEN Error("INVALID_NUMBER_FORMAT") ELSE SomeDigits(i)

FractionalPart(i) == IF At(i) = "." THEN SomeDigits(i + 1) ELSE Ok(i)

ExponentPart(i) ==
  IF At(i) # "e" THEN Ok(i)
  ELSE SomeDigits(IF At(i + 1) \in {"-", "+"} THEN i + 2 ELSE i + 1)

Then(s, Part(_)) == IF s.err = "NONE" THEN Part(s.end) ELSE s

\* pvt_parse_number.
Number(i) ==
  Then(Then(IntegerPart(IF At(i) = "-" THEN i + 1 ELSE i), FractionalPart), ExponentPart)

\* What strtol and strtod may find after pvt_add_char_to_buffer for each of the
\* chars: a full buffer takes no more of them and has no NUL at its end, so
\* they read on behind it.
Buffered(chars) ==
  IF Len(chars) < NumberRoom THEN {chars}
  ELSE {SubSeq(chars, 1, NumberRoom) \o more : more \in Behind}

Whole(chars) == \A c \in {".", "e"} : ~Contains(chars, c)

Magnitude(chars) ==
  FoldLeft(LAMBDA n, c : IF c = "-" THEN n ELSE (10 * n) + (IF c = "1" THEN 1 ELSE 0), 0, chars)

Signed(chars) == IF chars[1] = "-" THEN -Magnitude(chars) ELSE Magnitude(chars)

\* What strtol and strtod make of the integer in the buffer.
IntegerValue(chars) ==
  CASE Signed(chars) \in (-MaxLong - 1)..MaxLong -> [type |-> "LONG", of |-> Signed(chars)]
    [] Magnitude(chars) >= Huge                 -> [type |-> "LONG", of |-> 0]
    [] OTHER                                    -> [type |-> "DOUBLE", of |-> chars]

\* The values that the number at i may get: a long, or the double that chars
\* stand for.
NumberValues(i) ==
  LET literal == SubSeq(text, i, Number(i).end - 1)
  IN  {IF Whole(literal) THEN IntegerValue(chars) ELSE [type |-> "DOUBLE", of |-> chars] :
         chars \in Buffered(literal)}

\* pvt_parse_literal_impl.
Literal(i) ==
  LET n    == Len(Keyword)
      same == CHOOSE m \in 0..n :
                /\ \A k \in 1..m : At(i + k - 1) = Keyword[k]
                /\ m < n => At(i + m) # Keyword[m + 1]
  IN  IF same = n THEN Ok(i + n)
      ELSE Error(IF At(i + same) = "nul" THEN "UNEXPECTED_EOF" ELSE "UNEXPECTED_TEXT")

Escapable == {"q", "\\"}

\* pvt_parse_string from its opening quote; JsonString has it in detail.
String(i) ==
  LET scan[j \in (i + 1)..(Len(text) + 1)] ==
        CASE At(j) = "nul" -> Error("UNTERMINATED_STRING")
          [] At(j) = "q"   -> Ok(j + 1)
          [] At(j) = "\\"  -> CASE At(j + 1) = "nul"       -> Error("UNEXPECTED_EOF")
                                [] At(j + 1) \in Escapable -> scan[j + 2]
                                [] OTHER                   -> Error("INVALID_ESCAPE_SEQUENCE")
          [] At(j) = "ctl" -> Error("UNESCAPED_CONTROL_CHAR")
          [] At(j) = "ff"  -> Error("INVALID_UTF8_START_BYTE")
          [] OTHER         -> scan[j + 1]
  IN  scan[i + 1]

Scalar(i) ==
  CASE At(i) = "q"                       -> String(i)
    [] At(i) \in {"-", "."} \cup Digits  -> Number(i)
    [] At(i) = Keyword[1]                -> Literal(i)
    [] OTHER                             -> Error("UNEXPECTED_TEXT")

-----------------------------------------------------------------------------
(* Control.  pc says what runs next: parse_impl before ("start") and after  *)
(* ("end") the root value, parse_value ("value"), parse_one_entry ("key"),  *)
(* the loop of the innermost frame ("loop"), its return of a null ("fail"). *)

Top == frames[Len(frames)]

Closer == IF Top = "array" THEN "]" ELSE "}"

Goto(label, i) ==
  /\ pc' = label
  /\ index' = i
  /\ UNCHANGED err

\* The function that runs records an error, where in the text is left out, and
\* returns null.
Fail(type) ==
  /\ pc' = "fail"
  /\ err' = type
  /\ UNCHANGED index

Keep == UNCHANGED <<frames, depth_current>>

\* The checks of the entry point and of pvt_jsonp_parse_impl before the root
\* value.  A byte order mark is one character here; UTF-32LE begins as UTF-16LE
\* does and is "bom16", and UTF-32BE begins with a NUL, which ends a string.
Start ==
  /\ pc = "start"
  /\ UNCHANGED input
  /\ Keep
  /\ LET i == SkipWhitespace(IF At(1) = "bom8" THEN 2 ELSE 1)
     IN  CASE At(1) = "bom16"                   -> Fail("UNEXPECTED_UTF16_ENCODING")
           [] At(1) = "bom32" /\ FromFile       -> Fail("UNEXPECTED_UTF32_ENCODING")
           [] At(1) = "bom32" /\ ~FromFile      -> Fail("EMPTY_TEXT")
           [] At(1) = "bom8" /\ conf.bom        -> Fail("BOM_NOT_ALLOWED")
           [] At(1) \notin {"bom16", "bom32"} /\ ~(At(1) = "bom8" /\ conf.bom)
                /\ At(i) \in {"nul", "ff"}      -> Fail("EMPTY_TEXT")
           [] OTHER                             -> Goto("value", i)

\* pvt_parse_value of a string, number or literal.
ParseScalar ==
  /\ pc = "value"
  /\ UNCHANGED <<input, frames, depth_current>>
  /\ LET i == SkipWhitespace(index)
         s == Scalar(i)
     IN  /\ At(i) \notin {"{", "["}
         /\ IF s.err # "NONE" THEN Fail(s.err)
            ELSE Goto(IF frames = <<>> THEN "end" ELSE "loop", s.end)

\* pvt_max_depth_exceeded, of the depth one level down.
MaxDepthExceeded == depth_current + 1 > conf.depth_max

\* The beginning of pvt_parse_array and pvt_parse_object.
Open(kind, opener, first) ==
  /\ pc = "value"
  /\ UNCHANGED input
  /\ LET i == SkipWhitespace(index)
         j == SkipWhitespace(i + 1)
     IN  /\ At(i) = opener
         /\ IF MaxDepthExceeded
            THEN /\ Fail("MAX_NESTED_DEPTH_EXCEEDED")
                 /\ UNCHANGED <<frames, depth_current>>
            ELSE /\ frames' = Append(frames, kind)
                 /\ depth_current' = depth_current + 1
                 /\ Goto(IF At(j) \in {"nul", IF kind = "array" THEN "]" ELSE "}"}
                         THEN "loop" ELSE first, j)

OpenArray == Open("array", "[", "value")

OpenObject == Open("object", "{", "key")

\* pvt_parse_one_entry up to its value.
ParseKey ==
  /\ pc = "key"
  /\ UNCHANGED <<input, frames, depth_current>>
  /\ LET i   == SkipWhitespace(index)
         key == String(i)
     IN  IF At(i) # "q"
         THEN Fail("MISSING_OBJECT_KEY")
         ELSE IF key.err # "NONE" THEN Fail(key.err)
         ELSE LET colon == SkipWhitespace(key.end)
                  value == SkipWhitespace(colon + 1)
              IN  CASE At(colon) # ":" -> Fail("MISSING_COLON")
                    [] At(colon) = ":" /\ At(value) = "nul" -> Fail("MISSING_OBJECT_VALUE")
                    [] OTHER -> Goto("value", value)

\* The end of pvt_parse_array or pvt_parse_object, with the cursor on the
\* closing character: back to the caller.
Close(i) ==
  /\ depth_current' = depth_current - 1
  /\ frames' = SubSeq(frames, 1, Len(frames) - 1)
  /\ Goto(IF Len(frames) = 1 THEN "end" ELSE "loop", i + 1)
  /\ UNCHANGED input

TrailingCommaAllowed == IF Top = "array" THEN conf.arrays ELSE conf.objects

CloseAfterElement ==
  /\ pc = "loop"
  /\ At(SkipWhitespace(index)) = Closer
  /\ Close(SkipWhitespace(index))

\* Mutant: the comma before an element is not consumed.
Comma_NotConsumed ==
  /\ pc = "loop"
  /\ At(SkipWhitespace(index)) = ","
  /\ Goto("loop", SkipWhitespace(index))
  /\ UNCHANGED input
  /\ Keep

\* The comma before another element, or before the closing character.
Comma ==
  /\ pc = "loop"
  /\ At(SkipWhitespace(index)) = ","
  /\ LET i == SkipWhitespace(SkipWhitespace(index) + 1)
     IN  CASE At(i) # Closer ->
                Goto(IF Top = "array" THEN "value" ELSE "key", i) /\ UNCHANGED input /\ Keep
           [] At(i) = Closer /\ TrailingCommaAllowed -> Close(i)
           [] OTHER -> Fail("TRAILING_COMMA_NOT_ALLOWED") /\ UNCHANGED input /\ Keep

NoComma ==
  /\ pc = "loop"
  /\ UNCHANGED input
  /\ Keep
  /\ LET c == At(SkipWhitespace(index))
     IN  /\ c \notin {",", Closer}
         /\ Fail(CASE c # "nul" -> "MISSING_COMMA"
                   [] c = "nul" /\ Top = "array" -> "UNTERMINATED_ARRAY"
                   [] OTHER -> "UNTERMINATED_OBJECT")

\* Mutant: the depth is not given back on the way out.
ReturnNull_KeepsDepth ==
  /\ pc = "fail"
  /\ frames # <<>>
  /\ frames' = SubSeq(frames, 1, Len(frames) - 1)
  /\ UNCHANGED <<input, index, pc, depth_current, err>>

\* A null returned to the innermost frame is returned by it; an array gives
\* the error a name of its own.
ReturnNull ==
  /\ pc = "fail"
  /\ frames # <<>>
  /\ err' = IF Top = "array" /\ err = "UNEXPECTED_TEXT" THEN "MISSING_ARRAY_ELEMENT" ELSE err
  /\ depth_current' = depth_current - 1
  /\ frames' = SubSeq(frames, 1, Len(frames) - 1)
  /\ UNCHANGED <<input, index, pc>>

GiveUp ==
  /\ pc = "fail"
  /\ frames = <<>>
  /\ pc' = "done"
  /\ UNCHANGED <<input, index, frames, depth_current, err>>

\* The end of pvt_jsonp_parse_impl and of the entry point: ex and file refuse
\* what was left unread behind a NUL or 0xFF byte.
Finish ==
  /\ pc = "end"
  /\ UNCHANGED <<input, frames, depth_current>>
  /\ index' = SkipWhitespace(index)
  /\ pc' = "done"
  /\ err' = CASE At(index') \notin {"nul", "ff"} -> "UNEXPECTED_TEXT"
              [] At(index') \in {"nul", "ff"} /\ index' <= Len(text) /\ entry \in {"ex", "file"}
                   -> "EXPECTED_EOF"
              [] OTHER -> "NONE"

Init ==
  /\ text \in Texts
  /\ entry \in Entries
  /\ entry = "string" => \A i \in 1..Len(text) : text[i] \notin {"nul", "bom32"}
  /\ conf \in Confs
  /\ index = 1
  /\ frames = <<>>
  /\ depth_current = 0
  /\ pc = "start"
  /\ err = "NONE"

Next ==
  \/ Start
  \/ ParseScalar
  \/ OpenArray
  \/ OpenObject
  \/ ParseKey
  \/ CloseAfterElement
  \/ Comma
  \/ NoComma
  \/ ReturnNull
  \/ GiveUp
  \/ Finish

\* The parser runs in its caller's thread until it returns.
Spec == Init /\ [][Next]_vars /\ WF_vars(Next)

-----------------------------------------------------------------------------
(* Properties. *)

\* depth_current counts the objects and arrays that are being parsed, through
\* every return, so the limit is on nesting and a context is left as it was
\* found.
DepthIsNesting ==
  /\ depth_current = Len(frames)
  /\ depth_current <= conf.depth_max
  /\ pc \in {"start", "end", "done"} => depth_current = 0

\* Every call returns.
Terminates == <>(pc = "done")

=============================================================================
