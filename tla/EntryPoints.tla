----------------------------- MODULE EntryPoints ----------------------------
(***************************************************************************)
(* The entry points of src/json_parser/json_parser.c, called one after the *)
(* other with one JsonParseError: what they open and close, what they      *)
(* leave in the error, and the report that is printed of it.               *)
(*                                                                         *)
(* The descent itself is JsonParser's.  Here a text says what comes of it: *)
(* [chars, tail, err, cursor, bad], the error of pvt_parse_value or of the *)
(* checks around it ("NONE" for none), how many characters it was past     *)
(* then, and how many lie before the one it blames.  tail is what follows  *)
(* a NUL that ends the text early.                                         *)
(***************************************************************************)
EXTENDS Integers, SequencesExt

CONSTANTS
  Documents,   \* the texts
  Afters,      \* the bytes that may lie behind a buffer that is all text
  Window,      \* 40: the characters kept before and shown after the cursor
  MaxCalls     \* bound

ASSUME EntryAssumption ==
  /\ Window \in Nat \ {0}
  /\ \A d \in Documents :
       /\ d.chars \in Seq(Int \ {0}) /\ d.tail \in Seq(Int)
       /\ {d.bad, d.cursor} \subseteq Nat /\ d.bad <= d.cursor /\ d.cursor <= Len(d.chars)
       /\ d.err # "NULL_TEXT"
       /\ d.chars = <<>> /\ d.tail = <<>> => d.err = "EMPTY_TEXT"

VARIABLES
  error,     \* [type, lab, behind, ahead, cursor, bad], buffers with their NUL
  call,      \* the running call: [entry, doc, after, at], or NoCall
  handles,   \* the FILEs, curl handles and malloc's chunks the library holds
  value,     \* whether the last call returned a value
  fresh,     \* ghost: whether the error was zero when the call began
  recorded,  \* ghost: whether the call recorded an error in the text
  made       \* ghost: how many calls were made

entryVars == <<error, call, handles, value, fresh, recorded, made>>

NUL == 0
NEWLINE == -1
SPACE == -2

Buffer == 1..(Window + 1)

Zeros == [i \in Buffer |-> NUL]

NoError == [type |-> "NONE", lab |-> 0, behind |-> Zeros, ahead |-> Zeros, cursor |-> 0, bad |-> 0]

NoText == [chars |-> <<>>, tail |-> <<>>, err |-> "EMPTY_TEXT", cursor |-> 0, bad |-> 0]

NoCall == [entry |-> "none", doc |-> NoText, after |-> NUL, at |-> "done"]

Least(a, b) == IF a < b THEN a ELSE b

\* The memory of a buffer once s and a NUL are written to it.
Written(old, s) == [i \in Buffer |-> IF i <= Len(s) THEN s[i] ELSE IF i = Len(s) + 1 THEN NUL ELSE old[i]]

-----------------------------------------------------------------------------
(* Recording an error.                                                      *)

\* The look-behind buffer is a CharRingBuffer of the last characters passed.
Behind(d, cursor) == SubSeq(d.chars, cursor - Least(cursor, Window) + 1, cursor)

\* The characters ahead, for a file those behind a NUL too, and how they reach
\* the buffer: a string's are copied without a NUL after them; a file at its
\* known end leaves the buffer as it is; a stream of unknown length shows no
\* more than it has buffered.
LookAhead(entry, d, cursor, old) ==
  LET whole == d.chars \o (IF d.tail = <<>> THEN <<>> ELSE <<NUL>> \o d.tail)
      ahead(s) == SubSeq(s, cursor + 1, Least(cursor + Window, Len(s)))
      text == ahead(d.chars)
  IN  CASE entry \in {"string", "ex", "url"} ->
             {[i \in Buffer |-> IF i <= Len(text) THEN text[i] ELSE IF i > Window THEN NUL ELSE old[i]]}
        [] entry \in {"file", "stream"} ->
             {IF cursor = Len(whole) THEN old ELSE Written(old, ahead(whole))}
        [] entry = "pipe" ->
             {Written(old, SubSeq(ahead(whole), 1, n)) : n \in Least(1, Len(ahead(whole)))..Len(ahead(whole))}

\* pvt_record_error, then the caller's correction of first_bad_char for a few
\* errors, which are the only ones that set lab_offset.
Recorded(entry, d, old, type, cursor, bad) ==
  { [ type |-> type, behind |-> Written(old.behind, Behind(d, cursor)), ahead |-> a,
      lab |-> IF bad < cursor THEN cursor - bad ELSE old.lab, cursor |-> cursor, bad |-> bad ] :
    a \in LookAhead(entry, d, cursor, old.ahead) }

\* Whether the input is empty to the parser.
Empty(d) == d.chars = <<>> /\ d.tail = <<>>

\* A string is read one byte beyond its size.  When that is no NUL the cursor
\* stays there: an error of some kind, or a loop that does not end.
RunsOver ==
  /\ call.after # NUL /\ call.doc.tail = <<>>
  /\ (call.doc.err = "NONE" \/ call.doc.cursor = Len(call.doc.chars))

Unread == call.doc.err = "NONE" /\ call.doc.tail # <<>> /\ call.entry \in {"ex", "url", "file"}

\* Mutant: the type of an earlier error is not taken back.
Outcomes_KeepsType(entry, d) ==
  IF d.err # "NONE" THEN Recorded(entry, d, error, d.err, d.cursor, d.bad) ELSE {error}

\* pvt_jsonp_parse_impl, and what an entry point that knows the length of the
\* text makes of what is left of it: what the error may be in the end.  Only
\* the type of an earlier error is taken back.
Outcomes(entry, d) ==
  IF d.err # "NONE" THEN Recorded(entry, d, error, d.err, d.cursor, d.bad)
  ELSE IF Unread THEN Recorded(entry, d, error, "EXPECTED_EOF", Len(d.chars), Len(d.chars))
  ELSE {[error EXCEPT !.type = "NONE"]}

-----------------------------------------------------------------------------
(* The calls.                                                               *)

Begin(entry, d, after, at) ==
  /\ call.at = "done" /\ made < MaxCalls
  /\ call' = [entry |-> entry, doc |-> d, after |-> after, at |-> at]
  /\ fresh' = (error = NoError)
  /\ recorded' = FALSE
  /\ made' = made + 1
  /\ UNCHANGED <<error, value>>

Goto(at) == call' = [call EXCEPT !.at = at]

\* The call returns a value or none.
Return(v) == Goto("done") /\ value' = v

\* The client clears the error, as the example of the documentation does.
ClearError ==
  /\ call.at = "done" /\ error # NoError
  /\ error' = NoError
  /\ call' = NoCall
  /\ recorded' = FALSE
  /\ UNCHANGED <<handles, value, fresh, made>>

\* jsonp_parse_string, with its own context or the caller's, and _ex, which is
\* told the size: a NUL may end the text early, or not follow it.
ParseString(d) == d.tail = <<>> /\ Begin("string", d, NUL, "parse") /\ UNCHANGED handles

ParseStringEx(d) ==
  \E after \in Afters : Begin("ex", d, after, "parse") /\ UNCHANGED handles

\* A null pointer instead of a text, a file name or a stream.
ParseNull ==
  /\ call.at = "done" /\ made < MaxCalls
  /\ error' = [NoError EXCEPT !.type = "NULL_TEXT"]
  /\ call' = [NoCall EXCEPT !.entry = "null"]
  /\ value' = FALSE
  /\ fresh' = FALSE /\ recorded' = FALSE
  /\ made' = made + 1
  /\ UNCHANGED <<handles>>

ParseFile(d) == Begin("file", d, NUL, "stat") /\ UNCHANGED handles

\* jsonp_parse_stream of a FILE whose size can be told, or a pipe.
ParseStream(entry, d) == Begin(entry, d, NUL, "parse") /\ UNCHANGED handles

\* What lies behind the download: a NUL after each piece of it, but nothing was
\* ever written to the memory when there is none.
Downloaded(d) == IF d.chars = <<>> /\ d.tail = <<>> THEN Afters ELSE {NUL}

\* jsonp_parse_url: memory for the download and a curl handle.
ParseUrl(d) ==
  \E after \in Downloaded(d) : Begin("url", d, after, "fetch") /\ handles' = handles + 2

Refuse(type) ==
  /\ error' = [error EXCEPT !.type = type]
  /\ Return(FALSE)

\* jsonp_parse_file: the file is there, it can be opened, its size can be told.
Stat ==
  /\ call.at = "stat"
  /\ \/ Goto("open") /\ UNCHANGED <<error, value>>
     \/ Refuse("FILE_NOT_FOUND")
     \/ Refuse("FILE_ACCESS_ERROR")
  /\ UNCHANGED <<handles, fresh, recorded, made>>

Open ==
  /\ call.at = "open"
  /\ \/ Goto("size") /\ handles' = handles + 1 /\ UNCHANGED <<error, value>>
     \/ Refuse("FILE_OPEN_FAILED") /\ UNCHANGED handles
  /\ UNCHANGED <<fresh, recorded, made>>

\* Mutant: the file stays open when its size cannot be told.
Size_StaysOpen ==
  /\ call.at = "size"
  /\ \/ Goto("parse") /\ UNCHANGED <<error, handles, value>>
     \/ Refuse("FILE_OPEN_FAILED") /\ UNCHANGED handles
  /\ UNCHANGED <<fresh, recorded, made>>

\* fseek, ftell and fseek, each with its own way out.
Size ==
  /\ call.at = "size"
  /\ \/ Goto("parse") /\ UNCHANGED <<error, handles, value>>
     \/ Refuse("FILE_OPEN_FAILED") /\ handles' = handles - 1
  /\ UNCHANGED <<fresh, recorded, made>>

\* The download, in pieces that WriteMemoryCallback appends; it may fail, for
\* want of memory too.
Fetch ==
  /\ call.at = "fetch"
  /\ \/ Goto("parse") /\ UNCHANGED <<error, handles, value>>
     \/ Refuse("FILE_ACCESS_ERROR") /\ handles' = handles - 2
  /\ UNCHANGED <<fresh, recorded, made>>

\* What the library holds when the parse is over: a file is closed, a download
\* released, a stream is the client's.
Released ==
  handles' = CASE call.entry = "file" -> handles - 1
               [] call.entry = "url"  -> handles - 2
               [] OTHER               -> handles

\* A text that is empty for the parser zeroes all of the error.
ParseEmpty ==
  /\ call.at = "parse" /\ Empty(call.doc) /\ call.after = NUL
  /\ error' = [NoError EXCEPT !.type = "EMPTY_TEXT"]
  /\ Return(FALSE)
  /\ Released
  /\ UNCHANGED <<fresh, recorded, made>>

Parse ==
  /\ call.at = "parse" /\ ~Empty(call.doc) /\ ~RunsOver
  /\ error' \in Outcomes(call.entry, call.doc)
  /\ recorded' = (call.doc.err # "NONE" \/ Unread)
  /\ Return(error'.type = "NONE")
  /\ Released
  /\ UNCHANGED <<fresh, made>>

ParseOver ==
  /\ call.at = "parse" /\ RunsOver
  /\ \/ Goto("loops") /\ UNCHANGED <<error, value, handles, recorded>>
     \/ /\ error' \in Recorded(call.entry, call.doc, error, "UNEXPECTED_TEXT",
                               Len(call.doc.chars), Len(call.doc.chars))
        /\ Return(FALSE)
        /\ Released
        /\ recorded' = TRUE
  /\ UNCHANGED <<fresh, made>>

EntryInit ==
  /\ error = NoError /\ call = NoCall
  /\ handles = 0
  /\ value = FALSE
  /\ fresh = TRUE /\ recorded = FALSE
  /\ made = 0

EntryNext ==
  \/ ClearError
  \/ ParseNull
  \/ \E d \in Documents :
       \/ ParseString(d)
       \/ ParseStringEx(d)
       \/ ParseFile(d)
       \/ \E e \in {"stream", "pipe"} : ParseStream(e, d)
       \/ ParseUrl(d)
  \/ Stat
  \/ Open
  \/ Size
  \/ Fetch
  \/ ParseEmpty
  \/ Parse
  \/ ParseOver

-----------------------------------------------------------------------------
(* The report.                                                              *)

LEFT == -3     \* the markers > and <
RIGHT == -4
WILD == <<-5>>

CString(b) ==
  LET n == CHOOSE k \in 0..(Window + 1) :
             (\A i \in 1..k : b[i] # NUL) /\ (k = Window + 1 \/ b[k + 1] = NUL)
  IN  SubSeq(b, 1, n)

\* sb_replace_match_chars.
ReplaceMatchChars(s, match, with) == [i \in 1..Len(s) |-> IF s[i] \in match THEN with ELSE s[i]]

\* Mutant: the markers are put around the character before.
InsertPos_Before(n, lab) == n - lab - 1

InsertPos(n, lab) == n - lab

\* The line of text that jsonp_print_parse_error prints below the message.  An
\* offset larger than what is kept is an index outside of the builder.
Report ==
  LET behind == CString(error.behind)
      ahead == CString(error.ahead)
      at == InsertPos(Len(behind), error.lab)
      rest == CString([i \in Buffer |-> IF i > Window THEN NUL ELSE error.ahead[i + 1]])
      text == IF error.lab > 0
              THEN SubSeq(behind, 1, at) \o <<LEFT, behind[at + 1], RIGHT>>
                     \o SubSeq(behind, at + 2, Len(behind)) \o ahead
              ELSE behind \o <<LEFT>> \o SubSeq(ahead, 1, Least(1, Len(ahead))) \o <<RIGHT>> \o rest
  IN  IF error.type = "NULL_TEXT" \/ (error.type = "EMPTY_TEXT" /\ behind = <<>>) THEN <<>>
      ELSE IF error.lab > Len(behind) THEN WILD
      ELSE ReplaceMatchChars(text, {NEWLINE}, SPACE)

-----------------------------------------------------------------------------
(* Properties. *)

Done == call.at = "done"

\* Whatever fails on the way, a call gives back each file, handle and chunk it
\* took, once.
HandlesReleased == Done => handles = 0

\* Whether a call returns a value is a matter of its own text, whatever an
\* earlier call has left in the error; an error is told exactly when there is
\* no value; and every call returns, unless the buffer it was given or has
\* downloaded has no NUL behind it (json_parser.c:348): for a download, when
\* that is empty.
VerdictIsOfThisCall ==
  /\ Done /\ call.entry # "none" =>
       /\ value <=> error.type = "NONE"
       /\ value => call.doc.err = "NONE" /\ ~Unread /\ call.after = NUL
       /\ ~value /\ call.after = NUL =>
            \/ Unread \/ call.doc.err = error.type
            \/ call.entry \in {"null", "file", "url"}
  /\ call.at = "loops" =>
       /\ call.after # NUL
       /\ call.entry = "ex" \/ (call.entry = "url" /\ Empty(call.doc))

\* The report of an error in the text shows what lies around the place where
\* the parser stopped, and its markers the character that is to blame: when
\* the error was zero before the call, and that character is still kept.  Of
\* a pipe it shows as much as was read.
ReportShowsTheText ==
  Done /\ recorded /\ fresh /\ error.cursor - error.bad <= Window /\ error.type # "EMPTY_TEXT" =>
    LET d == call.doc
        shown == ReplaceMatchChars(d.chars, {NEWLINE}, SPACE)
        from == error.cursor - Least(error.cursor, Window)
        marked == SubSeq(shown, from + 1, error.bad) \o <<LEFT>>
                    \o SubSeq(shown, error.bad + 1, Least(error.bad + 1, Len(shown))) \o <<RIGHT>>
        all == marked \o SubSeq(shown, error.bad + 2, Least(error.cursor + Window, Len(shown)))
    IN  IF call.entry = "pipe" \/ d.tail # <<>> THEN IsPrefix(marked, Report) ELSE Report = all

=============================================================================
