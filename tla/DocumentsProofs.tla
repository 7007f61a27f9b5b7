--------------------------- MODULE DocumentsProofs --------------------------
(***************************************************************************)
(* Theorems about what surrounds the parser: its entry points, the tree it *)
(* builds, and the scratch arenas and the pool beside them.                *)
(***************************************************************************)
EXTENDS EntryPoints, JsonTree, ScratchArenas, PoolAllocator, SequenceTheorems,
        NaturalsInduction, WellFoundedInduction, TLAPS

(* The entry points. *)

EntrySpec == EntryInit /\ [][EntryNext]_entryVars

Entries == {"none", "null", "string", "ex", "file", "stream", "pipe", "url"}

\* What an entry point holds at each of its steps.
HeldAt(at, entry) ==
  IF at = "size" THEN 1
  ELSE IF at = "fetch" THEN 2
  ELSE IF at \in {"parse", "loops"} /\ entry = "file" THEN 1
  ELSE IF at \in {"parse", "loops"} /\ entry = "url" THEN 2
  ELSE 0

CallShape ==
  /\ call = [entry |-> call.entry, doc |-> call.doc, after |-> call.after, at |-> call.at]
  /\ call.entry \in Entries
  /\ call.doc \in Documents \cup {NoText}
  /\ call.at \in {"done", "stat", "open", "size", "fetch", "parse", "loops"}
  /\ call.at \in {"stat", "open", "size"} => call.entry = "file"
  /\ call.at = "fetch" => call.entry = "url"
  /\ call.entry \in {"none", "null"} => call.at = "done"

ErrorShape ==
  error = [type |-> error.type, lab |-> error.lab, behind |-> error.behind,
           ahead |-> error.ahead, cursor |-> error.cursor, bad |-> error.bad]

\* The memory behind a text is the caller's in jsonp_parse_string_ex, and that
\* of an empty download.
AfterText ==
  /\ call.after # NUL => call.entry = "ex" \/ (call.entry = "url" /\ Empty(call.doc))
  /\ call.entry = "string" => call.doc.tail = <<>>

HandlesHeld == handles = HeldAt(call.at, call.entry)

EntryInv == CallShape /\ ErrorShape /\ AfterText /\ HandlesHeld /\ VerdictIsOfThisCall

LEMMA EntryInvInit == EntryInit => EntryInv
BY DEF EntryInit, EntryInv, CallShape, ErrorShape, AfterText, HandlesHeld, HeldAt, VerdictIsOfThisCall,
       NoCall, NoError, Entries, Done


\* A record written by pvt_record_error is one, and of the type it is given.
LEMMA RecordedType ==
  ASSUME NEW entry, NEW d, NEW old, NEW type, NEW cursor, NEW bad,
         NEW e \in Recorded(entry, d, old, type, cursor, bad)
  PROVE  /\ e.type = type
         /\ e = [type |-> e.type, lab |-> e.lab, behind |-> e.behind, ahead |-> e.ahead,
                 cursor |-> e.cursor, bad |-> e.bad]
<1>1. PICK a \in LookAhead(entry, d, cursor, old.ahead) :
        e = [ type |-> type, behind |-> Written(old.behind, Behind(d, cursor)), ahead |-> a,
              lab |-> IF bad < cursor THEN cursor - bad ELSE old.lab, cursor |-> cursor, bad |-> bad ]
  BY DEF Recorded
<1>. QED BY <1>1

\* Beginning a call leaves it in the shape of a call.
LEMMA BeginInv ==
  ASSUME EntryInv, NEW d \in Documents, NEW after, NEW entry \in Entries \ {"none", "null"}, NEW at,
         Begin(entry, d, after, at),
         at \in {"stat", "fetch", "parse"}, at = "stat" => entry = "file", at = "fetch" => entry = "url",
         after # NUL => entry = "ex" \/ (entry = "url" /\ Empty(d)), entry = "string" => d.tail = <<>>
  PROVE  CallShape' /\ ErrorShape' /\ AfterText' /\ VerdictIsOfThisCall' /\ handles = 0
<1>1. call' = [entry |-> entry, doc |-> d, after |-> after, at |-> at] /\ error' = error /\ handles = 0
  BY DEF Begin, EntryInv, HandlesHeld, HeldAt
<1>2. CallShape'
  BY <1>1 DEF CallShape, Entries
<1>3. ErrorShape'
  BY <1>1 DEF EntryInv, ErrorShape
<1>4. AfterText'
  BY <1>1 DEF AfterText, Empty, NUL
<1>5. VerdictIsOfThisCall'
  BY <1>1 DEF VerdictIsOfThisCall, Done
<1>. QED BY <1>1, <1>2, <1>3, <1>4, <1>5

\* Every step of the entry points preserves the invariant.
LEMMA EntryInvStep == EntryInv /\ [EntryNext]_entryVars => EntryInv'
<1>. SUFFICES ASSUME EntryInv, [EntryNext]_entryVars PROVE EntryInv'
  OBVIOUS
<1>. USE DEF Done
<1>1. CASE ClearError
  <2>1. error' = NoError /\ call' = NoCall /\ handles' = handles /\ call.at = "done"
    BY <1>1 DEF ClearError
  <2>. QED BY <2>1 DEF EntryInv, CallShape, ErrorShape, AfterText, HandlesHeld, HeldAt, VerdictIsOfThisCall,
                       NoError, NoCall, Entries
<1>2. CASE ParseNull
  <2>1. /\ error' = [NoError EXCEPT !.type = "NULL_TEXT"] /\ call' = [NoCall EXCEPT !.entry = "null"]
        /\ handles' = handles /\ call.at = "done" /\ value' = FALSE
    BY <1>2 DEF ParseNull
  <2>. QED BY <2>1 DEF EntryInv, CallShape, ErrorShape, AfterText, HandlesHeld, HeldAt, VerdictIsOfThisCall,
                       NoError, NoCall, Entries
<1>3. ASSUME NEW d \in Documents, ParseString(d) PROVE EntryInv'
  <2>1. Begin("string", d, NUL, "parse") /\ d.tail = <<>> /\ handles' = handles
    BY <1>3 DEF ParseString
  <2>2. CallShape' /\ ErrorShape' /\ AfterText' /\ VerdictIsOfThisCall' /\ handles = 0
    BY <2>1, BeginInv DEF Entries
  <2>. QED BY <2>1, <2>2 DEF EntryInv, HandlesHeld, HeldAt, Begin
<1>4. ASSUME NEW d \in Documents, ParseStringEx(d) PROVE EntryInv'
  <2>1. PICK after \in Afters : Begin("ex", d, after, "parse") /\ handles' = handles
    BY <1>4 DEF ParseStringEx
  <2>2. CallShape' /\ ErrorShape' /\ AfterText' /\ VerdictIsOfThisCall' /\ handles = 0
    BY <2>1, BeginInv DEF Entries
  <2>. QED BY <2>1, <2>2 DEF EntryInv, HandlesHeld, HeldAt, Begin
<1>5. ASSUME NEW d \in Documents, ParseFile(d) PROVE EntryInv'
  <2>1. Begin("file", d, NUL, "stat") /\ handles' = handles
    BY <1>5 DEF ParseFile
  <2>2. CallShape' /\ ErrorShape' /\ AfterText' /\ VerdictIsOfThisCall' /\ handles = 0
    BY <2>1, BeginInv DEF Entries
  <2>. QED BY <2>1, <2>2 DEF EntryInv, HandlesHeld, HeldAt, Begin
<1>6. ASSUME NEW d \in Documents, NEW e \in {"stream", "pipe"}, ParseStream(e, d) PROVE EntryInv'
  <2>1. Begin(e, d, NUL, "parse") /\ handles' = handles
    BY <1>6 DEF ParseStream
  <2>2. CallShape' /\ ErrorShape' /\ AfterText' /\ VerdictIsOfThisCall' /\ handles = 0
    BY <2>1, BeginInv DEF Entries
  <2>. QED BY <2>1, <2>2 DEF EntryInv, HandlesHeld, HeldAt, Begin
<1>7. ASSUME NEW d \in Documents, ParseUrl(d) PROVE EntryInv'
  <2>1. PICK after \in Downloaded(d) : Begin("url", d, after, "fetch") /\ handles' = handles + 2
    BY <1>7 DEF ParseUrl
  <2>2. after # NUL => Empty(d)
    BY DEF Downloaded, Empty
  <2>3. CallShape' /\ ErrorShape' /\ AfterText' /\ VerdictIsOfThisCall' /\ handles = 0
    BY <2>1, <2>2, BeginInv DEF Entries
  <2>. QED BY <2>1, <2>3 DEF EntryInv, HandlesHeld, HeldAt, Begin
<1>8. CASE Stat
  <2>1. call.at = "stat" /\ handles' = handles
    BY <1>8 DEF Stat
  <2>2. \/ call' = [call EXCEPT !.at = "open"] /\ error' = error
        \/ \E type \in {"FILE_NOT_FOUND", "FILE_ACCESS_ERROR"} :
             error' = [error EXCEPT !.type = type] /\ call' = [call EXCEPT !.at = "done"] /\ value' = FALSE
    BY <1>8 DEF Stat, Refuse, Return, Goto
  <2>. QED BY <2>1, <2>2
           DEF EntryInv, CallShape, ErrorShape, AfterText, HandlesHeld, HeldAt, VerdictIsOfThisCall, Empty
<1>9. CASE Open
  <2>1. call.at = "open"
    BY <1>9 DEF Open
  <2>2. \/ call' = [call EXCEPT !.at = "size"] /\ error' = error /\ handles' = handles + 1
        \/ /\ error' = [error EXCEPT !.type = "FILE_OPEN_FAILED"]
           /\ call' = [call EXCEPT !.at = "done"] /\ value' = FALSE /\ handles' = handles
    BY <1>9 DEF Open, Refuse, Return, Goto
  <2>. QED BY <2>1, <2>2
           DEF EntryInv, CallShape, ErrorShape, AfterText, HandlesHeld, HeldAt, VerdictIsOfThisCall, Empty
<1>10. CASE Size
  <2>1. call.at = "size"
    BY <1>10 DEF Size
  <2>2. \/ call' = [call EXCEPT !.at = "parse"] /\ error' = error /\ handles' = handles
        \/ /\ error' = [error EXCEPT !.type = "FILE_OPEN_FAILED"]
           /\ call' = [call EXCEPT !.at = "done"] /\ value' = FALSE /\ handles' = handles - 1
    BY <1>10 DEF Size, Refuse, Return, Goto
  <2>. QED BY <2>1, <2>2
           DEF EntryInv, CallShape, ErrorShape, AfterText, HandlesHeld, HeldAt, VerdictIsOfThisCall, Empty
<1>11. CASE Fetch
  <2>1. call.at = "fetch"
    BY <1>11 DEF Fetch
  <2>2. \/ call' = [call EXCEPT !.at = "parse"] /\ error' = error /\ handles' = handles
        \/ /\ error' = [error EXCEPT !.type = "FILE_ACCESS_ERROR"]
           /\ call' = [call EXCEPT !.at = "done"] /\ value' = FALSE /\ handles' = handles - 2
    BY <1>11 DEF Fetch, Refuse, Return, Goto
  <2>. QED BY <2>1, <2>2
           DEF EntryInv, CallShape, ErrorShape, AfterText, HandlesHeld, HeldAt, VerdictIsOfThisCall, Empty
<1>12. CASE ParseEmpty
  <2>1. /\ call.at = "parse" /\ Empty(call.doc) /\ call.after = NUL
        /\ error' = [NoError EXCEPT !.type = "EMPTY_TEXT"]
        /\ call' = [call EXCEPT !.at = "done"] /\ value' = FALSE
    BY <1>12 DEF ParseEmpty, Return, Goto
  <2>2. call.doc.err = "EMPTY_TEXT"
    BY <2>1, EntryAssumption DEF EntryInv, CallShape, NoText, Empty
  <2>3. handles' = 0
    BY <1>12, <2>1 DEF ParseEmpty, Released, EntryInv, HandlesHeld, HeldAt
  <2>. QED BY <2>1, <2>2, <2>3
           DEF EntryInv, CallShape, ErrorShape, AfterText, HandlesHeld, HeldAt, VerdictIsOfThisCall, Empty, NoError
<1>13. CASE Parse
  <2>1. /\ call.at = "parse" /\ ~RunsOver /\ error' \in Outcomes(call.entry, call.doc)
        /\ call' = [call EXCEPT !.at = "done"] /\ value' = (error'.type = "NONE")
    BY <1>13 DEF Parse, Return, Goto
  <2>2. handles' = 0
    BY <1>13, <2>1 DEF Parse, Released, EntryInv, HandlesHeld, HeldAt
  <2>3. /\ ErrorShape'
        /\ error'.type = IF call.doc.err # "NONE" THEN call.doc.err
                         ELSE IF Unread THEN "EXPECTED_EOF" ELSE "NONE"
    <3>1. CASE call.doc.err # "NONE"
      <4>1. error' \in Recorded(call.entry, call.doc, error, call.doc.err, call.doc.cursor, call.doc.bad)
        BY <2>1, <3>1 DEF Outcomes
      <4>. QED BY <4>1, <3>1, RecordedType DEF ErrorShape
    <3>2. CASE call.doc.err = "NONE" /\ Unread
      <4>1. error' \in Recorded(call.entry, call.doc, error, "EXPECTED_EOF",
                                Len(call.doc.chars), Len(call.doc.chars))
        BY <2>1, <3>2 DEF Outcomes
      <4>. QED BY <4>1, <3>2, RecordedType DEF ErrorShape
    <3>3. CASE call.doc.err = "NONE" /\ ~Unread
      BY <2>1, <3>3 DEF Outcomes, EntryInv, ErrorShape
    <3>. QED BY <3>1, <3>2, <3>3
  <2>4. call.after # NUL /\ call.doc.err = "NONE" => Unread
    BY <2>1 DEF EntryInv, AfterText, RunsOver, Unread
  <2>5. call'.entry = call.entry /\ call'.doc = call.doc /\ call'.after = call.after /\ call'.at = "done"
    BY <2>1 DEF EntryInv, CallShape
  <2>6. Unread' = Unread
    BY <2>5 DEF Unread
  <2>7. VerdictIsOfThisCall'
    BY <2>1, <2>3, <2>4, <2>5, <2>6 DEF VerdictIsOfThisCall
  <2>. QED BY <2>1, <2>2, <2>3, <2>5, <2>7 DEF EntryInv, CallShape, AfterText, HandlesHeld, HeldAt, Empty
<1>14. CASE ParseOver
  <2>1. call.at = "parse" /\ call.after # NUL
    BY <1>14 DEF ParseOver, RunsOver
  <2>2. CASE Goto("loops") /\ handles' = handles /\ error' = error
    BY <2>1, <2>2 DEF Goto, EntryInv, CallShape, ErrorShape, AfterText, HandlesHeld, HeldAt, VerdictIsOfThisCall,
                      Empty
  <2>3. CASE /\ error' \in Recorded(call.entry, call.doc, error, "UNEXPECTED_TEXT",
                                     Len(call.doc.chars), Len(call.doc.chars))
             /\ Return(FALSE) /\ Released
    <3>1. error'.type = "UNEXPECTED_TEXT" /\ ErrorShape'
      BY <2>3, RecordedType DEF ErrorShape
    <3>2. handles' = 0
      BY <2>1, <2>3 DEF Released, EntryInv, HandlesHeld, HeldAt
    <3>. QED BY <2>1, <2>3, <3>1, <3>2
             DEF Return, Goto, EntryInv, CallShape, AfterText, HandlesHeld, HeldAt, VerdictIsOfThisCall, Empty
  <2>. QED BY <1>14, <2>2, <2>3 DEF ParseOver
<1>15. CASE UNCHANGED entryVars
  BY <1>15 DEF entryVars, EntryInv, CallShape, ErrorShape, AfterText, HandlesHeld, HeldAt, VerdictIsOfThisCall,
               Unread, Empty
<1>. QED BY <1>1, <1>2, <1>3, <1>4, <1>5, <1>6, <1>7, <1>8, <1>9, <1>10, <1>11, <1>12, <1>13, <1>14, <1>15
         DEF EntryNext

\* However a call ends, and whichever call it is, the library holds no file,
\* curl handle or download of it any more (jsonp_parse_file, jsonp_parse_url
\* and jsonp_parse_stream in json_parser.c).
THEOREM EntryPointsReleaseHandles == EntrySpec => []HandlesReleased
<1>1. EntryInv => HandlesReleased
  BY DEF EntryInv, HandlesHeld, HeldAt, HandlesReleased, Done
<1>. QED BY <1>1, EntryInvInit, EntryInvStep, PTL DEF EntrySpec

\* The verdict of a call is a matter of its own text, whatever the calls before
\* it have left in the JsonParseError, and only a buffer with no NUL behind its
\* text can keep a call from returning.
THEOREM EntryPointsJudgeTheText == EntrySpec => []VerdictIsOfThisCall
<1>1. EntryInv => VerdictIsOfThisCall
  BY DEF EntryInv
<1>. QED BY <1>1, EntryInvInit, EntryInvStep, PTL DEF EntrySpec

-----------------------------------------------------------------------------
(* The report.                                                              *)

\* The text as the report shows it.
Shown(s) == ReplaceMatchChars(s, {NEWLINE}, SPACE)

\* Stretches of a text.
LEMMA StretchIs ==
  ASSUME NEW s \in Seq(Int), NEW a \in Nat \ {0}, NEW b \in 0..Len(s)
  PROVE  /\ SubSeq(s, a, b) \in Seq(Int)
         /\ Len(SubSeq(s, a, b)) = IF a <= b THEN b - a + 1 ELSE 0
         /\ \A i \in 1..(b - a + 1) : SubSeq(s, a, b)[i] = s[a + i - 1]
<1>1. Len(s) \in Nat /\ \A i \in a..b : s[i] \in Int
  OBVIOUS
<1>2. QED
  BY <1>1, SubSeqProperties

LEMMA ShownIs ==
  ASSUME NEW s \in Seq(Int)
  PROVE  /\ Shown(s) \in Seq(Int) /\ Len(Shown(s)) = Len(s)
         /\ \A i \in 1..Len(s) : Shown(s)[i] = IF s[i] = NEWLINE THEN SPACE ELSE s[i]
<1>1. Shown(s) = [i \in 1..Len(s) |-> IF s[i] \in {NEWLINE} THEN SPACE ELSE s[i]]
  BY DEF Shown, ReplaceMatchChars
<1>2. Len(s) \in Nat /\ \A i \in 1..Len(s) : s[i] \in Int
  OBVIOUS
<1>3. QED
  BY <1>1, <1>2 DEF SPACE, NEWLINE

LEMMA ShownConcat ==
  ASSUME NEW s \in Seq(Int), NEW t \in Seq(Int)
  PROVE  Shown(s \o t) = Shown(s) \o Shown(t)
<1>1. s \o t \in Seq(Int) /\ Len(s \o t) = Len(s) + Len(t)
      /\ \A i \in 1..(Len(s) + Len(t)) : (s \o t)[i] = IF i <= Len(s) THEN s[i] ELSE t[i - Len(s)]
  BY ConcatProperties
<1>2. /\ Shown(s) \in Seq(Int) /\ Len(Shown(s)) = Len(s)
      /\ \A i \in 1..Len(s) : Shown(s)[i] = IF s[i] = NEWLINE THEN SPACE ELSE s[i]
  BY ShownIs
<1>3. /\ Shown(t) \in Seq(Int) /\ Len(Shown(t)) = Len(t)
      /\ \A i \in 1..Len(t) : Shown(t)[i] = IF t[i] = NEWLINE THEN SPACE ELSE t[i]
  BY ShownIs
<1>4. /\ Shown(s \o t) \in Seq(Int) /\ Len(Shown(s \o t)) = Len(s) + Len(t)
      /\ \A i \in 1..(Len(s) + Len(t)) :
           Shown(s \o t)[i] = IF (s \o t)[i] = NEWLINE THEN SPACE ELSE (s \o t)[i]
  BY <1>1, ShownIs
<1>5. /\ Shown(s) \o Shown(t) \in Seq(Int) /\ Len(Shown(s) \o Shown(t)) = Len(s) + Len(t)
      /\ \A i \in 1..(Len(s) + Len(t)) :
           (Shown(s) \o Shown(t))[i] = IF i <= Len(s) THEN Shown(s)[i] ELSE Shown(t)[i - Len(s)]
  <2> DEFINE u == Shown(s)  v == Shown(t)
  <2>1. u \in Seq(Int) /\ v \in Seq(Int) /\ Len(u) = Len(s) /\ Len(v) = Len(t)
    BY <1>2, <1>3
  <2> HIDE DEF u, v
  <2>2. /\ u \o v \in Seq(Int) /\ Len(u \o v) = Len(u) + Len(v)
        /\ \A i \in 1..(Len(u) + Len(v)) : (u \o v)[i] = IF i <= Len(u) THEN u[i] ELSE v[i - Len(u)]
    BY <2>1, ConcatProperties
  <2>3. /\ u \o v \in Seq(Int) /\ Len(u \o v) = Len(s) + Len(t)
        /\ \A i \in 1..(Len(s) + Len(t)) : (u \o v)[i] = IF i <= Len(s) THEN u[i] ELSE v[i - Len(s)]
    BY <2>1, <2>2
  <2>4. QED
    BY <2>3 DEF u, v
<1>6. ASSUME NEW i \in 1..(Len(s) + Len(t)) PROVE Shown(s \o t)[i] = (Shown(s) \o Shown(t))[i]
  <2>1. i \in Int /\ Len(s) \in Nat /\ Len(t) \in Nat
    OBVIOUS
  <2>2. CASE i <= Len(s)
    <3>1. i \in 1..Len(s)
      BY <2>1, <2>2
    <3>2. (s \o t)[i] = s[i] /\ (Shown(s) \o Shown(t))[i] = Shown(s)[i]
      BY <2>2, <1>1, <1>5
    <3>3. QED
      BY <3>1, <3>2, <1>2, <1>4
  <2>3. CASE ~(i <= Len(s))
    <3>1. i - Len(s) \in 1..Len(t)
      BY <2>1, <2>3
    <3>2. (s \o t)[i] = t[i - Len(s)] /\ (Shown(s) \o Shown(t))[i] = Shown(t)[i - Len(s)]
      BY <2>3, <1>1, <1>5
    <3>3. QED
      BY <3>1, <3>2, <1>3, <1>4
  <2>4. QED
    BY <2>2, <2>3
<1>7. QED
  BY <1>4, <1>5, <1>6, SeqEqual

LEMMA ShownStretch ==
  ASSUME NEW s \in Seq(Int), NEW a \in Nat \ {0}, NEW b \in 0..Len(s)
  PROVE  Shown(SubSeq(s, a, b)) = SubSeq(Shown(s), a, b)
<1> DEFINE n == IF a <= b THEN b - a + 1 ELSE 0
<1>1. /\ SubSeq(s, a, b) \in Seq(Int) /\ Len(SubSeq(s, a, b)) = n
      /\ \A i \in 1..(b - a + 1) : SubSeq(s, a, b)[i] = s[a + i - 1]
  BY StretchIs
<1>2. /\ Shown(s) \in Seq(Int) /\ Len(Shown(s)) = Len(s)
      /\ \A i \in 1..Len(s) : Shown(s)[i] = IF s[i] = NEWLINE THEN SPACE ELSE s[i]
  BY ShownIs
<1>3. /\ SubSeq(Shown(s), a, b) \in Seq(Int) /\ Len(SubSeq(Shown(s), a, b)) = n
      /\ \A i \in 1..(b - a + 1) : SubSeq(Shown(s), a, b)[i] = Shown(s)[a + i - 1]
  <2> DEFINE t == Shown(s)
  <2>1. t \in Seq(Int) /\ b \in 0..Len(t)
    BY <1>2
  <2> HIDE DEF t
  <2>2. /\ SubSeq(t, a, b) \in Seq(Int) /\ Len(SubSeq(t, a, b)) = n
        /\ \A i \in 1..(b - a + 1) : SubSeq(t, a, b)[i] = t[a + i - 1]
    BY <2>1, StretchIs
  <2>3. QED
    BY <2>2 DEF t
<1>4. /\ Shown(SubSeq(s, a, b)) \in Seq(Int) /\ Len(Shown(SubSeq(s, a, b))) = n
      /\ \A i \in 1..n : Shown(SubSeq(s, a, b))[i] =
           IF SubSeq(s, a, b)[i] = NEWLINE THEN SPACE ELSE SubSeq(s, a, b)[i]
  BY <1>1, ShownIs
<1>5. ASSUME NEW i \in 1..n PROVE Shown(SubSeq(s, a, b))[i] = SubSeq(Shown(s), a, b)[i]
  <2>1. Len(s) \in Nat /\ i \in 1..(b - a + 1) /\ a + i - 1 \in 1..Len(s)
    OBVIOUS
  <2>2. QED
    BY <2>1, <1>1, <1>2, <1>3, <1>4
<1>6. QED
  BY <1>3, <1>4, <1>5, SeqEqual

\* A C string in a buffer.
LEMMA CStringIs ==
  ASSUME NEW b, NEW n \in 0..Window, \A i \in 1..n : b[i] # NUL, b[n + 1] = NUL
  PROVE  CString(b) = SubSeq(b, 1, n)
<1> DEFINE P(k) == (\A i \in 1..k : b[i] # NUL) /\ (k = Window + 1 \/ b[k + 1] = NUL)
<1>1. Window \in Nat
  BY EntryAssumption
<1>2. n \in 0..(Window + 1) /\ P(n)
  BY <1>1
<1>3. ASSUME NEW k \in 0..(Window + 1), P(k) PROVE k = n
  <2>1. ~(n + 1 <= k)
    BY <1>1, <1>3
  <2>2. ~(k + 1 <= n)
    <3>1. SUFFICES ASSUME k + 1 <= n PROVE FALSE
      OBVIOUS
    <3>2. k # Window + 1 /\ k + 1 \in 1..n
      BY <1>1, <3>1
    <3>3. QED
      BY <1>3, <3>2
  <2>3. QED
    BY <1>1, <2>1, <2>2
<1>4. (CHOOSE k \in 0..(Window + 1) : P(k)) = n
  BY <1>2, <1>3
<1>5. QED
  BY <1>4 DEF CString

LEMMA LeastNumber ==
  ASSUME NEW S \in SUBSET Nat, S # {}
  PROVE  \E n \in S : \A k \in S : n <= k
<1> DEFINE R == OpToRel(<, Nat)
<1>1. IsWellFoundedOn(R, Nat)
  BY NatLessThanWellFounded
<1> HIDE DEF R
<1>2. PICK n \in S : \A k \in S : ~ (<<k, n>> \in R)
  BY <1>1, WFMin
<1>3. \A p \in Nat \X Nat : p[1] < p[2] => p \in R
  BY DEF R, OpToRel
<1>4. ASSUME NEW k \in S
      PROVE  n <= k
  <2>1. <<k, n>> \in Nat \X Nat /\ <<k, n>>[1] = k /\ <<k, n>>[2] = n
    OBVIOUS
  <2>2. ~(k < n)
    BY <1>2, <1>3, <2>1
  <2>3. QED
    BY <2>2
<1>5. QED
  BY <1>4

LEMMA CStringIsText ==
  ASSUME NEW b, \A i \in Buffer : b[i] \in Int, b[Window + 1] = NUL
  PROVE  CString(b) \in Seq(Int)
<1> DEFINE S == {k \in 0..Window : b[k + 1] = NUL}
<1>1. Window \in Nat
  BY EntryAssumption
<1>2. S \in SUBSET Nat /\ Window \in S
  BY <1>1
<1>3. PICK n \in S : \A k \in S : n <= k
  <2>1. S # {}
    BY <1>2
  <2> HIDE DEF S
  <2>2. QED
    BY <2>1, <1>2, LeastNumber
<1>4. n \in 0..Window /\ b[n + 1] = NUL
  BY <1>3
<1>5. ASSUME NEW i \in 1..n PROVE b[i] # NUL
  <2>1. i - 1 \in 0..Window /\ ~(n <= i - 1) /\ (i - 1) + 1 = i
    BY <1>1, <1>4
  <2>2. i - 1 \notin S
    BY <1>3, <2>1
  <2>3. QED
    BY <2>1, <2>2
<1>6. \A i \in 1..n : b[i] \in Int
  BY <1>1, <1>4 DEF Buffer
<1>7. CString(b) = SubSeq(b, 1, n)
  BY <1>4, <1>5, CStringIs
<1>8. QED
  BY <1>4, <1>6, <1>7, SubSeqProperties

LEMMA CStringOfText ==
  ASSUME NEW b, NEW s \in Seq(Int \ {NUL}), Len(s) <= Window,
         \A i \in 1..Len(s) : b[i] = s[i], b[Len(s) + 1] = NUL
  PROVE  CString(b) = s
<1>1. Len(s) \in 0..Window /\ Window \in Nat
  BY EntryAssumption
<1>2. \A i \in 1..Len(s) : s[i] \in Int /\ s[i] # NUL
  OBVIOUS
<1>3. CString(b) = SubSeq(b, 1, Len(s))
  BY <1>1, <1>2, CStringIs
<1>4. /\ SubSeq(b, 1, Len(s)) \in Seq(Int) /\ Len(SubSeq(b, 1, Len(s))) = Len(s)
      /\ \A i \in 1..Len(s) : SubSeq(b, 1, Len(s))[i] = b[i]
  <2> DEFINE n == Len(s)
  <2>1. n \in Nat /\ \A i \in 1..n : b[i] \in Int
    BY <1>2
  <2> HIDE DEF n
  <2>2. /\ SubSeq(b, 1, n) \in Seq(Int) /\ Len(SubSeq(b, 1, n)) = n
        /\ \A i \in 1..n : SubSeq(b, 1, n)[i] = b[i]
    BY <2>1, SubSeqProperties
  <2>3. QED
    BY <2>2 DEF n
<1>5. s \in Seq(Int)
  BY <1>2
<1>6. QED
  BY <1>3, <1>4, <1>5, SeqEqual

\* The characters before the cursor.
LEMMA BehindIs ==
  ASSUME NEW d, d.chars \in Seq(Int \ {NUL}), NEW cursor \in 0..Len(d.chars)
  PROVE  CString(Written(Zeros, Behind(d, cursor))) = SubSeq(d.chars, cursor - Least(cursor, Window) + 1, cursor)
<1> DEFINE w == Least(cursor, Window)
           s == Behind(d, cursor)
<1>1. Window \in Nat /\ Window > 0 /\ Len(d.chars) \in Nat
  BY EntryAssumption
<1>2. w \in 0..Window /\ w <= cursor
  BY <1>1 DEF Least
<1>3. s = SubSeq(d.chars, cursor - w + 1, cursor)
  BY DEF Behind
<1>4. \A i \in (cursor - w + 1)..cursor : d.chars[i] \in Int \ {NUL}
  BY <1>2
<1>5. s \in Seq(Int \ {NUL}) /\ Len(s) = w
  <2> HIDE DEF w
  <2>1. cursor - w + 1 \in Int /\ cursor \in Int /\ cursor - (cursor - w + 1) + 1 = w
        /\ (~(cursor - w + 1 <= cursor) => w = 0)
    BY <1>2
  <2>2. QED
    BY <2>1, <1>3, <1>4, SubSeqProperties
<1> HIDE DEF s, w
<1>6. /\ \A i \in 1..Len(s) : Written(Zeros, s)[i] = s[i]
      /\ Written(Zeros, s)[Len(s) + 1] = NUL
  BY <1>1, <1>2, <1>5 DEF Written, Buffer
<1>7. CString(Written(Zeros, s)) = s
  BY <1>2, <1>5, <1>6, CStringOfText
<1>8. QED
  BY <1>3, <1>7 DEF s, w

\* a holds the m characters behind the cursor, with a NUL after them, and
\* nothing else.
HoldsAhead(a, s, cursor, m) ==
  /\ \A i \in Buffer : a[i] \in Int
  /\ a[Window + 1] = NUL
  /\ \A i \in 1..m : a[i] = s[cursor + i]
  /\ a[m + 1] = NUL

\* What reaches the look-ahead buffer of an error that was zero.
LEMMA AheadIs ==
  ASSUME NEW d, d.chars \in Seq(Int \ {NUL}), d.tail \in Seq(Int), NEW cursor \in 0..Len(d.chars),
         NEW entry \in {"string", "ex", "url", "file", "stream", "pipe"},
         NEW a \in LookAhead(entry, d, cursor, Zeros)
  PROVE  LET k == Least(Window, Len(d.chars) - cursor)
         IN  \E m \in Least(1, k)..k :
               /\ HoldsAhead(a, d.chars, cursor, m)
               /\ entry # "pipe" /\ d.tail = <<>> => m = k /\ \A i \in Buffer : i > m => a[i] = NUL
<1> DEFINE k == Least(Window, Len(d.chars) - cursor)
           chars == d.chars
           whole == d.chars \o (IF d.tail = <<>> THEN <<>> ELSE <<NUL>> \o d.tail)
           ahead(s) == SubSeq(s, cursor + 1, Least(cursor + Window, Len(s)))
<1>1. Window \in Nat /\ Window > 0 /\ Len(chars) \in Nat /\ cursor \in Nat /\ cursor <= Len(chars)
  BY EntryAssumption
<1>2. k \in 0..Window /\ k <= Len(chars) - cursor /\ (k = Window \/ k = Len(chars) - cursor)
      /\ Least(1, k) \in 0..k
  BY <1>1 DEF Least
<1> HIDE DEF k
<1>3. \A i \in 1..Len(chars) : chars[i] \in Int
  OBVIOUS
<1>4. Zeros = [i \in Buffer |-> NUL] /\ Window + 1 \in Buffer
  BY <1>1 DEF Zeros, Buffer
\* The characters of s ahead of the cursor.
<1>5. ASSUME NEW s \in Seq(Int), cursor <= Len(s)
      PROVE  /\ ahead(s) \in Seq(Int)
             /\ Len(ahead(s)) = Least(Window, Len(s) - cursor)
             /\ \A i \in 1..Len(ahead(s)) : ahead(s)[i] = s[cursor + i]
  <2> DEFINE e == Least(cursor + Window, Len(s))
  <2>1. e \in cursor..Len(s) /\ e - cursor = Least(Window, Len(s) - cursor)
    BY <1>1, <1>5 DEF Least
  <2> HIDE DEF e
  <2>2. cursor + 1 \in Nat \ {0} /\ e \in 0..Len(s) /\ e - (cursor + 1) + 1 = e - cursor
        /\ (~(cursor + 1 <= e) => e - cursor = 0)
    BY <1>1, <2>1
  <2>3. /\ SubSeq(s, cursor + 1, e) \in Seq(Int)
        /\ Len(SubSeq(s, cursor + 1, e)) = e - cursor
        /\ \A i \in 1..(e - cursor) : SubSeq(s, cursor + 1, e)[i] = s[(cursor + 1) + i - 1]
    BY <2>2, StretchIs
  <2>4. \A i \in 1..(e - cursor) : (cursor + 1) + i - 1 = cursor + i
    BY <1>1, <2>1
  <2>5. QED
    BY <2>1, <2>3, <2>4 DEF e
<1>6. chars \in Seq(Int)
  BY <1>3
<1>7. CASE entry \in {"string", "ex", "url"}
  <2> DEFINE text == ahead(chars)
  <2>1. a = [i \in Buffer |-> IF i <= Len(text) THEN text[i] ELSE IF i > Window THEN NUL ELSE Zeros[i]]
    BY <1>7 DEF LookAhead
  <2>2. Len(text) = k /\ \A i \in 1..k : text[i] = chars[cursor + i]
    BY <1>1, <1>5, <1>6 DEF k
  <2> HIDE DEF text
  <2>3. \A i \in Buffer : a[i] = IF i <= k THEN chars[cursor + i] ELSE NUL
    <3>1. SUFFICES ASSUME NEW i \in Buffer
                   PROVE  a[i] = IF i <= k THEN chars[cursor + i] ELSE NUL
      OBVIOUS
    <3>2. a[i] = IF i <= k THEN text[i] ELSE IF i > Window THEN NUL ELSE Zeros[i]
      BY <2>1, <2>2
    <3>3. i \in Int /\ i >= 1 /\ k \in Int
      BY ONLY <3>1, <1>1, <1>2 DEF Buffer
    <3>4. CASE i <= k
      <4>1. i \in 1..k
        BY ONLY <3>3, <3>4
      <4>2. text[i] = chars[cursor + i]
        BY ONLY <4>1, <2>2
      <4>. QED
        BY ONLY <3>2, <3>4, <4>2
    <3>5. CASE ~(i <= k)
      <4>1. Zeros[i] = NUL
        BY ONLY <3>1, <1>4
      <4>. QED
        BY ONLY <3>2, <3>5, <4>1
    <3>. QED
      BY ONLY <3>4, <3>5
  <2>4. \A i \in 1..k : i \in Buffer /\ chars[cursor + i] \in Int
    <3>1. SUFFICES ASSUME NEW i \in 1..k
                   PROVE  i \in Buffer /\ chars[cursor + i] \in Int
      OBVIOUS
    <3>2. i \in Buffer
      BY ONLY <3>1, <1>1, <1>2 DEF Buffer
    <3>3. cursor + i \in 1..Len(chars)
      BY ONLY <3>1, <1>1, <1>2
    <3>. QED
      BY ONLY <3>2, <3>3, <1>3
  <2>5. HoldsAhead(a, chars, cursor, k)
    <3>1. \A i \in Buffer : a[i] \in Int
      <4>1. SUFFICES ASSUME NEW i \in Buffer PROVE a[i] \in Int
        OBVIOUS
      <4>2. CASE i <= k
        <5>1. i \in 1..k
          BY <1>1, <1>2, <4>2 DEF Buffer
        <5>2. QED
          BY <5>1, <4>2, <2>3, <2>4
      <4>3. CASE ~(i <= k)
        BY <2>3, <4>3 DEF NUL
      <4>4. QED
        BY <4>2, <4>3
    <3>2. a[Window + 1] = NUL /\ a[k + 1] = NUL
      <4>1. k + 1 \in Buffer /\ ~(k + 1 <= k) /\ ~(Window + 1 <= k)
        BY <1>1, <1>2 DEF Buffer
      <4>2. QED
        BY <1>4, <2>3, <4>1
    <3>3. \A i \in 1..k : a[i] = chars[cursor + i]
      BY <1>2, <2>3, <2>4
    <3>4. QED
      BY <3>1, <3>2, <3>3 DEF HoldsAhead
  <2>6. \A i \in Buffer : i > k => a[i] = NUL
    BY <1>1, <1>2, <2>3 DEF Buffer
  <2>7. k \in Least(1, k)..k
    BY <1>2
  <2>8. QED
    BY <2>5, <2>6, <2>7 DEF k
\* In a file or a pipe, a NUL follows the characters unless they are all.
<1>8. /\ whole \in Seq(Int) /\ Len(whole) \in Nat /\ Len(chars) <= Len(whole)
      /\ \A i \in 1..Len(chars) : whole[i] = chars[i]
      /\ Len(whole) > Len(chars) => whole[Len(chars) + 1] = NUL
      /\ d.tail = <<>> => Len(whole) = Len(chars)
  <2> DEFINE more == IF d.tail = <<>> THEN <<>> ELSE <<NUL>> \o d.tail
  <2>1. <<NUL>> \in Seq(Int) /\ Len(<<NUL>>) = 1 /\ <<NUL>>[1] = NUL
    BY DEF NUL
  <2>2. <<NUL>> \o d.tail \in Seq(Int) /\ Len(<<NUL>> \o d.tail) = 1 + Len(d.tail) /\ (<<NUL>> \o d.tail)[1] = NUL
    <3>1. 1 \in 1..(Len(<<NUL>>) + Len(d.tail)) /\ 1 <= Len(<<NUL>>)
      BY <2>1
    <3>2. QED
      BY <2>1, <3>1, ConcatProperties
  <2>3. /\ more \in Seq(Int) /\ (Len(more) > 0 => more[1] = NUL)
        /\ (d.tail = <<>> => Len(more) = 0)
    BY <2>2
  <2> HIDE DEF more
  <2>4. /\ chars \o more \in Seq(Int) /\ Len(chars \o more) = Len(chars) + Len(more)
        /\ \A i \in 1..(Len(chars) + Len(more)) :
             (chars \o more)[i] = IF i <= Len(chars) THEN chars[i] ELSE more[i - Len(chars)]
    BY <1>6, <2>3, ConcatProperties
  <2>5. Len(more) \in Nat
    BY <2>3
  <2>6. whole = chars \o more
    BY DEF more
  <2> HIDE DEF whole
  <2>7. ASSUME Len(more) > 0 PROVE (chars \o more)[Len(chars) + 1] = NUL
    <3>1. Len(chars) + 1 \in 1..(Len(chars) + Len(more)) /\ ~(Len(chars) + 1 <= Len(chars))
          /\ (Len(chars) + 1) - Len(chars) = 1
      BY <1>1, <2>5, <2>7
    <3>2. QED
      BY <2>3, <2>4, <2>7, <3>1
  <2>8. whole \in Seq(Int) /\ Len(whole) = Len(chars) + Len(more)
    BY <2>4, <2>6
  <2>9. ASSUME NEW i \in 1..Len(chars) PROVE whole[i] = chars[i]
    <3>1. i \in 1..(Len(chars) + Len(more)) /\ i <= Len(chars)
      BY <1>1, <2>5
    <3>2. QED
      BY <2>4, <2>6, <3>1
  <2>10. Len(whole) \in Nat /\ Len(chars) <= Len(whole) /\ (Len(whole) > Len(chars) <=> Len(more) > 0)
    BY <1>1, <2>5, <2>8
  <2>11. Len(more) = 0 => Len(whole) = Len(chars)
    BY <1>1, <2>8
  <2>12. QED
    BY <2>3, <2>6, <2>7, <2>8, <2>9, <2>10, <2>11
<1> HIDE DEF whole
<1> DEFINE seen == ahead(whole)
<1>9. /\ seen \in Seq(Int) /\ Len(seen) = Least(Window, Len(whole) - cursor)
      /\ \A i \in 1..Len(seen) : seen[i] = whole[cursor + i]
  BY <1>1, <1>5, <1>8
<1> HIDE DEF seen
<1>10. /\ Len(seen) \in k..Window
       /\ \A i \in 1..k : seen[i] = chars[cursor + i]
       /\ Len(seen) > k => seen[k + 1] = NUL
       /\ d.tail = <<>> => Len(seen) = k
  <2> DEFINE l == Len(whole) - cursor  c == Len(chars) - cursor
  <2>a. l \in Nat /\ c \in Nat /\ c <= l
    BY <1>1, <1>8
  <2>b. Len(seen) = Least(Window, l) /\ k = Least(Window, c)
    BY <1>9 DEF k
  <2> HIDE DEF l, c
  <2>1. Len(seen) \in k..Window /\ (Len(seen) > k => c < l) /\ (l = c => Len(seen) = k)
    BY <1>1, <2>a, <2>b DEF Least
  <2>2. ASSUME NEW i \in 1..k PROVE seen[i] = chars[cursor + i]
    <3>1. i \in 1..Len(seen) /\ cursor + i \in 1..Len(chars)
      BY <1>1, <1>2, <2>1
    <3>2. QED
      BY <3>1, <1>8, <1>9
  <2>3. ASSUME Len(seen) > k PROVE seen[k + 1] = NUL
    <3>1. k < Window /\ k + 1 \in 1..Len(seen)
      BY <1>1, <1>2, <2>1, <2>3
    <3>a. k = Len(chars) - cursor /\ Len(whole) > Len(chars)
      BY <1>1, <1>2, <1>8, <2>1, <2>3, <3>1 DEF l, c
    <3>2. cursor + (k + 1) = Len(chars) + 1
      BY <1>1, <3>a
    <3>3. QED
      BY <3>1, <3>2, <3>a, <1>8, <1>9
  <2>4. d.tail = <<>> => Len(seen) = k
    BY <1>8, <2>1 DEF l, c
  <2>5. QED
    BY <2>1, <2>2, <2>3, <2>4
<1> DEFINE Shows(n) == a = Written(Zeros, SubSeq(seen, 1, n))
\* The first n of them in the buffer.
<1>11. ASSUME NEW n \in Least(1, Len(seen))..Len(seen), Shows(n)
       PROVE  \E m \in Least(1, k)..k :
                /\ HoldsAhead(a, chars, cursor, m)
                /\ n = Len(seen) /\ d.tail = <<>> => m = k /\ \A i \in Buffer : i > m => a[i] = NUL
  <2> DEFINE m == Least(n, k)
  <2> DEFINE l == Len(seen)
  <2>a. l \in k..Window /\ n \in Least(1, l)..l
    BY <1>10
  <2> HIDE DEF l
  <2>b. n \in 0..l /\ n <= Window
    BY <1>1, <1>2, <2>a DEF Least
  <2>c. n < 1 => k = 0
    BY <1>1, <1>2, <2>a DEF Least
  <2>d. m \in Int /\ m <= n /\ m <= k /\ (m = n \/ (m = k /\ k < n))
    BY <1>1, <1>2, <2>b DEF Least
  <2>e. Least(1, k) \in Int /\ Least(1, k) <= m
    BY <1>1, <1>2, <2>b, <2>c, <2>d DEF Least
  <2> HIDE DEF m
  <2>1. n \in 0..Len(seen) /\ n <= Window /\ m \in Least(1, k)..k /\ m <= n /\ (m = n \/ (m = k /\ k < n))
    BY <1>2, <2>b, <2>d, <2>e DEF l
  <2>2. /\ Len(SubSeq(seen, 1, n)) = n
        /\ \A i \in 1..n : SubSeq(seen, 1, n)[i] = seen[i] /\ seen[i] \in Int
    <3>1. /\ Len(SubSeq(seen, 1, n)) = IF 1 <= n THEN n - 1 + 1 ELSE 0
          /\ \A i \in 1..(n - 1 + 1) : SubSeq(seen, 1, n)[i] = seen[1 + i - 1]
      BY <1>9, <2>1, StretchIs
    <3>2. \A i \in 1..n : 1 + i - 1 = i /\ i \in 1..Len(seen)
      BY <2>1
    <3>3. n - 1 + 1 = n
      BY <2>1
    <3>4. QED
      BY <1>9, <2>1, <3>1, <3>2, <3>3
  <2>3. \A i \in Buffer : a[i] = IF i <= n THEN seen[i] ELSE NUL
    BY <1>1, <1>4, <1>11, <2>1, <2>2 DEF Written, Buffer
  <2>4. \A i \in Buffer : a[i] \in Int
    BY <2>1, <2>2, <2>3 DEF Buffer, NUL
  <2>5. a[Window + 1] = NUL
    BY <1>1, <1>4, <2>1, <2>3
  <2>6. ASSUME NEW i \in 1..m PROVE a[i] = chars[cursor + i]
    <3>1. i \in Buffer /\ i <= n /\ i \in 1..k
      BY <1>1, <1>2, <2>1 DEF Buffer
    <3>2. QED
      BY <3>1, <2>3, <1>10
  <2>7. a[m + 1] = NUL
    <3>1. m + 1 \in Buffer
      BY <1>1, <1>2, <2>1 DEF Buffer
    <3>2. CASE m = n
      <4>1. ~(m + 1 <= n)
        BY <2>1, <3>2
      <4>2. QED
        BY <3>1, <4>1, <2>3
    <3>3. CASE m = k /\ k < n
      <4>1. m + 1 <= n /\ Len(seen) > k
        BY <1>2, <2>1, <3>3
      <4>2. QED
        BY <3>1, <3>3, <4>1, <2>3, <1>10
    <3>4. QED
      BY <2>1, <3>2, <3>3
  <2>8. ASSUME n = Len(seen), d.tail = <<>> PROVE m = k /\ \A i \in Buffer : i > m => a[i] = NUL
    <3>1. n = k
      BY <1>10, <2>8
    <3>2. m = k
      BY <2>1, <3>1
    <3>3. QED
      BY <1>1, <1>2, <2>3, <3>1, <3>2 DEF Buffer
  <2>9. QED
    BY <2>1, <2>4, <2>5, <2>6, <2>7, <2>8 DEF HoldsAhead
<1>12. CASE entry \in {"file", "stream"} /\ cursor # Len(whole)
  <2>1. a = Written(Zeros, seen)
    BY <1>12 DEF LookAhead, whole, seen
  <2>2. SubSeq(seen, 1, Len(seen)) = seen
    BY <1>9, SubSeqFull
  <2>3. Len(seen) \in Least(1, Len(seen))..Len(seen)
    BY <1>9 DEF Least
  <2>4. Shows(Len(seen))
    BY <2>1, <2>2
  <2>5. QED
    BY <1>12, <2>3, <2>4, <1>11 DEF k
<1>13. CASE entry \in {"file", "stream"} /\ cursor = Len(whole)
  <2>1. a = Zeros
    BY <1>13 DEF LookAhead, whole
  <2>2. k = 0
    BY <1>1, <1>2, <1>8, <1>13
  <2>3. HoldsAhead(a, chars, cursor, 0) /\ \A i \in Buffer : a[i] = NUL
    BY <1>1, <1>4, <2>1 DEF HoldsAhead, Buffer, NUL
  <2>4. 0 \in Least(1, k)..k
    BY <2>2 DEF Least
  <2>5. QED
    BY <2>2, <2>3, <2>4 DEF k
<1>14. CASE entry = "pipe"
  <2>1. PICK n \in Least(1, Len(seen))..Len(seen) : Shows(n)
    BY <1>14 DEF LookAhead, whole, seen
  <2>2. QED
    BY <1>11, <1>14, <2>1 DEF k
<1>15. QED
  BY <1>7, <1>12, <1>13, <1>14 DEF k

\* Stretches of a stretch.
LEMMA StretchOfStretch ==
  ASSUME NEW s \in Seq(Int), NEW f \in Nat, NEW c \in 0..Len(s), f <= c,
         NEW a \in Nat \ {0}, NEW b \in Nat, b <= c - f
  PROVE  SubSeq(SubSeq(s, f + 1, c), a, b) = SubSeq(s, f + a, f + b)
<1> DEFINE t == SubSeq(s, f + 1, c)
           n == IF a <= b THEN b - a + 1 ELSE 0
<1>1. /\ t \in Seq(Int) /\ Len(t) = c - f
      /\ \A i \in 1..(c - f) : t[i] = s[f + i]
  <2>1. f + 1 \in Nat \ {0} /\ c - (f + 1) + 1 = c - f /\ (~(f + 1 <= c) => c - f = 0)
        /\ \A i \in 1..(c - f) : (f + 1) + i - 1 = f + i
    OBVIOUS
  <2>2. QED
    BY <2>1, StretchIs
<1> HIDE DEF t
<1>2. /\ SubSeq(t, a, b) \in Seq(Int) /\ Len(SubSeq(t, a, b)) = n
      /\ \A i \in 1..(b - a + 1) : SubSeq(t, a, b)[i] = t[a + i - 1]
  <2>1. b \in 0..Len(t)
    BY <1>1
  <2>2. QED
    BY <1>1, <2>1, StretchIs
<1>3. /\ SubSeq(s, f + a, f + b) \in Seq(Int) /\ Len(SubSeq(s, f + a, f + b)) = n
      /\ \A i \in 1..(b - a + 1) : SubSeq(s, f + a, f + b)[i] = s[f + a + i - 1]
  <2>1. f + a \in Nat \ {0} /\ f + b \in 0..Len(s) /\ (f + b) - (f + a) + 1 = b - a + 1
        /\ (f + a <= f + b <=> a <= b)
    BY LenProperties
  <2>2. /\ SubSeq(s, f + a, f + b) \in Seq(Int)
        /\ Len(SubSeq(s, f + a, f + b)) = IF f + a <= f + b THEN (f + b) - (f + a) + 1 ELSE 0
        /\ \A i \in 1..((f + b) - (f + a) + 1) : SubSeq(s, f + a, f + b)[i] = s[(f + a) + i - 1]
    BY <2>1, StretchIs
  <2>3. QED
    BY <2>1, <2>2
<1>4. ASSUME NEW i \in 1..n PROVE SubSeq(t, a, b)[i] = SubSeq(s, f + a, f + b)[i]
  <2>1. i \in 1..(b - a + 1) /\ a + i - 1 \in 1..(c - f) /\ f + (a + i - 1) = f + a + i - 1
    OBVIOUS
  <2>2. QED
    BY <2>1, <1>1, <1>2, <1>3
<1>5. QED
  BY <1>2, <1>3, <1>4, SeqEqual DEF t

LEMMA StretchesJoin ==
  ASSUME NEW s \in Seq(Int), NEW f \in Nat, NEW c \in Nat, NEW e \in 0..Len(s), f <= c, c <= e
  PROVE  SubSeq(s, f + 1, c) \o SubSeq(s, c + 1, e) = SubSeq(s, f + 1, e)
<1>1. f + 1 \in 1..(Len(s) + 1) /\ c \in ((f + 1) - 1)..Len(s) /\ e \in c..Len(s)
  BY LenProperties
<1>2. QED
  BY <1>1, ConcatAdjacentSubSeq

LEMMA TextsJoin ==
  ASSUME NEW p \in Seq(Int), NEW q \in Seq(Int), NEW r \in Seq(Int)
  PROVE  p \o q \in Seq(Int) /\ p \o q \o r = p \o (q \o r)
BY ConcatAssociative, ConcatProperties

LEMMA ThreeJoin ==
  ASSUME NEW x \in Int, NEW y \in Int, NEW z \in Int
  PROVE  <<x>> \o <<y>> \o <<z>> = <<x, y, z>>
<1>1. <<x>> \o <<y>> \in Seq(Int) /\ Len(<<x>> \o <<y>>) = 2
      /\ (<<x>> \o <<y>>)[1] = x /\ (<<x>> \o <<y>>)[2] = y
  OBVIOUS
<1> DEFINE p == <<x>> \o <<y>>
<1>2. p \in Seq(Int) /\ Len(p) = 2 /\ p[1] = x /\ p[2] = y
  BY <1>1
<1> HIDE DEF p
<1>3. /\ p \o <<z>> \in Seq(Int) /\ Len(p \o <<z>>) = 3
      /\ (p \o <<z>>)[1] = x /\ (p \o <<z>>)[2] = y /\ (p \o <<z>>)[3] = z
  <2> DEFINE q == <<z>>
  <2>1. q \in Seq(Int) /\ Len(q) = 1 /\ q[1] = z
    OBVIOUS
  <2> HIDE DEF q
  <2>2. /\ p \o q \in Seq(Int) /\ Len(p \o q) = Len(p) + Len(q)
        /\ \A i \in 1..(Len(p) + Len(q)) : (p \o q)[i] = IF i <= Len(p) THEN p[i] ELSE q[i - Len(p)]
    BY <1>2, <2>1, ConcatProperties
  <2>3. /\ p \o q \in Seq(Int) /\ Len(p \o q) = 3
        /\ \A i \in 1..3 : (p \o q)[i] = IF i <= 2 THEN p[i] ELSE q[i - 2]
    BY <1>2, <2>1, <2>2
  <2>4. (p \o q)[1] = p[1] /\ (p \o q)[2] = p[2] /\ (p \o q)[3] = q[1]
    BY <2>3
  <2>5. QED
    BY <1>2, <2>1, <2>3, <2>4 DEF q
<1>4. p \o <<z>> = <<x, y, z>>
  <2> DEFINE t == p \o <<z>>  u == <<x, y, z>>
  <2>1. u \in Seq(Int) /\ Len(u) = 3 /\ u[1] = x /\ u[2] = y /\ u[3] = z
    OBVIOUS
  <2>2. t \in Seq(Int) /\ Len(t) = 3 /\ t[1] = x /\ t[2] = y /\ t[3] = z
    BY <1>3
  <2> HIDE DEF t, u
  <2>3. Len(t) = Len(u) /\ \A i \in 1..Len(t) : t[i] = u[i]
    BY <2>1, <2>2
  <2>4. t = u
    BY <2>1, <2>2, <2>3, SeqEqual
  <2>5. QED
    BY <2>4 DEF t, u
<1>5. QED
  BY <1>4 DEF p

\* The text from f on, with the markers around the character behind b.
Mark(s, f, b) ==
  SubSeq(s, f + 1, b) \o <<LEFT>> \o SubSeq(s, b + 1, Least(b + 1, Len(s))) \o <<RIGHT>>

LEMMA MarkIsText ==
  ASSUME NEW s \in Seq(Int), NEW f \in Nat, NEW b \in 0..Len(s)
  PROVE  /\ Mark(s, f, b) \in Seq(Int)
         /\ Shown(Mark(s, f, b)) = Mark(Shown(s), f, b)
<1> DEFINE e == Least(b + 1, Len(s))
           p == SubSeq(s, f + 1, b)
           q == SubSeq(s, b + 1, e)
<1>1. e \in 0..Len(s) /\ f + 1 \in Nat \ {0} /\ b + 1 \in Nat \ {0}
  BY LenProperties DEF Least
<1> HIDE DEF e
<1>2. p \in Seq(Int) /\ q \in Seq(Int)
  BY <1>1, StretchIs
<1>3. Shown(p) = SubSeq(Shown(s), f + 1, b) /\ Shown(q) = SubSeq(Shown(s), b + 1, e)
  BY <1>1, ShownStretch
<1>4. <<LEFT>> \in Seq(Int) /\ <<RIGHT>> \in Seq(Int)
  BY DEF LEFT, RIGHT
<1>5. Shown(<<LEFT>>) = <<LEFT>> /\ Shown(<<RIGHT>>) = <<RIGHT>>
  BY DEF Shown, ReplaceMatchChars, LEFT, RIGHT, NEWLINE, SPACE
<1>6. Len(Shown(s)) = Len(s)
  BY ShownIs
<1> HIDE DEF p, q
<1>7. p \o <<LEFT>> \in Seq(Int) /\ Shown(p \o <<LEFT>>) = Shown(p) \o <<LEFT>>
  BY <1>2, <1>4, <1>5, ShownConcat, ConcatProperties
<1>8. p \o <<LEFT>> \o q \in Seq(Int) /\ Shown(p \o <<LEFT>> \o q) = Shown(p) \o <<LEFT>> \o Shown(q)
  BY <1>2, <1>7, ShownConcat, ConcatProperties
<1>9. /\ p \o <<LEFT>> \o q \o <<RIGHT>> \in Seq(Int)
      /\ Shown(p \o <<LEFT>> \o q \o <<RIGHT>>) = Shown(p) \o <<LEFT>> \o Shown(q) \o <<RIGHT>>
  BY <1>4, <1>5, <1>8, ShownConcat, ConcatProperties
<1>10. QED
  BY <1>3, <1>6, <1>9 DEF Mark, p, q, e

\* An error that was recorded in d, in an error struct that was zero.
RecordedIn(d) ==
  /\ error \in Recorded(call.entry, d, NoError, error.type, error.cursor, error.bad)
  /\ error.cursor \in 0..Len(d.chars) /\ error.bad \in 0..error.cursor
  /\ error.type # "NULL_TEXT"

\* The line of the report is the stretch of the text with its markers, and what
\* follows them.
LEMMA ReportIs ==
  ASSUME NEW d, d.chars \in Seq(Int \ {NUL}), d.tail \in Seq(Int),
         call.entry \in {"string", "ex", "url", "file", "stream", "pipe"},
         RecordedIn(d), error.cursor - error.bad <= Window, error.type # "EMPTY_TEXT"
  PROVE  LET f == error.cursor - Least(error.cursor, Window)
             e == Least(error.cursor + Window, Len(d.chars))
         IN  \E r \in Seq(Int) :
               /\ Report = Shown(Mark(d.chars, f, error.bad) \o r)
               /\ call.entry # "pipe" /\ d.tail = <<>> => r = SubSeq(d.chars, error.bad + 2, e)
<1> DEFINE s == d.chars
           c == error.cursor
           b == error.bad
           f == c - Least(c, Window)
           e == Least(c + Window, Len(s))
           k == Least(Window, Len(s) - c)
           behind == CString(error.behind)
           ahead == CString(error.ahead)
           rest == CString([i \in Buffer |-> IF i > Window THEN NUL ELSE error.ahead[i + 1]])
           at == InsertPos(Len(behind), error.lab)
<1>a. Zeros = NoError.ahead /\ Zeros = NoError.behind /\ NoError.lab = 0
  BY DEF NoError
<1>b. s \in Seq(Int \ {NUL}) /\ s \in Seq(Int) /\ Len(s) \in Nat
  OBVIOUS
<1>1. /\ Window \in Nat /\ Window > 0 /\ Len(s) \in Nat /\ c \in 0..Len(s) /\ b \in 0..c /\ c - b <= Window
      /\ s \in Seq(Int \ {NUL}) /\ s \in Seq(Int)
  BY <1>b, EntryAssumption DEF RecordedIn
<1>2. PICK a \in LookAhead(call.entry, d, c, Zeros) :
        error = [ type |-> error.type, behind |-> Written(Zeros, Behind(d, c)), ahead |-> a,
                  lab |-> IF b < c THEN c - b ELSE 0, cursor |-> c, bad |-> b ]
  BY <1>a DEF RecordedIn, Recorded
<1>3. /\ error.ahead = a /\ error.behind = Written(Zeros, Behind(d, c))
      /\ error.lab = IF b < c THEN c - b ELSE 0
  BY <1>2
<1>4. behind = SubSeq(s, f + 1, c)
  BY <1>1, <1>3, BehindIs
<1> HIDE DEF c, b, s
<1>5. f \in 0..c /\ c - f <= Window /\ f <= b /\ e \in c..Len(s) /\ e = c + k /\ k \in 0..Window /\ Least(1, k) \in 0..k
  BY <1>1 DEF Least
<1> HIDE DEF f, e, k, behind
<1>6. PICK m \in Least(1, k)..k :
        /\ HoldsAhead(a, s, c, m)
        /\ call.entry # "pipe" /\ d.tail = <<>> => m = k /\ \A i \in Buffer : i > m => a[i] = NUL
  BY <1>1, <1>2, AheadIs DEF s, k, c
<1>7. m \in 0..Window /\ c + m \in c..Len(s) /\ (call.entry # "pipe" /\ d.tail = <<>> => e = c + m)
  <2>1. m \in Int /\ 0 <= m /\ m <= k
    BY <1>5, <1>6
  <2>2. QED
    BY <1>1, <1>5, <1>6, <2>1
<1>8. ahead = SubSeq(s, c + 1, c + m)
  <2> DEFINE t == SubSeq(s, c + 1, c + m)
  <2>1. \A i \in (c + 1)..(c + m) : s[i] \in Int \ {NUL}
    BY <1>1, <1>7
  <2>2. /\ t \in Seq(Int \ {NUL}) /\ Len(t) = m
        /\ \A i \in 1..m : t[i] = s[c + i]
    <3>1. c + 1 \in Int /\ c + m \in Int /\ (c + m) - (c + 1) + 1 = m /\ (~(c + 1 <= c + m) => m = 0)
          /\ \A i \in 1..m : (c + 1) + i - 1 = c + i
      <4>1. c \in Int /\ m \in Nat
        BY <1>1, <1>7
      <4>2. QED
        BY <4>1
    <3>2. QED
      BY <3>1, <2>1, SubSeqProperties
  <2> HIDE DEF t
  <2>3. Len(t) <= Window /\ (\A i \in 1..Len(t) : a[i] = t[i]) /\ a[Len(t) + 1] = NUL
    BY <1>6, <1>7, <2>2 DEF HoldsAhead
  <2>4. CString(a) = t
    BY <2>2, <2>3, CStringOfText
  <2>5. QED
    BY <1>3, <2>4 DEF t
<1>9. Len(behind) = c - f /\ behind \in Seq(Int)
  <2>1. f + 1 \in Nat \ {0} /\ c - (f + 1) + 1 = c - f /\ (~(f + 1 <= c) => c - f = 0)
    BY <1>1, <1>5
  <2>2. QED
    BY <1>1, <1>4, <2>1, StretchIs
<1> DEFINE text == IF error.lab > 0
                   THEN SubSeq(behind, 1, at) \o <<LEFT, behind[at + 1], RIGHT>>
                          \o SubSeq(behind, at + 2, Len(behind)) \o ahead
                   ELSE behind \o <<LEFT>> \o SubSeq(ahead, 1, Least(1, Len(ahead))) \o <<RIGHT>> \o rest
<1>10. Report = Shown(text)
  <2>1. ~(error.lab > Len(behind))
    BY <1>1, <1>3, <1>5, <1>9
  <2>2. ~(error.type = "NULL_TEXT" \/ (error.type = "EMPTY_TEXT" /\ behind = <<>>))
    BY DEF RecordedIn
  <2>3. QED
    BY <2>1, <2>2 DEF Report, Shown, behind
<1>11. CASE b < c
  <2> DEFINE r == SubSeq(s, b + 2, c + m)
  <2>1. error.lab = c - b /\ error.lab > 0 /\ at = b - f
    BY <1>1, <1>3, <1>5, <1>9, <1>11 DEF InsertPos
  <2>2. SubSeq(behind, 1, b - f) = SubSeq(s, f + 1, b)
    <3>1. f \in Nat /\ 1 \in Nat \ {0} /\ b - f \in Nat /\ b - f <= c - f /\ f + (b - f) = b /\ f <= c
      BY <1>1, <1>5
    <3>2. QED
      BY <1>1, <1>4, <3>1, StretchOfStretch
  <2>3. SubSeq(behind, b - f + 2, c - f) = SubSeq(s, b + 2, c)
    <3>1. /\ f \in Nat /\ b - f + 2 \in Nat \ {0} /\ c - f \in Nat /\ c - f <= c - f /\ f <= c
          /\ f + (b - f + 2) = b + 2 /\ f + (c - f) = c
      BY <1>1, <1>5
    <3>2. QED
      BY <1>1, <1>4, <3>1, StretchOfStretch
  <2>4. behind[b - f + 1] = s[b + 1] /\ s[b + 1] \in Int
    <3>1. f + 1 \in Nat \ {0} /\ b - f + 1 \in 1..(c - (f + 1) + 1) /\ (f + 1) + (b - f + 1) - 1 = b + 1
          /\ b + 1 \in 1..Len(s)
      BY <1>1, <1>5, <1>11
    <3>2. \A i \in 1..(c - (f + 1) + 1) : SubSeq(s, f + 1, c)[i] = s[(f + 1) + i - 1]
      BY <1>1, <3>1, StretchIs
    <3>3. SubSeq(s, f + 1, c)[b - f + 1] = s[(f + 1) + (b - f + 1) - 1]
      BY <3>1, <3>2
    <3>4. s[b + 1] \in Int
      BY <1>1, <3>1
    <3>5. QED
      BY <1>4, <3>1, <3>3, <3>4
  <2>5. SubSeq(s, b + 1, Least(b + 1, Len(s))) = <<s[b + 1]>>
    <3>1. Least(b + 1, Len(s)) = b + 1 /\ b + 1 \in 0..Len(s) /\ b + 1 \in Nat \ {0} /\ (b + 1) - (b + 1) + 1 = 1
          /\ (b + 1) + 1 - 1 = b + 1
      BY <1>1, <1>11 DEF Least
    <3>2. /\ SubSeq(s, b + 1, b + 1) \in Seq(Int) /\ Len(SubSeq(s, b + 1, b + 1)) = 1
          /\ SubSeq(s, b + 1, b + 1)[1] = s[b + 1]
      <4> DEFINE j == b + 1
      <4>1. j \in Nat \ {0} /\ j \in 0..Len(s) /\ j - j + 1 = 1 /\ j + 1 - 1 = j /\ j <= j
        BY <3>1
      <4> HIDE DEF j
      <4>2. /\ SubSeq(s, j, j) \in Seq(Int) /\ Len(SubSeq(s, j, j)) = j - j + 1
            /\ \A i \in 1..(j - j + 1) : SubSeq(s, j, j)[i] = s[j + i - 1]
        BY <1>1, <4>1, StretchIs
      <4>3. QED
        BY <4>1, <4>2 DEF j
    <3>3. SubSeq(s, b + 1, b + 1) = <<s[b + 1]>>
      <4> DEFINE t == SubSeq(s, b + 1, b + 1)  x == s[b + 1]
      <4>1. t \in Seq(Int) /\ Len(t) = 1 /\ t[1] = x /\ x \in Int
        BY <2>4, <3>2
      <4> HIDE DEF t, x
      <4>2. <<x>> \in Seq(Int) /\ Len(<<x>>) = 1 /\ <<x>>[1] = x
        BY <4>1
      <4>3. t = <<x>>
        BY <4>1, <4>2, SeqEqual
      <4>4. QED
        BY <4>3 DEF t, x
    <3>4. QED
      BY <3>1, <3>3
  <2>6. SubSeq(s, b + 2, c) \o SubSeq(s, c + 1, c + m) = r
    <3>1. b + 1 \in Nat /\ c \in Nat /\ c + m \in 0..Len(s) /\ b + 1 <= c /\ c <= c + m /\ (b + 1) + 1 = b + 2
      BY <1>1, <1>7, <1>11
    <3>2. QED
      BY <1>1, <3>1, StretchesJoin
  <2>7. /\ SubSeq(s, f + 1, b) \in Seq(Int) /\ SubSeq(s, b + 2, c) \in Seq(Int) /\ r \in Seq(Int)
        /\ SubSeq(s, c + 1, c + m) \in Seq(Int)
    <3>1. /\ f + 1 \in Nat \ {0} /\ b + 2 \in Nat \ {0} /\ c + 1 \in Nat \ {0}
          /\ b \in 0..Len(s) /\ c \in 0..Len(s) /\ c + m \in 0..Len(s)
      <4>1. f \in Nat /\ b \in Nat /\ c \in Nat /\ Len(s) \in Nat /\ b <= Len(s) /\ c <= Len(s)
        BY <1>1, <1>5
      <4>2. c + m \in 0..Len(s)
        BY <1>7, <4>1
      <4>3. QED
        BY <4>1, <4>2
    <3>2. QED
      BY <1>1, <3>1, StretchIs
  <2>8. text = SubSeq(s, f + 1, b) \o <<LEFT, s[b + 1], RIGHT>> \o SubSeq(s, b + 2, c) \o SubSeq(s, c + 1, c + m)
    BY <1>8, <1>9, <2>1, <2>2, <2>3, <2>4
  <2>9. Mark(s, f, b) = SubSeq(s, f + 1, b) \o <<LEFT, s[b + 1], RIGHT>>
    <3> DEFINE p == SubSeq(s, f + 1, b)  x == s[b + 1]
    <3>1. p \in Seq(Int) /\ x \in Int /\ LEFT \in Int /\ RIGHT \in Int
      BY <2>4, <2>7 DEF LEFT, RIGHT
    <3>2. Mark(s, f, b) = p \o <<LEFT>> \o <<x>> \o <<RIGHT>>
      BY <2>5 DEF Mark
    <3> HIDE DEF p, x
    <3>3. <<LEFT>> \o <<x>> \o <<RIGHT>> = <<LEFT, x, RIGHT>>
      BY <3>1, ThreeJoin
    <3>4. p \o <<LEFT>> \o <<x>> \o <<RIGHT>> = p \o (<<LEFT>> \o <<x>> \o <<RIGHT>>)
      <4>1. <<LEFT>> \in Seq(Int) /\ <<x>> \in Seq(Int) /\ <<RIGHT>> \in Seq(Int) /\ <<LEFT>> \o <<x>> \in Seq(Int)
        BY <3>1
      <4>2. p \o <<LEFT>> \o <<x>> = p \o (<<LEFT>> \o <<x>>)
        BY <3>1, <4>1, TextsJoin
      <4>3. p \o (<<LEFT>> \o <<x>>) \o <<RIGHT>> = p \o ((<<LEFT>> \o <<x>>) \o <<RIGHT>>)
        BY <3>1, <4>1, TextsJoin
      <4>4. QED
        BY <4>2, <4>3
    <3>5. QED
      BY <3>2, <3>3, <3>4 DEF p, x
  <2>10. text = Mark(s, f, b) \o r
    <3>1. Mark(s, f, b) \in Seq(Int)
      BY <1>1, <1>5, MarkIsText
    <3>2. Mark(s, f, b) \o SubSeq(s, b + 2, c) \o SubSeq(s, c + 1, c + m)
            = Mark(s, f, b) \o (SubSeq(s, b + 2, c) \o SubSeq(s, c + 1, c + m))
      BY <3>1, <2>7, TextsJoin
    <3>3. QED
      BY <2>6, <2>8, <2>9, <3>2
  <2>11. QED
    BY <1>7, <1>10, <2>7, <2>10 DEF f, e, s, c, b
<1>12. CASE ~(b < c)
  <2>1. b = c /\ ~(error.lab > 0)
    BY <1>1, <1>3, <1>12
  <2> DEFINE shift == [i \in Buffer |-> IF i > Window THEN NUL ELSE a[i + 1]]
  <2>2. \A i \in Buffer : i <= Window => i + 1 \in Buffer
    BY <1>1 DEF Buffer
  <2>3. (\A i \in Buffer : shift[i] \in Int) /\ shift[Window + 1] = NUL
    BY <1>1, <1>6, <2>2 DEF HoldsAhead, NUL, Buffer
  <2>4. rest = CString(shift)
    BY <1>3
  <2>5. rest \in Seq(Int)
    <3> HIDE DEF shift
    <3>1. QED
      BY <2>3, <2>4, CStringIsText
  <2>6. SubSeq(ahead, 1, Least(1, Len(ahead))) = SubSeq(s, b + 1, Least(b + 1, Len(s)))
    <3>1. ASSUME m # 0 PROVE SubSeq(ahead, 1, Least(1, Len(ahead))) = SubSeq(s, b + 1, Least(b + 1, Len(s)))
      <4>1. Len(ahead) = m
        <5>1. c + 1 \in Nat \ {0} /\ c + m \in 0..Len(s) /\ (c + m) - (c + 1) + 1 = m /\ c + 1 <= c + m
          <6>1. c \in Nat /\ m \in Nat /\ m # 0 /\ c + m <= Len(s)
            BY <1>1, <1>7, <3>1
          <6>2. QED
            BY <1>1, <6>1
        <5>2. QED
          BY <1>1, <1>8, <5>1, StretchIs
      <4>2. Least(1, Len(ahead)) = 1 /\ Least(b + 1, Len(s)) = c + 1 /\ b = c
        BY <1>1, <1>7, <2>1, <3>1, <4>1 DEF Least
      <4>3. c \in Nat /\ c + m \in 0..Len(s) /\ c <= c + m /\ 1 \in Nat \ {0} /\ 1 \in Nat /\ 1 <= (c + m) - c
        BY <1>1, <1>7, <3>1
      <4>4. SubSeq(SubSeq(s, c + 1, c + m), 1, 1) = SubSeq(s, c + 1, c + 1)
        BY <1>1, <4>3, StretchOfStretch
      <4>5. QED
        BY <1>8, <4>2, <4>4
    <3>2. ASSUME m = 0 PROVE SubSeq(ahead, 1, Least(1, Len(ahead))) = SubSeq(s, b + 1, Least(b + 1, Len(s)))
      <4>1. k = 0 /\ c = Len(s)
        BY <1>1, <1>5, <1>6, <3>2 DEF Least, k
      <4>2. SubSeq(s, c + 1, c + m) = <<>>
        BY <1>1, <3>2, SubSeqEmpty
      <4>3. SubSeq(ahead, 1, Least(1, Len(ahead))) = <<>>
        <5>1. ahead = <<>> /\ Least(1, 0) = 0
          BY <1>8, <4>2 DEF Least
        <5>2. QED
          BY <5>1
      <4>4. Least(b + 1, Len(s)) = c /\ c < b + 1
        BY <1>1, <2>1, <4>1 DEF Least
      <4>5. SubSeq(s, b + 1, Least(b + 1, Len(s))) = <<>>
        BY <1>1, <2>1, <4>4, SubSeqEmpty
      <4>6. QED
        BY <4>3, <4>5
    <3>3. QED
      BY <3>1, <3>2
  <2>7. text = Mark(s, f, b) \o rest
    BY <1>4, <2>1, <2>6 DEF Mark, behind
  <2>8. ASSUME call.entry # "pipe", d.tail = <<>> PROVE rest = SubSeq(s, b + 2, e)
    <3>1. e = c + m /\ m = k /\ \A i \in Buffer : i > m => a[i] = NUL
      BY <1>6, <1>7, <2>8
    <3>2. CASE m = 0
      <4>1. shift[1] = NUL
        <5>1. 1 \in Buffer /\ 1 \in Int
          BY <1>1 DEF Buffer
        <5>2. 1 <= Window => 2 \in Buffer /\ 2 > m
          BY <1>1, <3>2 DEF Buffer
        <5>3. QED
          <6>1. a[2] = NUL /\ ~(1 > Window) /\ 1 + 1 = 2
            BY <1>1, <3>1, <5>2
          <6>2. QED
            BY <5>1, <6>1
      <4>2. CString(shift) = <<>>
        <5> HIDE DEF shift
        <5>1. <<>> \in Seq(Int \ {NUL}) /\ Len(<<>>) = 0
          OBVIOUS
        <5>2. QED
          <6>1. Len(<<>>) <= Window /\ (\A i \in 1..Len(<<>>) : shift[i] = <<>>[i]) /\ shift[Len(<<>>) + 1] = NUL
            BY <1>1, <4>1, <5>1
          <6>2. QED
            BY <5>1, <6>1, CStringOfText
      <4>3. SubSeq(s, b + 2, e) = <<>>
        BY <1>1, <2>1, <3>1, <3>2, SubSeqEmpty
      <4>4. QED
        BY <2>4, <4>2, <4>3
    <3>3. CASE m # 0
      <4> DEFINE t == SubSeq(s, c + 2, c + m)
      <4>1. c \in Nat /\ m \in Nat \ {0} /\ m <= Window /\ c + m <= Len(s)
        BY <1>1, <1>7, <3>3
      <4>2. /\ t \in Seq(Int \ {NUL}) /\ Len(t) = m - 1
            /\ \A i \in 1..(m - 1) : t[i] = s[c + i + 1]
        <5>1. \A i \in (c + 2)..(c + m) : s[i] \in Int \ {NUL}
          BY <1>1, <4>1
        <5>2. c + 2 \in Int /\ c + m \in Int /\ (c + m) - (c + 2) + 1 = m - 1
              /\ (~(c + 2 <= c + m) => m - 1 = 0)
              /\ \A i \in 1..(m - 1) : (c + 2) + i - 1 = c + i + 1
          BY <4>1
        <5>3. QED
          BY <5>1, <5>2, SubSeqProperties
      <4> HIDE DEF t
      <4>3. \A i \in 1..m : i \in Buffer /\ i <= Window /\ i \in Int
        BY <1>1, <4>1 DEF Buffer
      <4>4. \A i \in 1..m : shift[i] = a[i + 1]
        BY <1>1, <4>3
      <4> HIDE DEF shift
      <4>5. \A i \in 1..(m - 1) : shift[i] = t[i]
        <5>1. SUFFICES ASSUME NEW i \in 1..(m - 1) PROVE shift[i] = t[i]
          OBVIOUS
        <5>2. i \in 1..m /\ i + 1 \in 1..m /\ c + (i + 1) = c + i + 1
          BY <4>1
        <5>3. a[i + 1] = s[c + (i + 1)]
          BY <1>6, <5>2 DEF HoldsAhead
        <5>4. QED
          BY <4>2, <4>4, <5>2, <5>3
      <4>6. shift[m] = NUL
        <5>1. m \in 1..m
          BY <4>1
        <5>2. QED
          BY <1>6, <4>4, <5>1 DEF HoldsAhead
      <4>7. CString(shift) = t
        <5>1. Len(t) <= Window /\ (\A i \in 1..Len(t) : shift[i] = t[i]) /\ Len(t) + 1 = m
          <6>1. Len(t) = m - 1
            BY <4>2
          <6>2. m - 1 <= Window /\ (m - 1) + 1 = m
            BY <1>1, <4>1
          <6>3. QED
            BY <4>5, <6>1, <6>2
        <5>2. QED
          BY <4>2, <4>6, <5>1, CStringOfText
      <4>8. QED
        BY <2>1, <2>4, <3>1, <4>7 DEF t
    <3>4. QED
      BY <3>2, <3>3
  <2>9. QED
    BY <1>10, <2>5, <2>7, <2>8 DEF f, e, s, c, b
<1>13. QED
  BY <1>11, <1>12

\* What a call has recorded, if the error was zero when it began.
ReportInv ==
  /\ ~Done => ~recorded
  /\ ~Done /\ fresh => error = NoError
  /\ Done /\ recorded => call.entry \notin {"none", "null"}
  /\ Done /\ recorded /\ fresh => RecordedIn(call.doc)

\* The shape of a text.
LEMMA DocumentIs ==
  ASSUME NEW d \in Documents \cup {NoText}
  PROVE  /\ d.chars \in Seq(Int \ {NUL}) /\ d.tail \in Seq(Int) /\ Len(d.chars) \in Nat
         /\ d.cursor \in 0..Len(d.chars) /\ d.bad \in 0..d.cursor /\ d.err # "NULL_TEXT"
<1>1. CASE d \in Documents
  <2>1. /\ d.chars \in Seq(Int \ {0}) /\ d.tail \in Seq(Int) /\ d.err # "NULL_TEXT"
        /\ d.bad \in Nat /\ d.cursor \in Nat /\ d.bad <= d.cursor /\ d.cursor <= Len(d.chars)
    BY <1>1, EntryAssumption
  <2>2. Len(d.chars) \in Nat
    BY <2>1
  <2>3. QED
    BY <2>1, <2>2 DEF NUL
<1>2. CASE d = NoText
  <2>1. d.chars = <<>> /\ d.tail = <<>> /\ d.cursor = 0 /\ d.bad = 0 /\ d.err = "EMPTY_TEXT"
    BY <1>2 DEF NoText
  <2>2. <<>> \in Seq(Int \ {NUL}) /\ <<>> \in Seq(Int) /\ Len(<<>>) = 0
    OBVIOUS
  <2>3. QED
    BY <2>1, <2>2
<1>3. QED
  BY <1>1, <1>2

LEMMA RecordedPlace ==
  ASSUME NEW entry, NEW d, NEW old, NEW type, NEW cursor, NEW bad,
         NEW e \in Recorded(entry, d, old, type, cursor, bad)
  PROVE  e.type = type /\ e.cursor = cursor /\ e.bad = bad
<1>1. PICK a \in LookAhead(entry, d, cursor, old.ahead) :
        e = [ type |-> type, behind |-> Written(old.behind, Behind(d, cursor)), ahead |-> a,
              lab |-> IF bad < cursor THEN cursor - bad ELSE old.lab, cursor |-> cursor, bad |-> bad ]
  BY DEF Recorded
<1>. QED BY <1>1

\* A call that is at its end with what it recorded in its text.
LEMMA RecordingKeeps ==
  ASSUME EntryInv, ReportInv, ~Done, call.at = "parse", Done', call'.entry = call.entry, call'.doc = call.doc,
         NEW type, type # "NULL_TEXT",
         NEW cursor \in 0..Len(call.doc.chars), NEW bad \in 0..cursor, fresh' = fresh,
         error' \in Recorded(call.entry, call.doc, error, type, cursor, bad)
  PROVE  ReportInv'
<1>1. error'.type = type /\ error'.cursor = cursor /\ error'.bad = bad
  BY RecordedPlace
<1>2. fresh => error = NoError
  BY DEF ReportInv
<1>3. fresh => error' \in Recorded(call'.entry, call'.doc, NoError, error'.type, error'.cursor, error'.bad)
  BY <1>1, <1>2
<1>4. fresh => RecordedIn(call.doc)'
  BY <1>1, <1>3 DEF RecordedIn
<1>5. call'.entry \notin {"none", "null"}
  BY DEF EntryInv, CallShape
<1>6. QED
  BY <1>4, <1>5 DEF ReportInv

LEMMA ReportInvInit == EntryInit => ReportInv
BY DEF EntryInit, ReportInv, Done, NoCall

LEMMA ReportInvStep == EntryInv /\ ReportInv /\ [EntryNext]_entryVars => ReportInv'
<1>. SUFFICES ASSUME EntryInv, ReportInv, [EntryNext]_entryVars PROVE ReportInv'
  OBVIOUS
<1>1. CASE ClearError
  BY <1>1 DEF ClearError, ReportInv, Done, NoCall
<1>2. CASE ParseNull
  BY <1>2 DEF ParseNull, ReportInv, Done, NoCall
\* A call that begins has recorded nothing.
<1>3. ASSUME NEW entry, NEW d, NEW after, NEW at \in {"parse", "stat", "fetch"}, Begin(entry, d, after, at)
      PROVE  ReportInv'
  BY <1>3 DEF Begin, ReportInv, Done
<1>4. CASE \E d \in Documents : ParseString(d) \/ ParseStringEx(d) \/ ParseFile(d)
                                  \/ (\E e \in {"stream", "pipe"} : ParseStream(e, d)) \/ ParseUrl(d)
  BY <1>3, <1>4 DEF ParseString, ParseStringEx, ParseFile, ParseStream, ParseUrl
\* The other steps before the parse record nothing either.
<1>5. CASE Stat \/ Open \/ Size \/ Fetch \/ ParseEmpty
  <2>1. /\ call.at \in {"stat", "open", "size", "fetch", "parse"} /\ fresh' = fresh /\ recorded' = recorded
        /\ \/ error' = error /\ \E at \in {"open", "size", "parse"} : Goto(at)
           \/ Goto("done")
    BY <1>5 DEF Stat, Open, Size, Fetch, ParseEmpty, Refuse, Return
  <2>2. call' = [call EXCEPT !.at = call'.at]
    BY <2>1 DEF Goto, EntryInv, CallShape
  <2>3. ~Done /\ ~recorded' /\ (Done' \/ error' = error)
    BY <2>1 DEF Done, ReportInv, Goto, EntryInv, CallShape
  <2>4. QED
    BY <2>1, <2>3 DEF ReportInv
<1>6. CASE Parse
  <2>1. /\ call.at = "parse" /\ error' \in Outcomes(call.entry, call.doc) /\ fresh' = fresh
        /\ recorded' = (call.doc.err # "NONE" \/ Unread) /\ call' = [call EXCEPT !.at = "done"]
    BY <1>6 DEF Parse, Return, Goto
  <2>2. ~Done /\ Done' /\ call'.entry = call.entry /\ call'.doc = call.doc
    BY <2>1 DEF Done, EntryInv, CallShape
  <2>3. /\ call.doc.cursor \in 0..Len(call.doc.chars) /\ call.doc.bad \in 0..call.doc.cursor
        /\ call.doc.err # "NULL_TEXT" /\ Len(call.doc.chars) \in Nat
    BY DocumentIs DEF EntryInv, CallShape
  <2>4. CASE call.doc.err # "NONE"
    <3>1. error' \in Recorded(call.entry, call.doc, error, call.doc.err, call.doc.cursor, call.doc.bad)
      BY <2>1, <2>4 DEF Outcomes
    <3>2. QED
      BY <2>1, <2>2, <2>3, <3>1, RecordingKeeps
  <2>5. CASE call.doc.err = "NONE" /\ Unread
    <3>1. error' \in Recorded(call.entry, call.doc, error, "EXPECTED_EOF",
                              Len(call.doc.chars), Len(call.doc.chars))
      BY <2>1, <2>5 DEF Outcomes
    <3>2. Len(call.doc.chars) \in 0..Len(call.doc.chars) /\ "EXPECTED_EOF" # "NULL_TEXT"
      BY <2>3
    <3>3. QED
      BY <2>1, <2>2, <3>1, <3>2, RecordingKeeps
  <2>6. CASE call.doc.err = "NONE" /\ ~Unread
    <3>1. ~recorded'
      BY <2>1, <2>6
    <3>2. QED
      BY <2>2, <3>1 DEF ReportInv
  <2>7. QED
    BY <2>4, <2>5, <2>6
<1>7. CASE ParseOver
  <2>1. call.at = "parse" /\ fresh' = fresh /\ ~Done
    BY <1>7 DEF ParseOver, Done
  <2>2. CASE Goto("loops") /\ error' = error /\ recorded' = recorded
    <3>1. ~Done'
      BY <2>2 DEF Goto, Done, EntryInv, CallShape
    <3>2. QED
      BY <2>1, <2>2, <3>1 DEF ReportInv
  <2>3. CASE /\ error' \in Recorded(call.entry, call.doc, error, "UNEXPECTED_TEXT",
                                     Len(call.doc.chars), Len(call.doc.chars))
             /\ Return(FALSE)
    <3>1. Done' /\ call'.entry = call.entry /\ call'.doc = call.doc
      BY <2>3 DEF Return, Goto, Done, EntryInv, CallShape
    <3>2. Len(call.doc.chars) \in 0..Len(call.doc.chars) /\ "UNEXPECTED_TEXT" # "NULL_TEXT"
      <4>1. Len(call.doc.chars) \in Nat
        BY DocumentIs DEF EntryInv, CallShape
      <4>2. QED
        BY <4>1
    <3>3. QED
      BY <2>1, <2>3, <3>1, <3>2, RecordingKeeps
  <2>4. QED
    BY <1>7, <2>2, <2>3 DEF ParseOver
<1>8. CASE UNCHANGED entryVars
  BY <1>8 DEF entryVars, ReportInv, Done, RecordedIn
<1>. QED BY <1>1, <1>2, <1>4, <1>5, <1>6, <1>7, <1>8 DEF EntryNext

LEMMA PrefixOfConcat ==
  ASSUME NEW s \in Seq(Int), NEW t \in Seq(Int)
  PROVE  IsPrefix(s, s \o t)
<1>1. /\ s \o t \in Seq(Int) /\ Len(s \o t) = Len(s) + Len(t)
      /\ \A i \in 1..(Len(s) + Len(t)) : (s \o t)[i] = IF i <= Len(s) THEN s[i] ELSE t[i - Len(s)]
  BY ConcatProperties
<1>2. Len(s) \in Nat /\ Len(t) \in Nat
  OBVIOUS
<1> DEFINE u == s \o t
<1> HIDE DEF u
<1>3. u \in Seq(Int) /\ Len(u) = Len(s) + Len(t) /\ \A i \in 1..Len(s) : u[i] = s[i]
  BY <1>1, <1>2 DEF u
<1>4. /\ SubSeq(u, 1, Len(s)) \in Seq(Int) /\ Len(SubSeq(u, 1, Len(s))) = Len(s)
      /\ \A i \in 1..Len(s) : SubSeq(u, 1, Len(s))[i] = u[i]
  <2> DEFINE n == Len(s)
  <2>1. n \in 0..Len(u) /\ 1 \in Nat \ {0} /\ n - 1 + 1 = n /\ (~(1 <= n) => n = 0) /\ \A i \in 1..n : 1 + i - 1 = i
    BY <1>2, <1>3
  <2> HIDE DEF n
  <2>2. /\ SubSeq(u, 1, n) \in Seq(Int) /\ Len(SubSeq(u, 1, n)) = n
        /\ \A i \in 1..n : SubSeq(u, 1, n)[i] = u[i]
    BY <1>3, <2>1, StretchIs
  <2>3. QED
    BY <2>2 DEF n
<1>5. SubSeq(u, 1, Len(s)) = s
  BY <1>3, <1>4, SeqEqual
<1>6. SubSeq(s, 1, Len(s)) = s
  BY SubSeqFull
<1>7. QED
  BY <1>2, <1>3, <1>5, <1>6 DEF IsPrefix, u

\* The report of an error shows the text around the place where the parser
\* stopped, and its markers the character to blame (jsonp_print_parse_error,
\* from what pvt_record_error kept): for any texts, and any window.
THEOREM ReportsShowTheText == EntrySpec => []ReportShowsTheText
<1>1. ASSUME EntryInv, ReportInv PROVE ReportShowsTheText
  <2>1. SUFFICES ASSUME Done, recorded, fresh, error.cursor - error.bad <= Window, error.type # "EMPTY_TEXT"
                 PROVE  ReportShowsTheText
    BY DEF ReportShowsTheText
  <2> DEFINE d == call.doc
             s == d.chars
             c == error.cursor
             b == error.bad
             f == c - Least(c, Window)
             e == Least(c + Window, Len(s))
  <2>2. RecordedIn(d) /\ d.chars \in Seq(Int \ {NUL}) /\ d.tail \in Seq(Int)
        /\ call.entry \in {"string", "ex", "url", "file", "stream", "pipe"}
    BY <1>1, <2>1, DocumentIs DEF EntryInv, ReportInv, CallShape, Entries
  <2>3. PICK r \in Seq(Int) :
          /\ Report = Shown(Mark(s, f, b) \o r)
          /\ call.entry # "pipe" /\ d.tail = <<>> => r = SubSeq(s, b + 2, e)
    BY <2>1, <2>2, ReportIs
  <2>4. /\ s \in Seq(Int) /\ Len(s) \in Nat /\ c \in 0..Len(s) /\ b \in 0..c /\ b \in 0..Len(s)
        /\ Window \in Nat
    BY <2>2, EntryAssumption DEF RecordedIn
  <2> HIDE DEF s, c, b, d
  <2>5. f \in Nat /\ e \in 0..Len(s) /\ b + 2 \in Nat \ {0}
    BY <2>4 DEF Least
  <2> HIDE DEF f, e
  <2>6. Mark(s, f, b) \in Seq(Int) /\ Shown(Mark(s, f, b)) = Mark(Shown(s), f, b)
    BY <2>4, <2>5, MarkIsText
  <2>7. Report = Mark(Shown(s), f, b) \o Shown(r)
    BY <2>3, <2>6, ShownConcat
  <2>8. Mark(Shown(s), f, b) \in Seq(Int) /\ Shown(r) \in Seq(Int) /\ Len(Shown(s)) = Len(s)
    BY <2>3, <2>4, <2>6, ShownIs
  <2>9. IsPrefix(Mark(Shown(s), f, b), Report)
    BY <2>7, <2>8, PrefixOfConcat
  <2>10. ASSUME call.entry # "pipe", d.tail = <<>>
         PROVE  Report = Mark(Shown(s), f, b) \o SubSeq(Shown(s), b + 2, e)
    BY <2>3, <2>4, <2>5, <2>7, <2>10, ShownStretch
  <2>11. QED
    <3> DEFINE mark == Mark(Shown(s), f, b)
               all == mark \o SubSeq(Shown(s), b + 2, e)
    <3>1. IF call.entry = "pipe" \/ d.tail # <<>> THEN IsPrefix(mark, Report) ELSE Report = all
      BY <2>9, <2>10
    <3>2. mark = SubSeq(Shown(s), f + 1, b) \o <<LEFT>>
                   \o SubSeq(Shown(s), b + 1, Least(b + 1, Len(Shown(s)))) \o <<RIGHT>>
      BY DEF Mark
    <3>3. e = Least(c + Window, Len(Shown(s)))
      BY <2>8 DEF e
    <3> HIDE DEF mark
    <3>4. QED
      BY <3>1, <3>2, <3>3 DEF ReportShowsTheText, Shown, d, s, c, b, f
<1>. QED BY <1>1, EntryInvInit, EntryInvStep, ReportInvInit, ReportInvStep, PTL DEF EntrySpec

-----------------------------------------------------------------------------
(* Stacks.                                                                  *)

\* A stack without its top: what the descent and the scratch scopes leave when a
\* function returns.
LEMMA FrontIsShorter ==
  ASSUME NEW S, NEW s \in Seq(S), Len(s) \in Nat \ {0}
  PROVE  /\ SubSeq(s, 1, Len(s) - 1) \in Seq(S) /\ Len(SubSeq(s, 1, Len(s) - 1)) = Len(s) - 1
         /\ \A i \in 1..(Len(s) - 1) : SubSeq(s, 1, Len(s) - 1)[i] = s[i] /\ i \in 1..Len(s) /\ i # Len(s)
<1>. DEFINE n == Len(s) - 1
<1>1. n \in Nat /\ \A i \in 1..n : s[i] \in S /\ i \in 1..Len(s) /\ i # Len(s)
  OBVIOUS
<1>. HIDE DEF n
<1>2. /\ SubSeq(s, 1, n) \in Seq(S)
      /\ Len(SubSeq(s, 1, n)) = IF 1 <= n THEN n - 1 + 1 ELSE 0
      /\ \A i \in 1..(n - 1 + 1) : SubSeq(s, 1, n)[i] = s[1 + i - 1]
  BY ONLY <1>1, SubSeqProperties
<1>3. Len(SubSeq(s, 1, n)) = n
  BY ONLY <1>1, <1>2
<1>4. \A i \in 1..n : i \in 1..(n - 1 + 1) /\ 1 + i - 1 = i
  BY ONLY <1>1
<1>5. \A i \in 1..n : SubSeq(s, 1, n)[i] = s[i]
  BY ONLY <1>2, <1>4
<1>. QED BY <1>1, <1>2, <1>3, <1>5 DEF n

-----------------------------------------------------------------------------
(* The scratch arenas.                                                      *)

ScratchSpec == ScratchInit /\ [][ScratchNext]_scratchVars

Arenas == Scratches \cup {USER}

CallSet == [target : Arenas, owner : Nat, scratch : Scratches, mark : Nat, result : Nat, risky : BOOLEAN]

ResultSet == [id : Nat, arena : Arenas, owner : Nat, risky : BOOLEAN]

ScratchTypeOK ==
  /\ content \in [Arenas -> Seq(Int)]
  /\ calls \in Seq(CallSet)
  /\ results \in SUBSET ResultSet

\* An arena belongs to a call that was there before.
OwnersAreOutside == \A k \in 1..Len(calls) : calls[k].owner < k

\* The marks of calls that share a scratch arena are in the order of the calls.
MarksNest ==
  /\ \A k \in 1..Len(calls) : calls[k].mark <= Len(content[calls[k].scratch])
  /\ \A j, k \in 1..Len(calls) : j < k /\ calls[j].scratch = calls[k].scratch => calls[j].mark <= calls[k].mark

\* No call since the one that owns its target has that arena for its scratch.
TargetIsNoScratch ==
  \A k \in 1..Len(calls) : ~calls[k].risky =>
    \A m \in 1..k : m > calls[k].owner => calls[m].scratch # calls[k].target

\* id lies in the arena, below the mark of every running call that could take
\* it away before its owner returns.
LiesBelow(lies, running, id, arena, owner) ==
  \E i \in 1..Len(lies[arena]) :
    /\ lies[arena][i] = id
    /\ \A m \in 1..Len(running) : m > owner /\ running[m].scratch = arena => i <= running[m].mark

ResultsLieBelow ==
  /\ \A r \in results : ~r.risky => LiesBelow(content, calls, r.id, r.arena, r.owner)
  /\ \A k \in 1..Len(calls) : calls[k].result # 0 /\ ~calls[k].risky =>
       LiesBelow(content, calls, calls[k].result, calls[k].target, calls[k].owner)

ScratchInv ==
  /\ ScratchTypeOK /\ OwnersAreOutside /\ MarksNest /\ TargetIsNoScratch /\ ResultsLieBelow
  /\ broken => ~created[2]

LEMMA ScratchInvInit == ScratchInit => ScratchInv
BY DEF ScratchInit, ScratchInv, ScratchTypeOK, OwnersAreOutside, MarksNest, TargetIsNoScratch, ResultsLieBelow,
       Scratches, Arenas, USER

\* Something more in an arena takes nothing away.
LEMMA AppendKeeps ==
  ASSUME NEW c \in [Arenas -> Seq(Int)], NEW a \in Arenas, NEW x \in Int,
         NEW d, d = [c EXCEPT ![a] = Append(@, x)]
  PROVE  /\ d \in [Arenas -> Seq(Int)]
         /\ Len(d[a]) = Len(c[a]) + 1 /\ d[a][Len(c[a]) + 1] = x
         /\ \A b \in Arenas : Len(c[b]) <= Len(d[b])
         /\ \A b \in Arenas : \A i \in 1..Len(c[b]) : d[b][i] = c[b][i]
OBVIOUS

\* A function is called: Call in a scratch arena that is there.
LEMMA CallInv ==
  ASSUME ScratchInv, NEW conflict \in BOOLEAN, NEW t \in Targets, Call(conflict, t)
  PROVE  ScratchInv'
<1>. DEFINE slot == Chosen(IF conflict THEN {t.arena} ELSE {})
            n == Len(calls)
<1>. USE DEF ScratchInv
<1>1. slot \in Scratches /\ created[1] /\ (~created[slot] => ~created[2])
  BY DEF Chosen, Scratches, Call
<1>2. /\ n \in Nat
      /\ n > 0 => Top \in CallSet
      /\ n > 0 => Top.owner < n
      /\ calls # <<>> => n > 0
  BY DEF ScratchTypeOK, Top, OwnersAreOutside
<1>3. /\ t.arena \in Arenas /\ t.owner \in Nat /\ t.owner <= n
      /\ \/ t.arena = USER /\ t.owner = 0
         \/ n > 0 /\ t.arena = Top.target /\ t.owner = Top.owner
         \/ n > 0 /\ t.arena = Top.scratch /\ t.owner = n
  <2>1. CASE t = [arena |-> USER, owner |-> 0]
    BY <1>2, <2>1 DEF Arenas
  <2>2. CASE calls # <<>> /\ t = [arena |-> Top.target, owner |-> Top.owner]
    BY <1>2, <2>2 DEF CallSet
  <2>3. CASE calls # <<>> /\ t = [arena |-> Top.scratch, owner |-> n]
    BY <1>2, <2>3 DEF CallSet, Arenas
  <2>. QED BY <2>1, <2>2, <2>3 DEF Targets
<1>4. CASE ~created[slot]
  <2>1. broken' = TRUE /\ UNCHANGED <<content, calls, created, results>>
    BY <1>4 DEF Call
  <2>2. OwnersAreOutside' /\ MarksNest' /\ TargetIsNoScratch'
    BY <2>1 DEF OwnersAreOutside, MarksNest, TargetIsNoScratch
  <2>3. ScratchTypeOK' /\ ResultsLieBelow'
    BY <2>1 DEF ScratchTypeOK, ResultsLieBelow
  <2>4. ~created'[2]
    BY <1>1, <1>4, <2>1
  <2>. QED BY <2>2, <2>3, <2>4
<1>5. CASE created[slot]
  <2>. DEFINE new == [ target |-> t.arena, owner |-> t.owner, scratch |-> slot,
                       mark |-> Len(content[slot]), result |-> 0,
                       risky |-> (~conflict /\ t.arena = slot) \/
                                (t.owner < Len(calls) /\ calls # <<>> /\ Top.risky) ]
  <2>1. /\ calls' = Append(calls, new)
        /\ content' = [content EXCEPT ![slot] = Append(@, MARKER)]
        /\ UNCHANGED <<created, results, broken>>
    BY <1>5 DEF Call
  <2>2. slot \in Arenas /\ Len(content[slot]) \in Nat
    BY <1>1 DEF ScratchTypeOK, Arenas
  <2>3. new \in CallSet
    BY <1>1, <1>3, <2>2, <1>2 DEF CallSet
  <2>4. /\ content' \in [Arenas -> Seq(Int)]
        /\ \A b \in Arenas : Len(content[b]) <= Len(content'[b])
        /\ \A b \in Arenas : \A i \in 1..Len(content[b]) : content'[b][i] = content[b][i]
    <3>1. content' = [content EXCEPT ![slot] = Append(@, 0)]
      BY <2>1 DEF MARKER
    <3>. HIDE DEF slot
    <3>2. content \in [Arenas -> Seq(Int)]
      BY DEF ScratchTypeOK
    <3>. QED BY ONLY <3>1, <3>2, <2>2, AppendKeeps
  <2>5. /\ calls' \in Seq(CallSet) /\ Len(calls') = n + 1 /\ calls'[n + 1] = new
        /\ \A k \in 1..n : calls'[k] = calls[k] /\ calls[k] \in CallSet
    BY <2>1, <2>3 DEF ScratchTypeOK
  <2>. HIDE DEF n
  <2>6. ScratchTypeOK'
    BY <2>1, <2>4, <2>5 DEF ScratchTypeOK
  <2>7. OwnersAreOutside'
    BY <2>5, <1>2, <1>3 DEF OwnersAreOutside, n
  <2>8. MarksNest'
    <3>1. \A k \in 1..n : calls[k].mark <= Len(content[calls[k].scratch]) /\ calls[k].scratch \in Arenas
                          /\ calls[k].mark \in Nat /\ Len(content[calls[k].scratch]) \in Nat
      <4>1. \A k \in 1..n : calls[k].scratch \in Arenas /\ calls[k].mark \in Nat
        BY <2>5 DEF CallSet, Arenas
      <4>. QED BY <4>1 DEF MarksNest, n, ScratchTypeOK
    <3>2. \A k \in 1..(n + 1) : calls'[k].mark <= Len(content'[calls'[k].scratch])
      <4>1. ASSUME NEW k \in 1..n PROVE calls'[k].mark <= Len(content'[calls'[k].scratch])
        <5>1. Len(content[calls[k].scratch]) <= Len(content'[calls[k].scratch])
              /\ Len(content'[calls[k].scratch]) \in Nat
          BY <3>1, <2>4
        <5>2. calls'[k] = calls[k]
          BY ONLY <4>1, <2>5
        <5>3. calls[k].mark <= Len(content[calls[k].scratch]) /\ calls[k].mark \in Nat
              /\ Len(content[calls[k].scratch]) \in Nat
          BY ONLY <4>1, <3>1
        <5>4. calls[k].mark <= Len(content'[calls[k].scratch])
          <6>. DEFINE x == calls[k].mark
          <6>. DEFINE y == Len(content[calls[k].scratch])
          <6>. DEFINE z == Len(content'[calls[k].scratch])
          <6>1. x \in Nat /\ y \in Nat /\ z \in Nat /\ x <= y /\ y <= z
            BY ONLY <5>1, <5>3
          <6>. HIDE DEF x, y, z
          <6>2. x <= z
            BY ONLY <6>1
          <6>. QED BY ONLY <6>2 DEF x, z
        <5>. QED BY ONLY <5>2, <5>4
      <4>2. calls'[n + 1].mark <= Len(content'[calls'[n + 1].scratch])
        BY <2>5, <2>4, <2>2
      <4>. QED BY <4>1, <4>2, <1>2
    <3>3. ASSUME NEW j \in 1..(n + 1), NEW k \in 1..(n + 1), j < k, calls'[j].scratch = calls'[k].scratch
          PROVE  calls'[j].mark <= calls'[k].mark
      <4>1. CASE k \in 1..n
        <5>1. j \in 1..n
          BY <3>3, <4>1, <1>2
        <5>. QED BY <4>1, <5>1, <3>3, <2>5 DEF MarksNest, n
      <4>2. CASE k = n + 1
        <5>1. j \in 1..n
          BY <3>3, <4>2, <1>2
        <5>2. calls[j].scratch = slot
          BY <5>1, <4>2, <3>3, <2>5
        <5>. QED BY <5>1, <5>2, <4>2, <3>1, <2>5
      <4>. QED BY <4>1, <4>2, <1>2
    <3>. QED BY <3>2, <3>3, <2>5 DEF MarksNest
  <2>9. TargetIsNoScratch'
    <3>1. ASSUME NEW k \in 1..n, ~calls[k].risky, NEW m \in 1..k, m > calls[k].owner
          PROVE  calls[m].scratch # calls[k].target
      BY <3>1 DEF TargetIsNoScratch, n
    <3>2. ASSUME ~new.risky, NEW m \in 1..(n + 1), m > new.owner
          PROVE  calls'[m].scratch # new.target
      <4>1. CASE m = n + 1
        <5>1. ~(~conflict /\ t.arena = slot)
          BY <3>2
        <5>2. conflict => slot # t.arena
          BY <1>5 DEF Chosen, Serves, Call
        <5>. QED BY <4>1, <5>1, <5>2, <2>5
      <4>2. CASE m \in 1..n
        <5>1. n > 0 /\ t.owner < n /\ calls # <<>>
          BY <4>2, <3>2, <1>2, <1>3 DEF n
        <5>2. ~(t.owner < Len(calls) /\ calls # <<>> /\ Top.risky)
          BY <3>2
        <5>3. CASE t.arena = USER
          BY <5>3, <4>2, <2>5 DEF CallSet, Scratches, USER
        <5>4. CASE t.arena = Top.target /\ t.owner = Top.owner
          <6>1. calls[n].target = t.arena /\ calls[n].owner = t.owner /\ ~calls[n].risky /\ n \in 1..n
            BY <5>1, <5>2, <5>4, <1>2 DEF Top, n
          <6>. QED BY <6>1, <3>1, <3>2, <4>2, <2>5
        <5>. QED BY <5>1, <5>3, <5>4, <1>3
      <4>. QED BY <4>1, <4>2, <1>2
    <3>3. \A k \in 1..(n + 1) : ~calls'[k].risky =>
            \A m \in 1..k : m > calls'[k].owner => calls'[m].scratch # calls'[k].target
      <4>. SUFFICES ASSUME NEW k \in 1..(n + 1), ~calls'[k].risky, NEW m \in 1..k, m > calls'[k].owner
                    PROVE  calls'[m].scratch # calls'[k].target
        OBVIOUS
      <4>1. CASE k = n + 1
        BY <4>1, <3>2, <2>5
      <4>2. CASE k \in 1..n
        <5>1. m \in 1..n
          BY <4>2, <1>2
        <5>. QED BY <4>2, <5>1, <3>1, <2>5
      <4>. QED BY <4>1, <4>2, <1>2
    <3>. QED BY <3>3, <2>5 DEF TargetIsNoScratch
  <2>10. ASSUME NEW id \in Nat, NEW arena \in Arenas, NEW owner \in Nat, LiesBelow(content, calls, id, arena, owner)
         PROVE  LiesBelow(content', calls', id, arena, owner)
    <3>1. PICK i \in 1..Len(content[arena]) :
            /\ content[arena][i] = id
            /\ \A m \in 1..n : m > owner /\ calls[m].scratch = arena => i <= calls[m].mark
      BY <2>10 DEF LiesBelow, n
    <3>2. i \in 1..Len(content'[arena]) /\ content'[arena][i] = id
      BY <3>1, <2>4 DEF ScratchTypeOK
    <3>3. ASSUME NEW m \in 1..(n + 1), m > owner, calls'[m].scratch = arena PROVE i <= calls'[m].mark
      <4>1. CASE m = n + 1
        BY <4>1, <3>1, <3>3, <2>5, <2>2
      <4>2. CASE m \in 1..n
        BY <4>2, <3>1, <3>3, <2>5
      <4>. QED BY <4>1, <4>2, <1>2
    <3>. QED BY <3>2, <3>3, <2>5 DEF LiesBelow
  <2>11. ResultsLieBelow'
    <3>1. \A r \in results' : ~r.risky => LiesBelow(content', calls', r.id, r.arena, r.owner)
      BY <2>1, <2>10 DEF ResultsLieBelow, ScratchTypeOK, ResultSet
    <3>2. ASSUME NEW k \in 1..(n + 1), calls'[k].result # 0, ~calls'[k].risky
          PROVE  LiesBelow(content', calls', calls'[k].result, calls'[k].target, calls'[k].owner)
      <4>1. k \in 1..n
        BY <3>2, <2>5, <1>2
      <4>2. LiesBelow(content, calls, calls[k].result, calls[k].target, calls[k].owner)
        BY <4>1, <3>2, <2>5 DEF ResultsLieBelow, n
      <4>. QED BY <4>1, <4>2, <2>5, <2>10 DEF CallSet
    <3>. QED BY <3>1, <3>2, <2>5 DEF ResultsLieBelow
  <2>. QED BY <2>1, <2>6, <2>7, <2>8, <2>9, <2>11
<1>. QED BY <1>4, <1>5

\* The running call is a call.
LEMMA TopIsACall ==
  ASSUME ScratchTypeOK, calls # <<>>
  PROVE  /\ Len(calls) \in Nat \ {0} /\ Len(calls) \in 1..Len(calls) /\ Top = calls[Len(calls)]
         /\ \A k \in 1..Len(calls) : calls[k] \in CallSet
         /\ Top \in CallSet /\ Top.target \in Arenas /\ Top.scratch \in Arenas
         /\ Top.mark \in Nat /\ Top.owner \in Nat
<1>1. Len(calls) \in Nat \ {0} /\ \A k \in 1..Len(calls) : calls[k] \in CallSet
  BY DEF ScratchTypeOK
<1>2. Len(calls) \in 1..Len(calls) /\ Top = calls[Len(calls)] /\ Top \in CallSet
  BY <1>1 DEF Top
<1>. QED BY <1>1, <1>2 DEF CallSet, Arenas

\* The running function allocates its result.
LEMMA ResultInv ==
  ASSUME ScratchInv, Result
  PROVE  ScratchInv'
<1>. DEFINE n == Len(calls)
<1>. USE DEF ScratchInv
<1>1. PICK id \in 1..MaxResults :
        /\ content' = [content EXCEPT ![Top.target] = Append(@, id)]
        /\ calls' = [calls EXCEPT ![Len(calls)].result = id]
        /\ UNCHANGED <<created, results, broken>>
  BY DEF Result
<1>2. /\ n \in Nat \ {0} /\ n \in 1..n /\ Top = calls[n] /\ Top \in CallSet /\ id \in Nat
      /\ Top.target \in Arenas
  <2>1. calls # <<>> /\ id \in Nat
    BY ScratchAssumption DEF Result
  <2>. QED BY <2>1, TopIsACall
<1>3. /\ content' \in [Arenas -> Seq(Int)]
      /\ Len(content'[Top.target]) = Len(content[Top.target]) + 1
      /\ content'[Top.target][Len(content[Top.target]) + 1] = id
      /\ \A b \in Arenas : Len(content[b]) <= Len(content'[b])
      /\ \A b \in Arenas : \A i \in 1..Len(content[b]) : content'[b][i] = content[b][i]
  <2>1. content \in [Arenas -> Seq(Int)] /\ id \in Int
    BY <1>2 DEF ScratchTypeOK
  <2>. QED BY ONLY <2>1, <1>1, <1>2, AppendKeeps
<1>4. /\ calls' \in Seq(CallSet) /\ Len(calls') = n
      /\ \A k \in 1..n : /\ calls'[k] \in CallSet /\ calls[k] \in CallSet
                          /\ calls'[k].target = calls[k].target /\ calls'[k].owner = calls[k].owner
                          /\ calls'[k].scratch = calls[k].scratch /\ calls'[k].mark = calls[k].mark
                          /\ calls'[k].risky = calls[k].risky
                          /\ calls'[k].result = IF k = n THEN id ELSE calls[k].result
  <2>1. calls' = [calls EXCEPT ![n] = [calls[n] EXCEPT !.result = id]]
    BY <1>1
  <2>2. calls \in Seq(CallSet) /\ \A k \in 1..n : calls[k] \in CallSet
    BY DEF ScratchTypeOK
  <2>3. [calls[n] EXCEPT !.result = id] \in CallSet
    BY <1>2, <2>2 DEF CallSet
  <2>4. /\ calls' \in Seq(CallSet) /\ Len(calls') = n
        /\ calls'[n] = [calls[n] EXCEPT !.result = id]
        /\ \A k \in 1..n : k # n => calls'[k] = calls[k]
    BY <2>1, <2>2, <2>3, <1>2
  <2>5. /\ calls'[n].target = calls[n].target /\ calls'[n].owner = calls[n].owner
        /\ calls'[n].scratch = calls[n].scratch /\ calls'[n].mark = calls[n].mark
        /\ calls'[n].risky = calls[n].risky /\ calls'[n].result = id
    BY <1>2, <2>2, <2>4 DEF CallSet
  <2>. HIDE DEF n
  <2>6. ASSUME NEW k \in 1..n
        PROVE  /\ calls'[k] \in CallSet /\ calls[k] \in CallSet
               /\ calls'[k].target = calls[k].target /\ calls'[k].owner = calls[k].owner
               /\ calls'[k].scratch = calls[k].scratch /\ calls'[k].mark = calls[k].mark
               /\ calls'[k].risky = calls[k].risky
               /\ calls'[k].result = IF k = n THEN id ELSE calls[k].result
    BY <2>2, <2>3, <2>4, <2>5
  <2>. QED BY <2>4, <2>6
<1>. HIDE DEF n
<1>5. ScratchTypeOK' /\ OwnersAreOutside'
  BY <1>1, <1>3, <1>4 DEF ScratchTypeOK, OwnersAreOutside, n
<1>6. MarksNest'
  <2>1. ASSUME NEW k \in 1..n PROVE calls'[k].mark <= Len(content'[calls'[k].scratch])
    <3>1. calls[k].scratch \in Arenas /\ calls[k].mark \in Nat
      BY <1>4 DEF CallSet, Arenas
    <3>2. /\ calls[k].mark <= Len(content[calls[k].scratch])
          /\ Len(content[calls[k].scratch]) \in Nat /\ Len(content'[calls[k].scratch]) \in Nat
      BY <3>1, <1>3 DEF MarksNest, ScratchTypeOK, n
    <3>. QED BY <3>1, <3>2, <1>3, <1>4
  <2>. QED BY <2>1, <1>4 DEF MarksNest, n
<1>7. TargetIsNoScratch'
  <2>1. \A k \in 1..n : \A m \in 1..k : m \in 1..n
    BY <1>2
  <2>. QED BY <2>1, <1>4 DEF TargetIsNoScratch, n
<1>8. ASSUME NEW v \in Nat, NEW arena \in Arenas, NEW owner \in Nat, LiesBelow(content, calls, v, arena, owner)
      PROVE  LiesBelow(content', calls', v, arena, owner)
  <2>1. PICK i \in 1..Len(content[arena]) :
          /\ content[arena][i] = v
          /\ \A m \in 1..n : m > owner /\ calls[m].scratch = arena => i <= calls[m].mark
    BY <1>8 DEF LiesBelow, n
  <2>2. i \in 1..Len(content'[arena]) /\ content'[arena][i] = v
    BY <2>1, <1>3 DEF ScratchTypeOK
  <2>. QED BY <2>1, <2>2, <1>4 DEF LiesBelow
<1>9. ~Top.risky => LiesBelow(content', calls', id, Top.target, Top.owner)
  <2>. SUFFICES ASSUME ~Top.risky PROVE LiesBelow(content', calls', id, Top.target, Top.owner)
    OBVIOUS
  <2>1. \A m \in 1..n : m > Top.owner => calls[m].scratch # Top.target
    BY <1>2 DEF TargetIsNoScratch, n
  <2>2. Len(content[Top.target]) + 1 \in 1..Len(content'[Top.target])
    BY <1>2, <1>3 DEF ScratchTypeOK
  <2>. QED BY <2>1, <2>2, <1>3, <1>4 DEF LiesBelow
<1>10. ResultsLieBelow'
  <2>1. \A r \in results' : ~r.risky => LiesBelow(content', calls', r.id, r.arena, r.owner)
    BY <1>1, <1>8 DEF ResultsLieBelow, ScratchTypeOK, ResultSet
  <2>2. ASSUME NEW k \in 1..n, calls'[k].result # 0, ~calls'[k].risky
        PROVE  LiesBelow(content', calls', calls'[k].result, calls'[k].target, calls'[k].owner)
    <3>1. CASE k = n
      BY <3>1, <2>2, <1>2, <1>4, <1>9
    <3>2. CASE k # n
      <4>1. LiesBelow(content, calls, calls[k].result, calls[k].target, calls[k].owner)
        BY <3>2, <2>2, <1>4 DEF ResultsLieBelow, n
      <4>. QED BY <4>1, <3>2, <1>4, <1>8 DEF CallSet
    <3>. QED BY <3>1, <3>2
  <2>. QED BY <2>1, <2>2, <1>4 DEF ResultsLieBelow
<1>. QED BY <1>1, <1>5, <1>6, <1>7, <1>10

\* The running function works in its scratch arena.
LEMMA WorkInv ==
  ASSUME ScratchInv, Work
  PROVE  ScratchInv'
<1>. USE DEF ScratchInv
<1>1. /\ content' = [content EXCEPT ![Top.scratch] = Append(@, WORK)]
      /\ UNCHANGED <<created, calls, results, broken>>
  BY DEF Work
<1>2. /\ \A k \in 1..Len(calls) : calls[k] \in CallSet
      /\ Top.scratch \in Arenas
  BY TopIsACall DEF Work
<1>3. /\ content' \in [Arenas -> Seq(Int)]
      /\ \A b \in Arenas : Len(content[b]) <= Len(content'[b])
      /\ \A b \in Arenas : \A i \in 1..Len(content[b]) : content'[b][i] = content[b][i]
  <2>1. content \in [Arenas -> Seq(Int)] /\ WORK \in Int
    BY DEF ScratchTypeOK, WORK
  <2>. QED BY ONLY <2>1, <1>1, <1>2, AppendKeeps
<1>4. ScratchTypeOK' /\ OwnersAreOutside' /\ TargetIsNoScratch'
  BY <1>1, <1>3 DEF ScratchTypeOK, OwnersAreOutside, TargetIsNoScratch
<1>5. MarksNest'
  <2>1. ASSUME NEW k \in 1..Len(calls) PROVE calls[k].mark <= Len(content'[calls[k].scratch])
    <3>1. calls[k].scratch \in Arenas /\ calls[k].mark \in Nat
      BY <1>2 DEF CallSet, Arenas
    <3>2. /\ calls[k].mark <= Len(content[calls[k].scratch])
          /\ Len(content[calls[k].scratch]) \in Nat /\ Len(content'[calls[k].scratch]) \in Nat
      BY <3>1, <1>3 DEF MarksNest, ScratchTypeOK
    <3>. QED BY <3>1, <3>2, <1>3
  <2>. QED BY <2>1, <1>1 DEF MarksNest
<1>6. ASSUME NEW v \in Nat, NEW arena \in Arenas, NEW owner \in Nat, LiesBelow(content, calls, v, arena, owner)
      PROVE  LiesBelow(content', calls, v, arena, owner)
  <2>1. PICK i \in 1..Len(content[arena]) :
          /\ content[arena][i] = v
          /\ \A m \in 1..Len(calls) : m > owner /\ calls[m].scratch = arena => i <= calls[m].mark
    BY <1>6 DEF LiesBelow
  <2>2. i \in 1..Len(content'[arena]) /\ content'[arena][i] = v
    BY <2>1, <1>3 DEF ScratchTypeOK
  <2>. QED BY <2>1, <2>2 DEF LiesBelow
<1>7. ResultsLieBelow'
  <2>1. \A r \in results' : ~r.risky => LiesBelow(content', calls', r.id, r.arena, r.owner)
    BY <1>1, <1>6 DEF ResultsLieBelow, ScratchTypeOK, ResultSet
  <2>2. ASSUME NEW k \in 1..Len(calls), calls[k].result # 0, ~calls[k].risky
        PROVE  LiesBelow(content', calls', calls[k].result, calls[k].target, calls[k].owner)
    <3>1. LiesBelow(content, calls, calls[k].result, calls[k].target, calls[k].owner)
      BY <2>2 DEF ResultsLieBelow
    <3>. QED BY <3>1, <1>1, <1>2, <1>6 DEF CallSet
  <2>. QED BY <2>1, <2>2, <1>1 DEF ResultsLieBelow
<1>. QED BY <1>1, <1>4, <1>5, <1>7

\* The running function returns, and its scratch arena is released: what lies
\* below its mark stays, and with it every result whose owner still runs.
LEMMA ReturnFromInv ==
  ASSUME ScratchInv, ReturnFrom
  PROVE  ScratchInv'
<1>. DEFINE n == Len(calls)
            own == [id |-> Top.result, arena |-> Top.target, owner |-> Top.owner, risky |-> Top.risky]
<1>. USE DEF ScratchInv
<1>1. /\ content' = [content EXCEPT ![Top.scratch] = SubSeq(@, 1, Top.mark)]
      /\ calls' = SubSeq(calls, 1, n - 1)
      /\ results' = {r \in results \cup {own} : r.owner < n}
      /\ UNCHANGED <<created, broken>>
      /\ Top.result # 0
  BY DEF ReturnFrom
<1>2. /\ n \in Nat \ {0} /\ n \in 1..n /\ Top = calls[n] /\ Top \in CallSet
      /\ Top.target \in Arenas /\ Top.scratch \in Arenas /\ Top.mark \in Nat /\ Top.owner \in Nat
      /\ \A k \in 1..n : calls[k] \in CallSet
  BY TopIsACall DEF ReturnFrom
<1>3. own \in ResultSet
  BY <1>2 DEF ResultSet, CallSet
<1>4. /\ calls' \in Seq(CallSet) /\ Len(calls') = n - 1
      /\ \A k \in 1..(n - 1) : calls'[k] = calls[k] /\ k \in 1..n /\ k < n
  <2>1. calls \in Seq(CallSet) /\ n - 1 \in 0..n
    BY <1>2 DEF ScratchTypeOK
  <2>2. /\ SubSeq(calls, 1, n - 1) \in Seq(CallSet) /\ Len(SubSeq(calls, 1, n - 1)) = n - 1
        /\ \A k \in 1..(n - 1) : SubSeq(calls, 1, n - 1)[k] = calls[k]
    BY <2>1, <1>2, FrontIsShorter
  <2>. QED BY <2>1, <2>2, <1>1, <1>2
<1>5. Top.mark <= Len(content[Top.scratch])
  BY <1>2 DEF MarksNest
<1>6. /\ content' \in [Arenas -> Seq(Int)]
      /\ Len(content'[Top.scratch]) = Top.mark
      /\ \A b \in Arenas : b # Top.scratch => content'[b] = content[b]
      /\ \A i \in 1..Top.mark : content'[Top.scratch][i] = content[Top.scratch][i]
  BY <1>1, <1>2, <1>5 DEF ScratchTypeOK
<1>. HIDE DEF n, own
<1>7. ScratchTypeOK' /\ OwnersAreOutside'
  BY <1>1, <1>3, <1>4, <1>6 DEF ScratchTypeOK, OwnersAreOutside, n
<1>8. MarksNest'
  <2>1. ASSUME NEW k \in 1..(n - 1) PROVE calls[k].mark <= Len(content'[calls[k].scratch])
    <3>1. calls[k].scratch \in Arenas /\ k \in 1..n /\ k < n
      BY <1>2, <1>4 DEF CallSet, Arenas
    <3>2. CASE calls[k].scratch = Top.scratch
      BY <3>1, <3>2, <1>2, <1>6 DEF MarksNest, n
    <3>3. CASE calls[k].scratch # Top.scratch
      BY <3>1, <3>3, <1>6 DEF MarksNest, n
    <3>. QED BY <3>2, <3>3
  <2>. QED BY <2>1, <1>4 DEF MarksNest, n
<1>9. TargetIsNoScratch'
  <2>1. \A k \in 1..(n - 1) : \A m \in 1..k : m \in 1..(n - 1)
    BY <1>2
  <2>. QED BY <2>1, <1>4 DEF TargetIsNoScratch, n
<1>10. ASSUME NEW v \in Nat, NEW arena \in Arenas, NEW owner \in Nat, owner < n,
              LiesBelow(content, calls, v, arena, owner)
       PROVE  LiesBelow(content', calls', v, arena, owner)
  <2>1. PICK i \in 1..Len(content[arena]) :
          /\ content[arena][i] = v
          /\ \A m \in 1..n : m > owner /\ calls[m].scratch = arena => i <= calls[m].mark
    BY <1>10 DEF LiesBelow, n
  <2>2. i \in 1..Len(content'[arena]) /\ content'[arena][i] = v
    <3>1. CASE arena = Top.scratch
      <4>1. i <= Top.mark
        BY <2>1, <3>1, <1>2, <1>10
      <4>. QED BY <4>1, <3>1, <2>1, <1>2, <1>6
    <3>2. CASE arena # Top.scratch
      BY <3>2, <2>1, <1>6
    <3>. QED BY <3>1, <3>2
  <2>. QED BY <2>1, <2>2, <1>4 DEF LiesBelow
<1>11. Top.owner < n /\ \A k \in 1..(n - 1) : calls[k].owner < n
  BY <1>2, <1>4 DEF OwnersAreOutside, n, CallSet
<1>12. ResultsLieBelow'
  <2>1. ASSUME NEW r \in results', ~r.risky PROVE LiesBelow(content', calls', r.id, r.arena, r.owner)
    <3>1. r \in ResultSet /\ r.owner < n
      BY <1>1, <1>3 DEF ScratchTypeOK
    <3>2. LiesBelow(content, calls, r.id, r.arena, r.owner)
      <4>1. CASE r \in results
        BY <4>1, <2>1 DEF ResultsLieBelow
      <4>2. CASE r = own
        BY <4>2, <2>1, <1>1, <1>2 DEF ResultsLieBelow, own, n
      <4>. QED BY <4>1, <4>2, <1>1
    <3>. QED BY <3>1, <3>2, <1>10 DEF ResultSet
  <2>2. ASSUME NEW k \in 1..(n - 1), calls[k].result # 0, ~calls[k].risky
        PROVE  LiesBelow(content', calls', calls[k].result, calls[k].target, calls[k].owner)
    <3>1. LiesBelow(content, calls, calls[k].result, calls[k].target, calls[k].owner)
      BY <2>2, <1>4 DEF ResultsLieBelow, n
    <3>. QED BY <3>1, <1>2, <1>4, <1>10, <1>11 DEF CallSet
  <2>. QED BY <2>1, <2>2, <1>4 DEF ResultsLieBelow
<1>. QED BY <1>1, <1>7, <1>8, <1>9, <1>12

LEMMA ScratchInvStep == ScratchInv /\ [ScratchNext]_scratchVars => ScratchInv'
<1>. SUFFICES ASSUME ScratchInv, [ScratchNext]_scratchVars PROVE ScratchInv'
  OBVIOUS
<1>1. CASE FirstCall
  <2>1. PICK m \in {<<TRUE, TRUE>>, <<TRUE, FALSE>>, <<FALSE, FALSE>>}, careful \in BOOLEAN :
          created' = m /\ broken' = ~(careful \/ m[2])
    BY <1>1 DEF FirstCall
  <2>2. broken' => ~created'[2]
    BY <2>1
  <2>3. UNCHANGED <<content, calls, results>>
    BY <1>1 DEF FirstCall
  <2>4. OwnersAreOutside' /\ MarksNest' /\ TargetIsNoScratch' /\ ResultsLieBelow'
    BY <2>3 DEF ScratchInv, OwnersAreOutside, MarksNest, TargetIsNoScratch, ResultsLieBelow
  <2>. QED BY <2>2, <2>3, <2>4 DEF ScratchInv, ScratchTypeOK
<1>2. ASSUME NEW conflict \in BOOLEAN, NEW t \in Targets, Call(conflict, t) PROVE ScratchInv'
  BY <1>2, CallInv
<1>3. CASE Work
  BY <1>3, WorkInv
<1>4. CASE Result
  BY <1>4, ResultInv
<1>5. CASE ReturnFrom
  BY <1>5, ReturnFromInv
<1>6. CASE UNCHANGED scratchVars
  <2>1. OwnersAreOutside' /\ MarksNest' /\ TargetIsNoScratch' /\ ResultsLieBelow'
    BY <1>6 DEF scratchVars, ScratchInv, OwnersAreOutside, MarksNest, TargetIsNoScratch, ResultsLieBelow
  <2>. QED BY <1>6, <2>1 DEF scratchVars, ScratchInv, ScratchTypeOK
<1>. QED BY <1>1, <1>2, <1>3, <1>4, <1>5, <1>6 DEF ScratchNext

\* What a function leaves in an arena of its caller is there after the function
\* has released its scratch arena, and as long as the owner of the arena runs
\* (alok_arena_get_scratch and alok_arena_release_scratch in allocator.c).
THEOREM ScratchArenasKeepResults == ScratchSpec => []ResultsSurvive
<1>1. ScratchInv => ResultsSurvive
  BY DEF ScratchInv, ResultsLieBelow, LiesBelow, ResultsSurvive
<1>. QED BY <1>1, ScratchInvInit, ScratchInvStep, PTL DEF ScratchSpec

-----------------------------------------------------------------------------
(* The tree.                                                                *)

TreeSpec == TreeInit /\ [][TreeNext]_treeVars

Pointers == Shared \cup {NullValue} \cup (Nat \ {0})

CellSet == [type : {"array", "object", "number", "string", "entry"}, members : Seq(Pointers)]

FrameSet == [cell : Nat \ {0}, key : Pointers, nodes : Seq(Pointers)]

ContainersIn(mem) == {c \in 1..Len(mem) : mem[c].type \in {"array", "object"}}

TreeTypeOK ==
  /\ cells \in Seq(CellSet)
  /\ nest \in Seq(FrameSet)
  /\ result \in Pointers
  /\ step \in {"value", "add", "loop", "key", "fail", "done", "crashed"}
  /\ spelled \in [ContainersIn(cells) -> Seq(Pointers \X Pointers)]

\* The member m of the container c is p in the text.
Spells(mem, c, m, p) ==
  IF mem[c].type = "array" THEN p = <<NullValue, m>>
  ELSE m \in 1..Len(mem) /\ mem[m].type = "entry" /\ mem[m].members = p

\* The list of a container that is open holds what its text has so far, the
\* newest in front.
FrameHolds(mem, text, f) ==
  /\ f.cell \in ContainersIn(mem)
  /\ mem[f.cell].type = "array" => f.key = NullValue
  /\ Len(text[f.cell]) = Len(f.nodes)
  /\ \A j \in 1..Len(f.nodes) : Spells(mem, f.cell, f.nodes[Len(f.nodes) - j + 1], text[f.cell][j])

\* The array of one that is closed holds what its text has.
CellHolds(mem, text, c) ==
  /\ Len(mem[c].members) = Len(text[c])
  /\ \A j \in 1..Len(text[c]) : Spells(mem, c, mem[c].members[j], text[c][j])

FramesHold ==
  /\ \A i \in 1..Len(nest) : FrameHolds(cells, spelled, nest[i])
  /\ \A i, j \in 1..Len(nest) : i # j => nest[i].cell # nest[j].cell

\* Until something fails, every container that is not open is closed.
ClosedHold ==
  reason = "NONE" =>
    \A c \in ContainersIn(cells) : (\A i \in 1..Len(nest) : nest[i].cell # c) => CellHolds(cells, spelled, c)

\* What each step of the functions knows.
StepKnows ==
  /\ step = "fail" => reason # "NONE" /\ result = NullValue
  /\ step = "done" => nest = <<>> /\ ((result # NullValue) <=> (reason = "NONE"))
  /\ step \notin {"fail", "done"} => reason = "NONE"
  /\ step \in {"add", "loop", "key"} => nest # <<>>
  /\ step = "add" => result # NullValue
  /\ step = "key" => ~InArray
  /\ step # "crashed" => denied = IF reason = "OUT_OF_MEMORY" THEN {"entry"} ELSE {}
  /\ step = "crashed" => denied # {"entry"}

TreeInv == TreeTypeOK /\ FramesHold /\ ClosedHold /\ StepKnows

LEMMA TreeInvInit == TreeInit => TreeInv
<1>. SUFFICES ASSUME TreeInit PROVE TreeInv
  OBVIOUS
<1>1. cells = <<>> /\ nest = <<>> /\ spelled = <<>> /\ ContainersIn(cells) = {}
  BY DEF TreeInit, ContainersIn
<1>2. spelled \in [ContainersIn(cells) -> Seq(Pointers \X Pointers)]
  BY <1>1
<1>. QED BY <1>1, <1>2 DEF TreeInit, TreeInv, TreeTypeOK, FramesHold, ClosedHold, StepKnows, Pointers

\* The arena grows, and no cell becomes another or changes as an entry.
Grows(mem, big) ==
  /\ Len(mem) \in Nat /\ Len(big) \in Nat /\ Len(mem) <= Len(big)
  /\ \A c \in 1..Len(mem) :
       big[c].type = mem[c].type /\ (mem[c].type = "entry" => big[c].members = mem[c].members)

LEMMA StoreGrows ==
  ASSUME TreeTypeOK, NEW type, NEW members, Store(type, members), [type |-> type, members |-> members] \in CellSet
  PROVE  /\ cells' \in Seq(CellSet)
         /\ Len(cells) \in Nat /\ Len(cells') = Len(cells) + 1 /\ NewAddress = Len(cells) + 1
         /\ \A c \in 1..Len(cells) : cells'[c] = cells[c]
         /\ cells'[NewAddress] = [type |-> type, members |-> members]
         /\ Grows(cells, cells')
         /\ type \in {"array", "object"} => ContainersIn(cells') = ContainersIn(cells) \cup {NewAddress}
         /\ type \notin {"array", "object"} => ContainersIn(cells') = ContainersIn(cells)
<1>1. cells' = Append(cells, [type |-> type, members |-> members]) /\ cells \in Seq(CellSet)
  BY DEF Store, TreeTypeOK
<1>2. /\ cells' \in Seq(CellSet)
      /\ Len(cells) \in Nat /\ Len(cells') = Len(cells) + 1 /\ NewAddress = Len(cells) + 1
      /\ \A c \in 1..Len(cells) : cells'[c] = cells[c]
      /\ cells'[NewAddress] = [type |-> type, members |-> members]
  BY <1>1 DEF NewAddress
<1>3. Grows(cells, cells')
  BY <1>2 DEF Grows
<1>4. /\ type \in {"array", "object"} => ContainersIn(cells') = ContainersIn(cells) \cup {NewAddress}
      /\ type \notin {"array", "object"} => ContainersIn(cells') = ContainersIn(cells)
  BY <1>2 DEF ContainersIn
<1>. QED BY <1>2, <1>3, <1>4

\* What was spelled stays spelled.
LEMMA SpellsKept ==
  ASSUME NEW mem, NEW big, Grows(mem, big), NEW c \in 1..Len(mem), NEW m, NEW p, Spells(mem, c, m, p)
  PROVE  Spells(big, c, m, p)
BY DEF Grows, Spells

LEMMA FrameKept ==
  ASSUME NEW mem, NEW big, Grows(mem, big), NEW text, NEW more, NEW f, FrameHolds(mem, text, f),
         more[f.cell] = text[f.cell]
  PROVE  FrameHolds(big, more, f)
<1>1. f.cell \in 1..Len(mem) /\ f.cell \in ContainersIn(big) /\ big[f.cell].type = mem[f.cell].type
  BY DEF FrameHolds, ContainersIn, Grows
<1>. QED BY <1>1, SpellsKept DEF FrameHolds

LEMMA CellKept ==
  ASSUME NEW mem, NEW big, Grows(mem, big), NEW text, NEW more, NEW c \in 1..Len(mem), CellHolds(mem, text, c),
         big[c].members = mem[c].members, more[c] = text[c]
  PROVE  CellHolds(big, more, c)
BY SpellsKept DEF CellHolds

\* A pointer that is null is written through: nothing else happens.
LEMMA CrashKeeps ==
  ASSUME TreeInv, step \notin {"fail", "done", "crashed"}, NEW kind, kind # "entry", WriteThroughNull(kind)
  PROVE  TreeInv'
<1>1. /\ step' = "crashed" /\ denied' = denied \cup {kind}
      /\ UNCHANGED <<cells, nest, result, reason, spelled>>
  BY DEF WriteThroughNull
<1>2. TreeTypeOK' /\ FramesHold' /\ ClosedHold'
  BY <1>1 DEF TreeInv, TreeTypeOK, FramesHold, ClosedHold
<1>3. StepKnows'
  BY <1>1 DEF TreeInv, StepKnows
<1>. QED BY <1>2, <1>3 DEF TreeInv

\* A function gives up with an error.
LEMMA NullKeeps ==
  ASSUME TreeInv, NEW type, type # "NONE", ReturnNull(type),
         denied' = IF type = "OUT_OF_MEMORY" THEN {"entry"} ELSE {}
  PROVE  TreeInv'
<1>1. step' = "fail" /\ reason' = type /\ result' = NullValue /\ UNCHANGED <<cells, nest, spelled>>
  BY DEF ReturnNull
<1>2. TreeTypeOK' /\ FramesHold' /\ ClosedHold'
  BY <1>1 DEF TreeInv, TreeTypeOK, FramesHold, ClosedHold, Pointers
<1>3. StepKnows'
  BY <1>1 DEF TreeInv, StepKnows
<1>. QED BY <1>2, <1>3 DEF TreeInv

\* A cell that is no container is allocated.
LEMMA LeafKeeps ==
  ASSUME TreeTypeOK, FramesHold, ClosedHold, NEW type \in {"number", "string", "entry"}, NEW members \in Seq(Pointers),
         Store(type, members), UNCHANGED <<nest, spelled, reason>>
  PROVE  /\ cells' \in Seq(CellSet) /\ spelled' \in [ContainersIn(cells') -> Seq(Pointers \X Pointers)]
         /\ FramesHold' /\ ClosedHold'
         /\ NewAddress \in Nat \ {0} /\ NewAddress \in Pointers
<1>1. [type |-> type, members |-> members] \in CellSet
  BY DEF CellSet
<1>2. /\ cells' \in Seq(CellSet) /\ Len(cells) \in Nat /\ NewAddress = Len(cells) + 1
      /\ \A c \in 1..Len(cells) : cells'[c] = cells[c]
      /\ Grows(cells, cells') /\ ContainersIn(cells') = ContainersIn(cells)
  BY <1>1, StoreGrows
<1>3. FramesHold'
  BY <1>2, FrameKept DEF FramesHold
<1>4. ClosedHold'
  <2>1. \A c \in ContainersIn(cells) : c \in 1..Len(cells)
    BY DEF ContainersIn
  <2>. QED BY <1>2, <2>1, CellKept DEF ClosedHold
<1>. QED BY <1>2, <1>3, <1>4 DEF TreeTypeOK, Pointers

\* The running container is one, and open.
LEMMA FrameIsOpen ==
  ASSUME TreeTypeOK, FramesHold, nest # <<>>
  PROVE  /\ Len(nest) \in Nat \ {0} /\ Len(nest) \in 1..Len(nest) /\ Frame = nest[Len(nest)]
         /\ \A i \in 1..Len(nest) : nest[i] \in FrameSet
         /\ Frame \in FrameSet /\ FrameHolds(cells, spelled, Frame)
         /\ Frame.cell \in ContainersIn(cells) /\ Frame.cell \in 1..Len(cells)
         /\ \A i \in 1..Len(nest) : i # Len(nest) => nest[i].cell # Frame.cell
<1>1. Len(nest) \in Nat \ {0} /\ \A i \in 1..Len(nest) : nest[i] \in FrameSet
  BY DEF TreeTypeOK
<1>2. Len(nest) \in 1..Len(nest) /\ Frame = nest[Len(nest)]
  BY <1>1 DEF Frame
<1>3. FrameHolds(cells, spelled, Frame)
  BY <1>2 DEF FramesHold
<1>. QED BY <1>1, <1>2, <1>3 DEF FramesHold, FrameHolds, ContainersIn

LEMMA OpenContainerKeeps ==
  ASSUME TreeInv, NEW type \in {"array", "object"}, OpenContainer(type)
  PROVE  TreeInv'
<1>. USE DEF TreeInv
<1>1. step = "value" /\ reason = "NONE" /\ denied = {}
  BY DEF OpenContainer, StepKnows
<1>2. CASE ReturnNull("MAX_NESTED_DEPTH_EXCEEDED") /\ UNCHANGED denied
  BY <1>1, <1>2, NullKeeps
<1>3. CASE WriteThroughNull("value")
  BY <1>1, <1>3, CrashKeeps
<1>4. CASE /\ Store(type, <<>>)
           /\ nest' = Append(nest, [cell |-> NewAddress, key |-> NullValue, nodes |-> <<>>])
           /\ spelled' = [c \in DOMAIN spelled \cup {NewAddress} |-> IF c = NewAddress THEN <<>> ELSE spelled[c]]
           /\ Reads("loop", NullValue)
  <2>. DEFINE new == [cell |-> NewAddress, key |-> NullValue, nodes |-> <<>>]
              a == NewAddress
  <2>1. [type |-> type, members |-> <<>>] \in CellSet
    BY DEF CellSet
  <2>2. /\ cells' \in Seq(CellSet) /\ Len(cells) \in Nat /\ a = Len(cells) + 1 /\ Len(cells') = a
        /\ \A c \in 1..Len(cells) : cells'[c] = cells[c]
        /\ cells'[a] = [type |-> type, members |-> <<>>]
        /\ Grows(cells, cells') /\ ContainersIn(cells') = ContainersIn(cells) \cup {a}
    BY <1>4, <2>1, StoreGrows
  <2>3. \A c \in ContainersIn(cells) : c \in 1..Len(cells) /\ c # a
    BY <2>2 DEF ContainersIn
  <2>4. /\ DOMAIN spelled' = ContainersIn(cells')
        /\ spelled'[a] = <<>>
        /\ \A c \in ContainersIn(cells) : spelled'[c] = spelled[c]
    BY <1>4, <2>2, <2>3 DEF TreeTypeOK
  <2>5. spelled' \in [ContainersIn(cells') -> Seq(Pointers \X Pointers)]
    BY <1>4, <2>2, <2>3 DEF TreeTypeOK
  <2>6. new \in FrameSet
    BY <2>2 DEF FrameSet, Pointers
  <2>7. /\ nest' \in Seq(FrameSet) /\ Len(nest) \in Nat /\ Len(nest') = Len(nest) + 1
        /\ \A i \in 1..Len(nest) : nest'[i] = nest[i] /\ nest[i] \in FrameSet
        /\ nest'[Len(nest) + 1] = new
    BY <1>4, <2>6 DEF TreeTypeOK
  <2>. HIDE DEF a
  <2>8. FrameHolds(cells', spelled', new)
    BY <2>2, <2>4 DEF FrameHolds, a
  <2>9. ASSUME NEW i \in 1..Len(nest) PROVE FrameHolds(cells', spelled', nest[i]) /\ nest[i].cell \in ContainersIn(cells)
    <3>1. FrameHolds(cells, spelled, nest[i]) /\ nest[i].cell \in ContainersIn(cells)
      BY DEF FramesHold, FrameHolds
    <3>. QED BY <3>1, <2>2, <2>4, FrameKept
  <2>10. FramesHold'
    <3>1. \A i \in 1..Len(nest') : i \in 1..Len(nest) \/ i = Len(nest) + 1
      BY <2>7
    <3>2. \A i \in 1..Len(nest') : FrameHolds(cells', spelled', nest'[i])
      BY <3>1, <2>7, <2>8, <2>9
    <3>3. new.cell = a /\ \A i \in 1..Len(nest) : nest'[i].cell # a
      BY <2>3, <2>7, <2>9 DEF a
    <3>4. \A i, j \in 1..Len(nest') : i # j => nest'[i].cell # nest'[j].cell
      <4>. SUFFICES ASSUME NEW i \in 1..Len(nest'), NEW j \in 1..Len(nest'), i # j
                    PROVE  nest'[i].cell # nest'[j].cell
        OBVIOUS
      <4>1. CASE i \in 1..Len(nest) /\ j \in 1..Len(nest)
        BY <4>1, <2>7 DEF FramesHold
      <4>2. CASE i = Len(nest) + 1 \/ j = Len(nest) + 1
        BY <4>2, <3>1, <3>3, <2>7
      <4>. QED BY <4>1, <4>2, <3>1
    <3>. QED BY <3>2, <3>4 DEF FramesHold
  <2>11. ClosedHold'
    <3>. SUFFICES ASSUME reason' = "NONE", NEW c \in ContainersIn(cells'), \A i \in 1..Len(nest') : nest'[i].cell # c
                  PROVE  CellHolds(cells', spelled', c)
      BY DEF ClosedHold
    <3>1. c # a
      BY <2>7 DEF a
    <3>2. c \in ContainersIn(cells) /\ c \in 1..Len(cells)
      BY <3>1, <2>2, <2>3
    <3>3. \A i \in 1..Len(nest) : nest[i].cell # c
      BY <2>7
    <3>4. CellHolds(cells, spelled, c)
      BY <1>1, <3>2, <3>3 DEF ClosedHold
    <3>. QED BY <3>2, <3>4, <2>2, <2>4, CellKept
  <2>12. TreeTypeOK'
    BY <1>4, <2>2, <2>5, <2>7 DEF TreeTypeOK, Reads, Pointers
  <2>13. StepKnows'
    BY <1>4, <1>1, <2>7 DEF StepKnows, Reads
  <2>. QED BY <2>10, <2>11, <2>12, <2>13
<1>. QED BY <1>2, <1>3, <1>4 DEF OpenContainer

\* A node is put in front of the running container's list, in an arena that may
\* have grown by it.
LEMMA PutInFrontKeeps ==
  ASSUME TreeTypeOK, FramesHold, ClosedHold, nest # <<>>, NEW member \in Pointers, PutInFront(member),
         cells' \in Seq(CellSet), Grows(cells, cells'), ContainersIn(cells') = ContainersIn(cells),
         \A c \in ContainersIn(cells) : cells'[c] = cells[c],
         Spells(cells', Frame.cell, member, <<Frame.key, result>>)
  PROVE  TreeTypeOK' /\ FramesHold' /\ ClosedHold' /\ nest' # <<>>
<1>. DEFINE n == Len(nest)
            c == Frame.cell
            pair == <<Frame.key, result>>
            len == Len(Frame.nodes)
            top == [Frame EXCEPT !.nodes = <<member>> \o @]
<1>1. /\ n \in Nat \ {0} /\ n \in 1..n /\ Frame = nest[n]
      /\ \A i \in 1..n : nest[i] \in FrameSet
      /\ Frame \in FrameSet /\ FrameHolds(cells, spelled, Frame)
      /\ c \in ContainersIn(cells) /\ c \in 1..Len(cells)
      /\ \A i \in 1..n : i # n => nest[i].cell # c
  BY FrameIsOpen
<1>2. /\ nest' = [nest EXCEPT ![n].nodes = <<member>> \o @]
      /\ spelled' = [spelled EXCEPT ![c] = Append(@, pair)]
      /\ step' = "loop" /\ result' = NullValue /\ UNCHANGED <<reason, denied>>
  BY DEF PutInFront
<1>3. Frame.nodes \in Seq(Pointers) /\ pair \in Pointers \X Pointers
  BY <1>1 DEF FrameSet, TreeTypeOK
<1>4. /\ len \in Nat /\ <<member>> \o Frame.nodes \in Seq(Pointers)
      /\ Len(<<member>> \o Frame.nodes) = len + 1
      /\ (<<member>> \o Frame.nodes)[1] = member
      /\ \A k \in 1..len : (<<member>> \o Frame.nodes)[k + 1] = Frame.nodes[k]
  BY <1>3
<1>5. /\ top \in FrameSet /\ top.cell = c /\ top.key = Frame.key
      /\ top.nodes = <<member>> \o Frame.nodes
  BY <1>1, <1>4 DEF FrameSet
<1>6. nest' = [nest EXCEPT ![n] = top] /\ nest \in Seq(FrameSet)
  BY <1>1, <1>2 DEF TreeTypeOK
<1>. HIDE DEF n, c, pair, len, top
<1>7. /\ nest' \in Seq(FrameSet) /\ Len(nest') = n /\ nest'[n] = top
      /\ \A i \in 1..n : i # n => nest'[i] = nest[i]
  BY <1>1, <1>5, <1>6 DEF n
<1>8. /\ spelled \in [ContainersIn(cells) -> Seq(Pointers \X Pointers)]
      /\ spelled[c] \in Seq(Pointers \X Pointers)
  BY <1>1 DEF TreeTypeOK
<1>9. /\ Len(spelled[c]) \in Nat
      /\ Append(spelled[c], pair) \in Seq(Pointers \X Pointers)
      /\ Len(Append(spelled[c], pair)) = Len(spelled[c]) + 1
      /\ Append(spelled[c], pair)[Len(spelled[c]) + 1] = pair
      /\ \A j \in 1..Len(spelled[c]) : Append(spelled[c], pair)[j] = spelled[c][j]
  BY <1>3, <1>8
<1>10. /\ spelled' \in [ContainersIn(cells) -> Seq(Pointers \X Pointers)]
       /\ spelled'[c] = Append(spelled[c], pair)
       /\ \A d \in ContainersIn(cells) : d # c => spelled'[d] = spelled[d]
  BY <1>1, <1>2, <1>8, <1>9
<1>11. FrameHolds(cells', spelled', top)
  <2>1. /\ Len(spelled[c]) = len
        /\ \A j \in 1..len : Spells(cells, c, Frame.nodes[len - j + 1], spelled[c][j])
        /\ (cells[c].type = "array" => Frame.key = NullValue)
    BY <1>1 DEF FrameHolds, len, c
  <2>2. ASSUME NEW j \in 1..(len + 1) PROVE Spells(cells', c, top.nodes[(len + 1) - j + 1], spelled'[c][j])
    <3>1. CASE j = len + 1
      <4>1. (len + 1) - j + 1 = 1
        BY <3>1, <1>4 DEF len
      <4>. QED BY <4>1, <3>1, <2>1, <1>4, <1>5, <1>9, <1>10 DEF c, pair
    <3>2. CASE j \in 1..len
      <4>1. (len + 1) - j + 1 = (len - j + 1) + 1 /\ len - j + 1 \in 1..len
        BY <3>2, <1>4 DEF len
      <4>2. top.nodes[(len + 1) - j + 1] = Frame.nodes[len - j + 1] /\ spelled'[c][j] = spelled[c][j]
        BY <4>1, <3>2, <2>1, <1>4, <1>5, <1>9, <1>10 DEF len
      <4>3. Spells(cells, c, Frame.nodes[len - j + 1], spelled[c][j])
        BY <3>2, <2>1
      <4>. QED BY <4>2, <4>3, <1>1, SpellsKept
    <3>. QED BY <3>1, <3>2, <1>4 DEF len
  <2>3. c \in ContainersIn(cells') /\ (cells'[c].type = "array" => top.key = NullValue)
    BY <1>1, <1>5, <2>1
  <2>4. Len(top.nodes) = len + 1 /\ Len(spelled'[c]) = len + 1
    BY <2>1, <1>4, <1>5, <1>9, <1>10 DEF len
  <2>. QED BY <2>2, <2>3, <2>4, <1>5 DEF FrameHolds
<1>12. FramesHold'
  <2>1. ASSUME NEW i \in 1..n PROVE FrameHolds(cells', spelled', nest'[i])
    <3>1. CASE i = n
      BY <3>1, <1>7, <1>11
    <3>2. CASE i # n
      <4>1. FrameHolds(cells, spelled, nest[i]) /\ nest[i].cell \in ContainersIn(cells) /\ nest[i].cell # c
        BY <3>2, <1>1 DEF FramesHold, FrameHolds, n
      <4>. QED BY <4>1, <3>2, <1>7, <1>10, FrameKept
    <3>. QED BY <3>1, <3>2
  <2>2. \A i \in 1..n : nest'[i].cell = nest[i].cell
    BY <1>1, <1>5, <1>7 DEF c
  <2>. QED BY <2>1, <2>2, <1>7 DEF FramesHold, n
<1>13. ClosedHold'
  <2>. SUFFICES ASSUME reason = "NONE", NEW d \in ContainersIn(cells), \A i \in 1..n : nest'[i].cell # d
                PROVE  CellHolds(cells', spelled', d)
    BY <1>2, <1>7 DEF ClosedHold
  <2>1. \A i \in 1..n : nest[i].cell # d
    BY <1>1, <1>5, <1>7 DEF c
  <2>2. d # c /\ CellHolds(cells, spelled, d)
    BY <2>1, <1>1 DEF ClosedHold, n, c
  <2>3. d \in 1..Len(cells)
    BY DEF ContainersIn
  <2>. QED BY <2>2, <2>3, <1>10, CellKept
<1>14. TreeTypeOK' /\ nest' # <<>>
  BY <1>1, <1>2, <1>7, <1>10 DEF TreeTypeOK, Pointers
<1>. QED BY <1>12, <1>13, <1>14

LEMMA AddKeeps ==
  ASSUME TreeInv, AddElement \/ AddEntry
  PROVE  TreeInv'
<1>. USE DEF TreeInv
<1>1. step = "add" /\ reason = "NONE" /\ denied = {} /\ nest # <<>>
  BY DEF AddElement, AddEntry, StepKnows
<1>2. /\ Frame.cell \in ContainersIn(cells) /\ FrameHolds(cells, spelled, Frame)
      /\ Frame.key \in Pointers /\ result \in Pointers /\ Len(cells) \in Nat
      /\ InArray <=> cells[Frame.cell].type = "array"
  BY <1>1, FrameIsOpen DEF FrameSet, InArray, TreeTypeOK
<1>3. ASSUME NEW member \in Pointers, PutInFront(member), TreeTypeOK', FramesHold', ClosedHold', nest' # <<>>
      PROVE  TreeInv'
  BY <1>1, <1>3 DEF PutInFront, StepKnows
<1>4. CASE InArray /\ PutInFront(result) /\ UNCHANGED cells
  <2>1. cells' \in Seq(CellSet) /\ Grows(cells, cells')
    BY <1>2, <1>4 DEF TreeTypeOK, Grows
  <2>2. Spells(cells', Frame.cell, result, <<Frame.key, result>>)
    BY <1>2, <1>4 DEF Spells, FrameHolds
  <2>3. ContainersIn(cells') = ContainersIn(cells) /\ \A c \in ContainersIn(cells) : cells'[c] = cells[c]
    BY <1>4
  <2>. QED BY <1>1, <1>2, <1>3, <1>4, <2>1, <2>2, <2>3, PutInFrontKeeps
<1>5. CASE ~InArray /\ Store("entry", <<Frame.key, result>>) /\ PutInFront(NewAddress)
  <2>1. <<Frame.key, result>> \in Seq(Pointers)
    BY <1>2
  <2>2. [type |-> "entry", members |-> <<Frame.key, result>>] \in CellSet
    BY <2>1 DEF CellSet
  <2>3. /\ cells' \in Seq(CellSet)
        /\ Len(cells') = Len(cells) + 1 /\ NewAddress = Len(cells) + 1
        /\ \A c \in 1..Len(cells) : cells'[c] = cells[c]
        /\ cells'[NewAddress] = [type |-> "entry", members |-> <<Frame.key, result>>]
        /\ Grows(cells, cells') /\ ContainersIn(cells') = ContainersIn(cells)
    <3>1. TreeTypeOK /\ Store("entry", <<Frame.key, result>>)
      BY <1>5
    <3>. QED BY ONLY <3>1, <2>2, StoreGrows
  <2>4. \A c \in ContainersIn(cells) : c \in 1..Len(cells) /\ cells'[c] = cells[c]
    BY <2>3 DEF ContainersIn
  <2>5. Spells(cells', Frame.cell, NewAddress, <<Frame.key, result>>)
    BY <1>2, <1>5, <2>3, <2>4 DEF Spells
  <2>6. NewAddress \in Pointers
    BY <1>2, <2>3 DEF Pointers
  <2>. QED BY <1>1, <1>3, <1>5, <2>3, <2>4, <2>5, <2>6, PutInFrontKeeps
<1>6. CASE ReturnNull("OUT_OF_MEMORY") /\ denied' = denied \cup {"entry"}
  BY <1>1, <1>6, NullKeeps
<1>7. CASE WriteThroughNull("node")
  BY <1>1, <1>7, CrashKeeps
<1>. QED BY <1>4, <1>5, <1>6, <1>7 DEF AddElement, AddEntry

LEMMA KeyKeeps ==
  ASSUME TreeInv, ParseKey
  PROVE  TreeInv'
<1>. USE DEF TreeInv
<1>1. step = "key" /\ reason = "NONE" /\ denied = {} /\ nest # <<>> /\ ~InArray
  BY DEF ParseKey, StepKnows
<1>2. CASE /\ Store("string", <<>>)
           /\ nest' = [nest EXCEPT ![Len(nest)].key = NewAddress]
           /\ Reads("value", NullValue)
           /\ UNCHANGED spelled
  <2>. DEFINE n == Len(nest)
              top == [Frame EXCEPT !.key = NewAddress]
  <2>1. [type |-> "string", members |-> <<>>] \in CellSet
    BY DEF CellSet
  <2>2. /\ cells' \in Seq(CellSet) /\ Len(cells) \in Nat /\ NewAddress = Len(cells) + 1
        /\ \A c \in 1..Len(cells) : cells'[c] = cells[c]
        /\ Grows(cells, cells') /\ ContainersIn(cells') = ContainersIn(cells)
    <3>1. TreeTypeOK /\ Store("string", <<>>)
      BY <1>2
    <3>. QED BY ONLY <3>1, <2>1, StoreGrows
  <2>3. /\ n \in Nat \ {0} /\ n \in 1..n /\ Frame = nest[n]
        /\ \A i \in 1..n : nest[i] \in FrameSet
        /\ Frame \in FrameSet /\ FrameHolds(cells, spelled, Frame)
        /\ Frame.cell \in 1..Len(cells) /\ cells[Frame.cell].type # "array"
    BY <1>1, FrameIsOpen DEF InArray
  <2>4. top \in FrameSet /\ top.cell = Frame.cell /\ top.nodes = Frame.nodes
    BY <2>2, <2>3 DEF FrameSet, Pointers
  <2>5. nest' = [nest EXCEPT ![n] = top] /\ nest \in Seq(FrameSet)
    BY <1>2, <2>3 DEF TreeTypeOK
  <2>. HIDE DEF n, top
  <2>6. /\ nest' \in Seq(FrameSet) /\ Len(nest') = n /\ nest'[n] = top
        /\ \A i \in 1..n : i # n => nest'[i] = nest[i]
    BY <2>3, <2>4, <2>5 DEF n
  <2>7. \A i \in 1..n : nest'[i].cell = nest[i].cell
    BY <2>3, <2>4, <2>6
  <2>8. FrameHolds(cells, spelled, top)
    BY <2>3, <2>4 DEF FrameHolds
  <2>9. \A i \in 1..n : FrameHolds(cells, spelled, nest'[i])
    BY <2>6, <2>8 DEF FramesHold, n
  <2>10. FramesHold'
    <3>1. \A i \in 1..n : FrameHolds(cells', spelled', nest'[i])
      BY <1>2, <2>2, <2>9, FrameKept
    <3>. QED BY <3>1, <2>6, <2>7 DEF FramesHold, n
  <2>11. ClosedHold'
    <3>. SUFFICES ASSUME NEW d \in ContainersIn(cells), \A i \in 1..n : nest'[i].cell # d
                  PROVE  CellHolds(cells', spelled', d)
      BY <2>2, <2>6 DEF ClosedHold
    <3>1. CellHolds(cells, spelled, d) /\ d \in 1..Len(cells)
      BY <1>1, <2>7 DEF ClosedHold, ContainersIn, n
    <3>. QED BY <3>1, <1>2, <2>2, CellKept
  <2>12. TreeTypeOK'
    BY <1>2, <2>2, <2>6 DEF TreeTypeOK, Reads, Pointers
  <2>13. StepKnows'
    BY <1>1, <1>2 DEF StepKnows, Reads
  <2>. QED BY <2>10, <2>11, <2>12, <2>13
<1>3. ASSUME NEW kind \in {"value", "text"}, WriteThroughNull(kind) PROVE TreeInv'
  BY <1>1, <1>3, CrashKeeps
<1>. QED BY <1>2, <1>3 DEF ParseKey

\* Reverse, as the closing bracket uses it.
LEMMA FilledIsReversed ==
  ASSUME NEW nodes \in Seq(Pointers)
  PROVE  /\ Filled(nodes) \in Seq(Pointers) /\ Len(Filled(nodes)) = Len(nodes)
         /\ \A j \in 1..Len(nodes) : Filled(nodes)[j] = nodes[Len(nodes) - j + 1]
<1>1. \A j \in 1..Len(nodes) : Len(nodes) - j + 1 \in 1..Len(nodes)
  OBVIOUS
<1>. QED BY <1>1 DEF Filled, Reverse

LEMMA CloseKeeps ==
  ASSUME TreeInv, Close
  PROVE  TreeInv'
<1>. USE DEF TreeInv
<1>1. step = "loop" /\ reason = "NONE" /\ denied = {} /\ nest # <<>>
  BY DEF Close, StepKnows
<1>2. CASE /\ cells' = [cells EXCEPT ![Frame.cell].members = Filled(Frame.nodes)]
           /\ nest' = Front(nest)
           /\ result' = Frame.cell
           /\ step' = IF Len(nest) = 1 THEN "done" ELSE "add"
           /\ UNCHANGED <<reason, spelled, denied>>
  <2>. DEFINE n == Len(nest)
              c == Frame.cell
              full == [cells[c] EXCEPT !.members = Filled(Frame.nodes)]
  <2>1. /\ n \in Nat \ {0} /\ n \in 1..n /\ Frame = nest[n]
        /\ \A i \in 1..n : nest[i] \in FrameSet
        /\ Frame \in FrameSet /\ FrameHolds(cells, spelled, Frame)
        /\ c \in ContainersIn(cells) /\ c \in 1..Len(cells)
        /\ \A i \in 1..n : i # n => nest[i].cell # c
    BY <1>1, FrameIsOpen
  <2>2. /\ cells \in Seq(CellSet) /\ Len(cells) \in Nat /\ cells[c] \in CellSet
        /\ c \in Nat \ {0}
        /\ Frame.nodes \in Seq(Pointers)
    BY <2>1 DEF TreeTypeOK, FrameSet
  <2>3. /\ Filled(Frame.nodes) \in Seq(Pointers) /\ Len(Filled(Frame.nodes)) = Len(Frame.nodes)
        /\ \A j \in 1..Len(Frame.nodes) : Filled(Frame.nodes)[j] = Frame.nodes[Len(Frame.nodes) - j + 1]
    BY <2>2, FilledIsReversed
  <2>4. full \in CellSet /\ full.type = cells[c].type /\ full.members = Filled(Frame.nodes)
    BY <2>2, <2>3 DEF CellSet
  <2>5. cells' = [cells EXCEPT ![c] = full]
    BY <1>2
  <2>6. cells[c].type # "entry"
    BY <2>1 DEF ContainersIn
  <2>. HIDE DEF c, full
  <2>7. /\ cells' \in Seq(CellSet) /\ Len(cells') = Len(cells) /\ cells'[c] = full
        /\ \A d \in 1..Len(cells) : d # c => cells'[d] = cells[d]
    BY <2>1, <2>2, <2>4, <2>5
  <2>8. Grows(cells, cells')
    BY <2>2, <2>4, <2>6, <2>7 DEF Grows
  <2>9. ContainersIn(cells') = ContainersIn(cells)
    BY <2>4, <2>7 DEF ContainersIn
  <2>10. /\ nest' \in Seq(FrameSet) /\ Len(nest') = n - 1
         /\ \A i \in 1..(n - 1) : nest'[i] = nest[i] /\ i \in 1..n /\ i # n
    <3>1. nest' = SubSeq(nest, 1, n - 1) /\ nest \in Seq(FrameSet)
      BY <1>2 DEF Front, TreeTypeOK
    <3>. QED BY <3>1, <2>1, FrontIsShorter
  <2>. HIDE DEF n
  <2>11. FramesHold'
    <3>1. \A i \in 1..n : FrameHolds(cells, spelled, nest[i])
      BY DEF FramesHold, n
    <3>2. \A i \in 1..n : FrameHolds(cells', spelled', nest[i])
      BY <3>1, <1>2, <2>8, FrameKept
    <3>. QED BY <3>2, <2>10 DEF FramesHold, n
  <2>12. CellHolds(cells', spelled', c)
    <3>1. /\ Len(spelled[c]) = Len(Frame.nodes)
          /\ \A j \in 1..Len(Frame.nodes) : Spells(cells, c, Frame.nodes[Len(Frame.nodes) - j + 1], spelled[c][j])
      BY <2>1 DEF FrameHolds, c
    <3>2. \A j \in 1..Len(Frame.nodes) : Spells(cells', c, Frame.nodes[Len(Frame.nodes) - j + 1], spelled[c][j])
      BY <3>1, <2>1, <2>8, SpellsKept
    <3>. QED BY <3>1, <3>2, <1>2, <2>3, <2>4, <2>7 DEF CellHolds
  <2>13. ClosedHold'
    <3>. SUFFICES ASSUME NEW d \in ContainersIn(cells), d # c, \A i \in 1..(n - 1) : nest'[i].cell # d
                  PROVE  CellHolds(cells', spelled', d)
      BY <2>9, <2>10, <2>12 DEF ClosedHold
    <3>1. \A i \in 1..n : nest[i].cell # d
      <4>1. \A i \in 1..n : i \in 1..(n - 1) \/ i = n
        BY <2>1
      <4>. QED BY <4>1, <2>1, <2>10 DEF c
    <3>2. CellHolds(cells, spelled, d) /\ d \in 1..Len(cells)
      BY <1>1, <3>1 DEF ClosedHold, ContainersIn, n
    <3>. QED BY <3>2, <1>2, <2>7, <2>8, CellKept
  <2>14. c \in Pointers /\ c # NullValue
    BY <2>2, TreeAssumption DEF Pointers
  <2>15. TreeTypeOK'
    BY <1>2, <2>7, <2>9, <2>10, <2>14 DEF TreeTypeOK, c
  <2>16. StepKnows'
    <3>1. n = 1 => nest' = <<>>
      BY <2>10
    <3>2. n # 1 => nest' # <<>>
      BY <2>10, <2>1
    <3>. QED BY <1>1, <1>2, <3>1, <3>2, <2>14 DEF StepKnows, n, c
  <2>. QED BY <2>11, <2>13, <2>15, <2>16
<1>3. CASE WriteThroughNull("array")
  BY <1>1, <1>3, CrashKeeps
<1>. QED BY <1>2, <1>3 DEF Close

LEMMA GiveUpKeeps ==
  ASSUME TreeInv, GiveUp
  PROVE  TreeInv'
<1>. USE DEF TreeInv
<1>1. step = "fail" /\ reason # "NONE" /\ result = NullValue /\ UNCHANGED <<cells, result, reason, spelled, denied>>
  BY DEF GiveUp, StepKnows
<1>2. CASE nest = <<>>
  <2>1. step' = "done" /\ nest' = nest
    BY <1>2 DEF GiveUp
  <2>. QED BY <1>1, <1>2, <2>1 DEF TreeTypeOK, FramesHold, ClosedHold, StepKnows
<1>3. CASE nest # <<>>
  <2>1. step' = step /\ nest' = SubSeq(nest, 1, Len(nest) - 1)
    BY <1>3 DEF GiveUp, Front
  <2>2. /\ Len(nest) \in Nat \ {0}
        /\ \A i \in 1..Len(nest) : nest[i] \in FrameSet
    BY <1>3, FrameIsOpen
  <2>3. /\ nest' \in Seq(FrameSet) /\ Len(nest') = Len(nest) - 1
        /\ \A i \in 1..(Len(nest) - 1) : nest'[i] = nest[i] /\ i \in 1..Len(nest)
    BY <2>1, <2>2, FrontIsShorter DEF TreeTypeOK
  <2>4. FramesHold'
    BY <1>1, <2>3 DEF FramesHold
  <2>. QED BY <1>1, <2>1, <2>3, <2>4 DEF TreeTypeOK, ClosedHold, StepKnows
<1>. QED BY <1>2, <1>3

LEMMA TreeInvStep == TreeInv /\ [TreeNext]_treeVars => TreeInv'
<1>. SUFFICES ASSUME TreeInv, [TreeNext]_treeVars PROVE TreeInv'
  OBVIOUS
<1>1. CASE ParseKeyword
  <2>1. /\ step = "value" /\ UNCHANGED <<cells, nest, spelled, reason, denied>>
        /\ step' = IF nest = <<>> THEN "done" ELSE "add"
        /\ result' \in Shared
    BY <1>1 DEF ParseKeyword, Finishes, Reads
  <2>2. result' \in Pointers /\ result' # NullValue
    BY <2>1, TreeAssumption DEF Pointers
  <2>. QED BY <2>1, <2>2 DEF TreeInv, TreeTypeOK, FramesHold, ClosedHold, StepKnows
<1>2. ASSUME NEW type \in {"number", "string"}, ParseNumberOrString(type) PROVE TreeInv'
  <2>1. step = "value" /\ reason = "NONE" /\ denied = {}
    BY <1>2 DEF ParseNumberOrString, TreeInv, StepKnows
  <2>2. CASE Store(type, <<>>) /\ Finishes(NewAddress) /\ UNCHANGED <<nest, spelled>>
    <3>1. /\ UNCHANGED <<nest, spelled, reason, denied>>
          /\ step' = IF nest = <<>> THEN "done" ELSE "add"
          /\ result' = NewAddress
      BY <2>2 DEF Finishes, Reads
    <3>2. /\ cells' \in Seq(CellSet) /\ spelled' \in [ContainersIn(cells') -> Seq(Pointers \X Pointers)]
          /\ FramesHold' /\ ClosedHold'
          /\ NewAddress \in Nat \ {0} /\ NewAddress \in Pointers
      <4>1. TreeTypeOK /\ FramesHold /\ ClosedHold /\ Store(type, <<>>) /\ type \in {"number", "string", "entry"}
            /\ <<>> \in Seq(Pointers)
        BY <2>2 DEF TreeInv
      <4>. QED BY ONLY <4>1, <3>1, LeafKeeps
    <3>3. result' # NullValue
      BY <3>1, <3>2, TreeAssumption
    <3>. QED BY <2>1, <3>1, <3>2, <3>3 DEF TreeInv, TreeTypeOK, StepKnows
  <2>3. ASSUME NEW kind \in {"value", "text"}, WriteThroughNull(kind) PROVE TreeInv'
    BY <2>1, <2>3, CrashKeeps
  <2>. QED BY <1>2, <2>2, <2>3 DEF ParseNumberOrString
<1>3. ASSUME NEW type \in {"array", "object"}, OpenContainer(type) PROVE TreeInv'
  BY <1>3, OpenContainerKeeps
<1>4. CASE Member
  <2>1. /\ step = "loop" /\ UNCHANGED <<cells, nest, result, reason, spelled, denied>>
        /\ step' = IF InArray THEN "value" ELSE "key"
    BY <1>4 DEF Member
  <2>2. InArray' = InArray
    BY <2>1 DEF InArray, Frame
  <2>. QED BY <2>1, <2>2 DEF TreeInv, TreeTypeOK, FramesHold, ClosedHold, StepKnows
<1>5. CASE ParseKey
  BY <1>5, KeyKeeps
<1>6. CASE AddElement \/ AddEntry
  BY <1>6, AddKeeps
<1>7. CASE Close
  BY <1>7, CloseKeeps
<1>8. CASE SyntaxError
  <2>1. ReturnNull("SYNTAX") /\ denied' = {}
    BY <1>8 DEF SyntaxError, TreeInv, StepKnows
  <2>. QED BY <2>1, NullKeeps
<1>9. CASE GiveUp
  BY <1>9, GiveUpKeeps
<1>10. CASE UNCHANGED treeVars
  <2>1. InArray' = InArray
    BY <1>10 DEF treeVars, InArray, Frame
  <2>. QED BY <1>10, <2>1 DEF treeVars, TreeInv, TreeTypeOK, FramesHold, ClosedHold, StepKnows
<1>. QED BY <1>1, <1>2, <1>3, <1>4, <1>5, <1>6, <1>7, <1>8, <1>9, <1>10 DEF TreeNext

\* A parse that returns a value has built the tree of its text, whatever the
\* arena refused on the way, and one that returns none says why (pvt_parse_value
\* and the functions it calls in json_parser.c).
THEOREM ParseBuildsTheTree == TreeSpec => []TreeIsTheText
<1>1. TreeInv => TreeIsTheText
  <2>. SUFFICES ASSUME TreeInv PROVE TreeIsTheText
    OBVIOUS
  <2>1. ASSUME step = "done", result # NullValue, NEW c \in 1..Len(cells), cells[c].type \in {"array", "object"}
        PROVE  Members(c) = spelled[c]
    <3>1. c \in ContainersIn(cells) /\ CellHolds(cells, spelled, c)
      <4>1. nest = <<>> /\ reason = "NONE"
        BY <2>1 DEF TreeInv, StepKnows
      <4>. QED BY <4>1, <2>1 DEF TreeInv, ClosedHold, ContainersIn
    <3>2. spelled[c] \in Seq(Pointers \X Pointers)
      BY <3>1 DEF TreeInv, TreeTypeOK
    <3>3. \A i \in 1..Len(spelled[c]) :
            spelled[c][i] = IF cells[c].type = "array" THEN <<NullValue, cells[c].members[i]>>
                            ELSE cells[cells[c].members[i]].members
      BY <3>1 DEF CellHolds, Spells
    <3>4. Len(cells[c].members) = Len(spelled[c])
      BY <3>1 DEF CellHolds
    <3>5. spelled[c] = [i \in 1..Len(spelled[c]) |-> spelled[c][i]]
      BY <3>2
    <3>6. Members(c) = [i \in 1..Len(cells[c].members) |->
                          IF cells[c].type = "array" THEN <<NullValue, cells[c].members[i]>>
                          ELSE cells[cells[c].members[i]].members]
      BY DEF Members
    <3>. QED BY <3>3, <3>4, <3>5, <3>6
  <2>. QED BY <2>1 DEF TreeIsTheText, TreeInv, StepKnows
<1>. QED BY <1>1, TreeInvInit, TreeInvStep, PTL DEF TreeSpec

-----------------------------------------------------------------------------
(* The pool. *)

PoolSpec == PoolInit /\ [][PoolNext]_poolVars

\* What follows the first i slots of the free list fl.
After(fl, i) == IF i < Len(fl) THEN fl[i + 1] ELSE NULLPTR

\* The free list is fl.
ListIs(fl) ==
  /\ fl \in Seq(Slots)
  /\ \A i, j \in 1..Len(fl) : fl[i] = fl[j] => i = j
  /\ freeList = After(fl, 0)
  /\ \A i \in 1..Len(fl) : /\ memory[fl[i]] = Half(After(fl, i), 1)
                           /\ memory[fl[i] + 1] = Half(After(fl, i), 2)

\* The client's objects are slots, each once, and hold what it wrote.
MineIs ==
  /\ mine \in Seq(Slots)
  /\ \A i, j \in 1..Len(mine) : mine[i] = mine[j] => i = j
  /\ \A i \in 1..Len(mine) : \A b \in mine[i]..(mine[i] + slotSize - 1) : memory[b] = DATA

\* Each slot is in one of the two.
Parted(fl) ==
  /\ \A a \in Slots : (\E i \in 1..Len(fl) : fl[i] = a) <=> ~ (\E i \in 1..Len(mine) : mine[i] = a)
  /\ Len(fl) + Len(mine) = NumObjects

\* The memory of a pool of slots of length n.
Words(n) == HeaderBytes..(HeaderBytes + NumObjects * n + POINTER)

PoolShape ==
  /\ slotSize \in Nat /\ slotAlignment \in Nat \ {0}
  /\ \E q \in Nat : slotSize = slotAlignment * q
  /\ slotSize = 0 => mine = <<>> /\ ~misused
  /\ slotSize >= POINTER => DOMAIN memory = Words(slotSize)

PoolInv ==
  /\ PoolShape
  /\ slotSize >= POINTER /\ ~misused => MineIs /\ \E fl : ListIs(fl) /\ Parted(fl)

LEMMA PoolInvInit == PoolInit => PoolInv
<1>1. SUFFICES ASSUME PoolInit PROVE PoolInv
  OBVIOUS
<1>2. 0 = 1 * 0
  OBVIOUS
<1>3. QED
  BY <1>1, <1>2 DEF PoolInit, PoolInv, PoolShape, POINTER

\* The slots are numbers of memory, and no two of them share a byte.
LEMMA SlotsLieApart ==
  ASSUME NEW n \in Nat \ {0}, NEW i \in 0..(NumObjects - 1), NEW j \in 0..(NumObjects - 1)
  PROVE  /\ Slot(i, n) \in Nat /\ Slot(i, n) >= HeaderBytes
         /\ Slot(i, n) + n <= HeaderBytes + NumObjects * n
         /\ i < j => Slot(i, n) + n <= Slot(j, n)
         /\ Slot(i, n) \in Words(n) /\ Slot(i, n) + 1 \in Words(n)
<1>1. HeaderBytes \in Nat /\ NumObjects \in Nat
  BY PoolAssumption
<1>2. i * n \in Nat /\ j * n \in Nat /\ NumObjects * n \in Nat
  BY <1>1
<1>3. ASSUME NEW k \in Nat, i < k PROVE i * n + n <= k * n
  <2>1. k - i - 1 \in Nat
    BY <1>3
  <2>2. (k - i - 1) * n >= 0
    BY <2>1
  <2>3. (k - i - 1) * n = k * n - i * n - n
    BY <1>3
  <2>4. k * n \in Nat
    BY <1>3
  <2>5. QED
    BY <2>2, <2>3, <2>4, <1>2
<1>4. i * n + n <= NumObjects * n
  BY <1>1, <1>3
<1>5. QED
  BY <1>1, <1>2, <1>3, <1>4 DEF Slot, Words, POINTER

\* The same of any two slots of the pool.
LEMMA SlotsApart ==
  ASSUME PoolShape, slotSize # 0, NEW a \in Slots, NEW b \in Slots
  PROVE  /\ a \in Nat /\ a >= HeaderBytes /\ a # NULLPTR
         /\ a + slotSize <= HeaderBytes + NumObjects * slotSize
         /\ a = b \/ a + slotSize <= b \/ b + slotSize <= a
<1>1. PICK i \in 0..(NumObjects - 1) : a = Slot(i, slotSize)
  BY DEF Slots
<1>2. PICK j \in 0..(NumObjects - 1) : b = Slot(j, slotSize)
  BY DEF Slots
<1>3. slotSize \in Nat \ {0} /\ HeaderBytes \in Nat \ {0} /\ NumObjects \in Nat
  BY PoolAssumption DEF PoolShape
<1>4. /\ a \in Nat /\ a >= HeaderBytes /\ a + slotSize <= HeaderBytes + NumObjects * slotSize
      /\ i < j => a + slotSize <= b
  BY <1>1, <1>2, <1>3, SlotsLieApart
<1>5. j < i => b + slotSize <= a
  BY <1>1, <1>2, <1>3, SlotsLieApart
<1>6. QED
  BY <1>1, <1>2, <1>3, <1>4, <1>5 DEF NULLPTR

\* Every slot holds a pointer, in memory.
LEMMA SlotInMemory ==
  ASSUME PoolShape, slotSize >= POINTER, NEW a \in Slots
  PROVE  /\ a \in DOMAIN memory /\ a + 1 \in DOMAIN memory
         /\ \A b \in a..(a + slotSize - 1) : b \in DOMAIN memory
<1>1. /\ a \in Nat /\ a >= HeaderBytes
      /\ a + slotSize <= HeaderBytes + NumObjects * slotSize
  <2>1. slotSize # 0
    BY DEF POINTER
  <2>2. QED
    BY <2>1, SlotsApart
<1>2. /\ slotSize \in Nat /\ HeaderBytes \in Nat /\ NumObjects \in Nat /\ NumObjects * slotSize \in Nat
      /\ DOMAIN memory = HeaderBytes..(HeaderBytes + NumObjects * slotSize + POINTER)
  BY PoolAssumption DEF PoolShape, Words
<1>3. QED
  BY <1>1, <1>2 DEF POINTER

\* A pointer to a slot, or to none, is read as it was written.
LEMMA NextIsRead ==
  ASSUME NEW a, NEW p \in Slots \cup {NULLPTR},
         memory[a] = Half(p, 1), memory[a + 1] = Half(p, 2)
  PROVE  NextFree(a) = p
<1>1. \E q \in Slots \cup {NULLPTR} : memory[a] = Half(q, 1) /\ memory[a + 1] = Half(q, 2)
  OBVIOUS
<1>2. NextFree(a) = memory[a][1]
  BY <1>1 DEF NextFree
<1>3. Half(p, 1)[1] = p
  BY DEF Half, NULLPTR
<1>4. QED
  BY <1>2, <1>3

\* Induction up to N, over the numbers of a set.
LEMMA UpTo ==
  ASSUME NEW N \in Nat, NEW S, 0 \in S, \A k \in 0..(N - 1) : k \in S => k + 1 \in S
  PROVE  0..N \subseteq S
<1> DEFINE Bad == (0..N) \ S
<1>1. SUFFICES ASSUME Bad # {} PROVE FALSE
  OBVIOUS
<1>2. PICK n \in Bad : \A k \in Bad : n <= k
  <2>1. Bad \in SUBSET Nat
    OBVIOUS
  <2> HIDE DEF Bad
  <2>2. QED
    BY <1>1, <2>1, LeastNumber
<1>3. n \in 0..N /\ n \notin S /\ n # 0
  OBVIOUS
<1>4. n - 1 \in 0..(N - 1) /\ ~ (n <= n - 1) /\ (n - 1) + 1 = n
  BY <1>3
<1>5. n - 1 \in S
  BY <1>2, <1>4
<1>6. QED
  BY <1>3, <1>4, <1>5

\* What is computed number by number, from the one before, is defined.
Computed(N, M, base, act) ==
  \E f \in [0..N -> M] : f[0] = base /\ \A i \in 1..N : f[i] = act[<<i, f[i - 1]>>]

LEMMA StepByStep ==
  ASSUME NEW N \in Nat, NEW M, NEW base \in M, NEW act \in [(1..N) \X M -> M]
  PROVE  Computed(N, M, base, act)
<1> DEFINE Defined(n) == \E f \in [0..n -> M] : f[0] = base /\ \A i \in 1..n : f[i] = act[<<i, f[i - 1]>>]
           S == {n \in 0..N : Defined(n)}
<1>1. 0 \in S
  <2> DEFINE f == [i \in 0..0 |-> base]
  <2>1. f \in [0..0 -> M] /\ f[0] = base /\ \A i \in 1..0 : f[i] = act[<<i, f[i - 1]>>]
    OBVIOUS
  <2>2. Defined(0)
    BY <2>1
  <2>3. QED
    BY <2>2
<1>2. ASSUME NEW k \in 0..(N - 1), k \in S PROVE k + 1 \in S
  <2>1. PICK g \in [0..k -> M] : g[0] = base /\ \A i \in 1..k : g[i] = act[<<i, g[i - 1]>>]
    BY <1>2
  <2> DEFINE n == k + 1
             f == [i \in 0..n |-> IF i = n THEN act[<<n, g[k]>>] ELSE g[i]]
  <2>2. n \in 1..N /\ k \in 0..k /\ g[k] \in M /\ act[<<n, g[k]>>] \in M
    OBVIOUS
  <2>3. f \in [0..n -> M]
    <3>1. ASSUME NEW i \in 0..n, i # n PROVE g[i] \in M
      BY <3>1
    <3>2. QED
      BY <3>1, <2>2
  <2>4. f[0] = base
    BY <2>1
  <2>5. ASSUME NEW i \in 1..n PROVE f[i] = act[<<i, f[i - 1]>>]
    <3>1. i - 1 \in 0..n /\ i - 1 # n /\ i \in 0..n
      OBVIOUS
    <3>2. f[i - 1] = g[i - 1]
      BY <3>1
    <3>3. CASE i = n
      BY <3>1, <3>2, <3>3
    <3>4. CASE i # n
      <4>1. i \in 1..k
        BY <3>4
      <4>2. f[i] = g[i]
        BY <3>1, <3>4
      <4>3. QED
        BY <4>1, <4>2, <3>2, <2>1
    <3>5. QED
      BY <3>3, <3>4
  <2>6. Defined(n)
    <3> HIDE DEF f, n
    <3>1. QED
      BY <2>3, <2>4, <2>5
  <2>7. QED
    BY <2>2, <2>6
<1>3. 0..N \subseteq S
  <2> HIDE DEF S
  <2>1. QED
    BY <1>1, <1>2, UpTo
<1>4. Defined(N)
  BY <1>3
<1>5. QED
  BY <1>4 DEF Computed

\* The slot before slot i, which slot i points to.
Before(i, n) == IF i = 0 THEN NULLPTR ELSE Slot(i - 1, n)

\* The loop of alok_pool_create, for slots in which a pointer fits.
LEMMA ChainIs ==
  ASSUME NEW n \in Nat, n >= POINTER
  PROVE  LET chain[i \in 0..NumObjects] ==
               IF i = 0 THEN [b \in HeaderBytes..(HeaderBytes + NumObjects * n + POINTER) |-> Half(NULLPTR, 1)]
               ELSE LET before == chain[i - 1]
                    IN  SetNext(before, Slot(i - 1, n), IF i = 1 THEN NULLPTR ELSE Slot(i - 2, n))
         IN  /\ DOMAIN chain[NumObjects] = Words(n)
             /\ \A i \in 0..(NumObjects - 1) : /\ chain[NumObjects][Slot(i, n)] = Half(Before(i, n), 1)
                                               /\ chain[NumObjects][Slot(i, n) + 1] = Half(Before(i, n), 2)
<1> DEFINE chain[i \in 0..NumObjects] ==
               IF i = 0 THEN [b \in HeaderBytes..(HeaderBytes + NumObjects * n + POINTER) |-> Half(NULLPTR, 1)]
               ELSE LET before == chain[i - 1]
                    IN  SetNext(before, Slot(i - 1, n), IF i = 1 THEN NULLPTR ELSE Slot(i - 2, n))
           zero == [b \in HeaderBytes..(HeaderBytes + NumObjects * n + POINTER) |-> Half(NULLPTR, 1)]
           Put(i, mem) == SetNext(mem, Slot(i - 1, n), IF i = 1 THEN NULLPTR ELSE Slot(i - 2, n))
           M == [Words(n) -> Nat \X Nat]
           act == [x \in (1..NumObjects) \X M |-> Put(x[1], x[2])]
<1>1. NumObjects \in Nat \ {0} /\ HeaderBytes \in Nat \ {0} /\ n \in Nat \ {0}
  BY PoolAssumption DEF POINTER
<1>a. NumObjects \in Nat
  BY <1>1
<1>2. \A i \in 0..(NumObjects - 1) : Slot(i, n) \in Nat
  BY <1>1, SlotsLieApart
<1>3. zero \in M
  BY DEF Words, Half, NULLPTR
<1>4. ASSUME NEW i \in 1..NumObjects, NEW mem \in M
      PROVE  /\ Put(i, mem) \in M
             /\ \A b \in Words(n) : Put(i, mem)[b] =
                  IF b = Slot(i - 1, n) THEN Half(Before(i - 1, n), 1)
                  ELSE IF b = Slot(i - 1, n) + 1 THEN Half(Before(i - 1, n), 2) ELSE mem[b]
  <2> DEFINE p == IF i = 1 THEN NULLPTR ELSE Slot(i - 2, n)
  <2>1. p = Before(i - 1, n) /\ p \in Nat
    <3>1. CASE i = 1
      BY <3>1 DEF Before, NULLPTR
    <3>2. CASE i # 1
      <4>1. i - 2 \in 0..(NumObjects - 1) /\ i - 1 # 0 /\ (i - 1) - 1 = i - 2
        BY <3>2, <1>1
      <4>2. QED
        BY <4>1, <3>2, <1>2 DEF Before
    <3>3. QED
      BY <3>1, <3>2
  <2>2. Half(p, 1) \in Nat \X Nat /\ Half(p, 2) \in Nat \X Nat
    BY <2>1 DEF Half
  <2>3. Put(i, mem) = [b \in Words(n) |-> IF b = Slot(i - 1, n) THEN Half(p, 1)
                                           ELSE IF b = Slot(i - 1, n) + 1 THEN Half(p, 2) ELSE mem[b]]
    BY DEF SetNext
  <2> HIDE DEF p
  <2>4. QED
    BY <2>1, <2>2, <2>3
<1>5. act \in [(1..NumObjects) \X M -> M]
  <2>1. ASSUME NEW x \in (1..NumObjects) \X M PROVE Put(x[1], x[2]) \in M
    <3>1. x[1] \in 1..NumObjects /\ x[2] \in M
      BY <2>1
    <3> HIDE DEF M, Put
    <3>2. QED
      BY <3>1, <1>4
  <2> HIDE DEF Put, M
  <2>2. QED
    BY <2>1
<1>6. PICK f \in [0..NumObjects -> M] : f[0] = zero /\ \A i \in 1..NumObjects : f[i] = Put(i, f[i - 1])
  <2>1. PICK f \in [0..NumObjects -> M] : f[0] = zero /\ \A i \in 1..NumObjects : f[i] = act[<<i, f[i - 1]>>]
    <3> HIDE DEF act, M, zero
    <3>1. Computed(NumObjects, M, zero, act)
      BY <1>a, <1>3, <1>5, StepByStep
    <3>2. QED
      BY <3>1 DEF Computed
  <2>2. ASSUME NEW i \in 1..NumObjects PROVE f[i] = Put(i, f[i - 1])
    <3>1. i - 1 \in 0..NumObjects
      BY <1>1
    <3>2. <<i, f[i - 1]>> \in (1..NumObjects) \X M
      BY <3>1
    <3>3. act[<<i, f[i - 1]>>] = Put(i, f[i - 1])
      <4> HIDE DEF Put, M
      <4>1. QED
        BY <3>2
    <3> HIDE DEF act, Put
    <3>4. QED
      BY <3>3, <2>1
  <2> HIDE DEF Put, M, zero
  <2>3. QED
    BY <2>1, <2>2
<1>7. f = [i \in 0..NumObjects |->
             IF i = 0 THEN [b \in HeaderBytes..(HeaderBytes + NumObjects * n + POINTER) |-> Half(NULLPTR, 1)]
             ELSE LET before == f[i - 1]
                  IN  SetNext(before, Slot(i - 1, n), IF i = 1 THEN NULLPTR ELSE Slot(i - 2, n))]
  <2>1. ASSUME NEW i \in 0..NumObjects PROVE f[i] = IF i = 0 THEN zero ELSE Put(i, f[i - 1])
    <3>1. i # 0 => i \in 1..NumObjects
      BY <1>1
    <3> HIDE DEF Put, zero
    <3>2. QED
      BY <3>1, <1>6
  <2>2. f = [i \in 0..NumObjects |-> f[i]]
    BY <1>6
  <2>3. f = [i \in 0..NumObjects |-> IF i = 0 THEN zero ELSE Put(i, f[i - 1])]
    <3> HIDE DEF Put, zero
    <3>1. QED
      BY <2>1, <2>2
  <2>4. QED
    BY <2>3
<1>8. chain = [i \in 0..NumObjects |->
               IF i = 0 THEN [b \in HeaderBytes..(HeaderBytes + NumObjects * n + POINTER) |-> Half(NULLPTR, 1)]
               ELSE LET before == chain[i - 1]
                    IN  SetNext(before, Slot(i - 1, n), IF i = 1 THEN NULLPTR ELSE Slot(i - 2, n))]
  <2>1. \E g : g = [i \in 0..NumObjects |->
             IF i = 0 THEN [b \in HeaderBytes..(HeaderBytes + NumObjects * n + POINTER) |-> Half(NULLPTR, 1)]
             ELSE LET before == g[i - 1]
                  IN  SetNext(before, Slot(i - 1, n), IF i = 1 THEN NULLPTR ELSE Slot(i - 2, n))]
    BY <1>7, Zenon
  <2>2. QED
    BY <2>1
<1>9. chain[0] = zero /\ \A i \in 1..NumObjects : chain[i] = Put(i, chain[i - 1])
  <2>1. 0 \in 0..NumObjects /\ \A i \in 1..NumObjects : i \in 0..NumObjects /\ i # 0
    BY <1>1
  <2> DEFINE g == chain
  <2>2. g = [i \in 0..NumObjects |-> IF i = 0 THEN zero ELSE Put(i, g[i - 1])]
    BY <1>8
  <2> HIDE DEF g, Put, zero
  <2>3. g[0] = zero /\ \A i \in 1..NumObjects : g[i] = Put(i, g[i - 1])
    BY <2>1, <2>2
  <2>4. QED
    BY <2>3 DEF g
<1> HIDE DEF chain
<1> DEFINE Linked(k) ==
             /\ chain[k] \in M
             /\ \A i \in 0..(k - 1) : /\ chain[k][Slot(i, n)] = Half(Before(i, n), 1)
                                      /\ chain[k][Slot(i, n) + 1] = Half(Before(i, n), 2)
           S == {k \in 0..NumObjects : Linked(k)}
<1>10. 0 \in S
  <2>1. Linked(0)
    BY <1>3, <1>9
  <2>2. QED
    BY <2>1, <1>1
<1>11. ASSUME NEW k \in 0..(NumObjects - 1), k \in S PROVE k + 1 \in S
  <2>1. Linked(k)
    BY <1>11
  <2>2. chain[k] \in M /\ k + 1 \in 1..NumObjects /\ (k + 1) - 1 = k
    BY <2>1, <1>1
  <2>3. chain[k + 1] = Put(k + 1, chain[k])
    BY <1>9, <2>2
  <2>4. /\ chain[k + 1] \in M
        /\ \A b \in Words(n) : chain[k + 1][b] =
             IF b = Slot(k, n) THEN Half(Before(k, n), 1)
             ELSE IF b = Slot(k, n) + 1 THEN Half(Before(k, n), 2) ELSE chain[k][b]
    <3> HIDE DEF Put, M
    <3>1. QED
      BY <2>2, <2>3, <1>4
  <2>5. ASSUME NEW i \in 0..((k + 1) - 1)
        PROVE  /\ chain[k + 1][Slot(i, n)] = Half(Before(i, n), 1)
               /\ chain[k + 1][Slot(i, n) + 1] = Half(Before(i, n), 2)
    <3>1. i \in 0..(NumObjects - 1) /\ (i # k => i \in 0..(k - 1) /\ i < k)
      BY <1>1
    <3>2. /\ Slot(i, n) \in Nat /\ Slot(i, n) >= HeaderBytes /\ Slot(k, n) \in Nat
          /\ Slot(i, n) \in Words(n) /\ Slot(i, n) + 1 \in Words(n)
          /\ i < k => Slot(i, n) + n <= Slot(k, n)
      BY <1>1, <3>1, SlotsLieApart
    <3>5. CASE i = k
      BY <3>5, <2>4, <3>2
    <3>6. CASE i # k
      <4>1. Slot(i, n) # Slot(k, n) /\ Slot(i, n) + 1 # Slot(k, n) /\ Slot(i, n) # Slot(k, n) + 1
        BY <3>1, <3>2, <3>6 DEF POINTER
      <4>2. /\ chain[k][Slot(i, n)] = Half(Before(i, n), 1)
            /\ chain[k][Slot(i, n) + 1] = Half(Before(i, n), 2)
        BY <2>1, <3>1, <3>6
      <4>3. Slot(i, n) + 1 # Slot(k, n) + 1
        BY <4>1, <3>2
      <4>4. QED
        BY <2>4, <3>2, <4>1, <4>2, <4>3
    <3>7. QED
      BY <3>5, <3>6
  <2>6. Linked(k + 1)
    <3> HIDE DEF M
    <3>1. QED
      BY <2>4, <2>5
  <2>7. QED
    BY <2>2, <2>6
<1>12. 0..NumObjects \subseteq S
  <2> HIDE DEF S
  <2>1. QED
    BY <1>1, <1>10, <1>11, UpTo
<1>13. Linked(NumObjects)
  BY <1>1, <1>12
<1>14. DOMAIN chain[NumObjects] = Words(n)
  BY <1>13
<1>15. QED
  BY <1>13, <1>14 DEF chain

LEMMA ObjectsAreAligned ==
  ASSUME NEW size \in Nat, NEW a \in Nat \ {0}
  PROVE  AlignedObject(size, a) \in Nat /\ \E q \in Nat : AlignedObject(size, a) = a * q
<1> DEFINE q == (size + a - 1) \div a
<1>1. q \in Nat
  <2>1. PICK v \in Nat : v = size + a - 1
    OBVIOUS
  <2>2. v \div a \in Nat
    OBVIOUS
  <2>3. QED
    BY <2>1, <2>2
<1>2. AlignedObject(size, a) = q * a
  BY DEF AlignedObject, AlignedSize
<1> HIDE DEF q
<1>3. q * a = a * q /\ q * a \in Nat
  BY <1>1
<1>4. QED
  BY <1>1, <1>2, <1>3

LEMMA CreateKeeps ==
  ASSUME PoolInv, NEW size \in ObjectSizes, NEW a \in Alignments, PoolCreate(size, a)
  PROVE  PoolInv'
<1> DEFINE n == AlignedObject(size, a)
<1>1. size \in Nat /\ a \in Nat \ {0} /\ NumObjects \in Nat \ {0}
  BY PoolAssumption
<1>2. n \in Nat /\ \E q \in Nat : n = a * q
  BY <1>1, ObjectsAreAligned
<1>3. /\ slotSize' = n /\ slotAlignment' = a /\ freeList' = Slot(NumObjects - 1, n)
      /\ mine' = <<>> /\ misused' = FALSE
  BY DEF PoolCreate, PoolInv, PoolShape
<1>4. n >= POINTER =>
        /\ DOMAIN memory' = Words(n)
        /\ \A i \in 0..(NumObjects - 1) : /\ memory'[Slot(i, n)] = Half(Before(i, n), 1)
                                          /\ memory'[Slot(i, n) + 1] = Half(Before(i, n), 2)
  BY <1>2, ChainIs DEF PoolCreate
<1> HIDE DEF n
<1>5. PoolShape'
  BY <1>1, <1>2, <1>3, <1>4 DEF PoolShape
<1>6. ASSUME n >= POINTER
      PROVE  MineIs' /\ \E fl : (ListIs(fl) /\ Parted(fl))'
  <2> DEFINE fl == [i \in 1..NumObjects |-> Slot(NumObjects - i, n)]
             at == {Slot(i, n) : i \in 0..(NumObjects - 1)}
  <2>0. Slots' = at
    BY <1>3 DEF Slots
  <2>1. n \in Nat \ {0}
    BY <1>2, <1>6 DEF POINTER
  <2>2. \A i \in 1..NumObjects : NumObjects - i \in 0..(NumObjects - 1)
    BY <1>1
  <2>3. fl \in Seq(at) /\ Len(fl) = NumObjects
    BY <1>1, <2>2
  <2>4. \A i, j \in 0..(NumObjects - 1) : Slot(i, n) = Slot(j, n) => i = j
    <3>1. SUFFICES ASSUME NEW i \in 0..(NumObjects - 1), NEW j \in 0..(NumObjects - 1), i < j
                   PROVE  Slot(i, n) # Slot(j, n)
      BY <1>1
    <3>2. Slot(i, n) \in Nat /\ Slot(j, n) \in Nat /\ Slot(i, n) + n <= Slot(j, n)
      BY <2>1, <3>1, SlotsLieApart
    <3>3. QED
      BY <3>2, <2>1
  <2>5. ASSUME NEW i \in 1..NumObjects
        PROVE  After(fl, i) = Before(NumObjects - i, n) /\ fl[i] = Slot(NumObjects - i, n)
    <3>1. CASE i = NumObjects
      BY <3>1, <1>1, <2>3 DEF After, Before
    <3>2. CASE i # NumObjects
      <4>1. i < Len(fl) /\ i + 1 \in 1..NumObjects /\ NumObjects - i # 0 /\ NumObjects - (i + 1) = (NumObjects - i) - 1
        BY <3>2, <1>1, <2>3
      <4>2. QED
        BY <4>1 DEF After, Before
    <3>3. QED
      BY <3>1, <3>2
  <2>6. ListIs(fl)'
    <3>1. (fl \in Seq(Slots))'
      BY <2>0, <2>3
    <3>2. \A i, j \in 1..Len(fl) : fl[i] = fl[j] => i = j
      <4>1. SUFFICES ASSUME NEW i \in 1..NumObjects, NEW j \in 1..NumObjects, fl[i] = fl[j] PROVE i = j
        BY <2>3
      <4>2. NumObjects - i = NumObjects - j
        BY <4>1, <2>2, <2>4, <2>5
      <4>3. QED
        BY <4>2, <1>1
    <3>3. freeList' = After(fl, 0)
      BY <1>1, <1>3, <2>3, <2>5 DEF After
    <3>4. \A i \in 1..Len(fl) : /\ memory'[fl[i]] = Half(After(fl, i), 1)
                                /\ memory'[fl[i] + 1] = Half(After(fl, i), 2)
      <4> HIDE DEF fl
      <4>1. QED
        BY <1>4, <1>6, <2>2, <2>3, <2>5
    <3> HIDE DEF fl
    <3>5. QED
      BY <3>1, <3>2, <3>3, <3>4 DEF ListIs
  <2>7. Parted(fl)'
    <3>1. ASSUME NEW s \in at PROVE \E i \in 1..Len(fl) : fl[i] = s
      <4>1. PICK i \in 0..(NumObjects - 1) : s = Slot(i, n)
        BY <3>1
      <4>2. NumObjects - i \in 1..NumObjects /\ NumObjects - (NumObjects - i) = i
        BY <1>1
      <4>3. fl[NumObjects - i] = s
        BY <4>1, <4>2
      <4> HIDE DEF fl
      <4>4. QED
        BY <4>2, <4>3, <2>3
    <3> HIDE DEF fl, at
    <3>2. QED
      BY <3>1, <2>0, <2>3, <1>1, <1>3 DEF Parted
  <2>8. MineIs'
    BY <1>3 DEF MineIs
  <2>9. QED
    BY <2>6, <2>7, <2>8
<1>7. QED
  BY <1>3, <1>5, <1>6 DEF PoolInv

LEMMA AllocKeeps ==
  ASSUME PoolInv, PoolAlloc
  PROVE  PoolInv'
<1>1. /\ slotSize # 0 /\ freeList \in Slots /\ freeList' = NextFree(freeList)
      /\ memory' = [b \in DOMAIN memory |-> IF b \in freeList..(freeList + slotSize - 1) THEN DATA ELSE memory[b]]
      /\ mine' = Append(mine, freeList)
      /\ slotSize' = slotSize /\ slotAlignment' = slotAlignment /\ misused' = misused
  BY DEF PoolAlloc
<1>2. PoolShape /\ DOMAIN memory' = DOMAIN memory
  BY <1>1 DEF PoolInv
<1>3. PoolShape'
  BY <1>1, <1>2 DEF PoolShape
<1>4. SUFFICES ASSUME slotSize >= POINTER, ~misused
               PROVE  MineIs' /\ \E fl : (ListIs(fl) /\ Parted(fl))'
  BY <1>1, <1>3 DEF PoolInv
<1>5. PICK fl : ListIs(fl) /\ Parted(fl)
  BY <1>4 DEF PoolInv
<1>6. MineIs
  BY <1>4 DEF PoolInv
<1>7. Slots' = Slots /\ slotSize \in Nat /\ slotSize >= 2
  BY <1>1, <1>2, <1>4 DEF Slots, PoolShape, POINTER
<1>8. fl \in Seq(Slots) /\ Len(fl) \in Nat
  BY <1>5 DEF ListIs
<1>9. Len(fl) > 0 /\ fl[1] = freeList
  <2>1. freeList # NULLPTR
    BY <1>1, <1>2, SlotsApart
  <2>2. freeList = After(fl, 0)
    BY <1>5 DEF ListIs
  <2>3. QED
    BY <2>1, <2>2, <1>8 DEF After
<1> DEFINE a == freeList
           tl == Tail(fl)
<1>10. tl \in Seq(Slots) /\ Len(tl) = Len(fl) - 1 /\ \A i \in 1..(Len(fl) - 1) : tl[i] = fl[i + 1]
  BY <1>8, <1>9
<1> HIDE DEF tl
<1>11. \A i \in 0..(Len(fl) - 1) : After(tl, i) = After(fl, i + 1)
  BY <1>8, <1>9, <1>10 DEF After
<1>12. /\ \A i, j \in 1..Len(fl) : fl[i] = fl[j] => i = j
       /\ \A i \in 1..Len(fl) : /\ memory[fl[i]] = Half(After(fl, i), 1)
                                /\ memory[fl[i] + 1] = Half(After(fl, i), 2)
  BY <1>5 DEF ListIs
\* What is behind the first object.
<1>13. freeList' = After(tl, 0)
  <2>1. After(fl, 1) \in Slots \cup {NULLPTR}
    BY <1>8 DEF After
  <2>2. memory[a] = Half(After(fl, 1), 1) /\ memory[a + 1] = Half(After(fl, 1), 2)
    BY <1>8, <1>9, <1>12
  <2>3. NextFree(a) = After(fl, 1)
    BY <2>1, <2>2, NextIsRead
  <2>4. 0 \in 0..(Len(fl) - 1) /\ 0 + 1 = 1
    BY <1>8, <1>9
  <2>5. After(tl, 0) = After(fl, 1)
    BY <2>4, <1>11
  <2>6. QED
    BY <2>3, <2>5, <1>1
\* The write leaves other slots as they are.
<1>14. ASSUME NEW s \in Slots, s # a, NEW b \in s..(s + slotSize - 1)
       PROVE  memory'[b] = memory[b]
  <2>1. b \in DOMAIN memory
    BY <1>2, <1>4, SlotInMemory
  <2>2. s \in Nat /\ a \in Nat /\ (s + slotSize <= a \/ a + slotSize <= s)
    BY <1>1, <1>2, <1>14, SlotsApart
  <2>3. b \notin a..(a + slotSize - 1)
    BY <2>2, <1>7
  <2>4. QED
    BY <2>1, <2>3, <1>1
<1>15. ASSUME NEW b \in a..(a + slotSize - 1) PROVE memory'[b] = DATA
  <2>1. b \in DOMAIN memory
    BY <1>1, <1>2, <1>4, SlotInMemory
  <2>2. QED
    BY <2>1, <1>1
<1>16. ListIs(tl)'
  <2>1. (tl \in Seq(Slots))'
    BY <1>7, <1>10
  <2>2. \A i, j \in 1..Len(tl) : tl[i] = tl[j] => i = j
    <3>1. SUFFICES ASSUME NEW i \in 1..Len(tl), NEW j \in 1..Len(tl), tl[i] = tl[j] PROVE i = j
      OBVIOUS
    <3>2. i + 1 \in 1..Len(fl) /\ j + 1 \in 1..Len(fl) /\ fl[i + 1] = fl[j + 1]
      BY <3>1, <1>8, <1>10
    <3>3. i + 1 = j + 1
      BY <3>2, <1>12
    <3>4. QED
      BY <3>3
  <2>3. ASSUME NEW i \in 1..Len(tl)
        PROVE  /\ memory'[tl[i]] = Half(After(tl, i), 1)
               /\ memory'[tl[i] + 1] = Half(After(tl, i), 2)
    <3>1. i + 1 \in 1..Len(fl) /\ tl[i] = fl[i + 1] /\ i + 1 # 1 /\ i \in 0..(Len(fl) - 1) /\ 1 \in 1..Len(fl)
      BY <1>8, <1>9, <1>10
    <3>2. tl[i] \in Slots /\ tl[i] # a
      <4>1. tl[i] \in Slots
        BY <1>10
      <4>2. fl[i + 1] # fl[1]
        BY <3>1, <1>12
      <4>3. QED
        BY <4>1, <4>2, <3>1, <1>9
    <3>3. tl[i] \in Nat
      BY <3>2, <1>1, <1>2, SlotsApart
    <3>4. tl[i] \in tl[i]..(tl[i] + slotSize - 1) /\ tl[i] + 1 \in tl[i]..(tl[i] + slotSize - 1)
      BY <3>3, <1>7
    <3>5. memory'[tl[i]] = memory[tl[i]] /\ memory'[tl[i] + 1] = memory[tl[i] + 1]
      BY <3>2, <3>4, <1>14
    <3>6. QED
      BY <3>1, <3>5, <1>11, <1>12
  <2>4. QED
    BY <2>1, <2>2, <2>3, <1>13 DEF ListIs
<1>17. mine \in Seq(Slots) /\ Len(mine) \in Nat /\ a \in Slots
  BY <1>1, <1>6 DEF MineIs
<1>18. /\ Len(mine') = Len(mine) + 1 /\ mine' \in Seq(Slots)
       /\ \A i \in 1..Len(mine) : mine'[i] = mine[i]
       /\ mine'[Len(mine) + 1] = a
  BY <1>1, <1>17
<1>19. \A i \in 1..Len(mine) : mine[i] # a
  <2>1. 1 \in 1..Len(fl)
    BY <1>8, <1>9
  <2>2. QED
    BY <2>1, <1>5, <1>9, <1>17 DEF Parted
<1>20. MineIs'
  <2>1. \A i, j \in 1..Len(mine') : mine'[i] = mine'[j] => i = j
    <3>1. SUFFICES ASSUME NEW i \in 1..Len(mine'), NEW j \in 1..Len(mine'), mine'[i] = mine'[j], i # j PROVE FALSE
      BY DEF MineIs
    <3>2. (i \in 1..Len(mine) \/ i = Len(mine) + 1) /\ (j \in 1..Len(mine) \/ j = Len(mine) + 1)
      BY <1>17, <1>18
    <3>3. QED
      BY <3>1, <3>2, <1>6, <1>18, <1>19 DEF MineIs
  <2>2. ASSUME NEW i \in 1..Len(mine'), NEW b \in mine'[i]..(mine'[i] + slotSize - 1) PROVE memory'[b] = DATA
    <3>1. CASE i \in 1..Len(mine)
      <4>1. mine'[i] = mine[i] /\ mine[i] \in Slots /\ mine[i] # a
        BY <3>1, <1>17, <1>18, <1>19
      <4>2. b \in mine[i]..(mine[i] + slotSize - 1)
        BY <4>1
      <4>3. memory'[b] = memory[b]
        BY <4>1, <4>2, <1>14
      <4>4. QED
        BY <4>2, <4>3, <3>1, <1>6 DEF MineIs
    <3>2. CASE i = Len(mine) + 1
      BY <3>2, <1>15, <1>18
    <3>3. QED
      BY <3>1, <3>2, <1>17, <1>18
  <2>3. QED
    BY <2>1, <2>2, <1>1, <1>7, <1>18 DEF MineIs
<1>21. Parted(tl)'
  <2>1. Len(tl) + Len(mine') = NumObjects
    BY <1>5, <1>8, <1>10, <1>17, <1>18 DEF Parted
  <2>2. ASSUME NEW s \in Slots
        PROVE  (\E i \in 1..Len(tl) : tl[i] = s) <=> ~ (\E i \in 1..Len(mine') : mine'[i] = s)
    <3>1. (\E i \in 1..Len(fl) : fl[i] = s) <=> ~ (\E i \in 1..Len(mine) : mine[i] = s)
      BY <1>5 DEF Parted
    <3>2. (\E i \in 1..Len(mine') : mine'[i] = s) <=> (s = a \/ \E i \in 1..Len(mine) : mine[i] = s)
      <4>1. 1..Len(mine') = (1..Len(mine)) \cup {Len(mine) + 1}
        BY <1>17, <1>18
      <4>2. QED
        BY <4>1, <1>18
    <3>3. (\E i \in 1..Len(tl) : tl[i] = s) <=> (s # a /\ \E i \in 1..Len(fl) : fl[i] = s)
      <4>1. ASSUME NEW i \in 1..Len(tl), tl[i] = s PROVE s # a /\ \E k \in 1..Len(fl) : fl[k] = s
        <5>1. i + 1 \in 1..Len(fl) /\ fl[i + 1] = s /\ i + 1 # 1 /\ 1 \in 1..Len(fl)
          BY <4>1, <1>8, <1>9, <1>10
        <5>2. QED
          BY <5>1, <1>9, <1>12
      <4>2. ASSUME NEW i \in 1..Len(fl), fl[i] = s, s # a PROVE \E k \in 1..Len(tl) : tl[k] = s
        <5>1. i # 1
          BY <4>2, <1>9
        <5>2. i - 1 \in 1..Len(tl) /\ i - 1 \in 1..(Len(fl) - 1) /\ (i - 1) + 1 = i
          BY <5>1, <1>8, <1>10
        <5>3. tl[i - 1] = s
          BY <5>2, <4>2, <1>10
        <5>4. QED
          BY <5>2, <5>3
      <4>3. QED
        BY <4>1, <4>2
    <3>4. QED
      BY <3>1, <3>2, <3>3
  <2>3. QED
    BY <2>1, <2>2, <1>7 DEF Parted
<1>22. QED
  BY <1>16, <1>20, <1>21

LEMMA TakenOut ==
  ASSUME NEW S, NEW s \in Seq(S), NEW k \in 1..Len(s)
  PROVE  /\ RemoveAt(s, k) \in Seq(S) /\ Len(RemoveAt(s, k)) = Len(s) - 1
         /\ \A j \in 1..(Len(s) - 1) : RemoveAt(s, k)[j] = IF j < k THEN s[j] ELSE s[j + 1]
<1> DEFINE n == Len(s)  p == SubSeq(s, 1, k - 1)  q == SubSeq(s, k + 1, n)
<1>1. n \in Nat /\ k \in 1..n /\ \A i \in 1..n : s[i] \in S
  OBVIOUS
<1>2. p \in Seq(S) /\ Len(p) = k - 1 /\ \A j \in 1..(k - 1) : p[j] = s[j]
  <2>1. \A j \in 1..(k - 1) : s[j] \in S /\ 1 + j - 1 = j
    BY <1>1
  <2>2. (k - 1) - 1 + 1 = k - 1 /\ (~(1 <= k - 1) => k - 1 = 0) /\ k - 1 \in Int
    BY <1>1
  <2>3. QED
    BY <2>1, <2>2, SubSeqProperties
<1>3. q \in Seq(S) /\ Len(q) = n - k /\ \A j \in 1..(n - k) : q[j] = s[k + j]
  <2>1. \A j \in (k + 1)..n : s[j] \in S
    BY <1>1
  <2>2. k + 1 \in Int /\ n - (k + 1) + 1 = n - k /\ (~(k + 1 <= n) => n - k = 0)
        /\ \A j \in 1..(n - k) : (k + 1) + j - 1 = k + j
    BY <1>1
  <2> HIDE DEF n
  <2>3. QED
    BY <1>1, <2>1, <2>2, SubSeqProperties
<1>4. RemoveAt(s, k) = p \o q
  BY DEF RemoveAt
<1> HIDE DEF n, p, q
<1>5. /\ p \o q \in Seq(S) /\ Len(p \o q) = Len(p) + Len(q)
      /\ \A j \in 1..(Len(p) + Len(q)) : (p \o q)[j] = IF j <= Len(p) THEN p[j] ELSE q[j - Len(p)]
  BY <1>2, <1>3, ConcatProperties
<1>6. Len(p) + Len(q) = n - 1
  BY <1>1, <1>2, <1>3
<1>7. ASSUME NEW j \in 1..(n - 1) PROVE (p \o q)[j] = IF j < k THEN s[j] ELSE s[j + 1]
  <2>1. (p \o q)[j] = IF j <= k - 1 THEN p[j] ELSE q[j - (k - 1)]
    BY <1>2, <1>5, <1>6
  <2>2. CASE j < k
    BY <2>1, <2>2, <1>1, <1>2
  <2>3. CASE ~(j < k)
    <3>1. j - (k - 1) \in 1..(n - k) /\ k + (j - (k - 1)) = j + 1 /\ ~(j <= k - 1)
      BY <2>3, <1>1
    <3>2. QED
      BY <3>1, <2>1, <2>3, <1>3
  <2>4. QED
    BY <2>2, <2>3
<1>8. QED
  BY <1>4, <1>5, <1>6, <1>7 DEF n

LEMMA FreeKeeps ==
  ASSUME PoolInv, NEW a \in Slots, PoolFree(a)
  PROVE  PoolInv'
<1>1. /\ slotSize # 0
      /\ memory' = SetNext(memory, a, freeList) /\ freeList' = a
      /\ slotSize' = slotSize /\ slotAlignment' = slotAlignment
      /\ \/ \E k \in 1..Len(mine) : mine[k] = a /\ mine' = RemoveAt(mine, k) /\ misused' = misused
         \/ misused' = TRUE
  BY DEF PoolFree
<1>2. PoolShape /\ DOMAIN memory' = DOMAIN memory
  BY <1>1 DEF PoolInv, SetNext
<1>3. PoolShape'
  BY <1>1, <1>2 DEF PoolShape
<1>4. SUFFICES ASSUME slotSize >= POINTER, ~misused'
               PROVE  MineIs' /\ \E fl : (ListIs(fl) /\ Parted(fl))'
  BY <1>1, <1>3 DEF PoolInv
<1>5. PICK k \in 1..Len(mine) : mine[k] = a /\ mine' = RemoveAt(mine, k) /\ misused' = misused
  BY <1>1, <1>4
<1>6. MineIs
  BY <1>4, <1>5 DEF PoolInv
<1>7. PICK fl : ListIs(fl) /\ Parted(fl)
  BY <1>4, <1>5 DEF PoolInv
<1>8. Slots' = Slots /\ slotSize \in Nat /\ slotSize >= 2
  BY <1>1, <1>2, <1>4 DEF Slots, PoolShape, POINTER
<1>9. fl \in Seq(Slots) /\ Len(fl) \in Nat /\ mine \in Seq(Slots) /\ Len(mine) \in Nat
  BY <1>6, <1>7 DEF ListIs, MineIs
<1>10. /\ mine' \in Seq(Slots) /\ Len(mine') = Len(mine) - 1
       /\ \A j \in 1..(Len(mine) - 1) : mine'[j] = IF j < k THEN mine[j] ELSE mine[j + 1]
  BY <1>5, <1>9, TakenOut
<1> DEFINE nl == <<a>> \o fl
           Old(j) == IF j < k THEN j ELSE j + 1
<1>11. \A j \in 1..Len(mine') : Old(j) \in 1..Len(mine) /\ Old(j) # k /\ mine'[j] = mine[Old(j)]
  BY <1>5, <1>9, <1>10
<1>12. \A i, j \in 1..Len(mine) : mine[i] = mine[j] => i = j
  BY <1>6 DEF MineIs
<1>13. nl \in Seq(Slots) /\ Len(nl) = Len(fl) + 1 /\ nl[1] = a /\ \A i \in 1..Len(fl) : nl[i + 1] = fl[i]
  BY <1>9
<1> HIDE DEF nl
<1>14. After(nl, 0) = a /\ \A i \in 0..Len(fl) : After(nl, i + 1) = After(fl, i)
  BY <1>9, <1>13 DEF After
<1>15. /\ \A i, j \in 1..Len(fl) : fl[i] = fl[j] => i = j
       /\ freeList = After(fl, 0)
       /\ \A i \in 1..Len(fl) : /\ memory[fl[i]] = Half(After(fl, i), 1)
                                /\ memory[fl[i] + 1] = Half(After(fl, i), 2)
  BY <1>7 DEF ListIs
<1>16. \A i \in 1..Len(fl) : fl[i] # a
  BY <1>5, <1>7 DEF Parted
<1>17. /\ a \in Nat /\ a \in DOMAIN memory /\ a + 1 \in DOMAIN memory
  BY <1>1, <1>2, <1>4, SlotsApart, SlotInMemory
<1>18. memory'[a] = Half(freeList, 1) /\ memory'[a + 1] = Half(freeList, 2)
  BY <1>1, <1>17 DEF SetNext
\* The write leaves other slots as they are.
<1>19. ASSUME NEW s \in Slots, s # a, NEW b \in s..(s + slotSize - 1)
       PROVE  memory'[b] = memory[b]
  <2>1. b \in DOMAIN memory
    BY <1>2, <1>4, SlotInMemory
  <2>2. s \in Nat /\ (s + slotSize <= a \/ a + slotSize <= s)
    BY <1>1, <1>2, <1>19, SlotsApart
  <2>3. b # a /\ b # a + 1
    BY <2>2, <1>8, <1>17
  <2>4. QED
    BY <2>1, <2>3, <1>1 DEF SetNext
<1>20. ListIs(nl)'
  <2>1. (nl \in Seq(Slots))'
    BY <1>8, <1>13
  <2>2. \A i, j \in 1..Len(nl) : nl[i] = nl[j] => i = j
    <3>1. \A i \in 1..Len(nl) : i = 1 \/ (i - 1 \in 1..Len(fl) /\ (i - 1) + 1 = i)
      BY <1>9, <1>13
    <3>2. \A i \in 1..Len(nl) : i # 1 => nl[i] = fl[i - 1] /\ i - 1 \in 1..Len(fl)
      BY <3>1, <1>13
    <3>3. \A i \in 1..Len(nl) : i # 1 => nl[i] # a
      BY <3>2, <1>16
    <3>4. SUFFICES ASSUME NEW i \in 1..Len(nl), NEW j \in 1..Len(nl), nl[i] = nl[j] PROVE i = j
      OBVIOUS
    <3>5. CASE i = 1 \/ j = 1
      BY <3>3, <3>4, <3>5, <1>13
    <3>6. CASE i # 1 /\ j # 1
      <4>1. fl[i - 1] = fl[j - 1] /\ i - 1 \in 1..Len(fl) /\ j - 1 \in 1..Len(fl)
        BY <3>2, <3>4, <3>6
      <4>2. i - 1 = j - 1
        BY <4>1, <1>15
      <4>3. QED
        BY <4>2
    <3>7. QED
      BY <3>5, <3>6
  <2>3. ASSUME NEW i \in 1..Len(nl)
        PROVE  /\ memory'[nl[i]] = Half(After(nl, i), 1)
               /\ memory'[nl[i] + 1] = Half(After(nl, i), 2)
    <3>1. CASE i = 1
      <4>1. After(nl, 1) = After(fl, 0)
        <5>1. 0 \in 0..Len(fl) /\ 0 + 1 = 1
          BY <1>9
        <5>2. QED
          BY <5>1, <1>14
      <4>2. QED
        BY <4>1, <3>1, <1>13, <1>15, <1>18
    <3>2. CASE i # 1
      <4>1. i - 1 \in 1..Len(fl) /\ i - 1 \in 0..Len(fl) /\ (i - 1) + 1 = i
        BY <3>2, <1>9, <1>13
      <4>2. nl[i] = fl[i - 1] /\ After(nl, i) = After(fl, i - 1)
        BY <4>1, <1>13, <1>14
      <4>3. nl[i] \in Slots /\ nl[i] # a
        BY <4>1, <4>2, <1>9, <1>16
      <4>4. nl[i] \in Nat
        BY <4>3, <1>1, <1>2, SlotsApart
      <4>5. nl[i] \in nl[i]..(nl[i] + slotSize - 1) /\ nl[i] + 1 \in nl[i]..(nl[i] + slotSize - 1)
        BY <4>4, <1>8
      <4>6. memory'[nl[i]] = memory[nl[i]] /\ memory'[nl[i] + 1] = memory[nl[i] + 1]
        BY <4>3, <4>5, <1>19
      <4>7. QED
        BY <4>1, <4>2, <4>6, <1>15
    <3>3. QED
      BY <3>1, <3>2
  <2>4. QED
    BY <2>1, <2>2, <2>3, <1>1, <1>14 DEF ListIs
<1>21. MineIs'
  <2>1. ASSUME NEW i \in 1..Len(mine'), NEW j \in 1..Len(mine'), mine'[i] = mine'[j] PROVE i = j
    <3>1. Old(i) = Old(j)
      <4> HIDE DEF Old
      <4>1. QED
        BY <2>1, <1>11, <1>12
    <3>2. i \in Int /\ j \in Int /\ k \in Int
      BY <1>5, <1>9, <1>10
    <3>3. QED
      BY <3>1, <3>2
  <2>2. ASSUME NEW i \in 1..Len(mine'), NEW b \in mine'[i]..(mine'[i] + slotSize - 1) PROVE memory'[b] = DATA
    <3> DEFINE o == Old(i)
    <3>1. o \in 1..Len(mine) /\ o # k /\ mine'[i] = mine[o]
      BY <1>11
    <3> HIDE DEF o
    <3>2. mine[o] \in Slots /\ mine[o] # a /\ b \in mine[o]..(mine[o] + slotSize - 1)
      BY <2>2, <3>1, <1>5, <1>9, <1>12
    <3>3. memory'[b] = memory[b]
      BY <3>2, <1>19
    <3>4. QED
      BY <3>1, <3>2, <3>3, <1>6 DEF MineIs
  <2>3. QED
    BY <2>1, <2>2, <1>1, <1>8, <1>10 DEF MineIs
<1>22. Parted(nl)'
  <2>1. Len(nl) + Len(mine') = NumObjects
    BY <1>7, <1>9, <1>10, <1>13 DEF Parted
  <2>2. ASSUME NEW s \in Slots
        PROVE  (\E i \in 1..Len(nl) : nl[i] = s) <=> ~ (\E i \in 1..Len(mine') : mine'[i] = s)
    <3>1. (\E i \in 1..Len(fl) : fl[i] = s) <=> ~ (\E i \in 1..Len(mine) : mine[i] = s)
      BY <1>7 DEF Parted
    <3>2. (\E i \in 1..Len(nl) : nl[i] = s) <=> (s = a \/ \E i \in 1..Len(fl) : fl[i] = s)
      <4>1. ASSUME NEW i \in 1..Len(nl), nl[i] = s, s # a PROVE \E j \in 1..Len(fl) : fl[j] = s
        <5>1. i - 1 \in 1..Len(fl) /\ (i - 1) + 1 = i
          BY <4>1, <1>9, <1>13
        <5>2. fl[i - 1] = s
          BY <5>1, <4>1, <1>13
        <5>3. QED
          BY <5>1, <5>2
      <4>2. ASSUME NEW i \in 1..Len(fl), fl[i] = s PROVE \E j \in 1..Len(nl) : nl[j] = s
        <5>1. i + 1 \in 1..Len(nl) /\ nl[i + 1] = s
          BY <4>2, <1>9, <1>13
        <5>2. QED
          BY <5>1
      <4>3. 1 \in 1..Len(nl)
        BY <1>9, <1>13
      <4>4. QED
        BY <4>1, <4>2, <4>3, <1>13
    <3>3. (\E i \in 1..Len(mine') : mine'[i] = s) <=> (s # a /\ \E i \in 1..Len(mine) : mine[i] = s)
      <4>1. ASSUME NEW i \in 1..Len(mine'), mine'[i] = s PROVE s # a /\ \E j \in 1..Len(mine) : mine[j] = s
        <5> DEFINE o == Old(i)
        <5>1. o \in 1..Len(mine) /\ o # k /\ mine[o] = s
          BY <4>1, <1>11
        <5> HIDE DEF o
        <5>2. QED
          BY <5>1, <1>5, <1>12
      <4>2. ASSUME NEW i \in 1..Len(mine), mine[i] = s, s # a PROVE \E j \in 1..Len(mine') : mine'[j] = s
        <5>1. i # k
          BY <4>2, <1>5
        <5>2. CASE i < k
          <6>1. i \in 1..Len(mine') /\ i \in 1..(Len(mine) - 1)
            BY <5>2, <1>5, <1>9, <1>10
          <6>2. QED
            BY <6>1, <5>2, <4>2, <1>10
        <5>3. CASE i > k
          <6>1. i - 1 \in 1..Len(mine') /\ i - 1 \in 1..(Len(mine) - 1) /\ ~(i - 1 < k) /\ (i - 1) + 1 = i
            BY <5>3, <1>5, <1>9, <1>10
          <6>2. mine'[i - 1] = s
            BY <6>1, <4>2, <1>10
          <6>3. QED
            BY <6>1, <6>2
        <5>4. QED
          BY <5>1, <5>2, <5>3, <1>5, <1>9
      <4>3. QED
        BY <4>1, <4>2
    <3>4. QED
      BY <3>1, <3>2, <3>3, <1>5
  <2>3. QED
    BY <2>1, <2>2, <1>8 DEF Parted
<1>23. QED
  BY <1>20, <1>21, <1>22

LEMMA PoolInvStep == PoolInv /\ [PoolNext]_poolVars => PoolInv'
<1>1. SUFFICES ASSUME PoolInv, [PoolNext]_poolVars PROVE PoolInv'
  OBVIOUS
<1>2. CASE \E size \in ObjectSizes, alignment \in Alignments : PoolCreate(size, alignment)
  BY <1>1, <1>2, CreateKeeps
<1>3. CASE PoolAlloc
  BY <1>1, <1>3, AllocKeeps
<1>4. CASE \E a \in Slots : PoolFree(a)
  BY <1>1, <1>4, FreeKeeps
<1>5. CASE UNCHANGED poolVars
  <2>1. /\ slotSize' = slotSize /\ slotAlignment' = slotAlignment /\ freeList' = freeList
        /\ memory' = memory /\ mine' = mine /\ misused' = misused
    BY <1>5 DEF poolVars
  <2>2. Slots' = Slots
    BY <2>1 DEF Slots
  <2>3. PoolShape' /\ (MineIs => MineIs')
    BY <1>1, <2>1, <2>2 DEF PoolInv, PoolShape, MineIs
  <2>4. ASSUME NEW fl, ListIs(fl), Parted(fl) PROVE (ListIs(fl) /\ Parted(fl))'
    BY <2>1, <2>2, <2>4 DEF ListIs, Parted
  <2>5. QED
    BY <1>1, <2>1, <2>3, <2>4 DEF PoolInv
<1>6. QED
  BY <1>1, <1>2, <1>3, <1>4, <1>5 DEF PoolNext

\* Walking the free list fl gives its slots and then the null pointer.
LEMMA WalkIs ==
  ASSUME NEW fl, ListIs(fl), Parted(fl), PoolShape, slotSize >= POINTER, Len(mine) \in Nat
  PROVE  LET walk[n \in 0..NumObjects] ==
               IF n = 0 THEN <<freeList>>
               ELSE LET w == walk[n - 1]
                        last == w[Len(w)]
                    IN  IF last \in Slots THEN Append(w, NextFree(last)) ELSE w
         IN  walk[NumObjects] = fl \o <<NULLPTR>>
<1> DEFINE walk[n \in 0..NumObjects] ==
               IF n = 0 THEN <<freeList>>
               ELSE LET w == walk[n - 1]
                        last == w[Len(w)]
                    IN  IF last \in Slots THEN Append(w, NextFree(last)) ELSE w
           L == Len(fl)
           Step(w) == IF w[Len(w)] \in Slots THEN Append(w, NextFree(w[Len(w)])) ELSE w
           Visited(n) == [i \in 1..(IF n < L THEN n + 1 ELSE L + 1) |-> After(fl, i - 1)]
<1>1. NumObjects \in Nat /\ L \in Nat /\ L <= NumObjects /\ fl \in Seq(Slots)
  BY PoolAssumption DEF ListIs, Parted
<1>2. NULLPTR \notin Slots
  <2>1. slotSize # 0
    BY DEF POINTER
  <2>2. QED
    BY <2>1, SlotsApart
<1>3. \A i \in 0..L : After(fl, i) = IF i < L THEN fl[i + 1] ELSE NULLPTR
  BY DEF After
<1>4. ASSUME NEW n \in Nat
      PROVE  /\ Visited(n) \in Seq(Slots \cup {NULLPTR})
             /\ Len(Visited(n)) = IF n < L THEN n + 1 ELSE L + 1
             /\ \A i \in 1..Len(Visited(n)) : Visited(n)[i] = After(fl, i - 1)
  <2> DEFINE m == IF n < L THEN n + 1 ELSE L + 1
  <2>1. m \in Nat /\ m <= L + 1
    BY <1>1
  <2>2. \A i \in 1..m : After(fl, i - 1) \in Slots \cup {NULLPTR}
    BY <1>1, <2>1 DEF After
  <2> HIDE DEF m
  <2>3. /\ [i \in 1..m |-> After(fl, i - 1)] \in Seq(Slots \cup {NULLPTR})
        /\ Len([i \in 1..m |-> After(fl, i - 1)]) = m
    BY <2>1, <2>2
  <2>4. QED
    BY <2>3 DEF m
<1>5. ASSUME NEW n \in 1..NumObjects PROVE Step(Visited(n - 1)) = Visited(n)
  <2> DEFINE v == Visited(n - 1)  w == Visited(n)
  <2>1. n - 1 \in Nat /\ n \in Nat
    OBVIOUS
  <2>2. /\ v \in Seq(Slots \cup {NULLPTR}) /\ Len(v) = (IF n - 1 < L THEN n ELSE L + 1)
        /\ \A i \in 1..Len(v) : v[i] = After(fl, i - 1)
    BY <1>4, <2>1
  <2>3. /\ w \in Seq(Slots \cup {NULLPTR}) /\ Len(w) = (IF n < L THEN n + 1 ELSE L + 1)
        /\ \A i \in 1..Len(w) : w[i] = After(fl, i - 1)
    BY <1>4, <2>1
  <2>4. CASE n - 1 < L
    <3> HIDE DEF v, w
    <3>1. Len(v) = n /\ Len(w) = n + 1 /\ n \in 1..L
      BY <2>2, <2>3, <2>4, <1>1
    <3>2. v[n] = fl[n] /\ fl[n] \in Slots
      BY <3>1, <2>2, <1>1 DEF After
    <3>3. NextFree(fl[n]) = After(fl, n)
      <4>1. After(fl, n) \in Slots \cup {NULLPTR}
        BY <3>1, <1>1 DEF After
      <4>2. memory[fl[n]] = Half(After(fl, n), 1) /\ memory[fl[n] + 1] = Half(After(fl, n), 2)
        BY <3>1 DEF ListIs
      <4>3. QED
        BY <4>1, <4>2, NextIsRead
    <3>4. Step(v) = Append(v, After(fl, n))
      BY <3>1, <3>2, <3>3
    <3>5. After(fl, n) \in Slots \cup {NULLPTR}
      BY <3>1, <1>1 DEF After
    <3> DEFINE u == Append(v, After(fl, n))
    <3>6. /\ u \in Seq(Slots \cup {NULLPTR}) /\ Len(u) = n + 1
          /\ \A i \in 1..n : u[i] = v[i]
          /\ u[n + 1] = After(fl, n)
      BY <2>2, <3>1, <3>5
    <3> HIDE DEF u
    <3>7. \A i \in 1..(n + 1) : u[i] = w[i]
      BY <2>2, <2>3, <3>1, <3>6
    <3>8. u = w
      BY <2>3, <3>1, <3>6, <3>7, SeqEqual
    <3>9. QED
      BY <3>4, <3>8 DEF u, v, w
  <2>5. CASE ~(n - 1 < L)
    <3>1. v = w
      BY <2>5, <1>1
    <3> HIDE DEF v, w
    <3>2. Len(v) = L + 1 /\ v[L + 1] = NULLPTR
      BY <2>2, <2>5, <1>1 DEF After
    <3>3. Step(v) = v
      BY <3>2, <1>2
    <3>4. QED
      BY <3>1, <3>3 DEF v, w
  <2>6. QED
    BY <2>4, <2>5
<1>6. Visited(0) = <<freeList>>
  <2>1. (IF 0 < L THEN 0 + 1 ELSE L + 1) = 1
    BY <1>1
  <2>2. freeList = After(fl, 1 - 1)
    BY DEF ListIs
  <2>3. QED
    BY <2>1, <2>2
<1>7. Visited(NumObjects) = fl \o <<NULLPTR>>
  <2> DEFINE v == Visited(NumObjects)  u == fl \o <<NULLPTR>>
  <2>1. /\ v \in Seq(Slots \cup {NULLPTR}) /\ Len(v) = L + 1
        /\ \A i \in 1..Len(v) : v[i] = After(fl, i - 1)
    BY <1>1, <1>4
  <2>2. /\ u \in Seq(Slots \cup {NULLPTR}) /\ Len(u) = L + 1
        /\ \A i \in 1..L : u[i] = fl[i]
        /\ u[L + 1] = NULLPTR
    BY <1>1
  <2> HIDE DEF u, v
  <2>3. ASSUME NEW i \in 1..(L + 1) PROVE v[i] = u[i]
    <3>1. v[i] = After(fl, i - 1)
      BY <2>1
    <3>2. CASE i = L + 1
      <4>1. ~(i - 1 < Len(fl))
        BY <3>2, <1>1
      <4>2. QED
        BY <4>1, <3>1, <3>2, <2>2 DEF After
    <3>3. CASE i # L + 1
      <4>1. i \in 1..L /\ i - 1 < Len(fl) /\ (i - 1) + 1 = i
        BY <3>3, <1>1
      <4>2. QED
        BY <4>1, <3>1, <2>2 DEF After
    <3>4. QED
      BY <3>2, <3>3
  <2>4. v = u
    BY <2>1, <2>2, <2>3, SeqEqual
  <2>5. QED
    BY <2>4 DEF u, v
<1> HIDE DEF Visited, Step
<1> DEFINE f == [n \in 0..NumObjects |-> Visited(n)]
<1>8. f = [n \in 0..NumObjects |-> IF n = 0 THEN <<freeList>> ELSE Step(f[n - 1])]
  <2>1. ASSUME NEW n \in 0..NumObjects PROVE Visited(n) = IF n = 0 THEN <<freeList>> ELSE Step(f[n - 1])
    <3>1. CASE n = 0
      BY <3>1, <1>6
    <3>2. CASE n # 0
      <4>1. n \in 1..NumObjects /\ n - 1 \in 0..NumObjects
        BY <3>2, <1>1
      <4>2. f[n - 1] = Visited(n - 1)
        BY <4>1
      <4>3. QED
        BY <4>1, <4>2, <3>2, <1>5
    <3>3. QED
      BY <3>1, <3>2
  <2>2. QED
    BY <2>1
<1> HIDE DEF f
<1>9. f = [n \in 0..NumObjects |->
             IF n = 0 THEN <<freeList>>
             ELSE LET w == f[n - 1]
                      last == w[Len(w)]
                  IN  IF last \in Slots THEN Append(w, NextFree(last)) ELSE w]
  BY <1>8 DEF Step
<1>10. walk = [n \in 0..NumObjects |->
             IF n = 0 THEN <<freeList>>
             ELSE LET w == walk[n - 1]
                      last == w[Len(w)]
                  IN  IF last \in Slots THEN Append(w, NextFree(last)) ELSE w]
  <2>1. \E g : g = [n \in 0..NumObjects |->
             IF n = 0 THEN <<freeList>>
             ELSE LET w == g[n - 1]
                      last == w[Len(w)]
                  IN  IF last \in Slots THEN Append(w, NextFree(last)) ELSE w]
    BY <1>9, Zenon
  <2>2. QED
    BY <2>1
<1>11. walk[0] = <<freeList>> /\ \A n \in 1..NumObjects : walk[n] = Step(walk[n - 1])
  <2> DEFINE g == walk
  <2>1. 0 \in 0..NumObjects /\ \A n \in 1..NumObjects : n \in 0..NumObjects /\ n # 0
    BY <1>1
  <2>2. g = [n \in 0..NumObjects |-> IF n = 0 THEN <<freeList>> ELSE Step(g[n - 1])]
    BY <1>10 DEF Step
  <2> HIDE DEF g
  <2>3. g[0] = <<freeList>> /\ \A n \in 1..NumObjects : g[n] = Step(g[n - 1])
    BY <2>1, <2>2
  <2>4. QED
    BY <2>3 DEF g
<1> HIDE DEF walk
<1> DEFINE S == {n \in 0..NumObjects : walk[n] = Visited(n)}
<1>12. 0 \in S
  BY <1>1, <1>6, <1>11
<1>13. ASSUME NEW k \in 0..(NumObjects - 1), k \in S PROVE k + 1 \in S
  <2>1. k + 1 \in 1..NumObjects /\ (k + 1) - 1 = k /\ k + 1 \in 0..NumObjects
    BY <1>1
  <2>2. walk[k + 1] = Step(walk[k]) /\ Step(Visited(k)) = Visited(k + 1)
    BY <2>1, <1>5, <1>11
  <2>3. QED
    BY <2>1, <2>2, <1>13
<1>14. 0..NumObjects \subseteq S
  <2> HIDE DEF S
  <2>1. QED
    BY <1>1, <1>12, <1>13, UpTo
<1>15. walk[NumObjects] = Visited(NumObjects)
  BY <1>1, <1>14
<1>16. QED
  BY <1>7, <1>15 DEF walk

\* The slots are aligned if the memory behind the pool's header is.
LEMMA SlotsAreAligned ==
  ASSUME PoolShape, HeaderBytes % slotAlignment = 0, NEW a \in Slots
  PROVE  a % slotAlignment = 0
<1>1. PICK i \in 0..(NumObjects - 1) : a = Slot(i, slotSize)
  BY DEF Slots
<1>2. PICK q \in Nat : slotSize = slotAlignment * q
  BY DEF PoolShape
<1>3. slotAlignment \in Nat \ {0} /\ HeaderBytes \in Nat /\ i \in Nat
  BY PoolAssumption DEF PoolShape
<1>4. PICK g \in Nat \ {0} : g = slotAlignment
  BY <1>3
<1>5. PICK h \in Int : h = HeaderBytes \div g
  BY <1>3
<1>6. HeaderBytes = g * h
  <2>1. HeaderBytes = g * h + (HeaderBytes % g)
    BY <1>3, <1>5, Z3
  <2>2. QED
    BY <2>1, <1>3, <1>4
<1>7. a = g * h + i * (g * q)
  BY <1>1, <1>2, <1>4, <1>6 DEF Slot
<1>8. PICK m \in Int : m = h + i * q
  BY <1>2, <1>3, <1>5
<1>9. a = g * m
  BY <1>2, <1>3, <1>4, <1>5, <1>7, <1>8, Z3
<1>10. (g * m) % g = 0
  OBVIOUS
<1>11. QED
  BY <1>4, <1>9, <1>10

LEMMA PoolInvHandsOutOnce == PoolInv => PoolHandsOutOnce
<1> DEFINE walk[n \in 0..NumObjects] ==
               IF n = 0 THEN <<freeList>>
               ELSE LET w == walk[n - 1]
                        last == w[Len(w)]
                    IN  IF last \in Slots THEN Append(w, NextFree(last)) ELSE w
           list == walk[NumObjects]
           free == {list[i] : i \in 1..Len(list)} \ {NULLPTR}
<1>1. SUFFICES ASSUME PoolInv, slotSize # 0, ~misused
               PROVE  /\ HeaderBytes % slotAlignment = 0 => \A a \in Slots : a % slotAlignment = 0
                      /\ slotSize >= POINTER =>
                           /\ list[Len(list)] = NULLPTR
                           /\ free \cup {mine[i] : i \in 1..Len(mine)} = Slots
                           /\ (Len(list) - 1) + Len(mine) = NumObjects
                           /\ \A i \in 1..Len(mine) : \A b \in mine[i]..(mine[i] + slotSize - 1) : memory[b] = DATA
  BY DEF PoolHandsOutOnce
<1> HIDE DEF walk
<1>2. PoolShape
  BY <1>1 DEF PoolInv
<1>3. HeaderBytes % slotAlignment = 0 => \A a \in Slots : a % slotAlignment = 0
  BY <1>2, SlotsAreAligned
<1>4. SUFFICES ASSUME slotSize >= POINTER
               PROVE  /\ list[Len(list)] = NULLPTR
                      /\ free \cup {mine[i] : i \in 1..Len(mine)} = Slots
                      /\ (Len(list) - 1) + Len(mine) = NumObjects
                      /\ \A i \in 1..Len(mine) : \A b \in mine[i]..(mine[i] + slotSize - 1) : memory[b] = DATA
  BY <1>3
<1>5. MineIs
  BY <1>1, <1>4 DEF PoolInv
<1>6. PICK fl : ListIs(fl) /\ Parted(fl)
  BY <1>1, <1>4 DEF PoolInv
<1>7. fl \in Seq(Slots) /\ Len(fl) \in Nat /\ mine \in Seq(Slots) /\ Len(mine) \in Nat
  BY <1>5, <1>6 DEF ListIs, MineIs
<1>8. walk[NumObjects] = fl \o <<NULLPTR>>
  BY <1>2, <1>4, <1>6, <1>7, WalkIs DEF walk
<1> DEFINE l == walk[NumObjects]
<1>9. Len(l) = Len(fl) + 1 /\ l[Len(fl) + 1] = NULLPTR /\ \A i \in 1..Len(fl) : l[i] = fl[i]
  <2> DEFINE u == fl \o <<NULLPTR>>
  <2>1. Len(u) = Len(fl) + 1 /\ u[Len(fl) + 1] = NULLPTR /\ \A i \in 1..Len(fl) : u[i] = fl[i]
    BY <1>7
  <2> HIDE DEF u
  <2>2. l = u
    BY <1>8 DEF u
  <2>3. QED
    BY <2>1, <2>2
<1> HIDE DEF l
<1>10. NULLPTR \notin Slots
  BY <1>1, <1>2, SlotsApart
<1>11. {l[i] : i \in 1..Len(l)} \ {NULLPTR} = {fl[i] : i \in 1..Len(fl)}
  <2>1. 1..Len(l) = (1..Len(fl)) \cup {Len(fl) + 1}
    BY <1>7, <1>9
  <2>2. \A i \in 1..Len(fl) : fl[i] # NULLPTR
    BY <1>7, <1>10
  <2>3. QED
    BY <2>1, <2>2, <1>9
<1>12. ({l[i] : i \in 1..Len(l)} \ {NULLPTR}) \cup {mine[i] : i \in 1..Len(mine)} = Slots
  <2>1. \A a \in Slots : (\E i \in 1..Len(fl) : fl[i] = a) \/ (\E i \in 1..Len(mine) : mine[i] = a)
    BY <1>6 DEF Parted
  <2>2. (\A i \in 1..Len(fl) : fl[i] \in Slots) /\ \A i \in 1..Len(mine) : mine[i] \in Slots
    BY <1>7
  <2>3. QED
    BY <2>1, <2>2, <1>11
<1>13. (Len(l) - 1) + Len(mine) = NumObjects /\ l[Len(l)] = NULLPTR
  BY <1>6, <1>7, <1>9 DEF Parted
<1>14. QED
  BY <1>5, <1>12, <1>13 DEF MineIs, l

\* Free list and client share the slots, each in one place, whatever is taken
\* and given back in which order, for any number and size of objects of a
\* pointer or more.
THEOREM PoolHandsOutEachSlotOnce == PoolSpec => []PoolHandsOutOnce
<1>1. PoolInit => PoolInv
  BY PoolInvInit
<1>2. PoolInv /\ [PoolNext]_poolVars => PoolInv'
  BY PoolInvStep
<1>3. PoolInv => PoolHandsOutOnce
  BY PoolInvHandsOutOnce
<1>4. QED
  BY <1>1, <1>2, <1>3, PTL DEF PoolSpec

=============================================================================
