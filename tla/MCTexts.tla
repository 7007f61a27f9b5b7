------------------------------- MODULE MCTexts ------------------------------
(***************************************************************************)
(* Two readers of text.  One is the parser in a JSON string, on texts at   *)
(* every boundary of UTF-8 and of the escapes, where the two other readers *)
(* of UTF-8 are compared with the standard too.  The other is a client     *)
(* that splits slices, on all texts of a few characters with a neighbour   *)
(* on each side, where the library's two families of string functions are  *)
(* compared.  The initial state chooses which.                             *)
(***************************************************************************)
EXTENDS JsonString, Utf8Tools, StringSlice, StringUtils

VARIABLE subject

vars == <<stringVars, splitVars, subject>>

Hex(n, digits) ==
  [i \in 1..digits |->
    LET d == (n \div 16^(digits - i)) % 16 IN IF d < 10 THEN 48 + d ELSE 55 + d]

\* Lead bytes and followers on both sides of every bound in the code.
Leads == {31, 34, 65, 92, 127, 128, 191, 192, 193, 194, 223, 224, 225, 236, 237, 238, 239,
          240, 241, 243, 244, 245, 247, 248, 255}
Seconds == {34, 127, 128, 143, 144, 159, 160, 175, 176, 191, 192}
Others == {34, 127, 128, 191, 192}

Raw ==
  {<<a>> : a \in Leads} \cup {<<a, b>> : a \in Leads, b \in Seconds}
  \cup {<<a, b, c>> : a \in Leads, b \in Seconds, c \in Others}
  \cup {<<a, b, c, d>> : a \in Leads \cap 224..255, b \in Seconds, c \in Others, d \in Others}

UnitsU == {<<92, 117>> \o Hex(v, 4) :
  v \in {0, 65, 127, 128, 2047, 2048, 55295, 55296, 56319, 56320, 57343, 57344, 65535}}
UnitsLong == {<<92, 85>> \o Hex(v, 6) :
  v \in {0, 55296, 57343, 65535, 65536, 1114111, 1114112, 16777215}}
Letters == {<<92, b>> : b \in {34, 47, 92, 98, 102, 103, 110, 114, 116, 117, 85}}
Broken == {[s EXCEPT ![i] = 71] : s \in UnitsU \cup UnitsLong, i \in 2..6}
          \cup {SubSeq(s, 1, i) : s \in UnitsU \cup UnitsLong, i \in 1..5}

MCTexts ==
  LET units == UnitsU \cup UnitsLong \cup Letters \cup {<<65>>, <<195, 169>>, <<128>>}
      escapes == Broken \cup units \cup {s \o t : s \in units, t \in units}
  IN  {s \o <<QUOTE>> : s \in Raw \cup escapes}
      \cup {s \in Raw : Len(s) <= 2} \cup Broken
      \cup {s \o t \o <<QUOTE>> : s \in UnitsU, t \in Broken}

-----------------------------------------------------------------------------
(* Slices. *)

\* a, A and comma in every order; spaces, a sign and a byte above 127.
MCBuffers ==
  UNION {[1..n -> {97, 65, 44}] : n \in 0..4}
  \cup {<<32, 97, 32>>, <<97, 32, 9, 32>>, <<32, 32>>, <<32, 97, 32, 44, 32>>, <<43, 97>>, <<97, 200, 97>>}
  \cup {<<97, 44, 97, 44, 97, 44>>, <<44, 97, 44, 44, 97, 97>>, <<97, 44, 44, 97, 44, 44>>}

MCDelimiters == {<<>>, <<44>>, <<44, 44>>, <<97>>, <<97, 65>>, <<44, 97, 44>>, <<32>>, <<200>>}

\* Where p is in cs.
At(cs, p) == {i \in 0..(Len(cs) - Len(p)) : SubSeq(cs, i + 1, i + Len(p)) = p}

\* What lies behind the slice is a NUL, as behind a C string.
Whole(s) == s.at + s.length = Len(s.buffer)

-----------------------------------------------------------------------------
(* The two machines. *)

Idle == FromCString(<<>>)

Init ==
  \/ /\ subject = "json"
     /\ StringInit
     /\ whole = Idle /\ delimiter = Idle /\ rest = Idle
     /\ pieces = <<>> /\ outCount = 1 /\ consumed = 0 /\ parts = <<>>
  \/ /\ subject = "slices"
     /\ SplitInit
     /\ text = <<>> /\ end = NUL /\ pos = 1 /\ sb = <<>>
     /\ err = "NONE" /\ ret = "none" /\ scratch = FALSE

Next ==
  /\ \/ subject = "json" /\ StringNext /\ UNCHANGED splitVars
     \/ subject = "slices" /\ SplitNext /\ UNCHANGED stringVars
  /\ UNCHANGED subject

Spec == Init /\ [][Next]_vars

-----------------------------------------------------------------------------
(* Properties. *)

\* On UTF-8 the three readers of the library find the same code points, the
\* dump of a code point writes it as the parser does, and none reads behind
\* the terminating NUL.
ReadersAgree ==
  subject = "json" /\ pos = 1 /\ CodePoints(text) # IllFormed =>
    LET cps == CodePoints(text)
    IN  /\ CharCount(text) = Len(cps)
        /\ \A i \in 1..Len(cps) : CharAt(text, i - 1) = cps[i] /\ Written(cps[i]) = EncodeUtf8(cps[i]).bytes
        /\ CharAt(text, Len(cps)) = ALL_ONES
        /\ Columns(text) = [cps |-> cps, stop |-> Len(text) + 1]
        /\ Len(text) <= 4 /\ Len(cps) = 1 => DecodeUtf8(text) = cps[1]

\* Slices find what C strings find, wherever the slice lies in its buffer: the
\* first and the last place, prefixes, equality.  They differ on an empty
\* pattern, which only slices find.  Ignoring case, a prefix is right only for
\* a slice at the end of its buffer; a suffix is compared from its second
\* character on, and also only there.
Searches ==
  LET p == delimiter.buffer
      at == At(chars, p)
      first == IF at = {} THEN -1 ELSE CHOOSE i \in at : \A j \in at : i <= j
      last  == IF at = {} THEN -1 ELSE CHOOSE i \in at : \A j \in at : i >= j
  IN  subject = "slices" /\ rest = whole /\ consumed = 0 =>
        /\ IndexOf(whole, delimiter, FALSE) = first
        /\ RIndexOf(whole, delimiter, FALSE) = last
        /\ StartsWith(whole, delimiter) = (0 \in at)
        /\ Equal(whole, delimiter, TRUE) = SutilStringsEqual(chars, p, TRUE)
        /\ (Compare(whole, delimiter, TRUE) = 0) = Equal(whole, delimiter, TRUE)
        /\ (Compare(whole, delimiter, FALSE) = 0) = (chars = p)
        /\ IndexOf(whole, delimiter, TRUE) = IndexOf(FromCString(SutilUpper(chars)), FromCString(SutilUpper(p)), FALSE)
        /\ p # <<>> =>
             /\ SutilIndex(chars, p, 0, Len(chars)) = first
             /\ SutilStartsWith(chars, p) = (0 \in at)
             /\ SutilEndsWith(chars, p) = (Len(chars) - Len(p) \in at)
        /\ p # <<>> /\ Whole(whole) =>
             /\ chars # <<>> => StartsWithByCase(whole, delimiter, TRUE) = SutilStartsWithIgnoreCase(chars, p)
             /\ EndsWith(whole, delimiter, FALSE) = (Len(p) <= Len(chars) /\ SutilEndsWith(chars, Tail(p)))

\* Trimming slices is stripping strings; stripping both ends is stripping one
\* after the other, and what is stripped is found by char_at and char_in as
\* long as it is ASCII; zeros are filled in place as into a new string; a
\* centred text stripped of its padding is the text.
Twins ==
  LET set == delimiter.buffer
      upTo == 0..6
  IN  subject = "slices" /\ rest = whole /\ consumed = 0 =>
        /\ Chars(Trim(whole)) = SutilStrip(chars, <<>>)
        /\ Chars(TrimLeft(whole)) = SutilStripLeft(chars, <<>>)
        /\ Chars(TrimRight(whole)) = SutilStripRight(chars, <<>>)
        /\ SutilStrip(chars, set) = SutilStripRight(SutilStripLeft(chars, set), set)
        /\ \A w \in upTo : /\ SutilZFill(chars, w) = SbZFill(chars, w)
                           /\ Len(SbZFill(chars, w)) = IF w > Len(chars) THEN w ELSE Len(chars)
                           /\ SutilStrip(SbCentered(SutilStrip(chars, <<>>), w, 32), <<>>) = SutilStrip(chars, <<>>)
                           /\ SutilStripLeft(SutilPadLeft(SutilStrip(chars, set), w, 44), <<44>>)
                                = SutilStripLeft(SutilStrip(chars, set), <<44>>)
        /\ \A n \in 1..4 : SutilConcat(<<chars, set, chars>>, n) = SbJoin(<<>>, <<chars, set, chars>>, n)
        /\ \A i \in 0..(Len(chars) - 1) :
             SutilCharIn(SutilCharAt(chars, i), chars) <=> SutilCharAt(chars, i) < 128
        /\ SutilStrip(ReplaceMatchChars(chars, set, 32).text, <<32>>)
             = IF set = <<>> THEN SutilStrip(chars, <<32>>)
               ELSE ReplaceMatchChars(SutilStrip(chars, set \o <<32>>), set, 32).text

\* Slices do what C strings do: Searches and Twins.
SlicesAgreeWithStrings == Searches /\ Twins

=============================================================================
