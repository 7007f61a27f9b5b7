----------------------------- MODULE MCJsonParser ---------------------------
(* JsonParser on every text of up to MaxShort characters, and on every text  *)
(* an edit of one character away from a few documents.                       *)
EXTENDS JsonParser

CONSTANT MaxShort

Alphabet == {"{", "}", "[", "]", ",", ":", "q", "\\", " ", "a", "0", "1", "-", ".", "e",
             "t", "r", "ctl", "nul", "ff"}

MCKeyword == <<"t", "r">>

MCBehind == {<<>>, <<"1">>}

Seeds == {
  <<"[", "t", "r", ",", " ", "[", "]", ",", "1", "]">>,
  <<"{", "q", "a", "q", ":", "1", ",", "q", "q", " ", ":", "{", "}", "}">>,
  <<"[", "[", "[", "]", "]", "]">>,
  <<"-", "1", "0", ".", "0", "e", "-", "1">>,
  <<"-", "1", "1", "0", "1">>,
  <<"q", "\\", "q", "a", "\\", "\\", "q">>,
  <<"bom8", "[", "1", ",", "]">>,
  <<"{", "q", "q", ":", "[", "0", "]", ",", "}">>,
  <<"bom16", "1">>,
  <<"bom32", "1">> }

Cut(s, i) == SubSeq(s, 1, i - 1)
Rest(s, i) == SubSeq(s, i + 1, Len(s))

Edits(s) ==
  {Cut(s, i) : i \in 1..Len(s)}
    \cup {Cut(s, i) \o Rest(s, i) : i \in 1..Len(s)}
    \cup {Cut(s, i) \o <<c>> \o Rest(s, i) : i \in 1..Len(s), c \in Alphabet}
    \cup {Cut(s, i) \o <<c>> \o Rest(s, i - 1) : i \in 1..(Len(s) + 1), c \in Alphabet}

MCTexts ==
  UNION {[1..n -> Alphabet] : n \in 0..MaxShort} \cup UNION {{s} \cup Edits(s) : s \in Seeds}

MCConfs ==
  { [depth_max |-> 1, arrays |-> FALSE, objects |-> TRUE, bom |-> FALSE],
    [depth_max |-> 2, arrays |-> TRUE, objects |-> FALSE, bom |-> TRUE],
    [depth_max |-> 3, arrays |-> FALSE, objects |-> FALSE, bom |-> FALSE] }

Grammar == INSTANCE JsonGrammar

\* Every NUL and 0xFF byte of the text is refused by ex and file, and no such
\* byte reaches the others.
Closed == entry \in {"ex", "file"} \/ \A i \in 1..Len(text) : text[i] \notin {"nul", "ff"}

\* A number that leaves room for a NUL in the buffer is the long that it denotes
\* if there is one, else the double, whatever lies behind the buffer; but an
\* integer too large for a double is the long zero.  The value of a longer one
\* is undetermined, and nothing is said of it.
NumbersKeepTheirValue ==
  LET long == Whole(text) /\ Signed(text) \in (-MaxLong - 1)..MaxLong
  IN  Grammar!IsNumber(text) /\ Len(text) < NumberRoom =>
        /\ long => NumberValues(1) = {[type |-> "LONG", of |-> Signed(text)]}
        /\ ~long => \/ NumberValues(1) = {[type |-> "DOUBLE", of |-> text]}
                    \/ Whole(text) /\ Magnitude(text) >= Huge

\* The parser accepts the JSON texts of the context, nested no deeper than it
\* allows, and no other text: it neither rejects what the grammar derives nor
\* accepts what the grammar does not.  A text that is a number has its value,
\* unless it fills the buffer.
AcceptsExactlyJson ==
  pc = "done" /\ Closed =>
    /\ err = "NONE" <=> Grammar!IsJson(text, conf)
    /\ NumbersKeepTheirValue
=============================================================================
