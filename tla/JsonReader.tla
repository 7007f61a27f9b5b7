----------------------------- MODULE JsonReader -----------------------------
(***************************************************************************)
(* What a JSON text means: the value of a text, by the grammar at the top  *)
(* of json_parser.h.  Values are those of PrettyPrinter.                   *)
(***************************************************************************)
EXTENDS Integers, Sequences

Blank == {" ", "nl"}

\* The four characters that a text names a control character by.
LetterOf == [n |-> "lf", u |-> "esc"]

Value(type, text, elements, keys) ==
  [type |-> type, text |-> text, elements |-> elements, keys |-> keys]

Leaf(type, text) == Value(type, text, <<>>, <<>>)

NotJson == [ok |-> FALSE, value |-> Leaf("none", <<>>), rest |-> <<>>]

Found(value, rest) == [ok |-> TRUE, value |-> value, rest |-> rest]

\* The text without the white space that is outside of its strings.
Squeezed(s) ==
  LET squeeze[i \in 0..Len(s)] ==
        IF i = 0 THEN [text |-> <<>>, inside |-> FALSE, escaped |-> FALSE]
        ELSE LET p == squeeze[i - 1]
                 quote == s[i] = "q" /\ ~p.escaped
             IN  [ text |-> IF s[i] \in Blank /\ ~p.inside THEN p.text ELSE Append(p.text, s[i]),
                   inside |-> IF quote THEN ~p.inside ELSE p.inside,
                   escaped |-> p.inside /\ s[i] = "\\" /\ ~p.escaped ]
  IN  squeeze[Len(s)].text

Drop(s, n) == SubSeq(s, n + 1, Len(s))

Upto(s, n) == SubSeq(s, 1, IF n < Len(s) THEN n ELSE Len(s))

\* The string whose opening quote has been read; got is what there is of it.
RECURSIVE StringFrom(_, _)
StringFrom(s, got) ==
  IF s = <<>> \/ Head(s) \in {"lf", "esc"} THEN NotJson
  ELSE IF Head(s) = "q" THEN Found(Leaf("string", got), Tail(s))
  ELSE IF Head(s) # "\\" THEN StringFrom(Tail(s), Append(got, Head(s)))
  ELSE IF Len(s) < 2 \/ s[2] \notin {"q", "\\", "n", "u"} THEN NotJson
  ELSE IF s[2] = "u" THEN StringFrom(Drop(s, 6), Append(got, "esc"))
  ELSE StringFrom(Drop(s, 2), Append(got, IF s[2] = "n" THEN "lf" ELSE s[2]))

Literals == [null |-> <<"n", "u", "l", "l">>, true |-> <<"t", "r", "u", "e">>,
             false |-> <<"f", "a", "l", "s", "e">>]

InNumbers == {"0", "1", "-", "+", ".", "e"}

\* The shortest digits of a number that is not a long.
Shortest(digits) ==
  LET n == Len(digits) - 2
  IN  IF n > 0 /\ Drop(digits, n) = <<".", "0">> THEN Upto(digits, n) ELSE digits

\* The number s begins with: one that is written as an integer is a long.
Number(s) ==
  LET n == CHOOSE k \in 1..Len(s) :
             /\ \A i \in 1..k : s[i] \in InNumbers
             /\ k = Len(s) \/ s[k + 1] \notin InNumbers
      digits == SubSeq(s, 1, n)
      real == \E i \in 1..n : digits[i] \in {".", "e"}
  IN  Found(IF real THEN Leaf("double", Shortest(digits)) ELSE Leaf("long", digits), Drop(s, n))

\* Everything from here on reads squeezed texts.
RECURSIVE ValueFrom(_)

RECURSIVE ElementsFrom(_, _)
ElementsFrom(s, got) ==
  LET v == ValueFrom(s)
      all == Append(got, v.value)
  IN  IF ~v.ok \/ v.rest = <<>> THEN NotJson
      ELSE IF Head(v.rest) = "]" THEN Found(Value("array", <<>>, all, <<>>), Tail(v.rest))
      ELSE IF Head(v.rest) = "," THEN ElementsFrom(Tail(v.rest), all)
      ELSE NotJson

RECURSIVE MembersFrom(_, _, _)
MembersFrom(s, got, keys) ==
  LET k == IF s # <<>> /\ Head(s) = "q" THEN StringFrom(Tail(s), <<>>) ELSE NotJson
      v == IF k.ok /\ k.rest # <<>> /\ Head(k.rest) = ":" THEN ValueFrom(Tail(k.rest)) ELSE NotJson
      all == Append(got, v.value)
      names == Append(keys, k.value.text)
  IN  IF ~v.ok \/ v.rest = <<>> THEN NotJson
      ELSE IF Head(v.rest) = "}" THEN Found(Value("object", <<>>, all, names), Tail(v.rest))
      ELSE IF Head(v.rest) = "," THEN MembersFrom(Tail(v.rest), all, names)
      ELSE NotJson

ValueFrom(s) ==
  IF s = <<>> THEN NotJson
  ELSE IF Head(s) = "q" THEN StringFrom(Tail(s), <<>>)
  ELSE IF Head(s) = "[" THEN
    IF Len(s) > 1 /\ s[2] = "]" THEN Found(Leaf("array", <<>>), Drop(s, 2)) ELSE ElementsFrom(Tail(s), <<>>)
  ELSE IF Head(s) = "{" THEN
    IF Len(s) > 1 /\ s[2] = "}" THEN Found(Leaf("object", <<>>), Drop(s, 2)) ELSE MembersFrom(Tail(s), <<>>, <<>>)
  ELSE IF Head(s) \in InNumbers THEN Number(s)
  ELSE IF \E w \in DOMAIN Literals : Upto(s, Len(Literals[w])) = Literals[w]
  THEN LET w == CHOOSE x \in DOMAIN Literals : Upto(s, Len(Literals[x])) = Literals[x]
       IN  Found(Leaf(w, <<>>), Drop(s, Len(Literals[w])))
  ELSE NotJson

\* s is the text of v.
Denotes(s, v) ==
  LET r == ValueFrom(Squeezed(s))
  IN  r.ok /\ r.rest = <<>> /\ r.value = v

=============================================================================
