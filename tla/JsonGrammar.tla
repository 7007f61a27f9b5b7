----------------------------- MODULE JsonGrammar ----------------------------
(***************************************************************************)
(* The JSON texts, by the grammar at the top of json_parser.h, with the    *)
(* extensions a context may allow and the limit it sets on nesting.        *)
(***************************************************************************)
EXTENDS Integers, Sequences

CONSTANT Keyword

Digit == {"0", "1"}

Tail2(s) == SubSeq(s, 3, Len(s))

Inner(s) == SubSeq(s, 2, Len(s) - 1)

Before(s, k) == SubSeq(s, 1, k - 1)

After(s, k) == SubSeq(s, k + 1, Len(s))

Between(s, left, right) == Len(s) >= 2 /\ s[1] = left /\ s[Len(s)] = right

\* Without the white space around it.
RECURSIVE Trim(_)
Trim(s) ==
  IF s = <<>> THEN s
  ELSE IF Head(s) = " " THEN Trim(Tail(s))
  ELSE IF s[Len(s)] = " " THEN Trim(SubSeq(s, 1, Len(s) - 1))
  ELSE s

-----------------------------------------------------------------------------
Many(s) == s # <<>> /\ \A i \in 1..Len(s) : s[i] \in Digit

Unsigned(s) == Many(s) /\ (s = <<"0">> \/ s[1] # "0")

Integer(s) ==
  \/ Unsigned(s)
  \/ s # <<>> /\ s[1] = "-" /\ Unsigned(Tail(s))

Fraction(s) ==
  \/ s = <<>>
  \/ s[1] = "." /\ Many(Tail(s))

Exponent(s) ==
  \/ s = <<>>
  \/ /\ s[1] = "e"
     /\ \/ Many(Tail(s))
        \/ Len(s) > 1 /\ s[2] \in {"-", "+"} /\ Many(Tail2(s))

IsNumber(s) ==
  \E a \in 1..Len(s) : \E b \in a..Len(s) :
    Integer(SubSeq(s, 1, a)) /\ Fraction(SubSeq(s, a + 1, b)) /\ Exponent(After(s, b))

RECURSIVE Characters(_)
Characters(s) ==
  \/ s = <<>>
  \/ s[1] \notin {"q", "\\", "ctl", "nul", "ff", "bom16", "bom32"} /\ Characters(Tail(s))
  \/ s[1] = "\\" /\ Len(s) > 1 /\ s[2] \in {"q", "\\"} /\ Characters(Tail2(s))

IsString(s) == Between(s, "q", "q") /\ Characters(Inner(s))

-----------------------------------------------------------------------------
RECURSIVE IsValue(_, _, _)

RECURSIVE Elements(_, _, _)
Elements(s, depth, c) ==
  \/ IsValue(Trim(s), depth, c)
  \/ \E k \in 1..Len(s) :
       s[k] = "," /\ IsValue(Trim(Before(s, k)), depth, c) /\ Elements(After(s, k), depth, c)

Member(s, depth, c) ==
  \E k \in 1..Len(s) :
    s[k] = ":" /\ IsString(Trim(Before(s, k))) /\ IsValue(Trim(After(s, k)), depth, c)

RECURSIVE Members(_, _, _)
Members(s, depth, c) ==
  \/ Member(s, depth, c)
  \/ \E k \in 1..Len(s) :
       s[k] = "," /\ Member(Before(s, k), depth, c) /\ Members(After(s, k), depth, c)

EndsInComma(s) == s # <<>> /\ s[Len(s)] = ","

IsArray(s, depth, c) ==
  /\ Between(s, "[", "]")
  /\ LET list == Trim(Inner(s))
     IN  \/ list = <<>>
         \/ Elements(list, depth - 1, c)
         \/ c.arrays /\ EndsInComma(list) /\ Elements(Before(list, Len(list)), depth - 1, c)

IsObject(s, depth, c) ==
  /\ Between(s, "{", "}")
  /\ LET list == Trim(Inner(s))
     IN  \/ list = <<>>
         \/ Members(list, depth - 1, c)
         \/ c.objects /\ EndsInComma(list) /\ Members(Before(list, Len(list)), depth - 1, c)

\* s is a JSON value nested at most `depth` deep, in context c.
IsValue(s, depth, c) ==
  \/ IsString(s)
  \/ IsNumber(s)
  \/ s = Keyword
  \/ depth > 0 /\ (IsArray(s, depth, c) \/ IsObject(s, depth, c))

\* A text may begin with a UTF-8 byte order mark, unless the context says no.
IsJson(s, c) ==
  LET text == IF s # <<>> /\ s[1] = "bom8" /\ ~c.bom THEN Tail(s) ELSE s
  IN  IsValue(Trim(text), c.depth_max, c)

=============================================================================
