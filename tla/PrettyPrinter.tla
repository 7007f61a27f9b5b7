---------------------------- MODULE PrettyPrinter ---------------------------
(***************************************************************************)
(* src/json_parser/json_pretty_printer.c: JSON values printed on one line  *)
(* or on many, to a stream or a string builder, by several threads.        *)
(*                                                                         *)
(* The indentation is read from the table SPACERS, which all threads share *)
(* and the first to print fills; nothing keeps another from reading it     *)
(* meanwhile.  What is printed is a sequence of pieces, one for each call  *)
(* of mprintf; a piece may hold one row of the table.  (A piece of a value *)
(* is never as long as the 1024 bytes it is formatted in for a builder.)   *)
(***************************************************************************)
EXTENDS JsonReader, FiniteSets

CONSTANTS
  Threads,
  Values,      \* the values to print: [type, text, elements, keys]
  Formats,     \* JsonFormatFlags: [indent, single_line]
  Rows,        \* MAX_NESTING_DEPTH: the rows of SPACERS
  KeyRoom      \* the letters of a key that are printed: 127 in the code

VARIABLES
  jval, flags,   \* what is printed, and how
  rows,          \* the rows of SPACERS that are filled
  filling,       \* the row each thread fills next
  printing,      \* each thread's pieces that are still to come
  printed,       \* what it has printed
  total,         \* total_chars_printed
  at,            \* where it is: "idle", "fill", "print", "done"
  early          \* ghost: the threads that took the table for filled before it was

printerVars == <<jval, flags, rows, filling, printing, printed, total, at, early>>

-----------------------------------------------------------------------------
(* Pieces.                                                                  *)

\* A piece: text, a row of the table (0 is empty), text; whether its length is
\* added to the total once more.
Piece(before, row, after) == [before |-> before, row |-> row, after |-> after, twice |-> FALSE]

Plain(text) == <<Piece(text, 0, <<>>)>>

Twice(text) == <<[Piece(text, 0, <<>>) EXCEPT !.twice = TRUE]>>

\* Mutant: a quotation mark is not escaped.
Escaped_NoQuote(c) ==
  CASE c = "lf"  -> <<"\\", "n">>
    [] c = "esc" -> <<"\\", "u", "0", "0", "1", "B">>
    [] c = "\\"  -> <<"\\", c>>
    [] OTHER     -> <<c>>

\* One character of a string: lf is one with an escape of its own, esc is not.
Escaped(c) ==
  CASE c = "lf"          -> <<"\\", "n">>
    [] c = "esc"         -> <<"\\", "u", "0", "0", "1", "B">>
    [] c \in {"q", "\\"} -> <<"\\", c>>
    [] OTHER             -> <<c>>

\* jsonp_fprint_string.
StringPieces(s) ==
  LET upTo[i \in 0..Len(s)] == IF i = 0 THEN Plain(<<"q">>) ELSE upTo[i - 1] \o Plain(Escaped(s[i]))
  IN  upTo[Len(s)] \o Plain(<<"q">>)

\* double_to_str: a number is not to be taken for a long.
DoubleText(digits) ==
  IF \E i \in 1..Len(digits) : digits[i] \in {".", "e"} THEN digits ELSE digits \o <<".", "0">>

\* jsonp_fprint_scalar.
ScalarPieces(v) ==
  CASE v.type \in DOMAIN Literals -> Plain(Literals[v.type])
    [] v.type = "long"            -> Plain(v.text)
    [] v.type = "double"          -> Plain(DoubleText(v.text))
    [] v.type = "string"          -> StringPieces(v.text)

\* A key is printed as it is, cut at its end.
Key(k) == <<"q">> \o Upto(k, KeyRoom) \o <<"q", " ", ":", " ">>

\* jsonp_print_single_line with fprint_object_single_line and
\* fprint_array_single_line, which counts its own pieces twice.
RECURSIVE SingleLine(_)
SingleLine(v) ==
  LET n == Len(v.elements)
      member[i \in 0..n] ==
        IF i = 0 THEN Plain(<<"{", " ">>)
        ELSE member[i - 1] \o Plain((IF i = 1 THEN <<>> ELSE <<",", " ">>) \o Key(v.keys[i]))
                           \o SingleLine(v.elements[i])
      element[i \in 0..n] ==
        IF i = 0 THEN Twice(<<"[", " ">>)
        ELSE element[i - 1] \o (IF i = 1 THEN <<>> ELSE Twice(<<",", " ">>)) \o SingleLine(v.elements[i])
  IN  CASE v.type = "object" -> IF n = 0 THEN Plain(<<"{", " ", "}">>) ELSE member[n] \o Plain(<<" ", "}">>)
        [] v.type = "array"  -> IF n = 0 THEN Twice(<<"[", "]">>) ELSE element[n] \o Twice(<<" ", "]">>)
        [] OTHER             -> ScalarPieces(v)

CloserRow(nesting, indent) == nesting * indent

\* jsonp_print_multi_line with fprint_object_multi_line and
\* fprint_array_multi_line: each member begins a line.
RECURSIVE MultiLine(_, _, _)
MultiLine(v, nesting, indent) ==
  LET n == Len(v.elements)
      inner == (nesting + 1) * indent
      name(i) == IF v.type = "object" THEN Key(v.keys[i]) ELSE <<>>
      member[i \in 0..n] ==
        IF i = 0 THEN Plain(IF v.type = "object" THEN <<"{">> ELSE <<"[">>)
        ELSE member[i - 1] \o <<Piece(IF i = 1 THEN <<"nl">> ELSE <<",", "nl">>, inner, name(i))>>
                           \o MultiLine(v.elements[i], nesting + 1, indent)
      closer == IF v.type = "object" THEN <<"}">> ELSE <<"]">>
  IN  IF v.type \notin {"object", "array"} THEN ScalarPieces(v)
      ELSE IF n = 0 THEN member[0] \o Plain(closer)
      ELSE member[n] \o <<Piece(<<"nl">>, CloserRow(nesting, indent), closer)>>

Pieces(v, f) == IF f.single_line THEN SingleLine(v) ELSE MultiLine(v, 0, f.indent)

-----------------------------------------------------------------------------
(* Threads.                                                                 *)

\* What a thread may see of a row: a row that is not filled yet begins with any
\* number of its spaces.  Past the table is other data.
Seen(row) ==
  CASE row \in rows -> {[i \in 1..row |-> " "]}
    [] row < Rows /\ row \notin rows -> {[i \in 1..n |-> " "] : n \in 0..row}
    [] OTHER -> {<<"wild">>}

AllRows == 0..(Rows - 1)

\* Mutant: the table is taken for filled.
LooksFilled_Always == {TRUE}

\* Whether SPACERS[1] begins with a space, which it does as soon as a thread
\* has begun to fill that row.
LooksFilled ==
  IF 1 \in rows THEN {TRUE}
  ELSE IF \E u \in Threads : at[u] = "fill" /\ filling[u] = 1 THEN BOOLEAN ELSE {FALSE}

\* jsonp_print_impl.
BeginPrint(t) ==
  /\ at[t] = "idle"
  /\ \E filled \in LooksFilled :
       /\ at' = [at EXCEPT ![t] = IF filled THEN "print" ELSE "fill"]
       /\ early' = IF filled /\ rows # {} /\ rows # AllRows THEN early \cup {t} ELSE early
  /\ printing' = [printing EXCEPT ![t] = Pieces(jval, flags)]
  /\ UNCHANGED <<jval, flags, rows, filling, printed, total>>

\* pvt_init_spacers, a row at a time.
FillRow(t) ==
  /\ at[t] = "fill"
  /\ rows' = rows \cup {filling[t]}
  /\ filling' = [filling EXCEPT ![t] = @ + 1]
  /\ at' = IF filling[t] + 1 = Rows THEN [at EXCEPT ![t] = "print"] ELSE at
  /\ UNCHANGED <<jval, flags, printing, printed, total, early>>

\* mprintf.
PrintPiece(t) ==
  /\ at[t] = "print" /\ printing[t] # <<>>
  /\ LET p == Head(printing[t])
     IN  \E spaces \in Seen(p.row) :
           LET text == p.before \o spaces \o p.after
           IN  /\ printed' = [printed EXCEPT ![t] = @ \o text]
               /\ total' = [total EXCEPT ![t] = @ + (IF p.twice THEN 2 ELSE 1) * Len(text)]
  /\ printing' = [printing EXCEPT ![t] = Tail(@)]
  /\ UNCHANGED <<jval, flags, rows, filling, at, early>>

\* The call returns.
PrintReturns(t) ==
  /\ at[t] = "print" /\ printing[t] = <<>>
  /\ at' = [at EXCEPT ![t] = "done"]
  /\ UNCHANGED <<jval, flags, rows, filling, printing, printed, total, early>>

PrinterInit ==
  /\ jval \in Values /\ flags \in Formats
  /\ rows = {}
  /\ filling = [t \in Threads |-> 0]
  /\ printing = [t \in Threads |-> <<>>]
  /\ printed = [t \in Threads |-> <<>>]
  /\ total = [t \in Threads |-> 0]
  /\ at = [t \in Threads |-> "idle"]
  /\ early = {}

PrinterNext ==
  \E t \in Threads : BeginPrint(t) \/ FillRow(t) \/ PrintPiece(t) \/ PrintReturns(t)

-----------------------------------------------------------------------------
(* Properties. *)

RECURSIVE Inside(_)
Inside(v) == {v} \cup UNION {Inside(v.elements[i]) : i \in 1..Len(v.elements)}

RECURSIVE Depth(_)
Depth(v) ==
  LET deeper == {Depth(v.elements[i]) : i \in 1..Len(v.elements)}
  IN  IF v.type \notin {"array", "object"} \/ deeper = {} THEN 0
      ELSE 1 + CHOOSE d \in deeper : \A e \in deeper : e <= d

\* A value of the parser that its own grammar has no text for: a number that
\* overflowed to infinity.  And the keys the printer does not print as they are.
Infinite(v) == v.type = "double" /\ \E i \in 1..Len(v.text) : v.text[i] \notin InNumbers

Awkward(k) == Len(k) > KeyRoom \/ \E i \in 1..Len(k) : k[i] \in {"q", "\\", "lf", "esc"}

Faithful(v) ==
  \A w \in Inside(v) : ~Infinite(w) /\ \A i \in 1..Len(w.keys) : ~Awkward(w.keys[i])

InTable == flags.single_line \/ Depth(jval) * flags.indent < Rows

\* What is printed is a text of the value, whichever thread has filled the
\* table of spaces and however far: the threads race for white space only.
\* This goes for values with keys that need no escape and are not cut, no
\* infinite number, and no row beyond the table.  The number of characters
\* that is returned is theirs, but for the arrays on a single line
\* (json_pretty_printer.c:215), which add what is counted already.
PrintsTheValue ==
  \A t \in Threads :
    at[t] = "done" =>
      /\ Faithful(jval) /\ InTable => Denotes(printed[t], jval)
      /\ total[t] >= Len(printed[t])
      /\ (~flags.single_line \/ \A w \in Inside(jval) : w.type # "array") => total[t] = Len(printed[t])

\* A thread that fills the table, or finds it filled, begins each line with
\* as many indentations as there are brackets open.
Width(text, i) ==
  CHOOSE w \in 0..(Len(text) - i) :
    /\ \A k \in 1..w : text[i + k] = " "
    /\ i + w = Len(text) \/ text[i + w + 1] # " "

OpenAt(text, i) ==
  Cardinality({k \in 1..i : text[k] \in {"[", "{"}}) - Cardinality({k \in 1..i : text[k] \in {"]", "}"}})

LinesAreIndented ==
  \A t \in Threads :
    (at[t] = "done" /\ t \notin early /\ InTable) =>
      \A i \in 1..Len(printed[t]) : printed[t][i] = "nl" =>
        LET w == Width(printed[t], i)
            closes == printed[t][i + w + 1] \in {"]", "}"}
        IN  w = flags.indent * (OpenAt(printed[t], i) - (IF closes THEN 1 ELSE 0))

=============================================================================
