---------------------------- MODULE MCDocuments -----------------------------
(***************************************************************************)
(* What surrounds the parser, each part explored on its own: its entry     *)
(* points and the report of an error, the contexts, the tree it builds,    *)
(* the printer, and what they borrow of the allocators: string builders,   *)
(* the scratch arenas of a thread, and the pool beside them.  Which one is *)
(* chosen in the initial state.                                            *)
(***************************************************************************)
EXTENDS PrettyPrinter, EntryPoints, StringBuilder, PoolAllocator, ScratchArenas, JsonTree, ParseContext, TLC

\* Values: each kind, empty and filled, nested, and the awkward ones.
One == Leaf("long", <<"1">>)
Two == Leaf("double", <<"1">>)
Tenth == Leaf("double", <<"0", ".", "1">>)
Big == Leaf("double", <<"1", "e", "+", "1", "0">>)
Inf == Leaf("double", <<"i", "n", "f">>)
Text(s) == Leaf("string", s)
List(s) == Value("array", <<>>, s, <<>>)
Object(keys, s) == Value("object", <<>>, s, keys)
Simple == {Leaf("null", <<>>), One, Two, Tenth, Big, Inf,
           Text(<<>>), Text(<<"a", " ", "q">>), Text(<<"lf", "\\", "esc">>)}
MCValues ==
  {Leaf("true", <<>>), Leaf("false", <<>>), List(<<>>), Object(<<>>, <<>>),
   List(<<List(<<One>>), Object(<<<<>>>>, <<Two>>)>>),
   Object(<<<<"a">>, <<"a", " ">>>>, <<List(<<>>), Object(<<<<"a">>>>, <<One>>)>>),
   List(<<List(<<List(<<One>>)>>), Two>>),
   Object(<<<<"a", "q">>>>, <<One>>), Object(<<<<"a", "a", "a">>>>, <<Tenth>>)}
  \cup {List(<<v>>) : v \in Simple} \cup {Object(<<<<"a">>>>, <<v>>) : v \in Simple} \cup Simple
  \cup {List(<<v, Text(<<"q">>)>>) : v \in Simple}

MCFormats == {[indent |-> 1, single_line |-> TRUE], [indent |-> 0, single_line |-> FALSE],
              [indent |-> 1, single_line |-> FALSE], [indent |-> 2, single_line |-> FALSE]}

MCSymmetry == Permutations(Threads) \cup Permutations(Builders)

MCStrings == {<<1, 2>>}

Doc(chars, err, cursor, bad) == [chars |-> chars, tail |-> <<>>, err |-> err, cursor |-> cursor, bad |-> bad]

MCDocs ==
  {NoText,
   Doc(<<1, 2>>, "NONE", 2, 2),
   [Doc(<<1, 2>>, "NONE", 2, 2) EXCEPT !.tail = <<3, 4>>],
   Doc(<<1, NEWLINE, 3, 4, 5>>, "UNEXPECTED_TEXT", 2, 2),       \* inside the text
   Doc(<<1, 2>>, "UNTERMINATED_ARRAY", 2, 2),                    \* at its end
   Doc(<<1, 2, 3, 4>>, "TRAILING_COMMA_NOT_ALLOWED", 3, 2),
   Doc(<<1, 2, 3, 4, 5, 6>>, "TRAILING_COMMA_NOT_ALLOWED", 5, 1)}  \* blanks between

MCAfters == {NUL, SPACE}

\* As many characters as a call on a context keeps, one more, as the header
\* says it does, and more than a context has room for.
Seven == <<"sp", "tab", "lf", "cr", "ff", "vt", "x">>
MCBlanks == {<<"sp", "tab">>, <<"lf">>, Seven, Append(Seven, "y"), Seven \o Seven \o <<"y", "z">>}

VARIABLE subject

vars == <<printerVars, entryVars, builderVars, poolVars, scratchVars, treeVars, contextVars, subject>>

Init ==
  /\ subject \in {"printer", "entries", "builders", "pool", "scratch", "trees", "contexts"}
  /\ PrinterInit /\ EntryInit /\ BuilderInit /\ PoolInit /\ ScratchInit /\ TreeInit /\ ContextInit
  /\ subject # "printer" => jval = One /\ flags.single_line

Next ==
  /\ \/ subject = "printer" /\ PrinterNext
     \/ subject = "entries" /\ EntryNext
     \/ subject = "builders" /\ BuilderNext
     \/ subject = "pool" /\ PoolNext
     \/ subject = "scratch" /\ ScratchNext
     \/ subject = "trees" /\ TreeNext
     \/ subject = "contexts" /\ ContextNext
  /\ subject # "printer" => UNCHANGED printerVars
  /\ subject # "entries" => UNCHANGED entryVars
  /\ subject # "builders" => UNCHANGED builderVars
  /\ subject # "pool" => UNCHANGED poolVars
  /\ subject # "scratch" => UNCHANGED scratchVars
  /\ subject # "trees" => UNCHANGED treeVars
  /\ subject # "contexts" => UNCHANGED contextVars
  /\ UNCHANGED subject

Spec == Init /\ [][Next]_vars

=============================================================================
