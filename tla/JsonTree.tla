------------------------------ MODULE JsonTree ------------------------------
(***************************************************************************)
(* The value a parse builds in its caller's arena (json_parser.c): every   *)
(* allocation of pvt_parse_value, pvt_parse_object and pvt_parse_array,    *)
(* with an arena that may refuse any of them.  One frame per container     *)
(* that is being parsed, whose members are a list of nodes with the newest *)
(* in front until its closing bracket makes an array of them.  What the    *)
(* text holds is chosen as it is read; JsonParser has how it is read.      *)
(***************************************************************************)
EXTENDS Integers, SequencesExt

CONSTANTS
  NullValue,     \* the null pointer
  Shared,        \* the values of true, false and null, which are static
  MaxTreeDepth,  \* context->depth_max
  MaxMembers,    \* bound: members of a container
  MaxCells       \* bound: values and entries in the arena

ASSUME TreeAssumption == NullValue \notin Shared \cup (Nat \ {0})

VARIABLES
  cells,     \* the JsonValues and JsonObjectEntries in the arena, by address
  nest,      \* frames [cell, key, nodes], outermost first
  result,    \* the pointer that the running function returns
  step,      \* what runs: "value", "add", "loop", "key", "fail", "done", "crashed"
  reason,    \* error->err_type
  spelled,   \* ghost: the members that the text of each container has, by its address
  denied     \* ghost: the kinds of memory the arena refused

treeVars == <<cells, nest, result, step, reason, spelled, denied>>

Frame == nest[Len(nest)]

InArray == cells[Frame.cell].type = "array"

Store(type, members) ==
  /\ Len(cells) < MaxCells
  /\ cells' = Append(cells, [type |-> type, members |-> members])

NewAddress == Len(cells) + 1

\* alok_arena_alloc answers a null pointer, which the code writes through.
WriteThroughNull(kind) ==
  /\ step' = "crashed"
  /\ denied' = denied \cup {kind}
  /\ UNCHANGED <<cells, nest, result, reason, spelled>>

ReturnNull(type) ==
  /\ step' = "fail"
  /\ reason' = type
  /\ result' = NullValue
  /\ UNCHANGED <<cells, nest, spelled>>

Reads(label, value) == step' = label /\ result' = value /\ UNCHANGED <<reason, denied>>

Finishes(value) == Reads(IF nest = <<>> THEN "done" ELSE "add", value)

-----------------------------------------------------------------------------

\* pvt_parse_true, pvt_parse_false and pvt_parse_null allocate nothing.
ParseKeyword ==
  /\ step = "value"
  /\ \E value \in Shared : Finishes(value)
  /\ UNCHANGED <<cells, nest, spelled>>

\* pvt_parse_number has one allocation; pvt_parse_string one more, the text.
ParseNumberOrString(type) ==
  /\ step = "value"
  /\ \/ Store(type, <<>>) /\ Finishes(NewAddress) /\ UNCHANGED <<nest, spelled>>
     \/ WriteThroughNull("value")
     \/ type = "string" /\ WriteThroughNull("text")

\* The beginning of pvt_parse_object and pvt_parse_array.
OpenContainer(type) ==
  /\ step = "value"
  /\ IF Len(nest) + 1 > MaxTreeDepth
     THEN ReturnNull("MAX_NESTED_DEPTH_EXCEEDED") /\ UNCHANGED denied
     ELSE \/ /\ Store(type, <<>>)
             /\ nest' = Append(nest, [cell |-> NewAddress, key |-> NullValue, nodes |-> <<>>])
             /\ spelled' = [c \in DOMAIN spelled \cup {NewAddress} |-> IF c = NewAddress THEN <<>> ELSE spelled[c]]
             /\ Reads("loop", NullValue)
          \/ WriteThroughNull("value")

\* One more member: the comma and, in an object, the key with its colon.
Member ==
  /\ step = "loop" /\ Len(Frame.nodes) < MaxMembers
  /\ step' = IF InArray THEN "value" ELSE "key"
  /\ UNCHANGED <<cells, nest, result, reason, spelled, denied>>

ParseKey ==
  /\ step = "key"
  /\ \/ /\ Store("string", <<>>)
        /\ nest' = [nest EXCEPT ![Len(nest)].key = NewAddress]
        /\ Reads("value", NullValue)
        /\ UNCHANGED spelled
     \/ \E kind \in {"value", "text"} : WriteThroughNull(kind)

\* pvt_add_json_value_node and pvt_add_json_object_entry_node: the node is put
\* in front.
PutInFront(member) ==
  /\ nest' = [nest EXCEPT ![Len(nest)].nodes = <<member>> \o @]
  /\ spelled' = [spelled EXCEPT ![Frame.cell] = Append(@, <<Frame.key, result>>)]
  /\ step' = "loop"
  /\ result' = NullValue
  /\ UNCHANGED <<reason, denied>>

AddElement ==
  /\ step = "add" /\ InArray
  /\ \/ PutInFront(result) /\ UNCHANGED cells
     \/ WriteThroughNull("node")

\* The end of pvt_parse_one_entry, whose allocation is the one that is checked.
AddEntry ==
  /\ step = "add" /\ ~InArray
  /\ \/ Store("entry", <<Frame.key, result>>) /\ PutInFront(NewAddress)
     \/ ReturnNull("OUT_OF_MEMORY") /\ denied' = denied \cup {"entry"}
     \/ WriteThroughNull("node")

\* Mutant: the array is filled from its beginning.
Filled_Forward(nodes) == nodes

\* The array is filled from its end, along the list.
Filled(nodes) == Reverse(nodes)

\* The closing bracket; an empty array is not written to.
Close ==
  /\ step = "loop"
  /\ \/ /\ cells' = [cells EXCEPT ![Frame.cell].members = Filled(Frame.nodes)]
        /\ nest' = Front(nest)
        /\ result' = Frame.cell
        /\ step' = IF Len(nest) = 1 THEN "done" ELSE "add"
        /\ UNCHANGED <<reason, spelled, denied>>
     \/ Frame.nodes # <<>> /\ WriteThroughNull("array")

\* A text that is wrong here: the function returns null, and so do those that
\* called it.
SyntaxError ==
  /\ step \in {"value", "loop", "key"}
  /\ ReturnNull("SYNTAX")
  /\ UNCHANGED denied

GiveUp ==
  /\ step = "fail"
  /\ IF nest = <<>> THEN step' = "done" /\ UNCHANGED nest ELSE nest' = Front(nest) /\ UNCHANGED step
  /\ UNCHANGED <<cells, result, reason, spelled, denied>>

-----------------------------------------------------------------------------

TreeInit ==
  /\ cells = <<>> /\ nest = <<>> /\ spelled = <<>>
  /\ result = NullValue
  /\ step = "value"
  /\ reason = "NONE"
  /\ denied = {}

TreeNext ==
  \/ ParseKeyword
  \/ \E type \in {"number", "string"} : ParseNumberOrString(type)
  \/ \E type \in {"array", "object"} : OpenContainer(type)
  \/ Member \/ ParseKey \/ AddElement \/ AddEntry \/ Close \/ SyntaxError \/ GiveUp

-----------------------------------------------------------------------------
(* Properties. *)

\* The members of a finished container, as its text has them.
Members(c) ==
  [i \in 1..Len(cells[c].members) |->
     LET m == cells[c].members[i]
     IN  IF cells[c].type = "array" THEN <<NullValue, m>> ELSE cells[m].members]

\* A parse that returns a value has built the tree of its text: every array
\* and object in it holds the members its text has, in the order of the text,
\* and memory was refused to none of them.  A parse that returns none has an
\* error to say so, OUT_OF_MEMORY exactly when an entry of an object was
\* refused; every other refusal ends in a write through a null pointer.
TreeIsTheText ==
  /\ step = "done" =>
       /\ (result # NullValue) <=> (reason = "NONE")
       /\ result # NullValue =>
            /\ denied = {}
            /\ \A c \in 1..Len(cells) : cells[c].type \in {"array", "object"} => Members(c) = spelled[c]
  /\ (reason = "OUT_OF_MEMORY") <=> (denied = {"entry"})
  /\ denied \subseteq {"entry"} \/ step = "crashed"
=============================================================================
