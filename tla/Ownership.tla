------------------------------ MODULE Ownership -----------------------------
(***************************************************************************)
(* Who frees a string that is given to a collection: the key and value     *)
(* policies of HashMap (hashmap.c, collections.c) and the value policy of  *)
(* List (array_list.c), by their default functions.  A string lies in a    *)
(* cell of memory; a reference string in two, its object and its text,     *)
(* unless the text is short, which lies in the object.  Memory is not      *)
(* refused here; StringValues has what happens then.                       *)
(***************************************************************************)
EXTENDS Integers, FiniteSets

CONSTANTS
  Slots,      \* places of the collection
  Nothing,    \* no item
  MaxItems    \* bound: cells of memory ever used

Policies == {"NONE", "COPY", "TAKE", "SHARED"}

ASSUME OwnershipAssumption ==
  /\ Nothing \notin [object : Nat, text : Nat]
  /\ MaxItems \in Nat

VARIABLES
  deal,       \* [role, policy, kind], chosen once
  live,       \* the cells that are allocated
  used,       \* the last cell that ever was
  mine,       \* ghost: the items that the client has to free, by its contract
  kept,       \* the item in each place of the collection
  misfreed    \* whether something was freed that is not allocated

ownershipVars == <<deal, live, used, mine, kept, misfreed>>

Item(object, text) == [object |-> object, text |-> text]

CellsOf(item) == {item.object, item.text} \ {0}

Kept == {kept[s] : s \in Slots} \ {Nothing}

-----------------------------------------------------------------------------
(* The policies. *)

\* map_policy_key_add_default.
CopiesKey == deal.policy \in {"COPY", "NONE"}

\* Mutant: a policy that was not set frees nothing.
FreesKey_IfSet == deal.policy \in {"COPY", "TAKE"}

\* map_policy_key_free_default.
FreesKey == deal.policy \in {"COPY", "TAKE", "NONE"}

\* map_set_value asks col_policy_value_set_default for strings alone.  What that
\* would make of a long reference it is never asked: one is kept as it is.
CopiesValue == deal.policy \in {"COPY", "NONE"} /\ deal.kind = "string"

\* col_policy_value_free_default: vstring is one with the pointer to a
\* reference object, so that the object is freed and not its text.
FreedOfValue(item) ==
  IF deal.policy = "SHARED" \/ deal.kind = "short reference" THEN {}
  ELSE IF item.object # 0 THEN {item.object} ELSE {item.text}

\* list_append and list_insert store what they are given; a value that goes is
\* freed by list_policy_value_free_default, if it is a string.
FreedOfElement(item) ==
  IF deal.policy # "SHARED" /\ deal.kind = "string" THEN {item.text} ELSE {}

Copies ==
  \/ deal.role = "key" /\ CopiesKey
  \/ deal.role = "value" /\ CopiesValue

FreedOf(item) ==
  CASE deal.role = "key"     -> IF FreesKey THEN {item.text} ELSE {}
    [] deal.role = "value"   -> FreedOfValue(item)
    [] deal.role = "element" -> FreedOfElement(item)

Frees(cells) ==
  /\ live' = live \ cells
  /\ misfreed' = (misfreed \/ ~(cells \subseteq live))

-----------------------------------------------------------------------------
(* The calls. *)

ClientMakes ==
  /\ used + 2 <= MaxItems
  /\ LET item == CASE deal.kind = "string"          -> Item(0, used + 1)
                   [] deal.kind = "long reference"  -> Item(used + 1, used + 2)
                   [] deal.kind = "short reference" -> Item(used + 1, 0)
     IN  /\ used' = used + Cardinality(CellsOf(item))
         /\ live' = live \cup CellsOf(item)
         /\ mine' = mine \cup {item}
  /\ UNCHANGED <<deal, kept, misfreed>>

\* map_create_node, map_set_value, list_append: an item of the client's goes in.
Put(s, item) ==
  /\ kept[s] = Nothing
  /\ IF Copies
     THEN /\ used < MaxItems
          /\ used' = used + 1
          /\ live' = live \cup {used + 1}
          /\ kept' = [kept EXCEPT ![s] = Item(0, used + 1)]
     ELSE kept' = [kept EXCEPT ![s] = item] /\ UNCHANGED <<used, live>>
  /\ mine' = IF deal.policy = "TAKE" THEN mine \ {item} ELSE mine
  /\ UNCHANGED <<deal, misfreed>>

\* map_put for a key that the map has: its own key stays, and the value is
\* replaced, which is to drop one and put another.
PutAgain(s, item) ==
  /\ deal.role = "key" /\ kept[s] # Nothing
  /\ mine' = IF deal.policy = "TAKE" THEN mine \ {item} ELSE mine
  /\ UNCHANGED <<deal, live, used, kept, misfreed>>

\* map_free_key_if and map_free_value_if of a node that goes, and
\* list_free_value_if of an element that list_clear clears.
Drop(s) ==
  /\ kept[s] # Nothing
  /\ Frees(FreedOf(kept[s]))
  /\ kept' = [kept EXCEPT ![s] = Nothing]
  /\ UNCHANGED <<deal, used, mine>>

\* list_remove hands the element back.
HandBack(s) ==
  /\ deal.role = "element" /\ kept[s] # Nothing
  /\ mine' = mine \cup {kept[s]}
  /\ kept' = [kept EXCEPT ![s] = Nothing]
  /\ UNCHANGED <<deal, live, used, misfreed>>

\* The client frees what is its own; under SHARED not before it is out.
ClientFrees(item) ==
  /\ deal.policy = "SHARED" => item \notin Kept
  /\ Frees(CellsOf(item))
  /\ mine' = mine \ {item}
  /\ UNCHANGED <<deal, used, kept>>

-----------------------------------------------------------------------------

OwnershipInit ==
  /\ deal \in [role : {"key", "value", "element"}, policy : Policies, kind : {"string"}]
       \cup [role : {"value", "element"}, policy : Policies, kind : {"long reference", "short reference"}]
  /\ live = {} /\ used = 0 /\ mine = {}
  /\ kept = [s \in Slots |-> Nothing]
  /\ misfreed = FALSE

OwnershipNext ==
  \/ ClientMakes
  \/ \E s \in Slots : (\E item \in mine : Put(s, item) \/ PutAgain(s, item)) \/ Drop(s) \/ HandBack(s)
  \/ \E item \in mine : ClientFrees(item)

-----------------------------------------------------------------------------
(* Properties. *)

\* The deals that the collections keep: not the copies a list would make, nor
\* references that a map should copy or take, nor keys that are taken, of which
\* a second equal one is neither kept nor freed.
Honoured ==
  CASE deal.role = "element" -> deal.policy = "SHARED" \/ (deal.policy = "TAKE" /\ deal.kind = "string")
    [] deal.role = "key"     -> deal.policy # "TAKE"
    [] deal.role = "value"   -> deal.policy = "SHARED" \/ deal.kind = "string"

\* "Collection makes a copy and owns the copy", "takes ownership", or "does not
\* copy, does not free" (collections.h:58-63; without a policy it copies): each
\* cell of memory is freed once, by its owner; what a collection keeps is
\* allocated as long as it keeps it; and what nobody has is free.
FreedOnceByOwner ==
  Honoured =>
    /\ ~misfreed
    /\ live = UNION {CellsOf(item) : item \in mine \cup Kept}

\* "Collection makes a copy and owns the copy.  Collection frees owned copy"
\* (collections.h:58), so of a reference put as a value under COPY nothing is
\* freed twice.  It does not hold: map_set_value keeps the client's object, the
\* default function frees it when the value goes, and so does the client.
ReferencesAreCopied ==
  deal.role = "value" /\ deal.policy = "COPY" /\ deal.kind = "long reference" => ~misfreed
=============================================================================
