-------------------------- MODULE ContainersProofs --------------------------
(***************************************************************************)
(* Proofs about the containers: who frees the strings they are given, the  *)
(* words of a bit set, the counts of a StringCounter, the sequence in a    *)
(* vector, those in the lists that share a memory pool, and the strings    *)
(* that are a map's values, for any numbers of places, cells, flags,       *)
(* texts, elements, lists, words and keys.  Each of the first five has a   *)
(* specification of its own here, the one that MCContainers checks with    *)
(* the others held still.                                                  *)
(***************************************************************************)
EXTENDS MCContainers, FiniteSetTheorems, SequenceTheorems, NaturalsInduction,
        WellFoundedInduction, TLAPS

-----------------------------------------------------------------------------
(* Ownership. *)

OwnershipSpec == OwnershipInit /\ [][OwnershipNext]_ownershipVars

Deals ==
  [role : {"key", "value", "element"}, policy : Policies, kind : {"string"}]
    \cup [role : {"value", "element"}, policy : Policies, kind : {"long reference", "short reference"}]

AnyItem == [object : Nat, text : Nat]

OwnershipTypes ==
  /\ deal \in Deals
  /\ used \in Nat
  /\ live \subseteq 1..used
  /\ mine \subseteq AnyItem
  /\ kept \in [Slots -> AnyItem \cup {Nothing}]
  /\ misfreed \in BOOLEAN

\* No two of the items share a cell.
Apart(items) == \A x, y \in items : x # y => CellsOf(x) \cap CellsOf(y) = {}

\* An item whose one cell is its text, as a copy is.
Plainly(item) == item.object = 0 /\ item.text # 0

\* What is kept under SHARED is the client's; otherwise it is the collection's
\* alone, in one place, and a single cell.
Ownerships ==
  /\ ~misfreed
  /\ live = UNION {CellsOf(item) : item \in mine \cup Kept}
  /\ Apart(mine \cup Kept)
  /\ deal.kind = "string" => \A item \in mine : Plainly(item)
  /\ deal.policy = "SHARED" => Kept \subseteq mine
  /\ deal.policy # "SHARED" =>
       /\ Kept \cap mine = {}
       /\ \A item \in Kept : Plainly(item)
       /\ \A s, r \in Slots : kept[s] = kept[r] /\ kept[s] # Nothing => s = r

OwnershipInv == OwnershipTypes /\ (Honoured => Ownerships)

\* The item that a client makes: its cells are the next ones of memory.
NewItem ==
  CASE deal.kind = "string"          -> Item(0, used + 1)
    [] deal.kind = "long reference"  -> Item(used + 1, used + 2)
    [] deal.kind = "short reference" -> Item(used + 1, 0)

LEMMA NewItemIsNew ==
  ASSUME OwnershipTypes, ClientMakes
  PROVE  /\ NewItem \in AnyItem
         /\ used' \in Nat /\ used < used'
         /\ CellsOf(NewItem) \subseteq (used + 1)..used'
         /\ CellsOf(NewItem) # {}
         /\ live' = live \cup CellsOf(NewItem)
         /\ mine' = mine \cup {NewItem}
         /\ deal.kind = "string" => Plainly(NewItem)
<1>1. /\ used \in Nat /\ used' = used + Cardinality(CellsOf(NewItem))
      /\ live' = live \cup CellsOf(NewItem) /\ mine' = mine \cup {NewItem}
  BY DEF OwnershipTypes, ClientMakes, NewItem
<1>2. CASE deal.kind = "string"
  <2>1. NewItem = [object |-> 0, text |-> used + 1]
    BY <1>2 DEF NewItem, Item
  <2>2. CellsOf(NewItem) = {used + 1}
    BY <1>1, <2>1 DEF CellsOf
  <2>3. used' = used + 1
    BY <1>1, <2>2, FS_Singleton
  <2>4. QED
    BY <1>1, <1>2, <2>1, <2>2, <2>3 DEF AnyItem, Plainly
<1>3. CASE deal.kind = "long reference"
  <2>1. NewItem = [object |-> used + 1, text |-> used + 2]
    BY <1>3 DEF NewItem, Item
  <2>2. CellsOf(NewItem) = {used + 1, used + 2}
    BY <1>1, <2>1 DEF CellsOf
  <2>3. Cardinality({used + 1, used + 2}) = 2
    <3>1. IsFiniteSet({used + 1}) /\ Cardinality({used + 1}) = 1
      BY FS_Singleton
    <3>2. used + 2 \notin {used + 1} /\ {used + 1} \cup {used + 2} = {used + 1, used + 2}
      BY <1>1
    <3>3. QED
      BY <3>1, <3>2, FS_AddElement
  <2>4. used' = used + 2
    BY <1>1, <2>2, <2>3
  <2>5. QED
    <3>1. NewItem \in AnyItem
      BY <1>1, <2>1 DEF AnyItem
    <3>2. /\ used + 1 \in (used + 1)..(used + 2) /\ used + 2 \in (used + 1)..(used + 2)
          /\ used + 2 \in Nat /\ used < used + 2
      BY <1>1
    <3>3. QED
      BY <1>1, <1>3, <2>2, <2>4, <3>1, <3>2
<1>4. CASE deal.kind = "short reference"
  <2>1. NewItem = [object |-> used + 1, text |-> 0]
    BY <1>4 DEF NewItem, Item
  <2>2. CellsOf(NewItem) = {used + 1}
    BY <1>1, <2>1 DEF CellsOf
  <2>3. used' = used + 1
    BY <1>1, <2>2, FS_Singleton
  <2>4. QED
    <3>1. NewItem \in AnyItem
      BY <1>1, <2>1 DEF AnyItem
    <3>2. used + 1 \in (used + 1)..(used + 1) /\ used + 1 \in Nat /\ used < used + 1
      BY <1>1
    <3>3. QED
      BY <1>1, <1>4, <2>2, <2>3, <3>1, <3>2
<1>5. QED
  BY <1>2, <1>3, <1>4 DEF OwnershipTypes, Deals

\* Every step keeps the types, whatever the deal.
LEMMA OwnershipNextTypes == OwnershipTypes /\ [OwnershipNext]_ownershipVars => OwnershipTypes'
<1> SUFFICES ASSUME OwnershipTypes, [OwnershipNext]_ownershipVars PROVE OwnershipTypes'
  OBVIOUS
<1>1. CASE ClientMakes
  <2>1. /\ NewItem \in AnyItem /\ used' \in Nat /\ used < used'
        /\ CellsOf(NewItem) \subseteq (used + 1)..used'
        /\ live' = live \cup CellsOf(NewItem) /\ mine' = mine \cup {NewItem}
    BY <1>1, NewItemIsNew
  <2>2. live' \subseteq 1..used'
    <3>1. used \in Nat /\ live \subseteq 1..used
      BY DEF OwnershipTypes
    <3>2. 1..used \subseteq 1..used' /\ (used + 1)..used' \subseteq 1..used'
      BY <2>1, <3>1
    <3>3. QED
      BY <2>1, <3>1, <3>2
  <2>3. QED
    BY <1>1, <2>1, <2>2 DEF OwnershipTypes, ClientMakes
<1>2. ASSUME NEW s \in Slots, NEW item \in mine, Put(s, item)
      PROVE  OwnershipTypes'
  <2>1. Item(0, used + 1) \in AnyItem /\ item \in AnyItem
    BY DEF OwnershipTypes, Item, AnyItem
  <2>2. CASE Copies
    <3>1. used \in Nat /\ live \subseteq 1..used
      BY DEF OwnershipTypes
    <3>2. used' = used + 1 /\ live' = live \cup {used + 1}
      BY <1>2, <2>2 DEF Put
    <3>3. used' \in Nat /\ live' \subseteq 1..used'
      BY <3>1, <3>2
    <3>4. QED
      BY <1>2, <2>1, <2>2, <3>3 DEF Put, OwnershipTypes
  <2>3. CASE ~Copies
    BY <1>2, <2>1, <2>3 DEF Put, OwnershipTypes
  <2>4. QED
    BY <2>2, <2>3
<1>3. ASSUME NEW s \in Slots, NEW item \in mine, PutAgain(s, item)
      PROVE  OwnershipTypes'
  BY <1>3 DEF PutAgain, OwnershipTypes
<1>4. ASSUME NEW s \in Slots, Drop(s)
      PROVE  OwnershipTypes'
  BY <1>4 DEF Drop, Frees, OwnershipTypes
<1>5. ASSUME NEW s \in Slots, HandBack(s)
      PROVE  OwnershipTypes'
  BY <1>5 DEF HandBack, OwnershipTypes
<1>6. ASSUME NEW item \in mine, ClientFrees(item)
      PROVE  OwnershipTypes'
  BY <1>6 DEF ClientFrees, Frees, OwnershipTypes
<1>7. CASE UNCHANGED ownershipVars
  BY <1>7 DEF ownershipVars, OwnershipTypes
<1>8. QED
  BY <1>1, <1>2, <1>3, <1>4, <1>5, <1>6, <1>7 DEF OwnershipNext

\* What is kept after an empty place was filled, and after one was emptied.
LEMMA KeptAfterPut ==
  ASSUME OwnershipTypes, NEW s \in Slots, NEW item \in AnyItem, kept[s] = Nothing,
         kept' = [kept EXCEPT ![s] = item]
  PROVE  Kept' = Kept \cup {item}
<1>1. item # Nothing
  BY OwnershipAssumption DEF AnyItem
<1>2. \A r \in Slots : kept'[r] = IF r = s THEN item ELSE kept[r]
  BY DEF OwnershipTypes
<1>3. QED
  BY <1>1, <1>2 DEF Kept

LEMMA KeptAfterDrop ==
  ASSUME OwnershipTypes, NEW s \in Slots, kept[s] # Nothing,
         kept' = [kept EXCEPT ![s] = Nothing]
  PROVE  /\ kept[s] \in Kept /\ kept[s] \in AnyItem
         /\ Kept' \subseteq Kept /\ Kept \subseteq Kept' \cup {kept[s]}
         /\ (\A r \in Slots : kept[s] = kept[r] => s = r) => kept[s] \notin Kept'
<1>1. \A r \in Slots : kept'[r] = IF r = s THEN Nothing ELSE kept[r]
  BY DEF OwnershipTypes
<1>2. QED
  BY <1>1 DEF Kept, OwnershipTypes

\* Where the deal is honoured, an item lies in allocated cells.
LEMMA CellsAreLive ==
  ASSUME Ownerships, NEW item \in mine \cup Kept
  PROVE  CellsOf(item) \subseteq live
  BY DEF Ownerships

LEMMA NextOwnerships ==
  Ownerships' <=>
    /\ ~misfreed'
    /\ live' = UNION {CellsOf(item) : item \in mine' \cup Kept'}
    /\ Apart(mine' \cup Kept')
    /\ deal'.kind = "string" => \A item \in mine' : Plainly(item)
    /\ deal'.policy = "SHARED" => Kept' \subseteq mine'
    /\ deal'.policy # "SHARED" =>
         /\ Kept' \cap mine' = {}
         /\ \A item \in Kept' : Plainly(item)
         /\ \A s, r \in Slots : kept'[s] = kept'[r] /\ kept'[s] # Nothing => s = r
  BY DEF Ownerships, Apart, CellsOf, Plainly

LEMMA MakeKeepsOwnerships ==
  ASSUME OwnershipTypes, Ownerships, ClientMakes
  PROVE  Ownerships'
<1> DEFINE new == NewItem
<1>1. /\ used \in Nat /\ new \in AnyItem
      /\ CellsOf(new) \subseteq (used + 1)..used' /\ used' \in Nat
      /\ CellsOf(new) # {} /\ live' = live \cup CellsOf(new) /\ mine' = mine \cup {new}
      /\ deal.kind = "string" => Plainly(new)
  BY NewItemIsNew DEF OwnershipTypes
<1> HIDE DEF new
<1>2. Kept' = Kept /\ kept' = kept /\ deal' = deal /\ misfreed' = misfreed
  BY DEF ClientMakes, Kept
<1>3. \A item \in mine \cup Kept : CellsOf(item) \cap CellsOf(new) = {}
  <2> TAKE item \in mine \cup Kept
  <2>1. CellsOf(item) \subseteq 1..used
    BY CellsAreLive DEF OwnershipTypes
  <2>2. QED
    BY <1>1, <2>1
<1>4. new \notin mine \cup Kept
  BY <1>1, <1>3
<1>5. live' = UNION {CellsOf(item) : item \in mine' \cup Kept'}
  BY <1>1, <1>2 DEF Ownerships
<1>6. Apart(mine' \cup Kept')
  BY <1>1, <1>2, <1>3 DEF Ownerships, Apart
<1>7. QED
  BY <1>1, <1>2, <1>4, <1>5, <1>6, NextOwnerships DEF Ownerships

LEMMA PutKeepsOwnerships ==
  ASSUME OwnershipTypes, Ownerships, Honoured, NEW s \in Slots, NEW item \in mine, Put(s, item)
  PROVE  Ownerships'
<1>1. /\ deal' = deal /\ misfreed' = misfreed /\ kept[s] = Nothing /\ item \in AnyItem
      /\ \A r \in Slots \ {s} : kept'[r] = kept[r]
      /\ mine' = IF deal.policy = "TAKE" THEN mine \ {item} ELSE mine
  BY DEF Put, OwnershipTypes
<1>2. CASE Copies
  <2> DEFINE new == Item(0, used + 1)
  <2>1. deal.policy \in {"COPY", "NONE"}
    BY <1>2 DEF Copies, CopiesKey, CopiesValue
  <2>2. /\ kept' = [kept EXCEPT ![s] = new] /\ live' = live \cup {used + 1}
        /\ mine' = mine /\ new \in AnyItem /\ CellsOf(new) = {used + 1} /\ Plainly(new)
    BY <1>1, <1>2, <2>1 DEF Put, OwnershipTypes, Item, AnyItem, CellsOf, Plainly
  <2> HIDE DEF new
  <2>3. Kept' = Kept \cup {new}
    BY <1>1, <2>2, KeptAfterPut
  <2>4. \A x \in mine \cup Kept : used + 1 \notin CellsOf(x)
    <3> TAKE x \in mine \cup Kept
    <3>1. CellsOf(x) \subseteq 1..used /\ used \in Nat
      BY CellsAreLive DEF OwnershipTypes
    <3>2. QED
      BY <3>1
  <2>5. new \notin mine \cup Kept
    BY <2>2, <2>4
  <2>6. live' = UNION {CellsOf(x) : x \in mine' \cup Kept'}
    BY <2>2, <2>3 DEF Ownerships
  <2>7. Apart(mine' \cup Kept')
    BY <2>2, <2>3, <2>4 DEF Ownerships, Apart
  <2>8. \A r, q \in Slots : kept'[r] = kept'[q] /\ kept'[r] # Nothing => r = q
    <3>1. new # Nothing
      BY <2>2, OwnershipAssumption DEF AnyItem
    <3>2. \A r \in Slots \ {s} : kept'[r] # new
      BY <1>1, <2>5, <3>1 DEF Kept
    <3>3. kept'[s] = new
      BY <2>2 DEF OwnershipTypes
    <3>4. QED
      BY <1>1, <2>1, <3>1, <3>2, <3>3 DEF Ownerships
  <2>9. QED
    BY <1>1, <2>1, <2>2, <2>3, <2>5, <2>6, <2>7, <2>8, NextOwnerships DEF Ownerships
<1>3. CASE ~Copies
  <2>1. kept' = [kept EXCEPT ![s] = item] /\ live' = live /\ kept'[s] = item
    BY <1>1, <1>3 DEF Put, OwnershipTypes
  <2>2. Kept' = Kept \cup {item}
    BY <1>1, <2>1, KeptAfterPut
  <2>3. CASE deal.policy = "SHARED"
    <3>1. mine' = mine /\ mine' \cup Kept' = mine \cup Kept
      BY <1>1, <2>2, <2>3
    <3>2. QED
      BY <1>1, <2>1, <2>2, <2>3, <3>1, NextOwnerships DEF Ownerships
  <2>4. CASE deal.policy # "SHARED"
    <3>1. deal.policy = "TAKE" /\ deal.kind = "string"
      <4>1. deal.policy \in {"NONE", "COPY", "TAKE"}
        BY <2>4 DEF OwnershipTypes, Deals, Policies
      <4>2. CASE deal.role = "element"
        BY <2>4, <4>2 DEF Honoured
      <4>3. CASE deal.role = "key"
        BY <1>3, <4>1, <4>3 DEF Honoured, Copies, CopiesKey
      <4>4. CASE deal.role = "value"
        BY <1>3, <4>1, <4>4, <2>4 DEF Honoured, Copies, CopiesValue
      <4>5. QED
        BY <4>2, <4>3, <4>4 DEF OwnershipTypes, Deals
    <3>2. mine' = mine \ {item} /\ mine' \cup Kept' = mine \cup Kept /\ item \notin Kept
      BY <1>1, <2>2, <3>1 DEF Ownerships
    <3>3. Plainly(item)
      BY <3>1 DEF Ownerships
    <3>4. \A r, q \in Slots : kept'[r] = kept'[q] /\ kept'[r] # Nothing => r = q
      <4>1. item # Nothing
        BY <1>1, OwnershipAssumption DEF AnyItem
      <4>2. \A r \in Slots \ {s} : kept'[r] # item
        BY <1>1, <3>2, <4>1 DEF Kept
      <4>3. QED
        BY <1>1, <2>1, <2>4, <4>2 DEF Ownerships
    <3>5. QED
      BY <1>1, <2>1, <2>2, <2>4, <3>1, <3>2, <3>3, <3>4, NextOwnerships DEF Ownerships
  <2>5. QED
    BY <2>3, <2>4
<1>4. QED
  BY <1>2, <1>3

\* What an owning collection frees of an item is all of it.
LEMMA FreesAllOrNothing ==
  ASSUME OwnershipTypes, Ownerships, Honoured, NEW item \in Kept
  PROVE  FreedOf(item) = IF deal.policy = "SHARED" THEN {} ELSE CellsOf(item)
<1>1. CASE deal.policy = "SHARED"
  BY <1>1 DEF FreedOf, FreesKey, FreedOfValue, FreedOfElement, OwnershipTypes, Deals
<1>2. CASE deal.policy # "SHARED"
  <2>1. CellsOf(item) = {item.text} /\ item.object = 0
    BY <1>2 DEF Ownerships, Plainly, CellsOf
  <2>2. CASE deal.role = "key"
    BY <1>2, <2>1, <2>2 DEF FreedOf, FreesKey, OwnershipTypes, Deals, Policies
  <2>3. CASE deal.role = "value"
    BY <1>2, <2>1, <2>3 DEF FreedOf, FreedOfValue, Honoured
  <2>4. CASE deal.role = "element"
    BY <1>2, <2>1, <2>4 DEF FreedOf, FreedOfElement, Honoured
  <2>5. QED
    BY <2>2, <2>3, <2>4 DEF OwnershipTypes, Deals
<1>3. QED
  BY <1>1, <1>2

LEMMA DropKeepsOwnerships ==
  ASSUME OwnershipTypes, Ownerships, Honoured, NEW s \in Slots, Drop(s)
  PROVE  Ownerships'
<1> DEFINE item == kept[s]
<1>1. /\ deal' = deal /\ mine' = mine /\ item # Nothing
      /\ kept' = [kept EXCEPT ![s] = Nothing]
      /\ live' = live \ FreedOf(item)
      /\ misfreed' = (misfreed \/ ~(FreedOf(item) \subseteq live))
      /\ \A r \in Slots : kept'[r] = IF r = s THEN Nothing ELSE kept[r]
  BY DEF Drop, Frees, OwnershipTypes
<1>2. /\ item \in Kept /\ Kept' \subseteq Kept /\ Kept \subseteq Kept' \cup {item}
      /\ (\A r \in Slots : item = kept[r] => s = r) => item \notin Kept'
  BY <1>1, KeptAfterDrop
<1> HIDE DEF item
<1>3. CASE deal.policy = "SHARED"
  <2>1. live' = live /\ misfreed' = misfreed
    <3>1. FreedOf(item) = {}
      BY <1>2, <1>3, FreesAllOrNothing
    <3>2. QED
      BY <1>1, <3>1 DEF OwnershipTypes
  <2>2. mine \cup Kept = mine /\ mine' \cup Kept' = mine
    BY <1>1, <1>2, <1>3 DEF Ownerships
  <2>3. ~misfreed' /\ Kept' \subseteq mine'
    BY <1>1, <1>2, <1>3, <2>1 DEF Ownerships
  <2>4. live' = UNION {CellsOf(x) : x \in mine' \cup Kept'} /\ Apart(mine' \cup Kept')
    BY <2>1, <2>2 DEF Ownerships
  <2>5. QED
    BY <1>1, <1>3, <2>3, <2>4, NextOwnerships DEF Ownerships
<1>4. CASE deal.policy # "SHARED"
  <2>1. FreedOf(item) = CellsOf(item) /\ CellsOf(item) \subseteq live
    BY <1>2, <1>4, FreesAllOrNothing, CellsAreLive
  <2>2. item \notin Kept' /\ item \notin mine
    BY <1>1, <1>2, <1>4 DEF Ownerships, item
  <2>3. mine' \cup Kept' = (mine \cup Kept) \ {item}
    BY <1>1, <1>2, <2>2
  <2>4. live' = UNION {CellsOf(x) : x \in mine' \cup Kept'}
    <3>1. \A x \in (mine \cup Kept) \ {item} : CellsOf(x) \cap CellsOf(item) = {}
      BY <1>2 DEF Ownerships, Apart
    <3>2. live = UNION {CellsOf(x) : x \in mine \cup Kept}
      BY DEF Ownerships
    <3>3. QED
      BY <1>1, <1>2, <2>1, <2>3, <3>1, <3>2
  <2>5. Apart(mine' \cup Kept')
    BY <2>3 DEF Ownerships, Apart
  <2>6. QED
    BY <1>1, <1>2, <1>4, <2>1, <2>4, <2>5, NextOwnerships DEF Ownerships
<1>5. QED
  BY <1>3, <1>4

LEMMA HandBackKeepsOwnerships ==
  ASSUME OwnershipTypes, Ownerships, Honoured, NEW s \in Slots, HandBack(s)
  PROVE  Ownerships'
<1> DEFINE item == kept[s]
<1>1. /\ deal' = deal /\ mine' = mine \cup {item} /\ item # Nothing
      /\ kept' = [kept EXCEPT ![s] = Nothing] /\ live' = live /\ misfreed' = misfreed
      /\ \A r \in Slots : kept'[r] = IF r = s THEN Nothing ELSE kept[r]
      /\ deal.role = "element"
  BY DEF HandBack, OwnershipTypes
<1>2. /\ item \in Kept /\ Kept' \subseteq Kept /\ Kept \subseteq Kept' \cup {item}
      /\ (\A r \in Slots : item = kept[r] => s = r) => item \notin Kept'
  BY <1>1, KeptAfterDrop
<1>3. mine' \cup Kept' = mine \cup Kept
  BY <1>1, <1>2
<1>4. deal.policy = "SHARED" => mine' = mine
  BY <1>1, <1>2 DEF Ownerships
<1>5. deal.policy # "SHARED" => item \notin Kept' /\ Plainly(item)
  BY <1>1, <1>2 DEF Ownerships
<1> HIDE DEF item
<1>6. QED
  BY <1>1, <1>2, <1>3, <1>4, <1>5, NextOwnerships DEF Ownerships

LEMMA FreeKeepsOwnerships ==
  ASSUME OwnershipTypes, Ownerships, NEW item \in mine, ClientFrees(item)
  PROVE  Ownerships'
<1>1. /\ deal' = deal /\ mine' = mine \ {item} /\ kept' = kept /\ Kept' = Kept
      /\ live' = live \ CellsOf(item) /\ CellsOf(item) \subseteq live
      /\ misfreed' = misfreed
  <2>1. CellsOf(item) \subseteq live
    BY CellsAreLive
  <2>2. QED
    BY <2>1 DEF ClientFrees, Frees, Kept, OwnershipTypes
<1>2. item \notin Kept
  BY DEF ClientFrees, Ownerships
<1>3. mine' \cup Kept' = (mine \cup Kept) \ {item}
  BY <1>1, <1>2
<1>4. live' = UNION {CellsOf(x) : x \in mine' \cup Kept'}
  <2>1. \A x \in (mine \cup Kept) \ {item} : CellsOf(x) \cap CellsOf(item) = {}
    BY DEF Ownerships, Apart
  <2>2. live = UNION {CellsOf(x) : x \in mine \cup Kept}
    BY DEF Ownerships
  <2>3. QED
    BY <1>1, <1>3, <2>1, <2>2
<1>5. Apart(mine' \cup Kept')
  BY <1>3 DEF Ownerships, Apart
<1>6. QED
  BY <1>1, <1>2, <1>4, <1>5, NextOwnerships DEF Ownerships

LEMMA OwnershipInvariance == OwnershipSpec => []OwnershipInv
<1>1. OwnershipInit => OwnershipInv
  <2> SUFFICES ASSUME OwnershipInit PROVE OwnershipInv
    OBVIOUS
  <2>1. Kept = {} /\ mine = {} /\ live = {} /\ ~misfreed
    BY DEF OwnershipInit, Kept
  <2>2. OwnershipTypes
    BY <2>1 DEF OwnershipInit, OwnershipTypes, Deals
  <2>3. QED
    BY <2>1, <2>2 DEF OwnershipInit, OwnershipInv, Ownerships, Apart
<1>2. OwnershipInv /\ [OwnershipNext]_ownershipVars => OwnershipInv'
  <2> SUFFICES ASSUME OwnershipInv, [OwnershipNext]_ownershipVars PROVE OwnershipInv'
    OBVIOUS
  <2>1. OwnershipTypes /\ OwnershipTypes'
    BY OwnershipNextTypes DEF OwnershipInv
  <2>2. Honoured' = Honoured
    BY DEF OwnershipNext, ownershipVars, ClientMakes, Put, PutAgain, Drop, HandBack, ClientFrees,
           Honoured
  <2>3. ASSUME Honoured PROVE Ownerships'
    <3>1. Ownerships
      BY <2>3 DEF OwnershipInv
    <3>2. CASE UNCHANGED <<deal, live, kept, misfreed, mine>>
      <4>1. Kept' = Kept
        BY <3>2 DEF Kept
      <4>2. QED
        BY <3>1, <3>2, <4>1, NextOwnerships DEF Ownerships
    <3>3. ASSUME NEW s \in Slots, NEW item \in mine, PutAgain(s, item)
          PROVE  Ownerships'
      <4>1. deal.policy # "TAKE"
        <5>1. deal.role = "key"
          BY <3>3 DEF PutAgain
        <5>2. QED
          BY <2>3, <5>1 DEF Honoured
      <4>2. QED
        BY <3>2, <3>3, <4>1 DEF PutAgain
    <3>4. QED
      BY <2>1, <2>3, <3>1, <3>2, <3>3, MakeKeepsOwnerships, PutKeepsOwnerships,
         DropKeepsOwnerships, HandBackKeepsOwnerships, FreeKeepsOwnerships
         DEF OwnershipNext, ownershipVars
  <2>4. QED
    BY <2>1, <2>2, <2>3 DEF OwnershipInv
<1>3. QED
  BY <1>1, <1>2, PTL DEF OwnershipSpec

\* Under the deals that hashmap.c, collections.c and array_list.c honour, each
\* cell of a string is freed once, by its owner, and what nobody has is free,
\* for any number of places and of strings.
THEOREM StringsAreFreedOnce == OwnershipSpec => []FreedOnceByOwner
<1>1. OwnershipInv => FreedOnceByOwner
  BY DEF OwnershipInv, Ownerships, FreedOnceByOwner
<1>2. QED
  BY <1>1, OwnershipInvariance, PTL

-----------------------------------------------------------------------------
(* Bit sets. *)

BitSpec == BitInit /\ [][BitNext]_bitVars

AllFlags == 0..(MaxFlags - 1)
AllWords == 0..(WordsFor(MaxFlags) - 1)

BitInv ==
  /\ words \in [AllWords -> SUBSET (0..(BitsPerWord - 1))]
  /\ flags \subseteq AllFlags
  /\ \A f \in AllFlags : TestBit(words, f) <=> f \in flags

LEMMA DivisionBy ==
  ASSUME NEW n \in Nat, NEW d \in Nat \ {0}
  PROVE  n \div d \in Nat /\ n % d \in 0..(d - 1) /\ n = d * (n \div d) + (n % d)
<1>1. n \div d \in Nat
  BY Z3
<1>2. n % d \in 0..(d - 1)
  BY Z3
<1>3. PICK q \in Int : q = n \div d
  BY <1>1
<1>4. n = d * q + (n % d)
  BY <1>3, Z3
<1>5. QED
  BY <1>1, <1>2, <1>3, <1>4

LEMMA DivisionOf ==
  ASSUME NEW n \in Nat
  PROVE  /\ n \div BitsPerWord \in Nat /\ n % BitsPerWord \in 0..(BitsPerWord - 1)
         /\ n = BitsPerWord * (n \div BitsPerWord) + (n % BitsPerWord)
  BY DivisionBy, BitSetAssumption

LEMMA QuotientsGrow ==
  ASSUME NEW d \in Nat \ {0}, NEW p \in Int, NEW q \in Int, NEW r \in Int, NEW s \in Int,
         0 <= r, r < d, 0 <= s, s < d, d * p + r < d * q + s
  PROVE  p <= q
<1> SUFFICES ASSUME q < p PROVE FALSE
  OBVIOUS
<1>1. q + 1 <= p
  OBVIOUS
<1>2. d * (q + 1) <= d * p
  BY <1>1, Z3
<1>3. d * (q + 1) = d * q + d /\ d * q \in Int /\ d * p \in Int
  BY Z3
<1>4. QED
  BY <1>2, <1>3

\* Each flag has a bit of a word, and no two flags have the same.
LEMMA FlagsLieApart ==
  /\ \A f \in AllFlags : WordIndex(f) \in AllWords /\ Bit(f) \in 0..(BitsPerWord - 1)
  /\ \A f, g \in AllFlags : WordIndex(f) = WordIndex(g) /\ Bit(f) = Bit(g) => f = g
<1>1. ASSUME NEW f \in AllFlags
      PROVE  WordIndex(f) \in AllWords /\ Bit(f) \in 0..(BitsPerWord - 1)
  <2>1. f \in Nat /\ f < MaxFlags /\ MaxFlags \in Nat /\ BitsPerWord \in Nat \ {0}
    BY BitSetAssumption DEF AllFlags
  <2> DEFINE size == MaxFlags + BitsPerWord - 1
  <2>2. size \in Nat /\ f + BitsPerWord \in Nat /\ f + BitsPerWord <= size
    BY <2>1
  <2>3. (f + BitsPerWord) \div BitsPerWord = f \div BitsPerWord + 1
    BY <2>1, Z3
  <2>4. (f + BitsPerWord) \div BitsPerWord <= size \div BitsPerWord
    <3> HIDE DEF size
    <3> QED
      BY <2>1, <2>2, DivisionOf, QuotientsGrow
  <2>5. f \div BitsPerWord \in Nat /\ size \div BitsPerWord \in Nat
    <3> HIDE DEF size
    <3> QED
      BY <2>1, <2>2, DivisionOf
  <2>6. WordsFor(MaxFlags) = size \div BitsPerWord
    BY DEF WordsFor
  <2> HIDE DEF size
  <2>7. QED
    BY <2>1, <2>3, <2>4, <2>5, <2>6, DivisionOf DEF WordIndex, Bit, AllWords
<1>2. ASSUME NEW f \in AllFlags, NEW g \in AllFlags, WordIndex(f) = WordIndex(g), Bit(f) = Bit(g)
      PROVE  f = g
  <2>1. f \in Nat /\ g \in Nat
    BY BitSetAssumption DEF AllFlags
  <2>2. f \div BitsPerWord = g \div BitsPerWord /\ f % BitsPerWord = g % BitsPerWord
    BY <1>2 DEF WordIndex, Bit
  <2>3. /\ f = BitsPerWord * (f \div BitsPerWord) + (f % BitsPerWord)
        /\ g = BitsPerWord * (g \div BitsPerWord) + (g % BitsPerWord)
    BY <2>1, DivisionOf
  <2>4. QED
    BY ONLY <2>2, <2>3
<1>3. QED
  BY <1>1, <1>2

\* What the words that tell of fs say of a flag.
LEMMA SetTells ==
  ASSUME NEW ws \in [AllWords -> SUBSET (0..(BitsPerWord - 1))], NEW fs \in SUBSET AllFlags
  PROVE  /\ SetMultiple(ws, fs) \in [AllWords -> SUBSET (0..(BitsPerWord - 1))]
         /\ \A f \in AllFlags :
              TestBit(SetMultiple(ws, fs), f) <=> f \in fs \/ TestBit(ws, f)
<1>1. \A w \in AllWords :
        SetMultiple(ws, fs)[w] = ws[w] \cup {Bit(f) : f \in {g \in fs : WordIndex(g) = w}}
  BY DEF SetMultiple
<1>2. SetMultiple(ws, fs) \in [AllWords -> SUBSET (0..(BitsPerWord - 1))]
  <2>1. \A w \in AllWords :
          {Bit(f) : f \in {g \in fs : WordIndex(g) = w}} \in SUBSET (0..(BitsPerWord - 1))
    BY FlagsLieApart
  <2>2. QED
    BY <2>1 DEF SetMultiple
<1>3. ASSUME NEW f \in AllFlags
      PROVE  TestBit(SetMultiple(ws, fs), f) <=> f \in fs \/ TestBit(ws, f)
  <2>1. WordIndex(f) \in AllWords
    BY FlagsLieApart
  <2>2. Bit(f) \in {Bit(g) : g \in {h \in fs : WordIndex(h) = WordIndex(f)}} <=> f \in fs
    BY FlagsLieApart
  <2>3. QED
    BY <1>1, <2>1, <2>2 DEF TestBit
<1>4. QED
  BY <1>2, <1>3

\* The mask that is made of fs holds these and no other flags.
LEMMA MaskHolds ==
  ASSUME NEW fs \in SUBSET AllFlags
  PROVE  /\ SetMultiple(Cleared, fs) \in [AllWords -> SUBSET (0..(BitsPerWord - 1))]
         /\ \A f \in AllFlags : TestBit(SetMultiple(Cleared, fs), f) <=> f \in fs
         /\ \A w \in AllWords : \A b \in SetMultiple(Cleared, fs)[w] :
              \E f \in fs : WordIndex(f) = w /\ Bit(f) = b
<1>1. Cleared \in [AllWords -> SUBSET (0..(BitsPerWord - 1))]
  BY DEF Cleared, AllWords
<1>2. \A f \in AllFlags : ~TestBit(Cleared, f)
  BY FlagsLieApart DEF TestBit, Cleared, AllWords
<1>3. \A w \in AllWords :
        SetMultiple(Cleared, fs)[w] = {Bit(f) : f \in {g \in fs : WordIndex(g) = w}}
  BY DEF SetMultiple, Cleared, AllWords
<1>4. QED
  BY <1>1, <1>2, <1>3, SetTells

LEMMA BitInvStep == BitInv /\ [BitNext]_bitVars => BitInv'
<1> SUFFICES ASSUME BitInv, [BitNext]_bitVars PROVE BitInv'
  OBVIOUS
<1>1. /\ words \in [AllWords -> SUBSET (0..(BitsPerWord - 1))] /\ flags \subseteq AllFlags
      /\ \A f \in AllFlags : TestBit(words, f) <=> f \in flags
  BY DEF BitInv
<1>2. ASSUME NEW f \in AllFlags, words' = SetBit(words, f), flags' = flags \cup {f}
      PROVE  BitInv'
  <2>1. /\ WordIndex(f) \in AllWords /\ Bit(f) \in 0..(BitsPerWord - 1)
        /\ \A w \in AllWords : words'[w] = IF w = WordIndex(f) THEN words[w] \cup {Bit(f)} ELSE words[w]
    BY <1>1, <1>2, FlagsLieApart DEF SetBit
  <2>2. words' \in [AllWords -> SUBSET (0..(BitsPerWord - 1))]
    BY <1>1, <1>2, <2>1 DEF SetBit
  <2>3. \A g \in AllFlags : TestBit(words', g) <=> g \in flags'
    BY <1>1, <1>2, <2>1, FlagsLieApart DEF TestBit
  <2>4. QED
    BY <1>1, <1>2, <2>2, <2>3 DEF BitInv, TestBit, WordIndex, Bit, AllFlags, AllWords, WordsFor
<1>3. ASSUME NEW f \in AllFlags, words' = ClearBit(words, f), flags' = flags \ {f}
      PROVE  BitInv'
  <2>1. /\ WordIndex(f) \in AllWords /\ Bit(f) \in 0..(BitsPerWord - 1)
        /\ \A w \in AllWords : words'[w] = IF w = WordIndex(f) THEN words[w] \ {Bit(f)} ELSE words[w]
    BY <1>1, <1>3, FlagsLieApart DEF ClearBit
  <2>2. words' \in [AllWords -> SUBSET (0..(BitsPerWord - 1))]
    BY <1>1, <1>3, <2>1 DEF ClearBit
  <2>3. \A g \in AllFlags : TestBit(words', g) <=> g \in flags'
    BY <1>1, <1>3, <2>1, FlagsLieApart DEF TestBit
  <2>4. QED
    BY <1>1, <1>3, <2>2, <2>3 DEF BitInv, TestBit, WordIndex, Bit, AllFlags, AllWords, WordsFor
<1>4. ASSUME NEW f \in 0..(2 * MaxFlags), words' = DynamicSet(words, f),
             flags' = flags \cup ({f} \cap AllFlags)
      PROVE  BitInv'
  <2>1. CASE f \in AllFlags
    <3>1. words' = SetBit(words, f) /\ flags' = flags \cup {f}
      BY <1>4, <2>1, BitSetAssumption DEF DynamicSet, AllFlags
    <3>2. QED
      BY <1>2, <2>1, <3>1
  <2>2. CASE f \notin AllFlags
    <3>1. words' = words /\ flags' = flags
      BY <1>4, <2>2, BitSetAssumption DEF DynamicSet, AllFlags
    <3>2. QED
      BY <1>1, <3>1 DEF BitInv, TestBit
  <2>3. QED
    BY <2>1, <2>2
<1>5. ASSUME NEW fs \in SUBSET AllFlags
      PROVE  /\ words' = SetMultiple(words, fs) /\ flags' = flags \cup fs => BitInv'
             /\ words' = SetMask(words, SetMultiple(Cleared, fs)) /\ flags' = flags \cup fs => BitInv'
             /\ words' = ClearMask(words, SetMultiple(Cleared, fs)) /\ flags' = flags \ fs => BitInv'
  <2> DEFINE mask == SetMultiple(Cleared, fs)
  <2>1. /\ mask \in [AllWords -> SUBSET (0..(BitsPerWord - 1))]
        /\ \A f \in AllFlags : TestBit(mask, f) <=> f \in fs
    BY MaskHolds
  <2>2. ASSUME words' = SetMultiple(words, fs), flags' = flags \cup fs PROVE BitInv'
    <3>1. /\ words' \in [AllWords -> SUBSET (0..(BitsPerWord - 1))]
          /\ \A f \in AllFlags : TestBit(words', f) <=> f \in flags'
      BY <1>1, <2>2, SetTells
    <3>2. QED
      BY <1>1, <2>2, <3>1 DEF BitInv, TestBit, WordIndex, Bit, AllFlags, AllWords, WordsFor
  <2> HIDE DEF mask
  <2>3. ASSUME words' = SetMask(words, mask), flags' = flags \cup fs PROVE BitInv'
    <3>1. \A w \in AllWords : words'[w] = words[w] \cup mask[w]
      BY <1>1, <2>3 DEF SetMask
    <3>2. words' \in [AllWords -> SUBSET (0..(BitsPerWord - 1))]
      BY <1>1, <2>1, <2>3 DEF SetMask
    <3>3. \A f \in AllFlags : TestBit(words', f) <=> f \in flags'
      BY <1>1, <2>1, <2>3, <3>1, FlagsLieApart DEF TestBit
    <3>4. QED
      BY <1>1, <2>3, <3>2, <3>3 DEF BitInv, TestBit, WordIndex, Bit, AllFlags, AllWords, WordsFor
  <2>4. ASSUME words' = ClearMask(words, mask), flags' = flags \ fs PROVE BitInv'
    <3>1. \A w \in AllWords : words'[w] = words[w] \ mask[w]
      BY <1>1, <2>4 DEF ClearMask
    <3>2. words' \in [AllWords -> SUBSET (0..(BitsPerWord - 1))]
      BY <1>1, <2>1, <2>4 DEF ClearMask
    <3>3. \A f \in AllFlags : TestBit(words', f) <=> f \in flags'
      BY <1>1, <2>1, <2>4, <3>1, FlagsLieApart DEF TestBit
    <3>4. QED
      BY <1>1, <2>4, <3>2, <3>3 DEF BitInv, TestBit, WordIndex, Bit, AllFlags, AllWords, WordsFor
  <2>5. QED
    BY <2>2, <2>3, <2>4 DEF mask
<1>6. CASE UNCHANGED bitVars
  BY <1>1, <1>6 DEF BitInv, bitVars, TestBit
<1>7. QED
  BY <1>2, <1>3, <1>4, <1>5, <1>6 DEF BitNext, AllFlags

\* Single calls, group calls and masks agree on every flag, for words of any
\* width and any number of flags.
THEOREM BitSetsKeepFlags == BitSpec => []FlagsAreKept
<1>1. BitInit => BitInv
  <2> SUFFICES ASSUME BitInit PROVE BitInv
    OBVIOUS
  <2>1. Cleared \in [AllWords -> SUBSET (0..(BitsPerWord - 1))]
    BY DEF Cleared, AllWords
  <2>2. \A f \in AllFlags : ~TestBit(Cleared, f)
    BY FlagsLieApart DEF TestBit, Cleared, AllWords
  <2>3. QED
    BY <2>1, <2>2 DEF BitInit, BitInv
<1>2. BitInv => FlagsAreKept
  <2> SUFFICES ASSUME BitInv PROVE FlagsAreKept
    OBVIOUS
  <2>1. /\ words \in [AllWords -> SUBSET (0..(BitsPerWord - 1))] /\ flags \subseteq AllFlags
        /\ \A f \in AllFlags : TestBit(words, f) <=> f \in flags
    BY DEF BitInv
  <2>2. ASSUME NEW fs \in SUBSET AllFlags
        PROVE  /\ TestAll(words, fs) <=> fs \subseteq flags
               /\ TestAny(words, fs) <=> ~(fs \subseteq flags)
    BY <2>1 DEF TestAll, TestAny
  <2>3. ASSUME NEW fs \in SUBSET AllFlags
        PROVE  ContainsMask(words, SetMultiple(Cleared, fs)) <=> fs \subseteq flags
    <3> DEFINE mask == SetMultiple(Cleared, fs)
    <3>1. /\ \A f \in AllFlags : TestBit(mask, f) <=> f \in fs
          /\ \A w \in AllWords : \A b \in mask[w] : \E f \in fs : WordIndex(f) = w /\ Bit(f) = b
      BY MaskHolds
    <3> HIDE DEF mask
    <3>2. ASSUME ContainsMask(words, mask) PROVE fs \subseteq flags
      BY <2>1, <3>1, <3>2, FlagsLieApart DEF ContainsMask, TestBit
    <3>3. ASSUME fs \subseteq flags PROVE ContainsMask(words, mask)
      BY <2>1, <3>1, <3>3 DEF ContainsMask, TestBit
    <3>4. QED
      BY <3>2, <3>3 DEF mask
  <2>4. QED
    BY <2>1, <2>2, <2>3 DEF FlagsAreKept, AllFlags
<1>3. QED
  BY <1>1, <1>2, BitInvStep, PTL DEF BitSpec

-----------------------------------------------------------------------------
(* The string counter. *)

CounterSpec ==
  /\ heap = EmptyHeap /\ fault = "none" /\ CounterInit
  /\ [][fault = "none" /\ CounterNext]_counterVars

Heaps == [text : [Cells -> Texts \cup {Free}], counts : UNION {[S -> Int] : S \in SUBSET Cells}]

\* The allocated cells are the counter's keys, each with a text of its own.
HeapOK(h) ==
  /\ h \in Heaps
  /\ DOMAIN h.counts = {c \in Cells : h.text[c] # Free}
  /\ \A c, d \in DOMAIN h.counts : h.text[c] = h.text[d] => c = d

\* What the count of a text is while its client holds o references to it, of
\* which the last was the pointer p, on top of the b it has put.  A negative b
\* brings the count to one before its time: the string goes and comes anew, and
\* its count stays below the references.
Account(h, t, o, b, p) ==
  /\ o = 0 => /\ \A c \in NodeFor(h, t) : h.counts[c] = b
              /\ NodeFor(h, t) = {} => b = 0
  /\ o > 0 /\ b >= 0 => NodeFor(h, t) = {p} /\ h.counts[p] = b + o
  /\ o > 0 /\ b < 0 =>
       \A c \in NodeFor(h, t) : h.counts[c] = b + o \/ (1 <= h.counts[c] /\ h.counts[c] < o)

CounterInv ==
  /\ HeapOK(heap)
  /\ owed \in [Texts -> Nat] /\ base \in [Texts -> Int] /\ DOMAIN pointer = Texts
  /\ pointer = [t \in Texts |-> pointer[t]]
  /\ \A t \in Texts : Account(heap, t, owed[t], base[t], pointer[t])

\* The heaps g after t got a cell, after its count was set, after it went.
Added(h, t, c, n) ==
  [text |-> [h.text EXCEPT ![c] = t],
   counts |-> [d \in DOMAIN h.counts \cup {c} |-> IF d = c THEN n ELSE h.counts[d]]]
Counted(h, c, n) == [text |-> h.text, counts |-> [h.counts EXCEPT ![c] = n]]
Removed(h, c) ==
  [text |-> [h.text EXCEPT ![c] = Free], counts |-> [d \in DOMAIN h.counts \ {c} |-> h.counts[d]]]

\* Two heaps say the same of a text.
Agree(h, g, t) ==
  NodeFor(g, t) = NodeFor(h, t) /\ \A c \in NodeFor(h, t) : g.counts[c] = h.counts[c]

LEMMA AgreeingAccounts ==
  ASSUME NEW h, NEW g, NEW t, NEW o, NEW b, NEW p, Agree(h, g, t), Account(h, t, o, b, p)
  PROVE  Account(g, t, o, b, p)
  BY DEF Agree, Account

LEMMA HeapFacts ==
  ASSUME NEW h, HeapOK(h)
  PROVE  /\ h = [text |-> h.text, counts |-> h.counts]
         /\ h.text \in [Cells -> Texts \cup {Free}]
         /\ DOMAIN h.counts \subseteq Cells
         /\ h.counts \in [DOMAIN h.counts -> Int]
         /\ DOMAIN h.counts = {c \in Cells : h.text[c] # Free}
         /\ \A t \in Texts : \A c \in NodeFor(h, t) : NodeFor(h, t) = {c} /\ The(NodeFor(h, t)) = c
<1>1. /\ h = [text |-> h.text, counts |-> h.counts]
      /\ h.text \in [Cells -> Texts \cup {Free}]
      /\ DOMAIN h.counts = {c \in Cells : h.text[c] # Free}
  BY DEF HeapOK, Heaps
<1>2. PICK S \in SUBSET Cells : h.counts \in [S -> Int]
  BY DEF HeapOK, Heaps
<1>3. ASSUME NEW t \in Texts, NEW c \in NodeFor(h, t)
      PROVE  NodeFor(h, t) = {c} /\ The(NodeFor(h, t)) = c
  <2>1. NodeFor(h, t) = {c}
    BY <1>3 DEF HeapOK, NodeFor
  <2>2. QED
    BY <2>1 DEF The
<1>4. QED
  BY <1>1, <1>2, <1>3

LEMMA AddedTells ==
  ASSUME NEW h, HeapOK(h), NEW t \in Texts, NodeFor(h, t) = {},
         NEW c \in Cells, h.text[c] = Free, NEW n \in Int
  PROVE  /\ HeapOK(Added(h, t, c, n))
         /\ NodeFor(Added(h, t, c, n), t) = {c} /\ Added(h, t, c, n).counts[c] = n
         /\ \A u \in Texts \ {t} : Agree(h, Added(h, t, c, n), u)
<1> DEFINE g == Added(h, t, c, n)
<1>1. /\ h.text \in [Cells -> Texts \cup {Free}] /\ h.counts \in [DOMAIN h.counts -> Int]
      /\ DOMAIN h.counts = {d \in Cells : h.text[d] # Free}
      /\ \A d, e \in DOMAIN h.counts : h.text[d] = h.text[e] => d = e
      /\ t # Free
  BY HeapFacts, StringCounterAssumption DEF HeapOK
<1>2. /\ g = [text |-> g.text, counts |-> g.counts]
      /\ g.text \in [Cells -> Texts \cup {Free}]
      /\ \A d \in Cells : g.text[d] = IF d = c THEN t ELSE h.text[d]
      /\ DOMAIN g.counts = DOMAIN h.counts \cup {c}
      /\ g.counts \in [DOMAIN h.counts \cup {c} -> Int]
      /\ \A d \in DOMAIN h.counts \cup {c} : g.counts[d] = IF d = c THEN n ELSE h.counts[d]
  BY <1>1 DEF Added
<1> HIDE DEF g
<1>3. g \in Heaps
  BY <1>1, <1>2 DEF Heaps
<1>4. DOMAIN g.counts = {d \in Cells : g.text[d] # Free}
  BY <1>1, <1>2
<1>5. \A d \in DOMAIN h.counts : h.text[d] # t
  BY DEF NodeFor
<1>6. \A d, e \in DOMAIN g.counts : g.text[d] = g.text[e] => d = e
  BY <1>1, <1>2, <1>5
<1>7. NodeFor(g, t) = {c} /\ g.counts[c] = n
  BY <1>1, <1>2, <1>5 DEF NodeFor
<1>8. \A u \in Texts \ {t} : Agree(h, g, u)
  BY <1>1, <1>2 DEF Agree, NodeFor
<1>9. QED
  BY <1>3, <1>4, <1>6, <1>7, <1>8 DEF HeapOK, g

LEMMA CountedTells ==
  ASSUME NEW h, HeapOK(h), NEW t \in Texts, NEW c \in NodeFor(h, t), NEW n \in Int
  PROVE  /\ HeapOK(Counted(h, c, n))
         /\ NodeFor(Counted(h, c, n), t) = {c} /\ Counted(h, c, n).counts[c] = n
         /\ \A u \in Texts \ {t} : Agree(h, Counted(h, c, n), u)
<1> DEFINE g == Counted(h, c, n)
<1>1. /\ h.text \in [Cells -> Texts \cup {Free}] /\ h.counts \in [DOMAIN h.counts -> Int]
      /\ DOMAIN h.counts = {d \in Cells : h.text[d] # Free}
      /\ \A d, e \in DOMAIN h.counts : h.text[d] = h.text[e] => d = e
      /\ NodeFor(h, t) = {c}
  BY HeapFacts DEF HeapOK
<1>2. /\ g = [text |-> h.text, counts |-> g.counts] /\ g.text = h.text
      /\ DOMAIN g.counts = DOMAIN h.counts /\ g.counts \in [DOMAIN h.counts -> Int]
      /\ \A d \in DOMAIN h.counts : g.counts[d] = IF d = c THEN n ELSE h.counts[d]
      /\ c \in DOMAIN h.counts /\ h.text[c] = t
  BY <1>1 DEF Counted, NodeFor
<1> HIDE DEF g
<1>3. g \in Heaps
  BY <1>1, <1>2 DEF Heaps
<1>4. \A u : NodeFor(g, u) = NodeFor(h, u)
  BY <1>2 DEF NodeFor
<1>5. g.counts[c] = n
  BY <1>2
<1>6. \A u \in Texts \ {t} : Agree(h, g, u)
  BY <1>2, <1>4 DEF Agree, NodeFor
<1>7. QED
  BY <1>1, <1>2, <1>3, <1>4, <1>5, <1>6 DEF HeapOK, g

LEMMA RemovedTells ==
  ASSUME NEW h, HeapOK(h), NEW t \in Texts, NEW c \in NodeFor(h, t)
  PROVE  /\ HeapOK(Removed(h, c))
         /\ NodeFor(Removed(h, c), t) = {}
         /\ \A u \in Texts \ {t} : Agree(h, Removed(h, c), u)
<1> DEFINE g == Removed(h, c)
<1>1. /\ h.text \in [Cells -> Texts \cup {Free}] /\ h.counts \in [DOMAIN h.counts -> Int]
      /\ DOMAIN h.counts = {d \in Cells : h.text[d] # Free}
      /\ \A d, e \in DOMAIN h.counts : h.text[d] = h.text[e] => d = e
      /\ NodeFor(h, t) = {c}
  BY HeapFacts DEF HeapOK
<1>2. /\ g = [text |-> g.text, counts |-> g.counts] /\ g.text \in [Cells -> Texts \cup {Free}]
      /\ \A d \in Cells : g.text[d] = IF d = c THEN Free ELSE h.text[d]
      /\ DOMAIN g.counts = DOMAIN h.counts \ {c} /\ g.counts \in [DOMAIN h.counts \ {c} -> Int]
      /\ \A d \in DOMAIN h.counts \ {c} : g.counts[d] = h.counts[d]
      /\ c \in DOMAIN h.counts /\ h.text[c] = t
  BY <1>1 DEF Removed, NodeFor
<1> HIDE DEF g
<1>3. g \in Heaps
  BY <1>1, <1>2 DEF Heaps
<1>4. NodeFor(g, t) = {}
  BY <1>1, <1>2 DEF NodeFor
<1>5. \A u \in Texts \ {t} : Agree(h, g, u)
  BY <1>1, <1>2 DEF Agree, NodeFor
<1>6. DOMAIN g.counts = {d \in Cells : g.text[d] # Free}
  BY <1>1, <1>2
<1>7. QED
  BY <1>1, <1>2, <1>3, <1>4, <1>5, <1>6 DEF HeapOK, g

\* What each operation of the counter makes of the heap.
LEMMA PutNewOutcomes ==
  ASSUME NEW h, HeapOK(h), NEW t \in Texts, NEW n \in Int, NEW o \in PutNew(h, t, n)
  PROVE  \/ o.heap = h /\ o.pointer = Null
         \/ \E c \in Cells : h.text[c] = Free /\ o.pointer = c /\ o.heap = Added(h, t, c, n)
<1>1. CASE o = Fine(h, Null)
  BY <1>1 DEF Fine, Outcome
<1>2. ASSUME NEW dup \in StrDup(h, t),
             o = IF dup.fault # "none" THEN dup
                 ELSE [dup EXCEPT !.heap.counts = [c \in DOMAIN @ \cup {dup.pointer} |->
                                                     IF c = dup.pointer THEN n ELSE @[c]]]
      PROVE  \/ o.heap = h /\ o.pointer = Null
             \/ \E c \in Cells : h.text[c] = Free /\ o.pointer = c /\ o.heap = Added(h, t, c, n)
  <2>1. CASE dup = Outcome(h, Null, "null")
    BY <1>2, <2>1 DEF Outcome
  <2>2. CASE FreeCells(h) # {} /\ dup = Fine([h EXCEPT !.text[NewCell(h)] = t], NewCell(h))
    <3>1. NewCell(h) \in Cells /\ h.text[NewCell(h)] = Free
      <4>1. NewCell(h) \in FreeCells(h)
        BY <2>2 DEF NewCell, The
      <4>2. QED
        BY <4>1 DEF FreeCells
    <3> DEFINE c == NewCell(h)
               g == [text |-> [h.text EXCEPT ![c] = t], counts |-> h.counts]
    <3>2. [h EXCEPT !.text[c] = t] = g
      BY HeapFacts
    <3>3. dup = [heap |-> g, pointer |-> c, fault |-> "none"]
      BY <2>2, <3>2 DEF Fine, Outcome
    <3> HIDE DEF c
    <3>4. o = [dup EXCEPT !.heap.counts = [d \in DOMAIN g.counts \cup {c} |->
                                             IF d = c THEN n ELSE g.counts[d]]]
      BY <1>2, <3>3
    <3>5. o.pointer = c /\ o.heap = Added(h, t, c, n)
      BY <3>3, <3>4 DEF Added
    <3>6. QED
      BY <3>1, <3>5 DEF c
  <2>3. QED
    BY <2>1, <2>2 DEF StrDup
<1>3. QED
  BY <1>1, <1>2 DEF PutNew

LEMMA RefOutcomes ==
  ASSUME NEW h, HeapOK(h), NEW t \in Texts, NEW o \in Ref(h, t)
  PROVE  \/ NodeFor(h, t) = {} /\ o.heap = h /\ o.pointer = Null
         \/ /\ NodeFor(h, t) = {}
            /\ \E c \in Cells : h.text[c] = Free /\ o.pointer = c /\ o.heap = Added(h, t, c, 1)
         \/ \E c \in NodeFor(h, t) : o.pointer = c /\ o.heap = Counted(h, c, h.counts[c] + 1)
<1>1. CASE NodeFor(h, t) = {}
  <2>1. o \in PutNew(h, t, 1)
    BY <1>1 DEF Ref
  <2>2. QED
    BY <1>1, <2>1, PutNewOutcomes
<1>2. ASSUME NEW c \in NodeFor(h, t)
      PROVE  o.pointer = c /\ o.heap = Counted(h, c, h.counts[c] + 1)
  <2>1. The(NodeFor(h, t)) = c /\ h = [text |-> h.text, counts |-> h.counts]
    BY HeapFacts
  <2>2. o = Fine([h EXCEPT !.counts[c] = @ + 1], c)
    BY <2>1 DEF Ref
  <2>3. [h EXCEPT !.counts[c] = @ + 1] = Counted(h, c, h.counts[c] + 1)
    BY <2>1 DEF Counted
  <2>4. QED
    BY <2>2, <2>3 DEF Fine, Outcome
<1>3. QED
  BY <1>1, <1>2

LEMMA PutOutcomes ==
  ASSUME NEW h, HeapOK(h), NEW t \in Texts, NEW n \in Int, NEW o \in CounterPut(h, t, n)
  PROVE  \/ NodeFor(h, t) = {} /\ o.heap = h
         \/ /\ NodeFor(h, t) = {}
            /\ \E c \in Cells : h.text[c] = Free /\ o.heap = Added(h, t, c, n)
         \/ \E c \in NodeFor(h, t) : o.heap = Counted(h, c, n)
<1>1. CASE NodeFor(h, t) = {}
  <2>1. o \in PutNew(h, t, n)
    BY <1>1 DEF CounterPut
  <2>2. QED
    BY <1>1, <2>1, PutNewOutcomes
<1>2. ASSUME NEW c \in NodeFor(h, t)
      PROVE  o.heap = Counted(h, c, n)
  <2>1. The(NodeFor(h, t)) = c /\ h = [text |-> h.text, counts |-> h.counts]
    BY HeapFacts
  <2>2. o = Fine([h EXCEPT !.counts[c] = n], Null)
    BY <2>1 DEF CounterPut
  <2>3. [h EXCEPT !.counts[c] = n] = Counted(h, c, n)
    BY <2>1 DEF Counted
  <2>4. QED
    BY <2>2, <2>3 DEF Fine, Outcome
<1>3. QED
  BY <1>1, <1>2

LEMMA RemoveOutcome ==
  ASSUME NEW h, HeapOK(h), NEW t \in Texts
  PROVE  /\ NodeFor(h, t) = {} => CounterRemove(h, t) = h
         /\ \A c \in NodeFor(h, t) : CounterRemove(h, t) = Removed(h, c)
<1>1. ASSUME NEW c \in NodeFor(h, t)
      PROVE  CounterRemove(h, t) = Removed(h, c)
  <2>1. The(NodeFor(h, t)) = c /\ NodeFor(h, t) = {c} /\ h = [text |-> h.text, counts |-> h.counts]
    BY HeapFacts
  <2> DEFINE counts == Restrict(h.counts, DOMAIN h.counts \ {c})
  <2>2. [h EXCEPT !.counts = Restrict(@, DOMAIN @ \ {c})] = [text |-> h.text, counts |-> counts]
    BY <2>1
  <2>3. counts = [d \in DOMAIN h.counts \ {c} |-> h.counts[d]]
    BY DEF Restrict
  <2>4. CounterRemove(h, t) = Release([text |-> h.text, counts |-> counts], c)
    BY <2>1, <2>2 DEF CounterRemove
  <2> HIDE DEF counts
  <2>5. QED
    BY <2>3, <2>4 DEF Release, Removed
<1>2. QED
  BY <1>1 DEF CounterRemove

LEMMA UnrefOutcome ==
  ASSUME NEW h, HeapOK(h), NEW t \in Texts
  PROVE  /\ NodeFor(h, t) = {} => Unref(h, t) = h
         /\ \A c \in NodeFor(h, t) :
              Unref(h, t) = IF h.counts[c] = 1 THEN Removed(h, c)
                            ELSE Counted(h, c, h.counts[c] - 1)
<1>1. ASSUME NEW c \in NodeFor(h, t)
      PROVE  Unref(h, t) = IF h.counts[c] = 1 THEN Removed(h, c)
                           ELSE Counted(h, c, h.counts[c] - 1)
  <2>1. The(NodeFor(h, t)) = c /\ NodeFor(h, t) # {} /\ h = [text |-> h.text, counts |-> h.counts]
    BY HeapFacts
  <2>2. CASE h.counts[c] = 1
    <3>1. Unref(h, t) = CounterRemove(h, t)
      BY <2>1, <2>2 DEF Unref
    <3>2. QED
      BY <2>2, <3>1, RemoveOutcome
  <2>3. CASE h.counts[c] # 1
    <3>1. Unref(h, t) = [h EXCEPT !.counts[c] = @ - 1]
      BY <2>1, <2>3 DEF Unref
    <3>2. [h EXCEPT !.counts[c] = @ - 1] = Counted(h, c, h.counts[c] - 1)
      BY <2>1 DEF Counted
    <3>3. QED
      BY <2>3, <3>1, <3>2
  <2>4. QED
    BY <2>2, <2>3
<1>2. QED
  BY <1>1 DEF Unref

LEMMA ClearOutcome ==
  ASSUME NEW h, HeapOK(h)
  PROVE  HeapOK(CounterClear(h)) /\ \A t \in Texts : NodeFor(CounterClear(h), t) = {}
<1> DEFINE g == CounterClear(h)
<1>1. g = [text |-> [c \in Cells |-> Free], counts |-> <<>>]
  <2>1. \A c \in Cells : (IF c \in DOMAIN h.counts THEN Free ELSE h.text[c]) = Free
    BY HeapFacts
  <2>2. QED
    BY <2>1 DEF CounterClear
<1>2. DOMAIN <<>> = {} /\ <<>> \in [{} -> Int]
  OBVIOUS
<1> HIDE DEF g
<1>3. g \in Heaps
  BY <1>1, <1>2 DEF Heaps
<1>4. QED
  BY <1>1, <1>2, <1>3 DEF HeapOK, NodeFor, g

LEMMA NextCounterInv ==
  CounterInv' <=>
    /\ HeapOK(heap')
    /\ owed' \in [Texts -> Nat] /\ base' \in [Texts -> Int] /\ DOMAIN pointer' = Texts
    /\ pointer' = [t \in Texts |-> pointer'[t]]
    /\ \A t \in Texts : Account(heap', t, owed'[t], base'[t], pointer'[t])
  BY DEF CounterInv, HeapOK, Heaps, Account, NodeFor

\* A step that concerns one text leaves the accounts of the others.
LEMMA StepOfOneText ==
  ASSUME CounterInv, NEW t \in Texts, NEW o \in Nat, NEW b \in Int, NEW p,
         HeapOK(heap'), \A u \in Texts \ {t} : Agree(heap, heap', u),
         owed' = [owed EXCEPT ![t] = o], base' = [base EXCEPT ![t] = b],
         pointer' = [pointer EXCEPT ![t] = p],
         Account(heap', t, o, b, p)
  PROVE  CounterInv'
<1>1. /\ owed \in [Texts -> Nat] /\ base \in [Texts -> Int]
      /\ DOMAIN pointer = Texts /\ pointer = [u \in Texts |-> pointer[u]]
      /\ \A u \in Texts : Account(heap, u, owed[u], base[u], pointer[u])
  BY DEF CounterInv
<1>2. /\ owed' \in [Texts -> Nat] /\ base' \in [Texts -> Int] /\ DOMAIN pointer' = Texts
      /\ pointer' = [u \in Texts |-> pointer'[u]]
  BY <1>1
<1>3. ASSUME NEW u \in Texts
      PROVE  Account(heap', u, owed'[u], base'[u], pointer'[u])
  <2>1. CASE u = t
    BY <1>1, <2>1
  <2>2. CASE u # t
    <3>1. owed'[u] = owed[u] /\ base'[u] = base[u] /\ pointer'[u] = pointer[u]
      BY <1>1, <2>2
    <3>2. Agree(heap, heap', u) /\ Account(heap, u, owed[u], base[u], pointer[u])
      BY <1>1, <2>2
    <3>3. QED
      BY <3>1, <3>2, AgreeingAccounts
  <2>3. QED
    BY <2>1, <2>2
<1>4. QED
  BY <1>2, <1>3, NextCounterInv

LEMMA StepToNothing ==
  ASSUME CounterInv, NEW t \in Texts, NEW p,
         HeapOK(heap'), NodeFor(heap', t) = {}, \A u \in Texts \ {t} : Agree(heap, heap', u),
         owed' = [owed EXCEPT ![t] = 0], base' = [base EXCEPT ![t] = 0],
         pointer' = [pointer EXCEPT ![t] = p]
  PROVE  CounterInv'
<1>1. PICK z \in Nat : z = 0
  OBVIOUS
<1>2. z \in Int /\ owed' = [owed EXCEPT ![t] = z] /\ base' = [base EXCEPT ![t] = z]
  BY <1>1
<1>3. Account(heap', t, z, z, p)
  BY <1>1 DEF Account
<1> HIDE <1>1
<1>4. QED
  BY <1>2, <1>3, StepOfOneText

LEMMA Unmoved ==
  ASSUME CounterInv, NEW t \in Texts
  PROVE  /\ owed = [owed EXCEPT ![t] = owed[t]] /\ base = [base EXCEPT ![t] = base[t]]
         /\ pointer = [pointer EXCEPT ![t] = pointer[t]]
         /\ owed[t] \in Nat /\ base[t] \in Int
         /\ HeapOK(heap) /\ (\A u \in Texts : Agree(heap, heap, u))
         /\ Account(heap, t, owed[t], base[t], pointer[t])
  BY DEF CounterInv, Agree

\* The counts of a text's cell are numbers.
LEMMA CountIsNumber ==
  ASSUME NEW h, HeapOK(h), NEW t \in Texts, NEW c \in NodeFor(h, t)
  PROVE  h.counts[c] \in Int /\ NodeFor(h, t) = {c} /\ c \in Cells
  BY HeapFacts DEF NodeFor

LEMMA ClientRefKeeps ==
  ASSUME CounterInv, NEW t \in Texts, ClientRef(t)
  PROVE  CounterInv'
<1>1. PICK o \in Ref(heap, t) :
        /\ heap' = o.heap /\ base' = base
        /\ owed' = IF o.pointer = Null THEN owed ELSE [owed EXCEPT ![t] = @ + 1]
        /\ pointer' = IF o.pointer = Null THEN pointer ELSE [pointer EXCEPT ![t] = o.pointer]
  BY DEF ClientRef, Settles
<1> DEFINE n == owed[t]
           b == base[t]
<1>2. /\ n \in Nat /\ b \in Int /\ n + 1 \in Nat /\ HeapOK(heap)
      /\ Account(heap, t, n, b, pointer[t])
      /\ base' = [base EXCEPT ![t] = b] /\ [owed EXCEPT ![t] = @ + 1] = [owed EXCEPT ![t] = n + 1]
  BY <1>1, Unmoved
<1> HIDE DEF n, b
<1>3. CASE o.heap = heap /\ o.pointer = Null
  <2>1. heap' = heap /\ owed' = owed /\ pointer' = pointer
    BY <1>1, <1>3
  <2>2. QED
    BY <1>1, <2>1, NextCounterInv DEF CounterInv
<1>4. ASSUME NEW c \in Cells, NodeFor(heap, t) = {}, heap.text[c] = Free, o.pointer = c,
             o.heap = Added(heap, t, c, 1)
      PROVE  CounterInv'
  <2>1. /\ owed' = [owed EXCEPT ![t] = n + 1] /\ pointer' = [pointer EXCEPT ![t] = c]
        /\ heap' = Added(heap, t, c, 1)
    BY <1>1, <1>2, <1>4, StringCounterAssumption
  <2>2. /\ HeapOK(heap') /\ NodeFor(heap', t) = {c} /\ heap'.counts[c] = 1
        /\ \A u \in Texts \ {t} : Agree(heap, heap', u)
    BY <1>2, <1>4, <2>1, AddedTells
  <2>3. n = 0 => b = 0
    BY <1>2, <1>4 DEF Account
  <2>4. ~(n > 0 /\ b >= 0)
    BY <1>2, <1>4 DEF Account
  <2>5. Account(heap', t, n + 1, b, c)
    BY <1>2, <2>2, <2>3, <2>4 DEF Account
  <2>6. QED
    BY <1>2, <2>1, <2>2, <2>5, StepOfOneText
<1>5. ASSUME NEW c \in NodeFor(heap, t), o.pointer = c,
             o.heap = Counted(heap, c, heap.counts[c] + 1)
      PROVE  CounterInv'
  <2>1. heap.counts[c] \in Int /\ NodeFor(heap, t) = {c} /\ c \in Cells /\ heap.counts[c] + 1 \in Int
    BY <1>2, CountIsNumber
  <2>2. /\ owed' = [owed EXCEPT ![t] = n + 1] /\ pointer' = [pointer EXCEPT ![t] = c]
        /\ heap' = Counted(heap, c, heap.counts[c] + 1)
    BY <1>1, <1>2, <1>5, <2>1, StringCounterAssumption
  <2>3. /\ HeapOK(heap') /\ NodeFor(heap', t) = {c} /\ heap'.counts[c] = heap.counts[c] + 1
        /\ \A u \in Texts \ {t} : Agree(heap, heap', u)
    BY <1>2, <2>1, <2>2, CountedTells
  <2>4. n = 0 => heap.counts[c] = b
    BY <1>2, <2>1 DEF Account
  <2>5. n > 0 /\ b >= 0 => heap.counts[c] = b + n
    BY <1>2, <2>1 DEF Account
  <2>6. n > 0 /\ b < 0 => heap.counts[c] = b + n \/ (1 <= heap.counts[c] /\ heap.counts[c] < n)
    BY <1>2, <2>1 DEF Account
  <2>7. Account(heap', t, n + 1, b, c)
    BY <1>2, <2>1, <2>3, <2>4, <2>5, <2>6 DEF Account
  <2>8. QED
    BY <1>2, <2>2, <2>3, <2>7, StepOfOneText
<1>6. QED
  BY <1>2, <1>3, <1>4, <1>5, RefOutcomes

LEMMA ClientUnrefKeeps ==
  ASSUME CounterInv, NEW t \in Texts, ClientUnref(t)
  PROVE  CounterInv'
<1> DEFINE n == owed[t]
           b == base[t]
           p == pointer[t]
<1>1. /\ n > 0 /\ heap' = Unref(heap, t) /\ owed' = [owed EXCEPT ![t] = n - 1]
      /\ base' = IF n = 1 /\ NodeFor(heap', t) = {} THEN [base EXCEPT ![t] = 0] ELSE base
      /\ pointer' = [pointer EXCEPT ![t] = p]
  BY Unmoved DEF ClientUnref
<1>2. /\ n \in Nat /\ b \in Int /\ HeapOK(heap) /\ Account(heap, t, n, b, p)
      /\ base = [base EXCEPT ![t] = b] /\ \A u \in Texts \ {t} : Agree(heap, heap, u)
  BY Unmoved
<1> HIDE DEF n, b, p
<1>3. n - 1 \in Nat
  BY <1>1, <1>2
<1>4. CASE NodeFor(heap, t) = {}
  <2>1. heap' = heap
    BY <1>1, <1>2, <1>4, UnrefOutcome
  <2>2. b < 0
    BY <1>1, <1>2, <1>4 DEF Account
  <2>3. CASE n = 1
    <3>1. base' = [base EXCEPT ![t] = 0] /\ owed' = [owed EXCEPT ![t] = 0]
      BY <1>1, <1>4, <2>1, <2>3
    <3>2. QED
      BY <1>1, <1>2, <1>4, <2>1, <3>1, StepToNothing
  <2>4. CASE n # 1
    <3>1. base' = [base EXCEPT ![t] = b]
      BY <1>1, <1>2, <2>4
    <3>2. n - 1 > 0
      BY <1>1, <1>2, <2>4
    <3>3. Account(heap', t, n - 1, b, p)
      BY <1>2, <1>3, <1>4, <2>1, <2>2, <3>2 DEF Account
    <3>4. QED
      BY <1>1, <1>2, <1>3, <2>1, <3>1, <3>3, StepOfOneText
  <2>5. QED
    BY <2>3, <2>4
<1>5. ASSUME NEW c \in NodeFor(heap, t)
      PROVE  CounterInv'
  <2>1. heap.counts[c] \in Int /\ NodeFor(heap, t) = {c} /\ c \in Cells /\ heap.counts[c] - 1 \in Int
    BY <1>2, CountIsNumber
  <2>2. b >= 0 => heap.counts[c] = b + n /\ p = c
    BY <1>1, <1>2, <2>1 DEF Account
  <2>3. b < 0 => heap.counts[c] = b + n \/ (1 <= heap.counts[c] /\ heap.counts[c] < n)
    BY <1>1, <1>2, <2>1 DEF Account
  <2>4. CASE heap.counts[c] = 1
    <3>1. heap' = Removed(heap, c)
      BY <1>1, <1>2, <2>4, UnrefOutcome
    <3>2. /\ HeapOK(heap') /\ NodeFor(heap', t) = {}
          /\ \A u \in Texts \ {t} : Agree(heap, heap', u)
      BY <1>2, <3>1, RemovedTells
    <3>3. CASE n = 1
      <4>1. base' = [base EXCEPT ![t] = 0] /\ owed' = [owed EXCEPT ![t] = 0]
        BY <1>1, <3>2, <3>3
      <4>2. QED
        BY <1>1, <3>2, <4>1, StepToNothing
    <3>4. CASE n # 1
      <4>1. base' = [base EXCEPT ![t] = b]
        BY <1>1, <1>2, <3>4
      <4>2. n - 1 > 0 /\ b < 0
        BY <1>1, <1>2, <2>2, <2>4, <3>4
      <4>3. Account(heap', t, n - 1, b, p)
        BY <1>2, <1>3, <3>2, <4>2 DEF Account
      <4>4. QED
        BY <1>1, <1>2, <1>3, <3>2, <4>1, <4>3, StepOfOneText
    <3>5. QED
      BY <3>3, <3>4
  <2>5. CASE heap.counts[c] # 1
    <3>1. heap' = Counted(heap, c, heap.counts[c] - 1)
      BY <1>1, <1>2, <2>5, UnrefOutcome
    <3>2. /\ HeapOK(heap') /\ NodeFor(heap', t) = {c} /\ heap'.counts[c] = heap.counts[c] - 1
          /\ \A u \in Texts \ {t} : Agree(heap, heap', u)
      BY <1>2, <2>1, <3>1, CountedTells
    <3>3. base' = [base EXCEPT ![t] = b]
      BY <1>1, <1>2, <3>2
    <3>4. n - 1 = 0 => heap'.counts[c] = b
      BY <1>2, <2>1, <2>2, <2>3, <2>5, <3>2
    <3>5. b >= 0 => heap'.counts[c] = b + (n - 1) /\ p = c
      BY <1>2, <2>1, <2>2, <3>2
    <3>6. b < 0 => heap'.counts[c] = b + (n - 1) \/ (1 <= heap'.counts[c] /\ heap'.counts[c] < n - 1)
      BY <1>2, <2>1, <2>3, <2>5, <3>2
    <3>7. Account(heap', t, n - 1, b, p)
      BY <1>2, <1>3, <3>2, <3>4, <3>5, <3>6 DEF Account
    <3>8. QED
      BY <1>1, <1>2, <1>3, <3>2, <3>3, <3>7, StepOfOneText
  <2>6. QED
    BY <2>4, <2>5
<1>6. QED
  BY <1>4, <1>5

LEMMA ClientPutKeeps ==
  ASSUME CounterInv, NEW t \in Texts, NEW n \in Counts, ClientPut(t, n)
  PROVE  CounterInv'
<1>1. PICK o \in CounterPut(heap, t, n) :
        /\ heap' = o.heap
        /\ base' = [base EXCEPT ![t] = IF NodeFor(o.heap, t) = {} THEN 0 ELSE n]
  BY DEF ClientPut, Settles
<1>2. /\ owed[t] = 0 /\ n \in Int /\ HeapOK(heap) /\ \A u \in Texts \ {t} : Agree(heap, heap, u)
      /\ owed' = [owed EXCEPT ![t] = 0] /\ pointer' = [pointer EXCEPT ![t] = pointer[t]]
  BY Unmoved, CounterClientAssumption DEF ClientPut
<1>3. CASE o.heap = heap /\ NodeFor(heap, t) = {}
  BY <1>1, <1>2, <1>3, StepToNothing
<1>4. ASSUME NEW c, HeapOK(heap'), NodeFor(heap', t) = {c}, heap'.counts[c] = n,
             \A u \in Texts \ {t} : Agree(heap, heap', u)
      PROVE  CounterInv'
  <2>1. base' = [base EXCEPT ![t] = n]
    BY <1>1, <1>4
  <2>2. PICK z \in Nat : z = 0
    OBVIOUS
  <2>3. Account(heap', t, z, n, pointer[t]) /\ owed' = [owed EXCEPT ![t] = z]
    BY <1>2, <1>4, <2>2 DEF Account
  <2> HIDE <2>2
  <2>4. QED
    BY <1>2, <1>4, <2>1, <2>3, StepOfOneText
<1>5. ASSUME NEW c \in Cells, NodeFor(heap, t) = {}, heap.text[c] = Free, o.heap = Added(heap, t, c, n)
      PROVE  CounterInv'
  BY <1>1, <1>2, <1>4, <1>5, AddedTells
<1>6. ASSUME NEW c \in NodeFor(heap, t), o.heap = Counted(heap, c, n)
      PROVE  CounterInv'
  BY <1>1, <1>2, <1>4, <1>6, CountedTells
<1>7. QED
  BY <1>2, <1>3, <1>5, <1>6, PutOutcomes

LEMMA ClientRemoveKeeps ==
  ASSUME CounterInv, NEW t \in Texts, ClientRemove(t)
  PROVE  CounterInv'
<1>1. /\ HeapOK(heap) /\ heap' = CounterRemove(heap, t) /\ \A u \in Texts \ {t} : Agree(heap, heap, u)
      /\ owed' = [owed EXCEPT ![t] = 0] /\ pointer' = [pointer EXCEPT ![t] = pointer[t]]
      /\ base' = [base EXCEPT ![t] = 0]
  BY Unmoved DEF ClientRemove
<1>2. HeapOK(heap') /\ NodeFor(heap', t) = {} /\ \A u \in Texts \ {t} : Agree(heap, heap', u)
  BY <1>1, RemoveOutcome, RemovedTells
<1>3. QED
  BY <1>1, <1>2, StepToNothing

LEMMA CounterBegins == heap = EmptyHeap /\ CounterInit => CounterInv
<1> SUFFICES ASSUME heap = EmptyHeap, CounterInit PROVE CounterInv
  OBVIOUS
<1>1. heap.text = [c \in Cells |-> Free] /\ heap.counts = <<>>
      /\ heap = [text |-> heap.text, counts |-> heap.counts]
  BY DEF EmptyHeap
<1>2. DOMAIN <<>> = {} /\ <<>> \in [{} -> Int]
  OBVIOUS
<1>3. HeapOK(heap)
  BY <1>1, <1>2 DEF HeapOK, Heaps
<1>4. \A t \in Texts : NodeFor(heap, t) = {}
  BY <1>1, <1>2 DEF NodeFor
<1>5. \A t \in Texts : Account(heap, t, owed[t], base[t], pointer[t])
  BY <1>4 DEF CounterInit, Account
<1>6. QED
  BY <1>3, <1>5 DEF CounterInv, CounterInit

LEMMA CounterStep == CounterInv /\ [fault = "none" /\ CounterNext]_counterVars => CounterInv'
<1> SUFFICES ASSUME CounterInv, [fault = "none" /\ CounterNext]_counterVars PROVE CounterInv'
  OBVIOUS
<1>1. CASE ClientClear
  <2>1. /\ HeapOK(heap) /\ heap' = CounterClear(heap) /\ base' = [t \in Texts |-> 0]
        /\ owed' = owed /\ pointer' = pointer /\ \A t \in Texts : owed[t] = 0
    BY <1>1 DEF ClientClear, CounterInv
  <2>2. HeapOK(heap') /\ \A t \in Texts : NodeFor(heap', t) = {}
    BY <2>1, ClearOutcome
  <2>3. \A t \in Texts : Account(heap', t, owed'[t], base'[t], pointer'[t])
    BY <2>1, <2>2 DEF Account
  <2>4. QED
    BY <2>1, <2>2, <2>3, NextCounterInv DEF CounterInv
<1>2. CASE UNCHANGED counterVars
  BY <1>2, NextCounterInv DEF counterVars, CounterInv
<1>3. QED
  BY <1>1, <1>2, ClientRefKeeps, ClientUnrefKeeps, ClientPutKeeps, ClientRemoveKeeps DEF CounterNext

LEMMA CounterInvariance == CounterSpec => []CounterInv
  BY CounterBegins, CounterStep, PTL DEF CounterSpec

\* As long as the client of a StringCounter holds references to a text, on top
\* of a number that is not negative, sct_ref's pointer leads to the text and its
\* count is the number of references, for any numbers of texts and of cells.
THEOREM ReferencesAreHeld == CounterSpec => []ReferencesHold
<1>1. CounterInv => ReferencesHold
  <2> SUFFICES ASSUME CounterInv, NEW t \in Texts, owed[t] > 0, base[t] >= 0
               PROVE  NodeFor(heap, t) = {pointer[t]} /\ GetCount(heap, t) = base[t] + owed[t]
    BY DEF ReferencesHold
  <2>1. NodeFor(heap, t) = {pointer[t]} /\ heap.counts[pointer[t]] = base[t] + owed[t]
    BY DEF CounterInv, Account
  <2>2. The(NodeFor(heap, t)) = pointer[t] /\ NodeFor(heap, t) # {}
    BY <2>1 DEF The
  <2>3. QED
    BY <2>1, <2>2 DEF GetCount
<1>2. QED
  BY <1>1, CounterInvariance, PTL

-----------------------------------------------------------------------------
(* The vector. *)

VecSpec == VecInit /\ [][VecNext]_vec

Stored == Items \cup {Junk}

Vectors == [v : Seq(Stored), length : Nat, capacity : Nat]

VecOK(x) ==
  /\ x \in Vectors
  /\ Len(x.v) = x.capacity /\ x.length <= x.capacity
  /\ \A i \in 1..x.length : x.v[i] \in Items

\* What the client sees of a vector.
Seen(x) == Elements(x.v, 0, x.length)

VecInv == vec # NoVector => VecOK(vec)

\* The elements below length, in their order.
LEMMA SeenIs ==
  ASSUME NEW x, VecOK(x)
  PROVE  Seen(x) \in Seq(Items) /\ Len(Seen(x)) = x.length /\ \A i \in 1..x.length : Seen(x)[i] = x.v[i]
<1>1. x.length \in Nat /\ x.capacity \in Nat /\ Len(x.v) = x.capacity /\ x.length <= x.capacity
  BY DEF VecOK, Vectors
<1>2. Seen(x) = [j \in 1..x.length |-> At(x.v, 0 + j - 1)]
  BY DEF Seen, Elements
<1>3. ASSUME NEW j \in 1..x.length PROVE At(x.v, 0 + j - 1) = x.v[j]
  <2>1. 0 + j - 1 \in 0..(Len(x.v) - 1) /\ (0 + j - 1) + 1 = j
    BY <1>1
  <2>2. QED
    BY <2>1 DEF At
<1>4. \A j \in 1..x.length : Seen(x)[j] = x.v[j] /\ Seen(x)[j] \in Items
  BY <1>2, <1>3 DEF VecOK
<1> DEFINE n == x.length  t == [j \in 1..n |-> At(x.v, 0 + j - 1)]
<1>5. n \in Nat /\ \A j \in 1..n : t[j] \in Items /\ t[j] = x.v[j]
  BY <1>1, <1>2, <1>4
<1>6. t = [j \in 1..n |-> t[j]]
  OBVIOUS
<1> HIDE DEF t, n
<1>7. t \in Seq(Items) /\ Len(t) = n
  BY <1>5, <1>6
<1>8. QED
  BY <1>2, <1>5, <1>7 DEF t, n

LEMMA SeenOf ==
  ASSUME NEW x, VecOK(x), NEW v, x.v = v, NEW n, x.length = n
  PROVE  Seen(x) \in Seq(Items) /\ Len(Seen(x)) = n /\ \A i \in 1..n : Seen(x)[i] = v[i]
BY SeenIs

-----------------------------------------------------------------------------
(* Growth. *)

LEMMA LeastNumber ==
  ASSUME NEW S \in SUBSET Nat, S # {}
  PROVE  \E n \in S : \A k \in S : n <= k
<1> DEFINE R == OpToRel(<, Nat)
<1>1. IsWellFoundedOn(R, Nat)
  BY NatLessThanWellFounded
<1> HIDE DEF R
<1>2. PICK n \in S : \A k \in S : ~ (<<k, n>> \in R)
  BY <1>1, WFMin
<1>3. \A p \in Nat \X Nat : p[1] < p[2] => p \in R
  BY DEF R, OpToRel
<1>4. ASSUME NEW k \in S
      PROVE  n <= k
  <2>1. <<k, n>> \in Nat \X Nat /\ <<k, n>>[1] = k /\ <<k, n>>[2] = n
    OBVIOUS
  <2>2. ~(k < n)
    BY <1>2, <1>3, <2>1
  <2>3. QED
    BY <2>2
<1>5. QED
  BY <1>4

\* A power is beyond each number up to the bound.
LEMMA PowersReach ==
  ASSUME NEW n \in 0..MaxVector
  PROVE  \E p \in Powers : p >= n
<1>1. Powers \subseteq Nat /\ 2 \in Powers /\ MaxVector \in Nat
  BY VectorAssumption
<1>2. SUFFICES ASSUME \A p \in Powers : p < n PROVE FALSE
  BY <1>1
<1> DEFINE S == {MaxVector - p : p \in Powers}
<1>3. S \subseteq Nat /\ S # {}
  BY <1>1, <1>2
<1>4. PICK m \in S : \A k \in S : m <= k
  <2> HIDE DEF S
  <2>1. QED
    BY <1>3, LeastNumber
<1>5. PICK p \in Powers : m = MaxVector - p
  OBVIOUS
<1>6. p \in Nat /\ p <= MaxVector
  BY <1>1, <1>2
<1>7. 2 * p \in Powers
  BY <1>6, VectorAssumption
<1>8. MaxVector - 2 * p \in S
  BY <1>7
<1>9. 0 < p
  BY <1>6, VectorAssumption
<1>10. MaxVector - p <= MaxVector - 2 * p
  BY <1>4, <1>5, <1>8
<1>11. QED
  BY <1>1, <1>6, <1>9, <1>10

\* Doubling gives as much as is wanted, and more than there was.
LEMMA DoubledIsEnough ==
  ASSUME NEW capacity \in Nat, NEW wanted \in 0..MaxVector
  PROVE  Doubled(capacity, wanted) \in Nat /\ Doubled(capacity, wanted) >= wanted
         /\ Doubled(capacity, wanted) > capacity
<1> DEFINE twice == IF capacity = 0 THEN 1 ELSE capacity * 2
           S == {c \in {twice * p : p \in Powers} : c >= wanted}
<1>1. twice \in Nat /\ twice >= 1 /\ twice >= capacity
  OBVIOUS
<1>2. \A p \in Powers : p \in Nat /\ p > 0
  BY VectorAssumption
<1>3. PICK p \in Powers : p >= wanted
  BY PowersReach
<1>4. twice * p \in S
  <2>1. twice * p >= p
    <3> HIDE DEF twice
    <3>1. p \in Nat
      BY <1>2
    <3>2. QED
      BY <1>1, <3>1
  <2>2. QED
    BY <1>1, <1>2, <1>3, <2>1
<1>5. S \in SUBSET Nat
  BY <1>1, <1>2
<1>6. \E n \in S : \A k \in S : n <= k
  <2> HIDE DEF S
  <2>1. QED
    BY <1>4, <1>5, LeastNumber
<1>7. Doubled(capacity, wanted) = Min(S)
  BY DEF Doubled
<1>8. Min(S) \in S
  <2> HIDE DEF S
  <2>1. QED
    BY <1>6 DEF Min
<1>9. PICK q \in Powers : Min(S) = twice * q /\ Min(S) >= wanted
  BY <1>8
<1>10. q \in Nat /\ q >= 2
  <2>1. q \in Nat /\ q > 0 /\ (q # 2 => q % 2 = 0)
    BY <1>2, VectorAssumption
  <2>2. QED
    BY <2>1
<1>11. twice > 0 /\ 2 * twice > capacity
  OBVIOUS
<1> DEFINE t == twice
<1>12. t \in Nat /\ t > 0 /\ 2 * t > capacity /\ Min(S) = t * q
  BY <1>1, <1>9, <1>11
<1> HIDE DEF t, S
<1>13. t * q \in Nat /\ t * q >= t * 2
  BY <1>10, <1>12
<1>14. QED
  BY <1>7, <1>9, <1>12, <1>13

\* With room for what is wanted, the elements are those that were.
LEMMA EnsuredKeeps ==
  ASSUME VecOK(vec), NEW wanted \in 0..MaxVector
  PROVE  /\ VecOK(Ensured(wanted)) /\ Ensured(wanted).length = vec.length
         /\ Ensured(wanted).capacity >= wanted
         /\ vec.length = wanted => Ensured(wanted).capacity > wanted
         /\ Seen(Ensured(wanted)) = Seen(vec)
<1> DEFINE e == Ensured(wanted)
           n == Doubled(vec.capacity, wanted)
<1>1. /\ vec.v \in Seq(Stored) /\ vec.length \in Nat /\ vec.capacity \in Nat
      /\ Len(vec.v) = vec.capacity /\ vec.length <= vec.capacity
      /\ vec = [v |-> vec.v, length |-> vec.length, capacity |-> vec.capacity]
  BY DEF VecOK, Vectors
<1>2. CASE ~MustGrow(wanted)
  <2>1. e = vec /\ ~(wanted >= vec.capacity)
    BY <1>2 DEF Ensured, MustGrow
  <2>2. QED
    BY <1>1, <2>1
<1>3. CASE MustGrow(wanted)
  <2> DEFINE w == [i \in 1..n |-> At(vec.v, i - 1)]
  <2>1. n \in Nat /\ n >= wanted /\ n > vec.capacity
    BY <1>1, DoubledIsEnough
  <2>2. wanted >= vec.capacity
    BY <1>3 DEF MustGrow
  <2>3. e = [vec EXCEPT !.v = w, !.capacity = n]
    BY <1>3 DEF Ensured
  <2> HIDE DEF n
  <2>4. \A i \in 1..n : w[i] \in Stored
    <3>1. SUFFICES ASSUME NEW i \in 1..n PROVE w[i] \in Stored
      OBVIOUS
    <3>2. CASE i - 1 \in 0..(Len(vec.v) - 1)
      <4>1. i \in 1..Len(vec.v) /\ (i - 1) + 1 = i
        BY <1>1, <2>1, <3>2
      <4>2. w[i] = vec.v[i]
        BY <3>2, <4>1 DEF At
      <4>3. QED
        BY <1>1, <4>1, <4>2
    <3>3. CASE i - 1 \notin 0..(Len(vec.v) - 1)
      BY <3>3 DEF At, Stored
    <3>4. QED
      BY <3>2, <3>3
  <2>5. \A i \in 1..vec.length : w[i] = vec.v[i]
    <3>1. SUFFICES ASSUME NEW i \in 1..vec.length PROVE w[i] = vec.v[i]
      OBVIOUS
    <3>2. i \in 1..n /\ i - 1 \in 0..(Len(vec.v) - 1) /\ (i - 1) + 1 = i
      BY <1>1, <2>1
    <3>3. QED
      BY <3>2 DEF At
  <2>6. w = [i \in 1..n |-> w[i]]
    OBVIOUS
  <2> HIDE DEF w
  <2>7. w \in Seq(Stored) /\ Len(w) = n
    BY <2>1, <2>4, <2>6
  <2>8. e.v = w /\ e.length = vec.length /\ e.capacity = n /\ e \in Vectors
    BY <1>1, <2>1, <2>3, <2>7 DEF Vectors
  <2>9. VecOK(e)
    <3>1. \A i \in 1..vec.length : vec.v[i] \in Items
      BY DEF VecOK
    <3>2. QED
      BY <1>1, <2>1, <2>5, <2>7, <2>8, <3>1 DEF VecOK
  <2> HIDE DEF e
  <2>10. Seen(e) = Seen(vec)
    <3>1. Seen(e) \in Seq(Items) /\ Len(Seen(e)) = vec.length /\ \A i \in 1..vec.length : Seen(e)[i] = w[i]
      BY <2>8, <2>9, SeenIs
    <3>2. Seen(vec) \in Seq(Items) /\ Len(Seen(vec)) = vec.length /\ \A i \in 1..vec.length : Seen(vec)[i] = vec.v[i]
      BY SeenIs
    <3>3. QED
      BY <2>5, <3>1, <3>2, SeqEqual
  <2>11. QED
    BY <1>1, <2>1, <2>2, <2>8, <2>9, <2>10 DEF e
<1>4. QED
  BY <1>2, <1>3

-----------------------------------------------------------------------------
(* What is moved. *)

LEMMA MovedIs ==
  ASSUME NEW v \in Seq(Stored), NEW i \in Nat, NEW src \in Seq(Stored)
  PROVE  /\ Moved(v, i, src) \in Seq(Stored) /\ Len(Moved(v, i, src)) = Len(v)
         /\ \A j \in 1..Len(v) :
              Moved(v, i, src)[j] = IF i < j /\ j <= i + Len(src) THEN src[j - i] ELSE v[j]
<1> DEFINE t == Moved(v, i, src)
<1>1. Len(v) \in Nat /\ Len(src) \in Nat
  OBVIOUS
<1>2. t = [j \in 1..Len(v) |-> IF j - 1 \in i..(i + Len(src) - 1) THEN src[j - i] ELSE v[j]]
  BY DEF Moved
<1>3. ASSUME NEW j \in 1..Len(v)
      PROVE  t[j] \in Stored /\ t[j] = IF i < j /\ j <= i + Len(src) THEN src[j - i] ELSE v[j]
  <2>1. j - 1 \in i..(i + Len(src) - 1) <=> i < j /\ j <= i + Len(src)
    BY <1>1
  <2>2. i < j /\ j <= i + Len(src) => j - i \in 1..Len(src)
    BY <1>1
  <2> HIDE DEF t
  <2>3. t[j] = IF i < j /\ j <= i + Len(src) THEN src[j - i] ELSE v[j]
    BY <1>2, <2>1
  <2>4. QED
    BY <2>2, <2>3
<1> DEFINE n == Len(v)
<1>4. t = [j \in 1..n |-> t[j]] /\ n \in Nat /\ \A j \in 1..n : t[j] \in Stored
  BY <1>1, <1>2, <1>3
<1> HIDE DEF t, n
<1>5. t \in Seq(Stored) /\ Len(t) = n
  BY <1>4
<1>6. QED
  BY <1>3, <1>5 DEF t, n

LEMMA ElementsAre ==
  ASSUME NEW v \in Seq(Stored), NEW first \in Nat, NEW n \in Nat, first + n <= Len(v)
  PROVE  /\ Elements(v, first, n) \in Seq(Stored) /\ Len(Elements(v, first, n)) = n
         /\ \A j \in 1..n : Elements(v, first, n)[j] = v[first + j]
<1> DEFINE t == Elements(v, first, n)
<1>1. Len(v) \in Nat
  OBVIOUS
<1>2. t = [j \in 1..n |-> At(v, first + j - 1)]
  BY DEF Elements
<1>3. ASSUME NEW j \in 1..n PROVE t[j] = v[first + j] /\ t[j] \in Stored
  <2>1. first + j - 1 \in 0..(Len(v) - 1) /\ (first + j - 1) + 1 = first + j /\ first + j \in 1..Len(v)
    BY <1>1
  <2>2. At(v, first + j - 1) = v[first + j]
    BY <2>1 DEF At
  <2> HIDE DEF t
  <2>3. QED
    BY <1>2, <2>1, <2>2
<1>4. t = [j \in 1..n |-> t[j]]
  BY <1>2
<1> HIDE DEF t
<1>5. t \in Seq(Stored) /\ Len(t) = n
  BY <1>3, <1>4
<1>6. QED
  BY <1>3, <1>5 DEF t

LEMMA JoinIs ==
  ASSUME NEW Elems, NEW p \in Seq(Elems), NEW q \in Seq(Elems)
  PROVE  /\ p \o q \in Seq(Elems) /\ Len(p \o q) = Len(p) + Len(q)
         /\ \A j \in 1..(Len(p) + Len(q)) : (p \o q)[j] = IF j <= Len(p) THEN p[j] ELSE q[j - Len(p)]
BY ConcatProperties

LEMMA InsertHas ==
  ASSUME NEW Elems, NEW s \in Seq(Elems), NEW i \in 0..Len(s), NEW x \in Elems
  PROVE  /\ InsertAt(s, i + 1, x) \in Seq(Elems) /\ Len(InsertAt(s, i + 1, x)) = Len(s) + 1
         /\ \A j \in 1..(Len(s) + 1) :
              InsertAt(s, i + 1, x)[j] = IF j <= i THEN s[j] ELSE IF j = i + 1 THEN x ELSE s[j - 1]
<1> DEFINE n == Len(s)  p == SubSeq(s, 1, i)  q == SubSeq(s, i + 1, n)  m == <<x>>
<1>1. n \in Nat /\ i \in 0..n
  OBVIOUS
<1>2. p \in Seq(Elems) /\ Len(p) = i /\ \A j \in 1..i : p[j] = s[j]
  <2>1. \A j \in 1..i : s[j] \in Elems
    BY <1>1
  <2>2. i - 1 + 1 = i /\ (~(1 <= i) => i = 0) /\ \A j \in 1..i : 1 + j - 1 = j
    BY <1>1
  <2>3. QED
    BY <2>1, <2>2, SubSeqProperties
<1>3. q \in Seq(Elems) /\ Len(q) = n - i /\ \A j \in 1..(n - i) : q[j] = s[i + j]
  <2>1. \A j \in (i + 1)..n : s[j] \in Elems
    BY <1>1
  <2>2. i + 1 \in Int /\ n - (i + 1) + 1 = n - i /\ (~(i + 1 <= n) => n - i = 0)
        /\ \A j \in 1..(n - i) : (i + 1) + j - 1 = i + j
    BY <1>1
  <2> HIDE DEF n
  <2>3. QED
    BY <1>1, <2>1, <2>2, SubSeqProperties
<1>4. m \in Seq(Elems) /\ Len(m) = 1 /\ m[1] = x
  OBVIOUS
<1>5. InsertAt(s, i + 1, x) = p \o m \o q
  <2>1. (i + 1) - 1 = i
    OBVIOUS
  <2>2. QED
    BY <2>1 DEF InsertAt
<1> HIDE DEF n, p, q, m
<1>6. /\ p \o m \in Seq(Elems) /\ Len(p \o m) = i + 1
      /\ \A j \in 1..(i + 1) : (p \o m)[j] = IF j <= i THEN p[j] ELSE m[j - i]
  <2>1. i \in Nat /\ 1 \in Nat
    BY <1>1
  <2>2. QED
    <3>1. p \in Seq(Elems) /\ m \in Seq(Elems)
      BY <1>2, <1>4
    <3>2. /\ p \o m \in Seq(Elems) /\ Len(p \o m) = Len(p) + Len(m)
          /\ \A j \in 1..(Len(p) + Len(m)) : (p \o m)[j] = IF j <= Len(p) THEN p[j] ELSE m[j - Len(p)]
      BY <3>1, JoinIs
    <3>3. QED
      BY <1>2, <1>4, <3>2
<1> DEFINE u == p \o m
<1> HIDE DEF u
<1>7. /\ u \o q \in Seq(Elems) /\ Len(u \o q) = n + 1
      /\ \A j \in 1..(n + 1) : (u \o q)[j] = IF j <= i + 1 THEN u[j] ELSE q[j - (i + 1)]
  <2>1. u \in Seq(Elems) /\ Len(u) = i + 1 /\ (i + 1) + (n - i) = n + 1
    BY <1>1, <1>6 DEF u
  <2>2. QED
    <3>1. i + 1 \in Nat /\ n - i \in Nat
      BY <1>1
    <3>2. /\ u \o q \in Seq(Elems) /\ Len(u \o q) = (i + 1) + (n - i)
          /\ \A j \in 1..((i + 1) + (n - i)) : (u \o q)[j] = IF j <= i + 1 THEN u[j] ELSE q[j - (i + 1)]
      <4>1. u \in Seq(Elems) /\ q \in Seq(Elems)
        BY <1>3, <2>1
      <4>2. /\ u \o q \in Seq(Elems) /\ Len(u \o q) = Len(u) + Len(q)
            /\ \A j \in 1..(Len(u) + Len(q)) : (u \o q)[j] = IF j <= Len(u) THEN u[j] ELSE q[j - Len(u)]
        BY <4>1, JoinIs
      <4>3. QED
        BY <1>3, <2>1, <4>2
    <3>3. QED
      BY <2>1, <3>2
<1>8. ASSUME NEW j \in 1..(n + 1)
      PROVE  (u \o q)[j] = IF j <= i THEN s[j] ELSE IF j = i + 1 THEN x ELSE s[j - 1]
  <2>1. CASE j <= i
    <3>1. j \in 1..i /\ j \in 1..(i + 1) /\ j <= i + 1
      BY <1>1, <2>1
    <3>2. QED
      BY <2>1, <3>1, <1>2, <1>6, <1>7 DEF u
  <2>2. CASE j = i + 1
    <3>1. j \in 1..(i + 1) /\ j <= i + 1 /\ ~(j <= i) /\ j - i = 1
      BY <1>1, <2>2
    <3>2. QED
      BY <2>2, <3>1, <1>4, <1>6, <1>7 DEF u
  <2>3. CASE ~(j <= i) /\ j # i + 1
    <3>1. ~(j <= i + 1) /\ j - (i + 1) \in 1..(n - i) /\ i + (j - (i + 1)) = j - 1
      BY <1>1, <2>3
    <3>2. QED
      BY <2>3, <3>1, <1>3, <1>7
  <2>4. QED
    BY <2>1, <2>2, <2>3
<1>9. QED
  <2>1. InsertAt(s, i + 1, x) = u \o q
    BY <1>5 DEF u
  <2>2. QED
    <3>1. /\ InsertAt(s, i + 1, x) \in Seq(Elems) /\ Len(InsertAt(s, i + 1, x)) = n + 1
          /\ \A j \in 1..(n + 1) :
               InsertAt(s, i + 1, x)[j] = IF j <= i THEN s[j] ELSE IF j = i + 1 THEN x ELSE s[j - 1]
      <4> DEFINE t == InsertAt(s, i + 1, x)
      <4>1. t = u \o q
        BY <2>1
      <4> HIDE DEF t
      <4>2. t \in Seq(Elems) /\ Len(t) = n + 1
        BY <1>7, <4>1
      <4>3. \A j \in 1..(n + 1) : t[j] = IF j <= i THEN s[j] ELSE IF j = i + 1 THEN x ELSE s[j - 1]
        BY <1>8, <4>1
      <4>4. QED
        BY <4>2, <4>3 DEF t
    <3>2. QED
      BY <3>1 DEF n

\* t is the sequence s of elements with x put behind the first i.
WithOneMore(t, s, i, x, elems) ==
  /\ t \in Seq(elems) /\ Len(t) = Len(s) + 1
  /\ \A j \in 1..(Len(s) + 1) : t[j] = IF j <= i THEN s[j] ELSE IF j = i + 1 THEN x ELSE s[j - 1]

LEMMA InsertIs ==
  ASSUME NEW Elems, NEW s \in Seq(Elems), NEW i \in 0..Len(s), NEW x \in Elems
  PROVE  WithOneMore(InsertAt(s, i + 1, x), s, i, x, Elems)
<1> DEFINE t == InsertAt(s, i + 1, x)
<1>1. /\ t \in Seq(Elems) /\ Len(t) = Len(s) + 1
      /\ \A j \in 1..(Len(s) + 1) : t[j] = IF j <= i THEN s[j] ELSE IF j = i + 1 THEN x ELSE s[j - 1]
  BY InsertHas
<1> HIDE DEF t
<1>2. WithOneMore(t, s, i, x, Elems)
  BY <1>1 DEF WithOneMore
<1>3. QED
  BY <1>2 DEF t

LEMMA RemoveIs ==
  ASSUME NEW Elems, NEW s \in Seq(Elems), NEW i \in 0..(Len(s) - 1)
  PROVE  /\ RemoveAt(s, i + 1) \in Seq(Elems) /\ Len(RemoveAt(s, i + 1)) = Len(s) - 1
         /\ \A j \in 1..(Len(s) - 1) : RemoveAt(s, i + 1)[j] = IF j <= i THEN s[j] ELSE s[j + 1]
<1> DEFINE n == Len(s)  p == SubSeq(s, 1, i)  q == SubSeq(s, i + 2, n)
<1>1. n \in Nat /\ i \in 0..(n - 1)
  OBVIOUS
<1>2. p \in Seq(Elems) /\ Len(p) = i /\ \A j \in 1..i : p[j] = s[j]
  <2>1. \A j \in 1..i : s[j] \in Elems
    BY <1>1
  <2>2. i - 1 + 1 = i /\ (~(1 <= i) => i = 0) /\ \A j \in 1..i : 1 + j - 1 = j
    BY <1>1
  <2>3. QED
    BY <2>1, <2>2, SubSeqProperties
<1>3. q \in Seq(Elems) /\ Len(q) = n - i - 1 /\ \A j \in 1..(n - i - 1) : q[j] = s[i + 1 + j]
  <2>1. \A j \in (i + 2)..n : s[j] \in Elems
    BY <1>1
  <2>2. i + 2 \in Int /\ n - (i + 2) + 1 = n - i - 1 /\ (~(i + 2 <= n) => n - i - 1 = 0)
        /\ \A j \in 1..(n - i - 1) : (i + 2) + j - 1 = i + 1 + j
    BY <1>1
  <2>3. n \in Int
    BY <1>1
  <2> HIDE DEF n
  <2>4. /\ SubSeq(s, i + 2, n) \in Seq(Elems)
        /\ Len(SubSeq(s, i + 2, n)) = IF i + 2 <= n THEN n - (i + 2) + 1 ELSE 0
        /\ \A j \in 1..(n - (i + 2) + 1) : SubSeq(s, i + 2, n)[j] = s[(i + 2) + j - 1]
    BY ONLY <2>1, <2>2, <2>3, SubSeqProperties
  <2>5. QED
    BY <1>1, <2>2, <2>4
<1>4. RemoveAt(s, i + 1) = p \o q
  <2>1. (i + 1) - 1 = i /\ (i + 1) + 1 = i + 2
    OBVIOUS
  <2>2. QED
    BY <2>1 DEF RemoveAt
<1> HIDE DEF n, p, q
<1>5. /\ p \o q \in Seq(Elems) /\ Len(p \o q) = n - 1
      /\ \A j \in 1..(n - 1) : (p \o q)[j] = IF j <= i THEN p[j] ELSE q[j - i]
  <2>1. i + (n - i - 1) = n - 1
    BY <1>1
  <2>2. QED
    <3>1. i \in Nat /\ n - i - 1 \in Nat
      BY <1>1
    <3>2. /\ p \o q \in Seq(Elems) /\ Len(p \o q) = i + (n - i - 1)
          /\ \A j \in 1..(i + (n - i - 1)) : (p \o q)[j] = IF j <= i THEN p[j] ELSE q[j - i]
      <4>1. p \in Seq(Elems) /\ q \in Seq(Elems)
        BY <1>2, <1>3
      <4>2. /\ p \o q \in Seq(Elems) /\ Len(p \o q) = Len(p) + Len(q)
            /\ \A j \in 1..(Len(p) + Len(q)) : (p \o q)[j] = IF j <= Len(p) THEN p[j] ELSE q[j - Len(p)]
        BY <4>1, JoinIs
      <4>3. QED
        BY <1>2, <1>3, <4>2
    <3>3. QED
      BY <2>1, <3>2
<1>6. ASSUME NEW j \in 1..(n - 1)
      PROVE  (p \o q)[j] = IF j <= i THEN s[j] ELSE s[j + 1]
  <2>1. CASE j <= i
    <3>1. j \in 1..i
      BY <1>1, <2>1
    <3>2. QED
      BY <2>1, <3>1, <1>2, <1>5
  <2>2. CASE ~(j <= i)
    <3>1. j - i \in 1..(n - i - 1) /\ i + 1 + (j - i) = j + 1
      BY <1>1, <2>2
    <3>2. QED
      BY <2>2, <3>1, <1>3, <1>5
  <2>3. QED
    BY <2>1, <2>2
<1>7. QED
  BY <1>4, <1>5, <1>6 DEF n

-----------------------------------------------------------------------------
(* The calls. *)

\* Elements put behind the last, where there is room for them.
LEMMA PutAtEnd ==
  ASSUME NEW e, VecOK(e), NEW es \in Seq(Items), e.length + Len(es) <= e.capacity,
         NEW x, x = [e EXCEPT !.v = Moved(e.v, e.length, es), !.length = e.length + Len(es)]
  PROVE  VecOK(x) /\ Seen(x) = Seen(e) \o es
<1> DEFINE n == e.length  m == Len(es)  v == Moved(e.v, n, es)
<1>1. /\ e.v \in Seq(Stored) /\ n \in Nat /\ e.capacity \in Nat /\ Len(e.v) = e.capacity /\ n <= e.capacity
      /\ e = [v |-> e.v, length |-> n, capacity |-> e.capacity]
      /\ \A i \in 1..n : e.v[i] \in Items
  BY DEF VecOK, Vectors
<1>2. m \in Nat /\ n + m <= e.capacity /\ es \in Seq(Stored) /\ \A i \in 1..m : es[i] \in Items
  BY DEF Stored
<1>3. x.v = v /\ x.length = n + m /\ x.capacity = e.capacity
      /\ x = [v |-> v, length |-> n + m, capacity |-> e.capacity]
  BY <1>1
<1> HIDE DEF n, m
<1>4. /\ v \in Seq(Stored) /\ Len(v) = Len(e.v)
      /\ \A j \in 1..Len(e.v) : v[j] = IF n < j /\ j <= n + Len(es) THEN es[j - n] ELSE e.v[j]
  BY <1>1, <1>2, MovedIs
<1> HIDE DEF v
<1>5. \A j \in 1..(n + m) : v[j] = IF j <= n THEN e.v[j] ELSE es[j - n]
  <2>1. SUFFICES ASSUME NEW j \in 1..(n + m) PROVE v[j] = IF j <= n THEN e.v[j] ELSE es[j - n]
    OBVIOUS
  <2>2. j \in 1..Len(e.v) /\ j \in Int /\ j <= n + Len(es)
    BY <1>1, <1>2 DEF m
  <2>3. QED
    BY <1>1, <1>4, <2>2
<1>6. \A j \in 1..(n + m) : v[j] \in Items
  <2>1. SUFFICES ASSUME NEW j \in 1..(n + m) PROVE v[j] \in Items
    OBVIOUS
  <2>2. j <= n => j \in 1..n
    BY <1>1
  <2>3. ~(j <= n) => j - n \in 1..m
    BY <1>1, <1>2
  <2>4. QED
    BY <1>1, <1>2, <1>5, <2>2, <2>3
<1>7. VecOK(x)
  <2>1. x \in Vectors
    BY <1>1, <1>2, <1>3, <1>4 DEF Vectors
  <2>2. QED
    BY <1>1, <1>2, <1>3, <1>4, <1>6, <2>1 DEF VecOK
<1>8. Seen(x) \in Seq(Items) /\ Len(Seen(x)) = n + m /\ \A j \in 1..(n + m) : Seen(x)[j] = v[j]
  <2>1. x.v = v /\ x.length = n + m
    BY <1>3
  <2>2. QED
    BY ONLY <1>7, <2>1, SeenOf
<1>9. Seen(e) \in Seq(Items) /\ Len(Seen(e)) = n /\ \A j \in 1..n : Seen(e)[j] = e.v[j]
  BY SeenIs DEF n
<1> DEFINE s == Seen(e)
<1> HIDE DEF s
<1>10. /\ s \o es \in Seq(Items) /\ Len(s \o es) = n + m
       /\ \A j \in 1..(n + m) : (s \o es)[j] = IF j <= n THEN s[j] ELSE es[j - n]
  <2>1. s \in Seq(Items) /\ Len(s) = n /\ Len(es) = m
    BY <1>9 DEF s, m
  <2>2. /\ s \o es \in Seq(Items) /\ Len(s \o es) = Len(s) + Len(es)
        /\ \A j \in 1..(Len(s) + Len(es)) : (s \o es)[j] = IF j <= Len(s) THEN s[j] ELSE es[j - Len(s)]
    BY <2>1, JoinIs
  <2>3. QED
    BY <2>1, <2>2
<1>11. \A j \in 1..(n + m) : Seen(x)[j] = (s \o es)[j]
  <2>1. SUFFICES ASSUME NEW j \in 1..(n + m) PROVE Seen(x)[j] = (s \o es)[j]
    OBVIOUS
  <2>2. CASE j <= n
    <3>1. j \in 1..n
      BY <1>1, <2>2
    <3>2. QED
      BY <2>2, <3>1, <1>5, <1>8, <1>9, <1>10 DEF s
  <2>3. CASE ~(j <= n)
    BY <2>3, <1>5, <1>8, <1>10
  <2>4. QED
    BY <2>2, <2>3
<1>12. Seen(x) = s \o es
  BY <1>8, <1>10, <1>11, SeqEqual
<1>13. QED
  BY <1>7, <1>12 DEF s

\* An element put between two others, where there is room for it.
LEMMA PutBetween ==
  ASSUME NEW e, VecOK(e), NEW i \in 0..e.length, NEW y \in Items, e.length < e.capacity,
         NEW x, x = [e EXCEPT !.v = Moved(Moved(e.v, i + 1, Elements(e.v, i, e.length - i)), i, <<y>>),
                              !.length = e.length + 1]
  PROVE  VecOK(x) /\ Seen(x) = InsertAt(Seen(e), i + 1, y)
<1> DEFINE n == e.length  tail == Elements(e.v, i, n - i)  shifted == Moved(e.v, i + 1, tail)
           one == <<y>>  v == Moved(shifted, i, one)
<1>1. /\ e.v \in Seq(Stored) /\ n \in Nat /\ e.capacity \in Nat /\ Len(e.v) = e.capacity /\ n < e.capacity
      /\ e = [v |-> e.v, length |-> n, capacity |-> e.capacity]
      /\ (\A j \in 1..n : e.v[j] \in Items) /\ i \in 0..n
  BY DEF VecOK, Vectors
<1>2. x.v = v /\ x.length = n + 1 /\ x.capacity = e.capacity
      /\ x = [v |-> v, length |-> n + 1, capacity |-> e.capacity]
  BY <1>1
<1> HIDE DEF n
<1>3. tail \in Seq(Stored) /\ Len(tail) = n - i /\ \A j \in 1..(n - i) : tail[j] = e.v[i + j]
  <2>1. i \in Nat /\ n - i \in Nat /\ i + (n - i) <= Len(e.v)
    BY <1>1
  <2>2. QED
    BY <1>1, <2>1, ElementsAre
<1> HIDE DEF tail
<1>4. /\ shifted \in Seq(Stored) /\ Len(shifted) = Len(e.v)
      /\ \A j \in 1..Len(e.v) :
           shifted[j] = IF i + 1 < j /\ j <= (i + 1) + Len(tail) THEN tail[j - (i + 1)] ELSE e.v[j]
  <2>1. i + 1 \in Nat
    BY <1>1
  <2>2. QED
    BY <1>1, <1>3, <2>1, MovedIs
<1> HIDE DEF shifted
<1>5. one \in Seq(Stored) /\ Len(one) = 1 /\ one[1] = y
  BY DEF Stored
<1> HIDE DEF one
<1>6. /\ v \in Seq(Stored) /\ Len(v) = Len(e.v)
      /\ \A j \in 1..Len(shifted) : v[j] = IF i < j /\ j <= i + Len(one) THEN one[j - i] ELSE shifted[j]
  <2>1. i \in Nat
    BY <1>1
  <2>2. QED
    BY <1>4, <1>5, <2>1, MovedIs
<1> HIDE DEF v
<1>7. ASSUME NEW j \in 1..(n + 1)
      PROVE  /\ v[j] = IF j <= i THEN e.v[j] ELSE IF j = i + 1 THEN y ELSE e.v[j - 1]
             /\ v[j] \in Items
  <2>1. j \in 1..Len(e.v) /\ j \in 1..Len(shifted)
    BY <1>1, <1>4
  <2>2. CASE j <= i
    <3>1. ~(i < j) /\ ~(i + 1 < j) /\ j \in 1..n
      BY <1>1, <2>2
    <3>2. QED
      BY <1>1, <1>4, <1>6, <2>1, <2>2, <3>1
  <2>3. CASE j = i + 1
    <3>1. i < j /\ j <= i + Len(one) /\ j - i = 1 /\ ~(j <= i)
      BY <1>1, <1>5, <2>3
    <3>2. QED
      BY <1>5, <1>6, <2>1, <2>3, <3>1
  <2>4. CASE ~(j <= i) /\ j # i + 1
    <3>1. /\ ~(j <= i + Len(one)) /\ i + 1 < j /\ j <= (i + 1) + Len(tail)
          /\ j - (i + 1) \in 1..(n - i) /\ i + (j - (i + 1)) = j - 1 /\ j - 1 \in 1..n
      BY <1>1, <1>3, <1>5, <2>4
    <3>2. v[j] = e.v[j - 1]
      BY <1>3, <1>4, <1>6, <2>1, <3>1
    <3>3. QED
      BY <1>1, <2>4, <3>1, <3>2
  <2>5. QED
    BY <2>2, <2>3, <2>4
<1>8. VecOK(x)
  <2>1. x \in Vectors
    BY <1>1, <1>2, <1>6 DEF Vectors
  <2>2. QED
    BY <1>1, <1>2, <1>6, <1>7, <2>1 DEF VecOK
<1>9. Seen(x) \in Seq(Items) /\ Len(Seen(x)) = n + 1 /\ \A j \in 1..(n + 1) : Seen(x)[j] = v[j]
  <2>1. x.v = v /\ x.length = n + 1
    BY <1>2
  <2>2. QED
    BY ONLY <1>8, <2>1, SeenOf
<1>10. Seen(e) \in Seq(Items) /\ Len(Seen(e)) = n /\ \A j \in 1..n : Seen(e)[j] = e.v[j]
  BY SeenIs DEF n
<1> DEFINE s == Seen(e)  t == InsertAt(s, i + 1, y)
<1>11. /\ t \in Seq(Items) /\ Len(t) = n + 1
       /\ \A j \in 1..(n + 1) : t[j] = IF j <= i THEN s[j] ELSE IF j = i + 1 THEN y ELSE s[j - 1]
  <2>1. s \in Seq(Items) /\ Len(s) = n /\ i \in 0..Len(s)
    BY <1>1, <1>10
  <2> HIDE DEF s, t
  <2>2. WithOneMore(InsertAt(s, i + 1, y), s, i, y, Items)
    BY <2>1, InsertIs
  <2>3. WithOneMore(t, s, i, y, Items)
    BY <2>2 DEF t
  <2>4. QED
    BY <2>1, <2>3 DEF WithOneMore
<1> HIDE DEF t
<1>12. \A j \in 1..(n + 1) : Seen(x)[j] = t[j]
  <2>1. SUFFICES ASSUME NEW j \in 1..(n + 1) PROVE Seen(x)[j] = t[j]
    OBVIOUS
  <2>2. CASE j <= i
    <3>1. j \in 1..n
      BY <1>1, <2>2
    <3>2. QED
      BY <2>2, <3>1, <1>7, <1>9, <1>10, <1>11
  <2>3. CASE j = i + 1
    BY <1>1, <2>3, <1>7, <1>9, <1>11
  <2>4. CASE ~(j <= i) /\ j # i + 1
    <3>1. j - 1 \in 1..n
      BY <1>1, <2>4
    <3>2. QED
      BY <2>4, <3>1, <1>7, <1>9, <1>10, <1>11
  <2>5. QED
    BY <2>2, <2>3, <2>4
<1>13. Seen(x) = t
  BY <1>9, <1>11, <1>12, SeqEqual
<1>14. QED
  BY <1>8, <1>13 DEF t

\* An element taken out.
LEMMA TakeOut ==
  ASSUME NEW e, VecOK(e), NEW i \in 0..(e.length - 1),
         NEW x, x = [e EXCEPT !.v = Moved(e.v, i, Elements(e.v, i + 1, e.length - i - 1)),
                              !.length = e.length - 1]
  PROVE  VecOK(x) /\ Seen(x) = RemoveAt(Seen(e), i + 1)
<1> DEFINE n == e.length  tail == Elements(e.v, i + 1, n - i - 1)  v == Moved(e.v, i, tail)
<1>1. /\ e.v \in Seq(Stored) /\ n \in Nat /\ e.capacity \in Nat /\ Len(e.v) = e.capacity /\ n <= e.capacity
      /\ e = [v |-> e.v, length |-> n, capacity |-> e.capacity]
      /\ (\A j \in 1..n : e.v[j] \in Items) /\ i \in 0..(n - 1)
  BY DEF VecOK, Vectors
<1>2. x.v = v /\ x.length = n - 1 /\ x.capacity = e.capacity
      /\ x = [v |-> v, length |-> n - 1, capacity |-> e.capacity]
  BY <1>1
<1> HIDE DEF n
<1>3. tail \in Seq(Stored) /\ Len(tail) = n - i - 1 /\ \A j \in 1..(n - i - 1) : tail[j] = e.v[(i + 1) + j]
  <2>1. i + 1 \in Nat /\ n - i - 1 \in Nat /\ (i + 1) + (n - i - 1) <= Len(e.v)
    BY <1>1
  <2>2. QED
    BY <1>1, <2>1, ElementsAre
<1> HIDE DEF tail
<1>4. /\ v \in Seq(Stored) /\ Len(v) = Len(e.v)
      /\ \A j \in 1..Len(e.v) : v[j] = IF i < j /\ j <= i + Len(tail) THEN tail[j - i] ELSE e.v[j]
  <2>1. i \in Nat
    BY <1>1
  <2>2. QED
    BY <1>1, <1>3, <2>1, MovedIs
<1> HIDE DEF v
<1>5. ASSUME NEW j \in 1..(n - 1)
      PROVE  v[j] = (IF j <= i THEN e.v[j] ELSE e.v[j + 1]) /\ v[j] \in Items
  <2>1. j \in 1..Len(e.v)
    BY <1>1
  <2>2. CASE j <= i
    <3>1. ~(i < j) /\ j \in 1..n
      BY <1>1, <2>2
    <3>2. QED
      BY <1>1, <1>4, <2>1, <2>2, <3>1
  <2>3. CASE ~(j <= i)
    <3>1. /\ i < j /\ j <= i + Len(tail) /\ j - i \in 1..(n - i - 1) /\ (i + 1) + (j - i) = j + 1
          /\ j + 1 \in 1..n
      BY <1>1, <1>3, <2>3
    <3>2. v[j] = e.v[j + 1]
      BY <1>3, <1>4, <2>1, <3>1
    <3>3. QED
      BY <1>1, <2>3, <3>1, <3>2
  <2>4. QED
    BY <2>2, <2>3
<1>6. VecOK(x)
  <2>1. x \in Vectors
    BY <1>1, <1>2, <1>4 DEF Vectors
  <2>2. QED
    BY <1>1, <1>2, <1>4, <1>5, <2>1 DEF VecOK
<1>7. Seen(x) \in Seq(Items) /\ Len(Seen(x)) = n - 1 /\ \A j \in 1..(n - 1) : Seen(x)[j] = v[j]
  <2>1. x.v = v /\ x.length = n - 1
    BY <1>2
  <2>2. QED
    BY ONLY <1>6, <2>1, SeenOf
<1>8. Seen(e) \in Seq(Items) /\ Len(Seen(e)) = n /\ \A j \in 1..n : Seen(e)[j] = e.v[j]
  BY SeenIs DEF n
<1> DEFINE s == Seen(e)  t == RemoveAt(s, i + 1)
<1>9. /\ t \in Seq(Items) /\ Len(t) = n - 1
      /\ \A j \in 1..(n - 1) : t[j] = IF j <= i THEN s[j] ELSE s[j + 1]
  BY <1>1, <1>8, RemoveIs
<1> HIDE DEF t
<1>10. \A j \in 1..(n - 1) : Seen(x)[j] = t[j]
  <2>1. SUFFICES ASSUME NEW j \in 1..(n - 1) PROVE Seen(x)[j] = t[j]
    OBVIOUS
  <2>2. j \in 1..n /\ j + 1 \in 1..n
    BY <1>1
  <2>3. QED
    BY <2>2, <1>5, <1>7, <1>8, <1>9
<1>11. Seen(x) = t
  BY <1>7, <1>9, <1>10, SeqEqual
<1>12. QED
  BY <1>6, <1>11 DEF t

-----------------------------------------------------------------------------
(* The vector is a sequence. *)

\* What AbstractLists is given for a vector.
Shown(x) == IF x = NoVector THEN NoVector ELSE Elements(x.v, 0, x.length)

LEMMA ShownIsSeen ==
  ASSUME NEW x, VecOK(x)
  PROVE  x # NoVector /\ Shown(x) = Seen(x) /\ Shown(x) # NoVector /\ Shown(x) \in Seq(Items)
<1>1. x # NoVector
  BY VectorAssumption DEF VecOK, Vectors, Stored
<1>2. Shown(x) = Seen(x)
  BY <1>1 DEF Shown, Seen
<1>3. Seen(x) \in Seq(Items)
  BY SeenIs
<1>4. QED
  BY <1>1, <1>2, <1>3, VectorAssumption

\* A new vector is empty.
LEMMA CreatesAVector ==
  ASSUME vec = NoVector, NEW n \in Nat, VectorInit(n)
  PROVE  VecInv' /\ AbstractVector!Next
<1> DEFINE w == [i \in 1..n |-> Junk]
<1>1. vec' = [v |-> w, length |-> 0, capacity |-> n]
  BY DEF VectorInit
<1>2. w \in Seq(Stored) /\ Len(w) = n
  <2>1. Junk \in Stored
    BY DEF Stored
  <2>2. QED
    BY <2>1
<1> HIDE DEF w
<1>3. VecOK(vec')
  BY <1>1, <1>2 DEF VecOK, Vectors
<1>4. Shown(vec') = <<>>
  <2>1. Seen(vec') \in Seq(Items) /\ Len(Seen(vec')) = 0
    <3>1. vec'.length = 0
      BY <1>1
    <3>2. QED
      BY ONLY <1>3, <3>1, SeenIs
  <2>2. QED
    BY <1>3, <2>1, ShownIsSeen
<1>5. Shown(vec) = NoVector
  BY DEF Shown
<1>6. AbstractVector!Create("vector")
  BY <1>4, <1>5 DEF AbstractVector!Create, AbstractVector!Exists, AbstractVector!Become, Shown
<1>7. QED
  BY <1>3, <1>6 DEF VecInv, AbstractVector!Next

LEMMA ExtendsTheVector ==
  ASSUME VecOK(vec), VecOK(vec'), NEW n \in 1..2, NEW es \in [1..n -> Items],
         Seen(vec') = Seen(vec) \o es
  PROVE  AbstractVector!Next
<1>1. Shown(vec) # NoVector /\ Shown(vec') = Shown(vec) \o es
  BY ShownIsSeen
<1>2. AbstractVector!Extend("vector")
  <2>1. AbstractVector!Become("vector", Shown(vec) \o es)
    BY <1>1 DEF AbstractVector!Become, Shown
  <2>2. AbstractVector!Exists("vector")
    BY <1>1 DEF AbstractVector!Exists, Shown
  <2>3. QED
    BY <2>1, <2>2 DEF AbstractVector!Extend, Shown
<1>3. QED
  BY <1>2 DEF AbstractVector!Next

LEMMA InsertsIntoTheVector ==
  ASSUME VecOK(vec), VecOK(vec'), NEW i \in 0..vec.length, NEW y \in Items,
         Seen(vec') = InsertAt(Seen(vec), i + 1, y)
  PROVE  AbstractVector!Next
<1>1. Shown(vec) # NoVector /\ Shown(vec') = InsertAt(Shown(vec), i + 1, y)
  BY ShownIsSeen
<1>2. i + 1 \in 1..(Len(Shown(vec)) + 1)
  <2>1. Len(Shown(vec)) = vec.length /\ vec.length \in Nat
    BY ShownIsSeen, SeenIs DEF VecOK, Vectors
  <2>2. QED
    BY <2>1
<1>3. AbstractVector!Insert("vector")
  <2>1. AbstractVector!Become("vector", InsertAt(Shown(vec), i + 1, y))
    BY <1>1 DEF AbstractVector!Become, Shown
  <2>2. AbstractVector!Exists("vector")
    BY <1>1 DEF AbstractVector!Exists, Shown
  <2>3. QED
    <3> DEFINE m == [id \in {"vector"} |-> IF vec = NoVector THEN NoVector ELSE Elements(vec.v, 0, vec.length)]
    <3>1. m["vector"] = Shown(vec)
      BY DEF Shown
    <3> HIDE DEF m
    <3>2. \E j \in 1..(Len(m["vector"]) + 1), v \in Items : AbstractVector!Become("vector", InsertAt(m["vector"], j, v))
      BY <1>2, <2>1, <3>1
    <3>3. \A s, j, v : AbstractVector!InsertAt(s, j, v) = InsertAt(s, j, v)
      BY DEF AbstractVector!InsertAt, InsertAt
    <3>4. QED
      BY <2>2, <3>2, <3>3 DEF AbstractVector!Insert, m
<1>4. QED
  BY <1>3 DEF AbstractVector!Next

LEMMA DeletesFromTheVector ==
  ASSUME VecOK(vec), VecOK(vec'), NEW i \in 0..(vec.length - 1),
         Seen(vec') = RemoveAt(Seen(vec), i + 1)
  PROVE  AbstractVector!Next
<1>1. Shown(vec) # NoVector /\ Shown(vec') = RemoveAt(Shown(vec), i + 1)
  BY ShownIsSeen
<1>2. i + 1 \in 1..Len(Shown(vec))
  <2>1. Len(Shown(vec)) = vec.length /\ vec.length \in Nat
    BY ShownIsSeen, SeenIs DEF VecOK, Vectors
  <2>2. QED
    BY <2>1
<1>3. AbstractVector!Delete("vector")
  <2>1. AbstractVector!Become("vector", RemoveAt(Shown(vec), i + 1))
    BY <1>1 DEF AbstractVector!Become, Shown
  <2>2. AbstractVector!Exists("vector")
    BY <1>1 DEF AbstractVector!Exists, Shown
  <2>3. QED
    <3> DEFINE m == [id \in {"vector"} |-> IF vec = NoVector THEN NoVector ELSE Elements(vec.v, 0, vec.length)]
    <3>1. m["vector"] = Shown(vec)
      BY DEF Shown
    <3> HIDE DEF m
    <3>2. \E j \in 1..Len(m["vector"]) : AbstractVector!Become("vector", RemoveAt(m["vector"], j))
      BY <1>2, <2>1, <3>1
    <3>3. \A s, j : AbstractVector!RemoveAt(s, j) = RemoveAt(s, j)
      BY DEF AbstractVector!RemoveAt, RemoveAt
    <3>4. QED
      BY <2>2, <3>2, <3>3 DEF AbstractVector!Delete, m
<1>4. QED
  BY <1>3 DEF AbstractVector!Next

\* The last element given up is the last of the sequence taken out.
LEMMA PopsTheLast ==
  ASSUME VecOK(vec), VectorPop
  PROVE  VecOK(vec') /\ Seen(vec') = RemoveAt(Seen(vec), (vec.length - 1) + 1)
<1> DEFINE n == vec.length  s == Seen(vec)
<1>1. /\ vec.v \in Seq(Stored) /\ n \in Nat /\ n > 0 /\ vec.capacity \in Nat
      /\ Len(vec.v) = vec.capacity /\ n <= vec.capacity
      /\ vec = [v |-> vec.v, length |-> n, capacity |-> vec.capacity]
      /\ \A i \in 1..n : vec.v[i] \in Items
  BY DEF VecOK, Vectors, VectorPop
<1>2. vec' = [v |-> vec.v, length |-> n - 1, capacity |-> vec.capacity]
  BY <1>1 DEF VectorPop
<1>3. VecOK(vec')
  BY <1>1, <1>2 DEF VecOK, Vectors
<1>4. s \in Seq(Items) /\ Len(s) = n /\ \A j \in 1..n : s[j] = vec.v[j]
  BY SeenIs
<1> HIDE DEF n, s
<1>5. Seen(vec') \in Seq(Items) /\ Len(Seen(vec')) = n - 1 /\ \A j \in 1..(n - 1) : Seen(vec')[j] = vec.v[j]
  <2>1. vec'.v = vec.v /\ vec'.length = n - 1
    BY <1>2
  <2>2. QED
    BY ONLY <1>3, <2>1, SeenOf
<1> DEFINE t == RemoveAt(s, (n - 1) + 1)
<1>6. /\ t \in Seq(Items) /\ Len(t) = n - 1
      /\ \A j \in 1..(n - 1) : t[j] = IF j <= n - 1 THEN s[j] ELSE s[j + 1]
  <2>1. n - 1 \in 0..(Len(s) - 1) /\ Len(s) = n
    BY <1>1, <1>4
  <2>2. QED
    BY <1>4, <2>1, RemoveIs
<1> HIDE DEF t
<1>7. \A j \in 1..(n - 1) : Seen(vec')[j] = t[j]
  BY <1>1, <1>4, <1>5, <1>6
<1>8. Seen(vec') = t
  BY <1>5, <1>6, <1>7, SeqEqual
<1>9. QED
  BY <1>3, <1>8 DEF t, n, s

LEMMA CallIsOfASequence ==
  ASSUME VecOK(vec), VecCall
  PROVE  VecOK(vec') /\ (AbstractVector!Next \/ Shown(vec') = Shown(vec))
<1>1. vec.length \in Nat /\ MaxVector \in Nat
  BY VectorAssumption DEF VecOK, Vectors
<1>2. ASSUME NEW n \in 0..2, NEW es \in [1..n -> Items],
             vec.length + n <= MaxVector, VectorAppendAll(es)
      PROVE  VecOK(vec') /\ (AbstractVector!Next \/ Shown(vec') = Shown(vec))
  <2> DEFINE e == Ensured(vec.length + n)
  <2>1. es \in Seq(Items) /\ Len(es) = n
    OBVIOUS
  <2>2. vec.length + n \in 0..MaxVector
    BY <1>1, <1>2
  <2>3. VecOK(e) /\ e.length = vec.length /\ e.capacity >= vec.length + n /\ Seen(e) = Seen(vec)
    BY <2>2, EnsuredKeeps
  <2>4. vec' = [e EXCEPT !.v = Moved(e.v, e.length, es), !.length = e.length + Len(es)]
    BY <1>2, <2>1 DEF VectorAppendAll
  <2> HIDE DEF e
  <2>5. e.length + Len(es) <= e.capacity
    <3>1. e.capacity \in Nat
      BY <2>3 DEF VecOK, Vectors
    <3>2. QED
      BY <1>1, <2>1, <2>3, <3>1
  <2>6. VecOK(vec') /\ Seen(vec') = Seen(e) \o es
    BY ONLY <2>1, <2>3, <2>4, <2>5, PutAtEnd
  <2>7. CASE n = 0
    <3>1. es = <<>>
      BY <2>1, <2>7
    <3>2. Seen(vec') = Seen(vec)
      <4>1. Seen(vec) \in Seq(Items)
        BY SeenIs
      <4>2. Seen(vec) \o <<>> = Seen(vec)
        BY <4>1
      <4>3. QED
        BY <2>3, <2>6, <3>1, <4>2
    <3>3. QED
      BY <2>6, <3>2, ShownIsSeen
  <2>8. CASE n # 0
    <3>1. n \in 1..2
      BY <2>8
    <3>2. QED
      BY <2>3, <2>6, <3>1, ExtendsTheVector
  <2>9. QED
    BY <2>7, <2>8
<1>3. ASSUME NEW y \in Items, vec.length < MaxVector, VectorAppend(y)
      PROVE  VecOK(vec') /\ AbstractVector!Next
  <2> DEFINE e == Ensured(vec.length)  es == <<y>>
  <2>1. es \in Seq(Items) /\ Len(es) = 1 /\ es \in [1..1 -> Items]
    OBVIOUS
  <2>2. vec.length \in 0..MaxVector
    BY <1>1, <1>3
  <2>3. VecOK(e) /\ e.length = vec.length /\ e.capacity > vec.length /\ Seen(e) = Seen(vec)
    BY <2>2, EnsuredKeeps
  <2>4. vec' = [e EXCEPT !.v = Moved(e.v, e.length, es), !.length = e.length + Len(es)]
    BY <1>3, <2>1 DEF VectorAppend
  <2> HIDE DEF e, es
  <2>5. e.length + Len(es) <= e.capacity
    <3>1. e.capacity \in Nat
      BY <2>3 DEF VecOK, Vectors
    <3>2. QED
      BY <1>1, <2>1, <2>3, <3>1
  <2>6. VecOK(vec') /\ Seen(vec') = Seen(e) \o es
    BY ONLY <2>1, <2>3, <2>4, <2>5, PutAtEnd
  <2>7. QED
    BY <2>1, <2>3, <2>6, ExtendsTheVector
<1>4. ASSUME NEW y \in Items, NEW i \in 0..vec.length, vec.length < MaxVector, VectorInsert(y, i)
      PROVE  VecOK(vec') /\ AbstractVector!Next
  <2> DEFINE e == Ensured(vec.length)
  <2>1. vec.length \in 0..MaxVector
    BY <1>1, <1>4
  <2>2. VecOK(e) /\ e.length = vec.length /\ e.capacity > vec.length /\ Seen(e) = Seen(vec)
    BY <2>1, EnsuredKeeps
  <2>3. vec' = [e EXCEPT !.v = Moved(Moved(e.v, i + 1, Elements(e.v, i, e.length - i)), i, <<y>>),
                         !.length = e.length + 1]
    BY <1>4 DEF VectorInsert
  <2> HIDE DEF e
  <2>4. i \in 0..e.length /\ e.length < e.capacity
    <3>1. e.capacity \in Nat
      BY <2>2 DEF VecOK, Vectors
    <3>2. QED
      BY <1>1, <2>2, <3>1
  <2>5. VecOK(vec') /\ Seen(vec') = InsertAt(Seen(e), i + 1, y)
    BY ONLY <2>2, <2>3, <2>4, y \in Items, PutBetween
  <2>6. QED
    BY <2>2, <2>5, InsertsIntoTheVector
<1>5. ASSUME NEW n \in 0..MaxVector, NEW i \in 0..MaxVector, VectorRefuses(n, i)
      PROVE  VecOK(vec') /\ Shown(vec') = Shown(vec)
  BY <1>5 DEF VectorRefuses
<1>6. CASE VectorPop
  <2>1. vec.length - 1 \in 0..(vec.length - 1)
    BY <1>1, <1>6 DEF VectorPop
  <2>2. QED
    BY <1>6, <2>1, PopsTheLast, DeletesFromTheVector
<1>7. ASSUME NEW i \in 0..MaxVector, VectorDelete(i)
      PROVE  VecOK(vec') /\ AbstractVector!Next
  <2>1. i \in 0..(vec.length - 1)
    BY <1>1, <1>7 DEF VectorDelete
  <2>2. vec' = [vec EXCEPT !.v = Moved(vec.v, i, Elements(vec.v, i + 1, vec.length - i - 1)),
                           !.length = vec.length - 1]
    BY <1>7 DEF VectorDelete
  <2>3. VecOK(vec') /\ Seen(vec') = RemoveAt(Seen(vec), i + 1)
    BY ONLY VecOK(vec), <2>1, <2>2, TakeOut
  <2>4. QED
    BY <2>1, <2>3, DeletesFromTheVector
<1>8. QED
  BY <1>2, <1>3, <1>4, <1>5, <1>6, <1>7 DEF VecCall

LEMMA StepIsOfASequence ==
  VecInv /\ [VecNext]_vec =>
    VecInv' /\ [AbstractVector!Next]_([id \in {"vector"} |-> Shown(vec)])
<1> SUFFICES ASSUME VecInv, [VecNext]_vec
             PROVE  VecInv' /\ [AbstractVector!Next]_([id \in {"vector"} |-> Shown(vec)])
  OBVIOUS
<1>1. ASSUME NEW n \in VecCapacities, VectorInit(n)
      PROVE  VecInv' /\ AbstractVector!Next
  BY <1>1, VectorAssumption, CreatesAVector DEF VectorInit
<1>2. CASE vec # NoVector /\ VecCall
  <2>1. VecOK(vec') /\ (AbstractVector!Next \/ Shown(vec') = Shown(vec))
    BY <1>2, CallIsOfASequence DEF VecInv
  <2>2. QED
    BY <2>1 DEF VecInv
<1>3. CASE UNCHANGED vec
  BY <1>3 DEF VecInv
<1>4. QED
  BY <1>1, <1>2, <1>3 DEF VecNext

\* vector_append, vector_append_all, vector_insert, vector_pop and vector_delete
\* keep the vector the sequence its client made, through growth from any
\* capacity and whatever realloc refuses.
THEOREM VectorIsASequence == VecSpec => VectorImplementsSequence
<1>1. VecInit => VecInv /\ AbstractVector!Init
  BY DEF VecInit, VecInv, AbstractVector!Init
<1>2. VecInv /\ [VecNext]_vec =>
        VecInv' /\ [AbstractVector!Next]_([id \in {"vector"} |->
                     IF vec = NoVector THEN NoVector ELSE Elements(vec.v, 0, vec.length)])
  BY StepIsOfASequence DEF Shown
<1>3. QED
  BY <1>1, <1>2, PTL DEF VecSpec, VectorImplementsSequence, AbstractVector!Spec
-----------------------------------------------------------------------------
(* Lists over a memory pool. *)

Word == Values \cup {Zero}
Page == [words : Seq(Word), used : Nat]

\* The pages of a pool, none with more given out than it has.
PoolOK(p) ==
  /\ p \in Seq(Page)
  /\ \A g \in 1..Len(p) : p[g].used <= Len(p[g].words)

Headers == [elements : [page : Nat, offset : Nat], size : Nat, capacity : Nat]

\* A list whose block lies in what p has given out.
ListOK(p, l) ==
  /\ l \in Headers
  /\ l.size <= l.capacity
  /\ l.elements.page \in 1..Len(p)
  /\ l.elements.offset + l.capacity <= p[l.elements.page].used
  /\ \A i \in 0..(l.size - 1) : Load(p, l.elements, i) \in Values

\* The n words from word i of a block on, and the block of l, share no word.
Outside(at, i, n, l) ==
  \/ at.page # l.elements.page
  \/ at.offset + i + n <= l.elements.offset
  \/ l.elements.offset + l.capacity <= at.offset + i

BlocksApart(l, m) == Outside(l.elements, 0, l.capacity, m)

\* The block of l is in q what it is in p.
Spared(p, q, l) ==
  /\ l.elements.page \in 1..Len(q)
  /\ p[l.elements.page].used <= q[l.elements.page].used
  /\ \A i \in 0..(l.capacity - 1) : Load(q, l.elements, i) = Load(p, l.elements, i)

LEMMA PageIs ==
  ASSUME NEW p, PoolOK(p), NEW g \in 1..Len(p)
  PROVE  /\ p[g] = [words |-> p[g].words, used |-> p[g].used]
         /\ p[g].words \in Seq(Word) /\ Len(p[g].words) \in Nat
         /\ p[g].used \in Nat /\ p[g].used <= Len(p[g].words)
<1>1. p \in Seq(Page) /\ p[g].used <= Len(p[g].words)
  BY DEF PoolOK
<1>2. p[g] \in Page
  BY <1>1
<1>. QED
  BY <1>1, <1>2 DEF Page

LEMMA SparedIs ==
  ASSUME NEW p, PoolOK(p), NEW q, PoolOK(q), NEW l, ListOK(p, l), Spared(p, q, l)
  PROVE  ListOK(q, l) /\ Contents(q, l) = Contents(p, l)
<1>1. /\ l \in Headers /\ l.size \in Nat /\ l.capacity \in Nat /\ l.size <= l.capacity
      /\ l.elements.page \in Nat /\ l.elements.offset \in Nat
  BY DEF ListOK, Headers
<1>2. \A i \in 0..(l.size - 1) : Load(q, l.elements, i) = Load(p, l.elements, i)
  BY <1>1 DEF Spared
<1>3. l.elements.offset + l.capacity <= q[l.elements.page].used
  <2>1. /\ p[l.elements.page].used \in Nat /\ q[l.elements.page].used \in Nat
        /\ p[l.elements.page].used <= q[l.elements.page].used
    BY PageIs DEF ListOK, Spared
  <2>2. l.elements.offset + l.capacity <= p[l.elements.page].used
    BY DEF ListOK
  <2>. QED
    BY <1>1, <2>1, <2>2
<1>4. ListOK(q, l)
  BY <1>1, <1>2, <1>3 DEF ListOK, Spared
<1>5. \A i \in 1..l.size : Load(q, l.elements, i - 1) = Load(p, l.elements, i - 1)
  BY <1>1, <1>2
<1>6. Contents(q, l) = Contents(p, l)
  BY <1>5 DEF Contents, Block
<1>. QED
  BY <1>4, <1>6

LEMMA SparedTwice ==
  ASSUME NEW p, PoolOK(p), NEW q, PoolOK(q), NEW r, PoolOK(r), NEW l, ListOK(p, l),
         Spared(p, q, l), Spared(q, r, l)
  PROVE  Spared(p, r, l)
<1>1. /\ p[l.elements.page].used \in Nat /\ q[l.elements.page].used \in Nat
      /\ r[l.elements.page].used \in Nat
  BY PageIs DEF ListOK, Spared
<1>2. p[l.elements.page].used <= r[l.elements.page].used
  BY <1>1 DEF Spared
<1>. QED
  BY <1>2 DEF Spared

-----------------------------------------------------------------------------

\* q is p with n words more given out, at at.
Grants(p, q, at, n) ==
  /\ PoolOK(q)
  /\ Len(p) <= Len(q)
  /\ at \in [page : Nat, offset : Nat]
  /\ at.page \in 1..Len(q)
  /\ at.offset + n <= q[at.page].used
  /\ at.page <= Len(p) => p[at.page].used <= at.offset
  /\ \A g \in 1..Len(p) : q[g].words = p[g].words /\ p[g].used <= q[g].used

LEMMA GivenGrants ==
  ASSUME NEW p, PoolOK(p), NEW n \in Nat, NEW g \in 1..Len(p), p[g].used + n <= Len(p[g].words)
  PROVE  Grants(p, Given(p, g, n).pool, Given(p, g, n).at, n)
<1> DEFINE q == [p EXCEPT ![g].used = @ + n]
           at == [page |-> g, offset |-> p[g].used]
<1>1. Given(p, g, n).pool = q /\ Given(p, g, n).at = at
  BY DEF Given
<1>2. /\ p \in Seq(Page) /\ Len(p) \in Nat
      /\ \A h \in 1..Len(p) : /\ p[h] = [words |-> p[h].words, used |-> p[h].used]
                              /\ p[h].used \in Nat /\ p[h].words \in Seq(Word)
                              /\ p[h].used <= Len(p[h].words) /\ Len(p[h].words) \in Nat
  <2>1. p \in Seq(Page)
    BY DEF PoolOK
  <2>. QED
    BY <2>1, PageIs
<1>3. /\ q \in Seq(Page) /\ Len(q) = Len(p)
      /\ \A h \in 1..Len(p) : /\ q[h].words = p[h].words
                              /\ q[h].used = IF h = g THEN p[h].used + n ELSE p[h].used
  <2> DEFINE new == [words |-> p[g].words, used |-> p[g].used + n]
  <2>1. q = [p EXCEPT ![g] = new]
    <3>1. p[g] = [words |-> p[g].words, used |-> p[g].used]
      BY <1>2
    <3>2. [p[g] EXCEPT !.used = @ + n] = new
      BY <3>1
    <3>. QED
      BY <3>2
  <2>2. new \in Page
    <3>1. p[g].words \in Seq(Word) /\ p[g].used \in Nat
      BY PageIs
    <3>. QED
      BY <3>1 DEF Page
  <2>3. new.words = p[g].words /\ new.used = p[g].used + n
    OBVIOUS
  <2> HIDE DEF q, new
  <2>. QED
    BY <1>2, <2>1, <2>2, <2>3
<1> HIDE DEF q
<1>4. \A h \in 1..Len(p) : q[h].used <= Len(q[h].words) /\ p[h].used <= q[h].used
  <2>1. SUFFICES ASSUME NEW h \in 1..Len(p)
                 PROVE  q[h].used <= Len(q[h].words) /\ p[h].used <= q[h].used
    OBVIOUS
  <2>2. p[h].used \in Nat /\ p[h].used <= Len(p[h].words) /\ Len(p[h].words) \in Nat
    BY <2>1, PageIs
  <2>3. q[h].words = p[h].words /\ q[h].used = IF h = g THEN p[h].used + n ELSE p[h].used
    BY <2>1, <1>3
  <2>4. h = g => p[h].used + n <= Len(p[h].words)
    OBVIOUS
  <2>. QED
    BY ONLY <2>2, <2>3, <2>4, n \in Nat
<1>5. PoolOK(q)
  BY <1>3, <1>4 DEF PoolOK
<1>6. /\ at \in [page : Nat, offset : Nat] /\ at.page = g /\ at.offset = p[g].used
      /\ p[g].used + n <= q[g].used /\ p[g].used <= p[g].used
  <2>1. p[g].used \in Nat
    BY PageIs
  <2>2. q[g].used = p[g].used + n /\ g \in Nat
    BY <1>3
  <2>. QED
    BY ONLY <2>1, <2>2, n \in Nat
<1>. QED
  BY <1>1, <1>3, <1>4, <1>5, <1>6 DEF Grants

LEMMA GreatestNumber ==
  ASSUME NEW n \in Nat, NEW S \in SUBSET (1..n), S # {}
  PROVE  Max(S) \in S
<1> DEFINE T == {n - x : x \in S}
<1>1. T \in SUBSET Nat /\ T # {}
  <2>1. \A x \in S : n - x \in Nat
    OBVIOUS
  <2>. QED
    BY <2>1
<1>2. PICK m \in T : \A k \in T : m <= k
  <2> HIDE DEF T
  <2>. QED
    BY <1>1, LeastNumber
<1>3. PICK x \in S : m = n - x
  OBVIOUS
<1>4. \A y \in S : x >= y
  <2>1. ASSUME NEW y \in S PROVE x >= y
    <3>1. n - y \in T
      OBVIOUS
    <3>2. n - x <= n - y /\ x \in Int /\ y \in Int
      BY <1>2, <1>3, <3>1
    <3>. QED
      BY <3>2
  <2>. QED
    BY <2>1
<1>. QED
  BY <1>3, <1>4 DEF Max

LEMMA AllocGrants ==
  ASSUME NEW p, PoolOK(p), NEW n \in Nat
  PROVE  Grants(p, Alloc(p, n).pool, Alloc(p, n).at, n)
<1>1. /\ p \in Seq(Page) /\ Len(p) \in Nat
      /\ \A h \in 1..Len(p) : p[h].used \in Nat /\ Len(p[h].words) \in Nat
  <2>1. p \in Seq(Page)
    BY DEF PoolOK
  <2>2. \A h \in 1..Len(p) : p[h].used \in Nat /\ Len(p[h].words) \in Nat
    BY PageIs
  <2>3. Len(p) \in Nat
    BY <2>1
  <2>. QED
    BY ONLY <2>1, <2>2, <2>3
<1>2. CASE Fits(p, n) # {}
  <2> DEFINE g == Max(Fits(p, n))
  <2>1. Fits(p, n) \in SUBSET (1..Len(p))
    BY <1>1 DEF Fits
  <2>2. g \in Fits(p, n)
    BY <1>1, <1>2, <2>1, GreatestNumber
  <2>3. Alloc(p, n) = Given(p, g, n)
    BY <1>2 DEF Alloc
  <2> HIDE DEF g
  <2>4. g \in 1..Len(p) /\ p[g].used + n <= Len(p[g].words)
    BY <1>1, <2>1, <2>2 DEF Fits
  <2>. QED
    BY <2>3, <2>4, GivenGrants
<1>3. CASE Fits(p, n) = {}
  <2> DEFINE size == Larger(n, PageSize)  new == NewPage(size)  r == Append(p, new)
  <2>1. size \in Nat /\ n <= size
    BY MemoryPoolAssumption DEF Larger
  <2>2. new \in Page /\ new.used = 0 /\ Len(new.words) = size
    <3> HIDE DEF size
    <3>1. [i \in 1..size |-> Zero] \in Seq(Word) /\ Len([i \in 1..size |-> Zero]) = size
      BY <2>1 DEF Word
    <3>. QED
      BY <3>1 DEF NewPage, Page
  <2>3. Alloc(p, n) = Given(r, Len(p) + 1, n)
    BY <1>3 DEF Alloc
  <2> HIDE DEF new, size
  <2>4. /\ r \in Seq(Page) /\ Len(r) = Len(p) + 1
        /\ r[Len(p) + 1] = new /\ \A h \in 1..Len(p) : r[h] = p[h]
    BY <1>1, <2>2
  <2> HIDE DEF r
  <2>5. PoolOK(r)
    <3>1. ASSUME NEW h \in 1..Len(r) PROVE r[h].used <= Len(r[h].words)
      <4>1. CASE h \in 1..Len(p)
        BY <2>4, <4>1 DEF PoolOK
      <4>2. CASE h = Len(p) + 1
        BY <2>1, <2>2, <2>4, <4>2
      <4>. QED
        BY <1>1, <2>4, <4>1, <4>2
    <3>. QED
      BY <2>4, <3>1 DEF PoolOK
  <2>6. Len(p) + 1 \in 1..Len(r) /\ r[Len(p) + 1].used + n <= Len(r[Len(p) + 1].words)
    BY <1>1, <2>1, <2>2, <2>4
  <2> DEFINE q == Given(r, Len(p) + 1, n).pool  at == Given(r, Len(p) + 1, n).at
  <2>7. Grants(r, q, at, n) /\ at.page = Len(p) + 1
    BY <2>5, <2>6, GivenGrants DEF Given
  <2> HIDE DEF q, at
  <2>8. \A h \in 1..Len(p) : q[h].words = p[h].words /\ p[h].used <= q[h].used
    <3>1. \A h \in 1..Len(p) : h \in 1..Len(r)
      BY <1>1, <2>4
    <3>2. \A h \in 1..Len(r) : q[h].words = r[h].words /\ r[h].used <= q[h].used
      BY <2>7 DEF Grants
    <3>. QED
      BY <2>4, <3>1, <3>2
  <2>9. Len(p) <= Len(q) /\ ~(at.page <= Len(p))
    <3>1. Len(q) \in Nat /\ Len(r) <= Len(q)
      BY <2>7 DEF Grants, PoolOK
    <3>. QED
      BY <1>1, <2>4, <2>7, <3>1
  <2>10. Grants(p, q, at, n)
    BY <2>7, <2>8, <2>9 DEF Grants
  <2>. QED
    BY <2>3, <2>10 DEF q, at
<1>. QED
  BY <1>2, <1>3

\* q is p but for the words ws from word i on of the block at at.
Stores(p, q, at, i, ws) ==
  /\ PoolOK(q)
  /\ Len(q) = Len(p)
  /\ \A g \in 1..Len(p) : q[g].used = p[g].used
  /\ \A g \in 1..Len(p) : \A w \in 1..Len(p[g].words) :
       q[g].words[w] = IF g = at.page /\ w \in (at.offset + i + 1)..(at.offset + i + Len(ws))
                       THEN ws[w - (at.offset + i)] ELSE p[g].words[w]

LEMMA StoreIs ==
  ASSUME NEW p, PoolOK(p), NEW at \in [page : Nat, offset : Nat], at.page \in 1..Len(p),
         NEW i \in Nat, NEW ws \in Seq(Word)
  PROVE  Stores(p, Store(p, at, i, ws), at, i, ws)
<1> DEFINE first == at.offset + i + 1
           old == p[at.page].words
           new == [j \in DOMAIN old |-> IF j \in first..(first + Len(ws) - 1) THEN ws[j - first + 1] ELSE old[j]]
           q == [p EXCEPT ![at.page].words = new]
<1>1. Store(p, at, i, ws) = q
  BY DEF Store
<1>2. /\ p \in Seq(Page) /\ Len(p) \in Nat
      /\ \A h \in 1..Len(p) : /\ p[h] = [words |-> p[h].words, used |-> p[h].used]
                              /\ p[h].used \in Nat /\ p[h].words \in Seq(Word)
                              /\ p[h].used <= Len(p[h].words) /\ Len(p[h].words) \in Nat
  <2>1. p \in Seq(Page)
    BY DEF PoolOK
  <2>. QED
    BY <2>1, PageIs
<1>3. old \in Seq(Word) /\ DOMAIN old = 1..Len(old) /\ Len(old) \in Nat
  <2>1. p[at.page].words \in Seq(Word)
    BY PageIs
  <2>. QED
    BY <2>1
<1>4. first \in Nat /\ Len(ws) \in Nat /\ first + Len(ws) - 1 = at.offset + i + Len(ws)
      /\ at.offset \in Nat
  OBVIOUS
<1>5. \A j \in 1..Len(old) : new[j] = IF j \in (at.offset + i + 1)..(at.offset + i + Len(ws))
                                      THEN ws[j - (at.offset + i)] ELSE old[j]
  <2>1. ASSUME NEW j \in 1..Len(old)
        PROVE  j - first + 1 = j - (at.offset + i)
    BY <1>3, <1>4
  <2> HIDE DEF old
  <2>. QED
    BY <1>3, <1>4, <2>1
<1>6. new \in Seq(Word) /\ Len(new) = Len(old)
  <2>1. ASSUME NEW j \in 1..Len(old) PROVE new[j] \in Word
    <3>1. CASE j \in (at.offset + i + 1)..(at.offset + i + Len(ws))
      <4>1. j - (at.offset + i) \in 1..Len(ws)
        BY <1>4, <3>1
      <4>2. ws[j - (at.offset + i)] \in Word
        BY <4>1
      <4> HIDE DEF new
      <4>. QED
        BY <1>5, <3>1, <4>2
    <3>2. CASE ~(j \in (at.offset + i + 1)..(at.offset + i + Len(ws)))
      <4>1. old[j] \in Word
        BY <1>3
      <4> HIDE DEF new
      <4>. QED
        BY <1>5, <3>2, <4>1
    <3>. QED
      BY <3>1, <3>2
  <2>2. new = [j \in 1..Len(old) |-> new[j]]
    BY <1>3
  <2> DEFINE n == Len(old)
  <2>3. n \in Nat /\ new = [j \in 1..n |-> new[j]] /\ \A j \in 1..n : new[j] \in Word
    BY <1>3, <2>1, <2>2
  <2> HIDE DEF new, n
  <2>4. new \in Seq(Word) /\ Len(new) = n
    BY <2>3
  <2>. QED
    BY <2>4 DEF n
<1> HIDE DEF new
<1>7. /\ q \in Seq(Page) /\ Len(q) = Len(p)
      /\ \A h \in 1..Len(p) : /\ q[h].used = p[h].used
                              /\ q[h].words = IF h = at.page THEN new ELSE p[h].words
  <2> DEFINE page == [words |-> new, used |-> p[at.page].used]
  <2>1. q = [p EXCEPT ![at.page] = page]
    <3>1. p[at.page] = [words |-> p[at.page].words, used |-> p[at.page].used]
      BY <1>2
    <3>2. [p[at.page] EXCEPT !.words = new] = page
      BY <3>1
    <3>. QED
      BY <3>2
  <2>2. page \in Page
    BY <1>2, <1>6 DEF Page
  <2>3. page.words = new /\ page.used = p[at.page].used
    OBVIOUS
  <2> HIDE DEF q, page
  <2>. QED
    BY <1>2, <2>1, <2>2, <2>3
<1> HIDE DEF q
<1>8. PoolOK(q)
  <2>1. ASSUME NEW h \in 1..Len(p) PROVE q[h].used <= Len(q[h].words)
    BY <1>2, <1>6, <1>7
  <2>. QED
    BY <1>7, <2>1 DEF PoolOK
<1>9. ASSUME NEW g \in 1..Len(p), NEW w \in 1..Len(p[g].words)
      PROVE  q[g].words[w] = IF g = at.page /\ w \in (at.offset + i + 1)..(at.offset + i + Len(ws))
                             THEN ws[w - (at.offset + i)] ELSE p[g].words[w]
  <2>1. CASE g = at.page
    <3>1. w \in 1..Len(old) /\ q[g].words = new /\ p[g].words = old
      BY <1>7, <2>1
    <3> HIDE DEF old
    <3>. QED
      BY <1>5, <2>1, <3>1
  <2>2. CASE g # at.page
    BY <1>7, <2>2
  <2>. QED
    BY <2>1, <2>2
<1>. QED
  BY <1>1, <1>7, <1>8, <1>9 DEF Stores

-----------------------------------------------------------------------------

LEMMA HeaderIs ==
  ASSUME NEW l \in Headers
  PROVE  /\ l.elements \in [page : Nat, offset : Nat]
         /\ l.elements.page \in Nat /\ l.elements.offset \in Nat
         /\ l.size \in Nat /\ l.capacity \in Nat
         /\ l = [elements |-> l.elements, size |-> l.size, capacity |-> l.capacity]
BY DEF Headers

LEMMA HeaderChanged ==
  ASSUME NEW l \in Headers, NEW a, NEW n
  PROVE  /\ [l EXCEPT !.elements = a, !.capacity = n] = [elements |-> a, size |-> l.size, capacity |-> n]
         /\ [l EXCEPT !.size = n] = [elements |-> l.elements, size |-> n, capacity |-> l.capacity]
<1>1. PICK e, s, c : l = [elements |-> e, size |-> s, capacity |-> c]
  BY HeaderIs
<1>2. l.elements = e /\ l.size = s /\ l.capacity = c
  BY <1>1
<1>3. [l EXCEPT !.elements = a, !.capacity = n] = [elements |-> a, size |-> s, capacity |-> n]
  <2>1. PICK m : m = [l EXCEPT !.elements = a]
    OBVIOUS
  <2>2. m = [elements |-> a, size |-> s, capacity |-> c]
    BY <1>1, <2>1
  <2>3. [m EXCEPT !.capacity = n] = [elements |-> a, size |-> s, capacity |-> n]
    BY <2>2
  <2>4. [l EXCEPT !.elements = a, !.capacity = n] = [m EXCEPT !.capacity = n]
    BY <2>1
  <2>. QED
    BY <2>3, <2>4
<1>4. [l EXCEPT !.size = n] = [elements |-> e, size |-> n, capacity |-> c]
  BY <1>1
<1>. QED
  BY <1>2, <1>3, <1>4

LEMMA Resized ==
  ASSUME NEW l \in Headers, NEW n \in Nat
  PROVE  /\ [l EXCEPT !.size = n] \in Headers
         /\ [l EXCEPT !.size = n].elements = l.elements
         /\ [l EXCEPT !.size = n].size = n
         /\ [l EXCEPT !.size = n].capacity = l.capacity
<1>1. [l EXCEPT !.size = n] = [elements |-> l.elements, size |-> n, capacity |-> l.capacity]
  BY HeaderChanged
<1>2. l.elements \in [page : Nat, offset : Nat] /\ l.capacity \in Nat
  BY HeaderIs
<1>. QED
  BY <1>1, <1>2 DEF Headers

\* The words of a list's block lie in the page.
LEMMA WordsLieInPage ==
  ASSUME NEW p, PoolOK(p), NEW at \in [page : Nat, offset : Nat], at.page \in 1..Len(p),
         NEW c \in Nat, at.offset + c <= p[at.page].used
  PROVE  /\ \A i \in 0..(c - 1) : at.offset + i + 1 \in 1..Len(p[at.page].words)
         /\ \A i \in 0..(c - 1) : Load(p, at, i) \in Word
<1>1. /\ p[at.page].words \in Seq(Word) /\ Len(p[at.page].words) \in Nat
      /\ p[at.page].used \in Nat /\ p[at.page].used <= Len(p[at.page].words)
  BY PageIs
<1>2. at.offset \in Nat
  OBVIOUS
<1>3. ASSUME NEW i \in 0..(c - 1)
      PROVE  at.offset + i + 1 \in 1..Len(p[at.page].words)
  BY <1>1, <1>2
<1>4. ASSUME NEW i \in 0..(c - 1)
      PROVE  Load(p, at, i) \in Word
  BY <1>1, <1>3 DEF Load
<1>. QED
  BY <1>3, <1>4

\* What is read of a block after a store in it.
LEMMA LoadOfStored ==
  ASSUME NEW p, PoolOK(p), NEW at \in [page : Nat, offset : Nat], at.page \in 1..Len(p),
         NEW c \in Nat, at.offset + c <= p[at.page].used,
         NEW i \in Nat, NEW ws \in Seq(Word)
  PROVE  \A j \in 0..(c - 1) :
           Load(Store(p, at, i, ws), at, j) =
             IF j \in i..(i + Len(ws) - 1) THEN ws[j - i + 1] ELSE Load(p, at, j)
<1> DEFINE q == Store(p, at, i, ws)
<1> SUFFICES ASSUME NEW j \in 0..(c - 1)
             PROVE  Load(q, at, j) = IF j \in i..(i + Len(ws) - 1) THEN ws[j - i + 1] ELSE Load(p, at, j)
  OBVIOUS
<1>1. at.offset + j + 1 \in 1..Len(p[at.page].words)
  BY WordsLieInPage
<1> DEFINE w == at.offset + j + 1
<1>2. q[at.page].words[w] = IF w \in (at.offset + i + 1)..(at.offset + i + Len(ws))
                            THEN ws[w - (at.offset + i)] ELSE p[at.page].words[w]
  <2>1. Stores(p, q, at, i, ws)
    BY StoreIs
  <2>2. w \in 1..Len(p[at.page].words)
    BY <1>1
  <2> HIDE DEF q, w
  <2>. QED
    BY <2>1, <2>2 DEF Stores
<1>3. Load(q, at, j) = q[at.page].words[w] /\ Load(p, at, j) = p[at.page].words[w]
  BY DEF Load
<1>4. at.offset \in Nat /\ Len(ws) \in Nat /\ j \in Nat
  OBVIOUS
<1> HIDE DEF q
<1>5. /\ w \in (at.offset + i + 1)..(at.offset + i + Len(ws)) <=> j \in i..(i + Len(ws) - 1)
      /\ w - (at.offset + i) = j - i + 1
  BY ONLY <1>4, i \in Nat
<1> HIDE DEF w
<1>. QED
  BY ONLY <1>2, <1>3, <1>5

LEMMA StoreSpares ==
  ASSUME NEW p, PoolOK(p), NEW at \in [page : Nat, offset : Nat], at.page \in 1..Len(p),
         NEW i \in Nat, NEW ws \in Seq(Word),
         NEW l, ListOK(p, l), Outside(at, i, Len(ws), l)
  PROVE  Spared(p, Store(p, at, i, ws), l)
<1> DEFINE q == Store(p, at, i, ws)
           to == l.elements
<1>1. /\ to \in [page : Nat, offset : Nat] /\ l.capacity \in Nat /\ to.offset \in Nat
      /\ to.page \in 1..Len(p) /\ to.offset + l.capacity <= p[to.page].used
  BY HeaderIs DEF ListOK
<1>2. /\ Len(q) = Len(p) /\ q[to.page].used = p[to.page].used /\ p[to.page].used \in Nat
  <2>1. Stores(p, q, at, i, ws)
    BY StoreIs
  <2> HIDE DEF q
  <2>. QED
    BY <1>1, <2>1, PageIs DEF Stores
<1>3. ASSUME NEW k \in 0..(l.capacity - 1)
      PROVE  Load(q, to, k) = Load(p, to, k)
  <2> DEFINE w == to.offset + k + 1
  <2>1. w \in 1..Len(p[to.page].words)
    BY <1>1, WordsLieInPage
  <2>2. ~(to.page = at.page /\ w \in (at.offset + i + 1)..(at.offset + i + Len(ws)))
    <3>1. at.offset \in Nat /\ Len(ws) \in Nat /\ k \in Nat
      BY <1>1
    <3>2. CASE at.page # to.page
      BY <3>2
    <3>3. CASE at.offset + i + Len(ws) <= to.offset
      BY <1>1, <3>1, <3>3
    <3>4. CASE to.offset + l.capacity <= at.offset + i
      <4>1. w <= to.offset + l.capacity
        BY <1>1, <3>1
      <4>2. w \in Int /\ at.offset + i \in Int
        BY <1>1, <3>1
      <4>3. to.offset + l.capacity \in Int
        BY <1>1
      <4>4. w <= at.offset + i
        <5> DEFINE x == to.offset + l.capacity  y == at.offset + i
        <5>1. w \in Int /\ x \in Int /\ y \in Int /\ w <= x /\ x <= y
          BY <3>4, <4>1, <4>2, <4>3
        <5> HIDE DEF w, x, y
        <5>2. w <= y
          BY ONLY <5>1
        <5>. QED
          BY <5>2 DEF y
      <4> HIDE DEF w
      <4>. QED
        BY <4>2, <4>4
    <3>. QED
      BY <3>2, <3>3, <3>4 DEF Outside
  <2>3. q[to.page].words[w] = p[to.page].words[w]
    <3> HIDE DEF w, to
    <3>. QED
      <4>1. Stores(p, q, at, i, ws)
        BY StoreIs
      <4> HIDE DEF q
      <4>. QED
        BY <1>1, <2>1, <2>2, <4>1 DEF Stores
  <2>. QED
    BY <2>3 DEF Load
<1>4. p[to.page].used <= q[to.page].used
  BY <1>2
<1>. QED
  BY <1>1, <1>2, <1>3, <1>4 DEF Spared

-----------------------------------------------------------------------------

\* q is p with a new block of n words at at: apart from the block of each list
\* of p, which stays as it was.
Makes(p, q, at, n) ==
  /\ PoolOK(q)
  /\ at \in [page : Nat, offset : Nat]
  /\ at.page \in 1..Len(q)
  /\ at.offset + n <= q[at.page].used
  /\ \A l : ListOK(p, l) => Spared(p, q, l) /\ Outside(at, 0, n, l)

LEMMA AllocMakes ==
  ASSUME NEW p, PoolOK(p), NEW n \in Nat
  PROVE  Makes(p, Alloc(p, n).pool, Alloc(p, n).at, n)
<1> DEFINE q == Alloc(p, n).pool  at == Alloc(p, n).at
<1>1. Grants(p, q, at, n)
  BY AllocGrants
<1> HIDE DEF q, at
<1>2. ASSUME NEW l, ListOK(p, l)
      PROVE  Spared(p, q, l) /\ Outside(at, 0, n, l)
  <2> DEFINE to == l.elements
  <2>1. /\ to.page \in 1..Len(p) /\ to.offset \in Nat /\ l.capacity \in Nat
        /\ to.offset + l.capacity <= p[to.page].used /\ p[to.page].used \in Nat
    BY <1>2, HeaderIs, PageIs DEF ListOK
  <2>2. Len(p) \in Nat /\ Len(q) \in Nat /\ Len(p) <= Len(q) /\ at.offset \in Nat
    BY <1>1 DEF Grants, PoolOK
  <2>3. q[to.page].words = p[to.page].words /\ p[to.page].used <= q[to.page].used
    BY <1>1, <2>1 DEF Grants
  <2>4. Spared(p, q, l)
    BY <2>1, <2>2, <2>3 DEF Spared, Load
  <2>5. CASE at.page = to.page
    <3>1. p[to.page].used <= at.offset
      BY <1>1, <2>1, <2>2, <2>5 DEF Grants
    <3>2. to.offset + l.capacity <= at.offset + 0
      BY <2>1, <2>2, <3>1
    <3>. QED
      BY <2>4, <3>2 DEF Outside
  <2>6. CASE at.page # to.page
    BY <2>4, <2>6 DEF Outside
  <2>. QED
    BY <2>5, <2>6
<1>3. Makes(p, q, at, n)
  BY <1>1, <1>2 DEF Makes, Grants
<1>. QED
  BY <1>3 DEF q, at

\* A store in the new block touches nothing else.
LEMMA StoreInNew ==
  ASSUME NEW p, PoolOK(p), NEW q, NEW at, NEW n \in Nat, Makes(p, q, at, n),
         NEW ws \in Seq(Word), Len(ws) <= n
  PROVE  /\ Makes(p, Store(q, at, 0, ws), at, n)
         /\ \A j \in 0..(Len(ws) - 1) : Load(Store(q, at, 0, ws), at, j) = ws[j + 1]
<1> DEFINE r == Store(q, at, 0, ws)
<1>1. /\ PoolOK(q) /\ at \in [page : Nat, offset : Nat] /\ at.page \in 1..Len(q)
      /\ at.offset + n <= q[at.page].used /\ Len(ws) \in Nat /\ at.offset \in Nat
  BY DEF Makes
<1>2. PoolOK(r) /\ Len(r) = Len(q) /\ r[at.page].used = q[at.page].used
  <2>1. Stores(q, r, at, 0, ws)
    BY <1>1, StoreIs
  <2> HIDE DEF r
  <2>. QED
    BY <1>1, <2>1 DEF Stores
<1>3. ASSUME NEW l, ListOK(p, l)
      PROVE  Spared(p, r, l) /\ Outside(at, 0, n, l)
  <2>1. Spared(p, q, l) /\ Outside(at, 0, n, l)
    BY <1>3 DEF Makes
  <2>2. ListOK(q, l)
    BY <1>1, <1>3, <2>1, SparedIs
  <2>3. Outside(at, 0, Len(ws), l)
    <3>1. l.elements.offset \in Nat /\ l.capacity \in Nat
      BY <1>3, HeaderIs DEF ListOK
    <3>. QED
      BY <1>1, <2>1, <3>1 DEF Outside
  <2>4. Spared(q, r, l)
    BY <1>1, <2>2, <2>3, StoreSpares
  <2>. QED
    BY <1>1, <1>2, <1>3, <2>1, <2>4, SparedTwice
<1>4. \A j \in 0..(Len(ws) - 1) : Load(r, at, j) = ws[j + 1]
  <2>1. SUFFICES ASSUME NEW j \in 0..(Len(ws) - 1) PROVE Load(r, at, j) = ws[j + 1]
    OBVIOUS
  <2>2. j \in 0..(n - 1) /\ j \in 0..(0 + Len(ws) - 1) /\ j - 0 + 1 = j + 1
    BY <1>1
  <2>3. Load(r, at, j) = IF j \in 0..(0 + Len(ws) - 1) THEN ws[j - 0 + 1] ELSE Load(q, at, j)
    BY <1>1, <2>2, LoadOfStored
  <2>. QED
    BY <2>2, <2>3
<1> HIDE DEF r
<1>5. Makes(p, r, at, n)
  BY <1>1, <1>2, <1>3 DEF Makes
<1>. QED
  BY <1>4, <1>5 DEF r

LEMMA CallocMakes ==
  ASSUME NEW p, PoolOK(p), NEW n \in Nat
  PROVE  Makes(p, Calloc(p, n).pool, Calloc(p, n).at, n)
<1> DEFINE a == Alloc(p, n)  ws == [i \in 1..n |-> Zero]
<1>1. ws \in Seq(Word) /\ Len(ws) = n
  BY DEF Word
<1>2. Makes(p, a.pool, a.at, n)
  BY AllocMakes
<1>3. Calloc(p, n).pool = Store(a.pool, a.at, 0, ws) /\ Calloc(p, n).at = a.at
  <2>1. \E q, at : a = [pool |-> q, at |-> at]
    BY DEF Alloc, Given
  <2> HIDE DEF ws
  <2>. QED
    BY <2>1 DEF Calloc, ws
<1> HIDE DEF ws, a
<1>4. Makes(p, Store(a.pool, a.at, 0, ws), a.at, n)
  BY <1>1, <1>2, StoreInNew
<1>. QED
  BY <1>3, <1>4

\* The words of a list are copied to its new block.
LEMMA ReallocMakes ==
  ASSUME NEW p, PoolOK(p), NEW l, ListOK(p, l), NEW n \in Nat, l.capacity <= n
  PROVE  LET r == Realloc(p, l.elements, l.capacity, n)
         IN  /\ Makes(p, r.pool, r.at, n)
             /\ \A j \in 0..(l.capacity - 1) : Load(r.pool, r.at, j) = Load(p, l.elements, j)
<1> DEFINE c == Calloc(p, n)  k == l.capacity  ws == Block(p, l.elements, k)
           r == Realloc(p, l.elements, k, n)
<1>1. /\ l.elements \in [page : Nat, offset : Nat] /\ k \in Nat
      /\ l.elements.page \in 1..Len(p) /\ l.elements.offset + k <= p[l.elements.page].used
  BY HeaderIs DEF ListOK
<1>2. Smaller(k, n) = k
  BY <1>1 DEF Smaller
<1>3. ws \in Seq(Word) /\ Len(ws) = k /\ \A j \in 0..(k - 1) : ws[j + 1] = Load(p, l.elements, j)
  <2>1. \A i \in 1..k : i - 1 \in 0..(k - 1)
    BY <1>1
  <2>2. \A i \in 1..k : Load(p, l.elements, i - 1) \in Word
    BY <1>1, <2>1, WordsLieInPage
  <2>3. \A j \in 0..(k - 1) : j + 1 \in 1..k /\ (j + 1) - 1 = j
    BY <1>1
  <2> HIDE DEF k
  <2>. QED
    BY <1>1, <2>2, <2>3 DEF Block
<1>4. Makes(p, c.pool, c.at, n)
  BY CallocMakes
<1>5. r.pool = Store(c.pool, c.at, 0, ws) /\ r.at = c.at
  <2>1. \E q, at : c = [pool |-> q, at |-> at]
    <3> DEFINE a == Alloc(p, n)
    <3>1. \E q, at : a = [pool |-> q, at |-> at]
      BY DEF Alloc, Given
    <3> HIDE DEF a
    <3>2. Calloc(p, n) = [a EXCEPT !.pool = Store(a.pool, a.at, 0, [i \in 1..n |-> Zero])]
      BY DEF Calloc, a
    <3> DEFINE q == Store(a.pool, a.at, 0, [i \in 1..n |-> Zero])
    <3> HIDE DEF q
    <3>. QED
      BY <3>1, <3>2 DEF q
  <2>2. r = [c EXCEPT !.pool = Store(c.pool, c.at, 0, ws)]
    BY <1>2 DEF Realloc
  <2> HIDE DEF ws, c, r
  <2>. QED
    BY <2>1, <2>2
<1> HIDE DEF ws, c, r
<1>6. /\ Makes(p, r.pool, r.at, n)
      /\ \A j \in 0..(Len(ws) - 1) : Load(r.pool, r.at, j) = ws[j + 1]
  BY <1>1, <1>3, <1>4, <1>5, StoreInNew
<1>. QED
  BY <1>3, <1>6 DEF r

-----------------------------------------------------------------------------
(* Capacities. *)

\* A set of numbers that doubles each below n goes beyond n.
LEMMA DoublingReaches ==
  ASSUME NEW n \in Nat, NEW S \in SUBSET (Nat \ {0}), S # {}, \A p \in S : p < n => 2 * p \in S
  PROVE  \E p \in S : p >= n
<1>1. SUFFICES ASSUME \A p \in S : p < n PROVE FALSE
  OBVIOUS
<1> DEFINE T == {n - p : p \in S}
<1>2. T \in SUBSET Nat /\ T # {}
  <2>1. \A p \in S : n - p \in Nat
    BY <1>1
  <2>. QED
    BY <2>1
<1>3. PICK m \in T : \A k \in T : m <= k
  <2> HIDE DEF T
  <2>. QED
    BY <1>2, LeastNumber
<1>4. PICK p \in S : m = n - p
  OBVIOUS
<1>5. 2 * p \in S /\ p \in Nat /\ p > 0
  BY <1>1
<1>6. n - p <= n - 2 * p
  <2>1. n - 2 * p \in T
    BY <1>5
  <2>. QED
    BY <1>3, <1>4, <2>1
<1>. QED
  BY <1>5, <1>6

LEMMA LeastOf ==
  ASSUME NEW S \in SUBSET Nat, S # {}
  PROVE  Min(S) \in S
<1>1. \E n \in S : \A k \in S : n <= k
  BY LeastNumber
<1>. QED
  BY <1>1 DEF Min

LEMMA NextPowerIs ==
  ASSUME NEW c \in Capacities
  PROVE  NextPowerOfTwo(c) \in Nat
<1>1. /\ c \in Nat /\ MinCapacity \in Nat /\ PowersOfTwo \in SUBSET (Nat \ {0}) /\ PowersOfTwo # {}
      /\ \A p \in PowersOfTwo : p < c => 2 * p \in PowersOfTwo
  BY ArrayListAssumption
<1>2. \E p \in PowersOfTwo : p >= c
  BY <1>1, DoublingReaches
<1> DEFINE S == {p \in PowersOfTwo : p >= c}
<1>3. S \in SUBSET Nat /\ S # {}
  BY <1>1, <1>2
<1>4. Min(S) \in Nat
  <2> HIDE DEF S
  <2>. QED
    BY <1>3, LeastOf
<1>. QED
  BY <1>1, <1>4 DEF NextPowerOfTwo

LEMMA GrownIs ==
  ASSUME NEW capacity \in Nat, NEW wanted \in 0..(MaxLength - 1)
  PROVE  Grown(capacity, wanted) \in Nat /\ Grown(capacity, wanted) > capacity
<1> DEFINE P == PowersOfTwo \ {1}
           twice == IF capacity = 0 THEN 1 ELSE capacity * 2
           S == {c \in {twice * p : p \in P} : c >= wanted}
<1>1. /\ MaxLength \in Nat /\ wanted \in Nat /\ wanted <= MaxLength /\ 1 <= MaxLength
      /\ P \in SUBSET (Nat \ {0})
      /\ \A p \in PowersOfTwo : p <= MaxLength => 2 * p \in PowersOfTwo
  BY ArrayListAssumption
<1>2. \A p \in P : p \in Nat /\ p >= 2 /\ (p < wanted => 2 * p \in P)
  <2>1. ASSUME NEW p \in P PROVE p \in Nat /\ p >= 2 /\ (p < wanted => 2 * p \in P)
    <3>1. p \in Nat /\ p >= 2
      BY <1>1
    <3>2. ASSUME p < wanted PROVE 2 * p \in PowersOfTwo /\ 2 * p # 1
      BY <1>1, <3>1, <3>2
    <3>. QED
      BY <3>1, <3>2
  <2>. QED
    BY <2>1
<1>3. 2 \in P
  <2>1. 1 \in PowersOfTwo
    BY ArrayListAssumption
  <2>2. 2 * 1 = 2
    OBVIOUS
  <2>. QED
    BY <1>1, <2>1, <2>2
<1>4. PICK p \in P : p >= wanted
  <2> HIDE DEF P
  <2>. QED
    BY <1>1, <1>2, <1>3, DoublingReaches
<1>5. twice \in Nat /\ twice >= 1 /\ 2 * twice > capacity
  OBVIOUS
<1> HIDE DEF P
<1> DEFINE t == twice
<1>6. t \in Nat /\ t >= 1 /\ 2 * t > capacity
  BY <1>5
<1>7. S = {c \in {t * q : q \in P} : c >= wanted}
  OBVIOUS
<1> HIDE DEF t, S
<1>8. \A q \in P : t * q \in Nat /\ t * q >= q /\ t * q >= t * 2
  <2>1. SUFFICES ASSUME NEW q \in P PROVE t * q \in Nat /\ t * q >= q /\ t * q >= t * 2
    OBVIOUS
  <2>2. q \in Nat /\ q >= 2
    BY <1>2
  <2>. QED
    BY <1>6, <2>2
<1>9. t * p \in S
  BY <1>1, <1>2, <1>4, <1>7, <1>8
<1>10. S \in SUBSET Nat
  BY <1>7, <1>8
<1>11. Min(S) \in S
  BY <1>9, <1>10, LeastOf
<1>12. PICK q \in P : Min(S) = t * q
  BY <1>7, <1>11
<1>13. Min(S) \in Nat /\ Min(S) > capacity
  BY <1>6, <1>8, <1>12
<1>. QED
  BY <1>13 DEF Grown, S, P

-----------------------------------------------------------------------------
(* What the lists hold. *)

LEMMA ContentsIs ==
  ASSUME NEW p, NEW l, ListOK(p, l)
  PROVE  /\ Contents(p, l) \in Seq(Values)
         /\ Len(Contents(p, l)) = l.size
         /\ \A j \in 1..l.size : Contents(p, l)[j] = Load(p, l.elements, j - 1)
<1> DEFINE n == l.size
<1>1. n \in Nat
  BY HeaderIs DEF ListOK
<1>2. \A j \in 1..n : j - 1 \in 0..(n - 1)
  BY <1>1
<1>3. \A j \in 1..n : Load(p, l.elements, j - 1) \in Values
  BY <1>2 DEF ListOK
<1>4. Contents(p, l) = [j \in 1..n |-> Load(p, l.elements, j - 1)]
  BY DEF Contents, Block
<1> HIDE DEF n
<1>5. Contents(p, l) \in Seq(Values) /\ Len(Contents(p, l)) = n
  BY <1>1, <1>3, <1>4
<1>. QED
  BY <1>4, <1>5 DEF n

LEMMA ApartIsSymmetric ==
  ASSUME NEW l \in Headers, NEW m \in Headers, BlocksApart(l, m)
  PROVE  BlocksApart(m, l)
<1>1. /\ l.elements.offset \in Nat /\ l.capacity \in Nat
      /\ m.elements.offset \in Nat /\ m.capacity \in Nat
  BY HeaderIs
<1>. QED
  BY <1>1 DEF BlocksApart, Outside

LEMMA OutsidePart ==
  ASSUME NEW at, at.offset \in Nat, NEW m, m.elements.offset \in Nat, m.capacity \in Nat,
         NEW c \in Nat, NEW i \in Nat, NEW n \in Nat, i + n <= c, Outside(at, 0, c, m)
  PROVE  Outside(at, i, n, m)
BY DEF Outside

\* A store in the block of l.
LEMMA StoreInOwn ==
  ASSUME NEW p, PoolOK(p), NEW l, ListOK(p, l),
         NEW i \in Nat, NEW ws \in Seq(Word), i + Len(ws) <= l.capacity
  PROVE  /\ PoolOK(Store(p, l.elements, i, ws))
         /\ Len(Store(p, l.elements, i, ws)) = Len(p)
         /\ Store(p, l.elements, i, ws)[l.elements.page].used = p[l.elements.page].used
         /\ \A m : ListOK(p, m) /\ BlocksApart(l, m) => Spared(p, Store(p, l.elements, i, ws), m)
         /\ \A j \in 0..(l.capacity - 1) :
              Load(Store(p, l.elements, i, ws), l.elements, j) =
                IF j \in i..(i + Len(ws) - 1) THEN ws[j - i + 1] ELSE Load(p, l.elements, j)
<1> DEFINE at == l.elements  q == Store(p, at, i, ws)  c == l.capacity
<1>1. /\ at \in [page : Nat, offset : Nat] /\ c \in Nat /\ at.offset \in Nat /\ Len(ws) \in Nat
      /\ at.page \in 1..Len(p) /\ at.offset + c <= p[at.page].used
  BY HeaderIs DEF ListOK
<1>2. Stores(p, q, at, i, ws)
  BY <1>1, StoreIs
<1>3. ASSUME NEW m, ListOK(p, m), BlocksApart(l, m)
      PROVE  Spared(p, q, m)
  <2>1. m.elements.offset \in Nat /\ m.capacity \in Nat
    BY <1>3, HeaderIs DEF ListOK
  <2>2. Outside(at, 0, c, m)
    BY <1>3 DEF BlocksApart
  <2> HIDE DEF c, at, q
  <2>3. i \in Nat /\ Len(ws) \in Nat /\ i + Len(ws) <= c
    BY <1>1 DEF c
  <2>4. Outside(at, i, Len(ws), m)
    BY <1>1, <2>1, <2>2, <2>3, OutsidePart
  <2>5. Spared(p, Store(p, at, i, ws), m)
    BY <1>1, <1>3, <2>4, StoreSpares
  <2>. QED
    BY <2>5 DEF q
<1>4. \A j \in 0..(c - 1) :
        Load(q, at, j) = IF j \in i..(i + Len(ws) - 1) THEN ws[j - i + 1] ELSE Load(p, at, j)
  <2> HIDE DEF c, at, q
  <2>1. \A j \in 0..(c - 1) : Load(Store(p, at, i, ws), at, j) =
          IF j \in i..(i + Len(ws) - 1) THEN ws[j - i + 1] ELSE Load(p, at, j)
    BY <1>1, LoadOfStored
  <2>. QED
    BY <2>1 DEF q
<1> HIDE DEF q
<1>5. PoolOK(q) /\ Len(q) = Len(p) /\ q[at.page].used = p[at.page].used
  BY <1>1, <1>2 DEF Stores
<1>. QED
  BY <1>3, <1>4, <1>5 DEF q

\* Room for one more element: the list reads as before, and the others too.
LEMMA EnsureKeeps ==
  ASSUME PoolOK(pool), NEW l, ListOK(pool, l), l.size < MaxLength
  PROVE  /\ PoolOK(Ensure(l).pool)
         /\ ListOK(Ensure(l).pool, Ensure(l).list)
         /\ Ensure(l).list.size = l.size
         /\ l.size < Ensure(l).list.capacity
         /\ Contents(Ensure(l).pool, Ensure(l).list) = Contents(pool, l)
         /\ \A m : ListOK(pool, m) /\ BlocksApart(l, m) =>
                     Spared(pool, Ensure(l).pool, m) /\ BlocksApart(Ensure(l).list, m)
<1>1. /\ l.size \in Nat /\ l.capacity \in Nat /\ l.size <= l.capacity /\ MaxLength \in Nat
      /\ l \in Headers /\ l = [elements |-> l.elements, size |-> l.size, capacity |-> l.capacity]
  BY HeaderIs, ArrayListAssumption DEF ListOK
<1>2. CASE l.size < l.capacity
  <2>1. Ensure(l).pool = pool /\ Ensure(l).list = l
    BY <1>2 DEF Ensure
  <2>2. \A m : ListOK(pool, m) => Spared(pool, pool, m)
    <3>1. ASSUME NEW m, ListOK(pool, m) PROVE Spared(pool, pool, m)
      <4>1. m.elements.page \in 1..Len(pool) /\ pool[m.elements.page].used \in Nat
        BY <3>1, PageIs DEF ListOK
      <4>. QED
        BY <4>1 DEF Spared
    <3>. QED
      BY <3>1
  <2>. QED
    BY <1>2, <2>1, <2>2
<1>3. CASE ~(l.size < l.capacity)
  <2> DEFINE n == Grown(l.capacity, l.size)
             r == Realloc(pool, l.elements, l.capacity, n)
             q == r.pool
             x == [elements |-> r.at, size |-> l.size, capacity |-> n]
  <2>1. n \in Nat /\ n > l.capacity
    <3>1. l.size \in 0..(MaxLength - 1)
      BY <1>1
    <3>. QED
      BY <1>1, <3>1, GrownIs
  <2>2. Ensure(l).pool = q /\ Ensure(l).list = x
    <3> HIDE DEF n
    <3>1. Ensure(l) = [pool |-> r.pool, list |-> [l EXCEPT !.elements = r.at, !.capacity = n]]
      BY <1>3 DEF Ensure, n
    <3>2. [l EXCEPT !.elements = r.at, !.capacity = n] = x
      BY <1>1, HeaderChanged
    <3>. QED
      BY <3>1, <3>2
  <2> HIDE DEF n
  <2>3. /\ Makes(pool, q, r.at, n)
        /\ \A j \in 0..(l.capacity - 1) : Load(q, r.at, j) = Load(pool, l.elements, j)
    <3>1. l.capacity <= n
      BY <1>1, <2>1
    <3>. QED
      BY <2>1, <3>1, ReallocMakes
  <2> DEFINE at == r.at
  <2>4. x.elements = at /\ x.size = l.size /\ x.capacity = n
    OBVIOUS
  <2>5. /\ Makes(pool, q, at, n)
        /\ \A j \in 0..(l.capacity - 1) : Load(q, at, j) = Load(pool, l.elements, j)
    BY <2>3
  <2>6. x = [elements |-> at, size |-> l.size, capacity |-> n]
    OBVIOUS
  <2> HIDE DEF q, at, x
  <2>7. PoolOK(q) /\ ListOK(q, x)
    <3>1. \A i \in 0..(x.size - 1) : Load(q, x.elements, i) \in Values
      <4>1. SUFFICES ASSUME NEW i \in 0..(x.size - 1) PROVE Load(q, x.elements, i) \in Values
        OBVIOUS
      <4>2. i \in 0..(l.size - 1) /\ i \in 0..(l.capacity - 1)
        BY <1>1, <2>4
      <4>3. Load(pool, l.elements, i) \in Values
        BY <4>2 DEF ListOK
      <4>. QED
        BY <2>4, <2>5, <4>2, <4>3
    <3>2. x \in Headers /\ x.size <= x.capacity
      BY <1>1, <2>1, <2>4, <2>5, <2>6 DEF Headers, Makes
    <3>3. x.elements.page \in 1..Len(q) /\ x.elements.offset + x.capacity <= q[x.elements.page].used
      BY <2>4, <2>5 DEF Makes
    <3>. QED
      BY <2>5, <3>1, <3>2, <3>3 DEF ListOK, Makes
  <2>8. Contents(q, x) = Contents(pool, l)
    <3>1. \A j \in 1..l.size : j - 1 \in 0..(l.capacity - 1)
      BY <1>1
    <3>2. \A j \in 1..l.size : Load(q, at, j - 1) = Load(pool, l.elements, j - 1)
      BY <2>5, <3>1
    <3>. QED
      BY <2>4, <3>2 DEF Contents, Block
  <2>9. \A m : ListOK(pool, m) => Spared(pool, q, m) /\ BlocksApart(x, m)
    BY <2>4, <2>5 DEF Makes, BlocksApart
  <2>10. x.size = l.size /\ l.size < x.capacity
    BY <1>1, <2>1, <2>4
  <2>. QED
    BY <2>2, <2>7, <2>8, <2>9, <2>10
<1>. QED
  BY <1>2, <1>3

-----------------------------------------------------------------------------



-----------------------------------------------------------------------------
(* Each list is a sequence of its own. *)

ListSpec == ListInit /\ [][ListNext]_listVars

ListInv ==
  /\ PoolOK(pool)
  /\ lists \in [Lists -> Headers \cup {Absent}]
  /\ \A id \in Lists : lists[id] # Absent => ListOK(pool, lists[id])
  /\ \A id, other \in Lists :
       id # other /\ lists[id] # Absent /\ lists[other] # Absent =>
         BlocksApart(lists[id], lists[other])

\* What AbstractLists is given for the lists.
Held(p, x) == IF x = Absent THEN Absent ELSE Contents(p, x)
AllHeld == [id \in Lists |-> Held(pool, lists[id])]

LEMMA HeaderIsThere ==
  ASSUME NEW l \in Headers
  PROVE  l # Absent
BY ArrayListAssumption DEF Headers

LEMMA HeldIsThere ==
  ASSUME NEW p, NEW l, ListOK(p, l)
  PROVE  Held(p, l) = Contents(p, l) /\ Held(p, l) # Absent /\ Held(p, l) \in Seq(Values)
<1>1. l # Absent
  BY HeaderIsThere DEF ListOK
<1>2. Contents(p, l) \in Seq(Values)
  BY ContentsIs
<1>. QED
  BY <1>1, <1>2, ArrayListAssumption DEF Held

\* A call gives one list a new block or new elements, and spares the others.
LEMMA OneChanges ==
  ASSUME ListInv, NEW id \in Lists, NEW p, PoolOK(p), NEW l, ListOK(p, l),
         pool' = p, lists' = [lists EXCEPT ![id] = l],
         \A m : ListOK(pool, m) /\ (lists[id] # Absent => BlocksApart(lists[id], m)) =>
                  Spared(pool, p, m) /\ BlocksApart(l, m)
  PROVE  ListInv' /\ AllHeld' = [AllHeld EXCEPT ![id] = Contents(p, l)]
<1>1. /\ PoolOK(pool) /\ lists \in [Lists -> Headers \cup {Absent}]
      /\ \A x \in Lists : lists'[x] = IF x = id THEN l ELSE lists[x]
      /\ l \in Headers
  BY DEF ListInv, ListOK
<1>2. lists' \in [Lists -> Headers \cup {Absent}]
  BY <1>1
<1>3. ASSUME NEW x \in Lists \ {id}, lists[x] # Absent
      PROVE  /\ lists[x] \in Headers /\ BlocksApart(l, lists[x])
             /\ ListOK(p, lists[x]) /\ Contents(p, lists[x]) = Contents(pool, lists[x])
  <2>1. ListOK(pool, lists[x]) /\ lists[x] \in Headers
    BY <1>3 DEF ListInv, ListOK
  <2>2. lists[id] # Absent => BlocksApart(lists[id], lists[x])
    BY <1>3 DEF ListInv
  <2>3. Spared(pool, p, lists[x]) /\ BlocksApart(l, lists[x])
    BY <2>1, <2>2
  <2>. QED
    BY <1>1, <2>1, <2>3, SparedIs
<1>4. \A x \in Lists : lists'[x] # Absent => ListOK(p, lists'[x])
  BY <1>1, <1>3
<1>5. ASSUME NEW x \in Lists, NEW y \in Lists, x # y, lists'[x] # Absent, lists'[y] # Absent
      PROVE  BlocksApart(lists'[x], lists'[y])
  <2>1. CASE x = id
    BY <1>1, <1>3, <1>5, <2>1
  <2>2. CASE y = id
    <3>1. lists[x] \in Headers /\ BlocksApart(l, lists[x]) /\ lists'[x] = lists[x] /\ lists'[y] = l
      BY <1>1, <1>3, <1>5, <2>2
    <3>. QED
      BY <1>1, <3>1, ApartIsSymmetric
  <2>3. CASE x # id /\ y # id
    <3>1. lists'[x] = lists[x] /\ lists'[y] = lists[y]
      BY <1>1, <2>3
    <3>2. BlocksApart(lists[x], lists[y])
      BY <1>5, <3>1 DEF ListInv
    <3>. QED
      BY <3>1, <3>2
  <2>. QED
    BY <2>1, <2>2, <2>3
<1>6. ListInv'
  <2>1. PoolOK(pool')
    OBVIOUS
  <2>2. \A x \in Lists : lists'[x] # Absent => ListOK(pool', lists'[x])
    BY <1>4
  <2>. QED
    BY <1>2, <1>5, <2>1, <2>2 DEF ListInv, PoolOK, ListOK, BlocksApart, Outside, Load
<1>7. AllHeld' = [AllHeld EXCEPT ![id] = Contents(p, l)]
  <2>1. \A x \in Lists : Held(p, lists'[x]) = IF x = id THEN Contents(p, l) ELSE Held(pool, lists[x])
    <3>1. SUFFICES ASSUME NEW x \in Lists
                   PROVE  Held(p, lists'[x]) = IF x = id THEN Contents(p, l) ELSE Held(pool, lists[x])
      OBVIOUS
    <3>2. CASE x = id
      BY <1>1, <3>2, HeldIsThere
    <3>3. CASE x # id
      BY <1>1, <1>3, <3>3 DEF Held
    <3>. QED
      BY <3>2, <3>3
  <2>2. AllHeld' = [x \in Lists |-> Held(p, lists'[x])]
    BY DEF AllHeld, Held, Contents, Block, Load
  <2>. QED
    BY <2>1, <2>2 DEF AllHeld
<1>. QED
  BY <1>6, <1>7

\* A list goes, and the others are spared.
LEMMA OneGoes ==
  ASSUME ListInv, NEW id \in Lists, NEW p, PoolOK(p),
         pool' = p, lists' = [lists EXCEPT ![id] = Absent],
         \A x \in Lists \ {id} : lists[x] # Absent => Spared(pool, p, lists[x])
  PROVE  ListInv' /\ AllHeld' = [AllHeld EXCEPT ![id] = Absent]
<1>1. /\ PoolOK(pool) /\ lists \in [Lists -> Headers \cup {Absent}]
      /\ \A x \in Lists : lists'[x] = IF x = id THEN Absent ELSE lists[x]
  BY DEF ListInv
<1>2. lists' \in [Lists -> Headers \cup {Absent}]
  BY <1>1
<1>3. ASSUME NEW x \in Lists \ {id}, lists[x] # Absent
      PROVE  ListOK(p, lists[x]) /\ Contents(p, lists[x]) = Contents(pool, lists[x])
  <2>1. ListOK(pool, lists[x])
    BY <1>3 DEF ListInv
  <2>. QED
    BY <1>1, <1>3, <2>1, SparedIs
<1>4. \A x \in Lists : lists'[x] # Absent => ListOK(p, lists'[x])
  BY <1>1, <1>3
<1>5. \A x, y \in Lists : x # y /\ lists'[x] # Absent /\ lists'[y] # Absent =>
                            BlocksApart(lists'[x], lists'[y])
  BY <1>1 DEF ListInv
<1>6. ListInv'
  <2>1. PoolOK(pool')
    OBVIOUS
  <2>2. \A x \in Lists : lists'[x] # Absent => ListOK(pool', lists'[x])
    BY <1>4
  <2>. QED
    BY <1>2, <1>5, <2>1, <2>2 DEF ListInv, PoolOK, ListOK, BlocksApart, Outside, Load
<1>7. AllHeld' = [AllHeld EXCEPT ![id] = Absent]
  <2>1. \A x \in Lists : Held(p, lists'[x]) = IF x = id THEN Absent ELSE Held(pool, lists[x])
    BY <1>1, <1>3 DEF Held
  <2>2. AllHeld' = [x \in Lists |-> Held(p, lists'[x])]
    BY DEF AllHeld, Held, Contents, Block, Load
  <2>. QED
    BY <2>1, <2>2 DEF AllHeld
<1>. QED
  BY <1>6, <1>7

-----------------------------------------------------------------------------
(* The calls. *)

LEMMA CreatesAList ==
  ASSUME ListInv, NEW id \in Lists, NEW c \in Capacities, ListCreate(id, c)
  PROVE  ListInv' /\ Abstract!Create(id)
<1> DEFINE n == NextPowerOfTwo(c)
           h == Alloc(pool, HeaderSize)
           e == Calloc(h.pool, n)
           l == [elements |-> e.at, size |-> 0, capacity |-> n]
<1>1. lists[id] = Absent /\ pool' = e.pool /\ lists' = [lists EXCEPT ![id] = l]
  BY DEF ListCreate
<1>2. n \in Nat /\ HeaderSize \in Nat /\ PoolOK(pool)
  BY NextPowerIs, ArrayListAssumption DEF ListInv
<1> HIDE DEF n
<1>3. Makes(pool, h.pool, h.at, HeaderSize)
  BY <1>2, AllocMakes
<1> HIDE DEF h
<1>4. PoolOK(h.pool)
  BY <1>3 DEF Makes
<1>5. Makes(h.pool, e.pool, e.at, n)
  BY <1>2, <1>4, CallocMakes
<1> HIDE DEF e
<1>6. l.elements = e.at /\ l.size = 0 /\ l.capacity = n
  OBVIOUS
<1>7. l \in Headers
  BY <1>2, <1>5 DEF Headers, Makes
<1> HIDE DEF l
<1>8. PoolOK(e.pool) /\ ListOK(e.pool, l)
  <2>1. \A i \in 0..(l.size - 1) : Load(e.pool, l.elements, i) \in Values
    BY <1>6
  <2>. QED
    BY <1>2, <1>5, <1>6, <1>7, <2>1 DEF ListOK, Makes
<1>9. ASSUME NEW m, ListOK(pool, m)
      PROVE  Spared(pool, e.pool, m) /\ BlocksApart(l, m)
  <2>1. Spared(pool, h.pool, m)
    BY <1>3, <1>9 DEF Makes
  <2>2. ListOK(h.pool, m)
    BY <1>2, <1>4, <1>9, <2>1, SparedIs
  <2>3. Spared(h.pool, e.pool, m) /\ Outside(e.at, 0, n, m)
    BY <1>5, <2>2 DEF Makes
  <2>4. Spared(pool, e.pool, m)
    BY <1>2, <1>4, <1>8, <1>9, <2>1, <2>3, SparedTwice
  <2>. QED
    BY <1>6, <2>3, <2>4 DEF BlocksApart
<1>10. ListInv' /\ AllHeld' = [AllHeld EXCEPT ![id] = Contents(e.pool, l)]
  <2>1. \A m : ListOK(pool, m) /\ (lists[id] # Absent => BlocksApart(lists[id], m)) =>
                 Spared(pool, e.pool, m) /\ BlocksApart(l, m)
    BY <1>9
  <2>. QED
    BY <1>1, <1>8, <2>1, OneChanges
<1>11. Contents(e.pool, l) = <<>>
  <2>1. Contents(e.pool, l) \in Seq(Values) /\ Len(Contents(e.pool, l)) = 0
    BY <1>6, <1>8, ContentsIs
  <2>. QED
    BY <2>1
<1>. QED
  <2>1. AllHeld' = [AllHeld EXCEPT ![id] = <<>>] /\ AllHeld[id] = Absent
    BY <1>1, <1>10, <1>11 DEF AllHeld, Held
  <2>. QED
    BY <1>10, <2>1 DEF Abstract!Create, Abstract!Exists, Abstract!Become, AllHeld, Held

LEMMA CreatesNoList ==
  ASSUME ListInv, NEW id \in Lists, NEW c \in Capacities, ListCreateFails(id, c)
  PROVE  ListInv' /\ AllHeld' = AllHeld
<1>1. PoolOK(pool) /\ HeaderSize \in Nat
  BY ArrayListAssumption DEF ListInv
<1>2. CASE pool' = pool
  <2>1. lists' = lists
    BY DEF ListCreateFails
  <2>. QED
    BY <1>2, <2>1 DEF ListInv, AllHeld, Held, Contents, Block, Load, PoolOK, ListOK, BlocksApart, Outside
<1>3. CASE pool' = Alloc(pool, HeaderSize).pool
  <2> DEFINE p == Alloc(pool, HeaderSize).pool
  <2>1. Makes(pool, p, Alloc(pool, HeaderSize).at, HeaderSize)
    BY <1>1, AllocMakes
  <2>2. lists' = [lists EXCEPT ![id] = Absent] /\ lists[id] = Absent /\ lists' = lists
    <3>1. lists[id] = Absent /\ lists' = lists
      BY DEF ListCreateFails
    <3>2. lists \in [Lists -> Headers \cup {Absent}]
      BY DEF ListInv
    <3>. QED
      BY <3>1, <3>2
  <2>3. PoolOK(p) /\ pool' = p
    BY <1>3, <2>1 DEF Makes
  <2>4. \A x \in Lists \ {id} : lists[x] # Absent => Spared(pool, p, lists[x])
    BY <2>1 DEF Makes, ListInv
  <2> HIDE DEF p
  <2>5. ListInv' /\ AllHeld' = [AllHeld EXCEPT ![id] = Absent]
    BY <2>2, <2>3, <2>4, OneGoes
  <2>6. AllHeld[id] = Absent
    BY <2>2 DEF AllHeld, Held
  <2>. QED
    BY <2>5, <2>6 DEF AllHeld
<1>. QED
  BY <1>2, <1>3 DEF ListCreateFails

\* The pool q has in l the list that was x in p, and every other list as it was.
Housed(p, x, q, l) ==
  /\ PoolOK(q)
  /\ ListOK(q, l)
  /\ \A m : ListOK(p, m) /\ BlocksApart(x, m) => Spared(p, q, m) /\ BlocksApart(l, m)

\* The words ws put at word i of the block of l make it the sequence s.
Spells(p, l, i, ws, s) ==
  /\ i + Len(ws) <= l.capacity /\ Len(s) <= l.capacity
  /\ \A j \in 0..(Len(s) - 1) :
       s[j + 1] = IF j \in i..(i + Len(ws) - 1) THEN ws[j - i + 1] ELSE Load(p, l.elements, j)

\* The header x of a list of n elements in the block of l.
Header(x, l, n) == x \in Headers /\ x.elements = l.elements /\ x.size = n /\ x.capacity = l.capacity

\* g is f with x for id.
Sets(f, g, id, x) == g = [f EXCEPT ![id] = x]

LEMMA StoreBecomes ==
  ASSUME ListInv, NEW id \in Lists, lists[id] # Absent,
         NEW p, NEW l, Housed(pool, lists[id], p, l),
         NEW i \in Nat, NEW ws \in Seq(Word), NEW s \in Seq(Values), Spells(p, l, i, ws, s),
         NEW x, Header(x, l, Len(s)),
         pool' = Store(p, l.elements, i, ws), Sets(lists, lists', id, x)
  PROVE  ListInv' /\ AllHeld' = [AllHeld EXCEPT ![id] = s]
<1> DEFINE q == Store(p, l.elements, i, ws)  n == Len(s)
<1>1. /\ PoolOK(p) /\ ListOK(p, l) /\ n \in Nat /\ n <= l.capacity
      /\ \A m : ListOK(pool, m) /\ BlocksApart(lists[id], m) => Spared(pool, p, m) /\ BlocksApart(l, m)
  BY DEF Housed, Spells
<1>2. l.capacity \in Nat /\ l.elements \in [page : Nat, offset : Nat]
  BY <1>1, HeaderIs DEF ListOK
<1>3. /\ x \in Headers /\ x.elements = l.elements /\ x.size = n /\ x.capacity = l.capacity
      /\ pool' = q /\ lists' = [lists EXCEPT ![id] = x]
  BY DEF Header, Sets
<1>4. /\ PoolOK(q) /\ Len(q) = Len(p)
      /\ q[l.elements.page].used = p[l.elements.page].used
      /\ \A m : ListOK(p, m) /\ BlocksApart(l, m) => Spared(p, q, m)
      /\ \A j \in 0..(l.capacity - 1) :
           Load(q, l.elements, j) =
             IF j \in i..(i + Len(ws) - 1) THEN ws[j - i + 1] ELSE Load(p, l.elements, j)
  BY <1>1, StoreInOwn DEF Spells
<1> HIDE DEF q
<1>5. \A j \in 0..(n - 1) : Load(q, l.elements, j) \in Values /\ Load(q, l.elements, j) = s[j + 1]
  <2>1. \A j \in 0..(n - 1) : j \in 0..(l.capacity - 1) /\ s[j + 1] \in Values
    BY <1>1, <1>2
  <2>. QED
    BY <1>4, <2>1 DEF Spells
<1> HIDE DEF n
<1>6. ListOK(q, x)
  <2>1. /\ l.elements.page \in 1..Len(q)
        /\ l.elements.offset + l.capacity <= q[l.elements.page].used
    BY <1>1, <1>4 DEF ListOK
  <2>. QED
    BY <1>1, <1>3, <1>5, <2>1 DEF ListOK
<1>7. ASSUME NEW m, ListOK(pool, m), BlocksApart(lists[id], m)
      PROVE  Spared(pool, q, m) /\ BlocksApart(x, m)
  <2>1. Spared(pool, p, m) /\ BlocksApart(l, m)
    BY <1>1, <1>7
  <2>2. PoolOK(pool)
    BY DEF ListInv
  <2>3. ListOK(p, m)
    BY <1>1, <1>7, <2>1, <2>2, SparedIs
  <2>4. Spared(p, q, m)
    BY <1>4, <2>1, <2>3
  <2>5. Spared(pool, q, m)
    BY <1>1, <1>4, <1>7, <2>1, <2>2, <2>4, SparedTwice
  <2>6. BlocksApart(x, m)
    BY <1>3, <2>1 DEF BlocksApart
  <2>. QED
    BY <2>5, <2>6
<1>8. ListInv' /\ AllHeld' = [AllHeld EXCEPT ![id] = Contents(q, x)]
  <2>1. pool' = q /\ lists' = [lists EXCEPT ![id] = x]
    BY <1>3
  <2>2. \A m : ListOK(pool, m) /\ (lists[id] # Absent => BlocksApart(lists[id], m)) =>
                 Spared(pool, q, m) /\ BlocksApart(x, m)
    BY <1>7
  <2>. QED
    BY ONLY ListInv, id \in Lists, <1>4, <1>6, <2>1, <2>2, OneChanges
<1>9. Contents(q, x) = s
  <2>1. /\ Contents(q, x) \in Seq(Values) /\ Len(Contents(q, x)) = n
        /\ \A j \in 1..n : Contents(q, x)[j] = Load(q, l.elements, j - 1)
    BY <1>3, <1>6, ContentsIs
  <2>2. \A j \in 1..n : j - 1 \in 0..(n - 1) /\ (j - 1) + 1 = j
    BY <1>1
  <2>3. \A j \in 1..n : Contents(q, x)[j] = s[j]
    BY <1>5, <2>1, <2>2
  <2>4. Len(s) = n
    BY DEF n
  <2>. QED
    BY <2>1, <2>3, <2>4, SeqEqual
<1>. QED
  BY <1>8, <1>9

\* The list of a present id, and what it holds.
LEMMA ListIs ==
  ASSUME ListInv, NEW id \in Lists, lists[id] # Absent
  PROVE  /\ PoolOK(pool) /\ ListOK(pool, lists[id])
         /\ lists[id].size \in Nat /\ lists[id].capacity \in Nat /\ lists[id].size <= lists[id].capacity
         /\ AllHeld[id] = Contents(pool, lists[id])
         /\ AllHeld[id] # Absent
         /\ Len(AllHeld[id]) = lists[id].size
<1>1. PoolOK(pool) /\ ListOK(pool, lists[id])
  BY DEF ListInv
<1>2. AllHeld[id] = Contents(pool, lists[id]) /\ AllHeld[id] # Absent
  BY <1>1, HeldIsThere DEF AllHeld
<1>. QED
  BY <1>1, <1>2, HeaderIs, ContentsIs DEF ListOK

LEMMA Appends ==
  ASSUME ListInv, NEW id \in Lists, lists[id] # Absent, lists[id].size < MaxLength,
         NEW v \in Values, ListAppend(id, v)
  PROVE  ListInv' /\ Abstract!Extend(id)
<1>1. PICK p, l, s, n : /\ p = Ensure(lists[id]).pool /\ l = Ensure(lists[id]).list
                        /\ s = AllHeld[id] /\ n = lists[id].size
  OBVIOUS
<1>2. /\ PoolOK(pool) /\ ListOK(pool, lists[id]) /\ n \in Nat
      /\ s = Contents(pool, lists[id]) /\ s # Absent
  BY <1>1, ListIs
<1>3. /\ PoolOK(p) /\ ListOK(p, l) /\ l.size = n /\ n < l.capacity
      /\ Contents(p, l) = s /\ l \in Headers /\ l.capacity \in Nat
      /\ Housed(pool, lists[id], p, l)
  <2>1. /\ PoolOK(p) /\ ListOK(p, l) /\ l.size = n /\ n < l.capacity
        /\ Contents(p, l) = s
        /\ \A m : ListOK(pool, m) /\ BlocksApart(lists[id], m) =>
                    Spared(pool, p, m) /\ BlocksApart(l, m)
    BY <1>1, <1>2, EnsureKeeps
  <2>2. l \in Headers
    BY <2>1 DEF ListOK
  <2>. QED
    BY <2>1, <2>2, HeaderIs DEF Housed
<1>4. PICK ws : ws = <<v>>
  OBVIOUS
<1>5. PICK x : x = [l EXCEPT !.size = n + 1]
  OBVIOUS
<1>6. pool' = Store(p, l.elements, n, ws) /\ lists' = [lists EXCEPT ![id] = x]
  BY <1>1, <1>3, <1>4, <1>5 DEF ListAppend
<1>7. /\ ws \in Seq(Word) /\ ws \in Seq(Values) /\ Len(ws) = 1 /\ ws[1] = v
      /\ ws \in [1..1 -> Values]
  BY <1>4 DEF Word
<1>8. /\ x \in Headers /\ x.elements = l.elements /\ x.size = n + 1 /\ x.capacity = l.capacity
  <2>1. n + 1 \in Nat
    BY <1>2
  <2>. QED
    BY <1>3, <1>5, <2>1, Resized
<1>9. /\ s \in Seq(Values) /\ Len(s) = n /\ \A j \in 1..n : s[j] = Load(p, l.elements, j - 1)
  BY <1>3, ContentsIs
<1>10. PICK t : t = s \o ws
  OBVIOUS
<1>11. /\ t \in Seq(Values) /\ Len(t) = n + 1
       /\ \A j \in 1..(n + 1) : t[j] = IF j <= n THEN s[j] ELSE ws[j - n]
  <2>1. /\ t \in Seq(Values) /\ Len(t) = Len(s) + Len(ws)
        /\ \A j \in 1..(Len(s) + Len(ws)) : t[j] = IF j <= Len(s) THEN s[j] ELSE ws[j - Len(s)]
    BY <1>7, <1>9, <1>10, JoinIs
  <2>. QED
    BY <1>7, <1>9, <2>1
<1>12. n + Len(ws) <= l.capacity /\ Len(t) <= l.capacity /\ Header(x, l, Len(t))
  BY <1>2, <1>3, <1>7, <1>8, <1>11 DEF Header
<1>13. Spells(p, l, n, ws, t)
  <2>1. SUFFICES ASSUME NEW j \in 0..(Len(t) - 1)
                 PROVE  t[j + 1] = IF j \in n..(n + Len(ws) - 1) THEN ws[j - n + 1] ELSE Load(p, l.elements, j)
    BY <1>12 DEF Spells
  <2>2. j + 1 \in 1..(n + 1) /\ j \in 0..n
    BY <1>2, <1>11
  <2>3. CASE j = n
    <3>1. j \in n..(n + Len(ws) - 1) /\ ~(j + 1 <= n) /\ (j + 1) - n = 1 /\ j - n + 1 = 1
      BY <1>2, <1>7, <2>3
    <3>. QED
      BY <1>11, <2>2, <3>1
  <2>4. CASE j # n
    <3>1. ~(j \in n..(n + Len(ws) - 1)) /\ j + 1 \in 1..n /\ j + 1 <= n /\ (j + 1) - 1 = j
      BY <1>2, <1>7, <2>2, <2>4
    <3>. QED
      BY <1>9, <1>11, <2>2, <3>1
  <2>. QED
    BY <2>3, <2>4
<1>14. ListInv' /\ AllHeld' = [AllHeld EXCEPT ![id] = t]
  <2>1. Sets(lists, lists', id, x)
    BY <1>6 DEF Sets
  <2>. QED
    <3>1. Housed(pool, lists[id], p, l)
      BY <1>3
    <3>2. n \in Nat /\ ws \in Seq(Word) /\ t \in Seq(Values) /\ Header(x, l, Len(t))
      BY <1>2, <1>7, <1>11, <1>12
    <3>3. pool' = Store(p, l.elements, n, ws)
      BY <1>6
    <3>. QED
      BY ONLY ListInv, id \in Lists, lists[id] # Absent, <3>1, <3>2, <1>13, <3>3, <2>1, StoreBecomes
<1>15. \E k \in 1..2 : \E vs \in [1..k -> Values] : AllHeld' = [AllHeld EXCEPT ![id] = s \o vs]
  <2>1. 1 \in 1..2
    OBVIOUS
  <2>. QED
    BY <1>7, <1>10, <1>14, <2>1
<1>. QED
  BY <1>1, <1>2, <1>14, <1>15 DEF Abstract!Extend, Abstract!Exists, Abstract!Become, AllHeld, Held

LEMMA Inserts ==
  ASSUME ListInv, NEW id \in Lists, lists[id] # Absent, lists[id].size < MaxLength,
         NEW v \in Values, NEW i \in Nat, ListInsert(id, i, v)
  PROVE  ListInv' /\ Abstract!Insert(id)
<1>1. PICK p, l, s, n : /\ p = Ensure(lists[id]).pool /\ l = Ensure(lists[id]).list
                        /\ s = AllHeld[id] /\ n = lists[id].size
  OBVIOUS
<1>2. /\ PoolOK(pool) /\ ListOK(pool, lists[id]) /\ n \in Nat /\ i \in 0..n
      /\ s = Contents(pool, lists[id]) /\ s # Absent
  BY <1>1, ListIs DEF ListInsert
<1>3. /\ PoolOK(p) /\ ListOK(p, l) /\ l.size = n /\ n < l.capacity
      /\ Contents(p, l) = s /\ l \in Headers /\ l.capacity \in Nat
      /\ Housed(pool, lists[id], p, l)
  <2>1. /\ PoolOK(p) /\ ListOK(p, l) /\ l.size = n /\ n < l.capacity
        /\ Contents(p, l) = s
        /\ \A m : ListOK(pool, m) /\ BlocksApart(lists[id], m) =>
                    Spared(pool, p, m) /\ BlocksApart(l, m)
    BY <1>1, <1>2, EnsureKeeps
  <2>2. l \in Headers
    BY <2>1 DEF ListOK
  <2>. QED
    BY <2>1, <2>2, HeaderIs DEF Housed
<1>4. /\ s \in Seq(Values) /\ Len(s) = n /\ \A j \in 1..n : s[j] = Load(p, l.elements, j - 1)
  BY <1>3, ContentsIs
<1>5. PICK us : us = [j \in 1..(n - i) |-> Load(p, l.elements, i + j - 1)]
  OBVIOUS
<1>6. /\ us \in Seq(Values) /\ Len(us) = n - i
      /\ \A j \in 1..(n - i) : us[j] = s[i + j] /\ us[j] = Load(p, l.elements, i + j - 1)
  <2>1. \A j \in 1..(n - i) : i + j \in 1..n /\ (i + j) - 1 = i + j - 1
    BY <1>2
  <2>2. \A j \in 1..(n - i) : us[j] = Load(p, l.elements, i + j - 1)
    BY <1>5
  <2>3. \A j \in 1..(n - i) : us[j] = s[i + j] /\ us[j] \in Values
    BY <1>4, <2>1, <2>2
  <2>4. n - i \in Nat /\ us = [j \in 1..(n - i) |-> us[j]]
    BY <1>2, <1>5
  <2>5. us \in Seq(Values) /\ Len(us) = n - i
    BY <2>3, <2>4
  <2>. QED
    BY <2>2, <2>3, <2>5
<1>7. PICK ws : ws = <<v>> \o us
  OBVIOUS
<1>8. /\ ws \in Seq(Values) /\ ws \in Seq(Word) /\ Len(ws) = n - i + 1
      /\ ws[1] = v /\ \A j \in 1..(n - i) : ws[j + 1] = Load(p, l.elements, i + j - 1)
  <2>1. PICK one : one = <<v>>
    OBVIOUS
  <2>2. one \in Seq(Values) /\ Len(one) = 1 /\ one[1] = v
    BY <2>1
  <2>3. /\ ws \in Seq(Values) /\ Len(ws) = 1 + (n - i)
        /\ \A j \in 1..(1 + (n - i)) : ws[j] = IF j <= 1 THEN one[j] ELSE us[j - 1]
    BY <1>6, <1>7, <2>1, <2>2, JoinIs
  <2>4. ws[1] = v
    <3>1. 1 \in 1..(1 + (n - i)) /\ 1 <= 1
      BY <1>2
    <3>. QED
      BY <2>2, <2>3, <3>1
  <2>5. \A j \in 1..(n - i) : j + 1 \in 1..(1 + (n - i)) /\ ~(j + 1 <= 1) /\ (j + 1) - 1 = j
    BY <1>2
  <2>6. \A j \in 1..(n - i) : ws[j + 1] = us[j]
    BY <2>3, <2>5
  <2>7. ws \in Seq(Word)
    BY <2>3 DEF Word
  <2>8. Len(ws) = n - i + 1
    BY <1>2, <2>3
  <2>. QED
    BY <1>6, <2>3, <2>4, <2>6, <2>7, <2>8
<1>9. PICK x : x = [l EXCEPT !.size = n + 1]
  OBVIOUS
<1>10. pool' = Store(p, l.elements, i, ws) /\ lists' = [lists EXCEPT ![id] = x]
  <2>1. /\ pool' = InsertWords(l, p, i, v)
        /\ lists' = [lists EXCEPT ![id] = [l EXCEPT !.size = l.size + 1]]
    BY <1>1 DEF ListInsert
  <2>. QED
    BY <1>3, <1>5, <1>7, <1>9, <2>1 DEF InsertWords
<1>11. PICK t : t = InsertAt(s, i + 1, v)
  OBVIOUS
<1>12. /\ t \in Seq(Values) /\ Len(t) = n + 1
       /\ \A j \in 1..(n + 1) : t[j] = IF j <= i THEN s[j] ELSE IF j = i + 1 THEN v ELSE s[j - 1]
  <2>1. i \in 0..Len(s) /\ s \in Seq(Values)
    BY <1>2, <1>4
  <2>2. WithOneMore(InsertAt(s, i + 1, v), s, i, v, Values)
    BY <2>1, InsertIs
  <2>3. WithOneMore(t, s, i, v, Values)
    BY <1>11, <2>2
  <2>. QED
    BY <1>4, <2>3 DEF WithOneMore
<1>13. /\ x \in Headers /\ x.elements = l.elements /\ x.size = n + 1 /\ x.capacity = l.capacity
  <2>1. n + 1 \in Nat
    BY <1>2
  <2>. QED
    BY <1>3, <1>9, <2>1, Resized
<1>14. i + Len(ws) <= l.capacity /\ Len(t) <= l.capacity /\ Header(x, l, Len(t))
  BY <1>2, <1>3, <1>8, <1>12, <1>13 DEF Header
<1>15. Spells(p, l, i, ws, t)
  <2>1. SUFFICES ASSUME NEW j \in 0..(Len(t) - 1)
                 PROVE  t[j + 1] = IF j \in i..(i + Len(ws) - 1) THEN ws[j - i + 1] ELSE Load(p, l.elements, j)
    BY <1>14 DEF Spells
  <2>2. j + 1 \in 1..(n + 1) /\ j \in 0..n
    BY <1>2, <1>12
  <2>3. CASE j < i
    <3>1. ~(j \in i..(i + Len(ws) - 1)) /\ j + 1 <= i /\ j + 1 \in 1..n /\ (j + 1) - 1 = j
      BY <1>2, <2>2, <2>3
    <3>. QED
      BY <1>4, <1>12, <2>2, <3>1
  <2>4. CASE j = i
    <3>1. j \in i..(i + Len(ws) - 1) /\ ~(j + 1 <= i) /\ j + 1 = i + 1 /\ j - i + 1 = 1
      BY <1>2, <1>8, <2>2, <2>4
    <3>. QED
      BY <1>8, <1>12, <2>2, <3>1
  <2>5. CASE j > i
    <3>1. j \in i..(i + Len(ws) - 1) /\ ~(j + 1 <= i) /\ j + 1 # i + 1 /\ (j + 1) - 1 = j
      BY <1>2, <1>8, <2>2, <2>5
    <3>2. j - i \in 1..(n - i) /\ i + (j - i) - 1 = j - 1 /\ j \in 1..n
      BY <1>2, <2>2, <2>5
    <3>3. ws[j - i + 1] = Load(p, l.elements, j - 1)
      BY <1>8, <3>2
    <3>4. t[j + 1] = s[j]
      BY <1>12, <2>2, <3>1
    <3>. QED
      BY <1>4, <3>1, <3>2, <3>3, <3>4
  <2>. QED
    BY <1>2, <2>2, <2>3, <2>4, <2>5
<1>16. ListInv' /\ AllHeld' = [AllHeld EXCEPT ![id] = t]
  <2>1. Sets(lists, lists', id, x) /\ pool' = Store(p, l.elements, i, ws)
    BY <1>10 DEF Sets
  <2>2. Housed(pool, lists[id], p, l)
    BY <1>3
  <2>3. i \in Nat /\ ws \in Seq(Word) /\ t \in Seq(Values) /\ Header(x, l, Len(t))
    BY <1>8, <1>12, <1>14
  <2>. QED
    BY ONLY ListInv, id \in Lists, lists[id] # Absent, <1>15, <2>1, <2>2, <2>3, StoreBecomes
<1>17. \E k \in 1..(Len(AllHeld[id]) + 1), y \in Values :
         AllHeld' = [AllHeld EXCEPT ![id] = Abstract!InsertAt(AllHeld[id], k, y)]
  <2>1. i + 1 \in 1..(Len(s) + 1) /\ Abstract!InsertAt(s, i + 1, v) = t
    BY <1>2, <1>4, <1>11 DEF Abstract!InsertAt, InsertAt
  <2>. QED
    BY <1>1, <1>16, <2>1
<1>. QED
  BY <1>1, <1>2, <1>16, <1>17 DEF Abstract!Insert, Abstract!Exists, Abstract!Become, AllHeld, Held

\* Every list is housed where it is.
LEMMA HousedAlready ==
  ASSUME ListInv, NEW id \in Lists, lists[id] # Absent
  PROVE  Housed(pool, lists[id], pool, lists[id])
<1>1. \A m : ListOK(pool, m) => Spared(pool, pool, m)
  <2>1. ASSUME NEW m, ListOK(pool, m) PROVE Spared(pool, pool, m)
    <3>1. PoolOK(pool)
      BY DEF ListInv
    <3>2. m.elements.page \in 1..Len(pool) /\ pool[m.elements.page].used \in Nat
      BY <2>1, <3>1, PageIs DEF ListOK
    <3>. QED
      BY <3>2 DEF Spared
  <2>. QED
    BY <2>1
<1>. QED
  BY <1>1, ListIs DEF Housed

LEMMA Deletes ==
  ASSUME ListInv, NEW id \in Lists, lists[id] # Absent, NEW i \in Nat, ListDelete(id, i)
  PROVE  ListInv' /\ Abstract!Delete(id)
<1>1. PICK p, l, s, n : p = pool /\ l = lists[id] /\ s = AllHeld[id] /\ n = lists[id].size
  OBVIOUS
<1>2. /\ PoolOK(p) /\ ListOK(p, l) /\ n \in Nat /\ l.size = n /\ n <= l.capacity /\ l.capacity \in Nat
      /\ s = Contents(p, l) /\ s # Absent /\ i \in 0..(n - 1) /\ l \in Headers
      /\ Housed(pool, lists[id], p, l)
  <2>1. i < n
    BY <1>1 DEF ListDelete
  <2>2. l \in Headers
    BY <1>1, ListIs DEF ListOK
  <2>3. n \in Nat
    BY <1>1, ListIs
  <2>4. i \in 0..(n - 1)
    BY <2>1, <2>3
  <2>. QED
    BY <1>1, <2>2, <2>4, ListIs, HousedAlready
<1>3. /\ s \in Seq(Values) /\ Len(s) = n /\ \A j \in 1..n : s[j] = Load(p, l.elements, j - 1)
  BY <1>2, ContentsIs
<1>4. PICK ws : ws = [j \in 1..(n - 1 - i) |-> Load(p, l.elements, i + j)]
  OBVIOUS
<1>5. /\ ws \in Seq(Word) /\ Len(ws) = n - 1 - i
      /\ \A j \in 1..(n - 1 - i) : ws[j] = Load(p, l.elements, i + j)
  <2>1. \A j \in 1..(n - 1 - i) : i + j + 1 \in 1..n /\ (i + j + 1) - 1 = i + j
    BY <1>2
  <2>2. \A j \in 1..(n - 1 - i) : ws[j] = Load(p, l.elements, i + j)
    BY <1>4
  <2>3. \A j \in 1..(n - 1 - i) : ws[j] \in Word
    BY <1>3, <2>1, <2>2 DEF Word
  <2>4. n - 1 - i \in Nat /\ ws = [j \in 1..(n - 1 - i) |-> ws[j]]
    BY <1>2, <1>4
  <2>5. ws \in Seq(Word) /\ Len(ws) = n - 1 - i
    BY <2>3, <2>4
  <2>. QED
    BY <2>2, <2>5
<1>6. PICK x : x = [l EXCEPT !.size = n - 1]
  OBVIOUS
<1>7. pool' = Store(p, l.elements, i, ws) /\ lists' = [lists EXCEPT ![id] = x]
  BY <1>1, <1>4, <1>6 DEF ListDelete
<1>8. PICK t : t = RemoveAt(s, i + 1)
  OBVIOUS
<1>9. /\ t \in Seq(Values) /\ Len(t) = n - 1
      /\ \A j \in 1..(n - 1) : t[j] = IF j <= i THEN s[j] ELSE s[j + 1]
  <2>1. i \in 0..(Len(s) - 1) /\ s \in Seq(Values)
    BY <1>2, <1>3
  <2>2. /\ RemoveAt(s, i + 1) \in Seq(Values) /\ Len(RemoveAt(s, i + 1)) = Len(s) - 1
        /\ \A j \in 1..(Len(s) - 1) : RemoveAt(s, i + 1)[j] = IF j <= i THEN s[j] ELSE s[j + 1]
    BY ONLY <2>1, RemoveIs
  <2>. QED
    BY <1>3, <1>8, <2>2
<1>10. /\ x \in Headers /\ x.elements = l.elements /\ x.size = n - 1 /\ x.capacity = l.capacity
  <2>1. n - 1 \in Nat
    BY <1>2
  <2>. QED
    BY <1>2, <1>6, <2>1, Resized
<1>11. i + Len(ws) <= l.capacity /\ Len(t) <= l.capacity /\ Header(x, l, Len(t))
  BY <1>2, <1>5, <1>9, <1>10 DEF Header
<1>12. Spells(p, l, i, ws, t)
  <2>1. SUFFICES ASSUME NEW j \in 0..(Len(t) - 1)
                 PROVE  t[j + 1] = IF j \in i..(i + Len(ws) - 1) THEN ws[j - i + 1] ELSE Load(p, l.elements, j)
    BY <1>11 DEF Spells
  <2>2. j + 1 \in 1..(n - 1) /\ j + 1 \in 1..n /\ j + 2 \in 1..n /\ j \in Nat
        /\ (j + 1) - 1 = j /\ (j + 2) - 1 = j + 1 /\ (j + 1) + 1 = j + 2
    BY <1>2, <1>9
  <2>3. CASE j < i
    <3>1. ~(j \in i..(i + Len(ws) - 1)) /\ j + 1 <= i
      BY <1>2, <2>2, <2>3
    <3>. QED
      BY <1>3, <1>9, <2>2, <3>1
  <2>4. CASE ~(j < i)
    <3>1. j \in i..(i + Len(ws) - 1) /\ ~(j + 1 <= i)
      BY <1>2, <1>5, <2>2, <2>4
    <3>2. j - i + 1 \in 1..(n - 1 - i) /\ i + (j - i + 1) = j + 1
      BY <1>2, <2>2, <2>4
    <3>3. ws[j - i + 1] = Load(p, l.elements, j + 1)
      BY <1>5, <3>2
    <3>4. t[j + 1] = s[j + 2]
      BY <1>9, <2>2, <3>1
    <3>. QED
      BY <1>3, <2>2, <3>1, <3>3, <3>4
  <2>. QED
    BY <2>3, <2>4
<1>13. ListInv' /\ AllHeld' = [AllHeld EXCEPT ![id] = t]
  <2>1. Sets(lists, lists', id, x) /\ pool' = Store(p, l.elements, i, ws)
    BY <1>7 DEF Sets
  <2>2. Housed(pool, lists[id], p, l)
    BY <1>2
  <2>3. i \in Nat /\ ws \in Seq(Word) /\ t \in Seq(Values) /\ Header(x, l, Len(t))
    BY <1>5, <1>9, <1>11
  <2>. QED
    BY ONLY ListInv, id \in Lists, lists[id] # Absent, <1>12, <2>1, <2>2, <2>3, StoreBecomes
<1>14. \E k \in 1..Len(AllHeld[id]) : AllHeld' = [AllHeld EXCEPT ![id] = Abstract!RemoveAt(AllHeld[id], k)]
  <2>1. i + 1 \in 1..Len(s) /\ Abstract!RemoveAt(s, i + 1) = t
    BY <1>2, <1>3, <1>8 DEF Abstract!RemoveAt, RemoveAt
  <2>. QED
    BY <1>1, <1>13, <2>1
<1>. QED
  BY <1>1, <1>2, <1>13, <1>14 DEF Abstract!Delete, Abstract!Exists, Abstract!Become, AllHeld, Held

\* A block's first words, cleared.
LEMMA ZeroWords ==
  ASSUME NEW n \in Nat
  PROVE  [i \in 1..n |-> Zero] \in Seq(Word) /\ Len([i \in 1..n |-> Zero]) = n
BY DEF Word

LEMMA Clears ==
  ASSUME ListInv, NEW id \in Lists, lists[id] # Absent, ListClear(id)
  PROVE  ListInv' /\ Abstract!Clear(id)
<1>1. PICK p, l, n : p = pool /\ l = lists[id] /\ n = lists[id].size
  OBVIOUS
<1>2. /\ PoolOK(p) /\ ListOK(p, l) /\ n \in Nat /\ n <= l.capacity /\ l.capacity \in Nat
      /\ AllHeld[id] # Absent /\ l \in Headers /\ Housed(pool, lists[id], p, l)
  <2>1. l \in Headers
    BY <1>1, ListIs DEF ListOK
  <2>. QED
    BY <1>1, <2>1, ListIs, HousedAlready
<1>3. PICK ws : ws = [i \in 1..n |-> Zero]
  OBVIOUS
<1>4. PICK x : x = [l EXCEPT !.size = 0]
  OBVIOUS
<1>5. pool' = Store(p, l.elements, 0, ws) /\ lists' = [lists EXCEPT ![id] = x]
  BY <1>1, <1>3, <1>4 DEF ListClear
<1>6. ws \in Seq(Word) /\ Len(ws) = n
  BY <1>2, <1>3, ZeroWords
<1>7. PICK t : t = <<>>
  OBVIOUS
<1>8. t \in Seq(Values) /\ Len(t) = 0
  BY <1>7
<1>9. Header(x, l, Len(t))
  <2>1. 0 \in Nat
    OBVIOUS
  <2>2. x \in Headers /\ x.elements = l.elements /\ x.size = 0 /\ x.capacity = l.capacity
    BY <1>2, <1>4, <2>1, Resized
  <2>. QED
    BY <1>8, <2>2 DEF Header
<1>10. Spells(p, l, 0, ws, t)
  BY <1>2, <1>6, <1>8 DEF Spells
<1>11. ListInv' /\ AllHeld' = [AllHeld EXCEPT ![id] = t]
  <2>1. Sets(lists, lists', id, x) /\ pool' = Store(p, l.elements, 0, ws)
    BY <1>5 DEF Sets
  <2>2. Housed(pool, lists[id], p, l)
    BY <1>2
  <2>3. 0 \in Nat /\ ws \in Seq(Word) /\ t \in Seq(Values) /\ Header(x, l, Len(t))
    BY <1>6, <1>8, <1>9
  <2>. QED
    BY ONLY ListInv, id \in Lists, lists[id] # Absent, <1>10, <2>1, <2>2, <2>3, StoreBecomes
<1>. QED
  BY <1>2, <1>7, <1>11 DEF Abstract!Clear, Abstract!Exists, Abstract!Become, AllHeld, Held

LEMMA Destroys ==
  ASSUME ListInv, NEW id \in Lists, lists[id] # Absent, ListDestroy(id)
  PROVE  ListInv' /\ Abstract!Destroy(id)
<1>1. /\ AllHeld[id] # Absent /\ PoolOK(pool) /\ ListOK(pool, lists[id])
      /\ lists[id].size \in Nat /\ lists[id].size <= lists[id].capacity
  BY ListIs
<1>2. CASE id = Owner
  <2>1. PICK p : p = EmptyPool
    OBVIOUS
  <2>2. PoolOK(p)
    BY <2>1 DEF EmptyPool, PoolOK
  <2>3. pool' = p /\ lists' = [lists EXCEPT ![id] = Absent]
        /\ \A x \in Lists \ {id} : lists[x] = Absent
    BY <1>2, <2>1 DEF ListDestroy
  <2>4. ListInv' /\ AllHeld' = [AllHeld EXCEPT ![id] = Absent]
    BY <2>2, <2>3, OneGoes
  <2>. QED
    BY <1>1, <2>4 DEF Abstract!Destroy, Abstract!Exists, Abstract!Become, AllHeld, Held
<1>3. CASE id # Owner
  <2>1. PICK l, ws : l = lists[id] /\ ws = [i \in 1..l.size |-> Zero]
    OBVIOUS
  <2>2. PICK p : p = Store(pool, l.elements, 0, ws)
    OBVIOUS
  <2>3. ws \in Seq(Word) /\ 0 + Len(ws) <= l.capacity /\ 0 \in Nat
    <3>1. ws \in Seq(Word) /\ Len(ws) = l.size
      BY <1>1, <2>1, ZeroWords
    <3>2. l.capacity \in Nat
      BY <1>1, <2>1, HeaderIs DEF ListOK
    <3>. QED
      BY <1>1, <2>1, <3>1, <3>2
  <2>4. PoolOK(p) /\ \A m : ListOK(pool, m) /\ BlocksApart(l, m) => Spared(pool, p, m)
    BY <1>1, <2>1, <2>2, <2>3, StoreInOwn
  <2>5. \A x \in Lists \ {id} : lists[x] # Absent => Spared(pool, p, lists[x])
    BY <2>1, <2>4 DEF ListInv
  <2>6. pool' = p /\ lists' = [lists EXCEPT ![id] = Absent]
    BY <1>3, <2>1, <2>2 DEF ListDestroy
  <2>7. ListInv' /\ AllHeld' = [AllHeld EXCEPT ![id] = Absent]
    BY <2>4, <2>5, <2>6, OneGoes
  <2>. QED
    BY <1>1, <2>7 DEF Abstract!Destroy, Abstract!Exists, Abstract!Become, AllHeld, Held
<1>. QED
  BY <1>2, <1>3

LEMMA ResetsThePool ==
  ASSUME ListInv, PoolReset
  PROVE  ListInv' /\ AllHeld' = AllHeld
<1>1. /\ \A id \in Lists : lists[id] = Absent
      /\ lists' = lists /\ lists \in [Lists -> Headers \cup {Absent}] /\ PoolOK(pool)
  BY DEF PoolReset, ListInv
<1>2. PICK p : p = Reset(pool)
  OBVIOUS
<1>3. PoolOK(p)
  <2>1. pool \in Seq(Page) /\ Len(pool) \in Nat
    BY <1>1 DEF PoolOK
  <2>2. ASSUME NEW g \in 1..Len(pool)
        PROVE  p[g] \in Page /\ p[g].used = 0 /\ p[g].words = pool[g].words
    <3>1. /\ pool[g] = [words |-> pool[g].words, used |-> pool[g].used]
          /\ pool[g].words \in Seq(Word)
      BY <1>1, PageIs
    <3>2. p[g] = [pool[g] EXCEPT !.used = 0]
      BY <1>2, <2>1 DEF Reset
    <3>3. p[g] = [words |-> pool[g].words, used |-> 0]
      BY <3>1, <3>2
    <3>. QED
      BY <3>1, <3>3 DEF Page
  <2>3. p = [g \in 1..Len(pool) |-> p[g]]
    BY <1>2, <2>1 DEF Reset
  <2> DEFINE n == Len(pool)
  <2>4. n \in Nat /\ p = [g \in 1..n |-> p[g]] /\ \A g \in 1..n : p[g] \in Page
    BY <2>1, <2>2, <2>3
  <2> HIDE DEF n
  <2>5. p \in Seq(Page) /\ Len(p) = n
    BY <2>4
  <2>6. \A g \in 1..Len(p) : p[g].used <= Len(p[g].words)
    <3>1. SUFFICES ASSUME NEW g \in 1..Len(p) PROVE p[g].used <= Len(p[g].words)
      OBVIOUS
    <3>2. g \in 1..Len(pool)
      BY <2>5 DEF n
    <3>3. p[g].used = 0 /\ Len(p[g].words) \in Nat
      BY <1>1, <2>2, <3>2, PageIs
    <3>. QED
      BY <3>3
  <2>. QED
    BY <2>5, <2>6 DEF PoolOK
<1>4. pool' = p
  BY <1>2 DEF PoolReset
<1>5. ListInv'
  <2>1. PoolOK(pool')
    BY <1>3, <1>4
  <2>2. \A id \in Lists : lists'[id] = Absent
    BY <1>1
  <2>. QED
    BY <1>1, <2>1, <2>2 DEF ListInv, PoolOK
<1>6. AllHeld' = AllHeld
  BY <1>1 DEF AllHeld, Held
<1>. QED
  BY <1>5, <1>6

LEMMA ListStep ==
  ListInv /\ [ListNext]_listVars => ListInv' /\ [Abstract!Next]_AllHeld
<1> SUFFICES ASSUME ListInv, [ListNext]_listVars
             PROVE  ListInv' /\ [Abstract!Next]_AllHeld
  OBVIOUS
<1>1. ASSUME NEW id \in Lists, NEW c \in Capacities, ListCreate(id, c)
      PROVE  ListInv' /\ Abstract!Next
  BY <1>1, CreatesAList DEF Abstract!Next
<1>2. ASSUME NEW id \in Lists, NEW c \in Capacities, ListCreateFails(id, c)
      PROVE  ListInv' /\ AllHeld' = AllHeld
  BY <1>2, CreatesNoList
<1>3. ASSUME NEW id \in Lists, lists[id] # Absent, NEW i \in 0..MaxLength, NEW v \in Values,
             lists[id].size < MaxLength, ListAppend(id, v) \/ ListInsert(id, i, v)
      PROVE  ListInv' /\ Abstract!Next
  <2>1. i \in Nat
    BY ArrayListAssumption
  <2>2. CASE ListAppend(id, v)
    BY <1>3, <2>2, Appends DEF Abstract!Next
  <2>3. CASE ListInsert(id, i, v)
    BY <1>3, <2>1, <2>3, Inserts DEF Abstract!Next
  <2>. QED
    BY <1>3, <2>2, <2>3
<1>4. ASSUME UNCHANGED listVars
      PROVE  ListInv' /\ AllHeld' = AllHeld
  BY <1>4 DEF listVars, ListInv, AllHeld, Held, Contents, Block, Load, PoolOK, ListOK, BlocksApart, Outside
<1>5. ASSUME NEW id \in Lists, NEW i \in 0..MaxLength, ListInsertFails(id, i)
      PROVE  ListInv' /\ AllHeld' = AllHeld
  BY <1>4, <1>5 DEF ListInsertFails
<1>6. ASSUME NEW id \in Lists, lists[id] # Absent, NEW i \in 0..MaxLength, ListDelete(id, i)
      PROVE  ListInv' /\ Abstract!Next
  <2>1. i \in Nat
    BY ArrayListAssumption
  <2>. QED
    BY <1>6, <2>1, Deletes DEF Abstract!Next
<1>7. ASSUME NEW id \in Lists, lists[id] # Absent, ListClear(id)
      PROVE  ListInv' /\ Abstract!Next
  BY <1>7, Clears DEF Abstract!Next
<1>8. ASSUME NEW id \in Lists, lists[id] # Absent, ListDestroy(id)
      PROVE  ListInv' /\ Abstract!Next
  BY <1>8, Destroys DEF Abstract!Next
<1>9. CASE PoolReset
  BY <1>9, ResetsThePool
<1>. QED
  BY <1>1, <1>2, <1>3, <1>4, <1>5, <1>6, <1>7, <1>8, <1>9 DEF ListNext

LEMMA ListsBegin == ListInit => ListInv
<1> SUFFICES ASSUME ListInit PROVE ListInv
  OBVIOUS
<1>1. pool = <<>> /\ lists = [id \in Lists |-> Absent]
  BY DEF ListInit, EmptyPool
<1>2. QED
  BY <1>1 DEF ListInv, PoolOK

\* Whatever calls are made on lists that share a memory pool, each of them is
\* the sequence its client made: their blocks share no word, and growth and
\* reuse of the pool move or clear no word of another list.
THEOREM ListsAreSequences == ListSpec => ListsImplementSequences
<1>1. ListInit => ListInv /\ Abstract!Init
  BY ListsBegin DEF ListInit, Abstract!Init
<1>2. ListInv /\ [ListNext]_listVars =>
        ListInv' /\ [Abstract!Next]_([id \in Lists |->
                      IF lists[id] = Absent THEN Absent ELSE Contents(pool, lists[id])])
  BY ListStep DEF AllHeld, Held
<1>3. QED
  BY <1>1, <1>2, PTL DEF ListSpec, ListsImplementSequences, Abstract!Spec

-----------------------------------------------------------------------------
(* Strings as the values of a map. *)

Valued == Cells \cup {Null, Plain}

LiveCells(h) == {c \in Cells : h.text[c] # Free}

\* The cells of the values that the keys ks have in m, and the keys of a cell.
CellsFor(m, ks) == {c \in Cells : \E k \in ks : m[k] = c}
KeysOf(m, ks, c) == {k \in ks : m[k] = c}

\* A heap of copies: each of one key alone.
CopiesFor(h, m, ks) ==
  /\ h = [text |-> h.text, counts |-> <<>>] /\ h.text \in [Cells -> Texts \cup {Free}]
  /\ \A k, j \in ks : m[k] = m[j] /\ m[k] \in Cells => k = j

\* A pool: the count of a text is the number of its keys.
PoolFor(h, m, ks) ==
  /\ HeapOK(h)
  /\ \A c \in LiveCells(h) : h.counts[c] = Cardinality(KeysOf(m, ks, c))

\* The heap that the values of the keys ks make, under the policy p.
HeapFor(h, m, ks, p) ==
  /\ LiveCells(h) = CellsFor(m, ks)
  /\ IF p = "copy" THEN CopiesFor(h, m, ks) ELSE PoolFor(h, m, ks)

\* A map of strings or plain values.
Maps == UNION {[ks -> Valued] : ks \in SUBSET Keys}

\* While no call has failed: what the client holds is in memory, and each key
\* has its text there, unless it was refused.
ValuesHold ==
  /\ held # Null => heap.text[held] # Free
  /\ map = NoMap => heap = EmptyHeap
  /\ map # NoMap =>
       /\ HeapFor(heap, map, DOMAIN map, policy)
       /\ DOMAIN said = DOMAIN map
       /\ \A k \in DOMAIN map : map[k] \in Cells => heap.text[map[k]] = said[k]
       /\ (\E k \in DOMAIN map : map[k] = Null) => refused

ValuesInv ==
  /\ map = NoMap \/ (map \in Maps /\ IsFiniteSet(DOMAIN map))
  /\ policy \in {"copy", "pool"} /\ held \in Cells \cup {Null}
  /\ fault \in {"none", "null", "freed"}
  /\ fault = "freed" => ownString
  /\ fault = "null" /\ map # NoMap => refused
  /\ fault = "none" => ValuesHold

LEMMA ValueKinds == /\ Null \notin Cells /\ Plain \notin Cells /\ Plain # Null
                    /\ Valued = Cells \cup {Null, Plain}
  BY StringCounterAssumption, StringValuesAssumption DEF Valued

\* Two maps that have the same for some keys need the same heap for them.
LEMMA SameHeapFor ==
  ASSUME NEW h, NEW m, NEW g, NEW ks, NEW p, \A k \in ks : g[k] = m[k], HeapFor(h, m, ks, p)
  PROVE  HeapFor(h, g, ks, p)
<1>1. CellsFor(g, ks) = CellsFor(m, ks)
  BY DEF CellsFor
<1>2. \A c : KeysOf(g, ks, c) = KeysOf(m, ks, c)
  BY DEF KeysOf
<1>3. CopiesFor(h, m, ks) => CopiesFor(h, g, ks)
  BY DEF CopiesFor
<1>4. PoolFor(h, m, ks) => PoolFor(h, g, ks)
  BY <1>2 DEF PoolFor
<1>5. QED
  BY <1>1, <1>3, <1>4 DEF HeapFor

\* A key without a string needs nothing of the heap.
LEMMA NoCellNoHeap ==
  ASSUME NEW h, NEW m, NEW ks, NEW p, NEW k, m[k] \notin Cells
  PROVE  HeapFor(h, m, ks \ {k}, p) <=> HeapFor(h, m, ks \cup {k}, p)
<1> DEFINE less == ks \ {k}  more == ks \cup {k}
<1>1. CellsFor(m, less) = CellsFor(m, more)
  BY DEF CellsFor
<1>2. \A c \in Cells : KeysOf(m, less, c) = KeysOf(m, more, c)
  BY DEF KeysOf
<1>3. CopiesFor(h, m, less) <=> CopiesFor(h, m, more)
  BY DEF CopiesFor
<1>4. PoolFor(h, m, less) <=> PoolFor(h, m, more)
  BY <1>2 DEF PoolFor, LiveCells
<1>5. QED
  BY <1>1, <1>3, <1>4 DEF HeapFor

\* The keys of a cell, one of them fewer, or one more.
LEMMA KeysCounted ==
  ASSUME NEW m, NEW ks, IsFiniteSet(ks), NEW c
  PROVE  IsFiniteSet(KeysOf(m, ks, c)) /\ Cardinality(KeysOf(m, ks, c)) \in Nat
<1>1. KeysOf(m, ks, c) \subseteq ks
  BY DEF KeysOf
<1>2. IsFiniteSet(KeysOf(m, ks, c))
  BY <1>1, FS_Subset
<1>3. QED
  BY <1>2, FS_CardinalityType

LEMMA KeyGone ==
  ASSUME NEW m, NEW ks, IsFiniteSet(ks), NEW k \in ks
  PROVE  /\ Cardinality(KeysOf(m, ks, m[k])) # 0
         /\ Cardinality(KeysOf(m, ks \ {k}, m[k])) = Cardinality(KeysOf(m, ks, m[k])) - 1
<1> DEFINE s == KeysOf(m, ks, m[k])
<1>1. KeysOf(m, ks \ {k}, m[k]) = s \ {k} /\ k \in s
  BY DEF KeysOf
<1>2. IsFiniteSet(s)
  BY KeysCounted
<1> HIDE DEF s
<1>3. Cardinality(s \ {k}) = Cardinality(s) - 1
  BY <1>1, <1>2, FS_RemoveElement
<1>4. Cardinality(s) # 0
  BY <1>1, <1>2, FS_EmptySet
<1>5. QED
  BY <1>1, <1>3, <1>4 DEF s

LEMMA KeyCame ==
  ASSUME NEW m, NEW ks, IsFiniteSet(ks), NEW k, k \notin ks
  PROVE  Cardinality(KeysOf(m, ks \cup {k}, m[k])) = Cardinality(KeysOf(m, ks, m[k])) + 1
<1> DEFINE s == KeysOf(m, ks, m[k])
<1>1. KeysOf(m, ks \cup {k}, m[k]) = s \cup {k} /\ k \notin s
  BY DEF KeysOf
<1>2. IsFiniteSet(s)
  BY KeysCounted
<1> HIDE DEF s
<1>3. Cardinality(s \cup {k}) = Cardinality(s) + 1
  BY <1>1, <1>2, FS_AddElement
<1>4. QED
  BY <1>1, <1>3 DEF s

\* What the free of the value of k leaves of a heap for the keys ks.
FreedFor(o, h, m, ks, k, p) ==
  \/ o.fault = "null" /\ m[k] = Null /\ o.pointer = Null /\ o.heap = h
  \/ /\ o.fault = "none"
     /\ HeapFor(o.heap, m, ks \ {k}, p)
     /\ \A c \in Cells : o.heap.text[c] = h.text[c] \/ (c = m[k] /\ o.heap.text[c] = Free)

LEMMA CopyIsFreed ==
  ASSUME NEW h, NEW m, NEW ks, NEW k \in ks, m[k] \in Valued, HeapFor(h, m, ks, "copy")
  PROVE  FreedFor(FreeCopy(h, m[k]), h, m, ks, k, "copy")
<1>1. CASE m[k] \notin Cells
  <2>1. m[k] \in {Plain, Null}
    BY <1>1, ValueKinds
  <2>2. FreeCopy(h, m[k]) = [heap |-> h, pointer |-> m[k], fault |-> "none"]
    BY <2>1 DEF FreeCopy, Fine, Outcome
  <2>3. ks \cup {k} = ks
    OBVIOUS
  <2>4. HeapFor(h, m, ks \ {k}, "copy")
    BY <1>1, <2>3, NoCellNoHeap
  <2>5. QED
    BY <2>2, <2>4 DEF FreedFor
<1>2. CASE m[k] \in Cells
  <2> DEFINE c == m[k]  g == [h EXCEPT !.text[c] = Free]
  <2>1. /\ h = [text |-> h.text, counts |-> <<>>] /\ h.text \in [Cells -> Texts \cup {Free}]
        /\ \A i, j \in ks : m[i] = m[j] /\ m[i] \in Cells => i = j
        /\ LiveCells(h) = CellsFor(m, ks)
    BY DEF HeapFor, CopiesFor
  <2>2. g = [text |-> [h.text EXCEPT ![c] = Free], counts |-> <<>>]
    BY <2>1
  <2>3. FreeCopy(h, c) = [heap |-> g, pointer |-> c, fault |-> "none"]
    BY <1>2, ValueKinds DEF FreeCopy, Fine, Outcome, Release
  <2>4. /\ g = [text |-> g.text, counts |-> <<>>] /\ g.text \in [Cells -> Texts \cup {Free}]
        /\ \A d \in Cells : g.text[d] = IF d = c THEN Free ELSE h.text[d]
    BY <2>1, <2>2
  <2> HIDE DEF g
  <2>5. LiveCells(g) = CellsFor(m, ks \ {k})
    BY <1>2, <2>1, <2>4 DEF LiveCells, CellsFor
  <2>6. CopiesFor(g, m, ks \ {k})
    BY <2>1, <2>4 DEF CopiesFor
  <2>7. HeapFor(g, m, ks \ {k}, "copy")
    BY <2>5, <2>6 DEF HeapFor
  <2>8. QED
    BY <2>3, <2>4, <2>7 DEF FreedFor
<1>3. QED
  BY <1>1, <1>2

LEMMA PooledIsFreed ==
  ASSUME NEW h, NEW m, NEW ks, IsFiniteSet(ks), NEW k \in ks, m[k] \in Valued,
         HeapFor(h, m, ks, "pool")
  PROVE  FreedFor(UnrefFromPool(h, m[k]), h, m, ks, k, "pool")
<1>1. CASE m[k] = Null
  <2>1. UnrefFromPool(h, m[k]) = [heap |-> h, pointer |-> Null, fault |-> "null"]
    BY <1>1, ValueKinds DEF UnrefFromPool, Outcome
  <2>2. QED
    BY <1>1, <2>1 DEF FreedFor
<1>2. CASE m[k] = Plain
  <2>1. UnrefFromPool(h, m[k]) = [heap |-> h, pointer |-> m[k], fault |-> "none"]
    BY <1>2, ValueKinds DEF UnrefFromPool, Fine, Outcome
  <2>2. ks \cup {k} = ks /\ m[k] \notin Cells
    BY <1>2, ValueKinds
  <2>3. HeapFor(h, m, ks \ {k}, "pool")
    BY <2>2, NoCellNoHeap
  <2>4. QED
    BY <2>1, <2>3 DEF FreedFor
<1>3. CASE m[k] \in Cells
  <2>0. PICK c \in Cells : m[k] = c
    BY <1>3
  <2> DEFINE t == h.text[c]  n == Cardinality(KeysOf(m, ks, c))
  <2>1. /\ LiveCells(h) = CellsFor(m, ks) /\ HeapOK(h)
        /\ \A d \in LiveCells(h) : h.counts[d] = Cardinality(KeysOf(m, ks, d))
    BY DEF HeapFor, PoolFor
  <2>2. /\ h.text \in [Cells -> Texts \cup {Free}]
        /\ DOMAIN h.counts = {d \in Cells : h.text[d] # Free}
    BY <2>1, HeapFacts
  <2>3. c \in LiveCells(h)
    BY <2>0, <2>1 DEF CellsFor
  <2>4. t # Free /\ t \in Texts /\ c \in NodeFor(h, t) /\ h.counts[c] = n
    BY <2>0, <2>1, <2>2, <2>3 DEF LiveCells, NodeFor
  <2>5. /\ n \in Nat /\ n # 0 /\ Cardinality(KeysOf(m, ks \ {k}, c)) = n - 1
        /\ \A d \in Cells : d # c => KeysOf(m, ks \ {k}, d) = KeysOf(m, ks, d)
    <3>1. Cardinality(KeysOf(m, ks, c)) \in Nat
      BY KeysCounted
    <3>2. /\ Cardinality(KeysOf(m, ks, c)) # 0
          /\ Cardinality(KeysOf(m, ks \ {k}, c)) = Cardinality(KeysOf(m, ks, c)) - 1
      BY <2>0, KeyGone
    <3>3. \A d \in Cells : d # c => KeysOf(m, ks \ {k}, d) = KeysOf(m, ks, d)
      BY <2>0 DEF KeysOf
    <3>4. QED
      BY <3>1, <3>2, <3>3
  <2>6. UnrefFromPool(h, c) = [heap |-> Unref(h, t), pointer |-> c, fault |-> "none"]
    BY <2>0, <2>4, ValueKinds DEF UnrefFromPool, Fine, Outcome
  <2>7. Unref(h, t) = IF n = 1 THEN Removed(h, c) ELSE Counted(h, c, n - 1)
    BY <2>1, <2>4, UnrefOutcome
  <2>8. \A d \in Cells : d \in CellsFor(m, ks \ {k}) <=> KeysOf(m, ks \ {k}, d) # {}
    BY DEF CellsFor, KeysOf
  <2>9. \A d \in Cells : d \in CellsFor(m, ks) <=> KeysOf(m, ks, d) # {}
    BY DEF CellsFor, KeysOf
  <2>10. IsFiniteSet(KeysOf(m, ks \ {k}, c))
    <3>1. IsFiniteSet(ks \ {k})
      BY FS_Subset
    <3>2. QED
      BY <3>1, KeysCounted
  <2> HIDE DEF n, t
  <2>11. ASSUME n = 1
         PROVE  FreedFor(UnrefFromPool(h, c), h, m, ks, k, "pool")
    <3> DEFINE g == Removed(h, c)
    <3>1. HeapOK(g)
      BY <2>1, <2>4, RemovedTells
    <3>2. /\ \A d \in Cells : g.text[d] = IF d = c THEN Free ELSE h.text[d]
          /\ \A d \in Cells \ {c} : d \in DOMAIN h.counts => g.counts[d] = h.counts[d]
      BY <2>2 DEF Removed
    <3> HIDE DEF g
    <3>3. KeysOf(m, ks \ {k}, c) = {}
      BY <2>5, <2>10, <2>11, FS_EmptySet
    <3>4. LiveCells(g) = CellsFor(m, ks \ {k})
      <4>1. \A d \in Cells : d \in LiveCells(g) <=> d # c /\ d \in LiveCells(h)
        BY <3>2 DEF LiveCells
      <4>2. \A d \in Cells : d \in CellsFor(m, ks \ {k}) <=> d # c /\ d \in CellsFor(m, ks)
        BY <2>5, <2>8, <2>9, <3>3
      <4>3. LiveCells(g) \subseteq Cells /\ CellsFor(m, ks \ {k}) \subseteq Cells
        BY DEF LiveCells, CellsFor
      <4>4. QED
        BY <2>1, <4>1, <4>2, <4>3
    <3>5. \A d \in LiveCells(g) : g.counts[d] = Cardinality(KeysOf(m, ks \ {k}, d))
      <4>1. \A d \in LiveCells(g) : d \in Cells \ {c} /\ d \in LiveCells(h) /\ d \in DOMAIN h.counts
        BY <2>2, <3>2 DEF LiveCells
      <4>2. QED
        BY <2>1, <2>5, <3>2, <4>1
    <3>6. HeapFor(g, m, ks \ {k}, "pool")
      BY <3>1, <3>4, <3>5 DEF HeapFor, PoolFor
    <3>7. UnrefFromPool(h, c) = [heap |-> g, pointer |-> c, fault |-> "none"]
      BY <2>6, <2>7, <2>11 DEF g
    <3>8. QED
      BY <2>0, <3>2, <3>6, <3>7 DEF FreedFor
  <2>12. ASSUME n # 1
         PROVE  FreedFor(UnrefFromPool(h, c), h, m, ks, k, "pool")
    <3> DEFINE g == Counted(h, c, n - 1)
    <3>1. HeapOK(g)
      <4>1. n - 1 \in Int
        BY <2>5
      <4>2. QED
        BY <2>1, <2>4, <4>1, CountedTells
    <3>2. /\ g.text = h.text
          /\ \A d \in DOMAIN h.counts : g.counts[d] = IF d = c THEN n - 1 ELSE h.counts[d]
      BY <2>1, HeapFacts DEF Counted
    <3> HIDE DEF g
    <3>3. KeysOf(m, ks \ {k}, c) # {}
      BY <2>5, <2>12, FS_EmptySet
    <3>4. LiveCells(g) = CellsFor(m, ks \ {k})
      <4>1. LiveCells(g) = LiveCells(h)
        BY <3>2 DEF LiveCells
      <4>2. \A d \in Cells : d \in CellsFor(m, ks \ {k}) <=> d \in CellsFor(m, ks)
        BY <2>1, <2>3, <2>5, <2>8, <2>9, <3>3
      <4>3. CellsFor(m, ks) \subseteq Cells /\ CellsFor(m, ks \ {k}) \subseteq Cells
        BY DEF CellsFor
      <4>4. QED
        BY <2>1, <4>1, <4>2, <4>3
    <3>5. \A d \in LiveCells(g) : g.counts[d] = Cardinality(KeysOf(m, ks \ {k}, d))
      <4>1. \A d \in LiveCells(g) : d \in Cells /\ d \in LiveCells(h) /\ d \in DOMAIN h.counts
        BY <2>2, <3>2 DEF LiveCells
      <4>2. QED
        BY <2>1, <2>5, <3>2, <4>1
    <3>6. HeapFor(g, m, ks \ {k}, "pool")
      BY <3>1, <3>4, <3>5 DEF HeapFor, PoolFor
    <3>7. UnrefFromPool(h, c) = [heap |-> g, pointer |-> c, fault |-> "none"]
      BY <2>6, <2>7, <2>12 DEF g
    <3>8. QED
      BY <2>0, <3>2, <3>6, <3>7 DEF FreedFor
  <2>13. QED
    BY <2>0, <2>11, <2>12
<1>4. QED
  BY <1>1, <1>2, <1>3, ValueKinds

LEMMA ValueIsFreed ==
  ASSUME policy \in {"copy", "pool"}, NEW h, NEW m, NEW ks, IsFiniteSet(ks), NEW k \in ks,
         m[k] \in Valued, HeapFor(h, m, ks, policy)
  PROVE  FreedFor(FreeValue(h, m[k]), h, m, ks, k, policy)
<1>1. CASE policy = "copy"
  <2>1. FreeValue(h, m[k]) = FreeCopy(h, m[k])
    BY <1>1 DEF FreeValue
  <2>2. HeapFor(h, m, ks, "copy")
    BY <1>1
  <2>3. QED
    BY <1>1, <2>1, <2>2, CopyIsFreed
<1>2. CASE policy = "pool"
  <2>1. FreeValue(h, m[k]) = UnrefFromPool(h, m[k])
    BY <1>2 DEF FreeValue
  <2>2. HeapFor(h, m, ks, "pool")
    BY <1>2
  <2>3. QED
    BY <1>2, <2>1, <2>2, PooledIsFreed
<1>3. QED
  BY <1>1, <1>2

\* What a new value of the text t for k makes of a heap for the other keys ks.
SetFor(o, h, g, ks, k, t, p) ==
  /\ HeapFor(o.heap, g, ks \cup {k}, p)
  /\ o.fault \in {"none", "null"} /\ (o.fault # "none" => o.pointer = Null)
  /\ o.pointer \in Cells \cup {Null}
  /\ o.pointer # Null => o.heap.text[o.pointer] = t
  /\ \A c \in LiveCells(h) : o.heap.text[c] = h.text[c]

\* Without memory there is no string.
LEMMA NothingIsSet ==
  ASSUME NEW o, NEW h, NEW g, NEW ks, NEW k, NEW t, NEW p, k \notin ks,
         HeapFor(h, g, ks, p), g[k] = o.pointer,
         o.heap = h, o.pointer = Null, o.fault \in {"none", "null"}
  PROVE  SetFor(o, h, g, ks, k, t, p)
<1>1. ks \ {k} = ks /\ g[k] \notin Cells
  BY ValueKinds
<1>2. HeapFor(h, g, ks \cup {k}, p)
  BY <1>1, NoCellNoHeap
<1>3. QED
  BY <1>2 DEF SetFor

LEMMA CopyIsSet ==
  ASSUME NEW h, NEW g, NEW ks, NEW k, k \notin ks, NEW t \in Texts,
         NEW o \in StrDup(h, t), g[k] = o.pointer, HeapFor(h, g, ks, "copy")
  PROVE  SetFor(o, h, g, ks, k, t, "copy")
<1>1. CASE o = Outcome(h, Null, "null")
  BY <1>1, NothingIsSet DEF Outcome
<1>2. CASE FreeCells(h) # {} /\ o = Fine([h EXCEPT !.text[NewCell(h)] = t], NewCell(h))
  <2>1. PICK c : c = NewCell(h) /\ c \in Cells /\ h.text[c] = Free
    <3>1. NewCell(h) \in FreeCells(h)
      BY <1>2 DEF NewCell, The
    <3>2. QED
      BY <3>1 DEF FreeCells
  <2>2. /\ h = [text |-> h.text, counts |-> <<>>] /\ h.text \in [Cells -> Texts \cup {Free}]
        /\ \A i, j \in ks : g[i] = g[j] /\ g[i] \in Cells => i = j
        /\ LiveCells(h) = CellsFor(g, ks)
    BY DEF HeapFor, CopiesFor
  <2>3. PICK x : x = [h EXCEPT !.text[c] = t]
    OBVIOUS
  <2>4. x = [text |-> [h.text EXCEPT ![c] = t], counts |-> <<>>]
    BY <2>2, <2>3
  <2>5. o = [heap |-> x, pointer |-> c, fault |-> "none"]
    BY <1>2, <2>1, <2>3 DEF Fine, Outcome
  <2>6. /\ x = [text |-> x.text, counts |-> <<>>] /\ x.text \in [Cells -> Texts \cup {Free}]
        /\ \A d \in Cells : x.text[d] = IF d = c THEN t ELSE h.text[d]
    BY <2>1, <2>2, <2>4
  <2>7. t # Free /\ g[k] = c
    BY <2>5, StringCounterAssumption
  <2>8. LiveCells(x) = CellsFor(g, ks \cup {k})
    <3>1. \A d \in Cells : d \in LiveCells(x) <=> d = c \/ d \in LiveCells(h)
      BY <2>6, <2>7 DEF LiveCells
    <3>2. \A d \in Cells : d \in CellsFor(g, ks \cup {k}) <=> d = c \/ d \in CellsFor(g, ks)
      BY <2>7 DEF CellsFor
    <3>3. LiveCells(x) \subseteq Cells /\ CellsFor(g, ks \cup {k}) \subseteq Cells
      BY DEF LiveCells, CellsFor
    <3>4. QED
      BY <2>2, <3>1, <3>2, <3>3
  <2>9. \A i \in ks : g[i] # c
    BY <2>1, <2>2 DEF LiveCells, CellsFor
  <2>10. CopiesFor(x, g, ks \cup {k})
    BY <2>2, <2>6, <2>7, <2>9 DEF CopiesFor
  <2>11. HeapFor(x, g, ks \cup {k}, "copy")
    BY <2>8, <2>10 DEF HeapFor
  <2>12. \A d \in LiveCells(h) : x.text[d] = h.text[d]
    BY <2>1, <2>6 DEF LiveCells
  <2>13. QED
    BY <2>1, <2>5, <2>6, <2>11, <2>12 DEF SetFor
<1>3. QED
  BY <1>1, <1>2 DEF StrDup

\* A reference never fails after it has got the string.
LEMMA RefFaults ==
  ASSUME NEW h, NEW t, NEW o \in Ref(h, t)
  PROVE  o.fault \in {"none", "null"} /\ (o.fault # "none" => o.pointer = Null)
<1>1. ASSUME NEW dup \in StrDup(h, t)
      PROVE  dup.fault \in {"none", "null"} /\ (dup.fault # "none" => dup.pointer = Null)
  BY <1>1 DEF StrDup, Fine, Outcome
<1>2. ASSUME NEW n, NEW e \in PutNew(h, t, n)
      PROVE  e.fault \in {"none", "null"} /\ (e.fault # "none" => e.pointer = Null)
  <2>1. CASE e = Fine(h, Null)
    BY <2>1 DEF Fine, Outcome
  <2>2. ASSUME NEW dup \in StrDup(h, t), dup.fault # "none", e = dup
        PROVE  e.fault \in {"none", "null"} /\ (e.fault # "none" => e.pointer = Null)
    BY <1>1, <2>2
  <2>3. ASSUME NEW dup \in StrDup(h, t), dup.fault = "none",
               e = [dup EXCEPT !.heap.counts = [c \in DOMAIN @ \cup {dup.pointer} |->
                                                  IF c = dup.pointer THEN n ELSE @[c]]]
        PROVE  e.fault = "none"
    <3>1. PICK x, p : dup = [heap |-> x, pointer |-> p, fault |-> "none"]
      BY <2>3 DEF StrDup, Fine, Outcome
    <3>2. QED
      BY <2>3, <3>1
  <2>4. QED
    BY <2>1, <2>2, <2>3 DEF PutNew
<1>3. CASE NodeFor(h, t) = {}
  BY <1>2, <1>3 DEF Ref
<1>4. CASE NodeFor(h, t) # {}
  BY <1>4 DEF Ref, Fine, Outcome
<1>5. QED
  BY <1>3, <1>4

LEMMA PooledIsSet ==
  ASSUME NEW h, NEW g, NEW ks, IsFiniteSet(ks), NEW k, k \notin ks, NEW t \in Texts,
         NEW o \in Ref(h, t), g[k] = o.pointer, HeapFor(h, g, ks, "pool")
  PROVE  SetFor(o, h, g, ks, k, t, "pool")
<1>1. /\ LiveCells(h) = CellsFor(g, ks) /\ HeapOK(h)
      /\ \A d \in LiveCells(h) : h.counts[d] = Cardinality(KeysOf(g, ks, d))
  BY DEF HeapFor, PoolFor
<1>2. /\ h.text \in [Cells -> Texts \cup {Free}] /\ h.counts \in [DOMAIN h.counts -> Int]
      /\ DOMAIN h.counts = LiveCells(h)
  BY <1>1, HeapFacts DEF LiveCells
<1>3. o.fault \in {"none", "null"} /\ (o.fault # "none" => o.pointer = Null) /\ t # Free
  BY RefFaults, StringCounterAssumption
<1>4. CASE o.heap = h /\ o.pointer = Null
  BY <1>3, <1>4, NothingIsSet
<1>5. ASSUME NEW c \in Cells, o.pointer = c, HeapOK(o.heap),
             \A d \in Cells : o.heap.text[d] = IF d = c THEN t ELSE h.text[d],
             \A d \in LiveCells(h) : o.heap.text[d] = h.text[d],
             \A d \in LiveCells(h) \ {c} : o.heap.counts[d] = h.counts[d],
             o.heap.counts[c] = Cardinality(KeysOf(g, ks, c)) + 1
      PROVE  SetFor(o, h, g, ks, k, t, "pool")
  <2>1. PICK x : x = o.heap
    OBVIOUS
  <2>2. LiveCells(x) = CellsFor(g, ks \cup {k})
    <3>1. \A d \in Cells : d \in LiveCells(x) <=> d = c \/ d \in LiveCells(h)
      BY <1>3, <1>5, <2>1 DEF LiveCells
    <3>2. \A d \in Cells : d \in CellsFor(g, ks \cup {k}) <=> d = c \/ d \in CellsFor(g, ks)
      BY <1>5 DEF CellsFor
    <3>3. LiveCells(x) \subseteq Cells /\ CellsFor(g, ks \cup {k}) \subseteq Cells
      BY DEF LiveCells, CellsFor
    <3>4. QED
      BY <1>1, <3>1, <3>2, <3>3
  <2>3. x.counts[c] = Cardinality(KeysOf(g, ks \cup {k}, c))
    <3>1. g[k] = c
      BY <1>5
    <3>2. Cardinality(KeysOf(g, ks \cup {k}, c)) = Cardinality(KeysOf(g, ks, c)) + 1
      BY <3>1, KeyCame
    <3>3. QED
      BY <1>5, <2>1, <3>2
  <2>4. ASSUME NEW d \in LiveCells(x), d # c
        PROVE  x.counts[d] = Cardinality(KeysOf(g, ks \cup {k}, d))
    <3>1. d \in LiveCells(h)
      BY <1>5, <2>1, <2>4 DEF LiveCells
    <3>2. KeysOf(g, ks \cup {k}, d) = KeysOf(g, ks, d)
      BY <1>5, <2>4 DEF KeysOf
    <3>3. QED
      BY <1>1, <1>5, <2>1, <2>4, <3>1, <3>2
  <2>5. PoolFor(x, g, ks \cup {k})
    BY <1>5, <2>1, <2>3, <2>4 DEF PoolFor
  <2>6. HeapFor(o.heap, g, ks \cup {k}, "pool")
    BY <2>1, <2>2, <2>5 DEF HeapFor
  <2>7. QED
    BY <1>3, <1>5, <2>6 DEF SetFor
<1>6. ASSUME NodeFor(h, t) = {}, NEW c \in Cells, h.text[c] = Free, o.pointer = c, o.heap = Added(h, t, c, 1)
      PROVE  SetFor(o, h, g, ks, k, t, "pool")
  <2>1. HeapOK(o.heap) /\ o.heap.counts[c] = 1
    BY <1>1, <1>6, AddedTells
  <2>2. /\ \A d \in Cells : o.heap.text[d] = IF d = c THEN t ELSE h.text[d]
        /\ \A d \in LiveCells(h) : o.heap.text[d] = h.text[d]
        /\ \A d \in LiveCells(h) \ {c} : o.heap.counts[d] = h.counts[d]
    BY <1>2, <1>6 DEF Added, LiveCells
  <2>3. Cardinality(KeysOf(g, ks, c)) = 0
    <3>1. KeysOf(g, ks, c) = {}
      BY <1>1, <1>6 DEF LiveCells, CellsFor, KeysOf
    <3>2. QED
      BY <3>1, FS_EmptySet
  <2>4. o.heap.counts[c] = Cardinality(KeysOf(g, ks, c)) + 1
    BY <2>1, <2>3
  <2>5. QED
    BY <1>5, <1>6, <2>1, <2>2, <2>4
<1>7. ASSUME NEW c \in NodeFor(h, t), o.pointer = c, o.heap = Counted(h, c, h.counts[c] + 1)
      PROVE  SetFor(o, h, g, ks, k, t, "pool")
  <2>1. c \in DOMAIN h.counts /\ c \in Cells /\ h.text[c] = t /\ h.counts[c] \in Int
    BY <1>2 DEF NodeFor, LiveCells
  <2>2. HeapOK(o.heap) /\ o.heap.counts[c] = h.counts[c] + 1
    <3>1. h.counts[c] + 1 \in Int
      BY <2>1
    <3>2. QED
      BY <1>1, <1>7, <3>1, CountedTells
  <2>3. /\ \A d \in Cells : o.heap.text[d] = IF d = c THEN t ELSE h.text[d]
        /\ \A d \in LiveCells(h) : o.heap.text[d] = h.text[d]
        /\ \A d \in LiveCells(h) \ {c} : o.heap.counts[d] = h.counts[d]
    BY <1>2, <1>7, <2>1 DEF Counted
  <2>4. o.heap.counts[c] = Cardinality(KeysOf(g, ks, c)) + 1
    BY <1>1, <1>2, <2>1, <2>2
  <2>5. QED
    BY <1>5, <1>7, <2>1, <2>2, <2>3, <2>4
<1>8. QED
  BY <1>1, <1>4, <1>6, <1>7, RefOutcomes

LEMMA ValueIsSet ==
  ASSUME policy \in {"copy", "pool"}, NEW h, NEW g, NEW ks, IsFiniteSet(ks), NEW k, k \notin ks,
         NEW t \in Texts, NEW o \in SetValue(h, t), g[k] = o.pointer, HeapFor(h, g, ks, policy)
  PROVE  SetFor(o, h, g, ks, k, t, policy)
<1>0. t # Free
  BY StringCounterAssumption
<1>1. CASE policy = "copy"
  <2>1. o \in StrDup(h, t)
    BY <1>0, <1>1 DEF SetValue
  <2>2. HeapFor(h, g, ks, "copy")
    BY <1>1
  <2>3. QED
    BY <1>1, <2>1, <2>2, CopyIsSet
<1>2. CASE policy = "pool"
  <2>1. o \in Ref(h, t)
    BY <1>0, <1>2 DEF SetValue, AddToPool
  <2>2. HeapFor(h, g, ks, "pool")
    BY <1>2
  <2>3. QED
    BY <1>2, <2>1, <2>2, PooledIsSet
<1>3. QED
  BY <1>1, <1>2

-----------------------------------------------------------------------------
(* The values of several keys. *)

\* The heap that frees the values of the keys ks, one after the other.
FreesAll(f, ks) ==
  \A s \in SUBSET ks :
    f[s] = IF s = {} THEN Fine(heap, Null)
           ELSE LET k == CHOOSE k \in s : TRUE
                    rest == f[s \ {k}]
                IN  IF rest.fault # "none" THEN rest ELSE FreeValue(rest.heap, map[k])

\* What it comes to for the sets of no more than n keys.
FreesUpTo(f, ks, n) ==
  f = [s \in {s \in SUBSET ks : Cardinality(s) <= n} |->
         IF s = {} THEN Fine(heap, Null)
         ELSE LET k == CHOOSE k \in s : TRUE
                  rest == f[s \ {k}]
              IN  IF rest.fault # "none" THEN rest ELSE FreeValue(rest.heap, map[k])]

LEMMA FreesExist ==
  ASSUME NEW ks, IsFiniteSet(ks), NEW n \in Nat
  PROVE  \E f : FreesUpTo(f, ks, n)
<1> DEFINE Less(m) == {s \in SUBSET ks : Cardinality(s) <= m}
           After(f, s) == IF s = {} THEN Fine(heap, Null)
                          ELSE LET k == CHOOSE k \in s : TRUE
                                   rest == f[s \ {k}]
                               IN  IF rest.fault # "none" THEN rest ELSE FreeValue(rest.heap, map[k])
           N == {m \in Nat : ~\E f : FreesUpTo(f, ks, m)}
<1>1. \A s \in SUBSET ks : IsFiniteSet(s) /\ Cardinality(s) \in Nat
  BY FS_Subset, FS_CardinalityType
<1>2. \A f, m : FreesUpTo(f, ks, m) <=> f = [s \in Less(m) |-> After(f, s)]
  BY DEF FreesUpTo
<1>3. SUFFICES ASSUME N # {} PROVE FALSE
  OBVIOUS
<1>4. PICK m \in N : \A j \in N : m <= j
  BY <1>3, LeastNumber
<1>5. m \in Nat /\ (\A f : ~FreesUpTo(f, ks, m)) /\ \A j \in 0..(m - 1) : \E f : FreesUpTo(f, ks, j)
  BY <1>4
<1> HIDE DEF N
<1>6. CASE m = 0
  <2> DEFINE f == [s \in Less(m) |-> Fine(heap, Null)]
  <2>1. \A s \in Less(m) : s = {}
    BY <1>1, <1>6, FS_EmptySet
  <2>2. f = [s \in Less(m) |-> After(f, s)]
    <3>1. \A s \in Less(m) : After(f, s) = Fine(heap, Null)
      BY <2>1
    <3> HIDE DEF After
    <3>2. QED
      BY <3>1
  <2>3. QED
    BY <1>2, <1>5, <2>2
<1>7. CASE m > 0
  <2>1. PICK f : FreesUpTo(f, ks, m - 1)
    BY <1>5, <1>7
  <2>2. f = [s \in Less(m - 1) |-> After(f, s)]
    BY <2>1 DEF FreesUpTo
  <2> DEFINE g == [s \in Less(m) |-> After(f, s)]
  <2>3. Less(m - 1) \subseteq Less(m)
    BY <1>1, <1>5
  <2>4. \A s \in Less(m - 1) : g[s] = f[s]
    <3> HIDE DEF After, Less
    <3>1. QED
      BY <2>2, <2>3
  <2>5. ASSUME NEW s \in Less(m)
        PROVE  After(g, s) = After(f, s)
    <3>1. CASE s = {}
      BY <3>1
    <3>2. CASE s # {}
      <4> DEFINE k == CHOOSE k \in s : TRUE
      <4>1. k \in s
        BY <3>2
      <4>2. Cardinality(s \ {k}) = Cardinality(s) - 1 /\ s \ {k} \in SUBSET ks
        BY <1>1, <4>1, FS_RemoveElement
      <4>3. s \ {k} \in Less(m - 1)
        BY <1>1, <1>5, <4>2
      <4>4. g[s \ {k}] = f[s \ {k}]
        BY <2>4, <4>3
      <4> HIDE DEF g
      <4>5. QED
        BY <3>2, <4>4
    <3>3. QED
      BY <3>1, <3>2
  <2>6. g = [s \in Less(m) |-> After(g, s)]
    <3> HIDE DEF After, Less
    <3>1. g = [s \in Less(m) |-> After(f, s)]
      OBVIOUS
    <3> HIDE DEF g
    <3>2. QED
      BY <2>5, <3>1
  <2> HIDE DEF g
  <2>7. QED
    BY <1>2, <1>5, <2>6
<1>8. QED
  BY <1>5, <1>6, <1>7

LEMMA FreedIs ==
  ASSUME NEW ks, IsFiniteSet(ks)
  PROVE  \E f : FreesAll(f, ks) /\ Freed(ks) = f[ks]
<1> DEFINE After(f, s) == IF s = {} THEN Fine(heap, Null)
                          ELSE LET k == CHOOSE k \in s : TRUE
                                   rest == f[s \ {k}]
                               IN  IF rest.fault # "none" THEN rest ELSE FreeValue(rest.heap, map[k])
           g == CHOOSE f : f = [s \in SUBSET ks |-> After(f, s)]
<1>1. Cardinality(ks) \in Nat /\ \A s \in SUBSET ks : Cardinality(s) <= Cardinality(ks)
  BY FS_CardinalityType, FS_Subset
<1>2. {s \in SUBSET ks : Cardinality(s) <= Cardinality(ks)} = SUBSET ks
  BY <1>1
<1>3. PICK f : FreesUpTo(f, ks, Cardinality(ks))
  BY <1>1, FreesExist
<1>4. f = [s \in SUBSET ks |-> After(f, s)]
  <2>1. f = [s \in {s \in SUBSET ks : Cardinality(s) <= Cardinality(ks)} |-> After(f, s)]
    BY <1>3 DEF FreesUpTo
  <2> HIDE DEF After
  <2>2. QED
    BY <1>2, <2>1
<1>5. g = [s \in SUBSET ks |-> After(g, s)]
  <2> HIDE DEF After
  <2>1. QED
    BY <1>4
<1>6. Freed(ks) = g[ks]
  BY DEF Freed
<1> HIDE DEF g
<1>7. FreesAll(g, ks)
  <2>1. ASSUME NEW s \in SUBSET ks
        PROVE  g[s] = After(g, s)
    <3> HIDE DEF After
    <3>1. QED
      BY <1>5
  <2>2. QED
    BY <2>1 DEF FreesAll
<1>8. QED
  BY <1>6, <1>7

\* What the frees of the values of ks leave of a heap for the keys ds.
AllFreed(o, ks, ds) ==
  \/ o.fault = "null" /\ \E k \in ks : map[k] = Null
  \/ /\ o.fault = "none"
     /\ HeapFor(o.heap, map, ds \ ks, policy)
     /\ \A c \in Cells : o.heap.text[c] \in {heap.text[c], Free}

LEMMA FreedKeeps ==
  ASSUME policy \in {"copy", "pool"}, NEW ds, IsFiniteSet(ds), \A k \in ds : map[k] \in Valued,
         HeapFor(heap, map, ds, policy), NEW ks \in SUBSET ds
  PROVE  AllFreed(Freed(ks), ks, ds)
<1>1. IsFiniteSet(ks)
  BY FS_Subset
<1>2. PICK f : FreesAll(f, ks) /\ Freed(ks) = f[ks]
  BY <1>1, FreedIs
<1> DEFINE N == {n \in Nat : \E s \in SUBSET ks : Cardinality(s) = n /\ ~AllFreed(f[s], s, ds)}
<1>3. \A s \in SUBSET ks : IsFiniteSet(s) /\ Cardinality(s) \in Nat
  BY <1>1, FS_Subset, FS_CardinalityType
<1>4. ASSUME N # {} PROVE FALSE
  <2>1. PICK n \in N : \A j \in N : n <= j
    BY <1>4, LeastNumber
  <2>2. PICK s \in SUBSET ks : Cardinality(s) = n /\ ~AllFreed(f[s], s, ds)
    BY <2>1
  <2>3. \A r \in SUBSET ks : Cardinality(r) < n => AllFreed(f[r], r, ds)
    BY <1>3, <2>1
  <2>4. CASE s = {}
    <3>1. f[s] = [heap |-> heap, pointer |-> Null, fault |-> "none"]
      BY <1>2, <2>4 DEF FreesAll, Fine, Outcome
    <3>2. ds \ s = ds
      BY <2>4
    <3>3. QED
      BY <2>2, <3>1, <3>2 DEF AllFreed
  <2>5. CASE s # {}
    <3>1. PICK k : k = CHOOSE j \in s : TRUE
      OBVIOUS
    <3>2. k \in s
      BY <2>5, <3>1
    <3>3. PICK r : r = s \ {k}
      OBVIOUS
    <3>4. Cardinality(r) < n /\ r \in SUBSET ks
      <4>1. Cardinality(r) = Cardinality(s) - 1
        BY <1>3, <3>2, <3>3, FS_RemoveElement
      <4>2. QED
        BY <1>3, <2>2, <3>3, <4>1
    <3>5. AllFreed(f[r], r, ds)
      BY <2>3, <3>4
    <3>6. f[s] = IF f[r].fault # "none" THEN f[r] ELSE FreeValue(f[r].heap, map[k])
      BY <1>2, <2>5, <3>1, <3>3 DEF FreesAll
    <3>7. CASE f[r].fault # "none"
      BY <2>2, <3>3, <3>5, <3>6, <3>7 DEF AllFreed
    <3>8. CASE f[r].fault = "none"
      <4>1. PICK h : h = f[r].heap
        OBVIOUS
      <4>2. PICK o : o = FreeValue(h, map[k])
        OBVIOUS
      <4>3. HeapFor(h, map, ds \ r, policy) /\ \A c \in Cells : h.text[c] \in {heap.text[c], Free}
        BY <3>5, <3>8, <4>1 DEF AllFreed
      <4>4. IsFiniteSet(ds \ r) /\ k \in ds \ r /\ map[k] \in Valued /\ (ds \ r) \ {k} = ds \ s
        BY <3>2, <3>3, FS_Subset
      <4>5. FreedFor(o, h, map, ds \ r, k, policy)
        BY <4>2, <4>3, <4>4, ValueIsFreed
      <4>6. AllFreed(o, s, ds)
        <5>1. CASE o.fault = "null" /\ map[k] = Null
          BY <3>2, <5>1 DEF AllFreed
        <5>2. CASE o.fault = "none" /\ HeapFor(o.heap, map, ds \ s, policy)
                   /\ \A c \in Cells : o.heap.text[c] = h.text[c] \/ (c = map[k] /\ o.heap.text[c] = Free)
          BY <4>3, <5>2 DEF AllFreed
        <5>3. QED
          BY <4>4, <4>5, <5>1, <5>2 DEF FreedFor
      <4>7. QED
        BY <2>2, <3>6, <3>8, <4>1, <4>2, <4>6
    <3>9. QED
      BY <3>7, <3>8
  <2>6. QED
    BY <2>4, <2>5
<1>5. AllFreed(f[ks], ks, ds)
  BY <1>3, <1>4
<1>6. QED
  BY <1>2, <1>5

-----------------------------------------------------------------------------
(* The calls on the map. *)

LEMMA RestrictIs ==
  ASSUME NEW m, NEW ks
  PROVE  Restrict(m, ks) = [k \in ks |-> m[k]]
  BY DEF Restrict

LEMMA NextValuesInv ==
  ValuesInv' <=>
    /\ map' = NoMap \/ (map' \in Maps /\ IsFiniteSet(DOMAIN map'))
    /\ policy' \in {"copy", "pool"} /\ held' \in Cells \cup {Null}
    /\ fault' \in {"none", "null", "freed"}
    /\ fault' = "freed" => ownString'
    /\ fault' = "null" /\ map' # NoMap => refused'
    /\ fault' = "none" =>
         /\ held' # Null => heap'.text[held'] # Free
         /\ map' = NoMap => heap' = EmptyHeap
         /\ map' # NoMap =>
              /\ HeapFor(heap', map', DOMAIN map', policy')
              /\ DOMAIN said' = DOMAIN map'
              /\ \A k \in DOMAIN map' : map'[k] \in Cells => heap'.text[map'[k]] = said'[k]
              /\ (\E k \in DOMAIN map' : map'[k] = Null) => refused'
  BY DEF ValuesInv, ValuesHold, HeapFor, LiveCells, CellsFor, CopiesFor, PoolFor, KeysOf, HeapOK, Heaps,
         Maps, Valued

\* What ValuesInv says of a map and of no map.
LEMMA MapFacts ==
  ASSUME ValuesInv, map # NoMap, fault = "none"
  PROVE  /\ DOMAIN map \in SUBSET Keys /\ IsFiniteSet(DOMAIN map)
         /\ map \in [DOMAIN map -> Valued]
         /\ HeapFor(heap, map, DOMAIN map, policy)
         /\ policy \in {"copy", "pool"}
         /\ DOMAIN said = DOMAIN map
  BY DEF ValuesInv, ValuesHold, Maps

LEMMA MapsAreMaps == \A f \in Maps : f # NoMap
  BY StringValuesAssumption DEF Maps, Valued

\* A call that ends with a value for k keeps the invariant if the heap is as it
\* should be.
LEMMA EndKeeps ==
  ASSUME ValuesInv, map # NoMap, fault = "none", NEW k \in Keys, NEW o, NEW v, Ends(k, o, v),
         o.pointer \in Valued, o.fault \in {"none", "null", "freed"},
         o.fault = "freed" => ownString',
         o.fault = "null" => o.pointer = Null \/ refused,
         o.fault = "none" =>
           /\ HeapFor(o.heap, With(map, k, o.pointer), (DOMAIN map \ {k}) \cup {k}, policy)
           /\ o.pointer \in Cells => o.heap.text[o.pointer] = v
           /\ \A j \in DOMAIN map \ {k} : map[j] \in Cells => o.heap.text[map[j]] = heap.text[map[j]]
  PROVE  ValuesInv'
<1> DEFINE D == DOMAIN map
<1>1. /\ D \in SUBSET Keys /\ IsFiniteSet(D) /\ map \in [D -> Valued] /\ DOMAIN said = D
      /\ \A j \in D : map[j] \in Cells => heap.text[map[j]] = said[j]
      /\ (\E j \in D : map[j] = Null) => refused
      /\ policy \in {"copy", "pool"} /\ held \in Cells \cup {Null}
  BY MapFacts DEF ValuesInv, ValuesHold
<1>2. /\ heap' = o.heap /\ fault' = o.fault /\ policy' = policy
      /\ map' = [j \in D \cup {k} |-> IF j = k THEN o.pointer ELSE map[j]]
      /\ said' = [j \in D \cup {k} |-> IF j = k THEN v ELSE said[j]]
      /\ held' = IF held # Null /\ o.heap.text[held] = Free THEN Null ELSE held
      /\ refused' = (refused \/ o.pointer = Null)
  BY <1>1 DEF Ends, With, StillHeld
<1>3. map' = With(map, k, o.pointer)
  BY DEF Ends
<1> HIDE DEF D
<1>4. DOMAIN map' = D \cup {k} /\ DOMAIN said' = D \cup {k} /\ map' \in [D \cup {k} -> Valued]
  BY <1>1, <1>2
<1>5. map' \in Maps /\ IsFiniteSet(DOMAIN map')
  <2>1. D \cup {k} \in SUBSET Keys /\ IsFiniteSet(D \cup {k})
    BY <1>1, FS_AddElement
  <2>2. QED
    BY <1>4, <2>1 DEF Maps
<1>6. map' # NoMap
  BY <1>5, MapsAreMaps
<1>7. held' \in Cells \cup {Null} /\ (held' # Null => heap'.text[held'] # Free)
  BY <1>1, <1>2
<1>8. fault' = "null" => refused'
  BY <1>2
<1>9. (\E j \in DOMAIN map' : map'[j] = Null) => refused'
  BY <1>1, <1>2, <1>4
<1>10. ASSUME fault' = "none"
       PROVE  /\ HeapFor(heap', map', DOMAIN map', policy')
              /\ \A j \in DOMAIN map' : map'[j] \in Cells => heap'.text[map'[j]] = said'[j]
  <2>1. (D \ {k}) \cup {k} = DOMAIN map'
    BY <1>4
  <2>2. HeapFor(heap', map', DOMAIN map', policy')
    BY <1>2, <1>3, <1>10, <2>1 DEF D
  <2>3. ASSUME NEW j \in DOMAIN map', map'[j] \in Cells
        PROVE  heap'.text[map'[j]] = said'[j]
    <3>1. CASE j = k
      BY <1>2, <1>4, <1>10, <2>3, <3>1
    <3>2. CASE j # k
      <4>1. j \in D \ {k} /\ map'[j] = map[j] /\ said'[j] = said[j]
        BY <1>2, <1>4, <3>2
      <4>2. o.heap.text[map[j]] = heap.text[map[j]]
        BY <1>2, <1>10, <2>3, <4>1 DEF D
      <4>3. QED
        BY <1>1, <1>2, <2>3, <4>1, <4>2
    <3>3. QED
      BY <3>1, <3>2
  <2>4. QED
    BY <2>2, <2>3
<1>11. QED
  BY <1>1, <1>2, <1>4, <1>5, <1>6, <1>7, <1>8, <1>9, <1>10, NextValuesInv

\* The value that k has goes before it gets another.
LEMMA OldValueGoes ==
  ASSUME ValuesInv, map # NoMap, fault = "none", NEW k \in DOMAIN map
  PROVE  LET old == FreeValue(heap, map[k])
         IN  \/ old.fault = "null" /\ old.pointer = Null /\ refused
             \/ /\ old.fault = "none"
                /\ HeapFor(old.heap, map, DOMAIN map \ {k}, policy)
                /\ \A c \in Cells : old.heap.text[c] = heap.text[c] \/ (c = map[k] /\ old.heap.text[c] = Free)
<1> DEFINE old == FreeValue(heap, map[k])
<1>1. FreedFor(old, heap, map, DOMAIN map, k, policy)
  <2>1. /\ IsFiniteSet(DOMAIN map) /\ map[k] \in Valued /\ policy \in {"copy", "pool"}
        /\ HeapFor(heap, map, DOMAIN map, policy)
    BY MapFacts
  <2>2. QED
    BY <2>1, ValueIsFreed
<1>2. map[k] = Null => refused
  BY DEF ValuesInv, ValuesHold
<1> HIDE DEF old
<1>3. QED
  BY <1>1, <1>2 DEF FreedFor, old

\* What is in memory of the keys of a heap is theirs.
LEMMA OthersKeepTheirs ==
  ASSUME NEW h, NEW m, NEW ks, NEW p, HeapFor(h, m, ks, p), NEW j \in ks, m[j] \in Cells
  PROVE  m[j] \in LiveCells(h) /\ h.text[m[j]] # Free
  BY DEF HeapFor, LiveCells, CellsFor

LEMMA NewValueKeeps ==
  ASSUME ValuesInv, map # NoMap, fault = "none", NEW k \in Keys, NEW h,
         HeapFor(h, map, DOMAIN map \ {k}, policy),
         \A c \in Cells : h.text[c] \in {heap.text[c], Free},
         NEW t \in Texts, NEW o \in SetValue(h, t), Ends(k, o, t)
  PROVE  ValuesInv'
<1>1. PICK ks : ks = DOMAIN map \ {k}
  OBVIOUS
<1>2. PICK g : g = With(map, k, o.pointer)
  OBVIOUS
<1>3. IsFiniteSet(ks) /\ k \notin ks /\ policy \in {"copy", "pool"}
  BY <1>1, MapFacts, FS_Subset
<1>4. g[k] = o.pointer /\ \A j \in ks : g[j] = map[j]
  BY <1>1, <1>2 DEF With
<1>5. HeapFor(h, g, ks, policy)
  BY <1>1, <1>4, SameHeapFor
<1>6. SetFor(o, h, g, ks, k, t, policy)
  BY <1>3, <1>4, <1>5, ValueIsSet
<1>7. /\ HeapFor(o.heap, g, ks \cup {k}, policy)
      /\ o.fault \in {"none", "null"} /\ (o.fault # "none" => o.pointer = Null)
      /\ o.pointer \in Cells \cup {Null}
      /\ o.pointer # Null => o.heap.text[o.pointer] = t
      /\ \A c \in LiveCells(h) : o.heap.text[c] = h.text[c]
  BY <1>6 DEF SetFor
<1>8. ASSUME NEW j \in ks, map[j] \in Cells
      PROVE  o.heap.text[map[j]] = heap.text[map[j]]
  <2>1. map[j] \in LiveCells(h) /\ h.text[map[j]] # Free
    BY <1>1, <1>8, OthersKeepTheirs
  <2>2. h.text[map[j]] = heap.text[map[j]]
    BY <1>8, <2>1
  <2>3. QED
    BY <1>7, <2>1, <2>2
<1>9. o.pointer \in Valued /\ o.fault \in {"none", "null", "freed"} /\ o.fault # "freed"
      /\ (o.fault = "null" => o.pointer = Null) /\ (o.pointer \in Cells => o.heap.text[o.pointer] = t)
  BY <1>7, ValueKinds
<1>10. HeapFor(o.heap, With(map, k, o.pointer), (DOMAIN map \ {k}) \cup {k}, policy)
  BY <1>1, <1>2, <1>7
<1>11. \A j \in DOMAIN map \ {k} : map[j] \in Cells => o.heap.text[map[j]] = heap.text[map[j]]
  BY <1>1, <1>8
<1>12. QED
  BY <1>9, <1>10, <1>11, EndKeeps

\* The argument of a put: a text of the client's, or the text in the memory it
\* got from the map.
Argument(arg, t) ==
  \/ arg = Null /\ t \in Texts
  \/ arg = held /\ held # Null /\ t = heap.text[held]

LEMMA ArgumentIsText ==
  ASSUME ValuesInv, map # NoMap, fault = "none", NEW arg, NEW t, Argument(arg, t)
  PROVE  /\ t \in Texts
         /\ arg # Null => arg \in Cells /\ t = heap.text[arg]
<1>1. heap.text \in [Cells -> Texts \cup {Free}]
  BY MapFacts, HeapFacts DEF HeapFor, CopiesFor, PoolFor
<1>2. held \in Cells \cup {Null} /\ (held # Null => heap.text[held] # Free)
  BY DEF ValuesInv, ValuesHold
<1>3. QED
  BY <1>1, <1>2 DEF Argument

LEMMA ReplaceKeeps ==
  ASSUME ValuesInv, map # NoMap, fault = "none", NEW k \in DOMAIN map, NEW arg, NEW t,
         Argument(arg, t), Replace(k, arg, t),
         ownString' = (arg # Null /\ k \in DOMAIN map /\ map[k] = arg)
  PROVE  ValuesInv'
<1>1. k \in Keys /\ t \in Texts /\ (arg # Null => arg \in Cells /\ t = heap.text[arg])
  BY MapFacts, ArgumentIsText
<1>2. PICK old : old = FreeValue(heap, map[k])
  OBVIOUS
<1>3. \/ old.fault = "null" /\ old.pointer = Null /\ refused
      \/ /\ old.fault = "none"
         /\ HeapFor(old.heap, map, DOMAIN map \ {k}, policy)
         /\ \A c \in Cells : old.heap.text[c] = heap.text[c] \/ (c = map[k] /\ old.heap.text[c] = Free)
  BY <1>2, OldValueGoes
<1>4. PICK text : text = IF arg = Null THEN t ELSE old.heap.text[arg]
  OBVIOUS
<1>5. IF old.fault # "none" THEN Ends(k, old, t) ELSE \E o \in SetValue(old.heap, text) : Ends(k, o, t)
  BY <1>2, <1>4 DEF Replace
<1>6. CASE old.fault = "null" /\ old.pointer = Null
  <2>1. Ends(k, old, t) /\ old.pointer \in Valued /\ old.fault \in {"none", "null", "freed"}
        /\ old.fault # "freed" /\ old.fault # "none"
    BY <1>5, <1>6, ValueKinds
  <2>2. QED
    BY <1>1, <1>6, <2>1, EndKeeps
<1>7. CASE /\ old.fault = "none"
           /\ HeapFor(old.heap, map, DOMAIN map \ {k}, policy)
           /\ \A c \in Cells : old.heap.text[c] = heap.text[c] \/ (c = map[k] /\ old.heap.text[c] = Free)
  <2>1. PICK o \in SetValue(old.heap, text) : Ends(k, o, t)
    BY <1>5, <1>7
  <2>2. CASE text = Free
    <3>1. o = Outcome(old.heap, Null, "freed")
      BY <2>1, <2>2 DEF SetValue
    <3>2. o.fault = "freed" /\ o.pointer = Null /\ o.pointer \in Valued
      BY <3>1, ValueKinds DEF Outcome
    <3>3. arg # Null /\ map[k] = arg
      BY <1>1, <1>4, <1>7, <2>2, StringCounterAssumption
    <3>4. ownString'
      BY <3>3
    <3>5. o.fault \in {"none", "null", "freed"} /\ o.fault # "none" /\ o.fault # "null"
      BY <3>2
    <3>6. QED
      BY <1>1, <2>1, <3>2, <3>4, <3>5, EndKeeps
  <2>3. CASE text # Free
    <3>1. text = t
      BY <1>1, <1>4, <1>7, <2>3
    <3>2. \A c \in Cells : old.heap.text[c] \in {heap.text[c], Free}
      BY <1>7
    <3>3. QED
      BY <1>1, <1>7, <2>1, <3>1, <3>2, NewValueKeeps
  <2>4. QED
    BY <2>2, <2>3
<1>8. QED
  BY <1>3, <1>6, <1>7

LEMMA AddKeeps ==
  ASSUME ValuesInv, map # NoMap, fault = "none", NEW k \in Keys, k \notin DOMAIN map, NEW t \in Texts, Add(k, t)
  PROVE  ValuesInv'
<1>1. PICK o \in SetValue(heap, t) : Ends(k, o, t)
  BY DEF Add
<1>2. DOMAIN map \ {k} = DOMAIN map
  OBVIOUS
<1>3. HeapFor(heap, map, DOMAIN map \ {k}, policy)
  BY <1>2, MapFacts
<1>4. \A c \in Cells : heap.text[c] \in {heap.text[c], Free}
  OBVIOUS
<1>5. QED
  BY <1>1, <1>3, <1>4, NewValueKeeps

LEMMA PlainEnds ==
  ASSUME ValuesInv, map # NoMap, fault = "none", NEW k \in Keys, NEW o, Ends(k, o, Plain),
         o.pointer = Plain, o.fault = "none",
         HeapFor(o.heap, map, DOMAIN map \ {k}, policy),
         \A c \in Cells : o.heap.text[c] \in {heap.text[c], Free}
  PROVE  ValuesInv'
<1>1. PICK ks : ks = DOMAIN map \ {k}
  OBVIOUS
<1>2. PICK g : g = With(map, k, o.pointer)
  OBVIOUS
<1>3. g[k] = Plain /\ (\A j \in ks : g[j] = map[j]) /\ Plain \notin Cells /\ Plain \in Valued
  BY <1>1, <1>2, ValueKinds DEF With
<1>4. HeapFor(o.heap, g, ks, policy)
  BY <1>1, <1>3, SameHeapFor
<1>5. HeapFor(o.heap, g, ks \cup {k}, policy)
  <2>1. ks \ {k} = ks
    BY <1>1
  <2>2. QED
    BY <1>3, <1>4, <2>1, NoCellNoHeap
<1>6. ASSUME NEW j \in ks, map[j] \in Cells
      PROVE  o.heap.text[map[j]] = heap.text[map[j]]
  <2>1. o.heap.text[map[j]] # Free
    BY <1>1, <1>6, OthersKeepTheirs
  <2>2. QED
    BY <1>6, <2>1
<1>7. HeapFor(o.heap, With(map, k, o.pointer), (DOMAIN map \ {k}) \cup {k}, policy)
  BY <1>1, <1>2, <1>5
<1>8. \A j \in DOMAIN map \ {k} : map[j] \in Cells => o.heap.text[map[j]] = heap.text[map[j]]
  BY <1>1, <1>6
<1>9. /\ o.pointer \in Valued /\ o.pointer \notin Cells
      /\ o.fault \in {"none", "null", "freed"} /\ o.fault # "freed" /\ o.fault # "null"
  BY <1>3
<1>10. QED
  BY <1>7, <1>8, <1>9, EndKeeps

LEMMA PlainKeeps ==
  ASSUME ValuesInv, map # NoMap, fault = "none", NEW k \in Keys, MapPutPlain(k)
  PROVE  ValuesInv'
<1>1. PICK old : old = IF k \in DOMAIN map THEN FreeValue(heap, map[k]) ELSE Fine(heap, Plain)
  OBVIOUS
<1>2. PICK o : o = [old EXCEPT !.pointer = Plain]
  OBVIOUS
<1>3. Ends(k, o, Plain)
  BY <1>1, <1>2 DEF MapPutPlain
<1>4. CASE k \notin DOMAIN map
  <2>1. old = [heap |-> heap, pointer |-> Plain, fault |-> "none"]
    BY <1>1, <1>4 DEF Fine, Outcome
  <2>2. o.heap = heap /\ o.fault = "none" /\ o.pointer = Plain
    BY <1>2, <2>1
  <2>3. HeapFor(o.heap, map, DOMAIN map \ {k}, policy)
    <3>1. DOMAIN map \ {k} = DOMAIN map
      BY <1>4
    <3>2. QED
      BY <2>2, <3>1, MapFacts
  <2>4. \A c \in Cells : o.heap.text[c] \in {heap.text[c], Free}
    BY <2>2
  <2>5. QED
    BY <1>3, <2>2, <2>3, <2>4, PlainEnds
<1>5. CASE k \in DOMAIN map
  <2>1. old = FreeValue(heap, map[k])
    BY <1>1, <1>5
  <2>2. \/ old.fault = "null" /\ old.pointer = Null /\ refused
        \/ /\ old.fault = "none"
           /\ HeapFor(old.heap, map, DOMAIN map \ {k}, policy)
           /\ \A c \in Cells : old.heap.text[c] = heap.text[c] \/ (c = map[k] /\ old.heap.text[c] = Free)
    BY <1>5, <2>1, OldValueGoes
  <2>3. old = [heap |-> old.heap, pointer |-> old.pointer, fault |-> old.fault]
    BY <2>1 DEF FreeValue, FreeCopy, UnrefFromPool, Fine, Outcome
  <2>4. o.heap = old.heap /\ o.fault = old.fault /\ o.pointer = Plain
    BY <1>2, <2>3
  <2>5. CASE old.fault = "null" /\ refused
    <3>1. o.pointer \in Valued /\ o.fault \in {"none", "null", "freed"} /\ o.fault # "none" /\ o.fault # "freed"
      BY <2>4, <2>5, ValueKinds
    <3>2. QED
      BY <1>3, <2>4, <2>5, <3>1, EndKeeps
  <2>6. CASE /\ old.fault = "none"
             /\ HeapFor(old.heap, map, DOMAIN map \ {k}, policy)
             /\ \A c \in Cells : old.heap.text[c] = heap.text[c] \/ (c = map[k] /\ old.heap.text[c] = Free)
    <3>1. \A c \in Cells : o.heap.text[c] \in {heap.text[c], Free}
      BY <2>4, <2>6
    <3>2. QED
      BY <1>3, <2>4, <2>6, <3>1, PlainEnds
  <2>7. QED
    BY <2>2, <2>5, <2>6
<1>6. QED
  BY <1>4, <1>5

LEMMA AddFailsKeeps ==
  ASSUME ValuesInv, map # NoMap, fault = "none", AddFails
  PROVE  ValuesInv'
<1>1. /\ refused' /\ fault' \in {"none", "null"} /\ heap' = heap /\ map' = map /\ policy' = policy
      /\ said' = said /\ held' = held
  BY DEF AddFails
<1>2. PICK h : h = heap
  OBVIOUS
<1>3. PICK m : m = map
  OBVIOUS
<1>4. /\ m \in Maps /\ IsFiniteSet(DOMAIN m) /\ m # NoMap /\ policy \in {"copy", "pool"} /\ held \in Cells \cup {Null}
      /\ (held # Null => h.text[held] # Free) /\ HeapFor(h, m, DOMAIN m, policy) /\ DOMAIN said = DOMAIN m
      /\ \A k \in DOMAIN m : m[k] \in Cells => h.text[m[k]] = said[k]
  BY <1>2, <1>3 DEF ValuesInv, ValuesHold
<1>5. heap' = h /\ map' = m
  BY <1>1, <1>2, <1>3
<1>6. QED
  BY <1>1, <1>4, <1>5, NextValuesInv

LEMMA MapPutKeeps ==
  ASSUME ValuesInv, map # NoMap, fault = "none", NEW k \in Keys, NEW arg, NEW t,
         Argument(arg, t), MapPut(k, arg, t)
  PROVE  ValuesInv'
<1>1. ownString' = (arg # Null /\ k \in DOMAIN map /\ map[k] = arg)
  BY DEF MapPut
<1>2. t \in Texts
  BY ArgumentIsText
<1>3. CASE k \in DOMAIN map /\ Replace(k, arg, t)
  BY <1>1, <1>3, ReplaceKeeps
<1>4. CASE k \notin DOMAIN map /\ Add(k, t)
  BY <1>2, <1>4, AddKeeps
<1>5. CASE AddFails
  BY <1>5, AddFailsKeeps
<1>6. QED
  BY <1>3, <1>4, <1>5 DEF MapPut

LEMMA MapGetKeeps ==
  ASSUME ValuesInv, map # NoMap, fault = "none", NEW k, MapGet(k)
  PROVE  ValuesInv'
<1>1. /\ k \in DOMAIN map /\ map[k] # Plain /\ map[k] # Null /\ held' = map[k]
      /\ heap' = heap /\ fault' = fault /\ map' = map /\ policy' = policy /\ said' = said
      /\ ownString' = ownString /\ refused' = refused
  BY DEF MapGet, Strings
<1>2. PICK h : h = heap
  OBVIOUS
<1>3. PICK m : m = map
  OBVIOUS
<1>4. /\ m \in Maps /\ IsFiniteSet(DOMAIN m) /\ m # NoMap /\ policy \in {"copy", "pool"}
      /\ HeapFor(h, m, DOMAIN m, policy) /\ DOMAIN said = DOMAIN m
      /\ (\A j \in DOMAIN m : m[j] \in Cells => h.text[m[j]] = said[j])
      /\ ((\E j \in DOMAIN m : m[j] = Null) => refused)
  BY <1>2, <1>3 DEF ValuesInv, ValuesHold
<1>5. m[k] \in Valued
  BY <1>1, <1>3, MapFacts
<1>6. m[k] \in Cells
  BY <1>1, <1>3, <1>5, ValueKinds
<1>7. h.text[m[k]] # Free
  BY <1>1, <1>3, <1>4, <1>6, OthersKeepTheirs
<1>8. heap' = h /\ map' = m /\ held' = m[k] /\ fault' = "none"
  BY <1>1, <1>2, <1>3
<1>9. QED
  BY <1>1, <1>4, <1>6, <1>7, <1>8, NextValuesInv

LEMMA ContainsKeeps ==
  ASSUME ValuesInv, map # NoMap, fault = "none", NEW t, ContainsValue(t)
  PROVE  ValuesInv'
<1>1. /\ \E k \in Strings : map[k] = Null
      /\ fault' \in {"none", "null"} /\ heap' = heap /\ map' = map /\ policy' = policy /\ said' = said
      /\ held' = held /\ refused' = refused
  BY DEF ContainsValue
<1>2. refused
  BY <1>1 DEF ValuesInv, ValuesHold, Strings
<1>3. PICK h : h = heap
  OBVIOUS
<1>4. PICK m : m = map
  OBVIOUS
<1>5. /\ m \in Maps /\ IsFiniteSet(DOMAIN m) /\ m # NoMap /\ policy \in {"copy", "pool"} /\ held \in Cells \cup {Null}
      /\ (held # Null => h.text[held] # Free) /\ HeapFor(h, m, DOMAIN m, policy) /\ DOMAIN said = DOMAIN m
      /\ \A k \in DOMAIN m : m[k] \in Cells => h.text[m[k]] = said[k]
  BY <1>3, <1>4 DEF ValuesInv, ValuesHold
<1>6. heap' = h /\ map' = m
  BY <1>1, <1>3, <1>4
<1>7. QED
  BY <1>1, <1>2, <1>5, <1>6, NextValuesInv

\* Some keys go, and their values with them.
LEMMA DestroyKeeps ==
  ASSUME ValuesInv, map # NoMap, fault = "none", NEW ks \in SUBSET DOMAIN map, DestroyNodes(ks),
         NEW g, map' = g, NEW said2, said' = said2,
         DOMAIN g = DOMAIN map \ ks, g \in [DOMAIN g -> Valued], \A k \in DOMAIN g : g[k] = map[k],
         DOMAIN said2 = DOMAIN g, \A k \in DOMAIN g : said2[k] = said[k],
         UNCHANGED <<policy, refused>>
  PROVE  ValuesInv'
<1> DEFINE D == DOMAIN map
<1>1. /\ D \in SUBSET Keys /\ IsFiniteSet(D) /\ map \in [D -> Valued]
      /\ HeapFor(heap, map, D, policy)
      /\ \A j \in D : map[j] \in Cells => heap.text[map[j]] = said[j]
      /\ (\E j \in D : map[j] = Null) => refused
      /\ policy \in {"copy", "pool"} /\ held \in Cells \cup {Null}
  BY MapFacts DEF ValuesInv, ValuesHold
<1>2. PICK o : o = Freed(ks)
  OBVIOUS
<1>3. heap' = o.heap /\ fault' = o.fault /\ held' = IF held # Null /\ o.heap.text[held] = Free THEN Null ELSE held
  <2>1. heap' = o.heap /\ fault' = o.fault /\ held' = StillHeld(heap')
    BY <1>2 DEF DestroyNodes
  <2>2. StillHeld(o.heap) = IF held # Null /\ o.heap.text[held] = Free THEN Null ELSE held
    BY DEF StillHeld
  <2>3. QED
    <3>1. held' = StillHeld(o.heap)
      BY <2>1 DEF StillHeld
    <3>2. QED
      BY <2>1, <2>2, <3>1
<1>4. AllFreed(o, ks, D)
  BY <1>1, <1>2, FreedKeeps
<1>5. g \in Maps /\ IsFiniteSet(DOMAIN g)
  <2>1. DOMAIN g \in SUBSET Keys /\ IsFiniteSet(DOMAIN g)
    BY <1>1, FS_Subset
  <2>2. QED
    BY <2>1 DEF Maps
<1>6. g # NoMap
  BY <1>5, MapsAreMaps
<1>7. held' \in Cells \cup {Null} /\ (held' # Null => heap'.text[held'] # Free)
  BY <1>1, <1>3
<1>8. o.fault \in {"none", "null"}
  BY <1>4 DEF AllFreed
<1>9. o.fault = "null" => refused
  BY <1>1, <1>4 DEF AllFreed
<1>10. (\E k \in DOMAIN g : g[k] = Null) => refused
  BY <1>1
<1>11. ASSUME o.fault = "none"
       PROVE  /\ HeapFor(o.heap, g, DOMAIN g, policy)
              /\ \A k \in DOMAIN g : g[k] \in Cells => o.heap.text[g[k]] = said2[k]
  <2>1. HeapFor(o.heap, map, DOMAIN g, policy) /\ \A c \in Cells : o.heap.text[c] \in {heap.text[c], Free}
    BY <1>4, <1>11 DEF AllFreed
  <2>2. HeapFor(o.heap, g, DOMAIN g, policy)
    BY <2>1, SameHeapFor
  <2>3. ASSUME NEW k \in DOMAIN g, g[k] \in Cells
        PROVE  o.heap.text[g[k]] = said2[k]
    <3>1. o.heap.text[g[k]] # Free
      BY <2>2, <2>3, OthersKeepTheirs
    <3>2. o.heap.text[g[k]] = heap.text[g[k]]
      BY <2>1, <2>3, <3>1
    <3>3. QED
      BY <1>1, <2>3, <3>2
  <2>4. QED
    BY <2>2, <2>3
<1>12. policy' = policy /\ refused' = refused
  OBVIOUS
<1>13. QED
  BY <1>1, <1>3, <1>5, <1>6, <1>7, <1>8, <1>9, <1>10, <1>11, <1>12, NextValuesInv

LEMMA MapRemoveKeeps ==
  ASSUME ValuesInv, map # NoMap, fault = "none", NEW k, MapRemove(k)
  PROVE  ValuesInv'
<1> DEFINE ks == {k} \cap DOMAIN map  left == DOMAIN map \ {k}
<1>1. PICK g : g = [j \in left |-> map[j]]
  OBVIOUS
<1>2. PICK s : s = [j \in left |-> said[j]]
  OBVIOUS
<1>3. DestroyNodes(ks) /\ map' = g /\ said' = s /\ policy' = policy /\ refused' = refused
  BY <1>1, <1>2 DEF MapRemove, Restrict
<1>4. ks \in SUBSET DOMAIN map /\ left = DOMAIN map \ ks
  OBVIOUS
<1>5. /\ DOMAIN g = DOMAIN map \ ks /\ g \in [DOMAIN g -> Valued] /\ (\A j \in DOMAIN g : g[j] = map[j])
      /\ DOMAIN s = DOMAIN g /\ \A j \in DOMAIN g : s[j] = said[j]
  BY <1>1, <1>2, <1>4, MapFacts
<1> HIDE DEF ks, left
<1>6. QED
  BY <1>3, <1>4, <1>5, DestroyKeeps

LEMMA MapClearKeeps ==
  ASSUME ValuesInv, map # NoMap, fault = "none", MapClear
  PROVE  ValuesInv'
<1>1. PICK g : g = <<>>
  OBVIOUS
<1>2. PICK ks : ks = DOMAIN map
  OBVIOUS
<1>3. DestroyNodes(ks) /\ map' = g /\ said' = g /\ policy' = policy /\ refused' = refused
  BY <1>1, <1>2 DEF MapClear
<1>4. DOMAIN g = {} /\ g \in [{} -> Valued]
  BY <1>1
<1>5. /\ ks \in SUBSET DOMAIN map /\ DOMAIN g = DOMAIN map \ ks /\ g \in [DOMAIN g -> Valued]
      /\ (\A j \in DOMAIN g : g[j] = map[j]) /\ \A j \in DOMAIN g : g[j] = said[j]
  BY <1>2, <1>4
<1>6. QED
  BY <1>3, <1>5, DestroyKeeps

\* A heap for no keys is empty, but for the node of the pool.
LEMMA NoKeysNoHeap ==
  ASSUME NEW h, NEW m, policy \in {"copy", "pool"}, HeapFor(h, m, {}, policy)
  PROVE  FreePool(h) = EmptyHeap
<1>1. LiveCells(h) = {}
  BY DEF HeapFor, CellsFor
<1>2. \A c \in Cells : h.text[c] = Free
  BY <1>1 DEF LiveCells
<1>3. CASE policy = "copy"
  <2>1. h = [text |-> h.text, counts |-> <<>>] /\ h.text \in [Cells -> Texts \cup {Free}]
    BY <1>3 DEF HeapFor, CopiesFor
  <2>2. h.text = [c \in Cells |-> Free]
    BY <1>2, <2>1
  <2>3. QED
    BY <1>3, <2>1, <2>2 DEF FreePool, EmptyHeap
<1>4. CASE policy = "pool"
  <2>1. [c \in Cells |-> IF c \in DOMAIN h.counts THEN Free ELSE h.text[c]] = [c \in Cells |-> Free]
    BY <1>2
  <2>2. QED
    BY <1>4, <2>1 DEF FreePool, CounterClear, EmptyHeap
<1>5. QED
  BY <1>3, <1>4

LEMMA MapDestroyKeeps ==
  ASSUME ValuesInv, map # NoMap, fault = "none", MapDestroy
  PROVE  ValuesInv'
<1>1. PICK o : o = Freed(DOMAIN map)
  OBVIOUS
<1>2. PICK h : h = IF o.fault = "none" THEN FreePool(o.heap) ELSE o.heap
  OBVIOUS
<1>3. /\ heap' = h /\ fault' = o.fault /\ held' = StillHeld(heap') /\ map' = NoMap
      /\ policy' = policy
  BY <1>1, <1>2 DEF MapDestroy
<1>4. held' = IF held # Null /\ h.text[held] = Free THEN Null ELSE held
  BY <1>3 DEF StillHeld
<1>5. held \in Cells \cup {Null} /\ policy \in {"copy", "pool"}
  BY DEF ValuesInv
<1>6. AllFreed(o, DOMAIN map, DOMAIN map)
  BY <1>1, MapFacts, FreedKeeps
<1>7. o.fault \in {"none", "null"}
  BY <1>6 DEF AllFreed
<1>8. o.fault = "none" => h = EmptyHeap
  <2>1. DOMAIN map \ DOMAIN map = {}
    OBVIOUS
  <2>2. o.fault = "none" => HeapFor(o.heap, map, {}, policy)
    BY <1>6, <2>1 DEF AllFreed
  <2>3. QED
    BY <1>2, <1>5, <2>2, NoKeysNoHeap
<1>9. held' \in Cells \cup {Null} /\ (held' # Null => heap'.text[held'] # Free)
  BY <1>3, <1>4, <1>5
<1>10. QED
  BY <1>3, <1>5, <1>7, <1>8, <1>9, NextValuesInv

LEMMA EmptyHeapIs ==
  ASSUME NEW p, NEW m
  PROVE  HeapFor(EmptyHeap, m, {}, p)
<1> DEFINE h == EmptyHeap
<1>1. /\ h = [text |-> h.text, counts |-> <<>>] /\ h.text = [c \in Cells |-> Free]
      /\ h.counts = <<>> /\ DOMAIN h.counts = {} /\ h.counts \in [{} -> Int]
  BY DEF EmptyHeap
<1> HIDE DEF h
<1>2. h.text \in [Cells -> Texts \cup {Free}] /\ LiveCells(h) = {} /\ CellsFor(m, {}) = {}
  BY <1>1 DEF LiveCells, CellsFor
<1>3. h \in Heaps
  BY <1>1, <1>2 DEF Heaps
<1>4. HeapOK(h)
  BY <1>1, <1>3 DEF HeapOK
<1>5. CopiesFor(h, m, {}) /\ PoolFor(h, m, {})
  BY <1>1, <1>2, <1>4 DEF CopiesFor, PoolFor
<1>6. HeapFor(h, m, {}, p)
  BY <1>2, <1>5 DEF HeapFor
<1>7. QED
  BY <1>6 DEF h

LEMMA MapCreateKeeps ==
  ASSUME ValuesInv, fault = "none", NEW p \in {"copy", "pool"}, MapCreate(p)
  PROVE  ValuesInv'
<1>1. PICK g : g = <<>>
  OBVIOUS
<1>2. PICK h : h = heap
  OBVIOUS
<1>3. /\ map = NoMap /\ map' = g /\ said' = g /\ policy' = p /\ heap' = h /\ fault' = "none" /\ held' = held
  BY <1>1, <1>2 DEF MapCreate
<1>4. h = EmptyHeap /\ held \in Cells \cup {Null} /\ (held # Null => h.text[held] # Free)
  BY <1>2, <1>3 DEF ValuesInv, ValuesHold
<1>5. DOMAIN g = {} /\ g \in [{} -> Valued]
  BY <1>1
<1>6. g \in Maps /\ IsFiniteSet(DOMAIN g)
  <2>1. {} \in SUBSET Keys /\ IsFiniteSet({})
    BY FS_EmptySet
  <2>2. QED
    BY <1>5, <2>1 DEF Maps
<1>7. g # NoMap /\ HeapFor(h, g, DOMAIN g, p)
  BY <1>4, <1>5, <1>6, MapsAreMaps, EmptyHeapIs
<1>8. QED
  BY <1>3, <1>4, <1>5, <1>6, <1>7, NextValuesInv

LEMMA ValuesStep == ValuesInv /\ [fault = "none" /\ ValuesNext]_valueVars => ValuesInv'
<1> SUFFICES ASSUME ValuesInv, [fault = "none" /\ ValuesNext]_valueVars PROVE ValuesInv'
  OBVIOUS
<1>1. CASE UNCHANGED valueVars
  BY <1>1, NextValuesInv DEF valueVars, ValuesInv, ValuesHold
<1>2. ASSUME fault = "none", NEW p \in {"copy", "pool"}, MapCreate(p)
      PROVE  ValuesInv'
  BY <1>2, MapCreateKeeps
<1>3. ASSUME fault = "none", map # NoMap, NEW k \in Keys, NEW t \in Texts, MapPut(k, Null, t)
      PROVE  ValuesInv'
  BY <1>3, MapPutKeeps DEF Argument
<1>4. ASSUME fault = "none", map # NoMap, NEW k \in Keys, held # Null, MapPut(k, held, heap.text[held])
      PROVE  ValuesInv'
  <2>1. PICK arg : arg = held
    OBVIOUS
  <2>2. PICK t : t = heap.text[held]
    OBVIOUS
  <2>3. Argument(arg, t) /\ MapPut(k, arg, t)
    BY <1>4, <2>1, <2>2 DEF Argument
  <2>4. QED
    BY <1>4, <2>3, MapPutKeeps
<1>5. ASSUME fault = "none", map # NoMap, NEW k \in Keys, MapPutPlain(k) \/ MapGet(k) \/ MapRemove(k)
      PROVE  ValuesInv'
  BY <1>5, PlainKeeps, MapGetKeeps, MapRemoveKeeps
<1>6. CASE fault = "none" /\ map # NoMap /\ MapClear
  BY <1>6, MapClearKeeps
<1>7. CASE fault = "none" /\ map # NoMap /\ MapDestroy
  BY <1>7, MapDestroyKeeps
<1>8. ASSUME fault = "none", map # NoMap, NEW t \in Texts, ContainsValue(t)
      PROVE  ValuesInv'
  BY <1>8, ContainsKeeps
<1>9. QED
  BY <1>1, <1>2, <1>3, <1>4, <1>5, <1>6, <1>7, <1>8 DEF ValuesNext

-----------------------------------------------------------------------------
(* Every string is accounted for. *)

LEMMA ValuesBegin == heap = EmptyHeap /\ fault = "none" /\ ValuesInit => ValuesInv
  BY DEF ValuesInit, ValuesInv, ValuesHold

LEMMA TextsAreKept == ValuesInv => ValuesKeepTheirText
<1> SUFFICES ASSUME ValuesInv PROVE ValuesKeepTheirText
  OBVIOUS
<1>1. ASSUME map # NoMap, fault = "none", NEW k \in Strings, map[k] # Null
      PROVE  heap.text[map[k]] = said[k]
  <2>1. k \in DOMAIN map /\ map[k] # Plain
    BY DEF Strings
  <2>2. map[k] \in Cells
    BY <1>1, <2>1, MapFacts, ValueKinds
  <2>3. QED
    BY <1>1, <2>1, <2>2 DEF ValuesInv, ValuesHold
<1>2. QED
  BY <1>1 DEF ValuesKeepTheirText, ValuesInv

\* The pointers that are not null lead to the cells of the map.
LEMMA PointersAreCells ==
  ASSUME map \in [DOMAIN map -> Valued]
  PROVE  Pointers = CellsFor(map, DOMAIN map)
<1>1. \A k \in DOMAIN map : map[k] # Plain /\ map[k] # Null <=> map[k] \in Cells
  BY ValueKinds
<1>2. QED
  BY <1>1 DEF Pointers, Strings, CellsFor

LEMMA ValuesAreAccounted == ValuesInv => CellsAreAccounted
<1> SUFFICES ASSUME ValuesInv, fault = "none" PROVE CellsAreAccounted
  BY DEF CellsAreAccounted
<1> DEFINE there == {c \in Cells : heap.text[c] # Free}
<1>1. CASE map = NoMap
  <2>1. heap = EmptyHeap
    BY <1>1 DEF ValuesInv, ValuesHold
  <2>2. there = {}
    BY <2>1 DEF EmptyHeap
  <2>3. QED
    BY <1>1, <2>2 DEF CellsAreAccounted
<1>2. CASE map # NoMap
  <2>1. /\ IsFiniteSet(DOMAIN map) /\ map \in [DOMAIN map -> Valued]
        /\ HeapFor(heap, map, DOMAIN map, policy)
    BY <1>2, MapFacts
  <2>2. Pointers = CellsFor(map, DOMAIN map) /\ Pointers = there
    BY <2>1, PointersAreCells DEF HeapFor, LiveCells
  <2>3. \A p : Users(p) = KeysOf(map, DOMAIN map, p)
    BY DEF Users, KeysOf
  <2>4. ASSUME policy = "copy", NEW p \in Pointers
        PROVE  Cardinality(Users(p)) = 1
    <3>1. PICK k \in DOMAIN map : map[k] = p /\ p \in Cells
      BY <2>2 DEF CellsFor
    <3>2. \A j \in DOMAIN map : map[j] = p => j = k
      BY <2>1, <2>4, <3>1 DEF HeapFor, CopiesFor
    <3>3. Users(p) = {k}
      BY <3>1, <3>2 DEF Users
    <3>4. QED
      BY <3>3, FS_Singleton
  <2>5. ASSUME policy = "pool"
        PROVE  /\ DOMAIN heap.counts = Pointers
               /\ \A p \in Pointers : heap.counts[p] = Cardinality(Users(p))
               /\ \A p, q \in Pointers : heap.text[p] = heap.text[q] => p = q
    <3>1. HeapOK(heap) /\ \A c \in LiveCells(heap) : heap.counts[c] = Cardinality(KeysOf(map, DOMAIN map, c))
      BY <2>1, <2>5 DEF HeapFor, PoolFor
    <3>2. QED
      BY <2>2, <2>3, <3>1 DEF HeapOK, LiveCells
  <2>6. QED
    BY <1>2, <2>2, <2>4, <2>5 DEF CellsAreAccounted
<1>3. QED
  BY <1>1, <1>2

\* What holds of the heap, which the map of strings and the counter each have
\* to themselves.
HeapInv ==
  /\ subject = "values" => ValuesInv
  /\ subject = "counter" => CounterInv

\* A map of strings keeps for each key the text last put for it, whatever is
\* put for others and however often memory is refused, and its strings are all
\* there is in memory: map_put, map_remove, map_clear and map_destroy free each
\* once, when the last key of it goes.  A StringCounter has a string in memory
\* for each of its entries and no other.
THEOREM StringsStayAccounted == Spec => []StringsAreAccounted
<1>1. Init => HeapInv
  BY ValuesBegin, CounterBegins DEF Init, HeapInv
<1>2. HeapInv /\ [Next]_vars => HeapInv'
  <2> SUFFICES ASSUME HeapInv, [Next]_vars PROVE HeapInv'
    OBVIOUS
  <2>1. subject' = subject
    BY DEF Next, vars
  <2>2. ASSUME subject = "values" PROVE ValuesInv'
    <3>1. ValuesInv /\ [fault = "none" /\ ValuesNext]_valueVars
      BY <2>2 DEF HeapInv, Next, vars, valueVars
    <3>2. QED
      BY <3>1, ValuesStep
  <2>3. ASSUME subject = "counter" PROVE CounterInv'
    <3>1. CounterInv /\ [fault = "none" /\ CounterNext]_counterVars
      BY <2>3 DEF HeapInv, Next, vars, counterVars
    <3>2. QED
      BY <3>1, CounterStep
  <2>4. QED
    BY <2>1, <2>2, <2>3 DEF HeapInv
<1>3. HeapInv => StringsAreAccounted
  BY TextsAreKept, ValuesAreAccounted DEF HeapInv, StringsAreAccounted, CounterInv, HeapOK
<1>4. QED
  BY <1>1, <1>2, <1>3, PTL DEF Spec

-----------------------------------------------------------------------------
(* Indexed access. *)

\* A size_t keeps a small number, and -1 becomes the largest.
LEMMA WrapIs ==
  /\ WordSize \in Nat \ {0}
  /\ \A n \in Sizes : Wrap(n) = n
  /\ Wrap(-1) = WordSize - 1
<1>1. WordSize \in Nat \ {0}
  BY VectorAssumption
<1>2. ASSUME NEW n \in Sizes PROVE Wrap(n) = n
  <2>1. n \in Nat /\ n < WordSize
    BY <1>1, <1>2 DEF Sizes
  <2>2. PICK w \in Nat \ {0} : w = WordSize
    BY <1>1
  <2>3. n % w = n
    BY <2>1, <2>2
  <2>4. QED
    BY <2>2, <2>3 DEF Wrap
<1>3. Wrap(-1) = WordSize - 1
  <2>1. PICK w \in Nat \ {0} : w = WordSize
    BY <1>1
  <2>2. (-1) % w = w - 1
    BY <2>1
  <2>3. QED
    BY <2>1, <2>2 DEF Wrap
<1>4. QED
  BY <1>1, <1>2, <1>3

LEMMA LastIndexIs ==
  ASSUME NEW length \in Sizes
  PROVE  /\ length \in Nat /\ length < WordSize /\ Wrap(length - 1) \in Sizes
         /\ length > 0 => Wrap(length - 1) = length - 1
<1>1. length \in Nat /\ length < WordSize /\ WordSize \in Nat \ {0}
  BY WrapIs DEF Sizes
<1>2. CASE length = 0
  <2>1. length - 1 = -1
    BY <1>2
  <2>2. Wrap(length - 1) = WordSize - 1
    BY <2>1, WrapIs
  <2>3. QED
    BY <1>1, <1>2, <2>2 DEF Sizes
<1>3. CASE length > 0
  <2>1. length - 1 \in Sizes
    BY <1>1, <1>3 DEF Sizes
  <2>2. QED
    BY <1>1, <2>1, WrapIs
<1>4. QED
  BY <1>1, <1>2, <1>3

LEMMA PlainArraysAreSafe ==
  ASSUME NEW length \in Sizes, NEW index \in Sizes, NEW n \in Sizes
  PROVE  /\ CArrayAccess(length, index) \subseteq 0..(length - 1)
         /\ CArrayGetOr(length, index, length) \in 0..length
         /\ ArrayRepr(length) \cup CArrayRepr(length, n) \subseteq 0..(length - 1)
         /\ length > 0 => ArrayAccess(length, index) \subseteq 0..(length - 1)
<1>1. length \in Nat /\ index \in Nat /\ n \in Nat
  BY LastIndexIs
<1>2. CArrayAccess(length, index) \subseteq 0..(length - 1)
  BY <1>1 DEF CArrayAccess, CArrayRefuses
<1>3. CArrayGetOr(length, index, length) \in 0..length
  BY <1>1 DEF CArrayGetOr, CArrayRefuses
<1>4. \A limit \in Nat : AtMost(length, limit) \subseteq 0..(length - 1)
  BY <1>1 DEF AtMost
<1>5. ArrayRepr(length) \cup CArrayRepr(length, n) \subseteq 0..(length - 1)
  BY <1>1, <1>4, VectorAssumption DEF ArrayRepr, CArrayRepr
<1>6. length > 0 => ArrayAccess(length, index) \subseteq 0..(length - 1)
  BY <1>1, LastIndexIs DEF ArrayAccess, ArrayRefuses
<1>7. QED
  BY <1>2, <1>3, <1>5, <1>6

\* array_set_all copies up to the end of the array, or of what it is given.
LEMMA SetAllIsSafe ==
  ASSUME NEW length \in Sizes, NEW index \in Sizes, NEW n \in Sizes,
         n > 0, index + n - 1 < WordSize
  PROVE  /\ SetAllAccess(length, index, n) \subseteq 0..(length - 1)
         /\ SetAllCount(length, index, n) <= n
<1>1. length \in Nat /\ index \in Nat /\ n \in Nat /\ length < WordSize /\ WordSize \in Nat \ {0}
  BY LastIndexIs, WrapIs
<1>2. index + n - 1 \in Sizes
  BY <1>1 DEF Sizes
<1>3. Wrap(index + n - 1) = index + n - 1
  BY <1>2, WrapIs
<1>4. CASE ArrayRefuses(length, index) \/ length = 0
  <2>1. SetAllCount(length, index, n) = 0
    BY <1>4 DEF SetAllCount
  <2>2. QED
    BY <1>1, <2>1 DEF SetAllAccess
<1>5. CASE ~ArrayRefuses(length, index) /\ length # 0
  <2>1. length > 0 /\ Wrap(length - 1) = length - 1 /\ index <= length - 1
    BY <1>1, <1>5, LastIndexIs DEF ArrayRefuses
  <2>2. PICK last \in Nat : last = IF length - 1 < index + n - 1 THEN length - 1 ELSE index + n - 1
    BY <1>1, <2>1
  <2>3. index <= last /\ last <= length - 1 /\ last <= index + n - 1
    BY <1>1, <2>1, <2>2
  <2>4. last - index + 1 \in Sizes
    BY <1>1, <2>3 DEF Sizes
  <2>5. Wrap(last - index + 1) = last - index + 1
    BY <2>4, WrapIs
  <2>6. SetAllCount(length, index, n) = last - index + 1
    BY <1>3, <1>5, <2>1, <2>2, <2>5 DEF SetAllCount
  <2>7. QED
    BY <1>1, <2>3, <2>6 DEF SetAllAccess
<1>6. QED
  BY <1>4, <1>5

LEMMA VectorGetIsSafe ==
  ASSUME VecInv, vec # NoVector, NEW i \in Nat, NEW v \in Items
  PROVE  /\ VectorGet(i) # Junk
         /\ vec.length > 0 => VectorGetOr(i, v) = IF i < vec.length THEN VectorGet(i) ELSE v
         /\ i < vec.length => VectorGet(i) \in Items
<1>1. /\ vec.v \in Seq(Stored) /\ vec.length \in Nat /\ vec.length <= Len(vec.v)
      /\ \A j \in 1..vec.length : vec.v[j] \in Items
  BY DEF VecInv, VecOK, Vectors
<1>2. i < vec.length => At(vec.v, i) \in Items
  <2>1. i < vec.length => i + 1 \in 1..vec.length /\ i \in 0..(Len(vec.v) - 1)
    BY <1>1
  <2>2. QED
    BY <1>1, <2>1 DEF At
<1>3. Junk \notin Items /\ Junk # "empty" /\ Junk # "range"
  BY VectorAssumption
<1>4. CASE vec.length = 0
  <2>1. VectorGet(i) = "empty" /\ ~(i < vec.length) /\ ~(vec.length > 0)
    BY <1>4 DEF VectorGet
  <2>2. QED
    BY <1>3, <2>1
<1>5. CASE vec.length # 0 /\ i < vec.length
  <2>1. ~(vec.length - 1 < i)
    BY <1>1, <1>5
  <2>2. VectorGet(i) = At(vec.v, i) /\ VectorGetOr(i, v) = At(vec.v, i)
    BY <1>5, <2>1 DEF VectorGet, VectorGetOr
  <2>3. QED
    BY <1>2, <1>3, <1>5, <2>2
<1>6. CASE vec.length # 0 /\ ~(i < vec.length)
  <2>1. vec.length - 1 < i
    BY <1>1, <1>6
  <2>2. VectorGet(i) = "range" /\ VectorGetOr(i, v) = v
    BY <1>6, <2>1 DEF VectorGet, VectorGetOr
  <2>3. QED
    BY <1>3, <1>6, <2>2
<1>7. QED
  BY <1>4, <1>5, <1>6

LEMMA ListGetIsSafe ==
  ASSUME ListInv, NEW id \in Lists, lists[id] # Absent, NEW i \in Nat
  PROVE  ListGet(lists[id], i) \in Values <=> i < lists[id].size
<1>1. /\ lists[id].size \in Nat
      /\ \A j \in 0..(lists[id].size - 1) : Load(pool, lists[id].elements, j) \in Values
  BY DEF ListInv, ListOK, Headers
<1>2. CASE i < lists[id].size
  <2>1. i \in 0..(lists[id].size - 1) /\ ~(i >= lists[id].size)
    BY <1>1, <1>2
  <2>2. QED
    BY <1>1, <1>2, <2>1 DEF ListGet
<1>3. CASE ~(i < lists[id].size)
  <2>1. i >= lists[id].size
    BY <1>1, <1>3
  <2>2. QED
    BY <1>3, <2>1, ArrayListAssumption DEF ListGet
<1>4. QED
  BY <1>2, <1>3

\* The indexed calls of arrays, vectors and lists touch no element outside, at
\* any length and any index a size_t can have, but where the last index of an
\* empty array wraps; array_set_all copies none that it was not given; and a
\* vector that is not empty gives its element, or the fallback it was given.
THEOREM IndexedAccessIsSafe == Spec => []AccessStaysInside
<1>1. Init => ListInv /\ VecInv
  BY ListsBegin DEF Init, VecInit, VecInv
<1>2. ListInv /\ VecInv /\ [Next]_vars => ListInv' /\ VecInv'
  <2> SUFFICES ASSUME ListInv, VecInv, [Next]_vars PROVE ListInv' /\ VecInv'
    OBVIOUS
  <2>1. [ListNext]_listVars /\ [VecNext]_vec
    BY DEF Next, vars
  <2>2. QED
    BY <2>1, ListStep, StepIsOfASequence
<1>3. ListInv /\ VecInv => AccessStaysInside
  <2> SUFFICES ASSUME ListInv, VecInv PROVE AccessStaysInside
    OBVIOUS
  <2>1. 0..MaxVector \subseteq Nat /\ 0..MaxLength \subseteq Nat
    BY VectorAssumption, ArrayListAssumption
  <2>2. ASSUME vec # NoVector, NEW i \in 0..MaxVector, NEW v \in Items
        PROVE  /\ VectorGet(i) # Junk
               /\ vec.length > 0 => VectorGetOr(i, v) = IF i < vec.length THEN VectorGet(i) ELSE v
               /\ i < vec.length => VectorGet(i) \in Items
    BY <2>1, <2>2, VectorGetIsSafe
  <2>3. ASSUME NEW id \in {l \in Lists : lists[l] # Absent}, NEW i \in 0..MaxLength
        PROVE  ListGet(lists[id], i) \in Values <=> i < lists[id].size
    BY <2>1, <2>3, ListGetIsSafe
  <2>4. ASSUME NEW length \in Sizes, NEW index \in Sizes, NEW n \in Sizes
        PROVE  /\ CArrayAccess(length, index) \subseteq 0..(length - 1)
               /\ CArrayGetOr(length, index, length) \in 0..length
               /\ ArrayRepr(length) \cup CArrayRepr(length, n) \subseteq 0..(length - 1)
               /\ length > 0 => ArrayAccess(length, index) \subseteq 0..(length - 1)
    BY <2>4, PlainArraysAreSafe
  <2>5. ASSUME NEW length \in Sizes, NEW index \in Sizes, NEW n \in Sizes,
               n > 0, index + n - 1 < WordSize
        PROVE  /\ SetAllAccess(length, index, n) \subseteq 0..(length - 1)
               /\ SetAllCount(length, index, n) <= n
    BY <2>5, SetAllIsSafe
  <2>6. QED
    BY <2>2, <2>3, <2>4, <2>5 DEF AccessStaysInside
<1>4. QED
  BY <1>1, <1>2, <1>3, PTL DEF Spec
=============================================================================
