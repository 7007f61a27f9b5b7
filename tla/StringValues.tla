----------------------------- MODULE StringValues ---------------------------
(***************************************************************************)
(* The strings that are the values of a HashMap (src/map/hashmap.c), which *)
(* map_put copies: each for itself under the default policy, or once for   *)
(* all equal ones in a StringCounter, under map_create_using_stringpool.   *)
(* Memory is malloc's.  Keys have copies too, but nobody else sees them.   *)
(***************************************************************************)
EXTENDS StringCounter

CONSTANTS
  Keys,
  NoMap,     \* the map there is before map_create and after map_destroy
  Plain      \* a value that is not a string

ASSUME StringValuesAssumption ==
  /\ Plain \notin Cells \cup {Null}
  /\ NoMap \notin UNION {[ks -> Cells \cup {Null, Plain}] : ks \in SUBSET Keys}

VARIABLES
  map,       \* the value of each key that is in the map, or NoMap
  policy,    \* "copy" or "pool"
  said,      \* ghost: the text the client last put for each key
  held,      \* the pointer that the client got from map_get
  ownString, \* ghost: the last put for a key was given the string of that key
  refused    \* ghost: an allocation was refused since the map was made

valueVars == <<heap, fault, map, policy, said, held, ownString, refused>>

Strings == {k \in DOMAIN map : map[k] # Plain}

\* col_policy_value_free_default; free takes a null pointer.
FreeCopy(h, p) == Fine(IF p \in {Plain, Null} THEN h ELSE Release(h, p), p)

\* map_policy_value_free_unref_from_stringpool, which looks the text up that
\* the value points to.
UnrefFromPool(h, p) ==
  CASE p = Plain                        -> Fine(h, p)
    [] p = Null                         -> Outcome(h, p, "null")
    [] p \in Cells /\ h.text[p] = Free -> Outcome(h, p, "freed")
    [] OTHER                            -> Fine(Unref(h, h.text[p]), p)

\* Mutant: the strings of a pool are not told from copies.
FreeValue_AsCopy(h, p) == FreeCopy(h, p)

FreeValue(h, p) == IF policy = "copy" THEN FreeCopy(h, p) ELSE UnrefFromPool(h, p)

\* map_policy_value_add_to_stringpool.
AddToPool(h, t) == Ref(h, t)

\* map_set_value, with a copy of the text or with the pool's.
SetValue(h, t) ==
  CASE t = Free                       -> {Outcome(h, Null, "freed")}
    [] t # Free /\ policy = "copy"    -> StrDup(h, t)
    [] OTHER                          -> AddToPool(h, t)

\* sct_destroy, called by the policy's on_free_context.
FreePool(h) == IF policy = "pool" THEN CounterClear(h) ELSE h

\* A client has no use for a pointer to memory that a call has freed.
StillHeld(h) == IF held # Null /\ h.text[held] = Free THEN Null ELSE held

\* x for k, whatever it had before.
With(m, k, x) == [j \in DOMAIN m \cup {k} |-> IF j = k THEN x ELSE m[j]]

Ends(k, o, v) ==
  /\ heap' = o.heap
  /\ fault' = o.fault
  /\ map' = With(map, k, o.pointer)
  /\ said' = With(said, k, v)
  /\ held' = StillHeld(o.heap)
  /\ refused' = (refused \/ o.pointer = Null)
  /\ UNCHANGED policy

-----------------------------------------------------------------------------

\* map_create with the default policies, or map_create_using_stringpool.
MapCreate(p) ==
  /\ map = NoMap
  /\ map' = <<>>
  /\ said' = <<>>
  /\ policy' = p
  /\ refused' = FALSE
  /\ UNCHANGED <<heap, fault, held, ownString>>

\* map_put of a string for a known key: the old value goes before the new one
\* is read, which is the text arg points to, or one of the client's own.
Replace(k, arg, t) ==
  LET old == FreeValue(heap, map[k])
      text == IF arg = Null THEN t ELSE old.heap.text[arg]
  IN  IF old.fault # "none" THEN Ends(k, old, t)
      ELSE \E o \in SetValue(old.heap, text) : Ends(k, o, t)

\* For a new key; the node comes first, then the copy of the key.
Add(k, t) ==
  \E o \in SetValue(heap, t) : Ends(k, o, t)

AddFails ==
  /\ refused' = TRUE
  /\ fault' \in {"none", "null"}
  /\ UNCHANGED <<heap, map, policy, said, held>>

MapPut(k, arg, t) ==
  /\ \/ k \in DOMAIN map /\ Replace(k, arg, t)
     \/ k \notin DOMAIN map /\ (Add(k, t) \/ AddFails)
  /\ ownString' = (arg # Null /\ k \in DOMAIN map /\ map[k] = arg)

MapPutPlain(k) ==
  /\ LET old == IF k \in DOMAIN map THEN FreeValue(heap, map[k]) ELSE Fine(heap, Plain)
     IN  Ends(k, [old EXCEPT !.pointer = Plain], Plain)
  /\ ownString' = FALSE

\* map_get.
MapGet(k) ==
  /\ k \in Strings /\ map[k] # Null
  /\ held' = map[k]
  /\ UNCHANGED <<heap, fault, map, policy, said, ownString, refused>>

\* map_remove and map_clear destroy nodes; each frees its value.
Freed(ks) ==
  LET freed[S \in SUBSET ks] ==
        IF S = {} THEN Fine(heap, Null)
        ELSE LET k == CHOOSE k \in S : TRUE
                 rest == freed[S \ {k}]
             IN  IF rest.fault # "none" THEN rest ELSE FreeValue(rest.heap, map[k])
  IN  freed[ks]

DestroyNodes(ks) ==
  /\ heap' = Freed(ks).heap
  /\ fault' = Freed(ks).fault
  /\ held' = StillHeld(heap')

MapRemove(k) ==
  /\ DestroyNodes({k} \cap DOMAIN map)
  /\ map' = Restrict(map, DOMAIN map \ {k})
  /\ said' = Restrict(said, DOMAIN map \ {k})
  /\ UNCHANGED <<policy, ownString, refused>>

MapClear ==
  /\ DestroyNodes(DOMAIN map)
  /\ map' = <<>>
  /\ said' = <<>>
  /\ UNCHANGED <<policy, ownString, refused>>

\* map_destroy: the nodes, the pool with what is left in it, the map.
MapDestroy ==
  /\ LET nodes == Freed(DOMAIN map)
     IN  /\ heap' = IF nodes.fault = "none" THEN FreePool(nodes.heap) ELSE nodes.heap
         /\ fault' = nodes.fault
         /\ held' = StillHeld(heap')
  /\ map' = NoMap
  /\ said' = <<>>
  /\ UNCHANGED <<policy, ownString, refused>>

\* map_contains_value compares with every value until one is equal, in an
\* order that the hashes make.
ContainsValue(t) ==
  /\ \E k \in Strings : map[k] = Null
  /\ fault' \in {"null"} \cup {"none" : k \in {x \in Strings : map[x] # Null /\ heap.text[map[x]] = t}}
  /\ UNCHANGED <<heap, map, policy, said, held, ownString, refused>>

-----------------------------------------------------------------------------

ValuesInit ==
  /\ map = NoMap
  /\ policy = "copy"
  /\ said = <<>>
  /\ held = Null
  /\ ownString = FALSE
  /\ refused = FALSE

ValuesNext ==
  \/ \E p \in {"copy", "pool"} : MapCreate(p)
  \/ /\ map # NoMap
     /\ \/ \E k \in Keys :
             \/ \E t \in Texts : MapPut(k, Null, t)
             \/ held # Null /\ MapPut(k, held, heap.text[held])
             \/ MapPutPlain(k) \/ MapGet(k) \/ MapRemove(k)
        \/ MapClear
        \/ MapDestroy
        \/ \E t \in Texts : ContainsValue(t)

-----------------------------------------------------------------------------
(* Properties. *)

Pointers == {map[k] : k \in {x \in Strings : map[x] # Null}}
Users(p) == {k \in DOMAIN map : map[k] = p}

\* Every string in memory belongs to the map's values, and every value's
\* string is in memory: none is freed early, none is left behind, through
\* replacement, removal and refused memory.  Copies have one user each; in a
\* pool a text is there once and its count is the number of its users.
CellsAreAccounted ==
  LET live == {c \in Cells : heap.text[c] # Free}
  IN  fault = "none" =>
        IF map = NoMap THEN live = {}
        ELSE /\ live = Pointers
             /\ policy = "copy" => \A p \in Pointers : Cardinality(Users(p)) = 1
             /\ policy = "pool" =>
                  /\ DOMAIN heap.counts = Pointers
                  /\ \A p \in Pointers : heap.counts[p] = Cardinality(Users(p))
                  /\ \A p, q \in Pointers : heap.text[p] = heap.text[q] => p = q

\* Each key still has the text that was put for it last, or the null pointer
\* where the pool had no memory for it, whatever was put for others; the map
\* reads freed memory only when it is given, for a key, the string it has for
\* that key, and follows a null pointer only after memory was refused.
ValuesKeepTheirText ==
  /\ map # NoMap /\ fault = "none" =>
       \A k \in Strings : map[k] # Null => heap.text[map[k]] = said[k]
  /\ fault = "freed" => ownString
  /\ fault = "null" /\ map # NoMap => refused

\* "if key or value are strings, they are copied so the map can be free them
\* independently of the original arguments" (hashmap.c:622).
NeverReadsFreed == fault # "freed"
=============================================================================
