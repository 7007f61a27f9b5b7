------------------------------ MODULE ArrayList -----------------------------
(***************************************************************************)
(* List of src/list/array_list.c over the memory policy of a MemoryPool    *)
(* that several lists share, one of them its owner.  An element is a word  *)
(* of the pool; a list's own struct takes HeaderSize words.  Strings that  *)
(* a list would free, and its on_free hooks, are left out: in a pool a     *)
(* free does nothing.                                                      *)
(***************************************************************************)
EXTENDS MemoryPool

CONSTANTS
  Lists, Owner,   \* the lists, and the one with MEM_POLICY_ALLOCATOR_OWN
  Values,
  Absent,
  HeaderSize,
  MinCapacity,    \* LIST_MIN_CAPACITY
  Capacities,     \* arguments of list_create
  PowersOfTwo,    \* 1 and its doublings to beyond Capacities and MaxLength
  MaxLength, MaxWords   \* bounds: elements of a list, words of the pool

ASSUME ArrayListAssumption ==
  /\ Owner \in Lists
  /\ HeaderSize \in Nat /\ MaxLength \in Nat /\ Capacities \subseteq Nat
  /\ 1 \in PowersOfTwo /\ PowersOfTwo \subseteq Nat \ {0}
  /\ \A p \in PowersOfTwo :
       /\ p # 1 => p % 2 = 0 /\ p \div 2 \in PowersOfTwo
       /\ (p <= MaxLength \/ \E c \in Capacities : p < c) => 2 * p \in PowersOfTwo
  /\ MinCapacity \in PowersOfTwo
  /\ Zero \notin Values
  /\ Absent \notin Seq(Values)
  /\ Absent \notin [elements : [page : Nat, offset : Nat], size : Nat, capacity : Nat]

VARIABLES
  pool,
  lists     \* [elements, size, capacity], or Absent

listVars == <<pool, lists>>

\* col_next_power_of_two, below its upper limit.
NextPowerOfTwo(n) ==
  IF n < MinCapacity THEN MinCapacity
  ELSE Min({c \in PowersOfTwo : c >= n})

\* list_ensure_capacity doubles once before its loop and at least once in it.
Grown(capacity, wanted) ==
  LET twice == IF capacity = 0 THEN 1 ELSE capacity * 2
  IN  Min({c \in {twice * p : p \in PowersOfTwo \ {1}} : c >= wanted})

Contents(p, l) == Block(p, l.elements, l.size)

\* list_ensure_capacity, given memory: the pool and the list after it.
Ensure(l) ==
  IF l.size < l.capacity THEN [pool |-> pool, list |-> l]
  ELSE LET new == Grown(l.capacity, l.size)
           r == Realloc(pool, l.elements, l.capacity, new)
       IN  [pool |-> r.pool, list |-> [l EXCEPT !.elements = r.at, !.capacity = new]]

Refusable(l) == l.size >= l.capacity /\ MayFail(pool, Grown(l.capacity, l.size))

-----------------------------------------------------------------------------

\* list_create: the struct first, then the cleared elements.
ListCreate(id, capacity) ==
  LET n == NextPowerOfTwo(capacity)
      header == Alloc(pool, HeaderSize)
      elements == Calloc(header.pool, n)
  IN  /\ lists[id] = Absent
      /\ pool' = elements.pool
      /\ lists' = [lists EXCEPT ![id] = [elements |-> elements.at, size |-> 0, capacity |-> n]]

\* Without memory for the elements the struct stays in the pool, unused.
ListCreateFails(id, capacity) ==
  LET header == Alloc(pool, HeaderSize)
  IN  /\ lists[id] = Absent
      /\ \/ /\ MayFail(pool, HeaderSize)
            /\ pool' = pool
         \/ /\ MayFail(header.pool, NextPowerOfTwo(capacity))
            /\ pool' = header.pool
      /\ UNCHANGED lists

\* The loop of list_insert, from the last element down.
InsertWords(l, p, i, v) ==
  Store(p, l.elements, i, <<v>> \o [j \in 1..(l.size - i) |-> Load(p, l.elements, i + j - 1)])

\* list_append.
ListAppend(id, v) ==
  LET e == Ensure(lists[id])
  IN  /\ pool' = Store(e.pool, e.list.elements, e.list.size, <<v>>)
      /\ lists' = [lists EXCEPT ![id] = [e.list EXCEPT !.size = @ + 1]]

\* list_insert.
ListInsert(id, i, v) ==
  LET e == Ensure(lists[id])
  IN  /\ i <= lists[id].size
      /\ pool' = InsertWords(e.list, e.pool, i, v)
      /\ lists' = [lists EXCEPT ![id] = [e.list EXCEPT !.size = @ + 1]]

\* COL_ERR_OUT_OF_MEM and COL_ERR_INDEX_OUT_OF_RANGE.
ListInsertFails(id, i) ==
  /\ i > lists[id].size \/ Refusable(lists[id])
  /\ UNCHANGED listVars

\* list_remove: the last element stays behind the end.
ListDelete(id, i) ==
  LET l == lists[id]
  IN  /\ i < l.size
      /\ pool' = Store(pool, l.elements, i, [j \in 1..(l.size - 1 - i) |-> Load(pool, l.elements, i + j)])
      /\ lists' = [lists EXCEPT ![id].size = @ - 1]

\* list_clear; the capacity stays.
ListClear(id) ==
  LET l == lists[id]
  IN  /\ pool' = Store(pool, l.elements, 0, [i \in 1..l.size |-> Zero])
      /\ lists' = [lists EXCEPT ![id].size = 0]

\* list_destroy: the owner takes the pool with it, and is the last to go.
ListDestroy(id) ==
  LET l == lists[id]
  IN  /\ id = Owner => \A other \in Lists \ {id} : lists[other] = Absent
      /\ pool' = IF id = Owner THEN EmptyPool
                 ELSE Store(pool, l.elements, 0, [i \in 1..l.size |-> Zero])
      /\ lists' = [lists EXCEPT ![id] = Absent]

\* pool_reset, by a client whose lists are gone.
PoolReset ==
  /\ \A id \in Lists : lists[id] = Absent
  /\ pool' = Reset(pool)
  /\ UNCHANGED lists

\* list_get; list_contains looks through the same elements.
ListGet(l, i) == IF i >= l.size THEN Zero ELSE Load(pool, l.elements, i)

-----------------------------------------------------------------------------

ListInit ==
  /\ pool = EmptyPool
  /\ lists = [id \in Lists |-> Absent]

ListNext ==
  /\ \/ \E id \in Lists, c \in Capacities : ListCreate(id, c) \/ ListCreateFails(id, c)
     \/ \E id \in {x \in Lists : lists[x] # Absent} :
          \/ \E i \in 0..MaxLength, v \in Values :
               /\ lists[id].size < MaxLength
               /\ ListAppend(id, v) \/ ListInsert(id, i, v)
          \/ \E i \in 0..MaxLength : ListInsertFails(id, i) \/ ListDelete(id, i)
          \/ ListClear(id)
          \/ ListDestroy(id)
     \/ PoolReset
  /\ Words(pool') <= MaxWords

-----------------------------------------------------------------------------
(* Properties. *)

Abstract == INSTANCE AbstractLists WITH
  Ids <- Lists,
  seqs <- [id \in Lists |-> IF lists[id] = Absent THEN Absent ELSE Contents(pool, lists[id])]

\* The blocks of one pool serve each list as a sequence of its own: no call on
\* a list, through growth that moves its elements, refused growth, clearing,
\* destruction and reuse of a reset pool, changes what another list holds.
ListsImplementSequences == Abstract!Spec
=============================================================================
