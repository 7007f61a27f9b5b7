------------------------------ MODULE HashMap -------------------------------
(***************************************************************************)
(* HashMap of src/map/hashmap.c: an array of buckets, each a chain of      *)
(* nodes with the newest first.  The array doubles when the map reaches    *)
(* three quarters of it; the memory policy may refuse any allocation.      *)
(* Keys and values are compared, never copied: strings are not modelled.   *)
(* The Set of src/set/set.c is such a map, whose values are all the same.  *)
(***************************************************************************)
EXTENDS Integers, SequencesExt, FiniteSetsExt

CONSTANTS
  Keys, Values,
  NullValue,      \* NULL_COL_VALUE, one of the values
  DummyValue,     \* DUMMY_VALUE of set.h, another
  None,           \* there is no map
  Hash,           \* map_hash_function, a function from Keys to Nat
  MinBuckets, MaxBuckets,
  Sizes,          \* the numbers of buckets there can be
  Capacities      \* the arguments of map_create

ASSUME HashMapAssumption ==
  /\ {NullValue, DummyValue} \subseteq Values /\ DummyValue # NullValue
  /\ Hash \in [Keys -> Nat]
  /\ Capacities \subseteq Nat
  /\ None \notin UNION {[ks -> Values] : ks \in SUBSET Keys}

\* MinBuckets and its doublings, of which MaxBuckets is the last.
ASSUME SizesAssumption ==
  /\ MinBuckets \in Nat \ {0} /\ MaxBuckets \in Nat
  /\ {MinBuckets, MaxBuckets} \subseteq Sizes /\ Sizes \subseteq MinBuckets..MaxBuckets
  /\ \A n \in Sizes : n % 2 = 0 /\ (n # MaxBuckets => 2 * n \in Sizes)

VARIABLES
  map,      \* [buckets, size, num_buckets, fill_capacity], or None
  refused,  \* ghost: the last attempt to grow was refused memory
  hung      \* a call has not returned and never will

mapVars == <<map, refused, hung>>

\* For small instances: keys of which some collide in a small table and part in
\* a larger one.
SampleHash == [k \in Keys |-> IF k \in {1, 2} THEN 1 ELSE IF k \in {3, 4} THEN 3 ELSE k]

\* A quarter of the buckets stays free.
FillCapacity(n) == (n * 3) \div 4
BucketsFor(capacity) == (capacity * 4) \div 3

\* The power of two that map_create chooses.
InitialBuckets(capacity) ==
  LET clamped == Max({FillCapacity(MinBuckets), Min({FillCapacity(MaxBuckets), capacity})})
      wanted  == Min({BucketsFor(clamped), MaxBuckets - 1})
  IN  Min({n \in Sizes : n >= wanted})

Indices(n) == 0..n - 1

\* Where k is in its bucket's chain, 0 if it is not there.
Position(m, k) ==
  LET Holds(node) == node.key = k
  IN  SelectInSeq(m.buckets[Hash[k] % m.num_buckets], Holds)

\* map_get; the null value, whether stored or not, means no entry to map_get_or,
\* map_try_get and map_contains_key.
Get(m, k) ==
  IF Position(m, k) = 0 THEN NullValue
  ELSE m.buckets[Hash[k] % m.num_buckets][Position(m, k)].value

\* A Set's items are the keys of its map; DUMMY_VALUE is not the null value.
SetContains(m, k) == Get(m, k) # NullValue
SetSize(m) == m.size
SetIsEmpty(m) == SetSize(m) = 0

Nodes(m) == UNION {Range(m.buckets[i]) : i \in Indices(m.num_buckets)}

-----------------------------------------------------------------------------
(* Growth. *)

\* Where the nodes are: a bucket and a position in its chain.
Places(m) == UNION {{i} \X (1..Len(m.buckets[i])) : i \in Indices(m.num_buckets)}

NodeAt(m, p) == m.buckets[p[1]][p[2]]

\* The walk over the old array comes to p before it comes to q.
Before(p, q) == p[1] < q[1] \/ (p[1] = q[1] /\ p[2] < q[2])

\* How many of the places the walk comes to after p.
After(places, p) == Cardinality({q \in places : Before(p, q)})

\* The nodes at these places, each put at the head of the others.
Chained(m, places) ==
  [j \in 1..Cardinality(places) |-> NodeAt(m, CHOOSE p \in places : After(places, p) = j - 1)]

\* Mutant: the nodes are distributed over the old number of buckets.
Rehash_OldCount(m, n) ==
  [i \in Indices(n) |-> Chained(m, {p \in Places(m) : NodeAt(m, p).hash % m.num_buckets = i})]

\* Each node goes to the head of its new bucket.
Rehash(m, n) ==
  [i \in Indices(n) |-> Chained(m, {p \in Places(m) : NodeAt(m, p).hash % n = i})]

\* map_ensure_capacity, given memory.
Ensure(m, wanted) ==
  LET n == Min({m.num_buckets * 2, MaxBuckets})
  IN  IF wanted < m.fill_capacity \/ n <= m.num_buckets THEN m
      ELSE [m EXCEPT !.buckets = Rehash(m, n),
                     !.num_buckets = n,
                     !.fill_capacity = FillCapacity(n)]

\* Its loop does not change what it tests.
EnsureLoops(m, wanted) ==
  /\ wanted >= m.fill_capacity
  /\ m.num_buckets * 2 < BucketsFor(wanted)
  /\ m.num_buckets * 2 < MaxBuckets

\* Mutant: growth starts one entry late.
MustGrow_Late(m) == m.size > m.fill_capacity

MustGrow(m) == m.size >= m.fill_capacity

-----------------------------------------------------------------------------
(* The operations. *)

\* Without memory there is no map, as before.
Create(capacity) ==
  /\ map = None
  /\ LET n == InitialBuckets(capacity)
     IN  map' = [buckets |-> [i \in Indices(n) |-> <<>>], size |-> 0,
                 num_buckets |-> n, fill_capacity |-> FillCapacity(n)]
  /\ refused' = FALSE
  /\ UNCHANGED hung

\* map_set_value, of the node at i.
ValueSet(chain, i, v) ==
  [j \in 1..Len(chain) |-> IF j = i THEN [chain[j] EXCEPT !.value = v] ELSE chain[j]]

\* A known key keeps its node.
Replace(m, k, v) ==
  /\ Position(m, k) # 0
  /\ map' = [m EXCEPT !.buckets[Hash[k] % m.num_buckets] = ValueSet(@, Position(m, k), v)]

Insert(m, k, v) ==
  /\ Position(m, k) = 0
  /\ map' = [m EXCEPT !.buckets[Hash[k] % m.num_buckets] =
                        <<[key |-> k, value |-> v, hash |-> Hash[k]]>> \o @,
                      !.size = @ + 1]

\* Without memory for the node, what growth there was remains.
InsertFails(m, k) ==
  /\ Position(m, k) = 0
  /\ map' = m

\* The part of put behind map_ensure_capacity, on the map that it left.
PutInto(m, k, v) ==
  /\ Replace(m, k, v) \/ Insert(m, k, v) \/ InsertFails(m, k)
  /\ UNCHANGED hung

Put(k, v) ==
  /\ ~MustGrow(map)
  /\ PutInto(map, k, v)
  /\ UNCHANGED refused

PutGrows(k, v) ==
  /\ MustGrow(map)
  /\ ~EnsureLoops(map, map.size + 1)
  /\ PutInto(Ensure(map, map.size + 1), k, v)
  /\ refused' = FALSE

PutRefusedGrowth(k, v) ==
  /\ MustGrow(map)
  /\ ~EnsureLoops(map, map.size + 1)
  /\ Ensure(map, map.size + 1) # map
  /\ PutInto(map, k, v)
  /\ refused' = TRUE

PutHangs(k, v) ==
  /\ MustGrow(map)
  /\ EnsureLoops(map, map.size + 1)
  /\ hung' = TRUE
  /\ UNCHANGED <<map, refused>>

\* map_put: no more than one of the four is possible.
MapPut(k, v) == Put(k, v) \/ PutGrows(k, v) \/ PutRefusedGrowth(k, v) \/ PutHangs(k, v)

\* set_add, which does not look at the answer.
SetAdd(k) == MapPut(k, DummyValue)

\* Mutant: the nodes behind the removed one are lost.
Unlink_LosesRest(m, k) ==
  [m EXCEPT !.buckets[Hash[k] % m.num_buckets] = SubSeq(@, 1, Position(m, k) - 1),
            !.size = @ - 1]

Unlink(m, k) ==
  [m EXCEPT !.buckets[Hash[k] % m.num_buckets] = RemoveAt(@, Position(m, k)),
            !.size = @ - 1]

\* map_remove.
Delete(k) ==
  /\ map' = IF Position(map, k) = 0 THEN map ELSE Unlink(map, k)
  /\ UNCHANGED <<refused, hung>>

\* The buckets stay.
Clear ==
  /\ map' = [map EXCEPT !.buckets = [i \in Indices(map.num_buckets) |-> <<>>], !.size = 0]
  /\ UNCHANGED <<refused, hung>>

Destroy ==
  /\ map' = None
  /\ UNCHANGED <<refused, hung>>

-----------------------------------------------------------------------------

MapInit ==
  /\ map = None
  /\ refused = FALSE
  /\ hung = FALSE

Call ==
  \/ \E k \in Keys, v \in Values \ {DummyValue} : MapPut(k, v)
  \/ \E k \in Keys : SetAdd(k) \/ Delete(k)
  \/ Clear
  \/ Destroy

MapNext ==
  /\ ~hung
  /\ \/ \E c \in Capacities : Create(c)
     \/ map # None /\ Call

MapSpec == MapInit /\ [][MapNext]_mapVars

-----------------------------------------------------------------------------
(* Properties. *)

\* The table is within its fill factor unless it is as large as it can be, or
\* its last attempt to grow found no memory.
GrowsInTime ==
  map # None =>
    map.size <= map.fill_capacity \/ refused \/ map.num_buckets = MaxBuckets

dict ==
  LET nodes == Nodes(map)
  IN  IF map = None THEN None
      ELSE [k \in {node.key : node \in nodes} |->
              (CHOOSE node \in nodes : node.key = k).value]

D == INSTANCE Dictionary

\* The chains implement a dictionary: each put, through growth, refused growth
\* and refused nodes, sets its key, or leaves out a new key; it never disturbs
\* another; remove takes out its key alone.
ImplementsDictionary == D!Spec

\* map_get, which looks into one chain, answers from that dictionary, and the
\* map has as many entries as it says.  A map used as a Set contains the keys of
\* its entries and no others.
GetFindsEntry ==
  map # None =>
    /\ \A k \in Keys : Get(map, k) = IF k \in DOMAIN dict THEN dict[k] ELSE NullValue
    /\ SetSize(map) = Cardinality(DOMAIN dict) /\ (SetIsEmpty(map) <=> Nodes(map) = {})
    /\ Range(dict) \subseteq {DummyValue} => {k \in Keys : SetContains(map, k)} = DOMAIN dict
=============================================================================
