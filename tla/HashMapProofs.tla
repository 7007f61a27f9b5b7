--------------------------- MODULE HashMapProofs ---------------------------
(***************************************************************************)
(* Proofs, for any keys, any hashes and any least and greatest number of   *)
(* buckets, that the table of hashmap.c grows in time, that its chains     *)
(* implement a dictionary and that map_get finds what is in it.  For the   *)
(* first only the numbers of a map matter; for the others, which node is   *)
(* at which place in which chain, and where growth takes it.               *)
(***************************************************************************)
EXTENDS HashMap, FiniteSetTheorems, SequenceTheorems, WellFoundedInduction, TLAPS

\* The map has room for its entries, or was refused memory, or cannot grow.
Roomy(m, was_refused) ==
  m.size <= m.fill_capacity \/ was_refused \/ m.num_buckets = MaxBuckets

MapNumbers(m) ==
  /\ m = [buckets |-> m.buckets, size |-> m.size, num_buckets |-> m.num_buckets,
          fill_capacity |-> m.fill_capacity]
  /\ m.size \in Int
  /\ m.num_buckets \in Sizes
  /\ m.fill_capacity = FillCapacity(m.num_buckets)

IInv == map # None => MapNumbers(map) /\ Roomy(map, refused)
Inv == refused \in BOOLEAN /\ IInv

-----------------------------------------------------------------------------
(* Numbers of buckets. *)

LEMMA MinOfTwo ==
  ASSUME NEW a \in Int, NEW b \in Int
  PROVE  Min({a, b}) = IF a <= b THEN a ELSE b
<1>1. CASE a <= b
  <2>1. \A x \in {a, b} : (\A y \in {a, b} : x <= y) => x = a
    BY <1>1
  <2>2. a \in {a, b} /\ \A y \in {a, b} : a <= y
    BY <1>1
  <2>3. QED
    BY <1>1, <2>1, <2>2 DEF Min
<1>2. CASE ~(a <= b)
  <2>1. \A x \in {a, b} : (\A y \in {a, b} : x <= y) => x = b
    BY <1>2
  <2>2. b \in {a, b} /\ \A y \in {a, b} : b <= y
    BY <1>2
  <2>3. QED
    BY <1>2, <2>1, <2>2 DEF Min
<1>3. QED
  BY <1>1, <1>2

LEMMA MaxOfTwo ==
  ASSUME NEW a \in Int, NEW b \in Int
  PROVE  Max({a, b}) \in Int
<1>1. CASE a <= b
  <2>1. b \in {a, b} /\ \A y \in {a, b} : b >= y
    BY <1>1
  <2>2. QED
    BY <2>1 DEF Max
<1>2. CASE ~(a <= b)
  <2>1. a \in {a, b} /\ \A y \in {a, b} : a >= y
    BY <1>2
  <2>2. QED
    BY <2>1 DEF Max
<1>3. QED
  BY <1>1, <1>2

LEMMA LeastNumber ==
  ASSUME NEW S \in SUBSET Nat, S # {}
  PROVE  \E n \in S : \A k \in S : n <= k
<1> DEFINE R == OpToRel(<, Nat)
<1>1. IsWellFoundedOn(R, Nat)
  BY NatLessThanWellFounded
<1> HIDE DEF R
<1>2. PICK n \in S : \A k \in S : ~ (<<k, n>> \in R)
  BY <1>1, WFMin
<1>3. \A p \in Nat \X Nat : p[1] < p[2] => p \in R
  BY DEF R, OpToRel
<1>4. ASSUME NEW k \in S
      PROVE  n <= k
  <2>1. <<k, n>> \in Nat \X Nat /\ <<k, n>>[1] = k /\ <<k, n>>[2] = n
    OBVIOUS
  <2>2. ~(k < n)
    BY <1>2, <1>3, <2>1
  <2>3. QED
    BY <2>2
<1>5. QED
  BY <1>4

LEMMA SizesAreEven ==
  ASSUME NEW n \in Sizes
  PROVE  /\ n \in Nat /\ 0 < n /\ n <= MaxBuckets /\ n % 2 = 0
         /\ \E h \in Nat : n = 2 * h /\ FillCapacity(2 * n) = 3 * h /\ FillCapacity(n) < 3 * h
<1>1. n \in Nat /\ 0 < n /\ n <= MaxBuckets /\ n % 2 = 0
  BY SizesAssumption
<1>2. PICK h \in Nat : n = 2 * h
  BY <1>1
<1>3. 0 < h
  BY <1>1, <1>2
<1>4. (4 * h * 3) \div 4 = 3 * h /\ (2 * h * 3) \div 4 < 3 * h
  BY <1>3
<1>5. 2 * n * 3 = 4 * h * 3 /\ n * 3 = 2 * h * 3
  BY <1>2
<1>6. FillCapacity(2 * n) = 3 * h /\ FillCapacity(n) < 3 * h
  BY <1>4, <1>5 DEF FillCapacity
<1>7. QED
  BY <1>1, <1>2, <1>6

\* map_create finds a number of buckets.
LEMMA InitialIsSize ==
  ASSUME NEW capacity \in Capacities
  PROVE  InitialBuckets(capacity) \in Sizes
<1> DEFINE lesser  == Min({FillCapacity(MaxBuckets), capacity})
           clamped == Max({FillCapacity(MinBuckets), lesser})
           wanted  == Min({BucketsFor(clamped), MaxBuckets - 1})
           enough  == {n \in Sizes : n >= wanted}
<1>1. /\ capacity \in Int /\ MaxBuckets \in Int /\ FillCapacity(MaxBuckets) \in Int
      /\ FillCapacity(MinBuckets) \in Int
  BY HashMapAssumption, SizesAssumption DEF FillCapacity
<1>2. lesser \in Int
  BY <1>1, MinOfTwo
<1> HIDE DEF lesser
<1>3. clamped \in Int
  BY <1>1, <1>2, MaxOfTwo
<1> HIDE DEF clamped
<1>4. BucketsFor(clamped) \in Int
  BY <1>3 DEF BucketsFor
<1>5. wanted \in Int /\ wanted <= MaxBuckets - 1
  BY <1>1, <1>4, MinOfTwo
<1> HIDE DEF wanted
<1>6. /\ MaxBuckets \in enough
      /\ \A n \in enough : n \in Nat
  <2>1. MaxBuckets \in Sizes /\ MaxBuckets >= wanted
    BY <1>1, <1>5, SizesAssumption
  <2>2. QED
    BY <2>1, SizesAreEven
<1>7. \E n \in enough : \A m \in enough : n <= m
  <2>1. enough \in SUBSET Nat /\ enough # {}
    BY <1>6
  <2> HIDE DEF enough
  <2>2. QED
    BY <2>1, LeastNumber
<1>8. Min(enough) \in enough
  BY <1>7 DEF Min
<1>9. InitialBuckets(capacity) = Min(enough)
  BY DEF InitialBuckets, wanted, clamped, lesser
<1>10. QED
  BY <1>8, <1>9

-----------------------------------------------------------------------------
(* The operations. *)

\* What map_ensure_capacity makes of a full map: as it was if it is as large as
\* it can be; otherwise one with room for another entry.
LEMMA EnsureMakesRoom ==
  ASSUME NEW m, MapNumbers(m), MustGrow(m), ~EnsureLoops(m, m.size + 1)
  PROVE  /\ MapNumbers(Ensure(m, m.size + 1))
         /\ Ensure(m, m.size + 1).size = m.size
         /\ \/ m.size < Ensure(m, m.size + 1).fill_capacity
            \/ Ensure(m, m.size + 1).num_buckets = MaxBuckets
<1> DEFINE nb == m.num_buckets
           w == m.size + 1
           n == Min({nb * 2, MaxBuckets})
           g == Ensure(m, w)
<1>1. /\ nb \in Sizes /\ nb \in Nat /\ 0 < nb /\ nb <= MaxBuckets /\ MaxBuckets \in Nat
      /\ m.size \in Int /\ w \in Int /\ m.fill_capacity = FillCapacity(nb) /\ FillCapacity(nb) \in Int
  BY SizesAreEven, SizesAssumption DEF MapNumbers, FillCapacity
<1>2. n = IF nb * 2 <= MaxBuckets THEN nb * 2 ELSE MaxBuckets
  BY <1>1, MinOfTwo
<1>3. w >= m.fill_capacity
  BY <1>1 DEF MustGrow
<1>4. n \in Sizes
  BY <1>1, <1>2, SizesAssumption
<1> HIDE DEF n
<1>5. CASE n <= nb
  <2>1. g = m
    BY <1>5 DEF Ensure, n
  <2>2. nb = MaxBuckets
    BY <1>1, <1>2, <1>5
  <2>3. QED
    BY <2>1, <2>2
<1>6. CASE ~(n <= nb)
  <2>1. g = [m EXCEPT !.buckets = Rehash(m, n), !.num_buckets = n, !.fill_capacity = FillCapacity(n)]
    BY <1>1, <1>3, <1>6 DEF Ensure, n
  <2>2. /\ g = [buckets |-> Rehash(m, n), size |-> m.size, num_buckets |-> n,
                fill_capacity |-> FillCapacity(n)]
    BY <2>1 DEF MapNumbers
  <2> HIDE DEF g
  <2>3. MapNumbers(g) /\ g.size = m.size /\ g.num_buckets = n /\ g.fill_capacity = FillCapacity(n)
    BY <1>1, <1>4, <2>2 DEF MapNumbers
  <2>4. m.size < FillCapacity(n) \/ n = MaxBuckets
    <3> SUFFICES ASSUME n # MaxBuckets PROVE m.size < FillCapacity(n)
      OBVIOUS
    <3>1. n = nb * 2 /\ nb * 2 < MaxBuckets
      BY <1>1, <1>2
    <3>2. ~(nb * 2 < BucketsFor(w))
      BY <1>1, <1>3, <3>1 DEF EnsureLoops
    <3>3. PICK h \in Nat : nb = 2 * h /\ FillCapacity(2 * nb) = 3 * h
      BY <1>1, SizesAreEven
    <3>4. (w * 4) \div 3 <= 4 * h
      BY <1>1, <3>2, <3>3 DEF BucketsFor
    <3>5. w <= 3 * h
      BY <1>1, <3>4
    <3>6. QED
      BY <1>1, <3>1, <3>3, <3>5
  <2>5. QED
    BY <2>3, <2>4 DEF g
<1>7. QED
  BY <1>5, <1>6

\* The part of map_put behind it.
LEMMA PutIntoKeeps ==
  ASSUME NEW m, MapNumbers(m), NEW k, NEW v, NEW said \in BOOLEAN, PutInto(m, k, v),
         m.size < m.fill_capacity \/ said \/ m.num_buckets = MaxBuckets
  PROVE  MapNumbers(map') /\ Roomy(map', said)
<1>1. /\ m = [buckets |-> m.buckets, size |-> m.size, num_buckets |-> m.num_buckets,
              fill_capacity |-> m.fill_capacity]
      /\ m.size \in Int /\ m.num_buckets \in Sizes /\ m.fill_capacity = FillCapacity(m.num_buckets)
      /\ m.fill_capacity \in Int
  BY SizesAreEven DEF MapNumbers, FillCapacity
<1>2. CASE Replace(m, k, v)
  <2>1. map' = [m EXCEPT !.buckets[Hash[k] % m.num_buckets] = ValueSet(@, Position(m, k), v)]
    BY <1>2 DEF Replace
  <2>2. map' = [buckets |-> map'.buckets, size |-> m.size, num_buckets |-> m.num_buckets,
                fill_capacity |-> m.fill_capacity]
    BY <1>1, <2>1
  <2>3. QED
    BY <1>1, <2>2 DEF MapNumbers, Roomy
<1>3. CASE Insert(m, k, v)
  <2>1. map' = [m EXCEPT !.buckets[Hash[k] % m.num_buckets] =
                             <<[key |-> k, value |-> v, hash |-> Hash[k]]>> \o @,
                         !.size = @ + 1]
    BY <1>3 DEF Insert
  <2>2. map' = [buckets |-> map'.buckets, size |-> m.size + 1, num_buckets |-> m.num_buckets,
                fill_capacity |-> m.fill_capacity]
    BY <1>1, <2>1
  <2>3. QED
    BY <1>1, <2>2 DEF MapNumbers, Roomy
<1>4. CASE InsertFails(m, k)
  BY <1>1, <1>4 DEF InsertFails, Roomy, MapNumbers
<1>5. QED
  BY <1>2, <1>3, <1>4 DEF PutInto

LEMMA NextIInv == (map' # None => MapNumbers(map') /\ Roomy(map', refused')) => IInv'
  BY DEF IInv, MapNumbers, Roomy, FillCapacity

LEMMA MapPutKeeps ==
  ASSUME IInv, map # None, refused \in BOOLEAN, NEW k, NEW v, MapPut(k, v)
  PROVE  IInv' /\ refused' \in BOOLEAN
<1>1. MapNumbers(map) /\ Roomy(map, refused)
  BY DEF IInv
<1>2. CASE Put(k, v)
  <2>1. PutInto(map, k, v) /\ refused' = refused /\ ~MustGrow(map)
    BY <1>2 DEF Put
  <2>2. map.size \in Int /\ map.fill_capacity \in Int
    BY <1>1, SizesAreEven DEF MapNumbers, FillCapacity
  <2>3. map.size < map.fill_capacity
    BY <2>1, <2>2 DEF MustGrow
  <2>4. QED
    BY <1>1, <2>1, <2>3, PutIntoKeeps, NextIInv
<1>3. CASE PutGrows(k, v)
  <2>1. /\ PutInto(Ensure(map, map.size + 1), k, v) /\ refused' = FALSE /\ MustGrow(map)
        /\ ~EnsureLoops(map, map.size + 1)
    BY <1>3 DEF PutGrows
  <2> DEFINE g == Ensure(map, map.size + 1)
  <2>2. MapNumbers(g) /\ (g.size < g.fill_capacity \/ g.num_buckets = MaxBuckets)
    BY <1>1, <2>1, EnsureMakesRoom
  <2> HIDE DEF g
  <2>3. PutInto(g, k, v)
    BY <2>1 DEF g
  <2>4. QED
    BY <2>1, <2>2, <2>3, PutIntoKeeps, NextIInv
<1>4. CASE PutRefusedGrowth(k, v)
  <2>1. PutInto(map, k, v) /\ refused' = TRUE
    BY <1>4 DEF PutRefusedGrowth
  <2>2. QED
    BY <1>1, <2>1, PutIntoKeeps, NextIInv
<1>5. CASE PutHangs(k, v)
  <2>1. map' = map /\ refused' = refused
    BY <1>5 DEF PutHangs
  <2>2. QED
    BY <1>1, <2>1, NextIInv
<1>6. QED
  BY <1>2, <1>3, <1>4, <1>5 DEF MapPut

LEMMA StepKeeps == IInv /\ refused \in BOOLEAN /\ [MapNext]_mapVars => IInv' /\ refused' \in BOOLEAN
<1> SUFFICES ASSUME IInv, refused \in BOOLEAN, [MapNext]_mapVars
             PROVE  IInv' /\ refused' \in BOOLEAN
  OBVIOUS
<1>1. ASSUME NEW c \in Capacities, Create(c)
      PROVE  IInv' /\ refused' \in BOOLEAN
  <2>1. PICK n : /\ n = InitialBuckets(c)
                 /\ map' = [buckets |-> [i \in Indices(n) |-> <<>>], size |-> 0,
                            num_buckets |-> n, fill_capacity |-> FillCapacity(n)]
    BY <1>1 DEF Create
  <2>2. n \in Sizes /\ FillCapacity(n) \in Int /\ 0 <= FillCapacity(n)
    BY <2>1, InitialIsSize, SizesAreEven DEF FillCapacity
  <2>3. MapNumbers(map') /\ Roomy(map', FALSE)
    BY <2>1, <2>2 DEF MapNumbers, Roomy
  <2>4. refused' = FALSE
    BY <1>1 DEF Create
  <2>5. QED
    BY <2>3, <2>4, NextIInv
<1>2. ASSUME map # None, NEW k \in Keys, NEW v \in Values, MapPut(k, v)
      PROVE  IInv' /\ refused' \in BOOLEAN
  BY <1>2, MapPutKeeps
<1>3. ASSUME map # None, NEW k \in Keys, SetAdd(k)
      PROVE  IInv' /\ refused' \in BOOLEAN
  BY <1>3, MapPutKeeps DEF SetAdd
<1>4. ASSUME map # None, NEW k \in Keys, Delete(k)
      PROVE  IInv' /\ refused' \in BOOLEAN
  <2>1. /\ map = [buckets |-> map.buckets, size |-> map.size, num_buckets |-> map.num_buckets,
                  fill_capacity |-> map.fill_capacity]
        /\ map.size \in Int /\ map.num_buckets \in Sizes /\ map.fill_capacity = FillCapacity(map.num_buckets)
        /\ map.fill_capacity \in Int /\ Roomy(map, refused) /\ refused' = refused
    BY <1>4, SizesAreEven DEF IInv, MapNumbers, FillCapacity, Delete
  <2>2. CASE map' = map
    BY <1>4, <2>1, <2>2, NextIInv DEF IInv
  <2>3. CASE map' = Unlink(map, k)
    <3>1. map' = [buckets |-> map'.buckets, size |-> map.size - 1, num_buckets |-> map.num_buckets,
                  fill_capacity |-> map.fill_capacity]
      BY <2>1, <2>3 DEF Unlink
    <3>2. MapNumbers(map') /\ Roomy(map', refused')
      BY <2>1, <3>1 DEF MapNumbers, Roomy
    <3>3. QED
      BY <2>1, <3>2, NextIInv
  <2>4. QED
    BY <1>4, <2>2, <2>3 DEF Delete
<1>5. ASSUME map # None, Clear
      PROVE  IInv' /\ refused' \in BOOLEAN
  <2>1. /\ map = [buckets |-> map.buckets, size |-> map.size, num_buckets |-> map.num_buckets,
                  fill_capacity |-> map.fill_capacity]
        /\ map.num_buckets \in Sizes /\ map.fill_capacity = FillCapacity(map.num_buckets)
        /\ map.fill_capacity \in Int /\ 0 <= map.fill_capacity /\ refused' = refused
    BY <1>5, SizesAreEven DEF IInv, MapNumbers, FillCapacity, Clear
  <2>2. map' = [buckets |-> map'.buckets, size |-> 0, num_buckets |-> map.num_buckets,
                fill_capacity |-> map.fill_capacity]
    BY <1>5, <2>1 DEF Clear
  <2>3. MapNumbers(map') /\ Roomy(map', refused')
    BY <2>1, <2>2 DEF MapNumbers, Roomy
  <2>4. QED
    BY <2>1, <2>3, NextIInv
<1>6. CASE Destroy
  <2>1. map' = None /\ refused' = refused
    BY <1>6 DEF Destroy
  <2>2. QED
    BY <2>1, NextIInv
<1>7. CASE UNCHANGED mapVars
  BY <1>7, NextIInv DEF mapVars, IInv
<1>8. QED
  BY <1>1, <1>2, <1>3, <1>4, <1>5, <1>6, <1>7 DEF MapNext, Call

\* Through every mixture of puts, removals, refused memory and growth the map
\* stays within its fill factor unless it is as large as it can be or its last
\* attempt to grow was refused.
THEOREM MapGrowsInTime == MapSpec => []GrowsInTime
<1>1. MapInit => Inv
  BY DEF MapInit, Inv, IInv
<1>2. Inv => GrowsInTime
  BY DEF Inv, IInv, GrowsInTime, Roomy
<1>3. Inv /\ [MapNext]_mapVars => Inv'
  BY StepKeeps DEF Inv
<1>4. QED
  BY <1>1, <1>2, <1>3, PTL DEF MapSpec

-----------------------------------------------------------------------------
(* The chains. *)

MapNode == [key : Keys, value : Values, hash : Nat]

KeysOf(m) == {NodeAt(m, p).key : p \in Places(m)}

\* Each node is in the bucket of its hash, no key has two, and size counts them.
ChainsOK(m) ==
  /\ m.buckets \in [Indices(m.num_buckets) -> Seq(MapNode)]
  /\ \A p \in Places(m) : /\ NodeAt(m, p).hash = Hash[NodeAt(m, p).key]
                          /\ NodeAt(m, p).hash % m.num_buckets = p[1]
  /\ \A p, q \in Places(m) : NodeAt(m, p).key = NodeAt(m, q).key => p = q
  /\ IsFiniteSet(KeysOf(m)) /\ Cardinality(KeysOf(m)) = m.size

\* What the client sees of a map.
DictOf(m) ==
  [k \in {node.key : node \in Nodes(m)} |-> (CHOOSE node \in Nodes(m) : node.key = k).value]

LEMMA PlacesAre ==
  ASSUME NEW m, m.buckets \in [Indices(m.num_buckets) -> Seq(MapNode)]
  PROVE  /\ \A b \in Indices(m.num_buckets) : \A j \in 1..Len(m.buckets[b]) :
              <<b, j>> \in Places(m) /\ NodeAt(m, <<b, j>>) = m.buckets[b][j]
         /\ \A p \in Places(m) :
              /\ p = <<p[1], p[2]>>
              /\ p[1] \in Indices(m.num_buckets) /\ p[2] \in 1..Len(m.buckets[p[1]])
              /\ NodeAt(m, p) = m.buckets[p[1]][p[2]]
              /\ NodeAt(m, p) \in MapNode
<1>1. \A b \in Indices(m.num_buckets) : m.buckets[b] \in Seq(MapNode)
  OBVIOUS
<1>2. ASSUME NEW b \in Indices(m.num_buckets), NEW j \in 1..Len(m.buckets[b])
      PROVE  <<b, j>> \in Places(m) /\ NodeAt(m, <<b, j>>) = m.buckets[b][j]
  BY DEF Places, NodeAt
<1>3. ASSUME NEW p \in Places(m)
      PROVE  /\ p = <<p[1], p[2]>>
             /\ p[1] \in Indices(m.num_buckets) /\ p[2] \in 1..Len(m.buckets[p[1]])
             /\ NodeAt(m, p) = m.buckets[p[1]][p[2]]
             /\ NodeAt(m, p) \in MapNode
  <2>1. PICK b \in Indices(m.num_buckets) : p \in {b} \X (1..Len(m.buckets[b]))
    BY DEF Places
  <2>2. p = <<p[1], p[2]>> /\ p[1] = b /\ p[2] \in 1..Len(m.buckets[b])
    BY <2>1
  <2>3. m.buckets[b][p[2]] \in MapNode
    BY <1>1, <2>2
  <2>4. QED
    BY <2>2, <2>3 DEF NodeAt
<1>4. QED
  BY <1>2, <1>3

LEMMA NodesAre ==
  ASSUME NEW m, m.buckets \in [Indices(m.num_buckets) -> Seq(MapNode)]
  PROVE  Nodes(m) = {NodeAt(m, p) : p \in Places(m)}
<1>1. ASSUME NEW node \in Nodes(m)
      PROVE  node \in {NodeAt(m, p) : p \in Places(m)}
  <2>1. PICK b \in Indices(m.num_buckets) : node \in Range(m.buckets[b])
    BY DEF Nodes
  <2>2. m.buckets[b] \in Seq(MapNode)
    OBVIOUS
  <2>3. PICK j \in 1..Len(m.buckets[b]) : node = m.buckets[b][j]
    BY <2>1, <2>2 DEF Range
  <2>4. <<b, j>> \in Places(m) /\ NodeAt(m, <<b, j>>) = node
    BY <2>3, PlacesAre
  <2>5. QED
    BY <2>4
<1>2. ASSUME NEW p \in Places(m)
      PROVE  NodeAt(m, p) \in Nodes(m)
  <2>1. p[1] \in Indices(m.num_buckets) /\ p[2] \in 1..Len(m.buckets[p[1]]) /\ NodeAt(m, p) = m.buckets[p[1]][p[2]]
    BY PlacesAre
  <2>2. m.buckets[p[1]] \in Seq(MapNode)
    BY <2>1
  <2>3. NodeAt(m, p) \in Range(m.buckets[p[1]])
    BY <2>1, <2>2 DEF Range
  <2>4. QED
    BY <2>1, <2>3 DEF Nodes
<1>3. QED
  BY <1>1, <1>2

LEMMA DictIs ==
  ASSUME NEW m, ChainsOK(m)
  PROVE  /\ KeysOf(m) \subseteq Keys
         /\ DictOf(m) \in [KeysOf(m) -> Values]
         /\ \A p \in Places(m) : DictOf(m)[NodeAt(m, p).key] = NodeAt(m, p).value
         /\ DictOf(m) # None
<1>1. m.buckets \in [Indices(m.num_buckets) -> Seq(MapNode)]
  BY DEF ChainsOK
<1>2. Nodes(m) = {NodeAt(m, p) : p \in Places(m)} /\ \A p \in Places(m) : NodeAt(m, p) \in MapNode
  BY <1>1, NodesAre, PlacesAre
<1>3. KeysOf(m) \subseteq Keys /\ {node.key : node \in Nodes(m)} = KeysOf(m)
  BY <1>2 DEF KeysOf, MapNode
<1>4. ASSUME NEW p \in Places(m)
      PROVE  DictOf(m)[NodeAt(m, p).key] = NodeAt(m, p).value
  <2> DEFINE k == NodeAt(m, p).key
  <2>1. \A node \in Nodes(m) : node.key = k => node = NodeAt(m, p)
    BY <1>2 DEF ChainsOK
  <2>2. (CHOOSE node \in Nodes(m) : node.key = k) = NodeAt(m, p)
    BY <1>2, <2>1
  <2>3. k \in {node.key : node \in Nodes(m)}
    BY <1>2
  <2> HIDE DEF k
  <2>4. DictOf(m)[k] = NodeAt(m, p).value
    BY <2>2, <2>3 DEF DictOf
  <2>5. QED
    BY <2>4 DEF k
<1>5. DictOf(m) \in [KeysOf(m) -> Values]
  <2>1. DictOf(m) = [k \in KeysOf(m) |-> DictOf(m)[k]]
    BY <1>3 DEF DictOf
  <2>2. \A k \in KeysOf(m) : DictOf(m)[k] \in Values
    BY <1>2, <1>4 DEF KeysOf, MapNode
  <2>3. QED
    BY <2>1, <2>2
<1>6. DictOf(m) # None
  BY <1>3, <1>5, HashMapAssumption
<1>7. QED
  BY <1>3, <1>4, <1>5, <1>6

LEMMA DictOnly ==
  ASSUME NEW m, ChainsOK(m), NEW f \in [KeysOf(m) -> Values],
         \A p \in Places(m) : f[NodeAt(m, p).key] = NodeAt(m, p).value
  PROVE  DictOf(m) = f
<1>1. DictOf(m) \in [KeysOf(m) -> Values]
  BY DictIs
<1>2. \A k \in KeysOf(m) : DictOf(m)[k] = f[k]
  BY DictIs DEF KeysOf
<1>3. QED
  BY <1>1, <1>2

\* Where map_node_for finds a key.
LEMMA PositionIs ==
  ASSUME NEW m, ChainsOK(m), MapNumbers(m), NEW k \in Keys
  PROVE  LET b == Hash[k] % m.num_buckets
         IN  /\ b \in Indices(m.num_buckets)
             /\ Position(m, k) \in Nat
             /\ Position(m, k) = 0 <=> k \notin KeysOf(m)
             /\ Position(m, k) # 0 =>
                  <<b, Position(m, k)>> \in Places(m) /\ NodeAt(m, <<b, Position(m, k)>>).key = k
<1> DEFINE b == Hash[k] % m.num_buckets
           chain == m.buckets[b]
           I == {i \in 1..Len(chain) : chain[i].key = k}
<1>1. m.buckets \in [Indices(m.num_buckets) -> Seq(MapNode)] /\ m.num_buckets \in Nat /\ m.num_buckets > 0
  BY SizesAreEven DEF ChainsOK, MapNumbers
<1>2. Hash[k] \in Nat
  BY HashMapAssumption
<1>3. b \in Indices(m.num_buckets)
  BY <1>1, <1>2 DEF Indices
<1> HIDE DEF b
<1>4. chain \in Seq(MapNode)
  BY <1>1, <1>3
<1>5. Position(m, k) = IF I # {} THEN Min(I) ELSE 0
  BY DEF Position, SelectInSeq, b
<1>6. I \in SUBSET Nat
  BY <1>4
<1>7. I # {} => Min(I) \in I
  <2> SUFFICES ASSUME I # {} PROVE Min(I) \in I
    OBVIOUS
  <2> HIDE DEF I
  <2>1. \E n \in I : \A j \in I : n <= j
    BY <1>6, LeastNumber
  <2>2. QED
    BY <2>1 DEF Min
<1>8. \A i \in I : i \in 1..Len(chain) /\ <<b, i>> \in Places(m) /\ NodeAt(m, <<b, i>>).key = k
  BY <1>1, <1>3, PlacesAre
<1>9. I = {} => k \notin KeysOf(m)
  <2> SUFFICES ASSUME k \in KeysOf(m) PROVE I # {}
    OBVIOUS
  <2>1. PICK p \in Places(m) : NodeAt(m, p).key = k
    BY DEF KeysOf
  <2>2. p[1] = b
    BY <2>1 DEF ChainsOK, b
  <2>3. p[2] \in 1..Len(m.buckets[p[1]]) /\ NodeAt(m, p) = m.buckets[p[1]][p[2]]
    BY <1>1, PlacesAre
  <2>4. p[2] \in I
    BY <2>1, <2>2, <2>3
  <2>5. QED
    BY <2>4
<1>10. I # {} => k \in KeysOf(m)
  BY <1>8 DEF KeysOf
<1>11. \A i \in I : i \in Nat /\ i # 0
  BY <1>4
<1> HIDE DEF I
<1>12. /\ b \in Indices(m.num_buckets) /\ Position(m, k) \in Nat
       /\ Position(m, k) = 0 <=> k \notin KeysOf(m)
       /\ Position(m, k) # 0 =>
            <<b, Position(m, k)>> \in Places(m) /\ NodeAt(m, <<b, Position(m, k)>>).key = k
  BY <1>3, <1>5, <1>7, <1>8, <1>9, <1>10, <1>11
<1>13. QED
  BY <1>12 DEF b

-----------------------------------------------------------------------------
(* Growth. *)

\* In a finite set of places each rank behind the others is taken once.
LEMMA RanksAre ==
  ASSUME NEW P, IsFiniteSet(P), \A p \in P : p = <<p[1], p[2]>> /\ p[1] \in Int /\ p[2] \in Int
  PROVE  /\ Cardinality(P) \in Nat
         /\ \A p \in P : After(P, p) \in 0..(Cardinality(P) - 1)
         /\ \A p, q \in P : After(P, p) = After(P, q) => p = q
         /\ \A r \in 0..(Cardinality(P) - 1) : \E p \in P : After(P, p) = r
<1> DEFINE n == Cardinality(P)
           Behind(p) == {q \in P : Before(p, q)}
<1>1. n \in Nat
  BY FS_CardinalityType
<1>2. ASSUME NEW p \in P
      PROVE  IsFiniteSet(Behind(p)) /\ After(P, p) = Cardinality(Behind(p)) /\ After(P, p) \in Nat
  <2>1. Behind(p) \subseteq P
    OBVIOUS
  <2>2. IsFiniteSet(Behind(p))
    BY <2>1, FS_Subset
  <2>3. QED
    BY <2>2, FS_CardinalityType DEF After
<1>3. ASSUME NEW p \in P
      PROVE  After(P, p) < n
  <2>1. p \notin Behind(p)
    BY DEF Before
  <2>2. Behind(p) \subseteq P \ {p}
    BY <2>1
  <2>3. IsFiniteSet(P \ {p}) /\ Cardinality(P \ {p}) = n - 1
    BY FS_RemoveElement
  <2> HIDE DEF Behind
  <2>4. Cardinality(Behind(p)) <= Cardinality(P \ {p})
    BY <2>2, <2>3, FS_Subset
  <2>5. QED
    BY <1>1, <1>2, <2>3, <2>4
<1>4. ASSUME NEW p \in P, NEW q \in P, Before(p, q)
      PROVE  After(P, q) < After(P, p)
  <2>1. Behind(q) \subseteq Behind(p)
    BY <1>4 DEF Before
  <2>2. q \in Behind(p) /\ q \notin Behind(q)
    BY <1>4 DEF Before
  <2> HIDE DEF Behind
  <2>3. Cardinality(Behind(q)) <= Cardinality(Behind(p)) /\ Cardinality(Behind(q)) # Cardinality(Behind(p))
    BY <1>2, <2>1, <2>2, FS_Subset
  <2>4. QED
    BY <1>2, <2>3
<1> HIDE DEF n, Behind
<1>5. ASSUME NEW p \in P, NEW q \in P, After(P, p) = After(P, q)
      PROVE  p = q
  <2>1. ~Before(p, q) /\ ~Before(q, p)
    BY <1>2, <1>4, <1>5
  <2>2. p[1] = q[1] /\ p[2] = q[2]
    BY <2>1 DEF Before
  <2>3. QED
    BY <2>2
<1> DEFINE f == [p \in P |-> After(P, p)]
<1>6. f \in Injection(P, 0..(n - 1))
  <2>1. \A p \in P : f[p] \in 0..(n - 1)
    BY <1>1, <1>2, <1>3
  <2>2. \A p, q \in P : f[p] = f[q] => p = q
    BY <1>5
  <2>3. QED
    BY <2>1, <2>2 DEF Injection, IsInjective
<1>7. IsFiniteSet(0..(n - 1)) /\ Cardinality(0..(n - 1)) = n
  <2>1. 0 \in Int /\ n - 1 \in Int /\ (0 > n - 1 <=> n = 0) /\ (n - 1) - 0 + 1 = n
    BY <1>1
  <2>2. QED
    BY <2>1, FS_Interval
<1>8. f \in Surjection(P, 0..(n - 1))
  <2> HIDE DEF f
  <2>1. Cardinality(P) = n
    BY DEF n
  <2>2. QED
    BY <1>6, <1>7, <2>1, FS_Injection
<1>9. ASSUME NEW r \in 0..(n - 1)
      PROVE  \E p \in P : After(P, p) = r
  BY <1>8 DEF Surjection
<1>10. \A p \in P : After(P, p) \in 0..(n - 1)
  BY <1>1, <1>2, <1>3
<1>11. QED
  BY <1>1, <1>5, <1>9, <1>10 DEF n

\* The nodes that go to a new bucket, each once.
LEMMA ChainedAre ==
  ASSUME NEW m, ChainsOK(m), NEW P, P \subseteq Places(m), IsFiniteSet(P),
         m.num_buckets \in Nat
  PROVE  LET at == [j \in 1..Cardinality(P) |-> CHOOSE p \in P : After(P, p) = j - 1]
         IN  /\ Cardinality(P) \in Nat
             /\ Chained(m, P) \in Seq(MapNode) /\ Len(Chained(m, P)) = Cardinality(P)
             /\ \A j \in 1..Cardinality(P) : at[j] \in P /\ Chained(m, P)[j] = NodeAt(m, at[j])
             /\ \A i, j \in 1..Cardinality(P) : at[i] = at[j] => i = j
             /\ \A p \in P : \E j \in 1..Cardinality(P) : at[j] = p
<1> DEFINE n == Cardinality(P)
           at == [j \in 1..n |-> CHOOSE p \in P : After(P, p) = j - 1]
           c == Chained(m, P)
<1>1. \A p \in P : p = <<p[1], p[2]>> /\ p[1] \in Int /\ p[2] \in Int /\ NodeAt(m, p) \in MapNode
  BY PlacesAre DEF ChainsOK, Indices
<1>2. /\ n \in Nat /\ \A p \in P : After(P, p) \in 0..(n - 1)
      /\ \A p, q \in P : After(P, p) = After(P, q) => p = q
      /\ \A r \in 0..(n - 1) : \E p \in P : After(P, p) = r
  BY <1>1, RanksAre
<1> HIDE DEF n
<1>3. ASSUME NEW j \in 1..n
      PROVE  at[j] \in P /\ After(P, at[j]) = j - 1
  <2>1. j - 1 \in 0..(n - 1)
    BY <1>2
  <2>2. \E p \in P : After(P, p) = j - 1
    BY <1>2, <2>1
  <2>3. QED
    BY <2>2
<1>4. c = [j \in 1..n |-> NodeAt(m, at[j])]
  BY DEF Chained, n
<1> HIDE DEF at
<1>5. \A j \in 1..n : c[j] = NodeAt(m, at[j]) /\ c[j] \in MapNode
  BY <1>1, <1>3, <1>4
<1>6. c = [j \in 1..n |-> c[j]]
  BY <1>4
<1> HIDE DEF c
<1>7. c \in Seq(MapNode) /\ Len(c) = n
  BY <1>2, <1>5, <1>6
<1>8. \A i, j \in 1..n : at[i] = at[j] => i = j
  BY <1>2, <1>3
<1>9. ASSUME NEW p \in P
      PROVE  \E j \in 1..n : at[j] = p
  <2>1. After(P, p) + 1 \in 1..n /\ (After(P, p) + 1) - 1 = After(P, p)
    BY <1>2
  <2>2. at[After(P, p) + 1] = p
    BY <1>2, <1>3, <2>1
  <2>3. QED
    BY <2>1, <2>2
<1>10. QED
  BY <1>2, <1>3, <1>5, <1>7, <1>8, <1>9 DEF n, at, c

\* map_ensure_capacity moves every node and loses none.
LEMMA RehashKeeps ==
  ASSUME NEW m, ChainsOK(m), m.num_buckets \in Nat, NEW n \in Nat \ {0},
         NEW m2, m2.buckets = Rehash(m, n), m2.num_buckets = n, m2.size = m.size
  PROVE  ChainsOK(m2) /\ KeysOf(m2) = KeysOf(m) /\ DictOf(m2) = DictOf(m)
<1> DEFINE Goes(i) == {p \in Places(m) : NodeAt(m, p).hash % n = i}
           At(i, j) == CHOOSE p \in Goes(i) : After(Goes(i), p) = j - 1
           g == [q \in Places(m2) |-> At(q[1], q[2])]
<1>1. m.buckets \in [Indices(m.num_buckets) -> Seq(MapNode)]
  BY DEF ChainsOK
<1>2. IsFiniteSet(Places(m))
  <2> DEFINE f == [p \in Places(m) |-> NodeAt(m, p).key]
  <2>1. f \in [Places(m) -> KeysOf(m)]
    BY DEF KeysOf
  <2>2. \A p, q \in Places(m) : f[p] = f[q] => p = q
    BY DEF ChainsOK
  <2> HIDE DEF f
  <2>3. f \in Injection(Places(m), KeysOf(m))
    BY <2>1, <2>2 DEF Injection, IsInjective
  <2>4. IsFiniteSet(KeysOf(m))
    BY DEF ChainsOK
  <2>5. QED
    BY <2>3, <2>4, FS_Injection
<1>3. ASSUME NEW i \in Indices(n)
      PROVE  /\ Cardinality(Goes(i)) \in Nat
             /\ m2.buckets[i] \in Seq(MapNode) /\ Len(m2.buckets[i]) = Cardinality(Goes(i))
             /\ \A j \in 1..Cardinality(Goes(i)) : At(i, j) \in Goes(i) /\ m2.buckets[i][j] = NodeAt(m, At(i, j))
             /\ \A j, k \in 1..Cardinality(Goes(i)) : At(i, j) = At(i, k) => j = k
             /\ \A p \in Goes(i) : \E j \in 1..Cardinality(Goes(i)) : At(i, j) = p
  <2> DEFINE P == Goes(i)
             at == [j \in 1..Cardinality(P) |-> CHOOSE p \in P : After(P, p) = j - 1]
  <2>1. P \subseteq Places(m) /\ IsFiniteSet(P)
    <3>1. P \subseteq Places(m)
      OBVIOUS
    <3> HIDE DEF P
    <3>2. QED
      BY <1>2, <3>1, FS_Subset
  <2>2. m2.buckets[i] = Chained(m, P)
    BY DEF Rehash
  <2>3. \A j \in 1..Cardinality(P) : at[j] = At(i, j)
    OBVIOUS
  <2> HIDE DEF P, At
  <2>4. /\ Cardinality(P) \in Nat
        /\ Chained(m, P) \in Seq(MapNode) /\ Len(Chained(m, P)) = Cardinality(P)
        /\ \A j \in 1..Cardinality(P) : at[j] \in P /\ Chained(m, P)[j] = NodeAt(m, at[j])
        /\ \A k, j \in 1..Cardinality(P) : at[k] = at[j] => k = j
        /\ \A p \in P : \E j \in 1..Cardinality(P) : at[j] = p
    BY <2>1, ChainedAre
  <2> HIDE DEF at
  <2>5. /\ Cardinality(P) \in Nat
        /\ m2.buckets[i] \in Seq(MapNode) /\ Len(m2.buckets[i]) = Cardinality(P)
        /\ \A j \in 1..Cardinality(P) : At(i, j) \in P /\ m2.buckets[i][j] = NodeAt(m, At(i, j))
        /\ \A k, j \in 1..Cardinality(P) : At(i, k) = At(i, j) => k = j
        /\ \A p \in P : \E j \in 1..Cardinality(P) : At(i, j) = p
    BY <2>2, <2>3, <2>4
  <2>6. QED
    BY <2>5 DEF P
<1>4. m2.buckets \in [Indices(m2.num_buckets) -> Seq(MapNode)]
  <2>1. m2.buckets = [i \in Indices(n) |-> m2.buckets[i]]
    BY DEF Rehash
  <2>2. QED
    BY <1>3, <2>1
<1> HIDE DEF At
<1>5. ASSUME NEW q \in Places(m2)
      PROVE  /\ q = <<q[1], q[2]>> /\ q[1] \in Indices(n) /\ q[2] \in 1..Cardinality(Goes(q[1]))
             /\ g[q] = At(q[1], q[2]) /\ g[q] \in Goes(q[1]) /\ NodeAt(m2, q) = NodeAt(m, g[q])
  <2>1. /\ q = <<q[1], q[2]>> /\ q[1] \in Indices(n) /\ q[2] \in 1..Len(m2.buckets[q[1]])
        /\ NodeAt(m2, q) = m2.buckets[q[1]][q[2]]
    BY <1>4, PlacesAre
  <2> HIDE DEF Goes
  <2>2. g[q] = At(q[1], q[2])
    OBVIOUS
  <2> HIDE DEF g
  <2>3. QED
    BY <1>3, <2>1, <2>2
<1>6. g \in [Places(m2) -> Places(m)]
  <2>1. \A q \in Places(m2) : g[q] \in Places(m)
    BY <1>5
  <2>2. QED
    BY <2>1
<1>7. ASSUME NEW q \in Places(m2), NEW r \in Places(m2), g[q] = g[r]
      PROVE  q = r
  <2>1. q[1] = r[1]
    BY <1>5, <1>7
  <2> HIDE DEF g, Goes
  <2>2. q[2] = r[2]
    BY <1>3, <1>5, <1>7, <2>1
  <2>3. QED
    BY <1>5, <2>1, <2>2
<1>8. ASSUME NEW p \in Places(m)
      PROVE  \E q \in Places(m2) : g[q] = p
  <2> DEFINE i == NodeAt(m, p).hash % n
  <2>1. NodeAt(m, p).hash \in Nat
    BY <1>1, PlacesAre DEF MapNode
  <2>2. i \in Indices(n)
    BY <2>1 DEF Indices
  <2>3. p \in Goes(i)
    OBVIOUS
  <2> HIDE DEF i, Goes, g
  <2>4. PICK j \in 1..Cardinality(Goes(i)) : At(i, j) = p
    BY <1>3, <2>2, <2>3
  <2>5. <<i, j>> \in Places(m2)
    <3>1. i \in Indices(m2.num_buckets) /\ j \in 1..Len(m2.buckets[i])
      BY <1>3, <2>2, <2>4
    <3>2. QED
      BY <1>4, <3>1, PlacesAre
  <2>6. g[<<i, j>>] = At(i, j)
    BY <1>5, <2>5
  <2>7. QED
    BY <2>4, <2>5, <2>6
<1>9. /\ \A q \in Places(m2) : NodeAt(m2, q).hash = Hash[NodeAt(m2, q).key]
      /\ \A q, r \in Places(m2) : NodeAt(m2, q).key = NodeAt(m2, r).key => q = r
      /\ KeysOf(m2) = KeysOf(m)
  <2>1. \A q \in Places(m2) : NodeAt(m2, q).key = NodeAt(m, g[q]).key /\ NodeAt(m2, q).hash = NodeAt(m, g[q]).hash
    BY <1>5
  <2> HIDE DEF g
  <2>2. /\ \A q \in Places(m2) : NodeAt(m2, q).hash = Hash[NodeAt(m2, q).key]
        /\ \A q, r \in Places(m2) : NodeAt(m2, q).key = NodeAt(m2, r).key => q = r
    BY <1>6, <1>7, <2>1 DEF ChainsOK
  <2>3. KeysOf(m2) = KeysOf(m)
    BY <1>6, <1>8, <2>1 DEF KeysOf
  <2>4. QED
    BY <2>2, <2>3
<1>10. \A q \in Places(m2) : NodeAt(m2, q).hash % n = q[1]
  BY <1>5
<1>11. ChainsOK(m2)
  BY <1>4, <1>9, <1>10 DEF ChainsOK
<1>12. \A q \in Places(m2) : DictOf(m)[NodeAt(m2, q).key] = NodeAt(m2, q).value
  <2>1. \A q \in Places(m2) : g[q] \in Places(m) /\ NodeAt(m2, q) = NodeAt(m, g[q])
    BY <1>5
  <2> HIDE DEF g
  <2>2. QED
    BY <2>1, DictIs
<1>13. DictOf(m2) = DictOf(m)
  BY <1>9, <1>11, <1>12, DictIs, DictOnly
<1>14. QED
  BY <1>9, <1>11, <1>13

-----------------------------------------------------------------------------
(* The operations on the chains. *)

\* A map without nodes.
LEMMA EmptyIs ==
  ASSUME NEW m, m.buckets = [i \in Indices(m.num_buckets) |-> <<>>], m.size = 0
  PROVE  ChainsOK(m) /\ DictOf(m) = <<>>
<1>1. m.buckets \in [Indices(m.num_buckets) -> Seq(MapNode)]
  OBVIOUS
<1>2. Places(m) = {}
  <2>1. SUFFICES ASSUME NEW p \in Places(m) PROVE FALSE
    OBVIOUS
  <2>2. p[1] \in Indices(m.num_buckets) /\ p[2] \in 1..Len(m.buckets[p[1]])
    BY <1>1, PlacesAre
  <2>3. m.buckets[p[1]] = <<>>
    BY <2>2
  <2>4. QED
    BY <2>2, <2>3
<1>3. KeysOf(m) = {}
  BY <1>2 DEF KeysOf
<1>4. IsFiniteSet(KeysOf(m)) /\ Cardinality(KeysOf(m)) = 0
  BY <1>3, FS_EmptySet
<1>5. ChainsOK(m)
  BY <1>1, <1>2, <1>4 DEF ChainsOK
<1>6. DictOf(m) \in [{} -> Values]
  BY <1>3, <1>5, DictIs
<1>7. QED
  BY <1>5, <1>6

\* The dictionary with k set.
WithKey(m, k, v) ==
  [x \in KeysOf(m) \cup {k} |-> IF x = k THEN v ELSE DictOf(m)[x]]

\* A node's value set.
LEMMA ReplaceKeeps ==
  ASSUME NEW m, ChainsOK(m), MapNumbers(m), NEW k \in Keys, NEW v \in Values, Position(m, k) # 0,
         NEW m2, m2.num_buckets = m.num_buckets, m2.size = m.size,
         m2.buckets = [m.buckets EXCEPT ![Hash[k] % m.num_buckets] = ValueSet(@, Position(m, k), v)]
  PROVE  /\ ChainsOK(m2)
         /\ DictOf(m2) = WithKey(m, k, v)
<1> DEFINE b == Hash[k] % m.num_buckets
           i == Position(m, k)
           chain == m.buckets[b]
           here == <<b, i>>
<1>1. m.buckets \in [Indices(m.num_buckets) -> Seq(MapNode)]
  BY DEF ChainsOK
<1>2. b \in Indices(m.num_buckets) /\ i \in Nat /\ k \in KeysOf(m) /\ here \in Places(m) /\ NodeAt(m, here).key = k
  BY PositionIs
<1>3. m2.buckets = [m.buckets EXCEPT ![b] = ValueSet(chain, i, v)]
  OBVIOUS
<1> HIDE DEF b, i
<1>4. chain \in Seq(MapNode)
  BY <1>1, <1>2
<1> DEFINE w == ValueSet(chain, i, v)
<1>5. \A j \in 1..Len(chain) : w[j] = IF j = i THEN [chain[j] EXCEPT !.value = v] ELSE chain[j]
  BY DEF ValueSet
<1>6. w \in Seq(MapNode) /\ Len(w) = Len(chain)
  <2>1. \A j \in 1..Len(chain) : chain[j] \in MapNode
    BY <1>4
  <2>2. \A j \in 1..Len(chain) : w[j] \in MapNode
    BY <1>5, <2>1 DEF MapNode
  <2>3. w = [j \in 1..Len(chain) |-> w[j]]
    BY DEF ValueSet
  <2> DEFINE n == Len(chain)
  <2>4. n \in Nat
    BY <1>4
  <2> HIDE DEF w, n
  <2>5. w \in Seq(MapNode) /\ Len(w) = n
    BY <2>2, <2>3, <2>4 DEF n
  <2>6. QED
    BY <2>5 DEF n
<1> HIDE DEF w
<1>7. m2.buckets \in [Indices(m2.num_buckets) -> Seq(MapNode)]
  BY <1>1, <1>3, <1>6 DEF w
<1>8. \A c \in Indices(m.num_buckets) : m2.buckets[c] = IF c = b THEN w ELSE m.buckets[c]
  BY <1>1, <1>3 DEF w
<1>9. ASSUME NEW p
      PROVE  p \in Places(m2) <=> p \in Places(m)
  <2>1. ASSUME p \in Places(m2) PROVE p \in Places(m)
    <3>1. p = <<p[1], p[2]>> /\ p[1] \in Indices(m.num_buckets) /\ p[2] \in 1..Len(m2.buckets[p[1]])
      BY <1>7, <2>1, PlacesAre
    <3>2. p[2] \in 1..Len(m.buckets[p[1]])
      BY <1>6, <1>8, <3>1
    <3>3. QED
      BY <1>1, <3>1, <3>2, PlacesAre
  <2>2. ASSUME p \in Places(m) PROVE p \in Places(m2)
    <3>1. p = <<p[1], p[2]>> /\ p[1] \in Indices(m.num_buckets) /\ p[2] \in 1..Len(m.buckets[p[1]])
      BY <1>1, <2>2, PlacesAre
    <3>2. p[1] \in Indices(m2.num_buckets) /\ p[2] \in 1..Len(m2.buckets[p[1]])
      BY <1>6, <1>8, <3>1
    <3>3. QED
      BY <1>7, <3>1, <3>2, PlacesAre
  <2>3. QED
    BY <2>1, <2>2
<1>10. Places(m2) = Places(m)
  BY <1>9
<1>11. ASSUME NEW p \in Places(m)
       PROVE  /\ NodeAt(m2, p).key = NodeAt(m, p).key /\ NodeAt(m2, p).hash = NodeAt(m, p).hash
              /\ NodeAt(m2, p).value = IF p = here THEN v ELSE NodeAt(m, p).value
  <2>1. /\ p = <<p[1], p[2]>> /\ p[1] \in Indices(m.num_buckets) /\ p[2] \in 1..Len(m.buckets[p[1]])
        /\ NodeAt(m, p) = m.buckets[p[1]][p[2]] /\ NodeAt(m, p) \in MapNode
    BY <1>1, PlacesAre
  <2>2. NodeAt(m2, p) = m2.buckets[p[1]][p[2]]
    BY DEF NodeAt
  <2>3. p = here <=> p[1] = b /\ p[2] = i
    BY <2>1
  <2>4. NodeAt(m2, p) = IF p = here THEN [NodeAt(m, p) EXCEPT !.value = v] ELSE NodeAt(m, p)
    <3>1. CASE p[1] = b
      <4>1. p[2] \in 1..Len(chain) /\ NodeAt(m, p) = chain[p[2]] /\ (p = here <=> p[2] = i)
        BY <2>1, <2>3, <3>1
      <4>2. NodeAt(m2, p) = w[p[2]]
        BY <1>8, <2>1, <2>2, <3>1
      <4>3. QED
        BY <1>5, <4>1, <4>2
    <3>2. CASE p[1] # b
      BY <1>8, <2>1, <2>2, <2>3, <3>2
    <3>3. QED
      BY <3>1, <3>2
  <2>5. QED
    BY <2>1, <2>4 DEF MapNode
<1>12. KeysOf(m2) = KeysOf(m)
  BY <1>10, <1>11 DEF KeysOf
<1>13. ChainsOK(m2)
  BY <1>7, <1>10, <1>11, <1>12 DEF ChainsOK
<1> DEFINE f == [x \in KeysOf(m) \cup {k} |-> IF x = k THEN v ELSE DictOf(m)[x]]
<1>14. f \in [KeysOf(m2) -> Values]
  <2>1. KeysOf(m) \cup {k} = KeysOf(m2)
    BY <1>2, <1>12
  <2>2. \A x \in KeysOf(m) : DictOf(m)[x] \in Values
    BY DictIs
  <2>3. QED
    BY <1>12, <2>1, <2>2
<1>15. \A p \in Places(m2) : f[NodeAt(m2, p).key] = NodeAt(m2, p).value
  <2>1. SUFFICES ASSUME NEW p \in Places(m) PROVE f[NodeAt(m2, p).key] = NodeAt(m2, p).value
    BY <1>10
  <2>2. NodeAt(m, p).key \in KeysOf(m)
    BY DEF KeysOf
  <2>3. NodeAt(m, p).key = k <=> p = here
    BY <1>2 DEF ChainsOK
  <2>4. DictOf(m)[NodeAt(m, p).key] = NodeAt(m, p).value
    BY DictIs
  <2>5. QED
    BY <1>11, <2>2, <2>3, <2>4
<1> HIDE DEF f
<1>16. DictOf(m2) = f
  BY <1>13, <1>14, <1>15, DictOnly
<1>17. QED
  BY <1>13, <1>16 DEF f, WithKey

LEMMA JoinIs ==
  ASSUME NEW S, NEW p \in Seq(S), NEW q \in Seq(S)
  PROVE  /\ p \o q \in Seq(S) /\ Len(p \o q) = Len(p) + Len(q)
         /\ \A j \in 1..(Len(p) + Len(q)) : (p \o q)[j] = IF j <= Len(p) THEN p[j] ELSE q[j - Len(p)]
BY ConcatProperties

LEMMA RemoveIs ==
  ASSUME NEW S, NEW s \in Seq(S), NEW i \in 0..(Len(s) - 1)
  PROVE  /\ RemoveAt(s, i + 1) \in Seq(S) /\ Len(RemoveAt(s, i + 1)) = Len(s) - 1
         /\ \A j \in 1..(Len(s) - 1) : RemoveAt(s, i + 1)[j] = IF j <= i THEN s[j] ELSE s[j + 1]
<1> DEFINE n == Len(s)  p == SubSeq(s, 1, i)  q == SubSeq(s, i + 2, n)
<1>1. n \in Nat /\ i \in 0..(n - 1)
  OBVIOUS
<1>2. p \in Seq(S) /\ Len(p) = i /\ \A j \in 1..i : p[j] = s[j]
  <2>1. \A j \in 1..i : s[j] \in S
    BY <1>1
  <2>2. i - 1 + 1 = i /\ (~(1 <= i) => i = 0) /\ \A j \in 1..i : 1 + j - 1 = j
    BY <1>1
  <2>3. QED
    BY <2>1, <2>2, SubSeqProperties
<1>3. q \in Seq(S) /\ Len(q) = n - i - 1 /\ \A j \in 1..(n - i - 1) : q[j] = s[i + 1 + j]
  <2>1. \A j \in (i + 2)..n : s[j] \in S
    BY <1>1
  <2>2. i + 2 \in Int /\ n - (i + 2) + 1 = n - i - 1 /\ (~(i + 2 <= n) => n - i - 1 = 0)
        /\ \A j \in 1..(n - i - 1) : (i + 2) + j - 1 = i + 1 + j
    BY <1>1
  <2> HIDE DEF n
  <2>3. QED
    BY <1>1, <2>1, <2>2, SubSeqProperties
<1>4. RemoveAt(s, i + 1) = p \o q
  <2>1. (i + 1) - 1 = i /\ (i + 1) + 1 = i + 2
    OBVIOUS
  <2>2. QED
    BY <2>1 DEF RemoveAt
<1> HIDE DEF n, p, q
<1>5. /\ p \o q \in Seq(S) /\ Len(p \o q) = n - 1
      /\ \A j \in 1..(n - 1) : (p \o q)[j] = IF j <= i THEN p[j] ELSE q[j - i]
  <2>1. i + (n - i - 1) = n - 1
    BY <1>1
  <2>2. QED
    <3>1. i \in Nat /\ n - i - 1 \in Nat
      BY <1>1
    <3>2. /\ p \o q \in Seq(S) /\ Len(p \o q) = i + (n - i - 1)
          /\ \A j \in 1..(i + (n - i - 1)) : (p \o q)[j] = IF j <= i THEN p[j] ELSE q[j - i]
      <4>1. p \in Seq(S) /\ q \in Seq(S)
        BY <1>2, <1>3
      <4>2. /\ p \o q \in Seq(S) /\ Len(p \o q) = Len(p) + Len(q)
            /\ \A j \in 1..(Len(p) + Len(q)) : (p \o q)[j] = IF j <= Len(p) THEN p[j] ELSE q[j - Len(p)]
        BY <4>1, JoinIs
      <4>3. QED
        BY <1>2, <1>3, <4>2
    <3>3. QED
      BY <2>1, <3>2
<1>6. ASSUME NEW j \in 1..(n - 1)
      PROVE  (p \o q)[j] = IF j <= i THEN s[j] ELSE s[j + 1]
  <2>1. CASE j <= i
    <3>1. j \in 1..i
      BY <1>1, <2>1
    <3>2. QED
      BY <2>1, <3>1, <1>2, <1>5
  <2>2. CASE ~(j <= i)
    <3>1. j - i \in 1..(n - i - 1) /\ i + 1 + (j - i) = j + 1
      BY <1>1, <2>2
    <3>2. QED
      BY <2>2, <3>1, <1>3, <1>5
  <2>3. QED
    BY <2>1, <2>2
<1>7. QED
  BY <1>4, <1>5, <1>6 DEF n


\* m2 is m with a new node at the head of its chain.
HasNew(m2, m, k, v) ==
  /\ m2.num_buckets = m.num_buckets /\ m2.size = m.size + 1
  /\ m2.buckets = [m.buckets EXCEPT ![Hash[k] % m.num_buckets] =
                     <<[key |-> k, value |-> v, hash |-> Hash[k]]>> \o @]

LEMMA InsertKeeps ==
  ASSUME NEW m, ChainsOK(m), MapNumbers(m), NEW k \in Keys, NEW v \in Values, Position(m, k) = 0,
         NEW m2, HasNew(m2, m, k, v)
  PROVE  /\ ChainsOK(m2)
         /\ DictOf(m2) = WithKey(m, k, v)
<1> DEFINE b == Hash[k] % m.num_buckets
           node == [key |-> k, value |-> v, hash |-> Hash[k]]
           chain == m.buckets[b]
           w == <<node>> \o chain
           new == <<b, 1>>
<1>1. m.buckets \in [Indices(m.num_buckets) -> Seq(MapNode)]
  BY DEF ChainsOK
<1>2. b \in Indices(m.num_buckets) /\ k \notin KeysOf(m)
  BY PositionIs
<1> m2.num_buckets = m.num_buckets /\ m2.size = m.size + 1
  BY DEF HasNew
<1>3. m2.buckets = [m.buckets EXCEPT ![b] = w]
  BY DEF HasNew
<1>4. node \in MapNode /\ node.key = k /\ node.value = v /\ node.hash = Hash[k]
  BY HashMapAssumption DEF MapNode
<1>5. Hash[k] % m.num_buckets = b
  OBVIOUS
<1> HIDE DEF b, node
<1>6. chain \in Seq(MapNode)
  BY <1>1, <1>2
<1>7. /\ w \in Seq(MapNode) /\ Len(w) = Len(chain) + 1 /\ w[1] = node
      /\ \A j \in 1..Len(chain) : w[j + 1] = chain[j]
  <2>1. <<node>> \in Seq(MapNode) /\ Len(<<node>>) = 1 /\ <<node>>[1] = node /\ Len(chain) \in Nat
    BY <1>4, <1>6
  <2> HIDE DEF chain
  <2>2. /\ w \in Seq(MapNode) /\ Len(w) = Len(<<node>>) + Len(chain)
        /\ \A j \in 1..(Len(<<node>>) + Len(chain)) :
             w[j] = IF j <= Len(<<node>>) THEN <<node>>[j] ELSE chain[j - Len(<<node>>)]
    BY <1>6, <2>1, JoinIs
  <2> HIDE DEF w
  <2>3. 1 \in 1..(1 + Len(chain)) /\ 1 <= 1
    BY <2>1
  <2>4. ASSUME NEW j \in 1..Len(chain) PROVE w[j + 1] = chain[j]
    <3>1. j + 1 \in 1..(1 + Len(chain)) /\ ~(j + 1 <= 1) /\ (j + 1) - 1 = j
      BY <2>1
    <3>2. QED
      BY <2>1, <2>2, <3>1
  <2>5. QED
    BY <2>1, <2>2, <2>3, <2>4
<1> HIDE DEF w
<1>8. m2.buckets \in [Indices(m2.num_buckets) -> Seq(MapNode)]
  BY <1>1, <1>3, <1>7
<1>9. \A c \in Indices(m.num_buckets) : m2.buckets[c] = IF c = b THEN w ELSE m.buckets[c]
  BY <1>1, <1>3
<1>30. /\ \A c \in Indices(m.num_buckets) : \A j \in 1..Len(m.buckets[c]) :
           <<c, j>> \in Places(m) /\ NodeAt(m, <<c, j>>) = m.buckets[c][j]
      /\ \A p \in Places(m) : p = <<p[1], p[2]>> /\ p[1] \in Indices(m.num_buckets) /\ p[2] \in 1..Len(m.buckets[p[1]])
  BY ONLY <1>1, PlacesAre
<1>31. /\ \A c \in Indices(m2.num_buckets) : \A j \in 1..Len(m2.buckets[c]) :
           <<c, j>> \in Places(m2) /\ NodeAt(m2, <<c, j>>) = m2.buckets[c][j]
      /\ \A p \in Places(m2) :
           /\ p = <<p[1], p[2]>> /\ p[1] \in Indices(m2.num_buckets) /\ p[2] \in 1..Len(m2.buckets[p[1]])
           /\ NodeAt(m2, p) = m2.buckets[p[1]][p[2]]
  BY ONLY <1>8, PlacesAre
<1> DEFINE Q == Places(m2) \ {new}
           At(q) == IF q[1] = b THEN <<b, q[2] - 1>> ELSE q
           g == [q \in Q |-> At(q)]
<1>10. new \in Places(m2) /\ NodeAt(m2, new) = node /\ new[1] = b
  <2>1. b \in Indices(m2.num_buckets) /\ 1 \in 1..Len(m2.buckets[b]) /\ m2.buckets[b][1] = node
    <3>1. Len(chain) \in Nat
      BY <1>6
    <3>2. 1 \in 1..Len(w)
      BY <1>7, <3>1
    <3>3. m2.buckets[b] = w
      BY <1>2, <1>9
    <3>4. QED
      BY <1>2, <1>7, <3>2, <3>3
  <2>2. QED
    BY <1>31, <2>1
<1>11. ASSUME NEW q \in Q
       PROVE  /\ q = <<q[1], q[2]>> /\ g[q] = At(q) /\ g[q] \in Places(m) /\ g[q][1] = q[1]
              /\ q[2] \in Nat /\ g[q][2] = (IF q[1] = b THEN q[2] - 1 ELSE q[2])
              /\ NodeAt(m2, q) = NodeAt(m, g[q])
  <2>1. /\ q = <<q[1], q[2]>> /\ q[1] \in Indices(m.num_buckets) /\ q[2] \in 1..Len(m2.buckets[q[1]])
        /\ NodeAt(m2, q) = m2.buckets[q[1]][q[2]]
    BY <1>31
  <2>2. CASE q[1] = b
    <3>1. q[2] # 1
      BY <2>1, <2>2
    <3>2. q[2] \in 1..Len(w) /\ NodeAt(m2, q) = w[q[2]]
      BY <1>9, <2>1, <2>2
    <3>3. Len(chain) \in Nat
      BY <1>6
    <3>4. q[2] - 1 \in 1..Len(chain) /\ (q[2] - 1) + 1 = q[2]
      BY <1>7, <3>1, <3>2, <3>3
    <3>5. NodeAt(m2, q) = chain[q[2] - 1]
      BY <1>7, <3>2, <3>4
    <3>6. <<b, q[2] - 1>> \in Places(m) /\ NodeAt(m, <<b, q[2] - 1>>) = chain[q[2] - 1]
      BY <1>2, <1>30, <3>4
    <3>7. g[q] = <<b, q[2] - 1>>
      BY <2>2
    <3> HIDE DEF g
    <3>8. QED
      BY <2>1, <2>2, <3>2, <3>5, <3>6, <3>7
  <2>3. CASE q[1] # b
    <3>1. q[2] \in 1..Len(m.buckets[q[1]]) /\ NodeAt(m2, q) = m.buckets[q[1]][q[2]]
      BY <1>9, <2>1, <2>3
    <3>2. <<q[1], q[2]>> \in Places(m) /\ NodeAt(m, <<q[1], q[2]>>) = m.buckets[q[1]][q[2]]
      BY <1>30, <2>1, <3>1
    <3>3. g[q] = q
      BY <2>3
    <3>4. q \in Places(m) /\ NodeAt(m, q) = NodeAt(m2, q)
      BY <2>1, <3>1, <3>2
    <3>5. q[2] \in Nat
      BY <3>1
    <3>6. g[q] = At(q)
      OBVIOUS
    <3> HIDE DEF g
    <3>7. QED
      BY <2>1, <2>3, <3>3, <3>4, <3>5, <3>6
  <2>4. QED
    BY <2>2, <2>3
<1>12. \A q, r \in Q : g[q] = g[r] => q = r
  <2> SUFFICES ASSUME NEW q \in Q, NEW r \in Q, g[q] = g[r] PROVE q = r
    OBVIOUS
  <2> HIDE DEF g, Q, At
  <2>1. q[1] = r[1]
    BY <1>11
  <2>2. q[2] = r[2]
    BY <1>11, <2>1
  <2>3. QED
    BY <1>11, <2>1, <2>2
<1>13. \A p \in Places(m) : \E q \in Q : g[q] = p
  <2> SUFFICES ASSUME NEW p \in Places(m) PROVE \E q \in Q : g[q] = p
    OBVIOUS
  <2>1. p = <<p[1], p[2]>> /\ p[1] \in Indices(m.num_buckets) /\ p[2] \in 1..Len(m.buckets[p[1]])
    BY <1>30
  <2>2. CASE p[1] = b
    <3> DEFINE q == <<b, p[2] + 1>>
    <3>1. p[2] + 1 \in 1..Len(w) /\ p[2] + 1 # 1 /\ (p[2] + 1) - 1 = p[2]
      BY <1>6, <1>7, <2>1, <2>2
    <3>2. q \in Places(m2)
      <4>1. b \in Indices(m2.num_buckets) /\ p[2] + 1 \in 1..Len(m2.buckets[b])
        BY <1>2, <1>9, <3>1
      <4>2. QED
        BY <1>31, <4>1
    <3>3. q \in Q /\ q[1] = b /\ q[2] = p[2] + 1
      BY <3>1, <3>2
    <3>4. At(q) = p
      BY <2>1, <2>2, <3>1, <3>3
    <3> HIDE DEF q, Q, At
    <3>5. QED
      BY <3>3, <3>4
  <2>3. CASE p[1] # b
    <3>1. p \in Places(m2)
      <4>1. p[1] \in Indices(m2.num_buckets) /\ p[2] \in 1..Len(m2.buckets[p[1]])
        BY <1>9, <2>1, <2>3
      <4>2. QED
        BY <1>31, <2>1, <4>1
    <3>2. p \in Q /\ At(p) = p
      BY <1>10, <2>3, <3>1
    <3> HIDE DEF Q, At
    <3>3. QED
      BY <3>2
  <2>4. QED
    BY <2>2, <2>3
<1>14. /\ \A q \in Q : NodeAt(m2, q).hash = Hash[NodeAt(m2, q).key]
       /\ \A q, r \in Q : NodeAt(m2, q).key = NodeAt(m2, r).key => q = r
  <2>1. g \in [Q -> Places(m)]
    <3>1. \A q \in Q : At(q) \in Places(m)
      BY <1>11
    <3>2. QED
      BY <3>1
  <2>2. \A q \in Q : NodeAt(m2, q).key = NodeAt(m, g[q]).key /\ NodeAt(m2, q).hash = NodeAt(m, g[q]).hash
    BY <1>11
  <2> HIDE DEF g, Q, At
  <2>3. \A q \in Q : g[q] \in Places(m)
    BY <2>1
  <2>4. QED
    BY <1>12, <2>2, <2>3 DEF ChainsOK
<1>15. \A q \in Q : NodeAt(m2, q).hash % m2.num_buckets = q[1] /\ NodeAt(m2, q).key \in KeysOf(m)
  <2>1. SUFFICES ASSUME NEW q \in Q
                 PROVE  NodeAt(m2, q).hash % m2.num_buckets = q[1] /\ NodeAt(m2, q).key \in KeysOf(m)
    OBVIOUS
  <2>2. g[q] \in Places(m) /\ g[q][1] = q[1] /\ NodeAt(m2, q) = NodeAt(m, g[q])
    BY <1>11
  <2> HIDE DEF g, Q, At
  <2>3. NodeAt(m, g[q]).hash % m.num_buckets = g[q][1]
    BY <2>2 DEF ChainsOK
  <2>4. QED
    BY <2>2, <2>3 DEF KeysOf
<1>16. Places(m2) = Q \cup {new}
  BY <1>10
<1>17. KeysOf(m2) = KeysOf(m) \cup {k}
  <2>1. \A q \in Q : NodeAt(m2, q) = NodeAt(m, g[q])
    BY <1>11
  <2> HIDE DEF g, Q, At
  <2>2. \A x \in KeysOf(m) : x \in KeysOf(m2)
    BY <1>13, <1>16, <2>1 DEF KeysOf
  <2>3. \A x \in KeysOf(m2) : x \in KeysOf(m) \cup {k}
    BY <1>4, <1>10, <1>15, <1>16 DEF KeysOf
  <2>4. k \in KeysOf(m2)
    BY <1>4, <1>10 DEF KeysOf
  <2>5. QED
    BY <2>2, <2>3, <2>4
<1> HIDE DEF Q, g
<1>18. ChainsOK(m2)
  <2>1. \A p \in Places(m2) : /\ NodeAt(m2, p).hash = Hash[NodeAt(m2, p).key]
                              /\ NodeAt(m2, p).hash % m2.num_buckets = p[1]
    BY <1>4, <1>5, <1>10, <1>14, <1>15, <1>16
  <2>2. \A p, q \in Places(m2) : NodeAt(m2, p).key = NodeAt(m2, q).key => p = q
    BY <1>2, <1>4, <1>10, <1>14, <1>15, <1>16
  <2>3. IsFiniteSet(KeysOf(m2)) /\ Cardinality(KeysOf(m2)) = m2.size
    <3>1. IsFiniteSet(KeysOf(m)) /\ Cardinality(KeysOf(m)) = m.size
      BY DEF ChainsOK
    <3>2. QED
      BY <1>2, <1>17, <3>1, FS_AddElement
  <2>4. QED
    BY <1>8, <2>1, <2>2, <2>3 DEF ChainsOK
<1> DEFINE f == [x \in KeysOf(m) \cup {k} |-> IF x = k THEN v ELSE DictOf(m)[x]]
<1>19. f \in [KeysOf(m2) -> Values]
  <2>1. \A x \in KeysOf(m) : DictOf(m)[x] \in Values
    BY DictIs
  <2>2. QED
    BY <1>17, <2>1
<1>20. \A p \in Places(m2) : f[NodeAt(m2, p).key] = NodeAt(m2, p).value
  <2>1. ASSUME NEW q \in Q PROVE f[NodeAt(m2, q).key] = NodeAt(m2, q).value
    <3>1. NodeAt(m2, q).key \in KeysOf(m) /\ NodeAt(m2, q).key # k
      BY <1>2, <1>15
    <3>2. g[q] \in Places(m) /\ NodeAt(m2, q) = NodeAt(m, g[q])
      BY <1>11
    <3>3. DictOf(m)[NodeAt(m2, q).key] = NodeAt(m2, q).value
      BY <3>2, DictIs
    <3>4. QED
      BY <3>1, <3>3
  <2>2. f[NodeAt(m2, new).key] = NodeAt(m2, new).value
    BY <1>4, <1>10
  <2> HIDE DEF f
  <2>3. QED
    BY <1>16, <2>1, <2>2
<1> HIDE DEF f
<1>21. DictOf(m2) = f
  BY <1>18, <1>19, <1>20, DictOnly
<1>22. QED
  BY <1>18, <1>21 DEF f, WithKey

\* A node taken out of its chain.
LEMMA UnlinkKeeps ==
  ASSUME NEW m, ChainsOK(m), MapNumbers(m), NEW k \in Keys, Position(m, k) # 0,
         NEW m2, m2.num_buckets = m.num_buckets, m2.size = m.size - 1,
         m2.buckets = [m.buckets EXCEPT ![Hash[k] % m.num_buckets] = RemoveAt(@, Position(m, k))]
  PROVE  /\ ChainsOK(m2)
         /\ DictOf(m2) = [x \in KeysOf(m) \ {k} |-> DictOf(m)[x]]
<1> DEFINE b == Hash[k] % m.num_buckets
           i == Position(m, k)
           chain == m.buckets[b]
           w == RemoveAt(chain, i)
           here == <<b, i>>
<1>1. m.buckets \in [Indices(m.num_buckets) -> Seq(MapNode)]
  BY DEF ChainsOK
<1>2. /\ b \in Indices(m.num_buckets) /\ i \in Nat /\ i # 0 /\ k \in KeysOf(m)
      /\ here \in Places(m) /\ NodeAt(m, here).key = k
  BY PositionIs
<1>3. m2.buckets = [m.buckets EXCEPT ![b] = w]
  OBVIOUS
<1> HIDE DEF b, i
<1>4. chain \in Seq(MapNode) /\ Len(chain) \in Nat
  BY <1>1, <1>2
<1>5. /\ \A c \in Indices(m.num_buckets) : \A j \in 1..Len(m.buckets[c]) :
           <<c, j>> \in Places(m) /\ NodeAt(m, <<c, j>>) = m.buckets[c][j]
      /\ \A p \in Places(m) :
           /\ p = <<p[1], p[2]>> /\ p[1] \in Indices(m.num_buckets) /\ p[2] \in 1..Len(m.buckets[p[1]])
           /\ NodeAt(m, p) = m.buckets[p[1]][p[2]]
  BY ONLY <1>1, PlacesAre
<1>6. i \in 1..Len(chain)
  BY <1>2, <1>5
<1>7. /\ w \in Seq(MapNode) /\ Len(w) = Len(chain) - 1
      /\ \A j \in 1..Len(w) : w[j] = IF j < i THEN chain[j] ELSE chain[j + 1]
  <2> DEFINE n == Len(chain)  before == i - 1
  <2>1. before \in 0..(n - 1) /\ before + 1 = i /\ \A j \in Int : j <= before <=> j < i
    BY <1>4, <1>6
  <2> HIDE DEF chain, before
  <2>2. /\ RemoveAt(chain, before + 1) \in Seq(MapNode) /\ Len(RemoveAt(chain, before + 1)) = n - 1
        /\ \A j \in 1..(n - 1) : RemoveAt(chain, before + 1)[j] = IF j <= before THEN chain[j] ELSE chain[j + 1]
    BY <1>4, <2>1, RemoveIs
  <2> HIDE DEF n
  <2>3. w \in Seq(MapNode) /\ Len(w) = n - 1 /\ \A j \in 1..(n - 1) : w[j] = IF j <= before THEN chain[j] ELSE chain[j + 1]
    BY <2>1, <2>2
  <2> HIDE DEF w
  <2>4. QED
    BY <2>1, <2>3 DEF n
<1> HIDE DEF w
<1>8. m2.buckets \in [Indices(m2.num_buckets) -> Seq(MapNode)]
  BY <1>1, <1>3, <1>7
<1>9. \A c \in Indices(m.num_buckets) : m2.buckets[c] = IF c = b THEN w ELSE m.buckets[c]
  BY <1>1, <1>3
<1>10. /\ \A c \in Indices(m2.num_buckets) : \A j \in 1..Len(m2.buckets[c]) :
            <<c, j>> \in Places(m2) /\ NodeAt(m2, <<c, j>>) = m2.buckets[c][j]
       /\ \A p \in Places(m2) :
            /\ p = <<p[1], p[2]>> /\ p[1] \in Indices(m2.num_buckets) /\ p[2] \in 1..Len(m2.buckets[p[1]])
            /\ NodeAt(m2, p) = m2.buckets[p[1]][p[2]]
  BY ONLY <1>8, PlacesAre
<1> DEFINE Q == Places(m2)
           At(q) == IF q[1] = b /\ ~(q[2] < i) THEN <<b, q[2] + 1>> ELSE q
           g == [q \in Q |-> At(q)]
<1>11. ASSUME NEW q \in Q
       PROVE  /\ q = <<q[1], q[2]>> /\ g[q] = At(q) /\ g[q] \in Places(m) /\ g[q] # here /\ g[q][1] = q[1]
              /\ q[2] \in Nat /\ g[q][2] = (IF q[1] = b /\ ~(q[2] < i) THEN q[2] + 1 ELSE q[2])
              /\ NodeAt(m2, q) = NodeAt(m, g[q])
  <2>1. /\ q = <<q[1], q[2]>> /\ q[1] \in Indices(m.num_buckets) /\ q[2] \in 1..Len(m2.buckets[q[1]])
        /\ NodeAt(m2, q) = m2.buckets[q[1]][q[2]]
    BY <1>10
  <2>2. CASE q[1] = b
    <3>1. q[2] \in 1..Len(w) /\ NodeAt(m2, q) = w[q[2]]
      BY <1>9, <2>1, <2>2
    <3>2. q[2] \in 1..(Len(chain) - 1) /\ q[2] \in 1..Len(chain) /\ q[2] + 1 \in 1..Len(chain) /\ q[2] \in Nat
      BY <1>4, <1>7, <3>1
    <3>3. /\ <<b, q[2]>> \in Places(m) /\ NodeAt(m, <<b, q[2]>>) = chain[q[2]]
          /\ <<b, q[2] + 1>> \in Places(m) /\ NodeAt(m, <<b, q[2] + 1>>) = chain[q[2] + 1]
      BY <1>2, <1>5, <3>2
    <3>4. CASE q[2] < i
      <4>1. g[q] = q /\ At(q) = q
        BY <3>4
      <4>2. q = <<b, q[2]>> /\ NodeAt(m2, q) = chain[q[2]] /\ q # here
        BY <1>2, <1>7, <2>1, <2>2, <3>1, <3>2, <3>4
      <4>3. q \in Places(m) /\ NodeAt(m, q) = chain[q[2]]
        BY <3>3, <4>2
      <4> HIDE DEF g, At
      <4>4. QED
        BY <2>1, <3>2, <3>4, <4>1, <4>2, <4>3
    <3>5. CASE ~(q[2] < i)
      <4> DEFINE p == <<b, q[2] + 1>>
      <4>1. g[q] = p /\ At(q) = p
        BY <2>2, <3>5
      <4>2. p # here /\ p[1] = b /\ p[2] = q[2] + 1
        BY <1>2, <3>2, <3>5
      <4>3. NodeAt(m2, q) = NodeAt(m, p) /\ p \in Places(m)
        BY <1>7, <3>1, <3>3, <3>5
      <4> HIDE DEF g, At, p
      <4>4. QED
        BY <2>1, <2>2, <3>2, <3>5, <4>1, <4>2, <4>3
    <3>6. QED
      BY <3>4, <3>5
  <2>3. CASE q[1] # b
    <3>1. q[2] \in 1..Len(m.buckets[q[1]]) /\ NodeAt(m2, q) = m.buckets[q[1]][q[2]]
      BY <1>9, <2>1, <2>3
    <3>2. <<q[1], q[2]>> \in Places(m) /\ NodeAt(m, <<q[1], q[2]>>) = m.buckets[q[1]][q[2]]
      BY <1>5, <2>1, <3>1
    <3>3. g[q] = q /\ At(q) = q
      BY <2>3
    <3>4. q \in Places(m) /\ NodeAt(m, q) = NodeAt(m2, q) /\ q # here
      BY <2>1, <2>3, <3>1, <3>2
    <3>5. q[2] \in Nat
      BY <3>1
    <3> HIDE DEF g, At
    <3>6. QED
      BY <2>1, <2>3, <3>3, <3>4, <3>5
  <2>4. QED
    BY <2>2, <2>3
<1>12. \A q, r \in Q : g[q] = g[r] => q = r
  <2> SUFFICES ASSUME NEW q \in Q, NEW r \in Q, g[q] = g[r] PROVE q = r
    OBVIOUS
  <2> HIDE DEF g, Q, At
  <2>1. q[1] = r[1]
    BY <1>11
  <2>2. q[2] = r[2]
    BY <1>2, <1>11, <2>1
  <2>3. QED
    BY <1>11, <2>1, <2>2
<1>13. \A p \in Places(m) \ {here} : \E q \in Q : g[q] = p
  <2> SUFFICES ASSUME NEW p \in Places(m) \ {here} PROVE \E q \in Q : g[q] = p
    OBVIOUS
  <2>1. p = <<p[1], p[2]>> /\ p[1] \in Indices(m.num_buckets) /\ p[2] \in 1..Len(m.buckets[p[1]])
    BY <1>5
  <2>2. CASE p[1] = b
    <3> DEFINE j == IF p[2] < i THEN p[2] ELSE p[2] - 1
               q == <<b, j>>
    <3>1. p[2] # i /\ p[2] \in 1..Len(chain)
      BY <2>1, <2>2
    <3>2. j \in 1..Len(w) /\ (IF ~(j < i) THEN j + 1 ELSE j) = p[2]
      BY <1>2, <1>4, <1>6, <1>7, <3>1
    <3> HIDE DEF j
    <3>3. q \in Q /\ q[1] = b /\ q[2] = j
      <4>1. b \in Indices(m2.num_buckets) /\ j \in 1..Len(m2.buckets[b])
        BY <1>2, <1>9, <3>2
      <4>2. QED
        BY <1>10, <4>1
    <3>4. At(q) = p
      BY <2>1, <2>2, <3>2, <3>3
    <3> HIDE DEF q, Q, At
    <3>5. QED
      BY <3>3, <3>4
  <2>3. CASE p[1] # b
    <3>1. p \in Places(m2)
      <4>1. p[1] \in Indices(m2.num_buckets) /\ p[2] \in 1..Len(m2.buckets[p[1]])
        BY <1>9, <2>1, <2>3
      <4>2. QED
        BY <1>10, <2>1, <4>1
    <3>2. p \in Q /\ At(p) = p
      BY <2>3, <3>1
    <3> HIDE DEF Q, At
    <3>3. QED
      BY <3>2
  <2>4. QED
    BY <2>2, <2>3
<1>14. g \in [Q -> Places(m)] /\ \A q \in Q : NodeAt(m2, q) = NodeAt(m, g[q]) /\ g[q] # here /\ g[q][1] = q[1]
  <2>1. \A q \in Q : At(q) \in Places(m)
    BY <1>11
  <2>2. \A q \in Q : NodeAt(m2, q) = NodeAt(m, g[q]) /\ g[q] # here /\ g[q][1] = q[1]
    BY <1>11
  <2>3. QED
    BY <2>1, <2>2
<1> HIDE DEF g, At, Q
<1>15. ASSUME NEW q \in Q
       PROVE  /\ NodeAt(m2, q).hash = Hash[NodeAt(m2, q).key]
              /\ NodeAt(m2, q).hash % m2.num_buckets = q[1]
              /\ NodeAt(m2, q).key \in KeysOf(m) /\ NodeAt(m2, q).key # k
              /\ DictOf(m)[NodeAt(m2, q).key] = NodeAt(m2, q).value
  <2>1. g[q] \in Places(m) /\ g[q] # here /\ NodeAt(m2, q) = NodeAt(m, g[q]) /\ g[q][1] = q[1]
    BY <1>14
  <2>2. NodeAt(m, g[q]).hash = Hash[NodeAt(m, g[q]).key] /\ NodeAt(m, g[q]).hash % m.num_buckets = g[q][1]
    BY <2>1 DEF ChainsOK
  <2>3. NodeAt(m, g[q]).key # k
    BY <1>2, <2>1 DEF ChainsOK
  <2>4. DictOf(m)[NodeAt(m, g[q]).key] = NodeAt(m, g[q]).value
    BY <2>1, DictIs
  <2>5. NodeAt(m, g[q]).key \in KeysOf(m)
    BY <2>1 DEF KeysOf
  <2>6. QED
    BY <2>1, <2>2, <2>3, <2>4, <2>5
<1>16. \A q, r \in Q : NodeAt(m2, q).key = NodeAt(m2, r).key => q = r
  <2>1. \A q \in Q : g[q] \in Places(m)
    BY <1>14
  <2>2. QED
    BY <1>12, <1>14, <2>1 DEF ChainsOK
<1>17. KeysOf(m2) = KeysOf(m) \ {k}
  <2>1. \A x \in KeysOf(m2) : x \in KeysOf(m) /\ x # k
    BY <1>15 DEF KeysOf, Q
  <2>2. ASSUME NEW x \in KeysOf(m), x # k PROVE x \in KeysOf(m2)
    <3>1. PICK p \in Places(m) : NodeAt(m, p).key = x
      BY DEF KeysOf
    <3>2. p \in Places(m) \ {here}
      BY <1>2, <2>2, <3>1
    <3>3. PICK q \in Q : g[q] = p
      BY <1>13, <3>2
    <3>4. q \in Places(m2) /\ NodeAt(m2, q).key = x
      BY <1>14, <3>1, <3>3 DEF Q
    <3>5. QED
      BY <3>4 DEF KeysOf
  <2>3. QED
    BY <2>1, <2>2
<1>18. ChainsOK(m2)
  <2>1. IsFiniteSet(KeysOf(m)) /\ Cardinality(KeysOf(m)) = m.size
    BY DEF ChainsOK
  <2>2. IsFiniteSet(KeysOf(m2)) /\ Cardinality(KeysOf(m2)) = m2.size
    BY <1>2, <1>17, <2>1, FS_RemoveElement
  <2>3. \A p \in Places(m2) : /\ NodeAt(m2, p).hash = Hash[NodeAt(m2, p).key]
                              /\ NodeAt(m2, p).hash % m2.num_buckets = p[1]
    BY <1>15 DEF Q
  <2>4. \A p, q \in Places(m2) : NodeAt(m2, p).key = NodeAt(m2, q).key => p = q
    BY <1>16 DEF Q
  <2>5. QED
    BY <1>8, <2>2, <2>3, <2>4 DEF ChainsOK
<1> DEFINE f == [x \in KeysOf(m) \ {k} |-> DictOf(m)[x]]
<1>19. f \in [KeysOf(m2) -> Values]
  <2>1. \A x \in KeysOf(m) : DictOf(m)[x] \in Values
    BY DictIs
  <2>2. QED
    BY <1>17, <2>1
<1>20. \A p \in Places(m2) : f[NodeAt(m2, p).key] = NodeAt(m2, p).value
  BY <1>15 DEF Q
<1> HIDE DEF f
<1>21. DictOf(m2) = f
  BY <1>18, <1>19, <1>20, DictOnly
<1>22. QED
  BY <1>18, <1>21 DEF f

-----------------------------------------------------------------------------
(* The map is a dictionary. *)

\* Growth changes nothing that the client sees.
LEMMA EnsureKeepsTheDictionary ==
  ASSUME NEW m, ChainsOK(m), MapNumbers(m), NEW wanted
  PROVE  /\ ChainsOK(Ensure(m, wanted))
         /\ KeysOf(Ensure(m, wanted)) = KeysOf(m) /\ DictOf(Ensure(m, wanted)) = DictOf(m)
<1> DEFINE n == Min({m.num_buckets * 2, MaxBuckets})
           e == Ensure(m, wanted)
<1>1. /\ m.num_buckets \in Nat /\ 0 < m.num_buckets /\ m.num_buckets <= MaxBuckets /\ MaxBuckets \in Nat
      /\ m = [buckets |-> m.buckets, size |-> m.size, num_buckets |-> m.num_buckets,
              fill_capacity |-> m.fill_capacity]
  BY SizesAreEven, SizesAssumption DEF MapNumbers
<1>2. n \in Nat \ {0}
  <2>1. m.num_buckets * 2 \in Nat /\ m.num_buckets * 2 > 0
    BY <1>1
  <2>2. QED
    BY <1>1, <2>1, MinOfTwo
<1>3. e = m \/ e = [m EXCEPT !.buckets = Rehash(m, n), !.num_buckets = n, !.fill_capacity = FillCapacity(n)]
  BY DEF Ensure
<1> HIDE DEF n, e
<1>4. CASE e = m
  BY <1>4 DEF e
<1>5. CASE e = [m EXCEPT !.buckets = Rehash(m, n), !.num_buckets = n, !.fill_capacity = FillCapacity(n)]
  <2>1. e.buckets = Rehash(m, n) /\ e.num_buckets = n /\ e.size = m.size
    BY <1>1, <1>5
  <2>2. ChainsOK(e) /\ KeysOf(e) = KeysOf(m) /\ DictOf(e) = DictOf(m)
    BY ONLY ChainsOK(m), <1>1, <1>2, <2>1, RehashKeeps
  <2>3. QED
    BY <2>2 DEF e
<1>6. QED
  BY <1>3, <1>4, <1>5

\* The part of map_put behind it sets the key, or leaves out a new one.
LEMMA PutIntoSets ==
  ASSUME NEW m, ChainsOK(m), MapNumbers(m), NEW k \in Keys, NEW v \in Values, PutInto(m, k, v)
  PROVE  /\ ChainsOK(map')
         /\ \/ DictOf(map') = WithKey(m, k, v)
            \/ DictOf(map') = DictOf(m)
<1>1. m = [buckets |-> m.buckets, size |-> m.size, num_buckets |-> m.num_buckets,
           fill_capacity |-> m.fill_capacity]
  BY DEF MapNumbers
<1>2. CASE Replace(m, k, v)
  <2>1. map' = [m EXCEPT !.buckets[Hash[k] % m.num_buckets] = ValueSet(@, Position(m, k), v)]
    BY <1>2 DEF Replace
  <2>2. /\ map'.buckets = [m.buckets EXCEPT ![Hash[k] % m.num_buckets] = ValueSet(@, Position(m, k), v)]
        /\ map'.num_buckets = m.num_buckets /\ map'.size = m.size
    BY <1>1, <2>1
  <2>3. Position(m, k) # 0
    BY <1>2 DEF Replace
  <2>4. ASSUME NEW m2, m2.num_buckets = m.num_buckets, m2.size = m.size,
               m2.buckets = [m.buckets EXCEPT ![Hash[k] % m.num_buckets] = ValueSet(@, Position(m, k), v)]
        PROVE  ChainsOK(m2) /\ DictOf(m2) = WithKey(m, k, v)
    BY ONLY ChainsOK(m), MapNumbers(m), k \in Keys, v \in Values, <2>3, <2>4, ReplaceKeeps
  <2>5. QED
    BY <2>2, <2>4
<1>3. CASE Insert(m, k, v)
  <2>1. map' = [m EXCEPT !.buckets[Hash[k] % m.num_buckets] =
                           <<[key |-> k, value |-> v, hash |-> Hash[k]]>> \o @,
                         !.size = @ + 1]
    BY <1>3 DEF Insert
  <2>2. /\ map'.buckets = [m.buckets EXCEPT ![Hash[k] % m.num_buckets] =
                             <<[key |-> k, value |-> v, hash |-> Hash[k]]>> \o @]
        /\ map'.num_buckets = m.num_buckets /\ map'.size = m.size + 1
    BY <1>1, <2>1
  <2>3. Position(m, k) = 0
    BY <1>3 DEF Insert
  <2>4. HasNew(map', m, k, v)
    BY <2>2 DEF HasNew
  <2>5. ASSUME NEW m2, HasNew(m2, m, k, v)
        PROVE  ChainsOK(m2) /\ DictOf(m2) = WithKey(m, k, v)
    BY ONLY ChainsOK(m), MapNumbers(m), k \in Keys, v \in Values, <2>3, <2>5, InsertKeeps
  <2>6. QED
    BY <2>4, <2>5
<1>4. CASE InsertFails(m, k)
  BY <1>4 DEF InsertFails
<1>5. QED
  BY <1>2, <1>3, <1>4 DEF PutInto

LEMMA DictIsSeen == dict = (IF map = None THEN None ELSE DictOf(map))
  BY DEF dict, DictOf

LEMMA PutIsPut ==
  ASSUME map # None, ChainsOK(map), map' # None, NEW k \in Keys, NEW v \in Values,
         DictOf(map') = [x \in KeysOf(map) \cup {k} |-> IF x = k THEN v ELSE DictOf(map)[x]]
  PROVE  D!Next
<1>1. dict = DictOf(map) /\ dict' = DictOf(map') /\ DOMAIN DictOf(map) = KeysOf(map) /\ dict # None
  <2>1. DictOf(map) \in [KeysOf(map) -> Values] /\ DictOf(map) # None
    BY DictIs
  <2>2. dict = DictOf(map) /\ dict' = DictOf(map')
    BY DEF dict, DictOf
  <2>3. QED
    BY <2>1, <2>2
<1>2. dict' = [x \in DOMAIN dict \cup {k} |-> IF x = k THEN v ELSE dict[x]]
  BY <1>1
<1>3. D!Put
  BY <1>2 DEF D!Put
<1>4. QED
  BY <1>1, <1>3 DEF D!Next

LEMMA MapPutIsPut ==
  ASSUME map # None, ChainsOK(map), MapNumbers(map), NEW k \in Keys, NEW v \in Values, MapPut(k, v), map' # None
  PROVE  ChainsOK(map') /\ (D!Next \/ DictOf(map') = DictOf(map))
<1>1. ASSUME NEW m, ChainsOK(m), MapNumbers(m), KeysOf(m) = KeysOf(map), DictOf(m) = DictOf(map), PutInto(m, k, v)
      PROVE  ChainsOK(map') /\ (D!Next \/ DictOf(map') = DictOf(map))
  <2>1. /\ ChainsOK(map')
        /\ \/ DictOf(map') = [x \in KeysOf(m) \cup {k} |-> IF x = k THEN v ELSE DictOf(m)[x]]
           \/ DictOf(map') = DictOf(m)
    BY <1>1, PutIntoSets DEF WithKey
  <2>2. QED
    BY <1>1, <2>1, PutIsPut
<1>2. CASE Put(k, v) \/ PutRefusedGrowth(k, v)
  BY <1>1, <1>2 DEF Put, PutRefusedGrowth
<1>3. CASE PutGrows(k, v)
  <2>1. MustGrow(map) /\ ~EnsureLoops(map, map.size + 1) /\ PutInto(Ensure(map, map.size + 1), k, v)
    BY <1>3 DEF PutGrows
  <2>2. MapNumbers(Ensure(map, map.size + 1))
    BY <2>1, EnsureMakesRoom
  <2>3. /\ ChainsOK(Ensure(map, map.size + 1)) /\ KeysOf(Ensure(map, map.size + 1)) = KeysOf(map)
        /\ DictOf(Ensure(map, map.size + 1)) = DictOf(map)
    BY EnsureKeepsTheDictionary
  <2>4. QED
    BY <1>1, <2>1, <2>2, <2>3
<1>4. CASE PutHangs(k, v)
  BY <1>4 DEF PutHangs
<1>5. QED
  BY <1>2, <1>3, <1>4 DEF MapPut

DictInv == Inv /\ (map # None => ChainsOK(map))

LEMMA StepIsOfADictionary == DictInv /\ [MapNext]_mapVars => DictInv' /\ [D!Next]_dict
<1> SUFFICES ASSUME DictInv, [MapNext]_mapVars
             PROVE  DictInv' /\ [D!Next]_dict
  OBVIOUS
<1>1. Inv' /\ (map # None => ChainsOK(map) /\ MapNumbers(map))
  BY StepKeeps DEF DictInv, Inv, IInv
<1>2. (map # None => dict = DictOf(map) /\ dict # None) /\ (map = None => dict = None)
  <2>1. map # None => DictOf(map) # None
    BY <1>1, DictIs
  <2>2. QED
    BY <2>1, DictIsSeen
<1>3. (map' # None => dict' = DictOf(map')) /\ (map' = None => dict' = None)
  BY DEF dict, DictOf
<1>4. SUFFICES (map' # None => ChainsOK(map')) /\ [D!Next]_dict
  BY <1>1 DEF DictInv
<1>5. CASE map' = None
  <2>1. CASE map = None
    BY <1>2, <1>3, <1>5, <2>1
  <2>2. CASE map # None
    BY <1>2, <1>3, <1>5, <2>2 DEF D!Next, D!Destroy
  <2>3. QED
    BY <1>5, <2>1, <2>2
<1>6. CASE map' # None /\ UNCHANGED map
  BY <1>1, <1>2, <1>3, <1>6
<1>7. ASSUME map' # None, NEW c \in Capacities, Create(c)
      PROVE  ChainsOK(map') /\ D!Next
  <2>1. map = None /\ map'.buckets = [i \in Indices(map'.num_buckets) |-> <<>>] /\ map'.size = 0
    BY <1>7 DEF Create
  <2>2. ChainsOK(map') /\ DictOf(map') = <<>>
    BY ONLY <2>1, EmptyIs
  <2>3. QED
    BY <1>2, <1>3, <1>7, <2>1, <2>2 DEF D!Next, D!Create
<1>8. ASSUME map # None, map' # None, NEW k \in Keys, NEW v \in Values, MapPut(k, v)
      PROVE  ChainsOK(map') /\ [D!Next]_dict
  <2>1. ChainsOK(map') /\ (D!Next \/ DictOf(map') = DictOf(map))
    BY <1>1, <1>8, MapPutIsPut
  <2>2. QED
    BY <1>2, <1>3, <1>8, <2>1
<1>9. ASSUME map # None, map' # None, NEW k \in Keys, Delete(k)
      PROVE  ChainsOK(map') /\ [D!Next]_dict
  <2>1. CASE map' = map
    BY <1>1, <1>2, <1>3, <1>9, <2>1
  <2>2. CASE Position(map, k) # 0 /\ map' = Unlink(map, k)
    <3>1. map = [buckets |-> map.buckets, size |-> map.size, num_buckets |-> map.num_buckets,
                 fill_capacity |-> map.fill_capacity]
      BY <1>1, <1>9 DEF MapNumbers
    <3>2. /\ map'.buckets = [map.buckets EXCEPT ![Hash[k] % map.num_buckets] = RemoveAt(@, Position(map, k))]
          /\ map'.num_buckets = map.num_buckets /\ map'.size = map.size - 1
      BY <2>2, <3>1 DEF Unlink
    <3>3. ChainsOK(map') /\ DictOf(map') = [x \in KeysOf(map) \ {k} |-> DictOf(map)[x]]
      <4>1. ASSUME NEW m, ChainsOK(m), MapNumbers(m), Position(m, k) # 0,
                   NEW m2, m2.num_buckets = m.num_buckets, m2.size = m.size - 1,
                   m2.buckets = [m.buckets EXCEPT ![Hash[k] % m.num_buckets] = RemoveAt(@, Position(m, k))]
            PROVE  ChainsOK(m2) /\ DictOf(m2) = [x \in KeysOf(m) \ {k} |-> DictOf(m)[x]]
        BY ONLY k \in Keys, <4>1, UnlinkKeeps
      <4>2. ChainsOK(map) /\ MapNumbers(map)
        BY <1>1, <1>9
      <4>3. QED
        BY ONLY <2>2, <3>2, <4>1, <4>2
    <3>4. DOMAIN dict = KeysOf(map)
      BY <1>1, <1>2, <1>9, DictIs
    <3>5. D!Delete
      <4>1. dict' = [x \in DOMAIN dict \ {k} |-> dict[x]]
        BY <1>2, <1>3, <1>9, <3>3, <3>4
      <4>2. QED
        BY <4>1 DEF D!Delete, D!Restrict
    <3>6. QED
      BY <1>2, <1>9, <3>3, <3>5 DEF D!Next
  <2>3. QED
    BY <1>9, <2>1, <2>2 DEF Delete
<1>10. ASSUME map # None, map' # None, Clear
       PROVE  ChainsOK(map') /\ D!Next
  <2>1. map = [buckets |-> map.buckets, size |-> map.size, num_buckets |-> map.num_buckets,
               fill_capacity |-> map.fill_capacity]
    BY <1>1, <1>10 DEF MapNumbers
  <2>2. map'.buckets = [i \in Indices(map'.num_buckets) |-> <<>>] /\ map'.size = 0
    BY <1>10, <2>1 DEF Clear
  <2>3. ChainsOK(map') /\ DictOf(map') = <<>>
    BY ONLY <2>2, EmptyIs
  <2>4. QED
    BY <1>2, <1>3, <1>10, <2>3 DEF D!Next, D!Clear
<1>11. CASE map' # None /\ MapNext
  <2>1. ASSUME NEW c \in Capacities, Create(c)
        PROVE  ChainsOK(map') /\ [D!Next]_dict
    BY <1>7, <1>11, <2>1
  <2>2. ASSUME map # None, Call
        PROVE  ChainsOK(map') /\ [D!Next]_dict
    <3>1. ASSUME NEW k \in Keys, SetAdd(k) PROVE ChainsOK(map') /\ [D!Next]_dict
      BY <1>8, <1>11, <2>2, <3>1, HashMapAssumption DEF SetAdd
    <3>2. CASE Destroy
      BY <1>11, <3>2 DEF Destroy
    <3>3. QED
      BY <1>8, <1>9, <1>10, <1>11, <2>2, <3>1, <3>2 DEF Call
  <2>3. QED
    BY <1>11, <2>1, <2>2 DEF MapNext
<1>12. QED
  BY <1>5, <1>6, <1>11 DEF mapVars

\* map_get looks into one chain and finds what the whole map has.
LEMMA GetFinds == DictInv => GetFindsEntry
<1> SUFFICES ASSUME DictInv, map # None
             PROVE  /\ \A k \in Keys : Get(map, k) = IF k \in DOMAIN dict THEN dict[k] ELSE NullValue
                    /\ SetSize(map) = Cardinality(DOMAIN dict) /\ (SetIsEmpty(map) <=> Nodes(map) = {})
                    /\ Range(dict) \subseteq {DummyValue} => {k \in Keys : SetContains(map, k)} = DOMAIN dict
  BY DEF GetFindsEntry
<1>1. ChainsOK(map) /\ MapNumbers(map)
  BY DEF DictInv, Inv, IInv
<1>2. dict = DictOf(map)
  BY DictIsSeen
<1>3. DictOf(map) \in [KeysOf(map) -> Values] /\ DOMAIN DictOf(map) = KeysOf(map) /\ KeysOf(map) \subseteq Keys
  BY <1>1, DictIs
<1>4. ASSUME NEW k \in Keys
      PROVE  Get(map, k) = IF k \in KeysOf(map) THEN DictOf(map)[k] ELSE NullValue
  <2> DEFINE b == Hash[k] % map.num_buckets
             i == Position(map, k)
  <2>1. /\ b \in Indices(map.num_buckets) /\ (i = 0 <=> k \notin KeysOf(map))
        /\ i # 0 => <<b, i>> \in Places(map) /\ NodeAt(map, <<b, i>>).key = k
    BY <1>1, PositionIs
  <2>2. Get(map, k) = IF i = 0 THEN NullValue ELSE map.buckets[b][i].value
    BY DEF Get
  <2> HIDE DEF b, i
  <2>3. NodeAt(map, <<b, i>>) = map.buckets[b][i]
    BY DEF NodeAt
  <2>4. i # 0 => DictOf(map)[k] = map.buckets[b][i].value
    BY <1>1, <2>1, <2>3, DictIs
  <2>5. QED
    BY <2>1, <2>2, <2>4
<1>5. IsFiniteSet(KeysOf(map)) /\ Cardinality(KeysOf(map)) = map.size
  BY <1>1 DEF ChainsOK
<1>6. Nodes(map) = {} <=> KeysOf(map) = {}
  <2>1. Nodes(map) = {NodeAt(map, p) : p \in Places(map)}
    BY <1>1, NodesAre DEF ChainsOK
  <2>2. QED
    BY <2>1 DEF KeysOf
<1>7. map.size = 0 <=> Nodes(map) = {}
  BY <1>5, <1>6, FS_EmptySet
<1>8. ASSUME Range(DictOf(map)) \subseteq {DummyValue}
      PROVE  {k \in Keys : SetContains(map, k)} = KeysOf(map)
  <2>1. \A k \in KeysOf(map) : DictOf(map)[k] = DummyValue
    BY <1>3, <1>8 DEF Range
  <2>2. DummyValue # NullValue
    BY HashMapAssumption
  <2>3. \A k \in Keys : SetContains(map, k) <=> k \in KeysOf(map)
    BY <1>4, <2>1, <2>2 DEF SetContains
  <2>4. QED
    BY <1>3, <2>3
<1>9. QED
  BY <1>2, <1>3, <1>4, <1>5, <1>7, <1>8 DEF SetSize, SetIsEmpty

LEMMA InitIsOfADictionary == MapInit => DictInv /\ D!Init
  BY DEF MapInit, DictInv, Inv, IInv, D!Init, dict

\* The chains of buckets implement a dictionary: each put sets its key or, when
\* memory is refused, leaves a new one out, through every growth; no call
\* disturbs another key.
THEOREM MapIsADictionary == MapSpec => ImplementsDictionary
  BY InitIsOfADictionary, StepIsOfADictionary, PTL DEF MapSpec, ImplementsDictionary, D!Spec

\* map_get and set_contains, which look into one chain, answer from that
\* dictionary, and the size is the number of its keys.
THEOREM MapFindsItsEntries == MapSpec => []GetFindsEntry
<1>1. DictInv /\ [MapNext]_mapVars => DictInv'
  BY StepIsOfADictionary
<1>2. MapInit => DictInv
  BY InitIsOfADictionary
<1>3. QED
  BY <1>1, <1>2, GetFinds, PTL DEF MapSpec
=============================================================================
