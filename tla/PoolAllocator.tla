---------------------------- MODULE PoolAllocator ---------------------------
(***************************************************************************)
(* The AlokPool of src/memory/allocator.c: objects of one size out of one  *)
(* OS block.  A free object holds the pointer to the next free one.        *)
(*                                                                         *)
(* Memory is counted in half pointers, so that a pointer written over part *)
(* of another is a pointer to nowhere.  The client fills every object it   *)
(* gets, and may free an object twice.                                     *)
(***************************************************************************)
EXTENDS Integers, SequencesExt

CONSTANTS
  HeaderBytes,   \* sizeof(BlockHeader) + sizeof(AlokPool)
  ObjectSizes, Alignments,
  NumObjects

ASSUME PoolAssumption ==
  /\ HeaderBytes \in Nat \ {0} /\ NumObjects \in Nat \ {0}
  /\ ObjectSizes \subseteq Nat /\ Alignments \subseteq Nat \ {0}

VARIABLES
  slotSize, slotAlignment,   \* of the pool; 0 before alok_pool_create
  freeList,
  memory,      \* each half pointer of the block
  mine,        \* the objects the client has
  misused      \* ghost: an object was freed that the client did not have

poolVars == <<slotSize, slotAlignment, freeList, memory, mine, misused>>

POINTER == 2
NULLPTR == 0
NOWHERE == -1     \* a pointer to nowhere
DATA == <<NOWHERE, 0>>

\* alok_align_up.
AlignedSize(value, alignment) == ((value + alignment - 1) \div alignment) * alignment

\* slot i of objects of n bytes.
Slot(i, n) == HeaderBytes + i * n

Slots == {Slot(i, slotSize) : i \in 0..(NumObjects - 1)}

Half(p, k) == IF p = NULLPTR THEN <<0, 0>> ELSE <<p, k>>

\* node->next = p, for the node at address a.
SetNext(mem, a, p) ==
  [b \in DOMAIN mem |-> IF b = a THEN Half(p, 1) ELSE IF b = a + 1 THEN Half(p, 2) ELSE mem[b]]

NextFree(a) ==
  IF \E p \in Slots \cup {NULLPTR} : memory[a] = Half(p, 1) /\ memory[a + 1] = Half(p, 2)
  THEN memory[a][1] ELSE NOWHERE

\* Mutant: the slots are as far apart as the object is long.
AlignedObject_AsIs(size, alignment) == size

AlignedObject(size, alignment) == AlignedSize(size, alignment)

\* alok_pool_create: the slots are chained from the first to the last, each
\* pointing to the one before it.
PoolCreate(size, alignment) ==
  LET n == AlignedObject(size, alignment)
      chain[i \in 0..NumObjects] ==
        IF i = 0 THEN [b \in HeaderBytes..(HeaderBytes + NumObjects * n + POINTER) |-> Half(NULLPTR, 1)]
        ELSE LET before == chain[i - 1]
             IN  SetNext(before, Slot(i - 1, n), IF i = 1 THEN NULLPTR ELSE Slot(i - 2, n))
  IN  /\ slotSize = 0
      /\ slotSize' = n
      /\ slotAlignment' = alignment
      /\ memory' = chain[NumObjects]
      /\ freeList' = Slot(NumObjects - 1, n)
      /\ UNCHANGED <<mine, misused>>

\* alok_pool_alloc, and the client writing into what it gets.  With nothing
\* free it returns the null pointer.  (A bound: the client stops at as many
\* objects as there are slots.)
PoolAlloc ==
  /\ slotSize # 0 /\ freeList \in Slots /\ Len(mine) < NumObjects
  /\ freeList' = NextFree(freeList)
  /\ memory' = [b \in DOMAIN memory |-> IF b \in freeList..(freeList + slotSize - 1) THEN DATA ELSE memory[b]]
  /\ mine' = Append(mine, freeList)
  /\ UNCHANGED <<slotSize, slotAlignment, misused>>

\* alok_pool_free: whatever it is given goes to the front of the list.
PoolFree(a) ==
  /\ slotSize # 0
  /\ a \in Slots
  /\ memory' = SetNext(memory, a, freeList)
  /\ freeList' = a
  /\ LET mineAt == {i \in 1..Len(mine) : mine[i] = a}
     IN  \/ \E i \in mineAt : mine' = RemoveAt(mine, i) /\ UNCHANGED misused
         \/ mineAt = {} /\ misused' = TRUE /\ UNCHANGED mine
  /\ UNCHANGED <<slotSize, slotAlignment>>

PoolInit ==
  /\ slotSize = 0 /\ slotAlignment = 1
  /\ freeList = NULLPTR /\ memory = <<>>
  /\ mine = <<>> /\ misused = FALSE

PoolNext ==
  \/ \E size \in ObjectSizes, alignment \in Alignments : PoolCreate(size, alignment)
  \/ PoolAlloc
  \/ ~misused /\ \E a \in Slots : PoolFree(a)

-----------------------------------------------------------------------------
(* Properties. *)

\* The free list and the client's objects are all the slots, each once, and
\* what the client wrote is there: for objects in which a pointer fits, as
\* long as none is freed that is free already.  Objects are aligned if their
\* alignment is no more than that of the pool's own header.
PoolHandsOutOnce ==
  LET walk[n \in 0..NumObjects] ==   \* the last n slots of the free list
        IF n = 0 THEN <<freeList>>
        ELSE LET w == walk[n - 1]
                 last == w[Len(w)]
             IN  IF last \in Slots THEN Append(w, NextFree(last)) ELSE w
      list == walk[NumObjects]
      free == {list[i] : i \in 1..Len(list)} \ {NULLPTR}
  IN  slotSize # 0 /\ ~misused =>
        /\ HeaderBytes % slotAlignment = 0 => \A a \in Slots : a % slotAlignment = 0
        /\ slotSize >= POINTER =>
             /\ list[Len(list)] = NULLPTR
             /\ free \cup {mine[i] : i \in 1..Len(mine)} = Slots
             /\ (Len(list) - 1) + Len(mine) = NumObjects
             /\ \A i \in 1..Len(mine) : \A b \in mine[i]..(mine[i] + slotSize - 1) : memory[b] = DATA

=============================================================================
