---------------------------- MODULE ArenaProofs -----------------------------
(***************************************************************************)
(* Proofs about Arena, for every page size, header size, request size and  *)
(* alignment.  The inductive invariant IInv says that the whole cursor is  *)
(* determined by the chunks the client owns: it sits at the end of the     *)
(* newest one, and every marker remembers the end of the chunk before it.  *)
(* That is what makes a pop through any number of markers and blocks safe. *)
(***************************************************************************)
EXTENDS Arena, TLAPS

\* Rounding up never goes down, and adds less than one alignment.
LEMMA AlignUpBounds ==
  ASSUME NEW v \in Nat, NEW a \in Nat \ {0}
  PROVE  /\ AlignUp(v, a) \in Nat
         /\ v <= AlignUp(v, a)
         /\ AlignUp(v, a) < v + a
  BY DEF AlignUp

\* A block is never smaller than a page.
LEMMA AlignUpReaches ==
  ASSUME NEW v \in Nat \ {0}, NEW a \in Nat \ {0}
  PROVE  a <= AlignUp(v, a)
<1>1. CASE a <= v
  BY <1>1, AlignUpBounds
<1>2. CASE v < a
  <2>1. (-v) % a = a - v
    BY <1>2
  <2>2. QED
    BY <2>1 DEF AlignUp
<1>3. QED
  BY <1>1, <1>2

-----------------------------------------------------------------------------
(* The inductive invariant. *)

\* Every chunk lies in a block of the chain and does not end before it starts;
\* without an arena the client owns nothing.
ChunksOK ==
  /\ \A i \in 1..Len(live) : /\ live[i].blk \in 1..Len(blocks)
                             /\ live[i].lo <= live[i].hi
  /\ blocks = <<>> => live = <<>>

\* Chunks are handed out in the order of the chain, and in a block from its
\* beginning to its end.
InOrder ==
  \A i, j \in 1..Len(live) :
    i < j => \/ live[i].blk < live[j].blk
             \/ live[i].blk = live[j].blk /\ live[i].hi <= live[j].lo

\* They begin behind the BlockHeader of their block, in the head block behind
\* the AlokArena and the AllocatorHeader too.
MetadataIntact ==
  \A i \in 1..Len(live) : live[i].lo >= Metadata(live[i].blk)

IInv ==
  /\ ArenaTypeOK
  /\ ChunksOK
  /\ CursorIsTight
  /\ MarksAreTight
  /\ InOrder
  /\ MetadataIntact

\* The records of ArenaTypeOK.
ChunkSet == [blk : Nat, lo : Nat, hi : Nat, align : Nat, pivoted : BOOLEAN,
             mark : [blk : Nat, off : Nat]]

\* Before create there is no arena and nothing is owned.
LEMMA InitInv == ArenaInit => IInv
<1> SUFFICES ASSUME ArenaInit PROVE IInv
  OBVIOUS
<1>1. /\ blocks = <<>> /\ base = <<>> /\ current = 0 /\ offset = 0 /\ live = <<>>
      /\ conf = [cap |-> 0, grow |-> TRUE]
      /\ reply = [call |-> "none", size |-> 0, ok |-> TRUE]
  BY DEF ArenaInit, Reply
<1>2. ArenaTypeOK
  <2>1. /\ reply \in [call : Calls, size : Nat, ok : BOOLEAN]
        /\ conf \in [cap : Nat, grow : BOOLEAN]
    BY <1>1 DEF Calls
  <2>2. /\ blocks \in Seq(Nat) /\ base \in Seq(Nat) /\ Len(base) = Len(blocks)
        /\ live \in Seq(ChunkSet)
        /\ current \in 0..Len(blocks)
    BY <1>1
  <2>3. QED
    BY <1>1, <2>1, <2>2 DEF ArenaTypeOK, ChunkSet
<1>3. 1..Len(live) = {}
  BY <1>1
<1>4. QED
  BY <1>1, <1>2, <1>3 DEF IInv, ChunksOK, CursorIsTight, MarksAreTight, Markers,
                          InOrder, MetadataIntact

\* What a successful allocation does to the chain, the cursor and the chunks,
\* on each of the three paths of the code.
Placed(lo, size, a, mark) ==
  /\ lo \in Nat
  /\ live' = Append(live, Chunk(current', lo, size, a, current' # current, mark))
  /\ Chunk(current', lo, size, a, current' # current, mark) \in ChunkSet
  /\ offset' = lo + size
  /\ blocks' \in Seq(Nat)
  /\ Len(blocks) <= Len(blocks')
  /\ \A b \in 1..Len(blocks) : blocks'[b] = blocks[b]
  /\ current' \in 1..Len(blocks')
  /\ \/ current' = current /\ offset <= lo
     \/ current' = current + 1 /\ BlockHeader <= lo

LEMMA ObtainEffect ==
  ASSUME IInv, blocks # <<>>, NEW size \in Nat, NEW a \in Nat \ {0},
         NEW mark \in [blk : Nat, off : Nat], Obtain(size, a, mark)
  PROVE  \E lo : Placed(lo, size, a, mark)
<1> DEFINE pad == Padding(a)
<1>1. /\ blocks \in Seq(Nat) /\ offset \in Nat /\ current \in 1..Len(blocks)
      /\ BlockHeader \in Nat /\ PageSize \in Nat \ {0}
  <2>1. BlockHeader \in Nat /\ PageSize \in Nat \ {0}
    BY ArenaAssumption
  <2>2. QED
    BY <2>1 DEF IInv, ArenaTypeOK
<1>2. pad \in Nat
  <2>1. AlignUp(offset, a) \in Nat /\ offset <= AlignUp(offset, a)
    BY <1>1, AlignUpBounds
  <2>2. QED
    BY <1>1, <2>1 DEF Padding
<1> HIDE DEF pad
<1>3. ASSUME NEW b \in Nat, NEW from \in Nat, Place(b, from, size, a, mark)
      PROVE  /\ live' = Append(live, Chunk(current', from + pad, size, a, current' # current, mark))
             /\ Chunk(current', from + pad, size, a, current' # current, mark) \in ChunkSet
             /\ offset' = from + pad + size
             /\ current' = b
             /\ from + pad \in Nat
  <2>1. /\ live' = Append(live, Chunk(current', from + pad, size, a, current' # current, mark))
        /\ offset' = from + pad + size
        /\ current' = b
    BY <1>3 DEF Place, pad
  <2>2. (current' # current) \in BOOLEAN
    OBVIOUS
  <2>3. Chunk(current', from + pad, size, a, current' # current, mark) \in ChunkSet
    BY <1>2, <2>1, <2>2 DEF Chunk, ChunkSet
  <2>4. QED
    BY <2>1, <2>3, <1>2
<1>4. CASE AllocInCurrent(size, a, mark)
  <2>1. Place(current, offset, size, a, mark) /\ blocks' = blocks
    BY <1>4 DEF AllocInCurrent
  <2>2. offset <= offset + pad
    BY <1>1, <1>2
  <2>3. Placed(offset + pad, size, a, mark)
    BY <1>1, <2>1, <2>2, <1>3 DEF Placed
  <2>4. QED
    BY <2>3
<1>5. CASE AllocInRetained(size, a, mark)
  <2>1. /\ Place(current + 1, BlockHeader, size, a, mark)
        /\ blocks' = blocks
        /\ current < Len(blocks)
    BY <1>5 DEF AllocInRetained
  <2>2. BlockHeader <= BlockHeader + pad /\ current + 1 \in 1..Len(blocks)
    BY <1>1, <1>2, <2>1
  <2>3. Placed(BlockHeader + pad, size, a, mark)
    BY <1>1, <2>1, <2>2, <1>3 DEF Placed
  <2>4. QED
    BY <2>3
<1>6. CASE AllocInNew(size, a, mark)
  <2> DEFINE n == OsBlock(Larger(blocks[1], size + BlockHeader))
  <2>1. /\ Place(current + 1, BlockHeader, size, a, mark)
        /\ blocks' = Append(blocks, n)
        /\ current = Len(blocks)
    BY <1>6 DEF AllocInNew
  <2>2. n \in Nat
    <3>1. Larger(blocks[1], size + BlockHeader) \in Nat
      BY <1>1 DEF Larger
    <3>2. QED
      BY <3>1, <1>1, AlignUpBounds DEF OsBlock
  <2> HIDE DEF n
  <2>3. /\ blocks' \in Seq(Nat)
        /\ Len(blocks') = Len(blocks) + 1
        /\ \A b \in 1..Len(blocks) : blocks'[b] = blocks[b]
    BY <2>1, <2>2, <1>1
  <2>4. /\ BlockHeader <= BlockHeader + pad
        /\ current + 1 \in 1..Len(blocks')
        /\ Len(blocks) <= Len(blocks')
    BY <1>1, <1>2, <2>1, <2>3
  <2>5. Placed(BlockHeader + pad, size, a, mark)
    BY <1>1, <2>1, <2>3, <2>4, <1>3 DEF Placed
  <2>6. QED
    BY <2>5
<1>7. QED
  BY <1>4, <1>5, <1>6 DEF Obtain

-----------------------------------------------------------------------------
(* One lemma for each way an operation changes the chunks. *)

\* What every operation does to reply and conf, and to the places of the blocks.
Outcome ==
  /\ base' \in Seq(Nat) /\ Len(base') = Len(blocks')
  /\ reply' \in [call : Calls, size : Nat, ok : BOOLEAN]
  /\ conf' \in [cap : Nat, grow : BOOLEAN]

\* An allocation keeps the places of the blocks there are, and finds one that is
\* vacant for the block it adds.
LEMMA ObtainBases ==
  ASSUME IInv, NEW size, NEW a, NEW mark, Obtain(size, a, mark)
  PROVE  /\ base' \in Seq(Nat) /\ Len(base') = Len(blocks')
         /\ \A b \in 1..Len(blocks) : base'[b] = base[b]
         /\ \/ blocks' = blocks /\ base' = base
            \/ \E n, p : blocks' = Append(blocks, n) /\ base' = Append(base, p) /\ Vacant(p, n)
<1>1. blocks \in Seq(Nat) /\ base \in Seq(Nat) /\ Len(base) = Len(blocks)
  BY DEF IInv, ArenaTypeOK
<1>2. CASE AllocInNew(size, a, mark)
  <2>1. PICK n, p : /\ p \in Mappable /\ blocks' = Append(blocks, n) /\ base' = Append(base, p)
                               /\ Vacant(p, n)
    BY <1>2 DEF AllocInNew
  <2>2. p \in Nat
    BY <2>1, ArenaAssumption
  <2>3. QED
    BY <1>1, <2>1, <2>2
<1>3. QED
  BY <1>1, <1>2 DEF Obtain, AllocInCurrent, AllocInRetained

\* A successful allocation keeps the invariant.
LEMMA AppendKeepsInv ==
  ASSUME IInv, blocks # <<>>, NEW size \in Nat, NEW a \in Nat \ {0},
         NEW mark \in {NoMark, Here}, Obtain(size, a, mark), Outcome
  PROVE  IInv'
<1>1. /\ blocks \in Seq(Nat) /\ offset \in Nat /\ current \in 1..Len(blocks)
      /\ live \in Seq(ChunkSet)
  BY DEF IInv, ArenaTypeOK, ChunkSet
<1>2. /\ BlockHeader \in Nat /\ HeadMetadata \in Nat
  BY ArenaAssumption DEF HeadMetadata
<1>3. mark \in [blk : Nat, off : Nat]
  BY <1>1 DEF NoMark, Here
<1>4. PICK lo : Placed(lo, size, a, mark)
  BY <1>3, ObtainEffect
<1> DEFINE n == Len(live)
           c == Chunk(current', lo, size, a, current' # current, mark)
<1>5. /\ live' = Append(live, c) /\ c \in ChunkSet
      /\ n \in Nat /\ Len(live') = n + 1
      /\ \A i \in 1..n : live'[i] = live[i]
      /\ live'[n + 1] = c
  BY <1>1, <1>4 DEF Placed
<1>6. /\ c.blk = current' /\ c.lo = lo /\ c.hi = lo + size /\ c.mark = mark
  BY DEF Chunk
<1>7. /\ lo \in Nat /\ offset' = lo + size
      /\ blocks' \in Seq(Nat) /\ Len(blocks) <= Len(blocks')
      /\ current' \in 1..Len(blocks')
      /\ \/ current' = current /\ offset <= lo
         \/ current' = current + 1 /\ BlockHeader <= lo
  BY <1>4 DEF Placed
<1> HIDE DEF n, c
<1>8. \A i \in 1..n : /\ live[i].blk \in Nat /\ live[i].lo \in Nat
                      /\ live[i].hi \in Nat
  <2> TAKE i \in 1..n
  <2>1. live[i] \in ChunkSet
    BY <1>1 DEF n
  <2>2. QED
    BY <2>1 DEF ChunkSet
<1>9. Here = EndOf(n)
  BY DEF IInv, CursorIsTight, n
<1>10. current \in Nat /\ current' \in Nat /\ offset \in Nat /\ lo \in Nat
       /\ \/ current' = current /\ offset <= lo
          \/ current' = current + 1
  BY <1>1, <1>7
<1>11. \A i \in 1..n : \/ live[i].blk < current
                       \/ live[i].blk = current /\ live[i].hi <= offset
  <2> TAKE i \in 1..n
  <2>1. n # 0 /\ n \in 1..n
    BY <1>5
  <2>2. live[n].blk = current /\ live[n].hi = offset
    BY <1>9, <2>1 DEF EndOf, Here
  <2>3. CASE i = n
    BY <1>1, <2>2, <2>3
  <2>4. CASE i < n
    <3>1. \/ live[i].blk < live[n].blk
          \/ live[i].blk = live[n].blk /\ live[i].hi <= live[n].lo
      BY <2>1, <2>4 DEF IInv, InOrder, n
    <3>2. live[n].lo <= live[n].hi
      BY <2>1 DEF IInv, ChunksOK, n
    <3>3. /\ live[i].blk \in Nat /\ live[i].hi \in Nat
          /\ live[n].lo \in Nat /\ live[n].hi \in Nat
      BY <1>8, <2>1
    <3>4. CASE live[i].blk < live[n].blk
      BY <2>2, <3>4
    <3>5. CASE live[i].blk = live[n].blk /\ live[i].hi <= live[n].lo
      <4>1. live[i].hi <= live[n].hi
        BY <3>2, <3>3, <3>5
      <4>2. QED
        BY <2>2, <3>5, <4>1
    <3>6. QED
      BY <3>1, <3>4, <3>5
  <2>5. QED
    BY <1>5, <2>3, <2>4
<1>12. Metadata(current') <= lo
  <2>1. CASE current' = current /\ offset <= lo
    <3>1. Metadata(current) <= offset
      <4>1. CASE n = 0
        BY <1>9, <4>1, <1>2 DEF EndOf, Here, Metadata
      <4>2. CASE n # 0
        <5>1. n \in 1..n
          BY <1>5, <4>2
        <5>2. live[n].blk = current /\ live[n].hi = offset
          BY <1>9, <4>2 DEF EndOf, Here
        <5>3. /\ live[n].lo >= Metadata(live[n].blk)
              /\ live[n].lo <= live[n].hi
          BY <5>1 DEF IInv, MetadataIntact, ChunksOK, n
        <5>4. live[n].lo \in Nat /\ live[n].hi \in Nat
          BY <1>8, <5>1
        <5>5. Metadata(current) \in Nat
          BY <1>2 DEF Metadata
        <5>6. QED
          BY <1>1, <5>2, <5>3, <5>4, <5>5
      <4>3. QED
        BY <4>1, <4>2
    <3>2. QED
      BY <1>1, <1>2, <1>7, <2>1, <3>1 DEF Metadata
  <2>2. CASE current' = current + 1 /\ BlockHeader <= lo
    BY <1>1, <2>2 DEF Metadata
  <2>3. QED
    BY <1>7, <2>1, <2>2
<1>13. ArenaTypeOK'
  <2>1. live' \in Seq(ChunkSet)
    BY <1>1, <1>5
  <2>2. offset' \in Nat /\ current' \in 0..Len(blocks') /\ current' # 0
    BY <1>7
  <2>3. QED
    BY <1>7, <2>1, <2>2 DEF ArenaTypeOK, ChunkSet, Outcome
<1>14. ChunksOK'
  <2>1. ASSUME NEW i \in 1..(n + 1)
        PROVE  live'[i].blk \in 1..Len(blocks') /\ live'[i].lo <= live'[i].hi
    <3>1. CASE i = n + 1
      BY <3>1, <1>5, <1>6, <1>7
    <3>2. CASE i \in 1..n
      <4>1. live[i].blk \in 1..Len(blocks) /\ live[i].lo <= live[i].hi
        BY <3>2 DEF IInv, ChunksOK, n
      <4>2. live'[i] = live[i]
        BY <3>2, <1>5
      <4>3. /\ Len(blocks) \in Nat /\ Len(blocks') \in Nat
            /\ Len(blocks) <= Len(blocks')
        BY <1>1, <1>7
      <4>4. 1..Len(blocks) \subseteq 1..Len(blocks')
        BY <4>3
      <4>5. QED
        BY <4>1, <4>2, <4>4
    <3>3. QED
      BY <3>1, <3>2, <1>5
  <2>2. blocks' # <<>>
    BY <1>1, <1>7
  <2>3. QED
    BY <2>1, <2>2, <1>5 DEF ChunksOK
<1>15. CursorIsTight'
  BY <1>5, <1>6, <1>7 DEF CursorIsTight, Here, EndOf
<1>16. MarksAreTight'
  <2>1. ASSUME NEW i \in 1..(n + 1), live'[i].mark # NoMark
        PROVE  live'[i].mark = EndOf(i - 1)'
    <3>1. EndOf(i - 1)' = EndOf(i - 1)
      BY <1>5 DEF EndOf
    <3>2. CASE i = n + 1
      BY <2>1, <3>1, <3>2, <1>5, <1>6, <1>9
    <3>3. CASE i \in 1..n
      BY <2>1, <3>1, <3>3, <1>5 DEF IInv, MarksAreTight, Markers, n
    <3>4. QED
      BY <3>2, <3>3, <1>5
  <2>2. QED
    BY <2>1, <1>5 DEF MarksAreTight, Markers, NoMark
<1>17. InOrder'
  <2>1. ASSUME NEW i \in 1..(n + 1), NEW j \in 1..(n + 1), i < j
        PROVE  \/ live'[i].blk < live'[j].blk
               \/ live'[i].blk = live'[j].blk /\ live'[i].hi <= live'[j].lo
    <3>1. CASE j \in 1..n
      <4>1. i \in 1..n
        BY <2>1, <3>1, <1>5
      <4>2. QED
        BY <2>1, <3>1, <4>1, <1>5 DEF IInv, InOrder, n
    <3>2. CASE j = n + 1
      <4>1. i \in 1..n
        BY <2>1, <3>2, <1>5
      <4>2. /\ live'[i].blk = live[i].blk /\ live'[i].hi = live[i].hi
            /\ live[i].blk \in Nat /\ live[i].hi \in Nat
        BY <4>1, <1>5, <1>8
      <4>3. live'[j].blk = current' /\ live'[j].lo = lo
        BY <3>2, <1>5, <1>6
      <4>4. \/ live[i].blk < current
            \/ live[i].blk = current /\ live[i].hi <= offset
        BY <4>1, <1>11
      <4>5. CASE live[i].blk < current
        <5>1. live[i].blk < current'
          BY <4>2, <4>5, <1>10
        <5>2. QED
          BY <4>2, <4>3, <5>1
      <4>6. CASE live[i].blk = current /\ live[i].hi <= offset
        <5>1. CASE current' = current /\ offset <= lo
          <6>1. live[i].hi <= lo
            BY <4>2, <4>6, <5>1, <1>10
          <6>2. QED
            BY <4>2, <4>3, <4>6, <5>1, <6>1
        <5>2. CASE current' = current + 1
          <6>1. live[i].blk < current'
            BY <4>6, <5>2, <1>10
          <6>2. QED
            BY <4>2, <4>3, <6>1
        <5>3. QED
          BY <5>1, <5>2, <1>10
      <4>7. QED
        BY <4>4, <4>5, <4>6
    <3>3. QED
      BY <3>1, <3>2, <1>5
  <2>2. QED
    BY <2>1, <1>5 DEF InOrder
<1>18. MetadataIntact'
  <2>1. ASSUME NEW i \in 1..(n + 1)
        PROVE  live'[i].lo >= Metadata(live'[i].blk)
    <3>1. CASE i = n + 1
      BY <3>1, <1>2, <1>5, <1>6, <1>7, <1>12 DEF Metadata
    <3>2. CASE i \in 1..n
      BY <3>2, <1>5 DEF IInv, MetadataIntact, n, Metadata
    <3>3. QED
      BY <3>1, <3>2, <1>5
  <2>2. QED
    BY <2>1, <1>5 DEF MetadataIntact, Metadata
<1>19. QED
  BY <1>13, <1>14, <1>15, <1>16, <1>17, <1>18 DEF IInv

\* A pop through any number of markers and blocks keeps the invariant.
LEMMA PopKeepsInv ==
  ASSUME IInv, NEW i \in Markers, PopToMarker(i)
  PROVE  IInv'
<1> DEFINE n == Len(live)
<1>1. /\ live \in Seq(ChunkSet) /\ blocks \in Seq(Nat)
      /\ n \in Nat /\ i \in 1..n
  BY DEF IInv, ArenaTypeOK, ChunkSet, Markers
<1>2. /\ live' = SubSeq(live, 1, i - 1) /\ blocks' = blocks
      /\ current' = live[i].mark.blk /\ offset' = live[i].mark.off
      /\ reply' = [call |-> "pop", size |-> 0, ok |-> TRUE]
      /\ conf' = conf /\ base' = base
  BY DEF PopToMarker, Reply
<1>3. /\ live' \in Seq(ChunkSet) /\ Len(live') = i - 1
      /\ \A k \in 1..(i - 1) : live'[k] = live[k]
  BY <1>1, <1>2
<1>4. live[i].mark = EndOf(i - 1)
  BY DEF IInv, MarksAreTight
<1>5. \A k \in 1..i : EndOf(k - 1)' = EndOf(k - 1)
  BY <1>1, <1>3 DEF EndOf
<1>6. blocks # <<>>
  <2>1. live # <<>>
    BY <1>1
  <2>2. QED
    BY <2>1 DEF IInv, ChunksOK
<1>7. EndOf(i - 1).blk \in 1..Len(blocks) /\ EndOf(i - 1).off \in Nat
  <2>1. CASE i = 1
    <3>1. HeadMetadata \in Nat
      BY ArenaAssumption DEF HeadMetadata
    <3>2. 1 \in 1..Len(blocks)
      BY <1>1, <1>6
    <3>3. QED
      BY <2>1, <3>1, <3>2 DEF EndOf
  <2>2. CASE i # 1
    <3>1. i - 1 \in 1..n
      BY <1>1, <2>2
    <3>2. live[i - 1].blk \in 1..Len(blocks)
      BY <3>1 DEF IInv, ChunksOK
    <3>3. live[i - 1].hi \in Nat
      <4>1. live[i - 1] \in ChunkSet
        BY <1>1, <3>1
      <4>2. QED
        BY <4>1 DEF ChunkSet
    <3>4. QED
      BY <1>1, <2>2, <3>2, <3>3 DEF EndOf
  <2>3. QED
    BY <2>1, <2>2
<1> HIDE DEF n
<1>8. ArenaTypeOK'
  <2>1. current' \in 0..Len(blocks') /\ current' # 0 /\ offset' \in Nat
    BY <1>1, <1>2, <1>4, <1>7
  <2>2. reply' \in [call : Calls, size : Nat, ok : BOOLEAN]
    BY <1>2 DEF Calls
  <2>3. /\ conf' \in [cap : Nat, grow : BOOLEAN]
        /\ base' \in Seq(Nat) /\ Len(base') = Len(blocks')
    BY <1>2 DEF IInv, ArenaTypeOK
  <2>4. QED
    BY <1>1, <1>2, <1>3, <2>1, <2>2, <2>3 DEF ArenaTypeOK, ChunkSet
<1>9. ChunksOK'
  <2>1. ASSUME NEW k \in 1..Len(live')
        PROVE  live'[k].blk \in 1..Len(blocks') /\ live'[k].lo <= live'[k].hi
    <3>1. k \in 1..Len(live) /\ live'[k] = live[k] /\ blocks' = blocks
      BY <1>1, <1>2, <1>3 DEF n
    <3>2. QED
      BY <3>1 DEF IInv, ChunksOK
  <2>2. QED
    BY <2>1, <1>2, <1>6 DEF ChunksOK
<1>10. CursorIsTight'
  <2>1. Here' = live[i].mark
    <3>1. live[i] \in ChunkSet
      BY <1>1 DEF n
    <3>2. live[i].mark \in [blk : Nat, off : Nat]
      BY <3>1 DEF ChunkSet
    <3>3. QED
      BY <1>2, <3>2 DEF Here
  <2>2. EndOf(i - 1)' = EndOf(i - 1)
    BY <1>1, <1>5
  <2>3. QED
    BY <1>3, <1>4, <2>1, <2>2 DEF CursorIsTight
<1>11. MarksAreTight'
  <2>1. ASSUME NEW k \in 1..(i - 1), live'[k].mark # NoMark
        PROVE  live'[k].mark = EndOf(k - 1)'
    <3>1. live'[k] = live[k] /\ k \in 1..n /\ k \in 1..i
      BY <1>1, <1>3
    <3>2. live[k].mark = EndOf(k - 1)
      BY <2>1, <3>1 DEF IInv, MarksAreTight, Markers, n
    <3>3. QED
      BY <1>5, <3>1, <3>2
  <2>2. QED
    BY <2>1, <1>3 DEF MarksAreTight, Markers, NoMark
<1>12. InOrder'
  <2>1. ASSUME NEW k \in 1..(i - 1), NEW j \in 1..(i - 1), k < j
        PROVE  \/ live'[k].blk < live'[j].blk
               \/ live'[k].blk = live'[j].blk /\ live'[k].hi <= live'[j].lo
    <3>1. live'[k] = live[k] /\ live'[j] = live[j] /\ k \in 1..n /\ j \in 1..n
      BY <1>1, <1>3
    <3>2. QED
      BY <2>1, <3>1 DEF IInv, InOrder, n
  <2>2. QED
    BY <2>1, <1>3 DEF InOrder
<1>13. MetadataIntact'
  <2>1. ASSUME NEW k \in 1..(i - 1)
        PROVE  live'[k].lo >= Metadata(live'[k].blk)
    <3>1. live'[k] = live[k] /\ k \in 1..n
      BY <1>1, <1>3
    <3>2. QED
      BY <3>1 DEF IInv, MetadataIntact, Metadata, n
  <2>2. QED
    BY <2>1, <1>3 DEF MetadataIntact, Metadata
<1>14. QED
  BY <1>8, <1>9, <1>10, <1>11, <1>12, <1>13 DEF IInv

\* CreateArena and Reset leave the client with nothing and the cursor past the
\* arena's own structs; DestroyArena leaves no arena.
LEMMA EmptyKeepsInv ==
  ASSUME blocks' \in Seq(Nat), live' = <<>>, Outcome,
         \/ blocks' # <<>> /\ current' = 1 /\ offset' = HeadMetadata
         \/ blocks' = <<>> /\ current' = 0 /\ offset' = 0
  PROVE  IInv'
<1>1. HeadMetadata \in Nat
  BY ArenaAssumption DEF HeadMetadata
<1>2. Len(live') = 0 /\ 1..Len(live') = {}
  OBVIOUS
<1>3. ArenaTypeOK'
  <2>1. current' \in 0..Len(blocks') /\ (blocks' # <<>> => current' # 0)
    OBVIOUS
  <2>2. offset' \in Nat
    BY <1>1
  <2>3. QED
    BY <2>1, <2>2 DEF ArenaTypeOK, Outcome
<1>4. CursorIsTight'
  BY <1>2 DEF CursorIsTight, Here, EndOf, HeadMetadata
<1>5. ChunksOK' /\ MarksAreTight' /\ InOrder' /\ MetadataIntact'
  BY <1>2 DEF ChunksOK, MarksAreTight, Markers, InOrder, MetadataIntact
<1>6. QED
  BY <1>3, <1>4, <1>5 DEF IInv

\* A call that fails, or a crash, changes neither the chain nor the chunks.
LEMMA NothingKeepsInv ==
  ASSUME IInv, UNCHANGED <<blocks, current, offset, live>>, Outcome
  PROVE  IInv'
<1>1. ArenaTypeOK'
  BY DEF IInv, ArenaTypeOK, Outcome
<1>2. ChunksOK' /\ CursorIsTight'
  BY DEF IInv, ChunksOK, CursorIsTight, Here, EndOf
<1>3. MarksAreTight' /\ InOrder' /\ MetadataIntact'
  BY DEF IInv, MarksAreTight, Markers, EndOf, NoMark, InOrder,
         MetadataIntact, Metadata
<1>4. QED
  BY <1>1, <1>2, <1>3 DEF IInv

-----------------------------------------------------------------------------
(* Every step keeps the invariant. *)

\* One case per operation of the API.
LEMMA NextInv == IInv /\ [ArenaNext]_arenaVars => IInv'
<1> SUFFICES ASSUME IInv, [ArenaNext]_arenaVars
             PROVE  IInv'
  OBVIOUS
<1>1. /\ conf \in [cap : Nat, grow : BOOLEAN]
      /\ reply \in [call : Calls, size : Nat, ok : BOOLEAN]
      /\ base \in Seq(Nat) /\ Len(base) = Len(blocks)
  BY DEF IInv, ArenaTypeOK
<1>2. /\ \A size \in ChunkSizes : size \in Nat
      /\ \A cap \in ArenaCapacities : cap \in Nat
      /\ \A a \in Aligns : a \in Nat \ {0}
      /\ StackMarker \in Nat /\ MarkerAlign \in Nat \ {0}
      /\ HeadMetadata \in Nat /\ PageSize \in Nat \ {0}
  BY ArenaAssumption DEF HeadMetadata
<1>3. ASSUME NEW cap \in ArenaCapacities, NEW grow \in BOOLEAN, CreateArena(cap, grow)
      PROVE  IInv'
  <2>1. OsBlock(cap + HeadMetadata) \in Nat
    BY <1>2, AlignUpBounds DEF OsBlock
  <2>2. blocks' \in Seq(Nat) /\ blocks' # <<>>
    BY <2>1, <1>3 DEF CreateArena
  <2>3. Outcome
    <3>1. PICK p \in Mappable : base' = <<p>>
      BY <1>3 DEF CreateArena
    <3>2. base' \in Seq(Nat) /\ Len(base') = Len(blocks')
      BY <3>1, <1>3, ArenaAssumption DEF CreateArena
    <3>3. QED
      BY <3>2, <1>1, <1>2, <1>3 DEF CreateArena, Outcome, Reply, Calls
  <2>4. QED
    BY <2>2, <2>3, <1>3, EmptyKeepsInv DEF CreateArena
<1>4. ASSUME NEW cap \in ArenaCapacities, CreateFails(cap)
      PROVE  IInv'
  <2>1. Outcome
    BY <1>1, <1>2, <1>4 DEF CreateFails, Outcome, Reply, Calls
  <2>2. QED
    BY <2>1, <1>4, NothingKeepsInv DEF CreateFails
<1>5. ASSUME NEW size \in ChunkSizes, NEW a \in Aligns, Alloc(size, a)
      PROVE  IInv'
  <2>2. blocks # <<>> /\ Obtain(size, a, NoMark)
    BY <1>5 DEF Alloc, Exists
  <2>1. Outcome
    <3>1. base' \in Seq(Nat) /\ Len(base') = Len(blocks')
      BY <2>2, ObtainBases
    <3>2. Answer("alloc", size) /\ conf' = conf
      BY <1>5 DEF Alloc
    <3>3. reply' = Reply("alloc", size, TRUE) \/ reply' = Reply("crash", size, FALSE)
      BY <3>2, Zenon DEF Answer
    <3>4. reply' \in [call : Calls, size : Nat, ok : BOOLEAN]
      <4>1. size \in Nat
        BY <1>2
      <4>2. /\ Reply("alloc", size, TRUE) \in [call : Calls, size : Nat, ok : BOOLEAN]
            /\ Reply("crash", size, FALSE) \in [call : Calls, size : Nat, ok : BOOLEAN]
        BY <4>1 DEF Reply, Calls
      <4>3. QED
        BY <3>3, <4>2
    <3>5. QED
      BY <3>1, <3>2, <3>4, <1>1 DEF Outcome
  <2>3. QED
    BY <2>1, <2>2, <1>2, AppendKeepsInv
<1>6. ASSUME NEW size \in ChunkSizes, NEW a \in Aligns, AllocFails(size, a)
      PROVE  IInv'
  <2>1. Outcome
    BY <1>1, <1>2, <1>6 DEF AllocFails, Refused, Outcome, Reply, Calls
  <2>2. QED
    BY <2>1, <1>6, NothingKeepsInv DEF AllocFails, Refused
<1>7. CASE Marker
  <2>2. blocks # <<>> /\ Obtain(StackMarker, MarkerAlign, Here)
    BY <1>7 DEF Marker, Exists
  <2>1. Outcome
    <3>1. base' \in Seq(Nat) /\ Len(base') = Len(blocks')
      BY <2>2, ObtainBases
    <3>2. Answer("marker", StackMarker) /\ conf' = conf
      BY <1>7 DEF Marker
    <3>3. reply' = Reply("marker", StackMarker, TRUE) \/ reply' = Reply("crash", StackMarker, FALSE)
      BY <3>2, Zenon DEF Answer
    <3>4. reply' \in [call : Calls, size : Nat, ok : BOOLEAN]
      <4>1. StackMarker \in Nat
        BY <1>2
      <4>2. /\ Reply("marker", StackMarker, TRUE) \in [call : Calls, size : Nat, ok : BOOLEAN]
            /\ Reply("crash", StackMarker, FALSE) \in [call : Calls, size : Nat, ok : BOOLEAN]
        BY <4>1 DEF Reply, Calls
      <4>3. QED
        BY <3>3, <4>2
    <3>5. QED
      BY <3>1, <3>2, <3>4, <1>1 DEF Outcome
  <2>3. QED
    BY <2>1, <2>2, <1>2, AppendKeepsInv
<1>8. CASE MarkerCrashes
  <2>1. Outcome
    BY <1>1, <1>2, <1>8 DEF MarkerCrashes, Refused, Outcome, Reply, Calls
  <2>2. QED
    BY <2>1, <1>8, NothingKeepsInv DEF MarkerCrashes, Refused
<1>9. ASSUME NEW i \in Markers, PopToMarker(i)
      PROVE  IInv'
  BY <1>9, PopKeepsInv
<1>10. CASE Reset
  <2>1. Outcome
    BY <1>1, <1>10 DEF Reset, Outcome, Reply, Calls
  <2>2. blocks' \in Seq(Nat) /\ blocks' # <<>>
    BY <1>10 DEF Reset, Exists, IInv, ArenaTypeOK
  <2>3. QED
    BY <2>1, <2>2, <1>10, EmptyKeepsInv DEF Reset
<1>11. CASE DestroyArena
  <2>1. Outcome
    BY <1>1, <1>11 DEF DestroyArena, Outcome, Reply, Calls
  <2>2. blocks' \in Seq(Nat) /\ blocks' = <<>>
    BY <1>11 DEF DestroyArena
  <2>3. QED
    BY <2>1, <2>2, <1>11, EmptyKeepsInv DEF DestroyArena
<1>12. CASE UNCHANGED arenaVars
  <2>1. Outcome
    BY <1>1, <1>12 DEF arenaVars, Outcome
  <2>2. QED
    BY <2>1, <1>12, NothingKeepsInv DEF arenaVars
<1>13. QED
  BY <1>3, <1>4, <1>5, <1>6, <1>7, <1>8, <1>9, <1>10, <1>11, <1>12 DEF ArenaNext

\* The inductive invariant holds in every reachable state.
LEMMA Invariance == ArenaSpec => []IInv
  BY InitInv, NextInv, PTL DEF ArenaSpec

\* The type invariant of the arena of allocator.c.
THEOREM TypeCorrect == ArenaSpec => []ArenaTypeOK
<1>1. IInv => ArenaTypeOK
  BY DEF IInv
<1>2. QED
  BY <1>1, Invariance, PTL

\* Pops and resets give back exactly what was taken since the mark: the cursor
\* of allocator.c is always at the end of the newest chunk still owned.
THEOREM CursorTight == ArenaSpec => [](CursorIsTight /\ MarksAreTight)
<1>1. IInv => CursorIsTight /\ MarksAreTight
  BY DEF IInv
<1>2. QED
  BY <1>1, Invariance, PTL

-----------------------------------------------------------------------------
(* The chunks of small requests stay in their blocks.                      *)

\* No block of the chain is smaller than a page, so one that a pivot finds or
\* maps has room for a small request.
BlocksReachPage == \A b \in 1..Len(blocks) : PageSize <= blocks[b]

Small(size, a) == BlockHeader + size + a <= PageSize

\* Where a successful allocation leaves the cursor, relative to its block.
LEMMA ObtainFits ==
  ASSUME IInv, BlocksReachPage, blocks # <<>>,
         NEW size \in Nat, NEW a \in Nat \ {0},
         NEW mark, Obtain(size, a, mark)
  PROVE  /\ Small(size, a) => offset' <= blocks'[current']
         /\ BlocksReachPage'
<1> DEFINE pad == Padding(a)
<1>1. /\ blocks \in Seq(Nat) /\ offset \in Nat /\ current \in 1..Len(blocks)
  BY DEF IInv, ArenaTypeOK
<1>2. BlockHeader \in Nat /\ HeadMetadata \in Nat /\ PageSize \in Nat \ {0}
  BY ArenaAssumption DEF HeadMetadata
<1>3. /\ AlignUp(offset, a) \in Nat /\ pad \in Nat
      /\ offset + pad = AlignUp(offset, a) /\ pad < a
  <2>1. /\ AlignUp(offset, a) \in Nat
        /\ offset <= AlignUp(offset, a)
        /\ AlignUp(offset, a) < offset + a
    BY <1>1, AlignUpBounds
  <2>2. QED
    BY <1>1, <2>1 DEF Padding
<1> HIDE DEF pad
<1>4. Small(size, a) => BlockHeader + pad + size <= PageSize
  BY <1>2, <1>3 DEF Small
<1>5. CASE AllocInCurrent(size, a, mark)
  <2>1. /\ ~Full(size, a) /\ blocks' = blocks /\ current' = current
        /\ offset' = offset + pad + size
    BY <1>5 DEF AllocInCurrent, Place, pad
  <2> DEFINE m == Metadata(current)
             z == blocks[current]
             up == AlignUp(offset, a)
  <2>2. m \in Nat /\ z \in Nat
    <3>1. m \in Nat
      BY <1>2 DEF Metadata
    <3>2. z \in Nat
      BY <1>1
    <3>3. QED
      BY <3>1, <3>2
  <2>3. ~(up + size > z - m) /\ up \in Nat /\ offset' = up + size
    BY <2>1, <1>3 DEF Full, Usable
  <2> HIDE DEF m, z, up
  <2>4. offset' <= z
    BY <2>2, <2>3
  <2>5. QED
    BY <2>1, <2>4 DEF BlocksReachPage, z
<1>6. CASE AllocInRetained(size, a, mark)
  <2>1. /\ blocks' = blocks /\ current' = current + 1 /\ current < Len(blocks)
        /\ offset' = BlockHeader + pad + size
    BY <1>6 DEF AllocInRetained, Place, pad
  <2>2. current + 1 \in 1..Len(blocks)
    BY <1>1, <2>1
  <2>3. PageSize <= blocks[current + 1] /\ blocks[current + 1] \in Nat
    BY <1>1, <2>2 DEF BlocksReachPage
  <2> DEFINE z == blocks[current + 1]
  <2>4. /\ Small(size, a) => offset' <= PageSize
        /\ PageSize <= z /\ offset' \in Nat /\ z \in Nat
    BY <1>2, <1>3, <1>4, <2>1, <2>3
  <2> HIDE DEF z
  <2>5. Small(size, a) => offset' <= z
    BY <1>2, <2>4
  <2>6. QED
    BY <2>1, <2>5 DEF BlocksReachPage, z
<1>7. CASE AllocInNew(size, a, mark)
  <2> DEFINE want == Larger(blocks[1], size + BlockHeader)
             n    == OsBlock(want)
  <2>1. /\ blocks' = Append(blocks, n) /\ current' = current + 1
        /\ current = Len(blocks) /\ offset' = BlockHeader + pad + size
    BY <1>7 DEF AllocInNew, Place, pad
  <2>2. n \in Nat /\ PageSize <= n
    <3>1. blocks[1] \in Nat /\ PageSize <= blocks[1]
      BY <1>1 DEF BlocksReachPage
    <3>2. want \in Nat \ {0}
      <4>1. blocks[1] \in Nat \ {0} /\ size + BlockHeader \in Nat
        BY <1>2, <3>1
      <4>2. QED
        BY <4>1 DEF Larger
    <3>3. QED
      BY <1>2, <3>2, AlignUpReaches, AlignUpBounds DEF OsBlock
  <2> HIDE DEF n
  <2>3. /\ Len(blocks') = Len(blocks) + 1
        /\ \A b \in 1..Len(blocks) : blocks'[b] = blocks[b]
        /\ blocks'[Len(blocks) + 1] = n
    BY <1>1, <2>1, <2>2
  <2>4. BlocksReachPage'
    <3>1. ASSUME NEW b \in 1..(Len(blocks) + 1)
          PROVE  PageSize <= blocks'[b]
      <4>1. Len(blocks) \in Nat
        BY <1>1
      <4>2. CASE b \in 1..Len(blocks)
        BY <4>2, <2>3 DEF BlocksReachPage
      <4>3. CASE b = Len(blocks) + 1
        BY <4>3, <2>2, <2>3
      <4>4. QED
        BY <4>1, <4>2, <4>3
    <3>2. QED
      BY <2>3, <3>1 DEF BlocksReachPage
  <2>5. Small(size, a) => offset' <= n
    BY <1>2, <1>3, <1>4, <2>1, <2>2
  <2>6. QED
    BY <2>1, <2>3, <2>4, <2>5
<1>8. QED
  BY <1>5, <1>6, <1>7 DEF Obtain

\* An allocation keeps the chunks that were in their blocks there, and adds one
\* that is in its block if it is small.
LEMMA AppendKeepsSmall ==
  ASSUME IInv, SmallInBlock, BlocksReachPage, blocks # <<>>,
         NEW size \in Nat, NEW a \in Nat \ {0},
         NEW mark \in [blk : Nat, off : Nat], Obtain(size, a, mark)
  PROVE  SmallInBlock' /\ BlocksReachPage'
<1>1. PICK lo : Placed(lo, size, a, mark)
  BY ObtainEffect
<1>2. (Small(size, a) => offset' <= blocks'[current']) /\ BlocksReachPage'
  BY ObtainFits
<1> DEFINE c == Chunk(current', lo, size, a, current' # current, mark)
<1>3. live \in Seq(ChunkSet) /\ blocks \in Seq(Nat)
  BY DEF IInv, ArenaTypeOK, ChunkSet
<1>4. live' = Append(live, c) /\ c \in ChunkSet
  BY <1>1 DEF Placed
<1>5. c.blk = current' /\ c.hi = offset' /\ c.hi - c.lo = size /\ c.align = a
  <2>1. c.hi = lo + size /\ c.lo = lo /\ lo \in Nat
    BY <1>1 DEF Placed, Chunk
  <2>2. (lo + size) - lo = size
    BY <2>1
  <2>3. offset' = lo + size /\ c.blk = current' /\ c.align = a
    BY <1>1 DEF Placed, Chunk
  <2> HIDE DEF c
  <2>4. QED
    BY <2>1, <2>2, <2>3
<1> HIDE DEF c
<1>6. /\ Len(live) \in Nat /\ Len(live') = Len(live) + 1
      /\ \A i \in 1..Len(live) : live'[i] = live[i]
      /\ live'[Len(live) + 1] = c
  BY <1>3, <1>4
<1>7. ASSUME NEW i \in 1..(Len(live) + 1),
             BlockHeader + (live'[i].hi - live'[i].lo) + live'[i].align <= PageSize
      PROVE  live'[i].hi <= blocks'[live'[i].blk]
  <2>1. CASE i = Len(live) + 1
    <3>1. Small(size, a)
      BY <2>1, <1>5, <1>6, <1>7 DEF Small
    <3>2. QED
      BY <2>1, <3>1, <1>2, <1>5, <1>6
  <2>2. CASE i \in 1..Len(live)
    <3>1. live[i].hi <= blocks[live[i].blk] /\ live[i].blk \in 1..Len(blocks)
      BY <2>2, <1>6, <1>7 DEF SmallInBlock, IInv, ChunksOK
    <3>2. blocks'[live[i].blk] = blocks[live[i].blk]
      BY <1>1, <3>1 DEF Placed
    <3>3. QED
      BY <2>2, <1>6, <3>1, <3>2
  <2>3. QED
    BY <1>6, <2>1, <2>2
<1>8. QED
  BY <1>2, <1>6, <1>7 DEF SmallInBlock

\* Every step keeps small requests in their blocks.
LEMMA NextKeepsSmall ==
  ASSUME IInv, SmallInBlock, BlocksReachPage, [ArenaNext]_arenaVars
  PROVE  SmallInBlock' /\ BlocksReachPage'
<1>1. /\ \A size \in ChunkSizes : size \in Nat
      /\ \A cap \in ArenaCapacities : cap \in Nat
      /\ \A a \in Aligns : a \in Nat \ {0}
      /\ StackMarker \in Nat /\ MarkerAlign \in Nat \ {0}
      /\ HeadMetadata \in Nat \ {0} /\ PageSize \in Nat \ {0}
  BY ArenaAssumption DEF HeadMetadata
<1>2. NoMark \in [blk : Nat, off : Nat] /\ Here \in [blk : Nat, off : Nat]
  BY DEF IInv, ArenaTypeOK, NoMark, Here
<1>3. ASSUME NEW cap \in ArenaCapacities, NEW grow \in BOOLEAN, CreateArena(cap, grow)
      PROVE  SmallInBlock' /\ BlocksReachPage'
  <2>1. PageSize <= OsBlock(cap + HeadMetadata)
    <3>1. cap + HeadMetadata \in Nat \ {0}
      BY <1>1
    <3>2. QED
      BY <1>1, <3>1, AlignUpReaches DEF OsBlock
  <2>2. blocks' = <<OsBlock(cap + HeadMetadata)>> /\ live' = <<>>
    BY <1>3 DEF CreateArena
  <2>3. SmallInBlock'
    <3>1. 1..Len(live') = {}
      BY <2>2
    <3>2. QED
      BY <3>1 DEF SmallInBlock
  <2>4. QED
    BY <2>1, <2>2, <2>3 DEF BlocksReachPage
<1>4. ASSUME NEW size \in ChunkSizes, NEW a \in Aligns, Alloc(size, a)
      PROVE  SmallInBlock' /\ BlocksReachPage'
  <2>1. blocks # <<>> /\ Obtain(size, a, NoMark)
    BY <1>4 DEF Alloc, Exists
  <2>2. QED
    BY <1>1, <1>2, <2>1, AppendKeepsSmall
<1>5. CASE Marker
  <2>1. blocks # <<>> /\ Obtain(StackMarker, MarkerAlign, Here)
    BY <1>5 DEF Marker, Exists
  <2>2. QED
    BY <1>1, <1>2, <2>1, AppendKeepsSmall
<1>6. ASSUME NEW i \in Markers, PopToMarker(i)
      PROVE  SmallInBlock' /\ BlocksReachPage'
  <2>1. blocks' = blocks /\ live' = SubSeq(live, 1, i - 1)
    BY <1>6 DEF PopToMarker
  <2>2. live \in Seq(ChunkSet) /\ i \in 1..Len(live)
    BY DEF IInv, ArenaTypeOK, ChunkSet, Markers
  <2>3. \A k \in 1..Len(live') : k \in 1..Len(live) /\ live'[k] = live[k]
    BY <2>1, <2>2
  <2>4. QED
    BY <2>1, <2>3 DEF SmallInBlock, BlocksReachPage
<1>7. CASE Reset
  BY <1>7 DEF Reset, SmallInBlock, BlocksReachPage
<1>8. CASE DestroyArena
  BY <1>8 DEF DestroyArena, SmallInBlock, BlocksReachPage
<1>9. ASSUME blocks' = blocks, live' = live
      PROVE  SmallInBlock' /\ BlocksReachPage'
  BY <1>9 DEF SmallInBlock, BlocksReachPage
<1>10. QED
  BY <1>3, <1>4, <1>5, <1>6, <1>7, <1>8, <1>9
     DEF ArenaNext, arenaVars, CreateFails, AllocFails, MarkerCrashes, Refused

\* A request that fits a page with a block header and its worst padding gets a
\* chunk within its block: the pivot of allocator.c to a block that it does not
\* measure is harmless for such requests.
THEOREM SmallRequestsStayInBlock == ArenaSpec => []SmallInBlock
<1>1. ArenaInit => SmallInBlock /\ BlocksReachPage
  BY DEF ArenaInit, SmallInBlock, BlocksReachPage
<1>2. IInv /\ SmallInBlock /\ BlocksReachPage /\ [ArenaNext]_arenaVars
        => (SmallInBlock /\ BlocksReachPage)'
  BY NextKeepsSmall
<1>3. QED
  BY <1>1, <1>2, Invariance, PTL DEF ArenaSpec

-----------------------------------------------------------------------------
(* Where chunks lie in the memory of the process. *)

\* No two blocks of the chain share an address, as the OS maps them.
BlocksApart ==
  \A b, c \in 1..Len(blocks) :
    b # c => base[b] + blocks[b] <= base[c] \/ base[c] + blocks[c] <= base[b]

\* The head block is the smallest, and has room for the structs of the arena.
HeadIsSmallest ==
  \A b \in 1..Len(blocks) : HeadMetadata <= blocks[1] /\ blocks[1] <= blocks[b]

\* A chunk that a client can count on ends within its block.
SoundInBlock ==
  \A i \in 1..Len(live) : Sound(i) => live[i].hi <= blocks[live[i].blk]

Layout == BlocksApart /\ HeadIsSmallest /\ SoundInBlock

\* What ends within n bytes from p is below all that begins from p + n on.
LEMMA BelowTheNext ==
  ASSUME NEW p \in Nat, NEW n \in Nat, NEW q \in Nat, NEW hi \in Nat, NEW lo \in Nat,
         p + n <= q, hi <= n
  PROVE  p + hi <= q + lo /\ p + hi <= q
  OBVIOUS

\* Chunks that keep to their blocks, in blocks that are apart, are disjoint.
LEMMA LayoutIsDisjoint ==
  ASSUME IInv, Layout
  PROVE  LiveDisjoint
<1>1. /\ blocks \in Seq(Nat) /\ base \in Seq(Nat) /\ Len(base) = Len(blocks)
      /\ live \in Seq(ChunkSet)
  BY DEF IInv, ArenaTypeOK, ChunkSet
<1>2. BlockHeader \in Nat /\ HeadMetadata \in Nat /\ BlockHeader <= HeadMetadata
  BY ArenaAssumption DEF HeadMetadata
<1>3. ASSUME NEW b \in 1..Len(blocks)
      PROVE  /\ base[b] \in Nat /\ blocks[b] \in Nat /\ Metadata(b) \in Nat
             /\ Metadata(b) <= blocks[b]
  <2>1. base[b] \in Nat /\ blocks[b] \in Nat /\ blocks[1] \in Nat
    BY <1>1
  <2>2. HeadMetadata <= blocks[1] /\ blocks[1] <= blocks[b]
    BY DEF Layout, HeadIsSmallest
  <2>3. Metadata(b) \in Nat /\ Metadata(b) <= HeadMetadata
    BY <1>2 DEF Metadata
  <2>4. QED
    BY <1>2, <2>1, <2>2, <2>3
<1>4. ASSUME NEW i \in 1..Len(live), Sound(i)
      PROVE  /\ live[i].blk \in 1..Len(blocks)
             /\ live[i].lo \in Nat /\ live[i].hi \in Nat
             /\ Metadata(live[i].blk) <= live[i].lo /\ live[i].lo <= live[i].hi
             /\ live[i].hi <= blocks[live[i].blk]
  <2>1. live[i] \in ChunkSet
    BY <1>1
  <2>2. live[i].blk \in 1..Len(blocks) /\ live[i].lo <= live[i].hi
    BY DEF IInv, ChunksOK
  <2>3. live[i].lo >= Metadata(live[i].blk)
    BY DEF IInv, MetadataIntact
  <2>4. live[i].hi <= blocks[live[i].blk]
    BY <1>4 DEF Layout, SoundInBlock
  <2>5. Metadata(live[i].blk) \in Nat
    BY <1>3, <2>2
  <2>6. QED
    BY <2>1, <2>2, <2>3, <2>4, <2>5 DEF ChunkSet
<1>5. ASSUME NEW i \in 1..Len(live), NEW j \in 1..Len(live), Sound(i), Sound(j), i < j
      PROVE  Till(i) <= From(j) \/ Till(j) <= From(i)
  <2> DEFINE b == live[i].blk
             c == live[j].blk
  <2>1. b \in 1..Len(blocks) /\ c \in 1..Len(blocks)
    BY <1>4, <1>5
  <2>2. /\ live[i].lo \in Nat /\ live[i].hi \in Nat /\ live[j].lo \in Nat /\ live[j].hi \in Nat
        /\ live[i].hi <= blocks[b] /\ live[j].hi <= blocks[c]
    BY <1>4, <1>5
  <2>3. /\ base[b] \in Nat /\ blocks[b] \in Nat
        /\ base[c] \in Nat /\ blocks[c] \in Nat
    BY <1>3, <2>1
  <2>4. \/ live[i].blk < live[j].blk
        \/ live[i].blk = live[j].blk /\ live[i].hi <= live[j].lo
    BY <1>5 DEF IInv, InOrder
  <2>5. b # c => base[b] + blocks[b] <= base[c] \/ base[c] + blocks[c] <= base[b]
    BY <2>1 DEF Layout, BlocksApart
  <2>6. CASE b = c
    <3>1. live[i].hi <= live[j].lo
      BY <2>1, <2>4, <2>6
    <3>2. base[b] + live[i].hi <= base[b] + live[j].lo
      BY <3>1, <2>2, <2>3
    <3>3. QED
      BY <3>2, <2>6 DEF Till, From
  <2>7. CASE base[b] + blocks[b] <= base[c]
    <3>1. base[b] + live[i].hi <= base[c] + live[j].lo
      BY <2>2, <2>3, <2>7, BelowTheNext
    <3>2. QED
      BY <3>1 DEF Till, From
  <2>8. CASE base[c] + blocks[c] <= base[b]
    <3>1. base[c] + live[j].hi <= base[b] + live[i].lo
      BY <2>2, <2>3, <2>8, BelowTheNext
    <3>2. QED
      BY <3>1 DEF Till, From
  <2>9. QED
    BY <2>5, <2>6, <2>7, <2>8
<1>6. ASSUME NEW i \in 1..Len(live), Sound(i), NEW c \in 1..Len(blocks)
      PROVE  Till(i) <= base[c] \/ base[c] + Metadata(c) <= From(i)
  <2> DEFINE b == live[i].blk
             m == Metadata(c)
  <2>1. /\ b \in 1..Len(blocks) /\ live[i].lo \in Nat /\ live[i].hi \in Nat
        /\ Metadata(b) <= live[i].lo /\ live[i].hi <= blocks[b]
    BY <1>4, <1>6
  <2>2. /\ base[b] \in Nat /\ blocks[b] \in Nat
        /\ base[c] \in Nat /\ blocks[c] \in Nat /\ m \in Nat /\ m <= blocks[c]
    BY <1>3, <2>1
  <2>3. b # c => base[b] + blocks[b] <= base[c] \/ base[c] + blocks[c] <= base[b]
    BY <2>1 DEF Layout, BlocksApart
  <2>4. CASE b = c
    <3>1. base[c] + m <= base[b] + live[i].lo
      <4>1. m <= live[i].lo
        BY <2>1, <2>4
      <4> HIDE DEF b, m
      <4>2. QED
        BY <4>1, <2>1, <2>2, <2>4
    <3>2. QED
      BY <3>1 DEF From
  <2>5. CASE base[b] + blocks[b] <= base[c]
    <3>1. base[b] + live[i].hi <= base[c]
      BY <2>1, <2>2, <2>5, BelowTheNext
    <3>2. QED
      BY <3>1 DEF Till
  <2>6. CASE base[c] + blocks[c] <= base[b]
    <3>1. base[c] + m <= base[b] + live[i].lo
      BY <2>1, <2>2, <2>6, BelowTheNext
    <3>2. QED
      BY <3>1 DEF From
  <2>7. QED
    BY <2>3, <2>4, <2>5, <2>6
<1>7. QED
  BY <1>5, <1>6 DEF LiveDisjoint

\* Where an allocation leaves the cursor, when its chunk is one that a client
\* can count on; and what it does to the sizes of the blocks.
LEMMA ObtainKeepsToBlock ==
  ASSUME IInv, HeadIsSmallest, blocks # <<>>,
         NEW size \in Nat, NEW a \in Nat \ {0}, NEW mark, Obtain(size, a, mark)
  PROVE  /\ current' = current \/ BlockHeader + size + (a - 1) <= blocks[1]
              => offset' <= blocks'[current']
         /\ blocks'[1] = blocks[1]
         /\ HeadIsSmallest'
<1> DEFINE pad == Padding(a)
<1>1. /\ blocks \in Seq(Nat) /\ offset \in Nat /\ current \in 1..Len(blocks)
  BY DEF IInv, ArenaTypeOK
<1>2. BlockHeader \in Nat /\ HeadMetadata \in Nat /\ PageSize \in Nat \ {0}
  BY ArenaAssumption DEF HeadMetadata
<1>3. /\ AlignUp(offset, a) \in Nat /\ pad \in Nat
      /\ offset + pad = AlignUp(offset, a) /\ pad <= a - 1
  <2>1. /\ AlignUp(offset, a) \in Nat
        /\ offset <= AlignUp(offset, a)
        /\ AlignUp(offset, a) < offset + a
    BY <1>1, AlignUpBounds
  <2>2. QED
    BY <1>1, <2>1 DEF Padding
<1> HIDE DEF pad
<1>4. BlockHeader + size + (a - 1) <= blocks[1] => BlockHeader + pad + size <= blocks[1]
  <2>1. blocks[1] \in Nat
    BY <1>1
  <2>2. QED
    BY <2>1, <1>2, <1>3
<1>5. CASE AllocInCurrent(size, a, mark)
  <2>1. /\ ~Full(size, a) /\ blocks' = blocks /\ current' = current
        /\ offset' = offset + pad + size
    BY <1>5 DEF AllocInCurrent, Place, pad
  <2> DEFINE m == Metadata(current)
             z == blocks[current]
             up == AlignUp(offset, a)
  <2>2. m \in Nat /\ z \in Nat
    <3>1. m \in Nat
      BY <1>2 DEF Metadata
    <3>2. z \in Nat
      BY <1>1
    <3>3. QED
      BY <3>1, <3>2
  <2>3. ~(up + size > z - m) /\ up \in Nat /\ offset' = up + size
    BY <2>1, <1>3 DEF Full, Usable
  <2> HIDE DEF m, z, up
  <2>4. offset' <= z
    BY <2>2, <2>3
  <2>5. QED
    BY <2>1, <2>4 DEF HeadIsSmallest, HeadMetadata, z
<1>6. CASE AllocInRetained(size, a, mark)
  <2>1. /\ blocks' = blocks /\ current' = current + 1 /\ current < Len(blocks)
        /\ offset' = BlockHeader + pad + size
    BY <1>6 DEF AllocInRetained, Place, pad
  <2>2. current + 1 \in 1..Len(blocks)
    BY <1>1, <2>1
  <2>3. /\ blocks[1] <= blocks[current + 1]
        /\ blocks[1] \in Nat /\ blocks[current + 1] \in Nat
    BY <1>1, <2>2 DEF HeadIsSmallest
  <2>4. BlockHeader + size + (a - 1) <= blocks[1] => offset' <= blocks[current + 1]
    BY <1>2, <1>3, <1>4, <2>1, <2>3
  <2>5. current' # current
    BY <1>1, <2>1
  <2>6. QED
    BY <2>1, <2>4, <2>5 DEF HeadIsSmallest, HeadMetadata
<1>7. CASE AllocInNew(size, a, mark)
  <2> DEFINE want == Larger(blocks[1], size + BlockHeader)
             n    == OsBlock(want)
  <2>1. /\ blocks' = Append(blocks, n) /\ current' = current + 1
        /\ current = Len(blocks) /\ offset' = BlockHeader + pad + size
    BY <1>7 DEF AllocInNew, Place, pad
  <2>2. n \in Nat /\ blocks[1] <= n /\ blocks[1] \in Nat
    <3>1. blocks[1] \in Nat
      BY <1>1
    <3>2. want \in Nat /\ blocks[1] <= want
      BY <3>1, <1>2 DEF Larger
    <3> HIDE DEF want
    <3>3. n \in Nat /\ want <= n
      BY <1>2, <3>2, AlignUpBounds DEF OsBlock
    <3>4. QED
      BY <3>1, <3>2, <3>3
  <2> HIDE DEF n
  <2>3. /\ Len(blocks') = Len(blocks) + 1
        /\ \A b \in 1..Len(blocks) : blocks'[b] = blocks[b]
        /\ blocks'[Len(blocks) + 1] = n
    BY <1>1, <2>1, <2>2
  <2>4. HeadMetadata <= blocks[1] /\ blocks'[1] = blocks[1]
    <3>1. 1 \in 1..Len(blocks)
      BY <1>1
    <3>2. QED
      BY <3>1, <2>3 DEF HeadIsSmallest
  <2>5. HeadIsSmallest'
    <3>1. ASSUME NEW b \in 1..(Len(blocks) + 1)
          PROVE  blocks'[1] <= blocks'[b]
      <4>1. Len(blocks) \in Nat
        BY <1>1
      <4>2. CASE b \in 1..Len(blocks)
        BY <4>2, <2>3, <2>4 DEF HeadIsSmallest
      <4>3. CASE b = Len(blocks) + 1
        BY <4>3, <2>2, <2>3, <2>4
      <4>4. QED
        BY <4>1, <4>2, <4>3
    <3>2. QED
      BY <2>3, <2>4, <3>1 DEF HeadIsSmallest, HeadMetadata
  <2>6. BlockHeader + size + (a - 1) <= blocks[1] => offset' <= n
    BY <1>2, <1>3, <1>4, <2>1, <2>2
  <2>7. current' # current /\ blocks'[current'] = n
    BY <1>1, <2>1, <2>3
  <2>8. QED
    BY <2>4, <2>5, <2>6, <2>7
<1>8. QED
  BY <1>5, <1>6, <1>7 DEF Obtain

\* An allocation keeps the layout.
LEMMA AppendKeepsLayout ==
  ASSUME IInv, Layout, blocks # <<>>, NEW size \in Nat, NEW a \in Nat \ {0},
         NEW mark \in {NoMark, Here}, Obtain(size, a, mark)
  PROVE  Layout'
<1>1. /\ blocks \in Seq(Nat) /\ base \in Seq(Nat) /\ Len(base) = Len(blocks)
      /\ offset \in Nat /\ current \in 1..Len(blocks) /\ live \in Seq(ChunkSet)
  BY DEF IInv, ArenaTypeOK, ChunkSet
<1>2. mark \in [blk : Nat, off : Nat]
  BY <1>1 DEF NoMark, Here
<1>3. PICK lo : Placed(lo, size, a, mark)
  BY <1>2, ObtainEffect
<1>4. /\ current' = current \/ BlockHeader + size + (a - 1) <= blocks[1]
           => offset' <= blocks'[current']
      /\ blocks'[1] = blocks[1]
      /\ HeadIsSmallest'
  BY ObtainKeepsToBlock DEF Layout
<1>5. BlocksApart'
  <2>1. CASE blocks' = blocks /\ base' = base
    BY <2>1 DEF Layout, BlocksApart
  <2>2. ASSUME NEW n, NEW p, blocks' = Append(blocks, n), base' = Append(base, p), Vacant(p, n)
        PROVE  BlocksApart'
    <3>1. /\ Len(blocks') = Len(blocks) + 1 /\ Len(blocks) \in Nat
          /\ \A b \in 1..Len(blocks) : blocks'[b] = blocks[b] /\ base'[b] = base[b]
          /\ blocks'[Len(blocks) + 1] = n /\ base'[Len(blocks) + 1] = p
      BY <1>1, <2>2
    <3>2. \A b \in 1..Len(blocks) : p + n <= base[b] \/ base[b] + blocks[b] <= p
      BY <2>2 DEF Vacant
    <3>3. ASSUME NEW b \in 1..(Len(blocks) + 1), NEW c \in 1..(Len(blocks) + 1), b # c
          PROVE  base'[b] + blocks'[b] <= base'[c] \/ base'[c] + blocks'[c] <= base'[b]
      <4>1. \/ b \in 1..Len(blocks) /\ c \in 1..Len(blocks)
            \/ b \in 1..Len(blocks) /\ c = Len(blocks) + 1
            \/ b = Len(blocks) + 1 /\ c \in 1..Len(blocks)
        BY <3>1, <3>3
      <4>2. CASE b \in 1..Len(blocks) /\ c \in 1..Len(blocks)
        BY <4>2, <3>1, <3>3 DEF Layout, BlocksApart
      <4>3. CASE b \in 1..Len(blocks) /\ c = Len(blocks) + 1
        BY <4>3, <3>1, <3>2
      <4>4. CASE b = Len(blocks) + 1 /\ c \in 1..Len(blocks)
        BY <4>4, <3>1, <3>2
      <4>5. QED
        BY <4>1, <4>2, <4>3, <4>4
    <3>4. QED
      BY <3>1, <3>3 DEF BlocksApart
  <2>3. QED
    BY <2>1, <2>2, ObtainBases
<1> DEFINE c == Chunk(current', lo, size, a, current' # current, mark)
<1>6. live' = Append(live, c) /\ c \in ChunkSet
  BY <1>3 DEF Placed
<1>7. /\ c.blk = current' /\ c.hi = offset' /\ c.hi - c.lo = size /\ c.align = a
      /\ c.pivoted = (current' # current)
  <2>1. /\ c.hi = lo + size /\ c.lo = lo /\ lo \in Nat
        /\ c.blk = current' /\ c.align = a /\ c.pivoted = (current' # current)
    BY <1>3 DEF Placed, Chunk
  <2>2. offset' = lo + size
    BY <1>3 DEF Placed
  <2> HIDE DEF c
  <2>3. (lo + size) - lo = size
    BY <2>1
  <2>4. QED
    BY <2>1, <2>2, <2>3, <1>3
<1> HIDE DEF c
<1>8. /\ Len(live) \in Nat /\ Len(live') = Len(live) + 1
      /\ \A i \in 1..Len(live) : live'[i] = live[i]
      /\ live'[Len(live) + 1] = c
  BY <1>1, <1>6
<1>9. ASSUME NEW i \in 1..(Len(live) + 1), Sound(i)'
      PROVE  live'[i].hi <= blocks'[live'[i].blk]
  <2>1. CASE i = Len(live) + 1
    <3>1. live'[i] = c
      BY <2>1, <1>8
    <3>2. ~c.pivoted \/ BlockHeader + (c.hi - c.lo) + (c.align - 1) <= blocks'[1]
      BY <3>1, <1>9 DEF Sound
    <3>3. current' = current \/ BlockHeader + size + (a - 1) <= blocks[1]
      BY <3>2, <1>4, <1>7
    <3>4. QED
      BY <3>1, <3>3, <1>4, <1>7
  <2>2. CASE i \in 1..Len(live)
    <3>1. live'[i] = live[i]
      BY <2>2, <1>8
    <3>2. Sound(i)
      BY <3>1, <1>4, <1>9 DEF Sound
    <3>3. live[i].hi <= blocks[live[i].blk] /\ live[i].blk \in 1..Len(blocks)
      BY <2>2, <3>2 DEF Layout, SoundInBlock, IInv, ChunksOK
    <3>4. blocks'[live[i].blk] = blocks[live[i].blk]
      BY <1>3, <3>3 DEF Placed
    <3>5. QED
      BY <3>1, <3>3, <3>4
  <2>3. QED
    BY <1>8, <2>1, <2>2
<1>10. SoundInBlock'
  BY <1>8, <1>9 DEF SoundInBlock
<1>11. QED
  BY <1>4, <1>5, <1>10 DEF Layout

\* Every step keeps the layout.
LEMMA NextKeepsLayout ==
  ASSUME IInv, Layout, [ArenaNext]_arenaVars
  PROVE  Layout'
<1>1. /\ \A size \in ChunkSizes : size \in Nat
      /\ \A cap \in ArenaCapacities : cap \in Nat
      /\ \A a \in Aligns : a \in Nat \ {0}
      /\ StackMarker \in Nat /\ MarkerAlign \in Nat \ {0}
      /\ HeadMetadata \in Nat /\ PageSize \in Nat \ {0}
  BY ArenaAssumption DEF HeadMetadata
<1>2. ASSUME NEW cap \in ArenaCapacities, NEW grow \in BOOLEAN, CreateArena(cap, grow)
      PROVE  Layout'
  <2> DEFINE n == OsBlock(cap + HeadMetadata)
  <2>1. n \in Nat /\ HeadMetadata <= n
    <3>1. cap + HeadMetadata \in Nat /\ HeadMetadata <= cap + HeadMetadata
      BY <1>1
    <3>2. n \in Nat /\ cap + HeadMetadata <= n
      BY <1>1, <3>1, AlignUpBounds DEF OsBlock
    <3>3. QED
      BY <1>1, <3>1, <3>2
  <2>2. blocks' = <<n>> /\ live' = <<>>
    BY <1>2 DEF CreateArena
  <2> HIDE DEF n
  <2>3. HeadIsSmallest' /\ BlocksApart'
    BY <2>1, <2>2 DEF HeadIsSmallest, BlocksApart, HeadMetadata
  <2>4. SoundInBlock'
    BY <2>2 DEF SoundInBlock
  <2>5. QED
    BY <2>3, <2>4 DEF Layout
<1>3. ASSUME NEW size \in ChunkSizes, NEW a \in Aligns, Alloc(size, a)
      PROVE  Layout'
  <2>1. blocks # <<>> /\ Obtain(size, a, NoMark)
    BY <1>3 DEF Alloc, Exists
  <2>2. QED
    BY <1>1, <2>1, AppendKeepsLayout
<1>4. CASE Marker
  <2>1. blocks # <<>> /\ Obtain(StackMarker, MarkerAlign, Here)
    BY <1>4 DEF Marker, Exists
  <2>2. QED
    BY <1>1, <2>1, AppendKeepsLayout
<1>5. ASSUME blocks' = blocks, base' = base,
             \A k \in 1..Len(live') : k \in 1..Len(live) /\ live'[k] = live[k]
      PROVE  Layout'
  <2>1. BlocksApart' /\ HeadIsSmallest'
    BY <1>5 DEF Layout, BlocksApart, HeadIsSmallest, HeadMetadata
  <2>2. ASSUME NEW k \in 1..Len(live'), Sound(k)'
        PROVE  live'[k].hi <= blocks'[live'[k].blk]
    <3>1. k \in 1..Len(live) /\ live'[k] = live[k] /\ Sound(k)
      BY <1>5, <2>2 DEF Sound
    <3>2. QED
      BY <1>5, <3>1 DEF Layout, SoundInBlock
  <2>3. QED
    BY <2>1, <2>2 DEF Layout, SoundInBlock
<1>6. ASSUME NEW i \in Markers, PopToMarker(i)
      PROVE  Layout'
  <2>1. blocks' = blocks /\ base' = base /\ live' = SubSeq(live, 1, i - 1)
    BY <1>6 DEF PopToMarker
  <2>2. live \in Seq(ChunkSet) /\ i \in 1..Len(live)
    BY DEF IInv, ArenaTypeOK, ChunkSet, Markers
  <2>3. \A k \in 1..Len(live') : k \in 1..Len(live) /\ live'[k] = live[k]
    BY <2>1, <2>2
  <2>4. QED
    BY <1>5, <2>1, <2>3
<1>7. CASE Reset
  BY <1>5, <1>7 DEF Reset
<1>8. CASE DestroyArena
  BY <1>8 DEF DestroyArena, Layout, BlocksApart, HeadIsSmallest, SoundInBlock
<1>9. ASSUME blocks' = blocks, base' = base, live' = live
      PROVE  Layout'
  BY <1>5, <1>9
<1>10. QED
  BY <1>2, <1>3, <1>4, <1>6, <1>7, <1>8, <1>9
     DEF ArenaNext, arenaVars, CreateFails, AllocFails, MarkerCrashes, Refused

\* In the memory of the process alok_arena_alloc never hands out a byte that the
\* client still owns, nor one of the arena's own headers, for every size of a
\* chunk that causes no pivot, and for every one a default block has room for,
\* whatever the pops and resets between and wherever the blocks are mapped.
THEOREM Exclusive == ArenaSpec => []LiveDisjoint
<1>1. ArenaInit => Layout
  BY DEF ArenaInit, Layout, BlocksApart, HeadIsSmallest, SoundInBlock
<1>2. IInv /\ Layout /\ [ArenaNext]_arenaVars => Layout'
  BY NextKeepsLayout
<1>3. IInv /\ Layout => LiveDisjoint
  BY LayoutIsDisjoint
<1>4. QED
  BY <1>1, <1>2, <1>3, Invariance, PTL DEF ArenaSpec

=============================================================================
