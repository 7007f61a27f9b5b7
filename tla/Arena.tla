------------------------------- MODULE Arena --------------------------------
(***************************************************************************)
(* The growable bump allocator of src/memory/allocator.c.                  *)
(*                                                                         *)
(* An arena is a chain of OS blocks.  Each block begins with a BlockHeader *)
(* and the head block also holds the AlokArena and AllocatorHeader         *)
(* structs.  One cursor (current_block, offset) advances with every        *)
(* allocation; when the current block is full the cursor pivots to the     *)
(* next block of the chain, which is reused after a reset or a pop and     *)
(* mapped anew otherwise.                                                  *)
(*                                                                         *)
(* Addresses are kept exact, contents are not: a chunk is the interval     *)
(* [lo, hi) counted from the first byte of its block as the code does, and *)
(* each block lies at an address of the process, where the OS mapped it.   *)
(* `live` lists, oldest first, the chunks the client still owns: the ones  *)
(* handed out since the last reset and not popped since.                   *)
(***************************************************************************)
EXTENDS Integers, Sequences

CONSTANTS
  PageSize,       \* getpagesize()
  BlockHeader,    \* sizeof(BlockHeader)
  AlokArena,      \* sizeof(AlokArena)
  AllocatorHeader,\* sizeof(AllocatorHeader)
  StackMarker,    \* sizeof(StackMarker)
  MarkerAlign,    \* alignof(StackMarker)
  ArenaCapacities,\* values of arena_capacity the client passes to create
  ChunkSizes,     \* values of size the client passes to alloc
  Mappable,       \* addresses at which the OS may map a block
  Aligns,         \* alignments, after _alok_arena_alloc made them powers of 2
  ChainBound,     \* bound: blocks in a chain
  MaxLive         \* bound: chunks the client owns at a time

ASSUME ArenaAssumption ==
  /\ {PageSize, MarkerAlign} \cup Aligns \subseteq Nat \ {0}
  /\ {BlockHeader, AlokArena, AllocatorHeader, StackMarker} \subseteq Nat \ {0}
  /\ ArenaCapacities \cup ChunkSizes \cup Mappable \subseteq Nat
  /\ {ChainBound, MaxLive} \subseteq Nat

VARIABLES
  blocks,    \* block_size of each block of the chain, head first; <<>>: no arena
  base,      \* the address of each
  current,   \* index in the chain of current_block
  offset,    \* first free byte of the current block
  conf,      \* the arguments of create: [cap, grow]
  live,      \* ghost: the chunks the client owns, oldest first
  reply      \* what the last call returned: [call, size, ok]

arenaVars == <<blocks, base, current, offset, conf, live, reply>>

-----------------------------------------------------------------------------
(* Sizes and alignment. *)

\* A value v rounded up to a multiple of a.
AlignUp(v, a) == v + ((-v) % a)

HeadMetadata == BlockHeader + AlokArena + AllocatorHeader

\* The bytes at the start of block b that belong to the arena itself.
Metadata(b) == IF b = 1 THEN HeadMetadata ELSE BlockHeader

\* usable_size, as recorded when block b was mapped.
Usable(b) == blocks[b] - Metadata(b)

Larger(x, y) == IF x > y THEN x ELSE y

\* block_size of a new OS block that is asked to hold n bytes.
OsBlock(n) == AlignUp(n, PageSize)

\* mmap maps n bytes at p only where no block of the arena lies.
Vacant(p, n) ==
  \A b \in 1..Len(blocks) : p + n <= base[b] \/ base[b] + blocks[b] <= p

-----------------------------------------------------------------------------
(* The client's chunks and markers. *)

Chunk(b, lo, size, a, fresh, mark) ==
  [blk |-> b, lo |-> lo, hi |-> lo + size, align |-> a, pivoted |-> fresh, mark |-> mark]

NoMark == [blk |-> 0, off |-> 0]

\* What alok_arena_marker saves before it allocates the marker's own chunk.
Here == [blk |-> current, off |-> offset]

\* The chunks that are markers, by their position in live.
Markers == {i \in 1..Len(live) : live[i].mark # NoMark}

Calls == {"none", "create", "alloc", "marker", "pop", "reset", "destroy", "crash"}

Reply(call, size, ok) == [call |-> call, size |-> size, ok |-> ok]

-----------------------------------------------------------------------------
(* pvt_alok_arena_alloc_impl.  The padding is the one the offset needed     *)
(* before any pivot, on every path.                                         *)

Padding(a) == AlignUp(offset, a) - offset

\* Mutant: only the start of the chunk has to fit.
Full_IgnoresSize(size, a) == AlignUp(offset, a) > Usable(current)

Full(size, a) == AlignUp(offset, a) + size > Usable(current)

\* Bump the cursor of block b past the padding and the chunk.
Place(b, from, size, a, mark) ==
  LET lo == from + Padding(a)
  IN  /\ current' = b
      /\ offset' = lo + size
      /\ live' = Append(live, Chunk(b, lo, size, a, b # current, mark))

AllocInCurrent(size, a, mark) ==
  /\ ~Full(size, a)
  /\ Place(current, offset, size, a, mark)
  /\ UNCHANGED <<blocks, base>>

\* The next block of the chain is taken as it is, whatever its size.
AllocInRetained(size, a, mark) ==
  /\ Full(size, a)
  /\ current < Len(blocks)
  /\ Place(current + 1, BlockHeader, size, a, mark)
  /\ UNCHANGED <<blocks, base>>

AllocInNew(size, a, mark) ==
  /\ Full(size, a)
  /\ current = Len(blocks)
  /\ conf.grow
  /\ Len(blocks) < ChainBound
  /\ LET n == OsBlock(Larger(blocks[1], size + BlockHeader))
     IN  /\ blocks' = Append(blocks, n)
         /\ \E p \in Mappable : Vacant(p, n) /\ base' = Append(base, p)
  /\ Place(current + 1, BlockHeader, size, a, mark)

Obtain(size, a, mark) ==
  \/ AllocInCurrent(size, a, mark)
  \/ AllocInRetained(size, a, mark)
  \/ AllocInNew(size, a, mark)

\* Capacity reached with no_grow, or the OS refuses the new block.
Refused(size, a) ==
  /\ Full(size, a)
  /\ current = Len(blocks)
  /\ UNCHANGED <<blocks, base, current, offset, live>>

\* The chunk just placed ends behind its block.
Overrun == offset > blocks[current]

\* It reaches another block of the arena, and has overwritten its header.
Trampled == \E b \in 1..Len(blocks) : base[current] < base[b] /\ base[b] < base[current] + offset

\* What becomes of a call that placed a chunk.  Behind the block there may be
\* no memory, and memset crashes; or memory of someone else, and the call
\* returns.  A process whose block headers are gone is not followed further.
Answer(call, size) ==
  \/ ~Trampled' /\ reply' = Reply(call, size, TRUE)
  \/ Overrun' /\ reply' = Reply("crash", size, FALSE)

-----------------------------------------------------------------------------
(* The API. *)

\* A process that wrote where it must not makes no further call.
Running == reply.call # "crash"

Exists == Running /\ blocks # <<>>

\* _alok_arena_create: the head block, then the arena's own two structs.
CreateArena(cap, grow) ==
  /\ Running
  /\ blocks = <<>>
  /\ blocks' = <<OsBlock(cap + HeadMetadata)>>
  /\ \E p \in Mappable : base' = <<p>>
  /\ current' = 1
  /\ offset' = HeadMetadata
  /\ conf' = [cap |-> cap, grow |-> grow]
  /\ live' = <<>>
  /\ reply' = Reply("create", cap, TRUE)

\* The OS refuses the head block.
CreateFails(cap) ==
  /\ Running
  /\ blocks = <<>>
  /\ reply' = Reply("create", cap, FALSE)
  /\ UNCHANGED <<blocks, base, current, offset, conf, live>>

\* alok_arena_alloc.
Alloc(size, a) ==
  /\ Exists
  /\ Len(live) < MaxLive
  /\ Obtain(size, a, NoMark)
  /\ Answer("alloc", size)
  /\ UNCHANGED conf

AllocFails(size, a) ==
  /\ Exists
  /\ Refused(size, a)
  /\ reply' = Reply("alloc", size, FALSE)
  /\ UNCHANGED conf

\* alok_arena_marker: the marker lives in the arena, above the mark.
Marker ==
  /\ Exists
  /\ Len(live) < MaxLive
  /\ Obtain(StackMarker, MarkerAlign, Here)
  /\ Answer("marker", StackMarker)
  /\ UNCHANGED conf

\* No memory for the marker: it says so on stderr, then copies to null.
MarkerCrashes ==
  /\ Exists
  /\ Refused(StackMarker, MarkerAlign)
  /\ reply' = Reply("crash", StackMarker, FALSE)
  /\ UNCHANGED conf

\* Mutant: a pop that empties the block it goes back to.
PopToMarker_WholeBlock(i) ==
  /\ Running
  /\ current' = live[i].mark.blk
  /\ offset' = Metadata(live[i].mark.blk)
  /\ live' = SubSeq(live, 1, i - 1)
  /\ reply' = Reply("pop", 0, TRUE)
  /\ UNCHANGED <<blocks, base, conf>>

\* alok_arena_pop_to_marker of the marker at position i of live: everything
\* handed out since the mark, the marker included, is given back.
PopToMarker(i) ==
  /\ Running
  /\ current' = live[i].mark.blk
  /\ offset' = live[i].mark.off
  /\ live' = SubSeq(live, 1, i - 1)
  /\ reply' = Reply("pop", 0, TRUE)
  /\ UNCHANGED <<blocks, base, conf>>

\* Mutant: a reset that forgets the head block.
Reset_KeepsBlock ==
  /\ Exists
  /\ offset' = HeadMetadata
  /\ live' = <<>>
  /\ reply' = Reply("reset", 0, TRUE)
  /\ UNCHANGED <<blocks, base, current, conf>>

\* alok_arena_reset: back to the head block, past the arena's own structs.
Reset ==
  /\ Exists
  /\ current' = 1
  /\ offset' = HeadMetadata
  /\ live' = <<>>
  /\ reply' = Reply("reset", 0, TRUE)
  /\ UNCHANGED <<blocks, base, conf>>

DestroyArena ==
  /\ Exists
  /\ blocks' = <<>>
  /\ base' = <<>>
  /\ current' = 0
  /\ offset' = 0
  /\ live' = <<>>
  /\ reply' = Reply("destroy", 0, TRUE)
  /\ UNCHANGED conf

ArenaInit ==
  /\ blocks = <<>>
  /\ base = <<>>
  /\ current = 0
  /\ offset = 0
  /\ conf = [cap |-> 0, grow |-> TRUE]
  /\ live = <<>>
  /\ reply = Reply("none", 0, TRUE)

ArenaNext ==
  \/ \E cap \in ArenaCapacities, grow \in BOOLEAN : CreateArena(cap, grow)
  \/ \E cap \in ArenaCapacities : CreateFails(cap)
  \/ \E size \in ChunkSizes, a \in Aligns : Alloc(size, a)
  \/ \E size \in ChunkSizes, a \in Aligns : AllocFails(size, a)
  \/ Marker
  \/ MarkerCrashes
  \/ \E i \in Markers : PopToMarker(i)
  \/ Reset
  \/ DestroyArena

ArenaSpec == ArenaInit /\ [][ArenaNext]_arenaVars

-----------------------------------------------------------------------------
(* Properties. *)

\* Type invariant: the cursor is on a block of the chain, past the bytes that
\* the arena keeps there for itself.
ArenaTypeOK ==
  /\ blocks \in Seq(Nat) /\ base \in Seq(Nat) /\ Len(base) = Len(blocks)
  /\ current \in 0..Len(blocks)
  /\ blocks # <<>> => current # 0
  /\ offset \in Nat
  /\ conf \in [cap : Nat, grow : BOOLEAN]
  /\ live \in Seq([blk : Nat, lo : Nat, hi : Nat, align : Nat, pivoted : BOOLEAN,
                   mark : [blk : Nat, off : Nat]])
  /\ reply \in [call : Calls, size : Nat, ok : BOOLEAN]

\* Where the cursor was just before the chunk after the i-th was handed out.
EndOf(i) ==
  IF i = 0 THEN [blk |-> 1, off |-> HeadMetadata]
           ELSE [blk |-> live[i].blk, off |-> live[i].hi]

\* The cursor is exactly at the end of the newest chunk the client owns (or of
\* the arena's own structs): a pop or a reset, through any chain of markers and
\* blocks, gives back every byte taken since, padding and marker included, and
\* not one byte more.
CursorIsTight ==
  blocks # <<>> => Here = EndOf(Len(live))

\* Each marker still in the client's hands remembers the end of the chunk
\* handed out before it, whatever was popped and allocated in between.
MarksAreTight ==
  \A i \in Markers : live[i].mark = EndOf(i - 1)

\* What a client can count on: a chunk that caused no pivot, whatever its size,
\* or one that a default block has room for behind its header and the most
\* padding its alignment can need.
Sound(i) ==
  ~live[i].pivoted
    \/ BlockHeader + (live[i].hi - live[i].lo) + (live[i].align - 1) <= blocks[1]

\* The first address of the i-th chunk, and the first behind it.
From(i) == base[live[i].blk] + live[i].lo
Till(i) == base[live[i].blk] + live[i].hi

\* In the memory of the process no two chunks of such requests overlap, and
\* none overlaps a BlockHeader of the chain or the structs of the arena in its
\* head block: alloc zeroes only memory that nobody owns, across pivots, pops,
\* resets, blocks kept from before, and wherever the OS maps the blocks.
LiveDisjoint ==
  \A i \in {k \in 1..Len(live) : Sound(k)} :
    /\ \A j \in 1..Len(live) : i < j /\ Sound(j) => Till(i) <= From(j) \/ Till(j) <= From(i)
    /\ \A b \in 1..Len(blocks) : Till(i) <= base[b] \/ base[b] + Metadata(b) <= From(i)

\* A request that fits a page with a block header and its worst padding never
\* gets a chunk that runs past its block, even when the pivot lands on a block
\* kept from before a reset and nobody measures it.
SmallInBlock ==
  \A i \in 1..Len(live) :
    BlockHeader + (live[i].hi - live[i].lo) + live[i].align <= PageSize
      => live[i].hi <= blocks[live[i].blk]

\* What the comment on _alok_arena_alloc says (allocator.c:443): it "Returns
\* pointer to allocated chunk in the arena, or nullptr"; every chunk that was
\* handed out ends within its block.
AllocatesInArena ==
  Running => \A i \in 1..Len(live) : live[i].hi <= blocks[live[i].blk]

=============================================================================
