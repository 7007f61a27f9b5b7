---------------------------- MODULE StringBuilder ---------------------------
(***************************************************************************)
(* src/string/string_builder.c: texts that grow, in an arena or in memory  *)
(* of malloc, among other allocations of the same arena and inside and     *)
(* outside of a temporary scope of it.                                     *)
(*                                                                         *)
(* Here the bytes count, so the arena is the cursor of Arena alone, over   *)
(* blocks of one size, with one area more for what malloc serves.  A text  *)
(* is a sequence of letters, NUL ends it in memory.                        *)
(***************************************************************************)
EXTENDS Integers, SequencesExt

CONSTANTS
  Builders,
  Strings,         \* the C strings the client has, without their NUL
  Letters,         \* the letters it inserts
  InitialCapacities,
  OtherSizes,      \* what others allocate of the arena
  BlockBytes,      \* what allocations can have of a block
  StructBytes,     \* sizeof(StringBuilder), and sizeof(StackMarker)
  DefaultCapacity, \* 16 in the code
  MaxBlocks,       \* bound: blocks of the arena
  MaxText          \* bound: letters of a text

ASSUME BuilderAssumption ==
  /\ Strings \subseteq Seq(Int \ {0}) /\ Letters \subseteq Int \ {0}
  /\ InitialCapacities \subseteq Nat /\ DefaultCapacity \in Nat
  /\ BlockBytes \in Nat /\ MaxBlocks \in Nat \ {0} /\ MaxText \in Nat
  /\ StructBytes \in 1..BlockBytes /\ OtherSizes \subseteq 1..BlockBytes

VARIABLES
  arena,     \* [blk, off]: current_block and offset
  bytes,     \* the bytes of each block, and of each area of malloc
  builders,  \* [blk, off, capacity, length, arena, struct], or NoBuilder
  mark,      \* where the cursor was when the temporary scope began, or NoMark
  texts,     \* ghost: what the client has built
  chunks,    \* ghost: the client's other chunks, [blk, off, n]
  grown,     \* ghost: the builders that got memory since the scope began
  lost       \* ghost: the builders that have part of their buffer elsewhere

builderVars == <<arena, bytes, builders, mark, texts, chunks, grown, lost>>

TERMINATOR == 0
FILL == 9     \* what is in other memory: the client's chunks, and what was used before
NoBuilder == [blk |-> 0, off |-> 0, capacity |-> 0, length |-> 0, arena |-> FALSE,
              struct |-> [blk |-> 0, off |-> 0]]
NoMark == [blk |-> 0, off |-> 0]

Live == {i \in Builders : builders[i] # NoBuilder}

Start == [blk |-> 1, off |-> 0]

\* The arena is in use, or about to be.
InArena == \A i \in Live : builders[i].arena

\* What a call does to a text that is not all its builder's is not followed.
Running == lost = {}

-----------------------------------------------------------------------------
(* Memory. *)

\* The area of malloc.
Area == MaxBlocks + 1

Write(mem, blk, off, s) ==
  [mem EXCEPT ![blk] = [k \in DOMAIN @ |-> IF k - off \in 1..Len(s) THEN s[k - off] ELSE @[k]]]

Read(mem, blk, off, n) == [k \in 1..n |-> IF off + k <= BlockBytes THEN mem[blk][off + k] ELSE FILL]

\* n bytes set to zero.
Clear(mem, blk, off, n) == Write(mem, blk, off, [k \in 1..n |-> TERMINATOR])

\* alok_arena_alloc of n bytes, which it clears: the cursor and the memory
\* after it, and where they are.
Alloc(a, mem, n) ==
  IF a.off + n <= BlockBytes
  THEN [ok |-> TRUE, arena |-> [a EXCEPT !.off = @ + n], bytes |-> Clear(mem, a.blk, a.off, n),
        blk |-> a.blk, off |-> a.off]
  ELSE IF a.blk < MaxBlocks
  THEN [ok |-> TRUE, arena |-> [blk |-> a.blk + 1, off |-> n], bytes |-> Clear(mem, a.blk + 1, 0, n),
        blk |-> a.blk + 1, off |-> 0]
  ELSE [ok |-> FALSE, arena |-> a, bytes |-> mem, blk |-> 0, off |-> 0]

\* Memory that no one can reach any more is all alike.
Erase(mem, b) == Clear(mem, b.blk, b.off, b.capacity + 1)

\* Above the mark lies whatever was there.
Stale(mem, from) ==
  [blk \in DOMAIN mem |-> [k \in 1..BlockBytes |->
     IF blk <= MaxBlocks /\ (blk > from.blk \/ (blk = from.blk /\ k > from.off)) THEN FILL ELSE mem[blk][k]]]

\* The text that the C string at off is.
CStringAt(mem, blk, off) ==
  LET stop == {k \in off..(BlockBytes - 1) : mem[blk][k + 1] = TERMINATOR}
  IN  Read(mem, blk, off, (IF stop = {} THEN BlockBytes ELSE CHOOSE k \in stop : \A l \in stop : k <= l) - off)

Larger(a, b) == IF a > b THEN a ELSE b

\* (uint32_t)(n * CAPACITY_FACTOR).
Roomy(n) == (4 * n) \div 3

\* The capacity of a new builder, asked for capacity letters with len to begin.
CapacityFor(len, capacity) ==
  LET ideal == Roomy(Larger(len, capacity))
  IN  Larger(capacity, IF ideal = 0 THEN DefaultCapacity ELSE ideal)

\* sb_ensure_capacity.  A buffer that ends where the next allocation begins is
\* extended in place, by the bytes that are missing; the arena may have taken
\* them from another block.  (The overflow of 32 bits that the code looks for
\* is out of bounds here.)
EnsureCapacity(b, wanted) ==
  LET capacity == Roomy(wanted)
      onTop == arena.blk = b.blk /\ arena.off = b.off + b.capacity + 1
      extra == Alloc(arena, bytes, capacity - b.capacity)
      new == Alloc(arena, bytes, capacity + 1)
      same == [ok |-> TRUE, b |-> b, arena |-> arena, bytes |-> bytes, lost |-> FALSE]
  IN  CASE wanted <= b.capacity -> same
        [] wanted > b.capacity /\ ~b.arena ->
             [same EXCEPT !.b.capacity = capacity,
                !.bytes = Clear(bytes, b.blk, b.off + b.capacity, capacity - b.capacity + 1)]
        [] wanted > b.capacity /\ b.arena /\ onTop ->
             IF ~extra.ok THEN [same EXCEPT !.ok = FALSE]
             ELSE [same EXCEPT !.b.capacity = capacity, !.arena = extra.arena, !.bytes = extra.bytes,
                     !.lost = extra.blk # b.blk]
        [] OTHER ->
             IF ~new.ok THEN [same EXCEPT !.ok = FALSE]
             ELSE [same EXCEPT !.b.capacity = capacity, !.b.blk = new.blk, !.b.off = new.off, !.arena = new.arena,
                     !.bytes = Write(Erase(new.bytes, b), new.blk, new.off, Read(bytes, b.blk, b.off, b.capacity + 1))]

-----------------------------------------------------------------------------
(* The builder's operations. *)

\* sb_from_cstring, and sb_new for an empty string: the struct is allocated
\* first, and stays allocated when there is no memory for the buffer.
FromCString(i, str, capacity) ==
  LET c == CapacityFor(Len(str), capacity)
      struct == Alloc(arena, bytes, StructBytes)
      buf == Alloc(struct.arena, struct.bytes, c + 1)
  IN  /\ Running /\ InArena /\ i \notin Live
      /\ c + 1 <= BlockBytes
      /\ arena' = buf.arena
      /\ IF struct.ok /\ buf.ok
         THEN /\ builders' = [builders EXCEPT ![i] =
                   [blk |-> buf.blk, off |-> buf.off, capacity |-> c, length |-> Len(str), arena |-> TRUE,
                    struct |-> [blk |-> struct.blk, off |-> struct.off]]]
              /\ bytes' = Write(buf.bytes, buf.blk, buf.off, Append(str, TERMINATOR))
              /\ texts' = [texts EXCEPT ![i] = str]
         ELSE bytes' = buf.bytes /\ UNCHANGED <<builders, texts>>
      /\ UNCHANGED <<mark, chunks, grown, lost>>

\* sb_init: memory of calloc, cleared.  The caller has the struct.  It shares
\* nothing with the arena, so there is one such builder, and on its own.
SbInit(i, str, capacity) ==
  LET c == CapacityFor(Len(str), capacity)
  IN  /\ Running /\ Live = {} /\ arena = Start
      /\ c + 1 <= BlockBytes
      /\ builders' = [builders EXCEPT ![i] =
           [NoBuilder EXCEPT !.blk = Area, !.capacity = c, !.length = Len(str)]]
      /\ bytes' = Write(Clear([bytes EXCEPT ![Area] = [k \in DOMAIN @ |-> FILL]], Area, 0, c + 1), Area, 0, str)
      /\ texts' = [texts EXCEPT ![i] = str]
      /\ UNCHANGED <<arena, mark, chunks, grown, lost>>

\* sb_destroy.
Destroy(i) ==
  /\ Running /\ i \in Live
  /\ builders' = [builders EXCEPT ![i] = NoBuilder]
  /\ texts' = [texts EXCEPT ![i] = <<>>]
  /\ bytes' = Erase(bytes, builders[i])
  /\ UNCHANGED <<arena, mark, chunks, grown, lost>>

\* Room for n more letters of builder i, then s written from index at on.
Put(i, n, at, s, text) ==
  LET b == builders[i]
      r == EnsureCapacity(b, b.length + n)
  IN  /\ Roomy(b.length + n) + 1 <= BlockBytes
      /\ Len(text) <= MaxText
      /\ arena' = r.arena
      /\ lost' = IF r.lost THEN lost \cup {i} ELSE lost
      /\ grown' = IF r.arena # arena THEN grown \cup {i} ELSE grown
      /\ IF r.ok
         THEN /\ builders' = [builders EXCEPT ![i] = [r.b EXCEPT !.length = @ + n]]
              /\ bytes' = Write(r.bytes, r.b.blk, r.b.off + at, s)
              /\ texts' = [texts EXCEPT ![i] = text]
         ELSE UNCHANGED <<builders, bytes, texts>>
      /\ UNCHANGED <<mark, chunks>>

\* sb_append_char and sb_append_str.
AppendTo(i, str) ==
  /\ Running /\ i \in Live
  /\ str # <<>>
  /\ Put(i, Len(str), builders[i].length, Append(str, TERMINATOR), texts[i] \o str)

\* What is moved up when text is inserted at index: n bytes from there on.
Moved(i, index, n) == Read(bytes, builders[i].blk, builders[i].off + index, n)

Inserted(text, index, str) == SubSeq(text, 1, index) \o str \o SubSeq(text, index + 1, Len(text))

\* sb_insert_char moves the NUL with the rest of the text.
InsertChar(i, c, index) ==
  /\ Running /\ i \in Live
  /\ index <= builders[i].length
  /\ Put(i, 1, index, <<c>> \o Moved(i, index, builders[i].length + 1 - index), Inserted(texts[i], index, <<c>>))

\* Mutant: the rest of the text stays where it is.
InsertStr_NoMove(i, str, index) ==
  /\ Running /\ i \in Live
  /\ str # <<>> /\ index <= builders[i].length
  /\ Put(i, Len(str), index, str, Inserted(texts[i], index, str))

\* sb_insert_str leaves the NUL behind, under the text: the text ends because
\* what follows it was clear.
InsertStr(i, str, index) ==
  /\ Running /\ i \in Live
  /\ str # <<>> /\ index <= builders[i].length
  /\ Put(i, Len(str), index, str \o Moved(i, index, builders[i].length - index), Inserted(texts[i], index, str))

\* sb_replace_match_chars, as far as the NUL that it finds.
ReplaceMatch(i, match, c) ==
  LET b == builders[i]
      Replaced(text) == [k \in DOMAIN text |-> IF text[k] \in match THEN c ELSE text[k]]
  IN  /\ Running /\ i \in Live
      /\ bytes' = Write(bytes, b.blk, b.off, Replaced(CStringAt(bytes, b.blk, b.off)))
      /\ texts' = [texts EXCEPT ![i] = Replaced(@)]
      /\ UNCHANGED <<arena, builders, mark, chunks, grown, lost>>

\* sb_copy_to: the buffer of the caller afterwards, out being what it was.
CopyTo(i, out) ==
  LET n == IF builders[i].length < Len(out) THEN builders[i].length ELSE Len(out)
      copied == Read(bytes, builders[i].blk, builders[i].off, n)
  IN  [k \in 1..Len(out) |-> IF k = Len(out) THEN TERMINATOR ELSE IF k <= n THEN copied[k] ELSE out[k]]

-----------------------------------------------------------------------------
(* The other users of the arena. *)

\* Another chunk is allocated and filled.
Other(n) ==
  LET r == Alloc(arena, bytes, n)
  IN  /\ Running /\ InArena /\ r.ok
      /\ arena' = r.arena
      /\ chunks' = chunks \cup {[blk |-> r.blk, off |-> r.off, n |-> n]}
      /\ bytes' = Write(r.bytes, r.blk, r.off, [k \in 1..n |-> FILL])
      /\ UNCHANGED <<builders, mark, texts, grown, lost>>

\* alok_arena_begin_temp: the marker is a chunk of the arena itself.
BeginTemp ==
  LET r == Alloc(arena, bytes, StructBytes)
  IN  /\ Running /\ InArena /\ mark = NoMark /\ r.ok
      /\ mark' = [blk |-> arena.blk, off |-> arena.off]
      /\ arena' = r.arena
      /\ bytes' = r.bytes
      /\ grown' = {}
      /\ UNCHANGED <<builders, texts, chunks, lost>>

Below(c) == c.blk < mark.blk \/ (c.blk = mark.blk /\ c.off < mark.off)

\* alok_arena_end_temp: what was allocated in the scope is gone, and the
\* builders of the scope with it.  One from before may have its text there.
EndTemp ==
  LET kept == {i \in Live : ~builders[i].arena \/ Below(builders[i].struct)}
  IN  /\ Running /\ mark # NoMark
      /\ arena' = mark
      /\ mark' = NoMark
      /\ chunks' = {c \in chunks : Below(c)}
      /\ builders' = [i \in Builders |-> IF i \in kept THEN builders[i] ELSE NoBuilder]
      /\ texts' = [i \in Builders |-> IF i \in kept THEN texts[i] ELSE <<>>]
      /\ lost' = grown \cap kept
      /\ grown' = {}
      /\ bytes' = Stale(bytes, mark)

-----------------------------------------------------------------------------

BuilderInit ==
  /\ arena = Start
  /\ bytes = [k \in 1..Area |-> [o \in 1..BlockBytes |-> TERMINATOR]]
  /\ builders = [i \in Builders |-> NoBuilder]
  /\ mark = NoMark
  /\ texts = [i \in Builders |-> <<>>]
  /\ chunks = {} /\ grown = {} /\ lost = {}

BuilderNext ==
  \/ \E i \in Builders, s \in Strings \cup {<<>>}, c \in InitialCapacities : FromCString(i, s, c) \/ SbInit(i, s, c)
  \/ \E i \in Builders : Destroy(i)
  \/ \E i \in Builders, s \in Strings : AppendTo(i, s)
  \/ \E i \in Builders, s \in Strings, k \in 0..MaxText : InsertStr(i, s, k)
  \/ \E i \in Builders, c \in Letters, k \in 0..MaxText : InsertChar(i, c, k)
  \/ \E i \in Builders, s \in Strings, c \in Letters : ReplaceMatch(i, Range(s), c)
  \/ \E n \in OtherSizes : Other(n)
  \/ BeginTemp
  \/ EndTemp

-----------------------------------------------------------------------------
(* Properties. *)

\* The buffer of a builder, NUL included, is memory that the arena has given
\* out and nobody has taken back.
Owned(b) ==
  LET end == b.off + b.capacity + 1
  IN  /\ end <= BlockBytes
      /\ b.arena => b.blk < arena.blk \/ (b.blk = arena.blk /\ end <= arena.off)

\* A builder's text is what its client has built, whatever else happens to the
\* arena it is in, however often its buffer moves and whatever was in its
\* memory before; a call that gets no memory leaves it alone.  It ends with a
\* NUL, though sb_insert_str (string_builder.c:176) writes none.  A copy of it,
\* in a buffer that was clear, is the part that fits.  What the arena gave to
\* others they keep, and the buffer stays the builder's: unless the arena
\* extended it by bytes of another block, or it grew in a temporary scope that
\* has ended.
TextsAreKept ==
  /\ \A i \in Live :
       LET b == builders[i]
       IN  i \notin lost =>
             /\ Owned(b)
             /\ b.length = Len(texts[i]) /\ b.length <= b.capacity
             /\ Read(bytes, b.blk, b.off, b.length) = texts[i]
             /\ CStringAt(bytes, b.blk, b.off) = texts[i]
             /\ \A n \in 1..MaxText :
                  LET out == CopyTo(i, [k \in 1..n |-> TERMINATOR])
                      m == IF b.length < n THEN b.length ELSE n - 1
                  IN  SubSeq(out, 1, m) = SubSeq(texts[i], 1, m) /\ out[m + 1] = TERMINATOR
  /\ \A c \in chunks : \A k \in 1..c.n : bytes[c.blk][c.off + k] = FILL

\* What the comment at string_builder.c:103 takes for granted: an allocation
\* that begins where the buffer ends extends it.
GrowsInPlace == \A i \in Live : builders[i].off + builders[i].capacity + 1 <= BlockBytes

=============================================================================
