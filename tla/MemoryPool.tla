----------------------------- MODULE MemoryPool -----------------------------
(***************************************************************************)
(* MemoryPool of src/memory/memory_pool.c, and the allocator policy that   *)
(* hands its memory to the collections: pages that are filled from the     *)
(* front, the newest page searched first.  Nothing is freed one by one.    *)
(*                                                                         *)
(* A page is the sequence of its words, of which the first used ones are   *)
(* given out; the pages are in the order of their creation.  An address is *)
(* a page and an offset.                                                   *)
(***************************************************************************)
EXTENDS Integers, SequencesExt

CONSTANTS
  PageSize,   \* default_page_size
  Zero        \* a word that calloc or memset cleared

ASSUME MemoryPoolAssumption == PageSize \in Nat \ {0}

EmptyPool == <<>>

Larger(a, b) == IF a > b THEN a ELSE b
Smaller(a, b) == IF a < b THEN a ELSE b

\* create_page.
NewPage(size) == [words |-> [i \in 1..size |-> Zero], used |-> 0]

Fits(pool, n) == {p \in DOMAIN pool : Len(pool[p].words) - pool[p].used >= n}

\* Memory is asked of the system only where no page has room.
MayFail(pool, n) == n = 0 \/ Fits(pool, n) = {}

\* Mutant: used stays.
Given_Again(pool, p, n) ==
  [pool |-> pool, at |-> [page |-> p, offset |-> pool[p].used]]

Given(pool, p, n) ==
  [pool |-> [pool EXCEPT ![p].used = @ + n], at |-> [page |-> p, offset |-> pool[p].used]]

\* pool_alloc, the pool and the address after it: the newest page that fits.
Alloc(pool, n) ==
  IF Fits(pool, n) # {} THEN Given(pool, Max(Fits(pool, n)), n)
  ELSE Given(Append(pool, NewPage(Larger(n, PageSize))), Len(pool) + 1, n)

Load(pool, at, i) == pool[at.page].words[at.offset + i + 1]

\* The words ws stored from word i of a block on, as far as the page goes.
Store(pool, at, i, ws) ==
  LET first == at.offset + i + 1
  IN  [pool EXCEPT ![at.page].words =
         [j \in DOMAIN @ |-> IF j \in first..(first + Len(ws) - 1) THEN ws[j - first + 1] ELSE @[j]]]

Block(pool, at, n) == [i \in 1..n |-> Load(pool, at, i - 1)]

\* The allocator policy's calloc.
Calloc(pool, n) ==
  LET a == Alloc(pool, n)
  IN  [a EXCEPT !.pool = Store(a.pool, a.at, 0, [i \in 1..n |-> Zero])]

\* The allocator policy's realloc: always a new block, cleared, then the old
\* block copied as far as both go.
Realloc(pool, at, old, new) ==
  LET a == Calloc(pool, new)
  IN  [a EXCEPT !.pool = Store(a.pool, a.at, 0, Block(pool, at, Smaller(old, new)))]

\* pool_reset: the pages stay, and what they hold.
Reset(pool) == [p \in DOMAIN pool |-> [pool[p] EXCEPT !.used = 0]]

Words(pool) == FoldLeft(LAMBDA n, page : n + Len(page.words), 0, pool)
=============================================================================
