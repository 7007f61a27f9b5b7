------------------------------- MODULE BitSet -------------------------------
(***************************************************************************)
(* The bit sets of src/set: flags spread over words of BitsPerWord bits.   *)
(* A word is the set of its bits.                                          *)
(***************************************************************************)
EXTENDS Integers, FiniteSets, Sequences

CONSTANTS
  BitsPerWord,
  MaxFlags      \* the size that BITSET_DEFINE and dynamic_bitset_create get

ASSUME BitSetAssumption ==
  /\ BitsPerWord \in Nat \ {0}
  /\ MaxFlags \in Nat

VARIABLES
  words,   \* the words of a set
  flags    \* ghost: the flags its client has set

bitVars == <<words, flags>>

\* BITSET_WORDS_FOR_COUNT.
WordsFor(n) == (n + BitsPerWord - 1) \div BitsPerWord

\* Mutant: the bit is taken of the word's number.
Bit_OfWord(flag) == flag \div BitsPerWord % BitsPerWord

WordIndex(flag) == flag \div BitsPerWord
Bit(flag) == flag % BitsPerWord

Cleared == [w \in 0..(WordsFor(MaxFlags) - 1) |-> {}]

SetBit(ws, flag) == [ws EXCEPT ![WordIndex(flag)] = @ \cup {Bit(flag)}]
ClearBit(ws, flag) == [ws EXCEPT ![WordIndex(flag)] = @ \ {Bit(flag)}]
TestBit(ws, flag) == Bit(flag) \in ws[WordIndex(flag)]

\* bitset_set_multiple.
SetMultiple(ws, fs) == [w \in DOMAIN ws |-> ws[w] \cup {Bit(f) : f \in {g \in fs : WordIndex(g) = w}}]

TestAll(ws, fs) == \A f \in fs : TestBit(ws, f)

\* bitset_test_any looks for a flag that is not set.
TestAny(ws, fs) == \E f \in fs : ~TestBit(ws, f)

\* The three walk the words of the set, and take the mask to have as many.
ContainsMask(ws, mask) == \A w \in DOMAIN ws : mask[w] \subseteq ws[w]
SetMask(ws, mask) == [w \in DOMAIN ws |-> ws[w] \cup mask[w]]
ClearMask(ws, mask) == [w \in DOMAIN ws |-> ws[w] \ mask[w]]

\* dynamic_bitset_set ignores a flag it has no room for.
DynamicSet(ws, flag) == IF flag < MaxFlags THEN SetBit(ws, flag) ELSE ws

-----------------------------------------------------------------------------

BitInit == words = Cleared /\ flags = {}

BitNext ==
  \/ \E f \in 0..(MaxFlags - 1) :
       \/ words' = SetBit(words, f) /\ flags' = flags \cup {f}
       \/ words' = ClearBit(words, f) /\ flags' = flags \ {f}
  \/ \E f \in 0..(2 * MaxFlags) :
       /\ words' = DynamicSet(words, f)
       /\ flags' = flags \cup ({f} \cap 0..(MaxFlags - 1))
  \/ \E fs \in SUBSET (0..(MaxFlags - 1)) :
       LET mask == SetMultiple(Cleared, fs)
       IN  \/ words' = SetMultiple(words, fs) /\ flags' = flags \cup fs
           \/ words' = SetMask(words, mask) /\ flags' = flags \cup fs
           \/ words' = ClearMask(words, mask) /\ flags' = flags \ fs

-----------------------------------------------------------------------------
(* Properties. *)

\* Words and masks tell of each flag what single calls and group calls made of
\* it, flags of one word never those of another.
FlagsAreKept ==
  /\ \A f \in 0..(MaxFlags - 1) : TestBit(words, f) <=> f \in flags
  /\ \A fs \in SUBSET (0..(MaxFlags - 1)) :
       /\ TestAll(words, fs) <=> fs \subseteq flags
       /\ ContainsMask(words, SetMultiple(Cleared, fs)) <=> fs \subseteq flags
       /\ TestAny(words, fs) <=> ~(fs \subseteq flags)
=============================================================================
