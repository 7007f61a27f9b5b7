SPECIFICATION Spec
CONSTANTS
  PageSize = 4
  Zero = zero
  Lists = {1, 2}
  Owner = 1
  Values = {a, b}
  Absent = absent
  HeaderSize = 1
  MinCapacity = 1
  Capacities = {0}
  PowersOfTwo = {1, 2, 4}
  MaxLength = 2
  MaxWords = 8
  Items = {a, b}
  NoVector = absent
  Junk = junk
  VecCapacities = {0, 1, 3}
  MaxVector = 4
  Powers = {2, 4, 8}
  BitsPerWord = 2
  MaxFlags = 5
  WordSize = 6
  DefaultLimit = 3
  Texts = {"x", "y"}
  Cells = {1, 2, 3, 4}
  Free = "free"
  Null = 0
  Keys = {"k", "l", "m"}
  Plain = 99
  Counts <- MCCounts
  NoMap = NoMap
  MaxCount = 3
  PointerSize = 3
  Slots = {s1, s2}
  Nothing = nothing
  MaxItems = 5
INVARIANTS
  AccessStaysInside
  FlagsAreKept
  ComparisonsAgree
  StringsAreAccounted
  FreedOnceByOwner
  ReferencesHold
PROPERTIES
  ListsImplementSequences
  VectorImplementsSequence
SYMMETRY MCSymmetry
CHECK_DEADLOCK FALSE
