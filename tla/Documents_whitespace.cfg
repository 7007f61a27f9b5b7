SPECIFICATION Spec
CONSTANTS
  Threads = {t1, t2}
  Values <- MCValues
  Formats <- MCFormats
  Rows = 6
  KeyRoom = 2
  Documents <- MCDocs
  Afters <- MCAfters
  Window = 3
  MaxCalls = 3
  Builders = {b1, b2}
  Strings <- MCStrings
  Letters = {3}
  InitialCapacities = {0}
  OtherSizes = {1}
  BlockBytes = 6
  StructBytes = 1
  DefaultCapacity = 2
  MaxBlocks = 2
  MaxText = 4
  HeaderBytes = 18
  ObjectSizes = {1, 2, 3}
  Alignments = {1, 2, 4}
  NumObjects = 3
  MaxDepth = 3
  MaxResults = 3
  NullValue = 0
  Shared = {true, null}
  MaxTreeDepth = 2
  MaxMembers = 3
  MaxCells = 5
  Blanks <- MCBlanks
  Flags = {"arrays", "objects"}
  Depths = {1, 2}
  Separators = {".", ",", "multibyte"}
  Printable = {".", ","}
  Dot = "."
  FieldRoom = 15
  SetRoom = 7
  SaidRoom = 8
  NoContext = NoContext
INVARIANT
  AllThatIsSaidCounts
SYMMETRY MCSymmetry
CHECK_DEADLOCK FALSE
