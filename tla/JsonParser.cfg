SPECIFICATION Spec
CONSTANTS
  Texts <- MCTexts
  Entries = {"string", "ex", "file", "stream"}
  Confs <- MCConfs
  Keyword <- MCKeyword
  MaxShort = 2
  NumberRoom = 8
  Behind <- MCBehind
  MaxLong = 10
  Huge = 1000
CHECK_DEADLOCK FALSE
INVARIANTS
  DepthIsNesting
  AcceptsExactlyJson
PROPERTY
  Terminates
