SPECIFICATION Spec
CONSTANTS
  Texts <- MCTexts
  AllowU = TRUE
  Buffers <- MCBuffers
  Delimiters <- MCDelimiters
  Batches = {1, 2, 3, 9}
INVARIANTS
  DecodesAsUnicodeSays
  ReadersAgree
  ScratchReleased
  ChopsLikeSplit
  BatchesLikeSplit
  SlicesAgreeWithStrings
CHECK_DEADLOCK FALSE
