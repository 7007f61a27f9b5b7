SPECIFICATION Spec
CONSTANTS
  Texts <- MCTexts
  AllowU = TRUE
  Buffers <- MCBuffers
  Delimiters <- MCDelimiters
  Batches = {1, 2, 3, 9}
INVARIANT
  ChopsAsPromised
CHECK_DEADLOCK FALSE
