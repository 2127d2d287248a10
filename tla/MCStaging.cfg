SPECIFICATION Spec
CONSTANTS
  h1 = h1
  h2 = h2
  b1 = b1
  b2 = b2
  Holders <- MCHolders
  Buffers <- MCBuffers
  Sizes = {0, 1, 3, 6}
  Alignment = 2
  DefaultChunkSize <- MCChunkSize
  MaxPooledSize = 4
SYMMETRY Symmetry
INVARIANTS
  TypeOK
  NoOverlap
  Conservation
  Coalesced
  NoBufferLeak
  HeldInsideChunk
PROPERTIES
  ImplementsAbs
