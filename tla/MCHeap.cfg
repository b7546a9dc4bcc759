\* 24 words: three chunks, with and without a remainder.
SPECIFICATION HeapSpec
CONSTANTS
  Base = 1
  Length = 24
  Sizes = {0, 2, 5}
  Alignments = {0, 2, 8}
INVARIANTS
  ChunksTile
  PayloadsFit
  RoomIsServed
PROPERTY
  ImplementsArena
