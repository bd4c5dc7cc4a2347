SPECIFICATION Spec
CONSTANTS
  Sources <- MCSources
  ChunkChars = 10
  SectionChars = 6
  MaxPieces = 3
  MaxBlocks = 4
CHECK_DEADLOCK FALSE
INVARIANTS TypeOK BlocksInOrder ChunksAreBounded PagesFollowOrder EveryBoxIsCited SectionIsEnclosingHeading
