\* Sparse three-block row: an unpack through a cache built for a freed array.
CONSTANTS
  b1 = b1  b2 = b2  b3 = b3  r0 = r0  r1 = r1
  x1 = x1  x2 = x2  x3 = x3  x4 = x4  y1 = y1  y2 = y2
  NoChunk = NoChunk  NoCache = NoCache  Zero = Zero  Garbage = Garbage
  Blocks <- MCBlocks
  RankOf <- MCRankOf
  Channels <- MCChannels
  RecvOrder <- MCRecvOrder
  ChunksOf <- MCChunksOf
  SparseEnabled = TRUE
  Eager = FALSE
  MaxCycle = 2
  InitAlloc <- MCBlocks
SYMMETRY ChunkSymmetry
SPECIFICATION Spec
PROPERTY RecvCacheMatchesField
