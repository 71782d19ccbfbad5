\* Sparse communication on two blocks of different ranks, with
\* deallocation and AllocateSparse, rendezvous delivery (an Isend completes
\* only against a posted Irecv), over two cycles: safety and liveness. b3 starts unallocated, so
\* its second send follows an AllocateSparse.
\* No symmetry: it is unsound for temporal properties.
CONSTANTS
  b1 = b1  b2 = b2  b3 = b3  r0 = r0  r1 = r1
  x1 = x1  x2 = x2  x3 = x3  x4 = x4  y1 = y1  y2 = y2
  NoChunk = NoChunk  NoCache = NoCache  Zero = Zero  Garbage = Garbage
  Blocks <- PairBlocks
  RankOf <- PairRankOf
  Channels <- PairChannels
  RecvOrder <- PairRecvOrder
  ChunksOf <- PairChunksOf
  SparseEnabled = TRUE
  Eager = FALSE
  MaxCycle = 2
  InitAlloc <- PairInitAlloc
SPECIFICATION Spec
INVARIANT MessagesMatchCycle
PROPERTY SendCacheMatchesField
PROPERTY ExchangesComplete
