CONSTANTS
  Blocks <- PairBlocks
  RankOf <- PairRank
  Lid <- PairLid
  Channels <- PairChannels
  None = None
SPECIFICATION Spec
INVARIANT DeliveredToOwnBuffer
