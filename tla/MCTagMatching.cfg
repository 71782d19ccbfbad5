CONSTANTS
  Blocks <- FanBlocks
  RankOf <- FanRank
  Lid <- FanLid
  Channels <- FanChannels
  None = None
SPECIFICATION Spec
PROPERTY ImplementsChannelDelivery
