SPECIFICATION FairSpec
CONSTANTS
  ChainCounts <- MCChainCounts
  StartPort = 2
  MaxPort = 4
  Ephemeral = {1, 3, 4}
INVARIANTS
  TypeOK
  ServesFirstChains
  NoListenerLeaks
PROPERTIES
  PanicsHaveACause
  AllServedOrEnded
CHECK_DEADLOCK FALSE
