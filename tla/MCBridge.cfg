CONSTANT MaxChunks <- MCMaxChunks
SPECIFICATION FairSpec
INVARIANTS DoneMeansClosed CountsMatchWrites
PROPERTY ExitWhenPeerEnds BridgeStatesSpec
CHECK_DEADLOCK FALSE
