\* a wallet that registers its addresses three times over two connections
CONSTANTS
    MaxReg = 3
    MaxSocket = 2
    SubBlocks = TRUE
SPECIFICATION FairMonitorSpec
INVARIANTS ServerFollows
PROPERTIES OnlyCurrentSubscribes Monitored
CHECK_DEADLOCK FALSE
