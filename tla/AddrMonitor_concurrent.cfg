\* one connection whose wallet registers again before it was acknowledged
CONSTANTS
    MaxReg = 2
    MaxSocket = 1
    SubBlocks = TRUE
SPECIFICATION MonitorSpec
INVARIANTS SubscribesAfterAck
CHECK_DEADLOCK FALSE
