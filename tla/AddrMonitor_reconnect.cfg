\* a reconnection with registered addresses
CONSTANTS
    MaxReg = 1
    MaxSocket = 2
    SubBlocks = TRUE
SPECIFICATION MonitorSpec
INVARIANTS CallbackInPlace
CHECK_DEADLOCK FALSE
