\* ETH: an address is added after one that is not the last has been deleted
CONSTANTS
    k1 = k1
    k2 = k2
    q1 = q1
    NoAddress = NoAddress
    NoCopy = NoCopy
    External = {k1, k2}
    Invalid = {k2}
    Protected = {q1}
    Eth = TRUE
    OpCltv = FALSE
    Lists <- MCLists
    MaxOps = 4
    MaxSessions = 2
SPECIFICATION Spec
INVARIANTS GeneratedOnce
CHECK_DEADLOCK FALSE
