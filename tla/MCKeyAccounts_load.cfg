\* an asset with OP_CLTV: an invalid key is imported, and the wallet saved
CONSTANTS
    k1 = k1
    k2 = k2
    q1 = q1
    NoAddress = NoAddress
    NoCopy = NoCopy
    External = {k1, k2}
    Invalid = {k2}
    Protected = {q1}
    Eth = FALSE
    OpCltv = TRUE
    Lists <- MCLists
    MaxOps = 4
    MaxSessions = 2
SPECIFICATION Spec
INVARIANTS Loadable
CHECK_DEADLOCK FALSE
