\* a utxo asset over three sessions, in the browser or on the command line
CONSTANTS
    k1 = k1
    k2 = k2
    q1 = q1
    NoAddress = NoAddress
    NoCopy = NoCopy
    External = {k1, k2}
    Invalid = {k2}
    Protected = {q1}
    Eth = FALSE
    OpCltv = FALSE
    Lists <- MCLists
    MaxOps = 5
    MaxSessions = 2
SPECIFICATION Spec
INVARIANTS ShownHasKey KeyShown GeneratedOnce ImportedOnce ToldIsSaved
PROPERTIES LoadKeeps
CHECK_DEADLOCK FALSE
