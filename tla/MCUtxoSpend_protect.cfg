\* a wallet that does not hold the developer's address
CONSTANTS
    a1 = a1
    r1 = r1
    donate = donate
    s1 = s1
    s2 = s2
    Protected = Protected
    Data = Data
    Send = {s1, s2}
    Own = {a1}
    Change = a1
    Donate = donate
    Genesis <- MCGenesis
    Request <- MCProtect
    Rates = {1000}
    FloatShort = {257}
    Byte = 2
    IntLimit = 1000
    MaxHours = 6
    EstimateHours = 1
    MaxTime = 3
SPECIFICATION Spec
INVARIANTS ProtectOffered
CHECK_DEADLOCK FALSE
