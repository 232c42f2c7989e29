\* two sends that may overlap, by the wallet that holds the developer's address
CONSTANTS
    a1 = a1
    r1 = r1
    donate = donate
    s1 = s1
    s2 = s2
    Protected = Protected
    Data = Data
    Send = {s1, s2}
    Own = {a1, donate}
    Change = a1
    Donate = donate
    Genesis <- MCGenesis
    Request <- MCRequest
    Rates = {1000, 3000}
    FloatShort = {257}
    Byte = 2
    IntLimit = 4
    MaxHours = 6
    EstimateHours = 1
    MaxTime = 2
SPECIFICATION Spec
INVARIANTS PaysExactly ProtectedKept PostedIsTaken GuardAgrees Recoverable ToldTruth
SYMMETRY Symmetry
CHECK_DEADLOCK FALSE
