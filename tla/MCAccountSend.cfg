\* two sends that may overlap; messages are delivered and the provider answers or gives up
CONSTANTS
    a1 = a1
    r1 = r1
    r2 = r2
    v1 = v1
    eth = eth
    tok = tok
    s1 = s1
    s2 = s2
    s3 = s3
    NoTx = NoTx
    Send = {s1, s2}
    From = {a1}
    Ether = eth
    Token = {tok}
    Request <- MCRequest
SPECIFICATION LiveSpec
INVARIANTS NeverPaysMore ShownIsAccepted
PROPERTIES FreshNonces Answered
CHECK_DEADLOCK FALSE
