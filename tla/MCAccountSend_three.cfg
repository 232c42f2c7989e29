\* three sends that may overlap
CONSTANTS
    a1 = a1
    r1 = r1
    r2 = r2
    v1 = v1
    eth = eth
    tok = tok
    s1 = s1
    s2 = s2
    s3 = s3
    NoTx = NoTx
    Send = {s1, s2, s3}
    From = {a1}
    Ether = eth
    Token = {tok}
    Request <- MCRequest
SPECIFICATION Spec
INVARIANTS TypeOK NeverPaysMore ShownIsAccepted
PROPERTIES FreshNonces
SYMMETRY Symmetry
CHECK_DEADLOCK FALSE
