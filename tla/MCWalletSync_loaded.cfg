\* one address of two meets a transient socket state
CONSTANTS
    a1 = a1
    a2 = a2
    t1 = t1
    t2 = t2
    j1 = j1
    j2 = j2
    j3 = j3
    Addr = {a1, a2}
    Tx = {t1, t2}
    Own = {t1}
    Touches <- MCTouches
    Job = {j1}
    Flaky = {t2}
SPECIFICATION Spec
INVARIANTS LoadedHasData
SYMMETRY Symmetry
CHECK_DEADLOCK FALSE
