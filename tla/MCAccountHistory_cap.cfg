\* a list that the cap cuts before the token's transactions are picked
CONSTANTS
    j1 = j1
    j2 = j2
    t1 = t1
    t2 = t2
    h1 = h1
    h2 = h2
    h3 = h3
    h4 = h4
    None = None
    Jobs = {j1, j2}
    Heights = {h1, h2, h3}
    Txs = {t1, t2}
    TokenTxs = {t1}
    DirectTxs = {}
    PartyTxs = {t1}
    Cap = 1
    MaxFaults = 0
    CanImport = FALSE
SYMMETRY Symmetry
SPECIFICATION Spec
PROPERTIES TokensNotCrowdedOut
CHECK_DEADLOCK FALSE
