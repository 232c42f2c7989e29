\* an address is imported after a transaction with it is cached
CONSTANTS
    j1 = j1
    j2 = j2
    t1 = t1
    t2 = t2
    h1 = h1
    h2 = h2
    h3 = h3
    h4 = h4
    None = None
    Jobs = {j1, j2}
    Heights = {h1, h2, h3}
    Txs = {t1}
    TokenTxs = {t1}
    DirectTxs = {}
    PartyTxs = {t1}
    Cap = 2
    MaxFaults = 0
    CanImport = TRUE
SYMMETRY Symmetry
SPECIFICATION Spec
INVARIANTS RelativeToWallet
CHECK_DEADLOCK FALSE
