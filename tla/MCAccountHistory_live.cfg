\* two jobs, an ether payment; servers answer or time out, blocks and refreshes go on
CONSTANTS
    j1 = j1
    j2 = j2
    t1 = t1
    t2 = t2
    h1 = h1
    h2 = h2
    h3 = h3
    h4 = h4
    None = None
    Jobs = {j1, j2}
    Heights = {h1, h2}
    Txs = {t1}
    TokenTxs = {}
    DirectTxs = {}
    PartyTxs = {}
    Cap = 2
    MaxFaults = 1
    CanImport = FALSE
SPECIFICATION LiveSpec
PROPERTIES Settles
CHECK_DEADLOCK FALSE
