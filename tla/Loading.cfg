SPECIFICATION LiveSpec
CONSTANTS
    Calls = {c1}
    Coins = {btc}
    Ether = eth
    Tokens = {usdt}
    Watched = {usdt}
    GethSockets = {g1, g2}
    Blocks = {b1}
    MaxLogouts = 1
    MaxFaults = 1
    None = None
INVARIANTS GethRefreshesOnce
PROPERTIES LogoutAborts ConnectsUnlessStranded Reconnected
CHECK_DEADLOCK FALSE
