\* three heavy requests and a cheap one, one slot, a socket and its replacement
CONSTANTS
    h1 = h1
    h2 = h2
    h3 = h3
    c1 = c1
    s1 = s1
    s2 = s2
    NoSocket = NoSocket
    Request = {h1, h2, h3, c1}
    Heavy = {h1, h2, h3}
    Socket = {s1, s2}
    Cap = 1
    MaxId = 1
SPECIFICATION Spec
SYMMETRY Symmetry
INVARIANTS TypeOK LimiterExact NoneForgotten
PROPERTIES SentOnLiveSocket NoOvertaking Contract
CHECK_DEADLOCK FALSE
