\* two heavy requests (one queues behind the other) and a cheap one; no symmetry
CONSTANTS
    h1 = h1
    h2 = h2
    h3 = h3
    c1 = c1
    s1 = s1
    s2 = s2
    NoSocket = NoSocket
    Request = {h1, h2, c1}
    Heavy = {h1, h2}
    Socket = {s1, s2}
    Cap = 1
    MaxId = 0
SPECIFICATION FairSpec
PROPERTIES Answered
CHECK_DEADLOCK FALSE
