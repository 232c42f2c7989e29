\* three conversions, one after the other, of which one may expire
SPECIFICATION Spec
CONSTANTS
    Call = {x1, x2, x3}
    Past = past
    Poll = {p1, p2, p3}
    Statuses = {"waiting", "expired"}
    MaxLoads = 0
PROPERTIES AbortsIfInProcess
CHECK_DEADLOCK FALSE
