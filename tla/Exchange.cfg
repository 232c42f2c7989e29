\* two conversions and a load, a new process included; a status of each kind
SPECIFICATION LiveSpec
CONSTANTS
    Call = {x1, x2}
    Past = past
    Poll = {p1, p2, p3}
    Statuses = {"waiting", "sending", "refunded", "expired"}
    MaxLoads = 1
PROPERTIES OneInProcess Concluded
CHECK_DEADLOCK FALSE
