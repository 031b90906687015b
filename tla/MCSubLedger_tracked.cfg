SPECIFICATION Spec
CONSTANTS
    Codes = {A, B}
    Clients = {c1}
    MaxCodes = 2
    Idle = 1
    Dwell = 1
    MaxCalls = 2
    None = None
INVARIANTS NeverUntracked
CHECK_DEADLOCK FALSE
