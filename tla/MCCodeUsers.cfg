SPECIFICATION UsersSpec
CONSTANTS
    Codes = {A, B}
    Clients = {c1, c2}
    MaxCodes = 1
    Idle = 1
    Dwell = 2
    MaxCalls = 4
    None = None
    A = A
    B = B
    C = C
    n1 = n1
    n2 = n2
    v1 = v1
    v2 = v2
    v3 = v3
    Runner = Runner
    Nobody = Nobody
    caller = caller
    hub = hub
INVARIANTS UsersTypeOK TrackedUnlessSlipped ViewersCovered
PROPERTIES SweptOnlyWhenIdle EventuallySwept  SessionsConverge PeerConverges
CHECK_DEADLOCK FALSE
