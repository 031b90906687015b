SPECIFICATION Spec
CONSTANTS
    Codes = {A, B}
    Callers = {c1, c2}
    Hubs = {h1, h2}
    None = None
    MaxCodes = 1
    NumTr = 1
    MaxCalls = 3
    MaxConns = 3
    MaxFaults = 1
SYMMETRY Symmetry
INVARIANTS CapacityRespected NoLeakedConnection CalmSessionsAgree
PROPERTIES ImplementsRegistry
CHECK_DEADLOCK FALSE
