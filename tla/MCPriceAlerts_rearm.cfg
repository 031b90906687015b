SPECIFICATION Spec
CONSTANTS
    Workers = {w1}
    Tokens = {t1}
    Codes = {A}
    Levels = {1, 3}
    Targets = {2}
    MaxSets = 2
    MaxMoves = 1
    MaxFails = 0
    None = None
INVARIANTS MarkedAreReached
CHECK_DEADLOCK FALSE
