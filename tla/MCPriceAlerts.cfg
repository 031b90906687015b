SPECIFICATION FairSpec
CONSTANTS
    Workers = {w1, w2}
    Tokens = {t1, t2}
    Codes = {A}
    Levels = {1, 3}
    Targets = {2}
    MaxSets = 2
    MaxMoves = 1
    MaxFails = 1
    None = None
INVARIANTS TriggeredReached PushedOnce
PROPERTIES ReachedAreMarked
CHECK_DEADLOCK FALSE
