SPECIFICATION LifespanSpec
CONSTANTS
    Listers = {r1}
    MaxStarts = 0
    MaxErrors = 0
INVARIANTS PollersAsConfigured
CHECK_DEADLOCK FALSE
