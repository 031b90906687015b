SPECIFICATION LimitSpec
CONSTANTS
    Watched = {A}
    Poller = poller
    Forcers = {request}
    MaxProbes = 1
INVARIANT KeptIfProbeFails
CHECK_DEADLOCK FALSE
