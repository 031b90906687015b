SPECIFICATION FairSpec
CONSTANTS
    Clients = {c1, c2}
    Pairs = {P, Q}
    Listener = Listener
    None = None
    MaxMessages = 2
    MaxFaults = 1
INVARIANTS BelievedIsPeer DesiredByTheLiving LoneSyncAgrees
PROPERTIES ImplementsRegistry EventuallyServed
CHECK_DEADLOCK FALSE
