SPECIFICATION Spec
CONSTANTS
    Codes = {X, Y}
    Procs = {p1, p2}
    Slots = {1}
    Quotes = {10000, 20000}
    Caps = {50000}
    Qtys = {1}
    InitialCash = 30040
    Scale = 12
    MaxOrders = 2
    MaxResets = 0
    None = None
SYMMETRY Symmetry
INVARIANTS Consistent
CHECK_DEADLOCK FALSE
