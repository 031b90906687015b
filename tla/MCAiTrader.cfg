SPECIFICATION Spec
CONSTANTS
    Codes = {X, Y}
    Procs = {p1, p2}
    Slots = {1, 2}
    Quotes = {10000, 20000}
    Caps = {50000}
    Qtys = {1}
    InitialCash = 30040
    Scale = 12
    MaxOrders = 3
    MaxResets = 1
    None = None
SYMMETRY Symmetry
INVARIANTS NoOverdraft ConsistentInOrder BooksBalance AverageIsCost
PROPERTIES ImplementsAccount
CHECK_DEADLOCK FALSE
