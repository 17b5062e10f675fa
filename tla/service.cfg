SPECIFICATION ServiceSpec
CONSTANTS
    Binding = {b1, b2}
    Partition = {p1, p2}
    AllowEmpty = {b1, b2}
    Main = Main
    Starter = {Main}
    Waiter = {Main}
    WarmupTimeout = FALSE
    FatalHandler = TRUE
    MaxRecords = 1
    Nil = Nil
INVARIANTS
    ExitsIdle
    ExitTellsWhy
PROPERTIES
    GoesDown
