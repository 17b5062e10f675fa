SPECIFICATION Spec
CONSTANTS
    Binding = {b1, b2}
    Partition = {p1, p2}
    AllowEmpty = {b1}
    Starter = {s1, s2}
    Waiter = {w1}
    WarmupTimeout = TRUE
    FatalHandler = TRUE
    MaxRecords = 1
    Nil = Nil
PROPERTIES
    WaitEstablishesStop
