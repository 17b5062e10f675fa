SPECIFICATION Spec
CONSTANTS
    BrokerList = {none, good, blanked}
    NoBrokers = none
    Blanked = {blanked}
    Tunable = {"fetch.min.bytes"}
    Written <- EachKind
    Value = {x}
    Duration = {0, 1}
    Name = {n1, n2}
    Topic = {t}
    Blank = Blank
    Nil = Nil
    Unset = Unset
    MaxOptions = 3
CHECK_DEADLOCK FALSE
INVARIANTS
    NothingUnpinned
    ServiceDecides
    AcceptedIsUsable
PROPERTIES
    Isolated
