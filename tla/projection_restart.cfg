SPECIFICATION Spec
CONSTANTS
    Replica = {r1}
    Partition = {p1, p2}
    p1 = p1
    p2 = p2
    ka = ka
    kb = kb
    kx = kx
    v1 = v1
    v2 = v2
    broken = broken
    Null = Null
    Bad = Bad
    Absent = Absent
    RawKey <- PlainRawKey
    PartitionOf <- PlainPartitionOf
    Key = {ka, kb}
    DecodeKey <- PlainDecodeKey
    Payload = {v1, v2, Null}
    Tombstone = {Null}
    BadValue = {}
    KeyFromValue = Bad
    Rejected <- NoneRejected
    AllowEmpty = TRUE
    MaxRecords = 4
    MaxStarts = 2
CHECK_DEADLOCK FALSE
SYMMETRY Symmetry
INVARIANTS
    TypeOK
    CurrentAtEnd
    FreshOnceSteady
