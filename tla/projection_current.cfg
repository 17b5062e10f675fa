SPECIFICATION FairSpec
CONSTANTS
    Replica = {r1}
    Partition = {p1, p2}
    p1 = p1
    p2 = p2
    ka = ka
    kb = kb
    kx = kx
    v1 = v1
    v2 = v2
    broken = broken
    Null = Null
    Bad = Bad
    Absent = Absent
    RawKey <- SpelledRawKey
    PartitionOf <- SpelledPartitionOf
    Key = {ka, kx}
    DecodeKey <- SpelledDecodeKey
    Payload = {v1, Null}
    Tombstone = {Null}
    BadValue = {}
    KeyFromValue = Bad
    Rejected <- MonitorRejected
    AllowEmpty = FALSE
    MaxRecords = 3
    MaxStarts = 1
CHECK_DEADLOCK FALSE
INVARIANTS
    CurrentAtEnd
    EmptyTopicFails
PROPERTIES
    BecomesCurrent
