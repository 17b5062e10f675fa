SPECIFICATION Spec
CONSTANTS
    Replica = {r1, r2}
    Partition = {p1}
    p1 = p1
    p2 = p2
    ka = ka
    kb = kb
    kx = kx
    v1 = v1
    v2 = v2
    broken = broken
    Null = Null
    Bad = Bad
    Absent = Absent
    RawKey <- SingleRawKey
    PartitionOf <- SinglePartitionOf
    Key = {ka}
    DecodeKey <- SingleDecodeKey
    Payload = {v1, v2, Null, broken}
    Tombstone = {Null}
    BadValue = {broken}
    KeyFromValue = Bad
    Rejected <- NoneRejected
    AllowEmpty = TRUE
    MaxRecords = 3
    MaxStarts = 1
CHECK_DEADLOCK FALSE
SYMMETRY Symmetry
INVARIANTS
    ReplicasAgree
