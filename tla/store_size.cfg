SPECIFICATION Spec
CONSTANTS
    Key = {k1, k2, k3}
    Value = {v1, v2}
    Absent = Absent
    Writer = {w1, w2}
    Walker = {r1}
    MaxWrites = 3
SYMMETRY Symmetry
INVARIANTS
    OffByOwed
    WalkIsHonest
