SPECIFICATION Spec
CONSTANTS
    Every = 3
    MaxTime = 9
    MaxHidden = 3
INVARIANTS
    RateLimited
    CountIsTold
PROPERTIES
    NeverMute
