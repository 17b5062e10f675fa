SPECIFICATION FairSpec
CONSTANTS
    Caller = {c1, c2}
    Nobody = Nobody
    MaxCalls = 3
INVARIANTS
    HandleSafe
    LateCallRefused
PROPERTIES
    EveryCallReturns
