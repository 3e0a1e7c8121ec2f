CONSTANTS
    Limit = 3
    Ttl = 4
    Second = 2
    MaxTime = 10
    MaxEvictions = 1
    MaxOutages = 1
SPECIFICATION Spec
INVARIANTS
    TypeOK
    LessThanTwiceTheLimit
    DenialEnds
PROPERTIES
    DenialIsEarned
    RetryAfterIsEnough
