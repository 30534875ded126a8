SPECIFICATION Spec
CONSTANTS
    BackoffBase = 1
    BackoffMax = 2
    BackoffHeaderMax = 2
    JitterFraction = 2
    Accounts = {a1}
    Volatile = {a1}
    Calls = {c1, c2}
    States = {s1, s2, s3}
    NoState = NoState
    Nobody = Nobody
    FetchConcurrency = 1
    Millisecond = 2
    CacheTTL = 1
    MaxNow = 1
    MaxFaults = 0
    MaxListChanges = 2
    FailureKinds <- MCFailures
INVARIANTS
    NeverStampede
CHECK_DEADLOCK FALSE
