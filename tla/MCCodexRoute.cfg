SPECIFICATION FairSpec
CONSTANTS
    BackoffBase = 1
    BackoffMax = 2
    BackoffHeaderMax = 2
    JitterFraction = 2
    Accounts = {a1, a2}
    Volatile = {a1}
    Calls = {c1, c2}
    States = {s1, s2, s3, s4}
    NoState = NoState
    Nobody = Nobody
    FetchConcurrency = 1
    Millisecond = 2
    CacheTTL = 1
    MaxNow = 2
    MaxFaults = 1
    MaxListChanges = 1
    FailureKinds <- MCFailures
INVARIANTS
    TypeOK
    NoStampedeUnlessRelisted
PROPERTIES
    FetchesSpaced
    AnswersHonest
    RouteAnswers
CHECK_DEADLOCK FALSE
