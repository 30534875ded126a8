SPECIFICATION CacheSpec
CONSTANTS
    Second = 1
    MaxDuration = 100
    BackoffBase = 1
    BackoffMax = 1
    BackoffHeaderMax = 2
    JitterFraction = 2
    AuthIDs = {1}
    Identities = {1, 2}
    Revisions = {1, 2}
    ListRevisions = {1}
    Times = {1, 2}
    PollInterval = 2
    Cutoff = 1
    Hints = {2}
    MaxIncarnation = 2
    MaxGeneration = 1
    MaxFailures = 1
    Listings <- MCListings
    Tokens <- MCTokens
    Batches <- MCBatches
INVARIANTS
    CacheTypeOK
PROPERTIES
    ImplementsLedger
CHECK_DEADLOCK FALSE
