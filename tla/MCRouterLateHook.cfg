SPECIFICATION Spec
CONSTANTS
    Second = 1
    MaxDuration = 100
    BackoffBase = 1
    BackoffMax = 1
    BackoffHeaderMax = 2
    JitterFraction = 2
    DefaultCutoff = 1
    DefaultPollInterval = 1
    DefaultRequestTimeout = 1
    AuthIDs = {1}
    QueuedIDs = {1}
    Identities = {1, 2, 3}
    Revisions = {1, 2, 3}
    ListRevisions = {1, 2, 3}
    Gates = {g1}
    Requests = {1}
    RequestModels <- MCModels
    Documents <- MCStrict
    FirstDocuments <- MCStrict
    RetryDelay = 1
    CorrelationTTL = 1
    PromptHook = FALSE
    MaxCorrelations = 1
    Percents = {0}
    ResetOffsets = {0, 2}
    ObservedSlots = {"five_hour"}
    FileChanges = {"replace", "remove", "restore"}
    MaxNow = 2
    MaxWrites = 2
    MaxFaults = 0
    MaxListings = 15
    MaxToggles = 0
    CandidateLists = {}
    FailureKinds <- MCFailures
INVARIANTS
    EvidenceOfListedAccount
CHECK_DEADLOCK FALSE
