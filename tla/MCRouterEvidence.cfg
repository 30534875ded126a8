SPECIFICATION Spec
CONSTANTS
    Second = 1
    MaxDuration = 100
    BackoffBase = 1
    BackoffMax = 1
    BackoffHeaderMax = 2
    JitterFraction = 2
    DefaultCutoff = 1
    DefaultPollInterval = 2
    DefaultRequestTimeout = 1
    AuthIDs = {1}
    QueuedIDs = {1}
    Identities = {1, 2}
    Revisions = {1, 2}
    ListRevisions = {1, 2}
    Gates = {g1}
    Requests = {1, 2}
    RequestModels <- MCModels
    Documents <- MCStrict
    FirstDocuments <- MCStrict
    RetryDelay = 1
    CorrelationTTL = 2
    PromptHook = TRUE
    MaxCorrelations = 1
    Percents = {0}
    ResetOffsets = {0}
    ObservedSlots = {"five_hour"}
    FileChanges = {"replace"}
    MaxNow = 3
    MaxWrites = 1
    MaxFaults = 0
    MaxListings = 15
    MaxToggles = 0
    CandidateLists = {}
    FailureKinds <- MCFailures
INVARIANTS
    EvidenceOfListedAccount
PROPERTIES
    EvidenceNeverRegresses
    ImplementsLedger
CONSTRAINT GateOrSecond
CHECK_DEADLOCK FALSE
