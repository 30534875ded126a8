SPECIFICATION FairSpec
CONSTANTS
    Second = 1
    MaxDuration = 100
    BackoffBase = 1
    BackoffMax = 1
    BackoffHeaderMax = 2
    JitterFraction = 2
    DefaultCutoff = 1
    DefaultPollInterval = 1
    DefaultRequestTimeout = 1
    AuthIDs = {1}
    QueuedIDs = {1}
    Identities = {1, 2}
    Revisions = {1, 2}
    ListRevisions = {1, 2}
    Gates = {}
    Requests = {}
    RequestModels <- MCModels
    Documents <- MCDefaults
    FirstDocuments <- MCDefaults
    RetryDelay = 1
    CorrelationTTL = 1
    PromptHook = TRUE
    MaxCorrelations = 1
    Percents = {0}
    ResetOffsets = {0}
    ObservedSlots = {"five_hour"}
    FileChanges = {}
    MaxNow = 2
    MaxWrites = 0
    MaxFaults = 1
    MaxListings = 15
    MaxToggles = 0
    CandidateLists <- MCCandidates
    FailureKinds <- MCFailures
PROPERTIES
    ListedIsDiscovered
CHECK_DEADLOCK FALSE
