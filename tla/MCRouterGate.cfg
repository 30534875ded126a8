SPECIFICATION Spec
CONSTANTS
    Second = 1
    MaxDuration = 100
    BackoffBase = 1
    BackoffMax = 1
    BackoffHeaderMax = 2
    JitterFraction = 2
    DefaultCutoff = 1
    DefaultPollInterval = 2
    DefaultRequestTimeout = 1
    AuthIDs = {1, 2}
    QueuedIDs = {1, 2}
    Identities = {1, 2}
    Revisions = {1, 2}
    ListRevisions = {1, 2}
    Gates = {g1, g2}
    Requests = {}
    RequestModels <- MCModels
    Documents <- MCStrict
    FirstDocuments <- MCStrict
    RetryDelay = 1
    CorrelationTTL = 1
    PromptHook = TRUE
    MaxCorrelations = 1
    Percents = {1}
    ResetOffsets = {0, 2}
    ObservedSlots = {"five_hour"}
    FileChanges = {"replace", "remove", "restore"}
    MaxNow = 1
    MaxWrites = 1
    MaxFaults = 0
    MaxListings = 15
    MaxToggles = 0
    CandidateLists = {}
    FailureKinds <- MCFailures
INVARIANTS
    IncarnationsUnique
PROPERTIES
    AdmissionSound
SYMMETRY GateSymmetry
CHECK_DEADLOCK FALSE
