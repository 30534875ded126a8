SPECIFICATION Spec
CONSTANTS
    Second = 1
    MaxDuration = 10
    BackoffBase = 1
    BackoffMax = 1
    BackoffHeaderMax = 2
    JitterFraction = 2
    AuthIDs = {1}
    Identities = {1, 2}
    Revisions = {1, 2}
    ListRevisions = {1}
    Requests = {r1, r2}
    Cutoff = 90
    MaxNow = 3
    MaxListings = 2
    MaxPolls = 1
    Answers <- MCAnswers
    ResponseHeaders <- MCHeaders
    ResponseFamilies <- MCFamilies
SYMMETRY RequestSymmetry
INVARIANTS
    ExtraOfListedAccount
PROPERTIES
    StatusNeverRegresses
    WindowsMatchReports
    PauseReachesHint
CHECK_DEADLOCK FALSE
