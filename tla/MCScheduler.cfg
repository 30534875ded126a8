SPECIFICATION Spec
CONSTANTS
    Second = 2
    MaxDuration = 7
    Cutoff = 1
    MaxNow = 9
    RequestFamilies = {"unknown", "fable"}
    Fleets <- MCFleets
    CandidateLists <- MCCandidateLists
INVARIANTS
    TypeOK
    RetryAdviceHonest
    RetryAdviceTight
    BackstopAgrees
    PickMeetsPolicy
CHECK_DEADLOCK FALSE
