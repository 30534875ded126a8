---------------------------- MODULE CacheClients ----------------------------
(***************************************************************************)
(* The quota cache under any number of concurrent callers: every operation *)
(* may be called at any moment with any token a caller may hold, current   *)
(* or stale, and with clock readings taken before the lock was acquired.   *)
(* The cache implements CredentialLedger under all of them.                *)
(***************************************************************************)
EXTENDS QuotaCache

CONSTANTS Times,          \* clock readings
          Listings,       \* host listings: functions from auth IDs to [identity, listRevision]
          Tokens,         \* tokens a caller may hold
          Batches,        \* quota windows a usage answer or a response may carry
          PollInterval,   \* the minimum age of usage evidence before a refresh
          Cutoff,
          Hints,          \* upstream retry hints
          MaxIncarnation, MaxGeneration, MaxFailures   \* bounds on the counters

ListEntry == [identity : Identities, listRevision : ListRevisions]
TokenRecord == [identity : Identities \cup {None}, revision : Revisions \cup {None},
                generation : Nat, incarnation : Nat]
WindowRecord == [valid : BOOLEAN, percent : Nat, resetAt : Nat, sampledAt : Nat]

ASSUME ClientsAssumption ==
    /\ Times \subseteq Nat \ {NoTime}
    /\ \A listing \in Listings : /\ DOMAIN listing \subseteq AuthIDs
                                 /\ \A id \in DOMAIN listing : listing[id] \in ListEntry
    /\ Tokens \subseteq TokenRecord
    /\ Batches \subseteq [Slots -> WindowRecord]
    /\ MaxIncarnation \in Nat /\ MaxGeneration \in Nat /\ MaxFailures \in Nat

-----------------------------------------------------------------------------
(* One call each; the bounds keep the counters finite for TLC. *)

ReconcileCall ==
    \E listing \in Listings :
        /\ nextIncarnation + Cardinality(Fresh(listing)) <= MaxIncarnation
        /\ \A id \in Replaced(listing) \cup Changed(listing) : samples[id].generation < MaxGeneration
        /\ Reconcile(listing)

ClaimRevisionCheckCall ==
    \E id \in AuthIDs, now \in Times : ClaimRevisionCheck(id, now, PollInterval)

BindCall ==
    \E id \in AuthIDs, token \in Tokens, revision \in Revisions :
        /\ nextIncarnation < MaxIncarnation
        /\ BindRevision(id, token, revision)

ClaimPollCall ==
    \E id \in AuthIDs, now \in Times : ClaimPoll(id, now, Cutoff, PollInterval)

AttemptCall ==
    \E id \in AuthIDs, token \in Tokens, at \in Times : RecordUsageAttempt(id, token, at)

RefreshFailureCall ==
    \E id \in AuthIDs, token \in Tokens, now \in Times, hint \in Hints \cup {NoHint},
       category \in {"unauthorized", "rate_limited", "upstream"} :
        /\ samples[id].failures < MaxFailures
        /\ RecordRefreshFailure(id, token, category, hint, now)

PollFailureCall ==
    \E id \in AuthIDs, token \in Tokens, category \in {"auth_get", "missing_token"} :
        RecordFailureForIdentity(id, token, category)

\* A poll commits after it started; a response has no start and no identity.
PollCommitCall ==
    \E id \in AuthIDs, token \in Tokens, batch \in Batches, startedAt, at \in Times :
        /\ startedAt <= at
        /\ token.identity # None
        /\ batch["five_hour"].valid
        /\ CommitWindowBatch(id, token, batch, at, startedAt, TRUE)

ObservationCall ==
    \E id \in AuthIDs, token \in Tokens, batch \in Batches, at \in Times :
        /\ token.identity = None
        /\ CommitWindowBatch(id, token, batch, at, NoTime, FALSE)

CacheNext ==
    \/ ReconcileCall
    \/ ClaimRevisionCheckCall
    \/ BindCall
    \/ ClaimPollCall
    \/ AttemptCall
    \/ RefreshFailureCall
    \/ PollFailureCall
    \/ PollCommitCall
    \/ ObservationCall

CacheSpec == CacheInit /\ [][CacheNext]_cacheVars

-----------------------------------------------------------------------------
(* Properties *)

SampleRecord ==
    [identity : Identities \cup {None}, revision : Revisions \cup {None},
     listRevision : ListRevisions \cup {None},
     generation : Nat, incarnation : Nat, windows : [Slots -> WindowRecord],
     checkAttemptAt : Nat, usageAttemptAt : Nat, usageSuccessAt : Nat,
     failures : Nat, nextRefreshAt : Nat, lastError : Categories]

CacheTypeOK ==
    /\ samples \in [AuthIDs -> SampleRecord]
    /\ nextIncarnation \in Nat
=============================================================================
