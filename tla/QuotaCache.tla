----------------------------- MODULE QuotaCache -----------------------------
(***************************************************************************)
(* The quota cache: for every Claude credential the host lists, what is    *)
(* known of its quota and of the refreshes tried for it.  Each operation   *)
(* is one critical section of quotaCache.mu.  Its callers run concurrently *)
(* and hold on to what they read: a caller's token is the identity,        *)
(* revision, observed generation and incarnation it saw before an I/O      *)
(* call, and an operation refuses a token that is no longer current.       *)
(*                                                                         *)
(* Fields that no decision reads (Source, Name, AuthIndex, LastAttemptAt,  *)
(* LastRevisionCheckAt, the failure text, display-only extra usage and the *)
(* legacy copy of the five-hour window) are left out.                      *)
(***************************************************************************)
EXTENDS QuotaWindows, RefreshBackoff

CONSTANTS AuthIDs,       \* the auth IDs the host may list, ordered as reconcile takes them
          Identities,    \* physical identities (path, account, email)
          Revisions,     \* credential digests
          ListRevisions  \* list metadata (size and modification time)

ASSUME AuthIDsAssumption == AuthIDs \subseteq Nat /\ IsFiniteSet(AuthIDs)

None == 0    \* Go's empty string, in the place of an identity, revision or list revision

ASSUME NoneAssumption ==
    None \notin Identities /\ None \notin Revisions /\ None \notin ListRevisions

VARIABLES samples,          \* quotaCache.samples; incarnation 0 = no entry
          nextIncarnation   \* quotaCache.nextIncarnation

cacheVars == <<samples, nextIncarnation>>

\* Failure categories, those that are never told apart merged into "upstream".
NoError == "none"
Categories == {NoError, "unauthorized", "rate_limited", "upstream", "auth_get", "missing_token"}

NoWindow == [valid |-> FALSE, percent |-> 0, resetAt |-> NoTime, sampledAt |-> NoTime]
NoWindows == [s \in Slots |-> NoWindow]

NoSample ==
    [identity |-> None, revision |-> None, listRevision |-> None,
     generation |-> 0, incarnation |-> 0, windows |-> NoWindows,
     checkAttemptAt |-> NoTime, usageAttemptAt |-> NoTime, usageSuccessAt |-> NoTime,
     failures |-> 0, nextRefreshAt |-> NoTime, lastError |-> NoError]

CacheInit ==
    /\ samples = [id \in AuthIDs |-> NoSample]
    /\ nextIncarnation = 0

Held(id) == samples[id].incarnation # 0
Members == {id \in AuthIDs : Held(id)}
Fleet == [id \in Members |-> samples[id].windows]

-----------------------------------------------------------------------------
(* Readings of one sample *)

RefreshPaused(sample, now) == now < sample.nextRefreshAt

LatestUsageTime(sample) ==
    IF sample.usageSuccessAt > sample.usageAttemptAt
    THEN sample.usageSuccessAt ELSE sample.usageAttemptAt

UsageRefreshDue(sample, now, cutoff, age) ==
    /\ ~RefreshSuppressed(sample.windows, now, cutoff)
    /\ ~RefreshPaused(sample, now)
    /\ LatestUsageTime(sample) = NoTime \/ now >= LatestUsageTime(sample) + age

\* A token without a revision or an identity is not held to that part of it.
SampleMatches(sample, token) ==
    /\ sample.identity = token.identity
    /\ token.revision = None \/ sample.revision = token.revision

-----------------------------------------------------------------------------
(* reconcile: listing maps the listed IDs to [identity, listRevision]. *)

Replaced(listing) ==
    {id \in DOMAIN listing \cap Members :
        /\ samples[id].identity # None
        /\ samples[id].identity # listing[id].identity}

Changed(listing) ==
    {id \in (DOMAIN listing \cap Members) \ Replaced(listing) :
        /\ samples[id].listRevision # None
        /\ samples[id].listRevision # listing[id].listRevision}

\* The IDs that get a new incarnation, numbered in the order of the listing.
Fresh(listing) == (DOMAIN listing \ Members) \cup Replaced(listing)
\* Mutant: one number for all of them.
SharedRank(id, S) == 1

Rank(id, S) == Cardinality({j \in S : j <= id})

Relisted(id, listing) ==
    LET old == samples[id]
        bumped == IF id \in Replaced(listing) \cup Changed(listing) THEN 1 ELSE 0
        kept == IF id \in Fresh(listing)
                THEN [NoSample EXCEPT !.incarnation = nextIncarnation + Rank(id, Fresh(listing))]
                ELSE old
    IN  [kept EXCEPT !.generation = old.generation + bumped,
                     !.identity = listing[id].identity,
                     !.listRevision = listing[id].listRevision]

\* Mutant: nothing is deleted but the whole entry of an unlisted ID.
ReconcileTrimmed(listing) ==
    /\ samples' = [id \in DOMAIN listing |-> Relisted(id, listing)]
    /\ nextIncarnation' = nextIncarnation + Cardinality(Fresh(listing))

Reconcile(listing) ==
    /\ samples' = [id \in AuthIDs |->
                      IF id \in DOMAIN listing THEN Relisted(id, listing) ELSE NoSample]
    /\ nextIncarnation' = nextIncarnation + Cardinality(Fresh(listing))

-----------------------------------------------------------------------------
(* Revision checks *)

RevisionCheckClaimable(id, now, age) ==
    /\ Held(id)
    /\ samples[id].checkAttemptAt = NoTime \/ now >= samples[id].checkAttemptAt + age

ClaimRevisionCheck(id, now, age) ==
    /\ RevisionCheckClaimable(id, now, age)
    /\ samples' = [samples EXCEPT ![id].checkAttemptAt = now]
    /\ UNCHANGED nextIncarnation

BindAllowed(id, token) ==
    /\ Held(id)
    /\ samples[id].identity = token.identity
    /\ samples[id].generation = token.generation
    /\ samples[id].incarnation = token.incarnation

\* Mutant: the pause is dropped with the windows.
RotatedClean(sample, incarnation) ==
    [NoSample EXCEPT !.identity = sample.identity, !.listRevision = sample.listRevision,
                     !.checkAttemptAt = sample.checkAttemptAt, !.generation = sample.generation,
                     !.incarnation = incarnation]

\* Mutant: the pause is kept whatever caused it.
RotatedPaused(sample, incarnation) ==
    [NoSample EXCEPT !.identity = sample.identity, !.listRevision = sample.listRevision,
                     !.checkAttemptAt = sample.checkAttemptAt, !.generation = sample.generation,
                     !.incarnation = incarnation, !.failures = sample.failures,
                     !.nextRefreshAt = sample.nextRefreshAt, !.lastError = sample.lastError]

\* A token rotation starts a new incarnation without windows; it keeps the
\* refresh pause unless the recorded failure is that of a rejected token.
Rotated(sample, incarnation) ==
    LET fresh == [NoSample EXCEPT !.identity = sample.identity,
                                  !.listRevision = sample.listRevision,
                                  !.checkAttemptAt = sample.checkAttemptAt,
                                  !.generation = sample.generation,
                                  !.incarnation = incarnation]
    IN  IF sample.lastError = "unauthorized" THEN fresh
        ELSE [fresh EXCEPT !.failures = sample.failures,
                           !.nextRefreshAt = sample.nextRefreshAt,
                           !.lastError = sample.lastError]

Rotates(id, revision) == samples[id].revision \notin {None, revision}

BindRevision(id, token, revision) ==
    /\ BindAllowed(id, token)
    /\ LET bound == IF Rotates(id, revision) THEN Rotated(samples[id], nextIncarnation + 1)
                    ELSE samples[id]
       IN  samples' = [samples EXCEPT ![id] = [bound EXCEPT !.revision = revision]]
    /\ nextIncarnation' = IF Rotates(id, revision) THEN nextIncarnation + 1 ELSE nextIncarnation

-----------------------------------------------------------------------------
(* Usage attempts and failures *)

ClaimPoll(id, now, cutoff, age) ==
    /\ Held(id)
    /\ UsageRefreshDue(samples[id], now, cutoff, age)
    /\ samples' = [samples EXCEPT ![id].usageAttemptAt = now]
    /\ UNCHANGED nextIncarnation

\* Mutant: the pause is left to the check at the start of the poll.
AttemptUnpaused(id, token, at) ==
    /\ Held(id)
    /\ SampleMatches(samples[id], token)
    /\ samples[id].generation = token.generation
    /\ samples[id].incarnation = token.incarnation

AttemptAllowed(id, token, at) ==
    /\ Held(id)
    /\ SampleMatches(samples[id], token)
    /\ samples[id].generation = token.generation
    /\ samples[id].incarnation = token.incarnation
    /\ ~RefreshPaused(samples[id], at)

RecordUsageAttempt(id, token, at) ==
    /\ AttemptAllowed(id, token, at)
    /\ samples' = [samples EXCEPT ![id].usageAttemptAt = at]
    /\ UNCHANGED nextIncarnation

\* The failure of a fetch is recorded whatever generation it started in.
RecordRefreshFailure(id, token, category, hint, now) ==
    /\ Held(id)
    /\ SampleMatches(samples[id], token)
    /\ samples[id].incarnation = token.incarnation
    /\ \E pause \in Pauses(samples[id].failures + 1, category = "rate_limited", hint) :
          samples' = [samples EXCEPT ![id].failures = @ + 1,
                                     ![id].nextRefreshAt = now + pause,
                                     ![id].lastError = category]
    /\ UNCHANGED nextIncarnation

RecordFailureForIdentity(id, token, category) ==
    /\ Held(id)
    /\ SampleMatches(samples[id], token)
    /\ samples' = [samples EXCEPT ![id].lastError = category]
    /\ UNCHANGED nextIncarnation

-----------------------------------------------------------------------------
(* commitWindowBatch: a poll stamps its windows with the commit time and    *)
(* yields to evidence at least as new as its start; a response's windows    *)
(* carry the time they were observed and yield to newer evidence only.      *)

\* Mutant: the generation and the incarnation are not compared.
CommitAnyHolder(id, token) == Held(id) /\ (token.identity # None => SampleMatches(samples[id], token))

CommitAllowed(id, token) ==
    /\ Held(id)
    /\ token.identity # None => SampleMatches(samples[id], token)
    /\ samples[id].generation = token.generation
    /\ samples[id].incarnation = token.incarnation

\* Mutants: a poll is as new as its commit; a response always lands.
LandsByCommit(old, next, startedAt, isPoll) ==
    next.valid /\ (old.valid /\ old.sampledAt # NoTime => next.sampledAt >= old.sampledAt)

LandsAlways(old, next, startedAt, isPoll) ==
    next.valid /\ (old.valid /\ old.sampledAt # NoTime /\ isPoll => old.sampledAt < startedAt)

Lands(old, next, startedAt, isPoll) ==
    /\ next.valid
    /\ old.valid /\ old.sampledAt # NoTime =>
          IF isPoll THEN old.sampledAt < startedAt ELSE next.sampledAt >= old.sampledAt

LandingSlots(id, batch, startedAt, isPoll) ==
    {s \in Slots : Lands(samples[id].windows[s], batch[s], startedAt, isPoll)}

Stamped(batch, at) == [s \in Slots |-> [batch[s] EXCEPT !.sampledAt = at]]

\* at: the commit time of a poll, the observation time of a response.
CommitWindowBatch(id, token, batch, at, startedAt, isPoll) ==
    /\ CommitAllowed(id, token)
    /\ LET incoming == Stamped(batch, at)
           landing == LandingSlots(id, incoming, startedAt, isPoll)
           old == samples[id]
           updated == [old EXCEPT
               !.windows = [s \in Slots |-> IF s \in landing THEN incoming[s] ELSE @[s]],
               !.lastError = IF landing # {} THEN NoError ELSE @]
           recovered == [updated EXCEPT
               !.usageSuccessAt = AtLeast(at, @),
               !.failures = 0,
               !.nextRefreshAt = NoTime]
       IN  samples' = [samples EXCEPT ![id] = IF isPoll THEN recovered ELSE updated]
    /\ UNCHANGED nextIncarnation
-----------------------------------------------------------------------------
(* Properties *)

\* No two credentials ever carry the same incarnation: a token of one is
\* never current for the other (reconcile allocates several at once).
IncarnationsUnique ==
    /\ \A id \in AuthIDs : samples[id].incarnation <= nextIncarnation
    /\ \A id, other \in Members : samples[id].incarnation = samples[other].incarnation => id = other

EvidenceTime(w) == IF w.valid THEN w.sampledAt ELSE 0

Ledger == INSTANCE CredentialLedger WITH
    Ids <- AuthIDs,
    Windows <- Slots,
    lifetime <- [id \in AuthIDs |-> samples[id].incarnation],
    evidence <- [id \in AuthIDs |-> [s \in Slots |-> EvidenceTime(samples[id].windows[s])]],
    allocated <- nextIncarnation

\* The cache implements the ledger: incarnations are never reused and never
\* carry evidence over, and no call, however late, replaces the evidence of a
\* window by older evidence.
ImplementsLedger == Ledger!LedgerSpec
=============================================================================
