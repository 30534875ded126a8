----------------------------- MODULE CacheProofs -----------------------------
(***************************************************************************)
(* The quota cache under arbitrary callers: typing, uniqueness of          *)
(* incarnations, and the refinement of CredentialLedger.                   *)
(***************************************************************************)
EXTENDS CacheClients, QuotaCacheProofs

-----------------------------------------------------------------------------
(* Typing *)

\* The absent entry is a sample.
LEMMA NoSampleType == NoSample \in SampleRecord
BY DEF NoSample, SampleRecord, NoWindows, NoWindow, WindowRecord, NoTime, Categories

\* Only known IDs get a new incarnation from a listing.
LEMMA FreshMembers ==
    ASSUME NEW listing \in Listings
    PROVE  Fresh(listing) \in SUBSET AuthIDs
BY ClientsAssumption DEF Fresh, Replaced, Members

\* A reconciled listing leaves every entry well typed.
LEMMA ReconcileType ==
    ASSUME CacheTypeOK, NEW listing \in Listings, Reconcile(listing)
    PROVE  CacheTypeOK'
<1>1. /\ Fresh(listing) \in SUBSET AuthIDs
      /\ Cardinality(Fresh(listing)) \in Nat
      /\ \A id \in Fresh(listing) : Rank(id, Fresh(listing)) \in Nat
  BY FreshMembers, RankNumbers
<1>2. \A id \in DOMAIN listing : /\ id \in AuthIDs
                                 /\ listing[id].identity \in Identities
                                 /\ listing[id].listRevision \in ListRevisions
  BY ClientsAssumption DEF ListEntry
<1>3. ASSUME NEW id \in AuthIDs, id \in DOMAIN listing
      PROVE  Relisted(id, listing) \in SampleRecord
  <2>1. samples[id] \in SampleRecord
    BY DEF CacheTypeOK
  <2> DEFINE kept == IF id \in Fresh(listing)
                     THEN [NoSample EXCEPT !.incarnation = nextIncarnation + Rank(id, Fresh(listing))]
                     ELSE samples[id]
  <2>2. kept \in SampleRecord
    BY <1>1, <2>1, NoSampleType DEF CacheTypeOK, SampleRecord
  <2> DEFINE bumped == IF id \in Replaced(listing) \cup Changed(listing) THEN 1 ELSE 0
  <2>3. Relisted(id, listing) =
            [kept EXCEPT !.generation = samples[id].generation + bumped,
                         !.identity = listing[id].identity,
                         !.listRevision = listing[id].listRevision]
    BY DEF Relisted
  <2>4. bumped \in Nat
    OBVIOUS
  <2> HIDE DEF kept, bumped
  <2>5. samples[id].generation + bumped \in Nat
    BY <2>1, <2>4 DEF SampleRecord
  <2>. QED
    BY <1>2, <1>3, <2>2, <2>3, <2>5 DEF SampleRecord
<1>4. samples' \in [AuthIDs -> SampleRecord]
  BY <1>3, NoSampleType DEF Reconcile
<1>5. nextIncarnation' \in Nat
  BY <1>1 DEF Reconcile, CacheTypeOK
<1>. QED
  BY <1>4, <1>5 DEF CacheTypeOK

\* Every other operation changes the sample of one held credential.
LEMMA UpdateType ==
    ASSUME CacheTypeOK, NEW id \in AuthIDs, NEW s \in SampleRecord,
           samples' = [samples EXCEPT ![id] = s], nextIncarnation' \in Nat
    PROVE  CacheTypeOK'
BY DEF CacheTypeOK

\* Binding a revision, with or without a rotation, leaves every entry well typed.
LEMMA BindType ==
    ASSUME CacheTypeOK, NEW id \in AuthIDs, NEW token \in Tokens, NEW revision \in Revisions,
           BindRevision(id, token, revision)
    PROVE  CacheTypeOK'
<1> DEFINE bound == IF Rotates(id, revision) THEN Rotated(samples[id], nextIncarnation + 1)
                    ELSE samples[id]
<1>1. samples[id] \in SampleRecord /\ nextIncarnation \in Nat
  BY DEF CacheTypeOK
<1>2. Rotated(samples[id], nextIncarnation + 1) \in SampleRecord
  <2> DEFINE sample == samples[id]
             fresh == [NoSample EXCEPT !.identity = sample.identity,
                                       !.listRevision = sample.listRevision,
                                       !.checkAttemptAt = sample.checkAttemptAt,
                                       !.generation = sample.generation,
                                       !.incarnation = nextIncarnation + 1]
  <2>1. /\ sample.identity \in Identities \cup {None}
        /\ sample.listRevision \in ListRevisions \cup {None}
        /\ sample.checkAttemptAt \in Nat /\ sample.generation \in Nat
        /\ nextIncarnation + 1 \in Nat
    BY <1>1 DEF SampleRecord
  <2> HIDE DEF sample
  <2>3. fresh \in SampleRecord
    BY <2>1, NoSampleType DEF SampleRecord
  <2> USE DEF sample
  <2>2. Rotated(sample, nextIncarnation + 1) =
            IF sample.lastError = "unauthorized" THEN fresh
            ELSE [fresh EXCEPT !.failures = sample.failures,
                               !.nextRefreshAt = sample.nextRefreshAt,
                               !.lastError = sample.lastError]
    BY DEF Rotated
  <2> HIDE DEF fresh
  <2>. QED
    BY <1>1, <2>3, <2>2 DEF SampleRecord
<1>3. bound \in SampleRecord
  BY <1>1, <1>2
<1> HIDE DEF bound
<1>4. [bound EXCEPT !.revision = revision] \in SampleRecord
  BY <1>3 DEF SampleRecord
<1>5. samples' = [samples EXCEPT ![id] = [bound EXCEPT !.revision = revision]]
  BY DEF BindRevision, bound
<1>6. nextIncarnation' \in Nat
  BY <1>1 DEF BindRevision
<1>. QED
  BY <1>4, <1>5, <1>6, UpdateType

\* A committed batch leaves every entry well typed.
LEMMA CommitType ==
    ASSUME CacheTypeOK, NEW id \in AuthIDs, NEW token \in Tokens, NEW batch \in Batches,
           NEW at \in Times, NEW startedAt \in Nat, NEW isPoll \in BOOLEAN,
           CommitWindowBatch(id, token, batch, at, startedAt, isPoll)
    PROVE  CacheTypeOK'
<1> DEFINE incoming == Stamped(batch, at)
           landing == LandingSlots(id, incoming, startedAt, isPoll)
           old == samples[id]
           updated == [old EXCEPT
               !.windows = [s \in Slots |-> IF s \in landing THEN incoming[s] ELSE @[s]],
               !.lastError = IF landing # {} THEN NoError ELSE @]
           recovered == [updated EXCEPT
               !.usageSuccessAt = AtLeast(at, @), !.failures = 0, !.nextRefreshAt = NoTime]
<1>1. old \in SampleRecord /\ nextIncarnation \in Nat
  BY DEF CacheTypeOK
<1>2. at \in Nat /\ batch \in [Slots -> WindowRecord]
  BY ClientsAssumption
<1>3. incoming \in [Slots -> WindowRecord]
  BY <1>2 DEF Stamped, WindowRecord
<1>4. samples' = [samples EXCEPT ![id] = IF isPoll THEN recovered ELSE updated]
      /\ nextIncarnation' = nextIncarnation
  BY DEF CommitWindowBatch
<1> HIDE DEF incoming, landing, old
<1>5. [s \in Slots |-> IF s \in landing THEN incoming[s] ELSE old.windows[s]] \in [Slots -> WindowRecord]
  BY <1>1, <1>3 DEF SampleRecord
<1>6. updated \in SampleRecord
  BY <1>1, <1>5 DEF SampleRecord, Categories
<1> HIDE DEF updated
<1>7. recovered \in SampleRecord
  BY <1>2, <1>6 DEF SampleRecord, AtLeast, NoTime
<1>. QED
  BY <1>1, <1>4, <1>6, <1>7, UpdateType

\* A recorded fetch failure leaves every entry well typed: its pause is a natural number.
LEMMA FailureType ==
    ASSUME CacheTypeOK, NEW id \in AuthIDs, NEW token \in Tokens,
           NEW category \in Categories, NEW hint, NEW now \in Times,
           RecordRefreshFailure(id, token, category, hint, now)
    PROVE  CacheTypeOK'
<1>1. samples[id] \in SampleRecord /\ nextIncarnation \in Nat /\ now \in Nat
  BY ClientsAssumption DEF CacheTypeOK
<1>2. PICK pause \in Pauses(samples[id].failures + 1, category = "rate_limited", hint) :
          samples' = [samples EXCEPT ![id].failures = @ + 1,
                                     ![id].nextRefreshAt = now + pause,
                                     ![id].lastError = category]
  BY DEF RecordRefreshFailure
<1>3. pause \in Nat
  BY DEF Pauses
<1>4. samples[id].failures + 1 \in Nat /\ now + pause \in Nat
  BY <1>1, <1>3 DEF SampleRecord
<1>5. [samples[id] EXCEPT !.failures = @ + 1, !.nextRefreshAt = now + pause, !.lastError = category]
          \in SampleRecord
  BY <1>1, <1>4 DEF SampleRecord
<1>. QED
  BY <1>1, <1>2, <1>5 DEF CacheTypeOK, RecordRefreshFailure

\* Claims, attempts and poll failures leave every entry well typed.
LEMMA StampType ==
    ASSUME CacheTypeOK, NEW id \in AuthIDs, NEW now \in Nat, UNCHANGED nextIncarnation,
           NEW category \in Categories,
           \/ samples' = [samples EXCEPT ![id].checkAttemptAt = now]
           \/ samples' = [samples EXCEPT ![id].usageAttemptAt = now]
           \/ samples' = [samples EXCEPT ![id].lastError = category]
    PROVE  CacheTypeOK'
<1>1. samples[id] \in SampleRecord /\ nextIncarnation \in Nat /\ now \in Nat
  BY ClientsAssumption DEF CacheTypeOK
<1>2. CASE samples' = [samples EXCEPT ![id].checkAttemptAt = now]
  BY <1>1, <1>2 DEF CacheTypeOK, SampleRecord
<1>3. CASE samples' = [samples EXCEPT ![id].usageAttemptAt = now]
  BY <1>1, <1>3 DEF CacheTypeOK, SampleRecord
<1>4. CASE samples' = [samples EXCEPT ![id].lastError = category]
  BY <1>1, <1>4 DEF CacheTypeOK, SampleRecord
<1>. QED
  BY <1>2, <1>3, <1>4

\* Every call keeps the type of the cache.
LEMMA TypeStep == CacheTypeOK /\ [CacheNext]_cacheVars => CacheTypeOK'
<1> SUFFICES ASSUME CacheTypeOK, [CacheNext]_cacheVars PROVE CacheTypeOK'
  OBVIOUS
<1> USE ClientsAssumption
<1>1. CASE ReconcileCall
  BY <1>1, ReconcileType DEF ReconcileCall
<1>2. CASE ClaimRevisionCheckCall
  BY <1>2, StampType DEF ClaimRevisionCheckCall, ClaimRevisionCheck, Categories
<1>3. CASE BindCall
  BY <1>3, BindType DEF BindCall
<1>4. CASE ClaimPollCall
  BY <1>4, StampType DEF ClaimPollCall, ClaimPoll, Categories
<1>5. CASE AttemptCall
  BY <1>5, StampType DEF AttemptCall, RecordUsageAttempt, Categories
<1>6. CASE RefreshFailureCall
  BY <1>6, FailureType DEF RefreshFailureCall, Categories
<1>7. CASE PollFailureCall
  <2>1. PICK id \in AuthIDs, token \in Tokens, category \in {"auth_get", "missing_token"} :
            RecordFailureForIdentity(id, token, category)
    BY <1>7 DEF PollFailureCall
  <2>2. category \in Categories /\ 0 \in Nat
    BY DEF Categories
  <2>. QED
    BY <2>1, <2>2, StampType DEF RecordFailureForIdentity
<1>8. CASE PollCommitCall
  BY <1>8, CommitType DEF PollCommitCall
<1>9. CASE ObservationCall
  BY <1>9, CommitType DEF ObservationCall, NoTime
<1>10. CASE UNCHANGED cacheVars
  BY <1>10 DEF cacheVars, CacheTypeOK
<1>. QED
  BY <1>1, <1>2, <1>3, <1>4, <1>5, <1>6, <1>7, <1>8, <1>9, <1>10 DEF CacheNext

\* The cache's state stays in its type whatever its callers call.
THEOREM TypeCorrect == CacheSpec => []CacheTypeOK
<1>1. CacheInit => CacheTypeOK
  BY NoSampleType DEF CacheInit, CacheTypeOK
<1>. QED
  BY <1>1, TypeStep, PTL DEF CacheSpec

-----------------------------------------------------------------------------
(* Incarnations *)

\* Every operation but reconcile and bindRevision leaves the incarnations alone.
KeepsIncarnations ==
    /\ \A id \in AuthIDs : samples'[id].incarnation = samples[id].incarnation
    /\ nextIncarnation' = nextIncarnation

\* Every call but reconcile and bind keeps the incarnations.
LEMMA OtherCallsKeepIncarnations ==
    ASSUME CacheTypeOK, CacheNext, ~ReconcileCall, ~BindCall
    PROVE  KeepsIncarnations
<1>0. /\ samples \in [AuthIDs -> SampleRecord]
      /\ \A id \in AuthIDs : samples[id] \in SampleRecord
  BY DEF CacheTypeOK
<1>1. CASE ClaimRevisionCheckCall \/ ClaimPollCall \/ AttemptCall \/ PollFailureCall
  BY <1>0, <1>1 DEF ClaimRevisionCheckCall, ClaimPollCall, AttemptCall, PollFailureCall,
     ClaimRevisionCheck, ClaimPoll, RecordUsageAttempt, RecordFailureForIdentity,
     KeepsIncarnations, SampleRecord
<1>2. CASE RefreshFailureCall
  BY <1>0, <1>2 DEF RefreshFailureCall, RecordRefreshFailure, KeepsIncarnations, SampleRecord
<1>3. CASE PollCommitCall \/ ObservationCall
  <2>1. ASSUME NEW id \in AuthIDs, NEW token \in Tokens, NEW batch \in Batches, NEW at \in Times,
               NEW startedAt \in Nat, NEW isPoll \in BOOLEAN,
               CommitWindowBatch(id, token, batch, at, startedAt, isPoll)
        PROVE  KeepsIncarnations
    BY <1>0, <2>1 DEF CommitWindowBatch, KeepsIncarnations, SampleRecord
  <2>2. CASE PollCommitCall
    BY <2>1, <2>2, ClientsAssumption DEF PollCommitCall
  <2>3. CASE ObservationCall
    BY <2>1, <2>3 DEF ObservationCall, NoTime
  <2>. QED
    BY <1>3, <2>2, <2>3
<1>. QED
  BY <1>1, <1>2, <1>3 DEF CacheNext

\* What a listing does to the incarnations: a fresh credential gets a number
\* above all earlier ones and a different one from every other fresh one.
LEMMA ReconcileIncarnations ==
    ASSUME CacheTypeOK, NEW listing \in Listings, Reconcile(listing)
    PROVE  /\ nextIncarnation' \in Nat /\ nextIncarnation' >= nextIncarnation
           /\ \A id \in AuthIDs \ DOMAIN listing : samples'[id] = NoSample
           /\ \A id \in Fresh(listing) :
                 /\ samples'[id].incarnation \in (nextIncarnation + 1)..nextIncarnation'
                 /\ samples'[id].windows = NoWindows
           /\ \A id, other \in Fresh(listing) :
                 samples'[id].incarnation = samples'[other].incarnation => id = other
           /\ \A id \in DOMAIN listing \ Fresh(listing) :
                 /\ samples'[id].incarnation = samples[id].incarnation
                 /\ samples'[id].windows = samples[id].windows
<1> DEFINE S == Fresh(listing)
<1>1. /\ S \in SUBSET AuthIDs
      /\ Cardinality(S) \in Nat
      /\ \A id \in S : Rank(id, S) \in 1..Cardinality(S)
      /\ \A id, other \in S : Rank(id, S) = Rank(other, S) => id = other
  BY FreshMembers, RankNumbers
<1>2. nextIncarnation \in Nat /\ nextIncarnation' = nextIncarnation + Cardinality(S)
  BY DEF CacheTypeOK, Reconcile
<1>3. DOMAIN listing \subseteq AuthIDs /\ S \subseteq DOMAIN listing
  BY ClientsAssumption DEF Fresh, Replaced
<1>4. \A id \in AuthIDs : samples'[id] = IF id \in DOMAIN listing THEN Relisted(id, listing) ELSE NoSample
  BY DEF Reconcile
<1>5. \A id \in S : /\ samples'[id].incarnation = nextIncarnation + Rank(id, S)
                   /\ samples'[id].windows = NoWindows
  <2>1. SUFFICES ASSUME NEW id \in S
                 PROVE  /\ samples'[id].incarnation = nextIncarnation + Rank(id, S)
                        /\ samples'[id].windows = NoWindows
    OBVIOUS
  <2>2. samples'[id] = Relisted(id, listing)
    BY <1>3, <1>4
  <2>3. /\ Relisted(id, listing).incarnation = nextIncarnation + Rank(id, S)
        /\ Relisted(id, listing).windows = NoWindows
    BY <2>1 DEF Relisted, NoSample
  <2>. QED
    BY <2>2, <2>3
<1>6. \A id \in DOMAIN listing \ S :
          /\ samples'[id].incarnation = samples[id].incarnation
          /\ samples'[id].windows = samples[id].windows
  <2>1. SUFFICES ASSUME NEW id \in DOMAIN listing, id \notin S
                 PROVE  /\ samples'[id].incarnation = samples[id].incarnation
                        /\ samples'[id].windows = samples[id].windows
    OBVIOUS
  <2>2. samples[id] \in SampleRecord /\ samples'[id] = Relisted(id, listing)
    BY <1>3, <1>4 DEF CacheTypeOK
  <2>. QED
    BY <2>1, <2>2 DEF Relisted, SampleRecord
<1> HIDE DEF S
<1>7. \A id \in S : Rank(id, S) \in Nat
  BY <1>1
<1>8. \A id, other \in S : samples'[id].incarnation = samples'[other].incarnation => id = other
  BY <1>1, <1>2, <1>5, <1>7
<1>9. \A id \in S : samples'[id].incarnation \in (nextIncarnation + 1)..nextIncarnation'
  BY <1>1, <1>2, <1>5
<1>10. nextIncarnation' \in Nat /\ nextIncarnation' >= nextIncarnation
  BY <1>1, <1>2
<1>. QED
  BY <1>4, <1>5, <1>6, <1>8, <1>9, <1>10 DEF S

\* A bound revision either keeps the credential's lifetime or, for a rotated
\* token, begins a new one without windows.
LEMMA BindIncarnations ==
    ASSUME CacheTypeOK, NEW id \in AuthIDs, NEW token, NEW revision, BindRevision(id, token, revision)
    PROVE  /\ \A other \in AuthIDs \ {id} : samples'[other] = samples[other]
           /\ \/ /\ nextIncarnation' = nextIncarnation
                 /\ samples'[id].incarnation = samples[id].incarnation
                 /\ samples'[id].windows = samples[id].windows
              \/ /\ nextIncarnation' = nextIncarnation + 1
                 /\ samples'[id].incarnation = nextIncarnation + 1
                 /\ samples'[id].windows = NoWindows
<1> DEFINE bound == IF Rotates(id, revision) THEN Rotated(samples[id], nextIncarnation + 1)
                    ELSE samples[id]
<1>1. samples \in [AuthIDs -> SampleRecord] /\ samples[id] \in SampleRecord
  BY DEF CacheTypeOK
<1>2. samples' = [samples EXCEPT ![id] = [bound EXCEPT !.revision = revision]]
  BY DEF BindRevision
<1>3. Rotated(samples[id], nextIncarnation + 1).incarnation = nextIncarnation + 1
      /\ Rotated(samples[id], nextIncarnation + 1).windows = NoWindows
  BY DEF Rotated, NoSample
<1>4. samples'[id].incarnation = bound.incarnation /\ samples'[id].windows = bound.windows
  <2>1. samples'[id] = [bound EXCEPT !.revision = revision]
    BY <1>1, <1>2
  <2>2. CASE Rotates(id, revision)
    BY <2>1, <2>2 DEF Rotated, NoSample
  <2>3. CASE ~Rotates(id, revision)
    BY <1>1, <2>1, <2>3 DEF SampleRecord
  <2>. QED
    BY <2>2, <2>3
<1>5. nextIncarnation' = IF Rotates(id, revision) THEN nextIncarnation + 1 ELSE nextIncarnation
  BY DEF BindRevision
<1>. QED
  BY <1>1, <1>2, <1>3, <1>4, <1>5

\* Every call keeps incarnations unique: fresh ones are above all earlier ones.
LEMMA UniqueStep ==
    CacheTypeOK /\ IncarnationsUnique /\ [CacheNext]_cacheVars => IncarnationsUnique'
<1> SUFFICES ASSUME CacheTypeOK, IncarnationsUnique, [CacheNext]_cacheVars PROVE IncarnationsUnique'
  OBVIOUS
<1>1. /\ nextIncarnation \in Nat
      /\ \A id \in AuthIDs : samples[id].incarnation \in 0..nextIncarnation
      /\ \A id, other \in AuthIDs :
            samples[id].incarnation # 0 /\ samples[id].incarnation = samples[other].incarnation => id = other
  BY DEF CacheTypeOK, SampleRecord, IncarnationsUnique, Members, Held
<1>2. IncarnationsUnique' <=>
          /\ \A id \in AuthIDs : samples'[id].incarnation <= nextIncarnation'
          /\ \A id, other \in AuthIDs :
                samples'[id].incarnation # 0 /\ samples'[id].incarnation = samples'[other].incarnation => id = other
  BY DEF IncarnationsUnique, Members, Held
<1>3. CASE ReconcileCall
  <2>1. PICK listing \in Listings : Reconcile(listing)
    BY <1>3 DEF ReconcileCall
  <2> DEFINE S == Fresh(listing)
  <2>2. /\ nextIncarnation' \in Nat /\ nextIncarnation' >= nextIncarnation
        /\ \A id \in AuthIDs \ DOMAIN listing : samples'[id].incarnation = 0
        /\ \A id \in S : samples'[id].incarnation \in (nextIncarnation + 1)..nextIncarnation'
        /\ \A id, other \in S : samples'[id].incarnation = samples'[other].incarnation => id = other
        /\ \A id \in DOMAIN listing \ S : samples'[id].incarnation = samples[id].incarnation
    BY <2>1, ReconcileIncarnations DEF NoSample
  <2> HIDE DEF S
  <2>3. \A id \in AuthIDs :
            \/ samples'[id].incarnation = 0
            \/ id \in S /\ samples'[id].incarnation \in (nextIncarnation + 1)..nextIncarnation'
            \/ id \notin S /\ samples'[id].incarnation = samples[id].incarnation
    BY <2>2
  <2>4. \A id \in AuthIDs : samples'[id].incarnation <= nextIncarnation'
    BY <1>1, <2>2, <2>3
  <2>5. ASSUME NEW id \in AuthIDs, NEW other \in AuthIDs, samples'[id].incarnation # 0,
               samples'[id].incarnation = samples'[other].incarnation
        PROVE  id = other
    <3>1. CASE id \in S /\ other \in S
      BY <2>2, <2>5, <3>1
    <3>2. CASE id \notin S /\ other \notin S
      BY <1>1, <2>3, <2>5, <3>2
    <3>3. CASE (id \in S) # (other \in S)
      BY <1>1, <2>2, <2>3, <2>5, <3>3
    <3>. QED
      BY <3>1, <3>2, <3>3
  <2>. QED
    BY <1>2, <2>4, <2>5
<1>4. CASE BindCall
  <2>1. PICK id \in AuthIDs, token \in Tokens, revision \in Revisions : BindRevision(id, token, revision)
    BY <1>4 DEF BindCall
  <2>2. /\ \A other \in AuthIDs \ {id} : samples'[other].incarnation = samples[other].incarnation
        /\ \/ /\ nextIncarnation' = nextIncarnation
              /\ samples'[id].incarnation = samples[id].incarnation
           \/ /\ nextIncarnation' = nextIncarnation + 1
              /\ samples'[id].incarnation = nextIncarnation + 1
    BY <2>1, BindIncarnations
  <2>. QED
    BY <1>1, <1>2, <2>2
<1>5. CASE CacheNext /\ ~ReconcileCall /\ ~BindCall
  BY <1>1, <1>2, <1>5, OtherCallsKeepIncarnations DEF KeepsIncarnations
<1>6. CASE UNCHANGED cacheVars
  BY <1>1, <1>2, <1>6 DEF cacheVars
<1>. QED
  BY <1>3, <1>4, <1>5, <1>6

\* Distinct credentials never share an incarnation, so a token that a poll or
\* a response still carries is current for at most the credential it was
\* issued for.
THEOREM IncarnationsAreUnique == CacheSpec => []IncarnationsUnique
<1>1. CacheInit => IncarnationsUnique
  BY DEF CacheInit, IncarnationsUnique, Members, Held, NoSample
<1>. QED
  BY <1>1, UniqueStep, TypeCorrect, PTL DEF CacheSpec

-----------------------------------------------------------------------------
(* The refinement of CredentialLedger *)

Lifetime == [id \in AuthIDs |-> samples[id].incarnation]
EvidenceMap == [id \in AuthIDs |-> [s \in Slots |-> EvidenceTime(samples[id].windows[s])]]

\* The refinement mapping takes values in the types of the ledger.
LEMMA EvidenceType ==
    ASSUME CacheTypeOK
    PROVE  /\ Lifetime \in [AuthIDs -> Nat]
           /\ EvidenceMap \in [AuthIDs -> [Slots -> Nat]]
BY DEF Lifetime, EvidenceMap, CacheTypeOK, SampleRecord, EvidenceTime, WindowRecord

\* Windows without evidence map to the ledger's empty evidence.
LEMMA NoWindowsNoEvidence ==
    ASSUME NEW id \in AuthIDs, samples[id].windows = NoWindows
    PROVE  EvidenceMap[id] = [s \in Slots |-> 0]
BY DEF EvidenceMap, NoWindows, NoWindow, EvidenceTime

\* A committed batch makes the evidence of no window older: a poll that lands
\* started after the evidence it replaces, and a response that lands was
\* observed after it.
LEMMA CommitNewer ==
    ASSUME CacheTypeOK, NEW id \in AuthIDs, NEW token \in Tokens, NEW batch \in Batches,
           NEW at \in Times, NEW startedAt \in Nat, NEW isPoll \in BOOLEAN,
           isPoll => startedAt <= at,
           CommitWindowBatch(id, token, batch, at, startedAt, isPoll)
    PROVE  /\ samples[id].incarnation # 0
           /\ \A s \in Slots : EvidenceTime(samples'[id].windows[s]) >= EvidenceTime(samples[id].windows[s])
           /\ \A other \in AuthIDs \ {id} : samples'[other] = samples[other]
<1> DEFINE incoming == Stamped(batch, at)
           landing == LandingSlots(id, incoming, startedAt, isPoll)
<1>1. /\ samples \in [AuthIDs -> SampleRecord] /\ samples[id] \in SampleRecord
      /\ at \in Nat /\ batch \in [Slots -> WindowRecord]
  BY ClientsAssumption DEF CacheTypeOK
<1>2. \A s \in Slots : /\ incoming[s].valid = batch[s].valid /\ incoming[s].sampledAt = at
                       /\ samples[id].windows[s] \in WindowRecord
                       /\ batch[s] \in WindowRecord
  BY <1>1 DEF Stamped, SampleRecord, WindowRecord
<1>3. samples[id].incarnation # 0
  BY DEF CommitWindowBatch, CommitAllowed, Held
<1>4. samples'[id].windows = [s \in Slots |-> IF s \in landing THEN incoming[s] ELSE samples[id].windows[s]]
  BY <1>1 DEF CommitWindowBatch, SampleRecord
<1>5. \A other \in AuthIDs \ {id} : samples'[other] = samples[other]
  BY <1>1 DEF CommitWindowBatch
<1> HIDE DEF incoming
<1>6. ASSUME NEW s \in Slots
      PROVE  EvidenceTime(samples'[id].windows[s]) >= EvidenceTime(samples[id].windows[s])
  <2> DEFINE old == samples[id].windows[s]
  <2>1. old.sampledAt \in Nat /\ old.valid \in BOOLEAN
    BY <1>2 DEF WindowRecord
  <2>2. CASE s \notin landing
    BY <1>4, <2>1, <2>2 DEF EvidenceTime
  <2>3. CASE s \in landing
    <3>1. samples'[id].windows[s] = incoming[s]
      BY <1>4, <2>3
    <3>2. incoming[s].valid /\ incoming[s].sampledAt = at
      BY <1>2, <2>3 DEF LandingSlots, Lands
    <3>3. old.valid /\ old.sampledAt # 0 => old.sampledAt <= at
      <4>1. CASE isPoll
        BY <1>1, <2>1, <2>3, <4>1 DEF LandingSlots, Lands, NoTime
      <4>2. CASE ~isPoll
        BY <1>1, <2>1, <2>3, <3>2, <4>2 DEF LandingSlots, Lands, NoTime
      <4>. QED
        BY <4>1, <4>2
    <3>. QED
      BY <1>1, <2>1, <3>1, <3>2, <3>3 DEF EvidenceTime
  <2>. QED
    BY <2>2, <2>3
<1>. QED
  BY <1>3, <1>5, <1>6

\* A step that leaves the incarnations and the windows alone is a stutter of
\* the ledger.
LEMMA QuietStep ==
    ASSUME KeepsIncarnations, \A id \in AuthIDs : samples'[id].windows = samples[id].windows
    PROVE  UNCHANGED Ledger!ledgerVars
BY DEF KeepsIncarnations, Ledger!ledgerVars

\* Every call is a turnover, an observation or a stutter of the ledger.
LEMMA LedgerStep ==
    CacheTypeOK /\ CacheTypeOK' /\ [CacheNext]_cacheVars => [Ledger!LedgerNext]_Ledger!ledgerVars
<1> SUFFICES ASSUME CacheTypeOK, CacheTypeOK', [CacheNext]_cacheVars
             PROVE  [Ledger!LedgerNext]_Ledger!ledgerVars
  OBVIOUS
<1>1. /\ Lifetime' \in [AuthIDs -> Nat] /\ EvidenceMap' \in [AuthIDs -> [Slots -> Nat]]
      /\ samples \in [AuthIDs -> SampleRecord] /\ nextIncarnation \in Nat
  <2>1. CacheTypeOK' => Lifetime' \in [AuthIDs -> Nat] /\ EvidenceMap' \in [AuthIDs -> [Slots -> Nat]]
    BY DEF Lifetime, EvidenceMap, CacheTypeOK, SampleRecord, EvidenceTime, WindowRecord
  <2>. QED
    BY <2>1 DEF CacheTypeOK
<1>2. CASE ReconcileCall
  <2>1. PICK listing \in Listings : Reconcile(listing)
    BY <1>2 DEF ReconcileCall
  <2> DEFINE left == AuthIDs \ DOMAIN listing
             begun == Fresh(listing)
  <2>2. begun \in SUBSET AuthIDs /\ DOMAIN listing \subseteq AuthIDs
    BY FreshMembers, ClientsAssumption
  <2>3. /\ nextIncarnation' \in Nat /\ nextIncarnation' >= nextIncarnation
        /\ \A id \in left : samples'[id] = NoSample
        /\ \A id \in begun :
              /\ samples'[id].incarnation \in (nextIncarnation + 1)..nextIncarnation'
              /\ samples'[id].windows = NoWindows
        /\ \A id, other \in begun : samples'[id].incarnation = samples'[other].incarnation => id = other
        /\ \A id \in AuthIDs \ (left \cup begun) :
              /\ samples'[id].incarnation = samples[id].incarnation
              /\ samples'[id].windows = samples[id].windows
    BY <2>1, <2>2, ReconcileIncarnations
  <2> HIDE DEF left, begun
  <2>4. left \in SUBSET AuthIDs
    BY DEF left
  <2>5. \A id \in left : Lifetime'[id] = 0
    BY <2>3, <2>4 DEF Lifetime, NoSample
  <2>6. \A id \in left \cup begun : EvidenceMap'[id] = [s \in Slots |-> 0]
    BY <2>2, <2>3, <2>4 DEF EvidenceMap, NoSample, NoWindows, NoWindow, EvidenceTime
  <2>7. /\ \A id \in begun : Lifetime'[id] \in (nextIncarnation + 1)..nextIncarnation'
        /\ \A id, other \in begun : Lifetime'[id] = Lifetime'[other] => id = other
    BY <2>2, <2>3 DEF Lifetime
  <2>8. \A id \in AuthIDs \ (left \cup begun) :
            Lifetime'[id] = Lifetime[id] /\ EvidenceMap'[id] = EvidenceMap[id]
    BY <2>3 DEF Lifetime, EvidenceMap
  <2>9. Ledger!Turnover
    BY <1>1, <2>2, <2>3, <2>4, <2>5, <2>6, <2>7, <2>8
       DEF Ledger!Turnover, Ledger!Evidence, Ledger!NoEvidence, Lifetime, EvidenceMap
  <2>. QED
    BY <2>9 DEF Ledger!LedgerNext
<1>3. CASE BindCall
  <2>1. PICK id \in AuthIDs, token \in Tokens, revision \in Revisions : BindRevision(id, token, revision)
    BY <1>3 DEF BindCall
  <2>2. \A other \in AuthIDs \ {id} : samples'[other] = samples[other]
    BY <2>1, BindIncarnations
  <2>3. CASE nextIncarnation' = nextIncarnation
    <3>1. samples'[id].incarnation = samples[id].incarnation /\ samples'[id].windows = samples[id].windows
      BY <1>1, <2>1, <2>3, BindIncarnations
    <3>. QED
      BY <2>2, <2>3, <3>1, QuietStep DEF KeepsIncarnations
  <2>4. CASE /\ nextIncarnation' = nextIncarnation + 1
             /\ samples'[id].incarnation = nextIncarnation + 1
             /\ samples'[id].windows = NoWindows
    <3>1. EvidenceMap'[id] = [s \in Slots |-> 0] /\ Lifetime'[id] = nextIncarnation + 1
      BY <2>4 DEF EvidenceMap, Lifetime, NoWindows, NoWindow, EvidenceTime
    <3>2. \A other \in AuthIDs \ {id} :
              Lifetime'[other] = Lifetime[other] /\ EvidenceMap'[other] = EvidenceMap[other]
      BY <2>2 DEF Lifetime, EvidenceMap
    <3>3. /\ {} \in SUBSET AuthIDs /\ {id} \in SUBSET AuthIDs
          /\ nextIncarnation + 1 \in (nextIncarnation + 1)..nextIncarnation'
          /\ nextIncarnation' \in Nat /\ nextIncarnation' >= nextIncarnation
      BY <1>1, <2>4
    <3> DEFINE Turns(left, begun) ==
            /\ \A i \in left : Lifetime'[i] = 0
            /\ \A i \in begun : Lifetime'[i] \in (nextIncarnation + 1)..nextIncarnation'
            /\ \A i, j \in begun : Lifetime'[i] = Lifetime'[j] => i = j
            /\ \A i \in left \cup begun : EvidenceMap'[i] = [s \in Slots |-> 0]
            /\ \A i \in AuthIDs \ (left \cup begun) :
                  Lifetime'[i] = Lifetime[i] /\ EvidenceMap'[i] = EvidenceMap[i]
    <3>4. Turns({}, {id})
      BY <3>1, <3>2, <3>3
    <3>5. \E left, begun \in SUBSET AuthIDs : Turns(left, begun)
      BY <3>3, <3>4
    <3>6. Ledger!Turnover
      BY <1>1, <3>3, <3>5
         DEF Ledger!Turnover, Ledger!Evidence, Ledger!NoEvidence, Lifetime, EvidenceMap
    <3>. QED
      BY <3>6 DEF Ledger!LedgerNext
  <2>. QED
    BY <2>1, <2>3, <2>4, BindIncarnations
<1>4. CASE PollCommitCall \/ ObservationCall
  <2>1. ASSUME NEW id \in AuthIDs, NEW token \in Tokens, NEW batch \in Batches, NEW at \in Times,
               NEW startedAt \in Nat, NEW isPoll \in BOOLEAN, isPoll => startedAt <= at,
               CommitWindowBatch(id, token, batch, at, startedAt, isPoll)
        PROVE  Ledger!Observe
    <3>1. /\ samples[id].incarnation # 0
          /\ \A s \in Slots : EvidenceTime(samples'[id].windows[s]) >= EvidenceTime(samples[id].windows[s])
          /\ \A other \in AuthIDs \ {id} : samples'[other] = samples[other]
      BY <2>1, CommitNewer
    <3>2. \A other \in AuthIDs : samples'[other].incarnation = samples[other].incarnation
      BY <1>1, <2>1 DEF CommitWindowBatch, SampleRecord
    <3>3. nextIncarnation' = nextIncarnation
      BY <2>1 DEF CommitWindowBatch
    <3>. QED
      BY <1>1, <3>1, <3>2, <3>3 DEF Ledger!Observe, Ledger!Evidence, EvidenceMap
  <2>2. CASE PollCommitCall
    BY <2>1, <2>2, ClientsAssumption DEF PollCommitCall, Ledger!LedgerNext
  <2>3. CASE ObservationCall
    BY <2>1, <2>3 DEF ObservationCall, NoTime, Ledger!LedgerNext
  <2>. QED
    BY <1>4, <2>2, <2>3
<1>5. CASE CacheNext /\ ~ReconcileCall /\ ~BindCall /\ ~PollCommitCall /\ ~ObservationCall
  <2>1. KeepsIncarnations
    BY <1>5, OtherCallsKeepIncarnations
  <2>2. \A id \in AuthIDs : samples[id] \in SampleRecord
    BY <1>1
  <2>3. \A id \in AuthIDs : samples'[id].windows = samples[id].windows
    <3>1. CASE RefreshFailureCall
      BY <1>1, <2>2, <3>1 DEF RefreshFailureCall, RecordRefreshFailure, SampleRecord
    <3>2. CASE ClaimRevisionCheckCall
      BY <1>1, <2>2, <3>2 DEF ClaimRevisionCheckCall, ClaimRevisionCheck, SampleRecord
    <3>3. CASE ClaimPollCall
      BY <1>1, <2>2, <3>3 DEF ClaimPollCall, ClaimPoll, SampleRecord
    <3>4. CASE AttemptCall
      BY <1>1, <2>2, <3>4 DEF AttemptCall, RecordUsageAttempt, SampleRecord
    <3>5. CASE PollFailureCall
      BY <1>1, <2>2, <3>5 DEF PollFailureCall, RecordFailureForIdentity, SampleRecord
    <3>. QED
      BY <1>5, <3>1, <3>2, <3>3, <3>4, <3>5 DEF CacheNext
  <2>. QED
    BY <2>1, <2>3, QuietStep
<1>6. CASE UNCHANGED cacheVars
  BY <1>6 DEF cacheVars, Ledger!ledgerVars
<1>. QED
  BY <1>2, <1>3, <1>4, <1>5, <1>6

\* The cache implements the ledger for every number of credentials and
\* whatever its callers do: incarnations are never reused, a new lifetime
\* starts without evidence, and evidence never gets older within one.
THEOREM CacheImplementsLedger == CacheSpec => ImplementsLedger
<1>1. CacheInit => Ledger!LedgerInit
  BY DEF CacheInit, Ledger!LedgerInit, Ledger!NoEvidence, NoSample, NoWindows, NoWindow, EvidenceTime
<1>. QED
  BY <1>1, LedgerStep, TypeCorrect, PTL DEF CacheSpec, ImplementsLedger, Ledger!LedgerSpec
=============================================================================
