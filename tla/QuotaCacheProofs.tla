-------------------------- MODULE QuotaCacheProofs --------------------------
(***************************************************************************)
(* Facts about the quota cache that hold whoever calls it.                 *)
(***************************************************************************)
EXTENDS QuotaCache, FiniteSetTheorems, TLAPS

-----------------------------------------------------------------------------
(* Rank numbers the members of a finite set of IDs without gaps or ties. *)

\* Rank gives the members of a set of IDs different numbers, from 1 to its size.
LEMMA RankNumbers ==
    ASSUME NEW S \in SUBSET AuthIDs
    PROVE  /\ Cardinality(S) \in Nat
           /\ \A i \in S : Rank(i, S) \in 1..Cardinality(S)
           /\ \A i, j \in S : Rank(i, S) = Rank(j, S) => i = j
<1> DEFINE below(i) == {j \in S : j <= i}
<1>1. IsFiniteSet(S)
  BY AuthIDsAssumption, FS_Subset
<1>2. \A i \in S : /\ IsFiniteSet(below(i)) /\ below(i) \subseteq S
                   /\ Cardinality(below(i)) \in Nat
                   /\ Cardinality(below(i)) <= Cardinality(S)
  BY <1>1, FS_Subset, FS_CardinalityType
<1>3. \A i \in S : Cardinality(below(i)) # 0
  <2>1. SUFFICES ASSUME NEW i \in S PROVE Cardinality(below(i)) # 0
    OBVIOUS
  <2>2. i \in below(i)
    BY AuthIDsAssumption
  <2>. QED
    BY <1>2, <2>2, FS_EmptySet
<1>4. ASSUME NEW i \in S, NEW j \in S, i < j
      PROVE  Cardinality(below(i)) < Cardinality(below(j))
  <2>1. S \subseteq Nat
    BY AuthIDsAssumption
  <2>2. \A k \in S : k <= i => k <= j
    BY <1>4, <2>1
  <2>3. below(i) \in SUBSET below(j)
    BY <2>2
  <2>4. j \in below(j) /\ j \notin below(i)
    BY <1>4, <2>1
  <2>. QED
    BY <1>2, <2>3, <2>4, FS_Subset
<1>5. \A i \in S : Rank(i, S) = Cardinality(below(i))
  BY DEF Rank
<1>6. Cardinality(S) \in Nat
  BY <1>1, FS_CardinalityType
<1>7. \A i, j \in S : i < j \/ j < i \/ i = j
  BY AuthIDsAssumption
<1> HIDE DEF below
<1>8. \A i, j \in S : Rank(i, S) = Rank(j, S) => i = j
  <2>1. SUFFICES ASSUME NEW i \in S, NEW j \in S, i # j PROVE Rank(i, S) # Rank(j, S)
    OBVIOUS
  <2>2. CASE i < j
    BY <1>2, <1>4, <1>5, <2>2
  <2>3. CASE j < i
    BY <1>2, <1>4, <1>5, <2>3
  <2>. QED
    BY <1>7, <2>1, <2>2, <2>3
<1>9. \A i \in S : Rank(i, S) \in 1..Cardinality(S)
  BY <1>2, <1>3, <1>5, <1>6
<1>. QED
  BY <1>6, <1>8, <1>9

-----------------------------------------------------------------------------
(* What the operations do to the credentials: the identity and the          *)
(* incarnation of every entry.  The windows of an entry may be anything. *)

SampleFields == DOMAIN NoSample

CacheShape ==
    /\ samples = [id \in AuthIDs |-> samples[id]]
    /\ \A id \in AuthIDs : DOMAIN samples[id] = SampleFields
    /\ nextIncarnation \in Nat
    /\ \A id \in AuthIDs : samples[id].incarnation \in 0..nextIncarnation
    /\ \A id \in Members : samples[id].identity \in Identities

SameCredential(id) ==
    /\ samples'[id].identity = samples[id].identity
    /\ samples'[id].incarnation = samples[id].incarnation

\* The cache starts empty.
LEMMA CacheInitShape == CacheInit => CacheShape
BY DEF CacheInit, CacheShape, Members, Held, NoSample, SampleFields

\* reconcile gives a credential that is new or replaced an incarnation that
\* was never used, deletes what is not listed and keeps every other one.
LEMMA ReconcileCredentials ==
    ASSUME CacheShape, NEW listing, DOMAIN listing \subseteq AuthIDs,
           \A id \in DOMAIN listing : listing[id].identity \in Identities,
           Reconcile(listing)
    PROVE  /\ CacheShape'
           /\ nextIncarnation' >= nextIncarnation
           /\ \A id \in DOMAIN listing \ Fresh(listing) : Held(id) /\ SameCredential(id)
           /\ \A id \in Fresh(listing) : /\ samples'[id].incarnation > nextIncarnation
                                         /\ samples'[id].identity = listing[id].identity
           /\ \A id \in Replaced(listing) : samples[id].identity # listing[id].identity
           /\ \A id \in AuthIDs \ DOMAIN listing : samples'[id] = NoSample
<1> DEFINE F == Fresh(listing)
<1>1. F \in SUBSET AuthIDs /\ F \subseteq DOMAIN listing
  BY DEF Fresh, Replaced
<1>2. /\ Cardinality(F) \in Nat
      /\ \A id \in F : Rank(id, F) \in 1..Cardinality(F)
  BY <1>1, RankNumbers
<1>3. nextIncarnation' = nextIncarnation + Cardinality(F) /\ nextIncarnation \in Nat
  BY DEF Reconcile, CacheShape
<1>4. samples' = [id \in AuthIDs |-> IF id \in DOMAIN listing THEN Relisted(id, listing) ELSE NoSample]
  BY DEF Reconcile
<1>5. ASSUME NEW id \in F
      PROVE  /\ DOMAIN Relisted(id, listing) = SampleFields
             /\ Relisted(id, listing).identity = listing[id].identity
             /\ Relisted(id, listing).incarnation = nextIncarnation + Rank(id, F)
  BY DEF Relisted, NoSample, SampleFields
<1>6. ASSUME NEW id \in DOMAIN listing \ F
      PROVE  /\ id \in AuthIDs
             /\ Held(id)
             /\ DOMAIN Relisted(id, listing) = SampleFields
             /\ Relisted(id, listing).identity = samples[id].identity
             /\ Relisted(id, listing).incarnation = samples[id].incarnation
  <2>1. id \in Members /\ id \notin Replaced(listing) /\ id \in AuthIDs
    BY DEF Fresh, Members
  <2>2. Held(id) /\ samples[id].identity = listing[id].identity
    BY <2>1, NoneAssumption DEF Replaced, Members, CacheShape
  <2>3. DOMAIN samples[id] = SampleFields
    BY <2>1 DEF CacheShape
  <2>4. Relisted(id, listing) =
           [samples[id] EXCEPT !.generation = Relisted(id, listing).generation,
                               !.identity = listing[id].identity,
                               !.listRevision = listing[id].listRevision]
    BY <2>3 DEF Relisted, NoSample, SampleFields
  <2>. QED
    BY <2>1, <2>2, <2>3, <2>4 DEF NoSample, SampleFields
<1> HIDE DEF F
<1>7. \A id \in DOMAIN listing \ F : SameCredential(id)
  BY <1>4, <1>6 DEF SameCredential
<1>8. \A id \in F : /\ samples'[id].incarnation \in (nextIncarnation + 1)..nextIncarnation'
                    /\ samples'[id].identity = listing[id].identity
  BY <1>1, <1>2, <1>3, <1>4, <1>5
<1>9. \A id \in AuthIDs \ DOMAIN listing : samples'[id] = NoSample
  BY <1>4
<1>10. CacheShape'
  <2>1. \A id \in AuthIDs : DOMAIN samples'[id] = SampleFields
    BY <1>1, <1>4, <1>5, <1>6, <1>9 DEF SampleFields
  <2>2. ASSUME NEW id \in AuthIDs
        PROVE  /\ samples'[id].incarnation \in 0..nextIncarnation'
               /\ samples'[id].incarnation # 0 => samples'[id].identity \in Identities
    <3>1. CASE id \in F
      BY <1>1, <1>2, <1>3, <1>8, <3>1
    <3>2. CASE id \in DOMAIN listing \ F
      <4>1. /\ samples[id].incarnation \in 0..nextIncarnation
            /\ samples[id].identity \in Identities
        BY <1>6, <3>2 DEF CacheShape, Members
      <4>. QED
        BY <1>2, <1>3, <1>7, <3>2, <4>1 DEF SameCredential
    <3>3. CASE id \notin DOMAIN listing
      BY <1>2, <1>3, <1>9, <3>3 DEF NoSample
    <3>. QED
      BY <1>1, <3>1, <3>2, <3>3
  <2>4. samples' = [id \in AuthIDs |-> samples'[id]]
    BY <1>4
  <2>. QED
    BY <1>2, <1>3, <2>1, <2>2, <2>4 DEF CacheShape, Members, Held
<1>11. \A id \in Replaced(listing) : samples[id].identity # listing[id].identity
  BY DEF Replaced
<1>. QED
  BY <1>2, <1>3, <1>6, <1>7, <1>8, <1>9, <1>10, <1>11 DEF F

\* Binding a revision keeps every identity, and gives the credential it is
\* called for its old incarnation or one that was never used.
LEMMA BindCredentials ==
    ASSUME CacheShape, NEW id \in AuthIDs, NEW token, NEW revision, BindRevision(id, token, revision)
    PROVE  /\ CacheShape'
           /\ nextIncarnation' >= nextIncarnation
           /\ Held(id) /\ samples'[id].incarnation # 0
           /\ \A other \in AuthIDs \ {id} : SameCredential(other)
           /\ samples'[id].identity = samples[id].identity
           /\ samples'[id].incarnation \in {samples[id].incarnation, nextIncarnation + 1}
           /\ samples'[id].incarnation <= nextIncarnation'
<1> DEFINE bound == IF Rotates(id, revision) THEN Rotated(samples[id], nextIncarnation + 1)
                    ELSE samples[id]
<1>1. /\ Held(id)
      /\ samples' = [samples EXCEPT ![id] = [bound EXCEPT !.revision = revision]]
      /\ nextIncarnation' = IF Rotates(id, revision) THEN nextIncarnation + 1 ELSE nextIncarnation
  BY DEF BindRevision, BindAllowed
<1>2. DOMAIN samples[id] = SampleFields
  BY DEF CacheShape
<1>3. /\ DOMAIN bound = SampleFields
      /\ bound.identity = samples[id].identity
      /\ bound.incarnation = IF Rotates(id, revision) THEN nextIncarnation + 1
                             ELSE samples[id].incarnation
  BY <1>2 DEF Rotated, NoSample, SampleFields
<1> HIDE DEF bound
<1>4. \A other \in AuthIDs \ {id} : samples'[other] = samples[other]
  BY <1>1 DEF CacheShape
<1>5. samples'[id] = [bound EXCEPT !.revision = revision]
  BY <1>1 DEF CacheShape
<1>6. /\ DOMAIN samples'[id] = SampleFields
      /\ samples'[id].identity = samples[id].identity
      /\ samples'[id].incarnation = bound.incarnation
  BY <1>3, <1>5 DEF SampleFields, NoSample
<1>7. samples' = [i \in AuthIDs |-> samples'[i]]
  BY <1>1 DEF CacheShape
<1>. QED
  BY <1>1, <1>3, <1>4, <1>6, <1>7 DEF CacheShape, SameCredential, Members, Held

\* An entry some of whose other fields change keeps its credential.
LEMMA TouchedCredentials ==
    ASSUME CacheShape, NEW id \in AuthIDs, NEW sample,
           DOMAIN sample = SampleFields,
           sample.identity = samples[id].identity, sample.incarnation = samples[id].incarnation,
           samples' = [samples EXCEPT ![id] = sample], nextIncarnation' = nextIncarnation
    PROVE  CacheShape' /\ \A other \in AuthIDs : SameCredential(other)
<1>1. samples'[id] = sample /\ \A other \in AuthIDs \ {id} : samples'[other] = samples[other]
  BY DEF CacheShape
<1>2. samples' = [i \in AuthIDs |-> samples'[i]]
  BY DEF CacheShape
<1>. QED
  BY <1>1, <1>2 DEF CacheShape, SameCredential, Members, Held

\* Recording a failed refresh changes no credential.
LEMMA FailureCredentials ==
    ASSUME CacheShape, NEW id \in AuthIDs, NEW token, NEW category, NEW hint, NEW at,
           RecordRefreshFailure(id, token, category, hint, at)
    PROVE  CacheShape' /\ nextIncarnation' = nextIncarnation /\ \A other \in AuthIDs : SameCredential(other)
<1>1. PICK pause \in Pauses(samples[id].failures + 1, category = "rate_limited", hint) :
         samples' = [samples EXCEPT ![id].failures = @ + 1, ![id].nextRefreshAt = at + pause,
                                    ![id].lastError = category]
  BY DEF RecordRefreshFailure
<1> DEFINE sample == [samples[id] EXCEPT !.failures = @ + 1, !.nextRefreshAt = at + pause,
                                         !.lastError = category]
<1>2. samples' = [samples EXCEPT ![id] = sample]
  BY <1>1 DEF CacheShape
<1>3. /\ DOMAIN sample = SampleFields
      /\ sample.identity = samples[id].identity
      /\ sample.incarnation = samples[id].incarnation
  BY DEF CacheShape, SampleFields, NoSample
<1>4. nextIncarnation' = nextIncarnation
  BY DEF RecordRefreshFailure
<1> HIDE DEF sample
<1>. QED
  BY <1>2, <1>3, <1>4, TouchedCredentials

\* Committing a batch of windows changes no credential.
LEMMA CommitCredentials ==
    ASSUME CacheShape, NEW id \in AuthIDs, NEW token, NEW batch, NEW at, NEW startedAt, NEW isPoll,
           CommitWindowBatch(id, token, batch, at, startedAt, isPoll)
    PROVE  CacheShape' /\ nextIncarnation' = nextIncarnation /\ \A other \in AuthIDs : SameCredential(other)
<1>1. DOMAIN samples[id] = SampleFields
  BY DEF CacheShape
<1>2. PICK sample : /\ samples' = [samples EXCEPT ![id] = sample]
                    /\ DOMAIN sample = SampleFields
                    /\ sample.identity = samples[id].identity
                    /\ sample.incarnation = samples[id].incarnation
  <2> DEFINE incoming == Stamped(batch, at)
             landing == LandingSlots(id, incoming, startedAt, isPoll)
             old == samples[id]
             updated == [old EXCEPT
                 !.windows = [s \in Slots |-> IF s \in landing THEN incoming[s] ELSE @[s]],
                 !.lastError = IF landing # {} THEN NoError ELSE @]
             recovered == [updated EXCEPT
                 !.usageSuccessAt = AtLeast(at, @), !.failures = 0, !.nextRefreshAt = NoTime]
             sample == IF isPoll THEN recovered ELSE updated
  <2>1. samples' = [samples EXCEPT ![id] = sample]
    BY DEF CommitWindowBatch
  <2>2. /\ DOMAIN updated = SampleFields
        /\ updated.identity = samples[id].identity
        /\ updated.incarnation = samples[id].incarnation
    <3> HIDE DEF landing, incoming
    <3>. QED
      BY <1>1 DEF SampleFields, NoSample
  <2> HIDE DEF updated
  <2>3. /\ DOMAIN recovered = SampleFields
        /\ recovered.identity = samples[id].identity
        /\ recovered.incarnation = samples[id].incarnation
    BY <2>2 DEF SampleFields, NoSample
  <2> HIDE DEF recovered
  <2>. QED
    BY <2>1, <2>2, <2>3
<1>3. nextIncarnation' = nextIncarnation
  BY DEF CommitWindowBatch
<1>. QED
  BY <1>2, <1>3, TouchedCredentials
=============================================================================
