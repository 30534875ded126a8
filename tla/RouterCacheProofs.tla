------------------------- MODULE RouterCacheProofs -------------------------
(***************************************************************************)
(* What the cache, the host's files and everything in flight between them  *)
(* promise each other, for any accounts, gates, requests, documents and    *)
(* bounds: typing, the soundness of the gate's verdict, the fate of token  *)
(* rotations and refresh pauses, and whose evidence the cache holds.       *)
(***************************************************************************)
EXTENDS RouterProofs, QuotaCacheProofs, QuotaWindowsProofs

-----------------------------------------------------------------------------
(* Typing *)

Numbers == 1..(1 + MaxWrites)
NumbersOrNone == Numbers \cup {None}

Evidence == [valid : {TRUE}, percent : Nat, resetAt : Nat, sampledAt : Nat,
             account : Numbers, measuredAt : Nat]
Batch == [Slots -> Evidence \cup {NoWindow}]

Entry == [identity : Numbers, revision : NumbersOrNone, listRevision : Numbers,
          generation : Nat, incarnation : Nat \ {0}, windows : Batch,
          checkAttemptAt : Nat, usageAttemptAt : Nat, usageSuccessAt : Nat,
          failures : Nat, nextRefreshAt : Nat, lastError : Categories]

AuthFile == [present : BOOLEAN, identity : Numbers, revision : NumbersOrNone, stamp : Numbers]
ListedAuth == [identity : Numbers, listRevision : Numbers]
HostListings == UNION {[S -> ListedAuth] : S \in SUBSET AuthIDs}

CacheType ==
    /\ samples \in [AuthIDs -> Entry \cup {NoSample}]
    /\ nextIncarnation \in Nat
    /\ \A id \in AuthIDs : samples[id].incarnation <= nextIncarnation

Pause == [revision : NumbersOrNone, category : Categories, until : Nat]

HostType ==
    /\ now \in 1..MaxNow
    /\ disk \in [AuthIDs -> AuthFile]
    /\ spent \in [writes : 0..MaxWrites, faults : 0..MaxFaults, toggles : 0..MaxToggles]
    /\ owed \in [AuthIDs -> Pause]

Settings == Configs \cup {DefaultPluginConfig}

LifecycleType ==
    /\ discovery \in [issued : 0..MaxListings, reconciled : 0..MaxListings]
    /\ discovery.reconciled <= discovery.issued
    /\ queue \in Queues
    /\ lifecycle \in {"running", "stopping", "stopped"}
    /\ config \in Configs

Token == [identity : NumbersOrNone, revision : NumbersOrNone, generation : Nat, incarnation : Nat]
PollResult == [kind : {"none"}] \cup [kind : {"usage"}, batch : Batch]
                \cup [kind : {"failure"}, failure : FailureKinds]
PollRecord == [id : Nat, check : BOOLEAN, intent : BOOLEAN, startedAt : Nat, token : Token,
               account : Nat, result : PollResult]

ReadPCs == {"binding", "checking", "attempting", "noting", "fetching", "settling"}
PassPCs == {"passing"} \cup PollPCs

WorkerRecord ==
    [pc : IdlePCs \cup BusyPCs, all : BOOLEAN, ids : SUBSET AuthIDs, revisions : SUBSET AuthIDs,
     config : Settings, generation : Nat, listing : HostListings, signals : SUBSET AuthIDs,
     todo : SUBSET AuthIDs, poll : PollRecord]

WorkerType ==
    /\ worker \in WorkerRecord
    /\ worker.generation <= discovery.issued
    /\ worker.pc \in PassPCs => worker.todo \subseteq DOMAIN worker.listing
    /\ worker.pc \in PollPCs => poll.id \in DOMAIN worker.listing
    /\ worker.pc \in ReadPCs => poll.token.revision # None /\ poll.account \in Numbers
    /\ worker.pc \in ReadPCs \cup {"reading"} =>
          poll.token.identity = worker.listing[poll.id].identity

GatePCs == {"idle", "listing", "reconciling", "queueing", "deciding", "rejected", "passed"}

GateRecord ==
    [pc : GatePCs, family : Families, config : Settings, generation : Nat, listing : HostListings,
     todo : SUBSET AuthIDs, replaced : SUBSET AuthIDs, changed : SUBSET AuthIDs,
     stable : SUBSET AuthIDs]

GateType ==
    /\ gates \in [Gates -> GateRecord]
    /\ \A g \in Gates : gates[g].generation <= discovery.issued

Correlation == [id : AuthIDs, generation : Nat, incarnation : Nat \ {0}, expiresAt : Nat]
CorrelationOrNone == Correlation \cup {NoCorrelation}

RequestRecord ==
    [pc : {"idle", "chosen", "upstream", "answered", "observed", "done"}, id : Nat, account : Nat,
     correlation : CorrelationOrNone, batch : Batch, observedAt : Nat]

RequestType ==
    /\ requests \in [Requests -> RequestRecord]
    /\ correlations \in [Requests -> CorrelationOrNone]
    /\ \A r \in Requests :
          /\ requests[r].pc = "chosen" => requests[r].id \in AuthIDs
          /\ requests[r].pc \in {"chosen", "upstream"} => requests[r].account \in Numbers
          /\ requests[r].pc = "observed" => requests[r].correlation \in Correlation

TypeInv == CacheType /\ HostType /\ LifecycleType /\ WorkerType /\ GateType /\ RequestType

-----------------------------------------------------------------------------
(* The gate's verdict *)

\* A listing covers a gate if it holds, under its account on disk, every file
\* that has been there since the gate's request came in.
Covers(listing, g) ==
    \A id \in gates[g].stable :
        id \in DOMAIN listing /\ listing[id].identity = disk[id].identity

GateActive(g) == gates[g].pc \in {"listing", "reconciling", "queueing", "deciding"}

FleetCovers(g) ==
    \A id \in gates[g].stable : Held(id) /\ samples[id].identity = disk[id].identity

GateInv(g) ==
    /\ \A id \in gates[g].stable : disk[id].present
    /\ GateActive(g) =>
          /\ worker.pc = "reconciling" /\ worker.generation >= gates[g].generation
                => Covers(worker.listing, g)
          /\ \A other \in Gates :
                gates[other].pc = "reconciling" /\ gates[other].generation >= gates[g].generation
                    => Covers(gates[other].listing, g)
          /\ discovery.reconciled >= gates[g].generation => Members = {} \/ FleetCovers(g)
          /\ gates[g].pc \in {"queueing", "deciding"} => discovery.reconciled >= gates[g].generation

AdmissionInv == \A g \in Gates : GateInv(g)

-----------------------------------------------------------------------------
(* Nothing is ahead of the host's files *)

ListingBehind(listing) ==
    \A id \in DOMAIN listing :
        listing[id].identity <= disk[id].identity /\ listing[id].listRevision <= disk[id].stamp

DiskInv ==
    /\ \A id \in AuthIDs :
          /\ disk[id].identity <= 1 + spent.writes
          /\ disk[id].revision <= 1 + spent.writes
          /\ disk[id].stamp <= 1 + spent.writes
          /\ samples[id].identity <= disk[id].identity
          /\ samples[id].listRevision <= disk[id].stamp
          /\ samples[id].revision <= 1 + spent.writes
          /\ disk[id].revision # None => samples[id].revision <= disk[id].revision
    /\ ListingBehind(worker.listing)
    /\ \A g \in Gates : ListingBehind(gates[g].listing)
    /\ worker.pc = "binding" =>
          /\ poll.token.revision <= 1 + spent.writes
          /\ poll.token.revision >= samples[poll.id].revision
          /\ disk[poll.id].revision # None => poll.token.revision <= disk[poll.id].revision

-----------------------------------------------------------------------------
(* Rotations *)

Unbound(id) ==
    /\ Held(id)
    /\ samples[id].incarnation > carried
    /\ samples[id].listRevision = disk[id].stamp
    /\ samples[id].revision # None
    /\ disk[id].revision \notin {None, samples[id].revision}

AtGate(id) == \E g \in Gates : gates[g].pc = "queueing" /\ id \in gates[g].todo \cap gates[g].changed

Pends(q, id) == id \in q.revisions \/ q.deferred[id] # NotDeferred

Queued(id) == Pends(queue, id) \/ AtGate(id)

\* What the worker holds is sure to be acted on only while the token of its
\* poll is current.
InPass(id) ==
    \/ id \in worker.revisions /\ worker.pc \in {"loading"} \cup ListPCs
    \/ id \in worker.signals
    \/ id \in worker.todo \cap worker.revisions
    \/ id = poll.id /\ poll.intent /\ worker.pc \in {"claiming", "beginning"}
    \/ /\ id = poll.id /\ poll.intent /\ worker.pc \in {"reading", "binding"}
       /\ BindAllowed(id, poll.token)

\* What a pass has taken, has still to signal and has still to do is part of
\* that pass only.
WorkerTidy ==
    /\ worker.all => worker.revisions = {}
    /\ worker.pc # "signalling" => worker.signals = {}
    /\ worker.pc \notin PassPCs \cup {"finishing"} => worker.todo = {}
    /\ lifecycle = "running" /\ worker.pc = "finishing" => worker.todo = {}

\* What is bound is in the listing of the pass, as the account it is bound for.
PassListed ==
    worker.pc \in PassPCs \cup {"signalling"} =>
        \A id \in AuthIDs : samples[id].revision # None =>
            id \in DOMAIN worker.listing /\ samples[id].identity = worker.listing[id].identity

\* The token of a poll is not ahead of its credential.
TokenNotAhead ==
    worker.pc \in {"reading", "binding"} =>
        /\ poll.token.incarnation <= nextIncarnation
        /\ Held(poll.id) /\ samples[poll.id].incarnation = poll.token.incarnation
              => poll.token.generation <= samples[poll.id].generation

\* What was read is still what the file holds, unless the bind will be refused
\* or the metadata of the file will tell.
ReadCurrent ==
    worker.pc = "binding" /\ BindAllowed(poll.id, poll.token)
      /\ samples[poll.id].listRevision = disk[poll.id].stamp
        => poll.token.revision = disk[poll.id].revision

RotationsPending ==
    lifecycle = "running" => \A id \in AuthIDs : Unbound(id) => Queued(id) \/ InPass(id)

RotationInv == WorkerTidy /\ PassListed /\ TokenNotAhead /\ ReadCurrent /\ RotationsPending

-----------------------------------------------------------------------------
(* Pauses *)

RejectedBefore(id) == owed[id].category = "unauthorized" /\ samples[id].revision > owed[id].revision

\* What upstream imposed is in the entry, or a new token has ended it.
PauseOf(id) ==
    /\ owed[id] = NothingOwed \/ owed[id].revision # None
    /\ ~Held(id) => owed[id] = NothingOwed
    /\ owed[id].revision <= samples[id].revision
    /\ samples[id].nextRefreshAt >= owed[id].until \/ RejectedBefore(id)
    /\ samples[id].lastError = "unauthorized" =>
          \/ owed[id] = NothingOwed
          \/ owed[id].category = "unauthorized" /\ samples[id].revision = owed[id].revision
    /\ owed[id].category = "unauthorized" =>
          samples[id].lastError \in {"unauthorized", "auth_get", "missing_token", NoError}

FetchUnpaused ==
    worker.pc \in {"noting", "fetching"} =>
        \/ now >= owed[poll.id].until
        \/ owed[poll.id].category = "unauthorized" /\ owed[poll.id].revision # poll.token.revision

PauseInv == (\A id \in AuthIDs : PauseOf(id)) /\ FetchUnpaused

-----------------------------------------------------------------------------
(* Evidence *)

\* An account an observation may speak of: as long as the entry it was
\* correlated with lives, not one that entry has replaced.
SpeaksFor(account, entry, incarnation) ==
    entry.incarnation # 0 /\ entry.incarnation = incarnation => account >= entry.identity

PollAccount ==
    /\ worker.pc \in ReadPCs => poll.account >= poll.token.identity
    /\ worker.pc = "settling" /\ poll.result.kind = "usage" =>
          \A s \in Slots : poll.result.batch[s].valid => poll.result.batch[s].account = poll.account

RequestAccount(r) ==
    /\ requests[r].pc = "chosen" => requests[r].account = disk[requests[r].id].identity
    /\ requests[r].pc = "upstream" /\ correlations[r] # NoCorrelation =>
          /\ correlations[r].incarnation <= nextIncarnation
          /\ SpeaksFor(requests[r].account, samples[correlations[r].id], correlations[r].incarnation)
    /\ requests[r].pc = "answered" /\ correlations[r] # NoCorrelation =>
          /\ correlations[r].incarnation <= nextIncarnation
          /\ \A s \in Slots : requests[r].batch[s].valid =>
                SpeaksFor(requests[r].batch[s].account, samples[correlations[r].id],
                          correlations[r].incarnation)
    /\ requests[r].pc = "observed" =>
          /\ requests[r].correlation.incarnation <= nextIncarnation
          /\ \A s \in Slots : requests[r].batch[s].valid =>
                SpeaksFor(requests[r].batch[s].account, samples[requests[r].correlation.id],
                          requests[r].correlation.incarnation)

WindowAccount(id) ==
    Held(id) => \A s \in Slots : samples[id].windows[s].valid =>
                    samples[id].windows[s].account >= samples[id].identity

AccountInv ==
    /\ \A id \in AuthIDs : WindowAccount(id)
    /\ PollAccount
    /\ \A r \in Requests : RequestAccount(r)

\* No window was measured after the time it is stamped with.
WindowAge(id) ==
    \A s \in Slots : samples[id].windows[s].valid =>
        /\ samples[id].windows[s].sampledAt # NoTime
        /\ samples[id].windows[s].measuredAt <= samples[id].windows[s].sampledAt

PollAge ==
    /\ worker.pc \in ReadPCs \cup {"reading"} => poll.startedAt <= now
    /\ worker.pc = "settling" /\ poll.result.kind = "usage" =>
          \A s \in Slots : poll.result.batch[s].valid =>
              /\ poll.startedAt <= poll.result.batch[s].measuredAt
              /\ poll.result.batch[s].measuredAt <= now

RequestAge(r) ==
    /\ requests[r].pc = "answered" =>
          \A s \in Slots : requests[r].batch[s].valid => requests[r].batch[s].measuredAt <= now
    /\ requests[r].pc = "observed" =>
          /\ requests[r].observedAt # NoTime
          /\ \A s \in Slots : requests[r].batch[s].valid =>
                requests[r].batch[s].measuredAt <= requests[r].observedAt

AgeInv == (\A id \in AuthIDs : WindowAge(id)) /\ PollAge /\ \A r \in Requests : RequestAge(r)

-----------------------------------------------------------------------------
(* What the operations of the cache do, entry by entry *)

\* What the tokens of a credential are compared with.
SameToken(id) ==
    /\ samples'[id].identity = samples[id].identity
    /\ samples'[id].revision = samples[id].revision
    /\ samples'[id].listRevision = samples[id].listRevision
    /\ samples'[id].generation = samples[id].generation
    /\ samples'[id].incarnation = samples[id].incarnation

\* All of an entry but the times of its checks and refreshes.
SameEntry(id) ==
    /\ SameToken(id)
    /\ samples'[id].windows = samples[id].windows
    /\ samples'[id].nextRefreshAt = samples[id].nextRefreshAt
    /\ samples'[id].lastError = samples[id].lastError

\* An empty batch is a batch.
LEMMA NoWindowsType == NoWindows \in Batch
BY DEF NoWindows, Batch

\* What the cache holds of an ID is nothing or an entry.
LEMMA SampleKinds ==
    ASSUME CacheType, NEW id \in AuthIDs
    PROVE  /\ IF Held(id) THEN samples[id] \in Entry ELSE samples[id] = NoSample
           /\ samples[id].identity \in NumbersOrNone /\ samples[id].listRevision \in NumbersOrNone
           /\ samples[id].revision \in NumbersOrNone
           /\ samples[id].generation \in Nat /\ samples[id].incarnation \in Nat
           /\ samples[id].windows \in Batch
           /\ samples[id].checkAttemptAt \in Nat /\ samples[id].usageSuccessAt \in Nat
           /\ samples[id].nextRefreshAt \in Nat /\ samples[id].lastError \in Categories
<1>1. samples[id] \in Entry \/ samples[id] = NoSample
  BY DEF CacheType
<1>2. CASE samples[id] \in Entry
  BY <1>2 DEF Entry, Held, NumbersOrNone
<1>3. CASE samples[id] = NoSample
  BY <1>3, NoWindowsType DEF NoSample, Held, NumbersOrNone, Categories, NoTime
<1>. QED
  BY <1>1, <1>2, <1>3

\* A typed cache has the shape that the facts about credentials need.
LEMMA TypedShape == CacheType => CacheShape
<1> SUFFICES ASSUME CacheType PROVE CacheShape
  OBVIOUS
<1>1. \A id \in AuthIDs : DOMAIN samples[id] = SampleFields
  <2> SUFFICES ASSUME NEW id \in AuthIDs PROVE DOMAIN samples[id] = SampleFields
    OBVIOUS
  <2>1. CASE samples[id] \in Entry
    BY <2>1 DEF Entry, SampleFields, NoSample
  <2>2. CASE samples[id] = NoSample
    BY <2>2 DEF SampleFields
  <2>. QED
    BY <2>1, <2>2 DEF CacheType
<1>2. \A id \in AuthIDs : samples[id].incarnation \in 0..nextIncarnation
  BY SampleKinds DEF CacheType
<1>3. \A id \in Members : samples[id].identity \in Identities
  BY SampleKinds, RouterAssumption DEF Members, Entry, Numbers
<1>. QED
  BY <1>1, <1>2, <1>3 DEF CacheShape, CacheType

\* A listing that was reconciled is in the cache, and nothing else is: its
\* known accounts keep their entries but for the list revision, the others
\* start with nothing under an incarnation never used before.
LEMMA ReconcileFacts ==
    ASSUME CacheType, NEW listing \in HostListings, Reconcile(listing)
    PROVE  /\ CacheType'
           /\ nextIncarnation' >= nextIncarnation
           /\ \A id \in AuthIDs \ DOMAIN listing : samples'[id] = NoSample
           /\ \A id \in DOMAIN listing :
                 /\ samples'[id].incarnation # 0
                 /\ samples'[id].identity = listing[id].identity
                 /\ samples'[id].listRevision = listing[id].listRevision
           /\ \A id \in Fresh(listing) :
                 /\ samples'[id].revision = None /\ samples'[id].windows = NoWindows
                 /\ samples'[id].nextRefreshAt = NoTime /\ samples'[id].lastError = NoError
                 /\ samples'[id].incarnation > nextIncarnation
           /\ \A id \in DOMAIN listing \ Fresh(listing) :
                 /\ Held(id)
                 /\ samples[id].identity = listing[id].identity
                 /\ samples'[id].incarnation = samples[id].incarnation
                 /\ samples'[id].revision = samples[id].revision
                 /\ samples'[id].windows = samples[id].windows
                 /\ samples'[id].nextRefreshAt = samples[id].nextRefreshAt
                 /\ samples'[id].lastError = samples[id].lastError
                 /\ samples'[id].generation >= samples[id].generation
                 /\ samples'[id].generation = samples[id].generation \/ id \in Changed(listing)
                 /\ samples[id].listRevision # listing[id].listRevision =>
                       /\ id \in Changed(listing)
                       /\ samples'[id].generation > samples[id].generation
<1> DEFINE F == Fresh(listing)
<1>1. /\ DOMAIN listing \subseteq AuthIDs
      /\ \A id \in DOMAIN listing : listing[id] \in ListedAuth
  BY DEF HostListings
<1>2. F \in SUBSET AuthIDs /\ F \subseteq DOMAIN listing
  BY <1>1 DEF Fresh, Replaced
<1>3. /\ Cardinality(F) \in Nat
      /\ \A id \in F : Rank(id, F) \in 1..Cardinality(F)
  BY <1>2, RankNumbers
<1>4. /\ samples' = [id \in AuthIDs |-> IF id \in DOMAIN listing THEN Relisted(id, listing) ELSE NoSample]
      /\ nextIncarnation' = nextIncarnation + Cardinality(F)
      /\ nextIncarnation \in Nat
  BY DEF Reconcile, CacheType
<1>5. ASSUME NEW id \in F
      PROVE  LET new == Relisted(id, listing)
             IN  /\ new \in Entry
                 /\ new.identity = listing[id].identity /\ new.listRevision = listing[id].listRevision
                 /\ new.revision = None /\ new.windows = NoWindows
                 /\ new.nextRefreshAt = NoTime /\ new.lastError = NoError
                 /\ new.incarnation > nextIncarnation /\ new.incarnation <= nextIncarnation'
  <2> DEFINE number == nextIncarnation + Rank(id, F)
             bumped == IF id \in Replaced(listing) \cup Changed(listing) THEN 1 ELSE 0
             generation == samples[id].generation + bumped
  <2>1. /\ number \in Nat \ {0} /\ number > nextIncarnation /\ number <= nextIncarnation'
        /\ generation \in Nat /\ listing[id] \in ListedAuth
    BY <1>1, <1>2, <1>3, <1>4, SampleKinds
  <2>2. Relisted(id, listing) =
           [[NoSample EXCEPT !.incarnation = number] EXCEPT
               !.generation = generation, !.identity = listing[id].identity,
               !.listRevision = listing[id].listRevision]
    BY DEF Relisted
  <2> HIDE DEF number, generation
  <2>3. Relisted(id, listing) =
           [identity |-> listing[id].identity, revision |-> None,
            listRevision |-> listing[id].listRevision, generation |-> generation,
            incarnation |-> number, windows |-> NoWindows, checkAttemptAt |-> NoTime,
            usageAttemptAt |-> NoTime, usageSuccessAt |-> NoTime, failures |-> 0,
            nextRefreshAt |-> NoTime, lastError |-> NoError]
    BY <2>2 DEF NoSample
  <2>4. NoTime \in Nat /\ 0 \in Nat /\ NoError \in Categories /\ None \in NumbersOrNone
        /\ listing[id].identity \in Numbers /\ listing[id].listRevision \in Numbers
    BY <2>1 DEF NoTime, Categories, NumbersOrNone, ListedAuth
  <2>5. Relisted(id, listing) \in Entry
    BY <2>1, <2>3, <2>4, NoWindowsType DEF Entry
  <2>. QED
    BY <2>1, <2>3, <2>5
<1>6. ASSUME NEW id \in DOMAIN listing \ F
      PROVE  LET new == Relisted(id, listing)
                 old == samples[id]
             IN  /\ Held(id) /\ id \in AuthIDs
                 /\ old.identity = listing[id].identity
                 /\ new \in Entry
                 /\ new.identity = listing[id].identity /\ new.listRevision = listing[id].listRevision
                 /\ new.incarnation = old.incarnation /\ new.revision = old.revision
                 /\ new.windows = old.windows /\ new.nextRefreshAt = old.nextRefreshAt
                 /\ new.lastError = old.lastError
                 /\ new.generation >= old.generation
                 /\ new.generation = old.generation \/ id \in Changed(listing)
                 /\ old.listRevision # listing[id].listRevision =>
                       id \in Changed(listing) /\ new.generation > old.generation
  <2> DEFINE bumped == IF id \in Replaced(listing) \cup Changed(listing) THEN 1 ELSE 0
             generation == samples[id].generation + bumped
  <2>1. id \in AuthIDs /\ id \in Members /\ id \notin Replaced(listing) /\ listing[id] \in ListedAuth
    BY <1>1 DEF Fresh, Members
  <2>2. samples[id] \in Entry
    BY <2>1, SampleKinds DEF Members
  <2>3. samples[id].identity # None /\ samples[id].listRevision # None
    BY <2>2 DEF Entry, Numbers, None
  <2>4. samples[id].identity = listing[id].identity
    BY <2>1, <2>3 DEF Replaced
  <2>5. samples[id].listRevision # listing[id].listRevision => id \in Changed(listing)
    BY <2>1, <2>3 DEF Changed
  <2>6. /\ generation \in Nat /\ generation >= samples[id].generation
        /\ id \in Changed(listing) => generation > samples[id].generation
        /\ generation = samples[id].generation \/ id \in Changed(listing)
    BY <2>1, <2>2 DEF Entry
  <2>7. Relisted(id, listing) =
           [samples[id] EXCEPT !.generation = generation, !.identity = listing[id].identity,
                               !.listRevision = listing[id].listRevision]
    BY DEF Relisted
  <2> HIDE DEF generation
  <2>. QED
    BY <2>1, <2>2, <2>4, <2>5, <2>6, <2>7 DEF Members, Entry, ListedAuth
<1> HIDE DEF F
<1>7. \A id \in AuthIDs : samples'[id] = IF id \in DOMAIN listing THEN Relisted(id, listing) ELSE NoSample
  BY <1>4
<1>8. \A id \in AuthIDs \ DOMAIN listing : samples'[id] = NoSample
  BY <1>7
<1>9. CacheType'
  <2>1. \A id \in AuthIDs : samples'[id] \in Entry \cup {NoSample}
    BY <1>5, <1>6, <1>7
  <2>2. nextIncarnation' \in Nat /\ nextIncarnation' >= nextIncarnation
    BY <1>3, <1>4
  <2>3. ASSUME NEW id \in AuthIDs PROVE samples'[id].incarnation <= nextIncarnation'
    <3>1. CASE id \in F
      BY <1>1, <1>2, <1>5, <1>7, <3>1
    <3>2. CASE id \in DOMAIN listing \ F
      <4>1. samples'[id].incarnation = samples[id].incarnation
        BY <1>6, <1>7, <3>2
      <4>2. samples[id].incarnation \in Nat /\ samples[id].incarnation <= nextIncarnation
        BY SampleKinds DEF CacheType
      <4>. QED
        BY <1>4, <2>2, <4>1, <4>2
    <3>3. CASE id \notin DOMAIN listing
      BY <1>8, <2>2, <3>3 DEF NoSample
    <3>. QED
      BY <3>1, <3>2, <3>3
  <2>. QED
    BY <1>4, <2>1, <2>2, <2>3 DEF CacheType
<1>10. \A id \in DOMAIN listing :
          /\ samples'[id].incarnation # 0
          /\ samples'[id].identity = listing[id].identity
          /\ samples'[id].listRevision = listing[id].listRevision
  BY <1>1, <1>2, <1>5, <1>6, <1>7 DEF Entry
<1>11. nextIncarnation' >= nextIncarnation
  BY <1>3, <1>4
<1>. QED
  BY <1>1, <1>2, <1>5, <1>6, <1>7, <1>8, <1>9, <1>10, <1>11 DEF F

\* An operation on one entry leaves the rest of the cache alone.
LEMMA UpdateFacts ==
    ASSUME CacheType, NEW id \in AuthIDs, NEW sample \in Entry,
           samples' = [samples EXCEPT ![id] = sample],
           nextIncarnation' \in Nat, nextIncarnation' >= nextIncarnation,
           sample.incarnation <= nextIncarnation'
    PROVE  /\ CacheType'
           /\ samples'[id] = sample
           /\ \A other \in AuthIDs \ {id} : samples'[other] = samples[other]
<1>1. /\ samples'[id] = sample
      /\ \A other \in AuthIDs \ {id} : samples'[other] = samples[other]
  BY DEF CacheType
<1>2. \A other \in AuthIDs : samples'[other].incarnation <= nextIncarnation'
  BY <1>1, SampleKinds DEF CacheType
<1>. QED
  BY <1>1, <1>2 DEF CacheType

\* bindRevision stores the revision; if it rotates, the entry starts anew and
\* keeps its pause, unless the last error is that of a rejected token.
LEMMA BindFacts ==
    ASSUME CacheType, NEW id \in AuthIDs, NEW token, NEW revision \in Numbers,
           BindRevision(id, token, revision)
    PROVE  /\ CacheType'
           /\ nextIncarnation' >= nextIncarnation
           /\ Held(id)
           /\ \A other \in AuthIDs \ {id} : samples'[other] = samples[other]
           /\ samples'[id].incarnation # 0
           /\ samples'[id].revision = revision
           /\ samples'[id].identity = samples[id].identity
           /\ samples'[id].listRevision = samples[id].listRevision
           /\ samples'[id].generation = samples[id].generation
           /\ ~Rotates(id, revision) =>
                 /\ samples'[id].incarnation = samples[id].incarnation
                 /\ samples'[id].windows = samples[id].windows
           /\ Rotates(id, revision) =>
                 /\ samples'[id].incarnation > nextIncarnation
                 /\ samples'[id].windows = NoWindows
           /\ IF Rotates(id, revision) /\ samples[id].lastError = "unauthorized"
              THEN samples'[id].lastError = NoError
              ELSE /\ samples'[id].nextRefreshAt = samples[id].nextRefreshAt
                   /\ samples'[id].lastError = samples[id].lastError
<1> DEFINE old == samples[id]
           bound == IF Rotates(id, revision) THEN Rotated(old, nextIncarnation + 1) ELSE old
           new == [bound EXCEPT !.revision = revision]
<1>1. /\ Held(id)
      /\ samples' = [samples EXCEPT ![id] = new]
      /\ nextIncarnation' = IF Rotates(id, revision) THEN nextIncarnation + 1 ELSE nextIncarnation
  BY DEF BindRevision, BindAllowed
<1>2. old \in Entry /\ old.incarnation <= nextIncarnation /\ nextIncarnation \in Nat
  BY <1>1, SampleKinds DEF CacheType
<1>3. Rotated(old, nextIncarnation + 1) =
         LET keep == old.lastError # "unauthorized"
         IN  [identity |-> old.identity, revision |-> None, listRevision |-> old.listRevision,
              generation |-> old.generation, incarnation |-> nextIncarnation + 1,
              windows |-> NoWindows, checkAttemptAt |-> old.checkAttemptAt,
              usageAttemptAt |-> NoTime, usageSuccessAt |-> NoTime,
              failures |-> IF keep THEN old.failures ELSE 0,
              nextRefreshAt |-> IF keep THEN old.nextRefreshAt ELSE NoTime,
              lastError |-> IF keep THEN old.lastError ELSE NoError]
  <2> HIDE DEF old
  <2>1. CASE old.lastError = "unauthorized"
    BY <2>1 DEF Rotated, NoSample
  <2>2. CASE old.lastError # "unauthorized"
    BY <2>2 DEF Rotated, NoSample
  <2>. QED
    BY <2>1, <2>2
<1>4. NoTime \in Nat /\ 0 \in Nat /\ NoError \in Categories /\ None \in NumbersOrNone
      /\ revision \in NumbersOrNone /\ nextIncarnation + 1 \in Nat \ {0}
  BY <1>2 DEF NoTime, Categories, NumbersOrNone
<1> HIDE DEF old
<1>5. CASE Rotates(id, revision)
  <2>1. bound = Rotated(old, nextIncarnation + 1)
    BY <1>5
  <2>2. bound \in Entry
    BY <1>2, <1>3, <1>4, <2>1, NoWindowsType DEF Entry
  <2>3. /\ bound.identity = old.identity /\ bound.listRevision = old.listRevision
        /\ bound.generation = old.generation /\ bound.incarnation = nextIncarnation + 1
        /\ bound.windows = NoWindows
        /\ IF old.lastError = "unauthorized" THEN bound.lastError = NoError
           ELSE bound.nextRefreshAt = old.nextRefreshAt /\ bound.lastError = old.lastError
    BY <1>3, <2>1
  <2> HIDE DEF bound
  <2>4. /\ new \in Entry /\ new.revision = revision
        /\ new.identity = bound.identity /\ new.listRevision = bound.listRevision
        /\ new.generation = bound.generation /\ new.incarnation = bound.incarnation
        /\ new.windows = bound.windows /\ new.nextRefreshAt = bound.nextRefreshAt
        /\ new.lastError = bound.lastError
    BY <1>4, <2>2 DEF Entry
  <2> HIDE DEF new
  <2>5. /\ nextIncarnation' \in Nat /\ nextIncarnation' >= nextIncarnation
        /\ new.incarnation <= nextIncarnation' /\ new.incarnation > nextIncarnation
        /\ new.incarnation # 0
    BY <1>1, <1>2, <1>5, <2>3, <2>4
  <2>. QED
    BY <1>1, <1>5, <2>3, <2>4, <2>5, UpdateFacts DEF old
<1>6. CASE ~Rotates(id, revision)
  <2>1. bound = old
    BY <1>6
  <2> HIDE DEF bound
  <2>4. /\ new \in Entry /\ new.revision = revision
        /\ new.identity = old.identity /\ new.listRevision = old.listRevision
        /\ new.generation = old.generation /\ new.incarnation = old.incarnation
        /\ new.windows = old.windows /\ new.nextRefreshAt = old.nextRefreshAt
        /\ new.lastError = old.lastError
    BY <1>2, <1>4, <2>1 DEF Entry
  <2> HIDE DEF new
  <2>5. /\ nextIncarnation' \in Nat /\ nextIncarnation' >= nextIncarnation
        /\ new.incarnation <= nextIncarnation' /\ new.incarnation # 0
    BY <1>1, <1>2, <1>6, <2>4 DEF Entry
  <2>. QED
    BY <1>1, <1>6, <2>4, <2>5, UpdateFacts DEF old
<1>. QED
  BY <1>5, <1>6

\* The time of a check or of an attempt is all that a claim changes.
LEMMA ClaimFacts ==
    ASSUME CacheType, NEW id \in AuthIDs, Held(id), NEW at \in Nat, UNCHANGED nextIncarnation,
           \/ samples' = [samples EXCEPT ![id].checkAttemptAt = at]
           \/ samples' = [samples EXCEPT ![id].usageAttemptAt = at]
    PROVE  CacheType' /\ \A other \in AuthIDs : SameEntry(other)
<1>1. samples[id] \in Entry /\ nextIncarnation \in Nat /\ samples[id].incarnation <= nextIncarnation
  BY SampleKinds DEF CacheType
<1>2. PICK sample \in Entry :
         /\ samples' = [samples EXCEPT ![id] = sample]
         /\ sample.identity = samples[id].identity /\ sample.revision = samples[id].revision
         /\ sample.listRevision = samples[id].listRevision
         /\ sample.generation = samples[id].generation
         /\ sample.incarnation = samples[id].incarnation
         /\ sample.windows = samples[id].windows
         /\ sample.nextRefreshAt = samples[id].nextRefreshAt
         /\ sample.lastError = samples[id].lastError
  <2>1. CASE samples' = [samples EXCEPT ![id].checkAttemptAt = at]
    <3> DEFINE sample == [samples[id] EXCEPT !.checkAttemptAt = at]
    <3>1. samples' = [samples EXCEPT ![id] = sample]
      BY <2>1
    <3>2. sample \in Entry
      BY <1>1 DEF Entry
    <3>. QED
      BY <1>1, <3>1, <3>2 DEF Entry
  <2>2. CASE samples' = [samples EXCEPT ![id].usageAttemptAt = at]
    <3> DEFINE sample == [samples[id] EXCEPT !.usageAttemptAt = at]
    <3>1. samples' = [samples EXCEPT ![id] = sample]
      BY <2>2
    <3>2. sample \in Entry
      BY <1>1 DEF Entry
    <3>. QED
      BY <1>1, <3>1, <3>2 DEF Entry
  <2>. QED
    BY <2>1, <2>2
<1>3. /\ CacheType' /\ samples'[id] = sample
      /\ \A other \in AuthIDs \ {id} : samples'[other] = samples[other]
  <2>1. /\ nextIncarnation' \in Nat /\ nextIncarnation' >= nextIncarnation
        /\ sample.incarnation <= nextIncarnation'
    BY <1>1, <1>2
  <2>2. samples' = [samples EXCEPT ![id] = sample]
    BY <1>2
  <2>. QED
    BY <2>1, <2>2, UpdateFacts
<1>. QED
  BY <1>2, <1>3 DEF SameEntry, SameToken

\* A failed fetch schedules the pause that is noted as owed, and nothing else
\* that is read but the category changes.
LEMMA FailFacts ==
    ASSUME CacheType, NEW id \in AuthIDs, NEW token, NEW category \in Categories, NEW hint,
           NEW at \in Nat, RecordRefreshFailure(id, token, category, hint, at)
    PROVE  /\ CacheType' /\ nextIncarnation' = nextIncarnation
           /\ Held(id)
           /\ \A other \in AuthIDs \ {id} : samples'[other] = samples[other]
           /\ SameToken(id) /\ samples'[id].windows = samples[id].windows
           /\ samples'[id].lastError = category
<1>1. PICK pause \in Pauses(samples[id].failures + 1, category = "rate_limited", hint) :
         samples' = [samples EXCEPT ![id].failures = @ + 1, ![id].nextRefreshAt = at + pause,
                                    ![id].lastError = category]
  BY DEF RecordRefreshFailure
<1>2. pause \in Nat
  BY <1>1 DEF Pauses
<1>3. /\ samples[id] \in Entry /\ nextIncarnation \in Nat /\ Held(id)
      /\ samples[id].incarnation <= nextIncarnation /\ nextIncarnation' = nextIncarnation
  BY SampleKinds DEF CacheType, RecordRefreshFailure
<1> DEFINE sample == [samples[id] EXCEPT !.failures = @ + 1, !.nextRefreshAt = at + pause,
                                         !.lastError = category]
<1>4. samples[id].failures + 1 \in Nat /\ at + pause \in Nat
  BY <1>2, <1>3 DEF Entry
<1>5. /\ sample \in Entry
      /\ sample.identity = samples[id].identity /\ sample.revision = samples[id].revision
      /\ sample.listRevision = samples[id].listRevision
      /\ sample.generation = samples[id].generation
      /\ sample.incarnation = samples[id].incarnation
      /\ sample.windows = samples[id].windows /\ sample.lastError = category
  BY <1>3, <1>4 DEF Entry
<1>6. samples' = [samples EXCEPT ![id] = sample]
  BY <1>1 DEF CacheType
<1> HIDE DEF sample
<1>7. /\ nextIncarnation' \in Nat /\ nextIncarnation' >= nextIncarnation
      /\ sample.incarnation <= nextIncarnation'
  BY <1>3, <1>5
<1>8. /\ CacheType' /\ samples'[id] = sample
      /\ \A other \in AuthIDs \ {id} : samples'[other] = samples[other]
  BY <1>5, <1>6, <1>7, UpdateFacts
<1>. QED
  BY <1>3, <1>5, <1>8 DEF SameToken

\* A failed credential read changes the category.
LEMMA NoteFacts ==
    ASSUME CacheType, NEW id \in AuthIDs, NEW token, NEW category \in Categories,
           RecordFailureForIdentity(id, token, category)
    PROVE  /\ CacheType' /\ nextIncarnation' = nextIncarnation
           /\ \A other \in AuthIDs \ {id} : samples'[other] = samples[other]
           /\ SameToken(id) /\ samples'[id].windows = samples[id].windows
           /\ samples'[id].nextRefreshAt = samples[id].nextRefreshAt
           /\ samples'[id].lastError = category
<1>1. /\ samples[id] \in Entry /\ nextIncarnation \in Nat
      /\ samples[id].incarnation <= nextIncarnation /\ nextIncarnation' = nextIncarnation
  BY SampleKinds DEF CacheType, RecordFailureForIdentity
<1> DEFINE sample == [samples[id] EXCEPT !.lastError = category]
<1>2. /\ sample \in Entry
      /\ sample.identity = samples[id].identity /\ sample.revision = samples[id].revision
      /\ sample.listRevision = samples[id].listRevision
      /\ sample.generation = samples[id].generation
      /\ sample.incarnation = samples[id].incarnation
      /\ sample.windows = samples[id].windows /\ sample.lastError = category
      /\ sample.nextRefreshAt = samples[id].nextRefreshAt
  BY <1>1 DEF Entry
<1>3. samples' = [samples EXCEPT ![id] = sample]
  BY DEF RecordFailureForIdentity
<1> HIDE DEF sample
<1>4. /\ nextIncarnation' \in Nat /\ nextIncarnation' >= nextIncarnation
      /\ sample.incarnation <= nextIncarnation'
  BY <1>1, <1>2
<1>5. /\ CacheType' /\ samples'[id] = sample
      /\ \A other \in AuthIDs \ {id} : samples'[other] = samples[other]
  BY <1>2, <1>3, <1>4, UpdateFacts
<1>. QED
  BY <1>1, <1>2, <1>5 DEF SameToken

\* A committed batch replaces windows by readings stamped with the time of the
\* commit, where they land; a poll ends the pause.
LEMMA CommitFacts ==
    ASSUME CacheType, NEW id \in AuthIDs, NEW token, NEW batch \in Batch, NEW at \in Nat,
           NEW startedAt \in Nat, NEW isPoll \in BOOLEAN,
           CommitWindowBatch(id, token, batch, at, startedAt, isPoll)
    PROVE  /\ CacheType' /\ nextIncarnation' = nextIncarnation
           /\ Held(id)
           /\ \A other \in AuthIDs \ {id} : samples'[other] = samples[other]
           /\ SameToken(id)
           /\ samples'[id].nextRefreshAt = IF isPoll THEN NoTime ELSE samples[id].nextRefreshAt
           /\ samples'[id].lastError \in {samples[id].lastError, NoError}
           /\ \A s \in Slots :
                 LET next == [batch[s] EXCEPT !.sampledAt = at]
                 IN  IF Lands(samples[id].windows[s], next, startedAt, isPoll)
                     THEN samples'[id].windows[s] = next
                     ELSE samples'[id].windows[s] = samples[id].windows[s]
<1> DEFINE incoming == Stamped(batch, at)
           landing == LandingSlots(id, incoming, startedAt, isPoll)
           old == samples[id]
           merged == [s \in Slots |-> IF s \in landing THEN incoming[s] ELSE old.windows[s]]
           updated == [old EXCEPT
               !.windows = [s \in Slots |-> IF s \in landing THEN incoming[s] ELSE @[s]],
               !.lastError = IF landing # {} THEN NoError ELSE @]
           recovered == [updated EXCEPT
               !.usageSuccessAt = AtLeast(at, @), !.failures = 0, !.nextRefreshAt = NoTime]
           sample == IF isPoll THEN recovered ELSE updated
<1>1. /\ old \in Entry /\ nextIncarnation \in Nat /\ Held(id)
      /\ old.incarnation <= nextIncarnation /\ nextIncarnation' = nextIncarnation
  BY SampleKinds DEF CacheType, CommitWindowBatch, CommitAllowed
<1>2. samples' = [samples EXCEPT ![id] = sample]
  BY DEF CommitWindowBatch
<1>3. \A s \in Slots : /\ incoming[s] = [batch[s] EXCEPT !.sampledAt = at]
                       /\ s \in landing <=> Lands(old.windows[s], incoming[s], startedAt, isPoll)
  BY DEF Stamped, LandingSlots
<1>4. ASSUME NEW s \in Slots, s \in landing PROVE incoming[s] \in Evidence
  <2>1. batch[s] \in Evidence \cup {NoWindow}
    BY DEF Batch
  <2>2. incoming[s].valid
    BY <1>3, <1>4 DEF Lands
  <2>3. batch[s] # NoWindow
    <3>1. incoming[s] = [batch[s] EXCEPT !.sampledAt = at]
      BY <1>3
    <3>2. [NoWindow EXCEPT !.sampledAt = at].valid = FALSE
      BY DEF NoWindow
    <3>. QED
      BY <2>2, <3>1, <3>2
  <2>4. CASE batch[s] \in Evidence
    <3>1. incoming[s] = [batch[s] EXCEPT !.sampledAt = at]
      BY <1>3
    <3>. QED
      BY <2>4, <3>1 DEF Evidence
  <2>. QED
    BY <2>1, <2>3, <2>4
<1> HIDE DEF incoming, landing, old
<1>5. merged \in Batch
  BY <1>1, <1>4 DEF Batch, Entry
<1>6. /\ updated = [old EXCEPT !.windows = merged,
                               !.lastError = IF landing # {} THEN NoError ELSE old.lastError]
  BY <1>1 DEF Entry
<1> HIDE DEF updated
<1>7. (IF landing # {} THEN NoError ELSE old.lastError) \in Categories
  BY <1>1 DEF Entry, Categories
<1>8. /\ updated \in Entry
      /\ updated.windows = merged /\ updated.lastError \in {old.lastError, NoError}
      /\ updated.nextRefreshAt = old.nextRefreshAt
      /\ updated.identity = old.identity /\ updated.revision = old.revision
      /\ updated.listRevision = old.listRevision /\ updated.generation = old.generation
      /\ updated.incarnation = old.incarnation
  <2> HIDE DEF merged
  <2>. QED
    BY <1>1, <1>5, <1>6, <1>7 DEF Entry
<1>9. AtLeast(at, updated.usageSuccessAt) \in Nat /\ NoTime \in Nat
  BY <1>8 DEF Entry, AtLeast, NoTime
<1>10. /\ recovered \in Entry
       /\ recovered.windows = updated.windows /\ recovered.lastError = updated.lastError
       /\ recovered.nextRefreshAt = NoTime
       /\ recovered.identity = updated.identity /\ recovered.revision = updated.revision
       /\ recovered.listRevision = updated.listRevision
       /\ recovered.generation = updated.generation /\ recovered.incarnation = updated.incarnation
  BY <1>8, <1>9 DEF Entry
<1> HIDE DEF recovered
<1>11. /\ sample \in Entry /\ sample.windows = merged
       /\ sample.lastError \in {old.lastError, NoError}
       /\ sample.nextRefreshAt = IF isPoll THEN NoTime ELSE old.nextRefreshAt
       /\ sample.identity = old.identity /\ sample.revision = old.revision
       /\ sample.listRevision = old.listRevision /\ sample.generation = old.generation
       /\ sample.incarnation = old.incarnation
  BY <1>8, <1>10
<1> HIDE DEF sample
<1>12. /\ nextIncarnation' \in Nat /\ nextIncarnation' >= nextIncarnation
       /\ sample.incarnation <= nextIncarnation'
  BY <1>1, <1>11
<1>13. /\ CacheType' /\ samples'[id] = sample
       /\ \A other \in AuthIDs \ {id} : samples'[other] = samples[other]
  BY <1>2, <1>11, <1>12, UpdateFacts
<1>14. \A s \in Slots : samples'[id].windows[s] = IF s \in landing THEN incoming[s] ELSE old.windows[s]
  BY <1>11, <1>13
<1>. QED
  BY <1>1, <1>3, <1>11, <1>13, <1>14 DEF SameToken, old

-----------------------------------------------------------------------------
(* Types of the parts *)

\* Every operation of the queue leaves a queue.
LEMMA QueueTypes ==
    ASSUME NEW q \in Queues, NEW S \in SUBSET AuthIDs, NEW T \in SUBSET AuthIDs,
           NEW id \in AuthIDs, NEW due \in Nat, NEW all \in BOOLEAN, now \in Nat
    PROVE  /\ EmptyQueue \in Queues /\ QueueAll(q) \in Queues
           /\ QueueCandidates(q, S) \in Queues /\ QueueRevisions(q, S) \in Queues
           /\ Defer(q, id, due) \in Queues /\ RetryAll(q, S) \in Queues
           /\ Requeue(q, all, S, T) \in Queues
           /\ Finished(q, all, S) \in Queues
<1> USE RouterAssumption
<1>1. EmptyQueue \in Queues /\ QueueAll(q) \in Queues
  BY DEF EmptyQueue, QueueAll, Queues, NotDeferred
<1>2. QueueCandidates(q, S) \in Queues /\ QueueRevisions(q, S) \in Queues
  BY DEF QueueCandidates, QueueRevisions, Queues
<1>3. Defer(q, id, due) \in Queues
  BY DEF Defer, Queues
<1>4. RetryAll(q, S) \in Queues
  <2>1. now + RetryDelay \in Nat
    OBVIOUS
  <2>. QED
    BY <2>1 DEF RetryAll, Queues
<1>5. Requeue(q, all, S, T) \in Queues
  BY <1>1 DEF Requeue, Queues
<1>6. Finished(q, all, S) \in Queues
  BY DEF Finished, Queues
<1>. QED
  BY <1>1, <1>2, <1>3, <1>4, <1>5, <1>6

\* Taking the pending work leaves a queue, and loses no revision check: each
\* stays queued, stays deferred, or is among those taken.
LEMMA TakenTypes ==
    ASSUME NEW q \in Queues, NEW at \in Nat
    PROVE  /\ Taken(q, at) \in Queues
           /\ Promoted(q, at).revisions \in SUBSET AuthIDs
           /\ \A id \in AuthIDs :
                 id \in q.revisions \/ q.deferred[id] # NotDeferred =>
                     \/ Taken(q, at).deferred[id] # NotDeferred
                     \/ IF q.all THEN id \in Taken(q, at).revisions
                        ELSE id \in Promoted(q, at).revisions
<1> USE RouterAssumption
<1> DEFINE D == DueDeferred(q, at)
           later == [id \in QueuedIDs |-> IF id \in D THEN NotDeferred ELSE q.deferred[id]]
           p == [q EXCEPT !.revisions = q.revisions \cup D, !.deferred = later]
<1>1. D \in SUBSET AuthIDs
  BY DEF DueDeferred
<1>2. Promoted(q, at) = p
  BY DEF Promoted, Queues
<1> HIDE DEF D
<1>3. later \in [AuthIDs -> Nat]
  BY DEF Queues, NotDeferred
<1>4. /\ p \in Queues
      /\ p.all = q.all /\ p.revisions = q.revisions \cup D /\ p.deferred = later
  <2> HIDE DEF later
  <2>. QED
    BY <1>1, <1>3 DEF Queues
<1> HIDE DEF p
<1>5. /\ Taken(q, at) \in Queues
      /\ Taken(q, at).deferred = p.deferred
      /\ q.all => Taken(q, at).revisions = p.revisions
  BY <1>2, <1>4 DEF Taken, Queues
<1>6. \A id \in AuthIDs : later[id] # NotDeferred \/ id \in D \/ q.deferred[id] = NotDeferred
  BY DEF Queues
<1>7. ASSUME NEW id \in AuthIDs, id \in q.revisions \/ q.deferred[id] # NotDeferred
      PROVE  p.deferred[id] # NotDeferred \/ id \in p.revisions
  BY <1>4, <1>6, <1>7
<1>8. p.revisions \in SUBSET AuthIDs
  BY <1>4 DEF Queues
<1> HIDE DEF later
<1>. QED
  BY <1>2, <1>5, <1>7, <1>8

\* A request that queues refreshes stamps the entries it claims, and queues
\* its revision checks if the router runs.
LEMMA RequestQueues ==
    ASSUME CacheType, queue \in Queues, now \in Nat, NEW candidates,
           NEW revisions \in SUBSET AuthIDs, NEW cfg, QueueFromRequest(candidates, revisions, cfg)
    PROVE  /\ CacheType' /\ nextIncarnation' = nextIncarnation
           /\ \A id \in AuthIDs : SameEntry(id)
           /\ queue' \in Queues
           /\ queue'.deferred = queue.deferred
           /\ queue.revisions \subseteq queue'.revisions
           /\ lifecycle = "running" => revisions \subseteq queue'.revisions
<1> DEFINE claimed == candidates \cap DueIDs(cfg) \cap Queueable(queue)
<1>1. CASE lifecycle = "running"
  <2>1. /\ queue' = QueueRevisions(QueueCandidates(queue, claimed), revisions)
        /\ samples' = [id \in AuthIDs |->
                          IF id \in claimed THEN [samples[id] EXCEPT !.usageAttemptAt = now]
                          ELSE samples[id]]
        /\ nextIncarnation' = nextIncarnation
    BY <1>1 DEF QueueFromRequest
  <2>2. claimed \in SUBSET Members /\ claimed \in SUBSET AuthIDs
    BY DEF DueIDs, Members
  <2> HIDE DEF claimed
  <2>3. QueueCandidates(queue, claimed) \in Queues
    BY <2>2, RouterAssumption DEF QueueCandidates, Queues
  <2>4. queue' \in Queues
    BY <2>1, <2>3, RouterAssumption DEF QueueRevisions, Queues
  <2>5. /\ queue'.deferred = queue.deferred
        /\ queue.revisions \subseteq queue'.revisions
        /\ revisions \subseteq queue'.revisions
    BY <2>1 DEF QueueRevisions, QueueCandidates, Queues
  <2>6. ASSUME NEW id \in AuthIDs
        PROVE  SameEntry(id) /\ samples'[id] \in Entry \cup {NoSample}
    <3>1. CASE id \in claimed
      <4>1. samples[id] \in Entry
        BY <2>2, <3>1, SampleKinds DEF Members
      <4>2. samples'[id] = [samples[id] EXCEPT !.usageAttemptAt = now]
        BY <2>1, <3>1
      <4>. QED
        BY <4>1, <4>2 DEF Entry, SameEntry, SameToken
    <3>2. CASE id \notin claimed
      <4>1. samples'[id] = samples[id]
        BY <2>1, <3>2
      <4>. QED
        BY <4>1 DEF CacheType, SameEntry, SameToken
    <3>. QED
      BY <3>1, <3>2
  <2>7. CacheType'
    BY <2>1, <2>6 DEF CacheType, SameEntry, SameToken
  <2>. QED
    BY <2>1, <2>4, <2>5, <2>6, <2>7
<1>2. CASE lifecycle # "running"
  <2>1. UNCHANGED <<cacheVars, queue>>
    BY <1>2 DEF QueueFromRequest
  <2>. QED
    BY <1>2, <2>1 DEF cacheVars, CacheType, SameEntry, SameToken
<1>. QED
  BY <1>1, <1>2

\* What the host lists has a type.
LEMMA ListingType == HostType => Listing \in HostListings /\ NoListing \in HostListings
<1> SUFFICES ASSUME HostType PROVE Listing \in HostListings /\ NoListing \in HostListings
  OBVIOUS
<1> DEFINE S == {i \in AuthIDs : disk[i].present}
<1>1. S \in SUBSET AuthIDs /\ Listing \in [S -> ListedAuth]
  BY DEF Listing, HostType, AuthFile, ListedAuth
<1>2. {} \in SUBSET AuthIDs /\ NoListing \in [{} -> ListedAuth]
  BY DEF NoListing
<1>. QED
  BY <1>1, <1>2 DEF HostListings

\* A listing holds known auth IDs.
LEMMA ListingDomain ==
    ASSUME NEW listing \in HostListings
    PROVE  /\ DOMAIN listing \in SUBSET AuthIDs
           /\ \A id \in DOMAIN listing : listing[id] \in ListedAuth
BY DEF HostListings

\* Readings are batches of evidence about the account they are asked for.
LEMMA ReadingFacts ==
    ASSUME now \in Nat, NEW account \in Numbers, NEW reading \in Readings(account)
    PROVE  /\ reading \in Batch
           /\ \A s \in Slots : reading[s].valid =>
                 reading[s].account = account /\ reading[s].measuredAt = now
<1>1. PICK percent \in Percents, offset \in ResetOffsets :
         reading = Reading(account, percent, IF offset = 0 THEN NoTime ELSE now + offset)
  BY DEF Readings
<1> DEFINE resetAt == IF offset = 0 THEN NoTime ELSE now + offset
<1>2. percent \in Nat /\ resetAt \in Nat /\ NoTime \in Nat
  BY <1>1, RouterAssumption DEF NoTime
<1>3. reading = Reading(account, percent, resetAt)
  BY <1>1
<1> HIDE DEF resetAt
<1>4. \A s \in Slots :
         reading[s] = IF s \in ObservedSlots
                      THEN [valid |-> TRUE, percent |-> percent, resetAt |-> resetAt,
                            sampledAt |-> NoTime, account |-> account, measuredAt |-> now]
                      ELSE NoWindow
  BY <1>3 DEF Reading
<1>5. reading = [s \in Slots |-> reading[s]]
  BY <1>3 DEF Reading
<1>6. [valid |-> TRUE, percent |-> percent, resetAt |-> resetAt, sampledAt |-> NoTime,
       account |-> account, measuredAt |-> now] \in Evidence
  BY <1>2 DEF Evidence
<1>7. \A s \in Slots : reading[s] \in Evidence \cup {NoWindow}
  BY <1>4, <1>6
<1>. QED
  BY <1>4, <1>5, <1>7 DEF Batch, NoWindow

\* The headers of a response carry such readings.
LEMMA HeaderFacts ==
    ASSUME now \in Nat, NEW account \in Numbers, NEW batch \in Headers(account)
    PROVE  /\ batch \in Batch
           /\ \A s \in Slots : batch[s].valid =>
                 batch[s].account = account /\ batch[s].measuredAt = now
<1> DEFINE Sent(sent, reading) == [s \in Slots |-> IF s \in sent THEN reading[s] ELSE NoWindow]
<1>0. batch \in {Sent(sent, reading) : sent \in SUBSET HeaderSlots, reading \in Readings(account)}
  BY Z3 DEF Headers
<1> HIDE DEF Sent
<1>1. PICK sent \in SUBSET HeaderSlots, reading \in Readings(account) : batch = Sent(sent, reading)
  BY <1>0
<1>2. /\ reading \in Batch
      /\ \A s \in Slots : reading[s].valid =>
            reading[s].account = account /\ reading[s].measuredAt = now
  BY ReadingFacts
<1>. QED
  BY <1>1, <1>2 DEF Batch, NoWindow, Sent

\* What is parsed of them is left as it is, or left out.
LEMMA ParsedFacts ==
    ASSUME NEW batch \in Batch
    PROVE  /\ Parsed(batch) \in Batch
           /\ \A s \in Slots : Parsed(batch)[s].valid => Parsed(batch)[s] = batch[s]
BY DEF Parsed, Batch, NoWindow

\* Documents that are accepted decode to a positive poll interval.
LEMMA SettingsTypes ==
    /\ \A document \in FirstDocuments : Decoded(document) \in Configs
    /\ \A cfg \in Settings : cfg.pollInterval \in Nat \ {0}
<1>1. \A document \in FirstDocuments : Decoded(document) \in Configs
  BY RouterAssumption DEF Configs
<1>2. ASSUME NEW cfg \in Configs PROVE cfg.pollInterval \in Nat \ {0}
  <2>1. PICK document \in Documents : Accepted(document) /\ cfg = Decoded(document)
    BY <1>2 DEF Configs
  <2>2. cfg.pollInterval = Given(document.pollInterval, DefaultPollInterval)
    BY <2>1 DEF Decoded, DefaultPluginConfig
  <2>3. cfg.pollInterval > 0
    BY <2>1, <2>2 DEF Accepted
  <2>4. cfg.pollInterval \in Int
    <3>1. CASE document.pollInterval = {}
      BY <2>2, <3>1, DefaultsAssumption DEF Given
    <3>2. CASE document.pollInterval # {}
      <4>1. (CHOOSE value \in document.pollInterval : TRUE) \in document.pollInterval
        BY <3>2
      <4>. QED
        BY <2>1, <2>2, <3>2, <4>1, RouterAssumption DEF Given
    <3>. QED
      BY <3>1, <3>2
  <2>. QED
    BY <2>3, <2>4
<1>3. DefaultPluginConfig.pollInterval \in Nat \ {0}
  BY DefaultsAssumption DEF DefaultPluginConfig
<1>. QED
  BY <1>1, <1>2, <1>3 DEF Settings

-----------------------------------------------------------------------------
(* Every step keeps the types *)

\* The worker may move on to a part of its pass that needs no more than the
\* one it is in.
LEMMA WorkerMoves ==
    ASSUME WorkerType, UNCHANGED discovery, NEW pc \in IdlePCs \cup BusyPCs,
           worker' = [worker EXCEPT !.pc = pc],
           \/ pc \notin PassPCs
           \/ worker.pc = "claiming" /\ pc = "beginning"
           \/ worker.pc \in ReadPCs /\ pc \in ReadPCs
    PROVE  WorkerType'
<1>1. worker' \in WorkerRecord /\ worker'.pc = pc /\ worker'.generation = worker.generation
      /\ worker'.todo = worker.todo /\ worker'.poll = worker.poll /\ worker'.listing = worker.listing
  BY DEF WorkerType, WorkerRecord
<1>. QED
  BY <1>1 DEF WorkerType, PassPCs, PollPCs, ReadPCs, poll

\* A poll that is over leaves the worker in its pass.
LEMMA EndPollType ==
    ASSUME WorkerType, UNCHANGED discovery, worker.pc \in PollPCs, EndPoll
    PROVE  WorkerType'
<1>1. NoPoll \in PollRecord
  BY DEF NoPoll, PollRecord, Token, PollResult, NumbersOrNone
<1>2. "passing" \in IdlePCs \cup BusyPCs
  BY DEF BusyPCs
<1>3. worker' \in WorkerRecord /\ worker'.pc = "passing" /\ worker'.generation = worker.generation
      /\ worker'.todo = worker.todo /\ worker'.listing = worker.listing
  BY <1>1, <1>2 DEF EndPoll, WorkerType, WorkerRecord
<1>. QED
  BY <1>3 DEF WorkerType, PassPCs, PollPCs, ReadPCs, poll

\* A worker that waits for work has a type.
LEMMA WaitingType ==
    ASSUME NEW pc \in IdlePCs, worker' \in {Waiting, [Waiting EXCEPT !.pc = pc]},
           discovery'.issued \in Nat, HostType
    PROVE  WorkerType'
<1>1. NoPoll \in PollRecord
  BY DEF NoPoll, PollRecord, Token, PollResult, NumbersOrNone
<1>2. NoListing \in HostListings /\ DefaultPluginConfig \in Settings
  BY ListingType DEF Settings
<1>3. worker' \in WorkerRecord /\ worker'.pc \in IdlePCs /\ worker'.generation = 0
  <2>1. Waiting \in WorkerRecord /\ Waiting.pc \in IdlePCs /\ Waiting.generation = 0
    BY <1>1, <1>2 DEF Waiting, WorkerRecord, IdlePCs
  <2>2. /\ [Waiting EXCEPT !.pc = pc] \in WorkerRecord
        /\ [Waiting EXCEPT !.pc = pc].pc = pc
        /\ [Waiting EXCEPT !.pc = pc].generation = 0
    BY <2>1 DEF WorkerRecord
  <2>. QED
    BY <2>1, <2>2
<1>. QED
  BY <1>3 DEF WorkerType, PassPCs, PollPCs, ReadPCs, IdlePCs, poll

\* The steps of refreshLoop and refreshAuths keep the types.
LEMMA WorkerKeepsTypes == TypeInv /\ WorkerStep => TypeInv'
<1> SUFFICES ASSUME TypeInv, WorkerStep PROVE TypeInv'
  OBVIOUS
<1>0. /\ CacheType /\ HostType /\ LifecycleType /\ WorkerType /\ GateType /\ RequestType
      /\ now \in Nat /\ worker \in WorkerRecord /\ queue \in Queues
      /\ worker.ids \in SUBSET AuthIDs /\ worker.revisions \in SUBSET AuthIDs
      /\ worker.signals \in SUBSET AuthIDs /\ worker.all \in BOOLEAN
      /\ worker.listing \in HostListings
  BY DEF TypeInv, HostType, WorkerType, WorkerRecord, LifecycleType
<1> USE DEF lifecycleVars, environment, cacheVars
<1>a. UNCHANGED cacheVars => CacheType'
  BY <1>0 DEF CacheType
<1>b. UNCHANGED environment => HostType'
  BY <1>0 DEF HostType
<1>c. UNCHANGED <<discovery, lifecycle, config>> /\ queue' \in Queues => LifecycleType'
  BY <1>0 DEF LifecycleType
<1>d. UNCHANGED <<gates, discovery>> => GateType'
  BY <1>0 DEF GateType
<1>e. UNCHANGED <<requests, correlations>> => RequestType'
  BY <1>0 DEF RequestType
<1>f. {"waiting", "taking", "exited"} = IdlePCs
      /\ {"loading", "listing", "reconciling", "signalling", "passing", "finishing"} \subseteq BusyPCs
  BY DEF IdlePCs, BusyPCs, ListPCs
<1>g. \A pc \in {"taking", "exited", "finishing", "listing", "reconciling", "signalling", "loading"} :
         pc \in IdlePCs \cup BusyPCs /\ pc \notin PassPCs
  BY <1>f DEF PassPCs, PollPCs
<1>1. CASE WorkerWake
  <2>1. queue' \in Queues
    BY <1>0, <1>1 DEF WorkerWake, Queues
  <2>2. WorkerType'
    BY <1>0, <1>1, <1>g, WorkerMoves DEF WorkerWake
  <2>. QED
    BY <1>1, <1>a, <1>b, <1>c, <1>d, <1>e, <2>1, <2>2 DEF WorkerWake, TypeInv
<1>2. CASE WorkerExit
  <2>1. WorkerType'
    BY <1>0, <1>2, <1>g, WorkerMoves DEF WorkerExit
  <2>. QED
    BY <1>0, <1>2, <1>a, <1>b, <1>c, <1>d, <1>e, <2>1 DEF WorkerExit, TypeInv
<1>3. CASE WorkerTake
  <2>1. queue' \in Queues /\ Promoted(queue, now).revisions \in SUBSET AuthIDs
    BY <1>0, <1>3, TakenTypes DEF WorkerTake
  <2>2. queue.ids \in SUBSET AuthIDs /\ queue.all \in BOOLEAN
    BY <1>0, RouterAssumption DEF Queues
  <2>3. worker' \in WorkerRecord /\ worker'.pc = "loading" /\ worker'.generation = worker.generation
        /\ discovery' = discovery
    BY <1>0, <1>3, <1>f, <2>1, <2>2 DEF WorkerTake, WorkerRecord
  <2>4. WorkerType'
    BY <1>0, <2>3 DEF WorkerType, PassPCs, PollPCs, ReadPCs
  <2>. QED
    BY <1>3, <1>a, <1>b, <1>c, <1>d, <1>e, <2>1, <2>4 DEF WorkerTake, TypeInv
<1>4. CASE WorkerLoad
  <2>1. CASE Cancelled \/ ~config.enabled
    <3>1. WorkerType'
      BY <1>0, <1>4, <2>1, <1>g, WorkerMoves DEF WorkerLoad
    <3>. QED
      BY <1>0, <1>4, <1>a, <1>b, <1>c, <1>d, <1>e, <2>1, <3>1 DEF WorkerLoad, TypeInv
  <2>2. CASE ~(Cancelled \/ ~config.enabled)
    <3>1. IssueDiscovery /\ worker' = [worker EXCEPT !.pc = "listing", !.config = config,
                                                     !.generation = discovery'.issued]
      BY <1>4, <2>2 DEF WorkerLoad
    <3>2. /\ discovery' \in [issued : 0..MaxListings, reconciled : 0..MaxListings]
          /\ discovery'.issued = discovery.issued + 1 /\ discovery'.reconciled = discovery.reconciled
      BY <1>0, <3>1, RouterAssumption DEF IssueDiscovery, LifecycleType
    <3>3. discovery'.issued \in Nat
      BY <3>2, RouterAssumption
    <3>4. LifecycleType'
      BY <1>0, <1>4, <3>2 DEF LifecycleType, WorkerLoad
    <3>5. worker' \in WorkerRecord /\ worker'.pc = "listing" /\ worker'.generation = discovery'.issued
      BY <1>0, <1>f, <3>1, <3>3 DEF WorkerRecord, Settings, LifecycleType
    <3>6. WorkerType'
      BY <3>3, <3>5 DEF WorkerType, PassPCs, PollPCs, ReadPCs
    <3>7. GateType'
      <4>1. \A g \in Gates : gates[g].generation \in Nat
        BY <1>0 DEF GateType, GateRecord
      <4>2. discovery.issued \in Nat
        BY <1>0, RouterAssumption DEF LifecycleType
      <4>. QED
        BY <1>0, <1>4, <3>2, <4>1, <4>2 DEF GateType, WorkerLoad
    <3>. QED
      BY <1>4, <1>a, <1>b, <1>e, <3>4, <3>6, <3>7 DEF WorkerLoad, TypeInv
  <2>. QED
    BY <2>1, <2>2
<1>5. CASE WorkerIdle
  <2>1. worker' = Waiting /\ discovery' = discovery
    BY <1>5 DEF WorkerIdle
  <2>2. WorkerType'
    BY <1>0, <2>1, <1>f, WaitingType, RouterAssumption DEF LifecycleType
  <2>. QED
    BY <1>0, <1>5, <1>a, <1>b, <1>c, <1>d, <1>e, <2>2 DEF WorkerIdle, TypeInv
<1>6. CASE WorkerList
  <2>1. worker' \in WorkerRecord /\ worker'.pc = "reconciling" /\ worker'.generation = worker.generation
        /\ discovery' = discovery
    BY <1>0, <1>6, <1>f, ListingType DEF WorkerList, WorkerRecord
  <2>2. WorkerType'
    BY <1>0, <2>1 DEF WorkerType, PassPCs, PollPCs, ReadPCs
  <2>. QED
    BY <1>0, <1>6, <1>a, <1>b, <1>c, <1>d, <1>e, <2>2 DEF WorkerList, TypeInv
<1>7. CASE WorkerListFails
  <2>1. queue' \in Queues
    <3>1. RetryAll(queue, worker.revisions) \in Queues
      <4>1. CASE AuthIDs = {}
        BY <1>0, <4>1, RouterAssumption DEF RetryAll, Queues
      <4>2. CASE AuthIDs # {}
        BY <1>0, <4>2, QueueTypes, RouterAssumption
      <4>. QED
        BY <4>1, <4>2
    <3>. QED
      BY <1>0, <1>7, <3>1 DEF WorkerListFails
  <2>2. WorkerType'
    BY <1>0, <1>7, <1>g, WorkerMoves DEF WorkerListFails
  <2>3. HostType'
    BY <1>0, <1>7, RouterAssumption DEF WorkerListFails, HostType, Fault
  <2>. QED
    BY <1>7, <1>a, <1>c, <1>d, <1>e, <2>1, <2>2, <2>3 DEF WorkerListFails, TypeInv
<1>8. CASE WorkerReconcile
  <2>1. /\ ReconcileDiscovery(worker.generation, worker.listing)
        /\ worker' = [worker EXCEPT !.pc = "signalling",
                         !.signals = Replaced(worker.listing) \cup Changed(worker.listing)]
        /\ UNCHANGED <<now, disk, spent, queue, lifecycle, config, gates, requests, correlations>>
    BY <1>8 DEF WorkerReconcile
  <2>2. CacheType'
    BY <1>0, <2>1, ReconcileFacts DEF ReconcileDiscovery
  <2>3. HostType'
    <3>1. owed' \in [AuthIDs -> Pause]
      BY <1>0, <2>1 DEF ReconcileDiscovery, OwedAfter, HostType, Pause, NothingOwed, NumbersOrNone,
         Categories, NoTime
    <3>. QED
      BY <1>0, <2>1, <3>1 DEF HostType
  <2>4. /\ discovery'.issued = discovery.issued /\ discovery'.reconciled = worker.generation
        /\ LifecycleType'
    BY <1>0, <2>1, RouterAssumption DEF ReconcileDiscovery, LifecycleType, WorkerType, WorkerRecord
  <2>5. worker' \in WorkerRecord /\ worker'.pc = "signalling" /\ worker'.generation = worker.generation
    <3>1. Replaced(worker.listing) \cup Changed(worker.listing) \in SUBSET AuthIDs
      BY DEF Replaced, Changed, Members
    <3>. QED
      BY <1>0, <1>f, <2>1, <3>1 DEF WorkerRecord
  <2>6. WorkerType'
    BY <1>0, <2>4, <2>5 DEF WorkerType, PassPCs, PollPCs, ReadPCs
  <2>. QED
    BY <1>0, <2>1, <1>e, <2>2, <2>3, <2>4, <2>6 DEF TypeInv, GateType
<1>9. CASE WorkerSuperseded
  <2>1. queue' \in Queues
    BY <1>0, <1>9, RouterAssumption DEF WorkerSuperseded, Requeue, QueueAll, Queues
  <2>2. WorkerType'
    BY <1>0, <1>9, <1>g, WorkerMoves DEF WorkerSuperseded
  <2>. QED
    BY <1>9, <1>a, <1>b, <1>c, <1>d, <1>e, <2>1, <2>2 DEF WorkerSuperseded, TypeInv
<1>10. CASE WorkerSignal
  <2>1. queue' \in Queues
    BY <1>0, <1>10, RouterAssumption DEF WorkerSignal, QueueRevisions, Queues
  <2>2. Selected(worker) \in SUBSET AuthIDs /\ Selected(worker) \subseteq DOMAIN worker.listing
    BY <1>0, ListingDomain DEF Selected
  <2>3. worker' \in WorkerRecord /\ worker'.pc = "passing" /\ worker'.generation = worker.generation
        /\ worker'.todo = Selected(worker) /\ worker'.listing = worker.listing
        /\ discovery' = discovery
    BY <1>0, <1>10, <1>f, <2>2 DEF WorkerSignal, WorkerRecord
  <2>4. WorkerType'
    BY <1>0, <2>2, <2>3 DEF WorkerType, PassPCs, PollPCs, ReadPCs
  <2>. QED
    BY <1>10, <1>a, <1>b, <1>c, <1>d, <1>e, <2>1, <2>4 DEF WorkerSignal, TypeInv
<1>11. CASE WorkerNext
  <2> DEFINE id == Min(worker.todo)
             check == CheckOnly(worker, id)
             intent == ~worker.all /\ id \in worker.revisions
             next == [NoPoll EXCEPT !.id = id, !.check = check, !.intent = intent]
  <2>1. /\ worker.pc = "passing" /\ worker.todo # {} /\ discovery' = discovery
        /\ worker' = [worker EXCEPT !.pc = IF check THEN "claiming" ELSE "beginning",
                                    !.todo = @ \ {id}, !.poll = next]
    BY <1>11 DEF WorkerNext
  <2>2. worker.todo \in SUBSET AuthIDs /\ worker.todo \subseteq DOMAIN worker.listing
    BY <1>0, <2>1 DEF WorkerType, WorkerRecord, PassPCs
  <2>3. id \in worker.todo /\ id \in Nat
    BY <2>1, <2>2, MinOfNaturals, AuthIDsAssumption
  <2>4. check \in BOOLEAN /\ intent \in BOOLEAN
    BY DEF CheckOnly
  <2> HIDE DEF id, check, intent
  <2>5. next \in PollRecord /\ next.id = id
    BY <2>3, <2>4 DEF NoPoll, PollRecord, Token, PollResult, NumbersOrNone
  <2> HIDE DEF next
  <2>6. /\ worker' \in WorkerRecord /\ worker'.pc \in {"claiming", "beginning"}
        /\ worker'.generation = worker.generation /\ worker'.listing = worker.listing
        /\ worker'.todo \subseteq worker.todo /\ worker'.poll = next
    BY <1>0, <2>1, <2>5 DEF WorkerRecord, BusyPCs, PollPCs
  <2>7. WorkerType'
    BY <1>0, <2>1, <2>2, <2>3, <2>5, <2>6 DEF WorkerType, PassPCs, PollPCs, ReadPCs, poll
  <2>. QED
    BY <1>0, <1>11, <1>a, <1>b, <1>c, <1>d, <1>e, <2>7 DEF WorkerNext, TypeInv
<1>12. CASE WorkerPassEnds
  <2>1. WorkerType'
    BY <1>0, <1>12, <1>g, WorkerMoves DEF WorkerPassEnds
  <2>. QED
    BY <1>0, <1>12, <1>a, <1>b, <1>c, <1>d, <1>e, <2>1 DEF WorkerPassEnds, TypeInv
<1>13. CASE WorkerFinish
  <2>1. queue' \in Queues
    BY <1>0, <1>13, RouterAssumption DEF WorkerFinish, Finished, Queues
  <2>2. WorkerType'
    BY <1>0, <1>13, <1>f, WaitingType, RouterAssumption DEF WorkerFinish, LifecycleType
  <2>. QED
    BY <1>13, <1>a, <1>b, <1>c, <1>d, <1>e, <2>1, <2>2 DEF WorkerFinish, TypeInv
<1>. QED
  BY <1>1, <1>2, <1>3, <1>4, <1>5, <1>6, <1>7, <1>8, <1>9, <1>10, <1>11, <1>12, <1>13 DEF WorkerStep

\* The steps of a poll keep the types.
LEMMA PollKeepsTypes == TypeInv /\ PollStep => TypeInv'
<1> SUFFICES ASSUME TypeInv, PollStep PROVE TypeInv'
  OBVIOUS
<1>0. /\ CacheType /\ HostType /\ LifecycleType /\ WorkerType /\ GateType /\ RequestType
      /\ now \in Nat /\ worker \in WorkerRecord /\ queue \in Queues
  BY DEF TypeInv, HostType, WorkerType, LifecycleType
<1> USE DEF lifecycleVars, environment, cacheVars
<1>a. UNCHANGED cacheVars => CacheType'
  BY <1>0 DEF CacheType
<1>b. UNCHANGED environment => HostType'
  BY <1>0 DEF HostType
<1>c. UNCHANGED <<discovery, lifecycle, config>> /\ queue' \in Queues => LifecycleType'
  BY <1>0 DEF LifecycleType
<1>d. UNCHANGED <<gates, discovery>> => GateType'
  BY <1>0 DEF GateType
<1>e. UNCHANGED <<requests, correlations>> => RequestType'
  BY <1>0 DEF RequestType
<1>f. worker.pc \in PollPCs =>
         /\ poll \in PollRecord /\ poll.token \in Token
         /\ poll.id \in AuthIDs /\ poll.id \in DOMAIN worker.listing
         /\ worker.listing[poll.id] \in ListedAuth
         /\ worker.config.pollInterval \in Nat
  <2>1. poll \in PollRecord /\ poll.token \in Token /\ worker.listing \in HostListings
        /\ worker.config.pollInterval \in Nat
    BY <1>0, SettingsTypes DEF WorkerRecord, PollRecord, poll
  <2>. QED
    BY <1>0, <2>1, ListingDomain DEF WorkerType
<1>g. worker.pc \in PollPCs => disk[poll.id] \in AuthFile
  BY <1>0, <1>f DEF HostType
<1>h. worker.pc \in ReadPCs => poll.token.revision \in Numbers
  BY <1>0, <1>f DEF WorkerType, ReadPCs, PollPCs, Token, NumbersOrNone
<1>i. {"claiming", "beginning", "reading"} \cup ReadPCs \subseteq PollPCs
      /\ PollPCs \subseteq IdlePCs \cup BusyPCs
  BY DEF ReadPCs, PollPCs, BusyPCs
<1>j. /\ {"binding", "checking", "attempting", "noting", "fetching", "settling"} = ReadPCs
  BY DEF ReadPCs
<1>1. CASE PollClaim
  <2>1. worker.pc = "claiming" /\ worker' = [worker EXCEPT !.pc = "beginning"]
        /\ discovery' = discovery
    BY <1>1 DEF PollClaim
  <2>2. CacheType'
    BY <1>0, <1>1, <1>f, <1>i, <2>1, ClaimFacts DEF PollClaim, ClaimRevisionCheck, RevisionCheckClaimable
  <2>3. WorkerType'
    BY <1>0, <1>i, <2>1, WorkerMoves
  <2>. QED
    BY <1>0, <1>1, <1>b, <1>c, <1>d, <1>e, <2>2, <2>3 DEF PollClaim, TypeInv
<1>2. CASE PollDefer
  <2>1. worker.pc = "claiming" /\ EndPoll /\ discovery' = discovery
        /\ queue' = IF Cancelled THEN queue
                    ELSE Defer(queue, poll.id, IF Held(poll.id) THEN RevisionCheckDue(poll.id) ELSE now)
    BY <1>2 DEF PollDefer
  <2>2. (IF Held(poll.id) THEN RevisionCheckDue(poll.id) ELSE now) \in Nat
    BY <1>0, <1>f, <1>i, <2>1, SampleKinds DEF RevisionCheckDue, AtLeast
  <2>3. queue' \in Queues
    BY <1>0, <1>f, <1>i, <2>1, <2>2, QueueTypes
  <2>4. WorkerType'
    BY <1>0, <1>i, <2>1, EndPollType
  <2>. QED
    BY <1>2, <1>a, <1>b, <1>c, <1>d, <1>e, <2>3, <2>4 DEF PollDefer, TypeInv
<1>3. CASE PollBegin
  <2>1. CASE PollBegins(poll.id)
    <3> DEFINE token == [identity |-> worker.listing[poll.id].identity, revision |-> None,
                         generation |-> samples[poll.id].generation,
                         incarnation |-> samples[poll.id].incarnation]
               next == [poll EXCEPT !.startedAt = now, !.token = token]
    <3>1. worker.pc = "beginning" /\ discovery' = discovery
          /\ worker' = [worker EXCEPT !.pc = "reading", !.poll.startedAt = now, !.poll.token = token]
      BY <1>3, <2>1 DEF PollBegin
    <3>2. token \in Token /\ token.identity = worker.listing[poll.id].identity
      BY <1>0, <1>f, <1>i, <3>1, SampleKinds DEF Token, NumbersOrNone, ListedAuth
    <3> HIDE DEF token
    <3>3. next \in PollRecord /\ next.id = poll.id /\ next.token = token
      BY <1>0, <1>f, <1>i, <3>1, <3>2 DEF PollRecord
    <3>4. worker' = [worker EXCEPT !.pc = "reading", !.poll = next]
      BY <3>1 DEF poll
    <3> HIDE DEF next
    <3>5. worker' \in WorkerRecord /\ worker'.pc = "reading" /\ worker'.poll = next
          /\ worker'.todo = worker.todo /\ worker'.listing = worker.listing
          /\ worker'.generation = worker.generation
      BY <1>0, <1>i, <3>3, <3>4 DEF WorkerRecord
    <3>6. WorkerType'
      BY <1>0, <1>f, <1>i, <3>1, <3>2, <3>3, <3>5 DEF WorkerType, PassPCs, ReadPCs, poll
    <3>. QED
      BY <1>0, <1>3, <1>a, <1>b, <1>c, <1>d, <1>e, <3>6 DEF PollBegin, TypeInv
  <2>2. CASE ~PollBegins(poll.id)
    <3>1. WorkerType'
      BY <1>0, <1>3, <1>i, <2>2, EndPollType DEF PollBegin
    <3>. QED
      BY <1>0, <1>3, <1>a, <1>b, <1>c, <1>d, <1>e, <3>1 DEF PollBegin, TypeInv
  <2>. QED
    BY <2>1, <2>2
<1>4. CASE PollRead
  <2> DEFINE token == [poll.token EXCEPT !.revision = disk[poll.id].revision]
             next == [poll EXCEPT !.token = token, !.account = disk[poll.id].identity]
  <2>1. worker.pc = "reading" /\ discovery' = discovery /\ disk[poll.id].revision # None
        /\ worker' = [worker EXCEPT !.pc = "binding", !.poll.token.revision = disk[poll.id].revision,
                                    !.poll.account = disk[poll.id].identity]
    BY <1>4 DEF PollRead
  <2>2. /\ disk[poll.id].identity \in Numbers /\ disk[poll.id].identity \in Nat
        /\ disk[poll.id].revision \in NumbersOrNone
    BY <1>g, <1>i, <2>1, RouterAssumption DEF AuthFile, Numbers
  <2>3. token \in Token /\ token.identity = poll.token.identity /\ token.revision # None
    BY <1>f, <1>i, <2>1, <2>2 DEF Token
  <2> HIDE DEF token
  <2>4. next \in PollRecord /\ next.id = poll.id /\ next.token = token
        /\ next.account = disk[poll.id].identity
    BY <1>f, <1>i, <2>1, <2>2, <2>3 DEF PollRecord
  <2>5. worker' = [worker EXCEPT !.pc = "binding", !.poll = next]
    BY <2>1 DEF poll, token
  <2> HIDE DEF next
  <2>6. worker' \in WorkerRecord /\ worker'.pc = "binding" /\ worker'.poll = next
        /\ worker'.todo = worker.todo /\ worker'.listing = worker.listing
        /\ worker'.generation = worker.generation
    BY <1>0, <1>i, <1>j, <2>4, <2>5 DEF WorkerRecord
  <2>7. WorkerType'
    BY <1>0, <1>f, <1>i, <2>1, <2>2, <2>3, <2>4, <2>6 DEF WorkerType, PassPCs, ReadPCs, poll
  <2>. QED
    BY <1>0, <1>4, <1>a, <1>b, <1>c, <1>d, <1>e, <2>7 DEF PollRead, TypeInv
<1>5. CASE PollReadFails \/ PollReadNoToken
  <2>1. worker.pc = "reading" /\ EndPoll /\ UNCHANGED <<discovery, lifecycle, config, gates, requests, correlations>>
        /\ (NotePollFailure("auth_get") \/ NotePollFailure("missing_token"))
    BY <1>5 DEF PollReadFails, PollReadNoToken
  <2>2. CacheType'
    <3>1. "auth_get" \in Categories /\ "missing_token" \in Categories
      BY DEF Categories
    <3>. QED
      BY <1>0, <1>a, <1>f, <1>i, <2>1, <3>1, NoteFacts DEF NotePollFailure
  <2>3. queue' \in Queues
    <3>1. now + RetryDelay \in Nat
      BY <1>0, RouterAssumption
    <3>. QED
      BY <1>0, <1>5, <1>f, <1>i, <2>1, <3>1, QueueTypes DEF PollReadFails, PollReadNoToken
  <2>4. HostType'
    BY <1>0, <1>5, RouterAssumption DEF PollReadFails, PollReadNoToken, HostType, Fault
  <2>5. WorkerType'
    BY <1>0, <1>i, <2>1, EndPollType
  <2>. QED
    BY <1>c, <1>d, <1>e, <2>1, <2>2, <2>3, <2>4, <2>5 DEF TypeInv
<1>6. CASE PollBind
  <2>1. CASE BindAllowed(poll.id, poll.token)
    <3>1. /\ worker.pc = "binding" /\ discovery' = discovery
          /\ BindRevision(poll.id, poll.token, poll.token.revision)
          /\ worker' = [worker EXCEPT !.pc = IF poll.check THEN "checking" ELSE "attempting",
                                      !.poll.token.incarnation = samples'[poll.id].incarnation]
      BY <1>6, <2>1 DEF PollBind
    <3>2. CacheType' /\ samples'[poll.id].incarnation \in Nat
      <4>1. CacheType'
        BY <1>0, <1>f, <1>h, <1>i, <1>j, <3>1, BindFacts
      <4>2. samples'[poll.id] \in Entry \cup {NoSample}
        BY <1>f, <1>i, <1>j, <3>1, <4>1 DEF CacheType
      <4>. QED
        BY <4>1, <4>2 DEF Entry, NoSample
    <3> DEFINE token == [poll.token EXCEPT !.incarnation = samples'[poll.id].incarnation]
               next == [poll EXCEPT !.token = token]
               pc == IF poll.check THEN "checking" ELSE "attempting"
    <3>3. token \in Token /\ token.identity = poll.token.identity /\ token.revision = poll.token.revision
      BY <1>f, <1>i, <1>j, <3>1, <3>2 DEF Token
    <3>4. worker' = [worker EXCEPT !.pc = pc, !.poll = next]
      BY <3>1 DEF poll
    <3> HIDE DEF token
    <3>5. next \in PollRecord /\ next.id = poll.id /\ next.token = token
          /\ next.account = poll.account
      BY <1>f, <1>i, <1>j, <3>1, <3>3 DEF PollRecord
    <3>6. pc \in {"checking", "attempting"}
      OBVIOUS
    <3> HIDE DEF next, pc
    <3>7. worker' \in WorkerRecord /\ worker'.pc = pc /\ worker'.poll = next
          /\ worker'.todo = worker.todo /\ worker'.listing = worker.listing
          /\ worker'.generation = worker.generation
      BY <1>0, <1>i, <1>j, <3>4, <3>5, <3>6 DEF WorkerRecord
    <3>8. WorkerType'
      BY <1>0, <1>f, <1>h, <1>i, <3>1, <3>3, <3>5, <3>6, <3>7 DEF WorkerType, PassPCs, ReadPCs, poll
    <3>. QED
      BY <1>0, <1>6, <1>b, <1>c, <1>d, <1>e, <3>2, <3>8 DEF PollBind, TypeInv
  <2>2. CASE ~BindAllowed(poll.id, poll.token)
    <3>1. WorkerType'
      BY <1>0, <1>6, <1>i, <1>j, <2>2, EndPollType DEF PollBind
    <3>. QED
      BY <1>0, <1>6, <1>a, <1>b, <1>c, <1>d, <1>e, <2>2, <3>1 DEF PollBind, TypeInv
  <2>. QED
    BY <2>1, <2>2
<1>7. CASE PollCheck \/ PollNote
  <2>1. WorkerType'
    BY <1>0, <1>7, <1>i, <1>j, WorkerMoves, EndPollType DEF PollCheck, PollNote
  <2>. QED
    BY <1>0, <1>7, <1>a, <1>b, <1>c, <1>d, <1>e, <2>1 DEF PollCheck, PollNote, TypeInv
<1>8. CASE PollAttempt
  <2>1. WorkerType'
    BY <1>0, <1>8, <1>i, <1>j, WorkerMoves, EndPollType DEF PollAttempt
  <2>2. CacheType'
    BY <1>0, <1>8, <1>a, <1>f, <1>i, <1>j, ClaimFacts DEF PollAttempt, RecordUsageAttempt, AttemptAllowed
  <2>. QED
    BY <1>0, <1>8, <1>b, <1>c, <1>d, <1>e, <2>1, <2>2 DEF PollAttempt, TypeInv
<1>9. ASSUME NEW result \in PollResult, worker.pc = "fetching", discovery' = discovery,
             worker' = [worker EXCEPT !.pc = "settling", !.poll.result = result]
      PROVE  WorkerType'
  <2> DEFINE next == [poll EXCEPT !.result = result]
  <2>1. next \in PollRecord /\ next.id = poll.id /\ next.token = poll.token
        /\ next.account = poll.account
    BY <1>9, <1>f, <1>i, <1>j DEF PollRecord
  <2>2. worker' = [worker EXCEPT !.pc = "settling", !.poll = next]
    BY <1>9 DEF poll
  <2> HIDE DEF next
  <2>3. worker' \in WorkerRecord /\ worker'.pc = "settling" /\ worker'.poll = next
        /\ worker'.todo = worker.todo /\ worker'.listing = worker.listing
        /\ worker'.generation = worker.generation
    BY <1>0, <1>i, <1>j, <2>1, <2>2 DEF WorkerRecord
  <2>. QED
    BY <1>0, <1>9, <1>i, <2>1, <2>3 DEF WorkerType, PassPCs, ReadPCs, poll
<1>10. CASE PollFetch
  <2>1. PICK reading \in Readings(poll.account) :
           worker' = [worker EXCEPT !.pc = "settling",
                                    !.poll.result = [kind |-> "usage", batch |-> reading]]
    BY <1>10 DEF PollFetch
  <2>2. poll.account \in Numbers
    BY <1>0, <1>10 DEF WorkerType, ReadPCs, PollFetch
  <2>3. [kind |-> "usage", batch |-> reading] \in PollResult
    BY <1>0, <2>1, <2>2, ReadingFacts DEF PollResult
  <2>4. WorkerType'
    BY <1>9, <1>10, <2>1, <2>3 DEF PollFetch
  <2>. QED
    BY <1>0, <1>10, <1>a, <1>b, <1>c, <1>d, <1>e, <2>4 DEF PollFetch, TypeInv
<1>11. CASE PollFetchFails
  <2>1. HostType'
    <3>1. (Fault \/ UNCHANGED spent) /\ UNCHANGED <<now, disk, owed>>
      BY <1>11 DEF PollFetchFails
    <3>. QED
      BY <1>0, <3>1, RouterAssumption DEF HostType, Fault
  <2>2. WorkerType'
    <3>1. \A failure \in FailureKinds : [kind |-> "failure", failure |-> failure] \in PollResult
      BY DEF PollResult
    <3>. QED
      BY <1>0, <1>9, <1>11, <1>i, <1>j, <3>1, EndPollType DEF PollFetchFails
  <2>. QED
    BY <1>0, <1>11, <1>a, <1>c, <1>d, <1>e, <2>1, <2>2 DEF PollFetchFails, TypeInv
<1>12. CASE PollCommit
  <2>1. worker.pc = "settling" /\ poll.result.kind = "usage" /\ EndPoll
        /\ UNCHANGED <<now, disk, spent, discovery, queue, lifecycle, config, gates, requests, correlations>>
    BY <1>12 DEF PollCommit
  <2>2. poll.result.batch \in Batch /\ poll.startedAt \in Nat
    BY <1>f, <1>i, <1>j, <2>1 DEF PollRecord, PollResult
  <2>3. CacheType'
    BY <1>0, <1>12, <1>a, <1>f, <1>i, <1>j, <2>1, <2>2, CommitFacts DEF PollCommit
  <2>4. HostType'
    <3>1. NothingOwed \in Pause
      BY DEF NothingOwed, Pause, NumbersOrNone, Categories, NoTime
    <3>2. owed' = owed \/ owed' = [owed EXCEPT ![poll.id] = NothingOwed]
      BY <1>12 DEF PollCommit
    <3>3. owed' \in [AuthIDs -> Pause]
      BY <1>0, <3>1, <3>2 DEF HostType
    <3>. QED
      BY <1>0, <2>1, <3>3 DEF HostType
  <2>5. WorkerType'
    BY <1>0, <1>i, <1>j, <2>1, EndPollType
  <2>. QED
    BY <1>0, <1>c, <1>d, <1>e, <2>1, <2>3, <2>4, <2>5 DEF TypeInv
<1>13. CASE PollFail
  <2>1. worker.pc = "settling" /\ poll.result.kind = "failure" /\ EndPoll
        /\ UNCHANGED <<now, disk, spent, discovery, queue, lifecycle, config, gates, requests, correlations>>
    BY <1>13 DEF PollFail
  <2>2. poll.result.failure \in FailureKinds /\ poll.result.failure.category \in Categories
    BY <1>f, <1>i, <1>j, <2>1, RouterAssumption DEF PollRecord, PollResult
  <2>3. CacheType'
    BY <1>0, <1>13, <1>a, <1>f, <1>i, <1>j, <2>1, <2>2, FailFacts DEF PollFail
  <2>4. HostType'
    <3>1. samples'[poll.id].nextRefreshAt \in Nat
      <4>1. samples'[poll.id] \in Entry \cup {NoSample}
        BY <1>f, <1>i, <1>j, <2>1, <2>3 DEF CacheType
      <4>. QED
        BY <4>1 DEF Entry, NoSample, NoTime
    <3>2. [revision |-> poll.token.revision, category |-> poll.result.failure.category,
           until |-> samples'[poll.id].nextRefreshAt] \in Pause
      BY <1>h, <1>j, <2>1, <2>2, <3>1 DEF Pause, NumbersOrNone
    <3>. QED
      BY <1>0, <1>13, <2>1, <3>2 DEF PollFail, HostType
  <2>5. WorkerType'
    BY <1>0, <1>i, <1>j, <2>1, EndPollType
  <2>. QED
    BY <1>0, <1>c, <1>d, <1>e, <2>1, <2>3, <2>4, <2>5 DEF TypeInv
<1>. QED
  BY <1>1, <1>2, <1>3, <1>4, <1>5, <1>6, <1>7, <1>8, <1>10, <1>11, <1>12, <1>13 DEF PollStep

LEMMA GateKeepsTypes == TypeInv /\ (\E g \in Gates : GateStep(g)) => TypeInv'
<1> SUFFICES ASSUME TypeInv, NEW g \in Gates, GateStep(g) PROVE TypeInv'
  OBVIOUS
<1>0. /\ CacheType /\ HostType /\ LifecycleType /\ WorkerType /\ GateType /\ RequestType
      /\ now \in Nat /\ queue \in Queues /\ gates[g] \in GateRecord
      /\ gates[g].listing \in HostListings /\ gates[g].todo \in SUBSET AuthIDs
      /\ config \in Settings /\ gates[g].generation <= discovery.issued
  BY DEF TypeInv, HostType, GateType, LifecycleType, GateRecord, Settings
<1> USE DEF lifecycleVars, environment, cacheVars
<1>a. UNCHANGED cacheVars => CacheType'
  BY <1>0 DEF CacheType
<1>b. UNCHANGED environment => HostType'
  BY <1>0 DEF HostType
<1>c. UNCHANGED <<discovery, lifecycle, config>> /\ queue' \in Queues => LifecycleType'
  BY <1>0 DEF LifecycleType
<1>d. UNCHANGED worker /\ discovery'.issued \in Nat /\ discovery'.issued >= discovery.issued
      => WorkerType'
  BY <1>0 DEF WorkerType, WorkerRecord, poll, LifecycleType
<1>e. UNCHANGED <<requests, correlations>> => RequestType'
  BY <1>0 DEF RequestType
<1>f. discovery.issued \in Nat /\ discovery.reconciled \in Nat
  BY <1>0, RouterAssumption DEF LifecycleType
<1>g. NoGate \in GateRecord /\ NoGate.generation = 0
  <2>1. NoListing \in HostListings /\ "unknown" \in Families
    BY <1>0, ListingType DEF Families
  <2>. QED
    BY <2>1 DEF NoGate, GateRecord, GatePCs, Settings
<1>h. ASSUME NEW record \in GateRecord, gates' = [gates EXCEPT ![g] = record],
             record.generation <= discovery'.issued,
             discovery'.issued \in Nat, discovery'.issued >= discovery.issued
      PROVE  GateType'
  <2>1. gates' \in [Gates -> GateRecord]
    BY <1>0, <1>h DEF GateType
  <2>2. ASSUME NEW other \in Gates PROVE gates'[other].generation <= discovery'.issued
    <3>1. gates'[other] = IF other = g THEN record ELSE gates[other]
      BY <1>0, <1>h DEF GateType
    <3>2. gates[other].generation \in Nat /\ gates[other].generation <= discovery.issued
      BY <1>0 DEF GateType, GateRecord
    <3>. QED
      BY <1>f, <1>h, <3>1, <3>2
  <2>. QED
    BY <2>1, <2>2 DEF GateType
<1>1. CASE GateStart(g)
  <2>1. /\ UNCHANGED <<samples, nextIncarnation, now, disk, spent, owed, queue, lifecycle, config,
                       worker, requests, correlations>>
        /\ discovery.issued < MaxListings
        /\ discovery' = [discovery EXCEPT !.issued = @ + 1]
    BY <1>1 DEF GateStart, IssueDiscovery
  <2>2. discovery'.issued = discovery.issued + 1 /\ LifecycleType'
    BY <1>0, <1>f, <2>1, RouterAssumption DEF LifecycleType
  <2>3. PICK model \in RequestModels :
           gates' = [gates EXCEPT ![g] = [NoGate EXCEPT
                 !.pc = "listing", !.family = model.family, !.config = config,
                 !.generation = discovery'.issued,
                 !.stable = {id \in AuthIDs : disk[id].present}]]
    BY <1>1 DEF GateStart
  <2> DEFINE moved == [NoGate EXCEPT
                 !.pc = "listing", !.family = model.family, !.config = config,
                 !.generation = discovery'.issued,
                 !.stable = {id \in AuthIDs : disk[id].present}]
  <2>4. moved \in GateRecord /\ moved.generation = discovery'.issued
    <3>1. /\ model.family \in Families /\ discovery'.issued \in Nat
          /\ {id \in AuthIDs : disk[id].present} \in SUBSET AuthIDs
      BY <1>f, <2>2, <2>3, RouterAssumption
    <3>. QED
      BY <1>0, <1>g, <3>1 DEF GateRecord, GatePCs
  <2>5. GateType'
    <3>1. gates' = [gates EXCEPT ![g] = moved]
      BY <2>3
    <3> HIDE DEF moved
    <3>2. /\ moved.generation <= discovery'.issued
          /\ discovery'.issued \in Nat /\ discovery'.issued >= discovery.issued
      BY <1>f, <2>2, <2>4
    <3>. QED
      BY Zenon, <1>h, <2>4, <3>1, <3>2
  <2>. QED
    BY <1>a, <1>b, <1>d, <1>e, <1>f, <2>1, <2>2, <2>5 DEF TypeInv
<1>2. CASE GateList(g)
  <2>1. /\ UNCHANGED <<samples, nextIncarnation, now, disk, owed, discovery, queue, lifecycle,
                       config, worker, requests, correlations>>
        /\ Fault \/ UNCHANGED spent
    BY <1>2 DEF GateList
  <2>2. HostType'
    BY <1>0, <2>1, RouterAssumption DEF HostType, Fault
  <2> DEFINE listed == [gates[g] EXCEPT !.pc = "reconciling", !.listing = Listing]
  <2>3. listed \in GateRecord /\ listed.generation = gates[g].generation
    BY <1>0, ListingType DEF GateRecord, GatePCs
  <2>4. Answered("passed") \in GateRecord /\ Answered("passed").generation = 0
    BY <1>g DEF Answered, GateRecord, GatePCs
  <2>5. gates' = [gates EXCEPT ![g] = listed] \/ gates' = [gates EXCEPT ![g] = Answered("passed")]
    BY <1>0, <1>2 DEF GateList, GateType
  <2> HIDE DEF listed
  <2>6. GateType'
    BY <1>0, <1>f, <1>h, <2>1, <2>3, <2>4, <2>5
  <2>. QED
    BY <1>0, <1>a, <1>c, <1>d, <1>e, <1>f, <2>1, <2>2, <2>6 DEF TypeInv
<1>3. CASE GateReconcile(g)
  <2>1. UNCHANGED <<now, disk, spent, queue, lifecycle, config, worker, requests, correlations>>
    BY <1>3 DEF GateReconcile
  <2>2. CASE Superseded(gates[g].generation)
    <3> DEFINE moved == [gates[g] EXCEPT !.pc = "deciding"]
    <3>1. moved \in GateRecord /\ moved.generation = gates[g].generation
      BY <1>0 DEF GateRecord, GatePCs
    <3>2. /\ UNCHANGED <<samples, nextIncarnation, owed, discovery>>
          /\ gates' = [gates EXCEPT ![g] = moved]
      BY <1>3, <2>2 DEF GateReconcile
    <3> HIDE DEF moved
    <3>3. GateType'
      <4>1. /\ moved.generation <= discovery'.issued
            /\ discovery'.issued \in Nat /\ discovery'.issued >= discovery.issued
        BY <1>0, <1>f, <3>1, <3>2
      <4>. QED
        BY Zenon, <1>h, <4>1, <3>1, <3>2
    <3>. QED
      BY <1>0, <1>a, <1>b, <1>c, <1>d, <1>e, <1>f, <2>1, <3>2, <3>3 DEF TypeInv
  <2>3. CASE ~Superseded(gates[g].generation)
    <3> DEFINE moved == [gates[g] EXCEPT !.pc = "queueing", !.todo = DOMAIN gates[g].listing,
                                        !.replaced = Replaced(gates[g].listing),
                                        !.changed = Changed(gates[g].listing)]
    <3>1. /\ DOMAIN gates[g].listing \in SUBSET AuthIDs
          /\ Replaced(gates[g].listing) \in SUBSET AuthIDs
          /\ Changed(gates[g].listing) \in SUBSET AuthIDs
      BY <1>0, ListingDomain DEF Replaced, Changed, Members
    <3>2. moved \in GateRecord /\ moved.generation = gates[g].generation
      BY <1>0, <3>1 DEF GateRecord, GatePCs
    <3>3. ReconcileDiscovery(gates[g].generation, gates[g].listing)
          /\ gates' = [gates EXCEPT ![g] = moved]
      BY <1>3, <2>3 DEF GateReconcile
    <3> HIDE DEF moved
    <3>4. CacheType'
      BY <1>0, <3>3, ReconcileFacts DEF ReconcileDiscovery
    <3>5. HostType'
      <4>1. owed' \in [AuthIDs -> Pause]
        BY <1>0, <3>3 DEF ReconcileDiscovery, OwedAfter, HostType, Pause, NothingOwed, NumbersOrNone,
           Categories, NoTime
      <4>. QED
        BY <1>0, <2>1, <4>1 DEF HostType
    <3>6. discovery'.issued = discovery.issued /\ LifecycleType'
      BY <1>0, <1>f, <2>1, <3>3, RouterAssumption
      DEF ReconcileDiscovery, LifecycleType, GateType, GateRecord
    <3>7. GateType'
      <4>1. /\ moved.generation <= discovery'.issued
            /\ discovery'.issued \in Nat /\ discovery'.issued >= discovery.issued
        BY <1>0, <1>f, <3>2, <3>6
      <4>. QED
        BY Zenon, <1>h, <4>1, <3>2, <3>3
    <3>. QED
      BY <1>d, <1>e, <1>f, <2>1, <3>4, <3>5, <3>6, <3>7 DEF TypeInv
  <2>. QED
    BY <2>2, <2>3
<1>4. CASE GateQueue(g)
  <2> DEFINE id == Min(gates[g].todo)
             check == \/ id \in gates[g].changed
                      \/ id \in gates[g].replaced /\ ~samples[id].windows["five_hour"].valid
             moved == [gates[g] EXCEPT !.todo = @ \ {id}]
  <2>1. /\ gates[g].todo # {}
        /\ UNCHANGED <<now, disk, spent, owed, discovery, lifecycle, config, worker, requests,
                       correlations>>
        /\ QueueFromRequest({id}, IF check THEN {id} ELSE {}, gates[g].config)
        /\ gates' = [gates EXCEPT ![g] = moved]
    BY <1>4 DEF GateQueue
  <2>2. id \in AuthIDs
    BY <1>0, <2>1, MinOfNaturals, AuthIDsAssumption
  <2>3. moved \in GateRecord /\ moved.generation = gates[g].generation
    BY <1>0 DEF GateRecord
  <2> HIDE DEF moved, id, check
  <2>4. CacheType' /\ queue' \in Queues
    BY <1>0, <2>1, <2>2, RequestQueues
  <2>5. GateType'
    <3>1. /\ moved.generation <= discovery'.issued
          /\ discovery'.issued \in Nat /\ discovery'.issued >= discovery.issued
      BY <1>0, <1>f, <2>1, <2>3
    <3>. QED
      BY Zenon, <1>h, <3>1, <2>1, <2>3
  <2>. QED
    BY <1>b, <1>c, <1>d, <1>e, <1>f, <2>1, <2>4, <2>5 DEF TypeInv
<1>5. CASE GateDecide(g)
  <2>1. /\ UNCHANGED <<samples, nextIncarnation, now, disk, spent, owed, discovery, queue,
                       lifecycle, config, worker, requests, correlations>>
        /\ gates' = [gates EXCEPT ![g] = Answered("rejected")]
           \/ gates' = [gates EXCEPT ![g] = Answered("passed")]
    BY <1>5 DEF GateDecide
  <2>2. \A verdict \in {"rejected", "passed"} :
           Answered(verdict) \in GateRecord /\ Answered(verdict).generation = 0
    BY <1>g DEF Answered, GateRecord, GatePCs
  <2>3. GateType'
    <3>1. PICK verdict \in {"rejected", "passed"} : gates' = [gates EXCEPT ![g] = Answered(verdict)]
      BY <2>1
    <3>2. Answered(verdict) \in GateRecord /\ Answered(verdict).generation = 0
      BY <2>2
    <3>3. discovery'.issued \in Nat /\ discovery'.issued >= discovery.issued /\ 0 <= discovery'.issued
      BY <1>f, <2>1
    <3>. QED
      BY <1>h, <3>1, <3>2, <3>3
  <2>. QED
    BY <1>0, <1>a, <1>b, <1>c, <1>d, <1>e, <1>f, <2>1, <2>3 DEF TypeInv
<1>. QED
  BY <1>1, <1>2, <1>3, <1>4, <1>5 DEF GateStep

\* The after-auth hook leaves the request with the entry of its credential or
\* with none, and other requests with the correlation they had or with none.
LEMMA RecordFacts ==
    ASSUME CacheType, now \in Nat, correlations \in [Requests -> CorrelationOrNone],
           NEW r \in Requests, NEW id \in AuthIDs, RecordSelectedAuth(r, id)
    PROVE  /\ correlations' \in [Requests -> CorrelationOrNone]
           /\ \A other \in Requests \ {r} : correlations'[other] \in {correlations[other], NoCorrelation}
           /\ \/ correlations'[r] = NoCorrelation
              \/ /\ Held(id)
                 /\ correlations'[r].id = id
                 /\ correlations'[r].incarnation = samples[id].incarnation
<1> DEFINE dropped == [correlations EXCEPT ![r] = NoCorrelation]
           entry == [id |-> id, generation |-> samples[id].generation,
                     incarnation |-> samples[id].incarnation, expiresAt |-> now + CorrelationTTL]
<1>1. dropped \in [Requests -> CorrelationOrNone] /\ dropped[r] = NoCorrelation
      /\ \A other \in Requests \ {r} : dropped[other] = correlations[other]
  BY DEF CorrelationOrNone
<1>2. correlations' = IF Held(id) THEN [Evicted(Live(dropped)) EXCEPT ![r] = entry] ELSE dropped
  BY DEF RecordSelectedAuth
<1> HIDE DEF dropped
<1>3. CASE Held(id)
  <2>1. entry \in Correlation /\ entry.id = id /\ entry.incarnation = samples[id].incarnation
    BY <1>3, SampleKinds, RouterAssumption DEF Correlation, Entry
  <2> HIDE DEF entry
  <2> DEFINE live == Live(dropped)
             room == Evicted(live)
  <2>2. /\ live \in [Requests -> CorrelationOrNone]
        /\ \A other \in Requests : live[other] \in {dropped[other], NoCorrelation}
    BY <1>1 DEF Live, CorrelationOrNone
  <2> HIDE DEF live
  <2>3. /\ room \in [Requests -> CorrelationOrNone]
        /\ \A other \in Requests : room[other] \in {live[other], NoCorrelation}
    <3> DEFINE kept == {o \in Requests : live[o] # NoCorrelation}
               first == CHOOSE o \in kept : \A p \in kept :
                           \/ live[o].expiresAt < live[p].expiresAt
                           \/ live[o].expiresAt = live[p].expiresAt /\ o <= p
    <3>1. room \in {[live EXCEPT ![first] = NoCorrelation], live}
      BY DEF Evicted
    <3> HIDE DEF first, room
    <3>. QED
      BY <2>2, <3>1 DEF CorrelationOrNone
  <2> HIDE DEF room
  <2>4. correlations' = [room EXCEPT ![r] = entry]
    BY <1>2, <1>3 DEF room, live
  <2>. QED
    BY <1>1, <1>3, <2>1, <2>2, <2>3, <2>4 DEF CorrelationOrNone
<1>4. CASE ~Held(id)
  BY <1>1, <1>2, <1>4
<1>. QED
  BY <1>3, <1>4

\* The steps of a request on its way to and from upstream keep the types.
LEMMA RequestKeepsTypes == TypeInv /\ (\E r \in Requests : RequestStep(r)) => TypeInv'
<1> SUFFICES ASSUME TypeInv, NEW r \in Requests, RequestStep(r) PROVE TypeInv'
  OBVIOUS
<1>0. /\ CacheType /\ HostType /\ LifecycleType /\ WorkerType /\ GateType /\ RequestType
      /\ now \in Nat /\ now > 0 /\ queue \in Queues /\ requests[r] \in RequestRecord
      /\ requests[r].correlation \in CorrelationOrNone /\ requests[r].batch \in Batch
      /\ requests[r].observedAt \in Nat
      /\ correlations \in [Requests -> CorrelationOrNone]
      /\ requests \in [Requests -> RequestRecord]
  BY DEF TypeInv, HostType, RequestType, LifecycleType, RequestRecord
<1> USE DEF lifecycleVars, environment, cacheVars
<1>a. UNCHANGED cacheVars => CacheType'
  BY <1>0 DEF CacheType
<1>b. UNCHANGED <<environment, discovery, queue, lifecycleVars, worker, gates>>
      => HostType' /\ LifecycleType' /\ WorkerType' /\ GateType'
  BY <1>0 DEF HostType, LifecycleType, WorkerType, GateType, poll
<1>c. NoRequest \in RequestRecord /\ NoCorrelation \in CorrelationOrNone
  BY NoWindowsType DEF NoRequest, RequestRecord, CorrelationOrNone
<1>d. ASSUME NEW record \in RequestRecord, requests' = [requests EXCEPT ![r] = record],
             correlations' \in [Requests -> CorrelationOrNone],
             record.pc = "chosen" => record.id \in AuthIDs,
             record.pc \in {"chosen", "upstream"} => record.account \in Numbers,
             record.pc = "observed" => record.correlation \in Correlation
      PROVE  RequestType'
  <2>1. requests' \in [Requests -> RequestRecord]
    BY <1>0, <1>d
  <2>2. \A other \in Requests : requests'[other] = IF other = r THEN record ELSE requests[other]
    BY <1>0, <1>d
  <2>. QED
    BY <1>0, <1>d, <2>1, <2>2 DEF RequestType
<1>1. CASE ChooseAuth(r)
  <2>1. PICK id \in AuthIDs :
           requests' = [requests EXCEPT ![r] = [NoRequest EXCEPT
                           !.pc = "chosen", !.id = id, !.account = disk[id].identity]]
    BY <1>1 DEF ChooseAuth
  <2>2. id \in Nat /\ disk[id].identity \in Numbers /\ disk[id].identity \in Nat
    BY <1>0, AuthIDsAssumption DEF HostType, AuthFile, Numbers
  <2> DEFINE chosen == [NoRequest EXCEPT !.pc = "chosen", !.id = id, !.account = disk[id].identity]
  <2>3. chosen \in RequestRecord /\ chosen.pc = "chosen" /\ chosen.id = id
        /\ chosen.account = disk[id].identity
    BY <1>c, <2>2 DEF RequestRecord
  <2>4. requests' = [requests EXCEPT ![r] = chosen]
    BY <2>1
  <2> HIDE DEF chosen
  <2>5. RequestType'
    BY <1>0, <1>1, <1>d, <2>2, <2>3, <2>4 DEF ChooseAuth
  <2>. QED
    BY <1>1, <1>a, <1>b, <2>5 DEF ChooseAuth, TypeInv
<1>2. CASE AfterAuth(r)
  <2>1. /\ requests[r].pc = "chosen" /\ requests[r].id \in AuthIDs /\ requests[r].account \in Numbers
        /\ \/ RecordSelectedAuth(r, requests[r].id)
           \/ correlations' = [correlations EXCEPT ![r] = NoCorrelation]
    BY <1>0, <1>2 DEF AfterAuth, RequestType
  <2>2. correlations' \in [Requests -> CorrelationOrNone]
    BY <1>0, <1>c, <2>1, RecordFacts
  <2> DEFINE sent == [requests[r] EXCEPT !.pc = "upstream"]
  <2>3. sent \in RequestRecord /\ sent.pc = "upstream" /\ sent.account = requests[r].account
    BY <1>0 DEF RequestRecord
  <2>4. requests' = [requests EXCEPT ![r] = sent]
    BY <1>2 DEF AfterAuth
  <2> HIDE DEF sent
  <2>5. RequestType'
    BY <1>d, <2>1, <2>2, <2>3, <2>4
  <2>. QED
    BY <1>2, <1>a, <1>b, <2>5 DEF AfterAuth, TypeInv
<1>5. CASE Answer(r)
  <2>1. PICK batch \in Headers(requests[r].account) :
           requests' = [requests EXCEPT ![r].pc = "answered", ![r].batch = batch]
    BY <1>5 DEF Answer
  <2>2. requests[r].account \in Numbers /\ correlations' \in [Requests -> CorrelationOrNone]
    BY <1>0, <1>5 DEF Answer, RequestType
  <2>3. batch \in Batch
    BY <1>0, <2>2, HeaderFacts
  <2> DEFINE answered == [requests[r] EXCEPT !.pc = "answered", !.batch = batch]
  <2>4. answered \in RequestRecord /\ answered.pc = "answered"
    BY <1>0, <2>3 DEF RequestRecord
  <2>5. requests' = [requests EXCEPT ![r] = answered]
    BY <1>0, <2>1
  <2> HIDE DEF answered
  <2>6. RequestType'
    BY <1>d, <2>2, <2>4, <2>5
  <2>. QED
    BY <1>5, <1>a, <1>b, <2>6 DEF Answer, TypeInv
<1>3. CASE Respond(r)
  <2>1. ASSUME requests' = [requests EXCEPT ![r] = [NoRequest EXCEPT !.pc = "done"]],
               correlations' \in {correlations, [correlations EXCEPT ![r] = NoCorrelation]}
        PROVE  RequestType'
    <3> DEFINE done == [NoRequest EXCEPT !.pc = "done"]
    <3>1. done \in RequestRecord /\ done.pc = "done"
      BY <1>c DEF RequestRecord
    <3>2. requests' = [requests EXCEPT ![r] = done]
          /\ correlations' \in [Requests -> CorrelationOrNone]
      BY <1>0, <1>c, <2>1
    <3> HIDE DEF done
    <3>. QED
      BY <1>d, <3>1, <3>2
  <2> DEFINE batch == Parsed(requests[r].batch)
  <2>2. ASSUME now < correlations[r].expiresAt,
               requests' = [requests EXCEPT
                     ![r].pc = "observed", ![r].correlation = correlations[r],
                     ![r].batch = batch, ![r].observedAt = now],
               UNCHANGED correlations
        PROVE  RequestType'
    <3>1. batch \in Batch
      BY <1>0, ParsedFacts
    <3> HIDE DEF batch
    <3>2. correlations[r] \in Correlation
      BY <1>0, <2>2 DEF CorrelationOrNone, NoCorrelation, NoTime
    <3> DEFINE observed == [requests[r] EXCEPT !.pc = "observed", !.correlation = correlations[r],
                                               !.batch = batch, !.observedAt = now]
    <3>3. observed \in RequestRecord /\ observed.pc = "observed"
          /\ observed.correlation = correlations[r]
      BY <1>0, <3>1, <3>2 DEF RequestRecord, CorrelationOrNone
    <3>4. requests' = [requests EXCEPT ![r] = observed]
      BY <1>0, <2>2
    <3> HIDE DEF observed
    <3>. QED
      BY <1>0, <1>d, <2>2, <3>2, <3>3, <3>4
  <2>3. RequestType'
    BY <1>3, <2>1, <2>2 DEF Respond
  <2>. QED
    BY <1>3, <1>a, <1>b, <2>3 DEF Respond, TypeInv
<1>4. CASE CommitObservation(r)
  <2> DEFINE seen == requests[r].correlation
             token == [identity |-> None, revision |-> None,
                       generation |-> seen.generation, incarnation |-> seen.incarnation]
             done == [NoRequest EXCEPT !.pc = "done"]
  <2>1. seen \in Correlation /\ seen.id \in AuthIDs
    BY <1>0, <1>4 DEF CommitObservation, RequestType, Correlation
  <2>2. CacheType'
    <3>1. CASE CommitAllowed(seen.id, token)
      <4>1. CommitWindowBatch(seen.id, token, requests[r].batch, requests[r].observedAt, NoTime, FALSE)
        BY <1>4, <3>1 DEF CommitObservation
      <4>2. NoTime \in Nat /\ FALSE \in BOOLEAN
        BY DEF NoTime
      <4> HIDE DEF seen, token
      <4>. QED
        BY <1>0, <2>1, <4>1, <4>2, CommitFacts
    <3>2. CASE ~CommitAllowed(seen.id, token)
      BY <1>4, <1>a, <3>2 DEF CommitObservation
    <3>. QED
      BY <3>1, <3>2
  <2>3. done \in RequestRecord /\ done.pc = "done"
    BY <1>c DEF RequestRecord
  <2>4. requests' = [requests EXCEPT ![r] = done]
        /\ correlations' \in {correlations, [correlations EXCEPT ![r] = NoCorrelation]}
    <3>1. requests' = [requests EXCEPT ![r] = done]
      BY <1>4 DEF CommitObservation
    <3>2. \/ correlations' = [correlations EXCEPT ![r] = IF @ = seen THEN NoCorrelation ELSE @]
          \/ correlations' = correlations
      BY <1>4 DEF CommitObservation
    <3>3. correlations \in [Requests -> CorrelationOrNone]
      BY <1>0 DEF RequestType
    <3> HIDE DEF seen
    <3>. QED
      BY <3>1, <3>2, <3>3
  <2>5. RequestType'
    <3> HIDE DEF done
    <3>1. correlations' \in [Requests -> CorrelationOrNone]
      BY <1>0, <1>c, <2>4
    <3>. QED
      BY <1>d, <2>3, <2>4, <3>1
  <2>. QED
    BY <1>4, <1>b, <2>2, <2>5 DEF CommitObservation, TypeInv
<1>. QED
  BY <1>1, <1>2, <1>3, <1>4, <1>5 DEF RequestStep

\* So do the pick, the configuration, the host's files and the clock.
LEMMA RestKeepsTypes ==
    TypeInv /\ (PickRequest \/ ConfigStep \/ (\E id \in AuthIDs : FileStep(id)) \/ Tick) => TypeInv'
<1> SUFFICES ASSUME TypeInv,
                    PickRequest \/ ConfigStep \/ (\E id \in AuthIDs : FileStep(id)) \/ Tick
             PROVE  TypeInv'
  OBVIOUS
<1>0. /\ CacheType /\ HostType /\ LifecycleType /\ WorkerType /\ GateType /\ RequestType
      /\ now \in Nat /\ queue \in Queues
  BY DEF TypeInv, HostType, LifecycleType
<1> USE DEF lifecycleVars, environment, cacheVars
<1>a. UNCHANGED cacheVars => CacheType'
  BY <1>0 DEF CacheType
<1>b. UNCHANGED environment => HostType'
  BY <1>0 DEF HostType
<1>c. UNCHANGED <<discovery, lifecycle, config>> /\ queue' \in Queues => LifecycleType'
  BY <1>0 DEF LifecycleType
<1>d. UNCHANGED <<worker, discovery>> => WorkerType'
  BY <1>0 DEF WorkerType, poll
<1>e. UNCHANGED <<gates, discovery>> => GateType'
  BY <1>0 DEF GateType
<1>f. UNCHANGED <<requests, correlations>> => RequestType'
  BY <1>0 DEF RequestType
<1>g. (Toggle \/ UNCHANGED spent) /\ UNCHANGED <<now, disk>> /\ owed' \in [AuthIDs -> Pause] => HostType'
  BY <1>0, RouterAssumption DEF HostType, Toggle
<1>h. owed \in [AuthIDs -> Pause] /\ OwedAfter(NoListing) \in [AuthIDs -> Pause]
  BY <1>0 DEF HostType, OwedAfter, Pause, NothingOwed, NumbersOrNone, Categories, NoTime
<1>i. Reconcile(NoListing) => CacheType'
  BY <1>0, ListingType, ReconcileFacts
<1>j. EmptyQueue \in Queues /\ QueueAll(queue) \in Queues
  BY <1>0, RouterAssumption DEF EmptyQueue, QueueAll, Queues, NotDeferred
<1>k. ASSUME UNCHANGED discovery, queue' \in Queues, config' \in Configs,
             lifecycle' \in {"running", "stopping", "stopped"}
      PROVE  LifecycleType'
  BY <1>0, <1>k DEF LifecycleType
<1>l. config \in Configs /\ lifecycle \in {"running", "stopping", "stopped"}
  BY <1>0 DEF LifecycleType
<1>1. CASE PickRequest
  <2>1. PICK candidates \in CandidateLists, model \in RequestModels :
           QueueFromRequest(Pick(Fleet, candidates, model.family, now, config.overage,
                                 DueIDs(config), config.cutoff).queue, {}, config)
    BY <1>1 DEF PickRequest
  <2>2. CacheType' /\ queue' \in Queues
    BY <1>0, <2>1, RequestQueues
  <2>. QED
    BY <1>1, <1>b, <1>c, <1>d, <1>e, <1>f, <2>2 DEF PickRequest, TypeInv
<1>2. CASE Disable \/ Shutdown
  <2>1. /\ Toggle /\ config' \in Configs /\ lifecycle' = "stopping"
        /\ UNCHANGED <<samples, nextIncarnation, now, disk, owed, discovery, queue, worker, gates,
                       requests, correlations>>
    BY <1>2, <1>l DEF Disable, Shutdown
  <2>2. LifecycleType'
    BY <1>0, <1>k, <2>1
  <2>. QED
    BY <1>a, <1>d, <1>e, <1>f, <1>g, <1>h, <2>1, <2>2 DEF TypeInv
<1>3. CASE StopEnds \/ DisableStopped
  <2>1. /\ Toggle \/ UNCHANGED spent
        /\ config' \in Configs /\ lifecycle' = "stopped" /\ queue' \in Queues
        /\ UNCHANGED <<now, disk, discovery, worker, gates, requests, correlations>>
        /\ CacheType' /\ owed' \in [AuthIDs -> Pause]
    BY <1>0, <1>3, <1>a, <1>h, <1>i, <1>j, <1>l DEF StopEnds, DisableStopped
  <2>2. LifecycleType'
    BY <1>k, <2>1
  <2>. QED
    BY <1>d, <1>e, <1>f, <1>g, <2>1, <2>2 DEF TypeInv
<1>4. CASE Enable
  <2>1. /\ Toggle /\ config' \in Configs /\ lifecycle' = "running" /\ queue' \in Queues
        /\ worker' = Waiting
        /\ UNCHANGED <<samples, nextIncarnation, now, disk, owed, discovery, gates, requests,
                       correlations>>
    BY <1>4, <1>j DEF Enable
  <2>2. LifecycleType' /\ discovery'.issued \in Nat
    BY <1>0, <1>k, <2>1, RouterAssumption DEF LifecycleType
  <2>3. WorkerType'
    <3>1. "waiting" \in IdlePCs
      BY DEF IdlePCs
    <3>. QED
      BY <1>0, <2>1, <2>2, <3>1, WaitingType
  <2>. QED
    BY <1>a, <1>e, <1>f, <1>g, <1>h, <2>1, <2>2, <2>3 DEF TypeInv
<1>5. CASE Reload
  <2>1. /\ Toggle /\ config' \in Configs /\ lifecycle' = lifecycle /\ queue' \in Queues
        /\ UNCHANGED <<samples, nextIncarnation, now, disk, owed, discovery, worker, gates, requests,
                       correlations>>
    BY <1>0, <1>5, <1>j DEF Reload
  <2>2. LifecycleType'
    BY <1>k, <1>l, <2>1
  <2>. QED
    BY <1>a, <1>d, <1>e, <1>f, <1>g, <1>h, <2>1, <2>2 DEF TypeInv
<1>6. ASSUME NEW id \in AuthIDs, FileStep(id) PROVE TypeInv'
  <2>1. /\ disk[id] \in AuthFile
        /\ spent.writes < MaxWrites => WriteNumber \in Numbers
    BY <1>0, RouterAssumption DEF HostType, WriteNumber, Numbers
  <2>2. PICK file \in AuthFile : WriteFile(id, file)
    <3>1. spent.writes < MaxWrites
      BY <1>6 DEF FileStep, TouchFile, RotateToken, ReplaceAccount, RemoveFile, RestoreFile, WriteFile
    <3>2. /\ [disk[id] EXCEPT !.stamp = WriteNumber] \in AuthFile
          /\ \A revision \in {None, WriteNumber} :
                [disk[id] EXCEPT !.stamp = WriteNumber, !.revision = revision] \in AuthFile
          /\ [present |-> TRUE, identity |-> WriteNumber, revision |-> WriteNumber,
              stamp |-> WriteNumber] \in AuthFile
          /\ [disk[id] EXCEPT !.present = FALSE] \in AuthFile
          /\ [disk[id] EXCEPT !.present = TRUE] \in AuthFile
      BY <2>1, <3>1 DEF AuthFile, NumbersOrNone
    <3>. QED
      BY <1>6, <3>2 DEF FileStep, TouchFile, RotateToken, ReplaceAccount, RemoveFile, RestoreFile
  <2>3. /\ spent.writes < MaxWrites /\ spent' = [spent EXCEPT !.writes = @ + 1]
        /\ disk' = [disk EXCEPT ![id] = file]
        /\ gates' = [g \in Gates |->
                        IF file.present /\ file.identity = disk[id].identity THEN gates[g]
                        ELSE [gates[g] EXCEPT !.stable = @ \ {id}]]
        /\ UNCHANGED <<samples, nextIncarnation, now, owed, discovery, queue, lifecycle, config,
                       worker, requests, correlations>>
    BY <2>2 DEF WriteFile
  <2>4. HostType'
    BY <1>0, <2>3, RouterAssumption DEF HostType
  <2>5. GateType'
    <3>1. \A g \in Gates : gates[g] \in GateRecord /\ gates[g].generation <= discovery.issued
      BY <1>0 DEF GateType
    <3>2. ASSUME NEW g \in Gates
          PROVE  gates'[g] \in GateRecord /\ gates'[g].generation = gates[g].generation
      <4>1. gates'[g] \in {gates[g], [gates[g] EXCEPT !.stable = @ \ {id}]}
        BY <2>3
      <4>. QED
        BY <3>1, <4>1 DEF GateRecord
    <3>. QED
      BY <2>3, <3>1, <3>2 DEF GateType
  <2>. QED
    BY <1>0, <1>a, <1>c, <1>d, <1>f, <2>3, <2>4, <2>5 DEF TypeInv
<1>7. CASE Tick
  <2>1. HostType'
    BY <1>0, <1>7, RouterAssumption DEF HostType, Tick
  <2>. QED
    BY <1>0, <1>7, <1>a, <1>c, <1>d, <1>e, <1>f, <2>1 DEF Tick, TypeInv
<1>. QED
  BY <1>1, <1>2, <1>3, <1>4, <1>5, <1>6, <1>7 DEF ConfigStep

\* Types hold at the start.
LEMMA InitTypes == Init => TypeInv
<1> SUFFICES ASSUME Init PROVE TypeInv
  OBVIOUS
<1>1. CacheType
  BY DEF Init, CacheInit, CacheType, NoSample
<1>2. HostType
  <2>1. 1 \in Numbers /\ NothingOwed \in Pause /\ 1 \in 1..MaxNow
    BY RouterAssumption DEF Numbers, NothingOwed, Pause, NumbersOrNone, Categories, NoTime
  <2>2. disk \in [AuthIDs -> AuthFile]
    BY <2>1 DEF Init, AuthFile, NumbersOrNone
  <2>. QED
    BY <2>1, <2>2, RouterAssumption DEF Init, HostType
<1>3. LifecycleType
  <2>1. queue \in Queues
    BY RouterAssumption DEF Init, EmptyQueue, QueueAll, Queues, NotDeferred
  <2>2. config \in Configs
    BY SettingsTypes DEF Init
  <2>. QED
    BY <2>1, <2>2, RouterAssumption DEF Init, LifecycleType
<1>4. WorkerType
  <2>1. Waiting \in WorkerRecord
    <3>1. NoPoll \in PollRecord
      BY DEF NoPoll, PollRecord, Token, PollResult, NumbersOrNone
    <3>. QED
      BY <1>2, <3>1, ListingType DEF Waiting, WorkerRecord, IdlePCs, Settings
  <2>. QED
    BY <2>1 DEF Init, WorkerType, Waiting, PassPCs, PollPCs, ReadPCs
<1>5. GateType
  <2>1. NoGate \in GateRecord /\ NoGate.generation = 0
    BY <1>2, ListingType DEF NoGate, GateRecord, GatePCs, Settings, Families
  <2>. QED
    BY <2>1 DEF Init, GateType
<1>6. RequestType
  <2>1. NoRequest \in RequestRecord /\ NoRequest.pc = "idle" /\ NoCorrelation \in CorrelationOrNone
    BY NoWindowsType DEF NoRequest, RequestRecord, CorrelationOrNone
  <2>. QED
    BY <2>1 DEF Init, RequestType
<1>. QED
  BY <1>1, <1>2, <1>3, <1>4, <1>5, <1>6 DEF TypeInv

-----------------------------------------------------------------------------

\* Every variable keeps its type, at every step of every actor.
LEMMA NextKeepsTypes == TypeInv /\ [Next]_vars => TypeInv'
<1>1. TypeInv /\ UNCHANGED vars => TypeInv'
  BY DEF vars, TypeInv, CacheType, HostType, LifecycleType, WorkerType, GateType, RequestType, poll
<1>. QED
  BY <1>1, WorkerKeepsTypes, PollKeepsTypes, GateKeepsTypes, RequestKeepsTypes, RestKeepsTypes
  DEF Next

\* What the variables of the router hold is what its code can store: the
\* entries of samples, the credential of a poll, the phase of a gate and the
\* correlation of a response all have the parts that the steps read.
THEOREM RouterTypes == Spec => []TypeInv
BY InitTypes, NextKeepsTypes, PTL DEF Spec

\* The typing that the runs check, for any number of accounts, requests,
\* writes and listings.
THEOREM RouterTypeCorrect == Spec => []TypeOK
<1>1. TypeInv => TypeOK
  <2> SUFFICES ASSUME TypeInv PROVE TypeOK
    OBVIOUS
  <2>1. now \in 1..MaxNow /\ nextIncarnation \in Nat /\ queue \in Queues
        /\ lifecycle \in {"running", "stopping", "stopped"} /\ config \in Configs
        /\ discovery.reconciled <= discovery.issued /\ discovery.issued <= MaxListings
    BY RouterAssumption DEF TypeInv, HostType, CacheType, LifecycleType
  <2>2. worker.ids \cup worker.revisions \cup worker.signals \cup worker.todo \subseteq AuthIDs
    BY DEF TypeInv, WorkerType, WorkerRecord
  <2>3. ASSUME NEW id \in AuthIDs
        PROVE  /\ {samples[id].identity, samples[id].revision, samples[id].listRevision}
                     \subseteq 0..(1 + MaxWrites)
               /\ samples[id].lastError \in Categories
               /\ samples[id].windows \in [Slots -> Windows(id)]
    <3>1. CacheType
      BY DEF TypeInv
    <3>2. NumbersOrNone \subseteq 0..(1 + MaxWrites)
      BY RouterAssumption DEF NumbersOrNone, Numbers, None
    <3>3. samples[id].windows \in [Slots -> Evidence \cup {NoWindow}]
      BY <3>1, SampleKinds DEF Batch
    <3>. QED
      BY <3>1, <3>2, <3>3, SampleKinds DEF Windows
  <2>4. \A g \in Gates : gates[g].pc \in
            {"idle", "listing", "reconciling", "queueing", "deciding", "rejected", "passed"}
    BY DEF TypeInv, GateType, GateRecord, GatePCs
  <2>5. \A r \in Requests : requests[r].pc \in
           {"idle", "chosen", "upstream", "answered", "observed", "done"}
    BY DEF TypeInv, RequestType, RequestRecord
  <2>. QED
    BY <2>1, <2>2, <2>3, <2>4, <2>5 DEF TypeOK
<1>. QED
  BY <1>1, RouterTypes, PTL

-----------------------------------------------------------------------------
(* What a step of a poll leaves alone *)

\* A poll moves only the worker's own place and poll.
LEMMA PollFrame ==
    ASSUME TypeInv, PollStep
    PROVE  /\ UNCHANGED <<now, disk, discovery, lifecycle, config, swept, carried, gates, requests,
                          correlations>>
           /\ spent'.writes = spent.writes
           /\ worker.pc \in PollPCs /\ worker'.pc \in PassPCs
           /\ worker'.all = worker.all /\ worker'.ids = worker.ids
           /\ worker'.revisions = worker.revisions /\ worker'.signals = worker.signals
           /\ worker'.config = worker.config /\ worker'.generation = worker.generation
           /\ worker'.listing = worker.listing /\ worker'.todo = worker.todo
<1> USE DEF lifecycleVars, environment, cacheVars
<1>0. worker \in WorkerRecord /\ spent \in [writes : 0..MaxWrites, faults : 0..MaxFaults, toggles : 0..MaxToggles]
  BY DEF TypeInv, WorkerType, HostType
<1>1. /\ UNCHANGED <<now, disk, discovery, lifecycle, config, swept, carried, gates, requests,
                     correlations>>
      /\ Fault \/ UNCHANGED spent
  BY DEF PollStep, PollClaim, PollDefer, PollBegin, PollRead, PollReadFails, PollReadNoToken, PollBind,
         PollCheck, PollAttempt, PollNote, PollFetch, PollFetchFails, PollCommit, PollFail
<1>2. spent'.writes = spent.writes
  BY <1>0, <1>1 DEF Fault
<1> DEFINE Frame ==
             /\ worker.pc \in PollPCs /\ worker'.pc \in PassPCs
             /\ worker'.all = worker.all /\ worker'.ids = worker.ids
             /\ worker'.revisions = worker.revisions /\ worker'.signals = worker.signals
             /\ worker'.config = worker.config /\ worker'.generation = worker.generation
             /\ worker'.listing = worker.listing /\ worker'.todo = worker.todo
<1>3. PollDefer \/ PollReadFails \/ PollReadNoToken \/ PollCommit \/ PollFail => Frame
  BY <1>0 DEF PollDefer, PollReadFails, PollReadNoToken, PollCommit, PollFail, EndPoll, WorkerRecord,
     PollPCs, PassPCs
<1>4. PollClaim => Frame
  BY <1>0 DEF PollClaim, EndPoll, WorkerRecord, PollPCs, PassPCs
<1>5. PollBegin => Frame
  BY <1>0 DEF PollBegin, EndPoll, WorkerRecord, PollPCs, PassPCs
<1>6. PollRead => Frame
  BY <1>0 DEF PollRead, EndPoll, WorkerRecord, PollPCs, PassPCs
<1>7. PollBind => Frame
  BY <1>0 DEF PollBind, EndPoll, WorkerRecord, PollPCs, PassPCs
<1>8. PollCheck => Frame
  BY <1>0 DEF PollCheck, EndPoll, WorkerRecord, PollPCs, PassPCs
<1>9. PollAttempt => Frame
  BY <1>0 DEF PollAttempt, EndPoll, WorkerRecord, PollPCs, PassPCs
<1>10. PollNote => Frame
  BY <1>0 DEF PollNote, EndPoll, WorkerRecord, PollPCs, PassPCs
<1>11. PollFetch => Frame
  BY <1>0 DEF PollFetch, EndPoll, WorkerRecord, PollPCs, PassPCs
<1>12. PollFetchFails => Frame
  BY <1>0 DEF PollFetchFails, EndPoll, WorkerRecord, PollPCs, PassPCs
<1>. QED
  BY <1>1, <1>2, <1>3, <1>4, <1>5, <1>6, <1>7, <1>8, <1>9, <1>10, <1>11, <1>12 DEF PollStep

\* A poll changes the entry of its own credential only, which stays the same
\* account of the same listing.
LEMMA PollCache ==
    ASSUME TypeInv, PollStep
    PROVE  /\ poll.id \in AuthIDs
           /\ nextIncarnation' >= nextIncarnation
           /\ \A id \in AuthIDs \ {poll.id} : samples'[id] = samples[id]
           /\ \A id \in AuthIDs :
                 /\ samples'[id].identity = samples[id].identity
                 /\ samples'[id].listRevision = samples[id].listRevision
                 /\ samples'[id].generation = samples[id].generation
                 /\ samples'[id].incarnation # 0 <=> Held(id)
                 /\ \/ samples'[id].incarnation = samples[id].incarnation
                    \/ samples'[id].incarnation > nextIncarnation
<1>0. CacheType /\ now \in Nat /\ worker \in WorkerRecord /\ nextIncarnation \in Nat
  BY DEF TypeInv, WorkerType, HostType, CacheType
<1>1. poll.id \in AuthIDs /\ poll \in PollRecord
  <2>1. worker.listing \in HostListings /\ poll.id \in DOMAIN worker.listing
    BY PollFrame DEF TypeInv, WorkerType, WorkerRecord
  <2>. QED
    BY <1>0, <2>1, ListingDomain DEF WorkerRecord, poll
<1> DEFINE Moves ==
             /\ nextIncarnation' >= nextIncarnation
             /\ \A id \in AuthIDs \ {poll.id} : samples'[id] = samples[id]
             /\ \A id \in AuthIDs :
                   /\ samples'[id].identity = samples[id].identity
                   /\ samples'[id].listRevision = samples[id].listRevision
                   /\ samples'[id].generation = samples[id].generation
                   /\ samples'[id].incarnation # 0 <=> Held(id)
                   /\ \/ samples'[id].incarnation = samples[id].incarnation
                      \/ samples'[id].incarnation > nextIncarnation
<1>2. UNCHANGED cacheVars => Moves
  BY <1>0 DEF cacheVars, Held
<1>3. (\A id \in AuthIDs \ {poll.id} : samples'[id] = samples[id]) /\ SameToken(poll.id)
         /\ nextIncarnation' = nextIncarnation
      => Moves
  BY <1>0 DEF SameToken, Held
<1>4. PollClaim \/ PollAttempt => Moves
  <2>1. ASSUME Held(poll.id), UNCHANGED nextIncarnation,
               \/ samples' = [samples EXCEPT ![poll.id].checkAttemptAt = now]
               \/ samples' = [samples EXCEPT ![poll.id].usageAttemptAt = now]
        PROVE  Moves
    <3>1. \A id \in AuthIDs : SameEntry(id)
      BY <1>0, <1>1, <2>1, ClaimFacts
    <3>2. \A id \in AuthIDs \ {poll.id} : samples'[id] = samples[id]
      BY <1>0, <2>1 DEF CacheType
    <3>. QED
      BY <1>1, <1>3, <2>1, <3>1, <3>2 DEF SameEntry
  <2>. QED
    BY <1>2, <2>1 DEF PollClaim, ClaimRevisionCheck, RevisionCheckClaimable, PollAttempt,
       RecordUsageAttempt, AttemptAllowed
<1>5. PollReadFails \/ PollReadNoToken => Moves
  <2>1. NotePollFailure("auth_get") \/ NotePollFailure("missing_token") => Moves
    <3>1. "auth_get" \in Categories /\ "missing_token" \in Categories
      BY DEF Categories
    <3>. QED
      BY <1>0, <1>1, <1>2, <1>3, <3>1, NoteFacts DEF NotePollFailure
  <2>. QED
    BY <2>1 DEF PollReadFails, PollReadNoToken
<1>6. PollBind => Moves
  <2>1. ASSUME BindAllowed(poll.id, poll.token), PollBind PROVE Moves
    <3>1. BindRevision(poll.id, poll.token, poll.token.revision)
      BY <2>1 DEF PollBind
    <3>2. poll.token.revision \in Numbers
      BY <1>1, <2>1 DEF PollBind, TypeInv, WorkerType, ReadPCs, PollRecord, Token, NumbersOrNone
    <3>. QED
      BY <1>0, <1>1, <3>1, <3>2, BindFacts DEF Held
  <2>. QED
    BY <1>2, <2>1 DEF PollBind
<1>7. PollCommit => Moves
  <2>1. ASSUME PollCommit, CommitAllowed(poll.id, poll.token) PROVE Moves
    <3>1. CommitWindowBatch(poll.id, poll.token, poll.result.batch, now, poll.startedAt, TRUE)
          /\ poll.result.batch \in Batch /\ poll.startedAt \in Nat
      BY <1>1, <2>1 DEF PollCommit, PollRecord, PollResult
    <3>. QED
      BY <1>0, <1>1, <1>3, <3>1, CommitFacts
  <2>. QED
    BY <1>2, <2>1 DEF PollCommit
<1>8. PollFail => Moves
  <2>1. ASSUME PollFail,
               RecordRefreshFailure(poll.id, poll.token, poll.result.failure.category,
                                    poll.result.failure.hint, now)
        PROVE  Moves
    <3>1. poll.result.failure.category \in Categories
      BY <1>1, <2>1, RouterAssumption DEF PollFail, PollRecord, PollResult
    <3>. QED
      BY <1>0, <1>1, <1>3, <2>1, <3>1, FailFacts
  <2>. QED
    BY <1>2, <2>1 DEF PollFail
<1>9. PollDefer \/ PollBegin \/ PollRead \/ PollCheck \/ PollNote \/ PollFetch \/ PollFetchFails => Moves
  BY <1>2 DEF PollDefer, PollBegin, PollRead, PollCheck, PollNote, PollFetch, PollFetchFails
<1>. QED
  BY <1>1, <1>4, <1>5, <1>6, <1>7, <1>8, <1>9 DEF PollStep

-----------------------------------------------------------------------------
(* The gate rejects only a fleet that is all there *)

\* A step that leaves the files, the gates and the accounts in the cache as
\* they are, and brings no listing to the worker, keeps what gates rely on.
LEMMA AdmissionKept ==
    ASSUME AdmissionInv, GateType, UNCHANGED <<disk, gates>>, discovery'.reconciled = discovery.reconciled,
           worker'.pc = "reconciling" => UNCHANGED worker,
           \A id \in AuthIDs :
              /\ samples'[id].identity = samples[id].identity
              /\ samples'[id].incarnation # 0 <=> Held(id)
    PROVE  AdmissionInv'
<1>1. Members' = Members
  BY DEF Members, Held
<1>2. ASSUME NEW g \in Gates, FleetCovers(g), gates[g].stable \in SUBSET AuthIDs
      PROVE  FleetCovers(g)'
  <2>1. \A id \in gates[g].stable : id \in AuthIDs
    BY <1>2
  <2>. QED
    BY <1>2, <2>1 DEF FleetCovers, Held
<1>3. \A g \in Gates : gates[g].stable \in SUBSET AuthIDs
  BY DEF GateType, GateRecord
<1>. QED
  BY <1>1, <1>2, <1>3 DEF AdmissionInv, GateInv, GateActive, Covers

\* After a listing that is not superseded is reconciled, a gate that waits for
\* an earlier one finds every account that was there all along; a gate that
\* waits for a later one has not decided anything yet.
LEMMA AdmissionReconciled ==
    ASSUME TypeInv, AdmissionInv, NEW g \in Gates, NEW k \in Nat, NEW listing \in HostListings,
           ReconcileDiscovery(k, listing), UNCHANGED disk,
           GateActive(g) /\ k >= gates[g].generation => Covers(listing, g)
    PROVE  /\ GateActive(g) /\ k >= gates[g].generation =>
                  \A id \in gates[g].stable :
                      Held(id)' /\ samples'[id].identity = disk'[id].identity
           /\ discovery'.reconciled = k
           /\ GateActive(g) /\ gates[g].pc \in {"queueing", "deciding"} => k >= gates[g].generation
<1>0. /\ CacheType /\ discovery.reconciled \in Nat
      /\ gates[g].generation \in Nat
      /\ discovery \in [issued : 0..MaxListings, reconciled : 0..MaxListings]
  BY RouterAssumption DEF TypeInv, LifecycleType, GateType, GateRecord
<1>1. Reconcile(listing) /\ k >= discovery.reconciled /\ discovery'.reconciled = k
  BY <1>0 DEF ReconcileDiscovery, Superseded
<1>2. \A id \in DOMAIN listing :
         samples'[id].incarnation # 0 /\ samples'[id].identity = listing[id].identity
  BY <1>0, <1>1, ReconcileFacts
<1>. QED
  BY <1>0, <1>1, <1>2 DEF AdmissionInv, GateInv, Covers, Held

\* An observation leaves the tokens of every credential alone.
LEMMA ObservationFrame ==
    ASSUME TypeInv, NEW r \in Requests, RequestStep(r)
    PROVE  UNCHANGED nextIncarnation /\ (UNCHANGED samples \/ \A id \in AuthIDs : SameToken(id))
<1>1. ASSUME CommitObservation(r), ~UNCHANGED <<samples, nextIncarnation>>
      PROVE  nextIncarnation' = nextIncarnation /\ \A id \in AuthIDs : SameToken(id)
  <2> DEFINE seen == requests[r].correlation
             token == [identity |-> None, revision |-> None,
                       generation |-> seen.generation, incarnation |-> seen.incarnation]
  <2>1. CommitWindowBatch(seen.id, token, requests[r].batch, requests[r].observedAt, NoTime, FALSE)
    BY <1>1 DEF CommitObservation, cacheVars
  <2>2. CacheType /\ requests[r].batch \in Batch /\ requests[r].observedAt \in Nat
        /\ requests[r].correlation \in Correlation
    BY <1>1 DEF TypeInv, RequestType, RequestRecord, CommitObservation
  <2>3. NoTime \in Nat /\ FALSE \in BOOLEAN /\ seen.id \in AuthIDs
    BY <2>2 DEF NoTime, Correlation
  <2> HIDE DEF seen, token
  <2>4. nextIncarnation' = nextIncarnation
        /\ (\A id \in AuthIDs \ {seen.id} : samples'[id] = samples[id]) /\ SameToken(seen.id)
    BY <2>1, <2>2, <2>3, CommitFacts
  <2>. QED
    BY <2>4 DEF SameToken
<1>. QED
  BY <1>1 DEF RequestStep, ChooseAuth, AfterAuth, Answer, Respond, cacheVars

\* The steps of a gate keep what every gate relies on.
LEMMA AdmissionGates ==
    ASSUME TypeInv, AdmissionInv, NEW g \in Gates, GateStep(g)
    PROVE  AdmissionInv'
<1>0. /\ CacheType /\ HostType /\ LifecycleType /\ WorkerType /\ GateType
      /\ discovery.issued \in Nat /\ discovery.reconciled \in Nat
      /\ discovery.reconciled <= discovery.issued
      /\ discovery \in [issued : 0..MaxListings, reconciled : 0..MaxListings]
      /\ worker.generation \in Nat /\ worker.generation <= discovery.issued
  BY RouterAssumption DEF TypeInv, LifecycleType, WorkerType, WorkerRecord
<1>1. \A other \in Gates : gates[other] \in GateRecord /\ gates[other].generation \in Nat
                            /\ gates[other].generation <= discovery.issued
                            /\ gates[other].stable \in SUBSET AuthIDs
                            /\ gates[other].listing \in HostListings
  BY <1>0 DEF GateType, GateRecord
<1>2. UNCHANGED <<disk, worker>>
  BY DEF GateStep, GateStart, GateList, GateReconcile, GateQueue, GateDecide, environment
<1> USE DEF lifecycleVars, environment, cacheVars
<1>b. \A other \in Gates : Covers(Listing, other)
  BY <1>1 DEF AdmissionInv, GateInv, Covers, Listing
<1>3. CASE GateStart(g)
  <2>1. PICK model \in RequestModels :
           gates' = [gates EXCEPT ![g] = [NoGate EXCEPT
                 !.pc = "listing", !.family = model.family, !.config = config,
                 !.generation = discovery'.issued,
                 !.stable = {id \in AuthIDs : disk[id].present}]]
    BY <1>3 DEF GateStart
  <2>2. /\ discovery'.issued = discovery.issued + 1 /\ discovery'.reconciled = discovery.reconciled
        /\ UNCHANGED samples
    BY <1>0, <1>3 DEF GateStart, IssueDiscovery
  <2>3. /\ gates'[g].pc = "listing" /\ gates'[g].generation = discovery.issued + 1
        /\ gates'[g].stable = {id \in AuthIDs : disk[id].present}
        /\ \A other \in Gates \ {g} : gates'[other] = gates[other]
    BY <1>0, <2>1, <2>2 DEF GateType, NoGate
  <2>4. GateInv(g)'
    <3>1. \A other \in Gates : gates'[other].pc = "reconciling" => gates'[other].generation <= discovery.issued
      BY <1>1, <2>3
    <3>. QED
      BY <1>0, <1>1, <1>2, <2>2, <2>3, <3>1 DEF GateInv, GateActive
  <2>5. ASSUME NEW other \in Gates \ {g} PROVE GateInv(other)'
    BY <1>2, <2>2, <2>3, <2>5 DEF AdmissionInv, GateInv, GateActive, Covers, FleetCovers, Members, Held
  <2>. QED
    BY <2>4, <2>5 DEF AdmissionInv
<1>4. ASSUME NEW verdict, gates' = [gates EXCEPT ![g] = Answered(verdict)],
             verdict \in {"passed", "rejected"}, UNCHANGED <<samples, discovery>>
      PROVE  AdmissionInv'
  <2>1. gates'[g].pc = verdict /\ gates'[g].stable = {}
        /\ \A other \in Gates \ {g} : gates'[other] = gates[other]
    BY <1>0, <1>4 DEF GateType, Answered, NoGate
  <2>. QED
    BY <1>2, <1>4, <2>1 DEF AdmissionInv, GateInv, GateActive, Covers, FleetCovers, Members, Held
<1>5. CASE GateList(g)
  <2>1. CASE gates' = [gates EXCEPT ![g].pc = "reconciling", ![g].listing = Listing]
    <3>1. /\ gates'[g].pc = "reconciling" /\ gates'[g].listing = Listing
          /\ gates'[g].generation = gates[g].generation /\ gates'[g].stable = gates[g].stable
          /\ \A other \in Gates \ {g} : gates'[other] = gates[other]
      BY <1>0, <1>1, <2>1 DEF GateType, GateRecord
    <3>2. gates[g].pc = "listing" /\ UNCHANGED <<samples, discovery>>
      BY <1>5 DEF GateList
    <3>3. ASSUME NEW other \in Gates PROVE GateInv(other)'
      BY <1>2, <1>b, <3>1, <3>2 DEF AdmissionInv, GateInv, GateActive, Covers, FleetCovers, Members, Held
    <3>. QED
      BY <3>3 DEF AdmissionInv
  <2>2. CASE gates' = [gates EXCEPT ![g] = Answered("passed")]
    BY <1>4, <1>5, <2>2 DEF GateList
  <2>. QED
    BY <1>5, <2>1, <2>2 DEF GateList
<1>6. CASE GateReconcile(g)
  <2>1. CASE Superseded(gates[g].generation)
    <3>1. /\ gates' = [gates EXCEPT ![g].pc = "deciding"]
          /\ gates[g].pc = "reconciling" /\ gates[g].generation < discovery.reconciled
          /\ UNCHANGED <<samples, discovery>>
      BY <1>6, <2>1 DEF GateReconcile, Superseded
    <3>2. /\ gates'[g].pc = "deciding" /\ gates'[g].generation = gates[g].generation
          /\ gates'[g].stable = gates[g].stable /\ gates'[g].listing = gates[g].listing
          /\ \A other \in Gates \ {g} : gates'[other] = gates[other]
      BY <1>0, <1>1, <3>1 DEF GateType, GateRecord
    <3>3. ASSUME NEW other \in Gates PROVE GateInv(other)'
      BY <1>0, <1>1, <1>2, <3>1, <3>2
      DEF AdmissionInv, GateInv, GateActive, Covers, FleetCovers, Members, Held
    <3>. QED
      BY <3>3 DEF AdmissionInv
  <2>2. CASE ~Superseded(gates[g].generation)
    <3>1. /\ gates[g].pc = "reconciling"
          /\ ReconcileDiscovery(gates[g].generation, gates[g].listing)
          /\ gates' = [gates EXCEPT ![g].pc = "queueing",
                                    ![g].todo = DOMAIN gates[g].listing,
                                    ![g].replaced = Replaced(gates[g].listing),
                                    ![g].changed = Changed(gates[g].listing)]
      BY <1>6, <2>2 DEF GateReconcile
    <3>2. /\ gates'[g].pc = "queueing" /\ gates'[g].generation = gates[g].generation
          /\ gates'[g].stable = gates[g].stable
          /\ \A other \in Gates \ {g} : gates'[other] = gates[other]
      BY <1>0, <1>1, <3>1 DEF GateType, GateRecord
    <3>3. ASSUME NEW other \in Gates PROVE GateInv(other)'
      <4>1. GateActive(other) /\ gates[g].generation >= gates[other].generation
            => Covers(gates[g].listing, other)
        BY <3>1 DEF AdmissionInv, GateInv
      <4>2. /\ GateActive(other) /\ gates[g].generation >= gates[other].generation =>
                  \A id \in gates[other].stable :
                      Held(id)' /\ samples'[id].identity = disk'[id].identity
            /\ discovery'.reconciled = gates[g].generation
            /\ GateActive(other) /\ gates[other].pc \in {"queueing", "deciding"}
                  => gates[g].generation >= gates[other].generation
        BY <1>1, <1>2, <3>1, <4>1, AdmissionReconciled
      <4>3. gates[g].generation >= gates[g].generation
        BY <1>1
      <4>4. GateActive(other)' => GateActive(other)
        BY <3>1, <3>2 DEF GateActive
      <4>5. \A a \in Gates : gates'[a].pc = "reconciling" =>
               gates[a].pc = "reconciling" /\ gates'[a] = gates[a]
        BY <3>2
      <4>6. gates'[other].generation = gates[other].generation
            /\ gates'[other].stable = gates[other].stable
            /\ (other # g => gates'[other].pc = gates[other].pc)
        BY <3>2
      <4>7. FleetCovers(other)' \/ ~GateActive(other)' \/ ~(gates[g].generation >= gates[other].generation)
        BY <4>2, <4>4, <4>6 DEF FleetCovers
      <4>8. /\ \A id \in gates'[other].stable : disk'[id].present
            /\ GateActive(other)' /\ worker'.pc = "reconciling"
                  /\ worker'.generation >= gates'[other].generation => Covers(worker.listing, other)'
        BY <1>2, <4>4, <4>6 DEF AdmissionInv, GateInv, Covers
      <4>9. GateActive(other)' =>
               \A a \in Gates :
                  gates'[a].pc = "reconciling" /\ gates'[a].generation >= gates'[other].generation
                     => Covers(gates[a].listing, other)'
        BY <1>2, <4>4, <4>5, <4>6 DEF AdmissionInv, GateInv, Covers
      <4>. QED
        BY <4>2, <4>3, <4>4, <4>6, <4>7, <4>8, <4>9 DEF GateInv
    <3>. QED
      BY <3>3 DEF AdmissionInv
  <2>. QED
    BY <2>1, <2>2
<1>7. CASE GateQueue(g)
  <2>1. PICK candidates, revisions, cfg :
           revisions \in SUBSET AuthIDs /\ QueueFromRequest(candidates, revisions, cfg)
    <3> DEFINE id == Min(gates[g].todo)
    <3>1. gates[g].todo # {} /\ gates[g].todo \in SUBSET AuthIDs
      BY <1>1, <1>7 DEF GateQueue, GateRecord
    <3>2. id \in AuthIDs
      BY <3>1, MinOfNaturals, AuthIDsAssumption
    <3>. QED
      BY <1>7, <3>2 DEF GateQueue
  <2>2. \A id \in AuthIDs : samples'[id].identity = samples[id].identity
                            /\ (samples'[id].incarnation # 0 <=> Held(id))
    <3>0. queue \in Queues /\ now \in Nat
      BY <1>0 DEF HostType, LifecycleType
    <3>1. \A id \in AuthIDs : SameEntry(id)
      BY <1>0, <2>1, <3>0, RequestQueues
    <3>. QED
      BY <3>1 DEF SameEntry, SameToken, Held
  <2>3. /\ gates[g].pc = "queueing" /\ gates'[g].pc = "queueing"
        /\ gates'[g].generation = gates[g].generation /\ gates'[g].stable = gates[g].stable
        /\ \A other \in Gates \ {g} : gates'[other] = gates[other]
        /\ UNCHANGED discovery
    BY <1>0, <1>1, <1>7 DEF GateQueue, GateType, GateRecord
  <2>4. Members' = Members
    BY <2>2 DEF Members, Held
  <2>5. ASSUME NEW other \in Gates PROVE GateInv(other)'
    <3>1. FleetCovers(other) => FleetCovers(other)'
      <4>1. gates'[other].stable = gates[other].stable /\ gates[other].stable \in SUBSET AuthIDs
        BY <1>1, <2>3
      <4>. QED
        BY <1>2, <2>2, <4>1 DEF FleetCovers, Held
    <3>. QED
      BY <1>2, <2>3, <2>4, <3>1 DEF AdmissionInv, GateInv, GateActive, Covers
  <2>. QED
    BY <2>5 DEF AdmissionInv
<1>8. CASE GateDecide(g)
  BY <1>4, <1>8 DEF GateDecide
<1>. QED
  BY <1>3, <1>5, <1>6, <1>7, <1>8 DEF GateStep

\* So does every other step.
LEMMA AdmissionInductive == TypeInv /\ AdmissionInv /\ [Next]_vars => AdmissionInv'
<1> SUFFICES ASSUME TypeInv, AdmissionInv, [Next]_vars PROVE AdmissionInv'
  OBVIOUS
<1>0. /\ CacheType /\ HostType /\ LifecycleType /\ WorkerType /\ GateType
      /\ discovery.issued \in Nat /\ discovery.reconciled \in Nat
      /\ discovery.reconciled <= discovery.issued
      /\ discovery \in [issued : 0..MaxListings, reconciled : 0..MaxListings]
      /\ worker \in WorkerRecord /\ worker.listing \in HostListings
      /\ worker.generation \in Nat /\ worker.generation <= discovery.issued
  BY RouterAssumption DEF TypeInv, LifecycleType, WorkerType, WorkerRecord
<1>1. \A g \in Gates : gates[g] \in GateRecord /\ gates[g].generation \in Nat
                        /\ gates[g].generation <= discovery.issued
                        /\ gates[g].stable \in SUBSET AuthIDs
                        /\ gates[g].listing \in HostListings
  BY <1>0 DEF GateType, GateRecord
<1> USE DEF lifecycleVars, environment, cacheVars
<1>a. UNCHANGED samples =>
         \A id \in AuthIDs : /\ samples'[id].identity = samples[id].identity
                             /\ samples'[id].incarnation # 0 <=> Held(id)
  BY DEF Held
<1>b. \A g \in Gates : Covers(Listing, g)
  BY <1>1 DEF AdmissionInv, GateInv, Covers, Listing
<1>2. CASE WorkerWake \/ WorkerExit \/ WorkerTake \/ WorkerIdle \/ WorkerListFails \/ WorkerSuperseded
           \/ WorkerSignal \/ WorkerNext \/ WorkerPassEnds \/ WorkerFinish
  <2>1. UNCHANGED <<samples, disk, gates, discovery>>
    BY <1>2 DEF WorkerWake, WorkerExit, WorkerTake, WorkerIdle, WorkerListFails, WorkerSuperseded,
       WorkerSignal, WorkerNext, WorkerPassEnds, WorkerFinish
  <2>2. worker'.pc # "reconciling"
    <3>1. WorkerWake \/ WorkerExit \/ WorkerListFails \/ WorkerSuperseded \/ WorkerPassEnds
          => worker'.pc # "reconciling"
      BY <1>0 DEF WorkerWake, WorkerExit, WorkerListFails, WorkerSuperseded, WorkerPassEnds, WorkerRecord
    <3>2. WorkerTake \/ WorkerSignal => worker'.pc # "reconciling"
      BY <1>0 DEF WorkerTake, WorkerSignal, WorkerRecord
    <3>3. WorkerNext => worker'.pc # "reconciling"
      BY <1>0 DEF WorkerNext, WorkerRecord
    <3>4. WorkerIdle \/ WorkerFinish => worker'.pc # "reconciling"
      BY DEF WorkerIdle, WorkerFinish, Waiting
    <3>. QED
      BY <1>2, <3>1, <3>2, <3>3, <3>4
  <2>. QED
    BY <1>0, <1>a, <2>1, <2>2, AdmissionKept
<1>3. CASE WorkerLoad
  <2>1. UNCHANGED <<samples, disk, gates>> /\ discovery'.reconciled = discovery.reconciled
        /\ worker'.pc # "reconciling"
    BY <1>0, <1>3 DEF WorkerLoad, IssueDiscovery, WorkerRecord
  <2>. QED
    BY <1>0, <1>a, <2>1, AdmissionKept
<1>4. CASE WorkerList
  <2>1. worker'.listing = Listing /\ worker'.generation = worker.generation
        /\ UNCHANGED <<samples, disk, discovery, gates>>
    BY <1>0, <1>4 DEF WorkerList, WorkerRecord
  <2>. QED
    BY <1>b, <2>1 DEF AdmissionInv, GateInv, GateActive, Covers, FleetCovers, Members, Held
<1>5. CASE WorkerReconcile
  <2>1. /\ worker.pc = "reconciling" /\ worker'.pc = "signalling"
        /\ ReconcileDiscovery(worker.generation, worker.listing)
        /\ UNCHANGED <<disk, gates>>
    BY <1>0, <1>5 DEF WorkerReconcile, WorkerRecord
  <2>2. ASSUME NEW g \in Gates PROVE GateInv(g)'
    <3>1. GateActive(g) /\ worker.generation >= gates[g].generation => Covers(worker.listing, g)
      BY <2>1 DEF AdmissionInv, GateInv
    <3>2. /\ GateActive(g) /\ worker.generation >= gates[g].generation =>
                \A id \in gates[g].stable :
                    Held(id)' /\ samples'[id].identity = disk'[id].identity
          /\ discovery'.reconciled = worker.generation
          /\ GateActive(g) /\ gates[g].pc \in {"queueing", "deciding"}
                => worker.generation >= gates[g].generation
      BY <1>0, <2>1, <3>1, AdmissionReconciled
    <3>. QED
      BY <2>1, <3>2 DEF AdmissionInv, GateInv, GateActive, Covers, FleetCovers
  <2>. QED
    BY <2>2 DEF AdmissionInv
<1>6. CASE PollStep
  <2>1. worker'.pc # "reconciling" /\ UNCHANGED <<disk, gates, discovery>>
    BY <1>6, PollFrame DEF PassPCs, PollPCs
  <2>. QED
    BY <1>0, <1>6, <2>1, PollCache, AdmissionKept
<1>7. CASE PickRequest
  <2>1. PICK candidates, cfg : QueueFromRequest(candidates, {}, cfg)
    BY <1>7 DEF PickRequest
  <2>2. \A id \in AuthIDs : SameEntry(id)
    <3>1. queue \in Queues /\ now \in Nat /\ {} \in SUBSET AuthIDs
      BY <1>0 DEF HostType, LifecycleType
    <3>. QED
      BY <1>0, <2>1, <3>1, RequestQueues
  <2>. QED
    BY <1>0, <1>7, <2>2, AdmissionKept DEF PickRequest, SameEntry, SameToken, Held
<1>8. ASSUME NEW r \in Requests, RequestStep(r) PROVE AdmissionInv'
  <2>1. UNCHANGED <<disk, gates, discovery, worker>>
    BY <1>8 DEF RequestStep, ChooseAuth, AfterAuth, Answer, Respond, CommitObservation
  <2>2. \A id \in AuthIDs : samples'[id].identity = samples[id].identity
                            /\ (samples'[id].incarnation # 0 <=> Held(id))
    <3>1. UNCHANGED samples \/ \A id \in AuthIDs : SameToken(id)
      BY <1>8, ObservationFrame
    <3>. QED
      BY <1>a, <3>1 DEF SameToken, Held
  <2>. QED
    BY <1>0, <2>1, <2>2, AdmissionKept
<1>9. CASE ConfigStep
  <2>1. UNCHANGED <<disk, discovery, gates>> /\ (UNCHANGED worker \/ worker'.pc = "waiting")
    BY <1>9 DEF ConfigStep, Disable, Shutdown, StopEnds, DisableStopped, Enable, Reload, Waiting
  <2>2. UNCHANGED samples \/ Reconcile(NoListing)
    BY <1>9 DEF ConfigStep, Disable, Shutdown, StopEnds, DisableStopped, Enable, Reload
  <2>3. CASE UNCHANGED samples
    BY <1>0, <1>a, <2>1, <2>3, AdmissionKept
  <2>4. CASE Reconcile(NoListing)
    <3>1. \A id \in AuthIDs : samples'[id] = NoSample
      BY <1>0, <2>4, ListingType, ReconcileFacts DEF NoListing
    <3>2. Members' = {}
      BY <3>1 DEF Members, Held, NoSample
    <3>. QED
      BY <2>1, <3>2 DEF AdmissionInv, GateInv, GateActive, Covers
  <2>. QED
    BY <2>2, <2>3, <2>4
<1>10. ASSUME NEW changed \in AuthIDs, FileStep(changed) PROVE AdmissionInv'
  <2>1. PICK file : WriteFile(changed, file)
    BY <1>10 DEF FileStep, TouchFile, RotateToken, ReplaceAccount, RemoveFile, RestoreFile
  <2>2. /\ UNCHANGED <<samples, discovery, worker>>
        /\ disk' = [disk EXCEPT ![changed] = file]
        /\ gates' = [g \in Gates |->
                        IF file.present /\ file.identity = disk[changed].identity THEN gates[g]
                        ELSE [gates[g] EXCEPT !.stable = @ \ {changed}]]
    BY <2>1 DEF WriteFile
  <2>3. ASSUME NEW g \in Gates
        PROVE  /\ gates'[g].pc = gates[g].pc /\ gates'[g].generation = gates[g].generation
               /\ gates'[g].listing = gates[g].listing
               /\ gates'[g].stable \subseteq gates[g].stable
               /\ \A id \in gates'[g].stable :
                     disk'[id].identity = disk[id].identity /\ (disk[id].present => disk'[id].present)
    <3>1. gates'[g] = IF file.present /\ file.identity = disk[changed].identity THEN gates[g]
                      ELSE [gates[g] EXCEPT !.stable = @ \ {changed}]
      BY <2>2
    <3>2. \A id \in AuthIDs : disk'[id] = IF id = changed THEN file ELSE disk[id]
      BY <1>0, <2>2 DEF HostType
    <3>. QED
      BY <1>1, <3>1, <3>2 DEF GateRecord
  <2>. QED
    BY <2>2, <2>3 DEF AdmissionInv, GateInv, GateActive, Covers, FleetCovers, Members, Held
<1>11. CASE Tick \/ UNCHANGED vars
  BY <1>0, <1>11, <1>a, AdmissionKept DEF Tick, vars
<1>12. ASSUME NEW g \in Gates, GateStep(g) PROVE AdmissionInv'
  BY <1>12, AdmissionGates
<1>. QED
  BY <1>2, <1>3, <1>4, <1>5, <1>6, <1>7, <1>8, <1>9, <1>10, <1>11, <1>12 DEF Next, WorkerStep

\* Only a gate's own decision turns its request away.
LEMMA OnlyDecidingRejects ==
    ASSUME TypeInv, Next, NEW g \in Gates, gates'[g].pc = "rejected", gates[g].pc # "rejected"
    PROVE  GateDecide(g)
<1>0. gates \in [Gates -> GateRecord]
  BY DEF TypeInv, GateType
<1>1. ASSUME WorkerStep \/ PollStep \/ PickRequest \/ (\E r \in Requests : RequestStep(r))
               \/ ConfigStep \/ Tick
      PROVE  UNCHANGED gates
  BY <1>1, PollFrame DEF WorkerStep, WorkerWake, WorkerExit, WorkerTake, WorkerLoad, WorkerIdle,
     WorkerList, WorkerListFails, WorkerReconcile, WorkerSuperseded, WorkerSignal, WorkerNext,
     WorkerPassEnds, WorkerFinish, PickRequest, RequestStep, ChooseAuth, AfterAuth, Answer, Respond,
     CommitObservation, ConfigStep, Disable, Shutdown, StopEnds, DisableStopped, Enable, Reload, Tick
<1>2. ASSUME NEW id \in AuthIDs, FileStep(id) PROVE gates'[g].pc = gates[g].pc
  <2>1. PICK file : WriteFile(id, file)
    BY <1>2 DEF FileStep, TouchFile, RotateToken, ReplaceAccount, RemoveFile, RestoreFile
  <2>2. gates'[g] \in {gates[g], [gates[g] EXCEPT !.stable = @ \ {id}]}
    BY <2>1 DEF WriteFile
  <2>. QED
    BY <1>0, <2>2 DEF GateRecord
<1>3. ASSUME NEW other \in Gates, GateStep(other), other # g PROVE gates'[g] = gates[g]
  BY <1>0, <1>3 DEF GateStep, GateStart, GateList, GateReconcile, GateQueue, GateDecide
<1>4. ASSUME GateStart(g) \/ GateList(g) \/ GateReconcile(g) \/ GateQueue(g)
      PROVE  gates'[g].pc # "rejected" \/ gates[g].pc = "rejected"
  <2>1. GateStart(g) => gates'[g].pc = "listing"
    BY <1>0 DEF GateStart, NoGate
  <2>2. GateList(g) => gates'[g].pc \in {"reconciling", "passed"}
    BY <1>0 DEF GateList, Answered, NoGate, GateRecord
  <2>3. GateReconcile(g) => gates'[g].pc \in {"deciding", "queueing"}
    BY <1>0 DEF GateReconcile, GateRecord
  <2>4. GateQueue(g) => gates'[g].pc = gates[g].pc
    BY <1>0 DEF GateQueue, GateRecord
  <2>. QED
    BY <1>4, <2>1, <2>2, <2>3, <2>4
<1>. QED
  BY <1>1, <1>2, <1>3, <1>4 DEF Next, GateStep

\* The gate answers 429 only when every account that was there all along
\* since the request came in is in the cache, as the account it is on disk,
\* and known to be exhausted, for any number of accounts, requests and
\* concurrent discoveries.
THEOREM GateNeverMisled == Spec => AdmissionSound
<1>1. Init => AdmissionInv
  BY DEF Init, AdmissionInv, GateInv, GateActive, NoGate
<1>2. TypeInv /\ AdmissionInv /\ [Next]_vars =>
         [\A g \in Gates :
            gates'[g].pc = "rejected" /\ gates[g].pc # "rejected" =>
              \A id \in gates[g].stable :
                  /\ Held(id)
                  /\ samples[id].identity = disk[id].identity
                  /\ ConfirmedExhausted(samples[id].windows, gates[g].family, now,
                                        gates[g].config.cutoff)]_vars
  <2> SUFFICES ASSUME TypeInv, AdmissionInv, Next, NEW g \in Gates,
                      gates'[g].pc = "rejected", gates[g].pc # "rejected",
                      NEW id \in gates[g].stable
               PROVE  /\ Held(id)
                      /\ samples[id].identity = disk[id].identity
                      /\ ConfirmedExhausted(samples[id].windows, gates[g].family, now,
                                            gates[g].config.cutoff)
    OBVIOUS
  <2>1. GateDecide(g)
    BY OnlyDecidingRejects
  <2>2. /\ gates[g].pc \in {"queueing", "deciding"}
        /\ Gate(Fleet, gates[g].family, now, gates[g].config.cutoff).kind = "reject"
    <3>1. gates' = [gates EXCEPT ![g] =
             Answered(IF Gate(Fleet, gates[g].family, now, gates[g].config.cutoff).kind = "reject"
                      THEN "rejected" ELSE "passed")]
      BY <2>1 DEF GateDecide
    <3>2. gates \in [Gates -> GateRecord]
      BY DEF TypeInv, GateType
    <3>. QED
      BY <2>1, <3>1, <3>2 DEF GateDecide, Answered, NoGate
  <2>3. FleetExhausted(Fleet, gates[g].family, now, gates[g].config.cutoff)
    BY <2>2 DEF Gate, Reply
  <2>4. Members # {} /\ \A m \in Members :
           RecoveryKnown(samples[m].windows, gates[g].family, now, gates[g].config.cutoff)
    BY <2>3 DEF FleetExhausted, Fleet
  <2>5. FleetCovers(g)
    BY <2>2, <2>4 DEF AdmissionInv, GateInv, GateActive
  <2>6. id \in Members /\ Held(id) /\ samples[id].identity = disk[id].identity
    BY <2>5 DEF FleetCovers, Members, TypeInv, GateType, GateRecord
  <2>. QED
    BY <2>4, <2>6 DEF RecoveryKnown
<1>. QED
  BY <1>1, <1>2, RouterTypes, AdmissionInductive, PTL DEF Spec, AdmissionSound

-----------------------------------------------------------------------------
(* What the other steps leave alone *)

\* The worker's own steps touch the cache in one place only, and end no poll
\* halfway.
LEMMA WorkerFrame ==
    ASSUME TypeInv, WorkerStep
    PROVE  /\ UNCHANGED <<now, disk, lifecycle, config, carried, gates, requests, correlations>>
           /\ spent'.writes = spent.writes
           /\ worker'.pc \notin ReadPCs \cup {"reading"}
           /\ worker'.listing \in {worker.listing, Listing, NoListing}
           /\ WorkerReconcile \/ UNCHANGED <<samples, nextIncarnation, owed>>
<1> USE DEF lifecycleVars, environment, cacheVars
<1>0. worker \in WorkerRecord /\ spent \in [writes : 0..MaxWrites, faults : 0..MaxFaults, toggles : 0..MaxToggles]
  BY DEF TypeInv, WorkerType, HostType
<1>1. /\ UNCHANGED <<now, disk, lifecycle, config, carried, gates, requests, correlations>>
      /\ Fault \/ UNCHANGED spent
      /\ WorkerReconcile \/ UNCHANGED <<samples, nextIncarnation, owed>>
  BY DEF WorkerStep, WorkerWake, WorkerExit, WorkerTake, WorkerLoad, WorkerIdle, WorkerList,
     WorkerListFails, WorkerReconcile, WorkerSuperseded, WorkerSignal, WorkerNext, WorkerPassEnds,
     WorkerFinish
<1>2. spent'.writes = spent.writes
  BY <1>0, <1>1 DEF Fault
<1> DEFINE Frame == /\ worker'.pc \notin ReadPCs \cup {"reading"}
                    /\ worker'.listing \in {worker.listing, Listing, NoListing}
<1>3. WorkerWake \/ WorkerExit \/ WorkerTake \/ WorkerLoad \/ WorkerListFails \/ WorkerSuperseded
        \/ WorkerPassEnds => Frame
  BY <1>0 DEF WorkerWake, WorkerExit, WorkerTake, WorkerLoad, WorkerListFails, WorkerSuperseded,
     WorkerPassEnds, WorkerRecord, ReadPCs
<1>4. WorkerList \/ WorkerReconcile \/ WorkerSignal => Frame
  BY <1>0 DEF WorkerList, WorkerReconcile, WorkerSignal, WorkerRecord, ReadPCs
<1>5. WorkerNext => Frame
  BY <1>0 DEF WorkerNext, WorkerRecord, ReadPCs
<1>6. WorkerIdle \/ WorkerFinish => Frame
  BY DEF WorkerIdle, WorkerFinish, Waiting, ReadPCs
<1>. QED
  BY <1>1, <1>2, <1>3, <1>4, <1>5, <1>6 DEF WorkerStep

\* A gate reconciles its listing, or changes no credential.
LEMMA GateFrame ==
    ASSUME TypeInv, NEW g \in Gates, GateStep(g)
    PROVE  /\ UNCHANGED <<now, disk, lifecycle, config, carried, worker, requests, correlations>>
           /\ spent'.writes = spent.writes
           /\ \A other \in Gates \ {g} : gates'[other] = gates[other]
           /\ gates'[g].listing \in {gates[g].listing, Listing, NoListing}
           /\ \/ GateReconcile(g)
              \/ /\ UNCHANGED <<nextIncarnation, owed>>
                 /\ \A id \in AuthIDs : SameEntry(id)
<1> USE DEF lifecycleVars, environment, cacheVars
<1>0. /\ gates \in [Gates -> GateRecord] /\ gates[g] \in GateRecord
      /\ spent \in [writes : 0..MaxWrites, faults : 0..MaxFaults, toggles : 0..MaxToggles]
      /\ CacheType /\ queue \in Queues /\ now \in Nat
  BY DEF TypeInv, GateType, HostType, LifecycleType
<1>1. /\ UNCHANGED <<now, disk, lifecycle, config, carried, worker, requests, correlations>>
      /\ Fault \/ UNCHANGED spent
  BY DEF GateStep, GateStart, GateList, GateReconcile, GateQueue, GateDecide
<1>2. spent'.writes = spent.writes
  BY <1>0, <1>1 DEF Fault
<1>3. \A other \in Gates \ {g} : gates'[other] = gates[other]
  BY <1>0 DEF GateStep, GateStart, GateList, GateReconcile, GateQueue, GateDecide
<1>4. gates'[g].listing \in {gates[g].listing, Listing, NoListing}
  <2>1. GateStart(g) \/ GateDecide(g) => gates'[g].listing = NoListing
    <3>1. GateStart(g) => gates'[g].listing = NoListing
      BY <1>0 DEF GateStart, NoGate
    <3>2. \A verdict : Answered(verdict).listing = NoListing
      BY DEF Answered, NoGate
    <3>3. GateDecide(g) => \E verdict : gates' = [gates EXCEPT ![g] = Answered(verdict)]
      BY DEF GateDecide
    <3>. QED
      BY <1>0, <3>1, <3>2, <3>3
  <2>2. GateList(g) => gates'[g].listing \in {Listing, NoListing}
    BY <1>0 DEF GateList, Answered, NoGate, GateRecord
  <2>3. GateReconcile(g) \/ GateQueue(g) => gates'[g].listing = gates[g].listing
    BY <1>0 DEF GateReconcile, GateQueue, GateRecord
  <2>. QED
    BY <2>1, <2>2, <2>3 DEF GateStep
<1>5. GateStart(g) \/ GateList(g) \/ GateDecide(g)
      => UNCHANGED <<nextIncarnation, owed>> /\ \A id \in AuthIDs : SameEntry(id)
  BY DEF GateStart, GateList, GateDecide, SameEntry, SameToken
<1>6. GateQueue(g) => UNCHANGED <<nextIncarnation, owed>> /\ \A id \in AuthIDs : SameEntry(id)
  <2> SUFFICES ASSUME GateQueue(g)
               PROVE  UNCHANGED <<nextIncarnation, owed>> /\ \A id \in AuthIDs : SameEntry(id)
    OBVIOUS
  <2>1. PICK candidates, revisions, cfg :
           revisions \in SUBSET AuthIDs /\ QueueFromRequest(candidates, revisions, cfg)
    <3> DEFINE id == Min(gates[g].todo)
    <3>1. gates[g].todo # {} /\ gates[g].todo \in SUBSET AuthIDs
      BY <1>0 DEF GateQueue, GateRecord
    <3>2. id \in AuthIDs
      BY <3>1, MinOfNaturals, AuthIDsAssumption
    <3>. QED
      BY <3>2 DEF GateQueue
  <2>2. nextIncarnation' = nextIncarnation /\ \A id \in AuthIDs : SameEntry(id)
    BY <1>0, <2>1, RequestQueues
  <2>. QED
    BY <2>2 DEF GateQueue
<1>. QED
  BY <1>1, <1>2, <1>3, <1>4, <1>5, <1>6 DEF GateStep

\* A configuration leaves the cache as it is or empties it.
LEMMA ConfigFrame ==
    ASSUME TypeInv, ConfigStep
    PROVE  /\ UNCHANGED <<now, disk, discovery, gates, requests, correlations>>
           /\ spent'.writes = spent.writes
           /\ UNCHANGED worker \/ worker' = Waiting
           /\ \/ UNCHANGED <<samples, nextIncarnation, owed>>
              \/ /\ Reconcile(NoListing) /\ owed' = OwedAfter(NoListing)
                 /\ lifecycle' = "stopped" /\ UNCHANGED worker
<1>0. spent \in [writes : 0..MaxWrites, faults : 0..MaxFaults, toggles : 0..MaxToggles]
  BY DEF TypeInv, HostType
<1>1. /\ UNCHANGED <<now, disk, discovery, gates, requests, correlations>>
      /\ Toggle \/ UNCHANGED spent
      /\ UNCHANGED worker \/ worker' = Waiting
      /\ \/ UNCHANGED <<samples, nextIncarnation, owed>>
         \/ /\ Reconcile(NoListing) /\ owed' = OwedAfter(NoListing)
            /\ lifecycle' = "stopped" /\ UNCHANGED worker
  BY DEF ConfigStep, Disable, Shutdown, StopEnds, DisableStopped, Enable, Reload, cacheVars
<1>. QED
  BY <1>0, <1>1 DEF Toggle

\* A write of a file bears the next number, in its metadata whenever its
\* token is another one.
LEMMA WriteFacts ==
    ASSUME TypeInv, NEW id \in AuthIDs, FileStep(id)
    PROVE  /\ UNCHANGED <<samples, nextIncarnation, now, owed, discovery, queue, lifecycle, config,
                          carried, worker, requests, correlations>>
           /\ spent'.writes = spent.writes + 1
           /\ \A other \in AuthIDs \ {id} : disk'[other] = disk[other]
           /\ disk'[id].identity \in {disk[id].identity, 2 + spent.writes}
           /\ disk'[id].stamp \in {disk[id].stamp, 2 + spent.writes}
           /\ disk'[id].revision \in {disk[id].revision, None, 2 + spent.writes}
           /\ disk'[id].revision # disk[id].revision => disk'[id].stamp = 2 + spent.writes
           /\ \A g \in Gates : /\ gates'[g].pc = gates[g].pc /\ gates'[g].listing = gates[g].listing
                               /\ gates'[g].todo = gates[g].todo /\ gates'[g].changed = gates[g].changed
           /\ PromptHook => \A r \in Requests : requests[r].pc = "chosen" => requests[r].id # id
<1>0. /\ gates \in [Gates -> GateRecord] /\ disk \in [AuthIDs -> AuthFile] /\ disk[id] \in AuthFile
      /\ spent \in [writes : 0..MaxWrites, faults : 0..MaxFaults, toggles : 0..MaxToggles]
  BY DEF TypeInv, GateType, HostType
<1>1. PICK file : /\ WriteFile(id, file)
                  /\ file.identity \in {disk[id].identity, 2 + spent.writes}
                  /\ file.stamp \in {disk[id].stamp, 2 + spent.writes}
                  /\ file.revision \in {disk[id].revision, None, 2 + spent.writes}
                  /\ file.revision # disk[id].revision => file.stamp = 2 + spent.writes
  <2> DEFINE Numbered(file) ==
                /\ file.identity \in {disk[id].identity, 2 + spent.writes}
                /\ file.stamp \in {disk[id].stamp, 2 + spent.writes}
                /\ file.revision \in {disk[id].revision, None, 2 + spent.writes}
                /\ file.revision # disk[id].revision => file.stamp = 2 + spent.writes
  <2>1. Numbered([disk[id] EXCEPT !.stamp = WriteNumber])
    BY <1>0 DEF AuthFile, WriteNumber
  <2>2. \A revision \in {None, WriteNumber} :
           Numbered([disk[id] EXCEPT !.stamp = WriteNumber, !.revision = revision])
    BY <1>0 DEF AuthFile, WriteNumber
  <2>3. Numbered([present |-> TRUE, identity |-> WriteNumber,
                  revision |-> WriteNumber, stamp |-> WriteNumber])
    BY DEF WriteNumber
  <2>4. Numbered([disk[id] EXCEPT !.present = FALSE]) /\ Numbered([disk[id] EXCEPT !.present = TRUE])
    BY <1>0 DEF AuthFile
  <2> HIDE DEF Numbered
  <2>5. \E file : WriteFile(id, file) /\ Numbered(file)
    BY <2>1, <2>2, <2>3, <2>4 DEF FileStep, TouchFile, RotateToken, ReplaceAccount, RemoveFile,
       RestoreFile
  <2>. QED
    BY <2>5 DEF Numbered
<1>2. /\ UNCHANGED <<samples, nextIncarnation, now, owed, discovery, queue, lifecycle, config,
                     carried, worker, requests, correlations>>
      /\ spent' = [spent EXCEPT !.writes = @ + 1]
      /\ disk' = [disk EXCEPT ![id] = file]
      /\ \A g \in Gates : gates'[g] \in {gates[g], [gates[g] EXCEPT !.stable = @ \ {id}]}
      /\ PromptHook => \A r \in Requests : requests[r].pc = "chosen" => requests[r].id # id
  BY <1>1 DEF WriteFile, cacheVars, lifecycleVars
<1>3. disk'[id] = file /\ \A other \in AuthIDs \ {id} : disk'[other] = disk[other]
  BY <1>0, <1>2
<1>4. \A g \in Gates : /\ gates'[g].pc = gates[g].pc /\ gates'[g].listing = gates[g].listing
                       /\ gates'[g].todo = gates[g].todo /\ gates'[g].changed = gates[g].changed
  BY <1>0, <1>2 DEF GateRecord
<1>. QED
  BY <1>0, <1>1, <1>2, <1>3, <1>4

-----------------------------------------------------------------------------
(* Nothing gets ahead of the files *)

\* What is behind the files stays behind them while they do not change.
LEMMA DiskKept ==
    ASSUME TypeInv, DiskInv, UNCHANGED disk, spent'.writes = spent.writes,
           \A id \in AuthIDs : /\ samples'[id].identity <= disk[id].identity
                               /\ samples'[id].listRevision <= disk[id].stamp
                               /\ samples'[id].revision \in {samples[id].revision, None},
           ListingBehind(worker'.listing), \A g \in Gates : ListingBehind(gates'[g].listing),
           worker'.pc = "binding" => worker.pc = "binding" /\ worker'.poll = worker.poll
    PROVE  DiskInv'
<1>1. CacheType /\ spent.writes \in Nat
      /\ (worker.pc = "binding" => poll.id \in AuthIDs /\ poll.token.revision \in Nat)
  <2>1. worker.pc = "binding" =>
           poll.id \in DOMAIN worker.listing /\ worker.listing \in HostListings /\ poll \in PollRecord
    BY DEF TypeInv, WorkerType, WorkerRecord, PollPCs, poll
  <2>2. worker.pc = "binding" => poll.id \in AuthIDs
    BY <2>1, ListingDomain
  <2>3. worker.pc = "binding" => poll.token.revision \in Nat
    <3>1. NumbersOrNone \subseteq Nat
      BY RouterAssumption DEF NumbersOrNone, Numbers, None
    <3>. QED
      BY <2>1, <3>1 DEF PollRecord, Token
  <2>4. CacheType /\ spent.writes \in Nat
    BY RouterAssumption DEF TypeInv, HostType
  <2>. QED
    BY <2>2, <2>3, <2>4
<1>2. \A id \in AuthIDs : samples[id].revision \in Nat /\ disk[id].revision \in Nat
  <2>1. NumbersOrNone \subseteq Nat
    BY RouterAssumption DEF NumbersOrNone, Numbers, None
  <2>. QED
    BY <1>1, <2>1, SampleKinds DEF TypeInv, HostType, AuthFile
<1>3. \A id \in AuthIDs : /\ samples'[id].revision <= 1 + spent.writes
                          /\ disk[id].revision # None => samples'[id].revision <= disk[id].revision
                          /\ samples'[id].revision <= samples[id].revision
                          /\ samples'[id].revision \in Nat
  BY <1>1, <1>2 DEF DiskInv, None
<1>4. worker'.pc = "binding" =>
         /\ poll'.token.revision <= 1 + spent.writes
         /\ poll'.token.revision >= samples'[poll'.id].revision
         /\ disk[poll'.id].revision # None => poll'.token.revision <= disk[poll'.id].revision
  BY <1>1, <1>2, <1>3 DEF DiskInv, poll
<1>. QED
  BY <1>3, <1>4 DEF DiskInv, ListingBehind

\* The host's listing is the files as they are, an empty one is behind any.
LEMMA ListingsBehind == TypeInv => ListingBehind(Listing) /\ ListingBehind(NoListing)
<1> SUFFICES ASSUME TypeInv PROVE ListingBehind(Listing) /\ ListingBehind(NoListing)
  OBVIOUS
<1>1. \A id \in AuthIDs : disk[id].identity \in Int /\ disk[id].stamp \in Int
  BY RouterAssumption DEF TypeInv, HostType, AuthFile, Numbers
<1>. QED
  BY <1>1 DEF ListingBehind, Listing, NoListing

\* Reconciling a listing that is behind the files leaves the cache behind them.
LEMMA ReconciledBehind ==
    ASSUME TypeInv, NEW listing \in HostListings, ListingBehind(listing), Reconcile(listing)
    PROVE  \A id \in AuthIDs : /\ samples'[id].identity <= disk[id].identity
                               /\ samples'[id].listRevision <= disk[id].stamp
                               /\ samples'[id].revision \in {samples[id].revision, None}
<1>1. CacheType /\ \A id \in AuthIDs : disk[id].identity \in Nat /\ disk[id].stamp \in Nat
  BY RouterAssumption DEF TypeInv, HostType, AuthFile, Numbers
<1>2. TAKE id \in AuthIDs
<1>3. CASE id \in DOMAIN listing
  <2>1. samples'[id].identity = listing[id].identity /\ samples'[id].listRevision = listing[id].listRevision
    BY <1>1, <1>3, ReconcileFacts
  <2>2. samples'[id].revision \in {samples[id].revision, None}
    BY <1>1, <1>3, ReconcileFacts
  <2>. QED
    BY <1>3, <2>1, <2>2 DEF ListingBehind
<1>4. CASE id \notin DOMAIN listing
  <2>1. samples'[id] = NoSample
    BY <1>1, <1>4, ReconcileFacts
  <2>. QED
    BY <1>1, <2>1 DEF NoSample, None
<1>. QED
  BY <1>3, <1>4

\* Only a bind changes the revision of an entry, and then to the one read.
LEMMA PollKeepsRevision ==
    ASSUME TypeInv, PollStep, ~(PollBind /\ BindAllowed(poll.id, poll.token))
    PROVE  UNCHANGED nextIncarnation /\ \A id \in AuthIDs : SameToken(id)
<1>0. CacheType /\ now \in Nat /\ worker \in WorkerRecord /\ poll \in PollRecord /\ poll.id \in AuthIDs
  BY PollCache DEF TypeInv, WorkerType, WorkerRecord, HostType, poll
<1> DEFINE Kept == UNCHANGED nextIncarnation /\ \A id \in AuthIDs : SameToken(id)
<1>1. UNCHANGED cacheVars => Kept
  BY DEF cacheVars, SameToken
<1>2. (\A id \in AuthIDs \ {poll.id} : samples'[id] = samples[id]) /\ SameToken(poll.id)
         /\ nextIncarnation' = nextIncarnation
      => Kept
  BY DEF SameToken
<1>3. PollClaim \/ PollAttempt => Kept
  <2>1. ASSUME Held(poll.id), UNCHANGED nextIncarnation,
               \/ samples' = [samples EXCEPT ![poll.id].checkAttemptAt = now]
               \/ samples' = [samples EXCEPT ![poll.id].usageAttemptAt = now]
        PROVE  Kept
    BY <1>0, <2>1, ClaimFacts DEF SameEntry
  <2>. QED
    BY <1>1, <2>1 DEF PollClaim, ClaimRevisionCheck, RevisionCheckClaimable, PollAttempt,
       RecordUsageAttempt, AttemptAllowed
<1>4. PollReadFails \/ PollReadNoToken => Kept
  <2>1. NotePollFailure("auth_get") \/ NotePollFailure("missing_token") => Kept
    <3>1. "auth_get" \in Categories /\ "missing_token" \in Categories
      BY DEF Categories
    <3>. QED
      BY <1>0, <1>1, <1>2, <3>1, NoteFacts DEF NotePollFailure
  <2>. QED
    BY <2>1 DEF PollReadFails, PollReadNoToken
<1>5. PollCommit => Kept
  <2>1. ASSUME PollCommit, CommitAllowed(poll.id, poll.token) PROVE Kept
    <3>1. CommitWindowBatch(poll.id, poll.token, poll.result.batch, now, poll.startedAt, TRUE)
          /\ poll.result.batch \in Batch /\ poll.startedAt \in Nat
      BY <1>0, <2>1 DEF PollCommit, PollRecord, PollResult
    <3>. QED
      BY <1>0, <1>2, <3>1, CommitFacts
  <2>. QED
    BY <1>1, <2>1 DEF PollCommit
<1>6. PollFail => Kept
  <2>1. ASSUME PollFail,
               RecordRefreshFailure(poll.id, poll.token, poll.result.failure.category,
                                    poll.result.failure.hint, now)
        PROVE  Kept
    <3>1. poll.result.failure.category \in Categories
      BY <1>0, <2>1, RouterAssumption DEF PollFail, PollRecord, PollResult
    <3>. QED
      BY <1>0, <1>2, <2>1, <3>1, FailFacts
  <2>. QED
    BY <1>1, <2>1 DEF PollFail
<1>7. PollDefer \/ PollBegin \/ PollRead \/ PollCheck \/ PollNote \/ PollFetch \/ PollFetchFails => Kept
  BY <1>1 DEF PollDefer, PollBegin, PollRead, PollCheck, PollNote, PollFetch, PollFetchFails
<1>. QED
  BY <1>1, <1>3, <1>4, <1>5, <1>6, <1>7 DEF PollStep, PollBind

\* Every step keeps the cache and what is in flight behind the files.
LEMMA DiskInductive == TypeInv /\ DiskInv /\ [Next]_vars => DiskInv'
<1> SUFFICES ASSUME TypeInv, DiskInv, [Next]_vars PROVE DiskInv'
  OBVIOUS
<1>0. /\ CacheType /\ worker \in WorkerRecord /\ gates \in [Gates -> GateRecord]
      /\ spent.writes \in Nat
      /\ \A id \in AuthIDs : disk[id] \in AuthFile
      /\ NumbersOrNone \subseteq Nat
      /\ worker.listing \in HostListings /\ \A g \in Gates : gates[g].listing \in HostListings
  BY RouterAssumption
  DEF TypeInv, WorkerType, WorkerRecord, GateType, GateRecord, HostType, NumbersOrNone, Numbers, None
<1>1. ListingBehind(worker.listing) /\ ListingBehind(Listing) /\ ListingBehind(NoListing)
      /\ \A g \in Gates : ListingBehind(gates[g].listing)
  BY ListingsBehind DEF DiskInv
<1>2. \A id \in AuthIDs : SameToken(id) =>
         /\ samples'[id].identity <= disk[id].identity
         /\ samples'[id].listRevision <= disk[id].stamp
         /\ samples'[id].revision \in {samples[id].revision, None}
  BY DEF DiskInv, SameToken
<1>3. UNCHANGED samples => \A id \in AuthIDs : SameToken(id)
  BY DEF SameToken
<1>4. CASE WorkerStep
  <2>1. /\ UNCHANGED <<disk, gates>> /\ spent'.writes = spent.writes
        /\ worker'.pc # "binding" /\ ListingBehind(worker'.listing)
        /\ WorkerReconcile \/ UNCHANGED samples
    BY <1>1, <1>4, WorkerFrame DEF ReadPCs
  <2>2. WorkerReconcile => Reconcile(worker.listing)
    BY DEF WorkerReconcile, ReconcileDiscovery
  <2>. QED
    BY <1>0, <1>1, <1>2, <1>3, <2>1, <2>2, ReconciledBehind, DiskKept
<1>5. CASE PollStep
  <2>1. /\ UNCHANGED <<disk, gates>> /\ spent'.writes = spent.writes
        /\ worker'.listing = worker.listing
    BY <1>5, PollFrame
  <2>2. poll.id \in AuthIDs /\ poll.token \in Token /\ poll.token.revision \in Nat
    BY <1>0, <1>5, PollCache DEF WorkerRecord, PollRecord, Token, poll
  <2>3. CASE PollRead
    <3>1. UNCHANGED samples /\ worker'.pc = "binding" /\ poll'.id = poll.id
          /\ poll'.token.revision = disk[poll.id].revision
          /\ disk[poll.id].revision # None
      <4>1. poll \in PollRecord
        BY <1>0 DEF WorkerRecord, poll
      <4>2. worker' = [worker EXCEPT !.pc = "binding",
                                !.poll.token.revision = disk[poll.id].revision,
                                !.poll.account = disk[poll.id].identity]
        BY <2>3 DEF PollRead
      <4>3. worker'.pc = "binding" /\ worker'.poll.id = poll.id
            /\ worker'.poll.token.revision = disk[poll.id].revision
        BY <1>0, <2>2, <4>1, <4>2 DEF WorkerRecord, PollRecord, Token, poll
      <4>. QED
        BY <2>3, <4>3 DEF PollRead, cacheVars, poll
    <3>2. disk[poll.id].revision \in Nat
      BY <1>0, <2>2 DEF AuthFile
    <3>. QED
      BY <1>1, <2>1, <2>2, <3>1, <3>2 DEF DiskInv, ListingBehind
  <2>4. CASE PollBind /\ BindAllowed(poll.id, poll.token)
    <3>1. /\ worker.pc = "binding" /\ BindRevision(poll.id, poll.token, poll.token.revision)
          /\ worker'.pc # "binding"
      BY <1>0, <2>4 DEF PollBind, WorkerRecord
    <3>2. poll.token.revision \in Numbers
      BY <1>0, <2>2, <3>1 DEF TypeInv, WorkerType, ReadPCs, Token, NumbersOrNone
    <3>3. /\ samples'[poll.id].revision = poll.token.revision
          /\ \A id \in AuthIDs \ {poll.id} : samples'[id] = samples[id]
          /\ samples'[poll.id].identity = samples[poll.id].identity
          /\ samples'[poll.id].listRevision = samples[poll.id].listRevision
      BY <1>0, <2>2, <3>1, <3>2, BindFacts
    <3>. QED
      BY <1>1, <2>1, <2>2, <3>1, <3>3 DEF DiskInv, ListingBehind
  <2>5. CASE ~PollRead /\ ~(PollBind /\ BindAllowed(poll.id, poll.token))
    <3>1. worker'.pc # "binding"
      BY <1>0, <1>5, <2>5 DEF PollStep, PollClaim, PollDefer, PollBegin, PollReadFails, PollReadNoToken,
         PollBind, PollCheck, PollAttempt, PollNote, PollFetch, PollFetchFails, PollCommit, PollFail,
         EndPoll, WorkerRecord
    <3>2. \A id \in AuthIDs : /\ samples'[id].identity = samples[id].identity
                              /\ samples'[id].listRevision = samples[id].listRevision
                              /\ samples'[id].revision = samples[id].revision
      BY <1>5, <2>5, PollKeepsRevision DEF SameToken
    <3>. QED
      BY <1>1, <2>1, <3>1, <3>2, DiskKept DEF DiskInv
  <2>. QED
    BY <2>3, <2>4, <2>5
<1>6. CASE PickRequest
  <2>1. PICK candidates, cfg : QueueFromRequest(candidates, {}, cfg)
    BY <1>6 DEF PickRequest
  <2>2. queue \in Queues /\ now \in Nat /\ {} \in SUBSET AuthIDs
    BY DEF TypeInv, HostType, LifecycleType
  <2>3. \A id \in AuthIDs : SameToken(id)
    BY <1>0, <2>1, <2>2, RequestQueues DEF SameEntry
  <2>4. UNCHANGED <<disk, spent, worker, gates>>
    BY <1>6 DEF PickRequest, environment
  <2>. QED
    BY <1>1, <1>2, <2>3, <2>4, DiskKept
<1>7. ASSUME NEW g \in Gates, GateStep(g) PROVE DiskInv'
  <2>1. /\ UNCHANGED <<disk, worker>> /\ spent'.writes = spent.writes
        /\ \A other \in Gates : ListingBehind(gates'[other].listing)
        /\ GateReconcile(g) \/ \A id \in AuthIDs : SameToken(id)
    BY <1>1, <1>7, GateFrame DEF SameEntry
  <2>2. GateReconcile(g) => UNCHANGED samples \/ Reconcile(gates[g].listing)
    BY DEF GateReconcile, ReconcileDiscovery, cacheVars
  <2>. QED
    BY <1>0, <1>1, <1>2, <1>3, <2>1, <2>2, ReconciledBehind, DiskKept
<1>8. ASSUME NEW r \in Requests, RequestStep(r) PROVE DiskInv'
  <2>1. UNCHANGED <<disk, spent, gates, worker>>
    BY <1>8 DEF RequestStep, ChooseAuth, AfterAuth, Answer, Respond, CommitObservation, environment
  <2>2. \A id \in AuthIDs : SameToken(id)
    BY <1>3, <1>8, ObservationFrame
  <2>. QED
    BY <1>1, <1>2, <2>1, <2>2, DiskKept
<1>9. CASE ConfigStep
  <2>1. /\ UNCHANGED <<disk, gates>> /\ spent'.writes = spent.writes
        /\ UNCHANGED worker \/ worker' = Waiting
        /\ UNCHANGED samples \/ Reconcile(NoListing)
    BY <1>9, ConfigFrame
  <2>2. NoListing \in HostListings
    BY ListingType DEF TypeInv
  <2>3. worker' = Waiting => worker'.pc # "binding" /\ worker'.listing = NoListing
    BY DEF Waiting
  <2>. QED
    BY <1>1, <1>2, <1>3, <2>1, <2>2, <2>3, ReconciledBehind, DiskKept
<1>10. ASSUME NEW id \in AuthIDs, FileStep(id) PROVE DiskInv'
  <2>1. /\ UNCHANGED <<samples, worker>> /\ spent'.writes = spent.writes + 1
        /\ \A other \in AuthIDs \ {id} : disk'[other] = disk[other]
        /\ disk'[id].identity \in {disk[id].identity, 2 + spent.writes}
        /\ disk'[id].stamp \in {disk[id].stamp, 2 + spent.writes}
        /\ disk'[id].revision \in {disk[id].revision, None, 2 + spent.writes}
        /\ \A g \in Gates : gates'[g].listing = gates[g].listing
    BY <1>10, WriteFacts
  <2>2. \A other \in AuthIDs :
           /\ disk[other].identity \in Nat /\ disk[other].stamp \in Nat /\ disk[other].revision \in Nat
           /\ samples[other].identity \in Nat /\ samples[other].listRevision \in Nat
           /\ samples[other].revision \in Nat
    <3>1. \A other \in AuthIDs :
             disk[other].identity \in Nat /\ disk[other].stamp \in Nat /\ disk[other].revision \in Nat
      <4>1. Numbers \subseteq Nat
        BY RouterAssumption DEF Numbers
      <4>. QED
        BY <1>0, <4>1 DEF AuthFile
    <3>2. \A other \in AuthIDs :
             /\ samples[other].identity \in NumbersOrNone /\ samples[other].listRevision \in NumbersOrNone
             /\ samples[other].revision \in NumbersOrNone
      BY <1>0, SampleKinds
    <3>. QED
      BY <1>0, <3>1, <3>2
  <2>3. \A other \in AuthIDs :
           /\ disk'[other].identity >= disk[other].identity /\ disk'[other].identity \in Nat
           /\ disk'[other].stamp >= disk[other].stamp /\ disk'[other].stamp \in Nat
           /\ disk'[other].identity <= 2 + spent.writes /\ disk'[other].stamp <= 2 + spent.writes
           /\ disk'[other].revision <= 2 + spent.writes /\ disk'[other].revision \in Nat
           /\ disk'[other].revision \in {disk[other].revision, None, 2 + spent.writes}
    BY <1>0, <2>1, <2>2 DEF DiskInv, None
  <2> DEFINE Behind(listing) ==
                \A other \in DOMAIN listing : /\ listing[other].identity <= disk'[other].identity
                                              /\ listing[other].listRevision <= disk'[other].stamp
  <2>4. ASSUME NEW listing \in HostListings, ListingBehind(listing) PROVE Behind(listing)
    <3>1. \A other \in DOMAIN listing :
             other \in AuthIDs /\ listing[other].identity \in Nat /\ listing[other].listRevision \in Nat
      BY ListingDomain, RouterAssumption DEF ListedAuth, Numbers
    <3>. QED
      BY <2>2, <2>3, <2>4, <3>1 DEF ListingBehind
  <2>5. ListingBehind(worker.listing)' /\ \A g \in Gates : ListingBehind(gates[g].listing)'
    <3>1. Behind(worker.listing) /\ \A g \in Gates : Behind(gates[g].listing)
      BY <1>0, <1>1, <2>4
    <3>. QED
      BY <2>1, <3>1 DEF ListingBehind
  <2>6. worker.pc = "binding" => poll.id \in AuthIDs /\ poll.token.revision \in Nat
    <3>1. worker.pc = "binding" => poll.id \in DOMAIN worker.listing /\ poll \in PollRecord
      BY <1>0 DEF TypeInv, WorkerType, WorkerRecord, PollPCs, poll
    <3>. QED
      BY <1>0, <3>1, ListingDomain DEF PollRecord, Token
  <2> HIDE DEF Behind
  <2>7. \A other \in AuthIDs :
           /\ samples[other].identity <= disk'[other].identity
           /\ samples[other].listRevision <= disk'[other].stamp
           /\ samples[other].revision <= 2 + spent.writes
           /\ disk'[other].revision # None => samples[other].revision <= disk'[other].revision
    BY <1>0, <2>2, <2>3 DEF DiskInv
  <2>8. worker.pc = "binding" =>
           /\ poll.token.revision <= 2 + spent.writes
           /\ poll.token.revision >= samples[poll.id].revision
           /\ disk'[poll.id].revision # None => poll.token.revision <= disk'[poll.id].revision
    BY <1>0, <2>2, <2>3, <2>6 DEF DiskInv
  <2>9. 1 + spent'.writes = 2 + spent.writes
    BY <1>0, <2>1
  <2>. QED
    BY <2>1, <2>3, <2>5, <2>7, <2>8, <2>9 DEF DiskInv, poll
<1>11. CASE Tick \/ UNCHANGED vars
  BY <1>1, <1>2, <1>3, <1>11, DiskKept DEF Tick, vars, cacheVars
<1>. QED
  BY <1>4, <1>5, <1>6, <1>7, <1>8, <1>9, <1>10, <1>11 DEF Next

-----------------------------------------------------------------------------
(* No operation of the queue loses a revision check *)

\* A check that is put off stays pending, and so do the others.
LEMMA DeferPends ==
    ASSUME NEW q \in Queues, NEW id \in AuthIDs, NEW due \in Nat \ {0}, NEW other \in AuthIDs
    PROVE  (Pends(q, other) => Pends(Defer(q, id, due), other)) /\ Pends(Defer(q, id, due), id)
<1> USE RouterAssumption
<1> DEFINE sooner == [q.deferred EXCEPT ![id] = IF @ = NotDeferred \/ due < @ THEN due ELSE @]
<1>1. Defer(q, id, due).revisions = q.revisions /\ Defer(q, id, due).deferred = sooner
  BY DEF Defer, Queues
<1>2. q.deferred \in [AuthIDs -> Nat]
  BY DEF Queues
<1>3. sooner[id] # NotDeferred /\ (q.deferred[other] # NotDeferred => sooner[other] # NotDeferred)
  BY <1>2 DEF NotDeferred
<1>. QED
  BY <1>1, <1>3 DEF Pends

\* Whatever is queued, put back or finished, a pending check stays pending;
\* what is queued, retried or put back as a check is pending after.
LEMMA ChecksStay ==
    ASSUME NEW q \in Queues, NEW S \in SUBSET AuthIDs, NEW T \in SUBSET AuthIDs,
           NEW all \in BOOLEAN, now \in Nat \ {0}, NEW other \in AuthIDs
    PROVE  /\ Pends(q, other) =>
                 /\ Pends(QueueAll(q), other) /\ Pends(QueueRevisions(q, S), other)
                 /\ Pends(RetryAll(q, S), other) /\ Pends(Requeue(q, all, S, T), other)
                 /\ Pends(Finished(q, all, S), other)
           /\ other \in S => Pends(QueueRevisions(q, S), other) /\ Pends(RetryAll(q, S), other)
           /\ other \in T /\ ~all => Pends(Requeue(q, all, S, T), other)
<1> USE RouterAssumption
<1>1. Pends(q, other) => Pends(QueueAll(q), other)
  BY DEF QueueAll, Queues, Pends
<1>2. /\ Pends(q, other) => Pends(QueueRevisions(q, S), other)
      /\ other \in S => Pends(QueueRevisions(q, S), other)
  BY DEF QueueRevisions, Queues, Pends
<1>4. /\ Pends(q, other) => Pends(RetryAll(q, S), other)
      /\ other \in S => Pends(RetryAll(q, S), other)
  <2> DEFINE sooner == [i \in QueuedIDs |->
                          IF i \in S /\ (q.deferred[i] = NotDeferred \/ now + RetryDelay < q.deferred[i])
                          THEN now + RetryDelay ELSE q.deferred[i]]
  <2>1. RetryAll(q, S).revisions = q.revisions /\ RetryAll(q, S).deferred = sooner
    BY DEF RetryAll, Queues
  <2>2. q.deferred \in [AuthIDs -> Nat] /\ now + RetryDelay # 0
    BY DEF Queues
  <2>3. /\ q.deferred[other] # NotDeferred => sooner[other] # NotDeferred
        /\ other \in S => sooner[other] # NotDeferred
    BY <2>2 DEF NotDeferred
  <2>. QED
    BY <2>1, <2>3 DEF Pends
<1>5. /\ Pends(q, other) => Pends(Requeue(q, all, S, T), other)
      /\ other \in T /\ ~all => Pends(Requeue(q, all, S, T), other)
  <2>1. CASE all
    BY <1>1, <2>1 DEF Requeue
  <2>2. CASE ~all
    BY <2>2 DEF Requeue, Queues, Pends
  <2>. QED
    BY <2>1, <2>2
<1>6. Pends(q, other) => Pends(Finished(q, all, S), other)
  BY DEF Finished, Queues, Pends
<1>. QED
  BY <1>1, <1>2, <1>4, <1>5, <1>6

-----------------------------------------------------------------------------
(* A pass and what it is for *)

\* What a pass has taken belongs to it, up to its end.
LEMMA TidyKept == TypeInv /\ WorkerTidy /\ [Next]_vars => WorkerTidy'
<1> SUFFICES ASSUME TypeInv, WorkerTidy, [Next]_vars PROVE WorkerTidy'
  OBVIOUS
<1>0. worker \in WorkerRecord
  BY DEF TypeInv, WorkerType
<1> USE DEF PassPCs, PollPCs
<1>1. worker' = Waiting => WorkerTidy'
  BY DEF WorkerTidy, Waiting
<1>2. UNCHANGED worker /\ (lifecycle' # "running" \/ UNCHANGED lifecycle) => WorkerTidy'
  BY DEF WorkerTidy
<1>3. CASE WorkerWake \/ WorkerExit \/ WorkerIdle \/ WorkerFinish
  <2>1. WorkerIdle => WorkerTidy'
    BY <1>1 DEF WorkerIdle
  <2>2. WorkerWake \/ WorkerExit => WorkerTidy'
    BY <1>0 DEF WorkerWake, WorkerExit, WorkerTidy, WorkerRecord
  <2>3. WorkerFinish => WorkerTidy'
    BY DEF WorkerFinish, WorkerTidy, Waiting
  <2>. QED
    BY <1>3, <2>1, <2>2, <2>3
<1>4. CASE WorkerTake
  BY <1>0, <1>4 DEF WorkerTake, WorkerTidy, WorkerRecord
<1>5. CASE WorkerLoad \/ WorkerList
  <2>1. \/ worker' = [worker EXCEPT !.pc = "finishing"]
        \/ worker' = [worker EXCEPT !.pc = "listing", !.config = config, !.generation = discovery'.issued]
        \/ worker' = [worker EXCEPT !.pc = "reconciling", !.listing = Listing]
    BY <1>5 DEF WorkerLoad, WorkerList
  <2>2. worker.pc \in {"loading", "listing"}
    BY <1>5 DEF WorkerLoad, WorkerList
  <2>3. /\ worker'.all = worker.all /\ worker'.revisions = worker.revisions
        /\ worker'.signals = worker.signals /\ worker'.todo = worker.todo
        /\ worker'.pc \in {"finishing", "listing", "reconciling"}
    BY <1>0, <2>1 DEF WorkerRecord
  <2>. QED
    BY <2>2, <2>3 DEF WorkerTidy
<1>6. CASE WorkerListFails \/ WorkerSuperseded \/ WorkerReconcile
  BY <1>0, <1>6 DEF WorkerListFails, WorkerSuperseded, WorkerReconcile, WorkerTidy, WorkerRecord
<1>7. CASE WorkerSignal
  BY <1>0, <1>7 DEF WorkerSignal, WorkerTidy, WorkerRecord
<1>8. CASE WorkerNext
  BY <1>0, <1>8 DEF WorkerNext, WorkerTidy, WorkerRecord
<1>9. CASE WorkerPassEnds
  BY <1>0, <1>9 DEF WorkerPassEnds, WorkerTidy, WorkerRecord, Cancelled, lifecycleVars
<1>10. CASE PollStep
  BY <1>10, PollFrame DEF WorkerTidy
<1>11. CASE PickRequest \/ (\E r \in Requests : RequestStep(r)) \/ Tick \/ UNCHANGED vars
  BY <1>2, <1>11 DEF PickRequest, RequestStep, ChooseAuth, AfterAuth, Answer, Respond, CommitObservation, Tick,
     vars, lifecycleVars
<1>12. CASE (\E g \in Gates : GateStep(g)) \/ (\E id \in AuthIDs : FileStep(id))
  BY <1>2, <1>12, GateFrame, WriteFacts
<1>13. CASE ConfigStep
  BY <1>1, <1>2, <1>13 DEF ConfigStep, Disable, Shutdown, StopEnds, DisableStopped, Enable, Reload
<1>. QED
  BY <1>3, <1>4, <1>5, <1>6, <1>7, <1>8, <1>9, <1>10, <1>11, <1>12, <1>13 DEF Next, WorkerStep

\* An entry grows old: it goes, or starts anew under a later incarnation, or
\* stays, and its generation tells whether its metadata changed.
Aged(id) ==
    \/ samples'[id] = NoSample
    \/ samples'[id].revision = None /\ samples'[id].incarnation > nextIncarnation
    \/ /\ samples'[id].identity = samples[id].identity
       /\ samples'[id].revision = samples[id].revision
       /\ samples'[id].incarnation = samples[id].incarnation
       /\ samples'[id].generation >= samples[id].generation
       /\ samples'[id].listRevision # samples[id].listRevision =>
             samples'[id].generation > samples[id].generation

\* The entries that a listing keeps, and those no operation touches, grow old.
LEMMA AgedCache ==
    ASSUME CacheType,
           \/ /\ UNCHANGED nextIncarnation
              /\ UNCHANGED samples \/ \A id \in AuthIDs : SameToken(id)
           \/ \E listing \in HostListings : Reconcile(listing)
    PROVE  (\A id \in AuthIDs : Aged(id)) /\ nextIncarnation' >= nextIncarnation
<1>1. \A id \in AuthIDs : samples[id].generation \in Nat
  BY SampleKinds
<1>2. (\A id \in AuthIDs : SameToken(id)) \/ UNCHANGED samples => \A id \in AuthIDs : Aged(id)
  BY <1>1 DEF Aged, SameToken
<1>3. ASSUME NEW listing \in HostListings, Reconcile(listing)
      PROVE  (\A id \in AuthIDs : Aged(id)) /\ nextIncarnation' >= nextIncarnation
  <2>1. nextIncarnation' >= nextIncarnation
    BY <1>3, ReconcileFacts
  <2>2. ASSUME NEW id \in AuthIDs PROVE Aged(id)
    <3>1. CASE id \notin DOMAIN listing
      BY <1>3, <3>1, ReconcileFacts DEF Aged
    <3>2. CASE id \in Fresh(listing)
      BY <1>3, <3>2, ReconcileFacts DEF Aged
    <3>3. CASE id \in DOMAIN listing \ Fresh(listing)
      <4>1. /\ samples'[id].identity = listing[id].identity
            /\ samples'[id].listRevision = listing[id].listRevision
        BY <1>3, <3>3, ReconcileFacts
      <4>2. /\ samples[id].identity = listing[id].identity
            /\ samples'[id].incarnation = samples[id].incarnation
            /\ samples'[id].revision = samples[id].revision
            /\ samples'[id].generation >= samples[id].generation
            /\ samples[id].listRevision # listing[id].listRevision =>
                  samples'[id].generation > samples[id].generation
        BY <1>3, <3>3, ReconcileFacts
      <4>. QED
        BY <4>1, <4>2 DEF Aged
    <3>. QED
      BY <3>1, <3>2, <3>3
  <2>. QED
    BY <2>1, <2>2
<1>. QED
  BY <1>2, <1>3 DEF CacheType

\* A step that lets the cache grow old, and keeps the pass and its poll as
\* they are or ends them, keeps what the reads of the pass rely on.
LEMMA ReadingKept ==
    ASSUME TypeInv, PassListed, TokenNotAhead, ReadCurrent, UNCHANGED disk,
           \A id \in AuthIDs : Aged(id), CacheType', nextIncarnation' >= nextIncarnation,
           worker'.pc \in PassPCs \cup {"signalling"} =>
               worker.pc \in PassPCs \cup {"signalling"} /\ worker'.listing = worker.listing,
           worker'.pc \in {"reading", "binding"} => worker'.pc = worker.pc /\ worker'.poll = worker.poll
    PROVE  PassListed' /\ TokenNotAhead' /\ ReadCurrent'
<1>0. /\ CacheType
      /\ worker.pc \in {"reading", "binding"} =>
            poll.id \in AuthIDs /\ poll.token.generation \in Nat /\ poll.token.incarnation \in Nat
  <2>1. worker.pc \in {"reading", "binding"} =>
           poll.id \in DOMAIN worker.listing /\ worker.listing \in HostListings /\ poll \in PollRecord
    BY DEF TypeInv, WorkerType, WorkerRecord, PollPCs, poll
  <2>. QED
    BY <2>1, ListingDomain DEF TypeInv, PollRecord, Token
<1>1. /\ nextIncarnation \in Nat
      /\ \A id \in AuthIDs : /\ samples[id].generation \in Nat /\ samples[id].incarnation \in Nat
                             /\ samples[id].incarnation <= nextIncarnation
                             /\ samples'[id].generation \in Nat /\ samples'[id].incarnation \in Nat
  <2>1. \A id \in AuthIDs : samples'[id].generation \in Nat /\ samples'[id].incarnation \in Nat
    <3>1. NoSample.generation \in Nat /\ NoSample.incarnation \in Nat
      BY DEF NoSample
    <3>. QED
      BY <3>1 DEF CacheType, Entry
  <2>. QED
    BY <1>0, <2>1, SampleKinds DEF CacheType
<1>2. ASSUME NEW id \in AuthIDs, samples'[id].revision # None
      PROVE  samples'[id].identity = samples[id].identity /\ samples[id].revision # None
  BY <1>2 DEF Aged, NoSample
<1>3. PassListed'
  BY <1>2 DEF PassListed
<1>4. TokenNotAhead'
  <2> SUFFICES ASSUME worker'.pc \in {"reading", "binding"} PROVE TokenNotAhead'
    BY DEF TokenNotAhead
  <2>1. poll' = poll /\ worker'.pc = worker.pc
    BY DEF poll
  <2>2. poll.token.incarnation <= nextIncarnation' /\ nextIncarnation' \in Nat
    BY <1>0, <1>1, <2>1 DEF TokenNotAhead, CacheType
  <2>3. ASSUME samples'[poll.id].incarnation # 0, samples'[poll.id].incarnation = poll.token.incarnation
        PROVE  poll.token.generation <= samples'[poll.id].generation
    BY <1>0, <1>1, <2>1, <2>3 DEF TokenNotAhead, Aged, NoSample, Held
  <2>. QED
    BY <2>1, <2>2, <2>3 DEF TokenNotAhead, Held
<1>5. ReadCurrent'
  <2> SUFFICES ASSUME worker'.pc = "binding", BindAllowed(poll.id, poll.token)',
                      samples'[poll'.id].listRevision = disk'[poll'.id].stamp
               PROVE  poll'.token.revision = disk'[poll'.id].revision
    BY DEF ReadCurrent
  <2>1. poll' = poll /\ worker.pc = "binding"
    BY DEF poll
  <2>2. /\ samples'[poll.id].incarnation # 0
        /\ samples'[poll.id].identity = poll.token.identity
        /\ samples'[poll.id].generation = poll.token.generation
        /\ samples'[poll.id].incarnation = poll.token.incarnation
    BY <2>1 DEF BindAllowed, Held
  <2>3. /\ samples'[poll.id].identity = samples[poll.id].identity
        /\ samples'[poll.id].incarnation = samples[poll.id].incarnation
        /\ samples'[poll.id].generation = samples[poll.id].generation
        /\ samples'[poll.id].listRevision = samples[poll.id].listRevision
    BY <1>0, <1>1, <2>1, <2>2 DEF TokenNotAhead, Aged, NoSample, Held
  <2>4. BindAllowed(poll.id, poll.token)
    BY <2>2, <2>3 DEF BindAllowed, Held
  <2>. QED
    BY <2>1, <2>3, <2>4 DEF ReadCurrent
<1>. QED
  BY <1>3, <1>4, <1>5

\* Every step keeps what the reads of the pass rely on.
LEMMA ReadingInductive ==
    TypeInv /\ DiskInv /\ PassListed /\ TokenNotAhead /\ ReadCurrent /\ [Next]_vars
        => PassListed' /\ TokenNotAhead' /\ ReadCurrent'
<1> SUFFICES ASSUME TypeInv, DiskInv, PassListed, TokenNotAhead, ReadCurrent, [Next]_vars
             PROVE  PassListed' /\ TokenNotAhead' /\ ReadCurrent'
  OBVIOUS
<1> DEFINE Kept == PassListed' /\ TokenNotAhead' /\ ReadCurrent'
           Still == UNCHANGED nextIncarnation /\ (UNCHANGED samples \/ \A id \in AuthIDs : SameToken(id))
           Listed == \E listing \in HostListings : Reconcile(listing)
           SamePass == /\ worker'.pc \in PassPCs \cup {"signalling"} =>
                            /\ worker.pc \in PassPCs \cup {"signalling"}
                            /\ worker'.listing = worker.listing
                       /\ worker'.pc \in {"reading", "binding"} =>
                            worker'.pc = worker.pc /\ worker'.poll = worker.poll
<1>0. /\ CacheType /\ CacheType' /\ worker \in WorkerRecord /\ gates \in [Gates -> GateRecord]
      /\ nextIncarnation \in Nat /\ now \in Nat /\ queue \in Queues
      /\ worker.listing \in HostListings /\ NoListing \in HostListings
  BY NextKeepsTypes, ListingType
  DEF TypeInv, CacheType, WorkerType, WorkerRecord, HostType, LifecycleType, GateType
<1>1. ASSUME UNCHANGED disk, Still \/ Listed, SamePass PROVE Kept
  <2>1. (\A id \in AuthIDs : Aged(id)) /\ nextIncarnation' >= nextIncarnation
    BY <1>0, <1>1, AgedCache
  <2>. QED
    BY <1>0, <1>1, <2>1, ReadingKept
<1>2. UNCHANGED worker => SamePass
  OBVIOUS
<1> HIDE DEF Still
<1>3. CASE WorkerStep
  <2>1. UNCHANGED disk /\ worker'.pc \notin {"reading", "binding"} /\ (WorkerReconcile \/ Still)
    BY <1>3, WorkerFrame DEF ReadPCs, Still
  <2>2. CASE WorkerReconcile
    <3>1. Reconcile(worker.listing) /\ worker'.listing = worker.listing
      BY <1>0, <2>2 DEF WorkerReconcile, ReconcileDiscovery, WorkerRecord
    <3>2. ASSUME NEW id \in AuthIDs, samples'[id].revision # None
          PROVE  id \in DOMAIN worker.listing /\ samples'[id].identity = worker.listing[id].identity
      <4>1. id \in DOMAIN worker.listing
        BY <1>0, <3>1, <3>2, ReconcileFacts DEF NoSample
      <4>. QED
        BY <1>0, <3>1, <4>1, ReconcileFacts
    <3>3. PassListed'
      BY <3>1, <3>2 DEF PassListed
    <3>. QED
      BY <2>1, <3>3 DEF TokenNotAhead, ReadCurrent, Kept
  <2>3. CASE WorkerSignal \/ WorkerNext
    <3>1. worker.pc \in PassPCs \cup {"signalling"} /\ worker'.listing = worker.listing
      <4>1. WorkerSignal => worker.pc \in PassPCs \cup {"signalling"} /\ worker'.listing = worker.listing
        BY <1>0 DEF WorkerSignal, WorkerRecord
      <4>2. WorkerNext => worker.pc \in PassPCs \cup {"signalling"} /\ worker'.listing = worker.listing
        BY <1>0 DEF WorkerNext, WorkerRecord, PassPCs
      <4>. QED
        BY <2>3, <4>1, <4>2
    <3>2. Still
      BY <2>1, <2>3 DEF WorkerReconcile, WorkerSignal, WorkerNext
    <3>. QED
      BY <1>1, <2>1, <3>1, <3>2
  <2>4. CASE ~WorkerReconcile /\ ~WorkerSignal /\ ~WorkerNext
    <3>1. WorkerIdle \/ WorkerFinish => worker'.pc \notin PassPCs \cup {"signalling"}
      BY DEF WorkerIdle, WorkerFinish, Waiting, PassPCs, PollPCs
    <3>2. WorkerWake \/ WorkerExit \/ WorkerTake \/ WorkerLoad \/ WorkerList \/ WorkerListFails
            \/ WorkerSuperseded \/ WorkerPassEnds
          => worker'.pc \notin PassPCs \cup {"signalling"}
      BY <1>0 DEF WorkerWake, WorkerExit, WorkerTake, WorkerLoad, WorkerList, WorkerListFails,
         WorkerSuperseded, WorkerPassEnds, WorkerRecord, PassPCs, PollPCs
    <3>3. worker'.pc \notin PassPCs \cup {"signalling"}
      BY <1>3, <2>4, <3>1, <3>2 DEF WorkerStep
    <3>. QED
      BY <1>1, <2>1, <2>4, <3>3
  <2>. QED
    BY <2>2, <2>3, <2>4
<1>4. CASE PollStep
  <2>1. /\ UNCHANGED disk /\ worker'.listing = worker.listing
        /\ worker.pc \in PassPCs /\ poll.id \in AuthIDs /\ poll \in PollRecord
        /\ poll.id \in DOMAIN worker.listing
    BY <1>0, <1>4, PollFrame, PollCache DEF PassPCs, TypeInv, WorkerType, WorkerRecord, poll
  <2>2. CASE PollBegin /\ worker'.pc = "reading"
    <3>1. /\ UNCHANGED <<samples, nextIncarnation>> /\ worker'.pc # "binding"
          /\ worker' = [worker EXCEPT
                 !.pc = "reading",
                 !.poll.startedAt = now,
                 !.poll.token = [identity |-> worker.listing[poll.id].identity, revision |-> None,
                                 generation |-> samples[poll.id].generation,
                                 incarnation |-> samples[poll.id].incarnation]]
      BY <1>0, <2>2 DEF PollBegin, EndPoll, cacheVars, WorkerRecord
    <3>2. /\ worker'.poll.id = poll.id
          /\ worker'.poll.token.generation = samples[poll.id].generation
          /\ worker'.poll.token.incarnation = samples[poll.id].incarnation
      BY <1>0, <2>1, <3>1 DEF WorkerRecord, PollRecord, poll
    <3>3. samples[poll.id].incarnation <= nextIncarnation /\ samples[poll.id].generation \in Nat
      BY <1>0, <2>1, SampleKinds DEF CacheType
    <3>a. samples' = samples /\ nextIncarnation' = nextIncarnation
      BY <3>1
    <3>4. TokenNotAhead'
      BY <3>a, <3>2, <3>3 DEF TokenNotAhead, Held, poll
    <3>5. PassListed'
      BY <2>1, <3>1 DEF PassListed
    <3>. QED
      BY <3>1, <3>4, <3>5 DEF ReadCurrent, Kept
  <2>3. CASE PollRead
    <3>1. /\ UNCHANGED <<samples, nextIncarnation>> /\ worker.pc = "reading"
          /\ worker' = [worker EXCEPT !.pc = "binding",
                                !.poll.token.revision = disk[poll.id].revision,
                                !.poll.account = disk[poll.id].identity]
      BY <2>3 DEF PollRead, cacheVars
    <3>2. /\ worker'.poll.id = poll.id
          /\ worker'.poll.token.generation = poll.token.generation
          /\ worker'.poll.token.incarnation = poll.token.incarnation
          /\ worker'.poll.token.revision = disk[poll.id].revision
      BY <1>0, <2>1, <3>1 DEF WorkerRecord, PollRecord, Token, poll
    <3>a. samples' = samples /\ nextIncarnation' = nextIncarnation /\ worker.pc = "reading"
      BY <3>1
    <3>3. TokenNotAhead'
      BY <3>a, <3>2 DEF TokenNotAhead, Held, poll
    <3>4. ReadCurrent'
      BY <2>1, <3>2 DEF ReadCurrent, poll
    <3>5. PassListed'
      BY <2>1, <3>1 DEF PassListed
    <3>. QED
      BY <3>3, <3>4, <3>5 DEF Kept
  <2>4. CASE PollBind /\ BindAllowed(poll.id, poll.token)
    <3>1. /\ BindRevision(poll.id, poll.token, poll.token.revision)
          /\ worker.pc = "binding" /\ worker'.pc \notin {"reading", "binding"}
      BY <1>0, <2>4 DEF PollBind, WorkerRecord
    <3>2. poll.token.revision \in Numbers
          /\ poll.token.identity = worker.listing[poll.id].identity
      BY <2>1, <3>1 DEF TypeInv, WorkerType, ReadPCs, PollRecord, Token, NumbersOrNone
    <3>3. /\ samples'[poll.id].identity = samples[poll.id].identity
          /\ samples[poll.id].identity = poll.token.identity
          /\ \A id \in AuthIDs \ {poll.id} : samples'[id] = samples[id]
      BY <1>0, <2>1, <2>4, <3>1, <3>2, BindFacts DEF BindAllowed
    <3>4. PassListed'
      BY <2>1, <3>2, <3>3 DEF PassListed
    <3>. QED
      BY <3>1, <3>4 DEF TokenNotAhead, ReadCurrent, Kept
  <2>5. CASE ~(PollBegin /\ worker'.pc = "reading") /\ ~PollRead /\ ~(PollBind /\ BindAllowed(poll.id, poll.token))
    <3>1. worker'.pc \notin {"reading", "binding"}
      BY <1>0, <1>4, <2>5 DEF PollStep, PollClaim, PollDefer, PollBegin, PollReadFails, PollReadNoToken,
         PollBind, PollCheck, PollAttempt, PollNote, PollFetch, PollFetchFails, PollCommit, PollFail,
         EndPoll, WorkerRecord
    <3>2. Still
      BY <1>4, <2>5, PollKeepsRevision DEF Still
    <3>. QED
      BY <1>1, <2>1, <3>1, <3>2
  <2>. QED
    BY <2>2, <2>3, <2>4, <2>5
<1>5. CASE PickRequest
  <2>1. PICK candidates, cfg : QueueFromRequest(candidates, {}, cfg)
    BY <1>5 DEF PickRequest
  <2>2. Still
    BY <1>0, <2>1, RequestQueues DEF SameEntry, Still
  <2>. QED
    BY <1>1, <1>5, <2>2 DEF PickRequest, environment
<1>6. ASSUME NEW g \in Gates, GateStep(g) PROVE Kept
  <2>1. UNCHANGED <<disk, worker>> /\ (GateReconcile(g) \/ Still)
    BY <1>6, GateFrame DEF SameEntry, Still
  <2>2. GateReconcile(g) => Still \/ Listed
    BY <1>0 DEF GateReconcile, ReconcileDiscovery, cacheVars, GateRecord, Still
  <2>. QED
    BY <1>1, <1>2, <2>1, <2>2
<1>7. ASSUME NEW r \in Requests, RequestStep(r) PROVE Kept
  <2>1. UNCHANGED <<disk, worker>> /\ Still
    BY <1>7, ObservationFrame DEF RequestStep, ChooseAuth, AfterAuth, Answer, Respond, CommitObservation,
       environment, Still
  <2>. QED
    BY <1>1, <2>1
<1>8. CASE ConfigStep
  <2>1. UNCHANGED disk /\ (Still \/ Listed) /\ (UNCHANGED worker \/ worker' = Waiting)
    BY <1>0, <1>8, ConfigFrame DEF Still
  <2>2. worker' = Waiting => worker'.pc \notin PassPCs \cup {"signalling", "reading", "binding"}
    BY DEF Waiting, PassPCs, PollPCs
  <2>. QED
    BY <1>1, <2>1, <2>2
<1>9. ASSUME NEW id \in AuthIDs, FileStep(id) PROVE Kept
  <2>1. /\ UNCHANGED <<samples, nextIncarnation, worker>>
        /\ \A other \in AuthIDs \ {id} : disk'[other] = disk[other]
        /\ disk'[id].stamp \in {disk[id].stamp, 2 + spent.writes}
        /\ disk'[id].revision # disk[id].revision => disk'[id].stamp = 2 + spent.writes
    BY <1>9, WriteFacts
  <2>2. samples[id].listRevision <= 1 + spent.writes /\ samples[id].listRevision \in Nat /\ spent.writes \in Nat
    <3>1. /\ samples[id].listRevision <= disk[id].stamp /\ disk[id].stamp <= 1 + spent.writes
      BY DEF DiskInv
    <3>2. disk[id].stamp \in Nat /\ spent.writes \in Nat
      BY RouterAssumption DEF TypeInv, HostType, AuthFile, Numbers
    <3>3. NumbersOrNone \subseteq Nat
      BY RouterAssumption DEF NumbersOrNone, Numbers, None
    <3>4. samples[id].listRevision \in Nat
      BY <1>0, <3>3, SampleKinds
    <3>. QED
      BY <3>1, <3>2, <3>4
  <2>3. samples[id].listRevision = disk'[id].stamp =>
           disk'[id].stamp = disk[id].stamp /\ disk'[id].revision = disk[id].revision
    BY <2>1, <2>2
  <2>4. worker.pc = "binding" => poll.id \in AuthIDs
    <3>1. worker.pc = "binding" => poll.id \in DOMAIN worker.listing
      BY DEF TypeInv, WorkerType, PollPCs
    <3>. QED
      BY <1>0, <3>1, ListingDomain
  <2>5. ReadCurrent'
    BY <2>1, <2>3, <2>4 DEF ReadCurrent, BindAllowed, Held, poll
  <2>. QED
    BY <2>1, <2>5 DEF PassListed, TokenNotAhead, Held, poll, Kept
<1>10. CASE Tick \/ UNCHANGED vars
  BY <1>1, <1>10 DEF Tick, vars, cacheVars, Still
<1>. QED
  BY <1>3, <1>4, <1>5, <1>6, <1>7, <1>8, <1>9, <1>10 DEF Next, Kept

-----------------------------------------------------------------------------
(* A rotation that was seen is pending until its token is bound *)

\* Between its passes the worker holds no check.
LEMMA NothingInPass ==
    ASSUME WorkerTidy, lifecycle = "running", worker.pc \in {"waiting", "taking", "finishing"},
           NEW id \in AuthIDs
    PROVE  ~InPass(id)
BY DEF InPass, WorkerTidy, PassPCs, PollPCs, ListPCs

\* The worker takes, lists, reconciles, signals and goes through its pass
\* without dropping a check.
LEMMA PendingWorker ==
    TypeInv /\ EnabledWhileRunning /\ RotationInv /\ WorkerStep => RotationsPending'
<1> SUFFICES ASSUME TypeInv, EnabledWhileRunning, RotationInv, WorkerStep, lifecycle' = "running",
                    NEW id \in AuthIDs, Unbound(id)'
             PROVE  Queued(id)' \/ InPass(id)'
  BY DEF RotationsPending
<1>0. /\ worker \in WorkerRecord /\ queue \in Queues /\ now \in Nat \ {0} /\ CacheType
      /\ worker.listing \in HostListings
  BY DEF TypeInv, WorkerType, WorkerRecord, LifecycleType, HostType
<1>1. /\ UNCHANGED <<disk, carried, gates>> /\ lifecycle = "running" /\ ~Cancelled /\ config.enabled
      /\ WorkerReconcile \/ UNCHANGED samples
  BY WorkerFrame DEF EnabledWhileRunning, Cancelled
<1>2. AtGate(id)' <=> AtGate(id)
  BY <1>1 DEF AtGate
<1>3. WorkerReconcile \/ Unbound(id)
  BY <1>1 DEF Unbound, Held
<1>4. Unbound(id) => Queued(id) \/ InPass(id)
  BY <1>1 DEF RotationInv, RotationsPending
<1>5. worker.pc \in {"waiting", "taking", "finishing"} => ~InPass(id)
  BY <1>1, NothingInPass DEF RotationInv
<1>6. WorkerTidy /\ PassListed
  BY DEF RotationInv
<1> USE DEF Queued
<1>7. CASE WorkerWake
  <2>1. Pends(queue', id) <=> Pends(queue, id)
    BY <1>0, <1>7 DEF WorkerWake, Pends, Queues
  <2>. QED
    BY <1>2, <1>3, <1>4, <1>5, <1>7, <2>1 DEF WorkerWake, WorkerReconcile
<1>8. CASE WorkerExit
  BY <1>1, <1>8 DEF WorkerExit
<1>9. CASE WorkerTake
  <2>1. Pends(queue, id) \/ AtGate(id)
    BY <1>3, <1>4, <1>5, <1>9 DEF WorkerTake, WorkerReconcile
  <2>2. CASE Pends(queue, id)
    <3>1. \/ Taken(queue, now).deferred[id] # NotDeferred
          \/ IF queue.all THEN id \in Taken(queue, now).revisions ELSE id \in Promoted(queue, now).revisions
      BY <1>0, <2>2, TakenTypes DEF Pends
    <3>2. queue' = Taken(queue, now)
          /\ worker'.pc = "loading"
          /\ worker'.revisions = IF queue.all THEN {} ELSE Promoted(queue, now).revisions
      BY <1>0, <1>9 DEF WorkerTake, WorkerRecord
    <3>. QED
      BY <3>1, <3>2 DEF Pends, InPass
  <2>. QED
    BY <1>2, <2>1, <2>2
<1>10. CASE WorkerIdle
  <2>1. UNCHANGED queue
    BY <1>10 DEF WorkerIdle
  <2>. QED
    BY <1>2, <1>3, <1>4, <1>5, <1>10, <2>1 DEF WorkerIdle, WorkerReconcile
<1>11. CASE WorkerLoad \/ WorkerList
  <2>1. /\ UNCHANGED queue /\ worker.pc \in {"loading", "listing"}
        /\ \/ worker' = [worker EXCEPT !.pc = "listing", !.config = config, !.generation = discovery'.issued]
           \/ worker' = [worker EXCEPT !.pc = "reconciling", !.listing = Listing]
    BY <1>1, <1>11 DEF WorkerLoad, WorkerList
  <2>2. /\ worker'.pc \in ListPCs /\ worker'.revisions = worker.revisions
        /\ worker.signals = {} /\ worker.todo = {} /\ worker.pc \notin PollPCs
    BY <1>0, <1>6, <2>1 DEF WorkerRecord, ListPCs, WorkerTidy, PassPCs, PollPCs
  <2>3. InPass(id) => InPass(id)'
    BY <2>2 DEF InPass, PollPCs
  <2>. QED
    BY <1>2, <1>3, <1>4, <1>11, <2>1, <2>3 DEF WorkerLoad, WorkerList, WorkerReconcile
<1>12. CASE WorkerListFails \/ WorkerSuperseded
  <2>1. /\ worker.pc \in {"listing", "reconciling"}
        /\ worker.signals = {} /\ worker.todo = {} /\ worker.pc \notin PollPCs
    BY <1>6, <1>12 DEF WorkerListFails, WorkerSuperseded, WorkerTidy, PassPCs, PollPCs
  <2>2. InPass(id) => id \in worker.revisions
    BY <2>1 DEF InPass, PollPCs
  <2>3. queue' = RetryAll(queue, worker.revisions)
        \/ queue' = Requeue(queue, worker.all, worker.ids, worker.revisions)
    BY <1>1, <1>12 DEF WorkerListFails, WorkerSuperseded
  <2>4. Pends(queue, id) \/ id \in worker.revisions => Pends(queue', id)
    <3>1. /\ worker.all \in BOOLEAN /\ worker.ids \in SUBSET AuthIDs /\ worker.revisions \in SUBSET AuthIDs
      BY <1>0 DEF WorkerRecord
    <3>2. id \in worker.revisions => ~worker.all
      BY <1>6 DEF WorkerTidy
    <3>3. \A S, T \in SUBSET AuthIDs :
             /\ Pends(queue, id) => Pends(RetryAll(queue, T), id) /\ Pends(Requeue(queue, worker.all, S, T), id)
             /\ id \in T => Pends(RetryAll(queue, T), id)
             /\ id \in T /\ ~worker.all => Pends(Requeue(queue, worker.all, S, T), id)
      <4>1. TAKE S, T \in SUBSET AuthIDs
      <4>2. /\ Pends(queue, id) => Pends(Requeue(queue, worker.all, S, T), id)
            /\ id \in T /\ ~worker.all => Pends(Requeue(queue, worker.all, S, T), id)
        BY <1>0, <3>1, ChecksStay
      <4>3. (Pends(queue, id) => Pends(RetryAll(queue, T), id)) /\ (id \in T => Pends(RetryAll(queue, T), id))
        BY <1>0, <3>1, ChecksStay
      <4>. QED
        BY <4>2, <4>3
    <3>. QED
      BY <2>3, <3>1, <3>2, <3>3
  <2>. QED
    BY <1>2, <1>3, <1>4, <1>12, <2>2, <2>4
    DEF WorkerListFails, WorkerSuperseded, WorkerReconcile, ReconcileDiscovery
<1>13. CASE WorkerReconcile
  <2>1. /\ UNCHANGED queue /\ worker.pc = "reconciling" /\ Reconcile(worker.listing)
        /\ worker'.pc = "signalling" /\ worker'.revisions = worker.revisions
        /\ worker'.signals = Replaced(worker.listing) \cup Changed(worker.listing)
    BY <1>0, <1>13 DEF WorkerReconcile, ReconcileDiscovery, WorkerRecord
  <2>2. worker.signals = {} /\ worker.todo = {}
    BY <1>6, <2>1 DEF WorkerTidy, PassPCs, PollPCs
  <2>3. InPass(id) => InPass(id)'
    BY <2>1, <2>2 DEF InPass, ListPCs
  <2>4. Unbound(id) \/ id \in Changed(worker.listing)
    <3>1. id \in DOMAIN worker.listing \ Fresh(worker.listing)
      BY <1>0, <2>1, ReconcileFacts DEF Unbound, Held, NoSample
    <3>2. /\ Held(id)
          /\ samples'[id].incarnation = samples[id].incarnation
          /\ samples'[id].revision = samples[id].revision
          /\ samples'[id].listRevision = worker.listing[id].listRevision
          /\ samples[id].listRevision # worker.listing[id].listRevision => id \in Changed(worker.listing)
      BY <1>0, <2>1, <3>1, ReconcileFacts
    <3>. QED
      BY <1>1, <3>2 DEF Unbound
  <2>. QED
    BY <1>2, <1>4, <2>1, <2>3, <2>4 DEF InPass
<1>14. CASE WorkerSignal
  <2>1. /\ worker.pc = "signalling" /\ queue' = QueueRevisions(queue, worker.signals)
        /\ worker'.pc = "passing" /\ worker'.todo = Selected(worker)
        /\ worker'.revisions = worker.revisions
        /\ worker.signals \in SUBSET AuthIDs
    BY <1>0, <1>14 DEF WorkerSignal, WorkerRecord
  <2>2. Pends(queue, id) \/ id \in worker.signals => Pends(queue', id)
    <3>1. \A S \in SUBSET AuthIDs : /\ Pends(queue, id) => Pends(QueueRevisions(queue, S), id)
                                    /\ id \in S => Pends(QueueRevisions(queue, S), id)
      BY <1>0, ChecksStay
    <3>. QED
      BY <2>1, <3>1
  <2>3. worker.todo = {}
    BY <1>6, <2>1 DEF WorkerTidy, PassPCs, PollPCs
  <2>4. Unbound(id)
    BY <1>3, <2>1 DEF WorkerReconcile
  <2>5. id \in worker.revisions => InPass(id)'
    <3>1. id \in DOMAIN worker.listing
      BY <1>6, <2>1, <2>4 DEF PassListed, Unbound
    <3>2. id \in worker.revisions => ~worker.all
      BY <1>6 DEF WorkerTidy
    <3>. QED
      BY <2>1, <3>1, <3>2 DEF Selected, InPass
  <2>6. InPass(id) => id \in worker.revisions \/ id \in worker.signals
    BY <2>1, <2>3 DEF InPass
  <2>. QED
    BY <1>2, <1>4, <2>2, <2>4, <2>5, <2>6
<1>15. CASE WorkerNext
  <2> DEFINE first == Min(worker.todo)
  <2>1. /\ UNCHANGED queue /\ worker.pc = "passing"
        /\ worker' = [worker EXCEPT
               !.pc = IF CheckOnly(worker, first) THEN "claiming" ELSE "beginning",
               !.todo = @ \ {first},
               !.poll = [NoPoll EXCEPT !.id = first, !.check = CheckOnly(worker, first),
                                       !.intent = ~worker.all /\ first \in worker.revisions]]
    BY <1>15 DEF WorkerNext
  <2> HIDE DEF first
  <2>2. /\ worker'.pc \in {"claiming", "beginning"}
        /\ worker'.todo = worker.todo \ {first} /\ worker'.revisions = worker.revisions
        /\ worker'.signals = worker.signals
        /\ worker'.poll.id = first /\ worker'.poll.intent = (~worker.all /\ first \in worker.revisions)
    BY <1>0, <2>1 DEF WorkerRecord, NoPoll
  <2>3. id \in worker.revisions => ~worker.all
    BY <1>6 DEF WorkerTidy
  <2>4. InPass(id) => id \in worker.todo \cap worker.revisions
    BY <1>6, <2>1 DEF InPass, ListPCs, WorkerTidy
  <2>5. InPass(id) => InPass(id)'
    BY <2>2, <2>3, <2>4 DEF InPass, poll
  <2>. QED
    BY <1>2, <1>3, <1>4, <1>15, <2>1, <2>5 DEF WorkerNext, WorkerReconcile
<1>16. CASE WorkerPassEnds
  <2>1. UNCHANGED queue /\ worker.pc = "passing" /\ worker.todo = {}
    BY <1>1, <1>16 DEF WorkerPassEnds
  <2>2. ~InPass(id)
    BY <1>6, <2>1 DEF InPass, ListPCs, WorkerTidy
  <2>. QED
    BY <1>2, <1>3, <1>4, <1>16, <2>1, <2>2 DEF WorkerPassEnds, WorkerReconcile
<1>17. CASE WorkerFinish
  <2>1. Pends(queue, id) => Pends(queue', id)
    <3>1. \A S \in SUBSET AuthIDs, all \in BOOLEAN : Pends(queue, id) => Pends(Finished(queue, all, S), id)
      BY <1>0, ChecksStay
    <3>. QED
      BY <1>0, <1>17, <3>1 DEF WorkerFinish, WorkerRecord
  <2>. QED
    BY <1>2, <1>3, <1>4, <1>5, <1>17, <2>1 DEF WorkerFinish, WorkerReconcile
<1>. QED
  BY <1>7, <1>8, <1>9, <1>10, <1>11, <1>12, <1>13, <1>14, <1>15, <1>16, <1>17 DEF WorkerStep

\* A poll made for a revision check binds the new token, or puts the check
\* off, or finds no token to bind.
LEMMA PendingPoll ==
    TypeInv /\ RotationInv /\ PollStep => RotationsPending'
<1> SUFFICES ASSUME TypeInv, RotationInv, PollStep, lifecycle' = "running",
                    NEW id \in AuthIDs, Unbound(id)'
             PROVE  Queued(id)' \/ InPass(id)'
  BY DEF RotationsPending
<1>0. /\ worker \in WorkerRecord /\ queue \in Queues /\ now \in Nat \ {0} /\ CacheType
      /\ poll \in PollRecord /\ poll.id \in AuthIDs /\ worker.listing \in HostListings
  BY PollCache DEF TypeInv, WorkerType, WorkerRecord, LifecycleType, HostType, poll
<1>1. /\ UNCHANGED <<disk, carried, gates>> /\ lifecycle = "running" /\ ~Cancelled
      /\ worker.pc \in PollPCs /\ worker'.pc \in PassPCs
      /\ worker'.revisions = worker.revisions /\ worker'.signals = worker.signals
      /\ worker'.todo = worker.todo
  BY PollFrame DEF Cancelled
<1>2. AtGate(id)' <=> AtGate(id)
  BY <1>1 DEF AtGate
<1>3. WorkerTidy /\ PassListed /\ ReadCurrent
  BY DEF RotationInv
<1> DEFINE HeldByPoll == /\ id = poll.id /\ poll.intent
                         /\ \/ worker.pc \in {"claiming", "beginning"}
                            \/ worker.pc \in {"reading", "binding"} /\ BindAllowed(id, poll.token)
           Still == UNCHANGED nextIncarnation /\ \A other \in AuthIDs : SameToken(other)
\* What is not in the hands of the poll is where it was.
<1>4. Unbound(id) => Pends(queue, id) \/ AtGate(id) \/ InPass(id)' \/ HeldByPoll
  <2>1. InPass(id) => InPass(id)' \/ HeldByPoll
    BY <1>1 DEF InPass, PollPCs, ListPCs
  <2>. QED
    BY <1>1, <2>1 DEF RotationInv, RotationsPending, Queued
<1>5. Still => Unbound(id)
  BY <1>1 DEF Unbound, Held, SameToken
<1>6. UNCHANGED queue /\ Unbound(id) /\ ~HeldByPoll => Queued(id)' \/ InPass(id)'
  BY <1>2, <1>4 DEF Queued
<1> HIDE DEF HeldByPoll
<1>7. CASE PollBind /\ BindAllowed(poll.id, poll.token)
  <2>1. /\ BindRevision(poll.id, poll.token, poll.token.revision)
        /\ worker.pc = "binding" /\ UNCHANGED queue
    BY <1>7 DEF PollBind
  <2>2. poll.token.revision \in Numbers
    BY <1>0, <2>1 DEF TypeInv, WorkerType, ReadPCs, PollRecord, Token, NumbersOrNone
  <2>3. /\ samples'[poll.id].revision = poll.token.revision
        /\ samples'[poll.id].listRevision = samples[poll.id].listRevision
        /\ \A other \in AuthIDs \ {poll.id} : samples'[other] = samples[other]
    BY <1>0, <2>1, <2>2, BindFacts
  <2>4. id # poll.id
    BY <1>1, <1>3, <1>7, <2>1, <2>3 DEF Unbound, ReadCurrent
  <2>5. Unbound(id)
    BY <1>1, <2>3, <2>4 DEF Unbound, Held
  <2>. QED
    BY <1>6, <2>1, <2>4, <2>5 DEF HeldByPoll
<1>8. CASE ~(PollBind /\ BindAllowed(poll.id, poll.token))
  <2>1. Still
    BY <1>8, PollKeepsRevision
  <2>2. Unbound(id)
    BY <1>5, <2>1
  <2> HIDE DEF Still
  <2>3. CASE PollDefer \/ PollReadFails
    <3>1. \/ UNCHANGED queue /\ ~HeldByPoll
          \/ \E due \in Nat \ {0} : queue' = Defer(queue, poll.id, due)
      <4>1. CASE PollReadFails
        <5>1. now + RetryDelay \in Nat \ {0}
          BY <1>0, RouterAssumption
        <5>. QED
          BY <1>1, <4>1, <5>1 DEF PollReadFails, HeldByPoll
      <4>2. CASE PollDefer
        <5>1. samples[poll.id].checkAttemptAt \in Nat /\ worker.config.pollInterval \in Nat
          BY <1>0, SampleKinds, SettingsTypes DEF WorkerRecord
        <5>2. RevisionCheckDue(poll.id) \in Nat \ {0}
          BY <1>0, <5>1 DEF RevisionCheckDue, AtLeast
        <5>. QED
          BY <1>0, <1>1, <4>2, <5>2 DEF PollDefer
      <4>. QED
        BY <2>3, <4>1, <4>2
    <3>2. CASE UNCHANGED queue /\ ~HeldByPoll
      BY <1>6, <2>2, <3>2
    <3>3. ASSUME NEW due \in Nat \ {0}, queue' = Defer(queue, poll.id, due)
          PROVE  Queued(id)' \/ InPass(id)'
      <4>2. Pends(queue, id) => Pends(Defer(queue, poll.id, due), id)
        BY <1>0, <3>3, DeferPends
      <4>3. Pends(Defer(queue, poll.id, due), poll.id)
        BY <1>0, <3>3, DeferPends
      <4>. QED
        BY <1>2, <1>4, <2>2, <3>3, <4>2, <4>3 DEF Queued, HeldByPoll
    <3>. QED
      BY <3>1, <3>2, <3>3
  <2>4. CASE PollClaim
    <3>1. /\ UNCHANGED queue /\ worker.pc = "claiming" /\ worker'.pc = "beginning"
          /\ worker'.poll = worker.poll
      BY <1>0, <2>4 DEF PollClaim, WorkerRecord
    <3>2. HeldByPoll => InPass(id)'
      BY <3>1 DEF HeldByPoll, InPass, poll
    <3>. QED
      BY <1>6, <2>2, <3>1, <3>2
  <2>5. CASE PollBegin
    <3>1. UNCHANGED <<queue, samples>> /\ worker.pc = "beginning"
      BY <2>5 DEF PollBegin, cacheVars
    <3>2. ASSUME HeldByPoll PROVE PollBegins(poll.id)
      BY <1>3, <2>2, <3>1, <3>2 DEF HeldByPoll, PollBegins, PassListed, PassPCs, PollPCs, Unbound
    <3>3. ASSUME HeldByPoll PROVE InPass(id)'
      <4>1. worker' = [worker EXCEPT
               !.pc = "reading",
               !.poll.startedAt = now,
               !.poll.token = [identity |-> worker.listing[poll.id].identity, revision |-> None,
                               generation |-> samples[poll.id].generation,
                               incarnation |-> samples[poll.id].incarnation]]
        BY <2>5, <3>2, <3>3 DEF PollBegin
      <4>2. /\ worker'.pc = "reading" /\ worker'.poll.id = poll.id /\ worker'.poll.intent = poll.intent
            /\ worker'.poll.token.identity = worker.listing[poll.id].identity
            /\ worker'.poll.token.generation = samples[poll.id].generation
            /\ worker'.poll.token.incarnation = samples[poll.id].incarnation
        BY <1>0, <4>1 DEF WorkerRecord, PollRecord, poll
      <4>3. samples[poll.id].identity = worker.listing[poll.id].identity /\ Held(poll.id)
        BY <3>2, <3>3 DEF PollBegins
      <4>. QED
        BY <3>1, <3>3, <4>2, <4>3 DEF HeldByPoll, InPass, BindAllowed, Held, poll
    <3>. QED
      BY <1>6, <2>2, <3>1, <3>3
  <2>6. CASE PollRead
    <3>1. /\ UNCHANGED <<queue, samples>> /\ worker.pc = "reading"
          /\ worker' = [worker EXCEPT !.pc = "binding",
                                !.poll.token.revision = disk[poll.id].revision,
                                !.poll.account = disk[poll.id].identity]
      BY <2>6 DEF PollRead, cacheVars
    <3>2. /\ worker'.pc = "binding" /\ worker'.poll.id = poll.id /\ worker'.poll.intent = poll.intent
          /\ worker'.poll.token.identity = poll.token.identity
          /\ worker'.poll.token.generation = poll.token.generation
          /\ worker'.poll.token.incarnation = poll.token.incarnation
      BY <1>0, <3>1 DEF WorkerRecord, PollRecord, Token, poll
    <3>3. samples' = samples /\ worker.pc = "reading" /\ UNCHANGED queue
      BY <3>1
    <3>4. HeldByPoll => InPass(id)'
      BY <3>2, <3>3 DEF HeldByPoll, InPass, BindAllowed, Held, poll
    <3>. QED
      BY <1>6, <2>2, <3>3, <3>4
  <2>7. CASE PollReadNoToken
    <3>1. id # poll.id /\ UNCHANGED queue
      BY <2>2, <2>7 DEF PollReadNoToken, Unbound
    <3>. QED
      BY <1>6, <2>2, <3>1 DEF HeldByPoll
  <2>8. CASE PollBind
    <3>1. ~HeldByPoll /\ UNCHANGED queue
      BY <1>8, <2>8 DEF PollBind, HeldByPoll
    <3>. QED
      BY <1>6, <2>2, <3>1
  <2>9. CASE PollCheck \/ PollAttempt \/ PollNote \/ PollFetch \/ PollFetchFails \/ PollCommit \/ PollFail
    <3>1. ~HeldByPoll /\ UNCHANGED queue
      BY <2>9 DEF PollCheck, PollAttempt, PollNote, PollFetch, PollFetchFails, PollCommit, PollFail,
         HeldByPoll
    <3>. QED
      BY <1>6, <2>2, <3>1
  <2>. QED
    BY <2>3, <2>4, <2>5, <2>6, <2>7, <2>8, <2>9 DEF PollStep
<1>. QED
  BY <1>7, <1>8

\* A gate hands every changed credential of its listing over to the queue.
LEMMA PendingGate ==
    ASSUME TypeInv, RotationInv, NEW g \in Gates, GateStep(g)
    PROVE  RotationsPending'
<1> SUFFICES ASSUME lifecycle' = "running", NEW id \in AuthIDs, Unbound(id)'
             PROVE  Queued(id)' \/ InPass(id)'
  BY DEF RotationsPending
<1>0. /\ gates \in [Gates -> GateRecord] /\ gates[g] \in GateRecord /\ queue \in Queues
      /\ now \in Nat /\ CacheType
  BY DEF TypeInv, GateType, LifecycleType, HostType
<1>1. /\ UNCHANGED <<disk, carried, worker>> /\ lifecycle = "running"
      /\ \A other \in Gates \ {g} : gates'[other] = gates[other]
  BY GateFrame
<1>2. Unbound(id) => Queued(id) \/ InPass(id)
  BY <1>1 DEF RotationInv, RotationsPending
<1>3. (\A other \in AuthIDs : SameToken(other)) => Unbound(id) /\ (InPass(id) => InPass(id)')
  <2> SUFFICES ASSUME SameToken(id) PROVE Unbound(id) /\ (InPass(id) => InPass(id)')
    OBVIOUS
  <2>1. Unbound(id)
    BY <1>1 DEF Unbound, Held, SameToken
  <2>2. BindAllowed(id, poll.token) => BindAllowed(id, poll.token)'
    BY <1>1 DEF BindAllowed, Held, SameToken, poll
  <2>. QED
    BY <1>1, <2>1, <2>2 DEF InPass, poll
<1>4. CASE GateStart(g) \/ GateList(g) \/ GateDecide(g)
  <2>1. UNCHANGED queue /\ \A other \in AuthIDs : SameToken(other)
    BY <1>4 DEF GateStart, GateList, GateDecide, cacheVars, SameToken
  <2>2. gates[g].pc # "queueing" \/ gates[g].todo = {}
    BY <1>4 DEF GateStart, GateList, GateDecide
  <2>3. AtGate(id) => AtGate(id)'
    <3> SUFFICES ASSUME AtGate(id) PROVE AtGate(id)'
      OBVIOUS
    <3>1. PICK other \in Gates \ {g} :
             gates[other].pc = "queueing" /\ id \in gates[other].todo \cap gates[other].changed
      BY <2>2 DEF AtGate
    <3>2. gates'[other] = gates[other]
      BY <1>1, <3>1
    <3>. QED
      BY <3>1, <3>2 DEF AtGate
  <2>. QED
    BY <1>2, <1>3, <2>1, <2>3 DEF Queued
<1>5. CASE GateQueue(g)
  <2> DEFINE first == Min(gates[g].todo)
             check == \/ first \in gates[g].changed
                      \/ first \in gates[g].replaced /\ ~samples[first].windows["five_hour"].valid
  <2>1. /\ first \in AuthIDs
        /\ QueueFromRequest({first}, IF check THEN {first} ELSE {}, gates[g].config)
        /\ gates' = [gates EXCEPT ![g].todo = @ \ {first}]
    <3>1. gates[g].todo # {} /\ gates[g].todo \in SUBSET AuthIDs
      BY <1>0, <1>5 DEF GateQueue, GateRecord
    <3>. QED
      BY <1>5, <3>1, MinOfNaturals, AuthIDsAssumption DEF GateQueue
  <2>2. /\ \A other \in AuthIDs : SameToken(other)
        /\ queue'.deferred = queue.deferred /\ queue.revisions \subseteq queue'.revisions
        /\ first \in gates[g].changed => first \in queue'.revisions
    <3> DEFINE revisions == IF check THEN {first} ELSE {}
    <3>1. revisions \in SUBSET AuthIDs /\ (first \in gates[g].changed => first \in revisions)
      BY <2>1
    <3>2. QueueFromRequest({first}, revisions, gates[g].config)
      BY <2>1
    <3> HIDE DEF first, check, revisions
    <3>3. /\ \A other \in AuthIDs : SameEntry(other)
          /\ queue'.deferred = queue.deferred /\ queue.revisions \subseteq queue'.revisions
          /\ revisions \subseteq queue'.revisions
      BY <1>0, <1>1, <3>1, <3>2, RequestQueues
    <3>. QED
      BY <3>1, <3>3 DEF SameEntry
  <2> HIDE DEF first, check
  <2>3. gates'[g].pc = gates[g].pc /\ gates'[g].todo = gates[g].todo \ {first}
        /\ gates'[g].changed = gates[g].changed
    BY <1>0, <2>1 DEF GateRecord
  <2>4. AtGate(id) => AtGate(id)' \/ id \in queue'.revisions
    <3> SUFFICES ASSUME AtGate(id), id \notin queue'.revisions PROVE AtGate(id)'
      OBVIOUS
    <3>1. PICK other \in Gates :
             gates[other].pc = "queueing" /\ id \in gates[other].todo \cap gates[other].changed
      BY DEF AtGate
    <3>2. gates'[other].pc = "queueing" /\ id \in gates'[other].todo \cap gates'[other].changed
      BY <1>1, <2>2, <2>3, <3>1
    <3>. QED
      BY <3>2 DEF AtGate
  <2>. QED
    BY <1>2, <1>3, <2>2, <2>4 DEF Queued, Pends
<1>6. CASE GateReconcile(g)
  <2>0. UNCHANGED queue /\ gates[g].pc = "reconciling"
    BY <1>6 DEF GateReconcile
  <2>1. AtGate(id) => AtGate(id)'
    <3> SUFFICES ASSUME AtGate(id) PROVE AtGate(id)'
      OBVIOUS
    <3>1. PICK other \in Gates \ {g} :
             gates[other].pc = "queueing" /\ id \in gates[other].todo \cap gates[other].changed
      BY <2>0 DEF AtGate
    <3>2. gates'[other] = gates[other]
      BY <1>1, <3>1
    <3>. QED
      BY <3>1, <3>2 DEF AtGate
  <2>2. CASE Superseded(gates[g].generation)
    <3>1. \A other \in AuthIDs : SameToken(other)
      BY <1>6, <2>2 DEF GateReconcile, cacheVars, SameToken
    <3>. QED
      BY <1>2, <1>3, <2>0, <2>1, <3>1 DEF Queued
  <2>3. CASE ~Superseded(gates[g].generation)
    <3> DEFINE listing == gates[g].listing
    <3>1. /\ Reconcile(listing) /\ listing \in HostListings
          /\ gates' = [gates EXCEPT ![g].pc = "queueing", ![g].todo = DOMAIN listing,
                                    ![g].replaced = Replaced(listing), ![g].changed = Changed(listing)]
      BY <1>0, <1>6, <2>3 DEF GateReconcile, ReconcileDiscovery, GateRecord
    <3> HIDE DEF listing
    <3>2. /\ gates'[g].pc = "queueing" /\ gates'[g].todo = DOMAIN listing
          /\ gates'[g].changed = Changed(listing)
      BY <1>0, <3>1 DEF GateRecord
    <3>3. id \in Changed(listing) => AtGate(id)'
      BY <3>2 DEF AtGate, Changed
    <3>4. id \in DOMAIN listing \ Fresh(listing)
      BY <1>0, <3>1, ReconcileFacts DEF Unbound, Held, NoSample
    <3>5. /\ Held(id)
          /\ samples[id].identity = listing[id].identity
          /\ samples'[id].identity = listing[id].identity
          /\ samples'[id].listRevision = listing[id].listRevision
          /\ samples'[id].incarnation = samples[id].incarnation
          /\ samples'[id].revision = samples[id].revision
          /\ samples'[id].generation = samples[id].generation \/ id \in Changed(listing)
          /\ samples[id].listRevision # listing[id].listRevision => id \in Changed(listing)
      BY <1>0, <3>1, <3>4, ReconcileFacts
    <3>6. id \notin Changed(listing) => Unbound(id) /\ (InPass(id) => InPass(id)')
      <4> SUFFICES ASSUME id \notin Changed(listing) PROVE Unbound(id) /\ (InPass(id) => InPass(id)')
        OBVIOUS
      <4>1. Unbound(id)
        BY <1>1, <3>5 DEF Unbound
      <4>2. BindAllowed(id, poll.token) => BindAllowed(id, poll.token)'
        BY <1>1, <3>5 DEF BindAllowed, Held, poll
      <4>. QED
        BY <1>1, <4>1, <4>2 DEF InPass, poll
    <3>. QED
      BY <1>2, <2>0, <2>1, <3>3, <3>6 DEF Queued
  <2>. QED
    BY <2>2, <2>3
<1>. QED
  BY <1>4, <1>5, <1>6 DEF GateStep

\* Every step keeps the rotations that were seen pending.
LEMMA RotationInductive ==
    TypeInv /\ EnabledWhileRunning /\ DiskInv /\ RotationInv /\ [Next]_vars => RotationInv'
<1> SUFFICES ASSUME TypeInv, EnabledWhileRunning, DiskInv, RotationInv, [Next]_vars
             PROVE  RotationInv'
  OBVIOUS
<1>0. CacheType /\ queue \in Queues /\ now \in Nat /\ now \in Nat \ {0}
  BY DEF TypeInv, LifecycleType, HostType
<1>1. WorkerTidy' /\ PassListed' /\ TokenNotAhead' /\ ReadCurrent'
  BY TidyKept, ReadingInductive DEF RotationInv
<1>2. ASSUME lifecycle' = "running" => lifecycle = "running",
             UNCHANGED <<worker, carried>>,
             \A g \in Gates : /\ gates'[g].pc = gates[g].pc /\ gates'[g].todo = gates[g].todo
                              /\ gates'[g].changed = gates[g].changed,
             UNCHANGED samples \/ \A id \in AuthIDs : SameToken(id),
             \A id \in AuthIDs :
                /\ Pends(queue, id) => Pends(queue', id)
                /\ \/ UNCHANGED disk
                   \/ samples[id].listRevision = disk'[id].stamp =>
                         disk'[id].stamp = disk[id].stamp /\ disk'[id].revision = disk[id].revision
      PROVE  RotationsPending'
  <2> SUFFICES ASSUME lifecycle' = "running", NEW id \in AuthIDs, Unbound(id)'
               PROVE  Queued(id)' \/ InPass(id)'
    BY DEF RotationsPending
  <2>1. SameToken(id)
    BY <1>2 DEF SameToken
  <2>2. Unbound(id)
    BY <1>2, <2>1 DEF Unbound, Held, SameToken
  <2>3. AtGate(id) => AtGate(id)'
    BY <1>2 DEF AtGate
  <2>4. BindAllowed(id, poll.token) => BindAllowed(id, poll.token)'
    BY <1>2, <2>1 DEF BindAllowed, Held, SameToken, poll
  <2>5. InPass(id) => InPass(id)'
    BY <1>2, <2>4 DEF InPass, poll
  <2>. QED
    BY <1>2, <2>2, <2>3, <2>5 DEF RotationInv, RotationsPending, Queued
<1>3. CASE WorkerStep
  BY <1>3, PendingWorker, <1>1 DEF RotationInv
<1>4. CASE PollStep
  BY <1>4, PendingPoll, <1>1 DEF RotationInv
<1>5. CASE \E g \in Gates : GateStep(g)
  BY <1>5, PendingGate, <1>1 DEF RotationInv
<1>6. CASE PickRequest
  <2>1. PICK candidates, cfg : QueueFromRequest(candidates, {}, cfg)
    BY <1>6 DEF PickRequest
  <2>2. {} \in SUBSET AuthIDs
    OBVIOUS
  <2>3. /\ \A id \in AuthIDs : SameEntry(id)
        /\ queue'.deferred = queue.deferred /\ queue.revisions \subseteq queue'.revisions
    BY <1>0, <2>1, <2>2, RequestQueues
  <2>4. UNCHANGED <<disk, worker, carried, gates, lifecycle>>
    BY <1>6 DEF PickRequest, environment, lifecycleVars
  <2>. QED
    BY <1>1, <1>2, <2>3, <2>4 DEF Pends, SameEntry, RotationInv
<1>7. ASSUME NEW r \in Requests, RequestStep(r) PROVE RotationInv'
  <2>1. UNCHANGED <<disk, worker, carried, gates, lifecycle, queue>>
        /\ (UNCHANGED samples \/ \A id \in AuthIDs : SameToken(id))
    BY <1>7, ObservationFrame DEF RequestStep, ChooseAuth, AfterAuth, Answer, Respond, CommitObservation,
       environment, lifecycleVars
  <2>. QED
    BY <1>1, <1>2, <2>1 DEF RotationInv
<1>8. CASE ConfigStep
  <2>1. CASE Disable \/ Shutdown \/ StopEnds \/ DisableStopped
    <3>1. lifecycle' # "running"
      BY <2>1, ConfigFrame DEF Disable, Shutdown, StopEnds, DisableStopped
    <3>. QED
      BY <1>1, <3>1 DEF RotationInv, RotationsPending
  <2>2. CASE Enable
    <3>1. \A id \in AuthIDs : samples'[id].incarnation <= carried' /\ carried' \in Nat
                              /\ samples'[id].incarnation \in Nat
      BY <1>0, <2>2, SampleKinds DEF Enable, cacheVars, CacheType
    <3>2. \A id \in AuthIDs : ~Unbound(id)'
      BY <3>1 DEF Unbound
    <3>. QED
      BY <1>1, <3>2 DEF RotationInv, RotationsPending
  <2>3. CASE Reload
    <3>1. /\ UNCHANGED <<disk, worker, carried, gates, lifecycle, samples>>
          /\ queue' \in {queue, QueueAll(queue)}
      BY <2>3 DEF Reload, cacheVars
    <3>2. \A id \in AuthIDs : Pends(queue, id) => Pends(queue', id)
      BY <1>0, <3>1 DEF Pends, QueueAll, Queues
    <3>. QED
      BY <1>1, <1>2, <3>1, <3>2 DEF RotationInv
  <2>. QED
    BY <1>8, <2>1, <2>2, <2>3 DEF ConfigStep
<1>9. ASSUME NEW id \in AuthIDs, FileStep(id) PROVE RotationInv'
  <2>1. /\ UNCHANGED <<samples, worker, carried, lifecycle, queue>>
        /\ \A other \in AuthIDs \ {id} : disk'[other] = disk[other]
        /\ disk'[id].stamp \in {disk[id].stamp, 2 + spent.writes}
        /\ disk'[id].revision # disk[id].revision => disk'[id].stamp = 2 + spent.writes
        /\ \A g \in Gates : /\ gates'[g].pc = gates[g].pc /\ gates'[g].todo = gates[g].todo
                            /\ gates'[g].changed = gates[g].changed
    BY <1>9, WriteFacts
  <2>2. samples[id].listRevision # 2 + spent.writes
    <3>1. /\ samples[id].listRevision <= disk[id].stamp /\ disk[id].stamp <= 1 + spent.writes
      BY DEF DiskInv
    <3>2. disk[id].stamp \in Nat /\ spent.writes \in Nat
      BY RouterAssumption DEF TypeInv, HostType, AuthFile, Numbers
    <3>3. NumbersOrNone \subseteq Nat
      BY RouterAssumption DEF NumbersOrNone, Numbers, None
    <3>4. samples[id].listRevision \in Nat
      BY <1>0, <3>3, SampleKinds
    <3>. QED
      BY <3>1, <3>2, <3>4
  <2>3. \A other \in AuthIDs :
           samples[other].listRevision = disk'[other].stamp =>
               disk'[other].stamp = disk[other].stamp /\ disk'[other].revision = disk[other].revision
    BY <2>1, <2>2
  <2>. QED
    BY <1>1, <1>2, <2>1, <2>3 DEF RotationInv
<1>10. CASE Tick \/ UNCHANGED vars
  <2>1. UNCHANGED <<disk, worker, carried, gates, lifecycle, queue, samples>>
    BY <1>10 DEF Tick, vars, cacheVars, lifecycleVars
  <2>. QED
    BY <1>1, <1>2, <2>1 DEF RotationInv
<1>. QED
  BY <1>3, <1>4, <1>5, <1>6, <1>7, <1>8, <1>9, <1>10 DEF Next

\* Nothing in the cache or in flight ever gets ahead of the host's files.
LEMMA NothingAhead == Spec => []DiskInv
<1>1. Init => DiskInv
  <2> SUFFICES ASSUME Init PROVE DiskInv
    OBVIOUS
  <2>1. \A id \in AuthIDs : /\ disk[id].identity = 1 /\ disk[id].revision = 1 /\ disk[id].stamp = 1
                            /\ samples[id] = NoSample
    BY DEF Init, CacheInit
  <2>2. spent.writes = 0 /\ worker = Waiting /\ \A g \in Gates : gates[g] = NoGate
    BY DEF Init
  <2>3. ListingBehind(NoListing)
    BY DEF ListingBehind, NoListing
  <2>. QED
    BY <2>1, <2>2, <2>3 DEF DiskInv, NoSample, None, Waiting, NoGate
<1>. QED
  BY <1>1, RouterTypes, DiskInductive, PTL DEF Spec

\* A token rotation that the cache has seen in the list metadata is never
\* forgotten while the router runs, however listings of the gate and the
\* worker, throttled checks and reloads interleave: until the new token is
\* bound, a revision check is queued, deferred, in the hands of the worker, or
\* about to be queued by a request.
THEOREM RotationsKept == Spec => []RotationNeverForgotten
<1>1. Init => RotationInv
  BY DEF Init, CacheInit, RotationInv, WorkerTidy, PassListed, TokenNotAhead, ReadCurrent,
     RotationsPending, Unbound, Held, NoSample, Waiting, PassPCs, PollPCs
<1>2. QueueInv => EnabledWhileRunning
  BY DEF QueueInv
<1>3. RotationInv => RotationNeverForgotten
  <2> SUFFICES ASSUME RotationInv, lifecycle = "running", NEW id \in AuthIDs, RotationUnbound(id)
               PROVE  CheckPending(id)
    BY DEF RotationNeverForgotten
  <2>1. Unbound(id)
    BY DEF RotationUnbound, Unbound
  <2>2. Queued(id) \/ InPass(id)
    BY <2>1 DEF RotationInv, RotationsPending
  <2>3. InPass(id) => InWorker(id)
    BY DEF InPass, InWorker, ListPCs
  <2>. QED
    BY <2>2, <2>3 DEF Queued, Pends, AtGate, CheckPending
<1>. QED
  BY <1>1, <1>2, <1>3, RouterTypes, QueueInvariant, NothingAhead, RotationInductive, PTL DEF Spec

-----------------------------------------------------------------------------
(* No fetch during a pause *)

\* A step that takes an entry's pause away, or leaves the pause and what it
\* rests on alone, and starts no fetch, keeps every pause.
LEMMA PausesCarry ==
    ASSUME TypeInv, TypeInv', PauseInv, now' >= now,
           \A id \in AuthIDs :
              \/ owed'[id] = NothingOwed
              \/ /\ owed'[id] = owed[id]
                 /\ samples'[id].incarnation # 0 <=> Held(id)
                 /\ samples'[id].revision = samples[id].revision
                 /\ samples'[id].nextRefreshAt = samples[id].nextRefreshAt
                 /\ samples'[id].lastError \in {samples[id].lastError, NoError, "auth_get", "missing_token"},
           worker'.pc \in {"noting", "fetching"} =>
               worker.pc \in {"noting", "fetching"} /\ worker'.poll = worker.poll
    PROVE  PauseInv'
<1>0. /\ now \in Nat /\ now' \in Nat
      /\ \A id \in AuthIDs : owed[id] \in Pause /\ owed'[id] \in Pause
  BY DEF TypeInv, HostType
<1>1. \A id \in AuthIDs : samples'[id].revision \in Nat /\ samples'[id].nextRefreshAt \in Nat
  <2>1. NumbersOrNone \subseteq Nat
    BY RouterAssumption DEF NumbersOrNone, Numbers, None
  <2>2. \A id \in AuthIDs : samples'[id] \in Entry \cup {NoSample}
    BY DEF TypeInv, CacheType
  <2>3. NoSample.revision \in Nat /\ NoSample.nextRefreshAt \in Nat
    BY DEF NoSample, None, NoTime
  <2>. QED
    BY <2>1, <2>2, <2>3 DEF Entry
<1>2. ASSUME NEW id \in AuthIDs PROVE PauseOf(id)'
  <2>1. CASE owed'[id] = NothingOwed
    BY <1>1, <2>1 DEF PauseOf, NothingOwed, None, NoTime, NoError
  <2>2. CASE owed'[id] # NothingOwed
    BY <2>2 DEF PauseInv, PauseOf, RejectedBefore, Held, NoError
  <2>. QED
    BY <2>1, <2>2
<1>3. FetchUnpaused'
  <2> SUFFICES ASSUME worker'.pc \in {"noting", "fetching"} PROVE FetchUnpaused'
    BY DEF FetchUnpaused
  <2>1. poll' = poll /\ worker.pc \in {"noting", "fetching"}
    BY DEF poll
  <2>2. poll.id \in AuthIDs
    <3>1. poll.id \in DOMAIN worker.listing /\ worker.listing \in HostListings
      BY <2>1 DEF TypeInv, WorkerType, WorkerRecord, PollPCs
    <3>. QED
      BY <3>1, ListingDomain
  <2>3. \/ now >= owed[poll.id].until
        \/ owed[poll.id].category = "unauthorized" /\ owed[poll.id].revision # poll.token.revision
    BY <2>1 DEF PauseInv, FetchUnpaused
  <2>4. owed'[poll.id] = NothingOwed => now' >= owed'[poll.id].until
    BY <1>0 DEF NothingOwed, NoTime
  <2>5. owed[poll.id].until \in Nat
    BY <1>0, <2>2 DEF Pause
  <2>. QED
    BY <1>0, <2>1, <2>2, <2>3, <2>4, <2>5 DEF FetchUnpaused
<1>. QED
  BY <1>2, <1>3 DEF PauseInv

\* A reconciled listing leaves the pauses of the credentials it keeps, and
\* the others have none.
LEMMA PauseReconciled ==
    ASSUME CacheType, NEW listing \in HostListings, Reconcile(listing), owed' = OwedAfter(listing)
    PROVE  \A id \in AuthIDs :
              \/ owed'[id] = NothingOwed
              \/ /\ owed'[id] = owed[id]
                 /\ samples'[id].incarnation # 0 <=> Held(id)
                 /\ samples'[id].revision = samples[id].revision
                 /\ samples'[id].nextRefreshAt = samples[id].nextRefreshAt
                 /\ samples'[id].lastError = samples[id].lastError
<1> TAKE id \in AuthIDs
<1>1. CASE id \notin DOMAIN listing \ Fresh(listing)
  BY <1>1 DEF OwedAfter
<1>2. CASE id \in DOMAIN listing \ Fresh(listing)
  <2>1. /\ Held(id) /\ samples'[id].incarnation = samples[id].incarnation
        /\ samples'[id].revision = samples[id].revision
        /\ samples'[id].nextRefreshAt = samples[id].nextRefreshAt
        /\ samples'[id].lastError = samples[id].lastError
    BY <1>2, ReconcileFacts
  <2>. QED
    BY <1>2, <2>1 DEF OwedAfter, Held
<1>. QED
  BY <1>1, <1>2

\* What pauses are compared by is numbers.
LEMMA PauseNumbers ==
    TypeInv => \A id \in AuthIDs :
                  /\ owed[id].revision \in Nat /\ owed[id].until \in Nat
                  /\ samples[id].revision \in Nat /\ samples[id].nextRefreshAt \in Nat
<1> SUFFICES ASSUME TypeInv, NEW id \in AuthIDs
             PROVE  /\ owed[id].revision \in Nat /\ owed[id].until \in Nat
                    /\ samples[id].revision \in Nat /\ samples[id].nextRefreshAt \in Nat
  OBVIOUS
<1>1. NumbersOrNone \subseteq Nat
  BY RouterAssumption DEF NumbersOrNone, Numbers, None
<1>2. samples[id].revision \in NumbersOrNone /\ samples[id].nextRefreshAt \in Nat
  BY SampleKinds DEF TypeInv
<1>3. owed[id] \in Pause
  BY DEF TypeInv, HostType
<1>4. owed[id].revision \in NumbersOrNone /\ owed[id].until \in Nat
  BY <1>3 DEF Pause
<1>. QED
  BY <1>1, <1>2, <1>4

\* The steps of a poll keep every pause.
LEMMA PausePoll ==
    ASSUME TypeInv, TypeInv', DiskInv, PauseInv, PollStep
    PROVE  PauseInv'
<1> DEFINE Same(id) == /\ owed'[id] = owed[id]
                       /\ samples'[id].incarnation # 0 <=> Held(id)
                       /\ samples'[id].revision = samples[id].revision
                       /\ samples'[id].nextRefreshAt = samples[id].nextRefreshAt
                       /\ samples'[id].lastError \in
                             {samples[id].lastError, NoError, "auth_get", "missing_token"}
           Kept == /\ \A id \in AuthIDs : owed'[id] = NothingOwed \/ Same(id)
                   /\ worker'.pc \in {"noting", "fetching"} =>
                         worker.pc \in {"noting", "fetching"} /\ worker'.poll = worker.poll
<1>0. /\ CacheType /\ CacheType' /\ worker \in WorkerRecord /\ poll \in PollRecord /\ poll.id \in AuthIDs
      /\ now \in Nat /\ now' = now /\ owed \in [AuthIDs -> Pause]
  BY PollFrame, PollCache DEF TypeInv, WorkerType, WorkerRecord, HostType, poll
<1>a. \A id \in AuthIDs :
         /\ owed[id].revision \in Nat /\ owed[id].until \in Nat
         /\ samples[id].revision \in Nat /\ samples[id].nextRefreshAt \in Nat
         /\ samples'[id].nextRefreshAt \in Nat
  <2>1. \A id \in AuthIDs : samples'[id] \in Entry \cup {NoSample}
    BY <1>0 DEF CacheType
  <2>2. NoSample.nextRefreshAt \in Nat
    BY DEF NoSample, NoTime
  <2>. QED
    BY <2>1, <2>2, PauseNumbers DEF Entry
<1>1. ASSUME Kept PROVE PauseInv'
  BY <1>0, <1>1, PausesCarry
<1>2. UNCHANGED <<samples, owed>> => \A id \in AuthIDs : Same(id)
  BY DEF Held
<1> HIDE DEF Same
<1>4. CASE PollBegin \/ PollRead \/ PollDefer \/ PollCheck \/ PollNote \/ PollFetch \/ PollFetchFails
  <2>1. UNCHANGED <<samples, owed>>
    BY <1>4 DEF PollBegin, PollRead, PollDefer, PollCheck, PollNote, PollFetch, PollFetchFails, cacheVars,
       environment
  <2>2. PollNote => worker'.pc \in {"passing", "fetching"} /\ worker.pc = "noting"
                    /\ (worker'.pc = "fetching" => worker'.poll = worker.poll)
    BY <1>0 DEF PollNote, EndPoll, WorkerRecord
  <2>3. ~PollNote => worker'.pc \notin {"noting", "fetching"}
    BY <1>0, <1>4 DEF PollBegin, PollRead, PollDefer, PollCheck, PollFetch, PollFetchFails, EndPoll,
       WorkerRecord
  <2>. QED
    BY <1>1, <1>2, <2>1, <2>2, <2>3
<1>5. CASE PollClaim
  <2>1. \A id \in AuthIDs : SameEntry(id)
    BY <1>0, <1>5, ClaimFacts DEF PollClaim, ClaimRevisionCheck, RevisionCheckClaimable
  <2>2. UNCHANGED owed /\ worker'.pc = "beginning"
    BY <1>0, <1>5 DEF PollClaim, environment, WorkerRecord
  <2>. QED
    BY <1>1, <2>1, <2>2 DEF Same, SameEntry, SameToken, Held
<1>6. CASE PollReadFails \/ PollReadNoToken
  <2>1. UNCHANGED owed /\ worker'.pc = "passing"
    BY <1>0, <1>6 DEF PollReadFails, PollReadNoToken, EndPoll, environment, WorkerRecord
  <2>2. \/ UNCHANGED samples
        \/ \E category \in {"auth_get", "missing_token"} :
              RecordFailureForIdentity(poll.id, poll.token, category)
    BY <1>6 DEF PollReadFails, PollReadNoToken, NotePollFailure, cacheVars
  <2>3. ASSUME NEW category \in {"auth_get", "missing_token"},
               RecordFailureForIdentity(poll.id, poll.token, category)
        PROVE  \A id \in AuthIDs : Same(id)
    <3>1. category \in Categories
      BY DEF Categories
    <3>2. /\ \A id \in AuthIDs \ {poll.id} : samples'[id] = samples[id]
          /\ SameToken(poll.id)
          /\ samples'[poll.id].nextRefreshAt = samples[poll.id].nextRefreshAt
          /\ samples'[poll.id].lastError = category
      BY <1>0, <2>3, <3>1, NoteFacts
    <3>. QED
      BY <2>1, <3>2 DEF Same, SameToken, Held
  <2>. QED
    BY <1>1, <1>2, <2>1, <2>2, <2>3
<1>7. CASE PollBind
  <2>1. UNCHANGED owed /\ worker'.pc \notin {"noting", "fetching"} /\ worker.pc = "binding"
    BY <1>0, <1>7 DEF PollBind, EndPoll, environment, WorkerRecord
  <2>2. CASE ~BindAllowed(poll.id, poll.token)
    BY <1>1, <1>2, <1>7, <2>1, <2>2 DEF PollBind, cacheVars
  <2>3. CASE BindAllowed(poll.id, poll.token)
    <3>1. BindRevision(poll.id, poll.token, poll.token.revision)
      BY <1>7, <2>3 DEF PollBind
    <3>2. poll.token.revision \in Numbers
      BY <1>0, <2>1 DEF TypeInv, WorkerType, ReadPCs, PollRecord, Token, NumbersOrNone
    <3> DEFINE old == samples[poll.id]
               new == samples'[poll.id]
               turned == Rotates(poll.id, poll.token.revision) /\ old.lastError = "unauthorized"
    <3>3. /\ \A id \in AuthIDs \ {poll.id} : samples'[id] = samples[id]
          /\ Held(poll.id) /\ new.incarnation # 0
          /\ new.revision = poll.token.revision
          /\ turned => new.lastError = NoError
          /\ ~turned => new.nextRefreshAt = old.nextRefreshAt /\ new.lastError = old.lastError
      BY <1>0, <3>1, <3>2, BindFacts
    <3>4. /\ owed[poll.id].revision \in Nat /\ old.revision \in Nat /\ poll.token.revision \in Nat
          /\ poll.token.revision >= old.revision /\ poll.token.revision # None
          /\ new.nextRefreshAt \in Nat /\ owed[poll.id].until \in Nat
      <4>1. Numbers \subseteq Nat /\ None \notin Numbers
        BY RouterAssumption DEF Numbers, None
      <4>2. poll.token.revision \in Nat /\ poll.token.revision # None
        BY <3>2, <4>1
      <4>3. poll.token.revision >= old.revision
        BY <2>1 DEF DiskInv
      <4>. QED
        BY <1>0, <1>a, <4>2, <4>3
    <3>5. /\ owed[poll.id] = NothingOwed \/ owed[poll.id].revision # None
          /\ owed[poll.id].revision <= old.revision
          /\ \/ old.nextRefreshAt >= owed[poll.id].until
             \/ owed[poll.id].category = "unauthorized" /\ old.revision > owed[poll.id].revision
          /\ old.lastError = "unauthorized" =>
                \/ owed[poll.id] = NothingOwed
                \/ owed[poll.id].category = "unauthorized" /\ old.revision = owed[poll.id].revision
          /\ owed[poll.id].category = "unauthorized" =>
                old.lastError \in {"unauthorized", "auth_get", "missing_token", NoError}
      BY <1>0 DEF PauseInv, PauseOf, RejectedBefore
    <3>6. turned <=> old.revision \notin {None, poll.token.revision} /\ old.lastError = "unauthorized"
      BY DEF Rotates
    <3>7. ASSUME NEW id \in AuthIDs, id = poll.id PROVE PauseOf(id)'
      <4> HIDE DEF old, new, turned
      <4>1. /\ owed[poll.id].revision <= new.revision
            /\ \/ new.nextRefreshAt >= owed[poll.id].until
               \/ owed[poll.id].category = "unauthorized" /\ new.revision > owed[poll.id].revision
            /\ new.lastError = "unauthorized" =>
                  \/ owed[poll.id] = NothingOwed
                  \/ owed[poll.id].category = "unauthorized" /\ new.revision = owed[poll.id].revision
            /\ owed[poll.id].category = "unauthorized" =>
                  new.lastError \in {"unauthorized", "auth_get", "missing_token", NoError}
        BY <3>3, <3>4, <3>5, <3>6 DEF NothingOwed, NoError, None, NoTime
      <4>2. /\ owed[poll.id].revision <= samples'[poll.id].revision
            /\ \/ samples'[poll.id].nextRefreshAt >= owed[poll.id].until
               \/ /\ owed[poll.id].category = "unauthorized"
                  /\ samples'[poll.id].revision > owed[poll.id].revision
            /\ samples'[poll.id].lastError = "unauthorized" =>
                  \/ owed[poll.id] = NothingOwed
                  \/ owed[poll.id].category = "unauthorized"
                     /\ samples'[poll.id].revision = owed[poll.id].revision
            /\ owed[poll.id].category = "unauthorized" =>
                  samples'[poll.id].lastError \in {"unauthorized", "auth_get", "missing_token", NoError}
            /\ samples'[poll.id].incarnation # 0
        BY <3>3, <4>1 DEF new
      <4>. QED
        BY <2>1, <3>5, <3>7, <4>2 DEF PauseOf, RejectedBefore, Held
    <3>8. ASSUME NEW id \in AuthIDs PROVE PauseOf(id)'
      <4>1. id # poll.id => PauseOf(id)'
        BY <2>1, <3>3 DEF PauseInv, PauseOf, RejectedBefore, Held
      <4>. QED
        BY <3>7, <4>1
    <3>. QED
      BY <2>1, <3>8 DEF PauseInv, FetchUnpaused
  <2>. QED
    BY <2>2, <2>3
<1>8. CASE PollAttempt
  <2>0. UNCHANGED owed /\ worker.pc = "attempting"
    BY <1>8 DEF PollAttempt, environment
  <2>1. CASE ~AttemptAllowed(poll.id, poll.token, now)
    <3>1. UNCHANGED samples /\ worker'.pc = "passing"
      BY <1>0, <1>8, <2>1 DEF PollAttempt, cacheVars, EndPoll, WorkerRecord
    <3>. QED
      BY <1>1, <1>2, <2>0, <3>1
  <2>2. CASE AttemptAllowed(poll.id, poll.token, now)
    <3>1. \A id \in AuthIDs : SameEntry(id)
      BY <1>0, <1>8, <2>2, ClaimFacts DEF PollAttempt, RecordUsageAttempt, AttemptAllowed
    <3>2. worker'.pc = "noting" /\ worker'.poll = worker.poll
      BY <1>0, <1>8, <2>2 DEF PollAttempt, WorkerRecord
    <3>3. poll.token.revision # None
      BY <2>0 DEF TypeInv, WorkerType, ReadPCs
    <3>4. /\ samples[poll.id].revision = poll.token.revision /\ now >= samples[poll.id].nextRefreshAt
          /\ samples[poll.id].nextRefreshAt \in Nat /\ owed[poll.id].until \in Nat
          /\ samples[poll.id].revision \in Nat /\ owed[poll.id].revision \in Nat
      BY <1>0, <1>a, <2>2, <3>3 DEF AttemptAllowed, SampleMatches, RefreshPaused
    <3>5. \/ now >= owed[poll.id].until
          \/ owed[poll.id].category = "unauthorized" /\ owed[poll.id].revision # poll.token.revision
      BY <1>0, <3>4 DEF PauseInv, PauseOf, RejectedBefore
    <3>6. FetchUnpaused'
      BY <1>0, <2>0, <3>2, <3>5 DEF FetchUnpaused, poll
    <3>7. \A id \in AuthIDs : PauseOf(id)'
      BY <2>0, <3>1 DEF PauseInv, PauseOf, RejectedBefore, SameEntry, SameToken, Held
    <3>. QED
      BY <3>6, <3>7 DEF PauseInv
  <2>. QED
    BY <2>1, <2>2
<1>9. CASE PollCommit
  <2>1. worker'.pc = "passing"
    BY <1>0, <1>9 DEF PollCommit, EndPoll, WorkerRecord
  <2>2. CASE ~CommitAllowed(poll.id, poll.token)
    BY <1>1, <1>2, <1>9, <2>1, <2>2 DEF PollCommit, cacheVars
  <2>3. CASE CommitAllowed(poll.id, poll.token)
    <3>1. /\ CommitWindowBatch(poll.id, poll.token, poll.result.batch, now, poll.startedAt, TRUE)
          /\ poll.result.batch \in Batch /\ poll.startedAt \in Nat
          /\ owed' = [owed EXCEPT ![poll.id] = NothingOwed]
      BY <1>0, <1>9, <2>3 DEF PollCommit, PollRecord, PollResult
    <3>2. \A id \in AuthIDs \ {poll.id} : samples'[id] = samples[id]
      BY <1>0, <3>1, CommitFacts
    <3>. QED
      BY <1>0, <1>1, <2>1, <3>1, <3>2 DEF Same, Held
  <2>. QED
    BY <2>2, <2>3
<1>10. CASE PollFail
  <2>0. worker'.pc = "passing" /\ worker.pc = "settling"
    BY <1>0, <1>10 DEF PollFail, EndPoll, WorkerRecord
  <2> DEFINE category == poll.result.failure.category
  <2>1. CASE UNCHANGED <<cacheVars, owed>>
    BY <1>1, <1>2, <2>0, <2>1 DEF cacheVars
  <2>2. CASE /\ RecordRefreshFailure(poll.id, poll.token, category, poll.result.failure.hint, now)
             /\ owed' = [owed EXCEPT ![poll.id] =
                            [revision |-> poll.token.revision, category |-> category,
                             until |-> samples'[poll.id].nextRefreshAt]]
    <3>1. category \in Categories
      BY <1>0, <1>10, RouterAssumption DEF PollFail, PollRecord, PollResult
    <3> HIDE DEF category
    <3>2. /\ \A id \in AuthIDs \ {poll.id} : samples'[id] = samples[id]
          /\ SameToken(poll.id) /\ Held(poll.id)
          /\ samples'[poll.id].lastError = category
      BY <1>0, <2>2, <3>1, FailFacts
    <3>3. poll.token.revision # None /\ samples[poll.id].revision = poll.token.revision
      <4>1. poll.token.revision # None
        BY <2>0 DEF TypeInv, WorkerType, ReadPCs
      <4>. QED
        BY <2>2, <4>1 DEF RecordRefreshFailure, SampleMatches
    <3>4. samples'[poll.id].nextRefreshAt \in Nat /\ samples[poll.id].revision \in Nat
      BY <1>0, <1>a
    <3>5. /\ owed'[poll.id].revision = poll.token.revision /\ owed'[poll.id].category = category
          /\ owed'[poll.id].until = samples'[poll.id].nextRefreshAt
          /\ \A id \in AuthIDs \ {poll.id} : owed'[id] = owed[id]
      BY <1>0, <2>2
    <3>6. ASSUME NEW id \in AuthIDs PROVE PauseOf(id)'
      <4>1. CASE id # poll.id
        BY <3>2, <3>5, <4>1 DEF PauseInv, PauseOf, RejectedBefore, Held
      <4>2. CASE id = poll.id
        BY <3>2, <3>3, <3>4, <3>5, <4>2 DEF PauseOf, SameToken, Held
      <4>. QED
        BY <4>1, <4>2
    <3>. QED
      BY <2>0, <3>6 DEF PauseInv, FetchUnpaused
  <2>. QED
    BY <1>10, <2>1, <2>2 DEF PollFail
<1>. QED
  BY <1>4, <1>5, <1>6, <1>7, <1>8, <1>9, <1>10 DEF PollStep

\* Every step keeps every pause.
LEMMA PauseInductive == TypeInv /\ DiskInv /\ PauseInv /\ [Next]_vars => PauseInv'
<1> SUFFICES ASSUME TypeInv, DiskInv, PauseInv, [Next]_vars PROVE PauseInv'
  OBVIOUS
<1> DEFINE Same(id) == /\ owed'[id] = owed[id]
                       /\ samples'[id].incarnation # 0 <=> Held(id)
                       /\ samples'[id].revision = samples[id].revision
                       /\ samples'[id].nextRefreshAt = samples[id].nextRefreshAt
                       /\ samples'[id].lastError \in
                             {samples[id].lastError, NoError, "auth_get", "missing_token"}
           NoFetch == worker'.pc \in {"noting", "fetching"} =>
                          worker.pc \in {"noting", "fetching"} /\ worker'.poll = worker.poll
<1>0. /\ TypeInv' /\ CacheType /\ now \in Nat /\ queue \in Queues
      /\ worker.listing \in HostListings /\ NoListing \in HostListings
      /\ \A g \in Gates : gates[g].listing \in HostListings
  BY NextKeepsTypes, ListingType
  DEF TypeInv, HostType, LifecycleType, WorkerType, WorkerRecord, GateType, GateRecord
<1>1. ASSUME now' >= now, \A id \in AuthIDs : owed'[id] = NothingOwed \/ Same(id), NoFetch
      PROVE  PauseInv'
  BY <1>0, <1>1, PausesCarry
<1>2. UNCHANGED <<samples, owed>> => \A id \in AuthIDs : Same(id)
  BY DEF Held
<1>3. UNCHANGED owed /\ (\A id \in AuthIDs : SameEntry(id)) => \A id \in AuthIDs : Same(id)
  BY DEF Held, SameEntry, SameToken
<1>4. ASSUME NEW listing \in HostListings, Reconcile(listing), owed' = OwedAfter(listing)
      PROVE  \A id \in AuthIDs : owed'[id] = NothingOwed \/ Same(id)
  BY <1>0, <1>4, PauseReconciled
<1>5. UNCHANGED worker => NoFetch
  OBVIOUS
<1> HIDE DEF Same, NoFetch
<1>6. CASE WorkerStep
  <2>1. UNCHANGED now /\ NoFetch /\ (WorkerReconcile \/ UNCHANGED <<samples, owed>>)
    BY <1>6, WorkerFrame DEF ReadPCs, NoFetch
  <2>2. WorkerReconcile => Reconcile(worker.listing) /\ owed' = OwedAfter(worker.listing)
    BY DEF WorkerReconcile, ReconcileDiscovery
  <2>. QED
    BY <1>0, <1>1, <1>2, <1>4, <2>1, <2>2
<1>7. CASE PollStep
  BY <1>0, <1>7, PausePoll
<1>8. CASE PickRequest
  <2>1. PICK candidates, cfg : QueueFromRequest(candidates, {}, cfg)
    BY <1>8 DEF PickRequest
  <2>2. {} \in SUBSET AuthIDs
    OBVIOUS
  <2>3. \A id \in AuthIDs : SameEntry(id)
    BY <1>0, <2>1, <2>2, RequestQueues
  <2>4. UNCHANGED <<now, owed, worker>>
    BY <1>8 DEF PickRequest, environment
  <2>. QED
    BY <1>0, <1>1, <1>3, <1>5, <2>3, <2>4
<1>9. ASSUME NEW g \in Gates, GateStep(g) PROVE PauseInv'
  <2>1. UNCHANGED <<now, worker>>
        /\ (GateReconcile(g) \/ (UNCHANGED owed /\ \A id \in AuthIDs : SameEntry(id)))
    BY <1>9, GateFrame
  <2>2. GateReconcile(g) =>
           \/ UNCHANGED <<samples, owed>>
           \/ Reconcile(gates[g].listing) /\ owed' = OwedAfter(gates[g].listing)
    BY DEF GateReconcile, ReconcileDiscovery, cacheVars
  <2>. QED
    BY <1>0, <1>1, <1>2, <1>3, <1>4, <1>5, <2>1, <2>2
<1>10. ASSUME NEW r \in Requests, RequestStep(r) PROVE PauseInv'
  <2>1. UNCHANGED <<now, owed, worker>>
    BY <1>10 DEF RequestStep, ChooseAuth, AfterAuth, Answer, Respond, CommitObservation, environment
  <2>2. UNCHANGED samples \/ \A id \in AuthIDs : Same(id)
    <3>1. ASSUME CommitObservation(r), ~UNCHANGED cacheVars PROVE \A id \in AuthIDs : Same(id)
      <4> DEFINE seen == requests[r].correlation
                 token == [identity |-> None, revision |-> None,
                           generation |-> seen.generation, incarnation |-> seen.incarnation]
      <4>1. CommitWindowBatch(seen.id, token, requests[r].batch, requests[r].observedAt, NoTime, FALSE)
        BY <3>1 DEF CommitObservation
      <4>2. /\ requests[r].batch \in Batch /\ requests[r].observedAt \in Nat
            /\ requests[r].correlation \in Correlation
        BY <3>1 DEF TypeInv, RequestType, RequestRecord, CommitObservation
      <4>3. NoTime \in Nat /\ FALSE \in BOOLEAN /\ seen.id \in AuthIDs
        BY <4>2 DEF NoTime, Correlation
      <4> HIDE DEF seen, token
      <4>4. /\ \A id \in AuthIDs \ {seen.id} : samples'[id] = samples[id]
            /\ SameToken(seen.id)
            /\ samples'[seen.id].nextRefreshAt = samples[seen.id].nextRefreshAt
            /\ samples'[seen.id].lastError \in {samples[seen.id].lastError, NoError}
        BY <1>0, <4>1, <4>2, <4>3, CommitFacts
      <4>. QED
        BY <2>1, <4>4 DEF Same, SameToken, Held
    <3>. QED
      BY <1>10, <3>1 DEF RequestStep, ChooseAuth, AfterAuth, Answer, Respond, cacheVars
  <2>. QED
    BY <1>0, <1>1, <1>2, <1>5, <2>1, <2>2
<1>11. CASE ConfigStep
  <2>1. /\ UNCHANGED now /\ (UNCHANGED worker \/ worker' = Waiting)
        /\ UNCHANGED <<samples, owed>> \/ (Reconcile(NoListing) /\ owed' = OwedAfter(NoListing))
    BY <1>11, ConfigFrame
  <2>2. worker' = Waiting => NoFetch
    BY DEF Waiting, NoFetch
  <2>. QED
    BY <1>0, <1>1, <1>2, <1>4, <1>5, <2>1, <2>2
<1>12. ASSUME NEW id \in AuthIDs, FileStep(id) PROVE PauseInv'
  BY <1>0, <1>1, <1>2, <1>5, <1>12, WriteFacts
<1>13. CASE Tick \/ UNCHANGED vars
  <2>1. UNCHANGED <<samples, owed, worker>> /\ now' \in {now, now + 1}
    BY <1>13 DEF Tick, vars, cacheVars
  <2>. QED
    BY <1>0, <1>1, <1>2, <1>5, <2>1
<1>. QED
  BY <1>6, <1>7, <1>8, <1>9, <1>10, <1>11, <1>12, <1>13 DEF Next

\* Every entry keeps the pause that upstream imposed on it.
LEMMA PausesKept == Spec => []PauseInv
<1>1. Init => PauseInv
  BY DEF Init, CacheInit, PauseInv, PauseOf, FetchUnpaused, RejectedBefore, NothingOwed, NoSample,
     Waiting, None, NoTime, NoError, Held
<1>. QED
  BY <1>1, RouterTypes, NothingAhead, PauseInductive, PTL DEF Spec

\* No path fetches usage for an account during the refresh pause upstream
\* imposed on it, but with a new token after a rejection: startup and reload
\* passes, request-driven refreshes and revision checks included.
THEOREM FetchesHonourPauses == Spec => []PauseHonoured
<1>1. PauseInv => PauseHonoured
  BY DEF PauseInv, FetchUnpaused, PauseHonoured
<1>. QED
  BY <1>1, PausesKept, PTL

\* The pause of a rejected token ends when a new token is bound, unless a
\* failed read or a late response has overwritten the reason for it.
THEOREM RejectionsEnd == Spec => []RejectionEndsWithToken
<1>1. PauseInv => RejectionEndsWithToken
  BY DEF PauseInv, PauseOf, RejectionEndsWithToken, Members, NothingOwed, NoError
<1>. QED
  BY <1>1, PausesKept, PTL

-----------------------------------------------------------------------------
(* No pause is cut short *)

\* What is fetched, or was, is not paused: the worker alone imposes pauses.
DuePCs == {"noting", "fetching", "settling"}
FetchDue == worker.pc \in DuePCs => ~RefreshPaused(samples[poll.id], now)

\* What a step may do to the pause of an entry: leave it; drop it with the
\* credential; drop it for a token that replaces a rejected one; or settle the
\* fetch that the worker made for it.
PauseTurns(id) ==
    \/ samples'[id].nextRefreshAt = samples[id].nextRefreshAt
    \/ /\ samples'[id].nextRefreshAt = NoTime
       /\ Held(id) => samples'[id].identity # samples[id].identity
    \/ /\ worker.pc = "binding"
       /\ samples[id].lastError = "unauthorized"
       /\ samples'[id].revision # samples[id].revision
    \/ worker.pc = "settling" /\ worker'.pc = "passing" /\ id = poll.id

\* A fetch goes on, for the same entry, or starts for one that is not paused.
FetchGoesOn ==
    worker'.pc \in DuePCs =>
        \/ worker.pc \in DuePCs /\ poll'.id = poll.id
        \/ /\ worker.pc = "attempting" /\ poll'.id = poll.id
           /\ ~RefreshPaused(samples[poll.id], now)

\* A reconciled listing drops the pauses of the credentials it does not keep.
LEMMA ReconcileTurns ==
    ASSUME CacheType, NEW listing \in HostListings, Reconcile(listing), NEW id \in AuthIDs
    PROVE  PauseTurns(id)
<1>0. Held(id) => samples[id].identity # None
  <2>1. Held(id) => samples[id].identity \in Numbers
    BY SampleKinds DEF Entry
  <2>. QED
    BY <2>1, RouterAssumption DEF Numbers, None
<1>1. CASE id \notin DOMAIN listing
  <2>1. samples'[id].nextRefreshAt = NoTime /\ samples'[id].identity = None
    BY <1>1, ReconcileFacts DEF NoSample
  <2>. QED
    BY <1>0, <2>1 DEF PauseTurns
<1>2. CASE id \in Fresh(listing)
  <2>1. /\ samples'[id].identity = listing[id].identity /\ samples'[id].nextRefreshAt = NoTime
        /\ ~Held(id) \/ samples[id].identity # listing[id].identity
    BY <1>2, ReconcileFacts DEF Fresh, Replaced, Members
  <2>. QED
    BY <2>1 DEF PauseTurns
<1>3. CASE id \in DOMAIN listing \ Fresh(listing)
  BY <1>3, ReconcileFacts DEF PauseTurns
<1>. QED
  BY <1>1, <1>2, <1>3

\* The steps of a poll.
LEMMA PollTurns ==
    ASSUME TypeInv, PollStep
    PROVE  (\A id \in AuthIDs : PauseTurns(id)) /\ FetchGoesOn
<1>0. /\ CacheType /\ worker \in WorkerRecord /\ poll \in PollRecord /\ poll.id \in AuthIDs
      /\ now \in Nat /\ \A id \in AuthIDs \ {poll.id} : samples'[id] = samples[id]
  BY PollCache DEF TypeInv, WorkerType, WorkerRecord, HostType, poll
<1>1. \A id \in AuthIDs : samples'[id].nextRefreshAt = samples[id].nextRefreshAt => PauseTurns(id)
  BY DEF PauseTurns
<1>2. PauseTurns(poll.id) => \A id \in AuthIDs : PauseTurns(id)
  BY <1>0, <1>1
<1>3. CASE PollBegin \/ PollRead \/ PollDefer \/ PollCheck \/ PollNote \/ PollFetch \/ PollFetchFails
  <2>1. UNCHANGED samples
    BY <1>3 DEF PollBegin, PollRead, PollDefer, PollCheck, PollNote, PollFetch, PollFetchFails, cacheVars
  <2>2. CASE PollNote \/ PollFetch \/ PollFetchFails
    <3>1. worker.pc \in {"noting", "fetching"}
      BY <2>2 DEF PollNote, PollFetch, PollFetchFails
    <3>2. worker'.pc = "passing" \/ poll'.id = poll.id
      <4>1. CASE PollNote
        BY <1>0, <4>1 DEF PollNote, EndPoll, WorkerRecord, poll
      <4>2. ASSUME NEW result, worker' = [worker EXCEPT !.pc = "settling", !.poll.result = result]
            PROVE  poll'.id = poll.id
        <5>1. worker'.poll = [poll EXCEPT !.result = result]
          BY <1>0, <4>2 DEF WorkerRecord, poll
        <5>. QED
          BY <1>0, <5>1 DEF PollRecord, poll
      <4>3. CASE PollFetch
        BY <4>2, <4>3 DEF PollFetch
      <4>4. CASE PollFetchFails
        <5>1. CASE Cancelled /\ EndPoll
          BY <1>0, <5>1 DEF EndPoll, WorkerRecord
        <5>2. CASE ~(Cancelled /\ EndPoll)
          BY <4>2, <4>4, <5>2 DEF PollFetchFails
        <5>. QED
          BY <5>1, <5>2
      <4>. QED
        BY <2>2, <4>1, <4>3, <4>4
    <3>. QED
      BY <1>1, <2>1, <3>1, <3>2 DEF FetchGoesOn, DuePCs
  <2>3. CASE PollBegin \/ PollRead \/ PollDefer \/ PollCheck
    <3>1. worker'.pc \notin DuePCs
      BY <1>0, <2>3 DEF PollBegin, PollRead, PollDefer, PollCheck, EndPoll, WorkerRecord, DuePCs
    <3>. QED
      BY <1>1, <2>1, <3>1 DEF FetchGoesOn
  <2>. QED
    BY <1>3, <2>2, <2>3
<1>4. CASE PollClaim
  <2>1. \A id \in AuthIDs : SameEntry(id)
    BY <1>0, <1>4, ClaimFacts DEF PollClaim, ClaimRevisionCheck, RevisionCheckClaimable
  <2>2. worker'.pc = "beginning"
    BY <1>0, <1>4 DEF PollClaim, WorkerRecord
  <2>. QED
    BY <1>1, <2>1, <2>2 DEF SameEntry, FetchGoesOn, DuePCs
<1>5. CASE PollReadFails \/ PollReadNoToken
  <2>1. worker'.pc = "passing"
    BY <1>0, <1>5 DEF PollReadFails, PollReadNoToken, EndPoll, WorkerRecord
  <2>2. \/ UNCHANGED samples
        \/ \E category \in {"auth_get", "missing_token"} :
              RecordFailureForIdentity(poll.id, poll.token, category)
    BY <1>5 DEF PollReadFails, PollReadNoToken, NotePollFailure, cacheVars
  <2>3. {"auth_get", "missing_token"} \subseteq Categories
    BY DEF Categories
  <2>4. samples'[poll.id].nextRefreshAt = samples[poll.id].nextRefreshAt
    BY <1>0, <2>2, <2>3, NoteFacts
  <2>. QED
    BY <1>0, <1>1, <1>2, <2>1, <2>4 DEF FetchGoesOn, DuePCs
<1>6. CASE PollBind
  <2>1. worker'.pc \notin DuePCs /\ worker.pc = "binding"
    BY <1>0, <1>6 DEF PollBind, EndPoll, WorkerRecord, DuePCs
  <2>2. CASE ~BindAllowed(poll.id, poll.token)
    BY <1>1, <1>6, <2>1, <2>2 DEF PollBind, cacheVars, FetchGoesOn
  <2>3. CASE BindAllowed(poll.id, poll.token)
    <3>1. BindRevision(poll.id, poll.token, poll.token.revision)
      BY <1>6, <2>3 DEF PollBind
    <3>2. poll.token.revision \in Numbers
      BY <1>0, <2>1 DEF TypeInv, WorkerType, ReadPCs, PollRecord, Token, NumbersOrNone
    <3> DEFINE turned == /\ Rotates(poll.id, poll.token.revision)
                         /\ samples[poll.id].lastError = "unauthorized"
    <3>3. /\ samples'[poll.id].revision = poll.token.revision
          /\ ~turned => samples'[poll.id].nextRefreshAt = samples[poll.id].nextRefreshAt
      BY <1>0, <3>1, <3>2, BindFacts
    <3>4. turned => /\ samples[poll.id].revision # poll.token.revision
                    /\ samples[poll.id].lastError = "unauthorized"
      BY DEF Rotates
    <3>5. PauseTurns(poll.id)
      BY <2>1, <3>3, <3>4 DEF PauseTurns
    <3>. QED
      BY <1>2, <2>1, <3>5 DEF FetchGoesOn
  <2>. QED
    BY <2>2, <2>3
<1>7. CASE PollAttempt
  <2>0. worker.pc = "attempting"
    BY <1>7 DEF PollAttempt
  <2>1. CASE ~AttemptAllowed(poll.id, poll.token, now)
    <3>1. UNCHANGED samples /\ worker'.pc = "passing"
      BY <1>0, <1>7, <2>1 DEF PollAttempt, cacheVars, EndPoll, WorkerRecord
    <3>. QED
      BY <1>1, <3>1 DEF FetchGoesOn, DuePCs
  <2>2. CASE AttemptAllowed(poll.id, poll.token, now)
    <3>1. \A id \in AuthIDs : SameEntry(id)
      BY <1>0, <1>7, <2>2, ClaimFacts DEF PollAttempt, RecordUsageAttempt, AttemptAllowed
    <3>2. worker'.poll = worker.poll
      BY <1>0, <1>7, <2>2 DEF PollAttempt, WorkerRecord
    <3>3. ~RefreshPaused(samples[poll.id], now)
      BY <2>2 DEF AttemptAllowed
    <3>. QED
      BY <1>1, <2>0, <3>1, <3>2, <3>3 DEF SameEntry, FetchGoesOn, poll
  <2>. QED
    BY <2>1, <2>2
<1>8. CASE PollCommit \/ PollFail
  <2>1. worker'.pc = "passing" /\ worker.pc = "settling"
    BY <1>0, <1>8 DEF PollCommit, PollFail, EndPoll, WorkerRecord
  <2>. QED
    BY <1>2, <2>1 DEF PauseTurns, FetchGoesOn, DuePCs
<1>. QED
  BY <1>3, <1>4, <1>5, <1>6, <1>7, <1>8 DEF PollStep

\* Every step.
LEMMA StepTurns ==
    TypeInv /\ [Next]_vars =>
        /\ \A id \in AuthIDs : PauseTurns(id)
        /\ FetchGoesOn
        /\ now' >= now
<1> SUFFICES ASSUME TypeInv, [Next]_vars
             PROVE  /\ \A id \in AuthIDs : PauseTurns(id)
                    /\ FetchGoesOn
                    /\ now' >= now
  OBVIOUS
<1> DEFINE Turns == \A id \in AuthIDs : PauseTurns(id)
<1>0. /\ CacheType /\ now \in Nat /\ queue \in Queues
      /\ worker.listing \in HostListings /\ NoListing \in HostListings
      /\ \A g \in Gates : gates[g].listing \in HostListings
  BY ListingType
  DEF TypeInv, HostType, LifecycleType, WorkerType, WorkerRecord, GateType, GateRecord
<1>1. UNCHANGED worker => FetchGoesOn
  BY DEF FetchGoesOn, DuePCs, poll
<1>2. (\A id \in AuthIDs : samples'[id].nextRefreshAt = samples[id].nextRefreshAt) => Turns
  BY DEF PauseTurns
<1>3. (\A id \in AuthIDs : SameEntry(id)) => Turns
  BY <1>2 DEF SameEntry
<1>4. ASSUME NEW listing \in HostListings, Reconcile(listing) PROVE Turns
  BY <1>0, <1>4, ReconcileTurns
<1>5. now' = now => now' >= now
  BY <1>0
<1> HIDE DEF Turns
<1>6. CASE WorkerStep
  <2>1. UNCHANGED now /\ worker'.pc \notin DuePCs /\ (WorkerReconcile \/ UNCHANGED samples)
    BY <1>6, WorkerFrame DEF ReadPCs, DuePCs
  <2>2. WorkerReconcile => Reconcile(worker.listing)
    BY DEF WorkerReconcile, ReconcileDiscovery
  <2>3. FetchGoesOn
    BY <2>1 DEF FetchGoesOn
  <2>. QED
    BY <1>0, <1>2, <1>4, <1>5, <2>1, <2>2, <2>3 DEF Turns
<1>7. CASE PollStep
  BY <1>5, <1>7, PollFrame, PollTurns
<1>8. CASE PickRequest
  <2>1. PICK candidates, cfg : QueueFromRequest(candidates, {}, cfg)
    BY <1>8 DEF PickRequest
  <2>2. {} \in SUBSET AuthIDs
    OBVIOUS
  <2>3. \A id \in AuthIDs : SameEntry(id)
    BY <1>0, <2>1, <2>2, RequestQueues
  <2>4. UNCHANGED <<now, worker>>
    BY <1>8 DEF PickRequest, environment
  <2>. QED
    BY <1>1, <1>3, <1>5, <2>3, <2>4 DEF Turns
<1>9. ASSUME NEW g \in Gates, GateStep(g) PROVE Turns /\ FetchGoesOn /\ now' >= now
  <2>1. UNCHANGED <<now, worker>> /\ (GateReconcile(g) \/ \A id \in AuthIDs : SameEntry(id))
    BY <1>9, GateFrame
  <2>2. GateReconcile(g) => UNCHANGED samples \/ Reconcile(gates[g].listing)
    BY DEF GateReconcile, ReconcileDiscovery, cacheVars
  <2>. QED
    BY <1>0, <1>1, <1>2, <1>3, <1>4, <1>5, <2>1, <2>2
<1>10. ASSUME NEW r \in Requests, RequestStep(r) PROVE Turns /\ FetchGoesOn /\ now' >= now
  <2>1. UNCHANGED <<now, worker>>
    BY <1>10 DEF RequestStep, ChooseAuth, AfterAuth, Answer, Respond, CommitObservation, environment
  <2>2. UNCHANGED samples \/ \A id \in AuthIDs : samples'[id].nextRefreshAt = samples[id].nextRefreshAt
    <3>1. ASSUME CommitObservation(r), ~UNCHANGED cacheVars
          PROVE  \A id \in AuthIDs : samples'[id].nextRefreshAt = samples[id].nextRefreshAt
      <4> DEFINE seen == requests[r].correlation
                 token == [identity |-> None, revision |-> None,
                           generation |-> seen.generation, incarnation |-> seen.incarnation]
      <4>1. CommitWindowBatch(seen.id, token, requests[r].batch, requests[r].observedAt, NoTime, FALSE)
        BY <3>1 DEF CommitObservation
      <4>2. /\ requests[r].batch \in Batch /\ requests[r].observedAt \in Nat
            /\ requests[r].correlation \in Correlation
        BY <3>1 DEF TypeInv, RequestType, RequestRecord, CommitObservation
      <4>3. NoTime \in Nat /\ FALSE \in BOOLEAN /\ seen.id \in AuthIDs
        BY <4>2 DEF NoTime, Correlation
      <4> HIDE DEF seen, token
      <4>. QED
        BY <1>0, <4>1, <4>2, <4>3, CommitFacts
    <3>. QED
      BY <1>10, <3>1 DEF RequestStep, ChooseAuth, AfterAuth, Answer, Respond, cacheVars
  <2>. QED
    BY <1>1, <1>2, <1>5, <2>1, <2>2
<1>11. CASE ConfigStep
  <2>1. /\ UNCHANGED now /\ (UNCHANGED worker \/ worker' = Waiting)
        /\ UNCHANGED samples \/ Reconcile(NoListing)
    BY <1>11, ConfigFrame
  <2>2. worker' = Waiting => FetchGoesOn
    BY DEF Waiting, FetchGoesOn, DuePCs
  <2>. QED
    BY <1>0, <1>1, <1>2, <1>4, <1>5, <2>1, <2>2 DEF Turns
<1>12. ASSUME NEW id \in AuthIDs, FileStep(id) PROVE Turns /\ FetchGoesOn /\ now' >= now
  BY <1>1, <1>2, <1>5, <1>12, WriteFacts
<1>13. CASE Tick \/ UNCHANGED vars
  <2>1. UNCHANGED <<samples, worker>> /\ now' \in {now, now + 1}
    BY <1>13 DEF Tick, vars, cacheVars
  <2>. QED
    BY <1>0, <1>1, <1>2, <2>1 DEF Turns
<1>. QED
  BY <1>6, <1>7, <1>8, <1>9, <1>10, <1>11, <1>12, <1>13 DEF Next, FetchGoesOn, Turns

\* When entries are compared by their pauses, they are numbers.
LEMMA SampleNumbers ==
    TypeInv /\ TypeInv' => \A id \in AuthIDs : /\ samples[id].nextRefreshAt \in Nat
                                               /\ samples'[id].nextRefreshAt \in Nat
<1> SUFFICES ASSUME TypeInv, TypeInv', NEW id \in AuthIDs
             PROVE  samples[id].nextRefreshAt \in Nat /\ samples'[id].nextRefreshAt \in Nat
  OBVIOUS
<1>1. /\ samples[id] \in Entry \cup {NoSample}
      /\ samples'[id] \in Entry \cup {NoSample}
  BY DEF TypeInv, CacheType
<1>. QED
  BY <1>1 DEF Entry, NoSample, NoTime

\* A pause starts only when the fetch it is imposed for is over, and nothing
\* extends it during a fetch.
LEMMA DueInductive == TypeInv /\ TypeInv' /\ FetchDue /\ [Next]_vars => FetchDue'
<1> SUFFICES ASSUME TypeInv, TypeInv', FetchDue, [Next]_vars, worker'.pc \in DuePCs
             PROVE  ~RefreshPaused(samples'[poll'.id], now')
  BY DEF FetchDue
<1>1. FetchGoesOn /\ now' >= now /\ now \in Nat /\ now' \in Nat
  BY StepTurns DEF TypeInv, HostType
<1>2. /\ poll'.id = poll.id /\ worker.pc \in DuePCs \cup {"attempting"}
      /\ ~RefreshPaused(samples[poll.id], now)
  BY <1>1 DEF FetchGoesOn, FetchDue
<1>3. poll.id \in AuthIDs
  <2>1. poll.id \in DOMAIN worker.listing /\ worker.listing \in HostListings
    BY <1>2 DEF TypeInv, WorkerType, WorkerRecord, PollPCs, DuePCs
  <2>. QED
    BY <2>1, ListingDomain
<1>4. samples[poll.id].nextRefreshAt \in Nat /\ samples'[poll.id].nextRefreshAt \in Nat
  BY <1>3, SampleNumbers
<1>5. samples'[poll.id].nextRefreshAt \in {samples[poll.id].nextRefreshAt, NoTime}
  BY <1>2, <1>3, StepTurns DEF PauseTurns, DuePCs
<1>. QED
  BY <1>1, <1>2, <1>4, <1>5 DEF RefreshPaused, NoTime

\* No fetch is under way for an entry that is paused.
LEMMA FetchesAreDue == Spec => []FetchDue
<1>1. Init => FetchDue
  BY DEF Init, FetchDue, Waiting, DuePCs
<1>. QED
  BY <1>1, RouterTypes, DueInductive, PTL DEF Spec

\* A refresh pause ends early only when another token is bound in the place of
\* the rejected one, or with its credential: for any accounts and bounds, and
\* however polls, responses, listings and reloads interleave.
THEOREM PausesAreKept == Spec => PauseKept
<1>1. TypeInv /\ TypeInv' /\ FetchDue /\ [Next]_vars =>
         [\A id \in Members :
             /\ RefreshPaused(samples[id], now)
             /\ samples'[id].nextRefreshAt < samples[id].nextRefreshAt
             => \/ samples'[id].identity # samples[id].identity
                \/ /\ samples[id].lastError = "unauthorized"
                   /\ samples'[id].revision # samples[id].revision]_vars
  <2> SUFFICES ASSUME TypeInv, TypeInv', FetchDue, [Next]_vars, NEW id \in Members,
                      RefreshPaused(samples[id], now),
                      samples'[id].nextRefreshAt < samples[id].nextRefreshAt
               PROVE  \/ samples'[id].identity # samples[id].identity
                      \/ /\ samples[id].lastError = "unauthorized"
                         /\ samples'[id].revision # samples[id].revision
    OBVIOUS
  <2>1. id \in AuthIDs /\ Held(id) /\ PauseTurns(id)
    BY StepTurns DEF Members
  <2>2. samples'[id].nextRefreshAt # samples[id].nextRefreshAt
    BY <2>1, SampleNumbers
  <2>3. ~(worker.pc = "settling" /\ id = poll.id)
    BY DEF FetchDue, DuePCs
  <2>. QED
    BY <2>1, <2>2, <2>3 DEF PauseTurns
<1>. QED
  BY <1>1, RouterTypes, FetchesAreDue, PTL DEF Spec, PauseKept

-----------------------------------------------------------------------------
(* Whose evidence the cache holds, and how recent *)

KeptWindows(id) ==
    /\ samples'[id].incarnation = samples[id].incarnation
    /\ samples'[id].identity = samples[id].identity
    /\ samples'[id].windows = samples[id].windows

NewEntry(id) ==
    /\ samples'[id].windows = NoWindows
    /\ samples'[id].incarnation = 0 \/ samples'[id].incarnation > nextIncarnation

KeptOrNew(id) == KeptWindows(id) \/ NewEntry(id)

Landed(id, batch, at, startedAt, isPoll) ==
    /\ Held(id) /\ SameToken(id)
    /\ \A s \in Slots :
          LET next == [batch[s] EXCEPT !.sampledAt = at]
          IN  IF Lands(samples[id].windows[s], next, startedAt, isPoll)
              THEN samples'[id].windows[s] = next
              ELSE samples'[id].windows[s] = samples[id].windows[s]

\* A committed batch lands.
LEMMA CommitLands ==
    ASSUME CacheType, NEW id \in AuthIDs, NEW token, NEW batch \in Batch, NEW at \in Nat,
           NEW startedAt \in Nat, NEW isPoll \in BOOLEAN,
           CommitWindowBatch(id, token, batch, at, startedAt, isPoll)
    PROVE  Landed(id, batch, at, startedAt, isPoll)
BY CommitFacts DEF Landed

PollLanded ==
    /\ worker.pc = "settling" /\ poll.result.kind = "usage"
    /\ samples[poll.id].identity = poll.token.identity
    /\ Landed(poll.id, poll.result.batch, now, poll.startedAt, TRUE)

ObservationLanded(r) ==
    /\ requests[r].pc = "observed" /\ requests'[r].pc = "done"
    /\ samples[requests[r].correlation.id].incarnation = requests[r].correlation.incarnation
    /\ Landed(requests[r].correlation.id, requests[r].batch, requests[r].observedAt, NoTime, FALSE)

\* What a step may do to the windows of an entry.
WindowStep(id) ==
    \/ KeptWindows(id)
    \/ NewEntry(id)
    \/ id = poll.id /\ PollLanded
    \/ \E r \in Requests : id = requests[r].correlation.id /\ ObservationLanded(r)

\* A reconciled listing keeps windows with their entry.
LEMMA WindowsReconciled ==
    ASSUME CacheType, NEW listing \in HostListings, Reconcile(listing)
    PROVE  \A id \in AuthIDs : KeptWindows(id) \/ NewEntry(id)
<1> TAKE id \in AuthIDs
<1>1. CASE id \notin DOMAIN listing
  BY <1>1, ReconcileFacts DEF NewEntry, NoSample
<1>2. CASE id \in Fresh(listing)
  BY <1>2, ReconcileFacts DEF NewEntry
<1>3. CASE id \in DOMAIN listing \ Fresh(listing)
  <2>1. samples'[id].identity = listing[id].identity
    BY <1>3, ReconcileFacts
  <2>2. /\ samples[id].identity = listing[id].identity
        /\ samples'[id].incarnation = samples[id].incarnation
        /\ samples'[id].windows = samples[id].windows
    BY <1>3, ReconcileFacts
  <2>. QED
    BY <2>1, <2>2 DEF KeptWindows
<1>. QED
  BY <1>1, <1>2, <1>3

\* What a step of a poll may do to the windows of an entry.
PolledWindows(id) == KeptOrNew(id) \/ (id = poll.id /\ PollLanded)

\* A poll changes the windows of its credential when it binds another token
\* or commits what it fetched.
LEMMA WindowsPolled ==
    ASSUME TypeInv, PollStep, NEW id \in AuthIDs
    PROVE  PolledWindows(id)
<1>0. /\ CacheType /\ worker \in WorkerRecord /\ poll \in PollRecord /\ poll.id \in AuthIDs
      /\ now \in Nat
  BY PollCache DEF TypeInv, WorkerType, WorkerRecord, HostType, poll
<1>1. SameToken(id) /\ samples'[id].windows = samples[id].windows => PolledWindows(id)
  BY DEF PolledWindows, KeptOrNew, KeptWindows, SameToken
<1>2. UNCHANGED samples => PolledWindows(id)
  BY DEF PolledWindows, KeptOrNew, KeptWindows
<1>3. CASE id # poll.id
  BY <1>3, PollCache DEF PolledWindows, KeptOrNew, KeptWindows
<1>4. CASE PollBegin \/ PollRead \/ PollDefer \/ PollCheck \/ PollNote \/ PollFetch \/ PollFetchFails
  BY <1>2, <1>4 DEF PollBegin, PollRead, PollDefer, PollCheck, PollNote, PollFetch, PollFetchFails,
     cacheVars
<1>5. CASE PollClaim
  <2>1. SameEntry(id)
    BY <1>0, <1>5, ClaimFacts DEF PollClaim, ClaimRevisionCheck, RevisionCheckClaimable
  <2>. QED
    BY <1>1, <2>1 DEF SameEntry
<1>6. CASE PollAttempt
  <2>1. UNCHANGED samples \/ SameEntry(id)
    BY <1>0, <1>6, ClaimFacts DEF PollAttempt, RecordUsageAttempt, AttemptAllowed, cacheVars
  <2>. QED
    BY <1>1, <1>2, <2>1 DEF SameEntry
<1>7. CASE PollReadFails \/ PollReadNoToken
  <2>1. \/ UNCHANGED samples
        \/ \E category \in {"auth_get", "missing_token"} :
              RecordFailureForIdentity(poll.id, poll.token, category)
    BY <1>7 DEF PollReadFails, PollReadNoToken, NotePollFailure, cacheVars
  <2>2. ASSUME NEW category \in {"auth_get", "missing_token"}, id = poll.id,
               RecordFailureForIdentity(poll.id, poll.token, category)
        PROVE  PolledWindows(id)
    <3>1. category \in Categories
      BY DEF Categories
    <3>. QED
      BY <1>0, <1>1, <2>2, <3>1, NoteFacts
  <2>. QED
    BY <1>2, <1>3, <2>1, <2>2
<1>8. CASE PollBind /\ id = poll.id
  <2>1. CASE BindAllowed(poll.id, poll.token)
    <3>1. poll.token.revision \in Numbers /\ BindRevision(poll.id, poll.token, poll.token.revision)
      BY <1>0, <1>8, <2>1 DEF TypeInv, WorkerType, ReadPCs, PollBind, PollRecord, Token, NumbersOrNone
    <3>2. /\ samples'[poll.id].identity = samples[poll.id].identity
          /\ \/ /\ samples'[poll.id].incarnation = samples[poll.id].incarnation
                /\ samples'[poll.id].windows = samples[poll.id].windows
             \/ /\ samples'[poll.id].incarnation > nextIncarnation
                /\ samples'[poll.id].windows = NoWindows
      BY <1>0, <3>1, BindFacts
    <3>. QED
      BY <1>8, <3>2 DEF PolledWindows, KeptOrNew, KeptWindows, NewEntry
  <2>2. CASE ~BindAllowed(poll.id, poll.token)
    BY <1>2, <1>8, <2>2 DEF PollBind, cacheVars
  <2>. QED
    BY <2>1, <2>2
<1>9. CASE PollCommit /\ id = poll.id
  <2>1. CASE CommitAllowed(poll.id, poll.token)
    <3>1. /\ worker.pc = "settling" /\ poll.result.kind = "usage"
          /\ CommitWindowBatch(poll.id, poll.token, poll.result.batch, now, poll.startedAt, TRUE)
      BY <1>9, <2>1 DEF PollCommit
    <3>2. poll.result.batch \in Batch /\ poll.startedAt \in Nat
      BY <1>0, <3>1 DEF PollRecord, PollResult
    <3>3. samples[poll.id].identity = poll.token.identity
      <4>1. poll.token.identity # None
        <5>1. /\ poll.token.identity = worker.listing[poll.id].identity
              /\ poll.id \in DOMAIN worker.listing /\ worker.listing \in HostListings
          BY <1>0, <3>1 DEF TypeInv, WorkerType, WorkerRecord, ReadPCs, PollPCs
        <5>2. worker.listing[poll.id] \in ListedAuth
          BY <5>1, ListingDomain
        <5>. QED
          BY <5>1, <5>2 DEF ListedAuth, Numbers, None
      <4>. QED
        BY <2>1, <4>1 DEF CommitAllowed, SampleMatches
    <3>4. TRUE \in BOOLEAN
      OBVIOUS
    <3>5. Landed(poll.id, poll.result.batch, now, poll.startedAt, TRUE)
      BY <1>0, <3>1, <3>2, <3>4, CommitLands
    <3>. QED
      BY <1>9, <3>1, <3>3, <3>5 DEF PolledWindows, KeptOrNew, PollLanded
  <2>2. CASE ~CommitAllowed(poll.id, poll.token)
    BY <1>2, <1>9, <2>2 DEF PollCommit, cacheVars
  <2>. QED
    BY <2>1, <2>2
<1>10. CASE PollFail /\ id = poll.id
  <2>1. \/ UNCHANGED samples
        \/ /\ worker.pc = "settling" /\ poll.result.kind = "failure"
           /\ RecordRefreshFailure(poll.id, poll.token, poll.result.failure.category,
                                   poll.result.failure.hint, now)
    BY <1>10 DEF PollFail, cacheVars
  <2>2. poll.result.kind = "failure" => poll.result.failure.category \in Categories
    BY <1>0, RouterAssumption DEF PollRecord, PollResult
  <2>3. CASE RecordRefreshFailure(poll.id, poll.token, poll.result.failure.category,
                                  poll.result.failure.hint, now)
             /\ poll.result.kind = "failure"
    <3>1. SameToken(poll.id) /\ samples'[poll.id].windows = samples[poll.id].windows
      BY <1>0, <2>2, <2>3, FailFacts
    <3>. QED
      BY <1>1, <1>10, <3>1
  <2>. QED
    BY <1>2, <2>1, <2>3
<1>. QED
  BY <1>3, <1>4, <1>5, <1>6, <1>7, <1>8, <1>9, <1>10 DEF PollStep

\* A request changes windows when its observation lands.
LEMMA WindowsObserved ==
    ASSUME TypeInv, NEW r \in Requests, RequestStep(r)
    PROVE  \/ UNCHANGED samples
           \/ /\ ObservationLanded(r) /\ requests[r].correlation.id \in AuthIDs
              /\ \A other \in AuthIDs \ {requests[r].correlation.id} : samples'[other] = samples[other]
<1>1. ASSUME CommitObservation(r), ~UNCHANGED samples
      PROVE  /\ ObservationLanded(r) /\ requests[r].correlation.id \in AuthIDs
             /\ \A other \in AuthIDs \ {requests[r].correlation.id} : samples'[other] = samples[other]
  <2> DEFINE seen == requests[r].correlation
             token == [identity |-> None, revision |-> None,
                       generation |-> seen.generation, incarnation |-> seen.incarnation]
  <2>0. requests[r].pc = "observed" /\ requests'[r].pc = "done"
    BY <1>1 DEF CommitObservation, NoRequest, TypeInv, RequestType
  <2>1. /\ requests[r].pc = "observed"
        /\ CommitAllowed(seen.id, token)
        /\ CommitWindowBatch(seen.id, token, requests[r].batch, requests[r].observedAt, NoTime, FALSE)
    BY <1>1 DEF CommitObservation, cacheVars
  <2>2. CacheType /\ requests[r].batch \in Batch /\ requests[r].observedAt \in Nat
        /\ requests[r].correlation \in Correlation
    BY <2>1 DEF TypeInv, RequestType, RequestRecord
  <2>3. NoTime \in Nat /\ FALSE \in BOOLEAN /\ seen.id \in AuthIDs
    BY <2>2 DEF NoTime, Correlation
  <2>4. samples[seen.id].incarnation = seen.incarnation
    BY <2>1 DEF CommitAllowed
  <2> HIDE DEF seen, token
  <2>5. Landed(seen.id, requests[r].batch, requests[r].observedAt, NoTime, FALSE)
    <3> DEFINE only == seen.id
               batch == requests[r].batch
               at == requests[r].observedAt
               isPoll == FALSE
    <3>1. /\ CommitWindowBatch(only, token, batch, at, NoTime, isPoll)
          /\ only \in AuthIDs /\ batch \in Batch /\ at \in Nat /\ isPoll \in BOOLEAN
      BY <2>1, <2>2, <2>3
    <3> HIDE DEF only, batch, at, isPoll
    <3>2. Landed(only, batch, at, NoTime, isPoll)
      BY <2>2, <2>3, <3>1, CommitLands
    <3>. QED
      BY <3>2 DEF only, batch, at, isPoll
  <2>6. \A other \in AuthIDs \ {seen.id} : samples'[other] = samples[other]
    BY <2>1, <2>2, <2>3, CommitFacts
  <2>7. ObservationLanded(r)
    BY <2>0, <2>4, <2>5 DEF ObservationLanded, seen
  <2>. QED
    BY <2>3, <2>6, <2>7 DEF seen
<1>. QED
  BY <1>1 DEF RequestStep, ChooseAuth, AfterAuth, Answer, Respond, cacheVars

\* No other step changes the windows of an entry, except with the entry.
LEMMA WindowsElsewhere ==
    ASSUME TypeInv, [Next]_vars, ~PollStep, ~\E r \in Requests : RequestStep(r)
    PROVE  \A id \in AuthIDs : KeptOrNew(id)
<1> TAKE id \in AuthIDs
<1>0. /\ CacheType /\ now \in Nat /\ queue \in Queues
      /\ worker.listing \in HostListings /\ NoListing \in HostListings
      /\ \A g \in Gates : gates[g].listing \in HostListings
  BY ListingType
  DEF TypeInv, HostType, LifecycleType, WorkerType, WorkerRecord, GateType, GateRecord
<1>1. UNCHANGED samples => KeptOrNew(id)
  BY DEF KeptOrNew, KeptWindows
<1>2. SameEntry(id) => KeptOrNew(id)
  BY DEF KeptOrNew, KeptWindows, SameEntry, SameToken
<1>3. ASSUME NEW listing \in HostListings, Reconcile(listing) PROVE KeptOrNew(id)
  BY <1>0, <1>3, WindowsReconciled DEF KeptOrNew
<1>4. CASE WorkerStep
  BY <1>0, <1>1, <1>3, <1>4, WorkerFrame DEF WorkerReconcile, ReconcileDiscovery
<1>5. CASE PickRequest
  <2>1. PICK candidates, cfg : QueueFromRequest(candidates, {}, cfg)
    BY <1>5 DEF PickRequest
  <2>2. {} \in SUBSET AuthIDs
    OBVIOUS
  <2>. QED
    BY <1>0, <1>2, <2>1, <2>2, RequestQueues
<1>6. ASSUME NEW g \in Gates, GateStep(g) PROVE KeptOrNew(id)
  <2>1. GateReconcile(g) => UNCHANGED samples \/ Reconcile(gates[g].listing)
    BY DEF GateReconcile, ReconcileDiscovery, cacheVars
  <2>. QED
    BY <1>0, <1>1, <1>2, <1>3, <1>6, <2>1, GateFrame
<1>7. CASE ConfigStep
  BY <1>0, <1>1, <1>3, <1>7, ConfigFrame
<1>8. CASE (\E other \in AuthIDs : FileStep(other)) \/ Tick \/ UNCHANGED vars
  BY <1>1, <1>8, WriteFacts DEF Tick, vars, cacheVars
<1>. QED
  BY <1>4, <1>5, <1>6, <1>7, <1>8 DEF Next

\* Windows are kept with their entry, go with it, or give way to what a poll
\* fetched or a response carried.
LEMMA WindowSteps ==
    ASSUME TypeInv, [Next]_vars
    PROVE  \A id \in AuthIDs : WindowStep(id)
<1> TAKE id \in AuthIDs
<1>1. CASE PollStep
  BY <1>1, WindowsPolled DEF PolledWindows, KeptOrNew, WindowStep
<1>2. ASSUME NEW r \in Requests, RequestStep(r) PROVE WindowStep(id)
  BY <1>2, WindowsObserved DEF WindowStep, KeptWindows
<1>3. CASE ~PollStep /\ ~\E r \in Requests : RequestStep(r)
  BY <1>3, WindowsElsewhere DEF KeptOrNew, WindowStep
<1>. QED
  BY <1>1, <1>2, <1>3

\* What a poll is about and what it fetched go from step to step.
LEMMA PollEvidence ==
    ASSUME TypeInv, [Next]_vars, worker'.pc \in ReadPCs \cup {"reading"}
    PROVE  \/ PollBegin /\ worker'.pc = "reading" /\ worker'.poll.startedAt = now /\ now' = now
           \/ /\ PollRead /\ worker'.pc = "binding" /\ now' = now
              /\ worker'.poll.startedAt = poll.startedAt
              /\ worker'.poll.token.identity = poll.token.identity
              /\ worker'.poll.account = disk[poll.id].identity
           \/ /\ PollFetch /\ worker'.pc = "settling" /\ now' = now
              /\ worker'.poll.startedAt = poll.startedAt /\ worker'.poll.token = poll.token
              /\ worker'.poll.account = poll.account
              /\ \E reading \in Readings(poll.account) :
                    worker'.poll.result = [kind |-> "usage", batch |-> reading]
           \/ /\ worker.pc \in ReadPCs \cup {"reading"}
              /\ worker'.pc \in ReadPCs => worker.pc \in ReadPCs
              /\ now' >= now
              /\ worker'.poll.startedAt = poll.startedAt
              /\ worker'.poll.token.identity = poll.token.identity
              /\ worker'.poll.account = poll.account
              /\ worker'.pc = "settling" /\ worker'.poll.result.kind = "usage" =>
                    worker.pc = "settling" /\ worker'.poll.result = poll.result
<1>0. now \in Nat /\ worker \in WorkerRecord /\ poll \in PollRecord
  BY DEF TypeInv, HostType, WorkerType, WorkerRecord, poll
<1>1. ASSUME UNCHANGED worker, now' >= now
      PROVE  /\ worker.pc \in ReadPCs \cup {"reading"}
             /\ worker'.pc \in ReadPCs => worker.pc \in ReadPCs
             /\ worker'.poll = poll
  BY <1>1 DEF poll
<1>2. ASSUME PollStep PROVE now' = now
  BY <1>2, PollFrame
<1>3. CASE PollBegin
  <2> DEFINE token == [identity |-> worker.listing[poll.id].identity, revision |-> None,
                       generation |-> samples[poll.id].generation,
                       incarnation |-> samples[poll.id].incarnation]
             next == [poll EXCEPT !.startedAt = now, !.token = token]
  <2>1. PollBegins(poll.id)
    BY <1>0, <1>3 DEF PollBegin, EndPoll, ReadPCs, WorkerRecord
  <2>2. worker' = [worker EXCEPT !.pc = "reading", !.poll.startedAt = now, !.poll.token = token]
    BY <1>3, <2>1 DEF PollBegin
  <2> HIDE DEF token
  <2>3. worker' = [worker EXCEPT !.pc = "reading", !.poll = next]
    BY <2>2 DEF poll
  <2>4. next.startedAt = now
    BY <1>0 DEF PollRecord
  <2> HIDE DEF next
  <2>. QED
    BY <1>0, <1>2, <1>3, <2>3, <2>4 DEF WorkerRecord, PollStep
<1>4. CASE PollRead
  BY <1>0, <1>2, <1>4 DEF PollRead, WorkerRecord, PollRecord, Token, poll, PollStep
<1>5. CASE PollFetch
  <2>1. PICK reading \in Readings(poll.account) :
           worker' = [worker EXCEPT !.pc = "settling",
                                    !.poll.result = [kind |-> "usage", batch |-> reading]]
    BY <1>5 DEF PollFetch
  <2>2. worker'.pc = "settling" /\ worker'.poll = [poll EXCEPT !.result = [kind |-> "usage", batch |-> reading]]
    BY <1>0, <2>1 DEF WorkerRecord, poll
  <2>3. /\ worker'.poll.startedAt = poll.startedAt /\ worker'.poll.token = poll.token
        /\ worker'.poll.account = poll.account
        /\ worker'.poll.result = [kind |-> "usage", batch |-> reading]
    BY <1>0, <2>2 DEF PollRecord
  <2>. QED
    BY <1>2, <1>5, <2>1, <2>2, <2>3 DEF PollStep
<1>6. CASE PollBind
  <2> DEFINE token == [poll.token EXCEPT !.incarnation = samples'[poll.id].incarnation]
             next == [poll EXCEPT !.token = token]
  <2>1. BindAllowed(poll.id, poll.token)
    BY <1>0, <1>6 DEF PollBind, EndPoll, ReadPCs, WorkerRecord
  <2>2. /\ worker.pc = "binding"
        /\ worker' = [worker EXCEPT !.pc = IF poll.check THEN "checking" ELSE "attempting",
                                    !.poll.token.incarnation = samples'[poll.id].incarnation]
    BY <1>6, <2>1 DEF PollBind
  <2>3. worker' = [worker EXCEPT !.pc = IF poll.check THEN "checking" ELSE "attempting", !.poll = next]
    BY <2>2 DEF poll
  <2>4. token.identity = poll.token.identity
    BY <1>0 DEF PollRecord, Token
  <2> HIDE DEF token
  <2>5. next.startedAt = poll.startedAt /\ next.token = token /\ next.account = poll.account
    BY <1>0 DEF PollRecord
  <2> HIDE DEF next
  <2>6. worker'.pc \in {"checking", "attempting"} /\ worker'.poll = next
    BY <1>0, <2>3 DEF WorkerRecord
  <2>. QED
    BY <1>0, <1>2, <1>6, <2>2, <2>4, <2>5, <2>6 DEF ReadPCs, PollStep
<1>7. CASE PollCheck \/ PollAttempt \/ PollNote
  <2>1. /\ worker.pc \in {"checking", "attempting", "noting"}
        /\ worker'.pc \in {"attempting", "noting", "fetching"} /\ worker'.poll = worker.poll
    BY <1>0, <1>7 DEF PollCheck, PollAttempt, PollNote, EndPoll, ReadPCs, WorkerRecord
  <2>. QED
    BY <1>0, <1>2, <1>7, <2>1 DEF ReadPCs, poll, PollStep
<1>8. CASE PollFetchFails
  <2>1. worker.pc = "fetching"
        /\ \E failure \in FailureKinds :
              worker' = [worker EXCEPT !.pc = "settling",
                                       !.poll.result = [kind |-> "failure", failure |-> failure]]
    BY <1>0, <1>8 DEF PollFetchFails, EndPoll, ReadPCs, WorkerRecord
  <2>2. PICK failure \in FailureKinds :
           worker' = [worker EXCEPT !.pc = "settling",
                                    !.poll.result = [kind |-> "failure", failure |-> failure]]
    BY <2>1
  <2>3. worker'.pc = "settling"
        /\ worker'.poll = [poll EXCEPT !.result = [kind |-> "failure", failure |-> failure]]
    BY <1>0, <2>2 DEF WorkerRecord, poll
  <2>4. /\ worker'.poll.startedAt = poll.startedAt /\ worker'.poll.token = poll.token
        /\ worker'.poll.account = poll.account /\ worker'.poll.result.kind = "failure"
    BY <1>0, <2>3 DEF PollRecord
  <2>. QED
    BY <1>0, <1>2, <1>8, <2>1, <2>3, <2>4 DEF ReadPCs, PollStep
<1>9. CASE PollClaim \/ PollDefer \/ PollReadFails \/ PollReadNoToken \/ PollCommit \/ PollFail
  BY <1>0, <1>9 DEF PollClaim, PollDefer, PollReadFails, PollReadNoToken, PollCommit, PollFail, EndPoll,
     ReadPCs, WorkerRecord
<1>10. CASE WorkerStep
  BY <1>10, WorkerFrame
<1>11. CASE \/ PickRequest \/ (\E g \in Gates : GateStep(g)) \/ (\E r \in Requests : RequestStep(r))
            \/ (\E id \in AuthIDs : FileStep(id)) \/ Tick \/ UNCHANGED vars
  <2>1. UNCHANGED worker /\ now' \in {now, now + 1}
    BY <1>11, GateFrame, WriteFacts DEF PickRequest, RequestStep, ChooseAuth, AfterAuth, Answer, Respond,
       CommitObservation, Tick, vars, environment
  <2>. QED
    BY <1>0, <1>1, <2>1 DEF poll
<1>12. CASE ConfigStep
  <2>1. UNCHANGED now /\ (UNCHANGED worker \/ worker' = Waiting)
    BY <1>12, ConfigFrame
  <2>. QED
    BY <1>0, <1>1, <2>1 DEF poll, Waiting, ReadPCs
<1>. QED
  BY <1>3, <1>4, <1>5, <1>6, <1>7, <1>8, <1>9, <1>10, <1>11, <1>12 DEF Next, PollStep

LandedWindow(old, new, reading, at, startedAt, isPoll) ==
    /\ reading \in Evidence /\ reading.valid
    /\ new.valid /\ new.sampledAt = at
    /\ new.measuredAt = reading.measuredAt /\ new.account = reading.account
    /\ old.valid /\ old.sampledAt # NoTime =>
          IF isPoll THEN old.sampledAt < startedAt ELSE at >= old.sampledAt

\* A window that lands is that of the batch, stamped, and is not older than
\* the one it takes the place of.
LEMMA LandedFacts ==
    ASSUME NEW id, NEW batch \in Batch, NEW at \in Nat, NEW startedAt, NEW isPoll \in BOOLEAN,
           Landed(id, batch, at, startedAt, isPoll)
    PROVE  \A s \in Slots : samples'[id].windows[s] # samples[id].windows[s] =>
              LandedWindow(samples[id].windows[s], samples'[id].windows[s], batch[s], at, startedAt, isPoll)
<1> TAKE s \in Slots
<1> HAVE samples'[id].windows[s] # samples[id].windows[s]
<1> DEFINE next == [batch[s] EXCEPT !.sampledAt = at]
<1>1. batch[s] \in Evidence \/ batch[s] = NoWindow
  BY DEF Batch
<1>2. /\ Lands(samples[id].windows[s], next, startedAt, isPoll)
      /\ samples'[id].windows[s] = next
  BY DEF Landed
<1>3. batch[s].valid = next.valid /\ next.sampledAt = at
  BY <1>1 DEF Evidence, NoWindow
<1>4. next.valid
  BY <1>2 DEF Lands
<1>5. batch[s] \in Evidence
  BY <1>1, <1>3, <1>4 DEF NoWindow
<1>6. next.measuredAt = batch[s].measuredAt /\ next.account = batch[s].account
  BY <1>5 DEF Evidence
<1> HIDE DEF next
<1>. QED
  BY <1>2, <1>3, <1>4, <1>5, <1>6 DEF Lands, LandedWindow

\* The same for a poll, and for an observation.
LEMMA PollLandedFacts ==
    ASSUME TypeInv, PollLanded, NEW id, id = poll.id
    PROVE  \A s \in Slots : samples'[id].windows[s] # samples[id].windows[s] =>
              LandedWindow(samples[id].windows[s], samples'[id].windows[s], poll.result.batch[s],
                           now, poll.startedAt, TRUE)
<1> DEFINE batch == poll.result.batch
           at == now
           startedAt == poll.startedAt
           isPoll == TRUE
<1>1. worker.pc = "settling" /\ poll.result.kind = "usage" /\ poll \in PollRecord
  BY DEF PollLanded, TypeInv, WorkerType, WorkerRecord, poll
<1>2. batch \in Batch /\ at \in Nat /\ isPoll \in BOOLEAN
  BY <1>1 DEF PollRecord, PollResult, TypeInv, HostType
<1>3. Landed(id, batch, at, startedAt, isPoll)
  BY DEF PollLanded
<1> HIDE DEF batch, at, startedAt, isPoll
<1>4. \A s \in Slots : samples'[id].windows[s] # samples[id].windows[s] =>
         LandedWindow(samples[id].windows[s], samples'[id].windows[s], batch[s], at, startedAt, isPoll)
  BY <1>2, <1>3, LandedFacts
<1>. QED
  BY <1>4 DEF batch, at, startedAt, isPoll

LEMMA ObservationLandedFacts ==
    ASSUME TypeInv, NEW r \in Requests, ObservationLanded(r),
           NEW id, id = requests[r].correlation.id
    PROVE  \A s \in Slots : samples'[id].windows[s] # samples[id].windows[s] =>
              LandedWindow(samples[id].windows[s], samples'[id].windows[s], requests[r].batch[s],
                           requests[r].observedAt, NoTime, FALSE)
<1> DEFINE batch == requests[r].batch
           at == requests[r].observedAt
           startedAt == NoTime
           isPoll == FALSE
<1>2. batch \in Batch /\ at \in Nat /\ isPoll \in BOOLEAN
  BY DEF TypeInv, RequestType, RequestRecord
<1>3. Landed(id, batch, at, startedAt, isPoll)
  BY DEF ObservationLanded
<1> HIDE DEF batch, at, startedAt, isPoll
<1>4. \A s \in Slots : samples'[id].windows[s] # samples[id].windows[s] =>
         LandedWindow(samples[id].windows[s], samples'[id].windows[s], batch[s], at, startedAt, isPoll)
  BY <1>2, <1>3, LandedFacts
<1>. QED
  BY <1>4 DEF batch, at, startedAt, isPoll

\* Every window in the cache was measured and stamped at some time.
LEMMA WindowTimes ==
    ASSUME CacheType, NEW id \in AuthIDs, NEW s \in Slots, samples[id].windows[s].valid
    PROVE  samples[id].windows[s] \in Evidence
<1>1. samples[id].windows \in Batch
  BY SampleKinds
<1>. QED
  BY <1>1 DEF Batch, NoWindow

\* The windows of every entry keep their ages in order.
LEMMA WindowAgesKept ==
    ASSUME TypeInv, AgeInv, [Next]_vars, NEW id \in AuthIDs
    PROVE  WindowAge(id)'
<1>0. /\ CacheType /\ now \in Nat \ {0} /\ poll \in PollRecord
  BY DEF TypeInv, HostType, WorkerType, WorkerRecord, poll
<1>1. CASE KeptWindows(id)
  BY <1>1 DEF KeptWindows, WindowAge, AgeInv
<1>2. CASE NewEntry(id)
  BY <1>2 DEF NewEntry, NoWindows, NoWindow, WindowAge
<1>3. CASE id = poll.id /\ PollLanded
  <2>3. \A s \in Slots : poll.result.batch[s].valid => poll.result.batch[s].measuredAt <= now
    BY <1>3 DEF AgeInv, PollAge, PollLanded
  <2>4. ASSUME NEW s \in Slots, samples'[id].windows[s] # samples[id].windows[s]
        PROVE  /\ samples'[id].windows[s].sampledAt = now
               /\ samples'[id].windows[s].measuredAt <= now
    BY <1>3, <2>3, <2>4, PollLandedFacts DEF LandedWindow
  <2>. QED
    BY <1>0, <2>4 DEF WindowAge, AgeInv, NoTime
<1>4. ASSUME NEW r \in Requests, id = requests[r].correlation.id, ObservationLanded(r)
      PROVE  WindowAge(id)'
  <2>2. requests[r].observedAt \in Nat
    BY DEF TypeInv, RequestType, RequestRecord
  <2>3. /\ requests[r].observedAt # NoTime
        /\ \A s \in Slots : requests[r].batch[s].valid =>
              requests[r].batch[s].measuredAt <= requests[r].observedAt
    BY <1>4 DEF AgeInv, RequestAge, ObservationLanded
  <2>4. ASSUME NEW s \in Slots, samples'[id].windows[s] # samples[id].windows[s]
        PROVE  /\ samples'[id].windows[s].sampledAt = requests[r].observedAt
               /\ samples'[id].windows[s].measuredAt <= requests[r].observedAt
    BY <1>4, <2>3, <2>4, ObservationLandedFacts DEF LandedWindow
  <2>. QED
    BY <2>2, <2>3, <2>4 DEF WindowAge, AgeInv
<1>. QED
  BY <1>1, <1>2, <1>3, <1>4, WindowSteps DEF WindowStep

\* A window gives way to one measured no earlier, for as long as its entry
\* lives, or to that of a response observed no earlier than it was stamped.
LEMMA WindowsAdvance ==
    ASSUME TypeInv, AgeInv, [Next]_vars, NEW id \in Members, NEW s \in Slots,
           samples'[id].incarnation = samples[id].incarnation, samples[id].windows[s].valid
    PROVE  /\ samples'[id].windows[s].valid
           /\ \/ samples'[id].windows[s].measuredAt >= samples[id].windows[s].measuredAt
              \/ HandedOver(id, samples[id].windows[s], samples'[id].windows[s])
<1>0. /\ CacheType /\ now \in Nat /\ poll \in PollRecord /\ id \in AuthIDs
      /\ samples[id].incarnation # 0
  BY DEF TypeInv, HostType, WorkerType, WorkerRecord, poll, Members, Held
<1>1. samples[id].windows[s].measuredAt \in Nat /\ samples[id].windows[s].sampledAt \in Nat
  BY <1>0, WindowTimes DEF Evidence
<1>2. /\ samples[id].windows[s].sampledAt # NoTime
      /\ samples[id].windows[s].measuredAt <= samples[id].windows[s].sampledAt
  BY <1>0 DEF AgeInv, WindowAge
<1>3. CASE samples'[id].windows[s] = samples[id].windows[s]
  BY <1>1, <1>3
<1>4. CASE NewEntry(id)
  <2>1. samples[id].incarnation \in Nat /\ nextIncarnation \in Nat
        /\ samples[id].incarnation <= nextIncarnation
    BY <1>0, SampleKinds DEF CacheType
  <2>. QED
    BY <1>0, <1>4, <2>1 DEF NewEntry
<1>5. CASE id = poll.id /\ PollLanded /\ samples'[id].windows[s] # samples[id].windows[s]
  <2>2. poll.startedAt \in Nat
    BY <1>0 DEF PollRecord
  <2>3. /\ poll.result.batch[s].valid /\ samples'[id].windows[s].valid
        /\ samples'[id].windows[s].measuredAt = poll.result.batch[s].measuredAt
        /\ samples[id].windows[s].sampledAt < poll.startedAt
    BY <1>2, <1>5, PollLandedFacts DEF LandedWindow
  <2>4. poll.startedAt <= poll.result.batch[s].measuredAt
    BY <1>5, <2>3 DEF AgeInv, PollAge, PollLanded
  <2>5. poll.result.batch[s].measuredAt \in Nat
    <3>1. poll.result.batch[s] \in Evidence
      BY <1>5, PollLandedFacts DEF LandedWindow
    <3>. QED
      BY <3>1 DEF Evidence
  <2>. QED
    BY <1>1, <1>2, <2>2, <2>3, <2>4, <2>5
<1>6. ASSUME NEW r \in Requests, id = requests[r].correlation.id, ObservationLanded(r),
             samples'[id].windows[s] # samples[id].windows[s]
      PROVE  /\ samples'[id].windows[s].valid
             /\ \/ samples'[id].windows[s].measuredAt >= samples[id].windows[s].measuredAt
                \/ HandedOver(id, samples[id].windows[s], samples'[id].windows[s])
  <2>2. requests[r].observedAt \in Nat
    BY DEF TypeInv, RequestType, RequestRecord
  <2>3. /\ requests[r].batch[s] \in Evidence /\ samples'[id].windows[s].valid
        /\ samples'[id].windows[s].measuredAt = requests[r].batch[s].measuredAt
        /\ samples[id].windows[s].sampledAt <= requests[r].observedAt
    BY <1>1, <1>2, <1>6, <2>2, ObservationLandedFacts DEF LandedWindow
  <2>4. samples'[id].windows[s].measuredAt \in Nat
    BY <2>3 DEF Evidence
  <2>5. CASE samples'[id].windows[s].measuredAt < samples[id].windows[s].measuredAt
    <3>1. samples'[id].windows[s].measuredAt < requests[r].observedAt
      BY <1>1, <1>2, <2>2, <2>3, <2>4, <2>5
    <3>. QED
      BY <1>6, <2>3, <3>1 DEF HandedOver, ObservationLanded
  <2>. QED
    BY <1>1, <2>3, <2>4, <2>5
<1>. QED
  BY <1>0, <1>3, <1>4, <1>5, <1>6, WindowSteps DEF WindowStep, KeptWindows

\* What a request is about goes from step to step.
LEMMA RequestEvidence ==
    ASSUME TypeInv, [Next]_vars, NEW r \in Requests
    PROVE  \/ requests'[r] = requests[r] /\ correlations'[r] \in {correlations[r], NoCorrelation}
           \/ /\ disk' = disk /\ requests'[r].pc = "chosen"
              /\ requests'[r].account = disk[requests'[r].id].identity
           \/ /\ UNCHANGED <<samples, nextIncarnation>>
              /\ requests[r].pc = "chosen" /\ requests'[r].pc = "upstream"
              /\ requests'[r].account = requests[r].account
              /\ \/ correlations'[r] = NoCorrelation
                 \/ /\ correlations'[r].id = requests[r].id
                    /\ correlations'[r].incarnation = samples[requests[r].id].incarnation
           \/ /\ UNCHANGED <<samples, nextIncarnation>>
              /\ requests[r].pc = "upstream" /\ requests'[r].pc = "answered"
              /\ correlations'[r] = correlations[r]
              /\ requests'[r].batch \in Headers(requests[r].account)
           \/ /\ UNCHANGED <<samples, nextIncarnation>>
              /\ requests[r].pc = "answered" /\ requests'[r].pc = "observed"
              /\ correlations[r] # NoCorrelation /\ requests'[r].correlation = correlations[r]
              /\ requests'[r].observedAt = now
              /\ requests'[r].batch = Parsed(requests[r].batch)
           \/ requests'[r].pc = "done"
<1>0. /\ CacheType /\ now \in Nat /\ requests \in [Requests -> RequestRecord]
      /\ correlations \in [Requests -> CorrelationOrNone]
  BY DEF TypeInv, HostType, RequestType
<1>1. CASE UNCHANGED <<requests, correlations>>
  BY <1>1
<1>2. ASSUME NEW o \in Requests, ChooseAuth(o)
      PROVE  \/ requests'[r] = requests[r] /\ correlations'[r] = correlations[r]
             \/ /\ disk' = disk /\ requests'[r].pc = "chosen"
                /\ requests'[r].account = disk[requests'[r].id].identity
  <2>1. disk' = disk /\ correlations' = correlations
    BY <1>2 DEF ChooseAuth, environment
  <2>2. PICK id \in AuthIDs : requests' = [requests EXCEPT ![o] = [NoRequest EXCEPT
                 !.pc = "chosen", !.id = id, !.account = disk[id].identity]]
    BY <1>2 DEF ChooseAuth
  <2>3. CASE o = r
    <3>1. requests'[r] = [NoRequest EXCEPT !.pc = "chosen", !.id = id, !.account = disk[id].identity]
      BY <1>0, <2>2, <2>3
    <3>2. /\ requests'[r].pc = "chosen" /\ requests'[r].id = id
          /\ requests'[r].account = disk[id].identity
      BY <3>1 DEF NoRequest
    <3>. QED
      BY <2>1, <3>2
  <2>. QED
    BY <1>0, <2>1, <2>2, <2>3
<1>3. ASSUME NEW o \in Requests, AfterAuth(o), o # r
      PROVE  requests'[r] = requests[r] /\ correlations'[r] \in {correlations[r], NoCorrelation}
  <2>1. requests[o].id \in AuthIDs
        /\ \/ RecordSelectedAuth(o, requests[o].id)
           \/ correlations' = [correlations EXCEPT ![o] = NoCorrelation]
    BY <1>3 DEF AfterAuth, TypeInv, RequestType
  <2>2. correlations'[r] \in {correlations[r], NoCorrelation}
    BY <1>0, <1>3, <2>1, RecordFacts
  <2>. QED
    BY <1>0, <1>3, <2>2 DEF AfterAuth
<1>4. ASSUME AfterAuth(r)
      PROVE  /\ UNCHANGED <<samples, nextIncarnation>>
             /\ requests[r].pc = "chosen" /\ requests'[r].pc = "upstream"
             /\ requests'[r].account = requests[r].account
             /\ \/ correlations'[r] = NoCorrelation
                \/ /\ correlations'[r].id = requests[r].id
                   /\ correlations'[r].incarnation = samples[requests[r].id].incarnation
  <2>1. requests[r].id \in AuthIDs
        /\ \/ RecordSelectedAuth(r, requests[r].id)
           \/ correlations' = [correlations EXCEPT ![r] = NoCorrelation]
    BY <1>4 DEF AfterAuth, TypeInv, RequestType
  <2>2. \/ correlations'[r] = NoCorrelation
        \/ /\ correlations'[r].id = requests[r].id
           /\ correlations'[r].incarnation = samples[requests[r].id].incarnation
    BY <1>0, <2>1, RecordFacts
  <2>3. requests'[r].pc = "upstream" /\ requests'[r].account = requests[r].account
    BY <1>0, <1>4 DEF AfterAuth, RequestRecord
  <2>. QED
    BY <1>4, <2>2, <2>3 DEF AfterAuth, cacheVars
<1>5. ASSUME NEW o \in Requests, Answer(o) \/ Respond(o) \/ CommitObservation(o), o # r
      PROVE  requests'[r] = requests[r] /\ correlations'[r] = correlations[r]
  <2>1. CASE Answer(o)
    BY <1>0, <1>5, <2>1 DEF Answer
  <2>2. CASE Respond(o)
    BY <1>0, <1>5, <2>2 DEF Respond
  <2>3. CASE CommitObservation(o)
    BY <1>0, <1>5, <2>3 DEF CommitObservation
  <2>. QED
    BY <1>5, <2>1, <2>2, <2>3
<1>6. ASSUME CommitObservation(r) PROVE requests'[r].pc = "done"
  BY <1>0, <1>6 DEF CommitObservation, NoRequest
<1>7. ASSUME Respond(r), requests'[r].pc # "done"
      PROVE  /\ UNCHANGED <<samples, nextIncarnation>>
             /\ requests[r].pc = "answered" /\ requests'[r].pc = "observed"
             /\ correlations[r] # NoCorrelation /\ requests'[r].correlation = correlations[r]
             /\ requests'[r].observedAt = now
             /\ requests'[r].batch = Parsed(requests[r].batch)
  <2>1. requests[r].pc = "answered" /\ UNCHANGED <<samples, nextIncarnation>>
    BY <1>7 DEF Respond, cacheVars
  <2> DEFINE batch == Parsed(requests[r].batch)
  <2>2. /\ now < correlations[r].expiresAt
        /\ requests' = [requests EXCEPT ![r].pc = "observed", ![r].correlation = correlations[r],
                                        ![r].batch = batch, ![r].observedAt = now]
    <3>1. requests' # [requests EXCEPT ![r] = [NoRequest EXCEPT !.pc = "done"]]
      BY <1>0, <1>7 DEF NoRequest
    <3>. QED
      BY <1>7, <3>1 DEF Respond
  <2> HIDE DEF batch
  <2>4. /\ requests'[r].pc = "observed" /\ requests'[r].correlation = correlations[r]
        /\ requests'[r].observedAt = now /\ requests'[r].batch = batch
    BY <1>0, <2>2 DEF RequestRecord
  <2>5. correlations[r] # NoCorrelation
    BY <1>0, <2>2 DEF NoCorrelation, NoTime
  <2>. QED
    BY <2>1, <2>4, <2>5 DEF batch
<1>10. ASSUME Answer(r)
       PROVE  /\ UNCHANGED <<samples, nextIncarnation>>
              /\ requests[r].pc = "upstream" /\ requests'[r].pc = "answered"
              /\ correlations'[r] = correlations[r]
              /\ requests'[r].batch \in Headers(requests[r].account)
  <2>1. PICK batch \in Headers(requests[r].account) :
           requests' = [requests EXCEPT ![r].pc = "answered", ![r].batch = batch]
    BY <1>10 DEF Answer
  <2>2. requests'[r].pc = "answered" /\ requests'[r].batch = batch
    BY <1>0, <2>1 DEF RequestRecord
  <2>. QED
    BY <1>10, <2>2 DEF Answer, cacheVars
<1>8. CASE \E o \in Requests : RequestStep(o)
  BY <1>2, <1>3, <1>4, <1>5, <1>6, <1>7, <1>8, <1>10 DEF RequestStep
<1>9. CASE ~\E o \in Requests : RequestStep(o)
  <2>1. UNCHANGED <<requests, correlations>>
    BY <1>9, WorkerFrame, PollFrame, GateFrame, ConfigFrame, WriteFacts DEF Next, PickRequest, Tick, vars
  <2>. QED
    BY <1>1, <2>1
<1>. QED
  BY <1>8, <1>9

\* The windows, the poll and every request keep their times in order.
LEMMA AgeInductive == TypeInv /\ AgeInv /\ [Next]_vars => AgeInv'
<1> SUFFICES ASSUME TypeInv, AgeInv, [Next]_vars PROVE AgeInv'
  OBVIOUS
<1>0. now \in Nat \ {0} /\ worker \in WorkerRecord /\ poll \in PollRecord /\ TypeInv'
  BY NextKeepsTypes DEF TypeInv, HostType, WorkerType, WorkerRecord, poll
<1>1. \A id \in AuthIDs : WindowAge(id)'
  BY WindowAgesKept
<1>2. PollAge'
  <2> SUFFICES ASSUME worker'.pc \in ReadPCs \cup {"reading"} PROVE PollAge'
    BY DEF PollAge, ReadPCs
  <2>0. poll' = worker'.poll /\ now' \in Nat /\ poll.startedAt \in Nat
    BY <1>0 DEF poll, TypeInv, HostType, PollRecord
  <2>1. CASE PollBegin /\ worker'.pc = "reading" /\ worker'.poll.startedAt = now /\ now' = now
    BY <1>0, <2>0, <2>1 DEF PollAge
  <2>2. CASE PollRead /\ worker'.pc = "binding" /\ now' = now /\ worker'.poll.startedAt = poll.startedAt
    <3>1. poll.startedAt <= now
      BY <2>2 DEF AgeInv, PollAge, PollRead
    <3>. QED
      BY <2>0, <2>2, <3>1 DEF PollAge
  <2>3. ASSUME NEW reading \in Readings(poll.account),
               PollFetch, worker'.pc = "settling", now' = now, worker'.poll.startedAt = poll.startedAt,
               worker'.poll.result = [kind |-> "usage", batch |-> reading]
        PROVE  PollAge'
    <3>1. poll.startedAt <= now /\ poll.account \in Numbers
      BY <2>3 DEF AgeInv, PollAge, PollFetch, ReadPCs, TypeInv, WorkerType
    <3>2. \A s \in Slots : reading[s].valid => reading[s].measuredAt = now
      BY <1>0, <2>3, <3>1, ReadingFacts
    <3>3. worker'.poll.result.batch = reading
      BY <2>3
    <3>. QED
      BY <1>0, <2>0, <2>3, <3>1, <3>2, <3>3 DEF PollAge
  <2>4. ASSUME worker.pc \in ReadPCs \cup {"reading"}, now' >= now,
               worker'.poll.startedAt = poll.startedAt,
               worker'.pc = "settling" /\ worker'.poll.result.kind = "usage" =>
                    worker.pc = "settling" /\ worker'.poll.result = poll.result
        PROVE  PollAge'
    <3>1. poll.startedAt <= now
      BY <2>4 DEF AgeInv, PollAge
    <3>2. ASSUME worker'.pc = "settling", worker'.poll.result.kind = "usage", NEW s \in Slots,
                 worker'.poll.result.batch[s].valid
          PROVE  /\ poll.startedAt <= worker'.poll.result.batch[s].measuredAt
                 /\ worker'.poll.result.batch[s].measuredAt <= now'
      <4>1. worker.pc = "settling" /\ worker'.poll.result = poll.result /\ poll.result.kind = "usage"
        BY <2>4, <3>2
      <4>2. poll.result.batch[s] \in Evidence
        BY <1>0, <3>2, <4>1 DEF PollRecord, PollResult, Batch, NoWindow
      <4>3. /\ poll.startedAt <= poll.result.batch[s].measuredAt
            /\ poll.result.batch[s].measuredAt <= now
        BY <3>2, <4>1 DEF AgeInv, PollAge
      <4>4. poll.result.batch[s].measuredAt \in Nat
        BY <4>2 DEF Evidence
      <4>5. poll.result.batch[s].measuredAt <= now'
        BY <1>0, <2>0, <2>4, <4>3, <4>4
      <4>. QED
        BY <4>1, <4>3, <4>5
    <3>. QED
      BY <1>0, <2>0, <2>4, <3>1, <3>2 DEF PollAge
  <2>. QED
    BY <2>1, <2>2, <2>3, <2>4, PollEvidence
<1>4. now' \in Nat /\ now' >= now
  BY <1>0, StepTurns DEF TypeInv, HostType
<1>3. ASSUME NEW r \in Requests PROVE RequestAge(r)'
  <2>0. requests[r].batch \in Batch
    BY DEF TypeInv, RequestType, RequestRecord
  <2>1. CASE requests'[r] = requests[r]
    <3>1. ASSUME requests[r].pc = "answered", NEW s \in Slots, requests[r].batch[s].valid
          PROVE  requests[r].batch[s].measuredAt <= now'
      <4>0. requests[r].batch[s] \in Evidence
        BY <2>0, <3>1 DEF Batch, NoWindow
      <4>1. requests[r].batch[s].measuredAt \in Nat
        BY <4>0 DEF Evidence
      <4>2. requests[r].batch[s].measuredAt <= now
        BY <3>1 DEF AgeInv, RequestAge
      <4>. QED
        BY <1>0, <1>4, <4>1, <4>2
    <3>. QED
      BY <2>1, <3>1 DEF AgeInv, RequestAge
  <2>2. CASE requests'[r].pc \in {"chosen", "upstream", "done"}
    BY <2>2 DEF RequestAge
  <2>3. CASE /\ requests[r].pc = "upstream" /\ requests'[r].pc = "answered"
             /\ requests'[r].batch \in Headers(requests[r].account)
    <3>1. requests[r].account \in Numbers
      BY <2>3 DEF TypeInv, RequestType
    <3>2. \A s \in Slots : requests'[r].batch[s].valid => requests'[r].batch[s].measuredAt = now
      BY <1>0, <2>3, <3>1, HeaderFacts
    <3>. QED
      BY <1>0, <1>4, <2>3, <3>2 DEF RequestAge
  <2>4. CASE /\ requests[r].pc = "answered" /\ requests'[r].pc = "observed"
             /\ requests'[r].observedAt = now
             /\ requests'[r].batch = Parsed(requests[r].batch)
    <3>1. \A s \in Slots : requests[r].batch[s].valid => requests[r].batch[s].measuredAt <= now
      BY <2>4 DEF AgeInv, RequestAge
    <3>2. \A s \in Slots : requests'[r].batch[s].valid => requests'[r].batch[s].measuredAt <= now
      BY <2>0, <2>4, <3>1, ParsedFacts
    <3>. QED
      BY <1>0, <2>4, <3>2 DEF RequestAge, NoTime
  <2>. QED
    BY <2>1, <2>2, <2>3, <2>4, RequestEvidence
<1>. QED
  BY <1>1, <1>2, <1>3 DEF AgeInv

\* Measurements are never newer than their stamps, nor either than the clock.
LEMMA EvidenceAges == Spec => []AgeInv
<1>1. Init => AgeInv
  BY DEF Init, CacheInit, AgeInv, WindowAge, PollAge, RequestAge, NoSample, NoWindows, NoWindow, Waiting,
     ReadPCs, NoRequest
<1>. QED
  BY <1>1, RouterTypes, AgeInductive, PTL DEF Spec

\* While a credential lives, a window is only ever replaced by a measurement
\* at least as recent, unless a response that was observed later than it was
\* measured, and no earlier than the evidence it replaces was stamped, brings
\* its own: a poll never turns the cache back.
THEOREM EvidenceAdvances == Spec => EvidenceNeverRegresses
<1> DEFINE Advance == \A id \in Members, s \in Slots :
                         LET old == samples[id].windows[s]
                             new == samples'[id].windows[s]
                         IN  samples'[id].incarnation = samples[id].incarnation /\ old.valid =>
                                 new.valid /\ (new.measuredAt >= old.measuredAt \/ HandedOver(id, old, new))
<1>2. TypeInv /\ AgeInv /\ [Next]_vars => [Advance]_vars
  BY WindowsAdvance
<1> HIDE DEF Advance
<1>3. Spec => [][Advance]_vars
  BY <1>2, RouterTypes, EvidenceAges, PTL DEF Spec
<1>. QED
  BY <1>3 DEF Advance, EvidenceNeverRegresses

\* Incarnations are only ever counted up.
LEMMA NumbersGrow ==
    ASSUME TypeInv, [Next]_vars
    PROVE  /\ nextIncarnation \in Nat /\ nextIncarnation' \in Nat /\ nextIncarnation' >= nextIncarnation
           /\ \A incarnation \in Nat :
                 incarnation <= nextIncarnation => incarnation <= nextIncarnation'
<1>a. nextIncarnation \in Nat /\ nextIncarnation' \in Nat
  BY NextKeepsTypes DEF TypeInv, CacheType
<1> SUFFICES nextIncarnation' >= nextIncarnation
  BY <1>a
<1>0. /\ CacheType /\ queue \in Queues /\ now \in Nat
      /\ worker.listing \in HostListings /\ NoListing \in HostListings
      /\ \A g \in Gates : gates[g].listing \in HostListings
  BY ListingType
  DEF TypeInv, HostType, LifecycleType, WorkerType, WorkerRecord, GateType, GateRecord
<1>1. UNCHANGED nextIncarnation => nextIncarnation' >= nextIncarnation
  BY <1>a
<1>2. ASSUME NEW listing \in HostListings, Reconcile(listing) PROVE nextIncarnation' >= nextIncarnation
  BY <1>0, <1>2, ReconcileFacts
<1>3. CASE WorkerStep
  BY <1>0, <1>1, <1>2, <1>3, WorkerFrame DEF WorkerReconcile, ReconcileDiscovery
<1>4. CASE PollStep
  BY <1>4, PollCache
<1>5. CASE PickRequest
  BY <1>1, <1>5 DEF PickRequest, QueueFromRequest, cacheVars
<1>6. ASSUME NEW g \in Gates, GateStep(g) PROVE nextIncarnation' >= nextIncarnation
  <2>1. GateReconcile(g) => UNCHANGED nextIncarnation \/ Reconcile(gates[g].listing)
    BY DEF GateReconcile, ReconcileDiscovery, cacheVars
  <2>. QED
    BY <1>0, <1>1, <1>2, <1>6, <2>1, GateFrame
<1>7. CASE \E r \in Requests : RequestStep(r)
  BY <1>1, <1>7, ObservationFrame
<1>8. CASE ConfigStep
  BY <1>0, <1>1, <1>2, <1>8, ConfigFrame
<1>9. CASE (\E other \in AuthIDs : FileStep(other)) \/ Tick \/ UNCHANGED vars
  BY <1>1, <1>9, WriteFacts DEF Tick, vars, cacheVars
<1>. QED
  BY <1>3, <1>4, <1>5, <1>6, <1>7, <1>8, <1>9 DEF Next

\* What an observation may speak of stays so: entries that start anew have
\* later incarnations.
LEMMA SpeaksOn ==
    ASSUME TypeInv, [Next]_vars
    PROVE  \A account : \A id \in AuthIDs, incarnation \in Nat :
              incarnation <= nextIncarnation /\ SpeaksFor(account, samples[id], incarnation) =>
                 incarnation <= nextIncarnation' /\ SpeaksFor(account, samples'[id], incarnation)
<1>0. nextIncarnation \in Nat
  BY NumbersGrow
<1>2. ASSUME NEW account, NEW id \in AuthIDs, NEW incarnation \in Nat,
             incarnation <= nextIncarnation, SpeaksFor(account, samples[id], incarnation)
      PROVE  SpeaksFor(account, samples'[id], incarnation)
  <2>1. CASE NewEntry(id)
    BY <1>0, <1>2, <2>1 DEF NewEntry, SpeaksFor
  <2>2. CASE samples'[id].incarnation = samples[id].incarnation /\ samples'[id].identity = samples[id].identity
    BY <1>2, <2>2 DEF SpeaksFor
  <2>. QED
    BY <2>1, <2>2, WindowSteps
    DEF WindowStep, KeptWindows, PollLanded, ObservationLanded, Landed, SameToken
<1>. QED
  BY <1>2, NumbersGrow

\* The windows of an entry speak of the account it is listed with.
LEMMA WindowAccountsKept ==
    ASSUME TypeInv, AccountInv, [Next]_vars, NEW id \in AuthIDs
    PROVE  WindowAccount(id)'
<1>1. CASE KeptWindows(id)
  BY <1>1 DEF KeptWindows, WindowAccount, AccountInv, Held
<1>2. CASE NewEntry(id)
  BY <1>2 DEF NewEntry, NoWindows, NoWindow, WindowAccount
<1>3. CASE id = poll.id /\ PollLanded
  <2>1. /\ worker.pc = "settling" /\ poll.result.kind = "usage"
        /\ samples[id].identity = poll.token.identity
        /\ Held(id) /\ samples'[id].identity = samples[id].identity
    BY <1>3 DEF PollLanded, Landed, SameToken
  <2>2. /\ poll.account >= samples[id].identity
        /\ \A s \in Slots : poll.result.batch[s].valid => poll.result.batch[s].account = poll.account
    BY <2>1 DEF AccountInv, PollAccount, ReadPCs
  <2>3. ASSUME NEW s \in Slots, samples'[id].windows[s] # samples[id].windows[s]
        PROVE  samples'[id].windows[s].account >= samples'[id].identity
    BY <1>3, <2>1, <2>2, <2>3, PollLandedFacts DEF LandedWindow
  <2>. QED
    BY <2>1, <2>3 DEF WindowAccount, AccountInv
<1>4. ASSUME NEW r \in Requests, id = requests[r].correlation.id, ObservationLanded(r)
      PROVE  WindowAccount(id)'
  <2>1. /\ requests[r].pc = "observed"
        /\ samples[id].incarnation = requests[r].correlation.incarnation
        /\ Held(id) /\ samples'[id].identity = samples[id].identity
    BY <1>4 DEF ObservationLanded, Landed, SameToken
  <2>2. \A s \in Slots : requests[r].batch[s].valid =>
           requests[r].batch[s].account >= samples[id].identity
    BY <1>4, <2>1 DEF AccountInv, RequestAccount, SpeaksFor, Held
  <2>3. ASSUME NEW s \in Slots, samples'[id].windows[s] # samples[id].windows[s]
        PROVE  samples'[id].windows[s].account >= samples'[id].identity
    BY <1>4, <2>1, <2>2, <2>3, ObservationLandedFacts DEF LandedWindow
  <2>. QED
    BY <2>1, <2>3 DEF WindowAccount, AccountInv
<1>. QED
  BY <1>1, <1>2, <1>3, <1>4, WindowSteps DEF WindowStep

\* What a poll reads is of the account that was listed, or of a later one.
LEMMA PollAccountKept ==
    ASSUME TypeInv, DiskInv, AccountInv, [Next]_vars
    PROVE  PollAccount'
<1> SUFFICES ASSUME worker'.pc \in ReadPCs PROVE PollAccount'
  BY DEF PollAccount, ReadPCs
<1>0. worker \in WorkerRecord /\ poll \in PollRecord /\ poll' = worker'.poll /\ now \in Nat
  BY DEF TypeInv, HostType, WorkerType, WorkerRecord, poll
<1>1. CASE /\ PollRead /\ worker'.pc = "binding"
           /\ worker'.poll.token.identity = poll.token.identity
           /\ worker'.poll.account = disk[poll.id].identity
  <2>1. /\ worker.pc = "reading" /\ poll.token.identity = worker.listing[poll.id].identity
        /\ poll.id \in DOMAIN worker.listing
    BY <1>1 DEF PollRead, TypeInv, WorkerType, PollPCs
  <2>2. worker.listing[poll.id].identity <= disk[poll.id].identity
    BY <2>1 DEF DiskInv, ListingBehind
  <2>. QED
    BY <1>0, <1>1, <2>1, <2>2 DEF PollAccount
<1>2. ASSUME NEW reading \in Readings(poll.account), PollFetch, worker'.pc = "settling",
             worker'.poll.token = poll.token, worker'.poll.account = poll.account,
             worker'.poll.result = [kind |-> "usage", batch |-> reading]
      PROVE  PollAccount'
  <2>1. poll.account >= poll.token.identity /\ poll.account \in Numbers
    BY <1>2 DEF AccountInv, PollAccount, PollFetch, ReadPCs, TypeInv, WorkerType
  <2>2. \A s \in Slots : reading[s].valid => reading[s].account = poll.account
    BY <1>0, <1>2, <2>1, ReadingFacts
  <2>. QED
    BY <1>0, <1>2, <2>1, <2>2 DEF PollAccount
<1>3. CASE /\ worker.pc \in ReadPCs
           /\ worker'.poll.token.identity = poll.token.identity
           /\ worker'.poll.account = poll.account
           /\ worker'.pc = "settling" /\ worker'.poll.result.kind = "usage" =>
                 worker.pc = "settling" /\ worker'.poll.result = poll.result
  BY <1>0, <1>3 DEF AccountInv, PollAccount
<1>. QED
  BY <1>1, <1>2, <1>3, PollEvidence DEF ReadPCs

\* What a request went out with is the account of the file the host chose,
\* which is not replaced before the hook has correlated it.
LEMMA RequestAccountKept ==
    ASSUME TypeInv, DiskInv, AccountInv, PromptHook, [Next]_vars, NEW r \in Requests
    PROVE  RequestAccount(r)'
<1>0. CacheType /\ now \in Nat /\ requests[r] \in RequestRecord
  BY DEF TypeInv, HostType, RequestType
<1>1. requests[r].pc = "chosen" => disk'[requests[r].id] = disk[requests[r].id]
  <2>1. CASE \E id \in AuthIDs : FileStep(id)
    BY <2>1, WriteFacts DEF TypeInv, RequestType
  <2>2. CASE ~\E id \in AuthIDs : FileStep(id)
    <3>1. disk' = disk
      BY <2>2, WorkerFrame, PollFrame, GateFrame, ConfigFrame
      DEF Next, PickRequest, RequestStep, ChooseAuth, AfterAuth, Answer, Respond, CommitObservation, Tick, vars,
          environment
    <3>. QED
      BY <3>1
  <2>. QED
    BY <2>1, <2>2
<1>2. CASE requests'[r] = requests[r] /\ correlations'[r] \in {correlations[r], NoCorrelation}
  <2>1. requests'[r].pc = "chosen" => requests'[r].account = disk'[requests'[r].id].identity
    BY <1>1, <1>2 DEF AccountInv, RequestAccount
  <2>2. ASSUME requests'[r].pc = "upstream", correlations'[r] # NoCorrelation
        PROVE  /\ correlations'[r].incarnation <= nextIncarnation'
               /\ SpeaksFor(requests'[r].account, samples'[correlations'[r].id],
                            correlations'[r].incarnation)
    <3>1. requests[r].pc = "upstream" /\ correlations'[r] = correlations[r]
          /\ correlations[r] # NoCorrelation
      BY <1>2, <2>2
    <3>2. correlations[r].id \in AuthIDs /\ correlations[r].incarnation \in Nat
      BY <3>1 DEF TypeInv, RequestType, CorrelationOrNone, Correlation
    <3>3. /\ correlations[r].incarnation <= nextIncarnation
          /\ SpeaksFor(requests[r].account, samples[correlations[r].id], correlations[r].incarnation)
      BY <3>1 DEF AccountInv, RequestAccount
    <3>. QED
      BY <1>2, <3>1, <3>2, <3>3, SpeaksOn
  <2>4. ASSUME requests'[r].pc = "answered", correlations'[r] # NoCorrelation
        PROVE  /\ correlations'[r].incarnation <= nextIncarnation'
               /\ \A s \in Slots : requests'[r].batch[s].valid =>
                     SpeaksFor(requests'[r].batch[s].account, samples'[correlations'[r].id],
                               correlations'[r].incarnation)
    <3>1. requests[r].pc = "answered" /\ correlations'[r] = correlations[r]
          /\ correlations[r] # NoCorrelation
      BY <1>2, <2>4
    <3>2. correlations[r].id \in AuthIDs /\ correlations[r].incarnation \in Nat
      BY <3>1 DEF TypeInv, RequestType, CorrelationOrNone, Correlation
    <3>3. /\ correlations[r].incarnation <= nextIncarnation
          /\ \A s \in Slots : requests[r].batch[s].valid =>
                SpeaksFor(requests[r].batch[s].account, samples[correlations[r].id],
                          correlations[r].incarnation)
      BY <3>1 DEF AccountInv, RequestAccount
    <3>4. correlations[r].incarnation <= nextIncarnation'
      BY <3>2, <3>3, NumbersGrow
    <3>5. \A s \in Slots : requests[r].batch[s].valid =>
             SpeaksFor(requests[r].batch[s].account, samples'[correlations[r].id],
                       correlations[r].incarnation)
      BY <3>2, <3>3, SpeaksOn
    <3>. QED
      BY <1>2, <3>1, <3>4, <3>5
  <2>3. ASSUME requests'[r].pc = "observed"
        PROVE  /\ requests'[r].correlation.incarnation <= nextIncarnation'
               /\ \A s \in Slots : requests'[r].batch[s].valid =>
                     SpeaksFor(requests'[r].batch[s].account, samples'[requests'[r].correlation.id],
                               requests'[r].correlation.incarnation)
    <3>1. requests[r].pc = "observed"
      BY <1>2, <2>3
    <3>2. requests[r].correlation.id \in AuthIDs /\ requests[r].correlation.incarnation \in Nat
      BY <3>1 DEF TypeInv, RequestType, Correlation
    <3>3. requests[r].correlation.incarnation <= nextIncarnation
      BY <3>1 DEF AccountInv, RequestAccount
    <3>4. requests[r].correlation.incarnation <= nextIncarnation'
      BY <3>2, <3>3, NumbersGrow
    <3>5. ASSUME NEW s \in Slots, requests[r].batch[s].valid
          PROVE  SpeaksFor(requests[r].batch[s].account, samples'[requests[r].correlation.id],
                           requests[r].correlation.incarnation)
      <4>1. SpeaksFor(requests[r].batch[s].account, samples[requests[r].correlation.id],
                      requests[r].correlation.incarnation)
        BY <3>1, <3>5 DEF AccountInv, RequestAccount
      <4>. QED
        BY <3>2, <3>3, <4>1, SpeaksOn
    <3>. QED
      BY <1>2, <3>4, <3>5
  <2>. QED
    BY <2>1, <2>2, <2>3, <2>4 DEF RequestAccount
<1>3. CASE /\ disk' = disk /\ requests'[r].pc = "chosen"
           /\ requests'[r].account = disk[requests'[r].id].identity
  BY <1>3 DEF RequestAccount
<1>4. CASE /\ UNCHANGED <<samples, nextIncarnation>>
           /\ requests[r].pc = "chosen" /\ requests'[r].pc = "upstream"
           /\ requests'[r].account = requests[r].account
           /\ \/ correlations'[r] = NoCorrelation
              \/ /\ correlations'[r].id = requests[r].id
                 /\ correlations'[r].incarnation = samples[requests[r].id].incarnation
  <2>1. requests[r].id \in AuthIDs /\ requests[r].account = disk[requests[r].id].identity
    BY <1>4 DEF AccountInv, RequestAccount, TypeInv, RequestType
  <2>2. samples[requests[r].id].incarnation <= nextIncarnation
    BY <1>0, <2>1 DEF CacheType
  <2>3. samples[requests[r].id].identity <= requests[r].account
    BY <2>1 DEF DiskInv
  <2>4. SpeaksFor(requests[r].account, samples[requests[r].id], samples[requests[r].id].incarnation)
    BY <2>3 DEF SpeaksFor
  <2>. QED
    BY <1>4, <2>2, <2>4 DEF RequestAccount
<1>5. CASE /\ UNCHANGED <<samples, nextIncarnation>>
           /\ requests[r].pc = "upstream" /\ requests'[r].pc = "answered"
           /\ correlations'[r] = correlations[r]
           /\ requests'[r].batch \in Headers(requests[r].account)
  <2>1. /\ requests[r].account \in Numbers
        /\ correlations[r] # NoCorrelation =>
              /\ correlations[r].incarnation <= nextIncarnation
              /\ SpeaksFor(requests[r].account, samples[correlations[r].id], correlations[r].incarnation)
    BY <1>5 DEF AccountInv, RequestAccount, TypeInv, RequestType
  <2>2. \A s \in Slots : requests'[r].batch[s].valid =>
           requests'[r].batch[s].account = requests[r].account
    BY <1>0, <1>5, <2>1, HeaderFacts
  <2>. QED
    BY <1>5, <2>1, <2>2 DEF RequestAccount
<1>7. CASE /\ UNCHANGED <<samples, nextIncarnation>>
           /\ requests[r].pc = "answered" /\ requests'[r].pc = "observed"
           /\ correlations[r] # NoCorrelation /\ requests'[r].correlation = correlations[r]
           /\ requests'[r].batch = Parsed(requests[r].batch)
  <2>1. /\ correlations[r].incarnation <= nextIncarnation
        /\ \A s \in Slots : requests[r].batch[s].valid =>
              SpeaksFor(requests[r].batch[s].account, samples[correlations[r].id],
                        correlations[r].incarnation)
    BY <1>7 DEF AccountInv, RequestAccount
  <2>2. \A s \in Slots : requests'[r].batch[s].valid =>
           requests[r].batch[s].valid /\ requests'[r].batch[s] = requests[r].batch[s]
    BY <1>0, <1>7, ParsedFacts DEF RequestRecord
  <2>. QED
    BY <1>7, <2>1, <2>2 DEF RequestAccount
<1>6. CASE requests'[r].pc = "done"
  BY <1>6 DEF RequestAccount
<1>. QED
  BY <1>2, <1>3, <1>4, <1>5, <1>6, <1>7, RequestEvidence

\* Quota evidence is never attributed to an account that replaced the one it
\* speaks of, if the hook follows the host's choice before the file changes
\* hands: whatever else was in flight when it did (a usage fetch, a response,
\* a listing) is dropped.
THEOREM EvidenceKeepsAccount ==
    ASSUME PromptHook
    PROVE  Spec => []EvidenceOfListedAccount
<1>1. Init => AccountInv
  BY DEF Init, CacheInit, AccountInv, WindowAccount, PollAccount, RequestAccount, NoSample, Held, Waiting,
     ReadPCs, NoRequest
<1>2. TypeInv /\ DiskInv /\ AccountInv /\ [Next]_vars => AccountInv'
  BY WindowAccountsKept, PollAccountKept, RequestAccountKept, PromptHook DEF AccountInv
<1>3. AccountInv => EvidenceOfListedAccount
  BY DEF AccountInv, WindowAccount, EvidenceOfListedAccount, Members, Windows
<1>. QED
  BY <1>1, <1>2, <1>3, RouterTypes, NothingAhead, PTL DEF Spec

-----------------------------------------------------------------------------
(* The refinement of CredentialLedger *)

\* The step gives the entry a number that was never given out before.
FreshAbove(id) == samples'[id].incarnation > nextIncarnation

\* Incarnations are only counted up, and no two entries get the same number.
CountsUp ==
    /\ nextIncarnation' >= nextIncarnation
    /\ \A id, other \in AuthIDs :
          FreshAbove(id) /\ samples'[id].incarnation = samples'[other].incarnation => id = other

LEMMA FreshNumbers == TypeInv /\ [Next]_vars => CountsUp
<1> SUFFICES ASSUME TypeInv, [Next]_vars PROVE CountsUp
  OBVIOUS
<1>0. /\ CacheType /\ now \in Nat /\ queue \in Queues /\ nextIncarnation \in Nat
      /\ worker.listing \in HostListings /\ NoListing \in HostListings
      /\ \A g \in Gates : gates[g].listing \in HostListings
      /\ \A id \in AuthIDs : samples[id].incarnation \in Nat /\ samples[id].incarnation <= nextIncarnation
  BY ListingType, SampleKinds
  DEF TypeInv, HostType, LifecycleType, WorkerType, WorkerRecord, GateType, GateRecord, CacheType
<1>1. ASSUME nextIncarnation' >= nextIncarnation, NEW only \in AuthIDs,
             \A id \in AuthIDs \ {only} : samples'[id].incarnation = samples[id].incarnation
      PROVE  CountsUp
  BY <1>0, <1>1 DEF CountsUp, FreshAbove
<1>2. ASSUME nextIncarnation' = nextIncarnation,
             \A id \in AuthIDs : samples'[id].incarnation = samples[id].incarnation
      PROVE  CountsUp
  BY <1>0, <1>2 DEF CountsUp, FreshAbove
<1>3. ASSUME NEW listing \in HostListings, Reconcile(listing)
      PROVE  CountsUp
  <2> DEFINE F == Fresh(listing)
  <2>1. F \in SUBSET AuthIDs /\ F \subseteq DOMAIN listing
    <3>1. DOMAIN listing \subseteq AuthIDs
      BY DEF HostListings
    <3>. QED
      BY <3>1 DEF Fresh, Replaced
  <2>2. /\ \A id \in F : Rank(id, F) \in Nat
        /\ \A id, other \in F : Rank(id, F) = Rank(other, F) => id = other
    BY <2>1, RankNumbers
  <2>3. \A id \in F : samples'[id].incarnation = nextIncarnation + Rank(id, F)
    <3> TAKE id \in F
    <3>1. samples'[id] = Relisted(id, listing)
      BY <1>3, <2>1 DEF Reconcile
    <3>. QED
      BY <3>1 DEF Relisted, NoSample
  <2> HIDE DEF F
  <2>4. \A id \in AuthIDs \ F : ~FreshAbove(id)
    <3> TAKE id \in AuthIDs \ F
    <3>1. samples'[id].incarnation \in {0, samples[id].incarnation}
      BY <1>0, <1>3, ReconcileFacts DEF F, NoSample
    <3>. QED
      BY <1>0, <3>1 DEF FreshAbove
  <2>5. ASSUME NEW id \in AuthIDs, NEW other \in AuthIDs, FreshAbove(id),
               samples'[id].incarnation = samples'[other].incarnation
        PROVE  id = other
    <3>1. id \in F /\ other \in F
      BY <2>4, <2>5 DEF FreshAbove
    <3>. QED
      BY <1>0, <2>2, <2>3, <2>5, <3>1
  <2>. QED
    BY <1>0, <1>3, <2>5, ReconcileFacts DEF CountsUp
<1>4. UNCHANGED <<samples, nextIncarnation>> => CountsUp
  BY <1>2
<1>5. CASE WorkerStep
  BY <1>0, <1>3, <1>4, <1>5, WorkerFrame DEF WorkerReconcile, ReconcileDiscovery, cacheVars
<1>6. CASE PollStep
  BY <1>1, <1>6, PollCache
<1>7. CASE PickRequest
  <2>1. PICK candidates, cfg : QueueFromRequest(candidates, {}, cfg)
    BY <1>7 DEF PickRequest
  <2>2. {} \in SUBSET AuthIDs
    OBVIOUS
  <2>. QED
    BY <1>0, <1>2, <2>1, <2>2, RequestQueues DEF SameEntry, SameToken
<1>8. ASSUME NEW g \in Gates, GateStep(g)
      PROVE  CountsUp
  <2>1. GateReconcile(g) => UNCHANGED <<samples, nextIncarnation>> \/ Reconcile(gates[g].listing)
    BY DEF GateReconcile, ReconcileDiscovery, cacheVars
  <2>2. CASE GateReconcile(g)
    BY <1>0, <1>3, <1>4, <2>1, <2>2
  <2>3. CASE UNCHANGED nextIncarnation /\ \A id \in AuthIDs : SameEntry(id)
    BY <1>2, <2>3 DEF SameEntry, SameToken
  <2>. QED
    BY <1>8, <2>2, <2>3, GateFrame
<1>9. ASSUME NEW r \in Requests, RequestStep(r)
      PROVE  CountsUp
  BY <1>2, <1>4, <1>9, ObservationFrame DEF SameToken
<1>10. CASE ConfigStep
  BY <1>0, <1>3, <1>4, <1>10, ConfigFrame
<1>11. CASE (\E id \in AuthIDs : FileStep(id)) \/ Tick \/ UNCHANGED vars
  BY <1>4, <1>11, WriteFacts DEF Tick, vars, cacheVars
<1>. QED
  BY <1>5, <1>6, <1>7, <1>8, <1>9, <1>10, <1>11 DEF Next

\* No entry carries a number that was not given out yet.
NumbersBounded ==
    /\ nextIncarnation \in Nat
    /\ \A id \in AuthIDs : samples[id].incarnation \in Nat /\ samples[id].incarnation <= nextIncarnation

LEMMA CacheNumbers == CacheType => NumbersBounded
BY SampleKinds DEF CacheType, NumbersBounded

\* No two credentials carry the same incarnation, whatever the worker, the
\* gates and the configuration do to the cache and in whatever order.
THEOREM NumbersAreUnique == Spec => []IncarnationsUnique
<1>1. Init => IncarnationsUnique
  BY DEF Init, CacheInit, IncarnationsUnique, Members, Held, NoSample
<1>2. TypeInv /\ IncarnationsUnique /\ [Next]_vars => IncarnationsUnique'
  <2> SUFFICES ASSUME TypeInv, IncarnationsUnique, [Next]_vars PROVE IncarnationsUnique'
    OBVIOUS
  <2>1. CacheType /\ CacheType'
    BY NextKeepsTypes DEF TypeInv
  <2>2. /\ nextIncarnation \in Nat
        /\ \A id \in AuthIDs : samples[id].incarnation \in Nat /\ samples'[id].incarnation \in Nat
        /\ \A id \in AuthIDs : samples'[id].incarnation <= nextIncarnation'
    <3>1. CacheType' => NumbersBounded'
      BY CacheNumbers, PTL
    <3>. QED
      BY <2>1, <3>1, CacheNumbers DEF NumbersBounded
  <2>3. \A id \in AuthIDs :
           samples'[id].incarnation \in {0, samples[id].incarnation} \/ FreshAbove(id)
    BY WindowSteps DEF WindowStep, KeptWindows, NewEntry, FreshAbove,
       PollLanded, ObservationLanded, Landed, SameToken
  <2>4. ASSUME NEW id \in AuthIDs, NEW other \in AuthIDs, samples'[id].incarnation # 0,
               samples'[id].incarnation = samples'[other].incarnation
        PROVE  id = other
    <3>1. CASE FreshAbove(id)
      BY <2>4, <3>1, FreshNumbers DEF CountsUp
    <3>2. CASE ~FreshAbove(id)
      <4>1. /\ samples'[id].incarnation = samples[id].incarnation
            /\ samples'[other].incarnation = samples[other].incarnation
        BY <2>3, <2>4, <3>2 DEF FreshAbove
      <4>2. id \in Members /\ other \in Members
        BY <2>4, <4>1 DEF Members, Held
      <4>. QED
        BY <2>4, <4>1, <4>2 DEF IncarnationsUnique
    <3>. QED
      BY <3>1, <3>2
  <2>. QED
    BY <2>2, <2>4 DEF IncarnationsUnique, Members, Held
<1>. QED
  BY <1>1, <1>2, RouterTypes, PTL DEF Spec

Lifetime == [id \in AuthIDs |-> samples[id].incarnation]
EvidenceMap == [id \in AuthIDs |-> [s \in Slots |-> EvidenceTime(samples[id].windows[s])]]

\* The cache maps to numbers of lifetimes and times of evidence.
LEMMA LedgerType ==
    ASSUME CacheType
    PROVE  /\ Lifetime \in [AuthIDs -> Nat]
           /\ EvidenceMap \in [AuthIDs -> [Slots -> Nat]]
           /\ nextIncarnation \in Nat
<1>1. \A id \in AuthIDs : samples[id].incarnation \in Nat
  BY SampleKinds
<1>2. ASSUME NEW id \in AuthIDs, NEW s \in Slots
      PROVE  EvidenceTime(samples[id].windows[s]) \in Nat
  <2>1. CASE samples[id].windows[s].valid
    BY <2>1, WindowTimes DEF EvidenceTime, Evidence
  <2>2. CASE ~samples[id].windows[s].valid
    BY <2>2 DEF EvidenceTime
  <2>. QED
    BY <2>1, <2>2
<1>. QED
  BY <1>1, <1>2 DEF Lifetime, EvidenceMap, CacheType

\* Entries that are kept, leave or begin anew make a turnover of the ledger.
LEMMA TurnoverStep ==
    ASSUME TypeInv, [Next]_vars, \A id \in AuthIDs : KeptOrNew(id)
    PROVE  Ledger!Turnover
<1> DEFINE left == {id \in AuthIDs : NewEntry(id) /\ samples'[id].incarnation = 0}
           begun == {id \in AuthIDs : NewEntry(id) /\ FreshAbove(id)}
<1>1. CacheType /\ CacheType' /\ CountsUp
  BY NextKeepsTypes, FreshNumbers DEF TypeInv
<1>2. /\ nextIncarnation \in Nat /\ nextIncarnation' \in Nat
      /\ Lifetime' \in [AuthIDs -> Nat] /\ EvidenceMap' \in [AuthIDs -> [Slots -> Nat]]
  <2>1. CacheType' => (/\ Lifetime \in [AuthIDs -> Nat]
                       /\ EvidenceMap \in [AuthIDs -> [Slots -> Nat]]
                       /\ nextIncarnation \in Nat)'
    BY LedgerType, PTL
  <2>. QED
    BY <1>1, <2>1, LedgerType
<1>3. \A id \in AuthIDs : samples'[id].incarnation \in Nat /\ samples'[id].incarnation <= nextIncarnation'
  BY <1>1, <1>2 DEF CacheType, Lifetime
<1>4. left \in SUBSET AuthIDs /\ begun \in SUBSET AuthIDs
  OBVIOUS
<1>5. \A id \in left : Lifetime'[id] = 0
  BY DEF Lifetime
<1>6. /\ \A id \in begun : Lifetime'[id] \in (nextIncarnation + 1)..nextIncarnation'
      /\ \A id, other \in begun : Lifetime'[id] = Lifetime'[other] => id = other
  BY <1>1, <1>2, <1>3 DEF Lifetime, FreshAbove, CountsUp
<1>7. \A id \in left \cup begun : EvidenceMap'[id] = [s \in Slots |-> 0]
  BY DEF EvidenceMap, NewEntry, NoWindows, NoWindow, EvidenceTime
<1>8. \A id \in AuthIDs \ (left \cup begun) :
         Lifetime'[id] = Lifetime[id] /\ EvidenceMap'[id] = EvidenceMap[id]
  BY DEF KeptOrNew, KeptWindows, NewEntry, FreshAbove, Lifetime, EvidenceMap
<1>9. nextIncarnation' >= nextIncarnation
  BY <1>1 DEF CountsUp
<1> HIDE DEF left, begun
<1>. QED
  BY <1>2, <1>4, <1>5, <1>6, <1>7, <1>8, <1>9
     DEF Ledger!Turnover, Ledger!Evidence, Ledger!NoEvidence, Lifetime, EvidenceMap

\* A batch that lands in one entry, none of it older than what it replaces,
\* is an observation of the ledger.
LEMMA ObserveStep ==
    ASSUME TypeInv, [Next]_vars, UNCHANGED nextIncarnation, NEW id \in AuthIDs,
           Held(id), \A other \in AuthIDs : samples'[other].incarnation = samples[other].incarnation,
           \A other \in AuthIDs \ {id} : samples'[other] = samples[other],
           \A s \in Slots : EvidenceTime(samples'[id].windows[s]) >= EvidenceTime(samples[id].windows[s])
    PROVE  Ledger!Observe
<1>1. EvidenceMap' \in [AuthIDs -> [Slots -> Nat]]
  <2>1. CacheType'
    BY NextKeepsTypes DEF TypeInv
  <2>2. CacheType' => (EvidenceMap \in [AuthIDs -> [Slots -> Nat]])'
    BY LedgerType, PTL
  <2>. QED
    BY <2>1, <2>2
<1>. QED
  BY <1>1 DEF Ledger!Observe, Ledger!Evidence, EvidenceMap, Held

\* What lands is not older than what it replaces: a poll's windows are
\* stamped after its start, a response's when it was observed.
LEMMA LandedNewer ==
    ASSUME TypeInv, AgeInv, NEW id \in AuthIDs, NEW s \in Slots,
           \/ id = poll.id /\ PollLanded
           \/ \E r \in Requests : id = requests[r].correlation.id /\ ObservationLanded(r)
    PROVE  EvidenceTime(samples'[id].windows[s]) >= EvidenceTime(samples[id].windows[s])
<1> DEFINE old == samples[id].windows[s]
           new == samples'[id].windows[s]
<1>0. CacheType /\ now \in Nat /\ poll \in PollRecord
  BY DEF TypeInv, HostType, WorkerType, WorkerRecord, poll
<1>1. old.valid => old.sampledAt \in Nat /\ old.sampledAt # NoTime
  BY <1>0, WindowTimes DEF Evidence, AgeInv, WindowAge
<1>2. CASE new = old
  BY <1>1, <1>2 DEF EvidenceTime
<1>3. ASSUME id = poll.id, PollLanded, new # old
      PROVE  new.valid /\ new.sampledAt \in Nat /\ (old.valid => old.sampledAt <= new.sampledAt)
  <2>1. /\ new.valid /\ new.sampledAt = now
        /\ old.valid /\ old.sampledAt # NoTime => old.sampledAt < poll.startedAt
    BY <1>3, PollLandedFacts DEF LandedWindow
  <2>2. poll.startedAt <= now /\ poll.startedAt \in Nat
    BY <1>0, <1>3 DEF AgeInv, PollAge, PollLanded, ReadPCs, PollRecord
  <2>. QED
    BY <1>0, <1>1, <2>1, <2>2
<1>4. ASSUME NEW r \in Requests, id = requests[r].correlation.id, ObservationLanded(r), new # old
      PROVE  new.valid /\ new.sampledAt \in Nat /\ (old.valid => old.sampledAt <= new.sampledAt)
  <2>1. /\ new.valid /\ new.sampledAt = requests[r].observedAt
        /\ old.valid /\ old.sampledAt # NoTime => requests[r].observedAt >= old.sampledAt
    BY <1>4, ObservationLandedFacts DEF LandedWindow
  <2>2. requests[r].observedAt \in Nat
    BY DEF TypeInv, RequestType, RequestRecord
  <2>. QED
    BY <1>1, <2>1, <2>2
<1>5. CASE new.valid /\ new.sampledAt \in Nat /\ (old.valid => old.sampledAt <= new.sampledAt)
  BY <1>1, <1>5 DEF EvidenceTime
<1>. QED
  BY <1>2, <1>3, <1>4, <1>5

\* Every step of the router is a turnover, an observation or a stutter of the
\* ledger.
LEMMA RouterLedgerStep ==
    TypeInv /\ AgeInv /\ [Next]_vars => [Ledger!LedgerNext]_Ledger!ledgerVars
<1> SUFFICES ASSUME TypeInv, AgeInv, [Next]_vars PROVE Ledger!LedgerNext
  OBVIOUS
<1>1. (\A id \in AuthIDs : KeptOrNew(id)) => Ledger!LedgerNext
  BY TurnoverStep DEF Ledger!LedgerNext
<1>2. CASE PollStep
  <2>1. poll.id \in AuthIDs /\ \A id \in AuthIDs \ {poll.id} : samples'[id] = samples[id]
    BY <1>2, PollCache
  <2>2. CASE KeptOrNew(poll.id)
    BY <1>1, <2>1, <2>2 DEF KeptOrNew, KeptWindows
  <2>3. CASE PollLanded
    <3>1. UNCHANGED nextIncarnation
      BY <1>2, <2>3 DEF PollStep, PollLanded, PollBegin, PollRead, PollReadFails, PollReadNoToken,
         PollDefer, PollCheck, PollClaim, PollNote, PollAttempt, PollBind, PollFetch, PollFetchFails,
         PollCommit, PollFail, CommitWindowBatch, RecordRefreshFailure, cacheVars
    <3>2. Held(poll.id) /\ samples'[poll.id].incarnation = samples[poll.id].incarnation
      BY <2>3 DEF PollLanded, Landed, SameToken
    <3>3. \A s \in Slots :
             EvidenceTime(samples'[poll.id].windows[s]) >= EvidenceTime(samples[poll.id].windows[s])
      BY <2>1, <2>3, LandedNewer
    <3>4. Ledger!Observe
      BY <2>1, <3>1, <3>2, <3>3, ObserveStep
    <3>. QED
      BY <3>4 DEF Ledger!LedgerNext
  <2>. QED
    BY <1>2, <2>1, <2>2, <2>3, WindowsPolled DEF PolledWindows
<1>3. ASSUME NEW r \in Requests, RequestStep(r) PROVE Ledger!LedgerNext
  <2> DEFINE only == requests[r].correlation.id
  <2>1. CASE UNCHANGED samples
    BY <1>1, <2>1 DEF KeptOrNew, KeptWindows
  <2>2. CASE ObservationLanded(r) /\ only \in AuthIDs
             /\ \A other \in AuthIDs \ {only} : samples'[other] = samples[other]
    <3>1. UNCHANGED nextIncarnation /\ Held(only) /\ samples'[only].incarnation = samples[only].incarnation
      BY <1>3, <2>2, ObservationFrame DEF ObservationLanded, Landed, SameToken
    <3>2. \A s \in Slots : EvidenceTime(samples'[only].windows[s]) >= EvidenceTime(samples[only].windows[s])
      BY <2>2, LandedNewer
    <3> HIDE DEF only
    <3>3. Ledger!Observe
      BY <2>2, <3>1, <3>2, ObserveStep
    <3>. QED
      BY <3>3 DEF Ledger!LedgerNext
  <2>. QED
    BY <1>3, <2>1, <2>2, WindowsObserved
<1>4. CASE ~PollStep /\ ~\E r \in Requests : RequestStep(r)
  BY <1>1, <1>4, WindowsElsewhere
<1>. QED
  BY <1>2, <1>3, <1>4

\* The composed router keeps what the cache promises whatever its callers do:
\* none of its interleavings reuses an incarnation, carries evidence over to
\* another lifetime or replaces evidence by older evidence.
THEOREM RouterImplementsLedger == Spec => ImplementsLedger
<1>1. Init => Ledger!LedgerInit
  BY DEF Init, CacheInit, Ledger!LedgerInit, Ledger!NoEvidence, NoSample, NoWindows, NoWindow, EvidenceTime
<1>. QED
  BY <1>1, RouterLedgerStep, EvidenceAges, RouterTypes, PTL DEF Spec, ImplementsLedger, Ledger!LedgerSpec
=============================================================================
