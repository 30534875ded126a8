------------------------------- MODULE Router -------------------------------
(***************************************************************************)
(* The router at work: host listings, the refresh worker and its usage     *)
(* polls, the before-auth gate, the scheduler's pick, the responses whose  *)
(* headers are observed, and the configuration, all sharing the cache and  *)
(* the refresh queue.  A step is a critical section or a host call.        *)
(*                                                                         *)
(* The host's auth files are numbered by writes: the account, the token    *)
(* and the metadata of a file are the numbers of the writes that last      *)
(* changed them.                                                           *)
(***************************************************************************)
EXTENDS QuotaCache, RefreshQueue, Scheduling, Configuration

CONSTANTS Gates,            \* concurrent requests at the before-auth gate
          Requests,         \* concurrent requests that reach a Claude account
          CandidateLists,   \* the candidate sequences offered to pick
          RequestModels,    \* the requested models: records [name, family]
          Documents,        \* the configuration documents that are applied
          FirstDocuments,   \* those among them that the plugin is registered with
          RetryDelay,       \* the 25 ms of retryRevisionCheck
          CorrelationTTL,   \* selectedAuthCorrelationTTL
          PromptHook,       \* whether no file changes between the host's choice of a credential
                            \* and the after-auth hook
          MaxCorrelations,  \* maxSelectedAuthCorrelations
          Percents, ResetOffsets,  \* usage readings, and how far ahead a window resets (0: unknown)
          ObservedSlots,    \* the windows that readings carry
          FailureKinds,     \* usage failures: records [category, hint]
          FileChanges,      \* the kinds of file writes that happen
          MaxNow, MaxWrites, MaxFaults, MaxToggles,  \* bounds on clock, file writes, host and
                                                     \* upstream faults, applied configurations,
          MaxListings                                \* and host listings: never reached

ASSUME RouterAssumption ==
    /\ QueuedIDs = AuthIDs
    /\ RetryDelay \in Nat /\ CorrelationTTL \in Nat
    /\ MaxCorrelations \in Nat \ {0} /\ Requests \subseteq Nat
    /\ PromptHook \in BOOLEAN
    /\ \A model \in RequestModels : model.family \in Families
    /\ FirstDocuments \subseteq Documents
    /\ \A document \in FirstDocuments : Accepted(document) /\ Decoded(document).enabled
    /\ \A document \in Documents : document.pollInterval \subseteq Int
    /\ \A failure \in FailureKinds : failure.category \in Categories /\ failure.hint \in Int
    /\ 1..(1 + MaxWrites) \subseteq Identities
    /\ 1..(1 + MaxWrites) \subseteq Revisions
    /\ 1..(1 + MaxWrites) \subseteq ListRevisions
    /\ Percents \subseteq Nat /\ ResetOffsets \subseteq Nat /\ ObservedSlots \subseteq Slots
    /\ "five_hour" \in ObservedSlots
    /\ {MaxWrites, MaxFaults, MaxToggles, MaxListings} \subseteq Nat /\ MaxNow \in Nat \ {0}

VARIABLES now,           \* r.now()
          disk,          \* the host's auth files
          spent,         \* environment budget used: writes, faults, toggles
          discovery,     \* discoveryIssued and discoveryReconciled
          queue,         \* the refresh queue
          lifecycle,     \* "running", "stopping", "stopped": the refresh worker's handle
          config,        \* the configuration in force
          worker,        \* the refresh worker
          gates,         \* requests at the gate
          requests,      \* requests on their way to and from upstream
          correlations,  \* selectedAuths
          owed,          \* ghost: the refresh pause last imposed on the entry of an auth ID
          swept,         \* ghost: the cutoff the last fleet pass worked with
          carried        \* ghost: the entries up to this incarnation were there when the worker
                         \* was last started

environment == <<now, disk, spent, owed>>
lifecycleVars == <<lifecycle, config, swept, carried>>
vars == <<samples, nextIncarnation, now, disk, spent, owed, discovery, queue, lifecycle,
          config, swept, carried, worker, gates, requests, correlations>>

-----------------------------------------------------------------------------
(* Host listings *)

Listing == [id \in {i \in AuthIDs : disk[i].present} |->
               [identity |-> disk[id].identity, listRevision |-> disk[id].stamp]]

NoListing == [id \in {} |-> 0]

NothingOwed == [revision |-> None, category |-> NoError, until |-> NoTime]

\* A pause goes with the entry it was imposed on.
OwedAfter(listing) ==
    [id \in AuthIDs |-> IF id \in DOMAIN listing \ Fresh(listing) THEN owed[id] ELSE NothingOwed]

Fault == /\ spent.faults < MaxFaults
         /\ spent' = [spent EXCEPT !.faults = @ + 1]

\* Mutant: listings are reconciled in the order they arrive.
NeverSuperseded(generation) == FALSE

\* The second critical section of discoverAuths: a listing issued before one
\* that is already reconciled is dropped.
Superseded(generation) == generation < discovery.reconciled

\* Mutant: off by one.
ReconcileAhead(generation, listing) ==
    /\ ~Superseded(generation)
    /\ Reconcile(listing)
    /\ owed' = OwedAfter(listing)
    /\ discovery' = [discovery EXCEPT !.reconciled = generation + 1]

ReconcileDiscovery(generation, listing) ==
    /\ ~Superseded(generation)
    /\ Reconcile(listing)
    /\ owed' = OwedAfter(listing)
    /\ discovery' = [discovery EXCEPT !.reconciled = generation]

IssueDiscovery ==
    /\ discovery.issued < MaxListings
    /\ discovery' = [discovery EXCEPT !.issued = @ + 1]

-----------------------------------------------------------------------------
(* Usage readings.  Ghost fields: the account a window speaks of, and when  *)
(* upstream measured it. *)

Reading(account, percent, resetAt) ==
    [s \in Slots |->
        IF s \in ObservedSlots
        THEN [valid |-> TRUE, percent |-> percent, resetAt |-> resetAt, sampledAt |-> NoTime,
              account |-> account, measuredAt |-> now]
        ELSE NoWindow]

Readings(account) ==
    {Reading(account, percent, IF offset = 0 THEN NoTime ELSE now + offset) :
        percent \in Percents, offset \in ResetOffsets}

-----------------------------------------------------------------------------
(* The refresh worker: refreshLoop, refreshAuths, pollAuthWithRevisionIntent *)

NoPoll == [id |-> 0, check |-> FALSE, intent |-> FALSE, startedAt |-> 0,
           token |-> [identity |-> None, revision |-> None, generation |-> 0, incarnation |-> 0],
           account |-> 0, result |-> [kind |-> "none"]]

Waiting == [pc |-> "waiting", all |-> FALSE, ids |-> {}, revisions |-> {},
            config |-> DefaultPluginConfig, generation |-> 0, listing |-> NoListing, signals |-> {}, todo |-> {}, poll |-> NoPoll]

Cancelled == lifecycle = "stopping"

\* The select of refreshLoop: a wake-up, the timer of the earliest deferred
\* revision check, or cancellation; any of those that are ready may be chosen.
WorkerWake ==
    /\ worker.pc = "waiting"
    /\ queue.wake \/ DueDeferred(queue, now) # {}
    /\ queue' = [queue EXCEPT !.wake = FALSE]
    /\ worker' = [worker EXCEPT !.pc = "taking"]
    /\ UNCHANGED <<cacheVars, environment, discovery, lifecycleVars, gates, requests, correlations>>

WorkerExit ==
    /\ worker.pc = "waiting"
    /\ Cancelled
    /\ worker' = [worker EXCEPT !.pc = "exited"]
    /\ UNCHANGED <<cacheVars, environment, discovery, queue, lifecycleVars, gates, requests, correlations>>

\* takePendingRefresh.
WorkerTake ==
    /\ worker.pc = "taking"
    /\ HasWork(queue, now)
    /\ queue' = Taken(queue, now)
    /\ worker' = [worker EXCEPT
           !.pc = "loading", !.all = queue.all,
           !.ids = IF queue.all THEN {} ELSE queue.ids,
           !.revisions = IF queue.all THEN {} ELSE Promoted(queue, now).revisions]
    /\ UNCHANGED <<cacheVars, environment, discovery, lifecycleVars, gates, requests, correlations>>

\* The configuration is read after the work is taken; then comes the first
\* critical section of discoverAuths.  Disabled or cancelled, the pass is over.
WorkerLoad ==
    /\ worker.pc = "loading"
    /\ IF Cancelled \/ ~config.enabled
       THEN /\ worker' = [worker EXCEPT !.pc = "finishing"]
            /\ UNCHANGED discovery
       ELSE /\ IssueDiscovery
            /\ worker' = [worker EXCEPT !.pc = "listing", !.config = config,
                                        !.generation = discovery'.issued]
    /\ UNCHANGED <<cacheVars, environment, queue, lifecycleVars, gates, requests, correlations>>

WorkerIdle ==
    /\ worker.pc = "taking"
    /\ ~HasWork(queue, now)
    /\ worker' = Waiting
    /\ UNCHANGED <<cacheVars, environment, discovery, queue, lifecycleVars, gates, requests, correlations>>

WorkerList ==
    /\ worker.pc = "listing"
    /\ worker' = [worker EXCEPT !.pc = "reconciling", !.listing = Listing]
    /\ UNCHANGED <<cacheVars, environment, discovery, queue, lifecycleVars, gates, requests, correlations>>

\* A failed listing keeps the revision checks of the pass, and nothing else.
RetryAll(q, ids) ==
    [q EXCEPT !.deferred = [id \in QueuedIDs |->
                               IF id \in ids /\ (@[id] = NotDeferred \/ now + RetryDelay < @[id])
                               THEN now + RetryDelay ELSE @[id]],
              !.wake = @ \/ ids # {}]

WorkerListFails ==
    /\ worker.pc = "listing"
    /\ Fault
    /\ queue' = IF Cancelled THEN queue ELSE RetryAll(queue, worker.revisions)
    /\ worker' = [worker EXCEPT !.pc = "finishing"]
    /\ swept' = IF worker.all THEN worker.config.cutoff ELSE swept
    /\ UNCHANGED <<cacheVars, now, disk, owed, discovery, lifecycle, config, carried, gates, requests, correlations>>

WorkerReconcile ==
    /\ worker.pc = "reconciling"
    /\ ReconcileDiscovery(worker.generation, worker.listing)
    /\ worker' = [worker EXCEPT !.pc = "signalling",
                                !.signals = Replaced(worker.listing) \cup Changed(worker.listing)]
    /\ UNCHANGED <<now, disk, spent, queue, lifecycleVars, gates, requests, correlations>>

WorkerSuperseded ==
    /\ worker.pc = "reconciling"
    /\ Superseded(worker.generation)
    /\ queue' = Requeue(queue, worker.all, worker.ids, worker.revisions)
    /\ worker' = [worker EXCEPT !.pc = "finishing"]
    /\ UNCHANGED <<cacheVars, environment, discovery, lifecycleVars, gates, requests, correlations>>

\* queueRevisionCheckFromWorker for every replaced or changed credential.
Selected(w) == IF w.all THEN DOMAIN w.listing ELSE DOMAIN w.listing \cap (w.ids \cup w.revisions)

\* Mutant: queueRevisionCheck, which takes lifecycleMu, in its place.
SignalUnderLifecycle ==
    /\ worker.pc = "signalling"
    /\ lifecycle # "stopping"
    /\ queue' = QueueRevisions(queue, worker.signals)
    /\ worker' = [worker EXCEPT !.pc = "passing", !.signals = {}, !.todo = Selected(worker)]
    /\ swept' = IF worker.all THEN worker.config.cutoff ELSE swept
    /\ UNCHANGED <<cacheVars, environment, discovery, lifecycle, config, carried, gates, requests,
                   correlations>>

WorkerSignal ==
    /\ worker.pc = "signalling"
    /\ queue' = QueueRevisions(queue, worker.signals)
    /\ worker' = [worker EXCEPT !.pc = "passing", !.signals = {}, !.todo = Selected(worker)]
    /\ swept' = IF worker.all THEN worker.config.cutoff ELSE swept
    /\ UNCHANGED <<cacheVars, environment, discovery, lifecycle, config, carried, gates, requests,
                   correlations>>

\* The loop of refreshAuths over the selected credentials, in ID order.
CheckOnly(w, id) == ~w.all /\ id \in w.revisions \ w.ids

WorkerNext ==
    /\ worker.pc = "passing"
    /\ worker.todo # {}
    /\ ~Cancelled
    /\ LET id == Min(worker.todo)
           check == CheckOnly(worker, id)
       IN  worker' = [worker EXCEPT
               !.pc = IF check THEN "claiming" ELSE "beginning",
               !.todo = @ \ {id},
               !.poll = [NoPoll EXCEPT !.id = id, !.check = check,
                                       !.intent = ~worker.all /\ id \in worker.revisions]]
    /\ UNCHANGED <<cacheVars, environment, discovery, queue, lifecycleVars, gates, requests, correlations>>

WorkerPassEnds ==
    /\ worker.pc = "passing"
    /\ worker.todo = {} \/ Cancelled
    /\ worker' = [worker EXCEPT !.pc = "finishing"]
    /\ UNCHANGED <<cacheVars, environment, discovery, queue, lifecycleVars, gates, requests, correlations>>

WorkerFinish ==
    /\ worker.pc = "finishing"
    /\ queue' = Finished(queue, worker.all, worker.ids)
    /\ worker' = [Waiting EXCEPT !.pc = IF Cancelled THEN "exited" ELSE "taking"]
    /\ UNCHANGED <<cacheVars, environment, discovery, lifecycleVars, gates, requests, correlations>>

-----------------------------------------------------------------------------
(* One poll *)

poll == worker.poll

EndPoll == worker' = [worker EXCEPT !.pc = "passing", !.poll = NoPoll]

\* Mutant: due at once.
CheckDueNow(id) == now

\* checkAuthRevision: a throttled check is deferred until the throttle ends.
RevisionCheckDue(id) == AtLeast(now, samples[id].checkAttemptAt + worker.config.pollInterval)

PollClaim ==
    /\ worker.pc = "claiming"
    /\ ClaimRevisionCheck(poll.id, now, worker.config.pollInterval)
    /\ worker' = [worker EXCEPT !.pc = "beginning"]
    /\ UNCHANGED <<environment, discovery, queue, lifecycleVars, gates, requests, correlations>>

PollDefer ==
    /\ worker.pc = "claiming"
    /\ ~RevisionCheckClaimable(poll.id, now, worker.config.pollInterval)
    /\ queue' = IF Cancelled THEN queue
                ELSE Defer(queue, poll.id, IF Held(poll.id) THEN RevisionCheckDue(poll.id) ELSE now)
    /\ EndPoll
    /\ UNCHANGED <<cacheVars, environment, discovery, lifecycleVars, gates, requests, correlations>>

\* bindingSnapshot; a paused credential is only read for a revision check.
PollBegins(id) ==
    /\ Held(id)
    /\ samples[id].identity = worker.listing[id].identity
    /\ poll.check \/ poll.intent \/ ~RefreshPaused(samples[id], now)

PollBegin ==
    /\ worker.pc = "beginning"
    /\ IF PollBegins(poll.id)
       THEN worker' = [worker EXCEPT
               !.pc = "reading",
               !.poll.startedAt = now,
               !.poll.token = [identity |-> worker.listing[poll.id].identity, revision |-> None,
                               generation |-> samples[poll.id].generation,
                               incarnation |-> samples[poll.id].incarnation]]
       ELSE EndPoll
    /\ UNCHANGED <<cacheVars, environment, discovery, queue, lifecycleVars, gates, requests, correlations>>

PollRead ==
    /\ worker.pc = "reading"
    /\ disk[poll.id].present
    /\ disk[poll.id].revision # None
    /\ worker' = [worker EXCEPT !.pc = "binding",
                                !.poll.token.revision = disk[poll.id].revision,
                                !.poll.account = disk[poll.id].identity]
    /\ UNCHANGED <<cacheVars, environment, discovery, queue, lifecycleVars, gates, requests, correlations>>

\* recordPollFailure, if the credential is still the one the poll is about.
NotePollFailure(category) ==
    \/ RecordFailureForIdentity(poll.id, poll.token, category)
    \/ /\ ~(Held(poll.id) /\ SampleMatches(samples[poll.id], poll.token))
       /\ UNCHANGED cacheVars

\* auth.get fails, or answers no JSON: a missing file always fails.
PollReadFails ==
    /\ worker.pc = "reading"
    /\ \/ disk[poll.id].present /\ Fault
       \/ ~disk[poll.id].present /\ UNCHANGED spent
    /\ NotePollFailure("auth_get")
    /\ queue' = IF poll.intent /\ ~Cancelled THEN Defer(queue, poll.id, now + RetryDelay) ELSE queue
    /\ EndPoll
    /\ UNCHANGED <<now, disk, owed, discovery, lifecycleVars, gates, requests, correlations>>

\* The file holds no Claude access token.
PollReadNoToken ==
    /\ worker.pc = "reading"
    /\ disk[poll.id].present
    /\ disk[poll.id].revision = None
    /\ NotePollFailure("missing_token")
    /\ EndPoll
    /\ UNCHANGED <<environment, discovery, queue, lifecycleVars, gates, requests, correlations>>

PollBind ==
    /\ worker.pc = "binding"
    /\ IF BindAllowed(poll.id, poll.token)
       THEN /\ BindRevision(poll.id, poll.token, poll.token.revision)
            /\ worker' = [worker EXCEPT
                   !.pc = IF poll.check THEN "checking" ELSE "attempting",
                   !.poll.token.incarnation = samples'[poll.id].incarnation]
       ELSE /\ EndPoll
            /\ UNCHANGED cacheVars
    /\ UNCHANGED <<environment, discovery, queue, lifecycleVars, gates, requests, correlations>>

\* completeRevisionCheck, then shouldRefreshAfterRevisionCheck.
PollCheck ==
    /\ worker.pc = "checking"
    /\ IF /\ Held(poll.id)
          /\ SampleMatches(samples[poll.id], poll.token)
          /\ samples[poll.id].generation = poll.token.generation
          /\ UsageRefreshDue(samples[poll.id], now, worker.config.cutoff,
                             worker.config.pollInterval)
       THEN worker' = [worker EXCEPT !.pc = "attempting"]
       ELSE EndPoll
    /\ UNCHANGED <<cacheVars, environment, discovery, queue, lifecycleVars, gates, requests, correlations>>

\* recordUsageAttempt: the gate every path to a fetch passes.
PollAttempt ==
    /\ worker.pc = "attempting"
    /\ IF AttemptAllowed(poll.id, poll.token, now)
       THEN /\ RecordUsageAttempt(poll.id, poll.token, now)
            /\ worker' = [worker EXCEPT !.pc = "noting"]
       ELSE /\ EndPoll
            /\ UNCHANGED cacheVars
    /\ UNCHANGED <<environment, discovery, queue, lifecycleVars, gates, requests, correlations>>

\* recordAttemptForIdentity: no fetch for a credential replaced since.
PollNote ==
    /\ worker.pc = "noting"
    /\ IF Held(poll.id) /\ SampleMatches(samples[poll.id], poll.token)
       THEN worker' = [worker EXCEPT !.pc = "fetching"]
       ELSE EndPoll
    /\ UNCHANGED <<cacheVars, environment, discovery, queue, lifecycleVars, gates, requests, correlations>>

PollFetch ==
    /\ worker.pc = "fetching"
    /\ \E reading \in Readings(poll.account) :
          worker' = [worker EXCEPT !.pc = "settling", !.poll.result = [kind |-> "usage", batch |-> reading]]
    /\ UNCHANGED <<cacheVars, environment, discovery, queue, lifecycleVars, gates, requests, correlations>>

\* The fetch fails; when it fails because the worker was cancelled, nothing
\* is recorded.
PollFetchFails ==
    /\ worker.pc = "fetching"
    /\ \/ /\ Fault
          /\ \E failure \in FailureKinds :
                worker' = [worker EXCEPT !.pc = "settling",
                                         !.poll.result = [kind |-> "failure", failure |-> failure]]
       \/ Cancelled /\ EndPoll /\ UNCHANGED spent
    /\ UNCHANGED <<cacheVars, now, disk, owed, discovery, queue, lifecycleVars, gates, requests, correlations>>

PollCommit ==
    /\ worker.pc = "settling"
    /\ poll.result.kind = "usage"
    /\ IF CommitAllowed(poll.id, poll.token)
       THEN /\ CommitWindowBatch(poll.id, poll.token, poll.result.batch, now, poll.startedAt, TRUE)
            /\ owed' = [owed EXCEPT ![poll.id] = NothingOwed]
       ELSE UNCHANGED <<cacheVars, owed>>
    /\ EndPoll
    /\ UNCHANGED <<now, disk, spent, discovery, queue, lifecycleVars, gates, requests, correlations>>

PollFail ==
    /\ worker.pc = "settling"
    /\ poll.result.kind = "failure"
    /\ \/ /\ RecordRefreshFailure(poll.id, poll.token, poll.result.failure.category,
                                  poll.result.failure.hint, now)
          /\ owed' = [owed EXCEPT ![poll.id] =
                         [revision |-> poll.token.revision,
                          category |-> poll.result.failure.category,
                          until |-> samples'[poll.id].nextRefreshAt]]
       \/ /\ ~(/\ Held(poll.id) /\ SampleMatches(samples[poll.id], poll.token)
               /\ samples[poll.id].incarnation = poll.token.incarnation)
          /\ UNCHANGED <<cacheVars, owed>>
    /\ EndPoll
    /\ UNCHANGED <<now, disk, spent, discovery, queue, lifecycleVars, gates, requests, correlations>>

-----------------------------------------------------------------------------
(* Queueing from the request path: queueCandidateRefresh and                *)
(* queueRevisionCheck take lifecycleMu, so they wait while the worker is    *)
(* being stopped, and do nothing once it is. *)

DueIDs(cfg) ==
    {id \in Members : UsageRefreshDue(samples[id], now, cfg.cutoff, cfg.pollInterval)}

\* Mutant: a request does not ask whether there is a worker.
QueueWhenever(candidates, revisions, cfg) ==
    /\ lifecycle # "stopping"
    /\ LET claimed == candidates \cap DueIDs(cfg) \cap Queueable(queue)
       IN  /\ queue' = QueueRevisions(QueueCandidates(queue, claimed), revisions)
           /\ samples' = [id \in AuthIDs |->
                             IF id \in claimed THEN [samples[id] EXCEPT !.usageAttemptAt = now]
                             ELSE samples[id]]
    /\ UNCHANGED nextIncarnation

\* cfg: the configuration the request began with.
QueueFromRequest(candidates, revisions, cfg) ==
    /\ lifecycle # "stopping"
    /\ LET claimed == candidates \cap DueIDs(cfg) \cap Queueable(queue)
       IN  IF lifecycle = "running"
           THEN /\ queue' = QueueRevisions(QueueCandidates(queue, claimed), revisions)
                /\ samples' = [id \in AuthIDs |->
                                  IF id \in claimed THEN [samples[id] EXCEPT !.usageAttemptAt = now]
                                  ELSE samples[id]]
                /\ UNCHANGED nextIncarnation
           ELSE UNCHANGED <<cacheVars, queue>>

\* pick; a model that is not protected is left to the host's scheduler.
PickRequest ==
    /\ config.enabled
    /\ \E candidates \in CandidateLists, model \in RequestModels :
          /\ IsProtectedModel(model.name, config.protected)
          /\ LET reply == Pick(Fleet, candidates, model.family, now, config.overage,
                               DueIDs(config), config.cutoff)
             IN  QueueFromRequest(reply.queue, {}, config)
    /\ UNCHANGED <<environment, discovery, lifecycleVars, worker, gates, requests, correlations>>

-----------------------------------------------------------------------------
(* The before-auth gate: interceptBeforeAuth.  Ghost field stable: the IDs  *)
(* whose file has held the same account since the request came in. *)

NoGate == [pc |-> "idle", family |-> "unknown", config |-> DefaultPluginConfig, generation |-> 0, listing |-> NoListing,
           todo |-> {}, replaced |-> {}, changed |-> {}, stable |-> {}]

Answered(verdict) == [NoGate EXCEPT !.pc = verdict]

GateStart(g) ==
    /\ gates[g].pc = "idle"
    /\ config.enabled /\ ~config.overage
    /\ IssueDiscovery
    /\ \E model \in RequestModels :
          /\ IsProtectedModel(model.name, config.protected)
          /\ gates' = [gates EXCEPT ![g] = [NoGate EXCEPT
                 !.pc = "listing", !.family = model.family, !.config = config,
                 !.generation = discovery'.issued,
                 !.stable = {id \in AuthIDs : disk[id].present}]]
    /\ UNCHANGED <<cacheVars, environment, queue, lifecycleVars, worker, requests, correlations>>

\* A listing that fails lets the request pass.
GateList(g) ==
    /\ gates[g].pc = "listing"
    /\ \/ /\ gates' = [gates EXCEPT ![g].pc = "reconciling", ![g].listing = Listing]
          /\ UNCHANGED spent
       \/ /\ Fault
          /\ gates' = [gates EXCEPT ![g] = Answered("passed")]
    /\ UNCHANGED <<cacheVars, now, disk, owed, discovery, queue, lifecycleVars, worker, requests, correlations>>

GateReconcile(g) ==
    /\ gates[g].pc = "reconciling"
    /\ IF Superseded(gates[g].generation)
       THEN /\ gates' = [gates EXCEPT ![g].pc = "deciding"]
            /\ UNCHANGED <<cacheVars, owed, discovery>>
       ELSE /\ ReconcileDiscovery(gates[g].generation, gates[g].listing)
            /\ gates' = [gates EXCEPT ![g].pc = "queueing",
                                      ![g].todo = DOMAIN gates[g].listing,
                                      ![g].replaced = Replaced(gates[g].listing),
                                      ![g].changed = Changed(gates[g].listing)]
    /\ UNCHANGED <<now, disk, spent, queue, lifecycleVars, worker, requests, correlations>>

\* The refresh work the listing asks for, one credential at a time.
GateQueue(g) ==
    /\ gates[g].pc = "queueing"
    /\ gates[g].todo # {}
    /\ LET id == Min(gates[g].todo)
           check == \/ id \in gates[g].changed
                    \/ id \in gates[g].replaced /\ ~samples[id].windows["five_hour"].valid
       IN  /\ QueueFromRequest({id}, IF check THEN {id} ELSE {}, gates[g].config)
           /\ gates' = [gates EXCEPT ![g].todo = @ \ {id}]
    /\ UNCHANGED <<environment, discovery, lifecycleVars, worker, requests, correlations>>

\* The verdict is about the fleet in the cache at this moment, never about
\* the listing of this request.
GateDecide(g) ==
    /\ gates[g].pc \in {"queueing", "deciding"}
    /\ gates[g].todo = {}
    /\ LET reply == Gate(Fleet, gates[g].family, now, gates[g].config.cutoff)
       IN  gates' = [gates EXCEPT ![g] =
                         Answered(IF reply.kind = "reject" THEN "rejected" ELSE "passed")]
    /\ UNCHANGED <<cacheVars, environment, discovery, queue, lifecycleVars, worker, requests, correlations>>

-----------------------------------------------------------------------------
(* Responses: recordSelectedAuth, then observeResponseHeaders.  Ghost field *)
(* account: the account whose credential the request went out with. *)

NoCorrelation == [id |-> 0, generation |-> 0, incarnation |-> 0, expiresAt |-> NoTime]
NoRequest == [pc |-> "idle", id |-> 0, account |-> 0, correlation |-> NoCorrelation,
              batch |-> NoWindows, observedAt |-> 0]

Live(entries) == [r \in Requests |-> IF now < entries[r].expiresAt THEN entries[r] ELSE NoCorrelation]

\* At the cap the entry that expires first makes room.
Evicted(entries) ==
    LET kept == {r \in Requests : entries[r] # NoCorrelation}
        first == CHOOSE r \in kept : \A o \in kept :
                    \/ entries[r].expiresAt < entries[o].expiresAt
                    \/ entries[r].expiresAt = entries[o].expiresAt /\ r <= o
    IN  IF Cardinality(kept) >= MaxCorrelations THEN [entries EXCEPT ![first] = NoCorrelation]
        ELSE entries

\* The after-auth hook, again for every retry of the same request.  What was
\* recorded before is dropped, whether or not the host names a credential.
RecordSelectedAuth(r, id) ==
    LET dropped == [correlations EXCEPT ![r] = NoCorrelation]
        entry == [id |-> id, generation |-> samples[id].generation,
                  incarnation |-> samples[id].incarnation, expiresAt |-> now + CorrelationTTL]
    IN  correlations' = IF Held(id) THEN [Evicted(Live(dropped)) EXCEPT ![r] = entry] ELSE dropped

\* The host chooses a credential, for a new request or for a retry after an
\* upstream failure, and then calls the hook.
ChooseAuth(r) ==
    /\ requests[r].pc \in {"idle", "upstream"}
    /\ \E id \in AuthIDs :
          /\ disk[id].present
          /\ requests' = [requests EXCEPT ![r] = [NoRequest EXCEPT
                 !.pc = "chosen", !.id = id, !.account = disk[id].identity]]
    /\ UNCHANGED <<cacheVars, environment, discovery, queue, lifecycleVars, worker, gates, correlations>>

AfterAuth(r) ==
    /\ requests[r].pc = "chosen"
    /\ \/ RecordSelectedAuth(r, requests[r].id)
       \/ correlations' = [correlations EXCEPT ![r] = NoCorrelation]
    /\ requests' = [requests EXCEPT ![r].pc = "upstream"]
    /\ UNCHANGED <<cacheVars, environment, discovery, queue, lifecycleVars, worker, gates>>

\* Upstream answers, with what it has measured by then, in any of the headers
\* that are read (Fable's, "7d_oi", for a model of that family).
HeaderSlots == {"five_hour", "weekly", "fable_weekly"}

Headers(account) ==
    {[s \in Slots |-> IF s \in sent THEN reading[s] ELSE NoWindow] :
        sent \in SUBSET HeaderSlots, reading \in Readings(account)}

Answer(r) ==
    /\ requests[r].pc = "upstream"
    /\ \E batch \in Headers(requests[r].account) :
          requests' = [requests EXCEPT ![r].pc = "answered", ![r].batch = batch]
    /\ UNCHANGED <<cacheVars, environment, discovery, queue, lifecycleVars, worker, gates, correlations>>

\* parseClaudeQuotaHeaders: exhausted without a reset is no evidence.
Parsed(batch) ==
    [s \in Slots |->
        IF batch[s].valid /\ batch[s].percent >= config.cutoff /\ batch[s].resetAt = NoTime
        THEN NoWindow ELSE batch[s]]

\* observeResponseHeaders, called when the host gets to it: as a stream opens,
\* but only after the whole body of any other response.  Without a live
\* correlation, or without windows, there is nothing to commit to the cache
\* (where a correlation stays, the extra usage of the response was refused).
Respond(r) ==
    /\ requests[r].pc = "answered"
    /\ LET batch == Parsed(requests[r].batch)
           live == now < correlations[r].expiresAt
       IN  \/ /\ live /\ batch # NoWindows
              /\ requests' = [requests EXCEPT
                     ![r].pc = "observed", ![r].correlation = correlations[r],
                     ![r].batch = batch, ![r].observedAt = now]
              /\ UNCHANGED correlations
           \/ /\ ~live \/ batch = NoWindows
              /\ requests' = [requests EXCEPT ![r] = [NoRequest EXCEPT !.pc = "done"]]
              /\ \/ correlations' = [correlations EXCEPT ![r] = NoCorrelation]
                 \/ live /\ UNCHANGED correlations
    /\ UNCHANGED <<cacheVars, environment, discovery, queue, lifecycleVars, worker, gates>>

\* A correlation is consumed by the observation that lands, in its windows or
\* in its extra usage (which Observations models).
CommitObservation(r) ==
    /\ requests[r].pc = "observed"
    /\ LET seen == requests[r].correlation
           token == [identity |-> None, revision |-> None,
                     generation |-> seen.generation, incarnation |-> seen.incarnation]
           incoming == Stamped(requests[r].batch, requests[r].observedAt)
           allowed == CommitAllowed(seen.id, token)
       IN  /\ IF allowed
              THEN CommitWindowBatch(seen.id, token, requests[r].batch, requests[r].observedAt, NoTime, FALSE)
              ELSE UNCHANGED cacheVars
           /\ \/ correlations' = [correlations EXCEPT ![r] = IF @ = seen THEN NoCorrelation ELSE @]
              \/ /\ ~allowed \/ LandingSlots(seen.id, incoming, NoTime, FALSE) = {}
                 /\ UNCHANGED correlations
    /\ requests' = [requests EXCEPT ![r] = [NoRequest EXCEPT !.pc = "done"]]
    /\ UNCHANGED <<environment, discovery, queue, lifecycleVars, worker, gates>>

-----------------------------------------------------------------------------
(* applyConfig and shutdown, which hold lifecycleMu until they are done.  A *)
(* document that is not accepted is refused before, and changes nothing.    *)

Configs == {Decoded(document) : document \in {d \in Documents : Accepted(d)}}

Toggle == /\ spent.toggles < MaxToggles
          /\ spent' = [spent EXCEPT !.toggles = @ + 1]

\* stopLocked: the worker is cancelled (and a new configuration stored), and
\* lifecycleMu held until the worker has exited.
Disable ==
    /\ lifecycle = "running"
    /\ Toggle
    /\ config' \in {c \in Configs : ~c.enabled}
    /\ lifecycle' = "stopping"
    /\ UNCHANGED <<cacheVars, now, disk, owed, swept, carried, discovery, queue, worker, gates,
                   requests, correlations>>

Shutdown ==
    /\ lifecycle = "running"
    /\ Toggle
    /\ lifecycle' = "stopping"
    /\ UNCHANGED <<cacheVars, now, disk, owed, config, swept, carried, discovery, queue, worker,
                   gates, requests, correlations>>

\* Only disabling forgets the credentials.
StopEnds ==
    /\ lifecycle = "stopping"
    /\ worker.pc = "exited"
    /\ queue' = EmptyQueue
    /\ IF config.enabled THEN UNCHANGED <<cacheVars, owed>>
       ELSE Reconcile(NoListing) /\ owed' = OwedAfter(NoListing)
    /\ lifecycle' = "stopped"
    /\ UNCHANGED <<now, disk, spent, config, swept, carried, discovery, worker, gates, requests,
                   correlations>>

DisableStopped ==
    /\ lifecycle = "stopped"
    /\ Toggle
    /\ config' \in {c \in Configs : ~c.enabled}
    /\ Reconcile(NoListing)
    /\ owed' = OwedAfter(NoListing)
    /\ UNCHANGED <<now, disk, lifecycle, swept, carried, discovery, queue, worker, gates, requests,
                   correlations>>

Enable ==
    /\ lifecycle = "stopped"
    /\ Toggle
    /\ config' \in {c \in Configs : c.enabled}
    /\ lifecycle' = "running"
    /\ worker' = Waiting
    /\ queue' = QueueAll(queue)
    /\ carried' = nextIncarnation
    /\ UNCHANGED <<cacheVars, now, disk, owed, swept, discovery, gates, requests, correlations>>

\* Mutant: the cutoffs are compared when the new one is already stored.
ReloadUncompared ==
    /\ lifecycle = "running"
    /\ Toggle
    /\ config' \in {c \in Configs : c.enabled}
    /\ queue' = IF Members = {} THEN QueueAll(queue) ELSE queue
    /\ UNCHANGED <<cacheVars, now, disk, owed, lifecycle, swept, carried, discovery, worker, gates,
                   requests, correlations>>

\* A reload refreshes the fleet when the cutoff changes or the cache is empty.
Reload ==
    /\ lifecycle = "running"
    /\ Toggle
    /\ config' \in {c \in Configs : c.enabled}
    /\ queue' = IF Members = {} \/ config.cutoff # config'.cutoff THEN QueueAll(queue) ELSE queue
    /\ UNCHANGED <<cacheVars, now, disk, owed, lifecycle, swept, carried, discovery, worker, gates,
                   requests, correlations>>

-----------------------------------------------------------------------------
(* The environment *)

Tick ==
    /\ now < MaxNow
    /\ now' = now + 1
    /\ UNCHANGED <<cacheVars, disk, spent, owed, discovery, queue, lifecycleVars, worker, gates, requests, correlations>>

\* A write is numbered; a gate's ghost forgets the IDs whose account changes.
WriteFile(id, file) ==
    /\ spent.writes < MaxWrites
    /\ PromptHook => \A r \in Requests : requests[r].pc = "chosen" => requests[r].id # id
    /\ spent' = [spent EXCEPT !.writes = @ + 1]
    /\ disk' = [disk EXCEPT ![id] = file]
    /\ gates' = [g \in Gates |->
                    IF file.present /\ file.identity = disk[id].identity THEN gates[g]
                    ELSE [gates[g] EXCEPT !.stable = @ \ {id}]]
    /\ UNCHANGED <<cacheVars, now, owed, discovery, queue, lifecycleVars, worker, requests, correlations>>

WriteNumber == 2 + spent.writes

TouchFile(id) ==
    /\ "touch" \in FileChanges
    /\ disk[id].present
    /\ WriteFile(id, [disk[id] EXCEPT !.stamp = WriteNumber])

\* The token is rotated, or removed (None) and later put back.
RotateToken(id) ==
    /\ "rotate" \in FileChanges
    /\ disk[id].present
    /\ \E revision \in {None, WriteNumber} :
          WriteFile(id, [disk[id] EXCEPT !.stamp = WriteNumber, !.revision = revision])

ReplaceAccount(id) ==
    /\ "replace" \in FileChanges
    /\ disk[id].present
    /\ WriteFile(id, [present |-> TRUE, identity |-> WriteNumber,
                      revision |-> WriteNumber, stamp |-> WriteNumber])

\* The file is disabled or removed, and comes back as it was.
RemoveFile(id) ==
    /\ "remove" \in FileChanges
    /\ disk[id].present
    /\ WriteFile(id, [disk[id] EXCEPT !.present = FALSE])

RestoreFile(id) ==
    /\ "restore" \in FileChanges
    /\ ~disk[id].present
    /\ WriteFile(id, [disk[id] EXCEPT !.present = TRUE])

-----------------------------------------------------------------------------
(* The specification *)

Init ==
    /\ CacheInit
    /\ now = 1
    /\ \E listed \in SUBSET AuthIDs :
          disk = [id \in AuthIDs |-> [present |-> id \in listed, identity |-> 1,
                                      revision |-> 1, stamp |-> 1]]
    /\ spent = [writes |-> 0, faults |-> 0, toggles |-> 0]
    /\ discovery = [issued |-> 0, reconciled |-> 0]
    /\ queue = QueueAll(EmptyQueue)
    /\ lifecycle = "running"
    /\ \E document \in FirstDocuments : config = Decoded(document)
    /\ swept = config.cutoff
    /\ carried = 0
    /\ worker = Waiting
    /\ gates = [g \in Gates |-> NoGate]
    /\ requests = [r \in Requests |-> NoRequest]
    /\ correlations = [r \in Requests |-> NoCorrelation]
    /\ owed = [id \in AuthIDs |-> NothingOwed]

WorkerStep ==
    \/ WorkerWake \/ WorkerExit \/ WorkerTake \/ WorkerLoad \/ WorkerIdle
    \/ WorkerList \/ WorkerListFails \/ WorkerReconcile \/ WorkerSuperseded
    \/ WorkerSignal \/ WorkerNext \/ WorkerPassEnds \/ WorkerFinish

PollStep ==
    \/ PollClaim \/ PollDefer \/ PollBegin \/ PollRead \/ PollReadFails \/ PollReadNoToken
    \/ PollBind \/ PollCheck \/ PollAttempt \/ PollNote \/ PollFetch \/ PollFetchFails
    \/ PollCommit \/ PollFail

GateStep(g) == GateStart(g) \/ GateList(g) \/ GateReconcile(g) \/ GateQueue(g) \/ GateDecide(g)

RequestStep(r) ==
    ChooseAuth(r) \/ AfterAuth(r) \/ Answer(r) \/ Respond(r) \/ CommitObservation(r)

FileStep(id) ==
    TouchFile(id) \/ RotateToken(id) \/ ReplaceAccount(id) \/ RemoveFile(id) \/ RestoreFile(id)

ConfigStep == Disable \/ Shutdown \/ StopEnds \/ DisableStopped \/ Enable \/ Reload

Next ==
    \/ WorkerStep
    \/ PollStep
    \/ PickRequest
    \/ \E g \in Gates : GateStep(g)
    \/ \E r \in Requests : RequestStep(r)
    \/ ConfigStep
    \/ \E id \in AuthIDs : FileStep(id)
    \/ Tick

Spec == Init /\ [][Next]_vars

\* The Go scheduler runs the worker and an applyConfig that waits for it, host
\* calls and fetches return (they time out), time passes, and requests come.
Fairness ==
    /\ WF_vars(WorkerStep \/ PollStep)
    /\ WF_vars(StopEnds)
    /\ WF_vars(Tick)
    /\ WF_vars(PickRequest)

FairSpec == Spec /\ Fairness

-----------------------------------------------------------------------------
(* Properties *)

Windows(id) == {samples[id].windows[s] : s \in Slots}

TypeOK ==
    /\ now \in 1..MaxNow
    /\ nextIncarnation \in Nat
    /\ queue \in Queues
    /\ lifecycle \in {"running", "stopping", "stopped"}
    /\ config \in Configs
    /\ discovery.reconciled <= discovery.issued /\ discovery.issued <= MaxListings
    /\ worker.ids \cup worker.revisions \cup worker.signals \cup worker.todo \subseteq AuthIDs
    /\ \A id \in AuthIDs :
          /\ {samples[id].identity, samples[id].revision, samples[id].listRevision}
                \subseteq 0..(1 + MaxWrites)
          /\ samples[id].lastError \in Categories
          /\ samples[id].windows \in [Slots -> Windows(id)]
    /\ \A g \in Gates : gates[g].pc \in
          {"idle", "listing", "reconciling", "queueing", "deciding", "rejected", "passed"}
    /\ \A r \in Requests : requests[r].pc \in
          {"idle", "chosen", "upstream", "answered", "observed", "done"}

\* Quota evidence is never attributed to an account that replaced the one it
\* speaks of: whatever was in flight when the file under an auth ID changed
\* hands (a usage fetch, a response, a listing) is dropped.
EvidenceOfListedAccount ==
    \A id \in Members : \A w \in Windows(id) : w.valid => w.account >= samples[id].identity

\* A window is only ever replaced by a measurement at least as recent while a
\* credential lives, with one exception: a response that the host hands over
\* after its body, so that its headers were measured before, but are observed
\* after, the evidence they replace.  A poll never is that exception, nor is a
\* response observed before that evidence was stamped: a slow poll never
\* overwrites the headers of a response that came during it, nor a slow commit
\* of an observation a newer poll.
HandedOver(id, old, new) ==
    \E r \in Requests :
        /\ requests[r].pc = "observed" /\ requests'[r].pc = "done"
        /\ requests[r].correlation.id = id
        /\ new.measuredAt < requests[r].observedAt
        /\ old.sampledAt <= requests[r].observedAt

EvidenceNeverRegresses ==
    [][\A id \in Members, s \in Slots :
          LET old == samples[id].windows[s]
              new == samples'[id].windows[s]
          IN  samples'[id].incarnation = samples[id].incarnation /\ old.valid =>
                  new.valid /\ (new.measuredAt >= old.measuredAt \/ HandedOver(id, old, new))]_vars

\* The gate answers 429 only if every account that was there all along since
\* the request came in is known to be exhausted, under the identity it has on
\* disk: neither a stale listing nor a concurrent discovery can hide an
\* available account (the hazard discoverAuths and liveFleetDecision order).
AdmissionSound ==
    [][\A g \in Gates :
          gates'[g].pc = "rejected" /\ gates[g].pc # "rejected" =>
              \A id \in gates[g].stable :
                  /\ Held(id)
                  /\ samples[id].identity = disk[id].identity
                  /\ ConfirmedExhausted(samples[id].windows, gates[g].family, now,
                                        gates[g].config.cutoff)]_vars

\* A token rotation that the cache has seen in the list metadata, but whose
\* new token is not bound yet, is never forgotten: a revision check is queued,
\* deferred, in the hands of the worker, or about to be queued by a request.
\* Entries that were in the cache when the worker was last started are exempt:
\* shutdown empties the queue but keeps them, so that a check that was pending
\* then is gone.
InWorker(id) ==
    \/ id \in worker.revisions /\ worker.pc \in {"loading", "listing", "reconciling", "signalling"}
    \/ id \in worker.signals
    \/ id \in worker.todo \cap worker.revisions
    \/ id = poll.id /\ poll.intent /\ worker.pc \in {"claiming", "beginning", "reading", "binding"}

CheckPending(id) ==
    \/ id \in queue.revisions
    \/ queue.deferred[id] # NotDeferred
    \/ InWorker(id)
    \/ \E g \in Gates : gates[g].pc = "queueing" /\ id \in gates[g].todo \cap gates[g].changed

RotationUnbound(id) ==
    /\ Held(id)
    /\ samples[id].incarnation > carried
    /\ disk[id].present
    /\ samples[id].listRevision = disk[id].stamp
    /\ samples[id].revision # None
    /\ disk[id].revision \notin {None, samples[id].revision}

RotationNeverForgotten ==
    lifecycle = "running" => \A id \in AuthIDs : RotationUnbound(id) => CheckPending(id)

\* Pending work always has a wake-up on its way, so that no refresh waits for
\* an unrelated event: a waiting worker has its wake token set whenever
\* something is queued.
NoLostWakeup ==
    worker.pc = "waiting" /\ lifecycle = "running" /\ (queue.all \/ queue.ids # {} \/ queue.revisions # {})
        => queue.wake

\* What is marked in flight is what the worker holds: an auth ID whose mark
\* outlived its pass would never be refreshed by a request again.
InFlightMatchesWorker ==
    worker.pc \in {"waiting", "taking", "exited"} => ~queue.flyingAll /\ queue.flying = {}

\* No path fetches usage for an account during its refresh pause: startup and
\* reload passes, request-driven refreshes and revision checks included.  A
\* pause lasts for as long as the credential it was imposed on stays in the
\* cache; one that was disabled, removed or replaced starts without it.
PauseHonoured ==
    worker.pc = "fetching" =>
        \/ now >= owed[poll.id].until
        \/ /\ owed[poll.id].category = "unauthorized"
           /\ owed[poll.id].revision # poll.token.revision

\* A refresh pause is never cut short, neither by usage whose fetch was under
\* way, nor by a later failure with a shorter pause, a response, a listing or a
\* claim: it only ends early when a token other than the one upstream rejected
\* is bound, or with the credential itself.
PauseKept ==
    [][\A id \in Members :
          /\ RefreshPaused(samples[id], now)
          /\ samples'[id].nextRefreshAt < samples[id].nextRefreshAt
          => \/ samples'[id].identity # samples[id].identity
             \/ /\ samples[id].lastError = "unauthorized"
                /\ samples'[id].revision # samples[id].revision]_vars

\* The pause of a rejected token ends when a new token is bound, unless the
\* cache lost the reason since: a credential that could not be read, or the
\* headers of a late response, overwrite the error category that bindRevision
\* goes by.  Like PauseHonoured it speaks of the credential's stay in the cache.
RejectionEndsWithToken ==
    \A id \in Members :
        /\ owed[id].category = "unauthorized"
        /\ samples[id].revision \notin {None, owed[id].revision}
        /\ RefreshPaused(samples[id], now)
        => samples[id].lastError \in {"auth_get", "missing_token", NoError}

\* poll-interval is the minimum age of cached usage before another refresh
\* (of the requested refreshes: a startup pass refreshes everything).
UsageAgeHonoured ==
    [][worker.pc = "attempting" /\ worker'.pc = "noting" /\ ~worker.all =>
          \/ samples[poll.id].usageSuccessAt = NoTime
          \/ now >= samples[poll.id].usageSuccessAt + worker.config.pollInterval]_vars

\* A new cutoff reaches every account: the last fleet pass worked with the
\* cutoff in force, or one that will is queued or on its way to the listing,
\* however reloads, superseded passes and restarts interleave.  (A pass whose
\* listing fails is not repeated; that is ListedIsDiscovered.)
NewCutoffReachesFleet ==
    lifecycle = "running" =>
        \/ swept = config.cutoff
        \/ queue.all
        \/ worker.all /\ worker.pc = "loading"
        \/ /\ worker.all /\ worker.pc \in {"listing", "reconciling", "signalling"}
           /\ worker.config.cutoff = config.cutoff

\* Once a stop is complete nothing is left of the work, whatever requests are
\* still under way: no worker, nothing queued, deferred or marked in flight
\* that a restarted worker would find.
StoppedIsQuiet == lifecycle = "stopped" => worker.pc = "exited" /\ queue = EmptyQueue

\* Disabling the router and shutdown complete: stopLocked waits for the worker under
\* lifecycleMu, and the worker never needs that mutex to exit.
StopCompletes == lifecycle = "stopping" ~> lifecycle = "stopped"

\* The worker never spins: whether a revision check is throttled and deferred
\* or a listing is superseded and requeued, it goes back to waiting.
WorkerRests == []<>(worker.pc \in {"waiting", "exited"})

\* An account the host lists is eventually known to the cache while protected
\* requests keep coming.
ListedIsDiscovered ==
    \A id \in AuthIDs :
        disk[id].present /\ lifecycle = "running" /\ ~Held(id) ~>
            Held(id) \/ ~disk[id].present \/ lifecycle # "running"
=============================================================================
