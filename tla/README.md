# TLA+ model of the five-hour quota router

This directory holds a formal model of the CLIProxyAPI plugin in this
repository: TLA+ modules, TLC configurations that check them on small
instances, and proofs that the TLA+ proof system (TLAPS) checks for every value
of the constants.  `PROJECT.json` links every definition to the source lines it
stands for; paths such as `runtime.go:293` below are relative to `src/`.

    tlc -config MCRouterGate.cfg MCRouter       # any run of the table below
    tlapm QuotaWindowsProofs.tla                # the proofs
    tlapm SchedulerProofs.tla
    tlapm QuotaCacheProofs.tla
    tlapm CacheProofs.tla
    tlapm ObservationsProofs.tla
    tlapm CodexProofs.tla
    tlapm RouterProofs.tla
    tlapm RouterCacheProofs.tla

## 1. The system

The plugin routes Claude requests of a proxy among several OAuth accounts.  It
keeps the quota windows of every account (five-hour, weekly, and weekly ones of
single model families), learns them by polling a usage endpoint and by reading
response headers, and decides for each protected request whether the fleet, or
a candidate, still has quota.  A resource route shows the quotas of Claude and
Codex accounts.

### Components

| Component | State | Operations | Modelled in |
|---|---|---|---|
| Quota windows and decisions (`quota_scopes.go`, parts of `cache.go`) | none | family resolution, applicable windows, exclusion, confirmed exhaustion, recovery, retry delay | `QuotaWindows` |
| Scheduler pick and before-auth gate (`scheduler.go`, `runtime.go:31-128`) | none | `pick`, `interceptBeforeAuth` | `Scheduling`, `Scheduler`, `Router` |
| Quota cache (`cache.go`) | one sample per auth ID, the incarnation counter | `reconcile`, `claimRevisionCheck`, `bindRevisionForIncarnation`, `claimPoll`, `recordUsageAttempt`, `recordRefreshFailure`, `recordFailureForIdentity`, `commitWindowBatch` | `QuotaCache`, `CacheClients` |
| Refresh backoff (`cache.go:95-157`) | failure count and pause, in the sample | delay of the n-th failure, hint, jitter | `RefreshBackoff` |
| Refresh queue (`runtime.go:504-714`) | pending, deferred and in-flight sets, wake channel | queue, defer, requeue, take, finish | `RefreshQueue` |
| Refresh worker and polls (`runtime.go:611-963`) | program counter, the pass it works on | the refresh loop, a pass, a revision check, a poll | `Router` |
| Discovery (`runtime.go:276-299`) | issued and reconciled generations | list the host's auths, reconcile unless superseded | `Router` |
| Selected-auth correlation (`runtime.go:305-375`) | request ID to auth ID and incarnation | record, expire, evict, consume | `Router` |
| Configuration lifecycle (`runtime.go:428-492`) | worker handle, configuration in force | enable, reload, disable, shut down | `Router` |
| Configuration decoding (`config.go`) | none | defaults, decoding, validation, protected models | `Configuration` (partly) |
| Usage answers (`usage.go`), response headers (`headers.go`) | none | windows of a body, outcome of a fetch, retry hints, windows of headers | `UpstreamAnswers`, `Observations` |
| Extra usage (`extra_usage.go`) | a display-only part of the sample | parsing, merge of headers and polls, commit | `UpstreamAnswers`, `Observations` |
| Codex quota route (`quota_route.go`) | a state with a mutex per auth, a map of them, a semaphore per call | list, prune, read, fetch, answer | `CodexRoute` |
| Management status, ABI and host bridge, packaging, tests-only cache helpers | — | — | not modelled (section 8) |

### Interactions

Host requests run concurrently on the host's threads.  A gate request lists the
host's auth files (a host callback, without a lock), reconciles the cache with
the answer, queues refresh work and then judges the cached fleet.  `pick` only
reads the cache and queues refreshes.  One worker goroutine takes queued work,
lists the host again, and polls account after account: read the credential from
the host, bind its digest in the cache, claim the attempt, fetch, commit.  After
the host has chosen a credential, a hook remembers which one a request uses; when
the response arrives its headers are committed to that credential, the display-only
part first and the windows after it.  Applying a configuration starts or stops
the worker; it holds `lifecycleMu` while it waits for the worker, and the request
path takes the same mutex to queue work.

Everything about Claude meets in the cache, whose mutex is held for one operation
at a time and never across a host call or a fetch.  What a caller read before such
a call may be stale after it; the cache therefore numbers *incarnations* (a lifetime
of one credential under an auth ID) and *observed generations* (changes of list
metadata), and refuses an operation whose caller saw other ones.

The Codex route shares nothing with the rest but the backoff schedule.  Its calls
share a map of states; the mutex of a state is held over a host call and a fetch.

### What is hard here

* Listings are answered out of order; an old one must not undo a newer one.
* The account behind an auth ID changes while polls, responses and listings
  about the old one are in flight; the same file may leave and come back.
* Slow polls race with newer response headers.
* A credential rotation noticed by any discovery must lead to a revision check,
  through supersession, throttling, failed reads and a worker that is just going
  to sleep.
* Refresh pauses must hold on every path to a fetch, and end with what caused them.
* Stopping waits for a worker that itself queues work, while requests that began
  before the stop are still queueing theirs.
* A reload changes the cutoff under a pass that has read the old one.
* Two independent computations, of the gate and of `pick`, advise clients when to
  come back; boundaries are half-open instants and rounded seconds.
* Usage bodies repeat, contradict and omit; failed answers ask for a pause in
  three ways.
* Codex calls hold a mutex over I/O and a slot of a semaphore while they wait
  for one; `prune` deletes states that other calls are using.

`PROJECT.json` lists these hazards with the lines where they bite and the
properties that watch them.

## 2. Modules

    QuotaWindows ──┬── Scheduling ─────────┬── Scheduler ── MCScheduler
                   │                       │        └── SchedulerProofs
                   ├── QuotaWindowsProofs ─│────────────┘
                   │                       │
    RefreshBackoff ┼── QuotaCache ─────────┼── Router ── MCRouter
                   │       │  RefreshQueue ┤      └── RouterProofs
                   │       │  Configuration┘           └── RouterCacheProofs
                   │       │                               (with QuotaCacheProofs, QuotaWindowsProofs)
                   │       ├── CacheClients ── MCCacheClients
                   │       │        └── CacheProofs   (with QuotaCacheProofs)
                   │       │   CredentialLedger  (the abstract specification of the cache)
                   ├── UpstreamAnswers ── Observations ── MCObservations
                   │                           └── ObservationsProofs
                   │                                (with QuotaCacheProofs, QuotaWindowsProofs)
                   └── CodexRoute ── MCCodexRoute
                            └── CodexProofs

**QuotaWindows** holds pure operators.  Time is a natural number of ticks; a
second has `Second` ticks and a duration at most `MaxDuration`, so that rounding
and the saturation of `time.Time.Sub` are visible.  A window blocks on the
half-open interval that ends at its reset, as in `evaluateQuotaDecision`.  The
loops of the code (maximum of the resets of a credential, minimum over the
fleet) are `Max` and `Min` of sets.  Model names are reduced to the set of
families their tokens name.

**Scheduling** defines the two decisions, `Pick` and `Gate`, over a fleet, a
clock reading and a cutoff.  `Preferred` is one step of the code's running choice,
which `Chosen` folds over the candidate sequence.  **Scheduler** is a small state
machine around them: requests are rejected with an advice, the clock runs, and
properties compare the advice with what happens at that time.

**QuotaCache** has one operator per cache operation, each one critical section of
`quotaCache.mu`, with the code's guards in the code's order.  `incarnation = 0`
means no entry.  Fields that only a status display reads are left out.
`recordRefreshFailure` draws its pause from `RefreshBackoff`'s `Pauses`, the
set of everything jitter can produce.

**CredentialLedger** is what the cache promises: lifetimes have numbers that are
never used again; a lifetime starts without evidence; evidence for a window only
gets newer while the lifetime lasts.  **CacheClients** calls every cache
operation in any order with any token, current or stale, and with clock readings
that need not be monotone (callers read the clock before they take the lock); it
implements the ledger under the mapping *lifetime = incarnation, evidence =
sampling time of a valid window* (`ImplementsLedger`, in `QuotaCache`), and so does
**Router**, in which the worker, the gates, the requests and the configuration are the callers.

**RefreshQueue** is the queue as a record, one operator per critical section of
`refreshMu`.

**Configuration** says which documents `decodeLifecycleConfig` accepts and what it
makes of them.  A document maps a field to the empty set when the field is absent.

**Router** composes the cache, the queue, the two decisions and the configuration.
Its steps:

| Actions | Code |
|---|---|
| `WorkerWake`, `WorkerExit`, `WorkerTake`, `WorkerIdle`, `WorkerFinish` | `refreshLoop`: the select, the inner loop until no work is left, in-flight marks |
| `WorkerLoad`, `WorkerList`, `WorkerListFails`, `WorkerReconcile`, `WorkerSuperseded`, `WorkerSignal`, `WorkerNext`, `WorkerPassEnds` | `refreshAuths` and `discoverAuths` |
| `PollClaim`, `PollDefer` | `checkAuthRevision` |
| `PollBegin`, `PollRead`, `PollReadFails`, `PollReadNoToken`, `PollBind`, `PollCheck`, `PollAttempt`, `PollNote`, `PollFetch`, `PollFetchFails`, `PollCommit`, `PollFail` | `pollAuthWithRevisionIntent`, one action per cache operation, host call or fetch |
| `GateStart`, `GateList`, `GateReconcile`, `GateQueue`, `GateDecide` | `interceptBeforeAuth` |
| `PickRequest` | `pick` |
| `ChooseAuth`, `AfterAuth`, `Answer`, `Respond`, `CommitObservation` | the host's choice, `recordSelectedAuth`, upstream's answer, and `observeResponseHeaders`, which the host calls after the body unless the response is streamed |
| `Disable`, `Shutdown`, `StopEnds`, `DisableStopped`, `Enable`, `Reload` | `applyConfig`, `shutdown`, `stopLocked` |
| `TouchFile`, `RotateToken`, `ReplaceAccount`, `RemoveFile`, `RestoreFile`, `Tick` | the host's files and time (external) |

Auth files are numbered by their writes: the account (`identity`), the token
(`revision`) and the list metadata (`stamp`) of a file are the numbers of the
writes that last changed them.  Ghost state records the account a window speaks
of and when upstream measured it, the account a request went out with, the IDs
whose file stayed the same while a gate request was judged (`stable`), the
cutoff of the last fleet pass (`swept`), the pause last imposed on the credential
that an entry holds (`owed`; an entry that is dropped or replaced owes nothing), and
the newest incarnation there was when the worker was last started (`carried`).  No
guard reads ghost state.

**UpstreamAnswers** is what the program reads out of an answer: pure operators for
usage bodies, failed fetches, quota headers and overage headers, and the merge of
extra usage.  A number or instant is present, `Missing` or `Malformed`; formats,
header names and message texts are not told apart.  **Observations** puts them
between upstream and the cache: a poll and responses hold the token of the
credential they began with, listings and rotations change it meanwhile, and windows
and extra usage are committed in critical sections of their own.  What leads up to
a fetch is left to `Router`; here the answer always speaks of the account the token
was taken for (that it need not is the finding `router_late_hook`).

**CodexRoute** is the Codex half of the quota route: a call lists, prunes and starts
one goroutine per account while the semaphore has a slot; a goroutine takes the
state of its account from the map and holds its mutex over the credential read and
the fetch.  States are addresses, so that a state that was pruned while a
goroutine holds it is another one than the state the next call creates; an
address that nothing refers to may be used again.  A call without a
configured key touches nothing and is left out; a failed listing answers an empty
list and changes nothing; a failed read and a missing token are one error category.

### Granularity

A step is a critical section, a host call or a fetch.  Some are merged, always
where no other actor's step in between would be told apart by a property, or
where noted here:

* `GateQueue` and `PickRequest` take the few `lifecycleMu` sections of
  `queueCandidateRefresh` and `queueRevisionCheck` for one credential as one step;
  `refreshMu` is held over the claim and the queueing in the code as well.
* `AfterAuth` is one step, though `recordSelectedAuth` drops the old correlation,
  looks the credential up in the cache and stores the new correlation under
  separate locks; a replacement in between leaves a correlation with an old
  incarnation, like a replacement right after the step.
* `Disable` stores the configuration and cancels the worker in one step;
  `Enable` and `Reload` hold `lifecycleMu` and are one step each.
* A gate keeps the configuration it began with to its verdict, as the code does.
  `PickRequest` reads the configuration in the step that decides: a pick that
  was overtaken by a reload is not modelled, while a gate that was is.
* `PollDefer` computes the due time of a throttled check with one clock reading.
* A goroutine of the Codex route that finds its state paused or cached takes and
  releases the mutex in one step.

## 3. Runs

| Run | Instance | What it shows |
|---|---|---|
| `scheduler` | 421 fleets of up to two cached credentials and a third unknown one, nine candidate lists, two families, `Second = 2`, clock 1..9 | a client that follows a `Retry-After` is served (`RetryAdviceHonest`), one that comes a second early is not (`RetryAdviceTight`), pick never undercuts the gate (`BackstopAgrees`), and the loop of `pick` implements its stated policy (`PickMeetsPolicy`) |
| `cache_clients` | one credential, two identities and digests, stale tokens of two incarnations, two clock readings | `CacheTypeOK`, refinement of `CredentialLedger` under arbitrary callers |
| `router_gate` | two gate requests, worker, two accounts, one file write of any of three kinds | `AdmissionSound`; `IncarnationsUnique` where one listing hands out several numbers |
| `router_checks` | gate, picks, worker, one rotation or touch, one fault, clock 1..3 | `TypeOK`, `RotationNeverForgotten`, `NoLostWakeup`, `PauseHonoured`, `PauseKept`, `RejectionEndsWithToken` |
| `router_evidence` | two requests with retries (a gate beside the first only, `GateOrSecond`), a poll, one replacement, clock 1..3, correlations that live for two ticks | `EvidenceOfListedAccount`, `EvidenceNeverRegresses`, refinement of `CredentialLedger` by the composed system |
| `router_lifecycle` | two of: disable, enable, reload with either of two cutoffs, shutdown; two refused documents; a gate, a pick, one touched file; fairness | `StopCompletes`, `WorkerRests`, `InFlightMatchesWorker`, `NewCutoffReachesFleet`, `StoppedIsQuiet` |
| `codex_route` | two calls, two accounts of which one comes or goes, one fault, one slot, clock 1..2; fairness | `TypeOK`, `NoStampedeUnlessRelisted`, `FetchesSpaced`, `AnswersHonest`, `RouteAnswers` |
| `observations` | a poll and two responses, nine answers, two sets of headers, two listings, clock 1..3 | `ExtraOfListedAccount`, `StatusNeverRegresses`, `WindowsMatchReports`, `PauseReachesHint` |
| `router_cold_start` | one failing startup listing, overage fallback on | violated: `ListedIsDiscovered` |
| `router_usage_age` | a gate and a revision check of one account | violated: `UsageAgeHonoured` |
| `router_late_hook` | a replacement between the host's choice and the hook | violated: `EvidenceOfListedAccount` |
| `codex_stampede` | two calls, one account that leaves the list and returns | violated: `NeverStampede` |

**Bounds.**  `MaxNow`, `MaxWrites`, `MaxFaults`, `MaxToggles`, `MaxListChanges`,
`MaxPolls` limit the environment, not the program (in `Observations`, `MaxListings`
too); each run has the actors its question needs and no more.  The hazards are
races of two actors over one auth ID, with one change of the file or the clock in
between, so two clock values (before and after), one or two writes and one or two
requests of the kind in question make them happen; the mutants in `PROJECT.json`,
bugs put into a mapped definition, show that each property fails in its instance
when the code protecting it is wrong.  `GateOrSecond` keeps `router_evidence`
small: two responses race with each other, or one of them with a gate's discovery,
not all three; polls and the replacement race with all of them.  Its clock has
three values so that a response can be measured, overtaken by a poll, and observed
at three different times.  In `Router`, `MaxListings` keeps a counter finite; the
passing runs stay below it, so that it cuts no behaviour off.  `CacheClients`
bounds its counters (`MaxIncarnation`, `MaxGeneration`, `MaxFailures`) in the calls.
`router_gate` declares its interchangeable gates symmetric, `observations` its
responses.  In the router runs the only windows are those in `ObservedSlots` and a
percentage is below or at the cutoff; families, other windows and rounding are the
subject of `scheduler`, and what the readings may be of `observations`.

In `router_lifecycle` the clock stands still.  Its liveness is decided in the
states in which the clock has reached its bound anyway, whatever the bound; due
deferrals are exercised by `router_checks`, and its three invariants are proved
for every bound (section 6).  Two toggles allow a stop and a restart, or a reload
and a reload back under one pass.  In `codex_route` four addresses suffice: two
accounts, and a state each that a goroutine still holds after it was pruned; a
millisecond has two ticks there, so that a stated delay is rounded.

`CHECK_DEADLOCK FALSE` is set everywhere because the environment's budgets run
out and then the system may rightly stop; that it does not stop with work
undone is what `NoLostWakeup`, `StopCompletes`, `WorkerRests` and `RouteAnswers`
are for.

**`PromptHook`.**  `EvidenceOfListedAccount` needs an assumption about the host:
the file does not change between the host's choice of a credential and the
after-auth hook.  The run `router_evidence` makes it; `router_late_hook` drops it.

**Exceptions the code makes.**  A response whose headers were measured before a poll
but are observed after it replaces the poll's windows (item 13 of section 5):
`EvidenceNeverRegresses` names that case (`HandedOver`) and forbids every other.
`RejectionEndsWithToken` leaves out a pause whose error category was overwritten
(item 7).  `PauseKept` lets a running pause be cut short only by a token other than
the rejected one or by the end of the credential; no poll, failure or response does.
`NewCutoffReachesFleet` says that a fleet pass starts after the change, not that its
listing succeeds.

## 4. Fairness

`FairSpec` of `Router` assumes weak fairness of

* the worker's steps taken together: the Go scheduler runs the goroutine, and no
  step of it waits for a lock that is held across another actor's I/O.  Usage
  fetches have a context with a timeout (`runtime.go:882-889`); host callbacks
  (`hostbridge.go:123`) have none, and are assumed to return;
* `StopEnds`: an `applyConfig` or `shutdown` that waits for the worker continues
  when it is done;
* `Tick`: time passes (up to `MaxNow`);
* `PickRequest`: protected requests keep coming.  Only `ListedIsDiscovered` needs it.

The other steps (requests, file writes, configuration changes) need never happen.

`FairSpec` of `CodexRoute` assumes weak fairness of the steps of every call and of
every goroutine: the scheduler runs them, host calls return and fetches have a
timeout.  A goroutine that waits for a mutex is not always enabled; weak fairness is
enough because the clock is bounded, so that every state is refreshed finitely
often.  In the program it is the starvation mode of `sync.Mutex` that gives a waiter
its turn.

## 5. Findings

Four runs check statements of the repository and find them violated:

1. `router_cold_start`.  `README.md:57`: protected requests "can asynchronously
   queue due refreshes, including excluded accounts with unknown recovery".  With
   overage fallback on the gate does no discovery, and `pick` only queues auths
   the cache knows.  If the single listing of the startup pass fails, the cache
   stays empty and every protected request is rejected until the configuration
   is applied again.
2. `router_usage_age`.  `README.md:29`: `poll-interval` is the minimum age of
   cached usage before another refresh.  A revision check tests the age without
   claiming the poll, a request claims it in between, and both fetch.
3. `router_late_hook`.  `README.md:56`: headers of replaced credentials are
   ignored.  The hook records the incarnation the ID has when it runs; if the
   account was replaced and relisted after the host chose the old credential, the
   old account's headers are stored for the new one.
4. `codex_stampede`.  `quota_route.go:48-49`: concurrent route calls for one auth
   "never stampede upstream".  `prune` deletes the state of an auth that the
   pruning call did not list, also while another call holds it; once the auth is
   listed again the next call makes a new state, with a mutex of its own and
   without the pause of the old one.

Other differences met while modelling, which no run is spent on:

5. Disabling the plugin deletes the cache, refresh pauses included
   (`runtime.go:436`, and `main_test.go:603` wants it so); enabling it starts a
   fleet pass at once.  `README.md:58` says that no path, startup passes included,
   fetches during a pause.  `PauseHonoured` therefore speaks of a pause for as long as
   the credential it was imposed on stays in the cache.  Removing an auth file and
   restoring it after a listing forgets the pause in the same way.
6. `README.md:58`: "A successful fetch clears the pause."  A fetch that succeeds but
   whose commit is refused, because the list metadata changed while it was under
   way (`cache.go:326`), leaves pause and failure count in place; the next failure
   continues the schedule instead of starting it.
7. `cache.go:653-655`: a pause caused by a rejected token is lifted by a new token.
   `bindRevision` goes by the *last* error category.  A credential read that fails
   after the 401 writes `auth_get` or `missing_token` over it, and headers of a late
   response clear it; then the pause outlives the token.  `RejectionEndsWithToken`
   states the promise with this exception.
8. `extra_usage.go:121-123`: polls update the percentage "only when they are newer than
   the last header observation", and the test at `extra_usage_test.go:114` speaks of an
   older poll *result*.  The stamp of a poll is its commit (`runtime.go:896`), so that a
   percentage measured before a header observation may replace it.
9. A header observation without a percentage advances `SampledAt`, which dates the
   percentage; a poll committed earlier but merged later is then dropped, though
   the percentage it carries is newer than the stored one.
10. A gate request that listed the host before a disable reconciles its listing
    after it (`runtime.go:293`): the cache of the disabled router holds credentials
    again.  Only the status shows them until the router is enabled.
11. `runtime.go:779-781` calls the retry of a revision check "bounded".  Each retry is
    put off by 25 ms, but their number is not limited: while the host's listing keeps
    failing, the worker asks for it again every 25 ms.  (A credential read that keeps
    failing is throttled by `claimRevisionCheck`.)
12. `shutdown` empties the queue but not the cache (`runtime.go:474-490`), while
    `applyConfig` does both when it disables.  If the plugin is registered again in the
    same process, a rotation that the cache had already seen in the list metadata
    has lost its revision check: the listings that follow report no change, and the
    new token is bound only by the next poll of usage.  `RotationNeverForgotten`
    exempts the entries that are older than the last start of the worker (`carried`).
    The attempt to prove it, without the exemption, showed this.
13. `runtime.go:207` stamps the headers of a response when the host calls the
    interceptor, which for a response that is not streamed is after its body.  A poll
    that is measured and committed while the body is on its way is overwritten by
    the older headers (`cache.go:340-343` goes by the stamp), until the next poll.
14. `quota_route.go:268` states the Codex delay in whole milliseconds, rounded down: a
    client that comes back exactly then may be early by less than a millisecond, and is
    answered the stored state with a delay of 0.  `AnswersHonest` states the delay to
    the millisecond.
15. `runtime.go:121` rounds a float64 up, where `cache.go:420` rounds an integer.
    Beyond 2^24 seconds (194 days, longer than any window) a fraction of a few
    nanoseconds is lost first.  `GateRetryAfter` rounds exactly.

## 6. What is proved

All proofs are checked by TLAPS with nothing assumed but the named `ASSUME`s of
the constants (which TLC evaluates in every run).

The prover cannot instantiate an induction theorem.  Where a loop or a recursive
definition matters (the choice of `pick`, the list of a usage body, the backoff
schedule), the proofs argue by a least counterexample: of the steps at which the claim
fails there would be a first one (`MinOfNaturals`), and the step before it refutes that.
The folds of the community modules are recursive functions on sets of indices;
`SetRecursion` in `QuotaWindowsProofs` shows in the same way that such a function
exists, so that its defining equation may be used.

**QuotaWindowsProofs.**

* `RecoveryExact`: a credential exhausted with a known end is excluded at a time
  `t >= now` exactly while `t` is before `RecoveryAt`.  It rests on
  `AtMostThreeApply` and `MaxOfThree` (the maximum exists because at most three
  windows apply), so it needs no induction.
* `FleetRecoveryExact`: the same for a fleet of any size and the earliest
  recovery; `MinOfNaturals` (well-foundedness of `<` on `Nat`) replaces an
  induction over the fleet.
* `RetryAfterReliable`: a delay that `ResetRetryAfterSeconds` states is positive,
  reaches the reset, overshoots it by less than a second and fits a duration.

**SchedulerProofs**, about `Spec` of `Scheduler`:

* `AdviceIsHonest`: `Spec => []RetryAdviceHonest`.  The property speaks of the
  moment of the rejection and of now; the inductive invariant `AdviceInv` says that
  the recorded rejection is what the gate or `pick` answered then.  The lemmas
  `GateAdvice` and `PickAdvice` carry it to any later instant by
  `FleetRecoveryExact` and `RetryAfterReliable`: at the advised time the fleet (or
  the candidates asked for) is no longer exhausted, and the credential that
  recovered first is a free candidate.  It is assumed that the fleets hold
  windows with natural numbers (`FleetsAssumption`).
* `AdviceIsTight`: `Spec => []RetryAdviceTight`.  Both delays are within a second of
  the recovery (`GateRetryTight`, `PickDelayExact`), and until the recovery a fleet, or
  a list of candidates, stays as exhausted as it was (`GateStaysShut`,
  `PickStaysShut`).
* `PickIsBackstop`: `Spec => []BackstopAgrees`.  A part of an exhausted fleet is
  exhausted, and recovers no earlier than the whole (`PartRecoversLater`); the two
  computations of the delay round alike (`CeilingMonotone`, `PickBacksGate`).
* `PickFollowsPolicy`: `Spec => []PickMeetsPolicy`, for candidate lists of any length.
  `ChoiceIsLoop` turns the fold of `Chosen` into the loop of `pick`, candidate by
  candidate; `LoopHoldsFirst` is the loop's invariant (it holds the first of the
  candidates it has seen and may take), which needs that the ranking is total
  (`RankingTotal`).  It is assumed that priorities, weights and IDs are comparable
  (`CandidatesAssumption`).
* `SchedulerTypeCorrect`: `Spec => []TypeOK`.

**QuotaCacheProofs** holds what the cache operations do to the identity and the
incarnation of an entry, for whoever calls them; the next two modules use it.

**CacheProofs**, about `CacheSpec` of `CacheClients`:

* `TypeCorrect`: `CacheSpec => []CacheTypeOK`.  `CacheTypeOK` is inductive as it
  stands; one lemma per operation.
* `IncarnationsAreUnique`: `CacheSpec => []IncarnationsUnique`.  Uniqueness alone
  is not inductive: a new incarnation must be larger than all old ones, so the
  invariant also bounds every incarnation by `nextIncarnation`, and needs that
  `Rank` numbers the fresh credentials of one listing differently (a lemma on
  cardinalities of finite sets).
* `CacheImplementsLedger`: `CacheSpec => ImplementsLedger`.  Initial states map to
  initial states; `LedgerStep` maps every call to a turnover, an observation or a
  stutter: reconcile and a rotating bind are turnovers, a commit is an
  observation, and every other call leaves incarnations and windows alone.

**ObservationsProofs**, about `Spec` of `Observations`:

* `ExtraIsOfListedAccount`: `Spec => []ExtraOfListedAccount`.  The invariant
  (`ObservationsInv`) adds `Holders`: a poll or response whose incarnation is still
  that of the entry speaks of the entry's account.  That is what the
  comparison in `commitExtraUsage` relies on, and why a rotation may keep the extra
  usage.
* `StatusNeverGoesBack`: `Spec => StatusNeverRegresses`, by `Timed` and
  `StatusDated`: the date of the status is the stored `SampledAt` or older, and an
  observation in flight is not from the future.
* `ConservativeMerge`: of two entries for one window, in either order, the merged
  one blocks whenever one of them does.
* `PausesReachHints`: `Spec => PauseReachesHint`.  `HintInv` says that a poll with an
  answer got it from upstream and not in the future; `HintReaches` compares the hint
  with what the answer asks for, and `PauseReaches` what jitter and caps make of it.
  Without a hint the pause is bounded by `ScheduleBounded`: every value of the backoff
  schedule lies between the base and twice the maximum.
* `PollsMatchReports`: `Spec => WindowsMatchReports`, for usage bodies of any length.
  `ListIsLoop` turns the fold of `UsageWindows` into the loop of `parseUsageWindows`;
  `LoopSumsUp` is its invariant: what the loop knows of a slot has the highest percent
  and the last reset of the entries read so far, or an unknown reset if one of them has
  none (`SumsUp`); `SumBlocks` says what such a sum blocks.

Answers are assumed to be failures, unreadable, or bodies with a list of entries, and
instants and delays to be natural numbers (`AnswersAssumption`).

**CodexProofs**, about `Spec` of `CodexRoute`, for any accounts, calls, addresses
and bounds:

* `RouteTypeCorrect` and `RouteInvariant`: a goroutine that reads or fetches holds
  the mutex of its state, what nobody refers to is not in use, and every state
  agrees with the ghost record of its last fetch (`Settled`).
* `FetchesAreSpaced` and `AnswersAreHonest` follow from it, as action properties; the
  stated delay is within a millisecond of the pause by `WholeMilliseconds`.
* `NoStampedeBeforeRelisting`: as long as the list has not changed, every call
  that prunes has listed what every other call has, so the state a goroutine holds is the
  one in the map, and two goroutines of an account meet at one mutex.

**RouterProofs**, about `Spec` of `Router`, for any accounts, requests, documents and
bounds, whatever the cache, the host and upstream do:

* `QueueInvariant`: `Spec => []QueueInv`, where `QueueInv` ties the queue, the worker
  and the lifecycle together: the in-flight marks are those of the pass the worker
  is in (`Marks`), a running router is enabled, a stopped one is quiet, pending
  work has a wake-up, and a new cutoff reaches the fleet.
* `NoWakeupIsLost`, `InFlightIsTheWorkers`, `StopLeavesNothing` and
  `CutoffReachesFleet` are its parts that the runs check.  `NewCutoffReachesFleet` is
  not inductive without `StalePassIsFollowed`: a pass that works with a superseded
  cutoff might otherwise end after the pass with the new one; it cannot, because the
  reload that superseded it has queued another fleet pass.

**RouterCacheProofs**, about the same `Spec`: the cache, the host's files, and what
polls, gates, listings and responses hold of them.  Each theorem has an inductive
invariant of its own on top of the typing; TLC checked every one of them on the
instances of the runs before it was proved.

* `RouterTypes` and `RouterTypeCorrect`: `Spec => []TypeInv` and `Spec => []TypeOK`.
  `TypeInv` also says what a program counter entitles to (`WorkerType`: a poll that has
  read its credential holds a token; what is left to do is in the listing).
* `GateNeverMisled`: `Spec => AdmissionSound`.  The property speaks of one verdict; the
  invariant `AdmissionInv` says for every gate under way that an account whose file has
  not changed since the request came in is in every listing that was issued since
  and is about to be reconciled, whoever holds it (the worker and other gates
  included), and, once such a listing is reconciled, in the cache under its account,
  unless the cache is empty.
* `RotationsKept`: `Spec => []RotationNeverForgotten`.  `RotationInv` follows the check
  from the listing that reports a change to the bind: through the pass that has
  dequeued it (`PassListed`, `ReadCurrent`), and through a token that was read before
  the file changed (`TokenNotAhead`: what a poll binds is never newer than the file).
* `FetchesHonourPauses` and `RejectionsEnd`: `Spec => []PauseHonoured` and
  `Spec => []RejectionEndsWithToken`, from `PauseInv`: the pause in an entry is the
  one owed, unless a bind lifted it, and a poll past the attempt was
  admitted when the pause was over; no failure can be recorded in between, because
  only the worker records one.
* `PausesAreKept`: `Spec => PauseKept`, an action property.  `StepTurns` lists what a step
  may do to the pause of an entry: leave it, drop it with the credential, drop it for a
  token that replaces a rejected one, or settle the fetch made for it.  The last must not
  cut a pause short either, neither by a commit nor by a failure with a shorter
  pause; that needs `FetchDue`: what the worker fetches is not paused, from the
  attempt until the fetch is settled, because only the worker imposes pauses.
* `EvidenceKeepsAccount`: `PromptHook => (Spec => []EvidenceOfListedAccount)`, from
  `AccountInv`: a poll, a response or a correlation whose incarnation is still that
  of the entry speaks of the entry's account or a later one.  The hypothesis is
  needed: `router_late_hook` violates the property without it.
* `EvidenceAdvances`: `Spec => EvidenceNeverRegresses`, from `AgeInv`: no window in the
  cache was measured after the time it is stamped with, a poll's was measured after
  the poll's start, and a response's before it is observed.  `WindowSteps` lists the
  four ways a window changes: it stays, its entry is new, a poll or an observation lands.
* `NumbersAreUnique`: `Spec => []IncarnationsUnique`, from `RouterTypes` (every number is
  below the counter) and `FreshNumbers`: a step hands out numbers above all earlier
  ones, and different ones.
* `RouterImplementsLedger`: `Spec => ImplementsLedger`.  `RouterLedgerStep` maps a step
  that keeps or renews entries to a turnover of `CredentialLedger` (one that changes
  no entry turns nobody over), and one in which a batch lands to an observation:
  `LandedNewer` needs `AgeInv` (a poll started no later than it commits) to show that
  what lands is not older than what it replaces.  `CacheImplementsLedger` says the same of
  the cache under arbitrary callers, which these callers are an instance of only
  if their polls and responses carry such times: that is what is proved here.

Files are numbered by their writes (section 2), and a token that was replaced never
returns; the proofs use that order.

The bounds on counters and on the environment are part of the actions, and the
theorems hold for every value of them.

## 7. Only model-checked

* Liveness (`StopCompletes`, `WorkerRests`, `RouteAnswers`): fairness is beyond
  the prover.  The four violations are TLC's as well.

Every other property of the passing runs is a theorem.

## 8. Not modelled

* The text of failure messages, number and time formats, header names, the size
  limit of a body, and the rendering of extra usage: no property is about them.
* Of `config.go`: the user agent, the quota API keys, YAML and JSON syntax, and the
  registration metadata.
* Of `headers.go`: `parseClaudeFiveHourHeaders`, which only tests call.
* The key check of the quota route and the Claude half of its answer, which is the
  management status: a read-only rendering of the cache.
* ABI, host bridge, C marshalling, `main.go`: no state of their own; a host call is
  a step of `Router` that returns or fails.  A host call that never returns is not
  modelled: it blocks the worker and everything that waits for it (`hostbridge.go:123`).
* Helpers of `cache.go` that only tests call (`recordSuccess*`,
  `recordHeaderObservation`, `earliestFutureReset`, `allConfirmedExhausted`).
* Packaging, Docker image, host patches and design documents.

Hazards of `PROJECT.json` without a property carry a note: they are a host that
hangs, a refresh that is dropped for a fleet pass whose listing then fails, and items
6, 8, 11, 12 and 15 of section 5.

## 9. Plan

1. The time a host may take to hand a response over (item 13) as a parameter, with a
   bound on how far evidence can go back.
2. A run in which the router is disabled and enabled between polls, once the
   repository decides what should become of the pauses (item 5) and of the pending
   revision checks (item 12).
