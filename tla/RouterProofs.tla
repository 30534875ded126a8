---------------------------- MODULE RouterProofs ----------------------------
(***************************************************************************)
(* What the refresh queue, the worker that owns it and the lifecycle mutex *)
(* promise each other, for any accounts, requests, documents and bounds.   *)
(* Neither the cache nor the host is ever looked at.                       *)
(***************************************************************************)
EXTENDS Router, TLAPS

-----------------------------------------------------------------------------
(* The inductive invariant *)

IdlePCs == {"waiting", "taking", "exited"}
PollPCs == {"claiming", "beginning", "reading", "binding", "checking", "attempting", "noting",
            "fetching", "settling"}
ListPCs == {"listing", "reconciling", "signalling"}
BusyPCs == {"loading", "passing", "finishing"} \cup ListPCs \cup PollPCs

QueueFields == {"all", "ids", "revisions", "deferred", "flyingAll", "flying", "wake"}
WorkerFields == {"pc", "all", "ids", "revisions", "config", "generation", "listing", "signals",
                 "todo", "poll"}

QueueShape(q) ==
    /\ DOMAIN q = QueueFields
    /\ q = [f \in QueueFields |-> q[f]]
    /\ q.all \in BOOLEAN /\ q.flyingAll \in BOOLEAN /\ q.wake \in BOOLEAN

Shape ==
    /\ QueueShape(queue)
    /\ DOMAIN worker = WorkerFields
    /\ worker.all \in BOOLEAN
    /\ worker.pc \in IdlePCs \cup BusyPCs

\* The marks in flight are those of the pass that the worker is in.
Marks ==
    /\ worker.pc \in IdlePCs => ~queue.flyingAll /\ queue.flying = {}
    /\ worker.pc \in BusyPCs =>
          IF worker.all THEN queue.flying = {} ELSE ~queue.flyingAll /\ queue.flying = worker.ids

\* A running router is enabled: every stop that changes the configuration
\* also ends the running.
EnabledWhileRunning == lifecycle = "running" => config.enabled

\* A fleet pass that works with a cutoff no longer in force is followed by
\* another: without this, it could undo what a later one has done.
StalePassIsFollowed ==
    lifecycle = "running" /\ worker.all /\ worker.pc \in {"listing", "reconciling", "signalling"} =>
        worker.config.cutoff = config.cutoff \/ queue.all

QueueInv ==
    /\ Shape
    /\ Marks
    /\ EnabledWhileRunning
    /\ StoppedIsQuiet
    /\ NoLostWakeup
    /\ StalePassIsFollowed
    /\ NewCutoffReachesFleet

-----------------------------------------------------------------------------
(* What the operators of the queue leave as it was *)

\* stopLocked leaves a well-formed queue with nothing in it.
LEMMA EmptyQueueShape ==
    /\ QueueShape(EmptyQueue)
    /\ ~EmptyQueue.all /\ ~EmptyQueue.flyingAll /\ EmptyQueue.flying = {}
BY DEF EmptyQueue, QueueShape, QueueFields

\* queueAll: a fleet pass is pending, the worker is woken, the rest is kept.
LEMMA QueueAllFacts ==
    ASSUME NEW q, QueueShape(q)
    PROVE  /\ QueueShape(QueueAll(q))
           /\ QueueAll(q).all /\ QueueAll(q).wake
           /\ QueueAll(q).flyingAll = q.flyingAll /\ QueueAll(q).flying = q.flying
BY DEF QueueAll, QueueShape, QueueFields

\* queueCandidates: what it adds is pending and then the worker is woken.
LEMMA QueueCandidatesFacts ==
    ASSUME NEW q, QueueShape(q), NEW S
    PROVE  /\ QueueShape(QueueCandidates(q, S))
           /\ QueueCandidates(q, S).all = q.all
           /\ QueueCandidates(q, S).ids = q.ids \cup S
           /\ QueueCandidates(q, S).revisions = q.revisions
           /\ QueueCandidates(q, S).wake = (q.wake \/ S # {})
           /\ QueueCandidates(q, S).flyingAll = q.flyingAll
           /\ QueueCandidates(q, S).flying = q.flying
BY DEF QueueCandidates, QueueShape, QueueFields

\* queueRevisions: what it adds is pending and then the worker is woken.
LEMMA QueueRevisionsFacts ==
    ASSUME NEW q, QueueShape(q), NEW S
    PROVE  /\ QueueShape(QueueRevisions(q, S))
           /\ QueueRevisions(q, S).all = q.all
           /\ QueueRevisions(q, S).ids = q.ids
           /\ QueueRevisions(q, S).revisions = q.revisions \cup S
           /\ QueueRevisions(q, S).wake = (q.wake \/ S # {})
           /\ QueueRevisions(q, S).flyingAll = q.flyingAll
           /\ QueueRevisions(q, S).flying = q.flying
BY DEF QueueRevisions, QueueShape, QueueFields

\* deferRevision moves the due time of a check and keeps the rest of the work.
LEMMA DeferFacts ==
    ASSUME NEW q, QueueShape(q), NEW id, NEW due
    PROVE  /\ QueueShape(Defer(q, id, due))
           /\ Defer(q, id, due).all = q.all
           /\ Defer(q, id, due).flyingAll = q.flyingAll
           /\ Defer(q, id, due).flying = q.flying
BY DEF Defer, QueueShape, QueueFields

\* A retry of every deferred check only moves due times.
LEMMA RetryAllFacts ==
    ASSUME NEW q, QueueShape(q), NEW S
    PROVE  /\ QueueShape(RetryAll(q, S))
           /\ RetryAll(q, S).all = q.all
           /\ RetryAll(q, S).flyingAll = q.flyingAll
           /\ RetryAll(q, S).flying = q.flying
BY DEF RetryAll, QueueShape, QueueFields

\* requeue: a superseded fleet pass is pending again, the worker is woken.
LEMMA RequeueFacts ==
    ASSUME NEW q, QueueShape(q), NEW all \in BOOLEAN, NEW ids, NEW revisions
    PROVE  /\ QueueShape(Requeue(q, all, ids, revisions))
           /\ Requeue(q, all, ids, revisions).all = (all \/ q.all)
           /\ Requeue(q, all, ids, revisions).flyingAll = q.flyingAll
           /\ Requeue(q, all, ids, revisions).flying = q.flying
BY DEF Requeue, QueueAll, QueueShape, QueueFields

\* takePendingRefresh: the pending work becomes the pass, marked in flight.
LEMMA TakenFacts ==
    ASSUME NEW q, QueueShape(q), NEW at
    PROVE  /\ QueueShape(Taken(q, at))
           /\ ~Taken(q, at).all
           /\ Taken(q, at).flyingAll = (q.all \/ q.flyingAll)
           /\ Taken(q, at).flying = IF q.all THEN q.flying ELSE q.flying \cup q.ids
BY DEF Taken, Promoted, QueueShape, QueueFields

\* finishRefresh: the marks of the pass are cleared, what is pending stays.
LEMMA FinishedFacts ==
    ASSUME NEW q, QueueShape(q), NEW all \in BOOLEAN, NEW ids
    PROVE  /\ QueueShape(Finished(q, all, ids))
           /\ Finished(q, all, ids).all = q.all
           /\ Finished(q, all, ids).flyingAll <=> q.flyingAll /\ ~all
           /\ Finished(q, all, ids).flying = IF all THEN q.flying ELSE q.flying \ ids
BY DEF Finished, QueueShape, QueueFields

-----------------------------------------------------------------------------
(* Steps by what they touch *)

\* Host calls, requests and files that leave the queue and its owner alone.
LEMMA Unaffected ==
    ASSUME QueueInv, UNCHANGED <<queue, lifecycleVars, worker>>
    PROVE  QueueInv'
BY DEF QueueInv, Shape, Marks, EnabledWhileRunning, StoppedIsQuiet, NoLostWakeup,
       StalePassIsFollowed, NewCutoffReachesFleet, lifecycleVars

LatePCs == {"passing", "finishing"} \cup PollPCs

\* In the later part of a pass the worker at most defers revision checks.
LEMMA LateStep ==
    ASSUME QueueInv, UNCHANGED lifecycleVars,
           worker.pc \in LatePCs, worker'.pc \in LatePCs,
           DOMAIN worker' = WorkerFields, worker'.all = worker.all, worker'.ids = worker.ids,
           QueueShape(queue'), queue'.all = queue.all,
           queue'.flyingAll = queue.flyingAll, queue'.flying = queue.flying
    PROVE  QueueInv'
<1>1. lifecycle # "stopped"
  BY DEF QueueInv, StoppedIsQuiet, LatePCs, PollPCs
<1>2. Shape' /\ Marks'
  BY DEF QueueInv, Shape, Marks, LatePCs, PollPCs, IdlePCs, BusyPCs, ListPCs
<1>3. EnabledWhileRunning' /\ StoppedIsQuiet'
  BY <1>1 DEF QueueInv, EnabledWhileRunning, StoppedIsQuiet, lifecycleVars
<1>4. NoLostWakeup' /\ StalePassIsFollowed' /\ NewCutoffReachesFleet'
  BY DEF QueueInv, NoLostWakeup, StalePassIsFollowed, NewCutoffReachesFleet, LatePCs, PollPCs,
         lifecycleVars
<1>. QED
  BY <1>2, <1>3, <1>4 DEF QueueInv

\* A request queues nothing unless the router runs, and then wakes the worker.
LEMMA RequestStepQueues ==
    ASSUME QueueInv, UNCHANGED <<lifecycleVars, worker>>,
           NEW candidates, NEW revisions, NEW cfg, QueueFromRequest(candidates, revisions, cfg)
    PROVE  QueueInv'
<1> DEFINE claimed == candidates \cap DueIDs(cfg) \cap Queueable(queue)
           first == QueueCandidates(queue, claimed)
<1>1. CASE lifecycle = "running"
  <2>1. queue' = QueueRevisions(first, revisions)
    BY <1>1 DEF QueueFromRequest
  <2>2. /\ QueueShape(first) /\ first.all = queue.all
        /\ first.ids = queue.ids \cup claimed /\ first.revisions = queue.revisions
        /\ first.wake = (queue.wake \/ claimed # {})
        /\ first.flyingAll = queue.flyingAll /\ first.flying = queue.flying
    BY QueueCandidatesFacts DEF QueueInv, Shape
  <2>3. /\ QueueShape(queue') /\ queue'.all = queue.all
        /\ queue'.ids = queue.ids \cup claimed
        /\ queue'.revisions = queue.revisions \cup revisions
        /\ queue'.wake = (queue.wake \/ claimed # {} \/ revisions # {})
        /\ queue'.flyingAll = queue.flyingAll /\ queue'.flying = queue.flying
    <3> HIDE DEF first, claimed
    <3>1. /\ QueueShape(queue') /\ queue'.all = first.all /\ queue'.ids = first.ids
          /\ queue'.revisions = first.revisions \cup revisions
          /\ queue'.wake = (first.wake \/ revisions # {})
          /\ queue'.flyingAll = first.flyingAll /\ queue'.flying = first.flying
      BY <2>1, <2>2, QueueRevisionsFacts
    <3>. QED
      BY <2>2, <3>1
  <2> HIDE DEF claimed
  <2>4. Shape' /\ Marks' /\ EnabledWhileRunning'
    BY <2>3 DEF QueueInv, Shape, Marks, EnabledWhileRunning, lifecycleVars
  <2>5. StoppedIsQuiet' /\ StalePassIsFollowed' /\ NewCutoffReachesFleet'
    BY <1>1, <2>3 DEF QueueInv, StoppedIsQuiet, StalePassIsFollowed, NewCutoffReachesFleet, lifecycleVars
  <2>6. NoLostWakeup'
    BY <2>3 DEF QueueInv, NoLostWakeup, lifecycleVars
  <2>. QED
    BY <2>4, <2>5, <2>6 DEF QueueInv
<1>2. CASE lifecycle # "running"
  BY <1>2, Unaffected DEF QueueFromRequest
<1>. QED
  BY <1>1, <1>2

-----------------------------------------------------------------------------
(* The steps of the worker *)

\* Every step of refreshLoop and refreshAuths keeps QueueInv.
LEMMA WorkerPreserves ==
    ASSUME QueueInv, WorkerStep
    PROVE  QueueInv'
<1> USE DEF lifecycleVars
<1>0. /\ QueueShape(queue) /\ DOMAIN worker = WorkerFields /\ worker.all \in BOOLEAN
  BY DEF QueueInv, Shape
<1>1. CASE WorkerWake
  <2>1. /\ QueueShape(queue') /\ queue'.all = queue.all
        /\ queue'.flyingAll = queue.flyingAll /\ queue'.flying = queue.flying
    BY <1>0, <1>1 DEF WorkerWake, QueueShape, QueueFields
  <2>2. /\ worker.pc = "waiting" /\ worker'.pc = "taking"
        /\ DOMAIN worker' = WorkerFields /\ worker'.all = worker.all
    BY <1>0, <1>1 DEF WorkerWake, WorkerFields
  <2>3. UNCHANGED <<lifecycle, config, swept>>
    BY <1>1 DEF WorkerWake
  <2>. QED
    BY <2>1, <2>2, <2>3 DEF QueueInv, Shape, Marks, EnabledWhileRunning, StoppedIsQuiet,
       NoLostWakeup, StalePassIsFollowed, NewCutoffReachesFleet, IdlePCs, BusyPCs, ListPCs, PollPCs
<1>2. CASE WorkerExit
  <2>1. /\ worker.pc = "waiting" /\ worker'.pc = "exited" /\ lifecycle = "stopping"
        /\ DOMAIN worker' = WorkerFields /\ worker'.all = worker.all
        /\ UNCHANGED <<queue, lifecycle, config, swept, carried>>
    BY <1>0, <1>2 DEF WorkerExit, Cancelled, WorkerFields
  <2>. QED
    BY <2>1 DEF QueueInv, Shape, Marks, EnabledWhileRunning, StoppedIsQuiet,
       NoLostWakeup, StalePassIsFollowed, NewCutoffReachesFleet, IdlePCs, BusyPCs, ListPCs, PollPCs
<1>3. CASE WorkerTake
  <2>1. queue' = Taken(queue, now)
    BY <1>3 DEF WorkerTake
  <2>2. /\ QueueShape(queue') /\ ~queue'.all
        /\ queue'.flyingAll = (queue.all \/ queue.flyingAll)
        /\ queue'.flying = IF queue.all THEN queue.flying ELSE queue.flying \cup queue.ids
    BY <1>0, <2>1, TakenFacts
  <2>3. /\ worker.pc = "taking" /\ worker'.pc = "loading"
        /\ DOMAIN worker' = WorkerFields /\ worker'.all = queue.all
        /\ worker'.ids = IF queue.all THEN {} ELSE queue.ids
        /\ UNCHANGED <<lifecycle, config, swept>>
    BY <1>0, <1>3 DEF WorkerTake, WorkerFields
  <2>4. Shape'
    BY <1>0, <2>2, <2>3 DEF Shape, BusyPCs, QueueShape
  <2>5. Marks'
    BY <2>2, <2>3 DEF QueueInv, Marks, IdlePCs, BusyPCs
  <2>6. /\ EnabledWhileRunning' /\ StoppedIsQuiet' /\ NoLostWakeup'
        /\ StalePassIsFollowed' /\ NewCutoffReachesFleet'
    BY <2>3 DEF QueueInv, EnabledWhileRunning, StoppedIsQuiet, NoLostWakeup, StalePassIsFollowed,
       NewCutoffReachesFleet
  <2>. QED
    BY <2>4, <2>5, <2>6 DEF QueueInv
<1>4. CASE WorkerLoad
  <2>1. /\ worker.pc = "loading" /\ worker'.pc \in {"finishing", "listing"}
        /\ DOMAIN worker' = WorkerFields /\ worker'.all = worker.all /\ worker'.ids = worker.ids
        /\ worker'.pc = "finishing" => lifecycle # "running"
        /\ worker'.pc = "listing" => worker'.config = config
        /\ UNCHANGED <<queue, lifecycle, config, swept, carried>>
    BY <1>0, <1>4 DEF WorkerLoad, WorkerFields, QueueInv, EnabledWhileRunning, Cancelled
  <2>. QED
    BY <1>0, <2>1 DEF QueueInv, Shape, Marks, EnabledWhileRunning, StoppedIsQuiet,
       NoLostWakeup, StalePassIsFollowed, NewCutoffReachesFleet, IdlePCs, BusyPCs, ListPCs, PollPCs
<1>5. CASE WorkerIdle
  <2>1. /\ worker.pc = "taking" /\ worker' = Waiting
        /\ ~queue.all /\ queue.ids = {} /\ queue.revisions = {}
        /\ UNCHANGED <<queue, lifecycle, config, swept, carried>>
    BY <1>0, <1>5 DEF WorkerIdle, HasWork, Promoted, QueueShape, QueueFields
  <2>2. DOMAIN worker' = WorkerFields /\ ~worker'.all /\ worker'.pc = "waiting"
        /\ worker'.all \in BOOLEAN
    BY <2>1 DEF Waiting, WorkerFields
  <2>. QED
    BY <1>0, <2>1, <2>2 DEF QueueInv, Shape, Marks, EnabledWhileRunning, StoppedIsQuiet,
       NoLostWakeup, StalePassIsFollowed, NewCutoffReachesFleet, IdlePCs, BusyPCs, ListPCs, PollPCs
<1>6. CASE WorkerList \/ WorkerReconcile
  <2>1. /\ worker.pc \in {"listing", "reconciling"} /\ worker'.pc \in {"reconciling", "signalling"}
        /\ DOMAIN worker' = WorkerFields /\ worker'.all = worker.all /\ worker'.ids = worker.ids
        /\ worker'.config = worker.config
        /\ UNCHANGED <<queue, lifecycle, config, swept, carried>>
    BY <1>0, <1>6 DEF WorkerList, WorkerReconcile, WorkerFields
  <2>. QED
    BY <1>0, <2>1 DEF QueueInv, Shape, Marks, EnabledWhileRunning, StoppedIsQuiet,
       NoLostWakeup, StalePassIsFollowed, NewCutoffReachesFleet, IdlePCs, BusyPCs, ListPCs, PollPCs
<1>7. CASE WorkerListFails \/ WorkerSignal
  <2>1. /\ worker.pc \in {"listing", "signalling"} /\ worker'.pc \in {"finishing", "passing"}
        /\ DOMAIN worker' = WorkerFields /\ worker'.all = worker.all /\ worker'.ids = worker.ids
        /\ swept' = IF worker.all THEN worker.config.cutoff ELSE swept
        /\ UNCHANGED <<lifecycle, config>>
    BY <1>0, <1>7 DEF WorkerListFails, WorkerSignal, WorkerFields
  <2>2. /\ QueueShape(queue') /\ queue'.all = queue.all
        /\ queue'.flyingAll = queue.flyingAll /\ queue'.flying = queue.flying
    BY <1>0, <1>7, RetryAllFacts, QueueRevisionsFacts DEF WorkerListFails, WorkerSignal
  <2>3. Shape' /\ Marks'
    BY <1>0, <2>1, <2>2 DEF QueueInv, Shape, Marks, IdlePCs, BusyPCs, ListPCs, PollPCs
  <2>4. StalePassIsFollowed' /\ NewCutoffReachesFleet'
    BY <2>1, <2>2 DEF QueueInv, StalePassIsFollowed, NewCutoffReachesFleet
  <2>5. EnabledWhileRunning' /\ StoppedIsQuiet' /\ NoLostWakeup'
    BY <2>1 DEF QueueInv, EnabledWhileRunning, StoppedIsQuiet, NoLostWakeup
  <2>. QED
    BY <2>3, <2>4, <2>5 DEF QueueInv
<1>8. CASE WorkerSuperseded
  <2>1. /\ worker.pc = "reconciling" /\ worker'.pc = "finishing"
        /\ DOMAIN worker' = WorkerFields /\ worker'.all = worker.all /\ worker'.ids = worker.ids
        /\ UNCHANGED <<lifecycle, config, swept>>
    BY <1>0, <1>8 DEF WorkerSuperseded, WorkerFields
  <2>2. /\ QueueShape(queue') /\ queue'.all = (worker.all \/ queue.all)
        /\ queue'.flyingAll = queue.flyingAll /\ queue'.flying = queue.flying
    BY <1>0, <1>8, RequeueFacts DEF WorkerSuperseded
  <2>3. Shape' /\ Marks'
    BY <1>0, <2>1, <2>2 DEF QueueInv, Shape, Marks, IdlePCs, BusyPCs, ListPCs, PollPCs
  <2>4. StalePassIsFollowed' /\ NewCutoffReachesFleet'
    <3>1. queue'.all <=> worker.all \/ queue.all
      BY <2>2
    <3>. QED
      BY <2>1, <3>1 DEF QueueInv, StalePassIsFollowed, NewCutoffReachesFleet
  <2>5. EnabledWhileRunning' /\ StoppedIsQuiet' /\ NoLostWakeup'
    BY <2>1 DEF QueueInv, EnabledWhileRunning, StoppedIsQuiet, NoLostWakeup
  <2>. QED
    BY <2>3, <2>4, <2>5 DEF QueueInv
<1>9. CASE WorkerNext \/ WorkerPassEnds
  <2>1. /\ worker.pc = "passing" /\ worker'.pc \in {"claiming", "beginning", "finishing"}
        /\ DOMAIN worker' = WorkerFields /\ worker'.all = worker.all /\ worker'.ids = worker.ids
        /\ UNCHANGED <<queue, lifecycle, config, swept, carried>>
    BY <1>0, <1>9 DEF WorkerNext, WorkerPassEnds, WorkerFields
  <2>. QED
    BY <1>0, <2>1, LateStep DEF LatePCs, PollPCs
<1>10. CASE WorkerFinish
  <2>1. /\ worker.pc = "finishing" /\ worker'.pc \in {"exited", "taking"}
        /\ DOMAIN worker' = WorkerFields /\ worker'.all = FALSE
        /\ UNCHANGED <<lifecycle, config, swept>>
    BY <1>10 DEF WorkerFinish, Waiting, WorkerFields
  <2>2. /\ QueueShape(queue') /\ queue'.all = queue.all
        /\ queue'.flyingAll <=> queue.flyingAll /\ ~worker.all
        /\ queue'.flying = IF worker.all THEN queue.flying ELSE queue.flying \ worker.ids
    <3>1. queue' = Finished(queue, worker.all, worker.ids)
      BY <1>10 DEF WorkerFinish
    <3>. QED
      BY <1>0, <3>1, FinishedFacts
  <2>3. Shape' /\ Marks'
    BY <1>0, <2>1, <2>2 DEF QueueInv, Shape, Marks, IdlePCs, BusyPCs, ListPCs, PollPCs
  <2>4. /\ EnabledWhileRunning' /\ StoppedIsQuiet' /\ NoLostWakeup'
        /\ StalePassIsFollowed' /\ NewCutoffReachesFleet'
    BY <2>1, <2>2 DEF QueueInv, EnabledWhileRunning, StoppedIsQuiet, NoLostWakeup,
       StalePassIsFollowed, NewCutoffReachesFleet
  <2>. QED
    BY <2>3, <2>4 DEF QueueInv
<1>. QED
  BY <1>1, <1>2, <1>3, <1>4, <1>5, <1>6, <1>7, <1>8, <1>9, <1>10 DEF WorkerStep

-----------------------------------------------------------------------------
(* The steps of a poll *)

\* Every step of checkAuthRevision and pollAuth keeps QueueInv.
LEMMA PollPreserves ==
    ASSUME QueueInv, PollStep
    PROVE  QueueInv'
<1>0. /\ QueueShape(queue) /\ DOMAIN worker = WorkerFields
  BY DEF QueueInv, Shape
<1>1. worker.pc \in PollPCs
  BY DEF PollStep, PollClaim, PollDefer, PollBegin, PollRead, PollReadFails, PollReadNoToken,
         PollBind, PollCheck, PollAttempt, PollNote, PollFetch, PollFetchFails, PollCommit,
         PollFail, PollPCs
<1>2. UNCHANGED lifecycleVars
  BY DEF PollStep, PollClaim, PollDefer, PollBegin, PollRead, PollReadFails, PollReadNoToken,
         PollBind, PollCheck, PollAttempt, PollNote, PollFetch, PollFetchFails, PollCommit,
         PollFail, lifecycleVars
<1>3. /\ worker'.pc \in LatePCs
      /\ DOMAIN worker' = WorkerFields /\ worker'.all = worker.all /\ worker'.ids = worker.ids
  <2>1. CASE PollClaim \/ PollDefer \/ PollBegin \/ PollRead
    BY <1>0, <2>1 DEF PollClaim, PollDefer, PollBegin, PollRead, EndPoll, WorkerFields, LatePCs,
       PollPCs
  <2>2. CASE PollReadFails \/ PollReadNoToken \/ PollBind \/ PollCheck
    BY <1>0, <2>2 DEF PollReadFails, PollReadNoToken, PollBind, PollCheck, EndPoll, WorkerFields,
       LatePCs, PollPCs
  <2>3. CASE PollAttempt \/ PollNote \/ PollFetch \/ PollFetchFails
    BY <1>0, <2>3 DEF PollAttempt, PollNote, PollFetch, PollFetchFails, EndPoll, WorkerFields,
       LatePCs, PollPCs
  <2>4. CASE PollCommit \/ PollFail
    BY <1>0, <2>4 DEF PollCommit, PollFail, EndPoll, WorkerFields, LatePCs, PollPCs
  <2>. QED
    BY <2>1, <2>2, <2>3, <2>4 DEF PollStep
<1>4. /\ QueueShape(queue') /\ queue'.all = queue.all
      /\ queue'.flyingAll = queue.flyingAll /\ queue'.flying = queue.flying
  <2>1. CASE PollDefer \/ PollReadFails
    <3>1. queue' = queue \/ \E due : queue' = Defer(queue, poll.id, due)
      BY <2>1 DEF PollDefer, PollReadFails
    <3>. QED
      BY <1>0, <3>1, DeferFacts
  <2>2. CASE ~(PollDefer \/ PollReadFails)
    <3>1. UNCHANGED queue
      BY <2>2 DEF PollStep, PollClaim, PollBegin, PollRead, PollReadNoToken, PollBind, PollCheck,
         PollAttempt, PollNote, PollFetch, PollFetchFails, PollCommit, PollFail
    <3>. QED
      BY <1>0, <3>1
  <2>. QED
    BY <2>1, <2>2
<1>. QED
  BY <1>1, <1>2, <1>3, <1>4, LateStep DEF LatePCs

-----------------------------------------------------------------------------
(* The steps of requests *)

\* pick queues candidates of a running router only.
LEMMA PickPreserves ==
    ASSUME QueueInv, PickRequest
    PROVE  QueueInv'
<1>1. /\ UNCHANGED <<lifecycleVars, worker>>
      /\ \E candidates, revisions, cfg : QueueFromRequest(candidates, revisions, cfg)
  BY DEF PickRequest
<1>. QED
  BY <1>1, RequestStepQueues

\* No step of interceptBeforeAuth breaks QueueInv, also after a stop.
LEMMA GatePreserves ==
    ASSUME QueueInv, NEW g \in Gates, GateStep(g)
    PROVE  QueueInv'
<1>1. CASE GateQueue(g)
  <2>1. /\ UNCHANGED <<lifecycleVars, worker>>
        /\ \E candidates, revisions, cfg : QueueFromRequest(candidates, revisions, cfg)
    BY <1>1 DEF GateQueue
  <2>. QED
    BY <2>1, RequestStepQueues
<1>2. CASE ~GateQueue(g)
  <2>1. UNCHANGED <<queue, lifecycleVars, worker>>
    BY <1>2 DEF GateStep, GateStart, GateList, GateReconcile, GateDecide
  <2>. QED
    BY <2>1, Unaffected
<1>. QED
  BY <1>1, <1>2

-----------------------------------------------------------------------------
(* The steps of applyConfig and shutdown *)

\* applyConfig and shutdown keep QueueInv.
LEMMA ConfigPreserves ==
    ASSUME QueueInv, ConfigStep
    PROVE  QueueInv'
<1>0. QueueShape(queue)
  BY DEF QueueInv, Shape
<1>1. CASE Disable \/ Shutdown
  <2>1. /\ UNCHANGED <<queue, worker>> /\ lifecycle' = "stopping"
    BY <1>1 DEF Disable, Shutdown
  <2>. QED
    BY <2>1 DEF QueueInv, Shape, Marks, EnabledWhileRunning, StoppedIsQuiet, NoLostWakeup,
       StalePassIsFollowed, NewCutoffReachesFleet
<1>2. CASE StopEnds
  <2>1. /\ worker.pc = "exited" /\ queue' = EmptyQueue /\ lifecycle' = "stopped"
        /\ UNCHANGED worker
    BY <1>2 DEF StopEnds
  <2>. QED
    BY <2>1, EmptyQueueShape DEF QueueInv, Shape, Marks, EnabledWhileRunning, StoppedIsQuiet,
       NoLostWakeup, StalePassIsFollowed, NewCutoffReachesFleet, IdlePCs, BusyPCs, ListPCs, PollPCs
<1>3. CASE DisableStopped
  <2>1. /\ lifecycle = "stopped" /\ UNCHANGED <<queue, worker, lifecycle>>
    BY <1>3 DEF DisableStopped
  <2>. QED
    BY <2>1 DEF QueueInv, Shape, Marks, EnabledWhileRunning, StoppedIsQuiet, NoLostWakeup,
       StalePassIsFollowed, NewCutoffReachesFleet
<1>4. CASE Enable
  <2>1. /\ lifecycle = "stopped" /\ lifecycle' = "running" /\ config'.enabled
        /\ worker' = Waiting /\ queue' = QueueAll(queue)
    BY <1>4 DEF Enable
  <2>2. /\ QueueShape(queue') /\ queue'.all /\ queue'.wake
        /\ ~queue'.flyingAll /\ queue'.flying = {}
    BY <1>0, <2>1, QueueAllFacts, EmptyQueueShape DEF QueueInv, StoppedIsQuiet
  <2>3. DOMAIN worker' = WorkerFields /\ worker'.pc = "waiting" /\ worker'.all = FALSE
    BY <2>1 DEF Waiting, WorkerFields
  <2>. QED
    BY <2>1, <2>2, <2>3 DEF QueueInv, Shape, Marks, EnabledWhileRunning, StoppedIsQuiet,
       NoLostWakeup, StalePassIsFollowed, NewCutoffReachesFleet, IdlePCs, BusyPCs, ListPCs, PollPCs
<1>5. CASE Reload
  <2>1. /\ lifecycle = "running" /\ config'.enabled /\ UNCHANGED <<lifecycle, swept, worker>>
        /\ \/ queue' = QueueAll(queue)
           \/ queue' = queue /\ config'.cutoff = config.cutoff
    BY <1>5 DEF Reload
  <2>2. /\ QueueShape(queue') /\ queue'.flyingAll = queue.flyingAll
        /\ queue'.flying = queue.flying
        /\ queue' = queue \/ (queue'.all /\ queue'.wake)
    BY <1>0, <2>1, QueueAllFacts
  <2>3. Shape' /\ Marks' /\ EnabledWhileRunning' /\ StoppedIsQuiet'
    BY <2>1, <2>2 DEF QueueInv, Shape, Marks, EnabledWhileRunning, StoppedIsQuiet
  <2>4. NoLostWakeup'
    BY <2>1, <2>2 DEF QueueInv, NoLostWakeup
  <2>5. StalePassIsFollowed' /\ NewCutoffReachesFleet'
    BY <1>0, <2>1, QueueAllFacts DEF QueueInv, StalePassIsFollowed, NewCutoffReachesFleet
  <2>. QED
    BY <2>3, <2>4, <2>5 DEF QueueInv
<1>. QED
  BY <1>1, <1>2, <1>3, <1>4, <1>5 DEF ConfigStep

-----------------------------------------------------------------------------
(* The theorems *)

\* The queue, the worker and the lifecycle keep QueueInv: whatever the cache,
\* the host and the requests do, for any bounds.
THEOREM QueueInvariant == Spec => []QueueInv
<1>1. Init => QueueInv
  <2> SUFFICES ASSUME Init PROVE QueueInv
    OBVIOUS
  <2>1. /\ QueueShape(queue) /\ queue.all /\ queue.wake
        /\ ~queue.flyingAll /\ queue.flying = {}
    BY EmptyQueueShape, QueueAllFacts DEF Init
  <2>2. DOMAIN worker = WorkerFields /\ worker.pc = "waiting" /\ worker.all = FALSE
    BY DEF Init, Waiting, WorkerFields
  <2>3. lifecycle = "running" /\ config.enabled
    BY RouterAssumption DEF Init
  <2>. QED
    BY <2>1, <2>2, <2>3 DEF QueueInv, Shape, Marks, EnabledWhileRunning, StoppedIsQuiet,
       NoLostWakeup, StalePassIsFollowed, NewCutoffReachesFleet, IdlePCs, BusyPCs, ListPCs, PollPCs
<1>2. QueueInv /\ [Next]_vars => QueueInv'
  <2> SUFFICES ASSUME QueueInv, [Next]_vars PROVE QueueInv'
    OBVIOUS
  <2>1. CASE UNCHANGED vars
    BY <2>1, Unaffected DEF vars, lifecycleVars
  <2>2. CASE WorkerStep
    BY <2>2, WorkerPreserves
  <2>3. CASE PollStep
    BY <2>3, PollPreserves
  <2>4. CASE PickRequest
    BY <2>4, PickPreserves
  <2>5. CASE \E g \in Gates : GateStep(g)
    BY <2>5, GatePreserves
  <2>6. CASE \E r \in Requests : RequestStep(r)
    <3>1. UNCHANGED <<queue, lifecycleVars, worker>>
      BY <2>6 DEF RequestStep, ChooseAuth, AfterAuth, Answer, Respond, CommitObservation
    <3>. QED
      BY <3>1, Unaffected
  <2>7. CASE ConfigStep
    BY <2>7, ConfigPreserves
  <2>8. CASE (\E id \in AuthIDs : FileStep(id)) \/ Tick
    <3>1. UNCHANGED <<queue, lifecycleVars, worker>>
      BY <2>8 DEF FileStep, TouchFile, RotateToken, ReplaceAccount, RemoveFile, RestoreFile,
         WriteFile, Tick
    <3>. QED
      BY <3>1, Unaffected
  <2>. QED
    BY <2>1, <2>2, <2>3, <2>4, <2>5, <2>6, <2>7, <2>8 DEF Next
<1>. QED
  BY <1>1, <1>2, PTL DEF Spec

\* What waits in the queue while the worker waits has a wake-up: a refresh
\* never depends on an unrelated event (the wake channel of refreshLoop).
THEOREM NoWakeupIsLost == Spec => []NoLostWakeup
<1>1. QueueInv => NoLostWakeup
  BY DEF QueueInv
<1>. QED
  BY <1>1, QueueInvariant, PTL

\* The in-flight marks are those of the pass under way and go with it
\* (takePendingRefresh, finishRefresh, stopLocked).
THEOREM InFlightIsTheWorkers == Spec => []InFlightMatchesWorker
<1>1. QueueInv => InFlightMatchesWorker
  BY DEF QueueInv, Marks, InFlightMatchesWorker, IdlePCs
<1>. QED
  BY <1>1, QueueInvariant, PTL

\* A stopped router has no worker and an empty queue, whatever requests are
\* still under way (stopLocked, queueCandidateRefresh, queueRevisionCheck).
THEOREM StopLeavesNothing == Spec => []StoppedIsQuiet
<1>1. QueueInv => StoppedIsQuiet
  BY DEF QueueInv
<1>. QED
  BY <1>1, QueueInvariant, PTL

\* However reloads, restarts and superseded passes interleave, a fleet pass
\* with the cutoff in force has been made or is still to come (applyConfig).
THEOREM CutoffReachesFleet == Spec => []NewCutoffReachesFleet
<1>1. QueueInv => NewCutoffReachesFleet
  BY DEF QueueInv
<1>. QED
  BY <1>1, QueueInvariant, PTL
=============================================================================
