---------------------------- MODULE RefreshQueue ----------------------------
(***************************************************************************)
(* The worker-owned queue of refresh work, one critical section of         *)
(* refreshMu per operator.  A queue is a record:                           *)
(*   all        a fleet pass is pending (pendingAll)                       *)
(*   ids        auths whose usage refresh is pending (pendingIDs)          *)
(*   revisions  auths whose revision check is pending (pendingRevisionIDs) *)
(*   deferred   when a deferred revision check is due; NotDeferred if none *)
(*   flyingAll, flying   what the current pass is working on               *)
(*   wake       the one-slot wake channel of the worker                    *)
(***************************************************************************)
EXTENDS Naturals

CONSTANT QueuedIDs    \* the auth IDs that may be queued

NotDeferred == 0

EmptyQueue ==
    [all |-> FALSE, ids |-> {}, revisions |-> {},
     deferred |-> [id \in QueuedIDs |-> NotDeferred],
     flyingAll |-> FALSE, flying |-> {}, wake |-> FALSE]

Queues ==
    [all : BOOLEAN, ids : SUBSET QueuedIDs, revisions : SUBSET QueuedIDs,
     deferred : [QueuedIDs -> Nat], flyingAll : BOOLEAN, flying : SUBSET QueuedIDs,
     wake : BOOLEAN]

QueueAll(q) == [q EXCEPT !.all = TRUE, !.ids = {}, !.wake = TRUE]

\* A candidate is dropped while a fleet pass is pending or in flight, or while
\* its own refresh is.
Queueable(q) ==
    IF q.all \/ q.flyingAll THEN {} ELSE QueuedIDs \ (q.ids \cup q.flying)

QueueCandidates(q, S) == [q EXCEPT !.ids = @ \cup S, !.wake = @ \/ S # {}]

\* Mutant: the worker is not woken.
QueueRevisionsQuietly(q, S) == [q EXCEPT !.revisions = @ \cup S]

QueueRevisions(q, S) == [q EXCEPT !.revisions = @ \cup S, !.wake = @ \/ S # {}]

\* An earlier due time wins over the one already there.
Defer(q, id, due) ==
    [q EXCEPT !.deferred[id] = IF @ = NotDeferred \/ due < @ THEN due ELSE @,
              !.wake = TRUE]

\* Mutant: only the usage refreshes are put back.
RequeueIDs(q, all, ids, revisions) ==
    IF all THEN QueueAll(q) ELSE [q EXCEPT !.ids = @ \cup ids, !.wake = TRUE]

\* A superseded pass puts back what it had taken; a fleet pass had taken no
\* revision checks.
Requeue(q, all, ids, revisions) ==
    IF all THEN QueueAll(q)
    ELSE [q EXCEPT !.ids = @ \cup ids, !.revisions = @ \cup revisions, !.wake = TRUE]

DueDeferred(q, now) == {id \in QueuedIDs : q.deferred[id] # NotDeferred /\ now >= q.deferred[id]}

Promoted(q, now) ==
    [q EXCEPT !.revisions = @ \cup DueDeferred(q, now),
              !.deferred = [id \in QueuedIDs |-> IF id \in DueDeferred(q, now)
                                                 THEN NotDeferred ELSE @[id]]]

HasWork(q, now) == q.all \/ q.ids # {} \/ Promoted(q, now).revisions # {}

\* takePendingRefresh: a fleet pass swallows the pending candidates and leaves
\* the revision checks pending; otherwise both sets are taken.
Taken(q, now) ==
    LET p == Promoted(q, now)
    IN  IF p.all THEN [p EXCEPT !.all = FALSE, !.ids = {}, !.flyingAll = TRUE]
        ELSE [p EXCEPT !.ids = {}, !.revisions = {}, !.flying = @ \cup p.ids]

\* Mutant: the mark of a fleet pass is not cleared.
FinishedIDs(q, all, ids) == [q EXCEPT !.flying = @ \ ids]

Finished(q, all, ids) ==
    IF all THEN [q EXCEPT !.flyingAll = FALSE] ELSE [q EXCEPT !.flying = @ \ ids]
=============================================================================
