----------------------------- MODULE Scheduling -----------------------------
(***************************************************************************)
(* The two decisions about a request: the scheduler's pick among the       *)
(* candidates the host offers, and the before-auth gate that judges the    *)
(* whole cached fleet.  Both read the cached windows and the clock, and    *)
(* change neither; the usage refreshes that pick asks for are returned in  *)
(* the field queue of its reply.  cutoff: cutoff-percent-used.             *)
(***************************************************************************)
EXTENDS QuotaWindows, Sequences, SequencesExt

-----------------------------------------------------------------------------
(* Candidates: [id, priority, weight, claude].  claude is FALSE for another *)
(* provider or a malformed ID; weight is NoWeight when absent or unreadable. *)

NoWeight == -1

CandidateWeight(c) == IF c.weight < 0 THEN 1 ELSE c.weight

\* The running choice of pick's loop: priority, then weight, then lowest ID.
Displaces(c, best) ==
    \/ c.priority > best.priority
    \/ /\ c.priority = best.priority
       /\ CandidateWeight(c) > CandidateWeight(best)
    \/ /\ c.priority = best.priority
       /\ CandidateWeight(c) = CandidateWeight(best)
       /\ c.id < best.id

NoCandidate == [id |-> 0, priority |-> 0, weight |-> NoWeight, claude |-> FALSE]

\* What the loop holds after it has looked at c; S: the candidates it may take.
Preferred(best, c, S) == IF c \in S /\ (best = NoCandidate \/ Displaces(c, best)) THEN c ELSE best

Chosen(candidates, S) == FoldLeft(LAMBDA best, c : Preferred(best, c, S), NoCandidate, candidates).id

\* Mutant: the model family is not passed on.
ExcludedByShared(held, id, family, t, cutoff) ==
    id \notin DOMAIN held \/ Excluded(held[id], "unknown", t, cutoff)

\* A candidate the cache does not know is excluded, and confirms nothing.
ExcludedCandidate(held, id, family, t, cutoff) ==
    id \notin DOMAIN held \/ Excluded(held[id], family, t, cutoff)

\* Mutant: an unknown five-hour window counts as confirmed.
MerelyExcluded(held, id, family, t, cutoff) == ExcludedCandidate(held, id, family, t, cutoff)

ConfirmedCandidate(held, id, family, t, cutoff) ==
    id \in DOMAIN held /\ ConfirmedExhausted(held[id], family, t, cutoff)

-----------------------------------------------------------------------------
(* pick *)

Reply(kind, id, delay, queue) == [kind |-> kind, id |-> id, delay |-> delay, queue |-> queue]

\* The retry delay of a pick that rejects: known only when every candidate is
\* confirmed exhausted and every blocking reset is known.
PickDelay(held, ids, family, t, cutoff) ==
    LET known == \A id \in ids : id \in DOMAIN held /\ RecoveryKnown(held[id], family, t, cutoff)
    IN  IF known
        THEN ResetRetryAfterSeconds(
                 t, EarliestRecovery([id \in ids |-> held[id]], family, t, cutoff), TRUE)
        ELSE NoDelay

\* due: the auth IDs whose usage refresh is due.  An excluded candidate is
\* queued when due, the chosen one always (the queue itself throttles).
Pick(held, candidates, family, t, fallback, due, cutoff) ==
    LET claude == {c \in ToSet(candidates) : c.claude}
        free == {c \in claude : ~ExcludedCandidate(held, c.id, family, t, cutoff)}
        ids == {c.id : c \in claude}
        stale == {c.id : c \in claude \ free} \cap due
        confirmed == \A id \in ids : ConfirmedCandidate(held, id, family, t, cutoff)
    IN  CASE claude = {} -> Reply("unhandled", 0, NoDelay, {})
          [] free # {} ->
                LET chosen == Chosen(candidates, free)
                IN  Reply("route", chosen, NoDelay, stale \cup {chosen})
          [] claude # {} /\ free = {} /\ fallback /\ confirmed ->
                LET chosen == Chosen(candidates, claude)
                IN  Reply("overage", chosen, NoDelay, stale \cup {chosen})
          [] OTHER -> Reply("reject", 0, PickDelay(held, ids, family, t, cutoff), stale)

-----------------------------------------------------------------------------
(* interceptBeforeAuth, after its membership discovery *)

Gate(held, family, t, cutoff) ==
    IF FleetExhausted(held, family, t, cutoff)
    THEN Reply("reject", 0, GateRetryAfter(t, EarliestRecovery(held, family, t, cutoff)), {})
    ELSE Reply("pass", 0, NoDelay, {})
=============================================================================
