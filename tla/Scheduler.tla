------------------------------ MODULE Scheduler -----------------------------
(***************************************************************************)
(* Requests decided by pick and by the gate while the clock runs past the  *)
(* delays they advise, with the fleet as it stands between two refreshes.  *)
(***************************************************************************)
EXTENDS Scheduling

CONSTANTS Cutoff,           \* cutoff-percent-used
          Fleets,           \* the fleets the cache may hold
          CandidateLists,   \* the candidate sequences the host may offer
          RequestFamilies,  \* the families of the requested models
          MaxNow            \* bound on the clock

ASSUME CutoffAssumption == Cutoff \in Nat
ASSUME FleetsAssumption ==
    \A held \in Fleets : \A id \in DOMAIN held :
        held[id] \in [Slots -> [valid : BOOLEAN, percent : Nat, resetAt : Nat]]
ASSUME MaxNowAssumption == MaxNow \in Nat \ {0}
ASSUME CandidatesAssumption ==
    \A candidates \in CandidateLists :
        /\ Len(candidates) \in Nat /\ DOMAIN candidates = 1..Len(candidates)
        /\ \A c \in ToSet(candidates) : {c.id, c.priority, c.weight} \subseteq Int
ASSUME RequestFamiliesAssumption == RequestFamilies \subseteq Families

VARIABLES now,        \* r.now()
          fleet,      \* windows of the credentials in the cache, by auth ID
          overage,    \* overage-fallback-enabled
          rejection   \* the last rejection: what was asked, when, and the advice

vars == <<now, fleet, overage, rejection>>

-----------------------------------------------------------------------------
(* Requests *)

NoRejection == [by |-> "none"]

Rejection(by, reply, candidates, family) ==
    [by |-> by, at |-> now, delay |-> reply.delay, candidates |-> candidates, family |-> family]

Init ==
    /\ now = 1
    /\ fleet \in Fleets
    /\ overage \in BOOLEAN
    /\ rejection = NoRejection

GateRequest(family) ==
    /\ ~overage
    /\ LET reply == Gate(fleet, family, now, Cutoff)
       IN  /\ reply.kind = "reject"
           /\ rejection' = Rejection("gate", reply, <<>>, family)
    /\ UNCHANGED <<now, fleet, overage>>

PickRequest(candidates, family) ==
    /\ LET reply == Pick(fleet, candidates, family, now, overage, DOMAIN fleet, Cutoff)
       IN  /\ reply.kind = "reject"
           /\ rejection' = Rejection("pick", reply, candidates, family)
    /\ UNCHANGED <<now, fleet, overage>>

Tick ==
    /\ now < MaxNow
    /\ now' = now + 1
    /\ UNCHANGED <<fleet, overage, rejection>>

Next ==
    \/ \E family \in RequestFamilies : GateRequest(family)
    \/ \E candidates \in CandidateLists, family \in RequestFamilies :
           PickRequest(candidates, family)
    \/ Tick

Spec == Init /\ [][Next]_vars

-----------------------------------------------------------------------------
(* Properties *)

TypeOK ==
    /\ now \in 1..MaxNow
    /\ fleet \in Fleets
    /\ overage \in BOOLEAN
    /\ \/ rejection = NoRejection
       \/ /\ rejection.by \in {"gate", "pick"}
          /\ rejection.at \in 1..now
          /\ rejection.delay \in (Nat \ {0}) \cup {NoDelay}

Advised == rejection # NoRejection /\ rejection.delay # NoDelay
RetryInstant == rejection.at + rejection.delay * Second

\* The gate, unlike pick, also advises a delay that time.Time.Sub saturated.
Saturated ==
    /\ rejection.by = "gate"
    /\ EarliestRecovery(fleet, rejection.family, rejection.at, Cutoff) - rejection.at > MaxDuration

\* A client that was rejected with a retry delay and comes back after it is
\* served if nothing else changed: the gate lets it pass, and pick finds a
\* free credential among the same candidates (scheduler.go and runtime.go
\* compute the two delays separately, from windows with different resets).
RetryAdviceHonest ==
    Advised /\ ~Saturated /\ now >= RetryInstant =>
        IF rejection.by = "gate"
        THEN Gate(fleet, rejection.family, now, Cutoff).kind = "pass"
        ELSE Pick(fleet, rejection.candidates, rejection.family, now, FALSE, {}, Cutoff).kind = "route"

\* The advice is not padded: a client that comes back a whole second before
\* the advised instant, or earlier, is rejected again.
RetryAdviceTight ==
    Advised /\ now + Second <= RetryInstant =>
        IF rejection.by = "gate"
        THEN Gate(fleet, rejection.family, now, Cutoff).kind = "reject"
        ELSE Pick(fleet, rejection.candidates, rejection.family, now, FALSE, {}, Cutoff).kind = "reject"

\* pick is the backstop of the gate: whenever the gate rejects, pick rejects
\* whatever cached candidates the host offers, and never advises coming back
\* sooner than the gate does.
BackstopAgrees ==
    \A family \in RequestFamilies, candidates \in CandidateLists :
        LET gate == Gate(fleet, family, now, Cutoff)
            reply == Pick(fleet, candidates, family, now, FALSE, {}, Cutoff)
        IN  gate.kind = "reject" /\ {c.id : c \in ToSet(candidates)} \subseteq DOMAIN fleet =>
                /\ reply.kind \in {"reject", "unhandled"}
                /\ reply.delay # NoDelay => reply.delay >= gate.delay

\* What the comments of pick promise, said without its loop: a free
\* candidate, if there is one, and the one that priority, weight and ID put
\* first; billable overage only when it is enabled and every candidate is
\* confirmed over the cutoff; otherwise a rejection.
Outranks(c, d) ==
    \/ c.priority > d.priority
    \/ c.priority = d.priority /\ CandidateWeight(c) > CandidateWeight(d)
    \/ c.priority = d.priority /\ CandidateWeight(c) = CandidateWeight(d) /\ c.id <= d.id

FirstOf(id, S) == \E c \in S : c.id = id /\ \A d \in S : Outranks(c, d)

PickMeetsPolicy ==
    \A family \in RequestFamilies, candidates \in CandidateLists :
        LET reply == Pick(fleet, candidates, family, now, overage, DOMAIN fleet, Cutoff)
            offered == {c \in ToSet(candidates) : c.claude}
            unknown == {c \in offered : c.id \notin DOMAIN fleet
                                           \/ ~fleet[c.id]["five_hour"].valid}
            exhausted == {c \in offered \ unknown :
                            \E s \in Applicable(family) : Blocks(fleet[c.id][s], now, Cutoff)}
            free == offered \ (unknown \cup exhausted)
        IN  CASE free # {} -> reply.kind = "route" /\ FirstOf(reply.id, free)
              [] free = {} /\ offered # {} /\ unknown = {} /\ overage ->
                    reply.kind = "overage" /\ FirstOf(reply.id, offered)
              [] free = {} /\ offered # {} /\ ~(unknown = {} /\ overage) -> reply.kind = "reject"
              [] OTHER -> reply.kind = "unhandled"
=============================================================================
