-------------------------- MODULE SchedulerProofs ---------------------------
(***************************************************************************)
(* The retry advice of the gate and of pick, how the one backs up the      *)
(* other, and which candidate pick takes, for every fleet, candidate list  *)
(* and clock.                                                              *)
(***************************************************************************)
EXTENDS Scheduler, QuotaWindowsProofs

-----------------------------------------------------------------------------
(* The gate *)

\* A whole number of seconds is a whole number of ticks.
LEMMA SecondsAreTicks == ASSUME NEW n \in Nat PROVE n * Second \in Nat
BY SecondAssumption

\* What the gate advises reaches the recovery of the fleet, and is at least a
\* second, unless time.Time.Sub saturated.
LEMMA GateRetryReaches ==
    ASSUME NEW at \in Nat, NEW resetAt \in Nat, at < resetAt, resetAt - at <= MaxDuration
    PROVE  /\ GateRetryAfter(at, resetAt) \in Nat
           /\ at + GateRetryAfter(at, resetAt) * Second >= resetAt
<1> DEFINE delay == resetAt - at
           seconds == Ceiling(delay)
<1>1. delay \in Nat /\ delay > 0 /\ SaturatedDelay(at, resetAt) = delay
  BY MaxDurationAssumption DEF SaturatedDelay
<1> HIDE DEF delay
<1>2. seconds \in Nat /\ seconds >= 1 /\ seconds * Second >= delay
  BY <1>1, CeilingRoundsUp
<1>3. GateRetryAfter(at, resetAt) = seconds
  BY <1>1, <1>2 DEF GateRetryAfter
<1> HIDE DEF seconds
<1>4. seconds * Second \in Nat
  BY <1>2, SecondsAreTicks
<1>. QED
  BY <1>2, <1>3, <1>4 DEF delay

\* Whoever comes back at or after the advised instant passes the gate.
LEMMA GateAdvice ==
    ASSUME NEW held, IsFleet(held), NEW family \in Families, NEW at \in Nat,
           Gate(held, family, at, Cutoff).kind = "reject",
           EarliestRecovery(held, family, at, Cutoff) - at <= MaxDuration,
           NEW t \in Nat, t >= at + Gate(held, family, at, Cutoff).delay * Second
    PROVE  Gate(held, family, t, Cutoff).kind = "pass"
<1> DEFINE earliest == EarliestRecovery(held, family, at, Cutoff)
           delay == GateRetryAfter(at, earliest)
<1>1. FleetExhausted(held, family, at, Cutoff) /\ Gate(held, family, at, Cutoff).delay = delay
  BY DEF Gate, Reply
<1>2. earliest \in Nat /\ at < earliest
  BY <1>1, FleetRecoveryExact, CutoffAssumption
<1>3. delay \in Nat /\ at + delay * Second >= earliest
  BY <1>2, GateRetryReaches
<1>4. t >= earliest
  <2>1. t >= at + delay * Second
    BY <1>1
  <2>2. delay * Second \in Nat
    BY <1>3, SecondsAreTicks
  <2> HIDE DEF delay, earliest
  <2>. QED
    BY <1>2, <1>3, <2>1, <2>2
<1>5. ~FleetExhausted(held, family, t, Cutoff)
  BY <1>1, <1>2, <1>4, FleetRecoveryExact, CutoffAssumption
<1>. QED
  BY <1>5 DEF Gate, Reply

\* A delay is rounded up by less than a second, and one that is not longer
\* is not rounded to more.
LEMMA CeilingMonotone ==
    ASSUME NEW d \in Nat, NEW e \in Nat, d <= e
    PROVE  Ceiling(d) <= Ceiling(e)
<1> DEFINE a == Ceiling(d)
           b == Ceiling(e)
<1>1. /\ a \in Nat /\ b \in Nat
      /\ a * Second < d + Second /\ e <= b * Second
  BY CeilingRoundsUp
<1>2. Second \in Nat /\ Second > 0 /\ a * Second \in Nat /\ b * Second \in Nat
  BY <1>1, SecondAssumption, SecondsAreTicks
<1> HIDE DEF a, b
<1>3. a * Second < b * Second + Second
  BY <1>1, <1>2
<1>4. a >= b + 1 => a * Second >= b * Second + Second
  <2> SUFFICES ASSUME a >= b + 1 PROVE a * Second >= b * Second + Second
    OBVIOUS
  <2>1. PICK c \in Nat : a = b + 1 + c
    <3>1. a - b - 1 \in Nat /\ a = b + 1 + (a - b - 1)
      BY <1>1
    <3>. QED
      BY <3>1
  <2>2. a * Second = b * Second + Second + c * Second
    BY <1>1, <1>2, <2>1
  <2>3. c * Second \in Nat
    BY SecondsAreTicks
  <2>. QED
    BY <1>2, <2>2, <2>3
<1>5. a <= b
  BY <1>1, <1>2, <1>3, <1>4
<1>. QED
  BY <1>5 DEF a, b

\* What the gate advises is at least a second, and not a second too much:
\* whoever comes back a whole second earlier comes before the reset.
LEMMA GateRetryTight ==
    ASSUME NEW at \in Nat, NEW resetAt \in Nat, at < resetAt
    PROVE  /\ GateRetryAfter(at, resetAt) \in Nat \ {0}
           /\ \A t \in Nat : t + Second <= at + GateRetryAfter(at, resetAt) * Second => t < resetAt
<1> DEFINE delay == SaturatedDelay(at, resetAt)
           seconds == Ceiling(delay)
<1>1. delay \in Nat /\ at + delay <= resetAt
  BY MaxDurationAssumption DEF SaturatedDelay
<1> HIDE DEF delay
<1>2. seconds \in Nat /\ seconds * Second < delay + Second
  BY <1>1, CeilingRoundsUp
<1>3. GateRetryAfter(at, resetAt) = IF seconds < 1 THEN 1 ELSE seconds
  BY DEF GateRetryAfter, delay
<1> HIDE DEF seconds
<1>4. seconds * Second \in Nat /\ Second \in Nat /\ 1 * Second = Second
  BY <1>2, SecondsAreTicks, SecondAssumption
<1>5. ASSUME NEW t \in Nat, t + Second <= at + GateRetryAfter(at, resetAt) * Second
      PROVE  t < resetAt
  <2>1. CASE seconds < 1
    BY <1>3, <1>4, <1>5, <2>1
  <2>2. CASE seconds >= 1
    BY <1>1, <1>2, <1>3, <1>4, <1>5, <2>2
  <2>. QED
    BY <1>2, <2>1, <2>2
<1>. QED
  BY <1>2, <1>3, <1>5

\* Whoever comes back a second before the advised instant is rejected again.
LEMMA GateStaysShut ==
    ASSUME NEW held, IsFleet(held), NEW family \in Families, NEW at \in Nat,
           Gate(held, family, at, Cutoff).kind = "reject",
           NEW t \in Nat, t >= at, t + Second <= at + Gate(held, family, at, Cutoff).delay * Second
    PROVE  Gate(held, family, t, Cutoff).kind = "reject"
<1> DEFINE earliest == EarliestRecovery(held, family, at, Cutoff)
<1>1. /\ FleetExhausted(held, family, at, Cutoff)
      /\ Gate(held, family, at, Cutoff).delay = GateRetryAfter(at, earliest)
  BY DEF Gate, Reply
<1>2. earliest \in Nat /\ at < earliest
  BY <1>1, FleetRecoveryExact, CutoffAssumption
<1>3. t < earliest
  <2> HIDE DEF earliest
  <2>. QED
    BY <1>1, <1>2, GateRetryTight
<1>4. FleetExhausted(held, family, t, Cutoff)
  BY <1>1, <1>3, FleetRecoveryExact, CutoffAssumption
<1>. QED
  BY <1>4 DEF Gate, Reply

-----------------------------------------------------------------------------
(* pick *)

ClaudeOf(candidates) == {c \in ToSet(candidates) : c.claude}
IdsOf(candidates) == {c.id : c \in ClaudeOf(candidates)}
FreeOf(held, candidates, family, t) ==
    {c \in ClaudeOf(candidates) : ~ExcludedCandidate(held, c.id, family, t, Cutoff)}

\* The replies that retry advice is about.
LEMMA PickKinds ==
    ASSUME NEW held, NEW candidates, NEW family, NEW t, NEW fallback, NEW due
    PROVE  LET reply == Pick(held, candidates, family, t, fallback, due, Cutoff)
           IN  /\ reply.kind \notin {"reject"} => reply.delay = NoDelay
               /\ FreeOf(held, candidates, family, t) # {} => reply.kind = "route"
               /\ fallback = FALSE /\ FreeOf(held, candidates, family, t) = {} =>
                     reply.kind = IF ClaudeOf(candidates) = {} THEN "unhandled" ELSE "reject"
               /\ reply.kind = "reject" =>
                     /\ ClaudeOf(candidates) # {}
                     /\ reply.delay = PickDelay(held, IdsOf(candidates), family, t, Cutoff)
<1> DEFINE reply == Pick(held, candidates, family, t, fallback, due, Cutoff)
           claude == ClaudeOf(candidates)
           free == FreeOf(held, candidates, family, t)
<1>1. free # {} => claude # {}
  BY DEF FreeOf
<1>2. CASE claude = {}
  BY <1>1, <1>2 DEF Pick, Reply, ClaudeOf, FreeOf, IdsOf
<1>3. CASE free # {}
  BY <1>1, <1>3 DEF Pick, Reply, ClaudeOf, FreeOf, IdsOf
<1>4. CASE claude # {} /\ free = {}
  BY <1>4 DEF Pick, Reply, ClaudeOf, FreeOf, IdsOf
<1>. QED
  BY <1>2, <1>3, <1>4

\* The delay that pick advises is that of the earliest recovery among the
\* candidates, as a fleet, rounded up to a whole second.
LEMMA PickDelayExact ==
    ASSUME NEW held, IsFleet(held), NEW ids, ids # {}, NEW family \in Families, NEW at \in Nat,
           PickDelay(held, ids, family, at, Cutoff) # NoDelay
    PROVE  LET asked == [id \in ids |-> held[id]]
               earliest == EarliestRecovery(asked, family, at, Cutoff)
               delay == PickDelay(held, ids, family, at, Cutoff)
           IN  /\ \A id \in ids : id \in DOMAIN held /\ RecoveryKnown(held[id], family, at, Cutoff)
               /\ IsFleet(asked) /\ FleetExhausted(asked, family, at, Cutoff)
               /\ earliest \in Nat /\ at < earliest
               /\ delay = ResetRetryAfterSeconds(at, earliest, TRUE)
               /\ delay \in Nat /\ delay >= 1
               /\ at + delay * Second >= earliest
               /\ at + delay * Second < earliest + Second
<1> DEFINE asked == [id \in ids |-> held[id]]
           earliest == EarliestRecovery(asked, family, at, Cutoff)
           delay == ResetRetryAfterSeconds(at, earliest, TRUE)
<1>1. /\ \A id \in ids : id \in DOMAIN held /\ RecoveryKnown(held[id], family, at, Cutoff)
      /\ PickDelay(held, ids, family, at, Cutoff) = delay
  BY DEF PickDelay
<1>2. IsFleet(asked) /\ FleetExhausted(asked, family, at, Cutoff)
  BY <1>1 DEF IsFleet, FleetExhausted
<1>3. earliest \in Nat /\ at < earliest
  BY <1>2, FleetRecoveryExact, CutoffAssumption
<1>4. /\ delay \in Nat /\ delay >= 1
      /\ at + delay * Second >= earliest
      /\ at + delay * Second < earliest + Second
  <2>1. delay # NoDelay
    BY <1>1
  <2> HIDE DEF earliest
  <2>. QED
    BY <1>3, <2>1, RetryAfterReliable
<1>. QED
  BY <1>1, <1>2, <1>3, <1>4

\* Whoever comes back at or after the advised instant finds a free candidate.
LEMMA PickAdvice ==
    ASSUME NEW held, IsFleet(held), NEW candidates, NEW family \in Families, NEW at \in Nat,
           NEW fallback, NEW due,
           Pick(held, candidates, family, at, fallback, due, Cutoff).kind = "reject",
           Pick(held, candidates, family, at, fallback, due, Cutoff).delay # NoDelay,
           NEW t \in Nat,
           t >= at + Pick(held, candidates, family, at, fallback, due, Cutoff).delay * Second
    PROVE  Pick(held, candidates, family, t, FALSE, {}, Cutoff).kind = "route"
<1> DEFINE ids == IdsOf(candidates)
           asked == [id \in ids |-> held[id]]
           earliest == EarliestRecovery(asked, family, at, Cutoff)
           delay == PickDelay(held, ids, family, at, Cutoff)
<1>1. ids # {} /\ delay # NoDelay /\ t >= at + delay * Second
  BY PickKinds DEF IdsOf
<1>2. /\ \A id \in ids : id \in DOMAIN held /\ RecoveryKnown(held[id], family, at, Cutoff)
      /\ IsFleet(asked) /\ FleetExhausted(asked, family, at, Cutoff)
      /\ earliest \in Nat /\ at < earliest
      /\ delay \in Nat /\ at + delay * Second >= earliest
  BY <1>1, PickDelayExact
<1>3. t >= earliest
  <2>1. delay * Second \in Nat
    BY <1>2, SecondsAreTicks
  <2> HIDE DEF delay, earliest
  <2>. QED
    BY <1>1, <1>2, <2>1
<1>4. ~FleetExhausted(asked, family, t, Cutoff)
  BY <1>2, <1>3, FleetRecoveryExact, CutoffAssumption
<1>5. PICK id \in ids : ~RecoveryKnown(held[id], family, t, Cutoff)
  BY <1>1, <1>4 DEF FleetExhausted
<1>6. ~Excluded(held[id], family, t, Cutoff)
  <2>1. held[id] \in Batches /\ RecoveryKnown(held[id], family, at, Cutoff) /\ t >= at
    BY <1>2, <1>3 DEF IsFleet
  <2>. QED
    BY <1>5, <2>1, RecoveryExact, CutoffAssumption
<1>7. PICK c \in ClaudeOf(candidates) : c.id = id
  BY DEF IdsOf
<1>8. c \in FreeOf(held, candidates, family, t)
  BY <1>2, <1>6, <1>7 DEF FreeOf, ExcludedCandidate
<1>. QED
  BY <1>8, PickKinds

\* No candidate is free while all that are Claude's wait for a known reset.
LEMMA NoneFree ==
    ASSUME NEW held, NEW candidates, NEW family, NEW t,
           \A id \in IdsOf(candidates) : RecoveryKnown(held[id], family, t, Cutoff)
    PROVE  FreeOf(held, candidates, family, t) = {}
<1> SUFFICES ASSUME NEW c \in FreeOf(held, candidates, family, t) PROVE FALSE
  OBVIOUS
<1>1. c.id \in IdsOf(candidates) /\ ~Excluded(held[c.id], family, t, Cutoff)
  BY DEF FreeOf, IdsOf, ExcludedCandidate
<1>. QED
  BY <1>1 DEF RecoveryKnown, ConfirmedExhausted, Excluded

\* Whoever comes back a second before the advised instant finds none.
LEMMA PickStaysShut ==
    ASSUME NEW held, IsFleet(held), NEW candidates, NEW family \in Families, NEW at \in Nat,
           NEW fallback, NEW due,
           Pick(held, candidates, family, at, fallback, due, Cutoff).kind = "reject",
           Pick(held, candidates, family, at, fallback, due, Cutoff).delay # NoDelay,
           NEW t \in Nat, t >= at,
           t + Second <= at + Pick(held, candidates, family, at, fallback, due, Cutoff).delay * Second
    PROVE  Pick(held, candidates, family, t, FALSE, {}, Cutoff).kind = "reject"
<1> DEFINE ids == IdsOf(candidates)
           asked == [id \in ids |-> held[id]]
           earliest == EarliestRecovery(asked, family, at, Cutoff)
           delay == PickDelay(held, ids, family, at, Cutoff)
<1>1. /\ ClaudeOf(candidates) # {} /\ ids # {}
      /\ delay # NoDelay /\ t + Second <= at + delay * Second
  BY PickKinds DEF IdsOf
<1>2. /\ IsFleet(asked) /\ FleetExhausted(asked, family, at, Cutoff)
      /\ earliest \in Nat /\ at < earliest
      /\ delay \in Nat /\ at + delay * Second < earliest + Second
  BY <1>1, PickDelayExact
<1>3. t < earliest
  <2>1. delay * Second \in Nat /\ Second \in Nat
    BY <1>2, SecondsAreTicks, SecondAssumption
  <2> HIDE DEF delay, earliest
  <2>. QED
    BY <1>1, <1>2, <2>1
<1>4. FleetExhausted(asked, family, t, Cutoff)
  BY <1>2, <1>3, FleetRecoveryExact, CutoffAssumption
<1>5. \A id \in ids : RecoveryKnown(held[id], family, t, Cutoff)
  BY <1>4 DEF FleetExhausted
<1>6. FreeOf(held, candidates, family, t) = {}
  BY <1>5, NoneFree
<1>. QED
  BY <1>1, <1>6, PickKinds

\* A part of an exhausted fleet recovers no earlier than the whole.
LEMMA PartRecoversLater ==
    ASSUME NEW held, IsFleet(held), NEW ids, ids # {}, ids \subseteq DOMAIN held,
           NEW family \in Families, NEW t \in Nat, FleetExhausted(held, family, t, Cutoff)
    PROVE  LET asked == [id \in ids |-> held[id]]
           IN  EarliestRecovery(held, family, t, Cutoff) <= EarliestRecovery(asked, family, t, Cutoff)
<1> DEFINE asked == [id \in ids |-> held[id]]
           all == {RecoveryAt(held[id], family, t, Cutoff) : id \in DOMAIN held}
           some == {RecoveryAt(asked[id], family, t, Cutoff) : id \in DOMAIN asked}
<1>1. all \subseteq Nat
  BY RecoveryIsLastReset, CutoffAssumption DEF FleetExhausted, IsFleet
<1>2. some \subseteq all /\ some # {}
  OBVIOUS
<1>3. EarliestRecovery(held, family, t, Cutoff) = Min(all)
      /\ EarliestRecovery(asked, family, t, Cutoff) = Min(some)
  BY DEF EarliestRecovery
<1> HIDE DEF all, some, asked
<1>4. Min(some) \in some /\ \A x \in all : Min(all) <= x
  BY <1>1, <1>2, MinOfNaturals
<1>. QED
  BY <1>2, <1>3, <1>4 DEF asked

\* When the gate rejects, pick would too, and would not advise less.
LEMMA PickBacksGate ==
    ASSUME NEW held, IsFleet(held), NEW candidates, NEW family \in Families, NEW t \in Nat,
           Gate(held, family, t, Cutoff).kind = "reject",
           {c.id : c \in ToSet(candidates)} \subseteq DOMAIN held
    PROVE  LET reply == Pick(held, candidates, family, t, FALSE, {}, Cutoff)
           IN  /\ reply.kind \in {"reject", "unhandled"}
               /\ reply.delay # NoDelay => reply.delay >= Gate(held, family, t, Cutoff).delay
<1> DEFINE reply == Pick(held, candidates, family, t, FALSE, {}, Cutoff)
           ids == IdsOf(candidates)
           asked == [id \in ids |-> held[id]]
           whole == EarliestRecovery(held, family, t, Cutoff)
           part == EarliestRecovery(asked, family, t, Cutoff)
<1>1. /\ FleetExhausted(held, family, t, Cutoff)
      /\ Gate(held, family, t, Cutoff).delay = GateRetryAfter(t, whole)
  BY DEF Gate, Reply
<1>2. ids \subseteq DOMAIN held
  BY DEF IdsOf, ClaudeOf
<1>3. FreeOf(held, candidates, family, t) = {}
  BY <1>1, <1>2, NoneFree DEF FleetExhausted
<1>4. reply.kind \in {"reject", "unhandled"}
  BY <1>3, PickKinds
<1>5. ASSUME reply.delay # NoDelay PROVE reply.delay >= GateRetryAfter(t, whole)
  <2>1. /\ reply.kind = "reject" /\ ids # {}
        /\ reply.delay = PickDelay(held, ids, family, t, Cutoff)
    BY <1>5, PickKinds DEF IdsOf
  <2> HIDE DEF reply
  <2>2. /\ part \in Nat /\ t < part
        /\ reply.delay = ResetRetryAfterSeconds(t, part, TRUE)
        /\ reply.delay \in Nat /\ reply.delay >= 1
    BY <1>5, <2>1, PickDelayExact
  <2>3. whole \in Nat /\ t < whole
    BY <1>1, FleetRecoveryExact, CutoffAssumption
  <2>4. whole <= part
    BY <1>1, <1>2, <2>1, PartRecoversLater
  <2> HIDE DEF whole, part, ids, asked
  <2> DEFINE short == SaturatedDelay(t, whole)
             long == SaturatedDelay(t, part)
  <2>5. short \in Nat /\ long \in Nat /\ short <= long
    BY <2>2, <2>3, <2>4, MaxDurationAssumption DEF SaturatedDelay
  <2>6. reply.delay = Ceiling(long)
    BY <1>5, <2>2 DEF ResetRetryAfterSeconds
  <2>7. GateRetryAfter(t, whole) = IF Ceiling(short) < 1 THEN 1 ELSE Ceiling(short)
    BY DEF GateRetryAfter
  <2> HIDE DEF short, long
  <2>8. Ceiling(short) \in Nat /\ Ceiling(short) <= Ceiling(long)
    BY <2>5, CeilingMonotone, CeilingRoundsUp
  <2>9. GateRetryAfter(t, whole) \in {1, Ceiling(short)}
    BY <2>7
  <2>. QED
    BY <2>2, <2>6, <2>8, <2>9
<1>. QED
  BY <1>1, <1>4, <1>5

-----------------------------------------------------------------------------
(* The state machine *)

\* The fleet and the overage option do not change, so that the last rejection
\* is what the gate or pick answered then, and would answer again.
RejectionRecalled ==
    \/ rejection = NoRejection
    \/ /\ rejection.by = "gate"
       /\ rejection.at \in Nat /\ rejection.at <= now /\ rejection.family \in Families
       /\ Gate(fleet, rejection.family, rejection.at, Cutoff).kind = "reject"
       /\ rejection.delay = Gate(fleet, rejection.family, rejection.at, Cutoff).delay
    \/ /\ rejection.by = "pick"
       /\ rejection.at \in Nat /\ rejection.at <= now /\ rejection.family \in Families
       /\ LET reply == Pick(fleet, rejection.candidates, rejection.family, rejection.at,
                            overage, DOMAIN fleet, Cutoff)
          IN  reply.kind = "reject" /\ rejection.delay = reply.delay

AdviceInv == now \in Nat /\ fleet \in Fleets /\ RejectionRecalled

\* Every step keeps the record of the last rejection true.
LEMMA AdviceInductive == AdviceInv /\ [Next]_vars => AdviceInv'
<1> SUFFICES ASSUME AdviceInv, [Next]_vars PROVE AdviceInv'
  OBVIOUS
<1>1. ASSUME NEW family \in RequestFamilies, GateRequest(family) PROVE AdviceInv'
  <2>1. /\ rejection'.by = "gate" /\ rejection'.at = now /\ rejection'.family = family
        /\ rejection'.delay = Gate(fleet, family, now, Cutoff).delay
    BY <1>1 DEF GateRequest, Rejection
  <2>2. Gate(fleet, family, now, Cutoff).kind = "reject" /\ UNCHANGED <<now, fleet, overage>>
    BY <1>1 DEF GateRequest
  <2>. QED
    BY <2>1, <2>2, RequestFamiliesAssumption DEF AdviceInv, RejectionRecalled
<1>2. ASSUME NEW candidates \in CandidateLists, NEW family \in RequestFamilies,
             PickRequest(candidates, family)
      PROVE  AdviceInv'
  <2> DEFINE reply == Pick(fleet, candidates, family, now, overage, DOMAIN fleet, Cutoff)
  <2>1. /\ rejection'.by = "pick" /\ rejection'.at = now /\ rejection'.family = family
        /\ rejection'.candidates = candidates /\ rejection'.delay = reply.delay
    BY <1>2 DEF PickRequest, Rejection
  <2>2. reply.kind = "reject" /\ UNCHANGED <<now, fleet, overage>>
    BY <1>2 DEF PickRequest
  <2>. QED
    BY <2>1, <2>2, RequestFamiliesAssumption DEF AdviceInv, RejectionRecalled
<1>3. CASE Tick
  <2>1. now' = now + 1 /\ UNCHANGED <<fleet, overage, rejection>>
    BY <1>3 DEF Tick
  <2>2. rejection.at \in Nat /\ rejection.at <= now => rejection.at <= now'
    BY <2>1 DEF AdviceInv
  <2>. QED
    BY <2>1, <2>2 DEF AdviceInv, RejectionRecalled
<1>4. CASE UNCHANGED vars
  BY <1>4 DEF vars, AdviceInv, RejectionRecalled
<1>. QED
  BY <1>1, <1>2, <1>3, <1>4 DEF Next

\* The record of the last rejection tells that its advice is good.
LEMMA AdviceHolds == AdviceInv => RetryAdviceHonest
<1> SUFFICES ASSUME AdviceInv, Advised, ~Saturated, now >= RetryInstant
             PROVE  IF rejection.by = "gate"
                    THEN Gate(fleet, rejection.family, now, Cutoff).kind = "pass"
                    ELSE Pick(fleet, rejection.candidates, rejection.family, now, FALSE, {}, Cutoff).kind
                            = "route"
  BY DEF RetryAdviceHonest
<1>1. IsFleet(fleet) /\ now \in Nat
  BY FleetsAssumption DEF AdviceInv, IsFleet, Batches, WindowRecords
<1>2. rejection # NoRejection /\ rejection.delay # NoDelay
  BY DEF Advised
<1>3. CASE rejection.by = "gate"
  <2>1. /\ rejection.at \in Nat /\ rejection.family \in Families
        /\ Gate(fleet, rejection.family, rejection.at, Cutoff).kind = "reject"
        /\ rejection.delay = Gate(fleet, rejection.family, rejection.at, Cutoff).delay
    BY <1>2, <1>3 DEF AdviceInv, RejectionRecalled
  <2>2. EarliestRecovery(fleet, rejection.family, rejection.at, Cutoff) \in Nat
    BY <1>1, <2>1, FleetRecoveryExact, CutoffAssumption DEF Gate, Reply
  <2>3. EarliestRecovery(fleet, rejection.family, rejection.at, Cutoff) - rejection.at
           <= MaxDuration
    BY <1>3, <2>1, <2>2, MaxDurationAssumption DEF Saturated
  <2>4. now >= rejection.at + Gate(fleet, rejection.family, rejection.at, Cutoff).delay * Second
    BY <2>1 DEF RetryInstant
  <2>5. Gate(fleet, rejection.family, now, Cutoff).kind = "pass"
    BY <1>1, <2>1, <2>3, <2>4, GateAdvice
  <2>. QED
    BY <1>3, <2>5
<1>4. CASE rejection.by # "gate"
  <2> DEFINE reply == Pick(fleet, rejection.candidates, rejection.family, rejection.at,
                           overage, DOMAIN fleet, Cutoff)
  <2>1. /\ rejection.at \in Nat /\ rejection.family \in Families
        /\ reply.kind = "reject" /\ rejection.delay = reply.delay
    BY <1>2, <1>4 DEF AdviceInv, RejectionRecalled
  <2>2. reply.delay # NoDelay /\ now >= rejection.at + reply.delay * Second
    BY <1>2, <2>1 DEF RetryInstant
  <2>3. Pick(fleet, rejection.candidates, rejection.family, now, FALSE, {}, Cutoff).kind = "route"
    BY <1>1, <2>1, <2>2, PickAdvice
  <2>. QED
    BY <1>4, <2>3
<1>. QED
  BY <1>3, <1>4

(***************************************************************************)
(* A client that comes back at the advised instant or later is served,     *)
(* whatever the fleet, the candidates, the family and the cutoff, as long  *)
(* as no new evidence arrives.  (interceptBeforeAuth and pick.)            *)
(***************************************************************************)
THEOREM AdviceIsHonest == Spec => []RetryAdviceHonest
<1>1. Init => AdviceInv
  BY DEF Init, AdviceInv, RejectionRecalled
<1>. QED
  BY <1>1, AdviceInductive, AdviceHolds, PTL DEF Spec

\* Every rejection recorded was made before now, with no advice or with one
\* of at least a second.
LEMMA TypeInductive == TypeOK /\ [Next]_vars => TypeOK'
<1> SUFFICES ASSUME TypeOK, [Next]_vars PROVE TypeOK'
  OBVIOUS
<1>0. now \in Nat \ {0} /\ now \in 1..MaxNow /\ IsFleet(fleet)
  BY MaxNowAssumption, FleetsAssumption DEF TypeOK, IsFleet, Batches, WindowRecords
<1>1. ASSUME NEW family \in RequestFamilies, GateRequest(family) PROVE TypeOK'
  <2> DEFINE earliest == EarliestRecovery(fleet, family, now, Cutoff)
  <2>1. /\ rejection' # NoRejection /\ rejection'.by = "gate" /\ rejection'.at = now
        /\ rejection'.delay = GateRetryAfter(now, earliest)
        /\ FleetExhausted(fleet, family, now, Cutoff)
        /\ UNCHANGED <<now, fleet, overage>>
    BY <1>1 DEF GateRequest, Gate, Reply, Rejection, NoRejection
  <2>2. earliest \in Nat /\ now < earliest
    BY <1>0, <2>1, FleetRecoveryExact, CutoffAssumption, RequestFamiliesAssumption
  <2> HIDE DEF earliest
  <2>3. GateRetryAfter(now, earliest) \in Nat \ {0}
    BY <1>0, <2>2, GateRetryTight
  <2>. QED
    BY <1>0, <2>1, <2>3 DEF TypeOK
<1>2. ASSUME NEW candidates \in CandidateLists, NEW family \in RequestFamilies,
             PickRequest(candidates, family)
      PROVE  TypeOK'
  <2> DEFINE reply == Pick(fleet, candidates, family, now, overage, DOMAIN fleet, Cutoff)
             ids == IdsOf(candidates)
  <2>1. /\ rejection'.by = "pick" /\ rejection'.at = now /\ rejection'.delay = reply.delay
        /\ reply.kind = "reject" /\ UNCHANGED <<now, fleet, overage>>
    BY <1>2 DEF PickRequest, Rejection
  <2>2. reply.delay = PickDelay(fleet, ids, family, now, Cutoff) /\ ids # {}
    BY <2>1, PickKinds DEF IdsOf
  <2> HIDE DEF reply, ids
  <2>3. reply.delay # NoDelay => reply.delay \in Nat /\ reply.delay >= 1
    BY <1>0, <2>2, PickDelayExact, RequestFamiliesAssumption
  <2>. QED
    BY <1>0, <2>1, <2>3 DEF TypeOK
<1>3. CASE Tick
  <2>1. now' = now + 1 /\ now' \in 1..MaxNow /\ UNCHANGED <<fleet, overage, rejection>>
    BY <1>0, <1>3, MaxNowAssumption DEF Tick
  <2>2. \A at \in 1..now : at \in 1..now'
    BY <1>0, <2>1
  <2>. QED
    BY <2>1, <2>2 DEF TypeOK
<1>4. CASE UNCHANGED vars
  BY <1>4 DEF vars, TypeOK
<1>. QED
  BY <1>1, <1>2, <1>3, <1>4 DEF Next

\* The advice on record would be given again until a second before its end.
LEMMA AdviceTight == AdviceInv => RetryAdviceTight
<1> SUFFICES ASSUME AdviceInv, Advised, now + Second <= RetryInstant
             PROVE  IF rejection.by = "gate"
                    THEN Gate(fleet, rejection.family, now, Cutoff).kind = "reject"
                    ELSE Pick(fleet, rejection.candidates, rejection.family, now, FALSE, {}, Cutoff).kind
                            = "reject"
  BY DEF RetryAdviceTight
<1>1. IsFleet(fleet) /\ now \in Nat
  BY FleetsAssumption DEF AdviceInv, IsFleet, Batches, WindowRecords
<1>2. rejection # NoRejection /\ rejection.delay # NoDelay
  BY DEF Advised
<1>3. CASE rejection.by = "gate"
  <2>1. /\ rejection.at \in Nat /\ now >= rejection.at /\ rejection.family \in Families
        /\ Gate(fleet, rejection.family, rejection.at, Cutoff).kind = "reject"
        /\ rejection.delay = Gate(fleet, rejection.family, rejection.at, Cutoff).delay
    BY <1>1, <1>2, <1>3 DEF AdviceInv, RejectionRecalled
  <2>2. now + Second
           <= rejection.at + Gate(fleet, rejection.family, rejection.at, Cutoff).delay * Second
    BY <2>1 DEF RetryInstant
  <2>3. Gate(fleet, rejection.family, now, Cutoff).kind = "reject"
    BY <1>1, <2>1, <2>2, GateStaysShut
  <2>. QED
    BY <1>3, <2>3
<1>4. CASE rejection.by # "gate"
  <2> DEFINE reply == Pick(fleet, rejection.candidates, rejection.family, rejection.at,
                           overage, DOMAIN fleet, Cutoff)
  <2>1. /\ rejection.at \in Nat /\ now >= rejection.at /\ rejection.family \in Families
        /\ reply.kind = "reject" /\ rejection.delay = reply.delay
    BY <1>1, <1>2, <1>4 DEF AdviceInv, RejectionRecalled
  <2>2. reply.delay # NoDelay /\ now + Second <= rejection.at + reply.delay * Second
    BY <1>2, <2>1 DEF RetryInstant
  <2>3. Pick(fleet, rejection.candidates, rejection.family, now, FALSE, {}, Cutoff).kind = "reject"
    BY <1>1, <2>1, <2>2, PickStaysShut
  <2>. QED
    BY <1>4, <2>3
<1>. QED
  BY <1>3, <1>4

\* Typing: the clock, the fleet and the record of the last rejection stay
\* what they are.
THEOREM SchedulerTypeCorrect == Spec => []TypeOK
<1>1. Init => TypeOK
  BY MaxNowAssumption DEF Init, TypeOK
<1>. QED
  BY <1>1, TypeInductive, PTL DEF Spec

(***************************************************************************)
(* A client that comes back a whole second before the advised instant, or  *)
(* earlier, is rejected again, as long as no new evidence arrives: the     *)
(* advice of interceptBeforeAuth and of pick is not padded.                *)
(***************************************************************************)
THEOREM AdviceIsTight == Spec => []RetryAdviceTight
<1>1. Init => AdviceInv
  BY DEF Init, AdviceInv, RejectionRecalled
<1>. QED
  BY <1>1, AdviceInductive, AdviceTight, PTL DEF Spec

(***************************************************************************)
(* Whenever the gate rejects, pick rejects whatever cached candidates the  *)
(* host offers, and never advises coming back sooner.                      *)
(***************************************************************************)
THEOREM PickIsBackstop == Spec => []BackstopAgrees
<1>1. TypeOK => BackstopAgrees
  <2> SUFFICES ASSUME TypeOK, NEW family \in RequestFamilies, NEW candidates \in CandidateLists,
                      Gate(fleet, family, now, Cutoff).kind = "reject",
                      {c.id : c \in ToSet(candidates)} \subseteq DOMAIN fleet
               PROVE  LET gate == Gate(fleet, family, now, Cutoff)
                          reply == Pick(fleet, candidates, family, now, FALSE, {}, Cutoff)
                      IN  /\ reply.kind \in {"reject", "unhandled"}
                          /\ reply.delay # NoDelay => reply.delay >= gate.delay
    BY DEF BackstopAgrees
  <2>1. IsFleet(fleet) /\ now \in Nat /\ family \in Families
    BY MaxNowAssumption, FleetsAssumption, RequestFamiliesAssumption
    DEF TypeOK, IsFleet, Batches, WindowRecords
  <2>. QED
    BY <2>1, PickBacksGate
<1>. QED
  BY <1>1, SchedulerTypeCorrect, PTL

-----------------------------------------------------------------------------
(* Which candidate pick takes *)

\* The loop of pick, candidate by candidate: f[k] is the running choice after
\* k of them.
ChoiceLoop(f, candidates, n, S) ==
    /\ f[0] = NoCandidate
    /\ \A k \in 1..n : f[k] = Preferred(f[k - 1], candidates[k], S)

\* The candidate whose ID is Chosen.
Choice(candidates, S) ==
    FoldLeft(LAMBDA best, c : Preferred(best, c, S), NoCandidate, candidates)

\* The fold of Chosen is that loop.
LEMMA ChoiceIsLoop ==
    ASSUME NEW n \in Nat, NEW candidates, DOMAIN candidates = 1..n, NEW S
    PROVE  \E f : ChoiceLoop(f, candidates, n, S) /\ f[n] = Choice(candidates, S)
<1> DEFINE V == ToSet(candidates) \cup {NoCandidate}
           step == [p \in (1..n) \X V |-> Preferred(p[2], candidates[p[1]], S)]
           Body(h) == [s \in SUBSET (1..n) |->
                          IF s = {} THEN NoCandidate
                          ELSE Preferred(h[s \ {Max(s)}], candidates[Max(s)], S)]
<1>0. \A k \in 1..n, v \in V : Preferred(v, candidates[k], S) \in V
  BY DEF Preferred, ToSet
<1>1. step \in [(1..n) \X V -> V] /\ NoCandidate \in V
  BY <1>0
<1>2. PICK it \in [SUBSET (1..n) -> V] : Unfolds(it, n, NoCandidate, step)
  <2> HIDE DEF step, V
  <2>. QED
    BY <1>1, SetRecursion
<1> HIDE DEF V
<1>3. it = Body(it)
  <2>1. ASSUME NEW s \in SUBSET (1..n)
        PROVE  it[s] = IF s = {} THEN NoCandidate
                       ELSE Preferred(it[s \ {Max(s)}], candidates[Max(s)], S)
    <3>1. CASE s = {}
      BY <1>2, <3>1 DEF Unfolds
    <3>2. CASE s # {}
      <4>1. s \subseteq 0..n
        OBVIOUS
      <4>2. Max(s) \in 1..n /\ s \ {Max(s)} \in SUBSET (1..n)
        BY <3>2, <4>1, MaxOfBounded
      <4>3. <<Max(s), it[s \ {Max(s)}]>> \in (1..n) \X V
        BY <1>2, <4>2
      <4>4. it[s] = step[<<Max(s), it[s \ {Max(s)}]>>]
        BY <1>2, <3>2 DEF Unfolds
      <4>. QED
        BY <3>2, <4>3, <4>4
    <3>. QED
      BY <3>1, <3>2
  <2>. QED
    BY <1>2, <2>1
<1> DEFINE h == CHOOSE h : h = Body(h)
<1>4. h = Body(h)
  <2> HIDE DEF Body
  <2>. QED
    BY <1>3
<1>5. h[1..n] = Choice(candidates, S)
  BY DEF Choice, FoldLeft, MapThenFoldSet
<1> HIDE DEF h
<1> DEFINE f == [k \in 0..n |-> h[1..k]]
<1>6. f[0] = NoCandidate
  <2>1. 1..0 = {} /\ {} \in SUBSET (1..n) /\ 0 \in 0..n
    OBVIOUS
  <2>. QED
    BY <1>4, <2>1
<1>7. ASSUME NEW k \in 1..n PROVE f[k] = Preferred(f[k - 1], candidates[k], S)
  <2>1. /\ k \in Nat /\ k # 0 /\ k \in 0..n /\ k - 1 \in 0..n
        /\ 1..k \in SUBSET (1..n)
    OBVIOUS
  <2>2. 1..k # {} /\ Max(1..k) = k /\ (1..k) \ {Max(1..k)} = 1..(k - 1)
    BY <2>1, LastIndex
  <2>3. h[1..k] = Preferred(h[1..(k - 1)], candidates[k], S)
    BY <1>4, <2>1, <2>2
  <2>. QED
    BY <2>1, <2>3
<1>8. f[n] = h[1..n]
  OBVIOUS
<1> HIDE DEF f
<1>9. ChoiceLoop(f, candidates, n, S)
  BY <1>6, <1>7 DEF ChoiceLoop
<1>. QED
  BY <1>5, <1>8, <1>9

\* The ranking of candidates is total, and displacing means ranking higher.
LEMMA RankingTotal ==
    ASSUME NEW S, \A c \in S : {c.id, c.priority, c.weight} \subseteq Int
    PROVE  /\ \A c \in S : Outranks(c, c)
           /\ \A c, d \in S : IF Displaces(c, d) THEN Outranks(c, d) ELSE Outranks(d, c)
           /\ \A c, d, e \in S : Outranks(c, d) /\ Outranks(d, e) => Outranks(c, e)
<1>1. \A c \in S : {c.id, c.priority, CandidateWeight(c)} \subseteq Int
  BY DEF CandidateWeight
<1>2. \A c \in S : Outranks(c, c)
  BY <1>1 DEF Outranks
<1>3. \A c, d \in S : IF Displaces(c, d) THEN Outranks(c, d) ELSE Outranks(d, c)
  BY <1>1 DEF Outranks, Displaces
<1>4. \A c, d, e \in S : Outranks(c, d) /\ Outranks(d, e) => Outranks(c, e)
  BY <1>1 DEF Outranks
<1>. QED
  BY <1>2, <1>3, <1>4

\* After k candidates the loop holds the first of those it may take.
LEMMA LoopHoldsFirst ==
    ASSUME NEW n \in Nat, NEW candidates, DOMAIN candidates = 1..n, NEW S,
           \A c \in S : {c.id, c.priority, c.weight} \subseteq Int,
           NoCandidate \notin S,
           NEW f, ChoiceLoop(f, candidates, n, S), NEW k \in 0..n
    PROVE  LET seen == {candidates[i] : i \in 1..k} \cap S
           IN  IF seen = {} THEN f[k] = NoCandidate
               ELSE f[k] \in seen /\ \A d \in seen : Outranks(f[k], d)
<1> DEFINE Seen(i) == {candidates[j] : j \in 1..i} \cap S
           Right(i) == IF Seen(i) = {} THEN f[i] = NoCandidate
                       ELSE f[i] \in Seen(i) /\ \A d \in Seen(i) : Outranks(f[i], d)
           wrong == {i \in 0..n : ~Right(i)}
<1>1. SUFFICES ASSUME wrong # {} PROVE FALSE
  OBVIOUS
<1>2. PICK i \in wrong : \A j \in wrong : i <= j
  <2>1. wrong \subseteq Nat
    OBVIOUS
  <2> HIDE DEF wrong
  <2>. QED
    BY <1>1, <2>1, MinOfNaturals
<1>3. Right(0)
  <2>1. 1..0 = {}
    OBVIOUS
  <2>2. Seen(0) = {}
    BY <2>1
  <2>. QED
    BY <2>2 DEF ChoiceLoop
<1>4. i \in 1..n /\ i - 1 \in 0..n
  BY <1>2, <1>3
<1>5. Right(i - 1)
  <2> HIDE DEF Right
  <2>. QED
    BY <1>2, <1>4
<1> DEFINE c == candidates[i]
<1>6. f[i] = Preferred(f[i - 1], c, S)
  BY <1>4 DEF ChoiceLoop
<1>7. Seen(i) = Seen(i - 1) \cup ({c} \cap S)
  <2>1. \A j \in 1..i : j = i \/ j \in 1..(i - 1)
    BY <1>4
  <2>2. 1..(i - 1) \subseteq 1..i /\ i \in 1..i
    BY <1>4
  <2>. QED
    BY <2>1, <2>2
<1>8. Seen(i - 1) \subseteq S
  OBVIOUS
<1> HIDE DEF Seen, c
<1>9. Right(i)
  <2>1. CASE c \notin S
    <3>1. f[i] = f[i - 1] /\ Seen(i) = Seen(i - 1)
      BY <1>6, <1>7, <2>1 DEF Preferred
    <3>. QED
      BY <1>5, <3>1
  <2>2. CASE c \in S /\ Seen(i - 1) = {}
    <3>1. f[i] = c /\ Seen(i) = {c}
      BY <1>5, <1>6, <1>7, <2>2 DEF Preferred
    <3>. QED
      BY <2>2, <3>1, RankingTotal
  <2>3. CASE c \in S /\ Seen(i - 1) # {}
    <3>1. /\ f[i - 1] \in Seen(i - 1) /\ f[i - 1] \in S /\ f[i - 1] # NoCandidate
          /\ \A d \in Seen(i - 1) : Outranks(f[i - 1], d)
      BY <1>5, <1>8, <2>3
    <3>2. Seen(i) = Seen(i - 1) \cup {c}
      BY <1>7, <2>3
    <3>3. CASE Displaces(c, f[i - 1])
      <4>1. f[i] = c
        BY <1>6, <2>3, <3>3 DEF Preferred
      <4>2. Outranks(c, c) /\ Outranks(c, f[i - 1])
        BY <2>3, <3>1, <3>3, RankingTotal
      <4>3. ASSUME NEW d \in Seen(i - 1) PROVE Outranks(c, d)
        <5>1. \A x, y, z \in S : Outranks(x, y) /\ Outranks(y, z) => Outranks(x, z)
          BY RankingTotal
        <5>2. c \in S /\ f[i - 1] \in S /\ d \in S /\ Outranks(f[i - 1], d)
          BY <1>8, <2>3, <3>1
        <5>. QED
          BY <4>2, <5>1, <5>2
      <4>. QED
        BY <3>2, <4>1, <4>2, <4>3
    <3>4. CASE ~Displaces(c, f[i - 1])
      <4>1. f[i] = f[i - 1]
        BY <1>6, <3>1, <3>4 DEF Preferred
      <4>2. Outranks(f[i - 1], c)
        BY <2>3, <3>1, <3>4, RankingTotal
      <4>. QED
        BY <3>1, <3>2, <4>1, <4>2
    <3>. QED
      BY <3>3, <3>4
  <2>. QED
    BY <2>1, <2>2, <2>3
<1> HIDE DEF Right
<1>. QED
  BY <1>2, <1>9

\* The chosen ID is that of the first of the candidates pick may take.
LEMMA ChosenIsFirst ==
    ASSUME NEW candidates \in CandidateLists, NEW S,
           S \subseteq {c \in ToSet(candidates) : c.claude}, S # {}
    PROVE  FirstOf(Chosen(candidates, S), S)
<1> DEFINE n == Len(candidates)
<1>1. n \in Nat /\ DOMAIN candidates = 1..n
  BY CandidatesAssumption
<1>2. \A c \in S : {c.id, c.priority, c.weight} \subseteq Int
  BY CandidatesAssumption
<1>3. NoCandidate \notin S
  <2>1. ~NoCandidate.claude
    BY DEF NoCandidate
  <2>. QED
    BY <2>1
<1> HIDE DEF n
<1>4. PICK f : ChoiceLoop(f, candidates, n, S) /\ f[n] = Choice(candidates, S)
  BY <1>1, ChoiceIsLoop
<1>5. {candidates[i] : i \in 1..n} \cap S = S /\ n \in 0..n
  BY <1>1 DEF ToSet
<1>6. f[n] \in S /\ \A d \in S : Outranks(f[n], d)
  BY <1>1, <1>2, <1>3, <1>4, <1>5, LoopHoldsFirst
<1>7. Chosen(candidates, S) = f[n].id
  BY <1>4 DEF Chosen, Choice
<1>. QED
  BY <1>6, <1>7 DEF FirstOf

\* The replies of pick, by what the cache knows of the candidates.
LEMMA PickReplies ==
    ASSUME NEW held, NEW candidates \in CandidateLists, NEW family, NEW t,
           NEW fallback \in BOOLEAN, NEW due
    PROVE  LET reply == Pick(held, candidates, family, t, fallback, due, Cutoff)
               claude == ClaudeOf(candidates)
               free == FreeOf(held, candidates, family, t)
               confirmed == \A id \in IdsOf(candidates) :
                               ConfirmedCandidate(held, id, family, t, Cutoff)
           IN  /\ claude = {} => reply.kind = "unhandled"
               /\ free # {} => reply.kind = "route" /\ FirstOf(reply.id, free)
               /\ claude # {} /\ free = {} /\ fallback /\ confirmed =>
                     reply.kind = "overage" /\ FirstOf(reply.id, claude)
               /\ claude # {} /\ free = {} /\ ~(fallback /\ confirmed) => reply.kind = "reject"
<1> DEFINE reply == Pick(held, candidates, family, t, fallback, due, Cutoff)
           claude == ClaudeOf(candidates)
           free == FreeOf(held, candidates, family, t)
           confirmed == \A id \in IdsOf(candidates) : ConfirmedCandidate(held, id, family, t, Cutoff)
<1>1. free \subseteq claude /\ claude = {c \in ToSet(candidates) : c.claude}
  BY DEF FreeOf, ClaudeOf
<1>2. CASE claude = {}
  <2>1. reply.kind = "unhandled"
    BY <1>2 DEF Pick, Reply, ClaudeOf
  <2>. QED
    BY <1>1, <1>2, <2>1
<1>3. CASE free # {}
  <2>1. reply.kind = "route" /\ reply.id = Chosen(candidates, free)
    BY <1>1, <1>3 DEF Pick, Reply, ClaudeOf, FreeOf
  <2>2. FirstOf(Chosen(candidates, free), free)
    BY <1>1, <1>3, ChosenIsFirst
  <2> HIDE DEF reply, claude, free
  <2>. QED
    BY <1>1, <1>3, <2>1, <2>2 DEF reply, claude, free
<1>4. CASE claude # {} /\ free = {} /\ fallback /\ confirmed
  <2>1. reply.kind = "overage" /\ reply.id = Chosen(candidates, claude)
    BY <1>4 DEF Pick, Reply, ClaudeOf, FreeOf, IdsOf
  <2>2. FirstOf(Chosen(candidates, claude), claude)
    BY <1>1, <1>4, ChosenIsFirst
  <2> HIDE DEF reply, claude, free, confirmed
  <2>. QED
    BY <1>4, <2>1, <2>2 DEF reply, claude, free, confirmed
<1>5. CASE claude # {} /\ free = {} /\ ~(fallback /\ confirmed)
  <2>1. reply.kind = "reject"
    BY <1>5 DEF Pick, Reply, ClaudeOf, FreeOf, IdsOf
  <2>. QED
    BY <1>5, <2>1
<1>. QED
  BY <1>2, <1>3, <1>4, <1>5

(***************************************************************************)
(* A request goes to a free candidate if there is one, to the first by     *)
(* priority, weight and ID; to a billed one only when overage is enabled   *)
(* and every candidate is confirmed exhausted; else it is rejected.        *)
(***************************************************************************)
THEOREM PickFollowsPolicy == Spec => []PickMeetsPolicy
<1>1. TypeOK => PickMeetsPolicy
  <2> SUFFICES ASSUME TypeOK, NEW family \in RequestFamilies, NEW candidates \in CandidateLists
               PROVE  LET reply == Pick(fleet, candidates, family, now, overage, DOMAIN fleet, Cutoff)
                          offered == {c \in ToSet(candidates) : c.claude}
                          unknown == {c \in offered : c.id \notin DOMAIN fleet
                                                         \/ ~fleet[c.id]["five_hour"].valid}
                          exhausted == {c \in offered \ unknown :
                                          \E s \in Applicable(family) : Blocks(fleet[c.id][s], now, Cutoff)}
                          free == offered \ (unknown \cup exhausted)
                      IN  CASE free # {} -> reply.kind = "route" /\ FirstOf(reply.id, free)
                            [] free = {} /\ offered # {} /\ unknown = {} /\ overage ->
                                  reply.kind = "overage" /\ FirstOf(reply.id, offered)
                            [] free = {} /\ offered # {} /\ ~(unknown = {} /\ overage) ->
                                  reply.kind = "reject"
                            [] OTHER -> reply.kind = "unhandled"
    BY DEF PickMeetsPolicy
  <2> DEFINE reply == Pick(fleet, candidates, family, now, overage, DOMAIN fleet, Cutoff)
             offered == {c \in ToSet(candidates) : c.claude}
             unknown == {c \in offered : c.id \notin DOMAIN fleet \/ ~fleet[c.id]["five_hour"].valid}
             exhausted == {c \in offered \ unknown :
                             \E s \in Applicable(family) : Blocks(fleet[c.id][s], now, Cutoff)}
             free == offered \ (unknown \cup exhausted)
             confirmed == \A id \in IdsOf(candidates) :
                             ConfirmedCandidate(fleet, id, family, now, Cutoff)
  <2>1. offered = ClaudeOf(candidates)
    BY DEF ClaudeOf
  <2>2. free = FreeOf(fleet, candidates, family, now)
    BY <2>1 DEF FreeOf, ExcludedCandidate, Excluded, BlockingSlots
  <2>3. free = {} => (confirmed <=> unknown = {})
    BY <2>1 DEF IdsOf, ConfirmedCandidate, ConfirmedExhausted, BlockingSlots
  <2>4. overage \in BOOLEAN
    BY DEF TypeOK
  <2>5. free \subseteq offered
    OBVIOUS
  <2> HIDE DEF reply, offered, unknown, exhausted, free, confirmed
  <2>6. /\ offered = {} => reply.kind = "unhandled"
        /\ free # {} => reply.kind = "route" /\ FirstOf(reply.id, free)
        /\ offered # {} /\ free = {} /\ overage /\ confirmed =>
              reply.kind = "overage" /\ FirstOf(reply.id, offered)
        /\ offered # {} /\ free = {} /\ ~(overage /\ confirmed) => reply.kind = "reject"
    BY <2>1, <2>2, <2>4, PickReplies DEF reply, confirmed
  <2> DEFINE policy ==
           CASE free # {} -> reply.kind = "route" /\ FirstOf(reply.id, free)
             [] free = {} /\ offered # {} /\ unknown = {} /\ overage ->
                   reply.kind = "overage" /\ FirstOf(reply.id, offered)
             [] free = {} /\ offered # {} /\ ~(unknown = {} /\ overage) -> reply.kind = "reject"
             [] OTHER -> reply.kind = "unhandled"
  <2>7. policy
    <3>1. CASE free # {}
      BY <2>6, <3>1
    <3>2. CASE free = {} /\ offered # {} /\ unknown = {} /\ overage
      BY <2>3, <2>6, <3>2
    <3>3. CASE free = {} /\ offered # {} /\ ~(unknown = {} /\ overage)
      BY <2>3, <2>6, <3>3
    <3>4. CASE offered = {}
      BY <2>5, <2>6, <3>4
    <3>. QED
      BY <3>1, <3>2, <3>3, <3>4
  <2>. QED
    BY <2>7 DEF reply, offered, unknown, exhausted, free
<1>. QED
  BY <1>1, SchedulerTypeCorrect, PTL
=============================================================================
