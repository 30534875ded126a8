---------------------------- MODULE QuotaWindows ----------------------------
(***************************************************************************)
(* The pure quota arithmetic of the router: which of a credential's quota  *)
(* windows block a model family, when the credential recovers, what a      *)
(* fleet of credentials amounts to, and the retry delay a client is told.  *)
(*                                                                         *)
(* Time is a natural number of clock ticks; NoTime is Go's zero time.Time. *)
(* A window is a record with at least the fields valid, percent, resetAt.  *)
(* A fleet is a function from auth IDs to window batches: its domain is    *)
(* the set of credentials the cache holds.                                 *)
(***************************************************************************)
EXTENDS Integers, FiniteSets, FiniteSetsExt

CONSTANTS Second,       \* clock ticks in a second (the code: 10^9)
          MaxDuration   \* the largest time.Duration (the code: 2^63 - 1)

ASSUME SecondAssumption == Second \in Nat \ {0}
ASSUME MaxDurationAssumption == MaxDuration \in Nat

NoTime == 0

Slots == {"five_hour", "weekly", "fable_weekly", "opus_weekly", "sonnet_weekly"}

ScopedFamilies == {"fable", "opus", "sonnet"}
Families == ScopedFamilies \cup {"unknown"}

\* The family named by the tokens of a model or scope name: ambiguous or
\* absent tokens resolve to no family at all.
ResolveFamily(tokens) ==
    IF Cardinality(tokens) = 1 THEN CHOOSE f \in tokens : TRUE ELSE "unknown"

FamilySlots(family) ==
    CASE family = "fable" -> {"fable_weekly"}
      [] family = "opus" -> {"opus_weekly"}
      [] family = "sonnet" -> {"sonnet_weekly"}
      [] OTHER -> {}

Applicable(family) == {"five_hour", "weekly"} \cup FamilySlots(family)

-----------------------------------------------------------------------------
(* One credential *)

\* A window blocks while it is at or over the cutoff and has not rolled over.
Blocks(w, now, cutoff) ==
    /\ w.valid
    /\ w.percent >= cutoff
    /\ w.resetAt = NoTime \/ now < w.resetAt

BlockingSlots(windows, family, now, cutoff) ==
    {s \in Applicable(family) : Blocks(windows[s], now, cutoff)}

Excluded(windows, family, now, cutoff) ==
    \/ ~windows["five_hour"].valid
    \/ BlockingSlots(windows, family, now, cutoff) # {}

ConfirmedExhausted(windows, family, now, cutoff) ==
    /\ windows["five_hour"].valid
    /\ BlockingSlots(windows, family, now, cutoff) # {}

RecoveryKnown(windows, family, now, cutoff) ==
    /\ ConfirmedExhausted(windows, family, now, cutoff)
    /\ \A s \in BlockingSlots(windows, family, now, cutoff) : windows[s].resetAt # NoTime

\* Mutant: the first of them.
RecoveryAtFirst(windows, family, now, cutoff) ==
    IF RecoveryKnown(windows, family, now, cutoff)
    THEN Min({windows[s].resetAt : s \in BlockingSlots(windows, family, now, cutoff)})
    ELSE NoTime

\* The instant the last of the blocking windows rolls over.
RecoveryAt(windows, family, now, cutoff) ==
    IF RecoveryKnown(windows, family, now, cutoff)
    THEN Max({windows[s].resetAt : s \in BlockingSlots(windows, family, now, cutoff)})
    ELSE NoTime

-----------------------------------------------------------------------------
(* A fleet of credentials *)

\* Every credential the cache holds is confirmed exhausted with a known end.
FleetExhausted(fleet, family, now, cutoff) ==
    /\ DOMAIN fleet # {}
    /\ \A id \in DOMAIN fleet : RecoveryKnown(fleet[id], family, now, cutoff)

\* Mutant: the last recovery of the fleet.
LatestRecovery(fleet, family, now, cutoff) ==
    Max({RecoveryAt(fleet[id], family, now, cutoff) : id \in DOMAIN fleet})

EarliestRecovery(fleet, family, now, cutoff) ==
    Min({RecoveryAt(fleet[id], family, now, cutoff) : id \in DOMAIN fleet})

-----------------------------------------------------------------------------
(* Refresh eligibility *)

\* No usage fetch while the five-hour or the weekly window of the account is
\* exhausted with a known, future reset: the answer would not change routing.
RefreshSuppressed(windows, now, cutoff) ==
    \E s \in {"five_hour", "weekly"} :
        /\ windows[s].valid
        /\ windows[s].percent >= cutoff
        /\ windows[s].resetAt # NoTime
        /\ now < windows[s].resetAt

-----------------------------------------------------------------------------
(* Retry delays.  time.Time.Sub saturates at MaxDuration. *)

\* Mutant: rounded down.
Floor(ticks) == ticks \div Second

Ceiling(ticks) == (ticks + Second - 1) \div Second

SaturatedDelay(now, resetAt) ==
    IF resetAt - now > MaxDuration THEN MaxDuration ELSE resetAt - now

NoDelay == -1

\* The delay in whole seconds a rejected request is told, or NoDelay when
\* none can be stated reliably.
ResetRetryAfterSeconds(now, resetAt, hasReset) ==
    LET delay == SaturatedDelay(now, resetAt)
        representable == now + delay = resetAt /\ Ceiling(delay) <= MaxDuration \div Second
    IN  IF hasReset /\ resetAt # NoTime /\ now < resetAt /\ representable
        THEN Ceiling(delay)
        ELSE NoDelay

\* The Retry-After header of the admission gate: at least one second.  The
\* code rounds a float64 up, which has no fraction of a few nanoseconds left
\* beyond 2^24 seconds; such delays are longer than any window.
GateRetryAfter(now, resetAt) ==
    LET seconds == Ceiling(SaturatedDelay(now, resetAt))
    IN  IF seconds < 1 THEN 1 ELSE seconds
=============================================================================
