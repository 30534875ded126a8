------------------------- MODULE QuotaWindowsProofs -------------------------
(***************************************************************************)
(* What the quota arithmetic promises, for every value of its inputs.      *)
(***************************************************************************)
EXTENDS QuotaWindows, WellFoundedInduction, TLAPS

WindowRecords == [valid : BOOLEAN, percent : Nat, resetAt : Nat]
Batches == [Slots -> WindowRecords]

-----------------------------------------------------------------------------
(* Least and greatest elements *)

LessThan == {p \in Nat \X Nat : p[1] < p[2]}

\* The order of the naturals as a set of pairs is well founded.
LEMMA LessThanWellFounded == IsWellFoundedOn(LessThan, Nat)
<1>1. OpToRel(<, Nat) = LessThan
  BY Zenon DEF OpToRel, LessThan
<1>. QED
  BY <1>1, NatLessThanWellFounded

\* A nonempty set of naturals has a least element, and Min finds it.
LEMMA MinOfNaturals ==
    ASSUME NEW S, S \subseteq Nat, S # {}
    PROVE  Min(S) \in S /\ \A x \in S : Min(S) <= x
<1>1. PICK x \in S : \A y \in S : ~(<<y, x>> \in LessThan)
  BY LessThanWellFounded, WFMin
<1>2. ASSUME NEW y \in S PROVE x <= y
  <2>1. ~(<<y, x>> \in LessThan)
    BY <1>1
  <2>2. <<y, x>> \in Nat \X Nat /\ ~(y < x)
    BY <2>1 DEF LessThan
  <2>. QED
    BY <2>2
<1>. QED
  BY <1>2 DEF Min

\* A nonempty set of at most three naturals has a greatest one: Max finds it.
LEMMA MaxOfThree ==
    ASSUME NEW a \in Nat, NEW b \in Nat, NEW c \in Nat,
           NEW S, S \subseteq {a, b, c}, S # {}
    PROVE  Max(S) \in S /\ \A x \in S : x <= Max(S)
<1>1. \E m \in S : \A x \in S : m >= x
  <2>1. CASE a \in S /\ (b \in S => b <= a) /\ (c \in S => c <= a)
    BY <2>1
  <2>2. CASE b \in S /\ (a \in S => a <= b) /\ (c \in S => c <= b)
    BY <2>2
  <2>3. CASE c \in S /\ (a \in S => a <= c) /\ (b \in S => b <= c)
    BY <2>3
  <2>4. a \in S \/ b \in S \/ c \in S
    OBVIOUS
  <2>5. \/ a \in S /\ (b \in S => b <= a) /\ (c \in S => c <= a)
        \/ b \in S /\ (a \in S => a <= b) /\ (c \in S => c <= b)
        \/ c \in S /\ (a \in S => a <= c) /\ (b \in S => b <= c)
    BY <2>4
  <2>. QED
    BY <2>1, <2>2, <2>3, <2>5
<1>2. Max(S) \in S /\ \A x \in S : Max(S) >= x
  BY <1>1 DEF Max
<1>3. S \subseteq Nat
  OBVIOUS
<1>. QED
  BY <1>2, <1>3

\* A nonempty set of naturals up to n has a greatest element, and Max finds it.
LEMMA MaxOfBounded ==
    ASSUME NEW n \in Nat, NEW S, S \subseteq 0..n, S # {}
    PROVE  Max(S) \in S /\ \A x \in S : x <= Max(S)
<1> DEFINE bounds == {m \in Nat : \A x \in S : x <= m}
           least == Min(bounds)
<1>1. bounds \subseteq Nat /\ n \in bounds
  OBVIOUS
<1>2. least \in bounds /\ \A m \in bounds : least <= m
  BY <1>1, MinOfNaturals
<1> HIDE DEF least
<1>3. least \in S
  <2>1. SUFFICES ASSUME least \notin S PROVE FALSE
    OBVIOUS
  <2>2. \A x \in S : x \in Nat /\ x <= least - 1
    BY <1>2, <2>1
  <2>3. least \in Nat /\ least - 1 \in Nat
    <3>1. PICK x \in S : x \in Nat /\ x <= least - 1
      BY <2>2
    <3>. QED
      BY <1>2, <3>1
  <2>4. least - 1 \in bounds
    BY <2>2, <2>3
  <2>. QED
    BY <1>2, <2>3, <2>4
<1>4. \E m \in S : \A x \in S : m >= x
  BY <1>2, <1>3
<1>5. Max(S) \in S /\ \A x \in S : Max(S) >= x
  BY <1>4 DEF Max
<1>. QED
  BY <1>5

-----------------------------------------------------------------------------
(* Recursion over the indices of a sequence.  The community modules define   *)
(* their folds by recursion over sets of indices, the greatest one first.    *)
(* The function so defined exists: a least n for which it did not would      *)
(* contradict its existence for n - 1. *)

Unfolds(it, n, base, step) ==
    \A s \in SUBSET (1..n) :
        it[s] = IF s = {} THEN base ELSE step[<<Max(s), it[s \ {Max(s)}]>>]

\* Whatever is computed index by index is a function of the set of indices.
LEMMA SetRecursion ==
    ASSUME NEW n \in Nat, NEW V, NEW base \in V, NEW step \in [(1..n) \X V -> V]
    PROVE  \E it \in [SUBSET (1..n) -> V] : Unfolds(it, n, base, step)
<1> DEFINE Exists(k) == \E it \in [SUBSET (1..k) -> V] : Unfolds(it, k, base, step)
           missing == {k \in 0..n : ~Exists(k)}
<1>1. SUFFICES ASSUME ~Exists(n) PROVE FALSE
  OBVIOUS
<1>2. PICK k \in missing : \A j \in missing : k <= j
  <2> HIDE DEF Exists
  <2>1. n \in missing /\ missing \subseteq Nat
    BY <1>1
  <2>. QED
    BY <2>1, MinOfNaturals
<1>3. k # 0
  <2> DEFINE it == [s \in SUBSET (1..0) |-> base]
  <2>1. 1..0 = {}
    OBVIOUS
  <2>2. Unfolds(it, 0, base, step)
    BY <2>1 DEF Unfolds
  <2>3. Exists(0)
    BY <2>2
  <2>. QED
    BY <2>3
<1>4. k - 1 \in 0..n /\ k \in 1..n
  BY <1>3
<1>5. Exists(k - 1)
  <2> HIDE DEF Exists
  <2>1. k - 1 \notin missing
    BY <1>2, <1>4
  <2>. QED
    BY <1>4, <2>1
<1>6. PICK g \in [SUBSET (1..(k - 1)) -> V] : Unfolds(g, k - 1, base, step)
  BY <1>5
<1> DEFINE it == [s \in SUBSET (1..k) |-> IF k \in s THEN step[<<k, g[s \ {k}]>>] ELSE g[s]]
<1>7. ASSUME NEW s \in SUBSET (1..k)
      PROVE  /\ it[s] \in V
             /\ it[s] = IF s = {} THEN base ELSE step[<<Max(s), it[s \ {Max(s)}]>>]
  <2>1. CASE k \in s
    <3>1. s \ {k} \in SUBSET (1..(k - 1)) /\ s \ {k} \in SUBSET (1..k) /\ k \notin s \ {k}
      BY <1>4
    <3>2. it[s] = step[<<k, g[s \ {k}]>>] /\ it[s \ {k}] = g[s \ {k}]
      BY <2>1, <3>1
    <3>3. Max(s) = k
      <4>1. s \subseteq 0..n /\ s # {}
        BY <1>4, <2>1
      <4>2. Max(s) \in s /\ \A x \in s : x <= Max(s)
        BY <4>1, MaxOfBounded
      <4>3. Max(s) \in 1..k /\ k <= Max(s)
        BY <2>1, <4>2
      <4>. QED
        BY <1>4, <4>3
    <3>4. <<k, g[s \ {k}]>> \in (1..n) \X V
      BY <1>4, <1>6, <3>1
    <3>. QED
      BY <2>1, <3>2, <3>3, <3>4
  <2>2. CASE k \notin s
    <3>1. /\ s \in SUBSET (1..(k - 1))
          /\ s \ {Max(s)} \in SUBSET (1..k) /\ k \notin s \ {Max(s)}
      <4>1. \A x \in s : x \in 1..k /\ x # k
        BY <2>2
      <4>2. \A x \in s : x \in 1..(k - 1)
        BY <1>4, <4>1
      <4>. QED
        BY <2>2, <4>2
    <3>2. it[s] = g[s] /\ it[s \ {Max(s)}] = g[s \ {Max(s)}]
      BY <1>4, <3>1
    <3>3. g[s] = IF s = {} THEN base ELSE step[<<Max(s), g[s \ {Max(s)}]>>]
      BY <1>6, <3>1 DEF Unfolds
    <3>. QED
      BY <1>6, <3>1, <3>2, <3>3
  <2>. QED
    BY <2>1, <2>2
<1>8. it \in [SUBSET (1..k) -> V]
  <2>1. it = [s \in SUBSET (1..k) |-> it[s]]
    OBVIOUS
  <2> HIDE DEF it
  <2>. QED
    BY <1>7, <2>1
<1>9. Unfolds(it, k, base, step)
  <2> HIDE DEF it
  <2>. QED
    BY <1>7 DEF Unfolds
<1> HIDE DEF it
<1>10. Exists(k)
  BY <1>8, <1>9
<1>. QED
  BY <1>10

\* The set of the indices up to k, less its greatest.
LEMMA LastIndex ==
    ASSUME NEW k \in Nat, k # 0
    PROVE  1..k # {} /\ Max(1..k) = k /\ (1..k) \ {Max(1..k)} = 1..(k - 1)
<1>1. 1..k \subseteq 0..k /\ k \in 1..k
  OBVIOUS
<1>2. Max(1..k) \in 1..k /\ \A x \in 1..k : x <= Max(1..k)
  BY <1>1, MaxOfBounded
<1>3. Max(1..k) = k
  BY <1>1, <1>2
<1>. QED
  BY <1>1, <1>3

-----------------------------------------------------------------------------
(* One credential *)

\* At most three windows apply to a request: five-hour, weekly and the weekly
\* window of the requested model family.
LEMMA AtMostThreeApply ==
    ASSUME NEW family \in Families
    PROVE  \E scoped \in Slots : Applicable(family) \subseteq {"five_hour", "weekly", scoped}
<1>1. CASE family \in ScopedFamilies
  BY <1>1 DEF ScopedFamilies, Applicable, FamilySlots, Slots
<1>2. CASE family = "unknown"
  BY <1>2 DEF Applicable, FamilySlots, Slots
<1>. QED
  BY <1>1, <1>2 DEF Families

\* When the end of an exhaustion is known it is the reset of a blocking
\* window, no blocking window resets later, and it lies in the future.
LEMMA RecoveryIsLastReset ==
    ASSUME NEW windows \in Batches, NEW family \in Families,
           NEW now \in Nat, NEW cutoff \in Nat,
           RecoveryKnown(windows, family, now, cutoff)
    PROVE  LET blocking == BlockingSlots(windows, family, now, cutoff)
               recovery == RecoveryAt(windows, family, now, cutoff)
           IN  /\ recovery \in Nat
               /\ now < recovery
               /\ \E s \in blocking : windows[s].resetAt = recovery
               /\ \A s \in blocking : windows[s].resetAt <= recovery
<1> DEFINE blocking == BlockingSlots(windows, family, now, cutoff)
           resets == {windows[s].resetAt : s \in blocking}
<1>1. PICK scoped \in Slots : Applicable(family) \subseteq {"five_hour", "weekly", scoped}
  BY AtMostThreeApply
<1>2. \A s \in Slots : windows[s].resetAt \in Nat
  BY DEF Batches, WindowRecords
<1>3. resets \subseteq {windows["five_hour"].resetAt, windows["weekly"].resetAt,
                         windows[scoped].resetAt}
  BY <1>1 DEF BlockingSlots
<1>4. resets # {}
  BY DEF RecoveryKnown, ConfirmedExhausted
<1>5. Max(resets) \in resets /\ \A x \in resets : x <= Max(resets)
  BY <1>2, <1>3, <1>4, MaxOfThree DEF Slots
<1>6. RecoveryAt(windows, family, now, cutoff) = Max(resets)
  BY DEF RecoveryAt
<1>7. \A s \in blocking : s \in Slots /\ now < windows[s].resetAt
  BY <1>1 DEF RecoveryKnown, BlockingSlots, Blocks, Slots
<1>. QED
  BY <1>2, <1>5, <1>6, <1>7

(***************************************************************************)
(* A credential that is exhausted with a known end stays excluded until    *)
(* exactly that instant: not a tick less, which would route to a spent     *)
(* quota, and not a tick more, which would idle a fresh one.               *)
(* (evaluateQuotaDecision, read again at any later time.)                  *)
(***************************************************************************)
THEOREM RecoveryExact ==
    ASSUME NEW windows \in Batches, NEW family \in Families,
           NEW now \in Nat, NEW cutoff \in Nat,
           RecoveryKnown(windows, family, now, cutoff),
           NEW t \in Nat, t >= now
    PROVE  LET recovery == RecoveryAt(windows, family, now, cutoff)
           IN  /\ t < recovery <=> Excluded(windows, family, t, cutoff)
               /\ t < recovery => /\ RecoveryKnown(windows, family, t, cutoff)
                                  /\ RecoveryAt(windows, family, t, cutoff) = recovery
<1> DEFINE recovery == RecoveryAt(windows, family, now, cutoff)
           blocking(u) == BlockingSlots(windows, family, u, cutoff)
<1>1. /\ recovery \in Nat /\ now < recovery
      /\ \E s \in blocking(now) : windows[s].resetAt = recovery
      /\ \A s \in blocking(now) : windows[s].resetAt <= recovery
  BY RecoveryIsLastReset
<1>2. windows["five_hour"].valid /\ \A s \in blocking(now) : windows[s].resetAt # NoTime
  BY DEF RecoveryKnown, ConfirmedExhausted
<1>3. Applicable(family) \subseteq Slots
  BY AtMostThreeApply DEF Slots
<1>4. \A s \in Slots : windows[s].resetAt \in Nat
  BY DEF Batches, WindowRecords
<1>5. blocking(t) = {s \in blocking(now) : t < windows[s].resetAt}
  BY <1>2, <1>3, <1>4 DEF BlockingSlots, Blocks
<1>6. t < recovery => RecoveryKnown(windows, family, t, cutoff)
  BY <1>1, <1>2, <1>5 DEF RecoveryKnown, ConfirmedExhausted
<1>7. ASSUME t < recovery PROVE RecoveryAt(windows, family, t, cutoff) = recovery
  <2> DEFINE later == RecoveryAt(windows, family, t, cutoff)
  <2>1. /\ later \in Nat
        /\ \E s \in blocking(t) : windows[s].resetAt = later
        /\ \A s \in blocking(t) : windows[s].resetAt <= later
    BY <1>6, <1>7, RecoveryIsLastReset
  <2>2. PICK s \in blocking(now) : windows[s].resetAt = recovery
    BY <1>1
  <2>3. recovery <= later
    BY <1>5, <1>7, <2>1, <2>2
  <2>4. later <= recovery
    BY <1>1, <1>5, <2>1
  <2>. QED
    BY <1>1, <2>1, <2>3, <2>4
<1>8. Excluded(windows, family, t, cutoff) <=> blocking(t) # {}
  BY <1>2 DEF Excluded
<1>9. blocking(t) # {} <=> t < recovery
  <2>1. \A s \in blocking(now) : windows[s].resetAt \in Nat
    BY <1>3, <1>4 DEF BlockingSlots
  <2>. QED
    BY <1>1, <1>5, <2>1
<1>. QED
  BY <1>6, <1>7, <1>8, <1>9

-----------------------------------------------------------------------------
(* A fleet *)

IsFleet(fleet) == \A id \in DOMAIN fleet : fleet[id] \in Batches

(***************************************************************************)
(* A fleet that is exhausted with a known end stays so until exactly the   *)
(* earliest recovery of its credentials, if no new evidence arrives: the   *)
(* instant the gate and the scheduler advise is neither early nor late.    *)
(* (liveFleetDecision and candidateDecisions, read again later.)           *)
(***************************************************************************)
THEOREM FleetRecoveryExact ==
    ASSUME NEW fleet, IsFleet(fleet), NEW family \in Families,
           NEW now \in Nat, NEW cutoff \in Nat,
           FleetExhausted(fleet, family, now, cutoff),
           NEW t \in Nat, t >= now
    PROVE  LET earliest == EarliestRecovery(fleet, family, now, cutoff)
           IN  /\ earliest \in Nat /\ now < earliest
               /\ t < earliest <=> FleetExhausted(fleet, family, t, cutoff)
               /\ t < earliest => EarliestRecovery(fleet, family, t, cutoff) = earliest
<1> DEFINE recoveries(u) == {RecoveryAt(fleet[id], family, u, cutoff) : id \in DOMAIN fleet}
           earliest == EarliestRecovery(fleet, family, now, cutoff)
<1>1. \A id \in DOMAIN fleet :
          /\ fleet[id] \in Batches
          /\ RecoveryKnown(fleet[id], family, now, cutoff)
          /\ RecoveryAt(fleet[id], family, now, cutoff) \in Nat
          /\ now < RecoveryAt(fleet[id], family, now, cutoff)
  BY RecoveryIsLastReset DEF FleetExhausted, IsFleet
<1>2. recoveries(now) \subseteq Nat /\ recoveries(now) # {}
  BY <1>1 DEF FleetExhausted
<1>3. earliest \in recoveries(now) /\ \A r \in recoveries(now) : earliest <= r
  BY <1>2, MinOfNaturals DEF EarliestRecovery
<1>4. earliest \in Nat /\ now < earliest
  BY <1>1, <1>2, <1>3
<1>5. \A id \in DOMAIN fleet :
          LET recovery == RecoveryAt(fleet[id], family, now, cutoff)
          IN  /\ t < recovery <=> Excluded(fleet[id], family, t, cutoff)
              /\ t < recovery => /\ RecoveryKnown(fleet[id], family, t, cutoff)
                                 /\ RecoveryAt(fleet[id], family, t, cutoff) = recovery
  BY <1>1, RecoveryExact
<1>6. \A id \in DOMAIN fleet : RecoveryKnown(fleet[id], family, t, cutoff)
                                  => Excluded(fleet[id], family, t, cutoff)
  BY DEF RecoveryKnown, ConfirmedExhausted, Excluded
<1>7. t < earliest => \A id \in DOMAIN fleet : t < RecoveryAt(fleet[id], family, now, cutoff)
  BY <1>1, <1>3, <1>4
<1>8. t < earliest <=> FleetExhausted(fleet, family, t, cutoff)
  <2>1. ASSUME t < earliest PROVE FleetExhausted(fleet, family, t, cutoff)
    BY <1>5, <1>7, <2>1 DEF FleetExhausted
  <2>2. ASSUME FleetExhausted(fleet, family, t, cutoff) PROVE t < earliest
    <3>1. PICK id \in DOMAIN fleet : RecoveryAt(fleet[id], family, now, cutoff) = earliest
      BY <1>3
    <3>2. Excluded(fleet[id], family, t, cutoff)
      BY <1>6, <2>2 DEF FleetExhausted
    <3>. QED
      BY <1>5, <3>1, <3>2
  <2>. QED
    BY <2>1, <2>2
<1>9. t < earliest => recoveries(t) = recoveries(now)
  BY <1>5, <1>7
<1>. QED
  BY <1>4, <1>8, <1>9 DEF EarliestRecovery

-----------------------------------------------------------------------------
(* Retry delays *)

\* Ceiling rounds up to whole seconds, by less than a second.
LEMMA CeilingRoundsUp ==
    ASSUME NEW d \in Nat
    PROVE  /\ Ceiling(d) \in Nat
           /\ Ceiling(d) * Second >= d
           /\ Ceiling(d) * Second < d + Second
           /\ d > 0 => Ceiling(d) >= 1
<1> DEFINE q == Ceiling(d)
           x == d + Second - 1
<1>1. x \in Nat /\ Second \in Nat /\ Second > 0
  BY SecondAssumption
<1>2. q = x \div Second
  BY DEF Ceiling
<1> HIDE DEF x, q
<1>3. q \in Nat /\ Second * q <= x /\ x < Second * q + Second
  BY <1>1, <1>2
<1>4. q * Second = Second * q
  BY <1>1, <1>3
<1>5. q * Second >= d /\ q * Second < d + Second
  BY <1>1, <1>3, <1>4 DEF x
<1>6. ASSUME d > 0 PROVE q >= 1
  <2>1. CASE q = 0
    BY <1>1, <1>5, <1>6, <2>1
  <2>. QED
    BY <1>3, <2>1
<1>. QED
  BY <1>3, <1>5, <1>6 DEF q

(***************************************************************************)
(* The delay a rejected request is told is positive, reaches the reset,    *)
(* overshoots it by less than a second, and converts back to a duration    *)
(* without overflow.  (resetRetryAfterSeconds.)                            *)
(***************************************************************************)
THEOREM RetryAfterReliable ==
    ASSUME NEW now \in Nat, NEW resetAt \in Nat, NEW hasReset \in BOOLEAN,
           ResetRetryAfterSeconds(now, resetAt, hasReset) # NoDelay
    PROVE  LET seconds == ResetRetryAfterSeconds(now, resetAt, hasReset)
           IN  /\ seconds \in Nat /\ seconds >= 1
               /\ now + seconds * Second >= resetAt
               /\ now + seconds * Second < resetAt + Second
               /\ seconds * Second <= MaxDuration
<1> DEFINE delay == SaturatedDelay(now, resetAt)
           seconds == Ceiling(delay)
<1>1. /\ now < resetAt
      /\ now + delay = resetAt
      /\ seconds <= MaxDuration \div Second
      /\ ResetRetryAfterSeconds(now, resetAt, hasReset) = seconds
  BY DEF ResetRetryAfterSeconds
<1>2. delay \in Nat /\ delay > 0
  BY <1>1, MaxDurationAssumption DEF SaturatedDelay
<1> HIDE DEF delay
<1>3. /\ seconds \in Nat /\ seconds >= 1
      /\ seconds * Second >= delay /\ seconds * Second < delay + Second
  BY <1>2, CeilingRoundsUp
<1>4. seconds * Second <= MaxDuration
  <2> HIDE DEF seconds
  <2> DEFINE whole == MaxDuration \div Second
  <2>1. whole \in Nat /\ whole * Second <= MaxDuration
    BY SecondAssumption, MaxDurationAssumption
  <2>2. seconds <= whole
    BY <1>1
  <2> HIDE DEF whole
  <2>3. seconds * Second <= whole * Second
    BY <1>3, <2>1, <2>2, SecondAssumption
  <2>. QED
    BY <1>3, <2>1, <2>3, SecondAssumption, MaxDurationAssumption
<1>5. now + seconds * Second >= resetAt /\ now + seconds * Second < resetAt + Second
  BY <1>1, <1>2, <1>3, SecondAssumption
<1>. QED
  BY <1>1, <1>3, <1>4, <1>5
=============================================================================
