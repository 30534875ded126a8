--------------------------- MODULE RefreshBackoff ---------------------------
(***************************************************************************)
(* How long an account is left alone after a failed usage fetch: an        *)
(* exponential schedule, overridden by an upstream hint, never below the   *)
(* base for a rate limit, and lengthened by jitter.                        *)
(***************************************************************************)
EXTENDS Integers

CONSTANTS BackoffBase,      \* refreshBackoffBase (5 min)
          BackoffMax,       \* refreshBackoffMax (30 min)
          BackoffHeaderMax, \* refreshBackoffHeaderMax (6 h)
          JitterFraction    \* jitter is at most delay / JitterFraction

ASSUME BackoffAssumption ==
    /\ BackoffBase \in Nat \ {0}
    /\ BackoffMax \in Nat
    /\ BackoffHeaderMax \in Nat
    /\ BackoffBase <= BackoffMax /\ BackoffMax <= BackoffHeaderMax
    /\ JitterFraction \in Nat \ {0}

AtMost(bound, x) == IF x > bound THEN bound ELSE x
AtLeast(bound, x) == IF x < bound THEN bound ELSE x

NoHint == -1    \* the failed response carried no usable Retry-After

\* The delay the loop reaches for the n-th consecutive failure (n >= 1): it
\* doubles until the maximum is reached or passed.
Doubled[n \in Nat] ==
    IF n <= 1 THEN BackoffBase
    ELSE IF Doubled[n - 1] < BackoffMax THEN 2 * Doubled[n - 1] ELSE Doubled[n - 1]

RefreshBackoffDelay(failures, rateLimited, hint) ==
    LET delay == IF hint = NoHint
                 THEN AtMost(BackoffMax, Doubled[failures])
                 ELSE AtMost(BackoffHeaderMax, hint)
    IN  IF rateLimited THEN AtLeast(BackoffBase, delay) ELSE delay

\* The pauses recordRefreshFailure may schedule: jitter only lengthens a
\* delay, and without a hint the maximum bounds the sum.
LongestPause == BackoffHeaderMax + BackoffHeaderMax \div JitterFraction

Pauses(failures, rateLimited, hint) ==
    LET delay == RefreshBackoffDelay(failures, rateLimited, hint)
        lengthened(extra) == IF hint = NoHint THEN AtMost(BackoffMax, delay + extra)
                                              ELSE delay + extra
    IN  {pause \in 0..LongestPause :
            \E extra \in 0..(delay \div JitterFraction) : pause = lengthened(extra)}
=============================================================================
