--------------------------- MODULE UpstreamAnswers ---------------------------
(***************************************************************************)
(* What the router reads out of an answer of the usage endpoint and out of *)
(* the headers of a response.  Numbers are whole; text that is only shown  *)
(* (the failure message, decimal places) is left out.  A field that is not *)
(* there is Missing; one that does not parse, or is null where a value is  *)
(* required, is Malformed.  Header names, cases and time formats are not   *)
(* told apart: a reset is an instant, Missing or Malformed.                *)
(***************************************************************************)
EXTENDS QuotaWindows, RefreshBackoff, SequencesExt

Missing == -1
Malformed == -2

\* Not stamped yet: the commit does that.
NoReading == [valid |-> FALSE, percent |-> 0, resetAt |-> NoTime, sampledAt |-> NoTime]
Reading(percent, resetAt) ==
    [valid |-> TRUE, percent |-> percent, resetAt |-> resetAt, sampledAt |-> NoTime]

-----------------------------------------------------------------------------
(* The windows of a usage body: body.legacy maps the slots to the five      *)
(* top-level keys, body.limits is the newer list. *)

\* parseUsageWindowValue: a reset that is there must parse.
UsageValue(percent, reset) ==
    IF percent \in 0..100 /\ reset # Malformed
    THEN Reading(percent, IF reset = Missing THEN NoTime ELSE reset)
    ELSE NoReading

LegacyWindow(body, slot) == UsageValue(body.legacy[slot].utilization, body.legacy[slot].reset)

LimitSlots(limit) ==
    CASE limit.kind = "session" -> {"five_hour"}
      [] limit.kind = "weekly_all" -> {"weekly"}
      [] limit.kind = "weekly_scoped" -> FamilySlots(ResolveFamily(limit.scope))
      [] OTHER -> {}

\* utilization stands in for a missing percent, not for one that is null.
LimitWindow(limit) ==
    UsageValue(IF limit.percent = Missing THEN limit.utilization ELSE limit.percent, limit.reset)

Speaks(limit, slot) == slot \in LimitSlots(limit) /\ LimitWindow(limit).valid

\* Mutant: the last entry of the list wins.
LastWindow(a, b) == b

\* conservativeWindow: an unknown reset makes the reset unknown.
ConservativeWindow(a, b) ==
    [a EXCEPT !.percent = AtLeast(b.percent, @),
              !.resetAt = IF NoTime \in {a.resetAt, b.resetAt} THEN NoTime ELSE AtLeast(b.resetAt, @)]

\* What the loop over the list knows of a slot once it has read an entry.
Merged(window, limit, slot) ==
    IF ~Speaks(limit, slot) THEN window
    ELSE IF window = NoReading THEN LimitWindow(limit)
    ELSE ConservativeWindow(window, LimitWindow(limit))

\* parseUsageWindows: what the list says of a slot replaces its top-level key.
UsageWindows(body) ==
    [slot \in Slots |->
        LET listed == FoldLeft(LAMBDA window, limit : Merged(window, limit, slot), NoReading, body.limits)
        IN  IF listed = NoReading THEN LegacyWindow(body, slot) ELSE listed]

-----------------------------------------------------------------------------
(* Failed fetches *)

\* Mutant: a date is not understood.
RetryDelaySecondsOnly(headers, now) ==
    LET later == {reset \in headers.resets : reset > now}
    IN  CASE headers.retryAfter.form = "seconds" -> AtMost(BackoffHeaderMax, headers.retryAfter.value)
          [] OTHER -> IF later = {} THEN NoHint ELSE Min(later) - now

\* upstreamRetryDelay.  Only the seconds form is capped here; an unreadable
\* Retry-After counts for nothing.
UpstreamRetryDelay(headers, now) ==
    LET later == {reset \in headers.resets : reset > now}
    IN  CASE headers.retryAfter.form = "seconds" -> AtMost(BackoffHeaderMax, headers.retryAfter.value)
          [] headers.retryAfter.form = "date" -> AtLeast(0, headers.retryAfter.value - now)
          [] OTHER -> IF later = {} THEN NoHint ELSE Min(later) - now

\* The categories that are never told apart later are merged into "upstream".
StatusCategory(status) ==
    CASE status = 401 -> "unauthorized"
      [] status = 429 -> "rate_limited"
      [] OTHER -> "upstream"

Failed(category, hint) == [kind |-> "failure", category |-> category, hint |-> hint]

\* fetch: a transport error and a body that cannot be read or is no JSON object
\* fail without a hint, and so does a body without a readable five-hour window.
UsageResult(answer, now) ==
    CASE answer.kind = "status" ->
             Failed(StatusCategory(answer.status), UpstreamRetryDelay(answer.headers, now))
      [] answer.kind = "broken" -> Failed("upstream", NoHint)
      [] answer.kind = "body" ->
             LET windows == UsageWindows(answer.body)
             IN  IF windows["five_hour"].valid THEN [kind |-> "usage", windows |-> windows]
                 ELSE Failed("upstream", NoHint)

-----------------------------------------------------------------------------
(* Quota headers of a response *)

HeaderReset(reset) == IF reset \in {Missing, Malformed} THEN NoTime ELSE reset

HeaderPercent(header) ==
    IF header.rejected THEN 100
    ELSE IF header.utilization \in {Missing, Malformed} THEN Missing
    ELSE AtMost(100, header.utilization)

\* Exhaustion without a reset is ignored: it would have no end.
HeaderWindow(header, cutoff) ==
    LET percent == HeaderPercent(header)
        reset == HeaderReset(header.reset)
    IN  IF percent = Missing \/ (percent >= cutoff /\ reset = NoTime) THEN NoReading
        ELSE Reading(percent, reset)

\* parseClaudeQuotaHeaders: headers maps "5h", "7d" and "7d_oi" to their fields.
HeaderWindows(headers, family, cutoff) ==
    [slot \in Slots |->
        CASE slot = "five_hour" -> HeaderWindow(headers["5h"], cutoff)
          [] slot = "weekly" -> HeaderWindow(headers["7d"], cutoff)
          [] slot = "fable_weekly" /\ family = "fable" -> HeaderWindow(headers["7d_oi"], cutoff)
          [] OTHER -> NoReading]

-----------------------------------------------------------------------------
(* Extra usage: the paid overage of an account.  status stands for the     *)
(* status and the disabled reason, unit for the currency and its decimal   *)
(* places, "" for a text that is not there. *)

NoExtra == [percent |-> Missing, resetAt |-> NoTime, status |-> "", sampledAt |-> NoTime,
            enabled |-> "", used |-> Missing, limit |-> Missing, unit |-> "", amountsAt |-> NoTime]

ExtraEmpty(extra) ==
    extra.percent = Missing /\ extra.status = "" /\ extra.used = Missing /\ extra.enabled = ""

\* parseClaudeOverageHeaders
OverageExtra(header, observedAt) ==
    [NoExtra EXCEPT !.percent = IF header.utilization \in {Missing, Malformed} THEN Missing
                                ELSE AtMost(100, header.utilization),
                    !.resetAt = HeaderReset(header.reset),
                    !.status = header.status,
                    !.sampledAt = observedAt]

HasNumbers(raw) == raw.used >= 0 /\ raw.limit > 0

\* parseUsageExtra: an object that does not parse counts as absent.
UsageExtra(raw) ==
    LET amounts == HasNumbers(raw)
    IN  [NoExtra EXCEPT !.enabled = raw.enabled,
                        !.used = IF amounts THEN raw.used ELSE Missing,
                        !.limit = IF amounts THEN raw.limit ELSE Missing,
                        !.percent = IF raw.utilization >= 0 THEN AtMost(100, raw.utilization)
                                    ELSE IF amounts THEN AtMost(100, (100 * raw.used) \div raw.limit)
                                    ELSE Missing,
                        !.unit = raw.unit]

\* Mutant: any header observation lands.
MergeHeadersAlways(current, next) ==
    [current EXCEPT !.percent = IF next.percent = Missing THEN @ ELSE next.percent,
                    !.resetAt = next.resetAt, !.status = next.status, !.sampledAt = next.sampledAt]

\* mergeExtraUsage, for headers: they own percent, reset and status, and are
\* dropped when they are older than what is stored.
MergeHeaders(current, next) ==
    IF next.sampledAt < current.sampledAt THEN current
    ELSE [current EXCEPT !.percent = IF next.percent = Missing THEN @ ELSE next.percent,
                         !.resetAt = next.resetAt, !.status = next.status,
                         !.sampledAt = next.sampledAt]

OwnsAmounts(extra) == extra.enabled # "" \/ extra.used # Missing \/ extra.unit # ""

\* mergeExtraUsage, for polls: they own the amounts, all of them at once.
MergeUsage(current, next, at) ==
    LET amounts == IF OwnsAmounts(next)
                   THEN [current EXCEPT !.enabled = next.enabled, !.used = next.used,
                                        !.limit = next.limit, !.unit = next.unit,
                                        !.amountsAt = at]
                   ELSE current
    IN  IF next.percent # Missing /\ at >= current.sampledAt
        THEN [amounts EXCEPT !.percent = next.percent, !.sampledAt = at] ELSE amounts
=============================================================================
