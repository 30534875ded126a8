--------------------------- MODULE MCObservations ---------------------------
(* A few answers of every kind: repeated, scoped and unreadable entries,    *)
(* every form of a retry hint, and headers with and without a reset.        *)
EXTENDS Observations

NoField == [utilization |-> Missing, reset |-> Missing]
Legacy(percent, reset) ==
    [[s \in Slots |-> NoField] EXCEPT !["five_hour"] = [utilization |-> percent, reset |-> reset]]
Limit(kind, scope, percent, utilization, reset) ==
    [kind |-> kind, scope |-> scope, percent |-> percent, utilization |-> utilization, reset |-> reset]

NoRawExtra == [enabled |-> "", used |-> Missing, limit |-> Missing, utilization |-> Missing, unit |-> ""]
RawAmounts == [enabled |-> "yes", used |-> 3, limit |-> 4, utilization |-> Missing, unit |-> "USD"]
RawPercent == [NoRawExtra EXCEPT !.utilization = 5]

Body(legacy, limits, raw) ==
    [kind |-> "body", body |-> [legacy |-> legacy, limits |-> limits, extra |-> raw]]

MCBodies ==
    {Body(Legacy(95, 3), <<>>, RawAmounts),
     Body(Legacy(95, Missing),
          <<Limit("session", {}, 95, Missing, 2), Limit("session", {}, 10, Missing, 4),
            Limit("weekly_all", {}, 95, 10, Missing), Limit("weekly_all", {}, 10, Missing, 2)>>,
          NoRawExtra),
     Body(Legacy(10, Malformed),
          <<Limit("session", {}, 10, Missing, Missing),
            Limit("weekly_scoped", {"fable", "opus"}, 95, Missing, Missing),
            Limit("weekly_scoped", {"fable"}, Missing, 95, Missing),
            Limit("weekly_all", {}, Malformed, 95, Missing)>>,
          RawPercent),
     Body(Legacy(101, Missing), <<Limit("session", {}, 10, Missing, Malformed)>>, RawAmounts)}

NoRetry == [form |-> "none", value |-> 0]
Status(status, retryAfter, resets) ==
    [kind |-> "status", status |-> status, headers |-> [retryAfter |-> retryAfter, resets |-> resets]]

MCFailed ==
    {Status(401, NoRetry, {}),
     Status(429, [form |-> "date", value |-> 3], {2}),
     Status(429, NoRetry, {2, 4}),
     Status(503, [form |-> "seconds", value |-> 9], {}),
     [kind |-> "broken"]}

MCAnswers == MCBodies \cup MCFailed

HeaderFields(utilization, rejected, reset) ==
    [utilization |-> utilization, rejected |-> rejected, reset |-> reset]
Headers(five, week, fable, overage) ==
    [windows |-> ("5h" :> five @@ "7d" :> week @@ "7d_oi" :> fable), overage |-> overage]
Overage(utilization, reset, status) ==
    [utilization |-> utilization, reset |-> reset, status |-> status]

MCHeaders ==
    {Headers(HeaderFields(10, FALSE, 3), HeaderFields(Malformed, TRUE, 4),
             HeaderFields(Missing, TRUE, Missing), Overage(7, 4, "allowed")),
     Headers(HeaderFields(Missing, TRUE, Missing), HeaderFields(Missing, FALSE, 4),
             HeaderFields(150, FALSE, 3), Overage(Missing, Malformed, "rejected"))}

MCFamilies == {"fable"}
RequestSymmetry == Permutations(Requests)
=============================================================================
