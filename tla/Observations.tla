---------------------------- MODULE Observations ----------------------------
(***************************************************************************)
(* From what upstream says to what the cache knows: one usage poll at a    *)
(* time and any number of responses, each read by UpstreamAnswers and then *)
(* committed, its windows and its extra usage in critical sections of      *)
(* their own, while the host's listings and token rotations change the     *)
(* credentials they speak of.                                              *)
(*                                                                         *)
(* What leads up to a fetch, and how a response finds its credential, is   *)
(* the subject of Router; here a poll and a response just hold the token   *)
(* of the credential they began with, and speak of its account.            *)
(***************************************************************************)
EXTENDS UpstreamAnswers, QuotaCache

CONSTANTS Requests,         \* concurrent responses
          Answers,          \* answers of the usage endpoint
          ResponseHeaders,  \* [windows, overage] of a response
          ResponseFamilies, \* families of the requested models
          Cutoff,           \* cutoff-percent-used
          MaxNow, MaxListings, MaxPolls  \* bounds on the clock, the reconciled listings, the polls

ASSUME ObservationsAssumption == {Cutoff, MaxNow, MaxListings, MaxPolls} \subseteq Nat

\* What a failed answer's headers may say: a delay or an instant.  A body has
\* a list of entries; a reset of it is an instant, absent or unreadable.
ASSUME AnswersAssumption ==
    \A answer \in Answers :
        /\ answer.kind \in {"status", "broken", "body"}
        /\ answer.kind = "status" =>
              answer.headers.retryAfter.value \in Nat /\ answer.headers.resets \subseteq Nat
        /\ answer.kind = "body" =>
              LET limits == answer.body.limits
                  legacy == answer.body.legacy
              IN  /\ Len(limits) \in Nat /\ DOMAIN limits = 1..Len(limits)
                  /\ {limits[i].reset : i \in DOMAIN limits} \cup {legacy[slot].reset : slot \in Slots}
                         \subseteq Nat \cup {Missing, Malformed}

VARIABLES now,
          spent,      \* listings reconciled and polls started so far
          extra,      \* quotaSample.Extra of every auth ID
          poll,       \* the usage poll of the refresh worker
          responses,  \* responses whose headers are observed
          origin      \* ghost: whose each part of extra is, and when its status was observed

vars == <<samples, nextIncarnation, now, spent, extra, poll, responses, origin>>

NoToken == [identity |-> None, revision |-> None, generation |-> 0, incarnation |-> 0]
NoAnswer == [kind |-> "none"]
NoPoll == [pc |-> "idle", id |-> 0, token |-> NoToken, account |-> None, startedAt |-> NoTime,
           answer |-> NoAnswer, answeredAt |-> NoTime]
NoResponse == [pc |-> "idle", id |-> 0, token |-> NoToken, account |-> None,
               windows |-> NoWindows, extra |-> NoExtra, observedAt |-> NoTime]
NoOrigin == [percent |-> None, status |-> None, amounts |-> None, statusAt |-> NoTime]

Init ==
    /\ CacheInit
    /\ now = 1
    /\ spent = [listings |-> 0, polls |-> 0]
    /\ extra = [id \in AuthIDs |-> NoExtra]
    /\ poll = NoPoll
    /\ responses = [r \in Requests |-> NoResponse]
    /\ origin = [id \in AuthIDs |-> NoOrigin]

TokenOf(id) == [identity |-> samples[id].identity, revision |-> None,
                generation |-> samples[id].generation, incarnation |-> samples[id].incarnation]

\* reconcile: only a credential that stays keeps its extra usage.
Relist ==
    /\ spent.listings < MaxListings
    /\ spent' = [spent EXCEPT !.listings = @ + 1]
    /\ \E listed \in SUBSET AuthIDs :
       \E listing \in [listed -> [identity : Identities, listRevision : ListRevisions]] :
          LET kept == listed \ Fresh(listing)
          IN  /\ Reconcile(listing)
              /\ extra' = [id \in AuthIDs |-> IF id \in kept THEN extra[id] ELSE NoExtra]
              /\ origin' = [id \in AuthIDs |-> IF id \in kept THEN origin[id] ELSE NoOrigin]
    /\ UNCHANGED <<now, poll, responses>>

-----------------------------------------------------------------------------
(* The usage poll *)

PollStart ==
    /\ poll.pc = "idle"
    /\ spent.polls < MaxPolls
    /\ spent' = [spent EXCEPT !.polls = @ + 1]
    /\ \E id \in Members :
          poll' = [NoPoll EXCEPT !.pc = "binding", !.id = id, !.token = TokenOf(id),
                                 !.account = samples[id].identity, !.startedAt = now]
    /\ UNCHANGED <<cacheVars, now, extra, responses, origin>>

\* A rotation starts a new incarnation and keeps the extra usage: it is billed
\* per account.
PollBind ==
    /\ poll.pc = "binding"
    /\ \E revision \in Revisions :
          IF BindAllowed(poll.id, poll.token)
          THEN /\ BindRevision(poll.id, poll.token, revision)
               /\ poll' = [poll EXCEPT !.pc = "fetching",
                                       !.token.revision = revision,
                                       !.token.incarnation = samples'[poll.id].incarnation]
          ELSE poll' = NoPoll /\ UNCHANGED cacheVars
    /\ UNCHANGED <<now, spent, extra, responses, origin>>

PollAnswer ==
    /\ poll.pc = "fetching"
    /\ \E answer \in Answers :
          poll' = [poll EXCEPT !.pc = "settling", !.answer = answer, !.answeredAt = now]
    /\ UNCHANGED <<cacheVars, now, spent, extra, responses, origin>>

Result == UsageResult(poll.answer, poll.answeredAt)

\* A usage object without anything to show is as good as none.
PollExtra == UsageExtra(poll.answer.body.extra)

PollCommit ==
    /\ poll.pc = "settling"
    /\ Result.kind = "usage"
    /\ IF CommitAllowed(poll.id, poll.token)
       THEN CommitWindowBatch(poll.id, poll.token, Result.windows, now, poll.startedAt, TRUE)
       ELSE UNCHANGED cacheVars
    /\ poll' = IF ExtraEmpty(PollExtra) THEN NoPoll ELSE [poll EXCEPT !.pc = "sharing"]
    /\ UNCHANGED <<now, spent, extra, responses, origin>>

\* Mutant: the extra usage goes to whatever credential the auth ID has now.
ExtraLandsAnyway(id, token) == Held(id)

\* commitExtraUsage compares the generation and the incarnation.
ExtraLands(id, token) ==
    /\ Held(id)
    /\ samples[id].generation = token.generation
    /\ samples[id].incarnation = token.incarnation

\* It does not matter whether the windows of the poll landed.
PollCommitExtra ==
    /\ poll.pc = "sharing"
    /\ IF ExtraLands(poll.id, poll.token)
       THEN LET merged == MergeUsage(extra[poll.id], PollExtra, now)
            IN  /\ extra' = [extra EXCEPT ![poll.id] = merged]
                /\ origin' = [origin EXCEPT
                       ![poll.id].percent = IF merged.percent = extra[poll.id].percent THEN @
                                            ELSE poll.account,
                       ![poll.id].amounts = IF OwnsAmounts(PollExtra) THEN poll.account ELSE @]
       ELSE UNCHANGED <<extra, origin>>
    /\ poll' = NoPoll
    /\ UNCHANGED <<cacheVars, now, spent, responses>>

PollFail ==
    /\ poll.pc = "settling"
    /\ Result.kind = "failure"
    /\ \/ RecordRefreshFailure(poll.id, poll.token, Result.category, Result.hint, now)
       \/ /\ ~(/\ Held(poll.id) /\ SampleMatches(samples[poll.id], poll.token)
               /\ samples[poll.id].incarnation = poll.token.incarnation)
          /\ UNCHANGED cacheVars
    /\ poll' = NoPoll
    /\ UNCHANGED <<now, spent, extra, responses, origin>>

-----------------------------------------------------------------------------
(* observeResponseHeaders *)

SelectAuth(r) ==
    /\ responses[r].pc = "idle"
    /\ \E id \in Members :
          responses' = [responses EXCEPT ![r] = [NoResponse EXCEPT
              !.pc = "upstream", !.id = id, !.token = [TokenOf(id) EXCEPT !.identity = None],
              !.account = samples[id].identity]]
    /\ UNCHANGED <<cacheVars, now, spent, extra, poll, origin>>

\* The headers are read before either commit.
Observe(r) ==
    /\ responses[r].pc = "upstream"
    /\ \E headers \in ResponseHeaders, family \in ResponseFamilies :
          responses' = [responses EXCEPT ![r].pc = "observed",
                                         ![r].windows = HeaderWindows(headers.windows, family, Cutoff),
                                         ![r].extra = OverageExtra(headers.overage, now),
                                         ![r].observedAt = now]
    /\ UNCHANGED <<cacheVars, now, spent, extra, poll, origin>>

LandExtra(r) ==
    /\ responses[r].pc = "observed"
    /\ LET seen == responses[r]
           merged == MergeHeaders(extra[seen.id], seen.extra)
       IN  IF ~ExtraEmpty(seen.extra) /\ ExtraLands(seen.id, seen.token)
           THEN /\ extra' = [extra EXCEPT ![seen.id] = merged]
                /\ origin' = IF merged = extra[seen.id] THEN origin
                             ELSE [origin EXCEPT
                                 ![seen.id].percent = IF seen.extra.percent = Missing THEN @
                                                      ELSE seen.account,
                                 ![seen.id].status = seen.account,
                                 ![seen.id].statusAt = seen.observedAt]
           ELSE UNCHANGED <<extra, origin>>
    /\ responses' = [responses EXCEPT ![r].pc = "landing"]
    /\ UNCHANGED <<cacheVars, now, spent, poll>>

LandWindows(r) ==
    /\ responses[r].pc = "landing"
    /\ LET seen == responses[r]
       IN  IF CommitAllowed(seen.id, seen.token)
           THEN CommitWindowBatch(seen.id, seen.token, seen.windows, seen.observedAt, NoTime, FALSE)
           ELSE UNCHANGED cacheVars
    /\ responses' = [responses EXCEPT ![r] = [NoResponse EXCEPT !.pc = "done"]]
    /\ UNCHANGED <<now, spent, extra, poll, origin>>

Tick ==
    /\ now < MaxNow
    /\ now' = now + 1
    /\ UNCHANGED <<cacheVars, spent, extra, poll, responses, origin>>

Next ==
    \/ Relist
    \/ PollStart \/ PollBind \/ PollAnswer \/ PollCommit \/ PollCommitExtra \/ PollFail
    \/ \E r \in Requests : SelectAuth(r) \/ Observe(r) \/ LandExtra(r) \/ LandWindows(r)
    \/ Tick

Spec == Init /\ [][Next]_vars
-----------------------------------------------------------------------------
(* Properties *)

\* The extra usage that is shown for a credential is that of its account:
\* what a poll or a response brings for an account that was replaced
\* meanwhile is dropped, and a rotated token keeps what its account has.
ExtraOfListedAccount ==
    \A id \in Members :
        {origin[id].percent, origin[id].status, origin[id].amounts} \subseteq {None, samples[id].identity}

\* The status and the reset that headers own are never taken back to an
\* older observation, in whatever order responses land among the polls.
StatusNeverRegresses ==
    [][\A id \in Members :
          samples'[id].identity = samples[id].identity
              => origin'[id].statusAt >= origin[id].statusAt]_vars

\* What a body says of a slot: the entries of its list, or else its top-level key.
Reports(body, slot) ==
    LET spoken == {limit \in Range(body.limits) : Speaks(limit, slot)}
    IN  IF spoken = {} THEN {LegacyWindow(body, slot)} ELSE {LimitWindow(limit) : limit \in spoken}

\* A slot that a poll updates blocks whenever one of the entries that speak of
\* it blocks, and it blocks only when one is exhausted and one has not reset:
\* the order of the list and repeated entries make no difference.
WindowsMatchReports ==
    [][poll.pc = "settling" /\ Result.kind = "usage" /\ poll' # poll =>
          \A slot \in Slots :
             LET window == samples'[poll.id].windows[slot]
                 reports == Reports(poll.answer.body, slot)
             IN  window # samples[poll.id].windows[slot] =>
                    \A t \in now..(now + MaxNow) :
                       /\ (\E w \in reports : Blocks(w, t, Cutoff)) => Blocks(window, t, Cutoff)
                       /\ Blocks(window, t, Cutoff) =>
                             /\ \E w \in reports : w.percent >= Cutoff
                             /\ \E w \in reports : w.resetAt = NoTime \/ t < w.resetAt]_vars

\* The instant an answer asks the router to wait for, if any.
Asked(headers, at) ==
    CASE headers.retryAfter.form = "seconds" -> at + headers.retryAfter.value
      [] headers.retryAfter.form = "date" -> headers.retryAfter.value
      [] OTHER -> IF \E reset \in headers.resets : reset > at
                  THEN Min({reset \in headers.resets : reset > at}) ELSE at

\* The pause that follows a failed fetch reaches as far as upstream asked (up
\* to BackoffHeaderMax), also when it is recorded some time after the answer;
\* it is finite, and a rate limit always pauses.
PauseReachesHint ==
    [][\A id \in Members :
          samples'[id].failures > samples[id].failures /\ poll.pc = "settling" =>
             LET until == samples'[id].nextRefreshAt
             IN  /\ until <= now + LongestPause
                 /\ poll.answer.kind = "status" =>
                       /\ until >= AtMost(poll.answeredAt + BackoffHeaderMax,
                                          Asked(poll.answer.headers, poll.answeredAt))
                       /\ poll.answer.status = 429 => until >= now + BackoffBase]_vars
=============================================================================
