------------------------- MODULE ObservationsProofs -------------------------
(***************************************************************************)
(* Whose extra usage the cache holds, and that its status only gets newer; *)
(* how long the pause after a failed fetch is; and what the list of a      *)
(* usage body makes of the windows: for any number of credentials and      *)
(* responses, and answers of any length.                                   *)
(***************************************************************************)
EXTENDS Observations, QuotaCacheProofs, QuotaWindowsProofs

-----------------------------------------------------------------------------
(* The inductive invariant *)

ExtraFields == DOMAIN NoExtra
OriginRecord == [percent : Identities \cup {None}, status : Identities \cup {None},
                 amounts : Identities \cup {None}, statusAt : Nat]

Shape ==
    /\ CacheShape
    /\ now \in Nat
    /\ extra = [id \in AuthIDs |-> extra[id]]
    /\ \A id \in AuthIDs : DOMAIN extra[id] = ExtraFields /\ extra[id].sampledAt \in Nat
    /\ origin \in [AuthIDs -> OriginRecord]
    /\ DOMAIN poll = DOMAIN NoPoll
    /\ DOMAIN poll.token = DOMAIN NoToken
    /\ responses = [r \in Requests |-> responses[r]]
    /\ \A r \in Requests : DOMAIN responses[r] = DOMAIN NoResponse

\* Who holds a token of an incarnation that is still there speaks of its account.
Holds(holder) ==
    /\ holder.id \in AuthIDs
    /\ holder.token.incarnation \in 1..nextIncarnation
    /\ samples[holder.id].incarnation = holder.token.incarnation
           => samples[holder.id].identity = holder.account

Holders ==
    /\ poll.pc # "idle" => Holds(poll)
    /\ \A r \in Requests : responses[r].pc \in {"upstream", "observed", "landing"} => Holds(responses[r])

\* A response carries its observation time in the extra usage it read.
Timed ==
    \A r \in Requests :
        responses[r].pc = "observed" =>
            /\ responses[r].extra.sampledAt = responses[r].observedAt
            /\ responses[r].observedAt \in Nat

\* The stored sample is at least as new as the observation of its status.
StatusDated == \A id \in AuthIDs : origin[id].statusAt <= extra[id].sampledAt

ObservationsInv == Shape /\ Holders /\ Timed /\ StatusDated /\ ExtraOfListedAccount

-----------------------------------------------------------------------------
(* Facts about the steps *)

\* A token stays good, or goes stale, when credentials keep their identity or
\* get an incarnation that was never used.
LEMMA HoldsAfter ==
    ASSUME CacheShape, NEW holder, Holds(holder),
           nextIncarnation' \in Nat, nextIncarnation' >= nextIncarnation,
           \A id \in AuthIDs : \/ SameCredential(id)
                               \/ samples'[id].incarnation > nextIncarnation
                               \/ samples'[id].incarnation = 0
    PROVE  /\ holder.id \in AuthIDs
           /\ holder.token.incarnation \in 1..nextIncarnation'
           /\ samples'[holder.id].incarnation = holder.token.incarnation
                  => samples'[holder.id].identity = holder.account
BY DEF CacheShape, Holds, SameCredential

\* A poll never makes the stored sample older.
LEMMA UsageMerged ==
    ASSUME NEW current, NEW next, NEW at \in Nat,
           DOMAIN current = ExtraFields, current.sampledAt \in Nat
    PROVE  /\ DOMAIN MergeUsage(current, next, at) = ExtraFields
           /\ MergeUsage(current, next, at).sampledAt \in {current.sampledAt, at}
           /\ MergeUsage(current, next, at).sampledAt >= current.sampledAt
<1> DEFINE amounts == IF OwnsAmounts(next)
                      THEN [current EXCEPT !.enabled = next.enabled, !.used = next.used,
                                           !.limit = next.limit, !.unit = next.unit,
                                           !.amountsAt = at]
                      ELSE current
<1>1. DOMAIN amounts = ExtraFields /\ amounts.sampledAt = current.sampledAt
  BY DEF ExtraFields, NoExtra
<1>2. MergeUsage(current, next, at) =
         IF next.percent # Missing /\ at >= current.sampledAt
         THEN [amounts EXCEPT !.percent = next.percent, !.sampledAt = at] ELSE amounts
  BY DEF MergeUsage
<1> HIDE DEF amounts
<1>. QED
  BY <1>1, <1>2 DEF ExtraFields, NoExtra

\* Headers change the stored sample only when they are at least as new.
LEMMA HeadersMerged ==
    ASSUME NEW current, NEW next, DOMAIN current = ExtraFields,
           current.sampledAt \in Nat, next.sampledAt \in Nat
    PROVE  /\ DOMAIN MergeHeaders(current, next) = ExtraFields
           /\ MergeHeaders(current, next).sampledAt \in Nat
           /\ MergeHeaders(current, next) # current =>
                 /\ MergeHeaders(current, next).sampledAt = next.sampledAt
                 /\ next.sampledAt >= current.sampledAt
<1>1. CASE next.sampledAt < current.sampledAt
  BY <1>1 DEF MergeHeaders
<1>2. CASE ~(next.sampledAt < current.sampledAt)
  BY <1>2 DEF MergeHeaders, ExtraFields, NoExtra
<1>. QED
  BY <1>1, <1>2

-----------------------------------------------------------------------------
(* The steps, by the part of the state they change *)

\* The initial state.
LEMMA InitInv == Init => ObservationsInv
<1>1. SUFFICES ASSUME Init PROVE ObservationsInv
  OBVIOUS
<1>2. CacheShape
  BY <1>1, CacheInitShape DEF Init
<1>3. Shape
  BY <1>1, <1>2, NoneAssumption
     DEF Init, Shape, NoExtra, ExtraFields, NoOrigin, OriginRecord, NoTime, NoPoll, NoResponse
<1>4. Holders /\ Timed
  BY <1>1 DEF Init, Holders, Timed, NoPoll, NoResponse
<1>5. StatusDated /\ ExtraOfListedAccount
  <2>1. \A id \in AuthIDs : /\ origin[id] = NoOrigin /\ extra[id] = NoExtra
    BY <1>1 DEF Init
  <2>2. NoOrigin.statusAt = 0 /\ NoExtra.sampledAt = 0
        /\ {NoOrigin.percent, NoOrigin.status, NoOrigin.amounts} = {None}
    BY DEF NoOrigin, NoExtra, NoTime
  <2>. QED
    BY <2>1, <2>2 DEF StatusDated, ExtraOfListedAccount, Members
<1>. QED
  BY <1>3, <1>4, <1>5 DEF ObservationsInv

\* Holders whose tokens are left alone stay holders when the cache moves on.
LEMMA HoldersAfter ==
    ASSUME Shape, Holders, nextIncarnation' \in Nat, nextIncarnation' >= nextIncarnation,
           \A id \in AuthIDs : \/ SameCredential(id)
                               \/ samples'[id].incarnation > nextIncarnation
                               \/ samples'[id].incarnation = 0,
           responses' = responses
    PROVE  /\ \A r \in Requests :
                 responses[r].pc \in {"upstream", "observed", "landing"} => Holds(responses[r])'
           /\ poll.pc # "idle" /\ poll' = poll => Holds(poll)'
<1>1. CacheShape
  BY DEF Shape
<1>2. ASSUME NEW r \in Requests, responses[r].pc \in {"upstream", "observed", "landing"}
      PROVE  Holds(responses[r])'
  BY <1>1, <1>2, HoldsAfter DEF Holders, Holds
<1>3. ASSUME poll.pc # "idle", poll' = poll PROVE Holds(poll)'
  BY <1>1, <1>3, HoldsAfter DEF Holders, Holds
<1>. QED
  BY <1>2, <1>3

\* A reconciled listing drops the extra usage with the credential.
LEMMA RelistInv == ASSUME ObservationsInv, Relist PROVE ObservationsInv'
<1>1. PICK listed \in SUBSET AuthIDs :
      \E listing \in [listed -> [identity : Identities, listRevision : ListRevisions]] :
         LET kept == listed \ Fresh(listing)
         IN  /\ Reconcile(listing)
             /\ extra' = [id \in AuthIDs |-> IF id \in kept THEN extra[id] ELSE NoExtra]
             /\ origin' = [id \in AuthIDs |-> IF id \in kept THEN origin[id] ELSE NoOrigin]
  BY DEF Relist
<1>2. PICK listing \in [listed -> [identity : Identities, listRevision : ListRevisions]] :
         /\ Reconcile(listing)
         /\ extra' = [id \in AuthIDs |-> IF id \in listed \ Fresh(listing) THEN extra[id] ELSE NoExtra]
         /\ origin' = [id \in AuthIDs |-> IF id \in listed \ Fresh(listing) THEN origin[id] ELSE NoOrigin]
  BY <1>1
<1>3. now' = now /\ poll' = poll /\ responses' = responses
  BY DEF Relist
<1>4. CacheShape /\ DOMAIN listing = listed
      /\ \A id \in DOMAIN listing : listing[id].identity \in Identities
  BY DEF ObservationsInv, Shape
<1>5. /\ CacheShape'
      /\ nextIncarnation' >= nextIncarnation
      /\ \A id \in listed \ Fresh(listing) : Held(id) /\ SameCredential(id)
      /\ \A id \in Fresh(listing) : samples'[id].incarnation > nextIncarnation
      /\ \A id \in AuthIDs \ listed : samples'[id] = NoSample
  BY <1>2, <1>4, ReconcileCredentials
<1>6. \A id \in AuthIDs : \/ SameCredential(id)
                          \/ samples'[id].incarnation > nextIncarnation
                          \/ samples'[id].incarnation = 0
  BY <1>5 DEF NoSample
<1>7. Shape'
  BY <1>2, <1>3, <1>5, NoneAssumption
     DEF ObservationsInv, Shape, ExtraFields, NoExtra, NoOrigin, OriginRecord, NoTime
<1>8. Holders'
  BY <1>3, <1>5, <1>6, HoldersAfter DEF ObservationsInv, Holders, CacheShape
<1>9. Timed'
  BY <1>3 DEF ObservationsInv, Timed
<1>10. StatusDated'
  <2>1. NoOrigin.statusAt = 0 /\ NoExtra.sampledAt = 0
    BY DEF NoExtra, NoOrigin, NoTime
  <2>2. \A id \in AuthIDs : \/ origin'[id] = origin[id] /\ extra'[id] = extra[id]
                            \/ origin'[id] = NoOrigin /\ extra'[id] = NoExtra
    BY <1>2
  <2>. QED
    BY <2>1, <2>2 DEF ObservationsInv, StatusDated
<1>11. ExtraOfListedAccount'
  BY <1>2, <1>5 DEF ObservationsInv, ExtraOfListedAccount, Members, Held, SameCredential, NoOrigin
<1>. QED
  BY <1>7, <1>8, <1>9, <1>10, <1>11 DEF ObservationsInv

\* A poll starts with the token of a credential that is there.
LEMMA PollStartInv == ASSUME ObservationsInv, PollStart PROVE ObservationsInv'
<1>1. PICK id \in Members :
         poll' = [NoPoll EXCEPT !.pc = "binding", !.id = id, !.token = TokenOf(id),
                                !.account = samples[id].identity, !.startedAt = now]
  BY DEF PollStart
<1>2. UNCHANGED <<cacheVars, now, extra, responses, origin>>
  BY DEF PollStart
<1>3. Shape'
  BY <1>1, <1>2 DEF ObservationsInv, Shape, CacheShape, cacheVars, NoPoll, TokenOf, NoToken, Members, Held
<1>4. Holds(poll)'
  BY <1>1, <1>2 DEF ObservationsInv, Shape, CacheShape, cacheVars, NoPoll, TokenOf, Holds, Members, Held
<1>5. Holders' /\ Timed' /\ StatusDated' /\ ExtraOfListedAccount'
  BY <1>2, <1>4 DEF ObservationsInv, Holders, Holds, Timed, StatusDated, ExtraOfListedAccount,
                    Members, Held, cacheVars
<1>. QED
  BY <1>3, <1>5 DEF ObservationsInv

\* The token of a poll follows the incarnation that its binding starts.
LEMMA PollBindInv == ASSUME ObservationsInv, PollBind PROVE ObservationsInv'
<1>1. UNCHANGED <<now, extra, responses, origin>> /\ poll.pc = "binding"
  BY DEF PollBind
<1>2. CacheShape /\ Shape /\ Holders /\ Holds(poll)
  BY <1>1 DEF ObservationsInv, Shape, Holders
<1>3. CASE poll' = NoPoll /\ UNCHANGED cacheVars
  <2>1. Shape'
    BY <1>1, <1>3 DEF ObservationsInv, Shape, CacheShape, cacheVars, NoPoll, Members, Held
  <2>2. Holders' /\ Timed' /\ StatusDated' /\ ExtraOfListedAccount'
    BY <1>1, <1>3 DEF ObservationsInv, Holders, Holds, Timed, StatusDated, ExtraOfListedAccount,
                      Members, Held, cacheVars, NoPoll
  <2>. QED
    BY <2>1, <2>2 DEF ObservationsInv
<1>4. ASSUME NEW revision \in Revisions,
             BindAllowed(poll.id, poll.token),
             BindRevision(poll.id, poll.token, revision),
             poll' = [poll EXCEPT !.pc = "fetching", !.token.revision = revision,
                                  !.token.incarnation = samples'[poll.id].incarnation]
      PROVE  ObservationsInv'
  <2>1. poll.id \in AuthIDs /\ samples[poll.id].identity = poll.account
    BY <1>2, <1>4 DEF Holds, BindAllowed
  <2>2. /\ CacheShape'
        /\ nextIncarnation' >= nextIncarnation
        /\ samples'[poll.id].incarnation # 0
        /\ \A other \in AuthIDs \ {poll.id} : SameCredential(other)
        /\ samples'[poll.id].identity = samples[poll.id].identity
        /\ samples'[poll.id].incarnation \in {samples[poll.id].incarnation, nextIncarnation + 1}
    BY <1>2, <1>4, <2>1, BindCredentials
  <2>3. /\ poll'.pc = "fetching" /\ poll'.id = poll.id /\ poll'.account = poll.account
        /\ poll'.token.incarnation = samples'[poll.id].incarnation
        /\ DOMAIN poll' = DOMAIN NoPoll /\ DOMAIN poll'.token = DOMAIN NoToken
    BY <1>2, <1>4 DEF Shape, NoPoll, NoToken
  <2>4. Holds(poll)'
    BY <2>1, <2>2, <2>3 DEF Holds, CacheShape
  <2>5. \A id \in AuthIDs : \/ SameCredential(id)
                            \/ samples'[id].incarnation > nextIncarnation
                            \/ samples'[id].incarnation = 0
    BY <1>2, <2>2 DEF SameCredential, CacheShape
  <2>6. Holders'
    BY <1>1, <1>2, <2>2, <2>4, <2>5, HoldersAfter DEF Holders, CacheShape
  <2>7. Shape'
    BY <1>1, <2>2, <2>3 DEF ObservationsInv, Shape
  <2>8. \A id \in AuthIDs : samples'[id].identity = samples[id].identity
    BY <2>2 DEF SameCredential
  <2>9. \A id \in AuthIDs : samples'[id].incarnation # 0 => samples[id].incarnation # 0
    BY <1>4, <2>2 DEF SameCredential, BindAllowed, Held
  <2>10. Timed' /\ StatusDated' /\ ExtraOfListedAccount'
    BY <1>1, <2>8, <2>9 DEF ObservationsInv, Timed, StatusDated, ExtraOfListedAccount, Members, Held
  <2>. QED
    BY <2>6, <2>7, <2>10 DEF ObservationsInv
<1>. QED
  BY <1>3, <1>4 DEF PollBind

Active == {"upstream", "observed", "landing"}

\* The poll moves on with the token it has, or ends.
SamePoll ==
    /\ DOMAIN poll' = DOMAIN NoPoll
    /\ DOMAIN poll'.token = DOMAIN NoToken
    /\ poll'.pc # "idle" => /\ poll.pc # "idle"
                            /\ poll'.id = poll.id
                            /\ poll'.token = poll.token
                            /\ poll'.account = poll.account

\* So does every response, and what it holds is dated.
SameResponses ==
    /\ responses' = [r \in Requests |-> responses'[r]]
    /\ \A r \in Requests :
          /\ DOMAIN responses'[r] = DOMAIN NoResponse
          /\ responses'[r].pc \in Active => /\ responses[r].pc \in Active
                                            /\ responses'[r].id = responses[r].id
                                            /\ responses'[r].token = responses[r].token
                                            /\ responses'[r].account = responses[r].account
    /\ Timed'

SameCache ==
    /\ CacheShape'
    /\ nextIncarnation' = nextIncarnation
    /\ \A id \in AuthIDs : SameCredential(id)

\* Steps that leave the credentials and every token alone keep the holders.
LEMMA HoldersKept ==
    ASSUME ObservationsInv, SameCache, SamePoll, SameResponses
    PROVE  Holders'
<1>1. ASSUME poll'.pc # "idle" PROVE Holds(poll)'
  BY <1>1 DEF ObservationsInv, Holders, Holds, SamePoll, SameCache, SameCredential
<1>2. ASSUME NEW r \in Requests, responses'[r].pc \in Active PROVE Holds(responses[r])'
  BY <1>2 DEF ObservationsInv, Holders, Holds, SameResponses, SameCache, SameCredential, Active
<1>. QED
  BY <1>1, <1>2 DEF Holders, Active

\* A poll or a response that leaves the extra usage alone keeps the invariant.
LEMMA QuietInv ==
    ASSUME ObservationsInv, SameCache, SamePoll, SameResponses,
           now' \in Nat, UNCHANGED <<extra, origin>>
    PROVE  ObservationsInv'
<1>1. Shape'
  BY DEF ObservationsInv, Shape, SameCache, SamePoll, SameResponses
<1>2. StatusDated' /\ ExtraOfListedAccount'
  BY DEF ObservationsInv, StatusDated, ExtraOfListedAccount, Members, Held, SameCache, SameCredential
<1>. QED
  BY <1>1, <1>2, HoldersKept DEF ObservationsInv, SameResponses

\* What leaves a part of the state alone leaves it the same.
LEMMA Unmoved ==
    ASSUME ObservationsInv
    PROVE  /\ UNCHANGED cacheVars => SameCache
           /\ poll' \in {poll, NoPoll} => SamePoll
           /\ responses' = responses => SameResponses
<1>1. ASSUME UNCHANGED cacheVars PROVE SameCache
  BY <1>1 DEF ObservationsInv, Shape, CacheShape, SameCache, SameCredential, cacheVars, Members, Held
<1>2. ASSUME poll' \in {poll, NoPoll} PROVE SamePoll
  BY <1>2 DEF ObservationsInv, Shape, SamePoll, NoPoll
<1>3. ASSUME responses' = responses PROVE SameResponses
  BY <1>3 DEF ObservationsInv, Shape, Timed, SameResponses
<1>. QED
  BY <1>1, <1>2, <1>3

\* A poll that gets its answer, commits its windows or records its failure.
LEMMA PollStepInv ==
    ASSUME ObservationsInv, PollAnswer \/ PollCommit \/ PollFail
    PROVE  ObservationsInv'
<1>1. CacheShape /\ (poll.pc # "idle" => poll.id \in AuthIDs) /\ now \in Nat
      /\ DOMAIN poll = DOMAIN NoPoll /\ DOMAIN poll.token = DOMAIN NoToken
  BY DEF ObservationsInv, Shape, Holders, Holds
<1>2. CASE PollAnswer
  <2>1. PICK answer \in Answers :
           poll' = [poll EXCEPT !.pc = "settling", !.answer = answer, !.answeredAt = now]
    BY <1>2 DEF PollAnswer
  <2>2. poll.pc = "fetching"
    BY <1>2 DEF PollAnswer
  <2>3. SamePoll
    BY <1>1, <2>1, <2>2 DEF SamePoll, NoPoll
  <2>. QED
    BY <1>1, <1>2, <2>3, Unmoved, QuietInv DEF PollAnswer
<1>3. CASE PollCommit
  <2>1. poll.pc = "settling" /\ poll.id \in AuthIDs
    BY <1>1, <1>3 DEF PollCommit
  <2>2. SamePoll
    <3>1. CASE poll' = NoPoll
      BY <3>1, Unmoved
    <3>2. CASE poll' = [poll EXCEPT !.pc = "sharing"]
      BY <1>1, <2>1, <3>2 DEF SamePoll, NoPoll
    <3>. QED
      BY <1>3, <3>1, <3>2 DEF PollCommit
  <2>3. SameCache
    <3>1. CASE CommitWindowBatch(poll.id, poll.token, Result.windows, now, poll.startedAt, TRUE)
      BY <1>1, <2>1, <3>1, CommitCredentials DEF SameCache
    <3>. QED
      BY <1>3, <3>1, Unmoved DEF PollCommit
  <2>. QED
    BY <1>1, <1>3, <2>2, <2>3, Unmoved, QuietInv DEF PollCommit
<1>4. CASE PollFail
  <2>1. poll.pc = "settling" /\ poll.id \in AuthIDs /\ poll' = NoPoll
    BY <1>1, <1>4 DEF PollFail
  <2>2. SameCache
    <3>1. CASE RecordRefreshFailure(poll.id, poll.token, Result.category, Result.hint, now)
      BY <1>1, <2>1, <3>1, FailureCredentials DEF SameCache
    <3>. QED
      BY <1>4, <3>1, Unmoved DEF PollFail
  <2>. QED
    BY <1>1, <1>4, <2>1, <2>2, Unmoved, QuietInv DEF PollFail
<1>. QED
  BY <1>2, <1>3, <1>4

\* The headers of a response are dated, and its windows change no credential.
LEMMA ResponseStepInv ==
    ASSUME ObservationsInv, NEW r \in Requests, Observe(r) \/ LandWindows(r)
    PROVE  ObservationsInv'
<1>1. /\ CacheShape /\ now \in Nat
      /\ responses = [q \in Requests |-> responses[q]]
      /\ \A q \in Requests : DOMAIN responses[q] = DOMAIN NoResponse
      /\ \A q \in Requests : responses[q].pc \in Active => responses[q].id \in AuthIDs
  BY DEF ObservationsInv, Shape, Holders, Holds, Active
<1>2. CASE Observe(r)
  <2>1. PICK headers \in ResponseHeaders, family \in ResponseFamilies :
           responses' = [responses EXCEPT
               ![r].pc = "observed",
               ![r].windows = HeaderWindows(headers.windows, family, Cutoff),
               ![r].extra = OverageExtra(headers.overage, now),
               ![r].observedAt = now]
    BY <1>2 DEF Observe
  <2>2. OverageExtra(headers.overage, now).sampledAt = now
    BY DEF OverageExtra, NoExtra
  <2>3. /\ DOMAIN responses'[r] = DOMAIN NoResponse
        /\ responses'[r].pc = "observed"
        /\ responses'[r].extra.sampledAt = now /\ responses'[r].observedAt = now
        /\ responses'[r].id = responses[r].id
        /\ responses'[r].token = responses[r].token
        /\ responses'[r].account = responses[r].account
    BY <1>1, <2>1, <2>2 DEF NoResponse
  <2>4. \A q \in Requests \ {r} : responses'[q] = responses[q]
    BY <1>1, <2>1
  <2>5. responses' = [q \in Requests |-> responses'[q]]
    BY <1>1, <2>1
  <2>6. responses[r].pc \in Active
    BY <1>2 DEF Observe, Active
  <2>7. Timed'
    BY <1>1, <2>3, <2>4 DEF ObservationsInv, Timed
  <2>8. SameResponses
    BY <1>1, <2>3, <2>4, <2>5, <2>6, <2>7 DEF SameResponses
  <2>. QED
    BY <1>1, <1>2, <2>8, Unmoved, QuietInv DEF Observe
<1>3. CASE LandWindows(r)
  <2>1. /\ responses' = [responses EXCEPT ![r] = [NoResponse EXCEPT !.pc = "done"]]
        /\ responses[r].id \in AuthIDs
    BY <1>1, <1>3 DEF LandWindows, Active
  <2>2. responses'[r].pc = "done" /\ DOMAIN responses'[r] = DOMAIN NoResponse
    BY <1>1, <2>1 DEF NoResponse
  <2>3. \A q \in Requests \ {r} : responses'[q] = responses[q]
    BY <1>1, <2>1
  <2>4. responses' = [q \in Requests |-> responses'[q]]
    BY <1>1, <2>1
  <2>5. SameResponses
    BY <1>1, <2>2, <2>3, <2>4 DEF SameResponses, Active, ObservationsInv, Timed
  <2>6. SameCache
    <3>1. CASE CommitWindowBatch(responses[r].id, responses[r].token, responses[r].windows,
                                 responses[r].observedAt, NoTime, FALSE)
      BY <1>1, <2>1, <3>1, CommitCredentials DEF SameCache
    <3>. QED
      BY <1>3, <3>1, Unmoved DEF LandWindows
  <2>. QED
    BY <1>1, <1>3, <2>5, <2>6, Unmoved, QuietInv DEF LandWindows
<1>. QED
  BY <1>2, <1>3

\* A response begins with the token of a credential that is there.
LEMMA SelectAuthInv ==
    ASSUME ObservationsInv, NEW r \in Requests, SelectAuth(r)
    PROVE  ObservationsInv'
<1>1. PICK id \in Members :
         responses' = [responses EXCEPT ![r] = [NoResponse EXCEPT
             !.pc = "upstream", !.id = id, !.token = [TokenOf(id) EXCEPT !.identity = None],
             !.account = samples[id].identity]]
  BY DEF SelectAuth
<1>2. UNCHANGED <<cacheVars, now, spent, extra, poll, origin>>
  BY DEF SelectAuth
<1>3. /\ CacheShape /\ id \in AuthIDs /\ samples[id].incarnation # 0
      /\ responses = [q \in Requests |-> responses[q]]
  BY DEF ObservationsInv, Shape, Members, Held
<1>4. /\ DOMAIN responses'[r] = DOMAIN NoResponse
      /\ responses'[r].pc = "upstream"
      /\ responses'[r].id = id
      /\ responses'[r].token.incarnation = samples[id].incarnation
      /\ responses'[r].account = samples[id].identity
  BY <1>1, <1>3 DEF NoResponse, TokenOf
<1>5. \A q \in Requests \ {r} : responses'[q] = responses[q]
  BY <1>1, <1>3
<1>6. responses' = [q \in Requests |-> responses'[q]]
  BY <1>1, <1>3
<1>7. SameCache
  BY <1>2, Unmoved
<1>8. Shape'
  BY <1>2, <1>4, <1>5, <1>6, <1>7 DEF ObservationsInv, Shape, SameCache
<1>9. Holds(responses[r])'
  BY <1>2, <1>3, <1>4 DEF Holds, CacheShape, cacheVars
<1>10. Holders'
  <2>1. poll'.pc # "idle" => Holds(poll)'
    BY <1>2 DEF ObservationsInv, Holders, Holds, cacheVars
  <2>2. \A q \in Requests \ {r} : responses'[q].pc \in {"upstream", "observed", "landing"}
                                      => Holds(responses[q])'
    BY <1>2, <1>5 DEF ObservationsInv, Holders, Holds, cacheVars
  <2>. QED
    BY <1>9, <2>1, <2>2 DEF Holders
<1>11. Timed'
  BY <1>4, <1>5 DEF ObservationsInv, Timed
<1>12. StatusDated' /\ ExtraOfListedAccount'
  BY <1>2 DEF ObservationsInv, StatusDated, ExtraOfListedAccount, Members, Held, cacheVars
<1>. QED
  BY <1>8, <1>10, <1>11, <1>12 DEF ObservationsInv

\* Extra usage that lands is that of the account the credential has.
LEMMA LandsOnAccount ==
    ASSUME ObservationsInv, NEW holder, Holds(holder), ExtraLands(holder.id, holder.token)
    PROVE  /\ holder.id \in AuthIDs
           /\ samples[holder.id].identity = holder.account
           /\ holder.account \in Identities
BY DEF ObservationsInv, Shape, CacheShape, Holds, ExtraLands, Members, Held

\* The amounts and the percentage of a poll are those of its account.
LEMMA PollCommitExtraInv == ASSUME ObservationsInv, PollCommitExtra PROVE ObservationsInv'
<1>1. Holds(poll) /\ poll' = NoPoll /\ UNCHANGED <<cacheVars, now, responses>>
  BY DEF PollCommitExtra, ObservationsInv, Holders
<1>2. SameCache /\ SamePoll /\ SameResponses
  BY <1>1, Unmoved
<1>3. now \in Nat /\ now' = now
  BY <1>1 DEF ObservationsInv, Shape
<1>4. CASE ExtraLands(poll.id, poll.token)
  <2> DEFINE id == poll.id
             merged == MergeUsage(extra[id], PollExtra, now)
  <2>1. /\ extra' = [extra EXCEPT ![id] = merged]
        /\ origin' = [origin EXCEPT
               ![id].percent = IF merged.percent = extra[id].percent THEN @ ELSE poll.account,
               ![id].amounts = IF OwnsAmounts(PollExtra) THEN poll.account ELSE @]
    BY <1>4 DEF PollCommitExtra
  <2>2. id \in AuthIDs /\ samples[id].identity = poll.account /\ poll.account \in Identities
    BY <1>1, <1>4, LandsOnAccount
  <2>3. /\ DOMAIN extra[id] = ExtraFields /\ extra[id].sampledAt \in Nat
        /\ extra = [i \in AuthIDs |-> extra[i]]
        /\ origin \in [AuthIDs -> OriginRecord]
    BY <2>2 DEF ObservationsInv, Shape
  <2>4. /\ DOMAIN merged = ExtraFields
        /\ merged.sampledAt \in Nat
        /\ merged.sampledAt >= extra[id].sampledAt
    BY <1>3, <2>3, UsageMerged
  <2> HIDE DEF merged
  <2>5. /\ extra'[id] = merged
        /\ extra' = [i \in AuthIDs |-> extra'[i]]
        /\ \A i \in AuthIDs \ {id} : extra'[i] = extra[i]
    BY <2>1, <2>2, <2>3
  <2>6. /\ origin' \in [AuthIDs -> OriginRecord]
        /\ \A i \in AuthIDs \ {id} : origin'[i] = origin[i]
        /\ origin'[id].statusAt = origin[id].statusAt
        /\ origin'[id].status = origin[id].status
        /\ origin'[id].percent \in {origin[id].percent, poll.account}
        /\ origin'[id].amounts \in {origin[id].amounts, poll.account}
    BY <2>1, <2>2, <2>3 DEF OriginRecord
  <2>7. Shape'
    BY <1>2, <1>3, <2>2, <2>4, <2>5, <2>6
       DEF ObservationsInv, Shape, SameCache, SamePoll, SameResponses
  <2>8. StatusDated'
    BY <2>2, <2>3, <2>4, <2>5, <2>6 DEF ObservationsInv, StatusDated, OriginRecord
  <2>9. ExtraOfListedAccount'
    BY <1>1, <2>2, <2>6 DEF ObservationsInv, ExtraOfListedAccount, cacheVars, Members, Held
  <2>. QED
    BY <1>2, <2>7, <2>8, <2>9, HoldersKept DEF ObservationsInv, SameResponses
<1>5. CASE ~ExtraLands(poll.id, poll.token)
  BY <1>2, <1>3, <1>5, QuietInv DEF PollCommitExtra
<1>. QED
  BY <1>4, <1>5

\* So are the percentage and the status of a response, and they are dated.
LEMMA LandExtraInv ==
    ASSUME ObservationsInv, NEW r \in Requests, LandExtra(r)
    PROVE  ObservationsInv' /\ \A id \in AuthIDs : origin'[id].statusAt >= origin[id].statusAt
<1> DEFINE seen == responses[r]
           id == seen.id
           merged == MergeHeaders(extra[id], seen.extra)
<1>1. /\ seen.pc = "observed" /\ UNCHANGED <<cacheVars, now, poll>>
      /\ responses' = [responses EXCEPT ![r].pc = "landing"]
  BY DEF LandExtra
<1>2. /\ Holds(seen) /\ seen.extra.sampledAt = seen.observedAt /\ seen.observedAt \in Nat
      /\ now \in Nat /\ now' = now
      /\ responses = [q \in Requests |-> responses[q]]
      /\ \A q \in Requests : DOMAIN responses[q] = DOMAIN NoResponse
      /\ \A i \in AuthIDs : origin[i].statusAt \in Nat
      /\ origin \in [AuthIDs -> OriginRecord]
  BY <1>1 DEF ObservationsInv, Shape, Holders, Timed, OriginRecord
<1>3. /\ responses'[r].pc = "landing" /\ DOMAIN responses'[r] = DOMAIN NoResponse
      /\ responses'[r].id = responses[r].id
      /\ responses'[r].token = responses[r].token
      /\ responses'[r].account = responses[r].account
      /\ \A q \in Requests \ {r} : responses'[q] = responses[q]
      /\ responses' = [q \in Requests |-> responses'[q]]
  BY <1>1, <1>2 DEF NoResponse
<1>4. SameResponses
  BY <1>1, <1>2, <1>3 DEF SameResponses, Active, ObservationsInv, Timed
<1>5. SameCache /\ SamePoll
  BY <1>1, Unmoved
<1>6. CASE ~ExtraEmpty(seen.extra) /\ ExtraLands(seen.id, seen.token)
  <2>1. /\ extra' = [extra EXCEPT ![id] = merged]
        /\ origin' = IF merged = extra[id] THEN origin
                     ELSE [origin EXCEPT
                         ![id].percent = IF seen.extra.percent = Missing THEN @ ELSE seen.account,
                         ![id].status = seen.account,
                         ![id].statusAt = seen.observedAt]
    BY <1>6 DEF LandExtra
  <2>2. id \in AuthIDs /\ samples[id].identity = seen.account /\ seen.account \in Identities
    BY <1>2, <1>6, LandsOnAccount
  <2>3. /\ DOMAIN extra[id] = ExtraFields /\ extra[id].sampledAt \in Nat
        /\ extra = [i \in AuthIDs |-> extra[i]]
        /\ origin[id].statusAt <= extra[id].sampledAt
    BY <2>2 DEF ObservationsInv, Shape, StatusDated
  <2>4. /\ DOMAIN merged = ExtraFields
        /\ merged.sampledAt \in Nat
        /\ merged # extra[id] => /\ merged.sampledAt = seen.observedAt
                                 /\ seen.observedAt >= extra[id].sampledAt
    BY <1>2, <2>3, HeadersMerged
  <2> HIDE DEF merged, seen, id
  <2>5. /\ extra'[id] = merged
        /\ extra' = [i \in AuthIDs |-> extra'[i]]
        /\ \A i \in AuthIDs \ {id} : extra'[i] = extra[i]
    BY <2>1, <2>2, <2>3
  <2>6. \A i \in AuthIDs \ {id} : origin'[i] = origin[i]
    BY <1>2, <2>1, <2>2
  <2>7. \/ merged = extra[id] /\ origin'[id] = origin[id]
        \/ /\ merged # extra[id]
           /\ origin'[id].statusAt = seen.observedAt
           /\ origin'[id].status = seen.account
           /\ origin'[id].percent \in {origin[id].percent, seen.account}
           /\ origin'[id].amounts = origin[id].amounts
           /\ origin'[id] \in OriginRecord
    <3>1. CASE merged = extra[id]
      BY <2>1, <3>1, <1>2, <2>2
    <3>2. CASE merged # extra[id]
      <4>1. origin' = [origin EXCEPT
               ![id].percent = IF seen.extra.percent = Missing THEN @ ELSE seen.account,
               ![id].status = seen.account,
               ![id].statusAt = seen.observedAt]
        BY <2>1, <3>2
      <4>2. /\ origin[id] \in OriginRecord
            /\ seen.account \in Identities \cup {None}
            /\ seen.observedAt \in Nat
        BY <1>2, <2>2
      <4>3. origin'[id] \in OriginRecord
        BY <1>2, <2>2, <4>1, <4>2 DEF OriginRecord
      <4>4. origin'[id].statusAt = seen.observedAt /\ origin'[id].status = seen.account
        BY <1>2, <2>2, <4>1, <4>2 DEF OriginRecord
      <4>5. /\ origin'[id].percent \in {origin[id].percent, seen.account}
            /\ origin'[id].amounts = origin[id].amounts
        BY <1>2, <2>2, <4>1, <4>2 DEF OriginRecord
      <4>. QED
        BY <3>2, <4>3, <4>4, <4>5
    <3>. QED
      BY <3>1, <3>2
  <2>8. origin' \in [AuthIDs -> OriginRecord]
    <3>1. origin' = [i \in AuthIDs |-> origin'[i]]
      BY <1>2, <2>1
    <3>2. \A i \in AuthIDs : origin'[i] \in OriginRecord
      BY <1>2, <2>2, <2>6, <2>7
    <3>. QED
      BY <3>1, <3>2
  <2>9. Shape'
    BY <1>2, <1>4, <1>5, <2>2, <2>4, <2>5, <2>8
       DEF ObservationsInv, Shape, SameCache, SamePoll, SameResponses
  <2>10. StatusDated' /\ \A i \in AuthIDs : origin'[i].statusAt >= origin[i].statusAt
    BY <1>2, <2>2, <2>3, <2>4, <2>5, <2>6, <2>7 DEF ObservationsInv, StatusDated
  <2>11. ExtraOfListedAccount'
    BY <1>1, <2>2, <2>6, <2>7 DEF ObservationsInv, ExtraOfListedAccount, cacheVars, Members, Held
  <2>. QED
    BY <1>4, <1>5, <2>9, <2>10, <2>11, HoldersKept DEF ObservationsInv, SameResponses
<1>7. CASE ~(~ExtraEmpty(seen.extra) /\ ExtraLands(seen.id, seen.token))
  BY <1>2, <1>4, <1>5, <1>7, QuietInv DEF LandExtra
<1>. QED
  BY <1>6, <1>7

\* The clock moves, and a step of nobody changes nothing.
LEMMA TickInv == ASSUME ObservationsInv, Tick \/ UNCHANGED vars PROVE ObservationsInv'
<1>1. now \in Nat
  BY DEF ObservationsInv, Shape
<1>2. UNCHANGED <<cacheVars, extra, poll, responses, origin>> /\ now' \in Nat
  BY <1>1 DEF Tick, vars, cacheVars
<1>. QED
  BY <1>2, Unmoved, QuietInv

\* Every step preserves the invariant.
LEMMA StepInv == ASSUME ObservationsInv, [Next]_vars PROVE ObservationsInv'
<1>1. CASE Relist
  BY <1>1, RelistInv
<1>2. CASE PollStart
  BY <1>2, PollStartInv
<1>3. CASE PollBind
  BY <1>3, PollBindInv
<1>4. CASE PollAnswer \/ PollCommit \/ PollFail
  BY <1>4, PollStepInv
<1>5. CASE PollCommitExtra
  BY <1>5, PollCommitExtraInv
<1>6. ASSUME NEW r \in Requests, SelectAuth(r) \/ Observe(r) \/ LandExtra(r) \/ LandWindows(r)
      PROVE  ObservationsInv'
  BY <1>6, SelectAuthInv, ResponseStepInv, LandExtraInv
<1>7. CASE Tick \/ UNCHANGED vars
  BY <1>7, TickInv
<1>. QED
  BY <1>1, <1>2, <1>3, <1>4, <1>5, <1>6, <1>7 DEF Next

\* No step makes the status that is kept for an account older.
LEMMA StepKeepsStatus ==
    ASSUME ObservationsInv, [Next]_vars, NEW id \in Members,
           samples'[id].identity = samples[id].identity
    PROVE  origin'[id].statusAt >= origin[id].statusAt
<1>1. id \in AuthIDs /\ Held(id) /\ samples[id].identity \in Identities /\ origin[id].statusAt \in Nat
      /\ origin \in [AuthIDs -> OriginRecord]
  BY DEF Members, ObservationsInv, Shape, CacheShape, OriginRecord
<1>2. CASE Relist
  <2>1. PICK listed \in SUBSET AuthIDs :
        \E listing \in [listed -> [identity : Identities, listRevision : ListRevisions]] :
           LET kept == listed \ Fresh(listing)
           IN  /\ Reconcile(listing)
               /\ extra' = [i \in AuthIDs |-> IF i \in kept THEN extra[i] ELSE NoExtra]
               /\ origin' = [i \in AuthIDs |-> IF i \in kept THEN origin[i] ELSE NoOrigin]
    BY <1>2 DEF Relist
  <2>2. PICK listing \in [listed -> [identity : Identities, listRevision : ListRevisions]] :
           /\ Reconcile(listing)
           /\ origin' = [i \in AuthIDs |-> IF i \in listed \ Fresh(listing) THEN origin[i] ELSE NoOrigin]
    BY <2>1
  <2>3. CacheShape /\ DOMAIN listing = listed
        /\ \A i \in DOMAIN listing : listing[i].identity \in Identities
    BY DEF ObservationsInv, Shape
  <2>4. /\ \A i \in Fresh(listing) : samples'[i].identity = listing[i].identity
        /\ \A i \in Replaced(listing) : samples[i].identity # listing[i].identity
        /\ \A i \in AuthIDs \ listed : samples'[i] = NoSample
    BY <2>2, <2>3, ReconcileCredentials
  <2>5. id \in listed
    BY <1>1, <2>4, NoneAssumption DEF NoSample
  <2>6. id \notin Fresh(listing)
    BY <2>4 DEF Fresh
  <2>. QED
    BY <1>1, <2>2, <2>5, <2>6
<1>3. CASE PollCommitExtra
  BY <1>1, <1>3 DEF PollCommitExtra, OriginRecord
<1>4. ASSUME NEW r \in Requests, LandExtra(r) PROVE origin'[id].statusAt >= origin[id].statusAt
  BY <1>1, <1>4, LandExtraInv
<1>5. CASE origin' = origin
  BY <1>1, <1>5
<1>. QED
  BY <1>2, <1>3, <1>4, <1>5
     DEF Next, PollStart, PollBind, PollAnswer, PollCommit, PollFail, SelectAuth, Observe,
         LandWindows, Tick, vars

-----------------------------------------------------------------------------
(* The theorems *)

\* The invariant holds throughout.
THEOREM ObservationsInvariant == Spec => []ObservationsInv
<1>1. Init => ObservationsInv
  BY InitInv
<1>2. ObservationsInv /\ [Next]_vars => ObservationsInv'
  BY StepInv
<1>. QED
  BY <1>1, <1>2, PTL DEF Spec

\* What is shown as the extra usage of a credential was reported for its
\* account, however late answers and responses land and however often the
\* account under an auth ID changes.
THEOREM ExtraIsOfListedAccount == Spec => []ExtraOfListedAccount
<1>1. ObservationsInv => ExtraOfListedAccount
  BY DEF ObservationsInv
<1>. QED
  BY <1>1, ObservationsInvariant, PTL

\* The status and the reset of an account are never taken back to an older
\* observation.
THEOREM StatusNeverGoesBack == Spec => StatusNeverRegresses
<1>1. ObservationsInv /\ [Next]_vars =>
         [\A id \in Members :
             samples'[id].identity = samples[id].identity
                 => origin'[id].statusAt >= origin[id].statusAt]_vars
  BY StepKeepsStatus
<1>. QED
  BY <1>1, ObservationsInvariant, PTL DEF Spec, StatusNeverRegresses

-----------------------------------------------------------------------------
(* Repeated entries *)

ReadingRecord == [valid : {TRUE}, percent : Nat, resetAt : Nat, sampledAt : Nat]

\* Two entries that speak of one window are merged into one that blocks
\* whenever either of them blocks, whatever the instant and the cutoff, and
\* the merge does not depend on which came first in the list.
THEOREM ConservativeMerge ==
    ASSUME NEW a \in ReadingRecord, NEW b \in ReadingRecord
    PROVE  /\ ConservativeWindow(a, b) \in ReadingRecord
           /\ ConservativeWindow(a, b).percent = ConservativeWindow(b, a).percent
           /\ ConservativeWindow(a, b).resetAt = ConservativeWindow(b, a).resetAt
           /\ \A at, cutoff \in Nat :
                 Blocks(a, at, cutoff) \/ Blocks(b, at, cutoff)
                     => Blocks(ConservativeWindow(a, b), at, cutoff)
<1> DEFINE later(s, t) == IF s < t THEN t ELSE s
<1>1. ASSUME NEW x \in ReadingRecord, NEW y \in ReadingRecord
      PROVE  /\ ConservativeWindow(x, y) \in ReadingRecord
             /\ ConservativeWindow(x, y).percent = later(y.percent, x.percent)
             /\ ConservativeWindow(x, y).resetAt =
                   IF x.resetAt = 0 \/ y.resetAt = 0 THEN 0 ELSE later(y.resetAt, x.resetAt)
             /\ ConservativeWindow(x, y).sampledAt = x.sampledAt
  <2> DEFINE percent == AtLeast(y.percent, x.percent)
             reset == IF NoTime \in {x.resetAt, y.resetAt} THEN NoTime ELSE AtLeast(y.resetAt, x.resetAt)
  <2>1. ConservativeWindow(x, y) = [x EXCEPT !.percent = percent, !.resetAt = reset]
    BY DEF ConservativeWindow
  <2>2. percent = later(y.percent, x.percent) /\ percent \in Nat
    BY DEF AtLeast, ReadingRecord
  <2>3. /\ reset = IF x.resetAt = 0 \/ y.resetAt = 0 THEN 0 ELSE later(y.resetAt, x.resetAt)
        /\ reset \in Nat
    BY DEF AtLeast, ReadingRecord, NoTime
  <2> HIDE DEF percent, reset, later
  <2>. QED
    BY <2>1, <2>2, <2>3 DEF ReadingRecord
<1> DEFINE ab == ConservativeWindow(a, b)
           ba == ConservativeWindow(b, a)
<1>2. ab \in ReadingRecord /\ ba \in ReadingRecord
  BY <1>1
<1>3. ab.percent = ba.percent /\ ab.resetAt = ba.resetAt
  <2>1. /\ ab.percent = later(b.percent, a.percent) /\ ba.percent = later(a.percent, b.percent)
        /\ ab.resetAt = IF a.resetAt = 0 \/ b.resetAt = 0 THEN 0 ELSE later(b.resetAt, a.resetAt)
        /\ ba.resetAt = IF b.resetAt = 0 \/ a.resetAt = 0 THEN 0 ELSE later(a.resetAt, b.resetAt)
    BY <1>1
  <2>2. {a.percent, b.percent, a.resetAt, b.resetAt} \subseteq Nat
    BY DEF ReadingRecord
  <2>3. \A s, t \in Nat : later(s, t) = later(t, s)
    OBVIOUS
  <2> HIDE DEF ab, ba, later
  <2>. QED
    BY <2>1, <2>2, <2>3
<1>4. ASSUME NEW at \in Nat, NEW cutoff \in Nat, Blocks(a, at, cutoff) \/ Blocks(b, at, cutoff)
      PROVE  Blocks(ab, at, cutoff)
  <2>1. /\ ab.percent = later(b.percent, a.percent)
        /\ ab.resetAt = IF a.resetAt = 0 \/ b.resetAt = 0 THEN 0 ELSE later(b.resetAt, a.resetAt)
        /\ ab.valid
    BY <1>1, <1>2 DEF ReadingRecord
  <2> HIDE DEF ab
  <2>. QED
    BY <1>4, <2>1 DEF Blocks, NoTime, ReadingRecord
<1> HIDE DEF ab, ba
<1>. QED
  BY <1>2, <1>3, <1>4 DEF ab, ba

-----------------------------------------------------------------------------
(* The backoff schedule.  Doubled is defined by recursion; what follows needs *)
(* no induction theorem: a set of naturals that is not empty has a least one. *)

Twice(d) == IF d < BackoffMax THEN 2 * d ELSE d

\* The schedule up to the n-th failure.
SchedulePart(f, n) ==
    f = [m \in 0..n |-> IF m <= 1 THEN BackoffBase ELSE Twice(f[m - 1])]

\* Every part of the schedule exists.
LEMMA PartsExist == \A n \in Nat : \E f : SchedulePart(f, n)
<1> DEFINE S == {n \in Nat : ~\E f : SchedulePart(f, n)}
<1>1. SUFFICES ASSUME S # {} PROVE FALSE
  OBVIOUS
<1>2. PICK n \in S : \A m \in S : n <= m
  BY <1>1, MinOfNaturals
<1>3. n # 0
  <2>1. SchedulePart([m \in 0..0 |-> BackoffBase], 0)
    BY DEF SchedulePart
  <2>. QED
    BY <2>1
<1>4. PICK f : SchedulePart(f, n - 1)
  BY <1>2, <1>3
<1> DEFINE g == [m \in 0..n |-> IF m = n THEN IF n = 1 THEN BackoffBase ELSE Twice(f[n - 1]) ELSE f[m]]
<1>5. ASSUME NEW m \in 0..n PROVE g[m] = IF m <= 1 THEN BackoffBase ELSE Twice(g[m - 1])
  <2>1. CASE m = n
    <3>1. g[n] = IF n = 1 THEN BackoffBase ELSE Twice(f[n - 1])
      OBVIOUS
    <3>2. n - 1 \in 0..n /\ n - 1 # n /\ g[n - 1] = f[n - 1]
      BY <1>3
    <3>3. g[n] = IF n <= 1 THEN BackoffBase ELSE Twice(g[n - 1])
      BY <1>3, <3>1, <3>2
    <3> HIDE DEF g
    <3>. QED
      BY <2>1, <3>3
  <2>2. CASE m # n
    <3>1. m \in 0..(n - 1) /\ g[m] = f[m] /\ (m > 1 => g[m - 1] = f[m - 1])
      BY <2>2
    <3>2. f[m] = IF m <= 1 THEN BackoffBase ELSE Twice(f[m - 1])
      BY <1>4, <3>1 DEF SchedulePart
    <3>3. m <= 1 \/ m > 1
      OBVIOUS
    <3> HIDE DEF g
    <3>. QED
      BY <3>1, <3>2, <3>3
  <2>. QED
    BY <2>1, <2>2
<1>6. SchedulePart(g, n)
  <2>1. g = [m \in 0..n |-> g[m]]
    OBVIOUS
  <2> HIDE DEF g
  <2>. QED
    BY <1>5, <2>1 DEF SchedulePart
<1>. QED
  BY <1>6

\* Two parts agree on what they share.
LEMMA PartsAgree ==
    ASSUME NEW n \in Nat, NEW k \in Nat, NEW f, NEW g, SchedulePart(f, n), SchedulePart(g, k)
    PROVE  \A m \in 0..n : m <= k => f[m] = g[m]
<1> DEFINE S == {m \in Nat : m <= n /\ m <= k /\ f[m] # g[m]}
<1>1. SUFFICES ASSUME S # {} PROVE FALSE
  OBVIOUS
<1>2. PICK m \in S : \A j \in S : m <= j
  BY <1>1, MinOfNaturals
<1>3. m \in 0..n /\ m \in 0..k /\ f[m] # g[m]
  BY <1>2
<1>4. /\ f[m] = IF m <= 1 THEN BackoffBase ELSE Twice(f[m - 1])
      /\ g[m] = IF m <= 1 THEN BackoffBase ELSE Twice(g[m - 1])
  BY <1>3 DEF SchedulePart
<1>5. m > 1 => f[m - 1] = g[m - 1]
  BY <1>2, <1>3
<1>. QED
  BY <1>3, <1>4, <1>5

\* The schedule is what its definition says.
LEMMA ScheduleSteps ==
    \A n \in Nat : Doubled[n] = IF n <= 1 THEN BackoffBase ELSE Twice(Doubled[n - 1])
<1> DEFINE Body(f) == [n \in Nat |-> IF n <= 1 THEN BackoffBase
                                     ELSE IF f[n - 1] < BackoffMax THEN 2 * f[n - 1] ELSE f[n - 1]]
           part(n) == CHOOSE f : SchedulePart(f, n)
           f == [n \in Nat |-> part(n)[n]]
<1>1. \A n \in Nat : SchedulePart(part(n), n)
  BY PartsExist
<1>2. ASSUME NEW n \in Nat PROVE f[n] = IF n <= 1 THEN BackoffBase ELSE Twice(f[n - 1])
  <2>1. part(n)[n] = IF n <= 1 THEN BackoffBase ELSE Twice(part(n)[n - 1])
    <3>1. n \in 0..n
      OBVIOUS
    <3> HIDE DEF part
    <3>. QED
      BY <1>1, <3>1 DEF SchedulePart
  <2>2. n > 1 => part(n)[n - 1] = part(n - 1)[n - 1]
    <3>1. n > 1 => n - 1 \in Nat /\ n - 1 \in 0..n /\ n - 1 <= n - 1
      OBVIOUS
    <3> HIDE DEF part
    <3>. QED
      BY <1>1, <3>1, PartsAgree
  <2> HIDE DEF part
  <2>. QED
    BY <2>1, <2>2
<1>3. f = Body(f)
  <2>1. f = [n \in Nat |-> f[n]]
    OBVIOUS
  <2> HIDE DEF f
  <2>. QED
    BY <1>2, <2>1 DEF Twice
<1>4. Doubled = Body(Doubled)
  <2> HIDE DEF f
  <2>1. \E h : h = Body(h)
    BY <1>3
  <2>2. Doubled = CHOOSE h : h = Body(h)
    BY DEF Doubled
  <2> HIDE DEF Body
  <2>. QED
    BY <2>1, <2>2
<1>. QED
  BY <1>4 DEF Twice

\* The schedule never leaves the durations from the base to twice the maximum.
LEMMA ScheduleBounded ==
    \A n \in Nat : Doubled[n] \in Nat /\ BackoffBase <= Doubled[n] /\ Doubled[n] <= 2 * BackoffMax
<1> DEFINE Fits(d) == d \in Nat /\ BackoffBase <= d /\ d <= 2 * BackoffMax
           S == {n \in Nat : ~Fits(Doubled[n])}
<1>1. SUFFICES ASSUME S # {} PROVE FALSE
  OBVIOUS
<1>2. PICK n \in S : \A m \in S : n <= m
  BY <1>1, MinOfNaturals
<1>3. Fits(BackoffBase)
  BY BackoffAssumption
<1>4. n > 1
  BY <1>2, <1>3, ScheduleSteps
<1>5. Fits(Doubled[n - 1])
  BY <1>2, <1>4
<1>6. Doubled[n] = Twice(Doubled[n - 1])
  BY <1>4, ScheduleSteps
<1>7. \A d : Fits(d) => Fits(Twice(d))
  BY BackoffAssumption DEF Twice
<1> HIDE DEF Fits
<1>. QED
  BY <1>2, <1>5, <1>6, <1>7

-----------------------------------------------------------------------------
(* The pause that follows a failed fetch *)

\* The hint an answer gives reaches the instant it asks for, as far as hints
\* may reach.
LEMMA HintReaches ==
    ASSUME NEW headers, headers.retryAfter.value \in Nat, headers.resets \subseteq Nat, NEW at \in Nat
    PROVE  LET hint == UpstreamRetryDelay(headers, at)
           IN  \/ hint = NoHint /\ Asked(headers, at) = at
               \/ /\ hint \in Nat /\ Asked(headers, at) \in Nat
                  /\ at + AtMost(BackoffHeaderMax, hint)
                        >= AtMost(at + BackoffHeaderMax, Asked(headers, at))
<1> DEFINE later == {reset \in headers.resets : reset > at}
           value == headers.retryAfter.value
<1>1. CASE headers.retryAfter.form = "seconds"
  <2>1. /\ UpstreamRetryDelay(headers, at) = AtMost(BackoffHeaderMax, value)
        /\ Asked(headers, at) = at + value
    BY <1>1 DEF UpstreamRetryDelay, Asked
  <2>. QED
    BY <2>1, BackoffAssumption DEF AtMost
<1>2. CASE headers.retryAfter.form = "date"
  <2>1. /\ UpstreamRetryDelay(headers, at) = AtLeast(0, value - at)
        /\ Asked(headers, at) = value
    BY <1>2 DEF UpstreamRetryDelay, Asked
  <2>. QED
    BY <2>1, BackoffAssumption DEF AtMost, AtLeast
<1>3. CASE headers.retryAfter.form \notin {"seconds", "date"} /\ later = {}
  <2>1. UpstreamRetryDelay(headers, at) = NoHint /\ Asked(headers, at) = at
    BY <1>3 DEF UpstreamRetryDelay, Asked
  <2>. QED
    BY <2>1
<1>4. CASE headers.retryAfter.form \notin {"seconds", "date"} /\ later # {}
  <2>1. /\ UpstreamRetryDelay(headers, at) = Min(later) - at
        /\ Asked(headers, at) = Min(later)
    BY <1>4 DEF UpstreamRetryDelay, Asked
  <2>2. Min(later) \in later
    BY <1>4, MinOfNaturals
  <2>3. Min(later) \in Nat /\ Min(later) > at
    BY <2>2
  <2> HIDE DEF later
  <2>. QED
    BY <2>1, <2>3, BackoffAssumption DEF AtMost
<1>. QED
  BY <1>1, <1>2, <1>3, <1>4

\* What a pause may be: jitter does not shorten it, and a rate limit pauses
\* for the base at least.
LEMMA PauseReaches ==
    ASSUME NEW failures \in Nat, NEW rateLimited \in BOOLEAN, NEW hint \in Nat \cup {NoHint},
           NEW pause \in Pauses(failures, rateLimited, hint)
    PROVE  /\ pause \in 0..LongestPause
           /\ hint # NoHint => pause >= AtMost(BackoffHeaderMax, hint)
           /\ rateLimited => pause >= BackoffBase
<1> DEFINE base == IF hint = NoHint THEN AtMost(BackoffMax, Doubled[failures])
                   ELSE AtMost(BackoffHeaderMax, hint)
           delay == RefreshBackoffDelay(failures, rateLimited, hint)
           lengthened(more) == IF hint = NoHint THEN AtMost(BackoffMax, delay + more) ELSE delay + more
<1>1. pause \in 0..LongestPause /\ \E more \in 0..(delay \div JitterFraction) : pause = lengthened(more)
  BY DEF Pauses
<1>2. PICK more \in 0..(delay \div JitterFraction) : pause = lengthened(more)
  BY <1>1
<1>3. base \in Nat
  BY ScheduleBounded, BackoffAssumption DEF AtMost
<1>4. delay = IF rateLimited THEN AtLeast(BackoffBase, base) ELSE base
  BY DEF RefreshBackoffDelay
<1> HIDE DEF base, delay
<1>5. delay \in Nat /\ delay >= base /\ (rateLimited => delay >= BackoffBase)
  BY <1>3, <1>4, BackoffAssumption DEF AtLeast
<1>6. more \in Nat
  OBVIOUS
<1>7. hint # NoHint => pause >= base
  BY <1>2, <1>3, <1>5, <1>6
<1>8. rateLimited => pause >= BackoffBase
  BY <1>2, <1>5, <1>6, BackoffAssumption DEF AtMost
<1>. QED
  BY <1>1, <1>7, <1>8 DEF base

\* The pause of a fetch that failed some time ago, counted from now.
LEMMA FailurePauses ==
    ASSUME NEW answer \in Answers, NEW at \in Nat, NEW failures \in Nat,
           now \in Nat, at <= now,
           NEW result, result = UsageResult(answer, at), result.kind = "failure",
           NEW pause \in Pauses(failures, result.category = "rate_limited", result.hint)
    PROVE  /\ now + pause <= now + LongestPause
           /\ answer.kind = "status" =>
                 /\ now + pause >= AtMost(at + BackoffHeaderMax, Asked(answer.headers, at))
                 /\ answer.status = 429 => now + pause >= now + BackoffBase
<1>1. CASE answer.kind = "status"
  <2> DEFINE hint == UpstreamRetryDelay(answer.headers, at)
             asked == Asked(answer.headers, at)
  <2>1. result.hint = hint /\ (answer.status = 429 => result.category = "rate_limited")
    BY <1>1 DEF UsageResult, Failed, StatusCategory
  <2>2. \/ hint = NoHint /\ asked = at
        \/ /\ hint \in Nat /\ asked \in Nat
           /\ at + AtMost(BackoffHeaderMax, hint) >= AtMost(at + BackoffHeaderMax, asked)
    BY <1>1, AnswersAssumption, HintReaches
  <2> DEFINE limited == result.category = "rate_limited"
  <2>3. limited \in BOOLEAN /\ pause \in Pauses(failures, limited, hint)
    BY <2>1
  <2>4. answer.status = 429 => limited
    BY <2>1
  <2> HIDE DEF hint, asked, limited
  <2>5. /\ pause \in 0..LongestPause
        /\ hint # NoHint => pause >= AtMost(BackoffHeaderMax, hint)
        /\ answer.status = 429 => pause >= BackoffBase
    <3>1. hint \in Nat \cup {NoHint}
      BY <2>2
    <3>2. /\ pause \in 0..LongestPause
          /\ hint # NoHint => pause >= AtMost(BackoffHeaderMax, hint)
          /\ limited => pause >= BackoffBase
      BY <2>3, <3>1, PauseReaches
    <3>. QED
      BY <2>4, <3>2
  <2>6. LongestPause \in Nat /\ BackoffHeaderMax \in Nat /\ BackoffBase \in Nat
    BY BackoffAssumption DEF LongestPause
  <2>7. CASE hint = NoHint /\ asked = at
    BY <1>1, <2>5, <2>6, <2>7 DEF AtMost, asked
  <2>8. CASE /\ hint \in Nat /\ asked \in Nat
             /\ at + AtMost(BackoffHeaderMax, hint) >= AtMost(at + BackoffHeaderMax, asked)
    <3>1. pause >= AtMost(BackoffHeaderMax, hint) /\ AtMost(BackoffHeaderMax, hint) \in Nat
      BY <2>5, <2>6, <2>8 DEF AtMost, NoHint
    <3>2. AtMost(at + BackoffHeaderMax, asked) \in Nat
      BY <2>6, <2>8 DEF AtMost
    <3>3. pause \in Nat /\ AtMost(at + BackoffHeaderMax, asked) <= at + pause
      BY <2>5, <2>6, <2>8, <3>1, <3>2
    <3>4. AtMost(at + BackoffHeaderMax, asked) <= now + pause
      BY <3>2, <3>3
    <3>. QED
      BY <2>5, <2>6, <3>4 DEF asked
  <2>. QED
    BY <2>2, <2>7, <2>8
<1>2. CASE answer.kind # "status"
  <2>1. pause \in 0..LongestPause
    BY DEF Pauses
  <2>2. LongestPause \in Nat
    BY BackoffAssumption DEF LongestPause
  <2>. QED
    BY <1>2, <2>1, <2>2
<1>. QED
  BY <1>1, <1>2

\* A poll that has its answer has one that upstream may give, since a while;
\* failures are counted.
HintInv ==
    /\ \A id \in AuthIDs : samples[id].failures \in Nat
    /\ poll.pc = "settling" => poll.answer \in Answers /\ poll.answeredAt \in Nat /\ poll.answeredAt <= now

FailuresKept == \A id \in AuthIDs : samples'[id].failures \in {0, samples[id].failures}

\* Listings, rotations and commits never raise a failure count.
LEMMA FailuresNotRaised ==
    ASSUME CacheShape,
           \/ \E listing : Reconcile(listing)
           \/ \E id \in AuthIDs : \E token, revision : BindRevision(id, token, revision)
           \/ \E id \in AuthIDs : \E token, batch, at, startedAt, isPoll :
                  CommitWindowBatch(id, token, batch, at, startedAt, isPoll)
           \/ UNCHANGED cacheVars
    PROVE  FailuresKept
<1>1. /\ samples = [id \in AuthIDs |-> samples[id]]
      /\ \A id \in AuthIDs : DOMAIN samples[id] = SampleFields
  BY DEF CacheShape
<1>2. ASSUME NEW listing, Reconcile(listing) PROVE FailuresKept
  <2>1. ASSUME NEW id \in AuthIDs PROVE samples'[id].failures \in {0, samples[id].failures}
    <3>1. samples'[id] = IF id \in DOMAIN listing THEN Relisted(id, listing) ELSE NoSample
      BY <1>2 DEF Reconcile
    <3>2. Relisted(id, listing).failures \in {0, samples[id].failures}
      BY <1>1 DEF Relisted, NoSample, SampleFields
    <3>. QED
      BY <3>1, <3>2 DEF NoSample
  <2>. QED
    BY <2>1 DEF FailuresKept
<1>3. ASSUME NEW id \in AuthIDs, NEW sample, samples' = [samples EXCEPT ![id] = sample],
             sample.failures \in {0, samples[id].failures}
      PROVE  FailuresKept
  BY <1>1, <1>3 DEF FailuresKept
<1>4. ASSUME NEW id \in AuthIDs, NEW token, NEW revision, BindRevision(id, token, revision)
      PROVE  FailuresKept
  <2> DEFINE bound == IF Rotates(id, revision) THEN Rotated(samples[id], nextIncarnation + 1)
                      ELSE samples[id]
             sample == [bound EXCEPT !.revision = revision]
  <2>1. samples' = [samples EXCEPT ![id] = sample]
    BY <1>4 DEF BindRevision
  <2>2. bound.failures \in {0, samples[id].failures}
    BY DEF Rotated, NoSample
  <2>3. sample.failures = bound.failures
    BY <1>1 DEF Rotated, NoSample, SampleFields
  <2> HIDE DEF sample, bound
  <2>. QED
    BY <1>3, <2>1, <2>2, <2>3
<1>5. ASSUME NEW id \in AuthIDs, NEW token, NEW batch, NEW at, NEW startedAt, NEW isPoll,
             CommitWindowBatch(id, token, batch, at, startedAt, isPoll)
      PROVE  FailuresKept
  <2> DEFINE incoming == Stamped(batch, at)
             landing == LandingSlots(id, incoming, startedAt, isPoll)
             old == samples[id]
             updated == [old EXCEPT
                 !.windows = [s \in Slots |-> IF s \in landing THEN incoming[s] ELSE @[s]],
                 !.lastError = IF landing # {} THEN NoError ELSE @]
             recovered == [updated EXCEPT
                 !.usageSuccessAt = AtLeast(at, @), !.failures = 0, !.nextRefreshAt = NoTime]
             sample == IF isPoll THEN recovered ELSE updated
  <2>1. samples' = [samples EXCEPT ![id] = sample]
    BY <1>5 DEF CommitWindowBatch
  <2>2. updated.failures = samples[id].failures /\ DOMAIN updated = SampleFields
    <3> HIDE DEF landing, incoming
    <3>. QED
      BY <1>1 DEF SampleFields, NoSample
  <2> HIDE DEF updated
  <2>3. recovered.failures = 0
    BY <2>2 DEF SampleFields, NoSample
  <2> HIDE DEF recovered
  <2>4. sample.failures \in {0, samples[id].failures}
    BY <2>2, <2>3
  <2> HIDE DEF sample
  <2>. QED
    BY <1>3, <2>1, <2>4
<1>6. CASE UNCHANGED cacheVars
  BY <1>6 DEF FailuresKept, cacheVars
<1>. QED
  BY <1>2, <1>4, <1>5, <1>6

\* Only a failed poll raises a failure count, of its own account.
LEMMA StepFailures ==
    ASSUME ObservationsInv, [Next]_vars
    PROVE  \/ FailuresKept
           \/ /\ PollFail
              /\ RecordRefreshFailure(poll.id, poll.token, Result.category, Result.hint, now)
<1>1. /\ CacheShape
      /\ poll.pc # "idle" => poll.id \in AuthIDs
      /\ \A r \in Requests : responses[r].pc = "landing" => responses[r].id \in AuthIDs
  BY DEF ObservationsInv, Shape, Holders, Holds
<1>2. CASE Relist
  BY <1>1, <1>2, FailuresNotRaised DEF Relist
<1>3. CASE PollBind
  BY <1>1, <1>3, FailuresNotRaised DEF PollBind
<1>4. CASE PollCommit
  BY <1>1, <1>4, FailuresNotRaised DEF PollCommit
<1>5. CASE PollFail
  BY <1>1, <1>5, FailuresNotRaised DEF PollFail
<1>6. ASSUME NEW r \in Requests, LandWindows(r) PROVE FailuresKept
  BY <1>1, <1>6, FailuresNotRaised DEF LandWindows
<1>7. CASE UNCHANGED cacheVars
  BY <1>1, <1>7, FailuresNotRaised
<1>. QED
  BY <1>2, <1>3, <1>4, <1>5, <1>6, <1>7
     DEF Next, PollStart, PollAnswer, PollCommitExtra, SelectAuth, Observe, LandExtra, Tick, vars, cacheVars

\* Recording a failure counts it and pauses one account only.
LEMMA FailureRecorded ==
    ASSUME CacheShape, NEW id \in AuthIDs, NEW token, NEW category, NEW hint, NEW at,
           RecordRefreshFailure(id, token, category, hint, at)
    PROVE  /\ samples'[id].failures = samples[id].failures + 1
           /\ \E pause \in Pauses(samples[id].failures + 1, category = "rate_limited", hint) :
                 samples'[id].nextRefreshAt = at + pause
           /\ \A other \in AuthIDs \ {id} : samples'[other] = samples[other]
<1>1. PICK pause \in Pauses(samples[id].failures + 1, category = "rate_limited", hint) :
         samples' = [samples EXCEPT ![id].failures = @ + 1, ![id].nextRefreshAt = at + pause,
                                    ![id].lastError = category]
  BY DEF RecordRefreshFailure
<1>2. id \in DOMAIN samples /\ DOMAIN samples[id] = SampleFields
      /\ samples = [other \in AuthIDs |-> samples[other]]
  BY DEF CacheShape
<1>. QED
  BY <1>1, <1>2 DEF SampleFields, NoSample

\* The invariant is inductive.
LEMMA StepHint == ASSUME ObservationsInv, HintInv, [Next]_vars PROVE HintInv'
<1>1. /\ CacheShape /\ now \in Nat /\ DOMAIN poll = DOMAIN NoPoll
      /\ poll.pc # "idle" => poll.id \in AuthIDs
  BY DEF ObservationsInv, Shape, Holders, Holds
<1>2. \A id \in AuthIDs : samples'[id].failures \in Nat
  <2>1. CASE FailuresKept
    BY <2>1 DEF HintInv, FailuresKept
  <2>2. CASE /\ PollFail
             /\ RecordRefreshFailure(poll.id, poll.token, Result.category, Result.hint, now)
    <3>1. poll.id \in AuthIDs
      BY <1>1, <2>2 DEF PollFail
    <3>2. /\ samples'[poll.id].failures = samples[poll.id].failures + 1
          /\ \A other \in AuthIDs \ {poll.id} : samples'[other] = samples[other]
      BY <1>1, <2>2, <3>1, FailureRecorded
    <3>. QED
      BY <3>1, <3>2 DEF HintInv
  <2>. QED
    BY <2>1, <2>2, StepFailures
<1>3. now' \in Nat /\ now <= now'
  <2>1. now' = now \/ now' = now + 1
    BY DEF Next, Relist, PollStart, PollBind, PollAnswer, PollCommit, PollCommitExtra, PollFail,
           SelectAuth, Observe, LandExtra, LandWindows, Tick, vars
  <2>. QED
    BY <1>1, <2>1
<1>4. \/ poll' = poll
      \/ poll'.pc # "settling"
      \/ poll'.answer \in Answers /\ poll'.answeredAt = now
  <2>1. CASE PollAnswer
    BY <1>1, <2>1 DEF PollAnswer, NoPoll
  <2>2. CASE PollStart
    BY <1>1, <2>2 DEF PollStart, NoPoll
  <2>3. CASE PollBind
    <3>1. \/ poll' = NoPoll
          \/ \E revision, incarnation :
                poll' = [poll EXCEPT !.pc = "fetching", !.token.revision = revision,
                                     !.token.incarnation = incarnation]
      BY <2>3 DEF PollBind
    <3>2. "pc" \in DOMAIN poll /\ NoPoll.pc = "idle"
      BY <1>1 DEF NoPoll
    <3>. QED
      BY <3>1, <3>2
  <2>4. CASE PollCommit \/ PollCommitExtra \/ PollFail
    <3>1. poll' = NoPoll \/ poll' = [poll EXCEPT !.pc = "sharing"]
      BY <2>4 DEF PollCommit, PollCommitExtra, PollFail
    <3>. QED
      BY <1>1, <3>1 DEF NoPoll
  <2>5. CASE UNCHANGED poll
    BY <2>5
  <2>. QED
    BY <2>1, <2>2, <2>3, <2>4, <2>5
       DEF Next, Relist, SelectAuth, Observe, LandExtra, LandWindows, Tick, vars
<1>. QED
  BY <1>1, <1>2, <1>3, <1>4 DEF HintInv

\* A failed fetch pauses its account as long as upstream asked.
LEMMA StepPauses ==
    ASSUME ObservationsInv, HintInv, [Next]_vars, NEW id \in Members,
           samples'[id].failures > samples[id].failures, poll.pc = "settling"
    PROVE  LET until == samples'[id].nextRefreshAt
           IN  /\ until <= now + LongestPause
               /\ poll.answer.kind = "status" =>
                     /\ until >= AtMost(poll.answeredAt + BackoffHeaderMax,
                                        Asked(poll.answer.headers, poll.answeredAt))
                     /\ poll.answer.status = 429 => until >= now + BackoffBase
<1>1. /\ CacheShape /\ now \in Nat /\ id \in AuthIDs /\ poll.id \in AuthIDs
      /\ samples[id].failures \in Nat /\ poll.answer \in Answers
      /\ poll.answeredAt \in Nat /\ poll.answeredAt <= now
  BY DEF ObservationsInv, Shape, Holders, Holds, HintInv, Members
<1>2. /\ PollFail
      /\ RecordRefreshFailure(poll.id, poll.token, Result.category, Result.hint, now)
  <2>1. ~FailuresKept
    BY <1>1 DEF FailuresKept
  <2>. QED
    BY <2>1, StepFailures
<1>3. /\ \E pause \in Pauses(samples[poll.id].failures + 1, Result.category = "rate_limited", Result.hint) :
            samples'[poll.id].nextRefreshAt = now + pause
      /\ \A other \in AuthIDs \ {poll.id} : samples'[other] = samples[other]
  BY <1>1, <1>2, FailureRecorded
<1>4. id = poll.id
  BY <1>1, <1>3
<1>5. Result.kind = "failure" /\ Result = UsageResult(poll.answer, poll.answeredAt)
  BY <1>2 DEF PollFail, Result
<1>6. PICK pause \in Pauses(samples[id].failures + 1, Result.category = "rate_limited", Result.hint) :
         samples'[id].nextRefreshAt = now + pause
  BY <1>3, <1>4
<1>7. samples[id].failures + 1 \in Nat
  BY <1>1
<1>. QED
  BY <1>1, <1>5, <1>6, <1>7, FailurePauses

\* A failed fetch leaves its account alone for as long as upstream asked, up to
\* BackoffHeaderMax, however late the failure is recorded, and a rate limit for
\* the base of the schedule at least.
THEOREM PausesReachHints == Spec => PauseReachesHint
<1>1. Init => HintInv
  BY DEF Init, CacheInit, HintInv, NoSample, NoPoll
<1>2. ObservationsInv /\ HintInv /\ [Next]_vars => HintInv'
  BY StepHint
<1>3. ObservationsInv /\ HintInv /\ [Next]_vars =>
         [\A id \in Members :
             samples'[id].failures > samples[id].failures /\ poll.pc = "settling" =>
                LET until == samples'[id].nextRefreshAt
                IN  /\ until <= now + LongestPause
                    /\ poll.answer.kind = "status" =>
                          /\ until >= AtMost(poll.answeredAt + BackoffHeaderMax,
                                             Asked(poll.answer.headers, poll.answeredAt))
                          /\ poll.answer.status = 429 => until >= now + BackoffBase]_vars
  BY StepPauses
<1>. QED
  BY <1>1, <1>2, <1>3, ObservationsInvariant, PTL DEF Spec, PauseReachesHint

-----------------------------------------------------------------------------
(* What the list of a usage body comes to *)

MergedOrNone == ReadingRecord \cup {NoReading}

\* The loop of parseUsageWindows, entry by entry: f[k] is what it knows of the
\* slot after k entries.
Loop(f, limits, n, slot) ==
    /\ f[0] = NoReading
    /\ \A k \in 1..n : f[k] = Merged(f[k - 1], limits[k], slot)

\* The fold of UsageWindows.
Listed(limits, slot) ==
    FoldLeft(LAMBDA window, limit : Merged(window, limit, slot), NoReading, limits)

\* It is that loop.
LEMMA ListIsLoop ==
    ASSUME NEW n \in Nat, NEW limits, DOMAIN limits = 1..n, NEW slot,
           \A k \in 1..n, w \in MergedOrNone : Merged(w, limits[k], slot) \in MergedOrNone
    PROVE  \E f : Loop(f, limits, n, slot) /\ f[n] = Listed(limits, slot)
<1> DEFINE step == [p \in (1..n) \X MergedOrNone |-> Merged(p[2], limits[p[1]], slot)]
           Body(h) == [s \in SUBSET (1..n) |->
                          IF s = {} THEN NoReading
                          ELSE Merged(h[s \ {Max(s)}], limits[Max(s)], slot)]
<1>1. step \in [(1..n) \X MergedOrNone -> MergedOrNone] /\ NoReading \in MergedOrNone
  BY DEF MergedOrNone
<1>2. PICK it \in [SUBSET (1..n) -> MergedOrNone] : Unfolds(it, n, NoReading, step)
  <2> HIDE DEF step
  <2>. QED
    BY <1>1, SetRecursion
<1>3. it = Body(it)
  <2>1. ASSUME NEW s \in SUBSET (1..n)
        PROVE  it[s] = IF s = {} THEN NoReading ELSE Merged(it[s \ {Max(s)}], limits[Max(s)], slot)
    <3>1. CASE s = {}
      BY <1>2, <3>1 DEF Unfolds
    <3>2. CASE s # {}
      <4>1. s \subseteq 0..n
        OBVIOUS
      <4>2. Max(s) \in 1..n /\ s \ {Max(s)} \in SUBSET (1..n)
        BY <3>2, <4>1, MaxOfBounded
      <4>3. <<Max(s), it[s \ {Max(s)}]>> \in (1..n) \X MergedOrNone
        BY <1>2, <4>2
      <4>4. it[s] = step[<<Max(s), it[s \ {Max(s)}]>>]
        BY <1>2, <3>2 DEF Unfolds
      <4>. QED
        BY <3>2, <4>3, <4>4
    <3>. QED
      BY <3>1, <3>2
  <2>. QED
    BY <1>2, <2>1
<1> DEFINE h == CHOOSE h : h = Body(h)
<1>4. h = Body(h)
  <2> HIDE DEF Body
  <2>. QED
    BY <1>3
<1>5. h[1..n] = Listed(limits, slot)
  BY DEF Listed, FoldLeft, MapThenFoldSet
<1> HIDE DEF h
<1> DEFINE f == [k \in 0..n |-> h[1..k]]
<1>6. f[0] = NoReading
  <2>1. 1..0 = {} /\ {} \in SUBSET (1..n) /\ 0 \in 0..n
    OBVIOUS
  <2>. QED
    BY <1>4, <2>1
<1>7. ASSUME NEW k \in 1..n PROVE f[k] = Merged(f[k - 1], limits[k], slot)
  <2>1. /\ k \in Nat /\ k # 0 /\ k \in 0..n /\ k - 1 \in 0..n
        /\ 1..k \in SUBSET (1..n)
    OBVIOUS
  <2>2. 1..k # {} /\ Max(1..k) = k /\ (1..k) \ {Max(1..k)} = 1..(k - 1)
    BY <2>1, LastIndex
  <2>3. h[1..k] = Merged(h[1..(k - 1)], limits[k], slot)
    BY <1>4, <2>1, <2>2
  <2>. QED
    BY <2>1, <2>3
<1>8. f[n] = h[1..n]
  OBVIOUS
<1> HIDE DEF f
<1>9. Loop(f, limits, n, slot)
  BY <1>6, <1>7 DEF Loop
<1>. QED
  BY <1>5, <1>8, <1>9

\* A reading that sums up others: it has the highest of their percents, and
\* the last of their resets unless one of those is unknown.
SumsUp(w, S) ==
    /\ w \in ReadingRecord
    /\ \A r \in S : /\ r.percent <= w.percent
                    /\ w.resetAt # 0 => r.resetAt # 0 /\ r.resetAt <= w.resetAt
    /\ \E r \in S : r.percent = w.percent
    /\ \E r \in S : r.resetAt = w.resetAt

\* Merging one more entry keeps the sum.
LEMMA SumExtends ==
    ASSUME NEW S, S \subseteq ReadingRecord, NEW w, SumsUp(w, S), NEW r \in ReadingRecord
    PROVE  SumsUp(ConservativeWindow(w, r), S \cup {r})
<1> DEFINE c == ConservativeWindow(w, r)
           percent == AtLeast(r.percent, w.percent)
           reset == IF NoTime \in {w.resetAt, r.resetAt} THEN NoTime ELSE AtLeast(r.resetAt, w.resetAt)
<1>1. /\ w \in ReadingRecord
      /\ {w.percent, w.resetAt, r.percent, r.resetAt} \subseteq Nat
      /\ \A s \in S : s.percent \in Nat /\ s.resetAt \in Nat
  BY DEF SumsUp, ReadingRecord
<1>2. c \in ReadingRecord /\ c.percent = percent /\ c.resetAt = reset
  <2>1. c = [w EXCEPT !.percent = percent, !.resetAt = reset]
    BY DEF ConservativeWindow
  <2>2. percent \in Nat /\ reset \in Nat
    BY <1>1 DEF AtLeast, NoTime
  <2> HIDE DEF c, percent, reset
  <2>. QED
    BY <1>1, <2>1, <2>2 DEF ReadingRecord
<1>3. /\ percent \in {w.percent, r.percent} /\ w.percent <= percent /\ r.percent <= percent
      /\ reset \in {w.resetAt, r.resetAt}
      /\ reset # 0 => /\ w.resetAt # 0 /\ r.resetAt # 0
                      /\ w.resetAt <= reset /\ r.resetAt <= reset
  BY <1>1 DEF AtLeast, NoTime
<1> HIDE DEF c, percent, reset
<1>4. percent \in Nat /\ reset \in Nat
  BY <1>1, <1>3
<1>5. ASSUME NEW s \in S \cup {r}
      PROVE  s.percent <= c.percent /\ (c.resetAt # 0 => s.resetAt # 0 /\ s.resetAt <= c.resetAt)
  <2>1. CASE s = r
    BY <1>2, <1>3, <2>1
  <2>2. CASE s \in S
    <3>1. s.percent <= w.percent /\ (w.resetAt # 0 => s.resetAt # 0 /\ s.resetAt <= w.resetAt)
      BY <2>2 DEF SumsUp
    <3>. QED
      BY <1>1, <1>2, <1>3, <1>4, <2>2, <3>1
  <2>. QED
    BY <2>1, <2>2
<1>6. \E s \in S \cup {r} : s.percent = c.percent
  BY <1>2, <1>3 DEF SumsUp
<1>7. \E s \in S \cup {r} : s.resetAt = c.resetAt
  BY <1>2, <1>3 DEF SumsUp
<1>. QED
  BY <1>2, <1>5, <1>6, <1>7 DEF SumsUp, c

\* A sum blocks when one of its parts does, and only if one is exhausted and
\* one has not reset.
LEMMA SumBlocks ==
    ASSUME NEW S, S \subseteq ReadingRecord, NEW w, SumsUp(w, S), NEW t \in Nat, NEW cutoff \in Nat
    PROVE  /\ (\E r \in S : Blocks(r, t, cutoff)) => Blocks(w, t, cutoff)
           /\ Blocks(w, t, cutoff) =>
                 /\ \E r \in S : r.percent >= cutoff
                 /\ \E r \in S : r.resetAt = NoTime \/ t < r.resetAt
<1>1. /\ w.valid /\ w.percent \in Nat /\ w.resetAt \in Nat
      /\ \A s \in S : s.percent \in Nat /\ s.resetAt \in Nat
  BY DEF SumsUp, ReadingRecord
<1>2. ASSUME NEW r \in S, Blocks(r, t, cutoff) PROVE Blocks(w, t, cutoff)
  <2>1. r.percent <= w.percent /\ (w.resetAt # 0 => r.resetAt # 0 /\ r.resetAt <= w.resetAt)
    BY DEF SumsUp
  <2>. QED
    BY <1>1, <1>2, <2>1 DEF Blocks, NoTime
<1>3. ASSUME Blocks(w, t, cutoff)
      PROVE  /\ \E r \in S : r.percent >= cutoff
             /\ \E r \in S : r.resetAt = NoTime \/ t < r.resetAt
  BY <1>3 DEF Blocks, SumsUp
<1>. QED
  BY <1>2, <1>3

\* A reading is told from its absence.
LEMMA SomeReading == \A w \in ReadingRecord : w # NoReading
<1>1. ~NoReading.valid /\ \A w \in ReadingRecord : w.valid
  BY DEF ReadingRecord, NoReading
<1>. QED
  BY <1>1

\* A reset that may be in a body makes a reading of the entry, or nothing.
LEMMA ValueReads ==
    ASSUME NEW percent, NEW reset \in Nat \cup {Missing, Malformed}
    PROVE  UsageValue(percent, reset) \in MergedOrNone
           /\ (UsageValue(percent, reset).valid => UsageValue(percent, reset) \in ReadingRecord)
<1>1. NoReading \in MergedOrNone /\ ~NoReading.valid
  BY DEF MergedOrNone, NoReading
<1>2. ASSUME percent \in 0..100, reset # Malformed
      PROVE  UsageValue(percent, reset) \in ReadingRecord
  <2> DEFINE at == IF reset = Missing THEN NoTime ELSE reset
  <2>1. UsageValue(percent, reset) = Reading(percent, at)
    BY <1>2 DEF UsageValue
  <2>2. at \in Nat /\ percent \in Nat
    BY <1>2 DEF NoTime
  <2> HIDE DEF at
  <2>. QED
    BY <2>1, <2>2 DEF Reading, ReadingRecord, NoTime
<1>3. CASE percent \in 0..100 /\ reset # Malformed
  BY <1>2, <1>3 DEF MergedOrNone
<1>4. CASE ~(percent \in 0..100 /\ reset # Malformed)
  BY <1>1, <1>4 DEF UsageValue
<1>. QED
  BY <1>3, <1>4

\* The readings of the first k entries that speak of a slot.
Spoken(limits, k, slot) == {LimitWindow(limits[i]) : i \in {j \in 1..k : Speaks(limits[j], slot)}}

\* What the loop knows after k entries is their sum.
LEMMA LoopSumsUp ==
    ASSUME NEW n \in Nat, NEW limits, NEW slot,
           \A i \in 1..n : limits[i].reset \in Nat \cup {Missing, Malformed},
           NEW f, Loop(f, limits, n, slot), NEW k \in 0..n
    PROVE  /\ Spoken(limits, k, slot) \subseteq ReadingRecord
           /\ IF Spoken(limits, k, slot) = {} THEN f[k] = NoReading
              ELSE SumsUp(f[k], Spoken(limits, k, slot))
<1> DEFINE S(i) == Spoken(limits, i, slot)
           Right(i) == /\ S(i) \subseteq ReadingRecord
                       /\ IF S(i) = {} THEN f[i] = NoReading ELSE SumsUp(f[i], S(i))
           wrong == {i \in 0..n : ~Right(i)}
<1>1. SUFFICES ASSUME wrong # {} PROVE FALSE
  OBVIOUS
<1>2. PICK i \in wrong : \A j \in wrong : i <= j
  <2>1. wrong \subseteq Nat
    OBVIOUS
  <2> HIDE DEF wrong
  <2>. QED
    BY <1>1, <2>1, MinOfNaturals
<1>3. Right(0)
  <2>1. 1..0 = {}
    OBVIOUS
  <2>2. S(0) = {}
    BY <2>1 DEF Spoken
  <2>. QED
    BY <2>2 DEF Loop
<1>4. i \in 1..n /\ i - 1 \in 0..n
  BY <1>2, <1>3
<1>5. Right(i - 1)
  <2> HIDE DEF Right
  <2>. QED
    BY <1>2, <1>4
<1>6. f[i] = Merged(f[i - 1], limits[i], slot)
  BY <1>4 DEF Loop
<1>7. \A j \in 1..i : j = i \/ j \in 1..(i - 1)
  BY <1>4
<1>8. 1..(i - 1) \subseteq 1..i /\ i \in 1..i
  BY <1>4
<1>9. CASE ~Speaks(limits[i], slot)
  <2>1. S(i) = S(i - 1)
    BY <1>7, <1>8, <1>9 DEF Spoken
  <2>2. f[i] = f[i - 1]
    BY <1>6, <1>9 DEF Merged
  <2>3. Right(i)
    BY <1>5, <2>1, <2>2
  <2> HIDE DEF Right
  <2>. QED
    BY <1>2, <2>3
<1>10. CASE Speaks(limits[i], slot)
  <2> DEFINE r == LimitWindow(limits[i])
  <2>1. S(i) = S(i - 1) \cup {r}
    BY <1>7, <1>8, <1>10 DEF Spoken
  <2>2. r \in ReadingRecord
    <3>1. r.valid
      BY <1>10 DEF Speaks
    <3>2. limits[i].reset \in Nat \cup {Missing, Malformed}
      BY <1>4
    <3>. QED
      BY <3>1, <3>2, ValueReads DEF LimitWindow
  <2>3. \A w \in ReadingRecord : w # NoReading
    BY SomeReading
  <2>4. f[i] = IF f[i - 1] = NoReading THEN r ELSE ConservativeWindow(f[i - 1], r)
    BY <1>6, <1>10 DEF Merged
  <2> HIDE DEF r
  <2>5. CASE S(i - 1) = {}
    <3>1. f[i] = r /\ S(i) = {r}
      BY <1>5, <2>1, <2>4, <2>5
    <3>2. SumsUp(r, {r})
      <4>1. r.percent \in Nat /\ r.resetAt \in Nat
        BY <2>2 DEF ReadingRecord
      <4>2. r.percent <= r.percent /\ r.resetAt <= r.resetAt
        BY <4>1
      <4>. QED
        BY <2>2, <4>2 DEF SumsUp
    <3>3. Right(i)
      BY <2>2, <3>1, <3>2
    <3> HIDE DEF Right
    <3>. QED
      BY <1>2, <3>3
  <2>6. CASE S(i - 1) # {}
    <3>1. S(i - 1) \subseteq ReadingRecord /\ SumsUp(f[i - 1], S(i - 1))
      BY <1>5, <2>6
    <3>2. f[i - 1] \in ReadingRecord
      BY <3>1 DEF SumsUp
    <3>3. f[i] = ConservativeWindow(f[i - 1], r)
      BY <2>3, <2>4, <3>2
    <3> HIDE DEF S
    <3>4. SumsUp(f[i], S(i)) /\ S(i) \subseteq ReadingRecord /\ S(i) # {}
      BY <2>1, <2>2, <3>1, <3>3, SumExtends
    <3>5. Right(i)
      BY <3>4
    <3> HIDE DEF Right
    <3>. QED
      BY <1>2, <3>5
  <2>. QED
    BY <2>5, <2>6
<1>. QED
  BY <1>9, <1>10

\* What a body comes to for a slot sums up what it says of it, or is its
\* top-level key when the list is silent.
LEMMA BodySumsUp ==
    ASSUME NEW answer \in Answers, answer.kind = "body", NEW slot \in Slots
    PROVE  LET window == UsageWindows(answer.body)[slot]
               reports == Reports(answer.body, slot)
           IN  \/ reports = {window} /\ window = LegacyWindow(answer.body, slot)
               \/ reports \subseteq ReadingRecord /\ SumsUp(window, reports)
<1> DEFINE limits == answer.body.limits
           n == Len(limits)
           listed == Listed(limits, slot)
           S == Spoken(limits, n, slot)
<1>1. /\ n \in Nat /\ DOMAIN limits = 1..n
      /\ \A i \in 1..n : limits[i].reset \in Nat \cup {Missing, Malformed}
  BY AnswersAssumption
<1>2. ASSUME NEW i \in 1..n, NEW w \in MergedOrNone PROVE Merged(w, limits[i], slot) \in MergedOrNone
  <2>1. Speaks(limits[i], slot) => LimitWindow(limits[i]) \in ReadingRecord
    BY <1>1, ValueReads DEF Speaks, LimitWindow
  <2>2. CASE Speaks(limits[i], slot) /\ w # NoReading
    <3>1. w \in ReadingRecord /\ LimitWindow(limits[i]) \in ReadingRecord
      BY <2>1, <2>2 DEF MergedOrNone
    <3>. QED
      BY <2>2, <3>1, ConservativeMerge DEF Merged, MergedOrNone
  <2>3. CASE ~(Speaks(limits[i], slot) /\ w # NoReading)
    BY <2>1, <2>3 DEF Merged, MergedOrNone
  <2>. QED
    BY <2>2, <2>3
<1> HIDE DEF n
<1>3. PICK f : Loop(f, limits, n, slot) /\ f[n] = listed
  <2> HIDE DEF limits
  <2>. QED
    BY <1>1, <1>2, ListIsLoop
<1>4. /\ S \subseteq ReadingRecord
      /\ IF S = {} THEN listed = NoReading ELSE SumsUp(listed, S)
  <2> n \in 0..n
    BY <1>1
  <2> HIDE DEF limits, listed
  <2>. QED
    BY <1>1, <1>3, LoopSumsUp
<1>5. UsageWindows(answer.body)[slot] =
         IF listed = NoReading THEN LegacyWindow(answer.body, slot) ELSE listed
  BY DEF UsageWindows, Listed
<1> DEFINE spoken == {limit \in Range(limits) : Speaks(limit, slot)}
<1>6. Reports(answer.body, slot) =
         IF spoken = {} THEN {LegacyWindow(answer.body, slot)} ELSE {LimitWindow(limit) : limit \in spoken}
  BY DEF Reports
<1>7. S = {LimitWindow(limit) : limit \in spoken}
  BY <1>1 DEF Spoken, Range
<1>8. \A w \in ReadingRecord : w # NoReading
  BY SomeReading
<1>9. SumsUp(listed, S) => listed \in ReadingRecord
  BY DEF SumsUp
<1> HIDE DEF listed, S, spoken, limits
<1>. QED
  BY <1>4, <1>5, <1>6, <1>7, <1>8, <1>9

\* A commit that changes a window of a slot writes the stamped one of its batch.
LEMMA WindowWritten ==
    ASSUME CacheShape, NEW id \in AuthIDs, NEW token, NEW batch, NEW at, NEW startedAt, NEW isPoll,
           CommitWindowBatch(id, token, batch, at, startedAt, isPoll), NEW slot \in Slots
    PROVE  samples'[id].windows[slot] \in
              {samples[id].windows[slot], [batch[slot] EXCEPT !.sampledAt = at]}
<1> DEFINE incoming == Stamped(batch, at)
           landing == LandingSlots(id, incoming, startedAt, isPoll)
           old == samples[id]
           windows == [s \in Slots |-> IF s \in landing THEN incoming[s] ELSE old.windows[s]]
           updated == [old EXCEPT
               !.windows = [s \in Slots |-> IF s \in landing THEN incoming[s] ELSE @[s]],
               !.lastError = IF landing # {} THEN NoError ELSE @]
           recovered == [updated EXCEPT
               !.usageSuccessAt = AtLeast(at, @), !.failures = 0, !.nextRefreshAt = NoTime]
           sample == IF isPoll THEN recovered ELSE updated
<1>1. /\ samples = [other \in AuthIDs |-> samples[other]]
      /\ DOMAIN old = SampleFields
  BY DEF CacheShape
<1>2. samples' = [samples EXCEPT ![id] = sample]
  BY DEF CommitWindowBatch
<1>3. updated.windows = windows /\ DOMAIN updated = SampleFields
  <2> HIDE DEF landing, incoming
  <2>. QED
    BY <1>1 DEF SampleFields, NoSample
<1> HIDE DEF updated, windows
<1>4. recovered.windows = windows
  BY <1>3 DEF SampleFields, NoSample
<1> HIDE DEF recovered
<1>5. samples'[id].windows = windows
  <2>1. sample.windows = windows
    BY <1>3, <1>4
  <2> HIDE DEF sample
  <2>. QED
    BY <1>1, <1>2, <2>1
<1>6. windows[slot] \in {old.windows[slot], incoming[slot]}
  BY DEF windows
<1>7. incoming[slot] = [batch[slot] EXCEPT !.sampledAt = at]
  BY DEF Stamped
<1>. QED
  BY <1>5, <1>6, <1>7

\* The stamp makes no difference to what a window blocks.
LEMMA StampedBlocks ==
    ASSUME NEW w, NEW at, NEW t, NEW cutoff, DOMAIN w = DOMAIN NoReading
    PROVE  Blocks([w EXCEPT !.sampledAt = at], t, cutoff) = Blocks(w, t, cutoff)
<1> DEFINE stamped == [w EXCEPT !.sampledAt = at]
<1>1. /\ stamped.valid = w.valid /\ stamped.percent = w.percent
      /\ stamped.resetAt = w.resetAt
  BY DEF NoReading
<1> HIDE DEF stamped
<1>2. Blocks(stamped, t, cutoff) = Blocks(w, t, cutoff)
  BY <1>1 DEF Blocks
<1>. QED
  BY <1>2 DEF stamped

\* The body of a poll that has its answer and reads as usage.
LEMMA UsageIsBody ==
    ASSUME NEW answer \in Answers, NEW at, UsageResult(answer, at).kind = "usage"
    PROVE  answer.kind = "body" /\ UsageResult(answer, at).windows = UsageWindows(answer.body)
<1>1. answer.kind \in {"status", "broken", "body"}
  BY AnswersAssumption
<1>2. CASE answer.kind = "status"
  BY <1>2 DEF UsageResult, Failed
<1>3. CASE answer.kind = "broken"
  BY <1>3 DEF UsageResult, Failed
<1>4. CASE answer.kind = "body"
  <2> DEFINE windows == UsageWindows(answer.body)
  <2>1. UsageResult(answer, at) =
           IF windows["five_hour"].valid THEN [kind |-> "usage", windows |-> windows]
           ELSE Failed("upstream", NoHint)
    BY <1>4 DEF UsageResult
  <2> HIDE DEF windows
  <2>2. UsageResult(answer, at).windows = windows
    BY <2>1 DEF Failed
  <2>. QED
    BY <1>4, <2>2 DEF windows
<1>. QED
  BY <1>1, <1>2, <1>3, <1>4

\* Every window of a body is stamped like a reading.
LEMMA BodyWindowFields ==
    ASSUME NEW answer \in Answers, answer.kind = "body", NEW slot \in Slots
    PROVE  DOMAIN UsageWindows(answer.body)[slot] = DOMAIN NoReading
<1> DEFINE window == UsageWindows(answer.body)[slot]
<1>1. \A w \in MergedOrNone : DOMAIN w = DOMAIN NoReading
  BY DEF MergedOrNone, ReadingRecord, NoReading
<1>2. LegacyWindow(answer.body, slot) \in MergedOrNone
  BY AnswersAssumption, ValueReads DEF LegacyWindow
<1>3. window = LegacyWindow(answer.body, slot) \/ window \in ReadingRecord
  <2>1. \/ window = LegacyWindow(answer.body, slot)
        \/ SumsUp(window, Reports(answer.body, slot))
    BY BodySumsUp
  <2>. QED
    BY <2>1 DEF SumsUp
<1>. QED
  BY <1>1, <1>2, <1>3 DEF MergedOrNone

\* A commit of a poll writes windows that match what the body reports.
LEMMA StepMatches ==
    ASSUME ObservationsInv, HintInv, [Next]_vars,
           poll.pc = "settling", Result.kind = "usage", poll' # poll, NEW slot \in Slots,
           samples'[poll.id].windows[slot] # samples[poll.id].windows[slot],
           NEW t \in now..(now + MaxNow)
    PROVE  LET window == samples'[poll.id].windows[slot]
               reports == Reports(poll.answer.body, slot)
           IN  /\ (\E w \in reports : Blocks(w, t, Cutoff)) => Blocks(window, t, Cutoff)
               /\ Blocks(window, t, Cutoff) =>
                     /\ \E w \in reports : w.percent >= Cutoff
                     /\ \E w \in reports : w.resetAt = NoTime \/ t < w.resetAt
<1> DEFINE body == poll.answer.body
           read == UsageWindows(body)[slot]
           window == samples'[poll.id].windows[slot]
           reports == Reports(body, slot)
<1>1. /\ CacheShape /\ now \in Nat /\ poll.id \in AuthIDs /\ poll.answer \in Answers
  BY DEF ObservationsInv, Shape, Holders, Holds, HintInv
<1>2. PollCommit
  <2>1. ASSUME UNCHANGED poll PROVE FALSE
    BY <2>1
  <2>2. ASSUME PollFail PROVE FALSE
    BY <2>2 DEF PollFail
  <2>. QED
    BY <2>1, <2>2
       DEF Next, Relist, PollStart, PollBind, PollAnswer, PollCommitExtra,
           SelectAuth, Observe, LandExtra, LandWindows, Tick, vars
<1>3. poll.answer.kind = "body" /\ Result.windows = UsageWindows(body)
  BY <1>1, UsageIsBody DEF Result
<1>4. window \in {samples[poll.id].windows[slot], [Result.windows[slot] EXCEPT !.sampledAt = now]}
  <2>1. CommitWindowBatch(poll.id, poll.token, Result.windows, now, poll.startedAt, TRUE)
    BY <1>2 DEF PollCommit, cacheVars
  <2>. QED
    BY <1>1, <2>1, WindowWritten
<1>5. window = [read EXCEPT !.sampledAt = now]
  BY <1>3, <1>4
<1>6. Blocks(window, t, Cutoff) = Blocks(read, t, Cutoff)
  BY <1>1, <1>3, <1>5, BodyWindowFields, StampedBlocks
<1>7. \/ reports = {read}
      \/ reports \subseteq ReadingRecord /\ SumsUp(read, reports)
  BY <1>1, <1>3, BodySumsUp
<1>8. t \in Nat /\ Cutoff \in Nat
  BY <1>1, ObservationsAssumption
<1> HIDE DEF read, window, reports
<1>9. /\ (\E w \in reports : Blocks(w, t, Cutoff)) => Blocks(read, t, Cutoff)
      /\ Blocks(read, t, Cutoff) =>
            /\ \E w \in reports : w.percent >= Cutoff
            /\ \E w \in reports : w.resetAt = NoTime \/ t < w.resetAt
  <2>1. CASE reports = {read}
    BY <2>1 DEF Blocks
  <2>2. CASE reports \subseteq ReadingRecord /\ SumsUp(read, reports)
    BY <1>8, <2>2, SumBlocks
  <2>. QED
    BY <1>7, <2>1, <2>2
<1>. QED
  BY <1>6, <1>9 DEF window, reports

\* Whatever a body lists for a slot, in whatever order and however often, the
\* window that a poll stores blocks when one of those entries does, and only
\* if one is exhausted and one has not reset.
THEOREM PollsMatchReports == Spec => WindowsMatchReports
<1>1. Init => HintInv
  BY DEF Init, CacheInit, HintInv, NoSample, NoPoll
<1>2. ObservationsInv /\ HintInv /\ [Next]_vars => HintInv'
  BY StepHint
<1>3. ObservationsInv /\ HintInv /\ [Next]_vars =>
         [poll.pc = "settling" /\ Result.kind = "usage" /\ poll' # poll =>
             \A slot \in Slots :
                LET window == samples'[poll.id].windows[slot]
                    reports == Reports(poll.answer.body, slot)
                IN  window # samples[poll.id].windows[slot] =>
                       \A t \in now..(now + MaxNow) :
                          /\ (\E w \in reports : Blocks(w, t, Cutoff)) => Blocks(window, t, Cutoff)
                          /\ Blocks(window, t, Cutoff) =>
                                /\ \E w \in reports : w.percent >= Cutoff
                                /\ \E w \in reports : w.resetAt = NoTime \/ t < w.resetAt]_vars
  BY StepMatches
<1>. QED
  BY <1>1, <1>2, <1>3, ObservationsInvariant, PTL DEF Spec, WindowsMatchReports
=============================================================================
