----------------------------- MODULE CodexRoute -----------------------------
(***************************************************************************)
(* The Codex half of the quota resource route.  A call of the route lists  *)
(* the host's auths, prunes the cached states of auths it does not list    *)
(* and starts one goroutine per Codex account, at most FetchConcurrency of *)
(* them at a time.  A goroutine takes the state of its account from the    *)
(* shared map and locks it for the whole refresh: read the credential,     *)
(* fetch, store the answer or the pause.  Calls run concurrently and share *)
(* the map; the host's list changes between the steps of a call.           *)
(*                                                                         *)
(* Only calls that carry a configured key get here; the others are         *)
(* answered 401 or 404 and touch nothing.  A body is reduced to whether    *)
(* there is one, an account to its auth index.                             *)
(***************************************************************************)
EXTENDS RefreshBackoff, FiniteSets

CONSTANTS Accounts,          \* auth indexes of Codex accounts
          Volatile,          \* those the host may add, enable, disable or remove
          Calls,             \* concurrent calls of the route
          States,            \* addresses of codexState values; unreachable ones are reused
          NoState,
          Nobody,            \* an unlocked mutex
          FetchConcurrency,  \* codexFetchConcurrency (4)
          CacheTTL,          \* codexUsageCacheTTL (60 s)
          Millisecond,       \* in units of the clock
          FailureKinds,      \* failed fetches: [category, hint]
          MaxNow, MaxFaults, MaxListChanges   \* bounds on the environment

Goroutines == Calls \X Accounts

ASSUME CodexAssumption ==
    /\ Volatile \subseteq Accounts
    /\ NoState \notin States
    /\ Nobody \notin Goroutines
    /\ FetchConcurrency \in Nat \ {0} /\ CacheTTL \in Nat \ {0} /\ Millisecond \in Nat \ {0}
    /\ FailureKinds \subseteq [category : {"unauthorized", "rate_limited", "upstream"},
                               hint : Nat \cup {NoHint}]
    /\ MaxNow \in Nat /\ MaxFaults \in Nat /\ MaxListChanges \in Nat

VARIABLES
    now,
    listed,     \* the accounts the host lists as enabled
    table,      \* codexStates.states: account -> address of its state
    state,      \* address -> codexState
    holder,     \* codexState.mu: address -> the goroutine that holds it
    call,       \* a call of the route: [pc, left], left = the listed accounts it has still to start
    goroutine,  \* <<call, account>> -> [pc, on]: one per account a call looks up
    budget,     \* faults and list changes that may still happen
    lastGood,   \* ghost: address -> when the fetch of its last good usage ended
    embargo     \* ghost: address -> the instant before which nothing may be fetched

vars == <<now, listed, table, state, holder, call, goroutine, budget, lastGood, embargo>>

NoTime == 0
NoError == "none"
FetchErrors == {"unauthorized", "rate_limited", "upstream"}
ErrorCategories == {NoError, "auth_get"} \cup FetchErrors

FreshState == [usage |-> FALSE, fetchedAt |-> NoTime, failures |-> 0,
               nextAt |-> NoTime, lastErr |-> NoError]
IdleCall == [pc |-> "idle", left |-> {}]
Absent == [pc |-> "absent", on |-> NoState]

Init ==
    /\ now = 1
    /\ listed \in {Accounts, Accounts \ Volatile}
    /\ table = [a \in Accounts |-> NoState]
    /\ state = [s \in States |-> FreshState]
    /\ holder = [s \in States |-> Nobody]
    /\ call = [c \in Calls |-> IdleCall]
    /\ goroutine = [g \in Goroutines |-> Absent]
    /\ budget = [faults |-> MaxFaults, listChanges |-> MaxListChanges]
    /\ lastGood = [s \in States |-> NoTime]
    /\ embargo = [s \in States |-> NoTime]

-----------------------------------------------------------------------------
(* A call of the route *)

\* handleQuotaResource has checked the key, and the host has listed its auths.
\* (When the listing fails the call answers an empty list and changes nothing.)
ListAuth(c) ==
    /\ call[c].pc = "idle"
    /\ call' = [call EXCEPT ![c] = [pc |-> "pruning", left |-> listed]]
    /\ UNCHANGED <<now, listed, table, state, holder, goroutine, budget, lastGood, embargo>>

\* Mutant: the accounts that are not listed are no longer in the map's domain.
PruneTrimmed(c) ==
    /\ call[c].pc = "pruning"
    /\ table' = [a \in call[c].left |-> table[a]]
    /\ call' = [call EXCEPT ![c].pc = "serving"]
    /\ UNCHANGED <<now, listed, state, holder, goroutine, budget, lastGood, embargo>>

\* prune: states of accounts that this call does not list leave the map, also
\* when another call is using them.
Prune(c) ==
    /\ call[c].pc = "pruning"
    /\ table' = [a \in Accounts |-> IF a \in call[c].left THEN table[a] ELSE NoState]
    /\ call' = [call EXCEPT ![c].pc = "serving"]
    /\ UNCHANGED <<now, listed, state, holder, goroutine, budget, lastGood, embargo>>

Running(g) == goroutine[g].pc # "absent"

\* The loop waits for a free slot of the semaphore before it starts the next
\* goroutine.  The order of the host's list is arbitrary.
Spawn(c) ==
    /\ call[c].pc = "serving"
    /\ Cardinality({a \in Accounts : Running(<<c, a>>)}) < FetchConcurrency
    /\ \E a \in call[c].left :
          /\ call' = [call EXCEPT ![c].left = @ \ {a}]
          /\ goroutine' = [goroutine EXCEPT ![<<c, a>>].pc = "started"]
    /\ UNCHANGED <<now, listed, table, state, holder, budget, lastGood, embargo>>

\* wg.Wait, and the answer with one view per account.
Reply(c) ==
    /\ call[c].pc = "serving"
    /\ call[c].left = {}
    /\ \A a \in Accounts : ~Running(<<c, a>>)
    /\ call' = [call EXCEPT ![c] = IdleCall]
    /\ UNCHANGED <<now, listed, table, state, holder, goroutine, budget, lastGood, embargo>>

-----------------------------------------------------------------------------
(* codexAccountQuota *)

\* Neither in the map nor held by a goroutine: the garbage collector's.
Unreachable(s) ==
    /\ \A a \in Accounts : table[a] # s
    /\ \A g \in Goroutines : goroutine[g].on # s

\* codexStates.get
GetState(g) ==
    /\ goroutine[g].pc = "started"
    /\ \/ /\ table[g[2]] # NoState
          /\ goroutine' = [goroutine EXCEPT ![g].pc = "waiting", ![g].on = table[g[2]]]
          /\ UNCHANGED <<table, state, lastGood, embargo>>
       \/ /\ table[g[2]] = NoState
          /\ \E s \in States : Unreachable(s)
          /\ LET s == CHOOSE s \in States : Unreachable(s)
             IN /\ goroutine' = [goroutine EXCEPT ![g].pc = "waiting", ![g].on = s]
                /\ table' = [table EXCEPT ![g[2]] = s]
                /\ state' = [state EXCEPT ![s] = FreshState]
                /\ lastGood' = [lastGood EXCEPT ![s] = NoTime]
                /\ embargo' = [embargo EXCEPT ![s] = NoTime]
    /\ UNCHANGED <<now, listed, holder, call, budget>>

\* Mutant: usage that is exactly CacheTTL old is served.
CachedInclusive(st) == st.lastErr = NoError /\ st.usage /\ now - st.fetchedAt <= CacheTTL

Cached(st) == st.lastErr = NoError /\ st.usage /\ now - st.fetchedAt < CacheTTL
Paused(st) == now < st.nextAt

\* codexView: what a goroutine answers when it returns, the delay in whole
\* milliseconds, rounded down.  Nothing reads the answer again before the
\* reply, so it is not kept.
View(st) ==
    [error |-> st.lastErr, usage |-> st.usage,
     fetchedAt |-> IF st.usage THEN st.fetchedAt ELSE NoTime,
     retryAfter |-> IF st.lastErr # NoError /\ now < st.nextAt
                    THEN (st.nextAt - now) \div Millisecond ELSE 0]

\* A goroutine that returns drops its reference and its slot.
Return(g) == goroutine' = [goroutine EXCEPT ![g] = Absent]

Lockable(g) == goroutine[g].pc = "waiting" /\ holder[goroutine[g].on] = Nobody

\* The mutex is taken, the state answers for itself, the mutex is released.
ServeStored(g) ==
    /\ Lockable(g)
    /\ Cached(state[goroutine[g].on]) \/ Paused(state[goroutine[g].on])
    /\ Return(g)
    /\ UNCHANGED <<now, listed, table, state, holder, call, budget, lastGood, embargo>>

\* Mutant: the mutex is released before the host call.
RefreshUnlocked(g) ==
    /\ Lockable(g)
    /\ ~Cached(state[goroutine[g].on])
    /\ ~Paused(state[goroutine[g].on])
    /\ goroutine' = [goroutine EXCEPT ![g].pc = "reading"]
    /\ UNCHANGED <<now, listed, table, state, holder, call, budget, lastGood, embargo>>

\* The mutex is taken and held over the host call and the fetch.
BeginRefresh(g) ==
    /\ Lockable(g)
    /\ ~Cached(state[goroutine[g].on])
    /\ ~Paused(state[goroutine[g].on])
    /\ holder' = [holder EXCEPT ![goroutine[g].on] = g]
    /\ goroutine' = [goroutine EXCEPT ![g].pc = "reading"]
    /\ UNCHANGED <<now, listed, table, state, call, budget, lastGood, embargo>>

ReadCredential(g) ==
    /\ goroutine[g].pc = "reading"
    /\ goroutine' = [goroutine EXCEPT ![g].pc = "fetching"]
    /\ UNCHANGED <<now, listed, table, state, holder, call, budget, lastGood, embargo>>

\* The state is replaced by st, the mutex released, and the goroutine returns.
Store(g, st) ==
    /\ state' = [state EXCEPT ![goroutine[g].on] = st]
    /\ holder' = [holder EXCEPT ![goroutine[g].on] = Nobody]
    /\ Return(g)

\* Mutant: an early return that does not unlock.
ReadFailsLocked(g) ==
    /\ goroutine[g].pc = "reading"
    /\ budget.faults > 0
    /\ budget' = [budget EXCEPT !.faults = @ - 1]
    /\ state' = [state EXCEPT ![goroutine[g].on].lastErr = "auth_get"]
    /\ Return(g)
    /\ UNCHANGED <<now, listed, table, holder, call, lastGood, embargo>>

\* No credential, or one without a token: an error without a pause.  (The two
\* categories are not told apart, and the pause is over, so that it does not
\* matter that the answer is made with the clock reading before the host call.)
ReadFails(g) ==
    /\ goroutine[g].pc = "reading"
    /\ budget.faults > 0
    /\ budget' = [budget EXCEPT !.faults = @ - 1]
    /\ Store(g, [state[goroutine[g].on] EXCEPT !.lastErr = "auth_get"])
    /\ UNCHANGED <<now, listed, table, call, lastGood, embargo>>

FetchSucceeds(g) ==
    /\ goroutine[g].pc = "fetching"
    /\ Store(g, [FreshState EXCEPT !.usage = TRUE, !.fetchedAt = now])
    /\ lastGood' = [lastGood EXCEPT ![goroutine[g].on] = now]
    /\ embargo' = [embargo EXCEPT ![goroutine[g].on] = now + CacheTTL]
    /\ UNCHANGED <<now, listed, table, call, budget>>

\* Mutant: the first failure does not pause.
FailedTwice(st, kind, pause) ==
    [st EXCEPT !.failures = @ + 1, !.lastErr = kind.category,
               !.nextAt = IF st.failures > 0 THEN now + pause ELSE NoTime]

\* The body that is already there stays.
Failed(st, kind, pause) ==
    [st EXCEPT !.failures = @ + 1, !.nextAt = now + pause, !.lastErr = kind.category]

FetchFails(g) ==
    /\ goroutine[g].pc = "fetching"
    /\ budget.faults > 0
    /\ budget' = [budget EXCEPT !.faults = @ - 1]
    /\ LET st == state[goroutine[g].on]
       IN  \E kind \in FailureKinds :
           \E pause \in Pauses(st.failures + 1, kind.category = "rate_limited", kind.hint) :
              /\ Store(g, Failed(st, kind, pause))
              /\ embargo' = [embargo EXCEPT ![goroutine[g].on] = now + pause]
    /\ UNCHANGED <<now, listed, table, call, lastGood>>

-----------------------------------------------------------------------------
(* The environment *)

Tick ==
    /\ now < MaxNow
    /\ now' = now + 1
    /\ UNCHANGED <<listed, table, state, holder, call, goroutine, budget, lastGood, embargo>>

ChangeList ==
    /\ budget.listChanges > 0
    /\ budget' = [budget EXCEPT !.listChanges = @ - 1]
    /\ \E a \in Volatile : listed' = IF a \in listed THEN listed \ {a} ELSE listed \cup {a}
    /\ UNCHANGED <<now, table, state, holder, call, goroutine, lastGood, embargo>>

CallStep(c) == Prune(c) \/ Spawn(c) \/ Reply(c)

GoroutineStep(g) ==
    \/ GetState(g)
    \/ ServeStored(g)
    \/ BeginRefresh(g)
    \/ ReadCredential(g)
    \/ ReadFails(g)
    \/ FetchSucceeds(g)
    \/ FetchFails(g)

Next ==
    \/ \E c \in Calls : ListAuth(c) \/ CallStep(c)
    \/ \E g \in Goroutines : GoroutineStep(g)
    \/ Tick
    \/ ChangeList

Spec == Init /\ [][Next]_vars

\* The goroutines run, and host calls and fetches return (a fetch has a
\* timeout).  Refreshes are finitely many while the clock is bounded, so weak
\* fairness also gives a waiter its mutex; in the program the starvation mode
\* of sync.Mutex does.
Fairness ==
    /\ \A c \in Calls : WF_vars(CallStep(c))
    /\ \A g \in Goroutines : WF_vars(GoroutineStep(g))

FairSpec == Spec /\ Fairness
-----------------------------------------------------------------------------
(* Properties *)

StateRecord == [usage : BOOLEAN, fetchedAt : Nat, failures : Nat, nextAt : Nat,
                lastErr : ErrorCategories]
CallRecord == [pc : {"idle", "pruning", "serving"}, left : SUBSET Accounts]
GoroutineRecord ==
    [pc : {"absent", "started", "waiting", "reading", "fetching"}, on : States \cup {NoState}]

\* Types: the map holds only addresses of states, a pruned account none, a
\* mutex is held by one goroutine or by nobody.
TypeOK ==
    /\ now \in Nat
    /\ listed \subseteq Accounts
    /\ table \in [Accounts -> States \cup {NoState}]
    /\ state \in [States -> StateRecord]
    /\ holder \in [States -> Goroutines \cup {Nobody}]
    /\ call \in [Calls -> CallRecord]
    /\ goroutine \in [Goroutines -> GoroutineRecord]
    /\ budget \in [faults : Nat, listChanges : Nat]
    /\ lastGood \in [States -> Nat]
    /\ embargo \in [States -> Nat]

Fetching(g) == goroutine[g].pc = "fetching"

\* Concurrent route calls never fetch one account's usage at the same time
\* (the comment on codexState: they "never stampede upstream").
NeverStampede ==
    \A g, h \in Goroutines : Fetching(g) /\ Fetching(h) /\ g[2] = h[2] => g = h

\* They do not as long as the host's list has not changed: then no call
\* prunes a state that another one uses.
NoStampedeUnlessRelisted == budget.listChanges = MaxListChanges => NeverStampede

\* Whatever the order of calls, failed credential reads and prunes: a state is
\* fetched for again only when the pause of its last failed fetch is over and
\* its last good usage is CacheTTL old.
FetchesSpaced ==
    [][\A g \in Goroutines : ~Fetching(g) /\ Fetching(g)' => now >= embargo[goroutine[g].on]]_vars

\* What a call answers for an account: without an error, usage younger than
\* CacheTTL; with one, the last usage that was fetched for this state and the
\* time until the next fetch may happen, in milliseconds.  They never end after
\* that instant, and less than one before it: a client that comes back when they
\* end may be early by less than a millisecond, and is answered the stored state.
HonestAnswer(view, fetchedAt, until) ==
    /\ view.fetchedAt = fetchedAt
    /\ view.error = NoError => view.usage /\ now - view.fetchedAt < CacheTTL
    /\ view.error # NoError =>
          /\ now + Millisecond * view.retryAfter <= AtLeast(now, until)
          /\ AtLeast(now, until) < now + Millisecond * (view.retryAfter + 1)

AnswersHonest ==
    [][\A g \in Goroutines :
          Running(g) /\ ~Running(g)' =>
             LET s == goroutine[g].on
             IN  HonestAnswer(View(state'[s]), lastGood'[s], embargo'[s])]_vars

\* A call that was started answers, however the calls, the mutexes of the
\* states and the semaphore interleave.
RouteAnswers == \A c \in Calls : call[c].pc # "idle" ~> call[c].pc = "idle"
=============================================================================
