----------------------------- MODULE CodexProofs -----------------------------
(***************************************************************************)
(* The Codex route for any number of accounts, calls and list changes: one *)
(* refresh at a time per state, fetches spaced by pauses and cached usage, *)
(* honest answers, and no stampede while the host's list stays the same.   *)
(***************************************************************************)
EXTENDS CodexRoute, TLAPS

-----------------------------------------------------------------------------
(* The inductive invariant *)

Refreshing(g) == goroutine[g].pc \in {"reading", "fetching"}

\* A goroutine refers to a state from codexStates.get until it returns.
References ==
    \A g \in Goroutines : goroutine[g].pc \in {"absent", "started"} <=> goroutine[g].on = NoState

\* A call starts each of its accounts once.
StartedOnce ==
    \A g \in Goroutines :
        call[g[1]].pc \in {"idle", "pruning"} \/ g[2] \in call[g[1]].left => ~Running(g)

\* mu is held from the first look at the state to the answer.
Locked == \A g \in Goroutines : Refreshing(g) => holder[goroutine[g].on] = g

\* What a state says of its last fetches, against what they were.
Pausing(s) == now < state[s].nextAt => embargo[s] = state[s].nextAt /\ state[s].lastErr # NoError
Caching(s) ==
    \/ embargo[s] <= now
    \/ embargo[s] = state[s].nextAt
    \/ /\ state[s].usage /\ state[s].lastErr = NoError
       /\ embargo[s] = state[s].fetchedAt + CacheTTL
Recalling(s) == lastGood[s] = IF state[s].usage THEN state[s].fetchedAt ELSE NoTime
Truthful == \A s \in States : Pausing(s) /\ Caching(s) /\ Recalling(s)

\* While a goroutine refreshes a state, neither holds it back.
Released == \A g \in Goroutines :
    Refreshing(g) => embargo[goroutine[g].on] <= now /\ state[goroutine[g].on].nextAt <= now

RouteInv == TypeOK /\ References /\ StartedOnce /\ Locked /\ Truthful /\ Released

\* While the host's list stays the same, every running call works on listed
\* accounts, whose states stay in the map.
Unrelisted == budget.listChanges = MaxListChanges
Settled ==
    /\ \A c \in Calls : /\ call[c].pc = "pruning" => call[c].left = listed
                        /\ call[c].pc = "serving" => call[c].left \subseteq listed
    /\ \A g \in Goroutines :
          Running(g) => g[2] \in listed /\ goroutine[g].on \in {NoState, table[g[2]]}
SettledInv == budget.listChanges <= MaxListChanges /\ (Unrelisted => Settled)

-----------------------------------------------------------------------------
(* Typing *)

\* The states of a new and of an absent entry are well typed.
LEMMA ConstantTypes ==
    /\ FreshState \in StateRecord
    /\ IdleCall \in CallRecord
    /\ Absent \in GoroutineRecord
BY DEF FreshState, StateRecord, ErrorCategories, NoError, NoTime, IdleCall, CallRecord,
       Absent, GoroutineRecord

\* Storing a well-typed state, or only returning, keeps the types of what it writes.
LEMMA StoreType ==
    ASSUME TypeOK, NEW g \in Goroutines, NEW st \in StateRecord, Store(g, st)
    PROVE  /\ state' \in [States -> StateRecord]
           /\ holder' \in [States -> Goroutines \cup {Nobody}]
           /\ goroutine' \in [Goroutines -> GoroutineRecord]
BY ConstantTypes DEF TypeOK, Store, Return

\* The steps of a call keep the types.
LEMMA CallTypes ==
    ASSUME TypeOK, NEW c \in Calls, ListAuth(c) \/ CallStep(c)
    PROVE  TypeOK'
<1>1. CASE ListAuth(c)
  BY <1>1 DEF TypeOK, ListAuth, CallRecord
<1>2. CASE Prune(c)
  BY <1>2 DEF TypeOK, Prune, CallRecord
<1>3. CASE Spawn(c)
  <2>1. PICK a \in call[c].left :
            /\ call' = [call EXCEPT ![c].left = @ \ {a}]
            /\ goroutine' = [goroutine EXCEPT ![<<c, a>>].pc = "started"]
    BY <1>3 DEF Spawn
  <2>2. call' \in [Calls -> CallRecord]
    BY <2>1 DEF TypeOK, CallRecord
  <2>3. goroutine' \in [Goroutines -> GoroutineRecord]
    BY <2>1 DEF TypeOK, GoroutineRecord
  <2>. QED
    BY <1>3, <2>2, <2>3 DEF TypeOK, Spawn
<1>4. CASE Reply(c)
  BY <1>4, ConstantTypes DEF TypeOK, Reply
<1>. QED
  BY <1>1, <1>2, <1>3, <1>4 DEF CallStep

\* The steps of a goroutine keep the types.
LEMMA GoroutineTypes ==
    ASSUME TypeOK, NEW g \in Goroutines, GoroutineStep(g)
    PROVE  TypeOK'
<1> DEFINE s == goroutine[g].on
<1>0. g[2] \in Accounts
  BY DEF Goroutines
<1>1. CASE GetState(g)
  <2>1. CASE table[g[2]] # NoState
    BY <1>0, <1>1, <2>1 DEF TypeOK, GetState, GoroutineRecord
  <2>2. CASE table[g[2]] = NoState
    <3>1. PICK new \in States :
              /\ goroutine' = [goroutine EXCEPT ![g].pc = "waiting", ![g].on = new]
              /\ table' = [table EXCEPT ![g[2]] = new]
              /\ state' = [state EXCEPT ![new] = FreshState]
              /\ lastGood' = [lastGood EXCEPT ![new] = NoTime]
              /\ embargo' = [embargo EXCEPT ![new] = NoTime]
      BY <1>1, <2>2 DEF GetState
    <3>2. goroutine' \in [Goroutines -> GoroutineRecord]
      BY <3>1 DEF TypeOK, GoroutineRecord
    <3>3. /\ table' \in [Accounts -> States \cup {NoState}]
          /\ state' \in [States -> StateRecord]
          /\ lastGood' \in [States -> Nat]
          /\ embargo' \in [States -> Nat]
      BY <3>1, ConstantTypes DEF TypeOK, NoTime
    <3>. QED
      BY <1>1, <3>2, <3>3 DEF TypeOK, GetState
  <2>. QED
    BY <2>1, <2>2
<1>2. CASE ServeStored(g)
  BY <1>2, ConstantTypes DEF TypeOK, ServeStored, Return
<1>3. CASE BeginRefresh(g)
  BY <1>3 DEF TypeOK, BeginRefresh, GoroutineRecord
<1>4. CASE ReadCredential(g)
  BY <1>4 DEF TypeOK, ReadCredential, GoroutineRecord
<1>5. CASE ReadFails(g)
  <2>1. budget' \in [faults : Nat, listChanges : Nat]
    BY <1>5 DEF TypeOK, ReadFails
  <2>2. CASE s \in States
    <3>1. [state[s] EXCEPT !.lastErr = "auth_get"] \in StateRecord
      BY <2>2 DEF TypeOK, StateRecord, ErrorCategories
    <3>. QED
      BY <1>5, <2>1, <3>1, StoreType DEF TypeOK, ReadFails
  <2>3. CASE s \notin States
    <3>1. state' \in [States -> StateRecord] /\ holder' \in [States -> Goroutines \cup {Nobody}]
      BY <1>5, <2>3 DEF TypeOK, ReadFails, Store
    <3>2. goroutine' \in [Goroutines -> GoroutineRecord]
      BY <1>5, ConstantTypes DEF TypeOK, ReadFails, Store, Return
    <3>. QED
      BY <1>5, <2>1, <3>1, <3>2 DEF TypeOK, ReadFails
  <2>. QED
    BY <2>2, <2>3
<1>6. CASE FetchSucceeds(g)
  <2>1. [FreshState EXCEPT !.usage = TRUE, !.fetchedAt = now] \in StateRecord
    BY DEF TypeOK, FreshState, StateRecord, ErrorCategories, NoError, NoTime
  <2>2. lastGood' \in [States -> Nat]
    BY <1>6 DEF TypeOK, FetchSucceeds
  <2>3. now + CacheTTL \in Nat
    BY CodexAssumption DEF TypeOK
  <2>4. embargo' \in [States -> Nat]
    BY <1>6, <2>3 DEF TypeOK, FetchSucceeds
  <2>. QED
    BY <1>6, <2>1, <2>2, <2>4, StoreType DEF TypeOK, FetchSucceeds
<1>7. CASE FetchFails(g)
  <2>1. budget' \in [faults : Nat, listChanges : Nat]
    BY <1>7 DEF TypeOK, FetchFails
  <2>0. PICK kind \in FailureKinds :
            \E pause \in Pauses(state[s].failures + 1, kind.category = "rate_limited", kind.hint) :
               /\ Store(g, Failed(state[s], kind, pause))
               /\ embargo' = [embargo EXCEPT ![s] = now + pause]
    BY <1>7 DEF FetchFails
  <2>2. PICK pause \in Pauses(state[s].failures + 1, kind.category = "rate_limited", kind.hint) :
            /\ Store(g, Failed(state[s], kind, pause))
            /\ embargo' = [embargo EXCEPT ![s] = now + pause]
    BY <2>0
  <2>3. pause \in Nat /\ now + pause \in Nat
    BY BackoffAssumption DEF TypeOK, Pauses, LongestPause
  <2>4. kind.category \in ErrorCategories
    BY CodexAssumption DEF ErrorCategories, FetchErrors
  <2>5. embargo' \in [States -> Nat]
    BY <2>2, <2>3 DEF TypeOK
  <2>6. CASE s \in States
    <3>0. state[s] \in StateRecord /\ state[s].failures + 1 \in Nat
      BY <2>6 DEF TypeOK, StateRecord
    <3>1. Failed(state[s], kind, pause) \in StateRecord
      BY <2>3, <2>4, <3>0 DEF StateRecord, Failed
    <3>. QED
      BY <1>7, <2>1, <2>2, <2>5, <3>1, StoreType DEF TypeOK, FetchFails
  <2>7. CASE s \notin States
    <3>1. state' \in [States -> StateRecord] /\ holder' \in [States -> Goroutines \cup {Nobody}]
      BY <2>2, <2>7 DEF TypeOK, Store
    <3>2. goroutine' \in [Goroutines -> GoroutineRecord]
      BY <2>2, ConstantTypes DEF TypeOK, Store, Return
    <3>. QED
      BY <1>7, <2>1, <2>5, <3>1, <3>2 DEF TypeOK, FetchFails
  <2>. QED
    BY <2>6, <2>7
<1>. QED
  BY <1>1, <1>2, <1>3, <1>4, <1>5, <1>6, <1>7 DEF GoroutineStep

\* The environment keeps the types.
LEMMA EnvironmentTypes ==
    ASSUME TypeOK, Tick \/ ChangeList
    PROVE  TypeOK'
<1>1. CASE Tick
  BY <1>1 DEF TypeOK, Tick
<1>2. CASE ChangeList
  BY <1>2, CodexAssumption DEF TypeOK, ChangeList
<1>. QED
  BY <1>1, <1>2

\* The state of the route keeps its type, for any accounts and calls.
THEOREM RouteTypeCorrect == Spec => []TypeOK
<1>1. Init => TypeOK
  BY ConstantTypes, CodexAssumption DEF Init, TypeOK, NoTime
<1>2. TypeOK /\ [Next]_vars => TypeOK'
  <2> SUFFICES ASSUME TypeOK, [Next]_vars PROVE TypeOK'
    OBVIOUS
  <2>1. ASSUME NEW c \in Calls, ListAuth(c) \/ CallStep(c) PROVE TypeOK'
    BY <2>1, CallTypes
  <2>2. ASSUME NEW g \in Goroutines, GoroutineStep(g) PROVE TypeOK'
    BY <2>2, GoroutineTypes
  <2>3. CASE Tick \/ ChangeList
    BY <2>3, EnvironmentTypes
  <2>4. CASE UNCHANGED vars
    BY <2>4 DEF TypeOK, vars
  <2>. QED
    BY <2>1, <2>2, <2>3, <2>4 DEF Next
<1>. QED
  BY <1>1, <1>2, PTL DEF Spec

-----------------------------------------------------------------------------
(* The route's invariant *)

\* The steps of a call neither touch a state nor start an account twice.
LEMMA CallKeepsInv ==
    ASSUME RouteInv, NEW c \in Calls, ListAuth(c) \/ CallStep(c)
    PROVE  RouteInv'
<1>0. TypeOK'
  BY CallTypes DEF RouteInv
<1>1. UNCHANGED <<now, state, holder, lastGood, embargo>>
  BY DEF ListAuth, CallStep, Prune, Spawn, Reply
<1>2. Truthful'
  BY <1>1 DEF RouteInv, Truthful, Pausing, Caching, Recalling
<1>3. CASE Spawn(c)
  <2>1. PICK a \in call[c].left :
            /\ call' = [call EXCEPT ![c].left = @ \ {a}]
            /\ goroutine' = [goroutine EXCEPT ![<<c, a>>].pc = "started"]
    BY <1>3 DEF Spawn
  <2> DEFINE new == <<c, a>>
  <2>2. new \in Goroutines /\ a \in Accounts
    BY DEF RouteInv, TypeOK, CallRecord, Goroutines
  <2>3. goroutine[new].pc = "absent" /\ goroutine[new].on = NoState
    BY <1>3, <2>2 DEF RouteInv, StartedOnce, References, Spawn, Running
  <2>4. goroutine'[new].pc = "started" /\ goroutine'[new].on = NoState
    BY <2>1, <2>2, <2>3 DEF RouteInv, TypeOK, GoroutineRecord
  <2>5. \A g \in Goroutines : g # new => goroutine'[g] = goroutine[g]
    BY <2>1 DEF RouteInv, TypeOK
  <2>6. References' /\ Locked' /\ Released'
    BY <1>1, <2>4, <2>5 DEF RouteInv, References, Locked, Released, Refreshing
  <2>7. StartedOnce'
    <3> SUFFICES ASSUME NEW g \in Goroutines,
                        call'[g[1]].pc \in {"idle", "pruning"} \/ g[2] \in call'[g[1]].left
                 PROVE  goroutine'[g].pc = "absent"
      BY DEF StartedOnce, Running
    <3>1. call'[c].pc = "serving" /\ call'[c].left = call[c].left \ {a}
      BY <1>3, <2>1 DEF RouteInv, TypeOK, CallRecord, Spawn
    <3>2. \A d \in Calls : d # c => call'[d] = call[d]
      BY <2>1 DEF RouteInv, TypeOK
    <3>3. g[1] \in Calls /\ g[2] \in Accounts /\ g = <<g[1], g[2]>>
      BY DEF Goroutines
    <3>4. g # new
      BY <3>1
    <3>5. call[g[1]].pc \in {"idle", "pruning"} \/ g[2] \in call[g[1]].left
      BY <3>1, <3>2, <3>3
    <3>. QED
      BY <2>5, <3>4, <3>5 DEF RouteInv, StartedOnce, Running
  <2>. QED
    BY <1>0, <1>2, <2>6, <2>7 DEF RouteInv
<1>4. CASE ~Spawn(c)
  <2>1. goroutine' = goroutine
    BY <1>4 DEF ListAuth, CallStep, Prune, Reply
  <2>2. References' /\ Locked' /\ Released'
    BY <1>1, <2>1 DEF RouteInv, References, Locked, Released, Refreshing
  <2>3. \A d \in Calls : d # c => call'[d] = call[d]
    BY <1>4 DEF RouteInv, TypeOK, ListAuth, CallStep, Prune, Reply
  <2>4. ASSUME NEW g \in Goroutines, g[1] = c PROVE ~Running(g)
    <3>1. CASE ListAuth(c) \/ Prune(c)
      BY <2>4, <3>1 DEF RouteInv, StartedOnce, ListAuth, Prune
    <3>2. CASE Reply(c)
      <4>1. g[2] \in Accounts /\ g = <<c, g[2]>>
        BY <2>4 DEF Goroutines
      <4>. QED
        BY <3>2, <4>1 DEF Reply
    <3>. QED
      BY <1>4, <3>1, <3>2 DEF CallStep
  <2>5. StartedOnce'
    <3> SUFFICES ASSUME NEW g \in Goroutines,
                        call'[g[1]].pc \in {"idle", "pruning"} \/ g[2] \in call'[g[1]].left
                 PROVE  ~Running(g)
      BY <2>1 DEF StartedOnce, Running
    <3>1. g[1] \in Calls
      BY DEF Goroutines
    <3>. QED
      BY <2>3, <2>4, <3>1 DEF RouteInv, StartedOnce
  <2>. QED
    BY <1>0, <1>2, <2>2, <2>5 DEF RouteInv
<1>. QED
  BY <1>3, <1>4

\* A goroutine that refreshes does so on a state, which it alone refreshes.
LEMMA Exclusive ==
    ASSUME RouteInv, NEW g \in Goroutines, Refreshing(g)
    PROVE  /\ goroutine[g].on \in States
           /\ \A h \in Goroutines :
                 Refreshing(h) /\ goroutine[h].on = goroutine[g].on => h = g
BY DEF RouteInv, TypeOK, GoroutineRecord, References, Locked, Refreshing

\* A goroutine that returns lets go of its state; the others keep theirs.
LEMMA ReturnKeepsReferences ==
    ASSUME RouteInv, NEW g \in Goroutines, Return(g), call' = call
    PROVE  /\ References' /\ StartedOnce'
           /\ goroutine'[g] = Absent
           /\ \A h \in Goroutines : h # g => goroutine'[h] = goroutine[h]
<1>1. goroutine'[g] = Absent /\ (\A h \in Goroutines : h # g => goroutine'[h] = goroutine[h])
  BY DEF RouteInv, TypeOK, Return
<1>2. References'
  BY <1>1 DEF RouteInv, References, Absent
<1>3. StartedOnce'
  BY <1>1 DEF RouteInv, StartedOnce, Absent, Running
<1>. QED
  BY <1>1, <1>2, <1>3

\* A refresh ends: the invariant is kept when what it stores is truthful about
\* its state.
LEMMA StoreKeepsInv ==
    ASSUME RouteInv, TypeOK', NEW g \in Goroutines, Refreshing(g), NEW st, Store(g, st),
           UNCHANGED <<now, call>>,
           NEW s \in States, s = goroutine[g].on,
           Pausing(s)', Caching(s)', Recalling(s)',
           \A r \in States : r # s => embargo'[r] = embargo[r] /\ lastGood'[r] = lastGood[r]
    PROVE  RouteInv'
<1>1. Return(g)
  BY DEF Store
<1>2. References' /\ StartedOnce'
  BY <1>1, ReturnKeepsReferences
<1>3. /\ goroutine'[g] = Absent
      /\ \A h \in Goroutines : h # g => goroutine'[h] = goroutine[h]
  BY <1>1, ReturnKeepsReferences
<1>4. \A r \in States : r # s => state'[r] = state[r] /\ holder'[r] = holder[r]
  BY DEF RouteInv, TypeOK, Store
<1>5. ASSUME NEW h \in Goroutines, Refreshing(h)'
      PROVE  /\ Refreshing(h) /\ goroutine'[h] = goroutine[h]
             /\ goroutine[h].on \in States /\ goroutine[h].on # s
  <2>1. h # g /\ goroutine'[h] = goroutine[h]
    BY <1>3, <1>5 DEF Refreshing, Absent
  <2>2. Refreshing(h)
    BY <1>5, <2>1 DEF Refreshing
  <2>. QED
    BY <2>1, <2>2, Exclusive
<1>6. Locked' /\ Released'
  <2> SUFFICES ASSUME NEW h \in Goroutines, Refreshing(h)'
               PROVE  /\ holder'[goroutine'[h].on] = h
                      /\ embargo'[goroutine'[h].on] <= now'
                      /\ state'[goroutine'[h].on].nextAt <= now'
    BY DEF Locked, Released
  <2>. QED
    BY <1>4, <1>5 DEF RouteInv, Locked, Released
<1>7. Truthful'
  <2> SUFFICES ASSUME NEW r \in States PROVE (Pausing(r) /\ Caching(r) /\ Recalling(r))'
    BY DEF Truthful
  <2>1. CASE r = s
    BY <2>1
  <2>2. CASE r # s
    BY <1>4, <2>2 DEF RouteInv, Truthful, Pausing, Caching, Recalling
  <2>. QED
    BY <2>1, <2>2
<1>. QED
  BY <1>2, <1>6, <1>7 DEF RouteInv

\* A goroutine's step keeps the invariant.
LEMMA GoroutineKeepsInv ==
    ASSUME RouteInv, NEW g \in Goroutines, GoroutineStep(g)
    PROVE  RouteInv'
<1> DEFINE s == goroutine[g].on
<1>0. TypeOK' /\ TypeOK
  BY GoroutineTypes DEF RouteInv
<1>1. CASE GetState(g)
  <2>0. UNCHANGED <<now, listed, holder, call, budget>> /\ goroutine[g].pc = "started"
    BY <1>1 DEF GetState
  <2>1. PICK r \in States : goroutine' = [goroutine EXCEPT ![g].pc = "waiting", ![g].on = r]
    BY <1>0, <1>1 DEF GetState, TypeOK, Goroutines
  <2>2. /\ goroutine'[g] = [pc |-> "waiting", on |-> r]
        /\ \A h \in Goroutines : h # g => goroutine'[h] = goroutine[h]
    BY <1>0, <2>1 DEF TypeOK, GoroutineRecord
  <2>3. References'
    BY <2>2, CodexAssumption DEF RouteInv, References
  <2>4. StartedOnce'
    BY <2>0, <2>2 DEF RouteInv, StartedOnce, Running
  <2>5. \A h \in Goroutines :
           Refreshing(h)' => Refreshing(h) /\ goroutine'[h] = goroutine[h] /\ goroutine[h].on \in States
    BY <2>2, Exclusive DEF Refreshing
  <2>6. CASE UNCHANGED <<state, lastGood, embargo>>
    <3>1. Locked' /\ Released'
      BY <2>0, <2>5, <2>6 DEF RouteInv, Locked, Released
    <3>2. Truthful'
      BY <2>0, <2>6 DEF RouteInv, Truthful, Pausing, Caching, Recalling
    <3>. QED
      BY <1>0, <2>3, <2>4, <3>1, <3>2 DEF RouteInv
  <2>7. CASE ~UNCHANGED <<state, lastGood, embargo>>
    <3>1. PICK new \in States :
              /\ Unreachable(new)
              /\ state' = [state EXCEPT ![new] = FreshState]
              /\ lastGood' = [lastGood EXCEPT ![new] = NoTime]
              /\ embargo' = [embargo EXCEPT ![new] = NoTime]
      BY <1>1, <2>7 DEF GetState
    <3>2. /\ state'[new] = FreshState /\ lastGood'[new] = NoTime /\ embargo'[new] = NoTime
          /\ \A q \in States : q # new =>
                 state'[q] = state[q] /\ lastGood'[q] = lastGood[q] /\ embargo'[q] = embargo[q]
      BY <1>0, <3>1 DEF TypeOK
    <3>3. \A h \in Goroutines : goroutine[h].on # new
      BY <3>1 DEF Unreachable
    <3>4. Locked' /\ Released'
      BY <2>0, <2>5, <3>2, <3>3 DEF RouteInv, Locked, Released
    <3>5. (Pausing(new) /\ Caching(new) /\ Recalling(new))'
      BY <1>0, <2>0, <3>2 DEF TypeOK, Pausing, Caching, Recalling, FreshState, NoTime
    <3>6. Truthful'
      BY <2>0, <3>2, <3>5 DEF RouteInv, Truthful, Pausing, Caching, Recalling
    <3>. QED
      BY <1>0, <2>3, <2>4, <3>4, <3>6 DEF RouteInv
  <2>. QED
    BY <2>6, <2>7
<1>2. CASE ServeStored(g)
  <2>1. Return(g) /\ UNCHANGED <<now, call, state, holder, lastGood, embargo>>
    BY <1>2 DEF ServeStored
  <2>2. References' /\ StartedOnce'
    BY <2>1, ReturnKeepsReferences
  <2>3. \A h \in Goroutines : Refreshing(h)' => Refreshing(h) /\ goroutine'[h] = goroutine[h]
    BY <2>1, ReturnKeepsReferences DEF Refreshing, Absent
  <2>4. Locked' /\ Released'
    BY <2>1, <2>3 DEF RouteInv, Locked, Released
  <2>5. Truthful'
    BY <2>1 DEF RouteInv, Truthful, Pausing, Caching, Recalling
  <2>. QED
    BY <1>0, <2>2, <2>4, <2>5 DEF RouteInv
<1>3. CASE BeginRefresh(g)
  <2>0. UNCHANGED <<now, call, state, lastGood, embargo>> /\ goroutine[g].pc = "waiting"
    BY <1>3 DEF BeginRefresh, Lockable
  <2>1. s \in States /\ holder[s] = Nobody
    BY <1>0, <1>3, <2>0 DEF TypeOK, GoroutineRecord, RouteInv, References, BeginRefresh, Lockable
  <2>2. /\ goroutine'[g] = [pc |-> "reading", on |-> s]
        /\ \A h \in Goroutines : h # g => goroutine'[h] = goroutine[h]
    BY <1>0, <1>3 DEF BeginRefresh, TypeOK, GoroutineRecord
  <2>3. holder'[s] = g /\ \A r \in States : r # s => holder'[r] = holder[r]
    BY <1>0, <1>3, <2>1 DEF BeginRefresh, TypeOK
  <2>4. References' /\ StartedOnce'
    BY <2>0, <2>1, <2>2, CodexAssumption DEF RouteInv, References, StartedOnce, Running
  <2>5. \A h \in Goroutines : Refreshing(h) => goroutine[h].on \in States /\ goroutine[h].on # s
    BY <2>1, Exclusive, CodexAssumption DEF RouteInv, Locked
  <2>6. Locked'
    BY <2>2, <2>3, <2>5 DEF RouteInv, Locked, Refreshing
  <2>7. state[s] \in StateRecord /\ embargo[s] \in Nat /\ now \in Nat /\ CacheTTL \in Nat
    BY <1>0, <2>1, CodexAssumption DEF TypeOK
  <2>8. ~Cached(state[s]) /\ state[s].nextAt <= now
    BY <1>3, <2>7 DEF BeginRefresh, Paused, StateRecord
  <2>9. embargo[s] <= now
    BY <2>1, <2>7, <2>8 DEF RouteInv, Truthful, Caching, Cached, StateRecord
  <2>10. Released'
    BY <2>0, <2>2, <2>8, <2>9 DEF RouteInv, Released, Refreshing
  <2>11. Truthful'
    BY <2>0 DEF RouteInv, Truthful, Pausing, Caching, Recalling
  <2>. QED
    BY <1>0, <2>4, <2>6, <2>10, <2>11 DEF RouteInv
<1>4. CASE ReadCredential(g)
  <2>1. /\ UNCHANGED <<now, call, state, holder, lastGood, embargo>>
        /\ goroutine[g].pc = "reading"
        /\ goroutine'[g] = [pc |-> "fetching", on |-> s]
        /\ \A h \in Goroutines : h # g => goroutine'[h] = goroutine[h]
    BY <1>0, <1>4 DEF ReadCredential, TypeOK, GoroutineRecord
  <2>2. References' /\ StartedOnce'
    BY <2>1 DEF RouteInv, References, StartedOnce, Running
  <2>3. Locked' /\ Released'
    BY <2>1 DEF RouteInv, Locked, Released, Refreshing
  <2>4. Truthful'
    BY <2>1 DEF RouteInv, Truthful, Pausing, Caching, Recalling
  <2>. QED
    BY <1>0, <2>2, <2>3, <2>4 DEF RouteInv
<1>5. CASE ReadFails(g)
  <2> DEFINE st == [state[s] EXCEPT !.lastErr = "auth_get"]
  <2>1. Refreshing(g) /\ Store(g, st) /\ UNCHANGED <<now, call, lastGood, embargo>>
    BY <1>5 DEF ReadFails, Refreshing
  <2>2. PICK r \in States : r = s
    BY <2>1, Exclusive
  <2>3. /\ state'[r].nextAt = state[r].nextAt /\ state'[r].usage = state[r].usage
        /\ state'[r].fetchedAt = state[r].fetchedAt
    BY <1>0, <2>1, <2>2 DEF TypeOK, StateRecord, Store
  <2>4. embargo[r] <= now /\ state[r].nextAt <= now /\ state[r].nextAt \in Nat /\ now \in Nat
    BY <1>0, <2>1, <2>2 DEF RouteInv, Released, TypeOK, StateRecord
  <2>5. Pausing(r)' /\ Caching(r)'
    BY <2>1, <2>3, <2>4 DEF Pausing, Caching
  <2>6. Recalling(r)'
    BY <2>1, <2>2, <2>3 DEF RouteInv, Truthful, Recalling
  <2> HIDE DEF st
  <2>. QED
    BY <1>0, <2>1, <2>2, <2>5, <2>6, StoreKeepsInv
<1>6. CASE FetchSucceeds(g)
  <2> DEFINE st == [FreshState EXCEPT !.usage = TRUE, !.fetchedAt = now]
  <2>1. Refreshing(g) /\ Store(g, st) /\ UNCHANGED <<now, call>>
    BY <1>6 DEF FetchSucceeds, Refreshing
  <2>2. PICK r \in States : r = s
    BY <2>1, Exclusive
  <2>3. /\ state'[r] = st /\ lastGood'[r] = now /\ embargo'[r] = now + CacheTTL
        /\ \A q \in States : q # r => lastGood'[q] = lastGood[q] /\ embargo'[q] = embargo[q]
    BY <1>0, <1>6, <2>2 DEF TypeOK, FetchSucceeds, Store
  <2>4. Pausing(r)' /\ Caching(r)' /\ Recalling(r)'
    BY <1>0, <2>1, <2>3 DEF TypeOK, Pausing, Caching, Recalling, FreshState, NoTime
  <2> HIDE DEF st
  <2>. QED
    BY <1>0, <2>1, <2>2, <2>3, <2>4, StoreKeepsInv
<1>7. CASE FetchFails(g)
  <2>1. PICK kind \in FailureKinds :
            \E pause \in Pauses(state[s].failures + 1, kind.category = "rate_limited", kind.hint) :
               /\ Store(g, Failed(state[s], kind, pause))
               /\ embargo' = [embargo EXCEPT ![s] = now + pause]
    BY <1>7 DEF FetchFails
  <2>2. PICK pause \in Pauses(state[s].failures + 1, kind.category = "rate_limited", kind.hint) :
            /\ Store(g, Failed(state[s], kind, pause))
            /\ embargo' = [embargo EXCEPT ![s] = now + pause]
    BY <2>1
  <2> DEFINE st == Failed(state[s], kind, pause)
  <2>3. Refreshing(g) /\ Store(g, st) /\ UNCHANGED <<now, call, lastGood>>
    BY <1>7, <2>2 DEF FetchFails, Refreshing
  <2>4. PICK r \in States : r = s
    BY <2>3, Exclusive
  <2>5. kind.category # NoError
    BY CodexAssumption DEF NoError
  <2>6. /\ state'[r].nextAt = now + pause /\ state'[r].lastErr # NoError
        /\ state'[r].usage = state[r].usage /\ state'[r].fetchedAt = state[r].fetchedAt
        /\ embargo'[r] = now + pause
        /\ \A q \in States : q # r => embargo'[q] = embargo[q]
    BY <1>0, <2>2, <2>4, <2>5 DEF TypeOK, StateRecord, Store, Failed
  <2>7. Pausing(r)' /\ Caching(r)'
    BY <2>6 DEF Pausing, Caching
  <2>8. Recalling(r)'
    BY <2>3, <2>4, <2>6 DEF RouteInv, Truthful, Recalling
  <2> HIDE DEF st
  <2>. QED
    BY <1>0, <2>3, <2>4, <2>6, <2>7, <2>8, StoreKeepsInv
<1>. QED
  BY <1>1, <1>2, <1>3, <1>4, <1>5, <1>6, <1>7 DEF GoroutineStep

\* The route's invariant holds in every state the route reaches.
THEOREM RouteInvariant == Spec => []RouteInv
<1>1. Init => RouteInv
  <2> SUFFICES ASSUME Init PROVE RouteInv
    OBVIOUS
  <2>1. TypeOK
    BY ConstantTypes, CodexAssumption DEF Init, TypeOK, NoTime
  <2>2. References /\ StartedOnce /\ Locked /\ Released
    BY DEF Init, References, StartedOnce, Locked, Released, Refreshing, Running, Absent
  <2>3. Truthful
    BY <2>1 DEF Init, TypeOK, Truthful, Pausing, Caching, Recalling, FreshState, NoTime
  <2>. QED
    BY <2>1, <2>2, <2>3 DEF RouteInv
<1>2. RouteInv /\ [Next]_vars => RouteInv'
  <2> SUFFICES ASSUME RouteInv, [Next]_vars PROVE RouteInv'
    OBVIOUS
  <2>1. ASSUME NEW c \in Calls, ListAuth(c) \/ CallStep(c) PROVE RouteInv'
    BY <2>1, CallKeepsInv
  <2>2. ASSUME NEW g \in Goroutines, GoroutineStep(g) PROVE RouteInv'
    BY <2>2, GoroutineKeepsInv
  <2>3. CASE Tick \/ ChangeList
    <3>1. TypeOK'
      BY <2>3, EnvironmentTypes DEF RouteInv
    <3>2. UNCHANGED <<table, state, holder, call, goroutine, lastGood, embargo>>
      BY <2>3 DEF Tick, ChangeList
    <3>3. now \in Nat /\ now' \in Nat /\ now <= now'
      BY <2>3 DEF RouteInv, TypeOK, Tick, ChangeList
    <3>4. References' /\ StartedOnce' /\ Locked'
      BY <3>2 DEF RouteInv, References, StartedOnce, Locked, Refreshing, Running
    <3>5. Truthful'
      <4> SUFFICES ASSUME NEW s \in States PROVE (Pausing(s) /\ Caching(s) /\ Recalling(s))'
        BY DEF Truthful
      <4>1. state[s] \in StateRecord /\ embargo[s] \in Nat
        BY DEF RouteInv, TypeOK
      <4>2. Pausing(s) /\ Caching(s) /\ Recalling(s)
        BY DEF RouteInv, Truthful
      <4>. QED
        BY <3>2, <3>3, <4>1, <4>2 DEF Pausing, Caching, Recalling, StateRecord
    <3>6. Released'
      <4> SUFFICES ASSUME NEW g \in Goroutines, Refreshing(g)
                   PROVE  embargo[goroutine[g].on] <= now' /\ state[goroutine[g].on].nextAt <= now'
        BY <3>2 DEF Released, Refreshing
      <4>1. goroutine[g].on \in States
        BY Exclusive
      <4>2. embargo[goroutine[g].on] \in Nat /\ state[goroutine[g].on].nextAt \in Nat
        BY <4>1 DEF RouteInv, TypeOK, StateRecord
      <4>. QED
        BY <3>3, <4>2 DEF RouteInv, Released
    <3>. QED
      BY <3>1, <3>4, <3>5, <3>6 DEF RouteInv
  <2>4. CASE UNCHANGED vars
    BY <2>4 DEF vars, RouteInv, TypeOK, References, StartedOnce, Locked, Released, Refreshing,
                Running, Truthful, Pausing, Caching, Recalling
  <2>. QED
    BY <2>1, <2>2, <2>3, <2>4 DEF Next
<1>. QED
  BY <1>1, <1>2, PTL DEF Spec

-----------------------------------------------------------------------------
(* What follows from it *)

\* A goroutine's step moves no other goroutine, and it reaches the fetch only
\* by reading a credential.
LEMMA GoroutineLocal ==
    ASSUME TypeOK, NEW g \in Goroutines, GoroutineStep(g)
    PROVE  /\ \A h \in Goroutines : h # g => goroutine'[h] = goroutine[h]
           /\ Fetching(g)' => ReadCredential(g)
<1>1. CASE GetState(g)
  <2>1. PICK r : goroutine' = [goroutine EXCEPT ![g].pc = "waiting", ![g].on = r]
    BY <1>1 DEF GetState
  <2>. QED
    BY <2>1 DEF TypeOK, GoroutineRecord, Fetching
<1>2. CASE BeginRefresh(g)
  BY <1>2 DEF TypeOK, GoroutineRecord, Fetching, BeginRefresh
<1>3. CASE ReadCredential(g)
  BY <1>3 DEF TypeOK, ReadCredential
<1>4. CASE ServeStored(g) \/ ReadFails(g) \/ FetchSucceeds(g) \/ FetchFails(g)
  <2>1. Return(g)
    BY <1>4 DEF ServeStored, ReadFails, FetchSucceeds, FetchFails, Store
  <2>. QED
    BY <2>1 DEF TypeOK, Return, Fetching, Absent
<1>. QED
  BY <1>1, <1>2, <1>3, <1>4 DEF GoroutineStep

\* A call's steps take no goroutine to the fetch and none back from its work.
LEMMA CallLocal ==
    ASSUME RouteInv, NEW c \in Calls, ListAuth(c) \/ CallStep(c), NEW g \in Goroutines
    PROVE  (Fetching(g)' => Fetching(g)) /\ (Running(g) => Running(g)')
<1>1. CASE Spawn(c)
  <2>1. PICK a \in call[c].left : goroutine' = [goroutine EXCEPT ![<<c, a>>].pc = "started"]
    BY <1>1 DEF Spawn
  <2>. QED
    BY <2>1 DEF RouteInv, TypeOK, GoroutineRecord, Fetching, Running
<1>2. CASE ~Spawn(c)
  BY <1>2 DEF ListAuth, CallStep, Prune, Reply, Fetching, Running
<1>. QED
  BY <1>1, <1>2

\* Fetches of a state keep their distance: a goroutine that reached the fetch
\* holds a state whose pause is over and whose usage is old.
THEOREM FetchesAreSpaced == Spec => FetchesSpaced
<1>1. RouteInv /\ [Next]_vars =>
         [\A g \in Goroutines : ~Fetching(g) /\ Fetching(g)' => now >= embargo[goroutine[g].on]]_vars
  <2> SUFFICES ASSUME RouteInv, [Next]_vars, NEW g \in Goroutines, ~Fetching(g), Fetching(g)'
               PROVE  now >= embargo[goroutine[g].on]
    OBVIOUS
  <2>1. Refreshing(g)
    <3>1. ASSUME NEW c \in Calls, ListAuth(c) \/ CallStep(c) PROVE FALSE
      BY <3>1, CallLocal
    <3>2. ASSUME NEW h \in Goroutines, GoroutineStep(h) PROVE ReadCredential(g)
      BY <3>2, GoroutineLocal DEF RouteInv, Fetching
    <3>3. CASE Tick \/ ChangeList \/ UNCHANGED vars
      BY <3>3 DEF Tick, ChangeList, vars, Fetching
    <3>. QED
      BY <3>1, <3>2, <3>3 DEF Next, ReadCredential, Refreshing
  <2>2. goroutine[g].on \in States
    BY <2>1, Exclusive
  <2>. QED
    BY <2>1, <2>2 DEF RouteInv, Released, TypeOK
<1>. QED
  BY <1>1, RouteInvariant, PTL DEF Spec, FetchesSpaced

\* Whole milliseconds of a delay, rounded down, end within it, less than one
\* before its end.
LEMMA WholeMilliseconds ==
    ASSUME NEW delay \in Nat
    PROVE  /\ delay \div Millisecond \in Nat
           /\ Millisecond * (delay \div Millisecond) <= delay
           /\ delay < Millisecond * (delay \div Millisecond + 1)
<1>1. Millisecond \in Nat /\ Millisecond > 0
  BY CodexAssumption
<1> DEFINE whole == delay \div Millisecond
<1>2. whole \in Nat /\ Millisecond * whole <= delay /\ delay < Millisecond * whole + Millisecond
  BY <1>1
<1> HIDE DEF whole
<1>3. Millisecond * (whole + 1) = Millisecond * whole + Millisecond
  BY <1>1, <1>2
<1>4. delay < Millisecond * (whole + 1)
  BY <1>2, <1>3
<1>. QED
  BY <1>2, <1>4 DEF whole

\* The delay of a view ends less than a millisecond before the pause.
LEMMA ViewDelay ==
    ASSUME NEW st, st.nextAt \in Nat, now \in Nat, st.lastErr # NoError
    PROVE  LET delay == View(st).retryAfter
           IN  /\ now + Millisecond * delay <= AtLeast(now, st.nextAt)
               /\ AtLeast(now, st.nextAt) < now + Millisecond * (delay + 1)
<1>0. Millisecond \in Nat /\ Millisecond > 0
  BY CodexAssumption
<1>1. CASE now < st.nextAt
  <2> DEFINE delay == st.nextAt - now
             whole == delay \div Millisecond
  <2>1. delay \in Nat /\ now + delay = st.nextAt
    BY <1>1
  <2>2. View(st).retryAfter = whole /\ AtLeast(now, st.nextAt) = st.nextAt
    BY <1>1 DEF View, AtLeast
  <2> HIDE DEF delay
  <2>3. whole \in Nat /\ Millisecond * whole <= delay /\ delay < Millisecond * (whole + 1)
    BY <2>1, WholeMilliseconds
  <2> HIDE DEF whole
  <2> DEFINE ended == Millisecond * whole
             after == Millisecond * (whole + 1)
  <2>4. ended \in Nat /\ after \in Nat
    BY <1>0, <2>3
  <2>5. ended <= delay /\ delay < after
    BY <2>3
  <2> HIDE DEF ended, after
  <2>6. now + ended <= st.nextAt /\ st.nextAt < now + after
    BY <2>1, <2>4, <2>5
  <2>. QED
    BY <2>2, <2>6 DEF ended, after
<1>2. CASE ~(now < st.nextAt)
  <2>1. View(st).retryAfter = 0 /\ AtLeast(now, st.nextAt) = now
    BY <1>2 DEF View, AtLeast
  <2>. QED
    BY <1>0, <2>1
<1>. QED
  BY <1>1, <1>2

\* What a call answers for an account is what its state last fetched, and how
\* long the account is still left alone, to the millisecond.
THEOREM AnswersAreHonest == Spec => AnswersHonest
<1> DEFINE Honest(g) ==
       HonestAnswer(View(state'[goroutine[g].on]), lastGood'[goroutine[g].on], embargo'[goroutine[g].on])
<1>1. RouteInv /\ [Next]_vars =>
         [\A g \in Goroutines : Running(g) /\ ~Running(g)' => Honest(g)]_vars
  <2> SUFFICES ASSUME RouteInv, [Next]_vars, NEW g \in Goroutines, Running(g), ~Running(g)'
               PROVE  Honest(g)
    OBVIOUS
  <2> DEFINE s == goroutine[g].on
  <2>0. TypeOK /\ now \in Nat /\ CacheTTL \in Nat \ {0}
    BY CodexAssumption DEF RouteInv, TypeOK
  <2>1. GoroutineStep(g)
    <3>1. ASSUME NEW c \in Calls, ListAuth(c) \/ CallStep(c) PROVE FALSE
      BY <3>1, CallLocal
    <3>2. ASSUME NEW h \in Goroutines, GoroutineStep(h) PROVE GoroutineStep(g)
      BY <3>2, GoroutineLocal DEF RouteInv, Running
    <3>3. CASE Tick \/ ChangeList \/ UNCHANGED vars
      BY <3>3 DEF Tick, ChangeList, vars, Running
    <3>. QED
      BY <3>1, <3>2, <3>3 DEF Next
  <2>2. CASE GetState(g) \/ BeginRefresh(g) \/ ReadCredential(g)
    <3>1. CASE GetState(g)
      <4>1. PICK r : goroutine' = [goroutine EXCEPT ![g].pc = "waiting", ![g].on = r]
        BY <3>1 DEF GetState
      <4>. QED
        BY <2>0, <4>1 DEF TypeOK, GoroutineRecord, Running
    <3>2. CASE BeginRefresh(g) \/ ReadCredential(g)
      BY <2>0, <3>2 DEF TypeOK, GoroutineRecord, Running, BeginRefresh, ReadCredential
    <3>. QED
      BY <2>2, <3>1, <3>2
  <2>3. CASE ServeStored(g)
    <3>1. s \in States
      BY <2>0, <2>3 DEF ServeStored, Lockable, RouteInv, References, TypeOK, GoroutineRecord
    <3>2. /\ state' = state /\ lastGood' = lastGood /\ embargo' = embargo
          /\ state[s] \in StateRecord /\ embargo[s] \in Nat
          /\ Cached(state[s]) \/ Paused(state[s])
      BY <2>0, <2>3, <3>1 DEF TypeOK, ServeStored
    <3>3. Pausing(s) /\ Recalling(s)
      BY <3>1 DEF RouteInv, Truthful
    <3>4. state[s].lastErr # NoError => AtLeast(now, embargo[s]) = AtLeast(now, state[s].nextAt)
      BY <2>0, <3>2, <3>3 DEF Pausing, Cached, Paused, StateRecord, AtLeast
    <3>5. state[s].lastErr # NoError =>
             LET delay == View(state[s]).retryAfter
             IN  /\ now + Millisecond * delay <= AtLeast(now, embargo[s])
                 /\ AtLeast(now, embargo[s]) < now + Millisecond * (delay + 1)
      BY <2>0, <3>2, <3>4, ViewDelay DEF StateRecord
    <3>6. /\ View(state[s]).fetchedAt = lastGood[s]
          /\ state[s].lastErr = NoError => View(state[s]).usage /\ now - View(state[s]).fetchedAt < CacheTTL
      BY <2>0, <3>2, <3>3 DEF Pausing, Recalling, Cached, Paused, View, StateRecord
    <3>7. View(state[s]).error = state[s].lastErr
      BY DEF View
    <3>. QED
      BY <3>2, <3>5, <3>6, <3>7 DEF HonestAnswer
  <2>4. CASE ReadFails(g)
    <3>1. Refreshing(g)
      BY <2>4 DEF ReadFails, Refreshing
    <3>2. s \in States
      BY <3>1, Exclusive
    <3>3. /\ state[s] \in StateRecord /\ embargo[s] \in Nat
          /\ embargo[s] <= now /\ state[s].nextAt <= now
      BY <2>0, <3>1, <3>2 DEF TypeOK, RouteInv, Released
    <3>4. /\ state'[s] = [state[s] EXCEPT !.lastErr = "auth_get"]
          /\ lastGood' = lastGood /\ embargo' = embargo
      BY <2>0, <2>4, <3>2 DEF TypeOK, ReadFails, Store
    <3>5. Recalling(s)
      BY <3>2 DEF RouteInv, Truthful
    <3>6. state'[s].lastErr # NoError /\ state'[s].nextAt = state[s].nextAt
          /\ AtLeast(now, embargo[s]) = AtLeast(now, state[s].nextAt)
      BY <2>0, <3>3, <3>4 DEF StateRecord, AtLeast, NoError
    <3>7. LET delay == View(state'[s]).retryAfter
          IN  /\ now + Millisecond * delay <= AtLeast(now, embargo[s])
              /\ AtLeast(now, embargo[s]) < now + Millisecond * (delay + 1)
      BY <2>0, <3>3, <3>6, ViewDelay DEF StateRecord
    <3>8. View(state'[s]).fetchedAt = lastGood[s] /\ View(state'[s]).error # NoError
      BY <3>3, <3>4, <3>5, <3>6 DEF Recalling, View, StateRecord
    <3>. QED
      BY <3>4, <3>7, <3>8 DEF HonestAnswer
  <2>5. CASE FetchSucceeds(g)
    <3>1. s \in States
      BY <2>5, Exclusive DEF FetchSucceeds, Refreshing
    <3>2. /\ state'[s] = [FreshState EXCEPT !.usage = TRUE, !.fetchedAt = now]
          /\ lastGood'[s] = now
      BY <2>0, <2>5, <3>1 DEF TypeOK, FetchSucceeds, Store
    <3>. QED
      BY <2>0, <3>2 DEF HonestAnswer, View, FreshState
  <2>6. CASE FetchFails(g)
    <3>1. PICK kind \in FailureKinds :
              \E pause \in Pauses(state[s].failures + 1, kind.category = "rate_limited", kind.hint) :
                 /\ Store(g, Failed(state[s], kind, pause))
                 /\ embargo' = [embargo EXCEPT ![s] = now + pause]
      BY <2>6 DEF FetchFails
    <3>2. PICK pause \in Pauses(state[s].failures + 1, kind.category = "rate_limited", kind.hint) :
              /\ Store(g, Failed(state[s], kind, pause))
              /\ embargo' = [embargo EXCEPT ![s] = now + pause]
      BY <3>1
    <3>3. pause \in Nat
      BY BackoffAssumption DEF Pauses, LongestPause
    <3>4. s \in States
      BY <2>6, Exclusive DEF FetchFails, Refreshing
    <3>5. kind.category # NoError
      BY CodexAssumption DEF NoError
    <3>6. /\ state'[s] = Failed(state[s], kind, pause) /\ state[s] \in StateRecord
          /\ embargo'[s] = now + pause /\ lastGood' = lastGood
      BY <2>0, <2>6, <3>2, <3>4 DEF TypeOK, Store, FetchFails
    <3>7. Recalling(s)
      BY <3>4 DEF RouteInv, Truthful
    <3>8. /\ state'[s].lastErr # NoError /\ state'[s].nextAt = now + pause
          /\ state'[s].usage = state[s].usage /\ state'[s].fetchedAt = state[s].fetchedAt
      BY <3>5, <3>6 DEF Failed, StateRecord
    <3>9. LET delay == View(state'[s]).retryAfter
          IN  /\ now + Millisecond * delay <= AtLeast(now, embargo'[s])
              /\ AtLeast(now, embargo'[s]) < now + Millisecond * (delay + 1)
      BY <2>0, <3>3, <3>6, <3>8, ViewDelay
    <3>10. View(state'[s]).fetchedAt = lastGood[s] /\ View(state'[s]).error # NoError
      BY <3>7, <3>8 DEF Recalling, View
    <3>. QED
      BY <3>6, <3>9, <3>10 DEF HonestAnswer
  <2>. QED
    BY <2>1, <2>2, <2>3, <2>4, <2>5, <2>6 DEF GoroutineStep
<1>. QED
  BY <1>1, RouteInvariant, PTL DEF Spec, AnswersHonest

\* A state is refreshed by one goroutine, so that a settled route, where each
\* account has one state, never stampedes.
LEMMA SettledNeverStampedes ==
    ASSUME RouteInv, Settled
    PROVE  NeverStampede
<1> SUFFICES ASSUME NEW g \in Goroutines, NEW h \in Goroutines, Fetching(g), Fetching(h), g[2] = h[2]
             PROVE  g = h
  BY DEF NeverStampede
<1>1. Refreshing(g) /\ Refreshing(h) /\ Running(g) /\ Running(h)
  BY DEF Fetching, Refreshing, Running
<1>2. goroutine[g].on \in States /\ goroutine[h].on \in States
  BY <1>1, Exclusive
<1>3. goroutine[g].on = table[g[2]] /\ goroutine[h].on = table[h[2]]
  BY <1>1, <1>2, CodexAssumption DEF Settled
<1>. QED
  BY <1>1, <1>3, Exclusive

\* The steps of a call leave a settled route settled: it prunes only what
\* nobody uses, and starts only what is listed.
LEMMA CallKeepsSettled ==
    ASSUME RouteInv, Settled, NEW c \in Calls, ListAuth(c) \/ CallStep(c)
    PROVE  Settled'
<1>0. TypeOK /\ References
  BY DEF RouteInv
<1>1. CASE ListAuth(c)
  BY <1>0, <1>1 DEF TypeOK, CallRecord, Settled, ListAuth, Running
<1>2. CASE Prune(c)
  <2>1. /\ call'[c] = [pc |-> "serving", left |-> listed] /\ listed' = listed
        /\ \A d \in Calls : d # c => call'[d] = call[d]
        /\ \A a \in listed : table'[a] = table[a]
        /\ goroutine' = goroutine
    BY <1>0, <1>2 DEF TypeOK, CallRecord, Settled, Prune
  <2>. QED
    BY <2>1 DEF Settled, Running
<1>3. CASE Spawn(c)
  <2>1. PICK a \in call[c].left :
            /\ call' = [call EXCEPT ![c].left = @ \ {a}]
            /\ goroutine' = [goroutine EXCEPT ![<<c, a>>].pc = "started"]
    BY <1>3 DEF Spawn
  <2>2. call[c].pc = "serving" /\ listed' = listed /\ table' = table
    BY <1>3 DEF Spawn
  <2>3. a \in listed /\ a \in Accounts /\ <<c, a>> \in Goroutines
    BY <1>0, <2>2 DEF TypeOK, Settled, CallRecord, Goroutines
  <2>4. goroutine[<<c, a>>].on = NoState
    BY <1>3, <2>3 DEF RouteInv, References, StartedOnce, Spawn, Running
  <2>5. goroutine'[<<c, a>>].on = NoState
        /\ \A g \in Goroutines : g # <<c, a>> => goroutine'[g] = goroutine[g]
    BY <1>0, <2>1, <2>3, <2>4 DEF TypeOK, GoroutineRecord
  <2>6. \A d \in Calls : /\ call'[d].pc = call[d].pc /\ call'[d].left \subseteq call[d].left
                         /\ call'[d].pc = "pruning" => call'[d].left = call[d].left
    BY <1>0, <2>1, <2>2 DEF TypeOK, CallRecord
  <2>7. \A g \in Goroutines : Running(g)' =>
            g[2] \in listed /\ goroutine'[g].on \in {NoState, table[g[2]]}
    BY <2>3, <2>5 DEF Settled, Running
  <2>. QED
    BY <2>2, <2>6, <2>7 DEF Settled
<1>4. CASE Reply(c)
  BY <1>0, <1>4 DEF TypeOK, CallRecord, Settled, Reply, IdleCall, Running
<1>. QED
  BY <1>1, <1>2, <1>3, <1>4 DEF CallStep

\* The steps of a goroutine leave a settled route settled: the state it finds
\* or makes is the one in the map.
LEMMA GoroutineKeepsSettled ==
    ASSUME RouteInv, Settled, NEW g \in Goroutines, GoroutineStep(g)
    PROVE  Settled'
<1>0. TypeOK /\ References /\ g[2] \in Accounts
  BY DEF RouteInv, Goroutines
<1>1. listed' = listed /\ call' = call
  BY DEF GoroutineStep, GetState, ServeStored, BeginRefresh, ReadCredential, ReadFails,
         FetchSucceeds, FetchFails
<1>2. SUFFICES ASSUME NEW h \in Goroutines, Running(h)'
               PROVE  h[2] \in listed /\ goroutine'[h].on \in {NoState, table'[h[2]]}
  BY <1>1 DEF Settled
<1>3. h # g => goroutine'[h] = goroutine[h]
  BY <1>0, GoroutineLocal
<1>4. CASE GetState(g)
  <2>1. PICK r : /\ goroutine' = [goroutine EXCEPT ![g].pc = "waiting", ![g].on = r]
                 /\ table' = [table EXCEPT ![g[2]] = r]
                 /\ table[g[2]] \in {NoState, r}
    <3>1. CASE table[g[2]] # NoState
      BY <1>0, <1>4, <3>1 DEF TypeOK, GetState
    <3>2. CASE table[g[2]] = NoState
      BY <1>4, <3>2 DEF GetState
    <3>. QED
      BY <3>1, <3>2
  <2>2. goroutine'[g].on = r /\ table'[g[2]] = r /\ goroutine[g].pc = "started"
    BY <1>0, <1>4, <2>1 DEF TypeOK, GoroutineRecord, GetState
  <2>3. \A a \in Accounts : a # g[2] => table'[a] = table[a]
    BY <1>0, <2>1 DEF TypeOK
  <2>4. h[2] \in Accounts
    BY DEF Goroutines
  <2>5. CASE h = g
    BY <2>2, <2>5 DEF Settled, Running
  <2>6. CASE h # g
    BY <1>2, <1>3, <2>1, <2>2, <2>3, <2>4, <2>6 DEF Settled, Running
  <2>. QED
    BY <2>5, <2>6
<1>5. CASE ~GetState(g)
  <2>1. table' = table
    BY <1>5 DEF GoroutineStep, ServeStored, BeginRefresh, ReadCredential, ReadFails, FetchSucceeds,
                FetchFails
  <2>2. CASE h = g
    <3>1. CASE BeginRefresh(g) \/ ReadCredential(g)
      BY <1>0, <2>1, <2>2, <3>1 DEF TypeOK, GoroutineRecord, Settled, Running, BeginRefresh,
                                    ReadCredential, Lockable
    <3>2. CASE ServeStored(g) \/ ReadFails(g) \/ FetchSucceeds(g) \/ FetchFails(g)
      <4>1. Return(g)
        BY <3>2 DEF ServeStored, ReadFails, FetchSucceeds, FetchFails, Store
      <4>. QED
        BY <1>0, <1>2, <2>2, <4>1 DEF TypeOK, Return, Absent, Running
    <3>. QED
      BY <1>5, <3>1, <3>2 DEF GoroutineStep
  <2>3. CASE h # g
    BY <1>2, <1>3, <2>1, <2>3 DEF Settled, Running
  <2>. QED
    BY <2>2, <2>3
<1>. QED
  BY <1>4, <1>5

\* Concurrent calls do not stampede before the host's list changes: pruning a
\* state in use takes a change of the list between two listings.
THEOREM NoStampedeBeforeRelisting == Spec => []NoStampedeUnlessRelisted
<1>1. Init => SettledInv
  BY CodexAssumption DEF Init, SettledInv, Settled, Unrelisted, IdleCall, Absent, Running
<1>2. RouteInv /\ SettledInv /\ [Next]_vars => SettledInv'
  <2> SUFFICES ASSUME RouteInv, SettledInv, [Next]_vars PROVE SettledInv'
    OBVIOUS
  <2>0. budget.listChanges \in Nat /\ MaxListChanges \in Nat
    BY CodexAssumption DEF RouteInv, TypeOK
  <2>1. ASSUME NEW c \in Calls, ListAuth(c) \/ CallStep(c) PROVE SettledInv'
    <3>1. budget' = budget
      BY <2>1 DEF ListAuth, CallStep, Prune, Spawn, Reply
    <3>. QED
      BY <2>1, <3>1, CallKeepsSettled DEF SettledInv, Unrelisted
  <2>2. ASSUME NEW g \in Goroutines, GoroutineStep(g) PROVE SettledInv'
    <3>1. budget'.listChanges = budget.listChanges
      BY <2>2 DEF RouteInv, TypeOK, GoroutineStep, GetState, ServeStored, BeginRefresh,
                  ReadCredential, ReadFails, FetchSucceeds, FetchFails
    <3>. QED
      BY <2>2, <3>1, GoroutineKeepsSettled DEF SettledInv, Unrelisted
  <2>3. CASE Tick
    BY <2>3 DEF SettledInv, Unrelisted, Settled, Tick, Running
  <2>4. CASE ChangeList
    BY <2>0, <2>4 DEF RouteInv, TypeOK, SettledInv, Unrelisted, ChangeList
  <2>5. CASE UNCHANGED vars
    BY <2>5 DEF vars, SettledInv, Unrelisted, Settled, Running
  <2>. QED
    BY <2>1, <2>2, <2>3, <2>4, <2>5 DEF Next
<1>3. RouteInv /\ SettledInv => NoStampedeUnlessRelisted
  BY SettledNeverStampedes DEF SettledInv, Unrelisted, NoStampedeUnlessRelisted
<1>. QED
  BY <1>1, <1>2, <1>3, RouteInvariant, PTL DEF Spec
=============================================================================
