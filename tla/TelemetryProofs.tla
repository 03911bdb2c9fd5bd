-------------------------- MODULE TelemetryProofs --------------------------
(***************************************************************************)
(* What holds of connected accounts and of the readings of statistics, for *)
(* every set of workspaces, callbacks and polls. A callback past the row   *)
(* it took is the only one with its state, and no grant has that state     *)
(* until the callback has exchanged it; a poll keeps an account of its     *)
(* key's workspace, since accounts never move. What can be said of the     *)
(* connections alone is proved of SpecConnect and carried over: Telemetry  *)
(* implements OAuthConnect.                                                *)
(***************************************************************************)
EXTENDS Telemetry, TLAPS

Unexchanged(r) == step[r] \in {"inspect", "exchange"}

\* A served callback took its state, in time once that was looked at, and has
\* the grant it exchanged the state for.
CallbacksHold ==
  \A r \in Callbacks : step[r] # "idle" =>
    /\ job[r].state \in consumed
    /\ expires[job[r].state] # None
    /\ IF step[r] = "inspect" THEN job[r].taken <= now ELSE job[r].taken < expires[job[r].state]
    /\ step[r] \in {"member", "save"} => /\ job[r].grant \in DOMAIN grants
                                         /\ grants[job[r].grant].state = job[r].state
    /\ step[r] = "save" => job[r].member \in Members

\* A state is with one callback, or spent on one grant.
StatesApart ==
  /\ \A i \in DOMAIN grants : grants[i].state \in consumed /\ expires[grants[i].state] # None
  /\ \A q, r \in Callbacks : Unexchanged(q) /\ Unexchanged(r) /\ q # r => job[q].state # job[r].state
  /\ \A r \in Callbacks : Unexchanged(r) => \A i \in DOMAIN grants : grants[i].state # job[r].state

ConnectInv ==
  /\ ConnectTypeOK /\ CallbacksHold /\ StatesApart
  /\ StateIsSpentOnce /\ TokenFitsAccount

Numbers(snapshot) == {m \in Metrics : snapshot.metrics[m].value # None}

\* A snapshot that the table takes, that is called observed just when it has
\* numbers, and that has numbers only under the scope.
Honest(snapshot, scopes) ==
  /\ snapshot \in Snapshots
  /\ FitsTable(snapshot)
  /\ snapshot.dataCapability = "OBSERVED" <=> Numbers(snapshot) # {}
  /\ Numbers(snapshot) # {} => "analytics" \in scopes

\* A served poll has an account of its key's workspace and, to save, an honest snapshot.
PollsHold ==
  \A p \in Polls : at[p] # "idle" =>
    /\ poll[p].member \in AccountsOf(KeyWorkspace[poll[p].key])
    /\ at[p] = "save" => Honest(poll[p].snapshot, poll[p].scopes)

Inv == ConnectInv /\ TypeOK /\ PollsHold /\ OneReadingPerSlot /\ ReadingsAreHonest
-----------------------------------------------------------------------------
\* Connections: types.

\* A step of a callback.
CallbackStep(r) ==
  \/ \E s \in States : takePending(r, s)
  \/ Inspect(r)
  \/ \E caps \in SUBSET Capabilities : exchangeCode(r, caps)
  \/ \E m \in Members : fetchMember(r, m)
  \/ saveConnectedAccount(r)
  \/ AbandonCallback(r)

\* A callback changes its own step and job only.
LEMMA OwnCallback ==
  ASSUME ConnectTypeOK, NEW r \in Callbacks, CallbackStep(r)
  PROVE  /\ \A q \in Callbacks : q # r => step'[q] = step[q] /\ job'[q] = job[q]
         /\ UNCHANGED <<expires, now>>
BY DEF ConnectTypeOK, CallbackStep, takePending, Inspect, exchangeCode, fetchMember, saveConnectedAccount,
       AbandonCallback, Goto, Leave

\* What a callback has in memory after each of its steps.
LEMMA JobTypes ==
  ASSUME ConnectTypeOK, NEW r \in Callbacks, step[r] # "idle"
  PROVE  /\ job[r] \in Callback
         /\ \A n \in Nat : [job[r] EXCEPT !.grant = n] \in Callback
         /\ \A m \in Members : [job[r] EXCEPT !.member = m] \in Callback
BY DEF ConnectTypeOK, Callback

\* Every step of the connections keeps their types.
LEMMA ConnectTyped ==
  ASSUME ConnectTypeOK, CallbacksHold, [NextConnect]_connections
  PROVE  ConnectTypeOK'
<1> USE ConnectAssumption DEF ConnectTypeOK, CallbackSteps
<1>1. CASE UNCHANGED connections
  BY <1>1 DEF connections
<1>2. ASSUME NEW s \in States, startConnect(s) PROVE ConnectTypeOK'
  BY <1>2 DEF startConnect, Times
<1>3. CASE Tick
  BY <1>3 DEF Tick, Times
<1>4. ASSUME NEW r \in Callbacks, NEW s \in States, takePending(r, s) PROVE ConnectTypeOK'
  <2>1. [state |-> s, taken |-> now, grant |-> 0, member |-> None] \in Callback
    BY DEF Callback
  <2>2. QED
    BY <1>4, <2>1 DEF takePending, Goto
<1>5. ASSUME NEW r \in Callbacks, Inspect(r) PROVE ConnectTypeOK'
  <2>1. CASE Goto(r, "inspect", "exchange") /\ UNCHANGED job
    BY <1>5, <2>1 DEF Inspect, Goto
  <2>2. CASE Leave(r)
    BY <1>5, <2>2 DEF Inspect, Leave
  <2>3. QED
    BY <1>5, <2>1, <2>2 DEF Inspect
<1>6. ASSUME NEW r \in Callbacks, NEW caps \in SUBSET Capabilities, exchangeCode(r, caps) PROVE ConnectTypeOK'
  <2>1. job[r] \in Callback /\ Len(grants) + 1 \in Nat
    BY <1>6, JobTypes DEF exchangeCode, Goto
  <2>2. [state |-> job[r].state, from |-> job[r].taken, caps |-> caps] \in Grants
    BY <2>1 DEF Grants, Callback
  <2>3. grants' \in Seq(Grants)
    BY <1>6, <2>2 DEF exchangeCode
  <2>4. [job[r] EXCEPT !.grant = Len(grants) + 1] \in Callback
    BY <1>6, <2>1, JobTypes DEF exchangeCode, Goto
  <2>5. QED
    BY <1>6, <2>3, <2>4 DEF exchangeCode, Goto
<1>7. ASSUME NEW r \in Callbacks, NEW m \in Members, fetchMember(r, m) PROVE ConnectTypeOK'
  <2>1. [job[r] EXCEPT !.member = m] \in Callback
    BY <1>7, JobTypes DEF fetchMember, Goto
  <2>2. QED
    BY <1>7, <2>1 DEF fetchMember, Goto
<1>8. ASSUME NEW r \in Callbacks, saveConnectedAccount(r) PROVE ConnectTypeOK'
  <2> DEFINE w == WorkspaceOf[job[r].state]
             m == job[r].member
             n == job[r].grant
  <2>1. job[r] \in Callback /\ m \in Members /\ n \in DOMAIN grants
    BY <1>8, JobTypes DEF saveConnectedAccount, CallbacksHold
  <2>2. w \in Workspaces /\ n \in Nat /\ grants[n] \in Grants
    BY <2>1 DEF Callback
  <2>3. [workspace |-> w, caps |-> grants[n].caps] \in Accounts
    BY <2>2 DEF Accounts, Grants
  <2>4. accounts' \in [Members -> Accounts \cup {None}]
    BY <1>8, <2>3 DEF saveConnectedAccount
  <2>5. tokens' \in [Workspaces -> [Members -> Nat \cup {None}]]
    BY <1>8, <2>1, <2>2 DEF saveConnectedAccount
  <2>6. QED
    BY <1>8, <2>4, <2>5 DEF saveConnectedAccount, Leave
<1>9. ASSUME NEW r \in Callbacks, AbandonCallback(r) PROVE ConnectTypeOK'
  BY <1>9 DEF AbandonCallback, Leave
<1>10. QED
  BY <1>1, <1>2, <1>3, <1>4, <1>5, <1>6, <1>7, <1>8, <1>9 DEF NextConnect

-----------------------------------------------------------------------------
\* Connections: states and grants.

\* A callback's memory stays right through a step that leaves it alone: states
\* stay issued and spent, and grants are only added.
LEMMA CallbacksKept ==
  ASSUME ConnectTypeOK, CallbacksHold, now' \in Nat, now <= now', consumed \subseteq consumed',
         \A s \in States : expires[s] # None => expires'[s] = expires[s],
         \A i \in DOMAIN grants : i \in DOMAIN grants' /\ grants'[i] = grants[i],
         NEW r \in Callbacks, step'[r] = step[r], job'[r] = job[r], step[r] # "idle"
  PROVE  /\ job'[r].state \in consumed'
         /\ expires'[job'[r].state] # None
         /\ IF step'[r] = "inspect" THEN job'[r].taken <= now' ELSE job'[r].taken < expires'[job'[r].state]
         /\ step'[r] \in {"member", "save"} => /\ job'[r].grant \in DOMAIN grants'
                                               /\ grants'[job'[r].grant].state = job'[r].state
         /\ step'[r] = "save" => job'[r].member \in Members
<1>1. job[r] \in Callback
  BY JobTypes
<1>2. job[r].state \in States /\ job[r].taken \in Nat /\ now \in Nat
  BY <1>1, ConnectAssumption DEF Callback, Times, ConnectTypeOK
<1>3. expires'[job[r].state] = expires[job[r].state]
  BY <1>2 DEF CallbacksHold
<1>4. QED
  BY <1>2, <1>3 DEF CallbacksHold

\* Every step of the connections keeps what the callbacks have in memory right.
LEMMA CallbacksStep ==
  ASSUME ConnectTypeOK, CallbacksHold, [NextConnect]_connections
  PROVE  CallbacksHold'
<1> USE ConnectAssumption
<1>0. now \in Nat
  BY DEF ConnectTypeOK, Times
<1>1. CASE UNCHANGED connections
  BY <1>1 DEF connections, CallbacksHold
<1>2. ASSUME NEW s \in States, startConnect(s) PROVE CallbacksHold'
  BY <1>0, <1>2, CallbacksKept DEF startConnect, CallbacksHold, ConnectTypeOK
<1>3. CASE Tick
  BY <1>0, <1>3, CallbacksKept DEF Tick, CallbacksHold
<1>4. ASSUME NEW r \in Callbacks, NEW s \in States, takePending(r, s) PROVE CallbacksHold'
  <2>1. step'[r] = "inspect" /\ job'[r] = [state |-> s, taken |-> now, grant |-> 0, member |-> None]
    BY <1>4 DEF takePending, Goto, ConnectTypeOK
  <2>2. s \in consumed' /\ expires'[s] # None /\ now' = now
    BY <1>4 DEF takePending
  <2>3. ASSUME NEW q \in Callbacks, q # r PROVE step'[q] = step[q] /\ job'[q] = job[q]
    BY <1>4, <2>3, OwnCallback DEF CallbackStep
  <2>4. consumed \subseteq consumed' /\ UNCHANGED <<expires, grants>>
    BY <1>4 DEF takePending
  <2>5. QED
    BY <1>0, <2>1, <2>2, <2>3, <2>4, CallbacksKept DEF CallbacksHold
<1>5. ASSUME NEW r \in Callbacks, Inspect(r) PROVE CallbacksHold'
  <2>1. UNCHANGED <<expires, consumed, grants, now>>
    BY <1>5 DEF Inspect
  <2>2. \A q \in Callbacks : q # r => step'[q] = step[q] /\ job'[q] = job[q]
    BY <1>5, OwnCallback DEF CallbackStep
  <2>3. CASE Goto(r, "inspect", "exchange") /\ UNCHANGED job
    <3>1. now < expires[job[r].state] /\ job[r].taken <= now /\ job[r].taken \in Nat /\ expires[job[r].state] \in Nat
      <4>1. job[r] \in Callback /\ expires[job[r].state] # None /\ job[r].taken <= now
        BY <2>3, JobTypes DEF Goto, CallbacksHold
      <4>2. job[r].state \in States /\ job[r].taken \in Nat /\ expires[job[r].state] \in Nat
        BY <4>1 DEF Callback, Times, ConnectTypeOK
      <4>3. inspectOAuthPending(expires[job[r].state], now) = "ok"
        BY <1>5, <2>3 DEF Inspect, Goto, Leave, ConnectTypeOK
      <4>4. QED
        BY <1>0, <4>1, <4>2, <4>3 DEF inspectOAuthPending
    <3>2. step'[r] = "exchange" /\ job[r].taken < expires[job[r].state]
      BY <1>0, <2>3, <3>1 DEF Goto, ConnectTypeOK
    <3>3. QED
      BY <1>0, <2>1, <2>2, <2>3, <3>2, CallbacksKept DEF CallbacksHold, Goto
  <2>4. CASE Leave(r)
    BY <1>0, <2>1, <2>2, <2>4, CallbacksKept DEF CallbacksHold, Leave, ConnectTypeOK
  <2>5. QED
    BY <1>5, <2>3, <2>4 DEF Inspect
<1>6. ASSUME NEW r \in Callbacks, NEW caps \in SUBSET Capabilities, exchangeCode(r, caps) PROVE CallbacksHold'
  <2>1. UNCHANGED <<expires, consumed, now>>
    BY <1>6 DEF exchangeCode
  <2>2. \A q \in Callbacks : q # r => step'[q] = step[q] /\ job'[q] = job[q]
    BY <1>6, OwnCallback DEF CallbackStep
  <2>3. /\ \A i \in DOMAIN grants : i \in DOMAIN grants' /\ grants'[i] = grants[i]
        /\ Len(grants) + 1 \in DOMAIN grants' /\ grants'[Len(grants) + 1].state = job[r].state
    BY <1>6 DEF exchangeCode, ConnectTypeOK
  <2>4. step[r] = "exchange" /\ step'[r] = "member" /\ job[r] \in Callback
    BY <1>6, JobTypes DEF exchangeCode, Goto, ConnectTypeOK
  <2>5. job'[r] = [job[r] EXCEPT !.grant = Len(grants) + 1]
    BY <1>6 DEF exchangeCode, ConnectTypeOK
  <2>6. job'[r].state = job[r].state /\ job'[r].taken = job[r].taken /\ job'[r].grant = Len(grants) + 1
    BY <2>4, <2>5 DEF Callback
  <2>7. QED
    BY <1>0, <2>1, <2>2, <2>3, <2>4, <2>6, CallbacksKept DEF CallbacksHold
<1>7. ASSUME NEW r \in Callbacks, NEW m \in Members, fetchMember(r, m) PROVE CallbacksHold'
  <2>1. UNCHANGED <<expires, consumed, grants, now>>
    BY <1>7 DEF fetchMember
  <2>2. \A q \in Callbacks : q # r => step'[q] = step[q] /\ job'[q] = job[q]
    BY <1>7, OwnCallback DEF CallbackStep
  <2>3. step[r] = "member" /\ step'[r] = "save" /\ job[r] \in Callback
    BY <1>7, JobTypes DEF fetchMember, Goto, ConnectTypeOK
  <2>4. job'[r] = [job[r] EXCEPT !.member = m]
    BY <1>7 DEF fetchMember, ConnectTypeOK
  <2>5. /\ job'[r].state = job[r].state /\ job'[r].taken = job[r].taken
        /\ job'[r].grant = job[r].grant /\ job'[r].member = m
    BY <2>3, <2>4 DEF Callback
  <2>6. QED
    BY <1>0, <2>1, <2>2, <2>3, <2>5, CallbacksKept DEF CallbacksHold
<1>8. ASSUME NEW r \in Callbacks, saveConnectedAccount(r) \/ AbandonCallback(r) PROVE CallbacksHold'
  <2>1. UNCHANGED <<expires, consumed, grants, now>> /\ step'[r] = "idle"
    BY <1>8 DEF saveConnectedAccount, AbandonCallback, Leave, ConnectTypeOK
  <2>2. \A q \in Callbacks : q # r => step'[q] = step[q] /\ job'[q] = job[q]
    BY <1>8, OwnCallback DEF CallbackStep
  <2>3. QED
    BY <1>0, <2>1, <2>2, CallbacksKept DEF CallbacksHold
<1>9. QED
  BY <1>1, <1>2, <1>3, <1>4, <1>5, <1>6, <1>7, <1>8 DEF NextConnect
Spent == StatesApart /\ StateIsSpentOnce

\* A step that issues no grant, takes no state and starts no callback.
LEMMA SpentKept ==
  ASSUME Spent, ConnectTypeOK, UNCHANGED grants, consumed \subseteq consumed',
         \A s \in States : expires[s] # None => expires'[s] = expires[s],
         \A r \in Callbacks : Unexchanged(r)' => Unexchanged(r) /\ job'[r] = job[r]
  PROVE  Spent'
<1>1. \A i \in DOMAIN grants : grants[i].state \in States
  <2>1. \A i \in DOMAIN grants : grants[i] \in Grants
    BY DEF ConnectTypeOK
  <2>2. QED
    BY <2>1 DEF Grants
<1>2. QED
  BY <1>1 DEF Spent, StatesApart, StateIsSpentOnce

\* Every step of the connections leaves a state with one callback or one grant.
LEMMA SpentStep ==
  ASSUME ConnectTypeOK, CallbacksHold, Spent, [NextConnect]_connections
  PROVE  Spent'
<1> USE ConnectAssumption
<1>1. CASE UNCHANGED connections
  BY <1>1, SpentKept DEF connections, Unexchanged
<1>2. ASSUME NEW s \in States, startConnect(s) PROVE Spent'
  BY <1>2, SpentKept DEF startConnect, Unexchanged, ConnectTypeOK
<1>3. CASE Tick
  BY <1>3, SpentKept DEF Tick, Unexchanged
<1>4. ASSUME NEW r \in Callbacks, NEW s \in States, takePending(r, s) PROVE Spent'
  <2>1. /\ s \notin consumed /\ expires[s] # None /\ consumed' = consumed \cup {s}
        /\ UNCHANGED <<grants, expires>>
    BY <1>4 DEF takePending
  <2>2. job'[r].state = s
    BY <1>4 DEF takePending, ConnectTypeOK
  <2>3. \A q \in Callbacks : q # r => step'[q] = step[q] /\ job'[q] = job[q]
    BY <1>4, OwnCallback DEF CallbackStep
  <2>4. \A q \in Callbacks : Unexchanged(q) => job[q].state # s
    BY <2>1 DEF CallbacksHold, Unexchanged
  <2>5. \A i \in DOMAIN grants : grants[i].state # s
    BY <2>1 DEF Spent, StatesApart
  <2>6. QED
    BY <2>1, <2>2, <2>3, <2>4, <2>5 DEF Spent, StatesApart, StateIsSpentOnce, Unexchanged
<1>5. ASSUME NEW r \in Callbacks, Inspect(r) PROVE Spent'
  <2>1. UNCHANGED <<expires, consumed, grants>>
    BY <1>5 DEF Inspect
  <2>2. \A q \in Callbacks : q # r => step'[q] = step[q] /\ job'[q] = job[q]
    BY <1>5, OwnCallback DEF CallbackStep
  <2>3. Unexchanged(r) /\ (Unexchanged(r)' => job'[r] = job[r])
    BY <1>5 DEF Inspect, Goto, Leave, Unexchanged, ConnectTypeOK
  <2>4. QED
    BY <2>1, <2>2, <2>3, SpentKept DEF Unexchanged
<1>6. ASSUME NEW r \in Callbacks, NEW caps \in SUBSET Capabilities, exchangeCode(r, caps) PROVE Spent'
  <2> DEFINE g == [state |-> job[r].state, from |-> job[r].taken, caps |-> caps]
             n == Len(grants) + 1
  <2>1. /\ step[r] = "exchange" /\ step'[r] = "member" /\ UNCHANGED <<expires, consumed>>
        /\ grants' = Append(grants, g)
    BY <1>6 DEF exchangeCode, Goto, ConnectTypeOK
  <2>2. \A q \in Callbacks : q # r => step'[q] = step[q] /\ job'[q] = job[q]
    BY <1>6, OwnCallback DEF CallbackStep
  <2>3. g.state \in consumed /\ expires[g.state] # None /\ g.from < expires[g.state]
    BY <2>1 DEF CallbacksHold
  <2>4. \A i \in DOMAIN grants : grants[i].state # g.state
    BY <2>1 DEF Spent, StatesApart, Unexchanged
  <2>5. \A q \in Callbacks : Unexchanged(q)' => /\ Unexchanged(q) /\ job'[q] = job[q]
                                               /\ job[q].state # g.state
    BY <2>1, <2>2 DEF Spent, StatesApart, Unexchanged
  <2> HIDE DEF g
  <2>6. /\ DOMAIN grants' = DOMAIN grants \cup {n} /\ grants'[n] = g
        /\ \A i \in DOMAIN grants : grants'[i] = grants[i]
    BY <2>1 DEF ConnectTypeOK
  <2> HIDE DEF n
  <2>7. StatesApart'
    BY <2>1, <2>3, <2>5, <2>6 DEF Spent, StatesApart
  <2>8. StateIsSpentOnce'
    BY <2>1, <2>3, <2>4, <2>6 DEF Spent, StateIsSpentOnce
  <2>9. QED
    BY <2>7, <2>8 DEF Spent
<1>7. ASSUME NEW r \in Callbacks, NEW m \in Members, fetchMember(r, m) PROVE Spent'
  <2>1. UNCHANGED <<expires, consumed, grants>> /\ step'[r] = "save"
    BY <1>7 DEF fetchMember, Goto, ConnectTypeOK
  <2>2. \A q \in Callbacks : q # r => step'[q] = step[q] /\ job'[q] = job[q]
    BY <1>7, OwnCallback DEF CallbackStep
  <2>3. QED
    BY <2>1, <2>2, SpentKept DEF Unexchanged
<1>8. ASSUME NEW r \in Callbacks, saveConnectedAccount(r) \/ AbandonCallback(r) PROVE Spent'
  <2>1. UNCHANGED <<expires, consumed, grants>> /\ step'[r] = "idle"
    BY <1>8 DEF saveConnectedAccount, AbandonCallback, Leave, ConnectTypeOK
  <2>2. \A q \in Callbacks : q # r => step'[q] = step[q] /\ job'[q] = job[q]
    BY <1>8, OwnCallback DEF CallbackStep
  <2>3. QED
    BY <2>1, <2>2, SpentKept DEF Unexchanged
<1>9. QED
  BY <1>1, <1>2, <1>3, <1>4, <1>5, <1>6, <1>7, <1>8 DEF NextConnect

-----------------------------------------------------------------------------
\* Connections: accounts and tokens.

\* An account stays in its workspace, as the trigger on social_accounts sees to.
LEMMA AccountsStay ==
  ASSUME ConnectTypeOK, CallbacksHold, [NextConnect]_connections, NEW w, NEW m \in AccountsOf(w)
  PROVE  m \in AccountsOf(w)'
<1>1. CASE UNCHANGED accounts
  BY <1>1 DEF AccountsOf
<1>2. ASSUME NEW r \in Callbacks, saveConnectedAccount(r) PROVE m \in AccountsOf(w)'
  <2> DEFINE a == [workspace |-> WorkspaceOf[job[r].state], caps |-> grants[job[r].grant].caps]
  <2>1. /\ accounts' = [accounts EXCEPT ![job[r].member] = a]
        /\ accounts[job[r].member] # None => accounts[job[r].member].workspace = a.workspace
    BY <1>2 DEF saveConnectedAccount
  <2>2. a # None
    <3>1. step[r] = "save" /\ job[r] \in Callback /\ job[r].grant \in DOMAIN grants
      BY <1>2, JobTypes DEF saveConnectedAccount, CallbacksHold
    <3>2. WorkspaceOf[job[r].state] \in Workspaces /\ grants[job[r].grant] \in Grants
      BY <3>1, ConnectAssumption DEF Callback, ConnectTypeOK
    <3>3. a \in Accounts
      BY <3>2 DEF Accounts, Grants
    <3>4. QED
      BY <3>3, ConnectAssumption
  <2>3. QED
    BY <2>1, <2>2 DEF AccountsOf, ConnectTypeOK
<1>3. QED
  BY <1>1, <1>2 DEF NextConnect, connections, startConnect, takePending, Inspect, exchangeCode, fetchMember,
                    AbandonCallback, Tick

\* Every step of the connections leaves account and token of one grant.
LEMMA TokenStep ==
  ASSUME ConnectTypeOK, CallbacksHold, TokenFitsAccount, [NextConnect]_connections
  PROVE  TokenFitsAccount'
<1> USE ConnectAssumption
<1>1. CASE UNCHANGED <<accounts, tokens, grants>>
  BY <1>1 DEF TokenFitsAccount, AccountsOf
<1>2. ASSUME NEW r \in Callbacks, NEW caps \in SUBSET Capabilities, exchangeCode(r, caps) PROVE TokenFitsAccount'
  <2>1. \A i \in DOMAIN grants : i \in DOMAIN grants' /\ grants'[i] = grants[i]
    BY <1>2 DEF exchangeCode, ConnectTypeOK
  <2>2. UNCHANGED <<accounts, tokens>>
    BY <1>2 DEF exchangeCode
  <2>3. QED
    BY <2>1, <2>2 DEF TokenFitsAccount, AccountsOf
<1>3. ASSUME NEW r \in Callbacks, saveConnectedAccount(r) PROVE TokenFitsAccount'
  <2> DEFINE v == WorkspaceOf[job[r].state]
             o == job[r].member
             n == job[r].grant
  <2>1. job[r] \in Callback /\ o \in Members /\ n \in DOMAIN grants /\ grants[n].state = job[r].state
    BY <1>3, JobTypes DEF saveConnectedAccount, CallbacksHold
  <2>2. v \in Workspaces /\ n \in Nat /\ grants[n] \in Grants /\ WorkspaceOf[grants[n].state] = v
    BY <2>1 DEF Callback, ConnectTypeOK
  <2>3. [workspace |-> v, caps |-> grants[n].caps] \in Accounts
    BY <2>2 DEF Accounts, Grants
  <2>4. /\ accounts' = [accounts EXCEPT ![o] = [workspace |-> v, caps |-> grants[n].caps]]
        /\ accounts[o] # None => accounts[o].workspace = v
        /\ tokens' = [tokens EXCEPT ![v][o] = n]
        /\ UNCHANGED grants
    BY <1>3 DEF saveConnectedAccount
  <2> HIDE DEF v, o, n
  <2>5. /\ accounts'[o] # None /\ accounts'[o].workspace = v /\ accounts'[o].caps = grants[n].caps
        /\ \A m \in Members : m # o => accounts'[m] = accounts[m]
    BY <2>1, <2>3, <2>4 DEF ConnectTypeOK
  <2>6. /\ tokens'[v][o] = n
        /\ \A w \in Workspaces, m \in Members : w # v \/ m # o => tokens'[w][m] = tokens[w][m]
    BY <2>1, <2>2, <2>4 DEF ConnectTypeOK
  <2>7. \A w \in Workspaces : w # v => o \notin AccountsOf(w)
    BY <2>4 DEF AccountsOf
  <2>8. SUFFICES ASSUME NEW w \in Workspaces, NEW m \in Members
                 PROVE  IF m \in AccountsOf(w)'
                        THEN /\ tokens'[w][m] \in DOMAIN grants
                             /\ grants[tokens'[w][m]].caps = accounts'[m].caps
                             /\ WorkspaceOf[grants[tokens'[w][m]].state] = w
                        ELSE tokens'[w][m] = None
    BY <2>4 DEF TokenFitsAccount
  <2>9. CASE m = o /\ w = v
    BY <2>1, <2>2, <2>5, <2>6, <2>9 DEF AccountsOf
  <2>10. CASE m = o /\ w # v
    BY <2>1, <2>5, <2>6, <2>7, <2>10 DEF AccountsOf, TokenFitsAccount
  <2>11. CASE m # o
    <3>1. m \in AccountsOf(w)' <=> m \in AccountsOf(w)
      BY <2>5, <2>11 DEF AccountsOf
    <3>2. tokens'[w][m] = tokens[w][m] /\ accounts'[m] = accounts[m]
      BY <2>5, <2>6, <2>11
    <3>3. QED
      BY <3>1, <3>2 DEF TokenFitsAccount
  <2>12. QED
    BY <2>9, <2>10, <2>11
<1>4. QED
  BY <1>1, <1>2, <1>3 DEF NextConnect, connections, startConnect, takePending, Inspect, fetchMember,
                          AbandonCallback, Tick

-----------------------------------------------------------------------------
\* Connections: theorems.

LEMMA ConnectInit == InitConnect => ConnectInv
<1> SUFFICES ASSUME InitConnect PROVE ConnectInv
  OBVIOUS
<1>1. ConnectTypeOK
  BY ConnectAssumption DEF InitConnect, ConnectTypeOK, CallbackSteps, Times
<1>2. CallbacksHold /\ StatesApart /\ StateIsSpentOnce
  BY DEF InitConnect, CallbacksHold, StatesApart, StateIsSpentOnce, Unexchanged
<1>3. TokenFitsAccount
  BY DEF InitConnect, TokenFitsAccount, AccountsOf
<1>4. QED
  BY <1>1, <1>2, <1>3 DEF ConnectInv

LEMMA ConnectStep == ConnectInv /\ [NextConnect]_connections => ConnectInv'
<1> SUFFICES ASSUME ConnectInv, [NextConnect]_connections PROVE ConnectInv'
  OBVIOUS
<1>1. ConnectTypeOK' /\ CallbacksHold'
  BY ConnectTyped, CallbacksStep DEF ConnectInv
<1>2. Spent'
  BY SpentStep DEF ConnectInv, Spent
<1>3. TokenFitsAccount'
  BY TokenStep DEF ConnectInv
<1>4. QED
  BY <1>1, <1>2, <1>3 DEF ConnectInv, Spent

\* The inductive invariant of the connections holds whatever callbacks do.
THEOREM ConnectAlways == SpecConnect => []ConnectInv
BY ConnectInit, ConnectStep, PTL DEF SpecConnect

\* The polls of statistics leave the connections alone: every behaviour of Telemetry
\* is one of OAuthConnect.
THEOREM TelemetryConnects == Spec => SpecConnect
<1>1. Init => InitConnect
  BY DEF Init
<1>2. [Next]_vars => [NextConnect]_connections
  BY DEF Next, vars, Poll, loadContext, Repeat, FirstPoll, collect, Collected, saveSnapshot, GiveUp, Posted
<1>3. QED
  BY <1>1, <1>2, PTL DEF Spec, SpecConnect

\* However often its callback comes, a state is exchanged for a token once, and in
\* time (takePending and inspectOAuthPending in oauth.ts).
THEOREM StateSpentOnce == Spec => []StateIsSpentOnce
BY ConnectAlways, TelemetryConnects, PTL DEF ConnectInv

\* The stored token is of the grant the account's capabilities are of, and no other
\* workspace has one (saveConnectedAccount in oauth-store.ts).
THEOREM TokenIsOfAccount == Spec => []TokenFitsAccount
BY ConnectAlways, TelemetryConnects, PTL DEF ConnectInv
-----------------------------------------------------------------------------
\* Snapshots.

\* A poll that asked nothing stores no number.
LEMMA UnaskedHonest ==
  ASSUME NEW mayAsk, NEW scopes
  PROVE  Honest(Unasked(mayAsk), scopes)
<1> USE DEF AllMetrics
<1>1. Unasked(mayAsk) \in Snapshots
  BY DEF Unasked, Snapshots, DataCapabilities, Metric, Statuses
<1>2. FitsTable(Unasked(mayAsk))
  BY DEF Unasked, FitsTable
<1>3. Numbers(Unasked(mayAsk)) = {} /\ Unasked(mayAsk).dataCapability # "OBSERVED"
  BY DEF Unasked, Numbers
<1>4. QED
  BY <1>1, <1>2, <1>3 DEF Honest

\* What LinkedIn answers is stored as a number with the status that fits it.
LEMMA ObserveNumber ==
  ASSUME NEW count \in Counts \cup {-1}
  PROVE  LET row == observeNumber(count) IN
         /\ row \in Metric
         /\ row.value # None <=> row.status \in {"OBSERVED", "ZERO"}
         /\ row.status = "ZERO" => row.value = 0
         /\ row.status = "OBSERVED" => row.value \notin {None, 0}
         /\ row.status \in {"OBSERVED", "ZERO", "NOT_AVAILABLE"}
<1>1. CASE count = -1
  BY <1>1 DEF observeNumber, Metric, Statuses
<1>2. CASE count = 0
  BY <1>2, TelemetryAssumption DEF observeNumber, Metric, Statuses, Counts
<1>3. CASE count = 7
  BY <1>3, TelemetryAssumption DEF observeNumber, Metric, Statuses, Counts
<1>4. QED
  BY <1>1, <1>2, <1>3 DEF Counts

\* Whatever LinkedIn answers, the table takes what is made of it, and only numbers
\* are called observed.
LEMMA AskedHonest ==
  ASSUME NEW h \in {200, 403, 500}, NEW answer \in Answers, NEW scopes, "analytics" \in scopes
  PROVE  Honest(Asked(h, answer), scopes)
<1> DEFINE metrics == [m \in Metrics |-> observeNumber(answer[m])]
           observed == \E m \in Metrics : metrics[m].status \in {"OBSERVED", "ZERO"}
<1>1. \A m \in Metrics : answer[m] \in Counts \cup {-1}
  BY DEF Answers
<1>2. \A m \in Metrics :
        /\ metrics[m] \in Metric
        /\ metrics[m].value # None <=> metrics[m].status \in {"OBSERVED", "ZERO"}
        /\ metrics[m].status = "ZERO" => metrics[m].value = 0
        /\ metrics[m].status = "OBSERVED" => metrics[m].value \notin {None, 0}
        /\ metrics[m].status \in {"OBSERVED", "ZERO", "NOT_AVAILABLE"}
  BY <1>1, ObserveNumber
<1>3. \/ \E mayAsk : Asked(h, answer) = Unasked(mayAsk)
      \/ Asked(h, answer) = [dataCapability |-> IF observed THEN "OBSERVED" ELSE "NOT_AVAILABLE",
                             metrics |-> metrics]
  BY DEF Asked
<1>4. metrics \in [Metrics -> Metric]
  BY <1>2
<1> HIDE DEF metrics
<1>5. ASSUME NEW d \in {"OBSERVED", "NOT_AVAILABLE"}, d = "OBSERVED" <=> observed
      PROVE  Honest([dataCapability |-> d, metrics |-> metrics], scopes)
  BY <1>2, <1>4, <1>5 DEF Honest, Snapshots, DataCapabilities, FitsTable, Numbers
<1>6. QED
  BY <1>3, <1>5, UnaskedHonest

-----------------------------------------------------------------------------
\* Polls.

\* A poll past its lookup has a record of its own.
LEMMA PollTypes ==
  ASSUME TypeOK, NEW p \in Polls, at[p] # "idle"
  PROVE  /\ poll[p] \in Pollings
         /\ poll[p].key \in Keys /\ poll[p].slot \in Slots
         /\ poll[p].member \in Members /\ poll[p].scopes \in SUBSET Capabilities
         /\ \A x \in Snapshots : [poll[p] EXCEPT !.snapshot = x] \in Pollings
BY DEF TypeOK, Pollings

\* A poll changes its own place and record only.
LEMMA OwnPoll ==
  ASSUME TypeOK, NEW p \in Polls, Poll(p)
  PROVE  /\ \A q \in Polls : q # p => at'[q] = at[q] /\ poll'[q] = poll[q]
         /\ UNCHANGED <<connections, posted>>
<1>1. ASSUME NEW x, Collected(p, x)
      PROVE  /\ \A q \in Polls : q # p => at'[q] = at[q] /\ poll'[q] = poll[q]
             /\ UNCHANGED <<connections, posted>>
  BY <1>1 DEF TypeOK, Collected, Turn
<1>2. QED
  BY <1>1 DEF TypeOK, Poll, loadContext, Repeat, FirstPoll, collect, saveSnapshot, GiveUp, Turn, Answer

\* What a poll collects is honest.
LEMMA CollectHonest ==
  ASSUME TypeOK, NEW p \in Polls, collect(p)
  PROVE  \E x \in Snapshots : Collected(p, x) /\ Honest(x, poll[p].scopes)
<1> DEFINE mayAsk == "analytics" \in poll[p].scopes
<1>1. CASE ~(mayAsk /\ p \in WithAdapter) /\ Collected(p, Unasked(mayAsk))
  <2>1. Honest(Unasked(mayAsk), poll[p].scopes)
    BY UnaskedHonest
  <2>2. QED
    BY <1>1, <2>1 DEF Honest
<1>2. ASSUME mayAsk, NEW h \in {200, 403, 500}, NEW answer \in Answers, Collected(p, Asked(h, answer))
      PROVE  \E x \in Snapshots : Collected(p, x) /\ Honest(x, poll[p].scopes)
  <2>1. Honest(Asked(h, answer), poll[p].scopes)
    BY <1>2, AskedHonest
  <2>2. QED
    BY <1>2, <2>1 DEF Honest
<1>3. QED
  BY <1>1, <1>2 DEF collect

\* What a poll would store, and what it is told.
Mine(p) == [member |-> poll[p].member, scopes |-> poll[p].scopes, snapshot |-> poll[p].snapshot]

\* Every poll, one way or another, keeps the types.
LEMMA PollTyped ==
  ASSUME TypeOK, PollsHold, NEW p \in Polls, Poll(p)
  PROVE  TypeOK'
<1> USE TelemetryAssumption
<1>1. ConnectTypeOK'
  BY OwnPoll DEF ConnectTypeOK, TypeOK, connections
<1>2. posted' \subseteq Keys
  BY OwnPoll DEF TypeOK
<1>3. ASSUME NEW k \in Keys, NEW s \in Slots, NEW m \in Members, loadContext(p, k, s, m) PROVE TypeOK'
  <2>1. accounts[m].caps \in SUBSET Capabilities
    BY <1>3 DEF loadContext, AccountsOf, TypeOK, ConnectTypeOK, Accounts
  <2>2. [key |-> k, slot |-> s, member |-> m, scopes |-> accounts[m].caps, snapshot |-> None] \in Pollings
    BY <2>1 DEF Pollings
  <2>3. QED
    BY <1>1, <1>2, <1>3, <2>2 DEF loadContext, Turn, TypeOK
<1>4. CASE Repeat(p)
  <2>1. poll[p].key \in Keys /\ poll[p].slot \in Slots
    BY <1>4, PollTypes DEF Repeat, Turn
  <2>2. readings[poll[p].key][poll[p].slot] \in Readings
    BY <1>4, <2>1 DEF Repeat, TypeOK
  <2>3. answers' \in [Keys -> [Slots -> SUBSET Readings]]
    BY <1>4, <2>1, <2>2 DEF Repeat, Answer, TypeOK
  <2>4. QED
    BY <1>1, <1>2, <1>4, <2>3 DEF Repeat, Answer, Turn, TypeOK
<1>5. CASE FirstPoll(p)
  BY <1>1, <1>2, <1>5 DEF FirstPoll, Turn, TypeOK
<1>6. CASE collect(p)
  <2>1. PICK x \in Snapshots : Collected(p, x)
    BY <1>6, CollectHonest
  <2>2. at[p] = "collect" /\ [poll[p] EXCEPT !.snapshot = x] \in Pollings
    BY <2>1, PollTypes DEF Collected, Turn
  <2>3. QED
    BY <1>1, <1>2, <2>1, <2>2 DEF Collected, Turn, TypeOK
<1>7. CASE saveSnapshot(p)
  <2> DEFINE stored == readings[poll[p].key][poll[p].slot]
             kept == IF stored = None THEN Mine(p) ELSE stored
  <2>1. /\ at[p] = "save" /\ poll[p].key \in Keys /\ poll[p].slot \in Slots
        /\ poll[p].member \in Members /\ poll[p].scopes \in SUBSET Capabilities
        /\ poll[p].snapshot \in Snapshots
    BY <1>7, PollTypes DEF saveSnapshot, Turn, PollsHold, Honest
  <2>2. kept \in Readings
    BY <2>1 DEF TypeOK, Mine, Readings
  <2>3. /\ at' = [at EXCEPT ![p] = "idle"] /\ poll' = [poll EXCEPT ![p] = None]
        /\ readings' = [readings EXCEPT ![poll[p].key][poll[p].slot] = kept]
        /\ answers' = [answers EXCEPT ![poll[p].key][poll[p].slot] = @ \cup {kept}]
    BY <1>7 DEF saveSnapshot, Answer, Turn, Mine
  <2> HIDE DEF kept
  <2>4. readings' \in [Keys -> [Slots -> Readings \cup {None}]]
    BY <2>1, <2>2, <2>3 DEF TypeOK
  <2>5. answers' \in [Keys -> [Slots -> SUBSET Readings]]
    BY <2>1, <2>2, <2>3 DEF TypeOK
  <2>6. QED
    BY <1>1, <1>2, <2>3, <2>4, <2>5 DEF TypeOK
<1>8. CASE GiveUp(p)
  BY <1>1, <1>2, <1>8 DEF GiveUp, TypeOK
<1>9. QED
  BY <1>3, <1>4, <1>5, <1>6, <1>7, <1>8 DEF Poll

\* Every poll keeps what the polls have in memory, what is stored and what was
\* answered in agreement.
LEMMA PollStep ==
  ASSUME TypeOK, PollsHold, OneReadingPerSlot, ReadingsAreHonest, NEW p \in Polls, Poll(p)
  PROVE  (PollsHold /\ OneReadingPerSlot /\ ReadingsAreHonest)'
<1> USE TelemetryAssumption
<1>1. /\ \A q \in Polls : q # p => at'[q] = at[q] /\ poll'[q] = poll[q]
      /\ \A w : AccountsOf(w)' = AccountsOf(w)
      /\ UNCHANGED accounts
  BY OwnPoll DEF connections, AccountsOf
<1>2. ASSUME UNCHANGED <<readings, answers>>,
             at'[p] # "idle" => poll'[p].member \in AccountsOf(KeyWorkspace[poll'[p].key]),
             at'[p] = "save" => Honest(poll'[p].snapshot, poll'[p].scopes)
      PROVE  (PollsHold /\ OneReadingPerSlot /\ ReadingsAreHonest)'
  <2>1. PollsHold'
    BY <1>1, <1>2 DEF PollsHold
  <2>2. \A q \in Polls : at'[q] = "save" => FitsTable(poll'[q].snapshot)
    BY <1>1, <1>2 DEF ReadingsAreHonest, Honest
  <2>3. QED
    BY <1>1, <1>2, <2>1, <2>2 DEF OneReadingPerSlot, ReadingsAreHonest
<1>3. ASSUME NEW k \in Keys, NEW s \in Slots, NEW m \in Members, loadContext(p, k, s, m)
      PROVE  (PollsHold /\ OneReadingPerSlot /\ ReadingsAreHonest)'
  BY <1>2, <1>3 DEF loadContext, Turn, TypeOK
<1>4. CASE FirstPoll(p)
  BY <1>2, <1>4 DEF FirstPoll, Turn, TypeOK, PollsHold
<1>5. CASE GiveUp(p)
  BY <1>2, <1>5 DEF GiveUp, TypeOK
<1>6. CASE collect(p)
  <2>1. PICK x \in Snapshots : Collected(p, x) /\ Honest(x, poll[p].scopes)
    BY <1>6, CollectHonest
  <2>2. poll'[p] = [poll[p] EXCEPT !.snapshot = x] /\ at[p] = "collect" /\ poll[p] \in Pollings
    BY <2>1, PollTypes DEF Collected, Turn, TypeOK
  <2>3. /\ poll'[p].snapshot = x /\ poll'[p].scopes = poll[p].scopes
        /\ poll'[p].member = poll[p].member /\ poll'[p].key = poll[p].key
    BY <2>2 DEF Pollings
  <2>4. QED
    BY <1>2, <2>1, <2>2, <2>3 DEF Collected, PollsHold
<1>7. ASSUME at'[p] = "idle", NEW k \in Keys, NEW s \in Slots, NEW reading \in Readings,
             readings' = [readings EXCEPT ![k][s] = reading],
             answers' = [answers EXCEPT ![k][s] = @ \cup {reading}],
             readings[k][s] \in {None, reading}
      PROVE  (PollsHold /\ OneReadingPerSlot)'
  <2>1. PollsHold'
    BY <1>1, <1>7 DEF PollsHold
  <2>2. /\ readings'[k][s] = reading /\ answers'[k][s] = answers[k][s] \cup {reading}
        /\ \A j \in Keys, t \in Slots : j # k \/ t # s => /\ readings'[j][t] = readings[j][t]
                                                          /\ answers'[j][t] = answers[j][t]
    BY <1>7 DEF TypeOK
  <2>3. answers[k][s] \subseteq {reading}
    BY <1>7 DEF OneReadingPerSlot, TypeOK
  <2>4. QED
    BY <2>1, <2>2, <2>3 DEF OneReadingPerSlot
<1>8. CASE Repeat(p)
  <2>1. poll[p].key \in Keys /\ poll[p].slot \in Slots /\ at'[p] = "idle"
    BY <1>8, PollTypes DEF Repeat, Turn, TypeOK
  <2> DEFINE stored == readings[poll[p].key][poll[p].slot]
  <2>2. stored \in Readings /\ UNCHANGED readings
    BY <1>8, <2>1 DEF Repeat, TypeOK
  <2>3. readings' = [readings EXCEPT ![poll[p].key][poll[p].slot] = stored]
    BY <2>1, <2>2 DEF TypeOK
  <2>4. (PollsHold /\ OneReadingPerSlot)'
    BY <1>7, <1>8, <2>1, <2>2, <2>3 DEF Repeat, Answer
  <2>5. ReadingsAreHonest'
    BY <1>1, <2>1, <2>2 DEF ReadingsAreHonest
  <2>6. QED
    BY <2>4, <2>5
<1>9. CASE saveSnapshot(p)
  <2> DEFINE k == poll[p].key
             s == poll[p].slot
             stored == readings[k][s]
             kept == IF stored = None THEN Mine(p) ELSE stored
  <2>1. /\ at[p] = "save" /\ at'[p] = "idle" /\ k \in Keys /\ s \in Slots
        /\ Honest(poll[p].snapshot, poll[p].scopes) /\ poll[p].member \in AccountsOf(KeyWorkspace[k])
        /\ poll[p].member \in Members /\ poll[p].scopes \in SUBSET Capabilities
    BY <1>9, PollTypes DEF saveSnapshot, Turn, PollsHold, TypeOK
  <2>2. kept \in Readings /\ stored \in {None, kept}
    BY <2>1 DEF TypeOK, Mine, Readings, Honest
  <2>3. /\ readings' = [readings EXCEPT ![k][s] = kept]
        /\ answers' = [answers EXCEPT ![k][s] = @ \cup {kept}]
    BY <1>9 DEF saveSnapshot, Answer, Mine
  <2>4. kept = Mine(p) \/ (kept = stored /\ stored # None)
    BY DEF Mine
  <2> HIDE DEF kept, k, s
  <2>5. (PollsHold /\ OneReadingPerSlot)'
    BY <1>7, <2>1, <2>2, <2>3
  <2>6. readings'[k][s] = kept /\ \A j \in Keys, t \in Slots : j # k \/ t # s => readings'[j][t] = readings[j][t]
    BY <2>1, <2>3 DEF TypeOK
  <2>7. \A q \in Polls : at'[q] = "save" => FitsTable(poll'[q].snapshot)
    BY <1>1, <2>1 DEF ReadingsAreHonest
  <2>8. /\ kept.member \in AccountsOf(KeyWorkspace[k])
        /\ kept.snapshot.dataCapability = "OBSERVED" <=> Numbers(kept.snapshot) # {}
        /\ Numbers(kept.snapshot) # {} => "analytics" \in kept.scopes
    <3>1. CASE kept = Mine(p)
      BY <2>1, <3>1 DEF Mine, Honest
    <3>2. CASE kept = stored /\ stored # None
      BY <2>1, <3>2 DEF ReadingsAreHonest, Numbers
    <3>3. QED
      BY <2>4, <3>1, <3>2
  <2>9. ReadingsAreHonest'
    BY <1>1, <2>6, <2>7, <2>8 DEF ReadingsAreHonest, Numbers
  <2>10. QED
    BY <2>5, <2>9
<1>10. QED
  BY <1>3, <1>4, <1>5, <1>6, <1>8, <1>9 DEF Poll

-----------------------------------------------------------------------------
\* Theorems.

LEMMA InvInit == Init => Inv
<1> SUFFICES ASSUME Init PROVE Inv
  OBVIOUS
<1>1. ConnectInv /\ ConnectTypeOK
  BY ConnectInit DEF Init, ConnectInv
<1>2. TypeOK
  BY <1>1 DEF Init, TypeOK
<1>3. PollsHold /\ OneReadingPerSlot /\ ReadingsAreHonest
  BY DEF Init, PollsHold, OneReadingPerSlot, ReadingsAreHonest
<1>4. QED
  BY <1>1, <1>2, <1>3 DEF Inv

LEMMA InvStep == Inv /\ [Next]_vars => Inv'
<1> SUFFICES ASSUME Inv, [Next]_vars PROVE Inv'
  OBVIOUS
<1>1. CASE [NextConnect]_connections /\ UNCHANGED <<posted, polling>>
  <2>1. ConnectInv'
    BY <1>1, ConnectStep DEF Inv
  <2>2. TypeOK'
    BY <1>1, <2>1 DEF Inv, TypeOK, ConnectInv, polling
  <2>3. \A w : AccountsOf(w) \subseteq AccountsOf(w)'
    BY <1>1, AccountsStay DEF Inv, ConnectInv
  <2>4. PollsHold'
    BY <1>1, <2>3 DEF Inv, PollsHold, polling
  <2>5. (OneReadingPerSlot /\ ReadingsAreHonest)'
    BY <1>1, <2>3 DEF Inv, OneReadingPerSlot, ReadingsAreHonest, polling
  <2>6. QED
    BY <2>1, <2>2, <2>4, <2>5 DEF Inv
<1>2. ASSUME UNCHANGED connections PROVE ConnectInv'
  BY <1>2, ConnectStep DEF Inv
<1>3. ASSUME NEW p \in Polls, Poll(p) PROVE Inv'
  <2>1. ConnectInv'
    BY <1>2, <1>3, OwnPoll DEF Inv
  <2>2. QED
    BY <1>3, <2>1, PollTyped, PollStep DEF Inv
<1>4. ASSUME NEW k \in Keys, Posted(k) PROVE Inv'
  <2>1. ConnectInv' /\ \A w : AccountsOf(w)' = AccountsOf(w)
    BY <1>2, <1>4 DEF Posted, connections, AccountsOf
  <2>2. TypeOK'
    BY <1>4, <2>1 DEF Inv, TypeOK, ConnectInv, Posted, polling
  <2>3. PollsHold'
    BY <1>4, <2>1 DEF Inv, PollsHold, Posted, polling
  <2>4. (OneReadingPerSlot /\ ReadingsAreHonest)'
    BY <1>4, <2>1 DEF Inv, OneReadingPerSlot, ReadingsAreHonest, Posted, polling
  <2>5. QED
    BY <2>1, <2>2, <2>3, <2>4 DEF Inv
<1>5. QED
  BY <1>1, <1>3, <1>4 DEF Next, vars

LEMMA InvAlways == Spec => []Inv
BY InvInit, InvStep, PTL DEF Spec

\* In every reachable state the variables have their types, and a callback or a poll
\* holds what it works on exactly while it is served.
THEOREM TelemetryTypes == Spec => []TypeOK
BY InvAlways, PTL DEF Inv

\* Everybody who asked for a slot was told the reading that is stored (saveSnapshot in
\* telemetry-store.ts keeps the first).
THEOREM SlotHasOneReading == Spec => []OneReadingPerSlot
BY InvAlways, PTL DEF Inv

\* Numbers come from an account of the publication's workspace that had the scope,
\* and the table takes whatever is made of LinkedIn's answer (telemetry.ts).
THEOREM ReadingsStayHonest == Spec => []ReadingsAreHonest
BY InvAlways, PTL DEF Inv
=============================================================================
