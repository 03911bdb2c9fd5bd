---------------------------- MODULE OAuthConnect ----------------------------
(***************************************************************************)
(* A workspace connects a LinkedIn account: startLinkedInConnect issues a  *)
(* state, LinkedIn sends the browser back with it and a code, and          *)
(* finishLinkedInConnect (packages/social/src/linkedin/oauth.ts) takes the *)
(* state, exchanges the code, asks who the member is and saves account and *)
(* token. It awaits between any two of these; callbacks come twice, late,  *)
(* or at once, and a process may die between two calls.                    *)
(*                                                                         *)
(* Abstracted: a state is a model value of one workspace; a grant stands   *)
(* for its access token and is known by its place in the order LinkedIn    *)
(* gave them out; scopes are the capabilities they give; the clock is one  *)
(* in units of oauthStateTtlMs / Ttl.                                      *)
(***************************************************************************)
EXTENDS Naturals, Sequences

CONSTANTS
  Workspaces, Members,
  States,       \* the state strings, each with the workspace it names
  WorkspaceOf,
  Callbacks,    \* requests to the callback being served
  Ttl,          \* oauthStateTtlMs
  LastTime,     \* bound: the clock stops there
  None

Capabilities == {"publish", "analytics"}
Times == 0..LastTime
CallbackSteps == {"idle", "inspect", "exchange", "member", "save"}
Grants == [state: States, from: Times, caps: SUBSET Capabilities]
Accounts == [workspace: Workspaces, caps: SUBSET Capabilities]
Callback == [state: States, taken: Times, grant: Nat, member: Members \cup {None}]

ASSUME ConnectAssumption ==
  /\ WorkspaceOf \in [States -> Workspaces]
  /\ Ttl \in Nat /\ LastTime \in Nat
  /\ None \notin Members \cup Accounts \cup Callback \cup Times \cup Nat

VARIABLES
  expires,   \* oauth_pending_states.expires_at, None before the state is issued
  consumed,  \* the states whose consumed_at is set
  accounts,  \* social_accounts by external_account_id, which is unique
  tokens,    \* secret_envelopes: the grant in linkedin.token.<member>, by workspace
  grants,    \* the grants LinkedIn has given
  step, job, \* where each callback stands, and what it has in memory
  now

connections == <<expires, consumed, accounts, tokens, grants, step, job, now>>

InitConnect ==
  /\ expires = [s \in States |-> None]
  /\ consumed = {}
  /\ accounts = [m \in Members |-> None]
  /\ tokens = [w \in Workspaces |-> [m \in Members |-> None]]
  /\ grants = <<>>
  /\ step = [r \in Callbacks |-> "idle"]
  /\ job = [r \in Callbacks |-> None]
  /\ now = 0

-----------------------------------------------------------------------------
\* Helpers.

Goto(r, from, to) == step[r] = from /\ step' = [step EXCEPT ![r] = to]

\* The callback is answered, or its process has died.
Leave(r) ==
  /\ step' = [step EXCEPT ![r] = "idle"]
  /\ job' = [job EXCEPT ![r] = None]

\* The accounts of a workspace, as every query by workspace sees them.
AccountsOf(w) == {m \in Members : accounts[m] # None /\ accounts[m].workspace = w}

\* inspectOAuthPending of a row that was just taken.
inspectOAuthPending(expiresAt, time) == IF time >= expiresAt THEN "expired" ELSE "ok"

-----------------------------------------------------------------------------
\* startLinkedInConnect.
startConnect(s) ==
  /\ expires[s] = None
  /\ expires' = [expires EXCEPT ![s] = now + Ttl]
  /\ UNCHANGED <<consumed, accounts, tokens, grants, step, job, now>>

\* A plausible bug: the row is taken whether it was consumed or not.
takePendingAgain(r, s) ==
  /\ Goto(r, "idle", "inspect")
  /\ expires[s] # None
  /\ consumed' = consumed \cup {s}
  /\ job' = [job EXCEPT ![r] = [state |-> s, taken |-> now, grant |-> 0, member |-> None]]
  /\ UNCHANGED <<expires, accounts, tokens, grants, now>>

\* takePending, one update: it finds the row and sets consumed_at, or answers
\* `reused` with nothing changed.
takePending(r, s) ==
  /\ Goto(r, "idle", "inspect")
  /\ expires[s] # None /\ s \notin consumed
  /\ consumed' = consumed \cup {s}
  /\ job' = [job EXCEPT ![r] = [state |-> s, taken |-> now, grant |-> 0, member |-> None]]
  /\ UNCHANGED <<expires, accounts, tokens, grants, now>>

\* The clock is read after the row was taken. A state found expired is spent.
Inspect(r) ==
  /\ step[r] = "inspect"
  /\ IF inspectOAuthPending(expires[job[r].state], now) = "ok"
     THEN Goto(r, "inspect", "exchange") /\ UNCHANGED job
     ELSE Leave(r)
  /\ UNCHANGED <<expires, consumed, accounts, tokens, grants, now>>

\* LinkedIn gives a token for the code, with some of the scopes asked for.
exchangeCode(r, caps) ==
  /\ Goto(r, "exchange", "member")
  /\ grants' = Append(grants, [state |-> job[r].state, from |-> job[r].taken, caps |-> caps])
  /\ job' = [job EXCEPT ![r].grant = Len(grants) + 1]
  /\ UNCHANGED <<expires, consumed, accounts, tokens, now>>

fetchMember(r, m) ==
  /\ Goto(r, "member", "save")
  /\ job' = [job EXCEPT ![r].member = m]
  /\ UNCHANGED <<expires, consumed, accounts, tokens, grants, now>>

\* A plausible bug: a token that is stored already is kept (`do nothing`).
saveKeepingToken(r) ==
  LET w == WorkspaceOf[job[r].state]
      m == job[r].member IN
  /\ step[r] = "save"
  /\ accounts[m] # None => accounts[m].workspace = w
  /\ accounts' = [accounts EXCEPT ![m] = [workspace |-> w, caps |-> grants[job[r].grant].caps]]
  /\ tokens' = [tokens EXCEPT ![w][m] = IF @ = None THEN job[r].grant ELSE @]
  /\ Leave(r)
  /\ UNCHANGED <<expires, consumed, grants, now>>

\* saveConnectedAccount: both upserts in one transaction, which the lock on the
\* member's row keeps whole. A member's row never moves to another workspace:
\* the trigger on social_accounts refuses it.
saveConnectedAccount(r) ==
  LET w == WorkspaceOf[job[r].state]
      m == job[r].member IN
  /\ step[r] = "save"
  /\ accounts[m] # None => accounts[m].workspace = w
  /\ accounts' = [accounts EXCEPT ![m] = [workspace |-> w, caps |-> grants[job[r].grant].caps]]
  /\ tokens' = [tokens EXCEPT ![w][m] = job[r].grant]
  /\ Leave(r)
  /\ UNCHANGED <<expires, consumed, grants, now>>

\* Any of the calls throws, or the process dies: the state stays spent.
AbandonCallback(r) ==
  /\ step[r] # "idle"
  /\ Leave(r)
  /\ UNCHANGED <<expires, consumed, accounts, tokens, grants, now>>

Tick ==
  /\ now < LastTime
  /\ now' = now + 1
  /\ UNCHANGED <<expires, consumed, accounts, tokens, grants, step, job>>

NextConnect ==
  \/ \E s \in States : startConnect(s)
  \/ \E r \in Callbacks :
       \/ \E s \in States : takePending(r, s)
       \/ Inspect(r)
       \/ \E caps \in SUBSET Capabilities : exchangeCode(r, caps)
       \/ \E m \in Members : fetchMember(r, m)
       \/ saveConnectedAccount(r)
       \/ AbandonCallback(r)
  \/ Tick

SpecConnect == InitConnect /\ [][NextConnect]_connections

-----------------------------------------------------------------------------
\* Properties.

\* Types; and a callback has in memory what it works on exactly while served.
ConnectTypeOK ==
  /\ \A r \in Callbacks : step[r] = "idle" <=> job[r] = None
  /\ expires \in [States -> Nat \cup {None}]
  /\ consumed \subseteq States
  /\ accounts \in [Members -> Accounts \cup {None}]
  /\ tokens \in [Workspaces -> [Members -> Nat \cup {None}]]
  /\ grants \in Seq(Grants)
  /\ step \in [Callbacks -> CallbackSteps]
  /\ job \in [Callbacks -> Callback \cup {None}]
  /\ now \in Times

\* However often, late or at once its callback comes, a state is exchanged for
\* a token once, and only if it was taken before it expired
\* (oauth.test.ts:103 "rejects expired and reused state").
StateIsSpentOnce ==
  \A i \in DOMAIN grants :
    /\ grants[i].from < expires[grants[i].state]
    /\ \A j \in DOMAIN grants : grants[i].state = grants[j].state => i = j

\* What an account is said to be capable of is what its stored token is, and
\* only the workspace that connected it has a token of it: callbacks that race
\* or reconnect with other scopes leave row and envelope of one grant.
TokenFitsAccount ==
  \A w \in Workspaces, m \in Members :
    IF m \in AccountsOf(w)
    THEN /\ tokens[w][m] \in DOMAIN grants
         /\ grants[tokens[w][m]].caps = accounts[m].caps
         /\ WorkspaceOf[grants[tokens[w][m]].state] = w
    ELSE tokens[w][m] = None
=============================================================================
