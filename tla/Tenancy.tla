------------------------------- MODULE Tenancy -------------------------------
(***************************************************************************)
(* How an API process reaches the rows of a workspace: its connection      *)
(* pool, withWorkspace (packages/db/src/tenancy.ts), and what row level    *)
(* security and the scope triggers of 0001_tenancy.sql make of a statement.*)
(*                                                                         *)
(* A call of the web interface is a list of steps, one after the other:    *)
(* single statements on any connection of the pool (`check`, `upsert`,     *)
(* `list`), and transactions of withWorkspace, which take a connection,    *)
(* set the workspace for the transaction, work, commit or roll back, reset *)
(* and give the connection back.                                           *)
(*                                                                         *)
(* The database is reached as scriora_app, which row level security binds, *)
(* or as postgres, which it does not: `role` is either.                    *)
(*                                                                         *)
(* Abstracted: an item is a content with its approval, and acting on it is *)
(* submitting or deciding it (Governance has these in full); the two rows  *)
(* a workspace begins with are one; an operator is their email.            *)
(***************************************************************************)
EXTENDS Naturals, Sequences, FiniteSets

CONSTANTS
  Workspaces, Names, Users, Items, None,
  Calls,         \* calls of the web interface in flight
  Conns,         \* connections of the pool
  MaxFaults,     \* bound: failing statements, connections lost
  SerialCreate   \* environment: no two workspaces are being created at once

Roles == {"scriora_app", "postgres"}

\* The steps a call of each kind makes: upsertOperator, list and create of
\* workspace-store.ts; getPolicy, setDispatchPaused, createDraft, the lists of
\* approvals, and submit or decide, of governance-store.ts.
Steps == [signin |-> <<"upsert">>, list |-> <<"list">>, create |-> <<"check", "insert">>,
          read |-> <<"ensure">>, toggle |-> <<"ensure", "update">>,
          draft |-> <<"ensure", "draft">>, inbox |-> <<"inbox">>, act |-> <<"act">>]

\* The steps that are left of a call, what it may say, and a call.
Left(op) == {Steps[op], Tail(Steps[op]), <<>>}
Policies == [workspace: Workspaces, paused: BOOLEAN]
Args     == Users \cup [name: Names, owner: Users] \cup BOOLEAN \cup Items \cup {None}
Answers  == Users \cup (SUBSET Workspaces) \cup Workspaces \cup Policies \cup (SUBSET Items)
            \cup Items \cup {None}
Requests == [op: DOMAIN Steps, workspace: Workspaces \cup {None}, arg: Args,
             todo: UNION {Left(op) : op \in DOMAIN Steps}, said: Answers]

ASSUME TenancyAssumption ==
  /\ MaxFaults \in Nat
  /\ None \notin Calls /\ None \notin Workspaces /\ None \notin BOOLEAN
  /\ None \notin Requests /\ None \notin Policies

VARIABLES
  role,        \* the user of DATABASE_URL, which never changes
  operators,   \* users
  workspaces,  \* workspaces, each with its row of workspace_members
  switch,      \* autonomy_policies.dispatch_paused, None before there is a row
  home,        \* items: the workspace_id of each, None before there is one
  settled,     \* the items that were acted on
  conn,        \* the pool: who holds a connection, and the state of its session
  at, call,    \* where each call stands, and what it carries
  faults

tables == <<operators, workspaces, switch, home, settled>>
tenancyVars == <<role, tables, conn, at, call, faults>>

\* A session as the pool opens it.
Fresh == [holder |-> None, scope |-> None, open |-> FALSE, broken |-> FALSE]

InitTenancy ==
  /\ role \in Roles
  /\ operators = {}
  /\ workspaces = [w \in Workspaces |-> None]
  /\ switch = [w \in Workspaces |-> None]
  /\ home = [i \in Items |-> None]
  /\ settled = {}
  /\ conn = [d \in Conns |-> Fresh]
  /\ at = [r \in Calls |-> "idle"]
  /\ call = [r \in Calls |-> None]
  /\ faults = 0

-----------------------------------------------------------------------------
\* Sessions.

\* A plausible bug: the policies let every row pass.
VisibleAlways(d) == Workspaces

\* The workspaces whose rows a statement sees.
Visible(d) == IF role = "postgres" THEN Workspaces ELSE {w \in Workspaces : w = conn[d].scope}

\* A plausible bug: the scope triggers are missing.
PassesAlways(d, rows) == TRUE

\* enforce_workspace_scope, for whichever role: a row is written for the
\* workspace the session is set to.
Passes(d, rows) == \A w \in rows : w = conn[d].scope

\* What was set for a transaction is gone with it.
Ended(session) ==
  [holder |-> session.holder, scope |-> None, open |-> FALSE, broken |-> session.broken]

\* commit
committed(session) == Ended(session)

\* A plausible bug: a failed transaction is left as it is.
rolledBackNever(session) == session

\* rollback, whose own failure is ignored.
rolledBack(session) ==
  IF session.broken THEN session ELSE Ended(session)

\* reset all, which fails in a transaction that was not ended.
wasReset(session) ==
  IF session.broken \/ session.open THEN session ELSE [session EXCEPT !.scope = None]

\* The pool opens another connection in the place of a broken one.
released(session) == IF session.broken THEN Fresh ELSE [session EXCEPT !.holder = None]

-----------------------------------------------------------------------------
\* Calls.

Call(op, w, arg) == [op |-> op, workspace |-> w, arg |-> arg, todo |-> Steps[op], said |-> None]

\* The web interface makes a call.
Send(r, op, w, arg) ==
  /\ at' = [at EXCEPT ![r] = "ready"]
  /\ call' = [call EXCEPT ![r] = Call(op, w, arg)]

\* A step is done with this answer; the last one is the call's.
Say(r, answer) ==
  call' = [call EXCEPT ![r].said = answer, ![r].todo = Tail(@)]

\* A statement of its own, on a connection nobody holds, in the session it finds.
Query(r, d, step) ==
  /\ at[r] = "ready" /\ Head(call[r].todo) = step
  /\ conn[d].holder = None

Answered(r) == at' = [at EXCEPT ![r] = "answer"]

upsertOperator(r, d) ==
  /\ Query(r, d, "upsert")
  /\ operators' = operators \cup {call[r].arg}
  /\ Say(r, call[r].arg) /\ Answered(r)
  /\ UNCHANGED <<role, workspaces, switch, home, settled, conn, faults>>

\* The join needs the rows of both tables.
list(r, d) ==
  /\ Query(r, d, "list")
  /\ Say(r, {w \in Visible(d) : workspaces[w] # None /\ workspaces[w].owner = call[r].arg})
  /\ Answered(r)
  /\ UNCHANGED <<role, tables, conn, faults>>

\* A plausible bug: the name is not looked for.
createUnchecked(r, d) ==
  /\ Query(r, d, "check")
  /\ \E w \in Workspaces :
       /\ workspaces[w] = None /\ \A q \in Calls : at[q] # "idle" => call[q].workspace # w
       /\ call' = [call EXCEPT ![r].workspace = w, ![r].todo = Tail(@)]
  /\ UNCHANGED <<role, tables, conn, faults, at>>

\* create, up to its transaction: a name that is seen is refused, and an id is
\* drawn that nobody else has.
create(r, d) ==
  /\ Query(r, d, "check")
  /\ IF \E w \in Visible(d) : workspaces[w] # None /\ workspaces[w].name = call[r].arg.name
     THEN Answered(r) /\ UNCHANGED call
     ELSE \E w \in Workspaces :
            /\ workspaces[w] = None /\ \A q \in Calls : at[q] # "idle" => call[q].workspace # w
            /\ call' = [call EXCEPT ![r].workspace = w, ![r].todo = Tail(@)]
            /\ UNCHANGED at
  /\ UNCHANGED <<role, tables, conn, faults>>

\* connect, begin and set_config.
Open(r, d) ==
  /\ at[r] = "ready" /\ Head(call[r].todo) \notin {"upsert", "list", "check"}
  /\ conn[d].holder = None
  /\ conn' = [conn EXCEPT ![d] = [holder |-> r, scope |-> call[r].workspace, open |-> TRUE,
                                  broken |-> FALSE]]
  /\ at' = [at EXCEPT ![r] = "work"]
  /\ UNCHANGED <<role, tables, call, faults>>

Working(r, d, step) == at[r] = "work" /\ conn[d].holder = r /\ Head(call[r].todo) = step

\* The foreign key of every table of a workspace.
Exists(w) == workspaces[w] # None

insertWorkspace(r, d) ==
  LET w == call[r].workspace IN
  /\ Working(r, d, "insert") /\ Passes(d, {w})
  /\ call[r].arg.owner \in operators
  /\ workspaces' = [workspaces EXCEPT ![w] = call[r].arg]
  /\ Say(r, w)
  /\ UNCHANGED <<operators, switch, home, settled>>

\* An insert that does nothing if there is a row, and a select of every row:
\* the answer is the first of them.
ensurePolicy(r, d) ==
  LET w == call[r].workspace
      policies == [switch EXCEPT ![w] = IF @ = None THEN FALSE ELSE @] IN
  /\ Working(r, d, "ensure") /\ Passes(d, {w}) /\ Exists(w)
  /\ switch' = policies
  /\ \E v \in Visible(d) :
       policies[v] # None /\ Say(r, [workspace |-> v, paused |-> policies[v]])
  /\ UNCHANGED <<operators, workspaces, home, settled>>

\* The update names no workspace: every row that is seen.
setDispatchPaused(r, d) ==
  LET rows == {w \in Visible(d) : switch[w] # None} IN
  /\ Working(r, d, "update") /\ Passes(d, rows)
  /\ switch' = [w \in Workspaces |-> IF w \in rows THEN call[r].arg ELSE switch[w]]
  /\ Say(r, [workspace |-> call[r].said.workspace, paused |-> call[r].arg])
  /\ UNCHANGED <<operators, workspaces, home, settled>>

createDraft(r, d) ==
  LET w == call[r].workspace IN
  /\ Working(r, d, "draft") /\ Passes(d, {w}) /\ Exists(w)
  /\ \E i \in Items :
       /\ home[i] = None
       /\ home' = [home EXCEPT ![i] = w]
       /\ Say(r, i)
  /\ UNCHANGED <<operators, workspaces, switch, settled>>

listPendingApprovals(r, d) ==
  /\ Working(r, d, "inbox")
  /\ Say(r, {i \in Items : home[i] \in Visible(d)})
  /\ UNCHANGED tables

\* An item that is not seen is not found; one that is seen is updated by its id.
actOn(r, d) ==
  LET i == call[r].arg IN
  /\ Working(r, d, "act")
  /\ IF home[i] \in Visible(d)
     THEN Passes(d, {home[i]}) /\ settled' = settled \cup {i} /\ Say(r, i)
     ELSE UNCHANGED settled /\ Say(r, None)
  /\ UNCHANGED <<operators, workspaces, switch, home>>

Statements(r, d) ==
  \/ insertWorkspace(r, d) \/ ensurePolicy(r, d) \/ setDispatchPaused(r, d)
  \/ createDraft(r, d) \/ listPendingApprovals(r, d) \/ actOn(r, d)

\* The statements of the transaction and its commit, ...
Work(r, d) ==
  /\ Statements(r, d)
  /\ conn' = [conn EXCEPT ![d] = committed(@)]
  /\ at' = [at EXCEPT ![r] = "done"]
  /\ UNCHANGED <<role, faults>>

\* ... which may be made without the answer coming back.
WorkUnheard(r, d) ==
  /\ Statements(r, d)
  /\ faults < MaxFaults
  /\ faults' = faults + 1
  /\ conn' = [conn EXCEPT ![d].broken = TRUE]
  /\ at' = [at EXCEPT ![r] = "failed"]
  /\ UNCHANGED role

\* A trigger refuses a statement. The foreign keys refuse none, as the web
\* interface sends ids that it was told only: a call that broke one would stand
\* still, which the deadlock check excludes.
Refused(r, d) ==
  \/ Working(r, d, "update") /\ ~Passes(d, {w \in Visible(d) : switch[w] # None})
  \/ Working(r, d, "act") /\ home[call[r].arg] \in Visible(d) /\ ~Passes(d, {home[call[r].arg]})

Throw(r, d) ==
  /\ Refused(r, d)
  /\ at' = [at EXCEPT ![r] = "failed"]
  /\ UNCHANGED <<role, tables, conn, call, faults>>

\* A statement fails for a reason of its own, or with its connection.
Fault(r, d) ==
  /\ at[r] = "work" /\ conn[d].holder = r
  /\ faults < MaxFaults
  /\ faults' = faults + 1
  /\ at' = [at EXCEPT ![r] = "failed"]
  /\ \E lost \in BOOLEAN : conn' = [conn EXCEPT ![d].broken = lost]
  /\ UNCHANGED <<role, tables, call>>

\* The call goes on to its next step, or is answered.
Proceed(r) ==
  IF at[r] = "failed"
  THEN Answered(r) /\ call' = [call EXCEPT ![r].said = None]
  ELSE /\ at' = [at EXCEPT ![r] = IF call[r].todo = <<>> THEN "answer" ELSE "ready"]
       /\ UNCHANGED call

\* The catch and the finally of withWorkspace.
Finish(r, d) ==
  /\ at[r] \in {"done", "failed"} /\ conn[d].holder = r
  /\ conn' = [conn EXCEPT ![d] =
       released(wasReset(IF at[r] = "failed" THEN rolledBack(@) ELSE @))]
  /\ Proceed(r)
  /\ UNCHANGED <<role, tables, faults>>

Serve(r) ==
  \E d \in Conns :
    \/ upsertOperator(r, d) \/ list(r, d) \/ create(r, d)
    \/ Work(r, d) \/ Throw(r, d) \/ Finish(r, d)

Mishap(r) == \E d \in Conns : WorkUnheard(r, d) \/ Fault(r, d)

-----------------------------------------------------------------------------
\* Properties.

\* A connection that nobody holds is as good as new, and a call at work holds
\* one connection, set to its own workspace: nothing of a tenant is left in the
\* pool, whatever failed (tenancy.ts:17-32, tenancy.test.ts).
CleanPool ==
  /\ \A d \in Conns : conn[d].holder = None => conn[d] = Fresh
  /\ \A r \in Calls :
       LET held == {d \in Conns : conn[d].holder = r} IN
       /\ Cardinality(held) = IF at[r] \in {"work", "done", "failed"} THEN 1 ELSE 0
       /\ at[r] = "work" => \A d \in held : conn[d].scope = call[r].workspace

\* What a call answers is of the workspace it was made for
\* (0001_tenancy.sql:1-2).
OwnRowsOnly ==
  \A r \in Calls : at[r] = "answer" /\ call[r].said # None =>
    /\ call[r].op \in {"read", "toggle"} => call[r].said.workspace = call[r].workspace
    /\ call[r].op = "inbox" => \A i \in call[r].said : home[i] = call[r].workspace

\* So it is for the role the migrations name.
AppSeesOwnRows == role = "scriora_app" => OwnRowsOnly

\* For either role, the switch of a workspace and its items are changed by the
\* statements of a transaction set to that workspace only, although no update
\* names one (governance-store.ts:182-186, 0001_tenancy.sql:64-79): the call
\* that takes the step works on a connection of that scope.
RowsChangeAtHome ==
  [][\A w \in Workspaces :
       \/ switch'[w] # switch[w]
       \/ \E i \in settled' \ settled : home[i] = w
       => \E r \in Calls, d \in Conns :
            at[r] = "work" /\ at'[r] # "work" /\ conn[d].holder = r /\ conn[d].scope = w]_<<switch, settled>>

\* No two workspaces have one name, if the names in use can be seen and no two
\* are being created at once (workspace-store.ts:88-94).
NamesAreUnique ==
  SerialCreate /\ role = "postgres" =>
    \A v, w \in Workspaces : v # w /\ workspaces[v] # None /\ workspaces[w] # None
      => workspaces[v].name # workspaces[w].name
=============================================================================
