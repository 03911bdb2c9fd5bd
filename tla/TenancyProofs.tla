---------------------------- MODULE TenancyProofs ----------------------------
(***************************************************************************)
(* Proofs about the tenancy of the API, under every call of ClassicShell:  *)
(* the pool is left clean whatever fails, no transaction changes the rows  *)
(* of another workspace than its own, what scriora_app answers is of the   *)
(* workspace that was asked for, names stay unique, and the stop button    *)
(* shows the switch. They hold for any number of connections, calls,       *)
(* workspaces and faults.                                                  *)
(*                                                                         *)
(* The inductive invariants: Pool, of the sessions; Typed, which adds the  *)
(* form of every call that is under way; and over these Own, Named and     *)
(* Showing, one for each of the last three.                                *)
(***************************************************************************)
EXTENDS ClassicShell, FiniteSetTheorems, TLAPS

LEMMA NoneApart ==
  None \notin Calls /\ None \notin Workspaces /\ None \notin Policies /\ None \notin BOOLEAN
BY TenancyAssumption

\* Where a call stands, and where it has a connection.
Stages == {"idle", "ready", "work", "done", "failed", "answer"}
Inside == {"work", "done", "failed"}

Session(h, w, o, b) == [holder |-> h, scope |-> w, open |-> o, broken |-> b]

IsSession(s) ==
  /\ s = Session(s.holder, s.scope, s.open, s.broken)
  /\ s.holder \in Calls \cup {None}
  /\ s.open \in BOOLEAN /\ s.broken \in BOOLEAN

\* What holds between any two statements.
Pool ==
  /\ at \in [Calls -> Stages]
  /\ call = [r \in Calls |-> call[r]]
  /\ conn = [d \in Conns |-> conn[d]]
  /\ \A d \in Conns : IsSession(conn[d])
  /\ \A d \in Conns : conn[d].holder = None => conn[d] = Fresh
  /\ \A d \in Conns : conn[d].holder # None => at[conn[d].holder] \in Inside
  /\ \A r \in Calls : at[r] \in Inside => \E d \in Conns : conn[d].holder = r
  /\ \A d, e \in Conns : conn[d].holder # None /\ conn[d].holder = conn[e].holder => d = e
  /\ \A d \in Conns : conn[d].holder # None /\ at[conn[d].holder] = "work" =>
       conn[d].scope = call[conn[d].holder].workspace /\ ~conn[d].broken
  /\ \A d \in Conns : conn[d].holder # None /\ at[conn[d].holder] = "done" =>
       conn[d].scope = None /\ ~conn[d].open /\ ~conn[d].broken

\* A step that touches no connection and no call that has one.
Outside ==
  /\ at' \in [Calls -> Stages]
  /\ call' = [r \in Calls |-> call'[r]]
  /\ conn' = conn
  /\ \A r \in Calls : at[r] \in Inside \/ at'[r] \in Inside =>
       at'[r] = at[r] /\ call'[r] = call[r]

LEMMA OutsideKeepsPool == Pool /\ Outside => Pool'
<1> SUFFICES ASSUME Pool, Outside PROVE Pool'
  OBVIOUS
<1>1. \A d \in Conns : conn[d].holder # None => conn[d].holder \in Calls
  BY DEF Pool, IsSession
<1>2. \A d \in Conns : conn[d].holder # None => at[conn[d].holder] \in Inside
  BY DEF Pool
<1>3. \A d \in Conns : conn[d].holder # None =>
        /\ at'[conn[d].holder] = at[conn[d].holder]
        /\ call'[conn[d].holder] = call[conn[d].holder]
  BY <1>1, <1>2 DEF Outside
<1>4. conn' = conn
  BY DEF Outside
<1>5. (/\ at \in [Calls -> Stages]
       /\ call = [r \in Calls |-> call[r]]
       /\ \A r \in Calls : at[r] \in Inside => \E d \in Conns : conn[d].holder = r)'
  BY <1>4 DEF Pool, Outside
<1>6. QED
  BY <1>3, <1>4, <1>5 DEF Pool, IsSession, Fresh

\* Of a call that is answered, sent or let go.
LEMMA CallOutside ==
  ASSUME Pool, NEW r \in Calls, at[r] \notin Inside, conn' = conn,
         NEW s \in Stages \ Inside, at' = [at EXCEPT ![r] = s],
         call' = [q \in Calls |-> call'[q]], \A q \in Calls \ {r} : call'[q] = call[q]
  PROVE  Outside
BY DEF Pool, Outside

-----------------------------------------------------------------------------
\* The steps of the web interface.

LEMMA OperateOutside ==
  ASSUME Pool, NEW r \in Calls, Operate(r) PROVE Outside
<1>1. CASE \E q \in Calls : mount(r, q)
  BY <1>1 DEF mount, Outside, Pool, Stages, Inside
<1>2. CASE \E op, w, arg : Click(r, op, w, arg)
  <2>1. PICK op, w, arg : Click(r, op, w, arg)
    BY <1>2
  <2>2. /\ at[r] \notin Inside /\ conn' = conn
        /\ at' = [at EXCEPT ![r] = "ready"]
        /\ call' = [call EXCEPT ![r] = Call(op, w, arg)]
    BY <2>1 DEF Click, Send, Inside
  <2>3. call' = [q \in Calls |-> call'[q]] /\ \A q \in Calls \ {r} : call'[q] = call[q]
    BY <2>2 DEF Pool
  <2>4. QED
    BY <2>2, <2>3, CallOutside DEF Stages, Inside
<1>3. QED
  BY <1>1, <1>2 DEF Operate, signIn, select, createWorkspace, toggleKillswitch,
                    saveDraft, refresh, decide

LEMMA DeliverOutside ==
  ASSUME Pool, NEW r \in Calls, Deliver(r) PROVE Outside
<1>1. at[r] = "answer" /\ conn' = conn
  BY DEF Deliver, signedIn, wasListed, created, switchHeard, draftSaved, refreshed,
         decided, Hear, Over, Then
<1>2. Over(r) \/ \E op, w, arg : Then(r, op, w, arg)
  BY DEF Deliver, signedIn, wasListed, created, switchHeard, draftSaved, refreshed, decided
<1>3. \E c : \E s \in {"idle", "ready"} : at' = [at EXCEPT ![r] = s] /\ call' = [call EXCEPT ![r] = c]
  BY <1>2 DEF Over, Then, Send
<1>4. call' = [q \in Calls |-> call'[q]] /\ \A q \in Calls \ {r} : call'[q] = call[q]
  BY <1>3 DEF Pool
<1>5. QED
  BY <1>1, <1>3, <1>4, CallOutside DEF Stages, Inside

-----------------------------------------------------------------------------
\* The steps of the API.

\* What the updates make of a session.
LEMMA SessionBroken ==
  ASSUME NEW x, IsSession(x), NEW v \in BOOLEAN, NEW y, y = [x EXCEPT !.broken = v]
  PROVE  IsSession(y) /\ y.holder = x.holder
<1>1. y = Session(x.holder, x.scope, x.open, v)
  BY DEF IsSession, Session
<1>2. QED
  BY <1>1 DEF IsSession, Session

LEMMA SessionEnded ==
  ASSUME NEW x, IsSession(x)
  PROVE  /\ IsSession(Ended(x))
         /\ Ended(x).holder = x.holder /\ Ended(x).scope = None
         /\ Ended(x).open = FALSE /\ Ended(x).broken = x.broken
BY DEF IsSession, Session, Ended

\* The others are left alone by a step that changes one call ...
LEMMA OthersKept ==
  ASSUME Pool, NEW r \in Calls,
         \/ \E s, c : Say(r, c) /\ at' = [at EXCEPT ![r] = s]
         \/ \E s : UNCHANGED call /\ at' = [at EXCEPT ![r] = s]
  PROVE  call' = [q \in Calls |-> call'[q]] /\ \A q \in Calls \ {r} : call'[q] = call[q]
BY DEF Pool, Say

\* ... and the connection that it holds, unless it gives it back.
LEMMA HolderKeepsPool ==
  ASSUME Pool, NEW r \in Calls, NEW d \in Conns, conn[d].holder = r,
         NEW x, IsSession(x), conn' = [conn EXCEPT ![d] = x],
         NEW s \in Stages, at' = [at EXCEPT ![r] = s],
         call' = [q \in Calls |-> call'[q]], \A q \in Calls \ {r} : call'[q] = call[q],
         \/ x = Fresh /\ s \notin Inside
         \/ x.holder = r /\ s = "failed"
         \/ x.holder = r /\ s = "done" /\ x.scope = None /\ ~x.open /\ ~x.broken
  PROVE  Pool'
<1> USE NoneApart
<1>1. /\ at' \in [Calls -> Stages]
      /\ conn' = [e \in Conns |-> conn'[e]]
      /\ at'[r] = s /\ \A q \in Calls \ {r} : at'[q] = at[q]
      /\ conn'[d] = x /\ \A e \in Conns \ {d} : conn'[e] = conn[e]
  BY DEF Pool
<1>2. \A e \in Conns \ {d} : conn[e].holder # r
  BY DEF Pool
<1>3. \A e \in Conns : conn[e].holder # None => conn[e].holder \in Calls
  BY DEF Pool, IsSession
<1>4. Fresh.holder = None
  BY DEF Fresh
<1>5. \A e \in Conns \ {d} : conn[e].holder # None =>
        /\ at'[conn[e].holder] = at[conn[e].holder]
        /\ call'[conn[e].holder] = call[conn[e].holder]
  BY <1>1, <1>2, <1>3
<1>6. \A e \in Conns : IsSession(conn'[e])
  BY <1>1 DEF Pool
<1>7. \A e \in Conns : conn'[e].holder = None => conn'[e] = Fresh
  BY <1>1 DEF Pool
<1>8. \A e \in Conns : conn'[e].holder # None => at'[conn'[e].holder] \in Inside
  BY <1>1, <1>4, <1>5 DEF Pool, Inside
<1>9. \A q \in Calls : at'[q] \in Inside => \E e \in Conns : conn'[e].holder = q
  <2> SUFFICES ASSUME NEW q \in Calls, at'[q] \in Inside
               PROVE  \E e \in Conns : conn'[e].holder = q
    OBVIOUS
  <2>1. CASE q = r
    BY <2>1, <1>1, <1>4
  <2>2. CASE q # r
    BY <2>2, <1>1 DEF Pool
  <2>3. QED
    BY <2>1, <2>2
<1>10. \A e, f \in Conns :
         conn'[e].holder # None /\ conn'[e].holder = conn'[f].holder => e = f
  BY <1>1, <1>2, <1>4 DEF Pool
<1>11. \A e \in Conns : conn'[e].holder # None /\ at'[conn'[e].holder] = "work" =>
         conn'[e].scope = call'[conn'[e].holder].workspace /\ ~conn'[e].broken
  BY <1>1, <1>4, <1>5 DEF Pool
<1>12. \A e \in Conns : conn'[e].holder # None /\ at'[conn'[e].holder] = "done" =>
         conn'[e].scope = None /\ ~conn'[e].open /\ ~conn'[e].broken
  BY <1>1, <1>4, <1>5 DEF Pool
<1>13. QED
  BY <1>1, <1>6, <1>7, <1>8, <1>9, <1>10, <1>11, <1>12 DEF Pool, IsSession, Fresh

LEMMA OpenKeepsPool ==
  ASSUME Pool, NEW r \in Calls, NEW d \in Conns, Open(r, d) PROVE Pool'
<1> USE NoneApart
<1> DEFINE x == Session(r, call[r].workspace, TRUE, FALSE)
<1>1. /\ at[r] = "ready" /\ conn[d].holder = None /\ call' = call
      /\ conn'[d] = x /\ \A e \in Conns \ {d} : conn'[e] = conn[e]
      /\ conn' = [e \in Conns |-> conn'[e]]
      /\ at'[r] = "work" /\ \A q \in Calls \ {r} : at'[q] = at[q]
      /\ at' \in [Calls -> Stages]
  BY DEF Open, Pool, Stages, Session
<1>2. /\ IsSession(x) /\ x.holder = r /\ x.scope = call[r].workspace /\ ~x.broken
  BY DEF IsSession, Session
<1>3. \A e \in Conns : conn[e].holder # r
  BY <1>1 DEF Pool, Inside
<1>4. \A e \in Conns : conn[e].holder # None => conn[e].holder \in Calls
  BY DEF Pool, IsSession
<1> HIDE DEF x
<1>5. \A e \in Conns : IsSession(conn'[e]) /\ (conn'[e].holder = None => conn'[e] = Fresh)
  BY <1>1, <1>2 DEF Pool
<1>6. \A e \in Conns : conn'[e].holder # None => at'[conn'[e].holder] \in Inside
  BY <1>1, <1>2, <1>3, <1>4 DEF Pool, Inside
<1>7. \A q \in Calls : at'[q] \in Inside => \E e \in Conns : conn'[e].holder = q
  BY <1>1, <1>2 DEF Pool
<1>8. \A e, f \in Conns :
         conn'[e].holder # None /\ conn'[e].holder = conn'[f].holder => e = f
  BY <1>1, <1>2, <1>3 DEF Pool
<1>9. \A e \in Conns : conn'[e].holder # None /\ at'[conn'[e].holder] = "work" =>
         conn'[e].scope = call'[conn'[e].holder].workspace /\ ~conn'[e].broken
  BY <1>1, <1>2, <1>3, <1>4 DEF Pool
<1>10. \A e \in Conns : conn'[e].holder # None /\ at'[conn'[e].holder] = "done" =>
         conn'[e].scope = None /\ ~conn'[e].open /\ ~conn'[e].broken
  BY <1>1, <1>2, <1>3, <1>4 DEF Pool
<1>11. QED
  BY <1>1, <1>5, <1>6, <1>7, <1>8, <1>9, <1>10 DEF Pool, IsSession, Fresh

\* A transaction works on the connection its call holds, and answers that call.
LEMMA StatementsHold ==
  ASSUME NEW r, NEW d, Statements(r, d)
  PROVE  at[r] = "work" /\ conn[d].holder = r /\ \E c : Say(r, c)
BY DEF Statements, insertWorkspace, ensurePolicy, setDispatchPaused, createDraft,
       listPendingApprovals, actOn, Working

LEMMA WorkKeepsPool ==
  ASSUME Pool, NEW r \in Calls, NEW d \in Conns, Work(r, d) \/ WorkUnheard(r, d)
  PROVE  Pool'
<1>1. at[r] = "work" /\ conn[d].holder = r /\ \E c : Say(r, c)
  BY StatementsHold DEF Work, WorkUnheard
<1>2. IsSession(conn[d])
  BY DEF Pool
<1>3. CASE Work(r, d)
  <2> DEFINE x == committed(conn[d])
  <2>1. conn' = [conn EXCEPT ![d] = x] /\ at' = [at EXCEPT ![r] = "done"]
    BY <1>3 DEF Work
  <2>2. IsSession(x) /\ x.holder = r /\ x.scope = None /\ ~x.open /\ ~x.broken
    <3>1. ~conn[d].broken
      BY <1>1, NoneApart DEF Pool
    <3>2. QED
      BY <1>1, <1>2, <3>1, SessionEnded DEF committed
  <2>3. call' = [q \in Calls |-> call'[q]] /\ \A q \in Calls \ {r} : call'[q] = call[q]
    BY <1>1, <2>1, OthersKept
  <2> HIDE DEF x
  <2>4. QED
    BY <1>1, <2>1, <2>2, <2>3, HolderKeepsPool DEF Stages
<1>4. CASE WorkUnheard(r, d)
  <2> DEFINE x == [conn[d] EXCEPT !.broken = TRUE]
  <2>1. conn' = [conn EXCEPT ![d] = x] /\ at' = [at EXCEPT ![r] = "failed"]
    BY <1>4 DEF WorkUnheard
  <2>2. IsSession(x) /\ x.holder = r
    BY <1>1, <1>2, SessionBroken
  <2>3. call' = [q \in Calls |-> call'[q]] /\ \A q \in Calls \ {r} : call'[q] = call[q]
    BY <1>1, <2>1, OthersKept
  <2> HIDE DEF x
  <2>4. QED
    BY <1>1, <2>1, <2>2, <2>3, HolderKeepsPool DEF Stages
<1>5. QED
  BY <1>3, <1>4

LEMMA FailureKeepsPool ==
  ASSUME Pool, NEW r \in Calls, NEW d \in Conns, Throw(r, d) \/ Fault(r, d)
  PROVE  Pool'
<1>1. IsSession(conn[d])
  BY DEF Pool
<1>2. CASE Throw(r, d)
  <2>1. conn[d].holder = r /\ conn' = conn /\ call' = call /\ at' = [at EXCEPT ![r] = "failed"]
    BY <1>2 DEF Throw, Refused, Working
  <2>2. conn' = [conn EXCEPT ![d] = conn[d]]
    BY <2>1 DEF Pool
  <2>3. call' = [q \in Calls |-> call'[q]] /\ \A q \in Calls \ {r} : call'[q] = call[q]
    BY <2>1, OthersKept
  <2>4. QED
    BY <1>1, <2>1, <2>2, <2>3, HolderKeepsPool DEF Stages
<1>3. CASE Fault(r, d)
  <2>1. PICK lost \in BOOLEAN : conn' = [conn EXCEPT ![d].broken = lost]
    BY <1>3 DEF Fault
  <2> DEFINE x == [conn[d] EXCEPT !.broken = lost]
  <2>2. conn' = [conn EXCEPT ![d] = x]
    BY <2>1
  <2>3. conn[d].holder = r /\ call' = call /\ at' = [at EXCEPT ![r] = "failed"]
    BY <1>3 DEF Fault
  <2>4. IsSession(x) /\ x.holder = r
    BY <1>1, <2>3, SessionBroken
  <2>5. call' = [q \in Calls |-> call'[q]] /\ \A q \in Calls \ {r} : call'[q] = call[q]
    BY <2>3, OthersKept
  <2> HIDE DEF x
  <2>6. QED
    BY <2>2, <2>3, <2>4, <2>5, HolderKeepsPool DEF Stages
<1>4. QED
  BY <1>2, <1>3

\* What the finally leaves behind is as good as new, in every case.
LEMMA ReleasedFresh ==
  ASSUME NEW x, IsSession(x)
  PROVE  /\ released(wasReset(rolledBack(x))) = Fresh
         /\ x.scope = None /\ ~x.open /\ ~x.broken => released(wasReset(x)) = Fresh
<1>1. CASE x.broken
  BY <1>1 DEF released, wasReset, rolledBack
<1>2. ASSUME NEW y, IsSession(y), y.scope = None, y.open = FALSE, y.broken = FALSE
      PROVE  released(wasReset(y)) = Fresh
  <2>1. [y EXCEPT !.scope = None] = y
    BY <1>2 DEF IsSession, Session
  <2>2. wasReset(y) = y
    BY <2>1 DEF wasReset
  <2>3. [y EXCEPT !.holder = None] = Session(None, y.scope, y.open, y.broken)
    BY <1>2 DEF IsSession, Session
  <2>4. QED
    BY <1>2, <2>2, <2>3 DEF released, Fresh, Session
<1>3. CASE ~x.broken
  <2>1. x.broken = FALSE /\ rolledBack(x) = Ended(x)
    BY <1>3 DEF rolledBack, IsSession
  <2>2. released(wasReset(rolledBack(x))) = Fresh
    BY <1>2, <2>1, SessionEnded
  <2>3. QED
    BY <1>2, <2>1, <2>2 DEF IsSession
<1>4. QED
  BY <1>1, <1>3

LEMMA FinishFresh ==
  ASSUME Pool, NEW r \in Calls, NEW d \in Conns, Finish(r, d)
  PROVE  /\ conn' = [conn EXCEPT ![d] = Fresh]
         /\ \A e \in Conns : conn'[e] = conn[e] \/ conn'[e] = Fresh
<1>1. /\ at[r] \in {"done", "failed"} /\ conn[d].holder = r
      /\ conn' = [conn EXCEPT ![d] =
           released(wasReset(IF at[r] = "failed" THEN rolledBack(conn[d]) ELSE conn[d]))]
  BY DEF Finish
<1>2. IsSession(conn[d])
  BY DEF Pool
<1>3. at[r] = "done" => conn[d].scope = None /\ ~conn[d].open /\ ~conn[d].broken
  BY <1>1, NoneApart DEF Pool
<1>4. conn' = [conn EXCEPT ![d] = Fresh]
  BY <1>1, <1>2, <1>3, ReleasedFresh
<1>5. QED BY <1>4 DEF Pool

LEMMA FinishKeepsPool ==
  ASSUME Pool, NEW r \in Calls, NEW d \in Conns, Finish(r, d) PROVE Pool'
<1>1. at[r] \in {"done", "failed"} /\ conn[d].holder = r /\ Proceed(r)
  BY DEF Finish
<1>2. conn' = [conn EXCEPT ![d] = Fresh]
  BY FinishFresh
<1>3. PICK s \in {"answer", "ready"} : at' = [at EXCEPT ![r] = s]
  BY <1>1 DEF Proceed, Answered
<1>4. call' = [q \in Calls |-> call'[q]] /\ \A q \in Calls \ {r} : call'[q] = call[q]
  BY <1>1 DEF Proceed, Pool
<1>5. IsSession(Fresh)
  BY DEF IsSession, Fresh, Session
<1>6. QED
  BY <1>1, <1>2, <1>3, <1>4, <1>5, HolderKeepsPool DEF Stages, Inside

\* Single statements hold no connection.
LEMMA QueryOutside ==
  ASSUME Pool, NEW r \in Calls, NEW d \in Conns,
         upsertOperator(r, d) \/ list(r, d) \/ create(r, d)
  PROVE  Outside
<1>1. at[r] = "ready" /\ conn' = conn
  BY DEF upsertOperator, list, create, Query
<1>2. \E s \in {"ready", "answer"} : at' = [at EXCEPT ![r] = s]
  <2>1. at = [at EXCEPT ![r] = "ready"]
    BY <1>1 DEF Pool
  <2>2. QED
    BY <2>1 DEF upsertOperator, list, create, Answered
<1>3. call' = [q \in Calls |-> call'[q]] /\ \A q \in Calls \ {r} : call'[q] = call[q]
  BY DEF upsertOperator, list, create, Say, Pool
<1>4. QED
  BY <1>1, <1>2, <1>3, CallOutside DEF Stages, Inside

-----------------------------------------------------------------------------
\* The pool.

LEMMA InitPool == Init => Pool
<1> SUFFICES ASSUME Init PROVE Pool
  OBVIOUS
<1>1. /\ conn = [d \in Conns |-> Fresh]
      /\ at = [r \in Calls |-> "idle"] /\ call = [r \in Calls |-> None]
  BY DEF Init, InitTenancy
<1>2. \A d \in Conns : conn[d] = Fresh
  BY <1>1
<1>3. IsSession(Fresh) /\ Fresh.holder = None
  BY DEF IsSession, Session, Fresh
<1>4. QED
  BY <1>1, <1>2, <1>3 DEF Pool, Stages, Inside

LEMMA NextPool == Pool /\ [Next]_vars => Pool'
<1> SUFFICES ASSUME Pool, [Next]_vars PROVE Pool'
  OBVIOUS
<1>1. ASSUME NEW r \in Calls, Operate(r) PROVE Pool'
  BY <1>1, OperateOutside, OutsideKeepsPool
<1>2. ASSUME NEW r \in Calls, Deliver(r) PROVE Pool'
  BY <1>2, DeliverOutside, OutsideKeepsPool
<1>3. ASSUME NEW r \in Calls, Progress(r) PROVE Pool'
  <2>1. PICK d \in Conns : \/ upsertOperator(r, d) \/ list(r, d) \/ create(r, d)
                          \/ Work(r, d) \/ Throw(r, d) \/ Finish(r, d)
    BY <1>3 DEF Progress, Serve
  <2>2. QED
    BY <2>1, QueryOutside, OutsideKeepsPool, WorkKeepsPool, FailureKeepsPool, FinishKeepsPool
<1>4. ASSUME NEW r \in Calls, Connect(r) PROVE Pool'
  BY <1>4, OpenKeepsPool DEF Connect
<1>5. ASSUME NEW r \in Calls, Mishap(r) PROVE Pool'
  BY <1>5, WorkKeepsPool, FailureKeepsPool DEF Mishap
<1>6. CASE deselect \/ UNCHANGED vars
  <2>1. conn' = conn /\ at' = at /\ call' = call
    BY <1>6 DEF deselect, vars, tenancyVars
  <2>2. QED
    BY <2>1, OutsideKeepsPool DEF Outside, Pool
<1>7. QED
  BY <1>1, <1>2, <1>3, <1>4, <1>5, <1>6 DEF Next

\* Between any two statements every connection that is free is fresh, and every
\* other one is held by one call, in a session of that call's workspace.
THEOREM PoolAlways == Spec => []Pool
BY InitPool, NextPool, PTL DEF Spec

\* The pool is clean (tenancy.ts:17-32): the finally of withWorkspace leaves
\* nothing of a tenant in a connection it gives back, whatever failed.
THEOREM CleanPoolAlways == Spec => []CleanPool
<1>1. ASSUME Pool PROVE CleanPool
  <2>1. \A d \in Conns : conn[d].holder = None => conn[d] = Fresh
    BY <1>1 DEF Pool
  <2>2. ASSUME NEW r \in Calls
        PROVE  LET held == {d \in Conns : conn[d].holder = r} IN
               /\ Cardinality(held) = IF at[r] \in {"work", "done", "failed"} THEN 1 ELSE 0
               /\ at[r] = "work" => \A d \in held : conn[d].scope = call[r].workspace
    <3> DEFINE held == {d \in Conns : conn[d].holder = r}
    <3>1. r # None
      BY NoneApart
    <3>2. CASE at[r] \in Inside
      <4>1. PICK d \in Conns : conn[d].holder = r
        BY <1>1, <3>2 DEF Pool
      <4>2. held = {d}
        BY <1>1, <3>1, <4>1 DEF Pool
      <4>3. Cardinality(held) = 1
        BY <4>2, FS_Singleton
      <4>4. at[r] = "work" => conn[d].scope = call[r].workspace
        BY <1>1, <3>1, <4>1 DEF Pool
      <4>5. QED
        BY <3>2, <4>2, <4>3, <4>4 DEF Inside
    <3>3. CASE at[r] \notin Inside
      <4>1. held = {}
        BY <1>1, <3>1, <3>3 DEF Pool
      <4>2. Cardinality(held) = 0
        BY <4>1, FS_EmptySet
      <4>3. QED
        BY <3>3, <4>2 DEF Inside
    <3>4. QED
      BY <3>2, <3>3
  <2>3. QED
    BY <2>1, <2>2 DEF CleanPool
<1>2. QED
  BY <1>1, PoolAlways, PTL

-----------------------------------------------------------------------------
\* The rows.

\* A statement that changes a switch or settles an item passed the triggers for
\* the workspace it did it to.
LEMMA StatementsAtHome ==
  ASSUME NEW r, NEW d \in Conns, Statements(r, d), NEW w \in Workspaces,
         switch'[w] # switch[w] \/ \E i \in settled' \ settled : home[i] = w
  PROVE  conn[d].scope = w
<1>1. CASE insertWorkspace(r, d) \/ createDraft(r, d) \/ listPendingApprovals(r, d)
  BY <1>1 DEF insertWorkspace, createDraft, listPendingApprovals, tables
<1>2. CASE ensurePolicy(r, d)
  <2>1. /\ switch' = [switch EXCEPT ![call[r].workspace] = IF @ = None THEN FALSE ELSE @]
        /\ conn[d].scope = call[r].workspace /\ settled' = settled
    BY <1>2 DEF ensurePolicy, Passes
  <2>2. w # call[r].workspace => switch'[w] = switch[w]
    BY <2>1
  <2>3. QED
    BY <2>1, <2>2
<1>3. CASE setDispatchPaused(r, d)
  <2> DEFINE rows == {v \in Visible(d) : switch[v] # None}
  <2>1. /\ switch' = [v \in Workspaces |-> IF v \in rows THEN call[r].arg ELSE switch[v]]
        /\ \A v \in rows : conn[d].scope = v
        /\ settled' = settled
    BY <1>3 DEF setDispatchPaused, Passes
  <2>2. QED
    BY <2>1
<1>4. CASE actOn(r, d)
  <2>1. /\ switch' = switch
        /\ \/ settled' = settled
           \/ settled' = settled \cup {call[r].arg} /\ conn[d].scope = home[call[r].arg]
    BY <1>4 DEF actOn, Passes
  <2>2. QED
    BY <2>1
<1>5. QED
  BY <1>1, <1>2, <1>3, <1>4 DEF Statements

\* For either role, the switch and the items of a workspace change only by a call
\* in the transaction that it holds a connection of that workspace for
\* (0001_tenancy.sql:64-79): the update of governance-store.ts:182-186 names no
\* workspace, and the triggers stop it.
THEOREM RowsChangeAtHomeAlways == Spec => RowsChangeAtHome
<1> DEFINE Changed(w) == \/ switch'[w] # switch[w]
                         \/ \E i \in settled' \ settled : home[i] = w
           By(r, d) == at[r] = "work" /\ at'[r] # "work" /\ conn[d].holder = r
<1>1. ASSUME Pool, [Next]_vars PROVE
        [\A w \in Workspaces : Changed(w) =>
           \E r \in Calls, d \in Conns : By(r, d) /\ conn[d].scope = w]_<<switch, settled>>
  <2>1. \/ \E r \in Calls, d \in Conns : Work(r, d) \/ WorkUnheard(r, d)
        \/ UNCHANGED <<switch, settled>>
    <3>1. ASSUME NEW r \in Calls, Operate(r) \/ Deliver(r)
          PROVE  UNCHANGED <<switch, settled>>
      BY <3>1 DEF Operate, Deliver, signIn, mount, select, createWorkspace, toggleKillswitch,
                  saveDraft, refresh, decide, signedIn, wasListed, created, switchHeard,
                  draftSaved, refreshed, decided, Click, Over, Then, tables
    <3>2. ASSUME NEW r \in Calls, Progress(r) \/ Connect(r) \/ Mishap(r)
          PROVE  (\E d \in Conns : Work(r, d) \/ WorkUnheard(r, d)) \/ UNCHANGED <<switch, settled>>
      BY <3>2 DEF Progress, Connect, Mishap, Serve, upsertOperator, list, create,
                  Throw, Fault, Finish, Open, tables
    <3>3. CASE deselect \/ UNCHANGED vars
      BY <3>3 DEF deselect, vars, tenancyVars, tables
    <3>4. QED
      BY <1>1, <3>1, <3>2, <3>3 DEF Next
  <2>2. ASSUME NEW r \in Calls, NEW d \in Conns, Work(r, d) \/ WorkUnheard(r, d)
        PROVE  By(r, d) /\ Statements(r, d)
    BY <1>1, <2>2, StatementsHold DEF Work, WorkUnheard, Pool
  <2>3. ASSUME NEW r \in Calls, NEW d \in Conns, Statements(r, d), NEW w \in Workspaces, Changed(w)
        PROVE  conn[d].scope = w
    BY <2>3, StatementsAtHome
  <2> HIDE DEF Changed, By
  <2>4. QED
    BY <2>1, <2>2, <2>3 DEF Changed
<1>2. QED
  BY <1>1, PoolAlways, PTL DEF Spec, RowsChangeAtHome

-----------------------------------------------------------------------------
\* The calls.

\* A call fits its operation: its workspace, and what it was given.
Fits(op, w, arg) ==
  /\ op \in DOMAIN Steps
  /\ w \in Workspaces \cup {None}
  /\ op \in {"signin", "list"} => arg \in Users
  /\ op = "create" => arg \in [name: Names, owner: Users] /\ w = None
  /\ op \in {"read", "toggle", "draft", "inbox", "act"} => w \in Workspaces
  /\ op \in {"read", "draft", "inbox"} => arg = None
  /\ op = "toggle" => arg \in BOOLEAN
  /\ op = "act" => arg \in Items

\* What it may have said, by what is left of it.
Says(op, todo, said) ==
  /\ op = "signin" => said \in Users
  /\ op = "list" => said \subseteq Workspaces
  /\ op = "create" => said \in Workspaces
  /\ op \in {"read", "toggle"} => said \in Policies
  /\ op = "draft" => IF todo = <<>> THEN said \in Items ELSE said \in Policies
  /\ op = "inbox" => said \subseteq Items
  /\ op = "act" => said \in Items

\* A new workspace has an id from the moment that its name was looked for.
Fitting(c) ==
  IF c.op = "create" /\ c.todo # Steps["create"]
  THEN c.arg \in [name: Names, owner: Users] /\ c.workspace \in Workspaces
  ELSE Fits(c.op, c.workspace, c.arg)

IsCall(c) ==
  /\ c = [op |-> c.op, workspace |-> c.workspace, arg |-> c.arg, todo |-> c.todo, said |-> c.said]
  /\ c.op \in DOMAIN Steps /\ c.todo \in Left(c.op)
  /\ Fitting(c)
  /\ c.said = None \/ (c.todo # Steps[c.op] /\ Says(c.op, c.todo, c.said))

\* A call that stands somewhere has that much left.
CallOK(r) ==
  IF at[r] = "idle" THEN call[r] = None
  ELSE /\ IsCall(call[r])
       /\ at[r] \in {"ready", "work"} => call[r].todo # <<>>
       /\ at[r] = "answer" => call[r].said = None \/ call[r].todo = <<>>
       /\ at[r] \in {"ready", "work", "done"} /\ call[r].op = "toggle" /\ call[r].todo # Steps["toggle"]
            => call[r].said \in Policies

Carried == \A r \in Calls : CallOK(r)

\* The types of the tables, the sessions and the shell.
Tables ==
  /\ role \in Roles
  /\ operators \subseteq Users
  /\ workspaces \in [Workspaces -> [name: Names, owner: Users] \cup {None}]
  /\ switch \in [Workspaces -> BOOLEAN \cup {None}]
  /\ home \in [Items -> Workspaces \cup {None}]
  /\ settled \subseteq {i \in Items : home[i] # None}

Sessions ==
  /\ \A d \in Conns : conn[d].scope \in Workspaces \cup {None}
  /\ faults \in 0..MaxFaults

Shell ==
  /\ user \in Users \cup {None}
  /\ listed \subseteq Workspaces
  /\ {selected, stored} \subseteq Workspaces \cup {None}
  /\ shown \in BOOLEAN
  /\ shelf \subseteq Items

\* A page's calls are made with a workspace stored.
Paged == stored = None => \A r \in Calls : at[r] # "idle" => call[r].op \notin {"draft", "inbox", "act"}

Typed == Pool /\ Carried /\ Tables /\ Sessions /\ Shell /\ Paged

-----------------------------------------------------------------------------
\* What the properties need.

\* For scriora_app, a call has only said what is of its own workspace.
OwnCall(r) ==
  at[r] # "idle" /\ call[r].said # None =>
    /\ call[r].op \in {"read", "toggle"} => call[r].said.workspace = call[r].workspace
    /\ call[r].op = "inbox" => \A i \in call[r].said : home[i] = call[r].workspace

Own == role = "scriora_app" => \A r \in Calls : OwnCall(r)

\* Creations are one at a time; one that found its name free still finds it free.
Creating(r) == at[r] # "idle" /\ call[r].op = "create"

Named ==
  SerialCreate /\ role = "postgres" =>
    /\ \A q, r \in Calls : Creating(q) /\ Creating(r) => q = r
    /\ \A r \in Calls : Creating(r) /\ call[r].todo \notin {Steps["create"], <<>>} =>
         \A w \in Workspaces : workspaces[w] # None => workspaces[w].name # call[r].arg.name
    /\ \A v, w \in Workspaces : v # w /\ workspaces[v] # None /\ workspaces[w] # None
         => workspaces[v].name # workspaces[w].name

\* A call about the switch.
About(r) == at[r] # "idle" /\ call[r].op \in {"read", "toggle"}

\* It has found its row, and at its end says what the row holds.
Known(r) ==
  LET c == call[r] IN
  /\ c.todo # Steps[c.op] => switch[c.workspace] # None
  /\ c.todo = <<>> /\ c.said # None => c.said.paused = switch[c.workspace]

\* For scriora_app, with no doubt there is one such call at most; it is about
\* the workspace that is selected, and without it the button shows the switch.
Showing ==
  role = "scriora_app" /\ ~doubt =>
    /\ \A q, r \in Calls : About(q) /\ About(r) => q = r
    /\ \A r \in Calls : About(r) => Known(r)
    /\ selected # None =>
         /\ \A r \in Calls : About(r) => call[r].workspace = selected
         /\ (\A r \in Calls : ~About(r)) => switch[selected] # None /\ shown = switch[selected]

-----------------------------------------------------------------------------
\* The steps of a call.

LEMMA Operations ==
  DOMAIN Steps = {"signin", "list", "create", "read", "toggle", "draft", "inbox", "act"}
BY DEF Steps

LEMMA Pairs ==
  /\ \A a : Head(<<a>>) = a /\ Tail(<<a>>) = <<>> /\ <<a>> # <<>>
  /\ \A a, b : Head(<<a, b>>) = a /\ Tail(<<a, b>>) = <<b>> /\ <<a, b>> # <<>>
  /\ \A a, b, c : <<a, b>> # <<c>>
OBVIOUS

\* Every step belongs to its operation, and is the last one or not.
LEMMA StepsOf ==
  ASSUME NEW op \in DOMAIN Steps, NEW todo \in Left(op), todo # <<>>
  PROVE  /\ Tail(todo) \in Left(op) /\ Tail(todo) # Steps[op]
         /\ Head(todo) = "upsert" => op = "signin" /\ Tail(todo) = <<>>
         /\ Head(todo) = "list" => op = "list" /\ Tail(todo) = <<>>
         /\ Head(todo) = "check" => op = "create" /\ todo = Steps[op] /\ Tail(todo) # <<>>
         /\ Head(todo) = "insert" => op = "create" /\ todo # Steps[op] /\ Tail(todo) = <<>>
         /\ Head(todo) = "ensure" => /\ op \in {"read", "toggle", "draft"} /\ todo = Steps[op]
                                     /\ (op = "read" <=> Tail(todo) = <<>>)
         /\ Head(todo) = "update" => op = "toggle" /\ todo # Steps[op] /\ Tail(todo) = <<>>
         /\ Head(todo) = "draft" => op = "draft" /\ Tail(todo) = <<>>
         /\ Head(todo) = "inbox" => op = "inbox" /\ Tail(todo) = <<>>
         /\ Head(todo) = "act" => op = "act" /\ Tail(todo) = <<>>
<1>1. \/ op = "signin" /\ Steps[op] = <<"upsert">>
      \/ op = "list" /\ Steps[op] = <<"list">>
      \/ op = "create" /\ Steps[op] = <<"check", "insert">>
      \/ op = "read" /\ Steps[op] = <<"ensure">>
      \/ op = "toggle" /\ Steps[op] = <<"ensure", "update">>
      \/ op = "draft" /\ Steps[op] = <<"ensure", "draft">>
      \/ op = "inbox" /\ Steps[op] = <<"inbox">>
      \/ op = "act" /\ Steps[op] = <<"act">>
  BY Operations DEF Steps
<1>2. ASSUME NEW a, Steps[op] = <<a>>
      PROVE  todo = Steps[op] /\ Head(todo) = a /\ Tail(todo) = <<>> /\ Tail(todo) # Steps[op]
  BY <1>2, Pairs DEF Left
<1>3. ASSUME NEW a, NEW b, Steps[op] = <<a, b>>
      PROVE  /\ Tail(todo) # Steps[op]
             /\ \/ todo = Steps[op] /\ Head(todo) = a /\ Tail(todo) = <<b>> /\ <<b>> # <<>>
                \/ todo # Steps[op] /\ Head(todo) = b /\ Tail(todo) = <<>>
  <2>1. todo \in {<<a, b>>, <<b>>}
    BY <1>3, Pairs DEF Left
  <2>2. CASE todo = <<a, b>>
    BY <1>3, <2>2, Pairs
  <2>3. CASE todo = <<b>>
    BY <1>3, <2>3, Pairs
  <2>4. QED BY <2>1, <2>2, <2>3
<1>4. Tail(todo) \in Left(op)
  BY <1>1, <1>2, <1>3, Pairs DEF Left
<1>5. QED
  BY <1>1, <1>2, <1>3, <1>4

LEMMA Begins == \A op \in DOMAIN Steps : Steps[op] \in Left(op) /\ Steps[op] # <<>>
BY Operations, Pairs DEF Steps, Left

-----------------------------------------------------------------------------
\* The calls keep their form.

LEMMA NotNone == ASSUME NEW c, IsCall(c) PROVE c # None
<1>1. c.workspace \in Workspaces \cup {None} /\ c.arg \in Args
  BY Operations DEF IsCall, Fitting, Fits, Args
<1>2. c.said \in Answers
  <2>1. \/ c.said \in Users \/ c.said \subseteq Workspaces \/ c.said \in Workspaces
        \/ c.said \in Policies \/ c.said \subseteq Items \/ c.said \in Items \/ c.said = None
    BY Operations DEF IsCall, Says
  <2>2. QED BY <2>1 DEF Answers
<1>3. c.todo \in UNION {Left(op) : op \in DOMAIN Steps}
  BY DEF IsCall
<1>4. c \in Requests
  BY <1>1, <1>2, <1>3 DEF IsCall, Requests
<1>5. QED BY <1>4, TenancyAssumption

\* The others are as they were.
Alone(r) == \A q \in Calls \ {r} : at'[q] = at[q] /\ call'[q] = call[q]

LEMMA AloneKeeps ==
  ASSUME Carried, NEW r \in Calls, Alone(r), CallOK(r)' PROVE Carried'
BY DEF Carried, CallOK, Alone

LEMMA SendGives ==
  ASSUME Pool, Carried, NEW r \in Calls, NEW op, NEW w, NEW arg, Fits(op, w, arg), Send(r, op, w, arg)
  PROVE  /\ Carried' /\ Alone(r)
         /\ at'[r] = "ready" /\ call'[r] = Call(op, w, arg)
<1>1. at'[r] = "ready" /\ call'[r] = Call(op, w, arg) /\ Alone(r)
  BY DEF Send, Pool, Alone
<1>2. IsCall(Call(op, w, arg)) /\ Call(op, w, arg).todo = Steps[op] /\ Steps[op] # <<>>
  BY Begins DEF Call, IsCall, Fitting, Fits
<1>3. CallOK(r)'
  BY <1>1, <1>2 DEF CallOK, Call
<1>4. QED BY <1>1, <1>3, AloneKeeps

LEMMA OverGives ==
  ASSUME Pool, Carried, NEW r \in Calls, Over(r)
  PROVE  Carried' /\ Alone(r) /\ at'[r] = "idle" /\ call'[r] = None
<1>1. at'[r] = "idle" /\ call'[r] = None /\ Alone(r)
  BY DEF Over, Pool, Alone
<1>2. CallOK(r)'
  BY <1>1 DEF CallOK
<1>3. QED BY <1>1, <1>2, AloneKeeps

\* A step that is done takes one from what is left.
LEMMA SayGives ==
  ASSUME Pool, Carried, NEW r \in Calls, at[r] \in {"ready", "work"}, NEW x, Say(r, x)
  PROVE  /\ call'[r] = [op |-> call[r].op, workspace |-> call[r].workspace, arg |-> call[r].arg,
                        todo |-> Tail(call[r].todo), said |-> x]
         /\ \A q \in Calls \ {r} : call'[q] = call[q]
<1>1. IsCall(call[r])
  BY DEF Carried, CallOK
<1>2. QED BY <1>1 DEF Say, IsCall, Pool

LEMMA SayTyped ==
  ASSUME Pool, Carried, NEW r \in Calls, at[r] \in {"ready", "work"}, NEW x, Say(r, x),
         NEW s \in {"done", "failed", "answer"}, at' = [at EXCEPT ![r] = s],
         x = None \/ Says(call[r].op, Tail(call[r].todo), x),
         call[r].op = "create" => call[r].todo # Steps["create"],
         call[r].op = "toggle" => x \in Policies,
         s = "answer" => Tail(call[r].todo) = <<>>
  PROVE  Carried' /\ Alone(r)
<1> DEFINE c == call[r]
<1>1. IsCall(c) /\ c.todo # <<>>
  BY DEF Carried, CallOK
<1>2. Tail(c.todo) \in Left(c.op) /\ Tail(c.todo) # Steps[c.op]
  BY <1>1, StepsOf DEF IsCall
<1>3. /\ call'[r] = [op |-> c.op, workspace |-> c.workspace, arg |-> c.arg, todo |-> Tail(c.todo), said |-> x]
      /\ at'[r] = s /\ Alone(r)
  BY SayGives DEF Pool, Alone
<1>4. IsCall(call'[r])
  BY <1>1, <1>2, <1>3 DEF IsCall, Fitting
<1>5. CallOK(r)'
  BY <1>3, <1>4 DEF CallOK
<1>6. QED BY <1>3, <1>5, AloneKeeps

-----------------------------------------------------------------------------
\* The statements.

\* A call at a step of a list has that step, of its operation, at its head.
LEMMA AtStep ==
  ASSUME Carried, NEW r \in Calls, at[r] \in {"ready", "work"}
  PROVE  /\ IsCall(call[r]) /\ call[r].todo # <<>>
         /\ call[r].op \in DOMAIN Steps /\ call[r].todo \in Left(call[r].op)
BY DEF Carried, CallOK, IsCall

\* A statement says what its operation may say, and leaves the tables typed.
LEMMA StatementTyped ==
  ASSUME Typed, NEW r \in Calls, NEW d \in Conns, Statements(r, d), UNCHANGED role
  PROVE  /\ Tables'
         /\ \E x : /\ Say(r, x)
                   /\ x = None \/ Says(call[r].op, Tail(call[r].todo), x)
                   /\ call[r].op = "create" => call[r].todo # Steps["create"]
                   /\ call[r].op = "toggle" => x \in Policies
<1> DEFINE c == call[r]
<1>1. /\ at[r] = "work" /\ IsCall(c) /\ c.todo # <<>>
      /\ c.op \in DOMAIN Steps /\ c.todo \in Left(c.op)
  BY StatementsHold, AtStep DEF Typed
<1>3. Visible(d) \subseteq Workspaces
  BY DEF Visible
<1>4. CASE insertWorkspace(r, d)
  <2>1. c.op = "create" /\ c.todo # Steps[c.op] /\ Say(r, c.workspace)
    BY <1>1, <1>4, StepsOf DEF insertWorkspace, Working
  <2>2. c.workspace \in Workspaces /\ c.arg \in [name: Names, owner: Users]
    BY <1>1, <2>1 DEF IsCall, Fitting
  <2>3. Says(c.op, Tail(c.todo), c.workspace)
    BY <2>1, <2>2 DEF Says
  <2>4. Tables'
    BY <1>4, <2>2 DEF insertWorkspace, Typed, Tables
  <2>5. QED BY <2>1, <2>3, <2>4
<1>5. CASE ensurePolicy(r, d)
  <2>1. c.op \in {"read", "toggle", "draft"} /\ (c.op = "draft" => Tail(c.todo) # <<>>)
    BY <1>1, <1>5, StepsOf DEF ensurePolicy, Working
  <2> DEFINE w == c.workspace
             policies == [switch EXCEPT ![w] = IF @ = None THEN FALSE ELSE @]
  <2>2. /\ switch' = policies /\ UNCHANGED <<operators, workspaces, home, settled>>
        /\ \E v \in Visible(d) : policies[v] # None /\ Say(r, [workspace |-> v, paused |-> policies[v]])
    BY <1>5 DEF ensurePolicy
  <2>3. policies \in [Workspaces -> BOOLEAN \cup {None}]
    BY DEF Typed, Tables
  <2>4. PICK v \in Workspaces : policies[v] \in BOOLEAN /\ Say(r, [workspace |-> v, paused |-> policies[v]])
    BY <1>3, <2>2, <2>3
  <2>5. [workspace |-> v, paused |-> policies[v]] \in Policies
    BY <2>4 DEF Policies
  <2>6. Tables'
    BY <2>2, <2>3 DEF Typed, Tables
  <2> HIDE DEF policies
  <2>7. QED BY <2>1, <2>4, <2>5, <2>6 DEF Says
<1>6. CASE setDispatchPaused(r, d)
  <2>1. c.op = "toggle" /\ c.todo # Steps[c.op]
    BY <1>1, <1>6, StepsOf DEF setDispatchPaused, Working
  <2>2. c.arg \in BOOLEAN /\ c.said \in Policies
    BY <1>1, <2>1 DEF IsCall, Fitting, Fits, Typed, Carried, CallOK
  <2>3. [workspace |-> c.said.workspace, paused |-> c.arg] \in Policies
    BY <2>2 DEF Policies
  <2>4. Tables'
    BY <1>6, <2>2 DEF setDispatchPaused, Typed, Tables
  <2>5. Say(r, [workspace |-> c.said.workspace, paused |-> c.arg])
    BY <1>6 DEF setDispatchPaused
  <2>6. QED BY <2>1, <2>3, <2>4, <2>5 DEF Says
<1>7. CASE createDraft(r, d)
  <2>1. c.op = "draft" /\ Tail(c.todo) = <<>>
    BY <1>1, <1>7, StepsOf DEF createDraft, Working
  <2>2. c.workspace \in Workspaces
    BY <1>1, <2>1 DEF IsCall, Fitting, Fits
  <2>3. PICK i \in Items : home' = [home EXCEPT ![i] = c.workspace] /\ Say(r, i)
    BY <1>7 DEF createDraft
  <2>4. Tables'
    BY <1>7, <2>2, <2>3, NoneApart DEF createDraft, Typed, Tables
  <2>5. QED BY <2>1, <2>3, <2>4 DEF Says
<1>8. CASE listPendingApprovals(r, d)
  <2>1. c.op = "inbox"
    BY <1>1, <1>8, StepsOf DEF listPendingApprovals, Working
  <2>2. Tables'
    BY <1>8 DEF listPendingApprovals, tables, Typed, Tables
  <2>3. Say(r, {i \in Items : home[i] \in Visible(d)})
    BY <1>8 DEF listPendingApprovals
  <2>4. QED BY <2>1, <2>2, <2>3 DEF Says
<1>9. CASE actOn(r, d)
  <2>1. c.op = "act"
    BY <1>1, <1>9, StepsOf DEF actOn, Working
  <2>2. c.arg \in Items
    BY <1>1, <2>1 DEF IsCall, Fitting, Fits
  <2>3. \E x \in {c.arg, None} : Say(r, x)
    BY <1>9 DEF actOn
  <2>4. Tables'
    BY <1>3, <1>9, <2>2, NoneApart DEF actOn, Typed, Tables
  <2>5. QED BY <2>1, <2>2, <2>3, <2>4 DEF Says
<1>10. QED BY <1>4, <1>5, <1>6, <1>7, <1>8, <1>9 DEF Statements

-----------------------------------------------------------------------------
\* Every step keeps the types.

LEMMA SessionsKept ==
  ASSUME Typed, NEW d \in Conns, NEW x, conn' = [conn EXCEPT ![d] = x],
         x.scope \in Workspaces \cup {None}, faults' \in 0..MaxFaults
  PROVE  Sessions'
BY DEF Typed, Pool, Sessions

LEMMA FaultsCounted ==
  ASSUME Typed, \/ faults' = faults
                \/ faults < MaxFaults /\ faults' = faults + 1
  PROVE  faults' \in 0..MaxFaults
BY TenancyAssumption DEF Typed, Sessions

\* The steps of the API.
LEMMA QueryTyped ==
  ASSUME Typed, NEW r \in Calls, NEW d \in Conns,
         upsertOperator(r, d) \/ list(r, d) \/ create(r, d)
  PROVE  Carried' /\ Tables' /\ Sessions'
<1> DEFINE c == call[r]
<1>1. /\ at[r] = "ready" /\ UNCHANGED <<conn, faults>>
      /\ IsCall(c) /\ c.todo # <<>> /\ c.op \in DOMAIN Steps /\ c.todo \in Left(c.op)
  BY AtStep DEF upsertOperator, list, create, Query, Typed
<1>2. Sessions'
  BY <1>1 DEF Typed, Sessions
<1>3. CASE upsertOperator(r, d)
  <2>1. c.op = "signin" /\ Tail(c.todo) = <<>>
    BY <1>1, <1>3, StepsOf DEF upsertOperator, Query
  <2>2. c.arg \in Users /\ Says(c.op, Tail(c.todo), c.arg)
    BY <1>1, <2>1 DEF IsCall, Fitting, Fits, Says
  <2>3. Carried'
    BY <1>1, <1>3, <2>1, <2>2, SayTyped DEF upsertOperator, Answered, Typed
  <2>4. Tables'
    BY <1>3, <2>2 DEF upsertOperator, Typed, Tables
  <2>5. QED BY <1>2, <2>3, <2>4
<1>4. CASE list(r, d)
  <2>1. c.op = "list" /\ Tail(c.todo) = <<>>
    BY <1>1, <1>4, StepsOf DEF list, Query
  <2>2. PICK x \in SUBSET Workspaces : Say(r, x)
    BY <1>4 DEF list, Visible
  <2>3. Says(c.op, Tail(c.todo), x)
    BY <2>1, <2>2 DEF Says
  <2>4. Carried'
    BY <1>1, <1>4, <2>1, <2>2, <2>3, SayTyped DEF list, Answered, Typed
  <2>5. Tables'
    BY <1>4 DEF list, tables, Typed, Tables
  <2>6. QED BY <1>2, <2>4, <2>5
<1>5. CASE create(r, d)
  <2>1. c.op = "create" /\ c.todo = Steps[c.op] /\ Tail(c.todo) # <<>>
        /\ Tail(c.todo) \in Left(c.op) /\ Tail(c.todo) # Steps[c.op]
    BY <1>1, <1>5, StepsOf DEF create, Query
  <2>2. c.said = None /\ c.arg \in [name: Names, owner: Users]
    BY <1>1, <2>1 DEF IsCall, Fitting, Fits
  <2>3. Tables'
    BY <1>5 DEF create, tables, Typed, Tables
  <2>4. CASE Answered(r) /\ UNCHANGED call
    <3>1. at'[r] = "answer" /\ Alone(r)
      BY <2>4 DEF Answered, Alone, Typed, Pool
    <3>2. CallOK(r)'
      BY <1>1, <2>2, <2>4, <3>1 DEF CallOK
    <3>3. QED BY <1>2, <2>3, <3>1, <3>2, AloneKeeps DEF Typed
  <2>5. ASSUME NEW w \in Workspaces, UNCHANGED at,
               call' = [call EXCEPT ![r].workspace = w, ![r].todo = Tail(@)]
        PROVE  Carried'
    <3>1. /\ call'[r] = [op |-> c.op, workspace |-> w, arg |-> c.arg, todo |-> Tail(c.todo), said |-> c.said]
          /\ Alone(r)
      BY <1>1, <2>5 DEF IsCall, Typed, Pool, Alone
    <3>2. IsCall(call'[r])
      <4> DEFINE c2 == call'[r]
      <4>1. /\ c2 = [op |-> c.op, workspace |-> w, arg |-> c.arg, todo |-> Tail(c.todo), said |-> c.said]
            /\ c2.op = c.op /\ c2.workspace = w /\ c2.arg = c.arg
            /\ c2.todo = Tail(c.todo) /\ c2.said = None
        BY <2>2, <3>1
      <4>2. Fitting(c2)
        BY <2>1, <2>2, <2>5, <4>1 DEF Fitting
      <4> HIDE DEF c2
      <4>3. IsCall(c2)
        BY <1>1, <2>1, <4>1, <4>2 DEF IsCall
      <4>4. QED BY <4>3 DEF c2
    <3>3. CallOK(r)'
      BY <1>1, <2>1, <2>5, <3>1, <3>2 DEF CallOK
    <3>4. QED BY <3>1, <3>3, AloneKeeps DEF Typed
  <2>6. QED BY <1>2, <1>5, <2>3, <2>4, <2>5 DEF create
<1>6. QED BY <1>3, <1>4, <1>5

LEMMA WorkTyped ==
  ASSUME Typed, NEW r \in Calls, NEW d \in Conns, Work(r, d) \/ WorkUnheard(r, d)
  PROVE  Carried' /\ Tables' /\ Sessions'
<1>1. Statements(r, d) /\ UNCHANGED role /\ at[r] = "work" /\ conn[d].holder = r
  BY StatementsHold DEF Work, WorkUnheard
<1>2. PICK x : /\ Say(r, x)
               /\ x = None \/ Says(call[r].op, Tail(call[r].todo), x)
               /\ call[r].op = "create" => call[r].todo # Steps["create"]
               /\ call[r].op = "toggle" => x \in Policies
  BY <1>1, StatementTyped
<1>3. PICK s \in {"done", "failed"} : at' = [at EXCEPT ![r] = s]
  BY DEF Work, WorkUnheard
<1>4. Carried'
  BY <1>1, <1>2, <1>3, SayTyped DEF Typed
<1>5. PICK y : conn' = [conn EXCEPT ![d] = y] /\ y.scope \in {None, conn[d].scope}
  <2>1. IsSession(conn[d])
    BY DEF Typed, Pool
  <2>2. committed(conn[d]).scope = None
    BY <2>1, SessionEnded DEF committed
  <2>3. [conn[d] EXCEPT !.broken = TRUE].scope = conn[d].scope
    BY <2>1 DEF IsSession, Session
  <2>4. QED BY <2>2, <2>3 DEF Work, WorkUnheard
<1>6. faults' \in 0..MaxFaults
  BY FaultsCounted DEF Work, WorkUnheard
<1>7. Sessions'
  BY <1>5, <1>6, SessionsKept DEF Typed, Sessions
<1>8. QED BY <1>1, <1>4, <1>7, StatementTyped

LEMMA OpenTyped ==
  ASSUME Typed, NEW r \in Calls, NEW d \in Conns, Open(r, d)
  PROVE  Carried' /\ Tables' /\ Sessions'
<1> DEFINE c == call[r]
<1>1. /\ at[r] = "ready" /\ UNCHANGED <<role, tables, call, faults>>
      /\ at' = [at EXCEPT ![r] = "work"]
  BY DEF Open
<1>2. IsCall(c) /\ c.todo # <<>> /\ c.op \in DOMAIN Steps /\ c.todo \in Left(c.op)
  BY <1>1, AtStep DEF Typed
<1>3. at'[r] = "work" /\ Alone(r)
  BY <1>1 DEF Alone, Typed, Pool
<1>4. CallOK(r)'
  BY <1>1, <1>2, <1>3 DEF CallOK, Typed, Carried
<1>5. c.workspace \in Workspaces \cup {None}
  BY <1>2 DEF IsCall, Fitting, Fits
<1>6. Sessions'
  BY <1>1, <1>5, SessionsKept, FaultsCounted DEF Open
<1>7. QED BY <1>1, <1>3, <1>4, <1>6, AloneKeeps DEF Typed, Tables, tables

LEMMA FailureTyped ==
  ASSUME Typed, NEW r \in Calls, NEW d \in Conns, Throw(r, d) \/ Fault(r, d)
  PROVE  Carried' /\ Tables' /\ Sessions'
<1>1. at[r] = "work" /\ at' = [at EXCEPT ![r] = "failed"] /\ UNCHANGED <<role, tables, call>>
  BY DEF Throw, Refused, Working, Fault
<1>2. at'[r] = "failed" /\ Alone(r)
  BY <1>1 DEF Alone, Typed, Pool
<1>3. CallOK(r)'
  BY <1>1, <1>2 DEF CallOK, Typed, Carried
<1>4. Sessions'
  <2>1. faults' \in 0..MaxFaults
    BY FaultsCounted DEF Throw, Fault
  <2>2. CASE conn' = conn
    BY <2>1, <2>2 DEF Typed, Sessions
  <2>3. ASSUME NEW lost \in BOOLEAN, conn' = [conn EXCEPT ![d].broken = lost] PROVE Sessions'
    <3>1. IsSession(conn[d])
      BY DEF Typed, Pool
    <3>2. [conn[d] EXCEPT !.broken = lost].scope = conn[d].scope
      BY <3>1 DEF IsSession, Session
    <3>3. QED BY <2>1, <2>3, <3>2, SessionsKept DEF Typed, Sessions
  <2>4. QED BY <2>2, <2>3 DEF Throw, Fault
<1>5. QED BY <1>1, <1>2, <1>3, <1>4, AloneKeeps DEF Typed, Tables, tables

LEMMA FinishTyped ==
  ASSUME Typed, NEW r \in Calls, NEW d \in Conns, Finish(r, d)
  PROVE  Carried' /\ Tables' /\ Sessions'
<1>1. /\ at[r] \in {"done", "failed"} /\ conn[d].holder = r /\ Proceed(r)
      /\ UNCHANGED <<role, tables, faults>>
  BY DEF Finish
<1>2. Sessions'
  <2>1. \A e \in Conns : conn'[e].scope \in {None, conn[e].scope}
    <3>1. Fresh.scope = None
      BY DEF Fresh
    <3>2. \A e \in Conns : conn'[e] = conn[e] \/ conn'[e] = Fresh
      BY FinishFresh DEF Typed
    <3>3. QED BY <3>1, <3>2
  <2>2. QED BY <1>1, <2>1 DEF Typed, Sessions
<1>3. Alone(r)
  BY <1>1 DEF Proceed, Answered, Alone, Typed, Pool
<1>4. IsCall(call[r])
  BY <1>1 DEF Typed, Carried, CallOK
<1>5. CallOK(r)'
  <2>1. CASE at[r] = "failed"
    <3>1. at'[r] = "answer" /\ call' = [call EXCEPT ![r].said = None]
      BY <1>1, <2>1 DEF Proceed, Answered, Typed, Pool
    <3>2. call'[r] = [op |-> call[r].op, workspace |-> call[r].workspace, arg |-> call[r].arg,
                      todo |-> call[r].todo, said |-> None]
      BY <1>4, <3>1 DEF IsCall, Typed, Pool
    <3>3. IsCall(call'[r])
      BY <1>4, <3>2 DEF IsCall, Fitting
    <3>4. QED BY <3>1, <3>2, <3>3 DEF CallOK
  <2>2. CASE at[r] = "done"
    <3>1. call' = call /\ at'[r] = IF call[r].todo = <<>> THEN "answer" ELSE "ready"
      BY <1>1, <2>2 DEF Proceed, Typed, Pool
    <3>2. QED BY <2>2, <3>1 DEF CallOK, Typed, Carried
  <2>3. QED BY <1>1, <2>1, <2>2
<1>6. QED BY <1>1, <1>2, <1>3, <1>5, AloneKeeps DEF Typed, Tables, tables

\* A call that is served stays what it is.
Goes ==
  \A q \in Calls : /\ at'[q] = "idle" <=> at[q] = "idle"
                   /\ at[q] # "idle" => call'[q].op = call[q].op /\ call'[q].arg = call[q].arg
                   /\ at[q] # "idle" /\ call[q].op # "create" => call'[q].workspace = call[q].workspace

SameRequest(r) ==
  /\ \A q \in Calls : q # r => call'[q] = call[q]
  /\ call'[r].op = call[r].op /\ call'[r].arg = call[r].arg
  /\ call[r].op # "create" => call'[r].workspace = call[r].workspace

\* A step of the API.
Api(r, d) ==
  \/ upsertOperator(r, d) \/ list(r, d) \/ create(r, d) \/ Open(r, d) \/ Work(r, d)
  \/ WorkUnheard(r, d) \/ Throw(r, d) \/ Fault(r, d) \/ Finish(r, d)

LEMMA ServedGoes ==
  ASSUME Typed, NEW r \in Calls, NEW d \in Conns, Api(r, d)
  PROVE  Goes /\ SameRequest(r) /\ \A q \in Calls \ {r} : at'[q] = at[q]
<1> USE DEF Api
<1> DEFINE c == call[r]
<1>1. at[r] # "idle" /\ IsCall(c)
  <2>1. at[r] # "idle"
    BY StatementsHold DEF upsertOperator, list, create, Query, Open, Work, WorkUnheard, Throw,
                          Refused, Working, Fault, Finish
  <2>2. QED BY <2>1 DEF Typed, Carried, CallOK
<1>2. \A q \in Calls : q # r => at'[q] = at[q]
  BY DEF upsertOperator, list, create, Query, Open, Work, WorkUnheard, Throw, Fault, Finish,
         Answered, Proceed, Typed, Pool
<1>3. at'[r] # "idle"
  BY <1>1 DEF upsertOperator, list, create, Query, Open, Work, WorkUnheard, Throw, Fault, Finish,
         Answered, Proceed, Typed, Pool
<1>4. \/ UNCHANGED call
      \/ \E w : call' = [call EXCEPT ![r].workspace = w, ![r].todo = Tail(@)] /\ c.op = "create"
      \/ call' = [call EXCEPT ![r].said = None]
      \/ \E x : Say(r, x)
  <2>1. create(r, d) => c.op = "create"
    BY AtStep, StepsOf DEF create, Query, Typed
  <2>2. QED
    BY <2>1, StatementsHold DEF upsertOperator, list, create, Open, Work, WorkUnheard, Throw, Fault,
                                Finish, Proceed
<1>5. SameRequest(r)
  <2>1. call = [q \in Calls |-> call[q]]
    BY DEF Typed, Pool
  <2>2. c = [op |-> c.op, workspace |-> c.workspace, arg |-> c.arg, todo |-> c.todo, said |-> c.said]
    BY <1>1 DEF IsCall
  <2>3. ASSUME NEW x, Say(r, x)
        PROVE  SameRequest(r)
    BY <2>1, <2>2, <2>3 DEF Say, SameRequest
  <2>4. ASSUME NEW w, call' = [call EXCEPT ![r].workspace = w, ![r].todo = Tail(@)],
               c.op = "create"
        PROVE  SameRequest(r)
    BY <2>1, <2>2, <2>4 DEF SameRequest
  <2>5. ASSUME call' = [call EXCEPT ![r].said = None]
        PROVE  SameRequest(r)
    BY <2>1, <2>2, <2>5 DEF SameRequest
  <2>6. QED BY <1>4, <2>1, <2>3, <2>4, <2>5 DEF SameRequest
<1>6. QED BY <1>1, <1>2, <1>3, <1>5 DEF Goes, SameRequest

\* The steps of the web interface.
LEMMA Untouched ==
  ASSUME Typed, UNCHANGED <<role, tables, conn, faults>> PROVE Tables' /\ Sessions'
BY DEF Typed, Tables, Sessions, tables

LEMMA ClickGives ==
  ASSUME Typed, NEW r \in Calls, NEW op, NEW w, NEW arg, Fits(op, w, arg), Click(r, op, w, arg)
  PROVE  /\ Carried' /\ Tables' /\ Sessions' /\ Alone(r)
         /\ at'[r] = "ready" /\ call'[r] = Call(op, w, arg)
BY SendGives, Untouched DEF Click, Typed

\* What each of them asks for fits its operation.
LEMMA OperateTyped ==
  ASSUME Typed, NEW r \in Calls, Operate(r)
  PROVE  Carried' /\ Tables' /\ Sessions' /\ Shell'
<1> USE Operations
<1>1. ASSUME NEW u \in Users, signIn(r, u) PROVE Carried' /\ Tables' /\ Sessions' /\ Shell'
  <2>1. Fits("signin", None, u)
    BY DEF Fits
  <2>2. QED BY <1>1, <2>1, ClickGives DEF signIn, shell, Typed, Shell
<1>2. ASSUME NEW q \in Calls, mount(r, q) PROVE Carried' /\ Tables' /\ Sessions' /\ Shell'
  <2>1. /\ r # q /\ user \in Users /\ stored \in Workspaces
        /\ at' = [at EXCEPT ![r] = "ready", ![q] = "ready"]
        /\ call' = [call EXCEPT ![r] = Call("list", None, user), ![q] = Call("read", stored, None)]
        /\ UNCHANGED <<role, tables, conn, faults>>
    BY <1>2 DEF mount, Typed, Shell
  <2>2. Fits("list", None, user) /\ Fits("read", stored, None)
    BY <2>1 DEF Fits
  <2>3. ASSUME NEW op, NEW w, NEW arg, Fits(op, w, arg)
        PROVE  IsCall(Call(op, w, arg)) /\ Call(op, w, arg).todo = Steps[op] /\ Steps[op] # <<>>
               /\ Call(op, w, arg).op = op
    BY <2>3, Begins DEF Call, IsCall, Fitting, Fits
  <2>4. ASSUME NEW p \in Calls PROVE CallOK(p)'
    <3>1. CASE p = r
      <4>1. at'[p] = "ready" /\ call'[p] = Call("list", None, user)
        BY <2>1, <3>1 DEF Typed, Pool
      <4>2. QED BY <2>2, <2>3, <4>1 DEF CallOK
    <3>2. CASE p = q
      <4>1. at'[p] = "ready" /\ call'[p] = Call("read", stored, None)
        BY <2>1, <3>2 DEF Typed, Pool
      <4>2. QED BY <2>2, <2>3, <4>1 DEF CallOK
    <3>3. CASE p \notin {q, r}
      <4>1. at'[p] = at[p] /\ call'[p] = call[p]
        BY <2>1, <3>3 DEF Typed, Pool
      <4>2. QED BY <4>1 DEF CallOK, Typed, Carried
    <3>4. QED BY <3>1, <3>2, <3>3
  <2>5. Shell'
    BY <1>2 DEF mount, Typed, Shell
  <2>6. QED BY <2>1, <2>4, <2>5, Untouched DEF Carried
<1>3. ASSUME NEW w \in listed, select(r, w) PROVE Carried' /\ Tables' /\ Sessions' /\ Shell'
  <2>1. w \in Workspaces /\ Fits("read", w, None)
    BY DEF Fits, Typed, Shell
  <2>2. QED BY <1>3, <2>1, ClickGives DEF select, Selected, Typed, Shell
<1>4. ASSUME NEW n \in Names, createWorkspace(r, n) PROVE Carried' /\ Tables' /\ Sessions' /\ Shell'
  <2>1. Fits("create", None, [name |-> n, owner |-> user])
    BY <1>4 DEF createWorkspace, Fits, Typed, Shell
  <2>2. QED BY <1>4, <2>1, ClickGives DEF createWorkspace, shell, Typed, Shell
<1>5. ASSUME toggleKillswitch(r) PROVE Carried' /\ Tables' /\ Sessions' /\ Shell'
  <2>1. Fits("toggle", selected, ~shown)
    BY <1>5 DEF toggleKillswitch, Fits, Typed, Shell
  <2>2. QED BY <1>5, <2>1, ClickGives DEF toggleKillswitch, Typed, Shell
<1>6. ASSUME saveDraft(r) \/ refresh(r) PROVE Carried' /\ Tables' /\ Sessions' /\ Shell'
  <2>1. Fits("draft", stored, None) /\ Fits("inbox", stored, None)
    BY <1>6 DEF saveDraft, refresh, Fits, Typed, Shell
  <2>2. QED BY <1>6, <2>1, ClickGives DEF saveDraft, refresh, shell, Typed, Shell
<1>7. ASSUME NEW i \in shelf, decide(r, i) PROVE Carried' /\ Tables' /\ Sessions' /\ Shell'
  <2>1. Fits("act", stored, i)
    BY <1>7 DEF decide, Fits, Typed, Shell
  <2>2. QED BY <1>7, <2>1, ClickGives DEF decide, shell, Typed, Shell
<1>8. QED BY <1>1, <1>2, <1>3, <1>4, <1>5, <1>6, <1>7 DEF Operate

\* What an answer says fits the call that was made.
LEMMA Heard ==
  ASSUME Typed, NEW r \in Calls, NEW op, Hear(r, op)
  PROVE  /\ at[r] = "answer" /\ call[r].op = op /\ IsCall(call[r])
         /\ call[r].said # None => call[r].todo = <<>> /\ Says(op, <<>>, call[r].said)
BY DEF Hear, Typed, Carried, CallOK, IsCall

LEMMA ThenGives ==
  ASSUME Typed, NEW r \in Calls, NEW op, NEW w, NEW arg, Fits(op, w, arg), Then(r, op, w, arg)
  PROVE  /\ Carried' /\ Tables' /\ Sessions' /\ Alone(r)
         /\ at'[r] = "ready" /\ call'[r] = Call(op, w, arg)
BY SendGives, Untouched DEF Then, Typed

LEMMA OverTyped ==
  ASSUME Typed, NEW r \in Calls, Over(r)
  PROVE  /\ Carried' /\ Tables' /\ Sessions' /\ Alone(r)
         /\ at'[r] = "idle" /\ call'[r] = None
BY OverGives, Untouched DEF Over, Typed

LEMMA DeliverTyped ==
  ASSUME Typed, NEW r \in Calls, Deliver(r)
  PROVE  Carried' /\ Tables' /\ Sessions' /\ Shell'
<1> DEFINE c == call[r]
<1> USE Operations
<1>1. CASE signedIn(r)
  <2>1. CASE c.said = None
    BY <1>1, <2>1, OverTyped DEF signedIn, Typed, Shell
  <2>2. CASE c.said # None
    <3>1. c.said \in Users
      BY <1>1, <2>2, Heard DEF signedIn, Says
    <3>2. Fits("list", None, c.said)
      BY <3>1 DEF Fits
    <3>3. QED BY <1>1, <2>2, <3>1, <3>2, ThenGives DEF signedIn, Typed, Shell
  <2>3. QED BY <2>1, <2>2
<1>2. CASE wasListed(r)
  <2>1. c.said # None => c.said \subseteq Workspaces
    BY <1>2, Heard DEF wasListed, Says
  <2>2. QED BY <1>2, <2>1, OverTyped DEF wasListed, Typed, Shell
<1>3. CASE created(r)
  <2>1. CASE c.said = None
    BY <1>3, <2>1, OverTyped DEF created, Typed, Shell
  <2>2. CASE c.said # None
    <3>1. c.said \in Workspaces
      BY <1>3, <2>2, Heard DEF created, Says
    <3>2. Fits("read", c.said, None)
      BY <3>1 DEF Fits
    <3>3. QED BY <1>3, <2>2, <3>1, <3>2, ThenGives DEF created, Selected, Typed, Shell
  <2>3. QED BY <2>1, <2>2
<1>4. CASE switchHeard(r)
  <2>1. c.said # None => c.said.paused \in BOOLEAN
    BY <1>4, Heard DEF switchHeard, Says, Policies
  <2>2. QED BY <1>4, <2>1, OverTyped DEF switchHeard, Typed, Shell
<1>5. CASE draftSaved(r)
  <2>1. CASE c.said = None
    BY <1>5, <2>1, OverTyped DEF draftSaved, shell, Typed, Shell
  <2>2. CASE c.said # None
    <3>1. c.said \in Items /\ c.workspace \in Workspaces
      BY <1>5, <2>2, Heard DEF draftSaved, Says, IsCall, Fitting, Fits
    <3>2. Fits("act", c.workspace, c.said)
      BY <3>1 DEF Fits
    <3>3. QED BY <1>5, <2>2, <3>2, ThenGives DEF draftSaved, shell, Typed, Shell
  <2>3. QED BY <2>1, <2>2
<1>6. CASE refreshed(r)
  <2>1. c.said # None => c.said \subseteq Items
    BY <1>6, Heard DEF refreshed, Says
  <2>2. QED BY <1>6, <2>1, OverTyped DEF refreshed, Typed, Shell
<1>7. CASE decided(r)
  <2>1. stored # None => Fits("inbox", stored, None)
    BY DEF Fits, Typed, Shell
  <2>2. stored # None
    BY <1>7, Heard DEF decided, Typed, Paged
  <2>3. QED BY <1>7, <2>1, <2>2, ThenGives DEF decided, shell, Typed, Shell
<1>8. QED BY <1>1, <1>2, <1>3, <1>4, <1>5, <1>6, <1>7 DEF Deliver

\* Nothing lets go of what is stored, and a page's call follows one, or starts
\* with a workspace stored.
LEMMA PagedStep == ASSUME Typed, [Next]_vars PROVE Paged'
<1>1. ASSUME NEW r \in Calls, Alone(r), stored' = None => stored = None,
             at'[r] = "idle" \/ stored' # None \/ call'[r].op \notin {"draft", "inbox", "act"}
      PROVE  Paged'
  BY <1>1 DEF Typed, Paged, Alone
<1>2. ASSUME NEW r \in Calls, Operate(r) PROVE Paged'
  <2>1. CASE \E q \in Calls : mount(r, q)
    BY <2>1 DEF mount, Paged
  <2>2. ASSUME NEW op, NEW w, NEW arg, Click(r, op, w, arg), stored' = None => stored = None,
               stored' # None \/ op \notin {"draft", "inbox", "act"}
        PROVE  Paged'
    <3>1. Alone(r) /\ call'[r] = Call(op, w, arg)
      BY <2>2 DEF Click, Send, Typed, Pool, Alone
    <3>2. QED BY <1>1, <2>2, <3>1 DEF Call
  <2>3. QED
    BY <1>2, <2>1, <2>2 DEF Operate, signIn, select, Selected, createWorkspace, toggleKillswitch,
                            saveDraft, refresh, decide, shell
<1>3. ASSUME NEW r \in Calls, Deliver(r) PROVE Paged'
  <2>1. CASE Over(r)
    <3>1. stored' = None => stored = None
      BY <1>3, <2>1 DEF Deliver, signedIn, wasListed, created, Selected, switchHeard, draftSaved,
                        refreshed, decided, shell
    <3>2. QED BY <1>1, <2>1, <3>1, OverTyped
  <2>2. ASSUME NEW op, NEW w, NEW arg, Then(r, op, w, arg), stored' = None => stored = None,
               stored' # None \/ op \notin {"draft", "inbox", "act"}
        PROVE  Paged'
    <3>1. Alone(r) /\ call'[r] = Call(op, w, arg)
      BY <2>2 DEF Then, Send, Typed, Pool, Alone
    <3>2. QED BY <1>1, <2>2, <3>1 DEF Call
  <2>3. ASSUME Hear(r, "draft") \/ Hear(r, "act") PROVE stored # None
    BY <2>3, Heard DEF Typed, Paged
  <2>4. QED
    BY <1>3, <2>1, <2>2, <2>3 DEF Deliver, signedIn, wasListed, created, Selected, switchHeard,
                                  draftSaved, refreshed, decided, shell
<1>4. ASSUME NEW r \in Calls, (Progress(r) \/ Connect(r)) \/ (Mishap(r) /\ UNCHANGED shell)
      PROVE  Paged'
  <2>1. Goes
    BY <1>4, ServedGoes DEF Progress, Serve, Connect, Mishap, Api
  <2>2. stored' = stored
    BY <1>4 DEF Progress, Connect, shell
  <2>3. QED BY <2>1, <2>2 DEF Goes, Typed, Paged
<1>5. CASE deselect \/ UNCHANGED vars
  BY <1>5 DEF deselect, Selected, vars, tenancyVars, shell, Typed, Paged
<1>6. QED BY <1>2, <1>3, <1>4, <1>5 DEF Next

LEMMA TypedInit == Init => Typed
<1>1. Init => Carried /\ Shell /\ Paged
  BY DEF Init, InitTenancy, Carried, CallOK, Shell, Paged
<1>2. Init => Tables /\ Sessions
  BY TenancyAssumption DEF Init, InitTenancy, Tables, Sessions, Fresh
<1>3. QED BY <1>1, <1>2, InitPool DEF Typed

LEMMA TypedStep == Typed /\ [Next]_vars => Typed'
<1> SUFFICES ASSUME Typed, [Next]_vars PROVE Typed'
  OBVIOUS
<1>1. Pool' /\ Paged'
  BY NextPool, PagedStep DEF Typed
<1>2. ASSUME NEW r \in Calls, Operate(r) \/ Deliver(r) PROVE Carried' /\ Tables' /\ Sessions' /\ Shell'
  BY <1>2, OperateTyped, DeliverTyped
<1>3. ASSUME NEW r \in Calls, (Progress(r) \/ Connect(r)) \/ (Mishap(r) /\ UNCHANGED shell)
      PROVE  Carried' /\ Tables' /\ Sessions' /\ Shell'
  <2>1. Shell'
    BY <1>3 DEF Progress, Connect, shell, Typed, Shell
  <2>2. QED
    BY <1>3, <2>1, QueryTyped, WorkTyped, OpenTyped, FailureTyped, FinishTyped
       DEF Progress, Serve, Connect, Mishap
<1>4. CASE deselect \/ UNCHANGED vars
  <2>1. UNCHANGED tenancyVars
    BY <1>4 DEF deselect, vars
  <2>2. Carried' /\ Tables' /\ Sessions'
    BY <2>1, Untouched DEF tenancyVars, Typed, Carried, CallOK
  <2>3. Shell'
    BY <1>4 DEF deselect, Selected, vars, shell, Typed, Shell
  <2>4. QED BY <1>1, <2>2, <2>3 DEF Typed
<1>5. QED BY <1>1, <1>2, <1>3, <1>4 DEF Next, Typed

LEMMA TypedAlways == Spec => []Typed
BY TypedInit, TypedStep, PTL DEF Spec

\* The state of the API, of its tables and sessions, and of the web interface
\* has its types; a call is carried exactly while it is under way.
THEOREM TenancyTypes == Spec => []TypeOK
<1>1. ASSUME Typed PROVE TypeOK
  <2>1. conn \in [Conns -> [holder: Calls \cup {None}, scope: Workspaces \cup {None},
                            open: BOOLEAN, broken: BOOLEAN]]
    BY <1>1 DEF Typed, Pool, IsSession, Session, Sessions
  <2>2. \A r \in Calls : at[r] = "idle" <=> call[r] = None
    BY <1>1, NotNone DEF Typed, Carried, CallOK
  <2>3. QED BY <1>1, <2>1, <2>2 DEF TypeOK, Typed, Tables, Sessions, Shell
<1>2. QED BY <1>1, TypedAlways, PTL

-----------------------------------------------------------------------------
\* What the calls say and show.

LEMMA Kinds ==
  ASSUME [Next]_vars
  PROVE  \/ \E r \in Calls : Operate(r) \/ Deliver(r)
         \/ (\E r \in Calls, d \in Conns : Api(r, d)) /\ UNCHANGED shell
         \/ deselect \/ UNCHANGED vars
BY DEF Next, Progress, Serve, Connect, Mishap, Api

LEMMA AtDesk ==
  ASSUME NEW r \in Calls, Operate(r) \/ Deliver(r)
  PROVE  UNCHANGED <<role, tables, conn, faults>>
BY DEF Operate, Deliver, signIn, mount, select, createWorkspace, toggleKillswitch, saveDraft,
       refresh, decide, signedIn, wasListed, created, switchHeard, draftSaved, refreshed, decided,
       Click, Over, Then

LEMMA RoleKept == ASSUME [Next]_vars PROVE role' = role
<1>1. ASSUME NEW r \in Calls, NEW d \in Conns, Api(r, d) PROVE role' = role
  BY <1>1 DEF Api, upsertOperator, list, create, Open, Work, WorkUnheard, Throw, Fault, Finish
<1>2. CASE deselect \/ UNCHANGED vars
  BY <1>2 DEF deselect, vars, tenancyVars
<1>3. QED BY <1>1, <1>2, Kinds, AtDesk

\* A step of the API that says something is one of these.
LEMMA ApiSays ==
  ASSUME Typed, NEW r \in Calls, NEW d \in Conns, Api(r, d)
  PROVE  \/ call'[r].said = None
         \/ call'[r].said = call[r].said /\ UNCHANGED tables /\ (create(r, d) \/ call'[r] = call[r])
         \/ call'[r].op \in {"signin", "list"} /\ UNCHANGED <<workspaces, switch, home, settled>>
         \/ at[r] = "work" /\ conn[d].holder = r /\ Statements(r, d)
<1> DEFINE c == call[r]
<1>1. at[r] # "idle" /\ IsCall(c)
  <2>1. at[r] # "idle"
    BY StatementsHold DEF Api, upsertOperator, list, create, Query, Open, Work, WorkUnheard, Throw,
                          Refused, Working, Fault, Finish
  <2>2. QED BY <2>1 DEF Typed, Carried, CallOK
<1>2. CASE upsertOperator(r, d) \/ list(r, d)
  <2>1. c.op \in {"signin", "list"}
    BY <1>2, AtStep, StepsOf DEF upsertOperator, list, Query, Typed
  <2>2. call'[r].op = c.op
    BY <1>1, <1>2, ServedGoes DEF Goes, Api
  <2>3. QED BY <1>2, <2>1, <2>2 DEF upsertOperator, list, tables
<1>3. CASE create(r, d)
  <2>1. UNCHANGED tables /\ (call' = call \/ \E w : call' = [call EXCEPT ![r].workspace = w, ![r].todo = Tail(@)])
    BY <1>3 DEF create
  <2>2. call'[r].said = c.said
    <3>1. call = [q \in Calls |-> call[q]]
      BY DEF Typed, Pool
    <3>2. c = [op |-> c.op, workspace |-> c.workspace, arg |-> c.arg, todo |-> c.todo, said |-> c.said]
      BY <1>1 DEF IsCall
    <3>3. ASSUME NEW w, call' = [call EXCEPT ![r].workspace = w, ![r].todo = Tail(@)]
          PROVE  call'[r].said = c.said
      BY <3>1, <3>2, <3>3
    <3>4. QED BY <2>1, <3>3
  <2>3. QED BY <1>3, <2>1, <2>2
<1>4. CASE Work(r, d) \/ WorkUnheard(r, d)
  BY <1>4, StatementsHold DEF Work, WorkUnheard
<1>5. CASE Open(r, d) \/ Throw(r, d) \/ Fault(r, d)
  BY <1>5 DEF Open, Throw, Fault
<1>6. CASE Finish(r, d)
  <2>1. UNCHANGED tables /\ (call' = call \/ call' = [call EXCEPT ![r].said = None])
    BY <1>6 DEF Finish, Proceed
  <2>2. QED BY <1>1, <2>1 DEF IsCall, Typed, Pool
<1>7. QED BY <1>2, <1>3, <1>4, <1>5, <1>6 DEF Api

\* An item stays in its workspace.
LEMMA HomeKept ==
  ASSUME Typed, [Next]_vars PROVE \A i \in Items : home[i] # None => home'[i] = home[i]
<1>1. ASSUME NEW r \in Calls, NEW d \in Conns, Statements(r, d)
      PROVE  \A i \in Items : home[i] # None => home'[i] = home[i]
  BY <1>1 DEF Statements, insertWorkspace, ensurePolicy, setDispatchPaused, createDraft,
              listPendingApprovals, actOn, tables, Typed, Tables
<1>2. ASSUME NEW r \in Calls, NEW d \in Conns, Api(r, d)
      PROVE  \A i \in Items : home[i] # None => home'[i] = home[i]
  BY <1>1, <1>2 DEF Api, upsertOperator, list, create, Open, Work, WorkUnheard, Throw, Fault,
                    Finish, tables
<1>3. CASE deselect \/ UNCHANGED vars
  BY <1>3 DEF deselect, vars, tenancyVars, tables
<1>4. QED BY <1>2, <1>3, Kinds, AtDesk DEF tables

\* A click or an answer makes a call that has said nothing, or ends one.
LEMMA DeskCalls ==
  ASSUME Typed, NEW r \in Calls, Operate(r) \/ Deliver(r), NEW q \in Calls
  PROVE  \/ at'[q] = "idle" \/ call'[q].said = None
         \/ at[q] # "idle" /\ at'[q] = at[q] /\ call'[q] = call[q]
<1>1. CASE \E p \in Calls : mount(r, p)
  <2>1. PICK p \in Calls : mount(r, p)
    BY <1>1
  <2>2. /\ r # p
        /\ at' = [at EXCEPT ![r] = "ready", ![p] = "ready"] /\ at[q] = "idle"
        /\ call' = [call EXCEPT ![r] = Call("list", None, user), ![p] = Call("read", stored, None)]
    BY <2>1 DEF mount
  <2>3. CASE q \in {p, r}
    BY <2>2, <2>3 DEF Call, Typed, Pool
  <2>4. CASE q \notin {p, r}
    BY <2>2, <2>4 DEF Typed, Pool
  <2>5. QED BY <2>3, <2>4
<1>2. ASSUME NEW op, NEW w, NEW arg, Send(r, op, w, arg)
      PROVE  IF q = r THEN call'[q].said = None ELSE at'[q] = at[q] /\ call'[q] = call[q]
  <2>1. call'[r].said = None
    BY <1>2 DEF Send, Call, Typed, Pool
  <2>2. q # r => at'[q] = at[q] /\ call'[q] = call[q]
    BY <1>2 DEF Send, Typed, Pool
  <2>3. QED BY <2>1, <2>2
<1>3. CASE Over(r)
  BY <1>3 DEF Over, Typed, Pool
<1>4. (\E p \in Calls : mount(r, p)) \/ Over(r) \/ \E op, w, arg : Send(r, op, w, arg)
  BY DEF Operate, Deliver, signIn, select, createWorkspace, toggleKillswitch, saveDraft,
         refresh, decide, signedIn, wasListed, created, switchHeard, draftSaved, refreshed, decided,
         Click, Then
<1>5. QED BY <1>1, <1>2, <1>3, <1>4

\* In a session of scriora_app a call sees the rows of its workspace only.
LEMMA AppSees ==
  ASSUME Typed, role = "scriora_app", NEW r \in Calls, NEW d \in Conns,
         at[r] = "work", conn[d].holder = r
  PROVE  conn[d].scope = call[r].workspace /\ \A w \in Visible(d) : w = call[r].workspace
BY NoneApart DEF Typed, Pool, Visible

\* What was said of a workspace is still of that workspace.
LEMMA OwnKept ==
  ASSUME Typed, [Next]_vars, NEW q \in Calls, OwnCall(q),
         \/ at'[q] = "idle" \/ call'[q].said = None
         \/ at[q] # "idle" /\ call'[q] = call[q]
  PROVE  OwnCall(q)'
<1>1. CASE at'[q] = "idle" \/ call'[q].said = None
  BY <1>1 DEF OwnCall
<1>2. CASE at[q] # "idle" /\ call'[q] = call[q] /\ call[q].said # None /\ call[q].op = "inbox"
  <2>1. IsCall(call[q])
    BY <1>2 DEF Typed, Carried, CallOK
  <2>2. call[q].said \subseteq Items /\ call[q].workspace \in Workspaces
    BY <1>2, <2>1 DEF IsCall, Says, Fitting, Fits
  <2>3. \A i \in call[q].said : home'[i] = call[q].workspace
    BY <1>2, <2>2, HomeKept, NoneApart DEF OwnCall
  <2>4. QED BY <1>2, <2>3 DEF OwnCall
<1>3. CASE at[q] # "idle" /\ call'[q] = call[q] /\ (call[q].said = None \/ call[q].op # "inbox")
  BY <1>3 DEF OwnCall
<1>4. QED BY <1>1, <1>2, <1>3

LEMMA OwnStep == ASSUME Typed, Own, [Next]_vars PROVE Own'
<1> SUFFICES ASSUME role = "scriora_app", NEW q \in Calls PROVE OwnCall(q)'
  BY RoleKept DEF Own
<1>1. OwnCall(q)
  BY DEF Own
<1>2. ASSUME NEW r \in Calls, Operate(r) \/ Deliver(r) PROVE OwnCall(q)'
  BY <1>1, <1>2, DeskCalls, OwnKept
<1>3. ASSUME NEW r \in Calls, NEW d \in Conns, Api(r, d) PROVE OwnCall(q)'
  <2>1. CASE q # r
    BY <1>1, <1>3, <2>1, ServedGoes, OwnKept DEF OwnCall, SameRequest
  <2>2. CASE q = r /\ at[r] = "work" /\ conn[d].holder = r /\ Statements(r, d)
    <3> DEFINE c == call[r]
    <3>1. /\ IsCall(c) /\ c.todo # <<>> /\ c.op \in DOMAIN Steps /\ c.todo \in Left(c.op)
          /\ conn[d].scope = c.workspace /\ \A w \in Visible(d) : w = c.workspace
      BY <2>2, AtStep, AppSees DEF Typed
    <3>2. ASSUME NEW x, Say(r, x),
                 c.op \in {"read", "toggle"} => x.workspace = c.workspace,
                 c.op = "inbox" => \A i \in x : home'[i] = c.workspace
          PROVE  OwnCall(q)'
      <4>1. call'[r].op = c.op /\ call'[r].workspace = c.workspace /\ call'[r].said = x
        <5>1. call'[r] = [op |-> c.op, workspace |-> c.workspace, arg |-> c.arg,
                          todo |-> Tail(c.todo), said |-> x]
          BY <2>2, <3>2, SayGives DEF Typed
        <5>2. QED BY <5>1
      <4>2. QED BY <2>2, <3>2, <4>1 DEF OwnCall
    <3>3. CASE insertWorkspace(r, d)
      <4>1. c.op = "create"
        BY <3>1, <3>3, StepsOf DEF insertWorkspace, Working
      <4>2. QED BY <3>2, <3>3, <4>1 DEF insertWorkspace
    <3>4. CASE ensurePolicy(r, d)
      <4>1. c.op # "inbox"
        BY <3>1, <3>4, StepsOf DEF ensurePolicy, Working
      <4>2. \E p : Say(r, [workspace |-> c.workspace, paused |-> p])
        BY <3>1, <3>4 DEF ensurePolicy
      <4>3. QED BY <3>2, <4>1, <4>2
    <3>5. CASE setDispatchPaused(r, d)
      <4>1. c.op = "toggle" /\ c.todo # Steps["toggle"]
        BY <3>1, <3>5, StepsOf DEF setDispatchPaused, Working
      <4>2. c.said \in Policies /\ Say(r, [workspace |-> c.said.workspace, paused |-> c.arg])
        BY <2>2, <3>5, <4>1 DEF setDispatchPaused, Typed, Carried, CallOK
      <4>3. CASE c.said # None
        BY <1>1, <2>2, <3>2, <4>1, <4>2, <4>3 DEF OwnCall
      <4>4. QED BY <4>2, <4>3, NoneApart
    <3>6. CASE createDraft(r, d)
      <4>1. c.op = "draft"
        BY <3>1, <3>6, StepsOf DEF createDraft, Working
      <4>2. QED BY <3>2, <3>6, <4>1 DEF createDraft
    <3>7. CASE listPendingApprovals(r, d)
      <4>1. c.op = "inbox"
        BY <3>1, <3>7, StepsOf DEF listPendingApprovals, Working
      <4>2. Say(r, {i \in Items : home[i] \in Visible(d)}) /\ home' = home
        BY <3>7 DEF listPendingApprovals, tables
      <4>3. QED BY <3>1, <3>2, <4>1, <4>2
    <3>8. CASE actOn(r, d)
      <4>1. c.op = "act"
        BY <3>1, <3>8, StepsOf DEF actOn, Working
      <4>2. QED BY <3>2, <3>8, <4>1 DEF actOn
    <3>9. QED BY <2>2, <3>3, <3>4, <3>5, <3>6, <3>7, <3>8 DEF Statements
  <2>3. CASE q = r /\ at[r] # "idle" /\ call[r].op \in {"create", "signin", "list"}
    BY <1>3, <2>3, ServedGoes DEF OwnCall, Goes
  <2>4. CASE q = r /\ (call'[r].said = None \/ (at[r] # "idle" /\ call'[r] = call[r]))
    BY <1>1, <2>4, OwnKept
  <2>5. CASE q = r /\ at'[r] = "idle"
    BY <2>5 DEF OwnCall
  <2>6. create(r, d) => call[r].op = "create"
    BY AtStep, StepsOf DEF create, Query, Typed
  <2>7. QED
    BY <1>3, <2>1, <2>2, <2>3, <2>4, <2>5, <2>6, ApiSays, ServedGoes DEF Goes
<1>4. CASE deselect \/ UNCHANGED vars
  BY <1>1, <1>4, OwnKept DEF deselect, vars, tenancyVars, OwnCall
<1>5. QED BY <1>2, <1>3, <1>4, Kinds

\* For scriora_app, what a call answers is of the workspace it was made for, in
\* whatever order calls share the connections, fail and lose them
\* (0001_tenancy.sql:1-2).
THEOREM AppSeesOwnRowsAlways == Spec => []AppSeesOwnRows
<1>1. Init => Own
  BY DEF Init, InitTenancy, Own, OwnCall
<1>2. ASSUME Typed, Own PROVE AppSeesOwnRows
  BY <1>2 DEF Own, OwnCall, AppSeesOwnRows, OwnRowsOnly
<1>3. QED BY <1>1, <1>2, OwnStep, TypedAlways, PTL DEF Spec

-----------------------------------------------------------------------------
\* Names.

\* A creation starts at the desk, where no other is under way.
LEMMA DeskCreates ==
  ASSUME Typed, NEW r \in Calls, Operate(r) \/ Deliver(r), NEW q \in Calls, Creating(q)'
  PROVE  \/ Creating(q) /\ call'[q] = call[q]
         \/ /\ q = r /\ call'[q].todo = Steps["create"]
            /\ SerialCreate => \A p \in Calls : ~Creating(p)
<1>1. CASE \E p \in Calls : mount(r, p)
  <2>1. PICK p \in Calls : mount(r, p)
    BY <1>1
  <2>2. /\ r # p /\ at[q] = "idle"
        /\ at' = [at EXCEPT ![r] = "ready", ![p] = "ready"]
        /\ call' = [call EXCEPT ![r] = Call("list", None, user), ![p] = Call("read", stored, None)]
    BY <2>1 DEF mount
  <2>3. CASE q \in {p, r}
    BY <2>2, <2>3 DEF Call, Creating, Typed, Pool
  <2>4. CASE q \notin {p, r}
    BY <2>2, <2>4 DEF Creating, Typed, Pool
  <2>5. QED BY <2>3, <2>4
<1>2. CASE q # r /\ (Over(r) \/ \E op, w, arg : Send(r, op, w, arg))
  BY <1>2 DEF Over, Send, Creating, Typed, Pool
<1>3. CASE q = r /\ Over(r)
  BY <1>3 DEF Over, Creating, Typed, Pool
<1>4. ASSUME NEW op, NEW w, NEW arg, Send(r, op, w, arg), op # "create", q = r PROVE FALSE
  BY <1>4 DEF Send, Call, Creating, Typed, Pool
<1>5. ASSUME NEW n \in Names, createWorkspace(r, n), q = r
      PROVE  call'[q].todo = Steps["create"] /\ (SerialCreate => \A p \in Calls : ~Creating(p))
  <2>1. call'[q] = Call("create", None, [name |-> n, owner |-> user])
    BY <1>5 DEF createWorkspace, Click, Send, Typed, Pool
  <2>2. QED BY <1>5, <2>1 DEF Call, createWorkspace, Creating
<1>6. \/ \E p \in Calls : mount(r, p)
      \/ \E n \in Names : createWorkspace(r, n)
      \/ Over(r)
      \/ \E op, w, arg : Send(r, op, w, arg) /\ op # "create"
  BY DEF Operate, Deliver, signIn, select, toggleKillswitch, saveDraft, refresh, decide, signedIn,
         wasListed, created, switchHeard, draftSaved, refreshed, decided, Click, Then
<1>7. (\E n \in Names : createWorkspace(r, n)) => \E op, w, arg : Send(r, op, w, arg)
  BY DEF createWorkspace, Click
<1>8. QED BY <1>1, <1>2, <1>3, <1>4, <1>5, <1>6, <1>7

\* Only the two steps of a creation touch the workspaces or what is left of it.
LEMMA ApiElse ==
  ASSUME Typed, NEW r \in Calls, NEW d \in Conns, Api(r, d), ~create(r, d), ~insertWorkspace(r, d)
  PROVE  workspaces' = workspaces /\ (call[r].op = "create" => call'[r].todo = call[r].todo)
<1> DEFINE c == call[r]
<1>1. CASE upsertOperator(r, d) \/ list(r, d)
  <2>1. c.op # "create"
    BY <1>1, AtStep, StepsOf DEF upsertOperator, list, Query, Typed
  <2>2. QED BY <1>1, <2>1 DEF upsertOperator, list, tables
<1>2. CASE Work(r, d) \/ WorkUnheard(r, d)
  <2>1. Statements(r, d) /\ at[r] = "work"
    BY <1>2, StatementsHold DEF Work, WorkUnheard
  <2>2. c.op # "create"
    BY <2>1, AtStep, StepsOf DEF Statements, ensurePolicy, setDispatchPaused, createDraft,
                                 listPendingApprovals, actOn, Working, Typed
  <2>3. QED
    BY <2>1, <2>2 DEF Statements, ensurePolicy, setDispatchPaused, createDraft,
                      listPendingApprovals, actOn, tables
<1>3. CASE Open(r, d) \/ Throw(r, d) \/ Fault(r, d)
  BY <1>3 DEF Open, Throw, Fault, tables
<1>4. CASE Finish(r, d)
  <2>1. workspaces' = workspaces /\ (call' = call \/ call' = [call EXCEPT ![r].said = None])
    BY <1>4 DEF Finish, Proceed, tables
  <2>2. IsCall(c)
    BY <1>4 DEF Finish, Typed, Carried, CallOK
  <2>3. QED BY <2>1, <2>2 DEF IsCall, Typed, Pool
<1>5. QED BY <1>1, <1>2, <1>3, <1>4 DEF Api

LEMMA NamedStep == ASSUME Typed, Named, [Next]_vars PROVE Named'
<1> SUFFICES ASSUME SerialCreate, role = "postgres"
             PROVE  /\ \A p, q \in Calls : Creating(p)' /\ Creating(q)' => p = q
                    /\ \A q \in Calls : Creating(q)' /\ call'[q].todo \notin {Steps["create"], <<>>} =>
                         \A w \in Workspaces : workspaces'[w] # None => workspaces'[w].name # call'[q].arg.name
                    /\ \A v, w \in Workspaces : v # w /\ workspaces'[v] # None /\ workspaces'[w] # None
                         => workspaces'[v].name # workspaces'[w].name
  BY RoleKept DEF Named
<1>0. /\ \A p, q \in Calls : Creating(p) /\ Creating(q) => p = q
      /\ \A q \in Calls : Creating(q) /\ call[q].todo \notin {Steps["create"], <<>>} =>
           \A w \in Workspaces : workspaces[w] # None => workspaces[w].name # call[q].arg.name
      /\ \A v, w \in Workspaces : v # w /\ workspaces[v] # None /\ workspaces[w] # None
           => workspaces[v].name # workspaces[w].name
  BY DEF Named
<1>1. ASSUME NEW r \in Calls, Operate(r) \/ Deliver(r) PROVE Named'
  <2>1. workspaces' = workspaces
    BY <1>1, AtDesk DEF tables
  <2>2. \A q \in Calls : Creating(q)' =>
          \/ Creating(q) /\ call'[q] = call[q]
          \/ q = r /\ call'[q].todo = Steps["create"] /\ \A p \in Calls : ~Creating(p)
    BY <1>1, DeskCreates
  <2>3. QED BY <1>0, <2>1, <2>2 DEF Named
<1>2. ASSUME NEW r \in Calls, NEW d \in Conns, Api(r, d) PROVE Named'
  <2> DEFINE c == call[r]
  <2>1. /\ \A q \in Calls : Creating(q)' <=> Creating(q)
        /\ \A q \in Calls : Creating(q)' => call'[q].arg = call[q].arg
        /\ \A q \in Calls \ {r} : call'[q] = call[q]
    BY <1>2, ServedGoes DEF Goes, SameRequest, Creating
  <2>2. CASE insertWorkspace(r, d)
    <3>1. at[r] = "work" /\ c.op = "create" /\ c.todo \notin {Steps["create"], <<>>} /\ Tail(c.todo) = <<>>
      BY <2>2, AtStep, StepsOf DEF insertWorkspace, Working, Typed
    <3>2. Creating(r) /\ call'[r].todo = <<>>
      <4>1. Say(r, c.workspace)
        BY <2>2 DEF insertWorkspace
      <4>2. call'[r] = [op |-> c.op, workspace |-> c.workspace, arg |-> c.arg,
                        todo |-> Tail(c.todo), said |-> c.workspace]
        BY <3>1, <4>1, SayGives DEF Typed
      <4>3. QED BY <3>1, <4>2 DEF Creating
    <3>3. \A w \in Workspaces : workspaces[w] # None => workspaces[w].name # c.arg.name
      BY <1>0, <3>1, <3>2
    <3>4. \A w \in Workspaces : workspaces'[w] = IF w = c.workspace THEN c.arg ELSE workspaces[w]
      BY <2>2 DEF insertWorkspace, Typed, Tables
    <3>5. \A v, w \in Workspaces : v # w /\ workspaces'[v] # None /\ workspaces'[w] # None
            => workspaces'[v].name # workspaces'[w].name
      BY <1>0, <3>3, <3>4
    <3>6. \A q \in Calls : Creating(q)' => q = r
      BY <1>0, <2>1, <3>2
    <3>7. QED BY <3>2, <3>5, <3>6 DEF Named
  <2>3. CASE create(r, d)
    <3>1. workspaces' = workspaces
      BY <2>3 DEF create, tables
    <3>2. CASE call' = call
      BY <1>0, <2>1, <3>1, <3>2 DEF Named
    <3>3. CASE call' # call
      <4>1. \A w \in Workspaces : workspaces[w] # None => workspaces[w].name # c.arg.name
        BY <2>3, <3>3 DEF create, Visible
      <4>2. QED BY <1>0, <2>1, <3>1, <4>1 DEF Named
    <3>4. QED BY <3>2, <3>3
  <2>4. CASE ~create(r, d) /\ ~insertWorkspace(r, d)
    <3>1. workspaces' = workspaces /\ (c.op = "create" => call'[r].todo = c.todo)
      BY <1>2, <2>4, ApiElse
    <3>2. \A q \in Calls : Creating(q)' => call'[q].todo = call[q].todo
      BY <2>1, <3>1 DEF Creating
    <3>3. QED BY <1>0, <2>1, <3>1, <3>2 DEF Named
  <2>5. QED BY <2>2, <2>3, <2>4
<1>3. CASE deselect \/ UNCHANGED vars
  BY <1>0, <1>3 DEF deselect, vars, tenancyVars, tables, Named, Creating
<1>4. QED BY <1>1, <1>2, <1>3, Kinds, RoleKept DEF Named

\* As long as no two workspaces are being created at once, and the names in use
\* can be seen, no two have one name (workspace-store.ts:88-94).
THEOREM NamesAreUniqueAlways == Spec => []NamesAreUnique
<1>1. Init => Named
  BY DEF Init, InitTenancy, Named, Creating
<1>2. ASSUME Named PROVE NamesAreUnique
  BY <1>2 DEF Named, NamesAreUnique
<1>3. QED BY <1>1, <1>2, NamedStep, TypedAlways, PTL DEF Spec

-----------------------------------------------------------------------------
\* The switch.

\* A row of the switch stays, and keeps what it says but for a toggle.
LEMMA SwitchKept ==
  ASSUME Typed, NEW r \in Calls, NEW d \in Conns, Api(r, d), ~setDispatchPaused(r, d), NEW w \in Workspaces,
         switch[w] # None
  PROVE  switch'[w] = switch[w]
<1>1. ASSUME Statements(r, d) PROVE switch'[w] = switch[w]
  BY <1>1 DEF Statements, insertWorkspace, ensurePolicy, createDraft, listPendingApprovals, actOn,
              tables, Typed, Tables
<1>2. QED
  BY <1>1 DEF Api, upsertOperator, list, create, Open, Work, WorkUnheard, Throw, Fault, Finish, tables

\* What a step of the API makes of the call about the switch.
LEMMA AboutServed ==
  ASSUME Typed, role = "scriora_app", NEW r \in Calls, NEW d \in Conns, Api(r, d), About(r), Known(r)
  PROVE  Known(r)'
<1> DEFINE c == call[r]
           w == call[r].workspace
<1>1. /\ at[r] # "idle" /\ c.op \in {"read", "toggle"} /\ IsCall(c)
      /\ c.op \in DOMAIN Steps /\ c.todo \in Left(c.op) /\ w \in Workspaces
  <2>1. IsCall(c)
    BY DEF About, Typed, Carried, CallOK
  <2>2. QED BY <2>1 DEF About, IsCall, Fitting, Fits
<1>2. call'[r].op = c.op /\ call'[r].workspace = w
  BY <1>1, ServedGoes DEF SameRequest
<1>3. CASE at[r] = "work" /\ conn[d].holder = r /\ Statements(r, d)
  <2>1. c.todo # <<>> /\ conn[d].scope = w /\ \A v \in Visible(d) : v = w
    BY <1>3, AtStep, AppSees DEF Typed
  <2>2. ASSUME NEW x, Say(r, x) PROVE call'[r].todo = Tail(c.todo) /\ call'[r].said = x
    <3>1. call'[r] = [op |-> c.op, workspace |-> c.workspace, arg |-> c.arg,
                      todo |-> Tail(c.todo), said |-> x]
      BY <1>3, <2>2, SayGives DEF Typed
    <3>2. QED BY <3>1
  <2>3. CASE ensurePolicy(r, d)
    <3> DEFINE policies == [switch EXCEPT ![w] = IF @ = None THEN FALSE ELSE @]
    <3>1. /\ switch' = policies
          /\ \E v \in Visible(d) : policies[v] # None /\ Say(r, [workspace |-> v, paused |-> policies[v]])
      BY <2>3 DEF ensurePolicy
    <3>2. switch'[w] # None /\ Say(r, [workspace |-> w, paused |-> switch'[w]])
      BY <2>1, <3>1
    <3>3. QED BY <1>2, <2>2, <3>2 DEF Known
  <2>4. CASE setDispatchPaused(r, d)
    <3> DEFINE rows == {v \in Visible(d) : switch[v] # None}
    <3>1. c.op = "toggle" /\ c.todo # Steps[c.op]
      BY <1>1, <2>1, <2>4, StepsOf DEF setDispatchPaused, Working
    <3>2. switch[w] # None /\ w \in Visible(d)
      BY <1>1, <2>1, <3>1 DEF Known, Visible
    <3>3. c.arg \in BOOLEAN
      BY <1>1, <3>1 DEF IsCall, Fitting, Fits
    <3>4. switch'[w] = c.arg /\ \E v : Say(r, [workspace |-> v, paused |-> c.arg])
      BY <1>1, <2>4, <3>2 DEF setDispatchPaused
    <3>5. QED BY <1>2, <2>2, <3>3, <3>4, NoneApart DEF Known
  <2>5. CASE insertWorkspace(r, d) \/ createDraft(r, d) \/ listPendingApprovals(r, d) \/ actOn(r, d)
    BY <1>1, <2>1, <2>5, StepsOf DEF insertWorkspace, createDraft, listPendingApprovals, actOn, Working
  <2>6. QED BY <1>3, <2>3, <2>4, <2>5 DEF Statements
<1>4. CASE ~Statements(r, d)
  <2>1. ~create(r, d) /\ ~upsertOperator(r, d) /\ ~list(r, d)
    BY <1>1, AtStep, StepsOf DEF create, upsertOperator, list, Query, Typed
  <2>2. switch' = switch /\ (call' = call \/ call' = [call EXCEPT ![r].said = None])
    BY <1>4, <2>1 DEF Api, Open, Work, WorkUnheard, Throw, Fault, Finish, Proceed, tables
  <2>3. call'[r].todo = c.todo /\ call'[r].said \in {None, c.said}
    BY <1>1, <2>2 DEF IsCall, Typed, Pool
  <2>4. QED BY <1>2, <2>2, <2>3 DEF Known
<1>5. QED BY <1>3, <1>4, StatementsHold

\* A toggle is of a call about the switch.
LEMMA TogglesAbout ==
  ASSUME Typed, NEW r \in Calls, NEW d \in Conns, setDispatchPaused(r, d)
  PROVE  About(r)
BY AtStep, StepsOf DEF setDispatchPaused, Working, About, Typed

LEMMA ShowingServed ==
  ASSUME Typed, Showing, role = "scriora_app", NEW r \in Calls, NEW d \in Conns, Api(r, d),
         UNCHANGED shell
  PROVE  Showing'
<1> SUFFICES ASSUME ~doubt
             PROVE  /\ \A p, q \in Calls : About(p)' /\ About(q)' => p = q
                    /\ \A q \in Calls : About(q)' => Known(q)'
                    /\ selected # None =>
                         /\ \A q \in Calls : About(q)' => call'[q].workspace = selected
                         /\ (\A q \in Calls : ~About(q)') => switch'[selected] # None /\ shown = switch'[selected]
  BY DEF Showing, shell
<1>1. \A q \in Calls : About(q)' <=> About(q)
  BY ServedGoes DEF Goes, About
<1>2. \A q \in Calls : About(q) => call'[q].workspace = call[q].workspace
  BY ServedGoes DEF Goes, About
<1>3. \A p, q \in Calls : About(p) /\ About(q) => p = q
  BY DEF Showing
<1>4. ASSUME NEW q \in Calls, About(q) PROVE Known(q)'
  <2>1. Known(q)
    BY <1>4 DEF Showing
  <2>2. CASE q = r
    BY <1>4, <2>1, <2>2, AboutServed
  <2>3. CASE q # r
    <3>1. call'[q] = call[q] /\ ~setDispatchPaused(r, d)
      BY <1>3, <1>4, <2>3, ServedGoes, TogglesAbout DEF SameRequest
    <3>2. IsCall(call[q]) /\ call[q].workspace \in Workspaces /\ Steps[call[q].op] # <<>>
      <4>1. IsCall(call[q])
        BY <1>4 DEF About, Typed, Carried, CallOK
      <4>2. QED BY <1>4, <4>1, Begins DEF About, IsCall, Fitting, Fits
    <3>3. switch[call[q].workspace] # None => switch'[call[q].workspace] = switch[call[q].workspace]
      BY <3>1, <3>2, SwitchKept
    <3>4. QED BY <2>1, <3>1, <3>2, <3>3 DEF Known
  <2>4. QED BY <2>2, <2>3
<1>5. ASSUME selected # None, \A q \in Calls : ~About(q)
      PROVE  switch'[selected] # None /\ shown = switch'[selected]
  <2>1. switch[selected] # None /\ shown = switch[selected] /\ selected \in Workspaces
    BY <1>5 DEF Showing, Typed, Shell
  <2>2. QED BY <1>5, <2>1, SwitchKept, TogglesAbout
<1>6. selected # None => \A q \in Calls : About(q) => call[q].workspace = selected
  BY DEF Showing
<1>7. QED BY <1>1, <1>2, <1>3, <1>4, <1>5, <1>6

\* What has nothing to do with the switch leaves it and the button alone ...
LEMMA Aside ==
  ASSUME Showing, NEW r \in Calls, Alone(r), ~About(r), ~About(r)',
         UNCHANGED <<role, switch, selected, shown, doubt>>
  PROVE  Showing'
<1>1. \A q \in Calls : About(q)' <=> About(q)
  BY DEF About, Alone
<1>2. \A q \in Calls : About(q) => call'[q] = call[q] /\ (Known(q)' <=> Known(q))
  BY DEF About, Alone, Known
<1>3. QED BY <1>1, <1>2 DEF Showing

\* ... and a selection is read, and doubted if another call is about.
LEMMA Reads ==
  ASSUME NEW r \in Calls, Alone(r), NEW w, at'[r] = "ready", call'[r] = Call("read", w, None),
         selected' = w, doubt' = Asking(r)
  PROVE  Showing'
<1>1. doubt' \/ \A q \in Calls : About(q)' => q = r
  BY DEF Asking, About, Alone
<1>2. About(r)' /\ Known(r)' /\ call'[r].workspace = selected'
  BY DEF About, Known, Call
<1>3. QED BY <1>1, <1>2 DEF Showing

LEMMA ShowingAtDesk ==
  ASSUME Typed, Showing, NEW r \in Calls, Operate(r) \/ Deliver(r) PROVE Showing'
<1> USE Operations
<1>1. role' = role /\ switch' = switch
  BY AtDesk DEF tables
<1>2. ASSUME NEW op, NEW w, NEW arg, Send(r, op, w, arg)
      PROVE  Alone(r) /\ at'[r] = "ready" /\ call'[r] = Call(op, w, arg)
  BY <1>2 DEF Send, Typed, Pool, Alone
<1>3. ASSUME Over(r) PROVE Alone(r) /\ ~About(r)'
  BY <1>3 DEF Over, Typed, Pool, Alone, About
<1>4. ASSUME NEW op, NEW w, NEW arg, Send(r, op, w, arg), op \notin {"read", "toggle"}, ~About(r),
             UNCHANGED <<selected, shown, doubt>>
      PROVE  Showing'
  <2>1. Alone(r) /\ call'[r] = Call(op, w, arg)
    BY <1>2, <1>4
  <2>2. call'[r].op = op
    BY <2>1 DEF Call
  <2>3. ~About(r)'
    BY <1>4, <2>2 DEF About
  <2>4. QED BY <1>1, <1>4, <2>1, <2>3, Aside
<1>5. CASE \E q \in Calls : mount(r, q)
  <2>1. PICK q \in Calls : mount(r, q)
    BY <1>5
  <2>2. /\ r # q /\ \A p \in Calls : at[p] = "idle"
        /\ selected' = stored /\ doubt' = FALSE
        /\ at' = [at EXCEPT ![r] = "ready", ![q] = "ready"]
        /\ call' = [call EXCEPT ![r] = Call("list", None, user), ![q] = Call("read", stored, None)]
    BY <2>1 DEF mount
  <2>3. /\ call'[r] = Call("list", None, user)
        /\ call'[q] = Call("read", stored, None) /\ at'[q] = "ready"
        /\ \A p \in Calls \ {q, r} : at'[p] = "idle"
    BY <2>2 DEF Typed, Pool
  <2>4. /\ call'[r].op = "list"
        /\ call'[q].op = "read" /\ call'[q].workspace = selected'
        /\ call'[q].todo = Steps["read"] /\ call'[q].said = None
    BY <2>2, <2>3 DEF Call
  <2>5. (\A p \in Calls : About(p)' => p = q) /\ About(q)'
    BY <2>3, <2>4 DEF About
  <2>6. Known(q)'
    BY <2>4, Begins DEF Known
  <2>7. QED BY <2>4, <2>5, <2>6 DEF Showing
<1>6. CASE \E w \in listed : select(r, w)
  BY <1>2, <1>6, Reads DEF select, Selected, Click
<1>7. CASE toggleKillswitch(r)
  <2>1. /\ Alone(r) /\ at'[r] = "ready" /\ call'[r] = Call("toggle", selected, ~shown)
        /\ selected' = selected /\ doubt' = (doubt \/ Asking(r))
    BY <1>2, <1>7 DEF toggleKillswitch, Click
  <2>2. doubt' \/ \A q \in Calls : About(q)' => q = r
    BY <2>1 DEF Asking, About, Alone
  <2>3. About(r)' /\ Known(r)' /\ call'[r].workspace = selected'
    BY <2>1 DEF About, Known, Call
  <2>4. QED BY <2>2, <2>3 DEF Showing
<1>8. CASE \/ \E u \in Users : signIn(r, u)
           \/ \E n \in Names : createWorkspace(r, n)
           \/ saveDraft(r) \/ refresh(r)
           \/ \E i \in shelf : decide(r, i)
  <2>1. ~About(r)
    BY <1>8 DEF signIn, createWorkspace, saveDraft, refresh, decide, Click, About
  <2>2. UNCHANGED <<selected, shown, doubt>>
    BY <1>8 DEF signIn, createWorkspace, saveDraft, refresh, decide, shell
  <2>3. \E op \in {"signin", "create", "draft", "inbox", "act"} : \E w, arg : Send(r, op, w, arg)
    BY <1>8 DEF signIn, createWorkspace, saveDraft, refresh, decide, Click
  <2>4. QED BY <1>4, <2>1, <2>2, <2>3
<1>9. CASE created(r)
  <2>1. CASE call[r].said # None
    BY <1>2, <1>9, <2>1, Reads DEF created, Selected, Then
  <2>2. CASE call[r].said = None
    <3>1. ~About(r) /\ UNCHANGED <<selected, shown, doubt>>
      BY <1>9, <2>2 DEF created, Hear, About
    <3>2. QED BY <1>1, <1>3, <1>9, <2>2, <3>1, Aside DEF created
  <2>3. QED BY <2>1, <2>2
<1>10. CASE switchHeard(r)
  <2> DEFINE c == call[r]
  <2>1. /\ Over(r) /\ selected' = selected /\ doubt' = (doubt \/ c.said = None)
        /\ shown' = IF c.said = None THEN shown ELSE c.said.paused
        /\ About(r) /\ at[r] = "answer"
    BY <1>10 DEF switchHeard, Hear, About
  <2>2. ASSUME role = "scriora_app", ~doubt'
        PROVE  /\ \A q \in Calls : ~About(q)'
               /\ selected # None => switch[selected] # None /\ shown' = switch[selected]
    <3>1. ~doubt /\ c.said # None
      BY <2>1, <2>2
    <3>2. /\ \A q \in Calls : About(q) => q = r
          /\ Known(r) /\ (selected # None => c.workspace = selected)
      BY <2>1, <2>2, <3>1 DEF Showing
    <3>3. c.todo = <<>> /\ c.todo # Steps[c.op]
      BY <2>1, <3>1, Begins DEF About, Typed, Carried, CallOK, IsCall
    <3>4. switch[c.workspace] # None /\ shown' = switch[c.workspace]
      BY <2>1, <3>1, <3>2, <3>3 DEF Known
    <3>5. Alone(r) /\ ~About(r)'
      BY <1>3, <2>1
    <3>6. QED BY <3>2, <3>4, <3>5 DEF About, Alone
  <2>3. QED BY <1>1, <2>1, <2>2 DEF Showing
<1>11. CASE signedIn(r) \/ wasListed(r) \/ draftSaved(r) \/ refreshed(r) \/ decided(r)
  <2>1. ~About(r)
    BY <1>11 DEF signedIn, wasListed, draftSaved, refreshed, decided, Hear, About
  <2>2. UNCHANGED <<selected, shown, doubt>>
    BY <1>11 DEF signedIn, wasListed, draftSaved, refreshed, decided, shell
  <2>3. Over(r) \/ \E op, w, arg : Send(r, op, w, arg) /\ op \notin {"read", "toggle"}
    BY <1>11 DEF signedIn, wasListed, draftSaved, refreshed, decided, Then
  <2>4. CASE Over(r)
    BY <1>1, <1>3, <2>1, <2>2, <2>4, Aside
  <2>5. QED BY <1>4, <2>1, <2>2, <2>3, <2>4
<1>12. QED
  BY <1>5, <1>6, <1>7, <1>8, <1>9, <1>10, <1>11 DEF Operate, Deliver

LEMMA ShowingStep == ASSUME Typed, Showing, [Next]_vars PROVE Showing'
<1>1. CASE role # "scriora_app"
  BY <1>1, RoleKept DEF Showing
<1>2. ASSUME role = "scriora_app", NEW r \in Calls, NEW d \in Conns, Api(r, d), UNCHANGED shell PROVE Showing'
  BY <1>2, ShowingServed
<1>3. CASE deselect
  BY <1>3 DEF deselect, Selected, tenancyVars, tables, Showing, About, Known
<1>4. CASE UNCHANGED vars
  BY <1>4 DEF vars, tenancyVars, tables, shell, Showing, About, Known
<1>5. QED BY <1>1, <1>2, <1>3, <1>4, Kinds, ShowingAtDesk

\* For scriora_app, with nothing asked and no doubt about what was, the stop button
\* shows the switch of the workspace that is selected, in whatever order the answers
\* came (ClassicShell.tsx:78-126).
THEOREM ShellShowsSwitchAlways == Spec => []ShellShowsSwitch
<1>1. Init => Showing
  BY DEF Init, InitTenancy, Showing, About
<1>2. ASSUME Typed, Showing PROVE ShellShowsSwitch
  BY <1>2, NoneApart DEF Showing, ShellShowsSwitch, Asking, About
<1>3. QED BY <1>1, <1>2, ShowingStep, TypedAlways, PTL DEF Spec
=============================================================================
