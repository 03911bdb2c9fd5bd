----------------------------- MODULE Scheduling -----------------------------
(***************************************************************************)
(* The routes that lead from an approved content to its post, over the     *)
(* governance store and the publication pipeline:                          *)
(*                                                                         *)
(*   POST  /contents/:id/schedule   gate, markScheduled, enqueue           *)
(*   PATCH /contents/:id/schedule   reschedule, then outbox.reschedule     *)
(*   POST  /publications            gate, enqueue, processDueOutbox        *)
(*                                                                         *)
(* of apps/api/src/routes. A route awaits each call, so the steps of other *)
(* requests, of the worker and of the clock come between any two of them,  *)
(* and nothing spans the store's transaction and the pipeline's statements.*)
(* Governance and PublishOutbox are taken whole: a step of a route is a    *)
(* step of one of them, and what the route makes of its answer.            *)
(*                                                                         *)
(* Abstracted: the text of a content never changes, so a content stands    *)
(* for its text, and a payload of the pipeline is a content; the clock is  *)
(* a minute.                                                               *)
(***************************************************************************)
EXTENDS Naturals, FiniteSets

CONSTANTS
  Contents, None, SerialReview, SerialCalendar,    \* of Governance
  Workspaces, Members, Keys, WorkspaceOf, Apis, Workers, BatchLimit,
  MaxClaims, MaxAborts, LeaseOutlivesHolder, SerialEnqueue,   \* of PublishOutbox
  LastMinute,   \* bound: the clock stops there
  KeyOf,        \* the key the web interface sends with a content
  OneKey        \* environment: callers send that key and no other

Minutes == 1..LastMinute
Stages == {"idle", "mark", "move", "enqueue", "publish", "queueing", "reschedule"}
Calls == [content: Contents, key: Keys, minute: 0..LastMinute]

VARIABLES
  status, approvals, calendar, paused, at, job, told,
  accounts, attempt, outbox, shares, pc, cur, request, batch, seen, who, mine, aborts,
  stage, call,  \* where each API process stands in its route, and its request
  planned,      \* outbox_commands.next_attempt_at as it was last set by a route
  now

G == INSTANCE Governance WITH Callers <- Apis
P == INSTANCE PublishOutbox WITH Payloads <- Contents

ASSUME SchedulingAssumption ==
  /\ LastMinute \in Nat
  /\ KeyOf \in [Contents -> Keys]
  /\ OneKey \in BOOLEAN
  /\ Apis \cap Workers = {}
  /\ None \notin Calls
  /\ G!GovernanceAssumption /\ P!OutboxAssumption /\ P!NoneAssumption

governance == <<status, approvals, calendar, paused, at, job, told>>
pipeline == <<accounts, attempt, outbox, shares, pc, cur, request, batch, seen, who, mine, aborts>>
routes == <<stage, call>>
vars == <<governance, pipeline, routes, planned, now>>

Init ==
  /\ G!Init /\ P!Init
  /\ stage = [r \in Apis |-> "idle"]
  /\ call = [r \in Apis |-> None]
  /\ planned = [k \in Keys |-> 0]
  /\ now = 0

-----------------------------------------------------------------------------
\* Helpers.

Resting(r) == at[r] = "idle" /\ pc[r] = "idle"

\* A plausible bug: an answered request is not let go.
TurnKeeping(r, from, to) ==
  /\ stage[r] = from
  /\ stage' = [stage EXCEPT ![r] = to]
  /\ UNCHANGED call

\* The route goes on to its next call, or answers.
Turn(r, from, to) ==
  /\ stage[r] = from
  /\ stage' = [stage EXCEPT ![r] = to]
  /\ call' = IF to = "idle" THEN [call EXCEPT ![r] = None] ELSE call

KeysFor(c) == IF OneKey THEN {KeyOf[c]} ELSE Keys

\* A request arrives, with its first call made.
Serve(r, to, c, k, minute) ==
  /\ stage[r] = "idle" /\ Resting(r)
  /\ k \in KeysFor(c)
  /\ stage' = [stage EXCEPT ![r] = to]
  /\ call' = [call EXCEPT ![r] = [content |-> c, key |-> k, minute |-> minute]]
  /\ UNCHANGED <<governance, pipeline, planned, now>>

\* A plausible bug: the command is queued without a place in the calendar.
PostScheduleUnmarked(r, c, k, minute) == G!MayDispatch(c) /\ Serve(r, "enqueue", c, k, minute)

\* POST schedule and POST publications load the content and ask the gate. A
\* gate that is shut ends the request with nothing changed.
PostSchedule(r, c, k, minute) == G!MayDispatch(c) /\ Serve(r, "mark", c, k, minute)
PostPublication(r, c, k)      == G!MayDispatch(c) /\ Serve(r, "publish", c, k, now)

\* PATCH schedule asks no gate.
PatchSchedule(r, c, k, minute) == Serve(r, "move", c, k, minute)

\* markScheduled, and its three ends.
Mark(r) ==
  LET asked == call[r] IN
  /\ \/ /\ Turn(r, "mark", "mark")
        /\ G!MarkRead(r, asked.content, asked.minute) \/ G!Check(r, "check", "mark")
     \/ Turn(r, "mark", "enqueue") /\ G!MarkWrite(r)
     \/ Turn(r, "mark", "idle") /\ (G!MarkRefused(r) \/ G!Rollback(r))
  /\ UNCHANGED <<pipeline, planned, now>>

\* reschedule, and its three ends.
Move(r) ==
  LET asked == call[r] IN
  /\ \/ /\ Turn(r, "move", "move")
        /\ G!MoveRead(r, asked.content, asked.minute) \/ G!Check(r, "recheck", "move")
     \/ Turn(r, "move", "reschedule") /\ G!MoveWrite(r)
     \/ Turn(r, "move", "idle") /\ (G!MoveRefused(r) \/ G!Rollback(r))
  /\ UNCHANGED <<pipeline, planned, now>>

\* The content goes into the pipeline. Scheduled, it is not due yet.
Queue(r) ==
  /\ \E m \in Members :
       \/ Turn(r, "enqueue", "queueing") /\ P!Request(r, call[r].key, m, call[r].content, TRUE)
       \/ Turn(r, "publish", "queueing") /\ P!Request(r, call[r].key, m, call[r].content, FALSE)
  /\ UNCHANGED <<governance, planned, now>>

\* The pipeline works on the request until it has an answer. A command keeps
\* the time it was first queued for.
Queueing(r) ==
  LET k == call[r].key IN
  /\ P!ServeRequest(r) \/ P!Dispatch(r) \/ P!Abort(r)
  /\ Turn(r, "queueing", IF pc'[r] = "idle" THEN "idle" ELSE "queueing")
  /\ planned' = IF outbox[k] = None /\ outbox'[k] # None
                THEN [planned EXCEPT ![k] = call[r].minute] ELSE planned
  /\ UNCHANGED <<governance, now>>

\* outbox.reschedule moves a command that is PENDING.
MoveCommand(r) ==
  LET asked == call[r] IN
  /\ Turn(r, "reschedule", "idle")
  /\ P!Reschedule(asked.key, asked.minute <= now)
  /\ planned' = [planned EXCEPT ![asked.key] = asked.minute]
  /\ UNCHANGED <<governance, now>>

\* The call a route stands before is refused, and the route answers so, with
\* what it did before left as it is: illegal_transition, not_scheduled,
\* already_dispatched, not_found, not_connected, publish_denied.
Refused(r) ==
  LET c == call[r].content
      k == call[r].key
      w == WorkspaceOf[k] IN
  /\ Resting(r)
  /\ \/ Turn(r, "mark", "idle") /\ status[c] # "SCHEDULED" /\ ~G!canTransition(status[c], "SCHEDULED")
     \/ Turn(r, "move", "idle") /\ status[c] # "SCHEDULED"
     \/ /\ Turn(r, "reschedule", "idle")
        /\ outbox[k] # None => outbox[k].state # "PENDING"
     \/ /\ Turn(r, "enqueue", "idle") \/ Turn(r, "publish", "idle")
        /\ \/ P!Publishers(w) = {}
           \/ \E m \in P!Publishers(w) : ~P!canPublish(w, m)
  /\ UNCHANGED <<governance, pipeline, planned, now>>

\* The process dies between two calls of its route.
Die(r) ==
  /\ Resting(r) /\ stage[r] # "idle"
  /\ Turn(r, stage[r], "idle")
  /\ aborts < MaxAborts
  /\ aborts' = aborts + 1
  /\ UNCHANGED <<governance, accounts, attempt, outbox, shares, pc, cur, request, batch, seen,
                 who, mine, planned, now>>

Route(r) ==
  \/ \E c \in Contents, k \in Keys :
       \/ PostPublication(r, c, k)
       \/ \E m \in Minutes : PostSchedule(r, c, k, m) \/ PatchSchedule(r, c, k, m)
  \/ Mark(r) \/ Move(r) \/ Queue(r) \/ Queueing(r) \/ MoveCommand(r)
  \/ Refused(r) \/ Die(r)

\* The routes that are one call of the governance store.
Govern ==
  /\ \/ \E r \in Apis : stage[r] = "idle" /\ (G!Review(r) \/ G!Rollback(r))
     \/ \E c \in Contents : G!createDraft(c)
     \/ \E b \in BOOLEAN : G!setDispatchPaused(b)
  /\ UNCHANGED <<pipeline, routes, planned, now>>

\* The worker, accounts and leases.
Pipeline ==
  /\ \/ \E w \in Workers : P!Dispatch(w) \/ P!Abort(w) \/ P!Restart(w)
     \/ \E k \in Keys : P!LeaseExpires(k) \/ (planned[k] <= now /\ P!BecomesDue(k))
     \/ \E w \in Workspaces, m \in Members, cap \in {"read", "publish"} : P!Connect(w, m, cap)
  /\ UNCHANGED <<governance, routes, planned, now>>

Tick ==
  /\ now < LastMinute
  /\ now' = now + 1
  /\ UNCHANGED <<governance, pipeline, routes, planned>>

Next == (\E r \in Apis : Route(r)) \/ Govern \/ Pipeline \/ Tick

Spec == Init /\ [][Next]_vars

-----------------------------------------------------------------------------
\* Properties.

\* Types of what this module adds, and a request for a route that is served.
TypeOK ==
  /\ stage \in [Apis -> Stages]
  /\ call \in [Apis -> Calls \cup {None}]
  /\ planned \in [Keys -> 0..LastMinute]
  /\ now \in 0..LastMinute
  /\ \A r \in Apis : stage[r] = "idle" <=> call[r] = None

\* Whatever races or dies, on the way through store and queue: nothing passes
\* the gate, reaches the calendar, is queued or posted that no human approved
\* (publish-gate.ts:23-28), and no content has two approvals to decide.
NothingUnapproved ==
  /\ G!HumanGate /\ G!CalendarIsApproved /\ G!OnePending
  /\ \A k \in Keys : outbox[k] # None => "APPROVED" \in told[outbox[k].payload]
  /\ \A s \in shares : "APPROVED" \in told[s.payload]

\* Whatever races in the routes above it, first requests of a key included,
\* ledger, queue, LinkedIn and the copies in memory tell no lie about each other
\* (dispatch.ts:149-170, publish-store.ts:76).
PipelineHolds == P!Coherent

\* No post is made before the time its command is planned for, however the
\* command was moved, retried or claimed again (0005_outbox.sql:55,
\* outbox-store.ts:102-129).
NotBeforePlanned ==
  [][\A s \in shares' \ shares : planned[s.key] <= now]_shares

\* A command is queued for a later minute only when the calendar shows its
\* content, since the routes mark before they queue (contents.ts:84-101).
QueuedIsOnCalendar ==
  [][\A k \in Keys : outbox[k] = None /\ outbox'[k] # None /\ planned'[k] > now
       => calendar[outbox'[k].payload] # None]_<<outbox, planned>>

\* A content is posted once, if its callers keep to the key of the web
\* interface (and leases and first requests behave as in PublishOutbox).
ContentPostedOnce == \A s, t \in shares : s.payload = t.payload => s = t

-----------------------------------------------------------------------------
\* The inductive invariants behind the properties.

\* Where the pipeline has not queued a request yet.
Asking == {"lookup", "reserve", "enqueue"}

\* What a route may rely on at each stage: from a gate that was open to the row
\* in the queue, its content is approved; from markScheduled on it is in the
\* calendar; a command that is due at once is due by the clock.
RouteOK(r) ==
  LET asked == call[r]
      asking == stage[r] = "queueing" /\ pc[r] \in Asking IN
  /\ OneKey /\ stage[r] # "idle" => asked.key = KeyOf[asked.content]
  /\ stage[r] \in {"mark", "move", "reschedule"} => asked.minute \in Minutes
  /\ stage[r] = "mark" /\ at[r] # "idle" => job[r].content = asked.content
  /\ stage[r] \in {"mark", "enqueue", "publish"} \/ asking => "APPROVED" \in told[asked.content]
  /\ stage[r] = "enqueue" => calendar[asked.content] # None
  /\ stage[r] = "publish" => asked.minute <= now
  /\ asking =>
       /\ cur[r] = asked.key /\ request[r].payload = asked.content
       /\ IF request[r].later THEN calendar[asked.content] # None ELSE asked.minute <= now

\* What is queued under k was approved, and is neither due nor in process before
\* its time.
CommandOK(k) ==
  outbox[k] # None =>
    /\ "APPROVED" \in told[outbox[k].payload]
    /\ OneKey => k = KeyOf[outbox[k].payload]
    /\ outbox[k].due => planned[k] <= now
    /\ outbox[k].state = "PROCESSING" => outbox[k].due

ShareOK(s) ==
  /\ "APPROVED" \in told[s.payload]
  /\ OneKey => s.key = KeyOf[s.payload]

\* Holds whatever races.
Ordered ==
  /\ \A r \in Apis : RouteOK(r)
  /\ \A k \in Keys : CommandOK(k)
  /\ \A s \in shares : ShareOK(s)
=============================================================================
