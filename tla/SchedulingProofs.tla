-------------------------- MODULE SchedulingProofs --------------------------
(***************************************************************************)
(* Theorems about the routes, for any contents, keys, processes and        *)
(* minutes. Every step of a route is a step of the governance store or of  *)
(* the pipeline (or neither), so what GovernanceProofs and                 *)
(* PublishPromiseProofs show of each holds of both together. Ordered is what  *)
(* ties them: what a route has asked the one before it turns to the other. *)
(***************************************************************************)
EXTENDS Scheduling, TLAPS

GP == INSTANCE GovernanceProofs WITH Callers <- Apis
PO == INSTANCE PublishPromiseProofs WITH Payloads <- Contents

-----------------------------------------------------------------------------
\* The proofs about each part speak of the part Scheduling is made of.

\* Their assumptions on the constants hold here.
LEMMA SameAssumptions == GP!GovernanceAssumption /\ PO!OutboxAssumption /\ PO!NoneAssumption
BY SchedulingAssumption
   DEF
       G!GovernanceAssumption, G!States, G!Verdicts, G!Jobs, GP!GovernanceAssumption,
       GP!States, GP!Verdicts, GP!Jobs, P!OutboxAssumption, P!NoneAssumption,
       P!AttemptStatuses, P!Fingerprints, P!Posts, P!Attempts, P!OutboxStates, P!Commands,
       P!Requests, PO!OutboxAssumption, PO!NoneAssumption, PO!AttemptStatuses, PO!Fingerprints,
       PO!Posts, PO!Attempts, PO!OutboxStates, PO!Commands, PO!Requests

\* The governance store of GovernanceProofs is the one of the routes.
LEMMA SameGovernance ==
  /\ G!Init => GP!Init
  /\ G!Next => GP!Next
  /\ GP!HumanGate => G!HumanGate
  /\ GP!CalendarIsApproved => G!CalendarIsApproved
  /\ GP!OnePending => G!OnePending
<1> USE DEF
         G!Verdicts, G!vars, G!Init, G!allowed, G!canTransition, G!canLiveDispatch, G!Job,
         G!Begin, G!End, G!Unlocked, G!Free, G!createDraft, G!SubmitRead, G!cancelPending,
         G!SubmitWrite, G!DecideRead, G!DecideWrite, G!setDispatchPaused, G!MarkRead,
         G!Scheduled, G!MarkRefused, G!Check, G!MarkWrite, G!MoveRead, G!MoveRefused,
         G!MoveWrite, G!Rollback, G!Review, G!Schedule, G!Next, G!HumanGate,
         G!CalendarIsApproved, G!OnePending,
         GP!Verdicts, GP!vars, GP!Init, GP!allowed, GP!canTransition, GP!canLiveDispatch,
         GP!Job, GP!Begin, GP!End, GP!Unlocked, GP!Free, GP!createDraft, GP!SubmitRead,
         GP!cancelPending, GP!SubmitWrite, GP!DecideRead, GP!DecideWrite, GP!setDispatchPaused,
         GP!MarkRead, GP!Scheduled, GP!MarkRefused, GP!Check, GP!MarkWrite, GP!MoveRead,
         GP!MoveRefused, GP!MoveWrite, GP!Rollback, GP!Review, GP!Schedule, GP!Next,
         GP!HumanGate, GP!CalendarIsApproved, GP!OnePending
<1>1. G!Init => GP!Init
  BY Zenon
<1>2. G!Next => GP!Next
  BY Zenon
<1>3. (GP!HumanGate => G!HumanGate) /\ (GP!OnePending => G!OnePending)
  BY Zenon
<1>4. GP!CalendarIsApproved => G!CalendarIsApproved
  BY Zenon
<1> HIDE DEF G!Init, GP!Init, G!Next, GP!Next, G!HumanGate, GP!HumanGate,
         G!CalendarIsApproved, GP!CalendarIsApproved, G!OnePending, GP!OnePending
<1>5. QED BY ONLY <1>1, <1>2, <1>3, <1>4

\* The pipeline of PublishOnceProofs is the one of the routes.
LEMMA SamePipeline ==
  /\ P!Init => PO!Init
  /\ P!Next => PO!Next
  /\ \A p : P!ServeRequest(p) => PO!ServeRequest(p)
  /\ \A p : P!Dispatch(p) => PO!Dispatch(p)
  /\ PO!Coherent => P!Coherent
<1> USE DEF
         P!AttemptStatuses, P!Terminal, P!Posted, P!maxOutboxAttempts, P!decideIdempotency,
         P!observeLinkedInCreate, P!observeLinkedInVerify, P!finalizePublishStatus,
         P!outboxFollowUp, P!Procs, P!Fingerprints, P!Posts, P!Attempts, P!OutboxStates,
         P!Commands, P!Requests, P!locals, P!vars, P!Init, P!Goto, P!Publishers, P!canPublish,
         P!saveAttempt, P!Open, P!Due, P!Forget, P!Request, P!FirstRequest, P!RepeatRequest,
         P!ConflictingRequest, P!Reserve, P!Enqueue, P!Claim, P!TakeCommand, P!RefuseCommand,
         P!Decision, P!ConflictingCommand, P!ReplayAttempt, P!ReconcileAttempt,
         P!PrepareDispatch, P!SaveMine, P!SaveDispatching, P!SaveCandidate, P!SaveFinal,
         P!AfterCreate, P!Created, P!FreshIds, P!ShareAccepted, P!ShareRefused,
         P!VerifyCreated, P!VerifyExisting, P!FollowUp, P!Complete, P!CompletePublished,
         P!CompleteFailed, P!CompleteRetry, P!Abort, P!Restart, P!LeaseExpires, P!BecomesDue,
         P!Reschedule, P!Connect, P!ServeRequest, P!Dispatch, P!Environment, P!Next,
         P!FingerprintIntegrity, P!LedgerBeforeQueue, P!Truthful, P!TruthfulLedger,
         P!PublishedHasPost, P!AtMostOnePost, P!Running, P!WithCopy, P!LocalsOK, P!CopyOK,
         P!Coherent, P!Cardinality,
         PO!AttemptStatuses, PO!Terminal, PO!Posted, PO!maxOutboxAttempts,
         PO!decideIdempotency, PO!observeLinkedInCreate, PO!observeLinkedInVerify,
         PO!finalizePublishStatus, PO!outboxFollowUp, PO!Procs, PO!Fingerprints, PO!Posts,
         PO!Attempts, PO!OutboxStates, PO!Commands, PO!Requests, PO!locals, PO!vars, PO!Init,
         PO!Goto, PO!Publishers, PO!canPublish, PO!saveAttempt, PO!Open, PO!Due, PO!Forget,
         PO!Request, PO!FirstRequest, PO!RepeatRequest, PO!ConflictingRequest, PO!Reserve,
         PO!Enqueue, PO!Claim, PO!TakeCommand, PO!RefuseCommand, PO!Decision,
         PO!ConflictingCommand, PO!ReplayAttempt, PO!ReconcileAttempt, PO!PrepareDispatch,
         PO!SaveMine, PO!SaveDispatching, PO!SaveCandidate, PO!SaveFinal, PO!AfterCreate,
         PO!Created, PO!FreshIds, PO!ShareAccepted, PO!ShareRefused, PO!VerifyCreated,
         PO!VerifyExisting, PO!FollowUp, PO!Complete, PO!CompletePublished, PO!CompleteFailed,
         PO!CompleteRetry, PO!Abort, PO!Restart, PO!LeaseExpires, PO!BecomesDue, PO!Reschedule,
         PO!Connect, PO!ServeRequest, PO!Dispatch, PO!Environment, PO!Next,
         PO!FingerprintIntegrity, PO!LedgerBeforeQueue, PO!Truthful, PO!TruthfulLedger,
         PO!PublishedHasPost, PO!AtMostOnePost, PO!Running, PO!WithCopy, PO!LocalsOK,
         PO!CopyOK, PO!Coherent, PO!Cardinality
<1>1. P!Init => PO!Init
  BY Zenon
<1>2. P!Next => PO!Next
  BY Zenon
<1>3. ASSUME NEW p, P!ServeRequest(p) PROVE PO!ServeRequest(p)
  BY Zenon, <1>3
<1>4. ASSUME NEW p, P!Dispatch(p) PROVE PO!Dispatch(p)
  BY Zenon, <1>4
<1>5. PO!Coherent => P!Coherent
  BY Zenon
<1> HIDE DEF P!Init, PO!Init, P!Next, PO!Next, P!ServeRequest, PO!ServeRequest,
         P!Dispatch, PO!Dispatch, P!Coherent, PO!Coherent
<1>6. QED BY ONLY <1>1, <1>2, <1>3, <1>4, <1>5

-----------------------------------------------------------------------------
\* The steps of the parts.

\* A request that is served has a content, a key and a minute.
LEMMA Asked ==
  ASSUME TypeOK, NEW r \in Apis, stage[r] # "idle"
  PROVE  /\ call[r].content \in Contents /\ call[r].key \in Keys
         /\ call[r].minute \in 0..LastMinute
<1>1. call[r] \in Calls
  BY DEF TypeOK
<1>2. QED BY <1>1 DEF Calls

\* Every step is a step of the governance store, or leaves it alone.
LEMMA GovernSteps ==
  ASSUME TypeOK, Ordered, [Next]_vars
  PROVE  [GP!Next]_(GP!vars)
<1>1. ASSUME UNCHANGED governance PROVE UNCHANGED GP!vars
  BY <1>1 DEF governance, GP!vars
<1>2. ASSUME NEW r \in Apis, Mark(r) PROVE GP!Next
  <2>1. stage[r] = "mark"
    BY <1>2 DEF Mark, Turn
  <2>2. call[r].content \in Contents /\ call[r].minute \in Minutes
    BY <2>1, Asked DEF Ordered, RouteOK
  <2>3. G!Next
    BY <1>2, <2>2 DEF Mark, G!Next, G!Schedule
  <2>4. QED BY <2>3, SameGovernance
<1>3. ASSUME NEW r \in Apis, Move(r) PROVE GP!Next
  <2>1. stage[r] = "move"
    BY <1>3 DEF Move, Turn
  <2>2. call[r].content \in Contents /\ call[r].minute \in Minutes
    BY <2>1, Asked DEF Ordered, RouteOK
  <2>3. G!Next
    BY <1>3, <2>2 DEF Move, G!Next, G!Schedule
  <2>4. QED BY <2>3, SameGovernance
<1>4. ASSUME Govern PROVE GP!Next
  <2>1. G!Next
    BY <1>4 DEF Govern, G!Next
  <2>2. QED BY <2>1, SameGovernance
<1>5. ASSUME NEW r \in Apis, Route(r), ~Mark(r), ~Move(r) PROVE UNCHANGED governance
  BY <1>5 DEF Route, PostPublication, PostSchedule, PatchSchedule, Serve, Queue, Queueing,
              MoveCommand, Refused, Die
<1>6. ASSUME Pipeline \/ Tick \/ UNCHANGED vars PROVE UNCHANGED governance
  BY <1>6 DEF Pipeline, Tick, vars
<1>7. QED
  BY <1>1, <1>2, <1>3, <1>4, <1>5, <1>6 DEF Next

\* Every step is a step of the pipeline, or leaves it alone, but for the count
\* of the processes that died.
LEMMA PipelineSteps ==
  ASSUME TypeOK, [Next]_vars
  PROVE  [PO!Next]_(PO!vars) \/ \E r \in Apis : Die(r)
<1>1. ASSUME UNCHANGED pipeline PROVE UNCHANGED PO!vars
  BY <1>1 DEF pipeline, PO!vars, PO!locals
<1>2. ASSUME NEW r \in Apis, Queue(r) PROVE P!Next
  <2>1. stage[r] # "idle"
    BY <1>2 DEF Queue, Turn
  <2>2. call[r].content \in Contents /\ call[r].key \in Keys
    BY <2>1, Asked
  <2>3. \E m \in Members, later \in BOOLEAN :
          P!Request(r, call[r].key, m, call[r].content, later)
    BY <1>2 DEF Queue
  <2>4. QED BY <2>2, <2>3 DEF P!Next, P!Environment
<1>3. ASSUME NEW r \in Apis, Queueing(r) PROVE P!Next
  BY <1>3 DEF Queueing, P!Next, P!Environment, P!Procs
<1>4. ASSUME NEW r \in Apis, MoveCommand(r) PROVE P!Next
  <2>1. call[r].key \in Keys
    BY <1>4, Asked DEF MoveCommand, Turn
  <2>2. ASSUME NEW due \in BOOLEAN, P!Reschedule(call[r].key, due) PROVE P!Next
    BY <2>1, <2>2 DEF P!Next, P!Environment
  <2>3. (call[r].minute <= now) \in BOOLEAN
    OBVIOUS
  <2>4. P!Reschedule(call[r].key, call[r].minute <= now)
    BY <1>4 DEF MoveCommand
  <2>5. QED BY <2>2, <2>3, <2>4
<1>5. ASSUME Pipeline PROVE P!Next
  BY <1>5 DEF Pipeline, P!Next, P!Environment, P!Procs
<1>6. ASSUME NEW r \in Apis, Route(r), ~Queue(r), ~Queueing(r), ~MoveCommand(r), ~Die(r)
      PROVE  UNCHANGED pipeline
  BY <1>6 DEF Route, PostPublication, PostSchedule, PatchSchedule, Serve, Mark, Move, Refused
<1>7. ASSUME Govern \/ Tick \/ UNCHANGED vars PROVE UNCHANGED pipeline
  BY <1>7 DEF Govern, Tick, vars
<1>8. QED
  BY <1>1, <1>2, <1>3, <1>4, <1>5, <1>6, <1>7, SamePipeline DEF Next

\* What holds of the parts, and what ties them.
Inv ==
  /\ TypeOK
  /\ GP!Typed /\ GP!Gated
  /\ PO!TypeOK /\ PO!Coherent
  /\ Ordered

\* Nothing is taken back as time goes on.
Later ==
  /\ \A c \in Contents :
       told[c] \subseteq told'[c] /\ (calendar[c] # None => calendar'[c] # None)
  /\ now <= now'

\* A process that dies between two calls is counted, and no more.
LEMMA DieCounts ==
  ASSUME PO!TypeOK, NEW r \in Apis, Die(r)
  PROVE  /\ aborts' \in 0..MaxAborts
         /\ UNCHANGED <<accounts, attempt, outbox, shares, pc, PO!locals>>
<1>1. aborts \in 0..MaxAborts /\ MaxAborts \in Nat
  BY SameAssumptions DEF PO!TypeOK, PO!OutboxAssumption
<1>2. aborts' \in 0..MaxAborts
  BY <1>1 DEF Die
<1>3. QED BY <1>2 DEF Die, PO!locals

\* The parts keep what holds of them, whatever the routes do.
LEMMA PartsStep ==
  ASSUME Inv, [Next]_vars
  PROVE  /\ (GP!Typed /\ GP!Gated)'
         /\ (PO!TypeOK /\ PO!Coherent)'
         /\ PO!Grows
         /\ Later
<1>1. [GP!Next]_(GP!vars)
  BY GovernSteps DEF Inv
<1>2. (GP!Typed /\ GP!Gated)'
  BY <1>1, SameAssumptions, GP!TypedStep, GP!GatedStep DEF Inv
<1>3. ASSUME [PO!Next]_(PO!vars) PROVE PO!TypeOK' /\ PO!Coherent' /\ PO!Grows
  BY <1>3, SameAssumptions, PO!TypeStep, PO!CoherentStep, PO!StepGrows DEF Inv, PO!Coherent
<1>4. ASSUME NEW r \in Apis, Die(r) PROVE PO!TypeOK' /\ PO!Coherent' /\ PO!Grows
  <2>1. PO!TypeOK' /\ PO!Coherent'
    BY <1>4, DieCounts, SameAssumptions, PO!OnlyCounted DEF Inv
  <2>2. QED BY <1>4, <2>1 DEF Die, PO!Grows
<1>5. PO!TypeOK' /\ PO!Coherent' /\ PO!Grows
  BY <1>3, <1>4, PipelineSteps DEF Inv
<1>6. \A c \in Contents :
        told[c] \subseteq told'[c] /\ (calendar[c] # None => calendar'[c] # None)
  BY <1>1, SameAssumptions, GP!NothingTakenBack DEF Inv
<1>7. now <= now'
  <2>1. now \in Nat
    BY SchedulingAssumption DEF Inv, TypeOK
  <2>2. ASSUME NEW r \in Apis, Route(r) PROVE now' = now
    BY <2>2 DEF Route, PostPublication, PostSchedule, PatchSchedule, Serve, Mark, Move, Queue, Queueing,
                MoveCommand, Refused, Die
  <2>3. ASSUME Govern \/ Pipeline \/ UNCHANGED vars PROVE now' = now
    BY <2>3 DEF Govern, Pipeline, vars
  <2>4. QED BY <2>1, <2>2, <2>3 DEF Next, Tick
<1>8. QED BY <1>2, <1>5, <1>6, <1>7 DEF Later

-----------------------------------------------------------------------------
\* The types.

\* A route goes on, or answers.
LEMMA TurnStep ==
  ASSUME TypeOK, NEW r \in Apis, NEW from \in Stages \ {"idle"}, NEW to \in Stages,
         Turn(r, from, to)
  PROVE  /\ stage[r] = from /\ stage'[r] = to /\ (to # "idle" => call'[r] = call[r])
         /\ \A q \in Apis : q # r => stage'[q] = stage[q] /\ call'[q] = call[q]
         /\ stage' \in [Apis -> Stages] /\ call' \in [Apis -> Calls \cup {None}]
         /\ \A q \in Apis : stage'[q] = "idle" <=> call'[q] = None
<1> USE DEF TypeOK
<1>1. /\ stage[r] = from /\ stage' = [stage EXCEPT ![r] = to]
      /\ call' = IF to = "idle" THEN [call EXCEPT ![r] = None] ELSE call
  BY DEF Turn
<1>2. stage' \in [Apis -> Stages] /\ call' \in [Apis -> Calls \cup {None}]
  BY <1>1
<1>3. /\ stage'[r] = to /\ (to # "idle" => call'[r] = call[r])
      /\ \A q \in Apis : q # r => stage'[q] = stage[q] /\ call'[q] = call[q]
  BY <1>1
<1>4. stage'[r] = "idle" <=> call'[r] = None
  BY <1>1, <1>3
<1>5. QED BY <1>1, <1>2, <1>3, <1>4

\* A request arrives.
LEMMA ServeStep ==
  ASSUME TypeOK, NEW r \in Apis, NEW to \in Stages \ {"idle"}, NEW c \in Contents, NEW k \in Keys,
         NEW minute \in 0..LastMinute, Serve(r, to, c, k, minute)
  PROVE  /\ stage'[r] = to
         /\ call'[r].content = c /\ call'[r].key = k /\ call'[r].minute = minute
         /\ OneKey => k = KeyOf[c]
         /\ \A q \in Apis : q # r => stage'[q] = stage[q] /\ call'[q] = call[q]
         /\ TypeOK'
<1> DEFINE asked == [content |-> c, key |-> k, minute |-> minute]
<1>1. /\ stage' = [stage EXCEPT ![r] = to] /\ call' = [call EXCEPT ![r] = asked]
      /\ k \in KeysFor(c) /\ UNCHANGED <<planned, now>>
  BY DEF Serve
<1>2. asked \in Calls /\ asked.content = c /\ asked.key = k /\ asked.minute = minute
  BY DEF Calls
<1>3. asked # None
  BY <1>2, SchedulingAssumption
<1> HIDE DEF asked
<1>4. TypeOK'
  BY <1>1, <1>2, <1>3 DEF TypeOK
<1>5. OneKey => k = KeyOf[c]
  BY <1>1 DEF KeysFor
<1>6. QED BY <1>1, <1>2, <1>4, <1>5 DEF TypeOK

\* Every step keeps the types.
LEMMA TypeStep ==
  ASSUME TypeOK, [Next]_vars
  PROVE  TypeOK'
<1>1. ASSUME NEW r \in Apis, NEW c \in Contents, NEW k \in Keys, PostPublication(r, c, k) PROVE TypeOK'
  BY <1>1, ServeStep DEF PostPublication, Stages, TypeOK
<1>2. ASSUME NEW r \in Apis, NEW c \in Contents, NEW k \in Keys, NEW m \in Minutes,
             PostSchedule(r, c, k, m) \/ PatchSchedule(r, c, k, m)
      PROVE  TypeOK'
  <2>1. m \in 0..LastMinute
    BY SchedulingAssumption DEF Minutes
  <2>2. QED BY <1>2, <2>1, ServeStep DEF PostSchedule, PatchSchedule, Stages
<1>3. ASSUME NEW r \in Apis, NEW from \in Stages \ {"idle"}, NEW to \in Stages, Turn(r, from, to),
             planned' \in [Keys -> 0..LastMinute], now' = now
      PROVE  TypeOK'
  BY <1>3, TurnStep DEF TypeOK
<1>4. ASSUME NEW r \in Apis, Mark(r) \/ Move(r) \/ Queue(r) \/ Refused(r) \/ Die(r) PROVE TypeOK'
  <2>1. planned' = planned /\ now' = now
    BY <1>4 DEF Mark, Move, Queue, Refused, Die
  <2>2. \E from \in Stages \ {"idle"}, to \in Stages : Turn(r, from, to)
    BY <1>4 DEF Mark, Move, Queue, Refused, Die, Stages, TypeOK
  <2>3. QED BY <1>3, <2>1, <2>2 DEF TypeOK
<1>5. ASSUME NEW r \in Apis, Queueing(r) \/ MoveCommand(r) PROVE TypeOK'
  <2>1. \E from \in Stages \ {"idle"}, to \in Stages : Turn(r, from, to)
    BY <1>5 DEF Queueing, MoveCommand, Stages
  <2>2. call[r].key \in Keys /\ call[r].minute \in 0..LastMinute
    BY <1>5, Asked DEF Queueing, MoveCommand, Turn
  <2>3. planned' \in [Keys -> 0..LastMinute] /\ now' = now
    BY <1>5, <2>2 DEF Queueing, MoveCommand, TypeOK
  <2>4. QED BY <1>3, <2>1, <2>3
<1>6. ASSUME Govern \/ Pipeline \/ UNCHANGED vars PROVE TypeOK'
  BY <1>6 DEF Govern, Pipeline, vars, routes, TypeOK
<1>7. ASSUME Tick PROVE TypeOK'
  BY <1>7, SchedulingAssumption DEF Tick, routes, TypeOK
<1>8. QED
  BY <1>1, <1>2, <1>4, <1>5, <1>6, <1>7 DEF Next, Route

-----------------------------------------------------------------------------
\* The routes.

\* The step leaves route q where it is.
Left(q) ==
  /\ stage'[q] = stage[q] /\ call'[q] = call[q]
  /\ stage[q] = "mark" => at'[q] = at[q] /\ job'[q] = job[q]
  /\ stage[q] = "queueing" => pc'[q] = pc[q] /\ cur'[q] = cur[q] /\ request'[q] = request[q]

\* A route may go on relying on what it relied on.
LEMMA RouteKept ==
  ASSUME TypeOK, TypeOK', Ordered, Later, NEW q \in Apis, Left(q)
  PROVE  RouteOK(q)'
<1>1. CASE stage[q] = "idle"
  BY <1>1 DEF Left, RouteOK
<1>2. CASE stage[q] # "idle"
  <2>1. call[q].content \in Contents /\ call[q].minute \in Nat /\ now \in Nat /\ now' \in Nat
    BY <1>2, Asked, SchedulingAssumption DEF TypeOK
  <2>2. call[q].minute <= now => call[q].minute <= now'
    BY <2>1 DEF Later
  <2>3. "APPROVED" \in told[call[q].content] => "APPROVED" \in told'[call[q].content]
    BY <2>1 DEF Later
  <2>4. calendar[call[q].content] # None => calendar'[call[q].content] # None
    BY <2>1 DEF Later
  <2>5. RouteOK(q)
    BY DEF Ordered
  <2>6. QED BY <2>2, <2>3, <2>4, <2>5 DEF Left, RouteOK
<1>3. QED BY <1>1, <1>2

\* markScheduled works on the content it is called with, and only its end that
\* wrote the calendar lets the route go on.
LEMMA MarkRoute ==
  ASSUME Inv, NEW r \in Apis, Mark(r)
  PROVE  RouteOK(r)' /\ \A q \in Apis : q # r => Left(q)
<1>0. /\ stage[r] = "mark" /\ RouteOK(r) /\ call[r].content \in Contents /\ call[r].minute \in Minutes
      /\ UNCHANGED pipeline
  <2>1. stage[r] = "mark" /\ UNCHANGED pipeline
    BY DEF Mark, Turn
  <2>2. QED BY <2>1, Asked DEF Inv, Ordered, RouteOK
<1>1. at \in [Apis -> GP!Labels] /\ job \in [Apis -> GP!Jobs \cup {None}]
  BY DEF Inv, GP!Typed, GP!TypeOK
<1>2. ASSUME Turn(r, "mark", "mark"), G!MarkRead(r, call[r].content, call[r].minute)
      PROVE  RouteOK(r)' /\ \A q \in Apis : q # r => Left(q)
  <2>1. at' = [at EXCEPT ![r] = "check"] /\ job'[r].content = call[r].content
        /\ (\A q \in Apis : q # r => job'[q] = job[q]) /\ UNCHANGED told
    BY <1>1, <1>2 DEF G!MarkRead, G!Begin, G!Job
  <2>2. \A q \in Apis : q # r => Left(q)
    BY <1>0, <1>1, <1>2, <2>1, TurnStep DEF Left, Inv, Stages, pipeline
  <2>3. stage'[r] = "mark" /\ call'[r] = call[r]
    BY <1>2, TurnStep DEF Inv, Stages
  <2>4. RouteOK(r)'
    BY <1>0, <2>1, <2>3 DEF RouteOK
  <2>5. QED BY <2>2, <2>4
<1>3. ASSUME Turn(r, "mark", "mark"), G!Check(r, "check", "mark")
      PROVE  RouteOK(r)' /\ \A q \in Apis : q # r => Left(q)
  <2>1. at[r] = "check" /\ at' = [at EXCEPT ![r] = "mark"] /\ UNCHANGED <<job, told>>
    BY <1>3 DEF G!Check
  <2>2. \A q \in Apis : q # r => Left(q)
    BY <1>0, <1>1, <1>3, <2>1, TurnStep DEF Left, Inv, Stages, pipeline
  <2>3. stage'[r] = "mark" /\ call'[r] = call[r]
    BY <1>3, TurnStep DEF Inv, Stages
  <2>4. RouteOK(r)'
    BY <1>0, <2>1, <2>3 DEF RouteOK
  <2>5. QED BY <2>2, <2>4
<1>4. ASSUME NEW to \in {"enqueue", "idle"}, Turn(r, "mark", to), G!End(r)
      PROVE  \A q \in Apis : q # r => Left(q)
  BY <1>0, <1>1, <1>4, TurnStep DEF G!End, Left, Inv, Stages, pipeline
<1>5. ASSUME Turn(r, "mark", "enqueue"), G!MarkWrite(r)
      PROVE  RouteOK(r)' /\ \A q \in Apis : q # r => Left(q)
  <2>1. at[r] = "mark" /\ job[r].content = call[r].content /\ UNCHANGED told
    BY <1>0, <1>5 DEF G!MarkWrite, RouteOK
  <2>2. job[r].minute \in Minutes
    BY <2>1 DEF Inv, GP!Typed, GP!JobOK, GP!OnCalendar
  <2>3. job[r].minute # None
    BY <2>2, SameAssumptions DEF GP!GovernanceAssumption
  <2>4. calendar'[call[r].content] # None
    BY <1>0, <1>5, <2>1, <2>3 DEF G!MarkWrite, Inv, GP!Typed, GP!TypeOK
  <2>5. stage'[r] = "enqueue" /\ call'[r] = call[r]
    BY <1>5, TurnStep DEF Inv, Stages
  <2>6. RouteOK(r)'
    BY <1>0, <2>1, <2>4, <2>5 DEF RouteOK
  <2>7. QED BY <1>4, <1>5, <2>6 DEF G!MarkWrite
<1>6. ASSUME Turn(r, "mark", "idle"), G!MarkRefused(r) \/ G!Rollback(r)
      PROVE  RouteOK(r)' /\ \A q \in Apis : q # r => Left(q)
  <2>1. stage'[r] = "idle"
    BY <1>6, TurnStep DEF Inv, Stages
  <2>2. RouteOK(r)'
    BY <2>1 DEF RouteOK
  <2>3. QED BY <1>4, <1>6, <2>2 DEF G!MarkRefused, G!Rollback
<1>7. QED BY <1>2, <1>3, <1>5, <1>6 DEF Mark

\* reschedule works on the content it is called with.
LEMMA MoveRoute ==
  ASSUME Inv, NEW r \in Apis, Move(r)
  PROVE  RouteOK(r)' /\ \A q \in Apis : q # r => Left(q)
<1>1. at \in [Apis -> GP!Labels] /\ job \in [Apis -> GP!Jobs \cup {None}]
  BY DEF Inv, GP!Typed, GP!TypeOK
<1>2. /\ \A q \in Apis : q # r => at'[q] = at[q] /\ job'[q] = job[q]
      /\ UNCHANGED pipeline
  BY <1>1 DEF Move, G!MoveRead, G!Begin, G!Check, G!MoveWrite, G!MoveRefused, G!Rollback, G!End
<1>3. PICK to \in {"move", "reschedule", "idle"} : Turn(r, "move", to)
  BY DEF Move
<1>4. /\ stage[r] = "move" /\ stage'[r] = to /\ (to # "idle" => call'[r] = call[r])
      /\ \A q \in Apis : q # r => stage'[q] = stage[q] /\ call'[q] = call[q]
  BY <1>3, TurnStep DEF Inv, Stages
<1>5. RouteOK(r)'
  BY <1>4 DEF Inv, Ordered, RouteOK
<1>6. \A q \in Apis : q # r => Left(q)
  BY <1>2, <1>4 DEF Left, pipeline
<1>7. QED BY <1>5, <1>6

\* What goes into the pipeline is what was asked: from POST schedule with a
\* place in the calendar, from POST publications with no time to wait for.
LEMMA QueueRoute ==
  ASSUME Inv, NEW r \in Apis, Queue(r)
  PROVE  RouteOK(r)' /\ \A q \in Apis : q # r => Left(q)
<1>1. PICK from \in {"enqueue", "publish"}, m \in Members :
        Turn(r, from, "queueing") /\ P!Request(r, call[r].key, m, call[r].content, from = "enqueue")
  BY DEF Queue
<1>2. /\ stage[r] = from /\ stage'[r] = "queueing" /\ call'[r] = call[r]
      /\ \A q \in Apis : q # r => stage'[q] = stage[q] /\ call'[q] = call[q]
  BY <1>1, TurnStep DEF Inv, Stages
<1>3. pc \in [PO!Procs -> PO!Labels] /\ Apis \subseteq PO!Procs
      /\ DOMAIN cur = PO!Procs /\ DOMAIN request = PO!Procs
  BY DEF Inv, PO!TypeOK, PO!Procs
<1>4. /\ pc' = [pc EXCEPT ![r] = "lookup"] /\ cur' = [cur EXCEPT ![r] = call[r].key]
      /\ request' = [request EXCEPT ![r] = [payload |-> call[r].content, later |-> from = "enqueue"]]
  BY <1>1 DEF P!Request, P!Goto
<1>5. /\ cur'[r] = call[r].key /\ request'[r].payload = call[r].content
      /\ request'[r].later <=> from = "enqueue"
  BY <1>3, <1>4
<1>6. UNCHANGED <<told, calendar, now, at, job>>
  BY DEF Queue, governance
<1>7. RouteOK(r)'
  BY <1>2, <1>5, <1>6 DEF Inv, Ordered, RouteOK
<1>8. \A q \in Apis : q # r => Left(q)
  BY <1>2, <1>3, <1>4, <1>6 DEF Left
<1>9. QED BY <1>7, <1>8

\* While the pipeline works on a request, the request is the one it was given.
LEMMA QueueingRoute ==
  ASSUME Inv, NEW r \in Apis, Queueing(r)
  PROVE  RouteOK(r)' /\ \A q \in Apis : q # r => Left(q)
<1>1. /\ r \in PO!Procs /\ r \notin Workers /\ Apis \subseteq PO!Procs
  BY SchedulingAssumption DEF PO!Procs
<1>2. PO!TypeOK /\ PO!LocalsOK
  BY DEF Inv, PO!Coherent
<1>3. /\ PO!Apart(r)
      /\ pc'[r] \in PO!Asking => pc[r] \in PO!Asking /\ cur'[r] = cur[r] /\ request'[r] = request[r]
  <2>1. CASE P!ServeRequest(r)
    BY <1>1, <1>2, <2>1, SamePipeline, SameAssumptions, PO!ServeEffects DEF PO!Serving
  <2>2. CASE P!Dispatch(r)
    BY <1>1, <1>2, <2>2, SamePipeline, SameAssumptions, PO!DispatchEffects DEF PO!Dispatching
  <2>3. CASE P!Abort(r)
    BY <1>1, <1>2, <2>3 DEF P!Abort, P!Forget, PO!TypeOK, PO!Apart, PO!Asking
  <2>4. QED BY <2>1, <2>2, <2>3 DEF Queueing
<1>4. PICK to \in {"queueing", "idle"} : Turn(r, "queueing", to)
  BY DEF Queueing
<1>5. /\ stage[r] = "queueing" /\ stage'[r] = to /\ (to # "idle" => call'[r] = call[r])
      /\ \A q \in Apis : q # r => stage'[q] = stage[q] /\ call'[q] = call[q]
  BY <1>4, TurnStep DEF Inv, Stages
<1>6. UNCHANGED <<told, calendar, now, at, job>>
  BY DEF Queueing, governance
<1>7. RouteOK(r)'
  BY <1>3, <1>5, <1>6 DEF Inv, Ordered, RouteOK, Asking, PO!Asking
<1>8. \A q \in Apis : q # r => Left(q)
  BY <1>1, <1>3, <1>5, <1>6 DEF Left, PO!Apart
<1>9. QED BY <1>7, <1>8

\* Every step leaves every route with what it may rely on.
LEMMA RouteStep ==
  ASSUME Inv, [Next]_vars
  PROVE  \A q \in Apis : RouteOK(q)'
<1>0. TypeOK /\ TypeOK' /\ Ordered /\ Later
  BY TypeStep, PartsStep DEF Inv
<1>1. ASSUME NEW r \in Apis, RouteOK(r)', \A q \in Apis : q # r => Left(q)
      PROVE  \A q \in Apis : RouteOK(q)'
  BY <1>0, <1>1, RouteKept
<1>2. ASSUME NEW r \in Apis, NEW c \in Contents, NEW k \in Keys, PostPublication(r, c, k)
      PROVE  \A q \in Apis : RouteOK(q)'
  <2>1. now \in 0..LastMinute
    BY <1>0 DEF TypeOK
  <2>2. /\ stage'[r] = "publish" /\ call'[r].content = c /\ call'[r].key = k /\ call'[r].minute = now
        /\ OneKey => k = KeyOf[c]
        /\ \A q \in Apis : q # r => stage'[q] = stage[q] /\ call'[q] = call[q]
    BY <1>0, <1>2, <2>1, ServeStep DEF PostPublication, Stages
  <2>3. "APPROVED" \in told[c]
    BY <1>2 DEF PostPublication, G!MayDispatch, G!canLiveDispatch, Inv, GP!Gated, GP!HumanGate, GP!canLiveDispatch
  <2>4. UNCHANGED <<governance, pipeline, now>>
    BY <1>2 DEF PostPublication, Serve
  <2>5. RouteOK(r)'
    BY <2>1, <2>2, <2>3, <2>4 DEF RouteOK, governance
  <2>6. \A q \in Apis : q # r => Left(q)
    BY <2>2, <2>4 DEF Left, governance, pipeline
  <2>7. QED BY <1>1, <2>5, <2>6
<1>3. ASSUME NEW r \in Apis, NEW c \in Contents, NEW k \in Keys, NEW m \in Minutes,
             NEW to \in {"mark", "move"}, Serve(r, to, c, k, m),
             to = "mark" => "APPROVED" \in told[c]
      PROVE  \A q \in Apis : RouteOK(q)'
  <2>1. m \in 0..LastMinute
    BY SchedulingAssumption DEF Minutes
  <2>2. /\ stage'[r] = to /\ call'[r].content = c /\ call'[r].key = k /\ call'[r].minute = m
        /\ OneKey => k = KeyOf[c]
        /\ \A q \in Apis : q # r => stage'[q] = stage[q] /\ call'[q] = call[q]
    BY <1>0, <1>3, <2>1, ServeStep DEF Stages
  <2>3. UNCHANGED <<governance, pipeline>> /\ at[r] = "idle"
    BY <1>3 DEF Serve, Resting
  <2>4. RouteOK(r)'
    BY <1>3, <2>2, <2>3 DEF RouteOK, governance
  <2>5. \A q \in Apis : q # r => Left(q)
    BY <2>2, <2>3 DEF Left, governance, pipeline
  <2>6. QED BY <1>1, <2>4, <2>5
<1>4. ASSUME NEW r \in Apis, NEW c \in Contents, NEW k \in Keys, NEW m \in Minutes,
             PostSchedule(r, c, k, m)
      PROVE  \A q \in Apis : RouteOK(q)'
  <2>1. "APPROVED" \in told[c]
    BY <1>4 DEF PostSchedule, G!MayDispatch, G!canLiveDispatch, Inv, GP!Gated, GP!HumanGate, GP!canLiveDispatch
  <2>2. QED BY <1>3, <1>4, <2>1 DEF PostSchedule
<1>5. ASSUME NEW r \in Apis, NEW c \in Contents, NEW k \in Keys, NEW m \in Minutes,
             PatchSchedule(r, c, k, m)
      PROVE  \A q \in Apis : RouteOK(q)'
  BY <1>3, <1>5 DEF PatchSchedule
<1>6. ASSUME NEW r \in Apis, Mark(r) PROVE \A q \in Apis : RouteOK(q)'
  BY <1>1, <1>6, MarkRoute
<1>7. ASSUME NEW r \in Apis, Move(r) \/ Queue(r) \/ Queueing(r) PROVE \A q \in Apis : RouteOK(q)'
  BY <1>1, <1>7, MoveRoute, QueueRoute, QueueingRoute
<1>8. ASSUME NEW r \in Apis, NEW from \in Stages \ {"idle"}, Turn(r, from, "idle"),
             UNCHANGED <<at, job, pc, cur, request>>
      PROVE  \A q \in Apis : RouteOK(q)'
  <2>1. /\ stage'[r] = "idle"
        /\ \A q \in Apis : q # r => stage'[q] = stage[q] /\ call'[q] = call[q]
    BY <1>0, <1>8, TurnStep DEF Stages
  <2>2. RouteOK(r)'
    BY <2>1 DEF RouteOK
  <2>3. \A q \in Apis : q # r => Left(q)
    BY <1>8, <2>1 DEF Left
  <2>4. QED BY <1>1, <2>2, <2>3
<1>9. ASSUME NEW r \in Apis, MoveCommand(r) PROVE \A q \in Apis : RouteOK(q)'
  BY <1>8, <1>9 DEF MoveCommand, P!Reschedule, P!locals, governance, Stages
<1>10. ASSUME NEW r \in Apis, Refused(r) PROVE \A q \in Apis : RouteOK(q)'
  <2>1. UNCHANGED <<at, job, pc, cur, request>>
    BY <1>10 DEF Refused, governance, pipeline
  <2>2. \E from \in Stages \ {"idle"} : Turn(r, from, "idle")
    BY <1>10 DEF Refused, Stages
  <2>3. QED BY <1>8, <2>1, <2>2
<1>11. ASSUME NEW r \in Apis, Die(r) PROVE \A q \in Apis : RouteOK(q)'
  BY <1>0, <1>8, <1>11 DEF Die, governance, TypeOK
<1>12. ASSUME \A q \in Apis : Left(q) PROVE \A q \in Apis : RouteOK(q)'
  BY <1>0, <1>12, RouteKept
<1>13. ASSUME Govern PROVE \A q \in Apis : Left(q)
  <2>1. ASSUME NEW r \in Apis, stage[r] = "idle", G!Review(r) \/ G!Rollback(r), NEW q \in Apis
        PROVE  q # r => at'[q] = at[q] /\ job'[q] = job[q]
    BY <2>1 DEF G!Review, G!SubmitRead, G!SubmitWrite, G!DecideRead, G!DecideWrite, G!Rollback,
                G!Begin, G!End, Inv, GP!Typed, GP!TypeOK
  <2>2. ASSUME NEW q \in Apis, stage[q] = "mark" PROVE at'[q] = at[q] /\ job'[q] = job[q]
    BY <1>13, <2>1, <2>2 DEF Govern, G!createDraft, G!setDispatchPaused
  <2>3. QED BY <1>13, <2>2 DEF Govern, Left, pipeline, routes
<1>14. ASSUME Pipeline PROVE \A q \in Apis : Left(q)
  <2>1. PO!TypeOK /\ PO!LocalsOK
    BY DEF Inv, PO!Coherent
  <2>2. \A w \in Workers : w \in PO!Procs /\ \A q \in Apis : q \in PO!Procs /\ q # w
    BY SchedulingAssumption DEF PO!Procs
  <2>3. ASSUME NEW w \in Workers, P!Dispatch(w) PROVE PO!Apart(w)
    BY <2>1, <2>2, <2>3, SamePipeline, SameAssumptions, PO!DispatchEffects DEF PO!Dispatching
  <2>4. ASSUME NEW w \in Workers, P!Abort(w) \/ P!Restart(w) PROVE PO!Apart(w)
    BY <2>1, <2>2, <2>4 DEF P!Abort, P!Restart, P!Goto, P!Forget, P!locals, PO!TypeOK, PO!Apart
  <2>5. ASSUME NEW w \in Workers, PO!Apart(w), NEW q \in Apis
        PROVE  pc'[q] = pc[q] /\ cur'[q] = cur[q] /\ request'[q] = request[q]
    BY <2>2, <2>5 DEF PO!Apart
  <2>6. ASSUME NEW q \in Apis PROVE pc'[q] = pc[q] /\ cur'[q] = cur[q] /\ request'[q] = request[q]
    BY <1>14, <2>3, <2>4, <2>5 DEF Pipeline, P!LeaseExpires, P!BecomesDue, P!Connect, P!locals
  <2>7. QED BY <1>14, <2>6 DEF Pipeline, Left, governance, routes
<1>15. ASSUME Tick \/ UNCHANGED vars PROVE \A q \in Apis : Left(q)
  BY <1>15 DEF Tick, vars, Left, governance, pipeline, routes
<1>16. QED
  BY <1>2, <1>4, <1>5, <1>6, <1>7, <1>9, <1>10, <1>11, <1>12, <1>13, <1>14, <1>15 DEF Next, Route

-----------------------------------------------------------------------------
\* The queue and the posts.

\* What the proofs about the pipeline need of a process.
LEMMA Working ==
  ASSUME Inv
  PROVE  /\ PO!TypeOK /\ PO!LocalsOK
         /\ Apis \subseteq PO!Procs /\ Workers \subseteq PO!Procs
         /\ \A p : P!ServeRequest(p) => PO!ServeRequest(p)
         /\ \A p \in PO!Procs : P!Dispatch(p) => PO!Dispatching(p)
         /\ \A p \in PO!Procs : P!ServeRequest(p) => PO!Serving(p)
<1>1. PO!TypeOK /\ PO!LocalsOK
  BY DEF Inv, PO!Coherent
<1>2. ASSUME NEW p \in PO!Procs, P!Dispatch(p) PROVE PO!Dispatching(p)
  BY <1>1, <1>2, SamePipeline, SameAssumptions, PO!DispatchEffects
<1>3. ASSUME NEW p \in PO!Procs, P!ServeRequest(p) PROVE PO!Serving(p)
  BY <1>1, <1>3, SamePipeline, SameAssumptions, PO!ServeEffects
<1>4. QED BY <1>1, <1>2, <1>3, SamePipeline DEF PO!Procs

\* A row that a route adds to the queue is the one it was asked for, at the
\* minute it was asked for, and in the calendar unless that minute has come.
LEMMA NewRow ==
  ASSUME Inv, NEW r \in Apis, Queueing(r), P!ServeRequest(r), NEW k \in Keys, outbox'[k] # outbox[k]
  PROVE  /\ k = call[r].key /\ outbox[k] = None /\ planned'[k] = call[r].minute
         /\ outbox'[k].payload = call[r].content /\ outbox'[k].state = "PENDING"
         /\ IF outbox'[k].due THEN call[r].minute <= now ELSE calendar[call[r].content] # None
         /\ "APPROVED" \in told[call[r].content]
         /\ OneKey => k = KeyOf[call[r].content]
<1>1. PO!Serving(r)
  BY Working
<1>2. /\ pc[r] = "enqueue" /\ k = cur[r] /\ outbox[k] = None
      /\ outbox'[k].payload = request[r].payload
      /\ outbox'[k].state = "PENDING" /\ outbox'[k].due = ~request[r].later
  BY <1>1 DEF PO!Serving
<1>3. stage[r] = "queueing"
  BY DEF Queueing, Turn
<1>4. RouteOK(r) /\ call[r].key \in Keys
  BY <1>3, Asked DEF Inv, Ordered
<1>5. /\ cur[r] = call[r].key /\ request[r].payload = call[r].content
      /\ "APPROVED" \in told[call[r].content]
      /\ OneKey => call[r].key = KeyOf[call[r].content]
      /\ IF request[r].later THEN calendar[call[r].content] # None ELSE call[r].minute <= now
  BY <1>2, <1>3, <1>4 DEF RouteOK, Asking
<1>6. planned'[k] = call[r].minute
  BY <1>2, <1>4, <1>5 DEF Queueing, Inv, TypeOK
<1>7. QED BY <1>2, <1>5, <1>6

\* A post is of a command that some process has in hand.
LEMMA NewPost ==
  ASSUME Inv, [Next]_vars, NEW s \in shares' \ shares
  PROVE  \E p \in PO!Procs : s.key \in batch[p] /\ s.payload = outbox[s.key].payload
<1>1. ASSUME NEW p \in PO!Procs, P!Dispatch(p)
      PROVE  s.key \in batch[p] /\ s.payload = outbox[s.key].payload
  BY <1>1, Working DEF PO!Dispatching
<1>2. ASSUME NEW r \in Apis, Queueing(r) PROVE P!Dispatch(r)
  <2>1. CASE P!ServeRequest(r)
    BY <2>1, Working DEF PO!Serving
  <2>2. CASE P!Abort(r)
    BY <2>2 DEF P!Abort
  <2>3. QED BY <1>2, <2>1, <2>2 DEF Queueing
<1>3. ASSUME Pipeline PROVE \E w \in Workers : P!Dispatch(w)
  BY <1>3 DEF Pipeline, P!Abort, P!Restart, P!LeaseExpires, P!BecomesDue, P!Connect
<1>4. ASSUME NEW r \in Apis, Route(r), ~Queueing(r) PROVE FALSE
  BY <1>4 DEF Route, PostPublication, PostSchedule, PatchSchedule, Serve, Mark, Move, Queue,
              MoveCommand, Refused, Die, P!Request, P!Reschedule, pipeline
<1>5. ASSUME Govern \/ Tick \/ UNCHANGED vars PROVE FALSE
  BY <1>5 DEF Govern, Tick, vars, pipeline
<1>6. QED BY <1>1, <1>2, <1>3, <1>4, <1>5, Working DEF Next

\* Posts are of approved contents, under the key of the content.
LEMMA ShareStep ==
  ASSUME Inv, [Next]_vars
  PROVE  \A s \in shares' : ShareOK(s)'
<1>1. Later
  BY PartsStep
<1>2. ASSUME NEW s \in shares PROVE ShareOK(s)'
  <2>1. s.payload \in Contents
    BY DEF Inv, PO!TypeOK, PO!Posts
  <2>2. QED BY <1>1, <2>1 DEF Inv, Ordered, ShareOK, Later
<1>3. ASSUME NEW s \in shares' \ shares PROVE ShareOK(s)'
  <2>1. PICK p \in PO!Procs : s.key \in batch[p] /\ s.payload = outbox[s.key].payload
    BY <1>3, NewPost
  <2>2. s.key \in Keys /\ outbox[s.key] \in PO!Commands
    BY <2>1, Working DEF PO!TypeOK, PO!LocalsOK
  <2>3. outbox[s.key] # None /\ outbox[s.key].payload \in Contents
    BY <2>2, SameAssumptions DEF PO!NoneAssumption, PO!Commands
  <2>4. CommandOK(s.key)
    BY <2>2 DEF Inv, Ordered
  <2>5. QED BY <1>1, <2>1, <2>3, <2>4 DEF CommandOK, ShareOK, Later
<1>4. QED BY <1>2, <1>3

\* A row that is there, and stays as planned, stays in order.
LEMMA CommandKept ==
  ASSUME Inv, [Next]_vars, NEW k \in Keys, PO!NoneAdded(k), planned'[k] = planned[k]
  PROVE  CommandOK(k)'
<1>1. Later /\ PO!Grows /\ CommandOK(k) /\ TypeOK'
  BY PartsStep, TypeStep DEF Inv, Ordered
<1>2. CASE outbox'[k] = None
  BY <1>2 DEF CommandOK
<1>3. CASE outbox'[k] # None
  <2>1. outbox[k] # None /\ outbox'[k].payload = outbox[k].payload
    BY <1>1, <1>3 DEF PO!NoneAdded, PO!Grows
  <2>2. outbox[k].payload \in Contents
    BY <2>1 DEF Inv, PO!TypeOK, PO!Commands
  <2>3. "APPROVED" \in told'[outbox'[k].payload] /\ (OneKey => k = KeyOf[outbox'[k].payload])
    BY <1>1, <2>1, <2>2 DEF CommandOK, Later
  <2>4. planned[k] \in Nat /\ now \in Nat /\ now' \in Nat
    BY <1>1, SchedulingAssumption DEF Inv, TypeOK
  <2>5. outbox'[k].due => planned'[k] <= now'
    BY <1>1, <1>3, <2>1, <2>4 DEF CommandOK, Later, PO!NoneAdded
  <2>6. outbox'[k].state = "PROCESSING" => outbox'[k].due
    BY <1>1, <1>3, <2>1 DEF CommandOK, PO!NoneAdded
  <2>7. QED BY <2>3, <2>5, <2>6 DEF CommandOK
<1>4. QED BY <1>2, <1>3

\* Dispatching leaves the plan alone, and keeps the queue in order.
LEMMA DispatchKeeps ==
  ASSUME Inv, [Next]_vars, NEW p \in PO!Procs, P!Dispatch(p),
         \A k \in Keys : outbox[k] # None \/ outbox'[k] = None => planned'[k] = planned[k]
  PROVE  \A k \in Keys : CommandOK(k)'
<1>1. \A k \in Keys : PO!NoneAdded(k)
  BY Working DEF PO!Dispatching
<1>2. \A k \in Keys : planned'[k] = planned[k]
  BY <1>1 DEF PO!NoneAdded
<1>3. QED BY <1>1, <1>2, CommandKept

\* Every step leaves the queue in order.
LEMMA CommandStep ==
  ASSUME Inv, [Next]_vars
  PROVE  \A k \in Keys : CommandOK(k)'
<1>0. TypeOK /\ TypeOK' /\ Later
  BY TypeStep, PartsStep DEF Inv
<1>1. ASSUME UNCHANGED <<outbox, planned>> PROVE \A k \in Keys : CommandOK(k)'
  BY <1>1, CommandKept DEF PO!NoneAdded
<1>2. ASSUME NEW r \in Apis, Queueing(r) PROVE \A k \in Keys : CommandOK(k)'
  <2>1. call[r].key \in Keys
    BY <1>2, Asked, <1>0 DEF Queueing, Turn
  <2>2. \A k \in Keys : outbox[k] # None \/ outbox'[k] = None => planned'[k] = planned[k]
    BY <1>0, <1>2, <2>1 DEF Queueing, TypeOK
  <2>3. CASE P!ServeRequest(r)
    <3>1. ASSUME NEW k \in Keys, outbox'[k] = outbox[k] PROVE CommandOK(k)'
      BY <2>2, <3>1, CommandKept DEF PO!NoneAdded
    <3>2. ASSUME NEW k \in Keys, outbox'[k] # outbox[k] PROVE CommandOK(k)'
      <4>1. /\ planned'[k] = call[r].minute
            /\ outbox'[k].payload = call[r].content /\ outbox'[k].state = "PENDING"
            /\ outbox'[k].due => call[r].minute <= now
            /\ "APPROVED" \in told[call[r].content]
            /\ OneKey => k = KeyOf[call[r].content]
        BY <1>2, <2>3, <3>2, NewRow
      <4>2. call[r].content \in Contents
        BY <1>0, <1>2, Asked DEF Queueing, Turn
      <4>3. now' = now
        BY <1>2 DEF Queueing
      <4>4. QED BY <1>0, <4>1, <4>2, <4>3 DEF CommandOK, Later
    <3>3. QED BY <3>1, <3>2
  <2>4. CASE P!Dispatch(r)
    BY <2>2, <2>4, DispatchKeeps, Working
  <2>5. CASE P!Abort(r)
    <3>1. UNCHANGED outbox
      BY <2>5 DEF P!Abort
    <3>2. QED BY <2>2, <3>1, CommandKept DEF PO!NoneAdded
  <2>6. QED BY <1>2, <2>3, <2>4, <2>5 DEF Queueing
<1>3. ASSUME NEW j \in Keys, NEW c, outbox' = [outbox EXCEPT ![j] = c],
             \A k \in Keys : k # j => planned'[k] = planned[k], CommandOK(j)'
      PROVE  \A k \in Keys : CommandOK(k)'
  <2>1. \A k \in Keys : k # j => outbox'[k] = outbox[k]
    BY <1>3 DEF Inv, PO!TypeOK
  <2>2. QED BY <1>3, <2>1, CommandKept DEF PO!NoneAdded
<1>4. ASSUME NEW r \in Apis, MoveCommand(r) PROVE \A k \in Keys : CommandOK(k)'
  <2>1. PICK k \in Keys, m \in 0..LastMinute : k = call[r].key /\ m = call[r].minute
    BY <1>0, <1>4, Asked DEF MoveCommand, Turn
  <2>2. /\ outbox[k] # None /\ outbox[k].state = "PENDING"
        /\ outbox' = [outbox EXCEPT ![k].due = (m <= now)]
        /\ planned' = [planned EXCEPT ![k] = m]
        /\ UNCHANGED <<told, now>>
    BY <1>4, <2>1 DEF MoveCommand, P!Reschedule, governance
  <2>3. outbox[k] \in PO!Commands
    BY <2>2 DEF Inv, PO!TypeOK
  <2>4. /\ outbox'[k].payload = outbox[k].payload /\ outbox'[k].state = "PENDING"
        /\ outbox'[k].due = (m <= now)
    BY <2>2, <2>3 DEF Inv, PO!TypeOK, PO!Commands
  <2>5. planned'[k] = m /\ \A j \in Keys : j # k => planned'[j] = planned[j]
    BY <1>0, <2>2 DEF TypeOK
  <2>6. CommandOK(k)'
    BY <2>2, <2>4, <2>5 DEF CommandOK, Inv, Ordered
  <2>7. QED BY <1>3, <2>2, <2>5, <2>6
<1>5. ASSUME NEW k \in Keys, P!LeaseExpires(k), UNCHANGED planned PROVE \A j \in Keys : CommandOK(j)'
  <2>1. outbox[k] \in PO!Commands /\ outbox[k] # None
    BY <1>5 DEF P!LeaseExpires, P!Open, Inv, PO!TypeOK
  <2>2. outbox'[k].due = outbox[k].due /\ outbox'[k].state = outbox[k].state
    BY <1>5, <2>1 DEF P!LeaseExpires, Inv, PO!TypeOK, PO!Commands
  <2>3. PO!NoneAdded(k)
    BY <2>1, <2>2 DEF PO!NoneAdded, CommandOK, Inv, Ordered
  <2>4. CommandOK(k)'
    BY <1>5, <2>3, CommandKept
  <2>5. QED BY <1>3, <1>5, <2>4 DEF P!LeaseExpires
<1>6. ASSUME NEW k \in Keys, P!BecomesDue(k), planned[k] <= now, UNCHANGED <<planned, now, told>>
      PROVE  \A j \in Keys : CommandOK(j)'
  <2>1. outbox[k] \in PO!Commands /\ outbox[k] # None
    BY <1>6 DEF P!BecomesDue, P!Open, Inv, PO!TypeOK
  <2>2. outbox'[k].due /\ outbox'[k].payload = outbox[k].payload
    BY <1>6, <2>1 DEF P!BecomesDue, Inv, PO!TypeOK, PO!Commands
  <2>3. CommandOK(k)'
    BY <1>6, <2>1, <2>2 DEF CommandOK, Inv, Ordered
  <2>4. QED BY <1>3, <1>6, <2>3 DEF P!BecomesDue
<1>7. ASSUME Pipeline PROVE \A k \in Keys : CommandOK(k)'
  <2>1. UNCHANGED <<planned, now, told>>
    BY <1>7 DEF Pipeline, governance
  <2>2. ASSUME NEW w \in Workers, P!Dispatch(w) PROVE \A k \in Keys : CommandOK(k)'
    BY <2>1, <2>2, DispatchKeeps, Working
  <2>3. ASSUME UNCHANGED outbox PROVE \A k \in Keys : CommandOK(k)'
    BY <1>1, <2>1, <2>3
  <2>4. QED BY <1>5, <1>6, <1>7, <2>1, <2>2, <2>3 DEF Pipeline, P!Abort, P!Restart, P!Connect
<1>8. ASSUME NEW r \in Apis, Route(r), ~Queueing(r), ~MoveCommand(r) PROVE UNCHANGED <<outbox, planned>>
  BY <1>8 DEF Route, PostPublication, PostSchedule, PatchSchedule, Serve, Mark, Move, Queue,
              Refused, Die, P!Request, pipeline
<1>9. ASSUME Govern \/ Tick \/ UNCHANGED vars PROVE UNCHANGED <<outbox, planned>>
  BY <1>9 DEF Govern, Tick, vars, pipeline
<1>10. QED BY <1>1, <1>2, <1>4, <1>7, <1>8, <1>9 DEF Next

-----------------------------------------------------------------------------
\* The theorems.

\* An empty workspace, queue and calendar, with nothing asked.
LEMMA InvInit == Init => Inv
<1>1. Init => GP!Init /\ PO!Init
  BY SameGovernance, SamePipeline DEF Init
<1>2. Init => TypeOK
  BY SchedulingAssumption DEF Init, TypeOK, Stages
<1>3. Init => GP!Typed /\ GP!Gated /\ PO!TypeOK /\ PO!Coherent
  BY <1>1, SameAssumptions, GP!TypedInit, GP!GatedInit, PO!TypeInit, PO!CoherentInit
<1>4. Init => Ordered
  BY <1>1 DEF Init, Ordered, RouteOK, CommandOK, ShareOK, PO!Init
<1>5. QED BY <1>2, <1>3, <1>4 DEF Inv

\* Every step keeps what the routes rely on.
LEMMA InvStep == Inv /\ [Next]_vars => Inv'
<1>1. ASSUME Inv, [Next]_vars PROVE Inv'
  <2>1. TypeOK'
    BY <1>1, TypeStep DEF Inv
  <2>2. (GP!Typed /\ GP!Gated)' /\ (PO!TypeOK /\ PO!Coherent)'
    BY <1>1, PartsStep
  <2>3. Ordered'
    BY <1>1, RouteStep, CommandStep, ShareStep DEF Ordered
  <2>4. QED BY <2>1, <2>2, <2>3 DEF Inv
<1>2. QED BY <1>1

\* Inv is inductive.
LEMMA InvAlways == Spec => []Inv
BY InvInit, InvStep, PTL DEF Spec

\* The routes keep to their types, and serve a request exactly while they are
\* under way.
THEOREM RoutesTyped == Spec => []TypeOK
<1>1. Inv => TypeOK
  BY DEF Inv
<1>2. QED BY <1>1, InvAlways, PTL

\* Nothing passes the gate, is in the calendar, in the queue or posted that no
\* human approved, whatever requests, workers, deaths and clocks come between.
THEOREM OnlyApproved == Spec => []NothingUnapproved
<1>1. ASSUME Inv PROVE NothingUnapproved
  <2>1. G!HumanGate /\ G!CalendarIsApproved /\ G!OnePending
    BY <1>1, SameGovernance DEF Inv, GP!Gated
  <2>2. QED BY <1>1, <2>1 DEF NothingUnapproved, Inv, Ordered, CommandOK, ShareOK
<1>2. QED BY <1>1, InvAlways, PTL

\* The pipeline is coherent under the routes as it is on its own.
THEOREM PipelineHoldsUnderRoutes == Spec => []PipelineHolds
<1>1. Inv => PipelineHolds
  BY SamePipeline DEF Inv, PipelineHolds
<1>2. QED BY <1>1, InvAlways, PTL

\* No command is queued for a later minute but of a content in the calendar.
THEOREM QueuedOnCalendar == Spec => QueuedIsOnCalendar
<1>1. ASSUME Inv, [Next]_vars, NEW k \in Keys, outbox[k] = None, outbox'[k] # None, planned'[k] > now
      PROVE  calendar[outbox'[k].payload] # None
  <2>1. PICK r \in Apis : Queueing(r) /\ P!ServeRequest(r)
    <3>1. ASSUME NEW p \in PO!Procs, P!Dispatch(p) PROVE FALSE
      BY <1>1, <3>1, Working DEF PO!Dispatching, PO!NoneAdded
    <3>2. ASSUME UNCHANGED outbox PROVE FALSE
      BY <1>1, <3>2
    <3>3. ASSUME NEW j \in Keys, NEW c, outbox[j] # None, outbox' = [outbox EXCEPT ![j] = c] PROVE FALSE
      BY <1>1, <3>3 DEF Inv, PO!TypeOK
    <3>4. ASSUME Pipeline PROVE FALSE
      <4>1. ASSUME NEW w \in Workers, P!Dispatch(w) PROVE FALSE
        BY <1>1, <3>1, <4>1, Working
      <4>2. ASSUME NEW j \in Keys, P!LeaseExpires(j) \/ P!BecomesDue(j) PROVE FALSE
        BY <3>3, <4>2 DEF P!LeaseExpires, P!BecomesDue, P!Open
      <4>3. QED
        BY <3>2, <3>4, <4>1, <4>2 DEF Pipeline, P!Abort, P!Restart, P!Connect
    <3>5. ASSUME NEW r \in Apis, MoveCommand(r) PROVE FALSE
      BY <1>1, <3>3, <3>5, Asked DEF MoveCommand, Turn, P!Reschedule, Inv
    <3>6. ASSUME NEW r \in Apis, Queueing(r) PROVE P!ServeRequest(r)
      <4>1. ~P!Dispatch(r)
        BY <1>1, <3>1, Working
      <4>2. ~P!Abort(r)
        BY <3>2 DEF P!Abort
      <4>3. QED BY <3>6, <4>1, <4>2 DEF Queueing
    <3>7. ASSUME NEW r \in Apis, Route(r), ~Queueing(r), ~MoveCommand(r) PROVE FALSE
      BY <3>2, <3>7 DEF Route, PostPublication, PostSchedule, PatchSchedule, Serve, Mark, Move, Queue,
                        Refused, Die, P!Request, pipeline
    <3>8. ASSUME Govern \/ Tick \/ UNCHANGED vars PROVE FALSE
      BY <3>2, <3>8 DEF Govern, Tick, vars, pipeline
    <3>9. QED BY <1>1, <3>4, <3>5, <3>6, <3>7, <3>8 DEF Next
  <2>2. /\ planned'[k] = call[r].minute /\ outbox'[k].payload = call[r].content
        /\ IF outbox'[k].due THEN call[r].minute <= now ELSE calendar[call[r].content] # None
    BY <1>1, <2>1, NewRow
  <2>3. call[r].minute \in Nat /\ now \in Nat
    BY <1>1, <2>1, Asked, SchedulingAssumption DEF Queueing, Turn, Inv, TypeOK
  <2>4. QED BY <1>1, <2>2, <2>3
<1>2. Inv /\ [Next]_vars =>
        [\A k \in Keys : outbox[k] = None /\ outbox'[k] # None /\ planned'[k] > now
           => calendar[outbox'[k].payload] # None]_<<outbox, planned>>
  BY <1>1
<1>3. QED BY <1>2, InvAlways, PTL DEF Spec, QueuedIsOnCalendar

\* A process of the pipeline holds its commands alone, under the routes too.
LEMMA ExclusiveUnderRoutes ==
  ASSUME LeaseOutlivesHolder, SerialEnqueue
  PROVE  Spec => []PO!Exclusive
<1>1. Init => PO!Exclusive
  BY SamePipeline, PO!ExclusiveInit, SameAssumptions DEF Init
<1>2. ASSUME Inv, PO!Exclusive, [Next]_vars PROVE PO!Exclusive'
  <2>1. ASSUME [PO!Next]_(PO!vars) PROVE PO!Exclusive'
    BY <1>2, <2>1, PO!ExclusiveStep, SameAssumptions DEF Inv
  <2>2. ASSUME NEW r \in Apis, Die(r) PROVE PO!Exclusive'
    BY <1>2, <2>2, DieCounts, PO!OnceCounted, SameAssumptions DEF Inv
  <2>3. QED BY <1>2, <2>1, <2>2, PipelineSteps DEF Inv
<1>3. QED BY <1>1, <1>2, InvAlways, PTL DEF Spec

\* A content is posted once, when callers keep to its key, leases outlive their
\* holders and first requests do not overlap.
THEOREM PostedOncePerContent ==
  ASSUME OneKey, LeaseOutlivesHolder, SerialEnqueue
  PROVE  Spec => []ContentPostedOnce
<1>1. ASSUME Inv, PO!Exclusive PROVE ContentPostedOnce
  <2>1. PO!AtMostOnePost
    BY <1>1 DEF PO!Exclusive
  <2>2. \A s \in shares : s.key = KeyOf[s.payload]
    BY <1>1 DEF Inv, Ordered, ShareOK
  <2>3. QED BY <2>1, <2>2 DEF PO!AtMostOnePost, ContentPostedOnce
<1>2. QED BY <1>1, InvAlways, ExclusiveUnderRoutes, PTL

\* No command is posted before the minute it is planned for.
THEOREM PostedNotBeforePlanned ==
  ASSUME LeaseOutlivesHolder, SerialEnqueue
  PROVE  Spec => NotBeforePlanned
<1>1. ASSUME Inv, PO!Exclusive, [Next]_vars, NEW s \in shares' \ shares PROVE planned[s.key] <= now
  <2>1. PICK p \in PO!Procs : s.key \in batch[p]
    BY <1>1, NewPost
  <2>2. s.key \in Keys /\ outbox[s.key] \in PO!Commands
    BY <1>1, <2>1, Working DEF PO!TypeOK, PO!LocalsOK
  <2>3. outbox[s.key] # None
    BY <2>2, SameAssumptions DEF PO!NoneAssumption
  <2>4. outbox[s.key].state = "PROCESSING"
    BY <1>1, <2>1 DEF PO!Exclusive, PO!HeldIsLeased
  <2>5. QED BY <1>1, <2>2, <2>3, <2>4 DEF Inv, Ordered, CommandOK
<1>2. Inv /\ PO!Exclusive /\ [Next]_vars => [\A s \in shares' \ shares : planned[s.key] <= now]_shares
  BY <1>1
<1>3. QED BY <1>2, InvAlways, ExclusiveUnderRoutes, PTL DEF Spec, NotBeforePlanned

-----------------------------------------------------------------------------
\* What the parts promise when their calls do not overlap.

\* The pipeline implements PublishPromise under the routes too, whatever they
\* move, mark and refuse around it (dispatch.ts, contents.ts:64-150).
THEOREM PromiseKeptUnderRoutes ==
  ASSUME LeaseOutlivesHolder, SerialEnqueue
  PROVE  Spec => PO!KeepsPromise
<1>1. Init => PO!Promise!Init
  BY SamePipeline, SameAssumptions, PO!PromiseInit DEF Init
<1>2. ASSUME Inv, Inv', PO!Exclusive, [Next]_vars PROVE [PO!Promise!Next]_(PO!Promise!vars)
  <2>1. PO!PublishedHasPost'
    BY <1>2 DEF Inv, PO!Coherent
  <2>2. ASSUME [PO!Next]_(PO!vars) PROVE [PO!Promise!Next]_(PO!Promise!vars)
    BY <1>2, <2>1, <2>2, SameAssumptions, PO!PromiseStep DEF Inv
  <2>3. ASSUME NEW r \in Apis, Die(r) PROVE UNCHANGED PO!Promise!vars
    BY <2>3 DEF Die, PO!Promise!vars
  <2>4. QED BY <1>2, <2>2, <2>3, PipelineSteps DEF Inv
<1>3. QED
  BY <1>1, <1>2, InvAlways, ExclusiveUnderRoutes, PTL DEF Spec, PO!KeepsPromise, PO!Promise!Spec

\* No step of a route, nor of what it calls, takes back the verdict of an attempt
\* or of a command (publish-store.ts:76, outbox-store.ts:82-129).
THEOREM VerdictsStayUnderRoutes ==
  ASSUME LeaseOutlivesHolder, SerialEnqueue
  PROVE  Spec => PO!TerminalStays /\ PO!VerdictStays
<1> DEFINE Settled(k) == attempt[k] # None /\ attempt[k].status \in PO!Terminal
           Reported(k) == outbox[k] # None /\ outbox[k].state \in {"PUBLISHED", "FAILED"}
<1>1. ASSUME Inv, PO!Exclusive, [Next]_vars
      PROVE  /\ [\A k \in Keys : Settled(k) => attempt'[k] = attempt[k]]_attempt
             /\ [\A k \in Keys : Reported(k) => outbox'[k].state = outbox[k].state]_outbox
  <2>1. CASE [PO!Next]_(PO!vars)
    BY <1>1, <2>1, SameAssumptions, PO!TerminalStep, PO!VerdictStep DEF Inv
  <2>2. ASSUME NEW r \in Apis, Die(r) PROVE UNCHANGED <<attempt, outbox>>
    BY <2>2 DEF Die
  <2>3. QED BY <1>1, <2>1, <2>2, PipelineSteps DEF Inv
<1>2. QED
  BY <1>1, InvAlways, ExclusiveUnderRoutes, PTL DEF Spec, PO!TerminalStays, PO!VerdictStays

\* The rows of a content tell one story under the routes.
LEMMA ReviewedUnderRoutes == ASSUME SerialReview PROVE Spec => []GP!Reviewed
<1>1. Init => GP!Reviewed
  BY SameGovernance, SameAssumptions, GP!ReviewedInit DEF Init
<1>2. ASSUME Inv, GP!Reviewed, [Next]_vars PROVE GP!Reviewed'
  BY <1>2, GovernSteps, SameAssumptions, GP!ReviewedStep DEF Inv
<1>3. QED BY <1>1, <1>2, InvAlways, PTL DEF Spec

\* A minute found free is free when it is taken, under the routes.
LEMMA PlacedUnderRoutes == ASSUME SerialCalendar PROVE Spec => []GP!Placed
<1>1. Init => GP!Placed
  BY SameGovernance, SameAssumptions, GP!PlacedInit DEF Init
<1>2. ASSUME Inv, GP!Placed, [Next]_vars PROVE GP!Placed'
  BY <1>2, GovernSteps, SameAssumptions, GP!PlacedStep DEF Inv
<1>3. QED BY <1>1, <1>2, InvAlways, PTL DEF Spec

\* Reviews, schedules and moves that the routes ask for leave every content with
\* one verdict, a status that follows from it and a decidable inbox, as long as
\* requests on one content do not overlap (contents.ts:64-150, approvals.ts:56-89).
THEOREM VerdictsUnderRoutes ==
  ASSUME SerialReview
  PROVE  Spec => [](GP!OneVerdict /\ GP!InboxIsDecidable /\ GP!StatusIsDecided)
<1>1. GP!Reviewed => GP!OneVerdict /\ GP!InboxIsDecidable /\ GP!StatusIsDecided
  BY SameAssumptions, GP!StoryHasOneVerdict, GP!StoryIsDecidable, GP!StoryHasItsStatus
<1>2. QED BY <1>1, ReviewedUnderRoutes, PTL

\* The store the routes find over Postgres is the one in memory that their tests
\* run on, step for step, when requests on one content and changes of the
\* calendar do not overlap (memory-store.ts, governance-store.ts).
THEOREM MemoryKeptUnderRoutes ==
  ASSUME SerialReview, SerialCalendar
  PROVE  Spec => GP!KeepsMemory
<1>1. Init => GP!Memory!Init
  BY SameGovernance, SameAssumptions, GP!MemoryInit DEF Init
<1>2. ASSUME Inv, GP!Reviewed, GP!Placed, [Next]_vars PROVE [GP!Memory!Next]_(GP!Memory!vars)
  <2>1. ASSUME GP!Next PROVE GP!Memory!Next \/ UNCHANGED GP!Memory!vars
    BY <1>2, <2>1, SameAssumptions, GP!MemoryStep DEF Inv
  <2>2. ASSUME UNCHANGED GP!vars PROVE UNCHANGED GP!Memory!vars
    BY <2>2 DEF GP!vars, GP!Memory!vars, GP!WithMinute
  <2>3. [GP!Next]_(GP!vars)
    BY <1>2, GovernSteps DEF Inv
  <2>4. QED BY <2>1, <2>2, <2>3
<1>3. QED
  BY <1>1, <1>2, InvAlways, ReviewedUnderRoutes, PlacedUnderRoutes, PTL
     DEF Spec, GP!KeepsMemory, GP!Memory!Spec
=============================================================================
