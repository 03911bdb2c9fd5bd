---------------------------- MODULE PublishOutbox ----------------------------
(***************************************************************************)
(* The publication pipeline of Scriora: API requests reserve an attempt in *)
(* the publish ledger and enqueue a command in the outbox; the worker (and *)
(* every immediate-publish request) claims due commands under a lease,     *)
(* creates the LinkedIn post, records what it learnt and completes the     *)
(* command.                                                                *)
(*                                                                         *)
(* One action is the code between two awaited calls of                     *)
(* packages/social/src/outbox/dispatch.ts and linkedin/publish.ts, over    *)
(* the Postgres stores of packages/db/src/stores: a statement is atomic,   *)
(* two statements are not.                                                 *)
(*                                                                         *)
(* Abstracted: text and media of a request are one payload; the SHA-256    *)
(* fingerprint is the pair it hashes (the workspace is the key's);         *)
(* remoteOperationId and externalPostId, always saved together, are post;  *)
(* lastError and timestamps are left out; next_attempt_at <= now() is due  *)
(* and lock_expires_at > now() is locked.                                  *)
(***************************************************************************)
EXTENDS PublishRules, FiniteSets

CONSTANTS
  Workspaces, Members, Payloads,
  Keys,                 \* idempotency keys, each of one workspace
  WorkspaceOf,
  Apis,                 \* POST /publications and POST .../schedule requests
  Workers,              \* outbox worker processes
  BatchLimit,           \* processDueOutbox limit (8 in the code)
  MaxClaims,            \* bound: claims of one command
  MaxAborts,            \* bound: processes that die or throw
  LeaseOutlivesHolder,  \* environment: no lease ends while its holder runs
  SerialEnqueue         \* environment: first requests of a key do not overlap

Procs == Apis \cup Workers
Fingerprints == Members \X Payloads
Posts == [key: Keys, n: 1..MaxClaims, member: Members, payload: Payloads]
Attempts == [fp: Fingerprints, status: AttemptStatuses, post: Posts \cup {None}]
OutboxStates == {"PENDING", "PROCESSING", "PUBLISHED", "FAILED"}
Commands == [payload: Payloads, state: OutboxStates, count: 0..MaxClaims,
             due: BOOLEAN, locked: BOOLEAN]
Requests == [payload: Payloads, later: BOOLEAN]
Labels == {"idle", "lookup", "reserve", "enqueue", "claim", "next", "read",
           "saveDispatching", "create", "saveCandidate", "verify", "saveFinal",
           "verifyExisting", "refuse", "complete", "down"}

ASSUME OutboxAssumption ==
  /\ WorkspaceOf \in [Keys -> Workspaces]
  /\ BatchLimit \in Nat \ {0}
  /\ MaxClaims \in Nat
  /\ MaxAborts \in Nat
  /\ LeaseOutlivesHolder \in BOOLEAN
  /\ SerialEnqueue \in BOOLEAN

ASSUME NoneAssumption ==
  None \notin Keys \cup Members \cup Posts \cup Attempts \cup Commands \cup Requests
              \cup Fingerprints

VARIABLES
  accounts,  \* social_accounts joined with their token envelope, by workspace
  attempt,   \* publish_attempts, by key
  outbox,    \* outbox_commands, by key
  shares,    \* the posts LinkedIn has accepted
  pc, cur,   \* where each process stands, and with which key
  request,   \* the body of the request an API process serves
  batch,     \* the commands a process has claimed and not completed
  seen,      \* the attempt_count its claim returned for each of them
  who,       \* the publisher it loaded
  mine,      \* its own copy of the attempt
  aborts

locals == <<cur, request, batch, seen, who, mine>>
vars == <<accounts, attempt, outbox, shares, pc, locals, aborts>>

Init ==
  /\ accounts = [w \in Workspaces |-> [m \in Members |-> "absent"]]
  /\ attempt = [k \in Keys |-> None]
  /\ outbox = [k \in Keys |-> None]
  /\ shares = {}
  /\ pc = [p \in Procs |-> "idle"]
  /\ cur = [p \in Procs |-> None]
  /\ request = [p \in Procs |-> None]
  /\ batch = [p \in Procs |-> {}]
  /\ seen = [p \in Procs |-> [k \in Keys |-> 0]]
  /\ who = [p \in Procs |-> None]
  /\ mine = [p \in Procs |-> None]
  /\ aborts = 0

-----------------------------------------------------------------------------
\* Helpers.

Goto(p, from, to) == pc[p] = from /\ pc' = [pc EXCEPT ![p] = to]

\* loadPublisher: the join has `limit 1` and no order, so any connected account
\* of the workspace may be the one returned.
Publishers(w) == {m \in Members : accounts[w][m] # "absent"}

\* cap_publish of the account loadPublisher returned.
canPublish(w, m) == accounts[w][m] = "publish"

\* saveAttempt: an upsert that keeps the fingerprint of the row it finds and
\* replaces everything else, whatever the row has become since it was read.
saveAttempt(k, a) ==
  attempt' = [attempt EXCEPT
    ![k] = IF attempt[k] = None THEN a ELSE [a EXCEPT !.fp = attempt[k].fp]]

\* The rows claim_outbox_commands may take.
Open(k) == outbox[k] # None /\ outbox[k].state \in {"PENDING", "PROCESSING"}

\* Plausible bugs: a claim that ignores leases, or rows a dead process holds.
DueIgnoringLease == {k \in Keys : Open(k) /\ outbox[k].due /\ outbox[k].count < MaxClaims}
DuePendingOnly == {k \in Keys : Open(k) /\ outbox[k].state = "PENDING" /\ outbox[k].due
                                /\ ~outbox[k].locked /\ outbox[k].count < MaxClaims}

\* MaxClaims bounds the claims of a command; the code does not.
Due == {k \in Keys : Open(k) /\ outbox[k].due /\ ~outbox[k].locked
                       /\ outbox[k].count < MaxClaims}

\* The end of a request or tick: nothing of it is kept in memory.
Forget(p, to) ==
  /\ pc' = [pc EXCEPT ![p] = to]
  /\ cur' = [cur EXCEPT ![p] = None]
  /\ request' = [request EXCEPT ![p] = None]
  /\ batch' = [batch EXCEPT ![p] = {}]
  /\ seen' = [seen EXCEPT ![p] = [k \in Keys |-> 0]]
  /\ who' = [who EXCEPT ![p] = None]
  /\ mine' = [mine EXCEPT ![p] = None]

-----------------------------------------------------------------------------
\* enqueueLinkedInText.

\* A request arrives and loadPublisher finds an account that may publish (the
\* other two answers end the request with nothing changed). `later` is a
\* schedule request: its command is not due yet and it claims nothing itself.
Request(p, k, m, x, later) ==
  /\ Goto(p, "idle", "lookup")
  /\ m \in Publishers(WorkspaceOf[k]) /\ canPublish(WorkspaceOf[k], m)
  /\ cur' = [cur EXCEPT ![p] = k]
  /\ who' = [who EXCEPT ![p] = m]
  /\ request' = [request EXCEPT ![p] = [payload |-> x, later |-> later]]
  /\ UNCHANGED <<accounts, attempt, outbox, shares, batch, seen, mine, aborts>>

\* A plausible bug: the row is saved without a look.
FirstRequestBlind(p) ==
  /\ Goto(p, "lookup", "reserve")
  /\ UNCHANGED <<accounts, attempt, outbox, shares, locals, aborts>>

\* getAttempt finds no row: the request will reserve one. Under SerialEnqueue
\* no other request is between this lookup and its save.
FirstRequest(p) ==
  /\ Goto(p, "lookup", "reserve")
  /\ attempt[cur[p]] = None
  /\ SerialEnqueue => \A q \in Procs : ~(pc[q] = "reserve" /\ cur[q] = cur[p])
  /\ UNCHANGED <<accounts, attempt, outbox, shares, locals, aborts>>

\* getAttempt finds the same publication.
RepeatRequest(p) ==
  /\ Goto(p, "lookup", "enqueue")
  /\ attempt[cur[p]] # None
  /\ attempt[cur[p]].fp = <<who[p], request[p].payload>>
  /\ UNCHANGED <<accounts, attempt, outbox, shares, locals, aborts>>

\* getAttempt finds another publication under the key: 409.
ConflictingRequest(p) ==
  /\ pc[p] = "lookup"
  /\ attempt[cur[p]] # None
  /\ attempt[cur[p]].fp # <<who[p], request[p].payload>>
  /\ Forget(p, "idle")
  /\ UNCHANGED <<accounts, attempt, outbox, shares, aborts>>

\* saveAttempt of the RESERVED record, from a lookup that may be stale.
Reserve(p) ==
  /\ Goto(p, "reserve", "enqueue")
  /\ saveAttempt(cur[p], [fp |-> <<who[p], request[p].payload>>,
                          status |-> "RESERVED", post |-> None])
  /\ UNCHANGED <<accounts, outbox, shares, locals, aborts>>

\* outbox.enqueue: insert ... on conflict do nothing. An immediate publication
\* goes on to processDueOutbox, a scheduled one returns.
Enqueue(p) ==
  LET k == cur[p] IN
  /\ pc[p] = "enqueue"
  /\ outbox' = [outbox EXCEPT
       ![k] = IF outbox[k] # None THEN outbox[k]
              ELSE [payload |-> request[p].payload, state |-> "PENDING",
                    count |-> 0, due |-> ~request[p].later, locked |-> FALSE]]
  /\ Forget(p, IF request[p].later THEN "idle" ELSE "claim")
  /\ UNCHANGED <<accounts, attempt, shares, aborts>>

-----------------------------------------------------------------------------
\* processDueOutbox.

\* claimDue: one statement that leases up to BatchLimit due commands. Rows that
\* another statement has locked are skipped, and the order of next_attempt_at is
\* not kept, so how many of the due ones, and which, is left open.
Claim(p, S) ==
  /\ \/ pc[p] = "claim"
     \/ p \in Workers /\ pc[p] = "idle" /\ Due # {}
  /\ S \subseteq Due /\ Cardinality(S) <= BatchLimit
  /\ pc' = [pc EXCEPT ![p] = IF S = {} THEN "idle" ELSE "next"]
  /\ outbox' = [k \in Keys |->
       IF k \in S THEN [outbox[k] EXCEPT !.state = "PROCESSING",
                          !.count = outbox[k].count + 1, !.locked = TRUE]
       ELSE outbox[k]]
  /\ batch' = [batch EXCEPT ![p] = S]
  /\ seen' = [seen EXCEPT ![p] =
       [k \in Keys |-> IF k \in S THEN outbox[k].count + 1 ELSE 0]]
  /\ UNCHANGED <<accounts, attempt, shares, cur, request, who, mine, aborts>>

\* The next command of the batch: publishLinkedInText loads a publisher that
\* may publish.
TakeCommand(p, k, m) ==
  /\ Goto(p, "next", "read")
  /\ k \in batch[p]
  /\ m \in Publishers(WorkspaceOf[k]) /\ canPublish(WorkspaceOf[k], m)
  /\ cur' = [cur EXCEPT ![p] = k]
  /\ who' = [who EXCEPT ![p] = m]
  /\ UNCHANGED <<accounts, attempt, outbox, shares, request, batch, seen, mine, aborts>>

\* No publisher, or one that may not publish: not_connected, publish_denied.
RefuseCommand(p, k) ==
  /\ Goto(p, "next", "refuse")
  /\ k \in batch[p]
  /\ \/ Publishers(WorkspaceOf[k]) = {}
     \/ \E m \in Publishers(WorkspaceOf[k]) : ~canPublish(WorkspaceOf[k], m)
  /\ cur' = [cur EXCEPT ![p] = k]
  /\ UNCHANGED <<accounts, attempt, outbox, shares, request, batch, seen, who, mine, aborts>>

\* getAttempt, and what decideIdempotency makes of the row.
Decision(p) ==
  decideIdempotency(attempt[cur[p]], <<who[p], outbox[cur[p]].payload>>)

ConflictingCommand(p) ==
  /\ Goto(p, "read", "refuse")
  /\ Decision(p) = "conflict"
  /\ UNCHANGED <<accounts, attempt, outbox, shares, locals, aborts>>

\* replay: the stored attempt is the answer.
ReplayAttempt(p) ==
  /\ Goto(p, "read", "complete")
  /\ Decision(p) = "replay"
  /\ mine' = [mine EXCEPT ![p] = attempt[cur[p]]]
  /\ UNCHANGED <<accounts, attempt, outbox, shares, cur, request, batch, seen, who, aborts>>

\* reconcile_only: never a second create; verifyExisting returns the attempt
\* as it is when it has no post to ask about.
ReconcileAttempt(p) ==
  /\ Goto(p, "read", IF attempt[cur[p]].post = None THEN "complete" ELSE "verifyExisting")
  /\ Decision(p) = "reconcile_only"
  /\ mine' = [mine EXCEPT ![p] = attempt[cur[p]]]
  /\ UNCHANGED <<accounts, attempt, outbox, shares, cur, request, batch, seen, who, aborts>>

\* reserve or dispatch: this process is to create the post.
PrepareDispatch(p) ==
  LET existing == attempt[cur[p]] IN
  /\ Goto(p, "read", "saveDispatching")
  /\ Decision(p) \in {"reserve", "dispatch"}
  /\ mine' = [mine EXCEPT ![p] =
       IF existing = None
       THEN [fp |-> <<who[p], outbox[cur[p]].payload>>, status |-> "DISPATCHING", post |-> None]
       ELSE [existing EXCEPT !.status = "DISPATCHING"]]
  /\ UNCHANGED <<accounts, attempt, outbox, shares, cur, request, batch, seen, who, aborts>>

\* saveAttempt of this process's copy, at the four places the code calls it.
SaveMine(p, from, to) ==
  /\ Goto(p, from, to)
  /\ saveAttempt(cur[p], mine[p])
  /\ UNCHANGED <<accounts, outbox, shares, locals, aborts>>

SaveDispatching(p) == SaveMine(p, "saveDispatching", "create")
SaveCandidate(p)   == SaveMine(p, "saveCandidate", "verify")
SaveFinal(p)       == SaveMine(p, "saveFinal", "complete")

-----------------------------------------------------------------------------
\* dispatchShare and verifyExisting, against LinkedIn.

\* What the copy becomes after a create answered httpStatus. 0 stands for a
\* call that throws, which the code treats as an unknown outcome too.
AfterCreate(a, httpStatus, post) ==
  LET seenAs == observeLinkedInCreate(httpStatus, post # None) IN
  [a EXCEPT !.status = finalizePublishStatus(seenAs, "pending"),
            !.post = IF seenAs = "candidate" THEN post ELSE a.post]

Created(p, httpStatus, post) ==
  /\ Goto(p, "create", IF observeLinkedInCreate(httpStatus, post # None) = "candidate"
                       THEN "saveCandidate" ELSE "saveFinal")
  /\ mine' = [mine EXCEPT ![p] = AfterCreate(mine[p], httpStatus, post)]
  /\ UNCHANGED <<accounts, attempt, outbox, cur, request, batch, seen, who, aborts>>

\* LinkedIn accepts the post under a fresh id. The caller may learn the id, get
\* a 201 without one, a gateway error, or nothing (0).
FreshIds(k) == {n \in 1..MaxClaims : \A s \in shares : s.key = k => s.n # n}

ShareAccepted(p, httpStatus) ==
  /\ pc[p] = "create"
  /\ \E n \in FreshIds(cur[p]) :
    LET post == [key |-> cur[p], n |-> n, member |-> who[p], payload |-> outbox[cur[p]].payload] IN
    /\ \A i \in FreshIds(cur[p]) : n <= i
    /\ shares' = shares \cup {post}
    /\ \/ httpStatus = 201 /\ Created(p, 201, post)
       \/ httpStatus \in {201, 502, 0} /\ Created(p, httpStatus, None)

\* LinkedIn does not accept it: a refusal, a rate limit or failure, nothing.
ShareRefused(p, httpStatus) ==
  /\ httpStatus \in {422, 429, 0}
  /\ Created(p, httpStatus, None)
  /\ UNCHANGED shares

\* verifyShare after a create: 200 only for a post that is there; any other
\* answer, and an exception, is pending.
VerifyCreated(p, httpStatus) ==
  /\ Goto(p, "verify", "saveFinal")
  /\ httpStatus = 200 => mine[p].post \in shares
  /\ mine' = [mine EXCEPT ![p].status =
       finalizePublishStatus("candidate", observeLinkedInVerify(httpStatus))]
  /\ UNCHANGED <<accounts, attempt, outbox, shares, cur, request, batch, seen, who, aborts>>

\* verifyExisting: the same question about a post an earlier attempt recorded.
\* Only a 200 changes the attempt and saves it.
VerifyExisting(p, httpStatus) ==
  LET verified == observeLinkedInVerify(httpStatus) = "verified" IN
  /\ Goto(p, "verifyExisting", IF verified THEN "saveFinal" ELSE "complete")
  /\ httpStatus = 200 => mine[p].post \in shares
  /\ mine' = IF verified THEN [mine EXCEPT ![p].status = "SUCCEEDED"] ELSE mine
  /\ UNCHANGED <<accounts, attempt, outbox, shares, cur, request, batch, seen, who, aborts>>

-----------------------------------------------------------------------------
\* outbox.complete: an unconditional update by id, then the next command.

FollowUp(p) == outboxFollowUp(mine[p].status, seen[p][cur[p]])

Complete(p, row) ==
  LET k == cur[p] IN
  /\ outbox' = [outbox EXCEPT ![k] = row]
  /\ pc' = [pc EXCEPT ![p] = IF batch[p] = {k} THEN "idle" ELSE "next"]
  /\ batch' = [batch EXCEPT ![p] = batch[p] \ {k}]
  /\ seen' = [seen EXCEPT ![p][k] = 0]
  /\ cur' = [cur EXCEPT ![p] = None]
  /\ who' = [who EXCEPT ![p] = None]
  /\ mine' = [mine EXCEPT ![p] = None]
  /\ UNCHANGED <<accounts, attempt, shares, request, aborts>>

CompletePublished(p) ==
  /\ pc[p] = "complete" /\ FollowUp(p) = "delivered"
  /\ Complete(p, [outbox[cur[p]] EXCEPT !.state = "PUBLISHED"])

CompleteFailed(p) ==
  /\ pc[p] = "refuse" \/ (pc[p] = "complete" /\ FollowUp(p) = "dead")
  /\ Complete(p, [outbox[cur[p]] EXCEPT !.state = "FAILED"])

\* retry: due again after retryDelayMs, and the lock is cleared.
CompleteRetry(p) ==
  /\ pc[p] = "complete" /\ FollowUp(p) = "retry"
  /\ Complete(p, [outbox[cur[p]] EXCEPT !.state = "PENDING", !.due = FALSE, !.locked = FALSE])

-----------------------------------------------------------------------------
\* The environment.

\* A process dies, or a call it does not catch throws (a vault decryption, any
\* database statement): the rest of its batch is lost from memory. runOutboxLoop
\* catches nothing, so a worker stops.
Abort(p) ==
  /\ pc[p] \notin {"idle", "down"}
  /\ aborts < MaxAborts
  /\ aborts' = aborts + 1
  /\ Forget(p, IF p \in Workers THEN "down" ELSE "idle")
  /\ UNCHANGED <<accounts, attempt, outbox, shares>>

\* An operator starts the worker again.
Restart(p) ==
  /\ Goto(p, "down", "idle")
  /\ UNCHANGED <<accounts, attempt, outbox, shares, locals, aborts>>

\* now() passes lock_expires_at of a command that is still open.
LeaseExpires(k) ==
  /\ Open(k) /\ outbox[k].locked
  /\ LeaseOutlivesHolder => \A p \in Procs : k \notin batch[p]
  /\ outbox' = [outbox EXCEPT ![k].locked = FALSE]
  /\ UNCHANGED <<accounts, attempt, shares, pc, locals, aborts>>

\* now() passes next_attempt_at.
BecomesDue(k) ==
  /\ Open(k) /\ ~outbox[k].due
  /\ outbox' = [outbox EXCEPT ![k].due = TRUE]
  /\ UNCHANGED <<accounts, attempt, shares, pc, locals, aborts>>

\* A plausible bug: a command that is being dispatched moves too.
RescheduleAny(k, due) ==
  /\ outbox[k] # None
  /\ outbox' = [outbox EXCEPT ![k].due = due]
  /\ UNCHANGED <<accounts, attempt, shares, pc, locals, aborts>>

\* outbox.reschedule: only a PENDING command moves, to the future or the past.
Reschedule(k, due) ==
  /\ outbox[k] # None /\ outbox[k].state = "PENDING"
  /\ outbox' = [outbox EXCEPT ![k].due = due]
  /\ UNCHANGED <<accounts, attempt, shares, pc, locals, aborts>>

\* finishLinkedInConnect saves an account, with or without the publish scope. A
\* member's row keeps the workspace it was first connected in: from another one
\* the upsert is refused (0003_social_oauth.sql:37, 47).
Connect(w, m, cap) ==
  /\ \A v \in Workspaces \ {w} : accounts[v][m] = "absent"
  /\ accounts' = [accounts EXCEPT ![w][m] = cap]
  /\ UNCHANGED <<attempt, outbox, shares, pc, locals, aborts>>

-----------------------------------------------------------------------------
ServeRequest(p) ==
  \/ FirstRequest(p) \/ RepeatRequest(p) \/ ConflictingRequest(p)
  \/ Reserve(p) \/ Enqueue(p)

Dispatch(p) ==
  \/ \E S \in SUBSET Due : Claim(p, S)
  \/ \E k \in batch[p], m \in Members : TakeCommand(p, k, m)
  \/ \E k \in batch[p] : RefuseCommand(p, k)
  \/ ConflictingCommand(p) \/ ReplayAttempt(p) \/ ReconcileAttempt(p)
  \/ PrepareDispatch(p) \/ SaveDispatching(p)
  \/ \E h \in {201, 502, 0} : ShareAccepted(p, h)
  \/ \E h \in {422, 429, 0} : ShareRefused(p, h)
  \/ SaveCandidate(p)
  \/ \E h \in {200, 403} : VerifyCreated(p, h) \/ VerifyExisting(p, h)
  \/ SaveFinal(p)
  \/ CompletePublished(p) \/ CompleteFailed(p) \/ CompleteRetry(p)

Environment ==
  \/ \E p \in Apis, k \in Keys, m \in Members, x \in Payloads, later \in BOOLEAN :
       Request(p, k, m, x, later)
  \/ \E p \in Procs : Abort(p) \/ Restart(p)
  \/ \E k \in Keys : LeaseExpires(k) \/ BecomesDue(k)
  \/ \E k \in Keys, due \in BOOLEAN : Reschedule(k, due)
  \/ \E w \in Workspaces, m \in Members, cap \in {"read", "publish"} : Connect(w, m, cap)

Next == (\E p \in Procs : ServeRequest(p) \/ Dispatch(p)) \/ Environment

Spec == Init /\ [][Next]_vars

\* The processes run (a worker that stopped is started again), clocks advance.
\* No request ever has to arrive, and nothing ever has to die.
Fairness ==
  /\ \A p \in Procs : WF_vars(ServeRequest(p)) /\ WF_vars(Dispatch(p)) /\ WF_vars(Restart(p))
  /\ \A k \in Keys : WF_vars(LeaseExpires(k)) /\ WF_vars(BecomesDue(k))

FairSpec == Spec /\ Fairness

-----------------------------------------------------------------------------
\* Properties.

\* Types, and the values local to a process that is idle.
TypeOK ==
  /\ accounts \in [Workspaces -> [Members -> {"absent", "read", "publish"}]]
  /\ attempt \in [Keys -> Attempts \cup {None}]
  /\ outbox \in [Keys -> Commands \cup {None}]
  /\ shares \subseteq Posts
  /\ pc \in [Procs -> Labels]
  /\ cur \in [Procs -> Keys \cup {None}]
  /\ request \in [Procs -> Requests \cup {None}]
  /\ batch \in [Procs -> SUBSET Keys]
  /\ seen \in [Procs -> [Keys -> 0..MaxClaims]]
  /\ who \in [Procs -> Members \cup {None}]
  /\ mine \in [Procs -> Attempts \cup {None}]
  /\ aborts \in 0..MaxAborts

\* Whatever races, every post is the publication its key was reserved for:
\* the member and the payload of the ledger's fingerprint (publish.ts:309-331
\* compares it before every create, publish-store.ts:76-82 never overwrites it).
FingerprintIntegrity ==
  \A s \in shares : attempt[s.key] # None /\ attempt[s.key].fp = <<s.member, s.payload>>

\* A command is only ever queued behind a ledger row (dispatch.ts:149-170), so
\* no create can happen without a record that it was asked for.
LedgerBeforeQueue == \A k \in Keys : outbox[k] # None => attempt[k] # None

\* A record, stored or in memory, that tells no lie about key k.
Truthful(a, k) ==
  /\ a.status \in Posted => a.post # None
  /\ a.post # None => a.post \in shares /\ a.post.key = k

\* The ledger shows a post as created or confirmed only if LinkedIn holds that
\* very post, made for that key, even after stale overwrites.
TruthfulLedger == \A k \in Keys : attempt[k] # None => Truthful(attempt[k], k)

\* The queue says PUBLISHED only of a command that has a post.
PublishedHasPost ==
  \A k \in Keys : outbox[k] # None /\ outbox[k].state = "PUBLISHED" =>
    \E s \in shares : s.key = k

\* A key is never posted twice. Needs both environment assumptions: the lease
\* outlives its holder, first requests of a key do not overlap.
AtMostOnePost == \A s, t \in shares : s.key = t.key => s = t

\* Once a post exists its attempt is neither back to RESERVED, from which it
\* would be posted again, nor declared FAILED_PERMANENT.
LedgerNeverDeniesPost ==
  \A s \in shares : attempt[s.key] # None =>
    attempt[s.key].status \notin {"RESERVED", "FAILED_PERMANENT"}

\* The queue and the ledger agree on what was published.
QueueAgreesWithLedger ==
  \A k \in Keys : outbox[k] # None /\ outbox[k].state = "PUBLISHED" =>
    attempt[k] # None /\ attempt[k].status \in Posted

\* A queued command carries the payload its key was reserved for, so that a
\* request answered with success is not later refused as a conflict.
QueuedAsReserved ==
  \A k \in Keys : outbox[k] # None => attempt[k] # None /\ attempt[k].fp[2] = outbox[k].payload

\* A command is never in the hands of two processes.
OneHolder == \A p, q \in Procs : p # q => batch[p] \cap batch[q] = {}

\* decideIdempotency replays a terminal attempt: it never changes again.
TerminalStays ==
  [][\A k \in Keys : attempt[k] # None /\ attempt[k].status \in Terminal
       => attempt'[k] = attempt[k]]_attempt

\* A command that was reported published or failed keeps that verdict.
VerdictStays ==
  [][\A k \in Keys : outbox[k] # None /\ outbox[k].state \in {"PUBLISHED", "FAILED"}
       => outbox'[k].state = outbox[k].state]_outbox

\* What the queue calls published was seen on LinkedIn (CONTRIBUTING.md:20
\* rejects treating a 201 as published).
PublishedWasVerified ==
  \A k \in Keys : outbox[k] # None /\ outbox[k].state = "PUBLISHED" =>
    attempt[k] # None /\ attempt[k].status = "SUCCEEDED"

\* The pipeline keeps the promise of PublishPromise: one publication per key,
\* posted once and as asked, with one verdict.
Promise == INSTANCE PublishPromise WITH
  Publications <- Fingerprints,
  Ids <- 1..MaxClaims,
  asked <- [k \in Keys |-> IF attempt[k] = None THEN None ELSE attempt[k].fp],
  posts <- {<<s.key, s.n, <<s.member, s.payload>>>> : s \in shares},
  verdict <- [k \in Keys |->
    IF outbox[k] # None /\ outbox[k].state \in {"PUBLISHED", "FAILED"}
    THEN outbox[k].state ELSE "open"]

KeepsPromise == Promise!Spec

\* Every command is eventually published or given up, unless the calendar puts
\* one off again and again.
EveryCommandSettles ==
  <>[][~ \E k \in Keys : Reschedule(k, FALSE)]_vars =>
    \A k \in Keys : outbox[k] # None ~>
      (outbox[k] # None /\ outbox[k].state \in {"PUBLISHED", "FAILED"})
-----------------------------------------------------------------------------
\* The inductive invariants behind the properties.

\* Where a process holds a claimed command, and where it has its own copy.
Running == {"read", "saveDispatching", "create", "saveCandidate", "verify",
            "saveFinal", "verifyExisting", "refuse", "complete"}
WithCopy == Running \ {"read", "refuse"}

\* What a process has in memory at each point.
LocalsOK ==
  \A p \in Procs :
    /\ pc[p] \in {"lookup", "reserve", "enqueue"} =>
         cur[p] \in Keys /\ who[p] \in Members /\ request[p] \in Requests
    /\ pc[p] \in Running => cur[p] \in batch[p]
    /\ pc[p] \in Running \ {"refuse"} => who[p] \in Members
    /\ pc[p] \in WithCopy => mine[p] \in Attempts
    /\ \A k \in batch[p] : outbox[k] \in Commands

\* What process p knows of the key it works on, whatever the others do: its
\* copy lies no more than the ledger, and it creates under the stored
\* fingerprint.
CopyOK(p) ==
  /\ pc[p] = "enqueue" => attempt[cur[p]] # None
  /\ pc[p] \in {"saveDispatching", "create"} =>
       attempt[cur[p]].fp = <<who[p], outbox[cur[p]].payload>>
  /\ pc[p] \in WithCopy => Truthful(mine[p], cur[p])
  /\ pc[p] \in {"saveCandidate", "verify", "verifyExisting"} => mine[p].post # None

\* Holds whatever races.
Coherent ==
  /\ LocalsOK
  /\ LedgerBeforeQueue /\ FingerprintIntegrity /\ PublishedHasPost /\ TruthfulLedger
  /\ \A p \in Procs : CopyOK(p)

\* The commands in a batch are leased, and not settled.
HeldIsLeased ==
  \A p \in Procs : \A k \in batch[p] : outbox[k].locked /\ outbox[k].state = "PROCESSING"

OneReserver ==
  \A p, q \in Procs : p # q /\ pc[p] = "reserve" /\ pc[q] = "reserve" => cur[p] # cur[q]

NoPost(k) == \A s \in shares : s.key # k

\* What process p may rely on when it writes: the row has not moved on since
\* it was read.
FreshCopy(p) ==
  /\ pc[p] = "reserve" => attempt[cur[p]] = None
  /\ pc[p] = "enqueue" => attempt[cur[p]].fp = <<who[p], request[p].payload>>
  /\ pc[p] = "saveDispatching" =>
       attempt[cur[p]].status = "RESERVED" /\ mine[p].status = "DISPATCHING"
  /\ pc[p] = "create" => attempt[cur[p]].status = "DISPATCHING"
  /\ pc[p] \in {"saveDispatching", "create"} => NoPost(cur[p])
  /\ pc[p] \in {"saveCandidate", "verify", "saveFinal", "verifyExisting"} =>
       attempt[cur[p]].status \notin Terminal \cup {"RESERVED"}
  /\ pc[p] = "saveCandidate" => mine[p].status = "PLATFORM_PENDING"
  /\ pc[p] = "saveFinal" =>
       /\ mine[p].status # "RESERVED"
       /\ mine[p].status = "FAILED_PERMANENT" => NoPost(cur[p])
  /\ pc[p] \in {"verifyExisting", "complete"} => mine[p].status = attempt[cur[p]].status

\* Holds when leases outlive their holders and first requests do not overlap:
\* the holder of a command is the only writer of its attempt.
Exclusive ==
  /\ OneHolder /\ HeldIsLeased /\ OneReserver
  /\ QueuedAsReserved /\ QueueAgreesWithLedger
  /\ LedgerNeverDeniesPost /\ AtMostOnePost
  /\ \A p \in Procs : FreshCopy(p)
=============================================================================
