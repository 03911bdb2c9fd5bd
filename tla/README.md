# Scriora: a formal model of publication

Scriora publishes a workspace's texts on LinkedIn, immediately or at a scheduled time, after a
human approved them. These modules model the part of it that is hard to get right by testing:
what happens between a request and the one post it may cause, when requests overlap, processes
die, leases run out and LinkedIn answers late, ambiguously or not at all; and how each call
reaches the rows of its own workspace, from the browser through the connection pool.

All paths below are relative to the repository.

## The system

| Component | Where | State | Operations | Talks to |
|---|---|---|---|---|
| Publication rules | `packages/domain/src/publish.ts` | none | `decideIdempotency`, `observeLinkedInCreate`, `observeLinkedInVerify`, `finalizePublishStatus`, `outboxFollowUp` | called by the pipeline |
| Publication pipeline | `packages/social/src/outbox/dispatch.ts`, `linkedin/publish.ts` | locals of one call | `enqueueLinkedInText`, `processDueOutbox`, `dispatchLinkedInText`, `publishLinkedInText` | ledger, outbox, LinkedIn |
| Publish ledger | `packages/db/src/stores/publish-store.ts` | `publish_attempts`, one row per key | `getAttempt`, `saveAttempt` (upsert of the whole row), `loadPublisher` | Postgres |
| Outbox | `packages/db/src/stores/outbox-store.ts`, `sql/0005_outbox.sql` | `outbox_commands`, one row per key | `enqueue`, `claimDue` (30 s lease), `complete`, `reschedule` | Postgres |
| Worker | `apps/worker/src` | none | a loop of `processDueOutbox`; the first exception ends it | pipeline |
| LinkedIn calls | `apps/api/src/linkedin/ugc-http.ts`, `share-with-media.ts`, `assets-http.ts` | cached asset URN of an image | create, verify, upload; no timeouts | LinkedIn, media store |
| Content lifecycle | `packages/domain/src/content.ts`, `packages/policies/src/publish-gate.ts` | none | `transition`, `evaluateLiveDispatch` | called by governance |
| Governance store | `packages/db/src/stores/governance-store.ts` | `contents`, `approvals`, `content_schedules`, `autonomy_policies` | create, submit, decide, mark scheduled, reschedule, pause, load for publish | Postgres, READ COMMITTED transactions |
| Routes | `apps/api/src/routes` | none | submit, decide, schedule, reschedule, publish, queue, telemetry, media | governance, then pipeline |
| OAuth connection | `packages/social/src/linkedin/oauth.ts`, `stores/oauth-store.ts` | pending states, accounts, token envelopes | start, finish (state taken once) | LinkedIn, vault |
| Telemetry | `packages/analytics`, `stores/telemetry-store.ts`, `routes/telemetry.ts` | one snapshot per post and slot | poll | ledger, accounts, LinkedIn |
| Media | `packages/media`, `stores/media-store.ts` | files, grants, asset URN | grant, upload, cache URN (first wins) | file system |
| Governance store in memory | `packages/policies/src/memory-store.ts` | three maps | the operations of the governance store, uninterrupted | routes, in tests and without a database |
| Tenancy | `packages/db/src/tenancy.ts`, `stores/workspace-store.ts`, `sql/0001_tenancy.sql` | connections of the pool, operators, workspaces, policies | `withWorkspace`, upsert, list, create, ensure policy | Postgres, row level security |
| Web interface | `apps/web/src/classic`, `app/classic` | `useState` and `localStorage` of one browser | sign in, select, create, stop switch, compose, decide | routes, over HTTP |
| Vault, stubs, tooling | `packages/crypto`, `packages/llm`, ... | none | - | - |

What is hard in it: every process that serves `POST /publications` runs the worker's code too, so
any number of them race with the worker over the same rows. A statement is atomic; the code
between two statements works on copies. A lease is the only thing that keeps two processes from
one command, and a lease is only time. The outcome of a call to LinkedIn can be lost in every
way. No process survives an exception in the worker loop. `PROJECT.json` lists each hazard with
its line and the property that would catch it.

What makes each part correct: a key is posted at most once and as it was reserved; a post is
never denied, nor claimed without one; verdicts stay; every command settles (pipeline). Nothing
goes live that no human approved; one verdict per content; the content's status moves only along
its lifecycle; one content per minute (governance). Nothing is queued for later while it is off the
calendar, or posted before its time (routes). A state is spent once; row and token of an account are of one grant
(OAuth). A slot is read once, and a number in it was really observed (telemetry). A row has its
file, a post shows its image, a cached URN stays (media). A connection goes back to the pool with
nothing of a workspace in it, and rows change in transactions of their own workspace only
(tenancy). The stop switch shown is the one stored (web).

## Modules

| Module | Models | State | Checked through |
|---|---|---|---|
| `PublishRules` | the pure rules of `domain/src/publish.ts` | none | all that use it |
| `PublishOutbox` | ledger, outbox, pipeline, worker, LinkedIn | `attempt`, `outbox`, `shares`, `accounts`; per process `pc`, `cur`, `batch`, `who`, `mine` | `MCPublishOutbox` |
| `PublishPromise` | what the pipeline promises of a key | `asked`, `posts`, `verdict` | as property `KeepsPromise` |
| `Governance` | the governance store's transactions | `status`, `approvals`, `calendar`, `paused`; per request `at`, `job` | `MCGovernance` |
| `Scheduling` | the routes that join `Governance` and `PublishOutbox`, both by INSTANCE, and a clock | theirs, `stage`, `call`, `planned`, `now` | `MCScheduling` |
| `SchedulePromise` | `Scheduling`, which it extends, and what callers of the schedule routes were told | its variables, `promised` | `MCSchedulePromise` |
| `OAuthConnect` | start and finish of a LinkedIn connection | `expires`, `consumed`, `accounts`, `tokens`, `grants`; per callback `step`, `job` | `MCTelemetry` |
| `Telemetry` | polls of a post's statistics over `OAuthConnect`, which it extends | `posted`, `readings`; per poll `at`, `poll` | `MCTelemetry` |
| `MediaShare` | uploads of images and posts with an image | `files`, `rows`, `hosted`, `posts`; per request `up`, `at` | `MCMediaShare` |
| `MemoryGovernance` | the governance store in memory, what the one over Postgres promises | `status`, `approvals`, `scheduledAt`, `paused` | as property `KeepsMemory` |
| `Tenancy` | connection pool, `withWorkspace`, row level security and scope triggers, workspaces | `role`, `operators`, `workspaces`, `switch`, `home`, `settled`, `conn`; per call `at`, `call` | `MCClassicShell` |
| `ClassicShell` | one browser over `Tenancy`, which it extends | `user`, `listed`, `selected`, `stored`, `shown`, `shelf`, `doubt` | `MCClassicShell` |
| `*Proofs` | theorems, below | | |

A definition has the name of the function it models where there is one. The grain of an action is
the same everywhere: **the code between two awaited calls** is one action, because Node runs it
without interruption and everything awaited lets others run. A process's locals across an await
are per-process variables, so a stale copy is stale in the model too. Operators marked "a
plausible bug" are the code with one mistake; no specification uses them, they show that the
property they are paired with in `PROJECT.json` can fail.

**PublishOutbox.** `Request`, `FirstRequest` / `RepeatRequest` / `ConflictingRequest`, `Reserve`
and `Enqueue` are `enqueueLinkedInText` cut at its awaits (load the publisher, read the attempt,
save the reservation, insert the command). `Claim` is the SQL function of `0005_outbox.sql`, with
any subset of the due rows up to the limit (`for update skip locked`). `TakeCommand` ...
`SaveFinal` are `publishLinkedInText`, `dispatchShare` and `verifyExisting`. LinkedIn's answer is
chosen apart from what LinkedIn did: `ShareAccepted` (201 with or without an id, a gateway error,
no answer) makes a post, `ShareRefused` does not, and the process sees only the answer. `Complete*`
are the three ends of `processDueOutbox`. `Abort` is an exception or a death at any point: it
loses the locals and leaves the rows; for the worker it ends the process (`boot.ts`), and
`Restart` is the operator who starts it again (`compose.yaml` has no restart policy).
`LeaseExpires` and `BecomesDue` are the clock. `saveAttempt` is the upsert, which keeps the
fingerprint of the row it finds and overwrites the rest.

**Governance.** READ COMMITTED, without `select ... for update`: the opening select of a
transaction is one action and what it decided on may be stale when the updates come. The updates
of one transaction are one action at its commit: the first of them locks the content's row, so
no other transaction of that content writes between them (`Unlocked` guards it), and nobody sees
them before. The look for a clash in the calendar is between, and an action of its own. A refusal
by `markScheduled` commits what it wrote before (`MarkRefused`).

**MemoryGovernance.** Every operation of the store in memory is one action. `Governance` implements
it under the mapping `WithMinute`: a content that a refused `markScheduled` left SCHEDULED without a
minute counts as APPROVED, which is what the store in memory leaves it as, and the calendar is
`scheduledAt`. So the tests of the routes, which run on the store in memory, speak for the
deployed one too wherever requests do not overlap.

**Scheduling.** A step of a route is a step of `Governance` or of `PublishOutbox`, and what the
route makes of the answer. `planned` is `next_attempt_at`, which `PublishOutbox` knows only as due
or not; here `BecomesDue` waits for the clock.

**SchedulePromise.** `promised` is a history variable: the minute of the last schedule request for a
key that was answered 200, until the key is given to `POST /publications`, which posts at once on
purpose. So `ScheduleIsKept` is about commands of the schedule routes only, and what they answered.

**OAuthConnect.** `takePending` is the one conditional update that spends a state; `Inspect` looks
at the clock after it; `exchangeCode`, `fetchMember` and `saveConnectedAccount` follow, and
`AbandonCallback` may end any of them. `saveConnectedAccount` is two statements in one
transaction; the row lock on the account, which is unique over workspaces, keeps them together.

**Telemetry.** `loadContext` (any account of the workspace: the query has `limit 1` and no order),
`Repeat` / `FirstPoll` (`getBySlot`), `collect` (the answer of LinkedIn, normalised) and
`saveSnapshot` (`on conflict do nothing`, then what is stored is answered).

**MediaShare.** `StartUpload` verifies a grant, `FinishStream` renames the temporary file,
`insertMediaAsset` writes the row. The temporary file itself is left out: its name is random, no
other code looks for it, and a failed unlink is ignored, so one may stay behind. `loadAsset` ... `setMediaLinkedInAssetUrn` are `createShare`.

**Tenancy.** A call is a list of steps (`Steps`). A step is one statement on a connection nobody holds
(`upsertOperator`, `list`, `create`), or a transaction: `Open` (connect, begin, `set_config`), `Work`
(its statements and the commit, which others see at once), `Finish` (rollback, `reset all`, release).
`Fault` breaks it off before the commit, with or without the connection; `WorkUnheard` loses the
connection after it. `Visible` is row level security and `Passes` the scope triggers, for either role
of `DATABASE_URL`. A call that runs two transactions (the stop switch: ensure, update) gives its
connection back between them. An item is a content with its approval.

**ClassicShell.** A click makes a call, an answer is an action of its own, and answers come in any
order. `selected` is the state of React and `stored` what `localStorage` has; the pages act under
`stored` at the time of the click. `doubt` is a history variable: a call about the switch failed, or
overlapped another one, since the last that did neither.

## Runs

All runs finish; each is as large as finishes in five minutes at most on two cores. Symmetry is used for
sets whose members the specification does not tell apart, and never with a liveness property.
`CHECK_DEADLOCK FALSE` where the bounds (clock, claims, aborts, registered assets) or settled
rows may leave nothing to do; `governance_serial` and the two runs of `ClassicShell` have it checked.

| Run | Instance | Shows |
|---|---|---|
| `outbox_exclusive` | 2 API processes and the worker, 1 key, 2 members, 2 payloads, 2 deaths, 4 claims, both assumptions | no key is posted twice, verdict and ledger stay and agree, a command has one holder, no copy in memory lies; the pipeline implements `PublishPromise` |
| `outbox_settles` | 1 API process, the worker, 2 keys in batches of 2, 1 death, fairness | each command of a batch has one holder, and every command ends PUBLISHED or FAILED |
| `outbox_lease` (violation) | leases may end under their holders | two posts for one key |
| `outbox_unverified` (violation) | all assumptions | a PUBLISHED command whose post was never verified |
| `governance_serial` | 3 contents, 3 requests, 2 minutes, both assumptions | status, approvals, inbox and calendar of each content tell one story; the store implements `MemoryGovernance` |
| `scheduling_gate` | 1 API process, 1 worker, 2 minutes, 1 death | from draft to post, with the clock and a crash: nothing early, nothing twice |
| `scheduling_races` | 2 requests on one content, overlapping first requests, no governance assumption | nothing unapproved is queued, nothing for a later minute while it is off the calendar, and `Coherent` stands, when routes overlap at every await |
| `scheduling_calendar` (violation) | as `scheduling_gate`, 1 claim, no death, over `SchedulePromise` | two POST schedule of one key, both answered 200, and a post before the minute of the second |
| `telemetry` | 3 states of 2 workspaces, 2 callbacks, 2 polls, one of a process without adapter | connections and readings are of one grant, and honest |
| `media_share` | 2 uploads of a good, a mislabelled and an oversized image; 2 shares, 2 members | files, rows, assets and posts agree |
| `classic` | a browser with 2 calls, 1 connection, 2 workspaces, 1 item, 1 fault, either role | the pool is left clean, rows change at home, names are unique, the switch shown is the one stored |
| `tenancy_role` (violation) | the same without faults | a call for one workspace answers with rows of another |

`Coherent` without the lease assumption is a theorem; the runs check it with that assumption
(`outbox_exclusive`), and without `SerialEnqueue` in `scheduling_races`, whose commands are claimed
once. What stands in `Governance` without its assumptions (`HumanGate`, `CalendarIsApproved`,
`OnePending`) is part of `NothingUnapproved`, which `scheduling_races` checks, and a theorem.

### Bounds

Every bound is a constant, and named in the module. `MaxClaims` stops a command from being claimed
after that many times (the code has no such limit): three or four let a command be claimed, lost,
claimed by another process, left unknown and claimed again, up to and past `maxOutboxAttempts` (3), which gives it up. `MaxAborts` = 1 is enough for the hazards of a single death,
for a dead process leaves rows and nothing else; `outbox_exclusive` has two, one for each of two holders in turn.
A row of ledger and queue is written by its key alone, so `outbox_exclusive` has one key with all its
requests, accounts and holders, and `outbox_settles` the second key, which only a batch brings
together with the first. Contents and images race pairwise in every property, so two (a second one to
conflict with) and two processes (one to race with) meet each interleaving the code has.
`LastMinute` = 2 has a minute before, at and after a planned one. `LastTime` = `Ttl` = 1 has a state or a grant both
fresh and expired.

`classic` has one connection, so that every session is handed from call to call, and two calls, so
that an answer can overtake another. `MaxFaults` = 1 is one failing statement or lost connection;
what it leaves is a session, and the next holder of that session is the one it can harm. Two
workspaces, one of which is the other's stranger, and one item, which is of one of them. Two bounds
are guards of actions: `PageFree` (a page has one call in flight; two pages differ only in the
workspace of the click, which `select` may change meanwhile) and `mount` (a page is loaded again
when nothing is in flight, since answers to a page that is gone are dropped).

### Fairness

Only `outbox_settles` needs any. Weak fairness of `ServeRequest` and `Dispatch`: Node runs a
process that is ready, and every call to Postgres or LinkedIn is taken to return or throw (the
HTTP calls have no timeout; a call that hangs for ever holds its command until the lease ends and
another process claims it). A claim may take fewer rows than are due, as it skips locked ones; that
it takes one at last is fair too, since a row lock lasts no longer than another claim's statement.
Weak fairness of `Restart`: somebody starts a dead worker again.
Weak fairness of `LeaseExpires` and `BecomesDue`: clocks advance. None of requests, reschedules,
connections or deaths. The property excepts a command that is put off again and again.

## Environment assumptions

The code enforces none of these six; the properties that need them say so, and without them TLC
finds the counterexample named here. A run under an assumption cannot catch what the assumption
excludes; `hazards` in `PROJECT.json` says which, and what still holds without it.

| Constant | Says | Without it |
|---|---|---|
| `LeaseOutlivesHolder` | no lease (30 s for a batch of 8) ends while its holder works | two posts for one key (`outbox_lease`) |
| `SerialEnqueue` | two first requests of a key do not overlap | the second reservation overwrites a dispatched attempt: two posts |
| `SerialReview` | requests on one content do not overlap | two callers are told opposite verdicts, a decision is undone by a submission |
| `SerialCalendar` | changes of the calendar do not overlap | two contents in one minute |
| `OneKey` | callers use the key of the web interface for a content | an approved content is posted under each new key |
| `SerialCreate` | no two workspaces are being created at once | two workspaces of one name |

The modules of the stores have every key, content and row in a workspace of their own call, as they
are for the role `scriora_app`; `Tenancy` has the other role as well, and what it breaks.

## Theorems

`tlapm` checks every proof, for any number of processes, keys, members, contents, claims and deaths.
The assumptions on constants (`OutboxAssumption`, `NoneAssumption`, `GovernanceAssumption`,
`SchedulingAssumption`, `ConnectAssumption`, `TelemetryAssumption`, `MediaAssumption`,
`TenancyAssumption`) say only that the constants have their kinds, that an API process is no
worker, and that `None` is none of the values; TLC evaluates them in the runs.

- `PublishOutboxProofs`: `TypeCorrect`; `CoherentAlways`, and from it `FingerprintsHold`,
  `LedgerIsTruthful`, `PublishedIsPosted`, with **no** environment assumption. `TruthfulLedger`
  is not inductive: a process may write any time what it has in memory. `Coherent` therefore says
  that every copy in memory tells no lie either (`CopyOK`), which stays true because posts, and
  reserved fingerprints, never go away (lemma `StepGrows`).
- `PublishOnceProofs`: `ExclusiveAlways`, under both pipeline assumptions, and from it
  `PostedOnce`, `LedgerKeepsPosts`, `QueueAgrees`, `TerminalForever`, `VerdictForever`. `AtMostOnePost` needs that the
  process about to create knows no post exists; `Exclusive` says that a command in a batch is leased
  (`HeldIsLeased`), a batch is one process's (`OneHolder`), and so what a process read is still
  what the row holds when it writes (`FreshCopy`).
- `PublishPromiseProofs`: `PromiseKept`. Initial states map to initial states, and each step is
  `Ask` (`Reserve`), `Post` (`ShareAccepted`), `Tell` (`Complete*`) or changes nothing the promise sees.
- `GovernanceProofs`: `GovernanceTyped`; `HumanGateAlways` from `Gated`, with no assumption: a
  request on its way to the calendar works on a content some caller was told is approved, and
  that is never taken back. `OneVerdictKept`, `InboxKept`, `StatusKept` and
  `LifecycleFollowed` from `Reviewed`, under `SerialReview`: a
  content's rows tell one of four stories, and what a request read still holds when it writes.
  `MinutesApart` from `Placed`, under `SerialCalendar`. `MemoryKept` from both: `Reviewed` makes
  the rows a transaction writes the ones it read, so that its write is the whole operation of the store in
  memory, and `Placed` makes the minute it found free still free.
- `SchedulingProofs`: the routes step `Governance` and `PublishOutbox` through INSTANCE, so
  `SameGovernance` and `SamePipeline` say that these instances are the modules of the proofs above, and
  `GovernSteps` and `PipelineSteps` that a step of a route is a step of theirs or a stutter. That
  brings their invariants along (`PipelineHoldsUnderRoutes`). `Inv` joins them by `Ordered`, which the
  routes add: a route past the gate works on a content that was approved (`RouteOK`), a command is of
  one, and due no earlier than planned (`CommandOK`), and a post is of one (`ShareOK`). From it
  `OnlyApproved`, with no environment assumption, and `QueuedOnCalendar`. Under both pipeline
  assumptions, `Exclusive` holds of the routes too; `PostedNotBeforePlanned` needs it since the
  holder that posts must still hold a due command, and `PostedOncePerContent` adds `OneKey`. What the
  parts promise when their calls do not overlap, they promise under the routes, by the same bridges:
  `PromiseKeptUnderRoutes`, `VerdictsStayUnderRoutes`, `VerdictsUnderRoutes`, `MemoryKeptUnderRoutes`.
- `TelemetryProofs`: `TelemetryConnects`, that polls leave `OAuthConnect` as it is, so that what is proved of
  it holds under them. Its invariant `ConnectInv` says what a callback may rely on after each await
  (`CallbacksHold`), and that a taken state is with one callback or spent on one grant
  (`StatesApart`), which gives `StateSpentOnce` and `TokenIsOfAccount`. `Inv` adds `PollsHold`: what a poll is
  about to store is honest already, since only an answer to scopes that include statistics has
  numbers. So `SlotHasOneReading` and `ReadingsStayHonest` stand, however many polls overlap.
- `MediaShareProofs`: three parts tie requests to the shelf. `UploadsChecked`: an upload past its checks has
  a permitted image, and from the rename on its file. `SharesHaveRows`. `AssetsShow`: rows, posts and
  shares past the put of the bytes name assets that show their image, and no two shares are putting
  into one asset. From it `EveryRowHasItsFile`, `PostsAreComplete` and `CachedUrnIsKept`.
- `TenancyProofs`: `PoolAlways`, with no environment assumption. Its invariant `Pool` says
  that calls inside a transaction and held connections are paired one to one, a free
  connection is as the pool opens it, a session at work is set to its call's workspace and a
  committed one is reset. `CleanPoolAlways` is the part of it a caller relies on, and
  `RowsChangeAtHomeAlways` follows from the scope triggers and it: the call that changes rows of a
  workspace is at work in a session it holds, and that is set to this workspace. Steps outside a transaction are treated at once by the lemma `OutsideKeepsPool`.
  `Typed` adds what a call carries at each step of its list, and gives `TenancyTypes`. On it stand three
  invariants, one per property. `Own`: what a call under `scriora_app` has said so far is of its
  workspace (`AppSeesOwnRowsAlways`). `Named`: one creation at a time, and the name it found free is
  still free (`NamesAreUniqueAlways`). `Showing`: with no doubt, at most one call is about the
  switch, it is about the selected workspace and at its end says what the row holds, and with none
  the button shows the row (`ShellShowsSwitchAlways`).

TLC checked each inductive invariant before it was proved: `Coherent` and `Exclusive` in the runs above
(as `PipelineHolds` too), those of the proof modules on the instances of the runs of their components,
once, and so they are not among the runs.

Every invariant and action property of the passing runs is a theorem. Out of the prover's reach,
and left to TLC: `EveryCommandSettles` (liveness under fairness). The four properties the code
violates have no theorem, of course. What the theorems assume of the environment is in the table above.

## Where the code does something else than it says

Four have a run (`findings` in `PROJECT.json`): a lease may end under its holder, and a key be
posted twice (`outbox_lease`); a post that could not be verified is PUBLISHED (`outbox_unverified`);
a second schedule of a key is answered 200 and changes the calendar but not the queue (`scheduling_calendar`); the processes
connect as the superuser, whom row level security does not bind, so lists and the policy are of every
workspace (`tenancy_role`). The modelling met
others, which the models reproduce and no property denies:

- The stop switch is read at the gate only: a queued command is claimed and posted while
  publishing is stopped (`contents.ts:80`; the worker does not read it).
- `markScheduled` sets SCHEDULED before it looks for a clash, and its refusal commits
  (`governance-store.ts:347`): a content can be SCHEDULED without a minute.
- An enqueue refused after the mark leaves a calendar entry without a command (`contents.ts:93`).
- A command that waits may be off the calendar. A content SCHEDULED without a minute (above) is queued by
  `POST /publications`, the process dies before the claim, and `PATCH schedule` updates no row
  (`governance-store.ts:300`), answers `ok`, and moves the command. TLC found it, in 31 steps with
  two contents, against the state invariant that a waiting command is on the calendar; hence
  `QueuedIsOnCalendar` is about the step that queues.
- Two overlapping decisions both answer `ok` (`governance-store.ts:146`); two contents may take one
  minute (`:352`).
- An upload that fails may leave its temporary file: a failed unlink is ignored (`store.ts:62`), and
  a stream that throws at once is unlinked before its file was opened.
- The asset URN of an image belongs to the member who shared it first, and is used for posts of other members
  of the workspace (`media-store.ts:65`).
- A poll reads the statistics with any account of the workspace, not the author's
  (`telemetry-store.ts:17`); a slot `t_plus_...` may be read at any time; `main.ts` configures no `fetchStats`, so
  in that process every reading is denied or not available.
- For `scriora_app` the list of an operator's workspaces is empty and every name is free, as both
  selects run without a workspace set (`workspace-store.ts:70`, `:88`): each role breaks something.
- Two answers about the stop switch that overlap show whichever came last, of whichever workspace
  (`ClassicShell.tsx:83`).
- Near a change of daylight saving time the calendar plans an hour off (`timezone.ts:4`; not modelled).

## Not modelled

- The other stores in memory (workspaces, OAuth, publication), which only the tests use: they keep
  maps and interleave as little as `MemoryGovernance`.
- Of the web interface, the LinkedIn badge, the media and status pages and what they show; languages and
  layout. `timezone.ts`, which needs the rules of time zones.
- The vault, the stubs and the migration runner: sequential, without state. Signatures and hashes are ideal.
- Refresh and expiry of access tokens: the code stores the expiry and never acts on it in the pipeline.
- Texts, formatting, HTTP headers.

## Plan

Done, in this order: `PublishRules`, `PublishOutbox` and its runs, its proofs, `PublishPromise` and the
refinement; `Governance` and its proofs; `Scheduling`; `OAuthConnect` and `Telemetry`; `MediaShare`;
`MemoryGovernance` and the refinement, with its proof; `Tenancy` and `ClassicShell`; then the
proofs of the rest: `MediaShareProofs`, `TelemetryProofs`, `SchedulingProofs`, `TenancyProofs`.

Next: the rest of `dispatch.ts` and the badge of the web interface.
