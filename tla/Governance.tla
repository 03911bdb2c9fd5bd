----------------------------- MODULE Governance -----------------------------
(***************************************************************************)
(* The life of a content before it is published: drafted, submitted,       *)
(* decided by a human, given a minute in the calendar.                     *)
(*                                                                         *)
(* The operations of packages/db/src/stores/governance-store.ts are        *)
(* READ COMMITTED transactions of several statements. Each begins with a   *)
(* select, on which it decides, and ends with updates by id that look at   *)
(* nothing again. The updates of one transaction are one action, at its    *)
(* commit: they lie under the lock on the content's row that the first of  *)
(* them takes, and are not seen before. A select, and the look for a clash *)
(* in the calendar, which comes under that lock, are actions of their own. *)
(*                                                                         *)
(* Abstracted: one workspace; bodies, media, origin and timestamps are     *)
(* left out; an approval is known by its place in the order of creation;   *)
(* scheduled_at is its UTC minute.                                         *)
(***************************************************************************)
EXTENDS Naturals, Sequences, FiniteSets

CONSTANTS
  Contents,
  Callers,         \* requests being served
  Minutes,
  None,
  SerialReview,    \* environment: no two requests work on one content at once
  SerialCalendar   \* environment: no two requests change the calendar at once

States == {"IDEA", "DRAFT", "IN_REVIEW", "APPROVED", "REJECTED", "SCHEDULED",
           "PUBLISHED", "FAILED", "ARCHIVED"}
Verdicts == {"APPROVED", "REJECTED"}
ApprovalStatuses == Verdicts \cup {"PENDING", "CANCELLED"}
Labels == {"idle", "submit", "decide", "check", "mark", "recheck", "move"}
OnCalendar == {"check", "mark", "recheck", "move"}

\* What a request has in memory: its content and the status it read, the
\* approval and the verdict, or the minute, it was called with.
Jobs == [content: Contents, was: States, nth: Nat, verdict: Verdicts \cup {None},
         minute: Minutes \cup {None}]

ASSUME GovernanceAssumption ==
  /\ None \notin States \cup Verdicts /\ None \notin Minutes /\ None \notin Jobs
  /\ SerialReview \in BOOLEAN
  /\ SerialCalendar \in BOOLEAN

VARIABLES
  status,     \* contents.status, None before the content exists
  approvals,  \* approvals.status of each content, oldest first
  calendar,   \* content_schedules: the minute of the PENDING row
  paused,     \* autonomy_policies.dispatch_paused
  at, job,    \* where each request stands, and what it has read
  told        \* history: the verdicts whose callers were told `ok`

vars == <<status, approvals, calendar, paused, at, job, told>>

Init ==
  /\ status = [c \in Contents |-> None]
  /\ approvals = [c \in Contents |-> <<>>]
  /\ calendar = [c \in Contents |-> None]
  /\ paused = FALSE
  /\ at = [r \in Callers |-> "idle"]
  /\ job = [r \in Callers |-> None]
  /\ told = [c \in Contents |-> {}]

-----------------------------------------------------------------------------
\* The rules of packages/domain/src/content.ts and of the publish gate.

\* A plausible bug: a draft may be scheduled.
allowedFromDraft(from) ==
  CASE from = "DRAFT"     -> {"IN_REVIEW", "SCHEDULED"}
    [] from = "IN_REVIEW" -> {"APPROVED", "REJECTED"}
    [] from = "APPROVED"  -> {"SCHEDULED", "FAILED"}
    [] OTHER              -> {}

allowed(from) ==
  CASE from = "IDEA"      -> {"DRAFT"}
    [] from = "DRAFT"     -> {"IN_REVIEW"}
    [] from = "IN_REVIEW" -> {"APPROVED", "REJECTED"}
    [] from = "APPROVED"  -> {"SCHEDULED", "FAILED"}
    [] from = "REJECTED"  -> {"DRAFT"}
    [] from = "SCHEDULED" -> {"PUBLISHED", "FAILED"}
    [] from = "PUBLISHED" -> {"ARCHIVED"}
    [] from = "FAILED"    -> {"DRAFT"}
    [] OTHER              -> {}

canTransition(from, to) == to \in allowed(from)

canLiveDispatch(state) == state \in {"APPROVED", "SCHEDULED"}

\* A plausible bug: the gate asks the switch only.
MayDispatchAny(c) == ~paused /\ status[c] # None

\* loadForPublish and evaluateLiveDispatch: one select, and its gate.
MayDispatch(c) ==
  /\ ~paused
  /\ canLiveDispatch(status[c])
  /\ \E n \in DOMAIN approvals[c] : approvals[c][n] = "APPROVED"

-----------------------------------------------------------------------------
\* Transactions.

Job(c, nth, verdict, minute) ==
  [content |-> c, was |-> status[c], nth |-> nth, verdict |-> verdict, minute |-> minute]

\* The select a transaction starts with.
Begin(r, label, j) ==
  /\ at[r] = "idle"
  /\ SerialReview => \A q \in Callers : at[q] # "idle" => job[q].content # j.content
  /\ at' = [at EXCEPT ![r] = label]
  /\ job' = [job EXCEPT ![r] = j]
  /\ UNCHANGED <<status, approvals, calendar, paused, told>>

\* It ends, by its commit or by its rollback.
End(r) ==
  /\ at' = [at EXCEPT ![r] = "idle"]
  /\ job' = [job EXCEPT ![r] = None]

\* To give a content its status a request locks its row, and waits while one
\* that has done so looks for a clash. A content that is SCHEDULED already is
\* not updated.
Unlocked(r) ==
  job[r].was = "SCHEDULED" \/ \A q \in Callers \ {r} :
    at[q] = "mark" /\ job[q].was # "SCHEDULED" => job[q].content # job[r].content

\* No other content has the minute the request asks for.
Free(j) == \A c \in Contents : c # j.content => calendar[c] # j.minute

createDraft(c) ==
  /\ status[c] = None
  /\ status' = [status EXCEPT ![c] = "DRAFT"]
  /\ UNCHANGED <<approvals, calendar, paused, at, job, told>>

SubmitRead(r, c) ==
  /\ status[c] # None /\ canTransition(status[c], "IN_REVIEW")
  /\ Begin(r, "submit", Job(c, 0, None, None))

\* Approvals of the content that are still pending are cancelled ...
cancelPending(statuses) ==
  [n \in DOMAIN statuses |-> IF statuses[n] = "PENDING" THEN "CANCELLED" ELSE statuses[n]]

\* ... and a new one is opened.
SubmitWrite(r) ==
  LET c == job[r].content IN
  /\ at[r] = "submit" /\ Unlocked(r)
  /\ status' = [status EXCEPT ![c] = "IN_REVIEW"]
  /\ approvals' = [approvals EXCEPT ![c] = Append(cancelPending(approvals[c]), "PENDING")]
  /\ End(r)
  /\ UNCHANGED <<calendar, paused, told>>

\* A plausible bug: an approval is decided whatever its status.
DecideReadAny(r, c, n, verdict) ==
  /\ n \in DOMAIN approvals[c]
  /\ Begin(r, "decide", Job(c, n, verdict, None))

DecideRead(r, c, n, verdict) ==
  /\ n \in DOMAIN approvals[c] /\ approvals[c][n] = "PENDING"
  /\ canTransition(status[c], verdict)
  /\ Begin(r, "decide", Job(c, n, verdict, None))

\* A plausible bug: the approval itself is not updated.
DecideContentOnly(r) ==
  LET j == job[r] IN
  /\ at[r] = "decide" /\ Unlocked(r)
  /\ status' = [status EXCEPT ![j.content] = j.verdict]
  /\ told' = [told EXCEPT ![j.content] = @ \cup {j.verdict}]
  /\ End(r)
  /\ UNCHANGED <<approvals, calendar, paused>>

\* Both updates are by id: nothing of what was read is looked at again.
DecideWrite(r) ==
  LET j == job[r] IN
  /\ at[r] = "decide" /\ Unlocked(r)
  /\ status' = [status EXCEPT ![j.content] = j.verdict]
  /\ approvals' = [approvals EXCEPT ![j.content][j.nth] = j.verdict]
  /\ told' = [told EXCEPT ![j.content] = @ \cup {j.verdict}]
  /\ End(r)
  /\ UNCHANGED <<calendar, paused>>

setDispatchPaused(b) ==
  /\ paused' = b
  /\ UNCHANGED <<status, approvals, calendar, at, job, told>>

\* A plausible bug: any content is given a minute.
MarkReadAny(r, c, minute) ==
  /\ status[c] # None
  /\ Begin(r, "check", Job(c, 0, None, minute))

\* markScheduled: a content that is SCHEDULED already may be given another
\* minute.
MarkRead(r, c, minute) ==
  /\ status[c] # None
  /\ status[c] = "SCHEDULED" \/ canTransition(status[c], "SCHEDULED")
  /\ Begin(r, "check", Job(c, 0, None, minute))

\* A plausible bug: the content takes the status of its row in the calendar.
ScheduledAsPending(j) ==
  IF j.was = "SCHEDULED" THEN status ELSE [status EXCEPT ![j.content] = "PENDING"]

\* The update of the status comes before the look for a clash, and a refusal
\* commits it.
Scheduled(j) ==
  IF j.was = "SCHEDULED" THEN status ELSE [status EXCEPT ![j.content] = "SCHEDULED"]

MarkRefused(r) ==
  /\ at[r] = "check" /\ Unlocked(r)
  /\ ~Free(job[r])
  /\ status' = Scheduled(job[r])
  /\ End(r)
  /\ UNCHANGED <<approvals, calendar, paused, told>>

\* A plausible bug: no look for a clash.
CheckBlind(r, from, to) ==
  /\ at[r] = from /\ Unlocked(r)
  /\ at' = [at EXCEPT ![r] = to]
  /\ UNCHANGED <<status, approvals, calendar, paused, job, told>>

\* The look for a clash, from which the write follows in a later statement.
Check(r, from, to) ==
  /\ at[r] = from /\ Unlocked(r)
  /\ Free(job[r])
  /\ SerialCalendar => \A q \in Callers : at[q] \notin {"mark", "move"}
  /\ at' = [at EXCEPT ![r] = to]
  /\ UNCHANGED <<status, approvals, calendar, paused, job, told>>

\* A plausible bug: the calendar is written, the content is not.
MarkRowOnly(r) ==
  LET j == job[r] IN
  /\ at[r] = "mark"
  /\ calendar' = [calendar EXCEPT ![j.content] = j.minute]
  /\ End(r)
  /\ UNCHANGED <<status, approvals, paused, told>>

MarkWrite(r) ==
  LET j == job[r] IN
  /\ at[r] = "mark"
  /\ status' = Scheduled(j)
  /\ calendar' = [calendar EXCEPT ![j.content] = j.minute]
  /\ End(r)
  /\ UNCHANGED <<approvals, paused, told>>

\* reschedule.
MoveRead(r, c, minute) ==
  /\ status[c] = "SCHEDULED"
  /\ Begin(r, "recheck", Job(c, 0, None, minute))

MoveRefused(r) ==
  /\ at[r] = "recheck"
  /\ ~Free(job[r])
  /\ End(r)
  /\ UNCHANGED <<status, approvals, calendar, paused, told>>

\* An update of the PENDING row, if there is one.
MoveWrite(r) ==
  LET j == job[r] IN
  /\ at[r] = "move"
  /\ calendar' = [calendar EXCEPT
       ![j.content] = IF calendar[j.content] = None THEN None ELSE j.minute]
  /\ End(r)
  /\ UNCHANGED <<status, approvals, paused, told>>

\* A statement fails, or the process dies: the transaction is rolled back.
Rollback(r) ==
  /\ at[r] # "idle"
  /\ End(r)
  /\ UNCHANGED <<status, approvals, calendar, paused, told>>

-----------------------------------------------------------------------------
Review(r) ==
  \/ \E c \in Contents : SubmitRead(r, c)
  \/ SubmitWrite(r)
  \/ \E c \in Contents, verdict \in Verdicts :
       \E n \in DOMAIN approvals[c] : DecideRead(r, c, n, verdict)
  \/ DecideWrite(r)

Schedule(r) ==
  \/ \E c \in Contents, m \in Minutes : MarkRead(r, c, m) \/ MoveRead(r, c, m)
  \/ Check(r, "check", "mark") \/ Check(r, "recheck", "move")
  \/ MarkRefused(r) \/ MarkWrite(r) \/ MoveRefused(r) \/ MoveWrite(r)

Next ==
  \/ \E r \in Callers : Review(r) \/ Schedule(r) \/ Rollback(r)
  \/ \E c \in Contents : createDraft(c)
  \/ \E b \in BOOLEAN : setDispatchPaused(b)

Spec == Init /\ [][Next]_vars

-----------------------------------------------------------------------------
\* Properties.

TypeOK ==
  /\ status \in [Contents -> States \cup {None}]
  /\ approvals \in [Contents -> Seq(ApprovalStatuses)]
  /\ calendar \in [Contents -> Minutes \cup {None}]
  /\ paused \in BOOLEAN
  /\ at \in [Callers -> Labels]
  /\ job \in [Callers -> Jobs \cup {None}]
  /\ told \in [Contents -> SUBSET Verdicts]

\* Whatever races, the gate never opens for a content that no human approved
\* (content.ts:22-27, publish-gate.ts:23-28).
HumanGate == \A c \in Contents : canLiveDispatch(status[c]) => "APPROVED" \in told[c]

\* Whatever races, a minute in the calendar was given to an approved content.
CalendarIsApproved == \A c \in Contents : calendar[c] # None => "APPROVED" \in told[c]

\* Whatever races, the inbox never offers two approvals of one content
\* (governance-store.ts:86-91 cancels the older one).
OnePending ==
  \A c \in Contents : \A n, m \in DOMAIN approvals[c] :
    approvals[c][n] = "PENDING" /\ approvals[c][m] = "PENDING" => n = m

\* No two callers are told opposite verdicts on one content. Like the
\* properties below, needs SerialReview.
OneVerdict == \A c \in Contents : Cardinality(told[c]) <= 1

\* The inbox offers an approval exactly while its content is in review, and
\* one at a time: what it offers can be decided.
InboxIsDecidable ==
  \A c \in Contents :
    LET pending == {n \in DOMAIN approvals[c] : approvals[c][n] = "PENDING"} IN
    IF status[c] = "IN_REVIEW" THEN \E n \in DOMAIN approvals[c] : pending = {n}
    ELSE pending = {}

\* The status of a content is what its approvals say of it: one may be published
\* exactly while an approval of it reads APPROVED, as the gate asks of both.
StatusIsDecided ==
  \A c \in Contents :
    LET said == {approvals[c][n] : n \in DOMAIN approvals[c]} IN
    /\ canLiveDispatch(status[c]) <=> "APPROVED" \in said
    /\ status[c] = "REJECTED" <=> "REJECTED" \in said

\* The calendar shows scheduled contents only.
CalendarIsScheduled == \A c \in Contents : calendar[c] # None => status[c] = "SCHEDULED"

\* A content's status moves along the arrows of content.ts only, over all the
\* requests that move it.
FollowsLifecycle ==
  [][\A c \in Contents : status[c] # None /\ status'[c] # status[c]
       => canTransition(status[c], status'[c])]_status

\* Two contents never share a minute. Needs SerialCalendar.
OneContentPerMinute ==
  \A c, d \in Contents : c # d /\ calendar[c] # None => calendar[c] # calendar[d]

\* The status as the store in memory has it: there, a refused minute leaves the
\* content as it was (memory-store.ts:184-204, governance-store.ts:347-361).
WithMinute ==
  [c \in Contents |-> IF status[c] = "SCHEDULED" /\ calendar[c] = None THEN "APPROVED" ELSE status[c]]

Memory == INSTANCE MemoryGovernance WITH status <- WithMinute, scheduledAt <- calendar

\* The transactions of several statements do what the store in memory does in
\* one step each, and nothing else. Needs SerialReview and SerialCalendar.
KeepsMemory == Memory!Spec

-----------------------------------------------------------------------------
\* The inductive invariants behind the properties.

\* What a request has in memory at each point.
JobOK ==
  \A r \in Callers :
    /\ at[r] # "idle" => job[r] \in Jobs
    /\ at[r] = "decide" =>
         job[r].verdict \in Verdicts /\ job[r].nth \in DOMAIN approvals[job[r].content]
    /\ at[r] \in OnCalendar => job[r].minute \in Minutes

\* Holds whatever races: a request that schedules works on an approved content.
Gated ==
  /\ HumanGate /\ CalendarIsApproved /\ OnePending
  /\ \A r \in Callers : at[r] \in OnCalendar => "APPROVED" \in told[job[r].content]

\* The one story a content's rows may tell at each status.
OneStory(c) ==
  \/ status[c] \in {None, "DRAFT"} /\ approvals[c] = <<>> /\ told[c] = {}
  \/ status[c] = "IN_REVIEW" /\ approvals[c] = <<"PENDING">> /\ told[c] = {}
  \/ status[c] = "REJECTED" /\ approvals[c] = <<"REJECTED">> /\ told[c] = {"REJECTED"}
  \/ /\ canLiveDispatch(status[c])
     /\ approvals[c] = <<"APPROVED">> /\ told[c] = {"APPROVED"}

\* What a request read is still so when it writes.
StillSo(r) ==
  LET c == job[r].content IN
  /\ at[r] = "submit" => status[c] = "DRAFT"
  /\ at[r] = "decide" => status[c] = "IN_REVIEW"
  /\ at[r] \in OnCalendar => canLiveDispatch(status[c]) /\ status[c] = job[r].was
  /\ at[r] \in {"recheck", "move"} => status[c] = "SCHEDULED"

\* Holds when requests on one content do not overlap.
Reviewed ==
  /\ \A q, r \in Callers :
       q # r /\ at[q] # "idle" /\ at[r] # "idle" => job[q].content # job[r].content
  /\ \A c \in Contents : OneStory(c)
  /\ CalendarIsScheduled
  /\ \A r \in Callers : StillSo(r)

\* Holds when requests that change the calendar do not overlap.
Placed ==
  /\ OneContentPerMinute
  /\ \A q, r \in Callers : {at[q], at[r]} \subseteq {"mark", "move"} => q = r
  /\ \A r \in Callers : at[r] \in {"mark", "move"} => Free(job[r])
=============================================================================
