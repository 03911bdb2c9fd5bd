-------------------------- MODULE GovernanceProofs --------------------------
(***************************************************************************)
(* Theorems about Governance, for any contents, requests and minutes.      *)
(* Whatever races, nothing unapproved passes the gate; without overlapping *)
(* requests on one content its rows tell one story; without overlapping    *)
(* changes of the calendar no minute is given twice.                       *)
(***************************************************************************)
EXTENDS Governance, FiniteSetTheorems, SequenceTheorems, TLAPS

\* The variables have their types, and so does what each request remembers.
Typed == TypeOK /\ JobOK

\* A transaction begins with a job of the right type.
LEMMA BeginStep ==
  ASSUME Typed, NEW r \in Callers, NEW label \in Labels \ {"idle"}, NEW c \in Contents,
         NEW nth \in Nat, NEW verdict \in Verdicts \cup {None},
         NEW minute \in Minutes \cup {None}, status[c] # None,
         label = "decide" => verdict \in Verdicts /\ nth \in DOMAIN approvals[c],
         label \in OnCalendar => minute \in Minutes,
         Begin(r, label, Job(c, nth, verdict, minute))
  PROVE  Typed'
<1> DEFINE j == Job(c, nth, verdict, minute)
<1>1. j \in Jobs /\ j.content = c /\ j.nth = nth /\ j.verdict = verdict /\ j.minute = minute
  BY DEF Typed, TypeOK, Jobs, Job
<1>2. job' = [job EXCEPT ![r] = j] /\ at' = [at EXCEPT ![r] = label]
      /\ UNCHANGED <<status, approvals, calendar, paused, told>>
  BY DEF Begin
<1> HIDE DEF j
<1>3. TypeOK'
  BY <1>1, <1>2 DEF Typed, TypeOK
<1>4. JobOK'
  BY <1>1, <1>2 DEF Typed, TypeOK, JobOK
<1>5. QED BY <1>3, <1>4 DEF Typed

\* A transaction that ends keeps the types, if what it wrote has them and no
\* approval is lost.
LEMMA EndStep ==
  ASSUME Typed, NEW r \in Callers, End(r),
         status' \in [Contents -> States \cup {None}],
         approvals' \in [Contents -> Seq(ApprovalStatuses)],
         calendar' \in [Contents -> Minutes \cup {None}],
         told' \in [Contents -> SUBSET Verdicts],
         \A c \in Contents : DOMAIN approvals[c] \subseteq DOMAIN approvals'[c],
         UNCHANGED paused
  PROVE  Typed'
<1>1. TypeOK'
  BY DEF Typed, TypeOK, End, Labels
<1>2. JobOK'
  BY DEF Typed, TypeOK, JobOK, End, Jobs, OnCalendar
<1>3. QED BY <1>1, <1>2 DEF Typed

\* The sequence a submission leaves: the old approvals, none of them pending,
\* and one more, which is.
LEMMA Submitted ==
  ASSUME NEW s \in Seq(ApprovalStatuses)
  PROVE  /\ Append(cancelPending(s), "PENDING") \in Seq(ApprovalStatuses)
         /\ DOMAIN s \subseteq DOMAIN Append(cancelPending(s), "PENDING")
         /\ \A n \in DOMAIN Append(cancelPending(s), "PENDING") :
              Append(cancelPending(s), "PENDING")[n] = "PENDING" => n = Len(s) + 1
         /\ s = <<>> => Append(cancelPending(s), "PENDING") = <<"PENDING">>
<1> DEFINE t == cancelPending(s)
<1>1. t \in Seq(ApprovalStatuses) /\ Len(t) = Len(s) /\ \A n \in 1..Len(s) : t[n] # "PENDING"
  BY DEF cancelPending, ApprovalStatuses
<1>2. \A n \in 1..Len(s) : Append(t, "PENDING")[n] # "PENDING"
  BY <1>1
<1>3. Append(t, "PENDING") \in Seq(ApprovalStatuses) /\ DOMAIN Append(t, "PENDING") = 1..(Len(s) + 1)
  BY <1>1 DEF ApprovalStatuses
<1>4. s = <<>> => Append(t, "PENDING") = <<"PENDING">>
  <2>1. ASSUME s = <<>> PROVE t = <<>>
    BY <1>1, <2>1, EmptySeq DEF ApprovalStatuses
  <2>2. Append(<<>>, "PENDING") = <<"PENDING">>
    OBVIOUS
  <2>3. QED BY <2>1, <2>2
<1>5. QED BY <1>2, <1>3, <1>4

\* The rules move between states of a content only.
LEMMA Moves ==
  ASSUME NEW from, NEW to
  PROVE  /\ canTransition(from, "IN_REVIEW") => from = "DRAFT"
         /\ to \in Verdicts /\ canTransition(from, to) => from = "IN_REVIEW"
         /\ canTransition(from, "SCHEDULED") => from = "APPROVED"
         /\ canTransition("DRAFT", "IN_REVIEW") /\ canTransition("APPROVED", "SCHEDULED")
         /\ to \in Verdicts => canTransition("IN_REVIEW", to)
  BY DEF canTransition, allowed, Verdicts

\* Every step keeps the types: one case per action of Next.
LEMMA TypedStep ==
  ASSUME Typed, [Next]_vars
  PROVE  Typed'
<1> USE DEF Labels, OnCalendar
<1>1. ASSUME NEW r \in Callers, NEW c \in Contents, SubmitRead(r, c) PROVE Typed'
  BY <1>1, BeginStep DEF SubmitRead
<1>2. ASSUME NEW r \in Callers, SubmitWrite(r) PROVE Typed'
  <2>1. job[r].content \in Contents
    BY <1>2 DEF SubmitWrite, Typed, TypeOK, JobOK, Jobs
  <2>2. approvals[job[r].content] \in Seq(ApprovalStatuses)
    BY <2>1 DEF Typed, TypeOK
  <2>3. status' \in [Contents -> States \cup {None}] /\ approvals' \in [Contents -> Seq(ApprovalStatuses)]
        /\ \A c \in Contents : DOMAIN approvals[c] \subseteq DOMAIN approvals'[c]
    BY <1>2, <2>1, <2>2, Submitted DEF SubmitWrite, Typed, TypeOK, States
  <2>4. QED BY <1>2, <2>3, EndStep DEF SubmitWrite, Typed, TypeOK
<1>3. ASSUME NEW r \in Callers, NEW c \in Contents, NEW v \in Verdicts, NEW n \in DOMAIN approvals[c],
             DecideRead(r, c, n, v)
      PROVE  Typed'
  <2>1. n \in Nat
    BY DEF Typed, TypeOK
  <2>2. status[c] # None
    BY <1>3, Moves, GovernanceAssumption DEF DecideRead, States
  <2>3. QED BY <1>3, <2>1, <2>2, BeginStep DEF DecideRead
<1>4. ASSUME NEW r \in Callers, DecideWrite(r) PROVE Typed'
  <2>1. job[r].content \in Contents /\ job[r].verdict \in Verdicts
        /\ job[r].nth \in DOMAIN approvals[job[r].content]
    BY <1>4 DEF DecideWrite, Typed, TypeOK, JobOK, Jobs
  <2>2. status' \in [Contents -> States \cup {None}] /\ told' \in [Contents -> SUBSET Verdicts]
    BY <1>4, <2>1 DEF DecideWrite, Typed, TypeOK, States, Verdicts
  <2>3. approvals' \in [Contents -> Seq(ApprovalStatuses)]
        /\ \A c \in Contents : DOMAIN approvals[c] \subseteq DOMAIN approvals'[c]
    BY <1>4, <2>1 DEF DecideWrite, Typed, TypeOK, ApprovalStatuses
  <2>4. QED BY <1>4, <2>2, <2>3, EndStep DEF DecideWrite, Typed, TypeOK
<1>5. ASSUME NEW r \in Callers, NEW c \in Contents, NEW m \in Minutes, MarkRead(r, c, m) PROVE Typed'
  BY <1>5, BeginStep DEF MarkRead
<1>6. ASSUME NEW r \in Callers, NEW c \in Contents, NEW m \in Minutes, MoveRead(r, c, m) PROVE Typed'
  BY <1>6, BeginStep, GovernanceAssumption DEF MoveRead, States
<1>7. ASSUME NEW r \in Callers, NEW from, NEW to, Check(r, from, to),
             <<from, to>> \in {<<"check", "mark">>, <<"recheck", "move">>}
      PROVE  Typed'
  <2>1. TypeOK'
    BY <1>7 DEF Check, Typed, TypeOK
  <2>2. JobOK'
    BY <1>7 DEF Check, Typed, TypeOK, JobOK
  <2>3. QED BY <2>1, <2>2 DEF Typed
<1>8. ASSUME NEW r \in Callers, MarkRefused(r) \/ MarkWrite(r) PROVE Typed'
  <2>1. job[r].content \in Contents /\ job[r].minute \in Minutes
    BY <1>8 DEF MarkRefused, MarkWrite, Typed, TypeOK, JobOK, Jobs
  <2>2. status' \in [Contents -> States \cup {None}]
    BY <1>8, <2>1 DEF MarkRefused, MarkWrite, Scheduled, Typed, TypeOK, States
  <2>3. calendar' \in [Contents -> Minutes \cup {None}]
    BY <1>8, <2>1 DEF MarkRefused, MarkWrite, Typed, TypeOK
  <2>4. QED BY <1>8, <2>2, <2>3, EndStep DEF MarkRefused, MarkWrite, Typed, TypeOK
<1>9. ASSUME NEW r \in Callers, MoveRefused(r) \/ MoveWrite(r) \/ Rollback(r) PROVE Typed'
  <2>1. at[r] \in {"recheck", "move"} => job[r].content \in Contents /\ job[r].minute \in Minutes
    BY DEF Typed, TypeOK, JobOK, Jobs
  <2>2. calendar' \in [Contents -> Minutes \cup {None}]
    BY <1>9, <2>1 DEF MoveRefused, MoveWrite, Rollback, Typed, TypeOK
  <2>3. QED BY <1>9, <2>2, EndStep DEF MoveRefused, MoveWrite, Rollback, Typed, TypeOK
<1>10. ASSUME NEW c \in Contents, createDraft(c) PROVE Typed'
  BY <1>10 DEF createDraft, Typed, TypeOK, JobOK, States
<1>11. ASSUME NEW b \in BOOLEAN, setDispatchPaused(b) PROVE Typed'
  BY <1>11 DEF setDispatchPaused, Typed, TypeOK, JobOK
<1>12. CASE UNCHANGED vars
  BY <1>12 DEF vars, Typed, TypeOK, JobOK
<1>13. QED
  BY <1>1, <1>2, <1>3, <1>4, <1>5, <1>6, <1>7, <1>8, <1>9, <1>10, <1>11, <1>12
     DEF Next, Review, Schedule

\* An empty workspace is typed.
LEMMA TypedInit == Init => Typed
<1>1. <<>> \in Seq(ApprovalStatuses)
  BY EmptySeq
<1>2. QED BY <1>1 DEF Init, Typed, TypeOK, JobOK, Labels, OnCalendar

\* Typed is inductive.
LEMMA TypedAlways == Spec => []Typed
<1>1. Init => Typed
  BY TypedInit
<1>2. Typed /\ [Next]_vars => Typed'
  BY TypedStep
<1>3. QED BY <1>1, <1>2, PTL DEF Spec

\* The rows of the store keep to their tables' types, and a request has in
\* memory what it needs where it stands.
THEOREM GovernanceTyped == Spec => [](TypeOK /\ JobOK)
<1>1. Typed => TypeOK /\ JobOK
  BY DEF Typed
<1>2. QED BY <1>1, TypedAlways, PTL

-----------------------------------------------------------------------------
\* Whatever races.

\* A transaction that begins keeps Gated, if one that schedules begins with an
\* approved content.
LEMMA BeginGated ==
  ASSUME Typed, Gated, NEW r \in Callers, NEW label \in Labels, NEW j, Begin(r, label, j),
         label \in OnCalendar => "APPROVED" \in told[j.content]
  PROVE  Gated'
BY DEF Begin, Gated, HumanGate, CalendarIsApproved, OnePending, Typed, TypeOK

\* A transaction that ends keeps Gated, if verdicts stay and what it wrote is
\* approved.
LEMMA EndGated ==
  ASSUME Typed, Typed', Gated, NEW r \in Callers, End(r), HumanGate', CalendarIsApproved', OnePending',
         \A c \in Contents : told[c] \subseteq told'[c]
  PROVE  Gated'
<1>1. ASSUME NEW q \in Callers, at'[q] \in OnCalendar PROVE "APPROVED" \in told'[job'[q].content]
  <2>1. q # r /\ at[q] \in OnCalendar /\ job'[q] = job[q] /\ job[q].content \in Contents
    BY <1>1 DEF End, Typed, TypeOK, JobOK, Jobs, OnCalendar
  <2>2. QED BY <2>1 DEF Gated
<1>2. QED BY <1>1 DEF Gated

\* Every step keeps Gated: one case per action of Next.
LEMMA GatedStep ==
  ASSUME Typed, Gated, [Next]_vars
  PROVE  Gated'
<1>0. Typed'
  BY TypedStep
<1>1. ASSUME NEW r \in Callers, NEW c \in Contents, SubmitRead(r, c) PROVE Gated'
  BY <1>1, BeginGated DEF SubmitRead, Labels, OnCalendar
<1>2. ASSUME NEW r \in Callers, SubmitWrite(r) PROVE Gated'
  <2>1. job[r].content \in Contents
    BY <1>2 DEF SubmitWrite, Typed, TypeOK, JobOK, Jobs
  <2>2. approvals[job[r].content] \in Seq(ApprovalStatuses)
    BY <2>1 DEF Typed, TypeOK
  <2>3. HumanGate' /\ CalendarIsApproved'
    BY <1>2, <2>1 DEF SubmitWrite, HumanGate, CalendarIsApproved, Gated, canLiveDispatch, Typed, TypeOK
  <2>4. OnePending'
    <3>1. \A c \in Contents : approvals'[c] =
            IF c = job[r].content THEN Append(cancelPending(approvals[c]), "PENDING") ELSE approvals[c]
      BY <1>2, <2>1 DEF SubmitWrite, Typed, TypeOK
    <3>2. QED
      BY <2>1, <2>2, <3>1, Submitted DEF OnePending, Gated
  <2>5. QED BY <1>0, <1>2, <2>3, <2>4, EndGated DEF SubmitWrite
<1>3. ASSUME NEW r \in Callers, NEW c \in Contents, NEW v \in Verdicts, NEW n \in DOMAIN approvals[c],
             DecideRead(r, c, n, v)
      PROVE  Gated'
  BY <1>3, BeginGated DEF DecideRead, Labels, OnCalendar
<1>4. ASSUME NEW r \in Callers, DecideWrite(r) PROVE Gated'
  <2>1. job[r].content \in Contents /\ job[r].verdict \in Verdicts
        /\ job[r].nth \in DOMAIN approvals[job[r].content]
    BY <1>4 DEF DecideWrite, Typed, TypeOK, JobOK, Jobs
  <2>2. HumanGate' /\ CalendarIsApproved' /\ \A c \in Contents : told[c] \subseteq told'[c]
    BY <1>4, <2>1 DEF DecideWrite, HumanGate, CalendarIsApproved, Gated, canLiveDispatch, Verdicts, Typed, TypeOK
  <2>3. OnePending'
    BY <1>4, <2>1 DEF DecideWrite, OnePending, Gated, Verdicts, Typed, TypeOK
  <2>4. QED BY <1>0, <1>4, <2>2, <2>3, EndGated DEF DecideWrite
<1>5. ASSUME NEW r \in Callers, NEW c \in Contents, NEW m \in Minutes, MarkRead(r, c, m) PROVE Gated'
  <2>1. "APPROVED" \in told[c]
    BY <1>5, Moves DEF MarkRead, Gated, HumanGate, canLiveDispatch
  <2>2. QED BY <1>5, <2>1, BeginGated DEF MarkRead, Job, Labels
<1>6. ASSUME NEW r \in Callers, NEW c \in Contents, NEW m \in Minutes, MoveRead(r, c, m) PROVE Gated'
  <2>1. "APPROVED" \in told[c]
    BY <1>6 DEF MoveRead, Gated, HumanGate, canLiveDispatch
  <2>2. QED BY <1>6, <2>1, BeginGated DEF MoveRead, Job, Labels
<1>7. ASSUME NEW r \in Callers, NEW from, NEW to, Check(r, from, to),
             <<from, to>> \in {<<"check", "mark">>, <<"recheck", "move">>}
      PROVE  Gated'
  BY <1>7 DEF Check, Gated, HumanGate, CalendarIsApproved, OnePending, OnCalendar, Typed, TypeOK
<1>8. ASSUME NEW r \in Callers, MarkRefused(r) \/ MarkWrite(r) PROVE Gated'
  <2>1. job[r].content \in Contents /\ "APPROVED" \in told[job[r].content]
    BY <1>8 DEF MarkRefused, MarkWrite, Typed, TypeOK, JobOK, Jobs, Gated, OnCalendar
  <2>2. HumanGate'
    BY <1>8, <2>1 DEF MarkRefused, MarkWrite, Scheduled, HumanGate, Gated, Typed, TypeOK
  <2>3. CalendarIsApproved' /\ OnePending'
    BY <1>8, <2>1 DEF MarkRefused, MarkWrite, CalendarIsApproved, OnePending, Gated, Typed, TypeOK
  <2>4. QED BY <1>0, <1>8, <2>2, <2>3, EndGated DEF MarkRefused, MarkWrite
<1>9. ASSUME NEW r \in Callers, MoveRefused(r) \/ MoveWrite(r) \/ Rollback(r) PROVE Gated'
  <2>1. HumanGate' /\ OnePending'
    BY <1>9 DEF MoveRefused, MoveWrite, Rollback, HumanGate, OnePending, Gated
  <2>2. CalendarIsApproved'
    BY <1>9, GovernanceAssumption
       DEF MoveRefused, MoveWrite, Rollback, CalendarIsApproved, Gated, Typed, TypeOK
  <2>3. QED BY <1>0, <1>9, <2>1, <2>2, EndGated DEF MoveRefused, MoveWrite, Rollback
<1>10. ASSUME NEW c \in Contents, createDraft(c) PROVE Gated'
  BY <1>10 DEF createDraft, Gated, HumanGate, CalendarIsApproved, OnePending, canLiveDispatch, Typed, TypeOK
<1>11. ASSUME NEW b \in BOOLEAN, setDispatchPaused(b) PROVE Gated'
  BY <1>11 DEF setDispatchPaused, Gated, HumanGate, CalendarIsApproved, OnePending
<1>12. CASE UNCHANGED vars
  BY <1>12 DEF vars, Gated, HumanGate, CalendarIsApproved, OnePending
<1>13. QED
  BY <1>1, <1>2, <1>3, <1>4, <1>5, <1>6, <1>7, <1>8, <1>9, <1>10, <1>11, <1>12
     DEF Next, Review, Schedule

\* An empty workspace has nothing to approve.
LEMMA GatedInit == Init => Gated
BY GovernanceAssumption
   DEF Init, Gated, HumanGate, CalendarIsApproved, OnePending, canLiveDispatch, OnCalendar, States

\* No step takes a verdict back, nor a content off the calendar.
LEMMA NothingTakenBack ==
  ASSUME Typed, [Next]_vars, NEW c \in Contents
  PROVE  told[c] \subseteq told'[c] /\ (calendar[c] # None => calendar'[c] # None)
<1> USE DEF Typed, TypeOK
<1>1. ASSUME UNCHANGED <<told, calendar>>
      PROVE  told[c] \subseteq told'[c] /\ (calendar[c] # None => calendar'[c] # None)
  BY <1>1
<1>2. ASSUME NEW r \in Callers, DecideWrite(r)
      PROVE  told[c] \subseteq told'[c] /\ (calendar[c] # None => calendar'[c] # None)
  BY <1>2 DEF DecideWrite
<1>3. ASSUME NEW r \in Callers, MarkWrite(r) \/ MoveWrite(r)
      PROVE  told[c] \subseteq told'[c] /\ (calendar[c] # None => calendar'[c] # None)
  <2>1. job[r].minute \in Minutes
    BY <1>3 DEF MarkWrite, MoveWrite, JobOK, OnCalendar
  <2>2. job[r].minute # None
    BY <2>1, GovernanceAssumption
  <2>3. QED BY <1>3, <2>2 DEF MarkWrite, MoveWrite
<1>4. QED
  BY <1>1, <1>2, <1>3
     DEF Next, Review, Schedule, SubmitRead, SubmitWrite, DecideRead, MarkRead, MoveRead, Begin, Check,
         MarkRefused, MoveRefused, Rollback, createDraft, setDispatchPaused, vars

\* No content reaches the gate, or the calendar, that no human approved, and the
\* inbox never offers two approvals of one content: whatever requests overlap.
THEOREM HumanGateAlways == Spec => [](HumanGate /\ CalendarIsApproved /\ OnePending)
<1>1. Init => Gated
  BY GatedInit
<1>2. Typed /\ Gated /\ [Next]_vars => Gated'
  BY GatedStep
<1>3. Gated => HumanGate /\ CalendarIsApproved /\ OnePending
  BY DEF Gated
<1>4. QED BY <1>1, <1>2, <1>3, TypedAlways, PTL DEF Spec

-----------------------------------------------------------------------------
\* When requests on one content do not overlap.

\* A transaction that begins keeps Reviewed, if what it read is still so.
LEMMA BeginReviewed ==
  ASSUME SerialReview, Typed, Reviewed, NEW r \in Callers, NEW label \in Labels \ {"idle"},
         NEW c \in Contents, NEW nth, NEW verdict, NEW minute,
         Begin(r, label, Job(c, nth, verdict, minute)),
         label = "submit" => status[c] = "DRAFT",
         label = "decide" => status[c] = "IN_REVIEW",
         label \in OnCalendar => canLiveDispatch(status[c]),
         label \in {"recheck", "move"} => status[c] = "SCHEDULED"
  PROVE  Reviewed'
<1> DEFINE j == Job(c, nth, verdict, minute)
<1>1. j.content = c /\ j.was = status[c]
  BY DEF Job
<1>2. /\ at[r] = "idle" /\ job' = [job EXCEPT ![r] = j] /\ at' = [at EXCEPT ![r] = label]
      /\ \A q \in Callers : at[q] # "idle" => job[q].content # c
      /\ UNCHANGED <<status, approvals, calendar, paused, told>>
  BY <1>1 DEF Begin
<1> HIDE DEF j
<1>3. \A p, q \in Callers :
         p # q /\ at'[p] # "idle" /\ at'[q] # "idle" => job'[p].content # job'[q].content
  BY <1>1, <1>2 DEF Reviewed, Typed, TypeOK
<1>4. \A x \in Contents : OneStory(x)'
  BY <1>2 DEF Reviewed, OneStory
<1>5. CalendarIsScheduled'
  BY <1>2 DEF Reviewed, CalendarIsScheduled
<1>6. \A q \in Callers : StillSo(q)'
  BY <1>1, <1>2 DEF Reviewed, StillSo, Typed, TypeOK
<1>7. QED BY <1>3, <1>4, <1>5, <1>6 DEF Reviewed

\* A transaction that ends keeps Reviewed, if it touched its own content only
\* and left that content's rows telling one story.
LEMMA EndReviewed ==
  ASSUME Typed, Reviewed, NEW r \in Callers, at[r] # "idle", End(r), NEW c \in Contents,
         job[r].content = c,
         \A d \in Contents : d # c =>
           /\ status'[d] = status[d] /\ approvals'[d] = approvals[d]
           /\ calendar'[d] = calendar[d] /\ told'[d] = told[d],
         OneStory(c)', calendar'[c] # None => status'[c] = "SCHEDULED"
  PROVE  Reviewed'
<1>1. \A q \in Callers : q # r /\ at[q] # "idle" =>
        /\ at'[q] = at[q] /\ job'[q] = job[q]
        /\ job[q].content \in Contents /\ job[q].content # c
  BY DEF End, Reviewed, Typed, TypeOK, JobOK, Jobs
<1>2. \A q \in Callers : at'[q] # "idle" => q # r /\ at[q] # "idle"
  BY DEF End, Typed, TypeOK
<1>3. \A p, q \in Callers :
         p # q /\ at'[p] # "idle" /\ at'[q] # "idle" => job'[p].content # job'[q].content
  BY <1>1, <1>2 DEF Reviewed
<1>4. \A x \in Contents : OneStory(x)'
  BY DEF Reviewed, OneStory
<1>5. CalendarIsScheduled'
  BY DEF Reviewed, CalendarIsScheduled
<1>6. \A q \in Callers : StillSo(q)'
  BY <1>1, <1>2 DEF Reviewed, StillSo, OnCalendar
<1>7. QED BY <1>3, <1>4, <1>5, <1>6 DEF Reviewed

\* Every step keeps Reviewed, and moves each status along the lifecycle.
LEMMA ReviewedStep ==
  ASSUME SerialReview, Typed, Reviewed, [Next]_vars
  PROVE  /\ Reviewed'
         /\ \A c \in Contents : status[c] # None /\ status'[c] # status[c]
              => canTransition(status[c], status'[c])
<1> DEFINE Moved == \A c \in Contents : status[c] # None /\ status'[c] # status[c]
                      => canTransition(status[c], status'[c])
<1>0. UNCHANGED status => Moved
  OBVIOUS
<1>1. ASSUME NEW r \in Callers, NEW c \in Contents, SubmitRead(r, c) PROVE Reviewed' /\ Moved
  <2>1. status[c] = "DRAFT" /\ Begin(r, "submit", Job(c, 0, None, None))
    BY <1>1, Moves DEF SubmitRead
  <2>2. Reviewed'
    BY <1>1, <2>1, BeginReviewed DEF Labels, OnCalendar
  <2>3. QED BY <1>0, <2>1, <2>2 DEF Begin
<1>2. ASSUME NEW r \in Callers, SubmitWrite(r) PROVE Reviewed' /\ Moved
  <2>1. PICK c \in Contents : c = job[r].content
    BY <1>2 DEF SubmitWrite, Typed, TypeOK, JobOK, Jobs
  <2>2. status[c] = "DRAFT" /\ approvals[c] = <<>> /\ told[c] = {} /\ calendar[c] = None
    BY <1>2, <2>1, GovernanceAssumption
       DEF SubmitWrite, Reviewed, StillSo, OneStory, CalendarIsScheduled, canLiveDispatch, States
  <2>3. status'[c] = "IN_REVIEW" /\ approvals'[c] = <<"PENDING">> /\ told'[c] = {} /\ calendar'[c] = None
    BY <1>2, <2>1, <2>2, Submitted, EmptySeq DEF SubmitWrite, Typed, TypeOK
  <2>4. Reviewed'
    BY <1>2, <2>1, <2>3, EndReviewed DEF SubmitWrite, OneStory, Typed, TypeOK
  <2>5. Moved
    BY <1>2, <2>1, <2>2, Moves DEF SubmitWrite, Typed, TypeOK
  <2>6. QED BY <2>4, <2>5
<1>3. ASSUME NEW r \in Callers, NEW c \in Contents, NEW v \in Verdicts, NEW n \in DOMAIN approvals[c],
             DecideRead(r, c, n, v)
      PROVE  Reviewed' /\ Moved
  <2>1. status[c] = "IN_REVIEW" /\ Begin(r, "decide", Job(c, n, v, None))
    BY <1>3, Moves DEF DecideRead
  <2>2. Reviewed'
    BY <1>3, <2>1, BeginReviewed DEF Labels, OnCalendar
  <2>3. QED BY <1>0, <2>1, <2>2 DEF Begin
<1>4. ASSUME NEW r \in Callers, DecideWrite(r) PROVE Reviewed' /\ Moved
  <2>1. PICK c \in Contents : c = job[r].content
    BY <1>4 DEF DecideWrite, Typed, TypeOK, JobOK, Jobs
  <2>2. job[r].verdict \in Verdicts /\ job[r].nth \in DOMAIN approvals[c]
    BY <1>4, <2>1 DEF DecideWrite, Typed, JobOK
  <2>3. status[c] = "IN_REVIEW" /\ approvals[c] = <<"PENDING">> /\ told[c] = {} /\ calendar[c] = None
    BY <1>4, <2>1, GovernanceAssumption
       DEF DecideWrite, Reviewed, StillSo, OneStory, CalendarIsScheduled, canLiveDispatch, States
  <2>4. job[r].nth = 1
    BY <2>2, <2>3
  <2>5. /\ status'[c] = job[r].verdict /\ approvals'[c] = <<job[r].verdict>>
        /\ told'[c] = {job[r].verdict} /\ calendar'[c] = None
    BY <1>4, <2>1, <2>3, <2>4 DEF DecideWrite, Typed, TypeOK
  <2>6. OneStory(c)'
    BY <2>2, <2>5 DEF OneStory, Verdicts, canLiveDispatch
  <2>7. Reviewed'
    BY <1>4, <2>1, <2>5, <2>6, EndReviewed DEF DecideWrite, Typed, TypeOK
  <2>8. Moved
    BY <1>4, <2>1, <2>2, <2>3, Moves DEF DecideWrite, Typed, TypeOK
  <2>9. QED BY <2>7, <2>8
<1>5. ASSUME NEW r \in Callers, NEW c \in Contents, NEW m \in Minutes, MarkRead(r, c, m)
      PROVE  Reviewed' /\ Moved
  <2>1. canLiveDispatch(status[c]) /\ Begin(r, "check", Job(c, 0, None, m))
    BY <1>5, Moves DEF MarkRead, canLiveDispatch
  <2>2. Reviewed'
    BY <1>5, <2>1, BeginReviewed DEF Labels, OnCalendar
  <2>3. QED BY <1>0, <2>1, <2>2 DEF Begin
<1>6. ASSUME NEW r \in Callers, NEW c \in Contents, NEW m \in Minutes, MoveRead(r, c, m)
      PROVE  Reviewed' /\ Moved
  <2>1. status[c] = "SCHEDULED" /\ canLiveDispatch(status[c]) /\ Begin(r, "recheck", Job(c, 0, None, m))
    BY <1>6 DEF MoveRead, canLiveDispatch
  <2>2. Reviewed'
    BY <1>6, <2>1, BeginReviewed DEF Labels, OnCalendar
  <2>3. QED BY <1>0, <2>1, <2>2 DEF Begin
<1>7. ASSUME NEW r \in Callers, NEW from, NEW to, Check(r, from, to),
             <<from, to>> \in {<<"check", "mark">>, <<"recheck", "move">>}
      PROVE  Reviewed' /\ Moved
  <2>1. \A q \in Callers : StillSo(q)' /\ (at'[q] # "idle" => at[q] # "idle")
    BY <1>7 DEF Check, Reviewed, StillSo, OnCalendar, Typed, TypeOK
  <2>2. QED BY <1>7, <1>0, <2>1 DEF Check, Reviewed, OneStory, CalendarIsScheduled
<1>8. ASSUME NEW r \in Callers, MarkRefused(r) \/ MarkWrite(r) PROVE Reviewed' /\ Moved
  <2>1. PICK c \in Contents : c = job[r].content
    BY <1>8 DEF MarkRefused, MarkWrite, Typed, TypeOK, JobOK, Jobs
  <2>2. canLiveDispatch(status[c]) /\ status[c] = job[r].was
    BY <1>8, <2>1 DEF MarkRefused, MarkWrite, Reviewed, StillSo, OnCalendar
  <2>3. status' = [status EXCEPT ![c] = "SCHEDULED"]
    BY <1>8, <2>1, <2>2 DEF MarkRefused, MarkWrite, Scheduled, canLiveDispatch, Typed, TypeOK
  <2>4. OneStory(c)'
    BY <1>8, <2>1, <2>2, <2>3, GovernanceAssumption
       DEF MarkRefused, MarkWrite, Reviewed, OneStory, canLiveDispatch, States, Typed, TypeOK
  <2>5. Reviewed'
    BY <1>8, <2>1, <2>3, <2>4, EndReviewed DEF MarkRefused, MarkWrite, Typed, TypeOK
  <2>6. Moved
    BY <2>2, <2>3, Moves DEF canLiveDispatch, Typed, TypeOK
  <2>7. QED BY <2>5, <2>6
<1>9. ASSUME NEW r \in Callers, MoveRefused(r) \/ MoveWrite(r) \/ Rollback(r) PROVE Reviewed' /\ Moved
  <2>1. PICK c \in Contents : c = job[r].content
    BY <1>9 DEF MoveRefused, MoveWrite, Rollback, Typed, TypeOK, JobOK, Jobs
  <2>2. at[r] # "idle" /\ UNCHANGED <<status, approvals, told>>
    BY <1>9 DEF MoveRefused, MoveWrite, Rollback
  <2>3. calendar'[c] # None => status[c] = "SCHEDULED"
    BY <1>9, <2>1 DEF MoveRefused, MoveWrite, Rollback, Reviewed, CalendarIsScheduled, Typed, TypeOK
  <2>4. OneStory(c)'
    BY <2>2 DEF Reviewed, OneStory
  <2>5. QED BY <1>9, <1>0, <2>1, <2>2, <2>3, <2>4, EndReviewed DEF MoveRefused, MoveWrite, Rollback, Typed, TypeOK
<1>10. ASSUME NEW c \in Contents, createDraft(c) PROVE Reviewed' /\ Moved
  <2>1. status[c] = None /\ approvals[c] = <<>> /\ told[c] = {} /\ calendar[c] = None
    BY <1>10, GovernanceAssumption
       DEF createDraft, Reviewed, OneStory, CalendarIsScheduled, canLiveDispatch, States
  <2>2. status' = [status EXCEPT ![c] = "DRAFT"] /\ UNCHANGED <<approvals, calendar, at, job, told>>
    BY <1>10 DEF createDraft
  <2>3. \A x \in Contents : OneStory(x)'
    BY <2>1, <2>2 DEF Reviewed, OneStory, Typed, TypeOK
  <2>4. CalendarIsScheduled'
    BY <2>1, <2>2 DEF Reviewed, CalendarIsScheduled, Typed, TypeOK
  <2>5. \A q \in Callers : at[q] # "idle" => status[job[q].content] \in States /\ job[q].content \in Contents
    BY GovernanceAssumption DEF Reviewed, StillSo, canLiveDispatch, Typed, TypeOK, JobOK, Jobs, Labels, OnCalendar, States
  <2>6. \A q \in Callers : StillSo(q)'
    BY <2>1, <2>2, <2>5, GovernanceAssumption DEF Reviewed, StillSo, OnCalendar, States, Typed, TypeOK
  <2>7. Reviewed'
    BY <2>2, <2>3, <2>4, <2>6 DEF Reviewed
  <2>8. Moved
    BY <2>1, <2>2 DEF Typed, TypeOK
  <2>9. QED BY <2>7, <2>8
<1>11. ASSUME NEW b \in BOOLEAN, setDispatchPaused(b) PROVE Reviewed' /\ Moved
  BY <1>11, <1>0 DEF setDispatchPaused, Reviewed, OneStory, CalendarIsScheduled, StillSo
<1>12. CASE UNCHANGED vars
  BY <1>12, <1>0 DEF vars, Reviewed, OneStory, CalendarIsScheduled, StillSo
<1>13. QED
  BY <1>1, <1>2, <1>3, <1>4, <1>5, <1>6, <1>7, <1>8, <1>9, <1>10, <1>11, <1>12
     DEF Next, Review, Schedule

\* An empty workspace is reviewed.
LEMMA ReviewedInit == Init => Reviewed
BY GovernanceAssumption
   DEF Init, Reviewed, OneStory, CalendarIsScheduled, StillSo, OnCalendar, canLiveDispatch, States

\* When requests on one content do not overlap, its status, its approvals, the
\* calendar and what callers were told always agree.
THEOREM ReviewedAlways == ASSUME SerialReview PROVE Spec => []Reviewed
<1>1. Init => Reviewed
  BY ReviewedInit
<1>2. Typed /\ Reviewed /\ [Next]_vars => Reviewed'
  BY ReviewedStep
<1>3. QED BY <1>1, <1>2, TypedAlways, PTL DEF Spec

\* A story tells of one verdict at most.
LEMMA StoryHasOneVerdict == Reviewed => OneVerdict
<1>1. SUFFICES ASSUME Reviewed PROVE OneVerdict
  OBVIOUS
<1>2. \A c \in Contents : told[c] = {} \/ \E v : told[c] = {v}
  BY <1>1 DEF Reviewed, OneStory
<1>3. Cardinality({}) = 0 /\ \A v : Cardinality({v}) = 1
  BY FS_EmptySet, FS_Singleton
<1>4. ASSUME NEW c \in Contents PROVE Cardinality(told[c]) \in {0, 1}
  BY <1>2, <1>3
<1>5. QED BY <1>4 DEF OneVerdict

\* Nobody is told the opposite of what somebody else was told of a content.
THEOREM OneVerdictKept == ASSUME SerialReview PROVE Spec => []OneVerdict
BY StoryHasOneVerdict, ReviewedAlways, PTL

\* In every story one approval is offered of a content in review, and none of another.
LEMMA StoryIsDecidable == Reviewed => InboxIsDecidable
<1>1. SUFFICES ASSUME Reviewed PROVE InboxIsDecidable
  OBVIOUS
<1>2. ASSUME NEW c \in Contents, status[c] = "IN_REVIEW"
      PROVE  \E n \in DOMAIN approvals[c] : {i \in DOMAIN approvals[c] : approvals[c][i] = "PENDING"} = {n}
  <2>1. approvals[c] = <<"PENDING">>
    BY <1>1, <1>2, GovernanceAssumption DEF Reviewed, OneStory, canLiveDispatch, States
  <2>2. 1 \in DOMAIN approvals[c] /\ {i \in DOMAIN approvals[c] : approvals[c][i] = "PENDING"} = {1}
    BY <2>1
  <2>3. QED BY <2>2
<1>3. ASSUME NEW c \in Contents, status[c] # "IN_REVIEW"
      PROVE  {i \in DOMAIN approvals[c] : approvals[c][i] = "PENDING"} = {}
  BY <1>1, <1>3 DEF Reviewed, OneStory
<1>4. QED BY <1>2, <1>3 DEF InboxIsDecidable

\* What the inbox offers can be decided, and a content in review is offered.
THEOREM InboxKept == ASSUME SerialReview PROVE Spec => []InboxIsDecidable
BY StoryIsDecidable, ReviewedAlways, PTL

\* In every story the status is what was decided.
LEMMA StoryHasItsStatus == Reviewed => StatusIsDecided /\ CalendarIsScheduled
BY GovernanceAssumption DEF Reviewed, OneStory, StatusIsDecided, canLiveDispatch, States

\* A content's status is what its approvals say of it, and the calendar shows
\* scheduled contents only.
THEOREM StatusKept ==
  ASSUME SerialReview
  PROVE  Spec => [](StatusIsDecided /\ CalendarIsScheduled)
BY StoryHasItsStatus, ReviewedAlways, PTL

\* Over all requests, a content's status moves along the lifecycle of content.ts.
THEOREM LifecycleFollowed == ASSUME SerialReview PROVE Spec => FollowsLifecycle
<1>1. Typed /\ Reviewed /\ [Next]_vars =>
        [\A c \in Contents : status[c] # None /\ status'[c] # status[c]
           => canTransition(status[c], status'[c])]_status
  BY ReviewedStep
<1>2. QED BY <1>1, TypedAlways, ReviewedAlways, PTL DEF Spec, FollowsLifecycle

-----------------------------------------------------------------------------
\* When changes of the calendar do not overlap.

\* Every step keeps Placed. Only four kinds of step matter: a check, a write of
\* the calendar, and whatever leaves the calendar and the writers alone.
LEMMA PlacedStep ==
  ASSUME SerialCalendar, Typed, Placed, [Next]_vars
  PROVE  Placed'
<1>1. ASSUME UNCHANGED calendar,
             \A q \in Callers : at'[q] \in {"mark", "move"} => at[q] = at'[q] /\ job'[q] = job[q]
      PROVE  Placed'
  <2>1. OneContentPerMinute'
    BY <1>1 DEF Placed, OneContentPerMinute
  <2>2. \A q, r \in Callers : {at'[q], at'[r]} \subseteq {"mark", "move"} => q = r
    BY <1>1 DEF Placed
  <2>3. \A r \in Callers : at'[r] \in {"mark", "move"} => Free(job[r])' 
    BY <1>1 DEF Placed, Free
  <2>4. QED BY <2>1, <2>2, <2>3 DEF Placed
<1>2. ASSUME NEW r \in Callers, NEW label \in {"submit", "decide", "check", "recheck"}, NEW j, Begin(r, label, j)
      PROVE  Placed'
  BY <1>1, <1>2 DEF Begin, Typed, TypeOK
<1>3. ASSUME NEW r \in Callers, End(r), UNCHANGED calendar PROVE Placed'
  BY <1>1, <1>3 DEF End, Typed, TypeOK
<1>4. ASSUME NEW r \in Callers, NEW from, NEW to, Check(r, from, to),
             <<from, to>> \in {<<"check", "mark">>, <<"recheck", "move">>}
      PROVE  Placed'
  <2>1. \A q \in Callers : at'[q] \in {"mark", "move"} <=> q = r
    BY <1>4 DEF Check, Typed, TypeOK
  <2>2. Free(job[r])'
    BY <1>4 DEF Check, Free
  <2>3. QED BY <1>4, <2>1, <2>2 DEF Check, Placed, OneContentPerMinute
<1>5. ASSUME NEW r \in Callers, MarkWrite(r) \/ MoveWrite(r) PROVE Placed'
  <2>1. job[r].content \in Contents /\ job[r].minute \in Minutes /\ at[r] \in {"mark", "move"}
    BY <1>5 DEF MarkWrite, MoveWrite, Typed, TypeOK, JobOK, Jobs, OnCalendar
  <2>2. \A q \in Callers : at'[q] \notin {"mark", "move"}
    BY <1>5, <2>1 DEF MarkWrite, MoveWrite, End, Placed, Typed, TypeOK
  <2>3. \A c \in Contents : c # job[r].content => calendar[c] # job[r].minute
    BY <2>1 DEF Placed, Free
  <2>4. \/ UNCHANGED calendar
        \/ calendar' = [calendar EXCEPT ![job[r].content] = job[r].minute]
    BY <1>5, <2>1 DEF MarkWrite, MoveWrite, Typed, TypeOK
  <2>5. OneContentPerMinute'
    <3>1. CASE UNCHANGED calendar
      BY <3>1 DEF OneContentPerMinute, Placed
    <3>2. ASSUME calendar' = [calendar EXCEPT ![job[r].content] = job[r].minute],
                 NEW c \in Contents, NEW d \in Contents, c # d, calendar'[c] # None
          PROVE  calendar'[c] # calendar'[d]
      <4>1. \A e \in Contents :
              calendar'[e] = IF e = job[r].content THEN job[r].minute ELSE calendar[e]
        BY <3>2 DEF Typed, TypeOK
      <4>2. QED
        BY <2>3, <3>2, <4>1 DEF OneContentPerMinute, Placed
    <3>3. QED BY <2>4, <3>1, <3>2 DEF OneContentPerMinute
  <2>6. QED BY <2>2, <2>5 DEF Placed
<1>6. CASE UNCHANGED <<calendar, at, job>>
  BY <1>1, <1>6
<1>7. QED
  BY <1>2, <1>3, <1>4, <1>5, <1>6
     DEF Next, Review, Schedule, SubmitRead, SubmitWrite, DecideRead, DecideWrite, MarkRead, MoveRead,
         MarkRefused, MoveRefused, Rollback, createDraft, setDispatchPaused, vars

\* An empty calendar is in order.
LEMMA PlacedInit == Init => Placed
BY DEF Init, Placed, OneContentPerMinute

\* Placed is inductive.
LEMMA PlacedAlways == ASSUME SerialCalendar PROVE Spec => []Placed
<1>1. Init => Placed
  BY PlacedInit
<1>2. Typed /\ Placed /\ [Next]_vars => Placed'
  BY PlacedStep
<1>3. QED BY <1>1, <1>2, TypedAlways, PTL DEF Spec

\* No two contents share a minute of the calendar.
THEOREM MinutesApart == ASSUME SerialCalendar PROVE Spec => []OneContentPerMinute
<1>1. Placed => OneContentPerMinute
  BY DEF Placed
<1>2. QED BY <1>1, PlacedAlways, PTL

-----------------------------------------------------------------------------
\* The store over Postgres does what the store in memory does.

\* What an update of one content's rows is in memory.
LEMMA WithMinuteUpdate ==
  ASSUME Typed, NEW c \in Contents, NEW s, NEW m,
         status' = [status EXCEPT ![c] = s], calendar' = [calendar EXCEPT ![c] = m]
  PROVE  WithMinute' = [WithMinute EXCEPT ![c] = IF s = "SCHEDULED" /\ m = None THEN "APPROVED" ELSE s]
<1>1. \A d \in Contents : status'[d] = (IF d = c THEN s ELSE status[d])
                         /\ calendar'[d] = (IF d = c THEN m ELSE calendar[d])
  BY DEF Typed, TypeOK
<1>2. WithMinute' = [d \in Contents |-> IF d = c THEN IF s = "SCHEDULED" /\ m = None THEN "APPROVED" ELSE s
                                       ELSE WithMinute[d]]
  BY <1>1 DEF WithMinute
<1>3. QED BY <1>2 DEF WithMinute

\* The same where the calendar is left alone.
LEMMA WithMinuteStatus ==
  ASSUME Typed, NEW c \in Contents, NEW s, s # "SCHEDULED",
         status' = [status EXCEPT ![c] = s], UNCHANGED calendar
  PROVE  WithMinute' = [WithMinute EXCEPT ![c] = s]
<1>1. calendar' = [calendar EXCEPT ![c] = calendar[c]]
  BY DEF Typed, TypeOK
<1>2. QED BY <1>1, WithMinuteUpdate

\* Every step is a step of the store in memory, or changes nothing it has.
LEMMA MemoryStep ==
  ASSUME SerialReview, Typed, Reviewed, Placed, [Next]_vars
  PROVE  Memory!Next \/ UNCHANGED Memory!vars
<1>1. ASSUME UNCHANGED <<status, approvals, calendar, paused>> PROVE UNCHANGED Memory!vars
  BY <1>1 DEF Memory!vars, WithMinute
<1>2. ASSUME NEW r \in Callers, SubmitWrite(r) PROVE Memory!Next
  <2>1. PICK c \in Contents : c = job[r].content
    BY <1>2 DEF SubmitWrite, Typed, TypeOK, JobOK, Jobs
  <2>2. status[c] = "DRAFT"
    BY <1>2, <2>1 DEF SubmitWrite, Reviewed, StillSo
  <2>3. WithMinute[c] = "DRAFT" /\ WithMinute' = [WithMinute EXCEPT ![c] = "IN_REVIEW"]
    BY <1>2, <2>1, <2>2, WithMinuteStatus DEF SubmitWrite, WithMinute
  <2>4. Memory!submit(c)
    BY <1>2, <2>1, <2>3 DEF SubmitWrite, cancelPending, Memory!submit, Memory!transition
  <2>5. QED BY <2>4 DEF Memory!Next
<1>3. ASSUME NEW r \in Callers, DecideWrite(r) PROVE Memory!Next
  <2>1. PICK c \in Contents : c = job[r].content
    BY <1>3 DEF DecideWrite, Typed, TypeOK, JobOK, Jobs
  <2>2. PICK n \in DOMAIN approvals[c], v \in Verdicts : n = job[r].nth /\ v = job[r].verdict
    BY <1>3, <2>1 DEF DecideWrite, Typed, JobOK
  <2>3. status[c] = "IN_REVIEW" /\ approvals[c] = <<"PENDING">>
    BY <1>3, <2>1, GovernanceAssumption
       DEF DecideWrite, Reviewed, StillSo, OneStory, canLiveDispatch, States
  <2>4. approvals[c][n] = "PENDING"
    BY <2>2, <2>3
  <2>5. WithMinute[c] = "IN_REVIEW" /\ WithMinute' = [WithMinute EXCEPT ![c] = v]
    BY <1>3, <2>1, <2>2, <2>3, WithMinuteStatus DEF DecideWrite, WithMinute, Verdicts
  <2>6. Memory!decide(c, n, v)
    BY <1>3, <2>1, <2>2, <2>4, <2>5 DEF DecideWrite, Memory!decide, Memory!transition, Verdicts
  <2>7. QED BY <2>2, <2>6 DEF Memory!Next, Verdicts
<1>4. ASSUME NEW r \in Callers, MarkRefused(r) PROVE UNCHANGED Memory!vars
  <2>1. PICK c \in Contents : c = job[r].content
    BY <1>4 DEF MarkRefused, Typed, TypeOK, JobOK, Jobs
  <2>2. canLiveDispatch(status[c]) /\ status[c] = job[r].was
    BY <1>4, <2>1 DEF MarkRefused, Reviewed, StillSo, OnCalendar
  <2>3. CASE status[c] = "SCHEDULED"
    BY <1>1, <1>4, <2>2, <2>3 DEF MarkRefused, Scheduled
  <2>4. CASE status[c] # "SCHEDULED"
    <3>1. status[c] = "APPROVED" /\ calendar[c] = None
      BY <2>2, <2>4 DEF canLiveDispatch, Reviewed, CalendarIsScheduled
    <3>2. status' = [status EXCEPT ![c] = "SCHEDULED"] /\ calendar' = [calendar EXCEPT ![c] = None]
      BY <1>4, <2>1, <2>2, <2>4, <3>1 DEF MarkRefused, Scheduled, Typed, TypeOK
    <3>3. WithMinute' = [WithMinute EXCEPT ![c] = "APPROVED"] /\ WithMinute[c] = "APPROVED"
      BY <3>1, <3>2, WithMinuteUpdate DEF WithMinute
    <3>4. WithMinute' = WithMinute
      BY <3>3 DEF WithMinute
    <3>5. QED BY <1>4, <3>4 DEF MarkRefused, Memory!vars
  <2>5. QED BY <2>3, <2>4
<1>5. ASSUME NEW r \in Callers, MarkWrite(r) PROVE Memory!Next
  <2>1. PICK c \in Contents, m \in Minutes : c = job[r].content /\ m = job[r].minute
    BY <1>5 DEF MarkWrite, Typed, TypeOK, JobOK, Jobs, OnCalendar
  <2>2. canLiveDispatch(status[c]) /\ status[c] = job[r].was /\ m # None
    BY <1>5, <2>1, GovernanceAssumption DEF MarkWrite, Reviewed, StillSo, OnCalendar
  <2>3. status' = [status EXCEPT ![c] = "SCHEDULED"] /\ calendar' = [calendar EXCEPT ![c] = m]
    BY <1>5, <2>1, <2>2 DEF MarkWrite, Scheduled, Typed, TypeOK
  <2>4. WithMinute' = [WithMinute EXCEPT ![c] = "SCHEDULED"] /\ WithMinute[c] \in {"APPROVED", "SCHEDULED"}
    BY <2>2, <2>3, WithMinuteUpdate DEF WithMinute, canLiveDispatch
  <2>5. Memory!Open(c, m)
    BY <1>5, <2>1 DEF MarkWrite, Placed, Free, Memory!Open
  <2>6. Memory!markScheduled(c, m)
    BY <1>5, <2>3, <2>4, <2>5 DEF MarkWrite, Memory!markScheduled, Memory!transition
  <2>7. QED BY <2>6 DEF Memory!Next
<1>6. ASSUME NEW r \in Callers, MoveWrite(r) PROVE Memory!Next \/ UNCHANGED Memory!vars
  <2>1. PICK c \in Contents, m \in Minutes : c = job[r].content /\ m = job[r].minute
    BY <1>6 DEF MoveWrite, Typed, TypeOK, JobOK, Jobs, OnCalendar
  <2>2. CASE calendar[c] = None
    BY <1>1, <1>6, <2>1, <2>2 DEF MoveWrite, Typed, TypeOK
  <2>3. CASE calendar[c] # None
    <3>1. status[c] = "SCHEDULED" /\ m # None
      BY <1>6, <2>1, GovernanceAssumption DEF MoveWrite, Reviewed, StillSo
    <3>2. status' = [status EXCEPT ![c] = "SCHEDULED"] /\ calendar' = [calendar EXCEPT ![c] = m]
      BY <1>6, <2>1, <2>3, <3>1 DEF MoveWrite, Typed, TypeOK
    <3>3. WithMinute[c] = "SCHEDULED" /\ WithMinute' = [WithMinute EXCEPT ![c] = "SCHEDULED"]
      BY <2>3, <3>1, <3>2, WithMinuteUpdate DEF WithMinute
    <3>4. WithMinute' = WithMinute
      BY <3>3 DEF WithMinute
    <3>5. Memory!Open(c, m)
      BY <1>6, <2>1 DEF MoveWrite, Placed, Free, Memory!Open
    <3>6. Memory!reschedule(c, m)
      BY <1>6, <3>2, <3>3, <3>4, <3>5 DEF MoveWrite, Memory!reschedule
    <3>7. QED BY <3>6 DEF Memory!Next
  <2>4. QED BY <2>2, <2>3
<1>7. ASSUME NEW c \in Contents, createDraft(c) PROVE Memory!Next
  <2>1. WithMinute' = [WithMinute EXCEPT ![c] = "DRAFT"]
    BY <1>7, WithMinuteStatus DEF createDraft
  <2>2. WithMinute[c] = None
    BY <1>7, GovernanceAssumption DEF createDraft, WithMinute, States
  <2>3. Memory!createDraft(c)
    BY <1>7, <2>1, <2>2 DEF createDraft, Memory!createDraft
  <2>4. QED BY <2>3 DEF Memory!Next
<1>8. ASSUME NEW b \in BOOLEAN, setDispatchPaused(b) PROVE Memory!Next
  <2>1. Memory!setDispatchPaused(b)
    BY <1>8 DEF setDispatchPaused, Memory!setDispatchPaused, WithMinute
  <2>2. QED BY <2>1 DEF Memory!Next
<1>9. QED
  BY <1>1, <1>2, <1>3, <1>4, <1>5, <1>6, <1>7, <1>8
     DEF Next, Review, Schedule, SubmitRead, DecideRead, MarkRead, MoveRead, Begin, Check,
         MoveRefused, Rollback, vars

\* An empty workspace is the same in both.
LEMMA MemoryInit == Init => Memory!Init
<1>1. ASSUME Init PROVE WithMinute = [c \in Contents |-> None]
  BY <1>1, GovernanceAssumption DEF Init, WithMinute, States
<1>2. QED BY <1>1 DEF Init, Memory!Init

\* Requests that do not overlap on a content, nor on the calendar, find over
\* Postgres the store they find in memory, step for step.
THEOREM MemoryKept ==
  ASSUME SerialReview, SerialCalendar PROVE Spec => KeepsMemory
<1>1. Init => Memory!Init
  BY MemoryInit
<1>2. Typed /\ Reviewed /\ Placed /\ [Next]_vars => [Memory!Next]_(Memory!vars)
  BY MemoryStep
<1>3. QED
  BY <1>1, <1>2, TypedAlways, ReviewedAlways, PlacedAlways, PTL DEF Spec, KeepsMemory, Memory!Spec
=============================================================================
