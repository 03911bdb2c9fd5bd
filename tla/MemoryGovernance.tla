-------------------------- MODULE MemoryGovernance --------------------------
(***************************************************************************)
(* The governance store a process without a database keeps in its memory   *)
(* (packages/policies/src/memory-store.ts), which is also the one the      *)
(* routes are tested with. Every operation is one uninterrupted run over   *)
(* three maps: it refuses and changes nothing, or does all it does.        *)
(*                                                                         *)
(* It is what the store over Postgres promises its callers: Governance     *)
(* shows that one to implement it (KeepsMemory).                           *)
(*                                                                         *)
(* Abstracted as in Governance: one workspace, no bodies and no actors, an *)
(* approval known by its place, scheduledAt by its minute.                 *)
(***************************************************************************)
EXTENDS Naturals, Sequences

CONSTANTS Contents, Minutes, None

VARIABLES
  status,       \* of contents, None before there is one
  approvals,    \* the statuses of a content's approvals, oldest first
  scheduledAt,  \* of contents, null (None) until they are scheduled
  paused        \* dispatchPaused of the policy

vars == <<status, approvals, scheduledAt, paused>>

Init ==
  /\ status = [c \in Contents |-> None]
  /\ approvals = [c \in Contents |-> <<>>]
  /\ scheduledAt = [c \in Contents |-> None]
  /\ paused = FALSE

\* transition of packages/domain/src/content.ts, as far as the store asks it.
transition(from, to) ==
  <<from, to>> \in {<<"DRAFT", "IN_REVIEW">>, <<"IN_REVIEW", "APPROVED">>,
                    <<"IN_REVIEW", "REJECTED">>, <<"APPROVED", "SCHEDULED">>}

\* No other content is scheduled for the minute.
Open(c, minute) == \A d \in Contents \ {c} : scheduledAt[d] # minute

createDraft(c) ==
  /\ status[c] = None
  /\ status' = [status EXCEPT ![c] = "DRAFT"]
  /\ UNCHANGED <<approvals, scheduledAt, paused>>

submit(c) ==
  LET settled == [n \in DOMAIN approvals[c] |->
                    IF approvals[c][n] = "PENDING" THEN "CANCELLED" ELSE approvals[c][n]] IN
  /\ transition(status[c], "IN_REVIEW")
  /\ status' = [status EXCEPT ![c] = "IN_REVIEW"]
  /\ approvals' = [approvals EXCEPT ![c] = Append(settled, "PENDING")]
  /\ UNCHANGED <<scheduledAt, paused>>

decide(c, n, decision) ==
  /\ approvals[c][n] = "PENDING"
  /\ transition(status[c], decision)
  /\ status' = [status EXCEPT ![c] = decision]
  /\ approvals' = [approvals EXCEPT ![c][n] = decision]
  /\ UNCHANGED <<scheduledAt, paused>>

\* The look for a clash comes before anything is changed.
markScheduled(c, minute) ==
  /\ Open(c, minute)
  /\ status[c] = "SCHEDULED" \/ transition(status[c], "SCHEDULED")
  /\ status' = [status EXCEPT ![c] = "SCHEDULED"]
  /\ scheduledAt' = [scheduledAt EXCEPT ![c] = minute]
  /\ UNCHANGED <<approvals, paused>>

reschedule(c, minute) ==
  /\ status[c] = "SCHEDULED" /\ Open(c, minute)
  /\ scheduledAt' = [scheduledAt EXCEPT ![c] = minute]
  /\ UNCHANGED <<status, approvals, paused>>

setDispatchPaused(b) ==
  /\ paused' = b
  /\ UNCHANGED <<status, approvals, scheduledAt>>

Next ==
  \/ \E c \in Contents :
       \/ createDraft(c) \/ submit(c)
       \/ \E n \in DOMAIN approvals[c], decision \in {"APPROVED", "REJECTED"} :
            decide(c, n, decision)
       \/ \E minute \in Minutes : markScheduled(c, minute) \/ reschedule(c, minute)
  \/ \E b \in BOOLEAN : setDispatchPaused(b)

Spec == Init /\ [][Next]_vars
=============================================================================
