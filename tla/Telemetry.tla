------------------------------ MODULE Telemetry ------------------------------
(***************************************************************************)
(* The reading of a post's statistics: POST /publications/telemetry/poll   *)
(* (apps/api/src/routes/telemetry.ts) over the accounts of OAuthConnect.   *)
(* A poll loads an account of the workspace, looks for a reading in the    *)
(* slot it was asked for, asks LinkedIn if the account may and the process *)
(* can, and saves what normalizeLinkedInShareStats makes of the answer.    *)
(* Other polls of the slot, callbacks and reconnections come between.      *)
(*                                                                         *)
(* Abstracted: an attempt of the publish ledger is its key, once it has an *)
(* external post id; the raw payload is left out; in LinkedIn's answer -1  *)
(* stands for a number that is missing, negative or not a number.          *)
(***************************************************************************)
EXTENDS OAuthConnect, Integers

CONSTANTS
  Keys, KeyWorkspace,  \* idempotency keys, each of one workspace
  Slots,               \* telemetryPollSlots and "manual"
  Polls,               \* requests to the poll route being served
  WithAdapter,         \* those in a process that has fetchStats
  Metrics              \* descriptiveMetricNames

Statuses == {"OBSERVED", "ZERO", "UNSUPPORTED", "PERMISSION_DENIED", "NOT_AVAILABLE"}
DataCapabilities == {"PERMISSION_LIMITED", "OBSERVED", "UNSUPPORTED", "NOT_AVAILABLE"}
Counts == {0, 7}
Answers == [Metrics -> Counts \cup {-1}]
Metric == [value: Counts \cup {None}, status: Statuses]
Snapshots == [dataCapability: DataCapabilities, metrics: [Metrics -> Metric]]
Readings == [member: Members, scopes: SUBSET Capabilities, snapshot: Snapshots]
Pollings == [key: Keys, slot: Slots, member: Members, scopes: SUBSET Capabilities,
             snapshot: Snapshots \cup {None}]

ASSUME TelemetryAssumption ==
  /\ KeyWorkspace \in [Keys -> Workspaces]
  /\ WithAdapter \subseteq Polls
  /\ None \notin Readings \cup Pollings \cup Snapshots \cup Counts

VARIABLES
  posted,    \* the keys whose attempt has an external post id
  readings,  \* analytics_snapshots with their analytics_metrics
  at, poll,  \* where each poll stands, and what it has in memory
  answers    \* history: the readings callers were given

polling == <<readings, at, poll, answers>>
vars == <<connections, posted, polling>>

Init ==
  /\ InitConnect
  /\ posted = {}
  /\ readings = [k \in Keys |-> [s \in Slots |-> None]]
  /\ at = [p \in Polls |-> "idle"]
  /\ poll = [p \in Polls |-> None]
  /\ answers = [k \in Keys |-> [s \in Slots |-> {}]]

-----------------------------------------------------------------------------
\* normalizeLinkedInShareStats.

AllMetrics(status) == [m \in Metrics |-> [value |-> None, status |-> status]]

\* A plausible bug: a zero is an observation like any other.
observeAny(count) ==
  IF count \in Nat THEN [value |-> count, status |-> "OBSERVED"]
  ELSE [value |-> None, status |-> "NOT_AVAILABLE"]

\* firstNumber and observeNumber.
observeNumber(count) ==
  CASE count \notin Nat -> [value |-> None, status |-> "NOT_AVAILABLE"]
    [] count = 0        -> [value |-> 0, status |-> "ZERO"]
    [] OTHER            -> [value |-> count, status |-> "OBSERVED"]

\* What a poll that asked nothing stores: it may not, or it cannot.
Unasked(mayAsk) ==
  IF mayAsk
  THEN [dataCapability |-> "NOT_AVAILABLE", metrics |-> AllMetrics("NOT_AVAILABLE")]
  ELSE [dataCapability |-> "PERMISSION_LIMITED", metrics |-> AllMetrics("PERMISSION_DENIED")]

Asked(httpStatus, answer) ==
  LET metrics == [m \in Metrics |-> observeNumber(answer[m])]
      observed == \E m \in Metrics : metrics[m].status \in {"OBSERVED", "ZERO"} IN
  IF httpStatus = 200
  THEN [dataCapability |-> IF observed THEN "OBSERVED" ELSE "NOT_AVAILABLE", metrics |-> metrics]
  ELSE Unasked(httpStatus \notin {401, 403})

\* The check of the table analytics_metrics on status and value (0006_telemetry.sql:47).
FitsTable(snapshot) ==
  \A m \in Metrics :
    LET row == snapshot.metrics[m] IN
    \/ row.status = "ZERO" /\ row.value = 0
    \/ row.status = "OBSERVED" /\ row.value \notin {None, 0}
    \/ row.status \in {"UNSUPPORTED", "PERMISSION_DENIED", "NOT_AVAILABLE"} /\ row.value = None

-----------------------------------------------------------------------------
\* recordPoll.

Turn(p, from, to) == at[p] = from /\ at' = [at EXCEPT ![p] = to]

\* loadContext: the account is any one of the workspace (`limit 1`, no order),
\* not the post's author. With no account or no post the poll ends here.
loadContext(p, k, s, m) ==
  /\ Turn(p, "idle", "look")
  /\ k \in posted /\ m \in AccountsOf(KeyWorkspace[k])
  /\ poll' = [poll EXCEPT ![p] = [key |-> k, slot |-> s, member |-> m,
                                  scopes |-> accounts[m].caps, snapshot |-> None]]
  /\ UNCHANGED <<connections, posted, readings, answers>>

\* A plausible bug: an answered poll is not let go.
AnswerKeeping(p, reading) ==
  /\ answers' = [answers EXCEPT ![poll[p].key][poll[p].slot] = @ \cup {reading}]
  /\ UNCHANGED poll

Answer(p, reading) ==
  /\ answers' = [answers EXCEPT ![poll[p].key][poll[p].slot] = @ \cup {reading}]
  /\ poll' = [poll EXCEPT ![p] = None]

\* getBySlot finds a reading.
Repeat(p) ==
  LET stored == readings[poll[p].key][poll[p].slot] IN
  /\ Turn(p, "look", "idle")
  /\ stored # None
  /\ Answer(p, stored)
  /\ UNCHANGED <<connections, posted, readings>>

FirstPoll(p) ==
  /\ Turn(p, "look", "collect")
  /\ readings[poll[p].key][poll[p].slot] = None
  /\ UNCHANGED <<connections, posted, readings, poll, answers>>

Collected(p, snapshot) ==
  /\ Turn(p, "collect", "save")
  /\ poll' = [poll EXCEPT ![p].snapshot = snapshot]
  /\ UNCHANGED <<connections, posted, readings, answers>>

\* A plausible bug: the account's capability is not asked for.
collectAlways(p) ==
  \E h \in {200, 403, 500}, answer \in Answers : Collected(p, Asked(h, answer))

\* collectDescriptiveTelemetry: no call without the capability or an adapter.
collect(p) ==
  LET mayAsk == "analytics" \in poll[p].scopes IN
  /\ at[p] = "collect"
  /\ \/ ~(mayAsk /\ p \in WithAdapter) /\ Collected(p, Unasked(mayAsk))
     \/ /\ mayAsk /\ p \in WithAdapter
        /\ \E h \in {200, 403, 500}, answer \in Answers : Collected(p, Asked(h, answer))

\* A plausible bug: a later reading replaces the one that is stored.
saveOver(p) ==
  LET mine == [member |-> poll[p].member, scopes |-> poll[p].scopes,
               snapshot |-> poll[p].snapshot] IN
  /\ Turn(p, "save", "idle")
  /\ FitsTable(poll[p].snapshot)
  /\ readings' = [readings EXCEPT ![poll[p].key][poll[p].slot] = mine]
  /\ Answer(p, mine)
  /\ UNCHANGED <<connections, posted>>

\* saveSnapshot: `on conflict do nothing`, and what is stored is the answer.
\* The scopes are those of the account when it was loaded.
saveSnapshot(p) ==
  LET stored == readings[poll[p].key][poll[p].slot]
      mine == [member |-> poll[p].member, scopes |-> poll[p].scopes,
               snapshot |-> poll[p].snapshot]
      kept == IF stored = None THEN mine ELSE stored IN
  /\ Turn(p, "save", "idle")
  /\ stored = None => FitsTable(poll[p].snapshot)
  /\ readings' = [readings EXCEPT ![poll[p].key][poll[p].slot] = kept]
  /\ Answer(p, kept)
  /\ UNCHANGED <<connections, posted>>

\* fetchStats or a statement throws, or the process dies.
GiveUp(p) ==
  /\ at[p] # "idle"
  /\ at' = [at EXCEPT ![p] = "idle"]
  /\ poll' = [poll EXCEPT ![p] = None]
  /\ UNCHANGED <<connections, posted, readings, answers>>

Poll(p) ==
  \/ \E k \in Keys, s \in Slots, m \in Members : loadContext(p, k, s, m)
  \/ Repeat(p) \/ FirstPoll(p) \/ collect(p) \/ saveSnapshot(p)
  \/ GiveUp(p)

\* The pipeline records the id of a post in the ledger.
Posted(k) ==
  /\ \E m \in AccountsOf(KeyWorkspace[k]) : "publish" \in accounts[m].caps
  /\ posted' = posted \cup {k}
  /\ UNCHANGED <<connections, polling>>

Next ==
  \/ NextConnect /\ UNCHANGED <<posted, polling>>
  \/ \E p \in Polls : Poll(p)
  \/ \E k \in Keys : Posted(k)

Spec == Init /\ [][Next]_vars

-----------------------------------------------------------------------------
\* Properties.

\* Types; and a poll has in memory what it works on exactly while served.
TypeOK ==
  /\ ConnectTypeOK
  /\ \A p \in Polls : at[p] = "idle" <=> poll[p] = None
  /\ posted \subseteq Keys
  /\ readings \in [Keys -> [Slots -> Readings \cup {None}]]
  /\ at \in [Polls -> {"idle", "look", "collect", "save"}]
  /\ poll \in [Polls -> Pollings \cup {None}]
  /\ answers \in [Keys -> [Slots -> SUBSET Readings]]

\* Whatever polls race, everybody who ever asked for a slot was told the same,
\* and it is what is stored (telemetry-store.ts:90 keeps the first reading).
OneReadingPerSlot ==
  \A k \in Keys, s \in Slots : answers[k][s] \subseteq {readings[k][s]}

\* A reading with numbers in it was taken by an account of the publication's
\* workspace that had the scope, whatever was reconnected meanwhile, and only
\* such a reading counts as observed (README.md:36, never invented lift).
\* Whatever LinkedIn answers, its statuses and numbers pass the check of the table.
ReadingsAreHonest ==
  /\ \A p \in Polls : at[p] = "save" => FitsTable(poll[p].snapshot)
  /\ \A k \in Keys, s \in Slots : readings[k][s] # None =>
       LET reading == readings[k][s]
           numbers == {m \in Metrics : reading.snapshot.metrics[m].value # None} IN
       /\ reading.member \in AccountsOf(KeyWorkspace[k])
       /\ reading.snapshot.dataCapability = "OBSERVED" <=> numbers # {}
       /\ numbers # {} => "analytics" \in reading.scopes
=============================================================================
