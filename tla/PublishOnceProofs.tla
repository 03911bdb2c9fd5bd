------------------------- MODULE PublishOnceProofs -------------------------
(***************************************************************************)
(* What holds of the pipeline when a lease outlives its holder and first   *)
(* requests of a key do not overlap: the holder of a command is the only   *)
(* writer of its attempt, so no key is posted twice, a terminal attempt    *)
(* and a verdict of the queue stay as they are.                            *)
(***************************************************************************)
EXTENDS PublishOutboxProofs

\* What a step may do to the ledger, the queue and the posts.
OnceRecords ==
  /\ \A k \in Keys : outbox'[k] # None =>
       \/ outbox[k] # None
       \/ attempt'[k] # None /\ attempt'[k].fp[2] = outbox'[k].payload
  /\ \A k \in Keys : outbox'[k] # None /\ outbox'[k].state = "PUBLISHED" =>
       \/ outbox[k] # None /\ outbox[k].state = "PUBLISHED" /\ attempt'[k] = attempt[k]
       \/ attempt'[k] # None /\ attempt'[k].status \in Posted
  /\ \A s \in shares' :
       \/ s \in shares /\ attempt'[s.key] = attempt[s.key]
       \/ attempt'[s.key].status \notin {"RESERVED", "FAILED_PERMANENT"}
  /\ \A s, t \in shares' \ shares : s = t
  /\ \A s \in shares' \ shares : NoPost(s.key)

\* The key of process q is none of the step's business.
Untouched(q) ==
  /\ attempt'[cur[q]] = attempt[cur[q]]
  /\ \A s \in shares' : s.key = cur[q] => s \in shares

\* Steps that change only what OnceRecords allows keep queue and ledger in agreement
\* and post no key twice.
LEMMA OnceRecordsStep ==
  ASSUME TypeOK, Coherent, Exclusive, Grows, OnceRecords
  PROVE  (QueuedAsReserved /\ QueueAgreesWithLedger /\ LedgerNeverDeniesPost /\ AtMostOnePost)'
<1>1. QueuedAsReserved'
  BY DEF Exclusive, OnceRecords, Grows, QueuedAsReserved
<1>2. QueueAgreesWithLedger'
  BY DEF Exclusive, OnceRecords, QueueAgreesWithLedger
<1>3. LedgerNeverDeniesPost'
  BY DEF Exclusive, OnceRecords, LedgerNeverDeniesPost
<1>4. AtMostOnePost'
  BY DEF Exclusive, OnceRecords, AtMostOnePost, NoPost
<1>5. QED
  BY <1>1, <1>2, <1>3, <1>4

\* A claimed command and a key about to be reserved belong to one process.
LEMMA KeysApart ==
  ASSUME TypeOK, Coherent, Exclusive, NEW p \in Procs, NEW q \in Procs, p # q,
         pc[p] \in Running \cup {"reserve"}, pc[q] \in Running \cup {"reserve"}
  PROVE  cur[p] # cur[q]
<1>1. ASSUME NEW r \in Procs, pc[r] \in Running
      PROVE  cur[r] \in batch[r] /\ cur[r] \in Keys /\ attempt[cur[r]] # None
  <2>1. cur[r] \in batch[r] /\ cur[r] \in Keys /\ outbox[cur[r]] # None
    BY <1>1, HeldFacts, CommandUpdates DEF Coherent
  <2>2. QED
    BY <2>1 DEF Coherent, LedgerBeforeQueue
<1>2. ASSUME NEW r \in Procs, pc[r] = "reserve" PROVE attempt[cur[r]] = None
  BY <1>2 DEF Exclusive, FreshCopy
<1>3. CASE pc[p] \in Running /\ pc[q] \in Running
  BY <1>1, <1>3 DEF Exclusive, OneHolder
<1>4. CASE pc[p] = "reserve" /\ pc[q] = "reserve"
  BY <1>4 DEF Exclusive, OneReserver
<1>5. CASE pc[p] \in Running /\ pc[q] = "reserve"
  BY <1>1, <1>2, <1>5
<1>6. CASE pc[p] = "reserve" /\ pc[q] \in Running
  BY <1>1, <1>2, <1>6
<1>7. QED
  BY <1>3, <1>4, <1>5, <1>6

\* A process's copy stays fresh through a step of another process, if its key is
\* none of that step's business.
LEMMA FreshKept ==
  ASSUME TypeOK, Coherent, Exclusive, Grows, NEW q \in Procs, Same(q), request'[q] = request[q],
         pc[q] \in Running \cup {"reserve"} => Untouched(q)
  PROVE  FreshCopy(q)'
<1>1. CASE pc[q] = "enqueue"
  <2>1. cur[q] \in Keys /\ attempt[cur[q]] # None
    BY <1>1 DEF Coherent, LocalsOK, CopyOK
  <2>2. attempt'[cur[q]].fp = attempt[cur[q]].fp
    BY <2>1 DEF Grows
  <2>3. QED
    BY <1>1, <2>2 DEF Exclusive, FreshCopy, Same, Running
<1>2. CASE pc[q] \in Running \cup {"reserve"}
  <2>1. NoPost(cur[q]) => NoPost(cur[q])'
    BY <1>2 DEF NoPost, Untouched, Same
  <2>2. QED
    BY <1>2, <2>1 DEF Exclusive, FreshCopy, Same, Untouched
<1>3. CASE pc[q] \notin Running \cup {"reserve", "enqueue"}
  BY <1>3 DEF FreshCopy, Same, Running
<1>4. QED
  BY <1>1, <1>2, <1>3

\* A step of one process keeps Exclusive, if it respects the records, leaves that
\* process with a fresh copy and stays away from the keys the others work on.
LEMMA OnceStep ==
  ASSUME TypeOK, Coherent, Exclusive, [Next]_vars, OnceRecords, (OneHolder /\ HeldIsLeased)',
         NEW p \in Procs, FreshCopy(p)',
         pc'[p] = "reserve" => \A q \in Procs : q # p /\ pc[q] = "reserve" => cur[q] # cur'[p],
         \A q \in Procs : q # p => Same(q) /\ request'[q] = request[q],
         \A q \in Procs : q # p /\ pc[q] \in Running \cup {"reserve"} => Untouched(q)
  PROVE  Exclusive'
<1>1. Grows
  BY StepGrows DEF Coherent
<1>2. OneReserver'
  BY DEF Exclusive, OneReserver, Same
<1>3. ASSUME NEW q \in Procs PROVE FreshCopy(q)'
  BY <1>1, FreshKept
<1>4. QED
  BY <1>1, <1>2, <1>3, OnceRecordsStep DEF Exclusive

\* A step of the environment that respects the records keeps Exclusive.
LEMMA OutsideStep ==
  ASSUME TypeOK, Coherent, Exclusive, [Next]_vars, OnceRecords, (OneHolder /\ HeldIsLeased)',
         UNCHANGED <<attempt, shares, pc, locals>>
  PROVE  Exclusive'
<1>1. Grows
  BY StepGrows DEF Coherent
<1>2. OneReserver'
  BY DEF Exclusive, OneReserver, locals
<1>3. ASSUME NEW q \in Procs PROVE FreshCopy(q)'
  BY <1>1, FreshKept DEF Same, Untouched, locals
<1>4. QED
  BY <1>1, <1>2, <1>3, OnceRecordsStep DEF Exclusive

\* Steps that touch no record and take no command.
LEMMA LocalStep ==
  ASSUME TypeOK, Coherent, Exclusive, [Next]_vars, UNCHANGED <<attempt, outbox, shares>>,
         \A q \in Procs : batch'[q] \subseteq batch[q],
         NEW p \in Procs, FreshCopy(p)',
         pc'[p] = "reserve" => \A q \in Procs : q # p /\ pc[q] = "reserve" => cur[q] # cur'[p],
         \A q \in Procs : q # p => Same(q) /\ request'[q] = request[q]
  PROVE  Exclusive'
<1>1. OnceRecords
  BY DEF OnceRecords
<1>2. OneHolder' /\ HeldIsLeased'
  BY DEF Exclusive, OneHolder, HeldIsLeased
<1>3. QED
  BY <1>1, <1>2, OnceStep DEF Untouched

\* A change to one row of the queue.
LEMMA OnceRow ==
  ASSUME TypeOK, Coherent, Exclusive, NEW k \in Keys, NEW c, outbox' = [outbox EXCEPT ![k] = c],
         UNCHANGED <<attempt, shares>>,
         outbox[k] = None => attempt[k] # None /\ attempt[k].fp[2] = c.payload,
         c.state = "PUBLISHED" => \/ outbox[k] # None /\ outbox[k].state = "PUBLISHED"
                                  \/ attempt[k] # None /\ attempt[k].status \in Posted
  PROVE  OnceRecords
BY DEF OnceRecords, TypeOK

\* Every step of the pipeline keeps Exclusive, given the two environment assumptions:
\* one case per action of Next.
LEMMA ExclusiveStep ==
  ASSUME LeaseOutlivesHolder, SerialEnqueue, TypeOK, Coherent, Exclusive, [Next]_vars
  PROVE  Exclusive'
<1>1. ASSUME NEW p \in Procs, pc'[p] \notin WithCopy \cup {"reserve", "enqueue"} PROVE FreshCopy(p)'
  BY <1>1 DEF FreshCopy, WithCopy, Running
<1>2. ASSUME NEW p \in Procs, pc[p] \in Running
      PROVE  /\ cur[p] \in Keys /\ cur[p] \in batch[p]
             /\ outbox[cur[p]] \in Commands /\ outbox[cur[p]] # None
             /\ outbox[cur[p]].locked /\ outbox[cur[p]].state = "PROCESSING"
             /\ attempt[cur[p]] \in Attempts /\ attempt[cur[p]] # None
  <2>1. /\ cur[p] \in Keys /\ cur[p] \in batch[p]
        /\ outbox[cur[p]] \in Commands /\ outbox[cur[p]] # None
    BY <1>2, HeldFacts, CommandUpdates DEF Coherent
  <2>2. attempt[cur[p]] # None
    BY <2>1 DEF Coherent, LedgerBeforeQueue
  <2>3. QED
    BY <2>1, <2>2 DEF Exclusive, HeldIsLeased, TypeOK
<1>3. ASSUME NEW p \in Procs, NEW from \in WithCopy, NEW to, SaveMine(p, from, to),
             attempt[cur[p]].status \notin Terminal, mine[p].status # "RESERVED",
             mine[p].status = "FAILED_PERMANENT" => NoPost(cur[p]),
             FreshCopy(p)', to # "reserve"
      PROVE  Exclusive'
  <2>1. pc[p] \in WithCopy /\ pc[p] \in Running
    BY <1>3 DEF SaveMine, Goto, WithCopy
  <2>2. cur[p] \in Keys /\ mine[p] \in Attempts /\ outbox[cur[p]].state = "PROCESSING"
    BY <1>2, <2>1, HeldFacts DEF Coherent
  <2>3. PICK b \in Attempts :
          attempt' = [attempt EXCEPT ![cur[p]] = b] /\ b.status = mine[p].status
    BY <1>3, <2>2, Saved DEF SaveMine
  <2>4. OnceRecords
    BY <1>3, <2>2, <2>3 DEF OnceRecords, SaveMine, NoPost, TypeOK
  <2>5. OneHolder' /\ HeldIsLeased'
    BY <1>3 DEF SaveMine, locals, Exclusive, OneHolder, HeldIsLeased
  <2>6. \A q \in Procs : q # p => Same(q) /\ request'[q] = request[q]
    BY <1>3 DEF SaveMine, Goto, locals, Same, TypeOK
  <2>7. ASSUME NEW q \in Procs, q # p, pc[q] \in Running \cup {"reserve"} PROVE Untouched(q)
    <3>1. cur[q] # cur[p]
      BY <2>1, <2>7, KeysApart
    <3>2. QED
      BY <1>3, <2>2, <2>3, <3>1 DEF SaveMine, Untouched, TypeOK
  <2>8. pc'[p] # "reserve"
    BY <1>3 DEF SaveMine, Goto, TypeOK
  <2>9. QED
    BY <2>4, <2>5, <2>6, <2>7, <2>8, <1>3, OnceStep
<1>4. ASSUME NEW p \in Procs, NEW c, pc[p] \in Running, Complete(p, c),
             c.state = "PUBLISHED" => attempt[cur[p]].status \in Posted
      PROVE  Exclusive'
  <2>1. cur[p] \in Keys /\ cur[p] \in batch[p] /\ outbox[cur[p]] # None /\ attempt[cur[p]] # None
    BY <1>2, <1>4
  <2>2. OnceRecords
    BY <1>4, <2>1, OnceRow DEF Complete
  <2>3. batch' = [batch EXCEPT ![p] = batch[p] \ {cur[p]}] /\ \A q \in Procs : batch'[q] \subseteq batch[q]
    BY <1>4 DEF Complete, TypeOK
  <2>4. OneHolder'
    BY <2>3 DEF Exclusive, OneHolder
  <2>5. ASSUME NEW q \in Procs, NEW k \in batch'[q] PROVE outbox'[k].locked /\ outbox'[k].state = "PROCESSING"
    <3>1. k \in batch[q] /\ k # cur[p]
      BY <2>1, <2>3 DEF Exclusive, OneHolder, TypeOK
    <3>2. outbox'[k] = outbox[k]
      BY <1>4, <2>1, <3>1 DEF Complete, TypeOK
    <3>3. QED
      BY <3>1, <3>2 DEF Exclusive, HeldIsLeased
  <2>6. HeldIsLeased'
    BY <2>5 DEF HeldIsLeased
  <2>7. pc'[p] \in {"idle", "next"}
    BY <1>4 DEF Complete, TypeOK
  <2>8. FreshCopy(p)'
    BY <1>1, <2>7 DEF WithCopy, Running
  <2>9. \A q \in Procs : q # p => Same(q) /\ request'[q] = request[q]
    BY <1>4 DEF Complete, Same, TypeOK
  <2>10. \A q \in Procs : Untouched(q)
    BY <1>4 DEF Complete, Untouched
  <2>11. QED
    BY <2>2, <2>4, <2>6, <2>7, <2>8, <2>9, <2>10, OnceStep
<1>5. ASSUME NEW k \in Keys, NEW c, outbox' = [outbox EXCEPT ![k] = c],
             outbox[k] # None, c.state = outbox[k].state,
             (\E p \in Procs : k \in batch[p]) => c.locked = outbox[k].locked,
             UNCHANGED <<accounts, attempt, shares, pc, locals, aborts>>
      PROVE  Exclusive'
  <2>1. OnceRecords
    <3>1. UNCHANGED <<attempt, shares>>
      BY <1>5
    <3>2. c.state = "PUBLISHED" => outbox[k] # None /\ outbox[k].state = "PUBLISHED"
      BY <1>5
    <3>3. outbox[k] # None /\ outbox' = [outbox EXCEPT ![k] = c]
      BY <1>5
    <3>4. QED
      BY <3>1, <3>2, <3>3 DEF OnceRecords, TypeOK
  <2>2. OneHolder'
    BY <1>5 DEF locals, Exclusive, OneHolder
  <2>3. ASSUME NEW q \in Procs, NEW j \in batch'[q] PROVE outbox'[j].locked /\ outbox'[j].state = "PROCESSING"
    <3>1. j \in batch[q] /\ j \in Keys
      BY <1>5 DEF locals, TypeOK
    <3>2. CASE j = k
      BY <1>5, <3>1, <3>2 DEF Exclusive, HeldIsLeased, TypeOK
    <3>3. CASE j # k
      BY <1>5, <3>1, <3>3 DEF Exclusive, HeldIsLeased, TypeOK
    <3>4. QED BY <3>2, <3>3
  <2>4. HeldIsLeased'
    BY <2>3 DEF HeldIsLeased
  <2>5. QED
    BY <1>5, <2>1, <2>2, <2>4, OutsideStep
<1>6. ASSUME NEW p \in Apis, NEW k \in Keys, NEW m \in Members, NEW x \in Payloads, NEW later \in BOOLEAN,
             Request(p, k, m, x, later)
      PROVE  Exclusive'
  <2>1. UNCHANGED <<attempt, outbox, shares>> /\ p \in Procs
    BY <1>6 DEF Request, Procs
  <2>2. FreshCopy(p)'
    BY <1>1, <1>6, <2>1 DEF Request, Goto, WithCopy, Running, TypeOK
  <2>3. \A j \in Procs : (j # p => Same(j) /\ request'[j] = request[j]) /\ batch'[j] \subseteq batch[j]
    BY <1>6, <2>1 DEF Request, Goto, Same, TypeOK
  <2>4. pc'[p] # "reserve"
    BY <1>6, <2>1 DEF Request, Goto, TypeOK
  <2>5. QED
    BY <2>1, <2>2, <2>3, <2>4, LocalStep
<1>7. ASSUME NEW p \in Procs, FirstRequest(p)
      PROVE  Exclusive'
  <2>1. UNCHANGED <<attempt, outbox, shares>> /\ p \in Procs
    BY <1>7 DEF FirstRequest, Procs
  <2>2. FreshCopy(p)'
    BY <1>7 DEF FirstRequest, Goto, locals, FreshCopy, TypeOK
  <2>3. \A j \in Procs : (j # p => Same(j) /\ request'[j] = request[j]) /\ batch'[j] \subseteq batch[j]
    BY <1>7, <2>1 DEF FirstRequest, Goto, locals, Same, TypeOK
  <2>4. \A q \in Procs : q # p /\ pc[q] = "reserve" => cur[q] # cur'[p]
    BY <1>7 DEF FirstRequest, Goto, locals
  <2>5. QED
    BY <2>1, <2>2, <2>3, <2>4, LocalStep
<1>8. ASSUME NEW p \in Procs, RepeatRequest(p)
      PROVE  Exclusive'
  <2>1. UNCHANGED <<attempt, outbox, shares>> /\ p \in Procs
    BY <1>8 DEF RepeatRequest, Procs
  <2>2. FreshCopy(p)'
    BY <1>8 DEF RepeatRequest, Goto, locals, FreshCopy, TypeOK
  <2>3. \A j \in Procs : (j # p => Same(j) /\ request'[j] = request[j]) /\ batch'[j] \subseteq batch[j]
    BY <1>8, <2>1 DEF RepeatRequest, Goto, locals, Same, TypeOK
  <2>4. pc'[p] # "reserve"
    BY <1>8, <2>1 DEF RepeatRequest, Goto, locals, TypeOK
  <2>5. QED
    BY <2>1, <2>2, <2>3, <2>4, LocalStep
<1>9. ASSUME NEW p \in Procs, ConflictingRequest(p)
      PROVE  Exclusive'
  <2>1. UNCHANGED <<attempt, outbox, shares>> /\ p \in Procs
    BY <1>9 DEF ConflictingRequest, Procs
  <2>2. FreshCopy(p)'
    BY <1>1, <1>9, <2>1 DEF ConflictingRequest, Forget, WithCopy, Running, TypeOK
  <2>3. \A j \in Procs : (j # p => Same(j) /\ request'[j] = request[j]) /\ batch'[j] \subseteq batch[j]
    BY <1>9, <2>1 DEF ConflictingRequest, Forget, Same, TypeOK
  <2>4. pc'[p] # "reserve"
    BY <1>9, <2>1 DEF ConflictingRequest, Forget, TypeOK
  <2>5. QED
    BY <2>1, <2>2, <2>3, <2>4, LocalStep
<1>10. ASSUME NEW p \in Procs, Reserve(p)
      PROVE  Exclusive'
  <2> DEFINE a == [fp |-> <<who[p], request[p].payload>>, status |-> "RESERVED", post |-> None]
  <2>1. pc[p] = "reserve" /\ pc'[p] = "enqueue"
    BY <1>10 DEF Reserve, Goto, TypeOK
  <2>2. /\ cur[p] \in Keys /\ who[p] \in Members /\ request[p].payload \in Payloads
        /\ attempt[cur[p]] = None
    BY <2>1 DEF Coherent, LocalsOK, Requests, Exclusive, FreshCopy
  <2>3. NoPost(cur[p]) /\ outbox[cur[p]] = None
    BY <2>2 DEF NoPost, Coherent, FingerprintIntegrity, LedgerBeforeQueue
  <2>4. attempt' = [attempt EXCEPT ![cur[p]] = a]
    BY <1>10, <2>2 DEF Reserve, saveAttempt
  <2>5. OnceRecords
    BY <1>10, <2>2, <2>3, <2>4 DEF OnceRecords, Reserve, NoPost, TypeOK
  <2>6. OneHolder' /\ HeldIsLeased'
    BY <1>10 DEF Reserve, locals, Exclusive, OneHolder, HeldIsLeased
  <2>7. FreshCopy(p)'
    BY <1>10, <2>1, <2>2, <2>4 DEF Reserve, locals, FreshCopy, TypeOK
  <2>8. \A q \in Procs : q # p => Same(q) /\ request'[q] = request[q]
    BY <1>10 DEF Reserve, Goto, locals, Same, TypeOK
  <2>9. ASSUME NEW q \in Procs, q # p, pc[q] \in Running \cup {"reserve"} PROVE Untouched(q)
    <3>1. cur[q] # cur[p]
      BY <2>1, <2>9, KeysApart
    <3>2. QED
      BY <1>10, <2>2, <2>4, <3>1 DEF Reserve, Untouched, TypeOK
  <2>10. QED
    BY <2>1, <2>5, <2>6, <2>7, <2>8, <2>9, OnceStep
<1>11. ASSUME NEW p \in Procs, Enqueue(p)
      PROVE  Exclusive'
  <2>1. pc[p] = "enqueue" /\ cur[p] \in Keys /\ attempt[cur[p]] # None
    BY <1>11 DEF Enqueue, Coherent, LocalsOK, CopyOK
  <2>2. attempt[cur[p]].fp = <<who[p], request[p].payload>>
    BY <2>1 DEF Exclusive, FreshCopy
  <2>3. OnceRecords
    <3> DEFINE new == [payload |-> request[p].payload, state |-> "PENDING", count |-> 0,
                       due |-> ~request[p].later, locked |-> FALSE]
    <3>1. UNCHANGED <<attempt, shares>>
      BY <1>11 DEF Enqueue
    <3>2. CASE outbox[cur[p]] = None
      <4>1. outbox' = [outbox EXCEPT ![cur[p]] = new]
        BY <1>11, <3>2 DEF Enqueue
      <4>2. new.state # "PUBLISHED" /\ attempt[cur[p]].fp[2] = new.payload
        BY <2>2
      <4>3. QED
        BY <2>1, <3>1, <4>1, <4>2, OnceRow
    <3>3. CASE outbox[cur[p]] # None
      BY <1>11, <3>1, <3>3 DEF Enqueue, OnceRecords, TypeOK
    <3>4. QED BY <3>2, <3>3
  <2>4. \A q \in Procs : batch'[q] \subseteq batch[q]
    BY <1>11 DEF Enqueue, Forget, TypeOK
  <2>5. OneHolder'
    BY <2>4 DEF Exclusive, OneHolder
  <2>6. ASSUME NEW q \in Procs, NEW k \in batch'[q] PROVE outbox'[k].locked /\ outbox'[k].state = "PROCESSING"
    <3>1. k \in batch[q] /\ k \in Keys /\ outbox[k] # None
      BY <2>4, CommandUpdates DEF TypeOK, Coherent, LocalsOK
    <3>2. outbox'[k] = outbox[k]
      BY <1>11, <2>1, <3>1 DEF Enqueue, TypeOK
    <3>3. QED
      BY <3>1, <3>2 DEF Exclusive, HeldIsLeased
  <2>7. HeldIsLeased'
    BY <2>6 DEF HeldIsLeased
  <2>8. pc'[p] \in {"idle", "claim"}
    BY <1>11 DEF Enqueue, Forget, TypeOK
  <2>9. FreshCopy(p)'
    BY <1>1, <2>8 DEF WithCopy, Running
  <2>10. \A q \in Procs : q # p => Same(q) /\ request'[q] = request[q]
    BY <1>11 DEF Enqueue, Forget, Same, TypeOK
  <2>11. \A q \in Procs : Untouched(q)
    BY <1>11 DEF Enqueue, Untouched
  <2>12. QED
    BY <2>3, <2>5, <2>7, <2>8, <2>9, <2>10, <2>11, OnceStep
<1>12. ASSUME NEW p \in Procs, NEW S \in SUBSET Due, Claim(p, S)
      PROVE  Exclusive'
  <2>1. S \subseteq Keys /\ \A k \in S : outbox[k] \in Commands /\ ~outbox[k].locked
    BY <1>12 DEF Due, Open, TypeOK
  <2>2. \A k \in S : outbox'[k].state = "PROCESSING" /\ outbox'[k].locked
    BY <1>12, <2>1 DEF Claim, Commands
  <2>3. \A k \in Keys \ S : outbox'[k] = outbox[k]
    BY <1>12 DEF Claim
  <2>4. OnceRecords
    <3>1. \A k \in S : outbox[k] # None
      BY <2>1, CommandUpdates
    <3>2. QED
      BY <1>12, <2>1, <2>2, <2>3, <3>1 DEF Claim, OnceRecords
  <2>5. ASSUME NEW q \in Procs PROVE batch[q] \cap S = {} /\ batch[q] \subseteq Keys
    BY <2>1 DEF Exclusive, HeldIsLeased, TypeOK
  <2>6. batch' = [batch EXCEPT ![p] = S]
    BY <1>12 DEF Claim
  <2>7. OneHolder'
    BY <2>5, <2>6 DEF Exclusive, OneHolder, TypeOK
  <2>8. ASSUME NEW q \in Procs, NEW k \in batch'[q] PROVE outbox'[k].locked /\ outbox'[k].state = "PROCESSING"
    <3>1. CASE q = p
      BY <2>2, <2>6, <3>1 DEF TypeOK
    <3>2. CASE q # p
      <4>1. k \in batch[q] /\ k \in Keys \ S
        BY <2>5, <2>6, <3>2 DEF TypeOK
      <4>2. QED
        BY <2>3, <4>1 DEF Exclusive, HeldIsLeased
    <3>3. QED BY <3>1, <3>2
  <2>9. HeldIsLeased'
    BY <2>8 DEF HeldIsLeased
  <2>10. pc'[p] \in {"idle", "next"}
    BY <1>12 DEF Claim, TypeOK
  <2>11. FreshCopy(p)'
    BY <1>1, <2>10 DEF WithCopy, Running
  <2>12. \A q \in Procs : q # p => Same(q) /\ request'[q] = request[q]
    BY <1>12 DEF Claim, Same, TypeOK
  <2>13. \A q \in Procs : Untouched(q)
    BY <1>12 DEF Claim, Untouched
  <2>14. QED
    BY <2>4, <2>7, <2>9, <2>10, <2>11, <2>12, <2>13, OnceStep
<1>13. ASSUME NEW p \in Procs, NEW k \in batch[p], NEW m \in Members,
             TakeCommand(p, k, m)
      PROVE  Exclusive'
  <2>1. UNCHANGED <<attempt, outbox, shares>> /\ p \in Procs
    BY <1>13 DEF TakeCommand, Procs
  <2>2. FreshCopy(p)'
    BY <1>1, <1>13, <2>1 DEF TakeCommand, Goto, WithCopy, Running, TypeOK
  <2>3. \A j \in Procs : (j # p => Same(j) /\ request'[j] = request[j]) /\ batch'[j] \subseteq batch[j]
    BY <1>13, <2>1 DEF TakeCommand, Goto, Same, TypeOK
  <2>4. pc'[p] # "reserve"
    BY <1>13, <2>1 DEF TakeCommand, Goto, TypeOK
  <2>5. QED
    BY <2>1, <2>2, <2>3, <2>4, LocalStep
<1>14. ASSUME NEW p \in Procs, NEW k \in batch[p], RefuseCommand(p, k)
      PROVE  Exclusive'
  <2>1. UNCHANGED <<attempt, outbox, shares>> /\ p \in Procs
    BY <1>14 DEF RefuseCommand, Procs
  <2>2. FreshCopy(p)'
    BY <1>1, <1>14, <2>1 DEF RefuseCommand, Goto, WithCopy, Running, TypeOK
  <2>3. \A j \in Procs : (j # p => Same(j) /\ request'[j] = request[j]) /\ batch'[j] \subseteq batch[j]
    BY <1>14, <2>1 DEF RefuseCommand, Goto, Same, TypeOK
  <2>4. pc'[p] # "reserve"
    BY <1>14, <2>1 DEF RefuseCommand, Goto, TypeOK
  <2>5. QED
    BY <2>1, <2>2, <2>3, <2>4, LocalStep
<1>15. ASSUME NEW p \in Procs, ConflictingCommand(p)
      PROVE  Exclusive'
  <2>1. UNCHANGED <<attempt, outbox, shares>> /\ p \in Procs
    BY <1>15 DEF ConflictingCommand, Procs
  <2>2. FreshCopy(p)'
    BY <1>1, <1>15, <2>1 DEF ConflictingCommand, Goto, locals, WithCopy, Running, TypeOK
  <2>3. \A j \in Procs : (j # p => Same(j) /\ request'[j] = request[j]) /\ batch'[j] \subseteq batch[j]
    BY <1>15, <2>1 DEF ConflictingCommand, Goto, locals, Same, TypeOK
  <2>4. pc'[p] # "reserve"
    BY <1>15, <2>1 DEF ConflictingCommand, Goto, locals, TypeOK
  <2>5. QED
    BY <2>1, <2>2, <2>3, <2>4, LocalStep
<1>16. ASSUME NEW p \in Procs, ReplayAttempt(p)
      PROVE  Exclusive'
  <2>1. pc[p] = "read" /\ pc[p] \in Running
    BY <1>16 DEF ReplayAttempt, Goto, Running
  <2>2. cur[p] \in Keys /\ attempt[cur[p]] \in Attempts /\ attempt[cur[p]] # None
    BY <1>2, <2>1
  <2>3. UNCHANGED <<attempt, outbox, shares>> /\ p \in Procs
    BY <1>16 DEF ReplayAttempt, Procs
  <2>4. FreshCopy(p)'
    BY <1>16, <2>2 DEF ReplayAttempt, Goto, FreshCopy, TypeOK
  <2>5. \A j \in Procs : (j # p => Same(j) /\ request'[j] = request[j]) /\ batch'[j] \subseteq batch[j]
    BY <1>16, <2>3 DEF ReplayAttempt, Goto, Same, TypeOK
  <2>6. pc'[p] # "reserve"
    BY <1>16, <2>3 DEF ReplayAttempt, Goto, TypeOK
  <2>7. QED
    BY <2>3, <2>4, <2>5, <2>6, LocalStep
<1>17. ASSUME NEW p \in Procs, ReconcileAttempt(p)
      PROVE  Exclusive'
  <2>1. pc[p] = "read" /\ pc[p] \in Running
    BY <1>17 DEF ReconcileAttempt, Goto, Running
  <2>2. cur[p] \in Keys /\ attempt[cur[p]] \in Attempts /\ attempt[cur[p]] # None
    BY <1>2, <2>1
  <2>3. attempt[cur[p]].status \notin Terminal \cup {"RESERVED"}
    BY <1>17, Decisions DEF ReconcileAttempt, Decision
  <2>4. UNCHANGED <<attempt, outbox, shares>> /\ p \in Procs
    BY <1>17 DEF ReconcileAttempt, Procs
  <2>5. FreshCopy(p)'
    BY <1>17, <2>2, <2>3 DEF ReconcileAttempt, Goto, FreshCopy, TypeOK
  <2>6. \A j \in Procs : (j # p => Same(j) /\ request'[j] = request[j]) /\ batch'[j] \subseteq batch[j]
    BY <1>17, <2>4 DEF ReconcileAttempt, Goto, Same, TypeOK
  <2>7. pc'[p] # "reserve"
    BY <1>17, <2>4 DEF ReconcileAttempt, Goto, TypeOK
  <2>8. QED
    BY <2>4, <2>5, <2>6, <2>7, LocalStep
<1>18. ASSUME NEW p \in Procs, PrepareDispatch(p)
      PROVE  Exclusive'
  <2>1. pc[p] = "read" /\ pc[p] \in Running
    BY <1>18 DEF PrepareDispatch, Goto, Running
  <2>2. cur[p] \in Keys /\ attempt[cur[p]] \in Attempts /\ attempt[cur[p]] # None
    BY <1>2, <2>1
  <2>3. attempt[cur[p]].status = "RESERVED"
    BY <1>18, <2>2, Decisions DEF PrepareDispatch, Decision
  <2>4. mine'[p].status = "DISPATCHING"
    BY <1>18, <2>2 DEF PrepareDispatch, TypeOK, Attempts
  <2>5. NoPost(cur[p])
    BY <2>2, <2>3 DEF NoPost, Exclusive, LedgerNeverDeniesPost
  <2>6. UNCHANGED <<attempt, outbox, shares>> /\ p \in Procs
    BY <1>18 DEF PrepareDispatch, Procs
  <2>7. FreshCopy(p)'
    BY <1>18, <2>2, <2>3, <2>4, <2>5 DEF PrepareDispatch, Goto, FreshCopy, NoPost, TypeOK
  <2>8. \A j \in Procs : (j # p => Same(j) /\ request'[j] = request[j]) /\ batch'[j] \subseteq batch[j]
    BY <1>18, <2>6 DEF PrepareDispatch, Goto, Same, TypeOK
  <2>9. pc'[p] # "reserve"
    BY <1>18, <2>6 DEF PrepareDispatch, Goto, TypeOK
  <2>10. QED
    BY <2>6, <2>7, <2>8, <2>9, LocalStep
<1>19. ASSUME NEW p \in Procs, SaveDispatching(p)
      PROVE  Exclusive'
  <2>1. pc[p] = "saveDispatching" /\ pc[p] \in WithCopy /\ pc[p] \in Running
    BY <1>19 DEF SaveDispatching, SaveMine, Goto, WithCopy, Running
  <2>2. cur[p] \in Keys /\ mine[p] \in Attempts
    BY <1>2, <2>1, HeldFacts DEF Coherent
  <2>3. attempt'[cur[p]].status = "DISPATCHING"
    BY <1>19, <2>1, <2>2, Saved DEF SaveDispatching, SaveMine, Exclusive, FreshCopy, TypeOK
  <2>4. FreshCopy(p)'
    BY <1>19, <2>1, <2>3 DEF SaveDispatching, SaveMine, Goto, locals, FreshCopy, NoPost, Exclusive, TypeOK
  <2>5. QED
    BY <1>3, <1>19, <2>1, <2>4 DEF SaveDispatching, Exclusive, FreshCopy, Terminal
<1>20. ASSUME NEW p \in Procs, NEW h \in {201, 502, 0}, ShareAccepted(p, h)
      PROVE  Exclusive'
  <2>1. pc[p] = "create" /\ pc[p] \in WithCopy /\ pc[p] \in Running
    BY <1>20 DEF ShareAccepted, WithCopy, Running
  <2>2. /\ cur[p] \in Keys /\ mine[p] \in Attempts /\ who[p] \in Members
        /\ outbox[cur[p]] \in Commands
    BY <1>2, <2>1, HeldFacts DEF Coherent
  <2>3. attempt[cur[p]].status = "DISPATCHING" /\ NoPost(cur[p])
    BY <2>1 DEF Exclusive, FreshCopy
  <2>4. PICK post \in Posts, learnt \in Posts \cup {None} :
          post.key = cur[p] /\ shares' = shares \cup {post} /\ Created(p, h, learnt)
    BY <1>20, <2>2, AcceptedPost
  <2>5. OnceRecords
    <3>1. attempt' = attempt /\ outbox' = outbox
      BY <2>4 DEF Created
    <3>2. QED
      BY <2>3, <2>4, <3>1 DEF OnceRecords
  <2>6. OneHolder' /\ HeldIsLeased'
    BY <2>4 DEF Created, Exclusive, OneHolder, HeldIsLeased
  <2>7. \/ pc'[p] = "saveCandidate" /\ mine'[p].status = "PLATFORM_PENDING"
        \/ pc'[p] = "saveFinal" /\ mine'[p].status \notin {"RESERVED", "FAILED_PERMANENT"}
    <3> DEFINE observed == observeLinkedInCreate(h, learnt # None)
    <3>1. observed \in {"candidate", "unknown_external_state"}
      BY DEF observeLinkedInCreate
    <3>2. mine'[p] = AfterCreate(mine[p], h, learnt)
      BY <2>4 DEF Created, TypeOK
    <3>3. mine'[p].status = finalizePublishStatus(observed, "pending")
      BY <2>2, <3>2 DEF AfterCreate, Attempts
    <3>4. pc'[p] = IF observed = "candidate" THEN "saveCandidate" ELSE "saveFinal"
      BY <2>4 DEF Created, Goto, TypeOK
    <3>5. QED
      BY <3>1, <3>3, <3>4 DEF finalizePublishStatus
  <2>8. FreshCopy(p)'
    BY <2>3, <2>4, <2>7 DEF Created, FreshCopy, Terminal
  <2>9. \A q \in Procs : q # p => Same(q) /\ request'[q] = request[q]
    BY <2>4 DEF Created, Goto, Same, TypeOK
  <2>10. ASSUME NEW q \in Procs, q # p, pc[q] \in Running \cup {"reserve"} PROVE Untouched(q)
    <3>1. cur[q] # cur[p]
      BY <2>1, <2>10, KeysApart
    <3>2. QED
      BY <2>4, <3>1 DEF Created, Untouched
  <2>11. QED
    BY <2>5, <2>6, <2>7, <2>8, <2>9, <2>10, OnceStep
<1>21. ASSUME NEW p \in Procs, NEW h \in {422, 429, 0}, ShareRefused(p, h)
      PROVE  Exclusive'
  <2>1. pc[p] = "create" /\ pc[p] \in WithCopy /\ pc[p] \in Running
    BY <1>21 DEF ShareRefused, Created, Goto, WithCopy, Running
  <2>2. mine[p] \in Attempts /\ cur[p] \in Keys /\ attempt[cur[p]] # None
    BY <1>2, <2>1, HeldFacts DEF Coherent
  <2>3. pc'[p] = "saveFinal"
    <3>1. observeLinkedInCreate(h, None # None) # "candidate"
      BY Observations
    <3>2. QED
      BY <1>21, <3>1 DEF ShareRefused, Created, Goto, TypeOK
  <2>4. mine'[p].status # "RESERVED"
    <3>1. mine'[p] = AfterCreate(mine[p], h, None)
      BY <1>21 DEF ShareRefused, Created, TypeOK
    <3>2. mine'[p].status = finalizePublishStatus(observeLinkedInCreate(h, None # None), "pending")
      BY <2>2, <3>1 DEF AfterCreate, Attempts
    <3>3. QED
      BY <3>2, Finals
  <2>5. UNCHANGED <<attempt, outbox, shares>> /\ p \in Procs
    BY <1>21 DEF ShareRefused, Procs, Created
  <2>6. FreshCopy(p)'
    BY <1>21, <2>1, <2>3, <2>4 DEF ShareRefused, Created, FreshCopy, Exclusive, Terminal, NoPost
  <2>7. \A j \in Procs : (j # p => Same(j) /\ request'[j] = request[j]) /\ batch'[j] \subseteq batch[j]
    BY <1>21, <2>5 DEF ShareRefused, Created, Goto, Same, TypeOK
  <2>8. pc'[p] # "reserve"
    BY <1>21, <2>5 DEF ShareRefused, Created, Goto, TypeOK
  <2>9. QED
    BY <2>5, <2>6, <2>7, <2>8, LocalStep
<1>22. ASSUME NEW p \in Procs, SaveCandidate(p)
      PROVE  Exclusive'
  <2>1. pc[p] = "saveCandidate" /\ pc[p] \in WithCopy /\ pc[p] \in Running
    BY <1>22 DEF SaveCandidate, SaveMine, Goto, WithCopy, Running
  <2>2. cur[p] \in Keys /\ mine[p] \in Attempts
    BY <1>2, <2>1, HeldFacts DEF Coherent
  <2>3. mine[p].status = "PLATFORM_PENDING" /\ attempt[cur[p]].status \notin Terminal
    BY <2>1 DEF Exclusive, FreshCopy
  <2>4. attempt'[cur[p]].status = "PLATFORM_PENDING"
    BY <1>22, <2>2, <2>3, Saved DEF SaveCandidate, SaveMine, TypeOK
  <2>5. FreshCopy(p)'
    BY <1>22, <2>4 DEF SaveCandidate, SaveMine, Goto, locals, FreshCopy, Terminal, TypeOK
  <2>6. QED
    BY <1>3, <1>22, <2>1, <2>3, <2>5 DEF SaveCandidate
<1>23. ASSUME NEW p \in Procs, NEW h \in {200, 403}, VerifyCreated(p, h)
      PROVE  Exclusive'
  <2>1. pc[p] = "verify" /\ pc[p] \in WithCopy /\ pc[p] \in Running
    BY <1>23 DEF VerifyCreated, Goto, WithCopy, Running
  <2>2. mine[p] \in Attempts /\ cur[p] \in Keys /\ attempt[cur[p]] # None
    BY <1>2, <2>1, HeldFacts DEF Coherent
  <2>3. pc'[p] = "saveFinal"
    BY <1>23 DEF VerifyCreated, Goto, TypeOK
  <2>4. mine'[p].status \notin {"RESERVED", "FAILED_PERMANENT"}
    <3>1. mine'[p].status = finalizePublishStatus("candidate", observeLinkedInVerify(h))
      BY <1>23, <2>2 DEF VerifyCreated, TypeOK, Attempts
    <3>2. QED
      BY <3>1, Finals DEF Posted
  <2>5. UNCHANGED <<attempt, outbox, shares>> /\ p \in Procs
    BY <1>23 DEF VerifyCreated, Procs
  <2>6. FreshCopy(p)'
    BY <1>23, <2>1, <2>3, <2>4 DEF VerifyCreated, FreshCopy, Exclusive
  <2>7. \A j \in Procs : (j # p => Same(j) /\ request'[j] = request[j]) /\ batch'[j] \subseteq batch[j]
    BY <1>23, <2>5 DEF VerifyCreated, Goto, Same, TypeOK
  <2>8. pc'[p] # "reserve"
    BY <1>23, <2>5 DEF VerifyCreated, Goto, TypeOK
  <2>9. QED
    BY <2>5, <2>6, <2>7, <2>8, LocalStep
<1>24. ASSUME NEW p \in Procs, NEW h \in {200, 403}, VerifyExisting(p, h)
      PROVE  Exclusive'
  <2>1. pc[p] = "verifyExisting" /\ pc[p] \in WithCopy /\ pc[p] \in Running
    BY <1>24 DEF VerifyExisting, Goto, WithCopy, Running
  <2>2. mine[p] \in Attempts /\ cur[p] \in Keys /\ attempt[cur[p]] # None
    BY <1>2, <2>1, HeldFacts DEF Coherent
  <2>3. \/ pc'[p] = "saveFinal" /\ mine'[p].status = "SUCCEEDED"
        \/ pc'[p] = "complete" /\ mine' = mine
    BY <1>24, <2>2 DEF VerifyExisting, Goto, TypeOK, Attempts
  <2>4. UNCHANGED <<attempt, outbox, shares>> /\ p \in Procs
    BY <1>24 DEF VerifyExisting, Procs
  <2>5. FreshCopy(p)'
    <3>1. cur' = cur /\ attempt' = attempt
      BY <1>24 DEF VerifyExisting
    <3>2. attempt[cur[p]].status \notin Terminal \cup {"RESERVED"} /\ mine[p].status = attempt[cur[p]].status
      BY <2>1 DEF Exclusive, FreshCopy
    <3>3. QED
      BY <2>3, <3>1, <3>2 DEF FreshCopy
  <2>6. \A j \in Procs : (j # p => Same(j) /\ request'[j] = request[j]) /\ batch'[j] \subseteq batch[j]
    BY <1>24, <2>4 DEF VerifyExisting, Goto, Same, TypeOK
  <2>7. pc'[p] # "reserve"
    BY <1>24, <2>4 DEF VerifyExisting, Goto, TypeOK
  <2>8. QED
    BY <2>4, <2>5, <2>6, <2>7, LocalStep
<1>25. ASSUME NEW p \in Procs, SaveFinal(p)
      PROVE  Exclusive'
  <2>1. pc[p] = "saveFinal" /\ pc[p] \in WithCopy /\ pc[p] \in Running
    BY <1>25 DEF SaveFinal, SaveMine, Goto, WithCopy, Running
  <2>2. cur[p] \in Keys /\ mine[p] \in Attempts
    BY <1>2, <2>1, HeldFacts DEF Coherent
  <2>3. attempt'[cur[p]].status = mine[p].status
    BY <1>25, <2>2, Saved DEF SaveFinal, SaveMine, TypeOK
  <2>4. FreshCopy(p)'
    BY <1>25, <2>3 DEF SaveFinal, SaveMine, Goto, locals, FreshCopy, TypeOK
  <2>5. QED
    BY <1>3, <1>25, <2>1, <2>4 DEF SaveFinal, Exclusive, FreshCopy
<1>26. ASSUME NEW p \in Procs, CompletePublished(p)
      PROVE  Exclusive'
  <2>1. pc[p] \in Running
    BY <1>26 DEF CompletePublished, Running
  <2>2. mine[p].status \in Posted /\ mine[p].status = attempt[cur[p]].status
    BY <1>26 DEF CompletePublished, FollowUp, outboxFollowUp, Posted, Exclusive, FreshCopy
  <2>3. QED
    BY <1>4, <1>26, <2>1, <2>2 DEF CompletePublished
<1>27. ASSUME NEW p \in Procs, CompleteFailed(p)
      PROVE  Exclusive'
  <2> DEFINE c == [outbox[cur[p]] EXCEPT !.state = "FAILED"]
  <2>1. pc[p] \in Running
    BY <1>27 DEF CompleteFailed, Running
  <2>2. c.state = "FAILED"
    BY <1>2, <2>1 DEF Commands
  <2>3. QED
    BY <1>4, <1>27, <2>1, <2>2 DEF CompleteFailed
<1>28. ASSUME NEW p \in Procs, CompleteRetry(p)
      PROVE  Exclusive'
  <2> DEFINE c == [outbox[cur[p]] EXCEPT !.state = "PENDING", !.due = FALSE, !.locked = FALSE]
  <2>1. pc[p] \in Running
    BY <1>28 DEF CompleteRetry, Running
  <2>2. c.state = "PENDING"
    BY <1>2, <2>1 DEF Commands
  <2>3. QED
    BY <1>4, <1>28, <2>1, <2>2 DEF CompleteRetry
<1>29. ASSUME NEW p \in Procs, Abort(p)
      PROVE  Exclusive'
  <2>1. UNCHANGED <<attempt, outbox, shares>> /\ p \in Procs
    BY <1>29 DEF Abort, Procs
  <2>2. FreshCopy(p)'
    BY <1>1, <1>29, <2>1 DEF Abort, Forget, WithCopy, Running, TypeOK
  <2>3. \A j \in Procs : (j # p => Same(j) /\ request'[j] = request[j]) /\ batch'[j] \subseteq batch[j]
    BY <1>29, <2>1 DEF Abort, Forget, Same, TypeOK
  <2>4. pc'[p] # "reserve"
    BY <1>29, <2>1 DEF Abort, Forget, TypeOK
  <2>5. QED
    BY <2>1, <2>2, <2>3, <2>4, LocalStep
<1>30. ASSUME NEW p \in Procs, Restart(p)
      PROVE  Exclusive'
  <2>1. UNCHANGED <<attempt, outbox, shares>> /\ p \in Procs
    BY <1>30 DEF Restart, Procs
  <2>2. FreshCopy(p)'
    BY <1>1, <1>30, <2>1 DEF Restart, Goto, locals, WithCopy, Running, TypeOK
  <2>3. \A j \in Procs : (j # p => Same(j) /\ request'[j] = request[j]) /\ batch'[j] \subseteq batch[j]
    BY <1>30, <2>1 DEF Restart, Goto, locals, Same, TypeOK
  <2>4. pc'[p] # "reserve"
    BY <1>30, <2>1 DEF Restart, Goto, locals, TypeOK
  <2>5. QED
    BY <2>1, <2>2, <2>3, <2>4, LocalStep
<1>31. ASSUME NEW k \in Keys, LeaseExpires(k)
      PROVE  Exclusive'
  <2> DEFINE c == [outbox[k] EXCEPT !.locked = FALSE]
  <2>1. outbox[k] \in Commands /\ outbox[k] # None
    BY <1>31 DEF LeaseExpires, Open, TypeOK
  <2>2. c.state = outbox[k].state
    BY <2>1 DEF Commands
  <2>3. QED
    BY <1>5, <1>31, <2>1, <2>2 DEF LeaseExpires
<1>32. ASSUME NEW k \in Keys, BecomesDue(k)
      PROVE  Exclusive'
  <2> DEFINE c == [outbox[k] EXCEPT !.due = TRUE]
  <2>1. outbox[k] \in Commands /\ outbox[k] # None
    BY <1>32 DEF BecomesDue, Open, TypeOK
  <2>2. c.state = outbox[k].state /\ c.locked = outbox[k].locked
    BY <2>1 DEF Commands
  <2>3. QED
    BY <1>5, <1>32, <2>1, <2>2 DEF BecomesDue
<1>33. ASSUME NEW k \in Keys, NEW due \in BOOLEAN, Reschedule(k, due)
      PROVE  Exclusive'
  <2> DEFINE c == [outbox[k] EXCEPT !.due = due]
  <2>1. outbox[k] \in Commands /\ outbox[k] # None
    BY <1>33 DEF Reschedule, Open, TypeOK
  <2>2. c.state = outbox[k].state /\ c.locked = outbox[k].locked
    BY <2>1 DEF Commands
  <2>3. QED
    BY <1>5, <1>33, <2>1, <2>2 DEF Reschedule
<1>34. ASSUME NEW w \in Workspaces, NEW m \in Members, NEW cap \in {"read", "publish"},
             Connect(w, m, cap)
      PROVE  Exclusive'
  <2>1. OnceRecords
    BY <1>34 DEF Connect, OnceRecords
  <2>2. (OneHolder /\ HeldIsLeased)'
    BY <1>34 DEF Connect, locals, Exclusive, OneHolder, HeldIsLeased
  <2>3. QED
    BY <1>34, <2>1, <2>2, OutsideStep DEF Connect
<1>35. CASE UNCHANGED vars
  <2>1. OnceRecords
    BY <1>35 DEF vars, OnceRecords
  <2>2. (OneHolder /\ HeldIsLeased)'
    BY <1>35 DEF vars, locals, Exclusive, OneHolder, HeldIsLeased
  <2>3. QED
    BY <1>35, <2>1, <2>2, OutsideStep DEF vars, locals
<1>36. QED
  BY <1>6, <1>7, <1>8, <1>9, <1>10, <1>11, <1>12, <1>13, <1>14, <1>15, <1>16, <1>17, <1>18,
     <1>19, <1>20, <1>21, <1>22, <1>23, <1>24, <1>25, <1>26, <1>27, <1>28, <1>29, <1>30, <1>31,
     <1>32, <1>33, <1>34, <1>35 DEF Next, ServeRequest, Dispatch, Environment

\* An empty ledger and queue, with every process idle, is exclusive.
LEMMA ExclusiveInit ==
  Init => Exclusive
<1>1. Init => OneHolder /\ HeldIsLeased /\ OneReserver
  BY DEF Init, OneHolder, HeldIsLeased, OneReserver
<1>2. Init => QueuedAsReserved /\ QueueAgreesWithLedger /\ LedgerNeverDeniesPost /\ AtMostOnePost
  BY DEF Init, QueuedAsReserved, QueueAgreesWithLedger, LedgerNeverDeniesPost, AtMostOnePost
<1>3. Init => \A p \in Procs : FreshCopy(p)
  BY DEF Init, FreshCopy
<1>4. QED
  BY <1>1, <1>2, <1>3 DEF Exclusive

\* The count of the processes that died has no part in Exclusive.
LEMMA OnceCounted ==
  ASSUME Exclusive, UNCHANGED <<accounts, attempt, outbox, shares, pc, locals>>
  PROVE  Exclusive'
<1>1. (OneHolder /\ HeldIsLeased /\ OneReserver)'
  BY DEF Exclusive, OneHolder, HeldIsLeased, OneReserver, locals
<1>2. (QueuedAsReserved /\ QueueAgreesWithLedger /\ LedgerNeverDeniesPost /\ AtMostOnePost)'
  BY DEF Exclusive, QueuedAsReserved, QueueAgreesWithLedger, LedgerNeverDeniesPost, AtMostOnePost
<1>3. \A p \in Procs : FreshCopy(p)'
  BY DEF Exclusive, FreshCopy, NoPost, locals
<1>4. QED
  BY <1>1, <1>2, <1>3 DEF Exclusive

\* Under the two environment assumptions the holder of a command is the only
\* writer of its attempt, in every reachable state.
THEOREM ExclusiveAlways ==
  ASSUME LeaseOutlivesHolder, SerialEnqueue
  PROVE  Spec => []Exclusive
<1>1. TypeOK /\ Coherent /\ Exclusive /\ [Next]_vars => Exclusive'
  BY ExclusiveStep
<1>2. QED
  BY <1>1, ExclusiveInit, TypeCorrect, CoherentAlways, PTL DEF Spec

\* No key is ever posted twice, whatever crashes, retries and lost answers.
THEOREM PostedOnce ==
  ASSUME LeaseOutlivesHolder, SerialEnqueue
  PROVE  Spec => []AtMostOnePost
<1>1. Exclusive => AtMostOnePost
  BY DEF Exclusive
<1>2. QED
  BY <1>1, ExclusiveAlways, PTL

\* The ledger never goes back on a post.
THEOREM LedgerKeepsPosts ==
  ASSUME LeaseOutlivesHolder, SerialEnqueue
  PROVE  Spec => []LedgerNeverDeniesPost
<1>1. Exclusive => LedgerNeverDeniesPost
  BY DEF Exclusive
<1>2. QED
  BY <1>1, ExclusiveAlways, PTL

\* A command reported PUBLISHED has an attempt that is a post, and every command
\* is for the publication its key was reserved for.
THEOREM QueueAgrees ==
  ASSUME LeaseOutlivesHolder, SerialEnqueue
  PROVE  Spec => [](QueueAgreesWithLedger /\ QueuedAsReserved)
<1>1. Exclusive => QueueAgreesWithLedger /\ QueuedAsReserved
  BY DEF Exclusive
<1>2. QED
  BY <1>1, ExclusiveAlways, PTL

\* A step that changes an attempt finds it absent or in a status that is not
\* terminal.
LEMMA TerminalStep ==
  ASSUME TypeOK, Coherent, Exclusive, [Next]_vars,
         NEW k \in Keys, attempt[k] # None, attempt[k].status \in Terminal
  PROVE  attempt'[k] = attempt[k]
<1>1. CASE UNCHANGED attempt
  BY <1>1
<1>2. ASSUME NEW p \in Procs, Reserve(p) PROVE attempt'[k] = attempt[k]
  <2>1. attempt[cur[p]] = None
    BY <1>2 DEF Reserve, Goto, Exclusive, FreshCopy
  <2>2. QED
    BY <1>2, <2>1 DEF Reserve, saveAttempt, TypeOK
<1>3. ASSUME NEW p \in Procs, SaveDispatching(p) \/ SaveCandidate(p) \/ SaveFinal(p)
      PROVE  attempt'[k] = attempt[k]
  <2>1. attempt[cur[p]].status \notin Terminal
    BY <1>3
    DEF SaveDispatching, SaveCandidate, SaveFinal, SaveMine, Goto, Exclusive, FreshCopy, Terminal
  <2>2. k # cur[p]
    BY <2>1
  <2>3. QED
    BY <1>3, <2>2 DEF SaveDispatching, SaveCandidate, SaveFinal, SaveMine, saveAttempt, TypeOK
<1>4. ASSUME NEW p \in Apis, NEW j \in Keys, NEW m \in Members, NEW x \in Payloads, NEW later \in BOOLEAN,
             Request(p, j, m, x, later)
      PROVE  attempt'[k] = attempt[k]
  BY <1>1, <1>4 DEF Request
<1>5. ASSUME NEW p \in Procs, FirstRequest(p)
      PROVE  attempt'[k] = attempt[k]
  BY <1>1, <1>5 DEF FirstRequest
<1>6. ASSUME NEW p \in Procs, RepeatRequest(p)
      PROVE  attempt'[k] = attempt[k]
  BY <1>1, <1>6 DEF RepeatRequest
<1>7. ASSUME NEW p \in Procs, ConflictingRequest(p)
      PROVE  attempt'[k] = attempt[k]
  BY <1>1, <1>7 DEF ConflictingRequest
<1>8. ASSUME NEW p \in Procs, Reserve(p)
      PROVE  attempt'[k] = attempt[k]
  BY <1>2, <1>8
<1>9. ASSUME NEW p \in Procs, Enqueue(p)
      PROVE  attempt'[k] = attempt[k]
  BY <1>1, <1>9 DEF Enqueue
<1>10. ASSUME NEW p \in Procs, NEW S \in SUBSET Due, Claim(p, S)
      PROVE  attempt'[k] = attempt[k]
  BY <1>1, <1>10 DEF Claim
<1>11. ASSUME NEW p \in Procs, NEW j \in batch[p], NEW m \in Members,
             TakeCommand(p, j, m)
      PROVE  attempt'[k] = attempt[k]
  BY <1>1, <1>11 DEF TakeCommand
<1>12. ASSUME NEW p \in Procs, NEW j \in batch[p], RefuseCommand(p, j)
      PROVE  attempt'[k] = attempt[k]
  BY <1>1, <1>12 DEF RefuseCommand
<1>13. ASSUME NEW p \in Procs, ConflictingCommand(p)
      PROVE  attempt'[k] = attempt[k]
  BY <1>1, <1>13 DEF ConflictingCommand
<1>14. ASSUME NEW p \in Procs, ReplayAttempt(p)
      PROVE  attempt'[k] = attempt[k]
  BY <1>1, <1>14 DEF ReplayAttempt
<1>15. ASSUME NEW p \in Procs, ReconcileAttempt(p)
      PROVE  attempt'[k] = attempt[k]
  BY <1>1, <1>15 DEF ReconcileAttempt
<1>16. ASSUME NEW p \in Procs, PrepareDispatch(p)
      PROVE  attempt'[k] = attempt[k]
  BY <1>1, <1>16 DEF PrepareDispatch
<1>17. ASSUME NEW p \in Procs, SaveDispatching(p)
      PROVE  attempt'[k] = attempt[k]
  BY <1>3, <1>17
<1>18. ASSUME NEW p \in Procs, NEW h \in {201, 502, 0}, ShareAccepted(p, h)
      PROVE  attempt'[k] = attempt[k]
  BY <1>1, <1>18 DEF ShareAccepted, Created
<1>19. ASSUME NEW p \in Procs, NEW h \in {422, 429, 0}, ShareRefused(p, h)
      PROVE  attempt'[k] = attempt[k]
  BY <1>1, <1>19 DEF ShareRefused, Created
<1>20. ASSUME NEW p \in Procs, SaveCandidate(p)
      PROVE  attempt'[k] = attempt[k]
  BY <1>3, <1>20
<1>21. ASSUME NEW p \in Procs, NEW h \in {200, 403}, VerifyCreated(p, h)
      PROVE  attempt'[k] = attempt[k]
  BY <1>1, <1>21 DEF VerifyCreated
<1>22. ASSUME NEW p \in Procs, NEW h \in {200, 403}, VerifyExisting(p, h)
      PROVE  attempt'[k] = attempt[k]
  BY <1>1, <1>22 DEF VerifyExisting
<1>23. ASSUME NEW p \in Procs, SaveFinal(p)
      PROVE  attempt'[k] = attempt[k]
  BY <1>3, <1>23
<1>24. ASSUME NEW p \in Procs, CompletePublished(p)
      PROVE  attempt'[k] = attempt[k]
  BY <1>1, <1>24 DEF CompletePublished, Complete
<1>25. ASSUME NEW p \in Procs, CompleteFailed(p)
      PROVE  attempt'[k] = attempt[k]
  BY <1>1, <1>25 DEF CompleteFailed, Complete
<1>26. ASSUME NEW p \in Procs, CompleteRetry(p)
      PROVE  attempt'[k] = attempt[k]
  BY <1>1, <1>26 DEF CompleteRetry, Complete
<1>27. ASSUME NEW p \in Procs, Abort(p)
      PROVE  attempt'[k] = attempt[k]
  BY <1>1, <1>27 DEF Abort
<1>28. ASSUME NEW p \in Procs, Restart(p)
      PROVE  attempt'[k] = attempt[k]
  BY <1>1, <1>28 DEF Restart
<1>29. ASSUME NEW j \in Keys, LeaseExpires(j)
      PROVE  attempt'[k] = attempt[k]
  BY <1>1, <1>29 DEF LeaseExpires
<1>30. ASSUME NEW j \in Keys, BecomesDue(j)
      PROVE  attempt'[k] = attempt[k]
  BY <1>1, <1>30 DEF BecomesDue
<1>31. ASSUME NEW j \in Keys, NEW due \in BOOLEAN, Reschedule(j, due)
      PROVE  attempt'[k] = attempt[k]
  BY <1>1, <1>31 DEF Reschedule
<1>32. ASSUME NEW w \in Workspaces, NEW m \in Members, NEW cap \in {"read", "publish"},
             Connect(w, m, cap)
      PROVE  attempt'[k] = attempt[k]
  BY <1>1, <1>32 DEF Connect
<1>33. CASE UNCHANGED vars
  BY <1>1, <1>33 DEF vars
<1>34. QED
  BY <1>4, <1>5, <1>6, <1>7, <1>8, <1>9, <1>10, <1>11, <1>12, <1>13, <1>14, <1>15, <1>16,
     <1>17, <1>18, <1>19, <1>20, <1>21, <1>22, <1>23, <1>24, <1>25, <1>26, <1>27, <1>28, <1>29,
     <1>30, <1>31, <1>32, <1>33 DEF Next, ServeRequest, Dispatch, Environment

\* A step that changes the state of a command finds it pending or in process.
LEMMA VerdictStep ==
  ASSUME TypeOK, Coherent, Exclusive, [Next]_vars,
         NEW k \in Keys, outbox[k] # None, outbox[k].state \in {"PUBLISHED", "FAILED"}
  PROVE  outbox'[k].state = outbox[k].state
<1>1. CASE UNCHANGED outbox
  BY <1>1
<1>2. ASSUME NEW j \in Keys, NEW c, outbox' = [outbox EXCEPT ![j] = c], j # k
      PROVE  outbox'[k].state = outbox[k].state
  BY <1>2 DEF TypeOK
<1>3. ASSUME NEW p \in Procs, pc[p] \in Running
      PROVE  cur[p] \in Keys /\ outbox[cur[p]].state = "PROCESSING"
  BY <1>3, HeldFacts DEF Coherent, Exclusive, HeldIsLeased
<1>4. ASSUME NEW p \in Apis, NEW j \in Keys, NEW m \in Members, NEW x \in Payloads, NEW later \in BOOLEAN,
             Request(p, j, m, x, later)
      PROVE  outbox'[k].state = outbox[k].state
  BY <1>1, <1>4 DEF Request
<1>5. ASSUME NEW p \in Procs, FirstRequest(p)
      PROVE  outbox'[k].state = outbox[k].state
  BY <1>1, <1>5 DEF FirstRequest
<1>6. ASSUME NEW p \in Procs, RepeatRequest(p)
      PROVE  outbox'[k].state = outbox[k].state
  BY <1>1, <1>6 DEF RepeatRequest
<1>7. ASSUME NEW p \in Procs, ConflictingRequest(p)
      PROVE  outbox'[k].state = outbox[k].state
  BY <1>1, <1>7 DEF ConflictingRequest
<1>8. ASSUME NEW p \in Procs, Reserve(p)
      PROVE  outbox'[k].state = outbox[k].state
  BY <1>1, <1>8 DEF Reserve
<1>9. ASSUME NEW p \in Procs, Enqueue(p)
      PROVE  outbox'[k].state = outbox[k].state
  BY <1>9 DEF Enqueue, TypeOK
<1>10. ASSUME NEW p \in Procs, NEW S \in SUBSET Due, Claim(p, S)
      PROVE  outbox'[k].state = outbox[k].state
  BY <1>10 DEF Claim, Due, Open
<1>11. ASSUME NEW p \in Procs, NEW j \in batch[p], NEW m \in Members,
             TakeCommand(p, j, m)
      PROVE  outbox'[k].state = outbox[k].state
  BY <1>1, <1>11 DEF TakeCommand
<1>12. ASSUME NEW p \in Procs, NEW j \in batch[p], RefuseCommand(p, j)
      PROVE  outbox'[k].state = outbox[k].state
  BY <1>1, <1>12 DEF RefuseCommand
<1>13. ASSUME NEW p \in Procs, ConflictingCommand(p)
      PROVE  outbox'[k].state = outbox[k].state
  BY <1>1, <1>13 DEF ConflictingCommand
<1>14. ASSUME NEW p \in Procs, ReplayAttempt(p)
      PROVE  outbox'[k].state = outbox[k].state
  BY <1>1, <1>14 DEF ReplayAttempt
<1>15. ASSUME NEW p \in Procs, ReconcileAttempt(p)
      PROVE  outbox'[k].state = outbox[k].state
  BY <1>1, <1>15 DEF ReconcileAttempt
<1>16. ASSUME NEW p \in Procs, PrepareDispatch(p)
      PROVE  outbox'[k].state = outbox[k].state
  BY <1>1, <1>16 DEF PrepareDispatch
<1>17. ASSUME NEW p \in Procs, SaveDispatching(p)
      PROVE  outbox'[k].state = outbox[k].state
  BY <1>1, <1>17 DEF SaveDispatching, SaveMine
<1>18. ASSUME NEW p \in Procs, NEW h \in {201, 502, 0}, ShareAccepted(p, h)
      PROVE  outbox'[k].state = outbox[k].state
  BY <1>1, <1>18 DEF ShareAccepted, Created
<1>19. ASSUME NEW p \in Procs, NEW h \in {422, 429, 0}, ShareRefused(p, h)
      PROVE  outbox'[k].state = outbox[k].state
  BY <1>1, <1>19 DEF ShareRefused, Created
<1>20. ASSUME NEW p \in Procs, SaveCandidate(p)
      PROVE  outbox'[k].state = outbox[k].state
  BY <1>1, <1>20 DEF SaveCandidate, SaveMine
<1>21. ASSUME NEW p \in Procs, NEW h \in {200, 403}, VerifyCreated(p, h)
      PROVE  outbox'[k].state = outbox[k].state
  BY <1>1, <1>21 DEF VerifyCreated
<1>22. ASSUME NEW p \in Procs, NEW h \in {200, 403}, VerifyExisting(p, h)
      PROVE  outbox'[k].state = outbox[k].state
  BY <1>1, <1>22 DEF VerifyExisting
<1>23. ASSUME NEW p \in Procs, SaveFinal(p)
      PROVE  outbox'[k].state = outbox[k].state
  BY <1>1, <1>23 DEF SaveFinal, SaveMine
<1>24. ASSUME NEW p \in Procs, CompletePublished(p)
      PROVE  outbox'[k].state = outbox[k].state
  <2>1. cur[p] \in Keys /\ cur[p] # k
    BY <1>3, <1>24 DEF CompletePublished, Running
  <2>2. QED
    BY <1>2, <1>24, <2>1 DEF CompletePublished, Complete
<1>25. ASSUME NEW p \in Procs, CompleteFailed(p)
      PROVE  outbox'[k].state = outbox[k].state
  <2>1. cur[p] \in Keys /\ cur[p] # k
    BY <1>3, <1>25 DEF CompleteFailed, Running
  <2>2. QED
    BY <1>2, <1>25, <2>1 DEF CompleteFailed, Complete
<1>26. ASSUME NEW p \in Procs, CompleteRetry(p)
      PROVE  outbox'[k].state = outbox[k].state
  <2>1. cur[p] \in Keys /\ cur[p] # k
    BY <1>3, <1>26 DEF CompleteRetry, Running
  <2>2. QED
    BY <1>2, <1>26, <2>1 DEF CompleteRetry, Complete
<1>27. ASSUME NEW p \in Procs, Abort(p)
      PROVE  outbox'[k].state = outbox[k].state
  BY <1>1, <1>27 DEF Abort
<1>28. ASSUME NEW p \in Procs, Restart(p)
      PROVE  outbox'[k].state = outbox[k].state
  BY <1>1, <1>28 DEF Restart
<1>29. ASSUME NEW j \in Keys, LeaseExpires(j)
      PROVE  outbox'[k].state = outbox[k].state
  <2>1. CASE j = k
    BY <1>29, <2>1 DEF LeaseExpires, Open
  <2>2. CASE j # k
    BY <1>2, <1>29, <2>2 DEF LeaseExpires
  <2>3. QED BY <2>1, <2>2
<1>30. ASSUME NEW j \in Keys, BecomesDue(j)
      PROVE  outbox'[k].state = outbox[k].state
  <2>1. CASE j = k
    BY <1>30, <2>1 DEF BecomesDue, Open
  <2>2. CASE j # k
    BY <1>2, <1>30, <2>2 DEF BecomesDue
  <2>3. QED BY <2>1, <2>2
<1>31. ASSUME NEW j \in Keys, NEW due \in BOOLEAN, Reschedule(j, due)
      PROVE  outbox'[k].state = outbox[k].state
  <2>1. CASE j = k
    BY <1>31, <2>1 DEF Reschedule, Open
  <2>2. CASE j # k
    BY <1>2, <1>31, <2>2 DEF Reschedule
  <2>3. QED BY <2>1, <2>2
<1>32. ASSUME NEW w \in Workspaces, NEW m \in Members, NEW cap \in {"read", "publish"},
             Connect(w, m, cap)
      PROVE  outbox'[k].state = outbox[k].state
  BY <1>1, <1>32 DEF Connect
<1>33. CASE UNCHANGED vars
  BY <1>1, <1>33 DEF vars
<1>34. QED
  BY <1>4, <1>5, <1>6, <1>7, <1>8, <1>9, <1>10, <1>11, <1>12, <1>13, <1>14, <1>15, <1>16,
     <1>17, <1>18, <1>19, <1>20, <1>21, <1>22, <1>23, <1>24, <1>25, <1>26, <1>27, <1>28, <1>29,
     <1>30, <1>31, <1>32, <1>33 DEF Next, ServeRequest, Dispatch, Environment

\* A terminal attempt never changes again: decideIdempotency may replay it.
THEOREM TerminalForever ==
  ASSUME LeaseOutlivesHolder, SerialEnqueue
  PROVE  Spec => TerminalStays
<1>1. TypeOK /\ Coherent /\ Exclusive /\ [Next]_vars
        => [\A k \in Keys : attempt[k] # None /\ attempt[k].status \in Terminal
              => attempt'[k] = attempt[k]]_attempt
  BY TerminalStep
<1>2. QED
  BY <1>1, TypeCorrect, CoherentAlways, ExclusiveAlways, PTL DEF Spec, TerminalStays

\* A command once reported PUBLISHED or FAILED keeps that state.
THEOREM VerdictForever ==
  ASSUME LeaseOutlivesHolder, SerialEnqueue
  PROVE  Spec => VerdictStays
<1>1. TypeOK /\ Coherent /\ Exclusive /\ [Next]_vars
        => [\A k \in Keys : outbox[k] # None /\ outbox[k].state \in {"PUBLISHED", "FAILED"}
              => outbox'[k].state = outbox[k].state]_outbox
  BY VerdictStep
<1>2. QED
  BY <1>1, TypeCorrect, CoherentAlways, ExclusiveAlways, PTL DEF Spec, VerdictStays

=============================================================================
