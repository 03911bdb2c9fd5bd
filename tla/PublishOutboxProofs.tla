------------------------ MODULE PublishOutboxProofs ------------------------
(***************************************************************************)
(* What holds of the publication pipeline whatever races, dies or outlives *)
(* its lease: the types, and Coherent, by which the ledger and the queue   *)
(* tell no lie about what LinkedIn holds. Each is inductive: one lemma     *)
(* shows that every action of Next keeps it, the helpers before it say     *)
(* what the kinds of action do.                                            *)
(***************************************************************************)
EXTENDS PublishOutbox, TLAPS

\* What each answer of decideIdempotency says of the row it read: only a row
\* that is absent, or reserved for the same publication, may be dispatched.
LEMMA Decisions ==
  ASSUME NEW e, NEW f
  PROVE  /\ decideIdempotency(e, f) = "conflict" => e # None
         /\ decideIdempotency(e, f) = "replay" => e # None /\ e.fp = f /\ e.status \in Terminal
         /\ decideIdempotency(e, f) = "reconcile_only" =>
              e # None /\ e.fp = f /\ e.status \notin Terminal \cup {"RESERVED"}
         /\ decideIdempotency(e, f) \in {"reserve", "dispatch"} =>
              e = None \/ (e # None /\ e.fp = f /\ e.status = "RESERVED")
  BY DEF decideIdempotency

\* A create is read as a candidate only when it returned the id of the post.
LEMMA Observations ==
  ASSUME NEW h, NEW b \in BOOLEAN
  PROVE  /\ observeLinkedInCreate(h, b) \in {"candidate", "permanent_failure", "unknown_external_state"}
         /\ observeLinkedInCreate(h, b) = "candidate" => b
  BY DEF observeLinkedInCreate

\* A dispatch never ends in RESERVED or DISPATCHING, fails for good only on a
\* refusal, and keeps a post it has an id for.
LEMMA Finals ==
  ASSUME NEW c, NEW v
  PROVE  /\ finalizePublishStatus(c, v) \in AttemptStatuses \ {"RESERVED", "DISPATCHING"}
         /\ finalizePublishStatus(c, v) = "FAILED_PERMANENT" => c = "permanent_failure"
         /\ c = "candidate" => finalizePublishStatus(c, v) \in Posted
  BY DEF finalizePublishStatus, AttemptStatuses, Posted

\* Queue rows stay queue rows under every update the pipeline makes to one.
LEMMA CommandUpdates ==
  ASSUME NEW c \in Commands
  PROVE  /\ c # None /\ c.payload \in Payloads /\ c.state \in OutboxStates
         /\ c.count \in 0..MaxClaims /\ c.due \in BOOLEAN /\ c.locked \in BOOLEAN
         /\ \A s \in OutboxStates : [c EXCEPT !.state = s] \in Commands
         /\ \A b \in BOOLEAN : [c EXCEPT !.due = b] \in Commands
         /\ \A b \in BOOLEAN : [c EXCEPT !.locked = b] \in Commands
         /\ [c EXCEPT !.state = "PENDING", !.due = FALSE, !.locked = FALSE] \in Commands
         /\ c.count < MaxClaims =>
              [c EXCEPT !.state = "PROCESSING", !.count = c.count + 1, !.locked = TRUE] \in Commands
<1>1. c # None
  BY NoneAssumption
<1>2. /\ c.payload \in Payloads /\ c.state \in OutboxStates
      /\ c.count \in 0..MaxClaims /\ c.due \in BOOLEAN /\ c.locked \in BOOLEAN
  BY DEF Commands
<1>3. ASSUME NEW s \in OutboxStates PROVE [c EXCEPT !.state = s] \in Commands
  BY DEF Commands
<1>4. ASSUME NEW b \in BOOLEAN PROVE [c EXCEPT !.due = b] \in Commands
  BY DEF Commands
<1>5. ASSUME NEW b \in BOOLEAN PROVE [c EXCEPT !.locked = b] \in Commands
  BY DEF Commands
<1>6. [c EXCEPT !.state = "PENDING", !.due = FALSE, !.locked = FALSE] \in Commands
  BY DEF Commands, OutboxStates
<1>7. ASSUME c.count < MaxClaims
      PROVE  [c EXCEPT !.state = "PROCESSING", !.count = c.count + 1, !.locked = TRUE] \in Commands
  <2>1. c.count + 1 \in 0..MaxClaims
    BY <1>2, <1>7, OutboxAssumption
  <2>2. QED
    BY <2>1 DEF Commands, OutboxStates
<1>8. QED
  BY <1>1, <1>2, <1>3, <1>4, <1>5, <1>6, <1>7

\* Ledger rows stay ledger rows under every update the pipeline makes to one.
LEMMA AttemptUpdates ==
  ASSUME NEW a \in Attempts
  PROVE  /\ a # None /\ a.fp \in Fingerprints /\ a.status \in AttemptStatuses
         /\ a.post \in Posts \cup {None}
         /\ \A f \in Fingerprints : [a EXCEPT !.fp = f] \in Attempts
         /\ \A s \in AttemptStatuses : [a EXCEPT !.status = s] \in Attempts
         /\ \A s \in AttemptStatuses, x \in Posts \cup {None} :
              [a EXCEPT !.status = s, !.post = x] \in Attempts
  BY NoneAssumption DEF Attempts

\* A process that only replaces its own copy of the attempt (reads it, or learns
\* LinkedIn's answer) keeps the types.
LEMMA CopyStep ==
  ASSUME TypeOK, LocalsOK, NEW p \in Procs, NEW to \in WithCopy, NEW a \in Attempts,
         pc[p] \in WithCopy \cup {"read"}, pc' = [pc EXCEPT ![p] = to],
         mine' = [mine EXCEPT ![p] = a],
         UNCHANGED <<accounts, attempt, outbox, cur, request, batch, seen, who, aborts>>,
         shares' \subseteq Posts
  PROVE  (TypeOK /\ LocalsOK)'
<1>1. TypeOK'
  BY DEF TypeOK, Labels, Running, WithCopy
<1>2. LocalsOK'
  BY DEF TypeOK, LocalsOK, Running, WithCopy
<1>3. QED
  BY <1>1, <1>2

\* A change of one queue row from outside (a clock, the calendar) keeps the types.
LEMMA RowStep ==
  ASSUME TypeOK, LocalsOK, NEW k \in Keys, NEW c \in Commands,
         outbox' = [outbox EXCEPT ![k] = c],
         UNCHANGED <<accounts, attempt, shares, pc, locals, aborts>>
  PROVE  (TypeOK /\ LocalsOK)'
<1>1. TypeOK'
  BY DEF TypeOK, locals
<1>2. LocalsOK'
  BY DEF TypeOK, LocalsOK, locals
<1>3. QED
  BY <1>1, <1>2

\* outbox.complete and going on with the batch keep the types.
LEMMA CompleteStep ==
  ASSUME TypeOK, LocalsOK, NEW p \in Procs, NEW c \in Commands,
         pc[p] \in {"refuse", "complete"}, Complete(p, c)
  PROVE  (TypeOK /\ LocalsOK)'
<1>1. cur[p] \in Keys /\ cur[p] \in batch[p]
  BY DEF TypeOK, LocalsOK, Running
<1>2. TypeOK'
  BY <1>1, OutboxAssumption DEF TypeOK, Complete, Labels
<1>3. LocalsOK'
  BY <1>1 DEF TypeOK, LocalsOK, Complete, Running, WithCopy
<1>4. QED
  BY <1>2, <1>3

\* Saving a process's copy of the attempt keeps the types.
LEMMA SaveStep ==
  ASSUME TypeOK, LocalsOK, NEW p \in Procs, pc[p] \in WithCopy, NEW to \in WithCopy,
         SaveMine(p, pc[p], to)
  PROVE  (TypeOK /\ LocalsOK)'
<1>1. cur[p] \in Keys /\ mine[p] \in Attempts
  BY DEF TypeOK, LocalsOK, WithCopy, Running
<1>2. PICK a \in Attempts : attempt' = [attempt EXCEPT ![cur[p]] = a]
  BY <1>1, AttemptUpdates DEF SaveMine, saveAttempt, TypeOK
<1>3. TypeOK'
  BY <1>1, <1>2 DEF TypeOK, SaveMine, Goto, locals, WithCopy, Running, Labels
<1>4. LocalsOK'
  BY <1>1 DEF TypeOK, LocalsOK, SaveMine, Goto, locals, WithCopy, Running
<1>5. QED
  BY <1>3, <1>4

\* What a process that runs a command has in memory.
LEMMA HeldFacts ==
  ASSUME TypeOK, LocalsOK, NEW p \in Procs, pc[p] \in Running
  PROVE  /\ cur[p] \in Keys /\ cur[p] \in batch[p] /\ outbox[cur[p]] \in Commands
         /\ pc[p] # "refuse" => who[p] \in Members
         /\ pc[p] \in WithCopy => mine[p] \in Attempts
  BY DEF TypeOK, LocalsOK, Running

\* A create that LinkedIn accepts adds one post, of the key, the publisher and the
\* payload at hand; the caller learns its id or learns nothing.
LEMMA AcceptedPost ==
  ASSUME NEW p, NEW h \in {201, 502, 0}, ShareAccepted(p, h),
         cur[p] \in Keys, who[p] \in Members, outbox[cur[p]] \in Commands
  PROVE  \E post \in Posts, learnt \in Posts \cup {None} :
           /\ post.key = cur[p] /\ post.member = who[p] /\ post.payload = outbox[cur[p]].payload
           /\ learnt \in {post, None}
           /\ shares' = shares \cup {post} /\ Created(p, h, learnt)
<1>1. PICK n \in 1..MaxClaims :
        LET post == [key |-> cur[p], n |-> n, member |-> who[p], payload |-> outbox[cur[p]].payload]
        IN  /\ shares' = shares \cup {post}
            /\ Created(p, h, post) \/ Created(p, h, None)
  BY DEF ShareAccepted, FreshIds
<1> DEFINE post == [key |-> cur[p], n |-> n, member |-> who[p], payload |-> outbox[cur[p]].payload]
<1>2. post \in Posts
  BY CommandUpdates DEF Posts
<1>3. QED
  BY <1>1, <1>2

\* Every step of the pipeline keeps the types and what each process has in memory.
LEMMA TypeStep ==
  ASSUME TypeOK, LocalsOK, [Next]_vars
  PROVE  (TypeOK /\ LocalsOK)'
<1>1. ASSUME NEW p \in Apis, NEW k \in Keys, NEW m \in Members, NEW x \in Payloads, NEW later \in BOOLEAN,
             Request(p, k, m, x, later)
      PROVE  (TypeOK /\ LocalsOK)'
  <2>1. TypeOK'
    BY <1>1 DEF TypeOK, Labels, Request, Goto, Requests
  <2>2. LocalsOK'
    BY <1>1 DEF TypeOK, LocalsOK, Running, WithCopy, Request, Goto, Requests
  <2>3. QED BY <2>1, <2>2
<1>2. ASSUME NEW p \in Procs,
             FirstRequest(p)
      PROVE  (TypeOK /\ LocalsOK)'
  <2>1. TypeOK'
    BY <1>2 DEF TypeOK, Labels, FirstRequest, Goto, locals
  <2>2. LocalsOK'
    BY <1>2 DEF TypeOK, LocalsOK, Running, WithCopy, FirstRequest, Goto, locals
  <2>3. QED BY <2>1, <2>2
<1>3. ASSUME NEW p \in Procs,
             RepeatRequest(p)
      PROVE  (TypeOK /\ LocalsOK)'
  <2>1. TypeOK'
    BY <1>3 DEF TypeOK, Labels, RepeatRequest, Goto, locals
  <2>2. LocalsOK'
    BY <1>3 DEF TypeOK, LocalsOK, Running, WithCopy, RepeatRequest, Goto, locals
  <2>3. QED BY <2>1, <2>2
<1>4. ASSUME NEW p \in Procs,
             ConflictingRequest(p)
      PROVE  (TypeOK /\ LocalsOK)'
  <2>1. TypeOK'
    BY <1>4, OutboxAssumption DEF TypeOK, Labels, ConflictingRequest, Forget
  <2>2. LocalsOK'
    BY <1>4 DEF TypeOK, LocalsOK, Running, WithCopy, ConflictingRequest, Forget
  <2>3. QED BY <2>1, <2>2
<1>5. ASSUME NEW p \in Procs,
             Reserve(p)
      PROVE  (TypeOK /\ LocalsOK)'
  <2>1. TypeOK'
    BY <1>5, NoneAssumption DEF TypeOK, LocalsOK, Labels, Reserve, Goto, saveAttempt, locals, Fingerprints, Attempts, Requests, AttemptStatuses
  <2>2. LocalsOK'
    BY <1>5 DEF TypeOK, LocalsOK, Running, WithCopy, Reserve, Goto, saveAttempt, locals
  <2>3. QED BY <2>1, <2>2
<1>6. ASSUME NEW p \in Procs,
             Enqueue(p)
      PROVE  (TypeOK /\ LocalsOK)'
  <2>1. TypeOK'
    BY <1>6, OutboxAssumption DEF TypeOK, Labels, Enqueue, Forget, LocalsOK, Commands, Requests, OutboxStates
  <2>2. LocalsOK'
    BY <1>6, NoneAssumption DEF TypeOK, LocalsOK, Running, WithCopy, Enqueue, Forget, Commands, Requests, OutboxStates
  <2>3. QED BY <2>1, <2>2
<1>7. ASSUME NEW p \in Procs, NEW S \in SUBSET Due,
             Claim(p, S)
      PROVE  (TypeOK /\ LocalsOK)'
  <2>1. \A c \in S : outbox[c] \in Commands /\ outbox[c].count < MaxClaims
    BY <1>7, NoneAssumption DEF TypeOK, Due, Open
  <2>2. ASSUME NEW c \in S
        PROVE  /\ outbox[c].count + 1 \in 0..MaxClaims
               /\ [outbox[c] EXCEPT !.state = "PROCESSING",
                     !.count = outbox[c].count + 1, !.locked = TRUE] \in Commands
    <3>1. outbox[c] \in Commands /\ outbox[c].count < MaxClaims /\ outbox[c].count \in 0..MaxClaims
      BY <2>1, CommandUpdates
    <3>2. outbox[c].count + 1 \in 0..MaxClaims
      BY <3>1, OutboxAssumption
    <3>3. QED
      BY <3>1, <3>2, CommandUpdates
  <2>3. S \subseteq Keys
    BY <1>7 DEF Due
  <2>4. outbox' \in [Keys -> Commands \cup {None}] /\ \A c \in Keys : outbox[c] # None => outbox'[c] # None
    BY <1>7, <2>2, <2>3, CommandUpdates DEF TypeOK, Claim
  <2>5. seen' \in [Procs -> [Keys -> 0..MaxClaims]]
    <3>1. [c \in Keys |-> IF c \in S THEN outbox[c].count + 1 ELSE 0] \in [Keys -> 0..MaxClaims]
      <4>1. 0 \in 0..MaxClaims
        BY OutboxAssumption
      <4>2. QED
        BY <2>2, <4>1
    <3>2. QED
      BY <1>7, <3>1 DEF TypeOK, Claim
  <2>6. TypeOK'
    BY <1>7, <2>3, <2>4, <2>5 DEF TypeOK, Claim, Labels
  <2>7. LocalsOK'
    BY <1>7, <2>2, <2>3, <2>4 DEF TypeOK, LocalsOK, Claim, Running, WithCopy
  <2>8. QED BY <2>6, <2>7
<1>8. ASSUME NEW p \in Procs, NEW k \in batch[p], NEW m \in Members,
             TakeCommand(p, k, m)
      PROVE  (TypeOK /\ LocalsOK)'
  <2>1. TypeOK'
    BY <1>8 DEF TypeOK, Labels, TakeCommand, Goto
  <2>2. LocalsOK'
    BY <1>8 DEF TypeOK, LocalsOK, Running, WithCopy, TakeCommand, Goto
  <2>3. QED BY <2>1, <2>2
<1>9. ASSUME NEW p \in Procs, NEW k \in batch[p],
             RefuseCommand(p, k)
      PROVE  (TypeOK /\ LocalsOK)'
  <2>1. TypeOK'
    BY <1>9 DEF TypeOK, Labels, RefuseCommand, Goto
  <2>2. LocalsOK'
    BY <1>9 DEF TypeOK, LocalsOK, Running, WithCopy, RefuseCommand, Goto
  <2>3. QED BY <2>1, <2>2
<1>10. ASSUME NEW p \in Procs,
             ConflictingCommand(p)
      PROVE  (TypeOK /\ LocalsOK)'
  <2>1. TypeOK'
    BY <1>10 DEF TypeOK, Labels, ConflictingCommand, Goto, locals
  <2>2. LocalsOK'
    BY <1>10 DEF TypeOK, LocalsOK, Running, WithCopy, ConflictingCommand, Goto, locals
  <2>3. QED BY <2>1, <2>2
<1>11. ASSUME NEW p \in Procs,
             ReplayAttempt(p)
      PROVE  (TypeOK /\ LocalsOK)'
  <2>1. pc[p] = "read" /\ pc[p] \in Running
    BY <1>11 DEF ReplayAttempt, Goto, Running
  <2>2. attempt[cur[p]] \in Attempts
    BY <1>11, <2>1, HeldFacts, Decisions DEF ReplayAttempt, Decision, TypeOK
  <2>3. QED
    BY <1>11, <2>1, <2>2, CopyStep DEF ReplayAttempt, Goto, WithCopy, Running, TypeOK
<1>12. ASSUME NEW p \in Procs,
             ReconcileAttempt(p)
      PROVE  (TypeOK /\ LocalsOK)'
  <2>1. pc[p] = "read" /\ pc[p] \in Running
    BY <1>12 DEF ReconcileAttempt, Goto, Running
  <2>2. attempt[cur[p]] \in Attempts
    BY <1>12, <2>1, HeldFacts, Decisions DEF ReconcileAttempt, Decision, TypeOK
  <2>3. QED
    <3>1. \/ pc' = [pc EXCEPT ![p] = "complete"]
          \/ pc' = [pc EXCEPT ![p] = "verifyExisting"]
      BY <1>12 DEF ReconcileAttempt, Goto
    <3>2. /\ "complete" \in WithCopy /\ "verifyExisting" \in WithCopy
          /\ shares' \subseteq Posts
      BY <1>12 DEF WithCopy, Running, ReconcileAttempt, TypeOK
    <3>3. QED
      BY <1>12, <2>1, <2>2, <3>1, <3>2, CopyStep DEF ReconcileAttempt
<1>13. ASSUME NEW p \in Procs,
             PrepareDispatch(p)
      PROVE  (TypeOK /\ LocalsOK)'
  <2>1. pc[p] = "read" /\ pc[p] \in Running /\ pc[p] \notin WithCopy
    BY <1>13 DEF PrepareDispatch, Goto, Running, WithCopy
  <2>2. cur[p] \in Keys /\ who[p] \in Members /\ outbox[cur[p]] \in Commands
    BY <2>1, HeldFacts
  <2>3. PICK a \in Attempts : mine' = [mine EXCEPT ![p] = a]
    <3>1. CASE attempt[cur[p]] = None
      <4>1. outbox[cur[p]].payload \in Payloads
        BY <2>2, CommandUpdates
      <4>2. [fp |-> <<who[p], outbox[cur[p]].payload>>, status |-> "DISPATCHING", post |-> None]
              \in Attempts
        BY <2>2, <4>1 DEF Attempts, Fingerprints, AttemptStatuses
      <4>3. QED
        BY <1>13, <3>1, <4>2 DEF PrepareDispatch
    <3>2. CASE attempt[cur[p]] # None
      BY <1>13, <2>2, <3>2, AttemptUpdates DEF PrepareDispatch, TypeOK, AttemptStatuses
    <3>3. QED BY <3>1, <3>2
  <2>4. QED
    BY <1>13, <2>1, <2>3, CopyStep DEF PrepareDispatch, Goto, WithCopy, Running, TypeOK
<1>14. ASSUME NEW p \in Procs,
             SaveDispatching(p)
      PROVE  (TypeOK /\ LocalsOK)'
  BY <1>14, SaveStep DEF SaveDispatching, SaveMine, Goto, WithCopy, Running
<1>15. ASSUME NEW p \in Procs, NEW h \in {201, 502, 0},
             ShareAccepted(p, h)
      PROVE  (TypeOK /\ LocalsOK)'
  <2>1. pc[p] = "create" /\ pc[p] \in WithCopy
    BY <1>15 DEF ShareAccepted, WithCopy, Running
  <2>2. /\ mine[p] \in Attempts /\ cur[p] \in Keys /\ who[p] \in Members
        /\ outbox[cur[p]] \in Commands
    BY <2>1, HeldFacts DEF WithCopy
  <2>3. PICK post \in Posts, learnt \in Posts \cup {None} :
          shares' = shares \cup {post} /\ Created(p, h, learnt)
    BY <1>15, <2>2, AcceptedPost
  <2>4. shares' \subseteq Posts /\ learnt \in Posts \cup {None}
    BY <2>3 DEF TypeOK
  <2>5. AfterCreate(mine[p], h, learnt) \in Attempts
    BY <2>2, Observations, Finals, AttemptUpdates DEF AfterCreate
  <2>6. QED
    BY <2>1, <2>3, <2>4, <2>5, CopyStep DEF Created, Goto, WithCopy, Running
<1>16. ASSUME NEW p \in Procs, NEW h \in {422, 429, 0},
             ShareRefused(p, h)
      PROVE  (TypeOK /\ LocalsOK)'
  <2>1. pc[p] = "create" /\ pc[p] \in WithCopy
    BY <1>16 DEF ShareRefused, Created, Goto, WithCopy, Running
  <2>2. mine[p] \in Attempts
    BY <2>1, HeldFacts DEF WithCopy
  <2>3. AfterCreate(mine[p], h, None) \in Attempts
    BY <2>2, Observations, Finals, AttemptUpdates DEF AfterCreate
  <2>4. QED
    BY <1>16, <2>1, <2>3, CopyStep DEF ShareRefused, Created, Goto, WithCopy, Running, TypeOK
<1>17. ASSUME NEW p \in Procs,
             SaveCandidate(p)
      PROVE  (TypeOK /\ LocalsOK)'
  BY <1>17, SaveStep DEF SaveCandidate, SaveMine, Goto, WithCopy, Running
<1>18. ASSUME NEW p \in Procs, NEW h \in {200, 403},
             VerifyCreated(p, h)
      PROVE  (TypeOK /\ LocalsOK)'
  <2>1. pc[p] = "verify" /\ pc[p] \in WithCopy
    BY <1>18 DEF VerifyCreated, Goto, WithCopy, Running
  <2>2. mine[p] \in Attempts
    BY <2>1, HeldFacts DEF WithCopy
  <2>3. PICK a \in Attempts : mine' = [mine EXCEPT ![p] = a]
    <3>1. finalizePublishStatus("candidate", observeLinkedInVerify(h)) \in AttemptStatuses
      BY Finals
    <3>2. [mine[p] EXCEPT !.status = finalizePublishStatus("candidate", observeLinkedInVerify(h))]
            \in Attempts
      BY <2>2, <3>1 DEF Attempts
    <3>3. QED
      BY <1>18, <3>2 DEF VerifyCreated
  <2>4. QED
    <3>1. PICK to \in WithCopy : pc' = [pc EXCEPT ![p] = to]
      BY <1>18 DEF VerifyCreated, Goto, WithCopy, Running
    <3>2. shares' \subseteq Posts
      BY <1>18 DEF VerifyCreated, TypeOK
    <3>3. QED
      BY <1>18, <2>1, <2>3, <3>1, <3>2, CopyStep DEF VerifyCreated
<1>19. ASSUME NEW p \in Procs, NEW h \in {200, 403},
             VerifyExisting(p, h)
      PROVE  (TypeOK /\ LocalsOK)'
  <2>1. pc[p] = "verifyExisting" /\ pc[p] \in WithCopy
    BY <1>19 DEF VerifyExisting, Goto, WithCopy, Running
  <2>2. mine[p] \in Attempts
    BY <2>1, HeldFacts DEF WithCopy
  <2>3. PICK a \in Attempts : mine' = [mine EXCEPT ![p] = a]
    <3>1. [mine[p] EXCEPT !.status = "SUCCEEDED"] \in Attempts
      <4>1. "SUCCEEDED" \in AttemptStatuses
        BY DEF AttemptStatuses
      <4>2. QED
        BY <2>2, <4>1 DEF Attempts
    <3>2. mine = [mine EXCEPT ![p] = mine[p]]
      BY DEF TypeOK
    <3>3. QED
      BY <1>19, <2>2, <3>1, <3>2 DEF VerifyExisting
  <2>4. QED
    <3>1. \/ pc' = [pc EXCEPT ![p] = "complete"]
          \/ pc' = [pc EXCEPT ![p] = "saveFinal"]
      BY <1>19 DEF VerifyExisting, Goto
    <3>2. /\ "complete" \in WithCopy /\ "saveFinal" \in WithCopy
          /\ shares' \subseteq Posts
      BY <1>19 DEF WithCopy, Running, VerifyExisting, TypeOK
    <3>3. UNCHANGED <<accounts, attempt, outbox, cur, request, batch, seen, who, aborts>>
      BY <1>19 DEF VerifyExisting
    <3>4. PICK to \in WithCopy : pc' = [pc EXCEPT ![p] = to]
      BY <3>1, <3>2
    <3>5. shares' \subseteq Posts
      BY <3>2
    <3>6. QED
      BY <2>1, <2>3, <3>3, <3>4, <3>5, CopyStep
<1>20. ASSUME NEW p \in Procs,
             SaveFinal(p)
      PROVE  (TypeOK /\ LocalsOK)'
  BY <1>20, SaveStep DEF SaveFinal, SaveMine, Goto, WithCopy, Running
<1>21. ASSUME NEW p \in Procs,
             CompletePublished(p)
      PROVE  (TypeOK /\ LocalsOK)'
  <2>1. pc[p] \in {"refuse", "complete"} /\ pc[p] \in Running
    BY <1>21 DEF CompletePublished, Running
  <2>2. [outbox[cur[p]] EXCEPT !.state = "PUBLISHED"] \in Commands
    BY <2>1, HeldFacts, CommandUpdates DEF OutboxStates
  <2>3. QED
    BY <1>21, <2>1, <2>2, CompleteStep DEF CompletePublished
<1>22. ASSUME NEW p \in Procs,
             CompleteFailed(p)
      PROVE  (TypeOK /\ LocalsOK)'
  <2>1. pc[p] \in {"refuse", "complete"} /\ pc[p] \in Running
    BY <1>22 DEF CompleteFailed, Running
  <2>2. [outbox[cur[p]] EXCEPT !.state = "FAILED"] \in Commands
    BY <2>1, HeldFacts, CommandUpdates DEF OutboxStates
  <2>3. QED
    BY <1>22, <2>1, <2>2, CompleteStep DEF CompleteFailed
<1>23. ASSUME NEW p \in Procs,
             CompleteRetry(p)
      PROVE  (TypeOK /\ LocalsOK)'
  <2>1. pc[p] \in {"refuse", "complete"} /\ pc[p] \in Running
    BY <1>23 DEF CompleteRetry, Running
  <2>2. [outbox[cur[p]] EXCEPT !.state = "PENDING", !.due = FALSE, !.locked = FALSE] \in Commands
    BY <2>1, HeldFacts, CommandUpdates DEF OutboxStates
  <2>3. QED
    BY <1>23, <2>1, <2>2, CompleteStep DEF CompleteRetry
<1>24. ASSUME NEW p \in Procs,
             Abort(p)
      PROVE  (TypeOK /\ LocalsOK)'
  <2>1. TypeOK'
    BY <1>24, OutboxAssumption DEF TypeOK, Labels, Abort, Forget, Procs
  <2>2. LocalsOK'
    BY <1>24 DEF TypeOK, LocalsOK, Running, WithCopy, Abort, Forget
  <2>3. QED BY <2>1, <2>2
<1>25. ASSUME NEW p \in Procs,
             Restart(p)
      PROVE  (TypeOK /\ LocalsOK)'
  <2>1. TypeOK'
    BY <1>25 DEF TypeOK, Labels, Restart, Goto, locals
  <2>2. LocalsOK'
    BY <1>25 DEF TypeOK, LocalsOK, Running, WithCopy, Restart, Goto, locals
  <2>3. QED BY <2>1, <2>2
<1>26. ASSUME NEW k \in Keys,
             LeaseExpires(k)
      PROVE  (TypeOK /\ LocalsOK)'
  <2>1. [outbox[k] EXCEPT !.locked = FALSE] \in Commands
    BY <1>26, CommandUpdates, NoneAssumption DEF LeaseExpires, Open, TypeOK
  <2>2. QED
    BY <1>26, <2>1, RowStep DEF LeaseExpires
<1>27. ASSUME NEW k \in Keys,
             BecomesDue(k)
      PROVE  (TypeOK /\ LocalsOK)'
  <2>1. [outbox[k] EXCEPT !.due = TRUE] \in Commands
    BY <1>27, CommandUpdates, NoneAssumption DEF BecomesDue, Open, TypeOK
  <2>2. QED
    BY <1>27, <2>1, RowStep DEF BecomesDue
<1>28. ASSUME NEW k \in Keys, NEW due \in BOOLEAN,
             Reschedule(k, due)
      PROVE  (TypeOK /\ LocalsOK)'
  <2>1. [outbox[k] EXCEPT !.due = due] \in Commands
    BY <1>28, CommandUpdates, NoneAssumption DEF Reschedule, Open, TypeOK
  <2>2. QED
    BY <1>28, <2>1, RowStep DEF Reschedule
<1>29. ASSUME NEW w \in Workspaces, NEW m \in Members, NEW cap \in {"read", "publish"},
             Connect(w, m, cap)
      PROVE  (TypeOK /\ LocalsOK)'
  <2>1. TypeOK'
    BY <1>29 DEF TypeOK, Labels, Connect, locals
  <2>2. LocalsOK'
    BY <1>29 DEF TypeOK, LocalsOK, Running, WithCopy, Connect, locals
  <2>3. QED BY <2>1, <2>2
<1>30. CASE UNCHANGED vars
  BY <1>30 DEF vars, locals, TypeOK, LocalsOK
<1>31. QED
  BY <1>1, <1>2, <1>3, <1>4, <1>5, <1>6, <1>7, <1>8, <1>9, <1>10, <1>11, <1>12, <1>13, <1>14, <1>15, <1>16, <1>17, <1>18, <1>19, <1>20, <1>21, <1>22, <1>23, <1>24, <1>25, <1>26, <1>27, <1>28, <1>29, <1>30 DEF Next, ServeRequest, Dispatch, Environment

\* An empty pipeline, with every process idle, has its types.
LEMMA TypeInit == Init => TypeOK /\ LocalsOK
<1>1. 0 \in 0..MaxClaims /\ 0 \in 0..MaxAborts
  BY OutboxAssumption
<1>2. Init => TypeOK
  BY <1>1 DEF Init, TypeOK, Labels
<1>3. Init => LocalsOK
  BY DEF Init, LocalsOK, Running, WithCopy
<1>4. QED
  BY <1>2, <1>3

\* The specification never leaves the types of its variables, and a process has
\* in memory what the point it stands at needs.
THEOREM TypeCorrect == Spec => [](TypeOK /\ LocalsOK)
<1>1. Init => TypeOK /\ LocalsOK
  BY TypeInit
<1>2. TypeOK /\ LocalsOK /\ [Next]_vars => (TypeOK /\ LocalsOK)'
  BY TypeStep
<1>3. QED
  BY <1>1, <1>2, PTL DEF Spec

-----------------------------------------------------------------------------
(* Whatever races: Coherent is inductive. *)

\* No step forgets a post, a ledger row or a command, changes the fingerprint
\* of a row or the payload of a command.
Grows ==
  /\ shares \subseteq shares'
  /\ \A k \in Keys : attempt[k] # None => attempt'[k] # None /\ attempt'[k].fp = attempt[k].fp
  /\ \A k \in Keys : outbox[k] # None => outbox'[k] # None /\ outbox'[k].payload = outbox[k].payload

\* An upsert stores what it is given, except for the fingerprint of a row that
\* was there.
LEMMA Saved ==
  ASSUME TypeOK, NEW k \in Keys, NEW a \in Attempts, saveAttempt(k, a)
  PROVE  \E b \in Attempts :
           /\ attempt' = [attempt EXCEPT ![k] = b]
           /\ b.status = a.status /\ b.post = a.post
           /\ b.fp = IF attempt[k] = None THEN a.fp ELSE attempt[k].fp
<1>1. CASE attempt[k] = None
  BY <1>1 DEF saveAttempt
<1>2. CASE attempt[k] # None
  <2> DEFINE b == [a EXCEPT !.fp = attempt[k].fp]
  <2>1. attempt[k].fp \in Fingerprints
    BY <1>2, AttemptUpdates DEF TypeOK
  <2>2. b \in Attempts /\ b.status = a.status /\ b.post = a.post /\ b.fp = attempt[k].fp
    BY <2>1 DEF Attempts
  <2>3. attempt' = [attempt EXCEPT ![k] = b]
    BY <1>2 DEF saveAttempt
  <2>4. QED
    BY <1>2, <2>2, <2>3
<1>3. QED
  BY <1>1, <1>2

\* An upsert of the ledger only adds rows, and keeps the fingerprints of those there.
LEMMA SaveGrows ==
  ASSUME TypeOK, NEW k \in Keys, NEW a \in Attempts, saveAttempt(k, a),
         UNCHANGED <<shares, outbox>>
  PROVE  Grows
<1>1. PICK b \in Attempts :
        /\ attempt' = [attempt EXCEPT ![k] = b]
        /\ attempt[k] # None => b.fp = attempt[k].fp
  BY Saved
<1>2. b # None
  BY AttemptUpdates
<1>3. QED
  BY <1>1, <1>2 DEF Grows, TypeOK

\* Every step, with the rows of other keys and settled columns as they were.
LEMMA StepGrows ==
  ASSUME TypeOK, LocalsOK, [Next]_vars
  PROVE  Grows
<1>1. ASSUME UNCHANGED <<attempt, outbox, shares>> PROVE Grows
  BY <1>1 DEF Grows
<1>2. ASSUME NEW p \in Procs, Reserve(p) PROVE Grows
  <2>1. cur[p] \in Keys /\ who[p] \in Members /\ request[p].payload \in Payloads
    BY <1>2 DEF Reserve, Goto, LocalsOK, Requests
  <2>2. [fp |-> <<who[p], request[p].payload>>, status |-> "RESERVED", post |-> None] \in Attempts
    BY <2>1 DEF Attempts, Fingerprints, AttemptStatuses
  <2>3. QED
    BY <1>2, <2>1, <2>2, SaveGrows DEF Reserve
<1>3. ASSUME NEW p \in Procs, pc[p] \in WithCopy, NEW from, NEW to, SaveMine(p, from, to)
      PROVE  Grows
  <2>1. cur[p] \in Keys /\ mine[p] \in Attempts
    BY <1>3, HeldFacts DEF WithCopy
  <2>2. QED
    BY <1>3, <2>1, SaveGrows DEF SaveMine
<1>4. ASSUME NEW k \in Keys, NEW c \in Commands, outbox' = [outbox EXCEPT ![k] = c],
             outbox[k] # None => c.payload = outbox[k].payload,
             UNCHANGED <<attempt, shares>>
      PROVE  Grows
  <2>1. c # None
    BY CommandUpdates
  <2>2. ASSUME NEW j \in Keys, outbox[j] # None
        PROVE  outbox'[j] # None /\ outbox'[j].payload = outbox[j].payload
    BY <1>4, <2>1, <2>2 DEF TypeOK
  <2>3. QED
    BY <1>4, <2>2 DEF Grows
<1>5. ASSUME NEW p \in Apis, NEW k \in Keys, NEW m \in Members, NEW x \in Payloads, NEW later \in BOOLEAN,
             Request(p, k, m, x, later)
      PROVE  Grows
  BY <1>1, <1>5 DEF Request
<1>6. ASSUME NEW p \in Procs, FirstRequest(p)
      PROVE  Grows
  BY <1>1, <1>6 DEF FirstRequest
<1>7. ASSUME NEW p \in Procs, RepeatRequest(p)
      PROVE  Grows
  BY <1>1, <1>7 DEF RepeatRequest
<1>8. ASSUME NEW p \in Procs, ConflictingRequest(p)
      PROVE  Grows
  BY <1>1, <1>8 DEF ConflictingRequest
<1>9. ASSUME NEW p \in Procs, Reserve(p)
      PROVE  Grows
  BY <1>2, <1>9
<1>10. ASSUME NEW p \in Procs, Enqueue(p)
      PROVE  Grows
  <2>1. cur[p] \in Keys /\ request[p] \in Requests
    BY <1>10 DEF Enqueue, LocalsOK
  <2>2. CASE outbox[cur[p]] # None
    BY <1>1, <1>10, <2>2 DEF Enqueue, TypeOK
  <2>3. CASE outbox[cur[p]] = None
    <3>1. [payload |-> request[p].payload, state |-> "PENDING", count |-> 0,
           due |-> ~request[p].later, locked |-> FALSE] \in Commands
      <4>1. 0 \in 0..MaxClaims
        BY OutboxAssumption
      <4>2. QED
        BY <2>1, <4>1 DEF Commands, OutboxStates, Requests
    <3>2. QED
      BY <1>10, <1>4, <2>1, <2>3, <3>1 DEF Enqueue
  <2>4. QED BY <2>2, <2>3
<1>11. ASSUME NEW p \in Procs, NEW S \in SUBSET Due, Claim(p, S)
      PROVE  Grows
  <2>1. ASSUME NEW k \in Keys, outbox[k] # None
        PROVE  outbox'[k] # None /\ outbox'[k].payload = outbox[k].payload
    <3>1. CASE k \notin S
      BY <1>11, <2>1, <3>1 DEF Claim
    <3>2. CASE k \in S
      <4>1. outbox[k] \in Commands /\ outbox[k].count < MaxClaims
        BY <1>11, <2>1, <3>2 DEF TypeOK, Due
      <4>2. outbox'[k] \in Commands
        BY <1>11, <3>2, <4>1, CommandUpdates DEF Claim
      <4>3. outbox'[k].payload = outbox[k].payload
        BY <1>11, <3>2, <4>1 DEF Claim, Commands
      <4>4. QED
        BY <4>2, <4>3, CommandUpdates
    <3>3. QED BY <3>1, <3>2
  <2>2. QED
    BY <1>11, <2>1 DEF Claim, Grows
<1>12. ASSUME NEW p \in Procs, NEW k \in batch[p], NEW m \in Members,
             TakeCommand(p, k, m)
      PROVE  Grows
  BY <1>1, <1>12 DEF TakeCommand
<1>13. ASSUME NEW p \in Procs, NEW k \in batch[p], RefuseCommand(p, k)
      PROVE  Grows
  BY <1>1, <1>13 DEF RefuseCommand
<1>14. ASSUME NEW p \in Procs, ConflictingCommand(p)
      PROVE  Grows
  BY <1>1, <1>14 DEF ConflictingCommand
<1>15. ASSUME NEW p \in Procs, ReplayAttempt(p)
      PROVE  Grows
  BY <1>1, <1>15 DEF ReplayAttempt
<1>16. ASSUME NEW p \in Procs, ReconcileAttempt(p)
      PROVE  Grows
  BY <1>1, <1>16 DEF ReconcileAttempt
<1>17. ASSUME NEW p \in Procs, PrepareDispatch(p)
      PROVE  Grows
  BY <1>1, <1>17 DEF PrepareDispatch
<1>18. ASSUME NEW p \in Procs, SaveDispatching(p)
      PROVE  Grows
  BY <1>3, <1>18 DEF SaveDispatching, SaveMine, Goto, WithCopy, Running
<1>19. ASSUME NEW p \in Procs, NEW h \in {201, 502, 0}, ShareAccepted(p, h)
      PROVE  Grows
  BY <1>19 DEF ShareAccepted, Created, Grows
<1>20. ASSUME NEW p \in Procs, NEW h \in {422, 429, 0}, ShareRefused(p, h)
      PROVE  Grows
  BY <1>1, <1>20 DEF ShareRefused, Created
<1>21. ASSUME NEW p \in Procs, SaveCandidate(p)
      PROVE  Grows
  BY <1>3, <1>21 DEF SaveCandidate, SaveMine, Goto, WithCopy, Running
<1>22. ASSUME NEW p \in Procs, NEW h \in {200, 403}, VerifyCreated(p, h)
      PROVE  Grows
  BY <1>1, <1>22 DEF VerifyCreated
<1>23. ASSUME NEW p \in Procs, NEW h \in {200, 403}, VerifyExisting(p, h)
      PROVE  Grows
  BY <1>1, <1>23 DEF VerifyExisting
<1>24. ASSUME NEW p \in Procs, SaveFinal(p)
      PROVE  Grows
  BY <1>3, <1>24 DEF SaveFinal, SaveMine, Goto, WithCopy, Running
<1>25. ASSUME NEW p \in Procs, CompletePublished(p)
      PROVE  Grows
  <2> DEFINE c == [outbox[cur[p]] EXCEPT !.state = "PUBLISHED"]
  <2>1. cur[p] \in Keys /\ outbox[cur[p]] \in Commands
    BY <1>25, HeldFacts DEF CompletePublished, Running
  <2>2. c \in Commands /\ c.payload = outbox[cur[p]].payload
    BY <2>1 DEF Commands, OutboxStates
  <2>3. QED
    BY <1>25, <1>4, <2>1, <2>2 DEF CompletePublished, Complete
<1>26. ASSUME NEW p \in Procs, CompleteFailed(p)
      PROVE  Grows
  <2> DEFINE c == [outbox[cur[p]] EXCEPT !.state = "FAILED"]
  <2>1. cur[p] \in Keys /\ outbox[cur[p]] \in Commands
    BY <1>26, HeldFacts DEF CompleteFailed, Running
  <2>2. c \in Commands /\ c.payload = outbox[cur[p]].payload
    BY <2>1 DEF Commands, OutboxStates
  <2>3. QED
    BY <1>26, <1>4, <2>1, <2>2 DEF CompleteFailed, Complete
<1>27. ASSUME NEW p \in Procs, CompleteRetry(p)
      PROVE  Grows
  <2> DEFINE c == [outbox[cur[p]] EXCEPT !.state = "PENDING", !.due = FALSE, !.locked = FALSE]
  <2>1. cur[p] \in Keys /\ outbox[cur[p]] \in Commands
    BY <1>27, HeldFacts DEF CompleteRetry, Running
  <2>2. c \in Commands /\ c.payload = outbox[cur[p]].payload
    BY <2>1 DEF Commands, OutboxStates
  <2>3. QED
    BY <1>27, <1>4, <2>1, <2>2 DEF CompleteRetry, Complete
<1>28. ASSUME NEW p \in Procs, Abort(p)
      PROVE  Grows
  BY <1>1, <1>28 DEF Abort
<1>29. ASSUME NEW p \in Procs, Restart(p)
      PROVE  Grows
  BY <1>1, <1>29 DEF Restart
<1>30. ASSUME NEW k \in Keys, LeaseExpires(k)
      PROVE  Grows
  <2> DEFINE c == [outbox[k] EXCEPT !.locked = FALSE]
  <2>1. outbox[k] \in Commands
    BY <1>30 DEF LeaseExpires, Open, TypeOK
  <2>2. c \in Commands /\ c.payload = outbox[k].payload
    BY <2>1 DEF Commands
  <2>3. QED
    BY <1>30, <1>4, <2>1, <2>2 DEF LeaseExpires
<1>31. ASSUME NEW k \in Keys, BecomesDue(k)
      PROVE  Grows
  <2> DEFINE c == [outbox[k] EXCEPT !.due = TRUE]
  <2>1. outbox[k] \in Commands
    BY <1>31 DEF BecomesDue, Open, TypeOK
  <2>2. c \in Commands /\ c.payload = outbox[k].payload
    BY <2>1 DEF Commands
  <2>3. QED
    BY <1>31, <1>4, <2>1, <2>2 DEF BecomesDue
<1>32. ASSUME NEW k \in Keys, NEW due \in BOOLEAN, Reschedule(k, due)
      PROVE  Grows
  <2> DEFINE c == [outbox[k] EXCEPT !.due = due]
  <2>1. outbox[k] \in Commands
    BY <1>32 DEF Reschedule, Open, TypeOK
  <2>2. c \in Commands /\ c.payload = outbox[k].payload
    BY <2>1 DEF Commands
  <2>3. QED
    BY <1>32, <1>4, <2>1, <2>2 DEF Reschedule
<1>33. ASSUME NEW w \in Workspaces, NEW m \in Members, NEW cap \in {"read", "publish"},
             Connect(w, m, cap)
      PROVE  Grows
  BY <1>1, <1>33 DEF Connect
<1>34. CASE UNCHANGED vars
  BY <1>1, <1>34 DEF vars, locals
<1>35. QED
    BY <1>5, <1>6, <1>7, <1>8, <1>9, <1>10, <1>11, <1>12, <1>13, <1>14, <1>15, <1>16, <1>17,
     <1>18, <1>19, <1>20, <1>21, <1>22, <1>23, <1>24, <1>25, <1>26, <1>27, <1>28, <1>29, <1>30,
     <1>31, <1>32, <1>33, <1>34 DEF Next, ServeRequest, Dispatch, Environment

\* A step may add to the records only what Coherent allows.
Records ==
  /\ \A k \in Keys : outbox'[k] # None => outbox[k] # None \/ attempt[k] # None
  /\ \A s \in shares' \ shares :
       s.key \in Keys /\ attempt[s.key] # None /\ attempt[s.key].fp = <<s.member, s.payload>>
  /\ \A k \in Keys : outbox'[k] # None /\ outbox'[k].state = "PUBLISHED" =>
       \/ outbox[k] # None /\ outbox[k].state = "PUBLISHED"
       \/ \E s \in shares : s.key = k
  /\ \A k \in Keys : attempt'[k] # attempt[k] => Truthful(attempt'[k], k)

\* Where a step leaves a process as it was.
Same(q) == pc'[q] = pc[q] /\ cur'[q] = cur[q] /\ who'[q] = who[q] /\ mine'[q] = mine[q]

\* Steps that add only what Records allows keep the ledger, the queue and LinkedIn
\* consistent with each other.
LEMMA RecordsStep ==
  ASSUME TypeOK, Coherent, Grows, Records
  PROVE  (LedgerBeforeQueue /\ FingerprintIntegrity /\ PublishedHasPost /\ TruthfulLedger)'
<1>1. LedgerBeforeQueue'
  BY DEF Coherent, Grows, Records, LedgerBeforeQueue
<1>2. FingerprintIntegrity'
  <2>1. ASSUME NEW s \in shares'
        PROVE  s.key \in Keys /\ attempt[s.key] # None /\ attempt[s.key].fp = <<s.member, s.payload>>
    BY <2>1 DEF TypeOK, Posts, Coherent, Records, FingerprintIntegrity
  <2>2. QED
    BY <2>1 DEF Grows, FingerprintIntegrity
<1>3. PublishedHasPost'
  BY DEF Coherent, Grows, Records, PublishedHasPost
<1>4. TruthfulLedger'
  BY DEF Coherent, Grows, Records, TruthfulLedger, Truthful
<1>5. QED
  BY <1>1, <1>2, <1>3, <1>4

\* What a process knows of its key survives a step that leaves the process alone.
LEMMA CopyKept ==
  ASSUME TypeOK, Coherent, Grows, NEW q \in Procs, Same(q)
  PROVE  CopyOK(q)'
<1>1. pc[q] \in {"enqueue"} \cup Running => cur[q] \in Keys
  BY DEF TypeOK, Coherent, LocalsOK, Running
<1>2. pc'[q] = "enqueue" => attempt'[cur'[q]] # None
  BY <1>1 DEF Coherent, CopyOK, Grows, Same
<1>3. pc'[q] \in {"saveDispatching", "create"} =>
        attempt'[cur'[q]].fp = <<who'[q], outbox'[cur'[q]].payload>>
  <2>1. SUFFICES ASSUME pc[q] \in {"saveDispatching", "create"}
                 PROVE  attempt'[cur[q]].fp = <<who[q], outbox'[cur[q]].payload>>
    BY DEF Same
  <2>2. cur[q] \in Keys /\ outbox[cur[q]] # None /\ attempt[cur[q]] # None
    BY <2>1, HeldFacts, CommandUpdates DEF Coherent, LedgerBeforeQueue, Running
  <2>3. QED
    BY <2>1, <2>2 DEF Coherent, CopyOK, Grows
<1>4. pc'[q] \in WithCopy => Truthful(mine[q], cur[q])'
  BY DEF Coherent, CopyOK, Grows, Same, Truthful
<1>5. pc'[q] \in {"saveCandidate", "verify", "verifyExisting"} => mine'[q].post # None
  BY DEF Coherent, CopyOK, Same
<1>6. QED
  BY <1>2, <1>3, <1>4, <1>5 DEF CopyOK

\* A step of one process keeps Coherent, if it respects the records and leaves that
\* process with a copy that tells no lie.
LEMMA ProcessStep ==
  ASSUME TypeOK, Coherent, [Next]_vars, Records, NEW p \in Procs, CopyOK(p)',
         \A q \in Procs : q # p => Same(q)
  PROVE  Coherent'
<1>1. LocalsOK' /\ Grows
  BY TypeStep, StepGrows DEF Coherent
<1>2. ASSUME NEW q \in Procs PROVE CopyOK(q)'
  BY <1>1, CopyKept
<1>3. QED
  BY <1>1, <1>2, RecordsStep DEF Coherent

\* A step of the environment that respects the records keeps Coherent.
LEMMA ExternalStep ==
  ASSUME TypeOK, Coherent, [Next]_vars, Records, UNCHANGED <<pc, locals>>
  PROVE  Coherent'
<1>1. LocalsOK' /\ Grows
  BY TypeStep, StepGrows DEF Coherent
<1>2. ASSUME NEW q \in Procs PROVE CopyOK(q)'
  BY <1>1, CopyKept DEF Same, locals
<1>3. QED
  BY <1>1, <1>2, RecordsStep DEF Coherent

\* Every step of the pipeline keeps Coherent: one case per action of Next.
LEMMA CoherentStep ==
  ASSUME TypeOK, Coherent, [Next]_vars
  PROVE  Coherent'
<1>1. ASSUME UNCHANGED <<attempt, outbox, shares>> PROVE Records
  BY <1>1 DEF Records
<1>2. ASSUME NEW p \in Procs, pc'[p] \notin WithCopy \cup {"enqueue"} PROVE CopyOK(p)'
  BY <1>2 DEF CopyOK, WithCopy, Running
<1>3. ASSUME NEW p \in Procs, pc[p] \in WithCopy, NEW from, NEW to, SaveMine(p, from, to)
      PROVE  Records
  <2>1. cur[p] \in Keys /\ mine[p] \in Attempts /\ Truthful(mine[p], cur[p])
    BY <1>3, HeldFacts DEF WithCopy, Coherent, CopyOK
  <2>2. PICK b \in Attempts : /\ attempt' = [attempt EXCEPT ![cur[p]] = b]
                              /\ b.status = mine[p].status /\ b.post = mine[p].post
    BY <1>3, <2>1, Saved DEF SaveMine
  <2>3. Truthful(b, cur[p])
    BY <2>1, <2>2 DEF Truthful
  <2>4. QED
    BY <1>3, <2>1, <2>2, <2>3 DEF Records, SaveMine, TypeOK
<1>4. ASSUME NEW k \in Keys, NEW c, outbox' = [outbox EXCEPT ![k] = c],
             outbox[k] # None \/ attempt[k] # None,
             c.state = "PUBLISHED" => \/ outbox[k] # None /\ outbox[k].state = "PUBLISHED"
                                      \/ \E s \in shares : s.key = k,
             UNCHANGED <<attempt, shares>>
      PROVE  Records
  BY <1>4 DEF Records, TypeOK
<1>5. ASSUME NEW p \in Apis, NEW k \in Keys, NEW m \in Members, NEW x \in Payloads, NEW later \in BOOLEAN,
             Request(p, k, m, x, later)
      PROVE  Coherent'
  <2>1. Records /\ p \in Procs
    BY <1>1, <1>5 DEF Request, Procs
  <2>2. CopyOK(p)'
    BY <1>2, <1>5, <2>1 DEF Request, Goto, WithCopy, Running, TypeOK
  <2>3. \A j \in Procs : j # p => Same(j)
    BY <1>5, <2>1 DEF Request, Goto, Same, TypeOK
  <2>4. QED
    BY <2>1, <2>2, <2>3, ProcessStep
<1>6. ASSUME NEW p \in Procs, FirstRequest(p)
      PROVE  Coherent'
  <2>1. Records /\ p \in Procs
    BY <1>1, <1>6 DEF FirstRequest, Procs
  <2>2. CopyOK(p)'
    BY <1>2, <1>6, <2>1 DEF FirstRequest, Goto, locals, WithCopy, Running, TypeOK
  <2>3. \A j \in Procs : j # p => Same(j)
    BY <1>6, <2>1 DEF FirstRequest, Goto, locals, Same, TypeOK
  <2>4. QED
    BY <2>1, <2>2, <2>3, ProcessStep
<1>7. ASSUME NEW p \in Procs, RepeatRequest(p)
      PROVE  Coherent'
  <2>1. Records
    BY <1>1, <1>7 DEF RepeatRequest
  <2>2. CopyOK(p)'
    BY <1>7 DEF RepeatRequest, Goto, locals, CopyOK, WithCopy, Running, TypeOK
  <2>3. \A j \in Procs : j # p => Same(j)
    BY <1>7 DEF RepeatRequest, Goto, locals, Same, TypeOK
  <2>4. QED
    BY <2>1, <2>2, <2>3, ProcessStep
<1>8. ASSUME NEW p \in Procs, ConflictingRequest(p)
      PROVE  Coherent'
  <2>1. Records /\ p \in Procs
    BY <1>1, <1>8 DEF ConflictingRequest, Procs
  <2>2. CopyOK(p)'
    BY <1>2, <1>8, <2>1 DEF ConflictingRequest, Forget, WithCopy, Running, TypeOK
  <2>3. \A j \in Procs : j # p => Same(j)
    BY <1>8, <2>1 DEF ConflictingRequest, Forget, Same, TypeOK
  <2>4. QED
    BY <2>1, <2>2, <2>3, ProcessStep
<1>9. ASSUME NEW p \in Procs, Reserve(p)
      PROVE  Coherent'
  <2> DEFINE a == [fp |-> <<who[p], request[p].payload>>, status |-> "RESERVED", post |-> None]
  <2>1. cur[p] \in Keys /\ who[p] \in Members /\ request[p].payload \in Payloads
    BY <1>9 DEF Reserve, Goto, Coherent, LocalsOK, Requests
  <2>2. a \in Attempts
    BY <2>1 DEF Attempts, Fingerprints, AttemptStatuses
  <2>3. PICK b \in Attempts : attempt' = [attempt EXCEPT ![cur[p]] = b] /\ b.status = "RESERVED" /\ b.post = None
    <3>1. saveAttempt(cur[p], a)
      BY <1>9 DEF Reserve
    <3>2. QED
      BY <2>1, <2>2, <3>1, Saved
  <2>4. Records
    BY <1>9, <2>1, <2>3 DEF Reserve, Records, Truthful, Posted, TypeOK
  <2>5. CopyOK(p)'
    BY <1>9, <2>1, <2>3, AttemptUpdates DEF Reserve, Goto, locals, CopyOK, WithCopy, Running, TypeOK
  <2>6. \A j \in Procs : j # p => Same(j)
    BY <1>9 DEF Reserve, Goto, locals, Same, TypeOK
  <2>7. QED
    BY <2>4, <2>5, <2>6, ProcessStep
<1>10. ASSUME NEW p \in Procs, Enqueue(p)
      PROVE  Coherent'
  <2>1. cur[p] \in Keys /\ attempt[cur[p]] # None
    BY <1>10 DEF Enqueue, Coherent, LocalsOK, CopyOK
  <2>2. Records
    BY <1>10, <1>4, <2>1 DEF Enqueue
  <2>3. CopyOK(p)'
    BY <1>10, <1>2 DEF Enqueue, Forget, WithCopy, Running, TypeOK
  <2>4. \A j \in Procs : j # p => Same(j)
    BY <1>10 DEF Enqueue, Forget, Same, TypeOK
  <2>5. QED
    BY <2>2, <2>3, <2>4, ProcessStep
<1>11. ASSUME NEW p \in Procs, NEW S \in SUBSET Due, Claim(p, S)
      PROVE  Coherent'
  <2>1. ASSUME NEW k \in S PROVE outbox'[k].state = "PROCESSING"
    <3>1. k \in Keys /\ outbox[k] \in Commands
      BY <1>11 DEF Due, Open, TypeOK
    <3>2. QED
      BY <1>11, <3>1 DEF Claim, Commands
  <2>2. Records
    BY <1>11, <2>1 DEF Claim, Due, Open, Records
  <2>3. CopyOK(p)'
    BY <1>11, <1>2 DEF Claim, WithCopy, Running, TypeOK
  <2>4. \A j \in Procs : j # p => Same(j)
    BY <1>11 DEF Claim, Same, TypeOK
  <2>5. QED
    BY <2>2, <2>3, <2>4, ProcessStep
<1>12. ASSUME NEW p \in Procs, NEW k \in batch[p], NEW m \in Members,
             TakeCommand(p, k, m)
      PROVE  Coherent'
  <2>1. Records /\ p \in Procs
    BY <1>1, <1>12 DEF TakeCommand, Procs
  <2>2. CopyOK(p)'
    BY <1>2, <1>12, <2>1 DEF TakeCommand, Goto, WithCopy, Running, TypeOK
  <2>3. \A j \in Procs : j # p => Same(j)
    BY <1>12, <2>1 DEF TakeCommand, Goto, Same, TypeOK
  <2>4. QED
    BY <2>1, <2>2, <2>3, ProcessStep
<1>13. ASSUME NEW p \in Procs, NEW k \in batch[p], RefuseCommand(p, k)
      PROVE  Coherent'
  <2>1. Records /\ p \in Procs
    BY <1>1, <1>13 DEF RefuseCommand, Procs
  <2>2. CopyOK(p)'
    BY <1>2, <1>13, <2>1 DEF RefuseCommand, Goto, WithCopy, Running, TypeOK
  <2>3. \A j \in Procs : j # p => Same(j)
    BY <1>13, <2>1 DEF RefuseCommand, Goto, Same, TypeOK
  <2>4. QED
    BY <2>1, <2>2, <2>3, ProcessStep
<1>14. ASSUME NEW p \in Procs, ConflictingCommand(p)
      PROVE  Coherent'
  <2>1. Records /\ p \in Procs
    BY <1>1, <1>14 DEF ConflictingCommand, Procs
  <2>2. CopyOK(p)'
    BY <1>2, <1>14, <2>1 DEF ConflictingCommand, Goto, locals, WithCopy, Running, TypeOK
  <2>3. \A j \in Procs : j # p => Same(j)
    BY <1>14, <2>1 DEF ConflictingCommand, Goto, locals, Same, TypeOK
  <2>4. QED
    BY <2>1, <2>2, <2>3, ProcessStep
<1>15. ASSUME NEW p \in Procs, ReplayAttempt(p)
      PROVE  Coherent'
  <2>1. pc[p] = "read" /\ pc[p] \in Running
    BY <1>15 DEF ReplayAttempt, Goto, Running
  <2>2. cur[p] \in Keys /\ outbox[cur[p]] # None
    BY <2>1, HeldFacts, CommandUpdates DEF Coherent
  <2>3. cur[p] \in Keys /\ outbox[cur[p]] # None /\ attempt[cur[p]] # None /\ attempt[cur[p]] \in Attempts
    BY <2>2 DEF Coherent, LedgerBeforeQueue, TypeOK
  <2>4. Records
    BY <1>1, <1>15 DEF ReplayAttempt
  <2>5. CopyOK(p)'
    BY <1>15, <2>3 DEF ReplayAttempt, Goto, CopyOK, Coherent, TruthfulLedger, Truthful, TypeOK
  <2>6. \A j \in Procs : j # p => Same(j)
    BY <1>15 DEF ReplayAttempt, Goto, Same, TypeOK
  <2>7. QED
    BY <2>4, <2>5, <2>6, ProcessStep
<1>16. ASSUME NEW p \in Procs, ReconcileAttempt(p)
      PROVE  Coherent'
  <2>1. pc[p] = "read" /\ pc[p] \in Running
    BY <1>16 DEF ReconcileAttempt, Goto, Running
  <2>2. cur[p] \in Keys /\ outbox[cur[p]] # None
    BY <2>1, HeldFacts, CommandUpdates DEF Coherent
  <2>3. cur[p] \in Keys /\ outbox[cur[p]] # None /\ attempt[cur[p]] # None /\ attempt[cur[p]] \in Attempts
    BY <2>2 DEF Coherent, LedgerBeforeQueue, TypeOK
  <2>4. Records
    BY <1>1, <1>16 DEF ReconcileAttempt
  <2>5. CopyOK(p)'
    BY <1>16, <2>3 DEF ReconcileAttempt, Goto, CopyOK, Coherent, TruthfulLedger, Truthful, TypeOK
  <2>6. \A j \in Procs : j # p => Same(j)
    BY <1>16 DEF ReconcileAttempt, Goto, Same, TypeOK
  <2>7. QED
    BY <2>4, <2>5, <2>6, ProcessStep
<1>17. ASSUME NEW p \in Procs, PrepareDispatch(p)
      PROVE  Coherent'
  <2>1. pc[p] = "read" /\ pc[p] \in Running
    BY <1>17 DEF PrepareDispatch, Goto, Running
  <2>2. cur[p] \in Keys /\ outbox[cur[p]] # None
    BY <2>1, HeldFacts, CommandUpdates DEF Coherent
  <2>3. cur[p] \in Keys /\ outbox[cur[p]] # None /\ attempt[cur[p]] # None /\ attempt[cur[p]] \in Attempts
    BY <2>2 DEF Coherent, LedgerBeforeQueue, TypeOK
  <2>4. Records
    BY <1>1, <1>17 DEF PrepareDispatch
  <2>5. attempt[cur[p]].fp = <<who[p], outbox[cur[p]].payload>>
    BY <1>17, <2>3, Decisions DEF PrepareDispatch, Decision
  <2>6. /\ mine'[p].status = "DISPATCHING" /\ mine'[p].post = attempt[cur[p]].post
    BY <1>17, <2>3 DEF PrepareDispatch, TypeOK, Attempts
  <2>7. CopyOK(p)'
    BY <1>17, <2>3, <2>5, <2>6
    DEF PrepareDispatch, Goto, CopyOK, Coherent, TruthfulLedger, Truthful, TypeOK, Posted
  <2>8. \A j \in Procs : j # p => Same(j)
    BY <1>17 DEF PrepareDispatch, Goto, Same, TypeOK
  <2>9. QED
    BY <2>4, <2>7, <2>8, ProcessStep
<1>18. ASSUME NEW p \in Procs, SaveDispatching(p)
      PROVE  Coherent'
  <2>1. pc[p] = "saveDispatching" /\ pc[p] \in WithCopy /\ pc'[p] = "create"
    BY <1>18 DEF SaveDispatching, SaveMine, Goto, WithCopy, Running, TypeOK
  <2>2. cur[p] \in Keys /\ outbox[cur[p]] # None /\ attempt[cur[p]] # None
    BY <2>1, HeldFacts, CommandUpdates DEF WithCopy, Coherent, LedgerBeforeQueue
  <2>3. Grows
    BY StepGrows DEF Coherent
  <2>4. Records
    BY <1>3, <1>18, <2>1 DEF SaveDispatching
  <2>5. CopyOK(p)'
    <3>1. cur'[p] = cur[p] /\ who'[p] = who[p] /\ mine'[p] = mine[p]
      BY <1>18 DEF SaveDispatching, SaveMine, locals
    <3>2. QED
      BY <2>1, <2>2, <2>3, <3>1 DEF CopyOK, Coherent, Grows, Truthful
  <2>6. \A j \in Procs : j # p => Same(j)
    BY <1>18 DEF SaveDispatching, SaveMine, Goto, locals, Same, TypeOK
  <2>7. QED
    BY <2>4, <2>5, <2>6, ProcessStep
<1>19. ASSUME NEW p \in Procs, NEW h \in {201, 502, 0}, ShareAccepted(p, h)
      PROVE  Coherent'
  <2>1. pc[p] = "create" /\ pc[p] \in WithCopy
    BY <1>19 DEF ShareAccepted, WithCopy, Running
  <2>2. /\ mine[p] \in Attempts /\ cur[p] \in Keys /\ who[p] \in Members
        /\ outbox[cur[p]] \in Commands /\ outbox[cur[p]] # None /\ attempt[cur[p]] # None
    BY <2>1, HeldFacts, CommandUpdates DEF WithCopy, Coherent, LedgerBeforeQueue
  <2>3. PICK post \in Posts, learnt \in Posts \cup {None} :
          /\ learnt \in {post, None}
          /\ post.key = cur[p] /\ post.member = who[p] /\ post.payload = outbox[cur[p]].payload
          /\ shares' = shares \cup {post} /\ Created(p, h, learnt)
    BY <1>19, <2>2, AcceptedPost
  <2>4. /\ mine'[p].post \in {post, mine[p].post}
        /\ mine'[p].status \in Posted => mine'[p].post # None
        /\ pc'[p] = "saveCandidate" => mine'[p].post # None
        /\ pc'[p] \in {"saveCandidate", "saveFinal"}
    <3>1. post # None
      BY NoneAssumption
    <3>2. mine'[p] = AfterCreate(mine[p], h, learnt)
      BY <2>3 DEF Created, TypeOK
    <3>3. /\ mine'[p].post = IF observeLinkedInCreate(h, learnt # None) = "candidate"
                             THEN learnt ELSE mine[p].post
          /\ mine'[p].status = finalizePublishStatus(observeLinkedInCreate(h, learnt # None), "pending")
      BY <2>2, <3>2 DEF AfterCreate, Attempts
    <3>4. observeLinkedInCreate(h, learnt # None) = "candidate" => learnt = post
      BY <2>3, <3>1, Observations
    <3>5. mine'[p].status \in Posted => observeLinkedInCreate(h, learnt # None) = "candidate"
      BY <3>3, Observations DEF finalizePublishStatus, Posted
    <3>6. pc'[p] = IF observeLinkedInCreate(h, learnt # None) = "candidate"
                   THEN "saveCandidate" ELSE "saveFinal"
      BY <2>3 DEF Created, Goto, TypeOK
    <3>7. QED
      BY <3>1, <3>3, <3>4, <3>5, <3>6
  <2>5. Records
    BY <2>1, <2>2, <2>3 DEF Records, Created, Coherent, CopyOK
  <2>6. CopyOK(p)'
    <3>1. cur' = cur
      BY <2>3 DEF Created
    <3>2. Truthful(mine[p], cur[p])'
      BY <2>1, <2>3, <2>4, <3>1 DEF Coherent, CopyOK, Truthful
    <3>3. QED
      BY <2>4, <3>1, <3>2 DEF CopyOK
  <2>7. \A j \in Procs : j # p => Same(j)
    BY <2>3 DEF Created, Goto, Same, TypeOK
  <2>8. QED
    BY <2>5, <2>6, <2>7, ProcessStep
<1>20. ASSUME NEW p \in Procs, NEW h \in {422, 429, 0}, ShareRefused(p, h)
      PROVE  Coherent'
  <2>1. pc[p] = "create" /\ pc[p] \in WithCopy /\ Created(p, h, None)
    BY <1>20 DEF ShareRefused, Created, Goto, WithCopy, Running
  <2>2. mine[p] \in Attempts
    BY <2>1, HeldFacts DEF WithCopy, Coherent
  <2>3. observeLinkedInCreate(h, None # None) # "candidate"
    BY Observations
  <2>4. mine'[p].post = mine[p].post /\ mine'[p].status \notin Posted /\ pc'[p] = "saveFinal"
    <3>1. mine'[p] = AfterCreate(mine[p], h, None) /\ pc'[p] = "saveFinal"
      BY <2>1, <2>3 DEF Created, Goto, TypeOK
    <3>2. mine'[p].status = finalizePublishStatus(observeLinkedInCreate(h, None # None), "pending")
      BY <2>2, <3>1 DEF AfterCreate, Attempts
    <3>3. mine'[p].status \notin Posted
      BY <2>3, <3>2, Observations DEF finalizePublishStatus, Posted
    <3>4. QED
      BY <2>2, <2>3, <3>1, <3>3 DEF AfterCreate, Attempts
  <2>5. Records
    BY <1>1, <1>20 DEF ShareRefused, Created
  <2>6. CopyOK(p)'
    BY <1>20, <2>1, <2>4 DEF ShareRefused, Created, CopyOK, Coherent, Truthful
  <2>7. \A j \in Procs : j # p => Same(j)
    BY <1>20 DEF ShareRefused, Created, Goto, Same, TypeOK
  <2>8. QED
    BY <2>5, <2>6, <2>7, ProcessStep
<1>21. ASSUME NEW p \in Procs, SaveCandidate(p)
      PROVE  Coherent'
  <2>1. pc[p] = "saveCandidate" /\ pc[p] \in WithCopy /\ pc'[p] = "verify"
    BY <1>21 DEF SaveCandidate, SaveMine, Goto, WithCopy, Running, TypeOK
  <2>2. Records
    BY <1>3, <1>21, <2>1 DEF SaveCandidate
  <2>3. CopyOK(p)'
    BY <1>21, <2>1 DEF SaveCandidate, SaveMine, locals, CopyOK, Coherent, Truthful
  <2>4. \A j \in Procs : j # p => Same(j)
    BY <1>21 DEF SaveCandidate, SaveMine, Goto, locals, Same, TypeOK
  <2>5. QED
    BY <2>2, <2>3, <2>4, ProcessStep
<1>22. ASSUME NEW p \in Procs, NEW h \in {200, 403}, VerifyCreated(p, h)
      PROVE  Coherent'
  <2>1. pc[p] = "verify" /\ pc[p] \in WithCopy
    BY <1>22 DEF VerifyCreated, Goto, WithCopy, Running
  <2>2. mine[p] \in Attempts
    BY <2>1, HeldFacts DEF WithCopy, Coherent
  <2>3. mine'[p].post = mine[p].post /\ pc'[p] = "saveFinal"
    BY <1>22, <2>2 DEF VerifyCreated, Goto, Attempts, TypeOK
  <2>4. Records
    BY <1>1, <1>22 DEF VerifyCreated
  <2>5. CopyOK(p)'
    BY <1>22, <2>1, <2>3 DEF VerifyCreated, CopyOK, Coherent, Truthful
  <2>6. \A j \in Procs : j # p => Same(j)
    BY <1>22 DEF VerifyCreated, Goto, Same, TypeOK
  <2>7. QED
    BY <2>4, <2>5, <2>6, ProcessStep
<1>23. ASSUME NEW p \in Procs, NEW h \in {200, 403}, VerifyExisting(p, h)
      PROVE  Coherent'
  <2>1. pc[p] = "verifyExisting" /\ pc[p] \in WithCopy
    BY <1>23 DEF VerifyExisting, Goto, WithCopy, Running
  <2>2. mine[p] \in Attempts
    BY <2>1, HeldFacts DEF WithCopy, Coherent
  <2>3. mine'[p].post = mine[p].post /\ pc'[p] \in {"saveFinal", "complete"}
    BY <1>23, <2>2 DEF VerifyExisting, Goto, Attempts, TypeOK
  <2>4. Records
    BY <1>1, <1>23 DEF VerifyExisting
  <2>5. CopyOK(p)'
    BY <1>23, <2>1, <2>3 DEF VerifyExisting, CopyOK, Coherent, Truthful
  <2>6. \A j \in Procs : j # p => Same(j)
    BY <1>23 DEF VerifyExisting, Goto, Same, TypeOK
  <2>7. QED
    BY <2>4, <2>5, <2>6, ProcessStep
<1>24. ASSUME NEW p \in Procs, SaveFinal(p)
      PROVE  Coherent'
  <2>1. pc[p] = "saveFinal" /\ pc[p] \in WithCopy /\ pc'[p] = "complete"
    BY <1>24 DEF SaveFinal, SaveMine, Goto, WithCopy, Running, TypeOK
  <2>2. Records
    BY <1>3, <1>24, <2>1 DEF SaveFinal
  <2>3. CopyOK(p)'
    BY <1>24, <2>1 DEF SaveFinal, SaveMine, locals, CopyOK, Coherent, Truthful
  <2>4. \A j \in Procs : j # p => Same(j)
    BY <1>24 DEF SaveFinal, SaveMine, Goto, locals, Same, TypeOK
  <2>5. QED
    BY <2>2, <2>3, <2>4, ProcessStep
<1>25. ASSUME NEW p \in Procs, CompletePublished(p)
      PROVE  Coherent'
  <2> DEFINE c == [outbox[cur[p]] EXCEPT !.state = "PUBLISHED"]
  <2>1. cur[p] \in Keys /\ outbox[cur[p]] \in Commands /\ outbox[cur[p]] # None
    BY <1>25, HeldFacts, CommandUpdates DEF CompletePublished, Running, Coherent
  <2>2. c.state = "PUBLISHED"
    BY <2>1 DEF Commands
  <2>3. \E s \in shares : s.key = cur[p]
    <3>1. mine[p].status \in Posted
      BY <1>25 DEF CompletePublished, FollowUp, outboxFollowUp, Posted
    <3>2. Truthful(mine[p], cur[p])
      BY <1>25 DEF CompletePublished, Coherent, CopyOK, WithCopy, Running
    <3>3. QED
      BY <3>1, <3>2 DEF Truthful
  <2>4. Records
    BY <1>25, <1>4, <2>1, <2>2, <2>3 DEF CompletePublished, Complete
  <2>5. CopyOK(p)'
    BY <1>25, <1>2 DEF CompletePublished, Complete, WithCopy, Running, TypeOK
  <2>6. \A j \in Procs : j # p => Same(j)
    BY <1>25 DEF CompletePublished, Complete, Same, TypeOK
  <2>7. QED
    BY <2>4, <2>5, <2>6, ProcessStep
<1>26. ASSUME NEW p \in Procs, CompleteFailed(p)
      PROVE  Coherent'
  <2> DEFINE c == [outbox[cur[p]] EXCEPT !.state = "FAILED"]
  <2>1. cur[p] \in Keys /\ outbox[cur[p]] \in Commands /\ outbox[cur[p]] # None
    BY <1>26, HeldFacts, CommandUpdates DEF CompleteFailed, Running, Coherent
  <2>2. c.state = "FAILED"
    BY <2>1 DEF Commands
  <2>3. Records
    BY <1>26, <1>4, <2>1, <2>2 DEF CompleteFailed, Complete
  <2>4. CopyOK(p)'
    BY <1>26, <1>2 DEF CompleteFailed, Complete, WithCopy, Running, TypeOK
  <2>5. \A j \in Procs : j # p => Same(j)
    BY <1>26 DEF CompleteFailed, Complete, Same, TypeOK
  <2>6. QED
    BY <2>3, <2>4, <2>5, ProcessStep
<1>27. ASSUME NEW p \in Procs, CompleteRetry(p)
      PROVE  Coherent'
  <2> DEFINE c == [outbox[cur[p]] EXCEPT !.state = "PENDING", !.due = FALSE, !.locked = FALSE]
  <2>1. cur[p] \in Keys /\ outbox[cur[p]] \in Commands /\ outbox[cur[p]] # None
    BY <1>27, HeldFacts, CommandUpdates DEF CompleteRetry, Running, Coherent
  <2>2. c.state = "PENDING"
    BY <2>1 DEF Commands
  <2>3. Records
    BY <1>27, <1>4, <2>1, <2>2 DEF CompleteRetry, Complete
  <2>4. CopyOK(p)'
    BY <1>27, <1>2 DEF CompleteRetry, Complete, WithCopy, Running, TypeOK
  <2>5. \A j \in Procs : j # p => Same(j)
    BY <1>27 DEF CompleteRetry, Complete, Same, TypeOK
  <2>6. QED
    BY <2>3, <2>4, <2>5, ProcessStep
<1>28. ASSUME NEW p \in Procs, Abort(p)
      PROVE  Coherent'
  <2>1. Records /\ p \in Procs
    BY <1>1, <1>28 DEF Abort, Procs
  <2>2. CopyOK(p)'
    BY <1>2, <1>28, <2>1 DEF Abort, Forget, WithCopy, Running, TypeOK
  <2>3. \A j \in Procs : j # p => Same(j)
    BY <1>28, <2>1 DEF Abort, Forget, Same, TypeOK
  <2>4. QED
    BY <2>1, <2>2, <2>3, ProcessStep
<1>29. ASSUME NEW p \in Procs, Restart(p)
      PROVE  Coherent'
  <2>1. Records /\ p \in Procs
    BY <1>1, <1>29 DEF Restart, Procs
  <2>2. CopyOK(p)'
    BY <1>2, <1>29, <2>1 DEF Restart, Goto, locals, WithCopy, Running, TypeOK
  <2>3. \A j \in Procs : j # p => Same(j)
    BY <1>29, <2>1 DEF Restart, Goto, locals, Same, TypeOK
  <2>4. QED
    BY <2>1, <2>2, <2>3, ProcessStep
<1>30. ASSUME NEW k \in Keys, LeaseExpires(k)
      PROVE  Coherent'
  <2> DEFINE c == [outbox[k] EXCEPT !.locked = FALSE]
  <2>1. outbox[k] \in Commands /\ outbox[k] # None
    BY <1>30 DEF LeaseExpires, Open, TypeOK
  <2>2. c.state = outbox[k].state
    BY <2>1 DEF Commands
  <2>3. Records
    BY <1>30, <1>4, <2>1, <2>2 DEF LeaseExpires
  <2>4. QED
    BY <1>30, <2>3, ExternalStep DEF LeaseExpires
<1>31. ASSUME NEW k \in Keys, BecomesDue(k)
      PROVE  Coherent'
  <2> DEFINE c == [outbox[k] EXCEPT !.due = TRUE]
  <2>1. outbox[k] \in Commands /\ outbox[k] # None
    BY <1>31 DEF BecomesDue, Open, TypeOK
  <2>2. c.state = outbox[k].state
    BY <2>1 DEF Commands
  <2>3. Records
    BY <1>31, <1>4, <2>1, <2>2 DEF BecomesDue
  <2>4. QED
    BY <1>31, <2>3, ExternalStep DEF BecomesDue
<1>32. ASSUME NEW k \in Keys, NEW due \in BOOLEAN, Reschedule(k, due)
      PROVE  Coherent'
  <2> DEFINE c == [outbox[k] EXCEPT !.due = due]
  <2>1. outbox[k] \in Commands /\ outbox[k] # None
    BY <1>32 DEF Reschedule, Open, TypeOK
  <2>2. c.state = outbox[k].state
    BY <2>1 DEF Commands
  <2>3. Records
    BY <1>32, <1>4, <2>1, <2>2 DEF Reschedule
  <2>4. QED
    BY <1>32, <2>3, ExternalStep DEF Reschedule
<1>33. ASSUME NEW w \in Workspaces, NEW m \in Members, NEW cap \in {"read", "publish"},
             Connect(w, m, cap)
      PROVE  Coherent'
  BY <1>1, <1>33, ExternalStep DEF Connect
<1>34. CASE UNCHANGED vars
  BY <1>1, <1>34, ExternalStep DEF vars, locals
<1>35. QED
    BY <1>5, <1>6, <1>7, <1>8, <1>9, <1>10, <1>11, <1>12, <1>13, <1>14, <1>15, <1>16, <1>17,
     <1>18, <1>19, <1>20, <1>21, <1>22, <1>23, <1>24, <1>25, <1>26, <1>27, <1>28, <1>29, <1>30,
     <1>31, <1>32, <1>33, <1>34 DEF Next, ServeRequest, Dispatch, Environment

\* An empty pipeline, with every process idle, is coherent.
LEMMA CoherentInit == Init => Coherent
<1>1. Init => LedgerBeforeQueue /\ FingerprintIntegrity /\ PublishedHasPost /\ TruthfulLedger
  BY DEF Init, LedgerBeforeQueue, FingerprintIntegrity, PublishedHasPost, TruthfulLedger
<1>2. Init => LocalsOK /\ \A p \in Procs : CopyOK(p)
  BY DEF Init, LocalsOK, CopyOK, Running, WithCopy
<1>3. QED
  BY <1>1, <1>2 DEF Coherent

\* Whatever processes interleave, die, or outlive their leases, the publication
\* pipeline stays coherent.
THEOREM CoherentAlways == Spec => []Coherent
<1>1. Init => Coherent
  BY CoherentInit
<1>2. TypeOK /\ Coherent /\ [Next]_vars => Coherent'
  BY CoherentStep
<1>3. QED
  BY <1>1, <1>2, TypeCorrect, PTL DEF Spec

\* Every post LinkedIn accepted is what its key was reserved for: the publisher
\* and the payload of the stored fingerprint.
THEOREM FingerprintsHold == Spec => []FingerprintIntegrity
<1>1. Coherent => FingerprintIntegrity
  BY DEF Coherent
<1>2. QED
  BY <1>1, CoherentAlways, PTL

\* The ledger never claims a post that LinkedIn does not hold for that key.
THEOREM LedgerIsTruthful == Spec => []TruthfulLedger
<1>1. Coherent => TruthfulLedger
  BY DEF Coherent
<1>2. QED
  BY <1>1, CoherentAlways, PTL

\* A command reported published has a post.
THEOREM PublishedIsPosted == Spec => []PublishedHasPost
<1>1. Coherent => PublishedHasPost
  BY DEF Coherent
<1>2. QED
  BY <1>1, CoherentAlways, PTL

-----------------------------------------------------------------------------
\* What the steps of a process do to what others go by.

\* Where a request is not queued yet.
Asking == {"lookup", "reserve", "enqueue"}

\* The step of process p leaves the others where they are.
Apart(p) == \A q \in Procs : q # p => pc'[q] = pc[q] /\ cur'[q] = cur[q] /\ request'[q] = request[q]

\* A request is served: it keeps its key and body until it is queued, and adds
\* at most the row it asks for.
Serving(p) ==
  /\ Apart(p)
  /\ pc[p] \in Asking
  /\ pc'[p] \in Asking => cur'[p] = cur[p] /\ request'[p] = request[p]
  /\ pc'[p] # "down"
  /\ UNCHANGED shares
  /\ \A k \in Keys : outbox'[k] # outbox[k] =>
       /\ pc[p] = "enqueue" /\ k = cur[p] /\ outbox[k] = None
       /\ outbox'[k].payload = request[p].payload
       /\ outbox'[k].state = "PENDING" /\ outbox'[k].due = ~request[p].later

\* A row is not added, not made due, and not put in process before it is due.
NoneAdded(k) ==
  outbox'[k] # None =>
    /\ outbox[k] # None
    /\ outbox'[k].due => outbox[k].due
    /\ outbox'[k].state = "PROCESSING" => outbox'[k].due \/ outbox'[k] = outbox[k]

\* A command is dispatched: no row is added or made due, what is in process was
\* due, and a new post is of a command in hand.
Dispatching(p) ==
  /\ Apart(p)
  /\ pc'[p] \notin Asking \cup {"down"}
  /\ \A k \in Keys : NoneAdded(k)
  /\ \A s \in shares' \ shares : s.key \in batch[p] /\ s.payload = outbox[s.key].payload

\* Serving a request is no more than Serving says.
LEMMA ServeEffects ==
  ASSUME TypeOK, LocalsOK, NEW p \in Procs, ServeRequest(p)
  PROVE  Serving(p)
<1>1. CASE FirstRequest(p)
  BY <1>1 DEF FirstRequest, Goto, locals, Serving, Apart, Asking, TypeOK
<1>2. CASE RepeatRequest(p)
  BY <1>2 DEF RepeatRequest, Goto, locals, Serving, Apart, Asking, TypeOK
<1>3. CASE ConflictingRequest(p)
  BY <1>3 DEF ConflictingRequest, Forget, Serving, Apart, Asking, TypeOK
<1>4. CASE Reserve(p)
  BY <1>4 DEF Reserve, Goto, locals, Serving, Apart, Asking, TypeOK
<1>5. CASE Enqueue(p)
  <2>1. pc[p] \in Asking /\ pc'[p] \in {"idle", "claim"} /\ Apart(p) /\ UNCHANGED shares
    BY <1>5 DEF Enqueue, Forget, Apart, Asking, TypeOK
  <2>2. ASSUME NEW k \in Keys, outbox'[k] # outbox[k]
        PROVE  /\ pc[p] = "enqueue" /\ k = cur[p] /\ outbox[k] = None
               /\ outbox'[k].payload = request[p].payload
               /\ outbox'[k].state = "PENDING" /\ outbox'[k].due = ~request[p].later
    BY <1>5, <2>2 DEF Enqueue, TypeOK
  <2>3. QED BY <2>1, <2>2 DEF Serving, Asking
<1>6. QED
  BY <1>1, <1>2, <1>3, <1>4, <1>5 DEF ServeRequest

\* The updates of outbox.complete.
LEMMA CompleteEffects ==
  ASSUME TypeOK, LocalsOK, NEW p \in Procs, pc[p] \in Running, NEW c, Complete(p, c),
         c.due => outbox[cur[p]].due, c.state # "PROCESSING"
  PROVE  Dispatching(p)
<1>1. cur[p] \in Keys /\ outbox[cur[p]] # None
  BY HeldFacts, CommandUpdates
<1>2. Apart(p) /\ pc'[p] \in {"idle", "next"} /\ UNCHANGED shares
  BY DEF Complete, Apart, TypeOK
<1>3. \A k \in Keys : k # cur[p] => outbox'[k] = outbox[k]
  BY DEF Complete, TypeOK
<1>4. outbox'[cur[p]] = c
  BY <1>1 DEF Complete, TypeOK
<1>5. ASSUME NEW k \in Keys PROVE NoneAdded(k)
  <2>1. CASE k = cur[p]
    BY <1>1, <1>4, <2>1 DEF NoneAdded
  <2>2. CASE k # cur[p]
    BY <1>3, <2>2 DEF NoneAdded
  <2>3. QED BY <2>1, <2>2
<1>6. QED
  BY <1>2, <1>5 DEF Dispatching, Asking

\* Dispatching a command is no more than Dispatching says: one case per action.
LEMMA DispatchEffects ==
  ASSUME TypeOK, LocalsOK, NEW p \in Procs, Dispatch(p)
  PROVE  Dispatching(p)
<1>1. ASSUME Apart(p), pc'[p] \notin Asking \cup {"down"}, UNCHANGED <<outbox, shares>>
      PROVE  Dispatching(p)
  <2>1. \A k \in Keys : NoneAdded(k)
    BY <1>1 DEF NoneAdded
  <2>2. QED BY <1>1, <2>1 DEF Dispatching
<1> USE DEF Goto, Apart, Asking, TypeOK
<1>2. ASSUME NEW S \in SUBSET Due, Claim(p, S) PROVE Dispatching(p)
  <2>1. Apart(p) /\ pc'[p] \in {"idle", "next"} /\ UNCHANGED shares
    BY <1>2 DEF Claim
  <2>2. ASSUME NEW k \in Keys PROVE NoneAdded(k)
    <3>1. CASE k \in S
      <4>1. outbox[k] \in Commands /\ outbox[k].due /\ outbox[k] # None
        BY <3>1 DEF Due, Open
      <4>2. outbox'[k].due = outbox[k].due
        BY <1>2, <3>1, <4>1 DEF Claim, Commands
      <4>3. QED BY <4>1, <4>2 DEF NoneAdded
    <3>2. CASE k \notin S
      BY <1>2, <3>2 DEF Claim, NoneAdded
    <3>3. QED BY <3>1, <3>2
  <2>3. QED BY <2>1, <2>2 DEF Dispatching
<1>3. ASSUME NEW k \in batch[p], NEW m \in Members, TakeCommand(p, k, m) PROVE Dispatching(p)
  BY <1>1, <1>3 DEF TakeCommand
<1>4. ASSUME NEW k \in batch[p], RefuseCommand(p, k) PROVE Dispatching(p)
  BY <1>1, <1>4 DEF RefuseCommand
<1>5. ASSUME ConflictingCommand(p) PROVE Dispatching(p)
  BY <1>1, <1>5 DEF ConflictingCommand, locals
<1>6. ASSUME ReplayAttempt(p) PROVE Dispatching(p)
  BY <1>1, <1>6 DEF ReplayAttempt
<1>7. ASSUME ReconcileAttempt(p) PROVE Dispatching(p)
  BY <1>1, <1>7 DEF ReconcileAttempt
<1>8. ASSUME PrepareDispatch(p) PROVE Dispatching(p)
  BY <1>1, <1>8 DEF PrepareDispatch
<1>9. ASSUME NEW from, NEW to \in {"create", "verify", "complete"}, SaveMine(p, from, to)
      PROVE  Dispatching(p)
  BY <1>1, <1>9 DEF SaveMine, locals
<1>10. ASSUME NEW h, NEW post, Created(p, h, post)
       PROVE  Apart(p) /\ pc'[p] \in {"saveCandidate", "saveFinal"} /\ UNCHANGED outbox
  BY <1>10 DEF Created
<1>11. ASSUME NEW h \in {201, 502, 0}, ShareAccepted(p, h) PROVE Dispatching(p)
  <2>1. pc[p] = "create"
    BY <1>11 DEF ShareAccepted
  <2>2. cur[p] \in Keys /\ cur[p] \in batch[p] /\ who[p] \in Members /\ outbox[cur[p]] \in Commands
    BY <2>1, HeldFacts DEF Running
  <2>3. PICK post \in Posts, learnt \in Posts \cup {None} :
          /\ post.key = cur[p] /\ post.payload = outbox[cur[p]].payload
          /\ shares' = shares \cup {post} /\ Created(p, h, learnt)
    BY <1>11, <2>2, AcceptedPost
  <2>4. \A s \in shares' \ shares : s.key \in batch[p] /\ s.payload = outbox[s.key].payload
    BY <2>2, <2>3
  <2>5. Apart(p) /\ pc'[p] \in {"saveCandidate", "saveFinal"} /\ UNCHANGED outbox
    BY <1>10, <2>3
  <2>6. \A k \in Keys : NoneAdded(k)
    BY <2>5 DEF NoneAdded
  <2>7. QED BY <2>4, <2>5, <2>6 DEF Dispatching
<1>12. ASSUME NEW h \in {422, 429, 0}, ShareRefused(p, h) PROVE Dispatching(p)
  BY <1>1, <1>10, <1>12 DEF ShareRefused
<1>13. ASSUME NEW h \in {200, 403}, VerifyCreated(p, h) \/ VerifyExisting(p, h) PROVE Dispatching(p)
  BY <1>1, <1>13 DEF VerifyCreated, VerifyExisting
<1>14. ASSUME CompletePublished(p) PROVE Dispatching(p)
  <2>1. pc[p] \in Running /\ outbox[cur[p]] \in Commands
    BY <1>14, HeldFacts DEF CompletePublished, Running
  <2>2. QED
    BY <1>14, <2>1, CompleteEffects DEF CompletePublished, Commands
<1>15. ASSUME CompleteFailed(p) PROVE Dispatching(p)
  <2>1. pc[p] \in Running /\ outbox[cur[p]] \in Commands
    BY <1>15, HeldFacts DEF CompleteFailed, Running
  <2>2. QED
    BY <1>15, <2>1, CompleteEffects DEF CompleteFailed, Commands
<1>16. ASSUME CompleteRetry(p) PROVE Dispatching(p)
  <2>1. pc[p] \in Running /\ outbox[cur[p]] \in Commands
    BY <1>16, HeldFacts DEF CompleteRetry, Running
  <2>2. QED
    BY <1>16, <2>1, CompleteEffects DEF CompleteRetry, Commands
<1>17. QED
  BY <1>2, <1>3, <1>4, <1>5, <1>6, <1>7, <1>8, <1>9, <1>11, <1>12, <1>13, <1>14, <1>15, <1>16
     DEF Dispatch, SaveDispatching, SaveCandidate, SaveFinal

\* The count of the processes that died is nobody else's business.
LEMMA OnlyCounted ==
  ASSUME TypeOK, Coherent, aborts' \in 0..MaxAborts,
         UNCHANGED <<accounts, attempt, outbox, shares, pc, locals>>
  PROVE  TypeOK' /\ Coherent'
<1>1. TypeOK'
  BY DEF TypeOK, locals
<1>2. LocalsOK'
  BY DEF Coherent, LocalsOK, locals
<1>3. (LedgerBeforeQueue /\ FingerprintIntegrity /\ PublishedHasPost /\ TruthfulLedger)'
  BY DEF Coherent, LedgerBeforeQueue, FingerprintIntegrity, PublishedHasPost, TruthfulLedger, Truthful
<1>4. \A p \in Procs : CopyOK(p)'
  BY DEF Coherent, CopyOK, Truthful, locals
<1>5. QED
  BY <1>1, <1>2, <1>3, <1>4 DEF Coherent
=============================================================================
