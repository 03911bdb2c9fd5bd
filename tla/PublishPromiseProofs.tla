------------------------ MODULE PublishPromiseProofs ------------------------
(***************************************************************************)
(* The pipeline implements PublishPromise when a lease outlives its holder *)
(* and first requests of a key do not overlap: a reservation is what the   *)
(* promise calls asking, an accepted create is its post, the completion of *)
(* a command its verdict, and every other step changes nothing it can see. *)
(***************************************************************************)
EXTENDS PublishOnceProofs

\* What PublishPromise sees of the ledger, of LinkedIn and of the queue.
AskedOf == [k \in Keys |-> IF attempt[k] = None THEN None ELSE attempt[k].fp]
PostsOf == {<<s.key, s.n, <<s.member, s.payload>>>> : s \in shares}
VerdictOf == [k \in Keys |->
  IF outbox[k] # None /\ outbox[k].state \in {"PUBLISHED", "FAILED"} THEN outbox[k].state ELSE "open"]

\* A reservation of a key without an attempt asks for its publication.
LEMMA ReserveAsks ==
  ASSUME TypeOK, Coherent, Exclusive, NEW p \in Procs, Reserve(p)
  PROVE  Promise!Next
<1>1. /\ cur[p] \in Keys /\ <<who[p], request[p].payload>> \in Fingerprints
      /\ attempt[cur[p]] = None
  BY DEF Reserve, Goto, Coherent, LocalsOK, Requests, Exclusive, FreshCopy, Fingerprints
<1>2. PICK k \in Keys, f \in Fingerprints : k = cur[p] /\ f = <<who[p], request[p].payload>>
  BY <1>1
<1>3. attempt[k] = None /\ attempt' = [attempt EXCEPT ![k] = [fp |-> f, status |-> "RESERVED", post |-> None]]
  BY <1>1, <1>2 DEF Reserve, saveAttempt
<1>4. AskedOf[k] = None /\ AskedOf' = [AskedOf EXCEPT ![k] = f]
  <2>1. [fp |-> f, status |-> "RESERVED", post |-> None] \in Attempts
    BY DEF Attempts, AttemptStatuses
  <2>2. PICK a \in Attempts : a.fp = f /\ a # None /\ attempt' = [attempt EXCEPT ![k] = a]
    BY <1>3, <2>1, NoneAssumption
  <2>3. \A j \in Keys : attempt'[j] = IF j = k THEN a ELSE attempt[j]
    BY <2>2 DEF TypeOK
  <2>4. \A j \in Keys : AskedOf'[j] = IF j = k THEN f ELSE AskedOf[j]
    BY <2>2, <2>3 DEF AskedOf
  <2>5. AskedOf[k] = None /\ AskedOf' = [j \in Keys |-> AskedOf'[j]] /\ AskedOf = [j \in Keys |-> AskedOf[j]]
    BY <1>3 DEF AskedOf
  <2>6. QED BY <2>4, <2>5
<1>5. UNCHANGED <<PostsOf, VerdictOf>>
  BY DEF Reserve, PostsOf, VerdictOf
<1>6. Promise!Ask(k, f)
  BY <1>4, <1>5 DEF Promise!Ask, AskedOf, PostsOf, VerdictOf
<1>7. QED
  BY <1>6 DEF Promise!Next

\* A fingerprint is something.
LEMMA RealFingerprints == None \notin Fingerprints
BY NoneAssumption

\* An accepted create is the one post of its key, and what was asked.
LEMMA AcceptPosts ==
  ASSUME TypeOK, Coherent, Exclusive, NEW p \in Procs, NEW h, ShareAccepted(p, h)
  PROVE  Promise!Next
<1>1. pc[p] = "create"
  BY DEF ShareAccepted
<1>2. /\ cur[p] \in Keys /\ NoPost(cur[p])
      /\ attempt[cur[p]] # None /\ attempt[cur[p]].fp = <<who[p], outbox[cur[p]].payload>>
  <2>1. cur[p] \in Keys /\ cur[p] \in batch[p] /\ outbox[cur[p]] \in Commands
    BY <1>1, HeldFacts DEF Coherent, Running
  <2>2. QED
    BY <1>1, <2>1, CommandUpdates DEF Coherent, CopyOK, LedgerBeforeQueue, Exclusive, FreshCopy
<1>3. PICK k \in Keys, f \in Fingerprints :
        k = cur[p] /\ f = attempt[k].fp /\ f = <<who[p], outbox[k].payload>> /\ f # None
  <2>1. attempt[cur[p]] \in Attempts
    BY <1>2 DEF TypeOK
  <2>2. attempt[cur[p]].fp \in Fingerprints
    BY <2>1, AttemptUpdates
  <2>3. QED BY <1>2, <2>2, RealFingerprints
<1>4. PICK n \in 1..MaxClaims, s \in shares' :
        /\ s.key = k /\ s.n = n /\ s.member = who[p] /\ s.payload = outbox[k].payload
        /\ shares' = shares \cup {s}
  BY <1>3 DEF ShareAccepted, FreshIds
<1>5. PostsOf' = PostsOf \cup {<<k, n, f>>}
  <2>1. \A x : x \in PostsOf' <=>
          \E t \in shares \cup {s} : x = <<t.key, t.n, <<t.member, t.payload>>>>
    BY <1>4 DEF PostsOf
  <2>2. \A x : x \in PostsOf <=> \E t \in shares : x = <<t.key, t.n, <<t.member, t.payload>>>>
    BY DEF PostsOf
  <2>3. <<s.key, s.n, <<s.member, s.payload>>>> = <<k, n, f>>
    BY <1>3, <1>4
  <2>4. QED BY <2>1, <2>2, <2>3
<1>6. AskedOf[k] = f /\ UNCHANGED <<AskedOf, VerdictOf>>
  <2>1. UNCHANGED <<attempt, outbox>>
    BY DEF ShareAccepted, Created
  <2>2. QED
    BY <1>2, <1>3, <2>1 DEF AskedOf, VerdictOf
<1>7. ~ \E x \in PostsOf : x[1] = k
  BY <1>2, <1>3 DEF PostsOf, NoPost
<1>8. Promise!Post(k, n)
  BY <1>3, <1>5, <1>6, <1>7 DEF Promise!Post, Promise!Posted, AskedOf, PostsOf, VerdictOf
<1>9. QED
  BY <1>8 DEF Promise!Next

\* A command that is completed for good has its verdict told, for the first time.
LEMMA CompleteTells ==
  ASSUME TypeOK, Coherent, Exclusive, PublishedHasPost', NEW p \in Procs, pc[p] \in Running,
         NEW v \in {"PUBLISHED", "FAILED"}, Complete(p, [outbox[cur[p]] EXCEPT !.state = v])
  PROVE  Promise!Next
<1>1. /\ cur[p] \in Keys /\ outbox[cur[p]] \in Commands /\ outbox[cur[p]].state = "PROCESSING"
      /\ outbox[cur[p]] # None
  BY HeldFacts, CommandUpdates DEF Coherent, Exclusive, HeldIsLeased
<1>2. PICK k \in Keys, c \in Commands :
        k = cur[p] /\ c.state = v /\ c # None /\ outbox' = [outbox EXCEPT ![k] = c]
  <2>1. v \in OutboxStates
    BY DEF OutboxStates
  <2>2. [outbox[cur[p]] EXCEPT !.state = v] \in Commands /\ [outbox[cur[p]] EXCEPT !.state = v].state = v
    BY <1>1, <2>1, CommandUpdates DEF Commands
  <2>3. QED BY <1>1, <2>2, CommandUpdates DEF Complete
<1>3. \A j \in Keys : outbox'[j] = IF j = k THEN c ELSE outbox[j]
  BY <1>2 DEF TypeOK
<1>4. VerdictOf[k] = "open" /\ VerdictOf' = [VerdictOf EXCEPT ![k] = v]
  <2>1. \A j \in Keys : VerdictOf'[j] = IF j = k THEN v ELSE VerdictOf[j]
    BY <1>2, <1>3 DEF VerdictOf
  <2>2. /\ VerdictOf[k] = "open"
        /\ VerdictOf' = [j \in Keys |-> VerdictOf'[j]] /\ VerdictOf = [j \in Keys |-> VerdictOf[j]]
    BY <1>1, <1>2 DEF VerdictOf
  <2>3. QED BY <2>1, <2>2
<1>5. UNCHANGED <<AskedOf, PostsOf>> /\ AskedOf[k] # None
  <2>1. attempt[k] # None
    BY <1>1, <1>2 DEF Coherent, LedgerBeforeQueue
  <2>2. attempt[k].fp # None
    <3>1. attempt[k] \in Attempts
      BY <2>1 DEF TypeOK
    <3>2. QED BY <3>1, AttemptUpdates, RealFingerprints
  <2>3. UNCHANGED <<attempt, shares>>
    BY DEF Complete
  <2>4. QED BY <2>1, <2>2, <2>3 DEF AskedOf, PostsOf
<1>6. v = "PUBLISHED" => \E x \in PostsOf : x[1] = k
  <2>1. v = "PUBLISHED" => \E s \in shares' : s.key = k
    BY <1>2, <1>3 DEF PublishedHasPost
  <2>2. shares' = shares
    BY DEF Complete
  <2>3. ASSUME NEW s \in shares, s.key = k PROVE \E x \in PostsOf : x[1] = k
    <3>1. <<s.key, s.n, <<s.member, s.payload>>>> \in PostsOf
      BY DEF PostsOf
    <3>2. QED BY <2>3, <3>1
  <2>4. QED BY <2>1, <2>2, <2>3
<1>7. Promise!Tell(k, v)
  BY <1>4, <1>5, <1>6 DEF Promise!Tell, Promise!Posted, AskedOf, PostsOf, VerdictOf
<1>8. QED
  BY <1>7 DEF Promise!Next

\* A row that is not settled, before and after, shows no verdict.
LEMMA OpenRow ==
  ASSUME TypeOK, NEW k \in Keys, NEW c, outbox' = [outbox EXCEPT ![k] = c],
         outbox[k] = None \/ outbox[k].state \notin {"PUBLISHED", "FAILED"},
         c.state \notin {"PUBLISHED", "FAILED"}
  PROVE  UNCHANGED VerdictOf
<1>1. \A j \in Keys : outbox'[j] = IF j = k THEN c ELSE outbox[j]
  BY DEF TypeOK
<1>2. \A j \in Keys : VerdictOf'[j] = VerdictOf[j]
  BY <1>1 DEF VerdictOf
<1>3. VerdictOf' = [j \in Keys |-> VerdictOf'[j]] /\ VerdictOf = [j \in Keys |-> VerdictOf[j]]
  BY DEF VerdictOf
<1>4. QED BY <1>2, <1>3

\* A save over an attempt keeps what was asked.
LEMMA SaveKeepsAsked ==
  ASSUME TypeOK, Coherent, NEW p \in Procs, NEW from, NEW to, SaveMine(p, from, to), from \in WithCopy
  PROVE  UNCHANGED <<AskedOf, PostsOf, VerdictOf>>
<1>1. cur[p] \in Keys /\ attempt[cur[p]] # None /\ mine[p] \in Attempts
  <2>1. pc[p] \in WithCopy /\ pc[p] \in Running
    BY DEF SaveMine, Goto, WithCopy
  <2>2. cur[p] \in Keys /\ outbox[cur[p]] # None /\ mine[p] \in Attempts
    BY <2>1, HeldFacts, CommandUpdates DEF Coherent
  <2>3. QED BY <2>2 DEF Coherent, LedgerBeforeQueue
<1>2. PICK k \in Keys, a \in Attempts :
        a # None /\ a.fp = attempt[k].fp /\ attempt[k] # None /\ attempt' = [attempt EXCEPT ![k] = a]
  <2>1. saveAttempt(cur[p], mine[p])
    BY DEF SaveMine
  <2>2. PICK a \in Attempts :
          attempt' = [attempt EXCEPT ![cur[p]] = a] /\ a.fp = attempt[cur[p]].fp
    BY <1>1, <2>1, Saved
  <2>3. QED BY <1>1, <2>2, AttemptUpdates
<1>3. \A j \in Keys : attempt'[j] = IF j = k THEN a ELSE attempt[j]
  BY <1>2 DEF TypeOK
<1>4. \A j \in Keys : AskedOf'[j] = AskedOf[j]
  BY <1>2, <1>3 DEF AskedOf
<1>5. AskedOf' = [j \in Keys |-> AskedOf'[j]] /\ AskedOf = [j \in Keys |-> AskedOf[j]]
  BY DEF AskedOf
<1>6. UNCHANGED <<PostsOf, VerdictOf>>
  BY DEF SaveMine, PostsOf, VerdictOf
<1>7. QED BY <1>4, <1>5, <1>6
\* Every step of the pipeline is a step of the promise, or none of its business.
LEMMA PromiseStep ==
  ASSUME TypeOK, Coherent, Exclusive, [Next]_vars, PublishedHasPost'
  PROVE  [Promise!Next]_(Promise!vars)
<1>1. ASSUME UNCHANGED <<AskedOf, PostsOf, VerdictOf>> PROVE UNCHANGED Promise!vars
  BY <1>1 DEF AskedOf, PostsOf, VerdictOf, Promise!vars
<1>2. ASSUME UNCHANGED <<attempt, outbox, shares>> PROVE UNCHANGED Promise!vars
  BY <1>1, <1>2 DEF AskedOf, PostsOf, VerdictOf
<1>3. ASSUME UNCHANGED <<attempt, shares>>, UNCHANGED VerdictOf PROVE UNCHANGED Promise!vars
  BY <1>1, <1>3 DEF AskedOf, PostsOf
<1>4. ASSUME NEW p \in Procs, ServeRequest(p) PROVE Promise!Next \/ UNCHANGED Promise!vars
  <2>1. CASE FirstRequest(p) \/ RepeatRequest(p) \/ ConflictingRequest(p)
    BY <1>2, <2>1 DEF FirstRequest, RepeatRequest, ConflictingRequest
  <2>2. CASE Reserve(p)
    BY <2>2, ReserveAsks
  <2>3. CASE Enqueue(p)
    <3>1. cur[p] \in Keys
      BY <2>3 DEF Enqueue, Coherent, LocalsOK
    <3>2. CASE outbox[cur[p]] # None
      <4>1. outbox' = outbox
        BY <2>3, <3>1, <3>2 DEF Enqueue, TypeOK
      <4>2. QED BY <1>2, <2>3, <4>1 DEF Enqueue
    <3>3. CASE outbox[cur[p]] = None
      <4> DEFINE new == [payload |-> request[p].payload, state |-> "PENDING", count |-> 0,
                         due |-> ~request[p].later, locked |-> FALSE]
      <4>1. outbox' = [outbox EXCEPT ![cur[p]] = new]
        BY <2>3, <3>3 DEF Enqueue
      <4>2. new.state = "PENDING"
        OBVIOUS
      <4>3. UNCHANGED VerdictOf
        BY <3>1, <3>3, <4>1, <4>2, OpenRow
      <4>4. QED BY <1>3, <2>3, <4>3 DEF Enqueue
    <3>4. QED BY <3>2, <3>3
  <2>4. QED BY <1>4, <2>1, <2>2, <2>3 DEF ServeRequest
<1>5. ASSUME NEW p \in Procs, Dispatch(p) PROVE Promise!Next \/ UNCHANGED Promise!vars
  <2>1. ASSUME NEW S \in SUBSET Due, Claim(p, S) PROVE UNCHANGED Promise!vars
    <3>1. \A k \in Keys : VerdictOf'[k] = VerdictOf[k]
      <4>1. S \subseteq Keys /\ \A k \in S : outbox[k] \in Commands /\ outbox[k].state \in {"PENDING", "PROCESSING"}
        BY DEF Due, Open, TypeOK
      <4>2. \A k \in S : outbox'[k].state = "PROCESSING"
        BY <2>1, <4>1 DEF Claim, Commands
      <4>3. \A k \in Keys \ S : outbox'[k] = outbox[k]
        BY <2>1 DEF Claim
      <4>4. QED BY <4>1, <4>2, <4>3 DEF VerdictOf
    <3>2. VerdictOf' = [k \in Keys |-> VerdictOf'[k]] /\ VerdictOf = [k \in Keys |-> VerdictOf[k]]
      BY DEF VerdictOf
    <3>3. QED BY <1>3, <2>1, <3>1, <3>2 DEF Claim
  <2>2. ASSUME NEW k \in batch[p], NEW m \in Members, TakeCommand(p, k, m) PROVE UNCHANGED Promise!vars
    BY <1>2, <2>2 DEF TakeCommand
  <2>3. ASSUME NEW k \in batch[p], RefuseCommand(p, k) PROVE UNCHANGED Promise!vars
    BY <1>2, <2>3 DEF RefuseCommand
  <2>4. CASE ConflictingCommand(p) \/ ReplayAttempt(p) \/ ReconcileAttempt(p) \/ PrepareDispatch(p)
    BY <1>2, <2>4 DEF ConflictingCommand, ReplayAttempt, ReconcileAttempt, PrepareDispatch
  <2>5. CASE SaveDispatching(p) \/ SaveCandidate(p) \/ SaveFinal(p)
    <3>1. {"saveDispatching", "saveCandidate", "saveFinal"} \subseteq WithCopy
      BY DEF WithCopy, Running
    <3>2. QED BY <1>1, <2>5, <3>1, SaveKeepsAsked DEF SaveDispatching, SaveCandidate, SaveFinal
  <2>6. ASSUME NEW h \in {201, 502, 0}, ShareAccepted(p, h) PROVE Promise!Next
    BY <2>6, AcceptPosts
  <2>7. ASSUME NEW h \in {422, 429, 0}, ShareRefused(p, h) PROVE UNCHANGED Promise!vars
    BY <1>2, <2>7 DEF ShareRefused, Created
  <2>8. ASSUME NEW h \in {200, 403}, VerifyCreated(p, h) \/ VerifyExisting(p, h)
        PROVE  UNCHANGED Promise!vars
    BY <1>2, <2>8 DEF VerifyCreated, VerifyExisting
  <2>9. CASE CompletePublished(p)
    BY <2>9, CompleteTells DEF CompletePublished, Running
  <2>10. CASE CompleteFailed(p)
    BY <2>10, CompleteTells DEF CompleteFailed, Running
  <2>11. CASE CompleteRetry(p)
    <3>1. /\ cur[p] \in Keys /\ outbox[cur[p]] \in Commands /\ outbox[cur[p]].state = "PROCESSING"
      BY <2>11, HeldFacts DEF CompleteRetry, Coherent, Exclusive, HeldIsLeased, Running
    <3> DEFINE c == [outbox[cur[p]] EXCEPT !.state = "PENDING", !.due = FALSE, !.locked = FALSE]
    <3>2. c.state = "PENDING"
      BY <3>1 DEF Commands
    <3>3. outbox' = [outbox EXCEPT ![cur[p]] = c]
      BY <2>11 DEF CompleteRetry, Complete
    <3>4. UNCHANGED VerdictOf
      BY <3>1, <3>2, <3>3, OpenRow
    <3>5. QED BY <1>3, <2>11, <3>4 DEF CompleteRetry, Complete
  <2>12. QED
    BY <1>5, <2>1, <2>2, <2>3, <2>4, <2>5, <2>6, <2>7, <2>8, <2>9, <2>10, <2>11 DEF Dispatch
<1>6. ASSUME NEW k \in Keys, NEW b \in BOOLEAN, LeaseExpires(k) \/ BecomesDue(k) \/ Reschedule(k, b)
      PROVE  UNCHANGED Promise!vars
  <2>1. outbox[k] \in Commands /\ outbox[k].state \in {"PENDING", "PROCESSING"}
    BY <1>6 DEF LeaseExpires, BecomesDue, Reschedule, Open, TypeOK
  <2>2. PICK c : outbox' = [outbox EXCEPT ![k] = c] /\ c.state \in {"PENDING", "PROCESSING"}
    BY <1>6, <2>1 DEF LeaseExpires, BecomesDue, Reschedule, Commands
  <2>3. UNCHANGED VerdictOf
    BY <2>1, <2>2, OpenRow
  <2>4. QED BY <1>3, <1>6, <2>3 DEF LeaseExpires, BecomesDue, Reschedule
<1>7. ASSUME Environment PROVE UNCHANGED Promise!vars
  <2>1. ASSUME NEW p \in Apis, NEW k \in Keys, NEW m \in Members, NEW x \in Payloads, NEW later \in BOOLEAN,
               Request(p, k, m, x, later)
        PROVE  UNCHANGED Promise!vars
    BY <1>2, <2>1 DEF Request
  <2>2. ASSUME NEW p \in Procs, Abort(p) \/ Restart(p) PROVE UNCHANGED Promise!vars
    BY <1>2, <2>2 DEF Abort, Restart
  <2>3. ASSUME NEW w \in Workspaces, NEW m \in Members, NEW cap \in {"read", "publish"}, Connect(w, m, cap)
        PROVE  UNCHANGED Promise!vars
    BY <1>2, <2>3 DEF Connect
  <2>4. QED BY <1>6, <1>7, <2>1, <2>2, <2>3 DEF Environment
<1>8. CASE UNCHANGED vars
  BY <1>2, <1>8 DEF vars
<1>9. QED BY <1>4, <1>5, <1>7, <1>8 DEF Next

\* An empty ledger has promised nothing.
LEMMA PromiseInit == Init => Promise!Init
BY DEF Init, Promise!Init

\* The pipeline implements PublishPromise: a key stands for one publication, is
\* posted at most once and as asked, and is given one verdict.
THEOREM PromiseKept ==
  ASSUME LeaseOutlivesHolder, SerialEnqueue
  PROVE  Spec => KeepsPromise
<1>1. Init => Promise!Init
  BY PromiseInit
<1>2. TypeOK /\ Coherent /\ Coherent' /\ Exclusive /\ [Next]_vars => [Promise!Next]_(Promise!vars)
  <2>1. Coherent' => PublishedHasPost'
    BY DEF Coherent
  <2>2. QED BY <2>1, PromiseStep
<1>3. QED
  BY <1>1, <1>2, TypeCorrect, CoherentAlways, ExclusiveAlways, PTL DEF Spec, KeepsPromise, Promise!Spec
=============================================================================
