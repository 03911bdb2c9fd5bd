-------------------------- MODULE SchedulePromise --------------------------
(***************************************************************************)
(* What the callers of the schedule routes were told, over Scheduling:     *)
(* `promised` is a history variable, which no step of the routes reads.    *)
(***************************************************************************)
EXTENDS Scheduling

VARIABLE promised   \* history: what was last answered for a key, if anything

AtOnce == 0   \* the key was given to POST /publications too

\* The step answers 200 to a request that asked for k at this minute: POST
\* schedule, whose enqueue is its last call, or PATCH, whose command was moved.
Answers(k, minute) ==
  \E r \in Apis :
    /\ stage[r] \in {"queueing", "reschedule"}
    /\ call[r].key = k /\ call[r].minute = minute
    /\ \/ MoveCommand(r)
       \/ stage[r] = "queueing" /\ pc[r] = "enqueue" /\ request[r].later /\ P!Enqueue(r)

\* A key that is asked for at once is nobody's schedule from then on.
PublishesNow(k) == \E r \in Apis, c \in Contents : PostPublication(r, c, k)

Promise(k) ==
  IF PublishesNow(k) THEN AtOnce
  ELSE IF promised[k] # AtOnce /\ \E m \in Minutes : Answers(k, m)
       THEN CHOOSE m \in Minutes : Answers(k, m)
       ELSE promised[k]

InitPromise == Init /\ promised = [k \in Keys |-> None]
NextPromise == Next /\ promised' = [k \in Keys |-> Promise(k)]
SpecPromise == InitPromise /\ [][NextPromise]_<<vars, promised>>

-----------------------------------------------------------------------------
\* Properties.

\* A key that only the schedule routes were called with is not posted before
\* the minute they last answered 200 for ("schedules approved content without
\* dispatching early", app.test.ts:251).
ScheduleIsKept ==
  [][\A s \in shares' \ shares :
       promised[s.key] \in Minutes => promised[s.key] <= now]_shares
=============================================================================
