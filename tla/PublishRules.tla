---------------------------- MODULE PublishRules ----------------------------
(***************************************************************************)
(* The pure publication rules of packages/domain/src/publish.ts: how a     *)
(* stored attempt answers a new request, how a provider answer is read,    *)
(* and what the outbox does with a command afterwards.                     *)
(***************************************************************************)
EXTENDS Naturals

CONSTANT None   \* the null of the code: no row, no post, no publisher

\* publishAttemptStatuses
AttemptStatuses == {"RESERVED", "DISPATCHING", "PLATFORM_PENDING", "SUCCEEDED",
                    "UNKNOWN_EXTERNAL_STATE", "FAILED_PERMANENT"}

\* The statuses decideIdempotency replays, whatever happens next.
Terminal == {"SUCCEEDED", "FAILED_PERMANENT"}

\* The statuses that carry the identifier of a post.
Posted == {"SUCCEEDED", "PLATFORM_PENDING"}

maxOutboxAttempts == 3

-----------------------------------------------------------------------------
\* Plausible bugs of the rules below, each with the one it would replace.

\* decideIdempotency that never compares fingerprints.
decideByStatus(existing, fingerprint) ==
  CASE existing = None -> "reserve"
    [] existing # None /\ existing.status = "RESERVED" -> "dispatch"
    [] existing # None /\ existing.status \in Terminal -> "replay"
    [] OTHER -> "reconcile_only"

\* decideIdempotency that takes an attempt caught in mid-air for one not begun.
decideRedispatch(existing, fingerprint) ==
  CASE existing = None -> "reserve"
    [] existing # None /\ existing.fp # fingerprint -> "conflict"
    [] existing # None /\ existing.fp = fingerprint
         /\ existing.status \in {"RESERVED", "DISPATCHING"} -> "dispatch"
    [] existing # None /\ existing.fp = fingerprint /\ existing.status \in Terminal -> "replay"
    [] OTHER -> "reconcile_only"

\* decideIdempotency that retries an unknown outcome.
decideRetryUnknown(existing, fingerprint) ==
  CASE existing = None -> "reserve"
    [] existing # None /\ existing.fp # fingerprint -> "conflict"
    [] existing # None /\ existing.fp = fingerprint
         /\ existing.status \in {"RESERVED", "UNKNOWN_EXTERNAL_STATE"} -> "dispatch"
    [] existing # None /\ existing.fp = fingerprint /\ existing.status \in Terminal -> "replay"
    [] OTHER -> "reconcile_only"

\* observeLinkedInCreate that does not ask for the id of the post.
observeByStatus(httpStatus, hasRestliId) ==
  CASE httpStatus \in {200, 201}                -> "candidate"
    [] httpStatus \in {400, 401, 403, 404, 422} -> "permanent_failure"
    [] OTHER                                    -> "unknown_external_state"

\* observeLinkedInCreate that reads every failure as a refusal.
observeFailureAsRefusal(httpStatus, hasRestliId) ==
  IF httpStatus \in {200, 201} /\ hasRestliId THEN "candidate" ELSE "permanent_failure"

\* finalizePublishStatus with a status the ledger has no column value for.
finalizeFailed(create, verify) ==
  CASE create = "permanent_failure"      -> "FAILED"
    [] create = "unknown_external_state" -> "UNKNOWN_EXTERNAL_STATE"
    [] create = "candidate" /\ verify = "verified" -> "SUCCEEDED"
    [] OTHER                             -> "PLATFORM_PENDING"

\* outboxFollowUp that counts an unknown outcome as delivered.
followUpUnknownDelivered(status, attemptCount) ==
  CASE status \in Posted \cup {"UNKNOWN_EXTERNAL_STATE"} -> "delivered"
    [] status = "FAILED_PERMANENT"                       -> "dead"
    [] status \in {"RESERVED", "DISPATCHING"} /\ attemptCount >= maxOutboxAttempts -> "dead"
    [] OTHER                                             -> "retry"

-----------------------------------------------------------------------------
\* The rules.

\* decideIdempotency: what a request with this fingerprint may do, given the
\* attempt the ledger holds for its key (None when there is none).
decideIdempotency(existing, fingerprint) ==
  CASE existing = None              -> "reserve"
    [] existing # None /\ existing.fp # fingerprint -> "conflict"
    [] existing # None /\ existing.fp = fingerprint /\ existing.status = "RESERVED"
                                    -> "dispatch"
    [] existing # None /\ existing.fp = fingerprint /\ existing.status \in Terminal
                                    -> "replay"
    [] OTHER                        -> "reconcile_only"

\* observeLinkedInCreate: the three readings of an HTTP answer to a create.
observeLinkedInCreate(httpStatus, hasRestliId) ==
  CASE httpStatus \in {200, 201} /\ hasRestliId     -> "candidate"
    [] httpStatus \in {400, 401, 403, 404, 422}     -> "permanent_failure"
    [] OTHER                                        -> "unknown_external_state"

\* observeLinkedInVerify: only a 200 on the post itself counts.
observeLinkedInVerify(httpStatus) ==
  IF httpStatus = 200 THEN "verified" ELSE "pending"

\* finalizePublishStatus: the status an attempt ends its dispatch with.
finalizePublishStatus(create, verify) ==
  CASE create = "permanent_failure"      -> "FAILED_PERMANENT"
    [] create = "unknown_external_state" -> "UNKNOWN_EXTERNAL_STATE"
    [] create = "candidate" /\ verify = "verified"  -> "SUCCEEDED"
    [] OTHER                             -> "PLATFORM_PENDING"

\* outboxFollowUp: what happens to the command, given the status its attempt
\* ended with and the attempt_count the claim returned.
outboxFollowUp(status, attemptCount) ==
  CASE status \in Posted                                           -> "delivered"
    [] status \in {"FAILED_PERMANENT", "UNKNOWN_EXTERNAL_STATE"}   -> "dead"
    [] status \in {"RESERVED", "DISPATCHING"}
         /\ attemptCount >= maxOutboxAttempts                      -> "dead"
    [] OTHER                                                       -> "retry"
=============================================================================
