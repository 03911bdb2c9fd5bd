--------------------------- MODULE PublishPromise ---------------------------
(***************************************************************************)
(* What the publication pipeline promises about an idempotency key, with   *)
(* no queue, lease, retry or process in sight: it stands for the first     *)
(* publication asked under it, that publication is posted at most once and *)
(* as asked, and the verdict is given once, PUBLISHED only after the post. *)
(***************************************************************************)
CONSTANTS
  Keys, Publications, None,
  Ids  \* what LinkedIn numbers the posts of a key with

VARIABLES
  asked,   \* the publication a key stands for
  posts,   \* <<key, id, publication>> of everything LinkedIn accepted
  verdict  \* what the queue says of the key

vars == <<asked, posts, verdict>>

Posted(k) == \E x \in posts : x[1] = k

Init ==
  /\ asked = [k \in Keys |-> None]
  /\ posts = {}
  /\ verdict = [k \in Keys |-> "open"]

Ask(k, f) ==
  /\ asked[k] = None
  /\ asked' = [asked EXCEPT ![k] = f]
  /\ UNCHANGED <<posts, verdict>>

Post(k, n) ==
  /\ asked[k] # None
  /\ ~Posted(k)
  /\ posts' = posts \cup {<<k, n, asked[k]>>}
  /\ UNCHANGED <<asked, verdict>>

\* A key may be given up although its post was accepted: the answer was lost.
Tell(k, v) ==
  /\ asked[k] # None
  /\ verdict[k] = "open"
  /\ v = "PUBLISHED" => Posted(k)
  /\ verdict' = [verdict EXCEPT ![k] = v]
  /\ UNCHANGED <<asked, posts>>

Next ==
  \E k \in Keys :
    \/ \E f \in Publications : Ask(k, f)
    \/ \E n \in Ids : Post(k, n)
    \/ \E v \in {"PUBLISHED", "FAILED"} : Tell(k, v)

Spec == Init /\ [][Next]_vars
=============================================================================
