--------------------------- MODULE MCPublishOutbox ---------------------------
(* Small instances of PublishOutbox: every key belongs to one workspace. *)
EXTENDS PublishOutbox, TLC

CONSTANTS k1, k2, w1
SingleWorkspace == [k \in Keys |-> w1]

(* Members, payloads, keys and processes of a kind are interchangeable. *)
Interchangeable == Permutations(Members) \cup Permutations(Payloads)
                     \cup Permutations(Keys) \cup Permutations(Apis)
=============================================================================
