---------------------------- MODULE MCScheduling ----------------------------
(* Small instances of Scheduling: one workspace, a key for each content. *)
EXTENDS Scheduling, TLC

CONSTANTS w1, c1, k1
SingleWorkspace == [k \in Keys |-> w1]
KeyOfContent == [c \in Contents |-> k1]

(* API processes, and members, are interchangeable. *)
Interchangeable == Permutations(Apis) \cup Permutations(Members)
=============================================================================
