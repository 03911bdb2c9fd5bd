----------------------------- MODULE MCTelemetry -----------------------------
(* Small instances of Telemetry, over one workspace or two. *)
EXTENDS Telemetry, TLC

CONSTANTS w1, w2, s0
StateWorkspace == [s \in States |-> IF s = s0 THEN w2 ELSE w1]
FirstWorkspace == [k \in Keys |-> w1]

Interchangeable ==
  Permutations(Members) \cup Permutations(Callbacks) \cup Permutations(States \ {s0})
=============================================================================
