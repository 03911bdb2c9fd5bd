---------------------------- MODULE MCGovernance ----------------------------
(* Small instances of Governance: contents, callers and minutes are          *)
(* interchangeable.                                                          *)
EXTENDS Governance, TLC

Interchangeable ==
  Permutations(Contents) \cup Permutations(Callers) \cup Permutations(Minutes)
=============================================================================
