--------------------------- MODULE MCClassicShell ---------------------------
(* Small instances of ClassicShell: workspaces, names and calls are          *)
(* interchangeable.                                                          *)
EXTENDS ClassicShell, TLC

Interchangeable ==
  Permutations(Workspaces) \cup Permutations(Names) \cup Permutations(Calls)
=============================================================================
