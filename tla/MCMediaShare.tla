---------------------------- MODULE MCMediaShare ----------------------------
(* Small instances of MediaShare: one image of each kind. *)
EXTENDS MediaShare, TLC

CONSTANTS good, mislabelled, huge
Sniffed == [i \in Images |-> IF i = mislabelled THEN None ELSE "image/png"]
Huge == {huge}

Interchangeable ==
  Permutations(Uploads) \cup Permutations(Shares) \cup Permutations(Members)
=============================================================================
