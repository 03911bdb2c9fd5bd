------------------------- MODULE MCSchedulePromise -------------------------
(* The small instances of MCScheduling, with what callers were told. *)
EXTENDS MCScheduling, SchedulePromise
=============================================================================
