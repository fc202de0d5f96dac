----------------------------- MODULE MCScheduler -----------------------------
(***************************************************************************)
(* Three tasks, the least with which the random place in the list matters, *)
(* running programs of two instructions and an exit.                       *)
(***************************************************************************)
EXTENDS Scheduler
=============================================================================
