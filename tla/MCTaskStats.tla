----------------------------- MODULE MCTaskStats -----------------------------
(***************************************************************************)
(* Two tasks that compute, yield, call and exit in any order.              *)
(* TaskStats.cfg has time for several switches, and programs that make     *)
(* three different calls, for which a table of two slots is too small.     *)
(***************************************************************************)
EXTENDS TaskStats
=============================================================================
