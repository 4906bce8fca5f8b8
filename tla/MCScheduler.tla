---------------------------- MODULE MCScheduler -----------------------------
(***************************************************************************)
(* A heartbeat every other tick and a daily update every third, so that    *)
(* each can be due without the other.                                      *)
(***************************************************************************)
EXTENDS Scheduler
=============================================================================
