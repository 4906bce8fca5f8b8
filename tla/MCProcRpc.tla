------------------------------ MODULE MCProcRpc ------------------------------
(***************************************************************************)
(* Two tasks of one process share a client: they can open two connections  *)
(* at once, and one can wait for the lock while the other times out.       *)
(* Three requests are a timed-out one, one that meets its late answer and  *)
(* one that meets what that one left behind.                               *)
(***************************************************************************)
EXTENDS ProcRpc

CONSTANTS t1, t2
=============================================================================
