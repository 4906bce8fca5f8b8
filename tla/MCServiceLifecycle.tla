------------------------ MODULE MCServiceLifecycle -------------------------
(***************************************************************************)
(* One service with a port, which is the gate that starts remote updates,  *)
(* and one without, as the telegram listener is.                           *)
(***************************************************************************)
EXTENDS ServiceLifecycle

CONSTANT none

MCOrder == <<"gate", "listener">>
=============================================================================
