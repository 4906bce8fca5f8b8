---------------------------- MODULE MCApprovals -----------------------------
(***************************************************************************)
(* One command and one secret it may need, the agent of the session that   *)
(* news go to and one of another, and the connections of the user and of   *)
(* the agents that resolve requests.  Two resolutions are enough to undo   *)
(* one, or for two to overlap; one kind of fault at a time.                *)
(***************************************************************************)
EXTENDS Approvals

CONSTANTS git, token, telegram, terminal, cligate, gateway
=============================================================================
