--------------------------- MODULE MCConversation ---------------------------
(***************************************************************************)
(* Three messages: one before a reset, one beside it, one after.           *)
(***************************************************************************)
EXTENDS Conversation
=============================================================================
