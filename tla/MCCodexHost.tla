---------------------------- MODULE MCCodexHost ----------------------------
(* CodexHost on two connections (the gateway's and the scheduler's) and    *)
(* two sessions.                                                           *)
EXTENDS CodexHost

CONSTANTS h1, h2, s1, s2
=============================================================================
