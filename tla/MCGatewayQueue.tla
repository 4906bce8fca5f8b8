--------------------------- MODULE MCGatewayQueue ---------------------------
(***************************************************************************)
(* Two users of one Telegram group topic: alice writes to it twice, bob    *)
(* once.  Two messages of one principal are enough for one to wait behind  *)
(* the other, two principals for turns to overlap, and two updates for the *)
(* second to find the queue as a killed first one left it.                 *)
(***************************************************************************)
EXTENDS GatewayQueue

CONSTANTS a1, a2, b1, alice, bob, topic

MCPrincipalOf == [m \in Messages |-> IF m \in {a1, a2} THEN alice ELSE bob]
MCSessionOf == [m \in Messages |-> topic]
=============================================================================
