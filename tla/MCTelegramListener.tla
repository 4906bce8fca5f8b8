------------------------- MODULE MCTelegramListener -------------------------
(***************************************************************************)
(* Two messages to the llm bot, so that one can wait behind the other, and *)
(* a command to the sheriff bot.                                           *)
(***************************************************************************)
EXTENDS TelegramListener

CONSTANTS a1, a2, c1

MCLlmInbox == <<a1, a2>>
MCSheriffInbox == <<c1>>
=============================================================================
