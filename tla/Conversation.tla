---------------------------- MODULE Conversation ----------------------------
(***************************************************************************)
(* A turn from the message to the answer, and the conversation it belongs  *)
(* to: _process_message of the gateway between the vault and the Codex     *)
(* host, with the terminal that sends messages and passwords.              *)
(*                                                                         *)
(* The gateway knows the sessions it has ensured; the host knows which     *)
(* thread a session is bound to.  Resets and news of resolved requests     *)
(* change them beside the turns.  Turns of one principal are serial, which *)
(* is GatewayQueue; what the host does to answer is CodexHost.             *)
(***************************************************************************)
EXTENDS Naturals, FiniteSets, Sequences

CONSTANTS
  MaxMessages,  \* bound: messages of users and of Sheriff
  MaxFaults     \* bound: restarts, requests that fail or time out, retries

ASSUME ConversationAssumption == MaxMessages \in Nat /\ MaxFaults \in Nat

(* Who has turns: the owner of the llm bot, the terminal, and Sheriff when *)
(* it cannot look up the owner.                                            *)
Principals == {"owner", "cli", "system"}

(* session_key_for_message: the listener passes the type of the chat on,   *)
(* the webhook and the gateway's own news do not.                          *)
SessionOf(p, via) ==
  IF p = "owner" /\ via = "listener" THEN "private_main"
  ELSE IF p = "owner" THEN "telegram_owner"
  ELSE IF p = "cli" THEN "cli_default" ELSE "telegram_system"

Sessions == {"private_main", "telegram_owner", "cli_default", "telegram_system"}

VARIABLES
  known,     \* sessions of the gateway
  turn,      \* the turn of each principal
  vault,     \* "open" or "locked"
  bound,     \* the thread of each session; a thread has the number of its
             \* first message, and 0 is none
  heard,     \* the messages each thread has had
  host,      \* turns the host works on, waited for or not
  reset,     \* the session whose reset awaits the host, or "none"
  since,     \* history: messages a session had since it began anew
  muddled,   \* history: sessions whose beginning met something in its way
  messages, faults

gatewayVars == <<known, turn>>
hostVars == <<bound, heard, host>>
history == <<since, muddled>>
vars == <<gatewayVars, vault, hostVars, reset, history,
          messages, faults>>
-----------------------------------------------------------------------------
AtRest(step, finals) ==
  [step |-> step, session |-> "none", m |-> 0, password |-> "none",
   finals |-> finals, coming |-> <<>>, sawFinal |-> "no", vaultSeen |-> "no"]

NoTurn == AtRest("none", 0)

Init ==
  /\ known = {} /\ turn = [p \in Principals |-> NoTurn]
  /\ vault \in {"open", "locked"}
  /\ bound = [s \in Sessions |-> 0]
  /\ heard = [t \in 1..MaxMessages |-> {}]
  /\ host = {} /\ reset = "none"
  /\ since = [s \in Sessions |-> {}]
  /\ muddled = {}
  /\ messages = 0 /\ faults = 0

At(p, step) == turn[p].step = step

InTurn(p) == turn[p].step \notin {"none", "ended"}

(* The host has not answered yet. *)
Asking(p) == InTurn(p) /\ ~At(p, "stream")

Goto(p, step) == turn' = [turn EXCEPT ![p].step = step]

(* The turn ends with n more answers, assistant.final. *)
Ends(p, n) == turn' = [turn EXCEPT ![p] = AtRest("ended", turn[p].finals + n)]

Answers(p) == Ends(p, 1)

turnOnly == <<hostVars, reset, history, messages>>

(* A turn begins: the first thing is to ensure a session not known yet. *)
Starts(p, s, pw) ==
  /\ ~InTurn(p)
  /\ messages < MaxMessages /\ messages' = messages + 1
  /\ turn' = [turn EXCEPT ![p] =
       [step |-> IF s \in known THEN "lock" ELSE "ensure", session |-> s,
        m |-> messages + 1, password |-> pw, finals |-> 0, coming |-> <<>>,
        sawFinal |-> "no", vaultSeen |-> IF vault = "open" THEN "yes" ELSE "no"]]

(* A message from Telegram *)
Message(via) ==
  /\ Starts("owner", SessionOf("owner", via), "none")
  /\ UNCHANGED <<known, vault, hostVars, reset, history, faults>>

(* A line at either terminal, with the password that was last typed there, *)
(* right or wrong, if one was.  One may be typed before any line, and an   *)
(* empty one takes it back, so it is none in particular; the proxy chat    *)
(* sends the line in which it is typed as a message as well.               *)
Chat(pw) ==
  /\ Starts("cli", SessionOf("cli", "cli"), pw)
  /\ UNCHANGED <<known, vault, hostVars, reset, history, faults>>

(* The turns after the vault has been opened, by the turn of one or nobody *)
SeenOpen(by) ==
  [p \in Principals |->
     IF ~Asking(p) THEN turn[p]
     ELSE [turn[p] EXCEPT !.vaultSeen = "yes", !.step = IF p = by THEN "relock" ELSE @]]

VaultOpens(by) == vault' = "open" /\ turn' = SeenOpen(by)

(* Somebody opens or locks the vault, as "/unlock" at the terminal does,   *)
(* through the cli gate.                                                   *)
VaultChanges ==
  /\ \/ vault = "locked" /\ VaultOpens("nobody")
     \/ vault = "open" /\ vault' = "locked" /\ UNCHANGED turn
  /\ UNCHANGED <<known, turnOnly, faults>>
-----------------------------------------------------------------------------
(* codex.session.ensure is answered.  The request that follows it, for the *)
(* inbox of the session's memory, changes nothing here and may only raise. *)
Ensure(p) ==
  /\ At(p, "ensure")
  /\ known' = known \cup {turn[p].session}
  /\ Goto(p, "lock")
  /\ UNCHANGED <<vault, turnOnly, faults>>

(* is_unlocked.  A locked vault is tried with the password of the message; *)
(* then it is asked again.                                                 *)
AskLock(p) ==
  /\ turn[p].step \in {"lock", "relock"}
  /\ IF vault = "open" THEN Goto(p, "provider")
     ELSE IF At(p, "lock") /\ turn[p].password # "none" THEN Goto(p, "unlock")
     ELSE Answers(p)
  /\ UNCHANGED <<known, vault, turnOnly, faults>>

(* The vault's answer is an error: then it is not known to be locked. *)
AskLockFails(p) ==
  /\ turn[p].step \in {"lock", "relock"}
  /\ faults < MaxFaults /\ faults' = faults + 1
  /\ turn' = [turn EXCEPT ![p].step = "send", ![p].vaultSeen = "unknown"]
  /\ UNCHANGED <<known, vault, turnOnly>>

(* Mutant: whatever the vault says to the password, it is not known to be  *)
(* locked any more.                                                        *)
Unlock_AnyAnswer(p) ==
  /\ At(p, "unlock")
  /\ IF turn[p].password = "right"
     THEN VaultOpens(p)
     ELSE Goto(p, "send") /\ UNCHANGED vault
  /\ UNCHANGED <<known, turnOnly, faults>>

(* secrets.unlock with the password of the message *)
Unlock(p) ==
  /\ At(p, "unlock")
  /\ IF turn[p].password = "right"
     THEN VaultOpens(p)
     ELSE Answers(p) /\ UNCHANGED vault
  /\ UNCHANGED <<known, turnOnly, faults>>

(* get_llm_provider, and the key if the provider needs one; either may be  *)
(* missing, as it is when the vault was locked since.                      *)
Provider(p) ==
  /\ At(p, "provider")
  /\ \/ vault = "open" /\ \E step \in {"key", "send"} : Goto(p, step)
     \/ vault = "locked" /\ Answers(p)
  /\ UNCHANGED <<known, vault, turnOnly, faults>>

Key(p) ==
  /\ At(p, "key")
  /\ \/ vault = "open" /\ Goto(p, "send")
     \/ Answers(p)
  /\ UNCHANGED <<known, vault, turnOnly, faults>>
-----------------------------------------------------------------------------
InHost(s) == {w \in host : w.session = s}

(* codex.session.send: the host takes the thread of the session, or opens  *)
(* one.  Two that open one at a time leave one of the threads behind.      *)
Send(p) ==
  LET s == turn[p].session
  IN  /\ At(p, "send") /\ Goto(p, "codex")
      /\ host' = host \cup {[session |-> s, m |-> turn[p].m, thread |-> bound[s]]}
      /\ muddled' = IF bound[s] = 0 /\ InHost(s) # {} THEN muddled \cup {s} ELSE muddled
      /\ UNCHANGED <<known, vault, bound, heard, reset, since,
                     messages, faults>>

Thread(w) == IF w.thread = 0 THEN w.m ELSE w.thread

(* The thread has had the message; one that was opened is bound. *)
Heard(w) ==
  /\ host' = host \ {w}
  /\ heard' = [heard EXCEPT ![Thread(w)] = @ \cup {w.m}]
  /\ bound' = IF w.thread = 0 THEN [bound EXCEPT ![w.session] = w.m] ELSE bound
  /\ since' = [since EXCEPT ![w.session] = @ \cup {w.m}]

(* An error may come before the thread has had the message. *)
Unheard(w) == host' = host \ {w} /\ UNCHANGED <<heard, bound, since>>

(* An empty answer of a logged-in Codex: the server is stopped, the        *)
(* session loses its thread, and the message is sent again to a new one.   *)
(* What that does to other sessions is CodexHost.                          *)
Retry(w) ==
  /\ w \in host
  /\ faults < MaxFaults /\ faults' = faults + 1
  /\ host' = (host \ {w}) \cup {[w EXCEPT !.thread = 0]}
  /\ heard' = IF w.thread = 0 THEN heard
              ELSE [heard EXCEPT ![w.thread] = @ \cup {w.m}]
  /\ bound' = [bound EXCEPT ![w.session] = 0]
  /\ since' = [since EXCEPT ![w.session] = {}]
  /\ muddled' = IF InHost(w.session) = {w} THEN muddled ELSE muddled \cup {w.session}
  /\ UNCHANGED <<gatewayVars, vault, reset, messages>>

Awaits(p, w) == At(p, "codex") /\ turn[p].m = w.m

(* What the host writes at the end of codex.session.send: a text it has    *)
(* sent on as assistant.final, and the result; or a result that is not ok; *)
(* or one without a text, also after a retry.                              *)
Frames(outcome) ==
  CASE outcome = "text" -> <<"final", "done">>
    [] outcome = "error" -> <<"failed">>
    [] outcome = "empty" -> <<"done">>

Answer(p, w, outcome) ==
  /\ w \in host /\ Awaits(p, w)
  /\ Heard(w) \/ (outcome = "error" /\ Unheard(w))
  /\ turn' = [turn EXCEPT ![p] = [AtRest("stream", 0) EXCEPT !.coming = Frames(outcome)]]
  /\ UNCHANGED <<known, vault, reset, muddled, messages, faults>>

(* The gateway passes an assistant.final of the host on to the user. *)
PassOn(p) ==
  /\ At(p, "stream") /\ Len(turn[p].coming) > 1
  /\ turn' = [turn EXCEPT ![p].coming = Tail(@), ![p].finals = @ + 1,
                          ![p].sawFinal = "yes"]
  /\ UNCHANGED <<known, vault, turnOnly, faults>>

(* Mutant: a result without a text gets the gateway's words as well. *)
Conclude_Always(p) ==
  /\ At(p, "stream") /\ Len(turn[p].coming) = 1
  /\ Ends(p, 1)
  /\ UNCHANGED <<known, vault, turnOnly, faults>>

(* The result.  One that is not ok gets the gateway's words, whatever has  *)
(* been passed on; any other if no assistant.final has.                    *)
Conclude(p) ==
  /\ At(p, "stream") /\ Len(turn[p].coming) = 1
  /\ Ends(p, IF Head(turn[p].coming) = "failed" \/ turn[p].sawFinal = "no" THEN 1 ELSE 0)
  /\ UNCHANGED <<known, vault, turnOnly, faults>>

(* The host ends a turn that nobody waits for any more. *)
AnswerUnread(w) ==
  /\ w \in host /\ \A p \in Principals : ~Awaits(p, w)
  /\ Heard(w) \/ Unheard(w)
  /\ UNCHANGED <<gatewayVars, vault, reset, muddled,
                 messages, faults>>

(* A request of the turn raises or times out; the host goes on. *)
TurnRaises(p) ==
  /\ InTurn(p)
  /\ faults < MaxFaults /\ faults' = faults + 1
  /\ turn' = [turn EXCEPT ![p] = NoTurn]
  /\ UNCHANGED <<known, vault, turnOnly>>
-----------------------------------------------------------------------------
(* reset_session, first half.  Its only caller, the proxy chat, resets      *)
(* private_main, whichever session it talks to itself.  The answer is      *)
(* "reset" whether or not the gateway knows the session: it forgets the    *)
(* sessions when it restarts, the host does not.                           *)
Reset ==
  LET s == "private_main"
  IN  /\ reset = "none"
      /\ IF s \in known
         THEN /\ known' = known \ {s} /\ reset' = s
              /\ UNCHANGED <<since, muddled>>
         ELSE /\ since' = [since EXCEPT ![s] = {}]
              /\ muddled' = muddled \cup {s}
              /\ UNCHANGED <<known, reset>>
      /\ UNCHANGED <<turn, vault, hostVars, messages, faults>>

(* Mutant: the host keeps the thread. *)
ResetDone_ThreadKept ==
  /\ reset # "none" /\ reset' = "none"
  /\ since' = [since EXCEPT ![reset] = {}]
  /\ muddled' = IF InHost(reset) = {} THEN muddled \ {reset} ELSE muddled \cup {reset}
  /\ UNCHANGED <<gatewayVars, vault, hostVars, messages, faults>>

(* codex.session.invalidate is answered with an error, which nobody looks  *)
(* at: the caller hears "reset", and the host has kept the thread or not.  *)
ResetFails ==
  /\ reset # "none" /\ reset' = "none"
  /\ faults < MaxFaults /\ faults' = faults + 1
  /\ bound' \in {bound, [bound EXCEPT ![reset] = 0]}
  /\ since' = [since EXCEPT ![reset] = {}]
  /\ muddled' = muddled \cup {reset}
  /\ UNCHANGED <<gatewayVars, vault, heard, host, messages>>

(* codex.session.invalidate is answered. *)
ResetDone ==
  /\ reset # "none" /\ reset' = "none"
  /\ bound' = [bound EXCEPT ![reset] = 0]
  /\ since' = [since EXCEPT ![reset] = {}]
  /\ muddled' = IF InHost(reset) = {} THEN muddled \ {reset} ELSE muddled \cup {reset}
  /\ UNCHANGED <<gatewayVars, vault, heard, host, messages, faults>>

(* Whose agent may have been refused something, and wait for the user *)
Askers == {s \in Sessions : since[s] # {} \/ InHost(s) # {}}

(* notify_request_resolved: the user has decided what the agent of a       *)
(* session waits for.  The news become a turn of the owner of the bot,     *)
(* whom the vault names; a locked one names nobody.                        *)
Resolved(asker) ==
  LET p == IF vault = "open" THEN "owner" ELSE "system"
  IN  /\ asker \in Askers /\ known # {}
      /\ Starts(p, SessionOf(p, "news"), "none")
      /\ UNCHANGED <<known, vault, hostVars, reset, since, muddled, faults>>

(* The gateway restarts: sessions, turns and a reset under way are gone. *)
GatewayRestart ==
  /\ faults < MaxFaults /\ faults' = faults + 1
  /\ known' = {} /\ turn' = [p \in Principals |-> NoTurn]
  /\ reset' = "none"
  /\ UNCHANGED <<vault, hostVars, history, messages>>

(* The host restarts: no session has a thread, and its requests raise;     *)
(* what it has written can still be read, unless the turn raises (above).  *)
HostRestart ==
  /\ faults < MaxFaults /\ faults' = faults + 1
  /\ bound' = [s \in Sessions |-> 0] /\ host' = {}
  /\ turn' = [p \in Principals |->
                IF turn[p].step \in {"ensure", "codex"} THEN NoTurn ELSE turn[p]]
  /\ since' = [s \in Sessions |-> {}] /\ muddled' = {}
  /\ UNCHANGED <<known, vault, heard, reset, messages>>

Turn(p) ==
  \/ Ensure(p) \/ AskLock(p) \/ AskLockFails(p) \/ Unlock(p)
  \/ Provider(p) \/ Key(p) \/ Send(p) \/ PassOn(p) \/ Conclude(p) \/ TurnRaises(p)
  \/ \E w \in host, outcome \in {"text", "error", "empty"} : Answer(p, w, outcome)

Next ==
  \/ \E via \in {"listener", "webhook"} : Message(via)
  \/ \E pw \in {"none", "right", "wrong"} : Chat(pw)
  \/ VaultChanges
  \/ \E p \in Principals : Turn(p)
  \/ \E w \in host : Retry(w) \/ AnswerUnread(w)
  \/ \E s \in Sessions : Resolved(s)
  \/ Reset \/ ResetDone \/ ResetFails \/ GatewayRestart \/ HostRestart

Spec == Init /\ [][Next]_vars
-----------------------------------------------------------------------------
TypeOK ==
  /\ known \subseteq Sessions /\ muddled \subseteq Sessions
  /\ vault \in {"open", "locked"}
  /\ bound \in [Sessions -> 0..MaxMessages]
  /\ heard \in [1..MaxMessages -> SUBSET (1..MaxMessages)]
  /\ host \subseteq [session : Sessions, m : 1..MaxMessages, thread : 0..MaxMessages]
  /\ reset \in Sessions \cup {"none"}

(* A session's thread has had every message that was handled in it since   *)
(* it last began anew, by a reset, a retry or a restart of the host, and   *)
(* none from before (send_message, lines 51 to 63 of                       *)
(* codex_session_manager, and reset_session), whatever times out or is     *)
(* reset beside its turns; unless a reset was given for a session the      *)
(* gateway does not know, or refused by the host, or the reset or the      *)
(* retry met a turn in the host, or two turns opened a thread at the same  *)
(* time.                                                                   *)
ExactHistory ==
  \A s \in Sessions \ muddled :
    IF bound[s] = 0 THEN since[s] = {} ELSE heard[bound[s]] = since[s]

(* A turn that ends without raising has sent its user one assistant.final: *)
(* the gateway gives its own words without looking at saw_final when the   *)
(* result is not ok (lines 185 to 203), and counts on the host to have     *)
(* sent none before such a result, and one before any that has a text      *)
(* (lines 205 to 224; codex_session_send of the host).                     *)
OneAnswer ==
  \A p \in Principals : At(p, "ended") => turn[p].finals = 1

(* A prompt goes to Codex only if the vault was open at some moment of the *)
(* turn, by this message's password or anybody's, or could not be asked    *)
(* (lines 94 to 111), although both is looked up before and used after     *)
(* awaits.                                                                 *)
PromptNeedsVault ==
  \A p \in Principals : At(p, "codex") => turn[p].vaultSeen # "no"

(* "Retry the blocked work if it is still needed" (line 364): the news of  *)
(* a decision go to the session whose agent waits for it.                  *)
NewsReachAsker ==
  [][\A asker \in Sessions :
       Resolved(asker) =>
         \E p \in Principals : turn'[p].m = messages' /\ turn'[p].session = asker]_vars
=============================================================================
