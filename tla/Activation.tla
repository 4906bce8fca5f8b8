----------------------------- MODULE Activation -----------------------------
(***************************************************************************)
(* How a Telegram user gets to talk to the two bots, and how the vault     *)
(* that remembers it is set up.                                            *)
(*                                                                         *)
(* Each bot has a role.  The vault keeps, per role, the user who is bound  *)
(* to it and the activation codes that were drawn and not claimed.  Three  *)
(* parties work on them with awaited requests, and interleave in between:  *)
(*                                                                         *)
(*   chats       a message to a bot, by telegram-listener or               *)
(*               telegram-webhook and the gate of the bot                  *)
(*   onboarding  sheriff onboard, at a terminal, which sets the vault up   *)
(*               anew and polls the bots itself                            *)
(*   commands    factory reset, /unlock, the boot check of the requests    *)
(*                                                                         *)
(* A gate lower-cases the code it is sent, the terminal upper-cases it;    *)
(* codes are drawn from A-Z and 0-9, so only one without a letter is the   *)
(* same in both.                                                           *)
(*                                                                         *)
(* Names that other components use too carry this module's: TelegramProofs *)
(* extends it together with TelegramListener.                              *)
(***************************************************************************)
EXTENDS Naturals, FiniteSets

CONSTANTS
  Users,           \* Telegram users
  Nobody,          \* no user
  Chats,           \* messages that are handled at the same time
  MaxMessages,     \* bound: messages to the bots
  MaxOnboardings   \* bound: runs of sheriff onboard

ASSUME ActivationAssumption ==
  /\ Nobody \notin Users
  /\ MaxMessages \in Nat /\ MaxOnboardings \in Nat

Bots == {"llm", "sheriff"}

VARIABLES
  lock,       \* "none" before there is a vault, "locked" or "open"
  bound,      \* bot_bindings: the user each role belongs to
  pending,    \* pending_activation: codes drawn and not claimed
  chat,       \* what handles each message
  onboard,    \* the run of sheriff onboard
  channel,    \* telegram_unlock_channel.json: the user it names
  policy,     \* master_policy.json: "allow", "deny" or "none"
  typed,      \* history: whose code of the role was typed into this vault
  oddTurn,    \* history: somebody unknown to the gate and not bound had a turn
  cut,        \* history: the last onboarding did not come to its end
  messages, onboardings  \* how many there were

vaultVars == <<lock, bound, pending>>
files == <<channel, policy>>
history == <<typed, oddTurn, cut>>
counters == <<messages, onboardings>>
activationVars == <<vaultVars, chat, onboard, files, history, counters>>
-----------------------------------------------------------------------------
(* The codes that somebody has or types; any other is as good as wrong. *)
InUse == pending \cup onboard.codes \cup {chat[k].code : k \in Chats}

(* A code is drawn: a number of its own, and whether it has a letter. *)
Code(r, u, kind) ==
  [n |-> CHOOSE n \in 0..Cardinality(InUse) : \A c \in InUse : c.n # n,
   kind |-> kind, role |-> r, user |-> u]

Lower(c) == IF c.kind = "letters" THEN [c EXCEPT !.kind = "lower"] ELSE c

NoCode == [n |-> 0, kind |-> "none", role |-> "none", user |-> Nobody]

NoChat == [step |-> "none", via |-> "none", role |-> "none", user |-> Nobody,
           says |-> "none", code |-> NoCode]

(* bots: the roles a token was given for; codes: those of this round *)
NotOnboarding == [step |-> "none", bots |-> {}, role |-> "none", codes |-> {}]

UnderWay(k) == chat[k].step # "none"

(* No vault, or that of an earlier onboarding, which has bound the sheriff *)
(* bot and been allowed to use it, or neither.                             *)
ActivationInit ==
  /\ \E u \in Users \cup {Nobody} :
       /\ bound = [r \in Bots |-> IF r = "sheriff" THEN u ELSE Nobody]
       /\ typed = [r \in Bots |-> IF r = "sheriff" THEN {u} \ {Nobody} ELSE {}]
       /\ channel = u
       /\ policy = IF u = Nobody THEN "none" ELSE "allow"
       /\ lock \in IF u = Nobody THEN {"none", "open"} ELSE {"open"}
  /\ pending = {}
  /\ chat = [k \in Chats |-> NoChat]
  /\ onboard = NotOnboarding
  /\ oddTurn = "no" /\ cut = "no"
  /\ messages = 0 /\ onboardings = 0
-----------------------------------------------------------------------------
(* The operations of the vault.  All but unlock raise while it is locked,  *)
(* and any of them may raise; the caller sees an empty answer then.        *)

Opens == lock' = IF lock = "none" THEN "none" ELSE "open"

(* create_activation_code *)
Draws(c) == pending' = pending \cup {c}

Good(r, c) == lock = "open" /\ c \in pending /\ c.role = r

(* Mutant: the newest code of the role is taken, whichever was typed. *)
Claims_Newest(r, c) ==
  LET open == {d \in pending : d.role = r}
      d == CHOOSE d \in open : \A e \in open : e.n <= d.n
  IN  IF Good(r, c)
      THEN /\ pending' = pending \ {d}
           /\ bound' = [bound EXCEPT ![r] = d.user]
           /\ typed' = [typed EXCEPT ![r] = @ \cup {c.user}]
      ELSE UNCHANGED <<pending, bound, typed>>

(* activate_with_code: a code of the role that is pending binds the user   *)
(* it was drawn for, whoever was bound before.                             *)
Claims(r, c) ==
  IF Good(r, c)
  THEN /\ pending' = pending \ {c}
       /\ bound' = [bound EXCEPT ![r] = c.user]
       /\ typed' = [typed EXCEPT ![r] = @ \cup {c.user}]
  ELSE UNCHANGED <<pending, bound, typed>>
-----------------------------------------------------------------------------
(* A user writes to the bot of role r.  The listener looks after /unlock   *)
(* itself; the webhook gives the llm bot's messages to ai-tg-llm, which    *)
(* does not ask about the lock.  A command to the llm bot is a message.    *)
FirstStep(via, r, says) ==
  IF via = "listener" /\ r = "sheriff" /\ says = "/unlock" THEN "unlock"
  ELSE IF via = "webhook" /\ r = "llm" THEN "status"
  ELSE "lock"

Message(k, via, r, u, says, c) ==
  /\ ~UnderWay(k)
  /\ messages < MaxMessages /\ messages' = messages + 1
  /\ c # NoCode => says = "activate" /\ c.user = u
  /\ says = "/unlock" => r = "sheriff"
  /\ chat' = [chat EXCEPT ![k] =
                [step |-> FirstStep(via, r, says), via |-> via, role |-> r,
                 user |-> u, says |-> says, code |-> c]]
  /\ UNCHANGED <<vaultVars, onboard, files, history, onboardings>>

At(k, step) == chat[k].step = step

Goto(k, step) == chat' = [chat EXCEPT ![k].step = step]

(* ... with what the message says done with *)
Past(k, step) == chat' = [chat EXCEPT ![k] = [@ EXCEPT !.step = step, !.via = "none",
                                            !.says = "none", !.code = NoCode]]

Ends(k) == chat' = [chat EXCEPT ![k] = NoChat]

chatOnly == <<files, onboard, oddTurn, cut, counters>>

(* is_unlocked: while the vault is locked both bots say so and no more;    *)
(* an answer that is an error counts as locked (Fail).                     *)
AskLock(k) ==
  /\ At(k, "lock")
  /\ IF lock = "open" THEN Goto(k, "status") ELSE Ends(k)
  /\ UNCHANGED <<vaultVars, typed, chatOnly>>

(* Accepted: the llm bot gives the message to the gateway, the sheriff bot *)
(* a command to sheriff-cli-gate.                                          *)
Accept(k) ==
  IF chat[k].role = "llm" THEN Past(k, "turn")
  ELSE IF chat[k].says = "/unlock" THEN Past(k, "unlock")
  ELSE Ends(k)

Unbound(k) == IF chat[k].says = "activate" THEN Goto(k, "claim") ELSE Past(k, "create")

(* activation.status.  A user who cannot be looked up, in a locked vault   *)
(* or for any other error, is not bound; ai-tg-llm accepts him all the     *)
(* same, and leaves it to the gateway to see that the vault is locked.     *)
AskStatus(k) ==
  LET r == chat[k].role
      u == chat[k].user
  IN  /\ At(k, "status")
      /\ \/ lock = "open" /\ bound[r] = u /\ Accept(k)
         \/ lock = "open" /\ bound[r] # u /\ Unbound(k)
         \/ IF chat[k].via = "webhook" /\ r = "llm" THEN Past(k, "fallback")
            ELSE Unbound(k)
      /\ UNCHANGED <<vaultVars, typed, chatOnly>>

(* activation.claim with the code in lower case; a refusal and an error    *)
(* both lead to a new code.                                                *)
Claim(k) ==
  LET r == chat[k].role
      c == Lower(chat[k].code)
  IN  /\ At(k, "claim")
      /\ \/ Claims(r, c) /\ (IF Good(r, c) THEN Ends(k) ELSE Past(k, "create"))
         \/ UNCHANGED <<pending, bound, typed>> /\ Past(k, "create")
      /\ UNCHANGED <<lock, files, onboard, oddTurn, cut, counters>>

(* activation.create; the code goes to the user in the answer, which has   *)
(* none after an error.                                                    *)
Create(k, kind) ==
  LET c == Code(chat[k].role, chat[k].user, kind)
  IN  /\ At(k, "create")
      /\ (lock = "open" /\ Draws(c)) \/ UNCHANGED pending
      /\ Ends(k)
      /\ UNCHANGED <<lock, bound, typed, chatOnly>>

(* The gateway has a turn for the message, if the vault is open by then or *)
(* an error keeps it from finding out.                                     *)
Turn(k) ==
  /\ At(k, "turn") \/ At(k, "fallback")
  /\ oddTurn' \in IF At(k, "turn") \/ bound[chat[k].role] = chat[k].user THEN {oddTurn}
                  ELSE IF lock = "open" THEN {"yes"} ELSE {oddTurn, "yes"}
  /\ Ends(k)
  /\ UNCHANGED <<vaultVars, files, onboard, typed, cut, counters>>

(* /unlock, with the right password or a wrong one.  sheriff-cli-gate has  *)
(* the requests service unlock once more, which changes nothing.           *)
Unlock(k) ==
  /\ At(k, "unlock")
  /\ Opens \/ UNCHANGED lock
  /\ Ends(k)
  /\ UNCHANGED <<bound, pending, typed, chatOnly>>

(* A request raises, and the handler answers with an error. *)
Fail(k) == UnderWay(k) /\ Ends(k) /\ UNCHANGED <<vaultVars, typed, chatOnly>>

Handle(k) ==
  \/ AskLock(k) \/ AskStatus(k) \/ Claim(k) \/ Turn(k) \/ Unlock(k) \/ Fail(k)
  \/ \E kind \in {"letters", "digits"} : Create(k, kind)
-----------------------------------------------------------------------------
(* sheriff onboard, with a token for each of bots.  To keep what there is, *)
(* it opens the vault first and reads the tokens and the provider.         *)
Onboard(bots, first) ==
  /\ onboard.step = "none"
  /\ onboardings < MaxOnboardings /\ onboardings' = onboardings + 1
  /\ first = "load" => lock # "none"
  /\ onboard' = [NotOnboarding EXCEPT !.step = first, !.bots = bots]
  /\ UNCHANGED <<vaultVars, chat, files, history, messages>>

In(step) == onboard.step = step

Onto(step) == onboard' = [onboard EXCEPT !.step = step]

LoadExisting ==
  /\ In("load")
  /\ Opens
  /\ Onto("initialize")
  /\ UNCHANGED <<bound, pending, chat, files, history, counters>>

(* secrets.initialize: a vault without codes and bindings, locked *)
Initialize ==
  /\ In("initialize")
  /\ lock' = "locked"
  /\ bound' = [r \in Bots |-> Nobody] /\ pending' = {}
  /\ typed' = [r \in Bots |-> {}]
  /\ cut' = "yes"
  /\ Onto("unlock")
  /\ UNCHANGED <<chat, files, oddTurn, counters>>

(* The activation of the bots that are left, the llm bot first *)
Activates(left) ==
  onboard' = IF left = {}
             THEN [onboard EXCEPT !.step = "policy", !.role = "none", !.codes = {},
                                  !.bots = @ \ {"llm"}]
             ELSE [onboard EXCEPT !.step = "look", !.codes = {},
                                  !.role = IF "llm" \in left THEN "llm" ELSE "sheriff"]

AfterBot == Activates(onboard.bots \ {"llm", onboard.role})

(* secrets.unlock, and on to the bots; without a terminal nobody waits for *)
(* activations.                                                            *)
UnlockAfter ==
  /\ In("unlock")
  /\ Opens
  /\ Activates(onboard.bots) \/ Onto("policy")
  /\ UNCHANGED <<bound, pending, chat, files, history, counters>>

onboardOnly == <<files, oddTurn, cut, counters>>

(* _telegram_activate_bot: one round of its loop begins with the status,   *)
(* which an error leaves unknown; five minutes are the end of it.          *)
Look ==
  /\ In("look")
  /\ AfterBot \/ Onto("poll")
  /\ UNCHANGED <<vaultVars, chat, typed, onboardOnly>>

(* A message came in, from somebody who has no code of this round yet and  *)
(* is not seen to be bound: he is drawn one and sent it, unless that fails.*)
Contact(u, kind) ==
  LET c == Code(onboard.role, u, kind)
  IN  /\ In("poll")
      /\ \A d \in onboard.codes : d.user # u
      /\ messages < MaxMessages /\ messages' = messages + 1
      /\ \/ /\ lock = "open" /\ Draws(c)
            /\ onboard' = [onboard EXCEPT !.codes = @ \cup {c}]
         \/ UNCHANGED <<pending, onboard>>
      /\ UNCHANGED <<lock, bound, chat, files, history, onboardings>>

PollEnds ==
  /\ In("poll")
  /\ Onto(IF onboard.codes = {} THEN "look" ELSE "type")
  /\ UNCHANGED <<vaultVars, chat, typed, onboardOnly>>

(* activation.claim with what is typed at the terminal, in upper case: a   *)
(* code that is pending for one of the bots, or a wrong one, or Ctrl-C     *)
Type ==
  LET r == onboard.role
  IN  /\ In("type")
      /\ \/ \E c \in pending : Claims(r, c) /\ (IF Good(r, c) THEN AfterBot ELSE Onto("look"))
         \/ (Onto("look") \/ AfterBot) /\ UNCHANGED <<bound, pending, typed>>
      /\ UNCHANGED <<lock, chat, onboardOnly>>

(* master_policy.json *)
WritePolicy(answer) ==
  /\ In("policy")
  /\ policy' = answer
  /\ Onto("channel")
  /\ UNCHANGED <<vaultVars, chat, channel, history, counters>>

Reachable == policy = "allow" /\ "sheriff" \in onboard.bots /\ lock = "open"

(* Mutant: what is there stays when nobody is seen to be bound. *)
WriteChannel_NotCleared ==
  /\ In("channel")
  /\ channel' \in {channel} \cup (IF Reachable THEN {bound["sheriff"]} \ {Nobody} ELSE {})
  /\ Onto("start")
  /\ UNCHANGED <<vaultVars, chat, policy, history, counters>>

(* telegram_unlock_channel.json: the user bound to the sheriff bot, if     *)
(* unlocking by Telegram is allowed, the bot has a token, and the vault    *)
(* says whom it belongs to.                                                *)
WriteChannel ==
  /\ In("channel")
  /\ channel' \in {Nobody} \cup (IF Reachable THEN {bound["sheriff"]} ELSE {})
  /\ Onto("start")
  /\ UNCHANGED <<vaultVars, chat, policy, history, counters>>

(* The services are started, and the vault unlocked if it is not seen to   *)
(* be open; a failure of that is a warning.                                *)
StartAll ==
  /\ In("start")
  /\ Opens \/ UNCHANGED lock
  /\ onboard' = NotOnboarding
  /\ cut' = "no"
  /\ UNCHANGED <<bound, pending, chat, files, typed, oddTurn, counters>>

(* Ctrl-C, or a request that fails *)
OnboardCut ==
  /\ onboard.step # "none"
  /\ onboard' = NotOnboarding
  /\ UNCHANGED <<vaultVars, chat, files, history, counters>>

Onboarding ==
  \/ LoadExisting \/ Initialize \/ UnlockAfter \/ Look \/ PollEnds \/ Type
  \/ \E u \in Users, kind \in {"letters", "digits"} : Contact(u, kind)
  \/ \E answer \in {"allow", "deny"} : WritePolicy(answer)
  \/ WriteChannel \/ StartAll \/ OnboardCut
-----------------------------------------------------------------------------
(* secrets.lock, or a restart of sheriff-secrets without its session file *)
Lock ==
  /\ lock = "open"
  /\ lock' = "locked"
  /\ UNCHANGED <<bound, pending, chat, onboard, files, history, counters>>

(* cmd_factory_reset: no service, no state *)
FactoryReset ==
  /\ onboard.step = "none" /\ lock # "none"
  /\ lock' = "none" /\ bound' = [r \in Bots |-> Nobody] /\ pending' = {}
  /\ chat' = [k \in Chats |-> NoChat]
  /\ channel' = Nobody /\ policy' = "none"
  /\ typed' = [r \in Bots |-> {}] /\ cut' = "no"
  /\ UNCHANGED <<onboard, oddTurn, counters>>

ActivationNext ==
  \/ \E k \in Chats :
       \/ Handle(k)
       \/ \E via \in {"listener", "webhook"}, r \in Bots, u \in Users :
            \E says \in {"hello", "/unlock", "activate"}, c \in pending \cup {NoCode} :
              Message(k, via, r, u, says, c)
  \/ \E bots \in SUBSET Bots, first \in {"load", "initialize"} : Onboard(bots, first)
  \/ Onboarding
  \/ Lock \/ FactoryReset

ActivationSpec == ActivationInit /\ [][ActivationNext]_activationVars
-----------------------------------------------------------------------------
CodeType == [n : Nat, kind : {"letters", "digits"}, role : Bots, user : Users]

ActivationTypeOK ==
  /\ lock \in {"none", "locked", "open"}
  /\ bound \in [Bots -> Users \cup {Nobody}]
  /\ pending \subseteq CodeType
  /\ channel \in Users \cup {Nobody} /\ policy \in {"none", "allow", "deny"}
  /\ \A c, d \in pending : c.n = d.n => c = d

(* A role belongs to a user whose own code was typed for it, at a bot or   *)
(* at the terminal, since the vault was set up: neither another user's     *)
(* code nor a binding of an earlier vault counts (activate_with_code,      *)
(* lines 327 to 337), whatever gates and onboarding do in between.         *)
BoundHasTyped ==
  \A r \in Bots : bound[r] # Nobody => bound[r] \in typed[r]

(* "Fall back to gateway lock handling" (ai_tg_llm, line 30): whoever is   *)
(* let through because the vault could not be asked about him is stopped   *)
(* by the lock, so nobody the bot does not belong to has a turn.  Does not *)
(* hold: the lock is asked later than the binding, and both may err.       *)
LockMeetsTheUnknown == oddTurn = "no"

(* Notices that a command sends by the unlock channel go to the user the   *)
(* sheriff bot belongs to, and only if he has allowed it, except after an  *)
(* onboarding that was cut short, or a later claim of the role.            *)
ChannelIsBound ==
  cut = "no" /\ channel # Nobody =>
    /\ policy = "allow"
    /\ channel \in typed["sheriff"]
    /\ typed["sheriff"] = {channel} => bound["sheriff"] = channel

(* "Reply: activate {code}" (telegram_webhook, line 79): who replies with  *)
(* a code he was sent asks for a code that is good.  Does not hold for a   *)
(* code with a letter.                                                     *)
ReplyActivates ==
  \A k \in Chats :
    LET c == chat[k].code
    IN  At(k, "claim") /\ Good(chat[k].role, c) => Good(chat[k].role, Lower(c))
=============================================================================
