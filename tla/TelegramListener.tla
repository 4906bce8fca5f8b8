-------------------------- MODULE TelegramListener --------------------------
(***************************************************************************)
(* The telegram-listener service (services/telegram_listener/service.py):  *)
(* one loop that polls the two bots, and one asyncio task per message.     *)
(*                                                                         *)
(* The loop and the tasks share one ProcClient of the gateway.  Its lock   *)
(* admits one request at a time, in the order they came: the loop's        *)
(* requests for the bots' tokens queue with the tasks' turns.  ProcRpc is  *)
(* that client in detail; here a connection is as good as the next request *)
(* on it.  The HTTP calls to Telegram block the event loop, so that from   *)
(* the first poll to the end of the save no task runs.                     *)
(*                                                                         *)
(* Left out: what messages say, the notice that a token is missing, and    *)
(* updates that are not messages with a text.                              *)
(***************************************************************************)
EXTENDS Naturals, Sequences, FiniteSets, SequencesExt

CONSTANTS
  Messages,     \* what users write to the bots
  LlmInbox,     \* the messages to the llm bot, by update id
  SheriffInbox, \* the messages to the sheriff bot, by update id
  Loop,         \* run_forever, as a user of the gateway client
  Mirrored,     \* roles whose token telegram_unlock_channel.json holds
  MaxFaults     \* bound: crashes of the listener, restarts of the gateway,
                \* polls and connections that fail, taken together

Roles == {"llm", "sheriff"}
Inbox == [r \in Roles |-> IF r = "llm" THEN LlmInbox ELSE SheriffInbox]

ASSUME TelegramListenerAssumption ==
  /\ Loop \notin Messages
  /\ LlmInbox \in Seq(Messages) /\ SheriffInbox \in Seq(Messages)
  /\ IsInjective(LlmInbox) /\ IsInjective(SheriffInbox)
  /\ Range(LlmInbox) \cap Range(SheriffInbox) = {}
  /\ Mirrored \subseteq Roles
  /\ MaxFaults \in Nat

Clients == Messages \cup {Loop}

VARIABLES
  sent,       \* Telegram: how many messages each bot was sent
  confirmed,  \* Telegram: the offset each bot was last asked for
  offset,     \* offsets, in memory
  saved,      \* telegram_offsets.json
  loop,       \* where run_forever is
  live,       \* the tokens this cycle got from the vault
  cache,      \* telegram_tokens_cache.json: the roles with a token
  task,       \* what the task of each message is doing
  line,       \* who has the gateway client's lock, and who waits for it
  connecting, \* who waits for open_connection
  link,       \* the client's connection to the gateway
  reading,    \* what the lock's holder is reading from
  dispatched, \* history: how often each message was given a task
  faults      \* how many of each kind there have been

telegramVars == <<sent, confirmed>>
pollVars == <<offset, saved, cache>>
clientVars == <<line, connecting, link, reading>>
vars == <<sent, confirmed, offset, saved, loop, live, cache, task, line,
          connecting, link, reading, dispatched, faults>>
-----------------------------------------------------------------------------
(* The requests of a task: is the vault unlocked, whose bot is it, claim   *)
(* or create an activation code, the turn; or unlock the vault.  "gate" is *)
(* a command that goes to the tg-gate and the cli-gate, over connections   *)
(* of their own.                                                           *)
Requesting == {"check", "status", "claim", "create", "turn", "unlock"}
Active == Requesting \cup {"gate"}
TaskState == {"none", "over", "lost"} \cup Active

(* "cut" is a connection the gateway has closed during a request, "eof"    *)
(* one it closed before: the next write is swallowed ("broken"), the one   *)
(* after that fails ("closed").  "poisoned": a request timed out on it.    *)
LinkState == {"up", "poisoned", "cut", "eof", "broken", "closed"}

Asking == {"llmToken", "sheriffToken"}
Blocking == {"llm", "sheriff", "save"}

Known == cache \cup Mirrored

Fault(kind) ==
  /\ faults.crashes + faults.restarts + faults.failures < MaxFaults
  /\ faults' = [faults EXCEPT ![kind] = @ + 1]

(* x makes a request, once the line is l and the link k: it queues for the *)
(* lock, or opens a connection first.                                      *)
Join(l, k, xs) ==
  \/ k # "closed" /\ line' = l \o xs /\ UNCHANGED connecting
  \/ k = "closed" /\ line' = l /\ connecting' = connecting \cup Range(xs)

Leave(l) == line' = l /\ UNCHANGED connecting
-----------------------------------------------------------------------------
Init ==
  /\ sent = [r \in Roles |-> 0] /\ confirmed = [r \in Roles |-> 0]
  /\ offset = [r \in Roles |-> 0] /\ saved = [r \in Roles |-> 0]
  /\ loop = "rest" /\ live = {}
  /\ cache = {}
  /\ task = [m \in Messages |-> "none"]
  /\ line = <<>> /\ connecting = {}
  /\ link = "closed" /\ reading = "current"
  /\ dispatched = [m \in Messages |-> 0]
  /\ faults = [crashes |-> 0, restarts |-> 0, failures |-> 0]

(* A user writes to a bot. *)
Send(r) ==
  /\ sent[r] < Len(Inbox[r])
  /\ sent' = [sent EXCEPT ![r] = @ + 1]
  /\ UNCHANGED <<confirmed, loop, live, task, dispatched, faults>>
  /\ UNCHANGED pollVars /\ UNCHANGED clientVars

(* The loop wakes and asks for the llm bot's token. *)
Cycle ==
  /\ loop = "rest"
  /\ loop' = "llmToken"
  /\ live' = {}
  /\ Join(line, link, <<Loop>>)
  /\ UNCHANGED <<task, link, reading, dispatched, faults>>
  /\ UNCHANGED telegramVars /\ UNCHANGED pollVars

(* start() has opened a connection, which replaces the one there is.  A    *)
(* request in progress goes on with the old one, if that is any good.      *)
Connected(x) ==
  /\ x \in connecting
  /\ loop \notin Blocking
  /\ connecting' = connecting \ {x}
  /\ line' = Append(line, x)
  /\ link' = "up"
  /\ reading' = IF line = <<>> \/ reading # "current" THEN reading
                ELSE IF link = "up" THEN "old" ELSE "dead"
  /\ UNCHANGED <<loop, live, task, dispatched, faults>>
  /\ UNCHANGED telegramVars /\ UNCHANGED pollVars

(* What x does when its request raises: the loop starts over after a       *)
(* pause, a task tells its user and ends.                                  *)
GiveUp(x) ==
  /\ loop' = IF x = Loop THEN "rest" ELSE loop
  /\ task' = IF x = Loop THEN task ELSE [task EXCEPT ![x] = "over"]

(* Mutant: the exception ends run_forever. *)
OpenFails_LoopDies(x) ==
  /\ x \in connecting
  /\ Fault("failures")
  /\ connecting' = connecting \ {x}
  /\ loop' = loop
  /\ task' = IF x = Loop THEN task ELSE [task EXCEPT ![x] = "over"]
  /\ link' = "closed"
  /\ UNCHANGED <<live, line, reading, dispatched>>
  /\ UNCHANGED telegramVars /\ UNCHANGED pollVars

OpenFails(x) ==
  /\ x \in connecting
  /\ loop \notin Blocking
  /\ Fault("failures")
  /\ connecting' = connecting \ {x}
  /\ GiveUp(x)
  /\ link' = "closed"
  /\ UNCHANGED <<live, line, reading, dispatched>>
  /\ UNCHANGED telegramVars /\ UNCHANGED pollVars
-----------------------------------------------------------------------------
(* The holder of the lock, and the line behind it. *)
Holds(x) ==
  /\ line # <<>> /\ x = Head(line)
  /\ loop \notin Blocking

(* The answer comes.  The lock passes on before the holder goes on. *)
Answerable == reading = "old" \/ (reading = "current" /\ link = "up")

(* get_llm_bot_token, get_gate_bot_token: a locked vault has no tokens to  *)
(* give, and what is cached is used.  The vault is locked and unlocked     *)
(* from elsewhere, so each answer is either.                               *)
TokenAnswered ==
  /\ Holds(Loop) /\ Answerable
  /\ reading' = "current"
  /\ \/ /\ loop = "llmToken" /\ loop' = "sheriffToken"
        /\ live' \in {{}, {"llm"}}
        /\ Join(Tail(line), link, <<Loop>>)
        /\ UNCHANGED cache
     \/ /\ loop = "sheriffToken" /\ loop' = "llm"
        /\ cache' \in {cache \cup live, cache \cup live \cup {"sheriff"}}
        /\ live' = {}
        /\ Leave(Tail(line))
  /\ UNCHANGED <<offset, saved, task, link, dispatched, faults>>
  /\ UNCHANGED telegramVars

(* The next request of a task in state t, "over" if there is none.  A      *)
(* locked vault knows no user and makes no activation codes.               *)
NextRequest(t) ==
  CASE t = "check"  -> {"status", "over"}
    [] t = "status" -> {"turn", "claim", "create"}
    [] t = "claim"  -> {"over", "create"}
    [] t \in {"create", "turn", "unlock"} -> {"over"}

TaskAnswered(m) ==
  /\ Holds(m) /\ Answerable
  /\ reading' = "current"
  /\ \E t \in NextRequest(task[m]) :
       /\ task' = [task EXCEPT ![m] = t]
       /\ IF t = "over" THEN Leave(Tail(line)) ELSE Join(Tail(line), link, <<m>>)
  /\ UNCHANGED <<loop, live, link, dispatched, faults>>
  /\ UNCHANGED telegramVars /\ UNCHANGED pollVars

(* Nothing comes for CHAT_REQUEST_TIMEOUT_SEC.  The answer, when it comes, *)
(* will be in the way of the next request (ProcRpc, PoisonedUntilReplaced). *)
Timeout(x) ==
  /\ Holds(x) /\ Answerable
  /\ link' = IF reading = "current" THEN "poisoned" ELSE link
  /\ reading' = "current"
  /\ Leave(Tail(line))
  /\ GiveUp(x)
  /\ UNCHANGED <<live, dispatched, faults>>
  /\ UNCHANGED telegramVars /\ UNCHANGED pollVars

(* Mutant: the lock is not given back. *)
RequestFails_LockKept(x) ==
  /\ Holds(x)
  /\ reading = "current" /\ link # "up"
  /\ GiveUp(x)
  /\ UNCHANGED <<live, line, connecting, link, reading, dispatched, faults>>
  /\ UNCHANGED telegramVars /\ UNCHANGED pollVars

(* ProtocolError or ServiceCrashedError, by the state of the connection. *)
RequestFails(x) ==
  /\ Holds(x)
  /\ reading # "current" \/ link # "up"
  /\ link' = IF reading # "current" THEN link
             ELSE CASE link = "cut" -> "eof"
                    [] link = "eof" -> "broken"
                    [] link \in {"broken", "closed"} -> "closed"
                    [] link = "poisoned" -> "poisoned"
  /\ reading' = "current"
  /\ Leave(Tail(line))
  /\ GiveUp(x)
  /\ UNCHANGED <<live, dispatched, faults>>
  /\ UNCHANGED telegramVars /\ UNCHANGED pollVars

(* The gates have answered; their clients have locks of their own. *)
GateAnswered(m) ==
  /\ task[m] = "gate"
  /\ loop \notin Blocking
  /\ task' = [task EXCEPT ![m] = "over"]
  /\ UNCHANGED <<loop, live, dispatched, faults>>
  /\ UNCHANGED telegramVars /\ UNCHANGED pollVars /\ UNCHANGED clientVars
-----------------------------------------------------------------------------
AfterPoll(r) == loop' = IF r = "llm" THEN "sheriff" ELSE "save"

(* The sheriff bot's /unlock goes where its other commands do not. *)
FirstRequests(r) == IF r = "llm" THEN {"check"} ELSE {"unlock", "gate"}

(* The updates Telegram has for a bot that asks from o on: it has deleted  *)
(* what came before the offset it was asked for last.                      *)
Fetched(r, o) ==
  SubSeq(Inbox[r], CHOOSE i \in {1, o, confirmed[r]} :
                     \A j \in {1, o, confirmed[r]} : j <= i, sent[r])

(* The messages of S in the order of the batch *)
InOrder(batch, S) ==
  LET at == {i \in DOMAIN batch : batch[i] \in S}
      orders == {f \in [1..Cardinality(at) -> at] :
                   Range(f) = at /\ \A k, l \in DOMAIN f : k < l => f[k] < f[l]}
  IN  {[k \in DOMAIN f |-> batch[f[k]]] : f \in orders}

(* Mutants of the poll: it does not advance, it skips one, the newest      *)
(* message goes first.                                                     *)
Dispatch(r, batch, next) ==
  \E first \in [Range(batch) -> FirstRequests(r)] :
    /\ task' = [m \in Messages |-> IF m \in Range(batch) THEN first[m] ELSE task[m]]
    /\ dispatched' = [m \in Messages |->
                        dispatched[m] + IF m \in Range(batch) THEN 1 ELSE 0]
    /\ \E asking \in InOrder(batch, {m \in Range(batch) : first[m] # "gate"}) :
         Join(line, link, asking)
    /\ offset' = [offset EXCEPT ![r] = next]
    /\ confirmed' = [confirmed EXCEPT ![r] = IF offset[r] > @ THEN offset[r] ELSE @]

NextOffset(r) == IF Fetched(r, offset[r]) = <<>> THEN offset[r] ELSE sent[r] + 1

Polls(r) ==
  /\ loop = r /\ r \in Known
  /\ AfterPoll(r)
  /\ UNCHANGED <<sent, saved, live, cache, link, reading, faults>>

Poll_Stays(r) == Polls(r) /\ Dispatch(r, Fetched(r, offset[r]), offset[r])
Poll_Skips(r) == Polls(r) /\ Dispatch(r, Fetched(r, offset[r]), NextOffset(r) + 1)
Poll_NewestFirst(r) ==
  Polls(r) /\ Dispatch(r, Reverse(Fetched(r, offset[r])), NextOffset(r))

(* getUpdates; every message gets a task, which begins with a request.     *)
Poll(r) == Polls(r) /\ Dispatch(r, Fetched(r, offset[r]), NextOffset(r))

(* There is no token, or the HTTP request fails. *)
PollsNothing(r) ==
  /\ loop = r
  /\ \/ r \notin Known /\ UNCHANGED faults
     \/ r \in Known /\ Fault("failures")
  /\ AfterPoll(r)
  /\ UNCHANGED <<live, task, dispatched>>
  /\ UNCHANGED telegramVars /\ UNCHANGED pollVars /\ UNCHANGED clientVars

Save ==
  /\ loop = "save"
  /\ loop' = "rest"
  /\ saved' = offset
  /\ UNCHANGED <<offset, live, cache, task, dispatched, faults>>
  /\ UNCHANGED telegramVars /\ UNCHANGED clientVars
-----------------------------------------------------------------------------
(* The listener dies and is started again.  The file is not replaced       *)
(* atomically: what cannot be read counts as no offsets.                   *)
Crash ==
  /\ Fault("crashes")
  /\ saved' \in {saved} \cup IF loop = "save" THEN {offset, [r \in Roles |-> 0]} ELSE {}
  /\ offset' = saved'
  /\ loop' = "rest" /\ live' = {}
  /\ task' = [m \in Messages |-> IF task[m] \in Active THEN "lost" ELSE task[m]]
  /\ line' = <<>> /\ connecting' = {}
  /\ link' = "closed" /\ reading' = "current"
  /\ UNCHANGED <<cache, dispatched>>
  /\ UNCHANGED telegramVars

(* The gateway restarts; the connection is closed or reset. *)
GatewayRestart ==
  /\ link \in {"up", "poisoned"}
  /\ Fault("restarts")
  /\ link' \in {IF line = <<>> THEN "eof" ELSE "cut", "closed"}
  /\ reading' = IF reading = "old" THEN "dead" ELSE reading
  /\ UNCHANGED <<loop, live, task, line, connecting, dispatched>>
  /\ UNCHANGED telegramVars /\ UNCHANGED pollVars

(* What x does by itself, at the gateway client and for the loop. *)
Steps(x) ==
  \/ Connected(x) \/ Timeout(x) \/ RequestFails(x)
  \/ x = Loop /\ (TokenAnswered \/ Cycle \/ Save
                  \/ \E r \in Roles : Poll(r) \/ PollsNothing(r))
  \/ x # Loop /\ (TaskAnswered(x) \/ GateAnswered(x))

Next ==
  \/ \E r \in Roles : Send(r)
  \/ \E x \in Clients : Steps(x) \/ OpenFails(x)
  \/ Crash
  \/ GatewayRestart

Spec == Init /\ [][Next]_vars

(* HTTP requests and reads time out.  A task can run only between the      *)
(* loop's blocking calls; asyncio runs whatever is ready first come first  *)
(* served, so what is ready again and again gets its turn.                 *)
FairSpec ==
  /\ Spec
  /\ WF_vars(Steps(Loop))
  /\ \A m \in Messages : SF_vars(Steps(m))
-----------------------------------------------------------------------------
(* Everything has the shape its comment gives it, and who has a request to *)
(* make is in the line or connecting, once.                                *)
TypeOK ==
  /\ sent \in [Roles -> Nat] /\ confirmed \in [Roles -> Nat]
  /\ offset \in [Roles -> Nat] /\ saved \in [Roles -> Nat]
  /\ loop \in {"rest"} \cup Asking \cup Blocking
  /\ live \in SUBSET Roles /\ cache \in SUBSET Roles
  /\ task \in [Messages -> TaskState]
  /\ line \in Seq(Clients) /\ connecting \in SUBSET Clients
  /\ link \in LinkState /\ reading \in {"current", "old", "dead"}
  /\ dispatched \in [Messages -> Nat]
  /\ faults \in [{"crashes", "restarts", "failures"} -> 0..MaxFaults]
  /\ IsInjective(line)
  /\ Range(line) \cap connecting = {}
  /\ Range(line) \cup connecting =
       {m \in Messages : task[m] \in Requesting}
         \cup (IF loop \in Asking THEN {Loop} ELSE {})

(* No message is lost on the way: an update that Telegram has deleted, or  *)
(* that a listener started anew will not ask for, was given a task.        *)
ForgottenIsDispatched ==
  \A r \in Roles : \A i \in 1..sent[r] :
    i < saved[r] \/ i < confirmed[r] => dispatched[Inbox[r][i]] > 0

(* One process gives a message one task, whatever fails in its loop.       *)
OncePerProcess == \A m \in Messages : dispatched[m] <= 1 + faults.crashes

(* Turns go to the gateway in the order of the messages: the three         *)
(* requests of each task queue first come first served, so none overtakes  *)
(* another.  (After a restart of the gateway, tasks that reconnect at the  *)
(* same time may.)                                                         *)
TurnsInOrder ==
  faults.restarts = 0 =>
    \A i, j \in DOMAIN LlmInbox : i < j /\ task[LlmInbox[j]] = "turn" =>
      /\ task[LlmInbox[i]] \notin {"check", "status"}
      /\ task[LlmInbox[i]] = "turn" =>
           \A k, l \in DOMAIN line :
             line[k] = LlmInbox[i] /\ line[l] = LlmInbox[j] => k < l

(* The task of every message ends, whoever holds the lock before it.       *)
TaskEnds == \A m \in Messages : task[m] \in Active ~> task[m] \notin Active

(* A message to a bot whose token is known is picked up, unless the        *)
(* connection to the gateway is poisoned for good.                         *)
SentIsDispatched ==
  \A r \in Roles : \A i \in DOMAIN Inbox[r] :
    \/ <>[](link = "poisoned")
    \/ (sent[r] >= i /\ r \in Known) ~> dispatched[Inbox[r][i]] > 0

(* "Fire and forget to prevent blocking the polling loop with long-running *)
(* agent tasks" (service.py:310): the loop polls again and again.          *)
PollingGoesOn == []<>(loop = "save")
=============================================================================
