# SheriffClaw in TLA+

SheriffClaw runs an AI agent behind a set of small services that keep its
secrets and decide what it may do. This directory holds TLA+ models of those
services and of how they are set up, started and stopped, TLC runs that check
them on small instances, and TLAPS proofs about all of them for instances of any
size. Paths below are relative to the repository's root.

## 1. The system

Every service is one Python process with one asyncio event loop. A service
answers newline-delimited JSON requests (`shared/service_base.py`), one at a
time per connection and concurrently over its connections, and calls other
services through a `ProcClient` (`shared/proc_rpc.py`), whose lock admits one
request at a time. So the concurrency of the system is: handlers of one
service that interleave at every `await`, services that interleave with each
other, timeouts on either side of a call, and processes that are killed and
started by `sheriff` commands.

```
 Telegram -- telegram-listener --\
                                  >-- sheriff-gateway -- codex-mcp-host -- codex mcp-server
 sheriff chat -- chat-proxy -----/       |      \            |
                                         |       \       scheduler
             sheriff-requests -- sheriff-policy   sheriff-secrets (vault)
                 |        \
     sheriff-tg-gate    sheriff-tools      sheriff-cli-gate   sheriff-updater
```

### Components

| Component | State it keeps | Operations | What makes it correct |
|---|---|---|---|
| **gateway queue** `services/sheriff_gateway/service.py` | per principal a deque of messages, the set of busy principals, a pause flag, `message_queue.jsonl` | `handle_user_message`, `queue_control`, `queue_status` | one turn per principal, in order; no lost wakeup; a pause holds; every message ends |
| **gateway turns and sessions** (same file), `services/sheriff_chat_proxy`, `services/sheriff_ctl/chat.py` | known sessions; the terminal's remembered password | `_process_message`, `session.reset`, `notify_request_resolved` | a thread holds its conversation and no other; one answer per turn; no prompt past a locked vault; resolutions reach the agent that waits |
| **update command** `services/sheriff_ctl/system.py` | none but its place in the sequence | `cmd_update` | does not interrupt a turn |
| **RPC** `shared/proc_rpc.py`, `shared/service_base.py` | connection, lock, frames in transit | `request`, `close`, `handle_client` | at most one execution, before the answer; a given-up request answers nobody; every call ends |
| **requests** `services/sheriff_requests/service.py` | `requests.db`: catalogue entries and request instances | `create_or_update`, `resolve_*`, `boot_check`, `unlock`, `search` | agrees with the policy and the vault; a refused agent is waited for by somebody |
| **policy** `services/sheriff_policy/service.py` | `permissions.db` | `get_decision`, `set_decision` | default is to ask |
| **tools** `services/sheriff_tools/service.py` | tainted output | `exec` | runs what was granted |
| **gates** `services/sheriff_tg_gate`, `sheriff_cli_gate` | a log; commands of the user | `notify_request`, `inbound_message`, `handle_message` | the user hears of requests; only the bound user is heard |
| **codex host** `services/ai_worker/service.py`, `shared/codex_session_manager.py`, `shared/codex_mcp/` | the MCP server process, two locks | `session.ensure`, `send`, `hydrate`, `invalidate` | one server; a session talks to its own, live thread; requests end |
| **session registry** `shared/session_registry.py` | `sessions.json` | `bind_thread`, `invalidate_session`, `mark_restart_generation` | names no thread of a former host |
| **telegram listener** `services/telegram_listener/service.py` | offsets, token cache, one task per message | poll loop, message handlers | no message lost or doubled; order kept; goes on polling |
| **vault** `shared/secrets_state.py`, `services/sheriff_secrets` | encrypted key-value database, verifier, unlock session file, activation codes | `initialize`, `unlock`, `lock`, `set_secret`, `activation.*` | a crash loses no secret; nothing of one password is read under another; locked stays locked |
| **activation** `services/telegram_webhook`, `services/ai_tg_llm`, `services/sheriff_tg_gate`, `services/sheriff_ctl/onboard.py` | codes and bindings in the vault, `master_policy.json`, `telegram_unlock_channel.json` | `inbound_message`, `cmd_onboard`, `cmd_factory_reset` | a bot listens to the user who proved his code, and notices go to him |
| **scheduler** `services/sheriff_scheduler/service.py` | `maintenance_state.json` | daily update, heartbeat | due jobs run; what the file says is running runs |
| **service manager** `shared/service_manager.py` | pid files, `remote_update.pid` | `start`, `stop`, kill by name; `sheriff start`, `stop`, `update`, `/update` | one process per service, none of the old ones after a restart |
| **task store, memory** `shared/task_store.py`, `shared/agent_repo.py` | JSON and markdown files | create, update, add references | concurrent writers do not undo each other |
| **updater** `services/sheriff_updater`, `shared/component_versions.py` | applied versions | `plan`, `run` | versions recorded are those installed |
| secure web, login, skills, log, debug tools, the rest of the control program | little or none | | see section 7 |

### What is hard here

* **Interleaving and atomicity.** `start()` of a client, `ensure_started` of the
  runtime and `send_message` check something and use it after an `await`.
  Resolving a request writes to two databases and then sends two messages.
* **Timeouts.** A request that times out leaves its answer on the way. The
  service goes on executing it.
* **Crash and restart.** Offsets, queue and sessions are partly on disk and
  partly in memory; an update pauses the queue and may be killed; the vault is
  initialised by a sequence of writes; commands that start and stop services
  are interrupted half way.
* **Partial failure.** A vault that locks between two calls, a gate that
  cannot reach Telegram, a turn that raises.
* **Liveness.** Waiters on one condition variable, a polling loop behind the
  same lock as the turns, an agent that waits for an approval.

The hazards are listed one by one, with their lines and the properties that
cover them, in `PROJECT.json`.

## 2. The modules

| Module | Models | Kind |
|---|---|---|
| `GatewayQueue` | the queue, the journal, restarts, `cmd_update` | state machine |
| `SerialTurns` | what the queue promises a principal: a line, turns at its head | abstract specification |
| `GatewayQueueProofs` | theorems about `GatewayQueue` and `Scheduler` | proofs |
| `ProcRpc` | one `ProcClient` shared by tasks, and the service's connections | state machine |
| `AtomicRpc` | what a caller may count on: at most one execution, before the answer | abstract specification |
| `ProcRpcProofs` | theorems about `ProcRpc` | proofs |
| `Approvals` | tools, requests, policy, vault, gate and the gateway's news to the agent | composition of six services |
| `ApprovalsProofs` | theorems about `Approvals` | proofs |
| `CodexHost` | session operations, registry, runtime, MCP client, MCP server | composition of four classes |
| `CodexHostProofs` | theorems about `CodexHost` | proofs |
| `TelegramListener` | poll loop, message tasks, their gateway client, Telegram's offsets | state machine |
| `Vault` | `secrets_state.py`: verifier, rows, session file, password in memory, `initialize` write by write | state machine |
| `AbstractVault` | what the vault promises: a map that changes only while open | abstract specification |
| `VaultProofs` | theorems about `Vault` | proofs |
| `ServiceLifecycle` | the service manager, the commands that use it, remote updates, processes and pids | composition of commands and processes |
| `ServiceLifecycleProofs` | theorems about `ServiceLifecycle` | proofs |
| `Activation` | codes and bindings, both bots' gates, the webhook and the listener, onboarding, factory reset | composition of five parties |
| `TelegramProofs` | theorems about `TelegramListener` and `Activation` | proofs |
| `Scheduler` | the scheduler's loop, called runs, its state file | state machine |
| `Conversation` | a turn through vault and host, sessions, resets, news of decisions, the terminal's password | composition of gateway, vault, host and terminal |
| `ConversationProofs` | theorems about `Conversation` | proofs |
| `MC...` | the instance TLC checks of each | model constants |

Definitions whose names contain an underscore (`MayStart_NotOnlyHead`) are
mutants: a plausible mistake in the definition before the underscore, by which
one sees that a property would notice it. No specification uses them.

`TelegramProofs` and `GatewayQueueProofs` each extend two components. So that these can be
extended together, `Activation` and `Scheduler` have their own name in front of `Init`, `Next`,
`Spec` and what else both would define; they share no variable and no action with the other.

### GatewayQueue

A message is an asyncio task; `task[m]` says where it is: `waiting` in
`Condition.wait`, `notified` (woken, the lock not yet reacquired), in its
`turn`, or ended. `queue`, `processing` and `flow` are `_queue`, `_processing`
and `_queue_paused`. Everything the code does under the condition's lock
without awaiting is one step: `Receive` is lines 231-248, `Recheck` one round of
the wait loop, `Release` the `finally` block, `QueueControl` lines 284-292.
`journal` is `message_queue.jsonl`. `Restart` clears what is in memory.
`update` is one `sheriff update` process: it pauses, polls `queue_status`,
runs the updater, unpauses and restarts the services, and may be killed
between any two of these.

### ProcRpc

`phase[t]` is where a caller is: opening a connection, waiting for the lock,
reading. `link[c]` is what the client's transport believes of a connection,
with the two faces of a half-open one: after the peer has closed its end the
first write is swallowed and the second fails. `toServer` and `toClient` are the
frames under way; `serving` is the handler of a connection. `Timeout` gives up
without closing the connection, as lines 173-181 do, so that the late answer
raises `ProtocolError` in the next request, and that request's answer in the one
after: the client never recovers until the connection is replaced
(`PoisonedUntilReplaced`).

### Approvals

`catalog` and `policy` are the two databases, `stored` and `vault` the vault. An agent's
call goes through the steps of `exec_tool`, its secrets fetched and asked for one after the
other; a resolution through those of `resolve_tool` and `resolve_secret`. Each awaited request
is a step of its own, each database transaction one step. A resolution is the user's, through a
gate (`Resolve`), or comes from an agent's turn (`AgentResolves`), since the gateway forwards any
operation that begins with `requests.` (lines 279 to 281). `SetDecision` may be answered with an error,
which nobody looks at, and `SetDecisionRaises` ends the resolution with or without the policy
written; a write that comes later than the timeout counts as one at the raise.
`asked`, `mail` and `blocked` follow what
the user has been asked and the agents have been told; news are a turn of the session
`telegram_<user>`, so only the agent of that session (`NewsSession`) is followed in `blocked`.

Three history variables say what to hold the code to. `allowed` is what any resolution has ever
allowed or provided, whoever made it. `unsettled` has the tools whose last resolution met another one
of the same tool, was cut short, or was not heard by the policy; a tool leaves it when it is next resolved.
`faults` records what has gone wrong, so that a property can name the faults it survives.

`Exec`, `Request` and `AgentResolves` are `tool.call` frames of an agent's turn. The gateway
handles them and the codex host of this commit never sends one (section 7), so the module describes
the path as the five services implement it, not one that a conversation takes today. "It can only access services you
explicitly approve" (`README.md:50`) depends on that:
on the modelled path an agent may resolve its own request, and `OnlyGrantedRuns` does not say by whom
a grant was made. `requests.submit_master_password`, forwarded alike, is `UnlockVault`. What else an exec
asks for (`is_unlocked`, `get_secret`, the policy) is bounded by its client and, when it raises, ends the call as if it
had not been made.

### CodexHost

A handler serves a connection of the host. Its `phase` says which lock or answer
it waits for: the runtime's lock, the start or stop of the server, the client's
request lock, the answer. `servers` has one entry per server process,
`threads` one per conversation with the session it was opened for and the server that
holds it; `bound` is `sessions.json`. `EmptyAnswer`, `Retry` and `Stopped` are the
retry of `codex_session_send`: stop the runtime, invalidate the session, send again.
`Restart` of the host ends its server in the same step. That is an idealisation: the server ends when it
reads the end of its standard input, a little later, and `OneServer` counts the servers of one host
process; the threads of the old server are lost to the new host either way.

### TelegramListener

`loop` is where `run_forever` is: resting, asking for the first or second token,
polling a bot, saving. While it polls or saves, the synchronous HTTP call or
file write blocks the event loop, and no other action of the process can happen.
`line` is the queue of the gateway client's lock with the holder in front; the
loop and the tasks of messages queue there alike. `link` and `reading` abstract
`ProcRpc`: a connection is as good as the next request on it, `poisoned` after a
timeout. `sent`, `confirmed`, `offset` and `saved` are the numbers of messages
sent to a bot, deleted by Telegram, known to the process, and on disk.

### Vault

`verifier` is `master.json`, `rows` the table of `secrets.db`, each row with the
password it was written under, `session` is `secrets_session.json` and `memory`
the password of the process. `initialize` is the writes it makes: `Initialize` the
verifier, `Unlink` or `WipeRows` the old database, one `FillRow` per default,
`Initialized` the end; `UnlockUnsaved` is an unlock whose session file could not be written, by a
process that has the password all the same, `UnlockDies` one whose process ends there; `Crash` and `InitializeFails` come between any two of them.
`Load` is what `is_unlocked` and `_require` do first and is part of every operation that
needs the password. A row of another password reads as the default (`Read`), as
`_db_get` has it, so that a lost key would show as a lost value at the next write.

### ServiceLifecycle

`cmd[c]` is a run of `sheriff-ctl` with the list of `ServiceManager` calls it has left
(`Program`), each of which is two or three steps: `StopSignal` and `StopFinish`;
`StartCheck`, `Spawn` and `Record`; `Health`. `proc[p]` is a process: it boots, serves, and
takes its time to die, holding its port meanwhile; `Boot` finds the port free or
exits. `age` tells processes that were there when the command began.
`RemoteUpdate` and `RemoteRecord` are `/update` in the chat, which spawns one more
`sheriff-ctl` and writes down its pid afterwards. Faults are kinds: a service that dies,
a pid that is reused, a command that is interrupted, two commands at once.

### Activation

`bound` and `pending` are the identity record of the vault, `chat[k]` a message on its
way through the listener or the webhook and the gate of its bot, `onboard` the run of
`sheriff onboard` from the first unlock to the start of the services. Each awaited
request is a step: a gate asks for the lock, then for the binding, then claims or
creates a code. A code is a number with a kind, since what matters of its letters is that one
gate lower-cases them and the terminal upper-cases them. Every request may be answered with an
error, whatever the vault's state, and each caller does with it what it does: `ai-tg-llm` accepts
whom it could not look up, the gateway goes on with the turn when it could not ask for the lock, others
end the message, and the services are started whether or not the unlock after them succeeded.

### Scheduler

`file` is `maintenance_state.json`, `run[r]` the loop's run or one that was called for, with
the copy of the file it read and will write back whole. Time is kept as the age of
each job up to its interval, so that nothing grows. `whole` is `"no"` after a crash in the
middle of a write; `_load_state` raises from then on. An error answer to `codex.session.send` is recorded as
a run (`RefusedIsRan`); `done` tells which of the recorded runs were.

### Conversation

`turn[p]` walks through `_process_message`: `ensure`, `lock`, `unlock` and `relock`,
`provider`, `key`, `send`, `codex`, `stream`. The frames of the host are steps of their own: it answers with an
`assistant.final` and a result, with a result or error alone, or not at all (`Answer`), the gateway
passes on what comes and remembers whether a final did (`PassOn`), and at the result decides whether to speak itself
(`Conclude`). `known` is the gateway's set of sessions, `bound` the host's
registry, `heard` what each thread has had, `host` the requests the host works on,
waited for or not. `since` follows what a session has been told since it began anew, and
`ExactHistory` compares the two. `Reset` and `ResetDone` are the halves of `reset_session`
around its request, whose error answer is ignored (`ResetFails`): the user is told "reset" and the thread stays, `Resolved` is `notify_request_resolved`. `Chat` is a line at
either terminal with whatever password was last typed there, which may be none, right or wrong at any time; the
`/unlock` of one of them that reaches the vault is part of `VaultChanges`.

## 3. The runs

| Run | Instance | States | What it shows |
|---|---|---|---|
| `gateway_queue` | 3 messages of 2 principals, 2 updates, 1 restart, 1 poll | 16,115 | serial, ordered turns; busy set exact; no lost wakeup; a seen-idle queue stays idle during the update; the journal is complete and in order; every message ends; implements `SerialTurns` |
| `proc_rpc` | 2 tasks, 3 requests, 2 connections, 1 event, 1 crash | 36,411 | at most one execution, before the answer; a given-up request poisons its connection; every call ends; implements `AtomicRpc` |
| `approvals` | 1 tool, 1 secret, 2 agents, 2 resolvers, 2 resolutions, 1 kind of fault | 1,548,165 | nothing runs that no resolution allowed or that stands as denied; databases agree on what was last resolved undisturbed; approved secrets are stored; what was refused is asked, and the news are on their way |
| `codex_host` | 2 connections, 2 sessions, 3 requests, 1 fault, 1 empty answer | 155,676 | bound threads are of this host and session; one server; a prompt goes to a server once; requests end |
| `telegram_listener` | 2 + 1 messages, 1 fault | 187,604 | forgotten messages were dispatched; once per process; turns in order; tasks end; messages are picked up |
| `vault` | 2 passwords, 2 keys, 3 entries, 2 faults | 60,337 | an open vault reads all its rows; a locked one stays locked and an open one open over crashes; implements `AbstractVault` |
| `service_lifecycle` | 2 services, 3 pids, 2 `sheriff-ctl`, 3 commands, 2 kinds of fault | 3,964,177 | one process per service; no old ones after a restart; all up after a start and an onboarding; one remote update |
| `activation` | 2 users, 1 message at a time and 3 in all, 1 onboarding | 1,414,958 | roles belong to users whose code was typed; notices go to the bound user |
| `scheduler` | intervals of 3 and 2 ticks, 2 calls, 2 crashes | 61,910 | "running" is running or was cut short; due jobs run |
| `conversation` | 3 messages, 1 fault | 1,870,134 | a thread is its session's conversation since the reset; one answer; no prompt past a locked vault |
| `conversation_news` | 2 messages, no fault | | *fails*: news of a decision go to another session |
| `telegram_polling` | as `telegram_listener` | | *fails*: one timeout ends polling |

The failing runs each check one sentence of the repository's documents or
comments against the code; `PROJECT.json` quotes it with the finding. Section 5
lists further properties of that kind that the modules state and no run checks.
Each module also has a type invariant; `vault` checks its own, and section 4 says which are proved.

### Bounds

Each bound is a constant that occurs only in guards, except `MaxPolls`, which is
the code's 120.

* *Queue*: two messages of one principal are needed for one to wait behind
  another, and a second principal for overlap. One poll instead of 120 keeps
  both outcomes (idle seen, polls exhausted). Two updates let the second meet a
  queue that a killed first one left paused. More messages repeat the same
  positions; the proofs cover any number.
* *RPC*: three requests are a timed-out one, one that meets its late answer, and
  one that meets what that one left behind; two connections are enough for two
  tasks to open one each at the same time.
* *Approvals*: two resolutions are enough to undo one, or for two to overlap;
  two resolvers because the cli gate and the gateway, which carries the agents' own, reach the service
  separately. Two agents, the one whose session the news go to and another.
  One kind of fault in a behaviour, but as often as it can happen: failures of the vault, failures of
  the other services, or resolutions that overlap. One secret: several are
  fetched independently of each other, and the proofs cover any number.
* *Codex host*: two connections because the gateway and the scheduler have one
  each; three requests are a thread for each session and one that comes after
  a replacement.
* *Listener*: two messages to one bot for order, one to the other for `/unlock`
  and the gates. Timeouts are not bounded. One crash, gateway restart or failed
  call in a behaviour; a second of another kind is left to a larger instance
  (safety has been explored with one of each, 3.3 million states, without an error).

* *Vault*: an initialisation that changes the password needs a second one; an addition
  that is lost needs two rows or two entries, an exchange that takes too much a third.
  Two faults: one inside the recovery from the other. The proofs cover any number.
* *Lifecycle*: one service with a port and one without are the two kinds of
  `_wait_service_health`. Three pids leave one for the process that is started beside the
  two that die; three commands are a stop or start, one that is interrupted, and one
  that repairs. Two commands at once are checked only for `OneRemoteUpdate`: the
  other properties except overlap, which the code does nothing against.
* *Activation*: two users are needed to mistake one for the other. Three messages are a
  code drawn, a code sent back, and one from the other user; or two during
  onboarding and one after it. One message is handled at a time beside onboarding; the
  gates keep nothing of their own between messages. An onboarding sets up the vault that
  the initial states leave from an earlier one.
* *Scheduler*: intervals that are not equal, so that both jobs, either and neither are due.
  Two crashes: one in a run, one in the run after it.
* *Conversation*: one message before a reset, one beside it and one after; one restart,
  timeout, failed request or retry. Two messages are enough for news to follow a turn.

`CHECK_DEADLOCK` is off except in `approvals`, `vault` and `scheduler`: the other models stop
when their bounds are used up and nobody sends anything, as the program does when it is
left alone. Users are interchangeable in `activation`, which checks invariants only, so
its states are taken up to a permutation of them.

### Fairness

* *Queue*: a notified task reacquires the lock, because asyncio's lock and event
  loop are first come first served; a turn ends, because each request it makes is
  bounded by `request_timeout_sec`; a started update goes on or is killed.
  Nobody has to send, update or restart. `EveryMessageEnds` excepts a queue that stays paused
  for ever, which a killed update can leave.
* *RPC*: connecting succeeds or fails, the lock is handed on, and `wait_for` ends
  every read. Nothing is assumed of the service.
* *Codex host*: handlers that can run do, and a live server answers. The second half is an
  assumption about Codex: the host has no timeout of its own on a turn.
* *Listener*: weak fairness for the loop, whose HTTP calls and requests time
  out. Strong fairness for tasks, because a task is ready only between the
  loop's blocking calls: asyncio runs ready callbacks in the order they became
  ready, so a task that is ready again and again does run.
  `SentIsDispatched` excepts a connection that stays poisoned for ever; that this
  happens is what `telegram_polling` shows.
* *Scheduler*: the loop polls for ever, each request to the gateway or to Codex ends,
  because `ProcClient` bounds it, and time passes. `DueIsRun` excepts a file that was torn, and
  requests that go on failing or finding the gateway busy for ever.
* The other specifications are safety only.

## 4. What is proved

`GatewayQueueProofs` proves, for any sets of messages, principals and sessions
and any bounds, from the one assumption `GatewayQueueAssumption` (each message has a
principal and a session, bounds are naturals):

| Theorem | States |
|---|---|
| `TypeCorrect` | `TypeOK` always holds |
| `TurnsAreSerial` | a turn belongs to the head of its principal's queue, hence one turn per principal |
| `BusyIsExact` | the busy set is the set of principals with a turn |
| `WakeupsAreNotLost` | a sleeping task could not start |
| `UpdatesAreQuiescent` | an update that saw the queue idle runs with the queue idle |
| `TheJournalIsInOrder` | the journal names everybody who was accepted and who was answered, in order |
| `QueueImplementsSerialTurns` | the queue implements `SerialTurns` |

**The argument.** None of the safety properties is inductive alone. `QueueInv`
adds that the queue of a principal holds exactly its unfinished messages
(`QueueHoldsQueued`) and each once (`QueueHoldsOnce`): without the first, a task
that is released could pop somebody else's id or none; without the second the id
it pops could still be in the queue behind it. `NoLostWakeup` needs `TurnAtHead` and
`BusyExactlyDuringTurn`, since what makes a task startable is the end of the turn
before it, and they need each other, so the five are proved together, one lemma per
action (`ReceiveKeeps`, `RecheckKeeps`, `ReleaseKeeps`, `QueueControlKeeps`,
`LoseMemoryKeeps`). `UpdateInv` is separate: while an update is past its pause and
the gateway is the one it paused, the queue is paused (`UpdateKeepsPaused`), so no turn
begins after the poll that found none. `JournalInv` orders the queue by the journal: who is behind in
the queue was journalled later, and after everybody who is done (`QueueAsJournalled`), so that the
record a turn writes at its end comes after theirs. The refinement maps `queue` to `line` and
the tasks in their turn to `inTurn`: notifications, pauses and the update are
stutters, `Receive` is a join, `Recheck` a begin or a stutter, `Release` a finish, a restart `Forget`.

It also proves, for the scheduler with any intervals, calls and crashes, `SchedulerTypeCorrect` and
`NoFalseRunning` (the file says "running" only while the daily update runs or after it was cut
short). `SchedulerInv` adds what the copies say that runs will write back (`RunRight`): a heartbeat
starts from a copy in which the update does not run, so that its write brings none back.

`VaultProofs` proves, for any sets of passwords, keys, settings and entries and any number of
faults, from `VaultAssumption` (settings are keys, and `None` and `Torn` are no passwords):

| Theorem | States |
|---|---|
| `TypeCorrect` | `TypeOK` always holds |
| `EveryRowReadable` | the password in memory is the verified one and reads every row |
| `LockedStaysLocked` | after a lock nothing on disk opens the vault |
| `OpenStaysOpen` | a vault that answered that it is unlocked is open for this process or the next, until it is locked or initialised or an unlock fails |
| `VaultImplementsPromise` | the vault implements `AbstractVault` |

**The argument.** `VaultInv` strengthens the two invariants to one about the files
(`OnePassword`): outside an interrupted initialisation, memory, rows and session file are
all of the one password that is verified, and the session file is there if the last answer was "unlocked", gone if it was "locked". It is not inductive without
`Initializing`, which says what the writes made so far have left while `initialize`
is under way: rows are empty or of the new password, and the vault counts as broken. The
refinement maps the lock to what the next process would find (`SeenLock`), since a
session file outlives the process, and the contents to what the verified password
reads. `Load`, crashes and restarts are stutters (`LoadUnseen`, `ContentsUnseen`); every step
under a broken vault is `Break` (`BrokenStep`), `Initialized` is `Mend`, and a write is one
of `Write`, `Include` and `Exchange` because the row read is of the password written
under (`WrittenRow`).

`ProcRpcProofs` proves, for any number of tasks, requests, connections, events and crashes:

| Theorem | States |
|---|---|
| `RpcIsAtomic` | client and service implement `AtomicRpc` |
| `AbandonedIsPoisoned` | a connection on which a request was given up answers none until it is replaced |

**The argument.** Answers come after execution because every frame on its way to the client is
of a request that was carried out (`ServedIsExecuted`), and execution happens once because a
frame that waits for the service is of a request not carried out yet (`QueuedIsNew`) and waits
in one place on one connection (`QueuedOnce`): without the last, serving it would leave a copy
behind. `HolderWaits` says that whoever has the lock has a pending request, which is what ends
when a read ends. `Send` is a send or a raise, `Serve` an execution, the end of a read an answer or
a raise (`SendKeeps`, `ServeKeeps`, `FinishKeeps`); everything else is a stutter.

That an abandoned request poisons its connection needs the order of frames, which is `OrderInv`: a
connection carries its requests in the order of their ids (`InOrder`), the ids are drawn in order
and the lock's holder has the last (`DrawnInOrder`), and a connection that works still owes
the holder its answer (`AnswerComes`). So what is left of an earlier request comes before the answer of a
later one, and a holder that ends on a stale frame leaves its own behind. TLC explored `OrderInv`
with five requests on three connections as well (6.2 million states).

`ApprovalsProofs` proves, for any sets of tools, secrets, agents and resolvers and any faults:

| Theorem | States |
|---|---|
| `ApprovalsTypeCorrect` | `TypeOK` always holds |
| `OnlyTheGranted` | what runs was once allowed, with secrets once provided, and did not stand as denied when it was looked up |
| `StoresAgree` | catalogue and policy agree on every tool that nobody resolves, unless its last resolution was disturbed |
| `ApprovedSecretsAreStored` | an approved secret is in the vault unless the vault failed |
| `RefusedAreAsked` | while nothing fails, the user has been asked about whatever stands as requested, and the refused agent that hears the news is waited for by somebody |

**The argument.** `ApprovalsInv` joins one strengthening per property. `Grants` follows a grant
from the resolution that carries it through the policy, or the vault, to the call that passed there and
has not yet run. That a call does not pass the policy for a tool that stands as denied is `MatchInv`
at `Decide`: it says what the policy holds while a resolution is between its two writes, and that no two
resolutions write to one tool that is not `unsettled`. The catalogue
alone says nothing of a policy about to be followed, and `unsettled` is what keeps a failed write from
being taken for one. `StoredInv` adds the resolution that has stored and not committed.
`AskedInv` covers the agent that is between being
refused and asking, while an approval overtakes it (`Overtaken`).
Each part is proved action by action (`GrantsInv`, `StoredInvKept`, `MatchInvKept`,
`AskedInvKept`), from the types of the steps (`TypesInv`, `RestInv`) and from lemmas that
say what a step of a call, the beginning of a resolution and its later steps do to the
records (`CallMoves`, `StartEffects`, `ResolveEffects`, `NextActs`).

`CodexHostProofs` proves, for any connections and sessions and any faults:

| Theorem | States |
|---|---|
| `BoundThreadsStayCurrent` | the registry names no thread of a former host or another session |
| `AtMostOneServer` | at most one MCP server lives |
| `NoServerTwice` | a prompt is sent to a server process once |

**The argument.** `OneServer` is not inductive: a handler that starts a server must know that
those before it are gone. `LockInv` says that who starts or stops holds the runtime's lock, and
`ServersInv` that all processes but the newest have ended, and the newest too while there is no
client. `SentInv` follows what each handler has sent its message to: one that looks for a server has not been
at the one it will find, since its retry stopped that server or found another in its place.

`ConversationProofs` proves, for any number of messages and faults:

| Theorem | States |
|---|---|
| `OneAnswerPerTurn` | a turn that ended normally has sent the user one final answer, whatever frames came from the host |
| `PromptsNeedOpenVault` | no prompt of a turn for which the vault was locked throughout |
| `ThreadsHoldTheirHistory` | a thread holds its session's conversation since the reset, and no more |

**The argument.** `TurnsInv` says, for each step of a turn up to the stream, that nothing final has
been sent yet; in the stream, that as many finals were sent as the gateway remembers, and that the frames still to
come are not an error after a final, nor a second one, which is what the host's code has to give (`Answered`). It says too
that from the provider on the vault has been seen open; the second needs that
an unlock by anybody is seen by every turn under way (`OpenIsSeen`).

`ExactHistory` needs to know what the turns in the host will do to threads. `HistoryInv` says of messages
that each is sent to the host once, so that a thread opened for one is opened once and begins empty
(`MessagesInv`, `Untold`); and of threads that each is of one session, and that in a session that is
not muddled a turn in the host has the thread that is bound, or is the only one while none is
(`ThreadsInv`): nobody else opens one beside it.

`ServiceLifecycleProofs` proves, for any list of services, any pids, any number of commands and faults:

| Theorem | States |
|---|---|
| `OneProcessEach` | one process of a service, as long as commands do not overlap |
| `TheOldAreGone` | no process from before a restart is left at its end, nor, unless a command was cut short, at the end of a stop |
| `TheStartedAreUp` | a `start` or `update` that has ended leaves every service running, if no command was cut short or overlapped and no service died; a reused pid does not mislead it |
| `OneUpdateAtATime` | one update from the chat at a time, unless the gate died between spawn and record |

**The argument.** `LifeInv` has a part for each set of faults that a property survives. `AloneInv`
holds while commands do not overlap: one of them is active (`OneActive`), between the sweep of
`StartCheck` and the record nobody else makes a process (`SpawnRight`), and a restart finds no pid file where
it has a service to start (`RestartRight`). The last is why "already_running" is no way past a restart:
`TheOldAreGone` is not inductive without it. `WholeInv` holds unless a command was cut short: who lives
is in the pid file, or about to be (`FilesInv`). `SoundInv` holds while nothing of the services died by itself: only
what a stop waits for is dying (`DyingInv`), so that a new process finds its port free. What makes these
work together is the order of the jobs (`PlansInv`): stops come first and, in a restart, concern
every service, which is proved of `Program` once (`ProgramIsPlanned`) and kept by each job
that is done (`TailOfPlan`). There is one lemma per action; `CommandKeeps`
and `ProcessKeeps` carry what a step of a command, and of a process, does not touch.
`LifecycleAssumption` asks that no service is listed twice and that there are pids for all.

`TelegramProofs` proves, for any two inboxes of different messages, any faults and any number of
timeouts, and for any users, chats, codes and onboardings:

| Theorem | States |
|---|---|
| `TheForgottenWereDispatched` | an update that Telegram deleted, or that the saved offset passes over, was given a task |
| `EachIsDispatchedOncePerProcess` | one process gives a message one task |
| `TheTurnsAreInOrder` | turns go to the gateway in the order of the messages, as long as it does not restart |
| `TheBoundHaveTyped` | a role belongs to a user whose own code was typed for it into this vault |
| `TheChannelIsBound` | the unlock channel names a user of the sheriff bot who may use it, unless the last onboarding was cut short |

**The argument for the listener.** `ListenerInv` has one part per question, and the types. `OffsetsInv`
says that no offset is beyond what was sent.
`TasksInv` says of every message which side of the offsets it is on: what any of them passes over has a task,
what could be fetched again has been given one at most once per crash and has none that
is active, and messages get their first tasks in order. From the last, a poll that takes a
block of an inbox leaves no gap. The order of turns is the long part (`OrderInv`). A task makes
three requests, for the lock, for the binding and for the turn, and between them it goes to the end of the line
behind the client's lock. So the order in the line alone is not inductive: what is kept is that a later
message is never further on its way than an earlier one (`Progress`), and, where they are equally far,
that it is behind it in the line (`NotOvertaken`). That holds while the gateway has not restarted, because
only the polling loop opens a connection then, and nobody is in line before it has one (`QuietInv`); after
a restart tasks open connections as they find them closed, and may overtake each other in that. The
lemmas about lines (`ConcatIs`, `JoinIs`, `TailAhead`, `ConcatAhead`) say what becomes of
positions when the head leaves or a batch is appended. `TelegramListenerAssumption` asks that
the inboxes have no message twice and none in common, as Telegram's update numbers have it. TLC explored the
inductive invariant with two faults as well (1.5 million states) before it was proved.

**The argument for activation.** `ActivationInv` joins `VaultRight`, `ChatsRight`, `OnboardRight` and
`ChannelRight`. A binding is made by `Claims` alone, when a pending code is typed, for the user it was
drawn for (`ClaimKeeps`). `ChannelIsBound` excepts
onboardings that were cut short; what makes it inductive is that from the new vault to the last step
an onboarding counts as one (`OnboardRight`), so that the file is looked at again only when the
onboarding has written it (`WriteChannelKeeps`) and started the services (`StartAllKeeps`).

**Only model-checked.** Of the invariants and refinements that the runs check, one is not proved: `OnboardedIsUp`,
that every service runs after a first onboarding. An onboarding stops nothing and trusts the pid files it finds,
those of a stop that failed included, so that the argument for a restart, whose own stops come first, does not carry over. What else is left to
TLC is liveness under fairness (`EveryMessageEnds`, `CallEnds`, `RequestEnds`, `TaskEnds`,
`SentIsDispatched`, `DueIsRun`), which is out of the prover's reach.

## 5. What the checks say about the code

The core holds: turns, answers, grants, server processes, offsets, the vault's contents,
bindings and threads keep their promises under every interleaving tried. Two runs
show statements of the repository that do not hold:

1. `conversation_news`: the news of a decision become a turn of the session
   `telegram_<user>`, or of `telegram_system` while the vault is locked, and never of the
   session whose agent was refused ("Retry the blocked work");
2. `telegram_polling`: one timed-out request to the gateway stops the Telegram loop.

The modules state more of them, without a run; adding the property to the module's
configuration shows the counterexample:

| Property | Statement of the repository | What happens |
|---|---|---|
| `GatewayQueue.OneTurnPerSession` | "Queueing must serialize on real session identity" (`tasks/codex_mcp_architecture_contract.md:99`) | two users of one group topic share a session but not a queue; only the bound user is heard, so it takes a change of binding |
| `GatewayQueue.UpdateInterruptsNoTurn` | "wait for in-flight agent work to finish" (`system.py:76`) | the queue is unpaused before the services stop |
| `Approvals.ApprovedIsStored` | "user provided secret" (gateway line 364) | the vault's answer is not looked at |
| `Approvals.DeniedSecretIsNotUsed` | "Do not assume you can use it" (gateway line 366) | a value that was provided before stays usable |
| `CodexHost.StaleThreadsAreNotUsed` | "old thread IDs are assumed stale" (contract, line 26) | a retry invalidates its own session only |
| `CodexHost.NewThreadsAreHydrated` | "must be hydrated" (contract, line 110) | the gateway ensures sessions without hydration |
| `Vault.RightPasswordOpens` | "kept for backward compatibility" (`secrets_state.py:22`) | the migration opens the old blob as a database, and raises |
| `Approvals.NewsAreTrue` | "user approved tool" (gateway line 368) | an error answer of `policy.set_decision` is not looked at: the agent is told what the policy does not have |
| `Activation.LockMeetsTheUnknown` | "Fall back to gateway lock handling" (`ai_tg_llm/service.py:30`) | whoever cannot be looked up is accepted; the vault is open by the time the gateway asks, or the gateway's question fails too and it goes on (lines 94 to 96): a user the bot does not belong to has a turn |
| `Activation.ReplyActivates` | "Reply: activate {code}" (`telegram_webhook/service.py:79`) | the gates lower-case the code; only one without letters is ever good |

### Remarks

What else one learns from writing the models, without a statement to hold the code to:

* *Service manager.* `stop` trusts the pid file: if a start was cut short between the
  spawn and the record, a stale file makes `stop` report success and leave the process
  (`OldAreGone` excepts it). A process that dies just before its SIGKILL makes `stop`
  raise. A pid that is reused has `stop` kill a stranger, and onboarding take a service for running.
  Kill by name does not wait, so a successor can find its port taken; `OneProcess` holds
  because the loser exits. The models let a user's command overlap a remote update only.
* *Vault.* A process that fails half way through `initialize` keeps the password in memory;
  everything is written under it, consistently, until somebody initialises again.
* *Activation.* `boot_check` can never send "master password required", since its notice needs
  a token that only the open vault has. Onboarding that keeps what there is keeps tokens and
  provider, and wipes secrets and bindings; a password that is "kept" without keeping the rest is
  not verified. The webhook ignores `/unlock` while the vault is locked.
* *Scheduler.* A called run and the loop write their copies back whole and undo each other's
  `last_run_at`; what is lost is run again. A heartbeat can run beside a daily update that was
  called for. A file torn by a crash stops the scheduler for good. A failing daily update keeps
  heartbeats from running. An error answer of `codex.session.send` is recorded like a run, so the job waits for its
  next interval (`DueIsRun` excepts it).
* *Conversation.* A reset of a session the gateway does not know, as after its restart, is answered
  "reset" and resets nothing; a reset beside a turn in the host is undone when the turn binds
  its thread (both excepted by `muddled`). `/reset` in the proxy chat resets `private_main`,
  whichever session the terminal talks to. When the host answers a reset with an error, it is
  reported as done and the thread stays (`ExactHistory` excepts that session). Terminals remember wrong passwords, and the proxy sends
  "/unlock x" to the agent as well. If the vault cannot say whether it is locked, the turn goes on.

## 6. Plan

Done, in this order: `GatewayQueue` with `SerialTurns` and its proofs, `ProcRpc` with
`AtomicRpc`, `Approvals`, `CodexHost`, `TelegramListener`, `Vault` with `AbstractVault` and its
proofs, `ServiceLifecycle`, `Activation`, `Scheduler`, `Conversation`; then the proofs about
`Conversation`, `Scheduler`, `Approvals`, `CodexHost`, `ProcRpc`, `ServiceLifecycle`,
`TelegramListener` and `Activation`. Open:

1. **TaskStore**: read, change and rewrite of one file by several processes.
2. Pure modules: version comparison, log rotation.

## 7. What is not modelled, and why

* Task store and memory: planned, see above. `sheriff-updater` itself is a step that succeeds or
  fails in `GatewayQueue` and `ServiceLifecycle`; git and pip are external programs.
* `sheriff_web`: forwards requests, keeps no state.
* `sheriff_ctl` apart from the commands named above (`doctor`, `sandbox`, `call`, logs): sequential
  checks and printing.
* `codex_auth`, `llm/`, `worker/`, `skills/`, `oplog`: calls to external programs, text
  and files without decisions that depend on an interleaving.
* Encryption, the text of messages and prompts, HTTP details, wording. Two codes that are drawn alike
  (one in 36^6) are left out.
* The stdio transport of `ProcClient`, which a managed service does not use.
* Who sends `tool.call` frames: the gateway handles them (`_route_tool`) and the host of this commit never sends one.
  `Approvals` models what `tools.exec` and `requests.*` do when one comes; `Conversation` has no such frames.
* Torn file writes, except for the listener's offsets, the vault's verifier and session, and the
  scheduler's state.
