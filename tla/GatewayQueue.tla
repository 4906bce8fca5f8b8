---------------------------- MODULE GatewayQueue ----------------------------
(***************************************************************************)
(* The message queue of the gateway service                                *)
(* (services/sheriff_gateway/service.py) and the one client that pauses    *)
(* it, `sheriff update` (services/sheriff_ctl/system.py, cmd_update).      *)
(*                                                                         *)
(* handle_user_message is one asyncio task per incoming message.  The task *)
(* appends its id to the deque of its principal, waits on one shared       *)
(* Condition until it is at the head, its principal is not being           *)
(* processed and the queue is not paused, runs the turn, and in a finally  *)
(* block gives up its place.  Nothing awaits while the Condition's lock is *)
(* held, except Condition.wait, which releases it: each region under the   *)
(* lock is therefore one step of this model, and a task that has been      *)
(* notified is a task that has yet to reacquire the lock and check again.  *)
(*                                                                         *)
(* What a turn does is left to other modules: here it begins and, later,   *)
(* returns or raises.                                                      *)
(***************************************************************************)
EXTENDS Naturals, Sequences

CONSTANTS
  Messages,     \* the messages that users and services send to the gateway
  Principals,   \* principal ids, "<channel>:<external id>"
  Sessions,     \* session keys
  PrincipalOf,  \* the principal of each message (principal_id_for_channel)
  SessionOf,    \* the session of each message (session_key_for_message)
  MaxPolls,     \* how often cmd_update asks for the queue status (120)
  MaxUpdates,   \* bound: runs of `sheriff update`
  MaxRestarts   \* bound: restarts of the gateway process

ASSUME GatewayQueueAssumption ==
  /\ PrincipalOf \in [Messages -> Principals]
  /\ SessionOf \in [Messages -> Sessions]
  /\ MaxPolls \in Nat
  /\ MaxUpdates \in Nat
  /\ MaxRestarts \in Nat

VARIABLES
  queue,       \* _queue: per principal, the ids of its unfinished messages
  processing,  \* _processing: the principals with a turn in progress
  flow,        \* _queue_paused, as "paused" or "open"
  task,        \* where the handle_user_message task of each message is
  journal,     \* message_queue.jsonl, the part about each principal
  epoch,       \* how many times the gateway process has been restarted
  update       \* the `sheriff update` process

gatewayVars == <<queue, processing, flow, task, journal, epoch>>
vars == <<queue, processing, flow, task, journal, epoch, update>>
-----------------------------------------------------------------------------
(* A task waits in Condition.wait ("waiting") until a notify_all, after    *)
(* which it is "notified" until it has the lock again.  "failed" is a turn *)
(* that raised, "lost" a task that died with its process.                  *)
Queued == {"waiting", "notified", "turn"}
Ended == {"done", "failed", "lost"}
TaskState == {"unsent"} \cup Queued \cup Ended

JournalRecord == [event : {"enqueue", "dequeue"}, id : Messages]

UpdatePhase == {"none", "polling", "run", "unpause", "restart"}

UpdateProcess ==
  [phase : UpdatePhase, polls : 0..MaxPolls, saw : {"busy", "idle"},
   epoch : 0..MaxRestarts, count : 0..MaxUpdates]

NoUpdate == [phase |-> "none", polls |-> 0, saw |-> "busy",
             epoch |-> 0, count |-> 0]

UpdateOver == [NoUpdate EXCEPT !.count = update.count]

(* Mutants of the wait condition: no head test, no pause test. *)
MayStart_NotOnlyHead(q, m) == PrincipalOf[m] \notin processing /\ flow = "open"
MayStart_Paused(q, m) ==
  /\ q[PrincipalOf[m]] # <<>>
  /\ Head(q[PrincipalOf[m]]) = m
  /\ PrincipalOf[m] \notin processing

(* The condition of the wait loop, for a queue that reads q. *)
MayStart(q, m) ==
  /\ q[PrincipalOf[m]] # <<>>
  /\ Head(q[PrincipalOf[m]]) = m
  /\ PrincipalOf[m] \notin processing
  /\ flow = "open"

(* Condition.notify_all, applied to tasks t. *)
NotifyAll(t) ==
  [m \in Messages |-> IF t[m] = "waiting" THEN "notified" ELSE t[m]]

Log(m, event) ==
  journal' = [journal EXCEPT ![PrincipalOf[m]] =
                Append(@, [event |-> event, id |-> m])]

(* One pass through the loop: take the turn, or wait for a notification. *)
TryStart(m, q) ==
  \/ /\ MayStart(q, m)
     /\ processing' = processing \cup {PrincipalOf[m]}
     /\ task' = [task EXCEPT ![m] = "turn"]
  \/ /\ ~MayStart(q, m)
     /\ task' = [task EXCEPT ![m] = "waiting"]
     /\ UNCHANGED processing
-----------------------------------------------------------------------------
Init ==
  /\ queue = [p \in Principals |-> <<>>]
  /\ processing = {}
  /\ flow = "open"
  /\ task = [m \in Messages |-> "unsent"]
  /\ journal = [p \in Principals |-> <<>>]
  /\ epoch = 0
  /\ update = NoUpdate

(* The message arrives, is journalled and enqueued, and is looked at once. *)
Receive(m) ==
  LET q == [queue EXCEPT ![PrincipalOf[m]] = Append(@, m)]
  IN  /\ task[m] = "unsent"
      /\ queue' = q
      /\ Log(m, "enqueue")
      /\ TryStart(m, q)
      /\ UNCHANGED <<flow, epoch, update>>

(* A notified task has the lock again and goes round the loop. *)
Recheck(m) ==
  /\ task[m] = "notified"
  /\ TryStart(m, queue)
  /\ UNCHANGED <<queue, flow, journal, epoch, update>>

(* Mutants of the finally block: the principal stays busy, the head stays  *)
(* in the queue, nobody is woken.                                          *)
Release_StaysBusy(m, outcome) ==
  /\ task[m] = "turn"
  /\ queue' = [queue EXCEPT ![PrincipalOf[m]] = Tail(@)]
  /\ task' = NotifyAll([task EXCEPT ![m] = outcome])
  /\ UNCHANGED processing
Release_NoPop(m, outcome) ==
  /\ task[m] = "turn"
  /\ processing' = processing \ {PrincipalOf[m]}
  /\ task' = NotifyAll([task EXCEPT ![m] = outcome])
  /\ UNCHANGED queue
Release_NoNotify(m, outcome) ==
  /\ task[m] = "turn"
  /\ queue' = [queue EXCEPT ![PrincipalOf[m]] = Tail(@)]
  /\ processing' = processing \ {PrincipalOf[m]}
  /\ task' = [task EXCEPT ![m] = outcome]

(* The finally block: leave the head, free the principal, wake everybody. *)
Release(m, outcome) ==
  LET p == PrincipalOf[m]
  IN  /\ task[m] = "turn"
      /\ queue' = [queue EXCEPT ![p] =
                     IF @ # <<>> /\ Head(@) = m THEN Tail(@) ELSE @]
      /\ processing' = processing \ {p}
      /\ task' = NotifyAll([task EXCEPT ![m] = outcome])

(* _process_message returned: the journal is told before the finally. *)
TurnReturns(m) ==
  /\ Release(m, "done")
  /\ Log(m, "dequeue")
  /\ UNCHANGED <<flow, epoch, update>>

(* _process_message raised: no dequeue record is written. *)
TurnRaises(m) ==
  /\ Release(m, "failed")
  /\ UNCHANGED <<flow, journal, epoch, update>>

(* Mutant: the flag changes and nobody is told. *)
QueueControl_Silent(control) ==
  /\ flow' = control
  /\ UNCHANGED task

(* gateway.queue.control *)
QueueControl(control) ==
  /\ flow' = control
  /\ task' = NotifyAll(task)

(* The gateway process dies and is started again: queue, processing set    *)
(* and pause flag live in memory only; the journal is never read back.     *)
LoseMemory ==
  /\ epoch < MaxRestarts
  /\ epoch' = epoch + 1
  /\ queue' = [p \in Principals |-> <<>>]
  /\ processing' = {}
  /\ flow' = "open"
  /\ task' = [m \in Messages |->
                IF task[m] \in Queued THEN "lost" ELSE task[m]]
  /\ UNCHANGED journal

Restart ==
  /\ LoseMemory
  /\ UNCHANGED update
-----------------------------------------------------------------------------
(* cmd_update: pause, wait for the queue to be idle, run the update,       *)
(* unpause, and restart the services if the update succeeded.              *)
UpdatePause ==
  /\ update.phase = "none"
  /\ update.count < MaxUpdates
  /\ QueueControl("paused")
  /\ update' = [phase |-> "polling", polls |-> 0, saw |-> "busy",
                epoch |-> epoch, count |-> update.count + 1]
  /\ UNCHANGED <<queue, processing, journal, epoch>>

(* gateway.queue.status over the connection the process opened. *)
UpdatePoll ==
  /\ update.phase = "polling"
  /\ update.epoch = epoch
  /\ update.polls < MaxPolls
  /\ update' = IF processing = {}
               THEN [update EXCEPT !.phase = "run", !.saw = "idle"]
               ELSE [update EXCEPT !.polls = @ + 1]
  /\ UNCHANGED gatewayVars

(* The for loop is exhausted; the update goes ahead regardless. *)
UpdatePollsExhausted ==
  /\ update.phase = "polling"
  /\ update.polls = MaxPolls
  /\ update' = [update EXCEPT !.phase = "run"]
  /\ UNCHANGED gatewayVars

UpdateRun ==
  /\ update.phase = "run"
  /\ update' = [update EXCEPT !.phase = "unpause"]
  /\ UNCHANGED gatewayVars

(* The finally of the inner try; restart only after an update that worked. *)
UpdateUnpause ==
  /\ update.phase = "unpause"
  /\ update.epoch = epoch
  /\ QueueControl("open")
  /\ \/ update' = [update EXCEPT !.phase = "restart"]
     \/ update' = UpdateOver
  /\ UNCHANGED <<queue, processing, journal, epoch>>

(* The connection went down with the old gateway: the request raises, and  *)
(* so does the one in the finally.                                         *)
UpdateAborts ==
  /\ update.phase \in {"polling", "unpause"}
  /\ update.epoch # epoch
  /\ update' = UpdateOver
  /\ UNCHANGED gatewayVars

(* The process is killed: no finally, the queue stays paused. *)
UpdateKilled ==
  /\ update.phase \in {"polling", "run", "unpause"}
  /\ update' = UpdateOver
  /\ UNCHANGED gatewayVars

(* cmd_stop; cmd_start. *)
UpdateRestart ==
  /\ update.phase = "restart"
  /\ LoseMemory
  /\ update' = UpdateOver
-----------------------------------------------------------------------------
Updater ==
  \/ UpdatePoll \/ UpdatePollsExhausted \/ UpdateRun \/ UpdateUnpause
  \/ UpdateAborts \/ UpdateRestart

Next ==
  \/ \E m \in Messages : Receive(m)
  \/ \E m \in Messages : Recheck(m)
  \/ \E m \in Messages : TurnReturns(m)
  \/ \E m \in Messages : TurnRaises(m)
  \/ Restart
  \/ UpdatePause
  \/ UpdateKilled
  \/ Updater

Spec == Init /\ [][Next]_vars

(* The event loop runs every task that can run, a turn ends because every  *)
(* request it makes is bounded by request_timeout_sec, and an update that  *)
(* was started goes on.  Nobody has to send, to update or to crash.        *)
Fairness ==
  /\ \A m \in Messages : WF_vars(Recheck(m))
  /\ \A m \in Messages : WF_vars(TurnReturns(m) \/ TurnRaises(m))
  /\ WF_vars(Updater)

FairSpec == Spec /\ Fairness
-----------------------------------------------------------------------------
TypeOK ==
  /\ queue \in [Principals -> Seq(Messages)]
  /\ processing \in SUBSET Principals
  /\ flow \in {"open", "paused"}
  /\ task \in [Messages -> TaskState]
  /\ journal \in [Principals -> Seq(JournalRecord)]
  /\ epoch \in 0..MaxRestarts
  /\ update \in UpdateProcess

(* One turn at a time per principal, and it is the turn of the message at  *)
(* the head of the principal's queue: handle_user_message's head test and  *)
(* the _processing set agree in every interleaving of the tasks.           *)
TurnAtHead ==
  \A m \in Messages :
    task[m] = "turn" =>
      /\ queue[PrincipalOf[m]] # <<>>
      /\ Head(queue[PrincipalOf[m]]) = m

OneTurnPerPrincipal ==
  \A m, n \in Messages :
    task[m] = "turn" /\ task[n] = "turn" /\ PrincipalOf[m] = PrincipalOf[n]
      => m = n

(* A principal is marked busy exactly while one of its messages has a      *)
(* turn: no path through the finally leaves it busy for ever or frees it   *)
(* too early.                                                              *)
BusyExactlyDuringTurn ==
  \A p \in Principals :
    p \in processing <=> \E m \in Messages :
                            task[m] = "turn" /\ PrincipalOf[m] = p

(* No wake-up is lost: a task asleep in Condition.wait is never one that   *)
(* could start, because whatever made it able to start notified it.        *)
NoLostWakeup ==
  \A m \in Messages : task[m] = "waiting" => ~MayStart(queue, m)

(* An update that saw the queue idle finds it idle for as long as it runs, *)
(* if the gateway is still the one it paused: pausing keeps every message, *)
(* waiting or new, from starting (cmd_update lines 74-97).                 *)
UpdateQuiescent ==
  (update.phase \in {"run", "unpause"} /\ update.saw = "idle" /\ update.epoch = epoch)
    => processing = {}

(* Where the journal has a record of m, and which record it has first.     *)
LoggedAt(m, event) ==
  {i \in DOMAIN journal[PrincipalOf[m]] :
     journal[PrincipalOf[m]][i] = [event |-> event, id |-> m]}

LoggedBefore(m, n, event) ==
  \A i \in LoggedAt(m, event), j \in LoggedAt(n, event) : i < j

(* message_queue.jsonl tells, across restarts, who was accepted and who    *)
(* was answered, each once, and that the messages of a principal were      *)
(* answered in the order in which they were accepted: whatever has no      *)
(* dequeue record was waiting, raised, or died with its gateway.           *)
JournalInArrivalOrder ==
  /\ \A m \in Messages : /\ LoggedAt(m, "enqueue") # {} <=> task[m] # "unsent"
                         /\ LoggedAt(m, "dequeue") # {} <=> task[m] = "done"
  /\ \A p \in Principals : \A i, j \in DOMAIN journal[p] :
       journal[p][i] = journal[p][j] => i = j
  /\ \A m, n \in Messages :
       PrincipalOf[m] = PrincipalOf[n] /\ LoggedBefore(m, n, "enqueue")
         => LoggedBefore(m, n, "dequeue")

(* Every message that was accepted is answered, fails or dies with its     *)
(* gateway, unless the queue stays paused for ever.                        *)
EveryMessageEnds ==
  \/ <>[](flow = "paused")
  \/ \A m \in Messages : task[m] \in Queued ~> task[m] \in Ended

(* The queue implements the serial lines of SerialTurns.                   *)
Turns == INSTANCE SerialTurns WITH
           line <- queue,
           inTurn <- {m \in Messages : task[m] = "turn"}

ImplementsSerialTurns == Turns!Spec

(* The documented routing contract (tasks/codex_mcp_architecture_contract  *)
(* .md:99): turns of one session are serialised.  The code serialises per  *)
(* principal.                                                              *)
OneTurnPerSession ==
  \A m, n \in Messages :
    task[m] = "turn" /\ task[n] = "turn" /\ SessionOf[m] = SessionOf[n]
      => m = n

(* cmd_update waits "for in-flight agent work to finish" (system.py:76):   *)
(* the restart that follows a successful update interrupts no turn.        *)
UpdateInterruptsNoTurn ==
  [][update.phase = "restart" /\ update'.phase = "none" => processing = {}]_vars
=============================================================================
