------------------------- MODULE GatewayQueueProofs -------------------------
(***************************************************************************)
(* Theorems about GatewayQueue for every set of messages and principals    *)
(* and every bound, and at the end about Scheduler, whose jobs wait for    *)
(* that queue to be free.                                                  *)
(***************************************************************************)
EXTENDS GatewayQueue, Scheduler, TLAPS

(* What the five safety properties need beside themselves: a queue holds   *)
(* unfinished messages of its own principal, each once, and an update that *)
(* has paused this gateway finds it still paused.                          *)
QueueHoldsQueued ==
  \A p \in Principals : \A i \in 1..Len(queue[p]) :
    PrincipalOf[queue[p][i]] = p /\ task[queue[p][i]] \in Queued

QueueHoldsOnce ==
  \A p \in Principals : \A i, j \in 1..Len(queue[p]) :
    queue[p][i] = queue[p][j] => i = j

UpdateKeepsPaused ==
  /\ update.epoch <= epoch
  /\ update.phase \in {"polling", "run", "unpause"} /\ update.epoch = epoch
       => flow = "paused"
  /\ update.phase = "polling" => update.saw = "busy"

QueueInv ==
  /\ TypeOK
  /\ TurnAtHead
  /\ BusyExactlyDuringTurn
  /\ NoLostWakeup
  /\ QueueHoldsQueued
  /\ QueueHoldsOnce

UpdateInv == TypeOK /\ UpdateKeepsPaused /\ UpdateQuiescent
-----------------------------------------------------------------------------
(* TypeOK is inductive in two independent parts: the queue, and the update *)
(* process with the number of the gateway process it talks to.             *)
QueueTypes ==
  /\ queue \in [Principals -> Seq(Messages)]
  /\ processing \in SUBSET Principals
  /\ flow \in {"open", "paused"}
  /\ task \in [Messages -> TaskState]
  /\ journal \in [Principals -> Seq(JournalRecord)]

UpdateTypes ==
  /\ epoch \in 0..MaxRestarts
  /\ update \in UpdateProcess

LEMMA LogTyped ==
  ASSUME NEW m \in Messages, NEW event \in {"enqueue", "dequeue"},
         journal \in [Principals -> Seq(JournalRecord)], Log(m, event)
  PROVE  journal' \in [Principals -> Seq(JournalRecord)]
<1>1. [event |-> event, id |-> m] \in JournalRecord
  BY DEF JournalRecord
<1>2. PrincipalOf[m] \in Principals
  BY GatewayQueueAssumption
<1> QED
  BY <1>1, <1>2 DEF Log

LEMMA QueueTyped ==
  ASSUME QueueTypes, [Next]_vars PROVE QueueTypes'
<1> USE GatewayQueueAssumption DEF QueueTypes, TaskState, Queued, Ended
<1>1. ASSUME NEW m \in Messages, Receive(m) PROVE QueueTypes'
  <2>1. queue' \in [Principals -> Seq(Messages)]
    BY <1>1 DEF Receive
  <2>2. journal' \in [Principals -> Seq(JournalRecord)]
    BY <1>1, LogTyped DEF Receive
  <2>3. processing' \in SUBSET Principals /\ task' \in [Messages -> TaskState]
    BY <1>1 DEF Receive, TryStart
  <2> QED
    BY <1>1, <2>1, <2>2, <2>3 DEF Receive
<1>2. ASSUME NEW m \in Messages, Recheck(m) PROVE QueueTypes'
  BY <1>2 DEF Recheck, TryStart
<1>3. ASSUME NEW m \in Messages, NEW outcome \in {"done", "failed"},
             Release(m, outcome)
      PROVE  /\ queue' \in [Principals -> Seq(Messages)]
             /\ processing' \in SUBSET Principals
             /\ task' \in [Messages -> TaskState]
  <2>1. queue' \in [Principals -> Seq(Messages)]
    BY <1>3 DEF Release
  <2>2. task' \in [Messages -> TaskState]
    BY <1>3 DEF Release, NotifyAll
  <2> QED
    BY <1>3, <2>1, <2>2 DEF Release
<1>4. ASSUME NEW m \in Messages, TurnReturns(m) \/ TurnRaises(m)
      PROVE  QueueTypes'
  BY <1>3, <1>4, LogTyped DEF TurnReturns, TurnRaises
<1>5. CASE LoseMemory
  <2>1. queue' \in [Principals -> Seq(Messages)]
    BY <1>5 DEF LoseMemory
  <2>2. task' \in [Messages -> TaskState]
    BY <1>5 DEF LoseMemory
  <2> QED
    BY <1>5, <2>1, <2>2 DEF LoseMemory
<1>6. CASE UpdatePause \/ UpdateUnpause
  BY <1>6 DEF UpdatePause, UpdateUnpause, QueueControl, NotifyAll
<1>7. CASE UNCHANGED gatewayVars
  BY <1>7 DEF gatewayVars
<1> QED
  BY <1>1, <1>2, <1>3, <1>4, <1>5, <1>6, <1>7
     DEF Next, Updater, vars, gatewayVars, Restart, UpdateRestart, UpdateKilled,
         UpdatePoll, UpdatePollsExhausted, UpdateRun, UpdateAborts

LEMMA UpdateTyped ==
  ASSUME UpdateTypes, [Next]_vars PROVE UpdateTypes'
<1> USE GatewayQueueAssumption
    DEF UpdateTypes, UpdateProcess, UpdatePhase, NoUpdate, gatewayVars
<1>0. UpdateOver \in UpdateProcess
  BY DEF UpdateOver
<1>1. CASE UNCHANGED <<epoch, update>>
  BY <1>1
<1>2. CASE Restart
  BY <1>2 DEF Restart, LoseMemory
<1>3. CASE UpdatePause
  BY <1>3 DEF UpdatePause
<1>4. CASE UpdateKilled
  BY <1>0, <1>4 DEF UpdateKilled
<1>5. CASE UpdatePoll
  <2>1. [update EXCEPT !.phase = "run", !.saw = "idle"] \in UpdateProcess
    OBVIOUS
  <2>2. [update EXCEPT !.polls = @ + 1] \in UpdateProcess
    BY <1>5 DEF UpdatePoll
  <2> QED
    BY <1>5, <2>1, <2>2 DEF UpdatePoll
<1>6. CASE UpdatePollsExhausted
  BY <1>6 DEF UpdatePollsExhausted
<1>7. CASE UpdateRun
  BY <1>7 DEF UpdateRun
<1>8. CASE UpdateUnpause
  <2>1. [update EXCEPT !.phase = "restart"] \in UpdateProcess
    OBVIOUS
  <2> QED
    BY <1>0, <1>8, <2>1 DEF UpdateUnpause
<1>9. CASE UpdateAborts
  BY <1>0, <1>9 DEF UpdateAborts
<1>10. CASE UpdateRestart
  BY <1>0, <1>10 DEF UpdateRestart, LoseMemory
<1> QED
  BY <1>1, <1>2, <1>3, <1>4, <1>5, <1>6, <1>7, <1>8, <1>9, <1>10
     DEF Next, Updater, vars, Receive, Recheck, TurnReturns, TurnRaises

LEMMA TypeOKSplits == TypeOK <=> QueueTypes /\ UpdateTypes
BY DEF TypeOK, QueueTypes, UpdateTypes

LEMMA InitTypes == Init => TypeOK
<1> SUFFICES ASSUME Init PROVE TypeOK
  OBVIOUS
<1>1. QueueTypes
  BY DEF Init, QueueTypes, TaskState
<1>2. UpdateTypes
  BY GatewayQueueAssumption
     DEF Init, UpdateTypes, UpdateProcess, UpdatePhase, NoUpdate
<1> QED
  BY <1>1, <1>2, TypeOKSplits

LEMMA NextTypes == TypeOK /\ [Next]_vars => TypeOK'
<1> SUFFICES ASSUME TypeOK, [Next]_vars PROVE TypeOK'
  OBVIOUS
<1>1. QueueTypes' /\ UpdateTypes'
  BY QueueTyped, UpdateTyped, TypeOKSplits
<1> QED
  BY <1>1 DEF TypeOK, QueueTypes, UpdateTypes

(* Every variable keeps its type in every step of the code's handlers.     *)
THEOREM TypeCorrect == Spec => []TypeOK
BY InitTypes, NextTypes, PTL DEF Spec
-----------------------------------------------------------------------------
(* Steps of a task that goes round the wait loop, for queue q. *)
LEMMA TryStartKeeps ==
  ASSUME NEW m \in Messages, NEW q, TypeOK, q \in [Principals -> Seq(Messages)],
         TryStart(m, q), queue' = q, task[m] \notin {"turn"},
         \A n \in Messages : n # m /\ task[n] = "turn" =>
           q[PrincipalOf[n]] # <<>> /\ Head(q[PrincipalOf[n]]) = n,
         TurnAtHead, BusyExactlyDuringTurn
  PROVE  TurnAtHead' /\ BusyExactlyDuringTurn'
<1> USE GatewayQueueAssumption DEF TypeOK
<1>1. CASE MayStart(q, m)
  <2>1. /\ processing' = processing \cup {PrincipalOf[m]}
        /\ task' = [task EXCEPT ![m] = "turn"]
    BY <1>1 DEF TryStart
  <2>2. TurnAtHead'
    BY <1>1, <2>1 DEF TurnAtHead, MayStart
  <2>3. BusyExactlyDuringTurn'
    BY <1>1, <2>1 DEF BusyExactlyDuringTurn, MayStart
  <2> QED
    BY <2>2, <2>3
<1>2. CASE ~MayStart(q, m)
  <2>1. /\ processing' = processing
        /\ task' = [task EXCEPT ![m] = "waiting"]
    BY <1>2 DEF TryStart
  <2>2. TurnAtHead'
    BY <2>1 DEF TurnAtHead
  <2>3. BusyExactlyDuringTurn'
    BY <2>1 DEF BusyExactlyDuringTurn
  <2> QED
    BY <2>2, <2>3
<1> QED
  BY <1>1, <1>2

LEMMA AppendKeepsHead ==
  ASSUME NEW s \in Seq(Messages), NEW m \in Messages, s # <<>>
  PROVE  Append(s, m) # <<>> /\ Head(Append(s, m)) = Head(s)
OBVIOUS

LEMMA ReceiveKeeps ==
  ASSUME QueueInv, TypeOK', NEW m \in Messages, Receive(m)
  PROVE  QueueInv'
<1> DEFINE p == PrincipalOf[m]
           q == [queue EXCEPT ![p] = Append(@, m)]
<1>0. /\ queue \in [Principals -> Seq(Messages)]
      /\ task \in [Messages -> TaskState]
      /\ PrincipalOf \in [Messages -> Principals]
      /\ p \in Principals
      /\ processing \in SUBSET Principals
  BY GatewayQueueAssumption DEF QueueInv, TypeOK
<1>1. /\ queue' = q /\ q \in [Principals -> Seq(Messages)]
      /\ task[m] = "unsent" /\ TryStart(m, q) /\ flow' = flow
  BY <1>0 DEF Receive
<1>2. /\ q[p] = Append(queue[p], m)
      /\ \A r \in Principals : r # p => q[r] = queue[r]
  BY <1>0
<1> HIDE DEF q, p
<1>3. TurnAtHead' /\ BusyExactlyDuringTurn'
  <2>1. TurnAtHead /\ BusyExactlyDuringTurn /\ TypeOK
    BY DEF QueueInv
  <2>2. ASSUME NEW n \in Messages, n # m, task[n] = "turn"
        PROVE  q[PrincipalOf[n]] # <<>> /\ Head(q[PrincipalOf[n]]) = n
    <3>1. /\ PrincipalOf[n] \in Principals
          /\ queue[PrincipalOf[n]] \in Seq(Messages)
          /\ queue[PrincipalOf[n]] # <<>>
          /\ Head(queue[PrincipalOf[n]]) = n
      BY <1>0, <2>1, <2>2 DEF TurnAtHead
    <3>2. CASE PrincipalOf[n] = p
      BY <1>2, <3>1, <3>2, AppendKeepsHead
    <3>3. CASE PrincipalOf[n] # p
      BY <1>2, <3>1, <3>3
    <3> QED
      BY <3>2, <3>3
  <2> QED
    BY <1>1, <2>1, <2>2, TryStartKeeps
<1>4. NoLostWakeup'
  <2> SUFFICES ASSUME NEW n \in Messages, task'[n] = "waiting",
                      MayStart(queue, n)'
               PROVE  FALSE
    BY DEF NoLostWakeup
  <2>1. CASE n = m
    BY <1>0, <1>1, <2>1 DEF TryStart, MayStart
  <2>2. CASE n # m
    <3>1. /\ task[n] = "waiting" /\ ~MayStart(queue, n)
          /\ processing \subseteq processing'
      BY <1>0, <1>1, <2>2 DEF TryStart, NoLostWakeup, QueueInv
    <3>2. /\ PrincipalOf[n] \in Principals
          /\ queue[PrincipalOf[n]] \in Seq(Messages)
      BY <1>0
    <3>3. /\ q[PrincipalOf[n]] # <<>> /\ Head(q[PrincipalOf[n]]) = n
          /\ PrincipalOf[n] \notin processing /\ flow = "open"
      BY <1>1, <3>1 DEF MayStart
    <3>4. CASE queue[PrincipalOf[n]] = <<>>
      <4>1. CASE PrincipalOf[n] = p
        <5>1. Head(Append(<<>>, m)) = m
          OBVIOUS
        <5> QED
          BY <1>2, <2>2, <3>3, <3>4, <4>1, <5>1
      <4>2. CASE PrincipalOf[n] # p
        BY <1>2, <3>2, <3>3, <3>4, <4>2
      <4> QED
        BY <4>1, <4>2
    <3>5. CASE queue[PrincipalOf[n]] # <<>>
      <4>1. Head(q[PrincipalOf[n]]) = Head(queue[PrincipalOf[n]])
        BY <1>2, <3>2, <3>5, AppendKeepsHead
      <4> QED
        BY <3>1, <3>3, <3>5, <4>1 DEF MayStart
    <3> QED
      BY <3>4, <3>5
  <2> QED
    BY <2>1, <2>2
<1>5. /\ task'[m] \in Queued
      /\ \A n \in Messages : n # m => task'[n] = task[n]
  BY <1>0, <1>1 DEF TryStart, Queued
<1>6. /\ Len(queue[p]) \in Nat
      /\ Len(queue'[p]) = Len(queue[p]) + 1
      /\ queue'[p][Len(queue[p]) + 1] = m
      /\ \A i \in 1..Len(queue[p]) : queue'[p][i] = queue[p][i]
  BY <1>0, <1>1, <1>2
<1>7. ASSUME NEW r \in Principals, NEW i \in 1..Len(queue[r])
      PROVE  /\ queue[r][i] \in Messages /\ queue[r][i] # m
             /\ PrincipalOf[queue[r][i]] = r /\ task[queue[r][i]] \in Queued
  BY <1>0, <1>1 DEF QueueInv, QueueHoldsQueued, Queued
<1>8. p = PrincipalOf[m]
  BY DEF p
<1>9. ASSUME NEW r \in Principals, NEW i \in 1..Len(queue'[r])
      PROVE  \/ i \in 1..Len(queue[r]) /\ queue'[r][i] = queue[r][i]
             \/ r = p /\ i = Len(queue[p]) + 1 /\ queue'[r][i] = m
  <2>1. CASE r = p
    BY <1>6, <2>1
  <2>2. CASE r # p
    BY <1>1, <1>2, <2>2
  <2> QED
    BY <2>1, <2>2
<1>10. QueueHoldsQueued'
  BY <1>5, <1>7, <1>8, <1>9 DEF QueueHoldsQueued
<1>11. QueueHoldsOnce'
  <2> SUFFICES ASSUME NEW r \in Principals,
                      NEW i \in 1..Len(queue'[r]), NEW j \in 1..Len(queue'[r]),
                      queue'[r][i] = queue'[r][j]
               PROVE  i = j
    BY DEF QueueHoldsOnce
  <2>1. \A k \in 1..Len(queue[r]) : queue[r][k] # m
    BY <1>7
  <2>2. \A k, l \in 1..Len(queue[r]) : queue[r][k] = queue[r][l] => k = l
    BY DEF QueueInv, QueueHoldsOnce
  <2> QED
    BY <1>9, <2>1, <2>2
<1> QED
  BY <1>3, <1>4, <1>10, <1>11 DEF QueueInv

LEMMA RecheckKeeps ==
  ASSUME QueueInv, TypeOK', NEW m \in Messages, Recheck(m)
  PROVE  QueueInv'
<1> USE GatewayQueueAssumption DEF QueueInv, TypeOK
<1>1. /\ queue' = queue /\ task[m] = "notified" /\ TryStart(m, queue)
      /\ flow' = flow
  BY DEF Recheck
<1>2. TurnAtHead' /\ BusyExactlyDuringTurn'
  BY <1>1, TryStartKeeps DEF TurnAtHead
<1>3. NoLostWakeup'
  BY <1>1 DEF NoLostWakeup, TryStart, MayStart
<1>4. \A n \in Messages : task[n] \in Queued => task'[n] \in Queued
  BY <1>1 DEF TryStart, Queued
<1>5. QueueHoldsQueued'
  BY <1>1, <1>4 DEF QueueHoldsQueued
<1>6. QueueHoldsOnce'
  BY <1>1 DEF QueueHoldsOnce
<1> QED
  BY <1>2, <1>3, <1>5, <1>6

LEMMA ReleaseKeeps ==
  ASSUME QueueInv, TypeOK', NEW m \in Messages,
         NEW outcome \in {"done", "failed"}, Release(m, outcome)
  PROVE  QueueInv'
<1> DEFINE p == PrincipalOf[m]
<1> USE GatewayQueueAssumption DEF QueueInv, TypeOK
<1>0. /\ queue \in [Principals -> Seq(Messages)]
      /\ QueueHoldsOnce /\ QueueHoldsQueued
  OBVIOUS
<1>1. /\ p \in Principals /\ queue[p] # <<>> /\ Head(queue[p]) = m
      /\ task[m] = "turn"
      /\ queue' = [queue EXCEPT ![p] = Tail(@)]
      /\ processing' = processing \ {p}
  BY DEF Release, TurnAtHead
<1>2. task' = NotifyAll([task EXCEPT ![m] = outcome])
  BY DEF Release
<1>3. /\ task'[m] = outcome
      /\ \A n \in Messages : task'[n] # "waiting"
      /\ \A n \in Messages : n # m /\ task[n] \in Queued => task'[n] \in Queued
      /\ \A n \in Messages : task'[n] = "turn" <=> n # m /\ task[n] = "turn"
  BY <1>2 DEF NotifyAll, Queued
<1>4. \A n \in Messages : n # m /\ task[n] = "turn" => PrincipalOf[n] # p
  BY <1>1 DEF TurnAtHead
<1>5. TurnAtHead'
  BY <1>1, <1>3, <1>4 DEF TurnAtHead
<1>6. BusyExactlyDuringTurn'
  BY <1>1, <1>3, <1>4 DEF BusyExactlyDuringTurn
<1>7. NoLostWakeup'
  BY <1>3 DEF NoLostWakeup
<1>8. /\ Len(queue'[p]) = Len(queue[p]) - 1 /\ Len(queue[p]) \in Nat
      /\ queue[p][1] = m /\ 1 \in 1..Len(queue[p])
      /\ \A i \in 1..Len(queue'[p]) :
           queue'[p][i] = queue[p][i + 1] /\ i + 1 \in 1..Len(queue[p])
      /\ \A r \in Principals : r # p => queue'[r] = queue[r]
  BY <1>1
<1> HIDE DEF QueueInv, TypeOK, p
<1>9. ASSUME NEW r \in Principals, NEW i \in 1..Len(queue'[r])
      PROVE  /\ queue'[r][i] # m /\ queue'[r][i] \in Messages
             /\ PrincipalOf[queue'[r][i]] = r
             /\ task[queue'[r][i]] \in Queued
  <2>1. CASE r # p
    <3>1. queue'[r] = queue[r] /\ i \in 1..Len(queue[r])
      BY <1>8, <2>1
    <3>2. queue[r][i] \in Messages
      BY <1>0, <3>1
    <3>3. PrincipalOf[queue[r][i]] = r /\ task[queue[r][i]] \in Queued
      BY <1>0, <3>1 DEF QueueHoldsQueued
    <3>4. PrincipalOf[m] # r
      BY <2>1 DEF p
    <3> QED
      BY <3>1, <3>2, <3>3, <3>4
  <2>2. CASE r = p
    <3>1. /\ queue'[p][i] = queue[p][i + 1] /\ i + 1 \in 1..Len(queue[p])
          /\ i + 1 # 1
      BY <1>8, <2>2
    <3>2. queue[p][i + 1] # m
      <4>1. \A k, l \in 1..Len(queue[p]) : queue[p][k] = queue[p][l] => k = l
        BY <1>0, <1>1 DEF QueueHoldsOnce
      <4>2. 1 \in 1..Len(queue[p]) /\ queue[p][1] = m
        BY <1>8
      <4> QED
        BY <3>1, <4>1, <4>2
    <3>3. queue[p][i + 1] \in Messages
      BY <1>0, <1>1, <3>1
    <3>4. PrincipalOf[queue[p][i + 1]] = p /\ task[queue[p][i + 1]] \in Queued
      BY <1>0, <1>1, <3>1 DEF QueueHoldsQueued
    <3> QED
      BY <2>2, <3>1, <3>2, <3>3, <3>4
  <2> QED
    BY <2>1, <2>2
<1>10. QueueHoldsQueued'
  BY <1>3, <1>9 DEF QueueHoldsQueued
<1>11. QueueHoldsOnce'
  <2> SUFFICES ASSUME NEW r \in Principals,
                      NEW i \in 1..Len(queue'[r]), NEW j \in 1..Len(queue'[r]),
                      queue'[r][i] = queue'[r][j]
               PROVE  i = j
    BY DEF QueueHoldsOnce
  <2>1. CASE r # p
    BY <1>0, <1>8, <2>1 DEF QueueHoldsOnce
  <2>2. CASE r = p
    <3>1. /\ i + 1 \in 1..Len(queue[p]) /\ j + 1 \in 1..Len(queue[p])
          /\ queue[p][i + 1] = queue[p][j + 1]
      BY <1>8, <2>2
    <3>2. i + 1 = j + 1
      BY <1>0, <1>1, <3>1 DEF QueueHoldsOnce
    <3> QED
      BY <3>2
  <2> QED
    BY <2>1, <2>2
<1> QED
  BY <1>5, <1>6, <1>7, <1>10, <1>11 DEF QueueInv

LEMMA QueueControlKeeps ==
  ASSUME QueueInv, TypeOK', NEW control, QueueControl(control),
         UNCHANGED <<queue, processing>>
  PROVE  QueueInv'
<1> USE GatewayQueueAssumption DEF QueueInv, TypeOK
<1>1. /\ \A n \in Messages : task'[n] # "waiting"
      /\ \A n \in Messages : task[n] \in Queued => task'[n] \in Queued
      /\ \A n \in Messages : task'[n] = "turn" <=> task[n] = "turn"
  BY DEF QueueControl, NotifyAll, Queued
<1>2. TurnAtHead' /\ BusyExactlyDuringTurn'
  BY <1>1 DEF TurnAtHead, BusyExactlyDuringTurn
<1>3. NoLostWakeup'
  BY <1>1 DEF NoLostWakeup
<1>4. QueueHoldsQueued'
  BY <1>1 DEF QueueHoldsQueued
<1>5. QueueHoldsOnce'
  BY DEF QueueHoldsOnce
<1> QED
  BY <1>2, <1>3, <1>4, <1>5

LEMMA LoseMemoryKeeps ==
  ASSUME QueueInv, TypeOK', LoseMemory
  PROVE  QueueInv'
<1> USE GatewayQueueAssumption DEF QueueInv, TypeOK
<1>1. /\ queue' = [r \in Principals |-> <<>>] /\ processing' = {}
      /\ \A n \in Messages : task'[n] \notin Queued
  BY DEF LoseMemory, Queued
<1>2. TurnAtHead' /\ BusyExactlyDuringTurn' /\ NoLostWakeup'
  BY <1>1 DEF TurnAtHead, BusyExactlyDuringTurn, NoLostWakeup, Queued
<1>3. QueueHoldsQueued' /\ QueueHoldsOnce'
  BY <1>1 DEF QueueHoldsQueued, QueueHoldsOnce
<1> QED
  BY <1>2, <1>3

LEMMA NextKeepsQueueInv == QueueInv /\ [Next]_vars => QueueInv'
<1> SUFFICES ASSUME QueueInv, [Next]_vars PROVE QueueInv'
  OBVIOUS
<1>0. TypeOK'
  BY NextTypes DEF QueueInv
<1>1. ASSUME NEW m \in Messages, Receive(m) PROVE QueueInv'
  BY <1>0, <1>1, ReceiveKeeps
<1>2. ASSUME NEW m \in Messages, Recheck(m) PROVE QueueInv'
  BY <1>0, <1>2, RecheckKeeps
<1>3. ASSUME NEW m \in Messages, TurnReturns(m) \/ TurnRaises(m)
      PROVE  QueueInv'
  BY <1>0, <1>3, ReleaseKeeps DEF TurnReturns, TurnRaises
<1>4. CASE Restart \/ UpdateRestart
  BY <1>0, <1>4, LoseMemoryKeeps DEF Restart, UpdateRestart
<1>5. CASE UpdatePause \/ UpdateUnpause
  BY <1>0, <1>5, QueueControlKeeps DEF UpdatePause, UpdateUnpause
<1>6. CASE UNCHANGED gatewayVars
  BY <1>0, <1>6 DEF gatewayVars, QueueInv, TurnAtHead, BusyExactlyDuringTurn,
     NoLostWakeup, MayStart, QueueHoldsQueued, QueueHoldsOnce
<1> QED
  BY <1>1, <1>2, <1>3, <1>4, <1>5, <1>6
     DEF Next, Updater, vars, gatewayVars, UpdateKilled, UpdatePoll,
         UpdatePollsExhausted, UpdateRun, UpdateAborts

LEMMA InitQueueInv == Init => QueueInv
<1> SUFFICES ASSUME Init PROVE QueueInv
  OBVIOUS
<1>1. TypeOK
  BY InitTypes
<1>2. TurnAtHead /\ BusyExactlyDuringTurn /\ NoLostWakeup
  BY GatewayQueueAssumption
     DEF Init, TurnAtHead, BusyExactlyDuringTurn, NoLostWakeup
<1>3. QueueHoldsQueued /\ QueueHoldsOnce
  BY DEF Init, QueueHoldsQueued, QueueHoldsOnce
<1> QED
  BY <1>1, <1>2, <1>3 DEF QueueInv

THEOREM QueueInvariant == Spec => []QueueInv
BY InitQueueInv, NextKeepsQueueInv, PTL DEF Spec

(* Two messages of one principal never have a turn together, whatever the  *)
(* order in which tasks are woken, and the one that has it is the oldest.  *)
THEOREM TurnsAreSerial == Spec => [](TurnAtHead /\ OneTurnPerPrincipal)
<1>1. QueueInv => TurnAtHead /\ OneTurnPerPrincipal
  BY DEF QueueInv, TurnAtHead, OneTurnPerPrincipal
<1> QED
  BY <1>1, QueueInvariant, PTL

(* The finally block frees a principal exactly when its turn is over.      *)
THEOREM BusyIsExact == Spec => []BusyExactlyDuringTurn
<1>1. QueueInv => BusyExactlyDuringTurn
  BY DEF QueueInv
<1> QED
  BY <1>1, QueueInvariant, PTL

(* No task sleeps in Condition.wait while it could have its turn.          *)
THEOREM WakeupsAreNotLost == Spec => []NoLostWakeup
<1>1. QueueInv => NoLostWakeup
  BY DEF QueueInv
<1> QED
  BY <1>1, QueueInvariant, PTL
-----------------------------------------------------------------------------
(* While an update that paused this gateway goes on, no turn begins. *)
LEMMA PausedStartsNothing ==
  ASSUME NEW m, NEW q, flow = "paused", TryStart(m, q)
  PROVE  processing' = processing
BY DEF TryStart, MayStart

LEMMA NextKeepsUpdateInv == UpdateInv /\ [Next]_vars => UpdateInv'
<1> SUFFICES ASSUME UpdateInv, [Next]_vars PROVE UpdateInv'
  OBVIOUS
<1>0. /\ TypeOK' /\ UpdateTypes
      /\ epoch \in Nat /\ update.epoch \in Nat
      /\ UpdateKeepsPaused /\ UpdateQuiescent
  BY NextTypes, GatewayQueueAssumption, TypeOKSplits
     DEF UpdateInv, UpdateTypes, UpdateProcess
<1> SUFFICES UpdateKeepsPaused' /\ UpdateQuiescent'
  BY <1>0 DEF UpdateInv
<1>1. CASE /\ UNCHANGED <<flow, epoch, update>>
           /\ flow = "paused" => processing' \subseteq processing
  BY <1>0, <1>1 DEF UpdateKeepsPaused, UpdateQuiescent
<1>2. ASSUME NEW m \in Messages, Receive(m) \/ Recheck(m)
      PROVE  UpdateKeepsPaused' /\ UpdateQuiescent'
  BY <1>1, <1>2, PausedStartsNothing DEF Receive, Recheck
<1>3. ASSUME NEW m \in Messages, TurnReturns(m) \/ TurnRaises(m)
      PROVE  UpdateKeepsPaused' /\ UpdateQuiescent'
  BY <1>1, <1>3 DEF TurnReturns, TurnRaises, Release
<1>4. CASE LoseMemory /\ update' \in {update, UpdateOver}
  <2>1. epoch' = epoch + 1
    BY <1>4 DEF LoseMemory
  <2>2. UpdateOver.epoch = 0 /\ UpdateOver.phase = "none"
    BY DEF UpdateOver, NoUpdate
  <2>3. epoch \in Nat
    BY <1>0, GatewayQueueAssumption DEF UpdateTypes
  <2> QED
    BY <1>0, <1>4, <2>1, <2>2, <2>3 DEF UpdateKeepsPaused, UpdateQuiescent
<1>5. CASE UpdatePause
  <2>1. /\ update'.phase = "polling" /\ update'.saw = "busy"
        /\ update'.epoch = epoch /\ epoch' = epoch /\ flow' = "paused"
    BY <1>5 DEF UpdatePause, QueueControl
  <2> QED
    BY <1>0, <2>1 DEF UpdateKeepsPaused, UpdateQuiescent
<1>6. CASE UpdateKilled \/ UpdateAborts
  <2>1. /\ update'.phase = "none" /\ update'.epoch = 0
        /\ epoch' = epoch
    BY <1>6 DEF UpdateKilled, UpdateAborts, UpdateOver, NoUpdate, gatewayVars
  <2>2. epoch \in Nat
    BY <1>0, GatewayQueueAssumption DEF UpdateTypes
  <2> QED
    BY <1>0, <2>1, <2>2 DEF UpdateKeepsPaused, UpdateQuiescent
<1>7. CASE UpdatePoll
  <2>1. CASE processing = {}
    <3>1. /\ update'.phase = "run" /\ update'.epoch = update.epoch
          /\ UNCHANGED <<epoch, flow, processing>> /\ update.phase = "polling"
      BY <1>0, <1>7, <2>1
         DEF UpdatePoll, gatewayVars, UpdateTypes, UpdateProcess
    <3> QED
      BY <1>0, <2>1, <3>1 DEF UpdateKeepsPaused, UpdateQuiescent
  <2>2. CASE processing # {}
    <3>1. /\ update'.phase = "polling" /\ update'.epoch = update.epoch
          /\ update'.saw = update.saw
          /\ UNCHANGED <<epoch, flow, processing>> /\ update.phase = "polling"
      BY <1>0, <1>7, <2>2
         DEF UpdatePoll, gatewayVars, UpdateTypes, UpdateProcess
    <3> QED
      BY <1>0, <3>1 DEF UpdateKeepsPaused, UpdateQuiescent
  <2> QED
    BY <2>1, <2>2
<1>8. CASE UpdatePollsExhausted \/ UpdateRun
  <2>1. /\ update'.phase \in {"run", "unpause"} /\ update'.epoch = update.epoch
        /\ update'.saw = update.saw /\ update.phase \in {"polling", "run"}
        /\ UNCHANGED <<epoch, flow, processing>>
    BY <1>0, <1>8
       DEF UpdatePollsExhausted, UpdateRun, gatewayVars, UpdateTypes, UpdateProcess
  <2> QED
    BY <1>0, <2>1 DEF UpdateKeepsPaused, UpdateQuiescent
<1>9. CASE UpdateUnpause
  <2>1. /\ update'.phase \in {"restart", "none"} /\ epoch' = epoch
        /\ update'.epoch \in {update.epoch, 0}
    BY <1>0, <1>9
       DEF UpdateUnpause, UpdateOver, NoUpdate, UpdateTypes, UpdateProcess
  <2>2. epoch \in Nat
    BY <1>0, GatewayQueueAssumption DEF UpdateTypes
  <2> QED
    BY <1>0, <2>1, <2>2 DEF UpdateKeepsPaused, UpdateQuiescent
<1>10. CASE UNCHANGED vars
  BY <1>1, <1>10 DEF vars
<1> QED
  BY <1>2, <1>3, <1>4, <1>5, <1>6, <1>7, <1>8, <1>9, <1>10
     DEF Next, Updater, Restart, UpdateRestart

(* An update that saw the queue idle installs over an idle gateway, unless *)
(* the gateway is no longer the one it paused.                             *)
THEOREM UpdatesAreQuiescent == Spec => []UpdateQuiescent
<1>1. Init => UpdateInv
  BY InitTypes
     DEF Init, NoUpdate, UpdateInv, UpdateKeepsPaused, UpdateQuiescent
<1>2. UpdateInv => UpdateQuiescent
  BY DEF UpdateInv
<1> QED
  BY <1>1, <1>2, NextKeepsUpdateInv, PTL DEF Spec
-----------------------------------------------------------------------------
(* The task states that SerialTurns sees. *)
LEMMA NotifyKeepsTurns ==
  ASSUME NEW t \in [Messages -> TaskState]
  PROVE  {n \in Messages : NotifyAll(t)[n] = "turn"}
           = {n \in Messages : t[n] = "turn"}
BY DEF NotifyAll

LEMMA StepIsTurnStep ==
  ASSUME QueueInv, QueueInv', [Next]_vars
  PROVE  [Turns!Next]_(Turns!turnVars)
<1> DEFINE turns == {n \in Messages : task[n] = "turn"}
<1>0. /\ queue \in [Principals -> Seq(Messages)]
      /\ task \in [Messages -> TaskState]
      /\ PrincipalOf \in [Messages -> Principals]
      /\ TurnAtHead /\ TurnAtHead' /\ QueueHoldsQueued
  BY GatewayQueueAssumption DEF QueueInv, TypeOK
<1>1. CASE (UNCHANGED queue) /\ turns' = turns
  BY <1>1 DEF Turns!turnVars
<1>2. ASSUME NEW m \in Messages, Receive(m)
      PROVE  Turns!Join(m)
  <2>1. \A i \in 1..Len(queue[PrincipalOf[m]]) : queue[PrincipalOf[m]][i] # m
    BY <1>0, <1>2 DEF Receive, QueueHoldsQueued, Queued
  <2>2. queue' = [queue EXCEPT ![PrincipalOf[m]] = Append(@, m)]
    BY <1>2 DEF Receive
  <2>3. task' \in {[task EXCEPT ![m] = "turn"], [task EXCEPT ![m] = "waiting"]}
    BY <1>2 DEF Receive, TryStart
  <2>4. CASE task' = [task EXCEPT ![m] = "waiting"]
    <3>1. turns' = turns
      BY <1>0, <1>2, <2>4 DEF Receive
    <3> QED
      BY <2>1, <2>2, <3>1 DEF Turns!Join
  <2>5. CASE task' = [task EXCEPT ![m] = "turn"]
    <3>1. turns' = turns \cup {m}
      BY <1>0, <2>5
    <3>2. queue[PrincipalOf[m]] = <<>>
      <4>1. Head(queue'[PrincipalOf[m]]) = m
        BY <1>0, <2>5 DEF TurnAtHead
      <4>2. /\ queue[PrincipalOf[m]] \in Seq(Messages)
            /\ queue'[PrincipalOf[m]] = Append(queue[PrincipalOf[m]], m)
        BY <1>0, <2>2
      <4>3. CASE queue[PrincipalOf[m]] # <<>>
        <5>1. Head(queue[PrincipalOf[m]]) = m
          BY <4>1, <4>2, <4>3, AppendKeepsHead
        <5> QED
          BY <2>1, <4>2, <4>3, <5>1
      <4> QED
        BY <4>3
    <3> QED
      BY <2>1, <2>2, <3>1, <3>2 DEF Turns!Join
  <2> QED
    BY <2>3, <2>4, <2>5
<1>3. ASSUME NEW m \in Messages, Recheck(m)
      PROVE  Turns!Begin(PrincipalOf[m]) \/ (UNCHANGED queue /\ turns' = turns)
  <2>1. /\ queue' = queue /\ task[m] = "notified"
        /\ task' \in {[task EXCEPT ![m] = "turn"],
                      [task EXCEPT ![m] = "waiting"]}
    BY <1>3 DEF Recheck, TryStart
  <2>2. CASE task' = [task EXCEPT ![m] = "waiting"]
    BY <1>0, <2>1, <2>2
  <2>3. CASE task' = [task EXCEPT ![m] = "turn"]
    <3>1. turns' = turns \cup {m} /\ m \notin turns
      BY <1>0, <2>1, <2>3
    <3>2. queue[PrincipalOf[m]] # <<>> /\ Head(queue[PrincipalOf[m]]) = m
      BY <1>0, <2>1, <2>3 DEF TurnAtHead
    <3> QED
      BY <2>1, <3>1, <3>2 DEF Turns!Begin
  <2> QED
    BY <2>1, <2>2, <2>3
<1>4. ASSUME NEW m \in Messages, TurnReturns(m) \/ TurnRaises(m)
      PROVE  Turns!Finish(PrincipalOf[m])
  <2>1. PICK outcome \in {"done", "failed"} : Release(m, outcome)
    BY <1>4 DEF TurnReturns, TurnRaises
  <2>2. /\ queue[PrincipalOf[m]] # <<>> /\ Head(queue[PrincipalOf[m]]) = m
        /\ m \in turns
    BY <1>0, <2>1 DEF Release, TurnAtHead
  <2>3. queue' = [queue EXCEPT ![PrincipalOf[m]] = Tail(@)]
    BY <1>0, <2>1, <2>2 DEF Release
  <2>4. turns' = turns \ {m}
    BY <1>0, <2>1 DEF Release, NotifyAll
  <2> QED
    BY <2>2, <2>3, <2>4 DEF Turns!Finish
<1>5. CASE LoseMemory
  <2>1. turns' = {}
    BY <1>5 DEF LoseMemory, Queued
  <2> QED
    BY <1>5, <2>1 DEF LoseMemory, Turns!Next, Turns!Forget
<1>6. ASSUME NEW control, QueueControl(control), UNCHANGED queue
      PROVE  (UNCHANGED queue) /\ turns' = turns
  BY <1>0, <1>6, NotifyKeepsTurns DEF QueueControl
<1>7. CASE UpdatePause \/ UpdateUnpause
  BY <1>1, <1>6, <1>7 DEF UpdatePause, UpdateUnpause
<1>8. CASE UNCHANGED gatewayVars
  BY <1>1, <1>8 DEF gatewayVars
<1>9. ASSUME NEW m \in Messages,
             Receive(m) \/ Recheck(m) \/ TurnReturns(m) \/ TurnRaises(m)
      PROVE  [Turns!Next]_(Turns!turnVars)
  <2>1. PrincipalOf[m] \in Principals
    BY <1>0
  <2> QED
    BY <1>1, <1>2, <1>3, <1>4, <1>9, <2>1 DEF Turns!Next
<1> QED
  BY <1>5, <1>7, <1>8, <1>9
     DEF Next, Updater, vars, gatewayVars, Restart, UpdateRestart, UpdateKilled,
         UpdatePoll, UpdatePollsExhausted, UpdateRun, UpdateAborts

(* The queue with its waiting tasks, notifications, pauses and restarts    *)
(* implements one serial line of turns per principal.                      *)
THEOREM QueueImplementsSerialTurns == Spec => ImplementsSerialTurns
<1>1. Init => Turns!Init
  BY DEF Init, Turns!Init
<1> QED
  BY <1>1, StepIsTurnStep, QueueInvariant, PTL
     DEF Spec, ImplementsSerialTurns, Turns!Spec
-----------------------------------------------------------------------------
(* The journal.  A queue is in the order in which its messages were        *)
(* journalled, and they were journalled after those that are done.         *)
QueueAsJournalled ==
  \A p \in Principals : \A j \in 1..Len(queue[p]) :
    /\ \A i \in 1..Len(queue[p]) :
         i < j => LoggedBefore(queue[p][i], queue[p][j], "enqueue")
    /\ \A m \in Messages :
         PrincipalOf[m] = p /\ task[m] = "done" => LoggedBefore(m, queue[p][j], "enqueue")

JournalInv == JournalInArrivalOrder /\ QueueAsJournalled

LEMMA LogIs ==
  ASSUME TypeOK, NEW m \in Messages, NEW event \in {"enqueue", "dequeue"}, Log(m, event)
  PROVE  LET p == PrincipalOf[m]
             last == Len(journal[p]) + 1
         IN  /\ Len(journal[p]) \in Nat
             /\ journal'[p] = Append(journal[p], [event |-> event, id |-> m])
             /\ \A r \in Principals : r # p => journal'[r] = journal[r]
             /\ LoggedAt(m, event)' = LoggedAt(m, event) \cup {last}
             /\ \A n \in Messages, e \in {"enqueue", "dequeue"} :
                  /\ n # m \/ e # event => LoggedAt(n, e)' = LoggedAt(n, e)
                  /\ LoggedAt(n, e) \subseteq 1..Len(journal[PrincipalOf[n]])
<1> DEFINE p == PrincipalOf[m]
           last == Len(journal[p]) + 1
           s == journal[p]
           x == [event |-> event, id |-> m]
<1>1. /\ p \in Principals /\ s \in Seq(JournalRecord) /\ Len(s) \in Nat
      /\ journal'[p] = Append(s, x)
      /\ \A r \in Principals : r # p => journal'[r] = journal[r]
  BY GatewayQueueAssumption DEF TypeOK, Log
<1>2. /\ DOMAIN Append(s, x) = DOMAIN s \cup {last} /\ last \notin DOMAIN s
      /\ Append(s, x)[last] = x
      /\ \A i \in DOMAIN s : Append(s, x)[i] = s[i]
  BY <1>1
<1>3. ASSUME NEW n \in Messages, NEW e \in {"enqueue", "dequeue"}, n # m \/ e # event
      PROVE  LoggedAt(n, e)' = LoggedAt(n, e)
  <2>1. [event |-> e, id |-> n] # x
    BY <1>3
  <2>2. CASE PrincipalOf[n] = p
    BY <1>1, <1>2, <2>1, <2>2 DEF LoggedAt
  <2>3. CASE PrincipalOf[n] # p
    BY <1>1, <2>3, GatewayQueueAssumption DEF LoggedAt
  <2> QED
    BY <2>2, <2>3
<1>4. LoggedAt(m, event)' = LoggedAt(m, event) \cup {last}
  BY <1>1, <1>2 DEF LoggedAt
<1>5. ASSUME NEW n \in Messages, NEW e
      PROVE  LoggedAt(n, e) \subseteq 1..Len(journal[PrincipalOf[n]])
  <2>1. journal[PrincipalOf[n]] \in Seq(JournalRecord)
    BY GatewayQueueAssumption DEF TypeOK
  <2> QED
    BY <2>1 DEF LoggedAt
<1> QED
  BY <1>1, <1>3, <1>4, <1>5

(* A new record is the only one of its kind. *)
LEMMA LoggedOnce ==
  ASSUME TypeOK, JournalInArrivalOrder, NEW m \in Messages,
         NEW event \in {"enqueue", "dequeue"}, Log(m, event), LoggedAt(m, event) = {}
  PROVE  \A p \in Principals : \A i, j \in DOMAIN journal'[p] :
           journal'[p][i] = journal'[p][j] => i = j
<1> DEFINE s == journal[PrincipalOf[m]]
           x == [event |-> event, id |-> m]
<1>1. /\ journal'[PrincipalOf[m]] = Append(s, x) /\ s \in Seq(JournalRecord)
      /\ \A r \in Principals : r # PrincipalOf[m] => journal'[r] = journal[r]
  BY LogIs, GatewayQueueAssumption DEF TypeOK
<1>2. \A i \in DOMAIN s : s[i] # x
  BY DEF LoggedAt
<1>3. \A i, j \in DOMAIN s : s[i] = s[j] => i = j
  BY GatewayQueueAssumption DEF JournalInArrivalOrder
<1>4. \A i, j \in DOMAIN Append(s, x) : Append(s, x)[i] = Append(s, x)[j] => i = j
  BY <1>1, <1>2, <1>3
<1>5. ASSUME NEW p \in Principals, NEW i \in DOMAIN journal'[p], NEW j \in DOMAIN journal'[p],
             journal'[p][i] = journal'[p][j]
      PROVE  i = j
  BY <1>1, <1>4, <1>5 DEF JournalInArrivalOrder
<1> QED
  BY <1>5

LEMMA JournalStays ==
  ASSUME JournalInv, UNCHANGED journal,
         \A m \in Messages : /\ task'[m] = "unsent" <=> task[m] = "unsent"
                             /\ task'[m] = "done" <=> task[m] = "done",
         \A p \in Principals :
           \/ queue'[p] = queue[p]
           \/ queue'[p] = <<>>
           \/ queue[p] \in Seq(Messages) \ {<<>>} /\ queue'[p] = Tail(queue[p])
  PROVE  JournalInv'
<1>1. \A m, n, e : /\ LoggedAt(m, e)' = LoggedAt(m, e)
                   /\ LoggedBefore(m, n, e)' = LoggedBefore(m, n, e)
  BY DEF LoggedAt, LoggedBefore
<1>2. JournalInArrivalOrder'
  BY <1>1 DEF JournalInv, JournalInArrivalOrder
<1>3. ASSUME NEW p \in Principals, NEW j \in 1..Len(queue'[p])
      PROVE  \E l \in 1..Len(queue[p]) :
               /\ queue'[p][j] = queue[p][l]
               /\ \A i \in 1..Len(queue'[p]) :
                    i < j => \E k \in 1..Len(queue[p]) : k < l /\ queue'[p][i] = queue[p][k]
  <2>1. CASE queue'[p] = queue[p]
    BY <2>1
  <2>2. CASE queue'[p] = <<>>
    BY <2>2
  <2>3. CASE queue[p] \in Seq(Messages) \ {<<>>} /\ queue'[p] = Tail(queue[p])
    <3>1. /\ Len(queue[p]) \in Nat \ {0} /\ Len(queue'[p]) = Len(queue[p]) - 1
          /\ \A i \in 1..Len(queue'[p]) : queue'[p][i] = queue[p][i + 1]
      BY <2>3
    <3>2. \A i \in 1..Len(queue'[p]) : i + 1 \in 1..Len(queue[p])
      BY <3>1
    <3>3. \A i \in 1..Len(queue'[p]) : i < j => i + 1 < j + 1
      BY <3>1
    <3> QED
      BY <3>1, <3>2, <3>3
  <2> QED
    BY <2>1, <2>2, <2>3
<1>4. QueueAsJournalled'
  <2> SUFFICES ASSUME NEW p \in Principals, NEW j \in 1..Len(queue'[p])
               PROVE  /\ \A i \in 1..Len(queue'[p]) : i < j =>
                           LoggedBefore(queue[p][i], queue[p][j], "enqueue")'
                      /\ \A m \in Messages : PrincipalOf[m] = p /\ task'[m] = "done" =>
                           LoggedBefore(m, queue[p][j], "enqueue")'
    BY DEF QueueAsJournalled
  <2>1. PICK l \in 1..Len(queue[p]) :
          /\ queue'[p][j] = queue[p][l]
          /\ \A i \in 1..Len(queue'[p]) :
               i < j => \E k \in 1..Len(queue[p]) : k < l /\ queue'[p][i] = queue[p][k]
    BY <1>3
  <2>2. /\ \A k \in 1..Len(queue[p]) :
             k < l => LoggedBefore(queue[p][k], queue[p][l], "enqueue")
        /\ \A m \in Messages : PrincipalOf[m] = p /\ task[m] = "done" =>
             LoggedBefore(m, queue[p][l], "enqueue")
    BY DEF JournalInv, QueueAsJournalled
  <2> QED
    BY <1>1, <2>1, <2>2
<1> QED
  BY <1>2, <1>4 DEF JournalInv

LEMMA ReceiveJournals ==
  ASSUME QueueInv, JournalInv, NEW m \in Messages, Receive(m)
  PROVE  JournalInv'
<1> DEFINE p == PrincipalOf[m]
           last == Len(journal[p]) + 1
<1>1. /\ TypeOK /\ Log(m, "enqueue") /\ task[m] = "unsent" /\ p \in Principals
      /\ queue' = [queue EXCEPT ![p] = Append(@, m)]
  BY GatewayQueueAssumption DEF QueueInv, Receive
<1>2. /\ task'[m] \notin {"unsent", "done"}
      /\ \A n \in Messages : n # m => task'[n] = task[n]
  BY <1>1 DEF Receive, TryStart, TypeOK
<1>3. LoggedAt(m, "enqueue") = {} /\ LoggedAt(m, "dequeue") = {}
  BY <1>1 DEF JournalInv, JournalInArrivalOrder
<1>4. /\ LoggedAt(m, "enqueue")' = {last} /\ LoggedAt(m, "dequeue")' = {}
      /\ \A n \in Messages : LoggedAt(n, "dequeue")' = LoggedAt(n, "dequeue")
      /\ \A n \in Messages : n # m => LoggedAt(n, "enqueue")' = LoggedAt(n, "enqueue")
  BY <1>1, <1>3, LogIs
<1>5. ASSUME NEW n \in Messages, n # m, PrincipalOf[n] = p
      PROVE  LoggedBefore(n, m, "enqueue")'
  <2>1. LoggedAt(n, "enqueue") \subseteq 1..Len(journal[p]) /\ Len(journal[p]) \in Nat
    BY <1>1, <1>5, LogIs
  <2> HIDE DEF p
  <2> QED
    BY <1>4, <1>5, <2>1 DEF LoggedBefore
<1> HIDE DEF last
<1>6. \A n, k \in Messages : n # m /\ k # m =>
        LoggedBefore(n, k, "enqueue")' = LoggedBefore(n, k, "enqueue")
  BY <1>4 DEF LoggedBefore
<1>7. JournalInArrivalOrder'
  <2>1. \A n \in Messages : /\ LoggedAt(n, "enqueue")' # {} <=> task'[n] # "unsent"
                            /\ LoggedAt(n, "dequeue")' # {} <=> task'[n] = "done"
    BY <1>2, <1>4 DEF JournalInv, JournalInArrivalOrder
  <2>2. ASSUME NEW n \in Messages, NEW k \in Messages, PrincipalOf[n] = PrincipalOf[k],
               LoggedBefore(n, k, "enqueue")'
        PROVE  LoggedBefore(n, k, "dequeue")'
    <3>1. CASE n = m \/ k = m
      BY <1>4, <3>1 DEF LoggedBefore
    <3>2. CASE n # m /\ k # m
      BY <1>4, <1>6, <2>2, <3>2 DEF LoggedBefore, JournalInv, JournalInArrivalOrder
    <3> QED
      BY <3>1, <3>2
  <2> QED
    BY <1>1, <1>3, <2>1, <2>2, LoggedOnce DEF JournalInv, JournalInArrivalOrder
<1>8. ASSUME NEW r \in Principals, NEW i \in 1..Len(queue'[r])
      PROVE  \/ /\ i \in 1..Len(queue[r]) /\ queue'[r][i] = queue[r][i]
                /\ queue[r][i] \in Messages \ {m} /\ PrincipalOf[queue[r][i]] = r
             \/ r = p /\ queue'[r][i] = m /\ i = Len(queue[r]) + 1 /\ Len(queue[r]) \in Nat
  <2>1. queue \in [Principals -> Seq(Messages)]
    BY <1>1 DEF TypeOK
  <2>2. \A j \in 1..Len(queue[r]) :
          queue[r][j] \in Messages \ {m} /\ PrincipalOf[queue[r][j]] = r
    BY <1>1, <2>1 DEF QueueInv, QueueHoldsQueued, Queued
  <2>3. CASE r = p
    BY <1>1, <2>1, <2>2, <2>3
  <2>4. CASE r # p
    BY <1>1, <2>1, <2>2, <2>4
  <2> QED
    BY <2>3, <2>4
<1>9. QueueAsJournalled'
  <2> SUFFICES ASSUME NEW r \in Principals, NEW j \in 1..Len(queue'[r])
               PROVE  /\ \A i \in 1..Len(queue'[r]) : i < j =>
                           LoggedBefore(queue[r][i], queue[r][j], "enqueue")'
                      /\ \A n \in Messages : PrincipalOf[n] = r /\ task'[n] = "done" =>
                           LoggedBefore(n, queue[r][j], "enqueue")'
    BY DEF QueueAsJournalled
  <2>1. ASSUME NEW i \in 1..Len(queue'[r]), i < j
        PROVE  LoggedBefore(queue[r][i], queue[r][j], "enqueue")'
    <3>1. \/ i \in 1..Len(queue[r])
          \/ r = p /\ i = Len(queue[r]) + 1 /\ Len(queue[r]) \in Nat
      BY <1>8
    <3>2. i \in 1..Len(queue[r]) /\ queue'[r][i] = queue[r][i]
          /\ queue[r][i] \in Messages \ {m} /\ PrincipalOf[queue[r][i]] = r
      BY <1>8, <2>1
    <3>3. CASE queue'[r][j] = m /\ r = p
      BY <1>5, <3>2, <3>3
    <3>4. CASE j \in 1..Len(queue[r]) /\ queue'[r][j] = queue[r][j]
               /\ queue[r][j] \in Messages \ {m}
      BY <1>6, <2>1, <3>2, <3>4 DEF JournalInv, QueueAsJournalled
    <3> QED
      BY <1>8, <3>3, <3>4
  <2>2. ASSUME NEW n \in Messages, PrincipalOf[n] = r, task'[n] = "done"
        PROVE  LoggedBefore(n, queue[r][j], "enqueue")'
    <3>1. n # m /\ task[n] = "done"
      BY <1>2, <2>2
    <3>2. CASE queue'[r][j] = m /\ r = p
      BY <1>5, <2>2, <3>1, <3>2
    <3>3. CASE j \in 1..Len(queue[r]) /\ queue'[r][j] = queue[r][j]
               /\ queue[r][j] \in Messages \ {m}
      BY <1>6, <2>2, <3>1, <3>3 DEF JournalInv, QueueAsJournalled
    <3> QED
      BY <1>8, <3>2, <3>3
  <2> QED
    BY <2>1, <2>2
<1> QED
  BY <1>7, <1>9 DEF JournalInv

LEMMA ReturnJournals ==
  ASSUME QueueInv, JournalInv, NEW m \in Messages, TurnReturns(m)
  PROVE  JournalInv'
<1> DEFINE p == PrincipalOf[m]
           last == Len(journal[p]) + 1
<1>1. /\ TypeOK /\ Log(m, "dequeue") /\ task[m] = "turn" /\ p \in Principals
      /\ queue[p] \in Seq(Messages) /\ queue[p] # <<>> /\ Head(queue[p]) = m
      /\ queue' = [queue EXCEPT ![p] = Tail(@)]
  BY GatewayQueueAssumption DEF QueueInv, TurnAtHead, TurnReturns, Release, TypeOK
<1>2. /\ task'[m] = "done"
      /\ \A n \in Messages : n # m => /\ task'[n] = "done" <=> task[n] = "done"
                                      /\ task'[n] = "unsent" <=> task[n] = "unsent"
  BY <1>1 DEF TurnReturns, Release, NotifyAll, TypeOK
<1>3. LoggedAt(m, "enqueue") # {} /\ LoggedAt(m, "dequeue") = {}
  BY <1>1 DEF JournalInv, JournalInArrivalOrder
<1>4. /\ LoggedAt(m, "dequeue")' = {last}
      /\ \A n \in Messages : LoggedAt(n, "enqueue")' = LoggedAt(n, "enqueue")
      /\ \A n \in Messages : n # m => LoggedAt(n, "dequeue")' = LoggedAt(n, "dequeue")
  BY <1>1, <1>3, LogIs
<1>5. ASSUME NEW n \in Messages, n # m, PrincipalOf[n] = p
      PROVE  LoggedBefore(n, m, "dequeue")'
  <2>1. LoggedAt(n, "dequeue") \subseteq 1..Len(journal[p]) /\ Len(journal[p]) \in Nat
    BY <1>1, <1>5, LogIs
  <2> HIDE DEF p
  <2> QED
    BY <1>4, <1>5, <2>1 DEF LoggedBefore
<1> HIDE DEF last
<1>6. \A n, k \in Messages : LoggedBefore(n, k, "enqueue")' = LoggedBefore(n, k, "enqueue")
  BY <1>4 DEF LoggedBefore
<1>7. /\ 1 \in 1..Len(queue[p]) /\ queue[p][1] = m
      /\ Len(queue[p]) \in Nat /\ Len(Tail(queue[p])) = Len(queue[p]) - 1
      /\ \A i \in 1..Len(Tail(queue[p])) : /\ i + 1 \in 1..Len(queue[p]) /\ 1 < i + 1
                                           /\ Tail(queue[p])[i] = queue[p][i + 1]
  BY <1>1
(* Whoever was done before was journalled before m, which was in the queue. *)
<1>8. ASSUME NEW n \in Messages, PrincipalOf[n] = p, task[n] = "done"
      PROVE  LoggedBefore(n, m, "enqueue") /\ LoggedAt(n, "enqueue") # {}
  BY <1>1, <1>7, <1>8 DEF JournalInv, QueueAsJournalled, JournalInArrivalOrder
<1>9. JournalInArrivalOrder'
  <2>1. \A n \in Messages : /\ LoggedAt(n, "enqueue")' # {} <=> task'[n] # "unsent"
                            /\ LoggedAt(n, "dequeue")' # {} <=> task'[n] = "done"
    BY <1>1, <1>2, <1>4 DEF JournalInv, JournalInArrivalOrder
  <2>2. ASSUME NEW n \in Messages, NEW k \in Messages, PrincipalOf[n] = PrincipalOf[k],
               LoggedBefore(n, k, "enqueue")'
        PROVE  LoggedBefore(n, k, "dequeue")'
    <3>0. LoggedBefore(n, k, "enqueue")
      BY <1>6, <2>2
    <3>1. CASE n # m /\ k # m
      BY <1>4, <2>2, <3>0, <3>1 DEF LoggedBefore, JournalInv, JournalInArrivalOrder
    <3>2. CASE n # m /\ k = m
      BY <1>5, <2>2, <3>2
    <3>3. CASE n = m
      <4>1. CASE LoggedAt(k, "dequeue")' = {}
        BY <4>1 DEF LoggedBefore
      <4>2. CASE LoggedAt(k, "dequeue")' # {}
        <5>1. LoggedAt(k, "enqueue") # {}
          BY <1>1, <1>2, <1>3, <1>8, <2>1, <2>2, <3>3, <4>2
        <5>2. PICK i \in LoggedAt(m, "enqueue"), j \in LoggedAt(k, "enqueue") : TRUE
          BY <1>3, <5>1
        <5>3. i \in Nat /\ j \in Nat
          <6>1. /\ Len(journal[p]) \in Nat
                /\ LoggedAt(m, "enqueue") \subseteq 1..Len(journal[p])
                /\ LoggedAt(k, "enqueue") \subseteq 1..Len(journal[p])
            BY <1>1, <2>2, <3>3, LogIs
          <6> QED
            BY <5>2, <6>1
        <5>4. i < j
          BY <3>0, <3>3, <5>2 DEF LoggedBefore
        <5>5. k # m
          BY <3>0, <3>3, <5>2, <5>3 DEF LoggedBefore
        <5>6. j < i
          BY <1>2, <1>8, <2>1, <2>2, <3>3, <4>2, <5>2, <5>5 DEF LoggedBefore
        <5> QED
          BY <5>3, <5>4, <5>6
      <4> QED
        BY <4>1, <4>2
    <3> QED
      BY <3>1, <3>2, <3>3
  <2> QED
    BY <1>1, <1>3, <2>1, <2>2, LoggedOnce DEF JournalInv, JournalInArrivalOrder
<1>10. QueueAsJournalled'
  <2> SUFFICES ASSUME NEW r \in Principals, NEW j \in 1..Len(queue'[r])
               PROVE  /\ \A i \in 1..Len(queue'[r]) : i < j =>
                           LoggedBefore(queue[r][i], queue[r][j], "enqueue")'
                      /\ \A n \in Messages : PrincipalOf[n] = r /\ task'[n] = "done" =>
                           LoggedBefore(n, queue[r][j], "enqueue")'
    BY DEF QueueAsJournalled
  <2>1. /\ queue \in [Principals -> Seq(Messages)]
        /\ \A i \in 1..Len(queue[r]) : queue[r][i] \in Messages
    BY <1>1 DEF TypeOK
  <2>2. CASE r # p
    <3>1. queue'[r] = queue[r]
      BY <1>1, <2>1, <2>2
    <3>2. \A n \in Messages : PrincipalOf[n] = r => n # m
      BY <2>2
    <3> QED
      BY <1>2, <1>6, <2>1, <3>1, <3>2 DEF JournalInv, QueueAsJournalled
  <2>3. CASE r = p
    <3>1. queue'[r] = Tail(queue[r])
      BY <1>1, <2>1, <2>3
    <3>2. ASSUME NEW i \in 1..Len(queue'[r])
          PROVE  i + 1 \in 1..Len(queue[r]) /\ queue'[r][i] = queue[r][i + 1]
      BY <1>7, <2>3, <3>1
    <3>3. ASSUME NEW i \in 1..Len(queue'[r]), i < j
          PROVE  LoggedBefore(queue[r][i], queue[r][j], "enqueue")'
      <4>1. i + 1 < j + 1
        BY <3>3
      <4>2. LoggedBefore(queue[r][i + 1], queue[r][j + 1], "enqueue")
        BY <3>2, <4>1 DEF JournalInv, QueueAsJournalled
      <4> QED
        BY <1>6, <2>1, <3>2, <4>2
    <3>4. ASSUME NEW n \in Messages, PrincipalOf[n] = r, task'[n] = "done"
          PROVE  LoggedBefore(n, queue[r][j], "enqueue")'
      <4>1. LoggedBefore(n, queue[r][j + 1], "enqueue")
        <5>1. CASE n = m
          BY <1>7, <2>3, <3>1, <3>2, <5>1 DEF JournalInv, QueueAsJournalled
        <5>2. CASE n # m
          BY <1>2, <3>2, <3>4, <5>2 DEF JournalInv, QueueAsJournalled
        <5> QED
          BY <5>1, <5>2
      <4> QED
        BY <1>6, <2>1, <3>2, <4>1
    <3> QED
      BY <3>3, <3>4
  <2> QED
    BY <2>2, <2>3
<1> QED
  BY <1>9, <1>10 DEF JournalInv

LEMMA NextKeepsJournalInv == QueueInv /\ JournalInv /\ [Next]_vars => JournalInv'
<1> SUFFICES ASSUME QueueInv, JournalInv, [Next]_vars PROVE JournalInv'
  OBVIOUS
<1>0. /\ task \in [Messages -> TaskState] /\ queue \in [Principals -> Seq(Messages)]
      /\ TurnAtHead
  BY DEF QueueInv, TypeOK
<1>1. ASSUME NEW m \in Messages, Recheck(m) PROVE JournalInv'
  BY <1>0, <1>1, JournalStays DEF Recheck, TryStart
<1>2. ASSUME NEW m \in Messages, TurnRaises(m) PROVE JournalInv'
  <2>1. \A n \in Messages : /\ task'[n] = "unsent" <=> task[n] = "unsent"
                            /\ task'[n] = "done" <=> task[n] = "done"
    BY <1>0, <1>2 DEF TurnRaises, Release, NotifyAll
  <2>2. \A p \in Principals :
          \/ queue'[p] = queue[p]
          \/ queue[p] \in Seq(Messages) \ {<<>>} /\ queue'[p] = Tail(queue[p])
    BY <1>0, <1>2 DEF TurnRaises, Release
  <2> QED
    BY <1>2, <2>1, <2>2, JournalStays DEF TurnRaises
<1>3. CASE LoseMemory
  BY <1>0, <1>3, JournalStays DEF LoseMemory, Queued
<1>4. CASE UpdatePause \/ UpdateUnpause
  BY <1>0, <1>4, JournalStays DEF UpdatePause, UpdateUnpause, QueueControl, NotifyAll
<1>5. CASE UNCHANGED gatewayVars
  BY <1>5, JournalStays DEF gatewayVars
<1> QED
  BY <1>1, <1>2, <1>3, <1>4, <1>5, ReceiveJournals, ReturnJournals
     DEF Next, Updater, vars, gatewayVars, Restart, UpdateRestart, UpdateKilled,
         UpdatePoll, UpdatePollsExhausted, UpdateRun, UpdateAborts

(* message_queue.jsonl holds who was accepted and who was answered, in one *)
(* order, through every interleaving, failed turn and restart.             *)
THEOREM TheJournalIsInOrder == Spec => []JournalInArrivalOrder
<1>1. Init => JournalInv
  <2> SUFFICES ASSUME Init PROVE JournalInv
    OBVIOUS
  <2>1. \A m \in Messages : \A e : LoggedAt(m, e) = {}
    BY GatewayQueueAssumption DEF Init, LoggedAt
  <2>2. JournalInArrivalOrder
    BY <2>1 DEF Init, JournalInArrivalOrder, LoggedBefore
  <2>3. QueueAsJournalled
    BY DEF Init, QueueAsJournalled
  <2> QED
    BY <2>2, <2>3 DEF JournalInv
<1>2. JournalInv => JournalInArrivalOrder
  BY DEF JournalInv
<1> QED
  BY <1>1, <1>2, QueueInvariant, NextKeepsJournalInv, PTL DEF Spec
-----------------------------------------------------------------------------
(* The scheduler, which asks the gateway for the status of its queue, for  *)
(* every interval and every number of calls and crashes.                   *)
RunType == [at : {"none", "queue", "turn"}, job : Jobs \cup {"none"},
            forced : {"yes", "no"}, heartbeat : {"yes", "no"}, copy : JobState]

Bounded(state) == \A j \in Jobs : state[j].age <= Interval[j]

(* A heartbeat is not begun on a copy that says the daily update runs, so  *)
(* that what it writes back never says so either.                          *)
RunRight(x) ==
  /\ x \in RunType /\ Bounded(x.copy)
  /\ x.at = "none" <=> x.job = "none"
  /\ x.job = "heartbeat" => x.copy["daily_update"].status # "running"

SchedulerInv ==
  /\ file \in JobState /\ Bounded(file)
  /\ whole \in {"yes", "no"} /\ cut \in {"yes", "no"}
  /\ run \in [Runs -> RunType] /\ \A r \in Runs : RunRight(run[r])
  /\ RunningIsRun
-----------------------------------------------------------------------------
LEMMA RestingRight ==
  /\ NeverRun \in JobState /\ Bounded(NeverRun)
  /\ RunRight(Resting) /\ Resting.job = "none" /\ Resting.at = "none"
  /\ NeverRun["daily_update"].status = "idle"
<1>1. \A j \in Jobs : Interval[j] \in Nat
  BY SchedulerAssumption DEF Interval, Jobs
<1>2. NeverRun \in JobState /\ Bounded(NeverRun)
  BY <1>1 DEF NeverRun, JobState, Bounded
<1> QED
  BY <1>2 DEF Resting, RunRight, RunType, NeverRun, Jobs

(* One run changes and the file with it.  The file says that the daily     *)
(* update runs only if this run does, or if it said so before.             *)
LEMMA OneRun ==
  ASSUME SchedulerInv, NEW r \in Runs, NEW x, RunRight(x),
         run' = [run EXCEPT ![r] = x],
         file' \in JobState, Bounded(file'),
         whole' \in {"yes", "no"}, cut' \in {"yes", "no"},
         \/ file'["daily_update"].status # "running"
         \/ x.job = "daily_update"
         \/ file' = file /\ run[r].job # "daily_update" /\ cut' = cut
  PROVE  SchedulerInv'
<1>1. run' \in [Runs -> RunType]
  BY DEF SchedulerInv, RunRight
<1>2. \A q \in Runs : run'[q] = IF q = r THEN x ELSE run[q]
  BY DEF SchedulerInv
<1>3. \A q \in Runs : RunRight(run'[q])
  BY <1>2 DEF SchedulerInv
<1>4. RunningIsRun'
  BY <1>2 DEF SchedulerInv, RunningIsRun
<1>5. Bounded(file)' /\ \A q \in Runs : RunRight(run[q])'
  BY <1>3 DEF Bounded, RunRight, Interval
<1> QED
  BY <1>1, <1>4, <1>5 DEF SchedulerInv

LEMMA JobKeeps ==
  ASSUME SchedulerInv, NEW r \in Runs, NEW base \in RunType, Bounded(base.copy),
         NEW j \in Jobs, Job(r, base, j),
         j = "heartbeat" => base.copy["daily_update"].status # "running",
         UNCHANGED whole
  PROVE  SchedulerInv'
<1> DEFINE copy == [base.copy EXCEPT ![j].status = "running"]
<1> DEFINE x == [base EXCEPT !.at = "queue", !.job = j, !.copy = copy]
<1>1. base.copy \in JobState
  BY DEF RunType
<1>2. /\ copy \in JobState
      /\ \A k \in Jobs : copy[k].age = base.copy[k].age
      /\ j = "heartbeat" => copy["daily_update"].status # "running"
  BY <1>1 DEF JobState, Jobs
<1>3. Bounded(copy)
  BY <1>2 DEF Bounded
<1> HIDE DEF copy
<1>4. x \in RunType /\ x.at = "queue" /\ x.job = j /\ x.copy = copy
  BY <1>2 DEF RunType
<1>5. RunRight(x)
  BY <1>2, <1>3, <1>4 DEF RunRight, Jobs
<1>6. /\ run' = [run EXCEPT ![r] = x] /\ file' = copy
      /\ cut' \in {"yes", "no"}
  BY DEF Job, copy, SchedulerInv
<1>7. j = "daily_update" \/ copy["daily_update"].status # "running"
  BY <1>2 DEF Jobs
<1> HIDE DEF x
<1> QED
  BY <1>2, <1>3, <1>4, <1>5, <1>6, <1>7, OneRun DEF SchedulerInv

(* A run that has done with the daily update and does not say it runs, or  *)
(* that has begun without it.                                              *)
LEMMA HeartbeatKeeps ==
  ASSUME SchedulerInv, NEW r \in Runs, NEW base \in RunType, Bounded(base.copy),
         Heartbeat(r, base), UNCHANGED whole,
         \/ base.copy["daily_update"].status # "running"
         \/ base.copy = file /\ run[r].job # "daily_update"
  PROVE  SchedulerInv'
<1>1. CASE base.copy["daily_update"].status # "running" /\ base.heartbeat = "yes"
  BY <1>1, JobKeeps DEF Heartbeat, Jobs
<1>2. CASE ~(base.copy["daily_update"].status # "running" /\ base.heartbeat = "yes")
  <2>1. file' = base.copy /\ cut' = cut /\ run' = [run EXCEPT ![r] = Resting]
    BY <1>2 DEF Heartbeat, Rest
  <2> QED
    BY <2>1, OneRun, RestingRight DEF SchedulerInv, RunType
<1> QED
  BY <1>1, <1>2

LEMMA BeginKeeps ==
  ASSUME SchedulerInv, NEW r \in Runs, NEW forced \in {"yes", "no"},
         Begin(r, forced)
  PROVE  SchedulerInv'
<1> DEFINE hb == YesIf(forced = "yes" \/ Due(file, "heartbeat"))
<1> DEFINE base == [Resting EXCEPT !.copy = file, !.forced = forced,
                                   !.heartbeat = hb]
<1>1. hb \in {"yes", "no"}
  BY DEF YesIf
<1> HIDE DEF hb
<1>2. base \in RunType /\ base.copy = file
  BY <1>1 DEF Resting, RunType, SchedulerInv
<1>3. run[r].job # "daily_update" /\ UNCHANGED whole
  BY DEF Begin, SchedulerInv, RunRight
<1>4. Job(r, base, "daily_update") \/ Heartbeat(r, base)
  BY DEF Begin, hb
<1> HIDE DEF base
<1>5. CASE Job(r, base, "daily_update")
  BY <1>2, <1>3, <1>5, JobKeeps DEF SchedulerInv, Jobs
<1>6. CASE Heartbeat(r, base)
  BY <1>2, <1>3, <1>6, HeartbeatKeeps DEF SchedulerInv
<1> QED
  BY <1>4, <1>5, <1>6

LEMMA EndsKeeps ==
  ASSUME SchedulerInv, NEW r \in Runs, NEW status \in {"idle", "error"},
         NEW age \in Nat, run[r].job # "none" => age <= Interval[run[r].job],
         run[r].at # "none", Ends(r, status, age), UNCHANGED whole
  PROVE  SchedulerInv'
<1> DEFINE job == run[r].job
<1> DEFINE base == [run[r] EXCEPT !.copy[job] = [status |-> status, age |-> age]]
<1>1. RunRight(run[r]) /\ run[r] \in RunType /\ job \in Jobs
  BY DEF SchedulerInv, RunRight, RunType
<1> DEFINE copy == [run[r].copy EXCEPT ![job] = [status |-> status, age |-> age]]
<1>2. /\ copy \in JobState /\ copy["daily_update"].status # "running"
      /\ Bounded(copy)
  BY <1>1 DEF RunRight, RunType, JobState, Jobs, Bounded
<1>3. base = [run[r] EXCEPT !.copy = copy]
  BY <1>1 DEF RunType
<1> HIDE DEF copy
<1>4. base \in RunType /\ base.copy = copy
  BY <1>1, <1>2, <1>3 DEF RunType
<1>5. \/ Heartbeat(r, base)
      \/ Rest(r) /\ file' = base.copy /\ UNCHANGED cut
  BY DEF Ends
<1> HIDE DEF base, job
<1>6. CASE Heartbeat(r, base)
  BY <1>2, <1>4, <1>6, HeartbeatKeeps
<1>7. CASE Rest(r) /\ file' = base.copy /\ UNCHANGED cut
  BY <1>2, <1>4, <1>7, OneRun, RestingRight DEF Rest, SchedulerInv
<1> QED
  BY <1>5, <1>6, <1>7

LEMMA FailsKeeps ==
  ASSUME SchedulerInv, NEW r \in Runs, Fails(r) PROVE SchedulerInv'
<1> DEFINE job == run[r].job
<1> DEFINE copy == [run[r].copy EXCEPT ![job].status = "error"]
<1>1. RunRight(run[r]) /\ run[r].copy \in JobState /\ job \in Jobs
  BY DEF SchedulerInv, RunRight, RunType, Fails
<1>2. /\ copy \in JobState /\ copy["daily_update"].status # "running"
      /\ Bounded(copy)
  BY <1>1 DEF RunRight, JobState, Jobs, Bounded
<1>3. /\ file' = copy /\ UNCHANGED <<whole, cut>>
      /\ run' = [run EXCEPT ![r] = Resting]
  BY DEF Fails, Rest
<1> HIDE DEF copy
<1> QED
  BY <1>2, <1>3, OneRun, RestingRight DEF SchedulerInv

LEMMA OlderRight ==
  ASSUME NEW state \in JobState, Bounded(state)
  PROVE  /\ Older(state) \in JobState /\ Bounded(Older(state))
         /\ \A j \in Jobs : Older(state)[j].status = state[j].status
<1>1. \A j \in Jobs : Interval[j] \in Nat
  BY SchedulerAssumption DEF Interval, Jobs
<1> QED
  BY <1>1 DEF Older, JobState, Bounded

LEMMA TickKeeps ==
  ASSUME SchedulerInv, Tick PROVE SchedulerInv'
<1>1. file' \in JobState /\ Bounded(file')
      /\ file'["daily_update"].status = file["daily_update"].status
  BY OlderRight DEF Tick, SchedulerInv, Jobs
<1>2. ASSUME NEW r \in Runs
      PROVE  RunRight(run'[r]) /\ run'[r].job = run[r].job
  <2>1. RunRight(run[r]) /\ run[r] \in RunType
    BY DEF SchedulerInv, RunRight
  <2>2. CASE run[r].at = "none"
    BY <2>1, <2>2 DEF Tick
  <2>3. CASE run[r].at # "none"
    <3> DEFINE c == Older(run[r].copy)
    <3>1. c \in JobState /\ Bounded(c)
          /\ c["daily_update"].status = run[r].copy["daily_update"].status
      BY <2>1, OlderRight DEF RunRight, RunType, Jobs
    <3>2. run'[r] = [run[r] EXCEPT !.copy = c]
      BY <2>3 DEF Tick
    <3> HIDE DEF c
    <3> QED
      BY <2>1, <3>1, <3>2 DEF RunRight, RunType
  <2> QED
    BY <2>2, <2>3
<1>3. run' \in [Runs -> RunType]
  BY <1>2 DEF Tick, RunRight
<1>4. RunningIsRun'
  BY <1>1, <1>2 DEF Tick, SchedulerInv, RunningIsRun
<1>5. Bounded(file)' /\ \A r \in Runs : RunRight(run[r])'
  BY <1>1, <1>2 DEF Bounded, RunRight, Interval
<1> QED
  BY <1>1, <1>3, <1>4, <1>5 DEF Tick, SchedulerInv

LEMMA SchedulerInvKept ==
  ASSUME SchedulerInv, [SchedulerNext]_schedulerVars PROVE SchedulerInv'
<1>1. CASE UNCHANGED schedulerVars
  BY <1>1 DEF schedulerVars, SchedulerInv, Bounded, RunRight, RunningIsRun
<1>2. CASE Poll
  BY <1>2, BeginKeeps DEF Poll, Runs
<1>3. ASSUME NEW forced \in {"yes", "no"}, Call(forced) PROVE SchedulerInv'
  BY <1>3, BeginKeeps DEF Call, Runs
<1>4. ASSUME NEW r \in Runs, GatewayFree(r) PROVE SchedulerInv'
  <2> DEFINE x == [run[r] EXCEPT !.at = "turn"]
  <2>1. RunRight(run[r]) /\ run[r] \in RunType
    BY DEF SchedulerInv, RunRight
  <2>2. RunRight(x) /\ x.job = run[r].job
    BY <1>4, <2>1 DEF GatewayFree, RunRight, RunType
  <2>3. run' = [run EXCEPT ![r] = x] /\ UNCHANGED <<file, whole, cut>>
    BY <1>4 DEF GatewayFree, SchedulerInv
  <2> HIDE DEF x
  <2> QED
    BY <2>2, <2>3, OneRun DEF SchedulerInv
<1>5. ASSUME NEW r \in Runs, GatewayBusy(r) PROVE SchedulerInv'
  <2>1. RunRight(run[r])
    BY DEF SchedulerInv
  <2>2. run[r].job # "none" => Age(r) \in Nat /\ Age(r) <= Interval[run[r].job]
    BY <2>1 DEF RunRight, RunType, Bounded, Age, JobState
  <2>3. run[r].job # "none"
    BY <1>5, <2>1 DEF GatewayBusy, RunRight
  <2> QED
    BY <1>5, <2>2, <2>3, EndsKeeps DEF GatewayBusy
<1>6. ASSUME NEW r \in Runs, Ran(r) \/ RefusedIsRan(r) PROVE SchedulerInv'
  <2>1. run[r].job # "none" => 0 <= Interval[run[r].job]
    BY SchedulerAssumption DEF SchedulerInv, RunRight, RunType, Interval, Jobs
  <2> QED
    BY <1>6, <2>1, EndsKeeps DEF Ran, RefusedIsRan
<1>7. ASSUME NEW r \in Runs, Fails(r) PROVE SchedulerInv'
  BY <1>7, FailsKeeps
<1>8. CASE Crash
  <2>1. run' = [r \in Runs |-> Resting] /\ file' = file
        /\ whole' \in {"yes", "no"} /\ cut' \in {"yes", "no"}
    BY <1>8 DEF Crash, SchedulerInv
  <2>2. RunningIsRun'
    BY <1>8, <2>1 DEF Crash, SchedulerInv, RunningIsRun
  <2>3. run' \in [Runs -> RunType] /\ \A r \in Runs : RunRight(run'[r])
    BY <2>1, RestingRight DEF RunRight
  <2>4. Bounded(file)' /\ \A r \in Runs : RunRight(run[r])'
    BY <2>1, <2>3 DEF Bounded, RunRight, SchedulerInv
  <2> QED
    BY <2>1, <2>2, <2>3, <2>4 DEF SchedulerInv
<1>9. CASE Tick
  BY <1>9, TickKeeps
<1> QED
  BY <1>1, <1>2, <1>3, <1>4, <1>5, <1>6, <1>7, <1>8, <1>9 DEF SchedulerNext

DoneType == done \in [Jobs -> {"yes", "no"}]

(* What is remembered of the jobs decides nothing and keeps its type. *)
LEMMA DoneTyped ==
  ASSUME DoneType, [SchedulerNext]_schedulerVars
  PROVE  DoneType'
<1>1. ASSUME NEW worked, Remember(worked) PROVE DoneType'
  BY <1>1 DEF Remember, DoneType
<1>2. ASSUME NEW r \in Runs, NEW forced, Begin(r, forced)
      PROVE  DoneType'
  BY <1>1, <1>2 DEF Begin
<1>3. CASE Poll \/ (\E forced \in {"yes", "no"} : Call(forced))
  BY <1>2, <1>3 DEF Poll, Call, Runs
<1>4. ASSUME NEW r \in Runs, Ran(r) PROVE DoneType'
  BY <1>1, <1>4 DEF Ran
<1>5. ASSUME NEW r \in Runs, GatewayBusy(r) \/ RefusedIsRan(r) \/ Fails(r)
      PROVE  DoneType'
  BY <1>1, <1>5 DEF GatewayBusy, RefusedIsRan, Fails
<1>6. CASE Tick
  BY <1>1, <1>6 DEF Tick
<1>7. CASE Crash \/ (\E r \in Runs : GatewayFree(r)) \/ UNCHANGED schedulerVars
  BY <1>7 DEF Crash, GatewayFree, schedulerVars, DoneType
<1> QED
  BY <1>3, <1>4, <1>5, <1>6, <1>7, Zenon DEF SchedulerNext

LEMMA SchedulerInvHolds ==
  SchedulerSpec => [](SchedulerInv /\ DoneType)
<1>1. SchedulerInit => SchedulerInv /\ DoneType
  BY RestingRight DEF SchedulerInit, SchedulerInv, RunRight, RunningIsRun, Jobs,
     DoneType
<1>2. SchedulerInv /\ [SchedulerNext]_schedulerVars => SchedulerInv'
  BY SchedulerInvKept
<1>3. DoneType /\ [SchedulerNext]_schedulerVars
        => DoneType'
  BY DoneTyped
<1> QED
  BY <1>1, <1>2, <1>3, PTL DEF SchedulerSpec

(* The state file and the copies of the two runs keep their shape, for     *)
(* every interval and however often the process dies.                      *)
THEOREM SchedulerTypeCorrect == SchedulerSpec => []SchedulerTypeOK
<1>1. SchedulerInv /\ DoneType => SchedulerTypeOK
  BY DEF DoneType, SchedulerInv, SchedulerTypeOK, Bounded, RunType
<1> QED
  BY <1>1, SchedulerInvHolds, PTL

(* While the file says that the daily update runs, one does or a crash has *)
(* cut it short: the service's loop and a call from outside, each of which *)
(* writes back a copy of its own, never leave the word behind.             *)
THEOREM NoFalseRunning == SchedulerSpec => []RunningIsRun
<1>1. SchedulerInv => RunningIsRun
  BY DEF SchedulerInv
<1> QED
  BY <1>1, SchedulerInvHolds, PTL
=============================================================================
