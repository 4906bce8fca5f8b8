----------------------- MODULE ServiceLifecycleProofs ------------------------
(***************************************************************************)
(* Theorems about ServiceLifecycle for every number of services, pids,     *)
(* commands and faults.                                                    *)
(***************************************************************************)
EXTENDS ServiceLifecycle, SequenceTheorems, FiniteSetTheorems, TLAPS

JobType == [op : {"stop", "start", "health"}, of : Services]

ProcType ==
  [of : Services \cup {"nobody", "stranger"},
   state : {"free", "booting", "serving", "dying"}, age : {"old", "new"}]

CommandType ==
  [kind : {"none", "start", "stop", "onboard", "update", "remote"},
   step : Step, pid : Pids \cup {NoPid}, todo : Seq(JobType)]

ProcTypes ==
  /\ proc \in [Pids -> ProcType]
  /\ \A p \in Pids : proc[p].state = "free" <=> proc[p] = Free

Types ==
  /\ ProcTypes
  /\ pidfile \in [Services -> Pids \cup {NoPid}]
  /\ cmd \in [Ctls -> CommandType]
  /\ remote \in Ctls \cup {NoPid} /\ updatePid \in Ctls \cup {NoPid}

(* What is still to be done: the services that op has to be called for. *)
Of(todo, op) == {todo[i].of : i \in {j \in 1..Len(todo) : todo[j].op = op}}

(* Stops come before anything else, and a service is started once. *)
Planned(todo) ==
  \A i, j \in 1..Len(todo) : i < j =>
    /\ todo[j].op = "stop" => todo[i].op = "stop"
    /\ todo[i].op = "start" /\ todo[j].op = "start" => todo[i].of # todo[j].of

Restarts == {"start", "update", "remote"}

Active(c) == cmd[c].step # "idle"

(* A restart stops everything before it starts anything. *)
PlanRight(c) ==
  /\ Planned(cmd[c].todo)
  /\ cmd[c].step = "ended" => cmd[c].todo = <<>>
  /\ cmd[c].kind \in Restarts /\ Of(cmd[c].todo, "stop") # {} =>
       Of(cmd[c].todo, "start") = Services

AllNew(s) == \A p \in Live(s) : proc[p].age = "new"

OneActive == \A c, d \in Ctls : Active(c) /\ Active(d) => c = d

OneLives == \A s \in Services : \A p, q \in Live(s) : p = q

(* Between the checks of a command and its act nobody else starts the      *)
(* service: Popen comes after the sweep and the pid file after Popen.      *)
SpawnRight(c) ==
  /\ At(c, "start", "spawn") => Live(Job(c).of) = {}
  /\ At(c, "start", "record") =>
       \A p \in Live(Job(c).of) : p = cmd[c].pid /\ proc[p].age = "new"
  /\ At(c, "stop", "wait") => cmd[c].pid \in Pids /\ cmd[c].pid = pidfile[Job(c).of]

(* A restart finds no pid file where it starts a service, and has replaced *)
(* the processes of those it does not start any more.                      *)
RestartRight(c) ==
  Active(c) /\ cmd[c].kind \in Restarts =>
    \A s \in Services :
      /\ s \in Of(cmd[c].todo, "start") =>
           s \in Of(cmd[c].todo, "stop") \/ pidfile[s] = NoPid
      /\ s \notin Of(cmd[c].todo, "start") => AllNew(s)

(* A process has its pid in the file, or is about to have it written. *)
FilesInv ==
  \A s \in Services : \A p \in Live(s) :
    \/ p = pidfile[s]
    \/ \E c \in Ctls : At(c, "start", "record") /\ Job(c).of = s /\ cmd[c].pid = p

StopRight(c) ==
  Active(c) /\ cmd[c].kind = "stop" =>
    \A s \in Services \ Of(cmd[c].todo, "stop") : AllNew(s)

(* Only the process a stop waits for is dying. *)
DyingInv ==
  \A p \in Pids : proc[p].state = "dying" /\ proc[p].of \in Services =>
    \E c \in Ctls : At(c, "stop", "wait") /\ cmd[c].pid = p

(* A restart has left running what it does not start any more. *)
UpRight(c) ==
  /\ At(c, "start", "record") => cmd[c].pid \in Live(Job(c).of)
  /\ Active(c) /\ cmd[c].kind \in Restarts =>
       \A s \in Services \ Of(cmd[c].todo, "start") : Live(s) # {}

(* A remote update at work is the one that is written down, or about to be.*)
UpdatesInv ==
  /\ \A c \in Ctls : cmd[c].kind = "remote" /\ Busy(c) => c \in {remote, updatePid}
  /\ remote # NoPid => updatePid = NoPid

PlansInv == \A c \in Ctls : PlanRight(c)

(* What holds as long as commands do not overlap, unless one was cut       *)
(* short, and unless anything but a reused pid or a dead gate went wrong   *)
AloneInv == OneActive /\ OneLives /\ \A c \in Ctls : SpawnRight(c) /\ RestartRight(c)
WholeInv == FilesInv /\ \A c \in Ctls : StopRight(c)
SoundInv == DyingInv /\ \A c \in Ctls : UpRight(c)

Alone == "overlap" \notin faults
Whole == Alone /\ "ctl" \notin faults
Sound == faults \subseteq {"reuse", "gate"}

LifeInv ==
  /\ Types /\ PlansInv
  /\ "gate" \notin faults => UpdatesInv
  /\ Alone => AloneInv
  /\ Whole => WholeInv
  /\ Sound => SoundInv

(* No service gets a process, and a process does not change its age. *)
Shrinks ==
  \A s \in Services : \A p \in Live(s)' : p \in Live(s) /\ proc'[p].age = proc[p].age

NoneDying == \A p \in Pids : proc[p].state = "dying" => proc[p].of \notin Services
-----------------------------------------------------------------------------
LEMMA TailOfPlan ==
  ASSUME NEW todo \in Seq(JobType), todo # <<>>
  PROVE  /\ Tail(todo) \in Seq(JobType) /\ Head(todo) = todo[1] /\ todo[1] \in JobType
         /\ Len(todo) = 1 <=> Tail(todo) = <<>>
         /\ \A op : Of(Tail(todo), op) \subseteq Of(todo, op)
         /\ \A op, s : s \in Of(todo, op) =>
              s \in Of(Tail(todo), op) \/ (op = todo[1].op /\ s = todo[1].of)
         /\ todo[1].of \in Of(todo, todo[1].op)
         /\ Planned(todo) =>
              /\ Planned(Tail(todo))
              /\ todo[1].op # "stop" => Of(todo, "stop") = {}
              /\ todo[1].op = "start" => todo[1].of \notin Of(Tail(todo), "start")
<1>1. /\ Tail(todo) \in Seq(JobType) /\ Head(todo) = todo[1] /\ todo[1] \in JobType
      /\ Len(todo) \in Nat \ {0} /\ Len(Tail(todo)) = Len(todo) - 1
      /\ \A i \in 1..Len(Tail(todo)) : Tail(todo)[i] = todo[i + 1]
  OBVIOUS
<1>2. Len(todo) = 1 <=> Tail(todo) = <<>>
  <2>1. Len(todo) = 1 <=> Len(Tail(todo)) = 0
    BY <1>1
  <2>2. Len(Tail(todo)) = 0 <=> Tail(todo) = <<>>
    BY <1>1, EmptySeq
  <2> QED
    BY <2>1, <2>2
<1> DEFINE t == Tail(todo)
<1>3. \A i \in 1..Len(t) : i + 1 \in 1..Len(todo) /\ t[i] = todo[i + 1]
  BY <1>1
<1>4. \A i \in 1..Len(todo) : i = 1 \/ (i - 1 \in 1..Len(t) /\ t[i - 1] = todo[i])
  <2>1. \A i \in 1..Len(todo) : i = 1 \/ (i - 1 \in 1..Len(t) /\ (i - 1) + 1 = i)
    BY <1>1
  <2> QED
    BY <2>1, <1>1
<1>5. 1 \in 1..Len(todo) /\ \A i \in 1..Len(t) : 1 < i + 1
  BY <1>1
<1> HIDE DEF t
<1>6. \A op : Of(t, op) \subseteq Of(todo, op)
  BY <1>3 DEF Of
<1>7. \A op, s : s \in Of(todo, op) =>
        s \in Of(t, op) \/ (op = todo[1].op /\ s = todo[1].of)
  <2> SUFFICES ASSUME NEW op, NEW i \in 1..Len(todo), todo[i].op = op
               PROVE  todo[i].of \in Of(t, op) \/ (op = todo[1].op /\ todo[i].of = todo[1].of)
    BY DEF Of
  <2>1. CASE i = 1
    BY <2>1
  <2>2. CASE i - 1 \in 1..Len(t) /\ t[i - 1] = todo[i]
    <3> DEFINE j == i - 1
    <3>1. j \in 1..Len(t) /\ t[j].op = op /\ t[j].of = todo[i].of
      BY <2>2
    <3> HIDE DEF j
    <3> QED
      BY <3>1 DEF Of
  <2> QED
    BY <2>1, <2>2, <1>4
<1>8. todo[1].of \in Of(todo, todo[1].op)
  BY <1>5 DEF Of
<1>9. ASSUME Planned(todo)
      PROVE  /\ Planned(t)
             /\ todo[1].op # "stop" => Of(todo, "stop") = {}
             /\ todo[1].op = "start" => todo[1].of \notin Of(t, "start")
  <2>1. Planned(t)
    <3>1. \A i, j \in 1..Len(t) : i < j => i + 1 < j + 1
      OBVIOUS
    <3> QED
      BY <1>3, <1>9, <3>1 DEF Planned
  <2>2. ASSUME todo[1].op # "stop", NEW i \in 1..Len(todo) PROVE todo[i].op # "stop"
    <3>1. i = 1 \/ 1 < i
      OBVIOUS
    <3> QED
      BY <2>2, <3>1, <1>5, <1>9 DEF Planned
  <2>3. ASSUME todo[1].op = "start", NEW i \in 1..Len(t), t[i].op = "start"
        PROVE  todo[1].of # t[i].of
    BY <2>3, <1>3, <1>5, <1>9 DEF Planned
  <2> QED
    BY <2>1, <2>2, <2>3 DEF Of
<1> QED
  BY <1>1, <1>2, <1>6, <1>7, <1>8, <1>9 DEF t

(* Every command has a plan that stops before it starts, and a restart     *)
(* does both for every service.                                            *)
LEMMA ProgramIsPlanned ==
  ASSUME NEW kind \in {"start", "stop", "onboard", "update", "remote"}
  PROVE  /\ Program(kind) \in Seq(JobType) /\ Planned(Program(kind))
         /\ kind \in Restarts => Of(Program(kind), "start") = Services
         /\ kind \in Restarts \cup {"stop"} => Of(Program(kind), "stop") = Services
<1> DEFINE n == Len(Order)
           R == Reverse(Order)
           S == Jobs("stop", R)
           T == StartsAndWaits
<1>1. /\ n \in Nat /\ \A i \in 1..n : Order[i] \in Services
      /\ \A i, j \in 1..n : i # j => Order[i] # Order[j]
      /\ \A s \in Services : \E i \in 1..n : s = Order[i]
  <2>1. n \in Nat /\ DOMAIN Order = 1..n
    BY LifecycleAssumption
  <2> QED
    BY <2>1, LifecycleAssumption DEF IsInjective, Services
<1>2. /\ S \in Seq(JobType) /\ Len(S) = n
      /\ \A i \in 1..n : S[i].op = "stop" /\ S[i].of = Order[(n - i) + 1]
  <2>1. Len(R) = n /\ \A i \in 1..n : R[i] = Order[(n - i) + 1] /\ (n - i) + 1 \in 1..n
    BY <1>1 DEF Reverse
  <2>2. S = [i \in 1..n |-> [op |-> "stop", of |-> R[i]]]
    BY <2>1 DEF Jobs
  <2>3. \A i \in 1..n : [op |-> "stop", of |-> R[i]] \in JobType
    BY <1>1, <2>1 DEF JobType
  <2> HIDE DEF S, R, n
  <2> QED
    BY <1>1, <2>1, <2>2, <2>3
<1>3. /\ T \in Seq(JobType) /\ Len(T) = 2 * n
      /\ \A i \in 1..(2 * n) : /\ T[i].op = IF i % 2 = 1 THEN "start" ELSE "health"
                               /\ T[i].of = Order[(i + 1) \div 2]
  <2>1. \A i \in 1..(2 * n) : (i + 1) \div 2 \in 1..n
    BY <1>1
  <2>2. T = [i \in 1..(2 * n) |->
               [op |-> IF i % 2 = 1 THEN "start" ELSE "health",
                of |-> Order[(i + 1) \div 2]]]
    BY DEF StartsAndWaits
  <2>3. \A i \in 1..(2 * n) : [op |-> IF i % 2 = 1 THEN "start" ELSE "health",
                               of |-> Order[(i + 1) \div 2]] \in JobType
    BY <1>1, <2>1 DEF JobType
  <2>4. 2 * n \in Nat
    BY <1>1
  <2> HIDE DEF T, n
  <2> QED
    BY <2>2, <2>3, <2>4
<1>4. Starts \in Seq(JobType) /\ Len(Starts) = n
      /\ \A i \in 1..n : Starts[i].op = "start" /\ Starts[i].of = Order[i]
  <2>1. Starts = [i \in 1..n |-> [op |-> "start", of |-> Order[i]]]
    BY DEF Starts, Jobs
  <2>2. \A i \in 1..n : [op |-> "start", of |-> Order[i]] \in JobType
    BY <1>1 DEF JobType
  <2> HIDE DEF n
  <2> QED
    BY <1>1, <2>1, <2>2
<1>5. Stops = S
  BY DEF Stops
<1> HIDE DEF n, R, S, T
<1>6. Planned(S) /\ Of(S, "stop") = Services
  <2>1. Planned(S)
    BY <1>2 DEF Planned
  <2>2. \A i \in 1..n : (n - i) + 1 \in 1..n /\ (n - ((n - i) + 1)) + 1 = i
    BY <1>1
  <2>3. \A i \in 1..n : S[(n - i) + 1].of = Order[i] /\ S[(n - i) + 1].op = "stop"
    BY <1>2, <2>2
  <2>4. \A s \in Services : \E j \in 1..n : S[j].of = s /\ S[j].op = "stop"
    BY <1>1, <2>2, <2>3
  <2>5. \A j \in 1..n : S[j].of \in Services
    BY <1>1, <1>2, <2>2
  <2> QED
    BY <2>1, <2>4, <2>5, <1>2 DEF Of
<1>7. Planned(Starts)
  <2>1. \A i, j \in 1..n : i < j => i # j
    BY <1>1
  <2> QED
    BY <2>1, <1>1, <1>4 DEF Planned
<1>8. /\ Stops \o T \in Seq(JobType) /\ Planned(Stops \o T)
      /\ Of(Stops \o T, "start") = Services /\ Of(Stops \o T, "stop") = Services
  <2> DEFINE P == S \o T
  <2>1. /\ P \in Seq(JobType) /\ Len(P) = 3 * n
        /\ \A i \in 1..(3 * n) : P[i] = IF i <= n THEN S[i] ELSE T[i - n]
    <3>1. /\ P \in Seq(JobType) /\ Len(P) = Len(S) + Len(T)
          /\ \A i \in 1..(Len(S) + Len(T)) :
               P[i] = IF i <= Len(S) THEN S[i] ELSE T[i - Len(S)]
      <4>1. S \in Seq(JobType) /\ T \in Seq(JobType)
        BY <1>2, <1>3
      <4> QED
        BY <4>1, ConcatProperties, Zenon
    <3>2. Len(S) = n /\ n + 2 * n = 3 * n /\ Len(T) = 2 * n
      BY <1>1, <1>2, <1>3
    <3> HIDE DEF P
    <3> QED
      BY <3>1, <3>2
  <2>2. \A i \in 1..(3 * n) : \/ i \in 1..n
                              \/ i > n /\ i - n \in 1..(2 * n)
    BY <1>1
  <2> HIDE DEF P
  <2>3. /\ \A i \in 1..n : P[i].op = "stop" /\ P[i].of \in Services
        /\ \A i \in 1..(3 * n) : i > n => /\ P[i].op = (IF (i - n) % 2 = 1 THEN "start" ELSE "health")
                                          /\ P[i].of = Order[((i - n) + 1) \div 2]
    <3>1. ASSUME NEW i \in 1..n PROVE P[i].op = "stop" /\ P[i].of \in Services
      <4>1. i \in 1..(3 * n) /\ i <= n /\ (n - i) + 1 \in 1..n
        BY <1>1
      <4>2. P[i] = S[i]
        BY <4>1, <2>1
      <4> QED
        BY <4>1, <4>2, <1>1, <1>2
    <3>2. ASSUME NEW i \in 1..(3 * n), i > n
          PROVE  /\ P[i].op = (IF (i - n) % 2 = 1 THEN "start" ELSE "health")
                 /\ P[i].of = Order[((i - n) + 1) \div 2]
      <4>1. i - n \in 1..(2 * n) /\ ~(i <= n)
        BY <3>2, <2>2, <1>1
      <4>2. P[i] = T[i - n]
        BY <4>1, <2>1
      <4> QED
        BY <4>1, <4>2, <1>3
    <3> QED
      BY <3>1, <3>2
  <2>4. Planned(P)
    <3> SUFFICES ASSUME NEW i \in 1..(3 * n), NEW j \in 1..(3 * n), i < j
                 PROVE  /\ P[j].op = "stop" => P[i].op = "stop"
                        /\ P[i].op = "start" /\ P[j].op = "start" => P[i].of # P[j].of
      BY <2>1 DEF Planned
    <3>1. P[j].op = "stop" => j \in 1..n /\ i \in 1..n
      BY <2>2, <2>3, <1>1
    <3>2. ASSUME P[i].op = "start", P[j].op = "start" PROVE P[i].of # P[j].of
      <4>1. i > n /\ j > n /\ (i - n) % 2 = 1 /\ (j - n) % 2 = 1
        BY <3>2, <2>2, <2>3
      <4>2. /\ ((i - n) + 1) \div 2 \in 1..n /\ ((j - n) + 1) \div 2 \in 1..n
            /\ ((i - n) + 1) \div 2 # ((j - n) + 1) \div 2
        BY <4>1, <1>1
      <4> QED
        BY <4>1, <4>2, <2>3, <1>1
    <3> QED
      BY <3>1, <3>2, <2>3
  <2>5. Of(P, "stop") = Services
    <3>1. \A s \in Services : \E j \in 1..n : S[j].of = s /\ S[j].op = "stop"
      BY <1>2, <1>6 DEF Of
    <3>2. \A j \in 1..n : j \in 1..(3 * n) /\ P[j] = S[j]
      BY <1>1, <2>1
    <3>3. \A j \in 1..(3 * n) : P[j].op = "stop" => P[j].of \in Services
      BY <2>2, <2>3
    <3> QED
      BY <3>1, <3>2, <3>3, <2>1 DEF Of
  <2>6. Of(P, "start") = Services
    <3>1. ASSUME NEW s \in Services
          PROVE  \E j \in 1..(3 * n) : P[j].of = s /\ P[j].op = "start"
      <4>1. PICK k \in 1..n : s = Order[k]
        BY <1>1
      <4> DEFINE j == n + (2 * k - 1)
      <4>2. j \in 1..(3 * n) /\ j > n /\ (j - n) % 2 = 1 /\ ((j - n) + 1) \div 2 = k
        BY <1>1
      <4> HIDE DEF j
      <4> QED
        BY <4>1, <4>2, <2>3
    <3>2. \A j \in 1..(3 * n) : P[j].op = "start" => P[j].of \in Services
      BY <2>1, <2>2, <2>3, <1>1
    <3> QED
      BY <3>1, <3>2, <2>1 DEF Of
  <2> QED
    BY <2>1, <2>4, <2>5, <2>6, <1>5 DEF P
<1> QED
  BY <1>2, <1>4, <1>5, <1>6, <1>7, <1>8 DEF Program, Restarts, T
-----------------------------------------------------------------------------
(* What holds of the command at work, as nobody else is *)
LEMMA AtWork ==
  ASSUME LifeInv, NEW c \in Ctls, Busy(c)
  PROVE  /\ cmd[c] \in CommandType /\ PlanRight(c)
         /\ cmd[c].todo # <<>> => Job(c) \in JobType
         /\ Alone => \A d \in Ctls : Active(d) => d = c
         /\ Alone => OneLives /\ SpawnRight(c) /\ RestartRight(c)
         /\ Whole => Alone /\ StopRight(c)
         /\ Sound => Whole /\ UpRight(c)
         /\ Whole /\ ~At(c, "start", "record") =>
              \A s \in Services : \A p \in Live(s) : p = pidfile[s]
         /\ Sound /\ ~At(c, "stop", "wait") => NoneDying
<1>1. Active(c)
  BY DEF Busy, Active
<1>2. cmd[c] \in CommandType /\ PlanRight(c)
  BY DEF LifeInv, Types, PlansInv
<1>3. ASSUME cmd[c].todo # <<>> PROVE Job(c) \in JobType
  BY <1>2, <1>3, TailOfPlan DEF CommandType, Job
<1>4. Sound => Whole
  BY DEF Sound, Whole, Alone
<1>5. Whole => Alone
  BY DEF Whole
<1>6. Alone => \A d \in Ctls : Active(d) => d = c
  BY <1>1 DEF LifeInv, AloneInv, OneActive
<1>7. \A d \in Ctls : At(d, "start", "record") \/ At(d, "stop", "wait") => Active(d)
  BY DEF At, Active
<1>8. ASSUME Whole, ~At(c, "start", "record"), NEW s \in Services, NEW p \in Live(s)
      PROVE  p = pidfile[s]
  BY <1>5, <1>6, <1>7, <1>8 DEF LifeInv, WholeInv, FilesInv
<1>9. ASSUME Sound, ~At(c, "stop", "wait") PROVE NoneDying
  BY <1>4, <1>5, <1>6, <1>7, <1>9 DEF LifeInv, SoundInv, DyingInv, NoneDying
<1> QED
  BY <1>2, <1>3, <1>4, <1>5, <1>6, <1>8, <1>9 DEF LifeInv, AloneInv, WholeInv, SoundInv

LEMMA SignalledEffect ==
  ASSUME ProcTypes, NEW ps \in SUBSET Pids, \A p \in ps : proc[p] # Free,
         proc' = Signalled(ps)
  PROVE  /\ ProcTypes' /\ Shrinks
         /\ \A s \in Services : Live(s)' = Live(s) \ ps
         /\ \A p \in ps : proc'[p].state = "dying"
         /\ \A p \in Pids \ ps : proc'[p] = proc[p]
<1>1. \A p \in Pids : proc[p] \in ProcType
  BY DEF ProcTypes
<1>2. \A p \in Pids \ ps : proc'[p] = proc[p]
  BY DEF Signalled
<1>3. ASSUME NEW p \in ps
      PROVE  /\ proc'[p] \in ProcType /\ proc'[p].state = "dying"
             /\ proc'[p].of = proc[p].of /\ proc'[p].age = proc[p].age
  <2>1. proc'[p] = [proc[p] EXCEPT !.state = "dying"]
    BY DEF Signalled
  <2> QED
    BY <2>1, <1>1 DEF ProcType
<1>4. proc' \in [Pids -> ProcType]
  <2>1. proc' = [p \in Pids |-> proc'[p]]
    BY DEF Signalled
  <2>2. \A p \in Pids : proc'[p] \in ProcType
    BY <1>1, <1>2, <1>3
  <2> QED
    BY <2>1, <2>2
<1>5. \A p \in ps : proc'[p] # Free
  BY <1>3 DEF Free
<1>6. ProcTypes'
  BY <1>2, <1>3, <1>4, <1>5 DEF ProcTypes
<1>7. ASSUME NEW s \in Services PROVE Live(s)' = Live(s) \ ps
  BY <1>2, <1>3 DEF Live
<1>8. Shrinks
  BY <1>2, <1>3, <1>7 DEF Shrinks, Live
<1> QED
  BY <1>2, <1>3, <1>6, <1>7, <1>8

LEMMA SweptEffect ==
  ASSUME ProcTypes, NEW s \in Services, proc' = Swept(s)
  PROVE  /\ ProcTypes' /\ Shrinks /\ Live(s)' = {}
         /\ \A p \in Live(s) : proc'[p].state = "dying"
         /\ \A p \in Pids \ Live(s) : proc'[p] = proc[p]
<1>1. Live(s) \in SUBSET Pids /\ \A p \in Live(s) : proc[p] # Free
  BY DEF Live, Free
<1>2. proc' = Signalled(Live(s))
  BY DEF Swept
<1> QED
  BY <1>1, <1>2, SignalledEffect

(* The next job, if there is one *)
LEMMA DoneEffect ==
  ASSUME LifeInv, NEW c \in Ctls, Busy(c), cmd[c].todo # <<>>, Done(c)
  PROVE  /\ cmd' \in [Ctls -> CommandType]
         /\ \A d \in Ctls : d # c => cmd'[d] = cmd[d]
         /\ cmd'[c].kind = cmd[c].kind /\ cmd'[c].todo = Tail(cmd[c].todo)
         /\ cmd'[c].step \in {"next", "ended"}
         /\ PlanRight(c)'
<1> DEFINE todo == cmd[c].todo
           new == cmd'[c]
<1>1. cmd[c] \in CommandType /\ cmd \in [Ctls -> CommandType] /\ PlanRight(c)
      /\ todo \in Seq(JobType) /\ todo # <<>>
  BY AtWork DEF LifeInv, Types, CommandType
<1>2. /\ new = [cmd[c] EXCEPT !.todo = Tail(todo), !.pid = NoPid,
                  !.step = IF Len(todo) = 1 THEN "ended" ELSE "next"]
      /\ \A d \in Ctls : d # c => cmd'[d] = cmd[d]
  BY <1>1 DEF Done
<1>3. /\ Tail(todo) \in Seq(JobType) /\ Planned(Tail(todo))
      /\ Len(todo) = 1 <=> Tail(todo) = <<>>
      /\ \A op : Of(Tail(todo), op) \subseteq Of(todo, op)
      /\ \A op, s : s \in Of(todo, op) =>
           s \in Of(Tail(todo), op) \/ (op = todo[1].op /\ s = todo[1].of)
      /\ todo[1].op # "stop" => Of(todo, "stop") = {}
  BY <1>1, TailOfPlan DEF PlanRight
<1> HIDE DEF todo
<1>4. /\ new.kind = cmd[c].kind /\ new.todo = Tail(todo) /\ new.pid = NoPid
      /\ new.step = IF Len(todo) = 1 THEN "ended" ELSE "next"
  BY <1>1, <1>2 DEF CommandType
<1>5. new \in CommandType
  BY <1>1, <1>2, <1>3 DEF CommandType, Step
<1>6. cmd' \in [Ctls -> CommandType]
  <2>1. cmd' = [d \in Ctls |-> cmd'[d]]
    BY <1>1 DEF Done
  <2>2. \A d \in Ctls : cmd'[d] \in CommandType
    BY <1>1, <1>2, <1>5
  <2> QED
    BY <2>1, <2>2
<1>7. ASSUME new.kind \in Restarts, Of(Tail(todo), "stop") # {}
      PROVE  Of(Tail(todo), "start") = Services
  <2>1. Of(todo, "stop") # {} /\ todo[1].op = "stop"
    BY <1>3, <1>7
  <2>2. Of(todo, "start") = Services
    BY <1>1, <1>4, <1>7, <2>1 DEF PlanRight, todo
  <2>3. \A s : s \in Of(todo, "start") => s \in Of(Tail(todo), "start")
    BY <2>1, <1>3
  <2>4. Of(Tail(todo), "start") \subseteq Of(todo, "start")
    BY <1>3
  <2> QED
    BY <2>2, <2>3, <2>4
<1>8. PlanRight(c)'
  BY <1>3, <1>4, <1>7 DEF PlanRight
<1> QED
  BY <1>2, <1>4, <1>6, <1>8 DEF todo
-----------------------------------------------------------------------------
(* A step of one command: what is left to show is about that command and   *)
(* the processes.                                                          *)
LEMMA CommandKeeps ==
  ASSUME LifeInv, NEW c \in Ctls, Busy(c),
         \A d \in Ctls : d # c => cmd'[d] = cmd[d],
         ProcTypes', pidfile' \in [Services -> Pids \cup {NoPid}],
         cmd' \in [Ctls -> CommandType],
         UNCHANGED updateVars, faults \subseteq faults',
         PlanRight(c)', cmd'[c].kind = cmd[c].kind \/ ~Active(c)',
         Alone' => OneLives' /\ SpawnRight(c)' /\ RestartRight(c)',
         Whole' => FilesInv' /\ StopRight(c)',
         Sound' => DyingInv' /\ UpRight(c)'
  PROVE  LifeInv'
<1>1. Types'
  BY DEF LifeInv, Types, updateVars
<1>2. PlansInv'
  <2>1. ASSUME NEW d \in Ctls, d # c PROVE PlanRight(d)'
    BY <2>1 DEF LifeInv, PlansInv, PlanRight
  <2> QED
    BY <2>1 DEF PlansInv
<1>3. ASSUME "gate" \notin faults' PROVE UpdatesInv'
  <2>1. UpdatesInv
    BY <1>3 DEF LifeInv
  <2>2. \A d \in Ctls : (cmd[d].kind = "remote" /\ Busy(d))' =>
          cmd[d].kind = "remote" /\ Busy(d)
    BY DEF Busy, Active
  <2> QED
    BY <2>1, <2>2 DEF UpdatesInv, updateVars
<1>4. /\ Alone' => Alone
      /\ Whole' => Whole /\ Alone'
      /\ Sound' => Sound /\ Alone'
  BY DEF Alone, Whole, Sound
<1>5. ASSUME Alone', NEW d \in Ctls, d # c PROVE ~Active(d)'
  <2>1. ~Active(d)
    BY <1>4, <1>5, AtWork
  <2> QED
    BY <2>1, <1>5 DEF Active
<1>6. ASSUME Alone' PROVE AloneInv'
  <2>1. OneActive'
    BY <1>5, <1>6 DEF OneActive
  <2>2. ASSUME NEW d \in Ctls, d # c PROVE SpawnRight(d)' /\ RestartRight(d)'
    BY <1>5, <1>6, <2>2 DEF SpawnRight, RestartRight, At, Active
  <2> QED
    BY <1>6, <2>1, <2>2 DEF AloneInv
<1>7. ASSUME Whole' PROVE WholeInv'
  <2>1. ASSUME NEW d \in Ctls, d # c PROVE StopRight(d)'
    BY <1>4, <1>5, <1>7, <2>1 DEF StopRight
  <2> QED
    BY <1>7, <2>1 DEF WholeInv
<1>8. ASSUME Sound' PROVE SoundInv'
  <2>1. ASSUME NEW d \in Ctls, d # c PROVE UpRight(d)'
    BY <1>4, <1>5, <1>8, <2>1 DEF UpRight, At, Active
  <2> QED
    BY <1>8, <2>1 DEF SoundInv
<1> QED
  BY <1>1, <1>2, <1>3, <1>6, <1>7, <1>8 DEF LifeInv

(* What a step leaves as it was *)
LEMMA ShrinkingKeeps ==
  ASSUME Shrinks
  PROVE  /\ OneLives => OneLives'
         /\ \A s \in Services : AllNew(s) => AllNew(s)'
         /\ \A s \in Services : Live(s) = {} => Live(s)' = {}
<1>1. ASSUME NEW s \in Services, NEW p \in Live(s)'
      PROVE  p \in Live(s) /\ proc'[p].age = proc[p].age
  BY <1>1 DEF Shrinks
<1>2. OneLives => OneLives'
  BY <1>1 DEF OneLives
<1>3. ASSUME NEW s \in Services, AllNew(s) PROVE AllNew(s)'
  BY <1>1, <1>3 DEF AllNew
<1> QED
  BY <1>1, <1>2, <1>3

(* A command that fails, or is killed where it has no process to record *)
LEMMA FailingKeeps ==
  ASSUME LifeInv, NEW c \in Ctls, Busy(c), Fails(c),
         ProcTypes', Shrinks, UNCHANGED <<pidfile, updateVars>>, faults \subseteq faults',
         Whole' => ~At(c, "start", "record"), Sound' => NoneDying'
  PROVE  LifeInv'
<1>1. /\ cmd' = [cmd EXCEPT ![c] = NoCommand] /\ cmd \in [Ctls -> CommandType]
      /\ pidfile \in [Services -> Pids \cup {NoPid}]
  BY DEF Fails, LifeInv, Types
<1>2. NoCommand \in CommandType
  <2>1. <<>> \in Seq(JobType)
    OBVIOUS
  <2> QED
    BY <2>1 DEF NoCommand, CommandType, Step
<1>3. cmd'[c] = NoCommand /\ cmd' \in [Ctls -> CommandType]
      /\ \A d \in Ctls : d # c => cmd'[d] = cmd[d]
  BY <1>1, <1>2
<1>4. /\ cmd'[c].kind = "none" /\ cmd'[c].step = "idle" /\ cmd'[c].todo = <<>>
  BY <1>3 DEF NoCommand
<1>5. PlanRight(c)' /\ ~Active(c)'
  <2>1. Planned(<<>>)
    BY DEF Planned
  <2> QED
    BY <2>1, <1>4 DEF PlanRight, Active, Restarts
<1>6. SpawnRight(c)' /\ RestartRight(c)' /\ StopRight(c)' /\ UpRight(c)'
  BY <1>4, <1>5 DEF SpawnRight, RestartRight, StopRight, UpRight, At
<1>7. Alone' => Alone
  BY DEF Alone
<1>8. Alone' => OneLives'
  BY <1>7, AtWork, ShrinkingKeeps
<1>9. ASSUME Whole' PROVE FilesInv'
  <2>1. Whole
    BY <1>9 DEF Whole, Alone
  <2>2. \A s \in Services : \A p \in Live(s) : p = pidfile[s]
    BY <1>9, <2>1, AtWork
  <2>3. \A s \in Services : \A p \in Live(s)' : p = pidfile'[s]
    BY <2>2 DEF Shrinks
  <2> QED
    BY <2>3 DEF FilesInv
<1>10. Sound' => DyingInv'
  BY DEF NoneDying, DyingInv
<1> QED
  BY <1>1, <1>3, <1>5, <1>6, <1>8, <1>9, <1>10, CommandKeeps

(* A stop is done: the pid file is removed, with no process left behind. *)
LEMMA StoppingKeeps ==
  ASSUME LifeInv, NEW c \in Ctls, Busy(c), cmd[c].todo # <<>>, Done(c),
         NEW s \in Services, Job(c).op = "stop", Job(c).of = s,
         pidfile' = [pidfile EXCEPT ![s] = NoPid],
         ProcTypes', Shrinks, UNCHANGED <<updateVars, faults>>,
         Whole => Live(s)' = {}, Sound => NoneDying'
  PROVE  LifeInv'
<1> DEFINE todo == cmd[c].todo
<1>1. /\ cmd' \in [Ctls -> CommandType] /\ \A d \in Ctls : d # c => cmd'[d] = cmd[d]
      /\ cmd'[c].kind = cmd[c].kind /\ cmd'[c].todo = Tail(todo)
      /\ cmd'[c].step \in {"next", "ended"} /\ PlanRight(c)'
  BY DoneEffect
<1>2. /\ todo \in Seq(JobType) /\ Job(c) = todo[1] /\ PlanRight(c)
      /\ Active(c) /\ ~At(c, "start", "record")
  BY AtWork, TailOfPlan DEF CommandType, Job, JobType, Busy, Active, At
<1>3. pidfile' \in [Services -> Pids \cup {NoPid}] /\ pidfile'[s] = NoPid
      /\ \A t \in Services \ {s} : pidfile'[t] = pidfile[t]
  BY <1>2 DEF LifeInv, Types
<1>4. /\ \A t : t \in Of(todo, "stop") => t = s \/ t \in Of(Tail(todo), "stop")
      /\ \A t : t \in Of(todo, "start") => t \in Of(Tail(todo), "start")
      /\ s \in Of(todo, "stop")
  <2>1. \A op, t : t \in Of(todo, op) =>
              t \in Of(Tail(todo), op) \/ (op = todo[1].op /\ t = todo[1].of)
    BY <1>2, TailOfPlan
  <2>2. todo[1].of \in Of(todo, todo[1].op)
    BY <1>2, TailOfPlan
  <2> HIDE DEF todo
  <2> QED
    BY <2>1, <2>2, <1>2
<1>5. cmd[c].kind \in Restarts => /\ Of(todo, "start") = Services
                                  /\ Services \subseteq Of(Tail(todo), "start")
  <2>1. cmd[c].kind \in Restarts => Of(todo, "start") = Services
    BY <1>2, <1>4 DEF PlanRight
  <2> QED
    BY <2>1, <1>4
<1> HIDE DEF todo
<1>6. /\ Alone => OneLives /\ SpawnRight(c) /\ RestartRight(c)
      /\ Whole => Alone /\ StopRight(c)
      /\ Sound => Whole /\ UpRight(c)
      /\ Whole => \A t \in Services : \A p \in Live(t) : p = pidfile[t]
  BY <1>2, AtWork
<1>7. /\ OneLives => OneLives'
      /\ \A t \in Services : AllNew(t) => AllNew(t)'
  BY ShrinkingKeeps
<1>8. ~At(c, "start", "spawn")' /\ ~At(c, "start", "record")' /\ ~At(c, "stop", "wait")'
  BY <1>1 DEF At
<1>9. ASSUME Alone PROVE OneLives' /\ SpawnRight(c)' /\ RestartRight(c)'
  <2>1. SpawnRight(c)'
    BY <1>8 DEF SpawnRight
  <2>2. ASSUME cmd[c].kind \in Restarts, NEW t \in Services
        PROVE  /\ t \in Of(Tail(todo), "stop") \/ pidfile'[t] = NoPid
               /\ t \in Of(Tail(todo), "start")
    <3>1. t \in Of(Tail(todo), "start") /\ t \in Of(todo, "start")
      BY <2>2, <1>5
    <3>2. t \in Of(todo, "stop") \/ pidfile[t] = NoPid
      BY <3>1, <2>2, <1>2, <1>6, <1>9 DEF RestartRight, todo
    <3> QED
      BY <3>1, <3>2, <1>3, <1>4
  <2>3. RestartRight(c)'
    BY <2>2, <1>1 DEF RestartRight
  <2> QED
    BY <1>6, <1>7, <1>9, <2>1, <2>3
<1>10. ASSUME Whole PROVE FilesInv' /\ StopRight(c)'
  <2>1. ASSUME NEW t \in Services, NEW p \in Live(t)' PROVE p = pidfile'[t]
    <3>1. p \in Live(t) /\ t # s
      BY <2>1, <1>10 DEF Shrinks
    <3> QED
      BY <3>1, <1>3, <1>6, <1>10
  <2>2. ASSUME cmd[c].kind = "stop", NEW t \in Services, t \notin Of(Tail(todo), "stop")
        PROVE  AllNew(t)'
    <3>1. CASE t = s
      BY <3>1, <1>10 DEF AllNew
    <3>2. CASE t # s
      BY <3>2, <2>2, <1>2, <1>4, <1>6, <1>7, <1>10 DEF StopRight, todo
    <3> QED
      BY <3>1, <3>2
  <2>3. StopRight(c)'
    BY <2>2, <1>1 DEF StopRight
  <2> QED
    BY <2>1, <2>3 DEF FilesInv
<1>11. ASSUME Sound PROVE DyingInv' /\ UpRight(c)'
  <2>1. DyingInv'
    BY <1>11 DEF NoneDying, DyingInv
  <2>2. UpRight(c)'
    BY <1>1, <1>5, <1>8 DEF UpRight
  <2> QED
    BY <2>1, <2>2
<1>12. (Alone' <=> Alone) /\ (Whole' <=> Whole) /\ (Sound' <=> Sound)
  BY DEF Alone, Whole, Sound
<1> QED
  BY <1>1, <1>3, <1>9, <1>10, <1>11, <1>12, CommandKeeps
-----------------------------------------------------------------------------
LEMMA AtJob ==
  ASSUME LifeInv, NEW c \in Ctls, NEW op, NEW step \in {"next", "wait", "spawn", "record"},
         At(c, op, step)
  PROVE  /\ Busy(c) /\ Active(c) /\ cmd[c].todo # <<>> /\ Job(c).op = op
         /\ Job(c) = cmd[c].todo[1] /\ Job(c).of \in Services
         /\ cmd[c].todo \in Seq(JobType) /\ cmd[c].step = step
         /\ \A o, t : At(c, o, t) => o = op /\ t = step
<1>1. Busy(c) /\ Active(c) /\ cmd[c].todo # <<>> /\ Job(c).op = op /\ cmd[c].step = step
  BY DEF At, Busy, Active
<1>2. cmd[c] \in CommandType /\ Job(c) \in JobType
  BY <1>1, AtWork
<1>3. cmd[c].todo \in Seq(JobType) /\ Job(c) = cmd[c].todo[1]
  BY <1>1, <1>2, TailOfPlan DEF CommandType, Job
<1> QED
  BY <1>1, <1>2, <1>3 DEF At, JobType

(* A step within a job *)
LEMMA GotoEffect ==
  ASSUME LifeInv, NEW c \in Ctls, Busy(c), NEW pid \in Pids \cup {NoPid},
         NEW step \in {"next", "wait", "spawn", "record"},
         cmd' = [cmd EXCEPT ![c].pid = pid, ![c].step = step]
  PROVE  /\ cmd' \in [Ctls -> CommandType]
         /\ \A d \in Ctls : d # c => cmd'[d] = cmd[d]
         /\ cmd'[c].kind = cmd[c].kind /\ cmd'[c].todo = cmd[c].todo
         /\ cmd'[c].step = step /\ cmd'[c].pid = pid
         /\ PlanRight(c)' /\ Active(c) /\ Active(c)'
         /\ \A o, t : At(c, o, t)' <=> cmd[c].todo # <<>> /\ Job(c).op = o /\ step = t
         /\ Job(c)' = Job(c)
<1>1. cmd \in [Ctls -> CommandType] /\ cmd[c] \in CommandType /\ PlanRight(c)
  BY AtWork DEF LifeInv, Types
<1>2. /\ cmd'[c] = [cmd[c] EXCEPT !.pid = pid, !.step = step]
      /\ \A d \in Ctls : d # c => cmd'[d] = cmd[d]
  BY <1>1
<1>3. /\ cmd'[c].kind = cmd[c].kind /\ cmd'[c].todo = cmd[c].todo
      /\ cmd'[c].step = step /\ cmd'[c].pid = pid /\ cmd'[c] \in CommandType
  BY <1>1, <1>2 DEF CommandType, Step
<1>4. cmd' \in [Ctls -> CommandType]
  <2>1. cmd' = [d \in Ctls |-> cmd'[d]]
    BY <1>1
  <2>2. \A d \in Ctls : cmd'[d] \in CommandType
    BY <1>1, <1>2, <1>3
  <2> QED
    BY <2>1, <2>2
<1>5. PlanRight(c)' /\ Active(c) /\ Active(c)'
  BY <1>1, <1>3 DEF PlanRight, Active, Busy
<1>6. Job(c)' = Job(c)
  BY <1>3 DEF Job
<1>7. \A o, t : At(c, o, t)' <=> cmd[c].todo # <<>> /\ Job(c).op = o /\ step = t
  BY <1>3, <1>6 DEF At
<1> QED
  BY <1>2, <1>3, <1>4, <1>5, <1>6, <1>7

LEMMA StopSignalKeeps == ASSUME LifeInv, NEW c \in Ctls, StopSignal(c) PROVE LifeInv'
<1> DEFINE todo == cmd[c].todo
<1>1. At(c, "stop", "next") /\ UNCHANGED <<updateVars, faults>>
  BY DEF StopSignal
<1>2. /\ Busy(c) /\ Active(c) /\ todo # <<>> /\ Job(c).op = "stop"
      /\ Job(c) = todo[1] /\ Job(c).of \in Services /\ todo \in Seq(JobType)
      /\ ~At(c, "start", "record") /\ ~At(c, "stop", "wait")
  BY <1>1, AtJob
<1>3. PICK s \in Services : Job(c).of = s
  BY <1>2
<1>4. PICK p : p = pidfile[s]
  OBVIOUS
<1>5. /\ Alone => OneLives /\ SpawnRight(c) /\ RestartRight(c)
      /\ Whole => Alone /\ StopRight(c)
      /\ Sound => Whole /\ UpRight(c) /\ NoneDying
      /\ Whole => \A t \in Services : \A q \in Live(t) : q = pidfile[t]
  BY <1>2, AtWork
<1>6. /\ ProcTypes /\ pidfile \in [Services -> Pids \cup {NoPid}] /\ NoPid \notin Pids
  BY LifecycleAssumption DEF LifeInv, Types
<1>7. ASSUME p = NoPid, proc' = Swept(s), Done(c), UNCHANGED pidfile PROVE LifeInv'
  <2>1. ProcTypes' /\ Shrinks /\ Live(s)' = {} /\ \A q \in Pids \ Live(s) : proc'[q] = proc[q]
    BY <1>6, <1>7, SweptEffect
  <2>2. pidfile' = [pidfile EXCEPT ![s] = NoPid]
    BY <1>4, <1>6, <1>7
  <2>3. ASSUME Whole PROVE Live(s) = {}
    <3>1. \A q \in Live(s) : q \in Pids /\ q = NoPid
      BY <1>4, <1>5, <1>7, <2>3 DEF Live
    <3> QED
      BY <3>1, <1>6
  <2>4. Sound => NoneDying'
    BY <1>5, <2>1, <2>3 DEF NoneDying
  <2> QED
    BY <1>1, <1>2, <1>3, <1>7, <2>1, <2>2, <2>4, StoppingKeeps
<1>8. ASSUME ~Alive(p), pidfile' = [pidfile EXCEPT ![s] = NoPid], Done(c), UNCHANGED proc
      PROVE  LifeInv'
  <2>1. ProcTypes' /\ Shrinks /\ NoneDying' = NoneDying
    BY <1>6, <1>8 DEF ProcTypes, Shrinks, Live, NoneDying
  <2>2. \A q \in Live(s) : Alive(q)
    BY DEF Live, Alive, Free
  <2>3. Whole => Live(s)' = {}
    BY <1>4, <1>5, <1>8, <2>1, <2>2 DEF Shrinks
  <2> QED
    BY <1>1, <1>2, <1>3, <1>5, <1>8, <2>1, <2>3, StoppingKeeps
<1>9. ASSUME Alive(p), proc' = Signalled({p}), UNCHANGED pidfile,
             cmd' = [cmd EXCEPT ![c].pid = p, ![c].step = "wait"]
      PROVE  LifeInv'
  <2>1. p \in Pids /\ proc[p] # Free
    BY <1>9 DEF Alive
  <2>2. ProcTypes' /\ Shrinks /\ \A q \in Pids \ {p} : proc'[q] = proc[q]
    BY <1>6, <1>9, <2>1, SignalledEffect
  <2>3. /\ cmd' \in [Ctls -> CommandType] /\ \A d \in Ctls : d # c => cmd'[d] = cmd[d]
        /\ cmd'[c].kind = cmd[c].kind /\ cmd'[c].todo = todo
        /\ cmd'[c].pid = p /\ PlanRight(c)' /\ Active(c)' /\ Job(c)' = Job(c)
        /\ \A o, t : At(c, o, t)' <=> o = "stop" /\ t = "wait"
    <3>1. p \in Pids \cup {NoPid} /\ "wait" \in {"next", "wait", "spawn", "record"}
      BY <2>1
    <3>2. /\ cmd' \in [Ctls -> CommandType] /\ \A d \in Ctls : d # c => cmd'[d] = cmd[d]
          /\ cmd'[c].kind = cmd[c].kind /\ cmd'[c].todo = todo
          /\ cmd'[c].pid = p /\ PlanRight(c)' /\ Active(c)' /\ Job(c)' = Job(c)
          /\ \A o, t : At(c, o, t)' <=> cmd[c].todo # <<>> /\ Job(c).op = o /\ "wait" = t
      BY <1>2, <1>9, <3>1, GotoEffect
    <3> HIDE DEF todo
    <3> QED
      BY <3>2, <1>2 DEF todo
  <2>4. /\ OneLives => OneLives'
        /\ \A t \in Services : AllNew(t) => AllNew(t)'
    BY <2>2, ShrinkingKeeps
  <2>5. ASSUME Alone PROVE OneLives' /\ SpawnRight(c)' /\ RestartRight(c)'
    <3>1. SpawnRight(c)'
      BY <1>3, <1>4, <1>9, <2>1, <2>3 DEF SpawnRight
    <3>2. RestartRight(c)'
      BY <1>2, <1>5, <1>9, <2>3, <2>4, <2>5 DEF RestartRight
    <3> QED
      BY <1>5, <2>4, <2>5, <3>1, <3>2
  <2>6. ASSUME Whole PROVE FilesInv' /\ StopRight(c)'
    <3>1. \A t \in Services : \A q \in Live(t)' : q = pidfile'[t]
      BY <1>5, <1>9, <2>2, <2>6 DEF Shrinks
    <3>2. StopRight(c)'
      BY <1>2, <1>5, <2>3, <2>4, <2>6 DEF StopRight
    <3> QED
      BY <3>1, <3>2 DEF FilesInv
  <2>7. ASSUME Sound PROVE DyingInv' /\ UpRight(c)'
    <3>1. DyingInv'
      BY <1>5, <2>2, <2>3, <2>7 DEF NoneDying, DyingInv
    <3>2. Of(todo, "stop") # {}
      BY <1>2, TailOfPlan
    <3>3. UpRight(c)'
      BY <2>3, <3>2 DEF UpRight, PlanRight
    <3> QED
      BY <3>1, <3>3
  <2>8. (Alone' <=> Alone) /\ (Whole' <=> Whole) /\ (Sound' <=> Sound)
    BY <1>1 DEF Alone, Whole, Sound
  <2>9. pidfile' \in [Services -> Pids \cup {NoPid}]
    BY <1>6, <1>9
  <2> QED
    BY <1>1, <1>2, <2>2, <2>3, <2>5, <2>6, <2>7, <2>8, <2>9, CommandKeeps
<1> QED
  BY <1>3, <1>4, <1>7, <1>8, <1>9 DEF StopSignal

LEMMA StopFinishKeeps == ASSUME LifeInv, NEW c \in Ctls, StopFinish(c) PROVE LifeInv'
<1>1. At(c, "stop", "wait") /\ UNCHANGED <<updateVars, faults>>
  BY DEF StopFinish
<1>2. /\ Busy(c) /\ cmd[c].todo # <<>> /\ Job(c).op = "stop" /\ Job(c).of \in Services
      /\ ~At(c, "start", "record")
  BY <1>1, AtJob
<1>3. PICK s \in Services : Job(c).of = s
  BY <1>2
<1>4. PICK p : p = cmd[c].pid
  OBVIOUS
<1>5. /\ Whole => Alone
      /\ Sound => Whole
      /\ Whole => \A t \in Services : \A q \in Live(t) : q = pidfile[t]
      /\ Alone => p \in Pids /\ p = pidfile[s]
      /\ Sound => \A q \in Pids :
           proc[q].state = "dying" /\ proc[q].of \in Services => q = p
  <2>1. /\ Alone => SpawnRight(c)
        /\ Alone => \A d \in Ctls : Active(d) => d = c
        /\ Whole => Alone
        /\ Sound => Whole
        /\ Whole => \A t \in Services : \A q \in Live(t) : q = pidfile[t]
    BY <1>2, AtWork
  <2>2. ASSUME Sound, NEW q \in Pids, proc[q].state = "dying", proc[q].of \in Services
        PROVE  q = p
    <3>1. PICK d \in Ctls : At(d, "stop", "wait") /\ cmd[d].pid = q
      BY <2>2 DEF LifeInv, SoundInv, DyingInv
    <3>2. d = c
      BY <2>1, <2>2, <3>1 DEF At, Active
    <3> QED
      BY <1>4, <3>1, <3>2
  <2> QED
    BY <1>1, <1>3, <1>4, <2>1, <2>2 DEF SpawnRight
<1>6. /\ ProcTypes /\ p \in Pids \cup {NoPid} /\ cmd[c] \in CommandType
      /\ Free \in ProcType /\ Free.state = "free" /\ \A t \in Services : Free.of # t
  BY <1>2, <1>4, AtWork, LifecycleAssumption DEF LifeInv, Types, CommandType, ProcType, Free
<1>7. ASSUME proc' = [Swept(s) EXCEPT ![p] = Free], Done(c),
             pidfile' = [pidfile EXCEPT ![s] = NoPid]
      PROVE  LifeInv'
  <2>1. PICK swept : swept = Swept(s)
    OBVIOUS
  <2>2. /\ DOMAIN swept = Pids
        /\ \A q \in Live(s) : swept[q] = [proc[q] EXCEPT !.state = "dying"]
        /\ \A q \in Pids \ Live(s) : swept[q] = proc[q]
    BY <2>1 DEF Swept, Signalled, Live
  <2>3. /\ proc' = [q \in Pids |-> proc'[q]]
        /\ p \in Pids => proc'[p] = Free
        /\ \A q \in Pids : q # p => proc'[q] = swept[q]
    BY <1>7, <2>1, <2>2
  <2>4. ASSUME NEW q \in Pids
        PROVE  /\ proc'[q] \in ProcType /\ (proc'[q].state = "free" <=> proc'[q] = Free)
               /\ \A t \in Services :
                    proc'[q].of = t /\ proc'[q].state \in {"booting", "serving"} =>
                      q \in Live(t) \ Live(s) /\ proc'[q].age = proc[q].age
    <3>1. CASE q = p
      BY <1>6, <2>3, <3>1
    <3>2. CASE q # p /\ q \in Live(s)
      <4>1. proc'[q] = [proc[q] EXCEPT !.state = "dying"] /\ proc[q] \in ProcType
        BY <1>6, <2>2, <2>3, <3>2 DEF ProcTypes
      <4> QED
        BY <4>1 DEF ProcType, Free
    <3>3. CASE q # p /\ q \notin Live(s)
      <4>1. proc'[q] = proc[q]
        BY <2>2, <2>3, <3>3
      <4> QED
        BY <4>1, <1>6, <3>3 DEF ProcTypes, Live
    <3> QED
      BY <3>1, <3>2, <3>3
  <2>5. ProcTypes'
    BY <2>3, <2>4 DEF ProcTypes
  <2>6. Shrinks /\ Live(s)' = {}
    BY <2>4 DEF Shrinks, Live
  <2>7. ASSUME Sound PROVE NoneDying'
    <3>1. \A q \in Live(s) : q = p
      BY <1>5, <2>7
    <3>2. \A q \in Pids \ {p} : proc'[q] = proc[q]
      BY <2>2, <2>3, <3>1
    <3> QED
      BY <1>5, <1>6, <2>3, <2>7, <3>2 DEF NoneDying
  <2> QED
    BY <1>1, <1>2, <1>3, <1>7, <2>5, <2>6, <2>7, StoppingKeeps
<1>8. ASSUME Alive(p), proc' = [proc EXCEPT ![p] = Free], Fails(c), UNCHANGED pidfile
      PROVE  LifeInv'
  <2>1. /\ p \in Pids /\ proc'[p] = Free
        /\ \A q \in Pids : q # p => proc'[q] = proc[q]
        /\ proc' = [q \in Pids |-> proc'[q]]
    BY <1>6, <1>8 DEF Alive, ProcTypes
  <2>2. ProcTypes'
    BY <1>6, <2>1 DEF ProcTypes
  <2>3. Shrinks
    BY <1>6, <2>1 DEF Shrinks, Live
  <2>4. Sound' => NoneDying'
    BY <1>1, <1>5, <1>6, <2>1 DEF NoneDying, Sound
  <2> QED
    BY <1>1, <1>2, <1>8, <2>2, <2>3, <2>4, FailingKeeps
<1> QED
  BY <1>3, <1>4, <1>7, <1>8 DEF StopFinish
-----------------------------------------------------------------------------
(* The stops are over, and a service that is started now is not again. *)
LEMMA DoneStarting ==
  ASSUME LifeInv, NEW c \in Ctls, Busy(c), cmd[c].todo # <<>>, Job(c).op # "stop", Done(c)
  PROVE  /\ Of(cmd[c].todo, "stop") = {}
         /\ \A t \in Of(cmd'[c].todo, "start") :
              t \in Of(cmd[c].todo, "start") /\ (Job(c).op = "start" => t # Job(c).of)
         /\ \A t \in Of(cmd[c].todo, "start") :
              t \in Of(cmd'[c].todo, "start") \/ (Job(c).op = "start" /\ t = Job(c).of)
         /\ Job(c).op = "start" => Job(c).of \in Of(cmd[c].todo, "start")
         /\ SpawnRight(c)' /\ ~At(c, "start", "record")'
<1> DEFINE todo == cmd[c].todo
<1>1. cmd'[c].todo = Tail(todo) /\ cmd'[c].step \in {"next", "ended"}
  BY DoneEffect
<1>2. todo \in Seq(JobType) /\ Planned(todo) /\ Job(c) = todo[1]
  BY AtWork, TailOfPlan DEF CommandType, PlanRight, Job
<1>3. /\ \A op : Of(Tail(todo), op) \subseteq Of(todo, op)
      /\ \A op, t : t \in Of(todo, op) =>
           t \in Of(Tail(todo), op) \/ (op = todo[1].op /\ t = todo[1].of)
      /\ todo[1].of \in Of(todo, todo[1].op)
      /\ todo[1].op # "stop" => Of(todo, "stop") = {}
      /\ todo[1].op = "start" => todo[1].of \notin Of(Tail(todo), "start")
  BY <1>2, TailOfPlan
<1>4. SpawnRight(c)' /\ ~At(c, "start", "record")'
  BY <1>1 DEF SpawnRight, At
<1> HIDE DEF todo
<1>5. Of(todo, "stop") = {}
  BY <1>2, <1>3
<1>6. \A t \in Of(Tail(todo), "start") :
        t \in Of(todo, "start") /\ (Job(c).op = "start" => t # Job(c).of)
  BY <1>2, <1>3
<1>7. \A t \in Of(todo, "start") :
        t \in Of(Tail(todo), "start") \/ (Job(c).op = "start" /\ t = Job(c).of)
  BY <1>2, <1>3
<1>8. Job(c).op = "start" => Job(c).of \in Of(todo, "start")
  BY <1>2, <1>3
<1> QED
  BY <1>1, <1>4, <1>5, <1>6, <1>7, <1>8 DEF todo

(* A job is done without a step of a process. *)
LEMMA PassingKeeps ==
  ASSUME LifeInv, NEW c \in Ctls, Busy(c), cmd[c].todo # <<>>, Job(c).op # "stop", Done(c),
         UNCHANGED <<procVars, updateVars, faults>>, ~At(c, "start", "record"),
         Alone /\ cmd[c].kind \in Restarts => Job(c).op # "start"
  PROVE  LifeInv'
<1> DEFINE todo == cmd[c].todo
           next == cmd'[c].todo
<1>1. /\ cmd' \in [Ctls -> CommandType] /\ \A d \in Ctls : d # c => cmd'[d] = cmd[d]
      /\ cmd'[c].kind = cmd[c].kind /\ PlanRight(c)' /\ Active(c) /\ ~At(c, "stop", "wait")
  BY DoneEffect DEF Busy, Active, At
<1>2. /\ Of(todo, "stop") = {}
      /\ \A t \in Of(next, "start") : t \in Of(todo, "start")
      /\ \A t \in Of(todo, "start") :
           t \in Of(next, "start") \/ (Job(c).op = "start" /\ t = Job(c).of)
      /\ SpawnRight(c)' /\ ~At(c, "start", "record")'
  BY DoneStarting
<1>3. /\ Alone => OneLives /\ RestartRight(c)
      /\ Whole => Alone /\ StopRight(c)
      /\ Sound => Whole /\ UpRight(c) /\ NoneDying
      /\ Whole => \A s \in Services : \A p \in Live(s) : p = pidfile[s]
  BY <1>1, AtWork
<1>4. /\ ProcTypes' /\ pidfile' \in [Services -> Pids \cup {NoPid}] /\ UNCHANGED updateVars
      /\ pidfile' = pidfile /\ OneLives' = OneLives /\ NoneDying' = NoneDying
      /\ \A s \in Services : Live(s)' = Live(s) /\ AllNew(s)' = AllNew(s)
  BY DEF procVars, LifeInv, Types, ProcTypes, OneLives, NoneDying, AllNew, Live
<1>5. Alone /\ cmd[c].kind \in Restarts => Of(todo, "start") = Of(next, "start")
  <2>1. Alone /\ cmd[c].kind \in Restarts => Job(c).op # "start"
    OBVIOUS
  <2> HIDE DEF todo, next
  <2> QED
    BY <2>1, <1>2
<1> HIDE DEF todo, next
<1>6. ASSUME Alone PROVE RestartRight(c)'
  <2>1. ASSUME cmd[c].kind \in Restarts, NEW s \in Services
        PROVE  /\ s \in Of(next, "start") => pidfile'[s] = NoPid
               /\ s \notin Of(next, "start") => AllNew(s)'
    <3>1. Of(todo, "start") = Of(next, "start")
      BY <1>5, <1>6, <2>1
    <3>2. /\ s \in Of(todo, "start") => s \in Of(todo, "stop") \/ pidfile[s] = NoPid
          /\ s \notin Of(todo, "start") => AllNew(s)
      BY <1>1, <1>3, <1>6, <2>1 DEF RestartRight, todo
    <3> QED
      BY <1>2, <1>4, <3>1, <3>2
  <2> QED
    BY <1>1, <2>1 DEF RestartRight, next
<1>7. ASSUME Whole PROVE FilesInv' /\ StopRight(c)'
  <2>1. \A s \in Services : \A p \in Live(s)' : p = pidfile'[s]
    BY <1>3, <1>4, <1>7
  <2>2. cmd[c].kind = "stop" => \A s \in Services : AllNew(s)'
    BY <1>1, <1>2, <1>3, <1>4, <1>7 DEF StopRight, todo
  <2>3. StopRight(c)'
    BY <1>1, <2>2 DEF StopRight
  <2> QED
    BY <2>1, <2>3 DEF FilesInv
<1>8. ASSUME Sound PROVE DyingInv' /\ UpRight(c)'
  <2>1. DyingInv'
    BY <1>3, <1>4, <1>8 DEF NoneDying, DyingInv
  <2>2. cmd[c].kind \in Restarts =>
          \A s \in Services \ Of(next, "start") : Live(s)' # {}
    <3>1. Alone
      BY <1>3, <1>8
    <3>2. cmd[c].kind \in Restarts =>
            \A s \in Services \ Of(todo, "start") : Live(s) # {}
      BY <1>1, <1>3, <1>8 DEF UpRight, todo
    <3> QED
      BY <1>4, <1>5, <3>1, <3>2
  <2>3. UpRight(c)'
    BY <1>1, <1>2, <2>2 DEF UpRight, next
  <2> QED
    BY <2>1, <2>3
<1>9. (Alone' <=> Alone) /\ (Whole' <=> Whole) /\ (Sound' <=> Sound)
  BY DEF Alone, Whole, Sound
<1> QED
  BY <1>1, <1>2, <1>3, <1>4, <1>6, <1>7, <1>8, <1>9, CommandKeeps

LEMMA StartCheckKeeps == ASSUME LifeInv, NEW c \in Ctls, StartCheck(c) PROVE LifeInv'
<1> DEFINE todo == cmd[c].todo
<1>1. At(c, "start", "next") /\ UNCHANGED <<pidfile, updateVars, faults>>
  BY DEF StartCheck
<1>2. /\ Busy(c) /\ Active(c) /\ todo # <<>> /\ Job(c).op = "start"
      /\ Job(c) = todo[1] /\ Job(c).of \in Services /\ todo \in Seq(JobType)
      /\ ~At(c, "start", "record") /\ ~At(c, "stop", "wait")
  BY <1>1, AtJob
<1>3. PICK s \in Services : Job(c).of = s
  BY <1>2
<1>4. /\ Alone => OneLives /\ SpawnRight(c) /\ RestartRight(c)
      /\ Whole => Alone /\ StopRight(c)
      /\ Sound => Whole /\ UpRight(c) /\ NoneDying
      /\ Whole => \A t \in Services : \A q \in Live(t) : q = pidfile[t]
  BY <1>2, AtWork
<1>5. /\ ProcTypes /\ pidfile \in [Services -> Pids \cup {NoPid}] /\ NoPid \notin Pids
  BY LifecycleAssumption DEF LifeInv, Types
<1>6. ASSUME Alive(pidfile[s]), Done(c), UNCHANGED proc PROVE LifeInv'
  <2>1. ASSUME Alone, cmd[c].kind \in Restarts PROVE FALSE
    <3>1. s \in Of(todo, "start") /\ s \notin Of(todo, "stop")
      BY <1>2, <1>3, <1>6, DoneStarting
    <3>2. pidfile[s] = NoPid
      BY <1>2, <1>4, <2>1, <3>1 DEF RestartRight
    <3> QED
      BY <1>5, <1>6, <3>2 DEF Alive
  <2> QED
    BY <1>1, <1>2, <1>6, <2>1, PassingKeeps DEF procVars
<1>7. ASSUME ~Alive(pidfile[s]), proc' = Swept(s), Goto(c, "spawn") PROVE LifeInv'
  <2>1. ProcTypes' /\ Shrinks /\ Live(s)' = {} /\ \A q \in Pids \ Live(s) : proc'[q] = proc[q]
    BY <1>5, <1>7, SweptEffect
  <2>2. /\ cmd' \in [Ctls -> CommandType] /\ \A d \in Ctls : d # c => cmd'[d] = cmd[d]
        /\ cmd'[c].kind = cmd[c].kind /\ cmd'[c].todo = todo
        /\ PlanRight(c)' /\ Active(c)' /\ Job(c)' = Job(c)
        /\ \A o, t : At(c, o, t)' <=> o = "start" /\ t = "spawn"
    <3>1. cmd \in [Ctls -> CommandType] /\ cmd[c].pid \in Pids \cup {NoPid}
      BY <1>2, AtWork DEF CommandType, LifeInv, Types
    <3>2. cmd' = [cmd EXCEPT ![c].pid = cmd[c].pid, ![c].step = "spawn"]
      BY <1>7, <3>1 DEF CommandType, Goto
    <3>3. /\ cmd' \in [Ctls -> CommandType] /\ \A d \in Ctls : d # c => cmd'[d] = cmd[d]
          /\ cmd'[c].kind = cmd[c].kind /\ cmd'[c].todo = todo
          /\ PlanRight(c)' /\ Active(c)' /\ Job(c)' = Job(c)
          /\ \A o, t : At(c, o, t)' <=> cmd[c].todo # <<>> /\ Job(c).op = o /\ "spawn" = t
      <4>1. "spawn" \in {"next", "wait", "spawn", "record"}
        OBVIOUS
      <4> QED
        BY <1>2, <3>1, <3>2, <4>1, GotoEffect
    <3> HIDE DEF todo
    <3> QED
      BY <3>3, <1>2 DEF todo
  <2>3. /\ OneLives => OneLives'
        /\ \A t \in Services : AllNew(t) => AllNew(t)'
    BY <2>1, ShrinkingKeeps
  <2>4. ASSUME Alone PROVE OneLives' /\ SpawnRight(c)' /\ RestartRight(c)'
    <3>1. SpawnRight(c)'
      <4>1. \A t : t = s => Live(t)' = {}
        BY <2>1
      <4> QED
        BY <1>3, <2>1, <2>2, <4>1 DEF SpawnRight
    <3>2. RestartRight(c)'
      BY <1>1, <1>2, <1>4, <2>2, <2>3, <2>4 DEF RestartRight
    <3> QED
      BY <1>4, <2>3, <2>4, <3>1, <3>2
  <2>5. ASSUME Whole PROVE FilesInv' /\ StopRight(c)'
    <3>1. \A t \in Services : \A q \in Live(t)' : q = pidfile'[t]
      BY <1>1, <1>4, <2>1, <2>5 DEF Shrinks
    <3>2. StopRight(c)'
      BY <1>2, <1>4, <2>2, <2>3, <2>5 DEF StopRight
    <3> QED
      BY <3>1, <3>2 DEF FilesInv
  <2>6. ASSUME Sound PROVE DyingInv' /\ UpRight(c)'
    <3>1. \A q \in Live(s) : Alive(q)
      BY DEF Live, Alive, Free
    <3>2. Live(s) = {}
      BY <1>4, <1>7, <2>6, <3>1
    <3>3. \A q \in Pids : proc'[q] = proc[q]
      BY <2>1, <3>2
    <3>4. DyingInv'
      BY <1>4, <2>6, <3>3 DEF NoneDying, DyingInv
    <3>5. \A t \in Services : Live(t)' = Live(t)
      BY <3>3 DEF Live
    <3>6. UpRight(c)'
      BY <1>2, <1>4, <2>2, <2>6, <3>5 DEF UpRight
    <3> QED
      BY <3>4, <3>6
  <2>7. (Alone' <=> Alone) /\ (Whole' <=> Whole) /\ (Sound' <=> Sound)
    BY <1>1 DEF Alone, Whole, Sound
  <2>8. pidfile' \in [Services -> Pids \cup {NoPid}]
    BY <1>1, <1>5
  <2> QED
    BY <1>1, <1>2, <2>1, <2>2, <2>4, <2>5, <2>6, <2>7, <2>8, CommandKeeps
<1> QED
  BY <1>3, <1>6, <1>7 DEF StartCheck

LEMMA SpawnKeeps == ASSUME LifeInv, NEW c \in Ctls, NEW p \in Pids, Spawn(c, p) PROVE LifeInv'
<1> DEFINE todo == cmd[c].todo
<1>1. At(c, "start", "spawn") /\ proc[p] = Free /\ UNCHANGED <<pidfile, updateVars, faults>>
  BY DEF Spawn
<1>2. /\ Busy(c) /\ Active(c) /\ todo # <<>> /\ Job(c).op = "start"
      /\ Job(c) = todo[1] /\ Job(c).of \in Services /\ todo \in Seq(JobType)
      /\ ~At(c, "start", "record") /\ ~At(c, "stop", "wait")
  BY <1>1, AtJob
<1>3. PICK s \in Services : Job(c).of = s
  BY <1>2
<1>4. /\ Alone => OneLives /\ SpawnRight(c) /\ RestartRight(c)
      /\ Whole => Alone /\ StopRight(c)
      /\ Sound => Whole /\ UpRight(c) /\ NoneDying
      /\ Whole => \A t \in Services : \A q \in Live(t) : q = pidfile[t]
  BY <1>2, AtWork
<1>5. /\ ProcTypes /\ pidfile \in [Services -> Pids \cup {NoPid}]
  BY DEF LifeInv, Types
<1>6. /\ proc' = [proc EXCEPT ![p] = [of |-> s, state |-> "booting", age |-> "new"]]
      /\ cmd' = [cmd EXCEPT ![c].pid = p, ![c].step = "record"]
  BY <1>3 DEF Spawn
<1>7. /\ proc'[p] = [of |-> s, state |-> "booting", age |-> "new"]
      /\ \A q \in Pids : q # p => proc'[q] = proc[q]
      /\ proc' = [q \in Pids |-> proc'[q]]
  BY <1>5, <1>6 DEF ProcTypes
<1>8. ProcTypes'
  <2>1. proc'[p] \in ProcType /\ proc'[p].state # "free" /\ proc'[p] # Free
    BY <1>7 DEF ProcType, Free
  <2> QED
    BY <1>5, <1>7, <2>1 DEF ProcTypes
<1>9. /\ Live(s)' = Live(s) \cup {p}
      /\ \A t \in Services : t # s => Live(t)' = Live(t) /\ AllNew(t)' = AllNew(t)
  <2>1. p \notin Live(s)
    BY <1>1 DEF Live, Free
  <2>2. Live(s)' = Live(s) \cup {p}
    BY <1>7 DEF Live
  <2>3. ASSUME NEW t \in Services, t # s PROVE Live(t)' = Live(t) /\ p \notin Live(t)
    BY <1>1, <1>7, <2>3 DEF Live, Free
  <2>4. ASSUME NEW t \in Services, t # s PROVE AllNew(t)' = AllNew(t)
    <3>1. \A q \in Live(t) : q \in Pids /\ q # p /\ proc'[q] = proc[q]
      BY <1>7, <2>3, <2>4 DEF Live
    <3> QED
      BY <2>3, <2>4, <3>1 DEF AllNew
  <2> QED
    BY <2>2, <2>3, <2>4
<1>10. /\ cmd' \in [Ctls -> CommandType] /\ \A d \in Ctls : d # c => cmd'[d] = cmd[d]
       /\ cmd'[c].kind = cmd[c].kind /\ cmd'[c].todo = todo /\ cmd'[c].pid = p
       /\ PlanRight(c)' /\ Active(c)' /\ Job(c)' = Job(c)
       /\ \A o, t : At(c, o, t)' <=> o = "start" /\ t = "record"
  <2>1. p \in Pids \cup {NoPid} /\ "record" \in {"next", "wait", "spawn", "record"}
    OBVIOUS
  <2>2. /\ cmd' \in [Ctls -> CommandType] /\ \A d \in Ctls : d # c => cmd'[d] = cmd[d]
        /\ cmd'[c].kind = cmd[c].kind /\ cmd'[c].todo = todo /\ cmd'[c].pid = p
        /\ PlanRight(c)' /\ Active(c)' /\ Job(c)' = Job(c)
        /\ \A o, t : At(c, o, t)' <=> cmd[c].todo # <<>> /\ Job(c).op = o /\ "record" = t
    BY <1>2, <1>6, <2>1, GotoEffect
  <2> HIDE DEF todo
  <2> QED
    BY <2>2, <1>2 DEF todo
<1>11. s \in Of(todo, "start")
  BY <1>2, <1>3, TailOfPlan
<1>12. ASSUME Alone
       PROVE  /\ OneLives' /\ SpawnRight(c)' /\ RestartRight(c)'
              /\ Live(s)' = {p} /\ AllNew(s)'
  <2>1. \A t : t = s => Live(t) = {}
    BY <1>1, <1>3, <1>4, <1>12 DEF SpawnRight
  <2>2. Live(s)' = {p} /\ AllNew(s)'
    BY <1>7, <1>9, <2>1 DEF AllNew
  <2>3. OneLives'
    BY <1>4, <1>9, <1>12, <2>2 DEF OneLives
  <2>4. \A t : t = s => \A q \in Live(t)' : q = p /\ proc'[q].age = "new"
    BY <1>7, <2>2
  <2>5. SpawnRight(c)'
    BY <1>3, <1>10, <2>4 DEF SpawnRight
  <2>6. RestartRight(c)'
    BY <1>1, <1>2, <1>4, <1>9, <1>10, <1>11, <1>12 DEF RestartRight
  <2> QED
    BY <2>2, <2>3, <2>5, <2>6
<1>13. ASSUME Whole PROVE FilesInv' /\ StopRight(c)'
  <2>1. ASSUME NEW t \in Services, NEW q \in Live(t)'
        PROVE  \/ q = pidfile'[t]
               \/ (At(c, "start", "record") /\ Job(c).of = t /\ cmd[c].pid = q)'
    <3>1. CASE t = s
      BY <1>3, <1>4, <1>10, <1>12, <1>13, <2>1, <3>1
    <3>2. CASE t # s
      BY <1>1, <1>4, <1>9, <1>13, <2>1, <3>2
    <3> QED
      BY <3>1, <3>2
  <2>2. FilesInv'
    BY <2>1 DEF FilesInv
  <2>3. StopRight(c)'
    BY <1>2, <1>4, <1>9, <1>10, <1>12, <1>13 DEF StopRight
  <2> QED
    BY <2>2, <2>3
<1>14. ASSUME Sound PROVE DyingInv' /\ UpRight(c)'
  <2>1. NoneDying'
    BY <1>4, <1>7, <1>14 DEF NoneDying
  <2>2. \A t \in Services : Live(t) \subseteq Live(t)'
    BY <1>9
  <2>3. p \in Live(s)' /\ (\A t : t = s => p \in Live(t)')
    BY <1>9
  <2>4. UpRight(c)'
    <3>1. At(c, "start", "record")' => cmd'[c].pid \in Live(Job(c).of)'
      BY <1>3, <1>10, <2>3
    <3>2. cmd[c].kind \in Restarts => \A t \in Services \ Of(todo, "start") : Live(t) # {}
      BY <1>2, <1>4, <1>14 DEF UpRight
    <3>3. cmd[c].kind \in Restarts => \A t \in Services \ Of(todo, "start") : Live(t)' # {}
      BY <2>2, <3>2
    <3> QED
      BY <1>10, <3>1, <3>3 DEF UpRight
  <2> QED
    BY <2>1, <2>4 DEF NoneDying, DyingInv
<1>15. (Alone' <=> Alone) /\ (Whole' <=> Whole) /\ (Sound' <=> Sound)
  BY <1>1 DEF Alone, Whole, Sound
<1>16. pidfile' \in [Services -> Pids \cup {NoPid}]
  BY <1>1, <1>5
<1> QED
  BY <1>1, <1>2, <1>8, <1>10, <1>12, <1>13, <1>14, <1>15, <1>16, CommandKeeps

LEMMA RecordKeeps == ASSUME LifeInv, NEW c \in Ctls, Record(c) PROVE LifeInv'
<1> DEFINE todo == cmd[c].todo
           next == cmd'[c].todo
<1>1. At(c, "start", "record") /\ Done(c) /\ UNCHANGED <<proc, updateVars, faults>>
  BY DEF Record
<1>2. /\ Busy(c) /\ Active(c) /\ todo # <<>> /\ Job(c).op = "start"
      /\ Job(c).of \in Services /\ ~At(c, "stop", "wait")
  BY <1>1, AtJob
<1>3. PICK s \in Services : Job(c).of = s
  BY <1>2
<1>4. PICK pid \in Pids \cup {NoPid} : cmd[c].pid = pid
  BY <1>2, AtWork DEF CommandType
<1>5. /\ pidfile' \in [Services -> Pids \cup {NoPid}] /\ pidfile'[s] = pid
      /\ \A t \in Services : t # s => pidfile'[t] = pidfile[t]
  <2>1. pidfile' = [pidfile EXCEPT ![s] = pid]
    BY <1>3, <1>4 DEF Record
  <2> QED
    BY <2>1 DEF LifeInv, Types
<1>6. /\ Alone => OneLives /\ SpawnRight(c) /\ RestartRight(c)
      /\ Whole => Alone /\ StopRight(c)
      /\ Sound => Whole /\ UpRight(c) /\ NoneDying
      /\ Alone => \A d \in Ctls : Active(d) => d = c
  BY <1>2, AtWork
<1>7. Alone => \A p \in Live(s) : p = pid /\ proc[p].age = "new"
  <2>1. Alone => \A t : t = s => \A p \in Live(t) : p = pid /\ proc[p].age = "new"
    BY <1>1, <1>3, <1>4, <1>6 DEF SpawnRight
  <2> QED
    BY <2>1
<1>8. /\ cmd' \in [Ctls -> CommandType] /\ \A d \in Ctls : d # c => cmd'[d] = cmd[d]
      /\ cmd'[c].kind = cmd[c].kind /\ PlanRight(c)'
  BY <1>1, <1>2, DoneEffect
<1>9. /\ Of(todo, "stop") = {}
      /\ \A t \in Of(next, "start") : t \in Of(todo, "start") /\ t # s
      /\ \A t \in Of(todo, "start") : t \in Of(next, "start") \/ t = s
      /\ SpawnRight(c)' /\ ~At(c, "start", "record")'
  <2>1. /\ Of(todo, "stop") = {}
        /\ \A t \in Of(next, "start") :
             t \in Of(todo, "start") /\ (Job(c).op = "start" => t # Job(c).of)
        /\ \A t \in Of(todo, "start") :
             t \in Of(next, "start") \/ (Job(c).op = "start" /\ t = Job(c).of)
        /\ SpawnRight(c)' /\ ~At(c, "start", "record")'
    BY <1>1, <1>2, DoneStarting
  <2> HIDE DEF todo, next
  <2> QED
    BY <2>1, <1>2, <1>3
<1>10. /\ ProcTypes' /\ OneLives' = OneLives /\ NoneDying' = NoneDying
       /\ \A t \in Services : Live(t)' = Live(t) /\ AllNew(t)' = AllNew(t)
  BY <1>1 DEF LifeInv, Types, ProcTypes, OneLives, NoneDying, AllNew, Live
<1> HIDE DEF todo, next
<1>11. ASSUME Alone PROVE RestartRight(c)'
  <2>1. ASSUME cmd[c].kind \in Restarts, NEW t \in Services
        PROVE  /\ t \in Of(next, "start") => pidfile'[t] = NoPid
               /\ t \notin Of(next, "start") => AllNew(t)'
    <3>1. /\ t \in Of(todo, "start") => t \in Of(todo, "stop") \/ pidfile[t] = NoPid
          /\ t \notin Of(todo, "start") => AllNew(t)
      BY <1>2, <1>6, <1>11, <2>1 DEF RestartRight, todo
    <3>2. AllNew(s)
      BY <1>7, <1>11 DEF AllNew
    <3> QED
      BY <1>5, <1>9, <1>10, <3>1, <3>2
  <2> QED
    BY <1>8, <2>1 DEF RestartRight, next
<1>12. ASSUME Whole PROVE FilesInv' /\ StopRight(c)'
  <2>1. ASSUME NEW t \in Services, NEW p \in Live(t)' PROVE p = pidfile'[t]
    <3>1. p \in Live(t)
      BY <1>10, <2>1
    <3>2. \A d \in Ctls : At(d, "start", "record") => d = c
      BY <1>6, <1>12 DEF At, Active
    <3>3. t = s \/ p = pidfile[t]
      BY <1>3, <1>12, <3>1, <3>2 DEF LifeInv, WholeInv, FilesInv
    <3> QED
      BY <1>5, <1>6, <1>7, <1>12, <3>1, <3>3
  <2>2. cmd[c].kind = "stop" => \A t \in Services : AllNew(t)'
    BY <1>2, <1>6, <1>9, <1>10, <1>12 DEF StopRight, todo
  <2>3. StopRight(c)'
    BY <1>8, <2>2 DEF StopRight
  <2> QED
    BY <2>1, <2>3 DEF FilesInv
<1>13. ASSUME Sound PROVE DyingInv' /\ UpRight(c)'
  <2>1. DyingInv'
    BY <1>6, <1>10, <1>13 DEF NoneDying, DyingInv
  <2>2. \A t : t = s => Live(t) # {}
    BY <1>1, <1>3, <1>6, <1>13 DEF UpRight
  <2>3. cmd[c].kind \in Restarts => \A t \in Services \ Of(todo, "start") : Live(t) # {}
    BY <1>2, <1>6, <1>13 DEF UpRight, todo
  <2>4. cmd[c].kind \in Restarts => \A t \in Services \ Of(next, "start") : Live(t)' # {}
    BY <1>9, <1>10, <2>2, <2>3
  <2>5. UpRight(c)'
    BY <1>8, <1>9, <2>4 DEF UpRight, next
  <2> QED
    BY <2>1, <2>5
<1>14. (Alone' <=> Alone) /\ (Whole' <=> Whole) /\ (Sound' <=> Sound)
  BY <1>1 DEF Alone, Whole, Sound
<1>15. Alone => OneLives'
  BY <1>6, <1>10
<1> QED
  BY <1>1, <1>2, <1>5, <1>8, <1>9, <1>10, <1>11, <1>12, <1>13, <1>14, <1>15, CommandKeeps

(* Health checks and the updater change no process; either can end the     *)
(* command.                                                                *)
LEMMA StillFailing ==
  ASSUME LifeInv, NEW c \in Ctls, Busy(c), Fails(c),
         UNCHANGED <<procVars, updateVars, faults>>,
         ~At(c, "start", "record"), ~At(c, "stop", "wait")
  PROVE  LifeInv'
<1>1. ProcTypes' /\ Shrinks /\ NoneDying' = NoneDying
  BY DEF procVars, LifeInv, Types, ProcTypes, Shrinks, Live, NoneDying
<1>2. Sound' => NoneDying'
  BY <1>1, AtWork DEF Sound
<1> QED
  BY <1>1, <1>2, FailingKeeps DEF procVars

LEMMA HealthKeeps == ASSUME LifeInv, NEW c \in Ctls, Health(c) PROVE LifeInv'
<1>1. At(c, "health", "next") /\ UNCHANGED <<procVars, updateVars, faults>>
      /\ (Done(c) \/ Fails(c))
  BY DEF Health
<1>2. Busy(c) /\ cmd[c].todo # <<>> /\ Job(c).op = "health"
      /\ ~At(c, "start", "record") /\ ~At(c, "stop", "wait")
  BY <1>1, AtJob
<1>3. CASE Done(c)
  BY <1>1, <1>2, <1>3, PassingKeeps
<1>4. CASE Fails(c)
  BY <1>1, <1>2, <1>4, StillFailing
<1> QED
  BY <1>1, <1>3, <1>4

LEMMA RunUpdaterKeeps == ASSUME LifeInv, NEW c \in Ctls, RunUpdater(c) PROVE LifeInv'
<1>1. cmd[c].step = "update" /\ UNCHANGED <<procVars, updateVars, faults>>
      /\ (Goto(c, "next") \/ Fails(c))
  BY DEF RunUpdater
<1>2. /\ Busy(c) /\ Active(c)
      /\ \A o, t : At(c, o, t) => t = "update"
  BY <1>1 DEF Busy, Active, At
<1>3. CASE Fails(c)
  BY <1>1, <1>2, <1>3, StillFailing
<1>4. CASE Goto(c, "next")
  <2>1. cmd \in [Ctls -> CommandType] /\ cmd[c].pid \in Pids \cup {NoPid}
    BY <1>2, AtWork DEF CommandType, LifeInv, Types
  <2>2. cmd' = [cmd EXCEPT ![c].pid = cmd[c].pid, ![c].step = "next"]
    BY <1>4, <2>1 DEF CommandType, Goto
  <2>3. /\ cmd' \in [Ctls -> CommandType] /\ \A d \in Ctls : d # c => cmd'[d] = cmd[d]
        /\ cmd'[c].kind = cmd[c].kind /\ cmd'[c].todo = cmd[c].todo
        /\ PlanRight(c)' /\ Active(c)'
        /\ \A o, t : At(c, o, t)' => t = "next"
    <3>1. "next" \in {"next", "wait", "spawn", "record"}
      OBVIOUS
    <3> QED
      BY <1>2, <2>1, <2>2, <3>1, GotoEffect
  <2>4. /\ Alone => OneLives /\ RestartRight(c)
        /\ Whole => Alone /\ StopRight(c)
        /\ Sound => Whole /\ UpRight(c) /\ NoneDying
        /\ Whole => \A s \in Services : \A p \in Live(s) : p = pidfile[s]
    BY <1>2, AtWork
  <2>5. /\ ProcTypes' /\ pidfile' \in [Services -> Pids \cup {NoPid}]
        /\ pidfile' = pidfile /\ OneLives' = OneLives /\ NoneDying' = NoneDying
        /\ \A s \in Services : Live(s)' = Live(s) /\ AllNew(s)' = AllNew(s)
    BY <1>1 DEF procVars, LifeInv, Types, ProcTypes, OneLives, NoneDying, AllNew, Live
  <2>6. SpawnRight(c)' /\ ~At(c, "start", "record")'
    BY <2>3 DEF SpawnRight
  <2>7. ASSUME Alone PROVE RestartRight(c)'
    BY <1>2, <2>3, <2>4, <2>5, <2>7 DEF RestartRight
  <2>8. ASSUME Whole PROVE FilesInv' /\ StopRight(c)'
    <3>1. FilesInv'
      BY <2>4, <2>5, <2>8 DEF FilesInv
    <3> QED
      BY <1>2, <2>3, <2>4, <2>5, <2>8, <3>1 DEF StopRight
  <2>9. ASSUME Sound PROVE DyingInv' /\ UpRight(c)'
    <3>1. DyingInv'
      BY <2>4, <2>5, <2>9 DEF NoneDying, DyingInv
    <3> QED
      BY <1>2, <2>3, <2>4, <2>5, <2>6, <2>9, <3>1 DEF UpRight
  <2>10. (Alone' <=> Alone) /\ (Whole' <=> Whole) /\ (Sound' <=> Sound)
    BY <1>1 DEF Alone, Whole, Sound
  <2> QED
    BY <1>1, <1>2, <2>3, <2>4, <2>5, <2>6, <2>7, <2>8, <2>9, <2>10, CommandKeeps
<1> QED
  BY <1>1, <1>3, <1>4

LEMMA CtlDiesKeeps == ASSUME LifeInv, NEW c \in Ctls, CtlDies(c) PROVE LifeInv'
<1>1. /\ Busy(c) /\ Fails(c) /\ UNCHANGED <<procVars, updateVars>>
      /\ faults' = faults \cup {"ctl"}
  BY DEF CtlDies, Happens
<1>2. ProcTypes' /\ Shrinks
  BY <1>1 DEF procVars, LifeInv, Types, ProcTypes, Shrinks, Live
<1>3. ~Whole' /\ ~Sound'
  BY <1>1 DEF Whole, Sound
<1> QED
  BY <1>1, <1>2, <1>3, FailingKeeps DEF procVars
-----------------------------------------------------------------------------
(* As long as commands do not overlap, nobody is at work as one starts. *)
LEMMA StartingKeeps ==
  ASSUME LifeInv, NEW c \in Ctls,
         NEW kind \in {"start", "stop", "onboard", "update", "remote"}, Starting(c, kind),
         UNCHANGED pidfile, remote' \in Ctls \cup {NoPid}, updatePid' \in Ctls \cup {NoPid},
         "gate" \notin faults' => UpdatesInv'
  PROVE  LifeInv'
<1>1. /\ ~Busy(c)
      /\ IF Overlap(c) /\ "overlap" \notin faults THEN Happens("overlap") ELSE UNCHANGED faults
      /\ cmd' = [d \in Ctls |-> IF d = c THEN Begun(kind)
                                ELSE IF Busy(d) THEN cmd[d] ELSE NoCommand]
      /\ proc' = [p \in Pids |-> IF proc[p].of \in Services
                                 THEN [proc[p] EXCEPT !.age = "old"] ELSE proc[p]]
  BY DEF Starting
<1>2. /\ ProcTypes /\ pidfile' \in [Services -> Pids \cup {NoPid}]
      /\ cmd \in [Ctls -> CommandType] /\ PlansInv
  BY DEF LifeInv, Types
<1>3. Alone' => Alone /\ UNCHANGED faults /\ \A d \in Ctls : ~Busy(d)
  <2>1. ASSUME Alone', Overlap(c) PROVE FALSE
    BY <1>1, <2>1 DEF Alone, Happens
  <2>2. ASSUME Alone' PROVE Alone /\ UNCHANGED faults
    BY <1>1, <2>1, <2>2 DEF Alone
  <2> QED
    BY <1>1, <2>1, <2>2 DEF Overlap
<1>4. /\ \A p \in Pids : /\ proc'[p] \in ProcType
                         /\ proc'[p].of = proc[p].of /\ proc'[p].state = proc[p].state
                         /\ proc'[p].state = "free" <=> proc'[p] = Free
      /\ proc' = [p \in Pids |-> proc'[p]]
  <2>1. ASSUME NEW p \in Pids
        PROVE  /\ proc'[p] \in ProcType
               /\ proc'[p].of = proc[p].of /\ proc'[p].state = proc[p].state
               /\ proc'[p].state = "free" <=> proc'[p] = Free
    <3>1. proc[p] \in ProcType /\ (proc[p].state = "free" <=> proc[p] = Free)
      BY <1>2 DEF ProcTypes
    <3>2. CASE proc[p].of \in Services
      <4>1. proc'[p] = [proc[p] EXCEPT !.age = "old"]
        BY <1>1, <3>2
      <4>2. /\ proc'[p] \in ProcType /\ proc'[p].age = "old"
            /\ proc'[p].of = proc[p].of /\ proc'[p].state = proc[p].state
        BY <3>1, <4>1 DEF ProcType
      <4>3. proc[p] # Free /\ proc'[p] # Free
        BY <3>2, <4>2, LifecycleAssumption DEF Free
      <4> QED
        BY <3>1, <4>2, <4>3
    <3>3. CASE proc[p].of \notin Services
      BY <1>1, <3>1, <3>3
    <3> QED
      BY <3>2, <3>3
  <2> QED
    BY <1>1, <2>1
<1>5. ProcTypes' /\ \A s \in Services : Live(s)' = Live(s)
  BY <1>4 DEF ProcTypes, Live
<1>6. /\ Program(kind) \in Seq(JobType) /\ Planned(Program(kind))
      /\ kind \in Restarts => Of(Program(kind), "start") = Services
      /\ kind \in Restarts \cup {"stop"} => Of(Program(kind), "stop") = Services
  BY ProgramIsPlanned
<1>7. /\ cmd'[c].kind = kind /\ cmd'[c].todo = Program(kind)
      /\ cmd'[c].step \in {"update", "next"} /\ cmd'[c] \in CommandType
  <2>1. cmd'[c] = Begun(kind)
    BY <1>1
  <2> HIDE DEF Program
  <2> QED
    BY <2>1, <1>6 DEF Begun, CommandType, Step
<1>8. /\ NoCommand \in CommandType /\ NoCommand.step = "idle" /\ NoCommand.todo = <<>>
      /\ NoCommand.kind = "none"
  <2>1. <<>> \in Seq(JobType)
    OBVIOUS
  <2> QED
    BY <2>1 DEF NoCommand, CommandType, Step
<1>9. \A d \in Ctls : d # c =>
        \/ Busy(d) /\ cmd'[d] = cmd[d]
        \/ ~Busy(d) /\ cmd'[d] = NoCommand
  BY <1>1
<1>10. cmd' \in [Ctls -> CommandType]
  <2>1. cmd' = [d \in Ctls |-> cmd'[d]]
    BY <1>1
  <2>2. \A d \in Ctls : cmd'[d] \in CommandType
    BY <1>2, <1>7, <1>8, <1>9
  <2> QED
    BY <2>1, <2>2
<1>11. Types'
  BY <1>2, <1>5, <1>10 DEF Types
<1>12. PlansInv'
  <2>1. Planned(<<>>)
    BY DEF Planned
  <2>2. PlanRight(c)'
    BY <1>6, <1>7 DEF PlanRight, Restarts
  <2>3. ASSUME NEW d \in Ctls, d # c PROVE PlanRight(d)'
    <3>1. CASE cmd'[d] = cmd[d]
      BY <1>2, <3>1 DEF PlansInv, PlanRight
    <3>2. CASE cmd'[d] = NoCommand
      BY <1>8, <2>1, <3>2 DEF PlanRight, Restarts
    <3> QED
      BY <1>9, <2>3, <3>1, <3>2
  <2> QED
    BY <2>2, <2>3 DEF PlansInv
<1>13. ASSUME Alone', NEW d \in Ctls, d # c PROVE ~Active(d)'
  BY <1>3, <1>8, <1>9, <1>13 DEF Active
<1>14. ASSUME NEW d \in Ctls, ~Active(d)' \/ d = c
       PROVE  ~At(d, "start", "spawn")' /\ ~At(d, "start", "record")' /\ ~At(d, "stop", "wait")'
  BY <1>7, <1>14 DEF At, Active
<1>15. ASSUME Alone' PROVE AloneInv'
  <2>1. OneActive'
    BY <1>13, <1>15 DEF OneActive
  <2>2. OneLives'
    BY <1>3, <1>5, <1>15 DEF LifeInv, AloneInv, OneLives
  <2>3. ASSUME NEW d \in Ctls PROVE SpawnRight(d)'
    BY <1>13, <1>14, <1>15 DEF SpawnRight
  <2>4. RestartRight(c)'
    BY <1>6, <1>7 DEF RestartRight
  <2>5. ASSUME NEW d \in Ctls, d # c PROVE RestartRight(d)'
    BY <1>13, <1>15, <2>5 DEF RestartRight
  <2> QED
    BY <2>1, <2>2, <2>3, <2>4, <2>5 DEF AloneInv
<1>16. \A d \in Ctls : At(d, "start", "record") \/ At(d, "stop", "wait") => Busy(d)
  BY DEF At, Busy
<1>17. ASSUME Whole' PROVE WholeInv'
  <2>1. Alone' /\ Whole
    BY <1>3, <1>17 DEF Whole
  <2>2. \A s \in Services : \A p \in Live(s) : p = pidfile[s]
    BY <1>3, <1>16, <2>1 DEF LifeInv, WholeInv, FilesInv
  <2>3. FilesInv'
    BY <1>5, <2>2 DEF FilesInv
  <2>4. ASSUME NEW d \in Ctls, d # c PROVE StopRight(d)'
    BY <1>13, <2>1, <2>4 DEF StopRight
  <2>5. StopRight(c)'
    BY <1>6, <1>7 DEF StopRight
  <2> QED
    BY <2>3, <2>4, <2>5 DEF WholeInv
<1>18. ASSUME Sound' PROVE SoundInv'
  <2>1. Alone' /\ Sound
    BY <1>3, <1>18 DEF Sound, Alone
  <2>2. NoneDying
    BY <1>3, <1>16, <2>1 DEF LifeInv, SoundInv, DyingInv, NoneDying
  <2>3. DyingInv'
    BY <1>4, <2>2 DEF DyingInv, NoneDying
  <2>4. ASSUME NEW d \in Ctls, d # c PROVE UpRight(d)'
    BY <1>13, <1>14, <2>1, <2>4 DEF UpRight
  <2>5. UpRight(c)'
    BY <1>6, <1>7, <1>14 DEF UpRight
  <2> QED
    BY <2>3, <2>4, <2>5 DEF SoundInv
<1> QED
  BY <1>11, <1>12, <1>15, <1>17, <1>18 DEF LifeInv

LEMMA BeginKeeps ==
  ASSUME LifeInv, NEW c \in Ctls, NEW kind \in {"start", "stop", "onboard", "update"},
         Begin(c, kind)
  PROVE  LifeInv'
<1>1. Starting(c, kind) /\ UNCHANGED <<pidfile, remote, updatePid>>
  BY DEF Begin, updateVars
<1>2. faults \subseteq faults'
  BY <1>1 DEF Starting, Happens
<1>3. ASSUME NEW d \in Ctls, (cmd[d].kind = "remote" /\ Busy(d))'
      PROVE  cmd[d].kind = "remote" /\ Busy(d)
  <2>1. cmd'[c].kind = kind
    BY <1>1 DEF Starting, Begun
  <2>2. d # c
    BY <1>3, <2>1
  <2>3. cmd'[d] = IF Busy(d) THEN cmd[d] ELSE NoCommand
    BY <1>1, <2>2 DEF Starting
  <2> QED
    BY <1>3, <2>3 DEF NoCommand
<1>4. ASSUME "gate" \notin faults' PROVE UpdatesInv'
  <2>1. UpdatesInv
    BY <1>2, <1>4 DEF LifeInv
  <2> QED
    BY <1>1, <1>3, <2>1 DEF UpdatesInv
<1>5. kind \in {"start", "stop", "onboard", "update", "remote"}
  OBVIOUS
<1> QED
  BY <1>1, <1>4, <1>5, StartingKeeps DEF LifeInv, Types

LEMMA RemoteUpdateKeeps == ASSUME LifeInv, NEW c \in Ctls, RemoteUpdate(c) PROVE LifeInv'
<1>1. /\ remote = NoPid /\ (updatePid = NoPid \/ ~Busy(updatePid))
      /\ Starting(c, "remote") /\ remote' = c /\ updatePid' = NoPid /\ UNCHANGED pidfile
  BY DEF RemoteUpdate
<1>2. faults \subseteq faults'
  BY <1>1 DEF Starting, Happens
<1>3. ASSUME NEW d \in Ctls, d # c, (cmd[d].kind = "remote" /\ Busy(d))'
      PROVE  cmd[d].kind = "remote" /\ Busy(d)
  <2>1. cmd'[d] = IF Busy(d) THEN cmd[d] ELSE NoCommand
    BY <1>1, <1>3 DEF Starting
  <2> QED
    BY <1>3, <2>1 DEF NoCommand
<1>4. ASSUME "gate" \notin faults' PROVE UpdatesInv'
  <2>1. UpdatesInv
    BY <1>2, <1>4 DEF LifeInv
  <2>2. NoPid \notin Ctls
    BY LifecycleAssumption
  <2>3. ASSUME NEW d \in Ctls, d # c, (cmd[d].kind = "remote" /\ Busy(d))' PROVE FALSE
    BY <1>1, <1>3, <2>1, <2>2, <2>3 DEF UpdatesInv
  <2> QED
    BY <1>1, <2>3 DEF UpdatesInv
<1> QED
  BY <1>1, <1>4, StartingKeeps
-----------------------------------------------------------------------------
(* A step of a process, or of the gate: commands and pid files are as they *)
(* were.  While a process is dying nothing is said of those that are left. *)
LEMMA ProcessKeeps ==
  ASSUME LifeInv, UNCHANGED <<pidfile, cmd>>, ProcTypes', Shrinks,
         remote' \in Ctls \cup {NoPid}, updatePid' \in Ctls \cup {NoPid},
         faults \subseteq faults', "gate" \notin faults' => UpdatesInv',
         Sound' =>
           /\ \A p \in Pids : proc'[p].state = "dying" /\ proc'[p].of \in Services =>
                proc[p].state = "dying" /\ proc[p].of \in Services
           /\ NoneDying => \A s \in Services : Live(s) \subseteq Live(s)'
  PROVE  LifeInv'
<1>1. /\ Alone' => Alone
      /\ Whole' => Whole
      /\ Sound' => Sound
      /\ Sound => Whole
      /\ Whole => Alone
  BY DEF Alone, Whole, Sound
<1>2. Types' /\ PlansInv'
  BY DEF LifeInv, Types, PlansInv, PlanRight
<1>3. /\ OneLives => OneLives'
      /\ \A s \in Services : AllNew(s) => AllNew(s)'
      /\ \A s \in Services : Live(s) = {} => Live(s)' = {}
  BY ShrinkingKeeps
<1>4. /\ \A c \in Ctls : Active(c)' = Active(c) /\ Job(c)' = Job(c)
      /\ \A c \in Ctls : \A o, t : At(c, o, t)' <=> At(c, o, t)
  BY DEF Active, Job, At
<1>5. ASSUME NEW c \in Ctls, NEW t, At(c, "start", t) PROVE Job(c).of \in Services
  <2>1. cmd[c] \in CommandType /\ cmd[c].todo # <<>>
    BY <1>5 DEF LifeInv, Types, At
  <2>2. Job(c) \in JobType
    BY <2>1, TailOfPlan DEF CommandType, Job
  <2> QED
    BY <2>2 DEF JobType
<1>6. ASSUME Alone' PROVE AloneInv'
  <2>1. OneActive' /\ OneLives'
    BY <1>1, <1>3, <1>4, <1>6 DEF LifeInv, AloneInv, OneActive
  <2>2. ASSUME NEW c \in Ctls PROVE SpawnRight(c)'
    <3>1. SpawnRight(c)
      BY <1>1, <1>6 DEF LifeInv, AloneInv
    <3>2. ASSUME At(c, "start", "spawn") PROVE Live(Job(c).of)' = {}
      <4>1. PICK s \in Services : Job(c).of = s
        BY <1>5, <3>2
      <4>2. Live(s) = {}
        BY <3>1, <3>2, <4>1 DEF SpawnRight
      <4> QED
        BY <1>3, <1>4, <4>1, <4>2
    <3>3. ASSUME At(c, "start", "record"), NEW p \in Live(Job(c).of)'
          PROVE  p = cmd[c].pid /\ proc'[p].age = "new"
      <4>1. PICK s \in Services : Job(c).of = s
        BY <1>5, <3>3
      <4>2. p \in Live(s)'
        BY <1>4, <3>3, <4>1
      <4>3. p \in Live(s) /\ proc'[p].age = proc[p].age
        BY <4>2 DEF Shrinks
      <4> QED
        BY <3>1, <3>3, <4>1, <4>3 DEF SpawnRight
    <3> QED
      BY <1>4, <3>1, <3>2, <3>3 DEF SpawnRight
  <2>3. ASSUME NEW c \in Ctls PROVE RestartRight(c)'
    <3>1. RestartRight(c)
      BY <1>1, <1>6 DEF LifeInv, AloneInv
    <3> QED
      BY <1>3, <1>4, <3>1 DEF RestartRight
  <2> QED
    BY <2>1, <2>2, <2>3 DEF AloneInv
<1>7. ASSUME Whole' PROVE WholeInv'
  <2>1. WholeInv
    BY <1>1, <1>7 DEF LifeInv
  <2>2. FilesInv'
    BY <1>4, <2>1 DEF WholeInv, FilesInv, Shrinks
  <2>3. ASSUME NEW c \in Ctls PROVE StopRight(c)'
    BY <1>3, <1>4, <2>1 DEF WholeInv, StopRight
  <2> QED
    BY <2>2, <2>3 DEF WholeInv
<1>8. ASSUME Sound' PROVE SoundInv'
  <2>1. SoundInv /\ Sound /\ Alone
    BY <1>1, <1>8 DEF LifeInv
  <2>2. DyingInv'
    BY <1>4, <1>8, <2>1 DEF SoundInv, DyingInv
  <2>3. ASSUME NEW c \in Ctls PROVE UpRight(c)'
    <3>1. UpRight(c)
      BY <2>1 DEF SoundInv
    <3>2. ASSUME NoneDying PROVE UpRight(c)'
      <4>1. \A s \in Services : Live(s) \subseteq Live(s)'
        BY <1>8, <3>2
      <4>2. At(c, "start", "record") => cmd[c].pid \in Live(Job(c).of)'
        <5> SUFFICES ASSUME At(c, "start", "record")
                     PROVE  cmd[c].pid \in Live(Job(c).of)'
          OBVIOUS
        <5>1. PICK s \in Services : Job(c).of = s
          BY <1>5
        <5>2. cmd[c].pid \in Live(s)
          BY <3>1, <5>1 DEF UpRight
        <5> QED
          BY <1>4, <4>1, <5>1, <5>2
      <4>3. Active(c) /\ cmd[c].kind \in Restarts =>
              \A s \in Services \ Of(cmd[c].todo, "start") : Live(s)' # {}
        BY <3>1, <4>1 DEF UpRight
      <4> QED
        BY <1>4, <4>2, <4>3 DEF UpRight
    <3>3. ASSUME ~NoneDying PROVE UpRight(c)'
      <4>1. PICK d \in Ctls : At(d, "stop", "wait")
        BY <2>1, <3>3 DEF NoneDying, SoundInv, DyingInv
      <4>2. ~Active(c) \/ c = d
        BY <2>1, <4>1 DEF LifeInv, AloneInv, OneActive, At, Active
      <4>3. /\ Busy(d) /\ cmd[d].todo # <<>> /\ Job(d).op = "stop" /\ Job(d) = cmd[d].todo[1]
            /\ cmd[d].todo \in Seq(JobType) /\ ~At(d, "start", "record")
        BY <4>1, AtJob
      <4>4. Of(cmd[d].todo, "stop") # {} /\ PlanRight(d)
        BY <4>3, TailOfPlan DEF LifeInv, PlansInv
      <4>5. cmd[d].kind \in Restarts => Of(cmd[d].todo, "start") = Services
        BY <4>4 DEF PlanRight
      <4>6. ~Active(c) => ~At(c, "start", "record")
        BY DEF Active, At
      <4> QED
        BY <1>4, <4>2, <4>3, <4>5, <4>6 DEF UpRight
    <3> QED
      BY <3>2, <3>3
  <2> QED
    BY <2>2, <2>3 DEF SoundInv
<1> QED
  BY <1>2, <1>6, <1>7, <1>8 DEF LifeInv

(* The process p is gone or, if its service is not one, somebody's. *)
LEMMA OneProcEffect ==
  ASSUME ProcTypes, NEW p \in Pids, NEW new \in {Free, Stranger},
         proc[p].state \in {"dying", "free"} \/ new = Free,
         proc' = [proc EXCEPT ![p] = new]
  PROVE  /\ ProcTypes' /\ Shrinks
         /\ \A q \in Pids : q # p => proc'[q] = proc[q]
         /\ proc'[p].of \notin Services /\ proc'[p].state # "dying"
<1>1. /\ proc'[p] = new /\ \A q \in Pids : q # p => proc'[q] = proc[q]
      /\ proc' = [q \in Pids |-> proc'[q]]
  BY DEF ProcTypes
<1>2. /\ new \in ProcType /\ new.of \notin Services /\ new.state # "dying"
      /\ new.state = "free" <=> new = Free
  BY LifecycleAssumption DEF ProcType, Free, Stranger
<1>3. ProcTypes'
  BY <1>1, <1>2 DEF ProcTypes
<1>4. Shrinks
  BY <1>1, <1>2 DEF Shrinks, Live
<1> QED
  BY <1>1, <1>2, <1>3, <1>4

LEMMA BootKeeps == ASSUME LifeInv, NEW p \in Pids, Boot(p) PROVE LifeInv'
<1> DEFINE s == proc[p].of
<1>1. /\ proc[p].state = "booting" /\ UNCHANGED <<pidfile, cmd, remote, updatePid, faults>>
  BY DEF Boot, updateVars
<1>2. ProcTypes /\ Types
  BY DEF LifeInv, Types
<1>3. Sound' => Sound /\ Alone /\ AloneInv
  BY <1>1 DEF Sound, Alone, LifeInv
<1>4. "gate" \notin faults' => UpdatesInv'
  BY <1>1 DEF LifeInv, UpdatesInv, Busy
<1>5. ASSUME s \in Ported, Holder(s) # {}, proc' = [proc EXCEPT ![p] = Free] PROVE LifeInv'
  <2>1. /\ ProcTypes' /\ Shrinks
        /\ \A q \in Pids : q # p => proc'[q] = proc[q]
        /\ proc'[p].of \notin Services
    BY <1>2, <1>5, OneProcEffect
  <2>2. ASSUME Sound' PROVE ~NoneDying
    <3>1. PICK t \in Services : t = s
      BY <1>5, LifecycleAssumption
    <3>2. PICK h \in Pids : proc[h].of = t /\ proc[h].state \in {"serving", "dying"}
      BY <1>5, <3>1 DEF Holder
    <3>3. p \in Live(t) /\ h # p
      BY <1>1, <3>1, <3>2 DEF Live
    <3>4. h \notin Live(t)
      BY <1>3, <2>2, <3>3 DEF AloneInv, OneLives
    <3>5. proc[h].state = "dying"
      BY <3>2, <3>4 DEF Live
    <3> QED
      BY <3>2, <3>5 DEF NoneDying
  <2>3. \A q \in Pids : proc'[q].of \in Services => q # p
    BY <2>1
  <2> QED
    BY <1>1, <1>2, <1>4, <2>1, <2>2, <2>3, ProcessKeeps DEF Types
<1>6. ASSUME proc' = [proc EXCEPT ![p] = [proc[p] EXCEPT !.state = "serving"]]
      PROVE  LifeInv'
  <2>1. /\ proc'[p] = [proc[p] EXCEPT !.state = "serving"] /\ proc[p] \in ProcType
        /\ \A q \in Pids : q # p => proc'[q] = proc[q]
        /\ proc' = [q \in Pids |-> proc'[q]]
    BY <1>2, <1>6 DEF ProcTypes
  <2>2. /\ proc'[p].state = "serving" /\ proc'[p].of = s /\ proc'[p].age = proc[p].age
        /\ proc'[p] \in ProcType /\ proc'[p] # Free
    BY <2>1 DEF ProcType, Free
  <2>3. ProcTypes'
    <3>1. \A q \in Pids : /\ proc'[q] \in ProcType
                          /\ proc'[q].state = "free" <=> proc'[q] = Free
      BY <1>2, <2>1, <2>2 DEF ProcTypes
    <3> QED
      BY <2>1, <3>1 DEF ProcTypes
  <2>4. \A t \in Services : Live(t)' = Live(t)
    <3>1. \A q \in Pids : /\ proc'[q].of = proc[q].of
                          /\ proc'[q].state \in {"booting", "serving"} <=>
                               proc[q].state \in {"booting", "serving"}
      BY <1>1, <2>1, <2>2
    <3> QED
      BY <3>1 DEF Live
  <2>5. Shrinks
    BY <2>1, <2>2, <2>4 DEF Shrinks, Live
  <2>6. \A q \in Pids : proc'[q].state = "dying" => proc'[q] = proc[q]
    BY <2>1, <2>2
  <2> QED
    BY <1>1, <1>2, <1>4, <2>3, <2>4, <2>5, <2>6, ProcessKeeps DEF Types
<1>7. \/ s \in Ported /\ Holder(s) # {} /\ proc' = [proc EXCEPT ![p] = Free]
      \/ proc' = [proc EXCEPT ![p] = [proc[p] EXCEPT !.state = "serving"]]
  BY <1>2 DEF Boot, ProcTypes
<1> QED
  BY <1>5, <1>6, <1>7

LEMMA ExitKeeps == ASSUME LifeInv, NEW p \in Pids, Exit(p) PROVE LifeInv'
<1>1. /\ proc[p].state = "dying" /\ proc' = [proc EXCEPT ![p] = Free]
      /\ UNCHANGED <<pidfile, cmd, remote, updatePid, faults>>
  BY DEF Exit, updateVars
<1>2. ProcTypes /\ Types
  BY DEF LifeInv, Types
<1>3. "gate" \notin faults' => UpdatesInv'
  BY <1>1 DEF LifeInv, UpdatesInv, Busy
<1>4. /\ ProcTypes' /\ Shrinks
      /\ \A q \in Pids : q # p => proc'[q] = proc[q]
      /\ proc'[p].of \notin Services /\ proc'[p].state # "dying"
  BY <1>1, <1>2, OneProcEffect
<1>5. \A q \in Pids : proc'[q].state = "dying" => proc'[q] = proc[q]
  BY <1>4
<1>6. \A s \in Services : Live(s) \subseteq Live(s)'
  BY <1>1, <1>4 DEF Live
<1> QED
  BY <1>1, <1>2, <1>3, <1>4, <1>5, <1>6, ProcessKeeps DEF Types

LEMMA ServiceDiesKeeps == ASSUME LifeInv, NEW p \in Pids, ServiceDies(p) PROVE LifeInv'
<1>1. /\ proc' = [proc EXCEPT ![p] = Free] /\ faults' = faults \cup {"service"}
      /\ UNCHANGED <<pidfile, cmd, remote, updatePid>>
  BY DEF ServiceDies, Happens, updateVars
<1>2. ProcTypes /\ Types
  BY DEF LifeInv, Types
<1>3. "gate" \notin faults' => UpdatesInv'
  BY <1>1 DEF LifeInv, UpdatesInv, Busy
<1>4. ProcTypes' /\ Shrinks
  BY <1>1, <1>2, OneProcEffect
<1>5. ~Sound' /\ faults \subseteq faults'
  BY <1>1 DEF Sound
<1> QED
  BY <1>1, <1>2, <1>3, <1>4, <1>5, ProcessKeeps DEF Types

LEMMA PidReusedKeeps == ASSUME LifeInv, NEW p \in Pids, PidReused(p) PROVE LifeInv'
<1>1. /\ proc[p] = Free /\ proc' = [proc EXCEPT ![p] = Stranger]
      /\ faults' = faults \cup {"reuse"} /\ UNCHANGED <<pidfile, cmd, remote, updatePid>>
  BY DEF PidReused, Happens, updateVars
<1>2. ProcTypes /\ Types /\ proc[p].state = "free"
  BY <1>1 DEF LifeInv, Types, Free
<1>3. "gate" \notin faults' => UpdatesInv'
  BY <1>1 DEF LifeInv, UpdatesInv, Busy
<1>4. /\ ProcTypes' /\ Shrinks
      /\ \A q \in Pids : q # p => proc'[q] = proc[q]
      /\ proc'[p].of \notin Services /\ proc'[p].state # "dying"
  BY <1>1, <1>2, OneProcEffect
<1>5. \A q \in Pids : proc'[q].state = "dying" => proc'[q] = proc[q]
  BY <1>4
<1>6. \A s \in Services : Live(s) \subseteq Live(s)'
  BY <1>2, <1>4 DEF Live
<1>7. faults \subseteq faults'
  BY <1>1
<1> QED
  BY <1>1, <1>2, <1>3, <1>4, <1>5, <1>6, <1>7, ProcessKeeps DEF Types

LEMMA NoProcessMoves ==
  ASSUME LifeInv, UNCHANGED <<procVars, cmd>>, faults \subseteq faults',
         remote' \in Ctls \cup {NoPid}, updatePid' \in Ctls \cup {NoPid},
         "gate" \notin faults' => UpdatesInv'
  PROVE  LifeInv'
<1>1. /\ ProcTypes' /\ Shrinks /\ \A s \in Services : Live(s)' = Live(s)
      /\ proc' = proc /\ pidfile' = pidfile
  BY DEF procVars, LifeInv, Types, ProcTypes, Shrinks, Live
<1> QED
  BY <1>1, ProcessKeeps

LEMMA RemoteRecordKeeps == ASSUME LifeInv, RemoteRecord PROVE LifeInv'
<1> DEFINE there == \E p \in Live(Gate) : proc[p].age = "old"
<1>1. /\ remote # NoPid /\ remote' = NoPid
      /\ updatePid' = IF there THEN remote ELSE updatePid
      /\ faults' = IF there THEN faults ELSE faults \cup {"gate"}
      /\ UNCHANGED <<procVars, cmd>>
  BY DEF RemoteRecord
<1>2. remote \in Ctls \cup {NoPid} /\ updatePid \in Ctls \cup {NoPid} /\ NoPid \notin Ctls
  BY LifecycleAssumption DEF LifeInv, Types
<1> HIDE DEF there
<1>3. ASSUME "gate" \notin faults' PROVE UpdatesInv'
  <2>1. there /\ UpdatesInv
    BY <1>1, <1>3 DEF LifeInv
  <2>2. \A c \in Ctls : Busy(c)' = Busy(c)
    BY <1>1 DEF Busy
  <2> QED
    BY <1>1, <1>2, <2>1, <2>2 DEF UpdatesInv
<1> QED
  BY <1>1, <1>2, <1>3, NoProcessMoves
-----------------------------------------------------------------------------
(* Everything runs as a start has left it, or nothing does. *)
LEMMA LifeInvInit == ASSUME Init PROVE LifeInv
<1>1. /\ cmd = [c \in Ctls |-> NoCommand] /\ remote = NoPid /\ updatePid = NoPid /\ faults = {}
  BY DEF Init
<1>2. /\ \A c \in Ctls : cmd[c] = NoCommand
      /\ NoCommand.step = "idle" /\ NoCommand.kind = "none" /\ NoCommand.todo = <<>>
  BY <1>1 DEF NoCommand
<1>3. cmd \in [Ctls -> CommandType]
  <2>1. <<>> \in Seq(JobType)
    OBVIOUS
  <2>2. NoCommand \in CommandType
    BY <2>1 DEF NoCommand, CommandType, Step
  <2> QED
    BY <1>1, <2>2
<1>4. /\ ProcTypes /\ pidfile \in [Services -> Pids \cup {NoPid}]
      /\ \A s \in Services : \A p \in Live(s) : p = pidfile[s]
      /\ NoneDying
  <2>1. /\ Free \in ProcType /\ Free.state = "free" /\ Stranger.state = "serving"
        /\ \A s \in Services : Free.of # s
    BY LifecycleAssumption DEF ProcType, Free, Stranger
  <2>2. ASSUME proc = [p \in Pids |-> Free], pidfile = [s \in Services |-> NoPid]
        PROVE  /\ ProcTypes /\ pidfile \in [Services -> Pids \cup {NoPid}]
               /\ \A s \in Services : \A p \in Live(s) : p = pidfile[s]
               /\ NoneDying
    BY <2>1, <2>2 DEF ProcTypes, Live, NoneDying
  <2>3. ASSUME pidfile = CHOOSE f \in [Services -> Pids] : IsInjective(f),
               proc = [p \in Pids |-> IF p \in Range(pidfile)
                         THEN [Stranger EXCEPT !.of = AntiFunction(pidfile)[p]] ELSE Free]
        PROVE  /\ ProcTypes /\ pidfile \in [Services -> Pids \cup {NoPid}]
               /\ \A s \in Services : \A p \in Live(s) : p = pidfile[s]
               /\ NoneDying
    <3>1. pidfile \in [Services -> Pids]
      BY <2>3, LifecycleAssumption
    <3>2. ASSUME NEW p \in Range(pidfile)
          PROVE  AntiFunction(pidfile)[p] \in Services /\ pidfile[AntiFunction(pidfile)[p]] = p
      <4>1. DOMAIN pidfile = Services /\ \E s \in Services : pidfile[s] = p
        BY <3>1, <3>2 DEF Range
      <4>2. AntiFunction(pidfile)[p] =
              CHOOSE s \in Services : p \in Range(pidfile) => pidfile[s] = p
        BY <3>2, <4>1 DEF AntiFunction, Inverse
      <4> QED
        BY <3>2, <4>1, <4>2
    <3>3. ASSUME NEW p \in Pids, p \in Range(pidfile)
          PROVE  /\ proc[p] \in ProcType /\ proc[p].state = "serving" /\ proc[p] # Free
                 /\ proc[p].of \in Services /\ pidfile[proc[p].of] = p
      <4>1. proc[p] = [of |-> AntiFunction(pidfile)[p], state |-> "serving", age |-> "new"]
        BY <2>3, <3>3 DEF Stranger
      <4> QED
        BY <3>2, <3>3, <4>1 DEF ProcType, Free
    <3>4. ASSUME NEW p \in Pids, p \notin Range(pidfile) PROVE proc[p] = Free
      BY <2>3, <3>4
    <3>5. proc \in [Pids -> ProcType]
      <4>1. \A p \in Pids : proc[p] \in ProcType
        BY <2>1, <3>3, <3>4
      <4>2. proc = [p \in Pids |-> proc[p]]
        BY <2>3
      <4> QED
        BY <4>1, <4>2
    <3>6. ProcTypes
      BY <2>1, <3>3, <3>4, <3>5 DEF ProcTypes
    <3>7. \A s \in Services : \A p \in Live(s) : p = pidfile[s]
      BY <2>1, <3>3, <3>4 DEF Live
    <3>8. NoneDying
      BY <2>1, <3>3, <3>4 DEF NoneDying
    <3> QED
      BY <3>1, <3>6, <3>7, <3>8
  <2> QED
    BY <2>2, <2>3 DEF Init
<1>5. Types
  BY <1>1, <1>3, <1>4 DEF Types
<1>6. \A c \in Ctls : /\ ~Active(c) /\ ~Busy(c) /\ PlanRight(c)
                      /\ \A o, t : ~At(c, o, t)
  <2>1. Planned(<<>>)
    BY DEF Planned
  <2> QED
    BY <1>2, <2>1 DEF Active, Busy, PlanRight, At, Restarts
<1>7. PlansInv /\ UpdatesInv
  BY <1>1, <1>6 DEF PlansInv, UpdatesInv
<1>8. AloneInv
  BY <1>4, <1>6 DEF AloneInv, OneActive, OneLives, SpawnRight, RestartRight
<1>9. WholeInv
  BY <1>4, <1>6 DEF WholeInv, FilesInv, StopRight
<1>10. SoundInv
  BY <1>4, <1>6 DEF SoundInv, DyingInv, NoneDying, UpRight
<1> QED
  BY <1>5, <1>7, <1>8, <1>9, <1>10 DEF LifeInv

LEMMA LifeInvHolds == Spec => []LifeInv
<1>1. Init => LifeInv
  BY LifeInvInit
<1>2. LifeInv /\ [Next]_vars => LifeInv'
  <2> SUFFICES ASSUME LifeInv, [Next]_vars PROVE LifeInv'
    OBVIOUS
  <2>1. ASSUME NEW c \in Ctls, NEW k \in {"start", "stop", "onboard", "update"}, Begin(c, k)
        PROVE  LifeInv'
    BY <2>1, BeginKeeps
  <2>2. ASSUME NEW c \in Ctls, Ctl(c) PROVE LifeInv'
    <3>1. CASE StopSignal(c)
      BY <3>1, StopSignalKeeps
    <3>2. CASE StopFinish(c)
      BY <3>2, StopFinishKeeps
    <3>3. CASE StartCheck(c)
      BY <3>3, StartCheckKeeps
    <3>4. CASE \E p \in Pids : Spawn(c, p)
      BY <3>4, SpawnKeeps
    <3>5. CASE Record(c)
      BY <3>5, RecordKeeps
    <3>6. CASE Health(c)
      BY <3>6, HealthKeeps
    <3>7. CASE RunUpdater(c)
      BY <3>7, RunUpdaterKeeps
    <3> QED
      BY <2>2, <3>1, <3>2, <3>3, <3>4, <3>5, <3>6, <3>7 DEF Ctl
  <2>3. ASSUME NEW c \in Ctls, CtlDies(c) PROVE LifeInv'
    BY <2>3, CtlDiesKeeps
  <2>4. ASSUME NEW c \in Ctls, RemoteUpdate(c) PROVE LifeInv'
    BY <2>4, RemoteUpdateKeeps
  <2>5. ASSUME NEW p \in Pids, Boot(p) PROVE LifeInv'
    BY <2>5, BootKeeps
  <2>6. ASSUME NEW p \in Pids, Exit(p) PROVE LifeInv'
    BY <2>6, ExitKeeps
  <2>7. ASSUME NEW p \in Pids, ServiceDies(p) PROVE LifeInv'
    BY <2>7, ServiceDiesKeeps
  <2>8. ASSUME NEW p \in Pids, PidReused(p) PROVE LifeInv'
    BY <2>8, PidReusedKeeps
  <2>9. CASE RemoteRecord
    BY <2>9, RemoteRecordKeeps
  <2>10. CASE UNCHANGED vars
    <3>1. /\ UNCHANGED <<procVars, cmd, remote, updatePid, faults>>
          /\ remote \in Ctls \cup {NoPid} /\ updatePid \in Ctls \cup {NoPid}
      BY <2>10 DEF vars, updateVars, LifeInv, Types
    <3>2. "gate" \notin faults' => UpdatesInv'
      BY <3>1 DEF LifeInv, UpdatesInv, Busy
    <3> QED
      BY <3>1, <3>2, NoProcessMoves
  <2> QED
    BY <2>1, <2>2, <2>3, <2>4, <2>5, <2>6, <2>7, <2>8, <2>9, <2>10 DEF Next
<1> QED
  BY <1>1, <1>2, PTL DEF Spec

(* "Avoid duplicate lingering workers" (service_manager.py:125): whatever  *)
(* dies and whenever a command is cut short, no service has two processes, *)
(* as long as one command runs at a time: every Popen of start follows a   *)
(* sweep or the death of the process of the pid file.                      *)
THEOREM OneProcessEach == Spec => []OneProcess
<1>1. LifeInv => OneProcess
  <2> SUFFICES ASSUME LifeInv, Alone, NEW s \in Services PROVE Cardinality(Live(s)) <= 1
    BY DEF OneProcess, Alone
  <2>1. OneLives
    BY DEF LifeInv, AloneInv
  <2>2. CASE Live(s) = {}
    BY <2>2, FS_EmptySet
  <2>3. CASE Live(s) # {}
    <3>1. PICK p : p \in Live(s)
      BY <2>3
    <3>2. Live(s) = {p}
      BY <2>1, <3>1 DEF OneLives
    <3>3. Cardinality(Live(s)) = 1
      BY <3>2, FS_Singleton, Zenon
    <3> QED
      BY <3>3
  <2> QED
    BY <2>2, <2>3
<1> QED
  BY <1>1, LifeInvHolds, PTL

(* What a command that has come to its end has left undone: nothing *)
LEMMA NothingLeft ==
  ASSUME LifeInv, Alone, NEW c \in Ctls, cmd[c].step = "ended"
  PROVE  Active(c) /\ Of(cmd[c].todo, "stop") = {} /\ Of(cmd[c].todo, "start") = {}
<1>1. Active(c)
  BY DEF Active
<1>2. cmd[c].todo = <<>>
  BY DEF LifeInv, PlansInv, PlanRight
<1>3. \A op : Of(<<>>, op) = {}
  BY DEF Of
<1> QED
  BY <1>1, <1>2, <1>3

(* "Avoid stale old binaries" (service_runner.py:164): a restart that has  *)
(* ended has left no process from before it, though a stop trusts the pid  *)
(* file and a start takes "already_running" for an answer; and neither has *)
(* a stop, unless an earlier command was cut short before it wrote the     *)
(* pid file.                                                               *)
THEOREM TheOldAreGone == Spec => []OldAreGone
<1>1. LifeInv => OldAreGone
  <2> SUFFICES ASSUME LifeInv, Alone, NEW c \in Ctls, cmd[c].step = "ended",
                      \/ cmd[c].kind \in {"start", "update", "remote"}
                      \/ cmd[c].kind = "stop" /\ "ctl" \notin faults,
                      NEW s \in Services, NEW p \in Live(s)
               PROVE  proc[p].age = "new"
    BY DEF OldAreGone, Alone
  <2>1. Active(c) /\ Of(cmd[c].todo, "stop") = {} /\ Of(cmd[c].todo, "start") = {}
    BY NothingLeft
  <2>2. CASE cmd[c].kind \in Restarts
    <3>1. RestartRight(c)
      BY DEF LifeInv, AloneInv
    <3> QED
      BY <2>1, <2>2, <3>1 DEF RestartRight, AllNew
  <2>3. CASE cmd[c].kind = "stop" /\ "ctl" \notin faults
    <3>1. StopRight(c)
      BY <2>3 DEF LifeInv, WholeInv, Whole
    <3> QED
      BY <2>1, <2>3, <3>1 DEF StopRight, AllNew
  <2> QED
    BY <2>2, <2>3 DEF Restarts
<1> QED
  BY <1>1, LifeInvHolds, PTL

(* "Update completed" (system.py:113), cmd_start: a restart that has       *)
(* come to its end without a fault leaves every service with a process,    *)
(* though the health it waits for is that of whoever holds the port: what  *)
(* it has stopped is dead before it starts anything, so no new process     *)
(* finds its port taken.                                                   *)
THEOREM TheStartedAreUp == Spec => []StartedIsUp
<1>1. LifeInv => StartedIsUp
  <2> SUFFICES ASSUME LifeInv, Sound, NEW c \in Ctls, cmd[c].step = "ended",
                      cmd[c].kind \in Restarts, NEW s \in Services
               PROVE  Live(s) # {}
    BY DEF StartedIsUp, Sound, Restarts
  <2>1. Alone
    BY DEF Sound, Alone
  <2>2. Active(c) /\ Of(cmd[c].todo, "start") = {}
    BY <2>1, NothingLeft
  <2>3. UpRight(c)
    BY DEF LifeInv, SoundInv
  <2> QED
    BY <2>2, <2>3 DEF UpRight
<1> QED
  BY <1>1, LifeInvHolds, PTL

(* "already running" (cli gate, line 57): /update is carried out by one    *)
(* command at a time, though remote_update.pid is written after the spawn  *)
(* and each update kills the gate that started it, unless that kill comes  *)
(* before the write.                                                       *)
THEOREM OneUpdateAtATime == Spec => []OneRemoteUpdate
<1>1. LifeInv => OneRemoteUpdate
  <2> SUFFICES ASSUME LifeInv, "gate" \notin faults, NEW c \in Ctls, NEW d \in Ctls,
                      cmd[c].kind = "remote", Busy(c), cmd[d].kind = "remote", Busy(d)
               PROVE  c = d
    BY DEF OneRemoteUpdate
  <2>1. UpdatesInv /\ NoPid \notin Ctls
    BY LifecycleAssumption DEF LifeInv
  <2> QED
    BY <2>1 DEF UpdatesInv
<1> QED
  BY <1>1, LifeInvHolds, PTL
=============================================================================
