-------------------------- MODULE ServiceLifecycle --------------------------
(***************************************************************************)
(* How the commands of sheriff-ctl start and stop the services.            *)
(*                                                                         *)
(* A command is a list of jobs, each a call of ServiceManager for one      *)
(* service.  Nothing keeps two commands apart: the user types one while    *)
(* another runs, and /update in the chat makes sheriff-cli-gate spawn one  *)
(* more.  All they share is the pid files and the processes themselves, so *)
(* a pid file is checked in one step and acted on in the next.             *)
(*                                                                         *)
(* A process that gets SIGTERM or is matched by pkill -f takes its time to *)
(* die, and holds its port until then.  A service that finds its port      *)
(* taken exits.  The telegram listener has no port.                        *)
(***************************************************************************)
EXTENDS Naturals, Sequences, FiniteSets, SequencesExt

CONSTANTS
  Order,     \* the services, in the order they are started
  Ported,    \* those that serve a port
  Gate,      \* sheriff-cli-gate, which starts remote updates
  Pids,      \* process ids
  NoPid,     \* a pid file that is not there
  Ctls,      \* runs of sheriff-ctl, named by their process ids
  MaxCommands,  \* bound: how many commands there are
  MaxFaults     \* bound: how many kinds of fault a behaviour has

Services == {Order[i] : i \in 1..Len(Order)}

(* No service is listed twice, and there are pids for all of them. *)
ASSUME LifecycleAssumption ==
  /\ Order \in Seq(Services) /\ IsInjective(Order)
  /\ "nobody" \notin Services /\ "stranger" \notin Services
  /\ \E f \in [Services -> Pids] : IsInjective(f)
  /\ Ported \subseteq Services /\ Gate \in Ported
  /\ NoPid \notin Pids \cup Ctls
  /\ MaxCommands \in Nat /\ MaxFaults \in Nat

VARIABLES
  proc,       \* of each pid, the service and the state of the process
  pidfile,    \* the pid file of each service
  cmd,        \* the command each run of sheriff-ctl carries out
  remote,     \* the run that the cli gate has spawned and not recorded yet
  updatePid,  \* remote_update.pid
  faults,     \* history: what has gone wrong
  commands    \* how many commands there were

procVars == <<proc, pidfile>>
updateVars == <<remote, updatePid>>
vars == <<procVars, cmd, updateVars, faults, commands>>
-----------------------------------------------------------------------------
(* A process is old when it is there as a command begins. *)
Free == [of |-> "nobody", state |-> "free", age |-> "new"]
Stranger == [of |-> "stranger", state |-> "serving", age |-> "new"]

Live(s) == {p \in Pids : proc[p].of = s /\ proc[p].state \in {"booting", "serving"}}
Alive(p) == p \in Pids /\ proc[p] # Free

(* Each kind of fault happens once, none together with overlapping commands. *)
Happens(f) ==
  /\ f \notin faults /\ Cardinality(faults) < MaxFaults
  /\ "overlap" \notin faults /\ (f = "overlap" => faults = {})
  /\ faults' = faults \cup {f}

Jobs(op, seq) == [i \in 1..Len(seq) |-> [op |-> op, of |-> seq[i]]]

Stops == Jobs("stop", Reverse(Order))
Starts == Jobs("start", Order)

(* cmd_start waits for each service's health before it starts the next. *)
StartsAndWaits ==
  [i \in 1..(2 * Len(Order)) |->
     [op |-> IF i % 2 = 1 THEN "start" ELSE "health", of |-> Order[(i + 1) \div 2]]]

(* Mutant: what is to be restarted is not stopped first. *)
Program_StartOnly(kind) == IF kind = "stop" THEN Stops ELSE StartsAndWaits

(* cmd_start, cmd_stop, the end of cmd_onboard, cmd_factory_reset, and the *)
(* restart that cmd_update ends with.                                      *)
Program(kind) ==
  CASE kind \in {"start", "update", "remote"} -> Stops \o StartsAndWaits
    [] kind = "stop" -> Stops
    [] kind = "onboard" -> Starts

NoCommand == [kind |-> "none", step |-> "idle", pid |-> NoPid, todo |-> <<>>]

Busy(c) == c \in Ctls /\ cmd[c].step \notin {"idle", "ended"}

(* Two commands at work on the services at once *)
Overlap(c) == \E d \in Ctls \ {c} : Busy(d)

Begun(kind) ==
  [kind |-> kind, todo |-> Program(kind), pid |-> NoPid,
   step |-> IF kind \in {"update", "remote"} THEN "update" ELSE "next"]

Starting(c, kind) ==
  /\ ~Busy(c)
  /\ commands < MaxCommands /\ commands' = commands + 1
  /\ IF Overlap(c) /\ "overlap" \notin faults THEN Happens("overlap") ELSE UNCHANGED faults
  /\ cmd' = [d \in Ctls |-> IF d = c THEN Begun(kind)
                            ELSE IF Busy(d) THEN cmd[d] ELSE NoCommand]
  /\ proc' = [p \in Pids |-> IF proc[p].of \in Services
                             THEN [proc[p] EXCEPT !.age = "old"] ELSE proc[p]]

Job(c) == Head(cmd[c].todo)
At(c, op, step) == cmd[c].step = step /\ cmd[c].todo # <<>> /\ Job(c).op = op

Goto(c, step) == cmd' = [cmd EXCEPT ![c].step = step]

(* The job is done: on to the next. *)
Done(c) ==
  cmd' = [cmd EXCEPT ![c].todo = Tail(@), ![c].pid = NoPid,
                     ![c].step = IF Len(cmd[c].todo) = 1 THEN "ended" ELSE "next"]

Fails(c) == cmd' = [cmd EXCEPT ![c] = NoCommand]

Signalled(ps) ==
  [p \in Pids |-> IF p \in ps THEN [proc[p] EXCEPT !.state = "dying"] ELSE proc[p]]

(* Mutant: only the process of the pid file is looked for. *)
Swept_Not(s) == proc

(* _kill_by_name_fallback: pkill -f of the service's command line *)
Swept(s) == Signalled(Live(s))

(* Nothing runs, or everything does, as a start has left it. *)
Init ==
  /\ \/ /\ proc = [p \in Pids |-> Free]
        /\ pidfile = [s \in Services |-> NoPid]
     \/ /\ pidfile = CHOOSE f \in [Services -> Pids] : IsInjective(f)
        /\ proc = [p \in Pids |-> IF p \in Range(pidfile)
                    THEN [Stranger EXCEPT !.of = AntiFunction(pidfile)[p]] ELSE Free]
  /\ cmd = [c \in Ctls |-> NoCommand]
  /\ remote = NoPid /\ updatePid = NoPid
  /\ faults = {} /\ commands = 0
-----------------------------------------------------------------------------
(* The user runs a command in a terminal, one at a time. *)
Begin(c, kind) ==
  /\ \A d \in Ctls : Busy(d) => cmd[d].kind = "remote"
  /\ Starting(c, kind)
  /\ UNCHANGED <<pidfile, updateVars>>

(* Mutant: the signalled process is not waited for. *)
StopSignal_NoWait(c) ==
  LET s == Job(c).of
      p == pidfile[s]
  IN  /\ At(c, "stop", "next")
      /\ pidfile' = [pidfile EXCEPT ![s] = NoPid]
      /\ proc' = IF p = NoPid THEN Swept(s) ELSE IF Alive(p) THEN Signalled({p}) ELSE proc
      /\ Done(c)
      /\ UNCHANGED <<updateVars, faults, commands>>

(* ServiceManager.stop, up to the signal: no pid file, a dead process, or  *)
(* a process to wait for, whoever's it is by now.                          *)
StopSignal(c) ==
  LET s == Job(c).of
      p == pidfile[s]
  IN  /\ At(c, "stop", "next")
      /\ \/ p = NoPid /\ proc' = Swept(s) /\ Done(c) /\ UNCHANGED pidfile
         \/ /\ p # NoPid /\ ~Alive(p)
            /\ pidfile' = [pidfile EXCEPT ![s] = NoPid]
            /\ Done(c) /\ UNCHANGED proc
         \/ /\ Alive(p)
            /\ proc' = Signalled({p})
            /\ cmd' = [cmd EXCEPT ![c].pid = p, ![c].step = "wait"]
            /\ UNCHANGED pidfile
      /\ UNCHANGED <<updateVars, faults, commands>>

(* At the end of three seconds the process is gone, or it gets SIGKILL, or *)
(* it dies between the last look and os.kill, which then raises.  Whatever *)
(* else looks like the service is killed, and the pid file removed.        *)
StopFinish(c) ==
  LET s == Job(c).of
      p == cmd[c].pid
  IN  /\ At(c, "stop", "wait")
      /\ \/ /\ proc' = [Swept(s) EXCEPT ![p] = Free]
            /\ pidfile' = [pidfile EXCEPT ![s] = NoPid]
            /\ Done(c)
         \/ /\ Alive(p)
            /\ proc' = [proc EXCEPT ![p] = Free]
            /\ Fails(c) /\ UNCHANGED pidfile
      /\ UNCHANGED <<updateVars, faults, commands>>
-----------------------------------------------------------------------------
(* Mutant: a pid file is taken for a process. *)
StartCheck_Trusting(c) ==
  LET s == Job(c).of
  IN  /\ At(c, "start", "next")
      /\ \/ pidfile[s] # NoPid /\ Done(c) /\ UNCHANGED proc
         \/ pidfile[s] = NoPid /\ proc' = Swept(s) /\ Goto(c, "spawn")
      /\ UNCHANGED <<pidfile, updateVars, faults, commands>>

(* ServiceManager.start: "already_running" if the process of the pid file  *)
(* lives; otherwise whatever looks like the service is killed first.       *)
StartCheck(c) ==
  LET s == Job(c).of
  IN  /\ At(c, "start", "next")
      /\ \/ Alive(pidfile[s]) /\ Done(c) /\ UNCHANGED proc
         \/ ~Alive(pidfile[s]) /\ proc' = Swept(s) /\ Goto(c, "spawn")
      /\ UNCHANGED <<pidfile, updateVars, faults, commands>>

Spawn(c, p) ==
  /\ At(c, "start", "spawn")
  /\ proc[p] = Free
  /\ proc' = [proc EXCEPT ![p] = [of |-> Job(c).of, state |-> "booting", age |-> "new"]]
  /\ cmd' = [cmd EXCEPT ![c].pid = p, ![c].step = "record"]
  /\ UNCHANGED <<pidfile, updateVars, faults, commands>>

Record(c) ==
  /\ At(c, "start", "record")
  /\ pidfile' = [pidfile EXCEPT ![Job(c).of] = cmd[c].pid]
  /\ Done(c)
  /\ UNCHANGED <<proc, updateVars, faults, commands>>

Holder(s) == {p \in Pids : proc[p].of = s /\ proc[p].state \in {"serving", "dying"}}

(* _wait_service_health: whoever holds the port answers.  After ten        *)
(* seconds without an answer the error ends the command.                   *)
Health(c) ==
  /\ At(c, "health", "next")
  /\ \/ /\ Job(c).of \in Ported => Holder(Job(c).of) # {}
        /\ Done(c)
     \/ Job(c).of \in Ported /\ Fails(c)
  /\ UNCHANGED <<procVars, updateVars, faults, commands>>
-----------------------------------------------------------------------------
(* The process has bound its port, or found it taken. *)
Boot(p) ==
  LET s == proc[p].of
  IN  /\ proc[p].state = "booting"
      /\ proc' = [proc EXCEPT ![p] =
                    IF s \in Ported /\ Holder(s) # {} THEN Free
                    ELSE [@ EXCEPT !.state = "serving"]]
      /\ UNCHANGED <<pidfile, cmd, updateVars, faults, commands>>

Exit(p) ==
  /\ proc[p].state = "dying"
  /\ proc' = [proc EXCEPT ![p] = Free]
  /\ UNCHANGED <<pidfile, cmd, updateVars, faults, commands>>

ServiceDies(p) ==
  /\ proc[p].of \in Services
  /\ Happens("service")
  /\ proc' = [proc EXCEPT ![p] = Free]
  /\ UNCHANGED <<pidfile, cmd, updateVars, commands>>

(* The pid of a dead service is given to a process of somebody else. *)
PidReused(p) ==
  /\ proc[p] = Free /\ \E s \in Services : pidfile[s] = p
  /\ Happens("reuse")
  /\ proc' = [proc EXCEPT ![p] = Stranger]
  /\ UNCHANGED <<pidfile, cmd, updateVars, commands>>

(* Ctrl-C *)
CtlDies(c) ==
  /\ Busy(c)
  /\ Happens("ctl")
  /\ Fails(c)
  /\ UNCHANGED <<procVars, updateVars, commands>>
-----------------------------------------------------------------------------
(* /update in the chat: _start_remote_update checks remote_update.pid and  *)
(* spawns `sheriff-ctl update` in a session of its own.                    *)
RemoteUpdate(c) ==
  /\ \E p \in Live(Gate) : proc[p].state = "serving"
  /\ remote = NoPid
  /\ updatePid = NoPid \/ ~Busy(updatePid)
  /\ Starting(c, "remote")
  /\ remote' = c /\ updatePid' = NoPid
  /\ UNCHANGED pidfile

(* Mutant: the pid is not written down. *)
RemoteRecord_Not ==
  /\ remote # NoPid
  /\ remote' = NoPid
  /\ UNCHANGED <<procVars, cmd, updatePid, faults, commands>>

(* The pid is written down, unless the gate that spawned it is killed      *)
(* before that.                                                            *)
RemoteRecord ==
  LET there == \E p \in Live(Gate) : proc[p].age = "old"
  IN  /\ remote # NoPid
      /\ remote' = NoPid
      /\ updatePid' = IF there THEN remote ELSE updatePid
      /\ faults' = IF there THEN faults ELSE faults \cup {"gate"}
      /\ UNCHANGED <<procVars, cmd, commands>>

(* updater.run: git pull, pip install, and the applied versions; the first *)
(* that fails, or the death of sheriff-updater, ends the command.          *)
RunUpdater(c) ==
  /\ cmd[c].step = "update"
  /\ Goto(c, "next") \/ Fails(c)
  /\ UNCHANGED <<procVars, updateVars, faults, commands>>

Ctl(c) ==
  \/ StopSignal(c) \/ StopFinish(c)
  \/ StartCheck(c) \/ (\E p \in Pids : Spawn(c, p)) \/ Record(c)
  \/ Health(c) \/ RunUpdater(c)

Next ==
  \/ \E c \in Ctls : \/ \E k \in {"start", "stop", "onboard", "update"} : Begin(c, k)
                     \/ Ctl(c) \/ CtlDies(c) \/ RemoteUpdate(c)
  \/ \E p \in Pids : Boot(p) \/ Exit(p) \/ ServiceDies(p) \/ PidReused(p)
  \/ RemoteRecord

Spec == Init /\ [][Next]_vars
-----------------------------------------------------------------------------
Step == {"idle", "next", "wait", "spawn", "record", "update", "ended"}

TypeOK ==
  /\ proc \in [Pids -> [of : Services, state : {"booting", "serving", "dying"},
                        age : {"old", "new"}]
                  \cup {Free, Stranger, [Stranger EXCEPT !.state = "dying"]}]
  /\ pidfile \in [Services -> Pids \cup {NoPid}]
  /\ \A c \in Ctls : /\ cmd[c].step \in Step
                     /\ cmd[c].pid \in Pids \cup {NoPid}
                     /\ Busy(c) => cmd[c].todo # <<>>
  /\ remote \in Ctls \cup {NoPid} /\ updatePid \in Ctls \cup {NoPid}

(* "Avoid duplicate lingering workers" (service_manager.py:125): there is  *)
(* one process of a service, whatever dies in between, commands included,  *)
(* as long as one command runs at a time.                                  *)
OneProcess ==
  "overlap" \notin faults => \A s \in Services : Cardinality(Live(s)) <= 1

(* "avoid stale old binaries" (service_runner.py:164): once a command has  *)
(* restarted the services, no process from before it is left; nor once one *)
(* has stopped them, unless a start was cut short before it wrote the pid  *)
(* file, which stop then trusts.                                           *)
OldAreGone ==
  "overlap" \notin faults =>
    \A c \in Ctls :
      /\ cmd[c].step = "ended"
      /\ \/ cmd[c].kind \in {"start", "update", "remote"}
         \/ cmd[c].kind = "stop" /\ "ctl" \notin faults
      => \A s \in Services : \A p \in Live(s) : proc[p].age = "new"

(* "Update completed" (system.py:113), and the end of cmd_start: a start   *)
(* that has come to its end leaves every service running, though the       *)
(* health it waits for is that of whoever has the port.  All are stopped   *)
(* first, so not even a pid that is in use again misleads it.              *)
StartedIsUp ==
  \A c \in Ctls :
    cmd[c].step = "ended" /\ cmd[c].kind \in {"start", "update", "remote"}
      /\ faults \subseteq {"reuse", "gate"}
    => \A s \in Services : Live(s) # {}

(* "Onboarding complete. Services started": onboarding stops nothing and   *)
(* trusts the pid files it finds, those of a stop that failed included.    *)
(* One that holds the pid of somebody else's process misleads it           *)
(* (ServiceManager.start, lines 124 to 126), hence no "reuse" here.        *)
OnboardedIsUp ==
  \A c \in Ctls :
    cmd[c].step = "ended" /\ cmd[c].kind = "onboard" /\ faults \subseteq {"gate"}
    => \A s \in Services : Live(s) # {}

(* /update runs once at a time ("already running", cli gate line 57),      *)
(* though each update kills the gate that started it.                      *)
OneRemoteUpdate ==
  "gate" \notin faults =>
    \A c, d \in Ctls : cmd[c].kind = "remote" /\ Busy(c) /\ cmd[d].kind = "remote"
                        /\ Busy(d) => c = d

=============================================================================
