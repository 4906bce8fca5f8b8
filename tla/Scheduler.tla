----------------------------- MODULE Scheduler ------------------------------
(***************************************************************************)
(* sheriff-scheduler: the daily update and the heartbeat, whose state is   *)
(* maintenance_state.json.                                                 *)
(*                                                                         *)
(* The service's own loop runs what is due; "sheriff call" can run it too, *)
(* due or not, beside the loop.  A run reads the file once, and writes its *)
(* copy back whole, whatever the other has written in between.             *)
(*                                                                         *)
(* Time is kept as ages: how long ago a job has run, up to its interval.   *)
(*                                                                         *)
(* Names that other components use too carry this module's:                *)
(* GatewayQueueProofs extends it together with GatewayQueue.               *)
(***************************************************************************)
EXTENDS Naturals

CONSTANTS
  DailyInterval,      \* in ticks
  HeartbeatInterval,
  MaxCalls,           \* bound: calls of scheduler.run_due
  MaxCrashes          \* bound: how often the process dies

ASSUME SchedulerAssumption ==
  /\ DailyInterval \in Nat \ {0} /\ HeartbeatInterval \in Nat \ {0}
  /\ MaxCalls \in Nat /\ MaxCrashes \in Nat

Jobs == {"daily_update", "heartbeat"}
Runs == {"loop", "call"}

Interval == [j \in Jobs |-> IF j = "heartbeat" THEN HeartbeatInterval ELSE DailyInterval]

VARIABLES
  file,   \* maintenance_state.json
  whole,  \* "no" once a crash has left it half written
  run,    \* the run of the loop and the one that was called for
  done,   \* history: Codex has worked for the job since it was last due
  cut,    \* history: a crash has cut a daily update short, and none was begun since
  calls, crashes

schedulerVars == <<file, whole, run, done, cut, calls, crashes>>
-----------------------------------------------------------------------------
NeverRun == [j \in Jobs |-> [status |-> "idle", age |-> Interval[j]]]

Due(state, j) == state[j].age = Interval[j]

(* at: "queue" asks the gateway, "turn" has Codex work; heartbeat: whether *)
(* it was due when the run began                                           *)
Resting == [at |-> "none", job |-> "none", forced |-> "no", heartbeat |-> "no",
            copy |-> NeverRun]

SchedulerInit ==
  /\ file = NeverRun /\ whole = "yes"
  /\ run = [r \in Runs |-> Resting]
  /\ done = [j \in Jobs |-> "no"]
  /\ cut = "no" /\ calls = 0 /\ crashes = 0

(* After a step in which Codex has worked for the jobs in worked. *)
Remember(worked) ==
  done' = [j \in Jobs |-> IF Due(file', j) THEN "no"
                          ELSE IF j \in worked THEN "yes" ELSE done[j]]

(* _run_job: the job is running, which is saved before the first request. *)
Job(r, base, j) ==
  LET copy == [base.copy EXCEPT ![j].status = "running"]
  IN  /\ run' = [run EXCEPT ![r] = [base EXCEPT !.at = "queue", !.job = j, !.copy = copy]]
      /\ file' = copy
      /\ cut' = IF j = "daily_update" THEN "no" ELSE cut

Rest(r) == run' = [run EXCEPT ![r] = Resting]

(* _run_due_jobs after the daily update *)
Heartbeat(r, base) ==
  IF base.copy["daily_update"].status # "running" /\ base.heartbeat = "yes"
  THEN Job(r, base, "heartbeat")
  ELSE Rest(r) /\ file' = base.copy /\ UNCHANGED cut

YesIf(b) == IF b THEN "yes" ELSE "no"

(* _run_due_jobs: what is due is decided by what the file says now.  A     *)
(* file that cannot be read raises, here and at the next poll.             *)
Begin(r, forced) ==
  LET base == [Resting EXCEPT !.copy = file, !.forced = forced,
                              !.heartbeat = YesIf(forced = "yes" \/ Due(file, "heartbeat"))]
  IN  /\ run[r].at = "none"
      /\ whole = "yes"
      /\ IF forced = "yes" \/ Due(file, "daily_update")
         THEN Job(r, base, "daily_update")
         ELSE Heartbeat(r, base)
      /\ Remember({})
      /\ UNCHANGED <<whole, crashes>>

Poll == Begin("loop", "no") /\ UNCHANGED calls

Call(forced) == calls < MaxCalls /\ calls' = calls + 1 /\ Begin("call", forced)

(* The end of a job: its copy is saved, and the heartbeat comes next. *)
Ends(r, status, age) ==
  LET base == [run[r] EXCEPT !.copy[run[r].job] = [status |-> status, age |-> age]]
  IN  IF run[r].job = "daily_update" THEN Heartbeat(r, base)
      ELSE Rest(r) /\ file' = base.copy /\ UNCHANGED cut

Age(r) == run[r].copy[run[r].job].age

(* gateway.queue.status says that nobody has a turn. *)
GatewayFree(r) ==
  /\ run[r].at = "queue"
  /\ run' = [run EXCEPT ![r].at = "turn"]
  /\ UNCHANGED <<file, whole, done, cut, calls, crashes>>

(* Mutant: a skipped job is still marked as running. *)
GatewayBusy_StillRunning(r) ==
  /\ run[r].at = "queue"
  /\ Rest(r) /\ UNCHANGED <<file, done, cut>>
  /\ UNCHANGED <<whole, calls, crashes>>

(* Somebody has a turn: the job is skipped, and due again at the next poll. *)
GatewayBusy(r) ==
  /\ run[r].at = "queue"
  /\ Ends(r, "idle", Age(r))
  /\ Remember({})
  /\ UNCHANGED <<whole, calls, crashes>>

(* Codex has answered. *)
Ran(r) ==
  /\ run[r].at = "turn"
  /\ Ends(r, "idle", 0)
  /\ Remember({run[r].job})
  /\ UNCHANGED <<whole, calls, crashes>>

(* The host answers with an error frame, which nobody looks at: the file   *)
(* says that the job has run (lines 106 to 112).                           *)
RefusedIsRan(r) ==
  /\ run[r].at = "turn"
  /\ Ends(r, "idle", 0)
  /\ Remember({})
  /\ UNCHANGED <<whole, calls, crashes>>

(* Mutant: the exception leaves run_forever. *)
Fails_LoopDies(r) ==
  /\ run[r].at \in {"queue", "turn"}
  /\ file' = [run[r].copy EXCEPT ![run[r].job].status = "error"]
  /\ run' = [run EXCEPT ![r].at = "dead"]
  /\ UNCHANGED <<whole, done, cut, calls, crashes>>

(* A request raises.  The error is saved and raised: the heartbeat is not  *)
(* looked at, and the daily update is due again at the next poll.          *)
Fails(r) ==
  /\ run[r].at \in {"queue", "turn"}
  /\ file' = [run[r].copy EXCEPT ![run[r].job].status = "error"]
  /\ Rest(r)
  /\ Remember({})
  /\ UNCHANGED <<whole, cut, calls, crashes>>

(* The process dies and is started again, perhaps in the middle of a write. *)
Crash ==
  /\ crashes < MaxCrashes /\ crashes' = crashes + 1
  /\ \E r \in Runs : run[r].at # "none"
  /\ run' = [r \in Runs |-> Resting]
  /\ cut' = IF \E r \in Runs : run[r].job = "daily_update" THEN "yes" ELSE cut
  /\ whole' \in {whole, "no"}
  /\ UNCHANGED <<file, done, calls>>

Older(state) == [j \in Jobs |-> [state[j] EXCEPT !.age = IF @ < Interval[j] THEN @ + 1 ELSE @]]

(* Time passes, for the last_run_at of the file and of the copies alike. *)
Tick ==
  /\ file' = Older(file)
  /\ run' = [r \in Runs |-> IF run[r].at = "none" THEN run[r]
                            ELSE [run[r] EXCEPT !.copy = Older(@)]]
  /\ Remember({})
  /\ UNCHANGED <<whole, cut, calls, crashes>>

SchedulerNext ==
  \/ Poll
  \/ \E forced \in {"yes", "no"} : Call(forced)
  \/ \E r \in Runs : GatewayFree(r) \/ GatewayBusy(r) \/ Ran(r) \/ RefusedIsRan(r)
                    \/ Fails(r)
  \/ Crash \/ Tick

(* The loop polls for ever, every request ends, and time passes. *)
SchedulerFairness ==
  /\ WF_schedulerVars(Poll)
  /\ \A r \in Runs : WF_schedulerVars(GatewayFree(r) \/ GatewayBusy(r) \/ Fails(r))
                     /\ WF_schedulerVars(Ran(r) \/ RefusedIsRan(r) \/ Fails(r))
  /\ WF_schedulerVars(Tick)

SchedulerSpec == SchedulerInit /\ [][SchedulerNext]_schedulerVars /\ SchedulerFairness
-----------------------------------------------------------------------------
JobState == [Jobs -> [status : {"idle", "running", "error"}, age : Nat]]

SchedulerTypeOK ==
  /\ file \in JobState /\ \A j \in Jobs : file[j].age <= Interval[j]
  /\ whole \in {"yes", "no"} /\ cut \in {"yes", "no"}
  /\ done \in [Jobs -> {"yes", "no"}]
  /\ \A r \in Runs : run[r].at \in {"none", "queue", "turn"} /\ run[r].copy \in JobState

(* Heartbeats are skipped for a daily update that the file says is running *)
(* (line 64): then one is in progress, or was cut short by a crash, even   *)
(* when the copies of two runs overwrite each other.                       *)
RunningIsRun ==
  file["daily_update"].status = "running" =>
    cut = "yes" \/ \E r \in Runs : run[r].job = "daily_update"

(* For a job that is due Codex is put to work, also after a crash in the   *)
(* middle of one: that the file says it has run is not enough.  Excepted   *)
(* are requests of jobs that go on failing or being refused, users that go *)
(* on having turns, and a file that cannot be read any more (run_forever,  *)
(* lines 46 to 52).                                                        *)
DueIsRun ==
  \/ \A j \in Jobs : Due(file, j) ~> \/ ~Due(file, j) /\ done[j] = "yes"
                                    \/ whole = "no"
  \/ \E r \in Runs :
       []<><<GatewayBusy(r) \/ RefusedIsRan(r) \/ Fails(r)>>_schedulerVars
=============================================================================
