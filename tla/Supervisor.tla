----------------------------- MODULE Supervisor -----------------------------
(***************************************************************************)
(* The master process (src/server.zig): it forks one worker per processor  *)
(* and the CLI process, then monitors each of them from a job of a thread  *)
(* pool, and forks a replacement for each that ends.                       *)
(*                                                                         *)
(* Processes are named by numbers in the order of their forks, so that 1   *)
(* .. CpuCount are the workers of the first generation.                    *)
(***************************************************************************)
EXTENDS Integers, FiniteSets

CONSTANTS
  CpuCount,        \* std.Thread.getCpuCount()
  MaxFailures,     \* bound: failures of workers and exits of the CLI
  MaxForkFailures  \* bound: failed forks

ASSUME CountAssumption ==
  CpuCount \in Nat \ {0} /\ MaxFailures \in Nat /\ MaxForkFailures \in Nat

Slots == 1 .. CpuCount                       \* indexes of the workers array
Pids == 1 .. (2 * CpuCount + MaxFailures)    \* enough for every replacement
CliJob == 0
Jobs == Slots \union {CliJob}

VARIABLES
  master,          \* where Server.run is
  workers,         \* the array of worker pids; 0 where not yet written
  status,          \* of each worker process
  slot,            \* the index each worker process was forked for
  cli,             \* status of the CLI process
  job,             \* where each monitoring job is
  pid,             \* the local pid of each worker's job
  failures, forkFailures

masterVars == <<master, workers>>
processVars == <<status, slot>>
jobVars == <<job, pid>>
budgetVars == <<failures, forkFailures>>
vars == <<masterVars, processVars, cli, jobVars, budgetVars>>

Status == {"none", "running", "hung", "zombie", "gone"}

TypeOK ==
  /\ master \in {"config", "workers", "cli", "monitor", "exited", "panicked"}
  /\ workers \in [Slots -> Pids \union {0}]
  /\ status \in [Pids -> Status] /\ slot \in [Pids -> Slots \union {0}]
  /\ cli \in Status
  /\ job \in [Jobs -> {"none", "queued", "wait", "fork", "done"}]
  /\ pid \in [Slots -> Pids \union {0}]
  /\ failures \in 0 .. MaxFailures /\ forkFailures \in 0 .. MaxForkFailures

NothingForked ==
  /\ workers = [i \in Slots |-> 0]
  /\ status = [p \in Pids |-> "none"] /\ slot = [p \in Pids |-> 0]
  /\ cli = "none"
  /\ job = [j \in Jobs |-> "none"] /\ pid = [i \in Slots |-> 0]
  /\ failures = 0 /\ forkFailures = 0

\* Server.run is entered: the master has its configuration.
Init == master = "workers" /\ NothingForked

Alive(p) == status[p] \in {"running", "hung"}

-----------------------------------------------------------------------------
(* Startup.                                                                *)

NewPid == 1 + Cardinality({p \in Pids : status[p] # "none"})

Fork(i) ==
  /\ status' = [status EXCEPT ![NewPid] = "running"]
  /\ slot' = [slot EXCEPT ![NewPid] = i]
  /\ workers' = [workers EXCEPT ![i] = NewPid]

ForkFails == forkFailures < MaxForkFailures /\ forkFailures' = forkFailures + 1

\* terminateWorkers: SIGTERM to every pid of an array.  A slot not yet written
\* holds the fill pattern of the checked builds, which names no process.
Terminated(pids) ==
  [p \in Pids |-> IF p \in pids /\ Alive(p) THEN "zombie" ELSE status[p]]

SpawnInitialWorker ==
  \E i \in Slots :
    /\ master = "workers"
    /\ workers[i] = 0 /\ \A k \in 1 .. (i - 1) : workers[k] # 0
    /\ Fork(i)
    /\ master' = IF i = CpuCount THEN "cli" ELSE master
    /\ UNCHANGED <<cli, jobVars, budgetVars>>

\* monitorProcesses: one job for the CLI and one per worker.
SpawnCli ==
  /\ master = "cli"
  /\ cli' = "running"
  /\ master' = "monitor"
  /\ job' = [j \in Jobs |-> "queued"]
  /\ UNCHANGED <<workers, processVars, pid, budgetVars>>

\* Faulty GiveUp: the defer of terminateWorkers is dropped.
GiveUpKeepingWorkers ==
  /\ master \in {"workers", "cli"}
  /\ ForkFails
  /\ master' = "exited"
  /\ UNCHANGED <<workers, processVars, cli, jobVars, failures>>
\* A fork fails during startup: run returns, its defers terminate workers.
GiveUp ==
  /\ master \in {"workers", "cli"}
  /\ ForkFails
  /\ master' = "exited"
  /\ status' = Terminated({workers[i] : i \in Slots})
  /\ UNCHANGED <<workers, slot, cli, jobVars, failures>>

-----------------------------------------------------------------------------
(* The monitoring jobs.                                                    *)

\* Faulty Executors: the main thread does not help.
PoolThreadsOnly == CpuCount
\* The threads of the pool and the main thread, in waitAndWork.
Executors == CpuCount + 1

StartJob(j) ==
  /\ master = "monitor"
  /\ job[j] = "queued"
  /\ Cardinality({k \in Jobs : job[k] \in {"wait", "fork"}}) < Executors
  /\ job' = [job EXCEPT ![j] = "wait"]
  /\ pid' = IF j \in Slots THEN [pid EXCEPT ![j] = workers[j]] ELSE pid
  /\ UNCHANGED <<masterVars, processVars, cli, budgetVars>>

\* Faulty Reap: waitpid does not block.
ReapWithoutWaiting(i) ==
  /\ master = "monitor"
  /\ job[i] = "wait"
  /\ status[pid[i]] # "gone"
  /\ job' = [job EXCEPT ![i] = "fork"]
  /\ UNCHANGED <<masterVars, processVars, cli, pid, budgetVars>>
\* waitpid returns when the process has ended.
Reap(i) ==
  /\ master = "monitor"
  /\ job[i] = "wait"
  /\ status[pid[i]] = "zombie"
  /\ status' = [status EXCEPT ![pid[i]] = "gone"]
  /\ job' = [job EXCEPT ![i] = "fork"]
  /\ UNCHANGED <<masterVars, slot, cli, pid, budgetVars>>

\* waitpid of a process that has been reaped: ECHILD, which std.posix takes
\* to be unreachable.
Panic(i) ==
  /\ master = "monitor"
  /\ job[i] = "wait"
  /\ status[pid[i]] = "gone"
  /\ master' = "panicked"
  /\ UNCHANGED <<workers, processVars, cli, jobVars, budgetVars>>

\* Faulty Respawn: the job goes on with the pid that is gone.
RespawnKeepingPid(i) ==
  /\ master = "monitor"
  /\ job[i] = "fork"
  /\ Fork(i)
  /\ job' = [job EXCEPT ![i] = "wait"]
  /\ UNCHANGED <<master, cli, pid, budgetVars>>
Respawn(i) ==
  /\ master = "monitor"
  /\ job[i] = "fork"
  /\ Fork(i)
  /\ pid' = [pid EXCEPT ![i] = NewPid]
  /\ job' = [job EXCEPT ![i] = "wait"]
  /\ UNCHANGED <<master, cli, budgetVars>>

\* Faulty RespawnFails: the result of the failed fork is stored as a pid.
RespawnFailsStoringResult(i) ==
  /\ master = "monitor"
  /\ job[i] = "fork"
  /\ ForkFails
  /\ workers' = [workers EXCEPT ![i] = -1]
  /\ pid' = [pid EXCEPT ![i] = -1]
  /\ job' = [job EXCEPT ![i] = "wait"]
  /\ UNCHANGED <<master, processVars, cli, failures>>
\* The error is logged and the job waits for workers[index] again.
RespawnFails(i) ==
  /\ master = "monitor"
  /\ job[i] = "fork"
  /\ ForkFails
  /\ job' = [job EXCEPT ![i] = "wait"]
  /\ UNCHANGED <<masterVars, processVars, cli, pid, failures>>

ReapCli ==
  /\ master = "monitor"
  /\ job[CliJob] = "wait" /\ cli = "zombie"
  /\ cli' = "gone"
  /\ job' = [job EXCEPT ![CliJob] = "fork"]
  /\ UNCHANGED <<masterVars, processVars, pid, budgetVars>>

RespawnCli ==
  /\ master = "monitor"
  /\ job[CliJob] = "fork"
  /\ cli' = "running"
  /\ job' = [job EXCEPT ![CliJob] = "wait"]
  /\ UNCHANGED <<masterVars, processVars, pid, budgetVars>>

\* monitorCli returns: there is no CLI process from then on.
RespawnCliFails ==
  /\ master = "monitor"
  /\ job[CliJob] = "fork"
  /\ ForkFails
  /\ job' = [job EXCEPT ![CliJob] = "done"]
  /\ UNCHANGED <<masterVars, processVars, cli, pid, failures>>

-----------------------------------------------------------------------------
(* The processes.                                                          *)

Fails == failures < MaxFailures /\ failures' = failures + 1

\* A crash, a kill from outside, or a start that cannot listen.
WorkerEnds(p) ==
  /\ Alive(p)
  /\ Fails
  /\ status' = [status EXCEPT ![p] = "zombie"]
  /\ UNCHANGED <<masterVars, slot, cli, jobVars, forkFailures>>

\* mainEventLoop returns an error while the watcher still runs: the deinit of
\* the thread pool joins the watcher for ever, before the listening socket is
\* closed.
EventLoopHangs(p) ==
  /\ status[p] = "running"
  /\ Fails
  /\ status' = [status EXCEPT ![p] = "hung"]
  /\ UNCHANGED <<masterVars, slot, cli, jobVars, forkFailures>>

\* start returns an error, before it spawned the watcher or after the watcher
\* stopped.  A worker of the first generation runs the defers of Server.run
\* on its copy of the array, which holds the workers forked before it; a
\* later one panics in its copy of monitorWorker.
StartFails(p) ==
  /\ status[p] = "running"
  /\ Fails
  /\ status' = Terminated(IF p \in Slots THEN 1 .. p ELSE {p})
  /\ UNCHANGED <<masterVars, slot, cli, jobVars, forkFailures>>

\* A command fails, or the process is killed.
CliEnds ==
  /\ cli = "running"
  /\ Fails
  /\ cli' = "zombie"
  /\ UNCHANGED <<masterVars, processVars, jobVars, forkFailures>>

-----------------------------------------------------------------------------

Startup == SpawnInitialWorker \/ SpawnCli \/ GiveUp

Monitor(i) == Reap(i) \/ Panic(i) \/ Respawn(i) \/ RespawnFails(i)
MonitorCli == ReapCli \/ RespawnCli \/ RespawnCliFails

Environment ==
  \/ \E p \in Pids : WorkerEnds(p) \/ EventLoopHangs(p) \/ StartFails(p)
  \/ CliEnds

Next ==
  \/ Startup
  \/ \E j \in Jobs : StartJob(j)
  \/ \E i \in Slots : Monitor(i)
  \/ MonitorCli
  \/ Environment

\* The threads of the master are scheduled.
Fairness ==
  /\ WF_vars(Startup) /\ WF_vars(MonitorCli)
  /\ \A j \in Jobs : WF_vars(StartJob(j))
  /\ \A i \in Slots : WF_vars(Monitor(i))

Spec == Init /\ [][Next]_vars /\ Fairness

-----------------------------------------------------------------------------
(* Properties.                                                             *)

\* Whatever the workers do to themselves and to each other, a slot never has
\* two live workers: a replacement is forked only for a worker that is gone.
OneWorkerPerSlot ==
  \A p, q \in Pids : Alive(p) /\ Alive(q) /\ slot[p] = slot[q] => p = q

\* As long as no fork fails, each job waits for a child that has not been
\* reaped, so the master does not panic.
MastersKeepTheirChildren ==
  forkFailures = 0 =>
    /\ master # "panicked"
    /\ \A i \in Slots : job[i] = "wait" => status[pid[i]] \notin {"none", "gone"}

\* A master that gives up during startup leaves no worker behind.
StartupLeavesNothing ==
  master = "exited" => \A p \in Pids : ~Alive(p)

Unstaffed(i) == master = "monitor" /\ ~\E p \in Pids : slot[p] = i /\ Alive(p)
Serving(i) == \E p \in Pids : slot[p] = i /\ status[p] = "running"

\* Every slot whose worker ended (also those that a failing sibling killed)
\* gets another one, and the CLI process too, unless a fork fails.
EndedAreReplaced ==
  /\ \A i \in Slots : Unstaffed(i) ~> ~Unstaffed(i)
  /\ cli = "zombie" ~> cli = "running" \/ forkFailures > 0

\* README.md:35, "ensures Cloud Cup remains operational even under heavy load
\* or in the event of individual worker failures": while the master monitors
\* and no fork fails, a slot that stopped serving serves again.
FailedWorkersAreReplaced ==
  \A i \in Slots : master = "monitor" /\ ~Serving(i) ~> Serving(i)
=============================================================================
