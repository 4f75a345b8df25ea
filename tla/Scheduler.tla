----------------------------- MODULE Scheduler -----------------------------
(***************************************************************************)
(* The job queue shared by all ComfyUI instances: the tables               *)
(* scheduler_jobs and scheduler_workers (utils/scheduler_store.py) and the *)
(* instance processes that submit, claim, execute and complete jobs        *)
(* through them (user_queue_put, user_queue_get, user_queue_task_done of   *)
(* utils/access_control.py, WorkerHeartbeat).                              *)
(*                                                                         *)
(* Every store operation runs in one BEGIN IMMEDIATE transaction, so it is *)
(* one action.  Its clock, however, is read before the transaction begins: *)
(* a transaction that waited for the write lock works with a `now' that is *)
(* up to MaxLag old.                                                       *)
(***************************************************************************)
EXTENDS Integers, FiniteSets

CONSTANTS
  Prompts,            \* prompt ids that may be submitted
  Users, Admins,      \* accounts; is_admin_user
  Terminating,        \* the accounts whose executions end
  Requesters,         \* the accounts that issue cancel and delete requests
  Ports,              \* instance ports, the key of scheduler_workers
  Procs,              \* process incarnations; each is started at most once
  PortOf, PidOf,      \* port and operating-system pid of a process
  PoolOf,             \* its worker_resource_class
  Configured,         \* the processes whose configuration has gpu_node_types
  Kinds,              \* workflows submitted: "gpu" ones hold a GPU node
  Priorities,         \* item[0] of a queue item
  MaxPerUser,         \* max_concurrent_jobs_per_user
  AdminLimit,         \* admin_concurrency_limit, 0 is unlimited
  ResourceLimits,     \* resource_concurrency_limits
  Stale,              \* stale_seconds, in ticks
  MaxLag,             \* longest wait for the write lock, in ticks
  HeartbeatDeadline,  \* a live process reports at least this often
  AllowOverlap,       \* may a port's new process start beside the old one?
  MaxCrashes,         \* bound: processes that die
  MaxDbFailures,      \* bound: database errors seen by claim and complete
  NoPrompt, NoPort, NoPid

Classes == {"default", "api", "gpu"}
Statuses == {"absent", "queued", "running", "completed", "failed",
             "cancelled", "worker_lost"}
Phases == {"new", "up", "executing", "finishing", "raised", "down"}

ASSUME ConstantsAssumption ==
  /\ IsFiniteSet(Prompts) /\ NoPrompt \notin Prompts
  /\ NoPort \notin Ports
  /\ Admins \subseteq Users /\ Requesters \subseteq Users /\ Terminating \subseteq Users
  /\ PortOf \in [Procs -> Ports]
  /\ \A p \in Procs : PidOf[p] # NoPid
  /\ PoolOf \in [Procs -> Classes] /\ Configured \subseteq Procs
  /\ Kinds \subseteq {"api", "gpu"} /\ Priorities \subseteq Int

ASSUME LimitsAssumption ==
  /\ MaxPerUser \in Nat \ {0} /\ AdminLimit \in Nat
  /\ DOMAIN ResourceLimits \subseteq {"api", "gpu"}
  /\ \A c \in DOMAIN ResourceLimits : ResourceLimits[c] \in Nat \ {0}
  /\ Stale \in Nat \ {0} /\ MaxLag \in Nat /\ HeartbeatDeadline \in Nat
  /\ MaxCrashes \in Nat /\ MaxDbFailures \in Nat
  /\ AllowOverlap \in BOOLEAN

VARIABLES
  status,      \* scheduler_jobs.status, "absent" before the insert
  job,         \* the job's other columns, fixed at the insert but for
               \* class and limit, which a configured start rewrites
  workerPort,  \* scheduler_jobs.worker_port
  pid, active, \* scheduler_workers.pid, .active_prompt_id
  age, pool,   \* time since .last_heartbeat; .resource_class
  phase, held, \* what each process does, and the prompt it does it for
  tries, ok,   \* task_done: completions tried so far, execution succeeded?
  sweep,       \* the candidates a delete_matching call has left to try
  crashes, dbFailures

jobVars    == <<status, job, workerPort>>
workerVars == <<pid, active, age, pool>>
procVars   == <<phase, held, tries, ok>>
budgets    == <<crashes, dbFailures>>
vars == <<jobVars, workerVars, procVars, sweep, budgets>>

NoJob == [owner |-> "", kind |-> "api", class |-> "default", limit |-> 0,
          prio |-> 0, seq |-> 0]
NoSweep == [by |-> "", cand |-> {}]

AgeCap == Stale + MaxLag + 1     \* ages beyond this are all stale
Min2(a, b) == IF a < b THEN a ELSE b

-----------------------------------------------------------------------------
(* What the code computes from the tables.                                 *)

(* classify_item: without gpu_node_types every job is "default".            *)
Classify(p, kind) == IF p \in Configured THEN kind ELSE "default"

LimitFor(c) == IF c \in DOMAIN ResourceLimits THEN ResourceLimits[c] ELSE MaxPerUser

Compatible(worker, c) == worker = "default" \/ c = "default" \/ c = worker

(* Mutant: the owner's waiting jobs are counted as well.                    *)
MutRunningOf(u, c) ==
  {j \in Prompts : status[j] \in {"queued", "running"}
                   /\ job[j].owner = u /\ job[j].class = c}

RunningOf(u, c) ==
  {j \in Prompts : status[j] = "running" /\ job[j].owner = u /\ job[j].class = c}

(* Mutant: off by one.                                                      *)
MutBelowLimit(j) ==
  \/ job[j].limit = 0
  \/ Cardinality(RunningOf(job[j].owner, job[j].class)) <= job[j].limit

(* The job's owner runs fewer jobs of its class than the limit that was     *)
(* stored with the job; 0 is no limit.                                      *)
BelowLimit(j) ==
  \/ job[j].limit = 0
  \/ Cardinality(RunningOf(job[j].owner, job[j].class)) < job[j].limit

(* The WHERE clause of claim.                                               *)
Eligible(p, j) ==
  /\ status[j] = "queued"
  /\ Compatible(PoolOf[p], job[j].class)
  /\ BelowLimit(j)

(* Mutant: the newest job first.                                            *)
MutBefore(i, j) ==
  \/ job[i].prio < job[j].prio
  \/ job[i].prio = job[j].prio /\ job[i].seq > job[j].seq

(* ORDER BY priority ASC, sequence ASC.                                     *)
Before(i, j) ==
  \/ job[i].prio < job[j].prio
  \/ job[i].prio = job[j].prio /\ job[i].seq < job[j].seq

Busy(port) == active[port] # NoPrompt /\ status[active[port]] = "running"

(* Mutants: a worker exactly Stale old counts as dead; the age is taken     *)
(* with the wrong sign.                                                     *)
MutStaleEarly(lag) ==
  {q \in Ports : pid[q] # NoPid /\ active[q] # NoPrompt /\ age[q] - lag >= Stale}
MutStaleNever(lag) ==
  {q \in Ports : pid[q] # NoPid /\ active[q] # NoPrompt /\ lag - age[q] > Stale}

(* The workers with an active job whose last heartbeat is too old by the    *)
(* clock of a transaction that waited for lag.                              *)
StalePorts(lag) ==
  {q \in Ports : pid[q] # NoPid /\ active[q] # NoPrompt /\ age[q] - lag > Stale}

(* Mutant: a lost job is put back in the queue.                             *)
MutLostStatus == "queued"
LostStatus == "worker_lost"

Alive(p) == phase[p] \notin {"new", "down"}

(* The upsert shared by heartbeat and claim: pid, last_heartbeat and        *)
(* resource_class are written, active_prompt_id is left alone.              *)
Report(p, lag) ==
  /\ pid' = [pid EXCEPT ![PortOf[p]] = PidOf[p]]
  /\ age' = [age EXCEPT ![PortOf[p]] = lag]
  /\ pool' = [pool EXCEPT ![PortOf[p]] = PoolOf[p]]

-----------------------------------------------------------------------------
Init ==
  /\ status = [j \in Prompts |-> "absent"]
  /\ job = [j \in Prompts |-> NoJob]
  /\ workerPort = [j \in Prompts |-> NoPort]
  /\ pid = [q \in Ports |-> NoPid]
  /\ active = [q \in Ports |-> NoPrompt]
  /\ age = [q \in Ports |-> 0]
  /\ pool = [q \in Ports |-> "default"]
  /\ phase = [p \in Procs |-> "new"]
  /\ held = [p \in Procs |-> NoPrompt]
  /\ tries = [p \in Procs |-> 0]
  /\ ok = [p \in Procs |-> FALSE]
  /\ sweep = NoSweep
  /\ crashes = 0 /\ dbFailures = 0

(* user_queue_put and enqueue: any live instance accepts the submission.    *)
Enqueue(p, j, u, kind, prio) ==
  LET c == Classify(p, kind) IN
  /\ Alive(p) /\ status[j] = "absent"
  /\ status' = [status EXCEPT ![j] = "queued"]
  /\ job' = [job EXCEPT ![j] =
       [owner |-> u, kind |-> kind, class |-> c,
        limit |-> IF u \in Admins THEN AdminLimit ELSE LimitFor(c),
        prio |-> prio,
        seq |-> Cardinality({i \in Prompts : status[i] # "absent"}) + 1]]
  /\ UNCHANGED <<workerPort, workerVars, procVars, sweep, budgets>>

IsLegacy(p, j) ==
  p \in Configured /\ status[j] = "queued" /\ job[j].class = "default"

(* _classify_legacy_queued_jobs: a store opened with gpu_node_types moves   *)
(* queued "default" jobs to their pool.                                     *)
Reclassified(p, j) ==
  IF IsLegacy(p, j)
  THEN LET c == job[j].kind IN
       [job[j] EXCEPT !.class = c,
                      !.limit = IF job[j].limit # 0 /\ c \in DOMAIN ResourceLimits
                                THEN ResourceLimits[c] ELSE job[j].limit]
  ELSE job[j]

(* Mutant: the pid comparison is inverted.                                  *)
MutDisplaces(p, j) ==
  /\ pid[PortOf[p]] = PidOf[p] /\ active[PortOf[p]] = j
  /\ status[j] = "running"

(* The row was left by another pid and names j, which still runs.           *)
Displaces(p, j) ==
  /\ pid[PortOf[p]] # PidOf[p] /\ active[PortOf[p]] = j
  /\ status[j] = "running"

(* register_worker: a row left by another pid loses its running job; the    *)
(* row then belongs to this process and has no active job.                  *)
RegisterWorker(p, lag) ==
  /\ status' = [j \in Prompts |-> IF Displaces(p, j) THEN LostStatus ELSE status[j]]
  /\ active' = [active EXCEPT ![PortOf[p]] = NoPrompt]
  /\ Report(p, lag)

(* A process starts: the store is opened (jobs reclassified) and the worker *)
(* registered while the plugin is imported.                                 *)
StartProcess(p, lag) ==
  /\ phase[p] = "new"
  /\ AllowOverlap \/ \A r \in Procs : PortOf[r] = PortOf[p] => ~Alive(r)
  /\ phase' = [phase EXCEPT ![p] = "up"]
  /\ job' = [j \in Prompts |-> Reclassified(p, j)]
  /\ RegisterWorker(p, lag)
  /\ UNCHANGED <<workerPort, held, tries, ok, sweep, budgets>>

(* heartbeat: report, then mark lost the running jobs of workers whose last *)
(* heartbeat is older than Stale by this transaction's clock.               *)
Heartbeat(p, lag) ==
  LET dead == StalePorts(lag) \ {PortOf[p]} IN
  /\ Alive(p)
  /\ Report(p, lag)
  /\ status' = [j \in Prompts |->
       IF status[j] = "running" /\ \E q \in dead : active[q] = j
       THEN LostStatus ELSE status[j]]
  /\ active' = [q \in Ports |-> IF q \in dead THEN NoPrompt ELSE active[q]]
  /\ UNCHANGED <<job, workerPort, procVars, sweep, budgets>>

(* claim, a job found: the first eligible one becomes this worker's, and    *)
(* user_queue_get hands it to the executor thread.                          *)
Claim(p, j, lag) ==
  /\ phase[p] = "up" /\ ~Busy(PortOf[p])
  /\ Eligible(p, j)
  /\ \A i \in Prompts \ {j} : Eligible(p, i) => Before(j, i)
  /\ status' = [status EXCEPT ![j] = "running"]
  /\ workerPort' = [workerPort EXCEPT ![j] = PortOf[p]]
  /\ active' = [active EXCEPT ![PortOf[p]] = j]
  /\ Report(p, lag)
  /\ phase' = [phase EXCEPT ![p] = "executing"]
  /\ held' = [held EXCEPT ![p] = j]
  /\ UNCHANGED <<job, tries, ok, sweep, budgets>>

(* claim, nothing eligible: only the worker row is refreshed.  (A claim     *)
(* that finds its own job still running changes nothing.)                   *)
ClaimNothing(p, lag) ==
  /\ phase[p] = "up" /\ ~Busy(PortOf[p])
  /\ \A j \in Prompts : ~Eligible(p, j)
  /\ Report(p, lag)
  /\ UNCHANGED <<jobVars, active, procVars, sweep, budgets>>

(* claim raises an error other than "database is busy": user_queue_get      *)
(* passes it on and the executor thread takes no further job, while the     *)
(* heartbeat thread goes on.                                                *)
ClaimRaises(p) ==
  /\ phase[p] = "up" /\ dbFailures < MaxDbFailures
  /\ phase' = [phase EXCEPT ![p] = "raised"]
  /\ dbFailures' = dbFailures + 1
  /\ UNCHANGED <<jobVars, workerVars, held, tries, ok, sweep, crashes>>

(* The execution ends and user_queue_task_done has saved the history.       *)
Finish(p, succeeded) ==
  /\ phase[p] = "executing"
  /\ phase' = [phase EXCEPT ![p] = "finishing"]
  /\ ok' = [ok EXCEPT ![p] = succeeded]
  /\ UNCHANGED <<jobVars, workerVars, held, tries, sweep, budgets>>

BackToQueue(p) ==
  /\ phase' = [phase EXCEPT ![p] = "up"]
  /\ held' = [held EXCEPT ![p] = NoPrompt]
  /\ tries' = [tries EXCEPT ![p] = 0]
  /\ ok' = [ok EXCEPT ![p] = FALSE]

(* complete: a late result is accepted for a job already marked lost; the   *)
(* worker row is freed only if it still names this job.                     *)
Complete(p, lag) ==
  LET j == held[p]
      q == PortOf[p]
  IN
  /\ phase[p] = "finishing"
  /\ status' = [status EXCEPT ![j] =
       IF @ \in {"running", "worker_lost"}
       THEN IF ok[p] THEN "completed" ELSE "failed" ELSE @]
  /\ active' = [active EXCEPT ![q] = IF @ = j THEN NoPrompt ELSE @]
  /\ age' = [age EXCEPT ![q] = IF active[q] = j THEN lag ELSE @]
  /\ BackToQueue(p)
  /\ UNCHANGED <<job, workerPort, pid, pool, sweep, budgets>>

(* Mutants: one attempt more, one attempt fewer than the loop makes.        *)
MutLastAttempt == 3
MutGivesUpEarly == 1
LastAttempt == 2     \* attempts are 0, 1, 2

(* complete raises: task_done tries three times, logs the last error and    *)
(* returns to the queue loop.                                               *)
CompleteRaises(p) ==
  /\ phase[p] = "finishing" /\ dbFailures < MaxDbFailures
  /\ dbFailures' = dbFailures + 1
  /\ \/ tries[p] < LastAttempt /\ tries' = [tries EXCEPT ![p] = @ + 1]
        /\ UNCHANGED <<phase, held, ok>>
     \/ tries[p] = LastAttempt /\ BackToQueue(p)
  /\ UNCHANGED <<jobVars, workerVars, sweep, crashes>>

(* Mutants: the status, or the owner, is not checked again.                 *)
MutCancelAnyStatus(u, j) == status[j] # "absent" /\ (u \in Admins \/ job[j].owner = u)
MutCancelAnyOwner(u, j) == status[j] = "queued"

(* The check cancel makes inside its transaction, on the row as it is then. *)
MayCancel(u, j) == status[j] = "queued" /\ (u \in Admins \/ job[j].owner = u)

(* cancel                                                                   *)
Cancel(u, j) ==
  /\ MayCancel(u, j)
  /\ status' = [status EXCEPT ![j] = "cancelled"]
  /\ UNCHANGED <<job, workerPort, workerVars, procVars, sweep, budgets>>

(* cancel_all                                                               *)
CancelAll(u) ==
  /\ status' = [j \in Prompts |-> IF MayCancel(u, j) THEN "cancelled" ELSE status[j]]
  /\ UNCHANGED <<job, workerPort, workerVars, procVars, sweep, budgets>>

(* delete_matching, first part: the queued jobs the caller may see are      *)
(* read, and those the predicate accepts become candidates.                 *)
DeleteRead(u, S) ==
  /\ sweep = NoSweep /\ S # {}
  /\ \A j \in S : MayCancel(u, j)
  /\ sweep' = [by |-> u, cand |-> S]
  /\ UNCHANGED <<jobVars, workerVars, procVars, budgets>>

(* delete_matching, second part: cancel the candidates in queue order, each *)
(* in a transaction of its own, until one cancel succeeds.                  *)
DeleteNext(j) ==
  /\ j \in sweep.cand
  /\ \A i \in sweep.cand \ {j} : Before(j, i)
  /\ IF MayCancel(sweep.by, j)
     THEN /\ status' = [status EXCEPT ![j] = "cancelled"]
          /\ sweep' = NoSweep
     ELSE /\ sweep' = IF sweep.cand = {j} THEN NoSweep
                      ELSE [sweep EXCEPT !.cand = @ \ {j}]
          /\ UNCHANGED status
  /\ UNCHANGED <<job, workerPort, workerVars, procVars, budgets>>

(* The process dies, at any point of its life.                              *)
Crash(p) ==
  /\ Alive(p) /\ crashes < MaxCrashes
  /\ crashes' = crashes + 1
  /\ phase' = [phase EXCEPT ![p] = "down"]
  /\ held' = [held EXCEPT ![p] = NoPrompt]
  /\ tries' = [tries EXCEPT ![p] = 0]
  /\ ok' = [ok EXCEPT ![p] = FALSE]
  /\ UNCHANGED <<jobVars, workerVars, sweep, dbFailures>>

(* Time passes.  HeartbeatDeadline is the longest a live process is assumed *)
(* to go without reporting; above AgeCap it assumes nothing.                *)
Tick ==
  /\ \A p \in Procs : Alive(p) => age[PortOf[p]] < HeartbeatDeadline
  /\ age' = [q \in Ports |-> IF pid[q] = NoPid THEN age[q] ELSE Min2(age[q] + 1, AgeCap)]
  /\ UNCHANGED <<jobVars, pid, active, pool, procVars, sweep, budgets>>

Lags == 0 .. MaxLag

Submission == \E p \in Procs, j \in Prompts, u \in Users, k \in Kinds, n \in Priorities :
                Enqueue(p, j, u, k, n)
Request == \E u \in Requesters :
             \/ CancelAll(u)
             \/ \E j \in Prompts : Cancel(u, j)
             \/ \E S \in SUBSET Prompts : DeleteRead(u, S)

Next ==
  \/ Submission
  \/ Request
  \/ \E j \in Prompts : DeleteNext(j)
  \/ \E p \in Procs, lag \in Lags :
       \/ StartProcess(p, lag)
       \/ Heartbeat(p, lag)
       \/ ClaimNothing(p, lag)
       \/ Complete(p, lag)
       \/ \E j \in Prompts : Claim(p, j, lag)
  \/ \E p \in Procs :
       \/ ClaimRaises(p)
       \/ \E b \in BOOLEAN : Finish(p, b)
       \/ CompleteRaises(p)
       \/ Crash(p)
  \/ Tick

Spec == Init /\ [][Next]_vars

(* The scheduling the code provides.  Every process runs a heartbeat thread *)
(* on a timer and a claim loop; task_done follows the end of an execution.  *)
(* Executions end (or are interrupted) for the accounts in Terminating; a   *)
(* job of another account may run forever.                                  *)
Fairness ==
  /\ WF_vars(Tick)
  /\ \A p \in Procs :
       /\ WF_vars(Heartbeat(p, 0))
       /\ WF_vars(\E j \in Prompts : Claim(p, j, 0))
       /\ WF_vars(/\ held[p] # NoPrompt
                  /\ job[held[p]].owner \in Terminating
                  /\ Finish(p, TRUE))
       /\ WF_vars(Complete(p, 0))

(* The operator also starts every instance of the fleet.                    *)
FleetFairness == Fairness /\ \A p \in Procs : WF_vars(StartProcess(p, 0))

FleetSpec == Spec /\ FleetFairness

-----------------------------------------------------------------------------
(* Properties.                                                              *)

JobRecords ==
  [owner : Users, kind : Kinds, class : Classes, limit : Nat,
   prio : Priorities, seq : 1 .. Cardinality(Prompts)]

(* Type correctness of the tables and of the processes' local state.        *)
TypeOK ==
  /\ status \in [Prompts -> Statuses]
  /\ job \in [Prompts -> JobRecords \cup {NoJob}]
  /\ workerPort \in [Prompts -> Ports \cup {NoPort}]
  /\ pid \in [Ports -> {PidOf[p] : p \in Procs} \cup {NoPid}]
  /\ active \in [Ports -> Prompts \cup {NoPrompt}]
  /\ age \in [Ports -> 0 .. AgeCap]
  /\ pool \in [Ports -> Classes]
  /\ phase \in [Procs -> Phases]
  /\ held \in [Procs -> Prompts \cup {NoPrompt}]
  /\ tries \in [Procs -> 0 .. 2]
  /\ ok \in [Procs -> BOOLEAN]
  /\ sweep = NoSweep \/ sweep \in [by : Requesters, cand : (SUBSET Prompts) \ {{}}]
  /\ crashes \in 0 .. MaxCrashes /\ dbFailures \in 0 .. MaxDbFailures

(* Every job the table calls running is the active job of the worker row    *)
(* it was claimed on, so that a later register or heartbeat can still       *)
(* declare it lost.  A running job no row names would never end.            *)
RunningIsTracked ==
  \A j \in Prompts : status[j] = "running" =>
     /\ workerPort[j] \in Ports
     /\ active[workerPort[j]] = j

(* An ordinary account never has more running jobs in a resource class than *)
(* its limit, whichever instances the jobs were submitted to and claimed    *)
(* by, across restarts, lost workers and reclassification.                  *)
ConcurrencyLimit ==
  \A u \in Users \ Admins, c \in Classes :
     Cardinality(RunningOf(u, c)) <= LimitFor(c)

(* A prompt is executed by at most one process, a lost worker that in fact  *)
(* still runs included ("never submitted again automatically").             *)
ExclusiveExecution ==
  \A p, r \in Procs : held[p] = held[r] /\ held[p] # NoPrompt => p = r

(* A job runs on a worker of its own pool, or one side is unpooled; moving  *)
(* legacy jobs between pools never pulls the class away from under a job    *)
(* that was already handed out.                                             *)
PoolIsolation ==
  \A p \in Procs : held[p] # NoPrompt => Compatible(PoolOf[p], job[held[p]].class)

(* A job is cancelled only through a request of its owner or of an          *)
(* administrator, delete_matching's stale snapshot included.                *)
CancelIsolation ==
  \A j \in Prompts : status[j] = "cancelled" =>
     job[j].owner \in Requesters \/ Requesters \cap Admins # {}

(* Within an account, class and priority, jobs start in submission order.   *)
(* (Stated for a fleet that is configured alike; reclassification changes   *)
(* the class of waiting jobs.)                                              *)
FifoPerOwner ==
  \A i, j \in Prompts :
     /\ status[i] = "queued" /\ workerPort[j] # NoPort
     /\ job[i].owner = job[j].owner /\ job[i].class = job[j].class
     /\ job[i].prio = job[j].prio
     => job[j].seq < job[i].seq

(* What is physically being executed, not what the table says: as long as   *)
(* live workers report in time, an account's executions stay within limit.  *)
PhysicalLimit ==
  \A u \in Users \ Admins, c \in Classes :
     Cardinality({p \in Procs : held[p] # NoPrompt /\ job[held[p]].owner = u
                                /\ job[held[p]].class = c}) <= LimitFor(c)

(* No job is declared lost while the process that runs it is alive and      *)
(* reports in time.                                                         *)
LostOnlyWhenDead ==
  \A p \in Procs : held[p] # NoPrompt => status[held[p]] = "running"

(* A job whose process died is noticed as long as some process lives.       *)
DeadWorkerDetected ==
  \A j \in Prompts :
     (status[j] = "running" /\ \A p \in Procs : held[p] # j)
       ~> (status[j] # "running" \/ \A p \in Procs : ~Alive(p))

(* A queued job leaves the queue while more workers of its pool live than   *)
(* the accounts whose jobs never end may occupy: their jobs in front of it  *)
(* do not block it ("other accounts are not blocked").                      *)
QueuedIsServed ==
  \A j \in Prompts :
     (status[j] = "queued" /\ job[j].owner \in Terminating)
       ~> \/ status[j] # "queued"
          \/ Cardinality({p \in Procs : Alive(p) /\ Compatible(PoolOf[p], job[j].class)})
               <= MaxPerUser * Cardinality(Users \ Terminating)

(* The queue implements the lifecycle JobLifecycle promises: hand-out at    *)
(* most once, cancelled and lost jobs never handed out (again), results     *)
(* final and recorded only after the execution ended.                       *)
Executing == {j \in Prompts : \E p \in Procs : held[p] = j /\ phase[p] = "executing"}
Lifecycle == INSTANCE JobLifecycle WITH Jobs <- Prompts, state <- status,
                                        executing <- Executing
ImplementsLifecycle == Lifecycle!Spec

(* The queue loop of a process that is not executing finds its worker row   *)
(* free to claim, after a restart and after a job that was declared lost    *)
(* too.  Only a completion that failed in all three attempts leaves a row   *)
(* busy with a job nobody executes.                                         *)
IdleWorkerCanClaim ==
  \A p \in Procs : phase[p] = "up" /\ Busy(PortOf[p]) => dbFailures >= 3
=============================================================================
