---------------------------- MODULE CloudArchive ----------------------------
(***************************************************************************)
(* The OSS archive of finished jobs (utils/cloud_archive.py): the tables   *)
(* scheduler_cloud_tasks and scheduler_cloud_artifacts, the background     *)
(* upload thread each instance runs over them, the registration of         *)
(* finished jobs by task_done, by the reconcile pass and by the backfill   *)
(* tool (admin/cloud_backfill.py).                                         *)
(*                                                                         *)
(* Leases are the only protection between upload threads.  A lease is live *)
(* or expired; it expires by the passing of time, and renewal happens only *)
(* while the transfer itself runs, not while the source is downloaded and  *)
(* hashed or the manifest is built, so a lease can run out under a thread  *)
(* that is still at work.  Whether a retry is already due is left open, so *)
(* a claim takes any claimable row.                                        *)
(***************************************************************************)
EXTENDS Integers, FiniteSets

CONSTANTS
  Tasks,         \* prompt ids
  Arts,          \* media outputs, TaskOf[a] is the prompt that made a
  TaskOf,
  Threads,       \* upload threads, one per instance process
  Operator,      \* the backfill tool, a registrar like the threads
  MaxAttempts,   \* cloud_max_attempts
  Concurrency,   \* cloud_upload_concurrency
  MaxFaults,     \* bound: crashes, database errors, leases outlived by the work
  MaxBackfills,  \* bound: runs of the backfill tool
  Nobody, Nothing

ASSUME CloudAssumption ==
  /\ TaskOf \in [Arts -> Tasks]
  /\ IsFiniteSet(Arts) /\ IsFiniteSet(Tasks)
  /\ Operator \notin Threads /\ Nobody \notin Threads
  /\ MaxAttempts \in Nat \ {0} /\ Concurrency \in Nat \ {0}
  /\ MaxFaults \in Nat /\ MaxBackfills \in Nat

VARIABLES
  job,       \* scheduler_jobs.status; "open" is queued or running
  stage,     \* how far task_done got for the job
  history,   \* prompts whose result is saved in the history database
  task,      \* scheduler_cloud_tasks
  art,       \* scheduler_cloud_artifacts
  at, work,  \* what each upload thread does, and on which row
  missed,    \* jobs that ended before the thread's _archive_started_at
  plan,      \* rows a registrar has read and will write
  built,     \* the manifest a thread has built
  bucket,    \* media objects in OSS
  manifest,  \* manifest object of each prompt in OSS
  faults, backfills

(* History, which no action reads: what the properties except.              *)
VARIABLES
  strayed,   \* rows whose lease ran out under the thread at work on them
  relisted   \* prompts registered with other outputs since their manifest was claimed

jobVars    == <<job, stage, history>>
storeVars  == <<task, art>>
threadVars == <<at, work, built>>
ossVars    == <<bucket, manifest>>
auxVars    == <<strayed, relisted>>
bounds     == <<faults, backfills>>
vars == <<jobVars, storeVars, threadVars, missed, plan, ossVars, auxVars, bounds>>

Registrars == Threads \cup {Operator}
Terminal == {"completed", "cancelled", "worker_lost"}   \* "failed" is not told from "completed"
Settled == {"uploaded", "cloud_failed", "source_missing"}
Final == {"cloud_completed", "cloud_failed", "no_artifacts"}
OnArtifactRow == {"fetch", "put", "check"}
OnManifestRow == {"build", "putm", "confirm"}
ArtsOf(t) == {a \in Arts : TaskOf[a] = t}
OnArt(c, a) == at[c] \in OnArtifactRow /\ work[c] = a
OnManifest(c, t) == at[c] \in OnManifestRow /\ work[c] = t

NoTask == [cloud |-> "none", count |-> 0, failed |-> 0, mstatus |-> "none",
           mtries |-> 0, mowner |-> Nobody, mlive |-> FALSE]
NoArt == [status |-> "none", tries |-> 0, owner |-> Nobody, live |-> FALSE]

Init ==
  /\ job = [t \in Tasks |-> "open"]
  /\ stage = [t \in Tasks |-> "executing"]
  /\ history = {}
  /\ task = [t \in Tasks |-> NoTask]
  /\ art = [a \in Arts |-> NoArt]
  /\ at = [c \in Threads |-> "idle"]
  /\ work = [c \in Threads |-> Nothing]
  /\ missed = [c \in Threads |-> {}]
  /\ plan = [r \in Registrars |-> {}]
  /\ built = [c \in Threads |-> Nothing]
  /\ bucket = {} /\ manifest = [t \in Tasks |-> Nothing]
  /\ faults = 0 /\ backfills = 0
  /\ strayed = {} /\ relisted = {}

Fault == faults < MaxFaults /\ faults' = faults + 1

-----------------------------------------------------------------------------
(* The scheduler's side, in the order task_done works: history saved,       *)
(* complete called, archive row registered.                                 *)

SaveHistory(t) ==
  /\ stage[t] = "executing"
  /\ stage' = [stage EXCEPT ![t] = "saved"]
  /\ history' = history \cup {t}
  /\ UNCHANGED <<job, storeVars, threadVars, missed, plan, ossVars, auxVars, bounds>>

(* complete writes the status and finished_at, of a lost job too.           *)
JobCompletes(t) ==
  /\ stage[t] = "saved"
  /\ job' = [job EXCEPT ![t] = "completed"]
  /\ stage' = [stage EXCEPT ![t] = "ended"]
  /\ missed' = [c \in Threads |-> missed[c] \ {t}]
  /\ UNCHANGED <<history, storeVars, threadVars, plan, ossVars, auxVars, bounds>>

(* complete raises three times; task_done goes on to the registration.      *)
CompleteRaises(t) ==
  /\ stage[t] = "saved" /\ Fault
  /\ stage' = [stage EXCEPT ![t] = "ended"]
  /\ UNCHANGED <<job, history, storeVars, threadVars, missed, plan, ossVars, auxVars, backfills>>

(* The job is cancelled while queued.                                       *)
JobCancelled(t) ==
  /\ job[t] = "open" /\ stage[t] = "executing"
  /\ job' = [job EXCEPT ![t] = "cancelled"]
  /\ stage' = [stage EXCEPT ![t] = "never"]
  /\ UNCHANGED <<history, storeVars, threadVars, missed, plan, ossVars, auxVars, bounds>>

(* The worker is declared lost: it is dead, or it was only late and the     *)
(* result comes after all.  A job whose complete was given up is lost so    *)
(* too, once its worker is.                                                 *)
JobLost(t) ==
  /\ job[t] = "open"
  /\ job' = [job EXCEPT ![t] = "worker_lost"]
  /\ \/ UNCHANGED stage
     \/ stage[t] \in {"executing", "saved"} /\ stage' = [stage EXCEPT ![t] = "never"]
  /\ UNCHANGED <<history, storeVars, threadVars, missed, plan, ossVars, auxVars, bounds>>

-----------------------------------------------------------------------------
(* Registration.                                                            *)

(* Does a registration change what the tables say of a known prompt?        *)
Changes(t, found) ==
  task[t].count # Cardinality(found) \/ \E a \in found : art[a] = NoArt

(* Its manifest is built from rows already read, or is in OSS.              *)
ManifestUnderWay(t) == task[t].mstatus = "uploaded" \/ \E c \in Threads : OnManifest(c, t)

(* enqueue_task: insert the rows; on a conflict the task row's counter is   *)
(* overwritten and its states, like those of known artifacts, are kept.     *)
Enqueued(t, found) ==
  /\ task' = [task EXCEPT ![t] =
       IF @ = NoTask
       THEN [NoTask EXCEPT !.cloud = IF found = {} THEN "no_artifacts" ELSE "pending",
                           !.count = Cardinality(found), !.mstatus = "pending"]
       ELSE [@ EXCEPT !.count = Cardinality(found)]]
  /\ art' = [a \in Arts |-> IF a \in found /\ art[a] = NoArt
                            THEN [NoArt EXCEPT !.status = "pending"] ELSE art[a]]
  /\ relisted' = IF ManifestUnderWay(t) /\ Changes(t, found)
                 THEN relisted \cup {t} ELSE relisted

(* discover_artifacts on the saved history item, if there is one.           *)
Found(t) == IF t \in history THEN ArtsOf(t) ELSE {}

(* enqueue_completion, called by task_done at its end.                      *)
EnqueueCompletion(t) ==
  /\ stage[t] = "ended"
  /\ stage' = [stage EXCEPT ![t] = "registered"]
  /\ Enqueued(t, Found(t))
  /\ UNCHANGED <<job, history, threadVars, missed, plan, ossVars, strayed, bounds>>

(* The instance dies before enqueue_completion, or that raises and is       *)
(* logged: only the reconcile pass will find the job.                       *)
EnqueueLost(t) ==
  /\ stage[t] = "ended" /\ Fault
  /\ stage' = [stage EXCEPT ![t] = "never"]
  /\ UNCHANGED <<job, history, storeVars, threadVars, missed, plan, ossVars, auxVars, backfills>>

(* Mutant: only jobs that completed are looked for.                         *)
MutUnregistered == {t \in Tasks : job[t] = "completed" /\ task[t] = NoTask}
Unregistered == {t \in Tasks : job[t] \in Terminal /\ task[t] = NoTask}

(* _reconcile_terminal_jobs, the list: jobs that ended since this thread's  *)
(* process started and have no archive row.                                 *)
ReconcileRead(c) ==
  LET due == Unregistered \ missed[c] IN
  /\ at[c] = "idle" /\ due # {}
  /\ plan' = [plan EXCEPT ![c] = {[task |-> t, do |-> "look", found |-> {}] : t \in due}]
  /\ at' = [at EXCEPT ![c] = "reconcile"]
  /\ UNCHANGED <<jobVars, storeVars, work, built, missed, ossVars, auxVars, bounds>>

(* cloud_backfill, select_jobs: jobs without an archive row, ended or not,  *)
(* and the failed ones to retry.                                            *)
BackfillRead(S) ==
  /\ plan[Operator] = {} /\ S # {} /\ backfills < MaxBackfills
  /\ \A t \in S : task[t] = NoTask \/ task[t].cloud = "cloud_failed"
  /\ plan' = [plan EXCEPT ![Operator] =
       {[task |-> t, do |-> IF task[t] = NoTask THEN "look" ELSE "retry", found |-> {}] : t \in S}]
  /\ backfills' = backfills + 1
  /\ UNCHANGED <<jobVars, storeVars, threadVars, missed, ossVars, auxVars, faults>>

Planned(r, do) == {e \in plan[r] : e.do = do}

(* The history of a job on the list is loaded.  The reconcile pass loads    *)
(* all before it registers any, the backfill works job by job.              *)
PlanLook(r, e) ==
  /\ e \in Planned(r, "look")
  /\ r = Operator => Planned(r, "register") = {}
  /\ plan' = [plan EXCEPT ![r] =
       (plan[r] \ {e}) \cup {[task |-> e.task, do |-> "register", found |-> Found(e.task)]}]
  /\ UNCHANGED <<jobVars, storeVars, threadVars, missed, ossVars, auxVars, bounds>>

(* reset_failed: failed artifacts and the manifest get a fresh start.       *)
ResetFailed(t) ==
  /\ art' = [a \in Arts |-> IF TaskOf[a] = t /\ art[a].status \in {"cloud_failed", "source_missing"}
                            THEN [NoArt EXCEPT !.status = "pending"] ELSE art[a]]
  /\ task' = [task EXCEPT ![t] = [@ EXCEPT !.cloud = "pending", !.mstatus = "pending",
                                           !.mtries = 0, !.mowner = Nobody, !.mlive = FALSE]]
  /\ UNCHANGED relisted

(* The writes of either, one transaction per row.                           *)
PlanWrite(r, e) ==
  /\ e \in plan[r]
  /\ r \in Threads => Planned(r, "look") = {}
  /\ plan' = [plan EXCEPT ![r] = @ \ {e}]
  /\ \/ e.do = "register" /\ Enqueued(e.task, e.found)
     \/ e.do = "retry" /\ ResetFailed(e.task)
  /\ IF r \in Threads /\ plan[r] = {e}
     THEN at' = [at EXCEPT ![r] = "idle"] ELSE UNCHANGED at
  /\ UNCHANGED <<jobVars, work, built, missed, ossVars, strayed, bounds>>

-----------------------------------------------------------------------------
(* Upload threads.                                                          *)

LiveLeases ==
  Cardinality({a \in Arts : art[a].status = "uploading" /\ art[a].live})
  + Cardinality({t \in Tasks : task[t].mstatus = "uploading" /\ task[t].mlive})

(* Mutant: a row being uploaded is claimable though its lease is live.      *)
MutClaimable(status, live) == status \in {"pending", "uploading"}
Claimable(status, live) == status = "pending" \/ (status = "uploading" /\ ~live)

(* Mutant: off by one.                                                      *)
MutSlotFree == LiveLeases <= Concurrency
SlotFree == LiveLeases < Concurrency

(* claim_artifact                                                           *)
ClaimArtifact(c, a) ==
  /\ at[c] = "idle" /\ SlotFree
  /\ Claimable(art[a].status, art[a].live)
  /\ art' = [art EXCEPT ![a] = [status |-> "uploading", tries |-> @.tries + 1,
                                owner |-> c, live |-> TRUE]]
  /\ task' = [task EXCEPT ![TaskOf[a]].cloud = "uploading"]
  /\ at' = [at EXCEPT ![c] = "fetch"] /\ work' = [work EXCEPT ![c] = a]
  /\ UNCHANGED <<jobVars, built, missed, plan, ossVars, auxVars, bounds>>

Step(c, from, to) == at[c] = from /\ at' = [at EXCEPT ![c] = to]

(* The source is downloaded if remote, found and hashed; the transfer and   *)
(* its lease heartbeat start.                                               *)
Fetched(c) ==
  /\ Step(c, "fetch", "put")
  /\ UNCHANGED <<jobVars, storeVars, work, built, missed, plan, ossVars, auxVars, bounds>>

(* The object is in OSS and the heartbeat ends; the source is hashed again. *)
Transferred(c) ==
  /\ Step(c, "put", "check")
  /\ bucket' = bucket \cup {work[c]}
  /\ UNCHANGED <<jobVars, storeVars, work, built, missed, plan, manifest, auxVars, bounds>>

ToIdle(c) ==
  /\ at' = [at EXCEPT ![c] = "idle"]
  /\ work' = [work EXCEPT ![c] = Nothing]
  /\ built' = [built EXCEPT ![c] = Nothing]

(* Mutant: a missing source does not count.                                 *)
MutCountsAsFailed(s) == s = "cloud_failed"
CountsAsFailed(s) == s \in {"cloud_failed", "source_missing"}

(* _refresh_counts: the task's counters, from the artifact rows as written. *)
Counted(t, rows) ==
  [task[t] EXCEPT
     !.count = Cardinality({a \in ArtsOf(t) : rows[a].status # "none"}),
     !.failed = Cardinality({a \in ArtsOf(t) : CountsAsFailed(rows[a].status)})]

(* artifact_succeeded, artifact_failed and artifact_source_missing write    *)
(* the row whoever holds its lease by now, then refresh the counters.       *)
ArtifactResult(a, s) ==
  LET rows == [art EXCEPT ![a] = [@ EXCEPT !.status = s, !.owner = Nobody, !.live = FALSE]] IN
  /\ art' = rows
  /\ task' = [task EXCEPT ![TaskOf[a]] = Counted(TaskOf[a], rows)]

ArtifactSucceeded(c) ==
  /\ at[c] = "check"
  /\ ArtifactResult(work[c], "uploaded")
  /\ ToIdle(c)
  /\ UNCHANGED <<jobVars, missed, plan, ossVars, auxVars, bounds>>

FailedStatus(tries) == IF tries >= MaxAttempts THEN "cloud_failed" ELSE "pending"

(* The download or the transfer fails, or the source changed meanwhile.     *)
ArtifactFailed(c) ==
  /\ at[c] \in OnArtifactRow
  /\ ArtifactResult(work[c], FailedStatus(art[work[c]].tries))
  /\ ToIdle(c)
  /\ UNCHANGED <<jobVars, missed, plan, ossVars, auxVars, bounds>>

(* The file is not there, or vanishes.                                      *)
ArtifactSourceMissing(c) ==
  /\ at[c] \in OnArtifactRow
  /\ ArtifactResult(work[c], "source_missing")
  /\ ToIdle(c)
  /\ UNCHANGED <<jobVars, missed, plan, ossVars, auxVars, bounds>>

(* Mutants: artifacts still to be uploaded are not waited for; artifacts    *)
(* that failed are waited for.                                              *)
MutMediaSettled(t) == TRUE
MutMediaUploaded(t) == \A a \in ArtsOf(t) : art[a].status \in {"uploaded", "none"}
MediaSettled(t) == \A a \in ArtsOf(t) : art[a].status \in Settled \cup {"none"}

(* _desired_status and its copy in manifest_succeeded.                      *)
DesiredStatus(row) ==
  IF row.count = 0 THEN "no_artifacts"
  ELSE IF row.failed > 0 THEN "cloud_failed" ELSE "cloud_completed"

(* claim_manifest; the final status is computed from the claimed row.       *)
ClaimManifest(c, t) ==
  /\ at[c] = "idle" /\ SlotFree
  /\ Claimable(task[t].mstatus, task[t].mlive)
  /\ task[t].mtries < MaxAttempts
  /\ MediaSettled(t)
  /\ task' = [task EXCEPT ![t] = [@ EXCEPT !.mstatus = "uploading", !.mtries = task[t].mtries + 1,
                                           !.mowner = c, !.mlive = TRUE]]
  /\ at' = [at EXCEPT ![c] = "build"] /\ work' = [work EXCEPT ![c] = t]
  /\ built' = [built EXCEPT ![c] = [cloud |-> DesiredStatus(task[t]), rows |-> Nothing]]
  /\ relisted' = relisted \ {t}
  /\ UNCHANGED <<jobVars, art, missed, plan, ossVars, strayed, bounds>>

RowsOf(t) == [a \in ArtsOf(t) |-> art[a].status]

(* ManifestExporter.build reads the artifact rows in one transaction.       *)
BuildManifest(c) ==
  /\ Step(c, "build", "putm")
  /\ built' = [built EXCEPT ![c].rows = RowsOf(work[c])]
  /\ UNCHANGED <<jobVars, storeVars, work, missed, plan, ossVars, auxVars, bounds>>

(* The manifest object is written, over an earlier one of the same prompt.  *)
ManifestTransferred(c) ==
  /\ Step(c, "putm", "confirm")
  /\ manifest' = [manifest EXCEPT ![work[c]] = built[c]]
  /\ UNCHANGED <<jobVars, storeVars, work, built, missed, plan, bucket, auxVars, bounds>>

ManifestSucceeded(c) ==
  /\ at[c] = "confirm"
  /\ task' = [task EXCEPT ![work[c]] =
       [@ EXCEPT !.cloud = DesiredStatus(task[work[c]]), !.mstatus = "uploaded",
                 !.mowner = Nobody, !.mlive = FALSE]]
  /\ ToIdle(c)
  /\ UNCHANGED <<jobVars, art, missed, plan, ossVars, auxVars, bounds>>

ManifestFailed(c) ==
  LET last == task[work[c]].mtries >= MaxAttempts IN
  /\ at[c] \in OnManifestRow
  /\ task' = [task EXCEPT ![work[c]] =
       [@ EXCEPT !.cloud = IF last THEN "cloud_failed" ELSE "uploading",
                 !.mstatus = IF last THEN "failed" ELSE "pending",
                 !.mowner = Nobody, !.mlive = FALSE]]
  /\ ToIdle(c)
  /\ UNCHANGED <<jobVars, art, missed, plan, ossVars, auxVars, bounds>>

-----------------------------------------------------------------------------
(* Leases, failures and restarts.                                           *)

Unrenewed(c) == at[c] \in {"fetch", "check", "build", "confirm"}   \* no heartbeat runs

(* renew_artifact_lease: an expired lease that nobody took is revived.      *)
RenewArtifact(c, a) ==
  /\ at[c] = "put" /\ work[c] = a
  /\ art[a].status = "uploading" /\ art[a].owner = c
  /\ art' = [art EXCEPT ![a].live = TRUE]
  /\ UNCHANGED <<jobVars, task, threadVars, missed, plan, ossVars, auxVars, bounds>>

(* renew_manifest_lease                                                     *)
RenewManifest(c, t) ==
  /\ at[c] = "putm" /\ work[c] = t
  /\ task[t].mstatus = "uploading" /\ task[t].mowner = c
  /\ task' = [task EXCEPT ![t].mlive = TRUE]
  /\ UNCHANGED <<jobVars, art, threadVars, missed, plan, ossVars, auxVars, bounds>>

(* A lease runs out after its owner left the row.                           *)
ArtifactLeaseExpires(a) ==
  /\ art[a].status = "uploading" /\ art[a].live
  /\ \A c \in Threads : ~(OnArt(c, a) /\ art[a].owner = c)
  /\ art' = [art EXCEPT ![a].live = FALSE]
  /\ UNCHANGED <<jobVars, task, threadVars, missed, plan, ossVars, auxVars, bounds>>

ManifestLeaseExpires(t) ==
  /\ task[t].mstatus = "uploading" /\ task[t].mlive
  /\ \A c \in Threads : ~(OnManifest(c, t) /\ task[t].mowner = c)
  /\ task' = [task EXCEPT ![t].mlive = FALSE]
  /\ UNCHANGED <<jobVars, art, threadVars, missed, plan, ossVars, auxVars, bounds>>

(* A lease runs out because a download, a hash or a build took longer than  *)
(* lease_seconds; the thread does not notice.                               *)
ArtifactLeaseOutlived(c, a) ==
  /\ OnArt(c, a) /\ Unrenewed(c) /\ Fault
  /\ art[a].status = "uploading" /\ art[a].owner = c /\ art[a].live
  /\ art' = [art EXCEPT ![a].live = FALSE]
  /\ strayed' = strayed \cup {a}
  /\ UNCHANGED <<jobVars, task, threadVars, missed, plan, ossVars, relisted, backfills>>

ManifestLeaseOutlived(c, t) ==
  /\ OnManifest(c, t) /\ Unrenewed(c) /\ Fault
  /\ task[t].mstatus = "uploading" /\ task[t].mowner = c /\ task[t].mlive
  /\ task' = [task EXCEPT ![t].mlive = FALSE]
  /\ strayed' = strayed \cup {t}
  /\ UNCHANGED <<jobVars, art, threadVars, missed, plan, ossVars, relisted, backfills>>

(* Recording a result, or a step of the reconcile pass, raises: _run logs   *)
(* it and goes on, and the row stays as it is.                              *)
StoreRaises(c) ==
  /\ at[c] \notin {"idle", "down"} /\ Fault
  /\ plan' = [plan EXCEPT ![c] = {}]
  /\ ToIdle(c)
  /\ UNCHANGED <<jobVars, storeVars, missed, ossVars, auxVars, backfills>>

(* The process dies with its upload thread.                                 *)
ThreadDies(c) ==
  /\ at[c] # "down" /\ Fault
  /\ at' = [at EXCEPT ![c] = "down"]
  /\ work' = [work EXCEPT ![c] = Nothing] /\ built' = [built EXCEPT ![c] = Nothing]
  /\ plan' = [plan EXCEPT ![c] = {}]
  /\ UNCHANGED <<jobVars, storeVars, missed, ossVars, auxVars, backfills>>

(* It is started again; jobs that ended before are not reconciled by it.    *)
ThreadStarts(c) ==
  /\ Step(c, "down", "idle")
  /\ missed' = [missed EXCEPT ![c] = {t \in Tasks : job[t] \in Terminal}]
  /\ UNCHANGED <<jobVars, storeVars, work, built, plan, ossVars, auxVars, bounds>>

SchedulerStep(t) ==
  SaveHistory(t) \/ JobCompletes(t) \/ CompleteRaises(t) \/ JobCancelled(t) \/ JobLost(t)
  \/ EnqueueCompletion(t) \/ EnqueueLost(t)

Progress(c) ==       \* the thread's next step on the row it holds
  Fetched(c) \/ Transferred(c) \/ ArtifactSucceeded(c) \/ ArtifactFailed(c)
  \/ ArtifactSourceMissing(c) \/ BuildManifest(c) \/ ManifestTransferred(c)
  \/ ManifestSucceeded(c) \/ ManifestFailed(c)
  \/ \E e \in plan[c] : PlanLook(c, e) \/ PlanWrite(c, e)

Next ==
  \/ \E t \in Tasks : SchedulerStep(t) \/ ManifestLeaseExpires(t)
  \/ \E a \in Arts : ArtifactLeaseExpires(a)
  \/ \E S \in SUBSET Tasks : BackfillRead(S)
  \/ \E e \in plan[Operator] : PlanLook(Operator, e) \/ PlanWrite(Operator, e)
  \/ \E c \in Threads :
       \/ Progress(c)
       \/ ReconcileRead(c) \/ StoreRaises(c) \/ ThreadDies(c) \/ ThreadStarts(c)
       \/ \E a \in Arts : ClaimArtifact(c, a) \/ RenewArtifact(c, a) \/ ArtifactLeaseOutlived(c, a)
       \/ \E t \in Tasks : ClaimManifest(c, t) \/ RenewManifest(c, t) \/ ManifestLeaseOutlived(c, t)

Spec == Init /\ [][Next]_vars

(* Threads poll in a loop with bounded waits, transfers end (the OSS client *)
(* and downloads have timeouts), leases run out by the clock, task_done     *)
(* follows complete, and the fleet restarts its processes.  Nothing makes   *)
(* jobs end or transfers succeed.                                           *)
Fairness ==
  /\ \A t \in Tasks : /\ WF_vars(JobCompletes(t) \/ CompleteRaises(t))
                      /\ WF_vars(EnqueueCompletion(t) \/ EnqueueLost(t))
                      /\ WF_vars(ManifestLeaseExpires(t))
  /\ \A a \in Arts : WF_vars(ArtifactLeaseExpires(a))
  /\ \A c \in Threads : /\ WF_vars(Progress(c))
                        /\ WF_vars(ThreadStarts(c))
                        /\ SF_vars(ReconcileRead(c))
  /\ \A a \in Arts : SF_vars(\E c \in Threads : ClaimArtifact(c, a))
  /\ \A t \in Tasks : SF_vars(\E c \in Threads : ClaimManifest(c, t))

FairSpec == Spec /\ Fairness
-----------------------------------------------------------------------------
ArtStatuses == {"none", "pending", "uploading"} \cup Settled
ArtRows == [status : ArtStatuses, tries : Nat, owner : Threads \cup {Nobody}, live : BOOLEAN]
TaskRows == [cloud : {"none", "pending", "uploading"} \cup Final, count : Nat, failed : Nat,
             mstatus : {"none", "pending", "uploading", "uploaded", "failed"},
             mtries : 0 .. MaxAttempts, mowner : Threads \cup {Nobody}, mlive : BOOLEAN]

(* What a manifest object in OSS can say; Nothing, which stands for no      *)
(* object, is none of these.                                                *)
Manifests == [cloud : Final, rows : UNION {[ArtsOf(t) -> ArtStatuses] : t \in Tasks}]
ASSUME NothingAssumption == Nothing \notin Manifests

(* The values the code can leave in each column of the archive tables.      *)
TypeOK ==
  /\ job \in [Tasks -> {"open"} \cup Terminal]
  /\ stage \in [Tasks -> {"executing", "saved", "ended", "registered", "never"}]
  /\ history \subseteq Tasks
  /\ task \in [Tasks -> TaskRows]
  /\ art \in [Arts -> ArtRows]
  /\ at \in [Threads -> {"idle", "reconcile", "down"} \cup OnArtifactRow \cup OnManifestRow]
  /\ work \in [Threads -> Arts \cup Tasks \cup {Nothing}]
  /\ \A c \in Threads : /\ at[c] \in OnArtifactRow => work[c] \in Arts
                        /\ at[c] \in OnManifestRow => work[c] \in Tasks
  /\ plan \in [Registrars -> SUBSET [task : Tasks, do : {"look", "register", "retry"},
                                     found : SUBSET Arts]]
  /\ strayed \subseteq Arts \cup Tasks /\ relisted \subseteq Tasks

(* A row is worked on by one thread at a time, unless a lease of that very  *)
(* row once ran out under its thread: claims, retries, crashes and results  *)
(* of other rows never put two threads on one media object or manifest.     *)
NoDuplicateUpload ==
  \A c, d \in Threads : c # d =>
    /\ \A a \in Arts \ strayed : ~(OnArt(c, a) /\ OnArt(d, a))
    /\ \A t \in Tasks \ strayed : ~(OnManifest(c, t) /\ OnManifest(d, t))

(* What the archive guide says: "claim, lease and the global active count   *)
(* guarantee that tasks are not uploaded twice".                            *)
NoUploadIsRepeated ==
  \A c, d \in Threads : c # d =>
    /\ \A a \in Arts : ~(OnArt(c, a) /\ OnArt(d, a))
    /\ \A t \in Tasks : ~(OnManifest(c, t) /\ OnManifest(d, t))

(* The server-wide limit on uploads holds across all instances, counting    *)
(* the threads that really work and not the leases; only threads on rows    *)
(* whose lease once ran out under its thread may come on top.               *)
AtWork(c) == at[c] \in OnArtifactRow \cup OnManifestRow
GlobalUploadLimit ==
  Cardinality({c \in Threads : AtWork(c) /\ work[c] \notin strayed}) <= Concurrency

(* Neither the prompt's manifest nor an output strayed, and its outputs are *)
(* the ones the manifest was claimed with.                                  *)
Undisturbed(t) == t \notin strayed \cup relisted /\ ArtsOf(t) \cap strayed = {}

(* When the archive says that a prompt's manifest is uploaded, the object   *)
(* in OSS agrees with the tables: same final status, same artifact states.  *)
(* The code breaks this in two cases: a lease of the prompt ran out under   *)
(* its thread, whose late result is written over newer ones; or the prompt  *)
(* was registered with other outputs after the manifest was claimed (a late *)
(* result of a lost job, a backfill of a running one).                      *)
ManifestMatchesRows ==
  \A t \in Tasks : Undisturbed(t) /\ task[t].mstatus = "uploaded" =>
    manifest[t] = [cloud |-> task[t].cloud, rows |-> RowsOf(t)]

(* cloud_completed is only ever reported of a prompt all of whose outputs   *)
(* are in OSS and whose manifest is there too; with the same exceptions.    *)
CompletedIsComplete ==
  \A t \in Tasks : Undisturbed(t) /\ task[t].cloud = "cloud_completed" =>
    /\ \A a \in ArtsOf(t) : art[a].status = "uploaded" /\ a \in bucket
    /\ manifest[t] # Nothing

(* Every job that ended gets an archive row, whichever step of task_done    *)
(* its instance died in.                                                    *)
EndedIsRegistered ==
  \A t \in Tasks : job[t] \in Terminal ~> task[t] # NoTask

(* All media and the manifest settle after crashes, database errors and     *)
(* late results too, except where a thread left the manifest during the     *)
(* last attempt that claim_manifest allows.                                 *)
LeftAtLastAttempt(t) ==
  /\ task[t].mstatus = "uploading" /\ task[t].mtries = MaxAttempts
  /\ \A c \in Threads : ~OnManifest(c, t)
SettlesOrIsLeft ==
  \A t \in Tasks :
    task[t] # NoTask ~> \/ MediaSettled(t) /\ task[t].mstatus \in {"uploaded", "failed"}
                       \/ LeftAtLastAttempt(t)
=============================================================================
