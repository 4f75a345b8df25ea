# Verification of ComfyUI-Account-Manager

TLA+ models, TLC runs and TLAPS proofs for the parts of the plugin that many
instance processes share. Paths below are relative to `src/`.

## 1. The system

The plugin turns a set of ComfyUI instances on one server into a multi-user
service. Every instance is a process on its own port; all of them share SQLite
databases (scheduler, history, agent tasks), a users file and an OSS bucket.
ComfyUI's own prompt queue is replaced: submissions go into a shared table and
each instance's executor thread claims from it.

| Component | State | Operations | Interaction, and what is hard |
|---|---|---|---|
| **Shared scheduler queue** `utils/scheduler_store.py`, queue hooks in `utils/access_control.py` | `scheduler_jobs`, `scheduler_workers` | `enqueue`, `register_worker`, `heartbeat`, `claim`, `complete`, `cancel`, `cancel_all`, `delete_matching`, legacy reclassification | All instances write the same rows. A worker is declared dead by the age of its heartbeat; instances restart on the same port; limits per account and resource class |
| **Cloud archive** `utils/cloud_archive.py`, `admin/cloud_backfill.py` | `scheduler_cloud_tasks`, `scheduler_cloud_artifacts`, OSS objects | `enqueue_task`, reconcile, `claim_artifact`, `claim_manifest`, results, lease renewal, `reset_failed` | One upload thread per instance over one set of rows; leases, retries, crashes, manifests that must agree with the rows |
| **Standalone agent tasks** `utils/agent_tasks.py`, `agent_task_routes.py` | task rows with lease, expiry, state, children | create, claim, update, cancel, expire, recover, reserve a child | A late update races expiry and cancellation; a child is reserved before it is submitted |
| **API result recovery** `utils/api_recovery.py`, `recovery_providers.py` | `scheduler_api_recovery`: checkpoints of provider calls | observe, choose, query, download, publish, acknowledge | One recovery thread per instance; outputs are merged into the history while the lost worker may still finish; two databases |
| **History store** `utils/history_store.py`, `history_assets.py` | history rows, asset index | save with trimming, merge, delete, clear | A save, a merge and a deletion of one entry in any order |
| **Task sessions** `utils/task_sessions.py`, `jwt_auth.py` | session tokens | create, authorise a child prompt | Capacity is read before the child is queued; parents hold workers while they wait |
| **Distributed routes, event relay** `utils/distributed_routes.py`, `internal_api.py` | none of its own | interrupt, queue views, events to the ingress | The worker to interrupt is read before the request is sent; requests to several instances are sent one after the other |
| **Accounts, registration, login guard** `account_manager.py`, `utils/users_db.py`, `timeout.py`, `ip_filter.py` | users file, failed-attempt counters, black and white lists | register, log in, count failures, block | The first administrator is decided before the file lock is taken |
| **Frontend auto refresh** `web/js/autoRefresh.js`, `utils/frontend_reload.py` | busy and pending flags, epoch, stored workflows | check, back up, reload, restore | Re-entrant asynchronous checks; a rolling deployment whose instances answer in any order; a backup that outlives a login |
| **Job logs** `admin/job_logs.py`; **bulk registration** `admin/bulk_register_sentinel.py`; **deployment scripts** `manage_comfyui.sh`; **request filters** `utils/sanitizer.py`, `validate.py`, `force_https.py`; **page scripts** | files | read, format, start and stop processes | Input and output, or stateless |

What makes the components correct:

* *Scheduler*: a prompt is executed at most once; a job that runs can always
  still be declared lost; limits and pools hold whatever restarts, clocks and
  reclassification do; only owners and administrators cancel; an account's jobs
  start in order; nobody starves; a dead worker is noticed.
* *Cloud archive*: a row is worked on by one thread; the server-wide upload limit
  holds; what the tables report is what OSS holds; attempts are bounded; jobs
  that ended are registered; registered ones settle; abandoned work is resumed.
* *Agent tasks*: an interrupted generation is never run again; a child is submitted
  once; a cancellation reaches the children and is not undone; nobody starves.
* *Recovery and history*: a worker's own result is never overwritten; a checkpoint is
  closed only by what was published; recovered results of several calls do not
  displace each other; every checkpoint is settled.
* *Sessions*: a child prompt that was let in can be executed.
* *Routing*: an interrupt only reaches the job it was meant for.
* *Accounts*: names are unique and no account is lost, whatever the instances have
  cached; only the first registrations make administrators; tries are bounded; a
  blacklisted address is kept out by every instance.
* *Auto refresh*: no edit is lost or shown to another account; no refresh loop; every
  check that was asked for is made.

`PROJECT.json` lists the hazards line by line and the properties that cover them.

## 2. Modules

| Module | What it is |
|---|---|
| `Scheduler` | the shared queue and the instance processes around it |
| `JobLifecycle` | abstract: what the queue promises about one job |
| `CloudArchive` | registration, upload threads, manifests, backfill |
| `AgentTasks` | agent tasks, the runner slots, cancel and child submission |
| `ApiRecovery` | checkpoints, recovery threads, the history table, over `JobLifecycle` |
| `TaskSessions` | child prompts of executing jobs; extends `Scheduler` |
| `Interrupts` | interrupts across instances; extends `TaskSessions` |
| `Accounts` | users file, registration, login, lock-outs, address lists |
| `AutoRefresh` | one browser tab over a rolling deployment |
| `MCScheduler`, `MCInterrupts`, `MCCloudArchive`, `MCAgentTasks`, `MCApiRecovery`, `MCAccounts`, `MCAutoRefresh` | instances for TLC |
| `SchedulerProofs`, `LifecycleProofs`, `CloudProofs`, `AgentProofs`, `RecoveryProofs`, `AccountsProofs`, `RefreshProofs`, `InterruptProofs` | theorems |

### Scheduler

*State.* `status`, `job`, `workerPort` are the columns of `scheduler_jobs`;
`pid`, `active`, `age`, `pool` those of `scheduler_workers`, with `last_heartbeat`
kept as the time passed since. `phase`, `held`, `tries`, `ok` are what an instance
process is doing: waiting for work (`up`), executing, in `user_queue_task_done`
(`finishing`), with an executor thread ended by an exception (`raised`), dead.
A process is started once; a restart is another process with the same port.

*Atomicity.* Every store operation is one `BEGIN IMMEDIATE` transaction, hence one
action. Its clock is read before the transaction begins, so every action that
writes `last_heartbeat` or compares it takes a `lag` of up to `MaxLag`.
`delete_matching` is several transactions and two actions: `DeleteRead` takes the
snapshot, `DeleteNext` re-checks and cancels candidate by candidate.
`user_queue_task_done` is `Finish` (history saved) then `Complete` or
`CompleteRaises`, up to three attempts.

*Abstractions.* A workflow is its kind (holds a GPU node or not), which is all
`classify_item` looks at. Log positions, the asset index, payloads and read-only
listings are left out. One `delete_matching` call is in progress at a time. Queue
numbers of different processes are not synchronised by the code, so submission
order means the order of the `sequence` column.

### JobLifecycle

Hand-out at most once, cancelled and lost jobs never handed out, results final and
recorded only after the execution ended. `Scheduler` implements it with
`state <- status` and `executing` the jobs some process really executes.

### CloudArchive

*State.* `task` and `art` are rows of the two tables, with lease expiry reduced to
live or expired; `at`, `work`, `built` what each upload thread does; `plan` what a
reconcile pass or the backfill tool has read and not yet written; `missed` the
jobs that ended before a process's `_archive_started_at`, which its reconcile pass
does not look at; `bucket` and `manifest` what OSS holds. Two history variables,
which no action reads, name what the properties except: `strayed` the rows whose
lease once ran out under the thread at work on them, `relisted` the prompts registered
with other outputs since their manifest was claimed.

*Steps.* Each store method is one action. An upload is claimed, fetched
(downloaded, hashed), transferred and recorded; renewal is possible only in the
transfer, as in the code, and in every other step the lease may run out under the
thread (`ArtifactLeaseOutlived`, `ManifestLeaseOutlived`). A late worker may save and
complete after its job was marked lost and archived; the backfill tool may pick any
prompt, also one that runs. The list of prompts a registrar works off, the look at the
history of each and the writes are separate steps. The order of `task_done` (history,
`complete`, registration) is kept, with a failure possible between any two.

*Abstractions.* A failed job is not told from a completed one (the archive treats
them alike). Whether a retry is due is left open, so any claimable row may be
claimed. Object keys, digests and the manifest's text are reduced to the artifact
states and the final status it carries.

### AgentTasks

*State.* `state`, `lease`, `fresh` (lease_until not passed), `checkpoint`,
`recoveryOnly`, `created` are a row of `agent_tasks`; `child` the keys in
`agent_children`; `job` the scheduler status of each child prompt. `holds` is the
task a slot of the runner service works on, `req` a child submission in flight
(token checked, row reserved, prompt handed to the handler), `cancelling` a cancel
request in flight (task marked, children listed). `runs` and `asked` are history:
how often the generation was handed out, and which cancellations were granted
and not recovered from.

*Steps.* Store methods are single transactions. The delegated route is cut at its
transactions: token
check, `reserve_child`, the prompt handler with `child_response`, and the second
look at the task, followed by the cancel of the child if the task no longer runs; the
cancel route is one for the mark, one for the list and one
per child. `expire` is part of every claim and of a recovery that succeeds.

*Abstractions.* The runner service is outside the repository: it may send any
update the route accepts; the one thing assumed of it is that an update to
`delivering` carries the checkpoint, as the tests show it. Events, results and the
workflow behind a key are left out; a key repeated with another workflow is refused
and changes nothing.

### ApiRecovery

*State.* `status`, `executing` are the queue as `JobLifecycle` describes it (the model
instantiates that module, which `Scheduler` is proved to implement, instead of
carrying the whole queue along); `result`, `saved` where `user_queue_task_done` of a
job is; `item` the history table: the kind of the entry and the note recovery left
for each call; `row`, `failures`, `old` the table `scheduler_api_recovery`; `lock`,
`at`, `call`, `plan` the file lock and `run_once` of every instance. `merged`,
`unsaved`, `dropped`, `own` are history variables.

*Steps.* `_recover_one` is cut where it leaves the process or a database: the row is
chosen, the provider answers, files are downloaded, the history is merged (under the
queue's write lock, so `require_lost` and the merge are one step), the checkpoint is
updated. `save` and its trimming, `delete`, `delete_owner`, `clear` and
`merge_api_recovery` are all the writes to the history table.

*Abstractions.* A provider's answer is its outcome; the files of a call have a path of
their own and are not told apart. Whether a retry is due is left open. Orders that
no rule in `submission` recognises are never checkpointed and do not occur.

### TaskSessions and Interrupts

`TaskSessions` adds to `Scheduler` the request of a node that runs inside a job:
`authorize` up to the await of the body (`AskForChild`), the rest of it with the two
capacity checks (`Authorize`), and the prompt handler (`PostChild`). The node is a
custom node and external: that it waits for its child is taken from `authorize`'s
messages. `Interrupts` adds `_route_interrupt`: where the jobs run is read once, then
one request per instance, then the local handler. ComfyUI's handler is external
(`Stops`): it stops what its process executes; if a prompt is named, only while
`get_current_queue` lists it, and that list is the shared table.

### Accounts

`users` is the users file and `known` each instance's copy; `blacklist`, `black`,
`blackHash`, `whiteHash` the address lists with the cache by content; `failures`,
`locked` the lock-out in an instance's memory. A request passes the address filter
(`Arrive`), awaits its body, and is handled; any number of requests of an address may
wait at an instance (`inbox`). `misses` counts the wrong tries of an address and
`raised` those of them on which `add_failed_attempt` raised; both are history. A
registration is one step for its checks
and one for `add_user`, because the file lock is only taken there. Passwords are right
or wrong. `load_ip_list` and `add_to_blacklist` are modelled with the exceptions they
raise (section 4). The sanitizer, tokens and pages are left out.

### AutoRefresh

`checkForUpdate` is one action up to its first await and one per await after it:
answer, restore, snapshot; every event that enters it is an action of its own. A
workflow is the set of edits it contains; `sessionStorage` is `backup` and `seen`.
Instances serve the revision they were started with, and while a deployment is under
way any of them may answer. The browser keeps or loses its own drafts (`PageLoads`).
`account` is the login cookie, which all tabs of the browser share: a login reloads
this tab (`LogIn`) or happens in another one (`LogInElsewhere`), and then this tab goes
on with what it has while answers name the new account. `carried` is history: which
edits the tab held when it came to be which account's. Left out is a script URL
without `am_revision`, whose page takes the first answer's revision for its own.

## 3. Runs

Every `pass` run is exhaustive within its bounds.

| Run | Instance | Shows |
|---|---|---|
| `scheduler_restarts` | 2 prompts, 2 accounts, port w1 with two processes that may overlap, port w2 with one, lag 1, one crash, delete sweeps | `RunningIsTracked`, `ExclusiveExecution`, `CancelIsolation`, `ImplementsLifecycle` |
| `scheduler_limits` | 2 prompts of one account, two ports with two processes each, an unconfigured, an api and a gpu worker, gpu limit 1, two crashes, three database errors, heartbeats within the deadline | `TypeOK`, `PhysicalLimit`, `LostOnlyWhenDead`, `ConcurrencyLimit`, `IdleWorkerCanClaim` |
| `scheduler_served` | fair; 3 prompts, one account's jobs never end, one crash and a restart | `FifoPerOwner`, `QueuedIsServed`, `DeadWorkerDetected` |
| `sessions_interrupts` | fair; two parents with a child each, two ports, one crash and a restart, interrupts of one account | `ForwardedHitsTarget`, `ChildIsServed` |
| `cloud_leases` | 1 prompt with 2 outputs, 2 threads, 1 slot, late results, 1 fault (crash, database error or outlived lease), 1 run of the backfill tool | `ManifestMatchesRows`, `CompletedIsComplete`, `GlobalUploadLimit` |
| `cloud_takeover` | fair; 1 output, 2 threads, 2 slots, late results, 1 fault of the same kinds | `NoDuplicateUpload`, `SettlesOrIsLeft`, `EndedIsRegistered` |
| `agent_children` | 1 task, 2 keys, 2 requests, 2 runner slots, 2 faults, 1 recovery | `NoReplay`, `SubmittedOnce`, `CancelReachesChildren`, `CancelledSucceedsByDelivery` |
| `agent_claims` | fair; 2 tasks of one account that may run one, 2 runner slots, 2 faults, 1 recovery | `LeaseLimits`, `QueuedIsClaimed` |
| `api_recovery` | fair; 1 job with 2 calls, 2 instances, 2 failures per call, one death, database error or deletion | `AcknowledgedIsPublished`, `CompletedShowsOwnResult`, `RecoveredIsShown`, `SuccessIsFinal`, `LostCallsSettle` |
| `accounts` | 2 instances, 2 names, 2 addresses, threshold 2, blacklist after 3, 5 wrong tries, 2 requests awaited at a time by each instance, 1 restart | `UsersFileIntact`, `LateAccountsNeedAdmin`, `TriesBounded`, `BlacklistedStaysOut` |
| `auto_refresh` | fair; 2 accounts, 2 revisions, 1 edit, 2 lost connections, 1 fault, 2 reloads, openings of a workflow or logins | `EditsSurviveRefresh`, `NoForeignEdits`, `RefreshNeedsConnection`, `NoRefreshLoop`, `AskedCheckRuns` |
| `interrupt_foreign` | two accounts, two instances | section 4 |

Why these bounds. The scheduler's hazards need one job that blocks and one that is
blocked, two processes of one port for a restart, and another port that observes;
ages matter only up to `Stale + MaxLag + 1`. The archive's need two threads for one
row, two attempts (a last and one that is not), and two outputs so that a task is
half settled; `NoDuplicateUpload` is checked with two slots, because one slot alone
would already keep a second thread away. One fault is enough for a lease to be outlived
and its row to be taken over, and one backfill for a registration under a manifest or for
a retry; the proofs hold for any number of both. An agent task's need two requests for one
child and a second child that a cancel may miss. Recovery needs two calls of one job
(each may displace the other's note) and a second instance; a failure limit of two has
a failure that is retried and one that is not. `sessions_interrupts` fixes the order
in which processes and prompts appear first, up to renaming, and lets executions end
well (`MCInOrder`): how they end makes no difference to waiting or interrupting.
Lock-outs need a threshold below the blacklist limit and tries enough to reach both, and a
try that raises needs a second request that waits. The service-wide limit of the agent
tasks is not reached by the two of `agent_claims`; `LeaseLimitsHold` proves it. A tab needs two connections lost in one check, and two logins to come
back to an account whose edits it still holds. Deadlock is not checked: prompts,
crashes and recoveries are finite budgets, and a system that has used them up may
stop. Symmetry is used for prompts, threads, runners, requests, keys and in `Accounts` for
everything, in the runs without liveness; `scheduler_served` uses prompt ids in a fixed order instead. `cloud_leases`
has a view (`MCView`) that leaves out what neither the archive's next steps nor the
properties can tell apart: how a job ended, attempts beyond the limit, and the attempts of
settled rows.

*Fairness.* `Scheduler`: the heartbeat thread runs on a timer, the claim loop polls,
`task_done` follows an execution, time passes, the operator starts the instances;
`Terminating` names the accounts whose executions end, and nothing is assumed of
the others. `CloudArchive`: threads poll with bounded waits, transfers and downloads
end because they have timeouts (not that they succeed), leases run out, processes
are restarted. Claims are strongly fair: a row may be unclaimable again and again
while the slots are taken, but claims take rows in a fixed order and every row has
finitely many attempts, so none is passed over for ever. `AgentTasks`: runner slots
poll, a run ends or is refused its next update, unrenewed leases run out.
`TaskSessions`: workers start, claim and complete, and an execution ends unless it
waits for its child. `ApiRecovery`: the thread wakes, its requests have timeouts, the
clock runs; nothing is assumed of the provider, not even that it ever answers. Of the
database it is assumed that it errs finitely often: a row whose publication always
raised would stay the first one due and hold up the others.
`AutoRefresh`: timers fire, the request has a time limit, loading ends; nothing is
assumed of the network.

## 4. Where the code and its documents disagree

`interrupt_foreign` is a run that TLC refutes and an entry under `findings`: an
interrupt that is left to the local handler (for a job that had no worker yet, or
after other instances were asked) stops whatever that instance executes by then, also
the job of another account. The global scheduling guide says that ordinary users
cannot interrupt the jobs of others.

Other limits of the code are stated by the properties themselves, as their exceptions,
or as assumptions of the theorems:

* `IdleWorkerCanClaim`: when `complete` fails three times the worker row stays busy
  while heartbeats continue, and the instance claims nothing until it restarts. The
  property says that nothing less does this.
* `NoDuplicateUpload`, `GlobalUploadLimit`: the archive guide
  (`docs/OSS云归档使用文档.md`) says that the plugin "将全服务器对象上传并发硬限制为最多 2"
  (line 90) and that "SQLite claim、lease 和全局活动计数会保证任务不重复上传。上传 lease 每 60
  秒续期" (line 92). Neither holds of every upload: the lease is renewed during the transfer
  only, so a download, a hash or the building of a manifest that outlives it
  is taken over by a second thread while the first works on. The guide's claim is
  `NoUploadIsRepeated`; add it as an `INVARIANT` to `CloudTakeover.cfg` and TLC shows the
  doubled upload. The properties say that this happens to no row but one whose own
  lease was outlived (`strayed`), and that only threads on such rows come on top of
  the limit. `SettlesOrIsLeft` holds of these rows too.
* `ManifestMatchesRows`, `CompletedIsComplete`: the code breaks both in two cases, and
  the properties except exactly these (`Undisturbed`). A thread whose lease ran out
  records its result over that of the thread that took over (`strayed`). And a prompt is
  registered with other outputs while its manifest is being uploaded or after it was:
  a job archived as lost that completes after all gets artifact rows behind an uploaded
  manifest that is not rebuilt; a backfill of a prompt that runs registers it without outputs,
  which come later (`relisted`). Drop `Undisturbed(t)` from either and
  TLC shows both on `CloudLeases.cfg`. A registration that finds the same outputs
  again, a retry, a crash or a late result before the manifest is claimed are not
  excepted.
* `SettlesOrIsLeft`: an expired manifest on its last attempt is claimed by nobody; the
  property names the exception.
* `CancelledSucceedsByDelivery`: the update to `delivering` overwrites
  `cancel_requested`, so a task the owner cancelled may complete, but only by
  delivering a checkpoint that was saved.
* `DistinctPids`: `register_worker` recognises a restart by a changed pid. A process
  that comes back with the same pid clears `active_prompt_id` without marking the
  job lost; no row names it any more and its slot is never freed.
* `TimelyFleet`: a live worker without a heartbeat for `stale_seconds` goes on
  executing while its slot is given away (raise `HeartbeatDeadline` in
  `SchedulerLimits.cfg` and `PhysicalLimit` fails).
* `AlikeFleet`: `FifoPerOwner` is about instances that all have `gpu_node_types` or all
  lack it; otherwise a start moves waiting jobs to another class, behind or before
  jobs they were not compared with.
* An expired upload is claimed whatever its attempt count, so every crash may cost one
  attempt more than `cloud_max_attempts`.
* `EndedIsRegistered` is checked with one fault: if every instance restarted after the
  job ended, no reconcile pass looks at it (`_archive_started_at`), and only the
  backfill tool registers it.
* `RecoveredIsShown` excepts jobs whose worker saved an entry after all: a late worker
  that ends with an error writes the whole entry anew, without what was recovered. A
  call accepted after its job was declared lost is not checkpointed at all.
* `ChildIsServed` holds as long as no worker crashed: the one that died may have been
  the one that was counted as free.
* `LateAccountsNeedAdmin` does not say that there is one administrator: registrations
  that all find an empty file before the first is added all get the rank.
* `AllowedIsAnswered` holds until the blacklist file exists (and without a whitelist
  file): the second load of an unchanged list looks up an attribute with an empty name
  and raises, so every request is answered with an error; adding a second address to
  the file raises because it is opened for appending only; an address is never found
  in the whitelist because text is compared with address objects.
* `TriesBounded`: counters are per instance, so the bound is the threshold times the
  number of instances, and a restart starts over. It is a bound on the tries that are
  counted. Requests that wait for their body (`sanitizer.py:51`) have passed the address
  filter; once the blacklist file exists, `add_failed_attempt` raises for each of them in
  `load_filter_list` (`ip_filter.py:70`) before it counts (`timeout.py:21`), so all that wait
  are made uncounted. The property says that no other try is, and
  none before an address was blacklisted.
* `EditsSurviveRefresh` is about edits that were open at the refresh. Edits made after
  the reload and before the restore are overwritten by it, and if only the second
  write to `sessionStorage` fails, the backup left behind replaces later edits.
* `NoForeignEdits`: `README.md:174` says that backups are bound to the authenticated
  account. After a login in another tab the answer names the new account while this tab
  still shows the old one's workflows; `snapshotWorkflows` stores them as the
  new account's and they are restored to it after the refresh. The property excepts the
  edits the tab held at such a login, or backed up on an answer from before it (`carried`), and
  no others.
* `NoReplay`, `SubmittedOnce`: a slow request of an old runner may reserve a child under a new
  one's lease, because `reserve_child` looks at the task's state and not at the lease. The
  child is still submitted once.
* `AskedCheckRuns` holds until the connection is lost. When the network goes away and
  returns while the WebSocket survives, `disconnected` stays set and no check is made
  until the socket reconnects, although `README.md:163` says that the revision is checked
  when "the browser comes online".

## 5. Proofs

All theorems hold for every value of the constants that satisfies the `ASSUME`s of
the model (finite sets, limits positive, ports and pids well-formed).

| Theorem | Further assumption | Argument |
|---|---|---|
| `SchedulerTypeCorrect` | | `TypeInv`: `TypeOK`, and every submitted row is complete (`NoJob` is only used for absent rows) |
| `ExclusiveExecutionHolds` | | `HandOutInv`: a held job is running or lost and names its holder's port, never queued, so `claim` cannot take it again |
| `RunningIsTrackedHolds` | `DistinctPids` | `TrackInv`: a row's active job was claimed on that port, and a row's pid belongs to a process that was started, so a new process always differs from it |
| `ConcurrencyLimitHolds` | | `LimitInv`: the limit stored in an ordinary account's queued job is the one for its class, also after reclassification; one claim adds one to a count below it |
| `PoolIsolationHolds` | | reclassification touches queued jobs only and held jobs are never queued |
| `LifecycleImplemented` | | every action maps to a lifecycle step or a stutter; `HandOutInv` excludes a result while another process executes the job |
| `LostOnlyWhenDeadHolds` | `DistinctPids`, `TimelyFleet` | `TimelyInv`: the row of a live process is never older than `Stale` |
| `PhysicalLimitHolds` | the same | held jobs are running, and running jobs are within the limit |
| `ResultsStandHolds` | | read off the lifecycle steps |
| `CancelIsolationHolds` | | inductive as it stands: every cancel checks the row in its own transaction, and owners never change |
| `FifoPerOwnerHolds` | `AlikeFleet` | `OrderInv`: sequence numbers do not exceed the number of rows, so a new row is last; rows of one account and class store the same limit, so they are eligible together and `claim` takes the first |
| `IdleWorkerCanClaimHolds` | `DistinctPids`, `TimelyFleet` | `TriesAreFailures`: no process has failed more often than the database; with `TrackInv` and `TimelyInv`, `complete` finds its own job in the row and frees it |
| `InterruptsImplementQueue` | | `SessionInv`: a child is posted for a workflow that was asked for, on behalf of a row that is complete; so it is a submission |
| `ForwardedHitsTargetHolds` | `DistinctPids`, `TimelyFleet` | a running job is the active job of its port, and the process that executes there holds a running job of that port |
| `CloudTypeCorrect` | | inductive; includes that manifest attempts never exceed `MaxAttempts` |
| `NoDuplicateUploadHolds` | | `LeaseInv`: whoever works on a row that did not stray owns its live lease; `RetryInv`: a planned retry is for a prompt nobody works on, except on strayed rows |
| `GlobalUploadLimitHolds` | | `LeasesInLimit`: claims count live leases of both tables; by `LeaseInv` a thread that works on a row that did not stray owns one, and no two threads the same |
| `ManifestMatchesRowsHolds`, `CompletedIsCompleteHolds` | | `ArchiveInv`, see below |
| `AgentTypeCorrect` | | inductive |
| `LeaseLimitsHold` | | a claim adds one lease below both limits; every other step removes leases |
| `CancelledSucceedsByDeliveryHolds` | | `AskedInv`: a task whose cancellation was granted never runs again, and is queued, delivered or completed only with a checkpoint; `LeasedIsActive` |
| `CancelReachesChildrenHolds` | | `ReachInv`: a queued child of a cancelled task is covered by the cancel request, before or after it listed the children, or by its own submission, which looks at the task again |
| `NoReplayHolds` | | `ReplayInv`: a waiting task is new, or has a checkpoint, or is marked recovery only; only a task with a checkpoint is delivered, so only such a task is queued again by expiry |
| `SubmittedOnceHolds` | | `ChildInv`: a request between reservation and the end has its row to itself, and a job exists only for a reserved row |
| `RecoveryTypeCorrect` | | `Retries`: a pending row and a planned retry have a failure to spare |
| `OneRecovererHolds` | | `Serial`: whoever works on a call holds the lock, and the row stays pending until that instance acknowledges it |
| `AcknowledgedIsPublishedHolds` | | `Published`: between publication and acknowledgement the plan is what was merged; `Serial` keeps others out |
| `CompletedShowsOwnResultHolds` | | `Ended`: completed implies saved with success; `OwnResult`: such an entry is the worker's own |
| `RecoveredIsShownHolds` | | `PublishedIsShown` carries it from publication to acknowledgement; a merge changes one call's note only |
| `SuccessIsFinalHolds` | | `WrittenOnce`: a worker whose success is in the history does not save again |
| `UsersFileIntactHolds` | | the file is only appended to, under the lock, after a second look at it |
| `LateAccountsNeedAdminHolds` | | `FirstIsAdmin`: once an account is confirmed there is an administrator, and a registration without the rank knows of one |
| `AccountsTypeCorrect` | | `Counted`: no counter is ahead of the tries made, no lock below the threshold |
| `AllowedIsAnsweredHolds` | | `ListedLate`: there is no blacklist file before enough tries were made |
| `BlacklistedStaysOutHolds` | | a filter that does not raise has just read the file |
| `TriesBoundedHolds` | | `TriesInv`, see below |
| `EditsSurviveRefreshHolds` | | `Owed`: what was taken along is all in the backup while there is one, and none is left when a new one is made |
| `NoForeignEditsHolds` | | `Owners`: a backup holds edits its account may see, or carried ones; the same holds of the account a check was answered with |
| `RefreshTypeCorrect` | | `Flags`, `Connection` |
| `RefreshNeedsConnectionHolds` | | `Connection`: a loss after the answer shows in the epoch |
| `NoRefreshLoopHolds` | | `Newer`: the stored revision is that of the last refresh, and a snapshot is only taken for a newer one |

Why the assumptions in the second column are needed is said in section 4.

The invariants of `ApiRecovery`, `Accounts` and `AutoRefresh` are not inductive by
themselves because each reads state that another step prepared: what an instance
planned, what a registration found, what a check was answered. The strengthenings say
what that state still implies when it is used.

`ArchiveInv` is what lets `cloud_completed` be trusted, although it is computed from
counters that registrations, results and resets write separately. Its parts: a registrar
found all outputs of a prompt or none (`PlanInv`), so its rows are all there or none is,
and a failure counter of zero means no failed row (`RowInv`); for prompts that are
`Undisturbed`, a manifest under construction or uploaded was built from settled rows that
have not changed since (`BuildInv`, `DoneInv`); a row is declared uploaded only behind a
transfer that was seen in OSS (`BucketInv`). A retry breaks the agreement of rows and
manifest on purpose; that it also takes the manifest back is the part of the argument tests
would hardly reach, and it needs `LeaseInv` and `RetryInv`: no thread that read the old
rows is still at work.

`TriesInv` replaces a sum over instances by counting tokens, `Threshold` of them for
each instance. An instance that locks an address out has spent all of its tokens for it;
any other has spent one for each counted failure but the last, because a lock-out
leaves the counter where it was. Every wrong try that is counted to the end then spends a
token that was not spent; the others are in `raised`, and `RaisedLate` says that there
are none before the blacklist file has an address in it.

Every safety property a run checks is also a theorem, except `OnlyOwnJobsStopped`, which
the run refutes. Only model-checked is liveness, because fairness and `ENABLED` are
outside the prover: `QueuedIsServed`, `DeadWorkerDetected`, `ChildIsServed`,
`SettlesOrIsLeft`, `EndedIsRegistered`, `QueuedIsClaimed`, `LostCallsSettle`,
`AskedCheckRuns`. `ArchiveInv` and `TriesInv` were checked with TLC on the instances of
`cloud_leases` and `accounts` before they were proved.

Type correctness, `PoolIsolation`, `ResultsStand`, `OneRecoverer` and `AllowedIsAnswered` are proved and
not checked by a run of their own, except for the scheduler's types.

## 6. Not modelled, and the plan

What could be added to the proofs is smaller: how far rows and manifest of a disturbed
prompt can come apart, and
`PhysicalLimit` for fleets whose workers are late by a known number of ticks.

Left out for good:

* the relay of progress events and asset routing (`distributed_routes.py`,
  `internal_api.py`): requests that only read, and messages nobody waits for;
* job logs (`admin/job_logs.py`): reading and formatting of files;
* audit rows of provider calls (`api_audit.py`): one row per call, never read back by
  the program; the observer it calls is part of `ApiRecovery`;
* asset access and per-user folders: path computation for one request;
* request filters (`sanitizer.py`, `validate.py`, `force_https.py`), tokens and cookies
  (`jwt_auth.py`): functions of one request;
* page scripts and styles other than the refresh, bulk registration, the shell
  scripts: starting and stopping instances enters the models as `StartProcess`,
  `Crash`, `AllowOverlap`, `Restart` and `Deploy`.
