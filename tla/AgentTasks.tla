----------------------------- MODULE AgentTasks -----------------------------
(***************************************************************************)
(* Standalone agent tasks: the tables agent_tasks and agent_children       *)
(* (utils/agent_tasks.py), the routes over them                            *)
(* (utils/agent_task_routes.py) and the scheduler jobs an agent submits.   *)
(*                                                                         *)
(* The runner is a separate service: it claims tasks and updates them      *)
(* through the internal route, and submits child prompts with the token it *)
(* got with the claim.  One Runner stands for one execution slot of it, so *)
(* a slot identifies the lease it was given last.  A request for a child   *)
(* and a cancel request are several transactions, and other instances'     *)
(* transactions come between them.  lease_until is reduced to whether it   *)
(* has passed.  A key that is used again with another workflow is refused  *)
(* and changes nothing.                                                    *)
(***************************************************************************)
EXTENDS Integers, FiniteSets

CONSTANTS
  Tasks, OwnerOf,   \* one task for each (owner, submission_key)
  Keys,             \* client_id of a child prompt
  Runners,          \* execution slots of the runner service
  Requests,         \* child submissions in flight
  Concurrency, PerUser, PendingPerUser,
  MaxFaults,        \* bound: deaths of runners and instances, missed renewals
  MaxRecovers,      \* bound: recover requests
  NoTask, NoKey, Nobody

ASSUME AgentAssumption ==
  /\ IsFiniteSet(Tasks) /\ NoTask \notin Tasks /\ Nobody \notin Runners
  /\ {Concurrency, PerUser, PendingPerUser} \subseteq Nat \ {0}
  /\ MaxFaults \in Nat /\ MaxRecovers \in Nat

VARIABLES
  state, lease, fresh,      \* columns of agent_tasks; lease_until not passed
  checkpoint, recoveryOnly, \* a delivery checkpoint is saved; job.recovery_only
  created,                  \* submission order
  child, job,               \* agent_children; scheduler status of the child prompt
  runs, asked,              \* history: generations handed out; cancellations granted
  holds,                    \* the task a runner slot works on
  req,                      \* child submissions in flight
  cancelling,               \* cancel requests in flight
  faults, recovers

rowVars == <<state, lease, fresh, checkpoint, recoveryOnly, created>>
childVars == <<child, job>>
histVars == <<runs, asked>>
bounds == <<faults, recovers>>
vars == <<rowVars, childVars, histVars, holds, req, cancelling, bounds>>

Terminal == {"completed", "failed", "cancelled", "recovery_required"}
Active == {"running", "delivering", "cancel_requested"}
NoRequest == [at |-> "idle", task |-> NoTask, key |-> NoKey]
NoCancel == [at |-> "idle", todo |-> {}]

Fault == faults < MaxFaults /\ faults' = faults + 1

Init ==
  /\ state = [t \in Tasks |-> "absent"]
  /\ lease = [t \in Tasks |-> Nobody]
  /\ fresh = [t \in Tasks |-> FALSE]
  /\ checkpoint = [t \in Tasks |-> FALSE]
  /\ recoveryOnly = [t \in Tasks |-> FALSE]
  /\ created = [t \in Tasks |-> 0]
  /\ child = [t \in Tasks |-> {}]
  /\ job = [t \in Tasks |-> [k \in Keys |-> "absent"]]
  /\ runs = [t \in Tasks |-> 0]
  /\ asked = {}
  /\ holds = [r \in Runners |-> NoTask]
  /\ req = [q \in Requests |-> NoRequest]
  /\ cancelling = [t \in Tasks |-> NoCancel]
  /\ faults = 0 /\ recovers = 0

-----------------------------------------------------------------------------
(* The store.                                                               *)

Pending(u) == {t \in Tasks : OwnerOf[t] = u /\ state[t] \notin Terminal \cup {"absent"}}

(* create; a second call with the same key returns the row.                 *)
Create(t) ==
  /\ state[t] = "absent"
  /\ Cardinality(Pending(OwnerOf[t])) < PendingPerUser
  /\ state' = [state EXCEPT ![t] = "queued"]
  /\ created' = [created EXCEPT ![t] = Cardinality({u \in Tasks : state[u] # "absent"}) + 1]
  /\ UNCHANGED <<lease, fresh, checkpoint, recoveryOnly, childVars, histVars, holds, req,
                 cancelling, bounds>>

(* Mutant: tasks whose cancellation is pending are forgotten.               *)
MutIsExpired(t) == state[t] \in {"running", "delivering"} /\ ~fresh[t]
IsExpired(t) == state[t] \in Active /\ ~fresh[t]

(* Mutant: everything interrupted is queued again.                          *)
MutAfterExpiry(s) == "queued"
AfterExpiry(s) == IF s = "delivering" THEN "queued" ELSE "recovery_required"

(* expire: the rows as the statement leaves them.                           *)
ExpiredState == [t \in Tasks |-> IF IsExpired(t) THEN AfterExpiry(state[t]) ELSE state[t]]
ExpiredLease == [t \in Tasks |-> IF IsExpired(t) THEN Nobody ELSE lease[t]]

Leased(u) == {t \in Tasks : ExpiredLease[t] # Nobody /\ OwnerOf[t] = u}

(* Mutant: the account's limit is not looked at.                            *)
MutAccountHasRoom(u) == TRUE
AccountHasRoom(u) == Cardinality(Leased(u)) < PerUser

Claimable(t) ==
  /\ Cardinality({u \in Tasks : ExpiredLease[u] # Nobody}) < Concurrency
  /\ ExpiredState[t] = "queued" /\ AccountHasRoom(OwnerOf[t])

(* claim, a task found: the oldest one, for delivery if it has a checkpoint.*)
Claim(r, t) ==
  /\ holds[r] = NoTask
  /\ Claimable(t) /\ \A u \in Tasks : Claimable(u) => created[t] <= created[u]
  /\ state' = [ExpiredState EXCEPT ![t] = IF checkpoint[t] THEN "delivering" ELSE "running"]
  /\ lease' = [ExpiredLease EXCEPT ![t] = r]
  /\ fresh' = [fresh EXCEPT ![t] = TRUE]
  /\ runs' = [runs EXCEPT ![t] = IF checkpoint[t] \/ recoveryOnly[t] THEN runs[t] ELSE runs[t] + 1]
  /\ holds' = [holds EXCEPT ![r] = t]
  /\ UNCHANGED <<checkpoint, recoveryOnly, created, childVars, asked, req, cancelling, bounds>>

(* claim, nothing found: the expiry is committed all the same.              *)
ClaimNothing(r) ==
  /\ holds[r] = NoTask /\ \A t \in Tasks : ~Claimable(t)
  /\ state' = ExpiredState /\ lease' = ExpiredLease
  /\ UNCHANGED <<fresh, checkpoint, recoveryOnly, created, childVars, histVars, holds, req,
                 cancelling, bounds>>

(* Mutant: the pending cancellation is overwritten.                         *)
MutTarget(s, to) == to
Target(s, to) == IF s = "cancel_requested" /\ to = "completed" THEN "cancelled" ELSE to

(* The row update finds: this lease, not run out.                           *)
HasLease(r) == holds[r] # NoTask /\ lease[holds[r]] = r /\ fresh[holds[r]]

(* update: events or a checkpoint alone renew the lease and keep the state. *)
UpdateProgress(r, saves) ==
  /\ HasLease(r)
  /\ checkpoint' = [checkpoint EXCEPT ![holds[r]] = checkpoint[holds[r]] \/ saves]
  /\ UNCHANGED <<state, lease, fresh, recoveryOnly, created, childVars, histVars, holds, req,
                 cancelling, bounds>>

(* update with state "delivering": the runner sends the checkpoint along.   *)
UpdateDelivering(r) ==
  /\ HasLease(r)
  /\ state' = [state EXCEPT ![holds[r]] = Target(state[holds[r]], "delivering")]
  /\ checkpoint' = [checkpoint EXCEPT ![holds[r]] = TRUE]
  /\ UNCHANGED <<lease, fresh, recoveryOnly, created, childVars, histVars, holds, req,
                 cancelling, bounds>>

(* update with a terminal state: the lease is given up.                     *)
UpdateTerminal(r, to) ==
  /\ HasLease(r)
  /\ state' = [state EXCEPT ![holds[r]] = Target(state[holds[r]], to)]
  /\ lease' = [lease EXCEPT ![holds[r]] = Nobody]
  /\ holds' = [holds EXCEPT ![r] = NoTask]
  /\ UNCHANGED <<fresh, checkpoint, recoveryOnly, created, childVars, histVars, req,
                 cancelling, bounds>>

(* update refused: the runner drops the task.                               *)
UpdateRefused(r) ==
  /\ holds[r] # NoTask /\ ~HasLease(r)
  /\ holds' = [holds EXCEPT ![r] = NoTask]
  /\ UNCHANGED <<rowVars, childVars, histVars, req, cancelling, bounds>>

MayRecover(t) == checkpoint[t] \/ child[t] # {}

(* recover; when it raises, the expiry is rolled back with it.              *)
Recover(t) ==
  /\ recovers < MaxRecovers /\ recovers' = recovers + 1
  /\ ExpiredState[t] = "recovery_required" /\ MayRecover(t)
  /\ state' = [ExpiredState EXCEPT ![t] = "queued"]
  /\ lease' = [ExpiredLease EXCEPT ![t] = Nobody]
  /\ recoveryOnly' = [recoveryOnly EXCEPT ![t] = recoveryOnly[t] \/ ~checkpoint[t]]
  /\ asked' = asked \ {t}
  /\ UNCHANGED <<fresh, checkpoint, created, childVars, runs, holds, req, cancelling, faults>>

-----------------------------------------------------------------------------
(* The cancel route: mark the task, list the children, cancel each that is  *)
(* still queued.  (A running one is interrupted, see JobEnds.)              *)

(* cancel: what the statement makes of a state.                             *)
AfterCancel(s) ==
  IF s = "queued" THEN "cancelled"
  ELSE IF s \in {"running", "delivering"} THEN "cancel_requested" ELSE s

CancelMark(t) ==
  /\ state[t] # "absent" /\ cancelling[t] = NoCancel
  /\ state' = [state EXCEPT ![t] = AfterCancel(state[t])]
  /\ asked' = IF AfterCancel(state[t]) # state[t] THEN asked \cup {t} ELSE asked
  /\ cancelling' = [cancelling EXCEPT ![t] = [at |-> "marked", todo |-> {}]]
  /\ UNCHANGED <<lease, fresh, checkpoint, recoveryOnly, created, childVars, runs, holds, req, bounds>>

CancelList(t) ==
  /\ cancelling[t].at = "marked"
  /\ cancelling' = [cancelling EXCEPT ![t] =
       IF child[t] = {} THEN NoCancel ELSE [at |-> "listed", todo |-> child[t]]]
  /\ UNCHANGED <<rowVars, childVars, histVars, holds, req, bounds>>

(* SchedulerStore.cancel of a child prompt                                  *)
ChildCancelled(t, k) ==
  job' = [job EXCEPT ![t][k] = IF job[t][k] = "queued" THEN "cancelled" ELSE job[t][k]]

CancelChild(t, k) ==
  /\ k \in cancelling[t].todo
  /\ ChildCancelled(t, k)
  /\ cancelling' = [cancelling EXCEPT ![t] =
       IF cancelling[t].todo = {k} THEN NoCancel
       ELSE [at |-> "listed", todo |-> cancelling[t].todo \ {k}]]
  /\ UNCHANGED <<rowVars, child, histVars, holds, req, bounds>>

-----------------------------------------------------------------------------
(* delegated: a child prompt submitted with the token of a claim.           *)

Moved(q, to) == req' = [req EXCEPT ![q] = [at |-> to, task |-> req[q].task, key |-> req[q].key]]
Dropped(q) == req' = [req EXCEPT ![q] = NoRequest]

(* The token is checked; the body is awaited next.                          *)
ChildAccepted(q, r, k) ==
  /\ req[q] = NoRequest /\ HasLease(r)
  /\ state[holds[r]] \in {"running", "delivering"}
  /\ req' = [req EXCEPT ![q] = [at |-> "checked", task |-> holds[r], key |-> k]]
  /\ UNCHANGED <<rowVars, childVars, histVars, holds, cancelling, bounds>>

(* Mutant: a child whose submission was not answered counts as new.         *)
MutIsNew(t, k) == job[t][k] = "absent"
IsNew(t, k) == k \notin child[t]

(* reserve_child: refused, or known already and answered from the record.   *)
ReserveNothing(q) ==
  LET t == req[q].task IN
  /\ req[q].at = "checked"
  /\ ~(state[t] = "running" /\ fresh[t]) \/ ~IsNew(t, req[q].key)
  /\ Dropped(q)
  /\ UNCHANGED <<rowVars, childVars, histVars, holds, cancelling, bounds>>

(* reserve_child: a new child.                                              *)
ReserveChild(q) ==
  LET t == req[q].task IN
  /\ req[q].at = "checked"
  /\ state[t] = "running" /\ fresh[t] /\ IsNew(t, req[q].key)
  /\ child' = [child EXCEPT ![t] = child[t] \cup {req[q].key}]
  /\ Moved(q, "reserved")
  /\ UNCHANGED <<rowVars, job, histVars, holds, cancelling, bounds>>

(* The prompt handler queues the job or refuses the workflow; its answer is *)
(* recorded by child_response.                                              *)
SubmitChild(q, accepted) ==
  /\ req[q].at = "reserved"
  /\ job' = [job EXCEPT ![req[q].task][req[q].key] = IF accepted THEN "queued" ELSE "absent"]
  /\ Moved(q, "sent")
  /\ UNCHANGED <<rowVars, child, histVars, holds, cancelling, bounds>>

(* Mutant: only a task that has ended gives its child up.                   *)
MutStillWanted(t) == state[t] \notin Terminal
StillWanted(t) == state[t] = "running"

(* The task is read again; if it no longer runs, its child is cancelled.    *)
CheckAgain(q) ==
  /\ req[q].at = "sent"
  /\ IF StillWanted(req[q].task) THEN Dropped(q) ELSE Moved(q, "unwanted")
  /\ UNCHANGED <<rowVars, childVars, histVars, holds, cancelling, bounds>>

CancelUnwanted(q) ==
  /\ req[q].at = "unwanted"
  /\ ChildCancelled(req[q].task, req[q].key) /\ Dropped(q)
  /\ UNCHANGED <<rowVars, child, histVars, holds, cancelling, bounds>>

-----------------------------------------------------------------------------
(* The scheduler's side of a child, failures and time.                      *)

JobStarts(t, k) ==
  /\ job[t][k] = "queued" /\ job' = [job EXCEPT ![t][k] = "running"]
  /\ UNCHANGED <<rowVars, child, histVars, holds, req, cancelling, bounds>>

JobEnds(t, k) ==
  /\ job[t][k] = "running" /\ job' = [job EXCEPT ![t][k] = "ended"]
  /\ UNCHANGED <<rowVars, child, histVars, holds, req, cancelling, bounds>>

(* A lease that nobody renews runs out; a slot at work may miss it too.     *)
LeaseRunsOut(t) ==
  /\ fresh[t] /\ state[t] \in Active
  /\ \/ UNCHANGED faults /\ ~\E r \in Runners : holds[r] = t /\ lease[t] = r
     \/ Fault /\ \E r \in Runners : holds[r] = t /\ lease[t] = r
  /\ fresh' = [fresh EXCEPT ![t] = FALSE]
  /\ UNCHANGED <<state, lease, checkpoint, recoveryOnly, created, childVars, histVars, holds, req,
                 cancelling, recovers>>

RunnerDies(r) ==
  /\ holds[r] # NoTask /\ Fault
  /\ holds' = [holds EXCEPT ![r] = NoTask]
  /\ UNCHANGED <<rowVars, childVars, histVars, req, cancelling, recovers>>

(* An instance dies in the middle of a child submission or a cancel.        *)
RequestDies(q) ==
  /\ req[q] # NoRequest /\ Fault /\ Dropped(q)
  /\ UNCHANGED <<rowVars, childVars, histVars, holds, cancelling, recovers>>

CancelDies(t) ==
  /\ cancelling[t] # NoCancel /\ Fault
  /\ cancelling' = [cancelling EXCEPT ![t] = NoCancel]
  /\ UNCHANGED <<rowVars, childVars, histVars, holds, req, recovers>>

Ends(r) == UpdateRefused(r) \/ \E s \in Terminal : UpdateTerminal(r, s)
Polls(r) == ClaimNothing(r) \/ \E t \in Tasks : Claim(r, t)

Next ==
  \/ \E t \in Tasks :
       \/ Create(t) \/ Recover(t) \/ LeaseRunsOut(t)
       \/ CancelMark(t) \/ CancelList(t) \/ CancelDies(t)
       \/ \E k \in Keys : CancelChild(t, k) \/ JobStarts(t, k) \/ JobEnds(t, k)
  \/ \E r \in Runners :
       \/ Polls(r) \/ Ends(r) \/ UpdateDelivering(r) \/ RunnerDies(r)
       \/ \E b \in BOOLEAN : UpdateProgress(r, b)
  \/ \E q \in Requests :
       \/ ReserveNothing(q) \/ ReserveChild(q) \/ CheckAgain(q) \/ CancelUnwanted(q)
       \/ RequestDies(q)
       \/ \E b \in BOOLEAN : SubmitChild(q, b)
       \/ \E r \in Runners, k \in Keys : ChildAccepted(q, r, k)

Spec == Init /\ [][Next]_vars

(* The runner service polls, its runs end (or are refused their next        *)
(* update), and unrenewed leases run out by the clock.                      *)
Fairness ==
  /\ \A r \in Runners : WF_vars(Polls(r)) /\ WF_vars(Ends(r))
  /\ \A t \in Tasks : WF_vars(LeaseRunsOut(t) /\ UNCHANGED faults)

FairSpec == Spec /\ Fairness
-----------------------------------------------------------------------------
InFlight == [at : {"checked", "reserved", "sent", "unwanted"}, task : Tasks, key : Keys]
JobStates == {"absent", "queued", "running", "ended", "cancelled"}

(* The values the code can leave in the two tables, and the places of the   *)
(* requests over them.                                                      *)
TypeOK ==
  /\ state \in [Tasks -> {"absent", "queued"} \cup Active \cup Terminal]
  /\ lease \in [Tasks -> Runners \cup {Nobody}]
  /\ fresh \in [Tasks -> BOOLEAN]
  /\ checkpoint \in [Tasks -> BOOLEAN] /\ recoveryOnly \in [Tasks -> BOOLEAN]
  /\ created \in [Tasks -> Nat]
  /\ child \in [Tasks -> SUBSET Keys] /\ job \in [Tasks -> [Keys -> JobStates]]
  /\ runs \in [Tasks -> Nat] /\ asked \subseteq Tasks
  /\ holds \in [Runners -> Tasks \cup {NoTask}]
  /\ req \in [Requests -> InFlight \cup {NoRequest}]
  /\ cancelling \in [Tasks -> [at : {"idle", "marked", "listed"}, todo : SUBSET Keys]]

(* "Never replay an interrupted model/tool operation: it may already have   *)
(* charged money": a task's generation is handed to a runner at most once,  *)
(* through expiry, cancellation, recovery and redelivery.                   *)
NoReplay == \A t \in Tasks : runs[t] <= 1

(* No more tasks hold a lease than the service and the account allow, those *)
(* being cancelled or delivered again included.                             *)
LeaseLimits ==
  /\ Cardinality({t \in Tasks : lease[t] # Nobody}) <= Concurrency
  /\ \A t \in Tasks : Cardinality({u \in Tasks : lease[u] # Nobody /\ OwnerOf[u] = OwnerOf[t]}) <= PerUser

(* A child prompt is about to be submitted by one request only, and only if *)
(* it was not submitted before: retries of the runner never buy twice.      *)
SubmittedOnce ==
  \A q \in Requests : req[q].at = "reserved" =>
    /\ job[req[q].task][req[q].key] = "absent"
    /\ \A p \in Requests \ {q} :
         req[p].at \in {"reserved", "sent"} => <<req[p].task, req[p].key>> # <<req[q].task, req[q].key>>

(* When a cancellation was granted and every request has been worked off,   *)
(* none of the task's children waits in the queue, whichever of cancel and  *)
(* submission came first.  (An instance that dies in between leaves one.)   *)
CancelReachesChildren ==
  \A t \in asked :
    faults = 0 /\ cancelling[t] = NoCancel /\ (\A q \in Requests : req[q].task # t)
      => \A k \in Keys : job[t][k] # "queued"

(* A queued task leaves the queue: leases of dead runners, of cancelled     *)
(* tasks too, do not fill the service.                                      *)
QueuedIsClaimed == \A t \in Tasks : state[t] = "queued" ~> state[t] # "queued"

(* A task whose cancellation was granted reports success only through the   *)
(* delivery of a checkpoint (or after its owner recovered it): a runner     *)
(* that finishes without one is told that the task was cancelled.           *)
CancelledSucceedsByDelivery ==
  \A t \in asked : state[t] = "completed" => checkpoint[t]
=============================================================================
