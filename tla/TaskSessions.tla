---------------------------- MODULE TaskSessions ----------------------------
(***************************************************************************)
(* Child prompts of executing jobs (utils/task_sessions.py).  A node gets  *)
(* a token of its job's owner, posts a child prompt to its own instance    *)
(* and waits for it, holding its worker all the while.  Whether there is   *)
(* room is checked on tables that other instances go on changing, some     *)
(* time before the child is in the queue.  The node itself is a custom     *)
(* node: that it waits, and fails when it is refused, is taken from the    *)
(* messages of authorize.                                                  *)
(***************************************************************************)
EXTENDS Scheduler

CONSTANTS Parents, ChildOf   \* jobs with such a node, and the prompts they post

ASSUME SessionsAssumption == Parents \subseteq Prompts /\ ChildOf \in [Parents -> Prompts \ Parents]

VARIABLE session   \* the request for a child of each parent

sessionVars == <<vars, session>>

Children == {ChildOf[j] : j \in Parents}
NoSession == [at |-> "none", kind |-> "api"]

SessionInit == Init /\ session = [j \in Parents |-> NoSession]

(* Everything the queue does by itself; children come from sessions only.   *)
QueueStep ==
  /\ Next
  /\ \A c \in Children : status[c] = "absent" => status'[c] = "absent"
  /\ UNCHANGED session

WorkerPorts == {q \in Ports : pid[q] # NoPid /\ age[q] <= Stale}

IdleWorkerPorts(c) == {q \in WorkerPorts : ~Busy(q) /\ Compatible(pool[q], c)}

SessionLimit(u, c) == IF u \in Admins THEN AdminLimit ELSE LimitFor(c)

Runs(p, j) == phase[p] = "executing" /\ held[p] = j

(* authorize up to the await of the body: the table must call the parent    *)
(* running, and there must be another worker.                               *)
AskForChild(p, j, kind) ==
  /\ Runs(p, j) /\ session[j].at = "none"
  /\ session' = [session EXCEPT ![j] =
       [at |-> IF status[j] = "running" /\ Cardinality(WorkerPorts) >= 2
               THEN "asked" ELSE "refused",
        kind |-> kind]]
  /\ UNCHANGED vars

(* Mutant: another worker is enough, free or not.                           *)
MutHasWorker(p, c) == WorkerPorts \ {PortOf[p]} # {}
HasWorker(p, c) == IdleWorkerPorts(c) \ {PortOf[p]} # {}

HasQuota(u, c) ==
  SessionLimit(u, c) = 0 \/ Cardinality(RunningOf(u, c)) < SessionLimit(u, c)

(* the rest of authorize                                                    *)
Authorize(p, j) ==
  LET c == Classify(p, session[j].kind) IN
  /\ Runs(p, j) /\ session[j].at = "asked"
  /\ session' = [session EXCEPT ![j].at =
       IF HasQuota(job[j].owner, c) /\ HasWorker(p, c) THEN "granted" ELSE "refused"]
  /\ UNCHANGED vars

(* the handler of /prompt, after it validated the workflow                  *)
PostChild(p, j, prio) ==
  /\ Runs(p, j) /\ session[j].at = "granted"
  /\ Enqueue(p, ChildOf[j], job[j].owner, session[j].kind, prio)
  /\ session' = [session EXCEPT ![j].at = "waiting"]

SessionStep ==
  \E p \in Procs, j \in Parents :
    \/ \E k \in Kinds : AskForChild(p, j, k)
    \/ Authorize(p, j)
    \/ \E n \in Priorities : PostChild(p, j, n)

-----------------------------------------------------------------------------
(* The node of the job on p waits for its child.                            *)
Waits(p) ==
  /\ held[p] \in Parents /\ session[held[p]].at = "waiting"
  /\ status[ChildOf[held[p]]] \in {"queued", "running"}

(* Workers claim and complete, requests are handled, and executions end     *)
(* that do not wait for a child.                                            *)
SessionFairness ==
  \A p \in Procs :
    /\ WF_sessionVars(StartProcess(p, 0) /\ UNCHANGED session)
    /\ WF_sessionVars((\E j \in Prompts : Claim(p, j, 0)) /\ UNCHANGED session)
    /\ WF_sessionVars(~Waits(p) /\ Finish(p, TRUE) /\ UNCHANGED session)
    /\ WF_sessionVars(Complete(p, 0) /\ UNCHANGED session)

(* A child that was let into the queue leaves it although parents hold      *)
(* workers while they wait: the one that was authorised last left a worker  *)
(* and a place in its account's limit that no waiting parent can have       *)
(* taken.  A worker that died may have been that one.                       *)
ChildIsServed ==
  \A c \in Children : (status[c] = "queued") ~> (status[c] # "queued" \/ crashes > 0)
=============================================================================
