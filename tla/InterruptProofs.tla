-------------------------- MODULE InterruptProofs ---------------------------
(* The queue with its task sessions and interrupt requests is still the     *)
(* queue: child prompts enter it as submissions do, and interrupts leave    *)
(* its tables alone.  So what is proved of Scheduler holds here as well,    *)
(* and with it that a forwarded interrupt stops the job it names.           *)
EXTENDS Interrupts, LifecycleProofs

(* A request for a child keeps the workflow it was made for.                *)
SessionTypeOK == session \in [Parents -> [at : {"none", "asked", "refused", "granted", "waiting"},
                                          kind : Kinds \cup {"api"}]]

(* A child is posted for a workflow that was asked for.                     *)
AskedKind == \A j \in Parents : session[j].at # "none" => session[j].kind \in Kinds

SessionInv == SessionTypeOK /\ AskedKind

(* Nobody has asked for a child.                                            *)
LEMMA SessionInitial == SessionInit => SessionInv
  BY DEF SessionInit, NoSession, SessionInv, SessionTypeOK, AskedKind

(* A request keeps the kind it was made with.                               *)
LEMMA SessionInvStep == SessionInv /\ (SessionStep \/ UNCHANGED session) => SessionInv'
<1> SUFFICES ASSUME SessionInv, SessionStep \/ UNCHANGED session PROVE SessionInv'
  OBVIOUS
<1>1. ASSUME NEW p \in Procs, NEW j \in Parents, NEW k \in Kinds, AskForChild(p, j, k)
      PROVE  SessionInv'
  BY <1>1 DEF AskForChild, SessionInv, SessionTypeOK, AskedKind
<1>2. ASSUME NEW p \in Procs, NEW j \in Parents, Authorize(p, j) PROVE SessionInv'
  <2>1. PICK a \in {"granted", "refused"} : session' = [session EXCEPT ![j].at = a]
    BY <1>2 DEF Authorize
  <2>2. session[j].at # "none"
    BY <1>2 DEF Authorize
  <2> QED
    BY <2>1, <2>2 DEF SessionInv, SessionTypeOK, AskedKind
<1>3. ASSUME NEW p \in Procs, NEW j \in Parents, NEW n \in Priorities, PostChild(p, j, n)
      PROVE  SessionInv'
  <2>1. session' = [session EXCEPT ![j].at = "waiting"] /\ session[j].at # "none"
    BY <1>3 DEF PostChild
  <2> QED
    BY <2>1 DEF SessionInv, SessionTypeOK, AskedKind
<1>4. CASE UNCHANGED session
  BY <1>4 DEF SessionInv, SessionTypeOK, AskedKind
<1> QED
  BY <1>1, <1>2, <1>3, <1>4 DEF SessionStep

(* A step of a session is a submission on behalf of the parent's owner or   *)
(* leaves the queue alone.                                                  *)
LEMMA SessionIsQueueStep ==
  ASSUME TypeInv, HandOutInv, SessionInv, SessionStep
  PROVE  [Next]_vars
<1>1. ASSUME NEW p \in Procs, NEW j \in Parents, NEW n \in Priorities, PostChild(p, j, n)
      PROVE  Next
  <2>1. /\ held[p] = j /\ phase[p] = "executing" /\ session[j].at = "granted"
        /\ Enqueue(p, ChildOf[j], job[j].owner, session[j].kind, n)
    BY <1>1 DEF PostChild, Runs
  <2>2. ChildOf[j] \in Prompts /\ j \in Prompts
    BY SessionsAssumption
  <2>3. job[j].owner \in Users
    <3>1. status[j] \in {"running", "worker_lost"}
      BY <2>1, <2>2 DEF HandOutInv, HeldIsOpen
    <3>2. job[j] \in JobRecords
      BY <2>2, <3>1 DEF TypeInv, JobsWellFormed
    <3> QED
      BY <3>2 DEF JobRecords
  <2>4. session[j].kind \in Kinds
    BY <2>1 DEF SessionInv, AskedKind
  <2>5. Submission
    BY <2>1, <2>2, <2>3, <2>4 DEF Submission
  <2> QED
    BY <2>5 DEF Next
<1> QED
  BY <1>1 DEF SessionStep, AskForChild, Authorize

(* Every step of the composition is one of the queue, or none.              *)
LEMMA InterruptsStep ==
  ASSUME TypeInv, HandOutInv, SessionInv, [InterruptsNext]_interruptVars
  PROVE  [Next]_vars /\ SessionInv'
<1>1. CASE QueueStep
  BY <1>1, SessionInvStep DEF QueueStep
<1>2. CASE SessionStep
  BY <1>2, SessionInvStep, SessionIsQueueStep
<1>3. CASE UNCHANGED sessionVars
  BY <1>3, SessionInvStep DEF sessionVars
<1> QED
  BY <1>1, <1>2, <1>3
  DEF InterruptsNext, InterruptAll, InterruptOne, Forward, HandleLocally, CallDies, interruptVars

(* Sessions and interrupts do to the queue nothing that the queue does not  *)
(* do by itself: every behaviour of the composition is one of Scheduler.    *)
THEOREM InterruptsImplementQueue == InterruptsSpec => Spec
<1>1. InterruptsInit => Init /\ SessionInv
  BY SessionInitial DEF InterruptsInit, SessionInit
<1>2. TypeInv /\ HandOutInv /\ SessionInv /\ [InterruptsNext]_interruptVars
        => [Next]_vars /\ SessionInv'
  BY InterruptsStep
<1>3. Init => TypeInv /\ HandOutInv
  BY TypeInit, HandOutInit
<1>4. TypeInv /\ HandOutInv /\ [Next]_vars => TypeInv' /\ HandOutInv'
  BY TypeStep, HandOutStep
<1> QED
  BY <1>1, <1>2, <1>3, <1>4, PTL DEF InterruptsSpec, Spec

-----------------------------------------------------------------------------
(* The process that executes on a running job's port executes that job.     *)
LEMMA PortExecutesJob ==
  ASSUME TypeInv, HandOutInv, RunningIsTracked, LostOnlyWhenDead,
         NEW j \in Prompts, status[j] = "running",
         NEW r \in Procs, PortOf[r] = workerPort[j], phase[r] = "executing"
  PROVE  held[r] = j
<1>1. held[r] # NoPrompt /\ held[r] \in Prompts /\ workerPort[held[r]] = PortOf[r]
  BY DEF HandOutInv, HeldIsOpen, TypeInv, TypeOK
<1>2. status[held[r]] = "running"
  BY <1>1 DEF LostOnlyWhenDead
<1> QED
  BY <1>1, <1>2 DEF RunningIsTracked

(* In a fleet that reports in time and does not overlap, a forwarded        *)
(* interrupt stops the job it names or nothing, although the port was read  *)
(* before the request was sent.                                             *)
THEOREM ForwardedHitsTargetHolds ==
  ASSUME TimelyFleet, DistinctPids
  PROVE  InterruptsSpec => []ForwardedHitsTarget
<1>1. InterruptsInit => ForwardedHitsTarget
  BY DEF InterruptsInit, ForwardedHitsTarget
<1>2. ASSUME TypeInv, HandOutInv, RunningIsTracked, LostOnlyWhenDead, ForwardedHitsTarget,
             [InterruptsNext]_interruptVars
      PROVE  ForwardedHitsTarget'
  <2>1. ASSUME NEW j \in Prompts, Forward(j) PROVE ForwardedHitsTarget'
    <3> DEFINE reached == {r \in Procs : PortOf[r] = workerPort[j] /\ Stops(r, j)}
               hit == {held[p] : p \in reached}
    <3>1. \A r \in reached : held[r] = j
      BY <1>2, PortExecutesJob, ConstantsAssumption DEF Stops
    <3>2. hit \ {j} = {}
      BY <3>1
    <3>3. astray' = (astray \/ hit \ {j} # {})
      BY <2>1 DEF Forward
    <3> QED
      BY <1>2, <3>2, <3>3 DEF ForwardedHitsTarget
  <2>2. CASE UNCHANGED astray
    BY <1>2, <2>2 DEF ForwardedHitsTarget
  <2> QED
    BY <1>2, <2>1, <2>2
    DEF InterruptsNext, InterruptAll, InterruptOne, HandleLocally, CallDies, interruptVars
<1>3. Spec => []RunningIsTracked
  BY RunningIsTrackedHolds, DistinctPids
<1>4. Spec => []LostOnlyWhenDead
  BY LostOnlyWhenDeadHolds, TimelyFleet, DistinctPids
<1> QED
  BY <1>1, <1>2, <1>3, <1>4, InterruptsImplementQueue, TypeCorrect, HandOutInvariant, PTL
  DEF InterruptsSpec
=============================================================================
