---------------------------- MODULE AgentProofs -----------------------------
(* Proofs about AgentTasks, for every number of tasks, runners, requests    *)
(* and failures: its types, that a generation is handed out once and a      *)
(* child prompt submitted once, that leases stay within the limits, that a  *)
(* cancelled task succeeds only by delivering a saved checkpoint, and that  *)
(* its cancellation reaches the children it submitted.                      *)
EXTENDS AgentTasks, FiniteSetTheorems, TLAPS

LEMMA TypeInit == Init => TypeOK
  BY DEF Init, TypeOK, Active, Terminal, JobStates, NoCancel

(* expire leaves well-formed rows.                                          *)
LEMMA ExpiryType ==
  ASSUME TypeOK
  PROVE  /\ ExpiredState \in [Tasks -> {"absent", "queued"} \cup Active \cup Terminal]
         /\ ExpiredLease \in [Tasks -> Runners \cup {Nobody}]
  BY DEF TypeOK, ExpiredState, ExpiredLease, AfterExpiry, Active, Terminal

(* Writing one child's status keeps the table of statuses well-formed.      *)
LEMMA JobWrite ==
  ASSUME TypeOK, NEW t \in Tasks, NEW k \in Keys, NEW s \in JobStates
  PROVE  /\ [job EXCEPT ![t][k] = s] \in [Tasks -> [Keys -> JobStates]]
         /\ [job EXCEPT ![t][k] = s][t][k] = s
         /\ \A u \in Tasks, m \in Keys : <<u, m>> # <<t, k>> =>
              [job EXCEPT ![t][k] = s][u][m] = job[u][m]
<1>1. job[t] \in [Keys -> JobStates]
  BY DEF TypeOK
<1>2. [job[t] EXCEPT ![k] = s] \in [Keys -> JobStates]
  BY <1>1
<1>3. [job EXCEPT ![t][k] = s] = [job EXCEPT ![t] = [job[t] EXCEPT ![k] = s]]
  BY DEF TypeOK
<1> QED
  BY <1>1, <1>2, <1>3 DEF TypeOK

(* Cancelling a child changes its status only, and only from queued.        *)
LEMMA CancelledWrite ==
  ASSUME TypeOK, NEW t \in Tasks, NEW k \in Keys, ChildCancelled(t, k)
  PROVE  /\ job' \in [Tasks -> [Keys -> JobStates]]
         /\ \A u \in Tasks, m \in Keys : job'[u][m] = "absent" <=> job[u][m] = "absent"
<1> DEFINE s == IF job[t][k] = "queued" THEN "cancelled" ELSE job[t][k]
<1>1. s \in JobStates
  BY DEF TypeOK, JobStates
<1>2. job' = [job EXCEPT ![t][k] = s]
  BY DEF ChildCancelled
<1>3. s = "absent" <=> job[t][k] = "absent"
  OBVIOUS
<1> HIDE DEF s
<1> QED
  BY <1>1, <1>2, <1>3, JobWrite

LEMMA TypeStep == TypeOK /\ [Next]_vars => TypeOK'
<1> SUFFICES ASSUME TypeOK, [Next]_vars PROVE TypeOK'
  OBVIOUS
<1>1. ASSUME NEW t \in Tasks, Create(t) PROVE TypeOK'
  <2>1. IsFiniteSet({u \in Tasks : state[u] # "absent"})
    BY AgentAssumption, FS_Subset
  <2>2. Cardinality({u \in Tasks : state[u] # "absent"}) + 1 \in Nat
    BY <2>1, FS_CardinalityType
  <2> QED
    BY <1>1, <2>2 DEF TypeOK, Create, childVars, histVars
<1>2. ASSUME NEW t \in Tasks, Recover(t) PROVE TypeOK'
  <2>1. /\ state' \in [Tasks -> {"absent", "queued"} \cup Active \cup Terminal]
        /\ lease' \in [Tasks -> Runners \cup {Nobody}]
    BY <1>2, ExpiryType DEF Recover
  <2>2. recoveryOnly' \in [Tasks -> BOOLEAN]
    BY <1>2, Zenon DEF TypeOK, Recover
  <2> QED
    BY <1>2, <2>1, <2>2 DEF TypeOK, Recover, childVars
<1>3. ASSUME NEW t \in Tasks, LeaseRunsOut(t) PROVE TypeOK'
  BY <1>3 DEF TypeOK, LeaseRunsOut, childVars, histVars
<1>4. ASSUME NEW t \in Tasks, CancelMark(t) PROVE TypeOK'
  <2>1. state' \in [Tasks -> {"absent", "queued"} \cup Active \cup Terminal]
    BY <1>4 DEF TypeOK, CancelMark, AfterCancel, Active, Terminal
  <2>2. cancelling' \in [Tasks -> [at : {"idle", "marked", "listed"}, todo : SUBSET Keys]]
    BY <1>4 DEF TypeOK, CancelMark
  <2>3. asked' \subseteq Tasks
    BY <1>4 DEF TypeOK, CancelMark
  <2> QED
    BY <1>4, <2>1, <2>2, <2>3 DEF TypeOK, CancelMark, childVars
<1>5. ASSUME NEW t \in Tasks, CancelList(t) PROVE TypeOK'
  BY <1>5 DEF TypeOK, CancelList, NoCancel, rowVars, childVars, histVars
<1>6. ASSUME NEW t \in Tasks, CancelDies(t) PROVE TypeOK'
  BY <1>6 DEF TypeOK, CancelDies, NoCancel, rowVars, childVars, histVars
<1>7. ASSUME NEW t \in Tasks, NEW k \in Keys, CancelChild(t, k) PROVE TypeOK'
  <2>1. job' \in [Tasks -> [Keys -> JobStates]]
    BY <1>7, CancelledWrite DEF CancelChild
  <2>2. cancelling' \in [Tasks -> [at : {"idle", "marked", "listed"}, todo : SUBSET Keys]]
    BY <1>7 DEF TypeOK, CancelChild, NoCancel
  <2> QED
    BY <1>7, <2>1, <2>2 DEF TypeOK, CancelChild, rowVars, histVars
<1>8. ASSUME NEW t \in Tasks, NEW k \in Keys, JobStarts(t, k) \/ JobEnds(t, k) PROVE TypeOK'
  <2>1. job' \in [Tasks -> [Keys -> JobStates]]
    BY <1>8, JobWrite DEF JobStarts, JobEnds, JobStates
  <2> QED
    BY <1>8, <2>1 DEF TypeOK, JobStarts, JobEnds, rowVars, histVars
<1>9. ASSUME NEW r \in Runners, ClaimNothing(r) PROVE TypeOK'
  BY <1>9, ExpiryType DEF TypeOK, ClaimNothing, childVars, histVars
<1>10. ASSUME NEW r \in Runners, NEW t \in Tasks, Claim(r, t) PROVE TypeOK'
  <2>1. /\ state' \in [Tasks -> {"absent", "queued"} \cup Active \cup Terminal]
        /\ lease' \in [Tasks -> Runners \cup {Nobody}]
    BY <1>10, ExpiryType DEF Claim, Active
  <2>2. runs' \in [Tasks -> Nat]
    BY <1>10 DEF TypeOK, Claim
  <2> QED
    BY <1>10, <2>1, <2>2 DEF TypeOK, Claim, childVars
<1>11. ASSUME NEW r \in Runners, UpdateRefused(r) \/ RunnerDies(r) PROVE TypeOK'
  BY <1>11 DEF TypeOK, UpdateRefused, RunnerDies, rowVars, childVars, histVars
<1>12. ASSUME NEW r \in Runners, NEW s \in Terminal, UpdateTerminal(r, s) PROVE TypeOK'
  BY <1>12 DEF TypeOK, UpdateTerminal, HasLease, Target, Terminal, childVars, histVars
<1>13. ASSUME NEW r \in Runners, UpdateDelivering(r) PROVE TypeOK'
  BY <1>13 DEF TypeOK, UpdateDelivering, HasLease, Target, Active, childVars, histVars
<1>14. ASSUME NEW r \in Runners, NEW b \in BOOLEAN, UpdateProgress(r, b) PROVE TypeOK'
  <2>1. checkpoint' \in [Tasks -> BOOLEAN]
    BY <1>14, Zenon DEF TypeOK, UpdateProgress
  <2> QED
    BY <1>14, <2>1 DEF TypeOK, UpdateProgress, childVars, histVars
<1>15. ASSUME NEW q \in Requests, ReserveNothing(q) \/ RequestDies(q) PROVE TypeOK'
  BY <1>15 DEF TypeOK, ReserveNothing, RequestDies, Dropped, rowVars, childVars, histVars
<1>16. ASSUME NEW q \in Requests, req[q].at # "idle" PROVE req[q] \in InFlight
  BY <1>16 DEF TypeOK, NoRequest
<1>17. ASSUME NEW q \in Requests, ReserveChild(q) PROVE TypeOK'
  BY <1>17, <1>16 DEF TypeOK, ReserveChild, Moved, InFlight, rowVars, histVars
<1>18. ASSUME NEW q \in Requests, NEW b \in BOOLEAN, SubmitChild(q, b) PROVE TypeOK'
  <2>1. req[q].task \in Tasks /\ req[q].key \in Keys
    BY <1>18, <1>16 DEF SubmitChild, InFlight
  <2>2. job' \in [Tasks -> [Keys -> JobStates]]
    <3> DEFINE s == IF b THEN "queued" ELSE "absent"
    <3>1. s \in JobStates
      BY DEF JobStates
    <3>2. job' = [job EXCEPT ![req[q].task][req[q].key] = s]
      BY <1>18 DEF SubmitChild
    <3> HIDE DEF s
    <3> QED
      BY <2>1, <3>1, <3>2, JobWrite
  <2> QED
    BY <1>18, <1>16, <2>2 DEF TypeOK, SubmitChild, Moved, InFlight, rowVars, histVars
<1>19. ASSUME NEW q \in Requests, CancelUnwanted(q) PROVE TypeOK'
  <2>1. req[q].task \in Tasks /\ req[q].key \in Keys
    BY <1>19, <1>16 DEF CancelUnwanted, InFlight
  <2>2. job' \in [Tasks -> [Keys -> JobStates]]
    BY <1>19, <2>1, CancelledWrite DEF TypeOK, CancelUnwanted
  <2> QED
    BY <1>19, <2>2 DEF TypeOK, CancelUnwanted, Dropped, rowVars, histVars
<1>20. ASSUME NEW q \in Requests, CheckAgain(q) PROVE TypeOK'
  <2>1. req[q].task \in Tasks /\ req[q].key \in Keys
    BY <1>20, <1>16 DEF CheckAgain, InFlight
  <2>2. [at |-> "unwanted", task |-> req[q].task, key |-> req[q].key] \in InFlight
    BY <2>1 DEF InFlight
  <2>3. req' \in [Requests -> InFlight \cup {NoRequest}]
    BY <1>20, <2>2 DEF TypeOK, CheckAgain, Dropped, Moved
  <2> QED
    BY <1>20, <2>3 DEF TypeOK, CheckAgain, rowVars, childVars, histVars
<1>21. ASSUME NEW q \in Requests, NEW r \in Runners, NEW k \in Keys, ChildAccepted(q, r, k)
       PROVE  TypeOK'
  BY <1>21 DEF TypeOK, ChildAccepted, HasLease, InFlight, rowVars, childVars, histVars
<1>22. CASE UNCHANGED vars
  BY <1>22 DEF TypeOK, vars, rowVars, childVars, histVars
<1> QED
  BY <1>1, <1>2, <1>3, <1>4, <1>5, <1>6, <1>7, <1>8, <1>9, <1>10, <1>11, <1>12, <1>13, <1>14,
     <1>15, <1>17, <1>18, <1>19, <1>20, <1>21, <1>22 DEF Next, Polls, Ends

(* The tables agent_tasks and agent_children only ever hold the values the  *)
(* code means them to hold, whatever runners, requests and failures do.     *)
THEOREM AgentTypeCorrect == Spec => []TypeOK
  BY TypeInit, TypeStep, PTL DEF Spec

-----------------------------------------------------------------------------
(* A task that waits is new, or has a checkpoint to deliver, or is marked   *)
(* as recovery only; only a task with a checkpoint is delivered.            *)
ReplayInv ==
  \A t \in Tasks :
    /\ state[t] = "absent" => runs[t] = 0
    /\ state[t] = "queued" => runs[t] = 0 \/ checkpoint[t] \/ recoveryOnly[t]
    /\ state[t] = "delivering" => checkpoint[t]
    /\ runs[t] <= 1

LEMMA ReplayStep == TypeOK /\ ReplayInv /\ [Next]_vars => ReplayInv'
<1> SUFFICES ASSUME TypeOK, ReplayInv, [Next]_vars, NEW u \in Tasks
             PROVE  /\ state'[u] = "absent" => runs'[u] = 0
                    /\ state'[u] = "queued" => runs'[u] = 0 \/ checkpoint'[u] \/ recoveryOnly'[u]
                    /\ state'[u] = "delivering" => checkpoint'[u]
                    /\ runs'[u] <= 1
  BY DEF ReplayInv
<1> DEFINE Goal == /\ state'[u] = "absent" => runs'[u] = 0
                   /\ state'[u] = "queued" => runs'[u] = 0 \/ checkpoint'[u] \/ recoveryOnly'[u]
                   /\ state'[u] = "delivering" => checkpoint'[u]
                   /\ runs'[u] <= 1
<1>0. UNCHANGED <<state, runs, checkpoint, recoveryOnly>> => Goal
  BY DEF ReplayInv
<1>1. ASSUME NEW t \in Tasks, Create(t) PROVE Goal
  BY <1>1 DEF TypeOK, ReplayInv, Create, histVars
<1>2. /\ ExpiredState[u] = "absent" => state[u] = "absent"
      /\ ExpiredState[u] = "queued" => state[u] = "queued" \/ checkpoint[u]
      /\ ExpiredState[u] = "delivering" => state[u] = "delivering"
  BY DEF TypeOK, ReplayInv, ExpiredState, AfterExpiry
<1>3. ASSUME NEW t \in Tasks, Recover(t) PROVE Goal
  <2>1. CASE u = t
    BY <1>3, <2>1, ExpiryType DEF TypeOK, ReplayInv, Recover
  <2>2. CASE u # t
    BY <1>3, <2>2, <1>2, ExpiryType DEF TypeOK, ReplayInv, Recover
  <2> QED
    BY <2>1, <2>2
<1>4. ASSUME NEW t \in Tasks, CancelMark(t) PROVE Goal
  BY <1>4 DEF TypeOK, ReplayInv, CancelMark, AfterCancel
<1>5. ASSUME NEW r \in Runners, ClaimNothing(r) PROVE Goal
  BY <1>5, <1>2 DEF ReplayInv, ClaimNothing, histVars
<1>6. ASSUME NEW r \in Runners, NEW t \in Tasks, Claim(r, t) PROVE Goal
  <2>1. CASE u = t
    <3>1. ExpiredState[u] = "queued"
      BY <1>6, <2>1 DEF Claim, Claimable
    <3>2. runs[u] = 0 \/ checkpoint[u] \/ recoveryOnly[u]
      BY <1>2, <3>1 DEF ReplayInv
    <3>3. state'[u] = IF checkpoint[u] THEN "delivering" ELSE "running"
      BY <1>6, <2>1, ExpiryType DEF Claim
    <3>4. runs'[u] = IF checkpoint[u] \/ recoveryOnly[u] THEN runs[u] ELSE runs[u] + 1
      BY <1>6, <2>1 DEF TypeOK, Claim
    <3> QED
      BY <1>6, <3>2, <3>3, <3>4 DEF TypeOK, ReplayInv, Claim
  <2>2. CASE u # t
    BY <1>6, <2>2, <1>2, ExpiryType DEF TypeOK, ReplayInv, Claim
  <2> QED
    BY <2>1, <2>2
<1>7. ASSUME NEW r \in Runners, NEW s \in Terminal, UpdateTerminal(r, s) PROVE Goal
  BY <1>7 DEF TypeOK, ReplayInv, UpdateTerminal, HasLease, Target, Terminal, histVars
<1>8. ASSUME NEW r \in Runners, UpdateDelivering(r) PROVE Goal
  BY <1>8 DEF TypeOK, ReplayInv, UpdateDelivering, HasLease, Target, histVars
<1>9. ASSUME NEW r \in Runners, NEW b \in BOOLEAN, UpdateProgress(r, b) PROVE Goal
  <2>1. checkpoint[u] => checkpoint'[u]
    BY <1>9, Zenon DEF TypeOK, UpdateProgress
  <2>2. UNCHANGED <<state, runs, recoveryOnly>>
    BY <1>9 DEF UpdateProgress, histVars
  <2> QED
    BY <2>1, <2>2 DEF ReplayInv
<1>10. ASSUME UNCHANGED vars PROVE Goal
  BY <1>10, <1>0 DEF vars, rowVars, histVars
<1>11. ASSUME NEW t \in Tasks,
              \/ LeaseRunsOut(t) \/ CancelList(t) \/ CancelDies(t)
              \/ \E k \in Keys : CancelChild(t, k) \/ JobStarts(t, k) \/ JobEnds(t, k)
       PROVE  Goal
  BY <1>11, <1>0 DEF LeaseRunsOut, CancelList, CancelDies, CancelChild, JobStarts, JobEnds,
                     rowVars, histVars
<1>12. ASSUME NEW r \in Runners, UpdateRefused(r) \/ RunnerDies(r) PROVE Goal
  BY <1>12, <1>0 DEF UpdateRefused, RunnerDies, rowVars, histVars
<1>13. ASSUME NEW q \in Requests,
              \/ ReserveNothing(q) \/ ReserveChild(q) \/ CheckAgain(q) \/ CancelUnwanted(q)
              \/ RequestDies(q)
              \/ \E b \in BOOLEAN : SubmitChild(q, b)
              \/ \E r \in Runners, k \in Keys : ChildAccepted(q, r, k)
       PROVE  Goal
  BY <1>13, <1>0 DEF ReserveNothing, ReserveChild, CheckAgain, CancelUnwanted, RequestDies,
                     SubmitChild, ChildAccepted, rowVars, histVars
<1> HIDE DEF Goal
<1>14. ASSUME NEW r \in Runners, Polls(r) \/ Ends(r) PROVE Goal
  BY <1>14, <1>5, <1>6, <1>7, <1>12 DEF Polls, Ends
<1>15. Goal
  <2>1. CASE Next
    BY <2>1, <1>1, <1>3, <1>4, <1>8, <1>9, <1>11, <1>12, <1>13, <1>14, Zenon DEF Next
  <2> QED
    BY <2>1, <1>10
<1> QED
  BY <1>15 DEF Goal

(* expire, cancel, recover and redelivery never hand a generation to a      *)
(* runner twice.                                                            *)
THEOREM NoReplayHolds == Spec => []NoReplay
<1>1. Init => ReplayInv
  BY DEF Init, ReplayInv
<1>2. ReplayInv => NoReplay
  BY DEF ReplayInv, NoReplay
<1> QED
  BY <1>1, <1>2, ReplayStep, AgentTypeCorrect, PTL DEF Spec

-----------------------------------------------------------------------------
(* A request that may still submit its child has the child's row to itself. *)
InSubmission(q) == req[q].at \in {"reserved", "sent"}

ChildInv ==
  /\ \A q \in Requests : InSubmission(q) => req[q].key \in child[req[q].task]
  /\ \A t \in Tasks, k \in Keys : job[t][k] # "absent" => k \in child[t]
  /\ \A p, q \in Requests : p # q /\ InSubmission(p) /\ InSubmission(q) =>
       <<req[p].task, req[p].key>> # <<req[q].task, req[q].key>>
  /\ \A q \in Requests : req[q].at = "reserved" => job[req[q].task][req[q].key] = "absent"

(* Steps that submit nothing: no request moves, or one is given up or only  *)
(* accepted, and no status leaves "absent".                                 *)
LEMMA ChildFrame ==
  ASSUME TypeOK, ChildInv, child' = child,
         \A t \in Tasks, k \in Keys : job'[t][k] = "absent" <=> job[t][k] = "absent",
         \A q \in Requests : req'[q] = req[q] \/ req'[q].at \in {"idle", "checked", "unwanted"}
  PROVE  ChildInv'
<1>1. ASSUME NEW q \in Requests, InSubmission(q)'
      PROVE  req'[q] = req[q] /\ InSubmission(q) /\ req[q].task \in Tasks /\ req[q].key \in Keys
  BY <1>1 DEF InSubmission, TypeOK, InFlight, NoRequest
<1> QED
  BY <1>1 DEF ChildInv, InSubmission

LEMMA ChildStep == TypeOK /\ ChildInv /\ [Next]_vars => ChildInv'
<1> SUFFICES ASSUME TypeOK, ChildInv, [Next]_vars PROVE ChildInv'
  OBVIOUS
<1>0. UNCHANGED <<childVars, req>> => ChildInv'
  BY ChildFrame DEF childVars
<1>1. ASSUME NEW t \in Tasks, NEW k \in Keys, CancelChild(t, k) PROVE ChildInv'
  BY <1>1, ChildFrame, CancelledWrite DEF CancelChild
<1>2. ASSUME NEW t \in Tasks, NEW k \in Keys, JobStarts(t, k) \/ JobEnds(t, k) PROVE ChildInv'
  <2>1. PICK s \in JobStates : s # "absent" /\ job[t][k] # "absent" /\ job' = [job EXCEPT ![t][k] = s]
    BY <1>2 DEF JobStarts, JobEnds, JobStates
  <2>2. \A u \in Tasks, m \in Keys : job'[u][m] = "absent" <=> job[u][m] = "absent"
    BY <2>1, JobWrite
  <2> QED
    BY <1>2, <2>2, ChildFrame DEF JobStarts, JobEnds
<1>3. ASSUME NEW q \in Requests, ReserveNothing(q) \/ RequestDies(q) PROVE ChildInv'
  BY <1>3, ChildFrame DEF ReserveNothing, RequestDies, Dropped, NoRequest, childVars, TypeOK
<1>4. ASSUME NEW q \in Requests, NEW r \in Runners, NEW k \in Keys, ChildAccepted(q, r, k)
      PROVE  ChildInv'
  BY <1>4, ChildFrame DEF ChildAccepted, childVars, TypeOK
<1>5. ASSUME NEW q \in Requests, req[q].at # "idle"
      PROVE  req[q].task \in Tasks /\ req[q].key \in Keys
  BY <1>5 DEF TypeOK, NoRequest, InFlight
<1>6. ASSUME NEW q \in Requests, CheckAgain(q) \/ CancelUnwanted(q) PROVE ChildInv'
  <2>1. req[q].task \in Tasks /\ req[q].key \in Keys
    BY <1>6, <1>5 DEF CheckAgain, CancelUnwanted
  <2>2. \A u \in Tasks, m \in Keys : job'[u][m] = "absent" <=> job[u][m] = "absent"
    BY <1>6, <2>1, CancelledWrite DEF CheckAgain, CancelUnwanted, childVars
  <2>3. \A p \in Requests : req'[p] = req[p] \/ req'[p].at \in {"idle", "checked", "unwanted"}
    BY <1>6 DEF CheckAgain, CancelUnwanted, Dropped, Moved, NoRequest, TypeOK
  <2> QED
    BY <1>6, <2>2, <2>3, ChildFrame DEF CheckAgain, CancelUnwanted, childVars
<1>7. ASSUME NEW q \in Requests, ReserveChild(q) PROVE ChildInv'
  <2> DEFINE t == req[q].task
             k == req[q].key
  <2>1. t \in Tasks /\ k \in Keys /\ k \notin child[t]
    BY <1>7, <1>5 DEF ReserveChild, IsNew
  <2>2. child' = [child EXCEPT ![t] = child[t] \cup {k}] /\ job' = job
    BY <1>7 DEF ReserveChild
  <2>3. /\ req'[q].at = "reserved" /\ req'[q].task = t /\ req'[q].key = k
        /\ \A p \in Requests \ {q} : req'[p] = req[p]
    BY <1>7 DEF ReserveChild, Moved, TypeOK
  <2>4. job[t][k] = "absent"
    BY <2>1 DEF ChildInv
  <2>5. \A p \in Requests : InSubmission(p) => <<req[p].task, req[p].key>> # <<t, k>>
    BY <2>1 DEF ChildInv
  <2>6. \A u \in Tasks : child[u] \subseteq child'[u]
    BY <2>1, <2>2 DEF TypeOK
  <2>7. k \in child'[t]
    BY <2>1, <2>2 DEF TypeOK
  <2>8. \A p \in Requests : InSubmission(p) => req[p].task \in Tasks
    BY <1>5 DEF InSubmission
  <2> HIDE DEF t, k
  <2> QED
    BY <2>1, <2>2, <2>3, <2>4, <2>5, <2>6, <2>7, <2>8 DEF ChildInv, InSubmission
<1>8. ASSUME NEW q \in Requests, NEW b \in BOOLEAN, SubmitChild(q, b) PROVE ChildInv'
  <2> DEFINE t == req[q].task
             k == req[q].key
             s == IF b THEN "queued" ELSE "absent"
  <2>1. t \in Tasks /\ k \in Keys /\ InSubmission(q) /\ k \in child[t]
    BY <1>8, <1>5 DEF SubmitChild, InSubmission, ChildInv
  <2>2. s \in JobStates /\ job' = [job EXCEPT ![t][k] = s] /\ child' = child
    BY <1>8 DEF SubmitChild, JobStates
  <2>3. /\ req'[q].at = "sent" /\ req'[q].task = t /\ req'[q].key = k
        /\ \A p \in Requests \ {q} : req'[p] = req[p]
    BY <1>8 DEF SubmitChild, Moved, TypeOK
  <2>4. \A u \in Tasks, m \in Keys : <<u, m>> # <<t, k>> => job'[u][m] = job[u][m]
    BY <2>1, <2>2, JobWrite
  <2>5. \A p \in Requests \ {q} : InSubmission(p) => <<req[p].task, req[p].key>> # <<t, k>>
    BY <2>1 DEF ChildInv
  <2>6. \A p \in Requests : InSubmission(p) => req[p].task \in Tasks /\ req[p].key \in Keys
    BY <1>5 DEF InSubmission
  <2> HIDE DEF t, k, s
  <2>7. \A p \in Requests : InSubmission(p)' => InSubmission(p) /\ req'[p].task = req[p].task
                                                 /\ req'[p].key = req[p].key
    BY <2>1, <2>3 DEF InSubmission, t, k
  <2>8. \A u \in Tasks, m \in Keys : job'[u][m] # "absent" => m \in child'[u]
    BY <2>1, <2>2, <2>4 DEF ChildInv
  <2>9. \A p \in Requests : req'[p].at = "reserved" => job'[req'[p].task][req'[p].key] = "absent"
    BY <2>3, <2>4, <2>5, <2>6 DEF ChildInv, InSubmission
  <2> QED
    BY <2>2, <2>7, <2>8, <2>9 DEF ChildInv
<1>9. ASSUME NEW t \in Tasks,
             \/ Create(t) \/ Recover(t) \/ LeaseRunsOut(t)
             \/ CancelMark(t) \/ CancelList(t) \/ CancelDies(t)
      PROVE  ChildInv'
  BY <1>9, <1>0 DEF Create, Recover, LeaseRunsOut, CancelMark, CancelList, CancelDies
<1>10. ASSUME NEW r \in Runners,
              \/ Polls(r) \/ Ends(r) \/ UpdateDelivering(r) \/ RunnerDies(r)
              \/ \E b \in BOOLEAN : UpdateProgress(r, b)
       PROVE  ChildInv'
  BY <1>10, <1>0 DEF Polls, Ends, ClaimNothing, Claim, UpdateRefused, UpdateTerminal,
                     UpdateDelivering, UpdateProgress, RunnerDies
<1>11. ASSUME UNCHANGED vars PROVE ChildInv'
  BY <1>11, <1>0 DEF vars
<1>12. ASSUME Next PROVE ChildInv'
  BY <1>12, <1>1, <1>2, <1>3, <1>4, <1>6, <1>7, <1>8, <1>9, <1>10, Zenon DEF Next
<1> QED
  BY <1>11, <1>12

(* Whatever requests a runner repeats, and wherever instances die, a child  *)
(* prompt is submitted by one request only.                                 *)
THEOREM SubmittedOnceHolds == Spec => []SubmittedOnce
<1>1. Init => ChildInv
  BY DEF Init, ChildInv, InSubmission, NoRequest
<1>2. ChildInv => SubmittedOnce
  BY DEF ChildInv, SubmittedOnce, InSubmission
<1> QED
  BY <1>1, <1>2, ChildStep, AgentTypeCorrect, PTL DEF Spec
-----------------------------------------------------------------------------
(* Set against set: a table in which no new task holds a lease respects the *)
(* limits if it did before.                                                 *)
LEMMA LimitsFrame ==
  ASSUME TypeOK, LeaseLimits, \A t \in Tasks : lease'[t] # Nobody => lease[t] # Nobody
  PROVE  LeaseLimits'
<1> DEFINE L == {t \in Tasks : lease[t] # Nobody}
           M == {t \in Tasks : lease'[t] # Nobody}
           LU(t) == {u \in Tasks : lease[u] # Nobody /\ OwnerOf[u] = OwnerOf[t]}
           MU(t) == {u \in Tasks : lease'[u] # Nobody /\ OwnerOf[u] = OwnerOf[t]}
<1>1. M \subseteq L /\ \A t \in Tasks : MU(t) \subseteq LU(t)
  OBVIOUS
<1>2. IsFiniteSet(L) /\ \A t \in Tasks : IsFiniteSet(LU(t))
  BY AgentAssumption, FS_Subset
<1>3. /\ Cardinality(M) <= Cardinality(L) /\ Cardinality(M) \in Nat /\ Cardinality(L) \in Nat
      /\ \A t \in Tasks : /\ Cardinality(MU(t)) <= Cardinality(LU(t))
                          /\ Cardinality(MU(t)) \in Nat /\ Cardinality(LU(t)) \in Nat
  BY <1>1, <1>2, FS_Subset, FS_CardinalityType
<1>4. Cardinality(L) <= Concurrency /\ \A t \in Tasks : Cardinality(LU(t)) <= PerUser
  BY DEF LeaseLimits
<1>5. Concurrency \in Nat /\ PerUser \in Nat
  BY AgentAssumption
<1> HIDE DEF L, M, LU, MU
<1>6. Cardinality(M) <= Concurrency /\ \A t \in Tasks : Cardinality(MU(t)) <= PerUser
  BY <1>3, <1>4, <1>5
<1> QED
  BY <1>6 DEF M, MU, LeaseLimits

(* A set below its limit takes one more element.                            *)
LEMMA OneMore ==
  ASSUME NEW S \in SUBSET Tasks, NEW T \in SUBSET Tasks, NEW t \in Tasks, NEW n \in Nat,
         S \subseteq T \cup {t}, Cardinality(T) < n
  PROVE  Cardinality(S) <= n
<1>1. IsFiniteSet(T) /\ IsFiniteSet(T \cup {t})
  BY AgentAssumption, FS_Subset
<1>2. Cardinality(S) \in Nat /\ Cardinality(T) \in Nat /\ Cardinality(T \cup {t}) \in Nat
      /\ Cardinality(S) <= Cardinality(T \cup {t})
  BY <1>1, FS_Subset, FS_CardinalityType
<1>3. Cardinality(T \cup {t}) <= Cardinality(T) + 1
  BY <1>1, <1>2, FS_AddElement
<1> QED
  BY <1>2, <1>3

(* A lease is handed out below both limits, and nothing else adds one.      *)
LEMMA LimitsStep == TypeOK /\ LeaseLimits /\ [Next]_vars => LeaseLimits'
<1> SUFFICES ASSUME TypeOK, LeaseLimits, [Next]_vars PROVE LeaseLimits'
  OBVIOUS
<1>0. lease' = lease => LeaseLimits'
  BY LimitsFrame
<1>1. \A u \in Tasks : ExpiredLease[u] # Nobody => lease[u] # Nobody
  BY DEF ExpiredLease
<1>2. ASSUME NEW t \in Tasks, Recover(t) PROVE LeaseLimits'
  BY <1>1, <1>2, ExpiryType, LimitsFrame DEF Recover
<1>3. ASSUME NEW r \in Runners, ClaimNothing(r) PROVE LeaseLimits'
  BY <1>1, <1>3, LimitsFrame DEF ClaimNothing
<1>4. ASSUME NEW r \in Runners, NEW t \in Tasks, Claim(r, t) PROVE LeaseLimits'
  <2> DEFINE E == {u \in Tasks : ExpiredLease[u] # Nobody}
             M == {u \in Tasks : lease'[u] # Nobody}
             MU(v) == {u \in Tasks : lease'[u] # Nobody /\ OwnerOf[u] = OwnerOf[v]}
             LU(v) == {u \in Tasks : lease[u] # Nobody /\ OwnerOf[u] = OwnerOf[v]}
  <2>1. \A u \in Tasks \ {t} : lease'[u] = ExpiredLease[u]
    BY <1>4, ExpiryType DEF Claim
  <2>2. Cardinality(E) < Concurrency /\ Cardinality(Leased(OwnerOf[t])) < PerUser
    BY <1>4 DEF Claim, Claimable, AccountHasRoom
  <2>3. Concurrency \in Nat /\ PerUser \in Nat
    BY AgentAssumption
  <2>4. Cardinality(M) <= Concurrency
    <3>1. M \in SUBSET Tasks /\ E \in SUBSET Tasks /\ M \subseteq E \cup {t}
      BY <2>1
    <3> HIDE DEF M, E
    <3> QED
      BY <2>2, <2>3, <3>1, OneMore
  <2>5. ASSUME NEW v \in Tasks, OwnerOf[v] = OwnerOf[t] PROVE Cardinality(MU(v)) <= PerUser
    <3>1. /\ MU(v) \in SUBSET Tasks /\ Leased(OwnerOf[t]) \in SUBSET Tasks
          /\ MU(v) \subseteq Leased(OwnerOf[t]) \cup {t}
      BY <2>1, <2>5 DEF Leased
    <3> HIDE DEF MU
    <3> QED
      BY <2>2, <2>3, <3>1, OneMore
  <2>6. ASSUME NEW v \in Tasks, OwnerOf[v] # OwnerOf[t] PROVE Cardinality(MU(v)) <= PerUser
    <3>1. MU(v) \subseteq LU(v)
      BY <1>1, <2>1, <2>6
    <3>2. IsFiniteSet(LU(v))
      BY AgentAssumption, FS_Subset
    <3>3. Cardinality(LU(v)) <= PerUser
      BY DEF LeaseLimits
    <3> HIDE DEF MU, LU
    <3>4. /\ Cardinality(MU(v)) <= Cardinality(LU(v))
          /\ Cardinality(MU(v)) \in Nat /\ Cardinality(LU(v)) \in Nat
      BY <3>1, <3>2, FS_Subset, FS_CardinalityType
    <3> QED
      BY <2>3, <3>3, <3>4
  <2>7. \A v \in Tasks : Cardinality(MU(v)) <= PerUser
    BY <2>5, <2>6
  <2> QED
    BY <2>4, <2>7 DEF LeaseLimits
<1>5. ASSUME NEW r \in Runners, NEW s \in Terminal, UpdateTerminal(r, s) PROVE LeaseLimits'
  BY <1>5, LimitsFrame DEF UpdateTerminal, HasLease, TypeOK
<1>6. ASSUME NEW t \in Tasks,
             \/ Create(t) \/ LeaseRunsOut(t) \/ CancelMark(t) \/ CancelList(t) \/ CancelDies(t)
             \/ \E k \in Keys : CancelChild(t, k) \/ JobStarts(t, k) \/ JobEnds(t, k)
      PROVE  LeaseLimits'
  BY <1>0, <1>6 DEF Create, LeaseRunsOut, CancelMark, CancelList, CancelDies, CancelChild,
                    JobStarts, JobEnds, rowVars
<1>7. ASSUME NEW r \in Runners,
             \/ UpdateRefused(r) \/ UpdateDelivering(r) \/ RunnerDies(r)
             \/ \E b \in BOOLEAN : UpdateProgress(r, b)
      PROVE  LeaseLimits'
  BY <1>0, <1>7 DEF UpdateRefused, UpdateDelivering, RunnerDies, UpdateProgress, rowVars
<1>8. ASSUME NEW q \in Requests,
             \/ ReserveNothing(q) \/ ReserveChild(q) \/ CheckAgain(q) \/ CancelUnwanted(q)
             \/ RequestDies(q)
             \/ \E b \in BOOLEAN : SubmitChild(q, b)
             \/ \E r \in Runners, k \in Keys : ChildAccepted(q, r, k)
      PROVE  LeaseLimits'
  BY <1>0, <1>8 DEF ReserveNothing, ReserveChild, CheckAgain, CancelUnwanted, RequestDies,
                    SubmitChild, ChildAccepted, rowVars
<1>9. ASSUME NEW r \in Runners, Polls(r) \/ Ends(r) PROVE LeaseLimits'
  BY <1>3, <1>4, <1>5, <1>7, <1>9 DEF Polls, Ends
<1>10. ASSUME Next PROVE LeaseLimits'
  BY <1>2, <1>6, <1>7, <1>8, <1>9, <1>10, Zenon DEF Next
<1>11. ASSUME UNCHANGED vars PROVE LeaseLimits'
  BY <1>0, <1>11 DEF vars, rowVars
<1> QED
  BY <1>10, <1>11

(* claim counts inside its transaction, after expire: whatever runners die  *)
(* and whatever is cancelled or recovered, the service's and the account's  *)
(* limits on leased tasks hold.                                             *)
THEOREM LeaseLimitsHold == Spec => []LeaseLimits
<1>1. Init => LeaseLimits
  <2> SUFFICES ASSUME Init PROVE LeaseLimits
    OBVIOUS
  <2>1. \A t \in Tasks : lease[t] = Nobody
    BY DEF Init
  <2>2. /\ {t \in Tasks : lease[t] # Nobody} = {}
        /\ \A t \in Tasks : {u \in Tasks : lease[u] # Nobody /\ OwnerOf[u] = OwnerOf[t]} = {}
    BY <2>1
  <2>3. 0 <= Concurrency /\ 0 <= PerUser
    BY AgentAssumption
  <2> QED
    BY <2>2, <2>3, FS_EmptySet DEF LeaseLimits
<1> QED
  BY <1>1, LimitsStep, AgentTypeCorrect, PTL DEF Spec

-----------------------------------------------------------------------------
(* Only a task that runs, is delivered or is being cancelled is leased.     *)
LeasedIsActive == \A t \in Tasks : lease[t] # Nobody => state[t] \in Active

(* A task that is leased has not ended.                                     *)
LEMMA LeasedStep == TypeOK /\ LeasedIsActive /\ [Next]_vars => LeasedIsActive'
<1> SUFFICES ASSUME TypeOK, LeasedIsActive, [Next]_vars PROVE LeasedIsActive'
  OBVIOUS
<1>0. UNCHANGED <<state, lease>> => LeasedIsActive'
  BY DEF LeasedIsActive
<1>1. \A t \in Tasks : ExpiredLease[t] # Nobody => ExpiredState[t] \in Active
  BY DEF LeasedIsActive, ExpiredLease, ExpiredState
<1>2. ASSUME NEW t \in Tasks, Create(t) PROVE LeasedIsActive'
  BY <1>2 DEF Create, LeasedIsActive, TypeOK, Active
<1>3. ASSUME NEW t \in Tasks, Recover(t) PROVE LeasedIsActive'
  BY <1>1, <1>3, ExpiryType DEF Recover, LeasedIsActive
<1>4. ASSUME NEW t \in Tasks, CancelMark(t) PROVE LeasedIsActive'
  BY <1>4 DEF CancelMark, AfterCancel, LeasedIsActive, TypeOK, Active
<1>5. ASSUME NEW r \in Runners, ClaimNothing(r) PROVE LeasedIsActive'
  BY <1>1, <1>5 DEF ClaimNothing, LeasedIsActive
<1>6. ASSUME NEW r \in Runners, NEW t \in Tasks, Claim(r, t) PROVE LeasedIsActive'
  BY <1>1, <1>6, ExpiryType DEF Claim, LeasedIsActive, Active
<1>7. ASSUME NEW r \in Runners, NEW s \in Terminal, UpdateTerminal(r, s) PROVE LeasedIsActive'
  BY <1>7 DEF UpdateTerminal, HasLease, LeasedIsActive, TypeOK
<1>8. ASSUME NEW r \in Runners, UpdateDelivering(r) PROVE LeasedIsActive'
  BY <1>8 DEF UpdateDelivering, HasLease, Target, LeasedIsActive, TypeOK, Active
<1>9. ASSUME NEW t \in Tasks,
             \/ LeaseRunsOut(t) \/ CancelList(t) \/ CancelDies(t)
             \/ \E k \in Keys : CancelChild(t, k) \/ JobStarts(t, k) \/ JobEnds(t, k)
      PROVE  LeasedIsActive'
  BY <1>0, <1>9 DEF LeaseRunsOut, CancelList, CancelDies, CancelChild, JobStarts, JobEnds, rowVars
<1>10. ASSUME NEW r \in Runners,
              \/ UpdateRefused(r) \/ RunnerDies(r)
              \/ \E b \in BOOLEAN : UpdateProgress(r, b)
       PROVE  LeasedIsActive'
  BY <1>0, <1>10 DEF UpdateRefused, RunnerDies, UpdateProgress, rowVars
<1>11. ASSUME NEW q \in Requests,
              \/ ReserveNothing(q) \/ ReserveChild(q) \/ CheckAgain(q) \/ CancelUnwanted(q)
              \/ RequestDies(q)
              \/ \E b \in BOOLEAN : SubmitChild(q, b)
              \/ \E r \in Runners, k \in Keys : ChildAccepted(q, r, k)
       PROVE  LeasedIsActive'
  BY <1>0, <1>11 DEF ReserveNothing, ReserveChild, CheckAgain, CancelUnwanted, RequestDies,
                     SubmitChild, ChildAccepted, rowVars
<1>12. ASSUME NEW r \in Runners, Polls(r) \/ Ends(r) PROVE LeasedIsActive'
  BY <1>5, <1>6, <1>7, <1>10, <1>12 DEF Polls, Ends
<1>13. ASSUME Next PROVE LeasedIsActive'
  BY <1>2, <1>3, <1>4, <1>8, <1>9, <1>10, <1>11, <1>12, <1>13, Zenon DEF Next
<1>14. ASSUME UNCHANGED vars PROVE LeasedIsActive'
  BY <1>0, <1>14 DEF vars, rowVars
<1> QED
  BY <1>13, <1>14

(* A task whose cancellation was granted never runs again, and leaves       *)
(* cancel_requested for the queue or for success only with a checkpoint.    *)
AskedInv ==
  \A t \in asked :
    /\ state[t] \notin {"absent", "running"}
    /\ state[t] \in {"queued", "delivering", "completed"} => checkpoint[t]

(* What was asked to stop stays asked until it has ended.                   *)
LEMMA AskedStep == TypeOK /\ LeasedIsActive /\ AskedInv /\ [Next]_vars => AskedInv'
<1> SUFFICES ASSUME TypeOK, LeasedIsActive, AskedInv, [Next]_vars, NEW u \in asked'
             PROVE  /\ state'[u] \notin {"absent", "running"}
                    /\ state'[u] \in {"queued", "delivering", "completed"} => checkpoint'[u]
  BY DEF AskedInv
<1> DEFINE Goal == /\ state'[u] \notin {"absent", "running"}
                   /\ state'[u] \in {"queued", "delivering", "completed"} => checkpoint'[u]
<1>0. UNCHANGED <<state, checkpoint, asked>> => Goal
  BY DEF AskedInv
<1>1. ASSUME NEW t \in Tasks, Create(t) PROVE Goal
  BY <1>1 DEF TypeOK, AskedInv, Create, histVars
<1>2. u \in asked => /\ ExpiredState[u] \notin {"absent", "running"}
                     /\ ExpiredState[u] \in {"queued", "delivering", "completed"} => checkpoint[u]
  BY DEF TypeOK, AskedInv, ExpiredState, AfterExpiry
<1>3. ASSUME NEW t \in Tasks, Recover(t) PROVE Goal
  <2>1. u \in asked /\ u # t /\ u \in Tasks
    BY <1>3 DEF Recover, TypeOK
  <2> QED
    BY <1>2, <1>3, <2>1, ExpiryType DEF Recover
<1>4. ASSUME NEW t \in Tasks, CancelMark(t) PROVE Goal
  <2>1. CASE u = t
    BY <1>4, <2>1 DEF TypeOK, AskedInv, CancelMark, AfterCancel
  <2>2. CASE u # t
    BY <1>4, <2>2 DEF TypeOK, AskedInv, CancelMark
  <2> QED
    BY <2>1, <2>2
<1>5. ASSUME NEW r \in Runners, ClaimNothing(r) PROVE Goal
  BY <1>2, <1>5 DEF ClaimNothing, histVars
<1>6. ASSUME NEW r \in Runners, NEW t \in Tasks, Claim(r, t) PROVE Goal
  <2>1. u \in asked /\ u \in Tasks /\ checkpoint' = checkpoint
    BY <1>6 DEF Claim, TypeOK
  <2>2. CASE u = t
    <3>1. ExpiredState[u] = "queued" /\ checkpoint[u]
      BY <1>2, <1>6, <2>1, <2>2 DEF Claim, Claimable
    <3>2. state'[u] = "delivering"
      BY <1>6, <2>2, <3>1, ExpiryType DEF Claim
    <3> QED
      BY <2>1, <3>1, <3>2
  <2>3. CASE u # t
    BY <1>2, <1>6, <2>1, <2>3, ExpiryType DEF Claim
  <2> QED
    BY <2>2, <2>3
<1>7. ASSUME NEW r \in Runners, NEW s \in Terminal, UpdateTerminal(r, s) PROVE Goal
  <2>1. u \in asked /\ u \in Tasks /\ checkpoint' = checkpoint
    BY <1>7 DEF UpdateTerminal, TypeOK, histVars
  <2>2. CASE u = holds[r]
    <3>1. state'[u] = Target(state[u], s) /\ state[u] \in Active
      BY <1>7, <2>1, <2>2, AgentAssumption DEF UpdateTerminal, HasLease, TypeOK, LeasedIsActive
    <3> QED
      BY <2>1, <2>2, <3>1 DEF Target, Terminal, Active, AskedInv
  <2>3. CASE u # holds[r]
    BY <1>7, <2>1, <2>3 DEF UpdateTerminal, TypeOK, AskedInv
  <2> QED
    BY <2>2, <2>3
<1>8. ASSUME NEW r \in Runners, UpdateDelivering(r) PROVE Goal
  BY <1>8 DEF TypeOK, AskedInv, UpdateDelivering, HasLease, Target, histVars
<1>9. ASSUME NEW r \in Runners, NEW b \in BOOLEAN, UpdateProgress(r, b) PROVE Goal
  <2>1. UNCHANGED <<state, asked>>
    BY <1>9 DEF UpdateProgress, histVars
  <2>2. u \in Tasks
    BY <2>1 DEF TypeOK
  <2>3. checkpoint[u] => checkpoint'[u]
    BY <1>9, <2>2, Zenon DEF TypeOK, UpdateProgress
  <2> QED
    BY <2>1, <2>3 DEF AskedInv
<1>10. ASSUME UNCHANGED vars PROVE Goal
  BY <1>10, <1>0 DEF vars, rowVars, histVars
<1>11. ASSUME NEW t \in Tasks,
              \/ LeaseRunsOut(t) \/ CancelList(t) \/ CancelDies(t)
              \/ \E k \in Keys : CancelChild(t, k) \/ JobStarts(t, k) \/ JobEnds(t, k)
       PROVE  Goal
  BY <1>11, <1>0 DEF LeaseRunsOut, CancelList, CancelDies, CancelChild, JobStarts, JobEnds,
                     rowVars, histVars
<1>12. ASSUME NEW r \in Runners, UpdateRefused(r) \/ RunnerDies(r) PROVE Goal
  BY <1>12, <1>0 DEF UpdateRefused, RunnerDies, rowVars, histVars
<1>13. ASSUME NEW q \in Requests,
              \/ ReserveNothing(q) \/ ReserveChild(q) \/ CheckAgain(q) \/ CancelUnwanted(q)
              \/ RequestDies(q)
              \/ \E b \in BOOLEAN : SubmitChild(q, b)
              \/ \E r \in Runners, k \in Keys : ChildAccepted(q, r, k)
       PROVE  Goal
  BY <1>13, <1>0 DEF ReserveNothing, ReserveChild, CheckAgain, CancelUnwanted, RequestDies,
                     SubmitChild, ChildAccepted, rowVars, histVars
<1> HIDE DEF Goal
<1>14. ASSUME NEW r \in Runners, Polls(r) \/ Ends(r) PROVE Goal
  BY <1>14, <1>5, <1>6, <1>7, <1>12 DEF Polls, Ends
<1>15. Goal
  <2>1. CASE Next
    BY <2>1, <1>1, <1>3, <1>4, <1>8, <1>9, <1>11, <1>12, <1>13, <1>14, Zenon DEF Next
  <2> QED
    BY <2>1, <1>10
<1> QED
  BY <1>15 DEF Goal

(* The invariant of cancelled tasks holds throughout.                       *)
LEMMA AskedAlways == Spec => []AskedInv
<1>1. Init => LeasedIsActive /\ AskedInv
  BY DEF Init, LeasedIsActive, AskedInv
<1> QED
  BY <1>1, LeasedStep, AskedStep, AgentTypeCorrect, PTL DEF Spec

(* A task whose cancellation was granted can only end as completed by the   *)
(* delivery of a saved checkpoint, however its runner's updates, expiry and *)
(* later claims interleave with the cancellation.                           *)
THEOREM CancelledSucceedsByDeliveryHolds == Spec => []CancelledSucceedsByDelivery
<1>1. AskedInv => CancelledSucceedsByDelivery
  BY DEF AskedInv, CancelledSucceedsByDelivery
<1> QED
  BY <1>1, AskedAlways, PTL

-----------------------------------------------------------------------------
(* As long as no instance died: a child that waits in the queue although    *)
(* its task was cancelled has somebody who will cancel it, the cancel       *)
(* request before or after it listed the children, or its own submission.   *)
Covered(t, k) ==
  \/ cancelling[t].at = "marked"
  \/ k \in cancelling[t].todo
  \/ \E q \in Requests : req[q].at \in {"sent", "unwanted"} /\ req[q].task = t /\ req[q].key = k

ReachInv ==
  /\ faults \in Nat
  /\ \A t \in Tasks : cancelling[t].at = "marked" => cancelling[t].todo = {}
  /\ faults = 0 => \A t \in asked, k \in Keys : job[t][k] = "queued" => Covered(t, k)

(* Steps that queue no child, cancel no task and drop no request that has   *)
(* submitted.                                                               *)
LEMMA ReachFrame ==
  ASSUME TypeOK, ReachInv, cancelling' = cancelling, asked' \subseteq asked,
         faults' \in {faults, faults + 1},
         \A t \in Tasks, k \in Keys : job'[t][k] = "queued" => job[t][k] = "queued",
         \A q \in Requests : req[q].at \in {"sent", "unwanted"} => req'[q] = req[q]
  PROVE  ReachInv'
<1>1. faults' \in Nat /\ (faults' = 0 => faults = 0)
  BY DEF ReachInv
<1>2. ASSUME NEW t \in Tasks, NEW k \in Keys, Covered(t, k) PROVE Covered(t, k)'
  BY <1>2 DEF Covered
<1> QED
  BY <1>1, <1>2 DEF ReachInv, TypeOK

(* Every child that the cancellation must reach is covered by someone who   *)
(* will.                                                                    *)
LEMMA ReachStep ==
  TypeOK /\ ChildInv /\ AskedInv /\ ReachInv /\ [Next]_vars => ReachInv'
<1> SUFFICES ASSUME TypeOK, ChildInv, AskedInv, ReachInv, [Next]_vars PROVE ReachInv'
  OBVIOUS
<1>0. UNCHANGED <<childVars, req, cancelling, faults>> /\ asked' \subseteq asked => ReachInv'
  BY ReachFrame DEF childVars
<1>1. ASSUME NEW t \in Tasks, Create(t) \/ Recover(t) PROVE ReachInv'
  BY <1>0, <1>1 DEF Create, Recover, histVars, bounds
<1>2. ASSUME NEW t \in Tasks, LeaseRunsOut(t) PROVE ReachInv'
  BY <1>2, ReachFrame DEF LeaseRunsOut, Fault, childVars, histVars
<1>3. ASSUME NEW t \in Tasks, CancelMark(t) PROVE ReachInv'
  <2>1. /\ cancelling'[t].at = "marked" /\ cancelling'[t].todo = {}
        /\ \A u \in Tasks \ {t} : cancelling'[u] = cancelling[u]
        /\ asked' \subseteq asked \cup {t}
        /\ job' = job /\ req' = req /\ faults' = faults
    BY <1>3 DEF CancelMark, TypeOK, childVars, bounds
  <2>2. \A u \in Tasks, k \in Keys : Covered(u, k) => Covered(u, k)'
    BY <2>1 DEF Covered
  <2>3. \A k \in Keys : Covered(t, k)'
    BY <2>1 DEF Covered
  <2> QED
    BY <2>1, <2>2, <2>3 DEF ReachInv, TypeOK
<1>4. ASSUME NEW t \in Tasks, CancelList(t) PROVE ReachInv'
  <2>1. /\ cancelling'[t].at # "marked" /\ cancelling'[t].todo = child[t]
        /\ \A u \in Tasks \ {t} : cancelling'[u] = cancelling[u]
        /\ asked' = asked /\ job' = job /\ req' = req /\ faults' = faults
    BY <1>4 DEF CancelList, NoCancel, TypeOK, childVars, histVars, bounds
  <2>2. \A k \in Keys : job[t][k] = "queued" => Covered(t, k)'
    BY <2>1 DEF Covered, ChildInv
  <2>3. \A u \in Tasks \ {t}, k \in Keys : Covered(u, k) => Covered(u, k)'
    BY <2>1 DEF Covered
  <2> QED
    BY <2>1, <2>2, <2>3 DEF ReachInv, TypeOK
<1>5. ASSUME NEW t \in Tasks, CancelDies(t) PROVE ReachInv'
  <2>1. faults' = faults + 1 /\ \A u \in Tasks : cancelling'[u].at = "marked" =>
                                                 cancelling'[u] = cancelling[u]
    BY <1>5 DEF CancelDies, Fault, NoCancel, TypeOK
  <2> QED
    BY <2>1 DEF ReachInv
<1>6. ASSUME NEW q \in Requests, RequestDies(q) PROVE ReachInv'
  BY <1>6 DEF RequestDies, Fault, ReachInv
<1>7. ASSUME NEW t \in Tasks, NEW k \in Keys, ChildCancelled(t, k)
      PROVE  /\ job'[t][k] # "queued"
             /\ \A u \in Tasks, m \in Keys : job'[u][m] = "queued" => job[u][m] = "queued"
  <2> DEFINE s == IF job[t][k] = "queued" THEN "cancelled" ELSE job[t][k]
  <2>1. s \in JobStates /\ s # "queued" /\ job' = [job EXCEPT ![t][k] = s]
    BY <1>7 DEF TypeOK, JobStates, ChildCancelled
  <2> HIDE DEF s
  <2> QED
    BY <2>1, JobWrite
<1>8. ASSUME NEW t \in Tasks, NEW k \in Keys, CancelChild(t, k) PROVE ReachInv'
  <2>1. /\ \A u \in Tasks \ {t} : cancelling'[u] = cancelling[u]
        /\ cancelling'[t].at # "marked" /\ cancelling'[t].todo = cancelling[t].todo \ {k}
        /\ asked' = asked /\ req' = req /\ faults' = faults
    BY <1>8 DEF CancelChild, NoCancel, TypeOK, histVars, bounds
  <2>2. /\ job'[t][k] # "queued"
        /\ \A u \in Tasks, m \in Keys : job'[u][m] = "queued" => job[u][m] = "queued"
    BY <1>7, <1>8 DEF CancelChild
  <2>3. cancelling[t].at # "marked"
    BY <1>8 DEF CancelChild, ReachInv
  <2>4. \A u \in Tasks, m \in Keys : Covered(u, m) /\ <<u, m>> # <<t, k>> => Covered(u, m)'
    BY <2>1, <2>3 DEF Covered
  <2>5. asked \subseteq Tasks
    BY DEF TypeOK
  <2>6. \A u \in asked', m \in Keys : faults' = 0 /\ job'[u][m] = "queued" => Covered(u, m)'
    BY <2>1, <2>2, <2>4, <2>5 DEF ReachInv
  <2> QED
    BY <2>1, <2>6 DEF ReachInv
<1>9. ASSUME NEW t \in Tasks, NEW k \in Keys, JobStarts(t, k) \/ JobEnds(t, k) PROVE ReachInv'
  <2>1. PICK s \in JobStates : s # "queued" /\ job' = [job EXCEPT ![t][k] = s]
    BY <1>9 DEF JobStarts, JobEnds, JobStates
  <2>2. \A u \in Tasks, m \in Keys : job'[u][m] = "queued" => job[u][m] = "queued"
    BY <2>1, JobWrite
  <2> QED
    BY <1>9, <2>2, ReachFrame DEF JobStarts, JobEnds, histVars, bounds
<1>10. ASSUME NEW q \in Requests, ReserveNothing(q) \/ ReserveChild(q) PROVE ReachInv'
  <2>1. \A p \in Requests : req[p].at \in {"sent", "unwanted"} => req'[p] = req[p]
    BY <1>10 DEF ReserveNothing, ReserveChild, Dropped, Moved, TypeOK
  <2> QED
    BY <1>10, <2>1, ReachFrame DEF ReserveNothing, ReserveChild, childVars, histVars, bounds
<1>11. ASSUME NEW q \in Requests, NEW r \in Runners, NEW k \in Keys, ChildAccepted(q, r, k)
       PROVE  ReachInv'
  <2>1. \A p \in Requests : req[p].at \in {"sent", "unwanted"} => req'[p] = req[p]
    BY <1>11 DEF ChildAccepted, NoRequest, TypeOK
  <2> QED
    BY <1>11, <2>1, ReachFrame DEF ChildAccepted, childVars, histVars, bounds
<1>12. ASSUME NEW q \in Requests, req[q].at # "idle"
       PROVE  req[q].task \in Tasks /\ req[q].key \in Keys
  BY <1>12 DEF TypeOK, NoRequest, InFlight
<1>13. ASSUME NEW q \in Requests, NEW b \in BOOLEAN, SubmitChild(q, b) PROVE ReachInv'
  <2>1. PICK t \in Tasks, k \in Keys : t = req[q].task /\ k = req[q].key
    BY <1>12, <1>13 DEF SubmitChild
  <2> DEFINE s == IF b THEN "queued" ELSE "absent"
  <2>2. s \in JobStates /\ job' = [job EXCEPT ![t][k] = s]
    BY <1>13, <2>1 DEF SubmitChild, JobStates
  <2>3. /\ req'[q].at = "sent" /\ req'[q].task = t /\ req'[q].key = k
        /\ \A p \in Requests : req[p].at \in {"sent", "unwanted"} => req'[p] = req[p]
        /\ cancelling' = cancelling /\ asked' = asked /\ faults' = faults
    BY <1>13, <2>1 DEF SubmitChild, Moved, TypeOK, histVars, bounds
  <2> HIDE DEF s
  <2>4. \A u \in Tasks, m \in Keys : <<u, m>> # <<t, k>> => job'[u][m] = job[u][m]
    BY <2>2, JobWrite
  <2>5. Covered(t, k)'
    BY <2>3 DEF Covered
  <2>6. \A u \in Tasks, m \in Keys : Covered(u, m) => Covered(u, m)'
    BY <2>3 DEF Covered
  <2>7. asked \subseteq Tasks
    BY DEF TypeOK
  <2>8. \A u \in asked', m \in Keys : faults' = 0 /\ job'[u][m] = "queued" => Covered(u, m)'
    BY <2>3, <2>4, <2>5, <2>6, <2>7 DEF ReachInv
  <2> QED
    BY <2>3, <2>8 DEF ReachInv
<1>14. ASSUME NEW q \in Requests, CheckAgain(q) \/ CancelUnwanted(q) PROVE ReachInv'
  <2>1. PICK t \in Tasks, k \in Keys : t = req[q].task /\ k = req[q].key
    BY <1>12, <1>14 DEF CheckAgain, CancelUnwanted
  <2>2. /\ \A p \in Requests \ {q} : req'[p] = req[p]
        /\ cancelling' = cancelling /\ asked' = asked /\ faults' = faults
    BY <1>14 DEF CheckAgain, CancelUnwanted, Dropped, Moved, TypeOK, histVars, bounds
  <2>3. \A u \in Tasks, m \in Keys : job'[u][m] = "queued" => job[u][m] = "queued"
    BY <1>7, <1>14, <2>1 DEF CheckAgain, CancelUnwanted, childVars
  <2>4. CASE CheckAgain(q) /\ ~StillWanted(t)
    <3>1. req'[q].at = "unwanted" /\ req'[q].task = t /\ req'[q].key = k
      BY <2>1, <2>4 DEF CheckAgain, Moved, TypeOK
    <3>2. \A u \in Tasks, m \in Keys : Covered(u, m) => Covered(u, m)'
      BY <2>1, <2>2, <3>1 DEF Covered
    <3> QED
      BY <2>2, <2>3, <3>2 DEF ReachInv, TypeOK
  <2>5. CASE (CheckAgain(q) /\ StillWanted(t)) \/ CancelUnwanted(q)
    <3>1. t \in asked => job'[t][k] # "queued"
      BY <1>7, <2>1, <2>5 DEF CancelUnwanted, AskedInv, StillWanted
    <3>2. \A u \in Tasks, m \in Keys : Covered(u, m) /\ <<u, m>> # <<t, k>> => Covered(u, m)'
      BY <2>1, <2>2 DEF Covered
    <3>3. asked \subseteq Tasks
      BY DEF TypeOK
    <3>4. \A u \in asked', m \in Keys : faults' = 0 /\ job'[u][m] = "queued" => Covered(u, m)'
      BY <2>2, <2>3, <3>1, <3>2, <3>3 DEF ReachInv
    <3> QED
      BY <2>2, <3>4 DEF ReachInv
  <2> QED
    BY <1>14, <2>4, <2>5
<1>15. ASSUME NEW r \in Runners, RunnerDies(r) PROVE ReachInv'
  BY <1>15, ReachFrame DEF RunnerDies, Fault, childVars, histVars
<1>16. ASSUME NEW r \in Runners,
              \/ Polls(r) \/ Ends(r) \/ UpdateDelivering(r)
              \/ \E b \in BOOLEAN : UpdateProgress(r, b)
       PROVE  ReachInv'
  BY <1>0, <1>16 DEF Polls, Ends, ClaimNothing, Claim, UpdateRefused, UpdateTerminal,
                     UpdateDelivering, UpdateProgress, histVars, bounds
<1>17. ASSUME UNCHANGED vars PROVE ReachInv'
  BY <1>0, <1>17 DEF vars, histVars, bounds
<1>18. ASSUME Next PROVE ReachInv'
  BY <1>1, <1>2, <1>3, <1>4, <1>5, <1>6, <1>8, <1>9, <1>10, <1>11, <1>13, <1>14, <1>15, <1>16,
     <1>18, Zenon DEF Next
<1> QED
  BY <1>17, <1>18

(* Whichever of cancel and submission comes first, and whatever other       *)
(* requests do in between, a granted cancellation leaves no child of the    *)
(* task in the queue once every request is worked off, unless an instance   *)
(* died.                                                                    *)
THEOREM CancelReachesChildrenHolds == Spec => []CancelReachesChildren
<1>1. Init => ReachInv
  BY DEF Init, ReachInv, NoCancel
<1>2. Init => ChildInv
  BY DEF Init, ChildInv, InSubmission, NoRequest
<1>3. TypeOK /\ ReachInv => CancelReachesChildren
  BY DEF ReachInv, CancelReachesChildren, Covered, NoCancel, TypeOK
<1> QED
  BY <1>1, <1>2, <1>3, ChildStep, ReachStep, AskedAlways, AgentTypeCorrect, PTL DEF Spec
=============================================================================
