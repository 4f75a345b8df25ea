----------------------------- MODULE Interrupts -----------------------------
(***************************************************************************)
(* /interrupt across instances (_route_interrupt of                        *)
(* utils/distributed_routes.py) above the queue and its sessions.  The     *)
(* instance that gets the request reads where jobs run, then sends one     *)
(* request after the other; jobs end, workers restart and claim meanwhile. *)
(*                                                                         *)
(* ComfyUI's own handler is external: without a prompt id it stops what    *)
(* its process executes; with one it does so if that prompt is among the   *)
(* running items of get_current_queue, which Account Manager answers from  *)
(* the shared table.                                                       *)
(***************************************************************************)
EXTENDS TaskSessions

CONSTANT Interrupters   \* the accounts that send interrupts

VARIABLES
  call,      \* the interrupt request under way
  astray,    \* history: a forwarded request stopped another job than meant
  foreign    \* history: a request stopped a job its sender may not stop

interruptVars == <<sessionVars, call, astray, foreign>>

NoCall == [by |-> "", via |-> NoPort, target |-> NoPrompt, todo |-> {}, local |-> FALSE]

InterruptsInit == SessionInit /\ call = NoCall /\ astray = FALSE /\ foreign = FALSE

MayInterrupt(u, j) == u \in Admins \/ job[j].owner = u

Elsewhere(p, j) == workerPort[j] \notin {NoPort, PortOf[p]}

(* With a prompt id: get_job, then _proxy to the port that was read.  A job *)
(* of this instance, or one that has no port yet, goes to its own handler.  *)
InterruptOne(p, u, j) ==
  /\ Alive(p) /\ call = NoCall
  /\ status[j] # "absent" /\ MayInterrupt(u, j)
  /\ call' = [by |-> u, via |-> p, target |-> j,
              todo |-> {i \in {j} : Elsewhere(p, i)}, local |-> ~Elsewhere(p, j)]
  /\ UNCHANGED <<sessionVars, astray, foreign>>

(* Without one: running_jobs; those on other ports are asked one by one,    *)
(* and the instance's own handler last.                                     *)
InterruptAll(p, u) ==
  LET jobs == {j \in Prompts : status[j] = "running" /\ MayInterrupt(u, j)} IN
  /\ Alive(p) /\ call = NoCall /\ jobs # {}
  /\ call' = [by |-> u, via |-> p, target |-> NoPrompt,
              todo |-> {j \in jobs : Elsewhere(p, j)},
              local |-> \E j \in jobs : ~Elsewhere(p, j)]
  /\ UNCHANGED <<sessionVars, astray, foreign>>

(* ComfyUI's handler on p stops what p executes, for a given prompt only if *)
(* the table calls that one running.                                        *)
Stops(p, j) == phase[p] = "executing" /\ (j = NoPrompt \/ status[j] = "running")

(* _proxy and _post_control: the request reaches whatever process listens   *)
(* on the port by then, or nobody.                                          *)
Forward(j) ==
  LET hit == {held[p] : p \in {r \in Procs : PortOf[r] = workerPort[j] /\ Stops(r, j)}} IN
  /\ j \in call.todo
  /\ call' = IF call.todo = {j} /\ ~call.local THEN NoCall ELSE [call EXCEPT !.todo = @ \ {j}]
  /\ astray' = (astray \/ hit \ {j} # {})
  /\ foreign' = (foreign \/ \E i \in hit : ~MayInterrupt(call.by, i))
  /\ UNCHANGED sessionVars

(* handler(request) of the instance itself, after the others answered       *)
HandleLocally ==
  LET p == call.via IN
  /\ call.local /\ call.todo = {} /\ Alive(p)
  /\ foreign' = (foreign \/ (Stops(p, call.target) /\ ~MayInterrupt(call.by, held[p])))
  /\ call' = NoCall
  /\ UNCHANGED <<sessionVars, astray>>

(* The instance died with the request.                                      *)
CallDies ==
  /\ call # NoCall /\ ~Alive(call.via) /\ call' = NoCall
  /\ UNCHANGED <<sessionVars, astray, foreign>>

InterruptsNext ==
  \/ (QueueStep \/ SessionStep) /\ UNCHANGED <<call, astray, foreign>>
  \/ \E p \in Procs, u \in Interrupters : InterruptAll(p, u) \/ \E j \in Prompts : InterruptOne(p, u, j)
  \/ \E j \in Prompts : Forward(j)
  \/ HandleLocally \/ CallDies

InterruptsSpec == InterruptsInit /\ [][InterruptsNext]_interruptVars

-----------------------------------------------------------------------------
(* A request that is forwarded to another instance stops the job it names   *)
(* or nothing, although the port was read earlier and the worker may have   *)
(* restarted, finished and claimed another job since.                       *)
ForwardedHitsTarget == ~astray

(* "Without a prompt_id the request only affects the user's own running     *)
(* jobs; ordinary users cannot interrupt the jobs of others."               *)
OnlyOwnJobsStopped == ~foreign
=============================================================================
