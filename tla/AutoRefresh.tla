---------------------------- MODULE AutoRefresh ----------------------------
(***************************************************************************)
(* One browser tab that reloads itself when the fleet was deployed anew    *)
(* (web/js/autoRefresh.js) and the revision each instance serves           *)
(* (utils/frontend_reload.py).                                             *)
(*                                                                         *)
(* checkForUpdate awaits an answer, the restore of a backup and a snapshot;*)
(* between these the socket drops and returns, the user edits, other       *)
(* events ask for a check, and instances are replaced.  Workflows are the  *)
(* set of edits they contain.                                              *)
(***************************************************************************)
EXTENDS Integers, FiniteSets

CONSTANTS
  Accounts,
  MaxRevision,  \* bound: deployments, with time stamps 1, 2, ...
  MaxEdits,     \* bound: edits of the graph
  MaxDrops,     \* bound: losses of the connection
  MaxFaults,    \* bound: failing requests, restores and backups
  MaxLoads,     \* bound: workflows opened, reloads by hand and logins
  None

ASSUME RefreshAssumption ==
  /\ Accounts # {} /\ None \notin Accounts
  /\ MaxRevision \in Nat \ {0}
  /\ {MaxEdits, MaxDrops, MaxFaults, MaxLoads} \subseteq Nat

VARIABLES
  fleet,                    \* the revisions the instances were started with
  account,                  \* who is logged in: the cookie all tabs share
  backup, seen,             \* sessionStorage
  shown,                    \* the edits in the open workflows
  loaded,                   \* am_revision of the script
  at, epoch, info, dropped, \* checkForUpdate; the connection dropped since the answer
  connectionEpoch, disconnected, pending, paused, timer, ready,
  socket, online,           \* the WebSocket and the network
  asked,                    \* history: a check was asked for and has not begun
  last,                     \* history: the revision of the last automatic refresh since login
  owed,                     \* history: the edits an automatic refresh took along
  carried,                  \* history: <<e, a>>: edit e was in the tab when it came to be a's
  edits, faults, loads

stored == <<backup, seen>>
flow == <<at, epoch, info, dropped>>
flags == <<connectionEpoch, disconnected, paused, ready>>
wakes == <<pending, timer, asked>>
net == <<socket, online>>
bounds == <<edits, faults, loads>>
vars == <<fleet, account, stored, shown, loaded, flow, flags, wakes, net, last, owed,
          carried, bounds>>

Nothing == [user |-> None, edits |-> {}]
NeverSeen == [user |-> None, revision |-> 0]
NoInfo == [user |-> None, revision |-> 0]

Init ==
  /\ fleet = {1} /\ account \in Accounts
  /\ backup = Nothing /\ seen = NeverSeen
  /\ shown = {} /\ loaded = 1
  /\ at = "idle" /\ epoch = 0 /\ info = NoInfo /\ dropped = FALSE
  /\ connectionEpoch = 0 /\ disconnected = FALSE /\ paused = FALSE /\ ready = FALSE
  /\ pending = FALSE /\ timer = TRUE /\ asked = FALSE
  /\ socket = TRUE /\ online = TRUE
  /\ last = 0 /\ owed = {} /\ carried = {}
  /\ edits = 0 /\ faults = 0 /\ loads = 0

-----------------------------------------------------------------------------
(* The fleet.  "restart" replaces instances one by one: for a while old and *)
(* new ones answer.                                                         *)

Deploy(r) ==
  /\ \A q \in fleet : r > q
  /\ fleet' = fleet \cup {r}
  /\ UNCHANGED <<account, stored, shown, loaded, flow, flags, wakes, net, last, owed,
                 carried, bounds>>

Retire(r) ==
  /\ r \in fleet /\ \E q \in fleet : q > r
  /\ fleet' = fleet \ {r}
  /\ UNCHANGED <<account, stored, shown, loaded, flow, flags, wakes, net, last, owed,
                 carried, bounds>>

-----------------------------------------------------------------------------
(* checkForUpdate up to its first await; the event left timer' as t.        *)

(* Mutant: a check that is asked for while one runs is forgotten.           *)
MutPending == pending
Pending == TRUE

Ignored == at = "reloading" \/ paused \/ disconnected'

CheckForUpdate(t) ==
  \/ Ignored /\ timer' = t /\ UNCHANGED <<flow, pending, asked>>
  \/ /\ ~Ignored /\ at # "idle"
     /\ pending' = Pending /\ asked' = TRUE /\ timer' = t
     /\ UNCHANGED flow
  \/ /\ ~Ignored /\ at = "idle" /\ ~ready
     /\ timer' = TRUE /\ asked' = TRUE
     /\ UNCHANGED <<flow, pending>>
  \/ /\ ~Ignored /\ at = "idle" /\ ready
     /\ at' = "fetching" /\ epoch' = connectionEpoch /\ asked' = FALSE /\ timer' = t
     /\ UNCHANGED <<info, dropped, pending>>

Rest == <<fleet, account, stored, shown, loaded, last, owed, carried, bounds>>

TimerFires ==
  /\ timer
  /\ UNCHANGED <<flags, net, Rest>>
  /\ CheckForUpdate(FALSE)

(* pageshow and visibilitychange                                            *)
TabIsShown ==
  /\ UNCHANGED <<flags, net, Rest>>
  /\ CheckForUpdate(timer)

(* onDisconnect                                                             *)
OnDisconnect ==
  /\ connectionEpoch < MaxDrops
  /\ disconnected' = TRUE /\ connectionEpoch' = connectionEpoch + 1
  /\ timer' = FALSE /\ asked' = FALSE
  /\ dropped' = (dropped \/ at \in {"restoring", "snapshotting"})
  /\ UNCHANGED <<at, epoch, info, paused, ready, pending, Rest>>

SocketDrops == socket /\ socket' = FALSE /\ UNCHANGED online /\ OnDisconnect
GoesOffline == online /\ online' = FALSE /\ UNCHANGED socket /\ OnDisconnect

SocketReturns ==
  /\ ~socket /\ online /\ socket' = TRUE
  /\ disconnected' = FALSE
  /\ UNCHANGED <<online, connectionEpoch, paused, ready, Rest>>
  /\ CheckForUpdate(timer)

ComesOnline ==
  /\ ~online /\ online' = TRUE
  /\ UNCHANGED <<socket, flags, Rest>>
  /\ CheckForUpdate(timer)

-----------------------------------------------------------------------------
(* The rest of checkForUpdate, one action per await.                        *)

(* Mutant: only the present connection matters, not the one that answered.  *)
MutUninterrupted == ~disconnected
Uninterrupted == epoch = connectionEpoch /\ ~disconnected

(* the finally block; t is what the body left of the timer                  *)
Finish(t) ==
  /\ at' = "idle"
  /\ pending' = FALSE /\ timer' = (t \/ pending)
  /\ UNCHANGED <<epoch, info, dropped, asked>>

Fault == faults < MaxFaults /\ faults' = faults + 1 /\ UNCHANGED <<edits, loads>>

(* Any instance answers, with its own revision.                             *)
FetchAnswered(r) ==
  /\ at = "fetching" /\ r \in fleet
  /\ \/ /\ Uninterrupted
        /\ at' = "restoring" /\ info' = [user |-> account, revision |-> r] /\ dropped' = FALSE
        /\ UNCHANGED <<epoch, wakes>>
     \/ ~Uninterrupted /\ Finish(timer)
  /\ UNCHANGED <<flags, net, Rest>>

(* No answer, an error status, or the five seconds are over.                *)
FetchFails ==
  /\ at = "fetching" /\ Fault /\ Finish(timer)
  /\ UNCHANGED <<flags, net, fleet, account, stored, shown, loaded, last, owed, carried>>

(* Mutant: whoever logs in gets the backup.                                 *)
MutMayRestore == backup # Nothing
MayRestore == backup # Nothing /\ backup.user = info.user

(* Mutant: the stored revision is not looked at.                            *)
MutBaseline == loaded
Baseline ==
  IF seen.user = info.user /\ seen.revision > loaded THEN seen.revision ELSE loaded

(* restoreWorkflows ends well.                                              *)
Restores ==
  /\ at = "restoring"
  /\ backup' = Nothing
  /\ shown' = IF MayRestore THEN backup.edits ELSE shown
  /\ owed' = IF MayRestore \/ backup = Nothing THEN owed ELSE {}
  /\ UNCHANGED <<seen, fleet, account, loaded, last, carried, net>>

(* Loading a graph arms the timer (afterLoadGraph).                         *)
Armed == timer \/ (MayRestore /\ shown # backup.edits)

(* The decision follows without an await.                                   *)
RestoreDone ==
  /\ Restores
  /\ IF Uninterrupted /\ info.revision > Baseline
     THEN at' = "snapshotting" /\ timer' = Armed /\ UNCHANGED <<epoch, info, dropped, pending, asked>>
     ELSE Finish(Armed)
  /\ UNCHANGED <<flags, bounds>>

(* Mutant: a backup is used up by a failed restore as well.                 *)
MutLeftBackup == Nothing
LeftBackup == backup

Pauses == paused' = (paused \/ Uninterrupted) /\ asked' = (asked /\ ~Uninterrupted)

EndsPaused(t) ==
  /\ Fault /\ Pauses
  /\ at' = "idle" /\ pending' = FALSE /\ timer' = (t \/ pending)
  /\ UNCHANGED <<epoch, info, dropped, connectionEpoch, disconnected, ready, net,
                 fleet, account, loaded, last>>

(* The stored revision cannot be read.                                      *)
SeenUnreadable == Restores /\ Uninterrupted /\ EndsPaused(Armed)

(* The backup cannot be read, or a workflow of it not be opened, before or  *)
(* after the graph was replaced.                                            *)
RestoreFails ==
  /\ at = "restoring" /\ EndsPaused(timer)
  /\ backup' = LeftBackup
  /\ shown' \in {shown} \cup {x \in {backup.edits} : MayRestore}
  /\ UNCHANGED <<seen, owed, carried>>

(* The backup is labelled with the account that the answer named.           *)
BacksUp ==
  /\ backup' = [user |-> info.user, edits |-> shown]
  /\ carried' = carried \cup {<<e, info.user>> : e \in {x \in shown : info.user # account}}

(* snapshotWorkflows ends by serializing; what follows does not await.      *)
SnapshotDone ==
  /\ at = "snapshotting"
  /\ \/ /\ Uninterrupted /\ BacksUp
        /\ seen' = info
        /\ at' = "reloading" /\ owed' = owed \cup shown
        /\ last' = IF info.user = account THEN info.revision ELSE last
        /\ asked' = FALSE
        /\ UNCHANGED <<epoch, info, dropped, pending, timer>>
     \/ ~Uninterrupted /\ Finish(timer) /\ UNCHANGED <<stored, last, owed, carried>>
  /\ UNCHANGED <<fleet, account, shown, loaded, flags, net, bounds>>

(* The snapshot or one of the two writes to sessionStorage fails.           *)
SnapshotFails ==
  /\ at = "snapshotting" /\ EndsPaused(timer)
  /\ UNCHANGED <<backup, carried>> \/ (Uninterrupted /\ BacksUp)
  /\ UNCHANGED <<seen, shown, owed>>

-----------------------------------------------------------------------------
(* The page                                                                 *)

ByHand == loads < MaxLoads /\ loads' = loads + 1

(* The user opens or saves a workflow: isBusy, isSyncLoading or             *)
(* configuringGraph.                                                        *)
GraphLoads ==
  /\ ready /\ ready' = FALSE /\ ByHand
  /\ UNCHANGED <<connectionEpoch, disconnected, paused, flow, wakes, net, fleet, account,
                 stored, shown, loaded, last, owed, carried, edits, faults>>

(* A graph that was loaded arms the timer (afterLoadGraph).                 *)
GraphReady ==
  /\ ~ready /\ ready' = TRUE /\ timer' \in {timer, TRUE}
  /\ UNCHANGED <<connectionEpoch, disconnected, paused, flow, pending, asked, net, Rest>>

UserEdits ==
  /\ ready /\ edits < MaxEdits /\ edits' = edits + 1
  /\ shown' = shown \cup {[by |-> account, n |-> edits + 1]}
  /\ UNCHANGED <<faults, loads, fleet, account, stored, loaded, flow, flags, wakes, net,
                 last, owed, carried>>

(* A page is loaded; the script's URL names the revision of the instance    *)
(* that listed it, and ComfyUI reopens the drafts S it kept itself.  The    *)
(* epoch starts at 0 again in the code; only its equality matters.          *)
PageLoads(r, S) ==
  /\ online /\ r \in fleet /\ loaded' = r
  /\ shown' = S /\ owed' = owed \cap backup.edits
  /\ at' = "idle" /\ epoch' = 0 /\ info' = NoInfo /\ dropped' = FALSE
  /\ disconnected' = FALSE /\ paused' = FALSE /\ ready' = FALSE
  /\ pending' = FALSE /\ timer' = TRUE /\ asked' = FALSE /\ socket' = TRUE
  /\ UNCHANGED <<fleet, stored, online, connectionEpoch, edits, faults>>

AutomaticReload ==
  /\ at = "reloading"
  /\ \E r \in fleet, S \in SUBSET shown : PageLoads(r, S)
  /\ UNCHANGED <<account, last, carried, loads>>

ReloadByHand ==
  /\ ByHand /\ \E r \in fleet, S \in SUBSET shown : PageLoads(r, S)
  /\ UNCHANGED <<account, last, carried>>

Login(a) == ByHand /\ a # account /\ account' = a /\ last' = 0

Carries(S, a) == carried' = carried \cup {<<e, a>> : e \in S}

LogIn(a) ==
  /\ Login(a)
  /\ \E r \in fleet, S \in SUBSET shown : PageLoads(r, S) /\ Carries(S, a)

(* In another tab: this one keeps its workflows and what it is about to     *)
(* restore, and the answers name the new account.                           *)
LogInElsewhere(a) ==
  /\ Login(a)
  /\ Carries(shown \cup {e \in backup.edits : at = "restoring" /\ backup.user = info.user}, a)
  /\ UNCHANGED <<fleet, stored, shown, loaded, flow, flags, wakes, net, owed, edits, faults>>

-----------------------------------------------------------------------------
CheckStep ==
  \/ FetchFails \/ RestoreDone \/ SeenUnreadable \/ RestoreFails \/ SnapshotDone \/ SnapshotFails
  \/ \E r \in fleet : FetchAnswered(r)

Next ==
  \/ \E r \in 1 .. MaxRevision : Deploy(r) \/ Retire(r)
  \/ TimerFires \/ TabIsShown \/ SocketDrops \/ GoesOffline \/ SocketReturns \/ ComesOnline
  \/ CheckStep
  \/ GraphReady \/ GraphLoads \/ UserEdits \/ AutomaticReload \/ ReloadByHand
  \/ \E a \in Accounts : LogIn(a) \/ LogInElsewhere(a)

Spec == Init /\ [][Next]_vars

(* Timers fire, the request has a time limit, loading ends, and a reload    *)
(* that was started takes place when there is a network; nothing is assumed *)
(* of the network itself.                                                   *)
Fairness ==
  /\ WF_vars(TimerFires) /\ WF_vars(CheckStep) /\ WF_vars(GraphReady)
  /\ WF_vars(AutomaticReload)

FairSpec == Spec /\ Fairness

-----------------------------------------------------------------------------
Edits == [by : Accounts, n : 1 .. MaxEdits]

(* What the tab, its storage and its check hold; a check that has not       *)
(* reached its answer yet belongs to an earlier or the present connection.  *)
TypeOK ==
  /\ fleet # {} /\ fleet \subseteq 1 .. MaxRevision /\ loaded \in 1 .. MaxRevision
  /\ backup \in [user : Accounts \cup {None}, edits : SUBSET Edits]
  /\ {seen, info} \subseteq [user : Accounts \cup {None}, revision : 0 .. MaxRevision]
  /\ shown \subseteq Edits /\ owed \subseteq Edits
  /\ at \in {"idle", "fetching", "restoring", "snapshotting", "reloading"}
  /\ {pending, timer, asked, disconnected, paused, ready, socket, online, dropped} \subseteq BOOLEAN
  /\ epoch <= connectionEpoch
  /\ at = "idle" => ~pending
  /\ ~socket => disconnected

(* "A newer revision triggers one refresh per browser tab", and "old        *)
(* workers' revisions are ignored": as long as an account stays logged in,  *)
(* the tab refreshes itself to ever newer revisions only, whichever         *)
(* instances list the script and answer.  (A refresh on an answer that      *)
(* still named the account before does not count for the new one.)          *)
NoRefreshLoop ==
  [][at # "reloading" /\ at' = "reloading" => info.revision > last]_vars

(* The edits that were open when the tab refreshed itself are open again or *)
(* still in the backup, whatever failed, was edited, reloaded or refreshed  *)
(* in the meantime, until an answer names another account: then the backup  *)
(* is thrown away.                                                          *)
EditsSurviveRefresh == owed \subseteq shown \cup backup.edits

(* "Backups are bound to the authenticated account": the tab shows an       *)
(* account the edits of another only if it held them when that account      *)
(* logged in (in another tab, or with ComfyUI's own drafts), or backed them *)
(* up on an answer that still named the account before.                     *)
NoForeignEdits == \A e \in shown : e.by = account \/ <<e, account>> \in carried

(* The tab does not reload on the word of a server it lost since.           *)
RefreshNeedsConnection == at = "reloading" => ~dropped

(* A check that an event asked for while another one was under way, or the  *)
(* graph was not ready, is made, unless the connection, the page or its     *)
(* permission to refresh ends first.                                        *)
AskedCheckRuns == asked ~> ~asked
=============================================================================
