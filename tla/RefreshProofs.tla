--------------------------- MODULE RefreshProofs ---------------------------
(* A tab that refreshes itself, for every number of deployments, edits,     *)
(* lost connections and failures: it keeps its edits, shows nobody else's,  *)
(* trusts no connection it lost and never refreshes twice to one revision.  *)
EXTENDS AutoRefresh, TLAPS

AtCheck == {"fetching", "restoring", "snapshotting"}
Owner == Accounts \cup {None}
Version == [user : Owner, revision : 0 .. MaxRevision]

(* The tab, its storage and its check.                                      *)
Types ==
  /\ fleet # {} /\ fleet \subseteq 1 .. MaxRevision /\ loaded \in 1 .. MaxRevision
  /\ last \in 0 .. MaxRevision /\ account \in Accounts
  /\ info \in Version /\ seen \in Version
  /\ backup \in [user : Owner, edits : SUBSET Edits] /\ shown \subseteq Edits
  /\ owed \subseteq Edits
  /\ edits \in Nat /\ epoch \in Nat /\ connectionEpoch \in Nat
  /\ at \in AtCheck \cup {"idle", "reloading"}

(* A loss of the connection after the answer shows in the epoch.            *)
Connection ==
  /\ epoch <= connectionEpoch
  /\ at \in {"restoring", "snapshotting"} /\ dropped => epoch # connectionEpoch
  /\ at = "reloading" => ~dropped

(* A backup holds the edits of its account only, but for those that account *)
(* found in the tab, and a check that was answered for the account of the   *)
(* backup may show them to the one that is logged in.                       *)
Own(e, a) == e.by = a \/ <<e, a>> \in carried
Owners ==
  /\ \A e \in shown : Own(e, account)
  /\ \A e \in backup.edits : Own(e, backup.user)
  /\ at = "restoring" /\ backup.user = info.user => \A e \in backup.edits : Own(e, account)

(* What was taken along is in the backup as long as there is one, else it   *)
(* is shown; there is none when a new one is about to be made.              *)
Owed ==
  /\ backup.user = None => backup = Nothing /\ owed \subseteq shown
  /\ backup # Nothing => owed \subseteq backup.edits
  /\ at = "snapshotting" => backup = Nothing

(* The revision of the last refresh is remembered for the account that is   *)
(* logged in, and a check that goes on beyond its answer has a newer one.   *)
Newer ==
  /\ last # 0 => seen.user = account /\ seen.revision >= last
  /\ at \in {"restoring", "snapshotting"} => info.user \in Accounts /\ info.revision > 0
  /\ at \in {"restoring", "snapshotting"} /\ last # 0 => info.user = account
  /\ at = "snapshotting" => info.revision > last

(* The flags; none is left pending when no check is under way, and without  *)
(* a socket the tab knows that it is disconnected.                          *)
Flags ==
  /\ pending \in BOOLEAN /\ timer \in BOOLEAN /\ asked \in BOOLEAN /\ disconnected \in BOOLEAN
  /\ paused \in BOOLEAN /\ ready \in BOOLEAN /\ socket \in BOOLEAN /\ online \in BOOLEAN
  /\ dropped \in BOOLEAN
  /\ at = "idle" => ~pending
  /\ ~socket => disconnected

RInv == Types /\ Flags /\ Connection /\ Owners /\ Owed /\ Newer

(* An event leaves the check that is under way alone, or begins one.        *)
LEMMA CheckBegins ==
  ASSUME NEW t, CheckForUpdate(t)
  PROVE \/ UNCHANGED <<at, epoch, info, dropped>>
        \/ /\ at = "idle" /\ at' = "fetching" /\ epoch' = connectionEpoch
           /\ UNCHANGED <<info, dropped>>
BY DEF CheckForUpdate, flow

(* The flags an event may change, when it left the timer as t.              *)
LEMMA CheckFlags ==
  ASSUME Flags, NEW t \in BOOLEAN, CheckForUpdate(t)
  PROVE /\ pending' \in BOOLEAN /\ timer' \in BOOLEAN /\ asked' \in BOOLEAN
        /\ dropped' \in BOOLEAN /\ (at' = "idle" => ~pending')
<1>1. CASE timer' = t /\ UNCHANGED <<flow, pending, asked>>
  BY <1>1 DEF Flags, flow
<1>2. CASE at # "idle" /\ pending' = TRUE /\ asked' = TRUE /\ timer' = t /\ UNCHANGED flow
  BY <1>2 DEF Flags, flow
<1>3. CASE timer' = TRUE /\ asked' = TRUE /\ UNCHANGED <<flow, pending>>
  BY <1>3 DEF Flags, flow
<1>4. CASE at' = "fetching" /\ asked' = FALSE /\ timer' = t /\ UNCHANGED <<info, dropped, pending>>
  BY <1>4 DEF Flags
<1> QED
  BY <1>1, <1>2, <1>3, <1>4 DEF CheckForUpdate, Pending

(* The flags of the script.                                                 *)
LEMMA FlagsStep == RInv /\ [Next]_vars => Flags'
<1> SUFFICES ASSUME RInv, [Next]_vars PROVE Flags'
  OBVIOUS
<1> USE RefreshAssumption
<1>1. ASSUME NEW r \in 1 .. MaxRevision, Deploy(r) PROVE Flags'
  BY <1>1 DEF RInv, Flags, Deploy, Rest, stored, flow, flags, wakes, net, bounds
<1>2. ASSUME NEW r \in 1 .. MaxRevision, Retire(r) PROVE Flags'
  BY <1>2 DEF RInv, Flags, Retire, Rest, stored, flow, flags, wakes, net, bounds
<1>3. ASSUME TimerFires PROVE Flags'
  <2>1. CheckForUpdate(FALSE)
    BY <1>3 DEF TimerFires
  <2>2. FALSE \in BOOLEAN /\ Flags
    BY DEF RInv, Flags
  <2>3. /\ pending' \in BOOLEAN /\ timer' \in BOOLEAN /\ asked' \in BOOLEAN
        /\ dropped' \in BOOLEAN /\ (at' = "idle" => ~pending')
    BY <2>1, <2>2, CheckFlags, Zenon
  <2>4. /\ disconnected' \in BOOLEAN /\ paused' \in BOOLEAN /\ ready' \in BOOLEAN
        /\ socket' \in BOOLEAN /\ online' \in BOOLEAN /\ (~socket' => disconnected')
    BY <1>3, <2>2 DEF TimerFires, Flags, flags, net
  <2> QED
    BY <2>3, <2>4 DEF Flags
<1>4. ASSUME TabIsShown PROVE Flags'
  <2>1. CheckForUpdate(timer)
    BY <1>4 DEF TabIsShown
  <2>2. timer \in BOOLEAN /\ Flags
    BY DEF RInv, Flags
  <2>3. /\ pending' \in BOOLEAN /\ timer' \in BOOLEAN /\ asked' \in BOOLEAN
        /\ dropped' \in BOOLEAN /\ (at' = "idle" => ~pending')
    BY <2>1, <2>2, CheckFlags, Zenon
  <2>4. /\ disconnected' \in BOOLEAN /\ paused' \in BOOLEAN /\ ready' \in BOOLEAN
        /\ socket' \in BOOLEAN /\ online' \in BOOLEAN /\ (~socket' => disconnected')
    BY <1>4, <2>2 DEF TabIsShown, Flags, flags, net
  <2> QED
    BY <2>3, <2>4 DEF Flags
<1>5. ASSUME SocketDrops PROVE Flags'
  BY <1>5 DEF RInv, Flags, SocketDrops, OnDisconnect, Rest, stored, flow, flags, wakes,
     net, bounds
<1>6. ASSUME GoesOffline PROVE Flags'
  BY <1>6 DEF RInv, Flags, GoesOffline, OnDisconnect, Rest, stored, flow, flags, wakes,
     net, bounds
<1>7. ASSUME SocketReturns PROVE Flags'
  <2>1. CheckForUpdate(timer)
    BY <1>7 DEF SocketReturns
  <2>2. timer \in BOOLEAN /\ Flags
    BY DEF RInv, Flags
  <2>3. /\ pending' \in BOOLEAN /\ timer' \in BOOLEAN /\ asked' \in BOOLEAN
        /\ dropped' \in BOOLEAN /\ (at' = "idle" => ~pending')
    BY <2>1, <2>2, CheckFlags, Zenon
  <2>4. /\ disconnected' \in BOOLEAN /\ paused' \in BOOLEAN /\ ready' \in BOOLEAN
        /\ socket' \in BOOLEAN /\ online' \in BOOLEAN /\ (~socket' => disconnected')
    BY <1>7, <2>2 DEF SocketReturns, Flags, flags, net
  <2> QED
    BY <2>3, <2>4 DEF Flags
<1>8. ASSUME ComesOnline PROVE Flags'
  <2>1. CheckForUpdate(timer)
    BY <1>8 DEF ComesOnline
  <2>2. timer \in BOOLEAN /\ Flags
    BY DEF RInv, Flags
  <2>3. /\ pending' \in BOOLEAN /\ timer' \in BOOLEAN /\ asked' \in BOOLEAN
        /\ dropped' \in BOOLEAN /\ (at' = "idle" => ~pending')
    BY <2>1, <2>2, CheckFlags, Zenon
  <2>4. /\ disconnected' \in BOOLEAN /\ paused' \in BOOLEAN /\ ready' \in BOOLEAN
        /\ socket' \in BOOLEAN /\ online' \in BOOLEAN /\ (~socket' => disconnected')
    BY <1>8, <2>2 DEF ComesOnline, Flags, flags, net
  <2> QED
    BY <2>3, <2>4 DEF Flags
<1>9. ASSUME NEW r \in fleet, FetchAnswered(r) PROVE Flags'
  BY <1>9 DEF RInv, Flags, FetchAnswered, Uninterrupted, Finish, Rest, stored, flow,
     flags, wakes, net, bounds
<1>10. ASSUME FetchFails PROVE Flags'
  BY <1>10 DEF RInv, Pauses, Flags, FetchFails, Fault, Finish, Rest, stored, flow,
     flags, wakes, net, bounds
<1>11. ASSUME RestoreDone PROVE Flags'
  BY <1>11 DEF RInv, Flags, RestoreDone, Restores, Armed, Finish, Rest, stored, flow,
     flags, wakes, net,
     bounds
<1>12. ASSUME SeenUnreadable PROVE Flags'
  <2>1. /\ Flags /\ Pauses /\ at' = "idle" /\ pending' = FALSE /\ timer' = (Armed \/ pending)
        /\ UNCHANGED <<dropped, disconnected, ready, socket, online>>
    BY <1>12 DEF RInv, SeenUnreadable, EndsPaused, net
  <2>2. timer' \in BOOLEAN /\ paused' \in BOOLEAN /\ asked' \in BOOLEAN
    BY <2>1 DEF Pauses
  <2> QED
    BY <2>1, <2>2 DEF Flags
<1>13. ASSUME RestoreFails PROVE Flags'
  BY <1>13 DEF RInv, Pauses, Flags, RestoreFails, MayRestore, EndsPaused, Fault,
     LeftBackup, Rest,
     stored, flow, flags, wakes, net, bounds
<1>14. ASSUME SnapshotDone PROVE Flags'
  BY <1>14 DEF RInv, Flags, SnapshotDone, BacksUp, Uninterrupted, Finish, Rest, stored,
     flow,
     flags, wakes, net, bounds
<1>15. ASSUME SnapshotFails PROVE Flags'
  BY <1>15 DEF RInv, Pauses, Flags, SnapshotFails, BacksUp, EndsPaused, Fault, Rest,
     stored,
     flow, flags, wakes, net, bounds
<1>16. ASSUME GraphReady PROVE Flags'
  BY <1>16 DEF RInv, Flags, GraphReady, Rest, stored, flow, flags, wakes, net, bounds
<1>17. ASSUME GraphLoads PROVE Flags'
  BY <1>17 DEF RInv, Flags, GraphLoads, ByHand, Rest, stored, flow, flags, wakes, net,
     bounds
<1>18. ASSUME UserEdits PROVE Flags'
  BY <1>18 DEF RInv, Flags, UserEdits, Rest, stored, flow, flags, wakes, net, bounds
<1>19. ASSUME AutomaticReload PROVE Flags'
  BY <1>19 DEF RInv, Flags, AutomaticReload, PageLoads, NoInfo, Rest, stored, flow,
     flags, wakes, net, bounds
<1>20. ASSUME ReloadByHand PROVE Flags'
  BY <1>20 DEF RInv, Flags, ReloadByHand, ByHand, PageLoads, NoInfo, Rest, stored, flow,
     flags, wakes, net, bounds
<1>21. ASSUME NEW a \in Accounts, LogIn(a) PROVE Flags'
  BY <1>21 DEF RInv, Flags, LogIn, Login, Carries, ByHand, PageLoads, NoInfo, Rest,
     stored, flow, flags,
     wakes, net, bounds
<1>22. ASSUME NEW a \in Accounts, LogInElsewhere(a) PROVE Flags'
  BY <1>22 DEF RInv, Flags, LogInElsewhere, Login, Carries, ByHand, PageLoads, NoInfo,
     Rest, stored, flow, flags,
     wakes, net, bounds
<1>23. CASE UNCHANGED vars
  BY <1>23 DEF RInv, Flags, vars, Rest, stored, flow, flags, wakes, net, bounds
<1> QED
  BY <1>1, <1>2, <1>3, <1>4, <1>5, <1>6, <1>7, <1>8, <1>9, <1>10, <1>11, <1>12, <1>13,
     <1>14, <1>15, <1>16, <1>17, <1>18, <1>19, <1>20, <1>21, <1>22, <1>23 DEF Next,
     CheckStep

(* The tab, its storage and its check.                                      *)
LEMMA TypesStep == RInv /\ [Next]_vars => Types'
<1> SUFFICES ASSUME RInv, [Next]_vars PROVE Types'
  OBVIOUS
<1> USE RefreshAssumption
<1>1. ASSUME NEW r \in 1 .. MaxRevision, Deploy(r) PROVE Types'
  BY <1>1 DEF RInv, Types, Owner, Version, Edits, AtCheck, Deploy, Rest, stored, flow,
     flags, wakes, net, bounds
<1>2. ASSUME NEW r \in 1 .. MaxRevision, Retire(r) PROVE Types'
  BY <1>2 DEF RInv, Types, Owner, Version, Edits, AtCheck, Retire, Rest, stored, flow,
     flags, wakes, net, bounds
<1>3. ASSUME TimerFires PROVE Types'
  BY <1>3, CheckBegins DEF RInv, Types, Owner, Version, Edits, AtCheck, TimerFires,
     Rest, stored, flow, flags, wakes, net, bounds
<1>4. ASSUME TabIsShown PROVE Types'
  BY <1>4, CheckBegins DEF RInv, Types, Owner, Version, Edits, AtCheck, TabIsShown,
     Rest, stored, flow, flags, wakes, net, bounds
<1>5. ASSUME SocketDrops PROVE Types'
  BY <1>5 DEF RInv, Types, Owner, Version, Edits, AtCheck, SocketDrops, OnDisconnect,
     Rest, stored, flow, flags, wakes, net, bounds
<1>6. ASSUME GoesOffline PROVE Types'
  BY <1>6 DEF RInv, Types, Owner, Version, Edits, AtCheck, GoesOffline, OnDisconnect,
     Rest, stored, flow, flags, wakes, net, bounds
<1>7. ASSUME SocketReturns PROVE Types'
  BY <1>7, CheckBegins DEF RInv, Types, Owner, Version, Edits, AtCheck, SocketReturns,
     Rest, stored, flow, flags, wakes, net, bounds
<1>8. ASSUME ComesOnline PROVE Types'
  BY <1>8, CheckBegins DEF RInv, Types, Owner, Version, Edits, AtCheck, ComesOnline,
     Rest, stored, flow, flags, wakes, net, bounds
<1>9. ASSUME NEW r \in fleet, FetchAnswered(r) PROVE Types'
  BY <1>9 DEF RInv, Types, Owner, Version, Edits, AtCheck, FetchAnswered, Uninterrupted,
     Finish, Rest, stored, flow, flags, wakes, net, bounds
<1>10. ASSUME FetchFails PROVE Types'
  BY <1>10 DEF RInv, Types, Owner, Version, Edits, AtCheck, FetchFails, Fault, Finish,
     Rest, stored, flow, flags, wakes, net, bounds
<1>11. ASSUME RestoreDone PROVE Types'
  BY <1>11 DEF RInv, Types, Owner, Version, Edits, AtCheck, RestoreDone, Restores,
     Armed, Finish, NoInfo,
     Nothing, Rest, stored, flow, flags, wakes, net, bounds
<1>12. ASSUME SeenUnreadable PROVE Types'
  BY <1>12 DEF RInv, Types, Owner, Version, Edits, AtCheck, SeenUnreadable, Restores,
     Armed, EndsPaused, Fault, Pauses, Finish, NoInfo,
     Nothing, Rest, stored, flow, flags, wakes, net, bounds
<1>13. ASSUME RestoreFails PROVE Types'
  BY <1>13 DEF RInv, Types, Owner, Version, Edits, AtCheck, RestoreFails, MayRestore,
     EndsPaused,
     Fault, LeftBackup, NoInfo, Nothing, Rest, stored, flow, flags, wakes, net, bounds
<1>14. ASSUME SnapshotDone PROVE Types'
  BY <1>14 DEF RInv, Types, Owner, Version, Edits, AtCheck, SnapshotDone, BacksUp,
     Uninterrupted,
     Finish, NoInfo, Nothing, Rest, stored, flow, flags, wakes, net, bounds
<1>15. ASSUME SnapshotFails PROVE Types'
  BY <1>15 DEF RInv, Types, Owner, Version, Edits, AtCheck, SnapshotFails, BacksUp,
     EndsPaused,
     Fault, NoInfo, Nothing, Rest, stored, flow, flags, wakes, net, bounds
<1>16. ASSUME GraphReady PROVE Types'
  BY <1>16 DEF RInv, Types, Owner, Version, Edits, AtCheck, GraphReady, Rest, stored,
     flow, flags, wakes, net, bounds
<1>17. ASSUME GraphLoads PROVE Types'
  BY <1>17 DEF RInv, Types, Owner, Version, Edits, AtCheck, GraphLoads, ByHand, Rest,
     stored,
     flow, flags, wakes, net, bounds
<1>18. ASSUME UserEdits PROVE Types'
  BY <1>18 DEF RInv, Types, Owner, Version, Edits, AtCheck, UserEdits, Rest, stored,
     flow, flags, wakes, net, bounds
<1>19. ASSUME AutomaticReload PROVE Types'
  BY <1>19 DEF RInv, Types, Owner, Version, Edits, AtCheck, AutomaticReload, PageLoads,
     NoInfo, Nothing, Rest, stored, flow, flags, wakes, net, bounds
<1>20. ASSUME ReloadByHand PROVE Types'
  BY <1>20 DEF RInv, Types, Owner, Version, Edits, AtCheck, ReloadByHand, ByHand,
     PageLoads, NoInfo, Nothing, Rest, stored, flow, flags, wakes, net, bounds
<1>21. ASSUME NEW a \in Accounts, LogIn(a) PROVE Types'
  BY <1>21 DEF RInv, Types, Owner, Version, Edits, AtCheck, LogIn, Login, Carries,
     ByHand, PageLoads,
     NoInfo, Nothing, Rest, stored, flow, flags, wakes, net, bounds
<1>22. ASSUME NEW a \in Accounts, LogInElsewhere(a) PROVE Types'
  BY <1>22 DEF RInv, Types, Owner, Version, Edits, AtCheck, LogInElsewhere, Login,
     Carries, ByHand, PageLoads,
     NoInfo, Nothing, Rest, stored, flow, flags, wakes, net, bounds
<1>23. CASE UNCHANGED vars
  BY <1>23 DEF RInv, Types, Owner, Version, Edits, AtCheck, vars, Rest, stored, flow,
     flags, wakes, net, bounds
<1> QED
  BY <1>1, <1>2, <1>3, <1>4, <1>5, <1>6, <1>7, <1>8, <1>9, <1>10, <1>11, <1>12, <1>13,
     <1>14, <1>15, <1>16, <1>17, <1>18, <1>19, <1>20, <1>21, <1>22, <1>23 DEF Next,
     CheckStep

(* A check knows whether its connection held.                               *)
LEMMA ConnectionStep == RInv /\ [Next]_vars => Connection'
<1> SUFFICES ASSUME RInv, [Next]_vars PROVE Connection'
  OBVIOUS
<1> USE RefreshAssumption
<1>1. ASSUME TimerFires PROVE Connection'
  <2>1. connectionEpoch' = connectionEpoch /\ CheckForUpdate(FALSE)
    BY <1>1 DEF TimerFires, flags
  <2>2. \/ UNCHANGED <<at, epoch, info, dropped>>
        \/ at' = "fetching" /\ epoch' = connectionEpoch
    BY <2>1, CheckBegins, Zenon
  <2> QED
    BY <2>1, <2>2 DEF RInv, Types, Connection
<1>2. ASSUME TabIsShown PROVE Connection'
  BY <1>2, CheckBegins DEF RInv, Types, Connection, TabIsShown, Rest, stored, flow,
     flags, wakes, net, bounds
<1>3. ASSUME SocketDrops PROVE Connection'
  <2>1. /\ connectionEpoch' = connectionEpoch + 1 /\ UNCHANGED <<at, epoch>>
        /\ dropped' => dropped \/ at \in {"restoring", "snapshotting"}
    BY <1>3 DEF SocketDrops, OnDisconnect
  <2> QED
    BY <2>1 DEF RInv, Types, Connection
<1>4. ASSUME GoesOffline PROVE Connection'
  <2>1. /\ connectionEpoch' = connectionEpoch + 1 /\ UNCHANGED <<at, epoch>>
        /\ dropped' => dropped \/ at \in {"restoring", "snapshotting"}
    BY <1>4 DEF GoesOffline, OnDisconnect
  <2> QED
    BY <2>1 DEF RInv, Types, Connection
<1>5. ASSUME SocketReturns PROVE Connection'
  BY <1>5, CheckBegins DEF RInv, Types, Connection, SocketReturns, Rest, stored, flow,
     flags, wakes, net, bounds
<1>6. ASSUME ComesOnline PROVE Connection'
  BY <1>6, CheckBegins DEF RInv, Types, Connection, ComesOnline, Rest, stored, flow,
     flags, wakes, net, bounds
<1>7. ASSUME NEW r \in fleet, FetchAnswered(r) PROVE Connection'
  BY <1>7 DEF RInv, Types, Connection, FetchAnswered, Uninterrupted, Finish, Rest,
     stored, flow, flags, wakes, net, bounds
<1>8. ASSUME FetchFails PROVE Connection'
  BY <1>8 DEF RInv, Types, Connection, FetchFails, Fault, Finish, Rest, stored, flow,
     flags, wakes, net, bounds
<1>9. ASSUME RestoreDone PROVE Connection'
  BY <1>9 DEF RInv, Types, Connection, RestoreDone, Restores, Armed, Finish,
     Uninterrupted, Rest, stored,
     flow, flags, wakes, net, bounds
<1>10. ASSUME SeenUnreadable PROVE Connection'
  BY <1>10 DEF RInv, Types, Connection, SeenUnreadable, Restores, Armed, EndsPaused,
     Fault, Pauses, Finish, Uninterrupted, Rest, stored,
     flow, flags, wakes, net, bounds
<1>11. ASSUME RestoreFails PROVE Connection'
  BY <1>11 DEF RInv, Types, Connection, RestoreFails, MayRestore, EndsPaused, Fault,
     LeftBackup,
     Rest, stored, flow, flags, wakes, net, bounds
<1>12. ASSUME SnapshotDone PROVE Connection'
  BY <1>12 DEF RInv, Types, Connection, SnapshotDone, BacksUp, Uninterrupted, Finish,
     Rest,
     stored, flow, flags, wakes, net, bounds
<1>13. ASSUME SnapshotFails PROVE Connection'
  BY <1>13 DEF RInv, Types, Connection, SnapshotFails, BacksUp, EndsPaused, Fault,
     Rest, stored,
     flow, flags, wakes, net, bounds
<1>14. ASSUME AutomaticReload PROVE Connection'
  BY <1>14 DEF RInv, Types, Connection, AutomaticReload, PageLoads, NoInfo, Rest,
     stored, flow, flags, wakes, net, bounds
<1>15. ASSUME ReloadByHand PROVE Connection'
  BY <1>15 DEF RInv, Types, Connection, ReloadByHand, ByHand, PageLoads, NoInfo, Rest,
     stored, flow, flags, wakes, net, bounds
<1>16. ASSUME NEW a \in Accounts, LogIn(a) PROVE Connection'
  BY <1>16 DEF RInv, Types, Connection, LogIn, Login, Carries, ByHand, PageLoads,
     NoInfo, Rest, stored,
     flow, flags, wakes, net, bounds
<1>17. ASSUME NEW a \in Accounts, LogInElsewhere(a) PROVE Connection'
  BY <1>17 DEF RInv, Types, Connection, LogInElsewhere, Login, Carries, ByHand,
     PageLoads, NoInfo, Rest, stored,
     flow, flags, wakes, net, bounds
<1>18. CASE UNCHANGED <<at, epoch, connectionEpoch, dropped>>
  BY <1>18 DEF RInv, Types, Connection
<1> QED
  BY <1>1, <1>2, <1>3, <1>4, <1>5, <1>6, <1>7, <1>8, <1>9, <1>10, <1>11, <1>12, <1>13,
     <1>14, <1>15, <1>16, <1>17, <1>18 DEF Next, CheckStep, vars, Deploy, Retire,
     GraphReady, GraphLoads,
     UserEdits, Rest, stored, flow, flags, wakes, net, bounds

(* Edits are shown to the account that made them.                           *)
LEMMA OwnersStep == RInv /\ [Next]_vars => Owners'
<1> SUFFICES ASSUME RInv, [Next]_vars PROVE Owners'
  OBVIOUS
<1> USE RefreshAssumption
<1>1. ASSUME TimerFires PROVE Owners'
  BY <1>1, CheckBegins DEF RInv, Types, Owner, Version, Edits, Owners, Own,
     TimerFires, Rest, stored, flow, flags, wakes, net, bounds
<1>2. ASSUME TabIsShown PROVE Owners'
  BY <1>2, CheckBegins DEF RInv, Types, Owner, Version, Edits, Owners, Own,
     TabIsShown, Rest, stored, flow, flags, wakes, net, bounds
<1>3. ASSUME SocketDrops PROVE Owners'
  BY <1>3 DEF RInv, Types, Owner, Version, Edits, Owners, Own, SocketDrops,
     OnDisconnect, Rest, stored, flow, flags, wakes, net, bounds
<1>4. ASSUME GoesOffline PROVE Owners'
  BY <1>4 DEF RInv, Types, Owner, Version, Edits, Owners, Own, GoesOffline,
     OnDisconnect, Rest, stored, flow, flags, wakes, net, bounds
<1>5. ASSUME SocketReturns PROVE Owners'
  BY <1>5, CheckBegins DEF RInv, Types, Owner, Version, Edits, Owners, Own,
     SocketReturns, Rest, stored, flow, flags, wakes, net, bounds
<1>6. ASSUME ComesOnline PROVE Owners'
  BY <1>6, CheckBegins DEF RInv, Types, Owner, Version, Edits, Owners, Own,
     ComesOnline, Rest, stored, flow, flags, wakes, net, bounds
<1>7. ASSUME NEW r \in fleet, FetchAnswered(r) PROVE Owners'
  BY <1>7 DEF RInv, Types, Owner, Version, Edits, Owners, Own, FetchAnswered,
     Uninterrupted, Finish, Rest, stored, flow, flags, wakes, net, bounds
<1>8. ASSUME FetchFails PROVE Owners'
  BY <1>8 DEF RInv, Types, Owner, Version, Edits, Owners, Own, FetchFails,
     Fault, Finish, Rest, stored, flow, flags, wakes, net, bounds
<1>9. ASSUME RestoreDone PROVE Owners'
  BY <1>9 DEF RInv, Types, Owner, Version, Edits, Owners, Own, RestoreDone, Restores,
     Armed,
     Finish, Nothing, MayRestore, Rest, stored, flow, flags, wakes, net, bounds
<1>10. ASSUME SeenUnreadable PROVE Owners'
  BY <1>10 DEF RInv, Types, Owner, Version, Edits, Owners, Own, SeenUnreadable,
     Restores, Armed, EndsPaused, Fault, Pauses,
     Finish, Nothing, MayRestore, Rest, stored, flow, flags, wakes, net, bounds
<1>11. ASSUME RestoreFails PROVE Owners'
  BY <1>11 DEF RInv, Types, Owner, Version, Edits, Owners, Own, RestoreFails,
     EndsPaused, Fault, LeftBackup, Nothing, MayRestore, Rest, stored, flow, flags, wakes,
     net, bounds
<1>12. ASSUME SnapshotDone PROVE Owners'
  BY <1>12 DEF RInv, Types, Owner, Version, Edits, Owners, Own, SnapshotDone, BacksUp,
     Uninterrupted, Finish, Nothing, MayRestore, Rest, stored, flow, flags, wakes, net,
     bounds
<1>13. ASSUME SnapshotFails PROVE Owners'
  BY <1>13 DEF RInv, Types, Owner, Version, Edits, Owners, Own,
     SnapshotFails, BacksUp, EndsPaused, Fault, Nothing, MayRestore, Rest, stored,
     flow, flags,
     wakes, net, bounds
<1>14. ASSUME UserEdits PROVE Owners'
  BY <1>14 DEF RInv, Types, Owner, Version, Edits, Owners, Own, UserEdits,
     Rest, stored, flow, flags, wakes, net, bounds
<1>15. ASSUME AutomaticReload PROVE Owners'
  BY <1>15 DEF RInv, Types, Owner, Version, Edits, Owners, Own,
     AutomaticReload, PageLoads, Nothing, MayRestore, NoInfo, Rest, stored, flow, flags,
     wakes, net, bounds
<1>16. ASSUME ReloadByHand PROVE Owners'
  BY <1>16 DEF RInv, Types, Owner, Version, Edits, Owners, Own, ReloadByHand,
     ByHand, PageLoads, Nothing, MayRestore, NoInfo, Rest, stored, flow, flags, wakes,
     net,
     bounds
<1>17. ASSUME NEW a \in Accounts, LogIn(a) PROVE Owners'
  BY <1>17 DEF RInv, Types, Owner, Version, Edits, Owners, Own, LogIn, Login, Carries,
     ByHand, PageLoads, Nothing, MayRestore, NoInfo, Rest, stored, flow, flags, wakes,
     net,
     bounds
<1>18. ASSUME NEW a \in Accounts, LogInElsewhere(a) PROVE Owners'
  BY <1>18 DEF RInv, Types, Owner, Version, Edits, Owners, Own, LogInElsewhere, Login,
     Carries,
     ByHand, PageLoads, Nothing, MayRestore, NoInfo, Rest, stored, flow, flags, wakes,
     net,
     bounds
<1>19. CASE UNCHANGED <<account, backup, shown, at, info, carried>>
  BY <1>19 DEF RInv, Types, Owner, Version, Edits, Owners, Own
<1> QED
  BY <1>1, <1>2, <1>3, <1>4, <1>5, <1>6, <1>7, <1>8, <1>9, <1>10, <1>11, <1>12, <1>13,
     <1>14, <1>15, <1>16, <1>17, <1>18, <1>19 DEF Next, CheckStep, vars, Deploy,
     Retire, GraphReady,
     GraphLoads, Rest, stored, flow, flags, wakes, net, bounds

(* Edits that were taken along are in the backup while there is one.        *)
LEMMA OwedStep == RInv /\ [Next]_vars => Owed'
<1> SUFFICES ASSUME RInv, [Next]_vars PROVE Owed'
  OBVIOUS
<1> USE RefreshAssumption
<1>1. ASSUME TimerFires PROVE Owed'
  BY <1>1, CheckBegins DEF RInv, Types, Owner, Version, Edits, Owed, TimerFires, Rest,
     stored, flow, flags, wakes, net, bounds
<1>2. ASSUME TabIsShown PROVE Owed'
  BY <1>2, CheckBegins DEF RInv, Types, Owner, Version, Edits, Owed, TabIsShown, Rest,
     stored, flow, flags, wakes, net, bounds
<1>3. ASSUME SocketDrops PROVE Owed'
  BY <1>3 DEF RInv, Types, Owner, Version, Edits, Owed, SocketDrops, OnDisconnect, Rest,
     stored, flow, flags, wakes, net, bounds
<1>4. ASSUME GoesOffline PROVE Owed'
  BY <1>4 DEF RInv, Types, Owner, Version, Edits, Owed, GoesOffline, OnDisconnect, Rest,
     stored, flow, flags, wakes, net, bounds
<1>5. ASSUME SocketReturns PROVE Owed'
  BY <1>5, CheckBegins DEF RInv, Types, Owner, Version, Edits, Owed, SocketReturns,
     Rest, stored, flow, flags, wakes, net, bounds
<1>6. ASSUME ComesOnline PROVE Owed'
  BY <1>6, CheckBegins DEF RInv, Types, Owner, Version, Edits, Owed, ComesOnline, Rest,
     stored, flow, flags, wakes, net, bounds
<1>7. ASSUME NEW r \in fleet, FetchAnswered(r) PROVE Owed'
  BY <1>7 DEF RInv, Types, Owner, Version, Edits, Owed, FetchAnswered, Uninterrupted,
     Finish, Rest, stored, flow, flags, wakes, net, bounds
<1>8. ASSUME FetchFails PROVE Owed'
  BY <1>8 DEF RInv, Types, Owner, Version, Edits, Owed, FetchFails, Fault, Finish, Rest,
     stored, flow, flags, wakes, net, bounds
<1>9. ASSUME RestoreDone PROVE Owed'
  BY <1>9 DEF RInv, Types, Owner, Version, Edits, Owed, RestoreDone, Restores, Armed,
     Finish, Nothing,
     MayRestore, Rest, stored, flow, flags, wakes, net, bounds
<1>10. ASSUME SeenUnreadable PROVE Owed'
  BY <1>10 DEF RInv, Types, Owner, Version, Edits, Owed, SeenUnreadable, Restores,
     Armed, EndsPaused, Fault, Pauses, Finish, Nothing,
     MayRestore, Rest, stored, flow, flags, wakes, net, bounds
<1>11. ASSUME RestoreFails PROVE Owed'
  BY <1>11 DEF RInv, Types, Owner, Version, Edits, Owed, RestoreFails, EndsPaused,
     Fault, LeftBackup, Nothing, MayRestore, Rest, stored, flow, flags, wakes, net, bounds
<1>12. ASSUME SnapshotDone PROVE Owed'
  BY <1>12 DEF RInv, Newer, Types, Owner, Version, Edits, Owed, SnapshotDone, BacksUp,
     Uninterrupted, Finish, Nothing, MayRestore, Rest, stored, flow, flags, wakes, net,
     bounds
<1>13. ASSUME SnapshotFails PROVE Owed'
  BY <1>13 DEF RInv, Newer, Types, Owner, Version, Edits, Owed, SnapshotFails, BacksUp,
     EndsPaused, Fault, Nothing, MayRestore, Rest, stored, flow, flags, wakes, net, bounds
<1>14. ASSUME UserEdits PROVE Owed'
  BY <1>14 DEF RInv, Types, Owner, Version, Edits, Owed, UserEdits, Rest, stored, flow,
     flags, wakes, net, bounds
<1>15. ASSUME AutomaticReload PROVE Owed'
  BY <1>15 DEF RInv, Types, Owner, Version, Edits, Owed, AutomaticReload, PageLoads,
     Nothing, MayRestore, NoInfo, Rest, stored, flow, flags, wakes, net, bounds
<1>16. ASSUME ReloadByHand PROVE Owed'
  BY <1>16 DEF RInv, Types, Owner, Version, Edits, Owed, ReloadByHand, ByHand,
     PageLoads, Nothing, MayRestore, NoInfo, Rest, stored, flow, flags, wakes, net, bounds
<1>17. ASSUME NEW a \in Accounts, LogIn(a) PROVE Owed'
  BY <1>17 DEF RInv, Types, Owner, Version, Edits, Owed, LogIn, Login, Carries, ByHand,
     PageLoads,
     Nothing, MayRestore, NoInfo, Rest, stored, flow, flags, wakes, net, bounds
<1>18. ASSUME NEW a \in Accounts, LogInElsewhere(a) PROVE Owed'
  BY <1>18 DEF RInv, Types, Owner, Version, Edits, Owed, LogInElsewhere, Login,
     Carries, ByHand, PageLoads,
     Nothing, MayRestore, NoInfo, Rest, stored, flow, flags, wakes, net, bounds
<1>19. CASE UNCHANGED <<backup, shown, owed, at>>
  BY <1>19 DEF RInv, Types, Owner, Version, Edits, Owed
<1> QED
  BY <1>1, <1>2, <1>3, <1>4, <1>5, <1>6, <1>7, <1>8, <1>9, <1>10, <1>11, <1>12, <1>13,
     <1>14, <1>15, <1>16, <1>17, <1>18, <1>19 DEF Next, CheckStep, vars, Deploy,
     Retire, GraphReady,
     GraphLoads, Rest, stored, flow, flags, wakes, net, bounds

(* The stored revision is the one of the last refresh.                      *)
LEMMA NewerStep == RInv /\ [Next]_vars => Newer'
<1> SUFFICES ASSUME RInv, [Next]_vars PROVE Newer'
  OBVIOUS
<1> USE RefreshAssumption
<1>1. ASSUME TimerFires PROVE Newer'
  BY <1>1, CheckBegins DEF RInv, Types, Owner, Version, Newer, TimerFires, Rest, stored,
     flow, flags, wakes, net, bounds
<1>2. ASSUME TabIsShown PROVE Newer'
  BY <1>2, CheckBegins DEF RInv, Types, Owner, Version, Newer, TabIsShown, Rest, stored,
     flow, flags, wakes, net, bounds
<1>3. ASSUME SocketDrops PROVE Newer'
  BY <1>3 DEF RInv, Types, Owner, Version, Newer, SocketDrops, OnDisconnect, Rest,
     stored, flow, flags, wakes, net, bounds
<1>4. ASSUME GoesOffline PROVE Newer'
  BY <1>4 DEF RInv, Types, Owner, Version, Newer, GoesOffline, OnDisconnect, Rest,
     stored, flow, flags, wakes, net, bounds
<1>5. ASSUME SocketReturns PROVE Newer'
  BY <1>5, CheckBegins DEF RInv, Types, Owner, Version, Newer, SocketReturns, Rest,
     stored, flow, flags, wakes, net, bounds
<1>6. ASSUME ComesOnline PROVE Newer'
  BY <1>6, CheckBegins DEF RInv, Types, Owner, Version, Newer, ComesOnline, Rest,
     stored, flow, flags, wakes, net, bounds
<1>7. ASSUME NEW r \in fleet, FetchAnswered(r) PROVE Newer'
  <2>0. r \in 1 .. MaxRevision /\ account \in Accounts
    BY DEF RInv, Types
  <2>1. r > 0 /\ account \in Accounts
    BY <2>0
  <2>2. UNCHANGED <<account, seen, last>>
    BY <1>7 DEF FetchAnswered, Rest, stored
  <2>3. \/ at' = "restoring" /\ info'.user = account /\ info'.revision = r
        \/ at' = "idle"
    <3>1. CASE Uninterrupted /\ at' = "restoring" /\ info' = [user |-> account, revision |-> r]
      BY <3>1
    <3> QED
      BY <1>7, <3>1 DEF FetchAnswered, Finish
  <2>4. CASE at' = "restoring" /\ info'.user = account /\ info'.revision = r
    BY <2>1, <2>2, <2>4 DEF RInv, Newer
  <2>5. CASE at' = "idle"
    BY <2>2, <2>5 DEF RInv, Newer
  <2> QED
    BY <2>3, <2>4, <2>5
<1>8. ASSUME FetchFails PROVE Newer'
  BY <1>8 DEF RInv, Types, Owner, Version, Newer, FetchFails, Fault, Finish, Rest,
     stored, flow, flags, wakes, net, bounds
<1>9. ASSUME RestoreDone PROVE Newer'
  BY <1>9 DEF RInv, Types, Owner, Version, Newer, RestoreDone, Restores, Armed, Finish,
     NoInfo, Baseline,
     Uninterrupted, Rest, stored, flow, flags, wakes, net, bounds
<1>10. ASSUME SeenUnreadable PROVE Newer'
  BY <1>10 DEF RInv, Types, Owner, Version, Newer, SeenUnreadable, Restores, Armed,
     EndsPaused, Fault, Pauses, Finish, NoInfo, Baseline,
     Uninterrupted, Rest, stored, flow, flags, wakes, net, bounds
<1>11. ASSUME RestoreFails PROVE Newer'
  BY <1>11 DEF RInv, Types, Owner, Version, Newer, RestoreFails, MayRestore,
     EndsPaused, Fault,
     LeftBackup, NoInfo, Baseline, Rest, stored, flow, flags, wakes, net, bounds
<1>12. ASSUME SnapshotDone PROVE Newer'
  BY <1>12 DEF RInv, Types, Owner, Version, Newer, SnapshotDone, BacksUp,
     Uninterrupted, Finish,
     NoInfo, Baseline, Rest, stored, flow, flags, wakes, net, bounds
<1>13. ASSUME SnapshotFails PROVE Newer'
  BY <1>13 DEF RInv, Types, Owner, Version, Newer, SnapshotFails, BacksUp, EndsPaused,
     Fault,
     NoInfo, Baseline, Rest, stored, flow, flags, wakes, net, bounds
<1>14. ASSUME AutomaticReload PROVE Newer'
  BY <1>14 DEF RInv, Types, Owner, Version, Newer, AutomaticReload, PageLoads, NoInfo,
     Baseline, Rest, stored, flow, flags, wakes, net, bounds
<1>15. ASSUME ReloadByHand PROVE Newer'
  BY <1>15 DEF RInv, Types, Owner, Version, Newer, ReloadByHand, ByHand, PageLoads,
     NoInfo, Baseline, Rest, stored, flow, flags, wakes, net, bounds
<1>16. ASSUME NEW a \in Accounts, LogIn(a) PROVE Newer'
  BY <1>16 DEF RInv, Types, Owner, Version, Newer, LogIn, Login, Carries, ByHand,
     PageLoads, NoInfo,
     Baseline, Rest, stored, flow, flags, wakes, net, bounds
<1>17. ASSUME NEW a \in Accounts, LogInElsewhere(a) PROVE Newer'
  BY <1>17 DEF RInv, Types, Owner, Version, Newer, LogInElsewhere, Login, Carries,
     ByHand, PageLoads, NoInfo,
     Baseline, Rest, stored, flow, flags, wakes, net, bounds
<1>18. CASE UNCHANGED <<account, seen, at, info, last>>
  BY <1>18 DEF RInv, Types, Owner, Version, Newer
<1> QED
  BY <1>1, <1>2, <1>3, <1>4, <1>5, <1>6, <1>7, <1>8, <1>9, <1>10, <1>11, <1>12, <1>13,
     <1>14, <1>15, <1>16, <1>17, <1>18 DEF Next, CheckStep, vars, Deploy, Retire,
     GraphReady, GraphLoads,
     UserEdits, Rest, stored, flow, flags, wakes, net, bounds

-----------------------------------------------------------------------------
(* A new tab.                                                               *)
LEMMA RInit == Init => RInv
<1> SUFFICES ASSUME Init PROVE RInv
  OBVIOUS
<1>1. Types
  BY RefreshAssumption
     DEF Init, Types, Owner, Version, Edits, AtCheck, Nothing, NeverSeen, NoInfo
<1>2. Flags
  BY DEF Init, Flags
<1>3. Connection /\ Owners /\ Owed /\ Newer
  BY DEF Init, Connection, Owners, Owed, Newer, Nothing
<1> QED
  BY <1>1, <1>2, <1>3 DEF RInv

(* The inductive invariant of the tab.                                      *)
THEOREM RInvHolds == Spec => []RInv
<1>1. RInv /\ [Next]_vars => RInv'
  BY FlagsStep, TypesStep, ConnectionStep, OwnersStep, OwedStep, NewerStep DEF RInv
<1> QED
  BY RInit, <1>1, PTL DEF Spec

(* The tab, its storage, its check and its flags are typed.                 *)
THEOREM RefreshTypeCorrect == Spec => []TypeOK
<1>1. RInv => TypeOK
  BY DEF RInv, Types, Flags, Connection, Owner, Version, AtCheck, TypeOK
<1> QED
  BY RInvHolds, <1>1, PTL

(* Edits that were open when the tab refreshed itself are never lost on the *)
(* way through backup, failing restores and further reloads.                *)
THEOREM EditsSurviveRefreshHolds == Spec => []EditsSurviveRefresh
<1>1. RInv => EditsSurviveRefresh
  BY DEF RInv, Owed, Nothing, EditsSurviveRefresh
<1> QED
  BY RInvHolds, <1>1, PTL

(* A backup is restored for the account it names, whoever logs in to the    *)
(* same tab, or to another one of the browser, in between; so nobody is     *)
(* shown the edits of another account but those the tab held at a login or  *)
(* backed up on an answer from before it.                                   *)
THEOREM NoForeignEditsHolds == Spec => []NoForeignEdits
<1>1. RInv => NoForeignEdits
  BY DEF RInv, Owners, Own, NoForeignEdits
<1> QED
  BY RInvHolds, <1>1, PTL

(* The tab reloads only if the connection held since the answer.            *)
THEOREM RefreshNeedsConnectionHolds == Spec => []RefreshNeedsConnection
<1>1. RInv => RefreshNeedsConnection
  BY DEF RInv, Connection, RefreshNeedsConnection
<1> QED
  BY RInvHolds, <1>1, PTL

(* Old and new instances that answer in any order cannot make the tab       *)
(* reload again and again.                                                  *)
THEOREM NoRefreshLoopHolds == Spec => NoRefreshLoop
<1> DEFINE Once == at # "reloading" /\ at' = "reloading" => info.revision > last
<1>1. RInv /\ [Next]_vars => [Once]_vars
  <2> SUFFICES ASSUME RInv, Next, at # "reloading", at' = "reloading"
               PROVE at = "snapshotting"
    BY DEF RInv, Newer
  <2> QED
    BY CheckBegins
    DEF Next, CheckStep, Deploy, Retire, TimerFires, TabIsShown, SocketDrops, GoesOffline,
        SocketReturns, ComesOnline, OnDisconnect, FetchAnswered, FetchFails, RestoreDone,
        RestoreFails, SeenUnreadable, Restores, SnapshotDone, SnapshotFails, EndsPaused,
        Finish, GraphReady, GraphLoads, UserEdits, AutomaticReload, ReloadByHand, LogIn,
        LogInElsewhere, PageLoads, flow
<1> QED
  BY RInvHolds, <1>1, PTL DEF Spec, NoRefreshLoop
=============================================================================
