-------------------------- MODULE LifecycleProofs --------------------------
(***************************************************************************)
(* Installations exclude each other, a restoration keeps its flag, nothing *)
(* is left locked and a suspended server is not launched, for any number   *)
(* of power actions, installations and restorations.                       *)
(***************************************************************************)
EXTENDS Lifecycle, TLAPS

-----------------------------------------------------------------------------

\* The installing flag is up exactly while a script is prepared or runs.
InstallInv ==
    /\ InstallExclusive
    /\ installing => \E t \in Tasks : Scripting(t)

\* The steps of a restoration are those of a request to restore, and the
\* restoring flag is up only while there is one.
RestoreInv ==
    /\ \A t \in Tasks : pc[t] \in RestPcs \ {"halt"} => act[t] = "restore"
    /\ \A t \in Tasks : act[t] = "restore" => t \in Restores /\ pc[t] \in RestPcs \cup {"ended"}
    /\ restoring => \E t \in Restores : InRestoration(t)
    /\ RestoreHeld

\* The holder of the lock is between taking it and leaving.
LockInv ==
    /\ lock \in Tasks \cup {None, "closed"}
    /\ \A t \in Tasks : pc[t] \in {"check", "lock"} => act[t] \in PowerActs
    /\ lock \in Tasks =>
        /\ act[lock] \in PowerActs
        /\ pc[lock] = "state" => act[lock] = "start"
        /\ pc[lock] \in SyncPcs => act[lock] \in {"start", "restart"}
        /\ pc[lock] \in {"state", "stopping", "sync", "adopt", "suspcheck", "launch", "term"}

\* What a start was told at its sync still stands when it looks at the
\* suspension, unless it was overruled in between; a server that is being
\* created has nothing under way.
SuspensionInv ==
    /\ tracked = "new" => \A t \in Tasks : pc[t] = "idle"
    /\ \A t \in Tasks : answer[t] =>
        /\ pc[t] = "suspcheck" => suspended \/ t \in overruled
        /\ pc[t] = "launch" => t \in overruled

LifeInv ==
    /\ DOMAIN pc = Tasks /\ DOMAIN act = Tasks /\ DOMAIN answer = Tasks
    /\ \A t \in Tasks : act[t] = "sync" => t \in Syncs /\ pc[t] \in SyncPcs
    /\ InstallInv /\ RestoreInv /\ LockInv /\ SuspensionInv

\* A step of a goroutine keeps the invariant ...
LEMMA TaskStep ==
    ASSUME LifeInv, NEW t \in Tasks, Step(t) \/ External(t) \/ StreamEnds(t)
    PROVE  LifeInv'
<1> USE NoneIsNoTask, SyncsApart
    DEF LifeInv, InstallInv, InstallExclusive, Scripting, RestoreInv, RestoreHeld, InRestoration,
        LockInv, SuspensionInv, RestPcs, SyncPcs, PowerActs, Tasks, At, Goto,
        flagVars, suspVars, envVars, srvVars, taskVars
<1>1. CASE Sync(t) BY <1>1 DEF Sync, Leave, End, Return
<1>2. CASE SyncWithConfiguration(t)
    <2> USE <1>2 DEF SyncWithConfiguration, SyncTo, Lifted, AfterSync
    <2>1. pc[t] = "adopt" /\ (\A u \in Tasks \ {t} : pc'[u] = pc[u] /\ act'[u] = act[u] /\ answer'[u] = answer[u])
        BY DEF Return
    <2>2. IF act[t] = "sync" THEN pc'[t] = "idle" /\ act'[t] = "start" /\ answer'[t] = FALSE
          ELSE pc'[t] \in {"suspcheck", "fetch"} /\ act'[t] = act[t] /\ answer'[t] = answer[t]
        BY DEF Return
    <2>3. DOMAIN pc' = Tasks /\ DOMAIN act' = Tasks /\ DOMAIN answer' = Tasks
        BY DEF Return
    <2>4. InstallInv' /\ (\A u \in Tasks : act'[u] = "sync" => u \in Syncs /\ pc'[u] \in SyncPcs)
        BY <2>1, <2>2
    <2>8. LockInv'
        <3>1. lock' = lock
            OBVIOUS
        <3>2. CASE lock = t
            <4>1. act[t] \in {"start", "restart"} /\ pc'[t] = "suspcheck" /\ act'[t] = act[t]
                BY <2>1, <3>2 DEF Return
            <4> QED BY <2>1, <3>1, <3>2, <4>1
        <3>3. CASE lock # t
            BY <2>1, <2>2, <3>1, <3>3
        <3> QED BY <3>2, <3>3
    <2>5. RestoreInv'
        BY <2>1, <2>2
    <2>6. ASSUME NEW u \in Tasks, answer'[u], pc'[u] \in {"suspcheck", "launch"}
          PROVE  IF pc'[u] = "launch" THEN u \in overruled' ELSE suspended' \/ u \in overruled'
        <3>1. CASE u = t
            BY <2>2, <2>6, <3>1
        <3>2. CASE u # t
            BY <2>1, <2>6, <3>2
        <3> QED BY <3>1, <3>2
    <2>7. SuspensionInv'
        BY <2>1, <2>6
    <2> QED BY <2>3, <2>4, <2>5, <2>7, <2>8
<1>3. CASE CheckFlags(t) BY <1>3 DEF CheckFlags, End, Return
<1>4. CASE TakeLock(t) BY <1>4 DEF TakeLock, AfterLock, End, Return
<1>5. CASE GuardState(t) BY <1>5 DEF GuardState, Leave, End, Return
<1>6. CASE StopFirst(t) BY <1>6 DEF StopFirst, Stopped, Down, Leave, End, Return
<1>7. CASE CheckSuspended(t) BY <1>7 DEF CheckSuspended, Leave, End, Return
<1>8. CASE Launch(t) BY <1>8 DEF Launch, Leave, End, Return
<1>9. CASE Terminate(t) BY <1>9 DEF Terminate, Leave, End, Return, Down
<1>10. CASE CreateEnvironment(t) BY <1>10 DEF CreateEnvironment, End, Return
<1>11. CASE FetchScript(t) BY <1>11 DEF FetchScript, SetOk
<1>12. CASE SwapInstalling(t) BY <1>12 DEF SwapInstalling, SetOk
<1>13. CASE Prepare(t) BY <1>13 DEF Prepare, SetOk
<1>14. CASE Report(t) BY <1>14 DEF Report
<1>15. CASE Settle(t) BY <1>15 DEF Settle, Become, End, Return
<1>16. CASE Truncate(t) BY <1>16 DEF Truncate, GiveUp, End, Return
<1>17. CASE Suspend(t) BY <1>17 DEF Suspend
<1>18. CASE Halt(t) BY <1>18 DEF Halt, Stopped, Down, End, Return
<1>19. CASE TellRestored(t) BY <1>19 DEF TellRestored
<1>20. CASE Unsuspend(t) BY <1>20 DEF Unsuspend, Lifted
<1>21. CASE ClearRestoring(t) BY <1>21 DEF ClearRestoring, GiveUp, End, Return
<1>22. CASE CancelContext(t) BY <1>22 DEF CancelContext
<1>23. CASE DestroyLock(t) BY <1>23 DEF DestroyLock
<1>24. CASE DestroyEnvironment(t) BY <1>24 DEF DestroyEnvironment, Down, End, Return
<1>25. CASE ScriptEnds(t) BY <1>25 DEF ScriptEnds
<1>26. CASE Locate(t) BY <1>26 DEF Locate, GiveUp, End, Return
<1>27. CASE WriteFiles(t) BY <1>27 DEF WriteFiles
<1>28. CASE StreamEnds(t) BY <1>28 DEF StreamEnds, SetOk
<1> QED BY <1>1, <1>2, <1>3, <1>4, <1>5, <1>6, <1>7, <1>8, <1>9, <1>10, <1>11, <1>12, <1>13,
           <1>14, <1>15, <1>16, <1>17, <1>18, <1>19, <1>20, <1>21, <1>22, <1>23, <1>24, <1>25,
           <1>26, <1>27, <1>28
        DEF Step, External

\* ... and so do requests, the panel and the process.
LEMMA LifeStep == LifeInv /\ [Next]_vars => LifeInv'
<1> SUFFICES ASSUME LifeInv, [Next]_vars PROVE LifeInv'
    OBVIOUS
<1> USE NoneIsNoTask, SyncsApart
    DEF LifeInv, InstallInv, InstallExclusive, Scripting, RestoreInv, RestoreHeld, InRestoration,
        LockInv, SuspensionInv, RestPcs, SyncPcs, Tasks, PowerActs,
        At, Goto, Ask, Become, flagVars, suspVars, envVars, srvVars, taskVars
<1>1. ASSUME NEW t \in Powers, NEW a \in PowerActs, PowerRequest(t, a) PROVE LifeInv'
    BY <1>1 DEF PowerRequest
<1>2. ASSUME NEW t \in Installs, InstallRequest(t) PROVE LifeInv'
    BY <1>2 DEF InstallRequest
<1>3. ASSUME NEW t \in Installs, ReinstallRequest(t) PROVE LifeInv'
    BY <1>3 DEF ReinstallRequest
<1>4. ASSUME NEW t \in Installs, CreateRequest(t) PROVE LifeInv'
    BY <1>4 DEF CreateRequest
<1>5. ASSUME NEW t \in Restores, RestoreRequest(t) PROVE LifeInv'
    BY <1>5 DEF RestoreRequest
<1>6. ASSUME NEW t \in Deletes, DeleteRequest(t) PROVE LifeInv'
    BY <1>6 DEF DeleteRequest
<1>7. ASSUME NEW t \in Syncs, SyncRequest(t) PROVE LifeInv'
    BY <1>7 DEF SyncRequest
<1>8. CASE PanelSets \/ ProcessExits
    BY <1>8 DEF PanelSets, ProcessExits, Down
<1>9. CASE UNCHANGED vars
    BY <1>9 DEF vars
<1> HIDE DEF LifeInv, Tasks, PowerActs
<1> QED BY <1>1, <1>2, <1>3, <1>4, <1>5, <1>6, <1>7, <1>8, <1>9, TaskStep DEF Next

LEMMA LifeAlways == Spec => []LifeInv
<1>1. Init => LifeInv
    <2> SUFFICES ASSUME Init PROVE LifeInv
        OBVIOUS
    <2> USE DEF Init
    <2>1. InstallInv
        BY DEF InstallInv, InstallExclusive, Scripting
    <2>2. RestoreInv
        BY DEF RestoreInv, RestoreHeld, InRestoration, RestPcs, Tasks
    <2>3. LockInv
        BY NoneIsNoTask DEF LockInv
    <2>4. SuspensionInv
        BY DEF SuspensionInv
    <2> QED BY <2>1, <2>2, <2>3, <2>4 DEF LifeInv
<1> QED BY <1>1, LifeStep, PTL DEF Spec

\* One installation at a time works on the files and the flag is up meanwhile, for
\* any number of installs and reinstalls (InstallationProcess.Run).
THEOREM OneInstaller == Spec => []InstallExclusive
<1>1. LifeInv => InstallExclusive
    BY DEF LifeInv, InstallInv
<1> QED BY <1>1, LifeAlways, PTL

\* When every goroutine is done, whichever way, no flag stands and the lock is
\* free or destroyed (HandlePowerAction, Run, postServerRestoreBackup).
THEOREM NobodyLocksForEver == Spec => []NothingLeftLocked
<1>1. LifeInv => NothingLeftLocked
    <2> SUFFICES ASSUME LifeInv, \A t \in Tasks : pc[t] \in {"idle", "ended"}
                 PROVE  ~installing /\ ~restoring /\ lock \notin Tasks
        BY DEF NothingLeftLocked
    <2>1. ~installing
        BY DEF LifeInv, InstallInv, Scripting
    <2>2. ~restoring
        BY DEF LifeInv, RestoreInv, InRestoration, RestPcs, Tasks
    <2>3. lock \notin Tasks
        BY DEF LifeInv, LockInv
    <2> QED BY <2>1, <2>2, <2>3
<1> QED BY <1>1, LifeAlways, PTL

\* The flag of the only restoration stands from the request to the last file, for
\* any number of other goroutines (postServerRestoreBackup).
THEOREM RestorationsHold == Spec => []RestoreHeld
<1>1. LifeInv => RestoreHeld
    BY DEF LifeInv, RestoreInv
<1> QED BY <1>1, LifeAlways, PTL

\* A start or restart whose own sync said that the server is suspended goes through
\* only if another sync or a restoration has lifted that before it looked, for any
\* number of syncs whose answers arrive late (onBeforeStart).
THEOREM SuspensionStopsStarts == Spec => []SuspendedNotLaunched
<1>1. LifeInv => SuspendedNotLaunched
    BY DEF LifeInv, SuspensionInv, SuspendedNotLaunched
<1> QED BY <1>1, LifeAlways, PTL

-----------------------------------------------------------------------------

\* A step of a goroutine keeps the types ...
LEMMA FlagsKept ==
    ASSUME TypeOK, NEW t \in Tasks, Step(t) \/ External(t) \/ StreamEnds(t)
    PROVE  FlagsOK'
<1>0. answer[t] \in BOOLEAN
    BY DEF TypeOK, PlacesOK
<1> USE <1>0 DEF TypeOK, FlagsOK, flagVars, suspVars, envVars, srvVars
<1>1. CASE Sync(t) BY Zenon, <1>1 DEF Sync, Leave, End, Return
<1>2. CASE SyncWithConfiguration(t) BY Zenon, <1>2 DEF SyncWithConfiguration, SyncTo, Return, AfterSync, Lifted
<1>3. CASE CheckFlags(t) BY Zenon, <1>3 DEF CheckFlags, End, Return
<1>4. CASE TakeLock(t) BY Zenon, <1>4 DEF TakeLock, AfterLock, End, Return
<1>5. CASE GuardState(t) BY Zenon, <1>5 DEF GuardState, Leave, End, Return
<1>6. CASE StopFirst(t) BY Zenon, <1>6 DEF StopFirst, Stopped, Down, Leave, End, Return
<1>7. CASE CheckSuspended(t) BY Zenon, <1>7 DEF CheckSuspended, Leave, End, Return
<1>8. CASE Launch(t) BY Zenon, <1>8 DEF Launch, Leave, End, Return
<1>9. CASE Terminate(t) BY Zenon, <1>9 DEF Terminate, Leave, End, Return, Down
<1>10. CASE CreateEnvironment(t) BY Zenon, <1>10 DEF CreateEnvironment, End, Return
<1>11. CASE FetchScript(t) BY Zenon, <1>11 DEF FetchScript, SetOk
<1>12. CASE SwapInstalling(t) BY Zenon, <1>12 DEF SwapInstalling, SetOk
<1>13. CASE Prepare(t) BY Zenon, <1>13 DEF Prepare, SetOk
<1>14. CASE Report(t) BY Zenon, <1>14 DEF Report
<1>15. CASE Settle(t) BY Zenon, <1>15 DEF Settle, Become, End, Return
<1>16. CASE Truncate(t) BY Zenon, <1>16 DEF Truncate, GiveUp, End, Return
<1>17. CASE Suspend(t) BY Zenon, <1>17 DEF Suspend
<1>18. CASE Halt(t) BY Zenon, <1>18 DEF Halt, Stopped, Down, End, Return
<1>19. CASE TellRestored(t) BY Zenon, <1>19 DEF TellRestored
<1>20. CASE Unsuspend(t) BY Zenon, <1>20 DEF Unsuspend, Lifted
<1>21. CASE ClearRestoring(t) BY Zenon, <1>21 DEF ClearRestoring, GiveUp, End, Return
<1>22. CASE CancelContext(t) BY Zenon, <1>22 DEF CancelContext
<1>23. CASE DestroyLock(t) BY Zenon, <1>23 DEF DestroyLock
<1>24. CASE DestroyEnvironment(t) BY Zenon, <1>24 DEF DestroyEnvironment, Down, End, Return
<1>25. CASE ScriptEnds(t) BY Zenon, <1>25 DEF ScriptEnds
<1>26. CASE Locate(t) BY Zenon, <1>26 DEF Locate, GiveUp, End, Return
<1>27. CASE WriteFiles(t) BY Zenon, <1>27 DEF WriteFiles
<1>28. CASE StreamEnds(t) BY Zenon, <1>28 DEF StreamEnds, SetOk
<1> QED BY <1>1, <1>2, <1>3, <1>4, <1>5, <1>6, <1>7, <1>8, <1>9, <1>10, <1>11, <1>12, <1>13,
           <1>14, <1>15, <1>16, <1>17, <1>18, <1>19, <1>20, <1>21, <1>22, <1>23, <1>24, <1>25,
           <1>26, <1>27, <1>28
        DEF Step, External

LEMMA PlacesKept ==
    ASSUME TypeOK, NEW t \in Tasks, Step(t) \/ External(t) \/ StreamEnds(t)
    PROVE  PlacesOK'
<1>0. panelSuspended \in BOOLEAN
    BY DEF TypeOK, FlagsOK
<1> USE <1>0 DEF TypeOK, PlacesOK, Acts, PowerActs, Pcs, SyncPcs, PowerPcs, InstPcs, RestPcs, DelPcs,
            At, Goto, envVars, srvVars, taskVars
<1>1. CASE Sync(t) BY <1>1 DEF Sync, Leave, End, Return
<1>2. CASE SyncWithConfiguration(t) BY <1>2 DEF SyncWithConfiguration, SyncTo, Return, AfterSync, Lifted
<1>3. CASE CheckFlags(t) BY <1>3 DEF CheckFlags, End, Return
<1>4. CASE TakeLock(t) BY <1>4 DEF TakeLock, AfterLock, End, Return
<1>5. CASE GuardState(t) BY <1>5 DEF GuardState, Leave, End, Return
<1>6. CASE StopFirst(t) BY <1>6 DEF StopFirst, Stopped, Down, Leave, End, Return
<1>7. CASE CheckSuspended(t) BY <1>7 DEF CheckSuspended, Leave, End, Return
<1>8. CASE Launch(t) BY <1>8 DEF Launch, Leave, End, Return
<1>9. CASE Terminate(t) BY <1>9 DEF Terminate, Leave, End, Return, Down
<1>10. CASE CreateEnvironment(t) BY <1>10 DEF CreateEnvironment, End, Return
<1>11. CASE FetchScript(t) BY <1>11 DEF FetchScript, SetOk
<1>12. CASE SwapInstalling(t) BY <1>12 DEF SwapInstalling, SetOk
<1>13. CASE Prepare(t) BY <1>13 DEF Prepare, SetOk
<1>14. CASE Report(t) BY <1>14 DEF Report
<1>15. CASE Settle(t) BY <1>15 DEF Settle, Become, End, Return
<1>16. CASE Truncate(t) BY <1>16 DEF Truncate, GiveUp, End, Return
<1>17. CASE Suspend(t) BY <1>17 DEF Suspend
<1>18. CASE Halt(t) BY <1>18 DEF Halt, Stopped, Down, End, Return
<1>19. CASE TellRestored(t) BY <1>19 DEF TellRestored
<1>20. CASE Unsuspend(t) BY <1>20 DEF Unsuspend, Lifted
<1>21. CASE ClearRestoring(t) BY <1>21 DEF ClearRestoring, GiveUp, End, Return
<1>22. CASE CancelContext(t) BY <1>22 DEF CancelContext
<1>23. CASE DestroyLock(t) BY <1>23 DEF DestroyLock
<1>24. CASE DestroyEnvironment(t) BY <1>24 DEF DestroyEnvironment, Down, End, Return
<1>25. CASE ScriptEnds(t) BY <1>25 DEF ScriptEnds
<1>26. CASE Locate(t) BY <1>26 DEF Locate, GiveUp, End, Return
<1>27. CASE WriteFiles(t) BY <1>27 DEF WriteFiles
<1>28. CASE StreamEnds(t) BY <1>28 DEF StreamEnds, SetOk
<1> QED BY <1>1, <1>2, <1>3, <1>4, <1>5, <1>6, <1>7, <1>8, <1>9, <1>10, <1>11, <1>12, <1>13,
           <1>14, <1>15, <1>16, <1>17, <1>18, <1>19, <1>20, <1>21, <1>22, <1>23, <1>24, <1>25,
           <1>26, <1>27, <1>28
        DEF Step, External

\* ... and so do requests, the panel and the process: every variable of a server's
\* life keeps its type.
THEOREM LifecycleTyped == Spec => []TypeOK
<1>1. Init => TypeOK
    BY DEF Init, TypeOK, FlagsOK, PlacesOK, Acts, PowerActs, Pcs
<1>2. TypeOK /\ [Next]_vars => TypeOK'
    <2> SUFFICES ASSUME TypeOK, [Next]_vars PROVE TypeOK'
        OBVIOUS
    <2> USE DEF TypeOK, FlagsOK, PlacesOK, Acts, PowerActs, Pcs, SyncPcs, PowerPcs, InstPcs, RestPcs, DelPcs,
                Tasks, At, Goto, Ask, Become, flagVars, suspVars, envVars, srvVars, taskVars
    <2>1. ASSUME NEW t \in Powers, NEW a \in PowerActs, PowerRequest(t, a) PROVE TypeOK'
        BY <2>1 DEF PowerRequest
    <2>2. ASSUME NEW t \in Installs, InstallRequest(t) \/ ReinstallRequest(t) PROVE TypeOK'
        BY <2>2 DEF InstallRequest, ReinstallRequest
    <2>3. ASSUME NEW t \in Installs, CreateRequest(t) PROVE TypeOK'
        BY <2>3 DEF CreateRequest
    <2>4. ASSUME NEW t \in Restores, RestoreRequest(t) PROVE TypeOK'
        BY <2>4 DEF RestoreRequest
    <2>5. ASSUME NEW t \in Deletes, DeleteRequest(t) PROVE TypeOK'
        BY <2>5 DEF DeleteRequest
    <2>6. ASSUME NEW t \in Syncs, SyncRequest(t) PROVE TypeOK'
        BY <2>6 DEF SyncRequest
    <2>9. CASE PanelSets \/ ProcessExits
        BY <2>9 DEF PanelSets, ProcessExits, Down
    <2>7. CASE UNCHANGED vars
        BY <2>7 DEF vars
    <2> HIDE DEF TypeOK, FlagsOK, PlacesOK, Tasks
    <2>8. ASSUME NEW t \in Tasks, Step(t) \/ External(t) \/ StreamEnds(t) PROVE TypeOK'
        BY <2>8, FlagsKept, PlacesKept DEF TypeOK
    <2> QED BY <2>1, <2>2, <2>3, <2>4, <2>5, <2>6, <2>7, <2>8, <2>9 DEF Next
<1> QED BY <1>1, <1>2, PTL DEF Spec

=============================================================================
