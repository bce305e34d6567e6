----------------------------- MODULE Lifecycle -----------------------------
(* What may happen to one server besides its power actions: creation,         *)
(* installation, reinstallation, the restoration of a backup, suspension and  *)
(* deletion, with the flags (installing, restoring, suspended), the context   *)
(* and the power lock they share. HandlePowerAction is modelled from the side *)
(* of these flags; WinProc and ServerPower have its inside. The lock is the   *)
(* channel of system.Locker: free, filled by a goroutine, or closed.          *)
EXTENDS Naturals, FiniteSets

CONSTANTS
    Powers,     \* goroutines of POST /power
    Installs,   \* goroutines of POST /install, /reinstall and /servers
    Restores,   \* goroutines of POST /backup/:backup/restore
    Deletes,    \* DELETE requests
    Syncs,      \* goroutines of POST /sync
    MaxRequests,  \* bound: the requests under way or over (a sync counts until it is over)
    None

VARIABLES
    installing, restoring,      \* the atomic flags of the server
    suspended, panelSuspended,  \* its configuration, and the panel's
    state, live,                \* the reported state, and whether a process runs
    lock,                       \* the channel of the power lock
    cancelled,                  \* the server's context
    tracked,                    \* the manager: "new", "yes" or "gone"
    panicked,                   \* a goroutine sent on the closed channel
    pc, act,                    \* where a goroutine is, and for what
    ok,                         \* err == nil, of an installation
    answer,                     \* the suspension its Sync was told of
    overruled   \* history: starts whose suspension somebody else lifted before they looked

flagVars == <<installing, restoring>>
suspVars == <<suspended, panelSuspended>>
envVars  == <<state, live>>
srvVars  == <<lock, cancelled, tracked, panicked>>
taskVars == <<act, ok, answer, overruled>>
vars     == <<flagVars, suspVars, envVars, srvVars, pc, taskVars>>

Tasks == Powers \cup Installs \cup Restores \cup Deletes \cup Syncs

\* A second deletion closes the closed channel of the lock: one is modelled.
ASSUME OneDeletion == \A a, b \in Deletes : a = b
ASSUME SyncsApart == Syncs \cap (Powers \cup Installs \cup Restores \cup Deletes) = {}
ASSUME NoneIsNoTask == {None, "closed"} \cap Tasks = {} /\ None # "closed"

PowerActs == {"start", "stop", "restart", "kill"}
Acts     == PowerActs \cup {"install", "create", "restore", "delete", "sync"}
SyncPcs  == {"sync", "adopt"}
PowerPcs == {"check", "lock", "state", "stopping", "suspcheck", "launch", "term"}
InstPcs  == {"environment", "fetch", "swap", "prepare", "script", "stream", "report", "settle"}
RestPcs  == {"truncate", "locate", "suspend", "halt", "write", "tell", "resume", "clear"}
DelPcs   == {"cancel", "unlock", "destroy"}
Pcs      == {"idle", "ended"} \cup SyncPcs \cup PowerPcs \cup InstPcs \cup RestPcs \cup DelPcs

Init ==
    /\ installing = FALSE /\ restoring = FALSE
    /\ suspended = FALSE /\ panelSuspended = FALSE
    /\ state = "offline" /\ live = FALSE
    /\ lock = None /\ cancelled = FALSE /\ panicked = FALSE
    /\ tracked \in {"new", "yes"}
    /\ pc = [t \in Tasks |-> "idle"]
    /\ act = [t \in Tasks |-> "start"]
    /\ ok = [t \in Tasks |-> TRUE]
    /\ answer = [t \in Tasks |-> FALSE] /\ overruled = {}

Goto(t, p) == pc' = [pc EXCEPT ![t] = p]
At(t, p)   == ~panicked /\ pc[t] = p
Become(t, a) == act' = [act EXCEPT ![t] = a] /\ UNCHANGED <<ok, answer, overruled>>
SetOk(t, b)  == ok' = [ok EXCEPT ![t] = b] /\ UNCHANGED <<act, answer, overruled>>

\* The goroutine returns, and its locals are gone; a sync may be asked for again.
Return(t) ==
    /\ Goto(t, IF act[t] = "sync" THEN "idle" ELSE "ended")
    /\ act' = [act EXCEPT ![t] = "start"] /\ ok' = [ok EXCEPT ![t] = TRUE]
    /\ answer' = [answer EXCEPT ![t] = FALSE]
End(t) == Return(t) /\ overruled' = overruled \ {t}

-----------------------------------------------------------------------------
(* Requests *)

Ask(t, a, p) ==
    /\ At(t, "idle") /\ Become(t, a) /\ Goto(t, p)
    /\ Cardinality({u \in Tasks : pc[u] # "idle"}) < MaxRequests

PowerRequest(t, a) ==
    /\ tracked = "yes" /\ (a \in {"start", "restart"} => ~suspended)
    /\ Ask(t, a, "check")
    /\ UNCHANGED <<flagVars, suspVars, envVars, srvVars>>

InstallRequest(t) ==
    /\ tracked = "yes" /\ Ask(t, "install", "sync")
    /\ UNCHANGED <<flagVars, suspVars, envVars, srvVars>>

\* Refused while a power action runs, without taking the lock.
ReinstallRequest(t) ==
    /\ tracked = "yes" /\ lock \notin Tasks
    /\ Ask(t, "install", "halt")
    /\ UNCHANGED <<flagVars, suspVars, envVars, srvVars>>

\* The server is put together from the panel's configuration and tracked.
CreateRequest(t) ==
    /\ tracked = "new" /\ Ask(t, "create", "environment")
    /\ tracked' = "yes" /\ suspended' = panelSuspended
    /\ UNCHANGED <<flagVars, panelSuspended, envVars, lock, cancelled, panicked>>

RestoreRequest(t) ==
    /\ tracked = "yes" /\ Ask(t, "restore", "truncate")
    /\ restoring' = TRUE
    /\ UNCHANGED <<installing, suspVars, envVars, srvVars>>

DeleteRequest(t) ==
    /\ tracked = "yes" /\ Ask(t, "delete", "cancel")
    /\ suspended' = TRUE
    /\ UNCHANGED <<flagVars, panelSuspended, envVars, srvVars>>

SyncRequest(t) ==
    /\ tracked = "yes" /\ Ask(t, "sync", "sync")
    /\ UNCHANGED <<flagVars, suspVars, envVars, srvVars>>

\* The panel suspends and un-suspends; with the context cancelled nobody asks it.
PanelSets ==
    /\ ~panicked /\ ~cancelled /\ panelSuspended' = ~panelSuspended
    /\ UNCHANGED <<suspended, flagVars, envVars, srvVars, pc, taskVars>>

-----------------------------------------------------------------------------
(* Sync, for a start or restart, an installation, or by itself *)

\* The deferred cleanup of a power action drains the channel.
Leave(t) ==
    /\ End(t)
    /\ lock' = IF lock = t THEN None ELSE lock
    /\ UNCHANGED <<cancelled, tracked, panicked>>

\* The panel is asked. Without an answer that can be read, nothing is started
\* or installed, and nobody is told.
Sync(t) ==
    /\ At(t, "sync")
    /\ \/ /\ ~cancelled /\ Goto(t, "adopt")
          /\ answer' = [answer EXCEPT ![t] = panelSuspended]
          /\ UNCHANGED <<srvVars, act, ok, overruled>>
       \/ Leave(t)
    /\ UNCHANGED <<flagVars, suspVars, envVars>>

AfterSync(t) == IF act[t] \in {"start", "restart"} THEN "suspcheck" ELSE "fetch"

\* The starts that are past their own sync and have yet to look.
Lifted(t) == overruled' = overruled \cup {u \in Tasks \ {t} : pc[u] = "suspcheck"}

SyncTo(t, next) ==
    /\ At(t, "adopt") /\ suspended' = answer[t]
    /\ \/ act[t] = "sync" /\ Return(t)
       \/ act[t] # "sync" /\ Goto(t, next) /\ UNCHANGED <<act, ok, answer>>
    /\ IF answer[t] THEN UNCHANGED overruled ELSE Lifted(t)
    /\ UNCHANGED <<panelSuspended, flagVars, envVars, srvVars>>

\* A plausible mistake: a start relies on its check before the sync.
SyncUnchecked(t) == SyncTo(t, IF AfterSync(t) = "suspcheck" THEN "launch" ELSE AfterSync(t))

\* The whole configuration is replaced by the one the panel answered with,
\* whatever has happened to it since.
SyncWithConfiguration(t) == SyncTo(t, AfterSync(t))

-----------------------------------------------------------------------------
(* HandlePowerAction *)

CheckFlags(t) ==
    /\ At(t, "check")
    /\ IF installing \/ restoring THEN End(t) ELSE Goto(t, "lock") /\ UNCHANGED taskVars
    /\ UNCHANGED <<flagVars, suspVars, envVars, srvVars>>

AfterLock(t) == CASE act[t] = "kill" -> "term" [] act[t] = "start" -> "state" [] OTHER -> "stopping"

\* The channel is free; or filled, and a kill goes on, others wait or give up;
\* or closed, where a send panics unless the cancelled context is seen.
TakeLock(t) ==
    /\ At(t, "lock")
    /\ \/ /\ lock = None /\ lock' = t /\ Goto(t, AfterLock(t))
          /\ UNCHANGED <<panicked, taskVars>>
       \/ /\ lock \in Tasks /\ act[t] = "kill" /\ Goto(t, "term")
          /\ UNCHANGED <<lock, panicked, taskVars>>
       \/ /\ lock \in Tasks \/ cancelled
          /\ act[t] # "kill" /\ End(t) /\ UNCHANGED <<lock, panicked>>
       \/ lock = "closed" /\ panicked' = TRUE /\ UNCHANGED <<lock, pc, taskVars>>
    /\ UNCHANGED <<flagVars, suspVars, envVars, cancelled, tracked>>

\* Past the lock a start looks at the state, then syncs the configuration, and
\* only then looks at the suspension.
GuardState(t) ==
    /\ At(t, "state")
    /\ IF state = "offline" THEN Goto(t, "sync") /\ UNCHANGED <<srvVars, taskVars>> ELSE Leave(t)
    /\ UNCHANGED <<flagVars, suspVars, envVars>>

Down == live' = FALSE /\ state' = "offline"
Stopped == IF state = "offline" THEN UNCHANGED envVars ELSE ~cancelled /\ Down

\* A stop or restart waits for the process to be gone, with the lock held.
StopFirst(t) ==
    /\ At(t, "stopping")
    /\ \/ act[t] = "restart" /\ Stopped /\ Goto(t, "sync") /\ UNCHANGED <<srvVars, taskVars>>
       \/ act[t] = "stop" /\ Stopped /\ Leave(t)
       \/ Leave(t) /\ UNCHANGED envVars
    /\ UNCHANGED <<flagVars, suspVars>>

CheckSuspended(t) ==
    /\ At(t, "suspcheck")
    /\ \/ ~suspended /\ Goto(t, "launch") /\ UNCHANGED <<srvVars, taskVars>>
       \/ Leave(t)
    /\ UNCHANGED <<flagVars, suspVars, envVars>>

Launch(t) ==
    /\ At(t, "launch") /\ Leave(t)
    /\ \/ live' = TRUE /\ state' = "online"
       \/ UNCHANGED envVars
    /\ UNCHANGED <<flagVars, suspVars>>

Terminate(t) ==
    /\ At(t, "term") /\ Leave(t) /\ Down
    /\ UNCHANGED <<flagVars, suspVars>>

\* The process ends, by itself or because SyncWithEnvironment found the server
\* suspended and stops it in a goroutine of its own.
ProcessExits ==
    /\ ~panicked /\ live /\ Down
    /\ UNCHANGED <<flagVars, suspVars, srvVars, pc, taskVars>>

-----------------------------------------------------------------------------
(* Installation *)

CreateEnvironment(t) ==
    /\ At(t, "environment")
    /\ (Goto(t, "fetch") /\ UNCHANGED taskVars) \/ End(t)
    /\ UNCHANGED <<flagVars, suspVars, envVars, srvVars>>

\* The scripts are skipped, or the egg is checked and its script fetched.
FetchScript(t) ==
    /\ At(t, "fetch")
    /\ \/ Goto(t, "report") /\ \E b \in BOOLEAN : SetOk(t, b)
       \/ ~cancelled /\ Goto(t, "swap") /\ UNCHANGED taskVars
    /\ UNCHANGED <<flagVars, suspVars, envVars, srvVars>>

\* A plausible mistake: the flag is set without being tested.
SwapUntested(t) ==
    /\ At(t, "swap") /\ installing' = TRUE /\ Goto(t, "prepare")
    /\ UNCHANGED <<restoring, suspVars, envVars, srvVars, taskVars>>

SwapInstalling(t) ==
    /\ At(t, "swap")
    /\ IF installing
       THEN Goto(t, "report") /\ SetOk(t, FALSE)
       ELSE Goto(t, "prepare") /\ UNCHANGED taskVars
    /\ installing' = TRUE
    /\ UNCHANGED <<restoring, suspVars, envVars, srvVars>>

\* A plausible mistake: the flag is given back only after the script ran.
PrepareKeeps(t) ==
    /\ At(t, "prepare")
    /\ \/ ~cancelled /\ Goto(t, "script") /\ UNCHANGED <<installing, taskVars>>
       \/ Goto(t, "report") /\ SetOk(t, FALSE) /\ UNCHANGED installing
    /\ UNCHANGED <<restoring, suspVars, envVars, srvVars>>

\* The data directory, the script on the disk, the pipe and the process; the
\* flag is given back on every way out.
Prepare(t) ==
    /\ At(t, "prepare")
    /\ \/ ~cancelled /\ Goto(t, "script") /\ UNCHANGED <<installing, taskVars>>
       \/ Goto(t, "report") /\ SetOk(t, FALSE) /\ installing' = FALSE
    /\ UNCHANGED <<restoring, suspVars, envVars, srvVars>>

\* powershell exits, or a cancelled context kills it.
ScriptEnds(t) ==
    /\ At(t, "script") /\ Goto(t, "stream")
    /\ UNCHANGED <<flagVars, suspVars, envVars, srvVars, taskVars>>

\* The output is at its end once every process that inherited the pipe is gone;
\* then the exit counts, with whatever code.
StreamEnds(t) ==
    /\ At(t, "stream") /\ Goto(t, "report")
    /\ installing' = FALSE /\ \E b \in BOOLEAN : SetOk(t, b)
    /\ UNCHANGED <<restoring, suspVars, envVars, srvVars>>

\* The panel is told with the server's context; a failure is only logged.
Report(t) ==
    /\ At(t, "report") /\ Goto(t, "settle")
    /\ UNCHANGED <<flagVars, suspVars, envVars, srvVars, taskVars>>

\* The state is set to offline whatever runs; a new server may be started.
Settle(t) ==
    /\ At(t, "settle") /\ state' = "offline"
    /\ \/ act[t] = "create" /\ ok[t] /\ Become(t, "start") /\ Goto(t, "check")
       \/ End(t)
    /\ UNCHANGED <<live, flagVars, suspVars, srvVars>>

-----------------------------------------------------------------------------
(* Restoration *)

\* The handler's deferred function clears the flag on every error.
GiveUp(t) == End(t) /\ restoring' = FALSE /\ UNCHANGED installing

Truncate(t) ==
    /\ At(t, "truncate")
    /\ \/ Goto(t, "locate") /\ UNCHANGED <<flagVars, taskVars>>
       \/ GiveUp(t)
    /\ UNCHANGED <<suspVars, envVars, srvVars>>

\* A plausible mistake: the deferred function runs in every case.
LocateClears(t) ==
    /\ At(t, "locate")
    /\ Goto(t, "suspend") /\ restoring' = FALSE /\ UNCHANGED installing
    /\ UNCHANGED <<suspVars, envVars, srvVars, taskVars>>

\* The local archive is found, or the remote one answers.
Locate(t) ==
    /\ At(t, "locate")
    /\ \/ Goto(t, "suspend") /\ UNCHANGED <<flagVars, taskVars>>
       \/ GiveUp(t)
    /\ UNCHANGED <<suspVars, envVars, srvVars>>

Suspend(t) ==
    /\ At(t, "suspend") /\ suspended' = TRUE /\ Goto(t, "halt")
    /\ UNCHANGED <<panelSuspended, flagVars, envVars, srvVars, taskVars>>

\* WaitForStop, unless the state is offline already; the lock is not taken.
Halt(t) ==
    /\ At(t, "halt")
    /\ \/ /\ Stopped
          /\ Goto(t, IF act[t] = "restore" THEN "write" ELSE "sync")
          /\ UNCHANGED taskVars
       \/ /\ state # "offline" /\ UNCHANGED envVars
          /\ IF act[t] = "restore" THEN Goto(t, "tell") /\ UNCHANGED taskVars ELSE End(t)
    /\ UNCHANGED <<flagVars, suspVars, srvVars>>

\* With success or without, the panel is told which.
WriteFiles(t) ==
    /\ At(t, "write") /\ Goto(t, "tell")
    /\ UNCHANGED <<flagVars, suspVars, envVars, srvVars, taskVars>>

TellRestored(t) ==
    /\ At(t, "tell") /\ Goto(t, "resume")
    /\ UNCHANGED <<flagVars, suspVars, envVars, srvVars, taskVars>>

Unsuspend(t) ==
    /\ At(t, "resume") /\ suspended' = FALSE /\ Goto(t, "clear") /\ Lifted(t)
    /\ UNCHANGED <<panelSuspended, flagVars, envVars, srvVars, act, ok, answer>>

ClearRestoring(t) ==
    /\ At(t, "clear") /\ GiveUp(t)
    /\ UNCHANGED <<suspVars, envVars, srvVars>>

-----------------------------------------------------------------------------
(* Deletion *)

\* A plausible mistake: the context is left alone.
CancelNothing(t) ==
    /\ At(t, "cancel") /\ Goto(t, "unlock") /\ UNCHANGED cancelled
    /\ UNCHANGED <<flagVars, suspVars, envVars, lock, tracked, panicked, taskVars>>

CancelContext(t) ==
    /\ At(t, "cancel") /\ cancelled' = TRUE /\ Goto(t, "unlock")
    /\ UNCHANGED <<flagVars, suspVars, envVars, lock, tracked, panicked, taskVars>>

DestroyLock(t) ==
    /\ At(t, "unlock") /\ lock' = "closed" /\ Goto(t, "destroy")
    /\ UNCHANGED <<flagVars, suspVars, envVars, cancelled, tracked, panicked, taskVars>>

\* Docker may fail to remove the container: the server stays tracked.
DestroyEnvironment(t) ==
    /\ At(t, "destroy") /\ End(t)
    /\ \/ Down /\ tracked' = "gone"
       \/ UNCHANGED <<envVars, tracked>>
    /\ UNCHANGED <<flagVars, suspVars, lock, cancelled, panicked>>

-----------------------------------------------------------------------------

\* Steps that wait for somebody else unless the context is cancelled: the
\* script, a remote archive, the files of the backup.
External(t) == ScriptEnds(t) \/ Locate(t) \/ WriteFiles(t)

Step(t) ==
    \/ Sync(t) \/ SyncWithConfiguration(t)
    \/ CheckFlags(t) \/ TakeLock(t) \/ GuardState(t) \/ StopFirst(t)
    \/ CheckSuspended(t) \/ Launch(t) \/ Terminate(t)
    \/ CreateEnvironment(t) \/ FetchScript(t)
    \/ SwapInstalling(t) \/ Prepare(t) \/ Report(t) \/ Settle(t)
    \/ Truncate(t) \/ Suspend(t) \/ Halt(t) \/ TellRestored(t)
    \/ Unsuspend(t) \/ ClearRestoring(t)
    \/ CancelContext(t) \/ DestroyLock(t) \/ DestroyEnvironment(t)

Next ==
    \/ \E t \in Powers, a \in PowerActs : PowerRequest(t, a)
    \/ \E t \in Installs : InstallRequest(t) \/ ReinstallRequest(t) \/ CreateRequest(t)
    \/ \E t \in Restores : RestoreRequest(t)
    \/ \E t \in Deletes : DeleteRequest(t)
    \/ \E t \in Syncs : SyncRequest(t)
    \/ \E t \in Tasks : Step(t) \/ External(t) \/ StreamEnds(t)
    \/ PanelSets \/ ProcessExits

Spec == Init /\ [][Next]_vars

\* Goroutines are scheduled and requests to the panel time out; what depends on
\* others ends for sure only when the context is cancelled, and the output of a
\* script not even then.
Fairness ==
    \A t \in Tasks : WF_vars(Step(t) \/ (cancelled /\ External(t)))

FairSpec == Spec /\ Fairness

-----------------------------------------------------------------------------
(* Properties *)

FlagsOK ==
    /\ installing \in BOOLEAN /\ restoring \in BOOLEAN
    /\ suspended \in BOOLEAN /\ panelSuspended \in BOOLEAN
    /\ live \in BOOLEAN /\ cancelled \in BOOLEAN /\ panicked \in BOOLEAN

PlacesOK ==
    /\ state \in {"offline", "online"} /\ tracked \in {"new", "yes", "gone"}
    /\ lock \in Tasks \cup {None, "closed"}
    /\ pc \in [Tasks -> Pcs] /\ act \in [Tasks -> Acts]
    /\ ok \in [Tasks -> BOOLEAN] /\ answer \in [Tasks -> BOOLEAN]
    /\ overruled \subseteq Tasks

TypeOK == FlagsOK /\ PlacesOK

Scripting(t) == pc[t] \in {"prepare", "script", "stream"}

\* However installs and reinstalls overlap, one script at a time works on the
\* files, and the installing flag stands for all of that time
\* (InstallationProcess.Run swaps the flag and holds it).
InstallExclusive ==
    \A t \in Tasks : Scripting(t) =>
        installing /\ \A u \in Tasks : Scripting(u) => u = t

\* When every goroutine has come to its end, on whichever error path, the
\* server is not left locked: no flag stands and the lock is not held.
NothingLeftLocked ==
    ~panicked /\ (\A t \in Tasks : pc[t] \in {"idle", "ended"}) =>
        ~installing /\ ~restoring /\ lock \notin Tasks

InRestoration(t) == pc[t] \in RestPcs /\ act[t] = "restore"

\* While a single restoration is asked for, the restoring flag stands from the
\* request to the last file (postServerRestoreBackup hands it to its goroutine).
RestoreHeld ==
    \A t \in Restores :
        InRestoration(t) /\ (\A u \in Restores : pc[u] # "idle" => u = t) => restoring

\* A start or restart whose own Sync answered that the server is suspended goes
\* through only if, between that answer's taking effect and its look at it,
\* another Sync, however old its answer, or the end of a restoration has lifted
\* the suspension (onBeforeStart looks after the sync, without a lock on both).
SuspendedNotLaunched ==
    \A t \in Tasks : pc[t] = "launch" /\ answer[t] => t \in overruled

\* Unless a goroutine panics on the destroyed lock, once the context is cancelled
\* by the deletion every sync, install, restoration and power action of the
\* server comes to an end, but for an install whose script has left processes
\* behind that hold its output open (CleanupForDestroy, <-streamed in Execute).
DeletionEndsWork ==
    []~panicked =>
        ((\E t \in Tasks : pc[t] = "unlock") ~>
            (\A t \in Tasks : pc[t] \in {"idle", "ended", "stream"}))

=============================================================================
