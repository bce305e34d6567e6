------------------------------- MODULE Daemon -------------------------------
(* The life of the daemon: it loads the servers from the panel, page by page, *)
(* reads the states it last persisted, brings every server back in a pool of  *)
(* workers and then serves requests. A ticker persists the states from before *)
(* the pool starts. The daemon may be killed at any point; the processes die  *)
(* with it (a Job Object) or live on (a container).                           *)
EXTENDS Naturals, FiniteSets

CONSTANTS
    Servers,
    PageOf,     \* Servers -> the page of the panel's list a server is on
    Survive,    \* BOOLEAN: processes survive the daemon (Docker) or not (Job Objects)
    MaxCrashes  \* bound

ASSUME PagesStartAtOne == \A s \in Servers : PageOf[s] \in Nat \ {0}
ASSUME ThereIsALastPage == \E l \in Servers : \A s \in Servers : PageOf[s] <= PageOf[l]

VARIABLES
    dPc,        \* down, load, boot or serve
    pages,      \* the pages received
    tracked,    \* the servers of the manager
    env,        \* the state of each environment
    alive,      \* the server processes (or containers) that run
    statesFile, \* the states file: a state per server, "none" for no entry; or torn
    snap,       \* what PersistStates has read so far, "unread" where it has not
    states,     \* what ReadStates returned
    boot,       \* the task of the pool for a server: wait, up, down or failed
    crashes,
    fresh,      \* history: servers as the last save that was written had them
    expect      \* history: what a server has to come back as: up, down or any

dVars == <<dPc, pages, tracked, env, alive, statesFile, snap, states, boot, crashes, fresh, expect>>

States == {"offline", "starting", "running", "stopping"}
Unread == [s \in Servers |-> "unread"]
NoEntry == [s \in Servers |-> "none"]
Torn == [s \in Servers |-> "torn"]
LastPage == CHOOSE p \in {PageOf[s] : s \in Servers} : \A s \in Servers : PageOf[s] <= p

DInit ==
    /\ dPc = "down" /\ pages = {} /\ tracked = {} /\ crashes = 0
    /\ env = [s \in Servers |-> "offline"] /\ alive = {}
    /\ statesFile = NoEntry /\ snap = Unread /\ states = NoEntry
    /\ boot = [s \in Servers |-> "wait"] /\ fresh = {} /\ expect = [s \in Servers |-> "any"]

-----------------------------------------------------------------------------
(* Loading *)

StartDaemon ==
    /\ dPc = "down" /\ dPc' = "load"
    /\ UNCHANGED <<pages, tracked, env, alive, statesFile, snap, states, boot, crashes, fresh, expect>>

\* GetServers: the first page, then the others in parallel.
GetServersPage(p) ==
    /\ dPc = "load" /\ p \notin pages /\ p \in 1 .. LastPage
    /\ p = 1 \/ 1 \in pages
    /\ pages' = pages \cup {p}
    /\ UNCHANGED <<dPc, tracked, env, alive, statesFile, snap, states, boot, crashes, fresh, expect>>

\* Any page that fails ends the boot.
GetServersFails ==
    /\ dPc = "load" /\ pages # 1 .. LastPage
    /\ dPc' = "down" /\ pages' = {}
    /\ UNCHANGED <<tracked, env, alive, statesFile, snap, states, boot, crashes, fresh, expect>>

\* InitServer for every server of the list, in a pool: one that cannot be parsed
\* or set up is skipped. ReadStates then keeps the entries of tracked servers; a
\* torn file is an error, and all servers count as offline.
InitServers(broken) ==
    /\ dPc = "load" /\ pages = 1 .. LastPage
    /\ tracked' = {s \in Servers : PageOf[s] \in pages} \ broken
    /\ boot' = [s \in Servers |-> IF s \in broken THEN "failed" ELSE "wait"]
    /\ dPc' = "boot"
    /\ states' = IF statesFile = Torn THEN NoEntry
               ELSE [s \in Servers |-> IF s \in tracked' THEN statesFile[s] ELSE "none"]
    /\ fresh' = fresh \ broken
    /\ UNCHANGED <<pages, env, alive, statesFile, snap, crashes, expect>>

-----------------------------------------------------------------------------
(* The pool *)

\* A plausible mistake: a server that was still starting is forgotten.
WasUpRunning(s) == states[s] = "running"

\* What was persisted says that the server has to run.
WasUp(s) == states[s] \in {"running", "starting"}

Booting(s) == dPc = "boot" /\ s \in tracked /\ boot[s] = "wait"

\* The task of the pool is over; a server that did not come back as the file had
\* it is not fresh any more.
Booted(s, b) ==
    /\ boot' = [boot EXCEPT ![s] = b]
    /\ fresh' = IF expect[s] = b THEN fresh ELSE fresh \ {s}
    /\ UNCHANGED <<dPc, pages, tracked, statesFile, snap, states, crashes, expect>>

\* CreateEnvironment fails: the server is left out of the pool.
BootSkipped(s) == Booting(s) /\ Booted(s, "failed") /\ UNCHANGED <<env, alive>>

\* It does not run and did when its state was persisted: HandlePowerAction(start).
BootStart(s) ==
    /\ Booting(s) /\ s \notin alive /\ WasUp(s) /\ Booted(s, "up")
    /\ alive' = alive \cup {s} /\ env' = [env EXCEPT ![s] = "starting"]

\* The start fails (or is refused, a suspended server): a warning.
BootStartFails(s) ==
    /\ Booting(s) /\ s \notin alive /\ WasUp(s) /\ Booted(s, "failed")
    /\ UNCHANGED <<env, alive>>

\* It still runs: SetState(running) and Attach.
BootAttach(s) ==
    /\ Booting(s) /\ s \in alive /\ Booted(s, "up")
    /\ env' = [env EXCEPT ![s] = "running"] /\ UNCHANGED alive

BootOffline(s) ==
    /\ Booting(s) /\ s \notin alive /\ ~WasUp(s) /\ Booted(s, "down")
    /\ env' = [env EXCEPT ![s] = "offline"] /\ UNCHANGED alive

\* The container cannot be inspected within 30 seconds: an error is logged and
\* the server counts as not running. A start finds the container; else the state
\* is set to offline although the container may run.
BootInspectFails(s) ==
    /\ Survive /\ Booting(s) /\ s \in alive /\ Booted(s, "failed")
    /\ env' = [env EXCEPT ![s] = IF WasUp(s) THEN "running" ELSE "offline"] /\ UNCHANGED alive

\* pool.StopWait, then the cron jobs, SFTP, ResetServersState and the HTTP server.
Serve ==
    /\ dPc = "boot" /\ \A s \in tracked : boot[s] # "wait"
    /\ dPc' = "serve" /\ states' = NoEntry
    /\ UNCHANGED <<pages, tracked, env, alive, statesFile, snap, boot, crashes, fresh, expect>>

-----------------------------------------------------------------------------
(* Serving: the power state of a server changes, as ServerPower tells in detail *)

\* Bound: what the servers do after the last reboot is not followed.
Followed == dPc = "boot" \/ (dPc = "serve" /\ crashes < MaxCrashes)

Change(s, from, to, live) ==
    /\ Followed /\ s \in tracked /\ boot[s] # "wait" /\ env[s] \in from
    /\ env' = [env EXCEPT ![s] = to] /\ fresh' = fresh \ {s}
    /\ alive' = IF live THEN alive \cup {s} ELSE alive \ {s}
    /\ UNCHANGED <<dPc, pages, tracked, statesFile, snap, states, boot, crashes, expect>>

PowerStart(s) == dPc = "serve" /\ Change(s, {"offline"}, "starting", TRUE)
MarkRunning(s) == Change(s, {"starting"}, "running", TRUE)
PowerStop(s) == dPc = "serve" /\ Change(s, {"starting", "running"}, "stopping", TRUE)
ProcessExits(s) == Change(s, {"starting", "running", "stopping"}, "offline", FALSE)

-----------------------------------------------------------------------------
(* Persisting *)

\* PersistStates reads the states one after the other.
ReadState(s) ==
    /\ Followed /\ s \in tracked /\ snap[s] = "unread"
    /\ snap' = [snap EXCEPT ![s] = env[s]]
    /\ UNCHANGED <<dPc, pages, tracked, env, alive, statesFile, states, boot, crashes, fresh, expect>>

\* Brought back by the pool, with its environment in a known state.
Settled(s) == boot[s] \in {"up", "down"}

\* os.WriteFile replaces the whole file by the servers of the manager. It may fail
\* before or after it has truncated the file; the ticker warns and goes on.
WriteStates ==
    /\ Followed /\ (\A s \in tracked : snap[s] # "unread") /\ snap' = Unread
    /\ \/ /\ statesFile' = [s \in Servers |-> IF s \in tracked THEN snap[s] ELSE "none"]
          /\ fresh' = {s \in tracked : Settled(s) /\ env[s] = snap[s]}
       \/ UNCHANGED <<statesFile, fresh>>
       \/ statesFile' = Torn /\ fresh' = {}
    /\ UNCHANGED <<dPc, pages, tracked, env, alive, states, boot, crashes, expect>>

-----------------------------------------------------------------------------

Power(s) == CASE env[s] \in {"running", "starting"} -> "up"
              [] env[s] = "offline" -> "down"
              [] OTHER -> "any"

\* What a server was when the daemon died, or, if it had not been brought back by
\* then, what it was to come back as.
Was(s) == IF Settled(s) THEN Power(s) ELSE IF boot[s] = "wait" THEN expect[s] ELSE "any"

\* The daemon dies: by a stop of the service, a panic or a reboot. Without a
\* surviving container the processes die too. A file that is being written is
\* left truncated. What has to come back is read off the server, never the file:
\* a container that lives on; a server that was saved as it was; and, from a
\* truncated file, nothing.
Crash ==
    /\ dPc # "down" /\ crashes < MaxCrashes /\ crashes' = crashes + 1 /\ dPc' = "down"
    /\ alive' \in IF Survive THEN SUBSET alive ELSE {{}}
    /\ statesFile' \in {statesFile} \cup
         IF dPc \in {"boot", "serve"} /\ \A s \in tracked : snap[s] # "unread" THEN {Torn} ELSE {}
    /\ fresh' = IF statesFile' = Torn THEN {} ELSE {s \in fresh : Was(s) # "any"}
    /\ expect' = [s \in Servers |->
         IF s \in alive' THEN "up"
         ELSE IF s \in fresh' \/ (statesFile' = Torn /\ Was(s) = "down") THEN Was(s) ELSE "any"]
    /\ pages' = {} /\ tracked' = {} /\ env' = [s \in Servers |-> "offline"]
    /\ snap' = Unread /\ states' = NoEntry /\ boot' = [s \in Servers |-> "wait"]

DNext ==
    \/ StartDaemon \/ GetServersFails \/ Serve \/ WriteStates \/ Crash
    \/ \E p \in 1 .. LastPage : GetServersPage(p)
    \/ \E broken \in SUBSET Servers : InitServers(broken)
    \/ \E s \in Servers :
         \/ BootSkipped(s) \/ BootStart(s) \/ BootStartFails(s) \/ BootAttach(s)
         \/ BootOffline(s) \/ BootInspectFails(s)
         \/ PowerStart(s) \/ MarkRunning(s) \/ PowerStop(s) \/ ProcessExits(s)
         \/ ReadState(s)

DaemonSpec == DInit /\ [][DNext]_dVars

-----------------------------------------------------------------------------
(* Properties *)

\* After a crash of the daemon at any point, in the middle of a save too, and
\* whatever became of earlier saves, a server comes back as it was then: a
\* container that lives on is attached to; a server that is as the last written
\* save had it runs again if it ran or was starting, and is not started if it was
\* offline; with a truncated file an offline server stays offline. Nothing is said
\* of servers that changed after that save or were stopping, of running ones when
\* the file is truncated, and of those that could not be loaded or started
\* (rootCmdRun, PersistStates, ReadStates).
PowerSurvivesReboot ==
    dPc = "serve" =>
      \A s \in Servers :
        /\ expect[s] = "up" => boot[s] \in {"up", "failed"}
        /\ expect[s] = "down" => boot[s] \in {"down", "failed"}

=============================================================================
