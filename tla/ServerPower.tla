----------------------------- MODULE ServerPower -----------------------------
(***************************************************************************)
(* The server layer over the Windows environment: HandlePowerAction and    *)
(* its lock (server/power.go), the event listener's OnStateChange          *)
(* (server/server.go), crash detection (server/crash.go), the console      *)
(* scanner and the callers that stop a server without the lock             *)
(* (server/listeners.go, server/update.go).  No install, transfer or       *)
(* restore is in progress in this specification.                           *)
(***************************************************************************)
EXTENDS WinProc

CONSTANTS
    Requests,           \* the power actions users may ask for
    DetectCleanExit,    \* System.CrashDetection.DetectCleanExitAsCrash
    CrashTimeout        \* System.CrashDetection.Timeout # 0

ASSUME RequestsAssumption == Requests \subseteq {"start", "stop", "restart", "kill"}
ASSUME CrashAssumption == DetectCleanExit \in BOOLEAN /\ CrashTimeout \in BOOLEAN

VARIABLES
    lock,       \* the goroutine that holds s.powerLock
    res,        \* s.resources.State
    hprev,      \* OnStateChange's prevState
    hst,        \* OnStateChange's st
    lastCrash   \* s.crasher.lastCrash

srvVars == <<lock, res, hprev, hst, lastCrash>>
vars == <<winVars, srvVars>>

Labels ==
    {"idle", "acquire", "guard", "preflight", "release",
     "start", "adopt", "starting", "closejob", "create", "launch", "assign",
     "register", "nohandle", "failstop", "failoff",
     "stop", "stopset", "stopvia", "send", "sendset", "write", "poll",
     "term", "idlestop", "idleoff", "termset", "termjob",
     "prev", "load", "store", "judge", "crash", "crashtime", "crashset",
     "done", "echo"}

\* Every field has its type.
TypeOK ==
    /\ pc \in [Actors -> Labels]
    /\ act \in [Actors -> {"start", "stop", "restart", "kill", "halt"}]
    /\ ret \in [Actors -> {"poll", "preflight", "release"}]
    /\ tjob \in [Actors -> Jobs \cup {None}]
    /\ child \in [Actors -> Procs \cup {None}]
    /\ env \in States /\ res \in States
    /\ job \in Jobs \cup {None}
    /\ cmd \in Procs \cup {None} /\ handle \in Procs \cup {None}
    /\ lastExit \in BOOLEAN
    /\ proc \in [Procs -> ProcStates]
    /\ procJob \in [Procs -> Jobs \cup {None}]
    /\ lock \in Actors \cup {None}
    /\ hprev \in [Actors -> States] /\ hst \in [Actors -> States]
    /\ lastCrash \in {"never", "recent", "old"}

\* A server as New and CreateEnvironment leave it.
Init ==
    /\ pc = [a \in Actors |-> "idle"]
    /\ act = [a \in Actors |-> "start"]
    /\ ret = [a \in Actors |-> "release"]
    /\ tjob = [a \in Actors |-> None]
    /\ child = [a \in Actors |-> None]
    /\ env = "offline" /\ res = "offline"
    /\ job \in Jobs \cup {None}
    /\ cmd = None /\ handle = None /\ lastExit = TRUE
    /\ proc = [p \in Procs |-> "free"]
    /\ procJob = [p \in Procs |-> None]
    /\ lock = None
    /\ hprev = [a \in Actors |-> "offline"]
    /\ hst = [a \in Actors |-> "offline"]
    /\ lastCrash = "never"

-----------------------------------------------------------------------------
(* HandlePowerAction *)

Request(u, r) ==
    /\ pc[u] = "idle"
    /\ pc' = Goto(u, "acquire")
    /\ act' = [act EXCEPT ![u] = r]
    /\ UNCHANGED <<ret, tjob, child, env, job, regVars, osVars, srvVars>>

\* The first label of each case of the switch.
Entry(r) == CASE r = "start" -> "guard"
              [] r = "kill"  -> "term"
              [] OTHER       -> "stop"

\* A plausible mistake: a request goes on when it did not get the lock.
AcquireIgnored(a) ==
    /\ pc[a] = "acquire"
    /\ lock' = IF lock = None THEN a ELSE lock
    /\ pc' = Goto(a, Entry(act[a]))
    /\ UNCHANGED <<localVars, env, job, regVars, osVars, res, hprev, hst, lastCrash>>

\* Acquire, and TryAcquire, which users' requests may give up on at any time.
\* A kill goes on without the lock when it is taken.
AcquireLock(a) ==
    /\ pc[a] = "acquire"
    /\ \/ /\ lock = None
          /\ lock' = a
          /\ pc' = Goto(a, Entry(act[a]))
          /\ UNCHANGED act
       \/ /\ lock # None
          /\ act[a] = "kill"
          /\ pc' = Goto(a, Entry(act[a]))
          /\ UNCHANGED <<lock, act>>
       \/ /\ act[a] # "kill"
          /\ lock # None \/ a \in Users
          /\ pc' = Goto(a, "idle")
          /\ act' = [act EXCEPT ![a] = "start"]
          /\ UNCHANGED lock
    /\ UNCHANGED <<ret, tjob, child, env, job, regVars, osVars,
                   res, hprev, hst, lastCrash>>

\* The deferred cleanup, which only the goroutine that got the lock has; the
\* goroutine's own variables go out of scope.
ReleaseLock(a) ==
    /\ pc[a] = "release"
    /\ lock' = IF lock = a THEN None ELSE lock
    /\ pc' = Goto(a, "idle")
    /\ act' = [act EXCEPT ![a] = "start"]
    /\ ret' = [ret EXCEPT ![a] = "release"]
    /\ tjob' = [tjob EXCEPT ![a] = None]
    /\ UNCHANGED <<child, env, job, regVars, osVars, res, hprev, hst, lastCrash>>

\* A start is refused unless the environment is offline.
GuardStart(a) ==
    /\ pc[a] = "guard"
    /\ pc' = Goto(a, IF env = "offline" THEN "preflight" ELSE "release")
    /\ UNCHANGED <<localVars, env, job, regVars, osVars, srvVars>>

\* onBeforeStart: sync, suspension, platform, disk space, permissions.
Preflight(a) ==
    /\ pc[a] = "preflight"
    /\ \/ pc' = Goto(a, "start")
       \/ "preflight" \in Failures /\ pc' = Goto(a, "release")
    /\ UNCHANGED <<localVars, env, job, regVars, osVars, srvVars>>

\* The disk limiter, or a suspension seen by SyncWithEnvironment, stops a
\* server that is not offline, with a WaitForStop outside the lock.
SpawnStopper(s) ==
    /\ pc[s] = "idle"
    /\ env # "offline"
    /\ pc' = Goto(s, "stop")
    /\ act' = [act EXCEPT ![s] = "halt"]
    /\ UNCHANGED <<ret, tjob, child, env, job, regVars, osVars, srvVars>>

-----------------------------------------------------------------------------
(* OnStateChange and handleServerCrash, in the goroutine of an event; a local *)
(* variable that is not read again is set back.                              *)

LoadPrev(h) ==
    /\ pc[h] = "prev"
    /\ hprev' = [hprev EXCEPT ![h] = res]
    /\ pc' = Goto(h, "load")
    /\ UNCHANGED <<localVars, env, job, regVars, osVars, lock, res, hst, lastCrash>>

LoadState(h) ==
    /\ pc[h] = "load"
    /\ hst' = [hst EXCEPT ![h] = env]
    /\ pc' = Goto(h, "store")
    /\ UNCHANGED <<localVars, env, job, regVars, osVars, lock, res, hprev, lastCrash>>

StoreState(h) ==
    /\ pc[h] = "store"
    /\ res' = hst[h]
    /\ hst' = [hst EXCEPT ![h] = "offline"]
    /\ pc' = Goto(h, "judge")
    /\ UNCHANGED <<localVars, env, job, regVars, osVars, lock, hprev, lastCrash>>

\* The state is read once more to tell a crash; the goroutine that handles
\* the crash takes the place of the one that ends here.
JudgeCrash(h) ==
    /\ pc[h] = "judge"
    /\ pc' = Goto(h, IF hprev[h] \in {"starting", "running"} /\ env = "offline"
                     THEN "crash" ELSE "idle")
    /\ hprev' = [hprev EXCEPT ![h] = "offline"]
    /\ UNCHANGED <<localVars, env, job, regVars, osVars, lock, res, hst, lastCrash>>

\* CrashDetectionEnabled is the panel's to choose for each server at any time.
CrashCheck(h) ==
    /\ pc[h] = "crash"
    /\ \/ /\ env = "offline" /\ (DetectCleanExit \/ ~lastExit)
          /\ pc' = Goto(h, "crashtime")
       \/ pc' = Goto(h, "idle")
    /\ UNCHANGED <<localVars, env, job, regVars, osVars, srvVars>>

CrashTime(h) ==
    /\ pc[h] = "crashtime"
    /\ pc' = Goto(h, IF CrashTimeout /\ lastCrash = "recent" THEN "idle"
                     ELSE "crashset")
    /\ UNCHANGED <<localVars, env, job, regVars, osVars, srvVars>>

CrashRestart(h) ==
    /\ pc[h] = "crashset"
    /\ lastCrash' = "recent"
    /\ act' = [act EXCEPT ![h] = "start"]
    /\ pc' = Goto(h, "acquire")
    /\ UNCHANGED <<ret, tjob, child, env, job, regVars, osVars, lock, res, hprev, hst>>

\* The crash timeout runs out.
Elapse ==
    /\ lastCrash = "recent"
    /\ lastCrash' = "old"
    /\ UNCHANGED <<winVars, lock, res, hprev, hst>>

HandlerStep(h) ==
    \/ LoadPrev(h) \/ LoadState(h) \/ StoreState(h) \/ JudgeCrash(h)
    \/ CrashCheck(h) \/ CrashTime(h) \/ CrashRestart(h)

-----------------------------------------------------------------------------
(* onConsoleOutput: a line of a process that is streamed *)

ConsoleLine(c) ==
    /\ pc[c] = "idle"
    /\ \E p \in Procs : proc[p] # "free" /\ ~Booting(p)
    /\ \/ env = "starting" /\ pc' = Goto(c, "done")
       \/ /\ env \in {"starting", "running"} /\ StopType = "command"
          /\ pc' = Goto(c, "echo")
    /\ UNCHANGED <<localVars, env, job, regVars, osVars, srvVars>>

\* The line marks the end of the boot, or it is the stop command itself.
ConsoleSet(c) ==
    /\ \/ pc[c] = "done" /\ SetState("running", Goto(c, "idle"))
       \/ pc[c] = "echo" /\ SetState("offline", Goto(c, "idle"))
    /\ UNCHANGED <<localVars, job, regVars, osVars, srvVars>>

-----------------------------------------------------------------------------

\* What a goroutine that has begun does next.
Step(a) ==
    \/ AcquireLock(a) \/ ReleaseLock(a) \/ GuardStart(a) \/ Preflight(a)
    \/ (StartStep(a) \/ StopStep(a) \/ TermStep(a)) /\ UNCHANGED srvVars
    \/ HandlerStep(a) \/ ConsoleSet(a)

Waiter(p) == (Reap(p) \/ MarkOffline(p)) /\ UNCHANGED srvVars

Next ==
    \/ \E u \in Users, r \in Requests : Request(u, r)
    \/ \E s \in Stoppers : SpawnStopper(s)
    \/ \E c \in Consoles : ConsoleLine(c)
    \/ \E a \in Actors : Step(a)
    \/ \E p \in Procs : Waiter(p) \/ (Exit(p) /\ UNCHANGED srvVars)
    \/ Elapse

Spec == Init /\ [][Next]_vars

\* Goroutines are scheduled, deadlines expire and processes that are gone are
\* waited for; users, processes and the crash timeout owe nothing.
Fairness ==
    /\ \A a \in Actors : WF_vars(Step(a))
    /\ \A p \in Procs : WF_vars(Waiter(p))

FairSpec == Spec /\ Fairness

-----------------------------------------------------------------------------
(* Properties *)

Exclusive == {"start", "stop", "restart"}

\* A goroutine is inside HandlePowerAction's switch, or a WaitForStop.
Busy(a) ==
    pc[a] \notin {"idle", "acquire", "prev", "load", "store", "judge",
                  "crash", "crashtime", "crashset", "done", "echo"}

InExclusive(a) == Busy(a) /\ act[a] \in Exclusive

\* No two goroutines carry out a start, stop or restart at the same time, kills
\* and unlocked stops notwithstanding (HandlePowerAction's power lock).
MutualExclusion ==
    \A a, b \in Actors : InExclusive(a) /\ InExclusive(b) => a = b

\* The server never has two live processes, however starts, kills, crash
\* restarts and late wait() goroutines interleave (winproc Start).
SingleInstance == \A p, q \in Procs : Alive(p) /\ Alive(q) => p = q

\* The job that Terminate would kill is the job of the registered process, so
\* that a kill that sees the registration reaches the process.
RegisteredInJob ==
    cmd # None /\ Alive(cmd) => job # None /\ procJob[cmd] = job

\* The refinement mapping: a kill may hold the lock too, and is not serial.
Current == IF lock # None /\ InExclusive(lock) THEN lock ELSE None

Live == \E p \in Procs : Alive(p)

Contract == INSTANCE PowerContract WITH current <- Current, live <- Live

\* The detailed system implements the contract: starts, stops and restarts are
\* serial, and only they launch the process, when none is alive.
ImplementsContract == Contract!Spec

\* Whatever a goroutine has begun comes to an end: no stop waits for ever, and
\* the power lock is given back (WaitForStop's deadline, deferred cleanup).
ActionsComplete == \A a \in Actors : pc[a] # "idle" ~> pc[a] = "idle"

\* A process that ended is noticed: the server is reported offline (wait).
ExitNoticed ==
    \A p \in Procs : proc[p] \in {"exited", "killed"} ~> env = "offline"

\* Crash detection is not set off (in an instance whose processes do not end
\* by themselves).
NoCrashHandler == \A h \in Handlers : pc[h] # "crash"

\* A launched process stays registered in e.cmd for as long as it lives.
LiveIsRegistered == \A p \in Procs : Alive(p) /\ ~Booting(p) => cmd = p

=============================================================================
