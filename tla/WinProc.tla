------------------------------- MODULE WinProc -------------------------------
(***************************************************************************)
(* The Windows process environment (environment/winproc): one server's     *)
(* tracked state, its Job Object, the registered process and the steps of  *)
(* Start, Stop, WaitForStop, Terminate and wait() as the goroutines that   *)
(* call them interleave.  Every label in pc is a place where another       *)
(* goroutine can run; what lies between two labels holds e.mu, or touches  *)
(* one shared word.                                                        *)
(***************************************************************************)
EXTENDS Naturals, FiniteSets

CONSTANTS
    Users,      \* goroutines that serve power requests (HTTP, websocket, schedules)
    Stoppers,   \* goroutines that call WaitForStop without the power lock
    Handlers,   \* goroutines the event listener starts, one per event
    Consoles,   \* goroutines running onConsoleOutput, one per console line
    Procs,      \* operating system processes, re-used once reaped
    Jobs,       \* values of a Job Object handle, re-used once closed
    None,       \* nil, and the zero handle
    ExitClean,  \* whether a process that ends by itself exits with code 0
    StopType,   \* the egg's stop configuration: "signal", "command" or ""
    Failures    \* the operating system calls that may fail in this instance

Actors == Users \cup Stoppers \cup Handlers \cup Consoles

States == {"offline", "starting", "running", "stopping"}

ASSUME NoneAssumption == None \notin Actors \cup Procs \cup Jobs
ASSUME StopTypeAssumption == StopType \in {"signal", "command", ""}
ASSUME ExitAssumption == ExitClean \subseteq BOOLEAN
ASSUME FailuresAssumption ==
    Failures \subseteq {"preflight", "create", "launch", "open", "assign",
                        "exit", "write", "terminate"}

VARIABLES
    pc,         \* the next step of each goroutine
    act,        \* the power action a goroutine carries out
    ret,        \* where Terminate returns to
    tjob,       \* Terminate's copy of e.job
    child,      \* the process a goroutine refers to: Start's cmd before it is
                \* registered, or the owner of SendCommand's stdin
    env,        \* e.st
    job,        \* e.job
    cmd,        \* e.cmd (and e.stdin, set and cleared with it)
    handle,     \* e.procHandle
    lastExit,   \* e.lastExit: whether it is the zero exit code
    proc,       \* what the operating system and wait() know of each process
    procJob     \* the Job Object a process belongs to

localVars == <<act, ret, tjob, child>>
regVars   == <<cmd, handle, lastExit>>
osVars    == <<proc, procJob>>
winVars   == <<pc, act, ret, tjob, child, env, job, cmd, handle, lastExit,
               proc, procJob>>

ProcStates == {"free", "alive", "asked", "exited", "killed", "reaped"}

Alive(p) == proc[p] \in {"alive", "asked"}

Goto(a, l) == [pc EXCEPT ![a] = l]

(***************************************************************************)
(* SetState stores a state and publishes it when it differs.  The listener *)
(* hands every event to a goroutine of its own.  npc is pc after the       *)
(* caller's own move; without listeners the event goes nowhere.            *)
(***************************************************************************)
SetState(x, npc) ==
    /\ env' = x
    /\ \/ /\ env = x \/ Handlers = {}
          /\ pc' = npc
       \/ /\ env # x
          /\ \E h \in Handlers : /\ pc[h] = "idle"
                                 /\ pc' = [npc EXCEPT ![h] = "prev"]

\* GetExitCodeProcess on the registered handle says STILL_ACTIVE.
IsRunning == cmd # None /\ handle # None /\ Alive(handle)

\* Every process of a job dies when it is terminated or its handle is closed.
KillJob(j) ==
    proc' = [p \in Procs |-> IF procJob[p] = j /\ Alive(p) THEN "killed"
                                                           ELSE proc[p]]

\* What HandlePowerAction does once the stop, or the kill, came back.
Returned(a) == IF act[a] = "restart" THEN "preflight" ELSE "release"

-----------------------------------------------------------------------------
(* Start *)

StartCheck(a) ==
    /\ pc[a] = "start"
    /\ pc' = Goto(a, IF IsRunning THEN "adopt" ELSE "starting")
    /\ UNCHANGED <<localVars, env, job, regVars, osVars>>

StartAdopt(a) ==
    /\ pc[a] = "adopt"
    /\ SetState("running", Goto(a, "release"))
    /\ UNCHANGED <<localVars, job, regVars, osVars>>

StartStarting(a) ==
    /\ pc[a] = "starting"
    /\ SetState("starting", Goto(a, "closejob"))
    /\ UNCHANGED <<localVars, job, regVars, osVars>>

\* A plausible mistake: the previous job is kept, and what runs in it too.
CloseJobSkipped(a) ==
    /\ pc[a] = "closejob"
    /\ pc' = Goto(a, "create")
    /\ UNCHANGED <<localVars, env, job, regVars, osVars>>

\* Closing the job handle kills whatever still runs in it (KILL_ON_JOB_CLOSE).
CloseJob(a) ==
    /\ pc[a] = "closejob"
    /\ IF job = None THEN UNCHANGED proc ELSE KillJob(job)
    /\ job' = None
    /\ pc' = Goto(a, "create")
    /\ UNCHANGED <<localVars, env, regVars, procJob>>

\* Account, ACL and Job Object; any of them may fail.
Create(a) ==
    /\ pc[a] = "create"
    /\ \/ /\ job' \in (IF job = None THEN Jobs ELSE {job})
          /\ pc' = Goto(a, "launch")
       \/ /\ "create" \in Failures
          /\ pc' = Goto(a, "failstop")
          /\ UNCHANGED job
    /\ UNCHANGED <<localVars, env, regVars, osVars>>

\* From buildCommand to cmd.Start.
Launch(a) ==
    /\ pc[a] = "launch"
    /\ \/ \E p \in Procs :
             /\ proc[p] = "free" /\ \A b \in Actors : child[b] # p
             /\ proc' = [proc EXCEPT ![p] = "alive"]
             /\ child' = [child EXCEPT ![a] = p]
             /\ pc' = Goto(a, "assign")
       \/ /\ "launch" \in Failures
          /\ pc' = Goto(a, "failstop")
          /\ UNCHANGED <<proc, child>>
    /\ UNCHANGED <<act, ret, tjob, env, job, regVars, procJob>>

\* A plausible mistake: the process is never put into the job.
AssignForgotten(a) ==
    /\ pc[a] = "assign"
    /\ pc' = Goto(a, "register")
    /\ UNCHANGED <<localVars, env, job, regVars, osVars>>

\* OpenProcess and AssignProcessToJobObject; Start goes on when they fail.
Assign(a) ==
    /\ pc[a] = "assign"
    /\ \/ /\ procJob' = [procJob EXCEPT ![child[a]] = job]
          /\ pc' = Goto(a, "register")
       \/ /\ "assign" \in Failures
          /\ pc' = Goto(a, "register")
          /\ UNCHANGED procJob
       \/ /\ "open" \in Failures
          /\ pc' = Goto(a, "nohandle")
          /\ UNCHANGED procJob
    /\ UNCHANGED <<localVars, env, job, regVars, proc>>

\* The fields are set under e.mu and the goroutine that waits is started.
Register(a) ==
    /\ pc[a] \in {"register", "nohandle"}
    /\ cmd' = child[a]
    /\ handle' = IF pc[a] = "register" THEN child[a] ELSE None
    /\ child' = [child EXCEPT ![a] = None]
    /\ pc' = Goto(a, "release")
    /\ UNCHANGED <<act, ret, tjob, env, job, lastExit, osVars>>

\* The deferred function of a Start that failed.
StartFailed(a) ==
    /\ \/ pc[a] = "failstop" /\ SetState("stopping", Goto(a, "failoff"))
       \/ pc[a] = "failoff"  /\ SetState("offline", Goto(a, "release"))
    /\ UNCHANGED <<localVars, job, regVars, osVars>>

StartStep(a) ==
    \/ StartCheck(a) \/ StartAdopt(a) \/ StartStarting(a) \/ CloseJob(a)
    \/ Create(a) \/ Launch(a) \/ Assign(a) \/ Register(a) \/ StartFailed(a)

-----------------------------------------------------------------------------
(* WaitForStop, and the Stop it begins with *)

StopCheck(a) ==
    /\ pc[a] = "stop"
    /\ pc' = Goto(a, IF env = "offline" THEN "stopvia" ELSE "stopset")
    /\ UNCHANGED <<localVars, env, job, regVars, osVars>>

StopSet(a) ==
    /\ pc[a] = "stopset"
    /\ SetState("stopping", Goto(a, "stopvia"))
    /\ UNCHANGED <<localVars, job, regVars, osVars>>

StopVia(a) ==
    /\ pc[a] = "stopvia"
    /\ IF StopType = "command" /\ cmd # None
         THEN /\ pc' = Goto(a, "send")
              /\ UNCHANGED ret
         ELSE /\ pc' = Goto(a, "term")
              /\ ret' = [ret EXCEPT ![a] = "poll"]
    /\ UNCHANGED <<act, tjob, child, env, job, regVars, osVars>>

\* SendCommand with the stop command: read stdin under e.mu ...
SendCommand(a) ==
    /\ pc[a] = "send"
    /\ \/ /\ cmd # None
          /\ pc' = Goto(a, "sendset")
          /\ child' = [child EXCEPT ![a] = cmd]
       \/ /\ cmd = None
          /\ pc' = Goto(a, "release")
          /\ UNCHANGED child
    /\ UNCHANGED <<act, ret, tjob, env, job, regVars, osVars>>

\* ... then set the state, whatever became of the process meanwhile.
SendSet(a) ==
    /\ pc[a] = "sendset"
    /\ SetState("stopping", Goto(a, "write"))
    /\ UNCHANGED <<localVars, job, regVars, osVars>>

\* stdin.Write: it fails on the pipe of a process that is gone, and on one
\* that wait() closed.
WriteStdin(a) ==
    /\ pc[a] = "write"
    /\ \/ /\ Alive(child[a])
          /\ proc' = [proc EXCEPT ![child[a]] = "asked"]
          /\ pc' = Goto(a, "poll")
       \/ /\ ~Alive(child[a]) \/ cmd # child[a] \/ "write" \in Failures
          /\ pc' = Goto(a, "release")
          /\ UNCHANGED proc
    /\ child' = [child EXCEPT ![a] = None]
    /\ UNCHANGED <<act, ret, tjob, env, job, regVars, procJob>>

\* A plausible mistake: the poll has no deadline.
PollForever(a) ==
    /\ pc[a] = "poll"
    /\ ~IsRunning
    /\ pc' = Goto(a, Returned(a))
    /\ UNCHANGED <<localVars, env, job, regVars, osVars>>

\* One turn of the poll: the process is gone, or the deadline has passed.
Poll(a) ==
    /\ pc[a] = "poll"
    /\ \/ /\ ~IsRunning
          /\ pc' = Goto(a, Returned(a))
          /\ UNCHANGED ret
       \/ /\ pc' = Goto(a, "term")
          /\ ret' = [ret EXCEPT ![a] = Returned(a)]
    /\ UNCHANGED <<act, tjob, child, env, job, regVars, osVars>>

StopStep(a) ==
    \/ StopCheck(a) \/ StopSet(a) \/ StopVia(a) \/ SendCommand(a)
    \/ SendSet(a) \/ WriteStdin(a) \/ Poll(a)

-----------------------------------------------------------------------------
(* Terminate *)

TermRead(a) ==
    /\ pc[a] = "term"
    /\ tjob' = [tjob EXCEPT ![a] = job]
    /\ pc' = Goto(a, IF cmd # None THEN "termset"
                     ELSE IF env # "offline" THEN "idlestop" ELSE ret[a])
    /\ UNCHANGED <<act, ret, child, env, job, regVars, osVars>>

\* Nothing is registered: only the state is brought back to offline.
TermIdle(a) ==
    /\ \/ pc[a] = "idlestop" /\ SetState("stopping", Goto(a, "idleoff"))
       \/ pc[a] = "idleoff"  /\ SetState("offline", Goto(a, ret[a]))
    /\ UNCHANGED <<localVars, job, regVars, osVars>>

TermSet(a) ==
    /\ pc[a] = "termset"
    /\ SetState("stopping", Goto(a, "termjob"))
    /\ UNCHANGED <<localVars, job, regVars, osVars>>

\* TerminateJobObject on the copied handle: a closed handle is an error, a
\* re-used one is the new job.
TermJob(a) ==
    /\ pc[a] = "termjob"
    /\ \/ /\ tjob[a] = None
          /\ pc' = Goto(a, ret[a])
          /\ UNCHANGED proc
       \/ /\ tjob[a] # None
          /\ tjob[a] = job
          /\ KillJob(job)
          /\ pc' = Goto(a, ret[a])
       \/ /\ tjob[a] # None
          /\ tjob[a] # job \/ "terminate" \in Failures
          /\ pc' = Goto(a, "release")
          /\ UNCHANGED proc
    /\ UNCHANGED <<localVars, env, job, regVars, procJob>>

TermStep(a) == TermRead(a) \/ TermIdle(a) \/ TermSet(a) \/ TermJob(a)

-----------------------------------------------------------------------------
(* The process, and the goroutine that waits for it *)

Exit(p) ==
    /\ \/ proc[p] = "asked"
       \/ proc[p] = "alive" /\ "exit" \in Failures
    /\ proc' = [proc EXCEPT ![p] = "exited"]
    /\ UNCHANGED <<pc, localVars, env, job, regVars, procJob>>

\* Start has not registered p yet, so that wait(p) does not run.
Booting(p) == \E a \in Actors : pc[a] \in {"assign", "register", "nohandle"}
                                /\ child[a] = p

\* wait(p) under e.mu: it clears the registration, whose ever it is.  A
\* process that was killed did not exit with code 0.
Reap(p) ==
    /\ proc[p] \in {"exited", "killed"}
    /\ ~Booting(p)
    /\ proc' = [proc EXCEPT ![p] = "reaped"]
    /\ lastExit' \in (IF proc[p] = "killed" THEN {FALSE} ELSE ExitClean)
    /\ cmd' = None
    /\ handle' = None
    /\ UNCHANGED <<pc, localVars, env, job, procJob>>

\* A plausible mistake: the process is reaped and the state left as it was.
MarkNothing(p) ==
    /\ proc[p] = "reaped"
    /\ proc' = [proc EXCEPT ![p] = "free"]
    /\ procJob' = [procJob EXCEPT ![p] = None]
    /\ UNCHANGED <<pc, localVars, env, job, regVars>>

\* wait(p), after e.mu is released.
MarkOffline(p) ==
    /\ proc[p] = "reaped"
    /\ proc' = [proc EXCEPT ![p] = "free"]
    /\ procJob' = [procJob EXCEPT ![p] = None]
    /\ SetState("offline", pc)
    /\ UNCHANGED <<localVars, job, regVars>>

=============================================================================
