-------------------------- MODULE ServerPowerProofs --------------------------
(***************************************************************************)
(* Proofs about ServerPower for every set of goroutines, processes and job *)
(* handles: type correctness, mutual exclusion of the power actions, the   *)
(* single instance of the server process, and the contract.                *)
(***************************************************************************)
EXTENDS ServerPower, TLAPS

StartLabels ==
    {"guard", "preflight", "start", "adopt", "starting", "closejob", "create",
     "launch", "assign", "register", "nohandle", "failstop", "failoff"}

\* The lock is held by whoever carries out a start, stop or restart; Start is
\* only reached from a start or a restart.
LockInv ==
    /\ \A a \in Actors : InExclusive(a) => lock = a
    /\ \A a \in Actors : pc[a] \in StartLabels => act[a] \in {"start", "restart"}
    /\ \A a \in Actors : ret[a] = "preflight" => act[a] = "restart"
    /\ \A a \in Actors : ~Busy(a) => ret[a] = "release"
    /\ lock # None => Busy(lock)

IInv == TypeOK /\ LockInv

-----------------------------------------------------------------------------

(* A freshly created server satisfies the invariant. *)
LEMMA InitIInv == Init => IInv
  BY NoneAssumption DEF Init, IInv, TypeOK, LockInv, Actors, States, Labels, ProcStates,
     StartLabels, InExclusive, Busy, Exclusive

(* What SetState does to the goroutines besides its caller. *)
LEMMA SetStateFrame ==
  ASSUME TypeOK, NEW a \in Actors, NEW x \in States, NEW l \in Labels,
         pc[a] # "idle", SetState(x, Goto(a, l))
  PROVE  /\ env' \in States
         /\ pc' \in [Actors -> Labels]
         /\ pc'[a] = l
         /\ \A b \in Actors \ {a} :
              pc'[b] = pc[b] \/ (pc[b] = "idle" /\ pc'[b] = "prev")
  BY DEF TypeOK, SetState, Goto, Labels, Actors

(* The definitions that a step's effect on IInv is read from. *)
USE DEF IInv, TypeOK, LockInv, Labels, States, ProcStates, StartLabels, InExclusive, Busy,
        Exclusive, Goto, localVars, regVars, osVars, srvVars, winVars

(* Every step of a goroutine keeps types and lock ownership. *)
LEMMA StepIInv ==
  ASSUME IInv, NEW a \in Actors, Step(a) PROVE IInv'
  <1>1. CASE AcquireLock(a)
    BY <1>1, NoneAssumption DEF AcquireLock, Entry, Actors
  <1>2. CASE ReleaseLock(a)
    BY <1>2, NoneAssumption DEF ReleaseLock, Entry, Actors
  <1>3. CASE GuardStart(a)
    BY <1>3, NoneAssumption DEF GuardStart, Entry, Actors
  <1>4. CASE Preflight(a)
    BY <1>4, NoneAssumption DEF Preflight, Entry, Actors
  <1>5. CASE LoadPrev(a)
    BY <1>5, NoneAssumption DEF LoadPrev, Entry, Actors
  <1>6. CASE LoadState(a)
    BY <1>6, NoneAssumption DEF LoadState, Entry, Actors
  <1>7. CASE StoreState(a)
    BY <1>7, NoneAssumption DEF StoreState, Entry, Actors
  <1>8. CASE JudgeCrash(a)
    BY <1>8, NoneAssumption DEF JudgeCrash, Entry, Actors
  <1>9. CASE CrashCheck(a)
    BY <1>9, NoneAssumption DEF CrashCheck, Entry, Actors
  <1>10. CASE CrashTime(a)
    BY <1>10, NoneAssumption DEF CrashTime, Entry, Actors
  <1>11. CASE CrashRestart(a)
    BY <1>11, NoneAssumption DEF CrashRestart, Entry, Actors
  <1>12. CASE StartCheck(a) /\ UNCHANGED srvVars
    BY <1>12 DEF StartCheck, Returned, KillJob
  <1>13. CASE CloseJob(a) /\ UNCHANGED srvVars
    BY <1>13 DEF CloseJob, Returned, KillJob
  <1>14. CASE Create(a) /\ UNCHANGED srvVars
    BY <1>14 DEF Create, Returned, KillJob
  <1>15. CASE Launch(a) /\ UNCHANGED srvVars
    BY <1>15 DEF Launch, Returned, KillJob
  <1>16. CASE Assign(a) /\ UNCHANGED srvVars
    BY <1>16 DEF Assign, Returned, KillJob
  <1>17. CASE Register(a) /\ UNCHANGED srvVars
    BY <1>17 DEF Register, Returned, KillJob
  <1>18. CASE StopCheck(a) /\ UNCHANGED srvVars
    BY <1>18 DEF StopCheck, Returned, KillJob
  <1>19. CASE StopVia(a) /\ UNCHANGED srvVars
    BY <1>19 DEF StopVia, Returned, KillJob
  <1>20. CASE WriteStdin(a) /\ UNCHANGED srvVars
    BY <1>20 DEF WriteStdin, Returned, KillJob
  <1>21. CASE Poll(a) /\ UNCHANGED srvVars
    BY <1>21 DEF Poll, Returned, KillJob
  <1>22. CASE TermRead(a) /\ UNCHANGED srvVars
    BY <1>22 DEF TermRead, Returned, KillJob
  <1>23. CASE TermJob(a) /\ UNCHANGED srvVars
    BY <1>23 DEF TermJob, Returned, KillJob
  <1>24. CASE StartAdopt(a) /\ UNCHANGED srvVars
    <2>1. pc[a] # "idle" /\ SetState("running", Goto(a, "release"))
      BY <1>24 DEF StartAdopt
    <2>2. /\ env' \in States /\ pc' \in [Actors -> Labels] /\ pc'[a] = "release"
          /\ \A b \in Actors \ {a} :
               pc'[b] = pc[b] \/ (pc[b] = "idle" /\ pc'[b] = "prev")
      BY <2>1, SetStateFrame
    <2> QED
      BY <1>24, <2>2 DEF StartAdopt
  <1>25. CASE StartStarting(a) /\ UNCHANGED srvVars
    <2>1. pc[a] # "idle" /\ SetState("starting", Goto(a, "closejob"))
      BY <1>25 DEF StartStarting
    <2>2. /\ env' \in States /\ pc' \in [Actors -> Labels] /\ pc'[a] = "closejob"
          /\ \A b \in Actors \ {a} :
               pc'[b] = pc[b] \/ (pc[b] = "idle" /\ pc'[b] = "prev")
      BY <2>1, SetStateFrame
    <2> QED
      BY <1>25, <2>2 DEF StartStarting
  <1>26. CASE StartFailed(a) /\ UNCHANGED srvVars
    <2>1. CASE pc[a] = "failstop"
      <3>1. SetState("stopping", Goto(a, "failoff"))
        BY <1>26, <2>1 DEF StartFailed
      <3>2. /\ env' \in States /\ pc' \in [Actors -> Labels] /\ pc'[a] = "failoff"
            /\ \A b \in Actors \ {a} :
                 pc'[b] = pc[b] \/ (pc[b] = "idle" /\ pc'[b] = "prev")
        BY <3>1, <2>1, SetStateFrame
      <3> QED
        BY <1>26, <2>1, <3>2 DEF StartFailed
    <2>2. CASE pc[a] = "failoff"
      <3>1. SetState("offline", Goto(a, "release"))
        BY <1>26, <2>2 DEF StartFailed
      <3>2. /\ env' \in States /\ pc' \in [Actors -> Labels] /\ pc'[a] = "release"
            /\ \A b \in Actors \ {a} :
                 pc'[b] = pc[b] \/ (pc[b] = "idle" /\ pc'[b] = "prev")
        BY <3>1, <2>2, SetStateFrame
      <3> QED
        BY <1>26, <2>2, <3>2 DEF StartFailed
    <2> QED
      BY <1>26, <2>1, <2>2 DEF StartFailed
  <1>27. CASE StopSet(a) /\ UNCHANGED srvVars
    <2>1. pc[a] # "idle" /\ SetState("stopping", Goto(a, "stopvia"))
      BY <1>27 DEF StopSet
    <2>2. /\ env' \in States /\ pc' \in [Actors -> Labels] /\ pc'[a] = "stopvia"
          /\ \A b \in Actors \ {a} :
               pc'[b] = pc[b] \/ (pc[b] = "idle" /\ pc'[b] = "prev")
      BY <2>1, SetStateFrame
    <2> QED
      BY <1>27, <2>2 DEF StopSet
  <1>28. CASE SendCommand(a) /\ UNCHANGED srvVars
    BY <1>28 DEF SendCommand
  <1>32. CASE SendSet(a) /\ UNCHANGED srvVars
    <2>1. pc[a] # "idle" /\ SetState("stopping", Goto(a, "write"))
      BY <1>32 DEF SendSet
    <2>2. /\ env' \in States /\ pc' \in [Actors -> Labels] /\ pc'[a] = "write"
          /\ \A b \in Actors \ {a} :
               pc'[b] = pc[b] \/ (pc[b] = "idle" /\ pc'[b] = "prev")
      BY <2>1, SetStateFrame
    <2> QED
      BY <1>32, <2>2 DEF SendSet
  <1>29. CASE TermIdle(a) /\ UNCHANGED srvVars
    <2>1. CASE pc[a] = "idlestop"
      <3>1. SetState("stopping", Goto(a, "idleoff"))
        BY <1>29, <2>1 DEF TermIdle
      <3>2. /\ env' \in States /\ pc' \in [Actors -> Labels] /\ pc'[a] = "idleoff"
            /\ \A b \in Actors \ {a} :
                 pc'[b] = pc[b] \/ (pc[b] = "idle" /\ pc'[b] = "prev")
        BY <3>1, <2>1, SetStateFrame
      <3> QED
        BY <1>29, <2>1, <3>2 DEF TermIdle
    <2>2. CASE pc[a] = "idleoff"
      <3>1. SetState("offline", Goto(a, ret[a]))
        BY <1>29, <2>2 DEF TermIdle
      <3>2. /\ env' \in States /\ pc' \in [Actors -> Labels] /\ pc'[a] = ret[a]
            /\ \A b \in Actors \ {a} :
                 pc'[b] = pc[b] \/ (pc[b] = "idle" /\ pc'[b] = "prev")
        <4>1. ret[a] \in Labels
          OBVIOUS
        <4> QED
          BY <3>1, <2>2, <4>1 DEF SetState, Actors
      <3> QED
        BY <1>29, <2>2, <3>2 DEF TermIdle
    <2> QED
      BY <1>29, <2>1, <2>2 DEF TermIdle
  <1>30. CASE TermSet(a) /\ UNCHANGED srvVars
    <2>1. pc[a] # "idle" /\ SetState("stopping", Goto(a, "termjob"))
      BY <1>30 DEF TermSet
    <2>2. /\ env' \in States /\ pc' \in [Actors -> Labels] /\ pc'[a] = "termjob"
          /\ \A b \in Actors \ {a} :
               pc'[b] = pc[b] \/ (pc[b] = "idle" /\ pc'[b] = "prev")
      BY <2>1, SetStateFrame
    <2> QED
      BY <1>30, <2>2 DEF TermSet
  <1>31. CASE ConsoleSet(a)
    <2>1. CASE pc[a] = "done"
      <3>1. SetState("running", Goto(a, "idle"))
        BY <1>31, <2>1 DEF ConsoleSet
      <3>2. /\ env' \in States /\ pc' \in [Actors -> Labels] /\ pc'[a] = "idle"
            /\ \A b \in Actors \ {a} :
                 pc'[b] = pc[b] \/ (pc[b] = "idle" /\ pc'[b] = "prev")
        BY <3>1, <2>1, SetStateFrame
      <3> QED
        BY <1>31, <2>1, <3>2 DEF ConsoleSet
    <2>2. CASE pc[a] = "echo"
      <3>1. SetState("offline", Goto(a, "idle"))
        BY <1>31, <2>2 DEF ConsoleSet
      <3>2. /\ env' \in States /\ pc' \in [Actors -> Labels] /\ pc'[a] = "idle"
            /\ \A b \in Actors \ {a} :
                 pc'[b] = pc[b] \/ (pc[b] = "idle" /\ pc'[b] = "prev")
        BY <3>1, <2>2, SetStateFrame
      <3> QED
        BY <1>31, <2>2, <3>2 DEF ConsoleSet
    <2> QED
      BY <1>31, <2>1, <2>2 DEF ConsoleSet
  <1> QED
    BY <1>1, <1>2, <1>3, <1>4, <1>5, <1>6, <1>7, <1>8, <1>9, <1>10, <1>11, <1>12, <1>13, <1>14, <1>15, <1>16, <1>17, <1>18, <1>19, <1>20, <1>21, <1>22, <1>23, <1>24, <1>25, <1>26, <1>27, <1>28, <1>29, <1>30, <1>31, <1>32 DEF Step, StartStep, StopStep, TermStep, HandlerStep

(* wait() keeps them too: it takes no part in the lock. *)
LEMMA WaiterIInv ==
  ASSUME IInv, NEW p \in Procs, Waiter(p) PROVE IInv'
  <1>1. CASE Reap(p) /\ UNCHANGED srvVars
    BY <1>1, ExitAssumption DEF Reap
  <1>2. CASE MarkOffline(p) /\ UNCHANGED srvVars
    BY <1>2 DEF MarkOffline, SetState, Actors
  <1> QED
    BY <1>1, <1>2 DEF Waiter

(* The invariant of types and of the lock is inductive. *)
LEMMA NextIInv == IInv /\ [Next]_vars => IInv'
  <1> SUFFICES ASSUME IInv, [Next]_vars PROVE IInv'
    OBVIOUS
  <1>1. ASSUME NEW u \in Users, NEW r \in Requests, Request(u, r) PROVE IInv'
    BY <1>1, RequestsAssumption DEF Request, Actors
  <1>2. ASSUME NEW s \in Stoppers, SpawnStopper(s) PROVE IInv'
    BY <1>2 DEF SpawnStopper, Actors
  <1>3. ASSUME NEW c \in Consoles, ConsoleLine(c) PROVE IInv'
    BY <1>3 DEF ConsoleLine, Actors
  <1>4. ASSUME NEW a \in Actors, Step(a) PROVE IInv'
    BY <1>4, StepIInv
  <1>5. ASSUME NEW p \in Procs, Waiter(p) PROVE IInv'
    BY <1>5, WaiterIInv
  <1>6. ASSUME NEW p \in Procs, Exit(p), UNCHANGED srvVars PROVE IInv'
    BY <1>6 DEF Exit
  <1>7. CASE Elapse
    BY <1>7 DEF Elapse
  <1>8. CASE UNCHANGED vars
    BY <1>8 DEF vars
  <1> QED
    BY <1>1, <1>2, <1>3, <1>4, <1>5, <1>6, <1>7, <1>8 DEF Next

(* Every field of the server and of its environment keeps its type, whatever *)
(* the goroutines, processes and job handles are.                            *)
THEOREM TypeCorrect == Spec => []TypeOK
  <1>1. IInv => TypeOK
    OBVIOUS
  <1> QED
    BY <1>1, InitIInv, NextIInv, PTL DEF Spec

(* HandlePowerAction carries out one start, stop or restart at a time: kills, *)
(* unlocked stops and crash restarts never break into the power lock.         *)
THEOREM PowerActionsExclude == Spec => []MutualExclusion
  <1>1. IInv => MutualExclusion
    BY DEF MutualExclusion
  <1> QED
    BY <1>1, InitIInv, NextIInv, PTL DEF Spec

-----------------------------------------------------------------------------
(* The single instance of the server process *)

Present(p) == proc[p] \in {"alive", "asked", "exited", "killed"}

\* While Start replaces the job nothing is alive; from the launch on, only the
\* process it launched is; whatever is alive otherwise is in the current job.
ProcInv ==
    /\ \A a \in Actors : pc[a] # "nohandle"
    /\ \A a \in Actors : pc[a] \in {"launch", "assign", "register"} => job # None
    /\ \A a \in Actors : pc[a] \in {"create", "launch"} => \A p \in Procs : ~Alive(p)
    /\ \A a \in Actors : pc[a] \in {"assign", "register"} =>
         /\ child[a] \in Procs /\ Present(child[a]) /\ cmd # child[a]
         /\ \A p \in Procs : Alive(p) => p = child[a]
    /\ \A a \in Actors : pc[a] = "register" => procJob[child[a]] = job
    /\ \A p \in Procs : Alive(p) =>
         \/ job # None /\ procJob[p] = job
         \/ \E a \in Actors : pc[a] = "assign" /\ child[a] = p
    /\ cmd # None => Present(cmd)
    /\ SingleInstance

(* Only one goroutine at a time is inside Start. *)
LEMMA OneStarter ==
  ASSUME IInv, NEW a \in Actors, NEW b \in Actors,
         pc[a] \in StartLabels, pc[b] \in StartLabels
  PROVE  a = b
  OBVIOUS

(* No process exists yet. *)
LEMMA InitProcInv == Init => ProcInv
  BY DEF Init, ProcInv, Alive, Present, SingleInstance

(* A step that touches neither processes nor registration, and moves the     *)
(* goroutine to a label that says nothing of them, keeps the invariant.      *)
LEMMA QuietProcInv ==
  ASSUME IInv, ProcInv, NEW a \in Actors,
         UNCHANGED <<job, cmd, proc, procJob>>,
         \A b \in Actors \ {a} : child'[b] = child[b],
         pc[a] \notin {"assign", "register"},
         pc'[a] \notin {"nohandle", "create", "launch", "assign", "register"},
         \A b \in Actors \ {a} :
            pc'[b] = pc[b] \/ (pc[b] = "idle" /\ pc'[b] = "prev")
  PROVE  ProcInv'
  BY DEF ProcInv, Alive, Present, SingleInstance

(* Every step of a goroutine keeps it: the lock leaves one Start at a time. *)
LEMMA StepProcInv ==
  ASSUME IInv, ProcInv, IInv', NEW a \in Actors, Step(a),
         {"open", "assign"} \cap Failures = {}
  PROVE  ProcInv'
  <1>1. CASE AcquireLock(a)
    BY <1>1, QuietProcInv DEF AcquireLock, Entry
  <1>2. CASE ReleaseLock(a)
    BY <1>2, QuietProcInv DEF ReleaseLock
  <1>3. CASE GuardStart(a)
    BY <1>3, QuietProcInv DEF GuardStart
  <1>4. CASE Preflight(a)
    BY <1>4, QuietProcInv DEF Preflight
  <1>5. CASE LoadPrev(a)
    BY <1>5, QuietProcInv DEF LoadPrev
  <1>6. CASE LoadState(a)
    BY <1>6, QuietProcInv DEF LoadState
  <1>7. CASE StoreState(a)
    BY <1>7, QuietProcInv DEF StoreState
  <1>8. CASE JudgeCrash(a)
    BY <1>8, QuietProcInv DEF JudgeCrash
  <1>9. CASE CrashCheck(a)
    BY <1>9, QuietProcInv DEF CrashCheck
  <1>10. CASE CrashTime(a)
    BY <1>10, QuietProcInv DEF CrashTime
  <1>11. CASE CrashRestart(a)
    BY <1>11, QuietProcInv DEF CrashRestart
  <1>12. CASE StartCheck(a) /\ UNCHANGED srvVars
    BY <1>12, QuietProcInv DEF StartCheck
  <1>13. CASE StopCheck(a) /\ UNCHANGED srvVars
    BY <1>13, QuietProcInv DEF StopCheck
  <1>14. CASE StopVia(a) /\ UNCHANGED srvVars
    BY <1>14, QuietProcInv DEF StopVia
  <1>15. CASE Poll(a) /\ UNCHANGED srvVars
    BY <1>15, QuietProcInv DEF Poll, Returned
  <1>16. CASE TermRead(a) /\ UNCHANGED srvVars
    BY <1>16, QuietProcInv DEF TermRead
  <1>17. CASE StartAdopt(a) /\ UNCHANGED srvVars
    BY <1>17, QuietProcInv DEF StartAdopt, SetState, Actors
  <1>18. CASE StartStarting(a) /\ UNCHANGED srvVars
    BY <1>18, QuietProcInv DEF StartStarting, SetState, Actors
  <1>19. CASE StartFailed(a) /\ UNCHANGED srvVars
    BY <1>19, QuietProcInv DEF StartFailed, SetState, Actors
  <1>20. CASE StopSet(a) /\ UNCHANGED srvVars
    BY <1>20, QuietProcInv DEF StopSet, SetState, Actors
  <1>21. CASE TermIdle(a) /\ UNCHANGED srvVars
    BY <1>21, QuietProcInv DEF TermIdle, SetState, Actors
  <1>22. CASE TermSet(a) /\ UNCHANGED srvVars
    BY <1>22, QuietProcInv DEF TermSet, SetState, Actors
  <1>23. CASE SendCommand(a) /\ UNCHANGED srvVars
    BY <1>23, QuietProcInv DEF SendCommand
  <1>32. CASE SendSet(a) /\ UNCHANGED srvVars
    BY <1>32, QuietProcInv DEF SendSet, SetState, Actors
  <1>24. CASE ConsoleSet(a)
    BY <1>24, QuietProcInv DEF ConsoleSet, SetState, Actors
  <1>25. CASE CloseJob(a) /\ UNCHANGED srvVars
    BY <1>25, OneStarter, NoneAssumption DEF CloseJob, ProcInv, Alive, Present, SingleInstance, KillJob
  <1>26. CASE Create(a) /\ UNCHANGED srvVars
    BY <1>26, OneStarter, NoneAssumption DEF Create, ProcInv, Alive, Present, SingleInstance
  <1>27. CASE Launch(a) /\ UNCHANGED srvVars
    BY <1>27, OneStarter, NoneAssumption DEF Launch, ProcInv, Alive, Present, SingleInstance
  <1>28. CASE Assign(a) /\ UNCHANGED srvVars
    BY <1>28, OneStarter, NoneAssumption DEF Assign, ProcInv, Alive, Present, SingleInstance
  <1>29. CASE Register(a) /\ UNCHANGED srvVars
    BY <1>29, OneStarter, NoneAssumption DEF Register, ProcInv, Alive, Present, SingleInstance
  <1>30. CASE WriteStdin(a) /\ UNCHANGED srvVars
    BY <1>30, OneStarter, NoneAssumption DEF WriteStdin, ProcInv, Alive, Present, SingleInstance
  <1>31. CASE TermJob(a) /\ UNCHANGED srvVars
    BY <1>31, OneStarter, NoneAssumption DEF TermJob, ProcInv, Alive, Present, SingleInstance, KillJob
  <1> QED
    BY <1>1, <1>2, <1>3, <1>4, <1>5, <1>6, <1>7, <1>8, <1>9, <1>10, <1>11, <1>12, <1>13, <1>14, <1>15, <1>16, <1>17, <1>18, <1>19, <1>20, <1>21, <1>22, <1>23, <1>24, <1>25, <1>26, <1>27, <1>28, <1>29, <1>30, <1>31, <1>32 DEF Step, StartStep, StopStep, TermStep, HandlerStep

(* A late wait() may clear a registration, but revives and re-assigns nothing. *)
LEMMA WaiterProcInv ==
  ASSUME IInv, ProcInv, NEW p \in Procs, Waiter(p) \/ (Exit(p) /\ UNCHANGED srvVars)
  PROVE  ProcInv'
  <1>1. CASE Reap(p) /\ UNCHANGED srvVars
    BY <1>1, NoneAssumption DEF Reap, Booting, ProcInv, Alive, Present, SingleInstance
  <1>2. CASE MarkOffline(p) /\ UNCHANGED srvVars
    BY <1>2 DEF MarkOffline, SetState, Actors, ProcInv, Alive, Present, SingleInstance
  <1>3. CASE Exit(p) /\ UNCHANGED srvVars
    BY <1>3 DEF Exit, ProcInv, Alive, Present, SingleInstance
  <1> QED
    BY <1>1, <1>2, <1>3 DEF Waiter

(* The invariant of the processes is inductive relative to that of the lock. *)
LEMMA NextProcInv ==
  ASSUME {"open", "assign"} \cap Failures = {}
  PROVE  IInv /\ ProcInv /\ [Next]_vars => ProcInv'
  <1> SUFFICES ASSUME IInv, ProcInv, [Next]_vars PROVE ProcInv'
    OBVIOUS
  <1>0. IInv'
    BY NextIInv
  <1>1. ASSUME NEW u \in Users, NEW r \in Requests, Request(u, r) PROVE ProcInv'
    BY <1>1, QuietProcInv DEF Request, Actors
  <1>2. ASSUME NEW s \in Stoppers, SpawnStopper(s) PROVE ProcInv'
    BY <1>2, QuietProcInv DEF SpawnStopper, Actors
  <1>3. ASSUME NEW c \in Consoles, ConsoleLine(c) PROVE ProcInv'
    BY <1>3, QuietProcInv DEF ConsoleLine, Actors
  <1>4. ASSUME NEW a \in Actors, Step(a) PROVE ProcInv'
    BY <1>0, <1>4, StepProcInv
  <1>5. ASSUME NEW p \in Procs, Waiter(p) \/ (Exit(p) /\ UNCHANGED srvVars)
        PROVE  ProcInv'
    BY <1>5, WaiterProcInv
  <1>6. CASE Elapse
    BY <1>6 DEF Elapse, ProcInv, Alive, Present, SingleInstance
  <1>7. CASE UNCHANGED vars
    BY <1>7 DEF vars, ProcInv, Alive, Present, SingleInstance
  <1> QED
    BY <1>1, <1>2, <1>3, <1>4, <1>5, <1>6, <1>7 DEF Next

(* Provided that processes can be opened and assigned to their job, Start      *)
(* never leaves two server processes alive.                                   *)
THEOREM OneInstance ==
  ASSUME {"open", "assign"} \cap Failures = {}
  PROVE  Spec => []SingleInstance
  <1>1. ProcInv => SingleInstance
    BY DEF ProcInv
  <1> QED
    BY <1>1, InitIInv, NextIInv, InitProcInv, NextProcInv, PTL DEF Spec

(* Under the same proviso, the job Terminate kills is that of the registered   *)
(* process.                                                                   *)
THEOREM KillReachesRegistered ==
  ASSUME {"open", "assign"} \cap Failures = {}
  PROVE  Spec => []RegisteredInJob
  <1>1. IInv /\ ProcInv => RegisteredInJob
    BY NoneAssumption DEF ProcInv, RegisteredInJob, Alive
  <1> QED
    BY <1>1, InitIInv, NextIInv, InitProcInv, NextProcInv, PTL DEF Spec

-----------------------------------------------------------------------------
(* The contract *)

(* A step that leaves the lock alone and keeps its owner in its action does   *)
(* not change who carries out an exclusive action.                           *)
LEMMA CurrentSame ==
  ASSUME IInv, NEW a \in Actors, UNCHANGED lock,
         lock = a => act'[a] = act[a] /\ Busy(a)',
         \A b \in Actors \ {a} :
            /\ act'[b] = act[b]
            /\ pc'[b] = pc[b] \/ (pc[b] = "idle" /\ pc'[b] = "prev")
  PROVE  Current' = Current
  BY DEF Current

(* Current stays and no process appears: the contract stutters, or the       *)
(* process dies.                                                             *)
LEMMA StutterOrDie ==
  ASSUME Current' = Current, \A p \in Procs : Alive(p)' => Alive(p)
  PROVE  [Contract!Next]_<<Current, Live>>
  <1>1. Live' => Live
    BY DEF Live
  <1> QED
    BY <1>1 DEF Contract!Next, Contract!Die, Live

(* A goroutine that is not busy does not hold the lock. *)
LEMMA IdleHoldsNothing ==
  ASSUME IInv, NEW a \in Actors, ~Busy(a) PROVE lock # a
  BY NoneAssumption

(* Every step of a goroutine is a step of the contract, or none. *)
LEMMA StepContract ==
  ASSUME IInv, ProcInv, IInv', NEW a \in Actors, Step(a)
  PROVE  [Contract!Next]_<<Current, Live>>
  <1>1. CASE AcquireLock(a)
    <2>1. \A p \in Procs : Alive(p)' => Alive(p)
      BY <1>1 DEF AcquireLock, Alive
    <2>2. CASE lock = None /\ lock' = a /\ act[a] \in Exclusive
      <3>1. Current = None /\ Current' = a
        BY <1>1, <2>2, NoneAssumption DEF AcquireLock, Entry, Current, Actors
      <3>2. Live' = Live
        BY <1>1 DEF AcquireLock, Live, Alive
      <3> QED
        BY <3>1, <3>2 DEF Contract!Next, Contract!Begin
    <2>3. CASE ~(lock = None /\ lock' = a /\ act[a] \in Exclusive)
      <3>1. Current' = Current
        BY <1>1, <2>3, NoneAssumption DEF AcquireLock, Entry, Current, Actors
      <3> QED
        BY <2>1, <3>1, StutterOrDie
    <2> QED
      BY <2>2, <2>3
  <1>2. CASE ReleaseLock(a)
    <2>1. Live' = Live
      BY <1>2 DEF ReleaseLock, Live, Alive
    <2>2. Current' = Current \/ (Current # None /\ Current' = None)
      BY <1>2 DEF ReleaseLock, Current
    <2> QED
      BY <2>1, <2>2 DEF Contract!Next, Contract!End
  <1>3. CASE Launch(a) /\ UNCHANGED srvVars
    <2>1. Current' = Current
      BY <1>3, CurrentSame DEF Launch
    <2>2. Current # None /\ ~Live
      BY <1>3, NoneAssumption DEF Launch, Current, Live, ProcInv
    <2>3. Live' \in BOOLEAN
      BY DEF Live
    <2> QED
      BY <2>1, <2>2, <2>3 DEF Contract!Next, Contract!Launch, Live
  <1>4. CASE GuardStart(a)
    <2>1. Current' = Current
      BY <1>4, CurrentSame DEF GuardStart
    <2>2. \A p \in Procs : Alive(p)' => Alive(p)
      BY <1>4 DEF GuardStart, Alive
    <2> QED
      BY <2>1, <2>2, StutterOrDie
  <1>5. CASE Preflight(a)
    <2>1. Current' = Current
      BY <1>5, CurrentSame DEF Preflight
    <2>2. \A p \in Procs : Alive(p)' => Alive(p)
      BY <1>5 DEF Preflight, Alive
    <2> QED
      BY <2>1, <2>2, StutterOrDie
  <1>6. CASE LoadPrev(a)
    <2>1. Current' = Current
      BY <1>6, CurrentSame, IdleHoldsNothing DEF LoadPrev
    <2>2. \A p \in Procs : Alive(p)' => Alive(p)
      BY <1>6 DEF LoadPrev, Alive
    <2> QED
      BY <2>1, <2>2, StutterOrDie
  <1>7. CASE LoadState(a)
    <2>1. Current' = Current
      BY <1>7, CurrentSame, IdleHoldsNothing DEF LoadState
    <2>2. \A p \in Procs : Alive(p)' => Alive(p)
      BY <1>7 DEF LoadState, Alive
    <2> QED
      BY <2>1, <2>2, StutterOrDie
  <1>8. CASE StoreState(a)
    <2>1. Current' = Current
      BY <1>8, CurrentSame, IdleHoldsNothing DEF StoreState
    <2>2. \A p \in Procs : Alive(p)' => Alive(p)
      BY <1>8 DEF StoreState, Alive
    <2> QED
      BY <2>1, <2>2, StutterOrDie
  <1>9. CASE JudgeCrash(a)
    <2>1. Current' = Current
      BY <1>9, CurrentSame, IdleHoldsNothing DEF JudgeCrash
    <2>2. \A p \in Procs : Alive(p)' => Alive(p)
      BY <1>9 DEF JudgeCrash, Alive
    <2> QED
      BY <2>1, <2>2, StutterOrDie
  <1>10. CASE CrashCheck(a)
    <2>1. Current' = Current
      BY <1>10, CurrentSame, IdleHoldsNothing DEF CrashCheck
    <2>2. \A p \in Procs : Alive(p)' => Alive(p)
      BY <1>10 DEF CrashCheck, Alive
    <2> QED
      BY <2>1, <2>2, StutterOrDie
  <1>11. CASE CrashTime(a)
    <2>1. Current' = Current
      BY <1>11, CurrentSame, IdleHoldsNothing DEF CrashTime
    <2>2. \A p \in Procs : Alive(p)' => Alive(p)
      BY <1>11 DEF CrashTime, Alive
    <2> QED
      BY <2>1, <2>2, StutterOrDie
  <1>12. CASE CrashRestart(a)
    <2>1. Current' = Current
      BY <1>12, CurrentSame, IdleHoldsNothing DEF CrashRestart
    <2>2. \A p \in Procs : Alive(p)' => Alive(p)
      BY <1>12 DEF CrashRestart, Alive
    <2> QED
      BY <2>1, <2>2, StutterOrDie
  <1>13. CASE StartCheck(a) /\ UNCHANGED srvVars
    <2>1. Current' = Current
      BY <1>13, CurrentSame DEF StartCheck
    <2>2. \A p \in Procs : Alive(p)' => Alive(p)
      BY <1>13 DEF StartCheck, Alive
    <2> QED
      BY <2>1, <2>2, StutterOrDie
  <1>14. CASE CloseJob(a) /\ UNCHANGED srvVars
    <2>1. Current' = Current
      BY <1>14, CurrentSame DEF CloseJob
    <2>2. \A p \in Procs : Alive(p)' => Alive(p)
      BY <1>14 DEF CloseJob, Alive, KillJob
    <2> QED
      BY <2>1, <2>2, StutterOrDie
  <1>15. CASE Create(a) /\ UNCHANGED srvVars
    <2>1. Current' = Current
      BY <1>15, CurrentSame DEF Create
    <2>2. \A p \in Procs : Alive(p)' => Alive(p)
      BY <1>15 DEF Create, Alive
    <2> QED
      BY <2>1, <2>2, StutterOrDie
  <1>16. CASE Assign(a) /\ UNCHANGED srvVars
    <2>1. Current' = Current
      BY <1>16, CurrentSame DEF Assign
    <2>2. \A p \in Procs : Alive(p)' => Alive(p)
      BY <1>16 DEF Assign, Alive
    <2> QED
      BY <2>1, <2>2, StutterOrDie
  <1>17. CASE Register(a) /\ UNCHANGED srvVars
    <2>1. Current' = Current
      BY <1>17, CurrentSame DEF Register
    <2>2. \A p \in Procs : Alive(p)' => Alive(p)
      BY <1>17 DEF Register, Alive
    <2> QED
      BY <2>1, <2>2, StutterOrDie
  <1>18. CASE StopCheck(a) /\ UNCHANGED srvVars
    <2>1. Current' = Current
      BY <1>18, CurrentSame DEF StopCheck
    <2>2. \A p \in Procs : Alive(p)' => Alive(p)
      BY <1>18 DEF StopCheck, Alive
    <2> QED
      BY <2>1, <2>2, StutterOrDie
  <1>19. CASE StopVia(a) /\ UNCHANGED srvVars
    <2>1. Current' = Current
      BY <1>19, CurrentSame DEF StopVia
    <2>2. \A p \in Procs : Alive(p)' => Alive(p)
      BY <1>19 DEF StopVia, Alive
    <2> QED
      BY <2>1, <2>2, StutterOrDie
  <1>20. CASE WriteStdin(a) /\ UNCHANGED srvVars
    <2>1. Current' = Current
      BY <1>20, CurrentSame DEF WriteStdin
    <2>2. \A p \in Procs : Alive(p)' => Alive(p)
      BY <1>20 DEF WriteStdin, Alive
    <2> QED
      BY <2>1, <2>2, StutterOrDie
  <1>21. CASE Poll(a) /\ UNCHANGED srvVars
    <2>1. Current' = Current
      BY <1>21, CurrentSame DEF Poll, Returned
    <2>2. \A p \in Procs : Alive(p)' => Alive(p)
      BY <1>21 DEF Poll, Alive
    <2> QED
      BY <2>1, <2>2, StutterOrDie
  <1>22. CASE TermRead(a) /\ UNCHANGED srvVars
    <2>1. Current' = Current
      BY <1>22, CurrentSame DEF TermRead
    <2>2. \A p \in Procs : Alive(p)' => Alive(p)
      BY <1>22 DEF TermRead, Alive
    <2> QED
      BY <2>1, <2>2, StutterOrDie
  <1>23. CASE TermJob(a) /\ UNCHANGED srvVars
    <2>1. Current' = Current
      BY <1>23, CurrentSame DEF TermJob
    <2>2. \A p \in Procs : Alive(p)' => Alive(p)
      BY <1>23 DEF TermJob, Alive, KillJob
    <2> QED
      BY <2>1, <2>2, StutterOrDie
  <1>24. CASE StartAdopt(a) /\ UNCHANGED srvVars
    <2>1. Current' = Current
      BY <1>24, CurrentSame DEF StartAdopt, SetState, Actors
    <2>2. \A p \in Procs : Alive(p)' => Alive(p)
      BY <1>24 DEF StartAdopt, Alive
    <2> QED
      BY <2>1, <2>2, StutterOrDie
  <1>25. CASE StartStarting(a) /\ UNCHANGED srvVars
    <2>1. Current' = Current
      BY <1>25, CurrentSame DEF StartStarting, SetState, Actors
    <2>2. \A p \in Procs : Alive(p)' => Alive(p)
      BY <1>25 DEF StartStarting, Alive
    <2> QED
      BY <2>1, <2>2, StutterOrDie
  <1>26. CASE StartFailed(a) /\ UNCHANGED srvVars
    <2>1. Current' = Current
      BY <1>26, CurrentSame DEF StartFailed, SetState, Actors
    <2>2. \A p \in Procs : Alive(p)' => Alive(p)
      BY <1>26 DEF StartFailed, Alive
    <2> QED
      BY <2>1, <2>2, StutterOrDie
  <1>27. CASE StopSet(a) /\ UNCHANGED srvVars
    <2>1. Current' = Current
      BY <1>27, CurrentSame DEF StopSet, SetState, Actors
    <2>2. \A p \in Procs : Alive(p)' => Alive(p)
      BY <1>27 DEF StopSet, Alive
    <2> QED
      BY <2>1, <2>2, StutterOrDie
  <1>28. CASE TermIdle(a) /\ UNCHANGED srvVars
    <2>1. Current' = Current
      BY <1>28, CurrentSame DEF TermIdle, SetState, Actors
    <2>2. \A p \in Procs : Alive(p)' => Alive(p)
      BY <1>28 DEF TermIdle, Alive
    <2> QED
      BY <2>1, <2>2, StutterOrDie
  <1>29. CASE TermSet(a) /\ UNCHANGED srvVars
    <2>1. Current' = Current
      BY <1>29, CurrentSame DEF TermSet, SetState, Actors
    <2>2. \A p \in Procs : Alive(p)' => Alive(p)
      BY <1>29 DEF TermSet, Alive
    <2> QED
      BY <2>1, <2>2, StutterOrDie
  <1>30. CASE SendCommand(a) /\ UNCHANGED srvVars
    <2>1. Current' = Current
      BY <1>30, CurrentSame DEF SendCommand
    <2>2. \A p \in Procs : Alive(p)' => Alive(p)
      BY <1>30 DEF SendCommand, Alive
    <2> QED
      BY <2>1, <2>2, StutterOrDie
  <1>32. CASE SendSet(a) /\ UNCHANGED srvVars
    <2>1. Current' = Current
      BY <1>32, CurrentSame DEF SendSet, SetState, Actors
    <2>2. \A p \in Procs : Alive(p)' => Alive(p)
      BY <1>32 DEF SendSet, Alive
    <2> QED
      BY <2>1, <2>2, StutterOrDie
  <1>31. CASE ConsoleSet(a)
    <2>1. Current' = Current
      BY <1>31, CurrentSame, IdleHoldsNothing DEF ConsoleSet, SetState, Actors
    <2>2. \A p \in Procs : Alive(p)' => Alive(p)
      BY <1>31 DEF ConsoleSet, Alive
    <2> QED
      BY <2>1, <2>2, StutterOrDie
  <1> QED
    BY <1>1, <1>2, <1>3, <1>4, <1>5, <1>6, <1>7, <1>8, <1>9, <1>10, <1>11, <1>12, <1>13, <1>14, <1>15, <1>16, <1>17, <1>18, <1>19, <1>20, <1>21, <1>22, <1>23, <1>24, <1>25, <1>26, <1>27, <1>28, <1>29, <1>30, <1>31, <1>32 DEF Step, StartStep, StopStep, TermStep, HandlerStep

(* Every step of the system is a step of the contract, or none. *)
LEMMA NextContract ==
  IInv /\ ProcInv /\ IInv' /\ [Next]_vars => [Contract!Next]_<<Current, Live>>
  <1> SUFFICES ASSUME IInv, ProcInv, IInv', [Next]_vars
               PROVE  [Contract!Next]_<<Current, Live>>
    OBVIOUS
  <1>1. ASSUME NEW u \in Users, NEW r \in Requests, Request(u, r)
        PROVE  [Contract!Next]_<<Current, Live>>
    BY <1>1, CurrentSame, IdleHoldsNothing, StutterOrDie DEF Request, Actors, Alive
  <1>2. ASSUME NEW s \in Stoppers, SpawnStopper(s)
        PROVE  [Contract!Next]_<<Current, Live>>
    BY <1>2, CurrentSame, IdleHoldsNothing, StutterOrDie DEF SpawnStopper, Actors, Alive
  <1>3. ASSUME NEW c \in Consoles, ConsoleLine(c)
        PROVE  [Contract!Next]_<<Current, Live>>
    BY <1>3, CurrentSame, IdleHoldsNothing, StutterOrDie DEF ConsoleLine, Actors, Alive
  <1>4. ASSUME NEW a \in Actors, Step(a)
        PROVE  [Contract!Next]_<<Current, Live>>
    BY <1>4, StepContract
  <1>5. ASSUME NEW p \in Procs, Waiter(p) \/ (Exit(p) /\ UNCHANGED srvVars)
        PROVE  [Contract!Next]_<<Current, Live>>
    <2>1. /\ UNCHANGED <<lock, act>>
          /\ \A b \in Actors : pc'[b] = pc[b] \/ (pc[b] = "idle" /\ pc'[b] = "prev")
          /\ \A q \in Procs : Alive(q)' => Alive(q)
      <3>1. CASE Reap(p) /\ UNCHANGED srvVars
        BY <3>1 DEF Reap, Alive
      <3>2. CASE MarkOffline(p) /\ UNCHANGED srvVars
        BY <3>2 DEF MarkOffline, SetState, Actors, Alive
      <3>3. CASE Exit(p) /\ UNCHANGED srvVars
        BY <3>3 DEF Exit, Alive
      <3> QED
        BY <1>5, <3>1, <3>2, <3>3 DEF Waiter
    <2>2. Current' = Current
      BY <2>1, IdleHoldsNothing DEF Current
    <2> QED
      BY <2>1, <2>2, StutterOrDie
  <1>6. CASE Elapse
    BY <1>6, StutterOrDie DEF Elapse, Current, Alive
  <1>7. CASE UNCHANGED vars
    BY <1>7, StutterOrDie DEF vars, Current, Alive
  <1> QED
    BY <1>1, <1>2, <1>3, <1>4, <1>5, <1>6, <1>7 DEF Next

(* The power actions over the Windows environment implement the contract:      *)
(* serial starts, stops and restarts, and no launch beside a live process.    *)
THEOREM ContractHolds ==
  ASSUME {"open", "assign"} \cap Failures = {}
  PROVE  Spec => ImplementsContract
  <1>1. Init => Contract!Init
    BY DEF Init, Contract!Init, Current, Live, Alive
  <1> QED
    BY <1>1, InitIInv, NextIInv, InitProcInv, NextProcInv, NextContract, PTL
       DEF Spec, ImplementsContract, Contract!Spec

=============================================================================
