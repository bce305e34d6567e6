------------------------------- MODULE Docker -------------------------------
(* The Docker environment: a container, the stream the daemon is attached to, *)
(* the goroutine that reads it, and the power actions, each of them a series  *)
(* of calls to the Docker API that may fail. Starts, stops and restarts hold  *)
(* the power lock; kills, the deletion of the server and the stops that the   *)
(* daemon makes by itself (disk space, suspension, reinstallation, restoration *)
(* and transfer: "halt") do not.                                              *)
EXTENDS Naturals, FiniteSets

CONSTANTS
    Actors,     \* power actions in progress
    Readers,    \* goroutines that Attach starts
    MaxInst,    \* bound: containers created
    ViaStops,   \* the stop configurations the panel may set: signal, command, stop
    Nobody

ASSUME InstancesBounded == MaxInst \in Nat \ {0}
ASSUME NobodyIsOutside == Nobody \notin Actors \cup Readers

VARIABLES
    ctr,        \* the container: absent, created, running or exited
    inst,       \* how many were created: the identity of the container
    st,         \* the state of the environment
    stream,     \* the reader whose stream is set, or Nobody
    rPc, rInst, \* readers: none, begin, scan, offline, clear; the container they read
    owner,      \* the holder of the power lock, or Nobody
    aPc, aReq,
    missed      \* history: a native stop found no container and took the stream
                \* from a goroutine that reads it

kVars == <<ctr, inst, st, stream, rPc, rInst, owner, aPc, aReq, missed>>
ctrVars == <<ctr, inst>>
readVars == <<stream, rPc, rInst, missed>>

KInit ==
    /\ inst = 0 /\ owner = Nobody /\ missed = FALSE
    /\ aPc = [a \in Actors |-> "idle"] /\ aReq = [a \in Actors |-> "none"]
    /\ rInst = [r \in Readers |-> 0]
    /\ \/ \* a stopped daemon's containers, as the boot found them
          /\ ctr \in {"absent", "exited"} /\ st = "offline"
          /\ stream = Nobody /\ rPc = [r \in Readers |-> "none"]
       \/ /\ ctr = "running" /\ st = "running" /\ stream \in Readers
          /\ rPc = [r \in Readers |-> IF r = stream THEN "scan" ELSE "none"]

Goto(a, l) == aPc' = [aPc EXCEPT ![a] = l]
Running == ctr = "running"

\* The action returns and gives the lock back.
Return(a) ==
    /\ Goto(a, "idle") /\ aReq' = [aReq EXCEPT ![a] = "none"]
    /\ owner' = IF owner = a THEN Nobody ELSE owner

-----------------------------------------------------------------------------
(* Power actions *)

\* A kill takes the lock when it is free and goes on without it otherwise; the
\* daemon's own stops do not ask for it.
Locked(req) == req \in {"start", "stop", "restart"}

Request(a, req) ==
    /\ aPc[a] = "idle"
    /\ Locked(req) => owner = Nobody
    /\ req = "start" => st = "offline"
    /\ owner' = IF req # "halt" /\ owner = Nobody THEN a ELSE owner
    /\ aReq' = [aReq EXCEPT ![a] = req]
    /\ Goto(a, IF req = "start" THEN "inspect" ELSE IF req = "kill" THEN "signal" ELSE "stop")
    /\ UNCHANGED <<ctrVars, st, readVars>>

\* Start: a running container is adopted.
StartInspect(a) ==
    /\ aPc[a] = "inspect"
    /\ \/ /\ Running /\ st' = "running" /\ Goto(a, "adopt") /\ UNCHANGED <<owner, aReq>>
       \/ ~Running /\ st' = "starting" /\ Goto(a, "remove") /\ UNCHANGED <<owner, aReq>>
       \/ UNCHANGED st /\ Return(a)    \* the inspection or the truncation of the log fails
    /\ UNCHANGED <<ctrVars, readVars>>

\* OnBeforeStart removes the container, without force.
RemoveContainer(a) ==
    /\ aPc[a] = "remove"
    /\ \/ ~Running /\ ctr' = "absent" /\ Goto(a, "create")
       \/ UNCHANGED ctr /\ Goto(a, "failed")
    /\ UNCHANGED <<inst, st, readVars, owner, aReq>>

\* Create pulls the image, or makes do with the local one, and creates the
\* container.
Create(a) ==
    /\ aPc[a] = "create"
    /\ \/ inst < MaxInst /\ ctr' = "created" /\ inst' = inst + 1 /\ Goto(a, "attach")
       \/ UNCHANGED ctrVars /\ Goto(a, "failed")
    /\ UNCHANGED <<st, readVars, owner, aReq>>

\* A plausible mistake: the environment attaches without asking for the stream.
AttachAgain(a) ==
    /\ aPc[a] \in {"attach", "adopt"}
    /\ \E r \in Readers :
         /\ rPc[r] = "none" /\ stream' = r
         /\ rPc' = [rPc EXCEPT ![r] = "begin"] /\ rInst' = [rInst EXCEPT ![r] = inst]
    /\ IF aPc[a] = "adopt" THEN Return(a) ELSE Goto(a, "run") /\ UNCHANGED <<owner, aReq>>
    /\ UNCHANGED <<ctrVars, st, missed>>

\* Attach, before the container is started: nothing to do while a stream is set.
Attach(a) ==
    /\ aPc[a] \in {"attach", "adopt"}
    /\ \/ /\ stream # Nobody /\ UNCHANGED readVars
          /\ IF aPc[a] = "adopt" THEN Return(a) ELSE Goto(a, "run") /\ UNCHANGED <<owner, aReq>>
       \/ /\ stream = Nobody
          /\ \E r \in Readers :
               /\ rPc[r] = "none" /\ stream' = r /\ UNCHANGED missed
               /\ rPc' = [rPc EXCEPT ![r] = "begin"] /\ rInst' = [rInst EXCEPT ![r] = inst]
          /\ IF aPc[a] = "adopt" THEN Return(a) ELSE Goto(a, "run") /\ UNCHANGED <<owner, aReq>>
       \/ /\ stream = Nobody /\ UNCHANGED readVars
          /\ IF aPc[a] = "adopt" THEN Return(a) ELSE Goto(a, "failed") /\ UNCHANGED <<owner, aReq>>
    /\ UNCHANGED <<ctrVars, st>>

ContainerStart(a) ==
    /\ aPc[a] = "run"
    /\ \/ ctr = "created" /\ ctr' = "running" /\ Return(a)
       \/ UNCHANGED ctr /\ Goto(a, "failed") /\ UNCHANGED <<owner, aReq>>
    /\ UNCHANGED <<inst, st, readVars>>

\* The deferred function: stopping, so that no crash is seen, then offline.
StartFailed(a) ==
    /\ aPc[a] = "failed" /\ st' = "offline" /\ Return(a)
    /\ UNCHANGED <<ctrVars, readVars>>

\* Stop: the state first, unless it is offline.
StopSet(a) ==
    /\ aPc[a] = "stop" /\ Goto(a, "send")
    /\ st' = IF st = "offline" THEN st ELSE "stopping"
    /\ UNCHANGED <<ctrVars, readVars, owner, aReq>>

\* Then the signal, the command if a stream is set, or Docker's own stop.
StopBy(a) ==
    /\ aPc[a] = "send"
    /\ \/ "signal" \in ViaStops /\ Goto(a, "ask")
       \/ "command" \in ViaStops /\ stream # Nobody /\ Goto(a, "command")
       \/ "stop" \in ViaStops /\ Goto(a, "native")
       \/ "command" \in ViaStops /\ stream = Nobody /\ Goto(a, "native")
    /\ UNCHANGED <<ctrVars, st, readVars, owner, aReq>>

\* An error of Stop is returned; when the time is over the container is killed.
StopErr(a) == Return(a) \/ (Goto(a, "signal") /\ UNCHANGED <<owner, aReq>>)

\* SendCommand asks for the stream again: without one it is an error.
SendCommand(a) ==
    /\ aPc[a] = "command"
    /\ \/ /\ stream # Nobody /\ st' = "stopping"
          /\ (Goto(a, "wait") /\ UNCHANGED <<owner, aReq>>) \/ Return(a)
       \/ stream = Nobody /\ UNCHANGED st /\ Return(a)
    /\ UNCHANGED <<ctrVars, readVars>>

\* SignalContainer with the signal of the stop configuration: a missing
\* container is no error.
SignalStop(a) ==
    /\ aPc[a] = "ask"
    /\ \/ /\ Goto(a, "wait") /\ UNCHANGED <<owner, aReq>>
          /\ st' = IF Running THEN "stopping" ELSE IF ctr = "absent" THEN st ELSE "offline"
       \/ st' \in {st, "stopping"} /\ StopErr(a)
    /\ UNCHANGED <<ctrVars, readVars>>

ContainerStop(a) ==
    /\ aPc[a] = "native"
    /\ \/ ctr # "absent" /\ Goto(a, "wait") /\ UNCHANGED <<owner, aReq>>
       \/ ctr = "absent" /\ Goto(a, "unset") /\ UNCHANGED <<owner, aReq>>
       \/ StopErr(a)
    /\ UNCHANGED <<ctrVars, st, readVars>>

\* No container: the stream goes, whosever it is by now, then the state.
StopUnset(a) ==
    /\ aPc[a] = "unset" /\ Goto(a, "gone")
    /\ stream' = Nobody /\ missed' = (missed \/ stream # Nobody)
    /\ UNCHANGED <<ctrVars, st, rPc, rInst, owner, aReq>>

StopGone(a) ==
    /\ aPc[a] = "gone" /\ Goto(a, "wait") /\ st' = "offline"
    /\ UNCHANGED <<ctrVars, readVars, owner, aReq>>

\* What follows WaitForStop: a restart goes on to Start.
Stopped(a) ==
    IF aReq[a] = "restart" THEN Goto(a, "inspect") /\ UNCHANGED <<owner, aReq>> ELSE Return(a)

\* A plausible mistake: an error of the wait counts as stopped.
ContainerWaitLoose(a) ==
    /\ aPc[a] = "wait" /\ Stopped(a)
    /\ UNCHANGED <<ctrVars, st, readVars>>

\* The container does not run any more, or the time is over and it is killed. A
\* restoration's stop gives up instead.
ContainerWait(a) ==
    /\ aPc[a] = "wait"
    /\ \/ ~Running /\ Stopped(a)
       \/ Goto(a, "signal") /\ UNCHANGED <<owner, aReq>>
       \/ aReq[a] = "halt" /\ Return(a)
    /\ UNCHANGED <<ctrVars, st, readVars>>

\* Terminate: SignalContainer(SIGKILL) inspects the container and sets the state,
\* an error ends the action.
SignalContainer(a) ==
    /\ aPc[a] = "signal"
    /\ \/ /\ Running /\ st' = "stopping"
          /\ Goto(a, "kill") /\ UNCHANGED <<owner, aReq>>
       \/ /\ ~Running /\ st' = IF ctr = "absent" THEN st ELSE "offline"
          /\ Goto(a, "mark") /\ UNCHANGED <<owner, aReq>>
       \/ UNCHANGED st /\ Return(a)
    /\ UNCHANGED <<ctrVars, readVars>>

\* Docker answers once the container is gone; a container that is not there any
\* more is no error, one that does not run is.
ContainerKill(a) ==
    /\ aPc[a] = "kill"
    /\ \/ Running /\ ctr' = "exited" /\ Goto(a, "mark") /\ UNCHANGED <<owner, aReq>>
       \/ ctr = "absent" /\ Goto(a, "mark") /\ UNCHANGED <<ctr, owner, aReq>>
       \/ UNCHANGED ctr /\ Return(a)
    /\ UNCHANGED <<inst, st, readVars>>

TerminateMark(a) ==
    /\ aPc[a] = "mark" /\ st' = "offline"
    /\ IF aReq[a] = "kill" THEN Return(a) ELSE Stopped(a)
    /\ UNCHANGED <<ctrVars, readVars>>

-----------------------------------------------------------------------------
(* The container, and the goroutine that reads its stream *)

Exits == Running /\ ctr' = "exited" /\ UNCHANGED <<inst, st, readVars, owner, aPc, aReq>>

\* The goroutine takes the stream that is set as it starts (e.stream): without one
\* it is a nil dereference, which ends the daemon.
ReaderBegins(r) ==
    /\ rPc[r] = "begin" /\ stream # Nobody
    /\ rPc' = [rPc EXCEPT ![r] = "scan"] /\ rInst' = [rInst EXCEPT ![r] = rInst[stream]]
    /\ UNCHANGED <<ctrVars, st, stream, missed, owner, aPc, aReq>>

\* The line the server looks for is read: the server sets the state.
ConsoleDone(r) ==
    /\ rPc[r] = "scan" /\ Running /\ rInst[r] = inst /\ st = "starting"
    /\ st' = "running"
    /\ UNCHANGED <<ctrVars, readVars, owner, aPc, aReq>>

\* The stream ends with its container (or the connection breaks).
ScanEnds(r) ==
    /\ rPc[r] = "scan"
    /\ rPc' = [rPc EXCEPT ![r] = "offline"]
    /\ rInst[r] # inst \/ ctr \in {"exited", "absent"} \/ Running
    /\ UNCHANGED <<ctrVars, st, stream, rInst, missed, owner, aPc, aReq>>

ReaderOffline(r) ==
    /\ rPc[r] = "offline" /\ st' = "offline"
    /\ rPc' = [rPc EXCEPT ![r] = "clear"]
    /\ UNCHANGED <<ctrVars, stream, rInst, missed, owner, aPc, aReq>>

ReaderClears(r) ==
    /\ rPc[r] = "clear" /\ stream' = Nobody
    /\ rPc' = [rPc EXCEPT ![r] = "none"] /\ rInst' = [rInst EXCEPT ![r] = 0]
    /\ UNCHANGED <<ctrVars, st, missed, owner, aPc, aReq>>

\* Destroy removes the container by force, whatever it does.
Destroy ==
    /\ ctr' \in {"absent", ctr} /\ st' = "offline"
    /\ UNCHANGED <<inst, readVars, owner, aPc, aReq>>

KNext ==
    \/ \E a \in Actors :
         \/ \E req \in {"start", "stop", "restart", "kill", "halt"} : Request(a, req)
         \/ StartInspect(a) \/ RemoveContainer(a) \/ Create(a) \/ Attach(a) \/ ContainerStart(a)
         \/ StartFailed(a) \/ StopSet(a) \/ StopBy(a) \/ SendCommand(a) \/ SignalStop(a)
         \/ ContainerStop(a) \/ StopUnset(a) \/ StopGone(a) \/ ContainerWait(a)
         \/ SignalContainer(a) \/ ContainerKill(a) \/ TerminateMark(a)
    \/ Exits \/ Destroy
    \/ \E r \in Readers : ReaderBegins(r) \/ ConsoleDone(r) \/ ScanEnds(r) \/ ReaderOffline(r) \/ ReaderClears(r)

DockerSpec == KInit /\ [][KNext]_kVars

-----------------------------------------------------------------------------
(* Properties *)

\* One goroutine reads the console and the stream that is set is its own, from
\* Attach to its end: no line is delivered twice, no command goes to a dead stream
\* and no goroutine starts on a stream that is gone, whatever stops, kills and
\* deletions happen meanwhile, with the lock and without. The code keeps this until
\* a native stop that found no container clears the stream of another container
\* (Stop, environment/docker/power.go:196): missed says that this has happened.
OneReader == ~missed => \A r \in Readers : rPc[r] # "none" <=> stream = r

\* A restart does not find the container it was to stop: the Start that follows
\* never adopts a running container.
RestartIsFresh ==
    \A a \in Actors : aReq[a] = "restart" => ~(aPc[a] = "inspect" /\ Running) /\ aPc[a] # "adopt"

=============================================================================
