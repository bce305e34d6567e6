------------------------------ MODULE SinkPool ------------------------------
(***************************************************************************)
(* system.SinkPool, also the pool of an events.Bus: the channels that      *)
(* listen, and the goroutines of Push, one for each of them, that send a   *)
(* message or make room for it.  On, Off and Destroy hold the pool's lock; *)
(* Push shares it until its goroutines are done.  The n-th message of a    *)
(* pusher p is <<p, n>>.                                                   *)
(***************************************************************************)
EXTENDS Naturals, Sequences

CONSTANTS
    Pushers,    \* the goroutines that publish, each one message at a time
    Chans,      \* the channels of listeners
    Cap,        \* their capacities
    MaxPush     \* bound: the messages of a pusher

ASSUME CapAssumption == Cap \in [Chans -> Nat] /\ MaxPush \in Nat

VARIABLES
    sinks,      \* p.sinks
    buf,        \* what each channel holds
    closed,     \* the channels that are closed
    pushing,    \* the pushers inside Push
    sent,       \* how many messages each has pushed
    flying,     \* the goroutines of Push and how far they are
    panicked,   \* a send on a closed channel, or a second close
    seen        \* the last message of each pusher a listener has received

poolVars == <<sinks, buf, closed, pushing, sent, flying, panicked, seen>>

Flights == [p : Pushers, n : 1 .. MaxPush, c : Chans, at : {"send", "drop", "again"}]

PoolTypeOK ==
    /\ sinks \subseteq Chans /\ closed \subseteq Chans
    /\ buf \in [Chans -> Seq(Pushers \X (1 .. MaxPush))]
    /\ pushing \subseteq Pushers
    /\ sent \in [Pushers -> 0 .. MaxPush]
    /\ flying \subseteq Flights /\ \A f \in flying : f.p \in pushing
    /\ panicked \in BOOLEAN
    /\ seen \in [Chans -> [Pushers -> 0 .. MaxPush]]

PoolInit ==
    /\ sinks = {} /\ closed = {} /\ buf = [c \in Chans |-> <<>>]
    /\ pushing = {} /\ sent = [p \in Pushers |-> 0] /\ flying = {}
    /\ panicked = FALSE
    /\ seen = [c \in Chans |-> [p \in Pushers |-> 0]]

Full(c) == Len(buf[c]) >= Cap[c]
Deliver(f) == buf' = [buf EXCEPT ![f.c] = Append(@, <<f.p, f.n>>)]
At(f, l) == [p |-> f.p, n |-> f.n, c |-> f.c, at |-> l]
Move(f, l) == flying' = (flying \ {f}) \cup {At(f, l)}
Land(f) == flying' = flying \ {f}

-----------------------------------------------------------------------------

Push(p) ==
    /\ p \notin pushing /\ sent[p] < MaxPush
    /\ pushing' = pushing \cup {p}
    /\ sent' = [sent EXCEPT ![p] = @ + 1]
    /\ flying' = flying \cup [p : {p}, n : {sent[p] + 1}, c : sinks, at : {"send"}]
    /\ UNCHANGED <<sinks, buf, closed, panicked, seen>>

\* The first select: a channel without room is given 10 ms.
TrySend(f) ==
    /\ f.at = "send"
    /\ \/ f.c \in closed /\ panicked' = TRUE /\ Land(f) /\ UNCHANGED buf
       \/ f.c \notin closed /\ ~Full(f.c) /\ Deliver(f) /\ Land(f) /\ UNCHANGED panicked
       \/ f.c \notin closed /\ Full(f.c) /\ Move(f, "drop") /\ UNCHANGED <<buf, panicked>>
    /\ UNCHANGED <<sinks, closed, pushing, sent, seen>>

\* A plausible mistake: no default when there is nothing to take.
DropWaits(f) ==
    /\ f.at = "drop" /\ buf[f.c] # <<>>
    /\ buf' = [buf EXCEPT ![f.c] = Tail(@)]
    /\ Move(f, "again")
    /\ UNCHANGED <<sinks, closed, pushing, sent, panicked, seen>>

\* The oldest message goes.  A channel without a buffer hands over what another
\* goroutine is sending, if that one waits already; when there is nothing to take
\* the message is given up.
DropOldest(f) ==
    LET others == {g \in flying \ {f} : g.c = f.c /\ g.at = "send" /\ Cap[f.c] = 0}
    IN  /\ f.at = "drop"
        /\ \/ /\ buf[f.c] # <<>>
              /\ buf' = [buf EXCEPT ![f.c] = Tail(@)]
              /\ Move(f, "again")
           \/ /\ \E g \in others :
                    flying' = (flying \ {f, g}) \cup {At(f, "again")}
              /\ UNCHANGED buf
           \/ buf[f.c] = <<>> /\ Land(f) /\ UNCHANGED buf
        /\ UNCHANGED <<sinks, closed, pushing, sent, panicked, seen>>

\* The room may be taken by now: then the message is given up.
SendAgain(f) ==
    /\ f.at = "again"
    /\ Land(f)
    /\ IF f.c \in closed THEN panicked' = TRUE /\ UNCHANGED buf
       ELSE /\ IF Full(f.c) THEN UNCHANGED buf ELSE Deliver(f)
            /\ UNCHANGED panicked
    /\ UNCHANGED <<sinks, closed, pushing, sent, seen>>

\* A plausible mistake: Push does not wait for its goroutines.
ReturnEarly(p) ==
    /\ p \in pushing
    /\ pushing' = pushing \ {p}
    /\ UNCHANGED <<sinks, buf, closed, sent, flying, panicked, seen>>

\* wg.Wait, and the read lock is released.
Return(p) ==
    /\ p \in pushing /\ \A f \in flying : f.p # p
    /\ pushing' = pushing \ {p}
    /\ UNCHANGED <<sinks, buf, closed, sent, flying, panicked, seen>>

Flight(f) == TrySend(f) \/ DropOldest(f) \/ SendAgain(f)

-----------------------------------------------------------------------------

\* A new channel joins.
On(c) ==
    /\ pushing = {}
    /\ sinks' = sinks \cup {c} /\ closed' = closed \ {c}
    /\ UNCHANGED <<buf, pushing, sent, flying, panicked, seen>>

\* A channel that is not in the pool has been closed by Destroy.  What it holds is
\* lost with it.
Off(c) ==
    /\ pushing = {}
    /\ IF c \in sinks
       THEN /\ sinks' = sinks \ {c} /\ closed' = closed \cup {c}
            /\ panicked' = (panicked \/ c \in closed)
       ELSE UNCHANGED <<sinks, closed, panicked>>
    /\ buf' = [buf EXCEPT ![c] = <<>>]
    /\ seen' = [seen EXCEPT ![c] = [p \in Pushers |-> 0]]
    /\ UNCHANGED <<pushing, sent, flying>>

\* A plausible mistake: the closed channels stay in the pool.
DestroyKept ==
    /\ pushing = {}
    /\ closed' = closed \cup sinks
    /\ panicked' = (panicked \/ sinks \cap closed # {})
    /\ UNCHANGED <<sinks, buf, pushing, sent, flying, seen>>

Destroy ==
    /\ pushing = {}
    /\ closed' = closed \cup sinks /\ sinks' = {}
    /\ panicked' = (panicked \/ sinks \cap closed # {})
    /\ UNCHANGED <<buf, pushing, sent, flying, seen>>

See(c, m) == seen' = [seen EXCEPT ![c][m[1]] = m[2]]

\* A listener takes the next message; without a buffer it meets a sender, and a
\* channel that is closed and empty yields nothing, at once.
Take(c) ==
    /\ \/ /\ buf[c] # <<>>
          /\ buf' = [buf EXCEPT ![c] = Tail(@)]
          /\ See(c, Head(buf[c]))
          /\ UNCHANGED flying
       \/ /\ Cap[c] = 0
          /\ \E f \in flying : f.c = c /\ f.at \in {"send", "again"} /\ Land(f) /\ See(c, <<f.p, f.n>>)
          /\ UNCHANGED buf
       \/ /\ buf[c] = <<>> /\ c \in closed
          /\ UNCHANGED <<buf, flying, seen>>
    /\ UNCHANGED <<sinks, closed, pushing, sent, panicked>>

-----------------------------------------------------------------------------

\* The lock keeps Push away from channels that Off and Destroy close, and no
\* channel is closed by both: nothing panics (sink_pool.go).
NoPanic == ~panicked

\* A listener receives the messages of a pusher in the order they were pushed,
\* however many are dropped: Push waits for its goroutines.
InOrder ==
    [][\A c \in Chans, p \in Pushers :
            seen'[c][p] >= seen[c][p] \/ seen'[c][p] = 0]_poolVars

=============================================================================
