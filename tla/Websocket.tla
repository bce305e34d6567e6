----------------------------- MODULE Websocket -----------------------------
(***************************************************************************)
(* The websocket connections of one server: how they are opened, counted   *)
(* and cancelled (router/router_server_ws.go, server/websockets.go),       *)
(* authenticated (router/websocket/websocket.go, router/tokens), and fed   *)
(* from the server's pools (router/websocket/listeners.go), while the      *)
(* server is suspended, a user deauthorized or the server deleted.  One    *)
(* pool stands for the event bus and the two sinks, which are alike.       *)
(***************************************************************************)
EXTENDS SinkPool, FiniteSets

CONSTANTS
    Conns,      \* websocket connections, opened again once they are over
    Of,         \* the connection of each auth message and of the listener that
                \* becomes of it; both go by the name of the listener's channel
    MaxOpen,    \* the connections a server may have
    MaxSync,    \* bound: the calls of Server.Sync at once
    Events      \* what may happen to the server in this instance

ASSUME OfAssumption == Of \in [Chans -> Conns] /\ MaxOpen \in Nat /\ MaxSync \in Nat
ASSUME EventsAssumption == Events \subseteq {"sync", "deauthorize", "delete"}

VARIABLES
    conn,       \* where getServerWebsocket is
    done,       \* the connections whose context is cancelled
    bag,        \* s.wsBag
    jwt,        \* h.jwt: none, a token from before the deauthorization, or one after it
    ear,        \* where HandleInbound, and then listenForServerEvents, is
    tok,        \* the token an auth message brings
    suspended,  \* s.Config().Suspended
    sync,       \* the calls of Server.Sync that have not looked at the suspension yet
    denied,     \* userDenylist has the user: tokens from before it are refused
    deauth,     \* where postDeauthorizeUser is
    deletion    \* where deleteServer is

wsVars == <<conn, done, bag, jwt, ear, tok>>
srvVars == <<suspended, sync, denied, deauth, deletion>>
vars == <<poolVars, wsVars, srvVars>>

TypeOK ==
    /\ PoolTypeOK
    /\ conn \in [Conns -> {"off", "track", "check", "serve", "untrack", "cancel"}]
    /\ done \subseteq Conns /\ bag \subseteq Conns
    /\ jwt \in [Conns -> {"none", "old", "new"}]
    /\ ear \in [Chans -> {"idle", "token", "first", "renew", "refresh", "on", "listen", "send", "off"}]
    /\ tok \in [Chans -> {"none", "old", "new"}]
    /\ suspended \in BOOLEAN /\ denied \in BOOLEAN
    /\ sync \in 0 .. MaxSync
    /\ deauth \in {"no", "cut", "done"}
    /\ deletion \in {"no", "context", "pools", "bag", "remove", "done", "failed"}

Init ==
    /\ PoolInit
    /\ conn = [w \in Conns |-> "off"] /\ done = {} /\ bag = {}
    /\ jwt = [w \in Conns |-> "none"]
    /\ ear = [c \in Chans |-> "idle"] /\ tok = [c \in Chans |-> "none"]
    /\ suspended = FALSE /\ sync = 0
    /\ denied = FALSE /\ deauth = "no" /\ deletion = "no"

Conn(w, l) == conn' = [conn EXCEPT ![w] = l]
Ear(c, l) == ear' = [ear EXCEPT ![c] = l]

\* WebsocketBag.CancelAll.
CancelAll == done' = done \cup bag /\ bag' = {}

-----------------------------------------------------------------------------
\* getServerWebsocket

Open(w) ==
    /\ conn[w] = "off" /\ \A c \in Chans : Of[c] = w => ear[c] = "idle"
    /\ deletion # "done"
    /\ Cardinality(bag) < MaxOpen
    /\ Conn(w, "track")
    /\ done' = done \ {w} /\ jwt' = [jwt EXCEPT ![w] = "none"]
    /\ UNCHANGED <<poolVars, bag, ear, tok, srvVars>>

\* A plausible mistake: the suspension is looked at before the connection is tracked.
AdmitSwapped(w) ==
    /\ \/ /\ conn[w] = "track"
          /\ Conn(w, IF suspended THEN "untrack" ELSE "check")
          /\ UNCHANGED bag
       \/ conn[w] = "check" /\ bag' = bag \cup {w} /\ Conn(w, "serve")
    /\ UNCHANGED <<poolVars, done, jwt, ear, tok, srvVars>>

\* The connection is tracked, and only then the suspension looked at.
Admit(w) ==
    /\ \/ conn[w] = "track" /\ bag' = bag \cup {w} /\ Conn(w, "check")
       \/ /\ conn[w] = "check"
          /\ Conn(w, IF suspended THEN "untrack" ELSE "serve")
          /\ UNCHANGED bag
    /\ UNCHANGED <<poolVars, done, jwt, ear, tok, srvVars>>

\* A plausible mistake: nobody waits for the server's context.
WatchNobody(w) == w \in bag /\ UNCHANGED vars

\* The goroutine that waits for the server's context.
WatchServer(w) ==
    /\ conn[w] \in {"check", "serve", "untrack", "cancel"}
    /\ deletion \notin {"no", "context"}
    /\ w \notin done
    /\ done' = done \cup {w}
    /\ UNCHANGED <<poolVars, conn, bag, jwt, ear, tok, srvVars>>

\* ReadMessage fails: the client is gone, or the connection was closed because
\* its context is done.
ReadFails(w) ==
    /\ conn[w] = "serve"
    /\ Conn(w, "untrack")
    /\ UNCHANGED <<poolVars, done, bag, jwt, ear, tok, srvVars>>

\* The deferred calls.
Leave(w) ==
    /\ \/ conn[w] = "untrack" /\ bag' = bag \ {w} /\ Conn(w, "cancel") /\ UNCHANGED done
       \/ conn[w] = "cancel" /\ done' = done \cup {w} /\ Conn(w, "off") /\ UNCHANGED bag
    /\ UNCHANGED <<poolVars, jwt, ear, tok, srvVars>>

-----------------------------------------------------------------------------
\* HandleInbound of an auth message

Inbound(c) ==
    /\ ear[c] = "idle" /\ conn[Of[c]] = "serve"
    /\ IF suspended THEN done' = done \cup {Of[c]} /\ UNCHANGED ear
       ELSE Ear(c, "token") /\ UNCHANGED done
    /\ UNCHANGED <<poolVars, conn, bag, jwt, tok, srvVars>>

Denylisted(t) == t = "old" /\ denied

\* NewTokenPayload; a token that is refused is answered with an error.
CheckToken(c) ==
    /\ ear[c] = "token"
    /\ \/ \E t \in {"old"} \cup (IF denied THEN {"new"} ELSE {}) :
             ~Denylisted(t) /\ tok' = [tok EXCEPT ![c] = t] /\ Ear(c, "first")
       \/ Ear(c, "idle") /\ UNCHANGED tok
    /\ UNCHANGED <<poolVars, conn, done, bag, jwt, srvVars>>

FirstAuth(c) ==
    /\ ear[c] = "first"
    /\ Ear(c, IF jwt[Of[c]] = "none" THEN "renew" ELSE "refresh")
    /\ UNCHANGED <<poolVars, conn, done, bag, jwt, tok, srvVars>>

\* Only the first authentication of a connection starts a listener.
SetJwt(c) ==
    /\ ear[c] \in {"renew", "refresh"}
    /\ jwt' = [jwt EXCEPT ![Of[c]] = tok[c]]
    /\ tok' = [tok EXCEPT ![c] = "none"]
    /\ Ear(c, IF ear[c] = "renew" THEN "on" ELSE "idle")
    /\ UNCHANGED <<poolVars, conn, done, bag, srvVars>>

-----------------------------------------------------------------------------
\* listenForServerEvents

StartListening(c) ==
    /\ ear[c] = "on" /\ On(c)
    /\ Ear(c, "listen")
    /\ UNCHANGED <<conn, done, bag, jwt, tok, srvVars>>

Receive(c) ==
    /\ ear[c] = "listen" /\ Take(c)
    /\ Ear(c, "send")
    /\ UNCHANGED <<conn, done, bag, jwt, tok, srvVars>>

\* SendJson: what an invalid token keeps back, and a close that was sent, count as
\* sent; an error ends the listener.
SendJson(c) ==
    /\ ear[c] = "send"
    /\ Ear(c, "listen") \/ Ear(c, "off")
    /\ UNCHANGED <<poolVars, conn, done, bag, jwt, tok, srvVars>>

ListenerDone(c) ==
    /\ ear[c] = "listen" /\ Of[c] \in done
    /\ Ear(c, "off")
    /\ UNCHANGED <<poolVars, conn, done, bag, jwt, tok, srvVars>>

StopListening(c) ==
    /\ ear[c] = "off" /\ Off(c)
    /\ Ear(c, "idle")
    /\ UNCHANGED <<conn, done, bag, jwt, tok, srvVars>>

-----------------------------------------------------------------------------
\* What happens to the server.

\* Sync replaces the configuration, if need be after the server was deleted: the
\* panel may have answered before ...
SyncConfiguration(b) ==
    /\ "sync" \in Events /\ sync < MaxSync
    /\ suspended' = b /\ sync' = sync + 1
    /\ UNCHANGED <<poolVars, wsVars, denied, deauth, deletion>>

\* ... and then disconnects everyone if the server is suspended.
SyncCut ==
    /\ sync > 0 /\ sync' = sync - 1
    /\ IF suspended THEN CancelAll ELSE UNCHANGED <<done, bag>>
    /\ UNCHANGED <<poolVars, conn, jwt, ear, tok, suspended, denied, deauth, deletion>>

\* A plausible mistake: connections are cut before the tokens are denied.
DeauthorizeCutFirst ==
    /\ "deauthorize" \in Events
    /\ \/ deauth = "no" /\ deauth' = "cut" /\ CancelAll /\ UNCHANGED denied
       \/ deauth = "cut" /\ deauth' = "done" /\ denied' = TRUE /\ UNCHANGED <<done, bag>>
    /\ UNCHANGED <<poolVars, conn, jwt, ear, tok, suspended, sync, deletion>>

\* DenyForServer, then CancelAll.
Deauthorize ==
    /\ "deauthorize" \in Events
    /\ \/ deauth = "no" /\ deauth' = "cut" /\ denied' = TRUE /\ UNCHANGED <<done, bag>>
       \/ deauth = "cut" /\ deauth' = "done" /\ CancelAll /\ UNCHANGED denied
    /\ UNCHANGED <<poolVars, conn, jwt, ear, tok, suspended, sync, deletion>>

\* deleteServer is asked for, again after a failure, when the context is cancelled
\* already: the server is suspended first.  What it publishes is among the messages
\* of the pushers.
Delete ==
    /\ "delete" \in Events
    /\ \/ deletion = "no" /\ deletion' = "context"
       \/ deletion = "failed" /\ deletion' = "pools"
    /\ suspended' = TRUE
    /\ UNCHANGED <<poolVars, wsVars, sync, denied, deauth>>

\* One call after the other.
CleanupForDestroy ==
    /\ \/ deletion = "context" /\ deletion' = "pools" /\ UNCHANGED <<poolVars, done, bag>>
       \/ deletion = "pools" /\ deletion' = "bag" /\ Destroy /\ UNCHANGED <<done, bag>>
       \/ deletion = "bag" /\ deletion' = "remove" /\ CancelAll /\ UNCHANGED poolVars
    /\ UNCHANGED <<conn, jwt, ear, tok, suspended, sync, denied, deauth>>

\* The manager forgets the server unless Environment.Destroy fails.
Forget ==
    /\ deletion = "remove" /\ deletion' \in {"done", "failed"}
    /\ UNCHANGED <<poolVars, wsVars, suspended, sync, denied, deauth>>

-----------------------------------------------------------------------------

Pushes(p) == (Push(p) \/ Return(p)) /\ UNCHANGED <<wsVars, srvVars>>
Flies(f) == Flight(f) /\ UNCHANGED <<wsVars, srvVars>>

ConnStep(w) == Admit(w) \/ Leave(w) \/ WatchServer(w)
Listens(c) == StartListening(c) \/ StopListening(c)
EarStep(c) == CheckToken(c) \/ FirstAuth(c) \/ SetJwt(c)

Next ==
    \/ \E p \in Pushers : Pushes(p)
    \/ \E f \in flying : Flies(f)
    \/ \E w \in Conns : Open(w) \/ ReadFails(w) \/ ConnStep(w)
    \/ \E c \in Chans : Inbound(c) \/ EarStep(c) \/ Listens(c)
                       \/ Receive(c) \/ SendJson(c) \/ ListenerDone(c)
    \/ \E b \in BOOLEAN : SyncConfiguration(b)
    \/ SyncCut \/ Deauthorize \/ Delete \/ CleanupForDestroy \/ Forget

Spec == Init /\ [][Next]_vars

\* Goroutines run.  A sync.RWMutex lets a waiting writer in before new readers,
\* a select chooses at random among what is ready, and a connection that is closed
\* ends the calls that read and write it.  Clients, users and the panel owe nothing.
Fairness ==
    /\ \A p \in Pushers : /\ WF_vars(Return(p) /\ UNCHANGED <<wsVars, srvVars>>)
                          /\ WF_vars(\E f \in flying : f.p = p /\ Flies(f))
    /\ \A w \in Conns : WF_vars(ConnStep(w)) /\ WF_vars(w \in done /\ ReadFails(w))
    /\ \A c \in Chans : /\ WF_vars(EarStep(c)) /\ SF_vars(Listens(c))
                        /\ SF_vars(ListenerDone(c))
                        /\ WF_vars(Of[c] \in done /\ SendJson(c))
    /\ WF_vars(SyncCut) /\ SF_vars(CleanupForDestroy) /\ WF_vars(Forget)
FairSpec == Spec /\ Fairness

-----------------------------------------------------------------------------

\* Once Sync has suspended a server nobody is connected to it: a connection that
\* is tracked too late for CancelAll sees the suspension itself.
SuspensionDisconnects ==
    suspended /\ sync = 0 /\ deletion \in {"no", "remove", "done", "failed"} =>
        \A w \in Conns : conn[w] = "serve" => w \in done

\* Once a user is deauthorized no connection goes on with a token from before: it
\* was cancelled, or its token was refused (postDeauthorizeUser).
DeauthDisconnects ==
    deauth = "done" =>
        \A w \in Conns : conn[w] = "serve" /\ jwt[w] = "old" => w \in done

\* Push never blocks for good, however slow the listeners (sink_pool.go:80).
PushCompletes == \A p \in Pushers : p \in pushing ~> p \notin pushing

\* A deletion comes to an end, and unless it failed no connection or listener
\* outlives it (CleanupForDestroy).
DeletionDisconnects ==
    deletion # "no" ~>
        \/ deletion = "failed"
        \/ [](/\ \A w \in Conns : conn[w] = "off"
              /\ \A c \in Chans : ear[c] = "idle")

=============================================================================
