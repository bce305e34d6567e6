-------------------------- MODULE WebsocketProofs --------------------------
(***************************************************************************)
(* The pool never panics and keeps the order of messages, and suspended    *)
(* servers and deauthorized users have no connection left, for any number  *)
(* of pushers, channels and connections.                                   *)
(***************************************************************************)
EXTENDS Websocket, TLAPS

-----------------------------------------------------------------------------
\* The pool

\* A goroutine of Push belongs to a pusher that holds the read lock, and sends to
\* a channel that is in the pool; what is in the pool is not closed.
PoolInv ==
    /\ sinks \subseteq Chans /\ pushing \subseteq Pushers
    /\ sent \in [Pushers -> 0 .. MaxPush]
    /\ flying \subseteq Flights
    /\ \A f \in flying : f.p \in pushing /\ f.c \in sinks
    /\ sinks \cap closed = {}
    /\ panicked = FALSE

\* Without a pusher inside Push there is no goroutine of one.
LEMMA NobodyFlies == ASSUME PoolInv, pushing = {} PROVE flying = {}
BY DEF PoolInv

\* A goroutine that goes on to its next select is still the same one.
LEMMA Moved ==
    ASSUME NEW f \in Flights, NEW l \in {"send", "drop", "again"}
    PROVE  At(f, l) \in Flights /\ At(f, l).p = f.p /\ At(f, l).c = f.c
BY DEF Flights, At

\* Every step of a goroutine of Push keeps the invariant.
LEMMA FlightInv == ASSUME PoolInv, NEW f \in flying, Flight(f) PROVE PoolInv'
<1>1. f \in Flights /\ f.c \notin closed
    BY DEF PoolInv
<1>2. CASE TrySend(f)
    <2>1. \/ flying' = flying \ {f}
          \/ flying' = (flying \ {f}) \cup {At(f, "drop")}
        BY <1>2 DEF TrySend, Land, Move
    <2>2. UNCHANGED <<sinks, closed, pushing, sent, panicked>>
        BY <1>1, <1>2 DEF TrySend
    <2> QED BY <1>1, <2>1, <2>2, Moved DEF PoolInv
<1>3. CASE DropOldest(f)
    <2>1. \/ flying' \subseteq flying
          \/ flying' \subseteq flying \cup {At(f, "again")}
        BY <1>3 DEF DropOldest, Land, Move
    <2>2. UNCHANGED <<sinks, closed, pushing, sent, panicked>>
        BY <1>3 DEF DropOldest
    <2> QED BY <1>1, <2>1, <2>2, Moved DEF PoolInv
<1>4. CASE SendAgain(f)
    <2>1. flying' = flying \ {f}
        BY <1>4 DEF SendAgain, Land
    <2>2. UNCHANGED <<sinks, closed, pushing, sent, panicked>>
        BY <1>1, <1>4 DEF SendAgain
    <2> QED BY <2>1, <2>2 DEF PoolInv
<1> QED BY <1>2, <1>3, <1>4 DEF Flight

\* So do the steps of pushers ...
LEMMA PusherInv == ASSUME PoolInv, NEW p \in Pushers, Push(p) \/ Return(p) PROVE PoolInv'
<1>1. CASE Push(p)
    <2>1. sent[p] \in 0 .. MaxPush /\ sent[p] + 1 \in 1 .. MaxPush
        BY <1>1, CapAssumption DEF Push, PoolInv
    <2>2. \A f \in flying' : f \in flying \/ (f \in Flights /\ f.p = p /\ f.c \in sinks)
        BY <1>1, <2>1 DEF Push, Flights, PoolInv
    <2>3. sent' \in [Pushers -> 0 .. MaxPush]
        BY <1>1, <2>1 DEF Push, PoolInv
    <2> QED BY <1>1, <2>2, <2>3 DEF Push, PoolInv
<1>2. CASE Return(p)
    BY <1>2 DEF Return, PoolInv
<1> QED BY <1>1, <1>2

\* ... and of those who hold the lock alone.
LEMMA WriterInv == ASSUME PoolInv, NEW c \in Chans, On(c) \/ Off(c) \/ Destroy PROVE PoolInv'
<1>1. pushing = {} /\ flying = {}
    BY NobodyFlies DEF On, Off, Destroy
<1>2. CASE On(c)
    BY <1>1, <1>2 DEF On, PoolInv
<1>3. CASE Off(c)
    BY <1>1, <1>3 DEF Off, PoolInv
<1>4. CASE Destroy
    BY <1>1, <1>4 DEF Destroy, PoolInv
<1> QED BY <1>2, <1>3, <1>4

\* A listener that takes a message changes the pool no further.
LEMMA TakeInv == ASSUME PoolInv, NEW c \in Chans, Take(c) PROVE PoolInv'
<1>1. flying' \subseteq flying
    BY DEF Take, Land
<1> QED BY <1>1 DEF Take, PoolInv

\* Every step of the system keeps the invariant of the pool.
LEMMA NextPoolInv == PoolInv /\ [Next]_vars => PoolInv'
<1> SUFFICES ASSUME PoolInv, [Next]_vars PROVE PoolInv'
    OBVIOUS
<1>1. ASSUME UNCHANGED poolVars PROVE PoolInv'
    BY <1>1 DEF poolVars, PoolInv
<1>2. ASSUME NEW p \in Pushers, Pushes(p) PROVE PoolInv'
    BY <1>2, PusherInv DEF Pushes
<1>3. ASSUME NEW f \in flying, Flies(f) PROVE PoolInv'
    BY <1>3, FlightInv DEF Flies
<1>4. ASSUME NEW w \in Conns, Open(w) \/ ReadFails(w) \/ ConnStep(w) PROVE PoolInv'
    BY <1>1, <1>4 DEF Open, ReadFails, ConnStep, Admit, Leave, WatchServer
<1>5. ASSUME NEW c \in Chans, Inbound(c) \/ EarStep(c) \/ SendJson(c) \/ ListenerDone(c)
      PROVE  PoolInv'
    BY <1>1, <1>5 DEF Inbound, EarStep, CheckToken, FirstAuth, SetJwt, SendJson, ListenerDone
<1>6. ASSUME NEW c \in Chans, Listens(c) PROVE PoolInv'
    BY <1>6, WriterInv DEF Listens, StartListening, StopListening
<1>7. ASSUME NEW c \in Chans, Receive(c) PROVE PoolInv'
    BY <1>7, TakeInv DEF Receive
<1>8. ASSUME (\E b \in BOOLEAN : SyncConfiguration(b)) \/ SyncCut \/ Deauthorize \/ Delete
             \/ Forget
      PROVE  PoolInv'
    BY <1>1, <1>8 DEF SyncConfiguration, SyncCut, Deauthorize, Delete, Forget
<1>9. ASSUME CleanupForDestroy PROVE PoolInv'
    <2>1. UNCHANGED poolVars \/ Destroy
        BY <1>9 DEF CleanupForDestroy
    <2>2. ASSUME Destroy PROVE PoolInv'
        <3>1. pushing = {} /\ flying = {}
            BY <2>2, NobodyFlies DEF Destroy
        <3> QED BY <2>2, <3>1 DEF Destroy, PoolInv
    <2> QED BY <1>1, <2>1, <2>2
<1>10. ASSUME UNCHANGED vars PROVE PoolInv'
    BY <1>1, <1>10 DEF vars
<1> QED BY <1>2, <1>3, <1>4, <1>5, <1>6, <1>7, <1>8, <1>9, <1>10 DEF Next

\* Push never sends on a channel that Off or Destroy has closed, and no channel is
\* closed twice.
THEOREM PoolNeverPanics == Spec => []NoPanic
<1>1. Init => PoolInv
    BY CapAssumption DEF Init, PoolInit, PoolInv
<1>2. PoolInv => NoPanic
    BY DEF PoolInv, NoPanic
<1> QED BY <1>1, <1>2, NextPoolInv, PTL DEF Spec

-----------------------------------------------------------------------------
\* The order of messages

Messages == Pushers \X Nat

\* What a channel holds, between the last message s[p] of each pusher its listener
\* has seen and the last one t[p] that was pushed.
Ordered(b, s, t) ==
    /\ b \in Seq(Messages) /\ s \in [Pushers -> Nat] /\ t \in [Pushers -> Nat]
    /\ \A p \in Pushers : s[p] <= t[p]
    /\ \A i \in 1 .. Len(b) : s[b[i][1]] <= b[i][2] /\ b[i][2] <= t[b[i][1]]
    /\ \A i, j \in 1 .. Len(b) : i < j /\ b[i][1] = b[j][1] => b[i][2] <= b[j][2]

\* A goroutine of Push carries the last message of its pusher: the next one is not
\* pushed before it is done. A channel without a buffer holds nothing.
OrderInv ==
    /\ buf = [c \in Chans |-> buf[c]] /\ seen = [c \in Chans |-> seen[c]]
    /\ \A f \in flying : f.n = sent[f.p]
    /\ \A c \in Chans : Ordered(buf[c], seen[c], sent) /\ (Cap[c] = 0 => buf[c] = <<>>)

\* The last message of a pusher is put behind the others ...
LEMMA OrderedAppend ==
    ASSUME NEW b, NEW s, NEW t, Ordered(b, s, t), NEW p \in Pushers, NEW m, m = <<p, t[p]>>
    PROVE  Ordered(Append(b, m), s, t)
<1> DEFINE u == Append(b, m)
<1>1. m \in Messages /\ m[1] = p /\ m[2] = t[p]
    BY DEF Ordered, Messages
<1>2. b \in Seq(Messages) /\ Len(b) \in Nat
    BY DEF Ordered
<1>3. /\ u \in Seq(Messages) /\ Len(u) = Len(b) + 1 /\ u[Len(b) + 1] = m
      /\ \A i \in 1 .. Len(b) : u[i] = b[i]
    BY <1>1, <1>2
<1>4. \A i \in 1 .. Len(b) + 1 : i \in 1 .. Len(b) \/ i = Len(b) + 1
    BY <1>2
<1> HIDE DEF u
<1>5. \A i \in 1 .. Len(u) : s[u[i][1]] <= u[i][2] /\ u[i][2] <= t[u[i][1]]
    BY <1>1, <1>3, <1>4, SMTT(30) DEF Ordered
<1>6. ASSUME NEW i \in 1 .. Len(u), NEW j \in 1 .. Len(u), i < j, u[i][1] = u[j][1]
      PROVE  u[i][2] <= u[j][2]
    <2>1. CASE j = Len(b) + 1
        BY <1>1, <1>3, <1>5, <1>6, <2>1
    <2>2. CASE j \in 1 .. Len(b)
        <3>1. i \in 1 .. Len(b)
            BY <1>2, <1>6, <2>2
        <3> QED BY <1>3, <1>6, <2>2, <3>1 DEF Ordered
    <2> QED BY <1>3, <1>4, <2>1, <2>2
<1>7. /\ s \in [Pushers -> Nat] /\ t \in [Pushers -> Nat] /\ \A q \in Pushers : s[q] <= t[q]
    BY DEF Ordered
<1>8. Ordered(u, s, t)
    BY <1>3, <1>5, <1>6, <1>7 DEF Ordered
<1> QED BY <1>8 DEF u

\* ... and the first is taken, and perhaps seen.
LEMMA OrderedTail ==
    ASSUME NEW b, NEW s, NEW t, Ordered(b, s, t), b # <<>>
    PROVE  /\ Ordered(Tail(b), s, t)
           /\ Head(b)[1] \in Pushers /\ s[Head(b)[1]] <= Head(b)[2]
           /\ \A r : r = [s EXCEPT ![Head(b)[1]] = Head(b)[2]] => Ordered(Tail(b), r, t)
<1> DEFINE u == Tail(b)
           h == Head(b)
<1>1. b \in Seq(Messages) /\ Len(b) \in Nat /\ Len(b) >= 1
    BY DEF Ordered
<1>2. h = b[1] /\ h \in Messages /\ 1 \in 1 .. Len(b)
    BY <1>1
<1>3. u \in Seq(Messages) /\ Len(u) = Len(b) - 1 /\ \A i \in 1 .. Len(b) - 1 : u[i] = b[i + 1]
    BY <1>1
<1>4. h[1] \in Pushers /\ h[2] \in Nat
    BY <1>2 DEF Messages
<1>5. s[h[1]] <= h[2] /\ h[2] <= t[h[1]]
    BY <1>2 DEF Ordered
<1> HIDE DEF u, h
<1>6. \A i \in 1 .. Len(u) : i + 1 \in 1 .. Len(b) /\ 1 < i + 1 /\ u[i] = b[i + 1]
    BY <1>1, <1>3
<1>7. s \in [Pushers -> Nat] /\ t \in [Pushers -> Nat] /\ \A q \in Pushers : s[q] <= t[q]
    BY DEF Ordered
<1>8. \A i \in 1 .. Len(u) : s[u[i][1]] <= u[i][2] /\ u[i][2] <= t[u[i][1]]
    BY <1>6 DEF Ordered
<1>9. ASSUME NEW i \in 1 .. Len(u), NEW j \in 1 .. Len(u), i < j, u[i][1] = u[j][1]
      PROVE  u[i][2] <= u[j][2]
    <2>1. i + 1 < j + 1 /\ i + 1 \in 1 .. Len(b) /\ j + 1 \in 1 .. Len(b)
        BY <1>3, <1>6, <1>9
    <2>2. b[i + 1][1] = b[j + 1][1]
        BY <1>6, <1>9
    <2>3. b[i + 1][2] <= b[j + 1][2]
        BY <2>1, <2>2 DEF Ordered
    <2> QED BY <1>6, <2>3
<1>10. Ordered(u, s, t)
    BY <1>3, <1>7, <1>8, <1>9 DEF Ordered
<1>11. ASSUME NEW r, r = [s EXCEPT ![h[1]] = h[2]]
       PROVE  Ordered(u, r, t)
    <2>1. /\ r \in [Pushers -> Nat] /\ r[h[1]] = h[2]
          /\ \A q \in Pushers : q # h[1] => r[q] = s[q]
        BY <1>4, <1>7, <1>11
    <2> HIDE <1>11
    <2>2. \A q \in Pushers : r[q] <= t[q]
        BY <1>5, <1>7, <2>1
    <2>3. ASSUME NEW i \in 1 .. Len(u)
          PROVE  r[u[i][1]] <= u[i][2] /\ u[i][2] <= t[u[i][1]]
        <3>1. u[i] \in Messages
            BY <1>3, <1>6, <1>1
        <3>2. u[i][1] \in Pushers
            BY <3>1 DEF Messages
        <3>3. CASE u[i][1] = h[1]
            <4>1. b[1][1] = b[i + 1][1] /\ 1 < i + 1 /\ i + 1 \in 1 .. Len(b)
                BY <1>2, <1>6, <3>3
            <4>2. b[1][2] <= b[i + 1][2]
                BY <1>2, <4>1 DEF Ordered
            <4>3. h[2] <= u[i][2]
                BY <1>2, <1>6, <4>2
            <4> QED BY <1>8, <2>1, <3>3, <4>3
        <3>4. CASE u[i][1] # h[1]
            BY <1>8, <2>1, <3>2, <3>4
        <3> QED BY <3>3, <3>4
    <2> QED BY <1>3, <1>7, <1>9, <2>1, <2>2, <2>3 DEF Ordered
<1> QED BY <1>4, <1>5, <1>10, <1>11 DEF u, h

\* A listener's view of a pusher only moves on, unless it is a new listener's.
SeenInOrder == \A c \in Chans, p \in Pushers : seen'[c][p] >= seen[c][p] \/ seen'[c][p] = 0

\* A step that changes one channel, or none.
LEMMA OneChannel ==
    ASSUME OrderInv, NEW c \in Chans, NEW b, NEW s,
           buf' = [buf EXCEPT ![c] = b], seen' = [seen EXCEPT ![c] = s], sent' = sent,
           Ordered(b, s, sent), Cap[c] = 0 => b = <<>>,
           \A f \in flying' : f.n = sent[f.p],
           \A p \in Pushers : s[p] = seen[c][p] \/ s[p] >= seen[c][p] \/ s[p] = 0
    PROVE  OrderInv' /\ SeenInOrder
<1>1. /\ buf'[c] = b /\ seen'[c] = s
      /\ \A d \in Chans : d # c => buf'[d] = buf[d] /\ seen'[d] = seen[d]
    BY DEF OrderInv
<1>2. buf' = [d \in Chans |-> buf'[d]] /\ seen' = [d \in Chans |-> seen'[d]]
    BY DEF OrderInv
<1>3. \A d \in Chans : Ordered(buf'[d], seen'[d], sent') /\ (Cap[d] = 0 => buf'[d] = <<>>)
    BY <1>1 DEF OrderInv
<1>4. \A d \in Chans, p \in Pushers : seen[d][p] \in Nat
    BY DEF OrderInv, Ordered
<1>5. SeenInOrder
    BY <1>1, <1>4 DEF SeenInOrder
<1> QED BY <1>2, <1>3, <1>5 DEF OrderInv

LEMMA NoChannel ==
    ASSUME OrderInv, UNCHANGED <<buf, seen, sent>>, \A f \in flying' : f.n = sent[f.p]
    PROVE  OrderInv' /\ SeenInOrder
<1>1. \A d \in Chans, p \in Pushers : seen[d][p] \in Nat
    BY DEF OrderInv, Ordered
<1> QED BY <1>1 DEF OrderInv, SeenInOrder

LEMMA PusherOrder ==
    ASSUME PoolInv, OrderInv, NEW p \in Pushers, Push(p) \/ Return(p)
    PROVE  OrderInv' /\ SeenInOrder
<1>1. CASE Return(p)
    BY <1>1, NoChannel DEF Return, OrderInv
<1>2. CASE Push(p)
    <2>1. sent[p] \in Nat /\ sent' = [sent EXCEPT ![p] = sent[p] + 1] /\ UNCHANGED <<buf, seen>>
        BY <1>2, CapAssumption DEF Push, PoolInv
    <2>2. sent \in [Pushers -> Nat]
        BY CapAssumption DEF PoolInv
    <2>3. sent' \in [Pushers -> Nat] /\ sent'[p] = sent[p] + 1 /\ \A q \in Pushers : q # p => sent'[q] = sent[q]
        BY <2>1, <2>2
    <2>4. \A q \in Pushers : sent[q] <= sent'[q]
        BY <2>2, <2>3
    <2>5. \A f \in flying' : f.n = sent'[f.p]
        <3>1. \A f \in flying : f.p \in Pushers /\ f.p # p /\ f.n = sent[f.p]
            BY <1>2 DEF Push, PoolInv, OrderInv
        <3>2. \A f \in flying' : f \in flying \/ (f.p = p /\ f.n = sent[p] + 1)
            BY <1>2 DEF Push
        <3> QED BY <2>3, <3>1, <3>2
    <2>6. ASSUME NEW c \in Chans PROVE Ordered(buf[c], seen[c], sent')
        <3>1. Ordered(buf[c], seen[c], sent)
            BY DEF OrderInv
        <3>2. \A i \in 1 .. Len(buf[c]) : buf[c][i] \in Messages
            BY <3>1 DEF Ordered
        <3>3. \A i \in 1 .. Len(buf[c]) : buf[c][i][1] \in Pushers /\ buf[c][i][2] \in Nat
            BY <3>2 DEF Messages
        <3>4. \A i \in 1 .. Len(buf[c]) : buf[c][i][2] <= sent'[buf[c][i][1]]
            <4>1. \A i \in 1 .. Len(buf[c]) : buf[c][i][2] <= sent[buf[c][i][1]]
                BY <3>1 DEF Ordered
            <4> QED BY <2>2, <2>3, <2>4, <3>3, <4>1
        <3>5. \A q \in Pushers : seen[c][q] <= sent'[q]
            <4>1. \A q \in Pushers : seen[c][q] \in Nat /\ seen[c][q] <= sent[q]
                BY <3>1 DEF Ordered
            <4> QED BY <2>2, <2>3, <2>4, <4>1
        <3> QED BY <2>3, <3>1, <3>4, <3>5 DEF Ordered
    <2>7. \A d \in Chans, q \in Pushers : seen[d][q] \in Nat
        BY DEF OrderInv, Ordered
    <2>8. SeenInOrder
        BY <2>1, <2>7 DEF SeenInOrder
    <2>9. OrderInv'
        BY <2>1, <2>5, <2>6 DEF OrderInv
    <2> QED BY <2>8, <2>9
<1> QED BY <1>1, <1>2

LEMMA FlightOrder ==
    ASSUME PoolInv, OrderInv, NEW f \in flying, Flight(f)
    PROVE  OrderInv' /\ SeenInOrder
<1> DEFINE c == f.c
           m == <<f.p, f.n>>
<1>1. f.p \in Pushers /\ c \in Chans /\ f.n = sent[f.p] /\ m = <<f.p, sent[f.p]>>
    BY DEF PoolInv, Flights, OrderInv
<1>2. UNCHANGED <<sent, seen>>
    BY DEF Flight, TrySend, DropOldest, SendAgain
<1>3. \A g \in flying' : g.n = sent[g.p]
    <2>1. flying' \subseteq flying \cup {At(f, "drop"), At(f, "again")}
        BY DEF Flight, TrySend, DropOldest, SendAgain, Land, Move
    <2> QED BY <1>1, <2>1 DEF At, OrderInv
<1>4. Ordered(buf[c], seen[c], sent) /\ (Cap[c] = 0 => buf[c] = <<>>)
    BY <1>1 DEF OrderInv
<1>5. seen = [seen EXCEPT ![c] = seen[c]] /\ \A p \in Pushers : seen[c][p] \in Nat
    BY <1>1, <1>4 DEF OrderInv, Ordered
<1>6. CASE UNCHANGED buf
    BY <1>2, <1>3, <1>6, NoChannel
<1>7. CASE Deliver(f) /\ ~Full(c)
    <2>1. buf' = [buf EXCEPT ![c] = Append(buf[c], m)]
        BY <1>7 DEF Deliver
    <2>2. Ordered(Append(buf[c], m), seen[c], sent)
        BY <1>1, <1>4, OrderedAppend
    <2>3. Cap[c] # 0
        <3>1. Len(buf[c]) \in Nat
            BY <1>4 DEF Ordered
        <3> QED BY <1>7, <3>1 DEF Full
    <2>4. seen' = [seen EXCEPT ![c] = seen[c]] /\ sent' = sent
        BY <1>2, <1>5
    <2>5. \A p \in Pushers : seen[c][p] = seen[c][p]
        OBVIOUS
    <2> HIDE DEF c, m
    <2> QED BY <1>1, <1>3, <2>1, <2>2, <2>3, <2>4, <2>5, OneChannel
<1>8. CASE buf[c] # <<>> /\ buf' = [buf EXCEPT ![c] = Tail(@)]
    <2>1. buf' = [buf EXCEPT ![c] = Tail(buf[c])]
        BY <1>8
    <2>2. Ordered(Tail(buf[c]), seen[c], sent) /\ Cap[c] # 0
        BY <1>4, <1>8, OrderedTail
    <2>3. seen' = [seen EXCEPT ![c] = seen[c]] /\ sent' = sent
        BY <1>2, <1>5
    <2>4. \A p \in Pushers : seen[c][p] = seen[c][p]
        OBVIOUS
    <2> HIDE DEF c, m
    <2> QED BY <1>1, <1>3, <2>1, <2>2, <2>3, <2>4, OneChannel
<1> QED BY <1>6, <1>7, <1>8 DEF Flight, TrySend, DropOldest, SendAgain

LEMMA TakeOrder ==
    ASSUME PoolInv, OrderInv, NEW c \in Chans, Take(c)
    PROVE  OrderInv' /\ SeenInOrder
<1>1. sent' = sent /\ flying' \subseteq flying
    BY DEF Take, Land
<1>2. \A g \in flying' : g.n = sent[g.p]
    BY <1>1 DEF OrderInv
<1>3. Ordered(buf[c], seen[c], sent) /\ (Cap[c] = 0 => buf[c] = <<>>)
    BY DEF OrderInv
<1>4. seen[c] \in [Pushers -> Nat] /\ sent \in [Pushers -> Nat] /\ \A p \in Pushers : seen[c][p] <= sent[p]
    BY <1>3 DEF Ordered
<1>5. CASE UNCHANGED <<buf, seen>>
    BY <1>1, <1>2, <1>5, NoChannel
<1>6. CASE buf[c] # <<>> /\ buf' = [buf EXCEPT ![c] = Tail(@)] /\ See(c, Head(buf[c]))
    <2> DEFINE h == Head(buf[c])
               r == [seen[c] EXCEPT ![h[1]] = h[2]]
               b == Tail(buf[c])
    <2>1. /\ h[1] \in Pushers /\ seen[c][h[1]] <= h[2] /\ Ordered(b, r, sent) /\ Cap[c] # 0
        BY <1>3, <1>6, OrderedTail
    <2>2. buf' = [buf EXCEPT ![c] = b] /\ seen' = [seen EXCEPT ![c] = r]
        BY <1>6 DEF See
    <2>3. h[2] \in Nat
        <3>1. h \in Messages
            BY <1>3, <1>6 DEF Ordered
        <3> QED BY <3>1 DEF Messages
    <2> HIDE DEF h
    <2>4. \A p \in Pushers : r[p] >= seen[c][p]
        <3> DEFINE old == seen[c]
        <3>1. old \in [Pushers -> Nat] /\ h[1] \in Pushers /\ h[2] \in Nat /\ old[h[1]] <= h[2]
              /\ r = [old EXCEPT ![h[1]] = h[2]]
            BY <1>4, <2>1, <2>3
        <3> HIDE DEF old, r
        <3>2. \A p \in Pushers : r[p] >= old[p]
            BY ONLY <3>1
        <3> QED BY <3>2 DEF old
    <2> HIDE DEF r, b
    <2> QED BY <1>1, <1>2, <2>1, <2>2, <2>4, OneChannel
<1>7. CASE /\ Cap[c] = 0 /\ UNCHANGED buf
           /\ \E f \in flying : f.c = c /\ See(c, <<f.p, f.n>>)
    <2>1. PICK f \in flying : See(c, <<f.p, f.n>>)
        BY <1>7
    <2>2. f.p \in Pushers /\ f.n = sent[f.p]
        BY DEF PoolInv, Flights, OrderInv
    <2> DEFINE r == [seen[c] EXCEPT ![f.p] = sent[f.p]]
    <2>3. seen' = [seen EXCEPT ![c] = r]
        BY <2>1, <2>2 DEF See
    <2>4. r \in [Pushers -> Nat] /\ \A p \in Pushers : r[p] <= sent[p] /\ r[p] >= seen[c][p]
        BY <1>4, <2>2
    <2> HIDE DEF r
    <2>5. buf[c] = <<>> /\ Ordered(buf[c], r, sent)
        BY <1>3, <1>4, <1>7, <2>4 DEF Ordered
    <2>6. buf' = [buf EXCEPT ![c] = buf[c]]
        BY <1>7 DEF OrderInv
    <2> QED BY <1>1, <1>2, <2>3, <2>4, <2>5, <2>6, OneChannel
<1> QED BY <1>5, <1>6, <1>7 DEF Take

LEMMA WriterOrder ==
    ASSUME PoolInv, OrderInv, NEW c \in Chans, On(c) \/ Off(c)
    PROVE  OrderInv' /\ SeenInOrder
<1>1. CASE On(c)
    BY <1>1, NoChannel DEF On, OrderInv
<1>2. CASE Off(c)
    <2> DEFINE z == [p \in Pushers |-> 0]
    <2>1. /\ buf' = [buf EXCEPT ![c] = <<>>] /\ seen' = [seen EXCEPT ![c] = z]
          /\ UNCHANGED <<sent, flying>>
        BY <1>2 DEF Off
    <2>2. sent \in [Pushers -> Nat]
        BY DEF OrderInv, Ordered
    <2>3. z \in [Pushers -> Nat] /\ \A p \in Pushers : z[p] = 0
        OBVIOUS
    <2> HIDE DEF z
    <2>4. Ordered(<<>>, z, sent)
        BY <2>2, <2>3 DEF Ordered
    <2>5. \A f \in flying' : f.n = sent[f.p]
        BY <2>1 DEF OrderInv
    <2>6. /\ buf'[c] = <<>> /\ seen'[c] = z
          /\ \A d \in Chans : d # c => buf'[d] = buf[d] /\ seen'[d] = seen[d]
        BY <2>1 DEF OrderInv
    <2>7. buf' = [d \in Chans |-> buf'[d]] /\ seen' = [d \in Chans |-> seen'[d]]
        BY <2>1 DEF OrderInv
    <2>8. \A d \in Chans : Ordered(buf'[d], seen'[d], sent') /\ (Cap[d] = 0 => buf'[d] = <<>>)
        BY <2>1, <2>4, <2>6 DEF OrderInv
    <2>9. \A d \in Chans, p \in Pushers : seen[d][p] \in Nat
        BY DEF OrderInv, Ordered
    <2>10. SeenInOrder
        BY <2>3, <2>6, <2>9 DEF SeenInOrder
    <2> QED BY <2>1, <2>5, <2>7, <2>8, <2>10 DEF OrderInv
<1> QED BY <1>1, <1>2

\* Every step of the system keeps the order.
LEMMA NextOrder == PoolInv /\ OrderInv /\ [Next]_vars => OrderInv' /\ SeenInOrder
<1> SUFFICES ASSUME PoolInv, OrderInv, [Next]_vars PROVE OrderInv' /\ SeenInOrder
    OBVIOUS
<1>1. ASSUME UNCHANGED <<buf, seen, sent, flying>> PROVE OrderInv' /\ SeenInOrder
    BY <1>1, NoChannel DEF OrderInv
<1>2. ASSUME NEW p \in Pushers, Pushes(p) PROVE OrderInv' /\ SeenInOrder
    BY <1>2, PusherOrder DEF Pushes
<1>3. ASSUME NEW f \in flying, Flies(f) PROVE OrderInv' /\ SeenInOrder
    BY <1>3, FlightOrder DEF Flies
<1>4. ASSUME NEW w \in Conns, Open(w) \/ ReadFails(w) \/ ConnStep(w) PROVE OrderInv' /\ SeenInOrder
    BY <1>1, <1>4 DEF Open, ReadFails, ConnStep, Admit, Leave, WatchServer, poolVars
<1>5. ASSUME NEW c \in Chans, Inbound(c) \/ EarStep(c) \/ SendJson(c) \/ ListenerDone(c)
      PROVE  OrderInv' /\ SeenInOrder
    BY <1>1, <1>5 DEF Inbound, EarStep, CheckToken, FirstAuth, SetJwt, SendJson, ListenerDone, poolVars
<1>6. ASSUME NEW c \in Chans, Listens(c) PROVE OrderInv' /\ SeenInOrder
    BY <1>6, WriterOrder DEF Listens, StartListening, StopListening
<1>7. ASSUME NEW c \in Chans, Receive(c) PROVE OrderInv' /\ SeenInOrder
    BY <1>7, TakeOrder DEF Receive
<1>8. ASSUME (\E b \in BOOLEAN : SyncConfiguration(b)) \/ SyncCut \/ Deauthorize \/ Delete
             \/ CleanupForDestroy \/ Forget
      PROVE  OrderInv' /\ SeenInOrder
    BY <1>1, <1>8 DEF SyncConfiguration, SyncCut, Deauthorize, Delete, CleanupForDestroy, Destroy, Forget, poolVars
<1>9. ASSUME UNCHANGED vars PROVE OrderInv' /\ SeenInOrder
    BY <1>1, <1>9 DEF vars, poolVars
<1> QED BY <1>2, <1>3, <1>4, <1>5, <1>6, <1>7, <1>8, <1>9 DEF Next

\* A listener receives the messages of each pusher in the order they were pushed,
\* for any capacities and any number of pushers and listeners that come and go: the
\* goroutines of one Push are done before the next (SinkPool.Push waits for them).
THEOREM MessagesInOrder == Spec => InOrder
<1>1. Init => PoolInv /\ OrderInv
    <2>1. ASSUME Init PROVE PoolInv
        BY <2>1, CapAssumption DEF Init, PoolInit, PoolInv
    <2>2. ASSUME Init PROVE OrderInv
        <3>1. /\ buf = [c \in Chans |-> <<>>] /\ sent = [p \in Pushers |-> 0] /\ flying = {}
              /\ seen = [c \in Chans |-> [p \in Pushers |-> 0]]
            BY <2>2 DEF Init, PoolInit
        <3>2. \A c \in Chans : Ordered(buf[c], seen[c], sent)
            BY <3>1 DEF Ordered
        <3> QED BY <3>1, <3>2 DEF OrderInv
    <2> QED BY <2>1, <2>2
<1>2. PoolInv /\ OrderInv /\ [Next]_vars => PoolInv' /\ OrderInv'
    BY NextPoolInv, NextOrder
<1>3. PoolInv /\ OrderInv /\ [Next]_vars
        => [\A c \in Chans, p \in Pushers : seen'[c][p] >= seen[c][p] \/ seen'[c][p] = 0]_poolVars
    BY NextOrder DEF SeenInOrder
<1> QED BY <1>1, <1>2, <1>3, PTL DEF Spec, InOrder

-----------------------------------------------------------------------------
\* Suspension

Places == {"off", "track", "check", "serve", "untrack", "cancel"}

\* A connection that may still be served is in the bag unless it was cancelled:
\* CancelAll misses none.
Tracked ==
    /\ conn \in [Conns -> Places]
    /\ \A w \in Conns : conn[w] \in {"check", "serve"} => w \in bag \cup done

\* A call of Sync that is not over yet will cut what it suspends.
ConnInv == Tracked /\ sync \in Nat /\ SuspensionDisconnects

\* Every step keeps the connections tracked and a suspended server empty.
LEMMA NextConnInv == ConnInv /\ [Next]_vars => ConnInv'
<1> SUFFICES ASSUME ConnInv, [Next]_vars PROVE ConnInv'
    OBVIOUS
<1> USE DEF ConnInv, Tracked, SuspensionDisconnects, Places, Conn
<1>1. ASSUME UNCHANGED <<conn, done, bag, suspended, sync, deletion>> PROVE ConnInv'
    BY <1>1
<1>2. ASSUME NEW p \in Pushers, Pushes(p) PROVE ConnInv'
    BY <1>1, <1>2 DEF Pushes, wsVars, srvVars
<1>3. ASSUME NEW f \in flying, Flies(f) PROVE ConnInv'
    BY <1>1, <1>3 DEF Flies, wsVars, srvVars
<1>4. ASSUME NEW w \in Conns, Open(w) \/ ReadFails(w) \/ ConnStep(w) PROVE ConnInv'
    <2>1. CASE Open(w)
        BY <2>1 DEF Open, srvVars
    <2>2. CASE ReadFails(w)
        BY <2>2 DEF ReadFails, srvVars
    <2>3. CASE Admit(w)
        BY <2>3 DEF Admit, srvVars
    <2>4. CASE Leave(w)
        BY <2>4 DEF Leave, srvVars
    <2>5. CASE WatchServer(w)
        BY <2>5 DEF WatchServer, srvVars
    <2> QED BY <1>4, <2>1, <2>2, <2>3, <2>4, <2>5 DEF ConnStep
<1>5. ASSUME NEW c \in Chans, Inbound(c) PROVE ConnInv'
    BY <1>5 DEF Inbound, srvVars
<1>6. ASSUME NEW c \in Chans,
             EarStep(c) \/ Listens(c) \/ Receive(c) \/ SendJson(c) \/ ListenerDone(c)
      PROVE  ConnInv'
    BY <1>1, <1>6 DEF EarStep, CheckToken, FirstAuth, SetJwt, Listens, StartListening,
        StopListening, Receive, SendJson, ListenerDone, srvVars
<1>7. ASSUME NEW b \in BOOLEAN, SyncConfiguration(b) PROVE ConnInv'
    BY <1>7 DEF SyncConfiguration, wsVars
<1>8. ASSUME SyncCut PROVE ConnInv'
    BY <1>8 DEF SyncCut, CancelAll
<1>9. ASSUME Deauthorize PROVE ConnInv'
    BY <1>9 DEF Deauthorize, CancelAll
<1>10. ASSUME Delete PROVE ConnInv'
    BY <1>10 DEF Delete, wsVars
<1>11. ASSUME CleanupForDestroy \/ Forget PROVE ConnInv'
    BY <1>11 DEF CleanupForDestroy, Forget, CancelAll, wsVars
<1>12. ASSUME UNCHANGED vars PROVE ConnInv'
    BY <1>1, <1>12 DEF vars, wsVars, srvVars
<1> QED BY <1>2, <1>3, <1>4, <1>5, <1>6, <1>7, <1>8, <1>9, <1>10, <1>11, <1>12 DEF Next

\* The system starts without a connection.
LEMMA InitConnInv == Init => ConnInv
BY DEF Init, ConnInv, Tracked, SuspensionDisconnects, Places

\* A server that Sync has suspended, or that is deleted, serves nobody, for any
\* number of connections that come and go meanwhile.
THEOREM SuspensionHolds == Spec => []SuspensionDisconnects
<1>1. ConnInv => SuspensionDisconnects
    BY DEF ConnInv
<1> QED BY <1>1, InitConnInv, NextConnInv, PTL DEF Spec

-----------------------------------------------------------------------------
\* Deauthorization

Kinds == {"none", "old", "new"}
Ears == {"idle", "token", "first", "renew", "refresh", "on", "listen", "send", "off"}

\* An auth message whose token was accepted and is not yet in use.
Pending(c) == ear[c] \in {"first", "renew", "refresh"}

\* A connection has no token and no message under way before it is served; when
\* the deauthorization is over, an old token, in use or on its way, is one of a
\* connection that is cancelled.
AuthInv ==
    /\ jwt \in [Conns -> Kinds] /\ tok \in [Chans -> Kinds]
    /\ ear \in [Chans -> Ears]
    /\ deauth # "no" => denied
    /\ \A w \in Conns : conn[w] \in {"track", "check"} =>
            jwt[w] = "none" /\ \A c \in Chans : Of[c] = w => ear[c] = "idle"
    /\ DeauthDisconnects
    /\ deauth = "done" => \A c \in Chans :
            Pending(c) /\ tok[c] = "old" /\ conn[Of[c]] = "serve" => Of[c] \in done

\* Every step keeps old tokens out of connections that are served.
LEMMA NextAuthInv == Tracked /\ AuthInv /\ [Next]_vars => AuthInv'
<1> SUFFICES ASSUME Tracked, AuthInv, [Next]_vars PROVE AuthInv'
    OBVIOUS
<1> USE OfAssumption DEF AuthInv, Tracked, DeauthDisconnects, Pending, Kinds, Ears, Places, Conn,
        Ear
<1>1. ASSUME UNCHANGED <<conn, done, jwt, ear, tok, denied, deauth>> PROVE AuthInv'
    BY <1>1
<1>2. ASSUME NEW p \in Pushers, Pushes(p) PROVE AuthInv'
    BY <1>1, <1>2 DEF Pushes, wsVars, srvVars
<1>3. ASSUME NEW f \in flying, Flies(f) PROVE AuthInv'
    BY <1>1, <1>3 DEF Flies, wsVars, srvVars
<1>4. ASSUME NEW w \in Conns, Open(w) \/ ReadFails(w) \/ ConnStep(w) PROVE AuthInv'
    <2>1. CASE Open(w)
        BY <2>1 DEF Open, srvVars
    <2>2. CASE ReadFails(w)
        BY <2>2 DEF ReadFails, srvVars
    <2>3. CASE Admit(w)
        BY <2>3 DEF Admit, srvVars
    <2>4. CASE Leave(w)
        BY <2>4 DEF Leave, srvVars
    <2>5. CASE WatchServer(w)
        BY <2>5 DEF WatchServer, srvVars
    <2> QED BY <1>4, <2>1, <2>2, <2>3, <2>4, <2>5 DEF ConnStep
<1>5. ASSUME NEW c \in Chans, Inbound(c) \/ EarStep(c) PROVE AuthInv'
    <2>1. CASE Inbound(c)
        BY <2>1 DEF Inbound, srvVars
    <2>2. CASE CheckToken(c)
        BY <2>2 DEF CheckToken, Denylisted, srvVars
    <2>3. CASE FirstAuth(c)
        BY <2>3 DEF FirstAuth, srvVars
    <2>4. CASE SetJwt(c)
        BY <2>4 DEF SetJwt, srvVars
    <2> QED BY <1>5, <2>1, <2>2, <2>3, <2>4 DEF EarStep
<1>6. ASSUME NEW c \in Chans, Listens(c) \/ Receive(c) \/ SendJson(c) \/ ListenerDone(c)
      PROVE  AuthInv'
    <2>1. ear[c] \in {"on", "off", "listen", "send"} /\ ear' = [ear EXCEPT ![c] = ear'[c]]
          /\ ear'[c] \in {"idle", "listen", "send", "off"}
        BY <1>6 DEF Listens, StartListening, StopListening, Receive, SendJson, ListenerDone
    <2>2. UNCHANGED <<conn, done, jwt, tok, denied, deauth>>
        BY <1>6 DEF Listens, StartListening, StopListening, Receive, SendJson, ListenerDone,
            srvVars
    <2> QED BY <2>1, <2>2
<1>7. ASSUME NEW b \in BOOLEAN, SyncConfiguration(b) PROVE AuthInv'
    BY <1>1, <1>7 DEF SyncConfiguration, wsVars
<1>8. ASSUME SyncCut \/ CleanupForDestroy \/ Forget PROVE AuthInv'
    <2>1. done \subseteq done' /\ UNCHANGED <<conn, jwt, ear, tok, denied, deauth>>
        BY <1>8 DEF SyncCut, CleanupForDestroy, Forget, CancelAll, wsVars
    <2> QED BY <2>1
<1>9. ASSUME Deauthorize PROVE AuthInv'
    BY <1>9 DEF Deauthorize, CancelAll
<1>10. ASSUME Delete PROVE AuthInv'
    BY <1>1, <1>10 DEF Delete, wsVars
<1>11. ASSUME UNCHANGED vars PROVE AuthInv'
    BY <1>1, <1>11 DEF vars, wsVars, srvVars
<1> QED BY <1>2, <1>3, <1>4, <1>5, <1>6, <1>7, <1>8, <1>9, <1>10, <1>11 DEF Next

\* A user who is deauthorized keeps no connection that goes on with a token from
\* before, whatever auth messages were under way.
THEOREM DeauthHolds == Spec => []DeauthDisconnects
<1>1. Init => AuthInv
    BY DEF Init, AuthInv, DeauthDisconnects, Pending, Kinds, Ears
<1>2. ConnInv => Tracked
    BY DEF ConnInv
<1>3. AuthInv => DeauthDisconnects
    BY DEF AuthInv
<1> QED BY <1>1, <1>2, <1>3, InitConnInv, NextConnInv, NextAuthInv, PTL DEF Spec

=============================================================================
