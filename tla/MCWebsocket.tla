----------------------------- MODULE MCWebsocket -----------------------------
EXTENDS Websocket

CONSTANTS w1, c1, c2, p1, p2

\* Two auth messages of one connection.
OneConn == [c \in Chans |-> w1]

\* The sinks have a buffer, the event bus has none.
Buffers == [c \in Chans |-> IF c = c1 THEN 1 ELSE 0]

=============================================================================
