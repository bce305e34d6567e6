------------------------------- MODULE MCEnds -------------------------------
(* What must come to an end: the websockets of a server, its transfer and the *)
(* delivery of its users' activity. They share no state; focus says which of  *)
(* them a behaviour is about, the others stay as they were.                  *)
EXTENDS Websocket, Transfer, Activity

CONSTANTS w1, c2, p1, p2

\* One connection, and the auth message of it; the event bus has no buffer.
OneConn == [c \in Chans |-> w1]
Unbuffered == [c \in Chans |-> 0]

\* Of the entries, 2 and 4 are merged, 3 has a key of its own, 1 and 5 are no SFTP.
KeyOf == [e \in Entries |-> IF e \in {2, 4} THEN "a" ELSE IF e = 3 THEN "b" ELSE Plain]

VARIABLE focus

allVars == <<focus, vars, trVars, aVars>>

EndsInit ==
    /\ focus \in {"websocket", "transfer", "activity"}
    /\ Init /\ TrInit /\ AInit

EndsNext ==
    \/ focus = "websocket" /\ Next   /\ UNCHANGED <<focus, trVars, aVars>>
    \/ focus = "transfer"  /\ TrNext /\ UNCHANGED <<focus, vars, aVars>>
    \/ focus = "activity"  /\ ANext  /\ UNCHANGED <<focus, vars, trVars>>

\* Both nodes of a transfer go on, and the panel removes what has moved; nobody
\* has to cancel. The scheduler runs each cron job again and again and a job goes
\* on; a panel that is asked for ever answers in the end.
EndsSpec ==
    /\ EndsInit /\ [][EndsNext]_allVars
    /\ Fairness
    /\ WF_trVars(SourceStep) /\ WF_trVars(TargetStep \/ PanelRemovesFromSource)
    /\ \A j \in Jobs :
        /\ WF_aVars(focus = "activity" /\ (RunJob(j) \/ JobStep(j)))
        /\ SF_aVars(focus = "activity" /\ SendAcked(j))

=============================================================================
