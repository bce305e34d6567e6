---------------------------- MODULE PowerContract ----------------------------
(***************************************************************************)
(* What the power actions of one server promise, as the comments on the    *)
(* power actions (server/power.go) put it: start, stop and restart are     *)
(* carried out one at a time, and only they bring up the server process,   *)
(* of which there is at most one.  The process may end at any time.        *)
(***************************************************************************)
CONSTANTS Actors, None

VARIABLES
    current,    \* the goroutine whose start, stop or restart is carried out
    live        \* whether the server process exists

Init == current = None /\ live = FALSE

Begin(a) == current = None /\ current' = a /\ UNCHANGED live

End == current # None /\ current' = None /\ UNCHANGED live

Launch == current # None /\ ~live /\ live' = TRUE /\ UNCHANGED current

Die == live /\ live' = FALSE /\ UNCHANGED current

Next == (\E a \in Actors : Begin(a)) \/ End \/ Launch \/ Die

Spec == Init /\ [][Next]_<<current, live>>

=============================================================================
