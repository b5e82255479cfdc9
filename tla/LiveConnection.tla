---------------------------- MODULE LiveConnection ----------------------------
(***************************************************************************)
(* What the rest of the app sees of its connection to the server, with no   *)
(* timers, attempts, tokens or callbacks: at most one connection at a time, *)
(* told to be connected when that one is accepted and not before, told when *)
(* it is lost, given only snapshots that came by it, and none of it again   *)
(* once the client is disposed of.  Nothing is promised any more once the   *)
(* client is disturbed.                                                     *)
(***************************************************************************)
CONSTANTS Channels, NoChannel

VARIABLES
    link,       \* the connection the server serves or is asked for
    up,         \* the server has accepted it
    shown,      \* what the app is told
    given,      \* the connection a late subscriber's snapshot came by
    over,
    disturbed

vars == <<link, up, shown, given, over, disturbed>>

Init ==
    /\ link = NoChannel /\ ~up /\ shown = "disconnected"
    /\ given = NoChannel /\ ~over /\ ~disturbed

(* A new connection takes the place of the one there is, and of its news.   *)
Dial(c) ==
    /\ ~over
    /\ link' = c /\ ~up' /\ shown' = "connecting" /\ given' = NoChannel
    /\ over' = over

Accept ==
    /\ link # NoChannel /\ ~up
    /\ up' /\ shown' = "connected"
    /\ UNCHANGED <<link, given, over>>

Lose ==
    /\ link # NoChannel
    /\ link' = NoChannel /\ ~up' /\ shown' = "connecting"
    /\ UNCHANGED <<given, over>>

(* The app is told that the client is looking for a connection. *)
Look == shown' = "connecting" /\ UNCHANGED <<link, up, given, over>>

Give == up /\ given' = link /\ UNCHANGED <<link, up, shown, over>>

(* The client is told to stop, or disposed of. *)
Leave ==
    /\ link' = NoChannel /\ ~up' /\ shown' = "disconnected"
    /\ given' = NoChannel
    /\ over => over'

Next ==
    \/ /\ ~disturbed /\ ~disturbed'
       /\ Accept \/ Lose \/ Look \/ Give \/ Leave \/ \E c \in Channels : Dial(c)
    \/ disturbed'

Spec == Init /\ [][Next]_vars
=============================================================================
