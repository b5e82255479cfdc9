---------------------------- MODULE WsClientProofs ----------------------------
(***************************************************************************)
(* Machine-checked proofs about WsClient, for any number of channels.        *)
(***************************************************************************)
EXTENDS WsClient, TLAPS

Clean == marks \cap {"late", "token"} = {}

(* The channel held is one the server may serve; the only handshake is that *)
(* of the attempt.                                                          *)
SocketsOK ==
    /\ channel # NoChannel => channel \in Alive
    /\ awaited # NoChannel => socket[awaited] \in {"opening", "closing"}
    /\ \A c \in Channels : socket[c] = "opening" => c = awaited
    /\ attempt = "ready" /\ channel # NoChannel => channel = awaited

(* Who is connected can send, and who holds a channel wants to. *)
StateOK ==
    /\ state = "connected" => channel # NoChannel
    /\ channel # NoChannel => wanted

(* An undisturbed attempt still holds its channel, a disposed client wants  *)
(* and expects nothing, and the snapshot came by the channel held.          *)
Undisturbed ==
    /\ marks = {} /\ wanted /\ attempt = "ready" => channel = awaited
    /\ Clean => /\ Alive \subseteq {channel}
                /\ channel # NoChannel => snapshot \in {NoChannel, channel}
    /\ Clean /\ disposed => /\ ~wanted /\ ~timer /\ Alive = {}
                            /\ attempt \notin {"token", "granted"}

(* The inductive invariant. *)
Inv == TypeOK /\ SocketsOK /\ StateOK /\ Undisturbed /\ NeverStranded

---------------------------------------------------------------------------
LEMMA InitInv == Init => Inv
  BY WsAssumption DEF Init, Inv, TypeOK, SocketsOK, StateOK, Undisturbed, NeverStranded,
     Alive, Clean, Marks

(* Starting an attempt, or sharing the one that runs. *)
LEMMA ConnectInv == ASSUME Inv, Connect PROVE Inv'
  BY WsAssumption DEF Connect, Connects, Inv, TypeOK, SocketsOK, StateOK, Undisturbed,
     NeverStranded, Alive, Clean

LEMMA TimerInv == ASSUME Inv, TimerFires PROVE Inv'
  <1>1. Alive' = Alive
    BY DEF TimerFires, Alive
  <1>2. TypeOK' /\ SocketsOK' /\ StateOK'
    BY <1>1 DEF TimerFires, Connects, Inv, TypeOK, SocketsOK, StateOK
  <1>3. Undisturbed' /\ NeverStranded'
    BY <1>1 DEF TimerFires, Connects, Inv, TypeOK, Undisturbed, NeverStranded, Clean
  <1> QED
    BY <1>2, <1>3 DEF Inv

LEMMA ReadTokenInv == ASSUME Inv, ReadToken PROVE Inv'
  BY WsAssumption DEF ReadToken, Inv, TypeOK, SocketsOK, StateOK, Undisturbed,
     NeverStranded, Alive, Clean

LEMMA ReadFailsInv == ASSUME Inv, ReadFails PROVE Inv'
  BY WsAssumption DEF ReadFails, Inv, TypeOK, SocketsOK, StateOK, Undisturbed,
     NeverStranded, Alive, Clean, Marks

(* Closing the channel leaves nothing that the server serves, but what the  *)
(* marks are for.                                                           *)
LEMMA ClosedFacts ==
    ASSUME Inv
    PROVE  /\ Closed \in [Channels -> {"free", "opening", "open", "closing"}]
           /\ \A c \in Channels : Closed[c] \in {"opening", "open"} =>
                 c \in Alive /\ c # channel /\ ~Clean
           /\ \A c \in Channels : Closed[c] = "opening" => c = awaited
           /\ awaited # NoChannel => Closed[awaited] \in {"opening", "closing"}
  BY WsAssumption DEF Closed, Inv, TypeOK, SocketsOK, Undisturbed, Alive

LEMMA NoTokenInv == ASSUME Inv, NoToken PROVE Inv'
  BY ClosedFacts, WsAssumption DEF NoToken, Shut, SnapshotLeft, Inv, TypeOK, SocketsOK, StateOK,
     Undisturbed, NeverStranded, Alive, Clean

LEMMA DisconnectInv == ASSUME Inv, Disconnect PROVE Inv'
  BY ClosedFacts, WsAssumption DEF Disconnect, Shut, SnapshotLeft, Mark, Inv, TypeOK, SocketsOK,
     StateOK, Undisturbed, NeverStranded, Alive, Clean, Marks

LEMMA DisposeInv == ASSUME Inv, Dispose PROVE Inv'
  BY ClosedFacts, WsAssumption DEF Dispose, Shut, SnapshotLeft, Mark, Inv, TypeOK, SocketsOK,
     StateOK, Undisturbed, NeverStranded, Alive, Clean, Marks

LEMMA OpenInv == ASSUME Inv, NEW c \in Channels, Open(c) PROVE Inv'
  BY ClosedFacts, WsAssumption DEF Open, SnapshotLeft, Inv, TypeOK, SocketsOK, StateOK,
     Undisturbed, NeverStranded, Alive, Clean

LEMMA OpenedInv == ASSUME Inv, NEW c \in Channels, Opened(c) PROVE Inv'
  BY WsAssumption DEF Opened, StillReady, Inv, TypeOK, SocketsOK, StateOK, Undisturbed,
     NeverStranded, Alive, Clean

LEMMA FailsInv == ASSUME Inv, NEW c \in Channels, Fails(c) PROVE Inv'
  BY WsAssumption DEF Fails, Scheduled, Inv, TypeOK, SocketsOK, StateOK, Undisturbed,
     NeverStranded, Alive, Clean

(* The end of a channel that is not in its handshake. *)
LEMMA DoneInv ==
    ASSUME Inv, NEW c \in Channels, NEW rejected \in BOOLEAN,
           Done(c, rejected), c # awaited
    PROVE  Inv'
  <1>1. TypeOK'
    BY DEF Done, Mark, Scheduled, Inv, TypeOK, Marks
  <1>2. SocketsOK' /\ StateOK'
    BY WsAssumption DEF Done, Inv, TypeOK, SocketsOK, StateOK, Alive
  <1>3. Undisturbed'
    BY WsAssumption DEF Done, Mark, Scheduled, Inv, TypeOK, SocketsOK, StateOK, Undisturbed,
       Alive, Clean, Marks
  <1>4. NeverStranded'
    BY WsAssumption DEF Done, Mark, Scheduled, Inv, TypeOK, SocketsOK, StateOK, Undisturbed,
       NeverStranded, Alive, Clean, Marks
  <1> QED
    BY <1>1, <1>2, <1>3, <1>4 DEF Inv

LEMMA EndsInv == ASSUME Inv, NEW c \in Channels, Ends(c) PROVE Inv'
  <1>1. c # awaited
    BY WsAssumption DEF Ends, Inv, SocketsOK
  <1> QED
    BY <1>1, DoneInv DEF Ends

LEMMA ClosesInv == ASSUME Inv, NEW c \in Channels, Closes(c) PROVE Inv'
  <1>1. CASE Done(c, FALSE)
    BY <1>1, DoneInv DEF Closes
  <1>2. CASE /\ socket[c] = "closing" /\ awaited # c
             /\ socket' = [socket EXCEPT ![c] = "free"]
             /\ UNCHANGED <<channel, attempt, awaited, timer, refreshing, wanted,
                            disposed, state, snapshot, signedIn, marks>>
    <2>1. TypeOK' /\ SocketsOK' /\ StateOK'
      BY <1>2, WsAssumption DEF Inv, TypeOK, SocketsOK, StateOK, Alive
    <2>2. Alive' = Alive
      BY <1>2 DEF Inv, TypeOK, Alive
    <2> QED
      BY <1>2, <2>1, <2>2 DEF Inv, Undisturbed, NeverStranded, Clean
  <1> QED
    BY <1>1, <1>2 DEF Closes

LEMMA RefreshedInv == ASSUME Inv, NEW c \in Channels, Refreshed(c) PROVE Inv'
  <1>1. /\ Alive' = Alive /\ refreshing' \in SUBSET Channels
        /\ attempt' = attempt \/ (attempt' = "token" /\ attempt = "none")
        /\ (attempt' # "none" /\ wanted /\ ~disposed) \/ timer' = Unrefreshed
    BY DEF Refreshed, Connects, Alive, Inv, TypeOK
  <1>2. TypeOK'
    BY <1>1 DEF Refreshed, Unrefreshed, Scheduled, Connects, Inv, TypeOK
  <1>3. SocketsOK' /\ StateOK'
    BY <1>1 DEF Refreshed, Connects, Inv, SocketsOK, StateOK
  <1>4. Undisturbed'
    BY <1>1 DEF Refreshed, Unrefreshed, Scheduled, Connects, Inv, TypeOK, Undisturbed, Clean
  <1>5. NeverStranded'
    BY <1>1 DEF Refreshed, Unrefreshed, Scheduled, Inv, Undisturbed, NeverStranded, Clean
  <1> QED
    BY <1>2, <1>3, <1>4, <1>5 DEF Inv

LEMMA SnapshotInv == ASSUME Inv, NEW c \in Channels, Snapshot(c) PROVE Inv'
  <1>1. Alive' = Alive /\ c \in Alive
    BY DEF Snapshot, Alive
  <1>2. TypeOK' /\ SocketsOK' /\ StateOK' /\ NeverStranded'
    BY <1>1 DEF Snapshot, Inv, TypeOK, SocketsOK, StateOK, NeverStranded
  <1>3. Undisturbed'
    BY <1>1 DEF Snapshot, Inv, Undisturbed, Clean
  <1> QED
    BY <1>2, <1>3 DEF Inv

LEMMA QuietInv == ASSUME Inv, SignInOrOut \/ UNCHANGED vars PROVE Inv'
  <1>1. UNCHANGED <<channel, socket, attempt, awaited, timer, refreshing, wanted,
                    disposed, state, snapshot, marks>>
        /\ (signedIn' = ~signedIn \/ signedIn' = signedIn)
    BY DEF SignInOrOut, vars
  <1>2. Alive' = Alive /\ signedIn' \in BOOLEAN
    BY <1>1 DEF Alive, Inv, TypeOK
  <1> QED
    BY <1>1, <1>2 DEF Inv, TypeOK, SocketsOK, StateOK, Undisturbed, NeverStranded, Clean

(* Every step keeps the invariant: one lemma per action. *)
LEMMA NextInv == ASSUME Inv, [Next]_vars PROVE Inv'
  <1>1. CASE Client
    BY <1>1, TimerInv, ReadTokenInv, NoTokenInv, OpenInv DEF Client
  <1>2. ASSUME NEW c \in Channels,
               Handshake(c) \/ Ends(c) \/ Closes(c) \/ Refreshed(c) \/ Snapshot(c)
        PROVE  Inv'
    BY <1>2, OpenedInv, FailsInv, EndsInv, ClosesInv, RefreshedInv, SnapshotInv DEF Handshake
  <1> QED
    BY <1>1, <1>2, ConnectInv, ReadFailsInv, DisconnectInv, DisposeInv, QuietInv DEF Next

THEOREM Invariance == Spec => []Inv
  BY InitInv, NextInv, PTL DEF Spec

---------------------------------------------------------------------------
(* Every variable keeps its type, and an attempt awaits a channel exactly   *)
(* while it waits for a handshake.                                          *)
THEOREM TypeCorrect == Spec => []TypeOK
  <1>1. Inv => TypeOK
    BY DEF Inv
  <1> QED
    BY <1>1, Invariance, PTL

(* At most one connection of a client is served, whatever is in flight.     *)
THEOREM Single == Spec => []OneConnection
  <1>1. Inv => OneConnection
    BY DEF Inv, Undisturbed, Clean, OneConnection
  <1> QED
    BY <1>1, Invariance, PTL

(* A client that should be connected holds a live channel or is on its way. *)
THEOREM ReconnectKept == Spec => []NeverStranded
  <1>1. Inv => NeverStranded
    BY DEF Inv
  <1> QED
    BY <1>1, Invariance, PTL

(* Nothing that was in flight when a client was disposed connects it again. *)
THEOREM DisposedForGood == Spec => []DisposedIsOver
  <1>1. Inv => DisposedIsOver
    BY DEF Inv, Undisturbed, Clean, DisposedIsOver
  <1> QED
    BY <1>1, Invariance, PTL

(* Connected means able to send, even with callbacks of replaced channels.  *)
THEOREM ConnectedSends == Spec => []ConnectedCanSend
  <1>1. Inv => ConnectedCanSend
    BY DEF Inv, StateOK, ConnectedCanSend
  <1> QED
    BY <1>1, Invariance, PTL

(* The cached snapshot came by the connection the client shows.             *)
THEOREM SnapshotOwn == Spec => []SnapshotIsCurrent
  <1>1. Inv => SnapshotIsCurrent
    BY DEF Inv, StateOK, Undisturbed, Clean, SnapshotIsCurrent
  <1> QED
    BY <1>1, Invariance, PTL

---------------------------------------------------------------------------
(* LiveConnection.  The connection the contract speaks of is the channel    *)
(* held, while the server serves it or is asked to.                         *)
Link == IF channel \in Alive THEN channel ELSE NoChannel
Up == channel # NoChannel /\ socket[channel] = "open"
Seen == <<Link, Up, state, snapshot, disposed>>

(* Nothing takes a mark back. *)
LEMMA CleanBefore == ASSUME [Next]_vars, Clean' PROVE Clean
  <1>1. CASE UNCHANGED vars
    BY <1>1 DEF vars, Clean
  <1>2. ASSUME NEW c \in Channels, Ends(c) \/ Closes(c) PROVE Clean
    BY <1>2 DEF Ends, Closes, Done, Mark, Clean
  <1>3. ASSUME NEW c \in Channels, Open(c) \/ Handshake(c) \/ Refreshed(c) \/ Snapshot(c)
        PROVE  Clean
    BY <1>3 DEF Open, Handshake, Opened, Fails, Refreshed, Snapshot, Clean
  <1>4. CASE Connect \/ TimerFires \/ ReadToken \/ NoToken \/ ReadFails \/ SignInOrOut
    BY <1>4 DEF Connect, TimerFires, ReadToken, NoToken, ReadFails, SignInOrOut, Clean
  <1>5. CASE Disconnect \/ Dispose
    BY <1>5 DEF Disconnect, Dispose, Mark, Clean
  <1> QED
    BY <1>1, <1>2, <1>3, <1>4, <1>5 DEF Next, Client

LEMMA LinkFacts ==
    ASSUME Inv
    PROVE  /\ Link = channel
           /\ Up <=> channel # NoChannel /\ socket[channel] = "open"
  BY WsAssumption DEF Inv, SocketsOK, Link, Up, Alive

(* The client starts an attempt, or only reads and remembers. *)
LEMMA LookStep ==
    ASSUME Inv, UNCHANGED <<channel, socket, snapshot, disposed>>,
           state' \in {state, "connecting"}
    PROVE  Line!Look \/ UNCHANGED Seen
  <1>1. Link' = Link /\ Up' = Up
    BY DEF Link, Up, Alive
  <1> QED
    BY <1>1 DEF Line!Look, Link, Up, Seen

LEMMA LeaveStep ==
    ASSUME Inv, Inv', Shut, disposed => disposed'
    PROVE  Line!Leave
  <1>1. Link' = NoChannel /\ ~Up'
    BY LinkFacts, WsAssumption DEF Shut, Link, Up, Alive
  <1> QED
    BY <1>1 DEF Shut, SnapshotLeft, Line!Leave, Link, Up

LEMMA DialStep ==
    ASSUME Inv, Inv', Clean, NEW c \in Channels, Open(c)
    PROVE  Line!Dial(c)
  <1>1. ~disposed
    BY DEF Open, Inv, Undisturbed
  <1>2. channel' = c /\ socket'[c] = "opening" /\ c # NoChannel
    BY WsAssumption, ClosedFacts DEF Open
  <1>3. Link' = c /\ ~Up'
    BY <1>2 DEF Link, Up, Alive
  <1> QED
    BY <1>1, <1>3 DEF Open, SnapshotLeft, Line!Dial, Link, Up

LEMMA AcceptStep ==
    ASSUME Inv, Inv', Clean, NEW c \in Channels, Opened(c)
    PROVE  Line!Accept \/ UNCHANGED Seen
  <1>1. c # NoChannel /\ awaited = c /\ socket[c] \in {"opening", "closing"}
    BY WsAssumption DEF Opened, Inv, SocketsOK
  <1>2. CASE channel = NoChannel
    <2>1. Link' = Link /\ Up' = Up
      BY <1>2, WsAssumption DEF Opened, Link, Up, Alive
    <2> QED
      BY <1>2, <2>1 DEF Opened, StillReady, Seen
  <1>3. CASE channel # NoChannel
    <2>1. channel = c /\ channel' = c /\ socket[c] = "opening" /\ socket'[c] = "open"
      BY <1>1, <1>3, WsAssumption DEF Opened, Inv, TypeOK, SocketsOK, Alive
    <2>2. channel \in Alive
      BY <2>1 DEF Alive
    <2>3. wanted
      BY <1>3 DEF Inv, StateOK
    <2>4. ~disposed
      BY <2>2 DEF Inv, Undisturbed
    <2> QED
      BY <1>1, <2>1, <2>3, <2>4 DEF Opened, StillReady, Line!Accept, Link, Up, Alive
  <1> QED
    BY <1>2, <1>3

(* The end of the channel held, or of one that was given up before. *)
LEMMA LoseStep ==
    ASSUME Inv, Inv', channel' = NoChannel, UNCHANGED <<snapshot, disposed>>,
           state' = "connecting"
    PROVE  Line!Lose \/ Line!Look
  <1>1. Link' = NoChannel /\ ~Up'
    BY WsAssumption DEF Link, Up, Alive
  <1>2. CASE channel = NoChannel
    BY <1>1, <1>2, WsAssumption DEF Line!Look, Link, Up, Alive
  <1>3. CASE channel # NoChannel
    BY <1>1, <1>3, LinkFacts DEF Line!Lose, Link, Up
  <1> QED
    BY <1>2, <1>3

LEMMA DoneStep ==
    ASSUME Inv, Inv', Clean, Clean', NEW c \in Channels, NEW rejected \in BOOLEAN,
           Done(c, rejected)
    PROVE  Line!Lose \/ Line!Look \/ UNCHANGED Seen
  <1>1. CASE wanted
    BY <1>1, LoseStep DEF Done
  <1>2. CASE ~wanted
    <2>1. channel = NoChannel
      BY <1>2 DEF Inv, StateOK
    <2>2. Link' = Link /\ Up' = Up
      BY <2>1, WsAssumption DEF Done, Link, Up, Alive
    <2> QED
      BY <1>2, <2>2 DEF Done, Seen
  <1> QED
    BY <1>1, <1>2

LEMMA GiveStep ==
    ASSUME Inv, Clean, NEW c \in Channels, Snapshot(c)
    PROVE  Line!Give
  <1>1. c = channel /\ c \in Alive
    BY DEF Snapshot, Inv, Undisturbed, Alive
  <1>2. Link' = Link /\ Up' = Up /\ Link = c /\ Up
    BY <1>1, WsAssumption DEF Snapshot, Link, Up, Alive
  <1> QED
    BY <1>2 DEF Snapshot, Line!Give, Link, Up

LEMMA LineMoves ==
    ASSUME Inv, Inv', Clean, Clean', [Next]_vars
    PROVE  \/ UNCHANGED Seen \/ Line!Accept \/ Line!Lose \/ Line!Look \/ Line!Give
           \/ Line!Leave \/ \E c \in Channels : Line!Dial(c)
  <1>1. CASE Connect \/ TimerFires \/ ReadToken \/ ReadFails \/ SignInOrOut \/ UNCHANGED vars
    BY <1>1, LookStep DEF Connect, TimerFires, Connects, ReadToken, ReadFails, SignInOrOut, vars
  <1>2. CASE NoToken \/ Disconnect \/ Dispose
    BY <1>2, LeaveStep DEF NoToken, Disconnect, Dispose
  <1>3. ASSUME NEW c \in Channels, Fails(c) PROVE Line!Lose \/ Line!Look
    BY <1>3, LoseStep DEF Fails
  <1>4. ASSUME NEW c \in Channels, Ends(c) PROVE Line!Lose \/ Line!Look \/ UNCHANGED Seen
    BY <1>4, DoneStep DEF Ends
  <1>5. ASSUME NEW c \in Channels, Closes(c) PROVE Line!Lose \/ Line!Look \/ UNCHANGED Seen
    <2>1. CASE Done(c, FALSE)
      BY <2>1, DoneStep
    <2>2. CASE ~Done(c, FALSE)
      <3>1. UNCHANGED <<channel, state, snapshot, disposed>>
        BY <1>5, <2>2 DEF Closes
      <3>2. socket[c] = "closing" /\ socket' = [socket EXCEPT ![c] = "free"]
        BY <1>5, <2>2 DEF Closes
      <3>3. Alive' = Alive
        BY <3>2 DEF Alive, Inv, TypeOK
      <3>4. Link' = Link
        BY <3>1, <3>3 DEF Link
      <3>5. Up' = Up
        BY <3>1, <3>2, WsAssumption DEF Up, Inv, TypeOK
      <3> QED
        BY <3>1, <3>4, <3>5 DEF Seen
    <2> QED
      BY <2>1, <2>2
  <1>6. ASSUME NEW c \in Channels, Refreshed(c) PROVE Line!Look \/ UNCHANGED Seen
    BY <1>6, LookStep DEF Refreshed, Connects
  <1> QED
    BY <1>1, <1>2, <1>3, <1>4, <1>5, <1>6, DialStep, AcceptStep, GiveStep
       DEF Next, Client, Handshake

LEMMA LineStep == Inv /\ Inv' /\ [Next]_vars => [Line!Next]_(Line!vars)
  <1> SUFFICES ASSUME Inv, Inv', [Next]_vars PROVE [Line!Next]_(Line!vars)
    OBVIOUS
  <1>1. CASE ~Clean'
    BY <1>1 DEF Line!Next, Clean
  <1>2. CASE Clean'
    <2>1. Clean
      BY <1>2, CleanBefore
    <2>2. CASE UNCHANGED Seen
      BY <1>2, <2>1, <2>2 DEF Seen, Line!vars, Link, Up, Clean
    <2>3. CASE ~UNCHANGED Seen
      BY <1>2, <2>1, <2>3, LineMoves DEF Line!Next, Clean
    <2> QED
      BY <2>2, <2>3
  <1> QED
    BY <1>1, <1>2

(* The client is a LiveConnection, step by step and for any number of       *)
(* channels: one connection at a time, shown connected when it is accepted, *)
(* with its own snapshot, and none once disposed.                           *)
THEOREM LineKept == Spec => LineSpec
  <1>1. Init => Line!Init
    BY WsAssumption DEF Init, Line!Init, Alive
  <1> QED
    BY <1>1, Invariance, LineStep, PTL DEF Spec, LineSpec, Line!Spec
=============================================================================
