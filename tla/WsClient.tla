------------------------------- MODULE WsClient -------------------------------
(***************************************************************************)
(* One WebSocketClient of the app: the channel it holds, the one connection  *)
(* attempt its callers share, the reconnect timer, and the callbacks of      *)
(* channels it may have replaced or given up                                 *)
(* (lib/core/networking/websocket_client.dart, and the providers that        *)
(* connect, disconnect and dispose it).                                      *)
(*                                                                           *)
(* The event loop runs a callback to its next await: that is a step.  The    *)
(* outcome of a handshake reaches the code that awaits `ready` in the same   *)
(* turn.  Delays are not modelled: a timer that is set may fire.             *)
(***************************************************************************)
CONSTANTS
    Channels,    \* WebSocketChannel objects; one that is over may be used again
    NoChannel

ASSUME WsAssumption == NoChannel \notin Channels

VARIABLES
    channel,     \* _channel
    socket,      \* what each channel's socket does
    attempt,     \* where _connectInternal is, if it runs (_connectFuture)
    awaited,     \* the channel whose `ready` it awaits
    timer,       \* _reconnectTimer is set
    refreshing,  \* channels whose auth rejection is waiting for a new token
    wanted,      \* _shouldReconnect
    disposed,    \* _disposed
    state,       \* _connectionState
    snapshot,    \* the channel _cachedPresenceSnapshot came by
    signedIn,    \* tokens are stored
    marks        \* history

vars == <<channel, socket, attempt, awaited, timer, refreshing, wanted,
          disposed, state, snapshot, signedIn, marks>>

Marks == {"late",       \* a channel that had been replaced or given up was done
          "token",      \* disconnect or dispose came while a token was being read
          "fault"}      \* the storage threw an exception

TypeOK ==
    /\ channel \in Channels \cup {NoChannel}
    /\ socket \in [Channels -> {"free", "opening", "open", "closing"}]
    /\ attempt \in {"none", "token", "granted", "denied", "ready"}
    /\ awaited \in Channels \cup {NoChannel}
    /\ awaited # NoChannel <=> attempt = "ready"
    /\ timer \in BOOLEAN /\ wanted \in BOOLEAN
    /\ disposed \in BOOLEAN /\ signedIn \in BOOLEAN
    /\ refreshing \in SUBSET Channels
    /\ state \in {"disconnected", "connecting", "connected"}
    /\ snapshot \in Channels \cup {NoChannel}
    /\ marks \in SUBSET Marks

Init ==
    /\ channel = NoChannel
    /\ socket = [c \in Channels |-> "free"]
    /\ attempt = "none" /\ awaited = NoChannel
    /\ timer = FALSE /\ refreshing = {}
    /\ wanted = FALSE /\ disposed = FALSE
    /\ state = "disconnected"
    /\ snapshot = NoChannel
    /\ signedIn = TRUE
    /\ marks = {}

---------------------------------------------------------------------------
(* The client's sockets that the server may still be serving. *)
Alive == {c \in Channels : socket[c] \in {"opening", "open"}}

Mark(m, bad) == marks' = IF bad THEN marks \cup {m} ELSE marks

(* _scheduleReconnect *)
ScheduledNever == timer
Scheduled == IF disposed \/ ~wanted THEN timer ELSE TRUE

(* connect: callers that come while an attempt runs share its future. *)
ConnectsAnew == attempt' = "token" /\ state' = "connecting"
Connects ==
    IF attempt = "none" /\ ~disposed
    THEN attempt' = "token" /\ state' = "connecting"
    ELSE UNCHANGED <<attempt, state>>

(* What _closeChannel leaves of the sockets: the one it closes is done later. *)
LeftOpen == socket
Closed == [c \in Channels |-> IF c = channel THEN "closing" ELSE socket[c]]
SnapshotLeft == NoChannel

(* disconnect, which also ends an attempt that found no token. *)
Shut ==
    /\ wanted' = FALSE
    /\ socket' = Closed /\ channel' = NoChannel
    /\ timer' = FALSE
    /\ snapshot' = SnapshotLeft
    /\ state' = "disconnected"

---------------------------------------------------------------------------
(* websocketConnectionProvider, and GroupsNotifier after a change of        *)
(* membership, which connects an open client, too.                          *)
Connect ==
    /\ signedIn /\ ~disposed
    /\ Connects
    /\ UNCHANGED <<channel, socket, awaited, timer, refreshing, wanted,
                   disposed, snapshot, signedIn, marks>>

TimerFires ==
    /\ timer
    /\ timer' = FALSE
    /\ Connects
    /\ UNCHANGED <<channel, socket, awaited, refreshing, wanted, disposed,
                   snapshot, signedIn, marks>>

ReadToken ==
    /\ attempt = "token"
    /\ attempt' = IF signedIn THEN "granted" ELSE "denied"
    /\ UNCHANGED <<channel, socket, awaited, timer, refreshing, wanted,
                   disposed, state, snapshot, signedIn, marks>>

ReadFails ==
    /\ attempt = "token"
    /\ attempt' = "none"
    /\ marks' = marks \cup {"fault"}
    /\ UNCHANGED <<channel, socket, awaited, timer, refreshing, wanted,
                   disposed, state, snapshot, signedIn>>

NoToken ==
    /\ attempt = "denied"
    /\ attempt' = "none"
    /\ Shut
    /\ UNCHANGED <<awaited, refreshing, disposed, signedIn, marks>>

(* With a token the attempt goes on, whatever happened while it was read.   *)
Open(c) ==
    /\ attempt = "granted"
    /\ socket[c] = "free" /\ c \notin refreshing
    /\ wanted' = TRUE
    /\ socket' = [Closed EXCEPT ![c] = "opening"]
    /\ channel' = c
    /\ timer' = FALSE
    /\ snapshot' = SnapshotLeft
    /\ state' = "connecting"
    /\ attempt' = "ready" /\ awaited' = c
    /\ UNCHANGED <<refreshing, disposed, signedIn, marks>>

StillAround == ~disposed
StillReady == ~disposed /\ wanted /\ channel # NoChannel

(* The handshake of c succeeds; a socket closed meanwhile is closed then.   *)
Opened(c) ==
    /\ awaited = c
    /\ socket' = [socket EXCEPT ![c] = IF @ = "opening" THEN "open" ELSE @]
    /\ attempt' = "none" /\ awaited' = NoChannel
    /\ state' = IF StillReady THEN "connected" ELSE state
    /\ UNCHANGED <<channel, timer, refreshing, wanted, disposed, snapshot,
                   signedIn, marks>>

(* The handshake fails, with onError, onDone and the catch of the attempt.  *)
(* A token the backend rejects fails like this: it closes before accepting. *)
Fails(c) ==
    /\ awaited = c
    /\ socket' = [socket EXCEPT ![c] = "free"]
    /\ attempt' = "none" /\ awaited' = NoChannel
    /\ channel' = NoChannel
    /\ timer' = Scheduled
    /\ state' = "connecting"
    /\ UNCHANGED <<refreshing, wanted, disposed, snapshot, signedIn, marks>>

(* onDone, which any channel runs and which drops the current one.  The     *)
(* close code is asked of the current channel.                              *)
Done(c, rejected) ==
    /\ socket' = [socket EXCEPT ![c] = "free"]
    /\ channel' = NoChannel
    /\ state' = IF wanted THEN "connecting" ELSE state
    /\ refreshing' = IF wanted /\ rejected /\ channel = c
                     THEN refreshing \cup {c} ELSE refreshing
    /\ timer' = IF wanted /\ rejected /\ channel = c THEN timer ELSE Scheduled
    /\ Mark("late", channel \notin {c, NoChannel})
    /\ UNCHANGED <<attempt, awaited, wanted, disposed, snapshot, signedIn>>

(* The server or the network ends an open connection. *)
Ends(c) ==
    /\ socket[c] = "open"
    /\ \E rejected \in BOOLEAN : Done(c, rejected)

(* A channel the client has closed is done, if it says so at all. *)
Closes(c) ==
    /\ socket[c] = "closing" /\ awaited # c
    /\ \/ Done(c, FALSE)
       \/ /\ socket' = [socket EXCEPT ![c] = "free"]
          /\ UNCHANGED <<channel, attempt, awaited, timer, refreshing, wanted,
                         disposed, state, snapshot, signedIn, marks>>

(* _handleAuthFailure: the refresh has succeeded, or not. *)
GivenUp == timer
Unrefreshed == Scheduled
Refreshed(c) ==
    /\ c \in refreshing
    /\ refreshing' = refreshing \ {c}
    /\ \/ /\ signedIn /\ wanted /\ ~disposed
          /\ Connects
          /\ UNCHANGED timer
       \/ /\ timer' = Unrefreshed
          /\ UNCHANGED <<attempt, state>>
    /\ UNCHANGED <<channel, socket, awaited, wanted, disposed, snapshot,
                   signedIn, marks>>

(* The server's first message on a connection. *)
Snapshot(c) ==
    /\ socket[c] = "open"
    /\ snapshot' = c
    /\ UNCHANGED <<channel, socket, attempt, awaited, timer, refreshing,
                   wanted, disposed, state, signedIn, marks>>

---------------------------------------------------------------------------
(* The session: tokens come and go; without them the providers disconnect   *)
(* the client or, on a session reset, dispose it.                           *)
SignInOrOut ==
    /\ signedIn' = ~signedIn
    /\ UNCHANGED <<channel, socket, attempt, awaited, timer, refreshing,
                   wanted, disposed, state, snapshot, marks>>

Disconnect ==
    /\ ~signedIn /\ ~disposed
    /\ Shut
    /\ Mark("token", attempt \in {"token", "granted"})
    /\ UNCHANGED <<attempt, awaited, refreshing, disposed, signedIn>>

Dispose ==
    /\ ~signedIn /\ ~disposed
    /\ disposed' = TRUE
    /\ Shut
    /\ Mark("token", attempt \in {"token", "granted"})
    /\ UNCHANGED <<attempt, awaited, refreshing, signedIn>>

Handshake(c) == Opened(c) \/ Fails(c)
Client == TimerFires \/ ReadToken \/ NoToken \/ \E c \in Channels : Open(c)

Next ==
    \/ Connect \/ Client \/ ReadFails
    \/ \E c \in Channels :
         Handshake(c) \/ Ends(c) \/ Closes(c) \/ Refreshed(c) \/ Snapshot(c)
    \/ SignInOrOut \/ Disconnect \/ Dispose

Spec == Init /\ [][Next]_vars

(* Timers fire, storage, handshakes and refreshes come to an end, and a     *)
(* server that is tried over and over accepts once.                         *)
FairSpec ==
    /\ Spec
    /\ WF_vars(Client)
    /\ \A c \in Channels : /\ WF_vars(Handshake(c)) /\ WF_vars(Closes(c))
                           /\ WF_vars(Refreshed(c))
    /\ SF_vars(\E c \in Channels : Opened(c))
---------------------------------------------------------------------------
(* The server never serves two connections of one client, whatever is       *)
(* reconnected while something else is in flight: no event comes twice      *)
(* (_closeChannel, connect).                                                *)
OneConnection == marks \cap {"late", "token"} = {} => Alive \subseteq {channel}

(* A client that should be connected holds a channel whose end it will hear *)
(* of, or is on its way to the next: no combination of callbacks loses the  *)
(* reconnect (_connectInternal, _scheduleReconnect, _handleAuthFailure).    *)
NeverStranded ==
    marks = {} /\ wanted =>
        \/ channel \in Alive
        \/ timer \/ attempt # "none" \/ refreshing # {}

(* A disposed client stays disposed: no timer, no refresh and no handshake  *)
(* that was on its way brings a connection back (dispose).                  *)
DisposedIsOver ==
    disposed /\ marks \cap {"late", "token"} = {} => Alive = {} /\ ~timer

(* The app believes it is connected only while send has a channel to send   *)
(* on, even with callbacks of replaced channels: a ready toggle that is     *)
(* shown at once is sent (_connectInternal, onDone, toggleReady).           *)
ConnectedCanSend == state = "connected" => channel # NoChannel

(* "Last presence_snapshot received on the current connection": a late      *)
(* subscriber is never given the snapshot of an earlier one.                *)
SnapshotIsCurrent ==
    state = "connected" /\ marks \cap {"late", "token"} = {}
        => snapshot \in {NoChannel, channel}

(* However connections fail, a client that should be connected connects, or *)
(* is told to stop.                                                         *)
Reconnects ==
    wanted ~> state = "connected" \/ ~wanted \/ marks # {}

(* LiveConnection is what the app relies on, as long as no channel that had *)
(* been replaced reports its end and no token read crosses a disconnect.    *)
Line == INSTANCE LiveConnection WITH
    link <- IF channel \in Alive THEN channel ELSE NoChannel,
    up <- channel # NoChannel /\ socket[channel] = "open",
    shown <- state,
    given <- snapshot,
    over <- disposed,
    disturbed <- marks \cap {"late", "token"} # {}

(* Step by step, whatever reconnects, ends and refreshes are in flight, the *)
(* app sees one connection come and go (connect, onDone, _closeChannel).    *)
LineSpec == Line!Spec
=============================================================================
