------------------------------ MODULE Presence -------------------------------
(***************************************************************************)
(* The connection presence of one user: the sockets the user has open on    *)
(* the API replicas, what each replica's ConnectionManager knows of them,   *)
(* and what Redis tells everybody (backend/app/ws/manager.py, handlers.py,  *)
(* redis/status_store.py).  Users do not share any of this state, so one is *)
(* enough; groups are many because one socket serves all the user's groups. *)
(*                                                                          *)
(* A handler is a coroutine: it gives way at every await, so every Redis    *)
(* command, and every send, is a step; what lies between two awaits runs    *)
(* without interruption on its replica.                                     *)
(*                                                                          *)
(* The code has no lock per user, so handlers of one user may overlap, on   *)
(* one replica or on several.  marks records which of these situations the  *)
(* behaviour has been in, and each property names those it is shown under.  *)
(***************************************************************************)
CONSTANTS
    Replicas,   \* API processes
    Sockets,    \* WebSocket connections the user has at the same time
    Groups

ASSUME PresenceAssumption == Replicas # {}

VARIABLES
    member,     \* the user's groups in PostgreSQL
    connections,\* connections[r]: manager._connections[user], {} when absent
    userGroups, \* userGroups[r]: manager._user_groups[user], {} when absent
    online,     \* the groups g whose set group:{g}:online holds the user
    connection, \* user:{id}:connection, "offline" when the key is absent
    seen,       \* seen[g]: what the last event published to group g said
    sock,       \* sock[s]: the coroutine serving socket s
    marks       \* history: what has happened that the code does not shield from

vars == <<member, connections, userGroups, online, connection, seen, sock, marks>>
redis == <<online, connection, seen>>
manager == <<connections, userGroups>>

States == {"offline", "online", "away"}
Resting == {"closed", "open", "dead"}
Busy == {"mark", "accept", "join", "announce", "lifecycle", "tell",
         "leave", "farewell"}

Socket == [pc: Resting \cup Busy, at: Replicas, groups: SUBSET Groups,
           todo: SUBSET Groups, drop: SUBSET Groups, first: BOOLEAN,
           state: States]

Marks == {"overlap",    \* a handler of the user started while another ran
          "replica",    \* a socket connected while another replica had one
          "scope",      \* the groups changed while the user was connected
          "fault"}      \* a replica died or a handler failed half-way

TypeOK ==
    /\ marks \in SUBSET Marks
    /\ member \in SUBSET Groups
    /\ connections \in [Replicas -> SUBSET Sockets]
    /\ userGroups \in [Replicas -> SUBSET Groups]
    /\ online \in SUBSET Groups
    /\ connection \in States
    /\ seen \in [Groups -> States]
    /\ sock \in [Sockets -> Socket]

(* A coroutine at pc on replica r that holds nothing yet; a closed socket    *)
(* is on no replica in particular.                                          *)
Coroutine(pc, r) == [pc |-> pc, at |-> r, groups |-> {}, todo |-> {}, drop |-> {},
                     first |-> FALSE, state |-> "offline"]
Closed == Coroutine("closed", CHOOSE r \in Replicas : TRUE)

Init ==
    /\ member \in SUBSET Groups
    /\ connections = [r \in Replicas |-> {}]
    /\ userGroups = [r \in Replicas |-> {}]
    /\ online = {}
    /\ connection = "offline"
    /\ seen = [g \in Groups |-> "offline"]
    /\ sock = [s \in Sockets |-> Closed]
    /\ marks = {}

---------------------------------------------------------------------------
Serving == {s \in Sockets : sock[s].pc \in Busy}
Mark(m, when) == marks' = IF when THEN marks \cup {m} ELSE marks
Start == Mark("overlap", Serving # {})

(* Waiting in receive_json, a coroutine holds nothing of its last handler.  *)
Rest(s) == Coroutine("open", sock[s].at)

Become(s, pc) == sock' = [sock EXCEPT ![s].pc = pc]

(* The user joins or leaves a group over REST; no replica is told.         *)
ChangeMembership(g) ==
    /\ member' = IF g \in member THEN member \ {g} ELSE member \cup {g}
    /\ Mark("scope", \E s \in Sockets : sock[s].pc # "closed")
    /\ UNCHANGED <<manager, redis, sock>>

(* websocket_endpoint, authenticate_ws: the groups are read here, once.    *)
Authenticate(s, r) ==
    /\ sock[s].pc = "closed"
    /\ marks' = marks
         \cup {m \in {"overlap"} : Serving # {}}
         \cup {m \in {"replica"} :
                 \E t \in Sockets : sock[t].pc # "closed" /\ sock[t].at # r}
    /\ sock' = [sock EXCEPT ![s] = [Coroutine("mark", r) EXCEPT !.groups = member]]
    /\ UNCHANGED <<member, manager, redis>>

(* handle_connect: set_user_connection(ONLINE), before anything is known   *)
(* to the manager.                                                         *)
SetOnline(s) ==
    /\ sock[s].pc = "mark"
    /\ connection' = "online"
    /\ Become(s, "accept")
    /\ UNCHANGED <<member, marks, manager, online, seen>>

(* manager.connect up to its first Redis command.                          *)
ScopeKept(s) == {}
ScopeLost(s) == userGroups[sock[s].at] \ sock[s].groups

Joined(s) == connections[sock[s].at] \cup {s}
FirstOrNot(s) == TRUE
First(s) == connections[sock[s].at] = {}

Accept(s) ==
    LET r == sock[s].at
    IN  /\ sock[s].pc = "accept"
        /\ connections' = [connections EXCEPT ![r] = Joined(s)]
        /\ userGroups' = [userGroups EXCEPT ![r] = sock[s].groups]
        /\ sock' = [sock EXCEPT ![s].pc = "join",
                                ![s].first = First(s),
                                ![s].todo = sock[s].groups \ userGroups[r],
                                ![s].drop = ScopeLost(s)]
        /\ UNCHANGED <<member, marks, redis>>

(* manager.connect: one sadd per group gained, then one srem per group lost *)
EnterGroup(s, g) ==
    /\ sock[s].pc = "join"
    /\ g \in sock[s].todo
    /\ online' = online \cup {g}
    /\ sock' = [sock EXCEPT ![s].todo = @ \ {g}]
    /\ UNCHANGED <<member, marks, manager, connection, seen>>

DropGroup(s, g) ==
    /\ sock[s].pc = "join"
    /\ sock[s].todo = {}
    /\ g \in sock[s].drop
    /\ online' = online \ {g}
    /\ sock' = [sock EXCEPT ![s].drop = @ \ {g}]
    /\ UNCHANGED <<member, marks, manager, connection, seen>>

(* sweep_all_groups and send_presence_snapshot, then publish_user_online    *)
(* to every group, for the first socket on this replica.                    *)
SendSnapshot(s) ==
    /\ sock[s].pc = "join" /\ sock[s].todo = {} /\ sock[s].drop = {}
    /\ \/ sock[s].first /\ sock' = [sock EXCEPT ![s].pc = "announce",
                                               ![s].todo = sock[s].groups]
       \/ ~sock[s].first /\ sock' = [sock EXCEPT ![s] = Rest(s)]
    /\ UNCHANGED <<member, marks, manager, redis>>

Publish(s, g, state) ==
    /\ g \in sock[s].todo
    /\ seen' = [seen EXCEPT ![g] = state]
    /\ sock' = [sock EXCEPT ![s].todo = @ \ {g}]
    /\ UNCHANGED <<member, marks, manager, online, connection>>

Announce(s, g) == sock[s].pc = "announce" /\ Publish(s, g, "online")

Announced(s) ==
    /\ sock[s].pc = "announce"
    /\ sock[s].todo = {}
    /\ sock' = [sock EXCEPT ![s] = Rest(s)]
    /\ UNCHANGED <<member, marks, manager, redis>>

---------------------------------------------------------------------------
(* handle_message, presence_lifecycle: the client went to the background    *)
(* or came back.  Any other word is ignored.                                *)
ReportedRaw(word) == word
Reported(word) == IF word = "active" THEN "online" ELSE word

Lifecycle(s, word) ==
    /\ sock[s].pc = "open"
    /\ Start
    /\ sock' = [sock EXCEPT ![s].pc = "lifecycle", ![s].state = Reported(word),
                            ![s].todo = userGroups[sock[s].at]]
    /\ UNCHANGED <<member, manager, redis>>

(* set_user_connection takes any other word for online.                     *)
SetConnection(s) ==
    /\ sock[s].pc = "lifecycle"
    /\ connection' = IF sock[s].state = "away" THEN "away" ELSE "online"
    /\ Become(s, "tell")
    /\ UNCHANGED <<member, marks, manager, online, seen>>

Tell(s, g) == sock[s].pc = "tell" /\ Publish(s, g, sock[s].state)

Told(s) ==
    /\ sock[s].pc = "tell"
    /\ sock[s].todo = {}
    /\ sock' = [sock EXCEPT ![s] = Rest(s)]
    /\ UNCHANGED <<member, marks, manager, redis>>

---------------------------------------------------------------------------
(* handle_disconnect and manager.disconnect up to the first Redis command.  *)
(* The groups are read before the manager forgets them.  An exception of    *)
(* handle_message ends in the same handler.                                 *)
NoOthers(s) == {}
Others(s) == connections[sock[s].at] \ {s}

ScopeForgotten(s) == {}
ScopeLeft(s) == userGroups[sock[s].at]

Disconnect(s) ==
    LET r == sock[s].at
    IN  /\ \/ sock[s].pc = "open" /\ Start
           \/ sock[s].pc \in {"lifecycle", "tell"} /\ Mark("fault", TRUE)
        /\ connections' = [connections EXCEPT ![r] = @ \ {s}]
        /\ \/ /\ Others(s) # {}
              /\ sock' = [sock EXCEPT ![s] = Closed]
              /\ UNCHANGED userGroups
           \/ /\ Others(s) = {}
              /\ userGroups' = [userGroups EXCEPT ![r] = {}]
              /\ sock' = [sock EXCEPT ![s] = [Coroutine("leave", r) EXCEPT
                                                 !.groups = ScopeLeft(s),
                                                 !.drop = userGroups[r]]]
        /\ UNCHANGED <<member, redis>>

LeaveGroup(s, g) ==
    /\ sock[s].pc = "leave"
    /\ g \in sock[s].drop
    /\ online' = online \ {g}
    /\ sock' = [sock EXCEPT ![s].drop = @ \ {g}]
    /\ UNCHANGED <<member, marks, manager, connection, seen>>

(* clear_user_connection, then publish_user_offline to every group.         *)
ClearConnection(s) ==
    /\ sock[s].pc = "leave" /\ sock[s].drop = {}
    /\ connection' = "offline"
    /\ sock' = [sock EXCEPT ![s].pc = "farewell", ![s].todo = sock[s].groups]
    /\ UNCHANGED <<member, marks, manager, online, seen>>

SayFarewell(s, g) == sock[s].pc = "farewell" /\ Publish(s, g, "offline")

Gone(s) ==
    /\ sock[s].pc = "farewell"
    /\ sock[s].todo = {}
    /\ sock' = [sock EXCEPT ![s] = Closed]
    /\ UNCHANGED <<member, marks, manager, redis>>

---------------------------------------------------------------------------
(* handle_connect raises: the send to a client that has gone, or a Redis    *)
(* command.  It is called outside the try of websocket_endpoint, so nobody  *)
(* calls handle_disconnect and what was done stays done.                    *)
FailConnect(s) ==
    /\ Mark("fault", TRUE)
    /\ sock[s].pc \in {"mark", "accept", "join", "announce"}
    /\ sock' = [sock EXCEPT ![s] = IF s \in connections[sock[s].at]
                                   THEN Coroutine("dead", sock[s].at) ELSE Closed]
    /\ UNCHANGED <<member, manager, redis>>

(* handle_disconnect raises in a Redis command: the manager has forgotten   *)
(* the socket, the rest of the farewell is lost.                            *)
FailDisconnect(s) ==
    /\ Mark("fault", TRUE)
    /\ sock[s].pc \in {"leave", "farewell"}
    /\ sock' = [sock EXCEPT ![s] = Closed]
    /\ UNCHANGED <<member, manager, redis>>

(* A replica dies: its memory goes, Redis keeps what it was told.           *)
Crash(r) ==
    /\ Mark("fault", TRUE)
    /\ \E s \in Sockets : sock[s].pc # "closed" /\ sock[s].at = r
    /\ connections' = [connections EXCEPT ![r] = {}]
    /\ userGroups' = [userGroups EXCEPT ![r] = {}]
    /\ sock' = [s \in Sockets |-> IF sock[s].at = r THEN Closed ELSE sock[s]]
    /\ UNCHANGED <<member, redis>>

Serve(s) ==
    \/ SetOnline(s) \/ Accept(s) \/ SendSnapshot(s) \/ Announced(s)
    \/ SetConnection(s) \/ Told(s) \/ ClearConnection(s) \/ Gone(s)
    \/ \E g \in Groups : \/ EnterGroup(s, g) \/ DropGroup(s, g) \/ Announce(s, g)
                         \/ Tell(s, g) \/ LeaveGroup(s, g) \/ SayFarewell(s, g)

Next ==
    \/ \E g \in Groups : ChangeMembership(g)
    \/ \E s \in Sockets, r \in Replicas : Authenticate(s, r)
    \/ \E s \in Sockets, word \in {"active", "away"} : Lifecycle(s, word)
    \/ \E s \in Sockets : Serve(s) \/ Disconnect(s)
                         \/ FailConnect(s) \/ FailDisconnect(s)
    \/ \E r \in Replicas : Crash(r)

Spec == Init /\ [][Next]_vars

(* The event loop runs every coroutine that can go on; clients need not     *)
(* connect or disconnect, and nothing has to fail.                          *)
FairSpec == Spec /\ \A s \in Sockets : WF_vars(Serve(s))

---------------------------------------------------------------------------
Quiet == Serving = {}
Open == {s \in Sockets : sock[s].pc = "open"}

(* When no handler is running, Redis holds exactly what is true: the user   *)
(* is in the online set of precisely the groups of the scope authenticated  *)
(* last, and is online or away if and only if a socket is open.  So it is   *)
(* as long as the user's handlers ran one at a time on one replica, what-   *)
(* ever groups were joined and left (handle_connect, handle_disconnect).    *)
PresenceExact == Quiet /\ marks \subseteq {"scope"} =>
    IF Open = {}
    THEN online = {} /\ connection = "offline"
    ELSE /\ online = UNION {userGroups[r] : r \in Replicas}
         /\ connection # "offline"

(* The other members were last told that the user is there if and only if a *)
(* socket is open: neither a further socket nor the departure of one of     *)
(* several sends a wrong event (publish_user_online, publish_user_offline). *)
(* Same conditions, and the groups did not change under an open socket.     *)
LastToldExact == Quiet /\ marks = {} =>
    \A g \in member : seen[g] = "offline" <=> Open = {}

(* And neither event repeats what the group has heard: the user comes only   *)
(* after having gone, and goes only after having come, however many sockets *)
(* share the way (handle_connect, handle_disconnect).  Same conditions.     *)
EventsAreNews == [][\A s \in Sockets, g \in Groups :
    marks' = {} /\ g \in sock[s].todo \ sock'[s].todo =>
        /\ sock[s].pc = "announce" => seen[g] = "offline"
        /\ sock[s].pc = "farewell" => seen[g] # "offline"]_vars

(* "keep the user online overall until their last active socket disconnects"*)
(* (what Redis answers to a snapshot while a socket is open), even when no  *)
(* two handlers overlap and nothing fails.                                  *)
OnlineUntilLastSocket ==
    Quiet /\ Open # {} /\ marks \subseteq {"replica"} => connection # "offline"

(* Whatever else runs, every group of the scope hears of the departure of   *)
(* the last socket of a replica: the scope is captured before the manager   *)
(* forgets it and no group of it is skipped (handle_disconnect), unless a   *)
(* fault cuts the handler off.                                              *)
FarewellReachesAll == \A s \in Sockets, g \in Groups :
    sock[s].pc = "leave" /\ g \in sock[s].drop
        ~> seen[g] = "offline" \/ "fault" \in marks
=============================================================================
