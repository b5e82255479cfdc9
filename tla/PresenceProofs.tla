---------------------------- MODULE PresenceProofs ----------------------------
(***************************************************************************)
(* Proofs about what redis/status_store.py holds.                           *)
(*                                                                          *)
(* The connection presence (Presence), for any number of replicas, sockets  *)
(* and groups: what Redis holds and what the other members were told is     *)
(* exact whenever no handler runs, as long as the handlers of the user ran  *)
(* one at a time.  At the end, on variables of its own, the ready flag      *)
(* (ReadyStatus), for any number of toggling sockets, sweeps and connects.  *)
(***************************************************************************)
EXTENDS Presence, ReadyStatus, TLAPS

(* What each manager knows: the sockets of its replica that have been       *)
(* accepted and have not left, and no scope of a user without one.          *)
Accepted == {"join", "announce", "open", "lifecycle", "tell", "dead"}
Registered == \A r \in Replicas, s \in Sockets :
    s \in connections[r] <=> sock[s].at = r /\ sock[s].pc \in Accepted
Forgotten == \A r \in Replicas : connections[r] = {} => userGroups[r] = {}

Inv == TypeOK /\ Registered /\ Forgotten

---------------------------------------------------------------------------
(* One handler at a time, on one replica, and no fault.                     *)
Alone == \A s, t \in Sockets : sock[s].pc \in Busy /\ sock[t].pc \in Busy => s = t
OnePlace == \A s, t \in Sockets :
    sock[s].pc # "closed" /\ sock[t].pc # "closed" => sock[s].at = sock[t].at
NoneDead == \A s \in Sockets : sock[s].pc # "dead"

(* Redis, where a handler has brought it so far.                            *)
Scope == UNION {userGroups[r] : r \in Replicas}

Joining(s) == sock[s].pc = "join" =>
    /\ sock[s].todo \subseteq sock[s].groups
    /\ sock[s].drop \cap sock[s].groups = {}
    /\ userGroups[sock[s].at] = sock[s].groups
    /\ online = (sock[s].groups \ sock[s].todo) \cup sock[s].drop
Leaving(s) ==
    /\ sock[s].pc \in {"leave", "farewell"} => connections[sock[s].at] = {}
    /\ sock[s].pc = "leave" => online = sock[s].drop
OnlineScope == (\A s \in Sockets : sock[s].pc \notin {"join", "leave"}) => online = Scope

Present == {"accept", "join", "announce", "open", "lifecycle", "tell", "leave"}
ConnectionTrue == connection # "offline" <=> \E s \in Sockets : sock[s].pc \in Present

Orderly ==
    /\ Alone /\ OnePlace /\ NoneDead
    /\ \A s \in Sockets : Joining(s) /\ Leaving(s)
    /\ OnlineScope /\ ConnectionTrue

(* The groups did not change under an open socket, either.                  *)
Scoped(s) ==
    /\ sock[s].pc \in {"mark", "accept", "join", "announce", "leave", "farewell"} =>
          sock[s].groups = member
    /\ sock[s].pc \in Accepted => userGroups[sock[s].at] = member
    /\ sock[s].pc \in {"join", "announce"} =>
          (sock[s].first <=> connections[sock[s].at] = {s})
    /\ sock[s].pc = "announce" => sock[s].first
    /\ sock[s].pc \in {"announce", "farewell", "tell"} => sock[s].todo \subseteq member
    /\ sock[s].pc \in {"lifecycle", "tell"} =>
          sock[s].state # "offline" /\ sock[s].todo \subseteq member

(* What the other members were told, where a handler has brought it so far. *)
Unannounced(s) ==
    \/ sock[s].pc \in {"closed", "mark", "accept"}
    \/ sock[s].pc = "join" /\ sock[s].first
Heard(s) ==
    /\ sock[s].pc \in {"open", "lifecycle", "tell"} =>
          \A g \in member : seen[g] # "offline"
    /\ sock[s].pc = "announce" =>
          \A g \in member \ sock[s].todo : seen[g] # "offline"
    /\ sock[s].pc = "farewell" =>
          \A g \in member \ sock[s].todo : seen[g] = "offline"
Outsiders == \A g \in Groups \ member : seen[g] = "offline"
NoneHeard == (\A s \in Sockets : Unannounced(s)) => \A g \in Groups : seen[g] = "offline"

Truthful == Outsiders /\ NoneHeard /\ \A s \in Sockets : Scoped(s) /\ Heard(s)

(* The inductive invariant: what always holds, what holds when the user's   *)
(* handlers never overlapped, and what holds when nothing happened at all.  *)
PresenceInv ==
    /\ Inv
    /\ marks \subseteq {"scope"} => Orderly
    /\ marks = {} => Truthful

---------------------------------------------------------------------------
(* What EXCEPT does to a coroutine. *)
Rec(p, a, g, t, d, f, st) ==
    [pc |-> p, at |-> a, groups |-> g, todo |-> t, drop |-> d, first |-> f, state |-> st]

LEMMA RecPc ==
    ASSUME NEW x \in Socket, NEW p
    PROVE  [x EXCEPT !.pc = p] = Rec(p, x.at, x.groups, x.todo, x.drop, x.first, x.state)
  BY DEF Socket, Rec

LEMMA RecGroups ==
    ASSUME NEW x \in Socket, NEW g
    PROVE  [x EXCEPT !.groups = g] = Rec(x.pc, x.at, g, x.todo, x.drop, x.first, x.state)
  BY DEF Socket, Rec

LEMMA RecTodo ==
    ASSUME NEW x \in Socket, NEW t
    PROVE  [x EXCEPT !.todo = t] = Rec(x.pc, x.at, x.groups, t, x.drop, x.first, x.state)
  BY DEF Socket, Rec

LEMMA RecDrop ==
    ASSUME NEW x \in Socket, NEW d
    PROVE  [x EXCEPT !.drop = d] = Rec(x.pc, x.at, x.groups, x.todo, d, x.first, x.state)
  BY DEF Socket, Rec

LEMMA RecPcTodo ==
    ASSUME NEW x \in Socket, NEW p, NEW t
    PROVE  [x EXCEPT !.pc = p, !.todo = t] = Rec(p, x.at, x.groups, t, x.drop, x.first, x.state)
  <1> DEFINE y == [x EXCEPT !.pc = p]
  <1>1. y = Rec(p, x.at, x.groups, x.todo, x.drop, x.first, x.state)
    BY RecPc
  <1> HIDE DEF y
  <1>2. [y EXCEPT !.todo = t] = Rec(p, x.at, x.groups, t, x.drop, x.first, x.state)
    BY <1>1 DEF Rec
  <1> QED
    BY <1>2 DEF y

LEMMA RecWord ==
    ASSUME NEW x \in Socket, NEW st, NEW t
    PROVE  [x EXCEPT !.pc = "lifecycle", !.state = st, !.todo = t] =
           Rec("lifecycle", x.at, x.groups, t, x.drop, x.first, st)
  <1> DEFINE y == [x EXCEPT !.pc = "lifecycle"]
             z == [y EXCEPT !.state = st]
  <1>1. y = Rec("lifecycle", x.at, x.groups, x.todo, x.drop, x.first, x.state)
    BY RecPc
  <1> HIDE DEF y
  <1>2. z = Rec("lifecycle", x.at, x.groups, x.todo, x.drop, x.first, st)
    BY <1>1 DEF Rec
  <1> HIDE DEF z
  <1>3. [z EXCEPT !.todo = t] = Rec("lifecycle", x.at, x.groups, t, x.drop, x.first, st)
    BY <1>2 DEF Rec
  <1> QED
    BY <1>3 DEF y, z

LEMMA RecAccepted ==
    ASSUME NEW x \in Socket, NEW f, NEW t, NEW d
    PROVE  [x EXCEPT !.pc = "join", !.first = f, !.todo = t, !.drop = d] =
           Rec("join", x.at, x.groups, t, d, f, x.state)
  <1> DEFINE y == [x EXCEPT !.pc = "join"]
             z == [y EXCEPT !.first = f]
             w == [z EXCEPT !.todo = t]
  <1>1. y = Rec("join", x.at, x.groups, x.todo, x.drop, x.first, x.state)
    BY RecPc
  <1> HIDE DEF y
  <1>2. z = Rec("join", x.at, x.groups, x.todo, x.drop, f, x.state)
    BY <1>1 DEF Rec
  <1> HIDE DEF z
  <1>3. w = Rec("join", x.at, x.groups, t, x.drop, f, x.state)
    BY <1>2 DEF Rec
  <1> HIDE DEF w
  <1>4. [w EXCEPT !.drop = d] = Rec("join", x.at, x.groups, t, d, f, x.state)
    BY <1>3 DEF Rec
  <1> QED
    BY <1>4 DEF y, z, w

(* Socket s goes on, and no other. *)
Resumes(s, p, a, g, t, d, f, st) ==
    /\ sock'[s] = Rec(p, a, g, t, d, f, st)
    /\ \A k \in Sockets \ {s} : sock'[k] = sock[k]

LEMMA CoroutineRec ==
    ASSUME NEW p, NEW r PROVE Coroutine(p, r) = Rec(p, r, {}, {}, {}, FALSE, "offline")
  BY DEF Coroutine, Rec

LEMMA StepsType ==
    ASSUME TypeOK, NEW s \in Sockets, NEW y \in Socket, sock' = [sock EXCEPT ![s] = y]
    PROVE  /\ sock' \in [Sockets -> Socket] /\ sock'[s] = y
           /\ \A k \in Sockets \ {s} : sock'[k] = sock[k]
  BY DEF TypeOK

(* The moves of a coroutine within its handler. *)
LEMMA PcSteps ==
    ASSUME TypeOK, NEW s \in Sockets, NEW p \in Resting \cup Busy, Become(s, p)
    PROVE  /\ sock' \in [Sockets -> Socket]
           /\ Resumes(s, p, sock[s].at, sock[s].groups, sock[s].todo, sock[s].drop,
                    sock[s].first, sock[s].state)
  <1> DEFINE x == sock[s]
  <1>1. x \in Socket /\ sock' = [sock EXCEPT ![s] = [x EXCEPT !.pc = p]]
    BY DEF TypeOK, Become
  <1> HIDE DEF x
  <1>2. sock' = [sock EXCEPT ![s] = Rec(p, x.at, x.groups, x.todo, x.drop, x.first, x.state)]
    BY <1>1, RecPc
  <1>3. x.at \in Replicas /\ x.groups \in SUBSET Groups /\ x.todo \in SUBSET Groups
        /\ x.drop \in SUBSET Groups /\ x.first \in BOOLEAN /\ x.state \in States
    BY <1>1 DEF Socket
  <1>4. Rec(p, x.at, x.groups, x.todo, x.drop, x.first, x.state) \in Socket
    BY <1>2, <1>3 DEF Socket, Rec
  <1>5. sock' \in [Sockets -> Socket] /\ Resumes(s, p, x.at, x.groups, x.todo, x.drop, x.first, x.state)
    BY <1>2, <1>4, StepsType DEF Resumes
  <1> QED
    BY <1>5 DEF x

LEMMA TodoSteps ==
    ASSUME TypeOK, NEW s \in Sockets, NEW g, sock' = [sock EXCEPT ![s].todo = @ \ {g}]
    PROVE  /\ sock' \in [Sockets -> Socket]
           /\ Resumes(s, sock[s].pc, sock[s].at, sock[s].groups, sock[s].todo \ {g}, sock[s].drop,
                    sock[s].first, sock[s].state)
  <1> DEFINE x == sock[s]
             t == x.todo \ {g}
  <1>1. x \in Socket /\ sock' = [sock EXCEPT ![s] = [x EXCEPT !.todo = t]]
    BY DEF TypeOK
  <1>2. t \in SUBSET Groups
    BY <1>1 DEF Socket
  <1> HIDE DEF x, t
  <1>3. sock' = [sock EXCEPT ![s] = Rec(x.pc, x.at, x.groups, t, x.drop, x.first, x.state)]
    BY <1>1, RecTodo
  <1>4. x.at \in Replicas /\ x.groups \in SUBSET Groups /\ x.pc \in Resting \cup Busy
        /\ x.drop \in SUBSET Groups /\ x.first \in BOOLEAN /\ x.state \in States
    BY <1>1 DEF Socket
  <1>5. Rec(x.pc, x.at, x.groups, t, x.drop, x.first, x.state) \in Socket
    BY <1>2, <1>3, <1>4 DEF Socket, Rec
  <1>6. sock' \in [Sockets -> Socket] /\ Resumes(s, x.pc, x.at, x.groups, t, x.drop, x.first, x.state)
    BY <1>3, <1>5, StepsType DEF Resumes
  <1> QED
    BY <1>6 DEF x, t

LEMMA DropSteps ==
    ASSUME TypeOK, NEW s \in Sockets, NEW g, sock' = [sock EXCEPT ![s].drop = @ \ {g}]
    PROVE  /\ sock' \in [Sockets -> Socket]
           /\ Resumes(s, sock[s].pc, sock[s].at, sock[s].groups, sock[s].todo, sock[s].drop \ {g},
                    sock[s].first, sock[s].state)
  <1> DEFINE x == sock[s]
             d == x.drop \ {g}
  <1>1. x \in Socket /\ sock' = [sock EXCEPT ![s] = [x EXCEPT !.drop = d]]
    BY DEF TypeOK
  <1>2. d \in SUBSET Groups
    BY <1>1 DEF Socket
  <1> HIDE DEF x, d
  <1>3. sock' = [sock EXCEPT ![s] = Rec(x.pc, x.at, x.groups, x.todo, d, x.first, x.state)]
    BY <1>1, RecDrop
  <1>4. x.at \in Replicas /\ x.groups \in SUBSET Groups /\ x.pc \in Resting \cup Busy
        /\ x.todo \in SUBSET Groups /\ x.first \in BOOLEAN /\ x.state \in States
    BY <1>1 DEF Socket
  <1>5. Rec(x.pc, x.at, x.groups, x.todo, d, x.first, x.state) \in Socket
    BY <1>2, <1>3, <1>4 DEF Socket, Rec
  <1>6. sock' \in [Sockets -> Socket] /\ Resumes(s, x.pc, x.at, x.groups, x.todo, d, x.first, x.state)
    BY <1>3, <1>5, StepsType DEF Resumes
  <1> QED
    BY <1>6 DEF x, d

LEMMA FreshSteps ==
    ASSUME TypeOK, NEW s \in Sockets, NEW p \in Resting \cup Busy, NEW r \in Replicas,
           sock' = [sock EXCEPT ![s] = Coroutine(p, r)]
    PROVE  sock' \in [Sockets -> Socket] /\ Resumes(s, p, r, {}, {}, {}, FALSE, "offline")
  <1>1. Rec(p, r, {}, {}, {}, FALSE, "offline") \in Socket
    BY DEF Socket, Rec, States
  <1> QED
    BY <1>1, CoroutineRec, StepsType DEF Resumes

LEMMA ClosedSteps ==
    ASSUME TypeOK, NEW s \in Sockets, sock' = [sock EXCEPT ![s] = Closed]
    PROVE  /\ sock' \in [Sockets -> Socket] /\ sock'[s].pc = "closed"
           /\ \A k \in Sockets \ {s} : sock'[k] = sock[k]
  <1>1. PICK r \in Replicas : r = CHOOSE x \in Replicas : TRUE
    BY PresenceAssumption
  <1>2. sock' = [sock EXCEPT ![s] = Coroutine("closed", r)]
    BY <1>1 DEF Closed
  <1>3. sock' \in [Sockets -> Socket] /\ Resumes(s, "closed", r, {}, {}, {}, FALSE, "offline")
    BY <1>2, FreshSteps DEF Resting
  <1> QED
    BY <1>3 DEF Resumes, Rec

---------------------------------------------------------------------------
(* What holds whatever overlaps or fails. *)
LEMMA InitPresence == Init => PresenceInv
  <1> SUFFICES ASSUME Init PROVE PresenceInv
    OBVIOUS
  <1>1. PICK r \in Replicas : r = CHOOSE x \in Replicas : TRUE
    BY PresenceAssumption
  <1>2. Closed = Rec("closed", r, {}, {}, {}, FALSE, "offline")
    BY <1>1, CoroutineRec DEF Closed
  <1>3. Closed \in Socket /\ Closed.pc = "closed"
    BY <1>2 DEF Socket, Rec, Resting, States
  <1>4. \A s \in Sockets : sock[s] = Closed
    BY DEF Init
  <1> HIDE DEF Closed
  <1>5. Inv
    BY <1>3, <1>4 DEF Init, Inv, TypeOK, Marks, States, Registered, Forgotten, Accepted
  <1>6. Orderly
    BY <1>3, <1>4 DEF Init, Orderly, Alone, OnePlace, NoneDead, Joining, Leaving, OnlineScope,
       Scope, ConnectionTrue, Present, Busy
  <1>7. Truthful
    BY <1>3, <1>4 DEF Init, Truthful, Outsiders, NoneHeard, Scoped, Heard, Accepted
  <1> QED
    BY <1>5, <1>6, <1>7 DEF PresenceInv

LEMMA InvStep ==
    ASSUME Inv, NEW s \in Sockets, sock' \in [Sockets -> Socket],
           \A k \in Sockets \ {s} : sock'[k] = sock[k],
           sock'[s].pc \in Accepted <=> sock[s].pc \in Accepted,
           sock'[s].pc \in Accepted => sock'[s].at = sock[s].at,
           UNCHANGED <<connections, userGroups>>, marks' \in SUBSET Marks, member' \in SUBSET Groups,
           online' \in SUBSET Groups, connection' \in States, seen' \in [Groups -> States]
    PROVE  Inv'
  <1>1. TypeOK'
    BY DEF Inv, TypeOK
  <1>2. Registered'
    <2> SUFFICES ASSUME NEW r \in Replicas, NEW k \in Sockets
                 PROVE  k \in connections[r] <=> sock'[k].at = r /\ sock'[k].pc \in Accepted
      BY DEF Registered
    <2>1. k \in connections[r] <=> sock[k].at = r /\ sock[k].pc \in Accepted
      BY DEF Inv, Registered
    <2>2. CASE k = s
      BY <2>1, <2>2
    <2>3. CASE k # s
      BY <2>1, <2>3
    <2> QED
      BY <2>2, <2>3
  <1>3. Forgotten'
    BY DEF Inv, Forgotten
  <1> QED
    BY <1>1, <1>2, <1>3 DEF Inv

---------------------------------------------------------------------------
(* Nobody else is served: the other sockets are open or closed. *)
LEMMA Solo ==
    ASSUME Inv, Orderly, NEW s \in Sockets, sock[s].pc \in Busy \/ Serving = {}
    PROVE  \A k \in Sockets \ {s} : sock[k].pc \in {"closed", "open"}
  BY DEF Inv, TypeOK, Socket, Orderly, Alone, NoneDead, Serving, Resting

(* The replica of an open socket is the only one that knows the user. *)
LEMMA ScopeAt ==
    ASSUME Inv, OnePlace, NEW s \in Sockets, sock[s].pc # "closed"
    PROVE  Scope = userGroups[sock[s].at]
  <1> DEFINE a == sock[s].at
  <1>1. a \in Replicas
    BY DEF Inv, TypeOK, Socket
  <1>2. ASSUME NEW r \in Replicas, r # a PROVE userGroups[r] = {}
    <2>1. connections[r] = {}
      <3> SUFFICES ASSUME NEW k \in Sockets, k \in connections[r] PROVE FALSE
        BY DEF Inv, TypeOK
      <3>1. sock[k].at = r /\ sock[k].pc # "closed"
        BY DEF Inv, Registered, Accepted
      <3> QED
        BY <1>2, <3>1 DEF OnePlace
    <2> QED
      BY <2>1 DEF Inv, Forgotten
  <1>3. \A g : g \in Scope <=> \E r \in Replicas : g \in userGroups[r]
    BY DEF Scope
  <1> HIDE DEF a
  <1>4. \A g : g \in Scope <=> g \in userGroups[a]
    BY <1>1, <1>2, <1>3
  <1> QED
    BY <1>4 DEF a

LEMMA OrderlyStep ==
    ASSUME Orderly, NEW s \in Sockets, sock[s].pc # "closed",
           \A k \in Sockets \ {s} : sock'[k] = sock[k] /\ sock[k].pc \in {"closed", "open"},
           sock'[s].pc # "dead", sock'[s].pc = "closed" \/ sock'[s].at = sock[s].at,
           Joining(s)', Leaving(s)', OnlineScope', ConnectionTrue'
    PROVE  Orderly'
  <1>1. Alone'
    BY DEF Alone, Busy
  <1>2. OnePlace'
    BY DEF Orderly, OnePlace
  <1>3. NoneDead'
    BY DEF NoneDead
  <1>4. ASSUME NEW k \in Sockets PROVE Joining(k)' /\ Leaving(k)'
    <2>1. CASE k = s
      BY <2>1
    <2>2. CASE k # s
      BY <2>2 DEF Joining, Leaving
    <2> QED
      BY <2>1, <2>2
  <1> QED
    BY <1>1, <1>2, <1>3, <1>4 DEF Orderly

LEMMA TruthStep ==
    ASSUME Truthful, NEW s \in Sockets,
           \A k \in Sockets \ {s} : sock'[k] = sock[k] /\ sock[k].pc \in {"closed", "open"},
           UNCHANGED member,
           \A k \in Sockets \ {s} : sock[k].pc = "open" =>
              /\ userGroups'[sock[k].at] = member
              /\ \A g \in member : seen'[g] # "offline",
           Scoped(s)', Heard(s)', Outsiders', NoneHeard'
    PROVE  Truthful'
  <1>1. ASSUME NEW k \in Sockets PROVE Scoped(k)' /\ Heard(k)'
    <2>1. CASE k = s
      BY <2>1
    <2>2. CASE k # s
      BY <2>2 DEF Scoped, Heard, Accepted
    <2> QED
      BY <2>1, <2>2
  <1> QED
    BY <1>1 DEF Truthful

(* An open socket besides: what it says of the scope and of the events. *)
LEMMA OpenSays ==
    ASSUME Truthful, NEW k \in Sockets, sock[k].pc = "open"
    PROVE  userGroups[sock[k].at] = member /\ \A g \in member : seen[g] # "offline"
  BY DEF Truthful, Scoped, Heard, Accepted

LEMMA Unmarked == PresenceInv /\ marks \subseteq marks' =>
    /\ marks' \subseteq {"scope"} => Orderly
    /\ marks' = {} => Orderly /\ Truthful
  BY DEF PresenceInv

---------------------------------------------------------------------------
(* The user's groups change. *)
LEMMA ChangeMembershipPresence ==
    ASSUME PresenceInv, NEW g \in Groups, ChangeMembership(g) PROVE PresenceInv'
  <1>1. /\ member' = IF g \in member THEN member \ {g} ELSE member \cup {g}
        /\ marks' = IF \E s \in Sockets : sock[s].pc # "closed" THEN marks \cup {"scope"} ELSE marks
        /\ UNCHANGED <<connections, userGroups, online, connection, seen, sock>>
    BY DEF ChangeMembership, Mark, manager, redis
  <1>2. Inv'
    BY <1>1 DEF PresenceInv, Inv, TypeOK, Marks, Registered, Forgotten
  <1>3. marks' \subseteq {"scope"} => Orderly'
    <2> SUFFICES ASSUME Orderly PROVE Orderly'
      BY <1>1, Unmarked
    <2>1. Alone' /\ OnePlace' /\ NoneDead' /\ \A s \in Sockets : Joining(s)' /\ Leaving(s)'
      BY <1>1 DEF Orderly, Alone, OnePlace, NoneDead, Joining, Leaving
    <2>2. OnlineScope' /\ ConnectionTrue'
      BY <1>1 DEF Orderly, OnlineScope, Scope, ConnectionTrue
    <2> QED
      BY <2>1, <2>2 DEF Orderly
  <1>4. marks' = {} => Truthful'
    <2> SUFFICES ASSUME Truthful, marks' = {} PROVE Truthful'
      BY <1>1, Unmarked
    <2>1. \A s \in Sockets : sock[s].pc = "closed"
      BY <1>1
    <2>2. \A h \in Groups : seen[h] = "offline"
      BY <2>1 DEF Truthful, NoneHeard, Unannounced
    <2> QED
      BY <1>1, <2>1, <2>2 DEF Truthful, Outsiders, NoneHeard, Scoped, Heard, Accepted
  <1> QED
    BY <1>2, <1>3, <1>4 DEF PresenceInv

(* websocket_endpoint. *)
LEMMA AuthenticatePresence ==
    ASSUME PresenceInv, NEW s \in Sockets, NEW r \in Replicas, Authenticate(s, r)
    PROVE  PresenceInv'
  <1>1. /\ sock[s].pc = "closed"
        /\ marks' = marks \cup {m \in {"overlap"} : Serving # {}}
                          \cup {m \in {"replica"} :
                                 \E t \in Sockets : sock[t].pc # "closed" /\ sock[t].at # r}
        /\ sock' = [sock EXCEPT ![s] = [Coroutine("mark", r) EXCEPT !.groups = member]]
        /\ UNCHANGED <<member, connections, userGroups, online, connection, seen>>
        /\ TypeOK
    BY DEF Authenticate, manager, redis, PresenceInv, Inv
  <1>2. /\ sock'[s] = Rec("mark", r, member, {}, {}, FALSE, "offline")
        /\ sock' \in [Sockets -> Socket] /\ \A k \in Sockets \ {s} : sock'[k] = sock[k]
    <2>1. [Coroutine("mark", r) EXCEPT !.groups = member] =
             Rec("mark", r, member, {}, {}, FALSE, "offline")
      <3>1. Coroutine("mark", r) \in Socket
        BY DEF Coroutine, Socket, Busy, States
      <3> QED
        BY <3>1, CoroutineRec, RecGroups DEF Rec
    <2>2. Rec("mark", r, member, {}, {}, FALSE, "offline") \in Socket
      BY <1>1 DEF Rec, Socket, Resting, Busy, States, TypeOK
    <2> QED
      BY <1>1, <2>1, <2>2, StepsType
  <1>3. sock'[s].pc = "mark" /\ sock'[s].at = r /\ sock'[s].groups = member
    BY <1>2 DEF Rec
  <1>4. Inv'
    <2>1. marks' \in SUBSET Marks
      BY <1>1 DEF TypeOK, Marks
    <2> QED
      BY <1>1, <1>2, <1>3, <2>1, InvStep DEF PresenceInv, TypeOK, Accepted
  <1>5. marks' \subseteq {"scope"} =>
           /\ Orderly /\ Serving = {}
           /\ \A t \in Sockets : sock[t].pc # "closed" => sock[t].at = r
    BY <1>1, Unmarked
  <1>6. marks' \subseteq {"scope"} => \A k \in Sockets \ {s} : sock[k].pc \in {"closed", "open"}
    BY <1>5, Solo DEF PresenceInv
  <1>7. ASSUME marks' \subseteq {"scope"} PROVE Orderly'
    <2>1. Alone' /\ OnePlace' /\ NoneDead'
      <3>1. Alone'
        BY <1>2, <1>6, <1>7 DEF Alone, Busy
      <3>2. OnePlace'
        BY <1>2, <1>3, <1>5, <1>7 DEF OnePlace
      <3>3. NoneDead'
        BY <1>2, <1>3, <1>6, <1>7 DEF NoneDead
      <3> QED
        BY <3>1, <3>2, <3>3
    <2>2. \A k \in Sockets : Joining(k)' /\ Leaving(k)'
      BY <1>2, <1>3, <1>6, <1>7 DEF Joining, Leaving
    <2>3. OnlineScope'
      BY <1>1, <1>5, <1>6, <1>7 DEF Orderly, OnlineScope, Scope
    <2>4. ConnectionTrue'
      BY <1>1, <1>2, <1>3, <1>5, <1>7 DEF Orderly, ConnectionTrue, Present
    <2> QED
      BY <2>1, <2>2, <2>3, <2>4 DEF Orderly
  <1>8. ASSUME marks' = {} PROVE Truthful'
    <2>1. Truthful /\ \A k \in Sockets \ {s} : sock[k].pc \in {"closed", "open"}
      BY <1>1, <1>6, <1>8, Unmarked
    <2>2. Scoped(s)' /\ Heard(s)'
      BY <1>1, <1>3 DEF Scoped, Heard, Accepted
    <2>3. Outsiders' /\ NoneHeard'
      BY <1>1, <1>2, <2>1 DEF Truthful, Outsiders, NoneHeard, Unannounced
    <2> QED
      BY <1>1, <1>2, <2>1, <2>2, <2>3, OpenSays, TruthStep
  <1> QED
    BY <1>4, <1>7, <1>8 DEF PresenceInv

---------------------------------------------------------------------------
(* A handler of s goes on: what is left to show of the others. *)
LEMMA ServeStep ==
    ASSUME PresenceInv, Inv', NEW s \in Sockets, UNCHANGED marks, sock[s].pc \in Busy,
           \A k \in Sockets \ {s} : sock'[k] = sock[k],
           sock'[s].pc # "dead", sock'[s].pc = "closed" \/ sock'[s].at = sock[s].at,
           Orderly => Joining(s)' /\ Leaving(s)' /\ OnlineScope' /\ ConnectionTrue',
           Orderly /\ Truthful => Truthful'
    PROVE  PresenceInv'
  <1>1. marks' \subseteq {"scope"} => Orderly'
    <2> SUFFICES ASSUME Orderly PROVE Orderly'
      BY Unmarked
    <2>1. \A k \in Sockets \ {s} : sock[k].pc \in {"closed", "open"}
      BY Solo DEF PresenceInv
    <2>2. sock[s].pc # "closed"
      BY DEF Busy
    <2> QED
      BY <2>1, <2>2, OrderlyStep
  <1>2. marks' = {} => Truthful'
    BY Unmarked
  <1> QED
    BY <1>1, <1>2 DEF PresenceInv

LEMMA SetOnlinePresence ==
    ASSUME PresenceInv, NEW s \in Sockets, SetOnline(s) PROVE PresenceInv'
  <1>1. /\ sock[s].pc = "mark" /\ connection' = "online" /\ Become(s, "accept")
        /\ UNCHANGED <<member, marks, connections, userGroups, online, seen>> /\ TypeOK
    BY DEF SetOnline, manager, PresenceInv, Inv
  <1>2. /\ sock' \in [Sockets -> Socket]
        /\ Resumes(s, "accept", sock[s].at, sock[s].groups, sock[s].todo, sock[s].drop,
                 sock[s].first, sock[s].state)
    BY <1>1, PcSteps DEF Busy
  <1>3. /\ sock'[s].pc = "accept" /\ sock'[s].at = sock[s].at /\ sock'[s].groups = sock[s].groups
        /\ \A k \in Sockets \ {s} : sock'[k] = sock[k]
    BY <1>2 DEF Resumes, Rec
  <1>4. Inv'
    BY <1>1, <1>2, <1>3, InvStep DEF PresenceInv, TypeOK, Accepted, States
  <1>5. Orderly => \A k \in Sockets \ {s} : sock[k].pc \in {"closed", "open"}
    BY <1>1, Solo DEF PresenceInv, Busy
  <1>6. ASSUME Orderly PROVE Joining(s)' /\ Leaving(s)' /\ OnlineScope' /\ ConnectionTrue'
    <2>1. Joining(s)' /\ Leaving(s)'
      BY <1>3 DEF Joining, Leaving
    <2>2. OnlineScope'
      BY <1>1, <1>5, <1>6 DEF Orderly, OnlineScope, Scope
    <2>3. ConnectionTrue'
      BY <1>1, <1>3 DEF ConnectionTrue, Present
    <2> QED
      BY <2>1, <2>2, <2>3
  <1>7. ASSUME Orderly, Truthful PROVE Truthful'
    <2>1. Scoped(s)' /\ Heard(s)'
      BY <1>1, <1>3, <1>7 DEF Truthful, Scoped, Heard, Accepted
    <2>2. Outsiders' /\ NoneHeard'
      BY <1>1, <1>3, <1>7 DEF Truthful, Outsiders, NoneHeard, Unannounced
    <2> QED
      BY <1>1, <1>3, <1>5, <1>7, <2>1, <2>2, OpenSays, TruthStep
  <1> QED
    BY <1>1, <1>3, <1>4, <1>6, <1>7, ServeStep DEF Busy

(* manager.connect: the scope the manager had is what Redis still has. *)
LEMMA AcceptPresence ==
    ASSUME PresenceInv, NEW s \in Sockets, Accept(s) PROVE PresenceInv'
  <1> DEFINE x == sock[s]
             r == x.at
             t == x.groups \ userGroups[r]
             d == userGroups[r] \ x.groups
             f == First(s)
  <1>1. /\ x \in Socket /\ x.pc = "accept" /\ r \in Replicas /\ x.groups \in SUBSET Groups
        /\ t \in SUBSET Groups /\ d \in SUBSET Groups /\ f \in BOOLEAN /\ TypeOK
        /\ f <=> connections[r] = {}
    BY DEF Accept, PresenceInv, Inv, TypeOK, Socket, First
  <1>2. /\ connections' = [connections EXCEPT ![r] = connections[r] \cup {s}]
        /\ userGroups' = [userGroups EXCEPT ![r] = x.groups]
        /\ UNCHANGED <<member, marks, online, connection, seen>>
    BY DEF Accept, Joined, redis
  <1>3. sock' = [sock EXCEPT ![s] = [x EXCEPT !.pc = "join", !.first = f, !.todo = t, !.drop = d]]
    BY DEF Accept, ScopeLost
  <1> HIDE DEF x, t, d, f
  <1>0. x \in Socket
    BY <1>1
  <1>4. [x EXCEPT !.pc = "join", !.first = f, !.todo = t, !.drop = d] =
           Rec("join", r, x.groups, t, d, f, x.state)
    BY <1>0, RecAccepted
  <1>5. Rec("join", r, x.groups, t, d, f, x.state) \in Socket
    BY <1>1 DEF Rec, Socket, Busy
  <1>6. /\ sock' \in [Sockets -> Socket] /\ sock'[s] = Rec("join", r, x.groups, t, d, f, x.state)
        /\ \A k \in Sockets \ {s} : sock'[k] = sock[k]
    BY <1>1, <1>3, <1>4, <1>5, StepsType
  <1>7. /\ sock'[s].pc = "join" /\ sock'[s].at = r /\ sock'[s].groups = x.groups
        /\ sock'[s].todo = t /\ sock'[s].drop = d /\ sock'[s].first = f
    BY <1>6 DEF Rec
  <1>8. /\ userGroups'[r] = x.groups /\ connections'[r] = connections[r] \cup {s}
        /\ \A a \in Replicas : a # r => /\ connections'[a] = connections[a]
                                        /\ userGroups'[a] = userGroups[a]
    BY <1>1, <1>2 DEF TypeOK
  <1>9. Inv'
    <2>1. TypeOK'
      BY <1>1, <1>2, <1>6 DEF TypeOK
    <2>2. Registered'
      <3> SUFFICES ASSUME NEW a \in Replicas, NEW k \in Sockets
                   PROVE  k \in connections'[a] <=> sock'[k].at = a /\ sock'[k].pc \in Accepted
        BY DEF Registered
      <3>1. k \in connections[a] <=> sock[k].at = a /\ sock[k].pc \in Accepted
        BY DEF PresenceInv, Inv, Registered
      <3>2. CASE k = s
        BY <1>1, <1>7, <1>8, <3>1, <3>2 DEF Accepted, x
      <3>3. CASE k # s
        BY <1>6, <1>8, <3>1, <3>3
      <3> QED
        BY <3>2, <3>3
    <2>3. Forgotten'
      BY <1>8 DEF PresenceInv, Inv, Forgotten
    <2> QED
      BY <2>1, <2>2, <2>3 DEF Inv
  <1>10. Orderly => \A k \in Sockets \ {s} : sock[k].pc \in {"closed", "open"}
    BY <1>1, Solo DEF PresenceInv, Busy, x
  <1>11. Orderly => \A k \in Sockets \ {s} : sock[k].pc = "open" => sock[k].at = r
    BY <1>1 DEF Orderly, OnePlace, x
  <1>12. ASSUME Orderly PROVE Joining(s)' /\ Leaving(s)' /\ OnlineScope' /\ ConnectionTrue'
    <2>1. online = userGroups[r]
      <3>1. Scope = userGroups[r]
        BY <1>1, <1>12, ScopeAt DEF PresenceInv, Orderly, x
      <3> QED
        BY <1>1, <1>10, <1>12, <3>1 DEF Orderly, OnlineScope, x
    <2>2. /\ t \subseteq x.groups /\ d \cap x.groups = {}
          /\ userGroups[r] = (x.groups \ t) \cup d
      BY DEF t, d
    <2>3. Joining(s)'
      BY <1>2, <1>7, <1>8, <2>1, <2>2 DEF Joining
    <2>4. Leaving(s)' /\ OnlineScope'
      BY <1>7 DEF Leaving, OnlineScope
    <2>5. ConnectionTrue'
      BY <1>1, <1>2, <1>6, <1>7, <1>12 DEF Orderly, ConnectionTrue, Present, x
    <2> QED
      BY <2>3, <2>4, <2>5
  <1>13. ASSUME Orderly, Truthful PROVE Truthful'
    <2>1. x.groups = member
      BY <1>1, <1>13 DEF Truthful, Scoped, x
    <2>2. f <=> connections'[r] = {s}
      <3>1. s \notin connections[r]
        BY <1>1 DEF PresenceInv, Inv, Registered, Accepted, x
      <3> QED
        BY <1>1, <1>8, <3>1
    <2>3. Scoped(s)' /\ Heard(s)'
      BY <1>2, <1>7, <1>8, <2>1, <2>2 DEF Scoped, Heard, Accepted
    <2>4. Outsiders'
      BY <1>2, <1>13 DEF Truthful, Outsiders
    <2>5. NoneHeard'
      <3> SUFFICES ASSUME \A k \in Sockets : Unannounced(k)' PROVE \A g \in Groups : seen[g] = "offline"
        BY <1>2 DEF NoneHeard
      <3>1. \A k \in Sockets : Unannounced(k)
        BY <1>1, <1>6 DEF Unannounced, x
      <3> QED
        BY <1>13, <3>1 DEF Truthful, NoneHeard
    <2>6. \A k \in Sockets \ {s} : sock[k].pc = "open" =>
             userGroups'[sock[k].at] = member /\ \A g \in member : seen'[g] # "offline"
      BY <1>2, <1>8, <1>11, <1>13, <2>1, OpenSays
    <2> QED
      BY <1>2, <1>6, <1>10, <1>13, <2>3, <2>4, <2>5, <2>6, TruthStep
  <1>14. sock[s].pc \in Busy /\ sock[s].at = r
    BY <1>1 DEF Busy, x
  <1> HIDE DEF r
  <1> QED
    BY <1>2, <1>6, <1>7, <1>9, <1>12, <1>13, <1>14, ServeStep

(* The rest of manager.connect: Redis is brought to the new scope. *)
LEMMA EnterGroupPresence ==
    ASSUME PresenceInv, NEW s \in Sockets, NEW g \in Groups, EnterGroup(s, g) PROVE PresenceInv'
  <1>1. /\ sock[s].pc = "join" /\ g \in sock[s].todo /\ online' = online \cup {g}
        /\ sock' = [sock EXCEPT ![s].todo = @ \ {g}]
        /\ UNCHANGED <<member, marks, connections, userGroups, connection, seen>> /\ TypeOK
    BY DEF EnterGroup, manager, PresenceInv, Inv
  <1>2. /\ sock' \in [Sockets -> Socket]
        /\ Resumes(s, sock[s].pc, sock[s].at, sock[s].groups, sock[s].todo \ {g}, sock[s].drop,
                 sock[s].first, sock[s].state)
    BY <1>1, TodoSteps
  <1>3. /\ sock'[s].pc = "join" /\ sock'[s].at = sock[s].at /\ sock'[s].groups = sock[s].groups
        /\ sock'[s].todo = sock[s].todo \ {g} /\ sock'[s].drop = sock[s].drop
        /\ sock'[s].first = sock[s].first /\ \A k \in Sockets \ {s} : sock'[k] = sock[k]
    BY <1>1, <1>2 DEF Resumes, Rec
  <1>4. Inv'
    BY <1>1, <1>2, <1>3, InvStep DEF PresenceInv, TypeOK
  <1>5. Orderly => \A k \in Sockets \ {s} : sock[k].pc \in {"closed", "open"}
    BY <1>1, Solo DEF PresenceInv, Busy
  <1>6. ASSUME Orderly PROVE Joining(s)' /\ Leaving(s)' /\ OnlineScope' /\ ConnectionTrue'
    <2>1. Joining(s)'
      BY <1>1, <1>3, <1>6 DEF Orderly, Joining
    <2>2. Leaving(s)' /\ OnlineScope'
      BY <1>3 DEF Leaving, OnlineScope
    <2>3. ConnectionTrue'
      BY <1>1, <1>3, <1>6 DEF Orderly, ConnectionTrue, Present
    <2> QED
      BY <2>1, <2>2, <2>3
  <1>7. ASSUME Orderly, Truthful PROVE Truthful'
    <2>1. Scoped(s)' /\ Heard(s)'
      BY <1>1, <1>3, <1>7 DEF Truthful, Scoped, Heard, Accepted
    <2>2. Outsiders' /\ NoneHeard'
      BY <1>1, <1>3, <1>7 DEF Truthful, Outsiders, NoneHeard, Unannounced
    <2> QED
      BY <1>1, <1>3, <1>5, <1>7, <2>1, <2>2, OpenSays, TruthStep
  <1> QED
    BY <1>1, <1>3, <1>4, <1>6, <1>7, ServeStep DEF Busy

LEMMA DropGroupPresence ==
    ASSUME PresenceInv, NEW s \in Sockets, NEW g \in Groups, DropGroup(s, g) PROVE PresenceInv'
  <1>1. /\ sock[s].pc = "join" /\ g \in sock[s].drop /\ online' = online \ {g}
        /\ sock' = [sock EXCEPT ![s].drop = @ \ {g}]
        /\ UNCHANGED <<member, marks, connections, userGroups, connection, seen>> /\ TypeOK
    BY DEF DropGroup, manager, PresenceInv, Inv
  <1>2. /\ sock' \in [Sockets -> Socket]
        /\ Resumes(s, sock[s].pc, sock[s].at, sock[s].groups, sock[s].todo, sock[s].drop \ {g},
                 sock[s].first, sock[s].state)
    BY <1>1, DropSteps
  <1>3. /\ sock'[s].pc = "join" /\ sock'[s].at = sock[s].at /\ sock'[s].groups = sock[s].groups
        /\ sock'[s].todo = sock[s].todo /\ sock'[s].drop = sock[s].drop \ {g}
        /\ sock'[s].first = sock[s].first /\ \A k \in Sockets \ {s} : sock'[k] = sock[k]
    BY <1>1, <1>2 DEF Resumes, Rec
  <1>4. Inv'
    BY <1>1, <1>2, <1>3, InvStep DEF PresenceInv, TypeOK
  <1>5. Orderly => \A k \in Sockets \ {s} : sock[k].pc \in {"closed", "open"}
    BY <1>1, Solo DEF PresenceInv, Busy
  <1>6. ASSUME Orderly PROVE Joining(s)' /\ Leaving(s)' /\ OnlineScope' /\ ConnectionTrue'
    <2>1. Joining(s)'
      BY <1>1, <1>3, <1>6 DEF Orderly, Joining
    <2>2. Leaving(s)' /\ OnlineScope'
      BY <1>3 DEF Leaving, OnlineScope
    <2>3. ConnectionTrue'
      BY <1>1, <1>3, <1>6 DEF Orderly, ConnectionTrue, Present
    <2> QED
      BY <2>1, <2>2, <2>3
  <1>7. ASSUME Orderly, Truthful PROVE Truthful'
    <2>1. Scoped(s)' /\ Heard(s)'
      BY <1>1, <1>3, <1>7 DEF Truthful, Scoped, Heard, Accepted
    <2>2. Outsiders' /\ NoneHeard'
      BY <1>1, <1>3, <1>7 DEF Truthful, Outsiders, NoneHeard, Unannounced
    <2> QED
      BY <1>1, <1>3, <1>5, <1>7, <2>1, <2>2, OpenSays, TruthStep
  <1> QED
    BY <1>1, <1>3, <1>4, <1>6, <1>7, ServeStep DEF Busy

(* After it Redis holds the scope.  Who is not the first finds the groups    *)
(* told already.                                                            *)
LEMMA SendSnapshotPresence ==
    ASSUME PresenceInv, NEW s \in Sockets, SendSnapshot(s) PROVE PresenceInv'
  <1> DEFINE x == sock[s]
  <1>1. /\ x \in Socket /\ x.pc = "join" /\ x.todo = {} /\ x.drop = {}
        /\ UNCHANGED <<member, marks, connections, userGroups, online, connection, seen>> /\ TypeOK
    BY DEF SendSnapshot, manager, redis, PresenceInv, Inv, TypeOK
  <1>2. PICK p \in {"announce", "open"} :
           /\ sock' \in [Sockets -> Socket] /\ \A k \in Sockets \ {s} : sock'[k] = sock[k]
           /\ sock'[s].pc = p /\ sock'[s].at = x.at
           /\ p = "announce" => /\ x.first /\ sock'[s].first = x.first
                                /\ sock'[s].groups = x.groups /\ sock'[s].todo = x.groups
           /\ p = "open" => ~x.first
    <2>1. CASE x.first
      <3>1. PICK p : p = "announce"
        OBVIOUS
      <3>2. sock' = [sock EXCEPT ![s] = [x EXCEPT !.pc = p, !.todo = x.groups]]
        BY <2>1, <3>1 DEF SendSnapshot
      <3> HIDE DEF x
      <3>3. [x EXCEPT !.pc = p, !.todo = x.groups] =
               Rec(p, x.at, x.groups, x.groups, x.drop, x.first, x.state)
        BY <1>1, RecPcTodo
      <3>4. Rec(p, x.at, x.groups, x.groups, x.drop, x.first, x.state) \in Socket
        BY <1>1, <3>1 DEF Socket, Rec, Busy
      <3>5. /\ sock' \in [Sockets -> Socket] /\ \A k \in Sockets \ {s} : sock'[k] = sock[k]
            /\ sock'[s] = Rec(p, x.at, x.groups, x.groups, x.drop, x.first, x.state)
        BY <1>1, <3>2, <3>3, <3>4, StepsType
      <3>6. /\ sock'[s].pc = "announce" /\ sock'[s].at = x.at /\ sock'[s].first = x.first
            /\ sock'[s].groups = x.groups /\ sock'[s].todo = x.groups
        BY <3>1, <3>5 DEF Rec
      <3> QED
        BY <2>1, <3>5, <3>6
    <2>2. CASE ~x.first
      <3>1. sock' = [sock EXCEPT ![s] = Coroutine("open", x.at)] /\ x.at \in Replicas
        BY <1>1, <2>2 DEF SendSnapshot, Rest, Socket
      <3>2. /\ sock' \in [Sockets -> Socket]
            /\ Resumes(s, "open", x.at, {}, {}, {}, FALSE, "offline")
        BY <1>1, <3>1, FreshSteps DEF Resting
      <3> QED
        BY <2>2, <3>2 DEF Resumes, Rec
    <2> QED
      BY <2>1, <2>2
  <1> HIDE DEF x
  <1>3. Inv'
    BY <1>1, <1>2, InvStep DEF PresenceInv, TypeOK, Accepted, x
  <1>4. Orderly => \A k \in Sockets \ {s} : sock[k].pc \in {"closed", "open"}
    BY <1>1, Solo DEF PresenceInv, Busy, x
  <1>5. ASSUME Orderly PROVE Joining(s)' /\ Leaving(s)' /\ OnlineScope' /\ ConnectionTrue'
    <2>1. Joining(s)' /\ Leaving(s)'
      BY <1>2 DEF Joining, Leaving
    <2>2. OnlineScope'
      <3>1. Scope = userGroups[x.at]
        BY <1>1, <1>5, ScopeAt DEF PresenceInv, Orderly, x
      <3>2. /\ userGroups[x.at] = x.groups
            /\ online = (x.groups \ x.todo) \cup x.drop
        BY <1>1, <1>5 DEF Orderly, Joining, x
      <3>3. online = userGroups[x.at]
        BY <1>1, <3>2
      <3> QED
        BY <1>1, <3>1, <3>3 DEF OnlineScope, Scope
    <2>3. ConnectionTrue'
      BY <1>1, <1>2, <1>5 DEF Orderly, ConnectionTrue, Present, x
    <2> QED
      BY <2>1, <2>2, <2>3
  <1>6. ASSUME Orderly, Truthful PROVE Truthful'
    <2>1. /\ x.groups = member /\ (x.first <=> connections[x.at] = {s})
          /\ userGroups[x.at] = member
      BY <1>1, <1>6 DEF Truthful, Scoped, Accepted, x
    <2>2. CASE sock'[s].pc = "announce"
      <3>1. Scoped(s)' /\ Heard(s)'
        BY <1>1, <1>2, <2>1, <2>2 DEF Scoped, Heard, Accepted
      <3>2. Outsiders' /\ NoneHeard'
        BY <1>1, <1>6, <2>2 DEF Truthful, Outsiders, NoneHeard, Unannounced
      <3> QED
        BY <1>1, <1>2, <1>4, <1>6, <3>1, <3>2, OpenSays, TruthStep
    <2>3. CASE sock'[s].pc = "open"
      <3>1. s \in connections[x.at] /\ x.at \in Replicas
        BY <1>1 DEF PresenceInv, Inv, Registered, Accepted, Socket, x
      <3>2. PICK k \in Sockets : k \in connections[x.at] /\ k # s
        BY <1>1, <1>2, <2>1, <2>3, <3>1 DEF TypeOK
      <3>3. sock[k].pc = "open"
        BY <1>4, <1>6, <3>1, <3>2 DEF PresenceInv, Inv, Registered, Accepted
      <3>4. \A g \in member : seen[g] # "offline"
        BY <1>6, <3>3, OpenSays
      <3>5. Scoped(s)' /\ Heard(s)'
        BY <1>1, <1>2, <2>1, <2>3, <3>4 DEF Scoped, Heard, Accepted
      <3>6. Outsiders' /\ NoneHeard'
        BY <1>1, <1>6, <2>3 DEF Truthful, Outsiders, NoneHeard, Unannounced
      <3> QED
        BY <1>1, <1>2, <1>4, <1>6, <3>5, <3>6, OpenSays, TruthStep
    <2> QED
      BY <1>2, <2>2, <2>3
  <1> QED
    BY <1>1, <1>2, <1>3, <1>5, <1>6, ServeStep DEF Busy, x

(* publish_user_online, the event of a report, publish_user_offline. *)
LEMMA PublishFacts ==
    ASSUME PresenceInv, NEW s \in Sockets, NEW g \in Groups, NEW state \in States,
           Publish(s, g, state)
    PROVE  /\ Inv' /\ g \in sock[s].todo /\ seen' = [seen EXCEPT ![g] = state]
           /\ seen'[g] = state /\ \A h \in Groups \ {g} : seen'[h] = seen[h]
           /\ UNCHANGED <<member, marks, connections, userGroups, online, connection>>
           /\ sock'[s].pc = sock[s].pc /\ sock'[s].at = sock[s].at
           /\ sock'[s].groups = sock[s].groups /\ sock'[s].todo = sock[s].todo \ {g}
           /\ sock'[s].drop = sock[s].drop /\ sock'[s].first = sock[s].first
           /\ sock'[s].state = sock[s].state
           /\ \A k \in Sockets \ {s} : sock'[k] = sock[k]
           /\ sock[s].todo \subseteq Groups
  <1>1. /\ g \in sock[s].todo /\ seen' = [seen EXCEPT ![g] = state]
        /\ sock' = [sock EXCEPT ![s].todo = @ \ {g}]
        /\ UNCHANGED <<member, marks, connections, userGroups, online, connection>> /\ TypeOK
    BY DEF Publish, manager, PresenceInv, Inv
  <1>2. /\ sock' \in [Sockets -> Socket]
        /\ Resumes(s, sock[s].pc, sock[s].at, sock[s].groups, sock[s].todo \ {g}, sock[s].drop,
                 sock[s].first, sock[s].state)
    BY <1>1, TodoSteps
  <1>3. /\ sock'[s].pc = sock[s].pc /\ sock'[s].at = sock[s].at
        /\ sock'[s].groups = sock[s].groups /\ sock'[s].todo = sock[s].todo \ {g}
        /\ sock'[s].drop = sock[s].drop /\ sock'[s].first = sock[s].first
        /\ sock'[s].state = sock[s].state /\ \A k \in Sockets \ {s} : sock'[k] = sock[k]
    BY <1>2 DEF Resumes, Rec
  <1>4. seen' \in [Groups -> States] /\ seen'[g] = state
        /\ \A h \in Groups \ {g} : seen'[h] = seen[h]
    BY <1>1 DEF TypeOK
  <1>5. Inv'
    BY <1>1, <1>2, <1>3, <1>4, InvStep DEF PresenceInv, TypeOK
  <1>6. sock[s].todo \subseteq Groups
    BY <1>1 DEF TypeOK, Socket
  <1> QED
    BY <1>1, <1>3, <1>4, <1>5, <1>6

(* An event changes nothing of what Redis holds. *)
LEMMA PublishOrderly ==
    ASSUME PresenceInv, NEW s \in Sockets, NEW g \in Groups, NEW state \in States,
           Publish(s, g, state), sock[s].pc \in {"announce", "tell", "farewell"}, Orderly
    PROVE  Joining(s)' /\ Leaving(s)' /\ OnlineScope' /\ ConnectionTrue'
  <1>1. Joining(s)' /\ Leaving(s)'
    BY PublishFacts DEF Orderly, Joining, Leaving
  <1>2. OnlineScope'
    <2>1. \A k \in Sockets : sock'[k].pc = sock[k].pc
      BY PublishFacts
    <2> QED
      BY <2>1, PublishFacts DEF Orderly, OnlineScope, Scope
  <1>3. ConnectionTrue'
    <2>1. \A k \in Sockets : sock'[k].pc = sock[k].pc
      BY PublishFacts
    <2> QED
      BY <2>1, PublishFacts DEF Orderly, ConnectionTrue
  <1> QED
    BY <1>1, <1>2, <1>3

LEMMA AnnouncePresence ==
    ASSUME PresenceInv, NEW s \in Sockets, NEW g \in Groups,
           Announce(s, g) \/ Tell(s, g) \/ SayFarewell(s, g)
    PROVE  PresenceInv'
  <1>1. PICK state \in States :
           /\ Publish(s, g, state)
           /\ \/ sock[s].pc = "announce" /\ state = "online"
              \/ sock[s].pc = "tell" /\ state = sock[s].state
              \/ sock[s].pc = "farewell" /\ state = "offline"
    BY DEF Announce, Tell, SayFarewell, States, PresenceInv, Inv, TypeOK, Socket
  <1>2. /\ Inv' /\ g \in sock[s].todo
        /\ seen'[g] = state /\ \A h \in Groups \ {g} : seen'[h] = seen[h]
        /\ UNCHANGED <<member, marks, userGroups, connections>>
        /\ sock'[s].pc = sock[s].pc /\ sock'[s].at = sock[s].at
        /\ sock'[s].groups = sock[s].groups /\ sock'[s].todo = sock[s].todo \ {g}
        /\ sock'[s].first = sock[s].first /\ sock'[s].state = sock[s].state
        /\ \A k \in Sockets \ {s} : sock'[k] = sock[k]
    BY <1>1, PublishFacts
  <1>3. Orderly => \A k \in Sockets \ {s} : sock[k].pc \in {"closed", "open"}
    BY <1>1, Solo DEF PresenceInv, Busy
  <1>4. Orderly => Joining(s)' /\ Leaving(s)' /\ OnlineScope' /\ ConnectionTrue'
    BY <1>1, PublishOrderly
  <1>5. ASSUME Orderly, Truthful PROVE Truthful'
    <2>1. member \subseteq Groups /\ Scoped(s) /\ Heard(s)
      BY <1>5 DEF Truthful, PresenceInv, Inv, TypeOK
    <2>2. g \in member
      BY <1>1, <1>2, <2>1 DEF Scoped
    <2>3. sock[s].pc = "tell" => state # "offline"
      BY <1>1, <2>1 DEF Scoped
    <2>4. Scoped(s)'
      BY <1>1, <1>2, <2>1 DEF Scoped, Accepted
    <2>5. Heard(s)'
      BY <1>1, <1>2, <2>1, <2>2, <2>3 DEF Heard
    <2>6. Outsiders' /\ NoneHeard'
      BY <1>1, <1>2, <1>5, <2>2 DEF Truthful, Outsiders, NoneHeard, Unannounced
    <2>7. \A k \in Sockets \ {s} : sock[k].pc = "open" =>
             userGroups'[sock[k].at] = member /\ \A h \in member : seen'[h] # "offline"
      <3> SUFFICES ASSUME NEW k \in Sockets \ {s}, sock[k].pc = "open"
                   PROVE  userGroups[sock[k].at] = member /\ \A h \in member : seen'[h] # "offline"
        BY <1>2
      <3>1. userGroups[sock[k].at] = member /\ \A h \in member : seen[h] # "offline"
        BY <1>5, OpenSays
      <3>2. sock[s].pc # "farewell"
        <4> SUFFICES ASSUME sock[s].pc = "farewell" PROVE FALSE
          OBVIOUS
        <4>1. connections[sock[s].at] = {} /\ sock[k].at = sock[s].at /\ sock[k].at \in Replicas
          BY <1>5 DEF Orderly, Leaving, OnePlace, PresenceInv, Inv, TypeOK, Socket
        <4>2. k \in connections[sock[k].at]
          BY <4>1 DEF PresenceInv, Inv, Registered, Accepted
        <4> QED
          BY <4>1, <4>2
      <3> QED
        BY <1>1, <1>2, <2>1, <2>3, <3>1, <3>2
    <2> QED
      BY <1>2, <1>3, <1>5, <2>4, <2>5, <2>6, <2>7, TruthStep
  <1> QED
    BY <1>1, <1>2, <1>4, <1>5, ServeStep DEF Busy

(* A handler that has told everybody rests. *)
LEMMA RestPresence ==
    ASSUME PresenceInv, NEW s \in Sockets, Announced(s) \/ Told(s) PROVE PresenceInv'
  <1>1. /\ sock[s].pc \in {"announce", "tell"} /\ sock[s].todo = {} /\ sock[s].at \in Replicas
        /\ sock' = [sock EXCEPT ![s] = Coroutine("open", sock[s].at)]
        /\ UNCHANGED <<member, marks, connections, userGroups, online, connection, seen>> /\ TypeOK
    BY DEF Announced, Told, Rest, manager, redis, PresenceInv, Inv, TypeOK, Socket
  <1>2. PICK a \in Replicas : a = sock[s].at
    BY <1>1
  <1>3. sock' \in [Sockets -> Socket] /\ Resumes(s, "open", a, {}, {}, {}, FALSE, "offline")
    BY <1>1, <1>2, FreshSteps DEF Resting
  <1>4. /\ sock'[s].pc = "open" /\ sock'[s].at = sock[s].at
        /\ \A k \in Sockets \ {s} : sock'[k] = sock[k]
    BY <1>2, <1>3 DEF Resumes, Rec
  <1>5. Inv'
    BY <1>1, <1>3, <1>4, InvStep DEF PresenceInv, TypeOK, Accepted
  <1>6. Orderly => \A k \in Sockets \ {s} : sock[k].pc \in {"closed", "open"}
    BY <1>1, Solo DEF PresenceInv, Busy
  <1>7. ASSUME Orderly PROVE Joining(s)' /\ Leaving(s)' /\ OnlineScope' /\ ConnectionTrue'
    <2>1. Joining(s)' /\ Leaving(s)'
      BY <1>4 DEF Joining, Leaving
    <2>2. OnlineScope'
      BY <1>1, <1>6, <1>7 DEF Orderly, OnlineScope, Scope
    <2>3. ConnectionTrue'
      BY <1>1, <1>4, <1>7 DEF Orderly, ConnectionTrue, Present
    <2> QED
      BY <2>1, <2>2, <2>3
  <1>8. ASSUME Orderly, Truthful PROVE Truthful'
    <2>1. Scoped(s)' /\ Heard(s)'
      BY <1>1, <1>4, <1>8 DEF Truthful, Scoped, Heard, Accepted
    <2>2. Outsiders' /\ NoneHeard'
      BY <1>1, <1>4, <1>8 DEF Truthful, Outsiders, NoneHeard, Unannounced
    <2> QED
      BY <1>1, <1>4, <1>6, <1>8, <2>1, <2>2, OpenSays, TruthStep
  <1> QED
    BY <1>1, <1>4, <1>5, <1>7, <1>8, ServeStep DEF Busy

---------------------------------------------------------------------------
(* presence_lifecycle. *)
LEMMA LifecyclePresence ==
    ASSUME PresenceInv, NEW s \in Sockets, NEW word \in {"active", "away"}, Lifecycle(s, word)
    PROVE  PresenceInv'
  <1> DEFINE x == sock[s]
             st == Reported(word)
             t == userGroups[x.at]
  <1>1. /\ x \in Socket /\ x.pc = "open" /\ x.at \in Replicas /\ st \in States \ {"offline"}
        /\ t \in SUBSET Groups /\ TypeOK
        /\ sock' = [sock EXCEPT ![s] = [x EXCEPT !.pc = "lifecycle", !.state = st, !.todo = t]]
        /\ marks' = IF Serving # {} THEN marks \cup {"overlap"} ELSE marks
        /\ UNCHANGED <<member, connections, userGroups, online, connection, seen>>
    BY DEF Lifecycle, Start, Mark, Reported, States, manager, redis, PresenceInv, Inv, TypeOK, Socket
  <1> HIDE DEF x, st, t
  <1>0. x \in Socket
    BY <1>1
  <1>2. [x EXCEPT !.pc = "lifecycle", !.state = st, !.todo = t] =
           Rec("lifecycle", x.at, x.groups, t, x.drop, x.first, st)
    BY <1>0, RecWord
  <1>3. Rec("lifecycle", x.at, x.groups, t, x.drop, x.first, st) \in Socket
    BY <1>1 DEF Socket, Rec, Busy
  <1>4. /\ sock' \in [Sockets -> Socket] /\ \A k \in Sockets \ {s} : sock'[k] = sock[k]
        /\ sock'[s] = Rec("lifecycle", x.at, x.groups, t, x.drop, x.first, st)
    BY <1>1, <1>2, <1>3, StepsType
  <1>5. /\ sock'[s].pc = "lifecycle" /\ sock'[s].at = x.at /\ sock'[s].todo = t
        /\ sock'[s].state = st
    BY <1>4 DEF Rec
  <1>6. Inv'
    <2>1. marks' \in SUBSET Marks
      BY <1>1 DEF TypeOK, Marks
    <2> QED
      BY <1>1, <1>4, <1>5, <2>1, InvStep DEF PresenceInv, TypeOK, Accepted, x
  <1>7. marks' \subseteq {"scope"} =>
           Orderly /\ \A k \in Sockets \ {s} : sock[k].pc \in {"closed", "open"}
    BY <1>1, Unmarked, Solo DEF PresenceInv
  <1>8. ASSUME marks' \subseteq {"scope"} PROVE Orderly'
    <2>1. Joining(s)' /\ Leaving(s)'
      BY <1>5 DEF Joining, Leaving
    <2>2. OnlineScope'
      BY <1>1, <1>7, <1>8 DEF Orderly, OnlineScope, Scope, x
    <2>3. ConnectionTrue'
      BY <1>1, <1>4, <1>5, <1>7, <1>8 DEF Orderly, ConnectionTrue, Present, x
    <2> QED
      BY <1>1, <1>4, <1>5, <1>7, <1>8, <2>1, <2>2, <2>3, OrderlyStep DEF x
  <1>9. ASSUME marks' = {} PROVE Truthful'
    <2>1. Truthful /\ \A k \in Sockets \ {s} : sock[k].pc \in {"closed", "open"}
      BY <1>1, <1>7, <1>9, Unmarked
    <2>2. t = member /\ \A g \in member : seen[g] # "offline"
      BY <1>1, <2>1, OpenSays DEF x, t
    <2>3. Scoped(s)' /\ Heard(s)'
      BY <1>1, <1>5, <2>2 DEF Scoped, Heard, Accepted, t
    <2>4. Outsiders' /\ NoneHeard'
      BY <1>1, <1>5, <2>1 DEF Truthful, Outsiders, NoneHeard, Unannounced
    <2> QED
      BY <1>1, <1>4, <2>1, <2>3, <2>4, OpenSays, TruthStep
  <1> QED
    BY <1>6, <1>8, <1>9 DEF PresenceInv

LEMMA SetConnectionPresence ==
    ASSUME PresenceInv, NEW s \in Sockets, SetConnection(s) PROVE PresenceInv'
  <1>1. /\ sock[s].pc = "lifecycle" /\ connection' \in {"online", "away"} /\ Become(s, "tell")
        /\ UNCHANGED <<member, marks, connections, userGroups, online, seen>> /\ TypeOK
    BY DEF SetConnection, manager, PresenceInv, Inv
  <1>2. /\ sock' \in [Sockets -> Socket]
        /\ Resumes(s, "tell", sock[s].at, sock[s].groups, sock[s].todo, sock[s].drop,
                 sock[s].first, sock[s].state)
    BY <1>1, PcSteps DEF Busy
  <1>3. /\ sock'[s].pc = "tell" /\ sock'[s].at = sock[s].at /\ sock'[s].todo = sock[s].todo
        /\ sock'[s].state = sock[s].state
        /\ \A k \in Sockets \ {s} : sock'[k] = sock[k]
    BY <1>2 DEF Resumes, Rec
  <1>4. Inv'
    BY <1>1, <1>2, <1>3, InvStep DEF PresenceInv, TypeOK, Accepted, States
  <1>5. Orderly => \A k \in Sockets \ {s} : sock[k].pc \in {"closed", "open"}
    BY <1>1, Solo DEF PresenceInv, Busy
  <1>6. ASSUME Orderly PROVE Joining(s)' /\ Leaving(s)' /\ OnlineScope' /\ ConnectionTrue'
    <2>1. Joining(s)' /\ Leaving(s)'
      BY <1>3 DEF Joining, Leaving
    <2>2. OnlineScope'
      BY <1>1, <1>5, <1>6 DEF Orderly, OnlineScope, Scope
    <2>3. ConnectionTrue'
      BY <1>1, <1>3 DEF ConnectionTrue, Present
    <2> QED
      BY <2>1, <2>2, <2>3
  <1>7. ASSUME Orderly, Truthful PROVE Truthful'
    <2>1. Scoped(s)' /\ Heard(s)'
      BY <1>1, <1>3, <1>7 DEF Truthful, Scoped, Heard, Accepted
    <2>2. Outsiders' /\ NoneHeard'
      BY <1>1, <1>3, <1>7 DEF Truthful, Outsiders, NoneHeard, Unannounced
    <2> QED
      BY <1>1, <1>3, <1>5, <1>7, <2>1, <2>2, OpenSays, TruthStep
  <1> QED
    BY <1>1, <1>3, <1>4, <1>6, <1>7, ServeStep DEF Busy

---------------------------------------------------------------------------
(* handle_disconnect, while others of the replica stay.                     *)
LEMMA OthersStay ==
    ASSUME PresenceInv, NEW s \in Sockets, Disconnect(s), Others(s) # {}
    PROVE  PresenceInv'
  <1> DEFINE r == sock[s].at
  <1>1. /\ r \in Replicas /\ sock[s].pc \in {"open", "lifecycle", "tell"} /\ TypeOK
        /\ connections' = [connections EXCEPT ![r] = connections[r] \ {s}]
        /\ sock' = [sock EXCEPT ![s] = Closed]
        /\ \/ /\ sock[s].pc = "open"
              /\ marks' = IF Serving # {} THEN marks \cup {"overlap"} ELSE marks
           \/ marks' = marks \cup {"fault"}
        /\ UNCHANGED <<member, userGroups, online, connection, seen>>
    BY DEF Disconnect, Start, Mark, redis, PresenceInv, Inv, TypeOK, Socket
  <1>2. /\ sock' \in [Sockets -> Socket] /\ sock'[s].pc = "closed"
        /\ \A k \in Sockets \ {s} : sock'[k] = sock[k]
    BY <1>1, ClosedSteps
  <1>3. PICK k \in Sockets : k \in connections[r] /\ k # s
    BY <1>1 DEF Others, TypeOK
  <1>4. /\ connections'[r] = connections[r] \ {s}
        /\ \A a \in Replicas : a # r => connections'[a] = connections[a]
    BY <1>1 DEF TypeOK
  <1>5. sock[k].at = r /\ sock[k].pc \in Accepted
    BY <1>1, <1>3 DEF PresenceInv, Inv, Registered
  <1>6. Inv'
    <2>1. TypeOK'
      BY <1>1, <1>2 DEF TypeOK, Marks
    <2>2. Registered'
      <3> SUFFICES ASSUME NEW a \in Replicas, NEW j \in Sockets
                   PROVE  j \in connections'[a] <=> sock'[j].at = a /\ sock'[j].pc \in Accepted
        BY DEF Registered
      <3>1. j \in connections[a] <=> sock[j].at = a /\ sock[j].pc \in Accepted
        BY DEF PresenceInv, Inv, Registered
      <3>2. CASE j = s
        BY <1>2, <1>4, <3>1, <3>2 DEF Accepted
      <3>3. CASE j # s
        BY <1>2, <1>4, <3>1, <3>3
      <3> QED
        BY <3>2, <3>3
    <2>3. Forgotten'
      BY <1>1, <1>3, <1>4 DEF PresenceInv, Inv, Forgotten
    <2> QED
      BY <2>1, <2>2, <2>3 DEF Inv
  <1> HIDE DEF r
  <1>7. /\ marks \subseteq marks'
        /\ (marks' \subseteq {"scope"} => sock[s].pc = "open" /\ Serving = {})
    BY <1>1
  <1>8. marks' \subseteq {"scope"} =>
           /\ Orderly /\ sock[k].pc = "open"
           /\ \A j \in Sockets \ {s} : sock[j].pc \in {"closed", "open"}
    BY <1>3, <1>5, <1>7, Unmarked, Solo DEF PresenceInv, Accepted
  <1>9. ASSUME marks' \subseteq {"scope"} PROVE Orderly'
    <2>1. Joining(s)' /\ Leaving(s)'
      BY <1>2 DEF Joining, Leaving
    <2>2. OnlineScope'
      BY <1>1, <1>7, <1>8, <1>9 DEF Orderly, OnlineScope, Scope
    <2>3. ConnectionTrue'
      <3>1. connection # "offline"
        BY <1>8, <1>9 DEF Orderly, ConnectionTrue, Present
      <3> QED
        BY <1>1, <1>2, <1>3, <1>8, <1>9, <3>1 DEF ConnectionTrue, Present
    <2> QED
      BY <1>2, <1>7, <1>8, <1>9, <2>1, <2>2, <2>3, OrderlyStep
  <1>10. ASSUME marks' = {} PROVE Truthful'
    <2>1. Truthful
      BY <1>7, <1>10, Unmarked
    <2>2. Scoped(s)' /\ Heard(s)'
      BY <1>2 DEF Scoped, Heard, Accepted
    <2>3. Outsiders' /\ NoneHeard'
      BY <1>1, <1>2, <1>3, <1>8, <1>10, <2>1 DEF Truthful, Outsiders, NoneHeard, Unannounced
    <2> QED
      BY <1>1, <1>2, <1>8, <1>10, <2>1, <2>2, <2>3, OpenSays, TruthStep
  <1> QED
    BY <1>6, <1>9, <1>10 DEF PresenceInv

(* The last socket of the replica leaves: the manager forgets the user.     *)
LEMMA LastLeaves ==
    ASSUME PresenceInv, NEW s \in Sockets, Disconnect(s), Others(s) = {}
    PROVE  PresenceInv'
  <1> DEFINE r == sock[s].at
             g == userGroups[r]
  <1>1. /\ r \in Replicas /\ sock[s].pc \in {"open", "lifecycle", "tell"} /\ TypeOK
        /\ connections' = [connections EXCEPT ![r] = connections[r] \ {s}]
        /\ userGroups' = [userGroups EXCEPT ![r] = {}]
        /\ sock' = [sock EXCEPT ![s] = [Coroutine("leave", r) EXCEPT !.groups = g, !.drop = g]]
        /\ connections[r] \ {s} = {} /\ g \in SUBSET Groups
        /\ \/ /\ sock[s].pc = "open"
              /\ marks' = IF Serving # {} THEN marks \cup {"overlap"} ELSE marks
           \/ marks' = marks \cup {"fault"}
        /\ UNCHANGED <<member, online, connection, seen>>
    BY DEF Disconnect, Start, Mark, redis, PresenceInv, Inv, TypeOK, Socket, Others, ScopeLeft
  <1> HIDE DEF g, r
  <1>2. [Coroutine("leave", r) EXCEPT !.groups = g, !.drop = g] =
           Rec("leave", r, g, {}, g, FALSE, "offline")
    <2> DEFINE y == Coroutine("leave", r)
               z == [y EXCEPT !.groups = g]
    <2>1. y \in Socket /\ y = Rec("leave", r, {}, {}, {}, FALSE, "offline")
      BY <1>1, CoroutineRec DEF Coroutine, Socket, Busy, States
    <2> HIDE DEF y
    <2>2. z = Rec("leave", r, g, {}, {}, FALSE, "offline")
      BY <2>1, RecGroups DEF Rec
    <2>3. z \in Socket
      BY <1>1, <2>2 DEF Socket, Rec, Busy, States
    <2> HIDE DEF z
    <2>4. [z EXCEPT !.drop = g] = Rec("leave", r, g, {}, g, FALSE, "offline")
      BY <2>2, <2>3, RecDrop DEF Rec
    <2> QED
      BY <2>4 DEF y, z
  <1>3. Rec("leave", r, g, {}, g, FALSE, "offline") \in Socket
    BY <1>1 DEF Socket, Rec, Busy, States
  <1>4. /\ sock' \in [Sockets -> Socket] /\ \A k \in Sockets \ {s} : sock'[k] = sock[k]
        /\ sock'[s] = Rec("leave", r, g, {}, g, FALSE, "offline")
    BY <1>1, <1>2, <1>3, StepsType
  <1>5. /\ sock'[s].pc = "leave" /\ sock'[s].at = r /\ sock'[s].groups = g /\ sock'[s].drop = g
    BY <1>4 DEF Rec
  <1>6. /\ connections'[r] = {} /\ userGroups'[r] = {}
        /\ \A a \in Replicas : a # r => /\ connections'[a] = connections[a]
                                        /\ userGroups'[a] = userGroups[a]
    BY <1>1 DEF TypeOK
  <1>7. Inv'
    <2>1. TypeOK'
      BY <1>1, <1>4 DEF TypeOK, Marks
    <2>2. Registered'
      <3> SUFFICES ASSUME NEW a \in Replicas, NEW j \in Sockets
                   PROVE  j \in connections'[a] <=> sock'[j].at = a /\ sock'[j].pc \in Accepted
        BY DEF Registered
      <3>1. j \in connections[a] <=> sock[j].at = a /\ sock[j].pc \in Accepted
        BY DEF PresenceInv, Inv, Registered
      <3>2. CASE j = s
        <4>1. sock'[j].pc \notin Accepted
          BY <1>5, <3>2 DEF Accepted
        <4>2. j \notin connections'[a]
          BY <1>6, <3>1, <3>2 DEF r
        <4> QED
          BY <4>1, <4>2
      <3>3. CASE j # s
        BY <1>1, <1>4, <1>6, <3>1, <3>3
      <3> QED
        BY <3>2, <3>3
    <2>3. Forgotten'
      BY <1>6 DEF PresenceInv, Inv, Forgotten
    <2> QED
      BY <2>1, <2>2, <2>3 DEF Inv
  <1>8. /\ marks \subseteq marks'
        /\ (marks' \subseteq {"scope"} => sock[s].pc = "open" /\ Serving = {})
    BY <1>1
  <1>9. marks' \subseteq {"scope"} =>
           Orderly /\ \A j \in Sockets \ {s} : sock[j].pc = "closed"
    <2> SUFFICES ASSUME marks' \subseteq {"scope"}, NEW j \in Sockets \ {s}
                 PROVE  Orderly /\ sock[j].pc = "closed"
      BY <1>8, Unmarked
    <2>1. Orderly /\ sock[j].pc \in {"closed", "open"}
      BY <1>8, Unmarked, Solo DEF PresenceInv
    <2>2. sock[j].pc # "open"
      <3> SUFFICES ASSUME sock[j].pc = "open" PROVE FALSE
        OBVIOUS
      <3>1. sock[j].at = r
        BY <1>1, <2>1 DEF Orderly, OnePlace, r
      <3>2. j \in connections[r]
        BY <1>1, <3>1 DEF PresenceInv, Inv, Registered, Accepted
      <3> QED
        BY <1>1, <3>2
    <2> QED
      BY <2>1, <2>2
  <1>10. ASSUME marks' \subseteq {"scope"} PROVE Orderly'
    <2>1. online = g
      <3>1. Scope = g
        BY <1>1, <1>9, <1>10, ScopeAt DEF PresenceInv, Orderly, g, r
      <3> QED
        BY <1>1, <1>8, <1>9, <1>10, <3>1 DEF Orderly, OnlineScope
    <2>2. Joining(s)' /\ Leaving(s)'
      BY <1>1, <1>5, <1>6, <2>1 DEF Joining, Leaving
    <2>3. OnlineScope'
      BY <1>5 DEF OnlineScope
    <2>4. ConnectionTrue'
      BY <1>1, <1>5, <1>8, <1>9, <1>10 DEF Orderly, ConnectionTrue, Present
    <2> QED
      BY <1>1, <1>4, <1>5, <1>9, <1>10, <2>2, <2>3, <2>4, OrderlyStep DEF r
  <1>11. ASSUME marks' = {} PROVE Truthful'
    <2>1. Truthful /\ sock[s].pc = "open"
      BY <1>8, <1>11, Unmarked
    <2>2. g = member
      BY <2>1, OpenSays DEF g, r
    <2>3. Scoped(s)' /\ Heard(s)'
      BY <1>1, <1>5, <2>2 DEF Scoped, Heard, Accepted
    <2>4. Outsiders' /\ NoneHeard'
      BY <1>1, <1>5, <2>1 DEF Truthful, Outsiders, NoneHeard, Unannounced
    <2> QED
      BY <1>1, <1>4, <1>9, <1>11, <2>1, <2>3, <2>4, TruthStep
  <1> QED
    BY <1>7, <1>10, <1>11 DEF PresenceInv

(* The rest of manager.disconnect: the groups are left one after the other.  *)
LEMMA LeaveGroupPresence ==
    ASSUME PresenceInv, NEW s \in Sockets, NEW g \in Groups, LeaveGroup(s, g) PROVE PresenceInv'
  <1>1. /\ sock[s].pc = "leave" /\ g \in sock[s].drop /\ online' = online \ {g}
        /\ sock' = [sock EXCEPT ![s].drop = @ \ {g}]
        /\ UNCHANGED <<member, marks, connections, userGroups, connection, seen>> /\ TypeOK
    BY DEF LeaveGroup, manager, PresenceInv, Inv
  <1>2. /\ sock' \in [Sockets -> Socket]
        /\ Resumes(s, sock[s].pc, sock[s].at, sock[s].groups, sock[s].todo, sock[s].drop \ {g},
                 sock[s].first, sock[s].state)
    BY <1>1, DropSteps
  <1>3. /\ sock'[s].pc = "leave" /\ sock'[s].at = sock[s].at /\ sock'[s].groups = sock[s].groups
        /\ sock'[s].drop = sock[s].drop \ {g}
        /\ \A k \in Sockets \ {s} : sock'[k] = sock[k]
    BY <1>1, <1>2 DEF Resumes, Rec
  <1>4. Inv'
    BY <1>1, <1>2, <1>3, InvStep DEF PresenceInv, TypeOK, Accepted
  <1>5. Orderly => \A k \in Sockets \ {s} : sock[k].pc \in {"closed", "open"}
    BY <1>1, Solo DEF PresenceInv, Busy
  <1>6. ASSUME Orderly PROVE Joining(s)' /\ Leaving(s)' /\ OnlineScope' /\ ConnectionTrue'
    <2>1. Joining(s)' /\ Leaving(s)'
      BY <1>1, <1>3, <1>6 DEF Orderly, Joining, Leaving
    <2>2. OnlineScope'
      BY <1>3 DEF OnlineScope
    <2>3. ConnectionTrue'
      BY <1>1, <1>3, <1>6 DEF Orderly, ConnectionTrue, Present
    <2> QED
      BY <2>1, <2>2, <2>3
  <1>7. ASSUME Orderly, Truthful PROVE Truthful'
    <2>1. Scoped(s)' /\ Heard(s)'
      BY <1>1, <1>3, <1>7 DEF Truthful, Scoped, Heard, Accepted
    <2>2. Outsiders' /\ NoneHeard'
      BY <1>1, <1>3, <1>7 DEF Truthful, Outsiders, NoneHeard, Unannounced
    <2> QED
      BY <1>1, <1>3, <1>5, <1>7, <2>1, <2>2, OpenSays, TruthStep
  <1> QED
    BY <1>1, <1>3, <1>4, <1>6, <1>7, ServeStep DEF Busy

(* The handler that runs alone, on a replica without a socket, is all there  *)
(* is of the user.                                                          *)
LEMMA AllElseClosed ==
    ASSUME Inv, Orderly, NEW s \in Sockets, sock[s].pc \in {"leave", "farewell"}
    PROVE  (\A k \in Sockets \ {s} : sock[k].pc = "closed") /\ Scope = {}
  <1>1. connections[sock[s].at] = {} /\ sock[s].at \in Replicas
    BY DEF Orderly, Leaving, Inv, TypeOK, Socket
  <1>2. ASSUME NEW k \in Sockets \ {s} PROVE sock[k].pc = "closed"
    <2>1. sock[k].pc \in {"closed", "open"}
      BY Solo DEF Busy
    <2>2. sock[k].pc # "open"
      <3> SUFFICES ASSUME sock[k].pc = "open" PROVE FALSE
        OBVIOUS
      <3>1. sock[k].at = sock[s].at
        BY DEF Orderly, OnePlace
      <3>2. k \in connections[sock[s].at]
        BY <1>1, <3>1 DEF Inv, Registered, Accepted
      <3> QED
        BY <1>1, <3>2
    <2> QED
      BY <2>1, <2>2
  <1>3. Scope = userGroups[sock[s].at]
    BY ScopeAt DEF Orderly
  <1> QED
    BY <1>1, <1>2, <1>3 DEF Inv, Forgotten

LEMMA ClearConnectionPresence ==
    ASSUME PresenceInv, NEW s \in Sockets, ClearConnection(s) PROVE PresenceInv'
  <1> DEFINE x == sock[s]
  <1>1. /\ x \in Socket /\ x.pc = "leave" /\ x.drop = {} /\ connection' = "offline"
        /\ UNCHANGED <<member, marks, connections, userGroups, online, seen>> /\ TypeOK
    BY DEF ClearConnection, manager, PresenceInv, Inv, TypeOK
  <1>2. PICK p : p = "farewell"
    OBVIOUS
  <1>3. sock' = [sock EXCEPT ![s] = [x EXCEPT !.pc = p, !.todo = x.groups]]
    BY <1>2 DEF ClearConnection
  <1> HIDE DEF x
  <1>4. [x EXCEPT !.pc = p, !.todo = x.groups] =
           Rec(p, x.at, x.groups, x.groups, x.drop, x.first, x.state)
    BY <1>1, RecPcTodo
  <1>5. Rec(p, x.at, x.groups, x.groups, x.drop, x.first, x.state) \in Socket
    BY <1>1, <1>2 DEF Socket, Rec, Busy
  <1>6. /\ sock' \in [Sockets -> Socket] /\ \A k \in Sockets \ {s} : sock'[k] = sock[k]
        /\ sock'[s] = Rec(p, x.at, x.groups, x.groups, x.drop, x.first, x.state)
    BY <1>1, <1>3, <1>4, <1>5, StepsType
  <1>7. /\ sock'[s].pc = "farewell" /\ sock'[s].at = x.at
        /\ sock'[s].groups = x.groups /\ sock'[s].todo = x.groups
    BY <1>2, <1>6 DEF Rec
  <1>8. Inv'
    BY <1>1, <1>6, <1>7, InvStep DEF PresenceInv, TypeOK, Accepted, States, x
  <1>9. Orderly => (\A k \in Sockets \ {s} : sock[k].pc = "closed") /\ Scope = {}
    BY <1>1, AllElseClosed DEF PresenceInv, x
  <1>10. ASSUME Orderly PROVE Joining(s)' /\ Leaving(s)' /\ OnlineScope' /\ ConnectionTrue'
    <2>1. Joining(s)' /\ Leaving(s)'
      BY <1>1, <1>7, <1>10 DEF Orderly, Joining, Leaving, x
    <2>2. OnlineScope'
      BY <1>1, <1>9, <1>10 DEF Orderly, OnlineScope, Scope, Leaving, x
    <2>3. ConnectionTrue'
      BY <1>1, <1>6, <1>7, <1>9, <1>10 DEF ConnectionTrue, Present
    <2> QED
      BY <2>1, <2>2, <2>3
  <1>11. ASSUME Orderly, Truthful PROVE Truthful'
    <2>1. Scoped(s)' /\ Heard(s)'
      BY <1>1, <1>7, <1>11 DEF Truthful, Scoped, Heard, Accepted, x
    <2>2. Outsiders' /\ NoneHeard'
      BY <1>1, <1>7, <1>11 DEF Truthful, Outsiders, NoneHeard, Unannounced
    <2> QED
      BY <1>1, <1>6, <1>9, <1>11, <2>1, <2>2, TruthStep
  <1> QED
    BY <1>1, <1>6, <1>7, <1>8, <1>10, <1>11, ServeStep DEF Busy, x

LEMMA GonePresence ==
    ASSUME PresenceInv, NEW s \in Sockets, Gone(s) PROVE PresenceInv'
  <1>1. /\ sock[s].pc = "farewell" /\ sock[s].todo = {} /\ sock' = [sock EXCEPT ![s] = Closed]
        /\ UNCHANGED <<member, marks, connections, userGroups, online, connection, seen>> /\ TypeOK
    BY DEF Gone, manager, redis, PresenceInv, Inv
  <1>2. /\ sock' \in [Sockets -> Socket] /\ sock'[s].pc = "closed"
        /\ \A k \in Sockets \ {s} : sock'[k] = sock[k]
    BY <1>1, ClosedSteps
  <1>3. Inv'
    BY <1>1, <1>2, InvStep DEF PresenceInv, TypeOK, Accepted
  <1>4. Orderly => (\A k \in Sockets \ {s} : sock[k].pc = "closed") /\ Scope = {}
    BY <1>1, AllElseClosed DEF PresenceInv
  <1>5. ASSUME Orderly PROVE Joining(s)' /\ Leaving(s)' /\ OnlineScope' /\ ConnectionTrue'
    <2>1. Joining(s)' /\ Leaving(s)'
      BY <1>2 DEF Joining, Leaving
    <2>2. OnlineScope'
      BY <1>1, <1>4, <1>5 DEF Orderly, OnlineScope, Scope
    <2>3. ConnectionTrue'
      BY <1>1, <1>2, <1>4, <1>5 DEF Orderly, ConnectionTrue, Present
    <2> QED
      BY <2>1, <2>2, <2>3
  <1>6. ASSUME Orderly, Truthful PROVE Truthful'
    <2>1. Scoped(s)' /\ Heard(s)'
      BY <1>2 DEF Scoped, Heard, Accepted
    <2>2. Outsiders' /\ NoneHeard'
      BY <1>1, <1>6 DEF Truthful, Outsiders, NoneHeard, Heard
    <2> QED
      BY <1>1, <1>2, <1>4, <1>6, <2>1, <2>2, TruthStep
  <1> QED
    BY <1>1, <1>2, <1>3, <1>5, <1>6, ServeStep DEF Busy

---------------------------------------------------------------------------
(* A fault leaves only what always holds. *)
LEMMA FailConnectPresence ==
    ASSUME PresenceInv, NEW s \in Sockets, FailConnect(s) PROVE PresenceInv'
  <1>1. /\ sock[s].pc \in {"mark", "accept", "join", "announce"} /\ sock[s].at \in Replicas
        /\ marks' = marks \cup {"fault"}
        /\ sock' = [sock EXCEPT ![s] = IF s \in connections[sock[s].at]
                                       THEN Coroutine("dead", sock[s].at) ELSE Closed]
        /\ UNCHANGED <<member, connections, userGroups, online, connection, seen>> /\ TypeOK
    BY DEF FailConnect, Mark, manager, redis, PresenceInv, Inv, TypeOK, Socket
  <1>2. s \in connections[sock[s].at] <=> sock[s].pc \in Accepted
    BY <1>1 DEF PresenceInv, Inv, Registered
  <1>3. marks' \in SUBSET Marks
    BY <1>1 DEF TypeOK, Marks
  <1>4. Inv'
    <2>1. CASE s \in connections[sock[s].at]
      <3>1. PICK a \in Replicas : a = sock[s].at
        BY <1>1
      <3>2. sock' = [sock EXCEPT ![s] = Coroutine("dead", a)]
        BY <1>1, <2>1, <3>1
      <3>3. sock' \in [Sockets -> Socket] /\ Resumes(s, "dead", a, {}, {}, {}, FALSE, "offline")
        BY <1>1, <3>2, FreshSteps DEF Resting
      <3>4. /\ sock'[s].pc = "dead" /\ sock'[s].at = sock[s].at
            /\ \A k \in Sockets \ {s} : sock'[k] = sock[k]
        BY <3>1, <3>3 DEF Resumes, Rec
      <3>5. sock'[s].pc \in Accepted <=> sock[s].pc \in Accepted
        BY <1>2, <2>1, <3>4 DEF Accepted
      <3> QED
        BY <1>1, <1>3, <3>3, <3>4, <3>5, InvStep DEF PresenceInv, TypeOK
    <2>2. CASE s \notin connections[sock[s].at]
      <3>1. sock' = [sock EXCEPT ![s] = Closed]
        BY <1>1, <2>2
      <3>2. /\ sock' \in [Sockets -> Socket] /\ sock'[s].pc = "closed"
            /\ \A k \in Sockets \ {s} : sock'[k] = sock[k]
        BY <1>1, <3>1, ClosedSteps
      <3>3. sock'[s].pc \notin Accepted /\ sock[s].pc \notin Accepted
        BY <1>2, <2>2, <3>2 DEF Accepted
      <3> QED
        BY <1>1, <1>3, <3>2, <3>3, InvStep DEF PresenceInv, TypeOK
    <2> QED
      BY <2>1, <2>2
  <1> QED
    BY <1>1, <1>4 DEF PresenceInv

LEMMA FailDisconnectPresence ==
    ASSUME PresenceInv, NEW s \in Sockets, FailDisconnect(s) PROVE PresenceInv'
  <1>1. /\ sock[s].pc \in {"leave", "farewell"} /\ marks' = marks \cup {"fault"}
        /\ sock' = [sock EXCEPT ![s] = Closed]
        /\ UNCHANGED <<member, connections, userGroups, online, connection, seen>> /\ TypeOK
    BY DEF FailDisconnect, Mark, manager, redis, PresenceInv, Inv
  <1>2. /\ sock' \in [Sockets -> Socket] /\ sock'[s].pc = "closed"
        /\ \A k \in Sockets \ {s} : sock'[k] = sock[k]
    BY <1>1, ClosedSteps
  <1>3. marks' \in SUBSET Marks
    BY <1>1 DEF TypeOK, Marks
  <1>4. Inv'
    BY <1>1, <1>2, <1>3, InvStep DEF PresenceInv, TypeOK, Accepted
  <1> QED
    BY <1>1, <1>4 DEF PresenceInv

LEMMA CrashPresence ==
    ASSUME PresenceInv, NEW r \in Replicas, Crash(r) PROVE PresenceInv'
  <1>1. /\ marks' = marks \cup {"fault"}
        /\ connections' = [connections EXCEPT ![r] = {}]
        /\ userGroups' = [userGroups EXCEPT ![r] = {}]
        /\ sock' = [s \in Sockets |-> IF sock[s].at = r THEN Closed ELSE sock[s]]
        /\ UNCHANGED <<member, online, connection, seen>> /\ TypeOK
    BY DEF Crash, Mark, redis, PresenceInv, Inv
  <1>2. Closed \in Socket /\ Closed.pc = "closed"
    <2>1. PICK a \in Replicas : a = CHOOSE x \in Replicas : TRUE
      BY PresenceAssumption
    <2>2. Closed = Rec("closed", a, {}, {}, {}, FALSE, "offline")
      BY <2>1, CoroutineRec DEF Closed
    <2> QED
      BY <2>2 DEF Rec, Socket, Resting, States
  <1> HIDE DEF Closed
  <1>3. TypeOK'
    BY <1>1, <1>2 DEF TypeOK, Marks
  <1>4. /\ connections'[r] = {} /\ userGroups'[r] = {}
        /\ \A a \in Replicas : a # r => /\ connections'[a] = connections[a]
                                        /\ userGroups'[a] = userGroups[a]
    BY <1>1 DEF TypeOK
  <1>5. Registered'
    <2> SUFFICES ASSUME NEW a \in Replicas, NEW j \in Sockets
                 PROVE  j \in connections'[a] <=> sock'[j].at = a /\ sock'[j].pc \in Accepted
      BY DEF Registered
    <2>1. j \in connections[a] <=> sock[j].at = a /\ sock[j].pc \in Accepted
      BY DEF PresenceInv, Inv, Registered
    <2>2. CASE sock[j].at = r
      <3>1. sock'[j].pc = "closed"
        BY <1>1, <1>2, <2>2
      <3> QED
        BY <1>4, <2>1, <2>2, <3>1 DEF Accepted
    <2>3. CASE sock[j].at # r
      <3>1. sock'[j] = sock[j]
        BY <1>1, <2>3
      <3> QED
        BY <1>4, <2>1, <2>3, <3>1
    <2> QED
      BY <2>2, <2>3
  <1>6. Forgotten'
    BY <1>4 DEF PresenceInv, Inv, Forgotten
  <1> QED
    BY <1>1, <1>3, <1>5, <1>6 DEF PresenceInv, Inv

---------------------------------------------------------------------------
LEMMA StepPresence == PresenceInv /\ [Next]_vars => PresenceInv'
  <1> SUFFICES ASSUME PresenceInv, [Next]_vars PROVE PresenceInv'
    OBVIOUS
  <1>1. CASE \E g \in Groups : ChangeMembership(g)
    BY <1>1, ChangeMembershipPresence
  <1>2. CASE \E s \in Sockets, r \in Replicas : Authenticate(s, r)
    BY <1>2, AuthenticatePresence
  <1>3. CASE \E s \in Sockets, word \in {"active", "away"} : Lifecycle(s, word)
    BY <1>3, LifecyclePresence
  <1>4. ASSUME NEW s \in Sockets, Serve(s) PROVE PresenceInv'
    <2>1. CASE SetOnline(s) \/ Accept(s) \/ SendSnapshot(s) \/ ClearConnection(s) \/ Gone(s)
      BY <2>1, SetOnlinePresence, AcceptPresence, SendSnapshotPresence,
         ClearConnectionPresence, GonePresence
    <2>2. CASE Announced(s) \/ Told(s) \/ SetConnection(s)
      BY <2>2, RestPresence, SetConnectionPresence
    <2>3. ASSUME NEW g \in Groups, EnterGroup(s, g) \/ DropGroup(s, g) \/ LeaveGroup(s, g)
          PROVE  PresenceInv'
      BY <2>3, EnterGroupPresence, DropGroupPresence, LeaveGroupPresence
    <2>4. ASSUME NEW g \in Groups, Announce(s, g) \/ Tell(s, g) \/ SayFarewell(s, g)
          PROVE  PresenceInv'
      BY <2>4, AnnouncePresence
    <2> QED
      BY <1>4, <2>1, <2>2, <2>3, <2>4 DEF Serve
  <1>5. ASSUME NEW s \in Sockets, Disconnect(s) PROVE PresenceInv'
    BY <1>5, OthersStay, LastLeaves
  <1>6. ASSUME NEW s \in Sockets, FailConnect(s) \/ FailDisconnect(s) PROVE PresenceInv'
    BY <1>6, FailConnectPresence, FailDisconnectPresence
  <1>7. CASE \E r \in Replicas : Crash(r)
    BY <1>7, CrashPresence
  <1>8. CASE UNCHANGED vars
    <2>1. Inv'
      BY <1>8 DEF vars, PresenceInv, Inv, TypeOK, Registered, Forgotten
    <2>2. Orderly => Orderly'
      BY <1>8 DEF vars, Orderly, Alone, OnePlace, NoneDead, Joining, Leaving, OnlineScope, Scope,
         ConnectionTrue
    <2>3. Truthful => Truthful'
      BY <1>8 DEF vars, Truthful, Outsiders, NoneHeard, Unannounced, Scoped, Heard
    <2> QED
      BY <1>8, <2>1, <2>2, <2>3 DEF vars, PresenceInv
  <1> QED
    BY <1>1, <1>2, <1>3, <1>4, <1>5, <1>6, <1>7, <1>8 DEF Next

LEMMA PresenceInvariant == Spec => []PresenceInv
  BY InitPresence, StepPresence, PTL DEF Spec

(* Every socket, scope, set and key of the model has its type in every       *)
(* reachable state, faults and overlaps included.                           *)
THEOREM PresenceTyped == Spec => []TypeOK
  <1>1. PresenceInv => TypeOK
    BY DEF PresenceInv, Inv
  <1> QED
    BY <1>1, PresenceInvariant, PTL

(* When no handler runs and the user's handlers ran one at a time on one     *)
(* replica, Redis holds the scope authenticated last while a socket is open, *)
(* and nothing when none is (handle_connect, handle_disconnect).            *)
THEOREM RedisExact == Spec => []PresenceExact
  <1>1. PresenceInv => PresenceExact
    <2> SUFFICES ASSUME PresenceInv, Quiet, marks \subseteq {"scope"}
                 PROVE  IF Open = {}
                        THEN online = {} /\ connection = "offline"
                        ELSE online = Scope /\ connection # "offline"
      BY DEF PresenceExact, Scope
    <2>1. Inv /\ Orderly
      BY DEF PresenceInv
    <2>2. \A s \in Sockets : sock[s].pc \in {"closed", "open"}
      BY <2>1 DEF Quiet, Serving, Inv, TypeOK, Socket, Resting, Orderly, NoneDead
    <2>3. online = Scope
      BY <2>1, <2>2 DEF Orderly, OnlineScope
    <2>4. connection # "offline" <=> Open # {}
      BY <2>1, <2>2 DEF Orderly, ConnectionTrue, Present, Open
    <2>5. ASSUME Open = {} PROVE Scope = {}
      <3>1. \A s \in Sockets : sock[s].pc \notin Accepted
        BY <2>2, <2>5 DEF Open, Accepted
      <3>2. ASSUME NEW r \in Replicas PROVE connections[r] = {}
        <4>1. connections[r] \subseteq Sockets
          BY <2>1 DEF Inv, TypeOK
        <4>2. \A s \in Sockets : s \notin connections[r]
          BY <2>1, <3>1 DEF Inv, Registered
        <4> QED
          BY <4>1, <4>2
      <3>3. \A r \in Replicas : userGroups[r] = {}
        BY <2>1, <3>2 DEF Inv, Forgotten
      <3> QED
        BY <3>3 DEF Scope
    <2> QED
      BY <2>3, <2>4, <2>5
  <1> QED
    BY <1>1, PresenceInvariant, PTL

(* The last word the other members of a group heard of the user is that he   *)
(* is there if and only if a socket of his is open: the announcement goes    *)
(* with the first socket and the farewell with the last, to every group     *)
(* (publish_user_online, publish_user_offline).                             *)
THEOREM ToldExact == Spec => []LastToldExact
  <1>1. PresenceInv => LastToldExact
    <2> SUFFICES ASSUME PresenceInv, Quiet, marks = {}, NEW g \in member
                 PROVE  seen[g] = "offline" <=> Open = {}
      BY DEF LastToldExact
    <2>1. Inv /\ Orderly /\ Truthful /\ g \in Groups
      BY DEF PresenceInv, Inv, TypeOK
    <2>2. \A s \in Sockets : sock[s].pc \in {"closed", "open"}
      BY <2>1 DEF Quiet, Serving, Inv, TypeOK, Socket, Resting, Orderly, NoneDead
    <2>3. Open = {} => seen[g] = "offline"
      BY <2>1, <2>2 DEF Truthful, NoneHeard, Unannounced, Open
    <2>4. Open # {} => seen[g] # "offline"
      BY <2>1 DEF Truthful, Heard, Open
    <2> QED
      BY <2>3, <2>4
  <1> QED
    BY <1>1, PresenceInvariant, PTL

---------------------------------------------------------------------------
(* An event that is still to be sent is news to its group.                  *)
Novel(s) ==
    /\ sock[s].pc = "announce" => \A g \in sock[s].todo : seen[g] = "offline"
    /\ sock[s].pc = "leave" => \A g \in sock[s].groups : seen[g] # "offline"
    /\ sock[s].pc = "farewell" => \A g \in sock[s].todo : seen[g] # "offline"
Telling == {"announce", "leave", "farewell"}
NewsInv == PresenceInv /\ (marks = {} => \A s \in Sockets : Novel(s))

(* A step that sends nothing: only what its own coroutine will send counts.  *)
LEMMA NewsKept ==
    ASSUME NEW s \in Sockets, \A k \in Sockets : Novel(k), seen' = seen,
           \A k \in Sockets \ {s} : sock'[k] = sock[k], Novel(s)'
    PROVE  \A k \in Sockets : Novel(k)'
  BY DEF Novel

(* The first socket announces itself to groups that have heard nothing.     *)
LEMMA SendSnapshotNews ==
    ASSUME PresenceInv, Orderly, Truthful, NEW s \in Sockets, SendSnapshot(s), \A k \in Sockets : Novel(k)
    PROVE  \A k \in Sockets : Novel(k)'
  <1> DEFINE x == sock[s]
  <1>1. /\ x \in Socket /\ x.pc = "join" /\ seen' = seen /\ TypeOK
    BY DEF SendSnapshot, redis, PresenceInv, Inv, TypeOK
  <1>0. x \in Socket
    BY <1>1
  <1>2. CASE x.first
    <2>1. PICK p : p = "announce"
      OBVIOUS
    <2>2. sock' = [sock EXCEPT ![s] = [x EXCEPT !.pc = p, !.todo = x.groups]]
      BY <1>2, <2>1 DEF SendSnapshot
    <2> HIDE DEF x
    <2>3. [x EXCEPT !.pc = p, !.todo = x.groups] =
             Rec(p, x.at, x.groups, x.groups, x.drop, x.first, x.state)
      BY <1>0, RecPcTodo, Zenon
    <2>4. Rec(p, x.at, x.groups, x.groups, x.drop, x.first, x.state) \in Socket
      BY <1>1, <2>1 DEF Socket, Rec, Busy
    <2>5. /\ \A k \in Sockets \ {s} : sock'[k] = sock[k]
          /\ sock'[s] = Rec(p, x.at, x.groups, x.groups, x.drop, x.first, x.state)
      BY <1>1, <2>2, <2>3, <2>4, StepsType
    <2>6. sock'[s].pc = "announce" /\ sock'[s].todo = x.groups /\ x.groups \subseteq Groups
      BY <1>1, <2>1, <2>5 DEF Rec, Socket
    <2>7. \A k \in Sockets \ {s} : sock[k].pc = "closed"
      <3> SUFFICES ASSUME NEW k \in Sockets \ {s}, sock[k].pc # "closed" PROVE FALSE
        OBVIOUS
      <3>1. sock[k].pc = "open" /\ sock[k].at = x.at
        BY <1>1, Solo DEF PresenceInv, Busy, x, Orderly, OnePlace
      <3>2. k \in connections[x.at] /\ x.at \in Replicas
        BY <1>1, <3>1 DEF PresenceInv, Inv, Registered, Accepted, Socket
      <3>3. connections[x.at] = {s}
        BY <1>1, <1>2 DEF Truthful, Scoped, x
      <3> QED
        BY <3>2, <3>3
    <2>8. \A g \in Groups : seen[g] = "offline"
      BY <1>1, <1>2, <2>7 DEF Truthful, NoneHeard, Unannounced, x
    <2>9. Novel(s)'
      BY <1>1, <2>6, <2>8 DEF Novel
    <2> QED
      BY <1>1, <2>5, <2>9, NewsKept
  <1>3. CASE ~x.first
    <2>1. sock' = [sock EXCEPT ![s] = Coroutine("open", x.at)] /\ x.at \in Replicas
      BY <1>1, <1>3 DEF SendSnapshot, Rest, Socket
    <2>2. Resumes(s, "open", x.at, {}, {}, {}, FALSE, "offline")
      BY <1>1, <2>1, FreshSteps DEF Resting
    <2>3. sock'[s].pc = "open" /\ \A k \in Sockets \ {s} : sock'[k] = sock[k]
      BY <2>2 DEF Resumes, Rec
    <2> QED
      BY <1>1, <2>3, NewsKept DEF Novel
  <1> QED
    BY <1>2, <1>3

(* The event that is sent is struck off; nobody else has any to send.       *)
LEMMA PublishNews ==
    ASSUME PresenceInv, Orderly, NEW s \in Sockets, NEW g \in Groups,
           Announce(s, g) \/ Tell(s, g) \/ SayFarewell(s, g), \A k \in Sockets : Novel(k)
    PROVE  \A k \in Sockets : Novel(k)'
  <1>1. PICK state \in States :
           Publish(s, g, state) /\ sock[s].pc \in {"announce", "tell", "farewell"}
    BY DEF Announce, Tell, SayFarewell, States, PresenceInv, Inv, TypeOK, Socket
  <1>2. /\ \A h \in Groups \ {g} : seen'[h] = seen[h]
        /\ sock'[s].pc = sock[s].pc /\ sock'[s].todo = sock[s].todo \ {g}
        /\ sock[s].todo \subseteq Groups
        /\ \A k \in Sockets \ {s} : sock'[k] = sock[k]
    BY <1>1, PublishFacts
  <1>3. \A k \in Sockets \ {s} : sock[k].pc \in {"closed", "open"}
    BY <1>1, Solo DEF PresenceInv, Busy
  <1>4. Novel(s)'
    BY <1>1, <1>2 DEF Novel
  <1> QED
    BY <1>2, <1>3, <1>4 DEF Novel

LEMMA LeaveRec ==
    ASSUME NEW r \in Replicas, NEW g \in SUBSET Groups
    PROVE  [Coroutine("leave", r) EXCEPT !.groups = g, !.drop = g] =
           Rec("leave", r, g, {}, g, FALSE, "offline")
  <1> DEFINE y == Coroutine("leave", r)
             z == [y EXCEPT !.groups = g]
  <1>1. y \in Socket /\ y = Rec("leave", r, {}, {}, {}, FALSE, "offline")
    BY CoroutineRec DEF Coroutine, Socket, Busy, States
  <1> HIDE DEF y
  <1>2. z = Rec("leave", r, g, {}, {}, FALSE, "offline")
    BY <1>1, RecGroups DEF Rec
  <1>3. z \in Socket
    BY <1>2 DEF Socket, Rec, Busy, States
  <1> HIDE DEF z
  <1>4. [z EXCEPT !.drop = g] = Rec("leave", r, g, {}, g, FALSE, "offline")
    BY <1>2, <1>3, RecDrop DEF Rec
  <1> QED
    BY <1>4 DEF y, z

(* The farewell is prepared by a socket that was open and announced.        *)
LEMMA DisconnectNews ==
    ASSUME PresenceInv, Truthful, NEW s \in Sockets, Disconnect(s), marks' = {},
           \A k \in Sockets : Novel(k)
    PROVE  \A k \in Sockets : Novel(k)'
  <1> DEFINE r == sock[s].at
             g == userGroups[r]
  <1>1. /\ r \in Replicas /\ sock[s].pc = "open" /\ TypeOK /\ seen' = seen
        /\ g \in SUBSET Groups
    BY DEF Disconnect, Start, Mark, redis, PresenceInv, Inv, TypeOK, Socket
  <1>2. CASE Others(s) # {}
    <2>1. sock' = [sock EXCEPT ![s] = Closed]
      BY <1>2 DEF Disconnect
    <2> QED
      BY <1>1, <2>1, ClosedSteps, NewsKept DEF Novel
  <1>3. CASE Others(s) = {}
    <2>1. sock' = [sock EXCEPT ![s] = [Coroutine("leave", r) EXCEPT !.groups = g, !.drop = g]]
      BY <1>3 DEF Disconnect, ScopeLeft
    <2>2. g = member /\ \A h \in member : seen[h] # "offline"
      BY <1>1, OpenSays
    <2> HIDE DEF g, r
    <2>0. r \in Replicas /\ g \in SUBSET Groups
      BY <1>1
    <2>3. [Coroutine("leave", r) EXCEPT !.groups = g, !.drop = g] =
             Rec("leave", r, g, {}, g, FALSE, "offline")
      BY <2>0, LeaveRec, Zenon
    <2>4. Rec("leave", r, g, {}, g, FALSE, "offline") \in Socket
      BY <1>1 DEF Socket, Rec, Busy, States
    <2>5. /\ \A k \in Sockets \ {s} : sock'[k] = sock[k]
          /\ sock'[s] = Rec("leave", r, g, {}, g, FALSE, "offline")
      BY <1>1, <2>1, <2>3, <2>4, StepsType
    <2>6. sock'[s].pc = "leave" /\ sock'[s].groups = g
      BY <2>5 DEF Rec
    <2>7. Novel(s)'
      BY <1>1, <2>2, <2>6 DEF Novel
    <2> QED
      BY <1>1, <2>5, <2>7, NewsKept
  <1> QED
    BY <1>2, <1>3

LEMMA ClearConnectionNews ==
    ASSUME PresenceInv, NEW s \in Sockets, ClearConnection(s), \A k \in Sockets : Novel(k)
    PROVE  \A k \in Sockets : Novel(k)'
  <1> DEFINE x == sock[s]
  <1>1. x \in Socket /\ x.pc = "leave" /\ TypeOK /\ seen' = seen
    BY DEF ClearConnection, PresenceInv, Inv, TypeOK
  <1>0. x \in Socket
    BY <1>1
  <1>2. PICK p : p = "farewell"
    OBVIOUS
  <1>3. sock' = [sock EXCEPT ![s] = [x EXCEPT !.pc = p, !.todo = x.groups]]
    BY <1>2 DEF ClearConnection
  <1> HIDE DEF x
  <1>4. [x EXCEPT !.pc = p, !.todo = x.groups] =
           Rec(p, x.at, x.groups, x.groups, x.drop, x.first, x.state)
    BY <1>0, RecPcTodo, Zenon
  <1>5. Rec(p, x.at, x.groups, x.groups, x.drop, x.first, x.state) \in Socket
    BY <1>1, <1>2 DEF Socket, Rec, Busy
  <1>6. /\ \A k \in Sockets \ {s} : sock'[k] = sock[k]
        /\ sock'[s] = Rec(p, x.at, x.groups, x.groups, x.drop, x.first, x.state)
    BY <1>1, <1>3, <1>4, <1>5, StepsType
  <1>7. sock'[s].pc = "farewell" /\ sock'[s].todo = x.groups
    BY <1>2, <1>6 DEF Rec
  <1>8. Novel(s)'
    BY <1>1, <1>7 DEF Novel, x
  <1> QED
    BY <1>1, <1>6, <1>8, NewsKept

(* The other steps of a coroutine neither send nor prepare an event of      *)
(* these.                                                                   *)
LEMMA OtherNews ==
    ASSUME PresenceInv, NEW s \in Sockets, \A k \in Sockets : Novel(k),
           \/ SetOnline(s) \/ Accept(s) \/ Announced(s) \/ SetConnection(s) \/ Told(s) \/ Gone(s)
           \/ \E g \in Groups : EnterGroup(s, g) \/ DropGroup(s, g) \/ LeaveGroup(s, g)
           \/ \E r \in Replicas : Authenticate(s, r)
           \/ \E word \in {"active", "away"} : Lifecycle(s, word)
    PROVE  \A k \in Sockets : Novel(k)'
  <1>1. TypeOK /\ sock[s] \in Socket
    BY DEF PresenceInv, Inv, TypeOK
  <1>2. seen' = seen
    BY DEF SetOnline, Accept, Announced, SetConnection, Told, Gone, EnterGroup, DropGroup,
       LeaveGroup, Authenticate, Lifecycle, redis
  <1>3. \A k \in Sockets \ {s} : sock'[k] = sock[k]
    BY <1>1 DEF SetOnline, Accept, Announced, SetConnection, Told, Gone, EnterGroup, DropGroup,
       LeaveGroup, Authenticate, Lifecycle, Become, TypeOK
  <1>4. CASE \E g \in Groups : LeaveGroup(s, g)
    <2>1. PICK g \in Groups : LeaveGroup(s, g)
      BY <1>4
    <2>2. sock' = [sock EXCEPT ![s].drop = @ \ {g}] /\ sock[s].pc = "leave"
      BY <2>1 DEF LeaveGroup
    <2>3. sock'[s].pc = "leave" /\ sock'[s].groups = sock[s].groups
      BY <1>1, <2>2, DropSteps DEF Resumes, Rec
    <2>4. Novel(s)'
      BY <1>2, <2>2, <2>3 DEF Novel
    <2> QED
      BY <1>2, <1>3, <2>4, NewsKept
  <1>5. CASE ~\E g \in Groups : LeaveGroup(s, g)
    <2>1. ASSUME NEW p \in {"accept", "tell"}, Become(s, p) PROVE sock'[s].pc = p
      <3>1. p \in Resting \cup Busy
        BY DEF Busy
      <3>2. Resumes(s, p, sock[s].at, sock[s].groups, sock[s].todo, sock[s].drop,
                    sock[s].first, sock[s].state)
        BY <1>1, <2>1, <3>1, PcSteps
      <3> QED
        BY <3>2 DEF Resumes, Rec
    <2>2. Accept(s) => sock'[s].pc = "join"
      BY <1>1 DEF Accept, TypeOK, Socket
    <2>3. Announced(s) \/ Told(s) => sock'[s].pc = "open"
      BY <1>1 DEF Announced, Told, Rest, Coroutine, TypeOK
    <2>4. Gone(s) => sock'[s].pc = "closed"
      BY <1>1, ClosedSteps DEF Gone
    <2>5. \A g \in Groups : EnterGroup(s, g) \/ DropGroup(s, g) => sock'[s].pc = "join"
      BY <1>1 DEF EnterGroup, DropGroup, TypeOK, Socket
    <2>6. \A r \in Replicas : Authenticate(s, r) => sock'[s].pc = "mark"
      BY <1>1 DEF Authenticate, Coroutine, TypeOK
    <2>7. \A word \in {"active", "away"} : Lifecycle(s, word) => sock'[s].pc = "lifecycle"
      BY <1>1 DEF Lifecycle, TypeOK, Socket
    <2>8. sock'[s].pc \notin Telling
      BY <1>5, <2>1, <2>2, <2>3, <2>4, <2>5, <2>6, <2>7 DEF Telling, SetOnline, SetConnection
    <2>9. Novel(s)'
      BY <2>8 DEF Novel, Telling
    <2> QED
      BY <1>2, <1>3, <2>9, NewsKept
  <1> QED
    BY <1>4, <1>5

LEMMA ServeMarks == ASSUME NEW s \in Sockets, Serve(s) PROVE marks' = marks
  BY DEF Serve, SetOnline, Accept, SendSnapshot, Announced, SetConnection, Told, ClearConnection,
     Gone, EnterGroup, DropGroup, Announce, Tell, LeaveGroup, SayFarewell, Publish

LEMMA MarksStay == [Next]_vars => marks \subseteq marks'
  BY ServeMarks DEF Next, vars, ChangeMembership, Authenticate, Lifecycle, Start, Disconnect,
     FailConnect, FailDisconnect, Crash, Mark

LEMMA StepNews == NewsInv /\ [Next]_vars => NewsInv'
  <1> SUFFICES ASSUME NewsInv, [Next]_vars, marks' = {} PROVE \A s \in Sockets : Novel(s)'
    BY StepPresence DEF NewsInv
  <1>1. CASE \E g \in Groups : ChangeMembership(g)
    BY <1>1 DEF ChangeMembership, Mark, redis, NewsInv, Novel
  <1>2. ASSUME NEW s \in Sockets, NEW r \in Replicas, Authenticate(s, r) PROVE \A k \in Sockets : Novel(k)'
    BY <1>2, OtherNews DEF NewsInv, Authenticate
  <1>3. ASSUME NEW s \in Sockets, NEW word \in {"active", "away"}, Lifecycle(s, word)
        PROVE  \A k \in Sockets : Novel(k)'
    <2>1. marks = {}
      BY <1>3 DEF Lifecycle, Start, Mark
    <2> QED
      BY <1>3, <2>1, OtherNews DEF NewsInv
  <1>4. ASSUME NEW s \in Sockets, Serve(s) PROVE \A k \in Sockets : Novel(k)'
    <2>1. marks = {} /\ PresenceInv /\ Orderly /\ Truthful /\ \A k \in Sockets : Novel(k)
      BY <1>4, ServeMarks DEF NewsInv, PresenceInv
    <2>2. CASE SendSnapshot(s) \/ ClearConnection(s)
      BY <2>1, <2>2, SendSnapshotNews, ClearConnectionNews
    <2>3. ASSUME NEW g \in Groups, Announce(s, g) \/ Tell(s, g) \/ SayFarewell(s, g)
          PROVE  \A k \in Sockets : Novel(k)'
      BY <2>1, <2>3, PublishNews
    <2>4. ASSUME \/ SetOnline(s) \/ Accept(s) \/ Announced(s) \/ SetConnection(s) \/ Told(s) \/ Gone(s)
                 \/ \E g \in Groups : EnterGroup(s, g) \/ DropGroup(s, g) \/ LeaveGroup(s, g)
          PROVE  \A k \in Sockets : Novel(k)'
      BY <2>1, <2>4, OtherNews
    <2> QED
      BY <1>4, <2>2, <2>3, <2>4 DEF Serve
  <1>5. ASSUME NEW s \in Sockets, Disconnect(s) PROVE \A k \in Sockets : Novel(k)'
    <2>1. marks = {}
      BY <1>5 DEF Disconnect, Start, Mark
    <2> QED
      BY <1>5, <2>1, DisconnectNews DEF NewsInv, PresenceInv
  <1>6. CASE \/ \E s \in Sockets : FailConnect(s) \/ FailDisconnect(s)
             \/ \E r \in Replicas : Crash(r)
    BY <1>6 DEF FailConnect, FailDisconnect, Crash, Mark
  <1>7. CASE UNCHANGED vars
    BY <1>7 DEF vars, NewsInv, Novel
  <1> QED
    BY <1>1, <1>2, <1>3, <1>4, <1>5, <1>6, <1>7 DEF Next

(* Every user_online and user_offline is news to the group it is sent to:    *)
(* it hears of an arrival after a departure only, and the other way round   *)
(* (publish_user_online, publish_user_offline).                             *)
THEOREM NoIdleEvents == Spec => EventsAreNews
  <1> DEFINE Tells == \A s \in Sockets, g \in Groups :
                marks' = {} /\ g \in sock[s].todo \ sock'[s].todo =>
                    /\ sock[s].pc = "announce" => seen[g] = "offline"
                    /\ sock[s].pc = "farewell" => seen[g] # "offline"
  <1>1. Init => NewsInv
    <2> SUFFICES ASSUME Init, NEW s \in Sockets PROVE sock[s].pc = "closed"
      BY InitPresence DEF NewsInv, Novel
    <2> QED
      BY DEF Init, Closed, Coroutine
  <1>2. NewsInv /\ [Next]_vars => marks \subseteq marks'
    BY MarksStay
  <1>3. NewsInv /\ marks \subseteq marks' => Tells
    BY DEF NewsInv, Novel
  <1> HIDE DEF Tells
  <1>4. NewsInv /\ [Next]_vars => NewsInv' /\ [Tells]_vars
    BY <1>2, <1>3, StepNews
  <1>5. Spec => [][Tells]_vars
    BY <1>1, <1>4, PTL DEF Spec
  <1> QED
    BY <1>5 DEF EventsAreNews, Tells

---------------------------------------------------------------------------
(* The ready flag: the other half of status_store.py, on variables of its    *)
(* own (module ReadyStatus), which no step of Presence touches.              *)

(* What the group was told agrees with the store between two handlers, and   *)
(* where a handler that runs alone has brought the two so far.              *)
Sweeping == {"scan", "get", "drop", "clear", "erase", "sayExpired"}
Agree == (key = "live" => told) /\ (~told => key = "none" /\ ~listed)
Tidy(p) ==
    /\ proc[p].pc \in {"sadd", "srem", "scan", "get", "drop", "clear", "erase"} => Agree
    /\ proc[p].pc \in {"delete", "sayCleared", "erase", "sayExpired"} => ~listed
    /\ proc[p].pc \in {"sayCleared", "drop", "sayExpired"} => key = "none"
    /\ proc[p].pc \in {"clear", "erase"} => key # "live" /\ told
    /\ proc[p].pc \in {"get", "drop"} /\ proc[p].round = "sweep" => told
    /\ proc[p].pc = "sayExpired" => told
OneHandler == \A p, q \in Processes :
    proc[p].pc # "idle" /\ proc[q].pc # "idle" => p = q

(* Whatever overlaps, a toggle never takes the path of a sweep. *)
Typed == ReadyTypeOK /\ \A p \in Togglers : proc[p].pc \notin Sweeping
ReadyInv ==
    /\ Typed
    /\ ~overlapped => /\ OneHandler
                      /\ InHandler = {} => Agree
                      /\ \A p \in Processes : Tidy(p)

(* Process p goes on, and no other. *)
Moves(p, to, round) ==
    /\ proc' \in [Processes -> [pc: Steps, round: Rounds]]
    /\ proc'[p].pc = to /\ proc'[p].round = round
    /\ \A q \in Processes \ {p} : proc'[q] = proc[q]

LEMMA GotoMoves ==
    ASSUME ReadyTypeOK, NEW p \in Processes, NEW to \in Steps, Goto(p, to)
    PROVE  Moves(p, to, proc[p].round)
  <1>1. proc' = [proc EXCEPT ![p] = [proc[p] EXCEPT !.pc = to]]
    BY DEF Goto
  <1>2. [proc[p] EXCEPT !.pc = to] = [pc |-> to, round |-> proc[p].round]
        /\ proc[p].round \in Rounds
    BY DEF ReadyTypeOK
  <1>3. proc' = [proc EXCEPT ![p] = [pc |-> to, round |-> proc[p].round]]
    BY <1>1, <1>2
  <1> QED
    BY <1>2, <1>3 DEF Moves, ReadyTypeOK

LEMMA RoundMoves ==
    ASSUME ReadyTypeOK, NEW p \in Processes,
           NEW to \in Steps, NEW round \in Rounds,
           proc' = [proc EXCEPT ![p] = [pc |-> to, round |-> round]]
    PROVE  Moves(p, to, round)
  BY DEF Moves, ReadyTypeOK

LEMMA NextRoundMoves ==
    ASSUME Typed, NEW p \in Processes, proc[p].pc \in Sweeping, NextRound(p)
    PROVE  /\ \/ Moves(p, "idle", "sweep")
              \/ /\ p \in Connectors
                 /\ Moves(p, "scan", "silent") \/ Moves(p, "scan", "list")
           /\ recent' \subseteq recent
  <1>1. p \notin Togglers /\ ReadyTypeOK
    BY DEF Typed
  <1>2. CASE Finish(p)
    BY <1>1, <1>2, RoundMoves DEF Finish, Steps, Rounds
  <1>3. CASE ~Finish(p)
    <2>1. p \in Connectors
      BY <1>1, <1>3 DEF NextRound, LastRound, Processes
    <2>2. PICK round \in {"silent", "list"} :
             proc' = [proc EXCEPT ![p] = [pc |-> "scan", round |-> round]]
      BY <1>3 DEF NextRound
    <2>3. Moves(p, "scan", round)
      BY <1>1, <2>2, RoundMoves DEF Steps, Rounds
    <2>4. UNCHANGED recent
      BY <1>3 DEF NextRound
    <2> QED
      BY <2>1, <2>2, <2>3, <2>4
  <1> QED
    BY <1>2, <1>3

(* A step of a handler: what is left to show of the others. *)
LEMMA HandlerStep ==
    ASSUME ReadyInv, NEW p \in Processes, proc[p].pc # "idle", UNCHANGED overlapped,
           NEW to \in Steps, NEW round \in Rounds, Moves(p, to, round),
           round # "sweep" => p \in Connectors,
           p \in Togglers => to \notin Sweeping,
           listed' \in BOOLEAN, key' \in {"none", "live", "stale"}, told' \in BOOLEAN,
           recent' \in SUBSET Processes,
           ~overlapped => Tidy(p)' /\ (to = "idle" => Agree')
    PROVE  ReadyInv'
  <1>1. Typed'
    <2>1. ReadyTypeOK'
      BY DEF ReadyInv, Typed, ReadyTypeOK, Moves
    <2> QED
      BY <2>1 DEF ReadyInv, Typed, Moves, Processes
  <1>2. ASSUME ~overlapped
        PROVE  OneHandler' /\ (InHandler' = {} => Agree') /\ \A q \in Processes : Tidy(q)'
    <2>1. \A q \in Processes \ {p} : proc'[q].pc = "idle"
      BY <1>2 DEF ReadyInv, OneHandler, Moves
    <2>2. OneHandler'
      BY <2>1 DEF OneHandler
    <2>3. InHandler' = {} => to = "idle"
      BY DEF InHandler, Moves
    <2>4. \A q \in Processes : Tidy(q)'
      BY <1>2, <2>1 DEF Tidy
    <2> QED
      BY <1>2, <2>2, <2>3, <2>4
  <1> QED
    BY <1>1, <1>2 DEF ReadyInv

LEMMA InitReady == ReadyInit => ReadyInv
  <1> SUFFICES ASSUME ReadyInit PROVE ReadyInv
    OBVIOUS
  <1>1. /\ \A p \in Processes : proc[p].pc = "idle" /\ proc[p].round = "sweep"
        /\ proc \in [Processes -> [pc: Steps, round: Rounds]]
    BY DEF ReadyInit, Rounds, Steps
  <1>2. Typed
    BY <1>1 DEF ReadyInit, Typed, ReadyTypeOK, Sweeping, Processes
  <1>3. OneHandler /\ Agree /\ \A p \in Processes : Tidy(p)
    BY <1>1 DEF ReadyInit, OneHandler, Agree, Tidy
  <1> QED
    BY <1>2, <1>3 DEF ReadyInv

(* A handler starts. *)
LEMMA StartReady ==
    ASSUME ReadyInv, NEW p \in Processes, StartHandler(p), NEW to \in {"sadd", "srem", "scan"},
           Moves(p, to, "sweep"), p \in Togglers => to # "scan", UNCHANGED <<store, told>>
    PROVE  ReadyInv'
  <1>1. /\ proc[p].pc = "idle" /\ overlapped' = (overlapped \/ InHandler # {})
        /\ UNCHANGED <<listed, key, recent, told>> /\ ReadyTypeOK
    BY DEF StartHandler, store, ReadyInv, Typed
  <1>2. overlapped' \in BOOLEAN
    BY <1>1 DEF ReadyTypeOK
  <1>3. Typed'
    <2>1. ReadyTypeOK'
      BY <1>1, <1>2 DEF ReadyTypeOK, Moves
    <2> QED
      BY <1>1, <2>1 DEF ReadyInv, Typed, Moves, Sweeping, Processes
  <1>4. ASSUME ~overlapped'
        PROVE  OneHandler' /\ (InHandler' = {} => Agree') /\ \A q \in Processes : Tidy(q)'
    <2>1. ~overlapped /\ InHandler = {} /\ Agree
      BY <1>1, <1>4 DEF ReadyInv
    <2>2. /\ \A q \in Processes \ {p} : proc'[q].pc = "idle"
          /\ proc'[p].pc = to
      BY <2>1 DEF InHandler, Moves
    <2>3. OneHandler' /\ InHandler' # {}
      BY <2>2 DEF OneHandler, InHandler
    <2>4. Agree'
      BY <1>1, <2>1 DEF Agree
    <2>5. \A q \in Processes : Tidy(q)'
      BY <2>2, <2>4 DEF Tidy
    <2> QED
      BY <2>3, <2>4, <2>5
  <1> QED
    BY <1>3, <1>4 DEF ReadyInv

LEMMA BeginsReady ==
    ASSUME ReadyInv, NEW p \in Processes,
           \/ p \in Togglers /\ Toggle(p)
           \/ p \in Sweepers \cup Connectors /\ Begin(p)
    PROVE  ReadyInv'
  <1>1. ReadyTypeOK
    BY DEF ReadyInv, Typed
  <1>2. CASE p \in Togglers /\ Toggle(p)
    <2>1. PICK to \in {"sadd", "srem"} : Goto(p, to)
      BY <1>2 DEF Toggle
    <2>2. Moves(p, to, proc[p].round) /\ proc[p].round = "sweep"
      BY <1>1, <1>2, <2>1, GotoMoves, ReadyAssumption DEF Steps, ReadyTypeOK
    <2> QED
      BY <1>2, <2>2, StartReady DEF Toggle
  <1>3. CASE p \in Sweepers \cup Connectors /\ Begin(p)
    <2>1. Moves(p, "scan", "sweep")
      BY <1>1, <1>3, RoundMoves DEF Begin, Steps, Rounds
    <2> QED
      BY <1>3, <2>1, StartReady, ReadyAssumption DEF Begin
  <1> QED
    BY <1>2, <1>3

(* ready_toggle. *)
LEMMA ToggleReady ==
    ASSUME ReadyInv, NEW p \in Processes, UNCHANGED overlapped,
           \/ Sadd(p) \/ Setex(p) \/ SayReady(p)
           \/ Srem(p) \/ Delete(p) \/ SayCleared(p)
    PROVE  ReadyInv'
  <1>0. ReadyTypeOK /\ (~overlapped => Tidy(p)) /\ (p \notin Connectors => proc[p].round = "sweep")
        /\ proc[p].round \in Rounds
    BY DEF ReadyInv, Typed, ReadyTypeOK
  <1>1. CASE Sadd(p) \/ Setex(p) \/ Srem(p) \/ Delete(p)
    <2>1. PICK to \in {"setex", "sayReady", "delete", "sayCleared"} :
             /\ Goto(p, to) /\ proc[p].pc \notin {"idle"}
             /\ to = "delete" => listed' = FALSE
             /\ to = "sayCleared" => proc[p].pc = "delete" /\ UNCHANGED listed /\ key' = "none"
             /\ listed' \in BOOLEAN /\ key' \in {"none", "live", "stale"} /\ UNCHANGED told
             /\ recent' \in SUBSET Processes
      BY <1>0, <1>1 DEF Sadd, Setex, Srem, Delete, Step, ReadyTypeOK, InHandler
    <2>2. Moves(p, to, proc[p].round)
      BY <1>0, <2>1, GotoMoves DEF Steps
    <2>3. ~overlapped => Tidy(p)'
      BY <1>0, <2>1, <2>2 DEF Tidy, Moves
    <2> QED
      BY <1>0, <2>1, <2>2, <2>3, HandlerStep DEF Steps, Sweeping, ReadyTypeOK
  <1>2. CASE SayReady(p) \/ SayCleared(p)
    <2>1. /\ Finish(p) /\ proc[p].pc # "idle" /\ UNCHANGED <<listed, key>> /\ told' \in BOOLEAN
          /\ SayReady(p) => told' = TRUE
          /\ SayCleared(p) => told' = FALSE /\ proc[p].pc = "sayCleared"
      BY <1>2 DEF SayReady, SayCleared
    <2>2. Moves(p, "idle", "sweep") /\ recent' \in SUBSET Processes
      BY <1>0, <2>1, RoundMoves DEF Finish, Steps, Rounds, ReadyTypeOK
    <2>3. ~overlapped => Agree'
      BY <1>0, <1>2, <2>1 DEF Tidy, Agree
    <2>4. Tidy(p)'
      BY <2>2 DEF Tidy, Moves
    <2> QED
      BY <1>0, <2>1, <2>2, <2>3, <2>4, HandlerStep DEF Steps, Rounds, Sweeping, ReadyTypeOK
  <1> QED
    BY <1>1, <1>2

(* A sweep goes on to its next round, or ends. *)
LEMMA RoundReady ==
    ASSUME ReadyInv, NEW p \in Processes, UNCHANGED overlapped, proc[p].pc \in Sweeping,
           NextRound(p), key' \in {"none", "live", "stale"}, listed' \in BOOLEAN, told' \in BOOLEAN,
           ~overlapped => Agree'
    PROVE  ReadyInv'
  <1>1. Typed /\ ReadyTypeOK /\ proc[p].pc # "idle" /\ p \notin Togglers
    BY DEF ReadyInv, Typed, Sweeping
  <1>2. PICK to \in {"idle", "scan"}, round \in Rounds :
           Moves(p, to, round) /\ (round # "sweep" => p \in Connectors)
    BY <1>1, NextRoundMoves DEF Rounds
  <1>3. recent' \in SUBSET Processes
    BY <1>1, NextRoundMoves DEF ReadyTypeOK
  <1>4. ~overlapped => Tidy(p)'
    BY <1>2 DEF Moves, Tidy
  <1> QED
    BY <1>1, <1>2, <1>3, <1>4, HandlerStep DEF Steps, ReadyTypeOK

LEMMA SweepReady ==
    ASSUME ReadyInv, NEW p \in Processes, UNCHANGED overlapped,
           Scan(p) \/ Get(p) \/ Drop(p) \/ Clear(p) \/ Erase(p) \/ SayExpired(p)
    PROVE  ReadyInv'
  <1>0. ReadyTypeOK /\ (~overlapped => Tidy(p)) /\ (p \notin Connectors => proc[p].round = "sweep")
        /\ proc[p].round \in Rounds
    BY DEF ReadyInv, Typed, ReadyTypeOK
  <1>1. proc[p].pc \in Sweeping /\ p \notin Togglers /\ proc[p].pc # "idle"
    <2>1. proc[p].pc \in Sweeping
      BY DEF Scan, Get, Drop, Clear, Erase, SayExpired, Step, Sweeping
    <2> QED
      BY <2>1 DEF ReadyInv, Typed, Sweeping
  <1>2. CASE Scan(p)
    <2>1. UNCHANGED <<listed, key, told>> /\ proc[p].pc = "scan"
      BY <1>2 DEF Scan
    <2>2. ~overlapped => Agree'
      BY <1>0, <2>1 DEF Tidy, Agree
    <2>3. CASE NextRound(p)
      BY <1>0, <1>1, <2>1, <2>2, <2>3, RoundReady DEF ReadyTypeOK
    <2>4. CASE /\ listed \/ proc[p].round = "list"
               /\ Goto(p, "get") /\ UNCHANGED recent
      <3>1. Moves(p, "get", proc[p].round)
        BY <1>0, <2>4, GotoMoves DEF Steps
      <3>2. ~overlapped => Tidy(p)'
        BY <1>0, <2>1, <2>2, <2>4, <3>1 DEF Tidy, Moves, Agree
      <3> QED
        BY <1>0, <1>1, <2>1, <2>4, <3>1, <3>2, HandlerStep DEF Steps, ReadyTypeOK
    <2> QED
      BY <1>2, <2>3, <2>4 DEF Scan
  <1>3. CASE Get(p)
    <2>1. UNCHANGED <<listed, key, told>> /\ proc[p].pc = "get"
      BY <1>3 DEF Get
    <2>2. ~overlapped => Agree'
      BY <1>0, <2>1 DEF Tidy, Agree
    <2>3. CASE NextRound(p)
      BY <1>0, <1>1, <2>1, <2>2, <2>3, RoundReady DEF ReadyTypeOK
    <2>4. CASE key = "none" /\ Goto(p, "drop") /\ UNCHANGED recent
      <3>1. Moves(p, "drop", proc[p].round)
        BY <1>0, <2>4, GotoMoves DEF Steps
      <3>2. ~overlapped => Tidy(p)'
        BY <1>0, <2>1, <2>2, <2>4, <3>1 DEF Tidy, Moves
      <3> QED
        BY <1>0, <1>1, <2>1, <2>4, <3>1, <3>2, HandlerStep DEF Steps, ReadyTypeOK
    <2>5. CASE Expired /\ Goto(p, "clear") /\ UNCHANGED recent
      <3>1. Moves(p, "clear", proc[p].round)
        BY <1>0, <2>5, GotoMoves DEF Steps
      <3>2. ~overlapped => Tidy(p)'
        BY <1>0, <2>1, <2>2, <2>5, <3>1 DEF Tidy, Moves, Agree, Expired
      <3> QED
        BY <1>0, <1>1, <2>1, <2>5, <3>1, <3>2, HandlerStep DEF Steps, ReadyTypeOK
    <2> QED
      BY <1>3, <2>3, <2>4, <2>5 DEF Get
  <1>4. CASE Clear(p)
    <2>1. Goto(p, "erase") /\ proc[p].pc = "clear" /\ listed' = FALSE /\ UNCHANGED <<key, recent, told>>
      BY <1>4 DEF Clear, Step
    <2>2. Moves(p, "erase", proc[p].round)
      BY <1>0, <2>1, GotoMoves DEF Steps
    <2>3. ~overlapped => Tidy(p)'
      BY <1>0, <2>1, <2>2 DEF Tidy, Moves, Agree
    <2> QED
      BY <1>0, <1>1, <2>1, <2>2, <2>3, HandlerStep DEF Steps, ReadyTypeOK
  <1>5. CASE Drop(p) \/ Erase(p)
    <2>1. /\ proc[p].pc \in {"drop", "erase"} /\ Cleared(p) /\ UNCHANGED told
          /\ listed' \in BOOLEAN /\ key' \in {"none", "live", "stale"}
          /\ ~overlapped => ~listed' /\ key' = "none"
      <3>1. CASE Drop(p)
        <4>1. /\ proc[p].pc = "drop" /\ listed' = FALSE /\ Cleared(p) /\ UNCHANGED <<key, told>>
          BY <3>1 DEF Drop, Unlisted
        <4>2. ~overlapped => key = "none"
          BY <1>0, <4>1 DEF Tidy
        <4> QED
          BY <1>0, <4>1, <4>2 DEF ReadyTypeOK
      <3>2. CASE Erase(p)
        <4>1. /\ proc[p].pc = "erase" /\ key' = "none" /\ Cleared(p)
              /\ UNCHANGED <<listed, told>>
          BY <3>2 DEF Erase
        <4>2. ~overlapped => ~listed
          BY <1>0, <4>1 DEF Tidy
        <4> QED
          BY <1>0, <4>1, <4>2 DEF ReadyTypeOK
      <3> QED
        BY <1>5, <3>1, <3>2
    <2>2. ~overlapped => Agree'
      BY <2>1 DEF Agree
    <2>3. CASE NextRound(p)
      BY <1>0, <1>1, <2>1, <2>2, <2>3, RoundReady DEF ReadyTypeOK
    <2>4. CASE Loud(p) /\ Goto(p, "sayExpired") /\ UNCHANGED recent
      <3>1. Moves(p, "sayExpired", proc[p].round)
        BY <1>0, <2>4, GotoMoves DEF Steps
      <3>2. ~overlapped => Tidy(p)'
        BY <1>0, <2>1, <2>4, <3>1 DEF Tidy, Moves, Loud
      <3> QED
        BY <1>0, <1>1, <2>1, <2>4, <3>1, <3>2, HandlerStep DEF Steps, ReadyTypeOK
    <2> QED
      BY <2>1, <2>3, <2>4 DEF Cleared
  <1>6. CASE SayExpired(p)
    <2>1. /\ proc[p].pc = "sayExpired" /\ NextRound(p) /\ told' = FALSE
          /\ UNCHANGED <<listed, key>>
      BY <1>6 DEF SayExpired
    <2>2. ~overlapped => Agree'
      BY <1>0, <2>1 DEF Tidy, Agree
    <2> QED
      BY <1>0, <1>1, <2>1, <2>2, RoundReady DEF ReadyTypeOK
  <1> QED
    BY <1>2, <1>3, <1>4, <1>5, <1>6

(* The key runs out.  Nobody who was in a handler when it was set still is.  *)
LEMMA ExpiryReady ==
    ASSUME ReadyInv, Age \/ Vanish, UNCHANGED overlapped PROVE ReadyInv'
  <1>1. /\ UNCHANGED <<listed, told, recent, proc>> /\ key # "none" /\ key' \in {"stale", "none"}
        /\ key' = "stale" => key = "live"
    BY DEF Age, Vanish
  <1>2. Typed'
    BY <1>1 DEF ReadyInv, Typed, ReadyTypeOK
  <1>3. Agree => Agree'
    BY <1>1 DEF Agree
  <1>4. ASSUME NEW p \in Processes, Tidy(p) PROVE Tidy(p)'
    BY <1>1, <1>3, <1>4 DEF Tidy
  <1>5. OneHandler => OneHandler'
    BY <1>1 DEF OneHandler
  <1>6. InHandler' = InHandler
    BY <1>1 DEF InHandler, Processes
  <1> QED
    BY <1>2, <1>3, <1>4, <1>5, <1>6 DEF ReadyInv

LEMMA StepReady == ReadyInv /\ [ReadyNext]_readyVars => ReadyInv'
  <1> SUFFICES ASSUME ReadyInv, [ReadyNext]_readyVars PROVE ReadyInv'
    OBVIOUS
  <1>1. ASSUME NEW p \in Processes,
               \/ p \in Togglers /\ Toggle(p)
               \/ p \in Sweepers \cup Connectors /\ Begin(p)
        PROVE  ReadyInv'
    BY <1>1, BeginsReady
  <1>2. ASSUME NEW p \in Processes, Handle(p), UNCHANGED overlapped PROVE ReadyInv'
    BY <1>2, ToggleReady, SweepReady DEF Handle
  <1>3. CASE (Age \/ Vanish) /\ UNCHANGED overlapped
    BY <1>3, ExpiryReady
  <1>4. CASE UNCHANGED readyVars
    <2>1. UNCHANGED <<listed, key, told, recent, proc, overlapped>>
      BY <1>4 DEF readyVars
    <2>2. Typed' = Typed /\ OneHandler' = OneHandler /\ InHandler' = InHandler
      BY <2>1 DEF Typed, ReadyTypeOK, OneHandler, InHandler
    <2>3. Agree => Agree'
      BY <2>1 DEF Agree
    <2>4. ASSUME NEW p \in Processes, Tidy(p) PROVE Tidy(p)'
      BY <2>1, <2>3, <2>4 DEF Tidy
    <2> QED
      BY <2>1, <2>2, <2>3, <2>4 DEF ReadyInv
  <1>5. Togglers \subseteq Processes /\ Sweepers \cup Connectors \subseteq Processes
    BY DEF Processes
  <1>6. (\E p \in Togglers : Toggle(p)) => ReadyInv'
    BY <1>1, <1>5
  <1>7. (\E p \in Sweepers \cup Connectors : Begin(p)) => ReadyInv'
    BY <1>1, <1>5
  <1> QED
    BY <1>2, <1>3, <1>4, <1>6, <1>7 DEF ReadyNext

LEMMA ReadyInvariant == ReadySpec => []ReadyInv
  <1>1. ReadyInv /\ [ReadyNext]_readyVars => ReadyInv'
    BY StepReady
  <1> QED
    BY <1>1, InitReady, PTL DEF ReadySpec

(* Every flag, key and handler of the model has its type in every reachable  *)
(* state, overlaps included: a toggle never takes the path of a sweep.      *)
THEOREM ReadyTyped == ReadySpec => []ReadyTypeOK
  <1>1. ReadyInv => ReadyTypeOK
    BY DEF ReadyInv, Typed
  <1> QED
    BY <1>1, ReadyInvariant, PTL

(* Between two handlers a flag in force has been announced and one announced *)
(* as cleared is gone from the store (set_group_ready, clear_group_ready),   *)
(* as long as the handlers ran one at a time.                               *)
THEOREM FlagAnnounced == ReadySpec => []ReadyAnnounced
  <1>1. ReadyInv => ReadyAnnounced
    BY DEF ReadyInv, ReadyAnnounced, Agree
  <1> QED
    BY <1>1, ReadyInvariant, PTL

(* The event of a sweep changes what the group was told: none repeats that   *)
(* the flag is cleared (sweep_all_groups), under the same condition.        *)
THEOREM SweepTellsNews == ReadySpec => SweepTellsTransition
  <1> DEFINE News == \A p \in Processes :
                ~overlapped /\ proc[p].pc = "sayExpired" /\ proc'[p].pc # "sayExpired" => told
  <1>1. ReadyInv => News
    BY DEF ReadyInv, Tidy
  <1> HIDE DEF News
  <1>2. ReadyInv /\ [ReadyNext]_readyVars => [News]_readyVars
    BY <1>1
  <1>3. ReadySpec => [][News]_readyVars
    BY <1>2, ReadyInvariant, PTL DEF ReadySpec
  <1> QED
    BY <1>3 DEF SweepTellsTransition, News
=============================================================================
