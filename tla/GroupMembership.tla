--------------------------- MODULE GroupMembership ---------------------------
(***************************************************************************)
(* One group, its membership rows and its join requests, as the API        *)
(* replicas change them (backend/app/api/v1/groups/service.py,             *)
(* join_requests/service.py, db/repositories/group_repo.py).               *)
(*                                                                         *)
(* A worker is one HTTP request being served.  Its transaction runs at     *)
(* PostgreSQL's READ COMMITTED: every SELECT sees the rows committed at    *)
(* that moment and holds no lock, so each SELECT of a handler is a step of *)
(* its own, and whatever another worker commits between two of them is     *)
(* seen by the second only.  The writes of a handler are its last step:    *)
(* they lock their rows until the commit, so writes and commit are atomic  *)
(* for everybody else.  An entity the handler still holds keeps the values *)
(* it was first read with ("seen"): SQLAlchemy does not refresh a loaded   *)
(* row when it is selected again, it only notices that the row is gone.    *)
(***************************************************************************)
EXTENDS Naturals, FiniteSets

CONSTANTS
    Users,          \* accounts
    Workers,        \* requests that can be in flight together, on any replica
    RequestIds,     \* primary keys of join requests (bounds their number)
    NoRequest,      \* the HTTP request names no join request
    NoUser,         \* it names no user, or the worker serves no request
    Traffic,        \* the operations the clients of this instance send
    PendingIndex,   \* the partial unique index of models/group.py exists
    Cascade         \* the foreign keys to groups say ON DELETE CASCADE

Operations == {"settings", "delete", "join", "remove", "setRole", "transfer",
               "requestById", "requestByCode", "resolve"}

ASSUME GroupAssumption ==
    /\ NoRequest \notin RequestIds
    /\ NoUser \notin Users
    /\ Traffic \subseteq Operations
    /\ PendingIndex \in BOOLEAN
    /\ Cascade \in BOOLEAN

VARIABLES
    group,      \* "absent" until created, "live", "deleted"
    settings,   \* the two owner-only columns
    role,       \* role[u]: role of u's membership row, "none" when no row
    joinRequest,\* joinRequest[i]: the row with primary key i
    job,        \* job[w]: where worker w is in its handler, and what it holds
    raced       \* history: a hand-over committed over another request

vars == <<group, settings, role, joinRequest, job, raced>>
tables == <<group, settings, role, joinRequest>>

Roles == {"none", "member", "admin", "owner"}
JoinModes == {"open", "approval"}
Listings == {"listed", "unlisted"}      \* is_discoverable
RequestStatus == {"unused", "pending", "approved", "denied"}

(* What a client can put in the body: a role, a resolution, a new setting. *)
Args == {"none", "member", "admin", "open", "approval", "listed", "unlisted",
         "approved", "denied"}

Answers == {"idle", "ok", "refused", "error"}    \* nothing yet, 2xx, 4xx, 500
Statements == {"authorise", "load", "check", "pending", "recheck", "write"}

Job == [pc: Answers \cup Statements, op: Operations \cup {"none"},
        actor: Users \cup {NoUser}, target: Users \cup {NoUser}, arg: Args,
        req: RequestIds \cup {NoRequest},
        seen: Roles \cup JoinModes \cup RequestStatus \cup Listings]

TypeOK ==
    /\ group \in {"absent", "live", "deleted"}
    /\ settings \in [joinMode: JoinModes, discoverable: BOOLEAN]
    /\ role \in [Users -> Roles]
    /\ joinRequest \in [RequestIds ->
                        [user: Users \cup {NoUser}, status: RequestStatus]]
    /\ job \in [Workers -> Job]
    /\ raced \in BOOLEAN

(* A worker between two requests remembers only the answer it gave. *)
Blank(answer) ==
    [pc |-> answer, op |-> "none", actor |-> NoUser, target |-> NoUser,
     arg |-> "none", req |-> NoRequest, seen |-> "none"]

Init ==
    /\ group = "absent"
    /\ settings = [joinMode |-> "open", discoverable |-> FALSE]
    /\ role = [u \in Users |-> "none"]
    /\ joinRequest = [i \in RequestIds |-> [user |-> NoUser, status |-> "unused"]]
    /\ job = [w \in Workers |-> Blank("idle")]
    /\ raced = FALSE

---------------------------------------------------------------------------
(* Steps every handler is made of. *)

InFlight(w) == job[w].pc \notin Answers
At(w, op, pc) == job[w].op = op /\ job[w].pc = pc

Goto(w, pc) ==
    /\ job' = [job EXCEPT ![w].pc = pc]
    /\ UNCHANGED <<tables, raced>>

(* The entity stays referenced by the handler with the values read here. *)
Hold(w, pc, seen) ==
    /\ job' = [job EXCEPT ![w].pc = pc, ![w].seen = seen]
    /\ UNCHANGED <<tables, raced>>

Answer(w, answer) == job' = [job EXCEPT ![w] = Blank(answer)]

(* An exception of the service: get_db rolls back, nothing is written. *)
Refuse(w) == Answer(w, "refused") /\ UNCHANGED <<tables, raced>>

(* A constraint, a missing row or a driver error at flush: 500, rollback. *)
Fail(w) == Answer(w, "error") /\ UNCHANGED <<tables, raced>>

(* A write selects its row again by (group, user).  A row that is gone by   *)
(* then gives the first answer, one that goes before the flush the second. *)
Gone(w, early, late) ==
    /\ Answer(w, early) \/ Answer(w, late)
    /\ UNCHANGED <<tables, raced>>

HasRole(u, roles) == role[u] \in roles

---------------------------------------------------------------------------
(* Groups come from create_group: the row and the owner's membership are   *)
(* one transaction, and nobody can name the group before it commits.       *)
CreateGroup(u, mode, listed) ==
    /\ group = "absent"
    /\ group' = "live"
    /\ settings' = [joinMode |-> mode, discoverable |-> listed]
    /\ role' = [role EXCEPT ![u] = "owner"]
    /\ UNCHANGED <<joinRequest, job, raced>>

Request(op, actor, target, arg, req, pc) ==
    [pc |-> pc, op |-> op, actor |-> actor, target |-> target, arg |-> arg,
     req |-> req, seen |-> "none"]

(* The requests a client can send, each with the statement it starts at. *)
ClientRequests ==
    {Request("settings", a, NoUser, s, NoRequest, "authorise") :
        a \in Users, s \in {"open", "approval", "listed", "unlisted"}}
    \cup {Request("delete", a, NoUser, "none", NoRequest, "authorise") : a \in Users}
    \cup {Request(op, a, NoUser, "none", NoRequest, "load") :
        a \in Users, op \in {"join", "requestById", "requestByCode"}}
    \cup {Request("remove", a, t, "none", NoRequest,
                  IF a = t THEN "load" ELSE "authorise") :
        a \in Users, t \in Users}
    \cup {Request("setRole", a, t, r, NoRequest, "authorise") :
        a \in Users, t \in Users, r \in {"member", "admin"}}
    \cup {Request("transfer", a, t, "none", NoRequest, "authorise") :
        a \in Users, t \in Users}
    \cup {Request("resolve", a, NoUser, v, i, "load") :
        a \in Users, v \in {"approved", "denied"}, i \in RequestIds}

Receive(w) ==
    /\ ~InFlight(w)
    /\ group # "absent"
    /\ \E r \in ClientRequests :
         /\ r.op \in Traffic
         /\ r.req \in RequestIds => joinRequest[r.req].status # "unused"
         /\ job' = [job EXCEPT ![w] = r]
    /\ UNCHANGED <<tables, raced>>

(* The replica dies: the database rolls the transaction back. *)
Crash(w) ==
    /\ InFlight(w)
    /\ Answer(w, "idle")
    /\ UNCHANGED <<tables, raced>>

---------------------------------------------------------------------------
(* _ensure_owner, _ensure_admin_or_owner: the first read of most handlers. *)
Authorise(w) ==
    LET j == job[w]
        needed == IF j.op = "remove" THEN {"owner", "admin"} ELSE {"owner"}
        next == IF j.op = "delete" THEN "write" ELSE "load"
    IN  /\ j.pc = "authorise"
        /\ j.op # "resolve"
        /\ \/ HasRole(j.actor, needed) /\ Goto(w, next)
           \/ ~HasRole(j.actor, needed) /\ Refuse(w)

(* update_group, as far as the owner-only columns are concerned, one per   *)
(* request.  The group is held with the column as first read, and a column *)
(* that already had the new value is not written.                          *)
Column(arg) ==
    CASE arg \in JoinModes -> settings.joinMode
      [] OTHER -> IF settings.discoverable THEN "listed" ELSE "unlisted"

LoadSettings(w) ==
    /\ At(w, "settings", "load")
    /\ \/ group = "live" /\ Hold(w, "write", Column(job[w].arg))
       \/ group # "live" /\ Refuse(w)

UpdatedMode(s, arg) == [s EXCEPT !.joinMode = arg]
Updated(s, arg) ==
    CASE arg \in JoinModes -> [s EXCEPT !.joinMode = arg]
      [] OTHER -> [s EXCEPT !.discoverable = (arg = "listed")]

WriteSettings(w) ==
    /\ At(w, "settings", "write")
    /\ \/ /\ group = "live"
          /\ settings' = IF job[w].seen = job[w].arg THEN settings
                         ELSE Updated(settings, job[w].arg)
          /\ Answer(w, "ok")
          /\ UNCHANGED <<group, role, joinRequest, raced>>
       \/ group # "live" /\ Gone(w, "refused", "error")

(* delete_group: with the cascade the rows go with the group; without it   *)
(* the foreign keys of the remaining rows refuse the DELETE.               *)
WriteDelete(w) ==
    /\ At(w, "delete", "write")
    /\ \/ group # "live" /\ Gone(w, "refused", "ok")
       \/ /\ group = "live"
          /\ Cascade
          /\ group' = "deleted"
          /\ role' = [u \in Users |-> "none"]
          /\ joinRequest' = [i \in RequestIds |->
                               [user |-> NoUser, status |-> "unused"]]
          /\ Answer(w, "ok")
          /\ UNCHANGED <<settings, raced>>
       \/ /\ group = "live"
          /\ ~Cascade
          /\ Fail(w)

(* INSERT of a membership: unique (user, group), foreign key to the group. *)
CanInsertUnchecked(u) == role[u] = "none"
CanInsertMember(u) == group = "live" /\ role[u] = "none"

(* join_by_invite_code: the group is held, its join_mode as first read. *)
LoadJoin(w) ==
    /\ At(w, "join", "load")
    /\ \/ group = "live" /\ Hold(w, "check", settings.joinMode)
       \/ group # "live" /\ Refuse(w)

Admitted(w) == role[job[w].actor] = "none" /\ job[w].seen = "open"

CheckJoin(w) ==
    /\ At(w, "join", "check")
    /\ \/ Admitted(w) /\ Goto(w, "write")
       \/ ~Admitted(w) /\ Refuse(w)

WriteJoin(w) ==
    LET u == job[w].actor
    IN  /\ At(w, "join", "write")
        /\ \/ /\ CanInsertMember(u)
              /\ role' = [role EXCEPT ![u] = "member"]
              /\ Answer(w, "ok")
              /\ UNCHANGED <<group, settings, joinRequest, raced>>
           \/ ~CanInsertMember(u) /\ Fail(w)

---------------------------------------------------------------------------
(* remove_member and leave_group.  Removing an admin re-reads the actor,   *)
(* and only a membership that is there and not the owner's is refused.     *)
RemovableWithOwner(t) == HasRole(t, {"member", "admin", "owner"})
Removable(t) == HasRole(t, {"member", "admin"})

NeedsNoOwner(j) == FALSE
NeedsOwner(j) == j.actor # j.target /\ role[j.target] = "admin"

LoadRemove(w) ==
    LET t == job[w].target
    IN  /\ At(w, "remove", "load")
        /\ \/ /\ Removable(t)
              /\ Hold(w, IF NeedsOwner(job[w]) THEN "recheck" ELSE "write", role[t])
           \/ ~Removable(t) /\ Refuse(w)

RecheckRemove(w) ==
    /\ At(w, "remove", "recheck")
    /\ \/ HasRole(job[w].actor, {"owner", "none"}) /\ Goto(w, "write")
       \/ HasRole(job[w].actor, {"admin", "member"}) /\ Refuse(w)

WriteRemove(w) ==
    LET t == job[w].target
    IN  /\ At(w, "remove", "write")
        /\ \/ /\ role[t] # "none"
              /\ role' = [role EXCEPT ![t] = "none"]
              /\ Answer(w, "ok")
              /\ UNCHANGED <<group, settings, joinRequest, raced>>
           \/ role[t] = "none" /\ Gone(w, "refused", "ok")

(* update_member_role: no UPDATE is emitted when the held row already has  *)
(* the new role; a row that is gone is answered like a success.            *)
LoadSetRole(w) ==
    LET t == job[w].target
    IN  /\ At(w, "setRole", "load")
        /\ \/ HasRole(t, {"member", "admin"}) /\ Hold(w, "write", role[t])
           \/ ~HasRole(t, {"member", "admin"}) /\ Refuse(w)

WriteSetRole(w) ==
    LET j == job[w]
    IN  /\ At(w, "setRole", "write")
        /\ \/ /\ role[j.target] # "none"
              /\ role' = IF j.seen = j.arg THEN role
                         ELSE [role EXCEPT ![j.target] = j.arg]
              /\ Answer(w, "ok")
              /\ UNCHANGED <<group, settings, joinRequest, raced>>
           \/ role[j.target] = "none" /\ Gone(w, "ok", "error")

(* transfer_ownership *)
LoadTransfer(w) ==
    LET j == job[w]
        fit == j.actor # j.target /\ HasRole(j.target, {"member", "admin"})
    IN  /\ At(w, "transfer", "load")
        /\ \/ fit /\ Hold(w, "write", role[j.target])
           \/ ~fit /\ Refuse(w)

(* The requests whose checks the hand-over by w to t makes stale: another   *)
(* hand-over that has checked its sender, and a demotion or removal of t   *)
(* that has checked that t is not the owner.                               *)
Overtaken(w) ==
    \E v \in Workers \ {w} :
        \/ job[v].op = "transfer" /\ job[v].pc \in {"load", "write"}
        \/ /\ job[v].op \in {"setRole", "remove"}
           /\ job[v].pc \in {"recheck", "write"}
           /\ job[v].target = job[w].target

HandedOnly(a, t) == [role EXCEPT ![t] = "owner"]
HandedOver(a, t) == [role EXCEPT ![a] = "admin", ![t] = "owner"]

WriteTransfer(w) ==
    LET j == job[w]
    IN  /\ At(w, "transfer", "write")
        /\ \/ /\ role[j.actor] # "none"
              /\ role[j.target] # "none"
              /\ role' = HandedOver(j.actor, j.target)
              /\ Answer(w, "ok")
              /\ raced' = (raced \/ Overtaken(w))
              /\ UNCHANGED <<group, settings, joinRequest>>
           \/ /\ "none" \in {role[j.actor], role[j.target]}
              /\ Gone(w, "refused", "error")

---------------------------------------------------------------------------
Pending(u) == {i \in RequestIds :
                 joinRequest[i].user = u /\ joinRequest[i].status = "pending"}

(* create_request, create_request_by_invite_code *)
LoadRequest(w) ==
    LET open == /\ group = "live"
                /\ job[w].op = "requestById" => settings.discoverable
                /\ settings.joinMode = "approval"
    IN  /\ job[w].op \in {"requestById", "requestByCode"}
        /\ job[w].pc = "load"
        /\ \/ open /\ Goto(w, "check")
           \/ ~open /\ Refuse(w)

CheckRequest(w) ==
    /\ job[w].op \in {"requestById", "requestByCode"}
    /\ job[w].pc = "check"
    /\ \/ role[job[w].actor] = "none" /\ Goto(w, "pending")
       \/ role[job[w].actor] # "none" /\ Refuse(w)

AskableTwice(u) == TRUE
Askable(u) == Pending(u) = {}

PendingRequest(w) ==
    /\ job[w].op \in {"requestById", "requestByCode"}
    /\ job[w].pc = "pending"
    /\ \/ Askable(job[w].actor) /\ Goto(w, "write")
       \/ ~Askable(job[w].actor) /\ Refuse(w)

CanInsertRequest(u) == group = "live" /\ (PendingIndex => Pending(u) = {})

WriteRequest(w) ==
    LET u == job[w].actor
    IN  /\ job[w].op \in {"requestById", "requestByCode"}
        /\ job[w].pc = "write"
        /\ \/ /\ CanInsertRequest(u)
              /\ \E i \in RequestIds :
                   /\ joinRequest[i].status = "unused"
                   /\ joinRequest' = [joinRequest EXCEPT
                                        ![i] = [user |-> u, status |-> "pending"]]
              /\ Answer(w, "ok")
              /\ UNCHANGED <<group, settings, role, raced>>
           \/ ~CanInsertRequest(u) /\ Fail(w)

(* resolve_request: the request is held with the status first read; the    *)
(* resolver's role and the requester's membership are read afterwards.     *)
LoadResolve(w) ==
    LET r == joinRequest[job[w].req]
    IN  /\ At(w, "resolve", "load")
        /\ \/ /\ r.status # "unused"
              /\ job' = [job EXCEPT ![w].pc = "authorise",
                                    ![w].seen = r.status, ![w].target = r.user]
              /\ UNCHANGED <<tables, raced>>
           \/ r.status = "unused" /\ Refuse(w)

MayResolve(j) == HasRole(j.actor, {"owner", "admin"}) /\ j.seen = "pending"

AuthoriseResolve(w) ==
    /\ At(w, "resolve", "authorise")
    /\ \/ MayResolve(job[w]) /\ Goto(w, "check")
       \/ ~MayResolve(job[w]) /\ Refuse(w)

CheckResolve(w) ==
    LET already == job[w].arg = "approved" /\ role[job[w].target] # "none"
    IN  /\ At(w, "resolve", "check")
        /\ \/ ~already /\ Goto(w, "write")
           \/ already /\ Refuse(w)

ResolvedOnly(j) == role
Resolved(j) == IF j.arg = "approved" THEN [role EXCEPT ![j.target] = "member"]
               ELSE role

(* The UPDATE names the row by its key only, then the member is inserted. *)
WriteResolve(w) ==
    LET j == job[w]
        possible == /\ joinRequest[j.req].status # "unused"
                    /\ j.arg = "approved" => CanInsertMember(j.target)
    IN  /\ At(w, "resolve", "write")
        /\ \/ /\ possible
              /\ joinRequest' = [joinRequest EXCEPT ![j.req].status = j.arg]
              /\ role' = Resolved(j)
              /\ Answer(w, "ok")
              /\ UNCHANGED <<group, settings, raced>>
           \/ ~possible /\ Fail(w)

---------------------------------------------------------------------------
Serve(w) ==
    \/ Authorise(w)
    \/ LoadSettings(w) \/ WriteSettings(w)
    \/ WriteDelete(w)
    \/ LoadJoin(w) \/ CheckJoin(w) \/ WriteJoin(w)
    \/ LoadRemove(w) \/ RecheckRemove(w) \/ WriteRemove(w)
    \/ LoadSetRole(w) \/ WriteSetRole(w)
    \/ LoadTransfer(w) \/ WriteTransfer(w)
    \/ LoadRequest(w) \/ CheckRequest(w) \/ PendingRequest(w) \/ WriteRequest(w)
    \/ LoadResolve(w) \/ AuthoriseResolve(w) \/ CheckResolve(w) \/ WriteResolve(w)

Next ==
    \/ \E u \in Users, mode \in JoinModes, listed \in BOOLEAN :
         CreateGroup(u, mode, listed)
    \/ \E w \in Workers : Receive(w) \/ Serve(w) \/ Crash(w)

Spec == Init /\ [][Next]_vars

---------------------------------------------------------------------------
(* What the module promises. *)

Owners == {u \in Users : role[u] = "owner"}

(* A live group has exactly one owner as long as no hand-over has committed  *)
(* between the checks and the writes of another hand-over, or of a role      *)
(* change or removal of the new owner: nothing else, however it interleaves, *)
(* can lose or double the owner (groups/service.py, transfer_ownership).     *)
OneOwnerUnlessRaced ==
    group = "live" /\ ~raced => \E o \in Users : Owners = {o}

(* At most one pending join request per user and group: without the index   *)
(* of models/group.py, ix_join_request_user_group_pending, which no          *)
(* migration creates, this is left to the list of pending requests that      *)
(* _create_request_for_group reads before it inserts.                        *)
PendingAtMostOne == \A i, k \in RequestIds :
    /\ joinRequest[i].status = "pending"
    /\ joinRequest[k].status = "pending"
    /\ joinRequest[i].user = joinRequest[k].user
    => i = k

(* Membership and request rows belong to a group that exists: an insert that *)
(* races the group's deletion leaves no row behind (delete_group, the        *)
(* foreign keys of models/group.py).                                         *)
NoOrphanRows ==
    group = "deleted" => /\ \A u \in Users : role[u] = "none"
                         /\ \A i \in RequestIds : joinRequest[i].status = "unused"

(* The step that approves a request makes the requester a member: no commit  *)
(* separates the two writes of resolve_request, whatever runs beside it.     *)
ApprovedMeansMember == [][\A i \in RequestIds :
    joinRequest[i].status # "approved" /\ joinRequest'[i].status = "approved"
        => role[joinRequest[i].user] = "none"
           /\ role'[joinRequest[i].user] = "member"]_vars

(* A live group loses an admin to the admin's own departure or to the owner  *)
(* only ("admins can remove members, only owner can remove admins").         *)
AdminsRemovedByOwner == [][\A u \in Users :
    role[u] = "admin" /\ role'[u] = "none" /\ group' = "live"
        => \E w \in Workers : /\ At(w, "remove", "write")
                              /\ job[w].target = u
                              /\ job[w].actor \in Owners \cup {u}]_vars

(* What a group promises about its ownership, and that requests served one   *)
(* at a time keep the promise step by step.                                  *)
Ownership == INSTANCE GroupOwnership WITH
    phase <- group,
    owner <- IF Owners = {} THEN NoUser ELSE CHOOSE u \in Users : role[u] = "owner",
    members <- {u \in Users : role[u] # "none"}
OwnershipSpec == Ownership!Spec
=============================================================================
