-------------------------- MODULE PushNotifications --------------------------
(***************************************************************************)
(* Push notifications of one group: the device registrations, the seeded   *)
(* preferences, the dispatch that a change in the group starts, and the    *)
(* daily janitor of stale tokens that every replica runs                   *)
(* (backend/app/notifications, api/v1/notifications/routes.py,             *)
(* jobs/stale_token_janitor.py, the device and preference repositories).   *)
(*                                                                         *)
(* Every one of them has its own database session.  A flushed UPDATE locks *)
(* its row until the transaction ends; what is flushed shows to others     *)
(* when it is committed, which the dispatch never does.                    *)
(***************************************************************************)
EXTENDS FiniteSets, Integers

CONSTANTS
    Members,    \* of the group
    Admins,     \* members whose role is owner or admin
    Going,      \* members who answered "in" or "maybe" to the session
    Devices,    \* (user, FCM token) pairs that can register
    OwnerOf,    \* OwnerOf[x]: the member whose device x is
    Requests,   \* registrations in flight
    Dispatches, \* dispatch tasks
    Janitors,   \* replicas, each with its janitor
    Free        \* the row is not locked

ASSUME PushAssumption ==
    /\ Members # {} /\ Devices # {} /\ IsFiniteSet(Requests)
    /\ Admins \subseteq Members /\ Going \subseteq Members
    /\ OwnerOf \in [Devices -> Members]
    /\ Free \notin Requests \cup Dispatches \cup Janitors
    /\ Janitors \cap (Requests \cup Dispatches) = {}

VARIABLES
    reg,        \* reg[x]: the committed registration of device x
    stale,      \* devices last seen more than 60 days ago
    seeded,     \* seeded[u]: how often the defaults of u were inserted
    lock,       \* lock[x]: the session that has the row of x locked
    req,        \* req[w]: registration w
    disp,       \* disp[d]: dispatch task d
    pass,       \* pass[j]: the pass of janitor j
    excused     \* history: devices that a janitor had listed when they registered,
                \* or whose token FCM did not know, since they last registered

vars == <<reg, stale, seeded, lock, req, disp, pass, excused>>
table == <<reg, stale, seeded, excused>>

Events == {"ready_changed", "session_proposed", "session_updated",
           "join_request_pending"}
Sessions == Requests \cup Dispatches \cup Janitors
Rows == {"none", "active", "revoked"}

Registration == [pc: {"idle", "upsert", "commit"}, dev: Devices, seen: Rows,
                 first: BOOLEAN]
Dispatch == [pc: {"idle", "run"}, event: Events, actor: Members,
             todo: SUBSET Members, left: SUBSET Devices, invalid: SUBSET Devices,
             owed: SUBSET Devices]
Pass == [on: BOOLEAN, left: SUBSET Devices, marked: SUBSET Devices]

TypeOK ==
    /\ reg \in [Devices -> Rows]
    /\ stale \subseteq {x \in Devices : reg[x] # "none"}
    /\ seeded \in [Members -> 0..Cardinality(Requests)]
    /\ lock \in [Devices -> Sessions \cup {Free}]
    /\ req \in [Requests -> Registration]
    /\ disp \in [Dispatches -> Dispatch]
    /\ pass \in [Janitors -> Pass]
    /\ excused \subseteq Devices

NoRequest == [pc |-> "idle", dev |-> CHOOSE x \in Devices : TRUE,
              seen |-> "none", first |-> FALSE]
NoDispatch == [pc |-> "idle", event |-> "ready_changed",
               actor |-> CHOOSE u \in Members : TRUE, todo |-> {}, left |-> {},
               invalid |-> {}, owed |-> {}]
NoPass == [on |-> FALSE, left |-> {}, marked |-> {}]

Init ==
    /\ reg = [x \in Devices |-> "none"]
    /\ stale = {} /\ excused = {}
    /\ seeded = [u \in Members |-> 0]
    /\ lock = [x \in Devices |-> Free]
    /\ req = [w \in Requests |-> NoRequest]
    /\ disp = [d \in Dispatches |-> NoDispatch]
    /\ pass = [j \in Janitors |-> NoPass]

---------------------------------------------------------------------------
Active == {x \in Devices : reg[x] = "active"}
Unlocked(s) == [x \in Devices |-> IF lock[x] = s THEN Free ELSE lock[x]]

(* History: a dispatch owes nothing to a device that went inactive. *)
Dropped(X) == [d \in Dispatches |-> [disp[d] EXCEPT !.owed = @ \ X]]

---------------------------------------------------------------------------
(* POST /device-registrations: upsert looks for the row ... *)
LoadDevice(w, x) ==
    /\ req[w].pc = "idle"
    /\ req' = [req EXCEPT ![w] = [pc |-> "upsert", dev |-> x, seen |-> reg[x],
                                  first |-> FALSE]]
    /\ UNCHANGED <<table, lock, disp, pass>>

(* ... flushes the UPDATE or the INSERT, and asks whether there are         *)
(* preferences.  A row that came or went since the SELECT is an error.     *)
EveryRegistration(u) == TRUE
FirstRegistration(u) == seeded[u] = 0

Upsert(w) ==
    LET x == req[w].dev
    IN  /\ req[w].pc = "upsert"
        /\ lock[x] = Free
        /\ (req[w].seen = "none") = (reg[x] = "none")
        /\ lock' = [lock EXCEPT ![x] = w]
        /\ req' = [req EXCEPT ![w].pc = "commit",
                              ![w].first = FirstRegistration(OwnerOf[x])]
        /\ UNCHANGED <<table, disp, pass>>

(* seed_defaults if there were none. *)
SeededOnReturn(w) == IF req[w].first /\ req[w].seen # "none"
                     THEN [seeded EXCEPT ![OwnerOf[req[w].dev]] = @ + 1] ELSE seeded
SeededAfter(w) == IF req[w].first
                  THEN [seeded EXCEPT ![OwnerOf[req[w].dev]] = @ + 1] ELSE seeded

(* revoked_at is written only if the loaded row had it set. *)
RowAsFound(w) == IF req[w].seen = "none" THEN "active" ELSE reg[req[w].dev]
RowAfter(w) == IF req[w].seen = "active" THEN reg[req[w].dev] ELSE "active"

(* History: a janitor revoked the row since it was loaded, or a dispatch has *)
(* been told that the token is unknown and has yet to write that down.     *)
Crossed(w) == \/ req[w].seen = "active" /\ reg[req[w].dev] = "revoked"
              \/ \E d \in Dispatches : req[w].dev \in disp[d].invalid

(* The commit. *)
Register(w) ==
    LET x == req[w].dev
    IN  /\ req[w].pc = "commit"
        /\ reg' = [reg EXCEPT ![x] = RowAfter(w)]
        /\ stale' = stale \ {x}
        /\ seeded' = SeededAfter(w)
        /\ excused' = (excused \ {x}) \cup {y \in {x} : Crossed(w)}
        /\ lock' = Unlocked(w)
        /\ req' = [req EXCEPT ![w] = NoRequest]
        /\ UNCHANGED <<disp, pass>>

(* The request fails or its replica stops. *)
RequestFails(w) ==
    /\ req[w].pc # "idle"
    /\ req' = [req EXCEPT ![w] = NoRequest]
    /\ lock' = Unlocked(w)
    /\ UNCHANGED <<table, disp, pass>>

(* DELETE /device-registrations/{id} of the owner. *)
DeleteDevice(x) ==
    /\ reg[x] # "none"
    /\ lock[x] = Free
    /\ reg' = [reg EXCEPT ![x] = "none"]
    /\ stale' = stale \ {x}
    /\ excused' = excused \ {x}
    /\ disp' = Dropped({x})
    /\ UNCHANGED <<seeded, lock, req, pass>>

(* 60 days pass without a registration. *)
Age(x) ==
    /\ reg[x] # "none" /\ x \notin stale
    /\ \A w \in Requests : req[w].pc = "idle"
    /\ stale' = stale \cup {x}
    /\ UNCHANGED <<reg, seeded, lock, req, disp, pass, excused>>

---------------------------------------------------------------------------
(* should_notify and evaluate_conditions, with the preferences there can    *)
(* be: none, or the defaults.  Nothing in the API changes or mutes one, or *)
(* sets quiet hours.                                                       *)
Meets(u, e) ==
    /\ e = "session_updated" => u \in Going
    /\ e = "join_request_pending" => u \in Admins

Eligible(x, e, a) == OwnerOf[x] # a /\ Meets(OwnerOf[x], e)

(* enqueue_notification, dispatch_notification: the members are listed.     *)
(* Nothing asks who is online; the documents make those who are not the     *)
(* audience of a ready_changed (2026-06-13-push-notifications-design.md:    *)
(* 153).  History: what is owed is what code and documents agree on.        *)
OthersOnline(e, a) == IF e = "ready_changed" THEN SUBSET (Members \ {a}) ELSE {{}}

StartDispatch(d, e, a) == \E on \in OthersOnline(e, a) :
    /\ disp[d].pc = "idle"
    /\ disp' = [disp EXCEPT ![d] =
                  [pc |-> "run", event |-> e, actor |-> a,
                   todo |-> Members, left |-> {}, invalid |-> {},
                   owed |-> {x \in Active : Eligible(x, e, a) /\ OwnerOf[x] \notin on}]]
    /\ UNCHANGED <<table, lock, req, pass>>

ShouldNotifyAnyone(d, u) == u # disp[d].actor
ShouldNotify(d, u) ==
    /\ u # disp[d].actor
    /\ seeded[u] = 0 \/ Meets(u, disp[d].event)

(* The next member: get_for_user_event finds at most one preference, and    *)
(* the devices of a member to notify are listed.                           *)
Consider(d, u) ==
    /\ disp[d].pc = "run" /\ disp[d].left = {} /\ disp[d].invalid = {}
    /\ u \in disp[d].todo
    /\ seeded[u] <= 1
    /\ disp' = [disp EXCEPT ![d].todo = @ \ {u},
                            ![d].left = IF ShouldNotify(d, u)
                                        THEN {x \in Active : OwnerOf[x] = u} ELSE {}]
    /\ UNCHANGED <<table, lock, req, pass>>

(* Two: MultipleResultsFound ends the whole dispatch. *)
Duplicated(d, u) ==
    /\ disp[d].pc = "run" /\ disp[d].left = {} /\ disp[d].invalid = {}
    /\ u \in disp[d].todo
    /\ seeded[u] > 1
    /\ disp' = [disp EXCEPT ![d] = NoDispatch]
    /\ lock' = Unlocked(d)
    /\ UNCHANGED <<table, req, pass>>

(* send_push: FCM may not know the token any more, then it has to be        *)
(* revoked; any other failure is logged.                                   *)
Send(d, x) == \E unknown \in {{}, {x}} :
    /\ disp[d].pc = "run" /\ disp[d].invalid = {}
    /\ x \in disp[d].left
    /\ disp' = [disp EXCEPT ![d].left = @ \ {x}, ![d].owed = @ \ {x},
                            ![d].invalid = unknown]
    /\ excused' = excused \cup unknown
    /\ UNCHANGED <<reg, stale, seeded, lock, req, pass>>

(* revoke_by_token: flushed, and the row locked, if it is still active.     *)
RevokeByToken(d, x) ==
    /\ disp[d].pc = "run" /\ disp[d].invalid = {x}
    /\ reg[x] = "active" => lock[x] \in {Free, d}
    /\ lock' = IF reg[x] = "active" THEN [lock EXCEPT ![x] = d] ELSE lock
    /\ disp' = [disp EXCEPT ![d].invalid = {}]
    /\ UNCHANGED <<table, req, pass>>

(* The session closes without a commit: the revocations are rolled back.    *)
AtItsEnd(d) == /\ disp[d].pc = "run"
               /\ disp[d].todo = {} /\ disp[d].left = {} /\ disp[d].invalid = {}

EndDispatch(d) ==
    /\ AtItsEnd(d)
    /\ disp' = [disp EXCEPT ![d] = NoDispatch]
    /\ lock' = Unlocked(d)
    /\ UNCHANGED <<table, req, pass>>

(* The replica stops, or a query fails, or the database ends a deadlock at  *)
(* its cost: the notification is lost.                                     *)
DispatchFails(d) ==
    /\ disp[d].pc = "run"
    /\ disp' = [disp EXCEPT ![d] = NoDispatch]
    /\ lock' = Unlocked(d)
    /\ UNCHANGED <<table, req, pass>>

---------------------------------------------------------------------------
(* run_stale_token_janitor_once: list_stale ... *)
ListStale(j) ==
    /\ ~pass[j].on
    /\ Active \cap stale # {}
    /\ pass' = [pass EXCEPT ![j] = [on |-> TRUE, left |-> Active \cap stale,
                                    marked |-> {}]]
    /\ UNCHANGED <<table, lock, req, disp>>

(* ... then revoke each by its id; a row that is gone is skipped, one that   *)
(* was seen since is not.                                                  *)
Revoke(j, x) ==
    /\ pass[j].on
    /\ x \in pass[j].left
    /\ IF reg[x] = "none"
       THEN /\ pass' = [pass EXCEPT ![j].left = @ \ {x}]
            /\ lock' = lock
       ELSE /\ lock[x] = Free
            /\ pass' = [pass EXCEPT ![j].left = @ \ {x}, ![j].marked = @ \cup {x}]
            /\ lock' = [lock EXCEPT ![x] = j]
    /\ UNCHANGED <<table, req, disp>>

CommitPass(j) ==
    LET X == pass[j].marked
    IN  /\ pass[j].on /\ pass[j].left = {}
        /\ reg' = [x \in Devices |-> IF x \in X THEN "revoked" ELSE reg[x]]
        /\ excused' = excused \cup (X \ stale)
        /\ lock' = Unlocked(j)
        /\ disp' = Dropped(X)
        /\ pass' = [pass EXCEPT ![j] = NoPass]
        /\ UNCHANGED <<stale, seeded, req>>

(* One failed flush fails the commit of the whole pass: the row is gone, or  *)
(* the janitor and a dispatch, or two janitors, wait for each other's rows *)
(* and the database picks a victim.                                        *)
PassFails(j) ==
    /\ pass[j].on
    /\ pass' = [pass EXCEPT ![j] = NoPass]
    /\ lock' = Unlocked(j)
    /\ UNCHANGED <<table, req, disp>>

---------------------------------------------------------------------------
Run(d) == \/ \E u \in Members : Consider(d, u) \/ Duplicated(d, u)
          \/ \E x \in Devices : Send(d, x) \/ RevokeByToken(d, x)
          \/ EndDispatch(d)

Next ==
    \/ \E w \in Requests : \/ \E x \in Devices : LoadDevice(w, x)
                           \/ Upsert(w) \/ Register(w) \/ RequestFails(w)
    \/ \E x \in Devices : DeleteDevice(x) \/ Age(x)
    \/ \E d \in Dispatches : \/ \E e \in Events, a \in Members : StartDispatch(d, e, a)
                             \/ Run(d) \/ DispatchFails(d)
    \/ \E j \in Janitors : \/ \E x \in Devices : Revoke(j, x)
                           \/ ListStale(j) \/ CommitPass(j) \/ PassFails(j)

Spec == Init /\ [][Next]_vars

---------------------------------------------------------------------------
(* What the module promises. *)

(* A dispatch that came to its end tried every device that was registered   *)
(* all along, whose owner meets the condition of the event and, for a       *)
(* ready_changed, was offline; and it tried no device of the actor or of a *)
(* member who does not meet it: whatever registered, was deleted or        *)
(* revoked, or failed meanwhile.                                            *)
AllTried == \A d \in Dispatches :
    /\ AtItsEnd(d) => disp[d].owed = {}
    /\ \A x \in disp[d].left : Eligible(x, disp[d].event, disp[d].actor)

(* A registration that was seen within 60 days is active, unless a janitor  *)
(* had listed it while it registered or FCM did not know its token, until  *)
(* it registers again: a failed or late dispatch or pass takes no device    *)
(* away.                                                                    *)
FreshIsActive == \A x \in Devices \ (stale \cup excused) : reg[x] # "revoked"

(* No device is registered before its owner has the default conditions:     *)
(* without them evaluate_conditions lets every event through.  A request    *)
(* that finds some inserts none, and the one that inserted them may fail.   *)
DefaultsSeeded == \A x \in Devices : reg[x] # "none" => seeded[OwnerOf[x]] >= 1
=============================================================================
