------------------------------- MODULE Planner --------------------------------
(***************************************************************************)
(* The planner of one group: the rows of its sessions with their RSVPs, the  *)
(* requests that change them, the events published after a commit, and the   *)
(* cache of one client, fed by REST answers, live events and reloads         *)
(* (backend/app/api/v1/coordination, lib/.../group_coordination_provider).   *)
(* A ready window is an item nobody answers.                                 *)
(*                                                                           *)
(* A transaction is two steps, its writes and its commit; row locks decide   *)
(* which of them may be open together.  Events of a group arrive in the      *)
(* order they were published; REST answers come whenever they come.  No      *)
(* event carries a version, so some interleavings leave the cache behind;    *)
(* marks records them.                                                       *)
(***************************************************************************)
EXTENDS Naturals, Sequences

CONSTANTS
    Items,
    Users,
    Me,          \* the user of the client; may use other devices, too
    Requests,    \* requests in flight together
    Loads,       \* reloads in flight together
    MaxVal,      \* bounds the updates of an item
    MaxSends,    \* bounds the requests of a behaviour
    MaxInbox     \* bounds the events on their way

ASSUME PlannerAssumption ==
    Items # {} /\ Me \in Users /\ {MaxVal, MaxSends, MaxInbox} \subseteq Nat

VARIABLES
    row,         \* the item in the database
    job,         \* the requests
    inbox,       \* events published and not yet handled by the client
    cache,       \* state.value, or NotLoaded
    pending,     \* pendingRsvpSessionIds
    load,        \* _loadState, by reload: where it is and what it has read
    sends,       \* requests so far, for the bound
    marks        \* history

vars == <<row, job, inbox, cache, pending, load, sends, marks>>

Responses == {"in", "out"}
Rsvps == [Users -> Responses \cup {"none"}]
NoRsvps == [u \in Users |-> "none"]

Entry == [val: 0..MaxVal, rsvp: Rsvps]
Absent == [val |-> 0, rsvp |-> NoRsvps, absent |-> TRUE]
NotLoaded == [i \in {} |-> Absent]
Cache == [Items -> Entry \cup {Absent}]

Operations == {"create", "update", "delete", "rsvp"}
Job == [pc: {"none", "sent", "written", "committed", "published"},
        op: Operations, item: Items, user: Users,
        own: BOOLEAN,     \* sent by the client, which awaits the answer
        writes: BOOLEAN,  \* changes the row, and so locks it
        entry: Entry]     \* what the answer and the event will say

Message == [op: Operations, item: Items, user: Users, entry: Entry]

Marks == {"overlap",  \* a change was committed before an earlier one was told
          "load",     \* something arrived while a reload that had read was out
          "lost"}     \* an event was not published, or not received

TypeOK ==
    /\ row \in [Items -> [status: {"unused", "live", "deleted"}, entry: Entry]]
    /\ job \in [Requests -> Job]
    /\ inbox \in Seq(Message) /\ Len(inbox) <= MaxInbox
    /\ cache \in Cache \cup {NotLoaded}
    /\ pending \in SUBSET Items
    /\ cache = NotLoaded => pending = {}
    /\ load \in [Loads -> [pc: {"none", "asked", "half", "read"}, got: Cache]]
    /\ sends \in 0..MaxSends
    /\ marks \in SUBSET Marks

NewEntry == [val |-> 0, rsvp |-> NoRsvps]
NoLoad == [pc |-> "none", got |-> [i \in Items |-> Absent]]
IdleJob == [pc |-> "none", op |-> "create", item |-> CHOOSE i \in Items : TRUE,
            user |-> Me, own |-> FALSE, writes |-> FALSE, entry |-> NewEntry]

Init ==
    /\ row \in [Items -> [status: {"unused", "live"}, entry: {NewEntry}]]
    /\ job = [r \in Requests |-> IdleJob]
    /\ inbox = <<>>
    /\ cache = NotLoaded
    /\ pending = {}
    /\ load = [l \in Loads |-> NoLoad]
    /\ sends = 0
    /\ marks = {}

---------------------------------------------------------------------------
(* The client's cache.                                                      *)
Upserted(c, e) == [c EXCEPT ![e.item] = e.entry]
Removed(c, e) == [c EXCEPT ![e.item] = Absent]

(* _mergeRsvp: the answer of one user, in a session that is there.          *)
MergedAlone(c, e) ==
    IF c[e.item] = Absent THEN c
    ELSE [c EXCEPT ![e.item].rsvp = [NoRsvps EXCEPT ![e.user] = e.entry.rsvp[e.user]]]
Merged(c, e) ==
    IF c[e.item] = Absent THEN c
    ELSE [c EXCEPT ![e.item].rsvp[e.user] = e.entry.rsvp[e.user]]

Applied(c, e) ==
    CASE e.op \in {"create", "update"} -> Upserted(c, e)
      [] e.op = "delete"               -> Removed(c, e)
      [] e.op = "rsvp"                 -> Merged(c, e)

NotPending(e) == IF e.op \in {"delete", "rsvp"} THEN pending \ {e.item} ELSE pending

(* An answer, or an event, is handled: what comes while a reload that has   *)
(* read is out will be overwritten by it.                                   *)
Handled(e) ==
    /\ cache' = IF cache = NotLoaded THEN cache ELSE Applied(cache, e)
    /\ pending' = NotPending(e)
    /\ marks' = IF \E l \in Loads : load[l].pc \in {"half", "read"}
                THEN marks \cup {"load"} ELSE marks

---------------------------------------------------------------------------
MayAskUnloaded == TRUE
MayAsk == cache # NotLoaded

(* The client sends a request, or somebody else, or Me from elsewhere.      *)
Send(r, op, i, u, own) ==
    /\ job[r].pc = "none"
    /\ own => u = Me /\ MayAsk
    /\ op # "rsvp" => u = Me            \* whose request it is tells nothing apart
    /\ job' = [job EXCEPT ![r] = [pc |-> "sent", op |-> op, item |-> i, user |-> u,
                                  own |-> own, writes |-> FALSE, entry |-> NewEntry]]
    /\ pending' = IF own /\ op = "rsvp" THEN pending \cup {i} ELSE pending
    /\ sends < MaxSends /\ sends' = sends + 1
    /\ UNCHANGED <<row, inbox, cache, load, marks>>

(* Locks that an open transaction holds on the item's row: an update keeps  *)
(* other updates out, an RSVP those of the same user, a deletion everybody. *)
Locked(r, writes) == \E s \in Requests \ {r} :
    /\ job[s].pc = "written" /\ job[s].item = job[r].item
    /\ \/ job[r].op = "delete" \/ job[s].op = "delete"
       \/ /\ writes /\ job[s].writes /\ job[r].op = job[s].op
          /\ job[r].op = "rsvp" => job[r].user = job[s].user

(* A column that is set to the value it has is not written.                 *)
Written(j, response, writes) ==
    CASE j.op = "update" -> IF writes THEN [row[j.item].entry EXCEPT !.val = @ + 1]
                                      ELSE row[j.item].entry
      [] j.op = "rsvp"   -> [NewEntry EXCEPT !.rsvp[j.user] = response]
      [] j.op \in {"create", "delete"} -> NewEntry

(* The statements of the transaction, up to the commit: the answer and the  *)
(* event are made of what they see.                                         *)
Write(r, response, writes) ==
    LET j == job[r]
        old == row[j.item]
    IN
    /\ j.pc = "sent" /\ ~Locked(r, writes)
    /\ old.status = IF j.op = "create" THEN "unused" ELSE "live"
    /\ j.op \in {"create", "delete"} => writes
    /\ j.op = "update" /\ writes => old.entry.val < MaxVal
    /\ j.op = "rsvp" => writes = (old.entry.rsvp[j.user] # response)
    /\ job' = [job EXCEPT ![r].pc = "written", ![r].writes = writes,
                          ![r].entry = Written(j, response, writes)]
    /\ UNCHANGED <<row, inbox, cache, pending, load, marks, sends>>

(* Whether the client may end up with j's news although k is committed      *)
(* later: an item replaces what is there, an RSVP only the user's own.      *)
Overtaken(j, k) ==
    /\ j.item = k.item
    /\ \/ j.op \in {"create", "update"}
       \/ j.op = "rsvp" /\ k.op = "rsvp" /\ j.user = k.user

(* Of a request of the client itself, the answer is still to come.          *)
Untold(j) ==
    \/ j.pc \in {"written", "committed"}
    \/ j.own /\ j.pc = "published"

Commit(r) ==
    LET j == job[r] IN
    /\ j.pc = "written"
    /\ row' = IF ~j.writes THEN row ELSE [row EXCEPT ![j.item] =
          CASE j.op = "create" -> [status |-> "live", entry |-> NewEntry]
            [] j.op = "update" -> [@ EXCEPT !.entry.val = j.entry.val]
            [] j.op = "rsvp"   -> [@ EXCEPT !.entry.rsvp[j.user] = j.entry.rsvp[j.user]]
            [] j.op = "delete" -> [@ EXCEPT !.status = "deleted"]]
    /\ job' = [job EXCEPT ![r].pc = "committed"]
    /\ marks' = IF j.writes /\ \E s \in Requests \ {r} : Untold(job[s]) /\ Overtaken(job[s], j)
                THEN marks \cup {"overlap"} ELSE marks
    /\ UNCHANGED <<inbox, cache, pending, load, sends>>

MayPublishEarly(r) == job[r].pc \in {"written", "committed"}
MayPublish(r) == job[r].pc = "committed"

(* publish_after_commit.  A request of somebody else is over then.          *)
Published(r) == job' = [job EXCEPT ![r] = IF @.own THEN [@ EXCEPT !.pc = "published"] ELSE IdleJob]

Publish(r) ==
    /\ MayPublish(r)
    /\ Len(inbox) < MaxInbox
    /\ Published(r)
    /\ inbox' = Append(inbox, [op |-> job[r].op, item |-> job[r].item,
                               user |-> job[r].user, entry |-> job[r].entry])
    /\ UNCHANGED <<row, cache, pending, load, marks, sends>>

(* Redis or the replica fails, or the client is not connected.              *)
Unheard(r) ==
    /\ MayPublish(r)
    /\ Published(r)
    /\ marks' = marks \cup {"lost"}
    /\ UNCHANGED <<row, inbox, cache, pending, load, sends>>

Answer(r) ==
    /\ job[r].own /\ job[r].pc = "published"
    /\ job' = [job EXCEPT ![r] = IdleJob]
    /\ Handled(job[r])
    /\ UNCHANGED <<row, inbox, load, sends>>

(* The client stops waiting.  Only an RSVP cleans up.                       *)
Failed(r) == IF job[r].own /\ job[r].op = "rsvp" THEN pending \ {job[r].item} ELSE pending

(* The request is refused, or fails before its commit.                      *)
Fail(r) ==
    /\ job[r].pc \in {"sent", "written"}
    /\ job' = [job EXCEPT ![r] = IdleJob]
    /\ pending' = Failed(r)
    /\ UNCHANGED <<row, inbox, cache, load, marks, sends>>

(* The client's timeout, or a lost answer: the backend goes on.             *)
GiveUp(r) ==
    /\ job[r].pc # "none" /\ job[r].own
    /\ job' = [job EXCEPT ![r] = IF @.pc = "published" THEN IdleJob ELSE [@ EXCEPT !.own = FALSE]]
    /\ pending' = Failed(r)
    /\ UNCHANGED <<row, inbox, cache, load, marks, sends>>

(* _handleEvent, which drops what comes before the first load is in.        *)
Deliver ==
    /\ inbox # <<>>
    /\ inbox' = Tail(inbox)
    /\ IF cache = NotLoaded /\ \A l \in Loads : load[l].pc \notin {"half", "read"}
       THEN UNCHANGED <<cache, pending, marks>>
       ELSE Handled(Head(inbox))
    /\ UNCHANGED <<row, job, load, sends>>

---------------------------------------------------------------------------
(* build and refresh: sessions are read first, then their RSVPs.            *)
Load(l) ==
    /\ load[l].pc = "none"
    /\ load' = [load EXCEPT ![l] = [NoLoad EXCEPT !.pc = "asked"]]
    /\ UNCHANGED <<row, job, inbox, cache, pending, marks, sends>>

ListSessions(l) ==
    /\ load[l].pc = "asked"
    /\ load' = [load EXCEPT ![l] =
          [pc |-> "half",
           got |-> [i \in Items |-> IF row[i].status = "live"
                                    THEN [row[i].entry EXCEPT !.rsvp = NoRsvps] ELSE Absent]]]
    /\ UNCHANGED <<row, job, inbox, cache, pending, marks, sends>>

ListRsvps(l) ==
    /\ load[l].pc = "half"
    /\ load' = [load EXCEPT ![l] =
          [pc |-> "read",
           got |-> [i \in Items |->
               IF load[l].got[i] # Absent /\ row[i].status = "live"
               THEN [load[l].got[i] EXCEPT !.rsvp = row[i].entry.rsvp]
               ELSE load[l].got[i]]]]
    /\ UNCHANGED <<row, job, inbox, cache, pending, marks, sends>>

(* The state is replaced as a whole, what it waits for included.            *)
Loaded(l) ==
    /\ load[l].pc = "read"
    /\ cache' = load[l].got /\ pending' = {}
    /\ load' = [load EXCEPT ![l] = NoLoad]
    /\ UNCHANGED <<row, job, inbox, marks, sends>>

LoadFails(l) ==
    /\ load[l].pc # "none"
    /\ load' = [load EXCEPT ![l] = NoLoad]
    /\ UNCHANGED <<row, job, inbox, cache, pending, marks, sends>>

---------------------------------------------------------------------------
Serve(r) ==
    \/ \E response \in Responses, writes \in BOOLEAN : Write(r, response, writes)
    \/ Commit(r) \/ Publish(r) \/ Unheard(r) \/ Answer(r) \/ Fail(r) \/ GiveUp(r)

Reload(l) == ListSessions(l) \/ ListRsvps(l) \/ Loaded(l) \/ LoadFails(l)

Next ==
    \/ \E r \in Requests : Serve(r)
    \/ \E r \in Requests, op \in Operations, i \in Items, u \in Users, own \in BOOLEAN :
          Send(r, op, i, u, own)
    \/ Deliver
    \/ \E l \in Loads : Load(l) \/ Reload(l)

Spec == Init /\ [][Next]_vars

---------------------------------------------------------------------------
Quiet ==
    /\ \A r \in Requests : job[r].pc \in {"none", "sent"}
    /\ inbox = <<>>
    /\ \A l \in Loads : load[l].pc = "none"

(* Whatever answers, events and reloads crossed each other, once all is     *)
(* handled the client shows the rows: RSVPs of different users, an RSVP     *)
(* before an update or a deletion, an answer before or after the event that *)
(* says the same, and events dropped before the first load has read, are    *)
(* all harmless (_handleEvent, _mergeRsvp, _loadState).                     *)
CacheAgrees ==
    Quiet /\ marks = {} /\ cache # NotLoaded =>
        \A i \in Items :
            cache[i] = IF row[i].status = "live" THEN row[i].entry ELSE Absent

(* The client never shows what was not committed, whatever overlaps or      *)
(* fails (publish_after_commit, the routes).                                *)
OnlyCommitted ==
    cache # NotLoaded => \A i \in Items : cache[i] # Absent =>
        /\ row[i].status # "unused"
        /\ cache[i].val <= row[i].entry.val
        /\ \A u \in Users : cache[i].rsvp[u] # "none" => row[i].entry.rsvp[u] # "none"

(* No session stays disabled: one waits for an RSVP only while a request of *)
(* this client for it is out (rsvpToSession, deleteSession).                *)
PendingIsOut == \A i \in pending :
    \E r \in Requests : job[r].pc # "none" /\ job[r].own
                        /\ job[r].op = "rsvp" /\ job[r].item = i
=============================================================================
