----------------------------- MODULE ReadyStatus ------------------------------
(***************************************************************************)
(* The ready flag of one user in one group: the set of ready users and the  *)
(* expiring key in Redis, the commands that toggle it, and the sweeps and   *)
(* snapshots that clear it when it has expired (backend/app/redis/          *)
(* status_store.py, ws/handlers.py, ws/manager.py).  Flags of other users   *)
(* and groups are handled one after the other and share nothing.            *)
(*                                                                          *)
(* Every Redis command is an await, so every command is a step.             *)
(***************************************************************************)
CONSTANTS
    Togglers,   \* sockets on which the user sends ready_toggle
    Sweepers,   \* sweep loops, one per replica
    Connectors  \* sockets of members of the group that connect

Processes == Togglers \cup Sweepers \cup Connectors

ASSUME ReadyAssumption ==
    /\ Togglers \cap (Sweepers \cup Connectors) = {}
    /\ Sweepers \cap Connectors = {}

VARIABLES
    listed,     \* group:{g}:ready_users holds the user
    key,        \* group:{g}:ready:{u}: absent, in force, or past expires_at
    told,       \* what the last ready_changed event of the group said
    recent,     \* processes that were in a handler when the key was set
    proc,       \* proc[p]: where p is in its handler
    overlapped  \* history: a handler started while another was running

readyVars == <<listed, key, told, recent, proc, overlapped>>
store == <<listed, key, recent>>

Rounds == {"sweep", "silent", "list"}
Steps == {"idle", "sadd", "setex", "sayReady", "srem", "delete", "sayCleared",
          "scan", "get", "drop", "clear", "erase", "sayExpired"}

ReadyTypeOK ==
    /\ listed \in BOOLEAN
    /\ key \in {"none", "live", "stale"}
    /\ told \in BOOLEAN
    /\ recent \in SUBSET Processes
    /\ overlapped \in BOOLEAN
    /\ proc \in [Processes -> [pc: Steps, round: Rounds]]
    /\ \A p \in Processes \ Connectors : proc[p].round = "sweep"

ReadyInit ==
    /\ listed = FALSE
    /\ key = "none"
    /\ told = FALSE
    /\ recent = {}
    /\ overlapped = FALSE
    /\ proc = [p \in Processes |-> [pc |-> "idle", round |-> "sweep"]]

---------------------------------------------------------------------------
InHandler == {p \in Processes : proc[p].pc # "idle"}
StartHandler(p) ==
    /\ proc[p].pc = "idle"
    /\ overlapped' = (overlapped \/ InHandler # {})

Goto(p, pc) == proc' = [proc EXCEPT ![p].pc = pc]
Step(p, from, to) == proc[p].pc = from /\ Goto(p, to)

Finish(p) ==
    /\ proc' = [proc EXCEPT ![p] = [pc |-> "idle", round |-> "sweep"]]
    /\ recent' = recent \ {p}

(* A connect sweeps, and its snapshot sweeps again before it lists the      *)
(* members; a sweep loop only sweeps.                                       *)
LastRound(p) == p \in Sweepers \/ proc[p].round = "list"

NextRound(p) ==
    LET after == IF proc[p].round = "sweep" THEN "silent" ELSE "list"
    IN  \/ LastRound(p) /\ Finish(p)
        \/ /\ ~LastRound(p)
           /\ proc' = [proc EXCEPT ![p] = [pc |-> "scan", round |-> after]]
           /\ UNCHANGED recent

(* handle_message, ready_toggle with ready = true                           *)
Toggle(p) ==
    /\ StartHandler(p)
    /\ Goto(p, "sadd") \/ Goto(p, "srem")
    /\ UNCHANGED <<store, told>>

Sadd(p) ==
    /\ Step(p, "sadd", "setex")
    /\ listed' = TRUE
    /\ UNCHANGED <<key, recent, told>>

Setex(p) ==
    /\ Step(p, "setex", "sayReady")
    /\ key' = "live"
    /\ recent' = InHandler
    /\ UNCHANGED <<listed, told>>

SayReady(p) ==
    /\ proc[p].pc = "sayReady"
    /\ told' = TRUE
    /\ Finish(p)
    /\ UNCHANGED <<listed, key>>

(* ready_toggle with ready = false: clear_group_ready, then the event       *)
Srem(p) ==
    /\ Step(p, "srem", "delete")
    /\ listed' = FALSE
    /\ UNCHANGED <<key, recent, told>>

Delete(p) ==
    /\ Step(p, "delete", "sayCleared")
    /\ key' = "none"
    /\ UNCHANGED <<listed, recent, told>>

SayCleared(p) ==
    /\ proc[p].pc = "sayCleared"
    /\ told' = FALSE
    /\ Finish(p)
    /\ UNCHANGED <<listed, key>>

---------------------------------------------------------------------------
(* A round of a sweep: sweep_expired_ready, or the member list of a         *)
(* snapshot, which names the user also when only the online set does.       *)
Begin(p) ==
    /\ StartHandler(p)
    /\ proc' = [proc EXCEPT ![p] = [pc |-> "scan", round |-> "sweep"]]
    /\ UNCHANGED <<store, told>>

Scan(p) ==
    /\ proc[p].pc = "scan"
    /\ \/ /\ listed \/ proc[p].round = "list"
          /\ Goto(p, "get")
          /\ UNCHANGED recent
       \/ /\ ~listed
          /\ NextRound(p)
    /\ UNCHANGED <<listed, key, told>>

(* get_group_ready: a missing key drops the user from the set, a key past   *)
(* its expires_at is cleared, set first.                                    *)
Expired == key = "stale"

Get(p) ==
    /\ proc[p].pc = "get"
    /\ \/ key = "none" /\ Goto(p, "drop") /\ UNCHANGED recent
       \/ Expired /\ Goto(p, "clear") /\ UNCHANGED recent
       \/ key # "none" /\ ~Expired /\ NextRound(p)
    /\ UNCHANGED <<listed, key, told>>

(* Only sweep_all_groups publishes what it cleared.                         *)
Mute(p) == FALSE
Loud(p) == proc[p].round = "sweep"

Cleared(p) ==
    \/ Loud(p) /\ Goto(p, "sayExpired") /\ UNCHANGED recent
    \/ ~Loud(p) /\ NextRound(p)

StillListed == listed
Unlisted == FALSE

Drop(p) ==
    /\ proc[p].pc = "drop"
    /\ listed' = Unlisted
    /\ Cleared(p)
    /\ UNCHANGED <<key, told>>

Clear(p) ==
    /\ Step(p, "clear", "erase")
    /\ listed' = FALSE
    /\ UNCHANGED <<key, recent, told>>

Erase(p) ==
    /\ proc[p].pc = "erase"
    /\ key' = "none"
    /\ Cleared(p)
    /\ UNCHANGED <<listed, told>>

SayExpired(p) ==
    /\ proc[p].pc = "sayExpired"
    /\ told' = FALSE
    /\ NextRound(p)
    /\ UNCHANGED <<listed, key>>

---------------------------------------------------------------------------
(* Eight hours pass.  No handler runs that long: those that were running    *)
(* when the key was set have finished.  expires_at is computed before the   *)
(* TTL starts, so the key outlives it for a moment.                         *)
Age ==
    /\ key = "live" /\ recent = {}
    /\ key' = "stale"
    /\ UNCHANGED <<listed, told, recent, proc>>

Vanish ==
    /\ key = "stale"
    /\ key' = "none"
    /\ UNCHANGED <<listed, told, recent, proc>>

Handle(p) ==
    \/ Sadd(p) \/ Setex(p) \/ SayReady(p)
    \/ Srem(p) \/ Delete(p) \/ SayCleared(p)
    \/ Scan(p) \/ Get(p) \/ Drop(p) \/ Clear(p) \/ Erase(p) \/ SayExpired(p)

ReadyNext ==
    \/ \E p \in Togglers : Toggle(p)
    \/ \E p \in Sweepers \cup Connectors : Begin(p)
    \/ /\ (\E p \in Processes : Handle(p)) \/ Age \/ Vanish
       /\ UNCHANGED overlapped

ReadySpec == ReadyInit /\ [][ReadyNext]_readyVars

(* The event loops run, Redis expires keys, and the sweep loop comes round  *)
(* every minute as long as somebody of the group is connected.  Toggles and *)
(* connects need not come.                                                  *)
ReadyFairSpec ==
    /\ ReadySpec
    /\ WF_readyVars(Vanish /\ UNCHANGED overlapped)
    /\ \A p \in Processes : WF_readyVars(Handle(p) /\ UNCHANGED overlapped)
    /\ \A p \in Sweepers : WF_readyVars(Begin(p))

---------------------------------------------------------------------------
(* Under the same condition a flag in force has been announced, and one     *)
(* that was announced as cleared is not in the store any more.              *)
ReadyAnnounced == InHandler = {} /\ ~overlapped =>
    /\ key = "live" => told
    /\ ~told => key = "none" /\ ~listed

(* And the event of a sweep tells the group something new: "A ready_changed *)
(* event represents only a real ready transition" (sweep_all_groups).       *)
SweepTellsTransition == [][\A p \in Processes :
    ~overlapped /\ proc[p].pc = "sayExpired" /\ proc'[p].pc # "sayExpired"
        => told]_readyVars

(* However handlers interleave, a user whose flag is gone does not stay in  *)
(* the set of ready users: a sweep drops them, or the user is ready again.  *)
StaleEntriesGo == listed /\ key = "none" ~> ~listed \/ key # "none"

(* However handlers interleave, a sweep that has cleared the flag tells the *)
(* group (sweep_all_groups).                                                *)
ExpiryTold == \A p \in Processes :
    proc[p].pc \in {"drop", "erase"} /\ proc[p].round = "sweep" ~> ~told
=============================================================================
