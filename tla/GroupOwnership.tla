--------------------------- MODULE GroupOwnership ----------------------------
(***************************************************************************)
(* What a group promises its members about ownership, whatever the API does *)
(* inside: a live group has one owner, who is a member; ownership changes   *)
(* hands in one step, to somebody who is a member already; the owner cannot *)
(* leave; and the group ends by deletion only.                              *)
(***************************************************************************)
CONSTANTS Users, NoUser
VARIABLES phase, owner, members

vars == <<phase, owner, members>>

Init == phase = "absent" /\ owner = NoUser /\ members = {}

Create(u) ==
    /\ phase = "absent"
    /\ phase' = "live"
    /\ owner' = u
    /\ members' = {u}

Admit(u) ==
    /\ phase = "live"
    /\ u \notin members
    /\ members' = members \cup {u}
    /\ UNCHANGED <<phase, owner>>

Depart(u) ==
    /\ phase = "live"
    /\ u \in members \ {owner}
    /\ members' = members \ {u}
    /\ UNCHANGED <<phase, owner>>

HandOver(u) ==
    /\ phase = "live"
    /\ u \in members \ {owner}
    /\ owner' = u
    /\ UNCHANGED <<phase, members>>

Delete ==
    /\ phase = "live"
    /\ phase' = "deleted"
    /\ owner' = NoUser
    /\ members' = {}

Next ==
    \/ \E u \in Users : Create(u) \/ Admit(u) \/ Depart(u) \/ HandOver(u)
    \/ Delete

Spec == Init /\ [][Next]_vars
=============================================================================
