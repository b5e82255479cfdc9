-------------------------- MODULE MCGroupMembership --------------------------
(* Users, workers and request ids are interchangeable: each is only compared *)
(* for equality and quantified over as a whole.                             *)
EXTENDS GroupMembership, TLC

MCSymmetry == Permutations(Users) \cup Permutations(Workers)
              \cup Permutations(RequestIds)

(* The bounds of GroupRaces: the group is listed, and role changes and       *)
(* removals meet one join request at most, everything else meets two.       *)
FewRequests ==
    /\ group # "absent" => settings.discoverable
    /\ (\E w \in Workers : job[w].op \in {"setRole", "remove"} /\ InFlight(w))
         => \E i \in RequestIds : joinRequest[i].status = "unused"
=============================================================================
