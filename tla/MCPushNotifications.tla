------------------------- MODULE MCPushNotifications -------------------------
(* The instance of PushNotifications for TLC: one member has both devices.   *)
EXTENDS PushNotifications, TLC

CONSTANTS u1, u2, x1, x2

Owner == [x \in {x1, x2} |-> u1]

Symmetry == Permutations(Requests) \cup Permutations(Janitors)
=============================================================================
