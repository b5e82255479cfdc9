------------------------------ MODULE AppSession ------------------------------
(***************************************************************************)
(* What the app promises about who is signed in on the device, whatever its *)
(* refreshes and the backend do: the tokens it holds belong to the account *)
(* it shows, they come with a login on the login screen and go with a      *)
(* logout, a forced one included, and those of one account never replace   *)
(* another's.  Nothing is promised any more once the app is disturbed.     *)
(***************************************************************************)
CONSTANTS Accounts, NoAccount

VARIABLES
    shown,      \* the account the app shows, NoAccount on the login screen
    held,       \* the account of the stored tokens, NoAccount without any
    disturbed

vars == <<shown, held, disturbed>>

Init == shown = NoAccount /\ held = NoAccount /\ ~disturbed

LogIn(a) ==
    /\ shown = NoAccount /\ held = NoAccount
    /\ shown' = a /\ held' = a

SignOut == held' = NoAccount /\ shown' = NoAccount

(* The tokens are refused: the app shows the account until it has looked.    *)
LoseTokens == held' = NoAccount /\ shown' = shown

(* The app is closed, and opened again with the tokens it holds. *)
Close == shown' = NoAccount /\ held' = held
Open == shown \in {NoAccount, held} /\ shown' = held /\ held' = held

Next ==
    \/ /\ disturbed' = FALSE /\ ~disturbed
       /\ SignOut \/ LoseTokens \/ Close \/ Open \/ \E a \in Accounts : LogIn(a)
    \/ disturbed'

Spec == Init /\ [][Next]_vars
=============================================================================
