--------------------------- MODULE AccountDirectory ---------------------------
(***************************************************************************)
(* What the service promises about the external accounts people sign in    *)
(* with, whatever its requests do inside: one signs in to one account; it  *)
(* comes to an account with its registration, or because its user asked    *)
(* for the link while nobody else had it; it never passes from one user to *)
(* another; it is given up for another one of the same provider, or is     *)
(* unlinked, and then it comes back by such a link only.  An external      *)
(* account in exempt is one the service promises nothing about any more.   *)
(***************************************************************************)
CONSTANTS Users, Providers

VARIABLES
    accounts,   \* users that have registered
    signs,      \* signs[x]: the accounts external account x signs in to
    blocked,    \* external accounts that were unlinked
    asked,      \* <<u, x>>: user u asks for a link to x (an input)
    exempt

vars == <<accounts, signs, blocked, asked, exempt>>

Externals == UNION Providers
Peers(x) == UNION {P \in Providers : x \in P}

Init ==
    /\ accounts = {}
    /\ signs = [x \in Externals |-> {}]
    /\ blocked = {} /\ asked = {} /\ exempt = {}

(* From now on s says who signs in to what and b what is blocked. *)
Keeps(s, b) ==
    /\ signs' = [x \in Externals |-> IF x \in exempt' THEN {} ELSE s[x]]
    /\ blocked' = b \ exempt'

SignUp(u, X) ==
    /\ u \notin accounts
    /\ \A x \in X : signs[x] = {} /\ x \notin blocked
    /\ accounts' = accounts \cup {u}
    /\ Keeps([x \in Externals |-> IF x \in X THEN {u} ELSE signs[x]], blocked)

Link(u, x) ==
    /\ u \in accounts /\ <<u, x>> \in asked
    /\ signs[x] \subseteq {u}
    /\ accounts' = accounts
    /\ Keeps([y \in Externals |-> IF y = x THEN {u}
                                  ELSE IF y \in Peers(x) THEN signs[y] \ {u} ELSE signs[y]],
             blocked \ {x})

Unlink(u, P) ==
    LET gone == {x \in P : u \in signs[x]}
    IN  /\ accounts' = accounts
        /\ Keeps([x \in Externals |-> IF x \in gone THEN {} ELSE signs[x]], blocked \cup gone)

Rest == accounts' = accounts /\ Keeps(signs, blocked)

Next ==
    /\ exempt \subseteq exempt'
    /\ \/ Rest
       \/ \E u \in Users : \/ SignUp(u, {})
                           \/ \E x \in Externals : SignUp(u, {x}) \/ Link(u, x)
                           \/ \E P \in Providers : Unlink(u, P)

Spec == Init /\ [][Next]_vars
=============================================================================
