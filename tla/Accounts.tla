------------------------------- MODULE Accounts -------------------------------
(***************************************************************************)
(* Accounts and the external identities that can sign in to them           *)
(* (backend/app/api/v1/auth/service.py, api/v1/users/service.py,           *)
(* api/v1/user_response.py, the user, identity and revoked-link            *)
(* repositories).                                                          *)
(*                                                                         *)
(* A link of Steam or Apple is kept twice: in a column of the user and as  *)
(* an identity row; a link of Discord has only the row.  A request reads   *)
(* rows at READ COMMITTED, awaits a provider or further queries, and       *)
(* writes from what it holds; the writes and the commit are one step.  The *)
(* user loaded by get_current_user is never read again by the request.     *)
(***************************************************************************)
EXTENDS FiniteSets, Integers

CONSTANTS
    Users,      \* accounts that can exist (bounds the registrations)
    NoUser,
    Steam,      \* external accounts of each login provider
    Apple,
    Discord,
    Manual,     \* providers with an entry typed in by hand
    Requests    \* requests in flight

ASSUME AccountsAssumption ==
    /\ NoUser \notin Users
    /\ IsFiniteSet(Steam \cup Apple \cup Discord)
    /\ Steam \cap Apple = {} /\ Steam \cap Discord = {} /\ Apple \cap Discord = {}
    /\ Manual \cap (Steam \cup Apple \cup Discord) = {}

VARIABLES
    live,       \* accounts that exist
    password,   \* accounts with an email and a password
    column,     \* column[u]: what users.steam_id and users.apple_id hold
    identity,   \* identity[u]: the rows of provider_identities
    revoked,    \* external accounts with a row in revoked_auth_links
    job,        \* job[w]: where request w is, and what it holds
    raced,      \* history: external accounts two overlapping requests were about
    crowded     \* history: accounts two of whose unlinks overlapped

vars == <<live, password, column, identity, revoked, job, raced, crowded>>

Legacy == Steam \cup Apple
Externals == Legacy \cup Discord
Providers == {Steam, Apple, Discord}

Ops == {"idle", "login", "link", "linkWrite", "unlink", "unlinkWrite",
        "profile", "profileWrite"}
Job == [op: Ops, user: Users \cup {NoUser}, provider: SUBSET Externals,
        about: SUBSET Externals, held: SUBSET Legacy, listed: SUBSET Externals]

TypeOK ==
    /\ live \subseteq Users /\ password \subseteq live
    /\ column \in [Users -> SUBSET Legacy]
    /\ identity \in [Users -> SUBSET (Externals \cup Manual)]
    /\ \A u \in Users : \A P \in Providers : /\ Cardinality(column[u] \cap P) <= 1
                                             /\ Cardinality(identity[u] \cap P) <= 1
    /\ \A u \in Users \ live : column[u] = {} /\ identity[u] = {}
    /\ revoked \subseteq Externals
    /\ job \in [Requests -> Job]
    /\ raced \subseteq Externals /\ crowded \subseteq Users

Idle == [op |-> "idle", user |-> NoUser, provider |-> {}, about |-> {},
         held |-> {}, listed |-> {}]

Init ==
    /\ live = {} /\ password = {} /\ revoked = {}
    /\ column = [u \in Users |-> {}]
    /\ identity = [u \in Users |-> {}]
    /\ job = [w \in Requests |-> Idle]
    /\ raced = {} /\ crowded = {}

---------------------------------------------------------------------------
Peers(x) == UNION {P \in Providers : x \in P}

(* ProviderIdentityRepository.upsert of one row per provider, and likewise  *)
(* an assignment to the column.                                            *)
Put(S, X) == {s \in S : \A x \in X : s \notin Peers(x)} \cup X

Owners(x) == {u \in Users : x \in column[u]}
Holders(x) == {u \in Users : x \in identity[u]}
Own(u) == column[u] \cup (identity[u] \cap Externals)

(* users.steam_id and users.apple_id are unique.  provider_identities is    *)
(* unique by user and provider only.                                       *)
Unique(u, x) == Owners(x) \subseteq {u}

(* Two requests about the same external account, or about the same provider *)
(* of the same user.                                                       *)
Conflict(v, w) ==
    \/ job[v].about \cap job[w].about # {}
    \/ /\ job[v].user = job[w].user /\ job[v].user # NoUser
       /\ job[v].provider \cap job[w].provider # {}

Rivals(w) == {v \in Requests \ {w} : Conflict(v, w)}

(* What every step that writes does besides: it is over, and notes its race *)
(* (both requests are still in flight when the first of them writes).      *)
Done(w) ==
    /\ job' = [job EXCEPT ![w] = Idle]
    /\ raced' = raced \cup UNION {job[v].about \cup job[w].about : v \in Rivals(w)}

---------------------------------------------------------------------------
(* register: the address is not in use. *)
Register(u) ==
    /\ u \notin live
    /\ live' = live \cup {u} /\ password' = password \cup {u}
    /\ UNCHANGED <<column, identity, revoked, job, raced, crowded>>

(* set_email_password: refused when there is one already. *)
SetPassword(u) ==
    /\ u \in live \ password
    /\ password' = password \cup {u}
    /\ UNCHANGED <<live, column, identity, revoked, job, raced, crowded>>

(* steam_auth, discord_auth, apple_auth: the owner of the column, else the  *)
(* owner of the identity row; an unlinked account may not come back by     *)
(* itself.  Two rows of the same identity make the query raise.            *)
LookUp(w, x) ==
    LET found == IF Owners(x) # {} THEN Owners(x) ELSE Holders(x)
    IN  /\ job[w].op = "idle"
        /\ Cardinality(Holders(x)) <= 1
        /\ found = {} => x \notin revoked
        /\ \E u \in Users \cup {NoUser} :
             /\ IF found = {} THEN u = NoUser ELSE u \in found
             /\ job' = [job EXCEPT ![w] =
                  [op |-> "login", user |-> u, provider |-> Peers(x), about |-> {x},
                   held |-> IF u = NoUser THEN {} ELSE column[u] \cap Peers(x),
                   listed |-> {}]]
        /\ UNCHANGED <<live, password, column, identity, revoked, raced, crowded>>

CreateUnsaved(w, u, x) ==
    /\ job[w].op = "login" /\ job[w].user = NoUser /\ job[w].about = {x}
    /\ u \notin live
    /\ Unique(u, x)
    /\ identity' = [identity EXCEPT ![u] = {x}]
    /\ Done(w)
    /\ UNCHANGED <<live, password, column, revoked, crowded>>

(* The provider's profile is there, the account is new. *)
CreateAccount(w, u, x) ==
    /\ job[w].op = "login" /\ job[w].user = NoUser /\ job[w].about = {x}
    /\ u \notin live
    /\ Unique(u, x)
    /\ live' = live \cup {u}
    /\ column' = [column EXCEPT ![u] = {x} \cap Legacy]
    /\ identity' = [identity EXCEPT ![u] = {x}]
    /\ revoked' = revoked \ ({x} \cap Discord)
    /\ Done(w)
    /\ UNCHANGED <<password, crowded>>

(* Only Steam fills in the column of an account found by its identity, only *)
(* Discord drops the revoked row.                                          *)
LogIn(w, u, x) ==
    /\ job[w].op = "login" /\ job[w].user = u /\ job[w].about = {x}
    /\ LET fill == x \in Steam \ job[w].held
       IN  /\ fill => Unique(u, x)
           /\ column' = [column EXCEPT ![u] = IF fill THEN Put(@, {x}) ELSE @]
    /\ identity' = [identity EXCEPT ![u] = Put(@, {x})]
    /\ revoked' = revoked \ ({x} \cap Discord)
    /\ Done(w)
    /\ UNCHANGED <<live, password, crowded>>

---------------------------------------------------------------------------
(* get_current_user: the user is loaded with its columns. *)
Load(w, u, op, P, about) ==
    /\ job[w].op = "idle"
    /\ u \in live
    /\ job' = [job EXCEPT ![w] = [op |-> op, user |-> u, provider |-> P,
                                  about |-> about, held |-> column[u] \cap P, listed |-> {}]]
    /\ UNCHANGED <<live, password, column, identity, revoked, raced, crowded>>

Step(w, op, about, listed) ==
    /\ job' = [job EXCEPT ![w] =
         [op |-> op, user |-> @.user, provider |-> @.provider, about |-> about,
          held |-> @.held, listed |-> listed]]
    /\ UNCHANGED <<live, password, column, identity, revoked, raced, crowded>>

CheckColumnOnly(w, x) ==
    /\ job[w].op = "link" /\ job[w].about = {x}
    /\ Owners(x) \subseteq {job[w].user}
    /\ Step(w, "linkWrite", {x}, {})

(* link_steam, link_apple, link_discord: nobody else may have it ... *)
CheckLink(w, x) ==
    /\ job[w].op = "link" /\ job[w].about = {x}
    /\ Owners(x) \cup Holders(x) \subseteq {job[w].user}
    /\ Step(w, "linkWrite", {x}, {})

LinkRowOnly(w, u, x) ==
    /\ job[w].op = "linkWrite" /\ job[w].user = u /\ job[w].about = {x}
    /\ identity' = [identity EXCEPT ![u] = Put(@, {x})]
    /\ revoked' = revoked \ {x}
    /\ Done(w)
    /\ UNCHANGED <<live, password, column, crowded>>

(* ... then the column, the row, and no revoked row any more.  Assigning    *)
(* the value the loaded user already has emits no UPDATE.                  *)
Link(w, u, x) ==
    /\ job[w].op = "linkWrite" /\ job[w].user = u /\ job[w].about = {x}
    /\ LET fill == x \in Legacy \ job[w].held
       IN  /\ fill => Unique(u, x)
           /\ column' = [column EXCEPT ![u] = IF fill THEN Put(@, {x}) ELSE @]
    /\ identity' = [identity EXCEPT ![u] = Put(@, {x})]
    /\ revoked' = revoked \ {x}
    /\ Done(w)
    /\ UNCHANGED <<live, password, crowded>>

---------------------------------------------------------------------------
(* _count_auth_methods of unlink_steam, unlink_apple, unlink_discord: the   *)
(* password, and the rows whose provider supports login.                   *)
CountAll(u) == Cardinality(identity[u]) + (IF u \in password THEN 1 ELSE 0)
AuthMethods(u) == Cardinality(identity[u] \cap Externals)
                  + (IF u \in password THEN 1 ELSE 0)

Count(w, u) ==
    /\ job[w].op = "unlink" /\ job[w].user = u
    /\ AuthMethods(u) > 1
    /\ Step(w, "unlinkWrite", job[w].about, identity[u] \cap Discord)

(* What is unlinked: the column the request loaded, or the Discord row as   *)
(* it was listed, if it is still there.  Nothing: the handler returns.     *)
ToUnlink(w, u) ==
    LET row == identity[u] \cap Discord
        listed == job[w].listed \cap Discord
    IN  IF job[w].provider # Discord THEN job[w].held \cap job[w].provider
        ELSE IF row = {} \/ listed = {} THEN row ELSE listed

Unlink(w, u) ==
    LET P == job[w].provider
    IN  /\ job[w].op = "unlinkWrite" /\ job[w].user = u
        /\ ToUnlink(w, u) # {}
        /\ column' = [column EXCEPT ![u] = @ \ P]
        /\ revoked' = revoked \cup ToUnlink(w, u)
        /\ identity' = [identity EXCEPT ![u] = @ \ P]
        /\ crowded' = crowded \cup
             {v \in {u} : \E q \in Requests \ {w} :
                job[q].op = "unlinkWrite" /\ job[q].user = v}
        /\ Done(w)
        /\ UNCHANGED <<live, password>>

---------------------------------------------------------------------------
(* GET /users/me: sync_legacy_provider_identities inserts the row a loaded  *)
(* column lacks; refresh_stale_official_identities lists the rows, asks the *)
(* providers of those a day old, and upserts them.  GET /users/{id}: only  *)
(* the sync, of the user looked at; like a refresh with nothing stale.     *)
List(w, u) ==
    /\ job[w].op = "profile" /\ job[w].user = u
    /\ LET missing == {x \in job[w].held : identity[u] \cap Peers(x) = {}}
       IN  \E stale \in SUBSET ((identity[u] \cup missing) \cap (Steam \cup Discord)) :
             /\ missing \cup stale # {}
             /\ Step(w, "profileWrite", job[w].about \cup stale, missing \cup stale)

SaveProfile(w, u) ==
    /\ job[w].op = "profileWrite" /\ job[w].user = u
    /\ identity' = [identity EXCEPT ![u] = Put(@, job[w].listed)]
    /\ Done(w)
    /\ UNCHANGED <<live, password, column, revoked, crowded>>

(* upsert_manual_social_identity, delete_manual_social_identity: entries of *)
(* the providers that do not support login.                                *)
PutManual(u, m) ==
    /\ u \in live
    /\ identity' = [identity EXCEPT ![u] = @ \cup {m}]
    /\ UNCHANGED <<live, password, column, revoked, job, raced, crowded>>

DeleteManual(u, m) ==
    /\ u \in live
    /\ identity' = [identity EXCEPT ![u] = @ \ {m}]
    /\ UNCHANGED <<live, password, column, revoked, job, raced, crowded>>

(* Refused, nothing to do, a provider that does not answer, a constraint,   *)
(* a client that goes or a replica that stops: all is rolled back.         *)
Abort(w) ==
    /\ job[w].op # "idle"
    /\ job' = [job EXCEPT ![w] = Idle]
    /\ UNCHANGED <<live, password, column, identity, revoked, raced, crowded>>

---------------------------------------------------------------------------
Serve(w) ==
    \/ Abort(w)
    \/ \E x \in Externals :
         LookUp(w, x) \/ CheckLink(w, x) \/ \E u \in Users :
           CreateAccount(w, u, x) \/ LogIn(w, u, x) \/ Link(w, u, x)
           \/ Load(w, u, "link", Peers(x), {x})
    \/ \E u \in Users :
         \/ \E P \in Providers : Load(w, u, "unlink", P, Own(u) \cap P)
         \/ Load(w, u, "profile", Externals, column[u])
         \/ Count(w, u) \/ Unlink(w, u) \/ List(w, u) \/ SaveProfile(w, u)

Next ==
    \/ \E w \in Requests : Serve(w)
    \/ \E u \in Users : \/ Register(u) \/ SetPassword(u)
                        \/ \E m \in Manual : PutManual(u, m) \/ DeleteManual(u, m)

Spec == Init /\ [][Next]_vars

---------------------------------------------------------------------------
(* What the module promises. *)

(* The lockout guard: every account can be signed in to, unless two of its  *)
(* own unlinks counted before either wrote.  No login, link, refresh or     *)
(* manual entry, overlapping an unlink or not, locks an account out ("must *)
(* not affect auth lockout checks").                                       *)
LoginMethodKept == \A u \in live \ crowded :
    u \in password \/ identity[u] \cap Externals # {}

(* An external account signs in to one account, unless requests about it    *)
(* overlapped.                                                             *)
OneOwner == \A x \in Externals \ raced : Cardinality(Owners(x) \cup Holders(x)) <= 1

(* An unlinked external account stays out ("continue to block direct login  *)
(* ... until the user ... explicitly relinks"): nobody has it by a column  *)
(* or a row, unless requests about it overlapped.                          *)
RevokedBlocked == \A x \in revoked \ raced : Owners(x) \cup Holders(x) = {}

(* The two copies of a link of Steam or Apple agree: no login, link, unlink *)
(* or refresh leaves a column without its row or a row without its column, *)
(* unless requests about the external account overlapped.  (An unlink asks *)
(* the column what to block, a login asks the row as well.)                *)
CopiesAgree == \A u \in Users : \A x \in Legacy \ raced :
    x \in column[u] <=> x \in identity[u]

(* Step by step, what AccountDirectory promises about every external        *)
(* account that no two overlapping requests were about.                    *)
SignsIn == [x \in Externals |-> IF x \in raced THEN {} ELSE Owners(x) \cup Holders(x)]
Directory == INSTANCE AccountDirectory WITH
    accounts <- live,
    signs <- SignsIn,
    blocked <- revoked \ raced,
    asked <- UNION {{<<job[w].user, x>> : x \in job[w].about} :
                     w \in {v \in Requests : job[v].op = "linkWrite"}},
    exempt <- raced
DirectorySpec == Directory!Spec
=============================================================================
