---------------------------- MODULE AvatarUploads ----------------------------
(***************************************************************************)
(* The avatar of one user and of one group this user administers: the      *)
(* profile and group rows, the ledger of issued uploads, the bucket, and   *)
(* the hourly janitor that every API replica runs                          *)
(* (backend/app/storage/avatar_uploads.py, jobs/avatar_upload_janitor.py,  *)
(* db/repositories/avatar_upload_ledger_repo.py, api/v1/users/service.py,  *)
(* api/v1/groups/service.py).                                              *)
(*                                                                         *)
(* Database and bucket share no transaction.  A request commits its row    *)
(* first and cleans the bucket up afterwards; the janitor deletes the      *)
(* object first and commits its row afterwards.  The writes of a request   *)
(* and its commit are one step, every call to the bucket is its own.       *)
(***************************************************************************)
EXTENDS FiniteSets

CONSTANTS
    Keys,       \* object keys that get presigned (bounds the uploads)
    Requests,   \* requests that can be in flight together, on any replica
    Janitors,   \* replicas, each with its janitor
    None,       \* no avatar
    Provider,   \* an avatar the login provider hosts: not under our base URL
    NoGroup,    \* the group is not created yet
    Gone        \* the group was deleted

ASSUME AvatarAssumption ==
    /\ Keys \cap {None, Provider, NoGroup, Gone} = {}
    /\ Cardinality({None, Provider, NoGroup, Gone}) = 4

VARIABLES
    avatar,     \* avatar[o]: committed avatar_url of the user and of the group
    ledger,     \* ledger[k]: the ledger row of key k
    screen,     \* screen[k]: the editor that asked for key k
    post,       \* post[k]: what became of the client's POST to the form of k
    stored,     \* keys of the objects in the bucket
    job,        \* job[r]: where request r is in its handler, and what it holds
    janitor,    \* janitor[j]: where the pass of replica j is
    sound,      \* history: the owners whose avatar was saved by the book
    leaked      \* history: committed objects that lost their avatar uncleaned

rows == <<avatar, ledger>>
vars == <<avatar, ledger, screen, post, stored, job, janitor, sound, leaked>>

Owners == {"user", "group"}
Rows == {"none", "pending", "due", "committed", "deleted"}
Screens == {"profile", "settings", "create"}
Posts == {"none", "lost", "created"}     \* the answer never came, 201
Urls == Keys \cup {None, Provider}

Job == [pc: {"idle", "write", "seed", "cleanup", "list", "sweep", "commit"},
        owner: Owners, url: Urls, seen: Urls \cup {Gone}, listed: SUBSET Keys]
Pass == [pc: {"pass", "delete", "commit"}, key: Keys \cup {None}]

TypeOK ==
    /\ avatar \in [Owners -> Urls \cup {NoGroup, Gone}]
    /\ ledger \in [Keys -> Rows]
    /\ screen \in [Keys -> Screens]
    /\ post \in [Keys -> Posts]
    /\ stored \subseteq Keys
    /\ job \in [Requests -> Job]
    /\ janitor \in [Janitors -> Pass]
    /\ sound \subseteq Owners
    /\ leaked \subseteq Keys

At(pc, o, url) == [pc |-> pc, owner |-> o, url |-> url, seen |-> None, listed |-> {}]
Idle == At("idle", "user", None)
InPass == [pc |-> "pass", key |-> None]

Init ==
    /\ avatar = [o \in Owners |-> IF o = "user" THEN None ELSE NoGroup]
    /\ ledger = [k \in Keys |-> "none"]
    /\ screen = [k \in Keys |-> "profile"]
    /\ post = [k \in Keys |-> "none"]
    /\ stored = {}
    /\ job = [r \in Requests |-> Idle]
    /\ janitor = [j \in Janitors |-> InPass]
    /\ sound = {} /\ leaked = {}

---------------------------------------------------------------------------
(* The bucket.  delete_objects of the keys a request holds can fail as a   *)
(* whole; a client error is raised before anything is deleted.             *)

(* avatar_object_prefix, group_avatar_object_prefix.  Creating a group uses *)
(* the user's prefix: there is no group to presign for yet.                *)
Prefix(k) == IF screen[k] = "settings" THEN "group" ELSE "user"
Under(o) == {k \in Keys : ledger[k] # "none" /\ Prefix(k) = o}

(* Committed objects whose avatar is no longer shown.  *)
Superseded(o) == {k \in stored \cap Under(o) :
                    ledger[k] = "committed" /\ \A w \in Owners : avatar[w] # k}

(* managed_avatar_object_key_from_public_url: only our own URLs have a key. *)
ManagedKey(url) == {url} \cap Keys

(* _avatar_url_to_cleanup, _group_avatar_url_to_cleanup *)
ToCleanUpAny(seen, url) == {seen} \ {url}
ToCleanUp(seen, url) == IF seen = url THEN {} ELSE ManagedKey(seen)

---------------------------------------------------------------------------
(* Uploads *)

(* init_avatar_upload, init_group_avatar_upload: presign a fresh key, then *)
(* insert its pending row.                                                 *)
Exists(o) == avatar[o] \notin {NoGroup, Gone}

InitUpload(k, s) ==
    /\ ledger[k] = "none"
    /\ s = "settings" => Exists("group")
    /\ s = "create" => avatar["group"] = NoGroup
    /\ ledger' = [ledger EXCEPT ![k] = "pending"]
    /\ screen' = [screen EXCEPT ![k] = s]
    /\ UNCHANGED <<avatar, post, stored, job, janitor, sound, leaked>>

(* The client posts the bytes to the form, once, while it is valid: minutes, *)
(* where the janitor waits for hours.  If the answer is lost the object is  *)
(* there all the same, and the editor forgets the key.                      *)
Upload(k) ==
    /\ ledger[k] = "pending"
    /\ post[k] = "none"
    /\ stored' = stored \cup {k}
    /\ \E answer \in {"lost", "created"} : post' = [post EXCEPT ![k] = answer]
    /\ UNCHANGED <<rows, screen, job, janitor, sound, leaked>>

(* avatar_upload_unclaimed_ttl_hours pass and the row is still pending.     *)
(* Requests take seconds: none spans a day.                                *)
Expire(k) ==
    /\ ledger[k] = "pending"
    /\ \A r \in Requests : job[r].pc = "idle"
    /\ ledger' = [ledger EXCEPT ![k] = "due"]
    /\ UNCHANGED <<avatar, screen, post, stored, job, janitor, sound, leaked>>

---------------------------------------------------------------------------
(* PATCH /users/me and PATCH /groups/{id} with avatar_url. *)

(* What an editor of the client can hand in: an upload of its own that was  *)
(* answered, or no avatar.                                                 *)
Offered(s) == {None} \cup {k \in Keys : post[k] = "created" /\ screen[k] = s}

(* The row is loaded (by get_current_user, or by update_group). *)
Receive(r, o) ==
    /\ job[r].pc = "idle"
    /\ Exists(o)
    /\ \E url \in Offered(IF o = "user" THEN "profile" ELSE "settings") :
         job' = [job EXCEPT ![r] = [At("write", o, url) EXCEPT !.seen = avatar[o]]]
    /\ UNCHANGED <<rows, screen, post, stored, janitor, sound, leaked>>

(* delete_group holds the row it deletes until its commit. *)
Locked(o) == \E r \in Requests : job[r].seen = Gone /\ job[r].owner = o
                                 /\ job[r].pc \in {"list", "sweep", "commit"}

(* A save is by the book when its upload is in the bucket, is claimed       *)
(* within the day, and it meets no other avatar request of this owner: none *)
(* is under way, none was over since the row was loaded.                   *)
ByTheBook(r) ==
    /\ job[r].url \in stored /\ ledger[job[r].url] = "pending"
    /\ avatar[job[r].owner] = job[r].seen
    /\ \A q \in Requests \ {r} : job[q].pc = "idle" \/ job[q].owner # job[r].owner

(* update_profile, update_group: the UPDATE is emitted only if the loaded   *)
(* row had another avatar, mark_committed finds the row or does nothing,   *)
(* then the commit.  The refresh after the UPDATE makes the handler hold   *)
(* the avatar as it is in the database now: the key the sweep keeps.       *)
MarkNothing(k) == ledger
MarkCommitted(k) ==
    IF k \in Keys /\ ledger[k] \in {"pending", "due"} THEN [ledger EXCEPT ![k] = "committed"]
    ELSE ledger

Write(r) ==
    LET j == job[r]
        o == j.owner
        now == IF j.seen = j.url THEN avatar[o] ELSE j.url
    IN  /\ j.pc = "write"
        /\ ~Locked(o)
        /\ Exists(o)
        /\ avatar' = [avatar EXCEPT ![o] = now]
        /\ ledger' = MarkCommitted(j.url)
        /\ sound' = IF ByTheBook(r) THEN sound \cup {o}
                    ELSE IF now = avatar[o] THEN sound ELSE sound \ {o}
        /\ job' = [job EXCEPT ![r] = [At("cleanup", o, now) EXCEPT
                                         !.listed = ToCleanUp(j.seen, j.url)]]
        /\ UNCHANGED <<screen, post, stored, janitor, leaked>>

(* The group is gone when it is written: 404, nothing is written. *)
WriteGone(r) ==
    /\ job[r].pc = "write"
    /\ ~Exists(job[r].owner)
    /\ job' = [job EXCEPT ![r] = Idle]
    /\ UNCHANGED <<rows, screen, post, stored, janitor, sound, leaked>>

(* cleanup_previous_avatar, delete_avatar_object_by_public_url: the avatar *)
(* the handler saw first.  A failure is logged; the sweep is still run.    *)
CleanUp(r) ==
    /\ job[r].pc = "cleanup"
    /\ \/ stored' = stored \ job[r].listed
       \/ stored' = stored
    /\ job' = [job EXCEPT ![r].pc = "list", ![r].listed = {}]
    /\ UNCHANGED <<rows, screen, post, janitor, sound, leaked>>

(* sweep_user_avatar_prefix, sweep_group_avatar_prefix: list the prefix,   *)
(* page by page, without the key to keep ...                               *)
ListedOfReplaced(r) == IF job[r].url = None THEN {}
                       ELSE (stored \cap Under(job[r].owner)) \ ManagedKey(job[r].url)
Listed(r) == (stored \cap Under(job[r].owner)) \ ManagedKey(job[r].url)

List(r) ==
    /\ job[r].pc = "list"
    /\ job' = [job EXCEPT ![r].pc = "sweep", ![r].url = None, ![r].listed = Listed(r)]
    /\ UNCHANGED <<rows, screen, post, stored, janitor, sound, leaked>>

(* ... then delete what was listed.  A save is over after that, the         *)
(* deletion of a group is not committed yet.                               *)
Swept(r) == IF job[r].seen = Gone THEN [job[r] EXCEPT !.pc = "commit", !.listed = {}]
            ELSE Idle

Sweep(r) ==
    /\ job[r].pc = "sweep"
    /\ stored' = stored \ job[r].listed
    /\ job' = [job EXCEPT ![r] = Swept(r)]
    /\ UNCHANGED <<rows, screen, post, janitor, sound, leaked>>

(* The list or the delete call fails: that is logged, what was not deleted  *)
(* stays, and the handler goes on, to the commit of a deletion.             *)
SweepFails(r) ==
    /\ job[r].pc \in {"list", "sweep"}
    /\ leaked' = leaked \cup Superseded(job[r].owner)
    /\ job' = [job EXCEPT ![r] = Swept(r)]
    /\ UNCHANGED <<rows, screen, post, stored, janitor, sound>>

(* The replica stops, or the commit fails.  An uncommitted write, of a      *)
(* deletion too, is rolled back, also when its sweep is done.              *)
Abandon(r) ==
    /\ job[r].pc # "idle"
    /\ leaked' = leaked \cup IF job[r].pc \in {"cleanup", "list", "sweep"}
                             THEN Superseded(job[r].owner) ELSE {}
    /\ job' = [job EXCEPT ![r] = Idle]
    /\ UNCHANGED <<rows, screen, post, stored, janitor, sound>>

---------------------------------------------------------------------------
(* The other writers of avatar_url *)

(* create_group stores the avatar_url the create screen uploaded under the  *)
(* user's prefix; nothing marks the upload as committed.                   *)
CreateGroup(url) ==
    /\ avatar["group"] = NoGroup
    /\ url \in Offered("create")
    /\ avatar' = [avatar EXCEPT !["group"] = url]
    /\ sound' = IF /\ url \in stored /\ ledger[url] # "due"
                   /\ \A r \in Requests : job[r].pc = "idle"
                THEN sound \cup {"group"} ELSE sound \ {"group"}
    /\ UNCHANGED <<ledger, screen, post, stored, job, janitor, leaked>>

(* delete_group: the DELETE is flushed, the route sweeps the whole prefix,  *)
(* and the commit comes last.                                              *)
StartDelete(r) ==
    /\ job[r].pc = "idle"
    /\ Exists("group")
    /\ ~Locked("group")
    /\ job' = [job EXCEPT ![r] = [At("list", "group", None) EXCEPT !.seen = Gone]]
    /\ sound' = sound \ {"group"}
    /\ UNCHANGED <<rows, screen, post, stored, janitor, leaked>>

CommitDelete(r) ==
    /\ job[r].pc = "commit"
    /\ avatar' = [avatar EXCEPT !["group"] = Gone]
    /\ job' = [job EXCEPT ![r] = Idle]
    /\ leaked' = leaked \cup (ManagedKey(avatar["group"]) \cap stored)
    /\ UNCHANGED <<ledger, screen, post, stored, janitor, sound>>

(* _seed_avatar_if_missing of a login or link: the loaded user has no       *)
(* avatar; the picture of the provider is fetched, then written over       *)
(* whatever the row holds by then.                                         *)
LoadSeed(r) ==
    /\ job[r].pc = "idle"
    /\ avatar["user"] = None
    /\ job' = [job EXCEPT ![r] = At("seed", "user", Provider)]
    /\ UNCHANGED <<rows, screen, post, stored, janitor, sound, leaked>>

WriteSeed(r) ==
    /\ job[r].pc = "seed"
    /\ avatar' = [avatar EXCEPT !["user"] = Provider]
    /\ leaked' = leaked \cup (ManagedKey(avatar["user"]) \cap stored)
    /\ job' = [job EXCEPT ![r] = Idle]
    /\ UNCHANGED <<ledger, screen, post, stored, janitor, sound>>

---------------------------------------------------------------------------
(* run_avatar_upload_janitor_once.  list_expired_pending only names the     *)
(* candidates: each row is read again when its turn comes, and skipped if  *)
(* it is gone or committed by then, so the list itself is not kept here.   *)
StillPending(k) == ledger[k] = "due"

Reread(j, k) ==
    /\ janitor[j].pc = "pass"
    /\ StillPending(k)
    /\ janitor' = [janitor EXCEPT ![j] = [pc |-> "delete", key |-> k]]
    /\ UNCHANGED <<rows, screen, post, stored, job, sound, leaked>>

(* The object goes first ... *)
DeleteObjectQuietly(j, k) ==
    /\ janitor[j] = [pc |-> "delete", key |-> k]
    /\ stored' \in {stored, stored \ {k}}
    /\ janitor' = [janitor EXCEPT ![j].pc = "commit"]
    /\ UNCHANGED <<rows, screen, post, job, sound, leaked>>

DeleteObject(j, k) ==
    /\ janitor[j] = [pc |-> "delete", key |-> k]
    /\ stored' = stored \ {k}
    /\ janitor' = [janitor EXCEPT ![j].pc = "commit"]
    /\ UNCHANGED <<rows, screen, post, job, sound, leaked>>

(* ... and its row in a transaction that commits next.  The DELETE names    *)
(* the row by its id only.                                                 *)
CommitRow(j, k) ==
    /\ janitor[j] = [pc |-> "commit", key |-> k]
    /\ ledger' = [ledger EXCEPT ![k] = "deleted"]
    /\ janitor' = [janitor EXCEPT ![j] = InPass]
    /\ UNCHANGED <<avatar, screen, post, stored, job, sound, leaked>>

(* The bucket or the database refuses, or the replica stops: rollback, the  *)
(* row stays for a later pass of this or another janitor.                  *)
PassFails(j) ==
    /\ janitor[j].pc # "pass"
    /\ janitor' = [janitor EXCEPT ![j] = InPass]
    /\ UNCHANGED <<rows, screen, post, stored, job, sound, leaked>>

---------------------------------------------------------------------------
Serve(r) ==
    \/ \E o \in Owners : Receive(r, o)
    \/ Write(r) \/ WriteGone(r) \/ CleanUp(r) \/ List(r)
    \/ Sweep(r) \/ SweepFails(r) \/ Abandon(r)
    \/ StartDelete(r) \/ CommitDelete(r)
    \/ LoadSeed(r) \/ WriteSeed(r)

Clean(j) ==
    \/ \E k \in Keys : Reread(j, k) \/ DeleteObject(j, k) \/ CommitRow(j, k)
    \/ PassFails(j)

Next ==
    \/ \E k \in Keys : Upload(k) \/ Expire(k) \/ \E s \in Screens : InitUpload(k, s)
    \/ \E url \in Urls : CreateGroup(url)
    \/ \E r \in Requests : Serve(r)
    \/ \E j \in Janitors : Clean(j)

Spec == Init /\ [][Next]_vars

---------------------------------------------------------------------------
(* What the module promises. *)

(* An avatar saved by the book (its object there and not due, no other      *)
(* avatar request of that owner under way) is in the bucket for as long as *)
(* it is shown, whatever janitors, later saves, sweeps and seeds do: "while *)
(* preserving the currently active managed object".                        *)
ActiveStored == \A o \in sound :
    avatar[o] \in Keys /\ Prefix(avatar[o]) = o => avatar[o] \in stored

(* The same for an avatar that was uploaded for the user and given to the  *)
(* group when it was created ("group avatar follows the same ledger-based  *)
(* upload pattern as user avatars").                                       *)
ShownAvatarStored == \A o \in sound : avatar[o] \in Keys => avatar[o] \in stored

(* An object that was committed once and is shown no more is about to be    *)
(* swept, unless a clean-up failed or a seed or deletion took it: a        *)
(* committed row is never seen by the janitor again, so nobody else would. *)
SupersededIsOwed == \A o \in Owners : \A k \in Superseded(o) \ leaked :
    \E r \in Requests : /\ job[r].owner = o
                        /\ job[r].pc \in {"cleanup", "list", "sweep"}
                        /\ job[r].pc = "sweep" => k \in job[r].listed

(* Every object in the bucket has a ledger row: the janitor lets go of a    *)
(* row only after its object is gone ("retry-safe cleanup").               *)
Tracked == \A k \in stored : ledger[k] # "deleted"
=============================================================================
