------------------------- MODULE AvatarUploadsProofs -------------------------
(***************************************************************************)
(* Machine-checked proofs about AvatarUploads, for any number of uploads,  *)
(* requests and janitors.                                                  *)
(***************************************************************************)
EXTENDS AvatarUploads, TLAPS

(* The issued uploads an avatar of o can come from.  *)
OfOwner(o) == {k \in Keys :
    /\ ledger[k] # "none"
    /\ screen[k] = "profile" <=> o = "user"}

(* What a request for an avatar of o may ever delete. *)
Handled(o) == OfOwner(o) \cup Under(o)

(* A form that bytes were posted to has a row. *)
Issued == \A k \in Keys : post[k] # "none" => ledger[k] # "none"

Owned(n) ==
    /\ n.url \in Keys => n.url \in OfOwner(n.owner)
    /\ n.seen \in Keys => n.seen \in OfOwner(n.owner)
    /\ n.listed \subseteq Handled(n.owner)

(* The avatar columns and the requests hold uploads of their owner. *)
OwnUrls ==
    /\ \A o \in Owners : avatar[o] \in Keys => avatar[o] \in OfOwner(o)
    /\ \A r \in Requests : Owned(job[r])

(* A janitor has keys in hand whose form expired long ago, and deleted the  *)
(* object before it lets go of the row.                                    *)
JanitorHolds == \A j \in Janitors :
    /\ janitor[j].pc # "pass" => /\ janitor[j].key \in Keys
                                 /\ ledger[janitor[j].key] \notin {"none", "pending"}
    /\ janitor[j].pc = "commit" => janitor[j].key \notin stored

(* A request that leaves the avatar k of its owner alone. *)
Spares(n, k) ==
    /\ n.pc = "write" => n.seen = k
    /\ n.pc \in {"cleanup", "list"} => n.url = k
    /\ n.pc \in {"cleanup", "sweep"} => k \notin n.listed

(* An avatar saved by the book is safe from every janitor and request.      *)
Shown(o) == avatar[o] \in Keys /\ Prefix(avatar[o]) = o

Kept(o) ==
    /\ avatar[o] \in stored
    /\ ledger[avatar[o]] = "committed"
    /\ \A j \in Janitors : janitor[j].pc # "pass" => janitor[j].key # avatar[o]
    /\ \A r \in Requests : job[r].owner = o => Spares(job[r], avatar[o])

SoundKept == \A o \in sound : Shown(o) => Kept(o)

(* The inductive invariant. *)
Inv == TypeOK /\ Issued /\ OwnUrls /\ JanitorHolds /\ Tracked /\ SoundKept

---------------------------------------------------------------------------
LEMMA InitInv == Init => Inv
  <1> SUFFICES ASSUME Init PROVE Inv
    OBVIOUS
  <1>1. Idle \in Job /\ InPass \in Pass
    BY DEF Idle, At, Job, InPass, Pass, Urls, Owners
  <1>2. TypeOK
    BY <1>1 DEF Init, TypeOK, Urls, Owners, Rows, Screens, Posts
  <1>3. Issued /\ Tracked /\ SoundKept
    BY DEF Init, Issued, Tracked, SoundKept
  <1>4. OwnUrls
    BY AvatarAssumption DEF Init, OwnUrls, Owned, Idle, At, Owners
  <1>5. JanitorHolds
    BY DEF Init, JanitorHolds, InPass
  <1> QED
    BY <1>2, <1>3, <1>4, <1>5 DEF Inv

---------------------------------------------------------------------------
(* Facts used by several actions. *)

(* An avatar that is shown is nothing another owner's request may delete.   *)
LEMMA Apart ==
    ASSUME Inv, NEW o \in Owners, NEW w \in Owners, o # w, Shown(o)
    PROVE  avatar[o] \notin Handled(w)
  BY DEF Inv, OwnUrls, Shown, Handled, OfOwner, Under, Prefix, Owners

(* What was issued stays issued, for whom it was. *)
LEMMA HandledGrows ==
    ASSUME \A k \in Keys : ledger[k] # "none" => ledger'[k] # "none" /\ screen'[k] = screen[k],
           NEW o \in Owners
    PROVE  OfOwner(o) \subseteq OfOwner(o)' /\ Handled(o) \subseteq Handled(o)'
  BY DEF OfOwner, Handled, Under, Prefix

LEMMA AtJob ==
    ASSUME NEW pc \in {"idle", "write", "seed", "cleanup", "list", "sweep", "commit"},
           NEW o \in Owners, NEW url \in Urls
    PROVE  At(pc, o, url) \in Job
  BY DEF At, Job, Urls

(* A step of a request that writes no row. *)
LEMMA JobStep ==
    ASSUME Inv, NEW r \in Requests, NEW n \in Job, job' = [job EXCEPT ![r] = n],
           UNCHANGED <<rows, screen, post, janitor>>,
           sound' \subseteq sound, stored' \subseteq stored, leaked' \subseteq Keys,
           Owned(n),
           \A o \in sound' : Shown(o) /\ Kept(o) =>
             /\ avatar[o] \in stored'
             /\ n.owner = o => Spares(n, avatar[o])
    PROVE  Inv'
  <1> USE DEF rows
  <1>1. job'[r] = n /\ \A q \in Requests : q # r => job'[q] = job[q]
    BY DEF Inv, TypeOK
  <1>2. TypeOK'
    BY DEF Inv, TypeOK
  <1>3. Issued' /\ Tracked' /\ JanitorHolds'
    BY DEF Inv, Issued, Tracked, JanitorHolds
  <1>4. \A o \in Owners : OfOwner(o)' = OfOwner(o) /\ Handled(o)' = Handled(o)
    BY DEF OfOwner, Handled, Under, Prefix
  <1>5. n.owner \in Owners /\ \A q \in Requests : job[q].owner \in Owners
    BY DEF Inv, TypeOK, Job
  <1>6. OwnUrls'
    BY <1>1, <1>4, <1>5 DEF Inv, OwnUrls, Owned
  <1>7. SoundKept'
    <2> SUFFICES ASSUME NEW o \in sound', Shown(o)'
                 PROVE  Kept(o)'
      BY DEF SoundKept
    <2>1. o \in sound /\ Shown(o)
      BY DEF Shown, Prefix
    <2>2. Kept(o)
      BY <2>1 DEF Inv, SoundKept
    <2>3. avatar[o] \in stored' /\ (n.owner = o => Spares(n, avatar[o]))
      BY <2>1, <2>2
    <2>4. \A q \in Requests : job'[q].owner = o => Spares(job'[q], avatar[o])
      BY <1>1, <2>2, <2>3 DEF Kept
    <2> QED
      BY <2>2, <2>3, <2>4 DEF Kept
  <1> QED
    BY <1>2, <1>3, <1>6, <1>7 DEF Inv

(* A step that changes neither avatars nor requests. *)
LEMMA LedgerStep ==
    ASSUME Inv, UNCHANGED <<avatar, job, sound, leaked>>, TypeOK',
           Issued', JanitorHolds', Tracked',
           \A k \in Keys : ledger[k] # "none" => ledger'[k] # "none" /\ screen'[k] = screen[k],
           \A o \in sound : Shown(o) /\ Kept(o) =>
             /\ avatar[o] \in stored'
             /\ ledger'[avatar[o]] = "committed"
             /\ \A j \in Janitors : janitor'[j].pc # "pass" => janitor'[j].key # avatar[o]
    PROVE  Inv'
  <1>1. \A o \in Owners : OfOwner(o) \subseteq OfOwner(o)' /\ Handled(o) \subseteq Handled(o)'
    BY HandledGrows
  <1>2. \A q \in Requests : job[q].owner \in Owners
    BY DEF Inv, TypeOK, Job
  <1>3. OwnUrls'
    BY <1>1, <1>2 DEF Inv, OwnUrls, Owned
  <1>4. SoundKept'
    <2> SUFFICES ASSUME NEW o \in sound, Shown(o)'
                 PROVE  Kept(o)'
      BY DEF SoundKept
    <2>1. o \in Owners /\ avatar[o] \in Keys
      BY DEF Inv, TypeOK, Shown
    <2>2. screen'[avatar[o]] = screen[avatar[o]]
      BY <2>1 DEF Inv, OwnUrls, OfOwner
    <2>3. Shown(o)
      BY <2>1, <2>2 DEF Shown, Prefix
    <2>4. Kept(o)
      BY <2>3 DEF Inv, SoundKept
    <2> QED
      BY <2>3, <2>4 DEF Kept
  <1> QED
    BY <1>3, <1>4 DEF Inv

---------------------------------------------------------------------------
(* Uploads *)

LEMMA InitUploadInv ==
    ASSUME Inv, NEW k \in Keys, NEW s \in Screens, InitUpload(k, s)
    PROVE  Inv'
  <1>1. /\ ledger[k] = "none" /\ ledger' = [ledger EXCEPT ![k] = "pending"]
        /\ screen' = [screen EXCEPT ![k] = s]
        /\ UNCHANGED <<avatar, post, stored, job, janitor, sound, leaked>>
    BY DEF InitUpload
  <1>2. /\ ledger'[k] = "pending"
        /\ \A i \in Keys : i # k => ledger'[i] = ledger[i] /\ screen'[i] = screen[i]
    BY <1>1 DEF Inv, TypeOK
  <1>3. TypeOK'
    BY <1>1 DEF Inv, TypeOK, Rows
  <1>4. Issued' /\ Tracked' /\ JanitorHolds'
    BY <1>1, <1>2 DEF Inv, TypeOK, Issued, Tracked, JanitorHolds
  <1> QED
    BY <1>1, <1>2, <1>3, <1>4, LedgerStep DEF Shown, Kept

LEMMA UploadInv ==
    ASSUME Inv, NEW k \in Keys, Upload(k)
    PROVE  Inv'
  <1>1. PICK answer \in {"lost", "created"} : post' = [post EXCEPT ![k] = answer]
    BY DEF Upload
  <1>2. /\ ledger[k] = "pending"
        /\ stored' = stored \cup {k}
        /\ UNCHANGED <<avatar, ledger, screen, job, janitor, sound, leaked>>
    BY DEF Upload, rows
  <1>3. TypeOK'
    BY <1>1, <1>2 DEF Inv, TypeOK, Posts
  <1>4. \A i \in Keys : i # k => post'[i] = post[i]
    BY <1>1 DEF Inv, TypeOK
  <1>5. Issued'
    BY <1>2, <1>4 DEF Inv, Issued
  <1>6. Tracked' /\ JanitorHolds'
    BY <1>2 DEF Inv, TypeOK, Tracked, JanitorHolds
  <1> QED
    BY <1>2, <1>3, <1>5, <1>6, LedgerStep DEF Kept

LEMMA ExpireInv ==
    ASSUME Inv, NEW k \in Keys, Expire(k)
    PROVE  Inv'
  <1>1. /\ ledger[k] = "pending" /\ ledger' = [ledger EXCEPT ![k] = "due"]
        /\ UNCHANGED <<avatar, screen, post, stored, job, janitor, sound, leaked>>
    BY DEF Expire
  <1>2. ledger'[k] = "due" /\ \A i \in Keys : i # k => ledger'[i] = ledger[i]
    BY <1>1 DEF Inv, TypeOK
  <1>3. TypeOK'
    BY <1>1 DEF Inv, TypeOK, Rows
  <1>4. Issued' /\ Tracked' /\ JanitorHolds'
    BY <1>1, <1>2 DEF Inv, TypeOK, Issued, Tracked, JanitorHolds
  <1> QED
    BY <1>1, <1>2, <1>3, <1>4, LedgerStep DEF Shown, Kept

---------------------------------------------------------------------------
(* Requests *)

LEMMA Offers ==
    ASSUME Inv, NEW o \in Owners, NEW s \in Screens, s = "profile" <=> o = "user",
           NEW url \in Offered(s)
    PROVE  url \in Urls /\ (url \in Keys => url \in OfOwner(o))
  BY AvatarAssumption DEF Offered, Urls, OfOwner, Inv, TypeOK, Issued

LEMMA ReceiveInv ==
    ASSUME Inv, NEW r \in Requests, NEW o \in Owners, Receive(r, o)
    PROVE  Inv'
  <1> DEFINE s == IF o = "user" THEN "profile" ELSE "settings"
  <1>1. PICK url \in Offered(s) :
          job' = [job EXCEPT ![r] = [At("write", o, url) EXCEPT !.seen = avatar[o]]]
    BY DEF Receive
  <1>2. url \in Urls /\ (url \in Keys => url \in OfOwner(o))
    BY Offers DEF Screens, Owners
  <1>3. avatar[o] \in Urls /\ (avatar[o] \in Keys => avatar[o] \in OfOwner(o))
    BY DEF Receive, Exists, Inv, TypeOK, OwnUrls
  <1> DEFINE n == [pc |-> "write", owner |-> o, url |-> url, seen |-> avatar[o],
                   listed |-> {}]
  <1>4. n \in Job
    BY <1>2, <1>3 DEF Job
  <1>5. job' = [job EXCEPT ![r] = n]
    <2>1. [At("write", o, url) EXCEPT !.seen = avatar[o]] = n
      BY DEF At
    <2> QED
      BY <1>1, <2>1
  <1>6. Owned(n) /\ \A w \in Owners : n.owner = w => Spares(n, avatar[w])
    BY <1>2, <1>3 DEF Owned, Spares
  <1>7. /\ UNCHANGED <<rows, screen, post, janitor, stored, sound, leaked>>
        /\ sound \subseteq Owners /\ leaked \subseteq Keys
    BY DEF Receive, Inv, TypeOK
  <1> HIDE DEF n
  <1> QED
    BY <1>4, <1>5, <1>6, <1>7, JobStep DEF Kept

(* A request that is over and wrote nothing. *)
LEMMA IdleStep ==
    ASSUME Inv, NEW r \in Requests, job' = [job EXCEPT ![r] = Idle],
           UNCHANGED <<rows, screen, post, janitor>>,
           sound' = sound, stored' = stored, leaked' \subseteq Keys
    PROVE  Inv'
  <1>1. Idle \in Job
    BY AtJob DEF Idle, Owners, Urls
  <1>2. /\ Idle.url = None /\ Idle.seen = None /\ Idle.listed = {}
        /\ \A k \in Keys : Spares(Idle, k)
    BY DEF Idle, At, Spares
  <1>3. Owned(Idle)
    BY <1>2, AvatarAssumption DEF Owned
  <1> QED
    BY <1>1, <1>2, <1>3, JobStep DEF Kept, Shown

LEMMA AbandonInv ==
    ASSUME Inv, NEW r \in Requests, Abandon(r)
    PROVE  Inv'
  <1>1. leaked' \subseteq Keys
    BY DEF Abandon, Superseded, Under, Inv, TypeOK
  <1> QED
    BY <1>1, IdleStep DEF Abandon

LEMMA Cleared ==
    ASSUME NEW j \in Job, NEW c
    PROVE  [j EXCEPT !.pc = c, !.listed = {}]
             = [pc |-> c, owner |-> j.owner, url |-> j.url, seen |-> j.seen,
                listed |-> {}]
  <1> DEFINE R(l) == [pc |-> c, owner |-> j.owner, url |-> j.url, seen |-> j.seen,
                      listed |-> l]
  <1>1. [j EXCEPT !.pc = c] = R(j.listed)
    BY DEF Job
  <1>2. [R(j.listed) EXCEPT !.listed = {}] = R({})
    OBVIOUS
  <1> HIDE DEF R
  <1>3. [j EXCEPT !.pc = c, !.listed = {}] = R({})
    BY <1>1, <1>2
  <1> QED
    BY <1>3 DEF R

LEMMA CleanUpInv ==
    ASSUME Inv, NEW r \in Requests, CleanUp(r)
    PROVE  Inv'
  <1> DEFINE j == job[r]
             n == [pc |-> "list", owner |-> j.owner, url |-> j.url, seen |-> j.seen,
                   listed |-> {}]
  <1>1. j \in Job /\ j.pc = "cleanup"
    BY DEF CleanUp, Inv, TypeOK
  <1>2. n \in Job
    BY <1>1 DEF Job
  <1>3. job' = [job EXCEPT ![r] = n]
    <2>1. job' = [job EXCEPT ![r] = [j EXCEPT !.pc = "list", !.listed = {}]]
      BY DEF CleanUp, Inv, TypeOK
    <2>2. [j EXCEPT !.pc = "list", !.listed = {}] = n
      BY <1>1, Cleared
    <2> QED
      BY <2>1, <2>2
  <1>4. /\ UNCHANGED <<rows, screen, post, janitor, sound, leaked>>
        /\ stored' = stored \/ stored' = stored \ j.listed
        /\ sound \subseteq Owners /\ leaked \subseteq Keys
    BY DEF CleanUp, Inv, TypeOK
  <1>5. Owned(n)
    BY DEF Inv, OwnUrls, Owned
  <1>6. ASSUME NEW o \in sound, Shown(o), Kept(o)
        PROVE  avatar[o] \in stored' /\ (n.owner = o => Spares(n, avatar[o]))
    <2>1. CASE j.owner = o
      <3>1. Spares(j, avatar[o])
        BY <1>6, <2>1 DEF Kept
      <3> QED
        BY <1>1, <1>4, <1>6, <3>1 DEF Kept, Spares
    <2>2. CASE j.owner # o
      <3>1. j.listed \subseteq Handled(j.owner) /\ j.owner \in Owners
        BY <1>1 DEF Inv, OwnUrls, Owned, Job
      <3>2. avatar[o] \notin j.listed
        BY <1>4, <1>6, <2>2, <3>1, Apart
      <3> QED
        BY <1>4, <1>6, <2>2, <3>2 DEF Kept
    <2> QED
      BY <2>1, <2>2
  <1> HIDE DEF n
  <1> QED
    BY <1>2, <1>3, <1>4, <1>5, <1>6, JobStep

LEMMA ListInv ==
    ASSUME Inv, NEW r \in Requests, List(r)
    PROVE  Inv'
  <1> DEFINE j == job[r]
             l == Listed(r)
             n == [pc |-> "sweep", owner |-> j.owner, url |-> None, seen |-> j.seen,
                   listed |-> l]
  <1>1. j \in Job /\ j.pc = "list"
    BY DEF List, Inv, TypeOK
  <1>2. l \subseteq Under(j.owner) /\ l \subseteq Keys /\ l \cap ManagedKey(j.url) = {}
    BY DEF Listed, Under
  <1>3. n \in Job
    BY <1>1, <1>2 DEF Job, Urls
  <1>4. job' = [job EXCEPT ![r] = n]
    <2>1. job' = [job EXCEPT ![r] = [j EXCEPT !.pc = "sweep", !.url = None,
                                              !.listed = l]]
      BY DEF List, Inv, TypeOK
    <2> DEFINE R(a, b) == [pc |-> "sweep", owner |-> j.owner, url |-> a,
                           seen |-> j.seen, listed |-> b]
    <2> HIDE DEF j, l
    <2>2. [j EXCEPT !.pc = "sweep"] = R(j.url, j.listed)
      BY <1>1 DEF Job
    <2>3. [R(j.url, j.listed) EXCEPT !.url = None] = R(None, j.listed)
      OBVIOUS
    <2>4. [R(None, j.listed) EXCEPT !.listed = l] = R(None, l)
      OBVIOUS
    <2>5. [j EXCEPT !.pc = "sweep", !.url = None, !.listed = l] = R(None, l)
      <3> HIDE DEF R
      <3> QED
        BY <2>2, <2>3, <2>4
    <2> QED
      BY <2>1, <2>5
  <1>5. /\ UNCHANGED <<rows, screen, post, janitor, sound, stored, leaked>>
        /\ sound \subseteq Owners /\ leaked \subseteq Keys
    BY DEF List, Inv, TypeOK
  <1>6. Owned(n)
    BY <1>2, AvatarAssumption DEF Inv, OwnUrls, Owned, Handled
  <1>7. ASSUME NEW o \in sound, Shown(o), Kept(o)
        PROVE  avatar[o] \in stored' /\ (n.owner = o => Spares(n, avatar[o]))
    <2>1. j.owner = o => j.url = avatar[o]
      BY <1>1, <1>7 DEF Kept, Spares
    <2>2. j.owner = o => avatar[o] \notin l
      BY <1>2, <1>7, <2>1 DEF ManagedKey, Shown
    <2> HIDE DEF l
    <2> QED
      BY <1>5, <1>7, <2>2 DEF Kept, Spares
  <1> HIDE DEF n
  <1> QED
    BY <1>3, <1>4, <1>5, <1>6, <1>7, JobStep

LEMMA SweepInv ==
    ASSUME Inv, NEW r \in Requests, Sweep(r)
    PROVE  Inv'
  <1> DEFINE j == job[r]
             c == [pc |-> "commit", owner |-> j.owner, url |-> j.url, seen |-> j.seen,
                   listed |-> {}]
             n == IF j.seen = Gone THEN c ELSE Idle
  <1>1. j \in Job /\ j.pc = "sweep"
    BY DEF Sweep, Inv, TypeOK
  <1>2. c \in Job /\ Idle \in Job
    BY <1>1, AtJob DEF Job, Idle, Owners, Urls
  <1>3. job' = [job EXCEPT ![r] = n]
    <2>1. [j EXCEPT !.pc = "commit", !.listed = {}] = c
      BY <1>1, Cleared
    <2>2. job' = [job EXCEPT ![r] = IF j.seen = Gone
                                    THEN [j EXCEPT !.pc = "commit", !.listed = {}]
                                    ELSE Idle]
      BY DEF Sweep, Swept
    <2> QED
      BY <2>1, <2>2
  <1>4. /\ UNCHANGED <<rows, screen, post, janitor, sound, leaked>>
        /\ stored' = stored \ j.listed
        /\ sound \subseteq Owners /\ leaked \subseteq Keys
    BY DEF Sweep, Inv, TypeOK
  <1>5. Idle.pc = "idle" /\ Idle.url = None /\ Idle.seen = None /\ Idle.listed = {}
    BY DEF Idle, At
  <1>6. /\ n \in Job
        /\ Owned(n)
        /\ \A k \in Keys : Spares(n, k)
    <2>1. CASE j.seen = Gone
      <3>1. n = c
        BY <2>1
      <3>2. Owned(c) /\ \A k \in Keys : Spares(c, k)
        BY DEF Inv, OwnUrls, Owned, Spares
      <3> HIDE DEF c, n
      <3> QED
        BY <1>2, <3>1, <3>2
    <2>2. CASE j.seen # Gone
      <3>1. n = Idle
        BY <2>2
      <3> HIDE DEF c, n
      <3> QED
        BY <1>2, <1>5, <3>1, AvatarAssumption DEF Owned, Spares
    <2> QED
      BY <2>1, <2>2
  <1>7. ASSUME NEW o \in sound, Shown(o), Kept(o)
        PROVE  avatar[o] \in stored'
    <2>1. CASE j.owner = o
      <3>1. Spares(j, avatar[o])
        BY <1>7, <2>1 DEF Kept
      <3> QED
        BY <1>1, <1>4, <1>7, <3>1 DEF Kept, Spares
    <2>2. CASE j.owner # o
      <3>1. j.listed \subseteq Handled(j.owner) /\ j.owner \in Owners
        BY <1>1 DEF Inv, OwnUrls, Owned, Job
      <3>2. avatar[o] \notin j.listed
        BY <1>4, <1>7, <2>2, <3>1, Apart
      <3> QED
        BY <1>4, <1>7, <3>2 DEF Kept
    <2> QED
      BY <2>1, <2>2
  <1> HIDE DEF n
  <1> QED
    BY <1>3, <1>4, <1>6, <1>7, JobStep DEF Shown

LEMMA SweepFailsInv ==
    ASSUME Inv, NEW r \in Requests, SweepFails(r)
    PROVE  Inv'
  <1> DEFINE j == job[r]
             c == [pc |-> "commit", owner |-> j.owner, url |-> j.url, seen |-> j.seen,
                   listed |-> {}]
  <1>1. j \in Job /\ leaked' \subseteq Keys
    BY DEF SweepFails, Superseded, Under, Inv, TypeOK
  <1>2. CASE j.seen = Gone
    <2>1. c \in Job
      BY <1>1 DEF Job
    <2>2. job' = [job EXCEPT ![r] = c]
      <3>1. [j EXCEPT !.pc = "commit", !.listed = {}] = c
        BY <1>1, Cleared
      <3> QED
        BY <1>2, <3>1 DEF SweepFails, Swept
    <2>3. Owned(c) /\ \A k \in Keys : Spares(c, k)
      BY DEF Inv, OwnUrls, Owned, Spares
    <2>4. /\ UNCHANGED <<rows, screen, post, janitor>>
          /\ sound' \subseteq sound /\ stored' \subseteq stored /\ stored' = stored
      BY DEF SweepFails
    <2> HIDE DEF c
    <2> QED
      BY <1>1, <2>1, <2>2, <2>3, <2>4, JobStep DEF Shown, Kept
  <1>3. CASE j.seen # Gone
    BY <1>1, <1>3, IdleStep DEF SweepFails, Swept
  <1> QED
    BY <1>2, <1>3

LEMMA StartDeleteInv ==
    ASSUME Inv, NEW r \in Requests, StartDelete(r)
    PROVE  Inv'
  <1> DEFINE n == [pc |-> "list", owner |-> "group", url |-> None, seen |-> Gone,
                   listed |-> {}]
  <1>1. n \in Job
    BY DEF Job, Owners, Urls
  <1>2. job' = [job EXCEPT ![r] = n]
    <2>1. [At("list", "group", None) EXCEPT !.seen = Gone] = n
      BY DEF At
    <2> QED
      BY <2>1 DEF StartDelete
  <1>3. /\ UNCHANGED <<rows, screen, post, janitor, stored, leaked>>
        /\ sound' = sound \ {"group"} /\ leaked \subseteq Keys
    BY DEF StartDelete, Inv, TypeOK
  <1>4. Owned(n) /\ n.owner = "group"
    BY AvatarAssumption DEF Owned
  <1> HIDE DEF n
  <1>5. \A o \in sound' : Kept(o) => avatar[o] \in stored' /\ n.owner # o
    BY <1>3, <1>4 DEF Kept
  <1> QED
    BY <1>1, <1>2, <1>3, <1>4, <1>5, JobStep

LEMMA LoadSeedInv ==
    ASSUME Inv, NEW r \in Requests, LoadSeed(r)
    PROVE  Inv'
  <1> DEFINE n == [pc |-> "seed", owner |-> "user", url |-> Provider, seen |-> None,
                   listed |-> {}]
  <1>1. n \in Job
    BY DEF Job, Owners, Urls
  <1>2. job' = [job EXCEPT ![r] = n]
    BY DEF LoadSeed, At
  <1>3. /\ UNCHANGED <<rows, screen, post, janitor, stored, sound, leaked>>
        /\ leaked \subseteq Keys
    BY DEF LoadSeed, Inv, TypeOK
  <1>4. Owned(n) /\ \A k \in Keys : Spares(n, k)
    BY AvatarAssumption DEF Owned, Spares
  <1> HIDE DEF n
  <1> QED
    BY <1>1, <1>2, <1>3, <1>4, JobStep DEF Kept, Shown

---------------------------------------------------------------------------
(* Commits of an avatar *)

(* A step that ends a request and shows no upload of ours in its stead.     *)
LEMMA UnshownStep ==
    ASSUME Inv, NEW r \in Requests, job' = [job EXCEPT ![r] = Idle],
           NEW w \in Owners, NEW a \in {Provider, Gone}, a \in Urls \cup {NoGroup, Gone},
           avatar' = [avatar EXCEPT ![w] = a],
           UNCHANGED <<ledger, screen, post, stored, janitor, sound>>,
           leaked' \subseteq Keys
    PROVE  Inv'
  <1>1. Idle \in Job
    BY AtJob DEF Idle, Owners, Urls
  <1>2. Idle.pc = "idle" /\ Idle.url = None /\ Idle.seen = None /\ Idle.listed = {}
    BY DEF Idle, At
  <1>3. /\ job'[r] = Idle /\ \A q \in Requests : q # r => job'[q] = job[q]
        /\ avatar'[w] = a /\ \A o \in Owners : o # w => avatar'[o] = avatar[o]
    BY DEF Inv, TypeOK
  <1>4. TypeOK'
    BY <1>1 DEF Inv, TypeOK
  <1>5. Issued' /\ Tracked' /\ JanitorHolds'
    BY DEF Inv, Issued, Tracked, JanitorHolds
  <1>6. \A o \in Owners : OfOwner(o)' = OfOwner(o) /\ Handled(o)' = Handled(o)
    BY DEF OfOwner, Handled, Under, Prefix
  <1>7. \A q \in Requests : job[q].owner \in Owners
    BY DEF Inv, TypeOK, Job
  <1>8. None \notin Keys /\ a \notin Keys
    BY AvatarAssumption
  <1>9. OwnUrls'
    <2>1. \A o \in Owners : avatar'[o] \in Keys => avatar'[o] \in OfOwner(o)'
      BY <1>3, <1>6, <1>8 DEF Inv, OwnUrls
    <2>2. ASSUME NEW q \in Requests
          PROVE  Owned(job[q])'
      <3>1. CASE q = r
        BY <1>2, <1>3, <1>8, <3>1 DEF Owned
      <3>2. CASE q # r
        <4>1. job'[q] = job[q] /\ job[q].owner \in Owners
          BY <1>3, <1>7, <3>2
        <4> QED
          BY <4>1, <1>6 DEF Inv, OwnUrls, Owned
      <3> QED
        BY <3>1, <3>2
    <2> QED
      BY <2>1, <2>2 DEF OwnUrls
  <1>10. SoundKept'
    <2> SUFFICES ASSUME NEW o \in sound, Shown(o)'
                 PROVE  Kept(o)'
      BY DEF SoundKept
    <2>1. o \in Owners
      BY DEF Inv, TypeOK
    <2>2. o # w /\ avatar'[o] = avatar[o]
      BY <1>3, <1>8, <2>1 DEF Shown
    <2>3. Shown(o)
      BY <2>2 DEF Shown, Prefix
    <2>4. Kept(o)
      BY <2>3 DEF Inv, SoundKept
    <2>5. \A q \in Requests : job'[q].owner = o => Spares(job'[q], avatar[o])
      BY <1>2, <1>3, <2>4 DEF Kept, Spares
    <2> QED
      BY <2>2, <2>4, <2>5 DEF Kept
  <1> QED
    BY <1>4, <1>5, <1>9, <1>10 DEF Inv

LEMMA CommitDeleteInv ==
    ASSUME Inv, NEW r \in Requests, CommitDelete(r)
    PROVE  Inv'
  <1>1. leaked' \subseteq Keys
    BY DEF CommitDelete, ManagedKey, Inv, TypeOK
  <1> QED
    BY <1>1, UnshownStep DEF CommitDelete, Owners

LEMMA WriteSeedInv ==
    ASSUME Inv, NEW r \in Requests, WriteSeed(r)
    PROVE  Inv'
  <1>1. leaked' \subseteq Keys
    BY DEF WriteSeed, ManagedKey, Inv, TypeOK
  <1> QED
    BY <1>1, UnshownStep DEF WriteSeed, Owners, Urls

(* The group gets an upload that has the prefix of the user.  *)
LEMMA CreateGroupInv ==
    ASSUME Inv, NEW url \in Urls, CreateGroup(url)
    PROVE  Inv'
  <1>1. /\ url \in Offered("create") /\ avatar' = [avatar EXCEPT !["group"] = url]
        /\ sound' \subseteq sound \cup {"group"}
        /\ UNCHANGED <<ledger, screen, post, stored, job, janitor, leaked>>
    BY DEF CreateGroup
  <1>2. url \in Keys => url \in OfOwner("group")
    BY <1>1, Offers DEF Owners, Screens
  <1>3. url \in Keys => Prefix(url) = "user"
    BY <1>1, AvatarAssumption DEF Offered, Prefix
  <1>4. avatar'["group"] = url /\ avatar'["user"] = avatar["user"]
    BY <1>1 DEF Inv, TypeOK, Owners
  <1>5. TypeOK'
    BY <1>1 DEF Inv, TypeOK, Owners
  <1>6. Issued' /\ Tracked' /\ JanitorHolds'
    BY <1>1 DEF Inv, Issued, Tracked, JanitorHolds
  <1>7. \A o \in Owners : OfOwner(o)' = OfOwner(o) /\ Handled(o)' = Handled(o)
    BY <1>1 DEF OfOwner, Handled, Under, Prefix
  <1>8. OwnUrls'
    <2>1. \A q \in Requests : job[q].owner \in Owners
      BY DEF Inv, TypeOK, Job
    <2>2. \A o \in Owners : o = "user" \/ o = "group"
      BY DEF Owners
    <2> QED
      BY <1>1, <1>2, <1>4, <1>7, <2>1, <2>2 DEF Inv, OwnUrls, Owned
  <1>9. SoundKept'
    <2> SUFFICES ASSUME NEW o \in sound', Shown(o)'
                 PROVE  Kept(o)'
      BY DEF SoundKept
    <2>1. o # "group"
      BY <1>1, <1>3, <1>4 DEF Shown, Prefix
    <2>2. o \in sound /\ o = "user"
      BY <1>1, <2>1 DEF Inv, TypeOK, Owners
    <2>3. avatar'[o] = avatar[o] /\ Shown(o)
      BY <1>1, <1>4, <2>2 DEF Shown, Prefix
    <2>4. Kept(o)
      BY <2>2, <2>3 DEF Inv, SoundKept
    <2> QED
      BY <1>1, <2>3, <2>4 DEF Kept
  <1> QED
    BY <1>5, <1>6, <1>8, <1>9 DEF Inv

(* A save: what it writes is its own upload, and it takes the soundness of   *)
(* an avatar it changes unless it is by the book.                          *)
LEMMA WriteInv ==
    ASSUME Inv, NEW r \in Requests, Write(r)
    PROVE  Inv'
  <1> DEFINE j == job[r]
             o == j.owner
             now == IF j.seen = j.url THEN avatar[o] ELSE j.url
             c == ToCleanUp(j.seen, j.url)
             n == [pc |-> "cleanup", owner |-> o, url |-> now, seen |-> None,
                   listed |-> c]
  <1>1. /\ j \in Job /\ j.pc = "write" /\ o \in Owners /\ j.url \in Urls
        /\ avatar[o] \in Urls
    BY DEF Write, Exists, Inv, TypeOK, Job
  <1>2. now \in Urls /\ (now \in Keys => now \in OfOwner(o))
    BY <1>1 DEF Inv, OwnUrls, Owned
  <1>3. c \subseteq OfOwner(o) /\ c \subseteq Keys /\ (c # {} => c = {j.seen} /\ j.seen # j.url)
    BY DEF ToCleanUp, ManagedKey, Inv, OwnUrls, Owned
  <1>4. n \in Job
    BY <1>1, <1>2, <1>3 DEF Job, Urls
  <1>5. job' = [job EXCEPT ![r] = n]
    <2>1. [At("cleanup", o, now) EXCEPT !.listed = c] = n
      <3> HIDE DEF o, now, c
      <3> QED
        BY DEF At
    <2> QED
      BY <2>1 DEF Write
  <1>6. /\ avatar' = [avatar EXCEPT ![o] = now] /\ ledger' = MarkCommitted(j.url)
        /\ sound' = IF ByTheBook(r) THEN sound \cup {o}
                    ELSE IF now = avatar[o] THEN sound ELSE sound \ {o}
        /\ UNCHANGED <<screen, post, stored, janitor, leaked>>
    BY DEF Write
  <1>7. /\ ledger' \in [Keys -> Rows]
        /\ \A k \in Keys : \/ ledger'[k] = ledger[k]
                           \/ /\ ledger[k] \in {"pending", "due"}
                              /\ ledger'[k] = "committed"
        /\ j.url \in Keys /\ ledger[j.url] = "pending" => ledger'[j.url] = "committed"
    <2>1. CASE j.url \in Keys /\ ledger[j.url] \in {"pending", "due"}
      <3>1. ledger' = [ledger EXCEPT ![j.url] = "committed"]
        BY <1>6, <2>1 DEF MarkCommitted
      <3> HIDE DEF j
      <3> QED
        BY <2>1, <3>1 DEF Inv, TypeOK, Rows
    <2>2. CASE ~(j.url \in Keys /\ ledger[j.url] \in {"pending", "due"})
      <3>1. ledger' = ledger
        BY <1>6, <2>2 DEF MarkCommitted
      <3> HIDE DEF j
      <3> QED
        BY <2>2, <3>1 DEF Inv, TypeOK
    <2> QED
      BY <2>1, <2>2
  <1>8. /\ job'[r] = n /\ \A q \in Requests : q # r => job'[q] = job[q]
        /\ avatar'[o] = now /\ \A w \in Owners : w # o => avatar'[w] = avatar[w]
    BY <1>1, <1>5, <1>6 DEF Inv, TypeOK
  <1>9. sound' \subseteq Owners
    BY <1>1, <1>6 DEF Inv, TypeOK
  <1>10. TypeOK'
    <2> HIDE DEF now, n, o
    <2> QED
      BY <1>1, <1>2, <1>4, <1>5, <1>6, <1>7, <1>9 DEF Inv, TypeOK
  <1>11. Issued' /\ Tracked' /\ JanitorHolds'
    BY <1>6, <1>7 DEF Inv, TypeOK, Issued, Tracked, JanitorHolds
  <1>12. \A w \in Owners : OfOwner(w) \subseteq OfOwner(w)' /\ Handled(w) \subseteq Handled(w)'
    BY <1>6, <1>7, HandledGrows
  <1>13. OwnUrls'
    <2>1. \A w \in Owners : avatar'[w] \in Keys => avatar'[w] \in OfOwner(w)'
      BY <1>2, <1>8, <1>12 DEF Inv, OwnUrls
    <2>2. ASSUME NEW q \in Requests
          PROVE  Owned(job[q])'
      <3>1. CASE q = r
        <4>1. job'[q] = n /\ n.owner = o /\ n.url = now /\ n.seen = None /\ n.listed = c
          BY <1>8, <3>1
        <4> HIDE DEF n, o, now, c
        <4> QED
          BY <4>1, <1>1, <1>2, <1>3, <1>12, AvatarAssumption DEF Owned, Handled
      <3>2. CASE q # r
        <4>1. job'[q] = job[q] /\ job[q].owner \in Owners
          BY <1>8, <3>2 DEF Inv, TypeOK, Job
        <4> QED
          BY <4>1, <1>12 DEF Inv, OwnUrls, Owned
      <3> QED
        BY <3>1, <3>2
    <2> QED
      BY <2>1, <2>2 DEF OwnUrls
  <1>14. SoundKept'
    <2> SUFFICES ASSUME NEW w \in sound', Shown(w)'
                 PROVE  Kept(w)'
      BY DEF SoundKept
    <2>1. CASE w # o
      <3>1. w \in sound /\ w \in Owners /\ avatar'[w] = avatar[w]
        BY <1>6, <1>8, <1>9, <2>1
      <3>2. Shown(w)
        BY <1>6, <3>1 DEF Shown, Prefix
      <3>3. Kept(w)
        BY <3>1, <3>2 DEF Inv, SoundKept
      <3>4. \A q \in Requests : job'[q].owner = w => Spares(job'[q], avatar[w])
        BY <1>8, <2>1, <3>3 DEF Kept
      <3>5. ledger'[avatar[w]] = "committed"
        BY <1>7, <3>2, <3>3 DEF Kept, Shown
      <3> QED
        BY <1>6, <3>1, <3>3, <3>4, <3>5 DEF Kept
    <2>2. CASE w = o /\ ByTheBook(r)
      <3>1. /\ j.url \in stored /\ ledger[j.url] = "pending" /\ avatar[o] = j.seen
            /\ \A q \in Requests \ {r} : job[q].pc = "idle" \/ job[q].owner # o
        BY <2>2 DEF ByTheBook
      <3>2. j.url \in Keys /\ now = j.url /\ j.url \notin c
        BY <3>1, <1>3 DEF Inv, TypeOK
      <3>3. Spares(n, j.url)
        BY <3>2 DEF Spares
      <3>4. \A q \in Requests : job'[q].owner = o => Spares(job'[q], j.url)
        BY <1>8, <3>1, <3>3 DEF Spares
      <3>5. \A i \in Janitors : janitor[i].pc # "pass" => janitor[i].key # j.url
        BY <3>1 DEF Inv, JanitorHolds
      <3>6. ledger'[j.url] = "committed" /\ avatar'[o] = j.url
        BY <1>7, <1>8, <3>1, <3>2
      <3> HIDE DEF j, o
      <3> QED
        BY <1>6, <2>2, <3>1, <3>4, <3>5, <3>6 DEF Kept
    <2>3. CASE w = o /\ ~ByTheBook(r)
      <3>1. now = avatar[o] /\ o \in sound /\ avatar'[o] = avatar[o]
        BY <1>6, <1>8, <2>3
      <3>2. Shown(o)
        BY <1>6, <2>3, <3>1 DEF Shown, Prefix
      <3>3. Kept(o)
        BY <3>1, <3>2 DEF Inv, SoundKept
      <3>4. j.seen = avatar[o]
        BY <1>1, <3>3 DEF Kept, Spares
      <3>5. j.url = avatar[o] /\ c = {}
        BY <3>1, <3>4, <1>3
      <3>6. Spares(n, avatar[o])
        BY <3>1, <3>5 DEF Spares
      <3>7. \A q \in Requests : job'[q].owner = o => Spares(job'[q], avatar[o])
        BY <1>8, <3>3, <3>6 DEF Kept
      <3>8. ledger'[avatar[o]] = "committed"
        BY <1>7, <3>2, <3>3 DEF Kept, Shown
      <3> HIDE DEF j, o
      <3> QED
        BY <1>6, <2>3, <3>1, <3>3, <3>7, <3>8 DEF Kept
    <2> QED
      BY <2>1, <2>2, <2>3
  <1> QED
    BY <1>10, <1>11, <1>13, <1>14 DEF Inv

---------------------------------------------------------------------------
(* Janitors *)

LEMMA RereadInv ==
    ASSUME Inv, NEW j \in Janitors, NEW k \in Keys, Reread(j, k)
    PROVE  Inv'
  <1> DEFINE p == [pc |-> "delete", key |-> k]
  <1>1. /\ ledger[k] = "due" /\ janitor' = [janitor EXCEPT ![j] = p]
        /\ UNCHANGED <<avatar, ledger, screen, post, stored, job, sound, leaked>>
    BY DEF Reread, StillPending, rows
  <1>2. /\ janitor'[j] = p
        /\ \A i \in Janitors : i # j => janitor'[i] = janitor[i]
    BY <1>1 DEF Inv, TypeOK
  <1>3. TypeOK'
    BY <1>1 DEF Inv, TypeOK, Pass
  <1>4. Issued' /\ Tracked'
    BY <1>1 DEF Inv, Issued, Tracked
  <1>5. JanitorHolds'
    BY <1>1, <1>2 DEF Inv, JanitorHolds
  <1> QED
    BY <1>1, <1>2, <1>3, <1>4, <1>5, LedgerStep DEF Kept

LEMMA DeleteObjectInv ==
    ASSUME Inv, NEW j \in Janitors, NEW k \in Keys, DeleteObject(j, k)
    PROVE  Inv'
  <1> DEFINE p == [pc |-> "commit", key |-> k]
  <1>1. /\ janitor[j] = [pc |-> "delete", key |-> k]
        /\ stored' = stored \ {k}
        /\ UNCHANGED <<avatar, ledger, screen, post, job, sound, leaked>>
    BY DEF DeleteObject, rows
  <1>2. janitor' = [janitor EXCEPT ![j] = p]
    <2>1. janitor' = [janitor EXCEPT ![j] = [janitor[j] EXCEPT !.pc = "commit"]]
      BY DEF DeleteObject, Inv, TypeOK
    <2>2. [[pc |-> "delete", key |-> k] EXCEPT !.pc = "commit"] = p
      OBVIOUS
    <2> QED
      BY <1>1, <2>1, <2>2
  <1>3. /\ janitor'[j] = p
        /\ \A i \in Janitors : i # j => janitor'[i] = janitor[i]
    BY <1>2 DEF Inv, TypeOK
  <1>4. TypeOK'
    BY <1>1, <1>2 DEF Inv, TypeOK, Pass
  <1>5. Issued' /\ Tracked'
    BY <1>1 DEF Inv, Issued, Tracked
  <1>6. JanitorHolds'
    BY <1>1, <1>3 DEF Inv, JanitorHolds
  <1>7. \A o \in sound : Kept(o) => avatar[o] # k
    BY <1>1 DEF Kept
  <1> QED
    BY <1>1, <1>3, <1>4, <1>5, <1>6, <1>7, LedgerStep DEF Kept

LEMMA CommitRowInv ==
    ASSUME Inv, NEW j \in Janitors, NEW k \in Keys, CommitRow(j, k)
    PROVE  Inv'
  <1>1. /\ janitor[j] = [pc |-> "commit", key |-> k]
        /\ ledger' = [ledger EXCEPT ![k] = "deleted"]
        /\ janitor' = [janitor EXCEPT ![j] = InPass]
        /\ UNCHANGED <<avatar, screen, post, stored, job, sound, leaked>>
    BY DEF CommitRow
  <1>2. /\ janitor'[j].pc = "pass"
        /\ \A i \in Janitors : i # j => janitor'[i] = janitor[i]
        /\ ledger'[k] = "deleted"
        /\ \A i \in Keys : i # k => ledger'[i] = ledger[i]
    BY <1>1 DEF Inv, TypeOK, InPass
  <1>3. TypeOK'
    BY <1>1 DEF Inv, TypeOK, Pass, InPass, Rows
  <1>4. k \notin stored
    BY <1>1 DEF Inv, JanitorHolds
  <1>5. Issued' /\ Tracked' /\ JanitorHolds'
    BY <1>1, <1>2, <1>4 DEF Inv, TypeOK, Issued, Tracked, JanitorHolds
  <1> QED
    BY <1>1, <1>2, <1>3, <1>4, <1>5, LedgerStep DEF Shown, Kept

LEMMA PassFailsInv ==
    ASSUME Inv, NEW j \in Janitors, PassFails(j)
    PROVE  Inv'
  <1>1. /\ janitor' = [janitor EXCEPT ![j] = InPass]
        /\ UNCHANGED <<avatar, ledger, screen, post, stored, job, sound, leaked>>
    BY DEF PassFails, rows
  <1>2. /\ janitor'[j].pc = "pass"
        /\ \A i \in Janitors : i # j => janitor'[i] = janitor[i]
    BY <1>1 DEF Inv, TypeOK, InPass
  <1>3. TypeOK'
    BY <1>1 DEF Inv, TypeOK, Pass, InPass
  <1>4. Issued' /\ Tracked' /\ JanitorHolds'
    BY <1>1, <1>2 DEF Inv, Issued, Tracked, JanitorHolds
  <1> QED
    BY <1>1, <1>2, <1>3, <1>4, LedgerStep DEF Kept

---------------------------------------------------------------------------
LEMMA StutterInv ==
    ASSUME Inv, UNCHANGED vars
    PROVE  Inv'
  <1>1. UNCHANGED <<avatar, ledger, screen, post, stored, job, janitor, sound, leaked>>
    BY DEF vars
  <1>2. TypeOK' /\ Issued' /\ Tracked' /\ JanitorHolds'
    BY <1>1 DEF Inv, TypeOK, Issued, Tracked, JanitorHolds
  <1> QED
    BY <1>1, <1>2, LedgerStep DEF Kept

LEMMA NextInv == Inv /\ [Next]_vars => Inv'
  <1> SUFFICES ASSUME Inv, [Next]_vars PROVE Inv'
    OBVIOUS
  <1>1. ASSUME NEW k \in Keys, Upload(k) \/ Expire(k) PROVE Inv'
    BY <1>1, UploadInv, ExpireInv
  <1>2. ASSUME NEW k \in Keys, NEW s \in Screens, InitUpload(k, s) PROVE Inv'
    BY <1>2, InitUploadInv
  <1>3. ASSUME NEW url \in Urls, CreateGroup(url) PROVE Inv'
    BY <1>3, CreateGroupInv
  <1>4. ASSUME NEW r \in Requests, Serve(r) PROVE Inv'
    <2>1. ASSUME NEW o \in Owners, Receive(r, o) PROVE Inv'
      BY <2>1, ReceiveInv
    <2>2. CASE Write(r)
      BY <2>2, WriteInv
    <2>3. CASE WriteGone(r)
      <3>1. leaked \subseteq Keys
        BY DEF Inv, TypeOK
      <3> QED
        BY <2>3, <3>1, IdleStep DEF WriteGone
    <2>4. CASE CleanUp(r)
      BY <2>4, CleanUpInv
    <2>5. CASE List(r)
      BY <2>5, ListInv
    <2>6. CASE Sweep(r)
      BY <2>6, SweepInv
    <2>12. CASE SweepFails(r)
      BY <2>12, SweepFailsInv
    <2>7. CASE Abandon(r)
      BY <2>7, AbandonInv
    <2>8. CASE StartDelete(r)
      BY <2>8, StartDeleteInv
    <2>9. CASE CommitDelete(r)
      BY <2>9, CommitDeleteInv
    <2>10. CASE LoadSeed(r)
      BY <2>10, LoadSeedInv
    <2>11. CASE WriteSeed(r)
      BY <2>11, WriteSeedInv
    <2> QED
      BY <1>4, <2>1, <2>2, <2>3, <2>4, <2>5, <2>6, <2>7, <2>8, <2>9, <2>10, <2>11, <2>12 DEF Serve
  <1>5. ASSUME NEW j \in Janitors, Clean(j) PROVE Inv'
    BY <1>5, RereadInv, DeleteObjectInv, CommitRowInv, PassFailsInv DEF Clean
  <1>6. CASE UNCHANGED vars
    BY <1>6, StutterInv
  <1> QED
    BY <1>1, <1>2, <1>3, <1>4, <1>5, <1>6 DEF Next

---------------------------------------------------------------------------
(* The invariant above holds in every state the code can reach. *)
THEOREM Invariance == Spec => []Inv
  BY InitInv, NextInv, PTL DEF Spec

(* Rows, objects, requests and passes keep the shape the code gives them: in *)
(* particular a request never deletes by a URL that is not one of ours.    *)
THEOREM TypeCorrect == Spec => []TypeOK
  <1>1. Inv => TypeOK
    BY DEF Inv
  <1> QED
    BY <1>1, Invariance, PTL

(* The janitor deletes the object before its row and the form of an upload   *)
(* expires before the janitor takes it up, so no object outlives its row.   *)
THEOREM ObjectsTracked == Spec => []Tracked
  <1>1. Inv => Tracked
    BY DEF Inv
  <1> QED
    BY <1>1, Invariance, PTL

(* No janitor, no later save, clean-up, sweep, seed or deletion takes the    *)
(* object of an avatar that was saved by the book, while it is shown.      *)
THEOREM ActiveStaysStored == Spec => []ActiveStored
  <1>1. Inv => ActiveStored
    BY DEF Inv, SoundKept, Shown, Kept, ActiveStored
  <1> QED
    BY <1>1, Invariance, PTL
---------------------------------------------------------------------------
(* What is left behind by a save is swept by the request that replaced it.  *)
(* A request owes the bucket a key when it is still to list the prefix and  *)
(* will not keep the key, or has listed it.  The last request that saved    *)
(* the key itself keeps it, so it is never the one that owes it.            *)
Owes(n, k) ==
    /\ n.owner = Prefix(k)
    /\ \/ n.pc \in {"cleanup", "list"} /\ n.url # k
       \/ n.pc = "sweep" /\ k \in n.listed

Left(k) == k \in stored /\ ledger[k] = "committed" /\ \A w \in Owners : avatar[w] # k

Owed == \A k \in Keys : Left(k) /\ k \notin leaked =>
    \E r \in Requests : Owes(job[r], k)

(* What a group was created with is committed by no request.                *)
CommittedOwn ==
    /\ \A k \in Keys : ledger[k] = "committed" => screen[k] # "create"
    /\ \A r \in Requests : job[r].pc = "write" /\ job[r].url \in Keys
                             => screen[job[r].url] # "create"

OwedInv == Inv /\ CommittedOwn /\ Owed

LEMMA OwnPrefix ==
    ASSUME Inv, NEW o \in Owners, NEW k \in OfOwner(o), screen[k] # "create"
    PROVE  Prefix(k) = o
  <1>1. screen[k] \in {"profile", "settings"} /\ (screen[k] = "profile" <=> o = "user")
    BY DEF OfOwner, Inv, TypeOK, Screens
  <1> QED
    BY <1>1 DEF Prefix, Owners

(* Nothing is left behind that was not, and whoever owes a key still does.  *)
LEMMA OwedKept ==
    ASSUME Owed,
           \A k \in Keys : Left(k)' /\ k \notin leaked' =>
               Left(k) /\ k \notin leaked /\ screen'[k] = screen[k],
           \A k \in Keys, r \in Requests :
               Left(k)' /\ k \notin leaked' /\ Owes(job[r], k) => Owes(job'[r], k)
    PROVE  Owed'
  <1> SUFFICES ASSUME NEW k \in Keys, Left(k)', k \notin leaked'
               PROVE  \E r \in Requests : Owes(job[r], k)'
    BY DEF Owed
  <1>1. PICK r \in Requests : Owes(job[r], k)
    BY DEF Owed
  <1>2. Owes(job'[r], k) /\ Prefix(k)' = Prefix(k)
    BY <1>1 DEF Prefix
  <1> QED
    BY <1>2 DEF Owes

LEMMA CommittedKept ==
    ASSUME CommittedOwn, Inv, UNCHANGED <<ledger, screen>>,
           \A r \in Requests : job'[r] = job[r] \/ job'[r].pc # "write"
    PROVE  CommittedOwn'
  BY DEF CommittedOwn

(* Steps of nobody's request.                                               *)
LEMMA OwedOthers ==
    ASSUME OwedInv, UNCHANGED <<job, sound, leaked>>,
           \/ \E k \in Keys : Upload(k) \/ Expire(k) \/ \E s \in Screens : InitUpload(k, s)
           \/ \E j \in Janitors : Clean(j)
    PROVE  CommittedOwn' /\ Owed'
  <1>1. avatar' = avatar /\ ledger \in [Keys -> Rows] /\ screen \in [Keys -> Screens]
    BY DEF Upload, Expire, InitUpload, Clean, Reread, DeleteObject, CommitRow,
       PassFails, rows, OwedInv, Inv, TypeOK
  <1>2. \A k \in Keys : ledger'[k] = "committed" =>
           ledger[k] = "committed" /\ (k \in stored' => k \in stored)
    BY <1>1 DEF Upload, Expire, InitUpload, Clean, Reread, DeleteObject, CommitRow,
       PassFails, rows
  <1>3. \A k \in Keys : ledger[k] # "none" => screen'[k] = screen[k]
    BY <1>1 DEF Upload, Expire, InitUpload, Clean, Reread, DeleteObject, CommitRow,
       PassFails, rows
  <1>4. \A r \in Requests : job[r].url \in Keys => ledger[job[r].url] # "none"
    BY DEF OwedInv, Inv, OwnUrls, Owned, OfOwner
  <1>5. CommittedOwn'
    BY <1>2, <1>3, <1>4 DEF OwedInv, CommittedOwn
  <1>6. \A k \in Keys : Left(k)' => Left(k) /\ screen'[k] = screen[k]
    BY <1>1, <1>2, <1>3 DEF Left
  <1> QED
    BY <1>5, <1>6, OwedKept DEF OwedInv

(* A step of a request that shows no other avatar than before, or records   *)
(* the one it took as leaked.                                               *)
LEMMA OwedJob ==
    ASSUME OwedInv, NEW r \in Requests, NEW n, job' = [job EXCEPT ![r] = n],
           UNCHANGED <<ledger, screen>>, stored' \subseteq stored, leaked \subseteq leaked',
           \A k \in Keys : Left(k)' => Left(k) \/ k \in leaked',
           n.pc # "write",
           \A k \in Keys : k \in stored' /\ k \notin leaked' /\ Left(k)
                /\ Owes(job[r], k) => Owes(n, k)
    PROVE  CommittedOwn' /\ Owed'
  <1>1. job'[r] = n /\ \A q \in Requests : q # r => job'[q] = job[q]
    BY DEF OwedInv, Inv, TypeOK
  <1>2. CommittedOwn'
    BY <1>1, CommittedKept DEF OwedInv
  <1>3. \A k \in Keys : Left(k)' /\ k \notin leaked' =>
               Left(k) /\ k \notin leaked /\ k \in stored'
    BY DEF Left
  <1>4. \A k \in Keys, q \in Requests :
            Left(k)' /\ k \notin leaked' /\ Owes(job[q], k) => Owes(job'[q], k)
    BY <1>1, <1>3
  <1>5. Owed
    BY DEF OwedInv
  <1>6. Owed'
    BY <1>3, <1>4, <1>5, OwedKept
  <1> QED
    BY <1>2, <1>6

LEMMA OwedReceive ==
    ASSUME OwedInv, NEW r \in Requests, NEW o \in Owners, Receive(r, o)
    PROVE  CommittedOwn' /\ Owed'
  <1>1. PICK url \in Offered(IF o = "user" THEN "profile" ELSE "settings") :
          job' = [job EXCEPT ![r] = [At("write", o, url) EXCEPT !.seen = avatar[o]]]
    BY DEF Receive
  <1>2. job[r].pc = "idle" /\ UNCHANGED <<rows, screen, post, stored, leaked>>
    BY DEF Receive
  <1>3. /\ job'[r].url = url
        /\ \A q \in Requests : q # r => job'[q] = job[q]
    BY <1>1 DEF OwedInv, Inv, TypeOK, At
  <1>4. url \in Keys => screen[url] # "create"
    BY AvatarAssumption DEF Offered
  <1>5. CommittedOwn'
    BY <1>2, <1>3, <1>4 DEF OwedInv, CommittedOwn, rows
  <1>6. \A k \in Keys : ~Owes(job[r], k)
    BY <1>2 DEF Owes
  <1>7. \A k \in Keys : Left(k)' => Left(k)
    BY <1>2 DEF Left, rows
  <1>8. Owed
    BY DEF OwedInv
  <1>9. Owed'
    BY <1>2, <1>3, <1>6, <1>7, <1>8, OwedKept
  <1> QED
    BY <1>5, <1>9

LEMMA OwedSteps ==
    ASSUME OwedInv, NEW r \in Requests,
           \/ WriteGone(r) \/ CleanUp(r) \/ Sweep(r) \/ SweepFails(r) \/ Abandon(r)
           \/ StartDelete(r) \/ CommitDelete(r) \/ LoadSeed(r) \/ WriteSeed(r)
    PROVE  CommittedOwn' /\ Owed'
  <1>1. job[r] \in Job /\ Idle.pc = "idle"
    BY DEF OwedInv, Inv, TypeOK, Idle, At
  <1>2. ASSUME NEW k \in Keys, job[r].pc \notin {"cleanup", "list", "sweep"}
        PROVE  ~Owes(job[r], k)
    BY <1>2 DEF Owes
  <1>3. UNCHANGED rows => \A k \in Keys : stored' \subseteq stored /\ Left(k)' => Left(k)
    BY DEF Left, rows
  <1>4. CASE WriteGone(r) \/ LoadSeed(r) \/ StartDelete(r)
    <2>1. PICK n : job' = [job EXCEPT ![r] = n] /\ n.pc # "write"
      BY <1>1, <1>4 DEF WriteGone, LoadSeed, StartDelete, At
    <2>2. job[r].pc \notin {"cleanup", "list", "sweep"}
          /\ UNCHANGED <<rows, screen, stored, leaked>>
      BY <1>4 DEF WriteGone, LoadSeed, StartDelete
    <2> QED
      BY <1>2, <1>3, <2>1, <2>2, OwedJob DEF rows
  <1>5. CASE CleanUp(r)
    <2> DEFINE n == [job[r] EXCEPT !.pc = "list", !.listed = {}]
    <2>1. job' = [job EXCEPT ![r] = n] /\ stored' \subseteq stored
          /\ UNCHANGED <<rows, screen, leaked>> /\ job[r].pc = "cleanup"
      BY <1>5 DEF CleanUp, OwedInv, Inv, TypeOK
    <2>2. n.pc = "list" /\ n.owner = job[r].owner /\ n.url = job[r].url
      BY <1>1 DEF Job
    <2>3. \A k \in Keys : Owes(job[r], k) => Owes(n, k)
      BY <2>1, <2>2 DEF Owes
    <2> HIDE DEF n
    <2> QED
      BY <1>3, <2>1, <2>2, <2>3, OwedJob DEF rows
  <1>6. CASE Sweep(r)
    <2> DEFINE n == IF job[r].seen = Gone
                    THEN [job[r] EXCEPT !.pc = "commit", !.listed = {}] ELSE Idle
    <2>1. job' = [job EXCEPT ![r] = n] /\ n.pc # "write"
      BY <1>1, <1>6 DEF Sweep, Swept, Job
    <2>2. stored' = stored \ job[r].listed
          /\ UNCHANGED <<rows, screen, leaked>> /\ job[r].pc = "sweep"
      BY <1>6 DEF Sweep
    <2>3. \A k \in Keys : k \in stored' => ~Owes(job[r], k)
      BY <2>2 DEF Owes
    <2> HIDE DEF n
    <2> QED
      BY <1>3, <2>1, <2>2, <2>3, OwedJob DEF rows
  <1>7. CASE Abandon(r)
    <2>1. /\ job' = [job EXCEPT ![r] = Idle]
          /\ UNCHANGED <<rows, screen, stored>> /\ leaked \subseteq leaked'
          /\ job[r].pc \in {"cleanup", "list", "sweep"}
               => Superseded(job[r].owner) \subseteq leaked'
      BY <1>7 DEF Abandon
    <2>2. \A k \in Keys : Left(k) /\ Owes(job[r], k) => k \in leaked'
      BY <2>1 DEF Left, Owes, Superseded, Under
    <2> QED
      BY <1>1, <1>3, <2>1, <2>2, OwedJob DEF rows
  <1>11. CASE SweepFails(r)
    <2> DEFINE n == IF job[r].seen = Gone
                    THEN [job[r] EXCEPT !.pc = "commit", !.listed = {}] ELSE Idle
    <2>1. job' = [job EXCEPT ![r] = n] /\ n.pc # "write"
      BY <1>1, <1>11 DEF SweepFails, Swept, Job
    <2>2. /\ UNCHANGED <<rows, screen, stored>> /\ leaked \subseteq leaked'
          /\ Superseded(job[r].owner) \subseteq leaked'
      BY <1>11 DEF SweepFails
    <2>3. \A k \in Keys : Left(k) /\ Owes(job[r], k) => k \in leaked'
      BY <2>2 DEF Left, Owes, Superseded, Under
    <2> HIDE DEF n
    <2> QED
      BY <1>3, <2>1, <2>2, <2>3, OwedJob DEF rows
  <1>8. ASSUME NEW o \in Owners, NEW url, avatar' = [avatar EXCEPT ![o] = url],
               leaked' = leaked \cup (ManagedKey(avatar[o]) \cap stored),
               job' = [job EXCEPT ![r] = Idle], UNCHANGED <<ledger, screen, stored>>,
               job[r].pc \notin {"cleanup", "list", "sweep"}
        PROVE  CommittedOwn' /\ Owed'
    <2>1. \A k \in Keys : Left(k)' => Left(k) \/ k \in leaked'
      BY <1>8 DEF Left, ManagedKey, OwedInv, Inv, TypeOK
    <2> QED
      BY <1>1, <1>2, <1>8, <2>1, OwedJob
  <1>9. CASE CommitDelete(r)
    BY <1>8, <1>9 DEF CommitDelete, Owners
  <1>10. CASE WriteSeed(r)
    BY <1>8, <1>10 DEF WriteSeed, Owners
  <1> QED
    BY <1>4, <1>5, <1>6, <1>7, <1>9, <1>10, <1>11

(* The sweep lists everything under the prefix that it will not keep.       *)
LEMMA OwedList ==
    ASSUME OwedInv, NEW r \in Requests, List(r)
    PROVE  CommittedOwn' /\ Owed'
  <1> DEFINE l == Listed(r)
             n == [job[r] EXCEPT !.pc = "sweep", !.url = None, !.listed = l]
  <1>1. job[r] \in Job /\ job[r].pc = "list"
    BY DEF List, OwedInv, Inv, TypeOK
  <1>2. /\ job' = [job EXCEPT ![r] = n]
        /\ UNCHANGED <<rows, screen, stored, leaked>>
    BY DEF List, OwedInv, Inv, TypeOK
  <1>3. \A k \in Keys : Left(k) /\ Owes(job[r], k) => k \in l
    BY <1>1 DEF Left, Owes, Listed, Under, ManagedKey
  <1>4. n.pc = "sweep" /\ n.owner = job[r].owner /\ n.listed = l
    <2> HIDE DEF l
    <2> QED
      BY <1>1 DEF Job
  <1>5. \A k \in Keys : Left(k) /\ Owes(job[r], k) => Owes(n, k)
    BY <1>3, <1>4 DEF Owes
  <1>6. \A k \in Keys : Left(k)' => Left(k)
    BY <1>2 DEF Left, rows
  <1> HIDE DEF n
  <1> QED
    BY <1>2, <1>4, <1>5, <1>6, OwedJob DEF rows

(* A save leaves its predecessor behind, or finds that its own upload has   *)
(* been replaced since: in both cases it owes what is left.                 *)
LEMMA OwedWrite ==
    ASSUME OwedInv, NEW r \in Requests, Write(r)
    PROVE  CommittedOwn' /\ Owed'
  <1> DEFINE j == job[r]
             o == j.owner
             now == IF j.seen = j.url THEN avatar[o] ELSE j.url
             n == [At("cleanup", o, now) EXCEPT !.listed = ToCleanUp(j.seen, j.url)]
  <1>1. j \in Job /\ j.pc = "write" /\ o \in Owners
    BY DEF Write, OwedInv, Inv, TypeOK, Job
  <1>2. /\ avatar' = [avatar EXCEPT ![o] = now] /\ ledger' = MarkCommitted(j.url)
        /\ job' = [job EXCEPT ![r] = n] /\ UNCHANGED <<screen, stored, leaked>>
    BY DEF Write
  <1>3. n.pc = "cleanup" /\ n.owner = o /\ n.url = now
    BY DEF At
  <1>4. \A k \in Keys : ledger'[k] = "committed" =>
            ledger[k] = "committed" \/ (k = j.url /\ j.url \in Keys)
    BY <1>2 DEF MarkCommitted, OwedInv, Inv, TypeOK
  <1> HIDE DEF n
  <1>5. /\ job'[r] = n /\ \A q \in Requests : q # r => job'[q] = job[q]
        /\ avatar'[o] = now /\ \A w \in Owners : w # o => avatar'[w] = avatar[w]
    BY <1>1, <1>2 DEF OwedInv, Inv, TypeOK
  <1>6. CommittedOwn'
    BY <1>1, <1>2, <1>3, <1>4, <1>5 DEF OwedInv, CommittedOwn
  <1>7. Owed'
    <2> SUFFICES ASSUME NEW k \in Keys, Left(k)', k \notin leaked'
                 PROVE  \E q \in Requests : Owes(job[q], k)'
      BY DEF Owed
    <2>1. /\ k \in stored /\ ledger'[k] = "committed" /\ k \notin leaked
          /\ Prefix(k)' = Prefix(k) /\ k # now /\ \A w \in Owners : avatar'[w] # k
      BY <1>1, <1>2, <1>5 DEF Left, Prefix
    <2>2. CASE Left(k)
      <3>1. PICK q \in Requests : Owes(job[q], k)
        BY <2>1, <2>2 DEF OwedInv, Owed
      <3>2. q # r
        BY <1>1, <3>1 DEF Owes
      <3> QED
        BY <1>5, <2>1, <3>1, <3>2 DEF Owes
    <2>3. CASE ~Left(k)
      <3>1. k \in OfOwner(o) /\ screen[k] # "create"
        <4>1. CASE ledger[k] = "committed"
          <5>1. avatar[o] = k
            BY <1>5, <2>1, <2>3, <4>1 DEF Left
          <5> QED
            BY <1>1, <4>1, <5>1 DEF OwedInv, Inv, OwnUrls, CommittedOwn
        <4>2. CASE ledger[k] # "committed"
          <5>1. k = j.url
            BY <1>4, <2>1, <4>2
          <5> QED
            BY <1>1, <5>1 DEF OwedInv, Inv, OwnUrls, Owned, CommittedOwn
        <4> QED
          BY <4>1, <4>2
      <3>2. Prefix(k) = o
        BY <1>1, <3>1, OwnPrefix DEF OwedInv
      <3> QED
        BY <1>3, <1>5, <2>1, <3>2 DEF Owes
    <2> QED
      BY <2>2, <2>3
  <1> QED
    BY <1>6, <1>7

LEMMA OwedCreate ==
    ASSUME OwedInv, NEW url \in Urls, CreateGroup(url)
    PROVE  CommittedOwn' /\ Owed'
  <1>1. /\ avatar["group"] \notin Keys /\ avatar' = [avatar EXCEPT !["group"] = url]
        /\ UNCHANGED <<ledger, screen, stored, job, leaked>>
    BY AvatarAssumption DEF CreateGroup
  <1>2. \A k \in Keys : Left(k)' => Left(k)
    BY <1>1 DEF Left, OwedInv, Inv, TypeOK, Owners
  <1> QED
    BY <1>1, <1>2, OwedKept, CommittedKept DEF OwedInv

LEMMA OwedNext == OwedInv /\ [Next]_vars => OwedInv'
  <1> SUFFICES ASSUME OwedInv, [Next]_vars PROVE OwedInv'
    OBVIOUS
  <1>1. Inv'
    BY NextInv DEF OwedInv
  <1>2. CASE UNCHANGED vars
    BY <1>1, <1>2 DEF vars, OwedInv, CommittedOwn, Owed, Left, Owes, Prefix
  <1>3. CASE Next
    <2>1. ASSUME NEW r \in Requests, Serve(r) PROVE CommittedOwn' /\ Owed'
      BY <2>1, OwedReceive, OwedSteps, OwedList, OwedWrite DEF Serve
    <2>2. ASSUME \/ \E k \in Keys : \/ Upload(k) \/ Expire(k)
                                    \/ \E s \in Screens : InitUpload(k, s)
                 \/ \E j \in Janitors : Clean(j)
          PROVE  CommittedOwn' /\ Owed'
      <3>1. UNCHANGED <<job, sound, leaked>>
        BY <2>2 DEF Upload, Expire, InitUpload, Clean, Reread, DeleteObject,
           CommitRow, PassFails
      <3> QED
        BY <2>2, <3>1, OwedOthers
    <2> QED
      BY <1>1, <1>3, <2>1, <2>2, OwedCreate DEF Next, OwedInv
  <1> QED
    BY <1>2, <1>3

(* An object that was committed once and is shown no more is about to be     *)
(* swept, for any number of uploads, requests and janitors: a save that     *)
(* goes through to its sweep leaves nothing behind, however many overlap.   *)
THEOREM SupersededSwept == Spec => []SupersededIsOwed
  <1>1. Init => OwedInv
    BY InitInv DEF Init, OwedInv, CommittedOwn, Owed, Left, Idle, At
  <1>2. OwedInv => SupersededIsOwed
    BY DEF OwedInv, Owed, Left, Owes, SupersededIsOwed, Superseded, Under
  <1> QED
    BY <1>1, <1>2, OwedNext, PTL DEF Spec
=============================================================================
