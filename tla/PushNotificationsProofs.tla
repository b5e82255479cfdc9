----------------------- MODULE PushNotificationsProofs -----------------------
(***************************************************************************)
(* Machine-checked proofs about PushNotifications, for any members, devices *)
(* and janitors and any number of registrations and dispatches in flight.  *)
(***************************************************************************)
EXTENDS PushNotifications, FiniteSetTheorems, TLAPS

(* The registrations that will insert the defaults of u when they commit.   *)
Seeding(u) == {w \in Requests :
    req[w].pc = "commit" /\ req[w].first /\ OwnerOf[req[w].dev] = u}

(* Each registration inserts once, and only those that found none.          *)
SeedsBounded == \A u \in Members :
    seeded[u] + Cardinality(Seeding(u)) <= Cardinality(Requests)

(* A registration that will insert nothing found what another committed.    *)
FoundSeeds == \A w \in Requests : req[w].pc = "commit" /\ ~req[w].first
                => seeded[OwnerOf[req[w].dev]] >= 1

(* What a dispatch owes is active and still ahead of it.                    *)
OwedAhead == \A d \in Dispatches : disp[d].pc = "run" =>
    \A x \in disp[d].owed :
        /\ reg[x] = "active"
        /\ Eligible(x, disp[d].event, disp[d].actor)
        /\ OwnerOf[x] \in disp[d].todo \/ x \in disp[d].left

(* What a dispatch has listed, it may send to.                              *)
LeftEligible == \A d \in Dispatches : \A x \in disp[d].left :
    Eligible(x, disp[d].event, disp[d].actor)

(* The rows a janitor flushed are its own until it commits.                 *)
MarkedLocked == \A j \in Janitors : \A x \in pass[j].marked :
    lock[x] = j /\ reg[x] # "none"

(* The inductive invariant.  *)
Inv == /\ TypeOK
       /\ SeedsBounded /\ FoundSeeds /\ DefaultsSeeded
       /\ FreshIsActive
       /\ OwedAhead /\ LeftEligible
       /\ MarkedLocked

---------------------------------------------------------------------------
LEMMA Constants ==
    /\ Cardinality(Requests) \in Nat
    /\ NoRequest \in Registration /\ NoDispatch \in Dispatch /\ NoPass \in Pass
  <1>1. Cardinality(Requests) \in Nat
    BY PushAssumption, FS_CardinalityType
  <1>2. (CHOOSE x \in Devices : TRUE) \in Devices
    BY PushAssumption
  <1>3. (CHOOSE u \in Members : TRUE) \in Members
    BY PushAssumption
  <1> QED
    BY <1>1, <1>2, <1>3 DEF NoRequest, NoDispatch, NoPass, Registration, Dispatch, Pass,
       Rows, Events

LEMMA SeedingCard ==
    ASSUME TypeOK, NEW u \in Members
    PROVE  /\ IsFiniteSet(Seeding(u))
           /\ Cardinality(Seeding(u)) \in Nat
           /\ Cardinality(Seeding(u)) <= Cardinality(Requests)
  <1>1. Seeding(u) \in SUBSET Requests
    BY DEF Seeding
  <1> QED
    BY <1>1, PushAssumption, FS_Subset, FS_CardinalityType

LEMMA InitInv == Init => Inv
  <1> SUFFICES ASSUME Init PROVE Inv
    OBVIOUS
  <1>1. TypeOK
    BY Constants, PushAssumption DEF Init, TypeOK, Rows, Sessions
  <1>2. SeedsBounded
    BY <1>1, SeedingCard, Constants DEF Init, SeedsBounded
  <1>3. /\ FoundSeeds /\ DefaultsSeeded /\ FreshIsActive
        /\ OwedAhead /\ LeftEligible /\ MarkedLocked
    BY DEF Init, FoundSeeds, DefaultsSeeded, FreshIsActive, OwedAhead, LeftEligible,
       MarkedLocked, NoRequest, NoDispatch, NoPass
  <1> QED
    BY <1>1, <1>2, <1>3 DEF Inv

---------------------------------------------------------------------------
(* Facts used by several actions. *)

LEMMA UnlockedType ==
    ASSUME TypeOK, NEW r
    PROVE  Unlocked(r) \in [Devices -> Sessions \cup {Free}]
  BY DEF TypeOK, Unlocked

(* A step that leaves the passes, the locks of the janitors and the rows     *)
(* they locked alone.                                                       *)
LEMMA MarkedKept ==
    ASSUME Inv, pass' = pass,
           \A x \in Devices : lock[x] \in Janitors =>
             /\ lock'[x] = lock[x]
             /\ reg[x] # "none" => reg'[x] # "none"
    PROVE  MarkedLocked'
  <1> SUFFICES ASSUME NEW j \in Janitors, NEW x \in pass[j].marked
               PROVE  lock'[x] = j /\ reg'[x] # "none"
    BY DEF MarkedLocked
  <1>1. x \in Devices
    BY DEF Inv, TypeOK, Pass
  <1>2. lock[x] = j /\ reg[x] # "none"
    BY DEF Inv, MarkedLocked
  <1> QED
    BY <1>1, <1>2

(* The end of a registration or of a dispatch frees no row of a janitor.    *)
LEMMA UnlockedKept ==
    ASSUME NEW r \in Requests \cup Dispatches
    PROVE  \A x \in Devices : lock[x] \in Janitors => Unlocked(r)[x] = lock[x]
  BY PushAssumption DEF Unlocked

LEMMA DroppedFacts ==
    ASSUME TypeOK, NEW X \in SUBSET Devices
    PROVE  /\ Dropped(X) \in [Dispatches -> Dispatch]
           /\ \A d \in Dispatches :
                /\ Dropped(X)[d].pc = disp[d].pc
                /\ Dropped(X)[d].event = disp[d].event
                /\ Dropped(X)[d].actor = disp[d].actor
                /\ Dropped(X)[d].todo = disp[d].todo
                /\ Dropped(X)[d].left = disp[d].left
                /\ Dropped(X)[d].owed = disp[d].owed \ X
  <1> SUFFICES ASSUME NEW d \in Dispatches
               PROVE  /\ Dropped(X)[d] \in Dispatch
                      /\ Dropped(X)[d].pc = disp[d].pc
                      /\ Dropped(X)[d].event = disp[d].event
                      /\ Dropped(X)[d].actor = disp[d].actor
                      /\ Dropped(X)[d].todo = disp[d].todo
                      /\ Dropped(X)[d].left = disp[d].left
                      /\ Dropped(X)[d].owed = disp[d].owed \ X
    BY DEF Dropped
  <1>1. Dropped(X)[d] = [disp[d] EXCEPT !.owed = @ \ X] /\ disp[d] \in Dispatch
    BY DEF Dropped, TypeOK
  <1> QED
    BY <1>1 DEF Dispatch

(* A step that starts no seeding and ends none keeps the bound. *)
LEMMA SeedsStay ==
    ASSUME TypeOK, SeedsBounded, seeded' = seeded,
           \A u \in Members : Seeding(u)' \subseteq Seeding(u)
    PROVE  SeedsBounded'
  <1> SUFFICES ASSUME NEW u \in Members
               PROVE  seeded[u] + Cardinality(Seeding(u)') <= Cardinality(Requests)
    BY DEF SeedsBounded
  <1>1. Cardinality(Seeding(u)') <= Cardinality(Seeding(u)) /\ Cardinality(Seeding(u)') \in Nat
    BY SeedingCard, FS_Subset, FS_CardinalityType
  <1>2. seeded[u] \in Nat
    BY Constants DEF TypeOK
  <1> QED
    BY <1>1, <1>2, SeedingCard, Constants DEF SeedsBounded

(* A step that leaves registrations and seeds alone. *)
LEMMA SeedsUntouched ==
    ASSUME TypeOK, SeedsBounded, FoundSeeds, UNCHANGED <<seeded, req>>
    PROVE  SeedsBounded' /\ FoundSeeds'
  <1>1. \A u \in Members : Seeding(u)' = Seeding(u)
    BY DEF Seeding
  <1> QED
    BY <1>1, SeedsStay DEF FoundSeeds

(* A step of a dispatch that moves on, and may learn of unknown tokens. *)
LEMMA DispatchMoves ==
    ASSUME Inv, UNCHANGED <<reg, stale, seeded, req, pass>>,
           excused \subseteq excused', excused' \subseteq Devices,
           lock' \in [Devices -> Sessions \cup {Free}],
           \A x \in Devices : lock[x] \in Janitors => lock'[x] = lock[x],
           NEW d \in Dispatches, NEW n \in Dispatch, disp' = [disp EXCEPT ![d] = n],
           n.pc = "run" => \A x \in n.owed :
             /\ reg[x] = "active"
             /\ Eligible(x, n.event, n.actor)
             /\ OwnerOf[x] \in n.todo \/ x \in n.left,
           \A x \in n.left : Eligible(x, n.event, n.actor)
    PROVE  Inv'
  <1>1. TypeOK'
    BY DEF Inv, TypeOK
  <1>2. SeedsBounded' /\ FoundSeeds'
    BY SeedsUntouched DEF Inv
  <1>3. DefaultsSeeded' /\ FreshIsActive'
    BY DEF Inv, DefaultsSeeded, FreshIsActive
  <1>4. disp'[d] = n /\ \A e \in Dispatches : e # d => disp'[e] = disp[e]
    BY DEF Inv, TypeOK
  <1>5. OwedAhead' /\ LeftEligible'
    BY <1>4 DEF Inv, OwedAhead, LeftEligible, Eligible
  <1>6. MarkedLocked'
    BY MarkedKept
  <1> QED
    BY <1>1, <1>2, <1>3, <1>5, <1>6 DEF Inv

LEMMA DispatchStep ==
    ASSUME Inv, UNCHANGED <<table, req, pass>>,
           lock' \in [Devices -> Sessions \cup {Free}],
           \A x \in Devices : lock[x] \in Janitors => lock'[x] = lock[x],
           NEW d \in Dispatches, NEW n \in Dispatch, disp' = [disp EXCEPT ![d] = n],
           n.pc = "run" => \A x \in n.owed :
             /\ reg[x] = "active"
             /\ Eligible(x, n.event, n.actor)
             /\ OwnerOf[x] \in n.todo \/ x \in n.left,
           \A x \in n.left : Eligible(x, n.event, n.actor)
    PROVE  Inv'
  <1>1. /\ UNCHANGED <<reg, stale, seeded, req, pass>>
        /\ excused \subseteq excused' /\ excused' \subseteq Devices
    BY DEF table, Inv, TypeOK
  <1> QED
    BY <1>1, DispatchMoves

---------------------------------------------------------------------------
(* Registrations *)

LEMMA LoadDeviceInv ==
    ASSUME Inv, NEW w \in Requests, NEW x \in Devices, LoadDevice(w, x)
    PROVE  Inv'
  <1> DEFINE n == [pc |-> "upsert", dev |-> x, seen |-> reg[x], first |-> FALSE]
  <1>1. /\ n \in Registration /\ req' = [req EXCEPT ![w] = n]
        /\ UNCHANGED <<reg, stale, seeded, excused, lock, disp, pass>>
    BY DEF LoadDevice, table, Registration, Inv, TypeOK
  <1>2. /\ req'[w].pc = "upsert"
        /\ \A v \in Requests : v # w => req'[v] = req[v]
    BY <1>1 DEF Inv, TypeOK
  <1>3. TypeOK'
    BY <1>1 DEF Inv, TypeOK
  <1>4. \A u \in Members : Seeding(u)' \subseteq Seeding(u)
    BY <1>2 DEF Seeding
  <1>5. SeedsBounded'
    BY <1>1, <1>4, SeedsStay DEF Inv
  <1>6. FoundSeeds'
    BY <1>1, <1>2 DEF FoundSeeds, Inv
  <1>7. DefaultsSeeded' /\ FreshIsActive' /\ OwedAhead' /\ LeftEligible'
    BY <1>1 DEF Inv, DefaultsSeeded, FreshIsActive, OwedAhead, LeftEligible, Eligible
  <1>8. MarkedLocked'
    BY <1>1, MarkedKept
  <1> QED
    BY <1>3, <1>5, <1>6, <1>7, <1>8 DEF Inv

(* What the two updates of a registration make of it. *)
LEMMA Flushed ==
    ASSUME NEW r \in Registration, NEW b \in BOOLEAN
    PROVE  [r EXCEPT !.pc = "commit", !.first = b]
             = [pc |-> "commit", dev |-> r.dev, seen |-> r.seen, first |-> b]
  <1>1. [r EXCEPT !.pc = "commit"]
          = [pc |-> "commit", dev |-> r.dev, seen |-> r.seen, first |-> r.first]
    BY DEF Registration
  <1>2. [[pc |-> "commit", dev |-> r.dev, seen |-> r.seen, first |-> r.first]
          EXCEPT !.first = b]
          = [pc |-> "commit", dev |-> r.dev, seen |-> r.seen, first |-> b]
    OBVIOUS
  <1> QED
    BY <1>1, <1>2

LEMMA UpsertInv ==
    ASSUME Inv, NEW w \in Requests, Upsert(w)
    PROVE  Inv'
  <1> DEFINE x == req[w].dev
             n == [pc |-> "commit", dev |-> x, seen |-> req[w].seen,
                   first |-> seeded[OwnerOf[x]] = 0]
  <1>1. /\ x \in Devices /\ OwnerOf[x] \in Members /\ req[w] \in Registration
        /\ (seeded[OwnerOf[x]] = 0) \in BOOLEAN
    BY PushAssumption DEF Inv, TypeOK, Registration
  <1>2. n \in Registration
    BY <1>1 DEF Registration
  <1>3. req' = [req EXCEPT ![w] = n]
    <2>1. req' = [req EXCEPT ![w] = [req[w] EXCEPT !.pc = "commit",
                                                   !.first = seeded[OwnerOf[x]] = 0]]
      BY DEF Upsert, FirstRegistration, Inv, TypeOK
    <2>2. [req[w] EXCEPT !.pc = "commit", !.first = seeded[OwnerOf[x]] = 0] = n
      BY <1>1, Flushed
    <2> QED
      BY <2>1, <2>2
  <1>4. /\ UNCHANGED <<reg, stale, seeded, excused, disp, pass>>
        /\ lock[x] = Free /\ lock' = [lock EXCEPT ![x] = w]
    BY DEF Upsert, table
  <1>5. /\ req'[w].pc = "commit" /\ req'[w].dev = x
        /\ req'[w].first <=> seeded[OwnerOf[x]] = 0
        /\ \A v \in Requests : v # w => req'[v] = req[v]
    BY <1>3 DEF Inv, TypeOK
  <1>6. TypeOK'
    BY <1>2, <1>3, <1>4 DEF Inv, TypeOK, Sessions
  <1>7. SeedsBounded'
    <2> SUFFICES ASSUME NEW u \in Members
                 PROVE  seeded[u] + Cardinality(Seeding(u)') <= Cardinality(Requests)
      BY <1>4 DEF SeedsBounded
    <2>1. CASE seeded[u] = 0
      <3>1. Seeding(u)' \in SUBSET Requests
        BY DEF Seeding
      <3>2. Cardinality(Seeding(u)') \in Nat /\ Cardinality(Seeding(u)') <= Cardinality(Requests)
        BY <3>1, PushAssumption, FS_Subset, FS_CardinalityType
      <3> QED
        BY <3>2, <2>1, Constants
    <2>2. CASE seeded[u] # 0
      <3>1. Seeding(u)' \subseteq Seeding(u)
        BY <1>5, <2>2 DEF Seeding
      <3>2. Cardinality(Seeding(u)') <= Cardinality(Seeding(u)) /\ Cardinality(Seeding(u)') \in Nat
        BY <3>1, SeedingCard, FS_Subset, FS_CardinalityType DEF Inv
      <3>3. seeded[u] + Cardinality(Seeding(u)) <= Cardinality(Requests) /\ seeded[u] \in Nat
        BY Constants DEF Inv, SeedsBounded, TypeOK
      <3> QED
        BY <3>2, <3>3, SeedingCard, Constants DEF Inv
    <2> QED
      BY <2>1, <2>2
  <1>8. FoundSeeds'
    <2>1. seeded[OwnerOf[x]] \in Nat
      BY <1>1, Constants DEF Inv, TypeOK
    <2> QED
      BY <1>4, <1>5, <2>1 DEF FoundSeeds, Inv
  <1>9. DefaultsSeeded' /\ FreshIsActive' /\ OwedAhead' /\ LeftEligible'
    BY <1>4 DEF Inv, DefaultsSeeded, FreshIsActive, OwedAhead, LeftEligible, Eligible
  <1>10. MarkedLocked'
    <2>1. \A y \in Devices : lock[y] \in Janitors => lock'[y] = lock[y]
      BY <1>4, PushAssumption DEF Inv, TypeOK
    <2> QED
      BY <1>4, <2>1, MarkedKept
  <1> QED
    BY <1>6, <1>7, <1>8, <1>9, <1>10 DEF Inv

LEMMA RegisterInv ==
    ASSUME Inv, NEW w \in Requests, Register(w)
    PROVE  Inv'
  <1> DEFINE x == req[w].dev
             o == OwnerOf[x]
  <1>1. /\ x \in Devices /\ o \in Members /\ req[w] \in Registration
        /\ req[w].first \in BOOLEAN /\ req[w].pc = "commit"
    BY PushAssumption DEF Inv, TypeOK, Registration, Register
  <1>2. /\ reg' = [reg EXCEPT ![x] = RowAfter(w)]
        /\ stale' = stale \ {x}
        /\ excused' = (excused \ {x}) \cup {y \in {x} : Crossed(w)}
        /\ lock' = Unlocked(w)
        /\ req' = [req EXCEPT ![w] = NoRequest]
        /\ UNCHANGED <<disp, pass>>
    BY DEF Register
  <1>3. RowAfter(w) \in Rows /\ (RowAfter(w) = "active" \/ RowAfter(w) = reg[x])
    BY <1>1 DEF RowAfter, Rows, Inv, TypeOK
  <1>4. /\ reg'[x] = RowAfter(w)
        /\ \A y \in Devices : y # x => reg'[y] = reg[y]
    BY <1>1, <1>2 DEF Inv, TypeOK
  <1>5. /\ req'[w].pc = "idle"
        /\ \A v \in Requests : v # w => req'[v] = req[v]
    BY <1>2 DEF Inv, TypeOK, NoRequest
  <1>6. /\ \A u \in Members : seeded[u] \in Nat
        /\ seeded' \in [Members -> Nat] /\ seeded \in [Members -> Nat]
        /\ \A u \in Members : seeded'[u] >= seeded[u]
        /\ \A u \in Members : u # o => seeded'[u] = seeded[u]
        /\ req[w].first => seeded'[o] = seeded[o] + 1
        /\ ~req[w].first => seeded'[o] = seeded[o]
    <2>1. seeded \in [Members -> Nat]
      BY Constants DEF Inv, TypeOK
    <2>2. seeded' = IF req[w].first THEN [seeded EXCEPT ![o] = @ + 1] ELSE seeded
      BY DEF Register, SeededAfter
    <2> QED
      BY <1>1, <2>1, <2>2
  <1>7. SeedsBounded'
    <2> SUFFICES ASSUME NEW u \in Members
                 PROVE  seeded'[u] + Cardinality(Seeding(u)') <= Cardinality(Requests)
      BY DEF SeedsBounded
    <2>1. Seeding(u)' = Seeding(u) \ {w}
      BY <1>5 DEF Seeding
    <2>2. w \in Seeding(u) <=> req[w].first /\ o = u
      BY <1>1 DEF Seeding
    <2>3. /\ Cardinality(Seeding(u)') = IF w \in Seeding(u) THEN Cardinality(Seeding(u)) - 1
                                        ELSE Cardinality(Seeding(u))
      BY <2>1, SeedingCard, FS_RemoveElement DEF Inv
    <2>4. seeded[u] + Cardinality(Seeding(u)) <= Cardinality(Requests)
      BY DEF Inv, SeedsBounded
    <2>5. Cardinality(Seeding(u)) \in Nat /\ seeded[u] \in Nat
      BY SeedingCard, <1>6 DEF Inv
    <2>6. CASE req[w].first /\ o = u
      <3>1. Cardinality(Seeding(u)') = Cardinality(Seeding(u)) - 1
        BY <2>2, <2>3, <2>6
      <3>2. seeded'[u] = seeded[u] + 1
        BY <1>6, <2>6
      <3> QED
        BY <3>1, <3>2, <2>4, <2>5, Constants
    <2>7. CASE ~(req[w].first /\ o = u)
      <3>1. Cardinality(Seeding(u)') = Cardinality(Seeding(u))
        BY <2>2, <2>3, <2>7
      <3>2. seeded'[u] = seeded[u]
        BY <1>6, <2>7
      <3> QED
        BY <3>1, <3>2, <2>4
    <2> QED
      BY <2>6, <2>7
  <1>8. TypeOK'
    <2>1. \A u \in Members : seeded'[u] \in 0..Cardinality(Requests)
      <3> SUFFICES ASSUME NEW u \in Members
                   PROVE  seeded'[u] \in 0..Cardinality(Requests)
        OBVIOUS
      <3>1. Seeding(u)' \in SUBSET Requests
        BY DEF Seeding
      <3>2. Cardinality(Seeding(u)') \in Nat
        BY <3>1, PushAssumption, FS_Subset, FS_CardinalityType
      <3>3. seeded'[u] + Cardinality(Seeding(u)') <= Cardinality(Requests)
        BY <1>7 DEF SeedsBounded
      <3>4. seeded'[u] \in Nat
        BY <1>6
      <3> QED
        BY <3>2, <3>3, <3>4, Constants
    <2>2. seeded' \in [Members -> 0..Cardinality(Requests)]
      BY <2>1, <1>6
    <2>3. reg' \in [Devices -> Rows]
      BY <1>2, <1>3 DEF Inv, TypeOK
    <2>4. stale' \subseteq {y \in Devices : reg'[y] # "none"}
      BY <1>2, <1>4 DEF Inv, TypeOK
    <2>5. lock' \in [Devices -> Sessions \cup {Free}]
      BY <1>2, UnlockedType DEF Inv
    <2>6. req' \in [Requests -> Registration]
      BY <1>2, Constants DEF Inv, TypeOK
    <2>7. excused' \subseteq Devices /\ disp' \in [Dispatches -> Dispatch]
          /\ pass' \in [Janitors -> Pass]
      BY <1>1, <1>2 DEF Inv, TypeOK
    <2> QED
      BY <2>2, <2>3, <2>4, <2>5, <2>6, <2>7 DEF TypeOK
  <1>9. FoundSeeds'
    <2> SUFFICES ASSUME NEW v \in Requests, req'[v].pc = "commit", ~req'[v].first
                 PROVE  seeded'[OwnerOf[req'[v].dev]] >= 1
      BY DEF FoundSeeds
    <2>1. req'[v] = req[v]
      BY <1>5
    <2>2. seeded[OwnerOf[req[v].dev]] >= 1 /\ OwnerOf[req[v].dev] \in Members
      BY <2>1, PushAssumption DEF Inv, FoundSeeds, TypeOK, Registration
    <2> QED
      BY <2>1, <2>2, <1>6
  <1>10. DefaultsSeeded'
    <2> SUFFICES ASSUME NEW y \in Devices, reg'[y] # "none"
                 PROVE  seeded'[OwnerOf[y]] >= 1
      BY DEF DefaultsSeeded
    <2>1. OwnerOf[y] \in Members
      BY PushAssumption
    <2>2. CASE y # x
      <3>1. seeded[OwnerOf[y]] >= 1
        BY <1>4, <2>2 DEF Inv, DefaultsSeeded
      <3> QED
        BY <3>1, <2>1, <1>6
    <2>3. CASE y = x
      <3>1. seeded'[o] >= 1
        <4>1. CASE req[w].first
          BY <4>1, <1>1, <1>6
        <4>2. CASE ~req[w].first
          <5>1. seeded[o] >= 1
            BY <4>2, <1>1 DEF Inv, FoundSeeds
          <5> QED
            BY <5>1, <4>2, <1>6
        <4> QED
          BY <4>1, <4>2
      <3> QED
        BY <3>1, <2>3
    <2> QED
      BY <2>2, <2>3
  <1>11. FreshIsActive'
    <2> SUFFICES ASSUME NEW y \in Devices, y \notin stale', y \notin excused'
                 PROVE  reg'[y] # "revoked"
      BY DEF FreshIsActive
    <2>1. CASE y # x
      BY <1>2, <1>4, <2>1 DEF Inv, FreshIsActive
    <2>2. CASE y = x
      <3>1. ~(req[w].seen = "active" /\ reg[x] = "revoked")
        BY <1>2, <2>2 DEF Crossed
      <3> QED
        BY <1>4, <2>2, <3>1 DEF RowAfter
    <2> QED
      BY <2>1, <2>2
  <1>12. OwedAhead' /\ LeftEligible'
    <2>1. \A y \in Devices : reg[y] = "active" => reg'[y] = "active"
      BY <1>3, <1>4
    <2>2. \A d \in Dispatches : disp[d].owed \subseteq Devices
      BY DEF Inv, TypeOK, Dispatch
    <2> QED
      BY <1>2, <2>1, <2>2 DEF Inv, OwedAhead, LeftEligible, Eligible
  <1>13. MarkedLocked'
    <2>1. \A y \in Devices : reg[y] # "none" => reg'[y] # "none"
      BY <1>3, <1>4
    <2> QED
      BY <1>2, <2>1, UnlockedKept, MarkedKept
  <1> QED
    BY <1>7, <1>8, <1>9, <1>10, <1>11, <1>12, <1>13 DEF Inv

LEMMA RequestFailsInv ==
    ASSUME Inv, NEW w \in Requests, RequestFails(w)
    PROVE  Inv'
  <1>1. /\ req' = [req EXCEPT ![w] = NoRequest] /\ lock' = Unlocked(w)
        /\ UNCHANGED <<reg, stale, seeded, excused, disp, pass>>
    BY DEF RequestFails, table
  <1>2. /\ req'[w].pc = "idle"
        /\ \A v \in Requests : v # w => req'[v] = req[v]
    BY <1>1 DEF Inv, TypeOK, NoRequest
  <1>3. TypeOK'
    BY <1>1, UnlockedType, Constants DEF Inv, TypeOK
  <1>4. \A u \in Members : Seeding(u)' \subseteq Seeding(u)
    BY <1>2 DEF Seeding
  <1>5. SeedsBounded'
    BY <1>1, <1>4, SeedsStay DEF Inv
  <1>6. FoundSeeds'
    BY <1>1, <1>2 DEF FoundSeeds, Inv
  <1>7. DefaultsSeeded' /\ FreshIsActive' /\ OwedAhead' /\ LeftEligible'
    BY <1>1 DEF Inv, DefaultsSeeded, FreshIsActive, OwedAhead, LeftEligible, Eligible
  <1>8. MarkedLocked'
    BY <1>1, UnlockedKept, MarkedKept
  <1> QED
    BY <1>3, <1>5, <1>6, <1>7, <1>8 DEF Inv

(* A step that revokes or deletes rows takes them off every list of what is *)
(* owed.                                                                    *)
LEMMA OwedDropped ==
    ASSUME Inv, NEW X \in SUBSET Devices, disp' = Dropped(X),
           \A x \in Devices \ X : reg'[x] = reg[x]
    PROVE  OwedAhead' /\ LeftEligible'
  <1>1. \A d \in Dispatches : disp[d].owed \subseteq Devices
    BY DEF Inv, TypeOK, Dispatch
  <1> QED
    BY <1>1, DroppedFacts DEF Inv, OwedAhead, LeftEligible, Eligible

LEMMA DeleteDeviceInv ==
    ASSUME Inv, NEW x \in Devices, DeleteDevice(x)
    PROVE  Inv'
  <1>1. /\ lock[x] = Free
        /\ reg' = [reg EXCEPT ![x] = "none"] /\ stale' = stale \ {x}
        /\ excused' = excused \ {x}
        /\ disp' = Dropped({x}) /\ UNCHANGED <<seeded, lock, req, pass>>
    BY DEF DeleteDevice
  <1>2. reg'[x] = "none" /\ \A y \in Devices \ {x} : reg'[y] = reg[y]
    BY <1>1 DEF Inv, TypeOK
  <1>3. TypeOK'
    BY <1>1, <1>2, DroppedFacts DEF Inv, TypeOK, Rows
  <1>4. SeedsBounded' /\ FoundSeeds'
    BY <1>1, SeedsUntouched DEF Inv
  <1>5. DefaultsSeeded' /\ FreshIsActive'
    BY <1>1, <1>2 DEF Inv, DefaultsSeeded, FreshIsActive
  <1>6. OwedAhead' /\ LeftEligible'
    BY <1>1, <1>2, OwedDropped
  <1>7. MarkedLocked'
    <2>1. \A y \in Devices : lock[y] \in Janitors =>
            /\ lock'[y] = lock[y]
            /\ reg[y] # "none" => reg'[y] # "none"
      BY <1>1, <1>2, PushAssumption
    <2> QED
      BY <1>1, <2>1, MarkedKept
  <1> QED
    BY <1>3, <1>4, <1>5, <1>6, <1>7 DEF Inv

LEMMA AgeInv ==
    ASSUME Inv, NEW x \in Devices, Age(x)
    PROVE  Inv'
  <1>1. /\ reg[x] # "none" /\ stale' = stale \cup {x}
        /\ UNCHANGED <<reg, seeded, lock, req, disp, pass, excused>>
    BY DEF Age
  <1>2. TypeOK'
    BY <1>1 DEF Inv, TypeOK
  <1>3. SeedsBounded' /\ FoundSeeds'
    BY <1>1, SeedsUntouched DEF Inv
  <1>4. DefaultsSeeded' /\ FreshIsActive' /\ OwedAhead' /\ LeftEligible'
    BY <1>1 DEF Inv, DefaultsSeeded, FreshIsActive, OwedAhead, LeftEligible, Eligible
  <1>5. MarkedLocked'
    BY <1>1, MarkedKept
  <1> QED
    BY <1>2, <1>3, <1>4, <1>5 DEF Inv

---------------------------------------------------------------------------
(* Dispatches *)

(* What the updates of a dispatch make of it. *)
LEMMA Considered ==
    ASSUME NEW r \in Dispatch, NEW t, NEW l
    PROVE  [r EXCEPT !.todo = t, !.left = l]
             = [pc |-> r.pc, event |-> r.event, actor |-> r.actor,
                todo |-> t, left |-> l,
                invalid |-> r.invalid, owed |-> r.owed]
  <1> DEFINE R(x, y) == [pc |-> r.pc, event |-> r.event, actor |-> r.actor,
                         todo |-> x, left |-> y,
                         invalid |-> r.invalid, owed |-> r.owed]
  <1>1. [r EXCEPT !.todo = t] = R(t, r.left)
    BY DEF Dispatch
  <1>2. [R(t, r.left) EXCEPT !.left = l] = R(t, l)
    OBVIOUS
  <1> HIDE DEF R
  <1>3. [r EXCEPT !.todo = t, !.left = l] = R(t, l)
    BY <1>1, <1>2
  <1> QED
    BY <1>3 DEF R

LEMMA Sent ==
    ASSUME NEW r \in Dispatch, NEW x, NEW i
    PROVE  [r EXCEPT !.left = r.left \ {x}, !.owed = r.owed \ {x}, !.invalid = i]
             = [pc |-> r.pc, event |-> r.event, actor |-> r.actor,
                todo |-> r.todo, left |-> r.left \ {x},
                invalid |-> i, owed |-> r.owed \ {x}]
  <1> DEFINE l == r.left \ {x}
             o == r.owed \ {x}
             R(a, b, c) == [pc |-> r.pc, event |-> r.event, actor |-> r.actor,
                            todo |-> r.todo, left |-> a,
                            invalid |-> b, owed |-> c]
  <1> HIDE DEF l, o
  <1>1. [r EXCEPT !.left = l] = R(l, r.invalid, r.owed)
    BY DEF Dispatch
  <1>2. [R(l, r.invalid, r.owed) EXCEPT !.owed = o] = R(l, r.invalid, o)
    OBVIOUS
  <1>3. [R(l, r.invalid, o) EXCEPT !.invalid = i] = R(l, i, o)
    OBVIOUS
  <1> HIDE DEF R
  <1>4. [r EXCEPT !.left = l, !.owed = o, !.invalid = i] = R(l, i, o)
    BY <1>1, <1>2, <1>3
  <1> QED
    BY <1>4 DEF R, l, o

LEMMA StartDispatchInv ==
    ASSUME Inv, NEW d \in Dispatches, NEW e \in Events, NEW a \in Members,
           StartDispatch(d, e, a)
    PROVE  Inv'
  <1>0. PICK on \in OthersOnline(e, a) :
          disp' = [disp EXCEPT ![d] =
                     [pc |-> "run", event |-> e, actor |-> a,
                      todo |-> Members, left |-> {}, invalid |-> {},
                      owed |-> {x \in Active : Eligible(x, e, a) /\ OwnerOf[x] \notin on}]]
    BY DEF StartDispatch
  <1> DEFINE o == {x \in Active : Eligible(x, e, a) /\ OwnerOf[x] \notin on}
             n == [pc |-> "run", event |-> e, actor |-> a,
                   todo |-> Members, left |-> {}, invalid |-> {}, owed |-> o]
  <1>1. o \subseteq Devices /\ \A x \in o : reg[x] = "active" /\ Eligible(x, e, a)
    BY DEF Active
  <1>2. n \in Dispatch
    BY <1>1 DEF Dispatch, OthersOnline
  <1>3. disp' = [disp EXCEPT ![d] = n]
    BY <1>0
  <1>4. /\ UNCHANGED <<table, req, pass>> /\ lock' = lock
        /\ lock' \in [Devices -> Sessions \cup {Free}]
    BY DEF StartDispatch, Inv, TypeOK
  <1>5. \A x \in n.owed : /\ reg[x] = "active"
                          /\ Eligible(x, n.event, n.actor)
                          /\ OwnerOf[x] \in n.todo \/ x \in n.left
    BY <1>1, PushAssumption
  <1>6. \A x \in n.left : Eligible(x, n.event, n.actor)
    OBVIOUS
  <1> HIDE DEF n
  <1> QED
    BY <1>2, <1>3, <1>4, <1>5, <1>6, DispatchStep

(* The step of a dispatch that ends it, in whatever way. *)
LEMMA DispatchOver ==
    ASSUME Inv, NEW d \in Dispatches, disp' = [disp EXCEPT ![d] = NoDispatch],
           lock' = Unlocked(d), UNCHANGED <<table, req, pass>>
    PROVE  Inv'
  <1>1. NoDispatch \in Dispatch /\ lock' \in [Devices -> Sessions \cup {Free}]
    BY Constants, UnlockedType DEF Inv
  <1>2. NoDispatch.pc = "idle" /\ NoDispatch.left = {}
    BY DEF NoDispatch
  <1> QED
    BY <1>1, <1>2, UnlockedKept, DispatchStep

(* The preferences decide as the event does: a member with a device has the *)
(* defaults.                                                                *)
LEMMA ConsiderInv ==
    ASSUME Inv, NEW d \in Dispatches, NEW u \in Members, Consider(d, u)
    PROVE  Inv'
  <1> DEFINE r == disp[d]
             l == IF ShouldNotify(d, u) THEN {x \in Active : OwnerOf[x] = u} ELSE {}
             n == [pc |-> r.pc, event |-> r.event, actor |-> r.actor,
                   todo |-> r.todo \ {u}, left |-> l,
                   invalid |-> r.invalid, owed |-> r.owed]
  <1>1. r \in Dispatch /\ r.pc = "run" /\ r.left = {}
    BY DEF Inv, TypeOK, Consider
  <1>2. l \subseteq Devices /\ \A x \in l : x \in Active /\ OwnerOf[x] = u
    BY DEF Active
  <1>3. n \in Dispatch
    BY <1>1, <1>2 DEF Dispatch
  <1>4. disp' = [disp EXCEPT ![d] = n]
    <2>1. disp' = [disp EXCEPT ![d] = [r EXCEPT !.todo = r.todo \ {u}, !.left = l]]
      BY DEF Consider, Inv, TypeOK
    <2>2. [r EXCEPT !.todo = r.todo \ {u}, !.left = l] = n
      BY <1>1, Considered
    <2> QED
      BY <2>1, <2>2
  <1>5. /\ UNCHANGED <<table, req, pass>> /\ lock' = lock
        /\ lock' \in [Devices -> Sessions \cup {Free}]
    BY DEF Consider, Inv, TypeOK
  <1>6. \A x \in Active : OwnerOf[x] = u => seeded[u] # 0
    <2>1. seeded[u] \in Nat
      BY Constants DEF Inv, TypeOK
    <2> QED
      BY <2>1 DEF Active, Inv, DefaultsSeeded
  <1>7. \A x \in Active : OwnerOf[x] = u =>
          (ShouldNotify(d, u) <=> Eligible(x, r.event, r.actor))
    BY <1>6 DEF ShouldNotify, Eligible
  <1>8. \A x \in r.owed : /\ x \in Devices /\ reg[x] = "active"
                          /\ Eligible(x, r.event, r.actor)
                          /\ OwnerOf[x] \in r.todo
    BY <1>1 DEF Inv, OwedAhead, Dispatch
  <1>9. \A x \in r.owed : OwnerOf[x] \in r.todo \ {u} \/ x \in l
    BY <1>7, <1>8 DEF Active
  <1>10. \A x \in l : Eligible(x, r.event, r.actor)
    BY <1>2, <1>7
  <1>11. /\ \A x \in n.owed : /\ reg[x] = "active"
                              /\ Eligible(x, n.event, n.actor)
                              /\ OwnerOf[x] \in n.todo \/ x \in n.left
         /\ \A x \in n.left : Eligible(x, n.event, n.actor)
    BY <1>8, <1>9, <1>10
  <1> HIDE DEF n
  <1> QED
    BY <1>3, <1>4, <1>5, <1>11, DispatchStep

LEMMA SendInv ==
    ASSUME Inv, NEW d \in Dispatches, NEW x \in Devices, Send(d, x)
    PROVE  Inv'
  <1> DEFINE r == disp[d]
  <1>1. PICK i \in {{}, {x}} :
          /\ disp' = [disp EXCEPT ![d].left = @ \ {x}, ![d].owed = @ \ {x},
                                  ![d].invalid = i]
          /\ excused' = excused \cup i
    BY DEF Send
  <1> DEFINE n == [pc |-> r.pc, event |-> r.event, actor |-> r.actor,
                   todo |-> r.todo, left |-> r.left \ {x},
                   invalid |-> i, owed |-> r.owed \ {x}]
  <1>2. r \in Dispatch /\ r.pc = "run"
    BY DEF Inv, TypeOK, Send
  <1>3. n \in Dispatch
    BY <1>2 DEF Dispatch
  <1>4. disp' = [disp EXCEPT ![d] = n]
    <2>1. disp' = [disp EXCEPT ![d] = [r EXCEPT !.left = r.left \ {x},
                                                !.owed = r.owed \ {x},
                                                !.invalid = i]]
      BY <1>1 DEF Inv, TypeOK
    <2>2. [r EXCEPT !.left = r.left \ {x}, !.owed = r.owed \ {x}, !.invalid = i] = n
      BY <1>2, Sent
    <2> QED
      BY <2>1, <2>2
  <1>5. /\ UNCHANGED <<reg, stale, seeded, req, pass>> /\ lock' = lock
        /\ lock' \in [Devices -> Sessions \cup {Free}]
        /\ excused \subseteq excused' /\ excused' \subseteq Devices
    BY <1>1 DEF Send, Inv, TypeOK
  <1>6. /\ \A y \in r.owed : /\ reg[y] = "active"
                             /\ Eligible(y, r.event, r.actor)
                             /\ OwnerOf[y] \in r.todo \/ y \in r.left
        /\ \A y \in r.left : Eligible(y, r.event, r.actor)
    BY <1>2 DEF Inv, OwedAhead, LeftEligible
  <1>7. /\ \A y \in n.owed : /\ reg[y] = "active"
                             /\ Eligible(y, n.event, n.actor)
                             /\ OwnerOf[y] \in n.todo \/ y \in n.left
        /\ \A y \in n.left : Eligible(y, n.event, n.actor)
    BY <1>6
  <1> HIDE DEF n
  <1> QED
    BY <1>3, <1>4, <1>5, <1>7, DispatchMoves

LEMMA RevokeByTokenInv ==
    ASSUME Inv, NEW d \in Dispatches, NEW x \in Devices, RevokeByToken(d, x)
    PROVE  Inv'
  <1> DEFINE r == disp[d]
             n == [pc |-> r.pc, event |-> r.event, actor |-> r.actor,
                   todo |-> r.todo, left |-> r.left,
                   invalid |-> {}, owed |-> r.owed]
  <1>1. r \in Dispatch /\ r.pc = "run"
    BY DEF Inv, TypeOK, RevokeByToken
  <1>2. n \in Dispatch
    BY <1>1 DEF Dispatch
  <1>3. disp' = [disp EXCEPT ![d] = n]
    <2>1. disp' = [disp EXCEPT ![d] = [r EXCEPT !.invalid = {}]]
      BY DEF RevokeByToken, Inv, TypeOK
    <2>2. [r EXCEPT !.invalid = {}] = n
      <3> HIDE DEF r
      <3> QED
        BY <1>1 DEF Dispatch
    <2> QED
      BY <2>1, <2>2
  <1>4. UNCHANGED <<table, req, pass>>
    BY DEF RevokeByToken
  <1>5. /\ lock' \in [Devices -> Sessions \cup {Free}]
        /\ \A y \in Devices : lock[y] \in Janitors => lock'[y] = lock[y]
    BY PushAssumption DEF RevokeByToken, Inv, TypeOK, Sessions
  <1>6. /\ \A y \in n.owed : /\ reg[y] = "active"
                             /\ Eligible(y, n.event, n.actor)
                             /\ OwnerOf[y] \in n.todo \/ y \in n.left
        /\ \A y \in n.left : Eligible(y, n.event, n.actor)
    BY <1>1 DEF Inv, OwedAhead, LeftEligible
  <1> HIDE DEF n
  <1> QED
    BY <1>2, <1>3, <1>4, <1>5, <1>6, DispatchStep

---------------------------------------------------------------------------
(* Janitors *)

(* A step of a janitor that only reads and flushes. *)
LEMMA PassStep ==
    ASSUME Inv, UNCHANGED <<table, req, disp>>,
           lock' \in [Devices -> Sessions \cup {Free}],
           NEW j \in Janitors, NEW n \in Pass, pass' = [pass EXCEPT ![j] = n],
           \A x \in Devices : lock[x] \in Janitors \ {j} => lock'[x] = lock[x],
           \A x \in n.marked : lock'[x] = j /\ reg[x] # "none"
    PROVE  Inv'
  <1> USE DEF table
  <1>1. TypeOK'
    BY DEF Inv, TypeOK
  <1>2. SeedsBounded' /\ FoundSeeds'
    BY SeedsUntouched DEF Inv
  <1>3. DefaultsSeeded' /\ FreshIsActive' /\ OwedAhead' /\ LeftEligible'
    BY DEF Inv, DefaultsSeeded, FreshIsActive, OwedAhead, LeftEligible, Eligible
  <1>4. MarkedLocked'
    <2>1. \A k \in Janitors : pass[k].marked \subseteq Devices
      BY DEF Inv, TypeOK, Pass
    <2>2. pass'[j] = n /\ \A k \in Janitors : k # j => pass'[k] = pass[k]
      BY DEF Inv, TypeOK
    <2> QED
      BY <2>1, <2>2 DEF Inv, MarkedLocked
  <1> QED
    BY <1>1, <1>2, <1>3, <1>4 DEF Inv

LEMMA ListStaleInv ==
    ASSUME Inv, NEW j \in Janitors, ListStale(j)
    PROVE  Inv'
  <1> DEFINE n == [on |-> TRUE, left |-> Active \cap stale, marked |-> {}]
  <1>1. n \in Pass
    BY DEF Pass, Active
  <1>2. /\ pass' = [pass EXCEPT ![j] = n] /\ UNCHANGED <<table, req, disp>>
        /\ lock' = lock /\ lock' \in [Devices -> Sessions \cup {Free}]
    BY DEF ListStale, Inv, TypeOK
  <1>3. n.marked = {}
    OBVIOUS
  <1> HIDE DEF n
  <1> QED
    BY <1>1, <1>2, <1>3, PassStep

LEMMA RevokeInv ==
    ASSUME Inv, NEW j \in Janitors, NEW x \in Devices, Revoke(j, x)
    PROVE  Inv'
  <1> DEFINE r == pass[j]
             gone == [r EXCEPT !.left = r.left \ {x}]
             flushed == [r EXCEPT !.left = r.left \ {x}, !.marked = r.marked \cup {x}]
  <1>1. r \in Pass /\ \A y \in r.marked : y \in Devices /\ lock[y] = j /\ reg[y] # "none"
    BY DEF Inv, TypeOK, Pass, MarkedLocked
  <1>2. /\ gone \in Pass /\ gone.marked = r.marked
        /\ flushed \in Pass /\ flushed.marked = r.marked \cup {x}
    <2> HIDE DEF r
    <2> QED
      BY <1>1 DEF Pass
  <1>3. UNCHANGED <<table, req, disp>>
    BY DEF Revoke
  <1>4. CASE reg[x] = "none"
    <2>1. pass' = [pass EXCEPT ![j] = gone]
      BY <1>4 DEF Revoke, Inv, TypeOK
    <2>2. lock' = lock /\ lock' \in [Devices -> Sessions \cup {Free}]
      BY <1>4 DEF Revoke, Inv, TypeOK
    <2>3. \A y \in gone.marked : lock'[y] = j /\ reg[y] # "none"
      BY <1>1, <1>2, <2>2
    <2> HIDE DEF gone
    <2> QED
      BY <1>2, <1>3, <2>1, <2>2, <2>3, PassStep
  <1>5. CASE reg[x] # "none"
    <2>1. pass' = [pass EXCEPT ![j] = flushed]
      BY <1>5 DEF Revoke, Inv, TypeOK
    <2>2. lock[x] = Free /\ lock' = [lock EXCEPT ![x] = j]
      BY <1>5 DEF Revoke
    <2>3. /\ lock' \in [Devices -> Sessions \cup {Free}]
          /\ lock'[x] = j
          /\ \A y \in Devices : y # x => lock'[y] = lock[y]
      BY <2>2 DEF Inv, TypeOK, Sessions
    <2>4. \A y \in flushed.marked : lock'[y] = j /\ reg[y] # "none"
      BY <1>1, <1>2, <1>5, <2>3
    <2>5. \A y \in Devices : lock[y] \in Janitors \ {j} => lock'[y] = lock[y]
      BY <2>2, <2>3, PushAssumption
    <2> HIDE DEF flushed
    <2> QED
      BY <1>2, <1>3, <2>1, <2>3, <2>4, <2>5, PassStep
  <1> QED
    BY <1>4, <1>5

LEMMA CommitPassInv ==
    ASSUME Inv, NEW j \in Janitors, CommitPass(j)
    PROVE  Inv'
  <1> DEFINE X == pass[j].marked
  <1>1. X \in SUBSET Devices /\ \A x \in X : lock[x] = j /\ reg[x] # "none"
    BY DEF Inv, TypeOK, Pass, MarkedLocked
  <1>2. /\ reg' = [x \in Devices |-> IF x \in X THEN "revoked" ELSE reg[x]]
        /\ excused' = excused \cup (X \ stale)
        /\ lock' = Unlocked(j)
        /\ disp' = Dropped(X)
        /\ pass' = [pass EXCEPT ![j] = NoPass]
        /\ UNCHANGED <<stale, seeded, req>>
    BY DEF CommitPass
  <1> HIDE DEF X
  <1>3. \A x \in Devices : reg'[x] = IF x \in X THEN "revoked" ELSE reg[x]
    BY <1>2
  <1>4. /\ Dropped(X) \in [Dispatches -> Dispatch]
        /\ Unlocked(j) \in [Devices -> Sessions \cup {Free}]
    BY <1>1, DroppedFacts, UnlockedType DEF Inv
  <1>5. TypeOK'
    <2>1. reg' \in [Devices -> Rows]
      BY <1>2 DEF Inv, TypeOK, Rows
    <2>2. stale' \subseteq {x \in Devices : reg'[x] # "none"}
      BY <1>2, <1>3 DEF Inv, TypeOK
    <2>3. pass' \in [Janitors -> Pass]
      BY <1>2, Constants DEF Inv, TypeOK
    <2>4. excused' \subseteq Devices
      BY <1>1, <1>2 DEF Inv, TypeOK
    <2> QED
      BY <1>2, <1>4, <2>1, <2>2, <2>3, <2>4 DEF Inv, TypeOK
  <1>6. SeedsBounded' /\ FoundSeeds'
    BY <1>2, SeedsUntouched DEF Inv
  <1>7. DefaultsSeeded' /\ FreshIsActive'
    BY <1>1, <1>2, <1>3 DEF Inv, DefaultsSeeded, FreshIsActive
  <1>8. OwedAhead' /\ LeftEligible'
    BY <1>1, <1>2, <1>3, OwedDropped
  <1>9. MarkedLocked'
    <2> SUFFICES ASSUME NEW k \in Janitors, NEW x \in pass'[k].marked
                 PROVE  lock'[x] = k /\ reg'[x] # "none"
      BY DEF MarkedLocked
    <2>1. k # j /\ pass'[k] = pass[k]
      BY <1>2 DEF Inv, TypeOK, NoPass
    <2>2. x \in Devices /\ lock[x] = k /\ reg[x] # "none"
      BY <2>1 DEF Inv, TypeOK, Pass, MarkedLocked
    <2> QED
      BY <1>2, <1>3, <2>1, <2>2 DEF Unlocked
  <1> QED
    BY <1>5, <1>6, <1>7, <1>8, <1>9 DEF Inv

LEMMA PassFailsInv ==
    ASSUME Inv, NEW j \in Janitors, PassFails(j)
    PROVE  Inv'
  <1>1. /\ UNCHANGED <<table, req, disp>>
        /\ lock' = Unlocked(j) /\ pass' = [pass EXCEPT ![j] = NoPass]
    BY DEF PassFails
  <1>2. /\ lock' \in [Devices -> Sessions \cup {Free}]
        /\ NoPass \in Pass /\ NoPass.marked = {}
    BY <1>1, UnlockedType, Constants DEF Inv, NoPass
  <1>3. \A x \in Devices : lock[x] \in Janitors \ {j} => lock'[x] = lock[x]
    BY <1>1 DEF Unlocked
  <1> QED
    BY <1>1, <1>2, <1>3, PassStep

---------------------------------------------------------------------------
LEMMA StutterInv ==
    ASSUME Inv, UNCHANGED vars
    PROVE  Inv'
  <1> USE DEF vars
  <1>1. SeedsBounded' /\ FoundSeeds'
    BY SeedsUntouched DEF Inv
  <1>2. /\ TypeOK' /\ DefaultsSeeded' /\ FreshIsActive'
        /\ OwedAhead' /\ LeftEligible' /\ MarkedLocked'
    BY DEF Inv, TypeOK, DefaultsSeeded, FreshIsActive, OwedAhead, LeftEligible,
       Eligible, MarkedLocked
  <1> QED
    BY <1>1, <1>2 DEF Inv

LEMMA NextInv == Inv /\ [Next]_vars => Inv'
  <1> SUFFICES ASSUME Inv, [Next]_vars PROVE Inv'
    OBVIOUS
  <1>1. ASSUME NEW w \in Requests, NEW x \in Devices, LoadDevice(w, x) PROVE Inv'
    BY <1>1, LoadDeviceInv
  <1>2. ASSUME NEW w \in Requests, Upsert(w) PROVE Inv'
    BY <1>2, UpsertInv
  <1>3. ASSUME NEW w \in Requests, Register(w) PROVE Inv'
    BY <1>3, RegisterInv
  <1>4. ASSUME NEW w \in Requests, RequestFails(w) PROVE Inv'
    BY <1>4, RequestFailsInv
  <1>5. ASSUME NEW x \in Devices, DeleteDevice(x) PROVE Inv'
    BY <1>5, DeleteDeviceInv
  <1>6. ASSUME NEW x \in Devices, Age(x) PROVE Inv'
    BY <1>6, AgeInv
  <1>7. ASSUME NEW d \in Dispatches, NEW e \in Events, NEW a \in Members,
               StartDispatch(d, e, a)
        PROVE  Inv'
    BY <1>7, StartDispatchInv
  <1>8. ASSUME NEW d \in Dispatches, NEW u \in Members, Consider(d, u) PROVE Inv'
    BY <1>8, ConsiderInv
  <1>9. ASSUME NEW d \in Dispatches, NEW u \in Members, Duplicated(d, u) PROVE Inv'
    BY <1>9, DispatchOver DEF Duplicated
  <1>10. ASSUME NEW d \in Dispatches, NEW x \in Devices, Send(d, x) PROVE Inv'
    BY <1>10, SendInv
  <1>11. ASSUME NEW d \in Dispatches, NEW x \in Devices, RevokeByToken(d, x) PROVE Inv'
    BY <1>11, RevokeByTokenInv
  <1>12. ASSUME NEW d \in Dispatches, EndDispatch(d) PROVE Inv'
    BY <1>12, DispatchOver DEF EndDispatch
  <1>13. ASSUME NEW d \in Dispatches, DispatchFails(d) PROVE Inv'
    BY <1>13, DispatchOver DEF DispatchFails
  <1>14. ASSUME NEW j \in Janitors, NEW x \in Devices, Revoke(j, x) PROVE Inv'
    BY <1>14, RevokeInv
  <1>15. ASSUME NEW j \in Janitors, ListStale(j) PROVE Inv'
    BY <1>15, ListStaleInv
  <1>16. ASSUME NEW j \in Janitors, CommitPass(j) PROVE Inv'
    BY <1>16, CommitPassInv
  <1>17. ASSUME NEW j \in Janitors, PassFails(j) PROVE Inv'
    BY <1>17, PassFailsInv
  <1>18. CASE UNCHANGED vars
    BY <1>18, StutterInv
  <1> QED
    BY <1>1, <1>2, <1>3, <1>4, <1>5, <1>6, <1>7, <1>8, <1>9, <1>10, <1>11, <1>12,
       <1>13, <1>14, <1>15, <1>16, <1>17, <1>18 DEF Next, Run

---------------------------------------------------------------------------
(* The invariant above holds in every state the code can reach. *)
THEOREM Invariance == Spec => []Inv
  BY InitInv, NextInv, PTL DEF Spec

(* Every registration, dispatch and pass has the shape the code gives it,    *)
(* and no member has more defaults inserted than there are registrations.  *)
THEOREM TypeCorrect == Spec => []TypeOK
  <1>1. Inv => TypeOK
    BY DEF Inv
  <1> QED
    BY <1>1, Invariance, PTL

(* However registrations of one member interleave, fail or are deleted, no   *)
(* device is registered before its owner has the default preferences       *)
(* (register_device asks before its own INSERT and seeds in the same        *)
(* transaction).                                                            *)
THEOREM DefaultsAlwaysSeeded == Spec => []DefaultsSeeded
  <1>1. Inv => DefaultsSeeded
    BY DEF Inv
  <1> QED
    BY <1>1, Invariance, PTL

(* Only a janitor that had a device listed before it registered again takes  *)
(* a device away that was seen within 60 days and whose token FCM still     *)
(* knows, for any number of replicas.                                       *)
THEOREM FreshStaysActive == Spec => []FreshIsActive
  <1>1. Inv => FreshIsActive
    BY DEF Inv
  <1> QED
    BY <1>1, Invariance, PTL

(* A dispatch that comes to its end has tried every device that was active   *)
(* all along and that its event is for, of those who were offline when the  *)
(* event is a ready_changed, and none that its event is not for.            *)
THEOREM EveryoneTried == Spec => []AllTried
  <1>1. Inv => AllTried
    <2> SUFFICES ASSUME Inv PROVE AllTried
      OBVIOUS
    <2>1. ASSUME NEW d \in Dispatches, AtItsEnd(d) PROVE disp[d].owed = {}
      BY <2>1 DEF AtItsEnd, Inv, OwedAhead
    <2>2. \A d \in Dispatches : \A x \in disp[d].left :
            Eligible(x, disp[d].event, disp[d].actor)
      BY DEF Inv, LeftEligible
    <2> QED
      BY <2>1, <2>2 DEF AllTried
  <1> QED
    BY <1>1, Invariance, PTL
=============================================================================
