---------------------------- MODULE AccountsProofs ----------------------------
(***************************************************************************)
(* Machine-checked proofs about Accounts, for any users and requests and   *)
(* any finite number of external accounts of each provider.                *)
(***************************************************************************)
EXTENDS Accounts, FiniteSetTheorems, TLAPS

Single(S) == \A a, b \in S : a = b

(* Whoever an external account signs in to, by a column or by a row.        *)
Signs(x) == Owners(x) \cup Holders(x)

(* What a request holds fits its operation. *)
Shape(n) ==
    /\ n.user \in live \cup {NoUser}
    /\ n.op \notin {"idle", "login"} => n.user \in live
    /\ n.about \subseteq n.provider
    /\ n.op \in {"login", "link", "linkWrite"} => \A x \in n.about : n.provider = Peers(x)
    /\ n.op \in {"unlink", "unlinkWrite"} => n.provider \in Providers
    /\ n.op \in {"profile", "profileWrite"} => n.provider = Externals
    /\ n.op \in {"unlink", "unlinkWrite", "profile"} => n.held \subseteq n.about
    /\ n.op = "profileWrite" => n.listed \subseteq n.about
    /\ n.op = "profile" => \A P \in Providers : Single(n.held \cap P)
    /\ n.op = "profileWrite" => \A P \in Providers : Single(n.listed \cap P)

(* What a request established about the external accounts it is about is     *)
(* still true, unless another request about them, or about the provider of *)
(* this user, wrote meanwhile.                                             *)
Established(n) == \A x \in n.about \ raced :
    /\ n.op \in {"login", "linkWrite"} => Signs(x) \subseteq {n.user}
    /\ n.op = "login" => x \notin revoked
    /\ n.op \in {"unlink", "unlinkWrite", "profile", "profileWrite"} => x \in Own(n.user)

(* An unlink is about everything the user has of the provider.              *)
Encloses(n) ==
    /\ n.op \in {"unlink", "unlinkWrite"} =>
         Own(n.user) \cap n.provider \subseteq n.about \cup raced
    /\ n.op = "unlinkWrite" /\ n.provider = Discord =>
         n.listed \cap Discord \subseteq n.about \cup raced

(* An unlink that has counted leaves a way to sign in. *)
Counted(n) == n.op = "unlinkWrite" =>
    \/ n.user \in crowded \cup password
    \/ (identity[n.user] \cap Externals) \ n.provider # {}

JobOK(n) == Shape(n) /\ Established(n) /\ Encloses(n) /\ Counted(n)

OneSigns == \A x \in Externals \ raced : Single(Signs(x))

(* The inductive invariant. *)
Inv == /\ TypeOK
       /\ LoginMethodKept /\ OneSigns /\ RevokedBlocked
       /\ \A w \in Requests : JobOK(job[w])

---------------------------------------------------------------------------
(* Facts about the providers and the operators. *)

LEMMA SingleCard ==
    ASSUME NEW S, IsFiniteSet(S)
    PROVE  Cardinality(S) <= 1 <=> Single(S)
  <1>1. ASSUME Single(S) PROVE Cardinality(S) <= 1
    <2>1. CASE S = {}
      BY <2>1, FS_EmptySet
    <2>2. CASE S # {}
      <3>1. PICK a \in S : TRUE
        BY <2>2
      <3>2. S = {a}
        BY <1>1, <3>1 DEF Single
      <3> QED
        BY <3>2, FS_Singleton
    <2> QED
      BY <2>1, <2>2
  <1>2. ASSUME Cardinality(S) <= 1, NEW a \in S, NEW b \in S PROVE a = b
    <2>1. Cardinality(S) \in Nat /\ Cardinality(S \ {a}) = Cardinality(S) - 1
      BY FS_CardinalityType, FS_RemoveElement
    <2>2. IsFiniteSet(S \ {a}) /\ Cardinality(S \ {a}) \in Nat
      BY FS_RemoveElement, FS_CardinalityType
    <2>3. Cardinality(S \ {a}) = 0
      BY <1>2, <2>1, <2>2
    <2>4. S \ {a} = {}
      BY <2>2, <2>3, FS_EmptySet
    <2> QED
      BY <2>4
  <1> QED
    BY <1>1, <1>2 DEF Single

LEMMA Finite ==
    /\ IsFiniteSet(Externals)
    /\ \A S \in SUBSET Externals : IsFiniteSet(S)
  BY AccountsAssumption, FS_Subset DEF Externals, Legacy

LEMMA PeersFacts ==
    ASSUME NEW x \in Externals
    PROVE  /\ Peers(x) \in Providers /\ x \in Peers(x) /\ Peers(x) \subseteq Externals
           /\ \A P \in Providers : x \in P => P = Peers(x)
  BY AccountsAssumption DEF Peers, Providers, Externals, Legacy

LEMMA PeersOutside ==
    ASSUME NEW s, s \notin Externals, NEW x
    PROVE  s \notin Peers(x)
  BY DEF Peers, Providers, Externals, Legacy

(* A request that wrote over a row kept what it wrote, and everything of     *)
(* other providers.                                                        *)
LEMMA PutFacts ==
    ASSUME NEW S, NEW X \in SUBSET Externals
    PROVE  /\ X \subseteq Put(S, X) /\ Put(S, X) \subseteq S \cup X
           /\ \A s \in S : s \notin Put(S, X) => \E x \in X : s \in Peers(x)
           /\ \A P \in Providers : Single(S \cap P) /\ Single(X \cap P)
                                     => Single(Put(S, X) \cap P)
           /\ S \cap Externals # {} => Put(S, X) \cap Externals # {}
  <1>1. /\ X \subseteq Put(S, X) /\ Put(S, X) \subseteq S \cup X
        /\ \A s \in S : s \notin Put(S, X) => \E x \in X : s \in Peers(x)
    BY DEF Put
  <1>2. ASSUME NEW P \in Providers, Single(S \cap P), Single(X \cap P),
               NEW a \in Put(S, X) \cap P, NEW b \in Put(S, X) \cap P
        PROVE  a = b
    <2>1. \A x \in X \cap P : P = Peers(x)
      BY PeersFacts
    <2>2. CASE a \in X /\ b \in X
      BY <1>2, <2>2 DEF Single
    <2>3. CASE a \in X /\ b \notin X
      BY <1>2, <2>1, <2>3 DEF Put
    <2>4. CASE a \notin X /\ b \in X
      BY <1>2, <2>1, <2>4 DEF Put
    <2>5. CASE a \notin X /\ b \notin X
      BY <1>2, <2>5 DEF Put, Single
    <2> QED
      BY <2>2, <2>3, <2>4, <2>5
  <1>4. ASSUME NEW s \in S \cap Externals PROVE Put(S, X) \cap Externals # {}
    <2>1. CASE s \in Put(S, X)
      BY <2>1
    <2>2. CASE s \notin Put(S, X)
      <3>1. PICK x \in X : s \in Peers(x)
        BY <1>1, <2>2
      <3> QED
        BY <1>1
    <2> QED
      BY <2>1, <2>2
  <1> QED
    BY <1>1, <1>2, <1>4 DEF Single

LEMMA PutKeeps ==
    ASSUME NEW S, NEW X \in SUBSET Externals, NEW P \in Providers,
           (S \cap Externals) \ P # {}
    PROVE  (Put(S, X) \cap Externals) \ P # {}
  <1>0. PICK s \in (S \cap Externals) \ P : TRUE
    OBVIOUS
  <1>1. CASE s \in Put(S, X)
    BY <1>1
  <1>2. CASE s \notin Put(S, X)
    <2>1. PICK x \in X : s \in Peers(x)
      BY PutFacts, <1>2
    <2>2. x \in Put(S, X) /\ x \in Externals
      BY PutFacts
    <2>3. x \notin P
      BY <2>1, PeersFacts
    <2> QED
      BY <2>2, <2>3
  <1> QED
    BY <1>1, <1>2

(* TypeOK without cardinalities. *)
LEMMA Singles ==
    ASSUME TypeOK, NEW u \in Users, NEW P \in Providers
    PROVE  Single(column[u] \cap P) /\ Single(identity[u] \cap P)
  <1>1. P \subseteq Externals
    BY DEF Providers, Externals, Legacy
  <1>2. IsFiniteSet(column[u] \cap P) /\ IsFiniteSet(identity[u] \cap P)
    BY <1>1, Finite
  <1> QED
    BY <1>2, SingleCard DEF TypeOK

LEMMA SinglesType ==
    ASSUME NEW S, NEW P \in Providers, Single(S \cap P)
    PROVE  Cardinality(S \cap P) <= 1
  <1>1. P \subseteq Externals
    BY DEF Providers, Externals, Legacy
  <1>2. IsFiniteSet(S \cap P)
    BY <1>1, Finite
  <1> QED
    BY <1>2, SingleCard

LEMMA InitInv == Init => Inv
  <1> SUFFICES ASSUME Init PROVE Inv
    OBVIOUS
  <1>1. Idle \in Job
    BY DEF Idle, Job, Ops
  <1>2. TypeOK
    <2>1. \A u \in Users : \A P \in Providers : /\ Cardinality(column[u] \cap P) <= 1
                                                /\ Cardinality(identity[u] \cap P) <= 1
      BY FS_EmptySet DEF Init
    <2> QED
      BY <1>1, <2>1 DEF Init, TypeOK
  <1>3. LoginMethodKept /\ OneSigns /\ RevokedBlocked
    BY DEF Init, LoginMethodKept, OneSigns, RevokedBlocked, Signs, Owners, Holders, Single
  <1>4. JobOK(Idle)
    BY DEF JobOK, Shape, Established, Encloses, Counted, Idle
  <1> QED
    BY <1>2, <1>3, <1>4 DEF Inv, Init

---------------------------------------------------------------------------
(* Facts used by several actions. *)

LEMMA IdleOK == JobOK(Idle) /\ Idle \in Job
  BY DEF JobOK, Shape, Established, Encloses, Counted, Idle, Job, Ops

(* A step of a request that only reads. *)
LEMMA ReadStep ==
    ASSUME Inv, UNCHANGED <<live, password, column, identity, revoked, raced, crowded>>,
           NEW w \in Requests, NEW n \in Job, JobOK(n), job' = [job EXCEPT ![w] = n]
    PROVE  Inv'
  <1>1. TypeOK'
    BY DEF Inv, TypeOK
  <1>2. LoginMethodKept' /\ OneSigns' /\ RevokedBlocked'
    BY DEF Inv, LoginMethodKept, OneSigns, RevokedBlocked, Signs, Owners, Holders
  <1>3. ASSUME NEW v \in Requests PROVE JobOK(job[v])'
    <2>1. PICK m \in Job : m = job'[v] /\ JobOK(m)
      BY DEF Inv, TypeOK
    <2>2. JobOK(m)'
      BY <2>1 DEF JobOK, Shape, Established, Encloses, Counted, Signs, Owners, Holders, Own
    <2> QED
      BY <2>1, <2>2
  <1> QED
    BY <1>1, <1>2, <1>3 DEF Inv

LEMMA WriteType ==
    ASSUME Inv, NEW w \in Requests, Done(w), NEW u \in Users,
           NEW c \in SUBSET Legacy, NEW i \in SUBSET (Externals \cup Manual),
           \A P \in Providers : Single(c \cap P) /\ Single(i \cap P),
           column' = [column EXCEPT ![u] = c], identity' = [identity EXCEPT ![u] = i],
           live' = live \cup {u}, password' = password,
           revoked' \subseteq Externals, crowded' \subseteq Users
    PROVE  TypeOK'
  <1>1. /\ column'[u] = c /\ identity'[u] = i
        /\ \A z \in Users : z # u => column'[z] = column[z] /\ identity'[z] = identity[z]
    BY DEF Inv, TypeOK
  <1>2. \A P \in Providers : Cardinality(c \cap P) <= 1 /\ Cardinality(i \cap P) <= 1
    BY SinglesType
  <1>3. \A z \in Users : \A P \in Providers :
          Cardinality(column'[z] \cap P) <= 1 /\ Cardinality(identity'[z] \cap P) <= 1
    BY <1>1, <1>2 DEF Inv, TypeOK
  <1>4. raced' \subseteq Externals
    <2>1. \A v \in Requests : job[v].about \subseteq Externals
      BY DEF Inv, TypeOK, Job
    <2> QED
      BY <2>1 DEF Done, Rivals, Inv, TypeOK
  <1>5. job' \in [Requests -> Job]
    BY IdleOK DEF Done, Inv, TypeOK
  <1>6. \A z \in Users \ live' : column'[z] = {} /\ identity'[z] = {}
    BY <1>1 DEF Inv, TypeOK
  <1>7. column' \in [Users -> SUBSET Legacy]
        /\ identity' \in [Users -> SUBSET (Externals \cup Manual)]
    BY DEF Inv, TypeOK
  <1>8. live' \subseteq Users /\ password' \subseteq live'
    BY DEF Inv, TypeOK
  <1> QED
    BY <1>3, <1>4, <1>5, <1>6, <1>7, <1>8 DEF TypeOK

(* Request w makes c and i the column and the rows of u: what it adds it is  *)
(* about, what it drops is of its provider, and a way to sign in is left,  *)
(* also to another unlink that has counted.                                *)
Harmless(w, u, c, i) ==
    /\ u = job[w].user \/ u \notin live
    /\ \A x \in (c \cup i) \cap Externals : x \in Own(u) \cup job[w].about
    /\ \A x \in job[w].about \ raced :
         /\ x \in c \cup i \cup revoked' => Signs(x) \subseteq {u}
         /\ x \in revoked' => x \notin c \cup i
    /\ \A x \in Own(u) : x \notin c \cup i => x \in job[w].provider
    /\ revoked' \subseteq revoked \cup job[w].about \cup raced
    /\ crowded \subseteq crowded'
    /\ \A v \in Requests \ {w} : job[v].op = "unlinkWrite" /\ job[v].user = u =>
         \/ u \in crowded'
         \/ \A P \in Providers : (identity[u] \cap Externals) \ P # {}
                                   => (i \cap Externals) \ P # {}
    /\ u \notin crowded' => u \in password \/ i \cap Externals # {}

(* Such a step keeps the invariant, since it notes every race. *)
LEMMA WriteStep ==
    ASSUME Inv, NEW w \in Requests, Done(w), TypeOK', NEW u \in Users, NEW c, NEW i,
           column' = [column EXCEPT ![u] = c], identity' = [identity EXCEPT ![u] = i],
           live' = live \cup {u}, password' = password,
           Harmless(w, u, c, i)
    PROVE  Inv'
  <1> USE DEF Harmless
  <1>1. /\ column'[u] = c /\ identity'[u] = i
        /\ \A z \in Users : z # u => column'[z] = column[z] /\ identity'[z] = identity[z]
    BY DEF Inv, TypeOK
  <1>2. /\ raced \subseteq raced'
        /\ \A v \in Requests \ {w} : Conflict(v, w) =>
             job[v].about \cup job[w].about \subseteq raced'
        /\ job'[w] = Idle
        /\ \A v \in Requests \ {w} : job'[v] = job[v]
    BY DEF Done, Rivals, Inv, TypeOK
  <1>3. ASSUME NEW x \in Externals
        PROVE  /\ Signs(x)' \subseteq Signs(x) \cup {u}
               /\ x \notin c \cup i => Signs(x)' \subseteq Signs(x) \ {u}
               /\ x \notin job[w].about => Signs(x)' \subseteq Signs(x)
    <2>1. \A z \in Users : z \in Signs(x)' <=> x \in column'[z] \cup identity'[z]
      BY DEF Signs, Owners, Holders
    <2>2. \A z \in Users : z \in Signs(x) <=> x \in column[z] \cup identity[z]
      BY DEF Signs, Owners, Holders
    <2>3. Signs(x)' \subseteq Users
      BY DEF Signs, Owners, Holders
    <2>4. x \in Own(u) => u \in Signs(x)
      BY <2>2 DEF Own
    <2> QED
      BY <1>1, <2>1, <2>2, <2>3, <2>4
  <1>4. OneSigns'
    <2> SUFFICES ASSUME NEW x \in Externals \ raced' PROVE Single(Signs(x)')
      BY DEF OneSigns, Single
    <2>1. x \notin raced /\ Single(Signs(x))
      BY <1>2 DEF Inv, OneSigns
    <2>2. CASE x \in job[w].about /\ x \in c \cup i
      BY <1>3, <2>1, <2>2 DEF Single
    <2>3. CASE ~(x \in job[w].about /\ x \in c \cup i)
      BY <1>3, <2>1, <2>3 DEF Single
    <2> QED
      BY <2>2, <2>3
  <1>5. \A x \in revoked \ raced : Signs(x) = {}
    BY DEF Inv, RevokedBlocked, Signs
  <1>6. RevokedBlocked'
    <2> SUFFICES ASSUME NEW x \in revoked' \ raced' PROVE Signs(x)' = {}
      BY DEF RevokedBlocked, Signs
    <2>1. x \in Externals /\ x \notin raced
      BY <1>2 DEF TypeOK
    <2>2. CASE x \in job[w].about
      BY <1>3, <2>1, <2>2
    <2>3. CASE x \notin job[w].about
      BY <1>3, <1>5, <2>1, <2>3
    <2> QED
      BY <2>2, <2>3
  <1>7. LoginMethodKept'
    BY <1>1 DEF Inv, LoginMethodKept, TypeOK
  <1>8. ASSUME NEW v \in Requests \ {w} PROVE JobOK(job[v])'
    <2>1. PICK n \in Job : n = job[v] /\ n = job'[v] /\ JobOK(n)
      BY <1>2 DEF Inv, TypeOK
    <2>2. Shape(n)'
      BY <2>1 DEF JobOK, Shape
    <2>3. n.about \subseteq Externals /\ n.about \subseteq n.provider /\ NoUser \notin Users
      BY <2>1, AccountsAssumption DEF JobOK, Shape, Job
    <2>4. ASSUME NEW x \in n.about, x \notin raced' PROVE x \notin job[w].about
      BY <1>2, <2>1, <2>4 DEF Conflict
    <2>5. ASSUME n.user = u, u \in live, NEW x \in n.provider, x \in job[w].provider
          PROVE  n.about \cup job[w].about \subseteq raced'
      BY <1>2, <2>1, <2>3, <2>5 DEF Conflict
    <2>6. \A z \in Users : z # u => Own(z)' = Own(z)
      BY <1>1 DEF Own
    <2>7. Own(u)' = c \cup (i \cap Externals)
      BY <1>1 DEF Own
    <2>8. \A z \in Users : Own(z) \subseteq Externals
      BY DEF Own, Inv, TypeOK, Externals
    <2>9. n.op \notin {"idle", "login"} => n.user \in live /\ n.user \in Users
      BY <2>1 DEF JobOK, Shape, Inv, TypeOK
    <2>10. Established(n)'
      <3> SUFFICES ASSUME NEW x \in n.about, x \notin raced'
                   PROVE  /\ n.op \in {"login", "linkWrite"} => Signs(x)' \subseteq {n.user}
                          /\ n.op = "login" => x \notin revoked'
                          /\ n.op \in {"unlink", "unlinkWrite", "profile", "profileWrite"}
                               => x \in Own(n.user)'
        BY DEF Established
      <3>1. x \in Externals /\ x \notin raced /\ x \notin job[w].about
        BY <1>2, <2>3, <2>4
      <3>2. /\ n.op \in {"login", "linkWrite"} => Signs(x) \subseteq {n.user}
            /\ n.op = "login" => x \notin revoked
            /\ n.op \in {"unlink", "unlinkWrite", "profile", "profileWrite"}
                 => x \in Own(n.user)
        BY <2>1, <3>1 DEF JobOK, Established
      <3>3. Signs(x)' \subseteq Signs(x)
        BY <1>3, <3>1
      <3>4. x \in revoked' => x \in revoked
        BY <3>1
      <3>5. ASSUME n.op \in {"unlink", "unlinkWrite", "profile", "profileWrite"}
            PROVE  x \in Own(n.user)'
        <4>1. CASE n.user # u
          BY <2>6, <2>9, <3>2, <3>5, <4>1
        <4>2. CASE n.user = u
          <5>1. x \in Own(u) /\ u \in live
            BY <2>9, <3>2, <3>5, <4>2
          <5>2. x \in c \cup i
            BY <2>3, <2>5, <4>2, <5>1
          <5> QED
            BY <2>7, <3>1, <4>2, <5>2
        <4> QED
          BY <4>1, <4>2
      <3> QED
        BY <3>2, <3>3, <3>4, <3>5
    <2>11. Encloses(n)'
      <3>1. ASSUME n.op \in {"unlink", "unlinkWrite"}, NEW x \in Own(n.user)',
                   x \in n.provider
            PROVE  x \in n.about \cup raced'
        <4>1. CASE x \in Own(n.user)
          BY <1>2, <2>1, <3>1, <4>1 DEF JobOK, Encloses
        <4>2. CASE x \notin Own(n.user)
          <5>1. n.user = u /\ u \in live
            BY <2>6, <2>9, <3>1, <4>2
          <5>2. x \in job[w].about
            <6>1. x \in c \cup (i \cap Externals)
              BY <2>7, <3>1, <5>1
            <6>2. x \in Externals
              BY <3>1, <5>1 DEF Own, TypeOK, Externals
            <6> QED
              BY <4>2, <5>1, <6>1, <6>2
          <5>3. x \in job[w].provider
            BY <5>2 DEF Inv, JobOK, Shape
          <5> QED
            BY <2>5, <3>1, <5>1, <5>2, <5>3
        <4> QED
          BY <4>1, <4>2
      <3>2. n.op = "unlinkWrite" /\ n.provider = Discord =>
              n.listed \cap Discord \subseteq n.about \cup raced'
        BY <1>2, <2>1 DEF JobOK, Encloses
      <3> QED
        BY <3>1, <3>2 DEF Encloses
    <2>12. Counted(n)'
      <3> SUFFICES ASSUME n.op = "unlinkWrite"
                   PROVE  \/ n.user \in crowded' \cup password'
                          \/ (identity'[n.user] \cap Externals) \ n.provider # {}
        BY DEF Counted
      <3>1. \/ n.user \in crowded \cup password
            \/ (identity[n.user] \cap Externals) \ n.provider # {}
        BY <2>1 DEF JobOK, Counted
      <3>2. n.user \in Users /\ n.provider \in Providers
        BY <2>1, <2>9 DEF JobOK, Shape
      <3>3. CASE n.user = u
        BY <1>1, <2>1, <3>1, <3>2, <3>3
      <3>4. CASE n.user # u
        BY <1>1, <3>1, <3>2, <3>4
      <3> QED
        BY <3>3, <3>4
    <2> QED
      BY <2>1, <2>2, <2>10, <2>11, <2>12 DEF JobOK
  <1>9. JobOK(job[w])'
    <2>1. JobOK(Idle)'
      BY DEF JobOK, Shape, Established, Encloses, Counted, Idle
    <2> QED
      BY <1>2, <2>1
  <1> QED
    BY <1>4, <1>6, <1>7, <1>8, <1>9 DEF Inv

---------------------------------------------------------------------------
(* Requests that read *)

LEMMA LookUpInv ==
    ASSUME Inv, NEW w \in Requests, NEW x \in Externals, LookUp(w, x)
    PROVE  Inv'
  <1> DEFINE found == IF Owners(x) # {} THEN Owners(x) ELSE Holders(x)
  <1>1. PICK u \in Users \cup {NoUser} :
          /\ IF found = {} THEN u = NoUser ELSE u \in found
          /\ job' = [job EXCEPT ![w] =
               [op |-> "login", user |-> u, provider |-> Peers(x), about |-> {x},
                held |-> IF u = NoUser THEN {} ELSE column[u] \cap Peers(x),
                listed |-> {}]]
    BY DEF LookUp
  <1> DEFINE h == IF u = NoUser THEN {} ELSE column[u] \cap Peers(x)
             n == [op |-> "login", user |-> u, provider |-> Peers(x), about |-> {x},
                   held |-> h, listed |-> {}]
  <1>2. job' = [job EXCEPT ![w] = n]
    BY <1>1
  <1>3. h \subseteq Legacy
    BY DEF Inv, TypeOK
  <1>4. n \in Job
    BY <1>3, PeersFacts DEF Job, Ops
  <1>5. u \in live \cup {NoUser}
    <2>1. \A z \in Users : z \in Owners(x) \cup Holders(x) => z \in live
      BY DEF Owners, Holders, Inv, TypeOK
    <2> QED
      BY <1>1, <2>1 DEF Owners, Holders
  <1>6. ASSUME x \notin raced PROVE Signs(x) \subseteq {u} /\ x \notin revoked
    <2>1. Single(Signs(x)) /\ (x \in revoked => Signs(x) = {})
      BY <1>6 DEF Inv, OneSigns, RevokedBlocked, Signs
    <2>2. found = {} => x \notin revoked
      BY DEF LookUp
    <2>3. CASE found = {}
      BY <2>2, <2>3 DEF Signs
    <2>4. CASE found # {}
      <3>1. u \in Signs(x)
        BY <1>1, <2>4 DEF Signs
      <3> QED
        BY <2>1, <3>1 DEF Single
    <2> QED
      BY <2>3, <2>4
  <1>7. JobOK(n)
    <2>1. Shape(n)
      BY <1>5, PeersFacts DEF Shape
    <2>2. Established(n)
      BY <1>6 DEF Established
    <2> QED
      BY <2>1, <2>2 DEF JobOK, Encloses, Counted
  <1>8. UNCHANGED <<live, password, column, identity, revoked, raced, crowded>>
    BY DEF LookUp
  <1> HIDE DEF n
  <1> QED
    BY <1>2, <1>4, <1>7, <1>8, ReadStep

LEMMA LoadLink ==
    ASSUME Inv, NEW w \in Requests, NEW u \in Users, NEW x \in Externals,
           Load(w, u, "link", Peers(x), {x})
    PROVE  Inv'
  <1> DEFINE n == [op |-> "link", user |-> u, provider |-> Peers(x), about |-> {x},
                   held |-> column[u] \cap Peers(x), listed |-> {}]
  <1>1. /\ u \in live /\ job' = [job EXCEPT ![w] = n]
        /\ UNCHANGED <<live, password, column, identity, revoked, raced, crowded>>
    BY DEF Load
  <1>2. n \in Job
    BY PeersFacts DEF Job, Ops, Inv, TypeOK
  <1>3. JobOK(n)
    BY <1>1, PeersFacts DEF JobOK, Shape, Established, Encloses, Counted
  <1> HIDE DEF n
  <1> QED
    BY <1>1, <1>2, <1>3, ReadStep

LEMMA LoadUnlink ==
    ASSUME Inv, NEW w \in Requests, NEW u \in Users, NEW P \in Providers,
           Load(w, u, "unlink", P, Own(u) \cap P)
    PROVE  Inv'
  <1> DEFINE n == [op |-> "unlink", user |-> u, provider |-> P, about |-> Own(u) \cap P,
                   held |-> column[u] \cap P, listed |-> {}]
  <1>1. /\ u \in live /\ job' = [job EXCEPT ![w] = n]
        /\ UNCHANGED <<live, password, column, identity, revoked, raced, crowded>>
    BY DEF Load
  <1>2. P \subseteq Externals
    BY DEF Providers, Externals, Legacy
  <1>3. n \in Job
    BY <1>2 DEF Job, Ops, Inv, TypeOK
  <1>4. JobOK(n)
    BY <1>1 DEF JobOK, Shape, Established, Encloses, Counted, Own
  <1> HIDE DEF n
  <1> QED
    BY <1>1, <1>3, <1>4, ReadStep

LEMMA LoadProfile ==
    ASSUME Inv, NEW w \in Requests, NEW u \in Users,
           Load(w, u, "profile", Externals, column[u])
    PROVE  Inv'
  <1> DEFINE n == [op |-> "profile", user |-> u, provider |-> Externals,
                   about |-> column[u], held |-> column[u] \cap Externals, listed |-> {}]
  <1>1. /\ u \in live /\ job' = [job EXCEPT ![w] = n]
        /\ UNCHANGED <<live, password, column, identity, revoked, raced, crowded>>
    BY DEF Load
  <1>2. column[u] \subseteq Externals /\ column[u] \subseteq Legacy
    BY DEF Inv, TypeOK, Externals
  <1>3. n \in Job
    BY <1>2 DEF Job, Ops
  <1>4. \A P \in Providers : Single(n.held \cap P)
    BY Singles DEF Inv, Single
  <1>5. JobOK(n)
    BY <1>1, <1>2, <1>4 DEF JobOK, Shape, Established, Encloses, Counted, Own
  <1> HIDE DEF n
  <1> QED
    BY <1>1, <1>3, <1>5, ReadStep

LEMMA StepRead ==
    ASSUME Inv, NEW w \in Requests, NEW o \in Ops, NEW a \in SUBSET Externals,
           NEW l \in SUBSET Externals, Step(w, o, a, l),
           JobOK([op |-> o, user |-> job[w].user, provider |-> job[w].provider,
                  about |-> a, held |-> job[w].held, listed |-> l])
    PROVE  Inv'
  <1> DEFINE j == job[w]
             n == [op |-> o, user |-> j.user, provider |-> j.provider, about |-> a,
                   held |-> j.held, listed |-> l]
  <1>1. j \in Job
    BY DEF Inv, TypeOK
  <1>2. n \in Job
    BY <1>1 DEF Job
  <1>3. job' = [job EXCEPT ![w] = n]
    BY DEF Step, Inv, TypeOK
  <1>4. UNCHANGED <<live, password, column, identity, revoked, raced, crowded>>
    BY DEF Step
  <1>5. JobOK(n)
    OBVIOUS
  <1> HIDE DEF n
  <1> QED
    BY <1>2, <1>3, <1>4, <1>5, ReadStep

LEMMA CheckLinkInv ==
    ASSUME Inv, NEW w \in Requests, NEW x \in Externals, CheckLink(w, x)
    PROVE  Inv'
  <1> DEFINE j == job[w]
             n == [op |-> "linkWrite", user |-> j.user, provider |-> j.provider,
                   about |-> {x}, held |-> j.held, listed |-> {}]
  <1>1. /\ j.op = "link" /\ j.about = {x} /\ JobOK(j)
        /\ Signs(x) \subseteq {j.user} /\ Step(w, "linkWrite", {x}, {})
    BY DEF CheckLink, Inv, Signs
  <1>2. JobOK(n)
    BY <1>1 DEF JobOK, Shape, Established, Encloses, Counted
  <1> HIDE DEF n
  <1> QED
    BY <1>1, <1>2, StepRead DEF Ops, n

(* More than one login method: one is left when those of a provider go.     *)
LEMMA CountInv ==
    ASSUME Inv, NEW w \in Requests, NEW u \in Users, Count(w, u)
    PROVE  Inv'
  <1> DEFINE j == job[w]
             l == identity[u] \cap Discord
             n == [op |-> "unlinkWrite", user |-> j.user, provider |-> j.provider,
                   about |-> j.about, held |-> j.held, listed |-> l]
  <1>1. /\ j \in Job /\ j.op = "unlink" /\ j.user = u /\ JobOK(j) /\ AuthMethods(u) > 1
        /\ Step(w, "unlinkWrite", j.about, l)
    BY DEF Count, Inv, TypeOK
  <1>2. j.provider \in Providers /\ j.about \subseteq Externals /\ l \subseteq Externals
    BY <1>1 DEF JobOK, Shape, Job, Externals
  <1>3. u \in password \/ (identity[u] \cap Externals) \ j.provider # {}
    <2> SUFFICES ASSUME u \notin password, (identity[u] \cap Externals) \ j.provider = {}
                 PROVE  FALSE
      OBVIOUS
    <2>1. identity[u] \cap Externals \subseteq identity[u] \cap j.provider
      OBVIOUS
    <2>2. Single(identity[u] \cap Externals)
      BY <1>2, <2>1, Singles DEF Inv, Single
    <2>3. Cardinality(identity[u] \cap Externals) <= 1
      BY <2>2, Finite, SingleCard
    <2>4. Cardinality(identity[u] \cap Externals) \in Nat
      BY Finite, FS_CardinalityType
    <2> QED
      BY <1>1, <2>3, <2>4 DEF AuthMethods
  <1>4. j.provider = Discord => l \subseteq j.about \cup raced
    BY <1>1 DEF JobOK, Encloses, Own, Externals
  <1>5. JobOK(n)
    <2>1. Shape(n) /\ Established(n)
      BY <1>1 DEF JobOK, Shape, Established
    <2>2. Encloses(n)
      BY <1>1, <1>4 DEF JobOK, Encloses
    <2>3. Counted(n)
      BY <1>1, <1>3 DEF Counted
    <2> QED
      BY <2>1, <2>2, <2>3 DEF JobOK
  <1> HIDE DEF l
  <1> QED
    BY <1>1, <1>2, <1>5, StepRead DEF Ops

LEMMA ListInv ==
    ASSUME Inv, NEW w \in Requests, NEW u \in Users, List(w, u)
    PROVE  Inv'
  <1> DEFINE j == job[w]
             missing == {x \in j.held : identity[u] \cap Peers(x) = {}}
  <1>1. PICK stale \in SUBSET ((identity[u] \cup missing) \cap (Steam \cup Discord)) :
          Step(w, "profileWrite", j.about \cup stale, missing \cup stale)
    BY DEF List
  <1> DEFINE a == j.about \cup stale
             l == missing \cup stale
             n == [op |-> "profileWrite", user |-> j.user, provider |-> j.provider,
                   about |-> a, held |-> j.held, listed |-> l]
  <1>2. j \in Job /\ j.op = "profile" /\ j.user = u /\ JobOK(j)
    BY DEF List, Inv, TypeOK
  <1>3. /\ stale \subseteq Externals /\ j.about \subseteq Externals
        /\ j.provider = Externals /\ j.held \subseteq j.about
        /\ l \subseteq a /\ a \subseteq Externals /\ l \subseteq Externals
    BY <1>1, <1>2 DEF JobOK, Shape, Job, Externals, Legacy
  <1>4. ASSUME NEW P \in Providers PROVE Single(l \cap P)
    <2> SUFFICES ASSUME NEW x \in l \cap P, NEW y \in l \cap P PROVE x = y
      BY DEF Single
    <2>1. \A z \in l : z \in missing \/ z \in identity[u]
      BY <1>1
    <2>2. Single(j.held \cap P) /\ Single(identity[u] \cap P)
      BY <1>2, Singles DEF JobOK, Shape, Inv
    <2>3. \A z \in missing : z \in j.held
      OBVIOUS
    <2>4. ASSUME NEW z \in missing, z \in P, NEW t \in identity[u], t \in P PROVE FALSE
      <3>1. z \in Externals
        BY <1>3, <2>3
      <3>2. P = Peers(z)
        BY <2>4, <3>1, PeersFacts
      <3> QED
        BY <2>4, <3>2
    <2> HIDE DEF missing, l
    <2> QED
      BY <2>1, <2>2, <2>3, <2>4 DEF Single
  <1>5. ASSUME NEW x \in a, x \notin raced PROVE x \in Own(u)
    <2>1. x \in j.about => x \in Own(u)
      BY <1>2, <1>5 DEF JobOK, Established
    <2>2. x \in stale => x \in j.about \/ x \in identity[u] \cap Externals
      BY <1>1, <1>3
    <2> QED
      BY <1>5, <2>1, <2>2 DEF Own
  <1> HIDE DEF a, l
  <1>6. JobOK(n)
    BY <1>2, <1>3, <1>4, <1>5 DEF JobOK, Shape, Established, Encloses, Counted
  <1> QED
    BY <1>1, <1>3, <1>6, StepRead DEF Ops, a, l

---------------------------------------------------------------------------
(* Requests that write *)

(* The column is left, or X is put in it. *)
Filled(c, u, X) == c = column[u] \/ (X \subseteq Legacy /\ c = Put(column[u], X))

(* Signing in, linking and refreshing: rows are put over those of the same   *)
(* provider, about external accounts that were the user's or nobody's.     *)
LEMMA PutInv ==
    ASSUME Inv, NEW w \in Requests, Done(w), NEW u \in live, u = job[w].user,
           NEW X \in SUBSET Externals, X \subseteq job[w].about,
           \A P \in Providers : Single(X \cap P),
           job[w].op \in {"login", "linkWrite", "profileWrite"},
           NEW c, Filled(c, u, X),
           column' = [column EXCEPT ![u] = c],
           identity' = [identity EXCEPT ![u] = Put(identity[u], X)],
           UNCHANGED <<live, password, crowded>>, revoked' \subseteq revoked,
           \A x \in job[w].about \ raced : Signs(x) \subseteq {u} /\ x \notin revoked'
    PROVE  Inv'
  <1> USE DEF Filled
  <1> DEFINE i == Put(identity[u], X)
  <1>1. u \in Users /\ column[u] \in SUBSET Legacy
        /\ identity[u] \in SUBSET (Externals \cup Manual)
    BY DEF Inv, TypeOK
  <1>2. i \in SUBSET (Externals \cup Manual) /\ c \in SUBSET Legacy
    BY <1>1, PutFacts
  <1>3. \A P \in Providers : Single(c \cap P) /\ Single(i \cap P)
    <2> SUFFICES ASSUME NEW P \in Providers PROVE Single(c \cap P) /\ Single(i \cap P)
      OBVIOUS
    <2>1. Single(column[u] \cap P) /\ Single(identity[u] \cap P) /\ Single(X \cap P)
      BY <1>1, Singles DEF Inv
    <2> QED
      BY <2>1, PutFacts
  <1>4. identity' = [identity EXCEPT ![u] = i] /\ live' = live \cup {u}
    OBVIOUS
  <1>5. \A x \in (c \cup i) \cap Externals : x \in Own(u) \cup job[w].about
    <2>1. c \subseteq column[u] \cup X /\ i \subseteq identity[u] \cup X
      BY PutFacts
    <2> QED
      BY <2>1 DEF Own
  <1>6. ASSUME NEW x \in Own(u), x \notin c \cup i PROVE x \in job[w].provider
    <2>1. x \in column[u] \/ x \in identity[u]
      BY <1>6 DEF Own
    <2>2. PICK y \in X : x \in Peers(y)
      BY <1>6, <2>1, PutFacts
    <2>3. Peers(y) \subseteq job[w].provider
      BY PeersFacts DEF Inv, JobOK, Shape
    <2> QED
      BY <2>2, <2>3
  <1>7. \A P \in Providers : (identity[u] \cap Externals) \ P # {}
                               => (i \cap Externals) \ P # {}
    BY PutKeeps
  <1>8. u \notin crowded' => u \in password \/ i \cap Externals # {}
    <2>1. u \notin crowded => u \in password \/ identity[u] \cap Externals # {}
      BY DEF Inv, LoginMethodKept
    <2>2. identity[u] \cap Externals # {} => i \cap Externals # {}
      BY PutFacts
    <2> QED
      BY <2>1, <2>2
  <1>9. revoked' \subseteq Externals /\ crowded' \subseteq Users
    BY DEF Inv, TypeOK
  <1> HIDE DEF i
  <1>10. TypeOK'
    BY <1>1, <1>2, <1>3, <1>4, <1>9, WriteType
  <1>11. Harmless(w, u, c, i)
    BY <1>5, <1>6, <1>7, <1>8 DEF Harmless
  <1> QED
    BY <1>1, <1>4, <1>10, <1>11, WriteStep

(* Nobody but the owner established: what remains is that u has the account. *)
LEMMA LogInInv ==
    ASSUME Inv, NEW w \in Requests, NEW u \in Users, NEW x \in Externals, LogIn(w, u, x)
    PROVE  Inv'
  <1> DEFINE j == job[w]
             c == IF x \in Steam \ j.held THEN Put(column[u], {x}) ELSE column[u]
  <1>1. /\ j.op = "login" /\ j.user = u /\ j.about = {x} /\ JobOK(j) /\ Done(w)
        /\ column' = [column EXCEPT ![u] = c]
        /\ identity' = [identity EXCEPT ![u] = Put(identity[u], {x})]
        /\ revoked' \subseteq revoked /\ UNCHANGED <<live, password, crowded>>
    BY DEF LogIn, Inv
  <1>2. u \in live
    BY <1>1, AccountsAssumption DEF JobOK, Shape
  <1>3. x \notin raced => Signs(x) \subseteq {u} /\ x \notin revoked
    BY <1>1 DEF JobOK, Established
  <1> DEFINE X == {x}
  <1>4. X \in SUBSET Externals /\ X \subseteq j.about
        /\ \A P \in Providers : Single(X \cap P)
    BY <1>1 DEF Single
  <1>5. \A y \in j.about \ raced : Signs(y) \subseteq {u} /\ y \notin revoked'
    BY <1>1, <1>3
  <1>6. Filled(c, u, X)
    BY DEF Filled, Legacy
  <1>7. /\ u \in live /\ u = j.user /\ j.op \in {"login", "linkWrite", "profileWrite"}
        /\ Done(w) /\ column' = [column EXCEPT ![u] = c]
        /\ identity' = [identity EXCEPT ![u] = Put(identity[u], X)]
        /\ revoked' \subseteq revoked /\ UNCHANGED <<live, password, crowded>>
    BY <1>1, <1>2
  <1> HIDE DEF c, X
  <1> QED
    BY <1>4, <1>5, <1>6, <1>7, PutInv

LEMMA LinkInv ==
    ASSUME Inv, NEW w \in Requests, NEW u \in Users, NEW x \in Externals, Link(w, u, x)
    PROVE  Inv'
  <1> DEFINE j == job[w]
             c == IF x \in Legacy \ j.held THEN Put(column[u], {x}) ELSE column[u]
  <1>1. /\ j.op = "linkWrite" /\ j.user = u /\ j.about = {x} /\ JobOK(j) /\ Done(w)
        /\ column' = [column EXCEPT ![u] = c]
        /\ identity' = [identity EXCEPT ![u] = Put(identity[u], {x})]
        /\ revoked' = revoked \ {x} /\ UNCHANGED <<live, password, crowded>>
    BY DEF Link, Inv
  <1>2. u \in live
    BY <1>1 DEF JobOK, Shape
  <1>3. x \notin raced => Signs(x) \subseteq {u}
    BY <1>1 DEF JobOK, Established
  <1> DEFINE X == {x}
  <1>4. X \in SUBSET Externals /\ X \subseteq j.about
        /\ \A P \in Providers : Single(X \cap P)
    BY <1>1 DEF Single
  <1>5. \A y \in j.about \ raced : Signs(y) \subseteq {u} /\ y \notin revoked'
    BY <1>1, <1>3
  <1>6. Filled(c, u, X)
    BY DEF Filled, Legacy
  <1>7. /\ u \in live /\ u = j.user /\ j.op \in {"login", "linkWrite", "profileWrite"}
        /\ Done(w) /\ column' = [column EXCEPT ![u] = c]
        /\ identity' = [identity EXCEPT ![u] = Put(identity[u], X)]
        /\ revoked' \subseteq revoked /\ UNCHANGED <<live, password, crowded>>
    BY <1>1, <1>2
  <1> HIDE DEF c, X
  <1> QED
    BY <1>4, <1>5, <1>6, <1>7, PutInv

(* What a user still has is nobody else's and not revoked. *)
LEMMA OwnFacts ==
    ASSUME Inv, NEW u \in Users, NEW x \in Own(u), x \notin raced
    PROVE  Signs(x) \subseteq {u} /\ x \notin revoked
  <1>1. x \in Externals
    BY DEF Own, Inv, TypeOK, Externals
  <1>2. u \in Signs(x)
    BY DEF Own, Signs, Owners, Holders
  <1>3. Single(Signs(x)) /\ (x \in revoked => Signs(x) = {})
    BY <1>1 DEF Inv, OneSigns, RevokedBlocked, Signs
  <1> QED
    BY <1>2, <1>3 DEF Single

LEMMA SaveProfileInv ==
    ASSUME Inv, NEW w \in Requests, NEW u \in Users, SaveProfile(w, u)
    PROVE  Inv'
  <1> DEFINE j == job[w]
             X == j.listed
  <1>1. /\ j.op = "profileWrite" /\ j.user = u /\ JobOK(j) /\ j \in Job /\ Done(w)
        /\ identity' = [identity EXCEPT ![u] = Put(identity[u], X)]
        /\ revoked' \subseteq revoked /\ UNCHANGED <<live, password, column, crowded>>
    BY DEF SaveProfile, Inv, TypeOK
  <1>2. /\ u \in live /\ j.provider = Externals /\ X \subseteq j.about
        /\ X \in SUBSET Externals /\ \A P \in Providers : Single(X \cap P)
    BY <1>1 DEF JobOK, Shape, Job
  <1>3. \A x \in j.about \ raced : Signs(x) \subseteq {u} /\ x \notin revoked
    BY <1>1, OwnFacts DEF JobOK, Established
  <1>4. column' = [column EXCEPT ![u] = column[u]]
    BY <1>1 DEF Inv, TypeOK
  <1>5. Filled(column[u], u, X)
    BY DEF Filled
  <1> HIDE DEF X
  <1> QED
    BY <1>1, <1>2, <1>3, <1>4, <1>5, PutInv

(* Nobody had the account, nor did the new one. *)
LEMMA CreateAccountInv ==
    ASSUME Inv, NEW w \in Requests, NEW u \in Users, NEW x \in Externals,
           CreateAccount(w, u, x)
    PROVE  Inv'
  <1> DEFINE j == job[w]
             c == {x} \cap Legacy
             i == {x}
  <1>1. /\ j.op = "login" /\ j.user = NoUser /\ j.about = {x} /\ JobOK(j) /\ Done(w)
        /\ u \notin live /\ live' = live \cup {u}
        /\ column' = [column EXCEPT ![u] = c] /\ identity' = [identity EXCEPT ![u] = i]
        /\ revoked' \subseteq revoked /\ UNCHANGED <<password, crowded>>
    BY DEF CreateAccount, Inv
  <1>2. x \notin raced => Signs(x) = {} /\ x \notin revoked
    <2>1. Signs(x) \subseteq Users
      BY DEF Signs, Owners, Holders
    <2> QED
      BY <1>1, <2>1, AccountsAssumption DEF JobOK, Established
  <1>3. c \in SUBSET Legacy /\ i \in SUBSET (Externals \cup Manual)
        /\ \A P \in Providers : Single(c \cap P) /\ Single(i \cap P)
    BY DEF Single
  <1>4. Own(u) = {}
    BY <1>1 DEF Own, Inv, TypeOK
  <1>5. revoked' \subseteq Externals /\ crowded' \subseteq Users
    BY <1>1 DEF Inv, TypeOK
  <1>6. \A v \in Requests : ~(job[v].op = "unlinkWrite" /\ job[v].user = u)
    BY <1>1 DEF Inv, JobOK, Shape
  <1>7. \A y \in (c \cup i) \cap Externals : y \in j.about
    BY <1>1
  <1>8. i \cap Externals # {}
    OBVIOUS
  <1>9. TypeOK'
    <2> HIDE DEF c, i
    <2> QED
      BY <1>1, <1>3, <1>5, WriteType
  <1>10. \A y \in j.about \ raced : Signs(y) \subseteq {u} /\ y \notin revoked'
    BY <1>1, <1>2
  <1> HIDE DEF c, i
  <1> QED
    <2>1. Harmless(w, u, c, i)
      BY <1>1, <1>4, <1>6, <1>7, <1>8, <1>10 DEF Harmless
    <2> QED
      BY <1>1, <1>9, <2>1, WriteStep

(* The provider goes, as counted; what was revoked the request is about.     *)
LEMMA UnlinkInv ==
    ASSUME Inv, NEW w \in Requests, NEW u \in Users, Unlink(w, u)
    PROVE  Inv'
  <1> DEFINE j == job[w]
             P == j.provider
             c == column[u] \ P
             i == identity[u] \ P
  <1>1. /\ j.op = "unlinkWrite" /\ j.user = u /\ JobOK(j) /\ j \in Job /\ Done(w)
        /\ column' = [column EXCEPT ![u] = c] /\ identity' = [identity EXCEPT ![u] = i]
        /\ revoked' = revoked \cup ToUnlink(w, u)
        /\ crowded \subseteq crowded' /\ crowded' \subseteq crowded \cup {u}
        /\ UNCHANGED <<live, password>>
    BY DEF Unlink, Inv, TypeOK
  <1>2. u \in live /\ P \in Providers /\ j.about \subseteq P /\ P \subseteq Externals
        /\ j.held \subseteq j.about
    BY <1>1 DEF JobOK, Shape, Providers, Externals, Legacy
  <1>3. live' = live \cup {u}
    BY <1>1, <1>2
  <1>4. ToUnlink(w, u) \subseteq j.about \cup raced
    <2>1. CASE P # Discord
      BY <1>2, <2>1 DEF ToUnlink
    <2>2. CASE P = Discord
      <3>1. identity[u] \cap Discord \subseteq j.about \cup raced
        BY <1>1, <2>2 DEF JobOK, Encloses, Own, Externals
      <3>2. j.listed \cap Discord \subseteq j.about \cup raced
        BY <1>1, <2>2 DEF JobOK, Encloses
      <3> QED
        BY <2>2, <3>1, <3>2 DEF ToUnlink
    <2> QED
      BY <2>1, <2>2
  <1>5. revoked' \subseteq Externals /\ crowded' \subseteq Users
    BY <1>1, <1>2, <1>4 DEF Inv, TypeOK
  <1>6. c \in SUBSET Legacy /\ i \in SUBSET (Externals \cup Manual)
        /\ \A Q \in Providers : Single(c \cap Q) /\ Single(i \cap Q)
    <2>1. column[u] \in SUBSET Legacy /\ identity[u] \in SUBSET (Externals \cup Manual)
      BY DEF Inv, TypeOK
    <2>2. \A Q \in Providers : Single(column[u] \cap Q) /\ Single(identity[u] \cap Q)
      BY Singles DEF Inv
    <2> QED
      BY <2>1, <2>2 DEF Single
  <1>7. \A x \in (c \cup i) \cap Externals : x \in Own(u)
    BY DEF Own
  <1>8. \A x \in Own(u) : x \notin c \cup i => x \in P
    BY DEF Own
  <1>9. \A x \in j.about \ raced : Signs(x) \subseteq {u} /\ x \notin c \cup i
    <2>1. \A x \in j.about \ raced : x \in Own(u)
      BY <1>1 DEF JobOK, Established
    <2> QED
      BY <1>2, <2>1, OwnFacts
  <1>10. \A v \in Requests \ {w} : job[v].op = "unlinkWrite" /\ job[v].user = u
                                     => u \in crowded'
    BY DEF Unlink
  <1>11. u \notin crowded' => u \in password \/ i \cap Externals # {}
    BY <1>1 DEF JobOK, Counted
  <1> HIDE DEF c, i
  <1>12. TypeOK'
    BY <1>1, <1>3, <1>5, <1>6, WriteType
  <1> QED
    <2>1. Harmless(w, u, c, i)
      BY <1>1, <1>4, <1>7, <1>8, <1>9, <1>10, <1>11 DEF Harmless
    <2> QED
      BY <1>1, <1>3, <1>12, <2>1, WriteStep

---------------------------------------------------------------------------
(* The rest *)

LEMMA AbortInv ==
    ASSUME Inv, NEW w \in Requests, Abort(w)
    PROVE  Inv'
  <1>1. /\ job' = [job EXCEPT ![w] = Idle]
        /\ UNCHANGED <<live, password, column, identity, revoked, raced, crowded>>
    BY DEF Abort
  <1>2. Idle \in Job /\ JobOK(Idle)
    BY IdleOK
  <1> QED
    BY <1>1, <1>2, ReadStep

(* A password only adds a way to sign in. *)
LEMMA PasswordInv ==
    ASSUME Inv, NEW u \in Users, Register(u) \/ SetPassword(u)
    PROVE  Inv'
  <1>1. /\ live' = live \cup {u} /\ password' = password \cup {u}
        /\ UNCHANGED <<column, identity, revoked, job, raced, crowded>>
    BY DEF Register, SetPassword
  <1>2. TypeOK'
    BY <1>1 DEF Inv, TypeOK
  <1>3. LoginMethodKept' /\ OneSigns' /\ RevokedBlocked'
    BY <1>1 DEF Inv, LoginMethodKept, OneSigns, RevokedBlocked, Signs, Owners, Holders
  <1>4. ASSUME NEW v \in Requests PROVE JobOK(job[v])'
    <2>1. PICK m \in Job : m = job[v] /\ m = job'[v] /\ JobOK(m)
      BY <1>1 DEF Inv, TypeOK
    <2>2. JobOK(m)'
      BY <1>1, <2>1 DEF JobOK, Shape, Established, Encloses, Counted, Signs, Owners,
                        Holders, Own
    <2> QED
      BY <2>1, <2>2
  <1> QED
    BY <1>2, <1>3, <1>4 DEF Inv

(* Manual entries sign in to nothing. *)
LEMMA ManualInv ==
    ASSUME Inv, NEW u \in Users, NEW m \in Manual, PutManual(u, m) \/ DeleteManual(u, m)
    PROVE  Inv'
  <1>1. PICK i \in SUBSET (Externals \cup Manual) :
          /\ identity' = [identity EXCEPT ![u] = i]
          /\ i = identity[u] \cup {m} \/ i = identity[u] \ {m}
    BY DEF PutManual, DeleteManual, Inv, TypeOK
  <1>2. u \in live /\ UNCHANGED <<live, password, column, revoked, job, raced, crowded>>
    BY DEF PutManual, DeleteManual
  <1>3. m \notin Externals
    BY AccountsAssumption DEF Externals, Legacy
  <1>4. \A z \in Users : identity'[z] \cap Externals = identity[z] \cap Externals
    BY <1>1, <1>3 DEF Inv, TypeOK
  <1>5. TypeOK'
    <2>1. \A z \in Users : \A P \in Providers :
            identity'[z] \cap P = identity[z] \cap P
      BY <1>4 DEF Providers, Externals, Legacy
    <2>2. \A z \in Users : \A P \in Providers :
            Cardinality(column'[z] \cap P) <= 1 /\ Cardinality(identity'[z] \cap P) <= 1
      BY <1>2, <2>1 DEF Inv, TypeOK
    <2>3. identity' \in [Users -> SUBSET (Externals \cup Manual)]
      BY <1>1 DEF Inv, TypeOK
    <2>4. \A z \in Users \ live' : column'[z] = {} /\ identity'[z] = {}
      BY <1>1, <1>2 DEF Inv, TypeOK
    <2> QED
      BY <1>2, <2>2, <2>3, <2>4 DEF Inv, TypeOK
  <1>6. \A x \in Externals : Signs(x)' = Signs(x)
    BY <1>2, <1>4 DEF Signs, Owners, Holders
  <1>7. \A z \in Users : Own(z)' = Own(z)
    BY <1>2, <1>4 DEF Own
  <1>8. OneSigns'
    BY <1>2, <1>6 DEF Inv, OneSigns, Single
  <1>9. RevokedBlocked'
    BY <1>2, <1>6 DEF Inv, TypeOK, RevokedBlocked, Signs
  <1>10. LoginMethodKept'
    BY <1>2, <1>4 DEF Inv, TypeOK, LoginMethodKept
  <1>11. ASSUME NEW v \in Requests PROVE JobOK(job[v])'
    <2>1. PICK n \in Job : n = job[v] /\ n = job'[v] /\ JobOK(n)
      BY <1>2 DEF Inv, TypeOK
    <2>2. Shape(n)'
      BY <1>2, <2>1 DEF JobOK, Shape
    <2>3. n.op \notin {"idle", "login"} => n.user \in Users
      BY <2>1 DEF JobOK, Shape, Inv, TypeOK
    <2>4. n.about \subseteq Externals
      BY <2>1 DEF Job
    <2>5. Established(n)'
      BY <1>2, <1>6, <1>7, <2>1, <2>3, <2>4 DEF JobOK, Established
    <2>6. Encloses(n)'
      BY <1>2, <1>7, <2>1, <2>3 DEF JobOK, Encloses
    <2>7. Counted(n)'
      BY <1>2, <1>4, <2>1, <2>3 DEF JobOK, Counted
    <2> QED
      BY <2>1, <2>2, <2>5, <2>6, <2>7 DEF JobOK
  <1> QED
    BY <1>5, <1>8, <1>9, <1>10, <1>11 DEF Inv

LEMMA StutterInv ==
    ASSUME Inv, UNCHANGED vars
    PROVE  Inv'
  BY DEF Inv, vars, TypeOK, LoginMethodKept, OneSigns, RevokedBlocked, Signs, Owners,
         Holders, JobOK, Shape, Established, Encloses, Counted, Own

LEMMA NextInv == Inv /\ [Next]_vars => Inv'
  <1> SUFFICES ASSUME Inv, [Next]_vars PROVE Inv'
    OBVIOUS
  <1>1. ASSUME NEW w \in Requests, Serve(w) PROVE Inv'
    <2>1. CASE Abort(w)
      BY <2>1, AbortInv
    <2>2. ASSUME NEW x \in Externals, LookUp(w, x) \/ CheckLink(w, x) PROVE Inv'
      BY <2>2, LookUpInv, CheckLinkInv
    <2>3. ASSUME NEW x \in Externals, NEW u \in Users,
                 CreateAccount(w, u, x) \/ LogIn(w, u, x) \/ Link(w, u, x)
                 \/ Load(w, u, "link", Peers(x), {x})
          PROVE  Inv'
      BY <2>3, CreateAccountInv, LogInInv, LinkInv, LoadLink
    <2>4. ASSUME NEW u \in Users, NEW P \in Providers, Load(w, u, "unlink", P, Own(u) \cap P)
          PROVE  Inv'
      BY <2>4, LoadUnlink
    <2>5. ASSUME NEW u \in Users,
                 \/ Load(w, u, "profile", Externals, column[u])
                 \/ Count(w, u) \/ Unlink(w, u) \/ List(w, u) \/ SaveProfile(w, u)
          PROVE  Inv'
      BY <2>5, LoadProfile, CountInv, UnlinkInv, ListInv, SaveProfileInv
    <2> QED
      BY <1>1, <2>1, <2>2, <2>3, <2>4, <2>5 DEF Serve
  <1>2. ASSUME NEW u \in Users, Register(u) \/ SetPassword(u) PROVE Inv'
    BY <1>2, PasswordInv
  <1>3. ASSUME NEW u \in Users, NEW m \in Manual, PutManual(u, m) \/ DeleteManual(u, m)
        PROVE  Inv'
    BY <1>3, ManualInv
  <1>4. CASE UNCHANGED vars
    BY <1>4, StutterInv
  <1> QED
    BY <1>1, <1>2, <1>3, <1>4 DEF Next

---------------------------------------------------------------------------
(* The invariant holds in every reachable state: what a request established *)
(* before it awaited is still so when it writes, or a race was noted.      *)
THEOREM Invariance == Spec => []Inv
  BY InitInv, NextInv, PTL DEF Spec

(* Every column and every provider's row is single, and only an account      *)
(* that exists has any: two requests of a user that write for the same     *)
(* provider replace each other's value.                                    *)
THEOREM TypeCorrect == Spec => []TypeOK
  <1>1. Inv => TypeOK
    BY DEF Inv
  <1> QED
    BY <1>1, Invariance, PTL

(* The lockout guard of unlink: whatever logins, links, refreshes and        *)
(* manual entries overlap it, an account keeps a way to sign in, unless    *)
(* two of its own unlinks overlapped.                                      *)
THEOREM LoginKept == Spec => []LoginMethodKept
  <1>1. Inv => LoginMethodKept
    BY DEF Inv
  <1> QED
    BY <1>1, Invariance, PTL

(* An external account signs in to one account, by column or row, as long as *)
(* no two requests about it overlapped.                                    *)
THEOREM OneAccount == Spec => []OneOwner
  <1>1. Inv => OneOwner
    <2> SUFFICES ASSUME Inv, NEW x \in Externals \ raced
                 PROVE  Cardinality(Owners(x) \cup Holders(x)) <= 1
      BY DEF OneOwner
    <2>1. Single(Signs(x))
      BY DEF Inv, OneSigns
    <2>2. CASE Signs(x) = {}
      BY <2>2, FS_EmptySet DEF Signs
    <2>3. ASSUME NEW u \in Signs(x) PROVE Cardinality(Signs(x)) <= 1
      <3>1. Signs(x) = {u}
        BY <2>1, <2>3 DEF Single
      <3> QED
        BY <3>1, FS_Singleton
    <2> QED
      BY <2>2, <2>3 DEF Signs
  <1> QED
    BY <1>1, Invariance, PTL

(* What was unlinked, and not linked again by its user, is in no account,    *)
(* whatever logins, links and refreshes go on, as long as none about it    *)
(* overlapped another.                                                     *)
THEOREM StaysOut == Spec => []RevokedBlocked
  <1>1. Inv => RevokedBlocked
    BY DEF Inv
  <1> QED
    BY <1>1, Invariance, PTL
---------------------------------------------------------------------------
(* AccountDirectory.  That its steps are the service's needs a second        *)
(* inductive invariant: what the columns and rows of one user look like,   *)
(* and what a request still knows of them.                                 *)
Both(x, y) == x \in raced /\ y \in raced

(* One external account of a provider, and its two copies, unless raced.     *)
Paired(u) ==
    /\ \A x, y \in Own(u) : y \in Peers(x) => x = y \/ Both(x, y)
    /\ \A x \in Legacy \ raced : x \in column[u] <=> x \in identity[u]

Knows(n) ==
    /\ n.op \in {"login", "profile", "profileWrite"} /\ n.user # NoUser =>
         \A x \in n.about, y \in Own(n.user) : y \in Peers(x) => x = y \/ Both(x, y)
    /\ n.op = "login" /\ n.user # NoUser => n.about \ raced \subseteq Own(n.user)
    /\ n.op \in {"link", "linkWrite"} => \A x \in n.about \cap n.held :
         /\ x \in raced \/ x \in column[n.user]
         /\ \A y \in column[n.user] : y \in Peers(x) => x = y \/ Both(x, y)
    /\ n.op \in {"unlink", "unlinkWrite"} => (n.about \cap Legacy) \ raced \subseteq n.held
    /\ n.op = "unlinkWrite" => (n.about \cap Discord) \ raced \subseteq n.listed

Rows == /\ Inv
        /\ \A u \in Users : Paired(u)
        /\ \A w \in Requests : Knows(job[w])

LEMMA IdleKnows == Knows(Idle) /\ Knows(Idle)'
  BY DEF Knows, Idle

LEMMA InitRows == Init => Rows
  <1> SUFFICES ASSUME Init PROVE (\A u \in Users : Paired(u)) /\ \A w \in Requests : Knows(job[w])
    BY InitInv DEF Rows
  <1>1. \A u \in Users : Paired(u)
    BY DEF Init, Paired, Own
  <1> QED
    BY <1>1, IdleKnows DEF Init

(* Nothing is written but a request goes on. *)
LEMMA ReadRows ==
    ASSUME Rows, Inv', UNCHANGED <<column, identity, raced>>,
           NEW w \in Requests, NEW n, Knows(n), job' = [job EXCEPT ![w] = n]
    PROVE  Rows'
  <1>1. \A u \in Users : Paired(u)'
    BY DEF Rows, Paired, Own, Both
  <1>2. ASSUME NEW v \in Requests PROVE Knows(job[v])'
    <2>1. PICK m : m = job'[v] /\ Knows(m)
      BY DEF Rows, Inv, TypeOK
    <2>2. Knows(m)'
      BY <2>1 DEF Knows, Own, Both
    <2> QED
      BY <2>1, <2>2
  <1> QED
    BY <1>1, <1>2 DEF Rows

(* Request w makes c and i the column and the rows of u, as in Harmless;     *)
(* what it adds it is about, also in the column.                           *)
Local(w, u, c, i) ==
    /\ u = job[w].user \/ u \notin live
    /\ c \subseteq column[u] \cup job[w].about
    /\ \A x \in (c \cup i) \cap Externals : x \in Own(u) \cup job[w].about
    /\ \A x \in column[u] : x \notin c => x \in job[w].provider
    /\ \A x \in Own(u) : x \notin c \cup i => x \in job[w].provider

(* Who conflicts with w is about nothing but what is raced now. *)
LEMMA Noted ==
    ASSUME Inv, NEW w \in Requests, Done(w)
    PROVE  /\ raced \subseteq raced' /\ job'[w] = Idle
           /\ \A v \in Requests \ {w} : job'[v] = job[v]
           /\ \A v \in Requests \ {w} : Conflict(v, w) =>
                job[v].about \cup job[w].about \subseteq raced'
  BY DEF Done, Rivals, Inv, TypeOK

LEMMA WriteKnows ==
    ASSUME Rows, NEW w \in Requests, Done(w), NEW u \in Users, NEW c, NEW i,
           c \subseteq Externals,
           column' = [column EXCEPT ![u] = c], identity' = [identity EXCEPT ![u] = i],
           Local(w, u, c, i), NEW v \in Requests
    PROVE  Knows(job[v])'
  <1>1. Inv /\ TypeOK
    BY DEF Rows, Inv
  <1>2. CASE v = w
    BY <1>1, <1>2, Noted, IdleKnows DEF Knows
  <1>3. CASE v # w
    <2>1. PICK n \in Job : n = job[v] /\ n = job'[v] /\ Knows(n) /\ JobOK(n)
      BY <1>1, <1>3, Noted DEF Rows, Inv, TypeOK
    <2>2. /\ column'[u] = c /\ identity'[u] = i
          /\ \A z \in Users : z # u => column'[z] = column[z] /\ identity'[z] = identity[z]
      BY <1>1 DEF TypeOK
    <2>3. raced \subseteq raced'
      BY <1>1, Noted
    <2>4. n.op # "idle" /\ n.user # NoUser => n.user \in live /\ n.user \in Users
      BY <1>1, <2>1 DEF JobOK, Shape, TypeOK
    <2>5. n.op \in {"link", "linkWrite", "unlink", "unlinkWrite"} => n.user # NoUser
      BY <1>1, <2>1, AccountsAssumption DEF JobOK, Shape, TypeOK
    <2>6. CASE n.user # u
      <3>1. n.user \in Users => Own(n.user)' = Own(n.user) /\ column'[n.user] = column[n.user]
        BY <2>2, <2>6 DEF Own
      <3>2. Knows(n)'
        BY <2>1, <2>3, <2>4, <2>5, <3>1 DEF Knows, Both
      <3> QED
        BY <2>1, <3>2
    <2>7. CASE n.user = u /\ n.op # "idle"
      <3>1. u \in live /\ u = job[w].user /\ u # NoUser
        BY <2>4, <2>7, AccountsAssumption DEF Local
      <3>2. /\ n.about \subseteq Externals /\ n.about \subseteq n.provider
            /\ job[w].about \subseteq job[w].provider
        BY <1>1, <2>1 DEF JobOK, Shape, Job, Inv, TypeOK
      <3>3. \A x \in n.provider : x \in job[w].provider =>
              n.about \subseteq raced' /\ job[w].about \subseteq raced'
        BY <1>1, <1>3, <2>1, <2>7, <3>1, Noted DEF Conflict
      <3>4. \A x \in n.about : Peers(x) \subseteq n.provider
        BY <2>1, <2>7, <3>2, PeersFacts DEF JobOK, Shape, Job, Ops
      <3>5. Own(u)' = c \cup (i \cap Externals) /\ column'[u] = c
        BY <2>2 DEF Own
      <3>6. ASSUME NEW x \in n.about, NEW y \in Own(u)', y \in Peers(x), y \notin Own(u)
            PROVE  x \in raced' /\ y \in raced'
        <4>1. y \in job[w].about
          BY <3>5, <3>6 DEF Local
        <4> QED
          BY <3>2, <3>3, <3>4, <3>6, <4>1
      <3>7. ASSUME NEW x \in n.about, NEW y \in c, y \in Peers(x), y \notin column[u]
            PROVE  x \in raced' /\ y \in raced'
        <4>1. y \in job[w].about
          BY <3>7 DEF Local
        <4> QED
          BY <3>2, <3>3, <3>4, <3>7, <4>1
      <3>8. ASSUME NEW x \in n.about, x \in Own(u), x \notin Own(u)' PROVE x \in raced'
        <4>1. x \in job[w].provider
          BY <3>2, <3>5, <3>8 DEF Local
        <4> QED
          BY <3>2, <3>3, <4>1
      <3>9. ASSUME NEW x \in n.about, x \in column[u], x \notin c PROVE x \in raced'
        <4>1. x \in job[w].provider
          BY <3>9 DEF Local
        <4> QED
          BY <3>2, <3>3, <4>1
      <3>10. Knows(n)'
        <4>1. n.op \in {"login", "profile", "profileWrite"} =>
                \A x \in n.about, y \in Own(u)' : y \in Peers(x) => x = y \/ Both(x, y)'
          BY <2>1, <2>3, <2>7, <3>1, <3>6 DEF Knows, Both
        <4>2. n.op = "login" => n.about \ raced' \subseteq Own(u)'
          BY <2>1, <2>3, <2>7, <3>1, <3>8 DEF Knows
        <4>3. n.op \in {"link", "linkWrite"} => \A x \in n.about \cap n.held :
                /\ x \in raced' \/ x \in c
                /\ \A y \in c : y \in Peers(x) => x = y \/ Both(x, y)'
          BY <2>1, <2>3, <2>7, <3>7, <3>9 DEF Knows, Both
        <4>4. /\ n.op \in {"unlink", "unlinkWrite"} =>
                   (n.about \cap Legacy) \ raced' \subseteq n.held
              /\ n.op = "unlinkWrite" => (n.about \cap Discord) \ raced' \subseteq n.listed
          BY <2>1, <2>3 DEF Knows
        <4> QED
          BY <2>7, <3>5, <4>1, <4>2, <4>3, <4>4 DEF Knows
      <3> QED
        BY <2>1, <3>10
    <2>8. CASE n.op = "idle"
      <3>1. Knows(n)'
        BY <2>8 DEF Knows
      <3> QED
        BY <2>1, <3>1
    <2> QED
      BY <2>6, <2>7, <2>8
  <1> QED
    BY <1>2, <1>3

(* Reads. *)
LEMMA LookUpRows ==
    ASSUME Rows, NEW w \in Requests, NEW x \in Externals, LookUp(w, x)
    PROVE  Rows'
  <1> DEFINE found == IF Owners(x) # {} THEN Owners(x) ELSE Holders(x)
  <1>1. PICK u \in Users \cup {NoUser} :
          /\ IF found = {} THEN u = NoUser ELSE u \in found
          /\ job' = [job EXCEPT ![w] =
               [op |-> "login", user |-> u, provider |-> Peers(x), about |-> {x},
                held |-> IF u = NoUser THEN {} ELSE column[u] \cap Peers(x),
                listed |-> {}]]
    BY DEF LookUp
  <1> DEFINE n == [op |-> "login", user |-> u, provider |-> Peers(x), about |-> {x},
                   held |-> IF u = NoUser THEN {} ELSE column[u] \cap Peers(x),
                   listed |-> {}]
  <1>2. job' = [job EXCEPT ![w] = n] /\ UNCHANGED <<column, identity, raced>>
    BY <1>1 DEF LookUp
  <1>3. u # NoUser => u \in Users /\ x \in Own(u)
    BY <1>1 DEF Owners, Holders, Own
  <1>4. Knows(n)
    BY <1>3 DEF Knows, Rows, Paired
  <1>5. Inv'
    BY LookUpInv DEF Rows
  <1> HIDE DEF n
  <1> QED
    BY <1>2, <1>4, <1>5, ReadRows

LEMMA LoadRows ==
    ASSUME Rows, NEW w \in Requests, NEW u \in Users,
           \/ \E x \in Externals : Load(w, u, "link", Peers(x), {x})
           \/ \E P \in Providers : Load(w, u, "unlink", P, Own(u) \cap P)
           \/ Load(w, u, "profile", Externals, column[u])
    PROVE  Rows'
  <1>1. Inv'
    BY LoadLink, LoadUnlink, LoadProfile DEF Rows
  <1>2. Paired(u) /\ TypeOK
    BY DEF Rows, Inv
  <1>3. ASSUME NEW op, NEW P, NEW a, Load(w, u, op, P, a),
               Knows([op |-> op, user |-> u, provider |-> P, about |-> a,
                      held |-> column[u] \cap P, listed |-> {}])
        PROVE  Rows'
    <2> DEFINE n == [op |-> op, user |-> u, provider |-> P, about |-> a,
                     held |-> column[u] \cap P, listed |-> {}]
    <2>1. job' = [job EXCEPT ![w] = n] /\ UNCHANGED <<column, identity, raced>>
      BY <1>3 DEF Load
    <2>2. Knows(n)
      BY <1>3
    <2> HIDE DEF n
    <2> QED
      BY <1>1, <2>1, <2>2, ReadRows
  <1>4. ASSUME NEW x \in Externals, Load(w, u, "link", Peers(x), {x}) PROVE Rows'
    <2>1. x \in column[u] => \A y \in column[u] : y \in Peers(x) => x = y
      BY <1>2, Singles, PeersFacts DEF Single
    <2>2. Knows([op |-> "link", user |-> u, provider |-> Peers(x), about |-> {x},
                 held |-> column[u] \cap Peers(x), listed |-> {}])
      BY <2>1 DEF Knows
    <2> QED
      BY <1>3, <1>4, <2>2
  <1>5. ASSUME NEW P \in Providers, Load(w, u, "unlink", P, Own(u) \cap P) PROVE Rows'
    <2>1. \A x \in Legacy \ raced : x \in Own(u) => x \in column[u]
      BY <1>2 DEF Paired, Own
    <2>2. Knows([op |-> "unlink", user |-> u, provider |-> P, about |-> Own(u) \cap P,
                 held |-> column[u] \cap P, listed |-> {}])
      BY <2>1 DEF Knows
    <2> QED
      BY <1>3, <1>5, <2>2
  <1>6. ASSUME Load(w, u, "profile", Externals, column[u]) PROVE Rows'
    <2>1. Knows([op |-> "profile", user |-> u, provider |-> Externals, about |-> column[u],
                 held |-> column[u] \cap Externals, listed |-> {}])
      BY <1>2 DEF Knows, Paired, Own
    <2> QED
      BY <1>3, <1>6, <2>1
  <1> QED
    BY <1>4, <1>5, <1>6

LEMMA StepRows ==
    ASSUME Rows, Inv', NEW w \in Requests, NEW o, NEW a, NEW l, Step(w, o, a, l),
           Knows([op |-> o, user |-> job[w].user, provider |-> job[w].provider,
                  about |-> a, held |-> job[w].held, listed |-> l])
    PROVE  Rows'
  <1> DEFINE j == job[w]
             n == [op |-> o, user |-> j.user, provider |-> j.provider, about |-> a,
                   held |-> j.held, listed |-> l]
  <1>1. job' = [job EXCEPT ![w] = n] /\ UNCHANGED <<column, identity, raced>>
    BY DEF Step, Rows, Inv, TypeOK
  <1>2. Knows(n)
    OBVIOUS
  <1> HIDE DEF n
  <1> QED
    BY <1>1, <1>2, ReadRows

LEMMA CheckLinkRows ==
    ASSUME Rows, NEW w \in Requests, NEW x \in Externals, CheckLink(w, x)
    PROVE  Rows'
  <1>1. Inv' /\ job[w].op = "link" /\ job[w].about = {x} /\ Step(w, "linkWrite", {x}, {})
    BY CheckLinkInv DEF Rows, CheckLink
  <1>2. Knows([op |-> "linkWrite", user |-> job[w].user, provider |-> job[w].provider,
               about |-> {x}, held |-> job[w].held, listed |-> {}])
    BY <1>1 DEF Knows, Rows
  <1> QED
    BY <1>1, <1>2, StepRows

LEMMA CountRows ==
    ASSUME Rows, NEW w \in Requests, NEW u \in Users, Count(w, u)
    PROVE  Rows'
  <1>1. /\ Inv' /\ job[w].op = "unlink" /\ job[w].user = u
        /\ Step(w, "unlinkWrite", job[w].about, identity[u] \cap Discord)
    BY CountInv DEF Rows, Count
  <1>2. (job[w].about \cap Discord) \ raced \subseteq identity[u] \cap Discord
    <2>1. \A x \in job[w].about \ raced : x \in Own(u)
      BY <1>1 DEF Rows, Inv, JobOK, Established
    <2>2. column[u] \cap Discord = {}
      BY AccountsAssumption DEF Rows, Inv, TypeOK, Legacy
    <2> QED
      BY <2>1, <2>2 DEF Own
  <1>3. Knows([op |-> "unlinkWrite", user |-> job[w].user, provider |-> job[w].provider,
               about |-> job[w].about, held |-> job[w].held,
               listed |-> identity[u] \cap Discord])
    BY <1>1, <1>2 DEF Knows, Rows
  <1> QED
    BY <1>1, <1>3, StepRows

LEMMA ListRows ==
    ASSUME Rows, NEW w \in Requests, NEW u \in Users, List(w, u)
    PROVE  Rows'
  <1> DEFINE j == job[w]
             missing == {x \in j.held : identity[u] \cap Peers(x) = {}}
  <1>1. PICK stale \in SUBSET ((identity[u] \cup missing) \cap (Steam \cup Discord)) :
          Step(w, "profileWrite", j.about \cup stale, missing \cup stale)
    BY DEF List
  <1>2. /\ Inv' /\ j.op = "profile" /\ j.user = u /\ JobOK(j) /\ Knows(j) /\ Paired(u)
        /\ j.held \subseteq j.about /\ u # NoUser
    <2>1. Inv' /\ j.op = "profile" /\ j.user = u
      BY ListInv DEF Rows, List
    <2>2. JobOK(j) /\ Knows(j) /\ Paired(u)
      BY DEF Rows, Inv
    <2>3. u # NoUser
      BY AccountsAssumption
    <2>4. j.held \subseteq j.about
      BY <2>1, <2>2 DEF JobOK, Shape
    <2> QED
      BY <2>1, <2>2, <2>3, <2>4
  <1>3. \A x \in stale : x \in j.about \/ x \in Own(u)
    BY <1>1, <1>2 DEF Own, Externals, Legacy
  <1>4. \A x \in j.about \cup stale, y \in Own(u) : y \in Peers(x) => x = y \/ Both(x, y)
    BY <1>2, <1>3 DEF Knows, Paired
  <1>5. Knows([op |-> "profileWrite", user |-> j.user, provider |-> j.provider,
               about |-> j.about \cup stale, held |-> j.held, listed |-> missing \cup stale])
    BY <1>2, <1>4 DEF Knows
  <1> QED
    BY <1>1, <1>2, <1>5, StepRows

(* Writes.  A row or a column that is put over others of its provider        *)
(* leaves none of them, unless both are raced.                             *)
LEMMA PutPeers ==
    ASSUME NEW S, NEW X \in SUBSET Externals, \A P \in Providers : Single(X \cap P),
           NEW x \in X, NEW y \in Put(S, X), y \in Peers(x)
    PROVE  x = y
  <1>1. y \in X
    BY DEF Put
  <1>2. Peers(x) \in Providers /\ x \in Peers(x)
    BY PeersFacts
  <1> QED
    BY <1>1, <1>2 DEF Single

LEMMA PeersBack ==
    ASSUME NEW x \in Externals, NEW y, y \in Peers(x)
    PROVE  y \in Externals /\ Peers(y) = Peers(x)
  BY PeersFacts

(* Column c fits the external accounts X that are put into the rows. *)
Fits(c, X) ==
    /\ \A x \in X, y \in c : y \in Peers(x) => x = y \/ Both(x, y)
    /\ \A x \in (X \cap Legacy) \ raced : x \in c

LEMMA PutRows ==
    ASSUME Rows, Inv', NEW w \in Requests, Done(w), NEW u \in live, u = job[w].user,
           NEW X \in SUBSET Externals, X \subseteq job[w].about,
           \A P \in Providers : Single(X \cap P),
           job[w].op \in {"login", "linkWrite", "profileWrite"},
           NEW c, Filled(c, u, X),
           column' = [column EXCEPT ![u] = c],
           identity' = [identity EXCEPT ![u] = Put(identity[u], X)],
           Fits(c, X)
    PROVE  Rows'
  <1> DEFINE i == Put(identity[u], X)
  <1>1. /\ u \in Users /\ column[u] \in SUBSET Legacy /\ Inv
        /\ identity[u] \in SUBSET (Externals \cup Manual) /\ raced \subseteq raced'
    BY Noted DEF Rows, Inv, TypeOK
  <1>2. /\ column'[u] = c /\ identity'[u] = i
        /\ \A z \in Users : z # u => column'[z] = column[z] /\ identity'[z] = identity[z]
    BY DEF Rows, Inv, TypeOK
  <1>3. /\ i \subseteq identity[u] \cup X /\ X \subseteq i
        /\ \A s \in identity[u] : s \notin i => \E x \in X : s \in Peers(x)
    BY PutFacts
  <1>4. /\ c \subseteq column[u] \cup X
        /\ \A s \in column[u] : s \notin c => \E x \in X : s \in Peers(x)
    BY PutFacts DEF Filled
  <1>5. c \subseteq Externals
    BY <1>1, <1>4 DEF Externals
  <1>6. \A x \in X : Peers(x) \subseteq job[w].provider
    BY PeersFacts DEF Rows, Inv, JobOK, Shape
  <1>7. Local(w, u, c, i)
    <2>1. \A x \in (c \cup i) \cap Externals : x \in Own(u) \cup job[w].about
      BY <1>3, <1>4 DEF Own
    <2>2. \A x \in column[u] : x \notin c => x \in job[w].provider
      BY <1>4, <1>6
    <2>3. \A x \in Own(u) : x \notin c \cup i => x \in job[w].provider
      BY <1>3, <1>4, <1>6 DEF Own
    <2> HIDE DEF i
    <2> QED
      BY <1>4, <2>1, <2>2, <2>3 DEF Local
  <1>8. \A x \in X, y \in i : y \in Peers(x) => x = y
    BY PutPeers
  <1> HIDE DEF i
  <1>9. \A x \in X, y \in c \cup i : y \in Peers(x) => x = y \/ Both(x, y)
    BY <1>8 DEF Fits
  <1>10. Own(u)' = c \cup (i \cap Externals)
    BY <1>2 DEF Own
  <1>11. Paired(u)'
    <2>1. ASSUME NEW x \in Own(u)', NEW y \in Own(u)', y \in Peers(x), x # y PROVE Both(x, y)'
      <3>1. x \in Externals /\ y \in Externals /\ x \in Peers(y)
        BY <1>5, <1>10, <2>1, PeersBack, PeersFacts
      <3>2. Both(x, y) => Both(x, y)'
        BY <1>1 DEF Both
      <3>3. CASE x \in X
        BY <1>9, <1>10, <2>1, <3>2, <3>3
      <3>4. CASE y \in X
        BY <1>9, <1>10, <2>1, <3>1, <3>2, <3>4 DEF Both
      <3>5. CASE x \notin X /\ y \notin X
        <4>1. x \in Own(u) /\ y \in Own(u)
          BY <1>3, <1>4, <1>10, <3>5 DEF Own
        <4> QED
          BY <1>1, <2>1, <3>2, <4>1 DEF Rows, Paired
      <3> QED
        BY <3>3, <3>4, <3>5
    <2>2. ASSUME NEW x \in Legacy, x \notin raced' PROVE x \in c <=> x \in i
      <3>1. x \in Externals /\ x \notin raced /\ (x \in column[u] <=> x \in identity[u])
        BY <1>1, <2>2 DEF Rows, Paired, Externals
      <3>2. CASE x \in X
        BY <1>3, <2>2, <3>1, <3>2 DEF Fits
      <3>3. ASSUME NEW t \in X, x \in Peers(t), x \notin X PROVE x \notin c /\ x \notin i
        BY <1>9, <3>1, <3>3 DEF Both
      <3>4. CASE x \notin X /\ \A t \in X : x \notin Peers(t)
        BY <1>3, <1>4, <3>1, <3>4
      <3> QED
        BY <3>2, <3>3, <3>4
    <2> QED
      BY <1>2, <2>1, <2>2 DEF Paired
  <1>12. ASSUME NEW z \in Users PROVE Paired(z)'
    <2>1. CASE z = u
      BY <1>11, <2>1
    <2>2. CASE z # u
      <3>1. Own(z)' = Own(z)
        BY <1>2, <2>2 DEF Own
      <3> QED
        BY <1>1, <1>2, <2>2, <3>1 DEF Rows, Paired, Both
    <2> QED
      BY <2>1, <2>2
  <1>13. \A v \in Requests : Knows(job[v])'
    BY <1>1, <1>5, <1>7, WriteKnows DEF i
  <1> QED
    BY <1>12, <1>13 DEF Rows

LEMMA LogInRows ==
    ASSUME Rows, NEW w \in Requests, NEW u \in Users, NEW x \in Externals, LogIn(w, u, x)
    PROVE  Rows'
  <1> DEFINE j == job[w]
             c == IF x \in Steam \ j.held THEN Put(column[u], {x}) ELSE column[u]
             X == {x}
  <1>1. /\ j.op = "login" /\ j.user = u /\ j.about = X /\ JobOK(j) /\ Knows(j) /\ Done(w)
        /\ column' = [column EXCEPT ![u] = c]
        /\ identity' = [identity EXCEPT ![u] = Put(identity[u], X)]
        /\ Paired(u) /\ Inv'
    BY LogInInv DEF LogIn, Rows, Inv
  <1>2. u \in live /\ u # NoUser
    BY <1>1, AccountsAssumption DEF JobOK, Shape
  <1>3. X \in SUBSET Externals /\ \A P \in Providers : Single(X \cap P)
    BY DEF Single
  <1>4. Filled(c, u, X)
    BY DEF Filled, Legacy
  <1>5. \A z \in X, y \in c : y \in Peers(z) => z = y \/ Both(z, y)
    <2>1. CASE c = column[u]
      BY <1>1, <1>2, <2>1 DEF Knows, Own
    <2>2. CASE c = Put(column[u], X)
      BY <1>3, <2>2, PutPeers
    <2> QED
      BY <2>1, <2>2
  <1>6. \A z \in (X \cap Legacy) \ raced : z \in c
    <2>1. \A z \in (X \cap Legacy) \ raced : z \in column[u]
      BY <1>1, <1>2 DEF Knows, Own, Paired
    <2> QED
      BY <1>3, <2>1, PutFacts
  <1>7. Fits(c, X)
    BY <1>5, <1>6 DEF Fits
  <1>8. /\ X \subseteq job[w].about /\ job[w].op \in {"login", "linkWrite", "profileWrite"}
        /\ u \in live /\ u = job[w].user /\ Inv' /\ Done(w)
        /\ column' = [column EXCEPT ![u] = c]
        /\ identity' = [identity EXCEPT ![u] = Put(identity[u], X)]
    BY <1>1, <1>2, <1>3
  <1> HIDE DEF c, X
  <1> QED
    BY <1>3, <1>4, <1>7, <1>8, PutRows

(* What is linked is in the column already when the column is left. *)
LinkedColumn(w, u, x) ==
    IF x \in Legacy \ job[w].held THEN Put(column[u], {x}) ELSE column[u]

LEMMA LinkFits ==
    ASSUME Rows, NEW w \in Requests, NEW u \in Users, NEW x \in Externals, Link(w, u, x)
    PROVE  /\ Fits(LinkedColumn(w, u, x), {x})
           /\ Filled(LinkedColumn(w, u, x), u, {x})
  <1> DEFINE j == job[w]
             c == LinkedColumn(w, u, x)
             X == {x}
  <1>1. j.op = "linkWrite" /\ j.user = u /\ j.about = X /\ Knows(j)
    BY DEF Link, Rows
  <1>2. X \in SUBSET Externals /\ \A P \in Providers : Single(X \cap P)
    BY DEF Single
  <1>3. /\ \A y \in c : y \in Peers(x) => x = y \/ Both(x, y)
        /\ x \in Legacy \ raced => x \in c
    <2>1. CASE x \in Legacy \ j.held
      BY <1>2, <2>1, PutPeers, PutFacts DEF LinkedColumn
    <2>2. CASE x \in Legacy /\ x \in j.held
      BY <1>1, <2>2 DEF Knows, LinkedColumn
    <2>3. CASE x \notin Legacy
      <3>1. x \in Discord /\ c = column[u] /\ column[u] \subseteq Legacy
        BY <2>3 DEF Externals, Rows, Inv, TypeOK, LinkedColumn
      <3>2. \A y \in column[u] : y \notin Peers(x)
        BY <3>1, AccountsAssumption DEF Peers, Providers, Legacy
      <3> QED
        BY <2>3, <3>1, <3>2
    <2> QED
      BY <2>1, <2>2, <2>3
  <1>4. Fits(c, X)
    BY <1>3 DEF Fits
  <1>5. Filled(c, u, X)
    BY DEF Filled, Legacy, LinkedColumn
  <1> QED
    BY <1>4, <1>5

LEMMA LinkRows ==
    ASSUME Rows, NEW w \in Requests, NEW u \in Users, NEW x \in Externals, Link(w, u, x)
    PROVE  Rows'
  <1> DEFINE j == job[w]
             c == LinkedColumn(w, u, x)
             X == {x}
  <1>1. j.op = "linkWrite" /\ j.user = u /\ j.about = X /\ JobOK(j) /\ Inv'
    BY LinkInv DEF Link, Rows, Inv
  <1>2. X \in SUBSET Externals /\ \A P \in Providers : Single(X \cap P)
    BY DEF Single
  <1>3. Fits(c, X) /\ Filled(c, u, X)
    BY LinkFits
  <1>4. /\ X \subseteq job[w].about /\ job[w].op \in {"login", "linkWrite", "profileWrite"}
        /\ u \in live /\ u = job[w].user /\ Inv' /\ Done(w)
        /\ column' = [column EXCEPT ![u] = c]
        /\ identity' = [identity EXCEPT ![u] = Put(identity[u], X)]
    BY <1>1 DEF Link, JobOK, Shape, LinkedColumn
  <1> HIDE DEF c, X
  <1> QED
    BY <1>2, <1>3, <1>4, PutRows

LEMMA SaveProfileRows ==
    ASSUME Rows, NEW w \in Requests, NEW u \in Users, SaveProfile(w, u)
    PROVE  Rows'
  <1> DEFINE j == job[w]
             X == j.listed
             c == column[u]
  <1>1. /\ j.op = "profileWrite" /\ j.user = u /\ JobOK(j) /\ Knows(j) /\ j \in Job /\ Done(w)
        /\ identity' = [identity EXCEPT ![u] = Put(identity[u], X)]
        /\ Paired(u) /\ Inv'
    BY SaveProfileInv DEF SaveProfile, Rows, Inv, TypeOK
  <1>2. column' = [column EXCEPT ![u] = c]
    BY DEF SaveProfile, Rows, Inv, TypeOK
  <1>3. /\ u \in live /\ X \subseteq j.about /\ u # NoUser
        /\ X \in SUBSET Externals /\ \A P \in Providers : Single(X \cap P)
    BY <1>1, AccountsAssumption DEF JobOK, Shape, Job
  <1>4. Filled(c, u, X)
    BY DEF Filled
  <1>5. \A z \in X, y \in c : y \in Peers(z) => z = y \/ Both(z, y)
    BY <1>1, <1>3 DEF Knows, Own
  <1>6. \A z \in (X \cap Legacy) \ raced : z \in c
    BY <1>1, <1>3 DEF JobOK, Established, Own, Paired
  <1>7. Fits(c, X)
    BY <1>5, <1>6 DEF Fits
  <1>8. /\ X \subseteq job[w].about /\ job[w].op \in {"login", "linkWrite", "profileWrite"}
        /\ u \in live /\ u = job[w].user /\ Inv' /\ Done(w)
        /\ column' = [column EXCEPT ![u] = c]
        /\ identity' = [identity EXCEPT ![u] = Put(identity[u], X)]
    BY <1>1, <1>2, <1>3
  <1> HIDE DEF c, X
  <1> QED
    BY <1>3, <1>4, <1>7, <1>8, PutRows

(* A write that is Local and leaves u with matching copies. *)
LEMMA WriteRows ==
    ASSUME Rows, Inv', NEW w \in Requests, Done(w), NEW u \in Users, NEW c, NEW i,
           c \subseteq Externals,
           column' = [column EXCEPT ![u] = c], identity' = [identity EXCEPT ![u] = i],
           Local(w, u, c, i), Paired(u)'
    PROVE  Rows'
  <1>1. /\ raced \subseteq raced'
        /\ \A z \in Users : z # u => column'[z] = column[z] /\ identity'[z] = identity[z]
    BY Noted DEF Rows, Inv, TypeOK
  <1>2. ASSUME NEW z \in Users PROVE Paired(z)'
    <2>1. CASE z = u
      BY <2>1
    <2>2. CASE z # u
      <3>1. Own(z)' = Own(z)
        BY <1>1, <2>2 DEF Own
      <3> QED
        BY <1>1, <2>2, <3>1 DEF Rows, Paired, Both
    <2> QED
      BY <2>1, <2>2
  <1>3. \A v \in Requests : Knows(job[v])'
    BY WriteKnows
  <1> QED
    BY <1>2, <1>3 DEF Rows

LEMMA CreateAccountRows ==
    ASSUME Rows, NEW w \in Requests, NEW u \in Users, NEW x \in Externals,
           CreateAccount(w, u, x)
    PROVE  Rows'
  <1> DEFINE c == {x} \cap Legacy
             i == {x}
  <1>1. /\ job[w].about = {x} /\ Done(w) /\ u \notin live /\ Inv'
        /\ column' = [column EXCEPT ![u] = c] /\ identity' = [identity EXCEPT ![u] = i]
    BY CreateAccountInv DEF CreateAccount, Rows
  <1>2. column[u] = {} /\ Own(u) = {}
    BY <1>1 DEF Own, Rows, Inv, TypeOK
  <1>3. Local(w, u, c, i)
    BY <1>1, <1>2 DEF Local
  <1>4. column'[u] = c /\ identity'[u] = i
    BY <1>1 DEF Rows, Inv, TypeOK
  <1>5. Paired(u)'
    BY <1>4 DEF Paired, Own
  <1>6. c \subseteq Externals
    OBVIOUS
  <1> HIDE DEF c, i
  <1> QED
    BY <1>1, <1>3, <1>5, <1>6, WriteRows

LEMMA UnlinkRows ==
    ASSUME Rows, NEW w \in Requests, NEW u \in Users, Unlink(w, u)
    PROVE  Rows'
  <1> DEFINE P == job[w].provider
             c == column[u] \ P
             i == identity[u] \ P
  <1>1. /\ job[w].user = u /\ Done(w) /\ Inv' /\ raced \subseteq raced'
        /\ column' = [column EXCEPT ![u] = c] /\ identity' = [identity EXCEPT ![u] = i]
    BY UnlinkInv DEF Unlink, Rows, Done
  <1>2. Local(w, u, c, i)
    BY <1>1 DEF Local, Own
  <1>3. column'[u] = c /\ identity'[u] = i
    BY <1>1 DEF Rows, Inv, TypeOK
  <1>4. Own(u)' \subseteq Own(u)
    BY <1>3 DEF Own
  <1>5. Paired(u)'
    BY <1>1, <1>3, <1>4 DEF Rows, Paired, Both
  <1>6. c \subseteq Externals
    BY DEF Rows, Inv, TypeOK, Externals
  <1> HIDE DEF c, i
  <1> QED
    BY <1>1, <1>2, <1>5, <1>6, WriteRows

(* Nothing an external account signs in to changes. *)
LEMMA QuietRows ==
    ASSUME Rows, Inv', UNCHANGED <<column, job, raced>>,
           \A z \in Users : identity'[z] \cap Externals = identity[z] \cap Externals
    PROVE  Rows'
  <1>1. \A z \in Users : Own(z)' = Own(z)
    BY DEF Own
  <1>2. ASSUME NEW z \in Users PROVE Paired(z)'
    BY <1>1 DEF Rows, Paired, Both, Externals
  <1>3. ASSUME NEW v \in Requests PROVE Knows(job[v])'
    <2>1. PICK n : n = job[v] /\ n = job'[v] /\ Knows(n) /\ JobOK(n)
      BY DEF Rows, Inv
    <2>2. n.op # "idle" /\ n.user # NoUser => n.user \in Users
      BY <2>1 DEF JobOK, Shape, Rows, Inv, TypeOK
    <2>3. Knows(n)'
      BY <1>1, <2>1, <2>2 DEF Knows, Both
    <2> QED
      BY <2>1, <2>3
  <1> QED
    BY <1>2, <1>3 DEF Rows

LEMMA ManualSame ==
    ASSUME TypeOK, NEW u \in Users, NEW m \in Manual, PutManual(u, m) \/ DeleteManual(u, m),
           NEW z \in Users
    PROVE  identity'[z] \cap Externals = identity[z] \cap Externals
  <1>1. m \notin Externals
    BY AccountsAssumption DEF Externals, Legacy
  <1> QED
    BY <1>1 DEF PutManual, DeleteManual, TypeOK

LEMMA StepRowsKept == Rows /\ [Next]_vars => Rows'
  <1> SUFFICES ASSUME Rows, [Next]_vars PROVE Rows'
    OBVIOUS
  <1>0. Inv' /\ TypeOK
    BY NextInv DEF Rows, Inv
  <1>1. ASSUME NEW w \in Requests, Serve(w) PROVE Rows'
    <2>1. CASE Abort(w)
      BY <1>0, <2>1, IdleKnows, ReadRows DEF Abort
    <2>2. ASSUME NEW x \in Externals, LookUp(w, x) \/ CheckLink(w, x) PROVE Rows'
      BY <2>2, LookUpRows, CheckLinkRows
    <2>3. ASSUME NEW x \in Externals, NEW u \in Users,
                 CreateAccount(w, u, x) \/ LogIn(w, u, x) \/ Link(w, u, x)
          PROVE  Rows'
      BY <2>3, CreateAccountRows, LogInRows, LinkRows
    <2>4. ASSUME NEW u \in Users,
                 \/ \E x \in Externals : Load(w, u, "link", Peers(x), {x})
                 \/ \E P \in Providers : Load(w, u, "unlink", P, Own(u) \cap P)
                 \/ Load(w, u, "profile", Externals, column[u])
          PROVE  Rows'
      BY <2>4, LoadRows
    <2>5. ASSUME NEW u \in Users, Count(w, u) \/ Unlink(w, u) \/ List(w, u) \/ SaveProfile(w, u)
          PROVE  Rows'
      BY <2>5, CountRows, UnlinkRows, ListRows, SaveProfileRows
    <2> QED
      BY <1>1, <2>1, <2>2, <2>3, <2>4, <2>5 DEF Serve
  <1>2. ASSUME NEW u \in Users, Register(u) \/ SetPassword(u) PROVE Rows'
    BY <1>0, <1>2, QuietRows DEF Register, SetPassword
  <1>3. ASSUME NEW u \in Users, NEW m \in Manual, PutManual(u, m) \/ DeleteManual(u, m)
        PROVE  Rows'
    <2>1. \A z \in Users : identity'[z] \cap Externals = identity[z] \cap Externals
      BY <1>0, <1>3, ManualSame
    <2> QED
      BY <1>0, <1>3, <2>1, QuietRows DEF PutManual, DeleteManual
  <1>4. CASE UNCHANGED vars
    BY <1>0, <1>4, QuietRows DEF vars
  <1> QED
    BY <1>1, <1>2, <1>3, <1>4 DEF Next

(* The two copies of a link agree: what a login, an unlink or a refresh read *)
(* of one of them is true of the other, unless requests about the external *)
(* account overlapped.                                                     *)
THEOREM CopiesKept == Spec => []CopiesAgree
  <1>1. Rows => CopiesAgree
    BY DEF Rows, Paired, CopiesAgree
  <1> QED
    BY <1>1, InitRows, StepRowsKept, PTL DEF Spec

(* The mapping: what the directory calls an external account and a peer.     *)
LEMMA DirectoryTerms ==
    /\ Directory!Externals = Externals
    /\ \A x \in Externals : Directory!Peers(x) = Peers(x)
  BY DEF Directory!Externals, Directory!Peers, Externals, Legacy, Providers, Peers

(* What the directory keeps, said of the columns and rows. *)
LEMMA KeepsBy ==
    ASSUME NEW s, NEW b, b \subseteq Externals, revoked' \subseteq Externals,
           \A x \in Externals \ raced' : Signs(x)' = s[x] /\ (x \in revoked' <=> x \in b)
    PROVE  Directory!Keeps(s, b)
  <1>1. SignsIn' = [x \in Externals |-> IF x \in raced' THEN {} ELSE s[x]]
    BY DEF SignsIn, Signs
  <1>2. revoked' \ raced' = b \ raced'
    OBVIOUS
  <1> QED
    BY <1>1, <1>2, DirectoryTerms DEF Directory!Keeps

LEMMA SignsInOf ==
    ASSUME NEW x \in Externals, x \notin raced
    PROVE  SignsIn[x] = Signs(x) /\ (x \in revoked \ raced <=> x \in revoked)
  BY DEF SignsIn, Signs

(* No account changes hands. *)
LEMMA DirectoryRests ==
    ASSUME TypeOK, raced \subseteq raced', revoked' \subseteq Externals, live' = live,
           \A x \in Externals \ raced' : Signs(x)' = Signs(x) /\ (x \in revoked' <=> x \in revoked)
    PROVE  Directory!Next
  <1>1. \A x \in Externals \ raced' : Signs(x)' = SignsIn[x] /\ (x \in revoked' <=> x \in revoked \ raced)
    BY SignsInOf
  <1>2. revoked \ raced \subseteq Externals
    BY DEF TypeOK
  <1>3. Directory!Keeps(SignsIn, revoked \ raced)
    BY <1>1, <1>2, KeepsBy
  <1>4. Directory!Rest
    BY <1>3 DEF Directory!Rest
  <1> QED
    BY <1>4 DEF Directory!Next

(* Who signs in with x, from the columns and rows of one user. *)
LEMMA SignsBy ==
    ASSUME NEW x \in Externals, NEW u \in Users,
           \A z \in Users : z # u => Own(z)' = Own(z)
    PROVE  /\ Signs(x) \subseteq Users /\ Signs(x)' \subseteq Users
           /\ \A z \in Users : z # u => (z \in Signs(x)' <=> z \in Signs(x))
           /\ u \in Signs(x)' <=> x \in Own(u)'
           /\ u \in Signs(x) <=> x \in Own(u)
  BY DEF Signs, Owners, Holders, Own

LEMMA OthersOwn ==
    ASSUME TypeOK, NEW u \in Users, NEW c, NEW i, column' = [column EXCEPT ![u] = c],
           identity' = [identity EXCEPT ![u] = i]
    PROVE  /\ \A z \in Users : z # u => Own(z)' = Own(z)
           /\ Own(u)' = c \cup (i \cap Externals)
  BY DEF TypeOK, Own

(* A login or a refresh writes what the user has already. *)
LEMMA PutRests ==
    ASSUME Rows, Inv', NEW w \in Requests, Done(w), NEW u \in live,
           NEW X \in SUBSET Externals, X \subseteq job[w].about, u = job[w].user,
           job[w].op \in {"login", "profileWrite"},
           NEW c, Filled(c, u, X),
           column' = [column EXCEPT ![u] = c],
           identity' = [identity EXCEPT ![u] = Put(identity[u], X)], live' = live,
           \A x \in X \ raced : x \in Own(u),
           revoked' \subseteq revoked, \A x \in revoked : x \notin revoked' => x \in X
    PROVE  Directory!Next
  <1> DEFINE i == Put(identity[u], X)
  <1>1. /\ u \in Users /\ TypeOK /\ raced \subseteq raced' /\ Inv /\ u # NoUser
        /\ revoked' \subseteq Externals /\ Knows(job[w])
    <2>1. Inv /\ TypeOK /\ Knows(job[w])
      BY DEF Rows, Inv
    <2>2. raced \subseteq raced'
      BY <2>1, Noted
    <2> QED
      BY <2>1, <2>2, AccountsAssumption DEF TypeOK
  <1>2. /\ \A z \in Users : z # u => Own(z)' = Own(z)
        /\ Own(u)' = c \cup (i \cap Externals)
    BY <1>1, OthersOwn
  <1>3. /\ i \subseteq identity[u] \cup X
        /\ \A s \in identity[u] : s \notin i => s \notin X /\ \E x \in X : s \in Peers(x)
    BY PutFacts
  <1>4. /\ c \subseteq column[u] \cup X
        /\ \A s \in column[u] : s \notin c => s \notin X /\ \E x \in X : s \in Peers(x)
    BY PutFacts DEF Filled
  <1> HIDE DEF i
  <1>5. ASSUME NEW y \in Externals, y \notin raced' PROVE y \in Own(u)' <=> y \in Own(u)
    <2>1. y \in X => y \in Own(u)
      BY <1>1, <1>5
    <2>2. \A x \in X : y \in Own(u) /\ y \in Peers(x) => x = y
      BY <1>1, <1>5 DEF Knows, Both
    <2> QED
      BY <1>2, <1>3, <1>4, <2>1, <2>2 DEF Own
  <1>6. ASSUME NEW y \in Externals, y \notin raced'
        PROVE  Signs(y)' = Signs(y) /\ (y \in revoked' <=> y \in revoked)
    <2>1. Signs(y)' = Signs(y)
      <3>1. \A z \in Users : z # u => Own(z)' = Own(z)
        BY <1>2
      <3>2. y \in Own(u)' <=> y \in Own(u)
        BY <1>5, <1>6
      <3>3. /\ Signs(y) \subseteq Users /\ Signs(y)' \subseteq Users
            /\ \A z \in Users : z # u => (z \in Signs(y)' <=> z \in Signs(y))
            /\ u \in Signs(y)' <=> u \in Signs(y)
        BY <1>1, <3>1, <3>2, SignsBy
      <3> QED
        BY <3>3
    <2>2. y \in X => y \notin revoked
      BY <1>1, <1>6, OwnFacts
    <2> QED
      BY <2>1, <2>2
  <1> QED
    BY <1>1, <1>6, DirectoryRests

LEMMA LogInDirectory ==
    ASSUME Rows, NEW w \in Requests, NEW u \in Users, NEW x \in Externals, LogIn(w, u, x)
    PROVE  Directory!Next
  <1> DEFINE j == job[w]
             c == IF x \in Steam \ j.held THEN Put(column[u], {x}) ELSE column[u]
             X == {x}
  <1>1. /\ j.op = "login" /\ j.user = u /\ j.about = X /\ JobOK(j) /\ Knows(j) /\ Inv'
    BY LogInInv DEF LogIn, Rows, Inv
  <1>2. u \in live /\ u # NoUser
    BY <1>1, AccountsAssumption DEF JobOK, Shape
  <1>3. \A y \in X \ raced : y \in Own(u)
    BY <1>1, <1>2 DEF Knows
  <1>4. /\ X \in SUBSET Externals /\ X \subseteq job[w].about /\ u = job[w].user
        /\ job[w].op \in {"login", "profileWrite"} /\ Done(w) /\ live' = live
        /\ column' = [column EXCEPT ![u] = c]
        /\ identity' = [identity EXCEPT ![u] = Put(identity[u], X)]
    BY <1>1 DEF LogIn
  <1>5. revoked' \subseteq revoked /\ \A y \in revoked : y \notin revoked' => y \in X
    BY DEF LogIn
  <1>6. Filled(c, u, X)
    BY DEF Filled, Legacy
  <1> HIDE DEF c, X
  <1> QED
    BY <1>1, <1>2, <1>3, <1>4, <1>5, <1>6, PutRests

LEMMA SaveProfileDirectory ==
    ASSUME Rows, NEW w \in Requests, NEW u \in Users, SaveProfile(w, u)
    PROVE  Directory!Next
  <1> DEFINE j == job[w]
             c == column[u]
             X == j.listed
  <1>1. j.op = "profileWrite" /\ j.user = u /\ JobOK(j) /\ j \in Job /\ Inv'
    BY SaveProfileInv DEF SaveProfile, Rows, Inv, TypeOK
  <1>2. u \in live /\ X \subseteq j.about /\ X \in SUBSET Externals
    BY <1>1 DEF JobOK, Shape, Job
  <1>3. \A y \in X \ raced : y \in Own(u)
    BY <1>1, <1>2 DEF JobOK, Established
  <1>4. /\ X \subseteq job[w].about /\ u = job[w].user
        /\ job[w].op \in {"login", "profileWrite"} /\ Done(w) /\ live' = live
        /\ column' = [column EXCEPT ![u] = c]
        /\ identity' = [identity EXCEPT ![u] = Put(identity[u], X)]
    BY <1>1, <1>2 DEF SaveProfile, Rows, Inv, TypeOK
  <1>5. revoked' \subseteq revoked /\ \A y \in revoked : y \notin revoked' => y \in X
    BY DEF SaveProfile
  <1>6. Filled(c, u, X)
    BY DEF Filled
  <1> HIDE DEF c, X
  <1> QED
    BY <1>1, <1>2, <1>3, <1>4, <1>5, <1>6, PutRests

(* A link takes what is the user's or nobody's, in place of what the user    *)
(* had of the provider.                                                    *)
LEMMA LinkDirectory ==
    ASSUME Rows, NEW w \in Requests, NEW u \in Users, NEW x \in Externals, Link(w, u, x)
    PROVE  Directory!Next
  <1> DEFINE j == job[w]
             c == LinkedColumn(w, u, x)
             X == {x}
             i == Put(identity[u], X)
             s == [y \in Directory!Externals |->
                     IF y = x THEN {u}
                     ELSE IF y \in Directory!Peers(x) THEN SignsIn[y] \ {u} ELSE SignsIn[y]]
  <1>1. /\ j.op = "linkWrite" /\ j.user = u /\ j.about = X /\ JobOK(j) /\ TypeOK
        /\ column' = [column EXCEPT ![u] = c] /\ identity' = [identity EXCEPT ![u] = i]
        /\ revoked' = revoked \ {x} /\ live' = live
    BY DEF Link, Rows, Inv, LinkedColumn
  <1>2. u \in live /\ (x \notin raced => Signs(x) \subseteq {u})
    BY <1>1 DEF JobOK, Shape, Established
  <1>3. raced \subseteq raced'
    BY DEF Link, Done
  <1>4. X \in SUBSET Externals /\ \A P \in Providers : Single(X \cap P)
    BY DEF Single
  <1>5. Fits(c, X) /\ Filled(c, u, X)
    BY LinkFits
  <1>6. /\ i \subseteq identity[u] \cup X /\ X \subseteq i
        /\ \A t \in identity[u] : t \notin i => t \in Peers(x)
        /\ \A y \in i : y \in Peers(x) => x = y
    BY <1>4, PutFacts, PutPeers
  <1>7. /\ c \subseteq column[u] \cup X
        /\ \A t \in column[u] : t \notin c => t \in Peers(x)
    BY <1>4, <1>5, PutFacts DEF Filled
  <1>8. /\ \A z \in Users : z # u => Own(z)' = Own(z)
        /\ Own(u)' = c \cup (i \cap Externals)
    BY <1>1, OthersOwn
  <1> HIDE DEF i, c
  <1>9. ASSUME NEW y \in Externals, y \notin raced'
        PROVE  /\ y = x => y \in Own(u)'
               /\ y # x /\ y \in Peers(x) => y \notin Own(u)'
               /\ y \notin Peers(x) => (y \in Own(u)' <=> y \in Own(u))
    <2>1. y # x /\ y \in Peers(x) => y \notin c /\ y \notin i
      BY <1>3, <1>5, <1>6, <1>9 DEF Fits, Both
    <2>2. y = x => y \in i
      BY <1>6
    <2>3. y \notin Peers(x) => /\ y \in i <=> y \in identity[u]
                               /\ y \in c <=> y \in column[u]
      BY <1>6, <1>7, PeersFacts
    <2> QED
      BY <1>8, <2>1, <2>2, <2>3 DEF Own
  <1>10. ASSUME NEW y \in Externals, y \notin raced'
         PROVE  Signs(y)' = s[y] /\ (y \in revoked' <=> y \in (revoked \ raced) \ {x})
    <2>1. s[y] = IF y = x THEN {u} ELSE IF y \in Peers(x) THEN Signs(y) \ {u} ELSE Signs(y)
      BY <1>3, <1>10, SignsInOf, DirectoryTerms
    <2> HIDE DEF s
    <2>2. /\ Signs(y) \subseteq Users /\ Signs(y)' \subseteq Users
          /\ \A z \in Users : z # u => (z \in Signs(y)' <=> z \in Signs(y))
          /\ u \in Signs(y)' <=> y \in Own(u)'
          /\ u \in Signs(y) <=> y \in Own(u)
      BY <1>8, SignsBy
    <2>3. ASSUME y = x PROVE Signs(y)' = s[y]
      BY <1>2, <1>3, <1>9, <1>10, <2>1, <2>2, <2>3
    <2>4. ASSUME y # x, y \in Peers(x) PROVE Signs(y)' = s[y]
      BY <1>9, <1>10, <2>1, <2>2, <2>4
    <2>5. ASSUME y # x, y \notin Peers(x) PROVE Signs(y)' = s[y]
      BY <1>9, <1>10, <2>1, <2>2, <2>5
    <2>6. y \in revoked' <=> y \in (revoked \ raced) \ {x}
      BY <1>1, <1>3, <1>10
    <2> QED
      BY <2>3, <2>4, <2>5, <2>6
  <1>11. Directory!Keeps(s, (revoked \ raced) \ {x})
    <2>1. (revoked \ raced) \ {x} \subseteq Externals /\ revoked' \subseteq Externals
      BY <1>1 DEF TypeOK
    <2> HIDE DEF s
    <2> QED
      BY <1>10, <2>1, KeepsBy
  <1>12. <<u, x>> \in UNION {{<<job[v].user, y>> : y \in job[v].about} :
                              v \in {q \in Requests : job[q].op = "linkWrite"}}
    <2>1. <<u, x>> \in {<<job[w].user, y>> : y \in job[w].about}
      BY <1>1
    <2>2. w \in {q \in Requests : job[q].op = "linkWrite"}
      BY <1>1
    <2> QED
      BY <2>1, <2>2
  <1>13. SignsIn[x] \subseteq {u}
    BY <1>2 DEF SignsIn, Signs
  <1>14. Directory!Link(u, x)
    BY <1>1, <1>2, <1>11, <1>12, <1>13 DEF Directory!Link
  <1> QED
    BY <1>3, <1>14, DirectoryTerms DEF Directory!Next

(* A new account, with nothing or with what nobody had. *)
LEMMA SignUpDirectory ==
    ASSUME TypeOK, NEW u \in Users, u \notin live, live' = live \cup {u}, raced \subseteq raced',
           NEW x \in Externals, NEW X \in {{}, {x}}, revoked' \subseteq Externals,
           \A y \in X \ raced : Signs(y) = {} /\ y \notin revoked,
           \A y \in Externals \ raced' :
               /\ Signs(y)' = IF y \in X THEN {u} ELSE Signs(y)
               /\ y \in revoked' <=> y \in revoked
    PROVE  Directory!Next
  <1> DEFINE s == [y \in Directory!Externals |-> IF y \in X THEN {u} ELSE SignsIn[y]]
  <1>1. ASSUME NEW y \in Externals \ raced'
        PROVE  Signs(y)' = s[y] /\ (y \in revoked' <=> y \in revoked \ raced)
    BY SignsInOf, DirectoryTerms
  <1>2. revoked \ raced \subseteq Externals
    BY DEF TypeOK
  <1>3. Directory!Keeps(s, revoked \ raced)
    <2> HIDE DEF s
    <2> QED
      BY <1>1, <1>2, KeepsBy
  <1>4. \A y \in X : SignsIn[y] = {} /\ y \notin revoked \ raced
    BY DEF SignsIn, Signs
  <1>5. Directory!SignUp(u, X)
    BY <1>3, <1>4 DEF Directory!SignUp
  <1>6. CASE X = {}
    BY <1>5, <1>6 DEF Directory!Next
  <1>7. CASE X = {x}
    BY <1>5, <1>7, DirectoryTerms DEF Directory!Next
  <1> QED
    BY <1>6, <1>7

LEMMA CreateAccountDirectory ==
    ASSUME Rows, NEW w \in Requests, NEW u \in Users, NEW x \in Externals,
           CreateAccount(w, u, x)
    PROVE  Directory!Next
  <1> DEFINE c == {x} \cap Legacy
             i == {x}
             X == {x}
  <1>1. /\ JobOK(job[w]) /\ job[w].op = "login" /\ job[w].user = NoUser /\ job[w].about = {x}
        /\ u \notin live /\ live' = live \cup {u} /\ TypeOK
        /\ column' = [column EXCEPT ![u] = c] /\ identity' = [identity EXCEPT ![u] = i]
        /\ revoked' = revoked \ ({x} \cap Discord) /\ raced \subseteq raced'
    BY DEF CreateAccount, Done, Rows, Inv
  <1>2. x \notin raced => Signs(x) = {} /\ x \notin revoked
    <2>1. Signs(x) \subseteq Users
      BY DEF Signs, Owners, Holders
    <2> QED
      BY <1>1, <2>1, AccountsAssumption DEF JobOK, Established
  <1>3. /\ \A z \in Users : z # u => Own(z)' = Own(z)
        /\ Own(u)' = c \cup (i \cap Externals)
    BY <1>1, OthersOwn
  <1>4. Own(u) = {} /\ Own(u)' = {x}
    BY <1>1, <1>3 DEF Own, TypeOK
  <1>5. ASSUME NEW y \in Externals, y \notin raced'
        PROVE  /\ Signs(y)' = IF y \in X THEN {u} ELSE Signs(y)
               /\ y \in revoked' <=> y \in revoked
    <2>1. /\ Signs(y) \subseteq Users /\ Signs(y)' \subseteq Users
          /\ \A z \in Users : z # u => (z \in Signs(y)' <=> z \in Signs(y))
          /\ u \in Signs(y)' <=> y \in Own(u)'
          /\ u \in Signs(y) <=> y \in Own(u)
      BY <1>3, SignsBy
    <2>2. ASSUME y = x PROVE Signs(y)' = {u}
      BY <1>1, <1>2, <1>4, <1>5, <2>1, <2>2
    <2>3. ASSUME y # x PROVE Signs(y)' = Signs(y)
      BY <1>4, <2>1, <2>3
    <2>4. y \in revoked' <=> y \in revoked
      BY <1>1, <1>2, <1>5
    <2> QED
      BY <2>2, <2>3, <2>4
  <1>6. /\ \A y \in X \ raced : Signs(y) = {} /\ y \notin revoked
        /\ X \in {{}, {x}} /\ revoked' \subseteq Externals
    BY <1>1, <1>2 DEF TypeOK
  <1>7. \A y \in Externals \ raced' :
          /\ Signs(y)' = IF y \in X THEN {u} ELSE Signs(y)
          /\ y \in revoked' <=> y \in revoked
    BY <1>5
  <1> HIDE DEF X
  <1> QED
    BY <1>1, <1>6, <1>7, SignUpDirectory

LEMMA RegisterDirectory ==
    ASSUME Rows, NEW u \in Users, Register(u)
    PROVE  Directory!Next
  <1> DEFINE s == [y \in Directory!Externals |-> IF y \in {} THEN {u} ELSE SignsIn[y]]
  <1>1. /\ u \notin live /\ live' = live \cup {u} /\ revoked' = revoked /\ raced' = raced
        /\ \A y \in Externals : Signs(y)' = Signs(y)
        /\ revoked \ raced \subseteq Externals /\ revoked' \subseteq Externals
    BY DEF Register, Signs, Owners, Holders, Rows, Inv, TypeOK
  <1>2. ASSUME NEW y \in Externals, y \notin raced'
        PROVE  Signs(y)' = s[y] /\ (y \in revoked' <=> y \in revoked \ raced)
    BY <1>1, <1>2, SignsInOf, DirectoryTerms
  <1>3. Directory!Keeps(s, revoked \ raced)
    <2> HIDE DEF s
    <2> QED
      BY <1>1, <1>2, KeepsBy
  <1>4. Directory!SignUp(u, {})
    BY <1>1, <1>3 DEF Directory!SignUp
  <1> QED
    BY <1>1, <1>4 DEF Directory!Next

(* Of what is no other request's business an unlink frees, and blocks, all   *)
(* that the user has of the provider.                                      *)
LEMMA UnlinkExact ==
    ASSUME Rows, NEW w \in Requests, NEW u \in Users, Unlink(w, u), NEW y \in Externals,
           y \notin raced
    PROVE  y \in ToUnlink(w, u) <=> y \in Own(u) /\ y \in job[w].provider
  <1> DEFINE j == job[w]
             P == j.provider
  <1>1. /\ j.op = "unlinkWrite" /\ j.user = u /\ JobOK(j) /\ Knows(j) /\ Paired(u) /\ TypeOK
    BY DEF Unlink, Rows, Inv
  <1>2. /\ P \in Providers /\ j.about \subseteq P /\ j.held \subseteq j.about
    BY <1>1 DEF JobOK, Shape
  <1>3. \A x \in j.about : x \notin raced => x \in Own(u)
    BY <1>1 DEF JobOK, Established
  <1>4. Own(u) \cap P \subseteq j.about \cup raced
    BY <1>1 DEF JobOK, Encloses
  <1>5. CASE P # Discord
    <2>1. P \subseteq Legacy
      BY <1>2, <1>5 DEF Providers, Legacy
    <2>2. (j.about \cap Legacy) \ raced \subseteq j.held
      BY <1>1 DEF Knows
    <2>3. ToUnlink(w, u) = j.held \cap P
      BY <1>5 DEF ToUnlink
    <2> QED
      BY <1>2, <1>3, <1>4, <2>1, <2>2, <2>3
  <1>6. CASE P = Discord
    <2>1. (j.about \cap Discord) \ raced \subseteq j.listed
      BY <1>1 DEF Knows
    <2>2. j.listed \cap Discord \subseteq j.about \cup raced
      BY <1>1, <1>6 DEF JobOK, Encloses
    <2>3. Own(u) \cap Discord = identity[u] \cap Discord
      BY <1>1, AccountsAssumption DEF Own, TypeOK, Externals, Legacy
    <2>4. \/ ToUnlink(w, u) = identity[u] \cap Discord
          \/ /\ ToUnlink(w, u) = j.listed \cap Discord
             /\ identity[u] \cap Discord # {} /\ j.listed \cap Discord # {}
      BY <1>6 DEF ToUnlink
    <2>5. y \in j.listed \cap Discord <=> y \in Own(u) /\ y \in P
      BY <1>2, <1>3, <1>4, <1>6, <2>1, <2>2
    <2> QED
      BY <1>6, <2>3, <2>4, <2>5
  <1> QED
    BY <1>5, <1>6

LEMMA UnlinkDirectory ==
    ASSUME Rows, NEW w \in Requests, NEW u \in Users, Unlink(w, u)
    PROVE  Directory!Next
  <1> DEFINE P == job[w].provider
             c == column[u] \ P
             i == identity[u] \ P
             gone == {x \in P : u \in SignsIn[x]}
             s == [y \in Directory!Externals |-> IF y \in gone THEN {} ELSE SignsIn[y]]
             b == (revoked \ raced) \cup gone
  <1>1. /\ column' = [column EXCEPT ![u] = c] /\ identity' = [identity EXCEPT ![u] = i]
        /\ revoked' = revoked \cup ToUnlink(w, u) /\ live' = live /\ TypeOK /\ Inv
    BY DEF Unlink, Rows, Inv
  <1>2. P \in Providers /\ P \subseteq Externals /\ raced \subseteq raced'
    BY DEF Unlink, Done, Rows, Inv, JobOK, Shape, Providers, Externals, Legacy
  <1>3. /\ \A z \in Users : z # u => Own(z)' = Own(z)
        /\ Own(u)' = c \cup (i \cap Externals)
    BY <1>1, OthersOwn
  <1>4. \A y : y \in Own(u)' <=> y \in Own(u) /\ y \notin P
    BY <1>3 DEF Own
  <1>5. \A y \in Externals : y \in gone <=> y \in P /\ y \in Own(u) /\ y \notin raced
    BY <1>2 DEF SignsIn, Own, Owners, Holders
  <1>6. gone \subseteq Externals
    BY <1>2
  <1> HIDE DEF gone, P, c, i
  <1>7. ASSUME NEW y \in Externals, y \notin raced' PROVE Signs(y)' = s[y]
    <2>1. /\ Signs(y) \subseteq Users /\ Signs(y)' \subseteq Users
          /\ \A z \in Users : z # u => (z \in Signs(y)' <=> z \in Signs(y))
          /\ u \in Signs(y)' <=> y \in Own(u)'
          /\ u \in Signs(y) <=> y \in Own(u)
      BY <1>3, SignsBy
    <2>2. s[y] = IF y \in gone THEN {} ELSE Signs(y)
      BY <1>2, <1>7, SignsInOf, DirectoryTerms
    <2> HIDE DEF s
    <2>3. ASSUME y \in gone PROVE Signs(y)' = s[y]
      <3>1. y \in Own(u) /\ y \notin raced /\ y \notin Own(u)'
        BY <1>4, <1>5, <2>3
      <3>2. Signs(y) \subseteq {u}
        BY <1>1, <3>1, OwnFacts
      <3> QED
        BY <2>1, <2>2, <2>3, <3>1, <3>2
    <2>4. ASSUME y \notin gone PROVE Signs(y)' = s[y]
      <3>1. y \in Own(u)' <=> y \in Own(u)
        BY <1>2, <1>4, <1>5, <1>7, <2>4
      <3> QED
        BY <2>1, <2>2, <2>4, <3>1
    <2> QED
      BY <2>3, <2>4
  <1>8. ASSUME NEW y \in Externals, y \notin raced' PROVE y \in revoked' <=> y \in b
    <2>1. y \in ToUnlink(w, u) <=> y \in gone
      BY <1>2, <1>5, <1>8, UnlinkExact DEF P
    <2> QED
      BY <1>1, <1>2, <1>8, <2>1
  <1>9. revoked' \subseteq Externals /\ b \subseteq Externals
    <2>1. Inv'
      BY UnlinkInv, <1>1
    <2> QED
      BY <1>1, <1>6, <2>1 DEF Inv, TypeOK
  <1>10. Directory!Keeps(s, b)
    <2> HIDE DEF s, b
    <2> QED
      BY <1>7, <1>8, <1>9, KeepsBy
  <1>11. Directory!Unlink(u, P)
    BY <1>1, <1>10 DEF Directory!Unlink, gone
  <1> QED
    BY <1>2, <1>11 DEF Directory!Next

(* Everything else leaves the accounts where they are. *)
LEMMA QuietDirectory ==
    ASSUME Rows, live' = live, UNCHANGED <<column, revoked, raced>>,
           \A z \in Users : identity'[z] \cap Externals = identity[z] \cap Externals
    PROVE  Directory!Next
  <1>1. TypeOK
    BY DEF Rows, Inv
  <1>2. \A y \in Externals : Signs(y)' = Signs(y)
    BY DEF Signs, Owners, Holders
  <1>3. revoked' \subseteq Externals
    BY <1>1 DEF TypeOK
  <1> QED
    BY <1>1, <1>2, <1>3, DirectoryRests

LEMMA DirectoryStep == Rows /\ [Next]_vars => [Directory!Next]_(Directory!vars)
  <1> SUFFICES ASSUME Rows, [Next]_vars PROVE Directory!Next
    OBVIOUS
  <1>0. TypeOK
    BY DEF Rows, Inv
  <1>1. ASSUME NEW w \in Requests, Serve(w) PROVE Directory!Next
    <2>1. ASSUME UNCHANGED <<live, column, identity, revoked, raced>> PROVE Directory!Next
      BY <2>1, QuietDirectory
    <2>2. CASE \/ Abort(w)
               \/ \E x \in Externals : LookUp(w, x) \/ CheckLink(w, x) \/ \E u \in Users :
                    Load(w, u, "link", Peers(x), {x})
               \/ \E u \in Users : \/ \E P \in Providers : Load(w, u, "unlink", P, Own(u) \cap P)
                                   \/ Load(w, u, "profile", Externals, column[u])
                                   \/ Count(w, u) \/ List(w, u)
      BY <2>1, <2>2 DEF Abort, LookUp, CheckLink, Load, Count, List, Step
    <2>3. ASSUME NEW x \in Externals, NEW u \in Users,
                 CreateAccount(w, u, x) \/ LogIn(w, u, x) \/ Link(w, u, x)
          PROVE  Directory!Next
      BY <2>3, CreateAccountDirectory, LogInDirectory, LinkDirectory
    <2>4. ASSUME NEW u \in Users, Unlink(w, u) \/ SaveProfile(w, u) PROVE Directory!Next
      BY <2>4, UnlinkDirectory, SaveProfileDirectory
    <2> QED
      BY <1>1, <2>2, <2>3, <2>4 DEF Serve
  <1>2. ASSUME NEW u \in Users, Register(u) PROVE Directory!Next
    BY <1>2, RegisterDirectory
  <1>3. ASSUME NEW u \in Users, SetPassword(u) PROVE Directory!Next
    BY <1>3, QuietDirectory DEF SetPassword
  <1>4. ASSUME NEW u \in Users, NEW m \in Manual, PutManual(u, m) \/ DeleteManual(u, m)
        PROVE  Directory!Next
    <2>1. \A z \in Users : identity'[z] \cap Externals = identity[z] \cap Externals
      BY <1>0, <1>4, ManualSame
    <2> QED
      BY <1>4, <2>1, QuietDirectory DEF PutManual, DeleteManual
  <1>5. CASE UNCHANGED vars
    BY <1>5, QuietDirectory DEF vars
  <1> QED
    BY <1>1, <1>2, <1>3, <1>4, <1>5 DEF Next

(* Step by step the service is an AccountDirectory: an external account      *)
(* comes to an account by a registration or a link its user asked for while *)
(* nobody else had it, never passes between users, is given up for another *)
(* of the provider or by an unlink, and after that comes back by a link    *)
(* only, unless requests about it overlapped.                              *)
THEOREM DirectoryKept == Spec => DirectorySpec
  <1>1. Init => Directory!Init
    <2> SUFFICES ASSUME Init PROVE Directory!Init
      OBVIOUS
    <2>1. SignsIn = [x \in Directory!Externals |-> {}]
      BY DirectoryTerms DEF SignsIn, Owners, Holders, Init
    <2>2. {v \in Requests : job[v].op = "linkWrite"} = {}
      BY DEF Init, Idle
    <2> QED
      BY <2>1, <2>2 DEF Directory!Init, Init
  <1> QED
    BY <1>1, InitRows, StepRowsKept, DirectoryStep, PTL DEF Spec, DirectorySpec, Directory!Spec

=============================================================================
