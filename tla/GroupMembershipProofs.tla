------------------------ MODULE GroupMembershipProofs ------------------------
(***************************************************************************)
(* Machine-checked proofs about GroupMembership, for every set of users,    *)
(* workers and join requests, and for both database schemas.                *)
(***************************************************************************)
EXTENDS GroupMembership, TLAPS

(* The arguments a request carries, by operation, and what its checks have *)
(* established once they are passed.                                       *)
JobOK(j) ==
    /\ j.op = "setRole" => j.arg \in {"member", "admin"}
    /\ j.op = "resolve" => j.arg \in {"approved", "denied"} /\ j.req \in RequestIds
    /\ j.op \in {"setRole", "remove", "transfer"} => j.target \in Users
    /\ j.op = "transfer" => j.actor \in Users
    /\ j.op = "transfer" /\ j.pc = "write" => j.actor # j.target

(* The reads a hand-over, a role change and a removal rely on still hold.  *)
Fresh(j) ==
    /\ j.op = "transfer" /\ j.pc \in {"load", "write"} => role[j.actor] = "owner"
    /\ j.op \in {"setRole", "remove"} /\ j.pc \in {"recheck", "write"}
         => role[j.target] # "owner"

SafeJob(j) ==
    /\ j \in Job
    /\ JobOK(j)
    /\ group = "absent" => j.op = "none"
    /\ group = "live" /\ ~raced => Fresh(j)

RowsOK ==
    group # "live" => /\ \A u \in Users : role[u] = "none"
                      /\ \A i \in RequestIds : joinRequest[i].status = "unused"

OneOwner == \E o \in Users : role[o] = "owner"
                             /\ \A u \in Users : role[u] = "owner" => u = o

(* The inductive invariant. *)
IInv ==
    /\ TypeOK
    /\ RowsOK
    /\ group = "live" /\ ~raced => OneOwner
    /\ \A w \in Workers : SafeJob(job[w])

---------------------------------------------------------------------------
(* A blank job is safe in every state. *)
LEMMA BlankSafe ==
    ASSUME NEW answer \in Answers
    PROVE  SafeJob(Blank(answer))
  BY DEF SafeJob, Blank, Job, JobOK, Fresh, Answers, Statements, Operations,
         Args, Roles, JoinModes, RequestStatus, Listings

(* A step that leaves the tables alone and gives one worker a safe job. *)
LEMMA QuietStep ==
    ASSUME IInv, NEW w \in Workers, NEW j, SafeJob(j),
           job' = [job EXCEPT ![w] = j], UNCHANGED <<tables, raced>>
    PROVE  IInv'
  <1>1. TypeOK'
    BY DEF IInv, TypeOK, SafeJob, tables
  <1>2. RowsOK' /\ ((group = "live" /\ ~raced)' => OneOwner')
    BY DEF IInv, RowsOK, OneOwner, tables
  <1>3. ASSUME NEW v \in Workers PROVE SafeJob(job[v])'
    <2>1. job'[v] = IF v = w THEN j ELSE job[v]
      BY DEF IInv, TypeOK
    <2>2. SafeJob(job'[v])
      BY <2>1 DEF IInv
    <2> QED
      BY <2>2 DEF SafeJob, JobOK, Fresh, tables
  <1> QED
    BY <1>1, <1>2, <1>3 DEF IInv

LEMMA QuietAnswer ==
    ASSUME IInv, NEW w \in Workers, NEW answer \in Answers,
           Answer(w, answer), UNCHANGED <<tables, raced>>
    PROVE  IInv'
  BY BlankSafe, QuietStep DEF Answer

LEMMA QuietRefuse ==
    ASSUME IInv, NEW w \in Workers,
           \/ Refuse(w) \/ Fail(w) \/ Crash(w)
           \/ \E a, b \in Answers : Gone(w, a, b)
    PROVE  IInv'
  BY QuietAnswer DEF Refuse, Fail, Crash, Gone, Answers

(* What a request must have checked before it goes on to a statement. *)
MayMove(j, pc) ==
    /\ j.op = "transfer" /\ pc = "write" => j.actor # j.target
    /\ group = "live" /\ ~raced =>
         /\ j.op = "transfer" /\ pc \in {"load", "write"} => role[j.actor] = "owner"
         /\ j.op \in {"setRole", "remove"} /\ pc \in {"recheck", "write"}
              => role[j.target] # "owner"

LEMMA QuietMove ==
    ASSUME IInv, NEW w \in Workers, NEW j \in Job,
           job[w].op = j.op, job[w].actor = j.actor, job[w].arg = j.arg,
           job[w].target = j.target \/ j.op = "resolve", job[w].req = j.req,
           MayMove(j, j.pc),
           job' = [job EXCEPT ![w] = j], UNCHANGED <<tables, raced>>
    PROVE  IInv'
  <1>1. SafeJob(job[w])
    BY DEF IInv
  <1>2. SafeJob(j)
    BY <1>1 DEF SafeJob, JobOK, Fresh, MayMove
  <1> QED
    BY <1>2, QuietStep

LEMMA QuietHold ==
    ASSUME IInv, NEW w \in Workers, NEW pc \in Statements,
           NEW seen \in Roles \cup JoinModes \cup RequestStatus \cup Listings,
           Goto(w, pc) \/ Hold(w, pc, seen),
           MayMove(job[w], pc)
    PROVE  IInv'
  <1>1. job[w] \in Job /\ job \in [Workers -> Job]
    BY DEF IInv, TypeOK
  <1>2. CASE Goto(w, pc)
    <2> DEFINE j == [job[w] EXCEPT !.pc = pc]
    <2>1. j \in Job /\ job' = [job EXCEPT ![w] = j]
      BY <1>1, <1>2 DEF Job, Goto
    <2>2. /\ j.op = job[w].op /\ j.actor = job[w].actor
          /\ j.target = job[w].target /\ j.arg = job[w].arg
          /\ j.req = job[w].req /\ j.pc = pc
      BY <1>1 DEF Job
    <2>3. MayMove(j, j.pc)
      BY <2>2 DEF MayMove
    <2>4. UNCHANGED <<tables, raced>>
      BY <1>2 DEF Goto
    <2> HIDE DEF j
    <2> QED
      BY <2>1, <2>2, <2>3, <2>4, QuietMove
  <1>3. CASE Hold(w, pc, seen)
    <2> DEFINE j == [job[w] EXCEPT !.pc = pc, !.seen = seen]
    <2>1. j \in Job /\ job' = [job EXCEPT ![w] = j]
      BY <1>1, <1>3 DEF Job, Hold
    <2>2. /\ j.op = job[w].op /\ j.actor = job[w].actor
          /\ j.target = job[w].target /\ j.arg = job[w].arg
          /\ j.req = job[w].req /\ j.pc = pc
      BY <1>1 DEF Job
    <2>3. MayMove(j, j.pc)
      BY <2>2 DEF MayMove
    <2>4. UNCHANGED <<tables, raced>>
      BY <1>3 DEF Hold
    <2> HIDE DEF j
    <2> QED
      BY <2>1, <2>2, <2>3, <2>4, QuietMove
  <1> QED
    BY <1>2, <1>3

---------------------------------------------------------------------------
(* The reading steps of the handlers. *)
LEMMA ReadSteps ==
    ASSUME IInv, NEW w \in Workers,
           \/ Authorise(w) \/ LoadSettings(w) \/ LoadJoin(w) \/ CheckJoin(w)
           \/ LoadRemove(w) \/ RecheckRemove(w) \/ LoadSetRole(w)
           \/ LoadTransfer(w) \/ LoadRequest(w) \/ CheckRequest(w)
           \/ PendingRequest(w) \/ AuthoriseResolve(w) \/ CheckResolve(w)
           \/ LoadResolve(w)
    PROVE  IInv'
  <1> USE DEF Statements, Roles, JoinModes, RequestStatus
  <1>1. /\ job[w] \in Job /\ SafeJob(job[w]) /\ JobOK(job[w])
        /\ settings.joinMode \in JoinModes
        /\ role \in [Users -> Roles]
    BY DEF IInv, TypeOK, SafeJob
  <1>2. CASE Refuse(w)
    BY <1>2, QuietRefuse
  <1>3. CASE Authorise(w) /\ ~Refuse(w)
    <2>1. PICK next \in {"write", "load"} : Goto(w, next)
                                          /\ (next = "write" => job[w].op = "delete")
      BY <1>3 DEF Authorise
    <2>2. job[w].op = "transfer" => role[job[w].actor] = "owner"
      BY <1>3 DEF Authorise, HasRole
    <2>3. MayMove(job[w], next)
      BY <2>1, <2>2 DEF MayMove
    <2> QED
      BY <2>1, <2>3, QuietHold
  <1>4. CASE LoadSettings(w) /\ ~Refuse(w)
    <2>1. Hold(w, "write", Column(job[w].arg)) /\ At(w, "settings", "load")
      BY <1>4 DEF LoadSettings
    <2>2. Column(job[w].arg) \in JoinModes \cup Listings
      BY <1>1 DEF Column, Listings
    <2> QED
      BY <2>1, <2>2, QuietHold DEF At, MayMove
  <1>5. CASE LoadJoin(w) /\ ~Refuse(w)
    BY <1>1, <1>5, QuietHold DEF LoadJoin, At, MayMove
  <1>6. CASE CheckJoin(w) /\ ~Refuse(w)
    BY <1>6, QuietHold DEF CheckJoin, At, MayMove
  <1>7. CASE LoadRemove(w) /\ ~Refuse(w)
    <2>1. PICK pc \in {"recheck", "write"} : Hold(w, pc, role[job[w].target])
      BY <1>7 DEF LoadRemove
    <2>2. job[w].op = "remove" /\ role[job[w].target] \in {"member", "admin"}
      BY <1>7 DEF LoadRemove, At, Removable, HasRole
    <2> QED
      BY <2>1, <2>2, QuietHold DEF MayMove
  <1>8. CASE RecheckRemove(w) /\ ~Refuse(w)
    <2>1. Goto(w, "write") /\ At(w, "remove", "recheck")
      BY <1>8 DEF RecheckRemove
    <2> QED
      BY <1>1, <2>1, QuietHold DEF MayMove, At, SafeJob, Fresh
  <1>9. CASE LoadSetRole(w) /\ ~Refuse(w)
    BY <1>9, QuietHold DEF LoadSetRole, At, MayMove, HasRole
  <1>10. CASE LoadTransfer(w) /\ ~Refuse(w)
    <2>1. /\ Hold(w, "write", role[job[w].target])
          /\ At(w, "transfer", "load")
          /\ job[w].actor # job[w].target
          /\ role[job[w].target] \in {"member", "admin"}
      BY <1>10 DEF LoadTransfer, HasRole
    <2> QED
      BY <1>1, <2>1, QuietHold DEF MayMove, At, SafeJob, Fresh
  <1>11. CASE LoadRequest(w) /\ ~Refuse(w)
    BY <1>11, QuietHold DEF LoadRequest, MayMove
  <1>12. CASE CheckRequest(w) /\ ~Refuse(w)
    BY <1>12, QuietHold DEF CheckRequest, MayMove
  <1>13. CASE PendingRequest(w) /\ ~Refuse(w)
    BY <1>13, QuietHold DEF PendingRequest, MayMove
  <1>14. CASE AuthoriseResolve(w) /\ ~Refuse(w)
    BY <1>14, QuietHold DEF AuthoriseResolve, At, MayMove
  <1>15. CASE CheckResolve(w) /\ ~Refuse(w)
    BY <1>15, QuietHold DEF CheckResolve, At, MayMove
  <1>16. CASE LoadResolve(w) /\ ~Refuse(w)
    <2> DEFINE r == joinRequest[job[w].req]
    <2> DEFINE j == [job[w] EXCEPT !.pc = "authorise", !.seen = r.status,
                                   !.target = r.user]
    <2>1. job[w].op = "resolve" /\ job[w].pc = "load"
      BY <1>16 DEF LoadResolve, At
    <2>2. job[w].req \in RequestIds
      BY <1>1, <2>1 DEF SafeJob, JobOK
    <2>3. r.status \in RequestStatus /\ r.user \in Users \cup {NoUser}
      BY <2>2 DEF IInv, TypeOK
    <2>4. /\ j \in Job
          /\ j.op = job[w].op /\ j.actor = job[w].actor /\ j.arg = job[w].arg
          /\ j.req = job[w].req
      BY <1>1, <2>3 DEF Job
    <2>5. job' = [job EXCEPT ![w] = j] /\ UNCHANGED <<tables, raced>>
      BY <1>1, <1>16 DEF LoadResolve, IInv, TypeOK
    <2>6. MayMove(j, j.pc)
      BY <2>1, <2>4 DEF MayMove
    <2> HIDE DEF j
    <2> QED
      BY <2>1, <2>4, <2>5, <2>6, QuietMove
  <1> QED
    BY <1>2, <1>3, <1>4, <1>5, <1>6, <1>7, <1>8, <1>9, <1>10, <1>11, <1>12,
       <1>13, <1>14, <1>15, <1>16
---------------------------------------------------------------------------
(* The writing steps. *)

(* A commit that gives a role below owner to somebody who is not the owner. *)
LEMMA PlainWrite ==
    ASSUME IInv, NEW w \in Workers, NEW t, NEW r \in {"none", "member", "admin"},
           group = "live",
           \/ role' = role
           \/ role' = [role EXCEPT ![t] = r] /\ (~raced => role[t] # "owner"),
           UNCHANGED <<group, raced>>,
           settings' \in [joinMode: JoinModes, discoverable: BOOLEAN],
           joinRequest' \in [RequestIds ->
                [user: Users \cup {NoUser}, status: RequestStatus]],
           Answer(w, "ok")
    PROVE  IInv'
  <1>1. role \in [Users -> Roles] /\ job \in [Workers -> Job]
    BY DEF IInv, TypeOK
  <1>2. role' \in [Users -> Roles]
    BY <1>1 DEF Roles
  <1>3. SafeJob(Blank("ok"))
    BY BlankSafe DEF Answers
  <1>4. /\ job' \in [Workers -> Job]
        /\ \A v \in Workers : job'[v] = IF v = w THEN Blank("ok") ELSE job[v]
    BY <1>1, <1>3 DEF Answer, SafeJob
  <1>5. TypeOK'
    BY <1>2, <1>4 DEF IInv, TypeOK
  <1>6. \A u \in Users : role'[u] = "owner" => role[u] = "owner"
    BY <1>1
  <1>7. ~raced => \A u \in Users : role[u] = "owner" => role'[u] = "owner"
    BY <1>1
  <1>8. (group = "live" /\ ~raced)' => OneOwner'
    BY <1>6, <1>7 DEF IInv, OneOwner
  <1>9. ASSUME NEW v \in Workers PROVE SafeJob(job[v])'
    <2>1. SafeJob(job'[v])
      BY <1>3, <1>4 DEF IInv
    <2>2. (group = "live" /\ ~raced)' => Fresh(job[v])'
      BY <1>6, <1>7, <2>1 DEF SafeJob, Fresh, JobOK
    <2> QED
      BY <2>1, <2>2 DEF SafeJob, JobOK
  <1> QED
    BY <1>5, <1>8, <1>9 DEF IInv, RowsOK

LEMMA PlainWrites ==
    ASSUME IInv, NEW w \in Workers,
           \/ WriteSettings(w) \/ WriteJoin(w) \/ WriteRemove(w)
           \/ WriteSetRole(w) \/ WriteRequest(w) \/ WriteResolve(w)
    PROVE  IInv'
  <1> USE DEF Answers
  <1>1. /\ job[w] \in Job /\ SafeJob(job[w]) /\ JobOK(job[w])
        /\ role \in [Users -> Roles]
        /\ settings \in [joinMode: JoinModes, discoverable: BOOLEAN]
        /\ joinRequest \in [RequestIds ->
                [user: Users \cup {NoUser}, status: RequestStatus]]
    BY DEF IInv, TypeOK, SafeJob
  <1>2. CASE Refuse(w) \/ Fail(w) \/ \E a, b \in Answers : Gone(w, a, b)
    BY <1>2, QuietRefuse
  <1> DEFINE quiet == Refuse(w) \/ Fail(w) \/ \E a, b \in Answers : Gone(w, a, b)
  <1>3. CASE WriteSettings(w) /\ ~quiet
    <2>1. group = "live" /\ (settings' = settings \/ settings' = Updated(settings, job[w].arg))
          /\ Answer(w, "ok") /\ UNCHANGED <<group, role, joinRequest, raced>>
      BY <1>3 DEF WriteSettings
    <2>2. settings' \in [joinMode: JoinModes, discoverable: BOOLEAN]
      BY <1>1, <2>1 DEF Updated
    <2> QED
      BY <1>1, <2>1, <2>2, PlainWrite
  <1>4. CASE WriteJoin(w) /\ ~quiet
    BY <1>1, <1>4, PlainWrite DEF WriteJoin, CanInsertMember
  <1>5. CASE WriteRemove(w) /\ ~quiet
    <2> DEFINE t == job[w].target
    <2>1. /\ At(w, "remove", "write") /\ role[t] # "none"
          /\ role' = [role EXCEPT ![t] = "none"]
          /\ Answer(w, "ok") /\ UNCHANGED <<group, settings, joinRequest, raced>>
      BY <1>5 DEF WriteRemove
    <2>2. group = "live" /\ (~raced => role[t] # "owner")
      BY <1>1, <2>1 DEF At, JobOK, SafeJob, Fresh, IInv, RowsOK, TypeOK
    <2> QED
      BY <1>1, <2>1, <2>2, PlainWrite
  <1>6. CASE WriteSetRole(w) /\ ~quiet
    <2> DEFINE j == job[w]
    <2>1. /\ At(w, "setRole", "write") /\ role[j.target] # "none"
          /\ role' = IF j.seen = j.arg THEN role
                     ELSE [role EXCEPT ![j.target] = j.arg]
          /\ Answer(w, "ok") /\ UNCHANGED <<group, settings, joinRequest, raced>>
      BY <1>6 DEF WriteSetRole
    <2>2. /\ group = "live" /\ (~raced => role[j.target] # "owner")
          /\ j.arg \in {"member", "admin"}
      BY <1>1, <2>1 DEF At, JobOK, SafeJob, Fresh, IInv, RowsOK, TypeOK
    <2> QED
      BY <1>1, <2>1, <2>2, PlainWrite
  <1>7. CASE WriteRequest(w) /\ ~quiet
    <2>1. PICK i \in RequestIds :
            joinRequest' = [joinRequest EXCEPT
                              ![i] = [user |-> job[w].actor, status |-> "pending"]]
      BY <1>7 DEF WriteRequest
    <2>2. /\ group = "live" /\ role' = role /\ Answer(w, "ok")
          /\ UNCHANGED <<group, settings, role, raced>>
      BY <1>7 DEF WriteRequest, CanInsertRequest
    <2>3. job[w].actor \in Users \cup {NoUser} /\ "pending" \in RequestStatus
      BY <1>1 DEF Job, RequestStatus
    <2>4. joinRequest' \in [RequestIds ->
                [user: Users \cup {NoUser}, status: RequestStatus]]
      BY <1>1, <2>1, <2>3
    <2> QED
      BY <1>1, <2>2, <2>4, PlainWrite
  <1>8. CASE WriteResolve(w) /\ ~quiet
    <2> DEFINE j == job[w]
    <2>1. /\ At(w, "resolve", "write")
          /\ joinRequest[j.req].status # "unused"
          /\ j.arg = "approved" => CanInsertMember(j.target)
          /\ joinRequest' = [joinRequest EXCEPT ![j.req].status = j.arg]
          /\ role' = Resolved(j)
          /\ Answer(w, "ok") /\ UNCHANGED <<group, settings, raced>>
      BY <1>8 DEF WriteResolve
    <2>2. j.req \in RequestIds /\ j.arg \in {"approved", "denied"}
      BY <1>1, <2>1 DEF At, JobOK
    <2>3. joinRequest' \in [RequestIds ->
                [user: Users \cup {NoUser}, status: RequestStatus]]
      BY <1>1, <2>1, <2>2 DEF RequestStatus
    <2>4. CASE j.arg = "approved"
      BY <1>1, <2>1, <2>3, <2>4, PlainWrite DEF CanInsertMember, Resolved
    <2>5. CASE j.arg = "denied"
      <3>1. group = "live"
        BY <2>1, <2>2 DEF IInv, RowsOK
      <3> QED
        BY <1>1, <2>1, <2>3, <2>5, <3>1, PlainWrite DEF Resolved
    <2> QED
      BY <2>2, <2>4, <2>5
  <1> QED
    BY <1>2, <1>3, <1>4, <1>5, <1>6, <1>7, <1>8

(* The hand-over itself: unless it overtakes another request, the target    *)
(* becomes the one owner and every request that relies on the old one is   *)
(* still to be checked.                                                    *)
LEMMA Transfer ==
    ASSUME IInv, NEW w \in Workers, WriteTransfer(w)
    PROVE  IInv'
  <1> DEFINE j == job[w]
  <1>1. /\ j \in Job /\ SafeJob(j) /\ JobOK(j)
        /\ role \in [Users -> Roles] /\ job \in [Workers -> Job]
    BY DEF IInv, TypeOK, SafeJob
  <1>2. /\ At(w, "transfer", "write")
        /\ j.actor \in Users /\ j.target \in Users /\ j.actor # j.target
    BY <1>1 DEF WriteTransfer, At, JobOK
  <1>3. CASE \E a, b \in Answers : Gone(w, a, b)
    BY <1>3, QuietRefuse
  <1>4. CASE ~\E a, b \in Answers : Gone(w, a, b)
    <2>1. /\ role[j.actor] # "none"
          /\ role' = [role EXCEPT ![j.actor] = "admin", ![j.target] = "owner"]
          /\ Answer(w, "ok")
          /\ raced' = (raced \/ Overtaken(w))
          /\ UNCHANGED <<group, settings, joinRequest>>
      BY <1>4 DEF WriteTransfer, HandedOver, Answers
    <2>2. group = "live"
      BY <1>2, <2>1 DEF IInv, RowsOK
    <2>3. /\ job' \in [Workers -> Job]
          /\ \A v \in Workers : job'[v] = IF v = w THEN Blank("ok") ELSE job[v]
          /\ SafeJob(Blank("ok"))
      BY <1>1, <2>1, BlankSafe DEF Answer, SafeJob, Answers
    <2>4. role' \in [Users -> Roles] /\ raced' \in BOOLEAN
      BY <1>1, <2>1 DEF Roles, IInv, TypeOK
    <2>5. TypeOK'
      BY <2>1, <2>3, <2>4 DEF IInv, TypeOK
    <2>6. /\ role'[j.target] = "owner"
          /\ \A u \in Users \ {j.actor, j.target} : role'[u] = role[u]
          /\ role'[j.actor] = "admin"
      BY <1>1, <1>2, <2>1
    <2>7. ~raced => \A u \in Users : role[u] = "owner" => u = j.actor
      BY <1>1, <1>2, <2>2 DEF IInv, OneOwner, SafeJob, Fresh, At
    <2>8. (group = "live" /\ ~raced)' => OneOwner'
      BY <1>2, <2>1, <2>6, <2>7 DEF OneOwner
    <2>9. ASSUME NEW v \in Workers PROVE SafeJob(job[v])'
      <3>1. CASE v = w
        BY <2>1, <2>2, <2>3, <3>1 DEF SafeJob, JobOK, Fresh, Blank
      <3>2. CASE v # w
        <4>1. job'[v] = job[v] /\ SafeJob(job[v])
          BY <2>3, <3>2 DEF IInv
        <4>2. ASSUME ~raced' PROVE Fresh(job[v])'
          <5>1. /\ ~(job[v].op = "transfer" /\ job[v].pc \in {"load", "write"})
                /\ job[v].op \in {"setRole", "remove"}
                     /\ job[v].pc \in {"recheck", "write"}
                   => job[v].target # j.target
            BY <2>1, <3>2, <4>2 DEF Overtaken
          <5>2. job[v].op \in {"setRole", "remove"}
                     /\ job[v].pc \in {"recheck", "write"}
                   => job[v].target \in Users /\ role[job[v].target] # "owner"
            BY <2>1, <2>2, <4>1, <4>2 DEF SafeJob, Fresh, JobOK
          <5> QED
            BY <4>1, <5>1, <5>2, <2>6 DEF Fresh
        <4> QED
          BY <2>1, <4>1, <4>2 DEF SafeJob, JobOK
      <3> QED
        BY <3>1, <3>2
    <2> QED
      BY <2>1, <2>2, <2>5, <2>8, <2>9 DEF IInv, RowsOK
  <1> QED
    BY <1>3, <1>4

LEMMA Delete ==
    ASSUME IInv, NEW w \in Workers, WriteDelete(w)
    PROVE  IInv'
  <1>1. CASE Fail(w) \/ \E a, b \in Answers : Gone(w, a, b)
    BY <1>1, QuietRefuse
  <1>2. CASE ~(Fail(w) \/ \E a, b \in Answers : Gone(w, a, b))
    <2>1. /\ group' = "deleted"
          /\ role' = [u \in Users |-> "none"]
          /\ joinRequest' = [i \in RequestIds |-> [user |-> NoUser, status |-> "unused"]]
          /\ Answer(w, "ok")
          /\ UNCHANGED <<settings, raced>>
      BY <1>2 DEF WriteDelete, Answers
    <2>2. SafeJob(Blank("ok"))
      BY BlankSafe DEF Answers
    <2>3. /\ job' \in [Workers -> Job]
          /\ \A v \in Workers : job'[v] = IF v = w THEN Blank("ok") ELSE job[v]
      BY <2>1, <2>2 DEF Answer, SafeJob, IInv, TypeOK
    <2>4. TypeOK' /\ RowsOK'
      BY <2>1, <2>3 DEF IInv, TypeOK, RowsOK, Roles, RequestStatus
    <2>5. ASSUME NEW v \in Workers PROVE SafeJob(job[v])'
      <3>1. SafeJob(job'[v])
        BY <2>2, <2>3 DEF IInv
      <3> QED
        BY <2>1, <3>1 DEF SafeJob, JobOK
    <2> QED
      BY <2>1, <2>4, <2>5 DEF IInv
  <1> QED
    BY <1>1, <1>2

LEMMA Create ==
    ASSUME IInv, NEW u \in Users, NEW mode \in JoinModes, NEW listed \in BOOLEAN,
           CreateGroup(u, mode, listed)
    PROVE  IInv'
  <1>1. TypeOK'
    BY DEF CreateGroup, IInv, TypeOK, Roles
  <1>2. OneOwner' /\ RowsOK'
    BY DEF CreateGroup, IInv, TypeOK, RowsOK, OneOwner
  <1>3. ASSUME NEW v \in Workers PROVE SafeJob(job[v])'
    BY DEF CreateGroup, IInv, SafeJob, JobOK, Fresh
  <1> QED
    BY <1>1, <1>2, <1>3 DEF IInv

LEMMA Arrival ==
    ASSUME IInv, NEW w \in Workers, Receive(w)
    PROVE  IInv'
  <1>1. PICK r \in ClientRequests : job' = [job EXCEPT ![w] = r]
    BY DEF Receive
  <1>2. r \in Job /\ JobOK(r) /\ Fresh(r)
    BY DEF ClientRequests, Request, Job, JobOK, Fresh, Answers, Statements,
           Operations, Args, Roles
  <1>3. group # "absent" /\ UNCHANGED <<tables, raced>>
    BY DEF Receive
  <1> QED
    BY <1>1, <1>2, <1>3, QuietStep DEF SafeJob
---------------------------------------------------------------------------
LEMMA InductiveStep == IInv /\ [Next]_vars => IInv'
  <1> SUFFICES ASSUME IInv, [Next]_vars PROVE IInv'
    OBVIOUS
  <1>1. CASE UNCHANGED vars
    BY <1>1 DEF vars, IInv, TypeOK, RowsOK, OneOwner, SafeJob, JobOK, Fresh
  <1>2. ASSUME NEW u \in Users, NEW mode \in JoinModes, NEW listed \in BOOLEAN,
               CreateGroup(u, mode, listed)
        PROVE  IInv'
    BY <1>2, Create
  <1>3. ASSUME NEW w \in Workers, Receive(w) PROVE IInv'
    BY <1>3, Arrival
  <1>4. ASSUME NEW w \in Workers, Crash(w) PROVE IInv'
    BY <1>4, QuietRefuse
  <1>5. ASSUME NEW w \in Workers, Serve(w) PROVE IInv'
    BY <1>5, ReadSteps, PlainWrites, Transfer, Delete DEF Serve
  <1> QED
    BY <1>1, <1>2, <1>3, <1>4, <1>5 DEF Next

LEMMA InitSafe == Init => IInv
  <1> SUFFICES ASSUME Init PROVE IInv
    OBVIOUS
  <1>1. \A w \in Workers : SafeJob(job[w])
    BY BlankSafe DEF Init, Answers
  <1>2. TypeOK
    BY <1>1 DEF Init, TypeOK, Roles, JoinModes, RequestStatus, SafeJob
  <1> QED
    BY <1>1, <1>2 DEF IInv, Init, RowsOK

(* The inductive invariant holds in every reachable state. *)
THEOREM Invariance == Spec => []IInv
  BY InitSafe, InductiveStep, PTL DEF Spec

(* Every variable keeps its type, whatever requests interleave. *)
THEOREM TypeCorrect == Spec => []TypeOK
  <1>1. IInv => TypeOK
    BY DEF IInv
  <1> QED
    BY <1>1, Invariance, PTL

(* A live group has exactly one owner unless a hand-over has committed       *)
(* between the checks and the writes of another request that touches the     *)
(* ownership: for any number of users and of concurrent requests.            *)
THEOREM OwnershipSafe == Spec => []OneOwnerUnlessRaced
  <1>1. IInv => OneOwnerUnlessRaced
    BY DEF IInv, OneOwner, OneOwnerUnlessRaced, Owners
  <1> QED
    BY <1>1, Invariance, PTL

(* Whatever inserts race the deletion of the group, no membership row and no *)
(* join request outlives it.                                                 *)
THEOREM DeletionClean == Spec => []NoOrphanRows
  <1>1. IInv => NoOrphanRows
    BY DEF IInv, RowsOK, NoOrphanRows
  <1> QED
    BY <1>1, Invariance, PTL
---------------------------------------------------------------------------
(* What resolve_request relies on: a filed request names a user, and the    *)
(* user the handler holds is the one the row still names.                   *)
Filed(i) == joinRequest[i].status # "unused" => joinRequest[i].user \in Users

Resolving(j) ==
    /\ j.op \in {"requestById", "requestByCode"} => j.actor \in Users
    /\ j.op = "resolve" /\ j.pc \in {"authorise", "check", "write"}
         /\ group = "live"
       => /\ joinRequest[j.req].status # "unused"
          /\ joinRequest[j.req].user = j.target

RequestsInv ==
    /\ IInv
    /\ \A i \in RequestIds : Filed(i)
    /\ \A w \in Workers : Resolving(job[w])

(* Only three writes touch a join request.                                  *)
LEMMA RequestsKept ==
    ASSUME NEW w \in Workers,
           \/ Receive(w) \/ Crash(w)
           \/ Serve(w) /\ ~WriteRequest(w) /\ ~WriteResolve(w) /\ ~WriteDelete(w)
    PROVE  UNCHANGED <<group, joinRequest>>
  BY DEF Receive, Crash, Serve, tables, Authorise, LoadSettings, WriteSettings,
     LoadJoin, CheckJoin, WriteJoin, LoadRemove, RecheckRemove, WriteRemove,
     LoadSetRole, WriteSetRole, LoadTransfer, WriteTransfer, LoadRequest,
     CheckRequest, PendingRequest, LoadResolve, AuthoriseResolve, CheckResolve,
     Goto, Hold, Refuse, Fail, Gone

(* What a step makes of the job of its worker, as far as Resolving goes: a  *)
(* request that arrives, an answer, the load of a join request, or a move   *)
(* between two statements.                                                  *)
LEMMA JobsMove ==
    ASSUME IInv, NEW w \in Workers, Receive(w) \/ Crash(w) \/ Serve(w)
    PROVE  \E j :
             /\ job' = [job EXCEPT ![w] = j]
             /\ \/ j \in ClientRequests
                \/ \E answer \in Answers : j = Blank(answer)
                \/ /\ At(w, "resolve", "load") /\ j.op = "resolve"
                   /\ j.req = job[w].req
                   /\ joinRequest[j.req].status # "unused"
                   /\ j.target = joinRequest[j.req].user
                   /\ UNCHANGED joinRequest
                \/ /\ j.op = job[w].op /\ j.actor = job[w].actor
                   /\ j.req = job[w].req /\ j.target = job[w].target
                   /\ j.op = "resolve" => job[w].pc \in {"authorise", "check"}
  <1>1. job \in [Workers -> Job] /\ job[w] \in Job
    BY DEF IInv, TypeOK
  <1>2. CASE \E answer \in Answers : Answer(w, answer)
    BY <1>2 DEF Answer
  <1>3. CASE Receive(w)
    BY <1>3 DEF Receive
  <1>4. ASSUME NEW pc, NEW seen, Goto(w, pc) \/ Hold(w, pc, seen),
               job[w].op = "resolve" => job[w].pc \in {"authorise", "check"}
        PROVE  \E j : /\ job' = [job EXCEPT ![w] = j]
                      /\ j.op = job[w].op /\ j.actor = job[w].actor
                      /\ j.req = job[w].req /\ j.target = job[w].target
                      /\ j.op = "resolve" => job[w].pc \in {"authorise", "check"}
    <2>1. CASE Goto(w, pc)
      <3> DEFINE j == [job[w] EXCEPT !.pc = pc]
      <3>1. job' = [job EXCEPT ![w] = j]
        BY <1>1, <2>1 DEF Goto
      <3>2. /\ j.op = job[w].op /\ j.actor = job[w].actor
            /\ j.req = job[w].req /\ j.target = job[w].target
        BY <1>1 DEF Job
      <3> HIDE DEF j
      <3> QED
        BY <1>4, <3>1, <3>2
    <2>2. CASE Hold(w, pc, seen)
      <3> DEFINE j == [job[w] EXCEPT !.pc = pc, !.seen = seen]
      <3>1. job' = [job EXCEPT ![w] = j]
        BY <1>1, <2>2 DEF Hold
      <3>2. /\ j.op = job[w].op /\ j.actor = job[w].actor
            /\ j.req = job[w].req /\ j.target = job[w].target
        BY <1>1 DEF Job
      <3> HIDE DEF j
      <3> QED
        BY <1>4, <3>1, <3>2
    <2> QED
      BY <1>4, <2>1, <2>2
  <1>5. CASE LoadResolve(w) /\ ~Refuse(w)
    <2> DEFINE r == joinRequest[job[w].req]
    <2> DEFINE j == [job[w] EXCEPT !.pc = "authorise", !.seen = r.status,
                                   !.target = r.user]
    <2>1. /\ At(w, "resolve", "load") /\ r.status # "unused"
          /\ job' = [job EXCEPT ![w] = j] /\ UNCHANGED joinRequest
      BY <1>1, <1>5 DEF LoadResolve, tables
    <2>2. j.op = job[w].op /\ j.req = job[w].req /\ j.target = r.user
      BY <1>1 DEF Job
    <2> HIDE DEF j
    <2> QED
      BY <2>1, <2>2 DEF At
  <1>6. CASE Serve(w) /\ ~LoadResolve(w) /\ ~\E answer \in Answers : Answer(w, answer)
    <2>1. \E pc \in Statements : \E seen : Goto(w, pc) \/ Hold(w, pc, seen)
      BY <1>6 DEF Serve, Authorise, LoadSettings, WriteSettings, WriteDelete,
         LoadJoin, CheckJoin, WriteJoin, LoadRemove, RecheckRemove, WriteRemove,
         LoadSetRole, WriteSetRole, LoadTransfer, WriteTransfer, LoadRequest,
         CheckRequest, PendingRequest, WriteRequest, AuthoriseResolve,
         CheckResolve, WriteResolve, Refuse, Fail, Gone, Answers, Statements
    <2>2. job[w].op = "resolve" => job[w].pc \in {"authorise", "check"}
      BY <1>6 DEF Serve, Authorise, LoadSettings, WriteSettings, WriteDelete,
         LoadJoin, CheckJoin, WriteJoin, LoadRemove, RecheckRemove, WriteRemove,
         LoadSetRole, WriteSetRole, LoadTransfer, WriteTransfer, LoadRequest,
         CheckRequest, PendingRequest, WriteRequest, AuthoriseResolve,
         CheckResolve, WriteResolve, Refuse, Fail, Gone, Answers, At
    <2> QED
      BY <1>4, <2>1, <2>2
  <1> QED
    BY <1>2, <1>3, <1>5, <1>6 DEF Crash, Refuse, Answers

(* A step that leaves the rows Resolving reads alone.                       *)
LEMMA RequestsStep == RequestsInv /\ [Next]_vars => RequestsInv'
  <1> SUFFICES ASSUME RequestsInv, [Next]_vars PROVE RequestsInv'
    OBVIOUS
  <1>1. IInv /\ IInv'
    BY InductiveStep DEF RequestsInv
  <1>2. /\ job \in [Workers -> Job] /\ group \in {"absent", "live", "deleted"}
        /\ joinRequest \in [RequestIds ->
                        [user: Users \cup {NoUser}, status: RequestStatus]]
    BY <1>1 DEF IInv, TypeOK
  <1>3. CASE UNCHANGED vars
    BY <1>1, <1>3 DEF vars, RequestsInv, Filed, Resolving
  <1>4. ASSUME NEW u \in Users, NEW mode \in JoinModes, NEW listed \in BOOLEAN,
               CreateGroup(u, mode, listed)
        PROVE  RequestsInv'
    <2>1. \A w \in Workers : job[w].op = "none"
      BY <1>1, <1>4 DEF CreateGroup, IInv, SafeJob
    <2> QED
      BY <1>1, <1>4, <2>1 DEF CreateGroup, RequestsInv, Filed, Resolving
  <1>5. ASSUME NEW w \in Workers, Receive(w) \/ Crash(w) \/ Serve(w)
        PROVE  RequestsInv'
    <2>1. \/ UNCHANGED <<group, joinRequest>>
          \/ WriteRequest(w) \/ WriteResolve(w) \/ WriteDelete(w)
      BY <1>5, RequestsKept
    <2>2. /\ \A i \in RequestIds : Filed(i)'
          /\ \A i \in RequestIds :
               joinRequest[i].status # "unused" /\ group' = "live"
               => /\ joinRequest'[i].status # "unused"
                  /\ joinRequest'[i].user = joinRequest[i].user
          /\ group' = "live" => group = "live"
      <3>1. CASE UNCHANGED <<group, joinRequest>>
        BY <3>1 DEF RequestsInv, Filed
      <3>2. CASE WriteRequest(w) /\ ~UNCHANGED joinRequest
        <4>1. PICK i \in RequestIds :
                /\ joinRequest[i].status = "unused"
                /\ joinRequest' = [joinRequest EXCEPT
                        ![i] = [user |-> job[w].actor, status |-> "pending"]]
          BY <3>2 DEF WriteRequest, Fail, tables
        <4>2. job[w].actor \in Users /\ group' = group
          BY <3>2 DEF WriteRequest, RequestsInv, Resolving, Fail, tables
        <4> QED
          BY <1>2, <4>1, <4>2 DEF RequestsInv, Filed
      <3>3. CASE WriteResolve(w) /\ ~UNCHANGED joinRequest
        <4>1. /\ joinRequest' = [joinRequest EXCEPT ![job[w].req].status = job[w].arg]
              /\ joinRequest[job[w].req].status # "unused"
              /\ group' = group /\ At(w, "resolve", "write")
          BY <3>3 DEF WriteResolve, Fail, tables
        <4>2. job[w].arg # "unused" /\ job[w].req \in RequestIds
          BY <1>1, <4>1 DEF At, IInv, SafeJob, JobOK
        <4> QED
          BY <1>2, <4>1, <4>2 DEF RequestsInv, Filed
      <3>4. CASE WriteDelete(w) /\ ~UNCHANGED joinRequest
        BY <3>4 DEF WriteDelete, Fail, Gone, tables, Filed
      <3>5. CASE (WriteRequest(w) \/ WriteResolve(w) \/ WriteDelete(w))
                 /\ UNCHANGED joinRequest
        <4>1. group' = "live" => group = "live"
          BY <3>5 DEF WriteRequest, WriteResolve, WriteDelete, Fail, Gone, tables
        <4> QED
          BY <3>5, <4>1 DEF RequestsInv, Filed
      <3> QED
        BY <2>1, <3>1, <3>2, <3>3, <3>4, <3>5
    <2>3. ASSUME NEW v \in Workers PROVE Resolving(job[v])'
      <3>1. PICK j :
             /\ job' = [job EXCEPT ![w] = j]
             /\ \/ j \in ClientRequests
                \/ \E answer \in Answers : j = Blank(answer)
                \/ /\ At(w, "resolve", "load") /\ j.op = "resolve"
                   /\ j.req = job[w].req
                   /\ joinRequest[j.req].status # "unused"
                   /\ j.target = joinRequest[j.req].user
                   /\ UNCHANGED joinRequest
                \/ /\ j.op = job[w].op /\ j.actor = job[w].actor
                   /\ j.req = job[w].req /\ j.target = job[w].target
                   /\ j.op = "resolve" => job[w].pc \in {"authorise", "check"}
        BY <1>1, <1>5, JobsMove
      <3>2. CASE v # w
        <4>1. job'[v] = job[v] /\ Resolving(job[v])
              /\ (job[v].op = "resolve" => job[v].req \in RequestIds)
          BY <1>2, <3>1, <3>2, <1>1 DEF RequestsInv, IInv, SafeJob, JobOK
        <4> QED
          BY <2>2, <4>1 DEF Resolving
      <3>3. CASE v = w
        <4>1. job'[v] = j
          BY <1>2, <3>1, <3>3
        <4>2. CASE j \in ClientRequests
          BY <4>1, <4>2 DEF ClientRequests, Request, Resolving
        <4>3. CASE \E answer \in Answers : j = Blank(answer)
          BY <4>1, <4>3 DEF Blank, Resolving
        <4>4. CASE /\ At(w, "resolve", "load") /\ j.op = "resolve"
                   /\ j.req = job[w].req
                   /\ joinRequest[j.req].status # "unused"
                   /\ j.target = joinRequest[j.req].user
                   /\ UNCHANGED joinRequest
          BY <4>1, <4>4 DEF Resolving
        <4>5. CASE /\ j.op = job[w].op /\ j.actor = job[w].actor
                   /\ j.req = job[w].req /\ j.target = job[w].target
                   /\ j.op = "resolve" => job[w].pc \in {"authorise", "check"}
          <5>1. /\ Resolving(job[w])
                /\ job[w].op = "resolve" => job[w].req \in RequestIds
            BY <1>1 DEF RequestsInv, IInv, SafeJob, JobOK
          <5> QED
            BY <2>2, <4>1, <4>5, <5>1 DEF Resolving
        <4> QED
          BY <3>1, <4>2, <4>3, <4>4, <4>5
      <3> QED
        BY <3>2, <3>3
    <2> QED
      BY <1>1, <2>2, <2>3 DEF RequestsInv
  <1> QED
    BY <1>3, <1>4, <1>5 DEF Next

(* An approval is one commit with the membership it grants.                 *)
LEMMA ApprovalStep ==
    ASSUME RequestsInv, [Next]_vars, NEW i \in RequestIds,
           joinRequest[i].status # "approved", joinRequest'[i].status = "approved"
    PROVE  /\ role[joinRequest[i].user] = "none"
           /\ role'[joinRequest[i].user] = "member"
  <1>1. /\ role \in [Users -> Roles]
        /\ joinRequest \in [RequestIds ->
                        [user: Users \cup {NoUser}, status: RequestStatus]]
    BY DEF RequestsInv, IInv, TypeOK
  <1>2. PICK w \in Workers : WriteRequest(w) \/ WriteResolve(w) \/ WriteDelete(w)
    BY RequestsKept DEF Next, CreateGroup, vars
  <1>3. WriteResolve(w)
    BY <1>1, <1>2 DEF WriteRequest, WriteDelete, Fail, Gone, tables
  <1>4. /\ At(w, "resolve", "write")
        /\ joinRequest[job[w].req].status # "unused"
        /\ job[w].arg = "approved" => CanInsertMember(job[w].target)
        /\ joinRequest' = [joinRequest EXCEPT ![job[w].req].status = job[w].arg]
        /\ role' = Resolved(job[w])
    BY <1>3 DEF WriteResolve, Fail, tables
  <1>5. i = job[w].req /\ job[w].arg = "approved"
    BY <1>1, <1>4
  <1>6. /\ group = "live" /\ role[job[w].target] = "none"
        /\ role' = [role EXCEPT ![job[w].target] = "member"]
    BY <1>4, <1>5 DEF CanInsertMember, Resolved
  <1>7. joinRequest[i].user = job[w].target /\ joinRequest[i].user \in Users
    BY <1>4, <1>5, <1>6 DEF RequestsInv, Resolving, Filed, At
  <1> QED
    BY <1>1, <1>6, <1>7

(* The step that approves a join request makes its requester a member,      *)
(* whoever else resolves it, joins, leaves or deletes the group meanwhile.  *)
THEOREM ApprovalAdmits == Spec => ApprovedMeansMember
  <1>1. Init => RequestsInv
    BY InitSafe DEF Init, RequestsInv, Filed, Resolving, Blank
  <1>2. RequestsInv /\ [Next]_vars =>
          [\A i \in RequestIds :
             joinRequest[i].status # "approved" /\ joinRequest'[i].status = "approved"
             => role[joinRequest[i].user] = "none"
                /\ role'[joinRequest[i].user] = "member"]_vars
    BY ApprovalStep
  <1> QED
    BY <1>1, <1>2, RequestsStep, PTL DEF Spec, ApprovedMeansMember
---------------------------------------------------------------------------
(* The refinement of GroupOwnership.  The mapping, as functions of the roles *)
(* so that it can be taken before and after a step.                         *)
OwnerOf(f) == IF {u \in Users : f[u] = "owner"} = {} THEN NoUser
              ELSE CHOOSE u \in Users : f[u] = "owner"
MembersOf(f) == {u \in Users : f[u] # "none"}

LEMMA OwnerIs ==
    ASSUME NEW f, NEW o \in Users, f[o] = "owner",
           \A u \in Users : f[u] = "owner" => u = o
    PROVE  OwnerOf(f) = o
  BY DEF OwnerOf

(* Only seven writes touch the group or a role, and only one of them raced. *)
LEMMA RolesKept ==
    ASSUME NEW w \in Workers,
           \/ Receive(w) \/ Crash(w)
           \/ Serve(w) /\ ~WriteDelete(w) /\ ~WriteJoin(w) /\ ~WriteRemove(w)
                /\ ~WriteSetRole(w) /\ ~WriteTransfer(w) /\ ~WriteResolve(w)
    PROVE  UNCHANGED <<group, role, raced>>
  BY DEF Receive, Crash, Serve, tables, Authorise, LoadSettings, WriteSettings,
     LoadJoin, CheckJoin, LoadRemove, RecheckRemove, LoadSetRole, LoadTransfer,
     LoadRequest, CheckRequest, PendingRequest, WriteRequest, LoadResolve,
     AuthoriseResolve, CheckResolve, Goto, Hold, Refuse, Fail, Gone

LEMMA OwnershipStutter ==
    ASSUME UNCHANGED <<group, role>>
    PROVE  [Ownership!Next]_(Ownership!vars)
  BY DEF Ownership!vars, Owners

(* A member comes, or one who is not the owner goes.                        *)
LEMMA OwnershipMembers ==
    ASSUME RequestsInv, ~raced, group = "live", group' = "live",
           NEW u \in Users, NEW r \in {"none", "member", "admin"},
           role[u] # "owner", role' = [role EXCEPT ![u] = r]
    PROVE  [Ownership!Next]_(Ownership!vars)
  <1>1. role \in [Users -> Roles]
    BY DEF RequestsInv, IInv, TypeOK
  <1>2. PICK o \in Users : role[o] = "owner"
                          /\ \A x \in Users : role[x] = "owner" => x = o
    BY DEF RequestsInv, IInv, OneOwner
  <1>3. OwnerOf(role) = o
    BY <1>2, OwnerIs
  <1>4. role'[o] = "owner" /\ \A x \in Users : role'[x] = "owner" => x = o
    BY <1>1, <1>2
  <1>5. OwnerOf(role') = o
    BY <1>4, OwnerIs
  <1>6. CASE role[u] = "none" /\ r # "none"
    <2>1. u \notin MembersOf(role) /\ MembersOf(role') = MembersOf(role) \cup {u}
      BY <1>1, <1>6 DEF MembersOf
    <2>2. Ownership!Admit(u)
      BY <1>3, <1>5, <2>1 DEF Ownership!Admit, OwnerOf, MembersOf, Owners
    <2> QED
      BY <2>2 DEF Ownership!Next
  <1>7. CASE role[u] # "none" /\ r = "none"
    <2>1. u \in MembersOf(role) \ {o} /\ MembersOf(role') = MembersOf(role) \ {u}
      BY <1>1, <1>2, <1>7 DEF MembersOf
    <2>2. Ownership!Depart(u)
      BY <1>3, <1>5, <2>1 DEF Ownership!Depart, OwnerOf, MembersOf, Owners
    <2> QED
      BY <2>2 DEF Ownership!Next
  <1>8. CASE role[u] # "none" <=> r # "none"
    <2>1. MembersOf(role') = MembersOf(role)
      BY <1>1, <1>8 DEF MembersOf
    <2> QED
      BY <1>3, <1>5, <2>1 DEF Ownership!vars, OwnerOf, MembersOf, Owners
  <1> QED
    BY <1>6, <1>7, <1>8

(* The hand-over and the two ends of the group's life.                      *)
LEMMA OwnershipMoves ==
    ASSUME RequestsInv, ~raced, NEW w \in Workers, WriteTransfer(w)
    PROVE  [Ownership!Next]_(Ownership!vars)
  <1> DEFINE a == job[w].actor  t == job[w].target
  <1>1. role \in [Users -> Roles] /\ SafeJob(job[w])
    BY DEF RequestsInv, IInv, TypeOK
  <1>2. CASE UNCHANGED <<group, role>>
    BY <1>2, OwnershipStutter
  <1>3. CASE ~UNCHANGED <<group, role>>
    <2>1. /\ At(w, "transfer", "write")
          /\ role[a] # "none" /\ role[t] # "none"
          /\ role' = [role EXCEPT ![a] = "admin", ![t] = "owner"]
          /\ group' = group
      BY <1>3 DEF WriteTransfer, HandedOver, Gone, tables
    <2>2. a \in Users /\ t \in Users /\ a # t
      BY <1>1, <2>1 DEF SafeJob, JobOK, At
    <2>3. group = "live"
      BY <2>1, <2>2 DEF RequestsInv, IInv, RowsOK
    <2>4. role[a] = "owner" /\ \A x \in Users : role[x] = "owner" => x = a
      BY <1>1, <2>1, <2>2, <2>3 DEF SafeJob, Fresh, At, RequestsInv, IInv, OneOwner
    <2>5. role'[t] = "owner" /\ \A x \in Users : role'[x] = "owner" => x = t
      BY <1>1, <2>1, <2>2, <2>4
    <2>6. OwnerOf(role) = a /\ OwnerOf(role') = t
      BY <2>2, <2>4, <2>5, OwnerIs
    <2>7. MembersOf(role') = MembersOf(role) /\ t \in MembersOf(role) \ {a}
      BY <1>1, <2>1, <2>2 DEF MembersOf
    <2>8. PICK u \in Users : u = t
      BY <2>2
    <2>9. Ownership!HandOver(u)
      BY <2>1, <2>3, <2>6, <2>7, <2>8
      DEF Ownership!HandOver, OwnerOf, MembersOf, Owners
    <2> QED
      BY <2>9 DEF Ownership!Next
  <1> QED
    BY <1>2, <1>3

LEMMA OwnershipEnds ==
    ASSUME RequestsInv,
           \/ \E u \in Users, mode \in JoinModes, listed \in BOOLEAN :
                CreateGroup(u, mode, listed)
           \/ \E w \in Workers : WriteDelete(w)
    PROVE  [Ownership!Next]_(Ownership!vars)
  <1>1. role \in [Users -> Roles]
    BY DEF RequestsInv, IInv, TypeOK
  <1>2. CASE UNCHANGED <<group, role>>
    BY <1>2, OwnershipStutter
  <1>3. ASSUME NEW u \in Users, NEW mode \in JoinModes, NEW listed \in BOOLEAN,
               CreateGroup(u, mode, listed)
        PROVE  [Ownership!Next]_(Ownership!vars)
    <2>1. /\ group = "absent" /\ group' = "live"
          /\ role' = [role EXCEPT ![u] = "owner"]
          /\ \A x \in Users : role[x] = "none"
      BY <1>3 DEF CreateGroup, RequestsInv, IInv, RowsOK
    <2>2. role'[u] = "owner" /\ \A x \in Users : role'[x] = "owner" => x = u
      BY <1>1, <2>1
    <2>3. OwnerOf(role') = u
      BY <2>2, OwnerIs
    <2>4. MembersOf(role') = {u}
      BY <1>1, <2>1 DEF MembersOf
    <2>5. Ownership!Create(u)
      BY <2>1, <2>3, <2>4 DEF Ownership!Create, OwnerOf, MembersOf, Owners
    <2> QED
      BY <2>5 DEF Ownership!Next
  <1>4. ASSUME NEW w \in Workers, WriteDelete(w), ~UNCHANGED <<group, role>>
        PROVE  [Ownership!Next]_(Ownership!vars)
    <2>1. /\ group = "live" /\ group' = "deleted"
          /\ role' = [u \in Users |-> "none"]
      BY <1>4 DEF WriteDelete, Gone, Fail, tables
    <2>2. OwnerOf(role') = NoUser /\ MembersOf(role') = {}
      BY <2>1 DEF OwnerOf, MembersOf
    <2>3. Ownership!Delete
      BY <2>1, <2>2 DEF Ownership!Delete, OwnerOf, MembersOf, Owners
    <2> QED
      BY <2>3 DEF Ownership!Next
  <1> QED
    BY <1>2, <1>3, <1>4

(* Every step of the service is a step of GroupOwnership or leaves its       *)
(* variables alone, as long as no hand-over has raced.                      *)
LEMMA OwnershipStep ==
    ASSUME RequestsInv, [Next]_vars, ~raced
    PROVE  [Ownership!Next]_(Ownership!vars)
  <1>1. role \in [Users -> Roles]
    BY DEF RequestsInv, IInv, TypeOK
  <1>2. CASE UNCHANGED <<group, role>>
    BY <1>2, OwnershipStutter
  <1>3. ASSUME NEW w \in Workers, WriteJoin(w), ~UNCHANGED <<group, role>>
        PROVE  [Ownership!Next]_(Ownership!vars)
    <2>1. /\ CanInsertMember(job[w].actor) /\ group' = group
          /\ role' = [role EXCEPT ![job[w].actor] = "member"]
      BY <1>3 DEF WriteJoin, Fail, tables
    <2>2. job[w].actor \in Users
      BY <1>1, <1>3, <2>1
    <2> QED
      BY <2>1, <2>2, OwnershipMembers DEF CanInsertMember
  <1>4. ASSUME NEW w \in Workers, WriteRemove(w), ~UNCHANGED <<group, role>>
        PROVE  [Ownership!Next]_(Ownership!vars)
    <2>1. /\ At(w, "remove", "write") /\ role[job[w].target] # "none"
          /\ role' = [role EXCEPT ![job[w].target] = "none"] /\ group' = group
      BY <1>4 DEF WriteRemove, Gone, tables
    <2>2. /\ job[w].target \in Users /\ group = "live"
          /\ role[job[w].target] # "owner"
      BY <2>1 DEF At, RequestsInv, IInv, RowsOK, SafeJob, JobOK, Fresh
    <2> QED
      BY <2>1, <2>2, OwnershipMembers
  <1>5. ASSUME NEW w \in Workers, WriteSetRole(w), ~UNCHANGED <<group, role>>
        PROVE  [Ownership!Next]_(Ownership!vars)
    <2>1. /\ At(w, "setRole", "write") /\ role[job[w].target] # "none"
          /\ role' = [role EXCEPT ![job[w].target] = job[w].arg] /\ group' = group
      BY <1>5 DEF WriteSetRole, Gone, tables
    <2>2. /\ job[w].target \in Users /\ group = "live"
          /\ role[job[w].target] # "owner" /\ job[w].arg \in {"member", "admin"}
      BY <2>1 DEF At, RequestsInv, IInv, RowsOK, SafeJob, JobOK, Fresh
    <2> QED
      BY <2>1, <2>2, OwnershipMembers
  <1>6. ASSUME NEW w \in Workers, WriteResolve(w), ~UNCHANGED <<group, role>>
        PROVE  [Ownership!Next]_(Ownership!vars)
    <2>1. /\ At(w, "resolve", "write")
          /\ joinRequest[job[w].req].status # "unused"
          /\ CanInsertMember(job[w].target)
          /\ role' = [role EXCEPT ![job[w].target] = "member"] /\ group' = group
      BY <1>6 DEF WriteResolve, Fail, tables, Resolved
    <2>2. job[w].target \in Users
      BY <1>1, <1>6, <2>1
    <2> QED
      BY <2>1, <2>2, OwnershipMembers DEF CanInsertMember
  <1> QED
    BY <1>2, <1>3, <1>4, <1>5, <1>6, OwnershipMoves, OwnershipEnds, RolesKept
    DEF Next, vars

LEMMA RequestsInvariance == Spec => []RequestsInv
  <1>1. Init => RequestsInv
    BY InitSafe DEF Init, RequestsInv, Filed, Resolving, Blank
  <1> QED
    BY <1>1, RequestsStep, PTL DEF Spec

(* Whatever requests interleave, a group keeps the promise of GroupOwnership *)
(* step by step as long as no hand-over commits over another request that   *)
(* touches the ownership.                                                   *)
THEOREM OwnershipUnlessRaced == Spec /\ []~raced => OwnershipSpec
  <1>1. Init => Ownership!Init
    BY DEF Init, Ownership!Init, Owners
  <1>2. RequestsInv /\ ~raced /\ [Next]_vars => [Ownership!Next]_(Ownership!vars)
    BY OwnershipStep
  <1> QED
    BY <1>1, <1>2, RequestsInvariance, PTL
    DEF Spec, OwnershipSpec, Ownership!Spec

(* One request is served at a time.                                         *)
Serial == \A v, w \in Workers : v = w

LEMMA SerialNeverRaces == Serial /\ Spec => []~raced
  <1>1. Init => ~raced
    BY DEF Init
  <1>2. CASE Serial
    <2>1. RequestsInv /\ ~raced /\ [Next]_vars => ~raced'
      <3> SUFFICES ASSUME RequestsInv, ~raced, [Next]_vars PROVE ~raced'
        OBVIOUS
      <3>1. ASSUME NEW w \in Workers, Serve(w) PROVE ~raced'
        <4>1. CASE WriteTransfer(w)
          BY <1>2, <4>1 DEF WriteTransfer, Overtaken, Serial, Gone
        <4>2. CASE ~WriteTransfer(w)
          BY <3>1, <4>2, RolesKept DEF WriteDelete, WriteJoin, WriteRemove,
             WriteSetRole, WriteResolve, Fail, Gone
        <4> QED
          BY <4>1, <4>2
      <3> QED
        BY <3>1, RolesKept DEF Next, vars, CreateGroup
    <2> QED
      BY <1>1, <2>1, RequestsInvariance, PTL DEF Spec
  <1>3. CASE ~Serial
    BY <1>3, PTL
  <1> QED
    BY <1>2, <1>3

(* Requests served one at a time implement GroupOwnership, for any number of *)
(* users and join requests.                                                 *)
THEOREM OwnershipRefined == Serial /\ Spec => OwnershipSpec
  BY OwnershipUnlessRaced, SerialNeverRaces, PTL

---------------------------------------------------------------------------
(* What remove_member has established about its actor: a member with rights *)
(* over others, and the owner where the one removed is an admin.            *)
Vouched(j) ==
    /\ j.op = "remove" => j.actor \in Users
    /\ j.op = "remove" /\ j.actor # j.target /\ group = "live" =>
         /\ j.pc \in {"load", "recheck", "write"} => role[j.actor] \in {"owner", "admin"}
         /\ j.pc = "write" /\ role[j.target] = "admin" => role[j.actor] = "owner"

AdminsInv == RequestsInv /\ \A w \in Workers : Vouched(job[w])

(* A step does not cut the ground from under a removal that waits for its    *)
(* next statement: the actor's role stays, the target does not become admin. *)
Steady == \A w \in Workers :
    /\ job[w].op = "remove" /\ job[w].pc \in {"load", "recheck", "write"}
    /\ job'[w] = job[w]
    => /\ role'[job[w].actor] = role[job[w].actor]
       /\ role'[job[w].target] = "admin" => role[job[w].target] = "admin"

(* A worker serves its own request, and no request revives a group. *)
LEMMA OthersKept ==
    ASSUME RequestsInv, NEW w \in Workers, Receive(w) \/ Crash(w) \/ Serve(w),
           NEW v \in Workers, v # w
    PROVE  job'[v] = job[v] /\ (group' = "live" => group = "live")
  <1>1. PICK j : job' = [job EXCEPT ![w] = j]
    BY JobsMove DEF RequestsInv
  <1>2. job'[v] = job[v]
    BY <1>1 DEF RequestsInv, IInv, TypeOK
  <1>3. group' \in {group, "deleted"}
    <2>1. CASE WriteDelete(w)
      BY <2>1 DEF WriteDelete, Fail, Gone, tables
    <2>2. CASE ~WriteDelete(w)
      <3>1. CASE WriteRequest(w) \/ WriteResolve(w)
        BY <3>1 DEF WriteRequest, WriteResolve, Fail, Gone, tables
      <3>2. CASE ~WriteRequest(w) /\ ~WriteResolve(w)
        BY <2>2, <3>2, RequestsKept
      <3> QED
        BY <3>1, <3>2
    <2> QED
      BY <2>1, <2>2
  <1> QED
    BY <1>2, <1>3

LEMMA AdminsStep ==
    ASSUME Steady, AdminsInv, [Next]_vars
    PROVE  AdminsInv'
  <1>1. RequestsInv'
    BY RequestsStep DEF AdminsInv
  <1>2. job \in [Workers -> Job]
    BY DEF AdminsInv, RequestsInv, IInv, TypeOK
  <1>3. CASE UNCHANGED vars
    BY <1>1, <1>3 DEF vars, AdminsInv, Vouched
  <1>4. ASSUME NEW u \in Users, NEW mode \in JoinModes, NEW listed \in BOOLEAN,
               CreateGroup(u, mode, listed)
        PROVE  AdminsInv'
    BY <1>1, <1>4 DEF CreateGroup, AdminsInv, RequestsInv, IInv, SafeJob, Vouched
  <1>5. ASSUME NEW w \in Workers, Receive(w) \/ Crash(w) \/ Serve(w)
        PROVE  AdminsInv'
    <2>1. Vouched(job[w])
      BY DEF AdminsInv
    <2>2. Vouched(job[w])'
      <3>1. CASE \E answer \in Answers : Answer(w, answer)
        BY <1>2, <3>1 DEF Answer, Blank, Vouched
      <3>2. CASE Receive(w)
        <4>1. PICK r \in ClientRequests : job' = [job EXCEPT ![w] = r]
          BY <3>2 DEF Receive
        <4>2. /\ r.op = "remove" => r.actor \in Users
              /\ r.op = "remove" /\ r.actor # r.target => r.pc = "authorise"
          BY DEF ClientRequests, Request
        <4> QED
          BY <1>2, <4>1, <4>2 DEF Vouched
      <3>3. CASE /\ Serve(w) /\ ~\E answer \in Answers : Answer(w, answer)
                 /\ job[w].op # "remove"
        <4>1. PICK j :
               /\ job' = [job EXCEPT ![w] = j]
               /\ \/ j \in ClientRequests
                  \/ \E answer \in Answers : j = Blank(answer)
                  \/ j.op = "resolve"
                  \/ j.op = job[w].op
          BY <3>3, JobsMove DEF AdminsInv, RequestsInv
        <4>2. /\ j.op = "remove" => j.actor \in Users
              /\ j.op = "remove" /\ j.actor # j.target => j.pc = "authorise"
          BY <3>3, <4>1 DEF ClientRequests, Request, Blank
        <4> QED
          BY <1>2, <4>1, <4>2 DEF Vouched
      <3>4. CASE /\ Serve(w) /\ ~\E answer \in Answers : Answer(w, answer)
                 /\ job[w].op = "remove"
        <4>1. Authorise(w) \/ LoadRemove(w) \/ RecheckRemove(w)
          BY <3>4 DEF Serve, At, WriteRemove, Gone, Answers, LoadSettings,
             WriteSettings, WriteDelete, LoadJoin, CheckJoin, WriteJoin, LoadSetRole,
             WriteSetRole, LoadTransfer, WriteTransfer, LoadRequest, CheckRequest,
             PendingRequest, WriteRequest, LoadResolve, AuthoriseResolve,
             CheckResolve, WriteResolve
        <4>2. PICK pc \in {"load", "recheck", "write"} :
                /\ \/ Goto(w, pc)
                   \/ Hold(w, pc, role[job[w].target])
                /\ pc = "load" => HasRole(job[w].actor, {"owner", "admin"})
                /\ pc # "load" => job[w].pc \in {"load", "recheck"}
                /\ pc = "write" /\ job[w].actor # job[w].target
                     => \/ role[job[w].target] # "admin"
                        \/ HasRole(job[w].actor, {"owner", "none"})
          BY <3>4, <4>1 DEF Authorise, LoadRemove, RecheckRemove, Refuse, Answers,
             NeedsOwner, At
        <4>3. /\ job'[w].pc = pc /\ job'[w].op = "remove"
              /\ job'[w].actor = job[w].actor /\ job'[w].target = job[w].target
              /\ UNCHANGED <<group, role>>
          BY <1>2, <3>4, <4>2 DEF Goto, Hold, tables, Job
        <4> QED
          BY <2>1, <3>4, <4>2, <4>3 DEF Vouched, HasRole
      <3> QED
        BY <1>5, <3>1, <3>2, <3>3, <3>4 DEF Crash, Answers
    <2>3. ASSUME NEW v \in Workers, v # w PROVE Vouched(job[v])'
      <3>1. job'[v] = job[v] /\ (group' = "live" => group = "live")
        BY <1>2, <1>5, <2>3, OthersKept DEF AdminsInv, RequestsInv
      <3>2. Vouched(job[v])
        BY DEF AdminsInv
      <3> QED
        BY <3>1, <3>2 DEF Vouched, Steady
    <2> QED
      BY <1>1, <2>2, <2>3 DEF AdminsInv
  <1> QED
    BY <1>3, <1>4, <1>5 DEF Next

LEMMA RemovalStep ==
    ASSUME AdminsInv, [Next]_vars, NEW u \in Users,
           role[u] = "admin", role'[u] = "none", group' = "live"
    PROVE  \E w \in Workers : /\ At(w, "remove", "write")
                              /\ job[w].target = u
                              /\ job[w].actor \in Owners \cup {u}
  <1>1. role \in [Users -> Roles]
    BY DEF AdminsInv, RequestsInv, IInv, TypeOK
  <1>2. ASSUME NEW w \in Workers, WriteSetRole(w) PROVE FALSE
    <2>1. /\ At(w, "setRole", "write")
          /\ role' = [role EXCEPT ![job[w].target] = job[w].arg]
      BY <1>2 DEF WriteSetRole, Gone, tables
    <2>2. job[w].arg # "none"
      BY <2>1 DEF At, AdminsInv, RequestsInv, IInv, SafeJob, JobOK
    <2> QED
      BY <1>1, <2>1, <2>2
  <1>3. PICK w \in Workers : WriteRemove(w)
    BY <1>1, <1>2, RolesKept DEF Next, vars, CreateGroup, WriteDelete, WriteJoin,
       WriteTransfer, HandedOver, WriteResolve, Resolved, Gone, Fail, tables
  <1>4. /\ At(w, "remove", "write") /\ group' = group
        /\ role' = [role EXCEPT ![job[w].target] = "none"]
    BY <1>3 DEF WriteRemove, Gone, tables
  <1>5. job[w].target = u /\ group = "live"
    BY <1>1, <1>4
  <1>6. job[w].actor = u \/ job[w].actor \in Owners
    BY <1>4, <1>5 DEF AdminsInv, Vouched, At, Owners
  <1> QED
    BY <1>4, <1>5, <1>6

(* An admin of a live group goes by the admin's own departure or by the     *)
(* owner's hand only, as long as no step changes the roles that a removal   *)
(* has already checked: what is left to show is when that is so.            *)
LEMMA AdminsUnlessUndercut == Spec /\ [][Steady]_vars => AdminsRemovedByOwner
  <1>1. Init => AdminsInv
    BY InitSafe DEF Init, AdminsInv, RequestsInv, Filed, Resolving, Blank, Vouched
  <1>2. AdminsInv /\ [Next]_vars =>
          [\A u \in Users :
             role[u] = "admin" /\ role'[u] = "none" /\ group' = "live"
             => \E w \in Workers : /\ At(w, "remove", "write")
                                   /\ job[w].target = u
                                   /\ job[w].actor \in Owners \cup {u}]_vars
    BY RemovalStep
  <1>3. AdminsInv /\ [Next]_vars /\ [Steady]_vars => AdminsInv'
    <2>1. (UNCHANGED vars) => Steady
      BY DEF vars, Steady
    <2> QED
      BY <2>1, AdminsStep
  <1> QED
    BY <1>1, <1>2, <1>3, PTL DEF Spec, AdminsRemovedByOwner

LEMMA SerialSteady ==
    ASSUME Serial, AdminsInv, [Next]_vars PROVE Steady
  <1> SUFFICES ASSUME NEW w \in Workers, job[w].op = "remove",
                      job[w].pc \in {"load", "recheck", "write"}, job'[w] = job[w]
               PROVE  role' = role
    BY DEF Steady
  <1>1. job \in [Workers -> Job]
    BY DEF AdminsInv, RequestsInv, IInv, TypeOK
  <1>2. CASE UNCHANGED vars
    BY <1>2 DEF vars
  <1>3. ASSUME NEW u \in Users, NEW mode \in JoinModes, NEW listed \in BOOLEAN,
               CreateGroup(u, mode, listed)
        PROVE  FALSE
    BY <1>3 DEF CreateGroup, AdminsInv, RequestsInv, IInv, SafeJob
  <1>4. CASE Receive(w) \/ Crash(w)
    BY <1>4 DEF Receive, Crash, tables
  <1>5. CASE Serve(w)
    <2>1. ~WriteRemove(w) \/ role' = role
      <3> SUFFICES ASSUME WriteRemove(w), Answer(w, "ok") PROVE FALSE
        BY DEF WriteRemove, Gone, tables
      <3>1. job'[w] = Blank("ok")
        BY <1>1 DEF Answer
      <3> QED
        BY <3>1 DEF Blank
    <2>2. /\ ~WriteDelete(w) /\ ~WriteJoin(w) /\ ~WriteSetRole(w)
          /\ ~WriteTransfer(w) /\ ~WriteResolve(w)
      BY DEF WriteDelete, WriteJoin, WriteSetRole, WriteTransfer, WriteResolve, At
    <2> QED
      BY <1>5, <2>1, <2>2, RolesKept
  <1> QED
    BY <1>2, <1>3, <1>4, <1>5 DEF Next, Serial

(* In particular where requests are served one at a time. *)
THEOREM AdminsSafe == Serial /\ Spec => AdminsRemovedByOwner
  <1>1. Init => AdminsInv
    BY InitSafe DEF Init, AdminsInv, RequestsInv, Filed, Resolving, Blank, Vouched
  <1>2. CASE Serial
    <2>1. AdminsInv /\ [Next]_vars => AdminsInv' /\ [Steady]_vars
      BY <1>2, AdminsStep, SerialSteady
    <2>2. Spec => [][Steady]_vars
      BY <1>1, <2>1, PTL DEF Spec
    <2> QED
      BY <2>2, AdminsUnlessUndercut, PTL
  <1>3. CASE ~Serial
    BY <1>3, PTL
  <1> QED
    BY <1>2, <1>3
---------------------------------------------------------------------------
(* A request that is about to be inserted is the only one of its user.      *)
Filing(j) == j.op \in {"requestById", "requestByCode"} /\ j.pc = "write"

PendingInv == PendingAtMostOne /\ \A w \in Workers :
    Filing(job[w]) => Pending(job[w].actor) = {}

LEMMA PendingStep ==
    ASSUME Serial, RequestsInv, PendingInv, [Next]_vars
    PROVE  PendingInv'
  <1>1. job \in [Workers -> Job] /\ joinRequest \in [RequestIds ->
             [user: Users \cup {NoUser}, status: RequestStatus]]
    BY DEF RequestsInv, IInv, TypeOK
  <1>2. CASE UNCHANGED <<joinRequest, job>>
    BY <1>2 DEF PendingInv, PendingAtMostOne, Pending
  <1>3. ASSUME NEW u \in Users, NEW mode \in JoinModes, NEW listed \in BOOLEAN,
               CreateGroup(u, mode, listed)
        PROVE  PendingInv'
    BY <1>2, <1>3 DEF CreateGroup
  <1>4. ASSUME NEW w \in Workers, Receive(w) \/ Crash(w) \/ Serve(w)
        PROVE  PendingInv'
    <2>1. \A v \in Workers : v = w
      BY DEF Serial
    <2>2. CASE PendingRequest(w)
      <3>1. UNCHANGED joinRequest
        BY <2>2 DEF PendingRequest, Goto, Refuse, tables
      <3>2. job'[w].pc = "write" => Askable(job[w].actor) /\ job'[w].actor = job[w].actor
        <4>1. job[w] \in Job
          BY <1>1
        <4>2. CASE Askable(job[w].actor) /\ Goto(w, "write")
          BY <1>1, <4>1, <4>2 DEF Goto, Job
        <4>3. CASE Refuse(w)
          BY <1>1, <4>3 DEF Refuse, Answer, Blank
        <4> QED
          BY <2>2, <4>2, <4>3 DEF PendingRequest
      <3> QED
        BY <2>1, <3>1, <3>2 DEF PendingInv, PendingAtMostOne, Pending, Askable, Filing
    <2>3. CASE WriteRequest(w)
      <3>1. ~Filing(job'[w])
        BY <1>1, <2>3 DEF WriteRequest, Fail, Answer, Blank, Filing
      <3>2. Pending(job[w].actor) = {}
        BY <2>3 DEF WriteRequest, PendingInv, Filing
      <3>3. CASE UNCHANGED joinRequest
        BY <2>1, <3>1, <3>3 DEF PendingInv, PendingAtMostOne
      <3>4. CASE ~UNCHANGED joinRequest
        <4>1. PICK i \in RequestIds :
                joinRequest' = [joinRequest EXCEPT
                                  ![i] = [user |-> job[w].actor, status |-> "pending"]]
          BY <2>3, <3>4 DEF WriteRequest, Fail, tables
        <4>2. \A k \in RequestIds \ {i} :
                ~(joinRequest'[k].user = job[w].actor /\ joinRequest'[k].status = "pending")
          BY <1>1, <3>2, <4>1 DEF Pending
        <4>3. PendingAtMostOne'
          BY <1>1, <4>1, <4>2 DEF PendingAtMostOne, PendingInv
        <4> QED
          BY <2>1, <3>1, <4>3 DEF PendingInv
      <3> QED
        BY <3>3, <3>4
    <2>4. CASE WriteResolve(w)
      <3>1. ~Filing(job'[w])
        BY <1>1, <2>4 DEF WriteResolve, Fail, Answer, Blank, Filing
      <3>2. CASE UNCHANGED joinRequest
        BY <2>1, <3>1, <3>2 DEF PendingInv, PendingAtMostOne
      <3>3. CASE ~UNCHANGED joinRequest
        <4>1. /\ At(w, "resolve", "write")
              /\ joinRequest' = [joinRequest EXCEPT ![job[w].req].status = job[w].arg]
          BY <2>4, <3>3 DEF WriteResolve, Fail, tables
        <4>2. job[w].arg # "pending" /\ job[w].req \in RequestIds
          BY <4>1 DEF At, RequestsInv, IInv, SafeJob, JobOK
        <4>3. PendingAtMostOne'
          BY <1>1, <4>1, <4>2 DEF PendingAtMostOne, PendingInv
        <4> QED
          BY <2>1, <3>1, <4>3 DEF PendingInv
      <3> QED
        BY <3>2, <3>3
    <2>5. CASE WriteDelete(w)
      <3>1. ~Filing(job'[w])
        BY <1>1, <2>5 DEF WriteDelete, Fail, Gone, Answer, Blank, Filing
      <3>2. PendingAtMostOne'
        BY <2>5 DEF WriteDelete, Fail, Gone, tables, PendingAtMostOne, PendingInv
      <3> QED
        BY <2>1, <3>1, <3>2 DEF PendingInv
    <2>6. ASSUME ~PendingRequest(w), ~WriteRequest(w), ~WriteResolve(w), ~WriteDelete(w)
          PROVE  PendingInv'
      <3>1. UNCHANGED joinRequest
        BY <1>4, <2>6, RequestsKept
      <3>2. CASE Receive(w) \/ Crash(w)
        <4>1. ~Filing(job'[w])
          <5>1. CASE Receive(w)
            <6>1. PICK r \in ClientRequests : job' = [job EXCEPT ![w] = r]
              BY <5>1 DEF Receive
            <6>2. r.op \in {"requestById", "requestByCode"} => r.pc = "load"
              BY DEF ClientRequests, Request
            <6> QED
              BY <1>1, <6>1, <6>2 DEF Filing
          <5>2. CASE Crash(w)
            BY <1>1, <5>2 DEF Crash, Answer, Blank, Filing
          <5> QED
            BY <3>2, <5>1, <5>2
        <4> QED
          BY <2>1, <3>1, <4>1 DEF PendingInv, PendingAtMostOne
      <3>3. CASE Serve(w)
        <4>1. ~Filing(job'[w])
          <5>1. job[w] \in Job
            BY <1>1
          <5>2. /\ \A pc : Goto(w, pc) => job'[w].pc = pc /\ job'[w].op = job[w].op
                /\ \A pc, seen : Hold(w, pc, seen) =>
                     job'[w].pc = pc /\ job'[w].op = job[w].op
            BY <1>1, <5>1 DEF Goto, Hold, Job
          <5>3. \A a : Answer(w, a) => ~Filing(job'[w])
            BY <1>1 DEF Answer, Blank, Filing
          <5>4. CASE Authorise(w)
            BY <5>2, <5>3, <5>4 DEF Authorise, Refuse, Filing
          <5>5. CASE LoadSettings(w) \/ WriteSettings(w) \/ LoadJoin(w) \/ CheckJoin(w)
                     \/ WriteJoin(w)
            BY <5>2, <5>3, <5>5 DEF LoadSettings, WriteSettings, LoadJoin, CheckJoin,
               WriteJoin, Refuse, Fail, Gone, Filing, At
          <5>6. CASE LoadRemove(w) \/ RecheckRemove(w) \/ WriteRemove(w)
            BY <5>2, <5>3, <5>6 DEF LoadRemove, RecheckRemove, WriteRemove, Refuse,
               Gone, Filing, At
          <5>7. CASE LoadSetRole(w) \/ WriteSetRole(w) \/ LoadTransfer(w) \/ WriteTransfer(w)
            BY <5>2, <5>3, <5>7 DEF LoadSetRole, WriteSetRole, LoadTransfer,
               WriteTransfer, Refuse, Gone, Filing, At
          <5>8. CASE LoadRequest(w) \/ CheckRequest(w)
            BY <5>2, <5>3, <5>8 DEF LoadRequest, CheckRequest, Refuse, Filing
          <5>9. CASE AuthoriseResolve(w) \/ CheckResolve(w)
            BY <5>2, <5>3, <5>9 DEF AuthoriseResolve, CheckResolve, Refuse, Filing, At
          <5>10. CASE LoadResolve(w)
            BY <1>1, <5>1, <5>3, <5>10 DEF LoadResolve, Refuse, Filing, At, Job
          <5> QED
            BY <2>6, <3>3, <5>4, <5>5, <5>6, <5>7, <5>8, <5>9, <5>10 DEF Serve
        <4> QED
          BY <2>1, <3>1, <4>1 DEF PendingInv, PendingAtMostOne
      <3> QED
        BY <1>4, <3>2, <3>3
    <2> QED
      BY <2>2, <2>3, <2>4, <2>5, <2>6
  <1> QED
    BY <1>2, <1>3, <1>4 DEF Next, vars

(* Where requests are served one at a time a user has at most one pending   *)
(* request, also in the migrated database, which has no index: the list of  *)
(* pending requests that is read before the insert is enough.               *)
THEOREM PendingUnique == Serial /\ Spec => []PendingAtMostOne
  <1>1. Init => PendingInv
    BY DEF Init, PendingInv, PendingAtMostOne, Filing, Blank
  <1>2. CASE Serial
    <2>1. RequestsInv /\ PendingInv /\ [Next]_vars => PendingInv'
      BY <1>2, PendingStep
    <2>2. PendingInv => PendingAtMostOne
      BY DEF PendingInv
    <2> QED
      BY <1>1, <2>1, <2>2, RequestsInvariance, PTL DEF Spec
  <1>3. CASE ~Serial
    BY <1>3, PTL
  <1> QED
    BY <1>2, <1>3
=============================================================================
