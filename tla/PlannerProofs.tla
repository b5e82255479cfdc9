---------------------------- MODULE PlannerProofs -----------------------------
(***************************************************************************)
(* Proofs about Planner, for any items, users, requests and reloads: what    *)
(* the client may ever show is backed by a row, since nothing is told that   *)
(* was not committed and rows only move on.                                  *)
(***************************************************************************)
EXTENDS Planner, TLAPS

(* What e says of item i has been true: i exists, its updates have not gone *)
(* back, and who is said to have answered has.                              *)
BackedBy(rw, e) ==
    /\ rw.status # "unused"
    /\ e.val <= rw.entry.val
    /\ \A u \in Users : e.rsvp[u] # "none" => rw.entry.rsvp[u] # "none"
Backed(i, e) == BackedBy(row[i], e)

(* Whatever the client has, or will get, is backed.                         *)
CacheBacked == cache # NotLoaded =>
    \A i \in Items : cache[i] # Absent => Backed(i, cache[i])
LoadsBacked == \A l \in Loads : load[l].pc \in {"half", "read"} =>
    \A i \in Items : load[l].got[i] # Absent => Backed(i, load[l].got[i])
InboxBacked == \A n \in 1..Len(inbox) : Backed(inbox[n].item, inbox[n].entry)
AnswersBacked == \A r \in Requests : job[r].pc \in {"committed", "published"} =>
    Backed(job[r].item, job[r].entry)

(* What an open transaction has written still fits the row it will change.  *)
FitsRow(rw, j) ==
    /\ j.op \in {"create", "delete"} => j.writes /\ j.entry = NewEntry
    /\ j.op = "create" => rw.status = "unused"
    /\ j.op # "create" => rw.status # "unused"
    /\ j.op = "update" /\ j.writes =>
          /\ j.entry.val = rw.entry.val + 1
          /\ \A u \in Users : j.entry.rsvp[u] # "none" => rw.entry.rsvp[u] # "none"
    /\ j.op = "rsvp" =>
          /\ j.entry.val = 0 /\ j.entry.rsvp[j.user] # "none"
          /\ \A u \in Users : u # j.user => j.entry.rsvp[u] = "none"
    /\ ~j.writes => BackedBy(rw, j.entry)
Fits(j) == FitsRow(row[j.item], j)

OpenFit == \A r \in Requests : job[r].pc = "written" => Fits(job[r])

(* The row locks: what is open together does not disturb each other.        *)
Apart(j, k) ==
    j.pc = "written" /\ k.pc = "written" /\ j.item = k.item =>
        /\ j.op # "delete" /\ k.op # "delete"
        /\ j.writes /\ k.writes /\ j.op = k.op => j.op = "rsvp" /\ j.user # k.user

LocksKept == \A r, s \in Requests : r # s => Apart(job[r], job[s])

(* A session begins empty. *)
UnusedIsNew == \A i \in Items : row[i].status = "unused" => row[i].entry = NewEntry

(* The inductive invariant. *)
Inv ==
    /\ TypeOK
    /\ CacheBacked /\ LoadsBacked /\ InboxBacked /\ AnswersBacked
    /\ OpenFit /\ LocksKept /\ UnusedIsNew
    /\ PendingIsOut

Told == CacheBacked /\ LoadsBacked /\ InboxBacked /\ AnswersBacked
Open == OpenFit /\ LocksKept /\ UnusedIsNew

---------------------------------------------------------------------------
LEMMA NewEntryType == NewEntry \in Entry /\ NoRsvps \in Rsvps
  BY PlannerAssumption DEF NewEntry, Entry, Rsvps, NoRsvps

LEMMA IdleJobType == IdleJob \in Job
  <1>1. (CHOOSE i \in Items : TRUE) \in Items
    BY PlannerAssumption
  <1> QED
    BY <1>1, NewEntryType, PlannerAssumption DEF IdleJob, Job, Operations

LEMMA InitInv == Init => Inv
  <1> SUFFICES ASSUME Init PROVE Inv
    OBVIOUS
  <1>1. NoLoad \in [pc: {"none", "asked", "half", "read"}, got: Cache]
    BY DEF NoLoad, Cache
  <1>2. TypeOK
    BY <1>1, IdleJobType, NewEntryType, PlannerAssumption DEF Init, TypeOK, Message, Marks
  <1>3. Told
    <2>1. CacheBacked /\ AnswersBacked
      BY DEF Init, CacheBacked, AnswersBacked, IdleJob
    <2>2. LoadsBacked
      BY DEF Init, LoadsBacked, NoLoad
    <2>3. InboxBacked
      BY DEF Init, InboxBacked
    <2> QED
      BY <2>1, <2>2, <2>3 DEF Told
  <1>4. Open
    BY DEF Init, Open, OpenFit, LocksKept, UnusedIsNew, Apart, IdleJob
  <1>5. PendingIsOut
    BY DEF Init, PendingIsOut
  <1> QED
    BY <1>2, <1>3, <1>4, <1>5 DEF Inv, Told, Open

(* A new request holds nothing yet. *)
LEMMA SendInv ==
    ASSUME Inv, NEW r \in Requests, NEW op \in Operations, NEW i \in Items,
           NEW u \in Users, NEW own \in BOOLEAN, Send(r, op, i, u, own)
    PROVE  Inv'
  <1> DEFINE j == [pc |-> "sent", op |-> op, item |-> i, user |-> u,
                   own |-> own, writes |-> FALSE, entry |-> NewEntry]
  <1>1. j \in Job /\ job' = [job EXCEPT ![r] = j] /\ job[r].pc = "none"
    BY NewEntryType DEF Send, Job
  <1>2. TypeOK'
    BY <1>1, PlannerAssumption DEF Send, MayAsk, Inv, TypeOK
  <1>3. Told'
    BY <1>1 DEF Send, Told, Inv, TypeOK, CacheBacked, LoadsBacked, InboxBacked, AnswersBacked, Backed
  <1>4. Open'
    BY <1>1 DEF Send, Open, Inv, TypeOK, OpenFit, LocksKept, UnusedIsNew, Apart, Fits, FitsRow
  <1>5. PendingIsOut'
    BY <1>1 DEF Send, Inv, TypeOK, PendingIsOut
  <1> QED
    BY <1>2, <1>3, <1>4, <1>5 DEF Inv, Told, Open

(* What EXCEPT does to a request. *)
LEMMA JobMoved ==
    ASSUME NEW j \in Job, NEW p \in {"none", "sent", "written", "committed", "published"}
    PROVE  [j EXCEPT !.pc = p] =
           [pc |-> p, op |-> j.op, item |-> j.item, user |-> j.user, own |-> j.own,
            writes |-> j.writes, entry |-> j.entry]
  BY DEF Job

LEMMA JobLeft ==
    ASSUME NEW j \in Job, NEW b \in BOOLEAN
    PROVE  [j EXCEPT !.own = b] =
           [pc |-> j.pc, op |-> j.op, item |-> j.item, user |-> j.user, own |-> b,
            writes |-> j.writes, entry |-> j.entry]
  BY DEF Job

LEMMA JobWritten ==
    ASSUME NEW j \in Job, NEW w \in BOOLEAN, NEW e
    PROVE  [j EXCEPT !.pc = "written", !.writes = w, !.entry = e] =
           [pc |-> "written", op |-> j.op, item |-> j.item, user |-> j.user, own |-> j.own,
            writes |-> w, entry |-> e]
  <1> DEFINE k == [j EXCEPT !.pc = "written"]
             m == [k EXCEPT !.writes = w]
  <1>1. k \in Job /\ k.op = j.op /\ k.item = j.item /\ k.user = j.user /\ k.own = j.own
        /\ k.pc = "written"
    BY DEF Job
  <1> HIDE DEF k
  <1>2. m \in Job /\ m.op = k.op /\ m.item = k.item /\ m.user = k.user /\ m.own = k.own
        /\ m.pc = k.pc /\ m.writes = w
    BY <1>1 DEF Job
  <1> HIDE DEF m
  <1>3. [m EXCEPT !.entry = e] =
           [pc |-> m.pc, op |-> m.op, item |-> m.item, user |-> m.user, own |-> m.own,
            writes |-> m.writes, entry |-> e]
    BY <1>2 DEF Job
  <1> QED
    BY <1>1, <1>2, <1>3 DEF k, m

(* The statements of a transaction: it fits the row, and the locks keep out *)
(* whoever could change that.                                               *)
LEMMA WriteInv ==
    ASSUME Inv, NEW r \in Requests, NEW response \in Responses, NEW writes \in BOOLEAN,
           Write(r, response, writes)
    PROVE  Inv'
  <1> DEFINE j == job[r]
             old == row[j.item]
             e == Written(j, response, writes)
  <1>1. /\ j \in Job /\ j.pc = "sent" /\ j.item \in Items
        /\ old.entry \in Entry /\ row' = row
        /\ old.status = IF j.op = "create" THEN "unused" ELSE "live"
        /\ j.op \in {"create", "delete"} => writes
        /\ j.op = "rsvp" => writes = (old.entry.rsvp[j.user] # response)
        /\ j.op = "update" /\ writes => old.entry.val < MaxVal
    BY DEF Write, Inv, TypeOK, Job
  <1>2. e \in Entry
    <2>1. CASE j.op \in {"create", "delete"}
      BY <2>1, <1>1, NewEntryType DEF Written
    <2>2. CASE j.op = "update"
      <3>1. writes => old.entry.val + 1 \in 0..MaxVal
        BY <2>2, <1>1, PlannerAssumption DEF Entry
      <3> QED
        BY <2>2, <3>1, <1>1 DEF Written, Entry
    <2>3. CASE j.op = "rsvp"
      BY <2>3, <1>1, NewEntryType DEF Written, Entry, Rsvps, Job
    <2> QED
      BY <2>1, <2>2, <2>3, <1>1 DEF Job, Operations
  <1>3. FitsRow(old, [pc |-> "written", op |-> j.op, item |-> j.item, user |-> j.user,
                      own |-> j.own, writes |-> writes, entry |-> e])
    <2>0. NewEntry.val = 0 /\ \A u \in Users : NewEntry.rsvp[u] = "none"
      BY DEF NewEntry, NoRsvps
    <2>1. CASE j.op \in {"create", "delete"}
      BY <2>1, <1>1 DEF FitsRow, Written
    <2>2. CASE j.op = "update"
      <3>1. CASE writes
        BY <2>2, <3>1, <1>1 DEF FitsRow, Written, Entry
      <3>2. CASE ~writes
        BY <2>2, <3>2, <1>1, PlannerAssumption DEF FitsRow, Written, BackedBy, Entry
      <3> QED
        BY <3>1, <3>2
    <2>3. CASE j.op = "rsvp"
      <3>1. /\ e.val = 0 /\ e.rsvp[j.user] = response /\ response # "none"
            /\ \A u \in Users : u # j.user => e.rsvp[u] = "none"
        BY <2>3, <1>1, NewEntryType DEF Written, NewEntry, Rsvps, NoRsvps, Job, Responses
      <3>2. ~writes => old.entry.rsvp[j.user] = response
        BY <2>3, <1>1
      <3>3. old.entry.val \in Nat /\ old.status # "unused"
        BY <2>3, <1>1, PlannerAssumption DEF Entry
      <3> HIDE DEF e
      <3>4. ~writes => BackedBy(old, e)
        BY <3>1, <3>2, <3>3 DEF BackedBy
      <3> QED
        BY <2>3, <3>1, <3>3, <3>4 DEF FitsRow
    <2> QED
      BY <2>1, <2>2, <2>3, <1>1 DEF Job, Operations
  <1>4. job' = [job EXCEPT ![r] = [j EXCEPT !.pc = "written", !.writes = writes, !.entry = e]]
        /\ UNCHANGED <<inbox, cache, pending, load, marks, sends>>
    BY <1>1 DEF Write, Inv, TypeOK
  <1>5. \A s \in Requests \ {r} : Apart(job[s], j) /\ ~Locked(r, writes)
    BY <1>1 DEF Write, Apart
  <1>6. \A s \in Requests \ {r} : job[s].pc = "written" /\ job[s].item = j.item =>
           /\ j.op # "delete" /\ job[s].op # "delete"
           /\ writes /\ job[s].writes /\ j.op = job[s].op => j.op = "rsvp" /\ j.user # job[s].user
    BY <1>1, <1>5 DEF Locked, Job, Operations
  <1> HIDE DEF e, j
  <1>7. job'[r] = [pc |-> "written", op |-> j.op, item |-> j.item, user |-> j.user,
                   own |-> j.own, writes |-> writes, entry |-> e]
        /\ \A s \in Requests \ {r} : job'[s] = job[s]
    BY <1>1, <1>2, <1>4, JobWritten DEF Inv, TypeOK
  <1>8. job'[r] \in Job /\ FitsRow(old, job'[r])
    BY <1>1, <1>2, <1>3, <1>7 DEF Job
  <1>9. TypeOK'
    BY <1>1, <1>4, <1>8 DEF Inv, TypeOK
  <1>10. Told'
    BY <1>1, <1>4, <1>7 DEF Told, Inv, TypeOK, CacheBacked, LoadsBacked, InboxBacked,
       AnswersBacked, Backed
  <1>11. Open'
    <2>1. OpenFit'
      BY <1>1, <1>7, <1>8 DEF Inv, OpenFit, Fits
    <2>2. LocksKept'
      BY <1>6, <1>7 DEF Inv, LocksKept, Apart
    <2> QED
      BY <2>1, <2>2, <1>1 DEF Open, Inv, UnusedIsNew
  <1>12. PendingIsOut'
    BY <1>1, <1>4, <1>7 DEF Inv, PendingIsOut, j
  <1> QED
    BY <1>9, <1>10, <1>11, <1>12 DEF Inv, Told, Open

---------------------------------------------------------------------------
Row == [status: {"unused", "live", "deleted"}, entry: Entry]

(* A commit that changes its row. *)
CommitOn(j, old, new) ==
    /\ j.op = "create" => new = [status |-> "live", entry |-> NewEntry]
    /\ j.op = "update" => new = [old EXCEPT !.entry.val = j.entry.val]
    /\ j.op = "rsvp"   => new = [old EXCEPT !.entry.rsvp[j.user] = j.entry.rsvp[j.user]]
    /\ j.op = "delete" => new = [old EXCEPT !.status = "deleted"]

LEMMA EntryVal ==
    ASSUME NEW old \in Row, NEW v \in 0..MaxVal
    PROVE  [old EXCEPT !.entry.val = v] =
           [status |-> old.status, entry |-> [val |-> v, rsvp |-> old.entry.rsvp]]
  <1>1. [old.entry EXCEPT !.val = v] = [val |-> v, rsvp |-> old.entry.rsvp]
    BY DEF Row, Entry
  <1> QED
    BY <1>1 DEF Row

LEMMA EntryRsvp ==
    ASSUME NEW old \in Row, NEW u, NEW a
    PROVE  [old EXCEPT !.entry.rsvp[u] = a] =
           [status |-> old.status,
            entry |-> [val |-> old.entry.val, rsvp |-> [old.entry.rsvp EXCEPT ![u] = a]]]
  <1>1. [old.entry EXCEPT !.rsvp[u] = a] =
        [val |-> old.entry.val, rsvp |-> [old.entry.rsvp EXCEPT ![u] = a]]
    BY DEF Row, Entry
  <1> QED
    BY <1>1 DEF Row

(* What a commit makes of the row, by field. *)
Moved(j, old, new) ==
    /\ new \in Row
    /\ j.op = "create" => new.status = "live" /\ new.entry = NewEntry
    /\ j.op = "delete" => new.status = "deleted" /\ new.entry = old.entry
    /\ j.op = "update" =>
          /\ new.status = old.status
          /\ new.entry.val = j.entry.val /\ new.entry.rsvp = old.entry.rsvp
    /\ j.op = "rsvp" =>
          /\ new.status = old.status /\ new.entry.val = old.entry.val
          /\ new.entry.rsvp = [old.entry.rsvp EXCEPT ![j.user] = j.entry.rsvp[j.user]]

LEMMA RowMoved ==
    ASSUME NEW j \in Job, NEW old \in Row, NEW new, CommitOn(j, old, new)
    PROVE  Moved(j, old, new)
  <1>1. CASE j.op = "create"
    BY <1>1, NewEntryType DEF CommitOn, Row, Moved
  <1>2. CASE j.op = "delete"
    BY <1>2 DEF CommitOn, Row, Moved
  <1>3. CASE j.op = "update"
    <2>1. new = [status |-> old.status, entry |-> [val |-> j.entry.val, rsvp |-> old.entry.rsvp]]
      BY <1>3, EntryVal DEF CommitOn, Job, Entry
    <2> QED
      BY <1>3, <2>1 DEF Row, Job, Entry, Moved
  <1>4. CASE j.op = "rsvp"
    <2>1. new = [status |-> old.status,
                 entry |-> [val |-> old.entry.val,
                            rsvp |-> [old.entry.rsvp EXCEPT ![j.user] = j.entry.rsvp[j.user]]]]
      <3> DEFINE u == j.user
                 a == j.entry.rsvp[j.user]
      <3>1. new = [old EXCEPT !.entry.rsvp[u] = a]
        BY <1>4 DEF CommitOn
      <3> HIDE DEF u, a
      <3>2. new = [status |-> old.status,
                   entry |-> [val |-> old.entry.val, rsvp |-> [old.entry.rsvp EXCEPT ![u] = a]]]
        BY <3>1, EntryRsvp
      <3> QED
        BY <3>2 DEF u, a
    <2>2. [old.entry.rsvp EXCEPT ![j.user] = j.entry.rsvp[j.user]] \in Rsvps
      BY DEF Row, Entry, Rsvps, Job
    <2> QED
      BY <1>4, <2>1, <2>2 DEF Row, Entry, Moved
  <1> QED
    BY <1>1, <1>2, <1>3, <1>4 DEF Job, Operations

(* Rows only move on: what was true of an entry stays true.                 *)
LEMMA BackedStays ==
    ASSUME NEW j \in Job, NEW old \in Row, NEW new, Moved(j, old, new), FitsRow(old, j), j.writes,
           NEW e \in Entry, BackedBy(old, e)
    PROVE  BackedBy(new, e)
  <1>1. old.status # "unused" /\ e.val <= old.entry.val
        /\ \A u \in Users : e.rsvp[u] # "none" => old.entry.rsvp[u] # "none"
    BY DEF BackedBy
  <1>2. e.val \in Nat /\ old.entry.val \in Nat /\ old.entry.rsvp \in Rsvps
    BY PlannerAssumption DEF Row, Entry
  <1>3. j.op \in {"update", "rsvp", "delete"}
    BY <1>1 DEF Job, Operations, FitsRow
  <1>4. new.status # "unused" /\ e.val <= new.entry.val
    BY <1>1, <1>2, <1>3 DEF Moved, FitsRow
  <1>5. \A u \in Users : old.entry.rsvp[u] # "none" => new.entry.rsvp[u] # "none"
    BY <1>2, <1>3 DEF Moved, FitsRow, Rsvps
  <1> QED
    BY <1>1, <1>4, <1>5 DEF BackedBy

(* What a request tells of its own change is true once it is committed.     *)
LEMMA OwnBacked ==
    ASSUME NEW j \in Job, NEW old \in Row, NEW new, Moved(j, old, new), FitsRow(old, j), j.writes
    PROVE  BackedBy(new, j.entry)
  <1>1. /\ old.entry.val \in Nat /\ old.entry.rsvp \in Rsvps
        /\ new.entry.val \in Nat /\ j.entry.val \in Nat /\ j.user \in Users
    BY PlannerAssumption DEF Row, Entry, Job, Moved
  <1>2. NewEntry.val = 0 /\ \A u \in Users : NewEntry.rsvp[u] = "none"
    BY DEF NewEntry, NoRsvps
  <1>3. CASE j.op \in {"create", "delete"}
    BY <1>1, <1>2, <1>3 DEF BackedBy, Moved, FitsRow
  <1>4. CASE j.op = "update"
    BY <1>1, <1>4 DEF BackedBy, Moved, FitsRow
  <1>5. CASE j.op = "rsvp"
    BY <1>1, <1>5 DEF BackedBy, Moved, FitsRow, Rsvps
  <1> QED
    BY <1>3, <1>4, <1>5 DEF Job, Operations

(* Another open transaction on the row still fits: the locks keep out what  *)
(* would change the facts it has seen.                                      *)
LEMMA FitsStays ==
    ASSUME NEW j \in Job, NEW k \in Job, NEW old \in Row, NEW new,
           Moved(j, old, new), FitsRow(old, j), FitsRow(old, k), j.writes,
           j.pc = "written", k.pc = "written", j.item = k.item, Apart(j, k)
    PROVE  FitsRow(new, k)
  <1>1. /\ j.op \in {"update", "rsvp"} /\ k.op \in {"update", "rsvp"}
        /\ k.op = "update" /\ k.writes => j.op = "rsvp"
    BY DEF Apart, FitsRow, Job, Operations
  <1>2. /\ old.entry.val \in Nat /\ old.entry.rsvp \in Rsvps /\ k.entry \in Entry
    BY PlannerAssumption DEF Row, Entry, Job
  <1>3. ~k.writes => BackedBy(new, k.entry)
    BY <1>2, BackedStays DEF FitsRow
  <1>4. new.status # "unused"
    BY <1>1 DEF Moved, FitsRow
  <1>5. CASE k.op = "update"
    <2>1. k.writes => /\ k.entry.val = new.entry.val + 1
                      /\ \A u \in Users : k.entry.rsvp[u] # "none" => new.entry.rsvp[u] # "none"
      BY <1>1, <1>2, <1>5 DEF Moved, FitsRow, Rsvps
    <2> QED
      BY <1>3, <1>4, <1>5, <2>1 DEF FitsRow
  <1>6. CASE k.op = "rsvp"
    BY <1>3, <1>4, <1>6 DEF FitsRow
  <1> QED
    BY <1>1, <1>5, <1>6

LEMMA InboxType == ASSUME Inv PROVE \A n \in 1..Len(inbox) : inbox[n] \in Message
  <1>1. inbox \in Seq(Message)
    BY DEF Inv, TypeOK
  <1> QED
    BY <1>1

LEMMA CommitInv == ASSUME Inv, NEW r \in Requests, Commit(r) PROVE Inv'
  <1> DEFINE j == job[r]
             new == row'[j.item]
  <1>1. /\ j \in Job /\ j.item \in Items /\ j.pc = "written"
        /\ row \in [Items -> Row] /\ Fits(j)
    BY DEF Commit, Inv, TypeOK, Job, Row, OpenFit
  <1>2. /\ row' = [row EXCEPT ![j.item] = new]
        /\ IF j.writes THEN CommitOn(j, row[j.item], new) ELSE new = row[j.item]
    <2>1. CASE j.writes
      BY <1>1, <2>1, NewEntryType DEF Commit, CommitOn, Job, Operations
    <2>2. CASE ~j.writes
      BY <1>1, <2>2 DEF Commit
    <2> QED
      BY <2>1, <2>2
  <1>3. IF j.writes THEN Moved(j, row[j.item], new) ELSE new = row[j.item]
    BY <1>1, <1>2, RowMoved
  <1>4. /\ job' = [job EXCEPT ![r] = [j EXCEPT !.pc = "committed"]]
        /\ UNCHANGED <<inbox, cache, pending, load, sends>>
        /\ marks' \in SUBSET Marks
    BY DEF Commit, Inv, TypeOK, Marks
  <1>5. job' = [job EXCEPT ![r] = [pc |-> "committed", op |-> j.op, item |-> j.item,
                                   user |-> j.user, own |-> j.own, writes |-> j.writes,
                                   entry |-> j.entry]]
    BY <1>1, <1>4, JobMoved
  <1>6. /\ job'[r] \in Job /\ job'[r].pc = "committed" /\ job'[r].op = j.op
        /\ job'[r].item = j.item /\ job'[r].own = j.own /\ job'[r].entry = j.entry
        /\ \A s \in Requests \ {r} : job'[s] = job[s]
    BY <1>1, <1>5 DEF Inv, TypeOK, Job
  <1>7. \A i \in Items : i # j.item => row'[i] = row[i]
    BY <1>1, <1>2
  <1>8. new \in Row /\ row' \in [Items -> Row]
    BY <1>1, <1>2, <1>3 DEF Moved
  <1> HIDE DEF j, new
  <1>9. TypeOK'
    BY <1>4, <1>5, <1>6, <1>8 DEF Inv, TypeOK, Row
  <1>10. \A i \in Items, e \in Entry : BackedBy(row[i], e) => BackedBy(row'[i], e)
    <2> SUFFICES ASSUME NEW i \in Items, NEW e \in Entry, BackedBy(row[i], e)
                 PROVE  BackedBy(row'[i], e)
      OBVIOUS
    <2>1. CASE i # j.item
      BY <2>1, <1>7
    <2>2. CASE i = j.item
      BY <2>2, <1>1, <1>3, BackedStays DEF Fits, new
    <2> QED
      BY <2>1, <2>2
  <1>11. Told'
    <2>1. CacheBacked'
      BY <1>4, <1>10 DEF CacheBacked, Backed, Inv, TypeOK, Cache
    <2>2. LoadsBacked'
      BY <1>4, <1>10 DEF LoadsBacked, Backed, Inv, TypeOK, Cache
    <2>3. InboxBacked'
      <3>1. \A n \in 1..Len(inbox) : inbox[n].item \in Items /\ inbox[n].entry \in Entry
        BY InboxType DEF Message
      <3> QED
        BY <1>4, <1>10, <3>1 DEF InboxBacked, Backed, Inv
    <2>4. AnswersBacked'
      <3>1. BackedBy(row'[j.item], j.entry)
        BY <1>1, <1>3, OwnBacked DEF Fits, FitsRow, new
      <3>2. \A s \in Requests : job[s].item \in Items /\ job[s].entry \in Entry
        BY DEF Inv, TypeOK, Job
      <3> QED
        BY <1>6, <1>10, <3>1, <3>2 DEF AnswersBacked, Backed, Inv
    <2> QED
      BY <2>1, <2>2, <2>3, <2>4 DEF Told
  <1>12. Open'
    <2>1. OpenFit'
      <3> SUFFICES ASSUME NEW s \in Requests, job'[s].pc = "written"
                   PROVE  FitsRow(row'[job'[s].item], job'[s])
        BY DEF OpenFit, Fits
      <3> DEFINE k == job[s]
      <3>1. s # r /\ job'[s] = k
        BY <1>6
      <3>2. k \in Job /\ k.item \in Items /\ k.pc = "written" /\ FitsRow(row[k.item], k)
            /\ Apart(j, k)
        BY <3>1 DEF Inv, TypeOK, Job, OpenFit, Fits, LocksKept, j
      <3> HIDE DEF k
      <3>3. CASE k.item # j.item
        BY <3>1, <3>2, <3>3, <1>7
      <3>4. CASE k.item = j.item
        BY <3>1, <3>2, <3>4, <1>1, <1>3, FitsStays DEF Fits, new
      <3> QED
        BY <3>3, <3>4
    <2>2. LocksKept'
      BY <1>6 DEF Inv, LocksKept, Apart
    <2>3. UnusedIsNew'
      <3>1. new.status # "unused"
        BY <1>1, <1>3 DEF Moved, Fits, FitsRow, Job, Operations, Row
      <3> QED
        BY <3>1, <1>7 DEF Inv, UnusedIsNew, new
    <2> QED
      BY <2>1, <2>2, <2>3 DEF Open
  <1>13. PendingIsOut'
    <2>1. \A s \in Requests : job[s].pc # "none" =>
             /\ job'[s].pc # "none" /\ job'[s].own = job[s].own
             /\ job'[s].op = job[s].op /\ job'[s].item = job[s].item
      BY <1>6 DEF j
    <2> QED
      BY <2>1, <1>4 DEF Inv, PendingIsOut
  <1> QED
    BY <1>9, <1>11, <1>12, <1>13 DEF Inv, Told, Open

---------------------------------------------------------------------------
(* publish_after_commit: what it tells is committed.                        *)
LEMMA PublishedFacts ==
    ASSUME Inv, NEW r \in Requests, MayPublish(r), Published(r)
    PROVE  /\ job' \in [Requests -> Job]
           /\ \A s \in Requests \ {r} : job'[s] = job[s]
           /\ job'[r].pc \in {"none", "published"}
           /\ job'[r].pc = "published" =>
                 job'[r].item = job[r].item /\ job'[r].entry = job[r].entry
           /\ job[r].own => /\ job'[r].pc = "published" /\ job'[r].own
                            /\ job'[r].op = job[r].op /\ job'[r].item = job[r].item
  <1> DEFINE j == job[r]
  <1>1. j \in Job /\ job \in [Requests -> Job]
    BY DEF Inv, TypeOK
  <1>2. job' = [job EXCEPT ![r] = IF j.own THEN [j EXCEPT !.pc = "published"] ELSE IdleJob]
    BY DEF Published
  <1> HIDE DEF j
  <1>3. [j EXCEPT !.pc = "published"] =
           [pc |-> "published", op |-> j.op, item |-> j.item, user |-> j.user, own |-> j.own,
            writes |-> j.writes, entry |-> j.entry]
    BY <1>1, JobMoved
  <1>4. CASE j.own
    BY <1>1, <1>2, <1>3, <1>4 DEF Job, j
  <1>5. CASE ~j.own
    BY <1>1, <1>2, <1>5, IdleJobType DEF IdleJob, j
  <1> QED
    BY <1>4, <1>5

(* Being published changes neither rows nor locks. *)
LEMMA PublishedInv ==
    ASSUME Inv, NEW r \in Requests, MayPublish(r), Published(r),
           UNCHANGED <<row, cache, pending, load, sends>>
    PROVE  /\ CacheBacked' /\ LoadsBacked' /\ AnswersBacked' /\ Open' /\ PendingIsOut'
  <1>1. CacheBacked' /\ LoadsBacked'
    BY DEF Inv, CacheBacked, LoadsBacked, Backed
  <1>2. AnswersBacked'
    BY PublishedFacts DEF Inv, AnswersBacked, Backed, MayPublish
  <1>3. Open'
    BY PublishedFacts DEF Inv, Open, OpenFit, LocksKept, UnusedIsNew, Fits, Apart
  <1>4. PendingIsOut'
    BY PublishedFacts DEF Inv, PendingIsOut
  <1> QED
    BY <1>1, <1>2, <1>3, <1>4

LEMMA PublishInv == ASSUME Inv, NEW r \in Requests, Publish(r) PROVE Inv'
  <1> DEFINE m == [op |-> job[r].op, item |-> job[r].item, user |-> job[r].user,
                   entry |-> job[r].entry]
  <1>1. /\ MayPublish(r) /\ Published(r) /\ inbox' = Append(inbox, m)
        /\ Len(inbox) < MaxInbox /\ UNCHANGED <<row, cache, pending, load, marks, sends>>
    BY DEF Publish
  <1>2. m \in Message /\ inbox \in Seq(Message) /\ m.item = job[r].item /\ m.entry = job[r].entry
    BY DEF Inv, TypeOK, Message, Job
  <1>3. Backed(m.item, m.entry)
    BY <1>1, <1>2 DEF MayPublish, Inv, AnswersBacked
  <1> HIDE DEF m
  <1>4. inbox' \in Seq(Message) /\ Len(inbox') <= MaxInbox
    BY <1>1, <1>2, PlannerAssumption
  <1>5. TypeOK'
    BY <1>1, <1>4, PublishedFacts DEF Inv, TypeOK
  <1>6. InboxBacked'
    <2> SUFFICES ASSUME NEW n \in 1..Len(inbox')
                 PROVE  BackedBy(row[inbox'[n].item], inbox'[n].entry)
      BY <1>1 DEF InboxBacked, Backed
    <2>1. CASE n \in 1..Len(inbox)
      <3>1. inbox'[n] = inbox[n]
        BY <1>1, <1>2, <2>1
      <3> QED
        BY <2>1, <3>1 DEF Inv, InboxBacked, Backed
    <2>2. CASE n = Len(inbox) + 1
      <3>1. inbox'[n] = m
        BY <1>1, <1>2, <2>2
      <3> QED
        BY <3>1, <1>3 DEF Backed
    <2> QED
      BY <2>1, <2>2, <1>1, <1>2
  <1> QED
    BY <1>1, <1>5, <1>6, PublishedInv DEF Inv, Open

LEMMA UnheardInv == ASSUME Inv, NEW r \in Requests, Unheard(r) PROVE Inv'
  <1>1. MayPublish(r) /\ Published(r) /\ UNCHANGED <<row, inbox, cache, pending, load, sends>>
        /\ marks' \in SUBSET Marks
    BY DEF Unheard, Inv, TypeOK, Marks
  <1>2. TypeOK'
    BY <1>1, PublishedFacts DEF Inv, TypeOK
  <1>3. InboxBacked'
    BY <1>1 DEF Inv, InboxBacked, Backed
  <1> QED
    BY <1>1, <1>2, <1>3, PublishedInv DEF Inv, Open

(* A request that is over. *)
LEMMA EndedInv ==
    ASSUME Inv, NEW r \in Requests, job' = [job EXCEPT ![r] = IdleJob],
           UNCHANGED <<row, inbox, load>>
    PROVE  /\ job' \in [Requests -> Job] /\ LoadsBacked' /\ InboxBacked'
           /\ AnswersBacked' /\ Open'
           /\ \A s \in Requests \ {r} : job'[s] = job[s]
  <1>1. /\ job' \in [Requests -> Job] /\ job'[r].pc = "none"
        /\ \A s \in Requests \ {r} : job'[s] = job[s]
    BY IdleJobType DEF Inv, TypeOK, IdleJob
  <1>2. LoadsBacked' /\ InboxBacked'
    BY DEF Inv, LoadsBacked, InboxBacked, Backed
  <1>3. AnswersBacked'
    BY <1>1 DEF Inv, AnswersBacked, Backed
  <1>4. Open'
    BY <1>1 DEF Inv, Open, OpenFit, LocksKept, UnusedIsNew, Fits, Apart
  <1> QED
    BY <1>1, <1>2, <1>3, <1>4

LEMMA FailInv == ASSUME Inv, NEW r \in Requests, Fail(r) PROVE Inv'
  <1>1. /\ job' = [job EXCEPT ![r] = IdleJob] /\ job[r].pc # "none"
        /\ pending' = Failed(r) /\ UNCHANGED <<row, inbox, cache, load, marks, sends>>
    BY DEF Fail
  <1>2. TypeOK'
    BY <1>1, EndedInv DEF Inv, TypeOK, Failed
  <1>3. CacheBacked'
    BY <1>1 DEF Inv, CacheBacked, Backed
  <1>4. PendingIsOut'
    BY <1>1, EndedInv DEF Inv, PendingIsOut, Failed
  <1> QED
    BY <1>1, <1>2, <1>3, <1>4, EndedInv DEF Inv, Open

(* The client stops waiting for a request that goes on. *)
LEMMA GiveUpInv == ASSUME Inv, NEW r \in Requests, GiveUp(r) PROVE Inv'
  <1> DEFINE j == job[r]
  <1>1. /\ j \in Job /\ j.own /\ pending' = Failed(r)
        /\ job' = [job EXCEPT ![r] = IF j.pc = "published" THEN IdleJob
                                     ELSE [j EXCEPT !.own = FALSE]]
        /\ UNCHANGED <<row, inbox, cache, load, marks, sends>>
    BY DEF GiveUp, Inv, TypeOK
  <1> HIDE DEF j
  <1>2. CacheBacked'
    BY <1>1 DEF Inv, CacheBacked, Backed
  <1>3. CASE j.pc = "published"
    <2>1. job' = [job EXCEPT ![r] = IdleJob]
      BY <1>1, <1>3
    <2>2. TypeOK'
      BY <1>1, <2>1, EndedInv DEF Inv, TypeOK, Failed
    <2>3. PendingIsOut'
      BY <1>1, <2>1, EndedInv DEF Inv, PendingIsOut, Failed
    <2> QED
      BY <1>1, <1>2, <2>1, <2>2, <2>3, EndedInv DEF Inv, Open
  <1>4. CASE j.pc # "published"
    <2> DEFINE b == FALSE
               k == [j EXCEPT !.own = b]
    <2>0. b \in BOOLEAN /\ ~b /\ job' = [job EXCEPT ![r] = k]
      BY <1>1, <1>4
    <2> HIDE DEF b
    <2>1. k = [pc |-> j.pc, op |-> j.op, item |-> j.item, user |-> j.user, own |-> b,
               writes |-> j.writes, entry |-> j.entry]
      BY <1>1, <2>0, JobLeft
    <2>2. /\ k \in Job /\ k.pc = j.pc /\ k.op = j.op /\ k.item = j.item /\ k.user = j.user
          /\ k.writes = j.writes /\ k.entry = j.entry
      BY <1>1, <2>0, <2>1 DEF Job
    <2> HIDE DEF k
    <2>3. job'[r] = k /\ \A s \in Requests \ {r} : job'[s] = job[s]
      BY <2>0 DEF Inv, TypeOK
    <2>4. TypeOK'
      BY <1>1, <2>0, <2>2, <2>3 DEF Inv, TypeOK, Failed
    <2>5. LoadsBacked' /\ InboxBacked' /\ AnswersBacked'
      BY <1>1, <2>2, <2>3 DEF Inv, LoadsBacked, InboxBacked, AnswersBacked, Backed, j
    <2>6. OpenFit'
      BY <1>1, <2>2, <2>3 DEF Inv, OpenFit, Fits, FitsRow, j
    <2>7. LocksKept' /\ UnusedIsNew'
      BY <1>1, <2>2, <2>3 DEF Inv, LocksKept, UnusedIsNew, Apart, j
    <2>8. PendingIsOut'
      BY <1>1, <2>3 DEF Inv, PendingIsOut, Failed, j
    <2> QED
      BY <1>2, <2>4, <2>5, <2>6, <2>7, <2>8 DEF Inv
  <1> QED
    BY <1>3, <1>4

---------------------------------------------------------------------------
(* The client's cache. *)
LEMMA CacheTypes == NotLoaded \notin Cache /\ Absent.val = 0 /\ Absent.rsvp = NoRsvps
  BY PlannerAssumption DEF NotLoaded, Cache, Absent

(* News that are backed leave the cache backed. *)
LEMMA AppliedBacked ==
    ASSUME Inv, cache # NotLoaded, NEW e, e.op \in Operations, e.item \in Items,
           e.user \in Users, e.entry \in Entry, Backed(e.item, e.entry)
    PROVE  /\ Applied(cache, e) \in Cache
           /\ \A i \in Items : Applied(cache, e)[i] # Absent =>
                 Backed(i, Applied(cache, e)[i])
  <1>1. cache \in Cache /\ \A i \in Items : cache[i] # Absent => Backed(i, cache[i])
    BY DEF Inv, TypeOK, CacheBacked
  <1>2. CASE e.op \in {"create", "update"}
    <2>1. Applied(cache, e) = [cache EXCEPT ![e.item] = e.entry]
      BY <1>2 DEF Applied, Upserted
    <2> QED
      BY <1>1, <2>1 DEF Cache
  <1>3. CASE e.op = "delete"
    <2>1. Applied(cache, e) = [cache EXCEPT ![e.item] = Absent]
      BY <1>3 DEF Applied, Removed
    <2> QED
      BY <1>1, <2>1 DEF Cache
  <1>4. CASE e.op = "rsvp" /\ cache[e.item] = Absent
    BY <1>1, <1>4 DEF Applied, Merged
  <1>5. CASE e.op = "rsvp" /\ cache[e.item] # Absent
    <2> DEFINE old == cache[e.item]
               new == [val |-> old.val, rsvp |-> [old.rsvp EXCEPT ![e.user] = e.entry.rsvp[e.user]]]
    <2>1. old \in Entry /\ Backed(e.item, old)
      BY <1>1, <1>5 DEF Cache
    <2>2. [old EXCEPT !.rsvp[e.user] = e.entry.rsvp[e.user]] = new
      BY <2>1 DEF Entry
    <2>3. Applied(cache, e) = [cache EXCEPT ![e.item] = new]
      BY <1>5, <2>2 DEF Applied, Merged
    <2>4. new \in Entry
      BY <2>1 DEF Entry, Rsvps
    <2>5. Backed(e.item, new)
      BY <2>1 DEF Backed, BackedBy, Entry, Rsvps
    <2> HIDE DEF new
    <2> QED
      BY <1>1, <2>3, <2>4, <2>5 DEF Cache
  <1> QED
    BY <1>2, <1>3, <1>4, <1>5 DEF Operations

LEMMA HandledFacts ==
    ASSUME Inv, NEW e, e.op \in Operations, e.item \in Items,
           e.user \in Users, e.entry \in Entry, Backed(e.item, e.entry),
           Handled(e), UNCHANGED row
    PROVE  /\ cache' \in Cache \cup {NotLoaded} /\ CacheBacked'
           /\ pending' \in SUBSET Items /\ (cache' = NotLoaded => pending' = {})
           /\ marks' \in SUBSET Marks
  <1>1. pending' \subseteq pending /\ marks' \in SUBSET Marks
    BY DEF Handled, NotPending, Inv, TypeOK, Marks
  <1>2. CASE cache = NotLoaded
    BY <1>1, <1>2 DEF Handled, Inv, TypeOK, CacheBacked
  <1>3. CASE cache # NotLoaded
    <2>1. cache' = Applied(cache, e)
      BY <1>3 DEF Handled
    <2>2. cache' \in Cache /\ \A i \in Items : cache'[i] # Absent => Backed(i, cache'[i])
      BY <1>3, <2>1, AppliedBacked
    <2> QED
      BY <1>1, <2>2, CacheTypes DEF Inv, TypeOK, CacheBacked, Backed
  <1> QED
    BY <1>2, <1>3

LEMMA AnswerInv == ASSUME Inv, NEW r \in Requests, Answer(r) PROVE Inv'
  <1> DEFINE e == job[r]
  <1>1. /\ job' = [job EXCEPT ![r] = IdleJob] /\ Handled(e)
        /\ job[r].pc = "published" /\ UNCHANGED <<row, inbox, load, sends>>
    BY DEF Answer
  <1>2. /\ e.op \in Operations /\ e.item \in Items /\ e.user \in Users /\ e.entry \in Entry
        /\ Backed(e.item, e.entry)
    BY <1>1 DEF Inv, TypeOK, Job, AnswersBacked
  <1>3. TypeOK' /\ CacheBacked'
    BY <1>1, <1>2, HandledFacts, EndedInv DEF Inv, TypeOK
  <1>4. PendingIsOut'
    BY <1>1, EndedInv DEF Inv, PendingIsOut, Handled, NotPending
  <1> QED
    BY <1>1, <1>3, <1>4, EndedInv DEF Inv, Open

LEMMA DeliverInv == ASSUME Inv, Deliver PROVE Inv'
  <1> DEFINE e == Head(inbox)
  <1>1. inbox # <<>> /\ inbox' = Tail(inbox) /\ UNCHANGED <<row, job, load, sends>>
        /\ (UNCHANGED <<cache, pending, marks>> \/ Handled(e))
    BY DEF Deliver
  <1>2. inbox \in Seq(Message) /\ Len(inbox) <= MaxInbox /\ Len(inbox) \in Nat
    BY DEF Inv, TypeOK
  <1>3. e = inbox[1] /\ 1 \in 1..Len(inbox)
    BY <1>1, <1>2
  <1>4. /\ e.op \in Operations /\ e.item \in Items /\ e.user \in Users /\ e.entry \in Entry
        /\ Backed(e.item, e.entry)
    BY <1>3, InboxType DEF Inv, InboxBacked, Message
  <1>5. /\ inbox' \in Seq(Message) /\ Len(inbox') = Len(inbox) - 1
        /\ \A n \in 1..Len(inbox') : inbox'[n] = inbox[n + 1] /\ n + 1 \in 1..Len(inbox)
    BY <1>1, <1>2
  <1> HIDE DEF e
  <1>6. InboxBacked'
    BY <1>1, <1>5 DEF Inv, InboxBacked, Backed
  <1>7. TypeOK' /\ CacheBacked'
    <2>1. Len(inbox') <= MaxInbox
      BY <1>2, <1>5, PlannerAssumption
    <2>2. CASE UNCHANGED <<cache, pending, marks>>
      BY <1>1, <1>5, <2>1, <2>2 DEF Inv, TypeOK, CacheBacked, Backed
    <2>3. CASE Handled(e)
      BY <1>1, <1>4, <1>5, <2>1, <2>3, HandledFacts DEF Inv, TypeOK
    <2> QED
      BY <1>1, <2>2, <2>3
  <1>8. PendingIsOut' /\ Open'
    BY <1>1 DEF Inv, PendingIsOut, Open, OpenFit, LocksKept, UnusedIsNew, Fits, Apart, Handled, NotPending
  <1>9. LoadsBacked' /\ AnswersBacked'
    BY <1>1 DEF Inv, LoadsBacked, AnswersBacked, Backed
  <1> QED
    BY <1>6, <1>7, <1>8, <1>9 DEF Inv, Open

---------------------------------------------------------------------------
(* What no reload touches. *)
LEMMA LoadInv ==
    ASSUME Inv, UNCHANGED <<row, job, inbox, sends>>, pending' \subseteq pending
    PROVE  InboxBacked' /\ AnswersBacked' /\ Open' /\ PendingIsOut'
  BY DEF Inv, InboxBacked, AnswersBacked, Open, OpenFit, LocksKept, UnusedIsNew, Fits, Apart,
     Backed, PendingIsOut

(* A reload moves on with what it has read. *)
LEMMA LoadMoved ==
    ASSUME Inv, NEW l \in Loads, NEW p \in {"none", "asked", "half", "read"}, NEW got \in Cache,
           load' = [load EXCEPT ![l] = [pc |-> p, got |-> got]],
           UNCHANGED <<row, job, inbox, cache, pending, marks, sends>>,
           p \in {"half", "read"} => \A i \in Items : got[i] # Absent => Backed(i, got[i])
    PROVE  Inv'
  <1>1. TypeOK'
    BY DEF Inv, TypeOK
  <1>2. CacheBacked'
    BY DEF Inv, CacheBacked, Backed
  <1>3. LoadsBacked'
    BY DEF Inv, TypeOK, LoadsBacked, Backed
  <1> QED
    BY <1>1, <1>2, <1>3, LoadInv DEF Inv, Open

LEMMA NoLoadType == NoLoad.got \in Cache /\ NoLoad = [pc |-> "none", got |-> NoLoad.got]
                    /\ [NoLoad EXCEPT !.pc = "asked"] = [pc |-> "asked", got |-> NoLoad.got]
  BY DEF NoLoad, Cache

LEMMA AskInv == ASSUME Inv, NEW l \in Loads, Load(l) \/ LoadFails(l) PROVE Inv'
  BY LoadMoved, NoLoadType DEF Load, LoadFails

LEMMA ListSessionsInv == ASSUME Inv, NEW l \in Loads, ListSessions(l) PROVE Inv'
  <1> DEFINE got == [i \in Items |-> IF row[i].status = "live"
                                     THEN [row[i].entry EXCEPT !.rsvp = NoRsvps] ELSE Absent]
  <1>1. \A i \in Items : row[i].status = "live" =>
           /\ [row[i].entry EXCEPT !.rsvp = NoRsvps] \in Entry
           /\ Backed(i, [row[i].entry EXCEPT !.rsvp = NoRsvps])
    <2> SUFFICES ASSUME NEW i \in Items, row[i].status = "live"
                 PROVE  LET e == [row[i].entry EXCEPT !.rsvp = NoRsvps]
                        IN e \in Entry /\ Backed(i, e)
      OBVIOUS
    <2>1. row[i].entry \in Entry
      BY DEF Inv, TypeOK
    <2>2. [row[i].entry EXCEPT !.rsvp = NoRsvps] = [val |-> row[i].entry.val, rsvp |-> NoRsvps]
      BY <2>1 DEF Entry
    <2> QED
      BY <2>1, <2>2, NewEntryType, PlannerAssumption DEF Entry, Backed, BackedBy, NoRsvps
  <1>2. got \in Cache /\ \A i \in Items : got[i] # Absent => Backed(i, got[i])
    BY <1>1 DEF Cache
  <1>3. load' = [load EXCEPT ![l] = [pc |-> "half", got |-> got]]
        /\ UNCHANGED <<row, job, inbox, cache, pending, marks, sends>>
    BY DEF ListSessions
  <1> HIDE DEF got
  <1> QED
    BY <1>2, <1>3, LoadMoved

LEMMA ListRsvpsInv == ASSUME Inv, NEW l \in Loads, ListRsvps(l) PROVE Inv'
  <1> DEFINE old == load[l].got
             e(i) == [old[i] EXCEPT !.rsvp = row[i].entry.rsvp]
             got == [i \in Items |-> IF old[i] # Absent /\ row[i].status = "live"
                                     THEN e(i) ELSE old[i]]
  <1>1. load[l].pc = "half" /\ old \in Cache
        /\ \A i \in Items : old[i] # Absent => old[i] \in Entry /\ Backed(i, old[i])
    BY DEF ListRsvps, Inv, TypeOK, LoadsBacked, Cache
  <1>2. \A i \in Items : old[i] # Absent => e(i) \in Entry /\ Backed(i, e(i))
    <2> SUFFICES ASSUME NEW i \in Items, old[i] # Absent PROVE e(i) \in Entry /\ Backed(i, e(i))
      OBVIOUS
    <2>1. row[i].entry \in Entry /\ old[i] \in Entry /\ Backed(i, old[i])
      BY <1>1 DEF Inv, TypeOK
    <2>2. e(i) = [val |-> old[i].val, rsvp |-> row[i].entry.rsvp]
      BY <2>1 DEF Entry
    <2> HIDE DEF old, e
    <2> QED
      BY <2>1, <2>2 DEF Entry, Backed, BackedBy
  <1>3. load' = [load EXCEPT ![l] = [pc |-> "read", got |-> got]]
        /\ UNCHANGED <<row, job, inbox, cache, pending, marks, sends>>
    BY DEF ListRsvps
  <1> HIDE DEF old, e
  <1>4. got \in Cache /\ \A i \in Items : got[i] # Absent => Backed(i, got[i])
    BY <1>1, <1>2 DEF Cache
  <1> HIDE DEF got
  <1> QED
    BY <1>3, <1>4, LoadMoved

LEMMA LoadedInv == ASSUME Inv, NEW l \in Loads, Loaded(l) PROVE Inv'
  <1>1. /\ load[l].pc = "read" /\ cache' = load[l].got /\ pending' = {}
        /\ load' = [load EXCEPT ![l] = NoLoad] /\ UNCHANGED <<row, job, inbox, marks, sends>>
    BY DEF Loaded
  <1>2. TypeOK'
    BY <1>1, NoLoadType DEF Inv, TypeOK
  <1>3. CacheBacked'
    BY <1>1 DEF Inv, LoadsBacked, CacheBacked, Backed
  <1>4. LoadsBacked'
    BY <1>1 DEF Inv, TypeOK, LoadsBacked, Backed, NoLoad
  <1> QED
    BY <1>1, <1>2, <1>3, <1>4, LoadInv DEF Inv, Open

---------------------------------------------------------------------------
LEMMA StepInv == Inv /\ [Next]_vars => Inv'
  <1> SUFFICES ASSUME Inv, [Next]_vars PROVE Inv'
    OBVIOUS
  <1>1. ASSUME NEW r \in Requests, Serve(r) PROVE Inv'
    BY <1>1, WriteInv, CommitInv, PublishInv, UnheardInv, AnswerInv, FailInv, GiveUpInv DEF Serve
  <1>2. ASSUME NEW r \in Requests, NEW op \in Operations, NEW i \in Items, NEW u \in Users,
               NEW own \in BOOLEAN, Send(r, op, i, u, own)
        PROVE  Inv'
    BY <1>2, SendInv
  <1>3. CASE Deliver
    BY <1>3, DeliverInv
  <1>4. ASSUME NEW l \in Loads, Load(l) \/ Reload(l) PROVE Inv'
    BY <1>4, AskInv, ListSessionsInv, ListRsvpsInv, LoadedInv DEF Reload
  <1>5. CASE UNCHANGED vars
    <2>1. TypeOK'
      BY <1>5 DEF vars, Inv, TypeOK
    <2>2. CacheBacked' /\ LoadsBacked'
      BY <1>5 DEF vars, Inv, CacheBacked, LoadsBacked, Backed
    <2> QED
      BY <1>5, <2>1, <2>2, LoadInv DEF vars, Inv, Open
  <1> QED
    BY <1>1, <1>2, <1>3, <1>4, <1>5 DEF Next

(* The inductive invariant holds in every reachable state: the row locks of *)
(* the transactions and what is on its way to the client included.          *)
THEOREM Invariance == Spec => []Inv
  BY InitInv, StepInv, PTL DEF Spec

(* Every variable keeps its type (Planner, all handlers).                   *)
THEOREM TypeCorrect == Spec => []TypeOK
  <1>1. Inv => TypeOK
    BY DEF Inv
  <1> QED
    BY <1>1, Invariance, PTL

(* However requests, events, answers and reloads cross or fail, the client  *)
(* shows nothing that was not committed (routes.py, publish_after_commit).  *)
THEOREM CommittedOnly == Spec => []OnlyCommitted
  <1>1. Inv => OnlyCommitted
    BY DEF Inv, OnlyCommitted, CacheBacked, Backed, BackedBy
  <1> QED
    BY <1>1, Invariance, PTL

(* No session waits for an RSVP that is not out (rsvpToSession).            *)
THEOREM NoneLeftWaiting == Spec => []PendingIsOut
  <1>1. Inv => PendingIsOut
    BY DEF Inv
  <1> QED
    BY <1>1, Invariance, PTL
---------------------------------------------------------------------------
(* Nothing crossed: why the client ends up with the rows.                   *)

(* An open transaction of a session that is there: nobody can delete it.    *)
OpenLive == \A r \in Requests :
    job[r].pc = "written" /\ job[r].op # "create" => row[job[r].item].status = "live"

(* What the client may still be told in an answer is what the row says, or  *)
(* will say with the commit: otherwise it was overtaken.                    *)
RightFor(rw, j) ==
    /\ j.op \in {"create", "update"} =>
          /\ \A u \in Users : j.entry.rsvp[u] = rw.entry.rsvp[u]
          /\ \/ j.pc = "written" /\ j.writes
             \/ rw.status = "live" /\ j.entry.val = rw.entry.val
    /\ j.op = "rsvp" => \/ j.pc = "written" /\ j.writes
                        \/ j.entry.rsvp[j.user] = rw.entry.rsvp[j.user]
    /\ j.op = "delete" => j.pc = "written" \/ rw.status = "deleted"
Right(j) == RightFor(row[j.item], j)
InFlightRight == \A r \in Requests : Untold(job[r]) => Right(job[r])

(* What a request or an event says something about: a session as such, or   *)
(* the answer of one user; and whether that is what the row says.           *)
OfBody(e, i) == e.item = i /\ e.op # "rsvp"
OfRsvp(e, i, u) ==
    /\ e.item = i
    /\ e.op \in {"create", "update"} \/ (e.op = "rsvp" /\ e.user = u)
BodyRight(e) ==
    /\ e.op \in {"create", "update"} =>
          row[e.item].status = "live" /\ e.entry.val = row[e.item].entry.val
    /\ e.op = "delete" => row[e.item].status = "deleted"
RsvpRight(e, u) == e.entry.rsvp[u] = row[e.item].entry.rsvp[u]

(* The event of a committed request is still to be published.               *)
BodyTold(i) == \E r \in Requests : job[r].pc = "committed" /\ OfBody(job[r], i)
RsvpTold(i, u) == \E r \in Requests : job[r].pc = "committed" /\ OfRsvp(job[r], i, u)

(* After its first n events, the client will still be told how i is.        *)
BodyComing(i, n) ==
    \/ \E m \in 1..Len(inbox) : m > n /\ OfBody(inbox[m], i) /\ BodyRight(inbox[m])
    \/ BodyTold(i)
RsvpComing(i, u, n) ==
    \/ \E m \in 1..Len(inbox) : m > n /\ OfRsvp(inbox[m], i, u) /\ RsvpRight(inbox[m], u)
    \/ RsvpTold(i, u)

(* An event that is no longer right is followed by one that is.             *)
BodiesMend == \A n \in 1..Len(inbox), i \in Items :
    OfBody(inbox[n], i) => BodyRight(inbox[n]) \/ BodyComing(i, n)
RsvpsMend == \A n \in 1..Len(inbox), i \in Items, u \in Users :
    OfRsvp(inbox[n], i, u) => RsvpRight(inbox[n], u) \/ RsvpComing(i, u, n)

(* What c shows after n more events is right, or will be mended.            *)
BodyShown(c, i, n) ==
    \/ c[i] = Absent /\ row[i].status # "live"
    \/ c[i] # Absent /\ row[i].status = "live" /\ c[i].val = row[i].entry.val
    \/ BodyComing(i, n)
RsvpShown(c, i, u, n) ==
    \/ row[i].status # "live"
    \/ c[i] # Absent /\ c[i].rsvp[u] = row[i].entry.rsvp[u]
    \/ RsvpComing(i, u, n)
ShowsBodies(c, n) == \A i \in Items : BodyShown(c, i, n)
ShowsRsvps(c, n) == \A i \in Items, u \in Users : RsvpShown(c, i, u, n)

CacheMends == cache # NotLoaded => ShowsBodies(cache, 0) /\ ShowsRsvps(cache, 0)
LoadMends(l) ==
    /\ load[l].pc \in {"half", "read"} => ShowsBodies(load[l].got, 0)
    /\ load[l].pc = "read" => ShowsRsvps(load[l].got, 0)

Mends ==
    /\ InFlightRight /\ BodiesMend /\ RsvpsMend
    /\ CacheMends /\ \A l \in Loads : LoadMends(l)

MendInv == Inv /\ OpenLive /\ (marks = {} => Mends)

(* Being told of a session that is there includes its answers.              *)
LEMMA BothComing ==
    ASSUME Inv, InFlightRight, RsvpsMend, NEW i \in Items, NEW u \in Users, NEW n \in Nat,
           row[i].status = "live", BodyComing(i, n)
    PROVE  RsvpComing(i, u, n)
  <1>1. ASSUME NEW m \in 1..Len(inbox), m > n, OfBody(inbox[m], i), BodyRight(inbox[m])
        PROVE  RsvpComing(i, u, n)
    <2>1. inbox[m] \in Message
      BY InboxType
    <2>2. OfRsvp(inbox[m], i, u)
      BY <1>1, <2>1 DEF OfBody, OfRsvp, BodyRight, Message, Operations
    <2>3. RsvpRight(inbox[m], u) \/ RsvpComing(i, u, m)
      BY <2>2 DEF RsvpsMend
    <2>4. \A k \in 1..Len(inbox) : k > m => k > n
      BY <1>1 DEF Inv, TypeOK
    <2> QED
      BY <1>1, <2>2, <2>3, <2>4 DEF RsvpComing
  <1>2. ASSUME NEW r \in Requests, job[r].pc = "committed", OfBody(job[r], i)
        PROVE  RsvpComing(i, u, n)
    <2>1. job[r] \in Job /\ Right(job[r])
      BY <1>2 DEF Inv, TypeOK, InFlightRight, Untold
    <2>2. OfRsvp(job[r], i, u)
      BY <1>2, <2>1 DEF OfBody, OfRsvp, Right, RightFor, Job, Operations
    <2> QED
      BY <1>2, <2>2 DEF RsvpComing, RsvpTold
  <1> QED
    BY <1>1, <1>2 DEF BodyComing, BodyTold

(* A step that changes no event: what it changes in a row is about to be    *)
(* told, and nothing else is lost.                                          *)
SameBody(i) == row'[i].status = row[i].status /\ row'[i].entry.val = row[i].entry.val
SameRsvp(i, u) ==
    /\ row'[i].entry.rsvp[u] = row[i].entry.rsvp[u]
    /\ row'[i].status = "live" => row[i].status = "live"

Telling ==
    /\ \A i \in Items : (BodyTold(i) => BodyTold(i)') /\ (SameBody(i) \/ BodyTold(i)')
    /\ \A i \in Items, u \in Users :
          (RsvpTold(i, u) => RsvpTold(i, u)') /\ (SameRsvp(i, u) \/ RsvpTold(i, u)')

LEMMA TellingMends ==
    ASSUME Inv, Mends, Telling, UNCHANGED inbox
    PROVE  /\ BodiesMend' /\ RsvpsMend'
           /\ \A c : ShowsBodies(c, 0) => ShowsBodies(c, 0)'
           /\ \A c : ShowsRsvps(c, 0) => ShowsRsvps(c, 0)'
  <1>0. \A m \in 1..Len(inbox) : inbox[m] \in Message
    BY InboxType
  <1>1. ASSUME NEW m \in 1..Len(inbox), NEW i \in Items, OfBody(inbox[m], i), BodyRight(inbox[m])
        PROVE  BodyRight(inbox[m])' \/ BodyTold(i)'
    BY <1>1 DEF Telling, SameBody, OfBody, BodyRight
  <1>2. ASSUME NEW m \in 1..Len(inbox), NEW i \in Items, NEW u \in Users,
               OfRsvp(inbox[m], i, u), RsvpRight(inbox[m], u)
        PROVE  RsvpRight(inbox[m], u)' \/ RsvpTold(i, u)'
    BY <1>2 DEF Telling, SameRsvp, OfRsvp, RsvpRight
  <1>3. \A i \in Items, n \in Nat : BodyComing(i, n) => BodyComing(i, n)'
    BY <1>1 DEF Telling, BodyComing, OfBody
  <1>4. \A i \in Items, u \in Users, n \in Nat : RsvpComing(i, u, n) => RsvpComing(i, u, n)'
    BY <1>2 DEF Telling, RsvpComing, OfRsvp
  <1>5. BodiesMend'
    <2> SUFFICES ASSUME NEW n \in 1..Len(inbox), NEW i \in Items, OfBody(inbox[n], i)
                 PROVE  BodyRight(inbox[n])' \/ BodyComing(i, n)'
      BY DEF BodiesMend, OfBody
    <2>1. BodyRight(inbox[n]) \/ BodyComing(i, n)
      BY DEF Mends, BodiesMend
    <2>2. n \in Nat /\ (BodyTold(i)' => BodyComing(i, n)')
      BY DEF BodyComing
    <2> QED
      BY <1>1, <1>3, <2>1, <2>2
  <1>6. RsvpsMend'
    <2> SUFFICES ASSUME NEW n \in 1..Len(inbox), NEW i \in Items, NEW u \in Users,
                        OfRsvp(inbox[n], i, u)
                 PROVE  RsvpRight(inbox[n], u)' \/ RsvpComing(i, u, n)'
      BY DEF RsvpsMend, OfRsvp
    <2>1. RsvpRight(inbox[n], u) \/ RsvpComing(i, u, n)
      BY DEF Mends, RsvpsMend
    <2>2. n \in Nat /\ (RsvpTold(i, u)' => RsvpComing(i, u, n)')
      BY DEF RsvpComing
    <2> QED
      BY <1>2, <1>4, <2>1, <2>2
  <1>7. ASSUME NEW c, ShowsBodies(c, 0) PROVE ShowsBodies(c, 0)'
    <2> SUFFICES ASSUME NEW i \in Items PROVE BodyShown(c, i, 0)'
      BY DEF ShowsBodies
    <2>1. BodyShown(c, i, 0)
      BY <1>7 DEF ShowsBodies
    <2>2. SameBody(i) \/ BodyComing(i, 0)'
      BY DEF Telling, BodyComing
    <2>3. BodyComing(i, 0) => BodyComing(i, 0)'
      BY <1>3
    <2> QED
      BY <2>1, <2>2, <2>3 DEF BodyShown, SameBody
  <1>8. ASSUME NEW c, ShowsRsvps(c, 0) PROVE ShowsRsvps(c, 0)'
    <2> SUFFICES ASSUME NEW i \in Items, NEW u \in Users PROVE RsvpShown(c, i, u, 0)'
      BY DEF ShowsRsvps
    <2>1. RsvpShown(c, i, u, 0)
      BY <1>8 DEF ShowsRsvps
    <2>2. SameRsvp(i, u) \/ RsvpComing(i, u, 0)'
      BY DEF Telling, RsvpComing
    <2>3. RsvpComing(i, u, 0) => RsvpComing(i, u, 0)'
      BY <1>4
    <2> QED
      BY <2>1, <2>2, <2>3 DEF RsvpShown, SameRsvp
  <1> QED
    BY <1>5, <1>6, <1>7, <1>8

LEMMA JobsTelling ==
    ASSUME UNCHANGED row,
           \A s \in Requests : job[s].pc = "committed" =>
              /\ job'[s].pc = "committed" /\ job'[s].op = job[s].op
              /\ job'[s].item = job[s].item /\ job'[s].user = job[s].user
    PROVE  Telling
  BY DEF Telling, SameBody, SameRsvp, BodyTold, RsvpTold, OfBody, OfRsvp

(* What the client has, and what its reloads have read, is mended as before. *)
LEMMA ShownKept ==
    ASSUME Mends, UNCHANGED <<cache, load>>,
           \A c : /\ ShowsBodies(c, 0) => ShowsBodies(c, 0)'
                  /\ ShowsRsvps(c, 0) => ShowsRsvps(c, 0)'
    PROVE  CacheMends' /\ \A l \in Loads : LoadMends(l)'
  <1>1. CacheMends'
    <2>1. PICK c : c = cache
      OBVIOUS
    <2>2. cache # NotLoaded => ShowsBodies(c, 0) /\ ShowsRsvps(c, 0)
      BY <2>1 DEF Mends, CacheMends
    <2>3. cache # NotLoaded => ShowsBodies(c, 0)' /\ ShowsRsvps(c, 0)'
      BY <2>2
    <2> QED
      BY <2>1, <2>3 DEF CacheMends
  <1>2. ASSUME NEW l \in Loads PROVE LoadMends(l)'
    <2>1. PICK c : c = load[l].got
      OBVIOUS
    <2>2. /\ load[l].pc \in {"half", "read"} => ShowsBodies(c, 0)
          /\ load[l].pc = "read" => ShowsRsvps(c, 0)
      BY <2>1 DEF Mends, LoadMends
    <2>3. /\ load[l].pc \in {"half", "read"} => ShowsBodies(c, 0)'
          /\ load[l].pc = "read" => ShowsRsvps(c, 0)'
      BY <2>2
    <2> QED
      BY <2>1, <2>3 DEF LoadMends
  <1> QED
    BY <1>1, <1>2

LEMMA ShownMends ==
    ASSUME Inv, Mends, Telling, UNCHANGED <<inbox, cache, load>>
    PROVE  CacheMends' /\ \A l \in Loads : LoadMends(l)'
  BY TellingMends, ShownKept

(* A request moves on without a word to the client. *)
LEMMA JobsMend ==
    ASSUME Inv, Mends, UNCHANGED <<row, inbox, cache, load>>,
           \A s \in Requests : job[s].pc = "committed" =>
              /\ job'[s].pc = "committed" /\ job'[s].op = job[s].op
              /\ job'[s].item = job[s].item /\ job'[s].user = job[s].user,
           InFlightRight'
    PROVE  Mends'
  BY JobsTelling, TellingMends, ShownMends DEF Mends

(* Of the others, nothing changes for one that stays as it is. *)
LEMMA OthersRight ==
    ASSUME Inv, InFlightRight, UNCHANGED row, NEW r \in Requests,
           \A s \in Requests \ {r} : job'[s] = job[s],
           Untold(job[r])' => Right(job[r])'
    PROVE  InFlightRight'
  <1> SUFFICES ASSUME NEW s \in Requests, Untold(job[s])' PROVE Right(job[s])'
    BY DEF InFlightRight
  <1>1. CASE s = r
    BY <1>1
  <1>2. CASE s # r
    <2>1. job'[s] = job[s] /\ Right(job[s])
      BY <1>2 DEF InFlightRight, Untold
    <2> QED
      BY <2>1 DEF Right
  <1> QED
    BY <1>1, <1>2

LEMMA OpenStays ==
    ASSUME OpenLive, UNCHANGED row,
           \A s \in Requests : job'[s].pc = "written" =>
              job[s].pc = "written" /\ job'[s].op = job[s].op /\ job'[s].item = job[s].item
    PROVE  OpenLive'
  BY DEF OpenLive

LEMMA SendMends ==
    ASSUME Inv, OpenLive, NEW r \in Requests, NEW op \in Operations, NEW i \in Items,
           NEW u \in Users, NEW own \in BOOLEAN, Send(r, op, i, u, own)
    PROVE  OpenLive' /\ (Mends => Mends')
  <1>1. /\ job[r].pc = "none" /\ job'[r].pc = "sent"
        /\ \A s \in Requests \ {r} : job'[s] = job[s]
        /\ UNCHANGED <<row, inbox, cache, load, marks>>
    BY DEF Send, Inv, TypeOK
  <1>2. OpenLive'
    BY <1>1, OpenStays
  <1>3. Mends => InFlightRight'
    <2>1. ~Untold(job[r])'
      BY <1>1 DEF Untold
    <2> QED
      BY <1>1, <2>1, OthersRight DEF Mends
  <1> QED
    BY <1>1, <1>2, <1>3, JobsMend

LEMMA EndedMends ==
    ASSUME Inv, OpenLive, NEW r \in Requests, job' = [job EXCEPT ![r] = IdleJob],
           UNCHANGED row
    PROVE  OpenLive' /\ (Mends => InFlightRight')
  <1>1. job'[r].pc = "none" /\ ~job'[r].own /\ \A s \in Requests \ {r} : job'[s] = job[s]
    BY IdleJobType DEF Inv, TypeOK, IdleJob
  <1>2. OpenLive'
    BY <1>1, OpenStays
  <1>3. ~Untold(job[r])'
    BY <1>1 DEF Untold
  <1> QED
    BY <1>1, <1>2, <1>3, OthersRight DEF Mends

LEMMA FailMends ==
    ASSUME Inv, OpenLive, NEW r \in Requests, Fail(r) PROVE OpenLive' /\ (Mends => Mends')
  <1>1. /\ job[r].pc \in {"sent", "written"} /\ job' = [job EXCEPT ![r] = IdleJob]
        /\ UNCHANGED <<row, inbox, cache, load>>
    BY DEF Fail
  <1>2. \A s \in Requests \ {r} : job'[s] = job[s]
    BY <1>1 DEF Inv, TypeOK
  <1>3. \A s \in Requests : job[s].pc = "committed" => job'[s] = job[s]
    BY <1>1, <1>2
  <1> QED
    BY <1>1, <1>3, EndedMends, JobsMend

LEMMA GiveUpMends ==
    ASSUME Inv, OpenLive, NEW r \in Requests, GiveUp(r) PROVE OpenLive' /\ (Mends => Mends')
  <1> DEFINE j == job[r]
  <1>1. /\ j \in Job /\ j.own /\ UNCHANGED <<row, inbox, cache, load>>
        /\ job' = [job EXCEPT ![r] = IF j.pc = "published" THEN IdleJob
                                     ELSE [j EXCEPT !.own = FALSE]]
    BY DEF GiveUp, Inv, TypeOK
  <1>2. \A s \in Requests \ {r} : job'[s] = job[s]
    BY <1>1 DEF Inv, TypeOK
  <1>3. CASE j.pc = "published"
    <2>1. job' = [job EXCEPT ![r] = IdleJob]
      BY <1>1, <1>3
    <2>2. \A s \in Requests : job[s].pc = "committed" => job'[s] = job[s]
      BY <1>2, <1>3
    <2> QED
      BY <1>1, <2>1, <2>2, EndedMends, JobsMend
  <1>4. CASE j.pc # "published"
    <2> DEFINE b == FALSE
               k == [j EXCEPT !.own = b]
    <2>0. b \in BOOLEAN /\ ~b /\ job'[r] = k
      BY <1>1, <1>4 DEF Inv, TypeOK
    <2> HIDE DEF b, j
    <2>1. k = [pc |-> j.pc, op |-> j.op, item |-> j.item, user |-> j.user, own |-> b,
               writes |-> j.writes, entry |-> j.entry]
      BY <1>1, <2>0, JobLeft
    <2>2. /\ k.pc = j.pc /\ k.op = j.op /\ k.item = j.item /\ k.user = j.user
          /\ k.writes = j.writes /\ k.entry = j.entry /\ ~k.own
      BY <2>0, <2>1
    <2> HIDE DEF k
    <2> USE DEF j
    <2>3. OpenLive'
      BY <1>1, <1>2, <2>0, <2>2, OpenStays
    <2>4. Mends /\ Untold(job[r])' => Right(job[r])'
      BY <1>1, <2>0, <2>2 DEF Mends, InFlightRight, Untold, Right, RightFor
    <2>5. Mends => InFlightRight'
      BY <1>1, <1>2, <2>4, OthersRight DEF Mends
    <2>6. \A s \in Requests : job[s].pc = "committed" =>
             /\ job'[s].pc = "committed" /\ job'[s].op = job[s].op
             /\ job'[s].item = job[s].item /\ job'[s].user = job[s].user
      BY <1>2, <2>0, <2>2
    <2> QED
      BY <1>1, <2>3, <2>5, <2>6, JobsMend
  <1> QED
    BY <1>3, <1>4

LEMMA WriteMends ==
    ASSUME Inv, Inv', OpenLive, NEW r \in Requests, NEW response \in Responses,
           NEW writes \in BOOLEAN, Write(r, response, writes)
    PROVE  OpenLive' /\ (Mends => Mends')
  <1> DEFINE j == job[r]
             old == row[j.item]
             e == Written(j, response, writes)
  <1>1. /\ j \in Job /\ j.pc = "sent" /\ j.item \in Items /\ old.entry \in Entry
        /\ old.status = IF j.op = "create" THEN "unused" ELSE "live"
        /\ j.op \in {"create", "delete"} => writes
        /\ j.op = "rsvp" => writes = (old.entry.rsvp[j.user] # response)
        /\ j.op = "update" /\ writes => old.entry.val < MaxVal
        /\ j.op = "create" => old.entry = NewEntry
    BY DEF Write, Inv, TypeOK, Job, UnusedIsNew
  <1>2. /\ job' = [job EXCEPT ![r] = [j EXCEPT !.pc = "written", !.writes = writes, !.entry = e]]
        /\ UNCHANGED <<row, inbox, cache, load, marks>>
    BY DEF Write
  <1> HIDE DEF e, j
  <1>3. /\ job'[r] = [pc |-> "written", op |-> j.op, item |-> j.item, user |-> j.user,
                      own |-> j.own, writes |-> writes, entry |-> e]
        /\ \A s \in Requests \ {r} : job'[s] = job[s]
    BY <1>1, <1>2, JobWritten DEF Inv, TypeOK
  <1> USE DEF j
  <1>4. OpenLive'
    BY <1>1, <1>2, <1>3 DEF OpenLive
  <1>5. Right(job[r])'
    <2>1. /\ j.op \in {"create", "update"} => e.rsvp = old.entry.rsvp
          /\ j.op = "update" /\ ~writes => e.val = old.entry.val
          /\ j.op = "rsvp" /\ ~writes => e.rsvp[j.user] = old.entry.rsvp[j.user]
      <3>1. CASE j.op = "create"
        BY <3>1, <1>1 DEF Written, e
      <3>2. CASE j.op = "update"
        BY <3>2, <1>1 DEF Written, Entry, e
      <3>3. CASE j.op = "rsvp"
        <4>1. e = [NewEntry EXCEPT !.rsvp[j.user] = response]
          BY <3>3 DEF Written, e
        <4>2. e.rsvp[j.user] = response
          BY <4>1, <1>1, NewEntryType DEF NewEntry, Rsvps, NoRsvps, Job
        <4> QED
          BY <3>3, <4>2, <1>1
      <3>4. CASE j.op = "delete"
        BY <3>4
      <3> QED
        BY <3>1, <3>2, <3>3, <3>4, <1>1 DEF Job, Operations
    <2> QED
      BY <1>1, <1>2, <1>3, <2>1 DEF Right, RightFor
  <1>6. Mends => InFlightRight'
    BY <1>2, <1>3, <1>5, OthersRight DEF Mends
  <1>7. \A s \in Requests : job[s].pc = "committed" => job'[s] = job[s]
    BY <1>1, <1>3
  <1> QED
    BY <1>2, <1>4, <1>6, <1>7, JobsMend

---------------------------------------------------------------------------
(* A commit that overtakes nobody. *)
LEMMA CommitRow ==
    ASSUME Inv, NEW r \in Requests, Commit(r)
    PROVE  /\ job[r].writes => Moved(job[r], row[job[r].item], row'[job[r].item])
           /\ ~job[r].writes => row' = row
           /\ \A i \in Items : i # job[r].item => row'[i] = row[i]
           /\ job'[r] = [pc |-> "committed", op |-> job[r].op, item |-> job[r].item,
                         user |-> job[r].user, own |-> job[r].own,
                         writes |-> job[r].writes, entry |-> job[r].entry]
           /\ \A s \in Requests \ {r} : job'[s] = job[s]
           /\ UNCHANGED <<inbox, cache, load>>
  <1> DEFINE j == job[r]
             new == row'[j.item]
  <1>1. j \in Job /\ j.item \in Items /\ row \in [Items -> Row]
    BY DEF Inv, TypeOK, Job, Row
  <1>2. /\ row' = [row EXCEPT ![j.item] = new]
        /\ IF j.writes THEN CommitOn(j, row[j.item], new) ELSE row' = row
    <2>1. CASE j.writes
      BY <1>1, <2>1 DEF Commit, CommitOn, Job, Operations
    <2>2. CASE ~j.writes
      BY <1>1, <2>2 DEF Commit
    <2> QED
      BY <2>1, <2>2
  <1>3. /\ job' = [job EXCEPT ![r] = [j EXCEPT !.pc = "committed"]]
        /\ UNCHANGED <<inbox, cache, load>>
    BY DEF Commit
  <1> HIDE DEF j
  <1>4. /\ job'[r] = [pc |-> "committed", op |-> j.op, item |-> j.item, user |-> j.user,
                      own |-> j.own, writes |-> j.writes, entry |-> j.entry]
        /\ \A s \in Requests \ {r} : job'[s] = job[s]
    BY <1>1, <1>3, JobMoved DEF Inv, TypeOK
  <1>5. j.writes => Moved(j, row[j.item], row'[j.item])
    BY <1>1, <1>2, RowMoved
  <1>6. \A i \in Items : i # j.item => row'[i] = row[i]
    BY <1>1, <1>2
  <1>7. ~j.writes => row' = row
    BY <1>2
  <1> QED
    BY <1>3, <1>4, <1>5, <1>6, <1>7 DEF j

LEMMA CommitMends ==
    ASSUME Inv, OpenLive, NEW r \in Requests, Commit(r)
    PROVE  OpenLive' /\ (Mends /\ marks' = {} => Mends')
  <1> DEFINE j == job[r]
             old == row[j.item]
             new == row'[j.item]
  <1>1. /\ j \in Job /\ j.pc = "written" /\ j.item \in Items /\ j.user \in Users
        /\ FitsRow(old, j) /\ (j.op # "create" => old.status = "live")
        /\ old \in Row /\ old.entry.rsvp \in Rsvps
        /\ old.status = "unused" => old.entry = NewEntry
    BY DEF Commit, Inv, TypeOK, Job, Row, Entry, OpenFit, Fits, OpenLive, UnusedIsNew
  <1>2. /\ j.writes => Moved(j, old, new)
        /\ ~j.writes => row' = row
        /\ \A i \in Items : i # j.item => row'[i] = row[i]
        /\ job'[r] = [pc |-> "committed", op |-> j.op, item |-> j.item, user |-> j.user,
                      own |-> j.own, writes |-> j.writes, entry |-> j.entry]
        /\ \A s \in Requests \ {r} : job'[s] = job[s]
        /\ UNCHANGED <<inbox, cache, load>>
    BY CommitRow
  <1>3. /\ ~j.writes => j.op \in {"update", "rsvp"} /\ new = old
        /\ j.op = "create" => old.status = "unused"
    BY <1>1, <1>2 DEF FitsRow, Job, Operations
  <1>4. \A s \in Requests \ {r} : Apart(job[s], j) /\ Apart(j, job[s])
    BY DEF Inv, LocksKept
  <1>5. OpenLive'
    <2> SUFFICES ASSUME NEW s \in Requests, job'[s].pc = "written", job'[s].op # "create"
                 PROVE  row'[job'[s].item].status = "live"
      BY DEF OpenLive
    <2>1. s # r /\ job'[s] = job[s]
      BY <1>2
    <2>2. row[job[s].item].status = "live" /\ job[s].item \in Items
      BY <2>1 DEF OpenLive, Inv, TypeOK, Job
    <2>3. CASE job[s].item = j.item
      <3>1. j.op \in {"update", "rsvp"}
        BY <1>1, <1>3, <1>4, <2>1, <2>2, <2>3 DEF Apart, Job, Operations
      <3>2. new.status = old.status
        BY <1>2, <1>3, <3>1 DEF Moved
      <3> QED
        BY <2>1, <2>2, <2>3, <3>2
    <2> QED
      BY <1>2, <2>1, <2>2, <2>3
  <1>6. Telling
    <2>1. /\ j.op # "rsvp" => \A i \in Items : i = j.item => BodyTold(i)'
          /\ \A i \in Items, u \in Users : OfRsvp(j, i, u) => RsvpTold(i, u)'
      BY <1>2 DEF BodyTold, RsvpTold, OfBody, OfRsvp
    <2>2. ASSUME NEW i \in Items PROVE (BodyTold(i) => BodyTold(i)') /\ (SameBody(i) \/ BodyTold(i)')
      <3>1. BodyTold(i) => BodyTold(i)'
        BY <1>1, <1>2 DEF BodyTold
      <3>2. CASE i # j.item \/ ~j.writes
        BY <1>2, <3>1, <3>2 DEF SameBody
      <3>3. CASE i = j.item /\ j.writes
        BY <1>2, <2>1, <3>1, <3>3 DEF SameBody, Moved
      <3> QED
        BY <3>2, <3>3
    <2>3. ASSUME NEW i \in Items, NEW u \in Users
          PROVE  (RsvpTold(i, u) => RsvpTold(i, u)') /\ (SameRsvp(i, u) \/ RsvpTold(i, u)')
      <3>1. RsvpTold(i, u) => RsvpTold(i, u)'
        BY <1>1, <1>2 DEF RsvpTold
      <3>2. CASE i # j.item \/ ~j.writes
        BY <1>2, <3>1, <3>2 DEF SameRsvp
      <3>3. CASE i = j.item /\ j.writes /\ ~OfRsvp(j, i, u)
        <4>1. j.op = "delete" \/ (j.op = "rsvp" /\ u # j.user)
          BY <3>3, <1>1 DEF OfRsvp, Job, Operations
        <4> QED
          BY <1>1, <1>2, <3>1, <3>3, <4>1 DEF SameRsvp, Moved, Rsvps
      <3>4. CASE OfRsvp(j, i, u)
        BY <2>1, <3>1, <3>4
      <3> QED
        BY <3>2, <3>3, <3>4
    <2> QED
      BY <2>2, <2>3 DEF Telling
  <1>7. ASSUME Mends, marks' = {} PROVE InFlightRight'
    <2>1. j.writes => \A s \in Requests \ {r} : Untold(job[s]) => ~Overtaken(job[s], j)
      BY <1>7 DEF Commit
    <2> SUFFICES ASSUME NEW s \in Requests, Untold(job'[s])
                 PROVE  RightFor(row'[job'[s].item], job'[s])
      BY DEF InFlightRight, Right, Untold
    <2>2. CASE s = r
      <3>1. RightFor(old, j)
        BY <1>1, <1>7 DEF Mends, InFlightRight, Untold, Right
      <3>2. CASE ~j.writes
        BY <1>1, <1>2, <1>3, <2>2, <3>1, <3>2 DEF RightFor
      <3>3. CASE j.writes
        <4>1. CASE j.op = "create"
          BY <1>1, <1>2, <1>3, <2>2, <3>3, <4>1 DEF RightFor, Moved, FitsRow
        <4>2. CASE j.op = "update"
          <5>1. /\ new.status = "live" /\ new.entry.val = j.entry.val
                /\ new.entry.rsvp = old.entry.rsvp
            BY <1>1, <1>2, <3>3, <4>2 DEF Moved
          <5>2. \A u \in Users : j.entry.rsvp[u] = new.entry.rsvp[u]
            BY <3>1, <4>2, <5>1 DEF RightFor
          <5>3. job'[r].op = "update" /\ job'[r].item = j.item /\ job'[r].entry = j.entry
            BY <1>2, <4>2
          <5> HIDE DEF j, new
          <5> QED
            BY <2>2, <5>1, <5>2, <5>3 DEF RightFor, new
        <4>3. CASE j.op = "rsvp"
          BY <1>1, <1>2, <2>2, <3>3, <4>3 DEF RightFor, Moved, Rsvps
        <4>4. CASE j.op = "delete"
          BY <1>2, <2>2, <3>3, <4>4 DEF RightFor, Moved
        <4> QED
          BY <4>1, <4>2, <4>3, <4>4, <1>1 DEF Job, Operations
      <3> QED
        BY <3>2, <3>3
    <2>3. CASE s # r
      <3> DEFINE k == job[s]
      <3>1. /\ job'[s] = k /\ k \in Job /\ Untold(k) /\ RightFor(row[k.item], k) /\ k.item \in Items
        BY <1>2, <1>7, <2>3 DEF Mends, InFlightRight, Right, Inv, TypeOK, Job, Untold
      <3>2. CASE k.item # j.item \/ ~j.writes
        BY <1>2, <3>1, <3>2
      <3>3. CASE k.item = j.item /\ j.writes
        <4>1. k.op = "delete" \/ (k.op = "rsvp" /\ (j.op = "rsvp" => k.user # j.user))
          BY <2>1, <2>3, <3>1, <3>3 DEF Overtaken, Job, Operations
        <4>2. CASE k.op = "delete"
          <5>1. CASE k.pc = "written"
            BY <3>1, <4>2, <5>1 DEF RightFor
          <5>2. CASE k.pc # "written"
            <6>1. old.status = "deleted"
              BY <3>1, <3>3, <4>2, <5>2 DEF RightFor
            <6> QED
              BY <1>1, <6>1 DEF FitsRow
          <5> QED
            BY <5>1, <5>2
        <4>3. CASE k.op = "rsvp"
          <5>1. j.op # "create"
            <6>1. k.pc = "written" => old.status # "unused"
              BY <3>1, <3>3, <4>3 DEF Inv, OpenFit, Fits, FitsRow
            <6>2. k.pc \in {"committed", "published"} => old.status # "unused"
              BY <3>1, <3>3 DEF Inv, AnswersBacked, Backed, BackedBy
            <6>3. k.pc \in {"written", "committed", "published"}
              BY <3>1 DEF Untold
            <6> QED
              BY <6>1, <6>2, <6>3, <1>3
          <5>2. new.entry.rsvp[k.user] = old.entry.rsvp[k.user]
            BY <1>1, <1>2, <3>1, <3>3, <4>1, <4>3, <5>1 DEF Moved, Rsvps, Job, Operations
          <5> QED
            BY <3>1, <3>3, <4>3, <5>2 DEF RightFor
        <4> QED
          BY <4>1, <4>2, <4>3
      <3> QED
        BY <3>2, <3>3
    <2> QED
      BY <2>2, <2>3
  <1>8. ASSUME Mends, marks' = {} PROVE Mends'
    BY <1>2, <1>6, <1>7, <1>8, TellingMends, ShownMends DEF Mends
  <1> QED
    BY <1>5, <1>8

---------------------------------------------------------------------------
(* publish_after_commit: the event takes the place of the request.          *)
LEMMA PublishedMends ==
    ASSUME Inv, OpenLive, NEW r \in Requests, MayPublish(r), Published(r), UNCHANGED row
    PROVE  /\ OpenLive' /\ (Mends => InFlightRight')
           /\ \A s \in Requests \ {r} : job'[s] = job[s]
  <1> DEFINE j == job[r]
  <1>1. /\ \A s \in Requests \ {r} : job'[s] = job[s]
        /\ job'[r].pc \in {"none", "published"}
    BY PublishedFacts
  <1>2. OpenLive'
    BY <1>1, OpenStays
  <1>3. j \in Job /\ j.pc = "committed"
        /\ job' = [job EXCEPT ![r] = IF j.own THEN [j EXCEPT !.pc = "published"] ELSE IdleJob]
    BY DEF Published, MayPublish, Inv, TypeOK
  <1>4. ASSUME Mends, Untold(job[r])' PROVE Right(job[r])'
    <2>1. j.own
      BY <1>3, <1>4, IdleJobType DEF Untold, IdleJob, Inv, TypeOK
    <2> HIDE DEF j
    <2>2. job'[r] = [pc |-> "published", op |-> j.op, item |-> j.item, user |-> j.user,
                     own |-> j.own, writes |-> j.writes, entry |-> j.entry]
      BY <1>3, <2>1, JobMoved DEF Inv, TypeOK
    <2>3. RightFor(row[j.item], j)
      BY <1>3, <1>4 DEF Mends, InFlightRight, Untold, Right, j
    <2> QED
      BY <1>3, <2>2, <2>3 DEF Right, RightFor
  <1>5. Mends => InFlightRight'
    BY <1>1, <1>4, OthersRight DEF Mends
  <1> QED
    BY <1>1, <1>2, <1>5

LEMMA UnheardMends ==
    ASSUME Inv, OpenLive, NEW r \in Requests, Unheard(r) PROVE OpenLive' /\ marks' # {}
  BY PublishedMends DEF Unheard

LEMMA PublishMends ==
    ASSUME Inv, OpenLive, NEW r \in Requests, Publish(r) PROVE OpenLive' /\ (Mends => Mends')
  <1> DEFINE j == job[r]
             e == [op |-> j.op, item |-> j.item, user |-> j.user, entry |-> j.entry]
             N == Len(inbox)
  <1>1. /\ MayPublish(r) /\ Published(r) /\ inbox' = Append(inbox, e)
        /\ UNCHANGED <<row, cache, load, marks>>
    BY DEF Publish
  <1>2. /\ OpenLive' /\ (Mends => InFlightRight')
        /\ \A s \in Requests \ {r} : job'[s] = job[s]
    BY <1>1, PublishedMends
  <1>3. /\ j \in Job /\ j.pc = "committed" /\ e.op = j.op /\ e.item = j.item /\ e.user = j.user
        /\ e.entry = j.entry /\ job'[r].pc # "committed"
    BY <1>1, PublishedFacts DEF MayPublish, Inv, TypeOK
  <1> SUFFICES ASSUME Mends PROVE Mends'
    BY <1>2
  <1>4. RightFor(row[j.item], j)
    BY <1>3 DEF Mends, InFlightRight, Untold, Right
  <1>5. BodyRight(e) /\ \A i \in Items, u \in Users : OfRsvp(e, i, u) => RsvpRight(e, u)
    BY <1>3, <1>4 DEF BodyRight, OfRsvp, RsvpRight, RightFor
  <1>6. /\ \A i \in Items : OfBody(j, i) => OfBody(e, i)
        /\ \A i \in Items, u \in Users : OfRsvp(j, i, u) => OfRsvp(e, i, u)
    BY <1>3 DEF OfBody, OfRsvp
  <1> HIDE DEF e, j
  <1>7. /\ N \in Nat /\ Len(inbox') = N + 1 /\ inbox'[N + 1] = e
        /\ \A m \in 1..N : inbox'[m] = inbox[m]
    BY <1>1 DEF Inv, TypeOK
  <1> HIDE DEF N
  <1>8. /\ \A m \in 1..Len(inbox') : m \in 1..N \/ m = N + 1
        /\ 1..N \subseteq 1..Len(inbox') /\ N + 1 \in 1..Len(inbox')
        /\ \A n \in 0..N : N + 1 > n
    BY <1>7
  <1>9. \A n \in 0..N, i \in Items : BodyComing(i, n) => BodyComing(i, n)'
    <2> SUFFICES ASSUME NEW n \in 0..N, NEW i \in Items, BodyComing(i, n)
                 PROVE  BodyComing(i, n)'
      OBVIOUS
    <2>1. CASE \E m \in 1..N : m > n /\ OfBody(inbox[m], i) /\ BodyRight(inbox[m])
      BY <2>1, <1>1, <1>7, <1>8 DEF BodyComing, OfBody, BodyRight
    <2>2. CASE BodyTold(i)
      <3>1. PICK s \in Requests : job[s].pc = "committed" /\ OfBody(job[s], i)
        BY <2>2 DEF BodyTold
      <3>2. CASE s # r
        BY <1>2, <3>1, <3>2 DEF BodyComing, BodyTold, OfBody
      <3>3. CASE s = r
        <4>1. OfBody(e, i) /\ N + 1 \in 1..Len(inbox') /\ N + 1 > n
          BY <1>6, <1>8, <3>1, <3>3 DEF j
        <4> QED
          BY <4>1, <1>1, <1>5, <1>7 DEF BodyComing, OfBody, BodyRight
      <3> QED
        BY <3>2, <3>3
    <2> QED
      BY <2>1, <2>2 DEF BodyComing, N
  <1>10. \A n \in 0..N, i \in Items, u \in Users : RsvpComing(i, u, n) => RsvpComing(i, u, n)'
    <2> SUFFICES ASSUME NEW n \in 0..N, NEW i \in Items, NEW u \in Users, RsvpComing(i, u, n)
                 PROVE  RsvpComing(i, u, n)'
      OBVIOUS
    <2>1. CASE \E m \in 1..N : m > n /\ OfRsvp(inbox[m], i, u) /\ RsvpRight(inbox[m], u)
      BY <2>1, <1>1, <1>7, <1>8 DEF RsvpComing, OfRsvp, RsvpRight
    <2>2. CASE RsvpTold(i, u)
      <3>1. PICK s \in Requests : job[s].pc = "committed" /\ OfRsvp(job[s], i, u)
        BY <2>2 DEF RsvpTold
      <3>2. CASE s # r
        BY <1>2, <3>1, <3>2 DEF RsvpComing, RsvpTold, OfRsvp
      <3>3. CASE s = r
        <4>1. OfRsvp(e, i, u) /\ N + 1 \in 1..Len(inbox') /\ N + 1 > n
          BY <1>6, <1>8, <3>1, <3>3 DEF j
        <4> QED
          BY <4>1, <1>1, <1>5, <1>7 DEF RsvpComing, OfRsvp, RsvpRight
      <3> QED
        BY <3>2, <3>3
    <2> QED
      BY <2>1, <2>2 DEF RsvpComing, N
  <1>11. BodiesMend'
    <2> SUFFICES ASSUME NEW n \in 1..Len(inbox'), NEW i \in Items, OfBody(inbox'[n], i)
                 PROVE  BodyRight(inbox[n])' \/ BodyComing(i, n)'
      BY DEF BodiesMend, OfBody
    <2>1. CASE n \in 1..N
      <3>1. OfBody(inbox[n], i) /\ inbox'[n] = inbox[n]
        BY <1>7, <2>1
      <3>2. BodyRight(inbox[n]) \/ BodyComing(i, n)
        BY <2>1, <3>1 DEF Mends, BodiesMend, N
      <3>3. BodyRight(inbox[n]) => BodyRight(inbox[n])'
        BY <1>1, <3>1 DEF BodyRight
      <3> QED
        BY <1>7, <1>9, <2>1, <3>2, <3>3
    <2>2. CASE n = N + 1
      BY <1>1, <1>5, <1>7, <2>2 DEF BodyRight
    <2> QED
      BY <1>8, <2>1, <2>2
  <1>12. RsvpsMend'
    <2> SUFFICES ASSUME NEW n \in 1..Len(inbox'), NEW i \in Items, NEW u \in Users,
                        OfRsvp(inbox'[n], i, u)
                 PROVE  RsvpRight(inbox[n], u)' \/ RsvpComing(i, u, n)'
      BY DEF RsvpsMend, OfRsvp
    <2>1. CASE n \in 1..N
      <3>1. OfRsvp(inbox[n], i, u) /\ inbox'[n] = inbox[n]
        BY <1>7, <2>1
      <3>2. RsvpRight(inbox[n], u) \/ RsvpComing(i, u, n)
        BY <2>1, <3>1 DEF Mends, RsvpsMend, N
      <3>3. RsvpRight(inbox[n], u) => RsvpRight(inbox[n], u)'
        BY <1>1, <3>1 DEF RsvpRight
      <3> QED
        BY <1>7, <1>10, <2>1, <3>2, <3>3
    <2>2. CASE n = N + 1
      BY <1>1, <1>5, <1>7, <2>2 DEF RsvpRight
    <2> QED
      BY <1>8, <2>1, <2>2
  <1>13. \A c : /\ ShowsBodies(c, 0) => ShowsBodies(c, 0)'
                /\ ShowsRsvps(c, 0) => ShowsRsvps(c, 0)'
    <2>1. \A c : ShowsBodies(c, 0) => ShowsBodies(c, 0)'
      BY <1>1, <1>7, <1>9 DEF ShowsBodies, BodyShown
    <2>2. \A c : ShowsRsvps(c, 0) => ShowsRsvps(c, 0)'
      BY <1>1, <1>7, <1>10 DEF ShowsRsvps, RsvpShown
    <2> QED
      BY <2>1, <2>2
  <1>14. CacheMends' /\ \A l \in Loads : LoadMends(l)'
    BY <1>1, <1>13, ShownKept
  <1> QED
    BY <1>2, <1>11, <1>12, <1>14 DEF Mends

---------------------------------------------------------------------------
(* News reach the client. *)
LEMMA AbsentIsNone == \A e \in Entry : e # Absent
  <1> SUFFICES ASSUME NEW e \in Entry PROVE e # Absent
    OBVIOUS
  <1>1. DOMAIN e = {"val", "rsvp"}
    BY DEF Entry
  <1>2. "absent" \in DOMAIN Absent
    BY DEF Absent
  <1> QED
    BY <1>1, <1>2

LEMMA AppliedFacts ==
    ASSUME NEW c \in Cache, NEW e, e.op \in Operations, e.item \in Items,
           e.user \in Users, e.entry \in Entry
    PROVE  /\ \A i \in Items : i # e.item => Applied(c, e)[i] = c[i]
           /\ e.op \in {"create", "update"} => Applied(c, e)[e.item] = e.entry
           /\ e.op = "delete" => Applied(c, e)[e.item] = Absent
           /\ e.op = "rsvp" /\ c[e.item] = Absent => Applied(c, e)[e.item] = Absent
           /\ e.op = "rsvp" /\ c[e.item] # Absent =>
                 /\ Applied(c, e)[e.item] # Absent
                 /\ Applied(c, e)[e.item].val = c[e.item].val
                 /\ Applied(c, e)[e.item].rsvp =
                       [c[e.item].rsvp EXCEPT ![e.user] = e.entry.rsvp[e.user]]
  <1>1. CASE e.op \in {"create", "update"}
    BY <1>1 DEF Applied, Upserted, Cache
  <1>2. CASE e.op = "delete"
    BY <1>2 DEF Applied, Removed, Cache
  <1>3. CASE e.op = "rsvp" /\ c[e.item] = Absent
    BY <1>3 DEF Applied, Merged
  <1>4. CASE e.op = "rsvp" /\ c[e.item] # Absent
    <2> DEFINE old == c[e.item]
               new == [val |-> old.val, rsvp |-> [old.rsvp EXCEPT ![e.user] = e.entry.rsvp[e.user]]]
    <2>1. old \in Entry
      BY <1>4 DEF Cache
    <2>2. [old EXCEPT !.rsvp[e.user] = e.entry.rsvp[e.user]] = new
      BY <2>1 DEF Entry
    <2>3. Applied(c, e) = [c EXCEPT ![e.item] = new]
      BY <1>4, <2>2 DEF Applied, Merged
    <2>4. new \in Entry
      BY <2>1 DEF Entry, Rsvps
    <2>5. new.val = old.val /\ new.rsvp = [old.rsvp EXCEPT ![e.user] = e.entry.rsvp[e.user]]
      OBVIOUS
    <2> HIDE DEF new
    <2> QED
      BY <1>4, <2>3, <2>4, <2>5, AbsentIsNone DEF Cache
  <1> QED
    BY <1>1, <1>2, <1>3, <1>4 DEF Operations

(* What is not right in the news will be mended, and so is what c shows then. *)
LEMMA AppliedShows ==
    ASSUME Inv, Mends, NEW c \in Cache, NEW n \in Nat, NEW e, e.op \in Operations,
           e.item \in Items, e.user \in Users, e.entry \in Entry,
           ShowsBodies(c, 0), ShowsRsvps(c, 0),
           \A i \in Items : /\ OfBody(e, i) => BodyRight(e) \/ BodyComing(i, n)
                            /\ BodyComing(i, 0) /\ ~OfBody(e, i) => BodyComing(i, n),
           \A i \in Items, u \in Users :
              /\ OfRsvp(e, i, u) => RsvpRight(e, u) \/ RsvpComing(i, u, n)
              /\ RsvpComing(i, u, 0) /\ ~OfRsvp(e, i, u) => RsvpComing(i, u, n)
    PROVE  ShowsBodies(Applied(c, e), n) /\ ShowsRsvps(Applied(c, e), n)
  <1> DEFINE d == Applied(c, e)
  <1>0. d = Applied(c, e)
    OBVIOUS
  <1> HIDE DEF d
  <1>1. /\ \A i \in Items : i # e.item => d[i] = c[i]
        /\ e.op \in {"create", "update"} => d[e.item] = e.entry /\ d[e.item] # Absent
        /\ e.op = "delete" => d[e.item] = Absent
        /\ e.op = "rsvp" /\ c[e.item] = Absent => d[e.item] = Absent
        /\ e.op = "rsvp" /\ c[e.item] # Absent =>
              /\ d[e.item] # Absent /\ d[e.item].val = c[e.item].val
              /\ d[e.item].rsvp = [c[e.item].rsvp EXCEPT ![e.user] = e.entry.rsvp[e.user]]
    BY <1>0, AppliedFacts, AbsentIsNone
  <1>2. ASSUME NEW i \in Items PROVE BodyShown(d, i, n)
    <2>1. BodyShown(c, i, 0)
      BY DEF ShowsBodies
    <2>2. CASE OfBody(e, i)
      BY <1>1, <2>2 DEF BodyShown, OfBody, BodyRight, Operations
    <2>3. CASE ~OfBody(e, i)
      BY <1>1, <2>1, <2>3 DEF BodyShown, OfBody
    <2> QED
      BY <2>2, <2>3
  <1>3. ASSUME NEW i \in Items, NEW u \in Users PROVE RsvpShown(d, i, u, n)
    <2> SUFFICES ASSUME row[i].status = "live" PROVE RsvpShown(d, i, u, n)
      BY DEF RsvpShown
    <2>0. BodyComing(i, n) => RsvpComing(i, u, n)
      BY BothComing DEF Mends
    <2>1. RsvpShown(c, i, u, 0) /\ BodyShown(c, i, 0)
      BY DEF ShowsRsvps, ShowsBodies
    <2>2. CASE e.item # i
      <3>1. d[i] = c[i] /\ ~OfRsvp(e, i, u)
        BY <1>1, <2>2 DEF OfRsvp
      <3> QED
        BY <2>1, <3>1 DEF RsvpShown
    <2>3. CASE e.item = i /\ e.op \in {"create", "update"}
      <3>1. OfRsvp(e, i, u) /\ d[i] = e.entry /\ d[i] # Absent
        BY <1>1, <2>3 DEF OfRsvp
      <3>2. RsvpRight(e, u) \/ RsvpComing(i, u, n)
        BY <3>1
      <3> QED
        BY <2>3, <3>1, <3>2 DEF RsvpShown, RsvpRight
    <2>4. CASE e.item = i /\ e.op = "delete"
      <3>1. OfBody(e, i) /\ ~BodyRight(e)
        BY <2>4 DEF OfBody, BodyRight
      <3> QED
        BY <2>0, <3>1 DEF RsvpShown
    <2>5. CASE e.item = i /\ e.op = "rsvp" /\ c[i] = Absent
      <3>1. BodyComing(i, 0) /\ ~OfBody(e, i)
        BY <2>1, <2>5 DEF BodyShown, OfBody
      <3> QED
        BY <2>0, <3>1 DEF RsvpShown
    <2>6. CASE e.item = i /\ e.op = "rsvp" /\ c[i] # Absent
      <3>1. /\ d[i] # Absent /\ c[i].rsvp \in Rsvps
            /\ d[i].rsvp = [c[i].rsvp EXCEPT ![e.user] = e.entry.rsvp[e.user]]
        BY <1>1, <2>6 DEF Cache, Entry
      <3>2. CASE u = e.user
        <4>1. OfRsvp(e, i, u) /\ d[i].rsvp[u] = e.entry.rsvp[u]
          BY <2>6, <3>1, <3>2 DEF OfRsvp, Rsvps
        <4>2. RsvpRight(e, u) \/ RsvpComing(i, u, n)
          BY <4>1
        <4> QED
          BY <2>6, <3>1, <4>1, <4>2 DEF RsvpShown, RsvpRight
      <3>3. CASE u # e.user
        <4>1. ~OfRsvp(e, i, u) /\ d[i].rsvp[u] = c[i].rsvp[u]
          BY <2>6, <3>1, <3>3 DEF OfRsvp, Rsvps
        <4> QED
          BY <2>1, <2>6, <3>1, <4>1 DEF RsvpShown
      <3> QED
        BY <3>2, <3>3
    <2> QED
      BY <2>2, <2>3, <2>4, <2>5, <2>6 DEF Operations
  <1> QED
    BY <1>0, <1>2, <1>3 DEF ShowsBodies, ShowsRsvps

LEMMA AnswerMends ==
    ASSUME Inv, OpenLive, NEW r \in Requests, Answer(r)
    PROVE  OpenLive' /\ (Mends /\ marks' = {} => Mends')
  <1> DEFINE e == job[r]
  <1>1. /\ job' = [job EXCEPT ![r] = IdleJob] /\ Handled(e) /\ e.own /\ e.pc = "published"
        /\ UNCHANGED <<row, inbox, load>>
    BY DEF Answer
  <1>2. OpenLive' /\ (Mends => InFlightRight')
    BY <1>1, EndedMends
  <1> SUFFICES ASSUME Mends, marks' = {} PROVE Mends'
    BY <1>2
  <1>3. /\ e \in Job /\ e.op \in Operations /\ e.item \in Items /\ e.user \in Users
        /\ e.entry \in Entry /\ RightFor(row[e.item], e)
    BY <1>1 DEF Inv, TypeOK, Job, Mends, InFlightRight, Untold, Right
  <1>4. BodyRight(e) /\ \A i \in Items, u \in Users : OfRsvp(e, i, u) => RsvpRight(e, u)
    BY <1>1, <1>3 DEF BodyRight, OfRsvp, RsvpRight, RightFor
  <1>5. \A s \in Requests : job[s].pc = "committed" => job'[s] = job[s]
    BY <1>1 DEF Inv, TypeOK
  <1>6. Telling
    BY <1>1, <1>5, JobsTelling
  <1>7. \A l \in Loads : load[l].pc \notin {"half", "read"}
    BY <1>1 DEF Handled
  <1>8. CacheMends'
    <2>1. CASE cache = NotLoaded
      BY <1>1, <2>1 DEF Handled, CacheMends
    <2>2. CASE cache # NotLoaded
      <3>1. PICK c : c = Applied(cache, e)
        OBVIOUS
      <3>2. cache' = c /\ cache \in Cache /\ ShowsBodies(cache, 0) /\ ShowsRsvps(cache, 0)
        BY <1>1, <2>2, <3>1 DEF Handled, Inv, TypeOK, Mends, CacheMends
      <3> HIDE DEF e
      <3>3. ShowsBodies(c, 0) /\ ShowsRsvps(c, 0)
        BY <1>3, <1>4, <3>1, <3>2, AppliedShows
      <3>4. ShowsBodies(c, 0)' /\ ShowsRsvps(c, 0)'
        BY <1>1, <1>6, <3>3, TellingMends
      <3> QED
        BY <3>2, <3>4 DEF CacheMends
    <2> QED
      BY <2>1, <2>2
  <1> QED
    BY <1>1, <1>2, <1>6, <1>7, <1>8, TellingMends DEF Mends, LoadMends

(* The first event is taken from the inbox. *)
LEMMA TakenMends ==
    ASSUME Inv, Mends, inbox # <<>>, inbox' = Tail(inbox), UNCHANGED <<row, job>>
    PROVE  /\ BodiesMend' /\ RsvpsMend' /\ InFlightRight'
           /\ \A c : ShowsBodies(c, 1) => ShowsBodies(c, 0)'
           /\ \A c : ShowsRsvps(c, 1) => ShowsRsvps(c, 0)'
  <1> DEFINE N == Len(inbox)
  <1>1. /\ N \in Nat /\ Len(inbox') = N - 1
        /\ \A m \in 1..(N - 1) : inbox'[m] = inbox[m + 1]
    BY DEF Inv, TypeOK
  <1>2. /\ \A m \in 1..N, n \in Nat : m > n + 1 => m - 1 \in 1..Len(inbox') /\ m - 1 > n
        /\ \A m \in 1..Len(inbox') : m + 1 \in 1..N /\ m \in Nat
    BY <1>1
  <1>3. ASSUME NEW m \in 1..N, NEW n \in Nat, m > n + 1
        PROVE  m - 1 \in 1..Len(inbox') /\ m - 1 > n /\ inbox'[m - 1] = inbox[m]
    <2>1. m - 1 \in 1..(N - 1) /\ (m - 1) + 1 = m /\ m - 1 > n
      BY <1>1, <1>3
    <2> QED
      BY <1>1, <2>1
  <1> HIDE DEF N
  <1>4. ASSUME NEW i \in Items, NEW n \in Nat, BodyComing(i, n + 1) PROVE BodyComing(i, n)'
    <2>1. CASE BodyTold(i)
      BY <2>1 DEF BodyComing, BodyTold, OfBody
    <2>2. CASE \E m \in 1..N : m > n + 1 /\ OfBody(inbox[m], i) /\ BodyRight(inbox[m])
      <3>1. PICK m \in 1..N : m > n + 1 /\ OfBody(inbox[m], i) /\ BodyRight(inbox[m])
        BY <2>2
      <3>2. PICK k : k = m - 1
        OBVIOUS
      <3>3. k \in 1..Len(inbox') /\ k > n /\ inbox'[k] = inbox[m]
        BY <1>3, <3>1, <3>2
      <3> QED
        BY <3>1, <3>3 DEF BodyComing, OfBody, BodyRight
    <2> QED
      BY <1>4, <2>1, <2>2 DEF BodyComing, N
  <1>5. ASSUME NEW i \in Items, NEW u \in Users, NEW n \in Nat, RsvpComing(i, u, n + 1)
        PROVE  RsvpComing(i, u, n)'
    <2>1. CASE RsvpTold(i, u)
      BY <2>1 DEF RsvpComing, RsvpTold, OfRsvp
    <2>2. CASE \E m \in 1..N : m > n + 1 /\ OfRsvp(inbox[m], i, u) /\ RsvpRight(inbox[m], u)
      <3>1. PICK m \in 1..N : m > n + 1 /\ OfRsvp(inbox[m], i, u) /\ RsvpRight(inbox[m], u)
        BY <2>2
      <3>2. PICK k : k = m - 1
        OBVIOUS
      <3>3. k \in 1..Len(inbox') /\ k > n /\ inbox'[k] = inbox[m]
        BY <1>3, <3>1, <3>2
      <3> QED
        BY <3>1, <3>3 DEF RsvpComing, OfRsvp, RsvpRight
    <2> QED
      BY <1>5, <2>1, <2>2 DEF RsvpComing, N
  <1>6. BodiesMend'
    <2> SUFFICES ASSUME NEW n \in 1..Len(inbox'), NEW i \in Items, OfBody(inbox'[n], i)
                 PROVE  BodyRight(inbox[n])' \/ BodyComing(i, n)'
      BY DEF BodiesMend, OfBody
    <2>1. n + 1 \in 1..N /\ inbox'[n] = inbox[n + 1] /\ n \in Nat
      BY <1>1, <1>2
    <2>2. BodyRight(inbox[n + 1]) \/ BodyComing(i, n + 1)
      BY <2>1 DEF Mends, BodiesMend, N
    <2>3. BodyRight(inbox[n + 1]) => BodyRight(inbox[n])'
      BY <2>1 DEF BodyRight
    <2> QED
      BY <1>4, <2>1, <2>2, <2>3
  <1>7. RsvpsMend'
    <2> SUFFICES ASSUME NEW n \in 1..Len(inbox'), NEW i \in Items, NEW u \in Users,
                        OfRsvp(inbox'[n], i, u)
                 PROVE  RsvpRight(inbox[n], u)' \/ RsvpComing(i, u, n)'
      BY DEF RsvpsMend, OfRsvp
    <2>1. n + 1 \in 1..N /\ inbox'[n] = inbox[n + 1] /\ n \in Nat
      BY <1>1, <1>2
    <2>2. RsvpRight(inbox[n + 1], u) \/ RsvpComing(i, u, n + 1)
      BY <2>1 DEF Mends, RsvpsMend, N
    <2>3. RsvpRight(inbox[n + 1], u) => RsvpRight(inbox[n], u)'
      BY <2>1 DEF RsvpRight
    <2> QED
      BY <1>5, <2>1, <2>2, <2>3
  <1>8. \A i \in Items, u \in Users : /\ BodyComing(i, 1) => BodyComing(i, 0)'
                                      /\ RsvpComing(i, u, 1) => RsvpComing(i, u, 0)'
    BY <1>4, <1>5
  <1>9. \A i \in Items : BodyComing(i, 1) => BodyComing(i, 0)'
    BY <1>4
  <1>10. \A c : ShowsBodies(c, 1) => ShowsBodies(c, 0)'
    BY <1>9 DEF ShowsBodies, BodyShown
  <1>11. \A c : ShowsRsvps(c, 1) => ShowsRsvps(c, 0)'
    BY <1>8 DEF ShowsRsvps, RsvpShown
  <1>12. InFlightRight'
    BY DEF Mends, InFlightRight, Untold, Right
  <1> QED
    BY <1>6, <1>7, <1>10, <1>11, <1>12

LEMMA DeliverMends ==
    ASSUME Inv, OpenLive, Deliver PROVE OpenLive' /\ (Mends /\ marks' = {} => Mends')
  <1> DEFINE e == Head(inbox)
  <1>1. /\ inbox # <<>> /\ inbox' = Tail(inbox) /\ UNCHANGED <<row, job, load>>
        /\ IF cache = NotLoaded /\ \A l \in Loads : load[l].pc \notin {"half", "read"}
           THEN UNCHANGED <<cache, pending, marks>> ELSE Handled(e)
    BY DEF Deliver
  <1>2. OpenLive'
    BY <1>1 DEF OpenLive
  <1> SUFFICES ASSUME Mends, marks' = {} PROVE Mends'
    BY <1>2
  <1>3. \A l \in Loads : load[l].pc \notin {"half", "read"}
    BY <1>1 DEF Handled
  <1>4. 1 \in 1..Len(inbox) /\ e = inbox[1] /\ \A m \in 1..Len(inbox) : m > 0 => m = 1 \/ m > 1
    BY <1>1 DEF Inv, TypeOK
  <1>5. /\ e.op \in Operations /\ e.item \in Items /\ e.user \in Users /\ e.entry \in Entry
    BY <1>4, InboxType DEF Message
  <1>6. \A i \in Items : /\ OfBody(e, i) => BodyRight(e) \/ BodyComing(i, 1)
                         /\ BodyComing(i, 0) /\ ~OfBody(e, i) => BodyComing(i, 1)
    BY <1>4 DEF Mends, BodiesMend, BodyComing
  <1>7. \A i \in Items, u \in Users :
           /\ OfRsvp(e, i, u) => RsvpRight(e, u) \/ RsvpComing(i, u, 1)
           /\ RsvpComing(i, u, 0) /\ ~OfRsvp(e, i, u) => RsvpComing(i, u, 1)
    BY <1>4 DEF Mends, RsvpsMend, RsvpComing
  <1> HIDE DEF e
  <1>8. CacheMends'
    <2>1. CASE cache = NotLoaded
      BY <1>1, <2>1 DEF Handled, CacheMends
    <2>2. CASE cache # NotLoaded
      <3>1. PICK c : c = Applied(cache, e)
        OBVIOUS
      <3>2. cache' = c /\ cache \in Cache /\ ShowsBodies(cache, 0) /\ ShowsRsvps(cache, 0)
        BY <1>1, <2>2, <3>1 DEF Handled, Inv, TypeOK, Mends, CacheMends
      <3>3. ShowsBodies(c, 1) /\ ShowsRsvps(c, 1)
        BY <1>5, <1>6, <1>7, <3>1, <3>2, AppliedShows
      <3>4. ShowsBodies(c, 0)' /\ ShowsRsvps(c, 0)'
        BY <1>1, <3>3, TakenMends
      <3> QED
        BY <3>2, <3>4 DEF CacheMends
    <2> QED
      BY <2>1, <2>2
  <1> QED
    BY <1>1, <1>3, <1>8, TakenMends DEF Mends, LoadMends

---------------------------------------------------------------------------
(* Reloads. *)
LEMMA StillTelling ==
    ASSUME Inv, OpenLive, UNCHANGED <<row, job, inbox>>
    PROVE  /\ OpenLive' /\ Telling
           /\ Mends => InFlightRight'
  <1>1. OpenLive'
    BY DEF OpenLive
  <1>2. Mends => InFlightRight'
    BY DEF Mends, InFlightRight, Untold, Right
  <1> QED
    BY <1>1, <1>2, JobsTelling

(* A reload moves on: what it has read is right, or will be mended. *)
LEMMA LoadStepMends ==
    ASSUME Inv, OpenLive, NEW l \in Loads, NEW p \in {"none", "asked", "half", "read"},
           NEW got \in Cache, load' = [load EXCEPT ![l] = [pc |-> p, got |-> got]],
           UNCHANGED <<row, job, inbox, cache>>,
           Mends => /\ p \in {"half", "read"} => ShowsBodies(got, 0)
                    /\ p = "read" => ShowsRsvps(got, 0)
    PROVE  OpenLive' /\ (Mends => Mends')
  <1>1. OpenLive' /\ Telling /\ (Mends => InFlightRight')
    BY StillTelling
  <1> SUFFICES ASSUME Mends PROVE Mends'
    BY <1>1
  <1>2. CacheMends'
    <2>1. PICK c : c = cache
      OBVIOUS
    <2>2. cache # NotLoaded => ShowsBodies(c, 0)' /\ ShowsRsvps(c, 0)'
      BY <1>1, <2>1, TellingMends DEF Mends, CacheMends
    <2> QED
      BY <2>1, <2>2 DEF CacheMends
  <1>3. ASSUME NEW k \in Loads PROVE LoadMends(k)'
    <2>1. PICK c : c = IF k = l THEN got ELSE load[k].got
      OBVIOUS
    <2>2. load'[k].got = c /\ load'[k].pc = IF k = l THEN p ELSE load[k].pc
      BY <2>1 DEF Inv, TypeOK
    <2>3. /\ load'[k].pc \in {"half", "read"} => ShowsBodies(c, 0)
          /\ load'[k].pc = "read" => ShowsRsvps(c, 0)
      BY <2>1, <2>2 DEF Mends, LoadMends
    <2>4. /\ load'[k].pc \in {"half", "read"} => ShowsBodies(c, 0)'
          /\ load'[k].pc = "read" => ShowsRsvps(c, 0)'
      BY <1>1, <2>3, TellingMends
    <2> QED
      BY <2>2, <2>4 DEF LoadMends
  <1> QED
    BY <1>1, <1>2, <1>3, TellingMends DEF Mends

LEMMA AskMends ==
    ASSUME Inv, OpenLive, NEW l \in Loads, Load(l) \/ LoadFails(l)
    PROVE  OpenLive' /\ (Mends => Mends')
  <1>1. /\ UNCHANGED <<row, job, inbox, cache>>
        /\ \/ load' = [load EXCEPT ![l] = [pc |-> "none", got |-> NoLoad.got]]
           \/ load' = [load EXCEPT ![l] = [pc |-> "asked", got |-> NoLoad.got]]
    BY NoLoadType DEF Load, LoadFails
  <1> QED
    BY <1>1, NoLoadType, LoadStepMends

LEMMA ListSessionsMends ==
    ASSUME Inv, OpenLive, NEW l \in Loads, ListSessions(l)
    PROVE  OpenLive' /\ (Mends => Mends')
  <1> DEFINE got == [i \in Items |-> IF row[i].status = "live"
                                     THEN [row[i].entry EXCEPT !.rsvp = NoRsvps] ELSE Absent]
  <1>1. \A i \in Items : row[i].status = "live" =>
           /\ [row[i].entry EXCEPT !.rsvp = NoRsvps] \in Entry
           /\ [row[i].entry EXCEPT !.rsvp = NoRsvps].val = row[i].entry.val
    BY NewEntryType DEF Inv, TypeOK, Entry
  <1>2. /\ got \in Cache
        /\ \A i \in Items : IF row[i].status = "live"
                            THEN got[i] # Absent /\ got[i].val = row[i].entry.val
                            ELSE got[i] = Absent
    BY <1>1, AbsentIsNone DEF Cache
  <1>3. load' = [load EXCEPT ![l] = [pc |-> "half", got |-> got]]
        /\ UNCHANGED <<row, job, inbox, cache>>
    BY DEF ListSessions
  <1> HIDE DEF got
  <1>4. ShowsBodies(got, 0)
    BY <1>2 DEF ShowsBodies, BodyShown
  <1> QED
    BY <1>2, <1>3, <1>4, LoadStepMends

LEMMA ListRsvpsMends ==
    ASSUME Inv, OpenLive, NEW l \in Loads, ListRsvps(l)
    PROVE  OpenLive' /\ (Mends => Mends')
  <1> DEFINE old == load[l].got
             e(i) == [old[i] EXCEPT !.rsvp = row[i].entry.rsvp]
             got == [i \in Items |-> IF old[i] # Absent /\ row[i].status = "live"
                                     THEN e(i) ELSE old[i]]
  <1>1. load[l].pc = "half" /\ old \in Cache
        /\ \A i \in Items : old[i] # Absent => old[i] \in Entry
    BY DEF ListRsvps, Inv, TypeOK, Cache
  <1>2. \A i \in Items : old[i] # Absent =>
           e(i) \in Entry /\ e(i).val = old[i].val /\ e(i).rsvp = row[i].entry.rsvp
    <2> SUFFICES ASSUME NEW i \in Items, old[i] # Absent
                 PROVE  e(i) \in Entry /\ e(i).val = old[i].val /\ e(i).rsvp = row[i].entry.rsvp
      OBVIOUS
    <2>1. row[i].entry \in Entry /\ old[i] \in Entry
      BY <1>1 DEF Inv, TypeOK
    <2>2. e(i) = [val |-> old[i].val, rsvp |-> row[i].entry.rsvp]
      BY <2>1 DEF Entry
    <2> HIDE DEF old, e
    <2> QED
      BY <2>1, <2>2 DEF Entry
  <1>3. load' = [load EXCEPT ![l] = [pc |-> "read", got |-> got]]
        /\ UNCHANGED <<row, job, inbox, cache>>
    BY DEF ListRsvps
  <1>4. Mends => ShowsBodies(old, 0)
    BY <1>1 DEF Mends, LoadMends
  <1> HIDE DEF old, e
  <1>5. /\ got \in Cache
        /\ \A i \in Items :
              /\ got[i] = Absent <=> old[i] = Absent
              /\ old[i] # Absent => got[i].val = old[i].val
              /\ old[i] # Absent /\ row[i].status = "live" => got[i].rsvp = row[i].entry.rsvp
    BY <1>1, <1>2, AbsentIsNone DEF Cache
  <1> HIDE DEF got
  <1>6. ASSUME Mends PROVE ShowsBodies(got, 0) /\ ShowsRsvps(got, 0)
    <2>1. ShowsBodies(got, 0)
      BY <1>4, <1>5, <1>6 DEF ShowsBodies, BodyShown
    <2>2. ASSUME NEW i \in Items, NEW u \in Users, row[i].status = "live"
          PROVE  RsvpShown(got, i, u, 0)
      <3>1. CASE old[i] # Absent
        BY <1>5, <2>2, <3>1 DEF RsvpShown
      <3>2. CASE old[i] = Absent
        <4>1. BodyComing(i, 0)
          BY <1>4, <1>6, <2>2, <3>2 DEF ShowsBodies, BodyShown
        <4> QED
          BY <1>6, <2>2, <4>1, BothComing DEF Mends, RsvpShown
      <3> QED
        BY <3>1, <3>2
    <2>3. ShowsRsvps(got, 0)
      BY <2>2 DEF ShowsRsvps, RsvpShown
    <2> QED
      BY <2>1, <2>3
  <1> QED
    BY <1>3, <1>5, <1>6, LoadStepMends

LEMMA LoadedMends ==
    ASSUME Inv, OpenLive, NEW l \in Loads, Loaded(l)
    PROVE  OpenLive' /\ (Mends => Mends')
  <1>1. /\ load[l].pc = "read" /\ cache' = load[l].got
        /\ load' = [load EXCEPT ![l] = NoLoad] /\ UNCHANGED <<row, job, inbox>>
    BY DEF Loaded
  <1>2. OpenLive' /\ Telling /\ (Mends => InFlightRight')
    BY <1>1, StillTelling
  <1> SUFFICES ASSUME Mends PROVE Mends'
    BY <1>2
  <1>3. ASSUME NEW k \in Loads, load[k].pc \in {"half", "read"}
        PROVE  \A c : c = load[k].got =>
                  ShowsBodies(c, 0)' /\ (load[k].pc = "read" => ShowsRsvps(c, 0)')
    <2> SUFFICES ASSUME NEW c, c = load[k].got
                 PROVE  ShowsBodies(c, 0)' /\ (load[k].pc = "read" => ShowsRsvps(c, 0)')
      OBVIOUS
    <2>1. ShowsBodies(c, 0) /\ (load[k].pc = "read" => ShowsRsvps(c, 0))
      BY <1>3 DEF Mends, LoadMends
    <2> QED
      BY <1>1, <1>2, <2>1, TellingMends
  <1>4. CacheMends'
    <2>1. PICK c : c = load[l].got
      OBVIOUS
    <2>2. cache' = c /\ ShowsBodies(c, 0)' /\ ShowsRsvps(c, 0)'
      BY <1>1, <1>3, <2>1
    <2> QED
      BY <2>2 DEF CacheMends
  <1>5. ASSUME NEW k \in Loads PROVE LoadMends(k)'
    <2>1. CASE k = l
      BY <1>1, <2>1 DEF LoadMends, NoLoad, Inv, TypeOK
    <2>2. CASE k # l
      <3>1. PICK c : c = load[k].got
        OBVIOUS
      <3>2. load'[k] = load[k]
        BY <1>1, <2>2 DEF Inv, TypeOK
      <3> QED
        BY <1>3, <3>1, <3>2 DEF LoadMends
    <2> QED
      BY <2>1, <2>2
  <1> QED
    BY <1>1, <1>2, <1>4, <1>5, TellingMends DEF Mends

---------------------------------------------------------------------------
LEMMA MarksGrow == Inv /\ [Next]_vars => (marks' = {} => marks = {})
  BY DEF Next, vars, Serve, Reload, Write, Commit, Publish, Unheard, Answer, Handled, Fail, GiveUp,
     Send, Deliver, Load, ListSessions, ListRsvps, Loaded, LoadFails

LEMMA StepMends ==
    ASSUME Inv, Inv', OpenLive, [Next]_vars
    PROVE  OpenLive' /\ (Mends /\ marks' = {} => Mends')
  <1>1. ASSUME NEW r \in Requests, Serve(r)
        PROVE  OpenLive' /\ (Mends /\ marks' = {} => Mends')
    BY <1>1, WriteMends, CommitMends, PublishMends, UnheardMends, AnswerMends, FailMends,
       GiveUpMends DEF Serve
  <1>2. ASSUME NEW r \in Requests, NEW op \in Operations, NEW i \in Items, NEW u \in Users,
               NEW own \in BOOLEAN, Send(r, op, i, u, own)
        PROVE  OpenLive' /\ (Mends /\ marks' = {} => Mends')
    BY <1>2, SendMends
  <1>3. CASE Deliver
    BY <1>3, DeliverMends
  <1>4. ASSUME NEW l \in Loads, Load(l) \/ Reload(l)
        PROVE  OpenLive' /\ (Mends /\ marks' = {} => Mends')
    BY <1>4, AskMends, ListSessionsMends, ListRsvpsMends, LoadedMends DEF Reload
  <1>5. CASE UNCHANGED vars
    BY <1>5, StillTelling, JobsMend DEF vars
  <1> QED
    BY <1>1, <1>2, <1>3, <1>4, <1>5 DEF Next

LEMMA InitMends == Init => OpenLive /\ Mends
  <1> SUFFICES ASSUME Init PROVE OpenLive /\ Mends
    OBVIOUS
  <1>1. OpenLive /\ InFlightRight
    BY DEF Init, OpenLive, InFlightRight, Untold, IdleJob
  <1>2. BodiesMend /\ RsvpsMend
    BY DEF Init, BodiesMend, RsvpsMend
  <1>3. CacheMends /\ \A l \in Loads : LoadMends(l)
    BY DEF Init, CacheMends, LoadMends, NoLoad
  <1> QED
    BY <1>1, <1>2, <1>3 DEF Mends

(* Once all is handled there is nothing left to mend. *)
LEMMA MendsAgrees == MendInv => CacheAgrees
  <1> SUFFICES ASSUME MendInv, Quiet, marks = {}, cache # NotLoaded, NEW i \in Items
               PROVE  cache[i] = IF row[i].status = "live" THEN row[i].entry ELSE Absent
    BY DEF CacheAgrees
  <1>1. ~BodyComing(i, 0) /\ \A u \in Users : ~RsvpComing(i, u, 0)
    BY DEF Quiet, BodyComing, RsvpComing, BodyTold, RsvpTold
  <1>2. BodyShown(cache, i, 0) /\ \A u \in Users : RsvpShown(cache, i, u, 0)
    BY DEF MendInv, Mends, CacheMends, ShowsBodies, ShowsRsvps
  <1>3. CASE row[i].status # "live"
    BY <1>1, <1>2, <1>3 DEF BodyShown
  <1>4. CASE row[i].status = "live"
    <2>1. cache[i] # Absent /\ cache[i].val = row[i].entry.val
      BY <1>1, <1>2, <1>4 DEF BodyShown
    <2>2. cache[i] \in Entry /\ row[i].entry \in Entry
      BY <2>1 DEF MendInv, Inv, TypeOK, Cache
    <2>3. \A u \in Users : cache[i].rsvp[u] = row[i].entry.rsvp[u]
      BY <1>1, <1>2, <1>4 DEF RsvpShown
    <2>4. cache[i].rsvp = row[i].entry.rsvp
      BY <2>2, <2>3 DEF Entry, Rsvps
    <2> QED
      BY <1>4, <2>1, <2>2, <2>4 DEF Entry
  <1> QED
    BY <1>3, <1>4

(* However answers, events and reloads cross, and in whatever order they     *)
(* come, the client shows the rows once all is handled, unless a change was  *)
(* told after a later one, an event was lost, or something came in between a *)
(* reload's reading and its end (_handleEvent, _mergeRsvp, _loadState).      *)
THEOREM AgreesOnceQuiet == Spec => []CacheAgrees
  <1>1. Init => MendInv
    BY InitInv, InitMends DEF MendInv
  <1>2. MendInv /\ [Next]_vars => MendInv'
    BY StepInv, StepMends, MarksGrow DEF MendInv
  <1> QED
    BY <1>1, <1>2, MendsAgrees, PTL DEF Spec
=============================================================================
