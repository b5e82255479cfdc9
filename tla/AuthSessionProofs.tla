-------------------------- MODULE AuthSessionProofs ---------------------------
(***************************************************************************)
(* Machine-checked proofs about AuthSession, for any accounts, requests and  *)
(* sockets in flight, any number of builds superseding one another, and any  *)
(* number of token pairs issued.                                            *)
(***************************************************************************)
EXTENDS AuthSession, TLAPS

StateOK ==
    /\ session \in [Accounts -> Issued \cup {NoPair}]
    /\ issued \in 0..MaxTokens
    /\ expired \in SUBSET (1..issued)
    /\ stored \in Issued \cup {NoPair}
    /\ auth \in Accounts \cup {NoAccount}
    /\ marks \in SUBSET Marks

(* What a call holds at each of its steps.                                  *)
CallOK(c, j) ==
    /\ j \in Call
    /\ j.pc \in Refreshing \cup {"asked", "retry"} => j.used.account \in Accounts
    /\ j.pc \in {"replied", "save"} =>
         j.got \in Issued /\ j.got.account = j.used.account
    /\ c \notin Requests =>
         /\ j.boot = "no"
         /\ j.pc \notin {"start", "asked", "accepted", "clear", "retry", "drop", "redo"}
    /\ c = Form => j.pc \in {"idle", "granted", "replied", "save"}
    /\ j.pc \in {"start", "asked", "drop", "redo"} => j.boot # "no"
    /\ j.pc \in {"idle", "accepted"} => j.boot = "no"

(* The state waits for one build at most, the newest.                       *)
OneAwaited == \A c, d \in Callers :
    call[c].boot = "awaited" /\ call[d].boot = "awaited" => c = d

Base ==
    /\ StateOK
    /\ call \in [Callers -> Call]
    /\ \A c \in Callers : CallOK(c, call[c])
    /\ OneAwaited

(* What a call that has decided to write relies on: the storage holds what  *)
(* it held when the call looked, or, for the login form, nothing.           *)
Undisturbed(c, j) ==
    /\ c \in Requests /\ j.pc = "save" => stored = j.used
    /\ c \in Sockets /\ j.pc \in Refreshing => stored = j.used
    /\ c = Form /\ j.pc \in Refreshing => auth = NoAccount /\ stored = NoPair

(* What a build whose user is on the way relies on: it is the one the app   *)
(* shows, or is going to show for the first time.                           *)
Answered(j) ==
    /\ stored.account \in {j.used.account, NoAccount}
    /\ \/ auth = j.used.account
       \/ auth = NoAccount /\ stored.account = j.used.account

BootOK(j) ==
    /\ j.boot # "overtaken"
    /\ j.boot = "dropped" => auth # NoAccount \/ stored = NoPair
    /\ j.boot = "awaited" /\ j.pc \in {"asked", "retry"} => Answered(j)

OwnTokensOnly ==
    /\ auth = NoAccount /\ ~Loading => stored = NoPair
    /\ auth # NoAccount => stored.account \in {auth, NoAccount}

Apart ==
    /\ OwnTokensOnly
    /\ InFlight(Form) => \A c \in Callers : ~Booting(c)
    /\ \A c \in Callers : Undisturbed(c, call[c]) /\ BootOK(call[c])

(* The inductive invariant. *)
Inv == Base /\ (Uncrossed => Apart)

---------------------------------------------------------------------------
LEMMA PairFacts ==
    /\ Issued \subseteq Pair /\ NoPair \in Pair /\ NoPair \notin Issued
    /\ NoPair.account = NoAccount
    /\ \A p \in Issued : p.account \in Accounts
    /\ \A a \in Accounts : [NoPair EXCEPT !.account = a] \in Pair
                           /\ [NoPair EXCEPT !.account = a].account = a
  BY AuthAssumption DEF Issued, Pair, NoPair

LEMMA IdleOK ==
    ASSUME NEW c
    PROVE  /\ CallOK(c, Idle) /\ Undisturbed(c, Idle) /\ BootOK(Idle)
           /\ Idle.boot = "no" /\ Idle.pc = "idle" /\ Idle \in Call
  BY PairFacts DEF CallOK, Undisturbed, BootOK, Idle, Call, Refreshing

LEMMA MarkFacts ==
    /\ Uncrossed <=> "window" \notin marks /\ "asking" \notin marks
    /\ Uncrossed' <=> "window" \notin marks' /\ "asking" \notin marks'
    /\ marks \subseteq marks' => (Uncrossed' => Uncrossed)
  BY DEF Uncrossed, Crossed

(* A caller moves on to j; of the builds of the others at most the standing *)
(* changes, and none becomes the awaited one.                               *)
Moved(c, j) ==
    /\ call' \in [Callers -> Call]
    /\ call'[c] = j
    /\ \A d \in Callers : d # c =>
         /\ call'[d].pc = call[d].pc /\ call'[d].used = call[d].used
         /\ call'[d].got = call[d].got
         /\ call'[d].boot = "no" <=> call[d].boot = "no"
         /\ call'[d].boot = "awaited" => call[d].boot = "awaited"

LEMMA MovedOne ==
    ASSUME call \in [Callers -> Call], NEW c \in Callers, NEW j \in Call,
           call' = [call EXCEPT ![c] = j]
    PROVE  Moved(c, j) /\ \A d \in Callers : d # c => call'[d] = call[d]
  BY DEF Moved

LEMMA SettledCall ==
    ASSUME NEW c, NEW k \in Call
    PROVE  /\ Settled(c, k) \in Call
           /\ Settled(c, k).pc = k.pc /\ Settled(c, k).used = k.used /\ Settled(c, k).got = k.got
           /\ Settled(c, k).boot # "awaited"
           /\ Settled(c, k).boot = "no" <=> k.boot = "no"
           /\ k.boot # "awaited" => Settled(c, k) = k
  BY DEF Settled, Call

LEMMA MovedSettle ==
    ASSUME Inv, NEW j \in Call, call' = [Settle EXCEPT ![Form] = j]
    PROVE  /\ Moved(Form, j)
           /\ \A d \in Callers : d # Form => call'[d].boot # "awaited"
           /\ Asking = {} => \A d \in Callers : d # Form => call'[d] = call[d]
  <1>1. Form \in Callers /\ call \in [Callers -> Call]
    BY DEF Callers, Inv, Base
  <1>2. \A d \in Callers : d # Form => call'[d] = Settled(d, call[d])
    BY <1>1 DEF Settle
  <1>3. call' \in [Callers -> Call]
    BY <1>1, SettledCall DEF Settle
  <1>4. call'[Form] = j
    BY <1>1 DEF Settle
  <1>5. Asking = {} => \A d \in Callers : call[d].boot = "no"
    BY DEF Asking, Booting
  <1> QED
    BY <1>1, <1>2, <1>3, <1>4, <1>5, SettledCall DEF Moved

LEMMA MovedRebuilt ==
    ASSUME Inv, NEW q \in Callers, NEW pc \in {"start", "redo"}, call' = Rebuilt(q, pc)
    PROVE  /\ Moved(q, [Idle EXCEPT !.pc = pc, !.boot = "awaited"])
           /\ \A d \in Callers : d # q => call'[d].boot \in {"no", "dropped"}
  <1> DEFINE j == [Idle EXCEPT !.pc = pc, !.boot = "awaited"]
  <1>1. call \in [Callers -> Call] /\ j \in Call
    BY PairFacts DEF Inv, Base, Idle, Call
  <1>2. \A d \in Callers : call'[d] = IF d = q THEN j
             ELSE IF Booting(d) THEN [call[d] EXCEPT !.boot = "dropped"] ELSE call[d]
    BY DEF Rebuilt
  <1>3. call'[q] = j
    BY <1>2
  <1> HIDE DEF j
  <1>4. ASSUME NEW d \in Callers, d # q
        PROVE  /\ call'[d] \in Call
               /\ call'[d].pc = call[d].pc /\ call'[d].used = call[d].used
               /\ call'[d].got = call[d].got
               /\ call'[d].boot = "no" <=> call[d].boot = "no"
               /\ call'[d].boot \in {"no", "dropped"}
    <2>1. CASE Booting(d)
      <3>1. call'[d] = [call[d] EXCEPT !.boot = "dropped"] /\ call[d] \in Call
        BY <1>1, <1>2, <1>4, <2>1
      <3> QED
        BY <2>1, <3>1 DEF Call, Booting
    <2>2. CASE ~Booting(d)
      BY <1>1, <1>2, <1>4, <2>2 DEF Booting
    <2> QED
      BY <2>1, <2>2
  <1>5. call' \in [Callers -> Call]
    <2>1. call' = [d \in Callers |-> call'[d]]
      BY DEF Rebuilt
    <2>2. \A d \in Callers : call'[d] \in Call
      BY <1>1, <1>3, <1>4
    <2> QED
      BY <2>1, <2>2
  <1> QED
    BY <1>3, <1>4, <1>5 DEF Moved, j

(* Types and the one awaited build, for a step of one caller.               *)
LEMMA BaseStep ==
    ASSUME Inv, NEW c \in Callers, NEW j, Moved(c, j), StateOK', Issued \subseteq Issued',
           CallOK(c, call[c])',
           j.boot = "awaited" =>
             \/ call[c].boot = "awaited"
             \/ \A d \in Callers : d # c => call'[d].boot # "awaited"
    PROVE  Base'
  <1>1. ASSUME NEW d \in Callers PROVE CallOK(d, call[d])'
    <2>1. CASE d = c
      BY <2>1
    <2>2. CASE d # c
      <3>1. CallOK(d, call[d]) /\ call'[d] \in Call
        BY DEF Inv, Base, Moved
      <3> QED
        BY <2>2, <3>1 DEF Moved, CallOK
    <2> QED
      BY <2>1, <2>2
  <1>2. OneAwaited'
    <2> SUFFICES ASSUME NEW x \in Callers, NEW y \in Callers, x # y,
                        call'[x].boot = "awaited", call'[y].boot = "awaited"
                 PROVE  FALSE
      BY DEF OneAwaited
    <2>1. CASE x = c
      BY <2>1 DEF Moved, Inv, Base, OneAwaited
    <2>2. CASE y = c
      BY <2>2 DEF Moved, Inv, Base, OneAwaited
    <2>3. CASE x # c /\ y # c
      BY <2>3 DEF Moved, Inv, Base, OneAwaited
    <2> QED
      BY <2>1, <2>2, <2>3
  <1> QED
    BY <1>1, <1>2 DEF Base, Moved

(* A step of one caller that writes neither the storage nor the server, and *)
(* leaves its build, if it is one, what it was.                             *)
LEMMA QuietStep ==
    ASSUME Inv, NEW c \in Callers, NEW j,
           CallOK(c, j), Uncrossed => Undisturbed(c, j) /\ BootOK(j),
           c # Form, j.boot = call[c].boot,
           call' = [call EXCEPT ![c] = j], UNCHANGED <<server, stored, auth>>,
           marks' \in SUBSET Marks, marks \subseteq marks'
    PROVE  Inv'
  <1>1. j \in Call /\ call \in [Callers -> Call]
    BY DEF CallOK, Inv, Base
  <1>2. Moved(c, j) /\ \A d \in Callers : d # c => call'[d] = call[d]
    BY <1>1, MovedOne
  <1>3. StateOK' /\ Issued' = Issued
    BY DEF Inv, Base, StateOK, server, Issued
  <1>4. CallOK(c, call[c])'
    BY <1>2, <1>3 DEF CallOK, Moved
  <1>5. Base'
    BY <1>2, <1>3, <1>4, BaseStep
  <1>6. ASSUME Uncrossed' PROVE Apart'
    <2>1. Uncrossed /\ Apart
      BY <1>6, MarkFacts DEF Inv
    <2>2. \A d \in Callers : call'[d].boot = call[d].boot
      BY <1>2 DEF Moved
    <2>3. OwnTokensOnly' /\ (InFlight(Form)' => \A d \in Callers : ~Booting(d)')
      <3>1. call'[Form] = call[Form]
        BY <1>2 DEF Callers
      <3> QED
        BY <2>1, <2>2, <3>1 DEF Apart, OwnTokensOnly, Loading, Booting, InFlight
    <2>4. ASSUME NEW d \in Callers PROVE Undisturbed(d, call[d])' /\ BootOK(call[d])'
      BY <1>2, <2>1 DEF Moved, Apart, Undisturbed, BootOK, Answered
    <2> QED
      BY <2>3, <2>4 DEF Apart
  <1> QED
    BY <1>5, <1>6 DEF Inv

(* A build that ends, and decides which account the app shows.              *)
LEMMA ShownStep ==
    ASSUME Inv, NEW c \in Requests, NEW a \in Accounts \cup {NoAccount},
           call[c].boot # "no", Shows(c, a), End(c), UNCHANGED <<server, stored, marks>>,
           Uncrossed /\ call[c].boot = "awaited" =>
             \/ a = NoAccount /\ stored = NoPair
             \/ a # NoAccount /\ stored.account \in {a, NoAccount}
    PROVE  Inv'
  <1>0. c \in Callers /\ Idle \in Call /\ c # Form
    BY IdleOK, AuthAssumption DEF Callers
  <1>1. Moved(c, Idle) /\ \A d \in Callers : d # c => call'[d] = call[d]
    BY <1>0, MovedOne DEF Inv, Base, End
  <1>2. StateOK' /\ Issued' = Issued /\ Uncrossed' = Uncrossed
    BY DEF Inv, Base, StateOK, server, Issued, Shows, Uncrossed
  <1>3. CallOK(c, call[c])' /\ Idle.boot = "no"
    BY <1>1, <1>2, IdleOK DEF CallOK, Moved
  <1>4. Base'
    BY <1>0, <1>1, <1>2, <1>3, BaseStep
  <1>5. ASSUME Uncrossed' PROVE Apart'
    <2>1. Apart /\ Booting(c) /\ ~InFlight(Form) /\ call[c].boot \in {"awaited", "dropped"}
      BY <1>0, <1>2, <1>5 DEF Inv, Base, Apart, Booting, Call, BootOK
    <2>2. call'[Form] = call[Form] /\ ~InFlight(Form)'
      BY <1>0, <1>1, <2>1 DEF Callers, InFlight
    <2>3. ASSUME NEW d \in Callers PROVE Undisturbed(d, call[d])'
      <3>1. CASE d = c
        BY <1>0, <1>1, <3>1, IdleOK DEF Moved, Undisturbed, Refreshing
      <3>2. CASE d # c
        BY <1>1, <2>1, <2>2, <3>2 DEF Apart, Undisturbed, InFlight
      <3> QED
        BY <3>1, <3>2
    <2>4. CASE call[c].boot = "dropped"
      <3>1. auth' = auth /\ (Loading' <=> Loading)
        BY <1>1, <1>3, <2>4 DEF Shows, Loading, Moved
      <3>2. \A d \in Callers : BootOK(call[d])'
        BY <1>1, <2>1, <3>1, IdleOK DEF Moved, Apart, BootOK, Answered
      <3> QED
        BY <2>1, <2>2, <2>3, <3>1, <3>2 DEF Apart, OwnTokensOnly
    <2>5. CASE call[c].boot = "awaited"
      <3>1. auth' = a /\ \A d \in Callers : d # c => call[d].boot # "awaited"
        BY <1>0, <2>5 DEF Shows, Inv, Base, OneAwaited
      <3>2. OwnTokensOnly'
        BY <1>2, <1>5, <2>5, <3>1, PairFacts DEF OwnTokensOnly
      <3>3. a # NoAccount \/ stored = NoPair
        BY <1>2, <1>5, <2>5
      <3>4. \A d \in Callers : BootOK(call[d])'
        BY <1>1, <1>3, <2>1, <3>1, <3>3 DEF Moved, Apart, BootOK
      <3> QED
        BY <2>2, <2>3, <3>2, <3>4 DEF Apart
    <2> QED
      BY <2>1, <2>4, <2>5
  <1> QED
    BY <1>4, <1>5 DEF Inv

(* A write of the storage is decided, so nobody else has decided one unless *)
(* the window is marked.                                                    *)
LEMMA WriteStep ==
    ASSUME Inv, NEW c \in Callers, NEW j, NEW pair \in Issued \cup {NoPair},
           Moved(c, j), CallOK(c, j), j.pc \notin Refreshing,
           j.boot = "awaited" =>
             \/ call[c].boot = "awaited"
             \/ \A d \in Callers : d # c => call'[d].boot # "awaited",
           Store(pair, {c}, {}), UNCHANGED server,
           auth' \in Accounts \cup {NoAccount},
           Uncrossed' => OwnTokensOnly' /\ \A d \in Callers : BootOK(call[d])'
    PROVE  Inv'
  <1>1. StateOK' /\ Issued' = Issued
    BY DEF Inv, Base, StateOK, server, Issued, Store, Marks
  <1>2. Base'
    <2>1. CallOK(c, call[c])'
      BY <1>1 DEF CallOK, Moved
    <2> QED
      BY <1>1, <2>1, BaseStep
  <1>3. ASSUME Uncrossed' PROVE Apart'
    <2>1. \A d \in Callers : d # c => ~Decided(d)
      BY <1>3, MarkFacts DEF Store
    <2>2. ASSUME NEW d \in Callers PROVE Undisturbed(d, call[d])' /\ (d = Form => ~InFlight(d)')
      <3>1. CASE d = c
        BY <3>1 DEF Moved, Undisturbed, InFlight, Refreshing
      <3>2. CASE d # c
        BY <2>1, <3>2, AuthAssumption DEF Undisturbed, Decided, InFlight, Callers, Refreshing, Moved
      <3> QED
        BY <3>1, <3>2
    <2> QED
      BY <1>3, <2>2 DEF Apart, Callers
  <1> QED
    BY <1>2, <1>3 DEF Inv
---------------------------------------------------------------------------
LEMMA InitInv == Init => Inv
  <1> SUFFICES ASSUME Init PROVE Inv
    OBVIOUS
  <1>1. StateOK
    BY AuthAssumption, PairFacts DEF Init, StateOK
  <1>2. \A c \in Callers : call[c] = Idle
    BY DEF Init
  <1>3. call \in [Callers -> Call]
    BY IdleOK DEF Init
  <1>4. Form \in Callers /\ ~InFlight(Form)
    BY <1>2, IdleOK DEF Callers, InFlight, Refreshing
  <1>5. OneAwaited /\ OwnTokensOnly
    BY <1>2, IdleOK DEF OneAwaited, OwnTokensOnly, Init
  <1> QED
    BY <1>1, <1>2, <1>3, <1>4, <1>5, IdleOK DEF Inv, Base, Apart

(* The login form is sent, or its answer lost: the state is set, whatever   *)
(* build is out.                                                            *)
LEMMA FormStep ==
    ASSUME Inv, NEW j, CallOK(Form, j), call' = [Settle EXCEPT ![Form] = j],
           UNCHANGED <<server, stored>>, auth' \in {auth, NoAccount},
           marks' \in SUBSET Marks, marks \subseteq marks',
           Uncrossed' => /\ auth' = auth
                         /\ \A c \in Callers : ~Booting(c)
                         /\ j.pc \in Refreshing => auth = NoAccount /\ stored = NoPair
    PROVE  Inv'
  <1>1. /\ j \in Call /\ Form \in Callers /\ call[Form].boot = "no" /\ j.boot = "no"
        /\ Form \notin Requests \cup Sockets
    BY AuthAssumption DEF Inv, Base, CallOK, Callers
  <1>2. Moved(Form, j) /\ (Asking = {} => \A d \in Callers : d # Form => call'[d] = call[d])
    BY <1>1, MovedSettle
  <1>3. StateOK' /\ Issued' = Issued
    BY DEF Inv, Base, StateOK, server, Issued
  <1>4. Base'
    <2>1. CallOK(Form, call[Form])'
      BY <1>2, <1>3 DEF CallOK, Moved
    <2> QED
      BY <1>1, <1>2, <1>3, <2>1, BaseStep
  <1>5. ASSUME Uncrossed' PROVE Apart'
    <2>1. Apart /\ \A d \in Callers : call[d].boot = "no"
      BY <1>5, MarkFacts DEF Inv, Booting
    <2>2. Asking = {}
      BY <1>5 DEF Asking
    <2>3. \A d \in Callers : call'[d].boot = "no"
      BY <1>1, <1>2, <2>1 DEF Moved
    <2>4. OwnTokensOnly'
      BY <1>5, <2>1, <2>3 DEF Apart, OwnTokensOnly, Loading
    <2>5. ASSUME NEW d \in Callers PROVE Undisturbed(d, call[d])' /\ BootOK(call[d])'
      <3>1. CASE d = Form
        BY <1>1, <1>2, <1>5, <2>3, <3>1 DEF Moved, Undisturbed, BootOK
      <3>2. CASE d # Form
        BY <1>2, <1>5, <2>1, <2>2, <2>3, <3>2 DEF Apart, Undisturbed, BootOK
      <3> QED
        BY <3>1, <3>2
    <2> QED
      BY <2>3, <2>4, <2>5 DEF Apart, Booting
  <1> QED
    BY <1>4, <1>5 DEF Inv

(* The login form is sent. *)
LEMMA SubmitInv == ASSUME Inv, NEW a \in Accounts, Submit(a) PROVE Inv'
  <1> DEFINE j == [call[Form] EXCEPT !.pc = "granted",
                                     !.used = [NoPair EXCEPT !.account = a]]
  <1>1. Form \in Callers /\ call[Form] \in Call /\ CallOK(Form, call[Form])
    BY DEF Inv, Base, Callers
  <1>2. CallOK(Form, j)
    BY <1>1, PairFacts, AuthAssumption DEF CallOK, Call, Refreshing
  <1>3. call' = [Settle EXCEPT ![Form] = j]
    <2>1. Settle[Form] = call[Form]
      BY <1>1, AuthAssumption DEF Settle, Settled, CallOK
    <2> QED
      BY <1>1, <2>1 DEF Submit, Settle
  <1>4. /\ marks' \in SUBSET Marks /\ marks \subseteq marks'
        /\ Uncrossed' => Uncrossed /\ \A c \in Callers : ~Booting(c)
    BY MarkFacts DEF Submit, Overlapping, Asking, Inv, Base, StateOK, Marks
  <1>5. Uncrossed' => auth = NoAccount /\ stored = NoPair
    BY <1>4 DEF Submit, Inv, Apart, OwnTokensOnly, Loading, Booting
  <1> HIDE DEF j
  <1> QED
    BY <1>2, <1>3, <1>4, <1>5, FormStep DEF Submit

(* A pair is issued; those issued before stay issued. *)
LEMMA MoreIssued ==
    ASSUME Inv, issued' = issued + 1, issued < MaxTokens, NEW a \in Accounts
    PROVE  /\ Issued \subseteq Issued' /\ NextPair(a) \in Issued'
           /\ NextPair(a) \in Pair /\ NextPair(a).account = a
           /\ issued' \in 0..MaxTokens /\ expired \in SUBSET (1..issued')
  <1>1. issued \in 0..MaxTokens /\ expired \in SUBSET (1..issued)
    BY DEF Inv, Base, StateOK
  <1> QED
    BY <1>1, AuthAssumption DEF Issued, NextPair, Pair

(* Nothing Apart speaks of has changed but the marks. *)
LEMMA ApartKept ==
    ASSUME Apart, UNCHANGED <<stored, auth, call>>
    PROVE  Apart'
  BY DEF Apart, OwnTokensOnly, Loading, InFlight, Booting, Undisturbed, BootOK, Answered

LEMMA OtherDeviceInv == ASSUME Inv, NEW a \in Accounts, OtherDevice(a) PROVE Inv'
  <1>1. /\ Issued \subseteq Issued' /\ NextPair(a) \in Issued'
        /\ issued' \in 0..MaxTokens /\ expired \in SUBSET (1..issued')
    BY MoreIssued DEF OtherDevice
  <1>2. StateOK'
    BY <1>1 DEF OtherDevice, Rotated, Inv, Base, StateOK, Marks
  <1>3. ASSUME NEW d \in Callers PROVE CallOK(d, call[d])'
    BY <1>1 DEF Inv, Base, CallOK, OtherDevice
  <1>4. Uncrossed' => Apart'
    BY MarkFacts, ApartKept DEF OtherDevice, Inv
  <1> QED
    BY <1>2, <1>3, <1>4 DEF Inv, Base, OneAwaited, OtherDevice

LEMMA IssueInv == ASSUME Inv, NEW c \in Callers, Issue(c) PROVE Inv'
  <1> DEFINE a == call[c].used.account
             j == [call[c] EXCEPT !.pc = "replied", !.got = NextPair(a)]
  <1>1. call[c] \in Call /\ CallOK(c, call[c]) /\ call[c].pc = "granted"
    BY DEF Inv, Base, Issue
  <1>2. a \in Accounts
    BY <1>1 DEF CallOK, Refreshing
  <1>3. /\ Issued \subseteq Issued' /\ NextPair(a) \in Issued'
        /\ NextPair(a) \in Pair /\ NextPair(a).account = a
        /\ issued' \in 0..MaxTokens /\ expired \in SUBSET (1..issued')
    BY <1>2, MoreIssued DEF Issue
  <1>4. /\ j \in Call /\ j.pc = "replied" /\ j.got = NextPair(a)
        /\ j.used = call[c].used /\ j.boot = call[c].boot
    BY <1>1, <1>3 DEF Call, Refreshing
  <1>5. call' = [call EXCEPT ![c] = j]
    BY <1>1 DEF Issue, Inv, Base
  <1> HIDE DEF j
  <1>6. Moved(c, j) /\ \A d \in Callers : d # c => call'[d] = call[d]
    BY <1>4, <1>5, MovedOne DEF Inv, Base
  <1>7. StateOK'
    BY <1>3 DEF Issue, Rotated, Inv, Base, StateOK
  <1>8. CallOK(c, call[c])'
    <2>1. call'[c] = j
      BY <1>6 DEF Moved
    <2> QED
      BY <1>1, <1>2, <1>3, <1>4, <2>1 DEF CallOK, Refreshing
  <1>9. Base'
    BY <1>3, <1>4, <1>6, <1>7, <1>8, BaseStep
  <1>10. ASSUME Uncrossed' PROVE Apart'
    <2>1. Apart /\ UNCHANGED <<stored, auth>>
      BY <1>10 DEF Issue, Inv, Uncrossed
    <2>2. \A d \in Callers : /\ call'[d].boot = call[d].boot
                             /\ call'[d].pc \in Refreshing <=> call[d].pc \in Refreshing
      BY <1>1, <1>4, <1>6 DEF Moved, Refreshing
    <2>3. OwnTokensOnly' /\ (InFlight(Form)' => \A d \in Callers : ~Booting(d)')
      <3>1. Form \in Callers
        BY DEF Callers
      <3> QED
        BY <2>1, <2>2, <3>1 DEF Apart, OwnTokensOnly, Loading, Booting, InFlight
    <2>4. ASSUME NEW d \in Callers PROVE Undisturbed(d, call[d])' /\ BootOK(call[d])'
      BY <1>1, <1>4, <1>6, <2>1 DEF Moved, Apart, Undisturbed, BootOK, Answered, Refreshing
    <2> QED
      BY <2>3, <2>4 DEF Apart
  <1> QED
    BY <1>9, <1>10 DEF Inv

LEMMA LogoutInv == ASSUME Inv, Logout PROVE Inv'
  <1>1. /\ Form \in Callers /\ call[Form] \in Call /\ CallOK(Form, call[Form])
        /\ call[Form].boot = "no" /\ call \in [Callers -> Call]
    BY AuthAssumption DEF Inv, Base, Callers, CallOK
  <1>2. call' = [Settle EXCEPT ![Form] = call[Form]]
    <2>1. Settle[Form] = call[Form]
      BY <1>1 DEF Settle, Settled
    <2> QED
      BY <1>1, <2>1 DEF Logout, Settle
  <1>3. /\ Moved(Form, call[Form])
        /\ Asking = {} => \A d \in Callers : d # Form => call'[d] = call[d]
    BY <1>1, <1>2, MovedSettle
  <1>4. StateOK' /\ Issued' = Issued
    BY PairFacts DEF Logout, Store, Asking, Inv, Base, StateOK, server, Issued, Marks
  <1>5. Base'
    <2>1. CallOK(Form, call[Form])'
      BY <1>1, <1>3, <1>4 DEF CallOK, Moved
    <2> QED
      BY <1>1, <1>3, <1>4, <2>1, BaseStep
  <1>6. ASSUME Uncrossed' PROVE Apart'
    <2>1. Asking = {} /\ \A d \in Callers : ~Decided(d)
      BY <1>6, MarkFacts DEF Logout, Store, Asking
    <2>2. \A d \in Callers : call[d].boot = "no" /\ call'[d] = call[d]
      BY <1>3, <2>1 DEF Asking, Booting, Moved
    <2>3. ASSUME NEW d \in Callers PROVE Undisturbed(d, call[d])' /\ BootOK(call[d])'
      BY <2>1, <2>2, AuthAssumption DEF Undisturbed, BootOK, Decided, InFlight
    <2>4. OwnTokensOnly'
      BY PairFacts DEF Logout, Store, OwnTokensOnly
    <2> QED
      BY <2>2, <2>3, <2>4 DEF Apart, Booting
  <1> QED
    BY <1>5, <1>6 DEF Inv

LEMMA ExpireInv == ASSUME Inv, Expire PROVE Inv'
  <1>0. stored.serial \in 1..issued
    BY DEF Expire, Inv, Base, StateOK, Issued, NoPair
  <1>1. StateOK' /\ Issued' = Issued
    BY <1>0 DEF Expire, Inv, Base, StateOK, Issued
  <1>2. ASSUME NEW d \in Callers PROVE CallOK(d, call[d])'
    BY <1>1 DEF Inv, Base, CallOK, Expire
  <1>3. Uncrossed' => Apart'
    BY ApartKept DEF Expire, Inv, Uncrossed
  <1> QED
    BY <1>1, <1>2, <1>3 DEF Inv, Base, OneAwaited, Expire

LEMMA RestartInv == ASSUME Inv, NEW q \in Requests, Restart(q) PROVE Inv'
  <1> DEFINE j == [Idle EXCEPT !.pc = "start", !.boot = "awaited"]
  <1>1. q \in Callers /\ q # Form /\ q \notin Sockets
    BY AuthAssumption DEF Callers
  <1>2. CallOK(q, j) /\ Undisturbed(q, j) /\ j.boot = "awaited" /\ j.pc = "start"
    BY <1>1, IdleOK, PairFacts DEF CallOK, Undisturbed, Idle, Call, Refreshing
  <1>3. call' = [c \in Callers |-> IF c = q THEN j ELSE Idle]
    BY DEF Restart
  <1> HIDE DEF j
  <1>4. call' \in [Callers -> Call] /\ Loading' /\ OneAwaited'
    BY <1>1, <1>2, <1>3, IdleOK DEF CallOK, Loading, OneAwaited
  <1>5. \A d \in Callers : (call'[d] = j /\ d = q) \/ call'[d] = Idle
    BY <1>3
  <1>6. StateOK' /\ OwnTokensOnly'
    BY <1>4 DEF Restart, Inv, Base, StateOK, OwnTokensOnly, server, Issued, Marks
  <1>7. ASSUME NEW d \in Callers
        PROVE  CallOK(d, call[d])' /\ Undisturbed(d, call[d])' /\ BootOK(call[d])'
    BY <1>1, <1>2, <1>5, IdleOK
    DEF CallOK, Undisturbed, BootOK, Restart, server, Issued, Refreshing
  <1>8. ~InFlight(Form)'
    BY <1>1, <1>5, IdleOK DEF InFlight, Refreshing, Callers
  <1> QED
    BY <1>4, <1>6, <1>7, <1>8 DEF Inv, Base, Apart

---------------------------------------------------------------------------
(* A call that only moves on, to a step that relies on nothing new. *)
LEMMA GotoInv ==
    ASSUME Inv, NEW c \in Callers, NEW pc, Goto(c, pc), c # Form,
           UNCHANGED <<server, stored, auth, marks>>,
           CallOK(c, [call[c] EXCEPT !.pc = pc]),
           Uncrossed => Undisturbed(c, [call[c] EXCEPT !.pc = pc]),
           pc \notin {"asked", "retry"}
    PROVE  Inv'
  <1> DEFINE j == [call[c] EXCEPT !.pc = pc]
  <1>1. call[c] \in Call /\ j.pc = pc
    BY DEF Inv, Base, Call
  <1>2. call' = [call EXCEPT ![c] = j] /\ j.boot = call[c].boot
    BY <1>1 DEF Goto, Inv, Base, Call
  <1>3. marks' \in SUBSET Marks /\ marks \subseteq marks'
    BY DEF Inv, Base, StateOK
  <1>4. Uncrossed => BootOK(j)
    BY <1>1, <1>2 DEF Inv, Apart, BootOK
  <1>5. CallOK(c, j) /\ (Uncrossed => Undisturbed(c, j))
    OBVIOUS
  <1> HIDE DEF j
  <1> QED
    BY <1>2, <1>3, <1>4, <1>5, QuietStep

(* A call that ends, or a build that fails and is about to clear the tokens. *)
LEMMA GiveUpInv ==
    ASSUME Inv, NEW c \in Callers, c # Form, GiveUp(c), UNCHANGED <<server, stored, auth>>,
           marks' \in SUBSET Marks, marks \subseteq marks'
    PROVE  Inv'
  <1> DEFINE j == [Idle EXCEPT !.pc = IF Booting(c) THEN "drop" ELSE "idle",
                               !.boot = call[c].boot]
  <1>1. CallOK(c, call[c]) /\ call[c] \in Call
    BY DEF Inv, Base
  <1>2. call' = [call EXCEPT ![c] = j]
    BY <1>1 DEF GiveUp, Forget, End, Idle, Booting
  <1>3. CallOK(c, j) /\ j.boot = call[c].boot
    BY <1>1, PairFacts DEF CallOK, Idle, Call, Refreshing, Booting
  <1>4. Undisturbed(c, j) /\ (Uncrossed => BootOK(j))
    BY DEF Inv, Apart, Undisturbed, BootOK, Idle, Refreshing
  <1> HIDE DEF j
  <1> QED
    BY <1>2, <1>3, <1>4, QuietStep

LEMMA MarksKept == ASSUME Inv PROVE marks \in SUBSET Marks /\ marks \cup {"fault"} \in SUBSET Marks
  BY DEF Inv, Base, StateOK, Marks

LEMMA InRequests ==
    ASSUME Inv, NEW c \in Callers,
           call[c].pc \in {"start", "asked", "accepted", "clear", "retry", "drop", "redo"}
    PROVE  c \in Requests /\ c # Form /\ c \notin Sockets
  BY AuthAssumption DEF Inv, Base, CallOK

LEMMA SendInv == ASSUME Inv, NEW c \in Requests \cup Sockets, Send(c) PROVE Inv'
  <1>1. c \in Callers /\ CallOK(c, call[c]) /\ call[c] \in Call /\ call[c].pc = "idle" /\ c # Form
    BY AuthAssumption DEF Inv, Base, Callers, Send
  <1>2. ASSUME NEW pc \in {"rejected", "accepted"}, pc = "accepted" => c \in Requests
        PROVE  CallOK(c, [call[c] EXCEPT !.pc = pc]) /\ Undisturbed(c, [call[c] EXCEPT !.pc = pc])
    BY <1>1, <1>2 DEF CallOK, Call, Undisturbed, Refreshing
  <1> QED
    BY <1>1, <1>2, GotoInv DEF Send

(* The screen that waited for an answer makes AuthNotifier build anew; the  *)
(* app shows an account, so the login form is not in flight.                *)
LEMMA AcceptedInv == ASSUME Inv, NEW c \in Callers, Accepted(c) PROVE Inv'
  <1>1. c \in Requests /\ c # Form /\ c \notin Sockets /\ CallOK(c, call[c]) /\ ~Booting(c)
    BY InRequests DEF Inv, Base, CallOK, Accepted, Booting
  <1>2. CASE End(c)
    BY <1>1, <1>2, GiveUpInv, MarksKept DEF Accepted, GiveUp
  <1>3. CASE auth # NoAccount /\ call' = Rebuilt(c, "start")
    <2> DEFINE j == [Idle EXCEPT !.pc = "start", !.boot = "awaited"]
    <2>1. Moved(c, j) /\ \A d \in Callers : d # c => call'[d].boot \in {"no", "dropped"}
      BY <1>3, MovedRebuilt
    <2>2. StateOK' /\ Issued' = Issued /\ Uncrossed' = Uncrossed
      BY DEF Accepted, Inv, Base, StateOK, server, Issued, Uncrossed
    <2>3. CallOK(c, call[c])' /\ j.pc = "start" /\ j.boot = "awaited"
      BY <1>1, <2>1, PairFacts DEF Moved, CallOK, Idle, Call, Refreshing
    <2> HIDE DEF j
    <2>4. Base'
      BY <2>1, <2>2, <2>3, BaseStep
    <2>5. ASSUME Uncrossed' PROVE Apart'
      <3>1. Apart /\ UNCHANGED <<stored, auth>>
        BY <2>2, <2>5 DEF Inv, Accepted
      <3>2. call[Form].pc \notin Refreshing /\ ~InFlight(Form)'
        BY <1>1, <1>3, <2>1, <3>1 DEF Moved, Apart, Undisturbed, Callers, InFlight
      <3>3. ASSUME NEW d \in Callers PROVE Undisturbed(d, call[d])' /\ BootOK(call[d])'
        <4>1. CASE d = c
          BY <1>3, <2>1, <2>3, <3>1, <4>1 DEF Moved, Undisturbed, BootOK, Refreshing
        <4>2. CASE d # c
          BY <1>3, <2>1, <3>1, <4>2 DEF Moved, Apart, Undisturbed, BootOK
        <4> QED
          BY <4>1, <4>2
      <3> QED
        BY <1>3, <3>1, <3>2, <3>3 DEF Apart, OwnTokensOnly
    <2> QED
      BY <2>4, <2>5 DEF Inv
  <1> QED
    BY <1>2, <1>3 DEF Accepted

LEMMA VerifyInv == ASSUME Inv, NEW c \in Callers, Verify(c) PROVE Inv'
  <1>1. CallOK(c, call[c]) /\ call[c].pc = "posted" /\ c # Form
    BY DEF Inv, Base, CallOK, Verify
  <1>2. ASSUME NEW pc \in {"granted", "refused"}
        PROVE  /\ CallOK(c, [call[c] EXCEPT !.pc = pc])
               /\ Uncrossed => Undisturbed(c, [call[c] EXCEPT !.pc = pc])
    BY <1>1 DEF CallOK, Call, Undisturbed, Refreshing, Inv, Apart
  <1> QED
    BY <1>1, <1>2, GotoInv DEF Verify

LEMMA LoseInv == ASSUME Inv, NEW c \in Callers, Lose(c) PROVE Inv'
  <1>1. CallOK(c, call[c]) /\ call[c] \in Call /\ call[c].pc \in {"posted", "replied"}
    BY DEF Inv, Base, Lose
  <1>2. marks' \in SUBSET Marks /\ marks \subseteq marks' /\ (Uncrossed' => Uncrossed)
    BY MarksKept, MarkFacts DEF Lose
  <1>3. CASE c = Form
    <2>1. call' = [Settle EXCEPT ![Form] = Idle] /\ auth' = NoAccount /\ CallOK(Form, Idle)
      BY <1>3, IdleOK DEF Lose
    <2>2. Uncrossed => auth = NoAccount /\ \A d \in Callers : ~Booting(d)
      BY <1>1, <1>3 DEF Inv, Apart, Undisturbed, InFlight, Refreshing
    <2> QED
      BY <1>2, <2>1, <2>2, IdleOK, FormStep DEF Lose, Refreshing
  <1>4. CASE c # Form
    <2> DEFINE j == [call[c] EXCEPT !.pc = "refused", !.got = NoPair]
    <2>1. CallOK(c, j) /\ Undisturbed(c, j) /\ j.boot = call[c].boot /\ j.pc = "refused"
      BY <1>1, <1>4, PairFacts DEF CallOK, Call, Undisturbed, Refreshing
    <2>2. call' = [call EXCEPT ![c] = j]
      BY <1>1, <1>4 DEF Lose, Inv, Base
    <2>3. Uncrossed => BootOK(j)
      BY <2>1 DEF Inv, Apart, BootOK
    <2> HIDE DEF j
    <2> QED
      BY <1>2, <1>4, <2>1, <2>2, <2>3, QuietStep DEF Lose
  <1> QED
    BY <1>3, <1>4

LEMMA ReceiveInv == ASSUME Inv, NEW c \in Callers, Receive(c) PROVE Inv'
  <1>1. CallOK(c, call[c]) /\ call[c] \in Call /\ call[c].pc = "replied"
    BY DEF Inv, Base, Receive
  <1>2. CASE ~SessionChanged(c) /\ Goto(c, "save") /\ c # Form
    <2>1. CallOK(c, [call[c] EXCEPT !.pc = "save"])
      BY <1>1 DEF CallOK, Call, Refreshing
    <2>2. Uncrossed => Undisturbed(c, [call[c] EXCEPT !.pc = "save"])
      BY <1>1, <1>2 DEF Undisturbed, SessionChanged, CallOK, Call, Refreshing, Inv, Apart
    <2> QED
      BY <1>2, <2>1, <2>2, GotoInv DEF Receive
  <1>3. CASE c = Form /\ Goto(c, "save")
    <2> DEFINE j == [call[c] EXCEPT !.pc = "save"]
    <2>1. CallOK(c, j) /\ j.boot = call[c].boot /\ j.pc = "save" /\ j \in Call
      BY <1>1 DEF CallOK, Call, Refreshing
    <2>2. call' = [call EXCEPT ![c] = j]
      BY <1>1, <1>3 DEF Goto, Inv, Base
    <2>3. Moved(c, j) /\ \A d \in Callers : d # c => call'[d] = call[d]
      BY <2>1, <2>2, MovedOne DEF Inv, Base
    <2>4. StateOK' /\ Issued' = Issued /\ Uncrossed' = Uncrossed
      BY DEF Receive, Inv, Base, StateOK, server, Issued, Uncrossed
    <2>5. CallOK(c, call[c])'
      BY <2>1, <2>3, <2>4 DEF CallOK, Moved
    <2> HIDE DEF j
    <2>6. Base'
      BY <2>1, <2>3, <2>4, <2>5, BaseStep
    <2>7. ASSUME Uncrossed' PROVE Apart'
      <3>1. Apart /\ UNCHANGED <<stored, auth>>
        BY <2>4, <2>7 DEF Inv, Receive
      <3>2. \A d \in Callers : call'[d].boot = call[d].boot /\ ~Booting(d)
        BY <1>1, <1>3, <2>1, <2>3, <3>1 DEF Moved, Apart, InFlight, Refreshing
      <3>3. ASSUME NEW d \in Callers PROVE Undisturbed(d, call[d])' /\ BootOK(call[d])'
        BY <1>1, <1>3, <2>1, <2>3, <3>1, <3>2, AuthAssumption
        DEF Moved, Apart, Undisturbed, BootOK, Booting, Refreshing
      <3> QED
        BY <3>1, <3>2, <3>3 DEF Apart, OwnTokensOnly, Loading, Booting
    <2> QED
      BY <2>6, <2>7 DEF Inv
  <1>4. CASE SessionChanged(c) /\ GiveUp(c)
    <2>1. c # Form
      BY <1>4, AuthAssumption DEF SessionChanged
    <2> QED
      BY <1>4, <2>1, GiveUpInv, MarksKept DEF Receive
  <1> QED
    BY <1>2, <1>3, <1>4 DEF Receive

LEMMA StartRefreshInv == ASSUME Inv, NEW c \in Callers, StartRefresh(c) PROVE Inv'
  <1>1. CallOK(c, call[c]) /\ call[c] \in Call /\ c # Form
    BY DEF Inv, Base, CallOK, StartRefresh
  <1>2. CASE /\ stored # NoPair
             /\ call' = [call EXCEPT ![c].pc = "posted", ![c].used = stored]
             /\ marks' = marks \cup Overlapping(stored.account)
    <2> DEFINE j == [call[c] EXCEPT !.pc = "posted", !.used = stored]
    <2>1. stored \in Pair /\ stored.account \in Accounts
      BY <1>2, PairFacts DEF Inv, Base, StateOK
    <2>2. /\ CallOK(c, j) /\ Undisturbed(c, j) /\ j.boot = call[c].boot
          /\ j.pc = "posted"
      BY <1>1, <2>1 DEF CallOK, Call, Refreshing, Undisturbed, StartRefresh
    <2>3. call' = [call EXCEPT ![c] = j]
      BY <1>2 DEF Inv, Base
    <2>4. marks' \in SUBSET Marks /\ marks \subseteq marks'
      BY <1>2 DEF Overlapping, Inv, Base, StateOK, Marks
    <2>5. Uncrossed => BootOK(j)
      BY <2>2 DEF Inv, Apart, BootOK
    <2> HIDE DEF j
    <2> QED
      BY <1>1, <2>2, <2>3, <2>4, <2>5, QuietStep DEF StartRefresh
  <1>3. CASE GiveUp(c) /\ UNCHANGED marks
    BY <1>1, <1>3, GiveUpInv, MarksKept DEF StartRefresh
  <1> QED
    BY <1>2, <1>3 DEF StartRefresh

(* A request whose token is accepted: of a build, the user is on the way.   *)
LEMMA SentInv ==
    ASSUME Inv, NEW c \in Requests, NEW pc, NEW pair \in Pair, pair.account \in Accounts,
           call[c].pc \in {"start", "retry"},
           pc = IF Booting(c) THEN "asked" ELSE "accepted",
           call' = [call EXCEPT ![c].pc = pc, ![c].used = pair],
           UNCHANGED <<server, stored, auth, marks>>,
           Uncrossed /\ call[c].boot = "awaited" =>
             /\ stored.account \in {pair.account, NoAccount}
             /\ \/ auth = pair.account
                \/ auth = NoAccount /\ stored.account = pair.account
    PROVE  Inv'
  <1> DEFINE j == [call[c] EXCEPT !.pc = pc, !.used = pair]
  <1>1. c \in Callers /\ c # Form /\ c \notin Sockets /\ CallOK(c, call[c]) /\ call[c] \in Call
    BY AuthAssumption DEF Callers, Inv, Base
  <1>2. pair \in Pair /\ pair.account \in Accounts
    OBVIOUS
  <1>3. j \in Call /\ j.pc = pc /\ j.used = pair /\ j.boot = call[c].boot
    BY <1>1, <1>2 DEF Call
  <1>4. CallOK(c, j) /\ Undisturbed(c, j)
    BY <1>1, <1>2, <1>3 DEF CallOK, Booting, Refreshing, Undisturbed
  <1>5. Uncrossed => BootOK(j)
    BY <1>1, <1>3 DEF Inv, Apart, BootOK, Answered, Booting
  <1>6. call' = [call EXCEPT ![c] = j]
    BY <1>1 DEF Inv, Base
  <1> HIDE DEF j
  <1> QED
    BY <1>1, <1>3, <1>4, <1>5, <1>6, MarksKept, QuietStep

(* Back to "rejected", from an answer that came while the app starts or retries. *)
LEMMA RejectedInv ==
    ASSUME Inv, NEW c \in Requests, Goto(c, "rejected"),
           UNCHANGED <<server, stored, auth, marks>>
    PROVE  Inv'
  <1>1. c \in Callers /\ c # Form /\ c \notin Sockets
    BY AuthAssumption DEF Callers
  <1>2. CallOK(c, [call[c] EXCEPT !.pc = "rejected"])
        /\ Undisturbed(c, [call[c] EXCEPT !.pc = "rejected"])
    BY <1>1 DEF Inv, Base, CallOK, Call, Undisturbed, Refreshing
  <1> QED
    BY <1>1, <1>2, GotoInv

LEMMA BuildInv == ASSUME Inv, NEW c \in Callers, Build(c) PROVE Inv'
  <1>1. c \in Requests /\ c # Form /\ CallOK(c, call[c]) /\ Booting(c) /\ call[c].pc = "start"
    BY InRequests DEF Build, Inv, Base, CallOK, Booting
  <1>2. stored \in Issued \cup {NoPair} /\ (Uncrossed => OwnTokensOnly)
    BY DEF Inv, Base, StateOK, Apart
  <1>3. CASE stored = NoPair /\ Shows(c, NoAccount) /\ End(c)
    BY <1>1, <1>3, ShownStep DEF Build, Booting
  <1>4. CASE /\ Usable(stored) /\ UNCHANGED auth
             /\ call' = [call EXCEPT ![c].pc = "asked", ![c].used = stored]
    <2>1. stored \in Pair /\ stored.account \in Accounts /\ stored.account # NoAccount
      BY <1>2, <1>4, PairFacts, AuthAssumption DEF Usable
    <2>2. Uncrossed => auth \in {NoAccount, stored.account}
      BY <1>2, <2>1 DEF OwnTokensOnly
    <2> QED
      BY <1>1, <1>4, <2>1, <2>2, SentInv DEF Build
  <1>5. CASE Goto(c, "rejected") /\ UNCHANGED auth
    BY <1>1, <1>5, RejectedInv DEF Build
  <1> QED
    BY <1>3, <1>4, <1>5 DEF Build

LEMMA AskedInv == ASSUME Inv, NEW c \in Callers, Asked(c) PROVE Inv'
  <1>1. /\ c \in Requests /\ c # Form /\ CallOK(c, call[c]) /\ Booting(c)
        /\ call[c].used.account \in Accounts
    BY InRequests DEF Asked, Inv, Base, CallOK, Booting
  <1>2. CASE Fails(c)
    BY <1>1, <1>2, GiveUpInv, MarksKept DEF Fails, Asked
  <1>3. CASE Shows(c, call[c].used.account) /\ End(c) /\ UNCHANGED marks
    <2>1. Uncrossed /\ call[c].boot = "awaited" =>
            stored.account \in {call[c].used.account, NoAccount}
      BY DEF Asked, Inv, Apart, BootOK, Answered
    <2> QED
      BY <1>1, <1>3, <2>1, ShownStep, AuthAssumption DEF Asked, Booting
  <1> QED
    BY <1>2, <1>3 DEF Asked

LEMMA RetryInv == ASSUME Inv, NEW c \in Callers, Retry(c) PROVE Inv'
  <1>1. /\ c \in Requests /\ c # Form /\ call[c] \in Call /\ call[c].pc = "retry"
        /\ CallOK(c, call[c])
    BY InRequests DEF Retry, Inv, Base
  <1>2. CASE /\ Usable(Resent(c)) /\ UNCHANGED marks
             /\ call' = [call EXCEPT ![c].pc = IF Booting(c) THEN "asked" ELSE "accepted",
                                     ![c].used = Resent(c)]
    <2>1. Resent(c) \in Pair /\ Resent(c).account \in Accounts
      BY <1>1, PairFacts DEF Resent, CallOK, Call, Inv, Base, StateOK
    <2>2. Uncrossed /\ call[c].boot = "awaited" => Answered(call[c])
      BY <1>1 DEF Inv, Apart, BootOK
    <2>3. Uncrossed /\ call[c].boot = "awaited" =>
            /\ stored.account \in {Resent(c).account, NoAccount}
            /\ \/ auth = Resent(c).account
               \/ auth = NoAccount /\ stored.account = Resent(c).account
      BY <2>2, PairFacts, AuthAssumption DEF Resent, Answered, Inv, Base, StateOK
    <2> QED
      BY <1>1, <1>2, <2>1, <2>3, SentInv DEF Retry
  <1>3. CASE Goto(c, "rejected") /\ UNCHANGED marks
    BY <1>1, <1>3, RejectedInv DEF Retry
  <1>4. CASE GiveUp(c) /\ marks' = marks \cup {"fault"}
    BY <1>1, <1>4, GiveUpInv, MarksKept DEF Retry
  <1> QED
    BY <1>2, <1>3, <1>4 DEF Retry

LEMMA RefusedInv == ASSUME Inv, NEW c \in Callers, Refused(c) PROVE Inv'
  <1>1. CallOK(c, call[c]) /\ c # Form
    BY DEF Refused, Inv, Base, CallOK
  <1>2. CASE c \in Requests /\ Goto(c, "clear")
    <2>1. CallOK(c, [call[c] EXCEPT !.pc = "clear"])
          /\ Undisturbed(c, [call[c] EXCEPT !.pc = "clear"])
      BY <1>1, <1>2, AuthAssumption DEF CallOK, Call, Undisturbed, Refreshing
    <2> QED
      BY <1>1, <1>2, <2>1, GotoInv DEF Refused
  <1>3. CASE GiveUp(c)
    BY <1>1, <1>3, GiveUpInv, MarksKept DEF Refused
  <1>4. CASE c \in Sockets /\ End(c)
    <2>1. ~Booting(c)
      BY <1>1, <1>4, AuthAssumption DEF CallOK, Booting
    <2> QED
      BY <1>1, <1>4, <2>1, GiveUpInv, MarksKept DEF Refused, GiveUp
  <1> QED
    BY <1>2, <1>3, <1>4 DEF Refused

---------------------------------------------------------------------------
(* The writes of the storage. *)
LEMMA DropInv == ASSUME Inv, NEW c \in Callers, Drop(c) PROVE Inv'
  <1>1. /\ CallOK(c, call[c]) /\ call[c] \in Call /\ c \in Requests /\ call[c].boot # "no"
        /\ stored' = NoPair /\ auth \in Accounts \cup {NoAccount}
    BY InRequests DEF Inv, Base, StateOK, CallOK, Drop, Store
  <1>2. /\ OwnTokensOnly'
        /\ \A k \in Call : k.boot \in {"no", "dropped"} => BootOK(k)'
    BY <1>1, PairFacts DEF OwnTokensOnly, BootOK
  <1>3. Uncrossed' => Uncrossed /\ \A d \in Callers : BootOK(call[d])
    BY MarkFacts DEF Drop, Store, Inv, Apart
  <1>0. ASSUME Uncrossed', NEW d \in Callers, d # c, call[d].boot = "awaited"
        PROVE  call[c].boot = "dropped" /\ (auth # NoAccount \/ stored = NoPair)
    <2>1. call[c].boot # "awaited"
      BY <1>0 DEF Inv, Base, OneAwaited
    <2>2. BootOK(call[c])
      BY <1>0, <1>3
    <2>3. call[c].boot = "dropped"
      BY <1>1, <2>1, <2>2 DEF BootOK, Call
    <2> QED
      BY <2>2, <2>3 DEF BootOK
  <1>4. CASE call[c].pc = "drop" /\ Shows(c, NoAccount) /\ End(c)
    <2>1. Moved(c, Idle) /\ \A d \in Callers : d # c => call'[d] = call[d]
      BY <1>4, IdleOK, MovedOne DEF Inv, Base, End
    <2>2. auth' \in {auth, NoAccount}
      BY <1>4 DEF Shows
    <2>3. ASSUME Uncrossed', NEW d \in Callers PROVE BootOK(call[d])'
      <3>1. CASE d = c
        BY <1>2, <2>1, <3>1, IdleOK DEF Moved, BootOK
      <3>2. CASE d # c /\ call[d].boot = "awaited"
        <4>1. auth # NoAccount \/ stored = NoPair
          BY <1>0, <2>3, <3>2
        <4>2. auth' = auth
          BY <1>0, <1>4, <2>3, <3>2 DEF Shows
        <4>3. call[d].pc \in {"asked", "retry"} =>
                 Answered(call[d]) /\ call[d].used.account \in Accounts
          BY <1>3, <2>3, <3>2 DEF BootOK, Inv, Base, CallOK
        <4>4. call[d].pc \in {"asked", "retry"} => auth = call[d].used.account
          BY <4>1, <4>3, PairFacts, AuthAssumption DEF Answered
        <4>5. call'[d] = call[d] /\ stored'.account = NoAccount
          BY <1>1, <2>1, <3>2, PairFacts
        <4>6. call'[d].boot = "awaited" /\ auth' = auth
          BY <3>2, <4>2, <4>5
        <4>7. call'[d].pc \in {"asked", "retry"} => Answered(call[d])'
          BY <4>4, <4>5, <4>6 DEF Answered
        <4> QED
          BY <4>6, <4>7 DEF BootOK
      <3>3. CASE d # c /\ call[d].boot # "awaited"
        BY <1>1, <1>3, <2>1, <2>3, <3>3 DEF BootOK
      <3> QED
        BY <3>1, <3>2, <3>3
    <2> QED
      BY <1>1, <1>2, <2>1, <2>2, <2>3, IdleOK, WriteStep DEF Drop, Refreshing
  <1>5. CASE call[c].pc = "redo" /\ Goto(c, "start") /\ UNCHANGED auth
    <2> DEFINE j == [call[c] EXCEPT !.pc = "start"]
    <2>1. CallOK(c, j) /\ j.boot = call[c].boot /\ j.pc = "start" /\ j \in Call
      BY <1>1, AuthAssumption DEF CallOK, Call, Refreshing
    <2>2. call' = [call EXCEPT ![c] = j]
      BY <1>1, <1>5 DEF Goto, Inv, Base
    <2> HIDE DEF j
    <2>3. Moved(c, j) /\ \A d \in Callers : d # c => call'[d] = call[d]
      BY <2>1, <2>2, MovedOne DEF Inv, Base
    <2>4. ASSUME Uncrossed', NEW d \in Callers PROVE BootOK(call[d])'
      <3>1. CASE d = c
        BY <1>1, <1>3, <1>5, <2>1, <2>3, <2>4, <3>1 DEF Moved, BootOK
      <3>2. CASE d # c /\ call[d].boot = "awaited"
        <4>1. auth # NoAccount \/ stored = NoPair
          BY <1>0, <2>4, <3>2
        <4>2. call[d].pc \in {"asked", "retry"} =>
                 Answered(call[d]) /\ call[d].used.account \in Accounts
          BY <1>3, <2>4, <3>2 DEF BootOK, Inv, Base, CallOK
        <4>3. call[d].pc \in {"asked", "retry"} => auth = call[d].used.account
          BY <4>1, <4>2, PairFacts, AuthAssumption DEF Answered
        <4>4. call'[d] = call[d] /\ stored'.account = NoAccount
          BY <1>1, <2>3, <3>2, PairFacts
        <4>5. call'[d].boot = "awaited" /\ auth' = auth
          BY <1>5, <3>2, <4>4
        <4>6. call'[d].pc \in {"asked", "retry"} => Answered(call[d])'
          BY <4>3, <4>4, <4>5 DEF Answered
        <4> QED
          BY <4>5, <4>6 DEF BootOK
      <3>3. CASE d # c /\ call[d].boot # "awaited"
        BY <1>1, <1>3, <1>5, <2>3, <2>4, <3>3 DEF BootOK
      <3> QED
        BY <3>1, <3>2, <3>3
    <2> QED
      BY <1>1, <1>2, <1>5, <2>1, <2>3, <2>4, WriteStep DEF Drop, Refreshing
  <1> QED
    BY <1>4, <1>5 DEF Drop

LEMMA ClearInv == ASSUME Inv, NEW c \in Callers, Clear(c) PROVE Inv'
  <1>1. /\ c \in Requests /\ c # Form /\ c \notin Sockets
        /\ auth \in Accounts \cup {NoAccount} /\ stored' = NoPair /\ UNCHANGED auth
    BY InRequests DEF Clear, Store, Inv, Base, StateOK
  <1>2. PICK pc \in {"start", "redo"} : call' = Rebuilt(c, pc)
    BY DEF Clear, Invalidated
  <1> DEFINE j == [Idle EXCEPT !.pc = pc, !.boot = "awaited"]
  <1>3. Moved(c, j) /\ \A d \in Callers : d # c => call'[d].boot \in {"no", "dropped"}
    BY <1>2, MovedRebuilt
  <1>4. CallOK(c, j) /\ j.pc \notin Refreshing \cup {"asked", "retry"} /\ j.boot = "awaited"
    BY <1>1, PairFacts DEF CallOK, Idle, Call, Refreshing
  <1> HIDE DEF j
  <1>5. OwnTokensOnly'
    BY <1>1, PairFacts DEF OwnTokensOnly
  <1>6. ASSUME NEW d \in Callers PROVE BootOK(call[d])'
    BY <1>1, <1>3, <1>4 DEF Moved, BootOK
  <1> QED
    BY <1>1, <1>3, <1>4, <1>5, <1>6, WriteStep DEF Clear

(* What a saved pair replaces is the pair of the same account; the login    *)
(* form shows the account it saves for.                                     *)
LEMMA SaveInv == ASSUME Inv, NEW c \in Callers, Save(c) PROVE Inv'
  <1>1. CallOK(c, call[c]) /\ call[c] \in Call /\ call[c].pc = "save"
    BY DEF Inv, Base, Save
  <1>2. call[c].got \in Issued /\ call[c].got.account = call[c].used.account
        /\ call[c].got.account \in Accounts /\ call[c].got \in Pair
    BY <1>1, PairFacts DEF CallOK
  <1>3. Uncrossed' => Uncrossed /\ Apart
    BY MarkFacts DEF Save, Store, Inv
  <1>4. auth \in Accounts \cup {NoAccount} /\ stored \in Issued \cup {NoPair}
        /\ stored' = call[c].got /\ call \in [Callers -> Call]
    BY DEF Inv, Base, StateOK, Save, Store, Saved
  <1>5. CASE c # Form
    <2>1. c \in Requests \cup Sockets /\ UNCHANGED auth
      BY <1>5, AuthAssumption DEF Callers, Save
    <2> DEFINE j == IF c \in Requests
                    THEN [call[c] EXCEPT !.pc = "retry", !.used = call[c].got, !.got = NoPair]
                    ELSE Idle
    <2>2. call' = [call EXCEPT ![c] = j]
      <3>1. CASE c \in Requests
        BY <1>4, <1>5, <3>1, AuthAssumption DEF Save
      <3>2. CASE c \in Sockets
        BY <1>4, <1>5, <3>2, AuthAssumption DEF Save, End
      <3> QED
        BY <2>1, <3>1, <3>2
    <2>3. /\ CallOK(c, j) /\ j.boot = call[c].boot /\ j.pc \notin Refreshing \cup {"asked"}
          /\ j.pc = "retry" => j.used = call[c].got
      <3>1. CASE c \in Requests
        BY <1>1, <1>2, <1>5, <3>1, PairFacts, AuthAssumption DEF CallOK, Call, Refreshing
      <3>2. CASE c \notin Requests
        BY <1>1, <3>2, IdleOK DEF CallOK, Refreshing
      <3> QED
        BY <3>1, <3>2
    <2> HIDE DEF j
    <2>4. Moved(c, j) /\ \A d \in Callers : d # c => call'[d] = call[d]
      BY <1>4, <2>2, <2>3, MovedOne DEF CallOK
    <2>5. ASSUME Uncrossed'
          PROVE /\ stored = call[c].used /\ stored.account = stored'.account
                /\ stored # NoPair /\ stored'.account # NoAccount
      <3>1. stored = call[c].used
        BY <1>1, <1>3, <2>1, <2>5 DEF Apart, Undisturbed, Refreshing
      <3> QED
        BY <1>2, <1>4, <3>1, PairFacts, AuthAssumption
    <2>6. ASSUME Uncrossed' PROVE OwnTokensOnly' /\ \A d \in Callers : BootOK(call[d])'
      <3>1. Apart /\ (Loading' <=> Loading)
        BY <1>3, <2>3, <2>4, <2>6 DEF Loading, Moved
      <3>2. ASSUME NEW d \in Callers, d # c PROVE BootOK(call[d])'
        BY <2>1, <2>4, <2>5, <2>6, <3>1, <3>2 DEF Apart, BootOK, Answered
      <3>3. BootOK(call[c])'
        <4>1. BootOK(call[c]) /\ call'[c] = j /\ auth \in {NoAccount, stored'.account}
          BY <1>4, <2>4, <2>5, <2>6, <3>1 DEF Apart, Moved, OwnTokensOnly
        <4> QED
          BY <1>4, <2>1, <2>3, <2>5, <2>6, <4>1 DEF BootOK, Answered
      <3> QED
        BY <2>1, <2>5, <2>6, <3>1, <3>2, <3>3 DEF Apart, OwnTokensOnly
    <2> QED
      BY <1>2, <1>4, <2>1, <2>3, <2>4, <2>6, WriteStep DEF Save, Saved
  <1>6. CASE c = Form
    <2>1. call' = [Settle EXCEPT ![Form] = Idle] /\ auth' = call[c].got.account
      BY <1>6, AuthAssumption DEF Save
    <2>2. Moved(c, Idle) /\ \A d \in Callers : d # c => call'[d].boot # "awaited"
      BY <1>6, <2>1, IdleOK, MovedSettle
    <2>3. OwnTokensOnly'
      BY <1>2, <1>4, <2>1, AuthAssumption DEF OwnTokensOnly
    <2>4. ASSUME Uncrossed', NEW d \in Callers PROVE BootOK(call[d])'
      <3>1. \A e \in Callers : call[e].boot = "no"
        BY <1>1, <1>3, <1>6, <2>4 DEF Apart, InFlight, Refreshing, Booting
      <3>2. call'[d].boot = "no"
        BY <2>2, <3>1, IdleOK DEF Moved
      <3> QED
        BY <3>2 DEF BootOK
    <2> QED
      BY <1>2, <2>1, <2>2, <2>3, <2>4, IdleOK, WriteStep DEF Save, Saved, Refreshing
  <1> QED
    BY <1>5, <1>6

LEMMA StutterInv == ASSUME Inv, UNCHANGED vars PROVE Inv'
  <1>1. Base'
    BY DEF vars, Inv, Base, StateOK, CallOK, OneAwaited, Issued
  <1>2. Uncrossed' => Apart'
    BY ApartKept DEF vars, Inv, Uncrossed
  <1> QED
    BY <1>1, <1>2 DEF Inv

(* Every step keeps the invariant: one lemma per action. *)
LEMMA NextInv == ASSUME Inv, [Next]_vars PROVE Inv'
  <1>1. ASSUME NEW c \in Callers, Answer(c) PROVE Inv'
    BY <1>1, IssueInv, VerifyInv, ReceiveInv, SaveInv, StartRefreshInv, AcceptedInv,
       BuildInv, AskedInv, DropInv, RetryInv, RefusedInv, ClearInv DEF Answer
  <1>2. CASE Next
    BY <1>1, <1>2, SubmitInv, OtherDeviceInv, LogoutInv, ExpireInv, RestartInv,
       SendInv, LoseInv DEF Next
  <1> QED
    BY <1>2, StutterInv

THEOREM Invariance == Spec => []Inv
  BY InitInv, NextInv, PTL DEF Spec

---------------------------------------------------------------------------
(* Every variable keeps its type, whatever overlaps. *)
THEOREM TypeCorrect == Spec => []TypeOK
  <1>1. Inv => TypeOK
    BY DEF Inv, Base, StateOK, TypeOK
  <1> QED
    BY <1>1, Invariance, PTL

(* An app on the login screen holds no tokens, for any number of requests,  *)
(* sockets and accounts, and of builds that supersede one another, unless   *)
(* the storage changed under a decided write or the user signed in or out   *)
(* while a build was out.                                                   *)
THEOREM SignedOutIsEmpty == Spec => []SignedOutHoldsNothing
  <1>1. Inv => SignedOutHoldsNothing
    BY DEF Inv, Apart, OwnTokensOnly, SignedOutHoldsNothing
  <1> QED
    BY <1>1, Invariance, PTL

(* The tokens stored belong to the account shown, likewise: no refresh of   *)
(* an earlier session overwrites those of a later one.                      *)
THEOREM TokensAreOwn == Spec => []OwnTokens
  <1>1. Inv => OwnTokens
    BY DEF Inv, Apart, OwnTokensOnly, OwnTokens
  <1> QED
    BY <1>1, Invariance, PTL
---------------------------------------------------------------------------
(* While nothing that the code does not shield from has happened, a refresh *)
(* on its way holds the pair the backend accepts, the pair in storage is    *)
(* accepted unless a refresh of it has just replaced it, and a build that   *)
(* refreshes, does so for the stored pair.                                  *)
Held(c, j) ==
    /\ j.pc \notin {"refused", "clear", "drop", "redo"}
    /\ c # Form /\ j.pc \in {"posted", "granted"} => session[j.used.account] = j.used
    /\ j.pc \in {"replied", "save"} => session[j.used.account] = j.got
    /\ j.pc \in Refreshing /\ stored.account = j.used.account => stored = j.used
    /\ j.boot # "no" =>
         /\ j.pc # "start" => stored # NoPair
         /\ j.pc \in Refreshing => stored = j.used

(* The account c is refreshing, or signing in to.                           *)
Renews(j, a) == j.pc \in Refreshing /\ j.used.account = a

Alone == \A c, d \in Callers :
    c # d /\ call[c].pc \in Refreshing => ~Renews(call[d], call[c].used.account)

StoredAccepted ==
    stored # NoPair /\ (\A c \in Callers : ~Renews(call[c], stored.account))
        => session[stored.account] = stored

Calm ==
    /\ \A c \in Callers : Held(c, call[c])
    /\ Alone
    /\ StoredAccepted

CalmInv == Inv /\ (marks = {} => Calm)

(* A call that moves on: what its new step needs.                           *)
Fits(c, j) ==
    /\ Held(c, j)
    /\ j.pc \in Refreshing =>
         \A d \in Callers : d # c => ~Renews(call[d], j.used.account)
    /\ Renews(call[c], stored.account) /\ stored # NoPair
         => Renews(j, stored.account) \/ session[stored.account] = stored

LEMMA CalmMove ==
    ASSUME Calm, NEW c \in Callers, NEW j, Fits(c, j), Moved(c, j),
           UNCHANGED <<session, stored>>
    PROVE  Calm'
  <1>1. \A d \in Callers : \A a : d # c => (Renews(call'[d], a) <=> Renews(call[d], a))
    BY DEF Moved, Renews
  <1>2. ASSUME NEW d \in Callers PROVE Held(d, call[d])'
    <2>1. CASE d = c
      BY <2>1 DEF Fits, Held, Moved
    <2>2. CASE d # c
      BY <2>2 DEF Calm, Held, Moved
    <2> QED
      BY <2>1, <2>2
  <1>3. Alone'
    <2> SUFFICES ASSUME NEW x \in Callers, NEW y \in Callers, x # y, call'[x].pc \in Refreshing
                 PROVE  ~Renews(call'[y], call'[x].used.account)
      BY DEF Alone, Renews
    <2>1. CASE x = c
      BY <1>1, <2>1 DEF Fits, Moved
    <2>2. CASE y = c
      BY <1>1, <2>2 DEF Fits, Moved, Renews
    <2>3. CASE x # c /\ y # c
      BY <1>1, <2>3 DEF Calm, Alone, Moved
    <2> QED
      BY <2>1, <2>2, <2>3
  <1>4. StoredAccepted'
    <2> SUFFICES ASSUME stored # NoPair,
                        \A d \in Callers : ~Renews(call'[d], stored.account)
                 PROVE  session[stored.account] = stored
      BY DEF StoredAccepted, Renews
    <2>1. ~Renews(j, stored.account)
      BY DEF Moved
    <2>2. \A d \in Callers : d # c => ~Renews(call[d], stored.account)
      BY <1>1
    <2> QED
      BY <2>1, <2>2 DEF Fits, Calm, StoredAccepted
  <1> QED
    BY <1>2, <1>3, <1>4 DEF Calm

LEMMA CalmEnd ==
    ASSUME Inv, Calm, NEW c \in Callers, call[c].pc \notin Refreshing, End(c),
           UNCHANGED <<session, stored>>
    PROVE  Calm'
  <1>1. Fits(c, Idle)
    BY IdleOK DEF Fits, Held, Renews, Refreshing
  <1>2. Moved(c, Idle)
    BY IdleOK, MovedOne DEF End, Inv, Base
  <1> QED
    BY <1>1, <1>2, CalmMove

LEMMA CalmGoto ==
    ASSUME Inv, Calm, NEW c \in Callers,
           NEW pc \in {"rejected", "accepted", "granted", "save"}, Goto(c, pc),
           Fits(c, [call[c] EXCEPT !.pc = pc]), UNCHANGED <<session, stored>>
    PROVE  Calm'
  <1>1. [call[c] EXCEPT !.pc = pc] \in Call /\ call \in [Callers -> Call]
    BY DEF Inv, Base, Call, Refreshing
  <1>2. call' = [call EXCEPT ![c] = [call[c] EXCEPT !.pc = pc]]
    BY <1>1 DEF Goto
  <1>3. Moved(c, [call[c] EXCEPT !.pc = pc])
    BY <1>1, <1>2, MovedOne
  <1> QED
    BY <1>3, CalmMove

---------------------------------------------------------------------------
LEMMA CalmSubmit ==
    ASSUME Inv, Calm, NEW a \in Accounts, Submit(a), marks' = {}
    PROVE  Calm'
  <1> DEFINE j == [call[Form] EXCEPT !.pc = "granted",
                                     !.used = [NoPair EXCEPT !.account = a]]
  <1>1. Form \in Callers /\ call[Form] \in Call /\ CallOK(Form, call[Form])
    BY DEF Inv, Base, Callers
  <1>2. /\ j \in Call /\ j.pc = "granted" /\ j.used.account = a /\ j.boot = "no"
    BY <1>1, PairFacts, AuthAssumption DEF Call, Refreshing, CallOK
  <1>3. call' = [Settle EXCEPT ![Form] = j]
    <2>1. Settle[Form] = call[Form]
      BY <1>1, AuthAssumption DEF Settle, Settled, CallOK
    <2> QED
      BY <1>1, <2>1 DEF Submit, Settle
  <1>4. \A d \in Callers : ~Renews(call[d], a)
    BY DEF Submit, Overlapping, InFlight, Renews
  <1>5. Uncrossed /\ \A d \in Callers : ~Booting(d)
    BY MarkFacts DEF Submit, Asking
  <1>6. stored = NoPair
    BY <1>5 DEF Submit, Inv, Apart, OwnTokensOnly, Loading, Booting
  <1> HIDE DEF j
  <1>7. Moved(Form, j)
    BY <1>2, <1>3, MovedSettle
  <1>8. Fits(Form, j)
    BY <1>2, <1>4, <1>6, PairFacts, AuthAssumption DEF Fits, Held, Refreshing
  <1> QED
    BY <1>1, <1>7, <1>8, CalmMove DEF Submit, server

(* A pair is issued for the one call that renews its account.               *)
LEMMA CalmIssue ==
    ASSUME Inv, Calm, NEW c \in Callers, Issue(c)
    PROVE  Calm'
  <1> DEFINE a == call[c].used.account
             j == [call[c] EXCEPT !.pc = "replied", !.got = NextPair(a)]
  <1>1. call[c] \in Call /\ CallOK(c, call[c]) /\ call[c].pc = "granted"
    BY DEF Inv, Base, Issue
  <1>2. a \in Accounts /\ session \in [Accounts -> Issued \cup {NoPair}]
    BY <1>1 DEF CallOK, Refreshing, Inv, Base, StateOK
  <1>3. /\ j.pc = "replied" /\ j.got = NextPair(a)
        /\ j.used = call[c].used /\ j.boot = call[c].boot
    BY <1>1 DEF Call
  <1>4. call' = [call EXCEPT ![c] = j]
    BY <1>1 DEF Issue, Inv, Base
  <1>5. /\ session'[a] = NextPair(a)
        /\ \A b \in Accounts : b # a => session'[b] = session[b]
    BY <1>2 DEF Issue, Rotated
  <1> HIDE DEF j
  <1>6. /\ call'[c] = j
        /\ \A d \in Callers : d # c => call'[d] = call[d]
    BY <1>4 DEF Inv, Base
  <1>7. /\ call[c].pc \in Refreshing /\ j.pc \in Refreshing
        /\ UNCHANGED stored
    BY <1>1, <1>3 DEF Refreshing, Issue
  <1>8. ASSUME NEW d \in Callers PROVE Held(d, call[d])'
    <2>1. CASE d = c
      <3>1. Held(c, call[c])
        BY DEF Calm
      <3> QED
        BY <1>1, <1>3, <1>5, <1>6, <1>7, <2>1, <3>1 DEF Held
    <2>2. CASE d # c
      <3>1. call[d].pc \in Refreshing => call[d].used.account \in Accounts
                                         /\ call[d].used.account # a
        BY <1>7, <2>2 DEF Inv, Base, CallOK, Calm, Alone, Renews
      <3>2. Held(d, call[d])
        BY DEF Calm
      <3> QED
        BY <1>5, <1>6, <1>7, <2>2, <3>1, <3>2 DEF Held, Refreshing
    <2> QED
      BY <2>1, <2>2
  <1>9. /\ \A d \in Callers : call'[d].pc \in Refreshing <=> call[d].pc \in Refreshing
        /\ \A d \in Callers : call'[d].used = call[d].used
    BY <1>1, <1>3, <1>6, <1>7
  <1>10. Alone'
    BY <1>9 DEF Calm, Alone, Renews
  <1>11. StoredAccepted'
    <2> SUFFICES ASSUME stored # NoPair,
                        \A d \in Callers : ~Renews(call'[d], stored.account)
                 PROVE  session'[stored.account] = stored
      BY <1>7 DEF StoredAccepted, Renews
    <2>1. \A d \in Callers : ~Renews(call[d], stored.account)
      BY <1>9 DEF Renews
    <2>2. stored.account \in Accounts /\ stored.account # a
      BY <1>7, <2>1, PairFacts DEF Renews, Inv, Base, StateOK
    <2> QED
      BY <1>5, <2>1, <2>2 DEF Calm, StoredAccepted
  <1> QED
    BY <1>8, <1>10, <1>11 DEF Calm

(* No build is out, or the logout is marked.                                *)
LEMMA CalmLogout ==
    ASSUME Inv, Calm, Logout, marks' = {}
    PROVE  Calm'
  <1>1. \A c \in Callers : call[c].boot = "no"
    BY DEF Logout, Store, Asking, Booting
  <1>2. \A c \in Callers : call'[c] = call[c]
    BY <1>1, SettledCall DEF Logout, Settle, Inv, Base
  <1>3. stored' = NoPair /\ UNCHANGED session
    BY DEF Logout, Store, server
  <1>4. ASSUME NEW c \in Callers PROVE Held(c, call[c])'
    <2>1. call[c].pc \in Refreshing => call[c].used.account # NoAccount
      BY AuthAssumption DEF Inv, Base, CallOK
    <2> QED
      BY <1>1, <1>2, <1>3, <2>1, PairFacts DEF Calm, Held
  <1> QED
    BY <1>2, <1>3, <1>4 DEF Calm, Alone, StoredAccepted, Renews

LEMMA CalmRestart ==
    ASSUME Inv, Calm, NEW q \in Requests, Restart(q), marks' = {}
    PROVE  Calm'
  <1> DEFINE j == [Idle EXCEPT !.pc = "start", !.boot = "awaited"]
  <1>1. \A c \in Callers : call[c].pc \notin Refreshing
    BY DEF Restart, InFlight
  <1>2. call' = [c \in Callers |-> IF c = q THEN j ELSE Idle]
    BY DEF Restart
  <1>3. j.pc = "start" /\ Idle.pc = "idle" /\ Idle.boot = "no"
    BY DEF Idle
  <1> HIDE DEF j
  <1>4. \A c \in Callers : call'[c].pc \notin Refreshing /\ ~Renews(call[c], stored.account)
    BY <1>1, <1>2, <1>3 DEF Refreshing, Renews
  <1>5. \A c \in Callers : Held(c, call[c])'
    BY <1>2, <1>3, <1>4 DEF Held, Restart, Refreshing
  <1>6. Alone'
    BY <1>4 DEF Alone
  <1>7. StoredAccepted'
    BY <1>4 DEF Calm, StoredAccepted, Restart, server
  <1> QED
    BY <1>5, <1>6, <1>7 DEF Calm

LEMMA CalmSend ==
    ASSUME Inv, Calm, NEW c \in Requests \cup Sockets, Send(c)
    PROVE  Calm'
  <1>1. /\ c \in Callers /\ CallOK(c, call[c]) /\ call[c] \in Call
        /\ call[c].pc = "idle" /\ call[c].boot = "no"
    BY DEF Inv, Base, Callers, Send, CallOK
  <1>2. ASSUME NEW pc \in {"rejected", "accepted"} PROVE Fits(c, [call[c] EXCEPT !.pc = pc])
    BY <1>1 DEF Fits, Held, Renews, Call, Refreshing
  <1> QED
    BY <1>1, <1>2, CalmGoto DEF Send, server

LEMMA CalmAccepted ==
    ASSUME Inv, Calm, NEW c \in Callers, Accepted(c)
    PROVE  Calm'
  <1>1. CASE End(c)
    BY <1>1, CalmEnd DEF Accepted, server, Refreshing
  <1>2. CASE call' = Rebuilt(c, "start")
    <2> DEFINE j == [Idle EXCEPT !.pc = "start", !.boot = "awaited"]
    <2>1. Moved(c, j)
      BY <1>2, MovedRebuilt
    <2>2. j.pc = "start"
      BY DEF Idle
    <2> HIDE DEF j
    <2>3. Fits(c, j)
      BY <2>2 DEF Fits, Held, Renews, Accepted, Refreshing
    <2> QED
      BY <2>1, <2>3, CalmMove DEF Accepted, server
  <1> QED
    BY <1>1, <1>2 DEF Accepted

---------------------------------------------------------------------------
LEMMA CalmStart ==
    ASSUME Inv, Calm, NEW c \in Callers, StartRefresh(c), marks' = {}
    PROVE  Calm'
  <1>1. CallOK(c, call[c]) /\ call[c] \in Call /\ call[c].pc = "rejected" /\ Held(c, call[c])
    BY DEF Inv, Base, StartRefresh, Calm
  <1>2. CASE stored = NoPair
    <2>1. ~Booting(c)
      BY <1>1, <1>2 DEF Held, Booting
    <2> QED
      BY <1>1, <1>2, <2>1, CalmEnd DEF StartRefresh, GiveUp, server, Refreshing
  <1>3. CASE stored # NoPair
    <2> DEFINE j == [call[c] EXCEPT !.pc = "posted", !.used = stored]
    <2>1. stored \in Pair
      BY PairFacts DEF Inv, Base, StateOK
    <2>2. /\ j \in Call /\ j.pc = "posted" /\ j.used = stored
          /\ j.boot = call[c].boot
      BY <1>1, <2>1 DEF Call, Refreshing
    <2>3. call' = [call EXCEPT ![c] = j]
      BY <1>3 DEF StartRefresh, Inv, Base
    <2>4. \A d \in Callers : ~Renews(call[d], stored.account)
      BY <1>3 DEF StartRefresh, Overlapping, InFlight, Renews
    <2>5. session[stored.account] = stored
      BY <1>3, <2>4 DEF Calm, StoredAccepted
    <2> HIDE DEF j
    <2>6. Fits(c, j)
      BY <1>1, <1>3, <2>2, <2>4, <2>5 DEF Fits, Held, Refreshing
    <2>7. Moved(c, j)
      BY <2>2, <2>3, MovedOne DEF Inv, Base
    <2> QED
      BY <2>6, <2>7, CalmMove DEF StartRefresh, server
  <1> QED
    BY <1>2, <1>3

LEMMA CalmVerify ==
    ASSUME Inv, Calm, NEW c \in Callers, Verify(c)
    PROVE  Calm'
  <1>1. CallOK(c, call[c]) /\ call[c] \in Call /\ call[c].pc = "posted" /\ Held(c, call[c])
    BY DEF Inv, Base, Verify, Calm
  <1>2. session[call[c].used.account] = call[c].used /\ Goto(c, "granted")
    BY <1>1, AuthAssumption DEF Verify, Held, CallOK
  <1>3. Fits(c, [call[c] EXCEPT !.pc = "granted"])
    BY <1>1, <1>2 DEF Fits, Held, Renews, Call, Refreshing, Calm, Alone
  <1> QED
    BY <1>2, <1>3, CalmGoto DEF Verify, server

LEMMA CalmReceive ==
    ASSUME Inv, Calm, NEW c \in Callers, Receive(c)
    PROVE  Calm'
  <1>1. CallOK(c, call[c]) /\ call[c] \in Call /\ call[c].pc = "replied" /\ Held(c, call[c])
    BY DEF Inv, Base, Receive, Calm
  <1>2. CASE Goto(c, "save")
    <2>1. Fits(c, [call[c] EXCEPT !.pc = "save"])
      BY <1>1 DEF Fits, Held, Renews, Call, Refreshing, Calm, Alone
    <2> QED
      BY <1>2, <2>1, CalmGoto DEF Receive, server
  <1>3. CASE SessionChanged(c) /\ GiveUp(c)
    <2>1. ~Booting(c) /\ stored.account # call[c].used.account
      BY <1>1, <1>3 DEF SessionChanged, Held, Refreshing, Booting
    <2>2. Fits(c, Idle)
      BY <2>1, IdleOK DEF Fits, Held, Renews, Refreshing
    <2>3. Moved(c, Idle)
      BY <1>3, <2>1, IdleOK, MovedOne DEF GiveUp, End, Inv, Base
    <2> QED
      BY <2>2, <2>3, CalmMove DEF Receive, server
  <1> QED
    BY <1>2, <1>3 DEF Receive

(* The pair a call saves is the one the backend accepts for its account.    *)
LEMMA CalmSave ==
    ASSUME Inv, Calm, NEW c \in Callers, Save(c), Uncrossed
    PROVE  Calm'
  <1>1. /\ CallOK(c, call[c]) /\ call[c] \in Call /\ call[c].pc = "save"
        /\ Held(c, call[c]) /\ Apart /\ Undisturbed(c, call[c])
    BY DEF Inv, Base, Apart, Save, Calm
  <1>2. /\ call[c].got \in Issued /\ call[c].got.account = call[c].used.account
        /\ call[c].got # NoPair /\ call[c].got \in Pair
        /\ session[call[c].got.account] = call[c].got
    BY <1>1, PairFacts DEF CallOK, Held
  <1>3. stored' = call[c].got /\ UNCHANGED session
    BY DEF Save, Store, Saved, server
  <1>4. PICK j : Moved(c, j) /\ j.pc \in {"retry", "idle"}
    <2> DEFINE k == [call[c] EXCEPT !.pc = "retry", !.used = call[c].got, !.got = NoPair]
    <2>1. CASE c = Form
      BY <2>1, IdleOK, MovedSettle, AuthAssumption DEF Save
    <2>2. CASE c \in Sockets
      BY <2>2, IdleOK, MovedOne, AuthAssumption DEF Save, End, Inv, Base
    <2>3. CASE c \in Requests
      <3>1. k \in Call /\ k.pc = "retry"
        BY <1>1, <1>2, PairFacts DEF Call
      <3>2. call' = [call EXCEPT ![c] = k]
        BY <2>3, AuthAssumption DEF Save, Inv, Base
      <3> HIDE DEF k
      <3> QED
        BY <3>1, <3>2, MovedOne DEF Inv, Base
    <2> QED
      BY <2>1, <2>2, <2>3 DEF Callers
  <1>5. \A d \in Callers : d # c => ~Renews(call[d], stored'.account)
    BY <1>1, <1>2, <1>3 DEF Calm, Alone, Refreshing
  (* A build that is refreshing would be renewing the account c saves for.  *)
  <1>6. ASSUME NEW d \in Callers, d # c, call[d].boot # "no" PROVE call[d].pc \notin Refreshing
    <2>1. CASE c = Form
      BY <1>1, <1>6, <2>1 DEF Apart, InFlight, Booting, Refreshing
    <2>2. CASE c # Form
      <3>1. stored = call[c].used
        BY <1>1, <2>2 DEF Undisturbed, Refreshing, Callers
      <3>2. call[d].pc \in Refreshing => stored = call[d].used
        BY <1>6 DEF Calm, Held
      <3> QED
        BY <1>2, <1>3, <1>5, <1>6, <3>1, <3>2 DEF Renews
    <2> QED
      BY <2>1, <2>2
  <1>7. ASSUME NEW d \in Callers PROVE Held(d, call[d])'
    <2>1. CASE d = c
      BY <1>2, <1>3, <1>4, <2>1 DEF Held, Refreshing, Moved
    <2>2. CASE d # c
      <3>1. Held(d, call[d]) /\ ~Renews(call[d], stored'.account)
        BY <1>5, <2>2 DEF Calm
      <3> QED
        BY <1>2, <1>3, <1>4, <1>6, <2>2, <3>1 DEF Held, Renews, Moved
    <2> QED
      BY <2>1, <2>2
  <1>8. Alone'
    <2> SUFFICES ASSUME NEW x \in Callers, NEW y \in Callers, x # y, call'[x].pc \in Refreshing
                 PROVE  ~Renews(call'[y], call'[x].used.account)
      BY DEF Alone, Renews
    <2>1. x # c
      BY <1>4 DEF Refreshing, Moved
    <2>2. CASE y = c
      BY <1>4, <2>2 DEF Refreshing, Renews, Moved
    <2>3. CASE y # c
      BY <1>4, <2>1, <2>3 DEF Calm, Alone, Moved, Renews
    <2> QED
      BY <2>2, <2>3
  <1>9. StoredAccepted'
    BY <1>2, <1>3 DEF StoredAccepted
  <1> QED
    BY <1>7, <1>8, <1>9 DEF Calm

(* A build or a retry that has its token accepted holds no refresh.         *)
LEMMA CalmSent ==
    ASSUME Inv, Calm, NEW c \in Callers, NEW pc, NEW pair \in Pair,
           call[c].pc \in {"start", "retry"}, pc \in {"asked", "accepted"},
           call' = [call EXCEPT ![c].pc = pc, ![c].used = pair],
           call[c].boot # "no" => stored # NoPair, UNCHANGED <<session, stored>>
    PROVE  Calm'
  <1> DEFINE j == [call[c] EXCEPT !.pc = pc, !.used = pair]
  <1>1. call[c] \in Call /\ call \in [Callers -> Call]
    BY DEF Inv, Base
  <1>2. j \in Call /\ j.pc = pc /\ j.boot = call[c].boot
    BY <1>1 DEF Call
  <1>3. call' = [call EXCEPT ![c] = j]
    BY <1>1
  <1> HIDE DEF j
  <1>4. Fits(c, j)
    BY <1>2 DEF Fits, Held, Renews, Refreshing
  <1> QED
    BY <1>1, <1>2, <1>3, <1>4, MovedOne, CalmMove

LEMMA CalmBuild ==
    ASSUME Inv, Calm, NEW c \in Callers, Build(c) \/ Asked(c) \/ Retry(c),
           "fault" \notin marks'
    PROVE  Calm'
  <1>1. CallOK(c, call[c]) /\ call[c] \in Call /\ call[c].pc \in {"start", "asked", "retry"}
        /\ Held(c, call[c]) /\ stored \in Pair /\ UNCHANGED <<session, stored>>
    BY PairFacts DEF Inv, Base, StateOK, Build, Asked, Retry, Calm, server
  <1>2. CASE End(c)
    BY <1>1, <1>2, CalmEnd DEF Refreshing
  <1>3. CASE Goto(c, "rejected") /\ (call[c].boot # "no" => stored # NoPair)
    <2>1. Fits(c, [call[c] EXCEPT !.pc = "rejected"])
      BY <1>1, <1>3 DEF Fits, Held, Renews, Call, Refreshing
    <2> QED
      BY <1>1, <1>3, <2>1, CalmGoto
  <1>4. CASE /\ Build(c) /\ Usable(stored)
             /\ call' = [call EXCEPT ![c].pc = "asked", ![c].used = stored]
    BY <1>1, <1>4, CalmSent DEF Build, Usable
  <1>5. CASE /\ Retry(c)
             /\ call' = [call EXCEPT ![c].pc = IF Booting(c) THEN "asked" ELSE "accepted",
                                     ![c].used = Resent(c)]
    <2>1. Resent(c) \in Pair
      BY <1>1 DEF Resent, Call
    <2>2. call[c].boot # "no" => stored # NoPair
      BY <1>1, <1>5 DEF Retry, Held
    <2> QED
      BY <1>1, <1>5, <2>1, <2>2, CalmSent DEF Retry
  <1>6. CASE Build(c)
    BY <1>2, <1>3, <1>4, <1>6 DEF Build
  <1>7. CASE Asked(c)
    BY <1>2, <1>7 DEF Asked, Fails
  <1>8. CASE Retry(c)
    <2>1. call[c].boot # "no" => stored # NoPair
      BY <1>1, <1>8 DEF Retry, Held
    <2> QED
      BY <1>3, <1>5, <1>8, <2>1 DEF Retry
  <1> QED
    BY <1>6, <1>7, <1>8

LEMMA MarksStay == ASSUME [Next]_vars PROVE marks \subseteq marks'
  <1>1. CASE UNCHANGED vars
    BY <1>1 DEF vars
  <1>2. ASSUME NEW a \in Accounts, Submit(a) \/ OtherDevice(a) PROVE marks \subseteq marks'
    BY <1>2 DEF Submit, OtherDevice
  <1>3. ASSUME NEW q \in Requests, Restart(q) PROVE marks \subseteq marks'
    BY <1>3 DEF Restart
  <1>4. ASSUME NEW c \in Callers, Save(c) \/ Drop(c) \/ Clear(c) PROVE marks \subseteq marks'
    BY <1>4 DEF Save, Drop, Clear, Store
  <1>5. ASSUME NEW c \in Callers, Build(c) \/ Asked(c) \/ Retry(c) \/ StartRefresh(c) \/ Lose(c)
        PROVE  marks \subseteq marks'
    BY <1>5 DEF Build, Asked, Retry, StartRefresh, Lose, Fails
  <1>6. ASSUME NEW c \in Callers,
               Issue(c) \/ Verify(c) \/ Receive(c) \/ Refused(c) \/ Accepted(c)
        PROVE  marks \subseteq marks'
    BY <1>6 DEF Issue, Verify, Receive, Refused, Accepted
  <1>7. ASSUME NEW c \in Requests \cup Sockets, Send(c) PROVE marks \subseteq marks'
    BY <1>7 DEF Send
  <1>8. CASE Logout \/ Expire
    BY <1>8 DEF Logout, Expire, Store
  <1> QED
    BY <1>1, <1>2, <1>3, <1>4, <1>5, <1>6, <1>7, <1>8 DEF Next, Answer

LEMMA CalmStep ==
    ASSUME Inv, marks = {} => Calm, [Next]_vars, marks' = {}
    PROVE  Calm'
  <1>1. CASE UNCHANGED vars
    BY <1>1, MarksStay DEF vars, Calm, Held, Alone, StoredAccepted, Renews
  <1>2. CASE Next
    <2>1. marks = {} /\ Calm /\ Uncrossed
      BY MarksStay DEF Uncrossed
    <2>2. ~\E a \in Accounts : OtherDevice(a)
      BY DEF OtherDevice
    <2>3. ~\E c \in Callers : Lose(c)
      BY DEF Lose
    <2>4. ~\E c \in Callers : Drop(c) \/ Refused(c) \/ Clear(c)
      BY <2>1 DEF Calm, Held, Drop, Refused, Clear
    <2>5. CASE Expire
      BY <2>1, <2>5 DEF Expire, Calm, Held, Alone, StoredAccepted, Renews
    <2>6. ASSUME NEW c \in Callers, Answer(c) PROVE Calm'
      BY <2>1, <2>4, <2>6, CalmIssue, CalmVerify, CalmReceive, CalmSave, CalmStart,
         CalmAccepted, CalmBuild DEF Answer
    <2> QED
      BY <1>2, <2>1, <2>2, <2>3, <2>5, <2>6, CalmSubmit, CalmLogout, CalmRestart,
         CalmSend DEF Next
  <1> QED
    BY <1>1, <1>2

LEMMA CalmInit == Init => Calm
  BY DEF Init, Calm, Held, Alone, StoredAccepted, Renews, Idle, Refreshing

(* Nobody is signed out but by themselves, for any accounts, requests and   *)
(* sockets and builds superseding one another, as long as refreshes of an   *)
(* account do not overlap, the storage does not change under a decided      *)
(* write, nobody signs in or out while a build is out, no other device signs *)
(* in and no answer is lost.                                                *)
THEOREM NobodyForcedOut == Spec => []NeverForcedOut
  <1>1. Init => CalmInv
    BY InitInv, CalmInit DEF CalmInv
  <1>2. CalmInv /\ [Next]_vars => CalmInv'
    BY NextInv, CalmStep DEF CalmInv
  <1>3. CalmInv => NeverForcedOut
    BY DEF CalmInv, Calm, Held, NeverForcedOut, Callers
  <1> QED
    BY <1>1, <1>2, <1>3, PTL DEF Spec

---------------------------------------------------------------------------
(* AppSession.  As long as no decided write is overtaken and nobody signs in *)
(* or out over a build, a step of the app that writes the tokens or shows   *)
(* an account is one of the contract's.                                     *)
Kept == auth' = auth /\ stored'.account = stored.account

LEMMA SaveSession ==
    ASSUME Inv, Uncrossed, NEW c \in Callers, Save(c)
    PROVE  Kept \/ \E a \in Accounts : Session!LogIn(a)
  <1>1. /\ CallOK(c, call[c]) /\ Undisturbed(c, call[c]) /\ call[c].pc = "save"
        /\ stored' = call[c].got
    BY DEF Inv, Base, Apart, Save, Store, Saved
  <1>2. call[c].got.account = call[c].used.account /\ call[c].got.account \in Accounts
    BY <1>1 DEF CallOK, Refreshing
  <1>3. CASE c \in Requests \cup Sockets
    <2>1. auth' = auth /\ stored = call[c].used
      BY <1>1, <1>3, AuthAssumption DEF Save, Undisturbed, Refreshing
    <2> QED
      BY <1>1, <1>2, <2>1 DEF Kept
  <1>4. CASE c = Form
    <2>1. auth = NoAccount /\ stored = NoPair /\ auth' = call[c].got.account
      BY <1>1, <1>4, AuthAssumption DEF Save, Undisturbed, Refreshing
    <2> QED
      BY <1>1, <1>2, <2>1, PairFacts DEF Session!LogIn
  <1> QED
    BY <1>3, <1>4 DEF Callers

(* A build that ends shows the account the tokens are of, or the one that   *)
(* was shown, or nobody.                                                    *)
LEMMA ShowsSession ==
    ASSUME Inv, Uncrossed, NEW c \in Callers, Build(c) \/ Asked(c)
    PROVE  Kept \/ Session!Close \/ Session!Open
  <1>1. stored' = stored /\ call[c] \in Call /\ BootOK(call[c])
    BY DEF Build, Asked, Inv, Base, Apart
  <1>2. CASE auth' = auth
    BY <1>1, <1>2 DEF Kept
  <1>3. CASE auth' = NoAccount
    BY <1>1, <1>3 DEF Session!Close
  <1>4. CASE call[c].pc = "asked" /\ auth' = call[c].used.account /\ call[c].boot # "dropped"
    <2>1. call[c].boot = "awaited"
      BY <1>1, <1>4 DEF BootOK, Call, Inv, Base, CallOK
    <2>2. Answered(call[c])
      BY <1>1, <1>4, <2>1 DEF BootOK
    <2>3. CASE auth = NoAccount /\ stored.account = call[c].used.account
      BY <1>1, <1>4, <2>3 DEF Session!Open
    <2> QED
      BY <1>2, <1>4, <2>2, <2>3 DEF Answered
  <1> QED
    BY <1>2, <1>3, <1>4 DEF Build, Asked, Fails, Shows

LEMMA SessionMoves ==
    ASSUME Inv, Uncrossed, Uncrossed', Next
    PROVE  \/ Kept \/ Session!SignOut \/ Session!LoseTokens \/ Session!Close \/ Session!Open
           \/ \E a \in Accounts : Session!LogIn(a)
  <1>1. CASE Logout
    BY <1>1, PairFacts DEF Logout, Store, Session!SignOut
  <1>2. ASSUME NEW q \in Requests, Restart(q) PROVE Session!Close
    BY <1>2 DEF Restart, Session!Close
  <1>3. ASSUME NEW c \in Callers, Drop(c) PROVE Session!SignOut \/ Session!LoseTokens
    BY <1>3, PairFacts DEF Drop, Store, Shows, Session!SignOut, Session!LoseTokens
  <1>4. ASSUME NEW c \in Callers, Clear(c) PROVE Session!LoseTokens
    BY <1>4, PairFacts DEF Clear, Store, Session!LoseTokens
  <1>5. ASSUME NEW c \in Callers,
               Issue(c) \/ Verify(c) \/ Receive(c) \/ StartRefresh(c) \/ Refused(c)
               \/ Accepted(c) \/ Retry(c)
        PROVE  Kept
    BY <1>5 DEF Issue, Verify, Receive, StartRefresh, Refused, Accepted, Retry, Kept
  <1>6. ASSUME NEW c \in Callers, Lose(c) PROVE Kept \/ Session!Close
    BY <1>6 DEF Lose, Kept, Session!Close
  <1>7. ASSUME NEW a \in Accounts, Submit(a) \/ OtherDevice(a) PROVE Kept
    BY <1>7 DEF Submit, OtherDevice, Kept
  <1>8. ASSUME NEW c \in Requests \cup Sockets, Send(c) PROVE Kept
    BY <1>8 DEF Send, Kept
  <1>9. CASE Expire
    BY <1>9 DEF Expire, Kept
  <1> QED
    BY <1>1, <1>2, <1>3, <1>4, <1>5, <1>6, <1>7, <1>8, <1>9, SaveSession, ShowsSession
    DEF Next, Answer

LEMMA SessionStep == Inv /\ [Next]_vars => [Session!Next]_(Session!vars)
  <1> SUFFICES ASSUME Inv, [Next]_vars PROVE [Session!Next]_(Session!vars)
    OBVIOUS
  <1>1. CASE ~Uncrossed'
    BY <1>1 DEF Session!Next
  <1>2. CASE Uncrossed'
    <2>1. Uncrossed
      BY <1>2, MarksStay, MarkFacts
    <2>2. CASE UNCHANGED vars
      BY <1>2, <2>1, <2>2 DEF vars, Session!vars
    <2>3. CASE Kept
      BY <1>2, <2>1, <2>3 DEF Kept, Session!vars
    <2>4. CASE Next /\ ~Kept
      BY <1>2, <2>1, <2>4, SessionMoves DEF Session!Next
    <2> QED
      BY <2>2, <2>3, <2>4
  <1> QED
    BY <1>1, <1>2

(* Step by step the app is an AppSession: tokens come with a login on the    *)
(* login screen and go with a logout, forced or not, a refresh renews those *)
(* of the account the app shows, and a build, the first or one that a       *)
(* profile change or a refused refresh caused, shows theirs.                *)
THEOREM SessionKept == Spec => SessionSpec
  <1>1. Init => Session!Init
    BY PairFacts DEF Init, Session!Init, Uncrossed
  <1> QED
    BY <1>1, InitInv, NextInv, SessionStep, PTL DEF Spec, SessionSpec, Session!Spec
=============================================================================
