----------------------------- MODULE AuthSession ------------------------------
(***************************************************************************)
(* The session of one installation of the app: the token pair it stores, the *)
(* refresh token the backend accepts for each account, and the requests,     *)
(* refreshes, logins and logouts that race for them                          *)
(* (lib/core/networking/api_client.dart, websocket_client.dart,              *)
(* lib/features/auth, backend/app/api/v1/auth/service.py).                   *)
(*                                                                           *)
(* Storage and network calls are awaits, so each is a step.  The two keys of *)
(* a pair are written, or deleted, by calls issued together: one step.       *)
(* AuthNotifier.build runs when the app is opened, after a refused refresh,  *)
(* and after a profile change; a newer build supersedes the older, whose    *)
(* result is dropped, but whose clearing of the tokens is not.  Nothing      *)
(* serialises refreshes, nor builds with logouts; marks records what the     *)
(* code does not shield from, and each property names what it is shown under. *)
(***************************************************************************)
EXTENDS Naturals

CONSTANTS
    Accounts,
    Requests,   \* API requests that can be in flight together
    Sockets,    \* refreshes on behalf of the WebSocket, after an auth rejection
    NoAccount,
    MaxTokens   \* bounds the token pairs the backend issues

Form == "login form"
Callers == Requests \cup Sockets \cup {Form}

ASSUME AuthAssumption ==
    /\ NoAccount \notin Accounts
    /\ MaxTokens \in Nat
    /\ Requests \cap Sockets = {} /\ Form \notin Requests \cup Sockets

VARIABLES
    session,    \* user:{id}:session in Redis, by account
    issued,     \* number of token pairs issued so far
    expired,    \* pairs whose access token has expired
    stored,     \* the pair in secure storage
    auth,       \* the account the app shows, NoAccount on the login screen
    call,       \* call[c]: where c is in its handler, and what it holds
    marks       \* history

vars == <<session, issued, expired, stored, auth, call, marks>>
server == <<session, issued, expired>>

(* A pair is named by its refresh token; the login form holds an account    *)
(* only.                                                                    *)
Pair == [account: Accounts \cup {NoAccount}, serial: Nat]
NoPair == [account |-> NoAccount, serial |-> 0]
Issued == [account: Accounts, serial: 1..issued]

Refreshing == {"posted", "granted", "replied", "save"}
Call == [pc: {"idle", "start", "asked", "accepted", "rejected", "refused",
              "clear", "retry", "drop", "redo"} \cup Refreshing,
         used: Pair, got: Pair,
         boot: {"no",           \* not AuthNotifier.build
                "awaited",      \* the build the state waits for
                "overtaken",    \* the state was set since: its result still counts
                "dropped"}]     \* a newer build runs: its result does not

Marks == {"overlap",    \* two refreshes, or logins, of an account overlapped
          "window",     \* the storage changed under a write already decided
          "asking",     \* a logout or a login while a build was out
          "device",     \* another device signed in
          "fault"}      \* an answer was lost or the app was killed

TypeOK ==
    /\ session \in [Accounts -> Issued \cup {NoPair}]
    /\ issued \in 0..MaxTokens
    /\ expired \in SUBSET (1..issued)
    /\ stored \in Issued \cup {NoPair}
    /\ auth \in Accounts \cup {NoAccount}
    /\ call \in [Callers -> Call]
    /\ marks \in SUBSET Marks

Idle == [pc |-> "idle", used |-> NoPair, got |-> NoPair, boot |-> "no"]

Init ==
    /\ session = [a \in Accounts |-> NoPair]
    /\ issued = 0
    /\ expired = {}
    /\ stored = NoPair
    /\ auth = NoAccount
    /\ call = [c \in Callers |-> Idle]
    /\ marks = {}

---------------------------------------------------------------------------
Goto(c, pc) == call' = [call EXCEPT ![c].pc = pc]
Forget(c, pc) == call' = [call EXCEPT ![c] = [Idle EXCEPT !.pc = pc, !.boot = call[c].boot]]
End(c) == call' = [call EXCEPT ![c] = Idle]

InFlight(c) == call[c].pc \in Refreshing
Booting(c) == call[c].boot # "no"
Loading == \E c \in Callers : call[c].boot = "awaited"

(* c has decided to write the storage: its next step does, come what may.   *)
(* The refresh of the socket and the login never look again before they     *)
(* write.                                                                   *)
Decided(c) ==
    \/ call[c].pc \in {"save", "clear", "drop", "redo"}
    \/ c \notin Requests /\ InFlight(c)

Store(pair, by, more) ==
    /\ stored' = pair
    /\ marks' = marks \cup more \cup IF \E c \in Callers \ by : Decided(c)
                                    THEN {"window"} ELSE {}

Overlapping(a) == IF \E c \in Callers : InFlight(c) /\ call[c].used.account = a
                  THEN {"overlap"} ELSE {}
Asking == IF \E c \in Callers : Booting(c) THEN {"asking"} ELSE {}

(* The state is set, whatever build is out.                                 *)
Settled(c, k) == IF k.boot = "awaited" THEN [k EXCEPT !.boot = "overtaken"] ELSE k
Settle == [c \in Callers |-> Settled(c, call[c])]

(* AuthNotifier builds anew, on behalf of q.                                *)
Rebuilt(q, pc) ==
    [c \in Callers |->
        IF c = q THEN [Idle EXCEPT !.pc = pc, !.boot = "awaited"]
        ELSE IF Booting(c) THEN [call[c] EXCEPT !.boot = "dropped"] ELSE call[c]]

Usable(pair) == pair # NoPair /\ pair.serial \notin expired

(* _store_refresh_token: one session per account, the last pair issued.     *)
NextPairStale(a) == [account |-> a, serial |-> issued]
NextPair(a) == [account |-> a, serial |-> issued + 1]
Rotated(a) == [session EXCEPT ![a] = NextPair(a)]

---------------------------------------------------------------------------
(* The login form, which the app shows when nobody is signed in, and also   *)
(* while the first build is out.                                            *)
Submit(a) ==
    /\ auth = NoAccount
    /\ call[Form].pc = "idle"
    /\ call' = [Settle EXCEPT ![Form].pc = "granted",
                              ![Form].used = [NoPair EXCEPT !.account = a]]
    /\ marks' = marks \cup Overlapping(a) \cup Asking
    /\ UNCHANGED <<server, stored, auth>>

(* login, refresh: the tokens are created and the session stored.           *)
Issue(c) ==
    /\ call[c].pc = "granted"
    /\ issued < MaxTokens
    /\ issued' = issued + 1
    /\ session' = Rotated(call[c].used.account)
    /\ call' = [call EXCEPT ![c].pc = "replied",
                            ![c].got = NextPair(call[c].used.account)]
    /\ UNCHANGED <<expired, stored, auth, marks>>

(* AuthRepository.logout: the backend is not told.                          *)
Logout ==
    /\ auth # NoAccount
    /\ Store(NoPair, {}, Asking)
    /\ auth' = NoAccount
    /\ call' = Settle
    /\ UNCHANGED server

(* Access tokens live for a quarter of an hour.                             *)
Expire ==
    /\ stored.serial \notin expired \cup {0}
    /\ issued < MaxTokens
    /\ expired' = expired \cup {stored.serial}
    /\ UNCHANGED <<session, issued, stored, auth, call, marks>>

OtherDevice(a) ==
    /\ issued < MaxTokens
    /\ issued' = issued + 1
    /\ session' = Rotated(a)
    /\ marks' = marks \cup {"device"}
    /\ UNCHANGED <<expired, stored, auth, call>>

(* The app is killed and opened again: build reads the storage.             *)
Restart(q) ==
    /\ call' = [c \in Callers |-> IF c = q THEN [Idle EXCEPT !.pc = "start", !.boot = "awaited"]
                                  ELSE Idle]
    /\ auth' = NoAccount
    /\ marks' = IF \E c \in Callers : InFlight(c) THEN marks \cup {"fault"} ELSE marks
    /\ UNCHANGED <<server, stored>>

---------------------------------------------------------------------------
(* A request, or a socket that connects, takes the stored access token; the *)
(* backend rejects a missing or an expired one.                             *)
Send(c) ==
    /\ call[c].pc = "idle"
    /\ auth # NoAccount
    /\ \/ ~Usable(stored) /\ Goto(c, "rejected")
       \/ Usable(stored) /\ c \in Requests /\ Goto(c, "accepted")
    /\ UNCHANGED <<server, stored, auth, marks>>

(* The answer.  If the request changed the profile or a linked account, the *)
(* screen that waited for it invalidates AuthNotifier.                      *)
Accepted(q) ==
    /\ call[q].pc = "accepted"
    /\ \/ End(q)
       \/ auth # NoAccount /\ call' = Rebuilt(q, "start")
    /\ UNCHANGED <<server, stored, auth, marks>>

(* The request has failed for good: build clears the tokens, whatever they  *)
(* are by now, anybody else shows an error.                                 *)
GiveUp(q) == IF Booting(q) THEN Forget(q, "drop") ELSE End(q)

Fails(q) == GiveUp(q) /\ marks' = marks \cup {"fault"} /\ UNCHANGED auth

(* What build returns is shown, unless a newer build is out.                *)
Shows(q, a) == auth' = IF call[q].boot = "dropped" THEN auth ELSE a

(* AuthNotifier.build: without a token nobody is signed in; otherwise it    *)
(* asks for the user like any other request.                                *)
Build(q) ==
    /\ call[q].pc = "start"
    /\ \/ /\ stored = NoPair
          /\ Shows(q, NoAccount) /\ End(q)
       \/ /\ Usable(stored)
          /\ call' = [call EXCEPT ![q].pc = "asked", ![q].used = stored] /\ UNCHANGED auth
       \/ /\ stored # NoPair /\ ~Usable(stored)
          /\ Goto(q, "rejected") /\ UNCHANGED auth
    /\ UNCHANGED <<server, stored, marks>>

(* The user is the one the token was sent for.                              *)
Asked(q) ==
    /\ call[q].pc = "asked"
    /\ \/ Shows(q, call[q].used.account) /\ End(q) /\ UNCHANGED marks
       \/ Fails(q)
    /\ UNCHANGED <<server, stored>>

(* A build that failed clears the tokens; where its own refresh was refused *)
(* a newer build waits, and reads the storage after that.                   *)
Drop(q) ==
    /\ call[q].pc \in {"drop", "redo"}
    /\ Store(NoPair, {q}, {})
    /\ \/ call[q].pc = "drop" /\ Shows(q, NoAccount) /\ End(q)
       \/ call[q].pc = "redo" /\ Goto(q, "start") /\ UNCHANGED auth
    /\ UNCHANGED server

(* _tryRefreshSession, and the socket's refreshAccessToken.                 *)
StartRefresh(c) ==
    /\ call[c].pc = "rejected"
    /\ \/ /\ stored # NoPair
          /\ call' = [call EXCEPT ![c].pc = "posted", ![c].used = stored]
          /\ marks' = marks \cup Overlapping(stored.account)
       \/ /\ stored = NoPair
          /\ GiveUp(c)
          /\ UNCHANGED marks
    /\ UNCHANGED <<server, stored, auth>>

(* refresh in the backend reads the session, and replaces it in Issue.      *)
Verify(c) ==
    /\ call[c].pc = "posted"
    /\ \/ session[call[c].used.account] = call[c].used /\ Goto(c, "granted")
       \/ session[call[c].used.account] # call[c].used /\ Goto(c, "refused")
    /\ UNCHANGED <<server, stored, auth, marks>>

(* The request, or its answer, is lost on the way; the form shows an error. *)
Lose(c) ==
    /\ call[c].pc \in {"posted", "replied"}
    /\ marks' = marks \cup {"fault"}
    /\ \/ c = Form /\ call' = [Settle EXCEPT ![Form] = Idle] /\ auth' = NoAccount
       \/ /\ c # Form
          /\ call' = [call EXCEPT ![c].pc = "refused", ![c].got = NoPair]
          /\ UNCHANGED auth
    /\ UNCHANGED <<server, stored>>

(* _sessionChanged is asked by requests only.                               *)
NeverChanged(c) == FALSE
SessionChanged(c) == c \in Requests /\ stored # call[c].used

Receive(c) ==
    /\ call[c].pc = "replied"
    /\ \/ ~SessionChanged(c) /\ Goto(c, "save")
       \/ SessionChanged(c) /\ GiveUp(c)
    /\ UNCHANGED <<server, stored, auth, marks>>

SavedUsed(c) == IF c = Form THEN call[c].got ELSE call[c].used
Saved(c) == call[c].got

(* A request is sent again, a login shows the account, a socket reconnects. *)
Save(c) ==
    /\ call[c].pc = "save"
    /\ Store(Saved(c), {c}, {})
    /\ \/ /\ c \in Requests
          /\ call' = [call EXCEPT ![c].pc = "retry", ![c].used = call[c].got, ![c].got = NoPair]
          /\ UNCHANGED auth
       \/ c \in Sockets /\ End(c) /\ UNCHANGED auth
       \/ c = Form /\ call' = [Settle EXCEPT ![Form] = Idle] /\ auth' = call[c].got.account
    /\ UNCHANGED server

(* The retry takes the stored token, the new one if there is none; another  *)
(* 401 refreshes again.  A failure of another kind keeps the new tokens.    *)
Resent(q) == IF stored = NoPair THEN call[q].used ELSE stored
Retry(q) ==
    /\ call[q].pc = "retry"
    /\ \/ /\ Usable(Resent(q))
          /\ call' = [call EXCEPT ![q].pc = IF Booting(q) THEN "asked" ELSE "accepted",
                                  ![q].used = Resent(q)]
          /\ UNCHANGED marks
       \/ ~Usable(Resent(q)) /\ Goto(q, "rejected") /\ UNCHANGED marks
       \/ GiveUp(q) /\ marks' = marks \cup {"fault"}
    /\ UNCHANGED <<server, stored, auth>>

Refused(c) ==
    /\ call[c].pc = "refused"
    /\ \/ c \in Requests /\ ~SessionChanged(c) /\ Goto(c, "clear")
       \/ c \in Requests /\ SessionChanged(c) /\ GiveUp(c)
       \/ c \in Sockets /\ End(c)
    /\ UNCHANGED <<server, stored, auth, marks>>

(* clearTokens, then onAuthInvalidated makes AuthNotifier build again; a    *)
(* build whose own request this was goes on to clear the tokens first.      *)
InvalidatedSilently(q) == [call EXCEPT ![q] = Idle]
Invalidated(q) == Rebuilt(q, IF Booting(q) THEN "redo" ELSE "start")

Clear(q) ==
    /\ call[q].pc = "clear"
    /\ Store(NoPair, {q}, {})
    /\ call' = Invalidated(q)
    /\ UNCHANGED <<server, auth>>

---------------------------------------------------------------------------
Answer(c) ==
    \/ Issue(c) \/ Verify(c) \/ Receive(c) \/ Save(c)
    \/ StartRefresh(c)
    \/ Accepted(c) \/ Build(c) \/ Asked(c) \/ Drop(c)
    \/ Retry(c) \/ Refused(c) \/ Clear(c)

Next ==
    \/ \E a \in Accounts : Submit(a) \/ OtherDevice(a)
    \/ Logout \/ Expire
    \/ \E q \in Requests : Restart(q)
    \/ \E c \in Requests \cup Sockets : Send(c)
    \/ \E c \in Callers : Answer(c) \/ Lose(c)

Spec == Init /\ [][Next]_vars

(* The network and the storage answer or fail, and the event loop goes on;  *)
(* nobody has to sign in or out.                                            *)
FairSpec == Spec /\ \A c \in Callers : WF_vars(Answer(c))
---------------------------------------------------------------------------
(* After a logout, or a forced one, no answer that was still on its way     *)
(* brings tokens back: an app on the login screen holds none, so opening it *)
(* again does not sign anybody in (_sessionChanged, logout).                *)
Crossed == {"window", "asking"}
Uncrossed == marks \cap Crossed = {}

SignedOutHoldsNothing ==
    auth = NoAccount /\ ~Loading /\ Uncrossed => stored = NoPair

(* "stale refresh does not overwrite newer login tokens": what is stored    *)
(* belongs to the account the app shows, also when one signs out and        *)
(* another in while a refresh of the first is on its way (_sessionChanged). *)
OwnTokens ==
    auth # NoAccount /\ Uncrossed => stored.account \in {auth, NoAccount}

(* And nobody is signed out but by themselves: under the same conditions no *)
(* request ever comes to clearing the tokens (_tryRefreshSession, build).   *)
NeverForcedOut ==
    marks = {} => \A q \in Requests : call[q].pc \notin {"clear", "drop", "redo"}

(* "on refresh failure it clears local credentials and returns to login":   *)
(* whatever else is in flight, a refused refresh ends on the login screen.  *)
ReturnsToLogin == \A q \in Requests :
    call[q].pc = "clear" ~> auth = NoAccount \/ marks \cap Crossed # {}

(* Step by step, what AppSession promises about who is signed in, as long   *)
(* as no call has decided a write that another has overtaken, and nobody    *)
(* has signed out or in over a build.                                       *)
Session == INSTANCE AppSession WITH
    shown <- auth, held <- stored.account, disturbed <- ~Uncrossed
SessionSpec == Session!Spec
=============================================================================
