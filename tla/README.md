# Verification of InGame

InGame is a Flutter application (`src/lib`) with a FastAPI backend
(`src/backend/app`).  Players form groups, see who is online or "ready", plan
sessions, and get push notifications.  PostgreSQL holds what must last, Redis
holds presence and carries events between API replicas (production runs three:
`src/deploy/kustomize/overlays/prod/kustomization.yaml:19`).

This directory holds TLA+ modules translated from that code, the TLC
configurations that check them on small instances, and proofs that TLAPS checks
for instances of every size.  `PROJECT.json` is the index: components, runs,
the source lines behind every definition, the hazards the properties are for,
and the theorems.

    tlc -config GroupSerial.cfg MCGroupMembership
    tlc -config Presence.cfg Presence
    tlc -config Planner.cfg MCPlanner
    tlc -config AvatarUploads.cfg MCAvatarUploads
    tlapm GroupMembershipProofs.tla
    tlapm PresenceProofs.tla
    tlapm AuthSessionProofs.tla
    tlapm WsClientProofs.tla
    tlapm PlannerProofs.tla
    tlapm AvatarUploadsProofs.tla
    tlapm AccountsProofs.tla
    tlapm PushNotificationsProofs.tla

## 1. Inventory

| Component | State | Operations | What makes it correct | Status |
|---|---|---|---|---|
| Groups, membership, join requests | rows of `groups`, `group_memberships`, `join_requests` | create, settings, delete, join by code, remove or leave, set role, transfer, request to join, resolve | one owner, no orphan rows, one pending request per user, approval and membership together | modelled: `GroupMembership`, `GroupOwnership` |
| WebSocket presence | `manager._connections`, `_user_groups` of each replica; connection key and online sets in Redis | connect, disconnect, lifecycle message, replica crash | Redis says what is true of the sockets; the others are told | modelled: `Presence` |
| Ready status | ready set and expiring key in Redis | toggle, expiry, sweeps, snapshots | set, key and last event agree; expiry is announced, once | modelled: `ReadyStatus` |
| Event delivery | the manager's dictionaries while they are iterated | Redis pub/sub listener, fan-out | nobody in scope misses an event | not modelled |
| Coordination (planner) | rows of windows, sessions, RSVPs, activity | create, update, delete, RSVP, publish after commit | events only after a commit | modelled but for the activity list: `Planner` |
| Client planner cache | `GroupCoordinationState` | load, refresh, REST mutations, live events | converges on the server's rows | modelled but for the activity list: `Planner` |
| Client group lists and details | group lists, member count | load, events | agrees with the rows | not modelled |
| Client presence | statuses, optimistic ready flag, timers | snapshot, events, toggle | agrees with the snapshot and later events | not modelled |
| Client WebSocket connection | channel, reconnect timer, attempts | connect, reconnect, token refresh, disconnect | one live channel; reconnects while it should | modelled: `WsClient`, contract `LiveConnection` |
| Auth session and refresh | the stored pair, the session key of each account | login, logout, restart, refresh of requests and of the WebSocket, retry, rebuilding the state after a profile change | a logout stays a logout; the tokens are those of the account shown | modelled: `AuthSession`, contract `AppSession` |
| Account identities | password, columns, identity rows, revoked links of each account | register, provider logins, link, unlink, set password, sync and refresh of the profile, manual entries | always a way to sign in; an external account signs in to one account; what is unlinked stays out | modelled: `Accounts`, contract `AccountDirectory` |
| Avatar uploads | avatar columns, ledger rows, objects in the bucket | presign, upload (answered or not), save, clean-up and sweep, group creation and deletion, seed, janitor | the avatar shown is in the bucket; what is replaced is swept; nothing is stored without a ledger row | modelled: `AvatarUploads` |
| Push notifications | device registrations, seeded preferences, row locks | register, delete, dispatch, stale token janitor | everybody who should be is tried; a device in use stays active | modelled: `PushNotifications` |
| UI, theme, routing, localization | | | | no protocol state |
| Deployment, marketing site, scripts | | | | configuration and static content |

How they interact.  A client talks REST to any replica and keeps one WebSocket
to one replica.  A REST handler is one transaction in PostgreSQL
(`db/database.py`, READ COMMITTED), then events are published on the Redis
channel of the group.  Every replica listens to all channels and forwards an
event to the sockets whose user is in the group.  The WebSocket handlers and
the sweep loop share Redis without any lock: atomicity ends at each command.

What is hard: reads and writes of concurrent transactions interleave between
any two SELECTs; coroutines give way at every `await`; replicas share Redis but
not their dictionaries; keys expire on their own; replicas die between two
commands; the models declared in Python and the schema the migrations build
differ.

## 2. Modules

### GroupMembership (with GroupOwnership, MCGroupMembership, GroupMembershipProofs)

One group.  `group`, `settings`, `role` and `joinRequest` are its rows.
`job[w]` is an HTTP request being served by worker `w`: the operation, its
parameters, the next statement (`pc`), and the value the handler still holds of
an entity it has read (`seen`).  Each SELECT is a step; the writes of a handler
and its commit are one step, since they lock the rows they change and nobody
else sees them before.  Constraints are the guards of the writes
(`CanInsertMember`, `CanInsertRequest`), so an INSERT that loses a race fails
like the code's does, with an error and a rollback.  `Crash` rolls back.

Three facts of SQLAlchemy matter and are modelled: an entity that the handler
holds keeps its first values when it is selected again; a column set to the
value it has is not written; a row that has gone is noticed by the next SELECT
or, later, by the flush.

Two constants choose the schema: `PendingIndex` and `Cascade` are TRUE for the
tables the tests create from the Python models, FALSE for the tables the
migrations create.  Both runs have no index, which is what a migrated database
offers, but the cascade: without it a deletion always fails (section 4), and
there would be nothing for the other requests to race.  The theorems cover both
values of both.  `raced` records that an ownership transfer has committed
between the checks and the writes of a request it makes stale.

`GroupOwnership` is the contract: what members may rely on about ownership,
with no requests, statements or schemas in it.

Left out: name and description of a group (no rule depends on them), its avatar
(`AvatarUploads`),
read-only routes, `add_member` (no route reaches it), and publishing.

### Presence

One user.  `connections[r]` and `userGroups[r]` are the entries of the user in
the dictionaries of replica `r`; `online`, `connection` are the Redis keys;
`seen[g]` is what the last event of group `g` said of the user; `sock[s]` is
the coroutine serving socket `s`, with its local variables.  Every Redis
command and every send is a step, code between two awaits is one step.  A
membership changed over REST reaches no replica until the client reconnects,
as in the code.  `FailConnect`, `FailDisconnect` and `Crash` leave behind what
the code leaves behind.

The code has no lock per user, so much can go wrong at once; `marks` records
which of four situations the behaviour has been in (overlapping handlers,
several replicas, a changed scope, a fault), and every property names those it
is shown under.  What is shown under all of them carries no mark.

### ReadyStatus

The flag of one user in one group: `listed` (the set), `key` (absent, live, or
stale: past `expires_at` but not yet evicted), `told` (the last event), and the
processes: devices that toggle, sweep loops, and members who connect, which
sweeps twice, the second time silently (`send_presence_snapshot`).  `Age` lets
eight hours pass, and may not while a handler that saw the key being set is
still running: that bounds handlers to eight hours, nothing else.

### AuthSession (with AppSession, AuthSessionProofs)

One installation of the app and the backend's session keys.  `stored` is the
pair in secure storage, `auth` the account the app shows, `call[c]` a request,
a refresh of the WebSocket or the login form, with what it holds over its
awaits; `session[a]` is the only refresh token the backend accepts for account
`a`.  Every storage read, every write and every network hop is a step.

`AuthNotifier.build` runs when the app is opened (`Restart`), when a refused
refresh has cleared the tokens (`Invalidated`), and when a profile change has
succeeded while the user is signed in (`Accepted`: the seven
`ref.invalidate(authNotifierProvider)` of `profile_screen.dart`).  A build reads
the storage (`Build`), asks for the user like any request (`Asked`, with a
refresh of its own), and shows what it got, or clears the tokens if it failed
(`Drop`).  It is a caller with `boot` set: `awaited` is the build the state waits
for, `overtaken` one during which a login or logout set the state, `dropped` one
that a newer build superseded.  The result of an overtaken build still counts,
that of a dropped one does not, but a dropped build that fails clears the
tokens all the same, while the app goes on showing the account.

A login, a registration and a login through a provider store a pair the same
way and are one action, `Submit`, possible on the login screen and while the
first build is out.  A retry takes the stored token, or the one it has just
been given if the storage is empty by then.  `Restart` kills the app in any
state.  `marks` works as in `Presence`: `overlap` (two refreshes or logins of an
account at a time), `window` (the storage changed under a write already
decided), `asking` (a login or logout while a build was out), `device`, `fault`.
The properties about who is signed in hold whatever overlaps, fails or signs in
elsewhere, and leave out `window` and `asking` only.

`AppSession` is the contract: an account that is shown, an account whose tokens
are held, and the steps that may change either (log in, sign out, lose the
tokens, close, open).  It has no requests, builds, refreshes or backend.  Once
one of the two has happened it promises nothing more (`disturbed`).

Left out: the thirty days after which a refresh token expires; password reset,
e-mail codes; what a request does besides asking for a token, and, for a
profile change, the build behind it; the
fact that two tokens issued to an account within one second are the same string
(`auth/jwt.py` has seconds and no random part), so pairs are distinct.

### WsClient (with LiveConnection, WsClientProofs)

The `WebSocketClient` of one installation.  `channel` is the channel it holds,
`socket[c]` what has become of every channel it has opened, `attempt` and
`awaited` the connection attempt that is running and whether others wait for
it (`_connectInternal`, `_connectFuture`), `timer` the reconnect timer,
`refreshing` the channels whose rejection waits for a new token, `wanted` is
`_shouldReconnect`, `snapshot` the cached presence snapshot.  Code between two
awaits is one step; the outcome of a handshake is handled in the same turn of
the event loop.  The reconnect delay is not modelled: a timer that is set may
fire.  Whether a channel that the client closed itself still reports its end
is the library's choice, hence either.  `marks` names what the code does not
look after: `late` (a channel that has been replaced reports its end), `token`
((a disconnect or dispose while a token is read), `fault` (the storage throws).

`LiveConnection` is what the rest of the app sees of it: one link, whether the
server has accepted it, the state that is shown and the snapshot that is kept.
It has no timers, attempts, tokens or callbacks, and promises nothing after
`late` or `token`.

### Planner (with MCPlanner, PlannerProofs)

The planner of one group and the cache of one client.  `row[i]` is a session
with its RSVPs; a ready window is an item that nobody answers.  `job[r]` is a
request of the client (`own`), of another user, or of the same user elsewhere:
`sent`, `written` (the statements are done; the answer and the event are made
of what they saw), `committed`, `published`.  Two transactions may be open
together unless the locks on the row keep them apart: the foreign keys of
RSVPs and activities make every writer of a session wait for a deletion and
the other way round.  `inbox` holds the events on their way, in the order they
were published; answers come at any time.  `load[l]` is a reload, whose two
SELECTs, sessions and then RSVPs, are two steps.  A column that
is set to the value it has is not written, so such a request locks nothing and
still tells what it saw (`writes`).  Everything that can fail, fails: a request
before its commit, its answer or the client's patience (`GiveUp`; the backend
goes on), a publication, a load.

No event and no answer carries a version, so some crossings leave the cache
behind, and `marks` names them: `overlap` (a change is committed before an
earlier one that can overwrite it has reached the client), `load` (something
arrives while a reload that has read the rows is still out), `lost` (an event
is not published or not received).  With any one of the three allowed,
`CacheAgrees` fails; without them it holds, which covers RSVPs of different
users in any order, RSVPs before an update or a deletion, an answer before or
after its own event, and events dropped before the first load.

Left out: the activity list, which is only appended to; permission checks and
invalid input, which look like any other failure to the client; the order of
items.

### AvatarUploads (with MCAvatarUploads, AvatarUploadsProofs)

The profile of one user, one group this user administers, the ledger and the
bucket.  `avatar[o]` is the committed `avatar_url` of the user or the group,
`ledger[k]` the row of an issued upload (`due` when the 24 hours are over),
`post[k]` what became of the client's POST to its form, `stored` the bucket, `job[r]` a request with what it holds over its calls to
the bucket, `janitor[j]` a pass of a replica's janitor.  The writes of a
request and its commit are one step, every call to the bucket is its own:
a save commits first and cleans up afterwards, the janitor deletes first and
commits afterwards, a group deletion sweeps before it commits.  The answer to a
POST may be lost: the object is stored and the editor forgets its key, so it is
never offered to a save (`Upload`, `Offered`).  A call of a sweep that fails is
logged and the handler goes on, a deletion to its commit (`SweepFails`).  A
replica may stop between any two steps of a request, or its commit fail, which
rolls back what was not committed (`Abandon`), and a pass may fail (`PassFails`).
Listing a prefix and deleting what was listed are two steps.  `sound` records
whose avatar was saved by the book: its object is there, claimed within the
day, with no other avatar request of that owner under way; `leaked` records
what a failed clean-up, a seed or a deletion left behind.

Left out: content types, size limits and the fields of the presigned form;
`delete_objects` is all or nothing, one call being at most one page here.

### Accounts (with AccountDirectory, MCAccounts, AccountsProofs)

`live`, `password`, `column[u]` (`users.steam_id` and `apple_id`),
`identity[u]` (rows of `provider_identities`) and `revoked`
(`revoked_auth_links`) are the tables; `job[w]` is a request between the read
it decides by and its write: a login that knows its user, a link that has
checked nobody else has the account, an unlink that has counted the login
methods, a profile request that has listed its stale identities.  `Put`
is the upsert by user and provider.  The columns are unique in the database,
the identity rows are not.  `raced` notes the external accounts that two
overlapping requests were about, `crowded` the accounts two of whose unlinks
overlapped; `Done` notes them at the first write, when both are still there.
The provider's answer is a given external account or a failure (`Abort`).
The migration that introduced the identity rows fills them from the columns
(`9c6f3a1d2b4e`), so starting from empty tables loses nothing.

A profile request is about the columns it loaded and the rows it refreshes,
since it may write any of them back.  The run has two external accounts of one provider, so that
a user can replace one by another while a request still holds the first; no
Apple account, which is a Steam account whose column a login does not fill in
and whose row is not refreshed (the proofs cover it).

The same fact is kept twice, in a column of `users` and in an identity row, and
`CopiesAgree` says the two name the same account.  `AccountDirectory` is the
contract over both: who signs in with what (`SignsIn`), what is blocked, and
the steps that may change it (sign up, link what was asked for, unlink).  A
link needs a request of that user for that account; what is linked to one user
stays with them until they unlink it.  `exempt` are the raced external accounts.

### PushNotifications (with MCPushNotifications, PushNotificationsProofs)

The registrations of one group's members.  `reg[x]` is the committed row of a
device, `lock[x]` the session that has it locked, `seeded[u]` how often the
default preferences of a member were inserted; `req`, `disp` and `pass` are
registrations, dispatches and janitor passes, each with its own session.  A
flushed UPDATE locks its row until commit or rollback and shows to others only
then.  `DispatchFails` and `PassFails` stand for every way to end early, the
victim of a deadlock included.  The code never asks who is online; who is, when
a `ready_changed` is dispatched, is an input that only the history `owed` uses,
because the documents make the others its audience (section 4).  `owed` is what code and documents
agree on: the devices of every member the event is for, of the offline ones
when it is a `ready_changed`.  `excused` holds the devices that a janitor had
listed when they registered or whose token FCM did not know, until they
register again.  `FreshIsActive` and `AllTried` are therefore also true of a
dispatch that commits its revocations and of one that spares who is online;
TLC confirms the first with `EndDispatch` changed that way.  Mutes, quiet hours
and conditions other than the seeded ones are left out: no route sets them.
`session_rsvp_updated` is left out too: to the code it is a `session_proposed`.

## 3. Runs

| Run | Instance | Shows |
|---|---|---|
| `GroupSerial` | 3 users, 2 join requests, 1 worker, all operations, no index | Served one at a time, the group implements `GroupOwnership`; an admin goes only by their own leave or the owner's hand; one pending request per user |
| `GroupRaces` | 3 users, 2 workers, 2 join requests, all operations but settings, no index | One owner unless a transfer overtakes a checked request; a deletion leaves no rows; approval and membership commit together |
| `Presence` | 2 replicas, 2 sockets, 1 group, everything may fail or overlap | Redis and the last events are exact but for the named situations; every event is news to the group; departures are announced to every group |
| `PresenceReplicas` | 2 replicas, 2 sockets | The last socket of one replica takes the user offline under another replica's socket |
| `ReadyStatus` | 2 devices, 1 sweep loop, 1 connecting member | One at a time, the last event tells the flag and a sweep announces nothing that was announced; however they interleave, dead entries go and a sweep announces what it cleared |
| `AuthSession` | 2 accounts, 1 request or build, 1 WebSocket refresh, the login form, 3 pairs | The tokens stored are the account's own and come and go as `AppSession` promises; undisturbed, nobody is signed out; however calls cross, a refused refresh ends on the login screen |
| `WsClient` | 3 channels | One connection at a time, no lost reconnect, the snapshot is this connection's, the app is told what `LiveConnection` promises; a client that should be connected gets there |
| `Planner` | 1 session, there or not yet, 2 users, 2 requests at a time of 3 in all, 1 reload | Once all is handled the cache shows the rows but for the named crossings; it never shows what was not committed |
| `AvatarUploads` | 2 uploads, 2 requests, 1 janitor | An avatar saved by the book is stored while it is shown; a replaced object is owed to a sweep; what is stored has its row |
| `AvatarCreated` | 2 uploads, 1 request, 1 janitor | The avatar given to a new group is deleted under it |
| `Accounts` | 2 accounts, 2 Steam accounts, 1 Discord account, 1 manual entry, 2 requests | An account keeps a way to sign in unless its own unlinks overlap; outside races an external account has one owner, and none once it is unlinked; columns and identity rows agree, and the accounts are an `AccountDirectory` |
| `PushNotifications` | 2 members, one with 2 devices, 2 registrations, 1 dispatch, 1 janitor | A dispatch that ends has tried every device it owed and none of another audience; a device in use whose token FCM knows stays active; registered means seeded |

Why the bounds are enough.  Three users make an owner, an admin or member, and
a third who acts or is acted upon; every rule of the group code compares at
most an actor, a target and the owner.  Two workers give every pairwise race;
all races found need two.  Two sockets and two replicas give a socket that is
not the only one, on the same replica or on another.  One group is enough for
presence because groups are only ever added to, removed from or told one by
one.  No counter is unbounded; join request ids are bounded by `RequestIds`.  Two
accounts tell an own token from a foreign one.  A request or build, the
WebSocket and the form race in every order.  Two builds at a time, of which one
supersedes the other, need two requests, which is too much for a run of a few
minutes with everything else: with two requests the safety properties were
checked by hand, with the WebSocket and two pairs and without it and three
pairs, the liveness property without it and two pairs.  All held, and the proofs
of the safety properties need no bound.  Three pairs
give a login, a refresh, and a login elsewhere or in between.  Three channels
are the current one, the one it replaces and the one that replaces it, and
the proofs need no bound here either.  In the planner no rule relates two
items; three requests (`MaxSends`) give every pair that overlaps and one
before or after them, from a planner that has the session or creates it.
`MaxVal` and `MaxInbox` bound updates and undelivered events: an update more
than one behind is behind, and two events are enough to arrive in a wrong
order.  The run checks invariants only, so the symmetry of requests is sound.

For avatars, two uploads are the one shown and the one that replaces it, and
two requests give every pair that overlaps; a second janitor adds nothing a
late first one does not.  For accounts, two of them and one external account of
each provider give every conflict about an owner; `Few` stops exploring behind
the second race, since every property excuses the first one's subject only, and
lets one account at a time have manual entries.  For push, the member with two
devices has a dispatch that is half way through them, and the other member is
the actor or has none.

The MC modules add symmetry where a run checks invariants and action
properties only: users, workers and request ids of groups, requests of the
planner, keys and requests of avatars, accounts and requests of accounts,
requests and janitors of push.  `FewRequests` bounds `GroupRaces`: the group is
listed, and a role change or removal meets one join request at most.  Deadlock
checking is on in every run: clients may always send or connect again.

Fairness.  `Presence`, `ReadyStatus`, `AuthSession` and `WsClient` have liveness
properties.  `AuthSession` assumes that a call that was made is answered or
fails (both sides have timeouts) and that the app stays open long enough.
`WsClient` assumes that timers fire, handshakes and refreshes end, a channel
reports its end, and that a server that is tried over and over accepts once
(strong fairness, since every attempt may fail first).  `Presence` and
`ReadyStatus` assume that a coroutine that can go on does (one event loop, no priorities),
that Redis evicts expired keys, and that the sweep loop comes round.  Nothing
makes clients connect, toggle or disconnect, and nothing has to fail.  The
sweep loop has no exception handler (`ws/manager.py:332`): after one Redis
error it never runs again, and what `StaleEntriesGo` and `ExpiryTold` promise
is then off.  The three modules of this section without liveness (`AvatarUploads`,
`Accounts`, `PushNotifications`) promise little in time: a clean-up that fails
is never retried, a lost notification neither, and requests end or fail.

Some invariants follow from a contract that a run checks step by step, and are
not listed in the run again: `OneOwner` and `RevokedBlocked` from
`DirectorySpec` (nothing signs in to two accounts, a blocked account signs in to
none), `OwnTokens` from `SessionSpec`, `SnapshotIsCurrent` from `LineSpec`.
They are easier to read than the contracts, so section 5 proves them as well.
`ReadyTypeOK` is only proved, too.

## 4. Disagreements between documents and code

Two have runs that end in a counterexample (`PresenceReplicas` and
`AvatarCreated`); `PROJECT.json` quotes the documents.  The models show more
behaviours that the guards, histories and `marks` of the properties leave out;
each was reproduced by dropping the condition, by a second worker, or, where no
property speaks of it, by stating what the document says:

- Groups.  "Owner-only ownership transfer to an existing non-owner member"
  (`docs/specs/2026-05-30-core-platform-groups.md:100`): two transfers of one
  owner that overlap leave two owners (`groups/service.py:337`, no lock).  "Delete
  group" is the owner's right (line 89 there): the models declare ON DELETE
  CASCADE, the migrations create the foreign keys without it
  (`e676ac20f9f8_initial_tables.py:65`), so in a migrated database every
  deletion fails on the owner's own membership row.  A transfer that commits while its target is being removed leaves no
  owner (`groups/service.py:255`).  Two admins resolving one request at the
  same time both succeed, and the second overwrites the first
  (`join_requests/service.py:168`).  "Only one pending request per user per
  group" (line 61 there) is a partial index of the models
  (`db/models/group.py:55`) that no migration creates, so two requests of one
  user that overlap are both filed: with two workers `PendingAtMostOne` fails.
- Presence, on one replica.  The farewell of the last socket interleaves with
  the next connect and erases it (`ws/handlers.py:64`).  An exception in
  `handle_connect` never reaches `handle_disconnect`, so the user stays online
  (`ws/handlers.py:141`); a crash does the same.  When the active device
  leaves, a device in the background does not make the user away again.
- Ready.  A sweep between `sadd` and `setex` leaves a live flag out of the set
  (`redis/status_store.py:56`).  A sweep that read the expired key deletes the
  flag renewed meanwhile.  Two replicas announce one expiry.  A snapshot that
  clears an expired flag tells nobody and leaves nothing for the sweep to tell.
- Tokens.  "On `401`, Flutter attempts refresh once"
  (`docs/specs/2026-05-30-core-platform-auth.md:41`), but two requests that get
  a 401 refresh each on their own, with one token (`api_client.dart:25`).  If
  the backend refuses the second before the first has saved, it clears the
  tokens the first is about to save; if both are accepted, the pair that is
  kept need not be the one the backend remembers.  A logout between the comparison and the
  write is undone by the write (`api_client.dart:36-48`), and the WebSocket's
  refresh does not compare at all (`websocket_client.dart:226`), so a refresh
  that outlives a logout leaves a valid pair behind, and the next start of the
  app is signed in.  A refresh whose answer is lost has rotated the token, so
  the next one is refused; so does a login on another device, since the session
  key is one per account.  A start without a network and with an expired token
  signs the user out (`auth_provider.dart:26`).  A build that a profile change
  has started (`profile_screen.dart:361` and six more) knows nothing of a logout
  or login meanwhile: what it got for the earlier user is shown on the login
  screen or over the later login, which "never reuses stale in-memory data from
  the previous session" (line 137 there), and if it fails it clears the
  later user's tokens.  A build that a newer one has superseded clears the
  tokens too when it fails, and the app goes on showing the account without any.
- Connection.  `onDone` drops whatever channel is current
  (`websocket_client.dart:109`), also when it belongs to one that has been
  replaced: the reconnect then opens a second connection beside the first, and
  if the timer fires while an attempt is running, that attempt ends at
  `_channel == null` (line 122) with nothing scheduled.  A disconnect or
  dispose while the token is read is undone by the attempt that goes on (lines
  78 to 90), although a reset "must" end WebSocket-backed state
  (`docs/specs/2026-05-30-core-platform-auth.md:137`).  An exception of the
  storage leaves the client connecting, without a timer.  The backend refuses
  before it accepts (`ws/handlers.py:49`), so its 4001 reaches the client as a
  failed handshake and `_handleAuthFailure` is never entered: an expired token
  is retried until a REST request has refreshed it.  `_reconnectAttempts` is
  reset before the handshake is known, so the delay never grows.
- Planner.  Two requests may publish in the other order than they committed;
  the answer to an own request may come after the event of a later change and
  bring the older item, or a deleted one, back
  (`group_coordination_provider.dart:163`); a reload overwrites what arrived
  after it had read; after a lost event nothing reloads.  Anybody's RSVP event
  ends the waiting of the own one (line 310).
- Avatars.  A pass of the janitor that has read a row as pending deletes the
  object of a save that commits meanwhile (`avatar_upload_janitor.py:24`).  Two
  saves of one owner that overlap sweep each other's object
  (`users/service.py:99`).  A deletion of a group whose commit fails after
  its sweep leaves the group without its object (`groups/routes.py:136`); one
  whose sweep fails commits all the same and leaves the objects to nobody
  (line 141).  A login whose
  picture arrives late overwrites an avatar chosen meanwhile, and leaves its
  object in the bucket (`auth/service.py:48`).
- Accounts.  The guard against lockout
  (`docs/specs/2026-05-30-core-platform-auth.md:107`) counts, then writes: two
  unlinks of one account that overlap take both of its login methods
  (`users/service.py:48`).  Two first logins of one Discord account that
  overlap create two accounts with the same identity, and from then on every
  login of it raises `MultipleResultsFound`.  A login or the refresh of `GET
  /users/me` that read its row before an unlink writes it back, and the
  unlinked account signs in again
  (`docs/specs/2026-06-07-core-platform-social-identities.md:137` to 150).
- Push.  A `ready_changed` is for "other group members who are offline"
  (`docs/specs/2026-06-13-push-notifications-design.md:153`), but the dispatch
  goes to all members; likewise a `session_rsvp_updated`, which
  is for the session's proposer (line 156 there).  "On FCM delivery failure with
  UNREGISTERED or INVALID_ARGUMENT: server-side revoke" (line 175): the
  dispatcher revokes and never commits, so the token stays and is tried again
  each time.  Two first registrations that overlap insert the
  defaults twice (the unique constraint has a NULL `scope_id`), and every
  dispatch that reaches this member from then on ends with
  `MultipleResultsFound`, for all members after it.  A device that registers while the janitor has it listed as
  stale ends up revoked: by the janitor's later commit, or because the
  registration that found it active does not write `revoked_at`.

## 5. Proofs

`GroupMembershipProofs` proves, for any sets of users, workers and request ids
and for both schemas, assuming only `GroupAssumption` (`NoUser` and
`NoRequest` are not elements, the flags are Booleans, `Traffic` names
operations):

| Theorem | States |
|---|---|
| `Invariance` | `Spec => []Inv` |
| `TypeCorrect` | `Spec => []TypeOK` |
| `OwnershipSafe` | `Spec => []OneOwnerUnlessRaced` |
| `DeletionClean` | `Spec => []NoOrphanRows` |
| `ApprovalAdmits` | `Spec => ApprovedMeansMember` |
| `OwnershipUnlessRaced` | `Spec /\ []~raced => OwnershipSpec` |
| `OwnershipRefined` | `Serial /\ Spec => OwnershipSpec` |
| `AdminsSafe` | `Serial /\ Spec => AdminsRemovedByOwner` |
| `PendingUnique` | `Serial /\ Spec => []PendingAtMostOne` |

The argument.  "One owner" alone is not inductive: a worker whose check is long
past may write anything.  `Inv` therefore adds, for every request in flight
(`SafeJob`), that its arguments fit its operation and, as long as no transfer
has raced, that what its checks established still holds (`Fresh`): the sender
of a transfer past its check still owns the group, the target of a removal or
a role change past its check is still not the owner.  The only step that can
invalidate another request's check is a committed transfer, and `Overtaken`
covers exactly the requests it invalidates, so either `raced` becomes TRUE or
the facts survive.  `RowsOK` is the other half: a group that is not live has no
rows, because every INSERT needs the foreign key.

Each action has one step in the proof of preservation, and the actions that
write the role table one sub-step per conjunct they can disturb.

`ApprovalAdmits` needs to know whom an approval is about: the handler holds a
user it read statements ago, and inserts that one.  `RequestsInv` adds that the
row still names this user while the group lives (`Resolving`), since only three
writes touch a join request (`RequestsKept`) and none renames it.
`OwnershipUnlessRaced` is the refinement of `GroupOwnership`: every step of
every interleaving maps to a promise kept or a stutter, for any number of
workers, in behaviours where no hand-over raced.  `Serial` (one worker) is the
condition of the GroupSerial run; there no hand-over can race
(`SerialNeverRaces`), which gives `OwnershipRefined`.  `AdminsSafe` carries what
`remove_member` has read of its actor and its target from the check to the
write (`Vouched`).  With two workers somebody can change it in between,
and then the property fails (in TLC's counterexample a new owner leaves with the
removal of an admin still under way, which then acts for somebody who is no
longer in the group).  The lemma behind it (`AdminsUnlessUndercut`) names what
must not happen, a step of another request that changes the actor's role or
makes the target an admin between the check and the write (`Steady`); one
worker has no such other request (`SerialSteady`).  `PendingUnique` carries the
check of a join request to its insert in the same way (`PendingInv`): while one
request is served at a time, nobody else files one in between, and the
statements `create_join_request` reads before its insert are enough, for the
migrated schema too.  With two workers they are not: TLC files two at once.

`AuthSessionProofs` proves, for any accounts, requests and sockets and any
number of pairs, assuming only `AuthAssumption` (`NoAccount` is no account;
requests, sockets and the form are different callers):

| Theorem | States |
|---|---|
| `Invariance` | `Spec => []Inv` |
| `TypeCorrect` | `Spec => []TypeOK` |
| `SignedOutIsEmpty` | `Spec => []SignedOutHoldsNothing` (proved only, no run) |
| `TokensAreOwn` | `Spec => []OwnTokens` (no run, implied by the contract) |
| `NobodyForcedOut` | `Spec => []NeverForcedOut` |
| `SessionKept` | `Spec => SessionSpec` |

The argument.  The two properties are inductive only together with what each
call relies on when it writes (`Undisturbed`): a request or build past its comparison,
and a refresh of the WebSocket at any time, was made from the pair that is
still stored; a login in flight means that nothing is stored.  Such a pair belongs to the
account shown, and a refresh grants a pair of the same account, so writing it
is harmless.  The step that breaks `Undisturbed` for another call is a write of
the storage, and `Store` marks the window exactly when such a call exists
(`WriteStep`); every other step leaves the storage alone (`QuietStep`).
A build sets the state later than it read the storage, so `Apart` also says
what it relies on (`BootOK`): the answer the awaited build has got is about the
account shown, or the stored one about to be shown (`Answered`).  The state
waits for one build at a time (`OneAwaited`), and the login form is not in
flight while a build is out.  A logout or login over a build is what takes that
away, hence the mark `asking`.

`NobodyForcedOut` speaks of the backend too: a refresh is refused when its token
is not the one of the session key.  `CalmInv` says who holds that token while
nothing is marked (`Calm`): the call that is renewing it, with the token it
sent before the answer and the one it got after (`Held`), and otherwise the
storage (`StoredAccepted`); and at most one call renews an account (`Alone`).

`SessionKept` is the refinement of `AppSession`, from the same `Inv`.  A save of
a refresh renews the tokens of the account that is shown, since its pair was
made from what is still stored (`SaveSession`); a save of the login form finds
the app on the login screen with nothing stored, so it is a login; an app that
opens, or retries the request that opens it, shows the account it has tokens of
or had shown already (`OpenSession`).  All other steps leave both alone or take
the tokens away (`SessionMoves`).

`WsClientProofs` proves, for any number of channels, assuming only that
`NoChannel` is none of them:

| Theorem | States |
|---|---|
| `Invariance` | `Spec => []Inv` |
| `TypeCorrect` | `Spec => []TypeOK` |
| `Single` | `Spec => []OneConnection` |
| `ReconnectKept` | `Spec => []NeverStranded` |
| `DisposedForGood` | `Spec => []DisposedIsOver` (proved only, no run) |
| `ConnectedSends` | `Spec => []ConnectedCanSend` (proved only, no run) |
| `SnapshotOwn` | `Spec => []SnapshotIsCurrent` (no run, implied by the contract) |
| `LineKept` | `Spec => LineSpec` |

The argument.  `NeverStranded` says that somebody will reconnect; what it
needs is that the channel held is one whose end will be reported, that a
channel which is opening has its attempt waiting for it (`SocketsOK`), and
that the visible state and the attempt fit (`StateOK`).  `Undisturbed` states
what the marks keep out: without a late end, the attempt still holds its
channel and no other channel is served; without the token race, a disposed
client wants, opens and expects nothing.

`LineKept` is the refinement of `LiveConnection`.  A channel that is held is one
the server serves or is asked for (`LinkFacts`), so closing or losing it ends
the link.  A handshake that succeeds is an acceptance only if its channel is
still the one held; it is, or nothing is held and nothing changes
(`AcceptStep`).  An end is a loss, or the end of something given up before
(`DoneStep`).  Opening needs the client not to be disposed, which is what the
mark `token` is for (`DialStep`).

`PlannerProofs` proves, for any items, users, requests and reloads and any
bounds, assuming only `PlannerAssumption` (there is an item, `Me` is a user,
the bounds are natural numbers):

| Theorem | States |
|---|---|
| `Invariance` | `Spec => []Inv` |
| `TypeCorrect` | `Spec => []TypeOK` |
| `CommittedOnly` | `Spec => []OnlyCommitted` |
| `AgreesOnceQuiet` | `Spec => []CacheAgrees` |
| `NoneLeftWaiting` | `Spec => []PendingIsOut` (proved only, no run) |

The argument.  What the cache shows came by an event, an answer or a reload,
so all of these must be true of the rows (`Backed`), and stay so: rows only
move on.  That in turn needs the row locks (`LocksKept`): what an open
transaction has written still fits the row when it commits (`Fits`), since only an RSVP of
another user, or an RSVP beside an update, can have been committed meanwhile
(`FitsStays`).  `BackedStays` and `OwnBacked` say what a commit does to the
facts already told and to its own.

`CacheAgrees` speaks of the moment when nothing is on its way.  Before it the
cache, an event or a reload may well be behind; what must hold is that whatever
shows an old value is going to be corrected: by a later event in the inbox that
is right, or by a request that is committed and has not published yet
(`BodyComing`, `RsvpComing`).  `MendInv` says so of every event, of the cache
and of every reload that has read something (`Mends`), separately for a session
as such and for the answer of each user, because an RSVP of one user does not
mend what another answered.  An answer to the client itself must be right when
it comes, since nothing is certain to follow it (`InFlightRight`); that is what
mark `overlap` keeps.  When the inbox is empty and nobody has to publish,
nothing can be coming, so what is shown is right.

`AvatarUploadsProofs` proves, for any number of uploads, requests and janitors,
assuming only `AvatarAssumption` (the four special values are no keys and
differ):

| Theorem | States |
|---|---|
| `Invariance` | `Spec => []Inv` |
| `TypeCorrect` | `Spec => []TypeOK` |
| `ObjectsTracked` | `Spec => []Tracked` |
| `ActiveStaysStored` | `Spec => []ActiveStored` |
| `SupersededSwept` | `Spec => []SupersededIsOwed` |

The argument.  `Tracked` needs what a janitor holds between the bucket and the
database (`JanitorHolds`): the key's form has expired, so the object it deleted
cannot come back.  `ActiveStored` says only that the object is there; what keeps
it there is that its row is committed, no janitor has it in hand, and every
request of its owner spares it (`Kept`, `Spares`): one that has not written yet
saw exactly this avatar first, one that is about to list keeps its key, one
that has listed does not have it on its list.  Requests for the other owner hold and list
only keys of their own (`OwnUrls`), which is where the prefix matters (`Apart`),
and why the avatar of a created group, uploaded under the user's prefix, is
not covered.  A save that is not by the book takes `sound` away unless it
changes nothing (`WriteInv`).

`SupersededSwept` follows one object that is committed, stored and shown by
nobody (`Left`) to the request that owes its sweep (`Owes`): from the commit,
over the clean-up, to a sweep that has it on its list.  A pass never owes
anything, since it looks at pending rows only, and a sweep finds the object
only under the prefix of its owner, hence `CommittedOwn`.

`AccountsProofs` proves, for any users and requests and finitely many external
accounts of the three providers, assuming only `AccountsAssumption` (`NoUser`
is no user; no external account is of two providers, or a manual entry):

| Theorem | States |
|---|---|
| `Invariance` | `Spec => []Inv` |
| `TypeCorrect` | `Spec => []TypeOK` |
| `LoginKept` | `Spec => []LoginMethodKept` |
| `OneAccount` | `Spec => []OneOwner` (no run, implied by the contract) |
| `StaysOut` | `Spec => []RevokedBlocked` (no run, implied by the contract) |
| `CopiesKept` | `Spec => []CopiesAgree` |
| `DirectoryKept` | `Spec => DirectorySpec` |

The argument.  Each property is kept only because of what the writing request
found out before: nobody else has the account (a login or link), its user has it
(an unlink or profile request), it was not revoked (a login).  `Established`
says that this is still so, unless the external account is in `raced`: whoever
changes it is about it too, so `Done` has noted the two.  An unlink decides by
provider, not by account, hence `Encloses`: whatever its user has
of the provider by now, the unlink is about, or somebody linked it meanwhile
and that was noted.  `Counted` is the lockout guard between the count and the
write; no login, link or refresh can break it, since `Put` leaves a row of
every provider there was (`PutKeeps`), and an unlink of the same user that does
is in `crowded`.  Every step that writes rows is shown `Harmless` in this sense, and
`WriteStep` concludes once for all of them.

`CopiesKept` and `DirectoryKept` need more, the second invariant `Rows`.
`Paired`: a user has one external account of a provider, and its column and its
row agree, unless all that is involved has raced.  `Knows`: what a request
between its read and its write relies on.  A login or profile request knows an
account of its user, with no other of the provider beside it; a link that found
its own user in the column still has them there; an unlink holds every column
and every Discord row of its user that it will remove.  With that every step
is one of the directory's: a login of somebody known, a profile request and a
manual entry are `Rest`, a first login or a registration is a `SignUp`, the
write of a link is a `Link` of what was asked for, and what an unlink removes
and blocks is exactly what its user had of the provider (`Unlink`).

`PushNotificationsProofs` proves, for any members, devices, dispatches and
janitors and finitely many registrations in flight, assuming only
`PushAssumption` (there is a member and a device, every device has an owner,
requests, dispatches and janitors are different sessions):

| Theorem | States |
|---|---|
| `Invariance` | `Spec => []Inv` |
| `TypeCorrect` | `Spec => []TypeOK` |
| `DefaultsAlwaysSeeded` | `Spec => []DefaultsSeeded` |
| `FreshStaysActive` | `Spec => []FreshIsActive` |
| `EveryoneTried` | `Spec => []AllTried` |

The argument.  `AllTried` speaks of the end of a dispatch; on the way, what it
owes is active and either listed or of a member still to come (`OwedAhead`).
The step that lists a member's devices (`ConsiderInv`) decides by the member's
preferences while `AllTried` speaks of the event's condition: both agree
because nobody has a device without the defaults (`DefaultsSeeded`).  That
holds although a registration that found some defaults inserts none, since
what it found was committed (`FoundSeeds`).  A janitor's commit cannot bring a
deleted row back, because the rows it flushed are locked until then
(`MarkedLocked`).  `TypeOK` bounds how often the defaults are inserted; each
registration that will still insert counts against the bound (`SeedsBounded`).

`PresenceProofs` proves, for any replicas, sockets and groups, assuming only
`PresenceAssumption` (there is a replica):

| Theorem | States |
|---|---|
| `PresenceTyped` | `Spec => []TypeOK` |
| `RedisExact` | `Spec => []PresenceExact` |
| `ToldExact` | `Spec => []LastToldExact` |
| `NoIdleEvents` | `Spec => EventsAreNews` |

The argument.  The two properties speak of moments when no handler runs; on the
way Redis is half-way between two scopes.  `PresenceInv` has three layers.
Whatever overlaps or fails, a manager has exactly the sockets of its replica
that were accepted and have not left (`Registered`), and no scope without a
socket (`Forgotten`).  While handlers ran one at a time on one replica
(`Orderly`), the online sets are known at every command: what a connect has
entered and not dropped yet (`Joining`), what a disconnect has not dropped yet
(`Leaving`), and otherwise the scope; `Solo` and `AllElseClosed` say that
whoever runs, runs alone.  If the groups did not change either (`Truthful`),
every handler works on the user's groups (`Scoped`) and the events sent so far
are known (`Heard`).  A connect that is not the first on its replica announces
nothing, which is right because another socket is open and was announced
(`SendSnapshotPresence`).

`NoIdleEvents` is an action property, so its invariant (`NewsInv`) speaks of what
is still to be sent: an announcement goes to groups that have last heard the
user is offline, a farewell to groups that have not (`Novel`).  Only a first
connect has announcements to send and only a last disconnect farewells, so
before either the groups have heard what `PresenceInv` says of the scope.

The same module extends `ReadyStatus` and proves the ready flag, for any toggling
sockets, sweep loops and connecting members that are different processes
(`ReadyAssumption`).  The two specifications share no variable, and each theorem
assumes one of them:

| Theorem | States |
|---|---|
| `ReadyTyped` | `ReadySpec => []ReadyTypeOK` (proved only, no run) |
| `FlagAnnounced` | `ReadySpec => []ReadyAnnounced` |
| `SweepTellsNews` | `ReadySpec => SweepTellsTransition` |

The argument.  `Tidy` says, for each command a handler has still to send, what
the set, the key and the last event have in common by then; what a sweep tells
is news because a listed flag was announced, and the round that tells is the
one that found it listed.  Nothing but the type, and the fact that a toggle
never takes the path of a sweep, survives overlapping handlers; section 4 says
what they do to each other.

Only model-checked: the liveness properties `FarewellReachesAll`,
`StaleEntriesGo`, `ExpiryTold`, `ReturnsToLogin` and `Reconnects`, since
liveness under fairness is beyond the prover, and the two runs that find the
code to do something else than is written of it.  Every other property of a
run is stated by a theorem.

## 6. Not modelled, and the plan

Not modelled: event delivery inside a replica (`broadcast_to_group` while
connections change: the outcome depends on dictionary iteration and the
listener's restart), the client's group lists and presence (they apply the same
kind of events as the planner, without requests of their own in flight), the
activity list, widgets, configuration.

1. Event delivery and the two remaining client caches: extend `Presence` and
   `Planner` by the listener.
2. Proofs: carry the theorems over to what the extended modules add, and weaken
   their conditions where the code allows it.
