# Verification of SinthMux

SinthMux lets a browser use the tmux sessions of a user's machines: a *connector*
on each machine keeps a WebSocket to the *hub*, the hub relays RPC calls and
terminal streams over it, and the browser talks to the hub.  This directory holds
TLA+ models of its concurrent core, TLC configurations that check them, and proofs
that TLAPS checks.  `PROJECT.json` lists the runs, the mutants that show that each
property can fail, the map from definitions to source lines, the findings, the
hazards and the theorems.

## 1. Inventory

| Component | State it keeps | Operations | What makes it hard |
|---|---|---|---|
| Relay: `Manager`, `ConnectorHandler` (internal/relay) | `connectors`: device to connection; per connection `pending` calls and `streams`, each with a channel | Register, Revoke, Unregister, Call, OpenStream, SendStream; one read loop per connection | two levels of locks; sends made while a lock is held; a connection replaced, revoked and dropped at once; a deadline racing an answer |
| Registry (internal/devices) | status and notifications of each device, in memory | Connect, Touch, SetNotifications, Disconnect | its lock is not the Manager's; late messages of a replaced connection |
| Terminal relay (hub `TerminalHandler`, connector `terminalStreams`), tickets and grants | tickets; per stream an event channel of 64, `active` streams and a PTY each | issue and consume a ticket, open, input, output, resize, close, closeAll | a slow browser; four ways to end a stream; opening while the connection is torn down |
| RPC dispatcher (connector main.go) | 8 slots of the process, a queue of 8 busy answers per connection | dispatch, worker, overload writer, reconnect | work that ignores its context and outlives its connection |
| File transfer (hub and connector transfer.go) | device: open uploads and exports, temporary files; hub: active transfers | begin, chunk, commit, abort, export, clean-up | chunked protocol over calls that may time out after they took effect |
| Device credentials (pair.go, credential.go, device_proof.go, devicecert) | key, certificate or token on the device; key hash, token hash, nonces, pairing codes at the hub | pair, authenticate, upgrade, renew, repair | two sides that save separately; two processes of one machine; one-time nonces and codes |
| Accounts and spaces (internal/auth http.go, store.go) | users, login tokens, sessions, spaces, memberships, devices, pairing codes, audit | log in and out, tokens, spaces, members and their roles, devices, pairing, revoke | role read in one query and used in another; cascades and row locks; handlers that fail halfway |
| Rate limiter, proxy trust (http.go, proxy.go) | the last minute's attempts of each address | allow | table size; one bucket per address or per key |
| Login broker (internal/loginbroker, auth/broker_*.go) | OAuth states, one-time tickets | begin, callback, exchange | one-time state across three parties |
| Notifier (connector notify.go) | last snapshot, `changed` and `wake` signals | watch, refresh, clear, publish | one signal shared by successive connections |
| Web terminal (terminalConnection.ts) | the current attempt, socket, timers | connect, ping, retry, close | callbacks of an attempt that is over |
| tmux operations, session API | none (tmux's own) | list, create, rename, kill, input | not modelled: each is one external command |
| Configuration, downloads, recovery, wire types, installers, deployment | none | read once, serve files | not modelled: no running state |

How they interact: the connector authenticates and upgrades to a WebSocket
(`/ws/v1/connector`), sends a hello, and is registered in the Manager and then in
the Registry.  Its messages are handled by one read loop on each side.  HTTP
handlers of the hub use `Manager.Call` from goroutines of their own; the browser's
terminal handler uses `OpenStream`, `SendStream` and the stream's event channel.
`revokeDevice` writes the database, then calls `Manager.Revoke` and
`Registry.Disconnect`.  On the connector, the read loop hands calls to the dispatcher
and handles terminal messages itself.

What must be right, per component:

- relay: nothing blocks under a lock, no call is lost, forgotten or answered twice, a
  dead connection takes its calls with it, a device can always come back;
- presence: the map never keeps a dead connection, the listed status follows the
  connection, a revoked device is disconnected;
- terminal: output arrives in order and without a silent gap, one close at the end, no
  tmux client without a browser, none after its connection;
- dispatcher: the limit holds over all connections, answers stay on their connection,
  a hung call stops nothing else;
- transfer: a file appears complete or not at all, the hub's answer agrees with the
  device, nothing temporary remains;
- credentials: a connector never ends with a credential the hub refuses, a nonce or a
  code works once;
- access: a space keeps an owner, a revoked token has no session, a device that is taken
  away is cut off, and a terminal closes when its grant goes;
- view: one socket, whatever completes late, and no phase that is waited for without end;
- notifier: no change of the snapshot is forgotten while the hub lacks it.

## 2. Modules

| Module | Models | Size of its instance |
|---|---|---|
| `RemoteCall` | abstract: what a caller of `Manager.Call` is promised; `RelayManager`, `RPCDispatcher` and the calls of `Transfer` implement it | - |
| `RelayManager` | `Manager`, `connectorConnection.finish/failAll`, the life of `ServeHTTP` | 1 device, 2 connections, 2 calls |
| `TerminalOutput` | abstract: what the browser of a terminal stream is promised about its output | - |
| `Presence` | the Manager's and the Registry's entry of one device, its handlers, its revocation | 3 connections |
| `TerminalStream` | a stream from the browser's handler through `streamEvent` and the WebSocket to the connector's `terminalStreams` and PTY | 1 stream, channel of 2, 4 outputs, 1 input |
| `RPCDispatcher` | dispatch, workers, overload writer and reconnection | 4 requests, 2 slots, queue of 1, 2 connections |
| `Transfer` | the hub's upload and export handlers, the connector's `transfers`, its files, expiry, pruning and restarts | 1 upload of 3 chunks, 1 export of 3 pieces, or 2 short transfers |
| `Accounts` | `auth.Store` and the handlers of `auth.Server` that change state | 11 databases with up to 3 requests at once, 1 restart |
| `TerminalSession` | over `Accounts`: a view of the browser, its tickets and its terminals at the hub | 1 view, 2 attempts |
| `DeviceCredential` | the credential file of a machine, connector and repair, the device's rows | 2 identifiers, 3 keys, 2 faults |
| `Notifier` | the connector's snapshot of notifications, its rereads and its publishers | 1 notification, 2 changes, 2 connections, 1 clearing goroutine |
| `RelayManagerProofs`, `TerminalStreamProofs`, `RPCDispatcherProofs`, `TransferProofs`, `PresenceProofs`, `DeviceCredentialProofs`, `NotifierProofs` | theorems about the modules they are named after | any |
| `HubAccessProofs` | theorems about `Accounts`, and `TerminalSession` over it | any |
| `MC*` | constants of the instances above | |

Every module takes its sets and limits as CONSTANTS with a named assumption, and has
one action for each section of code under one lock, or each network operation.  That
is the grain at which goroutines of this program can interleave: the locks are never
held across network operations, with the exception of a connection's write lock, which
appears as the possibility that a write happens late or fails.  In `Accounts` the grain is a
statement of the database, or a transaction.

**RelayManager.** `handler[c]` is where `ServeHTTP` is for connection c; `Register` is
split at the unlock of `m.mu` (`Register`, then `FailAll` and `CloseRemoved` of the old
connection, then `Registered`), and so are `Revoke` and `Unregister`.  `removal[c]` says
how far the removal of c has come, whoever does it: at most one of the three takes a
connection out of the map.  A call goes `idle -> sending -> waiting -> returning ->
done`; `resultCh` is its channel of capacity one, and `Finish` and `FailPending` have
the channel's room as their guard, because a Go send on a full channel blocks (while
the lock is held).  A request whose write failed may have been written all the same, and
reach the device (`CallSendFails`).  `requests` and `answers` are what is on the wire; since an answer may
have been read before the socket closed, `ReadAnswer` does not look at `open`.  The
request ID is random and never repeats, so a call is its ID.  The device takes a request
and executes it (`DeviceExecutes`), or answers "busy" without (`DeviceRefuses`).  The
refinement maps the program counter to `idle/open/done`.

**Presence.** One device, because both maps are keyed by device.  A message the handler
has read (`touching`, `noting`, `registered`) is one step away from its effect, and
`Unregister` from `Disconnect`.  The contents of notifications are represented by the
connection that sent them.

**TerminalStream.** `handler[s]` is the browser's handler; `ch[s]` the event channel with
the drain-one-then-close rule of `streamEvent` and `failAll`; the two wires are queues.
The connector's read loop handles one message at a time (`loop`, `msg`), and `open` is
split between `startAttach` and the entry into `active`, the window in which `closeAll`
misses it.  `run` follows the deferred calls of `runWithRPC`: cancel, `closeAll`, wait for
the read loop, and the outer `defer closeAll` last.

**RPCDispatcher.** `gen` counts the connections of the process.  A worker checks its
context, executes, checks again, sends, and gives its slot back; each is a step.  An answer
whose write failed may have left the connector all the same (`SendFails`, `WriterEnds`).  The
overload writer belongs to one connection and is waited for, workers are not.  It refines
`RemoteCall` from the other end: what it has sent of a request is the outcome, a request that
ended without an answer is `offline`, and one is executed as soon as its execution begins.

**Transfer.** The two sides meet in calls, with the promise `RemoteCall` states: `hub[c]` is
what the caller has been told, `dev[c]` how far the device is, and `Fail(c)` may come at any
time without stopping the device.  The steps of the device are its sections under `t.mu`
and the disk operations between them: a chunk looks its entry up, writes without the lock
and counts what it wrote; a commit takes the entry out of the table and then verifies,
closes and renames, while the hub may have given up and sent the abort.  An upload's
`file` is `part`, then `final` or removed; `Restart` makes it `left`.  Idle time is not
modelled: `Expire(X)` removes any entries at any time, also inside `beginUpload` and
`beginExport`.  Only `Prune` relies on time: it takes no `.part` file that is in use, because
an entry without a write expires after two minutes and the files are pruned after an hour.

**Accounts.** The tables are functions from their keys, a row's `state` stands for its
timestamps (`revoked_at`, `expires_at`, `used_at`), and `role[s][u]` is `"none"` without a
membership.  A handler is a request with a program counter `pc[r]`: `new -> authed` is
`Require`, `authed -> allowed` the role query of `Space` or `Device`, and each statement after
that is a step, so that everything a handler has read may be old when it acts.  A transaction
that locks a row is two steps, the lock and the commit (`locked`, `committed`), and what the
lock makes wait is a guard: the insert of a device waits for a space that is being deleted,
the delete's cascade for a pairing that is being redeemed.  `Redeem` and `DeleteSpace` may wait
for each other; PostgreSQL fails one of them, which `Fails` stands for.  `owed[r]` are the
devices a handler has yet to pass to `OnDeviceRevoked`, `cut` those it passed.  A request
may fail at every statement, may lose its answer after the commit, and ends with the hub
(`Restart`).  A request that the client has given up is cancelled: it is not handled later.

**TerminalSession.** It EXTENDS `Accounts`: the ticket route and the grant check read the
session, the membership and the device of the same tables, in one query
(`TerminalAllowed`) or in several (the middleware).  `cur` is the attempt the callbacks of
`TerminalConnection` compare themselves with; `ask[a]` and `sock[a]` are the request and the
socket of attempt a, which go on when the attempt is dropped; `timers` are those that are set.
At the hub `term[a]` is the ticket and then the terminal of the attempt.  `watchGrant` ticks from
before the stream is opened, so `GrantFails` is possible in `opening`.  A validation that times
out counts as a refusal (`GrantTimesOut`).  `broken` is a path that delivers nothing any more,
which is what the browser's probes are for.  `visible` is `document.visibilityState`: the
heartbeat of a hidden page sends no probe (`Ping`), and a page that is shown again probes, or
retries, in the same step (`Show`).  The network's return (`ProbeNow`) does so on any page, and
a probe that was sent is timed also on a hidden one.  The stream behind an open terminal is
`TerminalStream`'s; here it opens, delivers and ends.

**DeviceCredential.** `file` is connector.json, `mem[p]` the copy a process runs with, `row` the
columns of the devices at the hub.  An upgrade is `Refresh` (a new key), `CheckToken`, `BindKey`,
`TakeCertificate`, `Save`, and at last `Dial`, whose first use of the key retires the token;
between any two of them the process may crash, the answer may be lost or the save may fail.  The
certificate is its age; a nonce and a signature are what lets a key prove itself.  A repair
(`connector pair --reuse-existing`) is a second process on the same file.  `Exclusive` says
whether the connector is stopped while it runs.

**Notifier.** `option` is what tmux holds for one session.  A reread is `Read`, without the lock,
`Store`, under `n.mu`, and `Signal`; the watch loop and the goroutine of each opened session
(`Clearer`) reread at the same time.  `pub[c]` is the publisher of connection c, which
`runWithRPC` starts and does not wait for.  tmux's signals and the ticker only say when a reread
begins, and it may begin at any time.  `Prompt` says whether an ended connection's publisher is
gone before the next connection is up; a `Send` fails when its connection has ended, which
takes the WebSocket's promise that a write which fails or runs out of time closes it
(`writeEnvelope` of the hub relies on the same): `publish` itself does not end the connection.
`supported` is `notifySupported`, and without it nothing
runs. The `listed` snapshot is what the hub was last sent; what the hub's handlers do to the
Registry's entry is `Presence`'s.

## 3. Runs

| Run | Question | Result |
|---|---|---|
| `relay_rpc` | `ChannelRoom`, `NoLostCall`, `NoOrphanPending`, refinement of `RemoteCall` | holds, 2.3 million states under symmetry |
| `relay_rpc_liveness` | `RemovedCallsReturn`, `RegisterReturns`, with one call | holds |
| `presence` | `NoDeadRoute`, `OnlineHeals`, `RevocationCloses` | holds |
| `presence_replaced` | "an older connector cannot mark a replacement connection offline" | violated |
| `presence_gone` | "the device must not stay listed as online" | violated |
| `presence_revoked` | a revoked device has no connection | violated |
| `terminal_stream` | refinement of `TerminalOutput`, `CloseIsLast`, `NoAttachSurvives`, `AttachHasBrowser`, `EndReachesBrowser` | holds, 399 thousand states |
| `terminal_stream_leak` | a browser that leaves always releases its attach | violated |
| `rpc_dispatcher` | `TypesOK`, `SlotAccounting`, `AnsweredAtHome`, refinement of `RemoteCall`, `ReconnectNotBlocked`, `RequestsAnswered`; `NoLostChange`, `ChangesArrive` | holds, 253 thousand states |
| `transfer` | `TypeOK` with the bounds of the tables, `FinalIsWhole`, `CreatedIsSaved`, `FilesAreOwned`, `ExportInOrder`, `LeftoversGo` | holds |
| `hub_access` | `TypesOK`, `OwnersStay`, `SessionsDieWithToken`, `LoginHasHome`, `OneDevicePerCode`, `RevokedIsCut`, `RequestsFinish`; `OneSocket`, `NeverStuck`, `RevokedTerminalsClose`; `NeverLockedOut` with `Exclusive` | holds, 283 thousand states |
| `credential_repair` | `NeverLockedOut` when a repair runs next to the connector | violated |

`hub_access` and `rpc_dispatcher` each hold two instances that share no state.  A behaviour is
of one of them, and the other stays as it starts: the machine's credential runs over
tables that nobody asks anything of, the dispatcher in a connector without notifications.

The five violations are real disagreements between the code and its own comments or
documents; PROJECT.json quotes both sides:

1. `ServeHTTP` disconnects the Registry's entry after the Manager's lock is released.  A
   device that reconnects in between is shown offline until its next heartbeat (15 s)
   and loses the notifications it has just sent.  `OnlineHeals` shows that the status
   does heal.
2. A replaced handler may still apply a heartbeat it has read after its successor has
   gone.  Its own `Unregister` then returns false and the device stays listed online.
3. A connection that was authenticated before the device was revoked may say hello after
   `Manager.Revoke`, and stays.  Requests of users are refused all the same.
4. `closeStream` gives its write two seconds including the wait for the write lock, and
   ignores the error: behind a slow writer `stream.close` is dropped, the connection
   survives, and so does the tmux client.  `AttachHasBrowser`, checked by
   `terminal_stream`, shows that this is the only way to leave one behind.
5. The installer starts the repair before it stops the connector, and both upgrade the same
   legacy token.  If the repair binds its key last and the answer to it is lost, the connector
   saves a key that the hub no longer knows and drops the token: the machine is locked out.

**Bounds.** Two connections of one device are enough for every pair of an old and a new
one; `Presence`, where a third matters (a replaced handler acting after its successor is
gone), uses three where it passes.  Two calls show one call's effect on another's entry;
calls of different devices share only `m.mu`.  Connections and calls are used once, as in
the code, so the state spaces are finite without further bounds.  A channel of two is
the smallest in which dropping the oldest event differs from dropping the only one;
`MaxOutput` is twice that, so that the channel overflows after some output was relayed.
Two slots and a queue of one make four requests fill every queue, with one left to be
refused; `MaxGen` = 2 gives an old and a new connection.  `Cap`, `Slots` and `Queue` are 64,
8 and 8 in the code.  `Transfer` takes each request alone with three chunks or pieces in a
window of two, and pairs of short requests (one chunk; one piece or an empty history) with
tables of one entry, so that they compete for it.  Two large transfers at once share nothing
but the tables.

`hub_access` starts from eleven databases, `MCWorld`, each with the requests that compete for
the same rows: first logins at once, a login against the revocation of its token, a code redeemed
twice against the deletion of its space, a revocation and a creation against that deletion, a
member removed while it creates a code, a member added and logging in, an owner acted upon, a
new space, two ways a page's grant is taken away, and a hub that is only looked at.  Three
requests are enough for a conflict with a third that changes what the two have read.  Two
attempts show an abandoned attempt next to its successor.  Three keys are those of the file, of
the connector and of the repair; two faults are a loss in an upgrade and one in its
retry.  With an open page it is the membership or the login session that is taken away; the
deletion of the device enters the same query (`GrantAllowed`) and is left to the other
databases, for the size of the run.  `credential_repair` needs one fault, the lost answer.  In the notifier the option is
set, cleared and set again, so that an old list and a new one may be equal.

**Deadlock.** All runs say `CHECK_DEADLOCK FALSE`: connections, calls, streams, attempts and
requests of an instance are used up, and the model then stops, as it should.

**Fairness.** Weak fairness on every step of a goroutine that can run: the Go scheduler
is preemptive.  None on the network, deadlines, browsers, devices, tmux, or on what an RPC
executes.  `Presence` assumes strong fairness of `ReadHeartbeat`: the connector sends one
every 15 seconds and the loop reads messages in order, but other messages may come between.
`TerminalStream` assumes that a side whose peer has gone notices (45 idle seconds at the
hub, unanswered pings at the connector).  `Transfer` assumes weak fairness of the device's
housekeeping as a whole (the loop of `cleanUploads` and the disk operations of a commit or
an abort), and none of the hub, the browser or the calls.  `Accounts` assumes weak fairness of
the handlers as a whole, in which PostgreSQL's detection of deadlocks is a step of its own.
`TerminalSession` assumes it of the browser's timers and of the hub's grant checks, each a
ticker; nothing makes the network deliver, a user act, a hidden page come back or a stream end.  A
browser that freezes the timers of a hidden page delays them until it is thawed.  `Notifier` assumes it of
the watch loop, the readers and the publishers, and strong fairness of the watch loop's `Read`:
of the rereads the ticker brings about, tmux answers one.

## 4. Proofs

| Theorem | Says |
|---|---|
| `RelayManagerProofs!ChannelsHaveRoom`, `CallsAreNotLost`, `NothingPendsOnDeadConnections` | the three invariants of `relay_rpc` for any devices, connections and calls |
| `RelayManagerProofs!RelayImplementsRemoteCall`, `RPCDispatcherProofs!DispatcherImplementsRemoteCall` | `Spec => Remote!Spec` |
| `RelayManagerProofs!OutcomesAreTrue` | what a caller is told is true of the device and stays: an answer only after the execution, "busy" only of a request that never is executed |
| `RelayManagerProofs!LostConnectionsClose` | a connection that lost its place in the map is closed, or whoever took it is still to do so |
| `RPCDispatcherProofs!SlotsAreAccounted`, `AnswersStayHome`, `BusyMeansUntouched` | the dispatcher's invariants for any requests, slots and connections |
| `PresenceProofs!RoutesAreAlive` | the invariant of `presence` for any number of connections |
| `TerminalStreamProofs!OutputIsWhole`, `ClosesAreLast`, `AttachesEnd`, `AttachesHaveBrowsers` | no silent gap, and the invariants of `terminal_stream`, for any streams, capacity, outputs and inputs |
| `TerminalStreamProofs!StreamImplementsTerminalOutput` | `Spec => Promise!Spec` |
| `TransferProofs!VisibleIsWhole`, `CreatedWasSaved`, `NoFileIsLeft`, `HistoryInOrder` | the invariants of `transfer` for any uploads and exports at once, of any length, and any limits |
| `TransferProofs!SavedFilesStay`, `BrowsersAreAnsweredOnce` | a saved file is only ever pruned; what a browser was told is not taken back |
| `TransferProofs!CallsAreRemoteCalls` | `Spec => Remote(k)!Spec` for each call k of a transfer |
| `HubAccessProofs!SpacesKeepTheirOwner`, `RevokedTokensHaveNoSession`, `UsersHaveAHome`, `CodesMakeOneDevice`, `NoDeviceIsMissed` | the invariants of the tables for any users, spaces, devices, starting tables and requests under way |
| `HubAccessProofs!OnlyOwnersDecide` | only a request of the present owner deletes a space or changes its members, although roles are read in an earlier statement |
| `HubAccessProofs!DeletedSpacesAreEmpty` | no device or open code of a deleted space is left |
| `HubAccessProofs!ViewHasOneSocket` | `OneSocket` for any number of attempts |
| `HubAccessProofs!TicketsOpenOneTerminal` | a ticket opens one terminal at most, while its grant is valid, and is never used again |
| `HubAccessProofs!TablesUnderTerminals` | the tables' invariants, and `OnlyOwnersDecide`, hold under the terminals too |
| `DeviceCredentialProofs!MachinesAreNotLockedOut` | `Exclusive => (CredentialSpec => []NeverLockedOut)` for any identifiers, keys and faults |
| `DeviceCredentialProofs!UsedKeysStay` | a retired token is not accepted again, its device's key is not replaced, a revoked device stays revoked; without `Exclusive` |
| `NotifierProofs!ChangesAreTold` | `Prompt => (NotifierSpec => []NoLostChange)` for any notifications, readers and connections |
| `TypeCorrect` of six modules, `TerminalTypeCorrect`, `CredentialTypeCorrect`, `NotifierTypeCorrect` | the type invariants |

With them every safety property that the passing runs check is proved.  The theorems assume only
the modules' named assumptions: the nil values are not values; limits are positive; the requests
of `RPCDispatcher` and of `Transfer` are finite sets, which their cardinalities need; every
database `Accounts` may start with is `Sound`, which is what `BootstrapOwner` and earlier requests
leave, and the requests create spaces that are new, each its own, since identifiers are random.
Two theorems have an antecedent: `Exclusive` and `Prompt` name what nothing in the code enforces.
Run `credential_repair` shows what happens without the first.  Without the second, TLC finds that
the old publisher takes the signal of a change the new connection's publisher did not see, and
fails to send it; all later rereads find the snapshot unchanged, and the hub's list stays old
until the next change or connection.  In practice the second of back-off before a reconnection
lets the old publisher go first.

*RelayManager.* None of the invariants is inductive alone.  `RouteInv` says that what the map
names is registered and not removed, and that a connection is removed only after it was
registered: without it, `FailAll` could sweep a current connection.  `CallInv` says that only
calls in progress are pending and that a call that has not begun has an empty channel; that is why
the deferred `finish` of a call finds room.  `ExecutionInv` says that a request is on the wire at
most once, before its only execution; the refinement needs it for `executions <= 1`, and
`RefusedInv` that a refused one is nowhere any more.  `IInv` is the conjunction of these with the
four invariants; each lemma `...Step` goes through the actions for one part, and `RemoteStep` maps
every action to a step of `RemoteCall` or to none.  `OutcomesAreTrue` is then proved of
`RemoteCall` alone (`PromiseStep`) and holds of the relay because it implements it.
`LostConnectionsClose` is weaker than "one open connection of a device", which does not hold: a
device that is revoked, or replaced twice, may be served on a new connection before the old one is
closed.

*RPCDispatcher.* `GenInv` (a request that is anywhere came in on a connection),
`QueueInv` (the queue holds distinct requests of the current connection, the writer one),
and `AnswerInv` (an answered request is over; what is executed had a slot).  `SlotStep`
computes the cardinality of the workers that hold a token with the library's theorems on
adding and removing an element, and `SlotRoom` follows: a worker that gives a token back
finds one, so the count never becomes negative.  For the refinement `AnswerInv` also says that a
request is in one place at a time, and the lemmas that what is sent was not answered before
(`AnsweredOnce`) and that a request which arrives is new (`Unseen`).

*TerminalStream.* Four invariants, and each has a part of the invariant that makes it inductive.
`CloseIsLast` needs only `IdleInv` (a handler that has not begun left nothing behind): whatever
puts a close into a channel takes the stream out of the map in the same section.
`NoAttachSurvives` needs `TeardownInv`: a client that runs is in `active`, or the read loop is
about to put it there; so once the loop is gone the second sweep sees them all, and that is why it
comes after the wait. `AttachHasBrowser` is about messages on their way, and needs the order of
the wire: `BrowserInv` says that no open follows the close of its stream and that a close which
has been handled leaves neither a client nor an open behind, `FreshInv` that a stream not yet
opened has no output. `NoSilentGap` spans both machines.  `OrderInv` says that a stream's output
is on the wire in order, and `Expected(s)` that what the hub has not got of an open stream is on
the wire, no more and no less; `FlowInv` says that a browser is told of a gap, or has no gap and
is to get what is `Expected`.  The step that matters is an event for a full channel: `FlowReads`
shows that the oldest event goes only together with a close of reason `overflow`, and `ToldByLast`
that `CloseIsLast` then keeps the browser told.

`StreamImplementsTerminalOutput` says more than `NoSilentGap`, which ends where the gap begins:
what comes after a loss is in order too, the end names a loss exactly if the stream was lost, and
the exit of tmux is told after all it wrote.  The abstract variable `lost` is `Lost(s)`: a close
with the reason of a loss is the last event of the channel, or was relayed.  Four parts come on
top of `IInv`.  `OnceInv`: a stream is opened once, so a reader that is done stays so.
`AdvanceInv`: what the browser has, what waits in the channel, what is on the wire and what will
be written are each behind the other; this needs no `Expected`, so it survives an overflow.
`EndInv`: a stream with a reason is out of the map and its handler out of the loop.  `ExitInv`: on
the wire nothing of a stream follows its exit, and a channel that ends with the exit holds all
that is missing.  Then `HubReads` and `FailAll` map to `Lose` of the streams they lose, `Output`
to `Produce`, `RelayEvent` to `Deliver` or `End`, all else to no step.

*Transfer.* The invariant says in parts how far the three sides of a transfer may be from each
other.  `WireInv`: what the hub knows of a call is behind what the device did.  `StageInv`: the hub
sends each call at its stage, so that a commit follows a successful begin and an abort ends it.
`CommitInv`: a commit that verified has a whole file, which nothing disturbs before the rename, for
its chunks are in `disk` and no late chunk can take one away; and a file is visible exactly if its
commit is through.  With `FilesAreOwned`, which is inductive next to it, the two uploads' invariants
follow; `ChunkInv` says that a chunk which is about to be counted is on disk.  `HeldInv` ties the
hub's counter to the handlers that hold a place (`HoldersCounted`), and `PiecesInv` says that
what is in flight continues what is written and does not run dry before the end, which is why the
last piece written makes the history complete.  `UploadSound` and `BystanderSound` split a step into
what it does to its own upload and to all the others.

`CallsAreRemoteCalls` is the refinement that ties the two halves of the hub together:
`RelayManager` implements the calls of `RemoteCall`, and each call of a transfer, with its
failures and the device's restarts, is one.  `OnceInv` is what it adds: chunks are sent one after
another (`ChunkStage`), reads beyond what is written or in flight have not been sent (`ReadStage`),
so no call is sent twice.  `SavedFilesStay` follows from it: a commit that is through stays so.

*Presence.* `NoDeadRoute` is inductive together with the types.

*Accounts.* The invariant has four parts over the tables and one over the handlers.  `PeopleInv`
adds to `OwnersStay` that a personal space is owned by its user or by nobody (`HomesSound`):
`ensurePersonalSpace` is not one transaction, and that is why `OwnersStay` speaks of the other
spaces only.  `LoginsInv` adds that the user of a token or a session exists
(`LoginsSound`), without which a login could open a session for nobody.  `DevicesInv` adds that one
request holds a code, which is not used, and that a code which made a device is
(`CodesSound`); `CutInv` that only a request that has committed owes a cut (`OwedSound`).
`Ready(r)` is what a handler still knows of what it read in an earlier statement: a login that
has passed its personal space owns it, and who may change a personal space lives in it.
`OthersReady` is the lemma that matters: no step of another request takes that away.

`OnlyOwnersDecide` is the property of handlers that act on a role they read before.  `Decider(r)`
says why it holds: who was allowed to decide owns the space, and only the space's deletion ends
that; a space that is gone is `Spent`, no request makes it again.  The same is not true of what
admins may do: one whose role is taken away may still create a device, revoke one, or have a code
redeemed, if the request had its role read before.  `NothingOutlivesSpace` needs what a Redeem that
holds its code knows (`CodesSound`), and that the deletion takes all that is there in one step.

*TerminalSession.* `ViewInv` adds to `OneSocket` that a current attempt means a view that is
connecting or live.  Every step of the terminals is a step of `Accounts` or leaves its tables
alone (`TablesStep`), so `InvStep`, the step of the tables' invariant, gives the invariants of the
tables. `TicketInv` says that attempts come one after the other and that one without an answer to
its ticket request has no terminal; a ticket's states then follow `TicketOrder`, in which
`opening` is reached only from an unexpired ticket.

*DeviceCredential.* `Alone` says that at most one process runs, `Loaded` that the copy in memory is
the file's until the process has a device of its own, `Request` what each step of a request
relies on (a certificate that is under way is for the key in the device's row), and
`Accepted(file)` that the hub takes the saved credential of a device that is not revoked, also
between the binding of a key and its save: the token works until the key is first used.

*Notifier.* `OnePublisher` says that only the latest connection's publisher may be running, and
`Kept` strengthens `NoLostChange` to the moments at which the hub lists the snapshot and
something else is about to be delivered.

**Only model-checked:** all liveness properties (fairness and ENABLED are outside the
prover) and the properties of the violating runs.  `TypesOK` of `rpc_dispatcher` and of
`hub_access` are conjunctions of the type invariants of the instances that the run holds; each of
these is a theorem of its own module.
Only proved, and not among the runs' properties: the types of `RelayManager` and `Presence`;
`BusyIsUntouched`, `NoSilentGap` and `Remote!Truthful`, in whose place the runs check the
refinements; the invariants `NoConnForgotten` and `NothingOutlivesSpace`; the refinement of
`RemoteCall` by the calls of `Transfer`; and the action properties: `SavedFilesStay`,
`BrowsersAreAnsweredOnce`, `RowsAdvance`, `TicketsAreUsedOnce`, `OwnersDecide` and `Remote!Final`.

## 5. Plan

Modelled so far: relay, presence, terminal streams, dispatcher, transfers, accounts, terminal
tickets and grants with the browser's side, device credentials, the notifier.  Left:

1. `LoginBroker`: the one-time states of the flow over three parties.
2. An abstract specification of the notifier's list that `Notifier` implements.

## 6. Not modelled

- Proof nonces and terminal tickets as tables: each is looked up and removed in one section
  under one lock, and is a random value, so interleavings show nothing more.
- The rate limiter: a pure function of an address's last attempts and the clock, under one lock.
- Requests that only read, the audit log, CSRF values, names, and disabled users (nothing changes
  `users.status`).
- Of the browser: resize, send and the backoff's delays; a timer that is set may fire.
- Finer than a step: `Accept` consumes the ticket, validates its grant and accepts the socket at
  once; a grant that goes in between is seen by the next tick of `watchGrant`, as in `opening`.
  A `RedeemLock` that waited reads the creator's membership when it has the lock, where PostgreSQL
  may use the row it joined before (`OneDevicePerCode` needs neither).  `RevokeManager` follows
  every `RevokeStored`, except that a revocation whose answer is lost never cuts the device
  (http.go:516-519); in `Accounts` such a request fails and `RevokedIsCut` exempts it.  A request
  of a machine that gives up is not handled later (`GivesUp`).  `SavePaired` is one step,
  although the first pairing writes the file in place.
- A certificate past its renewal grace, the move of a machine to another hub and an unreadable
  credential file: each ends in a new pairing.  The creation of the device authority.
- An upload whose browser stalls while it stays connected: the handler waits for it, and no
  property could hold; the device's side is released by expiry (`LeftoversGo`).
- The tmux commands, the X.509 encoding, SQL below the level of a statement, the contents of
  messages, configuration, installers, deployment, and the rendering of the web application.
