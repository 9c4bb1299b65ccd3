----------------------------- MODULE RelayManager -----------------------------
(***************************************************************************)
(* The hub's route to its devices: relay.Manager, the calls waiting on each *)
(* connectorConnection, and the part of ConnectorHandler.ServeHTTP that     *)
(* registers a connection, reads its RPC answers and unregisters it.        *)
(*                                                                          *)
(* A step is a section under one lock (m.mu, or a connection's mu), or one  *)
(* network operation.  A call's request ID is 128 random bits, so a call is *)
(* its own ID, and ErrDuplicateRequest cannot occur.  Terminal streams,     *)
(* which share the connection, are in TerminalStream; the registry of       *)
(* devices is in Presence.                                                  *)
(***************************************************************************)
EXTENDS Naturals

CONSTANTS
  Device,     \* device IDs
  Conn,       \* connector WebSockets, each used once
  Call,       \* calls of Manager.Call
  NoConn,     \* nil
  DeviceOf,   \* the device each connection's credential proves
  TargetOf    \* the device each call is for

ASSUME ConstantsAssumption ==
  /\ NoConn \notin Conn
  /\ DeviceOf \in [Conn -> Device]
  /\ TargetOf \in [Call -> Device]

VARIABLES
  connectors,   \* Manager.connectors
  handler,      \* where ServeHTTP is, per connection
  replaced,     \* Register's `old`, per connection
  removal,      \* how far the removal of a connection from connectors has come
  open,         \* whether the hub can still write to the WebSocket
  pending,      \* connectorConnection.pending
  resultCh,     \* the buffered channel of a call, "empty" or its one result
  pc,           \* where callWithID is, per call
  via,          \* the connection callWithID captured
  ctx,          \* "live", or "ended" by the caller or by the deadline
  outcome,      \* what callWithID returns
  requests,     \* requests written to a connection, not yet taken by the device
  answers,      \* answers on their way to the hub
  executions    \* how often the device executed a call

connVars == <<connectors, handler, replaced, removal>>
callVars == <<pc, via, ctx, outcome>>
wireVars == <<requests, answers, executions>>
vars == <<connVars, open, pending, resultCh, callVars, wireVars>>

FromDevice == {"response", "invalid"}
Result     == FromDevice \cup {"busy", "offline"}
Outcome    == Result \cup {"expired", "sendError"}

Answer == [call : Call, result : FromDevice \cup {"busy"}]

TypeOK ==
  /\ connectors \in [Device -> Conn \cup {NoConn}]
  /\ handler \in [Conn -> {"new", "accepted", "registering", "serving", "leaving", "done"}]
  /\ replaced \in [Conn -> Conn \cup {NoConn}]
  /\ removal \in [Conn -> {"none", "removed", "failed", "closed"}]
  /\ open \in [Conn -> BOOLEAN]
  /\ pending \in [Conn -> SUBSET Call]
  /\ resultCh \in [Call -> Result \cup {"empty"}]
  /\ pc \in [Call -> {"idle", "sending", "waiting", "returning", "done"}]
  /\ via \in [Call -> Conn \cup {NoConn}]
  /\ ctx \in [Call -> {"live", "ended"}]
  /\ outcome \in [Call -> Outcome \cup {"none"}]
  /\ requests \in [Conn -> SUBSET Call]
  /\ answers \in [Conn -> SUBSET Answer]
  /\ executions \in [Call -> Nat]

Init ==
  /\ connectors = [d \in Device |-> NoConn]
  /\ handler = [c \in Conn |-> "new"]
  /\ replaced = [c \in Conn |-> NoConn]
  /\ removal = [c \in Conn |-> "none"]
  /\ open = [c \in Conn |-> FALSE]
  /\ pending = [c \in Conn |-> {}]
  /\ resultCh = [k \in Call |-> "empty"]
  /\ pc = [k \in Call |-> "idle"]
  /\ via = [k \in Call |-> NoConn]
  /\ ctx = [k \in Call |-> "live"]
  /\ outcome = [k \in Call |-> "none"]
  /\ requests = [c \in Conn |-> {}]
  /\ answers = [c \in Conn |-> {}]
  /\ executions = [k \in Call |-> 0]

-------------------------------------------------------------------------------
\* Mutants of the definitions below, each a slip the code could plausibly hold.

\* callWithID that looked its connection up before taking m.mu.
StaleLookupRoute(d) == {c \in Conn : handler[c] = "serving" /\ DeviceOf[c] = d}

\* finish that forgets delete(a.pending, id).
KeepPendingFinish(c, k, r) ==
  /\ k \in pending[c] => resultCh[k] = "empty"
  /\ resultCh' = IF k \in pending[c] THEN [resultCh EXCEPT ![k] = r] ELSE resultCh
  /\ UNCHANGED pending

\* failAll that drops the pending calls without a result.
SilentFailPending(c) ==
  /\ pending' = [pending EXCEPT ![c] = {}]
  /\ UNCHANGED resultCh

\* failAll that leaves the calls to their deadline.
NoFailPending(c) == UNCHANGED <<pending, resultCh>>

\* callWithID that writes the request again after a failed write.
RetrySendFails(k) ==
  /\ pc[k] = "sending"
  /\ via[k] # NoConn
  /\ open' = [open EXCEPT ![via[k]] = FALSE]
  /\ requests' = [requests EXCEPT ![via[k]] = @ \cup {k}]
  /\ UNCHANGED <<connVars, pending, resultCh, callVars, answers, executions>>

-------------------------------------------------------------------------------
\* connectorConnection

\* finish: the one result of a pending call; `ch <- result` blocks on a full channel.
Finish(c, k, r) ==
  /\ k \in pending[c] => resultCh[k] = "empty"
  /\ pending' = [pending EXCEPT ![c] = @ \ {k}]
  /\ resultCh' = IF k \in pending[c] THEN [resultCh EXCEPT ![k] = r] ELSE resultCh

\* The loop of failAll over a.pending.
FailPending(c) ==
  /\ \A k \in pending[c] : resultCh[k] = "empty"
  /\ pending' = [pending EXCEPT ![c] = {}]
  /\ resultCh' = [k \in Call |-> IF k \in pending[c] THEN "offline" ELSE resultCh[k]]

-------------------------------------------------------------------------------
\* Manager and ConnectorHandler.ServeHTTP

IsCurrent(c) == connectors[DeviceOf[c]] = c

\* The upgrade succeeded and the read loop waits for the hello.
Accept(c) ==
  /\ handler[c] = "new"
  /\ handler' = [handler EXCEPT ![c] = "accepted"]
  /\ open' = [open EXCEPT ![c] = TRUE]
  /\ UNCHANGED <<connectors, replaced, removal, pending, resultCh, callVars, wireVars>>

\* Register's section under m.mu.
Register(c) ==
  LET old == connectors[DeviceOf[c]] IN
  /\ handler[c] = "accepted"
  /\ handler' = [handler EXCEPT ![c] = "registering"]
  /\ connectors' = [connectors EXCEPT ![DeviceOf[c]] = c]
  /\ replaced' = [replaced EXCEPT ![c] = old]
  /\ removal' = [b \in Conn |-> IF b = old THEN "removed" ELSE removal[b]]
  /\ UNCHANGED <<open, pending, resultCh, callVars, wireVars>>

\* Register returns once it failed and closed the connection it replaced.
Registered(c) ==
  /\ handler[c] = "registering"
  /\ replaced[c] # NoConn => removal[replaced[c]] = "closed"
  /\ handler' = [handler EXCEPT ![c] = "serving"]
  /\ replaced' = [replaced EXCEPT ![c] = NoConn]
  /\ UNCHANGED <<connectors, removal, open, pending, resultCh, callVars, wireVars>>

\* Revoke's section under m.mu.
Revoke(d) ==
  LET old == connectors[d] IN
  /\ old # NoConn
  /\ connectors' = [connectors EXCEPT ![d] = NoConn]
  /\ removal' = [removal EXCEPT ![old] = "removed"]
  /\ UNCHANGED <<handler, replaced, open, pending, resultCh, callVars, wireVars>>

\* Register, Revoke or Unregister runs failAll on the connection it took out.
FailAll(c) ==
  /\ removal[c] = "removed"
  /\ FailPending(c)
  /\ removal' = [removal EXCEPT ![c] = "failed"]
  /\ UNCHANGED <<connectors, handler, replaced, open, callVars, wireVars>>

\* CloseNow by Register or Revoke, or by ServeHTTP's deferred call after Unregister.
CloseRemoved(c) ==
  /\ removal[c] = "failed"
  /\ removal' = [removal EXCEPT ![c] = "closed"]
  /\ open' = [open EXCEPT ![c] = FALSE]
  /\ UNCHANGED <<connectors, handler, replaced, pending, resultCh, callVars, wireVars>>

\* connection.Read fails: the WebSocket is closed, by either side or by the network.
ReadFails(c) ==
  /\ handler[c] \in {"accepted", "serving"}
  /\ ~open[c]
  /\ handler' = [handler EXCEPT ![c] = "leaving"]
  /\ UNCHANGED <<connectors, replaced, removal, open, pending, resultCh, callVars, wireVars>>

\* A hello that is invalid or not the first one ends ServeHTTP.
RejectHello(c) ==
  /\ handler[c] \in {"accepted", "serving"}
  /\ open[c]
  /\ handler' = [handler EXCEPT ![c] = "leaving"]
  /\ UNCHANGED <<connectors, replaced, removal, open, pending, resultCh, callVars, wireVars>>

\* ServeHTTP's deferred Unregister; one that finds another connection only closes its
\* own.  Nobody reads what is left on the WebSocket.
Unregister(c) ==
  /\ handler[c] = "leaving"
  /\ handler' = [handler EXCEPT ![c] = "done"]
  /\ answers' = [answers EXCEPT ![c] = {}]
  /\ IF IsCurrent(c)
       THEN /\ connectors' = [connectors EXCEPT ![DeviceOf[c]] = NoConn]
            /\ removal' = [removal EXCEPT ![c] = "removed"]
            /\ UNCHANGED open
       ELSE /\ open' = [open EXCEPT ![c] = FALSE]
            /\ UNCHANGED <<connectors, removal>>
  /\ UNCHANGED <<replaced, pending, resultCh, callVars, requests, executions>>

\* The read loop passes an answer to finish.  The message may have left the socket
\* before the connection was closed, so `open` does not matter.
ReadAnswer(c, m) ==
  /\ handler[c] = "serving"
  /\ m \in answers[c]
  /\ answers' = [answers EXCEPT ![c] = @ \ {m}]
  /\ Finish(c, m.call, m.result)
  /\ UNCHANGED <<connVars, open, callVars, requests, executions>>

-------------------------------------------------------------------------------
\* Manager.callWithID

\* The connections the locked lookup may return for a device.
Route(d) == {connectors[d]} \ {NoConn}

CallOffline(k) ==
  /\ pc[k] = "idle"
  /\ Route(TargetOf[k]) = {}
  /\ pc' = [pc EXCEPT ![k] = "done"]
  /\ outcome' = [outcome EXCEPT ![k] = "offline"]
  /\ UNCHANGED <<connVars, open, pending, resultCh, via, ctx, wireVars>>

\* Lookup and entry into pending, under m.mu.RLock and the connection's mu.
CallBegins(k) ==
  \E c \in Route(TargetOf[k]) :
    /\ pc[k] = "idle"
    /\ pc' = [pc EXCEPT ![k] = "sending"]
    /\ via' = [via EXCEPT ![k] = c]
    /\ pending' = [pending EXCEPT ![c] = @ \cup {k}]
    /\ UNCHANGED <<connVars, open, resultCh, ctx, outcome, wireVars>>

CallSends(k) ==
  /\ pc[k] = "sending"
  /\ ctx[k] = "live"
  /\ open[via[k]]
  /\ pc' = [pc EXCEPT ![k] = "waiting"]
  /\ requests' = [requests EXCEPT ![via[k]] = @ \cup {k}]
  /\ UNCHANGED <<connVars, open, pending, resultCh, via, ctx, outcome, answers, executions>>

\* send fails: the context ended before the write, or the write failed, which closes
\* the WebSocket (a write that timed out does, a closed one already is).  A request that was
\* written before the failure may reach the device all the same.
CallSendFails(k) ==
  /\ pc[k] = "sending"
  /\ pc' = [pc EXCEPT ![k] = "returning"]
  /\ outcome' = [outcome EXCEPT ![k] = "sendError"]
  /\ \/ ctx[k] = "ended" /\ UNCHANGED <<open, requests>>
     \/ /\ ctx[k] = "live" /\ open' = [open EXCEPT ![via[k]] = FALSE]
        /\ \/ UNCHANGED requests
           \/ open[via[k]] /\ requests' = [requests EXCEPT ![via[k]] = @ \cup {k}]
  /\ UNCHANGED <<connVars, pending, resultCh, via, ctx, answers, executions>>

CallReceives(k) ==
  /\ pc[k] = "waiting"
  /\ resultCh[k] # "empty"
  /\ pc' = [pc EXCEPT ![k] = "returning"]
  /\ outcome' = [outcome EXCEPT ![k] = resultCh[k]]
  /\ resultCh' = [resultCh EXCEPT ![k] = "empty"]
  /\ UNCHANGED <<connVars, open, pending, via, ctx, wireVars>>

\* The select may take callCtx.Done() even when a result is there.
CallExpires(k) ==
  /\ pc[k] = "waiting"
  /\ ctx[k] = "ended"
  /\ pc' = [pc EXCEPT ![k] = "returning"]
  /\ outcome' = [outcome EXCEPT ![k] = "expired"]
  /\ UNCHANGED <<connVars, open, pending, resultCh, via, ctx, wireVars>>

\* The deferred cancel and finish.  The empty result finish may send goes with the
\* channel, which nobody reads any more.
CallReturns(k) ==
  /\ pc[k] = "returning"
  /\ k \in pending[via[k]] => resultCh[k] = "empty"
  /\ pc' = [pc EXCEPT ![k] = "done"]
  /\ ctx' = [ctx EXCEPT ![k] = "ended"]
  /\ via' = [via EXCEPT ![k] = NoConn]
  /\ pending' = [pending EXCEPT ![via[k]] = @ \ {k}]
  /\ resultCh' = [resultCh EXCEPT ![k] = "empty"]
  /\ UNCHANGED <<connVars, open, outcome, wireVars>>

-------------------------------------------------------------------------------
\* The environment

\* The deadline passes or the HTTP request is cancelled.
ContextEnds(k) ==
  /\ pc[k] \in {"sending", "waiting"}
  /\ ctx[k] = "live"
  /\ ctx' = [ctx EXCEPT ![k] = "ended"]
  /\ UNCHANGED <<connVars, open, pending, resultCh, pc, via, outcome, wireVars>>

\* The peer or the network closes the connection, or 45 idle seconds pass.
Drop(c) ==
  /\ open[c]
  /\ open' = [open EXCEPT ![c] = FALSE]
  /\ UNCHANGED <<connVars, pending, resultCh, callVars, wireVars>>

\* The connector takes a request, executes it and answers.  It may do so at any
\* time after the request was written; its answer may be one the hub rejects, and is
\* lost when the connection is closed.
DeviceExecutes(c, k, r) ==
  /\ k \in requests[c]
  /\ requests' = [requests EXCEPT ![c] = @ \ {k}]
  /\ executions' = [executions EXCEPT ![k] = @ + 1]
  /\ answers' = [answers EXCEPT ![c] =
                   IF open[c] THEN @ \cup {[call |-> k, result |-> r]} ELSE @]
  /\ UNCHANGED <<connVars, open, pending, resultCh, callVars>>

\* The connector takes a request while all its slots are taken, and answers "busy"
\* without executing it (RPCDispatcher).
DeviceRefuses(c, k) ==
  /\ k \in requests[c]
  /\ requests' = [requests EXCEPT ![c] = @ \ {k}]
  /\ answers' = [answers EXCEPT ![c] =
                   IF open[c] THEN @ \cup {[call |-> k, result |-> "busy"]} ELSE @]
  /\ UNCHANGED <<connVars, open, pending, resultCh, callVars, executions>>

-------------------------------------------------------------------------------
ConnNext(c) ==
  \/ Accept(c) \/ Register(c) \/ Registered(c)
  \/ FailAll(c) \/ CloseRemoved(c)
  \/ ReadFails(c) \/ RejectHello(c) \/ Unregister(c)
  \/ \E m \in answers[c] : ReadAnswer(c, m)
  \/ Drop(c)
  \/ \E k \in requests[c], r \in FromDevice : DeviceExecutes(c, k, r)
  \/ \E k \in requests[c] : DeviceRefuses(c, k)

CallNext(k) ==
  \/ CallOffline(k) \/ CallBegins(k)
  \/ CallSends(k) \/ CallSendFails(k)
  \/ CallReceives(k) \/ CallExpires(k) \/ CallReturns(k)
  \/ ContextEnds(k)

Next ==
  \/ \E c \in Conn : ConnNext(c)
  \/ \E d \in Device : Revoke(d)
  \/ \E k \in Call : CallNext(k)

Spec == Init /\ [][Next]_vars

\* Goroutines that can run do run.  Nothing is assumed of deadlines, of the network
\* or of the device: no fairness on ContextEnds, Drop, DeviceExecutes
\* and DeviceRefuses.
Fairness ==
  /\ \A c \in Conn :
       /\ WF_vars(Registered(c)) /\ WF_vars(FailAll(c)) /\ WF_vars(CloseRemoved(c))
       /\ WF_vars(ReadFails(c)) /\ WF_vars(Unregister(c))
  /\ \A k \in Call :
       /\ WF_vars(CallSends(k) \/ CallSendFails(k))
       /\ WF_vars(CallReceives(k) \/ CallExpires(k))
       /\ WF_vars(CallReturns(k))

FairSpec == Spec /\ Fairness

-------------------------------------------------------------------------------
\* Properties

\* A result is only ever sent into an empty channel.  finish and failAll send while
\* they hold the connection's mu, so a full channel would stop the read loop, every
\* new call of the device and the Register that replaces the connection.
ChannelRoom ==
  \A c \in Conn : \A k \in pending[c] : resultCh[k] = "empty"

\* A call that waits has its entry in the pending map of the connection it was sent
\* on, or its result in its channel: no answer, failAll or late finish loses it.
NoLostCall ==
  \A k \in Call :
    pc[k] \in {"sending", "waiting"} => k \in pending[via[k]] \/ resultCh[k] # "empty"

\* A pending entry belongs to a call in progress on that connection, which is the
\* device's current one or one whose failAll is still to come: no call enters a
\* connection after its failAll has run, and none leaves an entry behind.
NoOrphanPending ==
  \A c \in Conn : \A k \in pending[c] :
    /\ via[k] = c
    /\ IsCurrent(c) \/ removal[c] = "removed"

\* Callers see a call that is executed at most once, is answered once, and is reported
\* as answered by the device only if the device executed it, as refused only if it did not.
RemoteStatus ==
  [k \in Call |-> CASE pc[k] = "idle" -> "idle"
                    [] pc[k] \in {"sending", "waiting"} -> "open"
                    [] OTHER -> "done"]

Remote == INSTANCE RemoteCall WITH status <- RemoteStatus

ImplementsRemoteCall == Remote!Spec

\* A call on a connection that was replaced, revoked or unregistered returns without
\* waiting for its deadline.
RemovedCallsReturn ==
  \A k \in Call, c \in Conn :
    (via[k] = c /\ removal[c] # "none") ~> pc[k] = "done"

\* A new connection of a device is served even while calls are answered on the old one:
\* Register is never stuck behind the failAll of the connection it replaces.
RegisterReturns ==
  \A c \in Conn : handler[c] = "registering" ~> handler[c] = "serving"
===============================================================================
