----------------------------- MODULE RPCDispatcher -----------------------------
(***************************************************************************)
(* The connector's rpcDispatcher over successive connections (generations)  *)
(* of runWithRPC: at most Slots calls run at once in the whole process,     *)
(* also those an earlier connection left behind; others are told "busy".    *)
(*                                                                          *)
(* A worker checks the context, executes, checks again and sends; each of   *)
(* these is a step, so a connection may end between any two of them.        *)
(***************************************************************************)
EXTENDS Naturals, Sequences, FiniteSets

CONSTANTS
  Request,    \* RPC requests the hub sends
  Slots,      \* rpcConcurrency
  Queue,      \* rpcOverloadQueueSize
  MaxGen      \* bound: connections of the process

ASSUME ConstantsAssumption ==
  /\ IsFiniteSet(Request)
  /\ {Slots, Queue, MaxGen} \subseteq Nat \ {0}

VARIABLES
  gen,        \* the current generation
  phase,      \* "running", or "stopping" once its context is cancelled
  writer,     \* the overload writer: "idle", "sending" or "done"
  overload,   \* the queue of busy answers
  slots,      \* tokens in processRPCSlots
  worker,     \* where a request is: with its worker, or with the overload writer
  genOf,      \* the generation a request came in on, 0 before
  executed,   \* requests whose execution began
  sent        \* answers written, with the generation they were written on

vars == <<gen, phase, writer, overload, slots, worker, genOf, executed, sent>>

Holding == {"started", "executing", "finished", "sending"}
Answer  == [req : Request, on : 1..MaxGen, kind : {"result", "busy"}]

TypeOK ==
  /\ gen \in 1..MaxGen
  /\ phase \in {"running", "stopping"}
  /\ writer \in {"idle", "sending", "done"}
  /\ overload \in Seq(Request) /\ Len(overload) <= Queue
  /\ slots \in 0..Slots
  /\ worker \in [Request -> {"none", "busy", "replying", "ended"} \cup Holding]
  /\ genOf \in [Request -> 0..MaxGen]
  /\ executed \subseteq Request
  /\ sent \subseteq Answer

Init ==
  /\ gen = 1 /\ phase = "running"
  /\ writer = "idle" /\ overload = <<>>
  /\ slots = 0
  /\ worker = [r \in Request |-> "none"]
  /\ genOf = [r \in Request |-> 0]
  /\ executed = {} /\ sent = {}

\* The context of the generation a request belongs to is cancelled.
Cancelled(r) == genOf[r] < gen \/ phase = "stopping"

-------------------------------------------------------------------------------
\* Mutants of the definitions below, each a slip the code could plausibly hold.

\* A queue bound that is off by one.
LateEnqueue(r) ==
  /\ Len(overload) <= Queue
  /\ overload' = Append(overload, r)
  /\ worker' = [worker EXCEPT ![r] = "busy"]
  /\ UNCHANGED <<slots, phase>>

\* Slots made anew for every connection.
FreshSlotsReconnect ==
  /\ phase = "stopping" /\ writer = "done" /\ gen < MaxGen
  /\ gen' = gen + 1 /\ phase' = "running"
  /\ writer' = "idle" /\ overload' = <<>>
  /\ slots' = 0
  /\ UNCHANGED <<worker, genOf, executed, sent>>

\* A send that writes to whatever connection is current.
LateSendResult(r) ==
  /\ worker[r] = "sending"
  /\ phase = "running"
  /\ worker' = [worker EXCEPT ![r] = "ended"]
  /\ slots' = slots - 1
  /\ sent' = sent \cup {[req |-> r, on |-> gen, kind |-> "result"]}
  /\ UNCHANGED <<gen, phase, writer, overload, genOf, executed>>

\* A worker that also runs requests whose busy answer is still queued.
EagerStart(r) ==
  /\ worker[r] \in {"started", "busy"}
  /\ ~Cancelled(r)
  /\ worker' = [worker EXCEPT ![r] = IF @ = "busy" THEN @ ELSE "executing"]
  /\ executed' = executed \cup {r}
  /\ UNCHANGED <<gen, phase, writer, overload, slots, genOf, sent>>

\* A teardown that waits for the workers of the connection too.
WaitingReconnect ==
  /\ phase = "stopping" /\ writer = "done" /\ gen < MaxGen
  /\ \A r \in Request : worker[r] \notin Holding
  /\ gen' = gen + 1 /\ phase' = "running"
  /\ writer' = "idle" /\ overload' = <<>>
  /\ UNCHANGED <<slots, worker, genOf, executed, sent>>

\* A full overload queue that swallows the request.
SilentRefuse(r) ==
  /\ Len(overload) = Queue
  /\ worker' = [worker EXCEPT ![r] = "ended"]
  /\ UNCHANGED <<overload, slots, phase>>

-------------------------------------------------------------------------------
\* dispatch, on the read loop

TakeSlot(r) ==
  /\ slots' = slots + 1
  /\ worker' = [worker EXCEPT ![r] = "started"]
  /\ UNCHANGED <<overload, phase>>

Enqueue(r) ==
  /\ Len(overload) < Queue
  /\ overload' = Append(overload, r)
  /\ worker' = [worker EXCEPT ![r] = "busy"]
  /\ UNCHANGED <<slots, phase>>

\* No room for a busy answer either: the connection is given up.
Refuse(r) ==
  /\ Len(overload) = Queue
  /\ phase' = "stopping"
  /\ worker' = [worker EXCEPT ![r] = "ended"]
  /\ UNCHANGED <<overload, slots>>

Dispatch(r) ==
  /\ phase = "running"
  /\ worker[r] = "none"
  /\ genOf' = [genOf EXCEPT ![r] = gen]
  /\ IF slots < Slots THEN TakeSlot(r) ELSE Enqueue(r) \/ Refuse(r)
  /\ UNCHANGED <<gen, writer, executed, sent>>

-------------------------------------------------------------------------------
\* A worker; its deferred receive from slots comes last.

Release(r) ==
  /\ worker' = [worker EXCEPT ![r] = "ended"]
  /\ slots' = slots - 1

Start(r) ==
  /\ worker[r] = "started"
  /\ ~Cancelled(r)
  /\ worker' = [worker EXCEPT ![r] = "executing"]
  /\ executed' = executed \cup {r}
  /\ UNCHANGED <<gen, phase, writer, overload, slots, genOf, sent>>

\* A cancelled context before or after execute: the worker drops the request.
GiveUp(r) ==
  /\ worker[r] \in {"started", "finished"}
  /\ Cancelled(r)
  /\ Release(r)
  /\ UNCHANGED <<gen, phase, writer, overload, genOf, executed, sent>>

\* execute returns, in its own time; it may ignore the cancelled context.
ExecuteReturns(r) ==
  /\ worker[r] = "executing"
  /\ worker' = [worker EXCEPT ![r] = "finished"]
  /\ UNCHANGED <<gen, phase, writer, overload, slots, genOf, executed, sent>>

BeginSend(r) ==
  /\ worker[r] = "finished"
  /\ ~Cancelled(r)
  /\ worker' = [worker EXCEPT ![r] = "sending"]
  /\ UNCHANGED <<gen, phase, writer, overload, slots, genOf, executed, sent>>

\* send writes with the context and the connection of the worker's own generation.
SendResult(r) ==
  /\ worker[r] = "sending"
  /\ ~Cancelled(r)
  /\ Release(r)
  /\ sent' = sent \cup {[req |-> r, on |-> genOf[r], kind |-> "result"]}
  /\ UNCHANGED <<gen, phase, writer, overload, genOf, executed>>

\* send fails: fail cancels the generation the worker belongs to, if it is still there.  What
\* was written by then may have left the socket all the same.
SendFails(r) ==
  /\ worker[r] = "sending"
  /\ Release(r)
  /\ phase' = IF genOf[r] = gen THEN "stopping" ELSE phase
  /\ sent' \in {sent, sent \cup {[req |-> r, on |-> genOf[r], kind |-> "result"]}}
  /\ UNCHANGED <<gen, writer, overload, genOf, executed>>

-------------------------------------------------------------------------------
\* The overload writer of the current generation

WriterTakes ==
  /\ writer = "idle"
  /\ phase = "running" /\ overload # <<>>
  /\ writer' = "sending"
  /\ worker' = [worker EXCEPT ![Head(overload)] = "replying"]
  /\ overload' = Tail(overload)
  /\ UNCHANGED <<gen, phase, slots, genOf, executed, sent>>

WriterSends(r) ==
  /\ writer = "sending" /\ worker[r] = "replying"
  /\ phase = "running"
  /\ writer' = "idle"
  /\ worker' = [worker EXCEPT ![r] = "ended"]
  /\ sent' = sent \cup {[req |-> r, on |-> gen, kind |-> "busy"]}
  /\ UNCHANGED <<gen, phase, overload, slots, genOf, executed>>

\* The context ends or the write fails; what is queued is never sent, what is in hand may
\* have been written before the failure.
WriterEnds ==
  /\ phase = "stopping" \/ writer = "sending"
  /\ writer # "done"
  /\ writer' = "done"
  /\ phase' = "stopping"
  /\ worker' = [r \in Request |-> IF worker[r] = "replying" THEN "ended" ELSE worker[r]]
  /\ \/ UNCHANGED sent
     \/ \E r \in Request : worker[r] = "replying"
                           /\ sent' = sent \cup {[req |-> r, on |-> gen, kind |-> "busy"]}
  /\ UNCHANGED <<gen, overload, slots, genOf, executed>>

-------------------------------------------------------------------------------
\* runWithRPC

\* The connection fails: read error, missing pong, heartbeat that cannot be sent.
Fail ==
  /\ phase = "running"
  /\ phase' = "stopping"
  /\ UNCHANGED <<gen, writer, overload, slots, worker, genOf, executed, sent>>

\* The teardown waits for the read loop and the writer, not for workers; the main loop
\* then connects again, with a new dispatcher over the same slots.
Reconnect ==
  /\ phase = "stopping" /\ writer = "done"
  /\ gen < MaxGen
  /\ gen' = gen + 1 /\ phase' = "running"
  /\ writer' = "idle" /\ overload' = <<>>
  /\ UNCHANGED <<slots, worker, genOf, executed, sent>>

-------------------------------------------------------------------------------
WorkerNext(r) == Start(r) \/ GiveUp(r) \/ BeginSend(r) \/ SendResult(r) \/ SendFails(r)
WriterNext == WriterTakes \/ (\E r \in Request : WriterSends(r)) \/ WriterEnds

Next ==
  \/ \E r \in Request : Dispatch(r) \/ WorkerNext(r) \/ ExecuteReturns(r)
  \/ WriterNext
  \/ Fail \/ Reconnect

Spec == Init /\ [][Next]_vars

\* Goroutines that can run do run.  Nothing is assumed of execute: a worker may hang in
\* an operation of the system that no context ends.
Fairness ==
  /\ \A r \in Request : WF_vars(WorkerNext(r))
  /\ WF_vars(WriterNext) /\ WF_vars(Reconnect)

FairSpec == Spec /\ Fairness

-------------------------------------------------------------------------------
\* Properties

\* The tokens in processRPCSlots are those of the workers that hold one, of whichever
\* generation: none leaks, none is given back twice, and no connection adds capacity.
SlotAccounting == slots = Cardinality({r \in Request : worker[r] \in Holding})

\* A request is answered at most once, and on the connection it came in on: a late
\* result of an earlier connection never reaches the next one.
AnsweredAtHome ==
  /\ \A a \in sent : a.on = genOf[a.req]
  /\ \A a, b \in sent : a.req = b.req => a = b

\* "busy" means not executed: the hub may tell the caller to try again.
BusyIsUntouched == \A a \in sent : a.kind = "busy" => a.req \notin executed

\* A request as RemoteCall sees it: open until its worker or the writer has left it; one
\* that nobody answered is what the hub calls offline.
Answered(r, kind) == \E a \in sent : a.req = r /\ a.kind = kind

RemoteStatus ==
  [r \in Request |-> CASE worker[r] = "none" -> "idle"
                       [] worker[r] = "ended" -> "done"
                       [] OTHER -> "open"]

RemoteOutcome ==
  [r \in Request |-> IF Answered(r, "result") THEN "response"
                    ELSE IF Answered(r, "busy") THEN "busy"
                    ELSE IF worker[r] = "ended" THEN "offline" ELSE "none"]

Remote == INSTANCE RemoteCall WITH
  Call <- Request, status <- RemoteStatus, outcome <- RemoteOutcome,
  executions <- [r \in Request |-> IF r \in executed THEN 1 ELSE 0]

\* The connector keeps the promise the relay passes on: it executes a request at most once,
\* answers it once, with a result only after the execution and with "busy" only if there
\* was none and will be none, over all connections of the process (dispatch).
ImplementsRemoteCall == Remote!Spec

\* A hung execute never keeps the connector from reconnecting.
ReconnectNotBlocked == \A g \in 1..(MaxGen - 1) : (gen = g /\ phase = "stopping") ~> gen = g + 1

\* A request of a connection that stays up is answered, unless its execution hangs.
RequestsAnswered ==
  \A r \in Request :
    genOf[r] # 0 ~> \/ Cancelled(r)
                    \/ worker[r] = "executing"
                    \/ \E a \in sent : a.req = r
===============================================================================
