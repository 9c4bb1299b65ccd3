----------------------------- MODULE TerminalStream ----------------------------
(***************************************************************************)
(* Terminal streams over one connection of a device: the hub's OpenStream,  *)
(* streamEvent, failAll and closeStream, the relay loop of TerminalHandler, *)
(* and the connector's terminalStreams with the PTY each stream attaches.   *)
(*                                                                          *)
(* Both directions of the WebSocket are queues.  A stream ID is 128 random  *)
(* bits, used once, so the connector's "already exists" branch cannot run.  *)
(* RelayManager shows that nothing enters a connection after its failAll.   *)
(***************************************************************************)
EXTENDS Naturals, Sequences, SequencesExt

CONSTANTS
  Stream,      \* stream IDs
  Cap,         \* capacity of a stream's event channel (64 in the code)
  MaxOutput,   \* bound: PTY reads per stream
  MaxInput     \* bound: input messages per stream

ASSUME ConstantsAssumption == {Cap, MaxOutput, MaxInput} \subseteq Nat /\ Cap > 0

VARIABLES
  handler,     \* hub: where TerminalHandler.ServeHTTP is, per stream
  streams,     \* hub: connectorConnection.streams, as the set of its IDs
  ch,          \* hub: the event channel of each stream
  seen,        \* hub: the output the browser was sent
  ending,      \* hub: the reason of the close event relayed to the browser
  skipped,     \* hub: streams whose stream.close was given up before its write
  writing,     \* hub: streams whose SendStream is between its lookup and its write
  hub,         \* hub: "up", "closed" (WebSocket unusable), "failed" (failAll done)
  toDevice,    \* messages to the connector
  toHub,       \* messages to the hub
  loop,        \* connector: the read loop, "reading", "handling", "attached" or "gone"
  msg,         \* connector: the message the read loop handles
  active,      \* connector: terminalStreams.active, as the set of its IDs
  attach,      \* connector: the tmux client of a stream, "none", "running" or "dead"
  reader,      \* connector: the goroutine that reads the PTY of a stream
  reported,    \* connector: streams whose close was reported (reportOnce)
  run,         \* connector: "up", then the teardown of runWithRPC step by step
  output,      \* PTY reads so far, per stream
  input        \* input messages so far, per stream

browserVars == <<handler, seen, ending, skipped, input, writing>>
wires       == <<toDevice, toHub>>
loopVars    == <<loop, msg>>
ptyVars     == <<active, attach, reader, reported, output>>
vars == <<browserVars, streams, ch, hub, wires, loopVars, ptyVars, run>>

NoReason == "none"
Reason   == {"exited", "inputFailed", "openFailed", "overflow", "offline"}

Data(s, n)  == [type |-> "data", id |-> s, n |-> n, reason |-> NoReason]
Close(s, r) == [type |-> "close", id |-> s, n |-> 0, reason |-> r]
Open(s)     == [type |-> "open", id |-> s, n |-> 0, reason |-> NoReason]
Message == [type : {"open", "data", "close"}, id : Stream, n : Nat,
            reason : Reason \cup {NoReason}]
NoMessage == [type |-> "none"]

TypeOK ==
  /\ handler \in [Stream -> {"idle", "opening", "relaying", "stopping", "closing", "done"}]
  /\ streams \subseteq Stream
  /\ ch \in [Stream -> Seq(Message)] /\ \A s \in Stream : Len(ch[s]) <= Cap
  /\ seen \in [Stream -> Seq(1..MaxOutput)]
  /\ ending \in [Stream -> Reason \cup {NoReason}]
  /\ skipped \subseteq Stream /\ writing \subseteq Stream
  /\ hub \in {"up", "closed", "failed"}
  /\ toDevice \in Seq(Message) /\ toHub \in Seq(Message)
  /\ loop \in {"reading", "handling", "attached", "gone"}
  /\ msg \in Message \cup {NoMessage}
  /\ active \subseteq Stream
  /\ attach \in [Stream -> {"none", "running", "dead"}]
  /\ reader \in [Stream -> {"none", "reading", "reporting", "done"}]
  /\ reported \subseteq Stream
  /\ run \in {"up", "cancelled", "swept", "joined", "ended"}
  /\ output \in [Stream -> 0..MaxOutput]
  /\ input \in [Stream -> 0..MaxInput]

Init ==
  /\ handler = [s \in Stream |-> "idle"]
  /\ streams = {}
  /\ ch = [s \in Stream |-> <<>>]
  /\ seen = [s \in Stream |-> <<>>]
  /\ ending = [s \in Stream |-> NoReason]
  /\ skipped = {} /\ writing = {}
  /\ hub = "up"
  /\ toDevice = <<>> /\ toHub = <<>>
  /\ loop = "reading" /\ msg = NoMessage
  /\ active = {}
  /\ attach = [s \in Stream |-> "none"]
  /\ reader = [s \in Stream |-> "none"]
  /\ reported = {}
  /\ run = "up"
  /\ output = [s \in Stream |-> 0]
  /\ input = [s \in Stream |-> 0]

-------------------------------------------------------------------------------
\* Mutants of the definitions below, each a slip the code could plausibly hold.

\* A full channel that forgets to make room before the close event.
NoDrainOverflow(q, e) == Append(q, e)

\* A full channel that drops the new output and goes on.
DropNewDelivered(s, e) ==
  IF Len(ch[s]) < Cap
    THEN /\ ch' = [ch EXCEPT ![s] = IF s \in streams THEN Append(@, e) ELSE @]
         /\ streams' = IF e.type = "close" THEN streams \ {s} ELSE streams
    ELSE UNCHANGED <<ch, streams>>

\* streamEvent that keeps the stream after a close.
KeepStreamDelivered(s, e) ==
  /\ s \in streams => ch' = [ch EXCEPT ![s] = IF Len(@) < Cap THEN Append(@, e)
                                              ELSE Append(Tail(@), Close(s, "overflow"))]
  /\ s \notin streams => UNCHANGED ch
  /\ UNCHANGED streams

\* runWithRPC without its outer `defer streams.closeAll()`, which runs last.
OneSweepEnd ==
  /\ run = "joined"
  /\ run' = "ended"
  /\ UNCHANGED <<browserVars, streams, ch, hub, wires, loopVars, ptyVars>>

\* closeStream that only forgets the stream.
SilentSendClose(s) ==
  /\ handler[s] = "closing"
  /\ handler' = [handler EXCEPT ![s] = "done"]
  /\ UNCHANGED <<streams, ch, seen, ending, skipped, input, writing, hub,
                 wires, loopVars, ptyVars, run>>

\* The PTY reader that leaves without reporting.
MuteReaderEnds(s) ==
  /\ reader[s] = "reading"
  /\ attach[s] = "dead"
  /\ reader' = [reader EXCEPT ![s] = "done"]
  /\ active' = active \ {s}
  /\ UNCHANGED <<browserVars, streams, ch, hub, wires, loopVars, attach,
                 reported, output, run>>

-------------------------------------------------------------------------------
\* The hub's event channels

\* A full channel loses its oldest event to the close event.
Overflow(q, e) == Append(Tail(q), e)

\* streamEvent: unknown streams are ignored, a close or an overflow ends the stream.
Delivered(s, e) ==
  IF s \notin streams
    THEN UNCHANGED <<ch, streams>>
    ELSE /\ ch' = [ch EXCEPT ![s] =
                     IF Len(@) < Cap THEN Append(@, e) ELSE Overflow(@, Close(s, "overflow"))]
         /\ streams' = IF e.type = "close" \/ Len(ch[s]) = Cap THEN streams \ {s} ELSE streams

HubReads ==
  /\ toHub # <<>>
  /\ toHub' = Tail(toHub)
  /\ Delivered(Head(toHub).id, Head(toHub))
  /\ UNCHANGED <<browserVars, hub, toDevice, loopVars, ptyVars, run>>

\* failAll: every stream is removed and told, at the price of its oldest event.
FailAll ==
  /\ hub # "failed"
  /\ hub' = "failed"
  /\ streams' = {}
  /\ ch' = [s \in Stream |->
              IF s \notin streams THEN ch[s]
              ELSE IF Len(ch[s]) < Cap THEN Append(ch[s], Close(s, "offline"))
              ELSE Overflow(ch[s], Close(s, "offline"))]
  /\ UNCHANGED <<browserVars, wires, loopVars, ptyVars, run>>

-------------------------------------------------------------------------------
\* OpenStream, the relay loop and closeStream, for the browser of stream s

AddStream(s) ==
  /\ handler[s] = "idle"
  /\ hub # "failed"
  /\ handler' = [handler EXCEPT ![s] = "opening"]
  /\ streams' = streams \cup {s}
  /\ UNCHANGED <<ch, seen, ending, skipped, input, writing, hub, wires,
                 loopVars, ptyVars, run>>

SendOpen(s) ==
  /\ handler[s] = "opening"
  /\ hub = "up"
  /\ handler' = [handler EXCEPT ![s] = "relaying"]
  /\ toDevice' = Append(toDevice, Open(s))
  /\ UNCHANGED <<streams, ch, seen, ending, skipped, input, writing, hub,
                 toHub, loopVars, ptyVars, run>>

\* The browser or its grant went before the write, or the write failed.
SendOpenFails(s) ==
  /\ handler[s] = "opening"
  /\ handler' = [handler EXCEPT ![s] = "stopping"]
  /\ UNCHANGED <<streams, ch, seen, ending, skipped, input, writing, hub,
                 wires, loopVars, ptyVars, run>>

RelayEvent(s) ==
  LET e == Head(ch[s]) IN
  /\ handler[s] = "relaying"
  /\ ch[s] # <<>>
  /\ ch' = [ch EXCEPT ![s] = Tail(@)]
  /\ IF e.type = "close"
       THEN /\ ending' = [ending EXCEPT ![s] = e.reason]
            /\ handler' = [handler EXCEPT ![s] = "stopping"]
            /\ UNCHANGED seen
       ELSE /\ seen' = [seen EXCEPT ![s] = Append(@, e.n)]
            /\ UNCHANGED <<handler, ending>>
  /\ UNCHANGED <<streams, skipped, input, writing, hub, wires, loopVars, ptyVars, run>>

\* The browser leaves, stops answering pings, loses its grant, or a write to it fails.
BrowserLeaves(s) ==
  /\ handler[s] = "relaying"
  /\ handler' = [handler EXCEPT ![s] = "stopping"]
  /\ UNCHANGED <<streams, ch, seen, ending, skipped, input, writing, hub,
                 wires, loopVars, ptyVars, run>>

\* SendStream looks the stream up; the write comes later, when the stream may be gone, and
\* is left out when the browser's context has ended.
CheckInput(s) ==
  /\ handler[s] = "relaying"
  /\ s \in streams /\ s \notin writing
  /\ input[s] < MaxInput
  /\ input' = [input EXCEPT ![s] = @ + 1]
  /\ writing' = writing \cup {s}
  /\ UNCHANGED <<handler, streams, ch, seen, ending, skipped, hub, wires,
                 loopVars, ptyVars, run>>

WriteInput(s) ==
  /\ s \in writing
  /\ writing' = writing \ {s}
  /\ \/ hub = "up" /\ toDevice' = Append(toDevice, Data(s, input[s]))
     \/ (hub # "up" \/ handler[s] # "relaying") /\ UNCHANGED toDevice
  /\ UNCHANGED <<handler, streams, ch, seen, ending, skipped, input, hub,
                 toHub, loopVars, ptyVars, run>>

RemoveStream(s) ==
  /\ handler[s] = "stopping"
  /\ handler' = [handler EXCEPT ![s] = "closing"]
  /\ streams' = streams \ {s}
  /\ UNCHANGED <<ch, seen, ending, skipped, input, writing, hub, wires,
                 loopVars, ptyVars, run>>

\* The write of stream.close, an error of which is ignored.  closeCtx runs while send
\* waits for writeMu: after 2 seconds behind a slow writer the close is not written,
\* although the connection stays up.
SendClose(s) ==
  /\ handler[s] = "closing"
  /\ handler' = [handler EXCEPT ![s] = "done"]
  /\ \/ hub = "up" /\ toDevice' = Append(toDevice, Close(s, NoReason)) /\ UNCHANGED skipped
     \/ hub = "up" /\ skipped' = skipped \cup {s} /\ UNCHANGED toDevice
     \/ hub # "up" /\ UNCHANGED <<toDevice, skipped>>
  /\ UNCHANGED <<streams, ch, seen, ending, input, writing, hub, toHub,
                 loopVars, ptyVars, run>>

-------------------------------------------------------------------------------
\* The connector's read loop: a message once read is handled, also after a cancel.

ReadMessage ==
  /\ loop = "reading"
  /\ run = "up"
  /\ toDevice # <<>>
  /\ loop' = "handling"
  /\ msg' = Head(toDevice)
  /\ toDevice' = Tail(toDevice)
  /\ UNCHANGED <<browserVars, streams, ch, hub, toHub, ptyVars, run>>

Handling(type) == loop = "handling" /\ msg.type = type

\* What the connector sends: nothing arrives once its connection is cancelled.
Send(m) == toHub' = IF run = "up" THEN Append(toHub, m) ELSE toHub

\* open, first part: startAttach succeeds, or its failure is reported.
StartAttach ==
  /\ Handling("open")
  /\ \/ /\ attach' = [attach EXCEPT ![msg.id] = "running"]
        /\ loop' = "attached"
        /\ UNCHANGED toHub
     \/ /\ Send(Close(msg.id, "openFailed"))
        /\ loop' = "reading"
        /\ UNCHANGED attach
  /\ UNCHANGED <<browserVars, streams, ch, hub, toDevice, msg, active,
                 reader, reported, output, run>>

\* open, second part: the stream enters `active` and its PTY gets a reader.
Activate ==
  /\ loop = "attached"
  /\ loop' = "reading"
  /\ active' = active \cup {msg.id}
  /\ reader' = [reader EXCEPT ![msg.id] = "reading"]
  /\ UNCHANGED <<browserVars, streams, ch, hub, toDevice, toHub, msg,
                 attach, reported, output, run>>

\* input: a PTY write that fails terminates the stream and reports it.
Input ==
  /\ Handling("data")
  /\ loop' = "reading"
  /\ \/ UNCHANGED <<active, reported, toHub>>
     \/ /\ msg.id \in active /\ attach[msg.id] = "dead"
        /\ active' = active \ {msg.id}
        /\ reported' = reported \cup {msg.id}
        /\ IF msg.id \in reported THEN UNCHANGED toHub ELSE Send(Close(msg.id, "inputFailed"))
  /\ UNCHANGED <<browserVars, streams, ch, hub, toDevice, msg, attach, reader, output, run>>

CloseByHub ==
  /\ Handling("close")
  /\ loop' = "reading"
  /\ active' = active \ {msg.id}
  /\ attach' = [attach EXCEPT ![msg.id] = IF msg.id \in active THEN "dead" ELSE @]
  /\ UNCHANGED <<browserVars, streams, ch, hub, toDevice, toHub, msg,
                 reader, reported, output, run>>

LoopEnds ==
  /\ loop = "reading"
  /\ run # "up"
  /\ loop' = "gone"
  /\ UNCHANGED <<browserVars, streams, ch, hub, wires, msg, ptyVars, run>>

-------------------------------------------------------------------------------
\* The goroutine that reads the PTY of stream s

Output(s) ==
  /\ reader[s] = "reading"
  /\ attach[s] = "running"
  /\ run = "up"
  /\ output[s] < MaxOutput
  /\ output' = [output EXCEPT ![s] = @ + 1]
  /\ toHub' = Append(toHub, Data(s, output[s] + 1))
  /\ UNCHANGED <<browserVars, streams, ch, hub, toDevice, loopVars, active,
                 attach, reader, reported, run>>

\* The PTY is at its end or closed: the stream goes, if it is still there.
ReaderEnds(s) ==
  /\ reader[s] = "reading"
  /\ attach[s] = "dead"
  /\ reader' = [reader EXCEPT ![s] = IF s \in active THEN "reporting" ELSE "done"]
  /\ active' = active \ {s}
  /\ UNCHANGED <<browserVars, streams, ch, wires, hub, loopVars, attach,
                 reported, output, run>>

\* A read that cannot be sent any more terminates the stream; its report is lost too.
OutputFails(s) ==
  /\ reader[s] = "reading"
  /\ attach[s] = "running"
  /\ run # "up" \/ hub # "up"
  /\ reader' = [reader EXCEPT ![s] = "done"]
  /\ active' = active \ {s}
  /\ attach' = [attach EXCEPT ![s] = "dead"]
  /\ reported' = IF s \in active THEN reported \cup {s} ELSE reported
  /\ UNCHANGED <<browserVars, streams, ch, wires, hub, loopVars, output, run>>

ReportExit(s) ==
  /\ reader[s] = "reporting"
  /\ reader' = [reader EXCEPT ![s] = "done"]
  /\ reported' = reported \cup {s}
  /\ IF s \in reported THEN UNCHANGED toHub ELSE Send(Close(s, "exited"))
  /\ UNCHANGED <<browserVars, streams, ch, hub, toDevice, loopVars, active,
                 attach, output, run>>

\* The tmux client ends by itself.
ClientExits(s) ==
  /\ attach[s] = "running"
  /\ attach' = [attach EXCEPT ![s] = "dead"]
  /\ UNCHANGED <<browserVars, streams, ch, hub, wires, loopVars, active,
                 reader, reported, output, run>>

-------------------------------------------------------------------------------
\* The end of the connection

\* The hub's side of the WebSocket closes; the device's side notices by itself.
HubLoses ==
  /\ hub = "up"
  /\ hub' = "closed"
  /\ UNCHANGED <<browserVars, streams, ch, wires, loopVars, ptyVars, run>>

\* runWithRPC returns: cancel and CloseNow come first.
Cancel ==
  /\ run = "up"
  /\ run' = "cancelled"
  /\ UNCHANGED <<browserVars, streams, ch, hub, wires, loopVars, ptyVars>>

\* closeAll: what is active is taken out and its PTY closed.
CloseAll ==
  /\ active' = {}
  /\ attach' = [s \in Stream |-> IF s \in active THEN "dead" ELSE attach[s]]
  /\ UNCHANGED <<browserVars, streams, ch, hub, wires, loopVars, reader, reported, output>>

FirstSweep == run = "cancelled" /\ run' = "swept" /\ CloseAll

\* connectionWorkers.Wait()
Join ==
  /\ run = "swept"
  /\ loop = "gone"
  /\ run' = "joined"
  /\ UNCHANGED <<browserVars, streams, ch, hub, wires, loopVars, ptyVars>>

SecondSweep == run = "joined" /\ run' = "ended" /\ CloseAll

-------------------------------------------------------------------------------
HubNext ==
  \/ HubReads \/ FailAll
  \/ \E s \in Stream :
       \/ AddStream(s) \/ SendOpen(s) \/ SendOpenFails(s) \/ RelayEvent(s)
       \/ BrowserLeaves(s) \/ CheckInput(s) \/ WriteInput(s) \/ RemoveStream(s) \/ SendClose(s)

ConnectorNext ==
  \/ ReadMessage \/ StartAttach \/ Activate \/ Input \/ CloseByHub \/ LoopEnds
  \/ FirstSweep \/ Join \/ SecondSweep
  \/ \E s \in Stream : Output(s) \/ OutputFails(s) \/ ReaderEnds(s) \/ ReportExit(s)

Environment == HubLoses \/ Cancel \/ \E s \in Stream : ClientExits(s)

Next == HubNext \/ ConnectorNext \/ Environment

Spec == Init /\ [][Next]_vars

\* Goroutines that can run do run, and messages on a live connection arrive.  A side
\* whose peer has gone notices: the hub after 45 idle seconds, the connector by its ping.
\* Nothing is assumed of browsers, of tmux clients or of the first failure.
Fairness ==
  /\ WF_vars(HubReads) /\ WF_vars(hub = "closed" /\ FailAll)
  /\ WF_vars(run # "up" /\ HubLoses) /\ WF_vars(hub # "up" /\ Cancel)
  /\ \A s \in Stream :
       /\ WF_vars(SendOpen(s) \/ SendOpenFails(s)) /\ WF_vars(RelayEvent(s))
       /\ WF_vars(RemoveStream(s)) /\ WF_vars(SendClose(s))
       /\ WF_vars(ReaderEnds(s)) /\ WF_vars(ReportExit(s))
  /\ WF_vars(ReadMessage \/ StartAttach \/ Activate \/ Input \/ CloseByHub \/ LoopEnds)
  /\ WF_vars(FirstSweep) /\ WF_vars(Join) /\ WF_vars(SecondSweep)

FairSpec == Spec /\ Fairness

-------------------------------------------------------------------------------
\* Properties

\* What the browser was sent, and then the data that waits for it, counts from 1.
Continues(s) ==
  /\ \A i \in DOMAIN seen[s] : seen[s][i] = i
  /\ \A i \in DOMAIN ch[s] : ch[s][i].type = "data" => ch[s][i].n = Len(seen[s]) + i

\* Output reaches the browser in order and without a hole, unless the stream overflowed
\* or its connection failed; then the browser is told so after what it still gets.
NoSilentGap ==
  \A s \in Stream :
    handler[s] # "idle" /\ ~Continues(s) =>
      \/ ch[s] # <<>> /\ Last(ch[s]).reason \in {"overflow", "offline"}
      \/ ending[s] \in {"overflow", "offline"}
      \/ handler[s] \in {"stopping", "closing", "done"}

\* A close event is the last one of its stream, and a stream with one has been removed
\* from the connection: no output follows it and no second reason replaces it.
CloseIsLast ==
  \A s \in Stream : \A i \in DOMAIN ch[s] :
    ch[s][i].type = "close" => i = Len(ch[s]) /\ s \notin streams

\* Nothing the connector attached survives its connection: when runWithRPC has
\* returned, every tmux client it started is gone, also one whose attach was under way
\* while the connection was torn down.
NoAttachSurvives ==
  run = "ended" => /\ active = {}
                   /\ \A s \in Stream : attach[s] # "running"

OpenOrInFlight(s) ==
  \/ handler[s] # "done"
  \/ Handling("close") /\ msg.id = s
  \/ \E i \in DOMAIN toDevice : toDevice[i].id = s /\ toDevice[i].type = "close"

\* While the connection is up, an attached client has a browser, or a stream.close for
\* it is on its way - as long as closeStream got to write it.
AttachHasBrowser ==
  \A s \in Stream :
    attach[s] = "running" /\ hub = "up" /\ run = "up" /\ s \notin skipped => OpenOrInFlight(s)

\* A browser that leaves releases its tmux attach (relay-protocol.md): the same with no
\* exception.
AttachAlwaysReleased ==
  \A s \in Stream :
    attach[s] = "running" /\ hub = "up" /\ run = "up" => OpenOrInFlight(s)

\* A browser whose tmux client has ended, or whose device connection was lost, is told,
\* and its handler returns.
EndReachesBrowser ==
  \A s \in Stream :
    (handler[s] = "relaying" /\ (attach[s] = "dead" \/ hub = "failed" \/ run # "up"))
      ~> handler[s] = "done"

\* A loss is bound to be told from the moment its close event is in the channel, or relayed.
Loss == {"overflow", "offline"}
Lost(s) == (ch[s] # <<>> /\ Last(ch[s]).reason \in Loss) \/ ending[s] \in Loss

Promise == INSTANCE TerminalOutput WITH lost <- [s \in Stream |-> Lost(s)]

\* The hub and the connector together keep what TerminalOutput promises: the browser gets the
\* output of tmux in order and never twice, a piece is missing only in a stream that ends with
\* the word that it was lost, and the exit of tmux is told after all it wrote.
ImplementsTerminalOutput == Promise!Spec
===============================================================================
