-------------------------- MODULE TerminalStreamProofs --------------------------
(***************************************************************************)
(* Proofs about TerminalStream: the channel of a stream, the teardown of a   *)
(* connection, the order in which a stream's open and close travel, the     *)
(* output from the PTY to the browser, and the promise of TerminalOutput.   *)
(***************************************************************************)
EXTENDS TerminalStream, SequenceTheorems, TLAPS

(* The inductive invariant. *)

\* What the connector sends, and what the hub may put into a channel.
FromDevice ==
  {m \in Message : \/ m.type = "data" /\ m.n \in 1..MaxOutput /\ m.reason = NoReason
                   \/ m.type = "close" /\ m.reason \in Reason}

WireInv ==
  /\ toHub \in Seq(FromDevice)
  /\ ch \in [Stream -> Seq(FromDevice)]
  /\ loop \in {"handling", "attached"} => msg \in Message
  /\ loop = "attached" => msg.type = "open"

\* A handler that has not begun left nothing behind.
IdleInv == \A s \in Stream :
  handler[s] = "idle" => ch[s] = <<>> /\ seen[s] = <<>> /\ s \notin streams

\* A tmux client that runs is listed, or about to be by a read loop that is still there.
TeardownInv ==
  /\ run \in {"joined", "ended"} => loop = "gone"
  /\ run = "ended" => active = {}
  /\ \A s \in Stream :
       attach[s] = "running" => s \in active \/ (loop = "attached" /\ msg.id = s)

\* A message of stream s that is under way to the connector or just being handled.
Opens(s) ==
  \/ loop \in {"handling", "attached"} /\ msg.type = "open" /\ msg.id = s
  \/ \E i \in DOMAIN toDevice : toDevice[i].type = "open" /\ toDevice[i].id = s
Closes(s) ==
  \/ Handling("close") /\ msg.id = s
  \/ \E i \in DOMAIN toDevice : toDevice[i].type = "close" /\ toDevice[i].id = s

\* No open of a stream comes after its close.
OrderedOpens ==
  \A i, j \in DOMAIN toDevice :
    i < j /\ toDevice[i].type = "close" /\ toDevice[j].type = "open"
      => toDevice[i].id # toDevice[j].id

\* A stream's close follows its open, and once it is handled the stream cannot come back.
BrowserInv ==
  /\ \A s \in Stream : handler[s] # "done" => ~Closes(s)
  /\ OrderedOpens
  /\ Handling("close") =>
       \A i \in DOMAIN toDevice : toDevice[i].type = "open" => toDevice[i].id # msg.id
  /\ \A s \in Stream :
       handler[s] = "done" /\ hub = "up" /\ s \notin skipped
         => Closes(s) \/ (~Opens(s) /\ attach[s] # "running")

\* A stream that was not opened has no output.
FreshInv == \A s \in Stream :
  handler[s] \in {"idle", "opening"} => ~Opens(s) /\ reader[s] = "none" /\ output[s] = 0

\* The output of a stream is in order on the wire.
OrderInv ==
  /\ \A i, j \in DOMAIN toHub :
       i < j /\ toHub[i].type = "data" /\ toHub[j].type = "data" /\ toHub[i].id = toHub[j].id
         => toHub[i].n < toHub[j].n
  /\ \A i \in DOMAIN toHub : toHub[i].type = "data" => toHub[i].n <= output[toHub[i].id]

\* What the hub has not got of an open stream is on the wire.
Expected(s) ==
  LET got == Len(seen[s]) + Len(ch[s])
  IN  /\ got <= output[s]
      /\ \A i \in DOMAIN toHub :
           toHub[i].type = "data" /\ toHub[i].id = s => got < toHub[i].n
      /\ \A n \in (got + 1)..output[s] :
           \E i \in DOMAIN toHub : toHub[i].type = "data" /\ toHub[i].id = s /\ toHub[i].n = n

\* The browser is told of a gap, or has left.
Told(s) ==
  \/ ch[s] # <<>> /\ Last(ch[s]).reason \in {"overflow", "offline"}
  \/ ending[s] \in {"overflow", "offline"}
  \/ handler[s] \in {"stopping", "closing", "done"}

FlowInv == \A s \in Stream :
  handler[s] # "idle" => Told(s) \/ (Continues(s) /\ (s \in streams => Expected(s)))

IInv == /\ TypeOK /\ WireInv /\ IdleInv /\ CloseIsLast
        /\ TeardownInv /\ BrowserInv /\ FreshInv /\ OrderInv /\ FlowInv

-------------------------------------------------------------------------------
(* Lemmas about the operators *)

LEMMA Limits == Cap \in Nat /\ MaxOutput \in Nat /\ MaxInput \in Nat /\ Cap > 0
BY ConstantsAssumption

\* The messages of the connector are messages, and those the two sides write are of them.
LEMMA Messages ==
  /\ FromDevice \subseteq Message
  /\ \A s \in Stream : /\ Open(s) \in Message
                       /\ \A n \in Nat : Data(s, n) \in Message
                       /\ \A n \in 1..MaxOutput : Data(s, n) \in FromDevice
                       /\ Close(s, NoReason) \in Message
                       /\ \A r \in Reason : Close(s, r) \in FromDevice
BY ConstantsAssumption DEF FromDevice, Message, Open, Data, Close, Reason, NoReason

\* What send appends to the wire.
LEMMA Sends ==
  ASSUME toHub \in Seq(FromDevice), NEW m \in FromDevice, Send(m)
  PROVE  /\ toHub' \in Seq(FromDevice)
         /\ toHub' = toHub \/ toHub' = Append(toHub, m)
BY AppendProperties DEF Send

\* What streamEvent and failAll leave of a channel.
LEMMA Drains ==
  ASSUME NEW q \in Seq(FromDevice), Len(q) <= Cap, NEW e \in FromDevice, NEW c \in FromDevice,
         NEW r, r = IF Len(q) < Cap THEN Append(q, e) ELSE Overflow(q, c)
  PROVE  /\ r \in Seq(FromDevice) /\ Len(r) <= Cap /\ Len(r) \in Nat /\ Len(r) > 0
         /\ \A i \in 1..(Len(r) - 1) : \E j \in DOMAIN q : r[i] = q[j]
         /\ Len(q) < Cap => /\ Len(r) = Len(q) + 1 /\ r[Len(r)] = e
                            /\ \A i \in 1..Len(q) : r[i] = q[i]
         /\ Len(q) = Cap => r[Len(r)] = c
<1>1. Len(q) \in Nat /\ DOMAIN q = 1..Len(q)
  BY LenProperties
<1>2. CASE Len(q) < Cap
  BY <1>1, <1>2, AppendProperties, Limits
<1>3. CASE Len(q) = Cap
  <2>1. q # <<>>
    BY <1>1, <1>3, Limits, EmptySeq
  <2>2. /\ Tail(q) \in Seq(FromDevice) /\ Len(Tail(q)) = Len(q) - 1
        /\ \A i \in 1..Len(Tail(q)) : Tail(q)[i] = q[i + 1]
    BY <2>1, HeadTailProperties
  <2>3. r = Append(Tail(q), c)
    BY <1>3, <1>1, Limits DEF Overflow
  <2> DEFINE p == Tail(q)
  <2> HIDE DEF p
  <2>4. /\ r \in Seq(FromDevice) /\ Len(r) = Len(Tail(q)) + 1
        /\ \A i \in 1..Len(Tail(q)) : r[i] = Tail(q)[i]
        /\ r[Len(Tail(q)) + 1] = c
    <3>1. p \in Seq(FromDevice) /\ r = Append(p, c)
      BY <2>2, <2>3 DEF p
    <3>2. r \in Seq(FromDevice) /\ Len(r) = Len(p) + 1 /\ r[Len(p) + 1] = c
          /\ \A i \in 1..Len(p) : r[i] = p[i]
      BY <3>1, AppendProperties
    <3> QED
      BY <3>2 DEF p
  <2>5. /\ r \in Seq(FromDevice) /\ Len(r) = Cap /\ r[Len(r)] = c
        /\ \A i \in 1..(Len(r) - 1) : r[i] = q[i + 1] /\ i + 1 \in DOMAIN q
    BY <1>1, <1>3, <2>2, <2>4, Limits
  <2>6. \A i \in 1..(Len(r) - 1) : \E j \in DOMAIN q : r[i] = q[j]
    BY <2>5
  <2>7. Len(r) <= Cap /\ Len(r) \in Nat /\ Len(r) > 0 /\ ~(Len(q) < Cap)
    BY <1>3, <2>5, Limits
  <2> QED
    BY <2>5, <2>6, <2>7
<1>4. Len(q) < Cap \/ Len(q) = Cap
  <2> DEFINE k == Len(q)
  <2>1. k \in Nat /\ k <= Cap
    BY <1>1
  <2> HIDE DEF k
  <2>2. k < Cap \/ k = Cap
    BY <2>1, Limits
  <2> QED
    BY <2>2 DEF k
<1> QED
  BY <1>2, <1>3, <1>4

\* A receive takes the first message; the others move up.
LEMMA Receives ==
  ASSUME NEW S, NEW q \in Seq(S), q # <<>>
  PROVE  /\ Head(q) = q[1] /\ Head(q) \in S /\ Tail(q) \in Seq(S)
         /\ Len(q) \in Nat /\ Len(q) > 0 /\ Len(Tail(q)) = Len(q) - 1
         /\ DOMAIN q = 1..Len(q) /\ DOMAIN Tail(q) = 1..(Len(q) - 1)
         /\ \A i \in 1..(Len(q) - 1) : Tail(q)[i] = q[i + 1]
BY HeadTailProperties, LenProperties, EmptySeq

-------------------------------------------------------------------------------
(* Frames: which actions change which part of the state *)

HandlerAct(s) == AddStream(s) \/ SendOpen(s) \/ SendOpenFails(s) \/ RelayEvent(s)
                 \/ BrowserLeaves(s) \/ RemoveStream(s) \/ SendClose(s)
InputAct(s)   == CheckInput(s) \/ WriteInput(s)
LoopAct       == ReadMessage \/ StartAttach \/ Activate \/ Input \/ CloseByHub \/ LoopEnds
ReaderAct(s)  == Output(s) \/ OutputFails(s) \/ ReaderEnds(s) \/ ReportExit(s)
EndAct        == HubLoses \/ Cancel \/ FirstSweep \/ Join \/ SecondSweep

LEMMA Actions ==
  ASSUME [Next]_vars
  PROVE  \/ HubReads \/ FailAll \/ LoopAct \/ EndAct \/ UNCHANGED vars
         \/ \E s \in Stream : HandlerAct(s) \/ InputAct(s) \/ ReaderAct(s) \/ ClientExits(s)
BY DEF Next, HubNext, ConnectorNext, Environment, HandlerAct, InputAct, LoopAct, ReaderAct, EndAct

\* The hub's steps leave the connector's state alone, and the connector's the hub's.
LEMMA HubFrame ==
  ASSUME \/ HubReads \/ FailAll \/ HubLoses
         \/ \E s \in Stream : HandlerAct(s) \/ InputAct(s)
  PROVE  UNCHANGED <<loopVars, ptyVars, run>>
<1>1. CASE HubReads \/ FailAll \/ HubLoses
  BY <1>1 DEF HubReads, FailAll, HubLoses
<1>2. ASSUME NEW s \in Stream, HandlerAct(s) \/ InputAct(s)
      PROVE  UNCHANGED <<loopVars, ptyVars, run>>
  BY <1>2 DEF HandlerAct, InputAct, AddStream, SendOpen, SendOpenFails, RelayEvent, BrowserLeaves,
              CheckInput, WriteInput, RemoveStream, SendClose
<1> QED
  BY <1>1, <1>2

LEMMA ConnectorFrame ==
  ASSUME \/ LoopAct \/ Cancel \/ FirstSweep \/ Join \/ SecondSweep
         \/ \E s \in Stream : ReaderAct(s) \/ ClientExits(s)
  PROVE  UNCHANGED <<browserVars, streams, ch, hub>>
<1>1. CASE LoopAct
  BY <1>1 DEF LoopAct, ReadMessage, StartAttach, Activate, Input, CloseByHub, LoopEnds
<1>2. CASE Cancel \/ FirstSweep \/ Join \/ SecondSweep
  BY <1>2 DEF Cancel, FirstSweep, Join, SecondSweep, CloseAll
<1>3. ASSUME NEW s \in Stream, ReaderAct(s) \/ ClientExits(s)
      PROVE  UNCHANGED <<browserVars, streams, ch, hub>>
  BY <1>3 DEF ReaderAct, Output, OutputFails, ReaderEnds, ReportExit, ClientExits
<1> QED
  BY <1>1, <1>2, <1>3

\* Who writes on the wires.
LEMMA ToDeviceFrame ==
  ASSUME [Next]_vars
  PROVE  \/ UNCHANGED toDevice \/ ReadMessage
         \/ \E s \in Stream : SendOpen(s) \/ WriteInput(s) \/ SendClose(s)
<1>1. CASE HubReads \/ FailAll \/ EndAct \/ UNCHANGED vars
  BY <1>1 DEF HubReads, FailAll, EndAct, HubLoses, Cancel, FirstSweep, Join, SecondSweep, CloseAll,
              vars, wires
<1>2. CASE LoopAct
  BY <1>2 DEF LoopAct, StartAttach, Activate, Input, CloseByHub, LoopEnds, wires
<1>3. ASSUME NEW s \in Stream, HandlerAct(s) \/ InputAct(s)
      PROVE  UNCHANGED toDevice \/ SendOpen(s) \/ WriteInput(s) \/ SendClose(s)
  BY <1>3 DEF HandlerAct, InputAct, AddStream, SendOpenFails, RelayEvent, BrowserLeaves,
              CheckInput, RemoveStream, wires
<1>4. ASSUME NEW s \in Stream, ReaderAct(s) \/ ClientExits(s)
      PROVE  UNCHANGED toDevice
  BY <1>4 DEF ReaderAct, Output, OutputFails, ReaderEnds, ReportExit, ClientExits, wires
<1> QED
  BY <1>1, <1>2, <1>3, <1>4, Actions

LEMMA ToHubFrame ==
  ASSUME [Next]_vars
  PROVE  \/ UNCHANGED toHub \/ HubReads \/ StartAttach \/ Input
         \/ \E s \in Stream : Output(s) \/ ReportExit(s)
<1>1. CASE FailAll \/ EndAct \/ UNCHANGED vars
  BY <1>1 DEF FailAll, EndAct, HubLoses, Cancel, FirstSweep, Join, SecondSweep, CloseAll,
              vars, wires
<1>2. CASE LoopAct
  BY <1>2 DEF LoopAct, ReadMessage, Activate, CloseByHub, LoopEnds, wires
<1>3. ASSUME NEW s \in Stream, HandlerAct(s) \/ InputAct(s)
      PROVE  UNCHANGED toHub
  BY <1>3 DEF HandlerAct, InputAct, AddStream, SendOpen, SendOpenFails, RelayEvent, BrowserLeaves,
              CheckInput, WriteInput, RemoveStream, SendClose, wires
<1>4. ASSUME NEW s \in Stream, ReaderAct(s) \/ ClientExits(s)
      PROVE  UNCHANGED toHub \/ Output(s) \/ ReportExit(s)
  BY <1>4 DEF ReaderAct, OutputFails, ReaderEnds, ClientExits, wires
<1> QED
  BY <1>1, <1>2, <1>3, <1>4, Actions

\* A handler's part of the state changes in its own steps and in those of the channels.
LEMMA BrowserFrame ==
  ASSUME [Next]_vars
  PROVE  \/ UNCHANGED <<handler, seen, ending, skipped, streams, ch>>
         \/ HubReads \/ FailAll \/ \E s \in Stream : HandlerAct(s)
<1>1. CASE EndAct \/ LoopAct \/ UNCHANGED vars
  BY <1>1, ConnectorFrame DEF EndAct, HubLoses, vars, browserVars
<1>2. ASSUME NEW s \in Stream, InputAct(s)
      PROVE  UNCHANGED <<handler, seen, ending, skipped, streams, ch>>
  BY <1>2 DEF InputAct, CheckInput, WriteInput
<1>3. ASSUME NEW s \in Stream, ReaderAct(s) \/ ClientExits(s)
      PROVE  UNCHANGED <<handler, seen, ending, skipped, streams, ch>>
  BY <1>3, ConnectorFrame DEF browserVars
<1> QED
  BY <1>1, <1>2, <1>3, Actions

-------------------------------------------------------------------------------
(* Types *)

LEMMA WiresStep ==
  ASSUME TypeOK, WireInv, [Next]_vars
  PROVE  toDevice' \in Seq(Message) /\ toHub' \in Seq(FromDevice)
<1>1. toDevice \in Seq(Message) /\ toHub \in Seq(FromDevice)
  BY DEF TypeOK, WireInv
<1>2. toDevice' \in Seq(Message)
  <2>1. CASE ReadMessage
    BY <1>1, <2>1, Receives DEF ReadMessage
  <2>2. ASSUME NEW s \in Stream, SendOpen(s) \/ WriteInput(s) \/ SendClose(s)
        PROVE  toDevice' \in Seq(Message)
    <3>1. input[s] \in Nat
      BY Limits DEF TypeOK
    <3>2. \/ UNCHANGED toDevice
          \/ \E m \in Message : toDevice' = Append(toDevice, m)
      BY <2>2, <3>1, Messages DEF SendOpen, WriteInput, SendClose
    <3> QED
      BY <1>1, <3>2, AppendProperties
  <2> QED
    BY <1>1, <2>1, <2>2, ToDeviceFrame
<1>3. toHub' \in Seq(FromDevice)
  <2>1. CASE HubReads
    BY <1>1, <2>1, Receives DEF HubReads
  <2>2. CASE StartAttach \/ Input
    <3>1. Close(msg.id, "openFailed") \in FromDevice /\ Close(msg.id, "inputFailed") \in FromDevice
      BY <2>2, Messages DEF StartAttach, Input, Handling, WireInv, Message, Reason
    <3> QED
      BY <1>1, <2>2, <3>1, Sends DEF StartAttach, Input
  <2>3. ASSUME NEW s \in Stream, Output(s) \/ ReportExit(s)
        PROVE  toHub' \in Seq(FromDevice)
    <3>1. CASE Output(s)
      <4>1. output[s] + 1 \in 1..MaxOutput
        BY <3>1, Limits DEF Output, TypeOK
      <4> QED
        BY <1>1, <3>1, <4>1, Messages, AppendProperties DEF Output
    <3>2. CASE ReportExit(s)
      <4>1. Close(s, "exited") \in FromDevice
        BY Messages DEF Reason
      <4> QED
        BY <1>1, <3>2, <4>1, Sends DEF ReportExit
    <3> QED
      BY <2>3, <3>1, <3>2
  <2> QED
    BY <1>1, <2>1, <2>2, <2>3, ToHubFrame
<1> QED
  BY <1>2, <1>3

\* What a delivery leaves in the channels.
LEMMA Delivers ==
  ASSUME TypeOK, WireInv, NEW s \in Stream, s \in streams, NEW e \in FromDevice, Delivered(s, e)
  PROVE  /\ ch' \in [Stream -> Seq(FromDevice)] /\ Len(ch'[s]) <= Cap
         /\ \A t \in Stream \ {s} : ch'[t] = ch[t]
         /\ ch'[s] = IF Len(ch[s]) < Cap THEN Append(ch[s], e)
                     ELSE Overflow(ch[s], Close(s, "overflow"))
<1>1. ch[s] \in Seq(FromDevice) /\ Len(ch[s]) <= Cap /\ Close(s, "overflow") \in FromDevice
  BY Messages DEF TypeOK, WireInv, Reason
<1>2. ch' = [ch EXCEPT ![s] = IF Len(@) < Cap THEN Append(@, e)
                              ELSE Overflow(@, Close(s, "overflow"))]
  BY DEF Delivered
<1> DEFINE r == IF Len(ch[s]) < Cap THEN Append(ch[s], e) ELSE Overflow(ch[s], Close(s, "overflow"))
<1>3. r \in Seq(FromDevice) /\ Len(r) <= Cap
  BY <1>1, Drains
<1>4. ch' = [ch EXCEPT ![s] = r]
  BY <1>2
<1> HIDE DEF r
<1>5. ch' \in [Stream -> Seq(FromDevice)] /\ ch'[s] = r /\ \A t \in Stream \ {s} : ch'[t] = ch[t]
  BY <1>3, <1>4 DEF WireInv
<1> QED
  BY <1>3, <1>5 DEF r

\* What failAll leaves in a channel.
LEMMA Fails ==
  ASSUME TypeOK, WireInv, FailAll, NEW s \in Stream
  PROVE  /\ ch'[s] \in Seq(FromDevice) /\ Len(ch'[s]) <= Cap
         /\ s \notin streams => ch'[s] = ch[s]
         /\ s \in streams =>
              ch'[s] = IF Len(ch[s]) < Cap THEN Append(ch[s], Close(s, "offline"))
                       ELSE Overflow(ch[s], Close(s, "offline"))
<1>1. ch[s] \in Seq(FromDevice) /\ Len(ch[s]) <= Cap /\ Close(s, "offline") \in FromDevice
  BY Messages DEF TypeOK, WireInv, Reason
<1> DEFINE r == IF Len(ch[s]) < Cap THEN Append(ch[s], Close(s, "offline"))
                ELSE Overflow(ch[s], Close(s, "offline"))
<1>2. r \in Seq(FromDevice) /\ Len(r) <= Cap
  BY <1>1, Drains
<1>3. ch'[s] = IF s \notin streams THEN ch[s] ELSE r
  BY DEF FailAll
<1> HIDE DEF r
<1>4. /\ ch'[s] \in Seq(FromDevice) /\ Len(ch'[s]) <= Cap
      /\ s \notin streams => ch'[s] = ch[s]
      /\ s \in streams => ch'[s] = r
  BY <1>1, <1>2, <1>3
<1> QED
  BY <1>4 DEF r

\* The first event of a channel.
LEMMA Relays ==
  ASSUME TypeOK, WireInv, NEW s \in Stream, ch[s] # <<>>
  PROVE  /\ Head(ch[s]) = ch[s][1] /\ Head(ch[s]) \in FromDevice
         /\ Head(ch[s]).type # "close" => Head(ch[s]).n \in 1..MaxOutput
         /\ Head(ch[s]).type = "close" => Head(ch[s]).reason \in Reason
         /\ Tail(ch[s]) \in Seq(FromDevice)
         /\ Len(ch[s]) \in Nat /\ Len(ch[s]) > 0 /\ Len(Tail(ch[s])) = Len(ch[s]) - 1
         /\ DOMAIN ch[s] = 1..Len(ch[s]) /\ DOMAIN Tail(ch[s]) = 1..(Len(ch[s]) - 1)
         /\ \A i \in 1..(Len(ch[s]) - 1) : Tail(ch[s])[i] = ch[s][i + 1]
<1>1. ch[s] \in Seq(FromDevice)
  BY DEF WireInv
<1>2. Head(ch[s]) \in FromDevice
  BY <1>1, Receives
<1>3. /\ Head(ch[s]).type # "close" => Head(ch[s]).n \in 1..MaxOutput
      /\ Head(ch[s]).type = "close" => Head(ch[s]).reason \in Reason
  BY <1>2 DEF FromDevice
<1> QED
  BY <1>1, <1>2, <1>3, Receives

LEMMA ChannelsStep ==
  ASSUME TypeOK, WireInv, [Next]_vars
  PROVE  /\ ch' \in [Stream -> Seq(FromDevice)] /\ \A s \in Stream : Len(ch'[s]) <= Cap
         /\ seen' \in [Stream -> Seq(1..MaxOutput)]
         /\ ending' \in [Stream -> Reason \cup {NoReason}]
<1>1. /\ ch \in [Stream -> Seq(FromDevice)] /\ \A s \in Stream : Len(ch[s]) <= Cap
      /\ seen \in [Stream -> Seq(1..MaxOutput)]
      /\ ending \in [Stream -> Reason \cup {NoReason}]
  BY DEF TypeOK, WireInv
<1>2. CASE HubReads
  <2>1. Head(toHub) \in FromDevice
    BY <1>2, Receives DEF HubReads, WireInv
  <2>2. Head(toHub).id \in Stream
    BY <2>1 DEF FromDevice, Message
  <2>3. UNCHANGED <<seen, ending>>
    BY <1>2 DEF HubReads, browserVars
  <2> DEFINE e == Head(toHub)
  <2>4. Delivered(e.id, e)
    BY <1>2 DEF HubReads
  <2> HIDE DEF e
  <2>5. CASE e.id \in streams
    BY <1>1, <2>1, <2>2, <2>3, <2>4, <2>5, Delivers DEF e
  <2>6. CASE e.id \notin streams
    BY <1>1, <2>3, <2>4, <2>6 DEF Delivered
  <2> QED
    BY <2>5, <2>6
<1>3. CASE FailAll
  <2>1. UNCHANGED <<seen, ending>> /\ ch' = [s \in Stream |-> ch'[s]]
    BY <1>3 DEF FailAll, browserVars
  <2> QED
    BY <1>1, <1>3, <2>1, Fails
<1>4. ASSUME NEW s \in Stream, HandlerAct(s)
      PROVE  /\ ch' \in [Stream -> Seq(FromDevice)] /\ \A t \in Stream : Len(ch'[t]) <= Cap
             /\ seen' \in [Stream -> Seq(1..MaxOutput)]
             /\ ending' \in [Stream -> Reason \cup {NoReason}]
  <2>1. CASE RelayEvent(s)
    <3>1. ch[s] # <<>> /\ ch' = [ch EXCEPT ![s] = Tail(@)]
      BY <2>1 DEF RelayEvent
    <3>2. ch' \in [Stream -> Seq(FromDevice)]
      BY <1>1, <3>1, Relays
    <3>3. \A t \in Stream : Len(ch'[t]) <= Cap
      BY <1>1, <3>1, Relays, Limits
    <3>4. CASE Head(ch[s]).type = "close"
      BY <1>1, <2>1, <3>1, <3>2, <3>3, <3>4, Relays DEF RelayEvent
    <3>5. CASE Head(ch[s]).type # "close"
      <4>1. Append(seen[s], Head(ch[s]).n) \in Seq(1..MaxOutput)
        BY <1>1, <3>1, <3>5, Relays, AppendProperties
      <4>2. seen' = [seen EXCEPT ![s] = Append(@, Head(ch[s]).n)] /\ UNCHANGED ending
        BY <2>1, <3>5 DEF RelayEvent
      <4> QED
        BY <1>1, <3>2, <3>3, <4>1, <4>2
    <3> QED
      BY <3>4, <3>5
  <2>2. CASE ~RelayEvent(s)
    <3>1. UNCHANGED <<ch, seen, ending>>
      BY <1>4, <2>2 DEF HandlerAct, AddStream, SendOpen, SendOpenFails, BrowserLeaves, RemoveStream,
                        SendClose
    <3> QED
      BY <1>1, <3>1
  <2> QED
    BY <2>1, <2>2
<1> QED
  BY <1>1, <1>2, <1>3, <1>4, BrowserFrame

\* The rest of the types, for the hub and for the connector.
HubFlags ==
  /\ handler \in [Stream -> {"idle", "opening", "relaying", "stopping", "closing", "done"}]
  /\ streams \subseteq Stream
  /\ skipped \subseteq Stream /\ writing \subseteq Stream
  /\ hub \in {"up", "closed", "failed"}
  /\ input \in [Stream -> 0..MaxInput]

ConnectorFlags ==
  /\ loop \in {"reading", "handling", "attached", "gone"}
  /\ msg \in Message \cup {NoMessage}
  /\ loop \in {"handling", "attached"} => msg \in Message
  /\ loop = "attached" => msg.type = "open"
  /\ active \subseteq Stream
  /\ attach \in [Stream -> {"none", "running", "dead"}]
  /\ reader \in [Stream -> {"none", "reading", "reporting", "done"}]
  /\ reported \subseteq Stream
  /\ run \in {"up", "cancelled", "swept", "joined", "ended"}
  /\ output \in [Stream -> 0..MaxOutput]

LEMMA HubFlagsStep == ASSUME HubFlags, [Next]_vars PROVE HubFlags'
<1> USE DEF HubFlags
<1>1. CASE HubReads
  BY <1>1 DEF HubReads, Delivered, browserVars
<1>2. CASE FailAll \/ HubLoses
  BY <1>2 DEF FailAll, HubLoses, browserVars
<1>3. CASE LoopAct \/ Cancel \/ FirstSweep \/ Join \/ SecondSweep \/ UNCHANGED vars
  BY <1>3, ConnectorFrame DEF browserVars, vars
<1>4. ASSUME NEW s \in Stream, HandlerAct(s)
      PROVE  HubFlags'
  BY <1>4 DEF HandlerAct, AddStream, SendOpen, SendOpenFails, RelayEvent, BrowserLeaves,
              RemoveStream, SendClose
<1>5. ASSUME NEW s \in Stream, InputAct(s)
      PROVE  HubFlags'
  <2>1. CASE CheckInput(s)
    <3>1. input[s] + 1 \in 0..MaxInput
      BY <2>1, Limits DEF CheckInput
    <3> QED
      BY <2>1, <3>1 DEF CheckInput
  <2>2. CASE WriteInput(s)
    BY <2>2 DEF WriteInput
  <2> QED
    BY <1>5, <2>1, <2>2 DEF InputAct
<1>6. ASSUME NEW s \in Stream, ReaderAct(s) \/ ClientExits(s)
      PROVE  HubFlags'
  BY <1>6, ConnectorFrame DEF browserVars
<1> QED
  BY <1>1, <1>2, <1>3, <1>4, <1>5, <1>6, Actions DEF EndAct

LEMMA ConnectorFlagsStep ==
  ASSUME ConnectorFlags, toDevice \in Seq(Message), [Next]_vars PROVE ConnectorFlags'
<1> USE DEF ConnectorFlags
<1>1. CASE HubReads \/ FailAll \/ HubLoses \/ UNCHANGED vars
  BY <1>1, HubFrame DEF loopVars, ptyVars, vars
<1>2. CASE LoopAct
  <2>1. CASE ReadMessage
    <3>1. Head(toDevice) \in Message
      BY <2>1, Receives DEF ReadMessage
    <3> QED
      BY <2>1, <3>1 DEF ReadMessage, ptyVars
  <2>2. CASE LoopEnds
    BY <2>2 DEF LoopEnds, ptyVars
  <2>3. CASE StartAttach \/ Activate \/ Input \/ CloseByHub
    <3>1. msg.id \in Stream
      BY <2>3 DEF StartAttach, Activate, Input, CloseByHub, Handling, Message
    <3> QED
      BY <2>3, <3>1 DEF StartAttach, Activate, Input, CloseByHub, Handling
  <2> QED
    BY <1>2, <2>1, <2>2, <2>3 DEF LoopAct
<1>3. CASE Cancel \/ FirstSweep \/ Join \/ SecondSweep
  BY <1>3 DEF Cancel, FirstSweep, Join, SecondSweep, CloseAll, loopVars, ptyVars
<1>4. ASSUME NEW s \in Stream, HandlerAct(s) \/ InputAct(s)
      PROVE  ConnectorFlags'
  BY <1>4, HubFrame DEF loopVars, ptyVars
<1>5. ASSUME NEW s \in Stream, ReaderAct(s)
      PROVE  ConnectorFlags'
  <2>1. CASE Output(s)
    <3>1. output[s] + 1 \in 0..MaxOutput
      BY <2>1, Limits DEF Output
    <3> QED
      BY <2>1, <3>1 DEF Output, loopVars
  <2>2. CASE OutputFails(s) \/ ReaderEnds(s) \/ ReportExit(s)
    BY <2>2 DEF OutputFails, ReaderEnds, ReportExit, loopVars
  <2> QED
    BY <1>5, <2>1, <2>2 DEF ReaderAct
<1>6. ASSUME NEW s \in Stream, ClientExits(s)
      PROVE  ConnectorFlags'
  BY <1>6 DEF ClientExits, loopVars
<1> QED
  BY <1>1, <1>2, <1>3, <1>4, <1>5, <1>6, Actions DEF EndAct

LEMMA TypeStep == ASSUME TypeOK, WireInv, [Next]_vars PROVE TypeOK' /\ WireInv'
<1>1. HubFlags' /\ ConnectorFlags'
  BY HubFlagsStep, ConnectorFlagsStep DEF TypeOK, WireInv, HubFlags, ConnectorFlags
<1>2. /\ toDevice' \in Seq(Message) /\ toHub' \in Seq(FromDevice)
      /\ ch' \in [Stream -> Seq(FromDevice)] /\ \A s \in Stream : Len(ch'[s]) <= Cap
      /\ seen' \in [Stream -> Seq(1..MaxOutput)]
      /\ ending' \in [Stream -> Reason \cup {NoReason}]
  BY WiresStep, ChannelsStep
<1>3. toHub' \in Seq(Message) /\ \A s \in Stream : ch'[s] \in Seq(Message)
  BY <1>2, Messages, SeqMonotonic
<1>4. ch' \in [Stream -> Seq(Message)]
  BY <1>2, <1>3
<1> QED
  BY <1>1, <1>2, <1>3, <1>4 DEF TypeOK, WireInv, HubFlags, ConnectorFlags

-------------------------------------------------------------------------------
(* Channels: a close is the last event, and what has not begun is empty *)

\* The message the hub reads, and the stream it is for.
LEMMA Reads ==
  ASSUME TypeOK, WireInv, HubReads
  PROVE  /\ Head(toHub) \in FromDevice /\ Head(toHub).id \in Stream
         /\ Delivered(Head(toHub).id, Head(toHub))
         /\ UNCHANGED <<handler, seen, ending, skipped, output>>
<1>1. Head(toHub) \in FromDevice
  BY Receives DEF HubReads, WireInv
<1> QED
  BY <1>1 DEF FromDevice, Message, HubReads, browserVars, ptyVars

LEMMA IdleStep ==
  ASSUME TypeOK, WireInv, IdleInv, [Next]_vars
  PROVE  IdleInv'
<1> USE DEF IdleInv
<1>1. CASE HubReads
  <2> DEFINE e == Head(toHub)
  <2>1. e \in FromDevice /\ e.id \in Stream /\ Delivered(e.id, e) /\ UNCHANGED <<handler, seen>>
    BY <1>1, Reads
  <2> HIDE DEF e
  <2>2. CASE e.id \notin streams
    BY <2>1, <2>2 DEF Delivered
  <2>3. CASE e.id \in streams
    <3>1. handler[e.id] # "idle" /\ \A t \in Stream \ {e.id} : ch'[t] = ch[t]
      BY <2>1, <2>3, Delivers
    <3>2. streams' \subseteq streams
      BY <2>1, <2>3 DEF Delivered
    <3> QED
      BY <2>1, <3>1, <3>2
  <2> QED
    BY <2>2, <2>3
<1>2. CASE FailAll
  BY <1>2, Fails DEF FailAll, browserVars
<1>3. ASSUME NEW s \in Stream, HandlerAct(s)
      PROVE  IdleInv'
  <2>1. CASE AddStream(s) \/ SendOpen(s) \/ SendOpenFails(s) \/ BrowserLeaves(s) \/ RemoveStream(s)
             \/ SendClose(s)
    BY <2>1 DEF TypeOK, AddStream, SendOpen, SendOpenFails, BrowserLeaves, RemoveStream, SendClose
  <2>2. CASE RelayEvent(s)
    <3>1. /\ handler[s] = "relaying" /\ handler'[s] # "idle" /\ streams' = streams
          /\ \A t \in Stream \ {s} : ch'[t] = ch[t] /\ seen'[t] = seen[t] /\ handler'[t] = handler[t]
      BY <2>2 DEF RelayEvent, TypeOK
    <3> QED
      BY <3>1
  <2> QED
    BY <1>3, <2>1, <2>2 DEF HandlerAct
<1> QED
  BY <1>1, <1>2, <1>3, BrowserFrame

LEMMA CloseStep ==
  ASSUME TypeOK, WireInv, IdleInv, CloseIsLast, [Next]_vars
  PROVE  CloseIsLast'
<1> USE DEF CloseIsLast
<1>1. CASE HubReads
  <2> DEFINE e == Head(toHub)
  <2>1. e \in FromDevice /\ e.id \in Stream /\ Delivered(e.id, e)
    BY <1>1, Reads
  <2> HIDE DEF e
  <2>2. CASE e.id \notin streams
    BY <2>1, <2>2 DEF Delivered
  <2>3. CASE e.id \in streams
    <3> DEFINE q == ch[e.id]
               r == ch'[e.id]
               c == Close(e.id, "overflow")
    <3>1. q \in Seq(FromDevice) /\ Len(q) <= Cap /\ c \in FromDevice
      BY <2>1, Messages DEF TypeOK, WireInv, Reason
    <3>2. r = IF Len(q) < Cap THEN Append(q, e) ELSE Overflow(q, c)
      BY <2>1, <2>3, Delivers
    <3>3. \A i \in DOMAIN q : q[i].type # "close"
      BY <2>1, <2>3
    <3>4. \A t \in Stream \ {e.id} : ch'[t] = ch[t]
      BY <2>1, <2>3, Delivers
    <3>5. streams' = IF e.type = "close" \/ Len(q) = Cap THEN streams \ {e.id} ELSE streams
      BY <2>1, <2>3 DEF Delivered
    <3> HIDE DEF q, r, c
    <3>6. /\ r \in Seq(FromDevice) /\ Len(r) \in Nat /\ Len(r) > 0
          /\ \A i \in 1..(Len(r) - 1) : \E j \in DOMAIN q : r[i] = q[j]
          /\ Len(q) < Cap => r[Len(r)] = e
      BY <2>1, <3>1, <3>2, Drains
    <3>7. \A i \in DOMAIN r : r[i].type = "close" => i = Len(r)
      <4>1. \A i \in DOMAIN r : i = Len(r) \/ i \in 1..(Len(r) - 1)
        BY <3>6, LenProperties
      <4> QED
        BY <3>3, <3>6, <4>1
    <3>8. \A i \in DOMAIN r : r[i].type = "close" => e.id \notin streams'
      <4>1. Len(q) \in Nat
        BY <3>1, LenProperties
      <4>2. Len(q) = Cap \/ Len(q) < Cap
        <5> DEFINE k == Len(q)
        <5> HIDE DEF k
        <5>1. k \in Nat /\ k <= Cap
          BY <3>1, <4>1 DEF k
        <5>2. k = Cap \/ k < Cap
          BY <5>1, Limits
        <5> QED
          BY <5>2 DEF k
      <4> QED
        BY <3>5, <3>6, <3>7, <4>2
    <3>9. streams' \subseteq streams
      BY <3>5
    <3> QED
      BY <3>4, <3>7, <3>8, <3>9 DEF r
  <2> QED
    BY <2>2, <2>3
<1>2. CASE FailAll
  <2>1. streams' = {}
    BY <1>2 DEF FailAll
  <2> SUFFICES ASSUME NEW s \in Stream, NEW i \in DOMAIN ch'[s], ch'[s][i].type = "close"
               PROVE  i = Len(ch'[s])
    BY <2>1
  <2> DEFINE q == ch[s]
             r == ch'[s]
             c == Close(s, "offline")
  <2>2. q \in Seq(FromDevice) /\ Len(q) <= Cap /\ c \in FromDevice
    BY Messages DEF TypeOK, WireInv, Reason
  <2>3. CASE s \notin streams
    BY <1>2, <2>3, Fails
  <2>4. CASE s \in streams
    <3>1. r = IF Len(q) < Cap THEN Append(q, c) ELSE Overflow(q, c)
      BY <1>2, <2>4, Fails
    <3>2. \A j \in DOMAIN q : q[j].type # "close"
      BY <2>4
    <3>3. i \in DOMAIN r /\ r[i].type = "close"
      OBVIOUS
    <3> HIDE DEF q, r, c
    <3>4. /\ r \in Seq(FromDevice) /\ Len(r) \in Nat /\ Len(r) > 0
          /\ \A k \in 1..(Len(r) - 1) : \E j \in DOMAIN q : r[k] = q[j]
      BY <2>2, <3>1, Drains
    <3>5. i = Len(r) \/ i \in 1..(Len(r) - 1)
      BY <3>3, <3>4, LenProperties
    <3>6. i = Len(r)
      BY <3>2, <3>3, <3>4, <3>5
    <3> QED
      BY <3>6 DEF r
  <2> QED
    BY <2>3, <2>4
<1>3. ASSUME NEW s \in Stream, HandlerAct(s)
      PROVE  CloseIsLast'
  <2>1. CASE AddStream(s)
    <3>1. ch[s] = <<>> /\ UNCHANGED ch /\ streams' = streams \cup {s}
      BY <2>1 DEF AddStream, IdleInv
    <3>2. DOMAIN ch[s] = {}
      BY <3>1
    <3> QED
      BY <3>1, <3>2
  <2>2. CASE SendOpen(s) \/ SendOpenFails(s) \/ BrowserLeaves(s) \/ RemoveStream(s) \/ SendClose(s)
    <3>1. UNCHANGED ch /\ streams' \subseteq streams
      BY <2>2 DEF SendOpen, SendOpenFails, BrowserLeaves, RemoveStream, SendClose
    <3> QED
      BY <3>1
  <2>3. CASE RelayEvent(s)
    <3>1. /\ ch[s] # <<>> /\ ch'[s] = Tail(ch[s]) /\ streams' = streams
          /\ \A t \in Stream \ {s} : ch'[t] = ch[t]
      BY <2>3 DEF RelayEvent, TypeOK
    <3> DEFINE r == Tail(ch[s])
    <3>2. /\ DOMAIN r = 1..(Len(ch[s]) - 1) /\ Len(r) = Len(ch[s]) - 1 /\ Len(ch[s]) \in Nat
          /\ DOMAIN ch[s] = 1..Len(ch[s])
          /\ \A i \in 1..(Len(ch[s]) - 1) : r[i] = ch[s][i + 1]
      BY <3>1, Relays
    <3> HIDE DEF r
    <3>3. \A i \in DOMAIN r : i + 1 \in DOMAIN ch[s] /\ (i + 1 = Len(ch[s]) => i = Len(r))
      BY <3>2
    <3>4. \A i \in DOMAIN r : r[i].type = "close" => i = Len(r) /\ s \notin streams
      BY <3>2, <3>3
    <3> QED
      BY <3>1, <3>4 DEF r
  <2> QED
    BY <1>3, <2>1, <2>2, <2>3 DEF HandlerAct
<1> QED
  BY <1>1, <1>2, <1>3, BrowserFrame

-------------------------------------------------------------------------------
(* The teardown of a connection *)

LEMMA TeardownStep ==
  ASSUME TypeOK, WireInv, TeardownInv, [Next]_vars
  PROVE  TeardownInv'
<1> USE DEF TeardownInv
<1>1. CASE HubReads \/ FailAll \/ HubLoses \/ UNCHANGED vars
  BY <1>1, HubFrame DEF loopVars, ptyVars, vars
<1>2. CASE LoopAct
  <2>1. CASE ReadMessage \/ LoopEnds
    BY <2>1 DEF ReadMessage, LoopEnds, ptyVars
  <2>2. CASE StartAttach
    BY <2>2 DEF StartAttach, Handling, TypeOK, WireInv, Message
  <2>3. CASE Activate \/ Input \/ CloseByHub
    BY <2>3 DEF Activate, Input, CloseByHub, Handling, TypeOK, WireInv, Message
  <2> QED
    BY <1>2, <2>1, <2>2, <2>3 DEF LoopAct
<1>3. CASE Cancel \/ FirstSweep \/ Join \/ SecondSweep
  BY <1>3 DEF Cancel, FirstSweep, Join, SecondSweep, CloseAll, loopVars, ptyVars, TypeOK
<1>4. ASSUME NEW s \in Stream, HandlerAct(s) \/ InputAct(s)
      PROVE  TeardownInv'
  BY <1>4, HubFrame DEF loopVars, ptyVars
<1>5. ASSUME NEW s \in Stream, ReaderAct(s) \/ ClientExits(s)
      PROVE  TeardownInv'
  BY <1>5 DEF ReaderAct, Output, OutputFails, ReaderEnds, ReportExit, ClientExits, loopVars, TypeOK
<1> QED
  BY <1>1, <1>2, <1>3, <1>4, <1>5, Actions DEF EndAct

-------------------------------------------------------------------------------
(* The open and the close of a stream on their way to the connector *)

\* An element behind the others.
LEMMA Appends ==
  ASSUME NEW S, NEW q \in Seq(S), NEW m \in S
  PROVE  /\ Len(q) \in Nat /\ DOMAIN q = 1..Len(q) /\ DOMAIN Append(q, m) = 1..(Len(q) + 1)
         /\ \A i \in 1..Len(q) : Append(q, m)[i] = q[i]
         /\ Append(q, m)[Len(q) + 1] = m
BY AppendProperties, LenProperties

\* A write to the connector.
LEMMA Writes ==
  ASSUME TypeOK, NEW m \in Message, toDevice' = Append(toDevice, m), UNCHANGED loopVars
  PROVE  /\ \A s \in Stream : Opens(s)' => Opens(s) \/ (m.type = "open" /\ m.id = s)
         /\ \A s \in Stream : Closes(s)' <=> Closes(s) \/ (m.type = "close" /\ m.id = s)
         /\ \A i \in DOMAIN toDevice' :
              toDevice'[i] = m \/ (i \in DOMAIN toDevice /\ toDevice'[i] = toDevice[i])
         /\ OrderedOpens /\ (m.type = "open" => ~Closes(m.id)) => OrderedOpens'
<1> DEFINE q == toDevice
<1> DEFINE r == toDevice'
<1>1. /\ Len(q) \in Nat /\ DOMAIN q = 1..Len(q) /\ DOMAIN r = 1..(Len(q) + 1)
      /\ \A i \in 1..Len(q) : r[i] = q[i]
      /\ r[Len(q) + 1] = m
  BY Appends DEF TypeOK
<1>2. loop' = loop /\ msg' = msg
  BY DEF loopVars
<1>3. \A s \in Stream : Opens(s)' => Opens(s) \/ (m.type = "open" /\ m.id = s)
  BY <1>1, <1>2 DEF Opens
<1>4. \A s \in Stream : Closes(s)' <=> Closes(s) \/ (m.type = "close" /\ m.id = s)
  BY <1>1, <1>2 DEF Closes, Handling
<1>5. \A i \in DOMAIN r : r[i] = m \/ (i \in DOMAIN q /\ r[i] = q[i])
  BY <1>1
<1>6. ASSUME OrderedOpens, m.type = "open" => ~Closes(m.id)
      PROVE  OrderedOpens'
  <2> SUFFICES ASSUME NEW i \in DOMAIN r, NEW j \in DOMAIN r, i < j,
                      r[i].type = "close", r[j].type = "open"
               PROVE  r[i].id # r[j].id
    BY DEF OrderedOpens
  <2>1. i \in DOMAIN q /\ r[i] = q[i]
    BY <1>1
  <2>2. CASE j \in DOMAIN q
    BY <1>1, <1>6, <2>1, <2>2 DEF OrderedOpens
  <2>3. CASE j \notin DOMAIN q
    BY <1>1, <1>6, <2>1, <2>3 DEF Closes
  <2> QED
    BY <2>2, <2>3
<1> QED
  BY <1>3, <1>4, <1>5, <1>6

\* What a read takes off the wire is being handled.
LEMMA Takes ==
  ASSUME TypeOK, ReadMessage
  PROVE  /\ \A s \in Stream : (Opens(s)' <=> Opens(s)) /\ (Closes(s)' <=> Closes(s))
         /\ OrderedOpens =>
              /\ OrderedOpens'
              /\ Handling("close")' =>
                   \A i \in DOMAIN toDevice' : toDevice'[i].type = "open" => toDevice'[i].id # msg'.id
<1> DEFINE q == toDevice
<1> DEFINE r == toDevice'
<1>1. /\ Len(q) \in Nat /\ Len(q) > 0 /\ DOMAIN q = 1..Len(q) /\ DOMAIN r = 1..(Len(q) - 1)
      /\ \A i \in 1..(Len(q) - 1) : r[i] = q[i + 1]
      /\ msg' = q[1] /\ loop = "reading" /\ loop' = "handling"
  BY Receives DEF TypeOK, ReadMessage
<1>2. \A i \in DOMAIN q : i = 1 \/ (i - 1 \in DOMAIN r /\ q[i] = r[i - 1])
  BY <1>1
<1>3. \A i \in DOMAIN r : i + 1 \in DOMAIN q /\ r[i] = q[i + 1]
  BY <1>1
<1>4. 1 \in DOMAIN q
  BY <1>1
<1>5. ASSUME NEW s \in Stream
      PROVE  (Opens(s)' <=> Opens(s)) /\ (Closes(s)' <=> Closes(s))
  <2>1. Opens(s)' <=> \/ q[1].type = "open" /\ q[1].id = s
                      \/ \E i \in DOMAIN r : r[i].type = "open" /\ r[i].id = s
    BY <1>1 DEF Opens
  <2>2. Opens(s) <=> \E i \in DOMAIN q : q[i].type = "open" /\ q[i].id = s
    BY <1>1 DEF Opens
  <2>3. Closes(s)' <=> \/ q[1].type = "close" /\ q[1].id = s
                       \/ \E i \in DOMAIN r : r[i].type = "close" /\ r[i].id = s
    BY <1>1 DEF Closes, Handling
  <2>4. Closes(s) <=> \E i \in DOMAIN q : q[i].type = "close" /\ q[i].id = s
    BY <1>1 DEF Closes, Handling
  <2> QED
    BY <2>1, <2>2, <2>3, <2>4, <1>2, <1>3, <1>4
<1>6. ASSUME OrderedOpens
      PROVE  /\ OrderedOpens'
             /\ Handling("close")' => \A i \in DOMAIN r : r[i].type = "open" => r[i].id # msg'.id
  <2>1. OrderedOpens'
    BY <1>1, <1>3, <1>6 DEF OrderedOpens
  <2>2. ASSUME Handling("close")', NEW i \in DOMAIN r, r[i].type = "open"
        PROVE  r[i].id # msg'.id
    <3>1. q[1].type = "close" /\ 1 < i + 1
      BY <1>1, <2>2 DEF Handling
    <3> QED
      BY <1>1, <1>3, <1>4, <1>6, <2>2, <3>1 DEF OrderedOpens
  <2> QED
    BY <2>1, <2>2
<1> QED
  BY <1>5, <1>6

\* A step that touches neither the wire nor the read loop and starts no client.
LEMMA BrowserStays ==
  ASSUME BrowserInv, UNCHANGED <<toDevice, loopVars, skipped, handler>>,
         hub' = "up" => hub = "up",
         \A s \in Stream : attach'[s] = "running" => attach[s] = "running"
  PROVE  BrowserInv'
<1>1. \A s \in Stream : (Opens(s)' <=> Opens(s)) /\ (Closes(s)' <=> Closes(s))
  BY DEF Opens, Closes, Handling, loopVars
<1> QED
  BY <1>1 DEF BrowserInv, OrderedOpens, Handling, loopVars

LEMMA BrowserHandlerStep ==
  ASSUME TypeOK, WireInv, BrowserInv, NEW s \in Stream, HandlerAct(s) \/ InputAct(s)
  PROVE  BrowserInv'
<1>1. UNCHANGED <<loopVars, attach>>
  BY HubFrame DEF ptyVars
<1>2. hub' = hub
  BY DEF HandlerAct, InputAct, AddStream, SendOpen, SendOpenFails, RelayEvent, BrowserLeaves,
         CheckInput, WriteInput, RemoveStream, SendClose
<1>3. CASE UNCHANGED toDevice /\ ~SendClose(s)
  <2>1. \A t \in Stream : (Opens(t)' <=> Opens(t)) /\ (Closes(t)' <=> Closes(t))
    BY <1>1, <1>3 DEF Opens, Closes, Handling, loopVars
  <2>2. UNCHANGED skipped /\ \A t \in Stream : handler'[t] = "done" <=> handler[t] = "done"
    BY <1>3 DEF TypeOK, HandlerAct, InputAct, AddStream, SendOpen, SendOpenFails, RelayEvent,
                BrowserLeaves, CheckInput, WriteInput, RemoveStream
  <2> QED
    BY <1>1, <1>2, <1>3, <2>1, <2>2 DEF BrowserInv, OrderedOpens, Handling, loopVars
<1>4. ASSUME NEW m \in Message, toDevice' = Append(toDevice, m), m.type \in {"open", "data"},
             UNCHANGED skipped, \A t \in Stream : handler'[t] = "done" <=> handler[t] = "done",
             m.type = "open" => m.id \in Stream /\ handler[m.id] # "done"
      PROVE  BrowserInv'
  <2>1. /\ \A t \in Stream : Opens(t)' => Opens(t) \/ (m.type = "open" /\ m.id = t)
        /\ \A t \in Stream : Closes(t)' <=> Closes(t)
        /\ \A i \in DOMAIN toDevice' :
             toDevice'[i] = m \/ (i \in DOMAIN toDevice /\ toDevice'[i] = toDevice[i])
        /\ OrderedOpens'
    BY <1>1, <1>4, Writes DEF BrowserInv
  <2>2. Handling("close")' =>
          \A i \in DOMAIN toDevice' : toDevice'[i].type = "open" => toDevice'[i].id # msg'.id
    BY <1>1, <1>4, <2>1 DEF BrowserInv, Handling, Closes, loopVars
  <2> QED
    BY <1>1, <1>2, <1>4, <2>1, <2>2 DEF BrowserInv
<1>5. CASE SendOpen(s)
  <2>1. Open(s) \in Message /\ Open(s).type = "open" /\ Open(s).id = s
    BY Messages DEF Open
  <2>2. /\ toDevice' = Append(toDevice, Open(s)) /\ UNCHANGED skipped /\ handler[s] # "done"
        /\ \A t \in Stream : handler'[t] = "done" <=> handler[t] = "done"
    BY <1>5 DEF SendOpen, TypeOK
  <2> QED
    BY <1>4, <2>1, <2>2
<1>6. CASE WriteInput(s) /\ toDevice' # toDevice
  <2>1. Data(s, input[s]) \in Message /\ Data(s, input[s]).type = "data"
    BY Messages, Limits DEF TypeOK, Data
  <2>2. toDevice' = Append(toDevice, Data(s, input[s])) /\ UNCHANGED <<skipped, handler>>
    BY <1>6 DEF WriteInput
  <2> QED
    BY <1>4, <2>1, <2>2
<1>7. CASE SendClose(s)
  <2>1. /\ handler[s] = "closing" /\ handler'[s] = "done"
        /\ \A t \in Stream \ {s} : handler'[t] = handler[t]
    BY <1>7 DEF SendClose, TypeOK
  <2>2. CASE UNCHANGED toDevice
    <3>1. \A t \in Stream : (Opens(t)' <=> Opens(t)) /\ (Closes(t)' <=> Closes(t))
      BY <1>1, <2>2 DEF Opens, Closes, Handling, loopVars
    <3>2. skipped \subseteq skipped' /\ (hub = "up" => s \in skipped' \/ toDevice' = Append(toDevice, Close(s, NoReason)))
      BY <1>7 DEF SendClose
    <3>3. toDevice' = toDevice /\ toDevice # Append(toDevice, Close(s, NoReason))
      BY <2>2, Messages, AppendProperties DEF TypeOK
    <3> QED
      BY <1>1, <1>2, <2>1, <2>2, <3>1, <3>2, <3>3 DEF BrowserInv, OrderedOpens, Handling, loopVars
  <2>3. CASE toDevice' = Append(toDevice, Close(s, NoReason)) /\ UNCHANGED skipped
    <3> DEFINE m == Close(s, NoReason)
    <3>1. m \in Message /\ m.type = "close" /\ m.id = s
      BY Messages DEF Close
    <3>2. toDevice' = Append(toDevice, m)
      BY <2>3
    <3> HIDE DEF m
    <3>3. /\ \A t \in Stream : Opens(t)' => Opens(t)
          /\ \A t \in Stream : Closes(t)' <=> Closes(t) \/ t = s
          /\ \A i \in DOMAIN toDevice' :
               toDevice'[i] = m \/ (i \in DOMAIN toDevice /\ toDevice'[i] = toDevice[i])
          /\ OrderedOpens'
      BY <1>1, <3>1, <3>2, Writes DEF BrowserInv
    <3>4. Handling("close")' =>
            \A i \in DOMAIN toDevice' : toDevice'[i].type = "open" => toDevice'[i].id # msg'.id
      BY <1>1, <3>1, <3>3 DEF BrowserInv, Handling, loopVars
    <3> QED
      BY <1>1, <1>2, <2>1, <2>3, <3>3, <3>4 DEF BrowserInv
  <2> QED
    BY <1>7, <2>2, <2>3 DEF SendClose
<1>8. UNCHANGED toDevice \/ SendOpen(s) \/ WriteInput(s) \/ SendClose(s)
  BY DEF HandlerAct, InputAct, AddStream, SendOpenFails, RelayEvent, BrowserLeaves,
         CheckInput, RemoveStream, wires
<1> QED
  BY <1>3, <1>5, <1>6, <1>7, <1>8

LEMMA BrowserLoopStep ==
  ASSUME TypeOK, WireInv, TeardownInv, BrowserInv, LoopAct
  PROVE  BrowserInv'
<1>1. UNCHANGED <<handler, skipped, hub>>
  BY ConnectorFrame DEF browserVars
<1>2. CASE ReadMessage
  <2>1. UNCHANGED attach
    BY <1>2 DEF ReadMessage, ptyVars
  <2> QED
    BY <1>1, <1>2, <2>1, Takes DEF BrowserInv
<1>3. CASE LoopEnds
  <2>1. \A s \in Stream : (Opens(s)' <=> Opens(s)) /\ (Closes(s)' <=> Closes(s))
    BY <1>3 DEF LoopEnds, Opens, Closes, Handling, wires
  <2> QED
    BY <1>1, <1>3, <2>1 DEF LoopEnds, wires, ptyVars, BrowserInv, OrderedOpens, Handling
<1>4. CASE StartAttach \/ Activate
  <2>1. /\ UNCHANGED <<toDevice, msg>> /\ loop' \in {"reading", "attached"} /\ msg.type = "open"
        /\ loop \in {"handling", "attached"} /\ ~Handling("close")
    BY <1>4 DEF StartAttach, Activate, Handling, WireInv
  <2>2. \A s \in Stream : (Opens(s)' => Opens(s)) /\ (Closes(s)' <=> Closes(s))
    BY <2>1 DEF Opens, Closes, Handling
  <2>3. \A s \in Stream : attach'[s] = "running" => attach[s] = "running" \/ Opens(s)
    BY <1>4 DEF StartAttach, Activate, Handling, Opens, TypeOK
  <2> QED
    BY <1>1, <2>1, <2>2, <2>3 DEF BrowserInv, OrderedOpens, Handling
<1>5. CASE Input
  <2>1. /\ UNCHANGED <<toDevice, msg, attach>> /\ loop' = "reading" /\ loop = "handling"
        /\ msg.type = "data"
    BY <1>5 DEF Input, Handling
  <2>2. \A s \in Stream : (Opens(s)' <=> Opens(s)) /\ (Closes(s)' <=> Closes(s))
    BY <2>1 DEF Opens, Closes, Handling
  <2> QED
    BY <1>1, <2>1, <2>2 DEF BrowserInv, OrderedOpens, Handling
<1>6. CASE CloseByHub
  <2>1. /\ UNCHANGED <<toDevice, msg>> /\ loop' = "reading" /\ loop = "handling" /\ msg.type = "close"
        /\ Handling("close") /\ msg.id \in Stream
        /\ attach' = [attach EXCEPT ![msg.id] = IF msg.id \in active THEN "dead" ELSE @]
    BY <1>6 DEF CloseByHub, Handling, WireInv, Message
  <2>2. \A s \in Stream : (Opens(s)' <=> Opens(s)) /\ (Closes(s)' => Closes(s))
    BY <2>1 DEF Opens, Closes, Handling
  <2>3. \A s \in Stream \ {msg.id} : Closes(s)' <=> Closes(s)
    BY <2>1 DEF Closes, Handling
  <2>4. attach'[msg.id] # "running" /\ \A s \in Stream \ {msg.id} : attach'[s] = attach[s]
    BY <2>1 DEF TeardownInv, TypeOK
  <2>5. ~Opens(msg.id)
    BY <2>1 DEF BrowserInv, Opens
  <2> QED
    BY <1>1, <2>1, <2>2, <2>3, <2>4, <2>5 DEF BrowserInv, OrderedOpens, Handling
<1> QED
  BY <1>2, <1>3, <1>4, <1>5, <1>6 DEF LoopAct

LEMMA BrowserStep ==
  ASSUME TypeOK, WireInv, TeardownInv, BrowserInv, [Next]_vars
  PROVE  BrowserInv'
<1>1. CASE HubReads \/ FailAll \/ HubLoses \/ UNCHANGED vars
  BY <1>1, BrowserStays DEF HubReads, FailAll, HubLoses, vars, browserVars, wires, ptyVars
<1>2. CASE Cancel \/ FirstSweep \/ Join \/ SecondSweep
  BY <1>2, BrowserStays
     DEF Cancel, FirstSweep, Join, SecondSweep, CloseAll, browserVars, wires, ptyVars, TypeOK
<1>3. ASSUME NEW s \in Stream, ReaderAct(s) \/ ClientExits(s)
      PROVE  BrowserInv'
  BY <1>3, BrowserStays
     DEF ReaderAct, Output, OutputFails, ReaderEnds, ReportExit, ClientExits, browserVars, wires, TypeOK
<1> QED
  BY <1>1, <1>2, <1>3, BrowserHandlerStep, BrowserLoopStep, Actions DEF EndAct

-------------------------------------------------------------------------------
(* What was not opened *)

LEMMA FreshStep ==
  ASSUME TypeOK, WireInv, FreshInv, [Next]_vars
  PROVE  FreshInv'
<1> USE DEF FreshInv
<1>1. CASE HubReads \/ FailAll \/ HubLoses \/ Cancel \/ FirstSweep \/ Join \/ SecondSweep
           \/ UNCHANGED vars
  <2>1. UNCHANGED <<handler, loop, msg, toDevice, reader, output>>
    BY <1>1 DEF HubReads, FailAll, HubLoses, Cancel, FirstSweep, Join, SecondSweep, CloseAll, vars,
                browserVars, wires, loopVars, ptyVars
  <2> QED
    BY <2>1 DEF Opens
<1>2. ASSUME NEW s \in Stream, HandlerAct(s) \/ InputAct(s)
      PROVE  FreshInv'
  <2>1. UNCHANGED <<loopVars, loop, msg, reader, output>>
    BY <1>2, HubFrame DEF ptyVars, loopVars
  <2>2. \A t \in Stream : handler'[t] \in {"idle", "opening"} => handler[t] \in {"idle", "opening"}
    BY <1>2 DEF TypeOK, HandlerAct, InputAct, AddStream, SendOpen, SendOpenFails, RelayEvent,
                BrowserLeaves, CheckInput, WriteInput, RemoveStream, SendClose
  <2>3. CASE UNCHANGED toDevice
    BY <2>1, <2>2, <2>3 DEF Opens
  <2>4. CASE SendOpen(s)
    <3>1. Open(s) \in Message /\ Open(s).id = s /\ toDevice' = Append(toDevice, Open(s))
          /\ handler'[s] = "relaying"
      BY <2>4, Messages DEF SendOpen, Open, TypeOK
    <3>2. \A t \in Stream : Opens(t)' => Opens(t) \/ t = s
      BY <2>1, <3>1, Writes
    <3> QED
      BY <2>1, <2>2, <3>1, <3>2
  <2>5. CASE toDevice' # toDevice /\ (WriteInput(s) \/ SendClose(s))
    <3>1. \E m \in Message : m.type # "open" /\ toDevice' = Append(toDevice, m)
      <4>1. /\ Data(s, input[s]) \in Message /\ Data(s, input[s]).type = "data"
            /\ Close(s, NoReason) \in Message /\ Close(s, NoReason).type = "close"
        BY Messages, Limits DEF TypeOK, Data, Close
      <4> QED
        BY <2>5, <4>1 DEF WriteInput, SendClose
    <3>2. \A t \in Stream : Opens(t)' => Opens(t)
      BY <2>1, <3>1, Writes
    <3> QED
      BY <2>1, <2>2, <3>2
  <2>6. UNCHANGED toDevice \/ SendOpen(s) \/ WriteInput(s) \/ SendClose(s)
    BY <1>2 DEF HandlerAct, InputAct, AddStream, SendOpenFails, RelayEvent, BrowserLeaves,
                CheckInput, RemoveStream, wires
  <2> QED
    BY <2>3, <2>4, <2>5, <2>6
<1>3. CASE LoopAct
  <2>1. UNCHANGED handler
    BY <1>3, ConnectorFrame DEF browserVars
  <2>2. CASE ReadMessage
    <3>1. UNCHANGED <<reader, output>>
      BY <2>2 DEF ReadMessage, ptyVars
    <3> QED
      BY <2>1, <2>2, <3>1, Takes
  <2>3. CASE LoopAct /\ ~ReadMessage
    <3>1. UNCHANGED <<toDevice, msg, output>> /\ loop' \in {"reading", "attached", "gone"}
          /\ (loop' = "attached" => loop = "handling")
      BY <2>3 DEF LoopAct, StartAttach, Activate, Input, CloseByHub, LoopEnds, Handling, wires, ptyVars
    <3>2. \A s \in Stream : Opens(s)' => Opens(s)
      BY <3>1 DEF Opens
    <3>3. \A s \in Stream : reader'[s] = reader[s] \/ Opens(s)
      BY <2>3 DEF LoopAct, StartAttach, Activate, Input, CloseByHub, LoopEnds, ptyVars, Opens, WireInv,
                  TypeOK
    <3> QED
      BY <2>1, <3>1, <3>2, <3>3
  <2> QED
    BY <1>3, <2>2, <2>3
<1>4. ASSUME NEW s \in Stream, ReaderAct(s) \/ ClientExits(s)
      PROVE  FreshInv'
  <2>1. UNCHANGED <<handler, toDevice, loop, msg>>
    BY <1>4, ConnectorFrame
       DEF browserVars, ReaderAct, Output, OutputFails, ReaderEnds, ReportExit, ClientExits,
           loopVars, wires
  <2>2. \A t \in Stream : reader[t] = "none" => reader'[t] = "none" /\ output'[t] = output[t]
    BY <1>4 DEF ReaderAct, Output, OutputFails, ReaderEnds, ReportExit, ClientExits, TypeOK
  <2> QED
    BY <2>1, <2>2 DEF Opens
<1> QED
  BY <1>1, <1>2, <1>3, <1>4, Actions DEF EndAct

-------------------------------------------------------------------------------
(* The output on its way to the browser *)

\* What the connector does to the wire to the hub: nothing, a report, or one more output.
LEMMA ToHubWrites ==
  ASSUME TypeOK, WireInv, [Next]_vars, ~HubReads
  PROVE  \/ UNCHANGED <<toHub, output>>
         \/ \E m \in FromDevice : m.type = "close" /\ toHub' = Append(toHub, m) /\ UNCHANGED output
         \/ \E s \in Stream : /\ Output(s) /\ Data(s, output[s] + 1) \in FromDevice
                             /\ toHub' = Append(toHub, Data(s, output[s] + 1))
                             /\ output' = [output EXCEPT ![s] = @ + 1]
<1>1. CASE \E s \in Stream : Output(s)
  <2>1. PICK s \in Stream : Output(s)
    BY <1>1
  <2>2. output[s] + 1 \in 1..MaxOutput
    BY <2>1, Limits DEF Output, TypeOK
  <2>3. Data(s, output[s] + 1) \in FromDevice
    BY <2>2, Messages
  <2> QED
    BY <2>1, <2>3 DEF Output
<1>2. CASE \A s \in Stream : ~Output(s)
  <2>1. UNCHANGED output
    <3>1. CASE FailAll \/ HubLoses \/ UNCHANGED vars
      BY <3>1 DEF FailAll, HubLoses, vars, ptyVars
    <3>2. CASE LoopAct
      BY <3>2 DEF LoopAct, ReadMessage, StartAttach, Activate, Input, CloseByHub, LoopEnds, ptyVars
    <3>3. CASE Cancel \/ FirstSweep \/ Join \/ SecondSweep
      BY <3>3 DEF Cancel, FirstSweep, Join, SecondSweep, CloseAll, ptyVars
    <3>4. ASSUME NEW s \in Stream, HandlerAct(s) \/ InputAct(s)
          PROVE  UNCHANGED output
      BY <3>4, HubFrame DEF ptyVars
    <3>5. ASSUME NEW s \in Stream, ReaderAct(s) \/ ClientExits(s)
          PROVE  UNCHANGED output
      BY <1>2, <3>5 DEF ReaderAct, OutputFails, ReaderEnds, ReportExit, ClientExits
    <3> QED
      BY <3>1, <3>2, <3>3, <3>4, <3>5, Actions DEF EndAct
  <2>2. \/ UNCHANGED toHub
        \/ \E m \in FromDevice : m.type = "close" /\ toHub' = Append(toHub, m)
    <3>1. CASE StartAttach \/ Input
      <4>1. /\ Close(msg.id, "openFailed") \in FromDevice /\ Close(msg.id, "openFailed").type = "close"
            /\ Close(msg.id, "inputFailed") \in FromDevice /\ Close(msg.id, "inputFailed").type = "close"
        BY <3>1, Messages DEF StartAttach, Input, Handling, WireInv, Message, Reason, Close
      <4> QED
        BY <3>1, <4>1 DEF StartAttach, Input, Send
    <3>2. ASSUME NEW s \in Stream, ReportExit(s)
          PROVE  \/ UNCHANGED toHub
                 \/ \E m \in FromDevice : m.type = "close" /\ toHub' = Append(toHub, m)
      <4>1. Close(s, "exited") \in FromDevice /\ Close(s, "exited").type = "close"
        BY Messages DEF Reason, Close
      <4> QED
        BY <3>2, <4>1 DEF ReportExit, Send
    <3> QED
      BY <1>2, <3>1, <3>2, ToHubFrame
  <2> QED
    BY <2>1, <2>2
<1> QED
  BY <1>1, <1>2

LEMMA OrderStep ==
  ASSUME TypeOK, WireInv, OrderInv, [Next]_vars
  PROVE  OrderInv'
<1>0. /\ toHub \in Seq(FromDevice)
      /\ \A m \in FromDevice : m.type = "data" => m.n \in Nat /\ m.id \in Stream
      /\ output \in [Stream -> Nat]
  BY Limits DEF WireInv, TypeOK, FromDevice, Message
<1>1. CASE HubReads
  <2>1. /\ DOMAIN toHub' = 1..(Len(toHub) - 1) /\ DOMAIN toHub = 1..Len(toHub) /\ Len(toHub) \in Nat
        /\ \A i \in 1..(Len(toHub) - 1) : toHub'[i] = toHub[i + 1]
    BY <1>0, <1>1, Receives DEF HubReads
  <2>2. \A i \in DOMAIN toHub' : i + 1 \in DOMAIN toHub /\ toHub'[i] = toHub[i + 1]
    BY <2>1
  <2>3. \A i, j \in DOMAIN toHub' : i < j => i + 1 < j + 1
    BY <2>1
  <2>4. output' = output
    BY <1>1, Reads
  <2> QED
    BY <2>2, <2>3, <2>4 DEF OrderInv
<1>2. CASE UNCHANGED <<toHub, output>>
  BY <1>2 DEF OrderInv
<1>3. ASSUME NEW m \in FromDevice, m.type = "close", toHub' = Append(toHub, m), UNCHANGED output
      PROVE  OrderInv'
  <2>1. \A i \in DOMAIN toHub' : toHub'[i] = m \/ (i \in DOMAIN toHub /\ toHub'[i] = toHub[i])
    BY <1>0, <1>3, Appends
  <2> QED
    BY <1>3, <2>1 DEF OrderInv
<1>4. ASSUME NEW s \in Stream, Data(s, output[s] + 1) \in FromDevice,
             toHub' = Append(toHub, Data(s, output[s] + 1)),
             output' = [output EXCEPT ![s] = @ + 1]
      PROVE  OrderInv'
  <2> DEFINE m == Data(s, output[s] + 1)
  <2>1. m.type = "data" /\ m.id = s /\ m.n = output[s] + 1 /\ m \in FromDevice
    BY <1>4 DEF Data
  <2>2. toHub' = Append(toHub, m)
    BY <1>4
  <2> HIDE DEF m
  <2>3. /\ DOMAIN toHub = 1..Len(toHub) /\ DOMAIN toHub' = 1..(Len(toHub) + 1) /\ Len(toHub) \in Nat
        /\ \A i \in 1..Len(toHub) : toHub'[i] = toHub[i]
        /\ toHub'[Len(toHub) + 1] = m
    BY <1>0, <2>1, <2>2, Appends
  <2>4. output'[s] = output[s] + 1 /\ \A t \in Stream \ {s} : output'[t] = output[t]
    BY <1>0, <1>4
  <2>5. \A i \in DOMAIN toHub : toHub[i] \in FromDevice
    BY <1>0, <2>3
  <2>6. ASSUME NEW i \in DOMAIN toHub', toHub'[i].type = "data"
        PROVE  toHub'[i].n <= output'[toHub'[i].id]
    <3>1. CASE i = Len(toHub) + 1
      BY <1>0, <2>1, <2>3, <2>4, <3>1
    <3>2. CASE i \in DOMAIN toHub
      <4>1. toHub'[i] = toHub[i] /\ toHub[i].n <= output[toHub[i].id] /\ toHub[i].id \in Stream
            /\ toHub[i].n \in Nat
        BY <1>0, <2>3, <2>5, <2>6, <3>2 DEF OrderInv
      <4> QED
        BY <1>0, <2>4, <4>1
    <3> QED
      BY <2>3, <3>1, <3>2
  <2>7. ASSUME NEW i \in DOMAIN toHub', NEW j \in DOMAIN toHub', i < j,
               toHub'[i].type = "data", toHub'[j].type = "data", toHub'[i].id = toHub'[j].id
        PROVE  toHub'[i].n < toHub'[j].n
    <3>1. i \in DOMAIN toHub /\ toHub'[i] = toHub[i]
      BY <2>3, <2>7
    <3>2. CASE j \in DOMAIN toHub
      BY <2>3, <2>7, <3>1, <3>2 DEF OrderInv
    <3>3. CASE j \notin DOMAIN toHub
      <4>1. toHub'[j] = m
        BY <2>3, <3>3
      <4>2. toHub[i].n \in Nat /\ toHub[i].n <= output[s]
        BY <1>0, <2>1, <2>5, <2>7, <3>1, <4>1 DEF OrderInv
      <4> QED
        BY <1>0, <2>1, <3>1, <4>1, <4>2
    <3> QED
      BY <3>2, <3>3
  <2> QED
    BY <2>6, <2>7 DEF OrderInv
<1> QED
  BY <1>1, <1>2, <1>3, <1>4, ToHubWrites

\* A step that only adds to the wire, or leaves it alone, keeps what is expected.
LEMMA ExpectedStays ==
  ASSUME TypeOK, WireInv, NEW s \in Stream, Expected(s),
         Len(seen'[s]) + Len(ch'[s]) = Len(seen[s]) + Len(ch[s]),
         \/ UNCHANGED <<toHub, output>>
         \/ \E m \in FromDevice : m.type = "close" /\ toHub' = Append(toHub, m) /\ UNCHANGED output
         \/ \E t \in Stream : /\ Output(t) /\ Data(t, output[t] + 1) \in FromDevice
                             /\ toHub' = Append(toHub, Data(t, output[t] + 1))
                             /\ output' = [output EXCEPT ![t] = @ + 1]
  PROVE  Expected(s)'
<1> DEFINE got == Len(seen[s]) + Len(ch[s])
<1>0. toHub \in Seq(FromDevice) /\ output \in [Stream -> Nat] /\ got \in Nat
  BY Limits, LenProperties DEF WireInv, TypeOK
<1>1. /\ got <= output[s]
      /\ \A i \in DOMAIN toHub : toHub[i].type = "data" /\ toHub[i].id = s => got < toHub[i].n
      /\ \A n \in (got + 1)..output[s] :
           \E i \in DOMAIN toHub : toHub[i].type = "data" /\ toHub[i].id = s /\ toHub[i].n = n
  BY DEF Expected
<1>2. Expected(s)' <=>
        /\ got <= output'[s]
        /\ \A i \in DOMAIN toHub' : toHub'[i].type = "data" /\ toHub'[i].id = s => got < toHub'[i].n
        /\ \A n \in (got + 1)..output'[s] :
             \E i \in DOMAIN toHub' : toHub'[i].type = "data" /\ toHub'[i].id = s /\ toHub'[i].n = n
  BY DEF Expected
<1> HIDE DEF got
<1>3. CASE UNCHANGED <<toHub, output>>
  BY <1>1, <1>2, <1>3
<1>4. ASSUME NEW m \in FromDevice, toHub' = Append(toHub, m)
      PROVE  /\ \A i \in DOMAIN toHub' : toHub'[i] = m \/ (i \in DOMAIN toHub /\ toHub'[i] = toHub[i])
             /\ \A i \in DOMAIN toHub : i \in DOMAIN toHub' /\ toHub'[i] = toHub[i]
             /\ \E i \in DOMAIN toHub' : toHub'[i] = m
  <2>1. /\ Len(toHub) \in Nat /\ DOMAIN toHub = 1..Len(toHub) /\ DOMAIN toHub' = 1..(Len(toHub) + 1)
        /\ \A i \in 1..Len(toHub) : toHub'[i] = toHub[i]
        /\ toHub'[Len(toHub) + 1] = m
    BY <1>0, <1>4, Appends
  <2>2. \A i \in DOMAIN toHub' : i \in DOMAIN toHub \/ i = Len(toHub) + 1
    BY <2>1
  <2>3. Len(toHub) + 1 \in DOMAIN toHub' /\ DOMAIN toHub \subseteq DOMAIN toHub'
    BY <2>1
  <2> QED
    BY <2>1, <2>2, <2>3
<1>5. ASSUME NEW m \in FromDevice, m.type = "close", toHub' = Append(toHub, m), UNCHANGED output
      PROVE  Expected(s)'
  BY <1>1, <1>2, <1>4, <1>5
<1>6. ASSUME NEW t \in Stream, Data(t, output[t] + 1) \in FromDevice,
             toHub' = Append(toHub, Data(t, output[t] + 1)),
             output' = [output EXCEPT ![t] = @ + 1]
      PROVE  Expected(s)'
  <2> DEFINE m == Data(t, output[t] + 1)
  <2>1. m \in FromDevice /\ m.type = "data" /\ m.id = t /\ m.n = output[t] + 1 /\ toHub' = Append(toHub, m)
    BY <1>6 DEF Data
  <2> HIDE DEF m
  <2>2. output'[s] = IF s = t THEN output[s] + 1 ELSE output[s]
    BY <1>0, <1>6
  <2>3. /\ \A i \in DOMAIN toHub' : toHub'[i] = m \/ (i \in DOMAIN toHub /\ toHub'[i] = toHub[i])
        /\ \A i \in DOMAIN toHub : i \in DOMAIN toHub' /\ toHub'[i] = toHub[i]
        /\ \E i \in DOMAIN toHub' : toHub'[i] = m
    BY <1>4, <2>1
  <2>4. \A i \in DOMAIN toHub' : toHub'[i].type = "data" /\ toHub'[i].id = s => got < toHub'[i].n
    BY <1>0, <1>1, <2>1, <2>3
  <2>5. ASSUME NEW n \in (got + 1)..output'[s]
        PROVE  \E i \in DOMAIN toHub' : toHub'[i].type = "data" /\ toHub'[i].id = s /\ toHub'[i].n = n
    <3>1. n \in (got + 1)..output[s] \/ (s = t /\ n = output[s] + 1)
      BY <1>0, <2>2
    <3> QED
      BY <1>1, <2>1, <2>3, <3>1
  <2>6. got <= output'[s]
    BY <1>0, <1>1, <2>2
  <2> QED
    BY <1>2, <2>4, <2>5, <2>6
<1> QED
  BY <1>3, <1>5, <1>6

\* The event channel of a stream that is told of a gap by its last event has no room for more:
\* the stream is over.
LEMMA ToldByLast ==
  ASSUME TypeOK, WireInv, CloseIsLast, NEW s \in Stream, ch[s] # <<>>,
         Last(ch[s]).reason \in {"overflow", "offline"}
  PROVE  s \notin streams
<1>1. ch[s] \in Seq(FromDevice) /\ Len(ch[s]) \in DOMAIN ch[s] /\ Last(ch[s]) = ch[s][Len(ch[s])]
  BY Receives DEF WireInv, Last
<1>2. ch[s][Len(ch[s])] \in FromDevice
  BY <1>1, ElementOfSeq, LenProperties
<1>3. ch[s][Len(ch[s])].type = "close"
  BY <1>1, <1>2 DEF FromDevice, NoReason
<1> QED
  BY <1>1, <1>3 DEF CloseIsLast

Flows(s) == handler[s] # "idle" => Told(s) \/ (Continues(s) /\ (s \in streams => Expected(s)))

\* A step that leaves the browser's side of the stream alone.
LEMMA FlowStays ==
  ASSUME TypeOK, WireInv, NEW s \in Stream, Flows(s),
         handler'[s] = handler[s], seen'[s] = seen[s], ch'[s] = ch[s], ending'[s] = ending[s],
         s \in streams' => s \in streams,
         Expected(s) /\ s \in streams => Expected(s)'
  PROVE  Flows(s)'
BY DEF Flows, Told, Continues, Last

\* The first message of a stream that is on the wire is the next one its channel expects.
LEMMA NextOutput ==
  ASSUME TypeOK, WireInv, OrderInv, HubReads, NEW s \in Stream, Expected(s),
         Head(toHub).type = "data", Head(toHub).id = s
  PROVE  Head(toHub).n = Len(seen[s]) + Len(ch[s]) + 1
<1> DEFINE got == Len(seen[s]) + Len(ch[s])
           e == Head(toHub)
<1>1. /\ toHub \in Seq(FromDevice) /\ e = toHub[1] /\ DOMAIN toHub = 1..Len(toHub) /\ Len(toHub) \in Nat
      /\ 1 \in DOMAIN toHub /\ got \in Nat /\ e.n \in Nat /\ output[s] \in Nat
  <2>1. toHub \in Seq(FromDevice) /\ toHub # <<>>
    BY DEF WireInv, HubReads
  <2>2. /\ e = toHub[1] /\ DOMAIN toHub = 1..Len(toHub) /\ Len(toHub) \in Nat /\ 1 \in DOMAIN toHub
        /\ e \in FromDevice
    BY <2>1, Receives
  <2>5. e.n \in Nat
    BY <2>2 DEF FromDevice, Message
  <2>6. output[s] \in Nat
    BY Limits DEF TypeOK
  <2>7. got \in Nat
    BY LenProperties DEF WireInv, TypeOK
  <2> HIDE DEF got, e
  <2> QED
    BY <2>1, <2>2, <2>5, <2>6, <2>7
<1>2. toHub[1].type = "data" /\ toHub[1].id = s
  BY <1>1
<1> HIDE DEF e
<1>5. got < e.n /\ \A n \in (got + 1)..output[s] :
        \E i \in DOMAIN toHub : toHub[i].type = "data" /\ toHub[i].id = s /\ toHub[i].n = n
  BY <1>1, <1>2 DEF Expected
<1>6. e.n <= output[s]
  BY <1>1, <1>2 DEF OrderInv
<1> HIDE DEF got
<1>3. PICK i \in DOMAIN toHub : toHub[i].type = "data" /\ toHub[i].id = s /\ toHub[i].n = got + 1
  <2>1. got + 1 \in (got + 1)..output[s]
    BY <1>1, <1>5, <1>6
  <2> QED
    BY <1>5, <2>1
<1>4. i = 1 \/ e.n < got + 1
  <2>1. i = 1 \/ 1 < i
    BY <1>1
  <2> QED
    BY <1>1, <1>2, <1>3, <2>1 DEF OrderInv
<1>7. e.n = got + 1
  BY <1>1, <1>3, <1>4, <1>5
<1> QED
  BY <1>7 DEF got, e

\* A read of the hub takes the first message away from the wire, into the channel of its stream
\* if it is output that is still waited for.
LEMMA ExpectedReads ==
  ASSUME TypeOK, WireInv, OrderInv, HubReads, NEW s \in Stream, Expected(s), seen'[s] = seen[s],
         IF Head(toHub).id = s /\ Head(toHub).type = "data"
           THEN Len(ch'[s]) = Len(ch[s]) + 1 ELSE Len(ch'[s]) = Len(ch[s])
  PROVE  Expected(s)'
<1> DEFINE got == Len(seen[s]) + Len(ch[s])
           new == Len(seen'[s]) + Len(ch'[s])
           e == Head(toHub)
           mine == e.id = s /\ e.type = "data"
<1>1. /\ got \in Nat /\ new = (IF mine THEN got + 1 ELSE got) /\ output[s] \in Nat /\ output' = output
  <2> DEFINE a == Len(seen[s])
             b == Len(ch[s])
             c == Len(ch'[s])
  <2>1. a \in Nat /\ b \in Nat
    BY LenProperties DEF WireInv, TypeOK
  <2>2. Len(seen'[s]) = a /\ c = IF mine THEN b + 1 ELSE b
    OBVIOUS
  <2>3. output[s] \in Nat /\ output' = output
    BY Limits, Reads DEF TypeOK
  <2>4. got = a + b /\ new = a + c
    BY <2>2
  <2> HIDE DEF a, b, c, got, new, mine
  <2> QED
    BY <2>1, <2>2, <2>3, <2>4
<1>2. /\ DOMAIN toHub = 1..Len(toHub) /\ DOMAIN toHub' = 1..(Len(toHub) - 1) /\ Len(toHub) \in Nat
      /\ e = toHub[1] /\ e \in FromDevice /\ 1 \in DOMAIN toHub
      /\ \A i \in 1..(Len(toHub) - 1) : toHub'[i] = toHub[i + 1]
  <2>1. toHub \in Seq(FromDevice) /\ toHub # <<>> /\ toHub' = Tail(toHub)
    BY DEF WireInv, HubReads
  <2> QED
    BY <2>1, Receives
<1>3. mine => e.n = got + 1
  BY NextOutput
<1>4. /\ got <= output[s]
      /\ \A i \in DOMAIN toHub : toHub[i].type = "data" /\ toHub[i].id = s => got < toHub[i].n
      /\ \A n \in (got + 1)..output[s] :
           \E i \in DOMAIN toHub : toHub[i].type = "data" /\ toHub[i].id = s /\ toHub[i].n = n
  BY DEF Expected
<1>5. Expected(s)' <=>
        /\ new <= output[s]
        /\ \A i \in DOMAIN toHub' : toHub'[i].type = "data" /\ toHub'[i].id = s => new < toHub'[i].n
        /\ \A n \in (new + 1)..output[s] :
             \E i \in DOMAIN toHub' : toHub'[i].type = "data" /\ toHub'[i].id = s /\ toHub'[i].n = n
  BY <1>1 DEF Expected
<1>6. e.type = "data" => e.n <= output[e.id]
  BY <1>2 DEF OrderInv
<1>7. mine <=> e.id = s /\ e.type = "data"
  OBVIOUS
<1> HIDE DEF got, new, e, mine
<1>8. new <= output[s]
  BY <1>1, <1>3, <1>4, <1>6, <1>7
<1>9. \A i \in DOMAIN toHub' : i + 1 \in DOMAIN toHub /\ toHub'[i] = toHub[i + 1] /\ 1 < i + 1
  BY <1>2
<1>10. \A i \in DOMAIN toHub : i = 1 \/ (i - 1 \in DOMAIN toHub' /\ toHub'[i - 1] = toHub[i])
  BY <1>2
<1>11. ASSUME NEW i \in DOMAIN toHub', toHub'[i].type = "data", toHub'[i].id = s
       PROVE  new < toHub'[i].n
  <2>1. got < toHub'[i].n
    BY <1>4, <1>9, <1>11
  <2>2. CASE mine
    <3>1. toHub[1].n < toHub[i + 1].n
      BY <1>2, <1>7, <1>9, <1>11, <2>2 DEF OrderInv
    <3> QED
      BY <1>1, <1>2, <1>3, <1>9, <2>2, <3>1
  <2> QED
    BY <1>1, <2>1, <2>2
<1>12. ASSUME NEW n \in (new + 1)..output[s]
       PROVE  \E i \in DOMAIN toHub' : toHub'[i].type = "data" /\ toHub'[i].id = s /\ toHub'[i].n = n
  <2>1. n \in (got + 1)..output[s] /\ (mine => n # got + 1)
    BY <1>1
  <2>2. PICK i \in DOMAIN toHub : toHub[i].type = "data" /\ toHub[i].id = s /\ toHub[i].n = n
    BY <1>4, <2>1
  <2>3. i # 1
    BY <1>2, <1>3, <1>7, <2>1, <2>2
  <2> QED
    BY <1>10, <2>2, <2>3
<1> QED
  BY <1>5, <1>8, <1>11, <1>12

LEMMA FlowReads ==
  ASSUME TypeOK, WireInv, CloseIsLast, OrderInv, HubReads, NEW s \in Stream, Flows(s)
  PROVE  Flows(s)'
<1> DEFINE e == Head(toHub)
<1>1. /\ e \in FromDevice /\ e.id \in Stream /\ Delivered(e.id, e)
      /\ UNCHANGED <<handler, seen, ending>>
  BY Reads
<1>2. CASE e.id # s \/ s \notin streams
  <2>1. ch'[s] = ch[s] /\ (s \in streams' => s \in streams)
    <3>1. CASE e.id \in streams
      BY <1>1, <1>2, <3>1, Delivers DEF Delivered
    <3>2. CASE e.id \notin streams
      BY <1>1, <3>2 DEF Delivered
    <3> QED
      BY <3>1, <3>2
  <2>2. Expected(s) /\ s \in streams => Expected(s)'
    BY <1>1, <1>2, <2>1, ExpectedReads
  <2> QED
    BY <1>1, <2>1, <2>2, FlowStays
<1>3. CASE e.id = s /\ s \in streams /\ handler[s] # "idle"
  <2> DEFINE q == ch[s]
             r == ch'[s]
             c == Close(s, "overflow")
  <2>1. q \in Seq(FromDevice) /\ Len(q) <= Cap /\ c \in FromDevice /\ c.reason = "overflow"
    BY Messages DEF TypeOK, WireInv, Reason, Close
  <2>2. r = IF Len(q) < Cap THEN Append(q, e) ELSE Overflow(q, c)
    BY <1>1, <1>3, Delivers
  <2>3. r \in Seq(FromDevice)
    BY <1>1, <1>3, Delivers
  <2>4. Told(s) => ending[s] \in {"overflow", "offline"} \/ handler[s] \in {"stopping", "closing", "done"}
    BY <1>3, ToldByLast DEF Told
  <2>5. CASE Told(s)
    BY <1>1, <2>4, <2>5 DEF Flows, Told
  <2>6. CASE ~Told(s)
    <3>1. Continues(s) /\ Expected(s)
      BY <1>3, <2>6 DEF Flows
    <3>2. CASE Len(q) < Cap
      <4>1. /\ Len(q) \in Nat /\ DOMAIN q = 1..Len(q) /\ DOMAIN r = 1..(Len(q) + 1)
            /\ \A i \in 1..Len(q) : r[i] = q[i]
            /\ r[Len(q) + 1] = e /\ Len(r) = Len(q) + 1
        <5>1. r = Append(q, e)
          BY <2>2, <3>2
        <5> QED
          BY <1>1, <2>1, <5>1, Appends, AppendProperties
      <4>2. e.type = "data" => e.n = Len(seen[s]) + (Len(q) + 1)
        <5>1. e.type = "data" => e.n = Len(seen[s]) + Len(q) + 1
          BY <1>3, <3>1, NextOutput
        <5> DEFINE a == Len(seen[s])
                   b == Len(q)
        <5>2. a \in Nat /\ b \in Nat
          BY <4>1, LenProperties DEF TypeOK
        <5> HIDE DEF a, b
        <5>3. (a + b) + 1 = a + (b + 1)
          BY <5>2
        <5> QED
          BY <5>1, <5>3 DEF a, b
      <4>3. \A i \in DOMAIN q : q[i].type = "data" => q[i].n = Len(seen[s]) + i
        BY <3>1 DEF Continues
      <4>4. s \in streams' => e.type = "data"
        BY <1>1, <1>3 DEF Delivered, FromDevice
      <4>5. s \in streams' => Expected(s)'
        BY <1>1, <1>3, <3>1, <4>1, <4>4, ExpectedReads
      <4> HIDE DEF e, q, r
      <4>6. \A i \in DOMAIN r : r[i].type = "data" => r[i].n = Len(seen[s]) + i
        <5>1. \A i \in DOMAIN r : i \in 1..Len(q) \/ i = Len(q) + 1
          BY <4>1
        <5> QED
          BY <4>1, <4>2, <4>3, <5>1
      <4>7. Continues(s)'
        BY <1>1, <3>1, <4>6 DEF Continues, r
      <4> QED
        BY <4>5, <4>7 DEF Flows
    <3>3. CASE ~(Len(q) < Cap)
      <4>1. Len(q) = Cap
        <5> DEFINE k == Len(q)
        <5>1. k \in Nat /\ k <= Cap /\ ~(k < Cap)
          BY <2>1, <3>3, LenProperties
        <5> HIDE DEF k
        <5>2. k = Cap
          BY <5>1, Limits
        <5> QED
          BY <5>2 DEF k
      <4>2. Len(r) \in Nat /\ Len(r) > 0 /\ r[Len(r)] = c
        BY <1>1, <2>1, <2>2, <4>1, Drains
      <4>3. r # <<>> /\ Last(r).reason = "overflow"
        BY <2>1, <2>3, <4>2, EmptySeq DEF Last
      <4> QED
        BY <4>3 DEF Flows, Told
    <3> QED
      BY <3>2, <3>3
  <2> QED
    BY <2>5, <2>6
<1>4. CASE handler[s] = "idle"
  BY <1>1, <1>4 DEF Flows
<1> QED
  BY <1>2, <1>3, <1>4

LEMMA FlowFails ==
  ASSUME TypeOK, WireInv, FailAll, NEW s \in Stream, Flows(s)
  PROVE  Flows(s)'
<1>1. UNCHANGED <<handler, seen, ending>> /\ streams' = {}
  BY DEF FailAll, browserVars
<1>2. CASE s \notin streams
  BY <1>1, <1>2, Fails, FlowStays
<1>3. CASE s \in streams
  <2> DEFINE q == ch[s]
             r == ch'[s]
             c == Close(s, "offline")
  <2>1. q \in Seq(FromDevice) /\ Len(q) <= Cap /\ c \in FromDevice /\ c.reason = "offline"
    BY Messages DEF TypeOK, WireInv, Reason, Close
  <2>2. r = IF Len(q) < Cap THEN Append(q, c) ELSE Overflow(q, c)
    BY <1>3, Fails
  <2>3. r \in Seq(FromDevice)
    BY Fails
  <2>4. Len(q) < Cap \/ Len(q) = Cap
    <3> DEFINE k == Len(q)
    <3>1. k \in Nat /\ k <= Cap
      BY <2>1, LenProperties
    <3> HIDE DEF k
    <3>2. k < Cap \/ k = Cap
      BY <3>1, Limits
    <3> QED
      BY <3>2 DEF k
  <2> HIDE DEF q, r, c
  <2>5. Len(r) \in Nat /\ Len(r) > 0 /\ r[Len(r)] = c
    BY <2>1, <2>2, <2>4, Drains
  <2>6. r # <<>> /\ Last(r).reason = "offline"
    BY <2>1, <2>3, <2>5, EmptySeq DEF Last
  <2> QED
    BY <2>6 DEF Flows, Told, r
<1> QED
  BY <1>2, <1>3

LEMMA FlowRelays ==
  ASSUME TypeOK, WireInv, CloseIsLast, NEW s \in Stream, RelayEvent(s), Flows(s)
  PROVE  Flows(s)'
<1> DEFINE q == ch[s]
           r == ch'[s]
           e == Head(q)
<1>1. q # <<>> /\ r = Tail(q) /\ handler[s] = "relaying" /\ UNCHANGED <<streams, toHub, output>>
  BY DEF RelayEvent, TypeOK, WireInv, wires, ptyVars
<1>2. /\ q \in Seq(FromDevice) /\ r \in Seq(FromDevice)
      /\ e = q[1] /\ e \in FromDevice
      /\ e.type # "close" => e.n \in 1..MaxOutput /\ e.type = "data" /\ e.reason = NoReason
      /\ Len(q) \in Nat /\ Len(q) > 0 /\ Len(r) = Len(q) - 1
      /\ DOMAIN q = 1..Len(q) /\ DOMAIN r = 1..(Len(q) - 1)
      /\ \A i \in 1..(Len(q) - 1) : r[i] = q[i + 1]
  BY <1>1, Relays DEF WireInv, FromDevice
<1>3. CASE e.type = "close"
  <2>1. handler'[s] = "stopping"
    BY <1>3 DEF RelayEvent, TypeOK
  <2> QED
    BY <2>1 DEF Flows, Told
<1>4. CASE e.type # "close"
  <2>1. /\ UNCHANGED <<handler, ending>> /\ seen'[s] = Append(seen[s], e.n)
        /\ seen[s] \in Seq(1..MaxOutput)
    BY <1>4 DEF RelayEvent, TypeOK
  <2>2. /\ Len(seen[s]) \in Nat /\ DOMAIN seen[s] = 1..Len(seen[s])
        /\ DOMAIN seen'[s] = 1..(Len(seen[s]) + 1) /\ Len(seen'[s]) = Len(seen[s]) + 1
        /\ \A i \in 1..Len(seen[s]) : seen'[s][i] = seen[s][i]
        /\ seen'[s][Len(seen[s]) + 1] = e.n
    BY <1>2, <1>4, <2>1, Appends, AppendProperties
  <2>3. CASE q # <<>> /\ Last(q).reason \in {"overflow", "offline"}
    <3>1. q[Len(q)] # e
      BY <1>2, <1>4, <2>3 DEF Last, NoReason
    <3>2. Len(r) > 0 /\ r[Len(r)] = q[Len(q)]
      BY <1>2, <3>1
    <3>3. r # <<>> /\ Last(r) = Last(q)
      BY <1>2, <3>2, EmptySeq DEF Last
    <3> QED
      BY <2>3, <3>3 DEF Flows, Told
  <2>4. CASE ending[s] \in {"overflow", "offline"}
    BY <2>1, <2>4 DEF Flows, Told
  <2>5. CASE Continues(s) /\ (s \in streams => Expected(s))
    <3> DEFINE k == Len(seen[s])
    <3>1. /\ \A i \in 1..k : seen[s][i] = i
          /\ \A i \in DOMAIN q : q[i].type = "data" => q[i].n = k + i
      BY <2>2, <2>5 DEF Continues
    <3>2. 1 \in DOMAIN q /\ \A i \in DOMAIN r : i + 1 \in DOMAIN q /\ r[i] = q[i + 1]
      BY <1>2
    <3> HIDE DEF k
    <3>3. /\ k \in Nat /\ DOMAIN seen'[s] = 1..(k + 1) /\ Len(seen'[s]) = k + 1
          /\ \A i \in 1..k : seen'[s][i] = seen[s][i]
          /\ seen'[s][k + 1] = e.n
      BY <2>2 DEF k
    <3> DEFINE w == seen'[s]
               z == Len(r)
    <3>11. z \in Nat /\ DOMAIN r = 1..z
      BY <1>2
    <3> HIDE DEF q, r, e, z
    <3>10. /\ DOMAIN w = 1..(k + 1) /\ w[k + 1] = e.n
      BY <3>3
    <3>12. \A i \in 1..k : w[i] = i
      BY <3>1, <3>3
    <3> HIDE DEF w
    <3>4. e.n = k + 1
      BY <1>2, <1>4, <3>1, <3>2
    <3>5. \A i \in DOMAIN w : w[i] = i
      <4>1. \A i \in 1..(k + 1) : i \in 1..k \/ i = k + 1
        BY <3>3
      <4> QED
        BY <3>4, <3>10, <3>12, <4>1
    <3>6. \A i \in DOMAIN r : r[i].type = "data" => r[i].n = (k + 1) + i
      <4>1. \A i \in 1..z : k + (i + 1) = (k + 1) + i
        BY <3>3, <3>11
      <4> QED
        BY <3>1, <3>2, <3>11, <4>1
    <3>7. Continues(s)'
      BY <3>3, <3>5, <3>6 DEF Continues, r, w
    <3>8. Len(seen'[s]) + Len(r) = k + Len(q)
      BY <1>2, <3>3
    <3>9. s \in streams' => Expected(s)'
      BY <1>1, <2>5, <3>8, ExpectedStays DEF k, q, r
    <3> QED
      BY <3>7, <3>9 DEF Flows
  <2> QED
    BY <1>1, <2>3, <2>4, <2>5 DEF Flows, Told
<1> QED
  BY <1>3, <1>4

LEMMA FlowHandlerStep ==
  ASSUME TypeOK, WireInv, IdleInv, CloseIsLast, FreshInv, OrderInv, FlowInv,
         NEW t \in Stream, HandlerAct(t)
  PROVE  FlowInv'
<1>0. FlowInv <=> \A s \in Stream : Flows(s)
  BY DEF FlowInv, Flows
<1>1. UNCHANGED <<toHub, output>>
  BY HubFrame DEF HandlerAct, AddStream, SendOpen, SendOpenFails, RelayEvent, BrowserLeaves,
                  RemoveStream, SendClose, wires, ptyVars
<1>2. \A s \in Stream \ {t} : /\ handler'[s] = handler[s] /\ seen'[s] = seen[s] /\ ch'[s] = ch[s]
                             /\ ending'[s] = ending[s] /\ (s \in streams' => s \in streams)
  BY DEF TypeOK, HandlerAct, AddStream, SendOpen, SendOpenFails, RelayEvent, BrowserLeaves,
         RemoveStream, SendClose
<1>3. ASSUME NEW s \in Stream \ {t}
      PROVE  Flows(s)'
  <2>1. Expected(s) => Expected(s)'
    BY <1>1, <1>2, ExpectedStays
  <2> QED
    BY <1>0, <1>2, <2>1, FlowStays
<1>4. Flows(t)'
  <2>1. CASE AddStream(t)
    <3>1. /\ ch'[t] = <<>> /\ seen'[t] = <<>> /\ output'[t] = 0
      BY <1>1, <2>1 DEF AddStream, IdleInv, FreshInv
    <3>2. Continues(t)'
      BY <3>1 DEF Continues
    <3>3. \A i \in DOMAIN toHub' : ~(toHub'[i].type = "data" /\ toHub'[i].id = t)
      <4>1. output[t] = 0 /\ \A i \in DOMAIN toHub : toHub[i] \in FromDevice
        BY <2>1, ElementOfSeq, LenProperties DEF AddStream, FreshInv, WireInv
      <4> QED
        BY <1>1, <4>1 DEF OrderInv, FromDevice
    <3>4. Expected(t)'
      BY <3>1, <3>3 DEF Expected
    <3> QED
      BY <3>2, <3>4 DEF Flows
  <2>2. CASE SendOpen(t) \/ SendOpenFails(t) \/ BrowserLeaves(t) \/ RemoveStream(t) \/ SendClose(t)
    <3>1. /\ seen' = seen /\ ch' = ch /\ ending' = ending /\ (t \in streams' => t \in streams)
          /\ handler[t] # "idle"
          /\ handler[t] \in {"stopping", "closing", "done"} => handler'[t] \in {"stopping", "closing", "done"}
      BY <2>2 DEF TypeOK, SendOpen, SendOpenFails, BrowserLeaves, RemoveStream, SendClose
    <3>2. Expected(t) => Expected(t)'
      BY <1>1, <3>1, ExpectedStays
    <3>3. Told(t) => Told(t)'
      BY <3>1 DEF Told, Last
    <3>4. Continues(t) => Continues(t)'
      BY <3>1 DEF Continues
    <3> QED
      BY <1>0, <3>1, <3>2, <3>3, <3>4 DEF Flows
  <2>3. CASE RelayEvent(t)
    BY <1>0, <2>3, FlowRelays
  <2> QED
    BY <2>1, <2>2, <2>3 DEF HandlerAct
<1>5. \A s \in Stream : Flows(s)'
  BY <1>3, <1>4
<1> QED
  BY <1>5 DEF FlowInv, Flows

LEMMA FlowStep ==
  ASSUME TypeOK, WireInv, IdleInv, CloseIsLast, FreshInv, OrderInv, FlowInv, [Next]_vars
  PROVE  FlowInv'
<1>0. \A s \in Stream : Flows(s)
  BY DEF FlowInv, Flows
<1>1. CASE HubReads
  BY <1>0, <1>1, FlowReads DEF FlowInv, Flows
<1>2. CASE FailAll
  BY <1>0, <1>2, FlowFails DEF FlowInv, Flows
<1>3. CASE UNCHANGED <<handler, seen, ending, skipped, streams, ch>> /\ ~HubReads
  <2>1. ASSUME NEW s \in Stream
        PROVE  Flows(s)'
    <3>1. Expected(s) => Expected(s)'
      BY <1>3, ExpectedStays, ToHubWrites
    <3> QED
      BY <1>0, <1>3, <3>1, FlowStays
  <2> QED
    BY <2>1 DEF FlowInv, Flows
<1> QED
  BY <1>1, <1>2, <1>3, FlowHandlerStep, BrowserFrame

-------------------------------------------------------------------------------
(* The theorems *)

LEMMA InitSound == Init => IInv
<1> SUFFICES ASSUME Init PROVE IInv
  OBVIOUS
<1>1. /\ toHub = <<>> /\ toDevice = <<>>
      /\ \A s \in Stream : ch[s] = <<>> /\ seen[s] = <<>>
      /\ ch = [s \in Stream |-> <<>>] /\ seen = [s \in Stream |-> <<>>]
  BY DEF Init
<1>2. TypeOK
  <2>1. /\ ch \in [Stream -> Seq(Message)] /\ \A s \in Stream : Len(ch[s]) <= Cap
        /\ seen \in [Stream -> Seq(1..MaxOutput)]
        /\ toDevice \in Seq(Message) /\ toHub \in Seq(Message)
    BY <1>1, Limits, EmptySeq
  <2> QED
    BY <2>1, Limits DEF Init, TypeOK
<1>3. WireInv
  <2>1. ch \in [Stream -> Seq(FromDevice)] /\ toHub \in Seq(FromDevice)
    BY <1>1, EmptySeq
  <2> QED
    BY <2>1 DEF Init, WireInv
<1>4. IdleInv /\ CloseIsLast /\ TeardownInv
  BY <1>1 DEF Init, IdleInv, CloseIsLast, TeardownInv
<1>5. BrowserInv /\ FreshInv
  BY <1>1 DEF Init, BrowserInv, OrderedOpens, Handling, FreshInv, Opens, Closes
<1>6. OrderInv /\ FlowInv
  BY <1>1 DEF Init, OrderInv, FlowInv
<1> QED
  BY <1>2, <1>3, <1>4, <1>5, <1>6 DEF IInv

LEMMA InvStep == IInv /\ [Next]_vars => IInv'
BY TypeStep, IdleStep, CloseStep, TeardownStep, BrowserStep, FreshStep, OrderStep, FlowStep DEF IInv

LEMMA Invariance == Spec => []IInv
BY InitSound, InvStep, PTL DEF Spec

\* Every variable keeps its type, and a channel never holds more than its capacity, although
\* streamEvent and failAll add to one that is full.
THEOREM TypeCorrect == Spec => []TypeOK
<1>1. IInv => TypeOK
  BY DEF IInv
<1> QED
  BY <1>1, Invariance, PTL

\* What the browser is sent has no hole it is not told of, for any capacity of the channels and
\* any number of streams on the connection (streamEvent, the relay loop of TerminalHandler).
THEOREM OutputIsWhole == Spec => []NoSilentGap
<1>1. IInv => NoSilentGap
  BY DEF IInv, FlowInv, NoSilentGap, Told
<1> QED
  BY <1>1, Invariance, PTL

\* A close event ends its stream, whichever of the device, an overflow and failAll it came from.
THEOREM ClosesAreLast == Spec => []CloseIsLast
<1>1. IInv => CloseIsLast
  BY DEF IInv
<1> QED
  BY <1>1, Invariance, PTL

\* The two sweeps of runWithRPC, before and after it waits for the read loop, leave no client.
THEOREM AttachesEnd == Spec => []NoAttachSurvives
<1>1. IInv => NoAttachSurvives
  BY DEF IInv, TeardownInv, NoAttachSurvives
<1> QED
  BY <1>1, Invariance, PTL

\* A client without a browser has a close under way, except where closeStream gave it up.
THEOREM AttachesHaveBrowsers == Spec => []AttachHasBrowser
<1>1. IInv => AttachHasBrowser
  BY DEF IInv, BrowserInv, AttachHasBrowser, OpenOrInFlight, Closes
<1> QED
  BY <1>1, Invariance, PTL

-------------------------------------------------------------------------------
(* Beyond NoSilentGap: the promise of TerminalOutput *)

\* A stream is opened once.
Unrepeated ==
  /\ \A i, j \in DOMAIN toDevice :
       i < j /\ toDevice[i].type = "open" /\ toDevice[j].type = "open"
         => toDevice[i].id # toDevice[j].id
  /\ loop \in {"handling", "attached"} /\ msg.type = "open" =>
       \A i \in DOMAIN toDevice : toDevice[i].type = "open" => toDevice[i].id # msg.id

OnceInv == Unrepeated /\ \A s \in Stream : Opens(s) => reader[s] = "none"

LEMMA OnceWrites ==
  ASSUME TypeOK, OnceInv, NEW m \in Message, toDevice' = Append(toDevice, m),
         UNCHANGED <<loop, msg, reader>>,
         m.type = "open" => ~Opens(m.id) /\ reader[m.id] = "none"
  PROVE  OnceInv'
<1>1. /\ Len(toDevice) \in Nat /\ DOMAIN toDevice = 1..Len(toDevice)
      /\ DOMAIN toDevice' = 1..(Len(toDevice) + 1)
      /\ \A i \in 1..Len(toDevice) : toDevice'[i] = toDevice[i]
      /\ toDevice'[Len(toDevice) + 1] = m
  BY Appends DEF TypeOK
<1>2. \A s \in Stream : Opens(s)' => Opens(s) \/ (m.type = "open" /\ m.id = s)
  BY <1>1 DEF Opens
<1>3. ASSUME NEW i \in DOMAIN toDevice', NEW j \in DOMAIN toDevice', i < j,
             toDevice'[i].type = "open", toDevice'[j].type = "open"
      PROVE  toDevice'[i].id # toDevice'[j].id
  <2>1. i \in DOMAIN toDevice /\ toDevice'[i] = toDevice[i]
    BY <1>1, <1>3
  <2>2. CASE j \in DOMAIN toDevice
    BY <1>1, <1>3, <2>1, <2>2 DEF OnceInv, Unrepeated
  <2>3. CASE j \notin DOMAIN toDevice
    <3>1. toDevice'[j] = m
      BY <1>1, <2>3
    <3> QED
      BY <1>3, <2>1, <3>1 DEF Opens
  <2> QED
    BY <2>2, <2>3
<1>4. ASSUME loop' \in {"handling", "attached"}, msg'.type = "open",
             NEW i \in DOMAIN toDevice', toDevice'[i].type = "open"
      PROVE  toDevice'[i].id # msg'.id
  <2>1. toDevice'[i] = m \/ (i \in DOMAIN toDevice /\ toDevice'[i] = toDevice[i])
    BY <1>1
  <2> QED
    BY <1>4, <2>1 DEF OnceInv, Unrepeated, Opens
<1> QED
  BY <1>2, <1>3, <1>4 DEF OnceInv, Unrepeated

LEMMA OnceStep ==
  ASSUME TypeOK, WireInv, FreshInv, OnceInv, [Next]_vars
  PROVE  OnceInv'
<1>1. ASSUME UNCHANGED <<toDevice, loop, msg>>, \A s \in Stream : reader[s] = "none" => reader'[s] = "none"
      PROVE  OnceInv'
  BY <1>1 DEF OnceInv, Unrepeated, Opens
<1>2. CASE HubReads \/ FailAll \/ EndAct \/ UNCHANGED vars
  <2>1. UNCHANGED <<toDevice, loop, msg, reader>>
    BY <1>2 DEF HubReads, FailAll, EndAct, HubLoses, Cancel, FirstSweep, Join, SecondSweep, CloseAll,
                vars, wires, loopVars, ptyVars
  <2> QED
    BY <1>1, <2>1
<1>3. ASSUME NEW s \in Stream, ReaderAct(s) \/ ClientExits(s)
      PROVE  OnceInv'
  <2>1. UNCHANGED <<toDevice, loop, msg>>
    BY <1>3 DEF ReaderAct, Output, OutputFails, ReaderEnds, ReportExit, ClientExits, loopVars, wires
  <2>2. \A t \in Stream : reader[t] = "none" => reader'[t] = "none"
    BY <1>3 DEF ReaderAct, Output, OutputFails, ReaderEnds, ReportExit, ClientExits, TypeOK
  <2> QED
    BY <1>1, <2>1, <2>2
<1>4. ASSUME NEW s \in Stream, HandlerAct(s) \/ InputAct(s)
      PROVE  OnceInv'
  <2>1. UNCHANGED <<loop, msg, reader>>
    BY <1>4, HubFrame DEF ptyVars, loopVars
  <2>2. CASE UNCHANGED toDevice
    BY <1>1, <2>1, <2>2
  <2>3. CASE SendOpen(s)
    <3>1. Open(s) \in Message /\ Open(s).type = "open" /\ Open(s).id = s
      BY Messages DEF Open
    <3>2. toDevice' = Append(toDevice, Open(s)) /\ ~Opens(s) /\ reader[s] = "none"
      BY <2>3 DEF SendOpen, FreshInv
    <3> QED
      BY <2>1, <3>1, <3>2, OnceWrites
  <2>4. CASE toDevice' # toDevice /\ (WriteInput(s) \/ SendClose(s))
    <3>1. PICK m \in Message : m.type # "open" /\ toDevice' = Append(toDevice, m)
      <4>1. /\ Data(s, input[s]) \in Message /\ Data(s, input[s]).type = "data"
            /\ Close(s, NoReason) \in Message /\ Close(s, NoReason).type = "close"
        BY Messages, Limits DEF TypeOK, Data, Close
      <4> QED
        BY <2>4, <4>1 DEF WriteInput, SendClose
    <3> QED
      BY <2>1, <3>1, OnceWrites
  <2>5. UNCHANGED toDevice \/ SendOpen(s) \/ WriteInput(s) \/ SendClose(s)
    BY <1>4 DEF HandlerAct, InputAct, AddStream, SendOpenFails, RelayEvent, BrowserLeaves,
                CheckInput, RemoveStream, wires
  <2> QED
    BY <2>2, <2>3, <2>4, <2>5
<1>5. CASE ReadMessage
  <2>1. /\ Len(toDevice) \in Nat /\ Len(toDevice) > 0 /\ DOMAIN toDevice = 1..Len(toDevice)
        /\ DOMAIN toDevice' = 1..(Len(toDevice) - 1)
        /\ \A i \in 1..(Len(toDevice) - 1) : toDevice'[i] = toDevice[i + 1]
        /\ msg' = toDevice[1] /\ UNCHANGED reader
    BY <1>5, Receives DEF TypeOK, ReadMessage, ptyVars
  <2>2. \A i \in DOMAIN toDevice' :
          i \in Nat /\ i + 1 \in DOMAIN toDevice /\ 1 < i + 1 /\ toDevice'[i] = toDevice[i + 1]
    BY <2>1
  <2>3. 1 \in DOMAIN toDevice
    BY <2>1
  <2>4. \A i, j \in DOMAIN toDevice' : i < j => i + 1 < j + 1
    BY <2>2
  <2>5. Unrepeated'
    BY <2>1, <2>2, <2>3, <2>4 DEF OnceInv, Unrepeated
  <2>6. \A s \in Stream : Opens(s)' => Opens(s)
    BY <1>5, Takes
  <2> QED
    BY <2>1, <2>5, <2>6 DEF OnceInv
<1>6. CASE StartAttach \/ Input \/ CloseByHub \/ LoopEnds
  <2>1. /\ UNCHANGED <<toDevice, msg, reader>> /\ loop' \in {"reading", "attached", "gone"}
        /\ (loop' = "attached" => loop = "handling")
    BY <1>6 DEF StartAttach, Input, CloseByHub, LoopEnds, Handling, wires, ptyVars
  <2> QED
    BY <2>1 DEF OnceInv, Unrepeated, Opens
<1>7. CASE Activate
  <2>1. /\ UNCHANGED <<toDevice, msg>> /\ loop = "attached" /\ loop' = "reading" /\ msg.type = "open"
        /\ \A s \in Stream \ {msg.id} : reader'[s] = reader[s]
    BY <1>7 DEF Activate, WireInv, TypeOK
  <2>2. \A s \in Stream : Opens(s)' => Opens(s) /\ s # msg.id
    BY <2>1 DEF OnceInv, Unrepeated, Opens
  <2> QED
    BY <2>1, <2>2 DEF OnceInv, Unrepeated
<1> QED
  BY <1>2, <1>3, <1>4, <1>5, <1>6, <1>7, Actions DEF LoopAct

\* What a reader has done is done.
LEMMA DoneStays ==
  ASSUME TypeOK, WireInv, OnceInv, [Next]_vars, NEW s \in Stream, reader[s] = "done"
  PROVE  reader'[s] = "done" /\ output'[s] = output[s]
<1>1. CASE HubReads \/ FailAll \/ EndAct \/ UNCHANGED vars
  BY <1>1 DEF HubReads, FailAll, EndAct, HubLoses, Cancel, FirstSweep, Join, SecondSweep, CloseAll,
              vars, ptyVars
<1>2. ASSUME NEW t \in Stream, ReaderAct(t) \/ ClientExits(t)
      PROVE  reader'[s] = "done" /\ output'[s] = output[s]
  BY <1>2 DEF ReaderAct, Output, OutputFails, ReaderEnds, ReportExit, ClientExits, TypeOK
<1>3. ASSUME NEW t \in Stream, HandlerAct(t) \/ InputAct(t)
      PROVE  reader'[s] = "done" /\ output'[s] = output[s]
  BY <1>3, HubFrame DEF ptyVars
<1>4. CASE LoopAct
  <2>1. UNCHANGED output /\ \A t \in Stream : reader'[t] = reader[t] \/ (Opens(t) /\ reader'[t] = "reading")
    BY <1>4 DEF LoopAct, ReadMessage, StartAttach, Activate, Input, CloseByHub, LoopEnds, ptyVars,
                Opens, WireInv, TypeOK
  <2> QED
    BY <2>1 DEF OnceInv
<1> QED
  BY <1>1, <1>2, <1>3, <1>4, Actions

-------------------------------------------------------------------------------
(* Output only goes forward, also past a loss *)

\* All that the browser of s was sent, or is to be sent from the channel, comes before piece n.
Passed(s, n) ==
  /\ \A i \in DOMAIN seen[s] : seen[s][i] < n
  /\ \A i \in DOMAIN ch[s] : ch[s][i].type = "data" => ch[s][i].n < n

OnWire(s, k) == toHub[k].type = "data" /\ toHub[k].id = s

Advance(s) ==
  /\ Passed(s, output[s] + 1)
  /\ s \in streams => \A k \in DOMAIN toHub : OnWire(s, k) => Passed(s, toHub[k].n)
  /\ \A j \in DOMAIN ch[s] : ch[s][j].type = "data" =>
       /\ \A i \in DOMAIN seen[s] : seen[s][i] < ch[s][j].n
       /\ \A i \in 1..(j - 1) : ch[s][i].type = "data" => ch[s][i].n < ch[s][j].n

AdvanceInv == \A s \in Stream : Advance(s)

\* The numbers that are compared.
LEMMA Numbers ==
  ASSUME TypeOK, WireInv, NEW s \in Stream
  PROVE  /\ output[s] \in Nat
         /\ seen[s] \in Seq(1..MaxOutput) /\ ch[s] \in Seq(FromDevice)
         /\ Len(ch[s]) \in Nat /\ DOMAIN ch[s] = 1..Len(ch[s])
         /\ \A i \in DOMAIN seen[s] : seen[s][i] \in Nat
         /\ \A i \in DOMAIN ch[s] : ch[s][i] \in FromDevice /\ ch[s][i].n \in Nat
         /\ \A k \in DOMAIN toHub : toHub[k] \in FromDevice /\ toHub[k].n \in Nat
<1>1. output[s] \in Nat /\ 1..MaxOutput \subseteq Nat
  BY Limits DEF TypeOK
<1>2. seen[s] \in Seq(1..MaxOutput) /\ ch[s] \in Seq(FromDevice) /\ toHub \in Seq(FromDevice)
  BY DEF TypeOK, WireInv
<1>3. \A m \in FromDevice : m.n \in Nat
  BY DEF FromDevice, Message
<1> QED
  BY <1>1, <1>2, <1>3, ElementOfSeq, LenProperties

\* Events that move up, or lose their first, in front of a close.
LEMMA AdvanceShifts ==
  ASSUME TypeOK, WireInv, NEW s \in Stream, Advance(s), seen'[s] = seen[s],
         output'[s] \in Nat, output[s] <= output'[s],
         NEW d \in {0, 1}, DOMAIN ch'[s] \subseteq Nat \ {0},
         \A j \in DOMAIN ch'[s] : ch'[s][j].type = "data" =>
            /\ j + d \in DOMAIN ch[s] /\ ch'[s][j] = ch[s][j + d]
            /\ \A i \in 1..(j - 1) : i \in DOMAIN ch'[s],
         s \in streams' =>
            /\ s \in streams
            /\ \A k \in DOMAIN toHub' : OnWire(s, k)' =>
                 \E i \in DOMAIN toHub : OnWire(s, i) /\ toHub'[k] = toHub[i]
  PROVE  Advance(s)'
<1>1. \A n \in Nat : Passed(s, n) => Passed(s, n)'
  BY DEF Passed
<1>2. Passed(s, output'[s] + 1)
  BY Numbers DEF Advance, Passed
<1>3. Passed(s, output[s] + 1)'
  BY <1>1, <1>2
<1>4. ASSUME s \in streams', NEW k \in DOMAIN toHub', OnWire(s, k)'
      PROVE  Passed(s, toHub[k].n)'
  <2>1. PICK i \in DOMAIN toHub : OnWire(s, i) /\ toHub'[k] = toHub[i]
    BY <1>4
  <2>2. Passed(s, toHub[i].n) /\ toHub[i].n \in Nat
    BY <1>4, <2>1, Numbers DEF Advance
  <2>3. toHub'[k].n = toHub[i].n
    BY <2>1
  <2> QED
    BY <1>1, <2>2, <2>3
<1>5. ASSUME NEW j \in DOMAIN ch'[s], ch'[s][j].type = "data"
      PROVE  /\ \A i \in DOMAIN seen[s] : seen[s][i] < ch'[s][j].n
             /\ \A i \in 1..(j - 1) : ch'[s][i].type = "data" => ch'[s][i].n < ch'[s][j].n
  <2>1. j + d \in DOMAIN ch[s] /\ ch'[s][j] = ch[s][j + d] /\ j \in Nat
    BY <1>5
  <2>2. \A i \in 1..(j - 1) : ch'[s][i].type = "data" => ch'[s][i] = ch[s][i + d] /\ i + d \in 1..((j + d) - 1)
    BY <1>5, <2>1
  <2> QED
    BY <1>5, <2>1, <2>2 DEF Advance
<1> QED
  BY <1>3, <1>4, <1>5 DEF Advance

\* An event of the wire that finds room.
LEMMA AdvanceAppends ==
  ASSUME TypeOK, WireInv, OrderInv, HubReads, NEW s \in Stream, Advance(s), s \in streams,
         Head(toHub).id = s, ch'[s] = Append(ch[s], Head(toHub)), Head(toHub).type = "data"
  PROVE  Advance(s)'
<1> DEFINE e == Head(toHub)
           q == ch[s]
           r == ch'[s]
<1>1. /\ toHub \in Seq(FromDevice) /\ toHub # <<>> /\ toHub' = Tail(toHub)
      /\ seen' = seen /\ output' = output
  BY Reads DEF WireInv, HubReads
<1>2. /\ e = toHub[1] /\ 1 \in DOMAIN toHub /\ e \in FromDevice
      /\ \A i \in DOMAIN toHub' : i + 1 \in DOMAIN toHub /\ toHub'[i] = toHub[i + 1] /\ 1 < i + 1
  <2>1. /\ e = toHub[1] /\ DOMAIN toHub = 1..Len(toHub) /\ Len(toHub) \in Nat /\ Len(toHub) > 0
        /\ DOMAIN toHub' = 1..(Len(toHub) - 1) /\ e \in FromDevice
        /\ \A i \in 1..(Len(toHub) - 1) : toHub'[i] = toHub[i + 1]
    BY <1>1, Receives
  <2> HIDE DEF e
  <2> QED
    BY <2>1
<1>3. /\ e.type = "data" /\ e.id = s /\ OnWire(s, 1) /\ Passed(s, e.n) /\ e.n \in Nat
      /\ e.n <= output[s]
  <2>1. e.type = "data" /\ e.id = s /\ OnWire(s, 1)
    BY <1>2 DEF OnWire
  <2> QED
    BY <1>2, <2>1, Numbers DEF Advance, OrderInv
<1>4. /\ Len(q) \in Nat /\ DOMAIN q = 1..Len(q) /\ DOMAIN r = 1..(Len(q) + 1)
      /\ \A i \in 1..Len(q) : r[i] = q[i]
      /\ r[Len(q) + 1] = e
  <2>1. q \in Seq(FromDevice) /\ r = Append(q, e)
    BY Numbers
  <2> QED
    BY <1>2, <2>1, Appends
<1>n. /\ output[s] \in Nat
      /\ \A i \in DOMAIN seen[s] : seen[s][i] \in Nat
      /\ \A i \in DOMAIN q : q[i] \in FromDevice /\ q[i].n \in Nat
      /\ \A k \in DOMAIN toHub : toHub[k] \in FromDevice /\ toHub[k].n \in Nat
  BY Numbers
<1> HIDE DEF e
<1>5. ASSUME NEW n \in Nat, Passed(s, n), e.n < n
      PROVE  Passed(s, n)'
  <2>1. \A i \in DOMAIN r : (i \in DOMAIN q /\ r[i] = q[i]) \/ r[i] = e
    BY <1>4
  <2> QED
    BY <1>1, <1>5, <2>1 DEF Passed
<1>6. Passed(s, output[s] + 1)'
  <2>1. Passed(s, output[s] + 1) /\ e.n < output[s] + 1
    BY <1>3, <1>n DEF Advance
  <2>2. Passed(s, output[s] + 1)' <=> /\ \A i \in DOMAIN seen'[s] : seen'[s][i] < output[s] + 1
                                      /\ \A i \in DOMAIN r : r[i].type = "data" => r[i].n < output[s] + 1
    BY <1>1 DEF Passed
  <2>3. \A i \in DOMAIN r : (i \in DOMAIN q /\ r[i] = q[i]) \/ r[i] = e
    BY <1>4
  <2> QED
    BY <1>1, <2>1, <2>2, <2>3 DEF Passed
<1>7. ASSUME NEW k \in DOMAIN toHub', OnWire(s, k)'
      PROVE  Passed(s, toHub[k].n)'
  <2>1. k + 1 \in DOMAIN toHub /\ toHub'[k] = toHub[k + 1] /\ 1 < k + 1 /\ OnWire(s, k + 1)
    BY <1>2, <1>7 DEF OnWire
  <2>2. Passed(s, toHub[k + 1].n) /\ toHub[k + 1].n \in Nat
    BY <1>n, <2>1 DEF Advance
  <2>3. e.n < toHub[k + 1].n
    BY <1>2, <1>3, <2>1 DEF OrderInv, OnWire
  <2>4. Passed(s, toHub[k].n)' <=> /\ \A i \in DOMAIN seen'[s] : seen'[s][i] < toHub[k + 1].n
                                   /\ \A i \in DOMAIN r : r[i].type = "data" => r[i].n < toHub[k + 1].n
    BY <2>1 DEF Passed
  <2>5. \A i \in DOMAIN r : (i \in DOMAIN q /\ r[i] = q[i]) \/ r[i] = e
    BY <1>4
  <2> QED
    BY <1>1, <2>2, <2>3, <2>4, <2>5 DEF Passed
<1>8. ASSUME NEW j \in DOMAIN r, r[j].type = "data"
      PROVE  /\ \A i \in DOMAIN seen[s] : seen[s][i] < r[j].n
             /\ \A i \in 1..(j - 1) : r[i].type = "data" => r[i].n < r[j].n
  <2>1. CASE j \in DOMAIN q
    <3>1. r[j] = q[j] /\ \A i \in 1..(j - 1) : r[i] = q[i]
      BY <1>4, <2>1
    <3> QED
      BY <1>8, <2>1, <3>1 DEF Advance
  <2>2. CASE j \notin DOMAIN q
    <3>1. r[j] = e /\ \A i \in 1..(j - 1) : i \in DOMAIN q /\ r[i] = q[i]
      BY <1>4, <2>2
    <3> QED
      BY <1>3, <3>1 DEF Passed
  <2> QED
    BY <2>1, <2>2
<1> QED
  BY <1>1, <1>6, <1>7, <1>8 DEF Advance

\* A channel that is closed for lack of room, or by failAll.
LEMMA AdvanceOverflows ==
  ASSUME TypeOK, WireInv, NEW s \in Stream, NEW e \in FromDevice, NEW c \in FromDevice, c.type = "close",
         e.type = "close",
         ch'[s] = IF Len(ch[s]) < Cap THEN Append(ch[s], e) ELSE Overflow(ch[s], c)
  PROVE  /\ DOMAIN ch'[s] \subseteq Nat \ {0}
         /\ \E d \in {0, 1} : \A j \in DOMAIN ch'[s] : ch'[s][j].type = "data" =>
              /\ j + d \in DOMAIN ch[s] /\ ch'[s][j] = ch[s][j + d]
              /\ \A i \in 1..(j - 1) : i \in DOMAIN ch'[s]
<1> DEFINE q == ch[s]
           r == ch'[s]
<1>1. q \in Seq(FromDevice) /\ Len(q) \in Nat /\ DOMAIN q = 1..Len(q) /\ Len(q) <= Cap
  BY Numbers DEF TypeOK
<1>2. CASE Len(q) < Cap
  <2>1. r = Append(q, e)
    BY <1>2
  <2> HIDE DEF q, r
  <2>2. /\ DOMAIN r = 1..(Len(q) + 1)
        /\ \A i \in 1..Len(q) : r[i] = q[i]
        /\ r[Len(q) + 1] = e
    BY <1>1, <2>1, Appends
  <2>3. \A j \in DOMAIN r : r[j].type = "data" => j \in 1..Len(q)
    BY <1>1, <2>2
  <2>4. \A j \in DOMAIN r : r[j].type = "data" =>
              /\ j + 0 \in DOMAIN q /\ r[j] = q[j + 0]
              /\ \A i \in 1..(j - 1) : i \in DOMAIN r
    BY <1>1, <2>2, <2>3
  <2>5. DOMAIN r \subseteq Nat \ {0}
    BY <1>1, <2>2
  <2> QED
    BY <2>4, <2>5 DEF q, r
<1>3. CASE ~(Len(q) < Cap)
  <2>1. r = Append(Tail(q), c) /\ q # <<>>
    BY <1>1, <1>3, Limits, EmptySeq DEF Overflow
  <2> DEFINE p == Tail(q)
  <2> HIDE DEF q, r
  <2>2. /\ p \in Seq(FromDevice) /\ Len(p) = Len(q) - 1 /\ Len(q) > 0
        /\ \A i \in 1..(Len(q) - 1) : p[i] = q[i + 1]
    BY <1>1, <2>1, Receives
  <2> HIDE DEF p
  <2>6. r = Append(p, c)
    BY <2>1 DEF p
  <2>3. /\ DOMAIN r = 1..(Len(p) + 1)
        /\ \A i \in 1..Len(p) : r[i] = p[i]
        /\ r[Len(p) + 1] = c
    BY <2>2, <2>6, Appends
  <2>7. \A j \in DOMAIN r : r[j].type = "data" => j \in 1..(Len(q) - 1)
    BY <1>1, <2>2, <2>3
  <2>4. \A j \in DOMAIN r : r[j].type = "data" =>
              /\ j + 1 \in DOMAIN q /\ r[j] = q[j + 1]
              /\ \A i \in 1..(j - 1) : i \in DOMAIN r
    BY <1>1, <2>2, <2>3, <2>7
  <2>5. DOMAIN r \subseteq Nat \ {0}
    BY <1>1, <2>2, <2>3
  <2> QED
    BY <2>4, <2>5 DEF q, r
<1> QED
  BY <1>2, <1>3

LEMMA AdvanceStays ==
  ASSUME TypeOK, WireInv, NEW s \in Stream, Advance(s), seen'[s] = seen[s], ch'[s] = ch[s],
         output'[s] \in Nat, output[s] <= output'[s],
         s \in streams' =>
            /\ s \in streams
            /\ \A k \in DOMAIN toHub' : OnWire(s, k)' =>
                 \E i \in DOMAIN toHub : OnWire(s, i) /\ toHub'[k] = toHub[i]
  PROVE  Advance(s)'
<1>1. Len(ch[s]) \in Nat /\ DOMAIN ch[s] = 1..Len(ch[s])
  BY Numbers
<1>2. DOMAIN ch'[s] \subseteq Nat \ {0}
  BY <1>1
<1>3. \A j \in DOMAIN ch'[s] : /\ j + 0 \in DOMAIN ch[s] /\ ch'[s][j] = ch[s][j + 0]
                               /\ \A i \in 1..(j - 1) : i \in DOMAIN ch'[s]
  BY <1>1
<1>4. \A d : d = 0 => \A j \in DOMAIN ch'[s] : j + d = j + 0
  OBVIOUS
<1>5. 0 \in {0, 1}
  OBVIOUS
<1> QED
  BY <1>2, <1>3, <1>5, AdvanceShifts

LEMMA AdvanceCloses ==
  ASSUME TypeOK, WireInv, NEW s \in Stream, Advance(s), seen'[s] = seen[s], output'[s] = output[s],
         s \notin streams', NEW e \in FromDevice, NEW c \in FromDevice, e.type = "close", c.type = "close",
         ch'[s] = IF Len(ch[s]) < Cap THEN Append(ch[s], e) ELSE Overflow(ch[s], c)
  PROVE  Advance(s)'
<1>1. output[s] \in Nat /\ output[s] <= output'[s]
  BY Numbers
<1>2. PICK d \in {0, 1} : \A j \in DOMAIN ch'[s] : ch'[s][j].type = "data" =>
              /\ j + d \in DOMAIN ch[s] /\ ch'[s][j] = ch[s][j + d]
              /\ \A i \in 1..(j - 1) : i \in DOMAIN ch'[s]
  BY AdvanceOverflows
<1>3. DOMAIN ch'[s] \subseteq Nat \ {0}
  BY AdvanceOverflows
<1> QED
  BY <1>1, <1>2, <1>3, AdvanceShifts

LEMMA AdvanceReads ==
  ASSUME TypeOK, WireInv, OrderInv, HubReads, NEW s \in Stream, Advance(s)
  PROVE  Advance(s)'
<1> DEFINE e == Head(toHub)
           c == Close(s, "overflow")
<1>1. /\ e \in FromDevice /\ e.id \in Stream /\ Delivered(e.id, e)
      /\ UNCHANGED <<seen, output>>
  BY Reads
<1>2. \A k \in DOMAIN toHub' : OnWire(s, k)' => \E i \in DOMAIN toHub : OnWire(s, i) /\ toHub'[k] = toHub[i]
  <2>1. /\ DOMAIN toHub = 1..Len(toHub) /\ Len(toHub) \in Nat
        /\ DOMAIN toHub' = 1..(Len(toHub) - 1)
        /\ \A i \in 1..(Len(toHub) - 1) : toHub'[i] = toHub[i + 1]
    BY Receives DEF HubReads, WireInv
  <2>2. \A k \in DOMAIN toHub' : k + 1 \in DOMAIN toHub /\ toHub'[k] = toHub[k + 1]
    BY <2>1
  <2> QED
    BY <2>2 DEF OnWire
<1>3. output[s] \in Nat /\ output[s] <= output'[s] /\ output'[s] \in Nat
  BY <1>1, Numbers
<1>4. CASE e.id # s \/ s \notin streams
  <2>1. ch'[s] = ch[s] /\ (s \in streams' => s \in streams)
    <3>1. CASE e.id \in streams
      BY <1>1, <1>4, <3>1, Delivers DEF Delivered
    <3>2. CASE e.id \notin streams
      BY <1>1, <3>2 DEF Delivered
    <3> QED
      BY <3>1, <3>2
  <2> QED
    BY <1>1, <1>2, <1>3, <2>1, AdvanceStays
<1>5. CASE e.id = s /\ s \in streams
  <2>1. /\ ch'[s] = IF Len(ch[s]) < Cap THEN Append(ch[s], e) ELSE Overflow(ch[s], c)
        /\ streams' = IF e.type = "close" \/ Len(ch[s]) = Cap THEN streams \ {s} ELSE streams
    BY <1>1, <1>5, Delivers DEF Delivered
  <2>2. c \in FromDevice /\ c.type = "close"
    BY Messages DEF Close, Reason
  <2>3. e.type = "data" \/ e.type = "close"
    BY <1>1 DEF FromDevice
  <2>4. CASE e.type = "close"
    BY <1>1, <2>1, <2>2, <2>4, AdvanceCloses
  <2>5. CASE e.type = "data" /\ Len(ch[s]) < Cap
    BY <1>5, <2>1, <2>5, AdvanceAppends
  <2>6. CASE ~(Len(ch[s]) < Cap)
    <3>1. Len(ch[s]) = Cap
      <4> DEFINE k == Len(ch[s])
      <4>1. k \in Nat /\ k <= Cap /\ ~(k < Cap)
        BY <2>6, Numbers DEF TypeOK
      <4> HIDE DEF k
      <4>2. k = Cap
        BY <4>1, Limits
      <4> QED
        BY <4>2 DEF k
    <3>2. ch'[s] = IF Len(ch[s]) < Cap THEN Append(ch[s], c) ELSE Overflow(ch[s], c)
      BY <2>1, <2>6
    <3>3. s \notin streams'
      BY <2>1, <3>1
    <3> QED
      BY <1>1, <2>2, <3>2, <3>3, AdvanceCloses
  <2> QED
    BY <2>3, <2>4, <2>5, <2>6
<1> QED
  BY <1>4, <1>5

LEMMA AdvanceFails ==
  ASSUME TypeOK, WireInv, FailAll, NEW s \in Stream, Advance(s)
  PROVE  Advance(s)'
<1>1. UNCHANGED <<seen, output>> /\ streams' = {}
  BY DEF FailAll, browserVars, ptyVars
<1>2. output[s] \in Nat /\ output[s] <= output'[s] /\ output'[s] \in Nat
  BY <1>1, Numbers
<1>3. CASE s \notin streams
  BY <1>1, <1>2, <1>3, Fails, AdvanceStays
<1>4. CASE s \in streams
  <2> DEFINE c == Close(s, "offline")
  <2>1. c \in FromDevice /\ c.type = "close"
    BY Messages DEF Close, Reason
  <2>2. ch'[s] = IF Len(ch[s]) < Cap THEN Append(ch[s], c) ELSE Overflow(ch[s], c)
    BY <1>4, Fails
  <2> QED
    BY <1>1, <2>1, <2>2, AdvanceCloses
<1> QED
  BY <1>3, <1>4

LEMMA AdvanceRelays ==
  ASSUME TypeOK, WireInv, NEW s \in Stream, RelayEvent(s), Advance(s)
  PROVE  Advance(s)'
<1> DEFINE q == ch[s]
           r == ch'[s]
           e == Head(q)
           w == seen'[s]
           v == seen[s]
<1>1. q # <<>> /\ r = Tail(q) /\ UNCHANGED <<streams, toHub, output>>
  BY DEF RelayEvent, TypeOK, WireInv, wires, ptyVars
<1>2. /\ e = q[1] /\ e \in FromDevice
      /\ e.type # "close" => e.n \in 1..MaxOutput /\ e.type = "data"
      /\ Len(q) \in Nat /\ Len(q) > 0
      /\ DOMAIN q = 1..Len(q) /\ DOMAIN r = 1..(Len(q) - 1)
      /\ \A i \in 1..(Len(q) - 1) : r[i] = q[i + 1]
  BY <1>1, Relays DEF FromDevice
<1>3. /\ 1 \in DOMAIN q
      /\ \A j \in DOMAIN r : /\ j \in Nat \ {0} /\ j + 1 \in DOMAIN q /\ r[j] = q[j + 1]
                             /\ \A i \in 1..(j - 1) : i \in DOMAIN r /\ i + 1 \in 1..((j + 1) - 1)
                             /\ 1 \in 1..((j + 1) - 1)
  BY <1>2
<1>4. output[s] \in Nat /\ output[s] <= output'[s] /\ output'[s] \in Nat
  BY <1>1, Numbers
<1>5. CASE e.type = "close"
  <2>1. UNCHANGED seen
    BY <1>5 DEF RelayEvent
  <2>2. DOMAIN ch'[s] \subseteq Nat \ {0}
    BY <1>3
  <2>3. \A j \in DOMAIN ch'[s] : ch'[s][j].type = "data" =>
              /\ j + 1 \in DOMAIN ch[s] /\ ch'[s][j] = ch[s][j + 1]
              /\ \A i \in 1..(j - 1) : i \in DOMAIN ch'[s]
    BY <1>3
  <2>4. \A k \in DOMAIN toHub' : OnWire(s, k)' => \E i \in DOMAIN toHub : OnWire(s, i) /\ toHub'[k] = toHub[i]
    BY <1>1 DEF OnWire
  <2>5. 1 \in {0, 1}
    OBVIOUS
  <2> QED
    BY <1>1, <1>4, <2>1, <2>2, <2>3, <2>4, <2>5, AdvanceShifts
<1>6. CASE e.type # "close"
  <2>1. w = Append(v, e.n) /\ v \in Seq(1..MaxOutput) /\ e.n \in 1..MaxOutput /\ e.type = "data"
    BY <1>2, <1>6 DEF RelayEvent, TypeOK
  <2> HIDE DEF v, w, q, r, e
  <2>2. \A i \in DOMAIN w : w[i] = e.n \/ (i \in DOMAIN v /\ w[i] = v[i])
    <3>1. /\ DOMAIN v = 1..Len(v) /\ DOMAIN w = 1..(Len(v) + 1) /\ Len(v) \in Nat
          /\ \A i \in 1..Len(v) : w[i] = v[i]
          /\ w[Len(v) + 1] = e.n
      BY <2>1, Appends
    <3> QED
      BY <3>1
  <2>3. ASSUME NEW n, Passed(s, n)
        PROVE  Passed(s, n)'
    <3>1. e.n < n
      BY <1>2, <1>3, <2>1, <2>3 DEF Passed, q
    <3>2. \A i \in DOMAIN w : w[i] < n
      BY <2>2, <2>3, <3>1 DEF Passed, v
    <3>3. \A i \in DOMAIN r : r[i].type = "data" => r[i].n < n
      BY <1>3, <2>3 DEF Passed, q
    <3> QED
      BY <3>2, <3>3 DEF Passed, w, r
  <2>a. \A n : Passed(s, n) => /\ \A i \in DOMAIN seen'[s] : seen'[s][i] < n
                               /\ \A i \in DOMAIN ch'[s] : ch'[s][i].type = "data" => ch'[s][i].n < n
    BY <2>3 DEF Passed
  <2>4. Passed(s, output[s] + 1)'
    <3>1. Passed(s, output[s] + 1) /\ output' = output
      BY <1>1 DEF Advance
    <3> QED
      BY <2>a, <3>1 DEF Passed
  <2>5. s \in streams' => \A k \in DOMAIN toHub' : OnWire(s, k)' => Passed(s, toHub[k].n)'
    <3>1. ASSUME s \in streams', NEW k \in DOMAIN toHub', OnWire(s, k)'
          PROVE  Passed(s, toHub[k].n)'
      <4>1. s \in streams /\ k \in DOMAIN toHub /\ OnWire(s, k) /\ toHub'[k].n = toHub[k].n
        BY <1>1, <3>1 DEF OnWire
      <4>2. Passed(s, toHub[k].n)
        BY <4>1 DEF Advance
      <4> QED
        BY <2>a, <4>1, <4>2 DEF Passed
    <3> QED
      BY <3>1
  <2>6. ASSUME NEW j \in DOMAIN r, r[j].type = "data"
        PROVE  /\ \A i \in DOMAIN w : w[i] < r[j].n
               /\ \A i \in 1..(j - 1) : r[i].type = "data" => r[i].n < r[j].n
    <3>1. /\ \A i \in DOMAIN v : v[i] < q[j + 1].n
          /\ \A i \in 1..((j + 1) - 1) : q[i].type = "data" => q[i].n < q[j + 1].n
      BY <1>3, <2>6 DEF Advance, q, v
    <3>2. e.n < r[j].n
      BY <1>2, <1>3, <2>1, <3>1
    <3>3. \A i \in DOMAIN w : w[i] < r[j].n
      BY <1>3, <2>2, <3>1, <3>2
    <3>4. \A i \in 1..(j - 1) : r[i].type = "data" => r[i].n < r[j].n
      BY <1>3, <3>1
    <3> QED
      BY <3>3, <3>4
  <2> QED
    <3>1. Advance(s)' <=>
            /\ Passed(s, output[s] + 1)'
            /\ s \in streams' => \A k \in DOMAIN toHub' : OnWire(s, k)' => Passed(s, toHub[k].n)'
            /\ \A j \in DOMAIN r : r[j].type = "data" =>
                 /\ \A i \in DOMAIN w : w[i] < r[j].n
                 /\ \A i \in 1..(j - 1) : r[i].type = "data" => r[i].n < r[j].n
      BY DEF Advance, r, w
    <3> QED
      BY <2>4, <2>5, <2>6, <3>1
<1> QED
  BY <1>5, <1>6

\* A step of the connector adds to the wire, behind what was written before.
LEMMA AdvanceWrites ==
  ASSUME TypeOK, WireInv, NEW s \in Stream, Advance(s), seen'[s] = seen[s], ch'[s] = ch[s],
         streams' = streams, [Next]_vars, ~HubReads
  PROVE  Advance(s)'
<1>1. CASE UNCHANGED <<toHub, output>>
  <2>1. output'[s] \in Nat /\ output[s] <= output'[s]
    BY <1>1, Numbers
  <2> QED
    BY <1>1, <2>1, AdvanceStays DEF OnWire
<1>2. ASSUME NEW m \in FromDevice, toHub' = Append(toHub, m)
      PROVE  \A i \in DOMAIN toHub' : toHub'[i] = m \/ (i \in DOMAIN toHub /\ toHub'[i] = toHub[i])
  <2>1. toHub \in Seq(FromDevice)
    BY DEF WireInv
  <2>2. /\ Len(toHub) \in Nat /\ DOMAIN toHub = 1..Len(toHub) /\ DOMAIN toHub' = 1..(Len(toHub) + 1)
        /\ \A i \in 1..Len(toHub) : toHub'[i] = toHub[i]
        /\ toHub'[Len(toHub) + 1] = m
    BY <1>2, <2>1, Appends
  <2> QED
    BY <2>2
<1>3. ASSUME NEW m \in FromDevice, m.type = "close", toHub' = Append(toHub, m), UNCHANGED output
      PROVE  Advance(s)'
  <2>1. output'[s] \in Nat /\ output[s] <= output'[s]
    BY <1>3, Numbers
  <2>2. \A k \in DOMAIN toHub' : OnWire(s, k)' => \E i \in DOMAIN toHub : OnWire(s, i) /\ toHub'[k] = toHub[i]
    BY <1>2, <1>3 DEF OnWire
  <2> QED
    BY <2>1, <2>2, AdvanceStays
<1>4. ASSUME NEW t \in Stream, Data(t, output[t] + 1) \in FromDevice,
             toHub' = Append(toHub, Data(t, output[t] + 1)),
             output' = [output EXCEPT ![t] = @ + 1]
      PROVE  Advance(s)'
  <2> DEFINE m == Data(t, output[t] + 1)
  <2>1. m \in FromDevice /\ m.type = "data" /\ m.id = t /\ m.n = output[t] + 1 /\ toHub' = Append(toHub, m)
    BY <1>4 DEF Data
  <2> HIDE DEF m
  <2>2. \A i \in DOMAIN toHub' : toHub'[i] = m \/ (i \in DOMAIN toHub /\ toHub'[i] = toHub[i])
    BY <1>2, <2>1
  <2>3. output'[s] = IF s = t THEN output[s] + 1 ELSE output[s]
    BY <1>4 DEF TypeOK
  <2>4. \A n : Passed(s, n)' <=> Passed(s, n)
    BY DEF Passed
  <2>5. Passed(s, output'[s] + 1)
    BY <2>3, Numbers DEF Advance, Passed
  <2>6. Passed(s, output[s] + 1)'
    BY <2>5 DEF Passed
  <2>7. ASSUME s \in streams', NEW k \in DOMAIN toHub', OnWire(s, k)'
        PROVE  Passed(s, toHub[k].n)'
    <3>1. CASE k \in DOMAIN toHub /\ toHub'[k] = toHub[k]
      <4>1. Passed(s, toHub[k].n)
        BY <2>7, <3>1 DEF OnWire, Advance
      <4> QED
        BY <3>1, <4>1 DEF Passed
    <3>2. CASE toHub'[k] = m
      <4>1. s = t
        BY <2>1, <2>7, <3>2 DEF OnWire
      <4>2. Passed(s, output[s] + 1) /\ toHub'[k].n = output[s] + 1
        BY <2>1, <3>2, <4>1 DEF Advance
      <4> QED
        BY <4>2 DEF Passed
    <3> QED
      BY <2>2, <3>1, <3>2
  <2> QED
    BY <2>6, <2>7 DEF Advance
<1> QED
  BY <1>1, <1>3, <1>4, ToHubWrites

LEMMA AdvanceStep ==
  ASSUME TypeOK, WireInv, IdleInv, OrderInv, AdvanceInv, [Next]_vars
  PROVE  AdvanceInv'
<1> SUFFICES ASSUME NEW s \in Stream, Advance(s) PROVE Advance(s)'
  BY DEF AdvanceInv
<1>1. CASE HubReads
  BY <1>1, AdvanceReads
<1>2. CASE FailAll
  BY <1>2, AdvanceFails
<1>3. ASSUME NEW t \in Stream, HandlerAct(t)
      PROVE  Advance(s)'
  <2>1. UNCHANGED <<toHub, output>>
    BY <1>3, HubFrame DEF HandlerAct, AddStream, SendOpen, SendOpenFails, RelayEvent, BrowserLeaves,
                          RemoveStream, SendClose, wires, ptyVars
  <2>2. CASE RelayEvent(s)
    BY <2>2, AdvanceRelays
  <2>3. CASE AddStream(s)
    <3>1. ch'[s] = <<>> /\ seen'[s] = <<>>
      BY <2>3 DEF AddStream, IdleInv
    <3> QED
      BY <3>1 DEF Advance, Passed
  <2>4. CASE ~RelayEvent(s) /\ ~AddStream(s)
    <3>1. seen'[s] = seen[s] /\ ch'[s] = ch[s] /\ (s \in streams' => s \in streams)
      BY <1>3, <2>4 DEF TypeOK, HandlerAct, AddStream, SendOpen, SendOpenFails, RelayEvent, BrowserLeaves,
                        RemoveStream, SendClose
    <3>2. output'[s] \in Nat /\ output[s] <= output'[s]
      BY <2>1, Numbers
    <3> QED
      BY <2>1, <3>1, <3>2, AdvanceStays DEF OnWire
  <2> QED
    BY <2>2, <2>3, <2>4
<1>4. CASE UNCHANGED <<handler, seen, ending, skipped, streams, ch>> /\ ~HubReads
  BY <1>4, AdvanceWrites
<1> QED
  BY <1>1, <1>2, <1>3, <1>4, BrowserFrame

-------------------------------------------------------------------------------
(* The end of a stream *)

\* A stream that ended stays so, and if its client exited it has no more output.
EndInv == \A s \in Stream : ending[s] # NoReason =>
  /\ handler[s] \in {"stopping", "closing", "done"} /\ s \notin streams
  /\ ending[s] = "exited" => reader[s] = "done"

\* The report of an exit follows all output of its stream on the wire.
Exited(m, s) == m.type = "close" /\ m.id = s /\ m.reason = "exited"

ExitOnWire(s) == \A i \in DOMAIN toHub : Exited(toHub[i], s) =>
  /\ reader[s] = "done"
  /\ \A j \in DOMAIN toHub : OnWire(s, j) => j < i

\* A channel that ends with it holds all that the browser has not seen.
ExitInChannel(s) == ch[s] # <<>> /\ Last(ch[s]).reason = "exited" =>
  /\ reader[s] = "done"
  /\ handler[s] = "relaying" => Len(seen[s]) + Len(ch[s]) = output[s] + 1

ExitInv == \A s \in Stream : ExitOnWire(s) /\ ExitInChannel(s)

\* A close at the head of a channel is all there is.
LEMMA ClosesAlone ==
  ASSUME TypeOK, WireInv, CloseIsLast, NEW s \in Stream, ch[s] # <<>>, Head(ch[s]).type = "close"
  PROVE  /\ Len(ch[s]) = 1 /\ Tail(ch[s]) = <<>> /\ Last(ch[s]) = Head(ch[s]) /\ s \notin streams
         /\ Head(ch[s]).reason \in Reason
<1>1. /\ Head(ch[s]) = ch[s][1] /\ Tail(ch[s]) \in Seq(FromDevice) /\ Len(ch[s]) \in Nat
      /\ 1 \in DOMAIN ch[s] /\ Len(Tail(ch[s])) = Len(ch[s]) - 1
      /\ Head(ch[s]).reason \in Reason
  <2>1. /\ Head(ch[s]) = ch[s][1] /\ Tail(ch[s]) \in Seq(FromDevice) /\ Len(ch[s]) \in Nat
        /\ DOMAIN ch[s] = 1..Len(ch[s]) /\ Len(ch[s]) > 0 /\ Len(Tail(ch[s])) = Len(ch[s]) - 1
        /\ Head(ch[s]).reason \in Reason
    BY Relays
  <2> QED
    BY <2>1
<1>2. 1 = Len(ch[s]) /\ s \notin streams
  BY <1>1 DEF CloseIsLast
<1>3. Len(Tail(ch[s])) = 0
  BY <1>1, <1>2
<1> QED
  BY <1>1, <1>2, <1>3, EmptySeq DEF Last

LEMMA EndStep ==
  ASSUME TypeOK, WireInv, CloseIsLast, OnceInv, EndInv, ExitInv, [Next]_vars
  PROVE  EndInv'
<1> SUFFICES ASSUME NEW s \in Stream, ending'[s] # NoReason
             PROVE  /\ handler'[s] \in {"stopping", "closing", "done"} /\ s \notin streams'
                    /\ ending'[s] = "exited" => reader'[s] = "done"
  BY DEF EndInv
<1>1. ASSUME ending'[s] = ending[s],
             handler[s] \in {"stopping", "closing", "done"} => handler'[s] \in {"stopping", "closing", "done"},
             handler[s] # "idle" /\ s \in streams' => s \in streams
      PROVE  /\ handler'[s] \in {"stopping", "closing", "done"} /\ s \notin streams'
             /\ ending'[s] = "exited" => reader'[s] = "done"
  BY <1>1, DoneStays DEF EndInv
<1>2. CASE HubReads
  <2>1. UNCHANGED <<handler, ending>> /\ streams' \subseteq streams
    BY <1>2, Reads DEF Delivered
  <2> QED
    BY <1>1, <2>1
<1>3. CASE FailAll
  BY <1>1, <1>3 DEF FailAll, browserVars
<1>4. CASE UNCHANGED <<handler, seen, ending, skipped, streams, ch>>
  BY <1>1, <1>4
<1>5. ASSUME NEW t \in Stream, HandlerAct(t)
      PROVE  /\ handler'[s] \in {"stopping", "closing", "done"} /\ s \notin streams'
             /\ ending'[s] = "exited" => reader'[s] = "done"
  <2>1. CASE RelayEvent(s) /\ Head(ch[s]).type = "close"
    <3>1. /\ ch[s] # <<>> /\ ending'[s] = Head(ch[s]).reason /\ handler'[s] = "stopping"
          /\ streams' = streams
      BY <2>1 DEF RelayEvent, TypeOK
    <3>2. s \notin streams /\ Last(ch[s]) = Head(ch[s])
      BY <2>1, <3>1, ClosesAlone
    <3>3. ending'[s] = "exited" => reader[s] = "done"
      BY <3>1, <3>2 DEF ExitInv, ExitInChannel
    <3> QED
      BY <3>1, <3>2, <3>3, DoneStays
  <2>2. CASE ~(RelayEvent(s) /\ Head(ch[s]).type = "close")
    <3>1. /\ ending'[s] = ending[s]
          /\ handler[s] \in {"stopping", "closing", "done"} => handler'[s] \in {"stopping", "closing", "done"}
          /\ handler[s] # "idle" /\ s \in streams' => s \in streams
      BY <1>5, <2>2 DEF TypeOK, HandlerAct, AddStream, SendOpen, SendOpenFails, RelayEvent, BrowserLeaves,
                        RemoveStream, SendClose
    <3> QED
      BY <1>1, <3>1
  <2> QED
    BY <2>1, <2>2
<1> QED
  BY <1>2, <1>3, <1>4, <1>5, BrowserFrame

LEMMA ExitWireStep ==
  ASSUME TypeOK, WireInv, OnceInv, NEW s \in Stream, ExitOnWire(s), [Next]_vars
  PROVE  ExitOnWire(s)'
<1>0. toHub \in Seq(FromDevice)
  BY DEF WireInv
<1>1. CASE UNCHANGED toHub
  BY <1>1, DoneStays DEF ExitOnWire, OnWire
<1>2. CASE HubReads
  <2>1. /\ DOMAIN toHub' = 1..(Len(toHub) - 1) /\ DOMAIN toHub = 1..Len(toHub) /\ Len(toHub) \in Nat
        /\ \A i \in 1..(Len(toHub) - 1) : toHub'[i] = toHub[i + 1]
    BY <1>0, <1>2, Receives DEF HubReads
  <2>2. \A i \in DOMAIN toHub' : i + 1 \in DOMAIN toHub /\ toHub'[i] = toHub[i + 1]
    BY <2>1
  <2>3. \A i, j \in DOMAIN toHub' : j + 1 < i + 1 => j < i
    BY <2>1
  <2> QED
    BY <2>2, <2>3, DoneStays DEF ExitOnWire, OnWire
<1>3. ASSUME NEW m \in FromDevice, toHub' = Append(toHub, m),
             Exited(m, s) => reader'[s] = "done",
             m.type = "data" /\ m.id = s => reader[s] # "done"
      PROVE  ExitOnWire(s)'
  <2>1. /\ Len(toHub) \in Nat /\ DOMAIN toHub = 1..Len(toHub) /\ DOMAIN toHub' = 1..(Len(toHub) + 1)
        /\ \A i \in 1..Len(toHub) : toHub'[i] = toHub[i]
        /\ toHub'[Len(toHub) + 1] = m
    BY <1>0, <1>3, Appends
  <2> SUFFICES ASSUME NEW i \in DOMAIN toHub', Exited(toHub'[i], s)
               PROVE  /\ reader'[s] = "done"
                      /\ \A j \in DOMAIN toHub' : OnWire(s, j)' => j < i
    BY DEF ExitOnWire, Exited
  <2>2. CASE i \in DOMAIN toHub
    <3>1. /\ reader[s] = "done" /\ reader'[s] = "done"
          /\ \A j \in DOMAIN toHub : OnWire(s, j) => j < i
      BY <2>1, <2>2, DoneStays DEF ExitOnWire
    <3>2. \A j \in DOMAIN toHub' : OnWire(s, j)' => j \in DOMAIN toHub /\ OnWire(s, j)
      BY <1>3, <2>1, <3>1 DEF OnWire
    <3> QED
      BY <3>1, <3>2
  <2>3. CASE i \notin DOMAIN toHub
    <3>1. i = Len(toHub) + 1 /\ toHub'[i] = m /\ m.type = "close"
      BY <2>1, <2>3 DEF Exited
    <3>2. \A j \in DOMAIN toHub' : OnWire(s, j)' => j # i
      BY <3>1 DEF OnWire
    <3>3. \A j \in DOMAIN toHub' : j # i => j < i
      BY <2>1, <3>1
    <3> QED
      BY <1>3, <3>1, <3>2, <3>3
  <2> QED
    BY <2>2, <2>3
<1>4. CASE (StartAttach \/ Input) /\ ~UNCHANGED toHub
  <2>1. \E m \in FromDevice : toHub' = Append(toHub, m) /\ m.type = "close" /\ ~Exited(m, s)
    <3>1. /\ Close(msg.id, "openFailed") \in FromDevice /\ Close(msg.id, "inputFailed") \in FromDevice
          /\ \A r : Close(msg.id, r).type = "close" /\ Close(msg.id, r).reason = r
      BY <1>4, Messages DEF StartAttach, Input, Handling, WireInv, Message, Reason, Close
    <3> QED
      BY <1>4, <3>1 DEF StartAttach, Input, Send, Exited
  <2> QED
    BY <1>3, <2>1
<1>5. ASSUME NEW t \in Stream, Output(t)
      PROVE  ExitOnWire(s)'
  <2>1. output[t] + 1 \in 1..MaxOutput
    BY <1>5, Limits DEF Output, TypeOK
  <2>2. Data(t, output[t] + 1) \in FromDevice
    BY <2>1, Messages
  <2>3. Data(t, output[t] + 1).type = "data" /\ Data(t, output[t] + 1).id = t
    BY DEF Data
  <2> QED
    BY <1>3, <1>5, <2>2, <2>3 DEF Output, Exited
<1>6. ASSUME NEW t \in Stream, ReportExit(t), ~UNCHANGED toHub
      PROVE  ExitOnWire(s)'
  <2>1. Close(t, "exited") \in FromDevice /\ Close(t, "exited").type = "close" /\ Close(t, "exited").id = t
    BY Messages DEF Reason, Close
  <2>2. toHub' = Append(toHub, Close(t, "exited")) /\ reader'[t] = "done"
    BY <1>6 DEF ReportExit, Send, TypeOK
  <2> QED
    BY <1>3, <2>1, <2>2 DEF Exited
<1> QED
  BY <1>1, <1>2, <1>4, <1>5, <1>6, ToHubFrame

\* The report of an exit arrives: what the hub had of the stream is all there was.
LEMMA ExitReads ==
  ASSUME IInv, EndInv, NEW s \in Stream, ExitOnWire(s), ExitInChannel(s), HubReads
  PROVE  ExitInChannel(s)'
<1> USE DEF IInv
<1> DEFINE e == Head(toHub)
           c == Close(s, "overflow")
<1>1. /\ e \in FromDevice /\ e.id \in Stream /\ Delivered(e.id, e)
      /\ UNCHANGED <<handler, seen, ending, output>>
  BY Reads
<1>2. reader' = reader
  BY DEF HubReads, ptyVars
<1>3. CASE e.id # s \/ s \notin streams
  <2>1. ch'[s] = ch[s]
    <3>1. CASE e.id \in streams
      BY <1>1, <1>3, <3>1, Delivers
    <3>2. CASE e.id \notin streams
      BY <1>1, <3>2 DEF Delivered
    <3> QED
      BY <3>1, <3>2
  <2> QED
    BY <1>1, <1>2, <2>1 DEF ExitInChannel, Last
<1>4. CASE e.id = s /\ s \in streams
  <2> DEFINE q == ch[s]
             r == ch'[s]
             a == Len(seen[s])
  <2>1. /\ r = IF Len(q) < Cap THEN Append(q, e) ELSE Overflow(q, c)
        /\ q \in Seq(FromDevice) /\ r \in Seq(FromDevice) /\ c \in FromDevice /\ Len(q) <= Cap
    BY <1>1, <1>4, Delivers, Messages, Numbers DEF Reason, TypeOK
  <2>2. Len(q) < Cap \/ Len(q) = Cap
    <3> DEFINE k == Len(q)
    <3>1. k \in Nat /\ k <= Cap
      BY <2>1, LenProperties
    <3> HIDE DEF k
    <3>2. k < Cap \/ k = Cap
      BY <3>1, Limits
    <3> QED
      BY <3>2 DEF k
  <2>3. a \in Nat /\ Len(q) \in Nat /\ output[s] \in Nat
    BY Numbers, LenProperties
  <2>4. /\ Len(r) \in Nat /\ Len(r) > 0
        /\ Len(q) < Cap => Len(r) = Len(q) + 1 /\ r[Len(r)] = e
        /\ Len(q) = Cap => r[Len(r)] = c
    <3> HIDE DEF q, r, e, c
    <3> QED
      BY <1>1, <2>1, Drains
  <2>5. Last(r) = r[Len(r)] /\ c.reason = "overflow"
    BY DEF Last, Close
  <2>6. CASE Len(q) < Cap /\ e.reason = "exited"
    <3>1. e.type = "close" /\ e = toHub[1] /\ 1 \in DOMAIN toHub /\ \A i \in DOMAIN toHub : i >= 1
      <4>1. e = toHub[1] /\ DOMAIN toHub = 1..Len(toHub) /\ Len(toHub) \in Nat /\ Len(toHub) > 0
        BY Receives DEF HubReads, WireInv
      <4>2. e.type = "close"
        BY <1>1, <2>6 DEF FromDevice, NoReason
      <4> HIDE DEF e
      <4> QED
        BY <4>1, <4>2
    <3>2. reader[s] = "done" /\ \A j \in DOMAIN toHub : ~OnWire(s, j)
      <4>1. Exited(toHub[1], s)
        BY <1>4, <2>6, <3>1 DEF Exited
      <4>2. reader[s] = "done" /\ \A j \in DOMAIN toHub : OnWire(s, j) => j < 1
        BY <3>1, <4>1 DEF ExitOnWire
      <4>3. \A j \in DOMAIN toHub : ~(j < 1)
        <5>1. DOMAIN toHub = 1..Len(toHub)
          BY LenProperties DEF WireInv
        <5> QED
          BY <5>1
      <4> QED
        BY <4>2, <4>3
    <3>3. ASSUME handler[s] = "relaying"
          PROVE  a + Len(q) = output[s]
      <4>1. Expected(s)
        <5>1. ending[s] = NoReason
          BY <3>3 DEF EndInv
        <5>2. ~Told(s)
          BY <1>4, <3>3, <5>1, ToldByLast DEF Told, NoReason
        <5> QED
          BY <1>4, <3>3, <5>2 DEF FlowInv
      <4> DEFINE got == a + Len(q)
      <4>2. got <= output[s] /\ \A n \in (got + 1)..output[s] : \E i \in DOMAIN toHub : OnWire(s, i)
        BY <4>1 DEF Expected, OnWire
      <4>3. got \in Nat
        <5> DEFINE k == Len(q)
        <5>1. a \in Nat /\ k \in Nat
          BY <2>3
        <5> HIDE DEF a, k, q
        <5>2. a + k \in Nat
          BY <5>1
        <5> QED
          BY <5>2 DEF k
      <4> HIDE DEF got
      <4>4. ~(got < output[s])
        <5>1. got < output[s] => got + 1 \in (got + 1)..output[s]
          BY <2>3, <4>3
        <5> QED
          BY <3>2, <4>2, <5>1
      <4>5. got = output[s]
        BY <2>3, <4>2, <4>3, <4>4
      <4> QED
        BY <4>5 DEF got
    <3>4. handler[s] = "relaying" => a + Len(r) = output[s] + 1
      <4> DEFINE k == Len(q)
                 l == Len(r)
                 o == output[s]
      <4>1. /\ k \in Nat /\ l = k + 1 /\ o \in Nat /\ (handler[s] = "relaying" => a + k = o)
        BY <2>3, <2>4, <2>6, <3>3
      <4>2. a \in Nat
        BY <2>3
      <4> HIDE DEF a, k, l, o
      <4>3. handler[s] = "relaying" => a + l = o + 1
        BY <4>1, <4>2
      <4> QED
        BY <4>3 DEF l, o
    <3> QED
      BY <1>1, <1>2, <3>2, <3>4 DEF ExitInChannel
  <2>7. CASE ~(Len(q) < Cap /\ e.reason = "exited")
    <3>1. Last(r).reason # "exited"
      BY <2>2, <2>4, <2>5, <2>7
    <3> QED
      BY <3>1 DEF ExitInChannel
  <2> QED
    BY <2>6, <2>7
<1> QED
  BY <1>3, <1>4

LEMMA ExitRelays ==
  ASSUME TypeOK, WireInv, CloseIsLast, OnceInv, NEW s \in Stream, ExitInChannel(s), RelayEvent(s), [Next]_vars
  PROVE  ExitInChannel(s)'
<1> DEFINE q == ch[s]
           r == ch'[s]
<1>1. q # <<>> /\ r = Tail(q) /\ output' = output
  BY DEF RelayEvent, WireInv, ptyVars
<1>2. CASE Head(q).type = "close"
  BY <1>1, <1>2, ClosesAlone DEF ExitInChannel
<1>3. CASE Head(q).type # "close"
  <2>1. /\ UNCHANGED <<handler, ending>> /\ seen'[s] = Append(seen[s], Head(q).n)
        /\ seen[s] \in Seq(1..MaxOutput) /\ Head(q).n \in 1..MaxOutput
    BY <1>1, <1>3, Relays DEF RelayEvent, TypeOK
  <2>2. Len(seen'[s]) = Len(seen[s]) + 1 /\ Len(seen[s]) \in Nat
    BY <2>1, AppendProperties, LenProperties
  <2>3. /\ Len(q) \in Nat /\ Len(q) > 0 /\ Len(r) = Len(q) - 1 /\ r \in Seq(FromDevice)
        /\ \A i \in 1..(Len(q) - 1) : r[i] = q[i + 1]
    BY <1>1, Relays
  <2>4. r # <<>> => Last(r) = Last(q)
    <3>1. r # <<>> => Len(r) > 0
      BY <2>3, EmptySeq, LenProperties
    <3>2. Len(r) > 0 => r[Len(r)] = q[Len(q)]
      <4> DEFINE l == Len(r)
                 k == Len(q)
      <4>1. k \in Nat /\ l = k - 1 /\ (\A i \in 1..(k - 1) : r[i] = q[i + 1])
        BY <2>3
      <4> HIDE DEF l, k, q, r
      <4>2. l > 0 => r[l] = q[k]
        BY <4>1
      <4> QED
        BY <4>2 DEF l, k
    <3> QED
      BY <3>1, <3>2 DEF Last
  <2>5. Len(seen'[s]) + Len(r) = Len(seen[s]) + Len(q)
    <3> DEFINE a == Len(seen[s])
               k == Len(q)
               l == Len(r)
               b == Len(seen'[s])
    <3>1. a \in Nat /\ k \in Nat /\ l = k - 1 /\ b = a + 1
      BY <2>2, <2>3
    <3> HIDE DEF a, b, k, l
    <3>2. b + l = a + k
      BY <3>1
    <3> QED
      BY <3>2 DEF a, b, k, l
  <2> QED
    BY <1>1, <2>1, <2>4, <2>5, DoneStays DEF ExitInChannel
<1> QED
  BY <1>2, <1>3

LEMMA ExitStep ==
  ASSUME IInv, OnceInv, EndInv, ExitInv, [Next]_vars
  PROVE  ExitInv'
<1> USE DEF IInv
<1> SUFFICES ASSUME NEW s \in Stream, ExitOnWire(s), ExitInChannel(s)
             PROVE  ExitInChannel(s)'
  BY ExitWireStep DEF ExitInv
<1>1. ASSUME ch'[s] = ch[s], seen'[s] = seen[s], handler'[s] = "relaying" /\ reader[s] = "done" => handler[s] = "relaying"
      PROVE  ExitInChannel(s)'
  BY <1>1, DoneStays DEF ExitInChannel, Last
<1>2. CASE HubReads
  BY <1>2, ExitReads
<1>3. CASE FailAll
  <2>1. CASE s \notin streams
    BY <1>1, <1>3, <2>1, Fails DEF FailAll, browserVars
  <2>2. CASE s \in streams
    <3> DEFINE q == ch[s]
               r == ch'[s]
               c == Close(s, "offline")
    <3>1. q \in Seq(FromDevice) /\ Len(q) <= Cap /\ c \in FromDevice /\ c.reason = "offline"
          /\ r = IF Len(q) < Cap THEN Append(q, c) ELSE Overflow(q, c)
      BY <1>3, <2>2, Fails, Messages DEF TypeOK, WireInv, Reason, Close
    <3>2. Len(q) < Cap \/ Len(q) = Cap
      <4> DEFINE k == Len(q)
      <4>1. k \in Nat /\ k <= Cap
        BY <3>1, LenProperties
      <4> HIDE DEF k
      <4>2. k < Cap \/ k = Cap
        BY <4>1, Limits
      <4> QED
        BY <4>2 DEF k
    <3> HIDE DEF q, r, c
    <3>3. r[Len(r)] = c
      BY <3>1, <3>2, Drains
    <3>4. Last(r).reason = "offline"
      BY <3>1, <3>3 DEF Last
    <3> QED
      BY <3>4 DEF ExitInChannel, r
  <2> QED
    BY <2>1, <2>2
<1>4. CASE UNCHANGED <<handler, seen, ending, skipped, streams, ch>>
  BY <1>1, <1>4
<1>5. ASSUME NEW t \in Stream, HandlerAct(t)
      PROVE  ExitInChannel(s)'
  <2>1. CASE RelayEvent(s)
    BY <2>1, ExitRelays
  <2>2. CASE ~RelayEvent(s)
    <3>1. ch'[s] = ch[s] /\ seen'[s] = seen[s]
      BY <1>5, <2>2 DEF TypeOK, HandlerAct, AddStream, SendOpen, SendOpenFails, RelayEvent, BrowserLeaves,
                        RemoveStream, SendClose
    <3>2. handler'[s] = "relaying" => handler[s] \in {"opening", "relaying"}
      BY <1>5, <2>2 DEF TypeOK, HandlerAct, AddStream, SendOpen, SendOpenFails, RelayEvent, BrowserLeaves,
                        RemoveStream, SendClose
    <3>3. handler[s] = "opening" => reader[s] = "none"
      BY DEF FreshInv
    <3> QED
      BY <1>1, <3>1, <3>2, <3>3
  <2> QED
    BY <2>1, <2>2
<1> QED
  BY <1>2, <1>3, <1>4, <1>5, BrowserFrame

-------------------------------------------------------------------------------
(* The refinement of TerminalOutput *)

\* What the refinement needs to know of a reachable state.
PromiseInv == IInv /\ OnceInv /\ AdvanceInv /\ EndInv /\ ExitInv

LEMMA PromiseInvInit == Init => PromiseInv
<1> SUFFICES ASSUME Init PROVE PromiseInv
  OBVIOUS
<1>1. /\ toHub = <<>> /\ toDevice = <<>> /\ streams = {} /\ loop = "reading"
      /\ \A s \in Stream : /\ ch[s] = <<>> /\ seen[s] = <<>> /\ ending[s] = NoReason
                           /\ reader[s] = "none"
  BY DEF Init
<1>2. OnceInv
  BY <1>1 DEF OnceInv, Unrepeated, Opens
<1>3. AdvanceInv
  BY <1>1 DEF AdvanceInv, Advance, Passed
<1>4. EndInv
  BY <1>1 DEF EndInv
<1>5. ExitInv
  <2>1. DOMAIN toHub = {}
    BY <1>1
  <2>2. \A s \in Stream : ExitOnWire(s)
    BY <2>1 DEF ExitOnWire
  <2>3. \A s \in Stream : ExitInChannel(s)
    BY <1>1 DEF ExitInChannel
  <2> QED
    BY <2>2, <2>3 DEF ExitInv
<1> QED
  BY <1>2, <1>3, <1>4, <1>5, InitSound DEF PromiseInv

LEMMA PromiseInvStep == PromiseInv /\ [Next]_vars => PromiseInv'
BY InvStep, OnceStep, AdvanceStep, EndStep, ExitStep DEF PromiseInv, IInv

LEMMA PromiseInvariance == Spec => []PromiseInv
BY PromiseInvInit, PromiseInvStep, PTL DEF Spec

LEMMA LostStays ==
  ASSUME NEW s \in Stream, ch'[s] = ch[s], ending'[s] = ending[s]
  PROVE  Lost(s)' = Lost(s)
BY DEF Lost, Last

\* Streams that are not removed may be lost, all at once, and nothing else happens to them.
LEMMA PromiseLoses ==
  ASSUME PromiseInv, UNCHANGED <<output, seen, ending>>,
         \A s \in Stream \ streams : ch'[s] = ch[s]
  PROVE  Promise!Next
<1> USE DEF PromiseInv, IInv
<1> DEFINE S == {s \in Stream : Lost(s)' /\ ~Lost(s)}
<1>1. ASSUME NEW s \in S PROVE ending[s] = NoReason
  <2>1. s \in streams
    BY <1>1, LostStays
  <2> QED
    BY <1>1, <2>1 DEF EndInv
<1>2. ASSUME NEW s \in Stream PROVE Lost(s)' = (Lost(s) \/ s \in S)
  <2>1. ASSUME Lost(s) PROVE Lost(s)'
    <3>1. CASE ending[s] \in Loss
      BY <3>1 DEF Lost
    <3>2. CASE ch[s] # <<>> /\ Last(ch[s]).reason \in Loss
      <4>1. s \notin streams
        BY <3>2, ToldByLast DEF Loss
      <4> QED
        BY <2>1, <4>1, LostStays
    <3> QED
      BY <2>1, <3>1, <3>2 DEF Lost
  <2>2. Lost(s) \in BOOLEAN /\ Lost(s)' \in BOOLEAN
    BY DEF Lost
  <2> QED
    BY <2>1, <2>2
<1>3. Promise!Lose(S)
  <2>1. [s \in Stream |-> Lost(s)'] = [s \in Stream |-> Lost(s) \/ s \in S]
    BY <1>2
  <2> HIDE DEF S
  <2>2. [s \in Stream |-> Lost(s) \/ s \in S]
          = [s \in Stream |-> [u \in Stream |-> Lost(u)][s] \/ s \in S]
    OBVIOUS
  <2> QED
    BY <1>1, <2>1, <2>2 DEF Promise!Lose, Promise!NoReason, NoReason
<1> QED
  BY <1>3 DEF Promise!Next

LEMMA PromiseProduces ==
  ASSUME PromiseInv, NEW t \in Stream, Output(t)
  PROVE  Promise!Next
<1>1. /\ UNCHANGED <<seen, ending, ch>>
      /\ output' = [output EXCEPT ![t] = @ + 1] /\ reader[t] = "reading"
  BY DEF Output, browserVars
<1>2. ending[t] # "exited"
  BY <1>1 DEF PromiseInv, EndInv, NoReason
<1>3. [s \in Stream |-> Lost(s)'] = [s \in Stream |-> Lost(s)]
  BY <1>1, LostStays
<1> QED
  BY <1>1, <1>2, <1>3 DEF Promise!Next, Promise!Produce

\* Relaying an event leaves the last one in the channel, or nothing.
LEMMA KeepsLast ==
  ASSUME NEW S, NEW q \in Seq(S), q # <<>>
  PROVE  \/ Tail(q) # <<>> /\ Last(Tail(q)) = Last(q)
         \/ Tail(q) = <<>> /\ Last(q) = Head(q)
<1> DEFINE k == Len(q)
           r == Tail(q)
<1>1. /\ Head(q) = q[1] /\ r \in Seq(S) /\ k \in Nat /\ k > 0 /\ Len(r) = k - 1
      /\ \A i \in 1..(k - 1) : r[i] = q[i + 1]
  BY Receives
<1>2. Last(q) = q[k] /\ Last(r) = r[Len(r)]
  BY DEF Last
<1>3. r = <<>> <=> Len(r) = 0
  BY <1>1, EmptySeq
<1> HIDE DEF k, r
<1>4. CASE k = 1
  BY <1>1, <1>2, <1>3, <1>4 DEF r
<1>5. CASE k # 1
  <2>1. k - 1 \in 1..(k - 1) /\ (k - 1) + 1 = k /\ k - 1 # 0
    BY <1>1, <1>5
  <2>2. r[k - 1] = q[k] /\ r # <<>>
    BY <1>1, <1>3, <2>1
  <2> QED
    BY <1>1, <1>2, <2>2 DEF r
<1> QED
  BY <1>4, <1>5

LEMMA PromiseDelivers ==
  ASSUME PromiseInv, NEW t \in Stream, RelayEvent(t), Head(ch[t]).type # "close"
  PROVE  Promise!Next
<1> USE DEF PromiseInv, IInv
<1> DEFINE q == ch[t]
           e == Head(q)
           n == e.n
<1>1. /\ q # <<>> /\ ch'[t] = Tail(q) /\ handler[t] = "relaying"
      /\ UNCHANGED <<ending, output>> /\ seen' = [seen EXCEPT ![t] = Append(@, n)]
      /\ \A s \in Stream \ {t} : ch'[s] = ch[s]
  BY DEF RelayEvent, TypeOK, ptyVars
<1>2. /\ q \in Seq(FromDevice) /\ e = q[1] /\ e \in FromDevice /\ e.type = "data" /\ e.reason = NoReason
      /\ n \in 1..MaxOutput /\ Len(q) \in Nat /\ Len(q) > 0 /\ DOMAIN q = 1..Len(q)
      /\ Tail(q) \in Seq(FromDevice) /\ Len(Tail(q)) = Len(q) - 1
      /\ \A i \in 1..(Len(q) - 1) : Tail(q)[i] = q[i + 1]
  BY <1>1, Relays DEF WireInv, FromDevice
<1>3. ending[t] = NoReason
  BY <1>1 DEF EndInv
<1>4. 1 \in DOMAIN q /\ n \in Nat /\ n > 0
  BY <1>2, Limits
<1>5. /\ \A i \in DOMAIN seen[t] : seen[t][i] < n
      /\ n \in 1..output[t]
  <2>1. Advance(t) /\ output[t] \in Nat
    BY Numbers DEF AdvanceInv
  <2>2. \A i \in DOMAIN seen[t] : seen[t][i] < n
    BY <1>2, <1>4, <2>1 DEF Advance
  <2>3. n < output[t] + 1
    BY <1>2, <1>4, <2>1 DEF Advance, Passed
  <2> QED
    BY <1>4, <2>1, <2>2, <2>3
<1>6. ASSUME ~Lost(t) PROVE n = Len(seen[t]) + 1
  <2>1. Continues(t)
    BY <1>1, <1>6 DEF FlowInv, Told, Lost, Loss
  <2> QED
    BY <1>2, <1>4, <2>1 DEF Continues
<1>7. Lost(t)' = Lost(t)
  <2>1. \/ Tail(q) # <<>> /\ Last(Tail(q)) = Last(q)
        \/ Tail(q) = <<>> /\ Last(q) = e
    BY <1>1, <1>2, KeepsLast
  <2> QED
    BY <1>1, <1>2, <1>3, <2>1 DEF Lost, Loss, NoReason
<1>8. [s \in Stream |-> Lost(s)'] = [s \in Stream |-> Lost(s)]
  BY <1>1, <1>7, LostStays
<1>9. Promise!Deliver(t, n)
  BY <1>1, <1>3, <1>5, <1>6, <1>8 DEF Promise!Deliver, Promise!NoReason, NoReason
<1> QED
  BY <1>5, <1>9 DEF Promise!Next

LEMMA PromiseEnds ==
  ASSUME PromiseInv, NEW t \in Stream, RelayEvent(t), Head(ch[t]).type = "close"
  PROVE  Promise!Next
<1> USE DEF PromiseInv, IInv
<1> DEFINE r == Head(ch[t]).reason
<1>1. /\ ch[t] # <<>> /\ ch'[t] = Tail(ch[t]) /\ handler[t] = "relaying"
      /\ UNCHANGED <<seen, output>> /\ ending' = [ending EXCEPT ![t] = r]
      /\ ending'[t] = r
      /\ \A s \in Stream \ {t} : ch'[s] = ch[s] /\ ending'[s] = ending[s]
  BY DEF RelayEvent, TypeOK, ptyVars
<1>2. /\ Len(ch[t]) = 1 /\ ch'[t] = <<>> /\ Last(ch[t]).reason = r /\ r \in Reason
  BY <1>1, ClosesAlone
<1>3. ending[t] = NoReason
  BY <1>1 DEF EndInv
<1>4. Lost(t)' = Lost(t) /\ (Lost(t) <=> r \in Loss)
  BY <1>1, <1>2, <1>3 DEF Lost, Loss, NoReason
<1>5. ASSUME r = "exited" PROVE Len(seen[t]) = output[t]
  <2>1. Len(seen[t]) + Len(ch[t]) = output[t] + 1
    BY <1>1, <1>2, <1>5 DEF ExitInv, ExitInChannel
  <2>2. Len(seen[t]) \in Nat /\ output[t] \in Nat
    BY Numbers, LenProperties
  <2> QED
    BY <1>2, <2>1, <2>2
<1>6. [s \in Stream |-> Lost(s)'] = [s \in Stream |-> Lost(s)]
  BY <1>1, <1>4, LostStays
<1>7. Promise!End(t, r)
  BY <1>1, <1>3, <1>4, <1>5, <1>6 DEF Promise!End, Promise!NoReason, NoReason, Promise!Loss, Loss
<1>8. r \in Promise!Reason
  BY <1>2 DEF Reason, Promise!Reason, Promise!Loss
<1> QED
  BY <1>7, <1>8 DEF Promise!Next

LEMMA PromiseStep == PromiseInv /\ [Next]_vars => [Promise!Next]_Promise!vars
<1> SUFFICES ASSUME PromiseInv, [Next]_vars PROVE Promise!Next
  OBVIOUS
<1> USE DEF PromiseInv, IInv
<1>1. CASE HubReads
  BY <1>1, Reads, PromiseLoses DEF Delivered, TypeOK, HubReads, browserVars, ptyVars
<1>2. CASE FailAll
  BY <1>2, PromiseLoses DEF FailAll, browserVars, ptyVars
<1>3. ASSUME ~HubReads, UNCHANGED <<seen, ending, ch>> PROVE Promise!Next
  <2>1. CASE UNCHANGED output
    BY <1>3, <2>1, PromiseLoses
  <2>2. CASE ~UNCHANGED output
    BY <1>3, <2>2, ToHubWrites, PromiseProduces
  <2> QED
    BY <2>1, <2>2
<1>4. ASSUME NEW t \in Stream, HandlerAct(t), ~HubReads PROVE Promise!Next
  <2>1. CASE RelayEvent(t)
    BY <2>1, PromiseDelivers, PromiseEnds
  <2>2. CASE ~RelayEvent(t)
    BY <1>3, <1>4, <2>2 DEF HandlerAct, AddStream, SendOpen, SendOpenFails, BrowserLeaves, RemoveStream, SendClose
  <2> QED
    BY <2>1, <2>2
<1> QED
  BY <1>1, <1>2, <1>3, <1>4, BrowserFrame

LEMMA PromiseInit == Init => Promise!Init
<1> SUFFICES ASSUME Init PROVE Promise!Init
  OBVIOUS
<1>1. \A s \in Stream : Lost(s) = FALSE
  BY DEF Init, Lost, Loss, NoReason
<1> QED
  BY <1>1 DEF Init, Promise!Init, Promise!NoReason, NoReason

\* A stream keeps the promise of TerminalOutput for every number of streams, capacity and length
\* of the output: in order, never twice, no gap that the end of the stream does not tell, and
\* no exit told before all output was relayed.
THEOREM StreamImplementsTerminalOutput == Spec => ImplementsTerminalOutput
BY PromiseInvariance, PromiseInit, PromiseStep, PTL DEF Spec, ImplementsTerminalOutput, Promise!Spec
================================================================================
