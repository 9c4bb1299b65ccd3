----------------------------- MODULE NotifierProofs -----------------------------
(***************************************************************************)
(* Proofs about Notifier: between the rereads of tmux and the publisher of    *)
(* the connection, no change of the snapshot is forgotten, provided that an    *)
(* ended connection's publisher is gone before the next connection is up.     *)
(***************************************************************************)
EXTENDS Notifier, TLAPS

\* Only the publisher of the latest connection may be running, and it is while that is up.
OnePublisher ==
  /\ \A c \in Connection : c # conn => pub[c] \in {"none", "gone"}
  /\ up => conn \in Connection
  /\ up /\ supported => pub[conn] \in {"snapshot", "send", "waiting"}

\* NoLostChange, also while the Hub lists the snapshot and another one is to be delivered.
Kept ==
  supported /\ up => \/ Told \/ pub[conn] = "snapshot"
                     \/ pub[conn] = "send" /\ outgoing[conn] = current
                     \/ pub[conn] = "waiting" /\ listed = current

IInv == NotifierTypeOK /\ OnePublisher /\ Kept

LEMMA Bounds == Connection \subseteq 1..MaxConnections /\ 0 \notin Connection
BY NotifierAssumption DEF Connection

LEMMA InitSound == NotifierInit => IInv
<1> SUFFICES ASSUME NotifierInit PROVE IInv
  OBVIOUS
<1>1. NotifierTypeOK
  <2>1. 0 \in 0..MaxChanges /\ 0 \in 0..MaxConnections /\ NoNotice \in Value
    BY NotifierAssumption DEF Value
  <2> QED
    BY <2>1 DEF NotifierInit, NotifierTypeOK
<1>2. OnePublisher /\ Kept
  BY DEF NotifierInit, OnePublisher, Kept
<1> QED
  BY <1>1, <1>2 DEF IInv

\* What the users and the readers do.
LEMMA ReaderStep ==
  ASSUME IInv, NEW p \in Reader, NEW v \in Value,
         \/ Notify(v) \/ Wake \/ Rereads(p) \/ ReadFails(p)
         \/ p \in Clearer /\ (Open(p) \/ Unset(p))
  PROVE  IInv'
<1>1. UNCHANGED <<supported, links, publisher, listed>>
  BY DEF Notify, Wake, Rereads, Read, Store, Signal, Present, ReadFails, Open, Unset
<1>2. OnePublisher'
  BY <1>1 DEF IInv, OnePublisher, links, publisher
<1>3. CASE Store(p)
  <2>1. /\ reader' = [reader EXCEPT ![p] = IF items[p] = current THEN "idle" ELSE "signal"]
        /\ reader[p] = "store" /\ current' = items[p] /\ UNCHANGED <<tmux, changed, items>>
    BY <1>3 DEF Store, Reads
  <2>2. NotifierTypeOK'
    BY <1>1, <2>1 DEF IInv, NotifierTypeOK, links, publisher, tmux
  <2>3. CASE items[p] = current
    <3>1. Told => Told'
      BY <2>1, <2>3 DEF Told, IInv, NotifierTypeOK
    <3> QED
      BY <1>1, <2>1, <2>3, <3>1, <1>2, <2>2 DEF IInv, Kept, links, publisher
  <2>4. CASE items[p] # current
    <3>1. Told'
      BY <2>1, <2>4 DEF Told, IInv, NotifierTypeOK
    <3> QED
      BY <3>1, <1>2, <2>2 DEF IInv, Kept
  <2> QED
    BY <2>3, <2>4
<1>4. CASE Signal(p)
  <2>1. NotifierTypeOK'
    BY <1>1, <1>4 DEF IInv, NotifierTypeOK, links, publisher, tmux, Signal, Reads
  <2>2. Told'
    BY <1>4 DEF Told, Signal
  <2> QED
    BY <1>2, <2>1, <2>2 DEF IInv, Kept
<1>5. CASE Notify(v) \/ Wake \/ Read(p) \/ Present(p) \/ ReadFails(p)
             \/ (p \in Clearer /\ (Open(p) \/ Unset(p)))
  <2>1. UNCHANGED <<current, changed>>
    BY <1>5 DEF Notify, Wake, Read, Present, ReadFails, Open, Unset
  <2>2. NotifierTypeOK'
    <3>1. CASE Notify(v)
      <4>1. changes + 1 \in 0..MaxChanges
        BY <3>1, NotifierAssumption DEF IInv, NotifierTypeOK, Notify
      <4> QED
        BY <1>1, <3>1, <4>1 DEF IInv, NotifierTypeOK, links, publisher, Notify
    <3>2. CASE Wake \/ Read(p) \/ Present(p) \/ ReadFails(p)
      BY <1>1, <3>2
      DEF IInv, NotifierTypeOK, links, publisher, tmux, Wake, Read, Present, ReadFails, Reads, Reader
    <3>3. CASE Open(p) \/ Unset(p)
      BY <1>1, <3>3
      DEF IInv, NotifierTypeOK, links, publisher, tmux, Open, Unset, Reads, Value
    <3> QED
      BY <1>5, <3>1, <3>2, <3>3
  <2>3. Told => Told'
    BY <1>5, <2>1
    DEF Told, IInv, NotifierTypeOK, Notify, Wake, Read, Present, ReadFails, Open, Unset, Reads
  <2> QED
    BY <1>1, <1>2, <2>1, <2>2, <2>3 DEF IInv, Kept, links, publisher
<1> QED
  BY <1>3, <1>4, <1>5 DEF Rereads

\* Connections come and go.
LEMMA LinkStep == ASSUME IInv, Prompt, ConnUp \/ ConnDown PROVE IInv'
<1>1. CASE ConnDown
  BY <1>1
  DEF IInv, NotifierTypeOK, OnePublisher, Kept, ConnDown, publisher, tmux
<1>2. CASE ConnUp
  <2> DEFINE next == conn + 1
  <2>1. /\ next \in Connection /\ conn # next /\ next \in 0..MaxConnections
        /\ conn # 0 => conn \in Connection
    BY <1>2, NotifierAssumption DEF ConnUp, IInv, NotifierTypeOK, Connection
  <2>2. /\ conn' = next /\ up' = TRUE /\ listed' = NoNotice
        /\ pub' = [pub EXCEPT ![next] = IF supported THEN "snapshot" ELSE "none"]
        /\ UNCHANGED <<supported, tmux, current, changed, reader, items, outgoing>>
    BY <1>2 DEF ConnUp
  <2>3. conn # 0 => pub[conn] \in {"none", "gone"}
    BY <1>2 DEF ConnUp
  <2> HIDE DEF next
  <2>4. NotifierTypeOK'
    BY <2>1, <2>2 DEF IInv, NotifierTypeOK, tmux, Value
  <2>5. \A c \in Connection : pub[c] \in {"none", "gone"}
    BY <2>1, <2>3, Bounds DEF IInv, OnePublisher
  <2>6. OnePublisher' /\ Kept'
    BY <2>1, <2>2, <2>5 DEF IInv, NotifierTypeOK, OnePublisher, Kept
  <2> QED
    BY <2>4, <2>6 DEF IInv
<1> QED
  BY <1>1, <1>2

LEMMA PublisherStep ==
  ASSUME IInv, NEW c \in Connection, Snapshot(c) \/ Send(c) \/ Take(c) \/ Return(c)
  PROVE  IInv'
<1>1. c = conn
  BY DEF IInv, OnePublisher, Snapshot, Send, Take, Return, Publishes
<1>2. UNCHANGED <<supported, tmux, current, reader, items, links>>
  BY DEF Snapshot, Send, Take, Return
<1>3. NotifierTypeOK'
  BY <1>2
  DEF IInv, NotifierTypeOK, tmux, links, Snapshot, Send, Take, Return, Publishes
<1>4. OnePublisher'
  BY <1>1, <1>2
  DEF IInv, NotifierTypeOK, OnePublisher, links, Snapshot, Send, Take, Return, Publishes
<1>5. Kept'
  <2>1. CASE Snapshot(c) \/ Take(c) \/ Return(c)
    BY <1>1, <1>2, <2>1
    DEF IInv, NotifierTypeOK, OnePublisher, Kept, Told, links, Snapshot, Take, Return, Publishes
  <2>2. CASE Send(c)
    BY <1>1, <1>2, <2>2
    DEF IInv, NotifierTypeOK, OnePublisher, Kept, Told, links, Send, Publishes
  <2> QED
    BY <2>1, <2>2
<1> QED
  BY <1>3, <1>4, <1>5 DEF IInv

LEMMA InvStep == IInv /\ Prompt /\ [NotifierNext]_notices => IInv'
<1> SUFFICES ASSUME IInv, Prompt, [NotifierNext]_notices PROVE IInv'
  OBVIOUS
<1>1. "watch" \in Reader /\ Clearer \subseteq Reader /\ NoNotice \in Value
  BY DEF Reader, Value
<1>2. CASE UNCHANGED notices
  BY <1>2
  DEF notices, tmux, links, publisher, IInv, NotifierTypeOK, OnePublisher, Kept, Told
<1>3. CASE ConnUp \/ ConnDown
  BY <1>3, LinkStep
<1>4. CASE Publishing
  BY <1>4, PublisherStep DEF Publishing
<1>5. CASE \/ \E v \in Value : Notify(v)
           \/ Wake
           \/ \E p \in Reader : Rereads(p) \/ ReadFails(p)
           \/ \E p \in Clearer : Open(p) \/ Unset(p)
  BY <1>1, <1>5, ReaderStep
<1> QED
  BY <1>2, <1>3, <1>4, <1>5 DEF NotifierNext

-------------------------------------------------------------------------------
(* Theorems. *)

\* The variables of the notifier keep their types.
THEOREM NotifierTypeCorrect == Prompt => (NotifierSpec => []NotifierTypeOK)
<1> SUFFICES ASSUME Prompt PROVE NotifierSpec => []NotifierTypeOK
  OBVIOUS
<1>1. IInv => NotifierTypeOK
  BY DEF IInv
<1>2. IInv /\ [NotifierNext]_notices => IInv'
  BY InvStep
<1> QED
  BY <1>1, <1>2, InitSound, PTL DEF NotifierSpec

\* However many goroutines reread tmux at once, with whatever they have read, and however
\* connections come and go, no change of the snapshot is forgotten while the Hub lacks it.
THEOREM ChangesAreTold == Prompt => (NotifierSpec => []NoLostChange)
<1> SUFFICES ASSUME Prompt PROVE NotifierSpec => []NoLostChange
  OBVIOUS
<1>1. IInv => NoLostChange
  BY DEF IInv, OnePublisher, Kept, NoLostChange
<1>2. IInv /\ [NotifierNext]_notices => IInv'
  BY InvStep
<1> QED
  BY <1>1, <1>2, InitSound, PTL DEF NotifierSpec
===============================================================================
