-------------------------------- MODULE Notifier --------------------------------
(***************************************************************************)
(* The connector's notifier: a notification is an option of a tmux session,  *)
(* rereads of tmux (watch, and the clear of an opened session) keep a         *)
(* snapshot of it, and the publisher of each connection sends the snapshot    *)
(* when it begins and when it is told of a change.  The snapshot is that of   *)
(* one session.  A reread begins when tmux signals, and every 15 seconds: it  *)
(* may begin at any time.                                                    *)
(***************************************************************************)
EXTENDS Naturals

CONSTANTS
  Notice,         \* the notifications a session may have
  NoNotice,
  Clearer,        \* the goroutines that clear an opened session
  MaxChanges,     \* bound on the changes users make
  MaxConnections, \* bound on the connections of the connector
  Prompt          \* whether a publisher ends before the next connection is up

ASSUME NotifierAssumption ==
  /\ NoNotice \notin Notice /\ "watch" \notin Clearer
  /\ MaxChanges \in Nat /\ MaxConnections \in Nat /\ Prompt \in BOOLEAN

Value      == Notice \cup {NoNotice}
Reader     == Clearer \cup {"watch"}
Connection == 1..MaxConnections

VARIABLES
  supported,  \* the connector's platform has notifications, and so it has a notifier
  option,   \* the option @sinthmux_notify of the session, in tmux
  changes,  \* the changes users have made to it
  current,  \* the snapshot
  changed,  \* a signal is in n.changed
  reader,   \* what each goroutine that rereads tmux is doing
  items,    \* what it has read
  conn,     \* the latest connection
  up,       \* it is up
  pub,      \* the publisher of each connection
  outgoing, \* the snapshot it is to send
  listed    \* the snapshot of the Hub, NoNotice from a connection's hello on

tmux      == <<option, changes>>
links     == <<conn, up>>
publisher == <<pub, outgoing>>
notices   == <<supported, tmux, current, changed, reader, items, links, publisher, listed>>

NotifierTypeOK ==
  /\ supported \in BOOLEAN
  /\ option \in Value /\ current \in Value /\ listed \in Value
  /\ changes \in 0..MaxChanges /\ conn \in 0..MaxConnections
  /\ changed \in BOOLEAN /\ up \in BOOLEAN
  /\ reader \in [Reader -> {"idle", "opened", "unset", "read", "store", "signal"}]
  /\ items \in [Reader -> Value]
  /\ pub \in [Connection -> {"none", "snapshot", "send", "waiting", "gone"}]
  /\ outgoing \in [Connection -> Value]

NotifierInit ==
  /\ supported \in BOOLEAN
  /\ option \in Value /\ changes = 0
  /\ current = NoNotice /\ changed = FALSE /\ listed = NoNotice
  /\ reader = [p \in Reader |-> "idle"] /\ items = [p \in Reader |-> NoNotice]
  /\ conn = 0 /\ up = FALSE
  /\ pub = [c \in Connection |-> "none"] /\ outgoing = [c \in Connection |-> NoNotice]

-------------------------------------------------------------------------------
(* tmux and the readers. *)

Reads(p, from, to) == reader[p] = from /\ reader' = [reader EXCEPT ![p] = to]

\* `sinthmux-connector notify' in a pane, with or without --clear, or a session that ends.
Notify(v) ==
  /\ changes < MaxChanges /\ v # option
  /\ option' = v /\ changes' = changes + 1
  /\ UNCHANGED <<supported, current, changed, reader, items, links, publisher, listed>>

\* watch: a signal of tmux or the ticker.
Wake ==
  /\ supported /\ Reads("watch", "idle", "read")
  /\ UNCHANGED <<supported, tmux, current, changed, items, links, publisher, listed>>

\* readNotifications asks tmux, without the lock; if it fails the snapshot stays.
Read(p) ==
  /\ Reads(p, "read", "store")
  /\ items' = [items EXCEPT ![p] = option]
  /\ UNCHANGED <<supported, tmux, current, changed, links, publisher, listed>>

ReadFails(p) ==
  /\ Reads(p, "read", "idle")
  /\ UNCHANGED <<supported, tmux, current, changed, items, links, publisher, listed>>

\* What was read replaces the snapshot, which another reader may have replaced meanwhile.
Store(p) ==
  /\ Reads(p, "store", IF items[p] = current THEN "idle" ELSE "signal")
  /\ current' = items[p]
  /\ UNCHANGED <<supported, tmux, changed, items, links, publisher, listed>>

\* A signal that is already there is enough.
Signal(p) ==
  /\ Reads(p, "signal", "idle")
  /\ changed' = TRUE
  /\ UNCHANGED <<supported, tmux, current, items, links, publisher, listed>>

\* stream.open: its goroutine outlives the connection.
Open(p) ==
  /\ supported /\ up /\ Reads(p, "idle", "opened")
  /\ UNCHANGED <<supported, tmux, current, changed, items, links, publisher, listed>>

Present(p) ==
  /\ Reads(p, "opened", IF current = NoNotice THEN "idle" ELSE "unset")
  /\ UNCHANGED <<supported, tmux, current, changed, items, links, publisher, listed>>

\* The option may have got another notification since; tmux may fail.
Unset(p) ==
  /\ \/ Reads(p, "unset", "read") /\ option' = NoNotice
     \/ Reads(p, "unset", "idle") /\ UNCHANGED option
  /\ UNCHANGED <<supported, changes, current, changed, items, links, publisher, listed>>

-------------------------------------------------------------------------------
(* Connections and their publishers. *)

Publishes(c, from, to) == pub[c] = from /\ pub' = [pub EXCEPT ![c] = to]

\* Mutant: a new connection waits for the first change.
WaitingConnUp ==
  /\ ~up /\ conn < MaxConnections
  /\ Prompt /\ conn # 0 => pub[conn] \in {"none", "gone"}
  /\ conn' = conn + 1 /\ up' = TRUE /\ listed' = NoNotice
  /\ pub' = [pub EXCEPT ![conn + 1] = IF supported THEN "waiting" ELSE "none"]
  /\ UNCHANGED <<supported, tmux, current, changed, reader, items, outgoing>>

\* The hello makes the Hub forget the notifications; runWithRPC starts a publisher, and does
\* not wait for that of an earlier connection.
ConnUp ==
  /\ ~up /\ conn < MaxConnections
  /\ Prompt /\ conn # 0 => pub[conn] \in {"none", "gone"}
  /\ conn' = conn + 1 /\ up' = TRUE /\ listed' = NoNotice
  /\ pub' = [pub EXCEPT ![conn + 1] = IF supported THEN "snapshot" ELSE "none"]
  /\ UNCHANGED <<supported, tmux, current, changed, reader, items, outgoing>>

ConnDown ==
  /\ up /\ up' = FALSE
  /\ UNCHANGED <<supported, tmux, current, changed, reader, items, conn, publisher, listed>>

Snapshot(c) ==
  /\ Publishes(c, "snapshot", "send")
  /\ outgoing' = [outgoing EXCEPT ![c] = current]
  /\ UNCHANGED <<supported, tmux, current, changed, reader, items, links, listed>>

\* A send on a connection that has ended fails, and its publisher returns.  A write that fails
\* closes the WebSocket; the publisher itself does not end the connection.
Send(c) ==
  /\ IF up /\ c = conn THEN Publishes(c, "send", "waiting") /\ listed' = outgoing[c]
                       ELSE Publishes(c, "send", "gone") /\ UNCHANGED listed
  /\ UNCHANGED <<supported, tmux, current, changed, reader, items, links, outgoing>>

\* Mutant: the snapshot is not read again after the signal.
StaleTake(c) ==
  /\ changed /\ changed' = FALSE
  /\ Publishes(c, "waiting", "send")
  /\ UNCHANGED <<supported, tmux, current, reader, items, links, outgoing, listed>>

\* The signal is taken, also by a publisher whose connection has ended.
Take(c) ==
  /\ changed /\ changed' = FALSE
  /\ Publishes(c, "waiting", "snapshot")
  /\ UNCHANGED <<supported, tmux, current, reader, items, links, outgoing, listed>>

Return(c) ==
  /\ ~(up /\ c = conn) /\ Publishes(c, "waiting", "gone")
  /\ UNCHANGED <<supported, tmux, current, changed, reader, items, links, outgoing, listed>>

Rereads(p)   == Read(p) \/ Store(p) \/ Signal(p) \/ Present(p)
Watching     == Wake \/ Rereads("watch")
Publishing   == \E c \in Connection : Snapshot(c) \/ Send(c) \/ Take(c) \/ Return(c)

NotifierNext ==
  \/ \E v \in Value : Notify(v)
  \/ Wake \/ ConnUp \/ ConnDown \/ Publishing
  \/ \E p \in Reader : Rereads(p) \/ ReadFails(p)
  \/ \E p \in Clearer : Open(p) \/ Unset(p)

\* tmux answers one of many rereads, and the connector's goroutines run.
NotifierFairness ==
  /\ WF_notices(Watching) /\ SF_notices(Read("watch"))
  /\ \A p \in Clearer : WF_notices(Rereads(p) \/ Unset(p))
  /\ WF_notices(Publishing)

NotifierSpec == NotifierInit /\ [][NotifierNext]_notices /\ NotifierFairness

-------------------------------------------------------------------------------
(* Properties. *)

Stale == supported /\ up /\ listed # option

\* A Hub with a connection does not keep an old snapshot: every change reaches it, although a
\* clear may store what it read before the change, signals of several changes are one, and
\* connections come and go in between.  (notify.go: refresh, publish)
ChangesArrive == Stale ~> ~Stale

\* A signal is in the channel, or about to be.
Told == changed \/ \E p \in Reader : reader[p] = "signal"

\* While a connection is up and the Hub does not list the snapshot, there is a signal, or the
\* publisher has yet to read the snapshot or to deliver it.  (notify.go: refresh, publish)
NoLostChange ==
  supported /\ up /\ listed # current =>
    Told \/ pub[conn] = "snapshot" \/ (pub[conn] = "send" /\ outgoing[conn] = current)
===============================================================================
