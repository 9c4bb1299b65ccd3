-------------------------------- MODULE Presence -------------------------------
(***************************************************************************)
(* Whether a device is shown online: ConnectorHandler.ServeHTTP, the        *)
(* Manager's entry for the device, the Registry's entry for it, and the     *)
(* revocation of its credential.  All of them are keyed by the device ID,   *)
(* so the module follows one device; Conn are its WebSockets in turn.       *)
(*                                                                          *)
(* Manager and Registry have a lock each, so every step here touches one of *)
(* them, and a message the handler has read is a step away from its effect. *)
(* A connector sends one valid hello, so the rejection of a second is left  *)
(* out here.                                                                *)
(***************************************************************************)
CONSTANTS
  Conn,        \* the device's connections
  NoConn,      \* nil
  MayRevoke    \* whether an owner may revoke the device

ASSUME ConstantsAssumption == NoConn \notin Conn /\ MayRevoke \in BOOLEAN

VARIABLES
  handler,     \* where ServeHTTP is, per connection
  open,        \* whether the WebSocket is open
  current,     \* Manager.connectors[device]
  status,      \* Registry: "absent", "online" or "offline"
  notes,       \* Registry: the connection whose snapshot is shown, NoConn for none
  revocation   \* "none", then revokeDevice: "stored", "removed", "done"

vars == <<handler, open, current, status, notes, revocation>>
registry == <<status, notes>>

Serving  == {"serving", "touching", "noting"}
Location == {"new", "authorized", "registered"} \cup Serving
            \cup {"leaving", "unregistered", "done"}

TypeOK ==
  /\ handler \in [Conn -> Location]
  /\ open \in [Conn -> BOOLEAN]
  /\ current \in Conn \cup {NoConn}
  /\ status \in {"absent", "online", "offline"}
  /\ notes \in Conn \cup {NoConn}
  /\ revocation \in {"none", "stored", "removed", "done"}

Init ==
  /\ handler = [c \in Conn |-> "new"]
  /\ open = [c \in Conn |-> FALSE]
  /\ current = NoConn
  /\ status = "absent"
  /\ notes = NoConn
  /\ revocation = "none"

Goto(c, from, to) == handler[c] = from /\ handler' = [handler EXCEPT ![c] = to]

-------------------------------------------------------------------------------
\* Mutants of the definitions below, each a slip the code could plausibly hold.

\* ServeHTTP that calls Unregister only when the read loop ended with a close frame.
SkipUnregister(c) ==
  /\ Goto(c, "leaving", "done")
  /\ UNCHANGED <<open, current, registry, revocation>>

\* A heartbeat that refreshes lastSeenAt but not the status.
TimeOnlyTouch(c) ==
  /\ Goto(c, "touching", "serving")
  /\ UNCHANGED <<open, current, registry, revocation>>

\* Revoke that forgets CloseNow.
NoCloseRevokeManager ==
  /\ revocation = "stored"
  /\ revocation' = "removed"
  /\ current' = NoConn
  /\ UNCHANGED <<handler, open, registry>>

-------------------------------------------------------------------------------
\* ConnectorHandler.ServeHTTP

\* The credential is checked against the database before the upgrade.
Authorize(c) ==
  /\ revocation = "none"
  /\ Goto(c, "new", "authorized")
  /\ open' = [open EXCEPT ![c] = TRUE]
  /\ UNCHANGED <<current, registry, revocation>>

\* The hello: Register puts c in the map and closes the connection it replaces.
Register(c) ==
  /\ Goto(c, "authorized", "registered")
  /\ current' = c
  /\ open' = [b \in Conn |-> open[b] /\ b # current]
  /\ UNCHANGED <<registry, revocation>>

Connect(c) ==
  /\ Goto(c, "registered", "serving")
  /\ status' = "online"
  /\ notes' = NoConn
  /\ UNCHANGED <<open, current, revocation>>

ReadHeartbeat(c) ==
  /\ open[c]
  /\ Goto(c, "serving", "touching")
  /\ UNCHANGED <<open, current, registry, revocation>>

Touch(c) ==
  /\ Goto(c, "touching", "serving")
  /\ status' = IF status = "absent" THEN status ELSE "online"
  /\ UNCHANGED <<open, current, notes, revocation>>

ReadNotifications(c) ==
  /\ open[c]
  /\ Goto(c, "serving", "noting")
  /\ UNCHANGED <<open, current, registry, revocation>>

SetNotifications(c) ==
  /\ Goto(c, "noting", "serving")
  /\ notes' = IF status = "absent" THEN notes ELSE c
  /\ UNCHANGED <<open, current, status, revocation>>

ReadFails(c) ==
  /\ ~open[c]
  /\ Goto(c, "serving", "leaving") \/ Goto(c, "authorized", "done")
  /\ UNCHANGED <<open, current, registry, revocation>>

\* Unregister says whether c was the device's connection; only then is it disconnected.
Unregister(c) ==
  /\ IF current = c
       THEN Goto(c, "leaving", "unregistered") /\ current' = NoConn
       ELSE Goto(c, "leaving", "done") /\ UNCHANGED current
  /\ UNCHANGED <<open, registry, revocation>>

Disconnect(c) ==
  /\ Goto(c, "unregistered", "done")
  /\ status' = IF status = "absent" THEN status ELSE "offline"
  /\ notes' = NoConn
  /\ UNCHANGED <<open, current, revocation>>

\* The peer or the network ends the connection, or 45 seconds pass without a message.
Drop(c) ==
  /\ open[c]
  /\ open' = [open EXCEPT ![c] = FALSE]
  /\ UNCHANGED <<handler, current, registry, revocation>>

-------------------------------------------------------------------------------
\* revokeDevice: the database first, then OnDeviceRevoked's two calls.

RevokeStored ==
  /\ MayRevoke
  /\ revocation = "none"
  /\ revocation' = "stored"
  /\ UNCHANGED <<handler, open, current, registry>>

RevokeManager ==
  /\ revocation = "stored"
  /\ revocation' = "removed"
  /\ current' = NoConn
  /\ open' = [b \in Conn |-> open[b] /\ b # current]
  /\ UNCHANGED <<handler, registry>>

RevokeRegistry ==
  /\ revocation = "removed"
  /\ revocation' = "done"
  /\ status' = IF status = "absent" THEN status ELSE "offline"
  /\ notes' = NoConn
  /\ UNCHANGED <<handler, open, current>>

-------------------------------------------------------------------------------
ServeNext(c) ==
  \/ Register(c) \/ Connect(c)
  \/ Touch(c) \/ SetNotifications(c)
  \/ ReadFails(c) \/ Unregister(c) \/ Disconnect(c)

Next ==
  \/ \E c \in Conn :
       Authorize(c) \/ ServeNext(c) \/ ReadHeartbeat(c) \/ ReadNotifications(c) \/ Drop(c)
  \/ RevokeStored \/ RevokeManager \/ RevokeRegistry

Spec == Init /\ [][Next]_vars

\* Handlers that can run do run, and a revocation that began goes on.  A connector
\* sends a heartbeat every 15 seconds and its messages are read in order, so while the
\* connection is open one is read again and again (SF: other messages come between).
Fairness ==
  /\ \A c \in Conn : WF_vars(ServeNext(c)) /\ SF_vars(ReadHeartbeat(c))
  /\ WF_vars(RevokeManager) /\ WF_vars(RevokeRegistry)

FairSpec == Spec /\ Fairness

-------------------------------------------------------------------------------
\* Properties

\* The map never keeps a connection whose handler is past Unregister or never said hello:
\* calls to the device would be written to a dead WebSocket until it reconnects.
NoDeadRoute == current # NoConn => handler[current] \in {"registered", "leaving"} \cup Serving

\* A device that stays connected is shown online in the end, and stays so: whatever late
\* Disconnect of an older connection or of a revocation hit it, a heartbeat repairs it.
OnlineHeals == \A c \in Conn : <>[](current = c) => <>[](status = "online")

\* The connection a device had when it was revoked is closed and its handler returns.
RevocationCloses ==
  \A c \in Conn : (revocation = "stored" /\ current = c) ~> handler[c] = "done"

\* "an older connector cannot mark a replacement connection offline" (manager.go): a
\* device whose current connection is being served is not shown offline.
ReplacementStaysOnline ==
  current # NoConn /\ handler[current] \in Serving => status = "online"

\* "the device must not stay listed as online" (connector_handler.go): when no handler of
\* the device runs, it is not shown online.
OfflineWhenGone ==
  (\A c \in Conn : handler[c] \in {"new", "done"}) => status # "online"

\* Revocation takes effect at once and the hub disconnects the device (auth-storage.md):
\* once revokeDevice has returned, the device has no connection.
RevokedStaysOut == revocation = "done" => current = NoConn
===============================================================================
