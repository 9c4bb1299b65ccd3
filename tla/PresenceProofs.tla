----------------------------- MODULE PresenceProofs ----------------------------
(***************************************************************************)
(* Proofs about Presence: the Manager's entry of a device is always a       *)
(* connection whose handler is still to unregister it.                      *)
(***************************************************************************)
EXTENDS Presence, TLAPS

IInv == TypeOK /\ NoDeadRoute

\* Every action keeps the variables in their types, and the map free of dead connections.
LEMMA InvStep == IInv /\ [Next]_vars => IInv'
<1> SUFFICES ASSUME IInv, [Next]_vars PROVE IInv'
  OBVIOUS
<1> USE ConstantsAssumption DEF IInv, TypeOK, NoDeadRoute, Location, Serving, registry
<1>1. ASSUME NEW c \in Conn, Authorize(c) PROVE IInv'
  BY <1>1 DEF Authorize, Goto
<1>2. ASSUME NEW c \in Conn, Register(c) PROVE IInv'
  BY <1>2 DEF Register, Goto
<1>3. ASSUME NEW c \in Conn, Connect(c) PROVE IInv'
  BY <1>3 DEF Connect, Goto
<1>4. ASSUME NEW c \in Conn, ReadHeartbeat(c) PROVE IInv'
  BY <1>4 DEF ReadHeartbeat, Goto
<1>5. ASSUME NEW c \in Conn, Touch(c) PROVE IInv'
  BY <1>5 DEF Touch, Goto
<1>6. ASSUME NEW c \in Conn, ReadNotifications(c) PROVE IInv'
  BY <1>6 DEF ReadNotifications, Goto
<1>7. ASSUME NEW c \in Conn, SetNotifications(c) PROVE IInv'
  BY <1>7 DEF SetNotifications, Goto
<1>8. ASSUME NEW c \in Conn, ReadFails(c) PROVE IInv'
  BY <1>8 DEF ReadFails, Goto
<1>9. ASSUME NEW c \in Conn, Unregister(c) PROVE IInv'
  BY <1>9 DEF Unregister, Goto
<1>10. ASSUME NEW c \in Conn, Disconnect(c) PROVE IInv'
  BY <1>10 DEF Disconnect, Goto
<1>11. ASSUME NEW c \in Conn, Drop(c) PROVE IInv'
  BY <1>11 DEF Drop
<1>12. ASSUME RevokeStored PROVE IInv'
  BY <1>12 DEF RevokeStored
<1>13. ASSUME RevokeManager PROVE IInv'
  BY <1>13 DEF RevokeManager
<1>14. ASSUME RevokeRegistry PROVE IInv'
  BY <1>14 DEF RevokeRegistry
<1>15. CASE UNCHANGED vars
  BY <1>15 DEF vars
<1> QED
  BY <1>1, <1>2, <1>3, <1>4, <1>5, <1>6, <1>7, <1>8,
     <1>9, <1>10, <1>11, <1>12, <1>13, <1>14, <1>15 DEF Next, ServeNext

\* IInv holds in every reachable state.
LEMMA Invariance == Spec => []IInv
<1>1. Init => IInv
  BY ConstantsAssumption DEF Init, IInv, TypeOK, NoDeadRoute, Location
<1> QED
  BY <1>1, InvStep, PTL DEF Spec

\* The variables of the device's presence keep their types.
THEOREM TypeCorrect == Spec => []TypeOK
BY Invariance, PTL DEF IInv

\* Whatever connections replace each other and whenever the device is revoked, the map
\* never keeps a connection that nobody will take out of it.
THEOREM RoutesAreAlive == Spec => []NoDeadRoute
BY Invariance, PTL DEF IInv
===============================================================================
