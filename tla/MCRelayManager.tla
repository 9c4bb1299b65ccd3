---------------------------- MODULE MCRelayManager ----------------------------
(***************************************************************************)
(* RelayManager with one device, a connection that another replaces, and   *)
(* two calls of the device.                                                *)
(***************************************************************************)
EXTENDS RelayManager, TLC

CONSTANTS d1, c1, c2, k1, k2

MCDevice == {d1}
MCConn == {c1, c2}
MCCall == {k1, k2}
MCDeviceOf == [c \in MCConn |-> d1]
MCTargetOf == [k \in MCCall |-> d1]
OneCall == {k1}
OneTargetOf == [k \in OneCall |-> d1]

Symmetric == Permutations(MCConn) \cup Permutations(MCCall)
===============================================================================
