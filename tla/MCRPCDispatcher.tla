---------------------------- MODULE MCRPCDispatcher ---------------------------
(***************************************************************************)
(* What of the connector's process outlives its connections: RPCDispatcher   *)
(* with two slots, one place for a busy answer and four requests over two     *)
(* connections, and Notifier with one notification that is set, cleared and    *)
(* set again over two connections.  They share no state: the dispatcher is     *)
(* checked in a connector without notifications, the notifier in one that     *)
(* executes nothing.                                                         *)
(***************************************************************************)
EXTENDS RPCDispatcher, Notifier

CONSTANTS r1, r2, r3, r4

MCRequest == {r1, r2, r3, r4}

\* Without notifications the notifier stays as it starts.
MCInit == Init /\ NotifierInit /\ (supported \/ option = NoNotice)

MCNext ==
  \/ ~supported /\ Next /\ UNCHANGED notices
  \/ supported /\ NotifierNext /\ UNCHANGED vars

MCSpec == MCInit /\ [][MCNext]_<<vars, notices>> /\ Fairness /\ NotifierFairness

\* The variables of the dispatcher and of the notifier have their types; at most Slots tokens
\* are out.  (main.go: processRPCSlots; notify.go: notifier)
TypesOK == TypeOK /\ NotifierTypeOK
===============================================================================
