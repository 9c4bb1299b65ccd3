------------------------------ MODULE MCPresence ------------------------------
(***************************************************************************)
(* Presence of one device with three connections in turn.                  *)
(***************************************************************************)
EXTENDS Presence

CONSTANTS c1, c2, c3

TwoConns == {c1, c2}
ThreeConns == {c1, c2, c3}
===============================================================================
