------------------------------- MODULE MCTransfer -------------------------------
(***************************************************************************)
(* Transfer with one long upload, one long export, or two short transfers  *)
(* that meet in the tables of the device.                                  *)
(***************************************************************************)
EXTENDS Transfer

CONSTANTS u1, u2, u3, e1, e2, e3

Uploads == {u1, u2, u3}
Exports == {e1, e2, e3}
Mixtures == {{u1}, {e1}, {u2, u3}, {e2, e3}, {u3, e3}}
ChunksOf == [u \in Uploads |-> IF u = u1 THEN 3 ELSE 1]
PiecesOf == [e \in Exports |-> IF e = e1 THEN 3 ELSE IF e = e2 THEN 1 ELSE 0]
===============================================================================
