--------------------------- MODULE MCTerminalStream ---------------------------
(***************************************************************************)
(* TerminalStream with two browsers on one device connection.              *)
(***************************************************************************)
EXTENDS TerminalStream

CONSTANTS s1, s2

OneStream == {s1}
TwoStreams == {s1, s2}
===============================================================================
