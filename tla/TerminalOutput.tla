----------------------------- MODULE TerminalOutput ----------------------------
(***************************************************************************)
(* What the hub and the connector promise to the browser of a terminal      *)
(* stream: output is shown in the order in which tmux wrote it and never    *)
(* twice; a piece is left out only when the stream is already bound to end  *)
(* with a loss, and its end then says so.  An end by the exit of the tmux   *)
(* client comes after all that the client wrote.                            *)
(***************************************************************************)
EXTENDS Naturals, Sequences

CONSTANT Stream

VARIABLES
  output,   \* the pieces the tmux client of a stream has written, counted
  seen,     \* the pieces the browser was sent
  lost,     \* whether the stream is bound to end with a loss
  ending    \* the reason the browser was given for the end, or NoReason

vars == <<output, seen, lost, ending>>

NoReason == "none"
Loss     == {"overflow", "offline"}
Reason   == {"exited", "inputFailed", "openFailed"} \cup Loss

Init ==
  /\ output = [s \in Stream |-> 0]
  /\ seen = [s \in Stream |-> <<>>]
  /\ lost = [s \in Stream |-> FALSE]
  /\ ending = [s \in Stream |-> NoReason]

Produce(s) ==
  /\ ending[s] # "exited"
  /\ output' = [output EXCEPT ![s] = @ + 1]
  /\ UNCHANGED <<seen, lost, ending>>

\* The next piece, or a later one if the stream is lost.
Deliver(s, n) ==
  /\ ending[s] = NoReason
  /\ \A i \in DOMAIN seen[s] : seen[s][i] < n
  /\ ~lost[s] => n = Len(seen[s]) + 1
  /\ seen' = [seen EXCEPT ![s] = Append(@, n)]
  /\ UNCHANGED <<output, lost, ending>>

\* One stream overflows, or all those of a connection go with it.
Lose(S) ==
  /\ \A s \in S : ending[s] = NoReason
  /\ lost' = [s \in Stream |-> lost[s] \/ s \in S]
  /\ UNCHANGED <<output, seen, ending>>

End(s, r) ==
  /\ ending[s] = NoReason
  /\ lost[s] <=> r \in Loss
  /\ r = "exited" => Len(seen[s]) = output[s]
  /\ ending' = [ending EXCEPT ![s] = r]
  /\ UNCHANGED <<output, seen, lost>>

Next ==
  \/ \E s \in Stream :
       \/ Produce(s)
       \/ \E n \in 1..output[s] : Deliver(s, n)
       \/ \E r \in Reason : End(s, r)
  \/ \E S \in SUBSET Stream : Lose(S)

Spec == Init /\ [][Next]_vars
================================================================================
