------------------------------ MODULE RemoteCall ------------------------------
(***************************************************************************)
(* What the hub promises to a caller of Manager.Call: a call is answered   *)
(* once, the device executes it at most once, and an answer "from the      *)
(* device" is only reported for a call the device did execute, "busy" only *)
(* for one it did not and will not.  A call that failed may have been      *)
(* executed, before or after it was reported.                              *)
(***************************************************************************)
EXTENDS Naturals

CONSTANT Call

VARIABLES
  status,      \* "idle", "open" or "done", per call
  outcome,     \* what the caller was told, "none" until the call is done
  executions   \* how often the device executed the call

vars == <<status, outcome, executions>>

FromDevice == {"response", "invalid"}
Failure    == {"offline", "expired", "sendError"}

Init ==
  /\ status = [k \in Call |-> "idle"]
  /\ outcome = [k \in Call |-> "none"]
  /\ executions = [k \in Call |-> 0]

Start(k) ==
  /\ status[k] = "idle"
  /\ status' = [status EXCEPT ![k] = "open"]
  /\ UNCHANGED <<outcome, executions>>

Refuse(k) ==
  /\ status[k] = "idle"
  /\ status' = [status EXCEPT ![k] = "done"]
  /\ outcome' = [outcome EXCEPT ![k] = "offline"]
  /\ UNCHANGED executions

Execute(k) ==
  /\ status[k] # "idle"
  /\ outcome[k] # "busy"
  /\ executions[k] = 0
  /\ executions' = [executions EXCEPT ![k] = 1]
  /\ UNCHANGED <<status, outcome>>

Return(k, o) ==
  /\ status[k] = "open"
  /\ o \in FromDevice => executions[k] = 1
  /\ o = "busy" => executions[k] = 0
  /\ status' = [status EXCEPT ![k] = "done"]
  /\ outcome' = [outcome EXCEPT ![k] = o]
  /\ UNCHANGED executions

Next ==
  \E k \in Call :
    \/ Start(k)
    \/ Refuse(k)
    \/ Execute(k)
    \/ \E o \in FromDevice \cup {"busy"} \cup Failure : Return(k, o)

Spec == Init /\ [][Next]_vars

TypeOK ==
  /\ status \in [Call -> {"idle", "open", "done"}]
  /\ outcome \in [Call -> FromDevice \cup {"busy", "none"} \cup Failure]
  /\ executions \in [Call -> {0, 1}]

\* What a caller may conclude from the outcome: an answer of the device means that the call
\* was executed, "busy" that it was not, and there is no outcome before the call is done.
\* (Manager.callWithID, rpcDispatcher.dispatch)
Truthful ==
  \A k \in Call :
    /\ outcome[k] \in FromDevice => executions[k] = 1
    /\ outcome[k] = "busy" => executions[k] = 0
    /\ outcome[k] = "none" <=> status[k] # "done"

\* Nothing takes an outcome back, nor an execution; after "busy" none begins.
\* (Manager.callWithID, rpcDispatcher.dispatch)
Kept ==
  \A k \in Call :
    /\ outcome[k] # "none" => outcome'[k] = outcome[k]
    /\ executions'[k] >= executions[k]
    /\ outcome[k] = "busy" => executions'[k] = 0

Final == [][Kept]_vars
================================================================================
