-------------------------- MODULE RelayManagerProofs --------------------------
(***************************************************************************)
(* Theorems about RelayManager, for every set of devices, connections and   *)
(* calls.  IInv strengthens the properties to an inductive invariant.       *)
(***************************************************************************)
EXTENDS RelayManager, TLAPS

Active == {"sending", "waiting", "returning"}

\* The map names registered connections that nothing has removed yet.
RouteInv ==
  /\ \A d \in Device : connectors[d] # NoConn =>
       /\ DeviceOf[connectors[d]] = d
       /\ removal[connectors[d]] = "none"
       /\ handler[connectors[d]] \notin {"new", "accepted"}
  /\ \A c \in Conn : handler[c] \in {"new", "accepted"} => removal[c] = "none"

\* Calls in progress know their connection, only they are pending, and a call that has
\* not begun has an empty channel.
CallInv ==
  /\ \A k \in Call : pc[k] = "idle" => resultCh[k] = "empty"
  /\ \A k \in Call : pc[k] \in Active => via[k] \in Conn
  /\ \A c \in Conn : \A k \in pending[c] : pc[k] \in Active

\* A refused request was taken off its connection unexecuted: it is nowhere any more.
RefusedInv(k) ==
  /\ executions[k] = 0
  /\ pc[k] \notin {"idle", "sending"}
  /\ \A c \in Conn : k \notin requests[c]

\* A request is written once, executed at most once and answered only then, or refused.
ExecutionInv ==
  /\ \A k \in Call : executions[k] \in {0, 1}
  /\ \A k \in Call : pc[k] \in {"idle", "sending"} => executions[k] = 0
  /\ \A c \in Conn : \A k \in requests[c] :
       executions[k] = 0 /\ pc[k] \notin {"idle", "sending"}
  /\ \A b, c \in Conn : \A k \in requests[b] : k \in requests[c] => b = c
  /\ \A c \in Conn : \A m \in answers[c] :
       IF m.result = "busy" THEN RefusedInv(m.call) ELSE executions[m.call] = 1
  /\ \A k \in Call : resultCh[k] \in FromDevice => executions[k] = 1
  /\ \A k \in Call : resultCh[k] = "busy" \/ outcome[k] = "busy" => RefusedInv(k)

IInv ==
  /\ TypeOK
  /\ RouteInv
  /\ CallInv
  /\ ChannelRoom
  /\ NoLostCall
  /\ NoOrphanPending
  /\ ExecutionInv

-------------------------------------------------------------------------------
\* Every action keeps the variables in their types.
LEMMA TypeStep == TypeOK /\ [Next]_vars => TypeOK'
<1> SUFFICES ASSUME TypeOK, [Next]_vars PROVE TypeOK'
  OBVIOUS
<1> USE ConstantsAssumption
<1>1. ASSUME NEW c \in Conn, Accept(c) PROVE TypeOK'
  BY <1>1 DEF Accept, TypeOK, connVars, callVars, wireVars, Answer, Result, Outcome,
        FromDevice
<1>2. ASSUME NEW c \in Conn, Register(c) PROVE TypeOK'
  BY <1>2 DEF Register, TypeOK, connVars, callVars, wireVars, Answer, Result, Outcome,
        FromDevice
<1>3. ASSUME NEW c \in Conn, Registered(c) PROVE TypeOK'
  BY <1>3 DEF Registered, TypeOK, connVars, callVars, wireVars, Answer, Result, Outcome,
        FromDevice
<1>4. ASSUME NEW c \in Conn, FailAll(c) PROVE TypeOK'
  BY <1>4 DEF FailAll, FailPending, TypeOK, connVars, callVars, wireVars, Answer, Result,
        Outcome, FromDevice
<1>5. ASSUME NEW c \in Conn, CloseRemoved(c) PROVE TypeOK'
  BY <1>5 DEF CloseRemoved, TypeOK, connVars, callVars, wireVars, Answer, Result, Outcome,
        FromDevice
<1>6. ASSUME NEW c \in Conn, ReadFails(c) PROVE TypeOK'
  BY <1>6 DEF ReadFails, TypeOK, connVars, callVars, wireVars, Answer, Result, Outcome,
        FromDevice
<1>7. ASSUME NEW c \in Conn, RejectHello(c) PROVE TypeOK'
  BY <1>7 DEF RejectHello, TypeOK, connVars, callVars, wireVars, Answer, Result, Outcome,
        FromDevice
<1>8. ASSUME NEW c \in Conn, Unregister(c) PROVE TypeOK'
  BY <1>8 DEF Unregister, IsCurrent, TypeOK, connVars, callVars, wireVars, Answer, Result,
        Outcome, FromDevice
<1>9. ASSUME NEW c \in Conn, NEW m \in answers[c], ReadAnswer(c, m) PROVE TypeOK'
  BY <1>9 DEF ReadAnswer, Finish, TypeOK, connVars, callVars, wireVars, Answer, Result,
        Outcome, FromDevice
<1>10. ASSUME NEW c \in Conn, Drop(c) PROVE TypeOK'
  BY <1>10 DEF Drop, TypeOK, connVars, callVars, wireVars, Answer, Result, Outcome,
        FromDevice
<1>11. ASSUME NEW c \in Conn, NEW k \in requests[c], NEW r \in FromDevice,
        DeviceExecutes(c, k, r) PROVE TypeOK'
  BY <1>11 DEF DeviceExecutes, TypeOK, connVars, callVars, wireVars, Answer, Result,
        Outcome, FromDevice
<1>11a. ASSUME NEW c \in Conn, NEW k \in requests[c], DeviceRefuses(c, k) PROVE TypeOK'
  BY <1>11a DEF DeviceRefuses, TypeOK, connVars, callVars, wireVars, Answer, Result,
        Outcome, FromDevice
<1>12. ASSUME NEW d \in Device, Revoke(d) PROVE TypeOK'
  BY <1>12 DEF Revoke, TypeOK, connVars, callVars, wireVars, Answer, Result, Outcome,
        FromDevice
<1>13. ASSUME NEW k \in Call, CallOffline(k) PROVE TypeOK'
  BY <1>13 DEF CallOffline, Route, TypeOK, connVars, callVars, wireVars, Answer, Result,
        Outcome, FromDevice
<1>14. ASSUME NEW k \in Call, CallBegins(k) PROVE TypeOK'
  BY <1>14 DEF CallBegins, Route, TypeOK, connVars, callVars, wireVars, Answer, Result,
        Outcome, FromDevice
<1>15. ASSUME NEW k \in Call, CallSends(k) PROVE TypeOK'
  BY <1>15 DEF CallSends, TypeOK, connVars, callVars, wireVars, Answer, Result, Outcome,
        FromDevice
<1>16. ASSUME NEW k \in Call, CallSendFails(k) PROVE TypeOK'
  <2>1. /\ UNCHANGED <<connectors, handler, replaced, removal, pending, resultCh, via, ctx,
                        answers, executions>>
        /\ pc' = [pc EXCEPT ![k] = "returning"] /\ outcome' = [outcome EXCEPT ![k] = "sendError"]
        /\ open' = open \/ open' = [open EXCEPT ![via[k]] = FALSE]
        /\ requests' = requests \/ requests' = [requests EXCEPT ![via[k]] = @ \cup {k}]
    BY <1>16 DEF CallSendFails, connVars
  <2>2. open' \in [Conn -> BOOLEAN]
    BY <2>1 DEF TypeOK
  <2>3. requests' \in [Conn -> SUBSET Call]
    BY <2>1 DEF TypeOK
  <2>4. /\ pc' \in [Call -> {"idle", "sending", "waiting", "returning", "done"}]
        /\ outcome' \in [Call -> Outcome \cup {"none"}]
    BY <2>1 DEF TypeOK, Outcome
  <2> QED
    BY <2>1, <2>2, <2>3, <2>4 DEF TypeOK
<1>17. ASSUME NEW k \in Call, CallReceives(k) PROVE TypeOK'
  BY <1>17 DEF CallReceives, TypeOK, connVars, callVars, wireVars, Answer, Result, Outcome,
        FromDevice
<1>18. ASSUME NEW k \in Call, CallExpires(k) PROVE TypeOK'
  BY <1>18 DEF CallExpires, TypeOK, connVars, callVars, wireVars, Answer, Result, Outcome,
        FromDevice
<1>19. ASSUME NEW k \in Call, CallReturns(k) PROVE TypeOK'
  BY <1>19 DEF CallReturns, TypeOK, connVars, callVars, wireVars, Answer, Result, Outcome,
        FromDevice
<1>20. ASSUME NEW k \in Call, ContextEnds(k) PROVE TypeOK'
  BY <1>20 DEF ContextEnds, TypeOK, connVars, callVars, wireVars, Answer, Result, Outcome,
        FromDevice
<1>21. CASE UNCHANGED vars
  BY <1>21 DEF vars, TypeOK, connVars, callVars, wireVars, Answer, Result, Outcome,
        FromDevice
<1>22. QED
  BY <1>1, <1>2, <1>3, <1>4, <1>5, <1>6, <1>7, <1>8, <1>9, <1>10, <1>11, <1>11a, <1>12, <1>13,
        <1>14, <1>15, <1>16, <1>17, <1>18, <1>19, <1>20, <1>21 DEF Next, ConnNext, CallNext

\* The variables of the relay keep their types.
THEOREM TypeCorrect == Spec => []TypeOK
<1>1. Init => TypeOK
  BY ConstantsAssumption DEF Init, TypeOK, Answer, Result, Outcome, FromDevice
<1>2. QED
  BY <1>1, TypeStep, PTL DEF Spec

-------------------------------------------------------------------------------
\* The rest of IInv, part by part: each lemma goes through the actions.

\* No action breaks what the map of connectors says about its entries.
LEMMA RouteStep == TypeOK /\ RouteInv /\ [Next]_vars => RouteInv'
<1> SUFFICES ASSUME TypeOK, RouteInv, [Next]_vars PROVE RouteInv'
  OBVIOUS
<1> USE ConstantsAssumption DEF TypeOK, RouteInv
<1>1. ASSUME NEW c \in Conn, Accept(c) PROVE RouteInv'
  BY <1>1 DEF Accept, IsCurrent, connVars, callVars, wireVars
<1>2. ASSUME NEW c \in Conn, Register(c) PROVE RouteInv'
  BY <1>2 DEF Register, IsCurrent, connVars, callVars, wireVars
<1>3. ASSUME NEW c \in Conn, Registered(c) PROVE RouteInv'
  BY <1>3 DEF Registered, IsCurrent, connVars, callVars, wireVars
<1>4. ASSUME NEW c \in Conn, FailAll(c) PROVE RouteInv'
  BY <1>4 DEF FailAll, FailPending, IsCurrent, connVars, callVars, wireVars
<1>5. ASSUME NEW c \in Conn, CloseRemoved(c) PROVE RouteInv'
  BY <1>5 DEF CloseRemoved, IsCurrent, connVars, callVars, wireVars
<1>6. ASSUME NEW c \in Conn, ReadFails(c) PROVE RouteInv'
  BY <1>6 DEF ReadFails, IsCurrent, connVars, callVars, wireVars
<1>7. ASSUME NEW c \in Conn, RejectHello(c) PROVE RouteInv'
  BY <1>7 DEF RejectHello, IsCurrent, connVars, callVars, wireVars
<1>8. ASSUME NEW c \in Conn, Unregister(c) PROVE RouteInv'
  BY <1>8 DEF Unregister, IsCurrent, connVars, callVars, wireVars
<1>9. ASSUME NEW c \in Conn, NEW m \in answers[c], ReadAnswer(c, m) PROVE RouteInv'
  BY <1>9 DEF ReadAnswer, Finish, IsCurrent, connVars, callVars, wireVars
<1>10. ASSUME NEW c \in Conn, Drop(c) PROVE RouteInv'
  BY <1>10 DEF Drop, IsCurrent, connVars, callVars, wireVars
<1>11. ASSUME NEW c \in Conn, NEW k \in requests[c], NEW r \in FromDevice,
        DeviceExecutes(c, k, r) PROVE RouteInv'
  BY <1>11 DEF DeviceExecutes, IsCurrent, connVars, callVars, wireVars
<1>11a. ASSUME NEW c \in Conn, NEW k \in requests[c], DeviceRefuses(c, k) PROVE RouteInv'
  BY <1>11a DEF DeviceRefuses, IsCurrent, connVars, callVars, wireVars
<1>12. ASSUME NEW d \in Device, Revoke(d) PROVE RouteInv'
  BY <1>12 DEF Revoke, IsCurrent, connVars, callVars, wireVars
<1>13. ASSUME NEW k \in Call, CallOffline(k) PROVE RouteInv'
  BY <1>13 DEF CallOffline, Route, IsCurrent, connVars, callVars, wireVars
<1>14. ASSUME NEW k \in Call, CallBegins(k) PROVE RouteInv'
  BY <1>14 DEF CallBegins, Route, IsCurrent, connVars, callVars, wireVars
<1>15. ASSUME NEW k \in Call, CallSends(k) PROVE RouteInv'
  BY <1>15 DEF CallSends, IsCurrent, connVars, callVars, wireVars
<1>16. ASSUME NEW k \in Call, CallSendFails(k) PROVE RouteInv'
  BY <1>16 DEF CallSendFails, IsCurrent, connVars, callVars, wireVars
<1>17. ASSUME NEW k \in Call, CallReceives(k) PROVE RouteInv'
  BY <1>17 DEF CallReceives, IsCurrent, connVars, callVars, wireVars
<1>18. ASSUME NEW k \in Call, CallExpires(k) PROVE RouteInv'
  BY <1>18 DEF CallExpires, IsCurrent, connVars, callVars, wireVars
<1>19. ASSUME NEW k \in Call, CallReturns(k) PROVE RouteInv'
  BY <1>19 DEF CallReturns, IsCurrent, connVars, callVars, wireVars
<1>20. ASSUME NEW k \in Call, ContextEnds(k) PROVE RouteInv'
  BY <1>20 DEF ContextEnds, IsCurrent, connVars, callVars, wireVars
<1>21. CASE UNCHANGED vars
  BY <1>21 DEF vars, IsCurrent, connVars, callVars, wireVars
<1>22. QED
  BY <1>1, <1>2, <1>3, <1>4, <1>5, <1>6, <1>7, <1>8, <1>9, <1>10, <1>11, <1>11a, <1>12, <1>13,
        <1>14, <1>15, <1>16, <1>17, <1>18, <1>19, <1>20, <1>21 DEF Next, ConnNext, CallNext

\* No action breaks the link between a call's program counter, its connection and its
\* pending entries.
LEMMA CallStep ==
  TypeOK /\ CallInv /\ NoOrphanPending /\ [Next]_vars => CallInv'
<1> SUFFICES ASSUME TypeOK, CallInv, NoOrphanPending, [Next]_vars PROVE CallInv'
  OBVIOUS
<1> USE ConstantsAssumption DEF TypeOK, CallInv, Active, NoOrphanPending, Answer
<1>1. ASSUME NEW c \in Conn, Accept(c) PROVE CallInv'
  BY <1>1 DEF Accept, connVars, callVars, wireVars
<1>2. ASSUME NEW c \in Conn, Register(c) PROVE CallInv'
  BY <1>2 DEF Register, connVars, callVars, wireVars
<1>3. ASSUME NEW c \in Conn, Registered(c) PROVE CallInv'
  BY <1>3 DEF Registered, connVars, callVars, wireVars
<1>4. ASSUME NEW c \in Conn, FailAll(c) PROVE CallInv'
  BY <1>4 DEF FailAll, FailPending, connVars, callVars, wireVars
<1>5. ASSUME NEW c \in Conn, CloseRemoved(c) PROVE CallInv'
  BY <1>5 DEF CloseRemoved, connVars, callVars, wireVars
<1>6. ASSUME NEW c \in Conn, ReadFails(c) PROVE CallInv'
  BY <1>6 DEF ReadFails, connVars, callVars, wireVars
<1>7. ASSUME NEW c \in Conn, RejectHello(c) PROVE CallInv'
  BY <1>7 DEF RejectHello, connVars, callVars, wireVars
<1>8. ASSUME NEW c \in Conn, Unregister(c) PROVE CallInv'
  BY <1>8 DEF Unregister, connVars, callVars, wireVars
<1>9. ASSUME NEW c \in Conn, NEW m \in answers[c], ReadAnswer(c, m) PROVE CallInv'
  BY <1>9 DEF ReadAnswer, Finish, connVars, callVars, wireVars
<1>10. ASSUME NEW c \in Conn, Drop(c) PROVE CallInv'
  BY <1>10 DEF Drop, connVars, callVars, wireVars
<1>11. ASSUME NEW c \in Conn, NEW k \in requests[c], NEW r \in FromDevice,
        DeviceExecutes(c, k, r) PROVE CallInv'
  BY <1>11 DEF DeviceExecutes, connVars, callVars, wireVars
<1>11a. ASSUME NEW c \in Conn, NEW k \in requests[c], DeviceRefuses(c, k) PROVE CallInv'
  BY <1>11a DEF DeviceRefuses, connVars, callVars, wireVars
<1>12. ASSUME NEW d \in Device, Revoke(d) PROVE CallInv'
  BY <1>12 DEF Revoke, connVars, callVars, wireVars
<1>13. ASSUME NEW k \in Call, CallOffline(k) PROVE CallInv'
  BY <1>13 DEF CallOffline, Route, connVars, callVars, wireVars
<1>14. ASSUME NEW k \in Call, CallBegins(k) PROVE CallInv'
  BY <1>14 DEF CallBegins, Route, connVars, callVars, wireVars
<1>15. ASSUME NEW k \in Call, CallSends(k) PROVE CallInv'
  BY <1>15 DEF CallSends, connVars, callVars, wireVars
<1>16. ASSUME NEW k \in Call, CallSendFails(k) PROVE CallInv'
  BY <1>16 DEF CallSendFails, connVars, callVars, wireVars
<1>17. ASSUME NEW k \in Call, CallReceives(k) PROVE CallInv'
  BY <1>17 DEF CallReceives, connVars, callVars, wireVars
<1>18. ASSUME NEW k \in Call, CallExpires(k) PROVE CallInv'
  BY <1>18 DEF CallExpires, connVars, callVars, wireVars
<1>19. ASSUME NEW k \in Call, CallReturns(k) PROVE CallInv'
  BY <1>19 DEF CallReturns, connVars, callVars, wireVars
<1>20. ASSUME NEW k \in Call, ContextEnds(k) PROVE CallInv'
  BY <1>20 DEF ContextEnds, connVars, callVars, wireVars
<1>21. CASE UNCHANGED vars
  BY <1>21 DEF vars, connVars, callVars, wireVars
<1>22. QED
  BY <1>1, <1>2, <1>3, <1>4, <1>5, <1>6, <1>7, <1>8, <1>9, <1>10, <1>11, <1>11a, <1>12, <1>13,
        <1>14, <1>15, <1>16, <1>17, <1>18, <1>19, <1>20, <1>21 DEF Next, ConnNext, CallNext

\* No action leaves a pending entry on a connection that failAll has swept.
LEMMA OrphanStep ==
  TypeOK /\ RouteInv /\ CallInv /\ NoOrphanPending /\ [Next]_vars => NoOrphanPending'
<1> SUFFICES ASSUME TypeOK, RouteInv, CallInv, NoOrphanPending, [Next]_vars
             PROVE NoOrphanPending'
  OBVIOUS
<1> USE ConstantsAssumption DEF TypeOK, RouteInv, CallInv, Active, NoOrphanPending,
      IsCurrent, Answer
<1>1. ASSUME NEW c \in Conn, Accept(c) PROVE NoOrphanPending'
  BY <1>1 DEF Accept, connVars, callVars, wireVars
<1>2. ASSUME NEW c \in Conn, Register(c) PROVE NoOrphanPending'
  BY <1>2 DEF Register, connVars, callVars, wireVars
<1>3. ASSUME NEW c \in Conn, Registered(c) PROVE NoOrphanPending'
  BY <1>3 DEF Registered, connVars, callVars, wireVars
<1>4. ASSUME NEW c \in Conn, FailAll(c) PROVE NoOrphanPending'
  BY <1>4 DEF FailAll, FailPending, connVars, callVars, wireVars
<1>5. ASSUME NEW c \in Conn, CloseRemoved(c) PROVE NoOrphanPending'
  BY <1>5 DEF CloseRemoved, connVars, callVars, wireVars
<1>6. ASSUME NEW c \in Conn, ReadFails(c) PROVE NoOrphanPending'
  BY <1>6 DEF ReadFails, connVars, callVars, wireVars
<1>7. ASSUME NEW c \in Conn, RejectHello(c) PROVE NoOrphanPending'
  BY <1>7 DEF RejectHello, connVars, callVars, wireVars
<1>8. ASSUME NEW c \in Conn, Unregister(c) PROVE NoOrphanPending'
  BY <1>8 DEF Unregister, connVars, callVars, wireVars
<1>9. ASSUME NEW c \in Conn, NEW m \in answers[c], ReadAnswer(c, m) PROVE NoOrphanPending'
  BY <1>9 DEF ReadAnswer, Finish, connVars, callVars, wireVars
<1>10. ASSUME NEW c \in Conn, Drop(c) PROVE NoOrphanPending'
  BY <1>10 DEF Drop, connVars, callVars, wireVars
<1>11. ASSUME NEW c \in Conn, NEW k \in requests[c], NEW r \in FromDevice,
        DeviceExecutes(c, k, r) PROVE NoOrphanPending'
  BY <1>11 DEF DeviceExecutes, connVars, callVars, wireVars
<1>11a. ASSUME NEW c \in Conn, NEW k \in requests[c], DeviceRefuses(c, k) PROVE NoOrphanPending'
  BY <1>11a DEF DeviceRefuses, connVars, callVars, wireVars
<1>12. ASSUME NEW d \in Device, Revoke(d) PROVE NoOrphanPending'
  BY <1>12 DEF Revoke, connVars, callVars, wireVars
<1>13. ASSUME NEW k \in Call, CallOffline(k) PROVE NoOrphanPending'
  BY <1>13 DEF CallOffline, Route, connVars, callVars, wireVars
<1>14. ASSUME NEW k \in Call, CallBegins(k) PROVE NoOrphanPending'
  BY <1>14 DEF CallBegins, Route, connVars, callVars, wireVars
<1>15. ASSUME NEW k \in Call, CallSends(k) PROVE NoOrphanPending'
  BY <1>15 DEF CallSends, connVars, callVars, wireVars
<1>16. ASSUME NEW k \in Call, CallSendFails(k) PROVE NoOrphanPending'
  BY <1>16 DEF CallSendFails, connVars, callVars, wireVars
<1>17. ASSUME NEW k \in Call, CallReceives(k) PROVE NoOrphanPending'
  BY <1>17 DEF CallReceives, connVars, callVars, wireVars
<1>18. ASSUME NEW k \in Call, CallExpires(k) PROVE NoOrphanPending'
  BY <1>18 DEF CallExpires, connVars, callVars, wireVars
<1>19. ASSUME NEW k \in Call, CallReturns(k) PROVE NoOrphanPending'
  BY <1>19 DEF CallReturns, connVars, callVars, wireVars
<1>20. ASSUME NEW k \in Call, ContextEnds(k) PROVE NoOrphanPending'
  BY <1>20 DEF ContextEnds, connVars, callVars, wireVars
<1>21. CASE UNCHANGED vars
  BY <1>21 DEF vars, connVars, callVars, wireVars
<1>22. QED
  BY <1>1, <1>2, <1>3, <1>4, <1>5, <1>6, <1>7, <1>8, <1>9, <1>10, <1>11, <1>11a, <1>12, <1>13,
        <1>14, <1>15, <1>16, <1>17, <1>18, <1>19, <1>20, <1>21 DEF Next, ConnNext, CallNext

\* No action fills the channel of a call that is still pending.
LEMMA ChannelStep ==
  TypeOK /\ CallInv /\ NoOrphanPending /\ ChannelRoom /\ [Next]_vars => ChannelRoom'
<1> SUFFICES ASSUME TypeOK, CallInv, NoOrphanPending, ChannelRoom, [Next]_vars
             PROVE ChannelRoom'
  OBVIOUS
<1> USE ConstantsAssumption DEF TypeOK, CallInv, Active, NoOrphanPending, ChannelRoom,
      Answer
<1>1. ASSUME NEW c \in Conn, Accept(c) PROVE ChannelRoom'
  BY <1>1 DEF Accept, connVars, callVars, wireVars
<1>2. ASSUME NEW c \in Conn, Register(c) PROVE ChannelRoom'
  BY <1>2 DEF Register, connVars, callVars, wireVars
<1>3. ASSUME NEW c \in Conn, Registered(c) PROVE ChannelRoom'
  BY <1>3 DEF Registered, connVars, callVars, wireVars
<1>4. ASSUME NEW c \in Conn, FailAll(c) PROVE ChannelRoom'
  BY <1>4 DEF FailAll, FailPending, connVars, callVars, wireVars
<1>5. ASSUME NEW c \in Conn, CloseRemoved(c) PROVE ChannelRoom'
  BY <1>5 DEF CloseRemoved, connVars, callVars, wireVars
<1>6. ASSUME NEW c \in Conn, ReadFails(c) PROVE ChannelRoom'
  BY <1>6 DEF ReadFails, connVars, callVars, wireVars
<1>7. ASSUME NEW c \in Conn, RejectHello(c) PROVE ChannelRoom'
  BY <1>7 DEF RejectHello, connVars, callVars, wireVars
<1>8. ASSUME NEW c \in Conn, Unregister(c) PROVE ChannelRoom'
  BY <1>8 DEF Unregister, connVars, callVars, wireVars
<1>9. ASSUME NEW c \in Conn, NEW m \in answers[c], ReadAnswer(c, m) PROVE ChannelRoom'
  BY <1>9 DEF ReadAnswer, Finish, connVars, callVars, wireVars
<1>10. ASSUME NEW c \in Conn, Drop(c) PROVE ChannelRoom'
  BY <1>10 DEF Drop, connVars, callVars, wireVars
<1>11. ASSUME NEW c \in Conn, NEW k \in requests[c], NEW r \in FromDevice,
        DeviceExecutes(c, k, r) PROVE ChannelRoom'
  BY <1>11 DEF DeviceExecutes, connVars, callVars, wireVars
<1>11a. ASSUME NEW c \in Conn, NEW k \in requests[c], DeviceRefuses(c, k) PROVE ChannelRoom'
  BY <1>11a DEF DeviceRefuses, connVars, callVars, wireVars
<1>12. ASSUME NEW d \in Device, Revoke(d) PROVE ChannelRoom'
  BY <1>12 DEF Revoke, connVars, callVars, wireVars
<1>13. ASSUME NEW k \in Call, CallOffline(k) PROVE ChannelRoom'
  BY <1>13 DEF CallOffline, Route, connVars, callVars, wireVars
<1>14. ASSUME NEW k \in Call, CallBegins(k) PROVE ChannelRoom'
  BY <1>14 DEF CallBegins, Route, connVars, callVars, wireVars
<1>15. ASSUME NEW k \in Call, CallSends(k) PROVE ChannelRoom'
  BY <1>15 DEF CallSends, connVars, callVars, wireVars
<1>16. ASSUME NEW k \in Call, CallSendFails(k) PROVE ChannelRoom'
  BY <1>16 DEF CallSendFails, connVars, callVars, wireVars
<1>17. ASSUME NEW k \in Call, CallReceives(k) PROVE ChannelRoom'
  BY <1>17 DEF CallReceives, connVars, callVars, wireVars
<1>18. ASSUME NEW k \in Call, CallExpires(k) PROVE ChannelRoom'
  BY <1>18 DEF CallExpires, connVars, callVars, wireVars
<1>19. ASSUME NEW k \in Call, CallReturns(k) PROVE ChannelRoom'
  BY <1>19 DEF CallReturns, connVars, callVars, wireVars
<1>20. ASSUME NEW k \in Call, ContextEnds(k) PROVE ChannelRoom'
  BY <1>20 DEF ContextEnds, connVars, callVars, wireVars
<1>21. CASE UNCHANGED vars
  BY <1>21 DEF vars, connVars, callVars, wireVars
<1>22. QED
  BY <1>1, <1>2, <1>3, <1>4, <1>5, <1>6, <1>7, <1>8, <1>9, <1>10, <1>11, <1>11a, <1>12, <1>13,
        <1>14, <1>15, <1>16, <1>17, <1>18, <1>19, <1>20, <1>21 DEF Next, ConnNext, CallNext

\* No action takes the pending entry of a waiting call without a result for it.
LEMMA LostStep ==
  TypeOK /\ CallInv /\ NoOrphanPending /\ ChannelRoom /\ NoLostCall /\ [Next]_vars => NoLostCall'
<1> SUFFICES ASSUME TypeOK, CallInv, NoOrphanPending, ChannelRoom, NoLostCall, [Next]_vars
             PROVE NoLostCall'
  OBVIOUS
<1> USE ConstantsAssumption
    DEF TypeOK, CallInv, Active, NoOrphanPending, ChannelRoom, NoLostCall, Answer,
          FromDevice
<1>1. ASSUME NEW c \in Conn, Accept(c) PROVE NoLostCall'
  BY <1>1 DEF Accept, connVars, callVars, wireVars
<1>2. ASSUME NEW c \in Conn, Register(c) PROVE NoLostCall'
  BY <1>2 DEF Register, connVars, callVars, wireVars
<1>3. ASSUME NEW c \in Conn, Registered(c) PROVE NoLostCall'
  BY <1>3 DEF Registered, connVars, callVars, wireVars
<1>4. ASSUME NEW c \in Conn, FailAll(c) PROVE NoLostCall'
  BY <1>4 DEF FailAll, FailPending, connVars, callVars, wireVars
<1>5. ASSUME NEW c \in Conn, CloseRemoved(c) PROVE NoLostCall'
  BY <1>5 DEF CloseRemoved, connVars, callVars, wireVars
<1>6. ASSUME NEW c \in Conn, ReadFails(c) PROVE NoLostCall'
  BY <1>6 DEF ReadFails, connVars, callVars, wireVars
<1>7. ASSUME NEW c \in Conn, RejectHello(c) PROVE NoLostCall'
  BY <1>7 DEF RejectHello, connVars, callVars, wireVars
<1>8. ASSUME NEW c \in Conn, Unregister(c) PROVE NoLostCall'
  BY <1>8 DEF Unregister, connVars, callVars, wireVars
<1>9. ASSUME NEW c \in Conn, NEW m \in answers[c], ReadAnswer(c, m) PROVE NoLostCall'
  <2>1. m.call \in Call /\ m.result # "empty" /\ UNCHANGED <<pc, via>>
    BY <1>9 DEF ReadAnswer, callVars
  <2>2. /\ pending' = [pending EXCEPT ![c] = @ \ {m.call}]
        /\ resultCh' = IF m.call \in pending[c] THEN [resultCh EXCEPT ![m.call] = m.result]
                                               ELSE resultCh
    BY <1>9 DEF ReadAnswer, Finish
  <2>3. ASSUME NEW k \in Call, pc[k] \in {"sending", "waiting"}
        PROVE  k \in pending'[via[k]] \/ resultCh'[k] # "empty"
    <3>1. CASE k = m.call /\ k \in pending[c]
      BY <2>1, <2>2, <3>1
    <3>2. CASE ~(k = m.call /\ k \in pending[c])
      BY <2>1, <2>2, <2>3, <3>2
    <3> QED
      BY <3>1, <3>2
  <2> QED
    BY <2>1, <2>3
<1>10. ASSUME NEW c \in Conn, Drop(c) PROVE NoLostCall'
  BY <1>10 DEF Drop, connVars, callVars, wireVars
<1>11. ASSUME NEW c \in Conn, NEW k \in requests[c], NEW r \in FromDevice,
        DeviceExecutes(c, k, r) PROVE NoLostCall'
  BY <1>11 DEF DeviceExecutes, connVars, callVars, wireVars
<1>11a. ASSUME NEW c \in Conn, NEW k \in requests[c], DeviceRefuses(c, k) PROVE NoLostCall'
  BY <1>11a DEF DeviceRefuses, connVars, callVars, wireVars
<1>12. ASSUME NEW d \in Device, Revoke(d) PROVE NoLostCall'
  BY <1>12 DEF Revoke, connVars, callVars, wireVars
<1>13. ASSUME NEW k \in Call, CallOffline(k) PROVE NoLostCall'
  BY <1>13 DEF CallOffline, Route, connVars, callVars, wireVars
<1>14. ASSUME NEW k \in Call, CallBegins(k) PROVE NoLostCall'
  BY <1>14 DEF CallBegins, Route, connVars, callVars, wireVars
<1>15. ASSUME NEW k \in Call, CallSends(k) PROVE NoLostCall'
  BY <1>15 DEF CallSends, connVars, callVars, wireVars
<1>16. ASSUME NEW k \in Call, CallSendFails(k) PROVE NoLostCall'
  BY <1>16 DEF CallSendFails, connVars, callVars, wireVars
<1>17. ASSUME NEW k \in Call, CallReceives(k) PROVE NoLostCall'
  BY <1>17 DEF CallReceives, connVars, callVars, wireVars
<1>18. ASSUME NEW k \in Call, CallExpires(k) PROVE NoLostCall'
  BY <1>18 DEF CallExpires, connVars, callVars, wireVars
<1>19. ASSUME NEW k \in Call, CallReturns(k) PROVE NoLostCall'
  BY <1>19 DEF CallReturns, connVars, callVars, wireVars
<1>20. ASSUME NEW k \in Call, ContextEnds(k) PROVE NoLostCall'
  BY <1>20 DEF ContextEnds, connVars, callVars, wireVars
<1>21. CASE UNCHANGED vars
  BY <1>21 DEF vars, connVars, callVars, wireVars
<1>22. QED
  BY <1>1, <1>2, <1>3, <1>4, <1>5, <1>6, <1>7, <1>8, <1>9, <1>10, <1>11, <1>11a, <1>12, <1>13,
        <1>14, <1>15, <1>16, <1>17, <1>18, <1>19, <1>20, <1>21 DEF Next, ConnNext, CallNext

\* No action writes a request twice, executes it twice or answers it unexecuted.
LEMMA ExecutionStep ==
  TypeOK /\ CallInv /\ ExecutionInv /\ [Next]_vars => ExecutionInv'
<1> SUFFICES ASSUME TypeOK, CallInv, ExecutionInv, [Next]_vars PROVE ExecutionInv'
  OBVIOUS
<1> USE ConstantsAssumption DEF TypeOK, CallInv, Active, ExecutionInv, RefusedInv, Answer,
      FromDevice
<1>1. ASSUME NEW c \in Conn, Accept(c) PROVE ExecutionInv'
  BY <1>1 DEF Accept, connVars, callVars, wireVars
<1>2. ASSUME NEW c \in Conn, Register(c) PROVE ExecutionInv'
  BY <1>2 DEF Register, connVars, callVars, wireVars
<1>3. ASSUME NEW c \in Conn, Registered(c) PROVE ExecutionInv'
  BY <1>3 DEF Registered, connVars, callVars, wireVars
<1>4. ASSUME NEW c \in Conn, FailAll(c) PROVE ExecutionInv'
  BY <1>4 DEF FailAll, FailPending, connVars, callVars, wireVars
<1>5. ASSUME NEW c \in Conn, CloseRemoved(c) PROVE ExecutionInv'
  BY <1>5 DEF CloseRemoved, connVars, callVars, wireVars
<1>6. ASSUME NEW c \in Conn, ReadFails(c) PROVE ExecutionInv'
  BY <1>6 DEF ReadFails, connVars, callVars, wireVars
<1>7. ASSUME NEW c \in Conn, RejectHello(c) PROVE ExecutionInv'
  BY <1>7 DEF RejectHello, connVars, callVars, wireVars
<1>8. ASSUME NEW c \in Conn, Unregister(c) PROVE ExecutionInv'
  BY <1>8 DEF Unregister, connVars, callVars, wireVars
<1>9. ASSUME NEW c \in Conn, NEW m \in answers[c], ReadAnswer(c, m) PROVE ExecutionInv'
  BY <1>9 DEF ReadAnswer, Finish, connVars, callVars, wireVars
<1>10. ASSUME NEW c \in Conn, Drop(c) PROVE ExecutionInv'
  BY <1>10 DEF Drop, connVars, callVars, wireVars
<1>11. ASSUME NEW c \in Conn, NEW k \in requests[c], NEW r \in FromDevice,
        DeviceExecutes(c, k, r) PROVE ExecutionInv'
  BY <1>11 DEF DeviceExecutes, connVars, callVars, wireVars
<1>11a. ASSUME NEW c \in Conn, NEW k \in requests[c], DeviceRefuses(c, k) PROVE ExecutionInv'
  BY <1>11a DEF DeviceRefuses, connVars, callVars, wireVars
<1>12. ASSUME NEW d \in Device, Revoke(d) PROVE ExecutionInv'
  BY <1>12 DEF Revoke, connVars, callVars, wireVars
<1>13. ASSUME NEW k \in Call, CallOffline(k) PROVE ExecutionInv'
  BY <1>13 DEF CallOffline, Route, connVars, callVars, wireVars
<1>14. ASSUME NEW k \in Call, CallBegins(k) PROVE ExecutionInv'
  BY <1>14 DEF CallBegins, Route, connVars, callVars, wireVars
<1>15. ASSUME NEW k \in Call, CallSends(k) PROVE ExecutionInv'
  BY <1>15 DEF CallSends, connVars, callVars, wireVars
<1>16. ASSUME NEW k \in Call, CallSendFails(k) PROVE ExecutionInv'
  <2>1. CASE UNCHANGED requests
    BY <1>16, <2>1 DEF CallSendFails, connVars
  <2>2. CASE requests' = [requests EXCEPT ![via[k]] = @ \cup {k}]
    BY <1>16, <2>2 DEF CallSendFails, connVars
  <2> QED
    BY <1>16, <2>1, <2>2 DEF CallSendFails
<1>17. ASSUME NEW k \in Call, CallReceives(k) PROVE ExecutionInv'
  BY <1>17 DEF CallReceives, connVars, callVars, wireVars
<1>18. ASSUME NEW k \in Call, CallExpires(k) PROVE ExecutionInv'
  BY <1>18 DEF CallExpires, connVars, callVars, wireVars
<1>19. ASSUME NEW k \in Call, CallReturns(k) PROVE ExecutionInv'
  BY <1>19 DEF CallReturns, connVars, callVars, wireVars
<1>20. ASSUME NEW k \in Call, ContextEnds(k) PROVE ExecutionInv'
  BY <1>20 DEF ContextEnds, connVars, callVars, wireVars
<1>21. CASE UNCHANGED vars
  BY <1>21 DEF vars, connVars, callVars, wireVars
<1>22. QED
  BY <1>1, <1>2, <1>3, <1>4, <1>5, <1>6, <1>7, <1>8, <1>9, <1>10, <1>11, <1>11a, <1>12, <1>13,
        <1>14, <1>15, <1>16, <1>17, <1>18, <1>19, <1>20, <1>21 DEF Next, ConnNext, CallNext

-------------------------------------------------------------------------------
\* IInv holds in every reachable state.
LEMMA Invariance == Spec => []IInv
<1>1. Init => IInv
  BY ConstantsAssumption
     DEF Init, IInv, TypeOK, RouteInv, CallInv, ChannelRoom, NoLostCall, NoOrphanPending,
         ExecutionInv, RefusedInv, Active, Answer, Result, Outcome, FromDevice
<1>2. IInv /\ [Next]_vars => IInv'
  BY TypeStep, RouteStep, CallStep, OrphanStep, ChannelStep, LostStep,
        ExecutionStep DEF IInv
<1>3. QED
  BY <1>1, <1>2, PTL DEF Spec

\* Sending a result never blocks the goroutine that holds a connection's mu.
THEOREM ChannelsHaveRoom == Spec => []ChannelRoom
BY Invariance, PTL DEF IInv

\* No call waits for a result that nobody is going to send.
THEOREM CallsAreNotLost == Spec => []NoLostCall
BY Invariance, PTL DEF IInv

\* No call is pending on a connection whose failAll has run.
THEOREM NothingPendsOnDeadConnections == Spec => []NoOrphanPending
BY Invariance, PTL DEF IInv

-------------------------------------------------------------------------------
\* The connections that Register, Revoke and Unregister leave behind.

\* A registered connection that is not the device's any more is closed, or whoever took it out
\* of the map is still to close it.  Several may be open at once while a device reconnects, but
\* none of them stays.
NoConnForgotten ==
  \A c \in Conn :
    handler[c] \in {"registering", "serving"} /\ ~IsCurrent(c) =>
      ~open[c] \/ removal[c] \in {"removed", "failed"}

LEMMA ForgottenStep ==
  TypeOK /\ RouteInv /\ NoConnForgotten /\ [Next]_vars => NoConnForgotten'
<1> SUFFICES ASSUME TypeOK, RouteInv, NoConnForgotten, [Next]_vars PROVE NoConnForgotten'
  OBVIOUS
<1> DEFINE Aside == /\ connectors' = connectors /\ removal' = removal
                    /\ \A c \in Conn : /\ handler'[c] \in {handler[c], "leaving"}
                                       /\ open'[c] => open[c]
<1> USE ConstantsAssumption DEF TypeOK, NoConnForgotten, IsCurrent
<1>1. ASSUME NEW c \in Conn, Accept(c) PROVE NoConnForgotten'
  BY <1>1 DEF Accept
<1>2. ASSUME NEW c \in Conn, Register(c) PROVE NoConnForgotten'
  BY <1>2 DEF Register, RouteInv
<1>3. ASSUME NEW c \in Conn, Registered(c) PROVE NoConnForgotten'
  BY <1>3 DEF Registered
<1>4. ASSUME NEW c \in Conn, FailAll(c) PROVE NoConnForgotten'
  BY <1>4 DEF FailAll
<1>5. ASSUME NEW c \in Conn, CloseRemoved(c) PROVE NoConnForgotten'
  BY <1>5 DEF CloseRemoved
<1>6. ASSUME NEW c \in Conn, Unregister(c) PROVE NoConnForgotten'
  BY <1>6 DEF Unregister
<1>7. ASSUME NEW d \in Device, Revoke(d) PROVE NoConnForgotten'
  BY <1>7 DEF Revoke, RouteInv
<1>8. ASSUME Aside PROVE NoConnForgotten'
  BY <1>8
<1>9. ASSUME NEW c \in Conn,
             \/ ReadFails(c) \/ RejectHello(c) \/ Drop(c)
             \/ \E m \in answers[c] : ReadAnswer(c, m)
             \/ \E k \in requests[c], r \in FromDevice : DeviceExecutes(c, k, r)
             \/ \E k \in requests[c] : DeviceRefuses(c, k)
      PROVE  Aside
  BY <1>9 DEF ReadFails, RejectHello, Drop, ReadAnswer, DeviceExecutes, DeviceRefuses, connVars
<1>10. ASSUME NEW k \in Call, CallNext(k) PROVE Aside
  BY <1>10 DEF CallNext, CallOffline, CallBegins, CallSends, CallSendFails, CallReceives,
       CallExpires, CallReturns, ContextEnds, connVars
<1>11. CASE UNCHANGED vars
  BY <1>11 DEF vars, connVars
<1> HIDE DEF NoConnForgotten, Aside
<1> QED
  BY <1>1, <1>2, <1>3, <1>4, <1>5, <1>6, <1>7, <1>8, <1>9, <1>10, <1>11 DEF Next, ConnNext

\* However a device's connections replace each other and are revoked, each one that lost its
\* place in the map is closed by whoever took it (Register, Revoke, ServeHTTP).
THEOREM LostConnectionsClose == Spec => []NoConnForgotten
<1>1. Init => NoConnForgotten
  BY DEF Init, NoConnForgotten
<1>2. IInv => TypeOK /\ RouteInv
  BY DEF IInv
<1> QED
  BY <1>1, <1>2, Invariance, ForgottenStep, PTL DEF Spec

-------------------------------------------------------------------------------
\* The relay implements the caller's view of a remote call.

\* The relay starts where RemoteCall starts.
LEMMA RemoteInit == Init => Remote!Init
BY DEF Init, Remote!Init, RemoteStatus

\* Each step of the relay is the caller's step named in its proof, or none.
LEMMA RemoteStep == IInv /\ [Next]_vars => [Remote!Next]_Remote!vars
<1> SUFFICES ASSUME IInv, [Next]_vars PROVE [Remote!Next]_Remote!vars
  OBVIOUS
<1> USE DEF IInv, TypeOK, FromDevice, Outcome, Result
<1>1. ASSUME UNCHANGED <<pc, outcome, executions>> PROVE UNCHANGED Remote!vars
  BY <1>1 DEF Remote!vars, RemoteStatus
<1>2. ASSUME NEW c \in Conn,
             ConnNext(c), ~ \E k \in requests[c], r \in FromDevice : DeviceExecutes(c, k, r)
      PROVE  UNCHANGED <<pc, outcome, executions>>
  <2>1. CASE \E m \in answers[c] : ReadAnswer(c, m)
    BY <2>1 DEF ReadAnswer, callVars
  <2>2. CASE \/ Accept(c) \/ Register(c) \/ Registered(c) \/ FailAll(c) \/ CloseRemoved(c)
    BY <2>2 DEF Accept, Register, Registered, FailAll, CloseRemoved, callVars, wireVars
  <2>3. CASE ReadFails(c) \/ RejectHello(c) \/ Unregister(c) \/ Drop(c)
    BY <2>3 DEF ReadFails, RejectHello, Unregister, Drop, callVars, wireVars
  <2>4. CASE \E k \in requests[c] : DeviceRefuses(c, k)
    BY <2>4 DEF DeviceRefuses, callVars
  <2>5. QED
    BY <1>2, <2>1, <2>2, <2>3, <2>4 DEF ConnNext
<1>3. ASSUME NEW c \in Conn, NEW k \in requests[c], NEW r \in FromDevice, DeviceExecutes(c,
      k, r)
      PROVE  k \in Call /\ Remote!Execute(k)
  <2>1. k \in Call /\ executions[k] = 0 /\ pc[k] # "idle" /\ outcome[k] # "busy"
    BY DEF ExecutionInv, RefusedInv
  <2>2. executions' = [executions EXCEPT ![k] = 1] /\ UNCHANGED <<pc, outcome>>
    BY <1>3, <2>1 DEF DeviceExecutes, callVars
  <2>3. RemoteStatus[k] # "idle" /\ UNCHANGED RemoteStatus
    BY <2>1, <2>2 DEF RemoteStatus
  <2>4. QED
    BY <2>1, <2>2, <2>3 DEF Remote!Execute
<1>4. ASSUME NEW d \in Device, Revoke(d) PROVE UNCHANGED <<pc, outcome, executions>>
  BY <1>4 DEF Revoke, callVars, wireVars
<1>5. ASSUME NEW k \in Call, CallOffline(k) PROVE Remote!Refuse(k)
  BY <1>5 DEF CallOffline, Remote!Refuse, RemoteStatus, wireVars
<1>6. ASSUME NEW k \in Call, CallBegins(k) PROVE Remote!Start(k)
  <2>1. /\ pc[k] = "idle" /\ pc' = [pc EXCEPT ![k] = "sending"]
        /\ UNCHANGED <<outcome, executions>>
    BY <1>6 DEF CallBegins, wireVars
  <2>2. QED
    BY <2>1 DEF Remote!Start, RemoteStatus
<1>7. ASSUME NEW k \in Call, CallSends(k) PROVE UNCHANGED Remote!vars
  BY <1>7 DEF CallSends, Remote!vars, RemoteStatus
<1>8. ASSUME NEW k \in Call, CallSendFails(k) PROVE Remote!Return(k, "sendError")
  BY <1>8 DEF CallSendFails, Remote!Return, Remote!FromDevice, RemoteStatus, wireVars
<1>9. ASSUME NEW k \in Call, CallReceives(k) PROVE Remote!Return(k, resultCh[k])
  BY <1>9 DEF CallReceives, Remote!Return, Remote!FromDevice, RemoteStatus, wireVars,
        ExecutionInv, RefusedInv
<1>10. ASSUME NEW k \in Call, CallExpires(k) PROVE Remote!Return(k, "expired")
  BY <1>10 DEF CallExpires, Remote!Return, Remote!FromDevice, RemoteStatus, wireVars
<1>11. ASSUME NEW k \in Call, CallReturns(k) PROVE UNCHANGED Remote!vars
  BY <1>11 DEF CallReturns, Remote!vars, RemoteStatus, wireVars
<1>12. ASSUME NEW k \in Call, ContextEnds(k) PROVE UNCHANGED <<pc, outcome, executions>>
  BY <1>12 DEF ContextEnds, wireVars
<1>13. ASSUME NEW k \in Call, CallNext(k) PROVE [Remote!Next]_Remote!vars
  <2>1. CASE CallReceives(k)
    <3>1. resultCh[k] \in Remote!FromDevice \cup {"busy"} \cup Remote!Failure
      BY <2>1 DEF CallReceives, Remote!FromDevice, Remote!Failure
    <3>2. QED
      BY <1>9, <2>1, <3>1 DEF Remote!Next
  <2>2. CASE CallSendFails(k) \/ CallExpires(k)
    BY <1>8, <1>10, <2>2 DEF Remote!Next, Remote!Failure
  <2>3. CASE CallOffline(k) \/ CallBegins(k)
    BY <1>5, <1>6, <2>3 DEF Remote!Next
  <2>4. CASE CallSends(k) \/ CallReturns(k) \/ ContextEnds(k)
    BY <1>1, <1>7, <1>11, <1>12, <2>4
  <2>5. QED
    BY <1>13, <2>1, <2>2, <2>3, <2>4 DEF CallNext
<1>14. CASE UNCHANGED vars
  BY <1>1, <1>14 DEF vars, callVars, wireVars
<1>15. ASSUME NEW c \in Conn, ConnNext(c) PROVE [Remote!Next]_Remote!vars
  <2>1. CASE \E k \in requests[c], r \in FromDevice : DeviceExecutes(c, k, r)
    BY <1>3, <2>1 DEF Remote!Next
  <2>2. QED
    BY <1>1, <1>2, <1>15, <2>1
<1>16. QED
  BY <1>1, <1>4, <1>13, <1>14, <1>15 DEF Next

\* The relay implements RemoteCall: at most one execution and one outcome per call, and
\* the device's answer only for a call the device executed, "busy" only for one that it
\* did not and will not (Manager.callWithID, rpcDispatcher.dispatch).
THEOREM RelayImplementsRemoteCall == Spec => ImplementsRemoteCall
BY Invariance, RemoteInit, RemoteStep, PTL DEF Spec, ImplementsRemoteCall, Remote!Spec

-------------------------------------------------------------------------------
\* What RemoteCall means for a caller of the relay.

\* The promise of RemoteCall is inductive.
LEMMA PromiseStep ==
  ASSUME Remote!TypeOK, Remote!Truthful, [Remote!Next]_Remote!vars
  PROVE  Remote!TypeOK' /\ Remote!Truthful' /\ Remote!Kept
<1> USE DEF Remote!TypeOK, Remote!Truthful, Remote!Kept, Remote!FromDevice, Remote!Failure
<1>1. ASSUME NEW k \in Call, Remote!Start(k) \/ Remote!Refuse(k)
      PROVE  Remote!TypeOK' /\ Remote!Truthful' /\ Remote!Kept
  BY <1>1 DEF Remote!Start, Remote!Refuse
<1>2. ASSUME NEW k \in Call, Remote!Execute(k)
      PROVE  Remote!TypeOK' /\ Remote!Truthful' /\ Remote!Kept
  BY <1>2 DEF Remote!Execute
<1>3. ASSUME NEW k \in Call, NEW o \in Remote!FromDevice \cup {"busy"} \cup Remote!Failure,
             Remote!Return(k, o)
      PROVE  Remote!TypeOK' /\ Remote!Truthful' /\ Remote!Kept
  BY <1>3 DEF Remote!Return
<1>4. CASE UNCHANGED Remote!vars
  BY <1>4 DEF Remote!vars
<1> HIDE DEF Remote!TypeOK, Remote!Truthful, Remote!Kept, Remote!FromDevice, Remote!Failure
<1>5. QED
  BY <1>1, <1>2, <1>3, <1>4 DEF Remote!Next

\* The outcome of Manager.Call is true of the device and stays: an answer means that the
\* call was executed, once; "busy" that it was not and will not be; what is lost, expired or
\* offline leaves it open.
THEOREM OutcomesAreTrue == Spec => []Remote!Truthful /\ Remote!Final
<1>1. Remote!Init => Remote!TypeOK /\ Remote!Truthful
  BY DEF Remote!Init, Remote!TypeOK, Remote!Truthful, Remote!FromDevice
<1>2. Remote!TypeOK /\ Remote!Truthful /\ [Remote!Next]_Remote!vars
        => Remote!TypeOK' /\ Remote!Truthful' /\ [Remote!Kept]_Remote!vars
  BY PromiseStep
<1>3. QED
  BY <1>1, <1>2, RelayImplementsRemoteCall, PTL
     DEF ImplementsRemoteCall, Remote!Spec, Remote!Final
================================================================================
