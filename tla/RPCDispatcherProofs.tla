-------------------------- MODULE RPCDispatcherProofs --------------------------
(***************************************************************************)
(* Proofs about RPCDispatcher: the process never runs more than Slots calls *)
(* however often it reconnects, and answers reach the connection their      *)
(* request came in on, once, "busy" only for what was not executed.  The    *)
(* dispatcher implements RemoteCall.                                        *)
(***************************************************************************)
EXTENDS RPCDispatcher, FiniteSetTheorems, TLAPS

\* Only a request that was read from a connection is anywhere.
GenInv == \A r \in Request : worker[r] # "none" => genOf[r] \in 1..gen

\* The queue holds requests of the current connection, each once; so does the writer.
QueueInv ==
  /\ \A i \in 1..Len(overload) :
       worker[overload[i]] = "busy" /\ genOf[overload[i]] = gen
  /\ \A i, j \in 1..Len(overload) : overload[i] = overload[j] => i = j
  /\ \A r \in Request : worker[r] = "replying" => genOf[r] = gen /\ writer = "sending"
  /\ \A r, q \in Request : worker[r] = "replying" /\ worker[q] = "replying" => r = q

\* An answered request has left its worker or the writer; executed is what a worker has
\* begun, and only that has a result.
AnswerInv ==
  /\ \A a \in sent : worker[a.req] = "ended"
  /\ \A r \in executed : worker[r] \in (Holding \ {"started"}) \cup {"ended"}
  /\ \A r \in Request : worker[r] \in Holding \ {"started"} => r \in executed
  /\ \A a \in sent : a.kind = "result" => a.req \in executed

\* A worker that holds a token can give it back.
SlotRoom == \A r \in Request : worker[r] \in Holding => slots > 0

\* The inductive invariant.
IInv ==
  TypeOK /\ SlotAccounting /\ GenInv /\ QueueInv /\ AnswerInv
         /\ AnsweredAtHome /\ BusyIsUntouched

-------------------------------------------------------------------------------
\* What the writer takes is a request, and the rest of the queue is a queue of them.
LEMMA Front ==
  ASSUME TypeOK, overload # <<>>
  PROVE  /\ Head(overload) \in Request /\ Head(overload) = overload[1] /\ Len(overload) >= 1
         /\ Tail(overload) \in Seq(Request) /\ Len(Tail(overload)) = Len(overload) - 1
         /\ \A i \in 1..Len(Tail(overload)) : Tail(overload)[i] = overload[i + 1]
BY DEF TypeOK

\* Every action keeps the variables in their types.
LEMMA TypeStep ==
  TypeOK /\ GenInv /\ SlotRoom /\ [Next]_vars => TypeOK'
<1> SUFFICES ASSUME TypeOK, GenInv, SlotRoom, [Next]_vars PROVE TypeOK'
  OBVIOUS
<1> USE ConstantsAssumption
<1>1. ASSUME NEW r \in Request, Dispatch(r) PROVE TypeOK'
  <2>1. CASE slots < Slots /\ TakeSlot(r)
    BY <1>1, <2>1 DEF Dispatch, TakeSlot, TypeOK, SlotRoom, GenInv, Holding, Answer
  <2>2. CASE Enqueue(r)
    BY <1>1, <2>2 DEF Dispatch, Enqueue, TypeOK, SlotRoom, GenInv, Holding, Answer
  <2>3. CASE Refuse(r)
    BY <1>1, <2>3 DEF Dispatch, Refuse, TypeOK, SlotRoom, GenInv, Holding, Answer
  <2> QED
    BY <1>1, <2>1, <2>2, <2>3 DEF Dispatch
<1>2. ASSUME NEW r \in Request, Start(r) PROVE TypeOK'
  BY <1>2 DEF Start, Cancelled, TypeOK, SlotRoom, GenInv, Holding, Answer
<1>3. ASSUME NEW r \in Request, GiveUp(r) PROVE TypeOK'
  BY <1>3 DEF GiveUp, Release, Cancelled, TypeOK, SlotRoom, GenInv, Holding, Answer
<1>4. ASSUME NEW r \in Request, BeginSend(r) PROVE TypeOK'
  BY <1>4 DEF BeginSend, Cancelled, TypeOK, SlotRoom, GenInv, Holding, Answer
<1>5. ASSUME NEW r \in Request, SendResult(r) PROVE TypeOK'
  BY <1>5 DEF SendResult, Release, Cancelled, TypeOK, SlotRoom, GenInv, Holding, Answer
<1>6. ASSUME NEW r \in Request, SendFails(r) PROVE TypeOK'
  BY <1>6 DEF SendFails, Release, TypeOK, SlotRoom, GenInv, Holding, Answer
<1>7. ASSUME NEW r \in Request, ExecuteReturns(r) PROVE TypeOK'
  BY <1>7 DEF ExecuteReturns, TypeOK, SlotRoom, GenInv, Holding, Answer
<1>8. ASSUME WriterTakes PROVE TypeOK'
  BY <1>8, Front DEF WriterTakes, TypeOK, SlotRoom, GenInv, Holding, Answer
<1>9. ASSUME NEW r \in Request, WriterSends(r) PROVE TypeOK'
  BY <1>9 DEF WriterSends, TypeOK, SlotRoom, GenInv, Holding, Answer
<1>10. ASSUME WriterEnds PROVE TypeOK'
  BY <1>10 DEF WriterEnds, TypeOK, SlotRoom, GenInv, Holding, Answer
<1>11. ASSUME Fail PROVE TypeOK'
  BY <1>11 DEF Fail, TypeOK, SlotRoom, GenInv, Holding, Answer
<1>12. ASSUME Reconnect PROVE TypeOK'
  BY <1>12 DEF Reconnect, TypeOK, SlotRoom, GenInv, Holding, Answer
<1>13. CASE UNCHANGED vars
  BY <1>13 DEF vars, TypeOK, SlotRoom, GenInv, Holding, Answer
<1> QED
  BY <1>1, <1>2, <1>3, <1>4, <1>5, <1>6, <1>7, <1>8, <1>9, <1>10, <1>11, <1>12,
        <1>13 DEF Next, WorkerNext, WriterNext

\* A request keeps the generation it came in on.
LEMMA GenStep ==
  TypeOK /\ GenInv /\ QueueInv /\ [Next]_vars => GenInv'
<1> SUFFICES ASSUME TypeOK, GenInv, QueueInv, [Next]_vars PROVE GenInv'
  OBVIOUS
<1> USE ConstantsAssumption
<1>1. ASSUME NEW r \in Request, Dispatch(r) PROVE GenInv'
  <2>1. CASE slots < Slots /\ TakeSlot(r)
    BY <1>1, <2>1 DEF Dispatch, TakeSlot, TypeOK, GenInv, QueueInv
  <2>2. CASE Enqueue(r)
    BY <1>1, <2>2 DEF Dispatch, Enqueue, TypeOK, GenInv, QueueInv
  <2>3. CASE Refuse(r)
    BY <1>1, <2>3 DEF Dispatch, Refuse, TypeOK, GenInv, QueueInv
  <2> QED
    BY <1>1, <2>1, <2>2, <2>3 DEF Dispatch
<1>2. ASSUME NEW r \in Request, Start(r) PROVE GenInv'
  BY <1>2 DEF Start, Cancelled, TypeOK, GenInv, QueueInv
<1>3. ASSUME NEW r \in Request, GiveUp(r) PROVE GenInv'
  BY <1>3 DEF GiveUp, Release, Cancelled, TypeOK, GenInv, QueueInv
<1>4. ASSUME NEW r \in Request, BeginSend(r) PROVE GenInv'
  BY <1>4 DEF BeginSend, Cancelled, TypeOK, GenInv, QueueInv
<1>5. ASSUME NEW r \in Request, SendResult(r) PROVE GenInv'
  BY <1>5 DEF SendResult, Release, Cancelled, TypeOK, GenInv, QueueInv
<1>6. ASSUME NEW r \in Request, SendFails(r) PROVE GenInv'
  BY <1>6 DEF SendFails, Release, TypeOK, GenInv, QueueInv
<1>7. ASSUME NEW r \in Request, ExecuteReturns(r) PROVE GenInv'
  BY <1>7 DEF ExecuteReturns, TypeOK, GenInv, QueueInv
<1>8. ASSUME WriterTakes PROVE GenInv'
  BY <1>8, Front DEF WriterTakes, TypeOK, GenInv, QueueInv
<1>9. ASSUME NEW r \in Request, WriterSends(r) PROVE GenInv'
  BY <1>9 DEF WriterSends, TypeOK, GenInv, QueueInv
<1>10. ASSUME WriterEnds PROVE GenInv'
  BY <1>10 DEF WriterEnds, TypeOK, GenInv, QueueInv
<1>11. ASSUME Fail PROVE GenInv'
  BY <1>11 DEF Fail, TypeOK, GenInv, QueueInv
<1>12. ASSUME Reconnect PROVE GenInv'
  BY <1>12 DEF Reconnect, TypeOK, GenInv, QueueInv
<1>13. CASE UNCHANGED vars
  BY <1>13 DEF vars, TypeOK, GenInv, QueueInv
<1> QED
  BY <1>1, <1>2, <1>3, <1>4, <1>5, <1>6, <1>7, <1>8, <1>9, <1>10, <1>11, <1>12,
        <1>13 DEF Next, WorkerNext, WriterNext

\* What waits to be told busy waits once, on its own connection.
LEMMA QueueStep ==
  TypeOK /\ GenInv /\ QueueInv /\ [Next]_vars => QueueInv'
<1> SUFFICES ASSUME TypeOK, GenInv, QueueInv, [Next]_vars PROVE QueueInv'
  OBVIOUS
<1> USE ConstantsAssumption
<1>1. ASSUME NEW r \in Request, Dispatch(r) PROVE QueueInv'
  <2>1. CASE slots < Slots /\ TakeSlot(r)
    BY <1>1, <2>1 DEF Dispatch, TakeSlot, TypeOK, GenInv, QueueInv
  <2>2. CASE Enqueue(r)
    BY <1>1, <2>2 DEF Dispatch, Enqueue, TypeOK, GenInv, QueueInv
  <2>3. CASE Refuse(r)
    BY <1>1, <2>3 DEF Dispatch, Refuse, TypeOK, GenInv, QueueInv
  <2> QED
    BY <1>1, <2>1, <2>2, <2>3 DEF Dispatch
<1>2. ASSUME NEW r \in Request, Start(r) PROVE QueueInv'
  BY <1>2 DEF Start, Cancelled, TypeOK, GenInv, QueueInv
<1>3. ASSUME NEW r \in Request, GiveUp(r) PROVE QueueInv'
  BY <1>3 DEF GiveUp, Release, Cancelled, TypeOK, GenInv, QueueInv
<1>4. ASSUME NEW r \in Request, BeginSend(r) PROVE QueueInv'
  BY <1>4 DEF BeginSend, Cancelled, TypeOK, GenInv, QueueInv
<1>5. ASSUME NEW r \in Request, SendResult(r) PROVE QueueInv'
  BY <1>5 DEF SendResult, Release, Cancelled, TypeOK, GenInv, QueueInv
<1>6. ASSUME NEW r \in Request, SendFails(r) PROVE QueueInv'
  BY <1>6 DEF SendFails, Release, TypeOK, GenInv, QueueInv
<1>7. ASSUME NEW r \in Request, ExecuteReturns(r) PROVE QueueInv'
  BY <1>7 DEF ExecuteReturns, TypeOK, GenInv, QueueInv
<1>8. ASSUME WriterTakes PROVE QueueInv'
  BY <1>8, Front DEF WriterTakes, TypeOK, GenInv, QueueInv
<1>9. ASSUME NEW r \in Request, WriterSends(r) PROVE QueueInv'
  BY <1>9 DEF WriterSends, TypeOK, GenInv, QueueInv
<1>10. ASSUME WriterEnds PROVE QueueInv'
  BY <1>10 DEF WriterEnds, TypeOK, GenInv, QueueInv
<1>11. ASSUME Fail PROVE QueueInv'
  BY <1>11 DEF Fail, TypeOK, GenInv, QueueInv
<1>12. ASSUME Reconnect PROVE QueueInv'
  BY <1>12 DEF Reconnect, TypeOK, GenInv, QueueInv
<1>13. CASE UNCHANGED vars
  BY <1>13 DEF vars, TypeOK, GenInv, QueueInv
<1> QED
  BY <1>1, <1>2, <1>3, <1>4, <1>5, <1>6, <1>7, <1>8, <1>9, <1>10, <1>11, <1>12,
        <1>13 DEF Next, WorkerNext, WriterNext

\* An answer is the last thing that happens to a request.
LEMMA AnswerStep ==
  TypeOK /\ QueueInv /\ AnswerInv /\ [Next]_vars => AnswerInv'
<1> SUFFICES ASSUME TypeOK, QueueInv, AnswerInv, [Next]_vars PROVE AnswerInv'
  OBVIOUS
<1> USE ConstantsAssumption
<1>1. ASSUME NEW r \in Request, Dispatch(r) PROVE AnswerInv'
  <2>1. CASE slots < Slots /\ TakeSlot(r)
    BY <1>1, <2>1 DEF Dispatch, TakeSlot, TypeOK, QueueInv, AnswerInv, Holding, Answer
  <2>2. CASE Enqueue(r)
    BY <1>1, <2>2 DEF Dispatch, Enqueue, TypeOK, QueueInv, AnswerInv, Holding, Answer
  <2>3. CASE Refuse(r)
    BY <1>1, <2>3 DEF Dispatch, Refuse, TypeOK, QueueInv, AnswerInv, Holding, Answer
  <2> QED
    BY <1>1, <2>1, <2>2, <2>3 DEF Dispatch
<1>2. ASSUME NEW r \in Request, Start(r) PROVE AnswerInv'
  BY <1>2 DEF Start, Cancelled, TypeOK, QueueInv, AnswerInv, Holding, Answer
<1>3. ASSUME NEW r \in Request, GiveUp(r) PROVE AnswerInv'
  BY <1>3 DEF GiveUp, Release, Cancelled, TypeOK, QueueInv, AnswerInv, Holding, Answer
<1>4. ASSUME NEW r \in Request, BeginSend(r) PROVE AnswerInv'
  BY <1>4 DEF BeginSend, Cancelled, TypeOK, QueueInv, AnswerInv, Holding, Answer
<1>5. ASSUME NEW r \in Request, SendResult(r) PROVE AnswerInv'
  BY <1>5 DEF SendResult, Release, Cancelled, TypeOK, QueueInv, AnswerInv, Holding, Answer
<1>6. ASSUME NEW r \in Request, SendFails(r) PROVE AnswerInv'
  BY <1>6 DEF SendFails, Release, TypeOK, QueueInv, AnswerInv, Holding, Answer
<1>7. ASSUME NEW r \in Request, ExecuteReturns(r) PROVE AnswerInv'
  BY <1>7 DEF ExecuteReturns, TypeOK, QueueInv, AnswerInv, Holding, Answer
<1>8. ASSUME WriterTakes PROVE AnswerInv'
  BY <1>8, Front DEF WriterTakes, TypeOK, QueueInv, AnswerInv, Holding, Answer
<1>9. ASSUME NEW r \in Request, WriterSends(r) PROVE AnswerInv'
  BY <1>9 DEF WriterSends, TypeOK, QueueInv, AnswerInv, Holding, Answer
<1>10. ASSUME WriterEnds PROVE AnswerInv'
  BY <1>10 DEF WriterEnds, TypeOK, QueueInv, AnswerInv, Holding, Answer
<1>11. ASSUME Fail PROVE AnswerInv'
  BY <1>11 DEF Fail, TypeOK, QueueInv, AnswerInv, Holding, Answer
<1>12. ASSUME Reconnect PROVE AnswerInv'
  BY <1>12 DEF Reconnect, TypeOK, QueueInv, AnswerInv, Holding, Answer
<1>13. CASE UNCHANGED vars
  BY <1>13 DEF vars, TypeOK, QueueInv, AnswerInv, Holding, Answer
<1> QED
  BY <1>1, <1>2, <1>3, <1>4, <1>5, <1>6, <1>7, <1>8, <1>9, <1>10, <1>11, <1>12,
        <1>13 DEF Next, WorkerNext, WriterNext

\* No action answers a request twice or on a foreign connection.
LEMMA HomeStep ==
  TypeOK /\ QueueInv /\ AnswerInv /\ AnsweredAtHome /\ [Next]_vars => AnsweredAtHome'
<1> SUFFICES ASSUME TypeOK, QueueInv, AnswerInv, AnsweredAtHome,
      [Next]_vars PROVE AnsweredAtHome'
  OBVIOUS
<1> USE ConstantsAssumption
<1>1. ASSUME NEW r \in Request, Dispatch(r) PROVE AnsweredAtHome'
  <2>1. CASE slots < Slots /\ TakeSlot(r)
    BY <1>1, <2>1 DEF Dispatch, TakeSlot, TypeOK, QueueInv, AnswerInv, AnsweredAtHome,
          Holding, Answer
  <2>2. CASE Enqueue(r)
    BY <1>1, <2>2 DEF Dispatch, Enqueue, TypeOK, QueueInv, AnswerInv, AnsweredAtHome,
          Holding, Answer
  <2>3. CASE Refuse(r)
    BY <1>1, <2>3 DEF Dispatch, Refuse, TypeOK, QueueInv, AnswerInv, AnsweredAtHome,
          Holding, Answer
  <2> QED
    BY <1>1, <2>1, <2>2, <2>3 DEF Dispatch
<1>2. ASSUME NEW r \in Request, Start(r) PROVE AnsweredAtHome'
  BY <1>2 DEF Start, Cancelled, TypeOK, QueueInv, AnswerInv, AnsweredAtHome, Holding, Answer
<1>3. ASSUME NEW r \in Request, GiveUp(r) PROVE AnsweredAtHome'
  BY <1>3 DEF GiveUp, Release, Cancelled, TypeOK, QueueInv, AnswerInv, AnsweredAtHome,
        Holding, Answer
<1>4. ASSUME NEW r \in Request, BeginSend(r) PROVE AnsweredAtHome'
  BY <1>4 DEF BeginSend, Cancelled, TypeOK, QueueInv, AnswerInv, AnsweredAtHome, Holding,
        Answer
<1>5. ASSUME NEW r \in Request, SendResult(r) PROVE AnsweredAtHome'
  BY <1>5 DEF SendResult, Release, Cancelled, TypeOK, QueueInv, AnswerInv, AnsweredAtHome,
        Holding, Answer
<1>6. ASSUME NEW r \in Request, SendFails(r) PROVE AnsweredAtHome'
  BY <1>6 DEF SendFails, Release, TypeOK, QueueInv, AnswerInv, AnsweredAtHome, Holding,
        Answer
<1>7. ASSUME NEW r \in Request, ExecuteReturns(r) PROVE AnsweredAtHome'
  BY <1>7 DEF ExecuteReturns, TypeOK, QueueInv, AnswerInv, AnsweredAtHome, Holding, Answer
<1>8. ASSUME WriterTakes PROVE AnsweredAtHome'
  BY <1>8, Front DEF WriterTakes, TypeOK, QueueInv, AnswerInv, AnsweredAtHome, Holding,
        Answer
<1>9. ASSUME NEW r \in Request, WriterSends(r) PROVE AnsweredAtHome'
  BY <1>9 DEF WriterSends, TypeOK, QueueInv, AnswerInv, AnsweredAtHome, Holding, Answer
<1>10. ASSUME WriterEnds PROVE AnsweredAtHome'
  <2>1. CASE UNCHANGED sent
    BY <1>10, <2>1 DEF WriterEnds, AnsweredAtHome
  <2>2. ASSUME NEW r \in Request, worker[r] = "replying",
               sent' = sent \cup {[req |-> r, on |-> gen, kind |-> "busy"]}
        PROVE  AnsweredAtHome'
    <3>1. genOf[r] = gen /\ genOf' = genOf /\ \A a \in sent : a.req # r
      BY <1>10, <2>2 DEF WriterEnds, QueueInv, AnswerInv
    <3> QED
      BY <2>2, <3>1 DEF AnsweredAtHome
  <2> QED
    BY <1>10, <2>1, <2>2 DEF WriterEnds
<1>11. ASSUME Fail PROVE AnsweredAtHome'
  BY <1>11 DEF Fail, TypeOK, QueueInv, AnswerInv, AnsweredAtHome, Holding, Answer
<1>12. ASSUME Reconnect PROVE AnsweredAtHome'
  BY <1>12 DEF Reconnect, TypeOK, QueueInv, AnswerInv, AnsweredAtHome, Holding, Answer
<1>13. CASE UNCHANGED vars
  BY <1>13 DEF vars, TypeOK, QueueInv, AnswerInv, AnsweredAtHome, Holding, Answer
<1> QED
  BY <1>1, <1>2, <1>3, <1>4, <1>5, <1>6, <1>7, <1>8, <1>9, <1>10, <1>11, <1>12,
        <1>13 DEF Next, WorkerNext, WriterNext

\* No action executes what was or will be told busy.
LEMMA BusyStep ==
  TypeOK /\ AnswerInv /\ BusyIsUntouched /\ [Next]_vars => BusyIsUntouched'
<1> SUFFICES ASSUME TypeOK, AnswerInv, BusyIsUntouched, [Next]_vars PROVE BusyIsUntouched'
  OBVIOUS
<1> USE ConstantsAssumption
<1>1. ASSUME NEW r \in Request, Dispatch(r) PROVE BusyIsUntouched'
  <2>1. CASE slots < Slots /\ TakeSlot(r)
    BY <1>1, <2>1 DEF Dispatch, TakeSlot, TypeOK, AnswerInv, BusyIsUntouched, Holding,
          Answer
  <2>2. CASE Enqueue(r)
    BY <1>1, <2>2 DEF Dispatch, Enqueue, TypeOK, AnswerInv, BusyIsUntouched, Holding, Answer
  <2>3. CASE Refuse(r)
    BY <1>1, <2>3 DEF Dispatch, Refuse, TypeOK, AnswerInv, BusyIsUntouched, Holding, Answer
  <2> QED
    BY <1>1, <2>1, <2>2, <2>3 DEF Dispatch
<1>2. ASSUME NEW r \in Request, Start(r) PROVE BusyIsUntouched'
  BY <1>2 DEF Start, Cancelled, TypeOK, AnswerInv, BusyIsUntouched, Holding, Answer
<1>3. ASSUME NEW r \in Request, GiveUp(r) PROVE BusyIsUntouched'
  BY <1>3 DEF GiveUp, Release, Cancelled, TypeOK, AnswerInv, BusyIsUntouched, Holding,
        Answer
<1>4. ASSUME NEW r \in Request, BeginSend(r) PROVE BusyIsUntouched'
  BY <1>4 DEF BeginSend, Cancelled, TypeOK, AnswerInv, BusyIsUntouched, Holding, Answer
<1>5. ASSUME NEW r \in Request, SendResult(r) PROVE BusyIsUntouched'
  BY <1>5 DEF SendResult, Release, Cancelled, TypeOK, AnswerInv, BusyIsUntouched, Holding,
        Answer
<1>6. ASSUME NEW r \in Request, SendFails(r) PROVE BusyIsUntouched'
  BY <1>6 DEF SendFails, Release, TypeOK, AnswerInv, BusyIsUntouched, Holding, Answer
<1>7. ASSUME NEW r \in Request, ExecuteReturns(r) PROVE BusyIsUntouched'
  BY <1>7 DEF ExecuteReturns, TypeOK, AnswerInv, BusyIsUntouched, Holding, Answer
<1>8. ASSUME WriterTakes PROVE BusyIsUntouched'
  BY <1>8, Front DEF WriterTakes, TypeOK, AnswerInv, BusyIsUntouched, Holding, Answer
<1>9. ASSUME NEW r \in Request, WriterSends(r) PROVE BusyIsUntouched'
  BY <1>9 DEF WriterSends, TypeOK, AnswerInv, BusyIsUntouched, Holding, Answer
<1>10. ASSUME WriterEnds PROVE BusyIsUntouched'
  BY <1>10 DEF WriterEnds, TypeOK, AnswerInv, BusyIsUntouched, Holding, Answer
<1>11. ASSUME Fail PROVE BusyIsUntouched'
  BY <1>11 DEF Fail, TypeOK, AnswerInv, BusyIsUntouched, Holding, Answer
<1>12. ASSUME Reconnect PROVE BusyIsUntouched'
  BY <1>12 DEF Reconnect, TypeOK, AnswerInv, BusyIsUntouched, Holding, Answer
<1>13. CASE UNCHANGED vars
  BY <1>13 DEF vars, TypeOK, AnswerInv, BusyIsUntouched, Holding, Answer
<1> QED
  BY <1>1, <1>2, <1>3, <1>4, <1>5, <1>6, <1>7, <1>8, <1>9, <1>10, <1>11, <1>12,
        <1>13 DEF Next, WorkerNext, WriterNext

\* The tokens follow the workers that hold one.
LEMMA SlotStep ==
  TypeOK /\ QueueInv /\ SlotAccounting /\ [Next]_vars => SlotAccounting'
<1> SUFFICES ASSUME TypeOK, QueueInv, SlotAccounting, [Next]_vars PROVE SlotAccounting'
  OBVIOUS
<1> DEFINE H == {q \in Request : worker[q] \in Holding}
<1>a. IsFiniteSet(H) /\ Cardinality(H) \in Nat /\ slots = Cardinality(H)
  BY ConstantsAssumption, FS_Subset, FS_CardinalityType,
        H \subseteq Request DEF SlotAccounting
<1>b. SUFFICES slots' = Cardinality(H')
  BY DEF SlotAccounting
<1>c. (H' = H /\ slots' = slots) => slots' = Cardinality(H')
  BY <1>a
<1>d. ASSUME NEW r \in Request, r \notin H, H' = H \cup {r}, slots' = slots + 1
      PROVE  slots' = Cardinality(H')
  BY <1>a, <1>d, FS_AddElement
<1>e. ASSUME NEW r \in Request, r \in H, H' = H \ {r}, slots' = slots - 1
      PROVE  slots' = Cardinality(H')
  BY <1>a, <1>e, FS_RemoveElement
<1> HIDE DEF H
<1>1. ASSUME NEW r \in Request, Dispatch(r) PROVE slots' = Cardinality(H')
  <2>1. CASE TakeSlot(r)
    BY <1>1, <2>1, <1>d DEF Dispatch, TakeSlot, TypeOK, Holding, H
  <2>2. CASE Enqueue(r)
    BY <1>1, <2>2, <1>c DEF Dispatch, Enqueue, TypeOK, Holding, H
  <2>3. CASE Refuse(r)
    BY <1>1, <2>3, <1>c DEF Dispatch, Refuse, TypeOK, Holding, H
  <2> QED
    BY <1>1, <2>1, <2>2, <2>3 DEF Dispatch
<1>2. ASSUME NEW r \in Request, Start(r) \/ ExecuteReturns(r) \/ BeginSend(r)
      PROVE  slots' = Cardinality(H')
  BY <1>2, <1>c DEF Start, ExecuteReturns, BeginSend, TypeOK, Holding, H
<1>3. ASSUME NEW r \in Request, GiveUp(r) \/ SendResult(r) \/ SendFails(r)
      PROVE  slots' = Cardinality(H')
  BY <1>3, <1>e DEF GiveUp, SendResult, SendFails, Release, TypeOK, Holding, H
<1>4. CASE WriterTakes
  BY <1>4, <1>c, Front DEF WriterTakes, TypeOK, QueueInv, Holding, H
<1>5. ASSUME NEW r \in Request, WriterSends(r) PROVE slots' = Cardinality(H')
  BY <1>5, <1>c DEF WriterSends, TypeOK, Holding, H
<1>6. CASE WriterEnds
  BY <1>6, <1>c DEF WriterEnds, TypeOK, Holding, H
<1>7. CASE Fail \/ Reconnect \/ UNCHANGED vars
  BY <1>7, <1>c DEF Fail, Reconnect, vars, H
<1> QED
  BY <1>1, <1>2, <1>3, <1>4, <1>5, <1>6, <1>7 DEF Next, WorkerNext, WriterNext

\* A token counted is a token to give back.
LEMMA Room == SlotAccounting => SlotRoom
<1> SUFFICES ASSUME SlotAccounting, NEW r \in Request, worker[r] \in Holding PROVE slots > 0
  BY DEF SlotRoom
<1> DEFINE H == {q \in Request : worker[q] \in Holding}
<1>1. IsFiniteSet(H) /\ Cardinality(H) \in Nat /\ slots = Cardinality(H)
  BY ConstantsAssumption, FS_Subset, FS_CardinalityType,
        H \subseteq Request DEF SlotAccounting
<1>2. Cardinality(H) # 0
  BY <1>1, FS_EmptySet, r \in H
<1> QED
  BY <1>1, <1>2

\* IInv holds in every reachable state.
LEMMA Invariance == Spec => []IInv
<1>1. Init => IInv
  <2> SUFFICES ASSUME Init PROVE IInv
    OBVIOUS
  <2>1. {r \in Request : worker[r] \in Holding} = {}
    BY DEF Init, Holding
  <2>2. SlotAccounting
    BY <2>1, FS_EmptySet DEF Init, SlotAccounting
  <2> QED
    BY <2>2, ConstantsAssumption DEF Init, IInv, TypeOK, GenInv, QueueInv, AnswerInv, Holding,
          AnsweredAtHome,
       BusyIsUntouched
<1>2. IInv /\ [Next]_vars => IInv'
  BY TypeStep, SlotStep, GenStep, QueueStep, AnswerStep, HomeStep, BusyStep, Room DEF IInv
<1> QED
  BY <1>1, <1>2, PTL DEF Spec

\* The dispatcher's variables keep their types; in particular no more than Slots tokens
\* are ever out, over all connections of the process.
THEOREM TypeCorrect == Spec => []TypeOK
BY Invariance, PTL DEF IInv

\* Every token out is held by a worker that will give it back, of whichever connection.
THEOREM SlotsAreAccounted == Spec => []SlotAccounting
BY Invariance, PTL DEF IInv

\* An answer goes out at most once, on the connection its request came in on.
THEOREM AnswersStayHome == Spec => []AnsweredAtHome
BY Invariance, PTL DEF IInv

\* What the hub is told was busy has not been executed, and never will be.
THEOREM BusyMeansUntouched == Spec => []BusyIsUntouched
BY Invariance, PTL DEF IInv

-------------------------------------------------------------------------------
\* The dispatcher implements the device's side of a remote call.

\* A function that changed at one place only.
LEMMA OnePlace ==
  ASSUME NEW S, NEW f, NEW g, NEW r \in S,
         f = [q \in S |-> f[q]], g = [q \in S |-> g[q]],
         \A q \in S \ {r} : g[q] = f[q]
  PROVE  g = [f EXCEPT ![r] = g[r]]
OBVIOUS

\* A step that moves one request r to the worker state w, with the given new executions
\* and answers, and leaves the others alone, is seen at r only.
LEMMA OneRequest ==
  ASSUME TypeOK, NEW r \in Request, NEW w,
         worker' = [worker EXCEPT ![r] = w],
         \A q \in Request \ {r} : q \in executed' <=> q \in executed,
         \A q \in Request \ {r}, k \in {"result", "busy"} : Answered(q, k)' <=> Answered(q, k)
  PROVE  /\ RemoteStatus' = [RemoteStatus EXCEPT ![r] = RemoteStatus'[r]]
         /\ RemoteOutcome' = [RemoteOutcome EXCEPT ![r] = RemoteOutcome'[r]]
         /\ [q \in Request |-> IF q \in executed THEN 1 ELSE 0]' =
              [[q \in Request |-> IF q \in executed THEN 1 ELSE 0]
                 EXCEPT ![r] = IF r \in executed' THEN 1 ELSE 0]
<1>1. \A q \in Request \ {r} : worker'[q] = worker[q]
  BY DEF TypeOK
<1>2. \A q \in Request \ {r} : RemoteStatus'[q] = RemoteStatus[q]
  BY <1>1 DEF RemoteStatus
<1>3. ASSUME NEW q \in Request \ {r} PROVE RemoteOutcome'[q] = RemoteOutcome[q]
  <2>1. /\ Answered(q, "result")' <=> Answered(q, "result")
        /\ Answered(q, "busy")' <=> Answered(q, "busy")
    OBVIOUS
  <2>2. QED
    BY <1>1, <2>1 DEF RemoteOutcome
<1>4. RemoteStatus' = [RemoteStatus EXCEPT ![r] = RemoteStatus'[r]]
  <2>1. /\ RemoteStatus = [q \in Request |-> RemoteStatus[q]]
        /\ RemoteStatus' = [q \in Request |-> RemoteStatus'[q]]
    BY DEF RemoteStatus
  <2>2. QED
    BY <1>2, <2>1, OnePlace
<1>5. RemoteOutcome' = [RemoteOutcome EXCEPT ![r] = RemoteOutcome'[r]]
  <2>1. /\ RemoteOutcome = [q \in Request |-> RemoteOutcome[q]]
        /\ RemoteOutcome' = [q \in Request |-> RemoteOutcome'[q]]
    BY DEF RemoteOutcome
  <2>2. QED
    BY <1>3, <2>1, OnePlace
<1>6. QED
  BY <1>4, <1>5

\* Putting back what is there changes neither of the two.
LEMMA Outcomes ==
  ASSUME NEW r \in Request
  PROVE  /\ [RemoteStatus EXCEPT ![r] = RemoteStatus[r]] = RemoteStatus
         /\ [RemoteOutcome EXCEPT ![r] = RemoteOutcome[r]] = RemoteOutcome
<1>1. /\ RemoteStatus = [q \in Request |-> RemoteStatus[q]]
      /\ RemoteOutcome = [q \in Request |-> RemoteOutcome[q]]
  BY DEF RemoteStatus, RemoteOutcome
<1>2. QED
  BY <1>1

\* The dispatcher starts where RemoteCall starts.
LEMMA RemoteInit == Init => Remote!Init
BY DEF Init, Remote!Init, RemoteStatus, RemoteOutcome, Answered

\* A step that no request shows is no step of RemoteCall.
LEMMA Unseen ==
  ASSUME \A q \in Request : /\ (worker'[q] = "none") <=> (worker[q] = "none")
                            /\ (worker'[q] = "ended") <=> (worker[q] = "ended"),
         UNCHANGED <<executed, sent>>
  PROVE  UNCHANGED Remote!vars
<1>1. UNCHANGED RemoteStatus
  BY DEF RemoteStatus
<1>2. \A q \in Request, k \in {"result", "busy"} : Answered(q, k)' <=> Answered(q, k)
  BY DEF Answered
<1>3. ASSUME NEW q \in Request PROVE RemoteOutcome'[q] = RemoteOutcome[q]
  <2>1. /\ Answered(q, "result")' <=> Answered(q, "result")
        /\ Answered(q, "busy")' <=> Answered(q, "busy")
    BY <1>2
  <2>2. QED
    BY <2>1 DEF RemoteOutcome
<1>4. UNCHANGED RemoteOutcome
  <2>1. /\ RemoteOutcome = [q \in Request |-> RemoteOutcome[q]]
        /\ RemoteOutcome' = [q \in Request |-> RemoteOutcome'[q]]
    BY DEF RemoteOutcome
  <2>2. QED
    BY <1>3, <2>1
<1>5. QED
  BY <1>1, <1>4 DEF Remote!vars

\* A request that is left without an answer is offline for its caller.
LEMMA LeftUnanswered ==
  ASSUME TypeOK, AnswerInv, NEW r \in Request, worker[r] \notin {"none", "ended"},
         worker' = [worker EXCEPT ![r] = "ended"], UNCHANGED <<executed, sent>>
  PROVE  Remote!Return(r, "offline")
<1>1. \A q \in Request, k \in {"result", "busy"} : Answered(q, k)' <=> Answered(q, k)
  BY DEF Answered
<1>2. worker'[r] = "ended" /\ ~Answered(r, "result")' /\ ~Answered(r, "busy")'
  BY <1>1 DEF TypeOK, AnswerInv, Answered
<1>3. RemoteStatus[r] = "open" /\ RemoteStatus'[r] = "done" /\ RemoteOutcome'[r] = "offline"
  BY <1>2 DEF RemoteStatus, RemoteOutcome
<1>4. /\ RemoteStatus' = [RemoteStatus EXCEPT ![r] = "done"]
      /\ RemoteOutcome' = [RemoteOutcome EXCEPT ![r] = "offline"]
  BY <1>1, <1>3, OneRequest
<1>5. QED
  BY <1>3, <1>4 DEF Remote!Return, Remote!FromDevice

\* An answer that is written is what the caller is told, and true of the execution.
LEMMA AnsweredOnce ==
  ASSUME TypeOK, AnswerInv, NEW r \in Request, worker[r] \notin {"none", "ended"},
         NEW k \in {"result", "busy"}, k = "result" <=> r \in executed, NEW g,
         worker' = [worker EXCEPT ![r] = "ended"], UNCHANGED executed,
         sent' = sent \cup {[req |-> r, on |-> g, kind |-> k]}
  PROVE  Remote!Return(r, IF k = "result" THEN "response" ELSE "busy")
<1> DEFINE o == IF k = "result" THEN "response" ELSE "busy"
<1>1. \A q \in Request \ {r}, j \in {"result", "busy"} : Answered(q, j)' <=> Answered(q, j)
  BY DEF Answered
<1>2. \A j \in {"result", "busy"} : Answered(r, j)' <=> j = k
  <2>1. \A a \in sent : a.req # r
    BY DEF AnswerInv
  <2>2. ASSUME NEW j \in {"result", "busy"} PROVE Answered(r, j)' <=> j = k
    <3>1. CASE j = k
      <4>1. [req |-> r, on |-> g, kind |-> k] \in sent'
        OBVIOUS
      <4>2. QED
        BY <3>1, <4>1 DEF Answered
    <3>2. CASE j # k
      BY <2>1, <3>2 DEF Answered
    <3>3. QED
      BY <3>1, <3>2
  <2>3. QED
    BY <2>2
<1>3. RemoteStatus[r] = "open" /\ RemoteStatus'[r] = "done" /\ RemoteOutcome'[r] = o
  <2>1. worker'[r] = "ended"
    BY DEF TypeOK
  <2>2. /\ Answered(r, "result")' <=> k = "result"
        /\ Answered(r, "busy")' <=> k = "busy"
    BY <1>2
  <2>3. QED
    BY <2>1, <2>2 DEF RemoteStatus, RemoteOutcome
<1>4. /\ RemoteStatus' = [RemoteStatus EXCEPT ![r] = "done"]
      /\ RemoteOutcome' = [RemoteOutcome EXCEPT ![r] = o]
  BY <1>1, <1>3, OneRequest
<1>5. QED
  BY <1>3, <1>4 DEF Remote!Return, Remote!FromDevice

\* Each step of the dispatcher is the step of a remote call named in its proof, or none.
LEMMA RemoteStep == IInv /\ [Next]_vars => [Remote!Next]_Remote!vars
<1> SUFFICES ASSUME IInv, [Next]_vars PROVE [Remote!Next]_Remote!vars
  OBVIOUS
<1>i. TypeOK /\ AnswerInv /\ QueueInv
  BY DEF IInv
<1>1. ASSUME NEW r \in Request, Dispatch(r) PROVE Remote!Start(r) \/ Remote!Refuse(r)
  <2> PICK w \in {"started", "busy", "ended"} :
        worker[r] = "none" /\ worker' = [worker EXCEPT ![r] = w] /\ UNCHANGED <<executed, sent>>
    BY <1>1 DEF Dispatch, TakeSlot, Enqueue, Refuse
  <2>1. \A q \in Request, k \in {"result", "busy"} : Answered(q, k)' <=> Answered(q, k)
    BY DEF Answered
  <2>2. /\ worker'[r] = w /\ ~Answered(r, "result")' /\ ~Answered(r, "busy")'
    BY <1>i, <2>1 DEF TypeOK, AnswerInv, Answered
  <2>a. ~Answered(r, "result") /\ ~Answered(r, "busy")
    BY <2>1, <2>2
  <2>3. /\ RemoteStatus[r] = "idle" /\ RemoteOutcome[r] = "none"
        /\ w # "ended" => RemoteStatus'[r] = "open" /\ RemoteOutcome'[r] = "none"
        /\ w = "ended" => RemoteStatus'[r] = "done" /\ RemoteOutcome'[r] = "offline"
    BY <2>2, <2>a DEF RemoteStatus, RemoteOutcome
  <2>4. /\ RemoteStatus' = [RemoteStatus EXCEPT ![r] = RemoteStatus'[r]]
        /\ RemoteOutcome' = [RemoteOutcome EXCEPT ![r] = RemoteOutcome'[r]]
    BY <1>i, <2>1, OneRequest
  <2>5. CASE w = "ended"
    BY <2>3, <2>4, <2>5 DEF Remote!Refuse
  <2>6. CASE w # "ended"
    <3>1. RemoteOutcome' = RemoteOutcome
      BY <2>3, <2>4, <2>6, Outcomes
    <3>2. QED
      BY <2>3, <2>4, <2>6, <3>1 DEF Remote!Start
  <2>7. QED
    BY <2>5, <2>6
<1>2. ASSUME NEW r \in Request, Start(r) PROVE Remote!Execute(r)
  <2>1. /\ worker[r] = "started" /\ worker' = [worker EXCEPT ![r] = "executing"]
        /\ executed' = executed \cup {r} /\ sent' = sent /\ r \notin executed
    BY <1>2, <1>i DEF Start, AnswerInv
  <2>2. \A q \in Request, k \in {"result", "busy"} : Answered(q, k)' <=> Answered(q, k)
    BY <2>1 DEF Answered
  <2>3. worker'[r] = "executing"
    BY <1>i, <2>1 DEF TypeOK
  <2>4. /\ RemoteStatus[r] = "open" /\ RemoteStatus'[r] = "open"
        /\ RemoteOutcome[r] = "none" /\ RemoteOutcome'[r] = "none"
    <3>1. /\ ~Answered(r, "result") /\ ~Answered(r, "busy")
          /\ ~Answered(r, "result")' /\ ~Answered(r, "busy")'
      BY <1>i, <2>1, <2>2 DEF AnswerInv, Answered
    <3>2. QED
      BY <2>1, <2>3, <3>1 DEF RemoteStatus, RemoteOutcome
  <2>5. /\ RemoteStatus' = [RemoteStatus EXCEPT ![r] = "open"]
        /\ RemoteOutcome' = [RemoteOutcome EXCEPT ![r] = "none"]
        /\ [q \in Request |-> IF q \in executed THEN 1 ELSE 0]' =
             [[q \in Request |-> IF q \in executed THEN 1 ELSE 0] EXCEPT ![r] = 1]
    BY <1>i, <2>1, <2>2, <2>4, OneRequest
  <2>6. UNCHANGED <<RemoteStatus, RemoteOutcome>>
    BY <2>4, <2>5, Outcomes
  <2>7. QED
    BY <2>1, <2>4, <2>5, <2>6 DEF Remote!Execute
<1>3. ASSUME NEW r \in Request, GiveUp(r) \/ (SendFails(r) /\ UNCHANGED sent)
      PROVE  Remote!Return(r, "offline")
  BY <1>3, <1>i, LeftUnanswered DEF GiveUp, SendFails, Release
<1>4. ASSUME NEW r \in Request, SendResult(r) \/ (SendFails(r) /\ sent' # sent)
      PROVE  Remote!Return(r, "response")
  <2>1. r \in executed
    BY <1>4, <1>i DEF SendResult, SendFails, AnswerInv, Holding
  <2>2. QED
    BY <1>4, <1>i, <2>1, AnsweredOnce DEF SendResult, SendFails, Release
<1>5. ASSUME NEW r \in Request, WriterSends(r) PROVE Remote!Return(r, "busy")
  <2>1. r \notin executed
    BY <1>5, <1>i DEF WriterSends, AnswerInv, Holding
  <2>2. QED
    BY <1>5, <1>i, <2>1, AnsweredOnce DEF WriterSends
<1>6. ASSUME NEW r \in Request, BeginSend(r) \/ ExecuteReturns(r) PROVE UNCHANGED Remote!vars
  BY <1>6, <1>i, Unseen DEF BeginSend, ExecuteReturns, TypeOK
<1>7. CASE WriterTakes
  <2>1. Head(overload) \in Request /\ worker[Head(overload)] = "busy"
    BY <1>7, <1>i, Front DEF WriterTakes, QueueInv
  <2>2. QED
    BY <1>7, <1>i, <2>1, Unseen DEF WriterTakes, TypeOK
<1>8. CASE WriterEnds
  <2>1. CASE \E r \in Request : worker[r] = "replying"
    <3>1. PICK r \in Request : worker[r] = "replying"
      BY <2>1
    <3>2. worker' = [worker EXCEPT ![r] = "ended"] /\ UNCHANGED executed
      BY <1>8, <1>i, <3>1 DEF WriterEnds, QueueInv, TypeOK
    <3>3. CASE UNCHANGED sent
      <4>1. Remote!Return(r, "offline")
        BY <1>i, <3>1, <3>2, <3>3, LeftUnanswered
      <4> QED
        BY <4>1 DEF Remote!Next, Remote!Failure
    <3>4. CASE sent' # sent
      <4>1. sent' = sent \cup {[req |-> r, on |-> gen, kind |-> "busy"]}
        BY <1>8, <1>i, <3>1, <3>4 DEF WriterEnds, QueueInv
      <4>2. r \notin executed
        BY <1>i, <3>1 DEF AnswerInv, Holding
      <4>3. Remote!Return(r, "busy")
        BY <1>i, <3>1, <3>2, <4>1, <4>2, AnsweredOnce
      <4> QED
        BY <4>3 DEF Remote!Next
    <3> QED
      BY <3>3, <3>4
  <2>2. CASE ~ \E r \in Request : worker[r] = "replying"
    BY <1>8, <1>i, <2>2, Unseen DEF WriterEnds, TypeOK
  <2>3. QED
    BY <2>1, <2>2
<1>9. CASE Fail \/ Reconnect \/ UNCHANGED vars
  BY <1>9, Unseen DEF Fail, Reconnect, vars
<1>10. QED
  <2>1. ASSUME NEW r \in Request, Dispatch(r) \/ Start(r) PROVE Remote!Next
    BY <1>1, <1>2, <2>1 DEF Remote!Next
  <2>2. ASSUME NEW r \in Request, GiveUp(r) \/ (SendFails(r) /\ UNCHANGED sent) PROVE Remote!Next
    BY <1>3, <2>2 DEF Remote!Next, Remote!Failure
  <2>3. ASSUME NEW r \in Request,
               SendResult(r) \/ (SendFails(r) /\ sent' # sent) \/ WriterSends(r)
        PROVE  Remote!Next
    BY <1>4, <1>5, <2>3 DEF Remote!Next, Remote!FromDevice
  <2>4. QED
    BY <1>6, <1>7, <1>8, <1>9, <2>1, <2>2, <2>3 DEF Next, WorkerNext, WriterNext

\* The dispatcher implements RemoteCall over all its connections: a request is executed at
\* most once and has one outcome, a result only of what was executed, "busy" only of what
\* was not and will not be (rpcDispatcher.dispatch).
THEOREM DispatcherImplementsRemoteCall == Spec => ImplementsRemoteCall
BY Invariance, RemoteInit, RemoteStep, PTL DEF Spec, ImplementsRemoteCall, Remote!Spec
=================================================================================
