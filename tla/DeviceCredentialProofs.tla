------------------------- MODULE DeviceCredentialProofs ------------------------
(***************************************************************************)
(* Proofs about DeviceCredential, where a repair does not run next to the    *)
(* connector (Exclusive): whatever is lost, fails or crashes, the saved       *)
(* credential of a device that is not revoked is one the Hub accepts.  And    *)
(* where it may: the Hub's rows only move forward.                            *)
(***************************************************************************)
EXTENDS DeviceCredential, TLAPS

RowType == [state : {"none", "live", "revoked"}, secret : BOOLEAN, key : KeyRow]

\* The Hub accepts a credential, unless its device is revoked.
Accepted(c) ==
  /\ c.id \in Id /\ row[c.id].state # "none"
  /\ row[c.id].state = "live" => IF c.key = NoKey THEN row[c.id].secret ELSE row[c.id].key = c.key

\* One process runs at a time.
Alone == \A p, q \in Process : step[p] # "idle" /\ step[q] # "idle" => p = q

\* A process runs with the saved credential until it has a device of its own.
Loaded == \A p \in Process : step[p] \notin {"idle", "redeemed", "pairing"} => mem[p] = file

\* Only a repair that asks for a device, or may have to, can do without a saved credential.
Working(p) ==
  \/ step[p] \notin {"idle", "denied", "redeem", "redeemed", "pairing"}
  \/ p = "connector" /\ step[p] = "denied"

\* What the request of a process is about.
Request(p) ==
  /\ Working(p) => file # Nothing
  /\ step[p] \in {"upgrade", "checked"} => mem[p].key = NoKey /\ newKey[p] \in Key
  /\ step[p] = "renew" => mem[p].key \in Key /\ newKey[p] = mem[p].key
  /\ step[p] \in {"certified", "saving"} =>
       /\ newKey[p] \in Key
       /\ row[mem[p].id].state = "live" => row[mem[p].id].key = newKey[p]
  /\ step[p] = "redeem" => newKey[p] \in Key
  /\ step[p] \in {"redeemed", "pairing"} => p = "repair" /\ mem[p].key \in Key /\ Accepted(mem[p])

IInv == /\ CredentialTypeOK /\ Alone /\ Loaded
        /\ \A p \in Process : Request(p)
        /\ file # Nothing => Accepted(file)

LEMMA NothingFacts == Nothing \in Credential /\ Nothing.id = NoId /\ Nothing.key = NoKey
BY DEF Nothing, Credential, KeyRow

LEMMA InitInv == CredentialInit => IInv
<1> SUFFICES ASSUME CredentialInit PROVE IInv
  OBVIOUS
<1>1. FirstId \in Id /\ FirstKey \in Key
  BY CredentialAssumption DEF FirstId, FirstKey
<1>2. \A secret \in BOOLEAN, k \in KeyRow :
        /\ Registered(secret, k) \in [Id -> RowType]
        /\ Registered(secret, k)[FirstId] = [state |-> "live", secret |-> secret, key |-> k]
  BY <1>1 DEF Registered, RowType, Unused, KeyRow
<1>3. [i \in Id |-> Unused] \in [Id -> RowType]
  BY DEF Unused, RowType, KeyRow
<1>4. file \in Credential /\ row \in [Id -> RowType] /\ (file # Nothing => Accepted(file))
  <2>1. CASE file = [Nothing EXCEPT !.id = FirstId] /\ row = Registered(TRUE, NoKey)
    <3>1. file \in Credential /\ file.id = FirstId /\ file.key = NoKey
      BY <1>1, <2>1 DEF Nothing, Credential, KeyRow
    <3>2. row \in [Id -> RowType] /\ row[FirstId] = [state |-> "live", secret |-> TRUE, key |-> NoKey]
      BY <1>2, <2>1 DEF KeyRow
    <3> QED
      BY <1>1, <3>1, <3>2 DEF Accepted
  <2>2. CASE file = Certified(FirstId, FirstKey) /\ row = Registered(FALSE, FirstKey)
    <3>1. file \in Credential /\ file.id = FirstId /\ file.key = FirstKey
      BY <1>1, <2>2 DEF Certified, Credential, KeyRow
    <3>2. /\ row \in [Id -> RowType]
          /\ row[FirstId] = [state |-> "live", secret |-> FALSE, key |-> FirstKey]
      BY <1>1, <1>2, <2>2 DEF KeyRow
    <3> QED
      BY <1>1, <3>1, <3>2, CredentialAssumption DEF Accepted
  <2>3. CASE file = Nothing /\ row = [i \in Id |-> Unused]
    BY <1>3, <2>3, NothingFacts
  <2> QED
    BY <2>1, <2>2, <2>3 DEF CredentialInit
<1>5. /\ spare \in BOOLEAN /\ mem = [p \in Process |-> Nothing] /\ faults = 0
      /\ step = [p \in Process |-> "idle"] /\ newKey = [p \in Process |-> NoKey]
  BY DEF CredentialInit
<1>6. CredentialTypeOK
  BY <1>4, <1>5, NothingFacts, CredentialAssumption DEF CredentialTypeOK, RowType, KeyRow
<1> QED
  BY <1>4, <1>5, <1>6 DEF IInv, Alone, Loaded, Request, Working

\* What the first use of a key may change.
Retired(p) ==
  /\ row' \in [Id -> RowType]
  /\ \A i \in Id :
       /\ row'[i].state = row[i].state /\ row'[i].key = row[i].key
       /\ row'[i].secret # row[i].secret => i = mem[p].id /\ mem[p].key # NoKey

LEMMA Retires ==
  ASSUME CredentialTypeOK, NEW p \in Process, UseKey(p), mem[p].id \in Id
  PROVE  Retired(p)
<1>1. row' = [row EXCEPT ![mem[p].id].secret = FALSE]
  BY DEF UseKey
<1>2. row \in [Id -> RowType]
  BY DEF CredentialTypeOK, RowType
<1>3. row[mem[p].id].key = mem[p].key /\ mem[p].key # NoKey
  BY DEF UseKey, KeyValid
<1> QED
  BY <1>1, <1>2, <1>3 DEF Retired, RowType

\* A credential that is accepted is so after its key has been used.
LEMMA StaysAccepted ==
  ASSUME NEW p \in Process, Accepted(mem[p]),
         row \in [Id -> RowType], Retired(p),
         file = mem[p], file' = file
  PROVE  Accepted(file)'
<1>1. file.id \in Id /\ row[file.id].state # "none"
  BY DEF Accepted
<1>2. CASE file.key = NoKey
  BY <1>1, <1>2 DEF Accepted, Retired, RowType, KeyRow
<1>3. CASE file.key # NoKey
  <2>1. row[file.id].state = "live" => row[file.id].key = file.key
    BY <1>3 DEF Accepted
  <2>2. row'[file.id].state = row[file.id].state /\ row'[file.id].key = row[file.id].key
    BY <1>1 DEF Retired, RowType, KeyRow
  <2> QED
    BY <1>1, <1>3, <2>1, <2>2 DEF Accepted
<1> QED
  BY <1>2, <1>3

LEMMA InvStep == Exclusive /\ IInv /\ [CredentialNext]_credential => IInv'
<1> SUFFICES ASSUME Exclusive, IInv, [CredentialNext]_credential PROVE IInv'
  OBVIOUS
<1> USE CredentialAssumption, NothingFacts DEF IInv, CredentialTypeOK, Alone, Loaded, Request,
        Working, Accepted, Goes, Kept, Fault, Process, KeyRow
<1>1. ASSUME NEW p \in Process, Start(p) PROVE IInv'
  BY <1>1 DEF Start, MayStart
<1>2. ASSUME NEW p \in Process, Refresh(p) PROVE IInv'
  BY <1>2 DEF Refresh, Credential
<1>3. ASSUME NEW p \in Process, Refused(p) PROVE IInv'
  BY <1>3 DEF Refused
<1>4. ASSUME NEW p \in Process, CheckToken(p) PROVE IInv'
  BY <1>4 DEF CheckToken
<1>5. ASSUME NEW p \in Process, BindKey(p) PROVE IInv'
  BY <1>5 DEF BindKey
<1>6. ASSUME NEW p \in Process, Renew(p) PROVE IInv'
  <2>1. step[p] = "renew" /\ mem[p] = file /\ UseKey(p) /\ mem[p].id \in Id
    BY <1>6 DEF Renew
  <2>2. row[mem[p].id].state = "live" => row[mem[p].id].key = mem[p].key
    BY <2>1 DEF UseKey, KeyValid
  <2>3. Retired(p)
    BY <2>1, Retires
  <2>4. /\ step' = [step EXCEPT ![p] = "certified"] /\ UNCHANGED <<file, spare, mem, newKey, faults>>
    BY <1>6 DEF Renew
  <2>5. CredentialTypeOK' /\ Alone' /\ Loaded'
    BY <2>1, <2>3, <2>4 DEF Retired, RowType
  <2>0. file # Nothing /\ Accepted(mem[p])
    BY <2>1
  <2>6. file' # Nothing => Accepted(file)'
    BY <2>0, <2>1, <2>3, <2>4, StaysAccepted DEF RowType
  <2>7. ASSUME NEW q \in Process PROVE Request(q)'
    <3>1. CASE q = p
      <4>1. step'[p] = "certified" /\ newKey'[p] = newKey[p] /\ mem'[p] = mem[p] /\ file' # Nothing
        BY <2>0, <2>4
      <4>2. newKey[p] \in Key /\ newKey[p] = mem[p].key
        BY <2>1
      <4>3. row'[mem[p].id].state = "live" => row'[mem[p].id].key = newKey[p]
        <5> DEFINE d == mem[p].id
        <5>1. row'[d].state = row[d].state /\ row'[d].key = row[d].key
          BY <2>1, <2>3 DEF Retired, RowType
        <5>2. row[d].state = "live" => row[d].key = newKey[p]
          BY <2>2, <4>2
        <5> QED
          BY <5>1, <5>2
      <4> QED
        BY <3>1, <4>1, <4>2, <4>3
    <3>2. CASE q # p
      BY <2>1, <2>4, <3>2
    <3> QED
      BY <3>1, <3>2
  <2> QED
    BY <2>5, <2>6, <2>7
<1>7. ASSUME NEW p \in Process, TakeCertificate(p) PROVE IInv'
  BY <1>7 DEF TakeCertificate
<1>8. ASSUME NEW p \in Process, Save(p) PROVE IInv'
  BY <1>8 DEF Save, Certified, Credential
<1>9. ASSUME NEW p \in Process, Dial(p) PROVE IInv'
  <2>1. step[p] = "connect" /\ mem[p] = file /\ mem[p].id \in Id
    BY <1>9 DEF Dial
  <2>2. CASE row' = row
    BY <1>9, <2>1, <2>2 DEF Dial
  <2>3. CASE UseKey(p)
    <3>1. Retired(p)
      BY <2>1, <2>3, Retires
    <3>2. /\ step' = [step EXCEPT ![p] = "online"] /\ UNCHANGED <<file, spare, mem, newKey, faults>>
      BY <1>9 DEF Dial
    <3>3. CredentialTypeOK' /\ Alone' /\ Loaded'
      BY <2>1, <3>1, <3>2 DEF Retired, RowType
    <3>0. file # Nothing /\ Accepted(mem[p])
      BY <2>1
    <3>4. file' # Nothing => Accepted(file)'
      BY <2>1, <3>0, <3>1, <3>2, StaysAccepted DEF RowType
    <3>5. ASSUME NEW q \in Process PROVE Request(q)'
      BY <2>1, <3>2
    <3> QED
      BY <3>3, <3>4, <3>5
  <2> QED
    BY <1>9, <2>2, <2>3 DEF Dial
<1>10. ASSUME NEW p \in Process, Reject(p) PROVE IInv'
  BY <1>10 DEF Reject
<1>11. ASSUME NEW p \in Process, GivesUp(p) PROVE IInv'
  BY <1>11 DEF GivesUp
<1>12. ASSUME NEW p \in Process, Crash(p) PROVE IInv'
  BY <1>12 DEF Crash, Exits
<1>13. CASE Again
  BY <1>13 DEF Again
<1>14. CASE StartPairing
  BY <1>14 DEF StartPairing, MayStart
<1>15. CASE Repair
  BY <1>15 DEF Repair
<1>16. CASE Redeem
  <2> DEFINE new(i) == Certified(i, newKey["repair"])
  <2>1. PICK i \in Id :
          /\ row[i].state = "none"
          /\ row' = [row EXCEPT ![i] = [state |-> "live", secret |-> FALSE, key |-> newKey["repair"]]]
          /\ mem' = [mem EXCEPT !["repair"] = new(i)]
    BY <1>16 DEF Redeem
  <2>2. /\ step["repair"] = "redeem" /\ step' = [step EXCEPT !["repair"] = "redeemed"]
        /\ newKey["repair"] \in Key /\ UNCHANGED <<file, newKey, faults>> /\ spare' = FALSE
    BY <1>16 DEF Redeem
  <2>3. new(i) \in Credential /\ new(i).id = i /\ new(i).key = newKey["repair"]
    BY <2>2 DEF Certified, Credential
  <2>4. /\ row'[i].state = "live" /\ row'[i].key = newKey["repair"]
        /\ \A j \in Id : j # i => row'[j] = row[j]
    BY <2>1
  <2>5. CredentialTypeOK'
    BY <2>1, <2>2, <2>3
  <2>6. file' # Nothing => Accepted(file)'
    BY <2>1, <2>2, <2>4
  <2>7. mem'["repair"] = new(i) /\ mem'["connector"] = mem["connector"]
    BY <2>1
  <2>8. step["connector"] = "idle" /\ step'["connector"] = "idle" /\ step'["repair"] = "redeemed"
    BY <2>2
  <2> HIDE DEF new
  <2>9. Alone' /\ Loaded'
    BY <2>8
  <2>10. ASSUME NEW p \in Process PROVE Request(p)'
    BY <2>2, <2>3, <2>4, <2>7, <2>8
  <2> QED
    BY <2>5, <2>6, <2>9, <2>10
<1>17. CASE RedeemAnswered
  BY <1>17 DEF RedeemAnswered
<1>18. CASE SavePaired
  BY <1>18 DEF SavePaired, Exits
<1>19. CASE RepairEnds \/ PairingFails
  BY <1>19 DEF RepairEnds, PairingFails, Exits
<1>20. CASE Ages
  BY <1>20 DEF Ages, Older, Credential
<1>21. ASSUME NEW i \in Id, Revoke(i) PROVE IInv'
  BY <1>21 DEF Revoke
<1>22. CASE UNCHANGED credential
  BY <1>22 DEF credential
<1> QED
  BY <1>1, <1>2, <1>3, <1>4, <1>5, <1>6, <1>7, <1>8, <1>9, <1>10, <1>11, <1>12, <1>13, <1>14,
     <1>15, <1>16, <1>17, <1>18, <1>19, <1>20, <1>21, <1>22
  DEF CredentialNext, Works, Pairing

\* A row keeps its type when its token is retired or its key is set.
LEMMA RowWritten ==
  ASSUME NEW R \in [Id -> RowType], NEW i
  PROVE  /\ [R EXCEPT ![i].secret = FALSE] \in [Id -> RowType]
         /\ \A k \in KeyRow : [R EXCEPT ![i].key = k] \in [Id -> RowType]
<1>1. ASSUME i \in Id PROVE R[i] \in RowType
  BY <1>1
<1>2. [R EXCEPT ![i].secret = FALSE] \in [Id -> RowType]
  BY <1>1 DEF RowType
<1>3. ASSUME NEW k \in KeyRow PROVE [R EXCEPT ![i].key = k] \in [Id -> RowType]
  BY <1>1 DEF RowType
<1> QED
  BY <1>2, <1>3

\* Every action keeps the variables in their types, also of a repair next to the connector.
LEMMA TypeStep == CredentialTypeOK /\ [CredentialNext]_credential => CredentialTypeOK'
<1> SUFFICES ASSUME CredentialTypeOK, [CredentialNext]_credential PROVE CredentialTypeOK'
  OBVIOUS
<1> USE CredentialAssumption, NothingFacts
    DEF CredentialTypeOK, Goes, Kept, Fault, Exits, Process, KeyRow, Credential
<1>1. ASSUME NEW p \in Process, Start(p) \/ Refresh(p) \/ Refused(p) \/ GivesUp(p)
      PROVE  CredentialTypeOK'
  BY <1>1 DEF Start, Refresh, Refused, GivesUp
<1>2. ASSUME NEW p \in Process, CheckToken(p) \/ TakeCertificate(p) \/ Reject(p) \/ Crash(p)
      PROVE  CredentialTypeOK'
  BY <1>2 DEF CheckToken, TakeCertificate, Reject, Crash
<1>3. ASSUME NEW p \in Process, BindKey(p) PROVE CredentialTypeOK'
  <2>1. /\ row' = [row EXCEPT ![mem[p].id].key = newKey[p]] /\ newKey[p] \in KeyRow
        /\ step' = [step EXCEPT ![p] = "certified"]
        /\ UNCHANGED <<file, spare, mem, newKey, faults>>
    BY <1>3 DEF BindKey
  <2>2. row \in [Id -> RowType]
    BY DEF RowType
  <2>3. row' \in [Id -> RowType]
    BY <2>1, <2>2, RowWritten
  <2> QED
    BY <2>1, <2>3 DEF RowType
<1>4. ASSUME NEW p \in Process, Renew(p) \/ Dial(p) PROVE CredentialTypeOK'
  <2>1. row' = row \/ row' = [row EXCEPT ![mem[p].id].secret = FALSE]
    BY <1>4 DEF Renew, Dial, UseKey
  <2>a. row \in [Id -> RowType]
    BY DEF RowType
  <2>2. row' \in [Id -> RowType]
    BY <2>1, <2>a, RowWritten
  <2>3. /\ UNCHANGED <<file, spare, mem, newKey, faults>>
        /\ step' = [step EXCEPT ![p] = "certified"] \/ step' = [step EXCEPT ![p] = "online"]
    BY <1>4 DEF Renew, Dial
  <2> QED
    BY <2>2, <2>3 DEF RowType
<1>5. ASSUME NEW p \in Process, Save(p) PROVE CredentialTypeOK'
  <2>1. Certified(mem[p].id, newKey[p]) \in Credential
    BY DEF Certified
  <2> HIDE DEF Credential
  <2> QED
    BY <1>5, <2>1 DEF Save
<1>6. CASE Again \/ StartPairing \/ Repair \/ RedeemAnswered \/ SavePaired
  BY <1>6 DEF Again, StartPairing, Repair, RedeemAnswered, SavePaired
<1>7. CASE Redeem
  <2>1. PICK i \in Id :
          /\ row' = [row EXCEPT ![i] = [state |-> "live", secret |-> FALSE, key |-> newKey["repair"]]]
          /\ mem' = [mem EXCEPT !["repair"] = Certified(i, newKey["repair"])]
    BY <1>7 DEF Redeem
  <2>2. Certified(i, newKey["repair"]) \in Credential
    BY DEF Certified
  <2>3. row' \in [Id -> RowType]
    BY <2>1 DEF RowType
  <2> HIDE DEF Credential
  <2>4. mem' \in [Process -> Credential]
    BY <2>1, <2>2
  <2>5. /\ UNCHANGED <<file, newKey, faults>> /\ spare' = FALSE
        /\ step' = [step EXCEPT !["repair"] = "redeemed"]
    BY <1>7 DEF Redeem
  <2> QED
    BY <2>3, <2>4, <2>5 DEF RowType
<1>8. CASE RepairEnds \/ PairingFails
  BY <1>8 DEF RepairEnds, PairingFails
<1>9. CASE Ages
  <2>1. Older(file) \in Credential
    BY DEF Older
  <2> HIDE DEF Credential
  <2> QED
    BY <1>9, <2>1 DEF Ages
<1>10. ASSUME NEW i \in Id, Revoke(i) PROVE CredentialTypeOK'
  BY <1>10 DEF Revoke
<1>11. CASE UNCHANGED credential
  BY <1>11 DEF credential
<1> QED
  BY <1>1, <1>2, <1>3, <1>4, <1>5, <1>6, <1>7, <1>8, <1>9, <1>10, <1>11
  DEF CredentialNext, Works, Pairing

\* The credential's variables keep their types, whatever runs next to whatever.
THEOREM CredentialTypeCorrect == CredentialSpec => []CredentialTypeOK
<1>1. CredentialInit => CredentialTypeOK
  BY InitInv DEF IInv
<1> QED
  BY <1>1, TypeStep, PTL DEF CredentialSpec

\* A row of the Hub only moves forward: from a token to a key, whose first use retires the
\* token, to a revoked device.  Of a device whose token is retired no key is replaced, by a
\* repair that checked the token before either, and nothing makes a revoked device live.
RowsAdvance ==
  [][\A i \in Id :
       /\ row[i].state # "none" /\ ~row[i].secret =>
            row'[i].key = row[i].key /\ ~row'[i].secret
       /\ row[i].state = "revoked" => row'[i].state = "revoked"]_credential

\* No upgrade, renewal or pairing, of the connector or of a repair next to it, takes a used key
\* from its device or gives one back to a revoked device (store.go: BindDeviceKey,
\* AuthenticateDeviceKey).
THEOREM UsedKeysStay == CredentialSpec => RowsAdvance
<1> DEFINE Forward(i) ==
      /\ row[i].state # "none" /\ ~row[i].secret =>
           row'[i].key = row[i].key /\ ~row'[i].secret
      /\ row[i].state = "revoked" => row'[i].state = "revoked"
<1>1. ASSUME CredentialTypeOK, CredentialNext, NEW i \in Id PROVE Forward(i)
  <2> USE DEF CredentialTypeOK
  <2>1. CASE row' = row
    BY <2>1
  <2>2. ASSUME NEW p \in Process, BindKey(p) PROVE Forward(i)
    BY <2>2 DEF BindKey
  <2>3. ASSUME NEW p \in Process, UseKey(p) PROVE Forward(i)
    BY <2>3 DEF UseKey
  <2>4. CASE Redeem
    BY <2>4 DEF Redeem
  <2>5. ASSUME NEW j \in Id, Revoke(j) PROVE Forward(i)
    BY <2>5 DEF Revoke
  <2>6. \/ row' = row \/ Redeem \/ (\E j \in Id : Revoke(j))
        \/ \E p \in Process : BindKey(p) \/ UseKey(p)
    BY <1>1 DEF CredentialNext, Works, Pairing, Start, Refresh, Refused, CheckToken, Renew,
         TakeCertificate, Save, Dial, Reject, GivesUp, Crash, Again, StartPairing, Repair,
         RedeemAnswered, SavePaired, RepairEnds, PairingFails, Ages, Kept
  <2> QED
    BY <2>1, <2>2, <2>3, <2>4, <2>5, <2>6
<1>2. CredentialTypeOK /\ [CredentialNext]_credential =>
        [\A i \in Id : Forward(i)]_credential
  BY <1>1
<1> QED
  BY <1>2, CredentialTypeCorrect, PTL DEF CredentialSpec, RowsAdvance

\* While repairs do not run next to the connector, no loss, failed save or crash in an upgrade, a
\* renewal or a pairing leaves a saved credential that the Hub will never accept.
THEOREM MachinesAreNotLockedOut == Exclusive => (CredentialSpec => []NeverLockedOut)
<1> SUFFICES ASSUME Exclusive PROVE CredentialSpec => []NeverLockedOut
  OBVIOUS
<1>1. IInv => NeverLockedOut
  BY DEF IInv, NeverLockedOut, Accepted
<1>2. IInv /\ [CredentialNext]_credential => IInv'
  BY InvStep
<1> QED
  BY <1>1, <1>2, InitInv, PTL DEF CredentialSpec
===============================================================================
