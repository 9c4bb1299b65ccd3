---------------------------- MODULE DeviceCredential ---------------------------
(***************************************************************************)
(* The credential of one machine: its file, the connector that runs with it, *)
(* the `connector pair --reuse-existing' that repairs it, and the rows of     *)
(* its devices at the Hub.  A legacy token is upgraded to a certified key, a  *)
(* certificate is renewed, a machine whose device is gone is paired again.    *)
(* Requests and their answers may be lost, saves may fail, processes may      *)
(* crash.  A request whose client has given up is not handled later: its      *)
(* context is cancelled.  Nonces and signatures are what lets a proof be made *)
(* with the key alone; a certificate is its age, and one that is past its     *)
(* renewal grace, which only a new pairing can replace, is left out.          *)
(***************************************************************************)
EXTENDS Naturals, FiniteSets

CONSTANTS
  Id,         \* device identifiers
  Key,        \* device keys, named again once nothing holds them
  NoId, NoKey,
  Exclusive,  \* whether the connector is stopped while a repair runs
  MaxFaults   \* bound on crashes, lost messages and failed saves

ASSUME CredentialAssumption ==
  /\ Id # {} /\ Key # {} /\ NoId \notin Id /\ NoKey \notin Key
  /\ Exclusive \in BOOLEAN /\ MaxFaults \in Nat

Process == {"connector", "repair"}
KeyRow  == Key \cup {NoKey}

\* A saved credential: a token as long as it has no key.
Credential == [id : Id \cup {NoId}, key : KeyRow, age : {"fresh", "due", "expired"}]
Nothing    == [id |-> NoId, key |-> NoKey, age |-> "fresh"]
Certified(i, k) == [id |-> i, key |-> k, age |-> "fresh"]

VARIABLES
  file,     \* connector.json
  row,      \* devices: secret_hash IS NOT NULL, public_key_hash, revoked_at
  spare,    \* an unused pairing code is at hand
  mem,      \* the credential each process runs with
  step,     \* what each process is doing
  newKey,   \* the key of its request
  faults

credential == <<file, row, spare, mem, step, newKey, faults>>

CredentialTypeOK ==
  /\ file \in Credential
  /\ row \in [Id -> [state : {"none", "live", "revoked"}, secret : BOOLEAN, key : KeyRow]]
  /\ spare \in BOOLEAN
  /\ mem \in [Process -> Credential]
  /\ step \in [Process -> {"idle", "refresh", "upgrade", "checked", "renew", "certified", "saving",
                           "connect", "online", "denied", "redeem", "redeemed", "pairing"}]
  /\ newKey \in [Process -> KeyRow]
  /\ faults \in 0..MaxFaults

Unused == [state |-> "none", secret |-> FALSE, key |-> NoKey]

FirstId  == CHOOSE i \in Id : TRUE
FirstKey == CHOOSE k \in Key : TRUE
Registered(secret, k) ==
  [i \in Id |-> IF i = FirstId THEN [state |-> "live", secret |-> secret, key |-> k] ELSE Unused]

\* A machine with a legacy token, one with a certificate, one that is new.
CredentialInit ==
  /\ \/ file = [Nothing EXCEPT !.id = FirstId] /\ row = Registered(TRUE, NoKey)
     \/ file = Certified(FirstId, FirstKey) /\ row = Registered(FALSE, FirstKey)
     \/ file = Nothing /\ row = [i \in Id |-> Unused]
  /\ spare \in BOOLEAN
  /\ mem = [p \in Process |-> Nothing]
  /\ step = [p \in Process |-> "idle"]
  /\ newKey = [p \in Process |-> NoKey]
  /\ faults = 0

-------------------------------------------------------------------------------
Goes(p, from, to) == step[p] = from /\ step' = [step EXCEPT ![p] = to]
Kept == UNCHANGED <<file, row, spare, mem, newKey, faults>>

\* The process ends.
Exits(p) == /\ step' = [step EXCEPT ![p] = "idle"]
            /\ mem' = [mem EXCEPT ![p] = Nothing]
            /\ newKey' = [newKey EXCEPT ![p] = NoKey]

\* A key that nothing holds stands for a new one.
Fresh(k) == /\ file.key # k
            /\ \A i \in Id : row[i].state = "live" => row[i].key # k
            /\ \A p \in Process : newKey[p] # k /\ mem[p].key # k

\* The installer starts a repair while the connector still runs.
MayStart(p) == Exclusive => \A q \in Process \ {p} : step[q] = "idle"

\* The connector reads the file when it starts and never again; without one it is not running.
Start(p) ==
  /\ Goes(p, "idle", "refresh") /\ file # Nothing /\ MayStart(p)
  /\ mem' = [mem EXCEPT ![p] = file]
  /\ UNCHANGED <<file, row, spare, newKey, faults>>

\* A first pairing has no credential to refresh.
StartPairing ==
  /\ Goes("repair", "idle", "denied") /\ file = Nothing /\ MayStart("repair")
  /\ mem' = [mem EXCEPT !["repair"] = Nothing]
  /\ UNCHANGED <<file, row, spare, newKey, faults>>

\* refreshCredential: a token is upgraded with a new key, a certificate renewed when it is due.
Refresh(p) ==
  /\ \/ /\ mem[p].key = NoKey
        /\ \E k \in Key : Fresh(k) /\ newKey' = [newKey EXCEPT ![p] = k]
        /\ Goes(p, "refresh", "upgrade")
     \/ /\ mem[p].key # NoKey /\ mem[p].age # "fresh"
        /\ newKey' = [newKey EXCEPT ![p] = mem[p].key]
        /\ Goes(p, "refresh", "renew")
     \/ /\ mem[p].key # NoKey /\ mem[p].age = "fresh"
        /\ Goes(p, "refresh", "connect") /\ UNCHANGED newKey
  /\ UNCHANGED <<file, row, spare, mem, faults>>

\* A crash, a stop, a loss or a failure, of which a behaviour has a bounded number.
Fault == faults < MaxFaults /\ faults' = faults + 1

\* A request, its answer or a save is lost: the process goes on with the credential it has; a
\* repair that cannot save ends.
GivesUp(p) ==
  /\ Fault
  /\ \E s \in {"upgrade", "checked", "renew", "certified", "saving"} :
       Goes(p, s, "connect") /\ (p = "repair" => s # "saving")
  /\ newKey' = [newKey EXCEPT ![p] = NoKey]
  /\ UNCHANGED <<file, row, spare, mem>>

TokenValid(p) == LET d == row[mem[p].id] IN d.state = "live" /\ d.secret /\ mem[p].key = NoKey
KeyValid(p)   == LET d == row[mem[p].id] IN d.state = "live" /\ mem[p].key # NoKey /\ d.key = mem[p].key

\* BindDeviceKey authenticates the token, and then sets the key of a row that still has one.
CheckToken(p) == Goes(p, "upgrade", "checked") /\ TokenValid(p) /\ Kept

\* Mutant: the token is retired when the key is bound, before its first use.
RetiringBindKey(p) ==
  LET d == row[mem[p].id] IN
  /\ Goes(p, "checked", "certified")
  /\ d.state = "live" /\ d.secret
  /\ row' = [row EXCEPT ![mem[p].id] = [d EXCEPT !.key = newKey[p], !.secret = FALSE]]
  /\ UNCHANGED <<file, spare, mem, newKey, faults>>

BindKey(p) ==
  LET d == row[mem[p].id] IN
  /\ Goes(p, "checked", "certified")
  /\ d.state = "live" /\ d.secret
  /\ row' = [row EXCEPT ![mem[p].id].key = newKey[p]]
  /\ UNCHANGED <<file, spare, mem, newKey, faults>>

\* 401 to a token or a key that is not valid, or is no longer.
Refused(p) ==
  /\ \/ (\E s \in {"upgrade", "checked"} : Goes(p, s, "connect")) /\ ~TokenValid(p)
     \/ Goes(p, "renew", "connect") /\ ~KeyValid(p)
  /\ newKey' = [newKey EXCEPT ![p] = NoKey]
  /\ UNCHANGED <<file, row, spare, mem, faults>>

\* AuthenticateDeviceKey: the key proves itself, and its first use retires the token.
UseKey(p) == /\ KeyValid(p)
             /\ row' = [row EXCEPT ![mem[p].id].secret = FALSE]

\* A renewal accepts a certificate in its grace, a connection does not.
Renew(p) ==
  /\ Goes(p, "renew", "certified") /\ UseKey(p)
  /\ UNCHANGED <<file, spare, mem, newKey, faults>>

\* The certificate arrives; saveConfig replaces the file, and then the process adopts it.
TakeCertificate(p) == Goes(p, "certified", "saving") /\ Kept

Save(p) ==
  LET new == Certified(mem[p].id, newKey[p]) IN
  /\ Goes(p, "saving", "connect")
  /\ file' = new /\ mem' = [mem EXCEPT ![p] = new]
  /\ newKey' = [newKey EXCEPT ![p] = NoKey]
  /\ UNCHANGED <<row, spare, faults>>

\* connectHeaders and AuthenticateConnector.
Dial(p) ==
  /\ Goes(p, "connect", "online")
  /\ \/ TokenValid(p) /\ UNCHANGED row
     \/ UseKey(p) /\ mem[p].age # "expired"
  /\ UNCHANGED <<file, spare, mem, newKey, faults>>

\* 401: the credential is not valid, or the Hub could not read its database.
Reject(p) ==
  /\ Goes(p, "connect", "denied")
  /\ IF TokenValid(p) \/ (KeyValid(p) /\ mem[p].age # "expired") THEN Fault ELSE faults' = faults
  /\ UNCHANGED <<file, row, spare, mem, newKey>>

\* The connector looks hourly whether to renew, and tries again after a loss or a refusal.
Again ==
  /\ \E s \in {"online", "denied"} : Goes("connector", s, "refresh")
  /\ Kept

\* A repair ends when the credential is valid, when it could not tell, or without a code.
RepairEnds ==
  /\ step["repair"] \in {"connect", "online"} \/ (step["repair"] = "denied" /\ ~spare)
  /\ Exits("repair")
  /\ UNCHANGED <<file, row, spare, faults>>

\* A repair that fails to save ends; one that is refused asks for another device with its code.
Repair ==
  /\ spare
  /\ Goes("repair", "denied", "redeem")
  /\ \E k \in Key : Fresh(k) /\ newKey' = [newKey EXCEPT !["repair"] = k]
  /\ UNCHANGED <<file, row, spare, mem, faults>>

Redeem ==
  /\ Goes("repair", "redeem", "redeemed") /\ spare
  /\ \E i \in Id :
       /\ row[i].state = "none"
       /\ row' = [row EXCEPT ![i] = [state |-> "live", secret |-> FALSE, key |-> newKey["repair"]]]
       /\ mem' = [mem EXCEPT !["repair"] = Certified(i, newKey["repair"])]
  /\ spare' = FALSE
  /\ UNCHANGED <<file, newKey, faults>>

RedeemAnswered == Goes("repair", "redeemed", "pairing") /\ Kept

SavePaired ==
  /\ step["repair"] = "pairing" /\ Exits("repair")
  /\ file' = mem["repair"]
  /\ UNCHANGED <<row, spare, faults>>

\* The request is refused, its answer is lost or the file cannot be written: the device that
\* the Hub has made is nobody's.
PairingFails ==
  /\ step["repair"] \in {"redeem", "redeemed", "pairing", "saving"} /\ Exits("repair")
  /\ UNCHANGED <<file, row, spare, faults>>

Crash(p) ==
  /\ step[p] # "idle" /\ Fault /\ Exits(p)
  /\ UNCHANGED <<file, row, spare>>

Older(c) == [c EXCEPT !.age = IF @ = "fresh" THEN "due" ELSE "expired"]

\* Time passes for every copy of a certificate.
Ages ==
  /\ file.key # NoKey /\ file.age # "expired"
  /\ file' = Older(file)
  /\ mem' = [p \in Process |-> IF mem[p].key = file.key /\ mem[p].id = file.id THEN file' ELSE mem[p]]
  /\ UNCHANGED <<row, spare, step, newKey, faults>>

Revoke(i) ==
  /\ row[i].state = "live"
  /\ row' = [row EXCEPT ![i].state = "revoked"]
  /\ UNCHANGED <<file, spare, mem, step, newKey, faults>>

Works(p) == Refresh(p) \/ Refused(p) \/ CheckToken(p) \/ BindKey(p) \/ Renew(p) \/ TakeCertificate(p)
              \/ Save(p) \/ Dial(p) \/ Reject(p)

Pairing == StartPairing \/ Repair \/ Redeem \/ RedeemAnswered \/ SavePaired

CredentialNext ==
  \/ \E p \in Process : Start(p) \/ Works(p) \/ GivesUp(p) \/ Crash(p)
  \/ Again \/ Pairing \/ RepairEnds \/ PairingFails \/ Ages
  \/ \E i \in Id : Revoke(i)

-------------------------------------------------------------------------------
(* Properties. *)

\* Whenever nothing is changing it, the saved credential of a device that is not revoked is one
\* the Hub accepts or renews, whatever was lost, failed or crashed while it was changed.
\* (store.go: BindDeviceKey, AuthenticateDeviceKey; credential.go: refreshCredential)
Changing(p) == step[p] \notin {"idle", "refresh", "connect", "online", "denied"}

NeverLockedOut ==
  file # Nothing /\ row[file.id].state = "live" /\ (\A p \in Process : ~Changing(p)) =>
    IF file.key = NoKey THEN row[file.id].secret ELSE row[file.id].key = file.key

CredentialSpec == CredentialInit /\ [][CredentialNext]_credential
===============================================================================
