----------------------------- MODULE HubAccessProofs ----------------------------
(***************************************************************************)
(* Proofs about who may do what at the Hub: Accounts, and TerminalSession   *)
(* over it.                                                                *)
(*                                                                         *)
(* The tables are in three parts that seldom change together: people (who  *)
(* owns and is a member of what), logins, and devices.  Frames says which  *)
(* handler steps touch which part; a lemma for each part shows that those  *)
(* steps keep it sound, and Ready is what a handler still knows of what it *)
(* read in an earlier statement; Decider, that it still is the owner's.  Of *)
(* a terminal view it is shown that it has one socket, of the tables that   *)
(* terminals disturb none of this, and of a ticket that it opens one        *)
(* terminal.                                                                *)
(***************************************************************************)
EXTENDS TerminalSession, FiniteSetTheorems, TLAPS

people  == <<users, owner, role>>
logins  == <<token, session>>
devices == <<device, code>>

\* A step of the handler of r, other than Cut.
Handles(r) == Advance(r) \/ Fails(r) \/ DeadlockVictim(r)

PeopleAct(r) == \/ CreateSpace(r) \/ AddMember(r) \/ AddGithubMember(r) \/ ChangeMember(r)
                \/ RemoveMember(r) \/ DeleteSpaceCommit(r) \/ GithubUser(r) \/ EnsureSpace(r)
                \/ EnsureMember(r)
LoginAct(r)  == Logout(r) \/ CreateToken(r) \/ FirstToken(r) \/ RevokeToken(r) \/ NewSession(r)
DeviceAct(r) == \/ CreateDevice(r) \/ CreatePairing(r) \/ RedeemCommit(r) \/ RevokeDevice(r)
                \/ DeleteSpaceCommit(r)

-------------------------------------------------------------------------------
(* The inductive invariant. *)

HasHome(u)   == owner[Home[u]] = u
LivesHome(u) == HasHome(u) /\ role[Home[u]][u] = "owner"

\* A personal space has its user as owner or none yet, nobody is a member of it before its
\* owner is, and only users are members.
HomesSound ==
  /\ \A u \in User : owner[Home[u]] \in {u, NoUser}
  /\ \A u, v \in User : role[Home[u]][v] # "none" => role[Home[u]][u] = "owner"
  /\ \A s \in Space, u \in User : role[s][u] # "none" => u \in users

\* Tokens and sessions are of users.
LoginsSound ==
  /\ \A t \in Token : token[t].state # "none" => token[t].user \in users
  /\ \A s \in Session : session[s].state = "live" => session[s].user \in users

\* One Redeem holds a code, which is not used; a code that made a device is used.
Redeeming(r) == At(r, "redeem", "locked")

CodesSound ==
  /\ \A d \in Device : device[d].from # NoCode => code[device[d].from].state \in {"used", "deleted"}
  /\ \A r \in Request : Redeeming(r) => code[req[r].code].state \in {"open", "expired"}
  /\ \A q, r \in Request : Redeeming(q) /\ Redeeming(r) /\ req[q].code = req[r].code => q = r

\* Only a handler that has committed owes a cut.
Owing(r)  == owed[r] # {} => pc[r] \in {"committed", "cutting", "failed"}
OwedSound == \A r \in Request : Owing(r)

\* What a handler relies on, having read it in an earlier statement.
Ready(r) ==
  /\ pc[r] \in {"authed", "allowed", "space", "member", "session"} => who[r] \in users
  /\ At(r, "addMember", "token") => req[r].user \in users
  /\ pc[r] = "member" => HasHome(who[r])
  /\ pc[r] = "session" => LivesHome(who[r])
  /\ \A u \in User : pc[r] = "allowed" /\ req[r].op \in SpaceOps /\ req[r].space = Home[u]
                       => LivesHome(u)
  /\ At(r, "deleteSpace", "locked") => req[r].space \in Team

PeopleInv  == OwnersStay /\ HomesSound
LoginsInv  == LoginsSound /\ SessionsDieWithToken /\ LoginHasHome
DevicesInv == CodesSound /\ OneDevicePerCode
CutInv     == OwedSound /\ RevokedIsCut

IInv == /\ TypeOK /\ PeopleInv /\ LoginsInv /\ DevicesInv /\ CutInv
        /\ \A r \in Request : Ready(r)

-------------------------------------------------------------------------------
(* What the steps of a handler touch. *)

\* The fields of a request are of their types.
LEMMA Carries ==
  ASSUME TypeOK, NEW r \in Request
  PROVE  /\ req[r].op \in Op /\ req[r].session \in Session /\ req[r].space \in Space
         /\ req[r].user \in User /\ req[r].role \in Roles /\ req[r].token \in Token
         /\ req[r].code \in Code /\ req[r].device \in Device
BY DEF TypeOK, RequestType

\* Users have homes of their own.
LEMMA Homes ==
  /\ Home \in [User -> Space] /\ NoUser \notin User
  /\ \A u, v \in User : Home[u] = Home[v] => u = v
BY ConstantsAssumption

\* The operations whose handlers read a role, and the roles that are never "none".
LEMMA Permits ==
  /\ {"addMember", "addGithubMember", "changeMember", "removeMember"} \subseteq SpaceOps
  /\ {"createSpace", "tokenLogin", "githubLogin", "redeem"} \cap SpaceOps = {}
  /\ \A op \in SpaceOps : ~Allowed("none", ActionOf[op])
BY DEF SpaceOps, ActionOf, Allowed, Roles

\* A step of a handler moves its own request, and nothing of another one.
Moves(r) == /\ \E s \in Step : Go(r, s)
            /\ \E u \in UserRow : who' = [who EXCEPT ![r] = u]
            /\ \E D \in SUBSET Device : owed' = [owed EXCEPT ![r] = D]

LEMMA MovesOwn == ASSUME TypeOK, NEW r \in Request, Handles(r) PROVE Moves(r)
<1>0. who = [who EXCEPT ![r] = who[r]] /\ owed = [owed EXCEPT ![r] = owed[r]]
  BY DEF TypeOK
<1> USE Carries, <1>0 DEF Moves, Step, Go, At, TypeOK
<1>1. CASE Authenticate(r)
  BY <1>1 DEF Authenticate, database, UserRow, SessionRow
<1>2. CASE Authorize(r)
  BY <1>2 DEF Authorize, database
<1>3. CASE Logout(r)
  BY <1>3 DEF Logout
<1>4. CASE CreateToken(r)
  BY <1>4 DEF CreateToken, NewToken
<1>5. CASE RevokeToken(r)
  BY <1>5 DEF RevokeToken, Refuse, database
<1>6. CASE CreateSpace(r)
  BY <1>6 DEF CreateSpace
<1>7. CASE AddMember(r)
  BY <1>7 DEF AddMember, Refuse, database
<1>8. CASE FirstToken(r)
  BY <1>8 DEF FirstToken, NewToken
<1>9. CASE AddGithubMember(r)
  BY <1>9 DEF AddGithubMember, Refuse, database
<1>10. CASE ChangeMember(r)
  BY <1>10 DEF ChangeMember, SetMember, Refuse, database
<1>11. CASE RemoveMember(r)
  BY <1>11 DEF RemoveMember, SetMember, Refuse, database
<1>12. CASE CreateDevice(r)
  BY <1>12 DEF CreateDevice, Refuse, database
<1>13. CASE CreatePairing(r)
  BY <1>13 DEF CreatePairing, Refuse, database
<1>14. CASE RedeemLock(r)
  BY <1>14 DEF RedeemLock, database
<1>15. CASE RedeemCommit(r)
  BY <1>15 DEF RedeemCommit
<1>16. CASE RedeemIssue(r)
  BY <1>16 DEF RedeemIssue, database
<1>17. CASE RevokeDevice(r)
  BY <1>17 DEF RevokeDevice, Refuse, database
<1>18. CASE DeleteSpaceLock(r)
  BY <1>18 DEF DeleteSpaceLock, database
<1>19. CASE DeleteSpaceCommit(r)
  BY <1>19 DEF DeleteSpaceCommit, DevicesOf
<1>20. CASE Acknowledged(r)
  BY <1>20 DEF Acknowledged, database
<1>21. CASE CutDone(r)
  BY <1>21 DEF CutDone, database
<1>22. CASE TokenUser(r)
  BY <1>22 DEF TokenUser, Refuse, database, UserRow, TokenRow
<1>23. CASE GithubUser(r)
  BY <1>23 DEF GithubUser, UserRow
<1>24. CASE EnsureSpace(r)
  BY <1>24 DEF EnsureSpace
<1>25. CASE EnsureMember(r)
  BY <1>25 DEF EnsureMember
<1>26. CASE NewSession(r)
  BY <1>26 DEF NewSession, Refuse, database
<1>27. CASE Fails(r)
  BY <1>27 DEF Fails, database
<1>28. CASE DeadlockVictim(r)
  BY <1>28 DEF DeadlockVictim, database
<1> QED
  BY <1>1, <1>2, <1>3, <1>4, <1>5, <1>6, <1>7, <1>8, <1>9, <1>10, <1>11, <1>12, <1>13,
     <1>14, <1>15, <1>16, <1>17, <1>18, <1>19, <1>20, <1>21, <1>22, <1>23, <1>24,
     <1>25, <1>26, <1>27, <1>28
  DEF Handles, Advance

\* Which steps change which part of the tables, and that only RedeemLock locks a code.
LEMMA Frames ==
  ASSUME TypeOK, NEW r \in Request, Handles(r)
  PROVE  /\ UNCHANGED people \/ PeopleAct(r)
         /\ UNCHANGED logins \/ LoginAct(r)
         /\ UNCHANGED devices \/ DeviceAct(r)
         /\ pc'[r] = "locked" /\ req[r].op = "redeem" => RedeemLock(r)
<1> USE DEF people, logins, devices, PeopleAct, LoginAct, DeviceAct
<1>1. CASE Authenticate(r)
  BY <1>1 DEF Authenticate, Go, At, database, TypeOK
<1>2. CASE Authorize(r)
  BY <1>2 DEF Authorize, Go, At, database, TypeOK
<1>3. CASE Logout(r)
  BY <1>3 DEF Logout, Go, At, TypeOK
<1>4. CASE CreateToken(r)
  BY <1>4 DEF CreateToken, NewToken, Go, At, TypeOK
<1>5. CASE RevokeToken(r)
  BY <1>5 DEF RevokeToken, Go, At, Refuse, database, TypeOK
<1>6. CASE CreateSpace(r)
  BY <1>6 DEF CreateSpace, Go, At, TypeOK
<1>7. CASE AddMember(r)
  BY <1>7 DEF AddMember, Inserts, Go, At, Refuse, database, TypeOK
<1>8. CASE FirstToken(r)
  BY <1>8 DEF FirstToken, NewToken, Go, At, TypeOK
<1>9. CASE AddGithubMember(r)
  BY <1>9 DEF AddGithubMember, Inserts, Go, At, Refuse, database, TypeOK
<1>10. CASE ChangeMember(r)
  BY <1>10 DEF ChangeMember, SetMember, Go, At, Refuse, database, TypeOK
<1>11. CASE RemoveMember(r)
  BY <1>11 DEF RemoveMember, SetMember, Go, At, Refuse, database, TypeOK
<1>12. CASE CreateDevice(r)
  BY <1>12 DEF CreateDevice, Inserts, Go, At, Refuse, database, TypeOK
<1>13. CASE CreatePairing(r)
  BY <1>13 DEF CreatePairing, Inserts, Go, At, Refuse, database, TypeOK
<1>14. CASE RedeemLock(r)
  BY <1>14 DEF RedeemLock, Go, At, database, TypeOK
<1>15. CASE RedeemCommit(r)
  BY <1>15 DEF RedeemCommit, Go, At, TypeOK
<1>16. CASE RedeemIssue(r)
  BY <1>16 DEF RedeemIssue, Go, At, database, TypeOK
<1>17. CASE RevokeDevice(r)
  BY <1>17 DEF RevokeDevice, Go, At, Refuse, database, TypeOK
<1>18. CASE DeleteSpaceLock(r)
  BY <1>18 DEF DeleteSpaceLock, Inserts, Go, At, database, TypeOK
<1>19. CASE DeleteSpaceCommit(r)
  BY <1>19 DEF DeleteSpaceCommit, Go, At, TypeOK
<1>20. CASE Acknowledged(r)
  BY <1>20 DEF Acknowledged, Go, At, database, TypeOK
<1>21. CASE CutDone(r)
  BY <1>21 DEF CutDone, Go, At, database, TypeOK
<1>22. CASE TokenUser(r)
  BY <1>22 DEF TokenUser, Go, At, Refuse, database, TypeOK
<1>23. CASE GithubUser(r)
  BY <1>23 DEF GithubUser, Go, At, TypeOK
<1>24. CASE EnsureSpace(r)
  BY <1>24 DEF EnsureSpace, Go, At, TypeOK
<1>25. CASE EnsureMember(r)
  BY <1>25 DEF EnsureMember, Go, At, TypeOK
<1>26. CASE NewSession(r)
  BY <1>26 DEF NewSession, Go, At, Refuse, database, TypeOK
<1>27. CASE Fails(r)
  BY <1>27 DEF Fails, InProgress, Go, At, database, TypeOK
<1>28. CASE DeadlockVictim(r)
  BY <1>28 DEF DeadlockVictim, Deadlocked, Go, At, database, TypeOK
<1> QED
  BY <1>1, <1>2, <1>3, <1>4, <1>5, <1>6, <1>7, <1>8, <1>9, <1>10, <1>11, <1>12, <1>13,
     <1>14, <1>15, <1>16, <1>17, <1>18, <1>19, <1>20, <1>21, <1>22, <1>23, <1>24,
     <1>25, <1>26, <1>27, <1>28
  DEF Handles, Advance

-------------------------------------------------------------------------------
(* Types. *)

\* A role written is a role.
LEMMA RoleWritten ==
  ASSUME TypeOK, NEW s \in Space, NEW u \in User, NEW x \in Roles \cup {"none"}
  PROVE  [role EXCEPT ![s][u] = x] \in [Space -> [User -> Roles \cup {"none"}]]
BY DEF TypeOK

LEMMA PeopleType == ASSUME TypeOK, NEW r \in Request, PeopleAct(r)
  PROVE /\ users' \subseteq User /\ owner' \in [Space -> UserRow]
        /\ role' \in [Space -> [User -> Roles \cup {"none"}]]
<1>1. /\ who[r] \in UserRow /\ "owner" \in Roles /\ Home \in [User -> Space]
      /\ NoUser \in UserRow
  BY Homes DEF TypeOK, UserRow, Roles
<1>11. ASSUME NEW x \in Roles \cup {"none"},
              role' = role \/ role' = [role EXCEPT ![req[r].space][req[r].user] = x]
       PROVE  role' \in [Space -> [User -> Roles \cup {"none"}]]
  <2>1. CASE role' = role
    BY <2>1 DEF TypeOK
  <2>2. CASE role' = [role EXCEPT ![req[r].space][req[r].user] = x]
    BY <2>2, Carries, RoleWritten
  <2> QED
    BY <1>11, <2>1, <2>2
<1>2. CASE CreateSpace(r)
  BY <1>1, <1>2, Carries DEF CreateSpace, TypeOK
<1>3. CASE AddMember(r)
  <2>1. /\ owner' = owner /\ users' \subseteq users \cup {req[r].user}
        /\ role' = role \/ role' = [role EXCEPT ![req[r].space][req[r].user] = req[r].role]
    BY <1>3 DEF AddMember, Refuse, database
  <2>2. users' \subseteq User /\ owner' \in [Space -> UserRow]
    BY <2>1, Carries DEF TypeOK
  <2> QED
    BY <1>11, <2>1, <2>2, Carries
<1>4. CASE AddGithubMember(r)
  <2>1. /\ owner' = owner /\ users' \subseteq users \cup {req[r].user}
        /\ role' = role \/ role' = [role EXCEPT ![req[r].space][req[r].user] = req[r].role]
    BY <1>4 DEF AddGithubMember, Refuse, database
  <2>2. users' \subseteq User /\ owner' \in [Space -> UserRow]
    BY <2>1, Carries DEF TypeOK
  <2> QED
    BY <1>11, <2>1, <2>2, Carries
<1>5. CASE ChangeMember(r)
  <2>1. /\ owner' = owner /\ users' \subseteq users \cup {req[r].user}
        /\ role' = role \/ role' = [role EXCEPT ![req[r].space][req[r].user] = req[r].role]
    BY <1>5 DEF ChangeMember, SetMember, Refuse, database
  <2>2. users' \subseteq User /\ owner' \in [Space -> UserRow]
    BY <2>1, Carries DEF TypeOK
  <2> QED
    BY <1>11, <2>1, <2>2, Carries
<1>6. CASE RemoveMember(r)
  <2>1. /\ owner' = owner /\ users' \subseteq users \cup {req[r].user}
        /\ role' = role \/ role' = [role EXCEPT ![req[r].space][req[r].user] = "none"]
    BY <1>6 DEF RemoveMember, SetMember, Refuse, database
  <2>2. users' \subseteq User /\ owner' \in [Space -> UserRow]
    BY <2>1, Carries DEF TypeOK
  <2> QED
    BY <1>11, <2>1, <2>2, Carries
<1>7. CASE DeleteSpaceCommit(r)
  BY <1>1, <1>7, Carries DEF DeleteSpaceCommit, TypeOK
<1>8. CASE GithubUser(r)
  BY <1>8, Carries DEF GithubUser, TypeOK
<1>9. CASE EnsureSpace(r)
  BY <1>1, <1>9 DEF EnsureSpace, TypeOK
<1>10. CASE EnsureMember(r)
  BY <1>1, <1>10 DEF EnsureMember, TypeOK
<1> QED
  BY <1>2, <1>3, <1>4, <1>5, <1>6, <1>7, <1>8, <1>9, <1>10 DEF PeopleAct

LEMMA LoginsType == ASSUME TypeOK, NEW r \in Request, LoginAct(r)
  PROVE token' \in [Token -> TokenRow] /\ session' \in [Session -> SessionRow]
<1> USE Carries DEF TypeOK
<1>1. CASE Logout(r)
  BY <1>1 DEF Logout, SessionRow
<1>2. CASE CreateToken(r)
  BY <1>2 DEF CreateToken, NewToken, TokenRow
<1>3. CASE FirstToken(r)
  BY <1>3 DEF FirstToken, NewToken, TokenRow, UserRow
<1>4. CASE RevokeToken(r)
  BY <1>4 DEF RevokeToken, Refuse, database, TokenRow, SessionRow
<1>5. CASE NewSession(r)
  BY <1>5 DEF NewSession, Refuse, database, SessionRow
<1> QED
  BY <1>1, <1>2, <1>3, <1>4, <1>5 DEF LoginAct

LEMMA DevicesType == ASSUME TypeOK, NEW r \in Request, DeviceAct(r)
  PROVE device' \in [Device -> DeviceRow] /\ code' \in [Code -> CodeRow]
<1> USE Carries DEF TypeOK
<1>1. CASE CreateDevice(r)
  <2> DEFINE new == [space |-> req[r].space, from |-> NoCode, state |-> "live"]
  <2>1. new \in DeviceRow
    BY DEF DeviceRow
  <2>2. code' = code /\ (device' = device \/ device' = [device EXCEPT ![req[r].device] = new])
    BY <1>1 DEF CreateDevice, Refuse, database
  <2> HIDE DEF new
  <2> QED
    BY <2>1, <2>2
<1>2. CASE CreatePairing(r)
  <2> DEFINE new == [space |-> req[r].space, by |-> who[r], state |-> "open"]
  <2>1. new \in CodeRow
    BY DEF CodeRow
  <2>2. device' = device /\ (code' = code \/ code' = [code EXCEPT ![req[r].code] = new])
    BY <1>2 DEF CreatePairing, Refuse, database
  <2> HIDE DEF new
  <2> QED
    BY <2>1, <2>2
<1>3. CASE RedeemCommit(r)
  <2> DEFINE made == [space |-> code[req[r].code].space, from |-> req[r].code, state |-> "live"]
             used == [code[req[r].code] EXCEPT !.state = "used"]
  <2>1. code[req[r].code] \in CodeRow
    OBVIOUS
  <2>2. made \in DeviceRow
    BY <2>1 DEF DeviceRow, CodeRow
  <2>3. used \in CodeRow
    BY <2>1 DEF CodeRow
  <2>4. device' = [device EXCEPT ![req[r].device] = made] /\ code' = [code EXCEPT ![req[r].code] = used]
    BY <1>3 DEF RedeemCommit
  <2> HIDE DEF made, used
  <2> QED
    BY <2>2, <2>3, <2>4
<1>4. CASE RevokeDevice(r)
  <2> DEFINE new == [device[req[r].device] EXCEPT !.state = "revoked"]
  <2>0. device[req[r].device] \in DeviceRow
    OBVIOUS
  <2>1. new \in DeviceRow
    BY <2>0 DEF DeviceRow
  <2>2. code' = code /\ (device' = device \/ device' = [device EXCEPT ![req[r].device] = new])
    BY <1>4 DEF RevokeDevice, Refuse, database
  <2> HIDE DEF new
  <2> QED
    BY <2>1, <2>2
<1>5. CASE DeleteSpaceCommit(r)
  <2> DEFINE gone(d) == [device[d] EXCEPT !.state = "deleted"]
             dead(c) == [code[c] EXCEPT !.state = "deleted"]
  <2>1. ASSUME NEW d \in Device PROVE gone(d) \in DeviceRow /\ device[d] \in DeviceRow
    <3>1. device[d] \in DeviceRow
      OBVIOUS
    <3> QED
      BY <3>1 DEF DeviceRow
  <2>2. ASSUME NEW c \in Code PROVE dead(c) \in CodeRow /\ code[c] \in CodeRow
    <3>1. code[c] \in CodeRow
      OBVIOUS
    <3> QED
      BY <3>1 DEF CodeRow
  <2>3. /\ device' = [d \in Device |-> IF d \in DevicesOf(req[r].space) THEN gone(d) ELSE device[d]]
        /\ code' = [c \in Code |-> IF code[c].space = req[r].space /\ code[c].state # "none"
                                   THEN dead(c) ELSE code[c]]
    BY <1>5 DEF DeleteSpaceCommit
  <2> HIDE DEF gone, dead
  <2> QED
    BY <2>1, <2>2, <2>3
<1> QED
  BY <1>1, <1>2, <1>3, <1>4, <1>5 DEF DeviceAct


-------------------------------------------------------------------------------
(* People. *)

\* No step takes a user, or its home, away.
Kept == /\ users \subseteq users'
        /\ \A u \in User : (HasHome(u) => HasHome(u)') /\ (LivesHome(u) => LivesHome(u)')

\* A role written in a space that exists, over one that is not an owner's.
Gives(s, u, x) ==
  /\ x \in (Roles \cup {"none"}) \ {"owner"} /\ role[s][u] # "owner" /\ Exists(s)
  /\ x # "none" => u \in users'
  /\ \A v \in User : s = Home[v] => role[Home[v]][v] = "owner"
  /\ users \subseteq users' /\ owner' = owner
  /\ role' = [role EXCEPT ![s][u] = x]

LEMMA GivesSound ==
  ASSUME TypeOK, PeopleInv, NEW s \in Space, NEW u \in User, NEW x, Gives(s, u, x)
  PROVE  PeopleInv' /\ Kept
<1>1. \A t \in Space, v \in User : role'[t][v] = IF t = s /\ v = u THEN x ELSE role[t][v]
  BY DEF Gives, TypeOK
<1>2. owner' = owner /\ users \subseteq users'
  BY DEF Gives
<1> QED
  BY <1>1, <1>2, Homes
  DEF Gives, TypeOK, PeopleInv, OwnersStay, HomesSound, Kept, HasHome, LivesHome, Team, Exists

LEMMA PeopleStep ==
  ASSUME TypeOK, PeopleInv, NEW r \in Request, Ready(r), PeopleAct(r)
  PROVE  PeopleInv' /\ Kept
<1> USE Carries, Homes DEF TypeOK, PeopleInv, OwnersStay, HomesSound, Ready, Kept, HasHome,
        LivesHome, At, Team, Exists, UserRow
<1>1. CASE CreateSpace(r)
  BY <1>1 DEF CreateSpace
<1>2. CASE AddMember(r)
  <2>1. UNCHANGED people \/ Gives(req[r].space, req[r].user, req[r].role)
    BY <1>2, Permits DEF AddMember, Inserts, Gives, Refuse, database, people
  <2> QED
    BY <2>1, GivesSound DEF people, Roles
<1>3. CASE AddGithubMember(r)
  <2>1. UNCHANGED people \/ Gives(req[r].space, req[r].user, req[r].role)
    BY <1>3, Permits DEF AddGithubMember, Inserts, Gives, Refuse, database, people
  <2> QED
    BY <2>1, GivesSound DEF people, Roles
<1>4. CASE ChangeMember(r)
  <2>1. UNCHANGED people \/ Gives(req[r].space, req[r].user, req[r].role)
    BY <1>4, Permits DEF ChangeMember, SetMember, Gives, Refuse, database, people
  <2> QED
    BY <2>1, GivesSound DEF people, Roles
<1>5. CASE RemoveMember(r)
  <2>1. UNCHANGED people \/ Gives(req[r].space, req[r].user, "none")
    BY <1>5, Permits DEF RemoveMember, SetMember, Gives, Refuse, database, people
  <2> QED
    BY <2>1, GivesSound DEF people, Roles
<1>6. CASE DeleteSpaceCommit(r)
  BY <1>6 DEF DeleteSpaceCommit
<1>7. CASE GithubUser(r)
  BY <1>7 DEF GithubUser
<1>8. CASE EnsureSpace(r)
  BY <1>8 DEF EnsureSpace
<1>9. CASE EnsureMember(r)
  BY <1>9 DEF EnsureMember
<1> QED
  BY <1>1, <1>2, <1>3, <1>4, <1>5, <1>6, <1>7, <1>8, <1>9 DEF PeopleAct

-------------------------------------------------------------------------------
(* Logins. *)

\* Logins that end leave the others as they are.
LEMMA LoginsEnd ==
  ASSUME LoginsInv, UNCHANGED people,
         \A t \in Token : token'[t] = token[t]
           \/ (token'[t].user = token[t].user /\ token[t].state = "live"
                 /\ token'[t].state = "expired"),
         \A s \in Session : session'[s] = session[s] \/ session'[s].state # "live",
         \A s \in Session : session[s].source \in Token \cup {NoToken}
  PROVE  LoginsInv'
<1>1. LoginsSound'
  BY DEF LoginsInv, LoginsSound, people
<1>2. SessionsDieWithToken'
  BY DEF LoginsInv, SessionsDieWithToken
<1>3. LoginHasHome'
  BY DEF LoginsInv, LoginHasHome, people
<1> QED
  BY <1>1, <1>2, <1>3 DEF LoginsInv

LEMMA LoginsStep ==
  ASSUME TypeOK, LoginsInv, NEW r \in Request, Ready(r), LoginAct(r)
  PROVE  LoginsInv'
<1> USE Carries, Homes DEF TypeOK, LoginsInv, LoginsSound, SessionsDieWithToken, LoginHasHome,
        TokenRow, SessionRow
<1>1. CASE Logout(r)
  <2>1. /\ UNCHANGED <<people, token>>
        /\ session' = [session EXCEPT ![req[r].session].state = "revoked"]
    BY <1>1 DEF Logout, people
  <2>2. \A s \in Session : session'[s] = session[s] \/ session'[s].state = "revoked"
    BY <2>1
  <2>3. \A s \in Session : session[s].source \in Token \cup {NoToken}
    OBVIOUS
  <2> HIDE DEF TypeOK, LoginsInv
  <2> QED
    BY <2>1, <2>2, <2>3, LoginsEnd
<1>2. CASE CreateToken(r)
  BY <1>2 DEF CreateToken, NewToken, Ready, At
<1>3. CASE FirstToken(r)
  BY <1>3 DEF FirstToken, NewToken, Ready, At
<1>4. CASE RevokeToken(r) /\ ~UNCHANGED logins
  <2>1. /\ token[req[r].token].state \in {"live", "expired"}
        /\ UNCHANGED people
        /\ token' = [token EXCEPT ![req[r].token].state = "revoked"]
        /\ session' = [s \in Session |-> IF session[s].source = req[r].token
                                         THEN [session[s] EXCEPT !.state = "revoked"]
                                         ELSE session[s]]
    BY <1>4 DEF RevokeToken, Refuse, database, logins, people
  <2> QED
    BY <2>1 DEF people
<1>5. CASE NewSession(r) /\ ~UNCHANGED logins
  <2> DEFINE source == IF req[r].op = "githubLogin" THEN NoToken ELSE req[r].token
  <2>1. /\ req[r].op = "githubLogin" \/ token[req[r].token].state = "live"
        /\ UNCHANGED <<people, token>> /\ pc[r] = "session"
        /\ session' = [session EXCEPT ![req[r].session] =
                         [user |-> who[r], state |-> "live", source |-> source]]
    BY <1>5 DEF NewSession, Refuse, database, logins, people
  <2>2. \A s \in Session : session'[s] = IF s = req[r].session
          THEN [user |-> who[r], state |-> "live", source |-> source] ELSE session[s]
    BY <2>1
  <2>3. source # NoToken => source = req[r].token /\ token[source].state = "live"
    BY <2>1
  <2> HIDE DEF source
  <2> QED
    BY <2>1, <2>2, <2>3 DEF people, Ready, HasHome, LivesHome
<1>6. CASE UNCHANGED logins
  BY <1>6 DEF LoginAct, Logout, CreateToken, FirstToken, NewToken, RevokeToken, NewSession,
              Refuse, database, logins
<1> QED
  BY <1>1, <1>2, <1>3, <1>4, <1>5, <1>6 DEF LoginAct

\* Logins stay sound while people change.
LEMMA LoginsKept ==
  ASSUME TypeOK, LoginsInv, UNCHANGED logins, Kept
  PROVE  LoginsInv'
BY DEF TypeOK, LoginsInv, LoginsSound, SessionsDieWithToken, LoginHasHome, Kept, HasHome, LivesHome,
       logins

-------------------------------------------------------------------------------
(* Devices and codes. *)

LEMMA DevicesStep ==
  ASSUME TypeOK, DevicesInv, NEW r \in Request, Handles(r), UNCHANGED req
  PROVE  DevicesInv'
<1> USE Carries DEF TypeOK, DevicesInv, CodesSound, OneDevicePerCode, Redeeming, At, Go
<1>1. CASE UNCHANGED devices /\ ~RedeemLock(r)
  BY <1>1, Frames, MovesOwn DEF devices, Moves
<1>2. CASE RedeemLock(r)
  <2>1. UNCHANGED devices /\ \E new \in {"locked", "refused"} : pc' = [pc EXCEPT ![r] = new]
    BY <1>2 DEF RedeemLock, database, devices
  <2>2. pc'[r] = "locked" => code[req[r].code].state = "open"
    BY <1>2 DEF RedeemLock
  <2>3. \A q \in Request : ~(Redeeming(q) /\ req[q].code = req[r].code)
    BY <1>2 DEF RedeemLock, CodeLocked
  <2> QED
    BY <2>1, <2>2, <2>3 DEF devices
<1>3. CASE CreateDevice(r) /\ ~UNCHANGED devices
  <2>1. /\ device' = [device EXCEPT ![req[r].device] =
                        [space |-> req[r].space, from |-> NoCode, state |-> "live"]]
        /\ code' = code /\ pc' = [pc EXCEPT ![r] = "ok"]
    BY <1>3 DEF CreateDevice, Refuse, database, devices
  <2>2. \A d \in Device : device'[d].from = device[d].from \/ device'[d].from = NoCode
    BY <2>1
  <2> QED
    BY <2>1, <2>2
<1>4. CASE CreatePairing(r) /\ ~UNCHANGED devices
  <2>1. /\ code' = [code EXCEPT ![req[r].code] =
                      [space |-> req[r].space, by |-> who[r], state |-> "open"]]
        /\ code[req[r].code].state = "none"
        /\ device' = device /\ pc' = [pc EXCEPT ![r] = "ok"]
    BY <1>4 DEF CreatePairing, Refuse, database, devices
  <2>2. \A c \in Code : code'[c] = code[c] \/ (code[c].state = "none" /\ code'[c].state = "open")
    BY <2>1
  <2> QED
    BY <2>1, <2>2 DEF DeviceRow
<1>5. CASE RedeemCommit(r)
  BY <1>5 DEF RedeemCommit, DeviceRow, CodeRow
<1>6. CASE RevokeDevice(r) /\ ~UNCHANGED devices
  <2>1. /\ device' = [device EXCEPT ![req[r].device].state = "revoked"]
        /\ code' = code /\ pc' = [pc EXCEPT ![r] = "committed"]
    BY <1>6 DEF RevokeDevice, Refuse, database, devices
  <2>2. \A d \in Device : device'[d].from = device[d].from
    BY <2>1 DEF DeviceRow
  <2> QED
    BY <2>1, <2>2
<1>7. CASE DeleteSpaceCommit(r)
  BY <1>7 DEF DeleteSpaceCommit, DevicesOf, CodeLocked, DeviceRow, CodeRow
<1> QED
  BY <1>1, <1>2, <1>3, <1>4, <1>5, <1>6, <1>7, Frames DEF DeviceAct

-------------------------------------------------------------------------------
(* Cuts. *)

\* A step that takes no device away does not answer what it owes.
Settled(r) == /\ owed' = owed /\ Gone' = Gone
              /\ owed[r] # {} => pc'[r] \in {"committed", "cutting", "failed"}

LEMMA Settles ==
  ASSUME TypeOK, NEW r \in Request, Owing(r), Handles(r)
  PROVE  Settled(r) \/ (RevokeDevice(r) /\ ~UNCHANGED devices) \/ DeleteSpaceCommit(r)
<1> USE Carries DEF Settled, Owing, At, Go, TypeOK, Gone
<1>1. CASE Authenticate(r)
  BY <1>1 DEF Authenticate, database
<1>2. CASE Authorize(r)
  BY <1>2 DEF Authorize, database
<1>3. CASE Logout(r)
  BY <1>3 DEF Logout
<1>4. CASE CreateToken(r)
  BY <1>4 DEF CreateToken, NewToken
<1>5. CASE RevokeToken(r)
  BY <1>5 DEF RevokeToken, Refuse, database
<1>6. CASE CreateSpace(r)
  BY <1>6 DEF CreateSpace
<1>7. CASE AddMember(r)
  BY <1>7 DEF AddMember, Inserts, Refuse, database
<1>8. CASE FirstToken(r)
  BY <1>8 DEF FirstToken, NewToken
<1>9. CASE AddGithubMember(r)
  BY <1>9 DEF AddGithubMember, Inserts, Refuse, database
<1>10. CASE ChangeMember(r)
  BY <1>10 DEF ChangeMember, SetMember, Refuse, database
<1>11. CASE RemoveMember(r)
  BY <1>11 DEF RemoveMember, SetMember, Refuse, database
<1>12. CASE CreateDevice(r)
  <2>1. CASE UNCHANGED device
    BY <1>12, <2>1 DEF CreateDevice, Inserts, Refuse, database
  <2>2. CASE ~UNCHANGED device
    <3>1. /\ device[req[r].device].state = "none"
          /\ device' = [device EXCEPT ![req[r].device] =
                          [space |-> req[r].space, from |-> NoCode, state |-> "live"]]
          /\ owed' = owed /\ pc[r] = "allowed"
      BY <1>12, <2>2 DEF CreateDevice, Inserts, Refuse, database
    <3> QED
      BY <3>1
  <2> QED
    BY <2>1, <2>2
<1>13. CASE CreatePairing(r)
  BY <1>13 DEF CreatePairing, Inserts, Refuse, database
<1>14. CASE RedeemLock(r)
  BY <1>14 DEF RedeemLock, database
<1>15. CASE RedeemCommit(r)
  BY <1>15 DEF RedeemCommit, DeviceRow
<1>16. CASE RedeemIssue(r)
  BY <1>16 DEF RedeemIssue, database
<1>17. CASE DeleteSpaceLock(r)
  BY <1>17 DEF DeleteSpaceLock, Inserts, database
<1>18. CASE Acknowledged(r)
  BY <1>18 DEF Acknowledged, database
<1>19. CASE CutDone(r)
  BY <1>19 DEF CutDone, database
<1>20. CASE TokenUser(r)
  BY <1>20 DEF TokenUser, Refuse, database
<1>21. CASE GithubUser(r)
  BY <1>21 DEF GithubUser
<1>22. CASE EnsureSpace(r)
  BY <1>22 DEF EnsureSpace
<1>23. CASE EnsureMember(r)
  BY <1>23 DEF EnsureMember
<1>24. CASE NewSession(r)
  BY <1>24 DEF NewSession, Refuse, database
<1>25. CASE Fails(r)
  BY <1>25 DEF Fails, InProgress, Over, database
<1>26. CASE DeadlockVictim(r)
  BY <1>26 DEF DeadlockVictim, Deadlocked, database
<1>27. CASE RevokeDevice(r) /\ UNCHANGED devices
  <2>1. owed' = owed /\ pc[r] = "allowed" /\ device' = device
    BY <1>27 DEF RevokeDevice, Refuse, database, devices, DeviceRow
  <2> QED
    BY <2>1
<1> QED
  BY <1>1, <1>2, <1>3, <1>4, <1>5, <1>6, <1>7, <1>8, <1>9, <1>10, <1>11, <1>12, <1>13,
     <1>14, <1>15, <1>16, <1>17, <1>18, <1>19, <1>20, <1>21, <1>22, <1>23, <1>24,
     <1>25, <1>26, <1>27
  DEF Handles, Advance

LEMMA CutStep ==
  ASSUME TypeOK, CutInv, NEW r \in Request, Handles(r), UNCHANGED cut
  PROVE  CutInv'
<1> USE Carries DEF TypeOK, CutInv, OwedSound, Owing, RevokedIsCut, At, Go
<1>1. CASE Settled(r)
  <2>1. \A q \in Request \ {r} : pc'[q] = pc[q]
    BY MovesOwn DEF Moves
  <2>2. owed' = owed /\ Gone' = Gone /\ cut' = cut
    BY <1>1 DEF Settled
  <2>3. owed[r] # {} => pc'[r] \in {"committed", "cutting", "failed"}
    BY <1>1 DEF Settled
  <2>4. OwedSound'
    BY <2>1, <2>2, <2>3
  <2>5. ASSUME NEW d \in Gone, d \notin cut
        PROVE  \E q \in Request : d \in owed[q] /\ pc'[q] # "ok"
    <3>1. PICK q \in Request : d \in owed[q] /\ pc[q] # "ok"
      BY <2>5
    <3> QED
      BY <2>1, <2>3, <3>1
  <2> QED
    BY <2>2, <2>4, <2>5
<1>2. CASE RevokeDevice(r) /\ ~UNCHANGED devices
  <2>1. /\ device' = [device EXCEPT ![req[r].device].state = "revoked"]
        /\ owed' = [owed EXCEPT ![r] = {req[r].device}] /\ pc' = [pc EXCEPT ![r] = "committed"]
        /\ pc[r] = "allowed"
    BY <1>2 DEF RevokeDevice, Refuse, database, devices
  <2>2. Gone' = Gone \cup {req[r].device}
    BY <2>1 DEF Gone, DeviceRow
  <2>3. owed[r] = {}
    BY <2>1
  <2> QED
    BY <2>1, <2>2, <2>3
<1>3. CASE DeleteSpaceCommit(r)
  BY <1>3 DEF DeleteSpaceCommit, DevicesOf, Gone
<1> QED
  BY <1>1, <1>2, <1>3, Settles

-------------------------------------------------------------------------------
(* What handlers rely on. *)

LEMMA OwnReady ==
  ASSUME TypeOK, PeopleInv, LoginsSound, LoginHasHome, NEW r \in Request, Ready(r), Handles(r),
         Kept, UNCHANGED req
  PROVE  Ready(r)'
<1> USE Carries, Homes, Permits DEF Ready, Kept, At, Go, TypeOK, HasHome, LivesHome
<1>1. CASE Authenticate(r)
  BY <1>1 DEF Authenticate, LoginsSound, database
<1>2. CASE Authorize(r)
  BY <1>2 DEF Authorize, PeopleInv, OwnersStay, HomesSound, Team, database
<1>3. CASE Logout(r)
  BY <1>3 DEF Logout
<1>4. CASE CreateToken(r)
  BY <1>4 DEF CreateToken, NewToken
<1>5. CASE RevokeToken(r)
  BY <1>5 DEF RevokeToken, Refuse, database
<1>6. CASE CreateSpace(r)
  BY <1>6 DEF CreateSpace
<1>7. CASE AddMember(r)
  BY <1>7 DEF AddMember, Inserts, Refuse, database
<1>8. CASE FirstToken(r)
  BY <1>8 DEF FirstToken, NewToken
<1>9. CASE AddGithubMember(r)
  BY <1>9 DEF AddGithubMember, Inserts, Refuse, database
<1>10. CASE ChangeMember(r)
  BY <1>10 DEF ChangeMember, SetMember, Refuse, database
<1>11. CASE RemoveMember(r)
  BY <1>11 DEF RemoveMember, SetMember, Refuse, database
<1>12. CASE CreateDevice(r)
  BY <1>12 DEF CreateDevice, Inserts, Refuse, database
<1>13. CASE CreatePairing(r)
  BY <1>13 DEF CreatePairing, Inserts, Refuse, database
<1>14. CASE RedeemLock(r)
  BY <1>14 DEF RedeemLock, database
<1>15. CASE RedeemCommit(r)
  BY <1>15 DEF RedeemCommit
<1>16. CASE RedeemIssue(r)
  BY <1>16 DEF RedeemIssue, database
<1>17. CASE RevokeDevice(r)
  BY <1>17 DEF RevokeDevice, Refuse, database
<1>18. CASE DeleteSpaceLock(r)
  BY <1>18 DEF DeleteSpaceLock, Inserts, Team, database
<1>19. CASE DeleteSpaceCommit(r)
  BY <1>19 DEF DeleteSpaceCommit
<1>20. CASE Acknowledged(r)
  BY <1>20 DEF Acknowledged, database
<1>21. CASE CutDone(r)
  BY <1>21 DEF CutDone, database
<1>22. CASE TokenUser(r)
  BY <1>22 DEF TokenUser, LoginsSound, Refuse, database
<1>23. CASE GithubUser(r)
  BY <1>23 DEF GithubUser
<1>24. CASE EnsureSpace(r)
  BY <1>24 DEF EnsureSpace
<1>25. CASE EnsureMember(r)
  <2> DEFINE u == who[r]
  <2>1. /\ pc' = [pc EXCEPT ![r] = "session"] /\ who' = who /\ owner' = owner /\ users' = users
        /\ role' = [role EXCEPT ![Home[u]][u] = IF @ = "none" THEN "owner" ELSE @]
        /\ u \in User /\ HasHome(u) /\ u \in users
    BY <1>25 DEF EnsureMember
  <2>2. role[Home[u]][u] \in {"none", "owner"}
    BY <2>1 DEF PeopleInv, HomesSound
  <2>3. role'[Home[u]][u] = "owner"
    BY <2>1, <2>2
  <2> QED
    BY <2>1, <2>3
<1>26. CASE NewSession(r)
  BY <1>26 DEF NewSession, Refuse, database
<1>27. CASE Fails(r)
  BY <1>27 DEF Fails, database
<1>28. CASE DeadlockVictim(r)
  BY <1>28 DEF DeadlockVictim, database
<1> QED
  BY <1>1, <1>2, <1>3, <1>4, <1>5, <1>6, <1>7, <1>8, <1>9, <1>10, <1>11, <1>12, <1>13,
     <1>14, <1>15, <1>16, <1>17, <1>18, <1>19, <1>20, <1>21, <1>22, <1>23, <1>24,
     <1>25, <1>26, <1>27, <1>28
  DEF Handles, Advance

\* The handlers of other requests rely on what no step takes away.
LEMMA OthersReady ==
  ASSUME TypeOK, NEW q \in Request, Ready(q), Kept, UNCHANGED req,
         pc'[q] \in {pc[q], "lost"}, who'[q] = who[q]
  PROVE  Ready(q)'
BY Homes DEF Ready, Kept, At, TypeOK, HasHome, LivesHome, Team, UserRow

-------------------------------------------------------------------------------
(* The invariant. *)

LEMMA HandlerStep ==
  ASSUME IInv, NEW r \in Request, Handles(r), UNCHANGED <<req, cut, restarts>>
  PROVE  IInv'
<1>1. TypeOK /\ PeopleInv /\ LoginsInv /\ DevicesInv /\ CutInv /\ Ready(r)
  BY DEF IInv
<1>2. TypeOK'
  <2>1. /\ users' \subseteq User /\ owner' \in [Space -> UserRow]
        /\ role' \in [Space -> [User -> Roles \cup {"none"}]]
    BY <1>1, Frames, PeopleType DEF people, TypeOK
  <2>2. token' \in [Token -> TokenRow] /\ session' \in [Session -> SessionRow]
    BY <1>1, Frames, LoginsType DEF logins, TypeOK
  <2>3. device' \in [Device -> DeviceRow] /\ code' \in [Code -> CodeRow]
    BY <1>1, Frames, DevicesType DEF devices, TypeOK
  <2>4. /\ pc' \in [Request -> Step] /\ who' \in [Request -> UserRow]
        /\ owed' \in [Request -> SUBSET Device]
    BY <1>1, MovesOwn DEF Moves, Go, TypeOK
  <2> QED
    BY <1>1, <2>1, <2>2, <2>3, <2>4 DEF TypeOK
<1>3. PeopleInv' /\ Kept
  <2>1. CASE UNCHANGED people
    BY <1>1, <2>1 DEF people, PeopleInv, OwnersStay, HomesSound, Kept, HasHome, LivesHome, Exists
  <2> QED
    BY <1>1, <2>1, Frames, PeopleStep
<1>4. LoginsInv'
  BY <1>1, <1>3, Frames, LoginsStep, LoginsKept
<1>5. DevicesInv' /\ CutInv'
  BY <1>1, DevicesStep, CutStep
<1>6. ASSUME NEW q \in Request PROVE Ready(q)'
  <2>1. CASE q = r
    BY <1>1, <1>3, <2>1, OwnReady DEF LoginsInv
  <2>2. CASE q # r
    <3>1. pc'[q] = pc[q] /\ who'[q] = who[q] /\ Ready(q)
      BY <1>1, <2>2, MovesOwn DEF Moves, Go, TypeOK, IInv
    <3> QED
      BY <1>1, <1>3, <3>1, OthersReady
  <2> QED
    BY <2>1, <2>2
<1> QED
  BY <1>2, <1>3, <1>4, <1>5, <1>6 DEF IInv

\* OnDeviceRevoked is called for a device, and the handler owes it no more.
LEMMA CutOffStep ==
  ASSUME IInv, NEW r \in Request, Cut(r), UNCHANGED <<req, restarts>>
  PROVE  IInv'
<1>1. TypeOK' /\ CutInv'
  BY DEF Cut, IInv, TypeOK, CutInv, OwedSound, Owing, RevokedIsCut, Gone, database
<1>2. UNCHANGED <<database, pc, who, req>>
  BY DEF Cut
<1>3. PeopleInv' /\ LoginsInv' /\ DevicesInv'
  BY <1>2 DEF IInv, PeopleInv, LoginsInv, DevicesInv, OwnersStay, HomesSound, LoginsSound,
       SessionsDieWithToken, LoginHasHome, CodesSound, OneDevicePerCode, Redeeming, At,
       Exists, database
<1>4. ASSUME NEW q \in Request PROVE Ready(q)'
  BY <1>2, <1>4 DEF IInv, Ready, HasHome, LivesHome, At, database
<1> QED
  BY <1>1, <1>3, <1>4 DEF IInv

\* Tokens, sessions and codes run out.
LEMMA TimeStep ==
  ASSUME IInv, Time, UNCHANGED <<req, cut, restarts>>
  PROVE  IInv'
<1>1. UNCHANGED <<people, device, handlers>>
  BY DEF Time, TokenExpires, SessionLapses, CodeExpires, people
<1>2. /\ token' \in [Token -> TokenRow]
      /\ \A t \in Token : token'[t] = token[t]
           \/ (token'[t].user = token[t].user /\ token[t].state = "live"
                 /\ token'[t].state = "expired")
  <2>1. CASE token' = token
    BY <2>1 DEF IInv, TypeOK
  <2>2. ASSUME NEW t0 \in Token, token[t0].state = "live",
               token' = [token EXCEPT ![t0].state = "expired"]
        PROVE  /\ token' \in [Token -> TokenRow]
               /\ \A t \in Token : token'[t] = token[t]
                    \/ (token'[t].user = token[t].user /\ token[t].state = "live"
                          /\ token'[t].state = "expired")
    BY <2>2 DEF IInv, TypeOK, TokenRow
  <2> QED
    BY <2>1, <2>2 DEF Time, TokenExpires, SessionLapses, CodeExpires
<1>3. /\ session' \in [Session -> SessionRow]
      /\ \A s \in Session : session'[s] = session[s] \/ session'[s].state # "live"
  <2>1. CASE session' = session
    BY <2>1 DEF IInv, TypeOK
  <2>2. ASSUME NEW s0 \in Session, session' = [session EXCEPT ![s0].state = "lapsed"]
        PROVE  /\ session' \in [Session -> SessionRow]
               /\ \A s \in Session : session'[s] = session[s] \/ session'[s].state # "live"
    BY <2>2 DEF IInv, TypeOK, SessionRow
  <2> QED
    BY <2>1, <2>2 DEF Time, TokenExpires, SessionLapses, CodeExpires
<1>4. /\ code' \in [Code -> CodeRow]
      /\ \A c \in Code : code'[c].state = code[c].state
           \/ (code[c].state = "open" /\ code'[c].state = "expired")
  <2>1. CASE code' = code
    BY <2>1 DEF IInv, TypeOK
  <2>2. ASSUME NEW c0 \in Code, code[c0].state = "open",
               code' = [code EXCEPT ![c0].state = "expired"]
        PROVE  /\ code' \in [Code -> CodeRow]
               /\ \A c \in Code : code'[c].state = code[c].state
                    \/ (code[c].state = "open" /\ code'[c].state = "expired")
    BY <2>2 DEF IInv, TypeOK, CodeRow
  <2> QED
    BY <2>1, <2>2 DEF Time, TokenExpires, SessionLapses, CodeExpires
<1>9. TypeOK'
  BY <1>1, <1>2, <1>3, <1>4 DEF IInv, TypeOK, people, handlers
<1>5. PeopleInv' /\ CutInv'
  BY <1>1 DEF IInv, people, handlers, PeopleInv, OwnersStay, HomesSound, CutInv, OwedSound, Owing,
       RevokedIsCut, Gone, Exists
<1>6. LoginsInv'
  <2>1. \A s \in Session : session[s].source \in Token \cup {NoToken}
    BY DEF IInv, TypeOK, SessionRow
  <2> QED
    BY <1>1, <1>2, <1>3, <2>1, LoginsEnd DEF IInv
<1>7. DevicesInv'
  <2>1. /\ \A d \in Device : device[d].from \in Code \cup {NoCode}
        /\ \A r \in Request : req[r].code \in Code
    BY DEF IInv, TypeOK, DeviceRow, RequestType
  <2>2. DevicesInv
    BY DEF IInv
  <2> QED
    BY <1>1, <1>4, <2>1, <2>2 DEF handlers, DevicesInv, CodesSound, OneDevicePerCode, Redeeming, At
<1>8. ASSUME NEW q \in Request PROVE Ready(q)'
  BY <1>1 DEF IInv, people, handlers, Ready, HasHome, LivesHome, At
<1> QED
  BY <1>5, <1>6, <1>7, <1>8, <1>9 DEF IInv

\* The Hub stops: handlers are lost, and every device is disconnected.
LEMMA RestartStep ==
  ASSUME IInv, Restart
  PROVE  IInv'
<1>1. UNCHANGED <<database, req, who>> /\ cut' = Gone
  BY DEF Restart
<1>2. TypeOK'
  <2>1. pc' \in [Request -> Step] /\ owed' \in [Request -> SUBSET Device]
    BY DEF IInv, TypeOK, Restart, Step
  <2>2. restarts' \in 0..MaxRestarts
    BY ConstantsAssumption DEF IInv, TypeOK, Restart
  <2> QED
    BY <1>1, <2>1, <2>2 DEF IInv, TypeOK, Gone, database
<1>3. CutInv'
  BY <1>1 DEF Restart, CutInv, OwedSound, Owing, RevokedIsCut, Gone, database
<1>4. PeopleInv' /\ LoginsInv' /\ Kept
  BY <1>1 DEF IInv, PeopleInv, LoginsInv, OwnersStay, HomesSound, LoginsSound,
       SessionsDieWithToken, LoginHasHome, Exists, database, Kept, HasHome, LivesHome
<1>5. \A q \in Request : pc'[q] \in {pc[q], "lost"}
  BY DEF Restart
<1>6. DevicesInv'
  BY <1>1, <1>5 DEF IInv, DevicesInv, CodesSound, OneDevicePerCode, Redeeming, At, database
<1>7. ASSUME NEW q \in Request PROVE Ready(q)'
  BY <1>1, <1>4, <1>5, OthersReady DEF IInv
<1> QED
  BY <1>2, <1>3, <1>4, <1>6, <1>7 DEF IInv

LEMMA InvStep == IInv /\ [Next]_accounts => IInv'
<1> SUFFICES ASSUME IInv, [Next]_accounts PROVE IInv'
  OBVIOUS
<1>1. CASE UNCHANGED accounts
  BY <1>1 DEF accounts, database, handlers, IInv, TypeOK, PeopleInv, LoginsInv, DevicesInv, CutInv,
       OwnersStay, HomesSound, LoginsSound, SessionsDieWithToken, LoginHasHome, CodesSound,
       OneDevicePerCode, OwedSound, Owing, RevokedIsCut, Ready, Gone, Exists, Redeeming, At,
       HasHome, LivesHome
<1>2. CASE Next
  BY <1>2, HandlerStep, CutOffStep, TimeStep, RestartStep DEF Next, Serve, Handles
<1> QED
  BY <1>1, <1>2

\* The databases a behaviour may start with are sound.
LEMMA InitSound == Init => IInv
<1> SUFFICES ASSUME Init PROVE IInv
  OBVIOUS
<1>1. PICK w \in World :
        /\ users = w.users /\ owner = w.owner /\ role = w.role /\ token = w.token
        /\ session = w.session /\ device = w.device /\ code = w.code /\ req = w.req
  BY DEF Init
<1>2. WellTyped(w) /\ Sound(w)
  BY ConstantsAssumption
<1>3. /\ pc = [r \in Request |-> IF req[r].op = "none" THEN "absent" ELSE "new"]
      /\ who = [r \in Request |-> NoUser] /\ owed = [r \in Request |-> {}]
      /\ cut = {} /\ restarts = 0
  BY DEF Init
<1>4. TypeOK
  BY <1>1, <1>2, <1>3, ConstantsAssumption DEF TypeOK, WellTyped, Step, UserRow
<1>5. PeopleInv
  BY <1>1, <1>2, <1>4, Homes DEF Sound, PeopleInv, OwnersStay, HomesSound, Exists, Team, TypeOK
<1>6. LoginsInv
  <2>1. \A t \in Token : token[t].state # "none" => token[t].user \in users
    BY <1>1, <1>2 DEF Sound
  <2>2. ASSUME NEW s \in Session, session[s].state = "live"
        PROVE  /\ session[s].user \in User /\ owner[Home[session[s].user]] = session[s].user
               /\ session[s].source # NoToken
                    => token[session[s].source].state \in {"live", "expired"}
    BY <1>1, <1>2, <2>2 DEF Sound
  <2>3. ASSUME NEW u \in User, owner[Home[u]] = u
        PROVE  role[Home[u]][u] = "owner" /\ u \in users
    BY <1>1, <1>2, <2>3, Homes DEF Sound
  <2> QED
    BY <2>1, <2>2, <2>3 DEF LoginsInv, LoginsSound, SessionsDieWithToken, LoginHasHome
<1>7. DevicesInv /\ CutInv
  BY <1>1, <1>2, <1>3, <1>4
  DEF Sound, DevicesInv, CodesSound, OneDevicePerCode, Redeeming, At, CutInv, OwedSound, Owing,
      RevokedIsCut, Gone
<1>8. ASSUME NEW r \in Request PROVE Ready(r)
  BY <1>3 DEF Ready, At
<1> QED
  BY <1>4, <1>5, <1>6, <1>7, <1>8 DEF IInv

LEMMA Invariance == Spec => []IInv
BY InitSound, InvStep, PTL DEF Spec

-------------------------------------------------------------------------------
(* Theorems about the tables. *)

\* The variables keep their types.
THEOREM TypeCorrect == Spec => []TypeOK
BY Invariance, PTL DEF IInv

\* Whatever requests run at once, fail or are cut short by a restart, a space that is not
\* personal keeps the owner who created it, and nobody else becomes an owner.
THEOREM SpacesKeepTheirOwner == Spec => []OwnersStay
BY Invariance, PTL DEF IInv, PeopleInv

\* A login that read a token before it was revoked leaves no session behind.
THEOREM RevokedTokensHaveNoSession == Spec => []SessionsDieWithToken
BY Invariance, PTL DEF IInv, LoginsInv

\* Every user with a session has its personal space, whichever of its logins failed halfway.
THEOREM UsersHaveAHome == Spec => []LoginHasHome
BY Invariance, PTL DEF IInv, LoginsInv

\* However many requests redeem a code at once, it makes one device.
THEOREM CodesMakeOneDevice == Spec => []OneDevicePerCode
BY Invariance, PTL DEF IInv, DevicesInv

\* A device revoked, or deleted with its space, is cut off, unless the request that did it is
\* not done or was answered with an error.
THEOREM NoDeviceIsMissed == Spec => []RevokedIsCut
BY Invariance, PTL DEF IInv, CutInv

-------------------------------------------------------------------------------
(* Who decides about a space. *)

\* The role a handler acts on was read in an earlier statement.  All the same a space that
\* exists changes hands, members or roles only by a request of the user who owns it at that
\* moment, and a new one starts with no member but the user who asked for it.
Decided ==
  \A s \in Space :
    owner'[s] # owner[s] \/ role'[s] # role[s] =>
      \E r \in Request :
        /\ pc'[r] # pc[r]
        /\ \/ Exists(s) /\ owner[s] = who[r]
           \/ /\ ~Exists(s) /\ owner'[s] = who[r]
              /\ \A u \in User \ {who[r]} : role'[s][u] = role[s][u]

OwnersDecide == [][Decided]_accounts

\* The operations only an owner is allowed, and the requests that make a space.
Decisions   == {"deleteSpace", "addMember", "addGithubMember", "changeMember", "removeMember"}
Makes(r, s) == req[r].op = "createSpace" /\ req[r].space = s

\* A space that is gone for good: no request will make it again.
Spent(s) == /\ s \in Team /\ ~Exists(s)
            /\ \A r \in Request : Makes(r, s) => pc[r] \in Over

\* A space is made by one request, and was not there before.
NewIds == \A q, r \in Request, s \in Space : Makes(q, s) /\ Makes(r, s) => q = r
Unmade == \A r \in Request, s \in Team : Makes(r, s) /\ pc[r] \notin Over => ~Exists(s)

\* A handler that was allowed to decide is the owner's, or its space is gone for good.
Decider(r) ==
  req[r].op \in Decisions /\ pc[r] \in {"allowed", "locked"} =>
    LET s == req[r].space IN (Exists(s) /\ owner[s] = who[r]) \/ Spent(s)

DecideInv == NewIds /\ Unmade /\ \A r \in Request : Decider(r)

\* A handler that is over stays so, and another one is allowed to decide only when it has read
\* that its user is the owner.
LEMMA Allows ==
  ASSUME TypeOK, NEW r \in Request, Handles(r)
  PROVE  /\ pc[r] \notin Over
         /\ req[r].op \in Decisions /\ pc'[r] \in {"allowed", "locked"} =>
              \/ pc[r] \in {"allowed", "locked"}
              \/ pc[r] = "authed" /\ role[req[r].space][who[r]] = "owner"
         /\ who'[r] = who[r] \/ pc[r] = "new"
<1>0. /\ \A op \in Decisions : op \in SpaceOps /\ op # "redeem"
      /\ \A x : \A op \in Decisions : Allowed(x, ActionOf[op]) => x = "owner"
  BY DEF Decisions, SpaceOps, ActionOf, Allowed
<1> USE Carries, <1>0 DEF Over, Go, At, TypeOK
<1>1. CASE Authenticate(r)
  BY <1>1 DEF Authenticate
<1>2. CASE Authorize(r)
  BY <1>2 DEF Authorize
<1>3. CASE Logout(r)
  BY <1>3 DEF Logout
<1>4. CASE CreateToken(r)
  BY <1>4 DEF CreateToken, NewToken
<1>5. CASE RevokeToken(r)
  BY <1>5 DEF RevokeToken, Refuse
<1>6. CASE CreateSpace(r)
  BY <1>6 DEF CreateSpace
<1>7. CASE AddMember(r)
  BY <1>7 DEF AddMember, Inserts, Refuse
<1>8. CASE FirstToken(r)
  BY <1>8 DEF FirstToken, NewToken
<1>9. CASE AddGithubMember(r)
  BY <1>9 DEF AddGithubMember, Inserts, Refuse
<1>10. CASE ChangeMember(r)
  BY <1>10 DEF ChangeMember, SetMember, Refuse
<1>11. CASE RemoveMember(r)
  BY <1>11 DEF RemoveMember, SetMember, Refuse
<1>12. CASE CreateDevice(r)
  BY <1>12 DEF CreateDevice, Inserts, Refuse
<1>13. CASE CreatePairing(r)
  BY <1>13 DEF CreatePairing, Inserts, Refuse
<1>14. CASE RedeemLock(r)
  <2>1. req[r].op = "redeem" /\ pc[r] = "new"
    BY <1>14 DEF RedeemLock
  <2> QED
    BY <2>1
<1>15. CASE RedeemCommit(r)
  BY <1>15 DEF RedeemCommit
<1>16. CASE RedeemIssue(r)
  BY <1>16 DEF RedeemIssue
<1>17. CASE RevokeDevice(r)
  BY <1>17 DEF RevokeDevice, Refuse
<1>18. CASE DeleteSpaceLock(r)
  BY <1>18 DEF DeleteSpaceLock, Inserts
<1>19. CASE DeleteSpaceCommit(r)
  BY <1>19 DEF DeleteSpaceCommit
<1>20. CASE Acknowledged(r)
  BY <1>20 DEF Acknowledged
<1>21. CASE CutDone(r)
  BY <1>21 DEF CutDone
<1>22. CASE TokenUser(r)
  BY <1>22 DEF TokenUser, Refuse
<1>23. CASE GithubUser(r)
  BY <1>23 DEF GithubUser
<1>24. CASE EnsureSpace(r)
  BY <1>24 DEF EnsureSpace
<1>25. CASE EnsureMember(r)
  BY <1>25 DEF EnsureMember
<1>26. CASE NewSession(r)
  BY <1>26 DEF NewSession, Refuse
<1>27. CASE Fails(r)
  BY <1>27 DEF Fails, InProgress
<1>28. CASE DeadlockVictim(r)
  BY <1>28 DEF DeadlockVictim, Deadlocked
<1> QED
  BY <1>1, <1>2, <1>3, <1>4, <1>5, <1>6, <1>7, <1>8, <1>9, <1>10, <1>11, <1>12, <1>13,
     <1>14, <1>15, <1>16, <1>17, <1>18, <1>19, <1>20, <1>21, <1>22, <1>23, <1>24,
     <1>25, <1>26, <1>27, <1>28
  DEF Handles, Advance

\* What a handler may do to the owner of a space.
LEMMA OwnerSteps ==
  ASSUME TypeOK, PeopleInv, NEW r \in Request, Ready(r), Handles(r), NEW s \in Space
  PROVE  \/ owner'[s] = owner[s]
         \/ Makes(r, s) /\ ~Exists(s) /\ s \in Team /\ pc[r] \notin Over /\ pc'[r] \in Over
         \/ s \notin Team /\ ~Exists(s) /\ owner'[s] = who[r]
         \/ s \in Team /\ owner'[s] = NoUser
<1> USE Carries, Homes DEF TypeOK, PeopleInv, HomesSound, Ready, At, Go, Team, Exists
<1>1. CASE UNCHANGED people
  BY <1>1 DEF people
<1>2. CASE CreateSpace(r)
  BY <1>2 DEF CreateSpace, Makes, Over
<1>3. CASE EnsureSpace(r)
  BY <1>3 DEF EnsureSpace
<1>4. CASE DeleteSpaceCommit(r)
  BY <1>4 DEF DeleteSpaceCommit
<1>5. CASE AddMember(r)
  BY <1>5 DEF AddMember, Refuse, database
<1>6. CASE AddGithubMember(r)
  BY <1>6 DEF AddGithubMember, Refuse, database
<1>7. CASE ChangeMember(r)
  BY <1>7 DEF ChangeMember, SetMember, Refuse, database
<1>8. CASE RemoveMember(r)
  BY <1>8 DEF RemoveMember, SetMember, Refuse, database
<1>9. CASE GithubUser(r)
  BY <1>9 DEF GithubUser
<1>10. CASE EnsureMember(r)
  BY <1>10 DEF EnsureMember
<1> QED
  BY <1>1, <1>2, <1>3, <1>4, <1>5, <1>6, <1>7, <1>8, <1>9, <1>10, Frames DEF PeopleAct

LEMMA DecideHandler ==
  ASSUME IInv, DecideInv, NEW r \in Request, Handles(r), UNCHANGED req
  PROVE  DecideInv'
<1>1. /\ TypeOK /\ PeopleInv /\ Ready(r) /\ NewIds /\ Unmade /\ NewIds'
      /\ \A q \in Request : Decider(q) /\ Ready(q)
  BY DEF IInv, DecideInv, NewIds, Makes
<1>2. /\ pc[r] \notin Over
      /\ \A q \in Request \ {r} : pc'[q] = pc[q] /\ who'[q] = who[q]
  BY <1>1, Allows, MovesOwn DEF Moves, Go, TypeOK
<1>3. Unmade'
  <2> SUFFICES ASSUME NEW q \in Request, NEW s \in Team, Makes(q, s), pc'[q] \notin Over
               PROVE  owner'[s] = NoUser
    BY DEF Unmade, Makes, Exists
  <2>1. s \in Space /\ pc[q] \notin Over
    BY <1>2 DEF Team
  <2>2. owner[s] = NoUser
    BY <1>1, <2>1 DEF Unmade, Exists
  <2>3. ~(Makes(r, s) /\ pc'[r] \in Over)
    BY <1>1, <2>1 DEF NewIds
  <2> QED
    BY <1>1, <2>1, <2>2, <2>3, OwnerSteps
<1>4. ASSUME NEW s \in Space, Spent(s) PROVE Spent(s)'
  <2>1. s \in Team /\ owner[s] = NoUser /\ ~(Makes(r, s) /\ pc[r] \notin Over)
    BY <1>4 DEF Spent, Exists
  <2>2. owner'[s] = NoUser
    BY <1>1, <2>1, OwnerSteps
  <2> QED
    BY <1>2, <1>4, <2>2 DEF Spent, Makes, Exists
<1>5. ASSUME NEW s \in Space, NEW u \in User, Exists(s), owner[s] = u
      PROVE  owner'[s] = u \/ Spent(s)'
  <2>1. CASE owner'[s] = owner[s]
    BY <1>5, <2>1
  <2>2. CASE s \in Team /\ owner'[s] = NoUser
    <3>1. \A q \in Request : Makes(q, s) => pc[q] \in Over
      BY <1>1, <1>5, <2>2 DEF Unmade
    <3> QED
      BY <1>2, <2>2, <3>1 DEF Spent, Makes, Exists
  <2> QED
    BY <1>1, <1>5, <2>1, <2>2, OwnerSteps
<1>6. ASSUME NEW q \in Request PROVE Decider(q)'
  <2> DEFINE s == req[q].space
  <2> SUFFICES ASSUME req[q].op \in Decisions, pc'[q] \in {"allowed", "locked"}
               PROVE  (owner'[s] # NoUser /\ owner'[s] = who'[q]) \/ Spent(s)'
    BY DEF Decider, Exists
  <2>1. s \in Space
    BY <1>1, Carries
  <2>2. Spent(s) \/ (Exists(s) /\ owner[s] = who[q] /\ who'[q] = who[q])
    <3>1. CASE q = r
      <4>1. CASE pc[r] \in {"allowed", "locked"}
        BY <1>1, <3>1, <4>1, Allows DEF Decider
      <4>2. CASE pc[r] = "authed" /\ role[s][who[r]] = "owner"
        <5>1. who[r] \in User /\ who'[r] = who[r]
          BY <1>1, <4>2, Allows DEF Ready, TypeOK
        <5> QED
          BY <1>1, <2>1, <3>1, <4>2, <5>1, Homes DEF PeopleInv, OwnersStay, Exists
      <4> QED
        BY <1>1, <3>1, <4>1, <4>2, Allows
    <3>2. CASE q # r
      BY <1>1, <1>2, <3>2 DEF Decider
    <3> QED
      BY <3>1, <3>2
  <2>3. CASE Spent(s)
    BY <1>4, <2>1, <2>3
  <2>4. CASE Exists(s) /\ owner[s] = who[q] /\ who'[q] = who[q]
    <3>1. owner[s] \in User
      BY <1>1, <2>1, <2>4 DEF TypeOK, UserRow, Exists
    <3> QED
      BY <1>5, <2>1, <2>4, <3>1, Homes
  <2> QED
    BY <2>2, <2>3, <2>4
<1> QED
  BY <1>1, <1>3, <1>6 DEF DecideInv

LEMMA DecideStep == IInv /\ DecideInv /\ [Next]_accounts => DecideInv'
<1> SUFFICES ASSUME IInv, DecideInv, [Next]_accounts PROVE DecideInv'
  OBVIOUS
<1>1. CASE \E r \in Request : Handles(r) /\ UNCHANGED req
  BY <1>1, DecideHandler
<1>2. CASE UNCHANGED <<owner, req, who>> /\ \A r \in Request : pc'[r] \in {pc[r], "lost"}
  <2>1. \A r \in Request : pc[r] \in Over => pc'[r] \in Over
    BY <1>2 DEF Over
  <2>2. \A r \in Request : pc'[r] \notin Over \/ pc'[r] \in {"allowed", "locked"} => pc'[r] = pc[r]
    BY <1>2 DEF Over
  <2>3. \A s \in Space : Spent(s) => Spent(s)'
    BY <1>2, <2>1 DEF Spent, Makes, Exists
  <2>4. NewIds' /\ Unmade'
    BY <1>2, <2>2 DEF DecideInv, NewIds, Unmade, Makes, Exists
  <2>5. ASSUME NEW r \in Request PROVE Decider(r)'
    <3>1. req[r].space \in Space
      BY Carries DEF IInv
    <3> QED
      BY <1>2, <2>2, <2>3, <3>1 DEF DecideInv, Decider, Exists
  <2> QED
    BY <2>4, <2>5 DEF DecideInv
<1>3. (\E r \in Request : Handles(r) /\ UNCHANGED req)
        \/ (UNCHANGED <<owner, req, who>> /\ \A r \in Request : pc'[r] \in {pc[r], "lost"})
  BY DEF Next, Serve, Handles, Cut, Time, TokenExpires, SessionLapses, CodeExpires, Restart,
         accounts, database, handlers
<1> QED
  BY <1>1, <1>2, <1>3

LEMMA DecideInit == Init => DecideInv
<1> SUFFICES ASSUME Init PROVE DecideInv
  OBVIOUS
<1>1. PICK w \in World : owner = w.owner /\ req = w.req
  BY DEF Init
<1>2. Sound(w)
  BY ConstantsAssumption
<1>3. \A r \in Request : pc[r] \in {"absent", "new"}
  BY DEF Init
<1>4. NewIds /\ Unmade
  BY <1>1, <1>2 DEF Sound, NewIds, Unmade, Makes, Exists
<1> QED
  BY <1>3, <1>4 DEF DecideInv, Decider

\* A handler decides for the owner of the space, or makes one.
LEMMA DecidesRightly ==
  ASSUME IInv, DecideInv, NEW r \in Request, Handles(r), NEW s \in Space,
         owner'[s] # owner[s] \/ role'[s] # role[s]
  PROVE  /\ pc'[r] # pc[r]
         /\ \/ Exists(s) /\ owner[s] = who[r]
            \/ /\ ~Exists(s) /\ owner'[s] = who[r]
               /\ \A u \in User \ {who[r]} : role'[s][u] = role[s][u]
<1>0. /\ TypeOK /\ PeopleInv /\ Ready(r) /\ Decider(r)
      /\ {"deleteSpace", "addMember", "addGithubMember", "changeMember", "removeMember"}
           = Decisions
  BY DEF IInv, DecideInv, Decisions
<1> USE Carries, Homes, <1>0 DEF TypeOK, At, Go, Exists
<1>1. CASE CreateSpace(r)
  BY <1>1 DEF CreateSpace
<1>2. CASE AddMember(r)
  BY <1>2 DEF AddMember, Inserts, Refuse, database, Decider, Spent
<1>3. CASE AddGithubMember(r)
  BY <1>3 DEF AddGithubMember, Inserts, Refuse, database, Decider, Spent
<1>4. CASE ChangeMember(r)
  BY <1>4 DEF ChangeMember, SetMember, Refuse, database, Decider, Spent, PeopleInv, OwnersStay
<1>5. CASE RemoveMember(r)
  BY <1>5 DEF RemoveMember, SetMember, Refuse, database, Decider, Spent, PeopleInv, OwnersStay
<1>6. CASE DeleteSpaceCommit(r)
  <2>1. s = req[r].space /\ pc'[r] # pc[r]
    BY <1>6 DEF DeleteSpaceCommit
  <2>2. Exists(s)
    <3> SUFFICES ASSUME owner[s] = NoUser PROVE FALSE
      OBVIOUS
    <3>1. \A u \in User : role[s][u] = "none"
      BY DEF PeopleInv, OwnersStay
    <3>2. role[s] = [u \in User |-> role[s][u]]
      OBVIOUS
    <3> QED
      BY <1>6, <2>1, <3>1, <3>2 DEF DeleteSpaceCommit
  <2> QED
    BY <1>6, <2>1, <2>2 DEF DeleteSpaceCommit, Decider, Spent
<1>7. CASE EnsureSpace(r)
  BY <1>7 DEF EnsureSpace, PeopleInv, HomesSound, Ready
<1>8. CASE EnsureMember(r)
  BY <1>8 DEF EnsureMember, Ready, HasHome
<1>9. ~GithubUser(r)
  BY DEF GithubUser
<1>10. ~UNCHANGED people
  BY DEF people
<1> QED
  BY <1>1, <1>2, <1>3, <1>4, <1>5, <1>6, <1>7, <1>8, <1>9, <1>10, Frames DEF PeopleAct

LEMMA DecidedStep == IInv /\ DecideInv /\ [Next]_accounts => Decided
<1> SUFFICES ASSUME IInv, DecideInv, [Next]_accounts,
                    NEW s \in Space, owner'[s] # owner[s] \/ role'[s] # role[s]
             PROVE  \E r \in Request :
                      /\ pc'[r] # pc[r]
                      /\ \/ Exists(s) /\ owner[s] = who[r]
                         \/ /\ ~Exists(s) /\ owner'[s] = who[r]
                            /\ \A u \in User \ {who[r]} : role'[s][u] = role[s][u]
  BY DEF Decided
<1>1. PICK r \in Request : Handles(r)
  BY DEF Next, Serve, Handles, Cut, Time, TokenExpires, SessionLapses, CodeExpires, Restart,
         accounts, database, handlers
<1> QED
  BY <1>1, DecidesRightly

\* Whatever requests run at once and whatever each of them read before, nobody but the owner of
\* a space at that moment gives, changes or takes away a membership of it, or deletes it.
THEOREM OnlyOwnersDecide == Spec => OwnersDecide
<1>1. IInv /\ DecideInv /\ [Next]_accounts => (IInv /\ DecideInv)'
  BY InvStep, DecideStep
<1>2. Init => IInv /\ DecideInv
  BY InitSound, DecideInit
<1>3. IInv /\ DecideInv /\ [Next]_accounts => [Decided]_accounts
  BY DecidedStep
<1> QED
  BY <1>1, <1>2, <1>3, PTL DEF Spec, OwnersDecide

-------------------------------------------------------------------------------
(* What a space that is deleted takes along. *)

\* A device that was not deleted, and a pairing code that may still become one, is of a space
\* that exists: the row locks of DeleteSpace and Redeem leave no gap for the device that a
\* request makes while another one deletes its space.
NothingOutlivesSpace ==
  /\ \A d \in Device : device[d].state \in {"live", "revoked"} => Exists(device[d].space)
  /\ \A c \in Code : code[c].state \notin {"none", "deleted"} => Exists(code[c].space)

\* Only DeleteSpaceCommit takes a space away.
LEMMA SpacesEnd ==
  ASSUME TypeOK, PeopleInv, NEW r \in Request, Ready(r), Handles(r), ~DeleteSpaceCommit(r)
  PROVE  \A s \in Space : Exists(s) => Exists(s)'
<1> USE Carries, Homes DEF TypeOK, Ready, Exists
<1>1. CASE UNCHANGED people
  BY <1>1 DEF people
<1>2. CASE CreateSpace(r)
  BY <1>2 DEF CreateSpace, At
<1>3. CASE AddMember(r)
  BY <1>3 DEF AddMember, Refuse, database
<1>4. CASE AddGithubMember(r)
  BY <1>4 DEF AddGithubMember, Refuse, database
<1>5. CASE ChangeMember(r)
  BY <1>5 DEF ChangeMember, SetMember, Refuse, database
<1>6. CASE RemoveMember(r)
  BY <1>6 DEF RemoveMember, SetMember, Refuse, database
<1>7. CASE GithubUser(r)
  BY <1>7 DEF GithubUser
<1>8. CASE EnsureSpace(r)
  BY <1>8 DEF EnsureSpace
<1>9. CASE EnsureMember(r)
  BY <1>9 DEF EnsureMember
<1> QED
  BY <1>1, <1>2, <1>3, <1>4, <1>5, <1>6, <1>7, <1>8, <1>9, Frames DEF PeopleAct

LEMMA PlacesHandler ==
  ASSUME IInv, NothingOutlivesSpace, NEW r \in Request, Handles(r)
  PROVE  NothingOutlivesSpace'
<1>1. /\ TypeOK /\ PeopleInv /\ Ready(r)
      /\ At(r, "redeem", "locked") => code[req[r].code].state \in {"open", "expired"}
  BY DEF IInv, DevicesInv, CodesSound, Redeeming
<1>2. CASE DeleteSpaceCommit(r)
  <2>1. \A s \in Space : s # req[r].space => owner'[s] = owner[s]
    BY <1>1, <1>2, Carries DEF DeleteSpaceCommit, TypeOK
  <2>2. ASSUME NEW d \in Device, device'[d].state \in {"live", "revoked"}
        PROVE  device'[d] = device[d] /\ device[d].space # req[r].space
    BY <1>1, <1>2, <2>2 DEF DeleteSpaceCommit, DevicesOf, TypeOK, DeviceRow
  <2>3. ASSUME NEW c \in Code, code'[c].state \notin {"none", "deleted"}
        PROVE  code'[c] = code[c] /\ code[c].space # req[r].space
    BY <1>1, <1>2, <2>3 DEF DeleteSpaceCommit, TypeOK, CodeRow
  <2>4. /\ \A d \in Device : device[d].space \in Space
        /\ \A c \in Code : code[c].space \in Space
    BY <1>1 DEF TypeOK, DeviceRow, CodeRow
  <2> QED
    BY <2>1, <2>2, <2>3, <2>4 DEF NothingOutlivesSpace, Exists
<1>3. CASE ~DeleteSpaceCommit(r)
  <2>1. \A s \in Space : Exists(s) => Exists(s)'
    BY <1>1, <1>3, SpacesEnd
  <2>2. ASSUME NEW d \in Device, device'[d].state \in {"live", "revoked"}
        PROVE  device'[d].space \in Space /\ Exists(device'[d].space)
    <3>0. /\ device[d].space \in Space
          /\ device[d].state \in {"live", "revoked"} => Exists(device[d].space)
          /\ req[r].space \in Space /\ req[r].code \in Code /\ req[r].device \in Device
          /\ code[req[r].code].space \in Space /\ device \in [Device -> DeviceRow]
      BY <1>1, Carries DEF TypeOK, DeviceRow, CodeRow, NothingOutlivesSpace
    <3>1. \/ device' = device
          \/ \E e \in Device, s \in Space, k \in Code \cup {NoCode} :
               /\ Exists(s)
               /\ device' = [device EXCEPT ![e] = [space |-> s, from |-> k, state |-> "live"]]
          \/ /\ device[req[r].device].state = "live"
             /\ device' = [device EXCEPT ![req[r].device].state = "revoked"]
      <4>1. CASE UNCHANGED devices
        BY <4>1 DEF devices
      <4>2. CASE CreateDevice(r)
        BY <4>2, <3>0 DEF CreateDevice, Refuse, database
      <4>3. CASE CreatePairing(r)
        BY <4>3 DEF CreatePairing, Refuse, database
      <4>4. CASE RedeemCommit(r)
        <5>1. Exists(code[req[r].code].space)
          BY <1>1, <3>0, <4>4 DEF RedeemCommit, NothingOutlivesSpace
        <5> QED
          BY <3>0, <4>4, <5>1 DEF RedeemCommit
      <4>5. CASE RevokeDevice(r)
        BY <4>5 DEF RevokeDevice, Refuse, database
      <4> QED
        BY <1>1, <1>3, <4>1, <4>2, <4>3, <4>4, <4>5, Frames DEF DeviceAct
    <3> QED
      BY <2>2, <3>0, <3>1 DEF DeviceRow
  <2>3. ASSUME NEW c \in Code, code'[c].state \notin {"none", "deleted"}
        PROVE  code'[c].space \in Space /\ Exists(code'[c].space)
    <3>0. /\ code[c].space \in Space
          /\ code[c].state \notin {"none", "deleted"} => Exists(code[c].space)
          /\ req[r].space \in Space /\ req[r].code \in Code /\ code \in [Code -> CodeRow]
          /\ who[r] \in UserRow
      BY <1>1, Carries DEF TypeOK, CodeRow, NothingOutlivesSpace
    <3>1. \/ code' = code
          \/ \E e \in Code, s \in Space, u \in UserRow :
               /\ Exists(s)
               /\ code' = [code EXCEPT ![e] = [space |-> s, by |-> u, state |-> "open"]]
          \/ /\ code[req[r].code].state \in {"open", "expired"}
             /\ code' = [code EXCEPT ![req[r].code].state = "used"]
      <4>1. CASE UNCHANGED devices
        BY <4>1 DEF devices
      <4>2. CASE CreateDevice(r)
        BY <4>2 DEF CreateDevice, Refuse, database
      <4>3. CASE CreatePairing(r)
        BY <4>3, <3>0 DEF CreatePairing, Refuse, database
      <4>4. CASE RedeemCommit(r)
        <5>1. code' = [code EXCEPT ![req[r].code].state = "used"] /\ At(r, "redeem", "locked")
          BY <4>4 DEF RedeemCommit
        <5> QED
          BY <1>1, <5>1
      <4>5. CASE RevokeDevice(r)
        BY <4>5 DEF RevokeDevice, Refuse, database
      <4> QED
        BY <1>1, <1>3, <4>1, <4>2, <4>3, <4>4, <4>5, Frames DEF DeviceAct
    <3> QED
      BY <2>3, <3>0, <3>1 DEF CodeRow
  <2> QED
    BY <2>1, <2>2, <2>3 DEF NothingOutlivesSpace, Exists
<1> QED
  BY <1>2, <1>3

\* However creations, pairings and revocations meet the deletion of their space, no device or
\* code of it is left (store.go: CreateDevice, RedeemDevicePairing, DeleteSpace).
THEOREM DeletedSpacesAreEmpty == Spec => []NothingOutlivesSpace
<1>1. Init => NothingOutlivesSpace
  <2> SUFFICES ASSUME Init PROVE NothingOutlivesSpace
    OBVIOUS
  <2>1. PICK w \in World : owner = w.owner /\ device = w.device /\ code = w.code
    BY DEF Init
  <2>2. Sound(w)
    BY ConstantsAssumption
  <2> QED
    BY <2>1, <2>2 DEF Sound, NothingOutlivesSpace, Exists
<1>2. ASSUME IInv, NothingOutlivesSpace, [Next]_accounts PROVE NothingOutlivesSpace'
  <2>1. CASE \E r \in Request : Handles(r)
    BY <1>2, <2>1, PlacesHandler
  <2>2. CASE UNCHANGED <<owner, device, code>>
    BY <1>2, <2>2 DEF NothingOutlivesSpace, Exists
  <2>3. CASE \E c \in Code : CodeExpires(c)
    BY <1>2, <2>3 DEF CodeExpires, IInv, TypeOK, CodeRow, NothingOutlivesSpace, Exists
  <2> QED
    BY <1>2, <2>1, <2>2, <2>3
    DEF Next, Serve, Handles, Cut, Time, TokenExpires, SessionLapses, Restart, accounts, database,
        handlers
<1> QED
  BY <1>1, <1>2, Invariance, PTL DEF Spec

-------------------------------------------------------------------------------
(* The terminal view *)

\* An attempt that was not dropped is connecting or live, and no socket outlives its attempt.
ViewInv == TerminalTypeOK /\ OneSocket /\ (cur # 0 => view \in {"connecting", "live"})

\* An attempt is within the bound, and the browser's drop leaves no socket.
LEMMA Attempts == 0 \notin Attempt /\ Attempt \subseteq 0..MaxAttempts
BY PageAssumption DEF Attempt

LEMMA Drops ==
  ASSUME ViewInv
  PROVE  /\ Dropped \in [Attempt -> {"none", "connecting", "open", "closed"}]
         /\ \A a \in Attempt : Dropped[a] \in {"none", "closed"}
BY DEF ViewInv, TerminalTypeOK, Dropped, Usable

\* A step that drops the current attempt.
LEMMA DropStep ==
  ASSUME ViewInv, NEW v \in {"retrying", "stopped", "disposed"}, NEW T \in SUBSET Timer, Drop(v, T),
         visible' \in BOOLEAN, UNCHANGED <<page, term, end>>,
         ask' \in [Attempt -> {"none", "sent", "authed", "allowed", "ticket", "denied", "error", "done"}]
  PROVE  ViewInv'
<1>1. /\ view' = v /\ cur' = 0 /\ timers' = T /\ broken' = FALSE
      /\ sock' \in [Attempt -> {"none", "connecting", "open", "closed"}]
      /\ \A a \in Attempt : sock'[a] \in {"none", "closed"}
  BY Drops DEF Drop
<1>2. 0 \in 0..MaxAttempts
  BY PageAssumption
<1>3. page \in Page /\ term' = term /\ end' = end
  BY DEF ViewInv, TerminalTypeOK
<1>4. TerminalTypeOK'
  BY <1>1, <1>2, <1>3 DEF ViewInv, TerminalTypeOK
<1>5. OneSocket' /\ (cur' # 0 => view' \in {"connecting", "live"})
  BY <1>1 DEF OneSocket, Usable
<1> QED
  BY <1>4, <1>5 DEF ViewInv

LEMMA Connects == ASSUME ViewInv, visible' \in BOOLEAN, Connect PROVE ViewInv'
BY Drops, Attempts, PageAssumption DEF ViewInv, TerminalTypeOK, OneSocket, Usable, Connect, Timer

LEMMA BrowserStep ==
  ASSUME ViewInv, visible' \in BOOLEAN,
         Hide \/ Show \/ Timeout \/ ProbeNow \/ ReconnectNow \/ Dispose \/ PathBreaks
  PROVE  ViewInv'
<1>1. CASE Connect
  BY <1>1, Connects
<1>2. CASE Probe
  BY <1>2 DEF Probe, ViewInv, TerminalTypeOK, OneSocket, Usable, Timer
<1>3. CASE TimeUp
  <2>1. Drop("retrying", {"retry"}) /\ UNCHANGED <<page, ask, term, end>>
    BY <1>3 DEF TimeUp, Fail
  <2> QED
    BY <2>1, DropStep DEF Timer, ViewInv, TerminalTypeOK
<1>4. CASE Dispose
  <2>1. Drop("disposed", {}) /\ UNCHANGED <<page, ask, term, end>>
    BY <1>4 DEF Dispose
  <2> QED
    BY <2>1, DropStep DEF Timer, ViewInv, TerminalTypeOK
<1>5. CASE PathBreaks
  BY <1>5 DEF PathBreaks, ViewInv, TerminalTypeOK, OneSocket, Usable
<1>6. CASE UNCHANGED <<page, browser, ask, sock, term, end>>
  BY <1>6 DEF browser, ViewInv, TerminalTypeOK, OneSocket, Usable
<1> QED
  BY <1>1, <1>2, <1>3, <1>4, <1>5, <1>6 DEF Hide, Show, Timeout, Retry, Ping, ProbeNow, ReconnectNow

LEMMA ViewStep ==
  ASSUME ViewInv, visible' \in BOOLEAN, NEW a \in Attempt,
         \/ TicketAnswered(a) \/ Opened(a) \/ Output(a) \/ Answered(a) \/ Closed(a)
  PROVE  ViewInv'
<1>1. CASE TicketAnswered(a)
  <2>1. ask' \in [Attempt -> {"none", "sent", "authed", "allowed", "ticket", "denied", "error", "done"}]
    BY <1>1 DEF TicketAnswered, ViewInv, TerminalTypeOK
  <2>2. UNCHANGED <<page, term, end>>
    BY <1>1 DEF TicketAnswered
  <2>3. CASE UNCHANGED <<browser, sock>>
    BY <2>1, <2>2, <2>3 DEF browser, ViewInv, TerminalTypeOK, OneSocket, Usable
  <2>4. CASE Stop \/ Fail
    BY <2>1, <2>2, <2>4, DropStep DEF Stop, Fail, Timer
  <2>5. CASE /\ a = cur /\ ask[a] = "ticket"
             /\ sock' = [sock EXCEPT ![a] = "connecting"]
             /\ timers' = {"handshake"}
             /\ UNCHANGED <<view, cur, broken>>
    <3>1. cur # 0
      BY <2>5, Attempts
    <3> QED
      BY <2>1, <2>2, <2>5, <3>1 DEF ViewInv, TerminalTypeOK, OneSocket, Usable, Timer
  <2> QED
    BY <1>1, <2>3, <2>4, <2>5 DEF TicketAnswered
<1>2. CASE Opened(a)
  BY <1>2 DEF Opened, ViewInv, TerminalTypeOK, OneSocket, Usable, Timer
<1>3. CASE Output(a)
  BY <1>3 DEF Output, ViewInv, TerminalTypeOK, OneSocket, Usable, Timer
<1>4. CASE Answered(a)
  BY <1>4 DEF Answered, ViewInv, TerminalTypeOK, OneSocket, Usable
<1>5. CASE Closed(a)
  <2>1. (Stop \/ Fail) /\ UNCHANGED <<page, ask, term, end>>
    BY <1>5 DEF Closed
  <2> QED
    BY <2>1, DropStep DEF Stop, Fail, Timer, ViewInv, TerminalTypeOK
<1> QED
  BY <1>1, <1>2, <1>3, <1>4, <1>5

\* The Hub's steps leave the browser's side alone.
LEMMA HubStep ==
  ASSUME ViewInv, visible' \in BOOLEAN, UNCHANGED <<page, browser, sock>>,
         ask' \in [Attempt -> {"none", "sent", "authed", "allowed", "ticket", "denied", "error", "done"}],
         term' \in [Attempt -> {"none", "ticket", "void", "expired", "opening", "open", "closed"}],
         end' \in [Attempt -> {"none", "1008", "final", "other"}]
  PROVE  ViewInv'
BY DEF browser, ViewInv, TerminalTypeOK, OneSocket, Usable

\* The middleware and the handler of the ticket route.
LEMMA TicketStep ==
  ASSUME ViewInv, visible' \in BOOLEAN, NEW a \in Attempt,
         TicketAuthed(a) \/ TicketAllowed(a) \/ IssueTicket(a) \/ TicketFails(a)
  PROVE  ViewInv'
<1>1. \E step \in {"authed", "denied", "allowed", "ticket", "error"} : Asked(a, step)
  BY DEF TicketAuthed, TicketAllowed, IssueTicket, TicketFails
<1>2. term' \in [Attempt -> {"none", "ticket", "void", "expired", "opening", "open", "closed"}]
  <2>1. CASE UNCHANGED term
    BY <2>1 DEF ViewInv, TerminalTypeOK
  <2>2. CASE IssueTicket(a)
    <3> DEFINE given == IF PageRole = "none" THEN "void" ELSE "ticket"
    <3>1. given \in {"void", "ticket"}
      OBVIOUS
    <3>2. term' = [term EXCEPT ![a] = given]
      BY <2>2 DEF IssueTicket
    <3> HIDE DEF given
    <3> QED
      BY <3>1, <3>2 DEF ViewInv, TerminalTypeOK
  <2> QED
    BY <2>1, <2>2 DEF TicketAuthed, TicketAllowed, TicketFails
<1>3. PICK step \in {"authed", "denied", "allowed", "ticket", "error"} : Asked(a, step)
  BY <1>1
<1>4. ask' \in [Attempt -> {"none", "sent", "authed", "allowed", "ticket", "denied", "error", "done"}]
  BY <1>3 DEF Asked, ViewInv, TerminalTypeOK
<1>5. end' \in [Attempt -> {"none", "1008", "final", "other"}]
  BY <1>3 DEF Asked, ViewInv, TerminalTypeOK
<1>6. UNCHANGED <<page, browser, sock>>
  BY <1>3 DEF Asked
<1> QED
  BY <1>2, <1>4, <1>5, <1>6, HubStep

\* The life of a ticket and of the terminal it opens.
LEMMA TermStep ==
  ASSUME ViewInv, visible' \in BOOLEAN, NEW a \in Attempt,
         \/ TicketExpires(a) \/ Accept(a) \/ OpenStream(a) \/ StreamEnds(a)
         \/ GrantFails(a) \/ GrantTimesOut(a)
  PROVE  ViewInv'
<1>1. ASSUME NEW step \in {"expired", "opening", "open"}, Term(a, step), UNCHANGED end
      PROVE  ViewInv'
  BY <1>1, HubStep DEF Term, ViewInv, TerminalTypeOK
<1>2. ASSUME NEW how \in {"1008", "final", "other"}, TermEnds(a, how) PROVE ViewInv'
  <2>1. /\ UNCHANGED <<page, browser, ask, sock>>
        /\ term' = [term EXCEPT ![a] = "closed"]
        /\ end' = [end EXCEPT ![a] = IF Usable(a) THEN how ELSE "none"]
    BY <1>2 DEF TermEnds, Term
  <2>2. /\ term' \in [Attempt -> {"none", "ticket", "void", "expired", "opening", "open", "closed"}]
        /\ end' \in [Attempt -> {"none", "1008", "final", "other"}]
    BY <2>1 DEF ViewInv, TerminalTypeOK
  <2> QED
    BY <2>1, <2>2, HubStep DEF ViewInv, TerminalTypeOK
<1> QED
  BY <1>1, <1>2 DEF TicketExpires, Accept, OpenStream, StreamEnds, GrantFails, GrantTimesOut

LEMMA ViewLoses == ASSUME ViewInv, TerminalsLost PROVE ViewInv'
<1>1. ask' \in [Attempt -> {"none", "sent", "authed", "allowed", "ticket", "denied", "error", "done"}]
  BY DEF TerminalsLost, ViewInv, TerminalTypeOK
<1>2. term' \in [Attempt -> {"none", "ticket", "void", "expired", "opening", "open", "closed"}]
  BY DEF TerminalsLost, ViewInv, TerminalTypeOK
<1>3. end' \in [Attempt -> {"none", "1008", "final", "other"}]
  BY DEF TerminalsLost, ViewInv, TerminalTypeOK
<1> QED
  BY <1>1, <1>2, <1>3, HubStep DEF TerminalsLost, ViewInv, TerminalTypeOK

LEMMA ViewInvStep == ViewInv /\ [TerminalNext]_hub => ViewInv'
<1> SUFFICES ASSUME ViewInv, [TerminalNext]_hub PROVE ViewInv'
  OBVIOUS
<1>1. CASE UNCHANGED terminal
  BY <1>1 DEF terminal, browser, ViewInv, TerminalTypeOK, OneSocket, Usable
<1>2. CASE TerminalsLost
  BY <1>2, ViewLoses
<1>3. CASE TerminalStep
  <2>1. visible' \in BOOLEAN
    BY <1>3 DEF TerminalStep, Hide, Show, ViewInv, TerminalTypeOK
  <2> QED
    BY <1>3, <2>1, BrowserStep, ViewStep, TicketStep, TermStep DEF TerminalStep, PageStep
<1> QED
  BY <1>1, <1>2, <1>3 DEF TerminalNext, hub

LEMMA ViewInit == TerminalInit => ViewInv
<1> SUFFICES ASSUME TerminalInit PROVE ViewInv
  OBVIOUS
<1>1. page \in Page /\ visible \in BOOLEAN /\ broken = FALSE
  BY DEF TerminalInit
<1>2. /\ view \in {"connecting", "disposed"} /\ cur \in {0, 1} /\ timers \subseteq {"ticket"}
      /\ cur = 1 => view = "connecting"
  BY DEF TerminalInit
<1>3. cur \in 0..MaxAttempts
  BY <1>2, PageAssumption
<1>4. ask \in [Attempt -> {"none", "sent", "authed", "allowed", "ticket", "denied", "error", "done"}]
  BY DEF TerminalInit
<1>5. /\ sock = [a \in Attempt |-> "none"] /\ term = [a \in Attempt |-> "none"]
      /\ end = [a \in Attempt |-> "none"]
  BY DEF TerminalInit
<1>6. TerminalTypeOK
  BY <1>1, <1>2, <1>3, <1>4, <1>5 DEF TerminalTypeOK, Timer
<1>7. OneSocket
  BY <1>5 DEF OneSocket, Usable
<1> QED
  BY <1>2, <1>6, <1>7 DEF ViewInv

\* A step of the terminals is one of the requests, or changes no table.
LEMMA TablesStep == [TerminalNext]_hub => [Next]_accounts
BY DEF TerminalNext, hub, Next

-------------------------------------------------------------------------------
(* Theorems about the terminals. *)

\* The variables of the view and of the Hub's terminals keep their types.
THEOREM TerminalTypeCorrect == TerminalSpec => []TerminalTypeOK
<1>1. ViewInv => TerminalTypeOK
  BY DEF ViewInv
<1> QED
  BY <1>1, ViewInit, ViewInvStep, PTL DEF TerminalSpec

\* However late the answers, handshakes and outputs of its abandoned attempts come, the view
\* has one socket, that of its current attempt, and none when it waits, stops or is gone.
THEOREM ViewHasOneSocket == TerminalSpec => []OneSocket
<1>1. ViewInv => OneSocket
  BY DEF ViewInv
<1> QED
  BY <1>1, ViewInit, ViewInvStep, PTL DEF TerminalSpec

\* Terminals disturb nothing of what holds of the tables: they only read them.
THEOREM TablesUnderTerminals ==
  TerminalSpec => [](OwnersStay /\ SessionsDieWithToken /\ RevokedIsCut) /\ OwnersDecide
<1>1. TerminalInit => IInv /\ DecideInv
  BY InitSound, DecideInit DEF TerminalInit
<1>2. IInv /\ DecideInv /\ [TerminalNext]_hub => (IInv /\ DecideInv)'
  BY TablesStep, InvStep, DecideStep
<1>3. IInv => OwnersStay /\ SessionsDieWithToken /\ RevokedIsCut
  BY DEF IInv, PeopleInv, LoginsInv, CutInv
<1>4. IInv /\ DecideInv /\ [TerminalNext]_hub => [Decided]_accounts
  BY TablesStep, DecidedStep
<1> QED
  BY <1>1, <1>2, <1>3, <1>4, PTL DEF TerminalSpec, OwnersDecide

-------------------------------------------------------------------------------
(* The life of a ticket. *)

\* What becomes of a ticket, and of the terminal it opens.
TicketOrder == {
  <<"none", "ticket">>, <<"none", "void">>,
  <<"ticket", "expired">>, <<"void", "expired">>,
  <<"ticket", "opening">>, <<"ticket", "closed">>, <<"void", "closed">>, <<"expired", "closed">>,
  <<"opening", "open">>, <<"opening", "closed">>, <<"open", "closed">>}

\* A ticket opens one terminal at most, and only while its grant is valid: what is expired,
\* used or closed never opens again, also after a restart of the Hub.
TicketMoves ==
  \A a \in Attempt :
    term'[a] # term[a] =>
      /\ <<term[a], term'[a]>> \in TicketOrder
      /\ term'[a] = "opening" => GrantAllowed

TicketsAreUsedOnce == [][TicketMoves]_hub

\* Attempts are made one after the other, and one that has not got its ticket has no terminal.
InOrder   == \A a, b \in Attempt : b < a /\ ask[a] # "none" => ask[b] # "none"
TicketInv == /\ InOrder
             /\ \A a \in Attempt : ask[a] \in {"none", "sent", "authed", "allowed"} => term[a] = "none"

\* The next attempt is a new one, and comes after all that were made.
LEMMA NextIsNew ==
  ASSUME ViewInv, TicketInv, Next1 \in Attempt
  PROVE  ask[Next1] = "none" /\ \A b \in Attempt : b < Next1 => ask[b] # "none"
<1> DEFINE n == Cardinality(Made)
<1>1. /\ Made \subseteq 1..MaxAttempts /\ MaxAttempts \in Nat
      /\ Next1 = n + 1 /\ Attempt = 1..MaxAttempts
  BY PageAssumption DEF Made, Attempt, Next1
<1>2. IsFiniteSet(Made) /\ n \in Nat
  <2>1. IsFiniteSet(1..MaxAttempts)
    BY <1>1, FS_Interval
  <2>2. IsFiniteSet(Made)
    BY <1>1, <2>1, FS_Subset
  <2> QED
    BY <2>2, FS_CardinalityType
<1>3. ASSUME NEW a \in Attempt, ask[a] # "none" PROVE a <= n
  <2>1. 1..a \subseteq Made
    BY <1>1, <1>3 DEF TicketInv, InOrder, Made
  <2>2. Cardinality(1..a) = a
    BY <1>1, FS_Interval
  <2> QED
    BY <1>2, <2>1, <2>2, FS_Subset
<1>4. ASSUME NEW b \in Attempt, ask[b] = "none" PROVE n < b
  <2>1. Made \subseteq 1..(b - 1)
    <3>1. ASSUME NEW a \in Made PROVE a < b
      BY <1>1, <1>4, <3>1 DEF TicketInv, InOrder, Made
    <3> QED
      BY <1>1, <3>1
  <2>2. IsFiniteSet(1..(b - 1)) /\ Cardinality(1..(b - 1)) = b - 1
    <3> DEFINE m == b - 1
    <3>1. m \in Nat
      BY <1>1
    <3> HIDE DEF m
    <3>2. IsFiniteSet(1..m) /\ Cardinality(1..m) = IF 1 > m THEN 0 ELSE m - 1 + 1
      BY <3>1, FS_Interval
    <3>3. Cardinality(1..m) = m
      BY <3>1, <3>2
    <3> QED
      BY <3>2, <3>3 DEF m
  <2>3. n <= b - 1
    BY <2>1, <2>2, FS_Subset
  <2> QED
    BY <1>1, <1>2, <2>3
<1> HIDE DEF n
<1> QED
  BY <1>1, <1>2, <1>3, <1>4

\* connect() makes a new attempt; what else the browser does makes none.
LEMMA ConnectTicket == ASSUME ViewInv, TicketInv, Connect PROVE TicketInv' /\ term' = term
<1>1. /\ Next1 \in Attempt /\ ask' = [ask EXCEPT ![Next1] = "sent"] /\ term' = term
  BY DEF Connect
<1> QED
  BY <1>1, NextIsNew, PageAssumption DEF TicketInv, InOrder, ViewInv, TerminalTypeOK, Attempt

LEMMA BrowserTicket ==
  ASSUME ViewInv, TicketInv, Hide \/ Show \/ Timeout \/ ProbeNow \/ ReconnectNow \/ Dispose \/ PathBreaks
  PROVE  TicketInv' /\ term' = term
<1>1. Connect \/ UNCHANGED <<ask, term>>
  BY DEF Hide, Show, Timeout, Ping, TimeUp, Retry, ProbeNow, Probe, ReconnectNow, Dispose, PathBreaks
<1>2. CASE UNCHANGED <<ask, term>>
  BY <1>2 DEF TicketInv, InOrder
<1> QED
  BY <1>1, <1>2, ConnectTicket

LEMMA ViewTicket ==
  ASSUME ViewInv, TicketInv, NEW a \in Attempt,
         \/ TicketAnswered(a) \/ Opened(a) \/ Output(a) \/ Answered(a) \/ Closed(a)
  PROVE  TicketInv' /\ term' = term
<1>1. CASE TicketAnswered(a)
  <2>1. ask[a] # "none" /\ ask' = [ask EXCEPT ![a] = "done"] /\ term' = term
    BY <1>1 DEF TicketAnswered
  <2> QED
    BY <2>1 DEF TicketInv, InOrder, ViewInv, TerminalTypeOK
<1>2. CASE Opened(a) \/ Output(a) \/ Answered(a) \/ Closed(a)
  <2>1. UNCHANGED <<ask, term>>
    BY <1>2 DEF Opened, Output, Answered, Closed
  <2> QED
    BY <2>1 DEF TicketInv, InOrder
<1> QED
  BY <1>1, <1>2

\* The route of the ticket gives one to an attempt that has none.
LEMMA RouteTicket ==
  ASSUME ViewInv, TicketInv, NEW a \in Attempt,
         TicketAuthed(a) \/ TicketAllowed(a) \/ IssueTicket(a) \/ TicketFails(a)
  PROVE  TicketInv' /\ TicketMoves
<1>1. ask[a] # "none"
  BY DEF TicketAuthed, TicketAllowed, IssueTicket, TicketFails
<1>2. CASE TicketAuthed(a) \/ TicketAllowed(a) \/ TicketFails(a)
  <2>1. PICK step \in {"authed", "denied", "allowed", "error"} : ask' = [ask EXCEPT ![a] = step]
    BY <1>2 DEF TicketAuthed, TicketAllowed, TicketFails, Asked
  <2>2. ask[a] \in {"sent", "authed", "allowed"} /\ term' = term
    BY <1>2 DEF TicketAuthed, TicketAllowed, TicketFails
  <2> QED
    BY <1>1, <2>1, <2>2 DEF TicketInv, InOrder, TicketMoves, ViewInv, TerminalTypeOK
<1>3. CASE IssueTicket(a)
  <2> DEFINE given == IF PageRole = "none" THEN "void" ELSE "ticket"
  <2>1. /\ given \in {"void", "ticket"} /\ ask[a] = "allowed" /\ ask' = [ask EXCEPT ![a] = "ticket"]
        /\ term' = [term EXCEPT ![a] = given]
    BY <1>3 DEF IssueTicket, Asked
  <2> HIDE DEF given
  <2>2. term[a] = "none"
    BY <2>1 DEF TicketInv
  <2>3. TicketInv'
    BY <2>1 DEF TicketInv, InOrder, ViewInv, TerminalTypeOK
  <2>4. TicketMoves
    BY <2>1, <2>2 DEF TicketMoves, TicketOrder, ViewInv, TerminalTypeOK
  <2> QED
    BY <2>3, <2>4
<1> QED
  BY <1>2, <1>3

\* What the Hub does to a ticket or a terminal follows the order.
LEMMA TermTicket ==
  ASSUME ViewInv, TicketInv, NEW a \in Attempt,
         \/ TicketExpires(a) \/ Accept(a) \/ OpenStream(a) \/ StreamEnds(a)
         \/ GrantFails(a) \/ GrantTimesOut(a)
  PROVE  TicketInv' /\ TicketMoves
<1>1. PICK to \in {"expired", "opening", "open", "closed"} :
        /\ term' = [term EXCEPT ![a] = to] /\ ask' = ask
        /\ <<term[a], to>> \in TicketOrder
        /\ to = "opening" => GrantAllowed
  <2>1. CASE TicketExpires(a)
    BY <2>1 DEF TicketExpires, Term, TicketOrder
  <2>2. CASE Accept(a)
    BY <2>2 DEF Accept, Term, TermEnds, TicketOrder
  <2>3. CASE OpenStream(a)
    BY <2>3 DEF OpenStream, Term, TicketOrder
  <2>4. CASE StreamEnds(a)
    BY <2>4 DEF StreamEnds, Term, TermEnds, TicketOrder
  <2>5. CASE GrantFails(a) \/ GrantTimesOut(a)
    BY <2>5 DEF GrantFails, GrantTimesOut, Watched, Term, TermEnds, TicketOrder
  <2> QED
    BY <2>1, <2>2, <2>3, <2>4, <2>5
<1>2. term[a] # "none"
  BY <1>1 DEF TicketOrder
<1>3. TicketInv'
  BY <1>1, <1>2 DEF TicketInv, InOrder, ViewInv, TerminalTypeOK
<1>4. TicketMoves
  BY <1>1 DEF TicketMoves, ViewInv, TerminalTypeOK
<1> QED
  BY <1>3, <1>4

LEMMA LostTicket == ASSUME ViewInv, TicketInv, TerminalsLost PROVE TicketInv' /\ TicketMoves
<1>1. \A a \in Attempt :
        /\ ask'[a] = IF ask[a] \in {"sent", "authed", "allowed"} THEN "error" ELSE ask[a]
        /\ term'[a] = CASE term[a] \in {"ticket", "void"}   -> "expired"
                        [] term[a] \in {"opening", "open"} -> "closed"
                        [] OTHER                           -> term[a]
  BY DEF TerminalsLost, Watched
<1>2. TicketInv'
  BY <1>1 DEF TicketInv, InOrder
<1>3. TicketMoves
  BY <1>1 DEF TicketMoves, TicketOrder
<1> QED
  BY <1>2, <1>3

LEMMA TicketInvStep ==
  ASSUME ViewInv, TicketInv, [TerminalNext]_hub
  PROVE  TicketInv' /\ [TicketMoves]_hub
<1>1. CASE UNCHANGED terminal
  BY <1>1 DEF terminal, TicketInv, InOrder, TicketMoves
<1>2. CASE TerminalsLost
  BY <1>2, LostTicket
<1>3. CASE TerminalStep
  <2>1. ASSUME TicketInv' /\ term' = term PROVE TicketInv' /\ TicketMoves
    BY <2>1 DEF TicketMoves
  <2> QED
    BY <1>3, <2>1, BrowserTicket, ViewTicket, RouteTicket, TermTicket DEF TerminalStep, PageStep
<1> QED
  BY <1>1, <1>2, <1>3 DEF TerminalNext, hub

\* However many attempts a view makes, whatever is late, lost or restarted: a ticket is given
\* once, opens one terminal at most, and that only while the session, the membership and the
\* device allow it (terminal.go: IssueWithGrant, consume, ServeHTTP).
THEOREM TicketsOpenOneTerminal == TerminalSpec => TicketsAreUsedOnce
<1>1. TerminalInit => ViewInv /\ TicketInv
  BY ViewInit, PageAssumption DEF TerminalInit, TicketInv, InOrder, Attempt
<1>2. ViewInv /\ TicketInv /\ [TerminalNext]_hub => (ViewInv /\ TicketInv)'
  BY ViewInvStep, TicketInvStep
<1>3. ViewInv /\ TicketInv /\ [TerminalNext]_hub => [TicketMoves]_hub
  BY TicketInvStep
<1> QED
  BY <1>1, <1>2, <1>3, PTL DEF TerminalSpec, TicketsAreUsedOnce
===============================================================================
