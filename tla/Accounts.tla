-------------------------------- MODULE Accounts -------------------------------
(***************************************************************************)
(* Users, login tokens, web sessions, spaces, memberships, devices and      *)
(* pairing codes: auth.Store over PostgreSQL and the HTTP handlers of       *)
(* auth.Server.  A handler is a sequence of statements, each a step of its   *)
(* own, so requests interleave between reading a session or a role and       *)
(* acting on it.  A transaction that holds a row lock is two steps, from the *)
(* lock to the commit; what the lock makes wait is in the guards.            *)
(*                                                                          *)
(* A request carries the rows it creates: their random identifiers are not   *)
(* those of another row.  Names, secrets, CSRF values and the audit log are  *)
(* left out, and a time limit is an action that may fire at any moment.      *)
(***************************************************************************)
EXTENDS Naturals, FiniteSets

CONSTANTS
  User, Space, Session, Token, Code, Device,
  NoUser, NoToken, NoCode,
  Home,         \* the one personal space index personal_space_owner allows a user
  Request,      \* the requests that may be under way
  World,        \* the databases a behaviour may start with, and what is asked of the Hub
  MaxRestarts   \* bound on restarts of the Hub

Roles == {"owner", "admin", "operator", "viewer"}

\* The actions each role may do.
Allowed(r, action) ==
  r \in CASE action = "list"                          -> Roles
          [] action \in {"input", "create", "rename"} -> Roles \ {"viewer"}
          [] action \in {"close", "device", "audit"}  -> {"owner", "admin"}
          [] action \in {"member", "space"}           -> {"owner"}

\* The action each operation on a space asks a role for.
ActionOf == [deleteSpace |-> "space", addMember |-> "member", addGithubMember |-> "member",
             changeMember |-> "member", removeMember |-> "member",
             createDevice |-> "device", createPairing |-> "device", revokeDevice |-> "device"]

SpaceOps == DOMAIN ActionOf
WebOps   == SpaceOps \cup {"logout", "createToken", "revokeToken", "createSpace"}
Op       == WebOps \cup {"tokenLogin", "githubLogin", "redeem", "none"}
Step     == {"absent", "new", "authed", "allowed", "space", "member", "session", "token",
             "locked", "committed", "cutting", "issue", "ok", "refused", "failed", "lost"}
Over     == {"absent", "ok", "refused", "failed", "lost"}

RequestType == [op: Op, session: Session, space: Space, user: User, role: Roles,
                token: Token, code: Code, device: Device]

UserRow    == User \cup {NoUser}
TokenRow   == [user: UserRow, state: {"none", "live", "revoked", "expired"}]
SessionRow == [user: UserRow, source: Token \cup {NoToken},
               state: {"none", "live", "revoked", "lapsed"}]
DeviceRow  == [space: Space, from: Code \cup {NoCode}, state: {"none", "live", "revoked", "deleted"}]
CodeRow    == [space: Space, by: UserRow, state: {"none", "open", "used", "expired", "deleted"}]

WellTyped(w) ==
  /\ w.users \subseteq User
  /\ w.owner \in [Space -> UserRow]
  /\ w.role \in [Space -> [User -> Roles \cup {"none"}]]
  /\ w.token \in [Token -> TokenRow]
  /\ w.session \in [Session -> SessionRow]
  /\ w.device \in [Device -> DeviceRow]
  /\ w.code \in [Code -> CodeRow]
  /\ w.req \in [Request -> RequestType]

\* The tables as BootstrapOwner and earlier requests leave them, and new spaces with random
\* identifiers of their own.
Sound(w) ==
  /\ \A s \in Space, u \in User :
       /\ w.role[s][u] = "owner" <=> w.owner[s] = u
       /\ w.role[s][u] # "none" => u \in w.users /\ w.owner[s] # NoUser
  /\ \A t \in Token : w.token[t].state # "none" => w.token[t].user \in w.users
  /\ \A u \in User : w.owner[Home[u]] \in {u, NoUser}
  /\ \A s \in Session : w.session[s].state = "live" =>
       /\ w.session[s].user \in User
       /\ w.owner[Home[w.session[s].user]] = w.session[s].user
       /\ w.session[s].source # NoToken => w.token[w.session[s].source].state \in {"live", "expired"}
  /\ \A d \in Device :
       /\ w.device[d].state \in {"none", "live"} /\ w.device[d].from = NoCode
       /\ w.device[d].state = "live" => w.owner[w.device[d].space] # NoUser
  /\ \A c \in Code :
       /\ w.code[c].state \in {"none", "open"}
       /\ w.code[c].state = "open" => w.owner[w.code[c].space] # NoUser
  /\ \A r \in Request : w.req[r].op = "createSpace" =>
       /\ w.owner[w.req[r].space] = NoUser
       /\ \A q \in Request :
            w.req[q].op = "createSpace" /\ w.req[q].space = w.req[r].space => q = r

ASSUME ConstantsAssumption ==
  /\ NoUser \notin User /\ NoToken \notin Token /\ NoCode \notin Code
  /\ Home \in [User -> Space]
  /\ \A u, v \in User : Home[u] = Home[v] => u = v
  /\ MaxRestarts \in Nat
  /\ \A w \in World : WellTyped(w) /\ Sound(w)

VARIABLES
  users,     \* the users that exist
  owner,     \* spaces.owner_user_id, NoUser when there is no such space
  role,      \* memberships: role[s][u], "none" without a row
  token,     \* login_tokens
  session,   \* web_sessions
  device,    \* devices
  code,      \* device_pairings
  req,       \* the requests, of op "none" where there is none
  pc,        \* where the handler of each request is
  who,       \* the user its session or its login gave it
  owed,      \* the devices it has yet to pass to OnDeviceRevoked
  cut,       \* the devices passed to it, or whose connection ended with the Hub
  restarts

database == <<users, owner, role, token, session, device, code>>
handlers == <<pc, who, owed>>
accounts == <<database, req, handlers, cut, restarts>>

TypeOK ==
  /\ users \subseteq User
  /\ owner \in [Space -> UserRow]
  /\ role \in [Space -> [User -> Roles \cup {"none"}]]
  /\ token \in [Token -> TokenRow]
  /\ session \in [Session -> SessionRow]
  /\ device \in [Device -> DeviceRow]
  /\ code \in [Code -> CodeRow]
  /\ req \in [Request -> RequestType]
  /\ pc \in [Request -> Step]
  /\ who \in [Request -> UserRow]
  /\ owed \in [Request -> SUBSET Device]
  /\ cut \subseteq Device
  /\ restarts \in 0..MaxRestarts

Team      == Space \ {Home[u] : u \in User}
Exists(s) == owner[s] # NoUser
Gone      == {d \in Device : device[d].state \in {"revoked", "deleted"}}

Init ==
  /\ \E w \in World :
       /\ users = w.users /\ owner = w.owner /\ role = w.role /\ token = w.token
       /\ session = w.session /\ device = w.device /\ code = w.code /\ req = w.req
  /\ pc = [r \in Request |-> IF req[r].op = "none" THEN "absent" ELSE "new"]
  /\ who = [r \in Request |-> NoUser]
  /\ owed = [r \in Request |-> {}]
  /\ cut = {}
  /\ restarts = 0

-------------------------------------------------------------------------------
(* Properties. *)

\* A space keeps one owner, the user who created it, whatever its members' roles become and
\* whatever fails in between: the ownerless space of a half-done ensurePersonalSpace is a
\* personal one.  (store.go: CreateSpace, ChangeMemberRole, RemoveMember, DeleteSpace)
OwnersStay ==
  \A s \in Space, u \in User :
    /\ role[s][u] = "owner" => owner[s] = u
    /\ owner[s] = u /\ s \in Team => role[s][u] = "owner"
    /\ ~Exists(s) => role[s][u] = "none"

\* No session a revoked token opened is live, although the login may have read the token
\* before it was revoked.  (store.go: NewSession, RevokeToken)
SessionsDieWithToken ==
  \A s \in Session :
    session[s].state = "live" /\ session[s].source # NoToken
      => token[session[s].source].state # "revoked"

\* Whoever is logged in owns its personal space and is a member of it, also when an earlier
\* login failed between the two statements.  (store.go: ensurePersonalSpace)
LoginHasHome ==
  \A s \in Session :
    session[s].state = "live" =>
      LET u == session[s].user IN owner[Home[u]] = u /\ role[Home[u]][u] = "owner"

\* A pairing code makes one device, however many requests redeem it at once.
\* (store.go: RedeemDevicePairing)
OneDevicePerCode ==
  \A d, e \in Device : device[d].from # NoCode /\ device[d].from = device[e].from => d = e

\* A device that is revoked or deleted with its space is cut off, or a handler is about to do
\* it, or its user was answered with an error: no device is missed by the list DeleteSpace
\* returns, whatever is created, redeemed or revoked next to it.
\* (http.go: deleteSpace, revokeDevice)
RevokedIsCut ==
  \A d \in Gone : d \in cut \/ \E r \in Request : d \in owed[r] /\ pc[r] # "ok"

-------------------------------------------------------------------------------
(* Steps of a handler. *)

At(r, op, step) == pc[r] = step /\ req[r].op = op
Go(r, step)     == pc' = [pc EXCEPT ![r] = step]

\* The row locks that outlive a statement: DeleteSpace's FOR UPDATE of the space, which an
\* INSERT that refers to it waits for, and RedeemDevicePairing's FOR UPDATE of the code.
SpaceLocked(s) == \E r \in Request : At(r, "deleteSpace", "locked") /\ req[r].space = s
\* Mutant: a Redeem that fails keeps its transaction, without the deferred Rollback.
HeldCodeLocked(c) == \E r \in Request : req[r].op = "redeem" /\ pc[r] \in {"locked", "failed"}
                                          /\ req[r].code = c

CodeLocked(c)  == \E r \in Request : At(r, "redeem", "locked") /\ req[r].code = c

Refuse(r) == Go(r, "refused") /\ UNCHANGED <<database, who, owed>>

\* Require: the cookie's session is read once; what the handler does later relies on it.
Authenticate(r) ==
  /\ req[r].op \in WebOps /\ pc[r] = "new"
  /\ IF session[req[r].session].state = "live"
     THEN /\ who' = [who EXCEPT ![r] = session[req[r].session].user]
          /\ Go(r, IF req[r].op \in SpaceOps THEN "authed" ELSE "allowed")
     ELSE who' = who /\ Go(r, "refused")
  /\ UNCHANGED <<database, owed>>

\* The role is read in one statement and acted upon in a later one.
Authorize(r) ==
  /\ pc[r] = "authed"
  /\ Go(r, IF Allowed(role[req[r].space][who[r]], ActionOf[req[r].op]) THEN "allowed" ELSE "refused")
  /\ UNCHANGED <<database, who, owed>>

-------------------------------------------------------------------------------
(* What a user does to itself. *)

Logout(r) ==
  /\ At(r, "logout", "allowed")
  /\ session' = [session EXCEPT ![req[r].session].state = "revoked"]
  /\ Go(r, "ok")
  /\ UNCHANGED <<users, owner, role, token, device, code, who, owed>>

NewToken(r, u) ==
  /\ token[req[r].token].state = "none"
  /\ token' = [token EXCEPT ![req[r].token] = [user |-> u, state |-> "live"]]
  /\ Go(r, "ok")
  /\ UNCHANGED <<users, owner, role, session, device, code, who, owed>>

CreateToken(r) == At(r, "createToken", "allowed") /\ NewToken(r, who[r])

\* The token and the sessions it opened are revoked in one transaction.
RevokeToken(r) ==
  /\ At(r, "revokeToken", "allowed")
  /\ IF token[req[r].token].user = who[r] /\ token[req[r].token].state \in {"live", "expired"}
     THEN /\ token' = [token EXCEPT ![req[r].token].state = "revoked"]
          /\ session' = [s \in Session |-> IF session[s].source = req[r].token
                                           THEN [session[s] EXCEPT !.state = "revoked"]
                                           ELSE session[s]]
          /\ Go(r, "ok")
          /\ UNCHANGED <<users, owner, role, device, code, who, owed>>
     ELSE Refuse(r)

CreateSpace(r) ==
  /\ At(r, "createSpace", "allowed")
  /\ req[r].space \in Team /\ ~Exists(req[r].space)
  /\ owner' = [owner EXCEPT ![req[r].space] = who[r]]
  /\ role' = [role EXCEPT ![req[r].space][who[r]] = "owner"]
  /\ Go(r, "ok")
  /\ UNCHANGED <<users, token, session, device, code, who, owed>>

-------------------------------------------------------------------------------
(* Members. *)

\* An INSERT that refers to a space waits for its lock and fails when it is gone.
Inserts(r, op) == At(r, op, "allowed") /\ ~SpaceLocked(req[r].space)

\* One transaction adds a user and its membership; its first token is a statement of its own.
AddMember(r) ==
  /\ Inserts(r, "addMember")
  /\ req[r].user \notin users
  /\ IF Exists(req[r].space) /\ req[r].role # "owner"
     THEN /\ users' = users \cup {req[r].user}
          /\ role' = [role EXCEPT ![req[r].space][req[r].user] = req[r].role]
          /\ Go(r, "token")
          /\ UNCHANGED <<owner, token, session, device, code, who, owed>>
     ELSE Refuse(r)

FirstToken(r) == At(r, "addMember", "token") /\ NewToken(r, req[r].user)

AddGithubMember(r) ==
  /\ Inserts(r, "addGithubMember")
  /\ IF /\ req[r].user \in users /\ req[r].role # "owner"
        /\ Exists(req[r].space) /\ role[req[r].space][req[r].user] = "none"
     THEN /\ role' = [role EXCEPT ![req[r].space][req[r].user] = req[r].role]
          /\ Go(r, "ok")
          /\ UNCHANGED <<users, owner, token, session, device, code, who, owed>>
     ELSE Refuse(r)

\* Mutant: the statements without role <> 'owner'.
AnySetMember(r, new) ==
  IF role[req[r].space][req[r].user] # "none"
  THEN /\ role' = [role EXCEPT ![req[r].space][req[r].user] = new]
       /\ Go(r, "ok")
       /\ UNCHANGED <<users, owner, token, session, device, code, who, owed>>
  ELSE Refuse(r)

\* The row of the owner is out of reach of both statements.
SetMember(r, new) ==
  IF role[req[r].space][req[r].user] \notin {"none", "owner"}
  THEN /\ role' = [role EXCEPT ![req[r].space][req[r].user] = new]
       /\ Go(r, "ok")
       /\ UNCHANGED <<users, owner, token, session, device, code, who, owed>>
  ELSE Refuse(r)

ChangeMember(r) ==
  /\ At(r, "changeMember", "allowed")
  /\ IF req[r].role # "owner" THEN SetMember(r, req[r].role) ELSE Refuse(r)

RemoveMember(r) == At(r, "removeMember", "allowed") /\ SetMember(r, "none")

-------------------------------------------------------------------------------
(* Devices. *)

CreateDevice(r) ==
  /\ Inserts(r, "createDevice")
  /\ device[req[r].device].state = "none"
  /\ IF Exists(req[r].space)
     THEN /\ device' = [device EXCEPT ![req[r].device] =
                          [space |-> req[r].space, from |-> NoCode, state |-> "live"]]
          /\ Go(r, "ok")
          /\ UNCHANGED <<users, owner, role, token, session, code, who, owed>>
     ELSE Refuse(r)

CreatePairing(r) ==
  /\ Inserts(r, "createPairing")
  /\ code[req[r].code].state = "none"
  /\ IF Exists(req[r].space)
     THEN /\ code' = [code EXCEPT ![req[r].code] =
                        [space |-> req[r].space, by |-> who[r], state |-> "open"]]
          /\ Go(r, "ok")
          /\ UNCHANGED <<users, owner, role, token, session, device, who, owed>>
     ELSE Refuse(r)

\* Mutant: the code is read without FOR UPDATE.
UnlockedRedeem(r) ==
  /\ At(r, "redeem", "new")
  /\ LET c == code[req[r].code] IN
       Go(r, IF c.state = "open" /\ role[c.space][c.by] \in {"owner", "admin"}
             THEN "locked" ELSE "refused")
  /\ UNCHANGED <<database, who, owed>>

\* Redeem locks the code's row after it has checked it and its creator's role.
RedeemLock(r) ==
  /\ At(r, "redeem", "new")
  /\ ~CodeLocked(req[r].code)
  /\ LET c == code[req[r].code] IN
       Go(r, IF c.state = "open" /\ role[c.space][c.by] \in {"owner", "admin"}
             THEN "locked" ELSE "refused")
  /\ UNCHANGED <<database, who, owed>>

\* The device's row refers to the space, and so waits for a DeleteSpace that holds it.
RedeemCommit(r) ==
  /\ At(r, "redeem", "locked")
  /\ ~SpaceLocked(code[req[r].code].space)
  /\ device[req[r].device].state = "none"
  /\ device' = [device EXCEPT ![req[r].device] =
                  [space |-> code[req[r].code].space, from |-> req[r].code, state |-> "live"]]
  /\ code' = [code EXCEPT ![req[r].code].state = "used"]
  /\ Go(r, "issue")
  /\ UNCHANGED <<users, owner, role, token, session, who, owed>>

\* The certificate is issued after the commit, for the key of the request.
RedeemIssue(r) ==
  /\ At(r, "redeem", "issue") /\ Go(r, "ok")
  /\ UNCHANGED <<database, who, owed>>

RevokeDevice(r) ==
  /\ At(r, "revokeDevice", "allowed")
  /\ IF device[req[r].device].state = "live" /\ device[req[r].device].space = req[r].space
     THEN /\ device' = [device EXCEPT ![req[r].device].state = "revoked"]
          /\ owed' = [owed EXCEPT ![r] = {req[r].device}]
          /\ Go(r, "committed")
          /\ UNCHANGED <<users, owner, role, token, session, code, who>>
     ELSE Refuse(r)

DeleteSpaceLock(r) ==
  /\ Inserts(r, "deleteSpace")
  /\ Go(r, IF req[r].space \in Team /\ Exists(req[r].space) THEN "locked" ELSE "refused")
  /\ UNCHANGED <<database, who, owed>>

DevicesOf(s) == {d \in Device : device[d].space = s /\ device[d].state \in {"live", "revoked"}}

\* ON DELETE CASCADE takes the memberships, devices and pairings, and waits for the
\* pairing that a Redeem holds.
DeleteSpaceCommit(r) ==
  LET s == req[r].space IN
  /\ At(r, "deleteSpace", "locked")
  /\ \A c \in Code : code[c].space = s /\ code[c].state # "none" => ~CodeLocked(c)
  /\ owner' = [owner EXCEPT ![s] = NoUser]
  /\ role' = [role EXCEPT ![s] = [u \in User |-> "none"]]
  /\ device' = [d \in Device |-> IF d \in DevicesOf(s) THEN [device[d] EXCEPT !.state = "deleted"]
                                                       ELSE device[d]]
  /\ code' = [c \in Code |-> IF code[c].space = s /\ code[c].state # "none"
                             THEN [code[c] EXCEPT !.state = "deleted"] ELSE code[c]]
  /\ owed' = [owed EXCEPT ![r] = DevicesOf(s)]
  /\ Go(r, "committed")
  /\ UNCHANGED <<users, token, session, who>>

\* PostgreSQL's answer reaches the handler, unless it Fails: a statement may take effect
\* although its caller sees an error.
Acknowledged(r) ==
  /\ pc[r] = "committed" /\ Go(r, "cutting")
  /\ UNCHANGED <<database, who, owed>>

\* Mutant: only the first of the devices is cut off.
FirstCut(r) ==
  /\ pc[r] = "cutting"
  /\ \E d \in owed[r] : cut' = cut \cup {d} /\ owed' = [owed EXCEPT ![r] = {}]
  /\ UNCHANGED <<database, pc, who>>

\* OnDeviceRevoked for each device the handler has revoked or deleted, then the answer.
Cut(r) ==
  /\ pc[r] = "cutting"
  /\ \E d \in owed[r] : cut' = cut \cup {d} /\ owed' = [owed EXCEPT ![r] = @ \ {d}]
  /\ UNCHANGED <<database, pc, who>>

CutDone(r) ==
  /\ pc[r] = "cutting" /\ owed[r] = {} /\ Go(r, "ok")
  /\ UNCHANGED <<database, who, owed>>

-------------------------------------------------------------------------------
(* Logins. *)

TokenUser(r) ==
  /\ At(r, "tokenLogin", "new")
  /\ IF token[req[r].token].state = "live"
     THEN /\ who' = [who EXCEPT ![r] = token[req[r].token].user] /\ Go(r, "space")
          /\ UNCHANGED <<database, owed>>
     ELSE Refuse(r)

\* INSERT ... ON CONFLICT(github_id) DO UPDATE: the user is req[r].user, new or not.
GithubUser(r) ==
  /\ At(r, "githubLogin", "new")
  /\ users' = users \cup {req[r].user}
  /\ who' = [who EXCEPT ![r] = req[r].user]
  /\ Go(r, "space")
  /\ UNCHANGED <<owner, role, token, session, device, code, owed>>

\* Mutant: a space that exists is taken to have its member.
OnceEnsureSpace(r) ==
  /\ pc[r] = "space"
  /\ owner' = [owner EXCEPT ![Home[who[r]]] = who[r]]
  /\ Go(r, IF Exists(Home[who[r]]) THEN "session" ELSE "member")
  /\ UNCHANGED <<users, role, token, session, device, code, who, owed>>

\* ensurePersonalSpace: two statements, each repeated by every login.
EnsureSpace(r) ==
  /\ pc[r] = "space"
  /\ owner' = [owner EXCEPT ![Home[who[r]]] = who[r]]
  /\ Go(r, "member")
  /\ UNCHANGED <<users, role, token, session, device, code, who, owed>>

EnsureMember(r) ==
  LET u == who[r] IN
  /\ pc[r] = "member"
  /\ role' = [role EXCEPT ![Home[u]][u] = IF @ = "none" THEN "owner" ELSE @]
  /\ Go(r, "session")
  /\ UNCHANGED <<users, owner, token, session, device, code, who, owed>>

\* Mutant: the token is not read again with the session it opens.
StaleNewSession(r) ==
  /\ pc[r] = "session"
  /\ session[req[r].session].state = "none"
  /\ session' = [session EXCEPT ![req[r].session] =
                   [user |-> who[r], state |-> "live",
                    source |-> IF req[r].op = "githubLogin" THEN NoToken ELSE req[r].token]]
  /\ Go(r, "ok")
  /\ UNCHANGED <<users, owner, role, token, device, code, who, owed>>

\* The token is read again, FOR UPDATE, with the session it opens.
NewSession(r) ==
  /\ pc[r] = "session"
  /\ session[req[r].session].state = "none"
  /\ IF \/ req[r].op = "githubLogin"
        \/ token[req[r].token].state = "live" /\ token[req[r].token].user = who[r]
     THEN /\ session' = [session EXCEPT ![req[r].session] =
                           [user |-> who[r], state |-> "live",
                            source |-> IF req[r].op = "githubLogin" THEN NoToken ELSE req[r].token]]
          /\ Go(r, "ok")
          /\ UNCHANGED <<users, owner, role, token, device, code, who, owed>>
     ELSE Refuse(r)

-------------------------------------------------------------------------------
(* Failures, restarts and time. *)

\* A request that fails at its first statement might as well not be sent.
InProgress(r) == pc[r] \notin Over \cup {"new", "cutting"}

\* A statement fails, or the client goes and its context ends it: the deferred Rollback
\* frees the locks of the transaction.
Fails(r) == InProgress(r) /\ Go(r, "failed") /\ UNCHANGED <<database, who, owed>>

\* A Redeem and a DeleteSpace that wait for each other: PostgreSQL fails one of them.
Deadlocked(r) ==
  /\ pc[r] = "locked"
  /\ \E q \in Request \ {r} :
       /\ pc[q] = "locked" /\ req[q].op # req[r].op
       /\ \E a, b \in {q, r} : req[a].op = "redeem" /\ req[b].op = "deleteSpace"
                              /\ code[req[a].code].space = req[b].space

DeadlockVictim(r) == Deadlocked(r) /\ Go(r, "failed") /\ UNCHANGED <<database, who, owed>>

\* The Hub stops: its handlers end where they are and no device stays connected.
Restart ==
  /\ restarts < MaxRestarts
  /\ restarts' = restarts + 1
  /\ pc' = [r \in Request |-> IF pc[r] \in Over \cup {"new"} THEN pc[r] ELSE "lost"]
  /\ owed' = [r \in Request |-> {}]
  /\ cut' = Gone
  /\ UNCHANGED <<database, req, who>>

TokenExpires(t) ==
  /\ token[t].state = "live" /\ token' = [token EXCEPT ![t].state = "expired"]
  /\ UNCHANGED <<users, owner, role, session, device, code, handlers>>

SessionLapses(s) ==
  /\ session[s].state = "live" /\ session' = [session EXCEPT ![s].state = "lapsed"]
  /\ UNCHANGED <<users, owner, role, token, device, code, handlers>>

CodeExpires(c) ==
  /\ code[c].state = "open" /\ code' = [code EXCEPT ![c].state = "expired"]
  /\ UNCHANGED <<users, owner, role, token, session, device, handlers>>

\* What the handler of r does next, whatever its operation.
Advance(r) ==
  \/ Authenticate(r) \/ Authorize(r) \/ Logout(r) \/ CreateToken(r) \/ RevokeToken(r)
  \/ CreateSpace(r) \/ AddMember(r) \/ FirstToken(r) \/ AddGithubMember(r)
  \/ ChangeMember(r) \/ RemoveMember(r) \/ CreateDevice(r) \/ CreatePairing(r)
  \/ RedeemLock(r) \/ RedeemCommit(r) \/ RedeemIssue(r) \/ RevokeDevice(r)
  \/ DeleteSpaceLock(r) \/ DeleteSpaceCommit(r) \/ Acknowledged(r) \/ CutDone(r)
  \/ TokenUser(r) \/ GithubUser(r) \/ EnsureSpace(r) \/ EnsureMember(r) \/ NewSession(r)

Time == \/ \E t \in Token : TokenExpires(t)
        \/ \E s \in Session : SessionLapses(s)
        \/ \E c \in Code : CodeExpires(c)

\* Every step but a restart, which the terminals do not survive either.
Serve ==
  \/ \E r \in Request : (Advance(r) \/ Fails(r) \/ DeadlockVictim(r)) /\ UNCHANGED <<req, cut, restarts>>
  \/ \E r \in Request : Cut(r) /\ UNCHANGED <<req, restarts>>
  \/ Time /\ UNCHANGED <<req, cut, restarts>>

Next == Serve \/ Restart

\* A handler that can go on does so in the end, and PostgreSQL looks for deadlocks.
Progress ==
  \/ \E r \in Request : (Advance(r) \/ DeadlockVictim(r)) /\ UNCHANGED <<req, cut, restarts>>
  \/ \E r \in Request : Cut(r) /\ UNCHANGED <<req, restarts>>

Fairness == WF_accounts(Progress)
Spec == Init /\ [][Next]_accounts /\ Fairness

\* Every request is answered, although a Redeem and a DeleteSpace may each hold the row the
\* other waits for.  (store.go: RedeemDevicePairing, DeleteSpace)
RequestsFinish == <>(\A r \in Request : pc[r] \in Over)
===============================================================================
