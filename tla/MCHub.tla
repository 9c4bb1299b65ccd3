--------------------------------- MODULE MCHub ---------------------------------
(***************************************************************************)
(* Two instances that share no state, in one run: the Hub's tables, requests *)
(* and one terminal view (TerminalSession over Accounts), and the credential  *)
(* of a machine (DeviceCredential).  A behaviour is of one part; the other    *)
(* one stays as it starts.                                                   *)
(***************************************************************************)
EXTENDS TerminalSession, DeviceCredential, Sequences, TLC

CONSTANTS
  u1, u2, u3, h1, h2, h3, team, lab, s1, s2, s3, t1, t2, d1, d2, d3, p1, p2

VARIABLE part

MCHome == (u1 :> h1) @@ (u2 :> h2) @@ (u3 :> h3)
MCPage == {[session |-> s2, device |-> d1]}

Ask(op) == [op |-> op, session |-> s1, space |-> team, user |-> u2, role |-> "viewer",
            token |-> t1, code |-> p1, device |-> d1]
By(r, s)    == [r EXCEPT !.session = s]
With(r, d)  == [r EXCEPT !.device = d]
For(r, u)   == [r EXCEPT !.user = u]

NoSession == [user |-> NoUser, source |-> NoToken, state |-> "none"]
NoLogin   == [user |-> NoUser, state |-> "none"]

\* u1 owns the team and is logged in, u2 is an admin of it with a login token, and the team has
\* a device and a pairing code by u2.
Tables ==
  [users    |-> {u1, u2},
   owner    |-> [s \in Space |-> IF s \in {h1, team} THEN u1 ELSE NoUser],
   role     |-> [s \in Space |-> [u \in User |->
                  IF u = u1 /\ s \in {h1, team} THEN "owner"
                  ELSE IF u = u2 /\ s = team THEN "admin" ELSE "none"]],
   token    |-> [t \in Token |-> IF t = t1 THEN [user |-> u2, state |-> "live"] ELSE NoLogin],
   session  |-> [s \in Session |-> IF s = s1 THEN [NoSession EXCEPT !.user = u1, !.state = "live"]
                                             ELSE NoSession],
   device   |-> [d \in Device |-> [space |-> team, from |-> NoCode,
                                   state |-> IF d = d1 THEN "live" ELSE "none"]],
   code     |-> [k \in Code |-> [space |-> team, by |-> u2,
                                 state |-> IF k = p1 THEN "open" ELSE "none"]],
   req      |-> [r \in Request |-> Ask("none")]]

\* The same without token and code, and with u2 logged in: its page shows d1.
Shown ==
  [Tables EXCEPT !.owner[h2] = u2, !.role[h2][u2] = "owner", !.token[t1] = NoLogin,
                 !.code[p1].state = "none",
                 !.session[s2] = [NoSession EXCEPT !.user = u2, !.state = "live"]]

\* The same with u2 logged in, elsewhere.
Away == [Tables EXCEPT !.owner[h2] = u2, !.role[h2][u2] = "owner",
                       !.session[s3] = [NoSession EXCEPT !.user = u2, !.state = "live"]]

\* At most three requests at once.
Web(tables, asked) ==
  [tables EXCEPT !.req = [r \in Request |-> IF r <= Len(asked) THEN asked[r] ELSE Ask("none")]]

MCWorld == {
  \* the first logins of u2, at once
  Web(Tables, <<By(Ask("tokenLogin"), s2), By(Ask("githubLogin"), s3)>>),
  \* a login with a token that is being revoked
  Web(Away, <<By(Ask("tokenLogin"), s2), By(Ask("revokeToken"), s3),
             [By(Ask("createToken"), s3) EXCEPT !.token = t2]>>),
  \* a code redeemed twice while its space is deleted
  Web(Tables, <<With(Ask("redeem"), d2), With(Ask("redeem"), d3), Ask("deleteSpace")>>),
  \* a device revoked and another one created while their space is deleted
  Web(Tables, <<Ask("revokeDevice"), With(Ask("createDevice"), d2), Ask("deleteSpace")>>),
  \* a member removed while it creates a code, which is redeemed
  Web(Away, <<[By(Ask("createPairing"), s3) EXCEPT !.code = p2],
             [With(Ask("redeem"), d2) EXCEPT !.code = p2], Ask("removeMember")>>),
  \* a member added, its first login, and its logout
  Web(Tables, <<[For(Ask("addMember"), u3) EXCEPT !.token = t2],
               [By(Ask("tokenLogin"), s2) EXCEPT !.token = t2], By(Ask("logout"), s2)>>),
  \* the owner made a viewer and removed, and its home deleted
  Web(Tables, <<For(Ask("changeMember"), u1), For(Ask("removeMember"), u1),
               [Ask("deleteSpace") EXCEPT !.space = h1]>>),
  \* a member added to a new space, and removed from another
  Web(Tables, <<[Ask("createSpace") EXCEPT !.space = lab],
               [Ask("addGithubMember") EXCEPT !.space = lab], Ask("removeMember")>>),
  \* the membership or the session behind an open terminal taken away
  Web(Shown, <<Ask("removeMember")>>),
  Web(Shown, <<By(Ask("logout"), s2)>>),
  \* nothing asked
  Web(Tables, <<>>)}

all == <<hub, credential, part>>

\* The machine's part runs over tables that nobody asks anything of.
HubInit ==
  /\ part \in {"web", "machine"} /\ TerminalInit /\ CredentialInit
  /\ part = "machine" <=> \A r \in Request : pc[r] = "absent"
  /\ part = "web" => file = Nothing /\ ~spare

HubNext ==
  \/ part = "web" /\ TerminalNext /\ UNCHANGED <<credential, part>>
  \/ part = "machine" /\ CredentialNext /\ UNCHANGED <<hub, part>>

MCSpec == HubInit /\ [][HubNext]_all /\ Fairness /\ TerminalFairness

TypesOK == TypeOK /\ TerminalTypeOK /\ CredentialTypeOK
===============================================================================
