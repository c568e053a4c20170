------------------------------ MODULE Sessions ------------------------------
(***************************************************************************)
(* Who may call the API: accounts, invitations, sessions and their tokens, *)
(* and the web client that keeps and renews them.                          *)
(*                                                                         *)
(* A call belongs to a tab.  The tabs of a browser share one token store,  *)
(* so one tab may use, renew or drop the tokens under another's feet.  The *)
(* server works on a call in several queries, and the database may change  *)
(* between any two of them.                                                *)
(***************************************************************************)
EXTENDS Integers, Sequences

CONSTANTS
  Users,        \* rows of the User table, those still to be created included
  Owner,        \* Owner[b] is the user signed in, at first, in browser b
  Admins,       \* the seeded administrators
  Tabs, BrowserOf,              \* tabs, and the browser each belongs to
  Invitations, AddressOf,       \* invitations, and the e-mail each is sent to
  Invited,      \* the invitations that are open at first
  May,          \* May[t]: the calls the user of tab t may make
  MaxCalls,     \* bound: calls in one behaviour
  MaxLapses     \* bound: times at which tokens or sessions expire

Browsers == DOMAIN Owner
Seeded == {Owner[b] : b \in Browsers} \cup Admins

\* SUSPENDED stands for INACTIVE too: both shut out and revoke sessions.
Statuses == {"ABSENT", "ACTIVE", "SUSPENDED", "PASSWORD_RESET_REQUIRED"}
Roles == {"ADMIN", "OPERATOR"}

Public == {"login", "accept"}
Privileged == {"status", "role", "invite", "operator"}
Operations == Public \cup Privileged \cup {"me", "read", "logout", "logoutAll"}

\* What a call asks for: an operation on a user or an invitation, and the
\* status or role to give the user.
Goal == [op: Operations, of: Users \cup Invitations, to: Statuses \cup Roles]

\* The DTOs leave no room for others.
IsGoal(g) ==
  /\ g.of \in IF g.op \in {"accept", "invite"} THEN Invitations ELSE Users
  /\ g.op = "status" => g.to \in Statuses \ {"ABSENT"}
  /\ g.op = "role" => g.to \in Roles

\* The pair of tokens of one answer: the access token names the user and the
\* session, the refresh token is the random number n.
Tokens == [user: Users, session: Nat, n: Nat]
NoToken == [session |-> 0]
NoInvitation == "none"

\* Grounds on which a call is bound to be turned away.
Grounds == {"session", "user", "role", "access", "rotated"}

Call == [op: Operations \cup {"none"},
         pc: {"idle", "guard", "profile", "handle", "revoke", "insert", "answer",
              "refresh", "rotate", "tokens", "lookup", "open", "match", "join"},
         of: Users \cup Invitations, to: Statuses \cup Roles,
         token: Tokens \cup {NoToken},
         barred: SUBSET Grounds,   \* history: grounds that hold since it was sent
         ran: BOOLEAN]             \* history: its handler has run

ASSUME SessionsConstantsOK ==
  /\ Owner \in Seq(Users) /\ Owner # <<>> /\ Admins \subseteq Users
  /\ BrowserOf \in [Tabs -> Browsers] /\ May \in [Tabs -> SUBSET Goal]
  /\ \A t \in Tabs : \A g \in May[t] : IsGoal(g)
  /\ Invited \subseteq Invitations
  /\ NoInvitation \notin Invitations
  /\ MaxCalls \in Nat /\ MaxLapses \in Nat

VARIABLES
  user,        \* the User table
  profile,     \* the OperatorProfile table: the users of its rows, by caller
  invitation,  \* the UserInvitation table
  session,     \* the Session table, by the number of its first refresh token
  minted,      \* refresh tokens created so far
  lapsed,      \* the last access and refresh tokens that are too old
  storage,     \* the token store of a browser
  call,        \* what a tab is waiting for
  calls, lapses

tables == <<user, profile, invitation, session>>
vars == <<tables, minted, lapsed, storage, call, calls, lapses>>

\* What the JWT guard, refresh and findActiveByEmail insist on.
IsActive(u) == user[u].status = "ACTIVE"
Unrevoked(s) == s \in DOMAIN session /\ ~session[s].revoked
IsLive(s) == Unrevoked(s) /\ session[s].token > lapsed.session

\* Of the seeded roles only SUPER_ADMIN (here ADMIN) may touch accounts.
Grants == [ADMIN |-> Operations, OPERATOR |-> Operations \ Privileged]

\* RequirePermissions: the role of the profile just read grants the operation.
Permitted(op, u) == op \in Grants[user[u].role]

Stored(t) == storage[BrowserOf[t]]

Holds(g, op, tk) ==
  CASE g = "session" -> session[tk.session].revoked
    [] g = "user"    -> ~IsActive(tk.user)
    [] g = "role"    -> ~Permitted(op, tk.user)
    [] g = "access"  -> tk.n <= lapsed.access
    [] g = "rotated" -> session[tk.session].token # tk.n

SignsOut(op) == op \in {"logout", "logoutAll"}

NoCall == [op |-> "none", pc |-> "idle", of |-> Owner[1], to |-> "ABSENT",
           token |-> NoToken, barred |-> {}, ran |-> FALSE]

At(t, pc) == call[t].pc = pc
Goto(t, pc) == call' = [call EXCEPT ![t].pc = pc]
End(t) == call' = [call EXCEPT ![t] = NoCall]
Answer(t) == call' = [call EXCEPT ![t].pc = "answer", ![t].ran = TRUE]

\* fetch: the request leaves with the tokens the browser holds by then.
Sent(c, tk, pc, grounds) ==
  [c EXCEPT !.pc = pc, !.token = tk,
            !.barred = IF tk = NoToken THEN {} ELSE {g \in grounds : Holds(g, c.op, tk)}]

Fetch(t, c) == Sent(c, Stored(t), "guard", Grounds \ {"rotated"})

\* Mutant: without a refresh token the client just tries again.
RefreshingOrRetrying(t, c) ==
  IF Stored(t) = NoToken THEN Fetch(t, c)
  ELSE Sent(c, Stored(t), "refresh", {"session", "user", "rotated"})

\* refreshSession: gives up when the browser has no refresh token.
Refreshing(t, c) ==
  IF Stored(t) = NoToken THEN NoCall
  ELSE Sent(c, Stored(t), "refresh", {"session", "user", "rotated"})

\* Mutant: the client tries again whenever it gets no answer.
FailedRetrying(t) ==
  IF SignsOut(call[t].op) THEN [call[t] EXCEPT !.pc = "answer"]
  ELSE Fetch(t, call[t])

\* The client's reaction to a failed call: logout clears the tokens anyway,
\* bootstrapSession tries to refresh them, everything else reports the error.
Failed(t) ==
  CASE SignsOut(call[t].op) -> [call[t] EXCEPT !.pc = "answer"]
    [] call[t].op = "me" -> Refreshing(t, call[t])
    [] OTHER -> NoCall

\* ... and to a 401, on which authenticatedRequest refreshes the tokens.
Unauthorized(t) ==
  call' = [call EXCEPT ![t] =
    IF SignsOut(call[t].op) THEN Failed(t) ELSE Refreshing(t, call[t])]

Init ==
  /\ user = [u \in Users |-> [status |-> IF u \in Seeded THEN "ACTIVE" ELSE "ABSENT",
                              role   |-> IF u \in Admins THEN "ADMIN" ELSE "OPERATOR",
                              via    |-> NoInvitation]]
  /\ profile = {}
  /\ invitation = [i \in Invitations |-> IF i \in Invited THEN "OPEN" ELSE "ABSENT"]
  /\ session = [b \in Browsers |-> [user |-> Owner[b], token |-> b, revoked |-> FALSE]]
  /\ minted = Len(Owner)
  /\ lapsed = [access |-> 0, session |-> 0]
  /\ storage = [b \in Browsers |-> [user |-> Owner[b], session |-> b, n |-> b]]
  /\ call = [t \in Tabs |-> NoCall]
  /\ calls = 0 /\ lapses = 0

(***************************************************************************)
(* The tab starts a call.                                                  *)
(***************************************************************************)
Submit(t) ==
  /\ At(t, "idle") /\ calls < MaxCalls
  /\ calls' = calls + 1
  /\ \E g \in May[t] :
       LET c == [NoCall EXCEPT !.op = g.op, !.of = g.of, !.to = g.to] IN
         call' = [call EXCEPT ![t] =
           CASE g.op = "login"  -> [c EXCEPT !.pc = "lookup"]
             [] g.op = "accept" -> [c EXCEPT !.pc = "match"]
             [] SignsOut(g.op) /\ Stored(t) = NoToken -> [c EXCEPT !.pc = "answer"]
             [] OTHER -> Fetch(t, c)]
  /\ UNCHANGED <<tables, minted, lapsed, storage, lapses>>

(***************************************************************************)
(* The guards: two queries, and the permissions of the profile.            *)
(***************************************************************************)
\* Mutant: a signed access token is enough, whatever became of its session.
AdmitsAnySession(tk) == tk # NoToken /\ tk.n > lapsed.access

Admits(tk) == tk # NoToken /\ tk.n > lapsed.access /\ IsLive(tk.session)

FindSession(t) ==
  /\ At(t, "guard")
  /\ IF Admits(call[t].token) THEN Goto(t, "profile") ELSE Unauthorized(t)
  /\ UNCHANGED <<tables, minted, lapsed, storage, calls, lapses>>

FindAuthProfile(t) ==
  /\ At(t, "profile")
  /\ LET u == call[t].token.user IN
       IF ~IsActive(u) THEN Unauthorized(t)
       ELSE IF Permitted(call[t].op, u) THEN Goto(t, "handle") ELSE End(t)
  /\ UNCHANGED <<tables, minted, lapsed, storage, calls, lapses>>

(***************************************************************************)
(* The handlers.                                                           *)
(***************************************************************************)
Read(t) ==
  /\ At(t, "handle") /\ call[t].op \in {"me", "read"}
  /\ Answer(t)
  /\ UNCHANGED <<tables, minted, lapsed, storage, calls, lapses>>

Revoke(scope) == session' = [s \in DOMAIN session |->
  [session[s] EXCEPT !.revoked = @ \/ s \in scope]]

SessionsOf(u) == {s \in DOMAIN session : session[s].user = u}

Logout(t) ==
  /\ At(t, "handle") /\ SignsOut(call[t].op)
  /\ Revoke(IF call[t].op = "logout" THEN {call[t].token.session}
            ELSE SessionsOf(call[t].token.user))
  /\ Answer(t)
  /\ UNCHANGED <<user, profile, invitation, minted, lapsed, storage, calls, lapses>>

\* What still bars a call once user u is as the new row says.
StillBarred(t, u, row) ==
  IF call[t].token = NoToken \/ call[t].token.user # u THEN call[t].barred
  ELSE call[t].barred \ ((IF row.status = "ACTIVE" THEN {"user"} ELSE {})
                         \cup (IF row.role = "ADMIN" THEN {"role"} ELSE {}))

Write(t, u, row, pc) ==
  /\ user' = [user EXCEPT ![u] = row]
  /\ call' = [x \in Tabs |-> LET c == [call[x] EXCEPT !.barred = StillBarred(x, u, row)] IN
                IF x = t THEN [c EXCEPT !.pc = pc, !.ran = TRUE] ELSE c]

\* updateStatus: nobody disables the own account; a suspension revokes the
\* sessions in a second statement.
UpdateStatus(t) ==
  LET c == call[t] IN
  /\ At(t, "handle") /\ c.op = "status"
  /\ IF user[c.of].status = "ABSENT" \/ (c.of = c.token.user /\ c.to # "ACTIVE")
     THEN Answer(t) /\ UNCHANGED user
     ELSE Write(t, c.of, [user[c.of] EXCEPT !.status = c.to],
                IF c.to = "SUSPENDED" THEN "revoke" ELSE "answer")
  /\ UNCHANGED <<profile, invitation, session, minted, lapsed, storage, calls, lapses>>

RevokeSessions(t) ==
  /\ At(t, "revoke")
  /\ Revoke(SessionsOf(call[t].of))
  /\ Answer(t)
  /\ UNCHANGED <<user, profile, invitation, minted, lapsed, storage, calls, lapses>>

UpdateRole(t) ==
  LET c == call[t] IN
  /\ At(t, "handle") /\ c.op = "role"
  /\ IF user[c.of].status = "ABSENT" THEN Answer(t) /\ UNCHANGED user
     ELSE Write(t, c.of, [user[c.of] EXCEPT !.role = c.to], "answer")
  /\ UNCHANGED <<profile, invitation, session, minted, lapsed, storage, calls, lapses>>

\* A user with the address of invitation i.
Taken(i) == \E u \in Users : user[u].via # NoInvitation /\ AddressOf[user[u].via] = AddressOf[i]

HasProfile(u) == \E p \in profile : p.user = u

\* invite and operators.create look first ...
CheckFirst(t) ==
  LET c == call[t] IN
  /\ At(t, "handle") /\ c.op \in {"invite", "operator"}
  /\ IF \/ c.op = "invite" /\ Taken(c.of)
        \/ c.op = "operator" /\ (user[c.of].status = "ABSENT" \/ HasProfile(c.of))
     THEN Answer(t)
     ELSE call' = [call EXCEPT ![t].pc = "insert", ![t].ran = TRUE]
  /\ UNCHANGED <<tables, minted, lapsed, storage, calls, lapses>>

\* ... and insert later.  A random token makes the invitation a new row.
CreateInvitation(t) ==
  /\ At(t, "insert") /\ call[t].op = "invite"
  /\ LET unused == {i \in Invitations : /\ invitation[i] = "ABSENT"
                                        /\ AddressOf[i] = AddressOf[call[t].of]} IN
       invitation' = IF unused = {} THEN invitation   \* bound: rows to create
                     ELSE [invitation EXCEPT ![CHOOSE i \in unused : TRUE] = "OPEN"]
  /\ Answer(t)
  /\ UNCHANGED <<user, profile, session, minted, lapsed, storage, calls, lapses>>

\* OperatorProfile.userId is unique.
ProfileUnique(u) == ~HasProfile(u)

CreateOperator(t) ==
  /\ At(t, "insert") /\ call[t].op = "operator"
  /\ profile' = IF ProfileUnique(call[t].of)
                THEN profile \cup {[user |-> call[t].of, by |-> t]} ELSE profile
  /\ Answer(t)
  /\ UNCHANGED <<user, invitation, session, minted, lapsed, storage, calls, lapses>>

\* The client gets the answer; a sign-out clears its tokens.
Receive(t) ==
  /\ At(t, "answer")
  /\ storage' = IF SignsOut(call[t].op)
                THEN [storage EXCEPT ![BrowserOf[t]] = NoToken] ELSE storage
  /\ End(t)
  /\ UNCHANGED <<tables, minted, lapsed, calls, lapses>>

(***************************************************************************)
(* Tokens are handed out by login and by refresh.                          *)
(***************************************************************************)
FindActiveByEmail(t) ==
  /\ At(t, "lookup")
  /\ IF IsActive(call[t].of) THEN Goto(t, "open") ELSE End(t)
  /\ UNCHANGED <<tables, minted, lapsed, storage, calls, lapses>>

\* Mutant: the new refresh token is not new.
IssueAgain(t, u, s) ==
  /\ UNCHANGED minted
  /\ call' = [call EXCEPT ![t].pc = "tokens",
                          ![t].token = [user |-> u, session |-> s, n |-> minted]]

Issue(t, u, s) ==
  /\ minted' = minted + 1
  /\ call' = [call EXCEPT ![t].pc = "tokens",
                          ![t].token = [user |-> u, session |-> s, n |-> minted + 1]]

CreateSession(t) ==
  LET row == [user |-> call[t].of, token |-> minted + 1, revoked |-> FALSE] IN
  /\ At(t, "open")
  /\ session' = [s \in DOMAIN session \cup {minted + 1} |->
                   IF s = minted + 1 THEN row ELSE session[s]]
  /\ Issue(t, call[t].of, minted + 1)
  /\ UNCHANGED <<user, profile, invitation, lapsed, storage, calls, lapses>>

\* Mutant: the refresh token a session had before is still good.
RedeemsForever(tk) == IsLive(tk.session) /\ tk.n <= session[tk.session].token /\ IsActive(tk.user)

\* findSessionByRefreshToken among the active sessions of active users.
Redeems(tk) == IsLive(tk.session) /\ tk.n = session[tk.session].token /\ IsActive(tk.user)

FindSessionByRefreshToken(t) ==
  /\ At(t, "refresh")
  /\ IF Redeems(call[t].token)
     THEN Goto(t, "rotate") /\ UNCHANGED storage
     ELSE storage' = [storage EXCEPT ![BrowserOf[t]] = NoToken] /\ End(t)
  /\ UNCHANGED <<tables, minted, lapsed, calls, lapses>>

\* The rotation goes by the id of the session, whatever became of it.
Rotate(t) ==
  LET s == call[t].token.session IN
  /\ At(t, "rotate")
  /\ session' = [session EXCEPT ![s].token = minted + 1]
  /\ Issue(t, call[t].token.user, s)
  /\ UNCHANGED <<user, profile, invitation, lapsed, storage, calls, lapses>>

\* The client saves what it got; authenticatedRequest starts over with it.
SaveTokens(t) ==
  LET c == call[t] IN
  /\ At(t, "tokens")
  /\ storage' = [storage EXCEPT ![BrowserOf[t]] = c.token]
  /\ call' = [call EXCEPT ![t] = IF c.op \in {"login", "me"} THEN NoCall
                                 ELSE Sent(c, c.token, "guard", Grounds \ {"rotated"})]
  /\ UNCHANGED <<tables, minted, lapsed, calls, lapses>>

(***************************************************************************)
(* An invited person creates the account.                                  *)
(***************************************************************************)
FindInvitation(t) ==
  /\ At(t, "match")
  /\ IF invitation[call[t].of] = "OPEN" THEN Goto(t, "join") ELSE End(t)
  /\ UNCHANGED <<tables, minted, lapsed, storage, calls, lapses>>

\* Mutant: no unique index on the e-mail of a user.
JoinsUnchecked(i) == \E u \in Users : user[u].status = "ABSENT"

\* The e-mail of a user is unique in an organization.
Joins(i) == ~Taken(i) /\ \E u \in Users : user[u].status = "ABSENT"

AcceptInvite(t) ==
  LET i == call[t].of
      u == CHOOSE x \in Users : user[x].status = "ABSENT" IN
  /\ At(t, "join")
  /\ IF Joins(i)
     THEN /\ user' = [user EXCEPT ![u] = [status |-> "ACTIVE", role |-> "OPERATOR", via |-> i]]
          /\ invitation' = [invitation EXCEPT ![i] = "ACCEPTED"]
     ELSE UNCHANGED <<user, invitation>>
  /\ End(t)
  /\ UNCHANGED <<profile, session, minted, lapsed, storage, calls, lapses>>

(***************************************************************************)
(* Faults and time.                                                        *)
(***************************************************************************)
\* The server dies, or its answer is lost: the client sees fetch fail, and
\* refreshSession takes that for a refusal.
Lose(t) ==
  /\ call[t].pc # "idle"
  /\ ~(At(t, "answer") /\ SignsOut(call[t].op))
  /\ IF \/ call[t].pc \in {"refresh", "rotate"}
        \/ At(t, "tokens") /\ call[t].op # "login"
     THEN storage' = [storage EXCEPT ![BrowserOf[t]] = NoToken] /\ End(t)
     ELSE UNCHANGED storage /\ call' = [call EXCEPT ![t] = Failed(t)]
  /\ UNCHANGED <<tables, minted, lapsed, calls, lapses>>

\* A TTL goes by, that of access tokens or that of sessions: what was issued
\* until now is too old, what is issued next is not.
Lapse(what) ==
  /\ lapses < MaxLapses /\ lapses' = lapses + 1
  /\ lapsed' = [lapsed EXCEPT ![what] = minted]
  /\ UNCHANGED <<tables, minted, storage, call, calls>>

Step(t) ==
  \/ FindSession(t) \/ FindAuthProfile(t)
  \/ Read(t) \/ Logout(t) \/ UpdateStatus(t) \/ RevokeSessions(t) \/ UpdateRole(t)
  \/ CheckFirst(t) \/ CreateInvitation(t) \/ CreateOperator(t) \/ Receive(t)
  \/ FindActiveByEmail(t) \/ CreateSession(t)
  \/ FindSessionByRefreshToken(t) \/ Rotate(t) \/ SaveTokens(t)
  \/ FindInvitation(t) \/ AcceptInvite(t)

Next ==
  \/ \E t \in Tabs : Submit(t) \/ Step(t) \/ Lose(t)
  \/ \E what \in {"access", "session"} : Lapse(what)

\* A call the event loop works on goes on; nobody has to start one.
Spec == Init /\ [][Next]_vars /\ \A t \in Tabs : WF_vars(Step(t))
(***************************************************************************)
(* Properties.                                                             *)
(***************************************************************************)
TypeOK ==
  /\ user \in [Users -> [status: Statuses, role: Roles, via: Invitations \cup {NoInvitation}]]
  /\ profile \subseteq [user: Users, by: Tabs]
  /\ invitation \in [Invitations -> {"ABSENT", "OPEN", "ACCEPTED"}]
  /\ DOMAIN session \subseteq 1 .. minted
  /\ session \in [DOMAIN session -> [user: Users, token: 1 .. minted, revoked: BOOLEAN]]
  /\ minted \in Nat
  /\ lapsed \in [access: 0 .. minted, session: 0 .. minted]
  /\ storage \in [Browsers -> Tokens \cup {NoToken}]
  /\ call \in [Tabs -> Call]
  /\ calls \in 0 .. MaxCalls /\ lapses \in 0 .. MaxLapses

\* The guards admit no call that was hopeless when the client sent it: one of
\* a session signed out or revoked by then, of a user no longer active, with
\* an expired access token or without the role, unless an administrator lifted
\* that meanwhile.  The guards look at session, user and role one after the
\* other, while logouts, suspensions, role changes and rotations go on.
NoLateEntry ==
  \A t \in Tabs : call[t].pc \in {"handle", "revoke", "insert"} => call[t].barred = {}

\* Nor does refresh rotate a session for a token that had been redeemed, or
\* whose session or user had been shut out, when the client sent it.  Two
\* refreshes at once may redeem one token, a later one may not.
NoReplay == \A t \in Tabs : At(t, "rotate") => call[t].barred = {}

\* An invitation is marked accepted if and only if it made an account, and
\* an address has one account at most, however many of its invitations are
\* accepted at once.
AcceptedOnce ==
  /\ \A i \in Invitations :
       invitation[i] = "ACCEPTED" <=> \E u \in Users : user[u].via = i
  /\ \A u, v \in Users :
       /\ user[u].via # NoInvitation /\ user[v].via # NoInvitation
       /\ AddressOf[user[u].via] = AddressOf[user[v].via]
       => u = v

\* Concurrent requests to make a user an operator make one profile.
OneProfilePerUser == \A p, q \in profile : p.user = q.user => p = q

\* authenticatedRequest sends a call again after a 401 only, that is, before
\* its handler ran: renewing tokens on the way never does the work twice.
HandledOnce == \A t \in Tabs : call[t].pc \in {"guard", "profile", "handle"} => ~call[t].ran

\* The accounts, invitations and sessions that Access is about.
Members == {u \in Users : user[u].status # "ABSENT"}
Joined == {[user |-> u, by |-> user[u].via] : u \in {v \in Users : user[v].via # NoInvitation}}
InvitationsIn(statuses) == {i \in Invitations : invitation[i] \in statuses}
Tickets == {[id |-> s, user |-> session[s].user, token |-> session[s].token,
             ended |-> session[s].revoked] : s \in DOMAIN session}

TheAccess == INSTANCE Access WITH
  members <- Members, joined <- Joined, appointed <- profile, Clerks <- Tabs,
  invited <- InvitationsIn({"OPEN", "ACCEPTED"}), accepted <- InvitationsIn({"ACCEPTED"}),
  tickets <- Tickets, issued <- 1 .. minted

\* Logins, rotations, logouts and suspensions that go by what was read before,
\* and invitations and appointments checked before they are made, keep the
\* promises of Access.
ImplementsAccess == TheAccess!Spec

\* Every call ends, although a client that is refused renews its tokens and
\* starts over, provided that tokens do not expire for ever faster than that.
EveryCallEnds == \A t \in Tabs : ~At(t, "idle") ~> At(t, "idle")
=============================================================================
