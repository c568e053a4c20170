--------------------------- MODULE SessionsProofs ---------------------------
(***************************************************************************)
(* Theorems about accounts, sessions and tokens, for every set of users,   *)
(* browsers, tabs and invitations, and any number of calls.                *)
(***************************************************************************)
EXTENDS Sessions, TLAPS

-----------------------------------------------------------------------------
(* The invariant. *)

TablesType ==
  /\ user \in [Users -> [status: Statuses, role: Roles, via: Invitations \cup {NoInvitation}]]
  /\ invitation \in [Invitations -> {"ABSENT", "OPEN", "ACCEPTED"}]
  /\ DOMAIN session \subseteq 1 .. minted
  /\ session \in [DOMAIN session -> [user: Users, token: 1 .. minted, revoked: BOOLEAN]]
  /\ minted \in Nat
  /\ lapsed \in [access: 0 .. minted, session: 0 .. minted]

ProfileType == profile \subseteq [user: Users, by: Tabs]

BoundsType == calls \in 0 .. MaxCalls /\ lapses \in 0 .. MaxLapses

\* Tokens that were issued, for a session and a user that exist.
TokenOK(tk) ==
  tk # NoToken => /\ tk \in Tokens /\ tk.session \in DOMAIN session /\ tk.n \in 1 .. minted
                  /\ user[tk.user].status # "ABSENT"

StorageInv == storage \in [Browsers -> Tokens \cup {NoToken}] /\ \A b \in Browsers : TokenOK(storage[b])

\* A ground on which a call was hopeless when sent still holds, and the checks
\* it has passed rule grounds out.
BarredOK(c) ==
  /\ \A g \in c.barred : c.token # NoToken /\ Holds(g, c.op, c.token)
  /\ c.pc = "guard" => "rotated" \notin c.barred
  /\ c.pc \in {"lookup", "open"} => c.barred = {}
  /\ c.pc = "profile" => c.token # NoToken /\ c.barred \subseteq {"user", "role"}
  /\ c.pc \in {"handle", "revoke", "insert"} => c.token # NoToken /\ c.barred = {}
  /\ c.pc = "refresh" => c.token # NoToken /\ c.barred \subseteq {"session", "user", "rotated"}
  /\ c.pc = "rotate" => c.token # NoToken /\ c.barred = {}
  /\ c.pc = "tokens" => c.token # NoToken

\* What a call is about.
AimOK(c) ==
  /\ c.pc # "idle" => c.op # "none" /\ IsGoal(c)
  /\ c.pc \in {"match", "join"} => c.op = "accept"
  /\ c.pc \in {"lookup", "open"} => c.op = "login"
  /\ c.pc = "open" => user[c.of].status # "ABSENT"
  /\ c.pc = "insert" /\ c.op = "operator" => user[c.of].status # "ABSENT"
  /\ c.pc = "join" => invitation[c.of] # "ABSENT"

RanOK(c) ==
  /\ c.pc \in {"guard", "profile", "handle"} => ~c.ran
  /\ c.pc \in {"refresh", "rotate", "tokens", "lookup", "open"} /\ c.op # "me" => ~c.ran

CallOK(c) == c \in Call /\ TokenOK(c.token) /\ BarredOK(c) /\ AimOK(c) /\ RanOK(c)

CallsInv == call \in [Tabs -> Call] /\ \A t \in Tabs, c \in Call : c = call[t] => CallOK(c)

\* No account is made for a row that is not there.
AccountInv == AcceptedOnce /\ \A u \in Users : user[u].status = "ABSENT" => user[u].via = NoInvitation

SessionsInv ==
  /\ TablesType /\ ProfileType /\ BoundsType
  /\ StorageInv /\ CallsInv /\ AccountInv /\ OneProfilePerUser

-----------------------------------------------------------------------------
(* What the world may do to a call that waits. *)

\* Sessions are never restored, accounts and invitations never removed; numbers
\* only grow.
Later ==
  /\ DOMAIN session \subseteq DOMAIN session'
  /\ \A s \in DOMAIN session : /\ session[s].revoked => session'[s].revoked
                               /\ session'[s].token = session[s].token \/ session'[s].token > minted
  /\ minted <= minted' /\ minted' \in Nat
  /\ lapsed.access <= lapsed'.access /\ lapsed'.access \in Nat
  /\ \A u \in Users : user[u].status # "ABSENT" => user'[u].status # "ABSENT"
  /\ \A i \in Invitations : invitation[i] # "ABSENT" => invitation'[i] # "ABSENT"

LEMMA GrantsOf ==
  ASSUME NEW r \in Roles
  PROVE  Grants[r] = IF r = "ADMIN" THEN Operations ELSE Operations \ Privileged
  <1>1. CASE r = "ADMIN"
    BY <1>1 DEF Grants
  <1>2. CASE r = "OPERATOR"
    BY <1>2 DEF Grants
  <1>3. QED BY <1>1, <1>2 DEF Roles

LEMMA LaterToken ==
  ASSUME TablesType, Later, NEW tk, TokenOK(tk)
  PROVE  TokenOK(tk)'
  <1> SUFFICES ASSUME tk # NoToken
               PROVE  tk \in Tokens /\ tk.session \in DOMAIN session' /\ tk.n \in 1 .. minted'
                      /\ user'[tk.user].status # "ABSENT"
    BY DEF TokenOK
  <1>1. tk \in Tokens /\ tk.session \in DOMAIN session /\ tk.n \in 1 .. minted
        /\ user[tk.user].status # "ABSENT"
    BY DEF TokenOK
  <1>2. tk.user \in Users
    BY <1>1 DEF Tokens
  <1>3. minted \in Nat
    BY DEF TablesType
  <1>4. QED BY <1>1, <1>2, <1>3 DEF Later

\* The grounds that concern sessions and tokens stay once they are there.
LEMMA LaterHolds ==
  ASSUME TablesType, Later, NEW tk, tk # NoToken, TokenOK(tk), NEW op, NEW g \in Grounds,
         Holds(g, op, tk), g = "user" => ~IsActive(tk.user)', g = "role" => ~Permitted(op, tk.user)'
  PROVE  Holds(g, op, tk)'
  <1>1. tk.session \in DOMAIN session /\ tk.n \in 1 .. minted
    BY DEF TokenOK
  <1>2. minted \in Nat /\ lapsed.access \in 0 .. minted
    BY DEF TablesType
  <1>3. CASE g = "session"
    BY <1>1, <1>3 DEF Holds, Later
  <1>4. CASE g = "user"
    BY <1>4 DEF Holds
  <1>5. CASE g = "role"
    BY <1>5 DEF Holds
  <1>6. CASE g = "access"
    <2>1. tk.n <= lapsed.access
      BY <1>6 DEF Holds
    <2>2. tk.n <= lapsed'.access
      BY <1>1, <1>2, <2>1 DEF Later
    <2>3. QED BY <1>6, <2>2 DEF Holds
  <1>7. CASE g = "rotated"
    <2>1. session[tk.session].token # tk.n
      BY <1>7 DEF Holds
    <2>2. session'[tk.session].token # tk.n
      BY <1>1, <1>2, <2>1 DEF Later
    <2>3. QED BY <1>7, <2>2 DEF Holds
  <1>8. QED BY <1>3, <1>4, <1>5, <1>6, <1>7 DEF Grounds

\* The call of a client that is not served, while no account is changed that
\* exists.
LEMMA LaterCall ==
  ASSUME TablesType, Later, NEW c, CallOK(c),
         \A u \in Users : user[u].status # "ABSENT" => user'[u] = user[u]
  PROVE  CallOK(c)'
  <1>1. c \in Call /\ c.barred \subseteq Grounds /\ c.of \in Users \cup Invitations
    BY DEF CallOK, Call
  <1>2. TokenOK(c.token)'
    BY LaterToken DEF CallOK
  <1>3. ASSUME NEW g \in c.barred PROVE Holds(g, c.op, c.token)'
    <2>1. c.token # NoToken /\ Holds(g, c.op, c.token) /\ TokenOK(c.token) /\ g \in Grounds
      BY <1>1 DEF CallOK, BarredOK
    <2>2. user'[c.token.user] = user[c.token.user]
      BY <2>1 DEF TokenOK, Tokens
    <2>3. g = "user" => ~IsActive(c.token.user)'
      BY <2>1, <2>2 DEF Holds, IsActive
    <2>4. g = "role" => ~Permitted(c.op, c.token.user)'
      BY <2>1, <2>2 DEF Holds, Permitted
    <2>5. QED BY <2>1, <2>3, <2>4, LaterHolds
  <1>4. BarredOK(c)'
    BY <1>3 DEF CallOK, BarredOK
  <1>5. AimOK(c)'
    <2>1. c.pc = "open" \/ (c.pc = "insert" /\ c.op = "operator") => c.of \in Users
      BY DEF CallOK, AimOK, IsGoal
    <2>2. c.pc = "join" => c.of \in Invitations
      BY DEF CallOK, AimOK, IsGoal
    <2>3. QED BY <2>1, <2>2 DEF CallOK, AimOK, IsGoal, Later
  <1>6. QED BY <1>2, <1>4, <1>5 DEF CallOK, RanOK

-----------------------------------------------------------------------------
(* What a client may come to wait for. *)

Aimed(c) == c \in Call /\ c.op # "none" /\ IsGoal(c)

LEMMA NoCallOK == CallOK(NoCall)
  <1>1. Owner[1] \in Users
    BY SessionsConstantsOK
  <1>2. NoCall \in Call
    BY <1>1 DEF NoCall, Call, Operations, Statuses, Roles, NoToken
  <1>3. QED BY <1>2 DEF CallOK, NoCall, TokenOK, BarredOK, AimOK, RanOK

LEMMA SentTyped ==
  ASSUME NEW c, Aimed(c), NEW tk \in Tokens \cup {NoToken},
         NEW pc \in {"guard", "refresh"}, NEW grounds \in SUBSET Grounds
  PROVE  LET s == Sent(c, tk, pc, grounds) IN
           /\ Aimed(s) /\ s.pc = pc /\ s.token = tk /\ s.op = c.op /\ s.ran = c.ran
           /\ s.barred \subseteq grounds
           /\ \A g \in s.barred : tk # NoToken /\ Holds(g, s.op, tk)
  <1> DEFINE b == IF tk = NoToken THEN {} ELSE {g \in grounds : Holds(g, c.op, tk)}
             s == [c EXCEPT !.pc = pc, !.token = tk, !.barred = b]
  <1>1. b \subseteq grounds /\ \A g \in b : tk # NoToken /\ Holds(g, c.op, tk)
    OBVIOUS
  <1>2. Sent(c, tk, pc, grounds) = s
    BY DEF Sent
  <1> HIDE DEF b
  <1>3. /\ s \in Call /\ s.pc = pc /\ s.token = tk /\ s.op = c.op /\ s.ran = c.ran /\ s.barred = b
        /\ s.of = c.of /\ s.to = c.to
    BY <1>1 DEF Aimed, Call
  <1> HIDE DEF s
  <1>4. IsGoal(c) => IsGoal(s)
    BY <1>3 DEF IsGoal
  <1>5. QED BY <1>1, <1>2, <1>3, <1>4 DEF Aimed

LEMMA SentGuard ==
  ASSUME NEW c, Aimed(c), ~c.ran, NEW tk \in Tokens \cup {NoToken}, TokenOK(tk),
         NEW grounds \in SUBSET Grounds, "rotated" \notin grounds
  PROVE  CallOK(Sent(c, tk, "guard", grounds))
  <1>1. PICK s : s = Sent(c, tk, "guard", grounds)
    OBVIOUS
  <1>2. /\ Aimed(s) /\ s.pc = "guard" /\ s.token = tk /\ ~s.ran /\ s.barred \subseteq grounds
        /\ \A g \in s.barred : tk # NoToken /\ Holds(g, s.op, tk)
    BY <1>1, SentTyped
  <1>3. CallOK(s)
    BY <1>2 DEF CallOK, BarredOK, AimOK, RanOK, Aimed
  <1>4. QED BY <1>1, <1>3

LEMMA RefreshingOK ==
  ASSUME StorageInv, NEW t \in Tabs, NEW c, Aimed(c), c.op = "me" \/ ~c.ran
  PROVE  CallOK(Refreshing(t, c))
  <1>1. Stored(t) \in Tokens \cup {NoToken} /\ TokenOK(Stored(t))
    BY SessionsConstantsOK DEF Stored, StorageInv
  <1>2. CASE Stored(t) = NoToken
    BY <1>2, NoCallOK DEF Refreshing
  <1>3. CASE Stored(t) # NoToken
    <2>1. PICK tk : tk = Stored(t)
      OBVIOUS
    <2> DEFINE grounds == {"session", "user", "rotated"}
    <2>2. grounds \subseteq Grounds
      BY DEF Grounds
    <2>3. PICK s : s = Sent(c, tk, "refresh", grounds)
      OBVIOUS
    <2> HIDE DEF grounds
    <2>4. /\ Aimed(s) /\ s.pc = "refresh" /\ s.token = tk /\ s.op = c.op /\ s.ran = c.ran
          /\ s.barred \subseteq grounds
          /\ \A g \in s.barred : tk # NoToken /\ Holds(g, s.op, tk)
      BY <1>1, <2>1, <2>2, <2>3, SentTyped
    <2>5. TokenOK(tk) /\ tk # NoToken
      BY <1>1, <1>3, <2>1
    <2>6. CallOK(s)
      BY <2>4, <2>5 DEF CallOK, BarredOK, AimOK, RanOK, Aimed, grounds
    <2>7. Refreshing(t, c) = s
      BY <1>3, <2>1, <2>3 DEF Refreshing, grounds
    <2>8. QED BY <2>6, <2>7
  <1>4. QED BY <1>2, <1>3

\* A call that goes on to another step without having been sent again.
LEMMA GoesOn ==
  ASSUME NEW c, CallOK(c), NEW new, new \in Call,
         new.op = c.op, new.of = c.of, new.to = c.to, new.token = c.token, new.barred = c.barred,
         c.pc # "idle", new.pc = "answer"
  PROVE  CallOK(new)
  <1>1. IsGoal(c) => IsGoal(new)
    BY DEF IsGoal
  <1>2. QED BY <1>1 DEF CallOK, BarredOK, AimOK, RanOK

Steps == {"idle", "guard", "profile", "handle", "revoke", "insert", "answer",
          "refresh", "rotate", "tokens", "lookup", "open", "match", "join"}

Ran(c, pc) == [c EXCEPT !.pc = pc, !.ran = TRUE]

LEMMA ToStep ==
  ASSUME NEW c \in Call, NEW pc \in Steps, NEW new, new = Ran(c, pc)
  PROVE  /\ new \in Call /\ new.pc = pc
         /\ new.op = c.op /\ new.of = c.of /\ new.to = c.to
         /\ new.token = c.token /\ new.barred = c.barred
  BY DEF Call, Steps, Ran

LEMMA JustStep ==
  ASSUME NEW c \in Call,
         NEW pc \in Steps
  PROVE  LET new == [c EXCEPT !.pc = pc] IN
           /\ new \in Call /\ new.pc = pc /\ new.ran = c.ran
           /\ new.op = c.op /\ new.of = c.of /\ new.to = c.to
           /\ new.token = c.token /\ new.barred = c.barred
  BY DEF Call, Steps

\* A client whose call fails, or is answered with a 401.
LEMMA FailedOK ==
  ASSUME StorageInv, NEW t \in Tabs, CallOK(call[t]), call[t].pc # "idle"
  PROVE  CallOK(Failed(t))
  <1>1. Aimed(call[t])
    BY DEF CallOK, AimOK, Aimed
  <1>2. CASE SignsOut(call[t].op)
    <2>1. PICK c : c = call[t]
      OBVIOUS
    <2>2. PICK new : new = [c EXCEPT !.pc = "answer"]
      OBVIOUS
    <2> c \in Call /\ CallOK(c) /\ c.pc # "idle"
      BY <1>1, <2>1 DEF Aimed
    <2>3. /\ new \in Call /\ new.pc = "answer" /\ new.op = c.op /\ new.of = c.of /\ new.to = c.to
          /\ new.token = c.token /\ new.barred = c.barred
      BY <2>2, JustStep DEF Steps
    <2>4. CallOK(new)
      BY <2>3, GoesOn
    <2>5. Failed(t) = [call[t] EXCEPT !.pc = "answer"]
      BY <1>2 DEF Failed, SignsOut
    <2>6. Failed(t) = new
      BY <2>1, <2>2, <2>5
    <2>7. QED BY <2>4, <2>6
  <1>3. CASE ~SignsOut(call[t].op) /\ call[t].op = "me"
    BY <1>1, <1>3, RefreshingOK DEF Failed
  <1>4. CASE ~SignsOut(call[t].op) /\ call[t].op # "me"
    BY <1>4, NoCallOK DEF Failed
  <1>5. QED BY <1>2, <1>3, <1>4

\* One call goes on; the rest of the world is as good as before.
LEMMA ServeStep ==
  ASSUME SessionsInv, NEW t \in Tabs, NEW new, call' = [call EXCEPT ![t] = new], CallOK(new)',
         Later, \A u \in Users : user[u].status # "ABSENT" => user'[u] = user[u],
         TablesType', ProfileType', BoundsType', StorageInv', AccountInv', OneProfilePerUser'
  PROVE  SessionsInv'
  <1>1. call \in [Tabs -> Call] /\ new \in Call
    BY DEF SessionsInv, CallsInv, CallOK
  <1>2. ASSUME NEW x \in Tabs, NEW c \in Call, c = call'[x] PROVE CallOK(c)'
    <2>1. CASE x = t
      BY <1>1, <1>2, <2>1
    <2>2. CASE x # t
      <3>1. c = call[x]
        BY <1>1, <1>2, <2>2
      <3>2. CallOK(c)
        BY <3>1 DEF SessionsInv, CallsInv
      <3>3. QED BY <3>2, LaterCall DEF SessionsInv
    <2>3. QED BY <2>1, <2>2
  <1>3. call' \in [Tabs -> Call]
    BY <1>1
  <1>4. CallsInv'
    BY <1>2, <1>3 DEF CallsInv
  <1>5. QED BY <1>4 DEF SessionsInv

\* Only the call, and what the browser keeps, change.
LEMMA CallStep ==
  ASSUME SessionsInv, NEW t \in Tabs, NEW new, call' = [call EXCEPT ![t] = new], CallOK(new),
         UNCHANGED <<tables, minted, lapsed>>, StorageInv', BoundsType'
  PROVE  SessionsInv'
  <1>1. Later
    BY DEF SessionsInv, TablesType, Later, tables
  <1>2. \A u \in Users : user[u].status # "ABSENT" => user'[u] = user[u]
    BY DEF tables
  <1>3. CallOK(new)'
    BY <1>1, <1>2, LaterCall DEF SessionsInv
  <1>4. TablesType' /\ ProfileType' /\ AccountInv' /\ OneProfilePerUser'
    BY DEF tables, SessionsInv, TablesType, ProfileType, AccountInv, AcceptedOnce, Taken, OneProfilePerUser
  <1>5. QED BY <1>1, <1>2, <1>3, <1>4, ServeStep

-----------------------------------------------------------------------------
(* Steps that change no table. *)

LEMMA CallOf ==
  ASSUME SessionsInv, NEW t \in Tabs
  PROVE  call[t] \in Call /\ CallOK(call[t])
  BY DEF SessionsInv, CallsInv

LEMMA StoredOf ==
  ASSUME SessionsInv, NEW t \in Tabs
  PROVE  Stored(t) \in Tokens \cup {NoToken} /\ TokenOK(Stored(t)) /\ BrowserOf[t] \in Browsers
  BY SessionsConstantsOK DEF SessionsInv, StorageInv, Stored

\* The step of a call that only goes on, and keeps what it is about.
LEMMA Going ==
  ASSUME SessionsInv, NEW t \in Tabs, NEW pc \in Steps, Goto(t, pc)
  PROVE  \E new \in Call :
           /\ call' = [call EXCEPT ![t] = new]
           /\ new.pc = pc /\ new.ran = call[t].ran
           /\ new.op = call[t].op /\ new.of = call[t].of /\ new.to = call[t].to
           /\ new.token = call[t].token /\ new.barred = call[t].barred
  <1>1. PICK c \in Call : c = call[t]
    BY CallOf
  <1>2. PICK new : new = [c EXCEPT !.pc = pc]
    OBVIOUS
  <1>3. /\ new \in Call /\ new.pc = pc /\ new.ran = c.ran /\ new.op = c.op /\ new.of = c.of
        /\ new.to = c.to /\ new.token = c.token /\ new.barred = c.barred
    BY <1>2, JustStep
  <1>4. call' = [call EXCEPT ![t] = new]
    BY <1>1, <1>2 DEF Goto
  <1>5. QED BY <1>1, <1>3, <1>4

\* ... or whose handler has run.
Runs(t, pc) == call' = [call EXCEPT ![t].pc = pc, ![t].ran = TRUE]

LEMMA Running ==
  ASSUME SessionsInv, NEW t \in Tabs, NEW pc \in Steps, Runs(t, pc)
  PROVE  \E new \in Call :
           /\ call' = [call EXCEPT ![t] = new]
           /\ new.pc = pc
           /\ new.op = call[t].op /\ new.of = call[t].of /\ new.to = call[t].to
           /\ new.token = call[t].token /\ new.barred = call[t].barred
  <1>1. PICK c \in Call : c = call[t]
    BY CallOf
  <1>2. PICK new : new = Ran(c, pc)
    OBVIOUS
  <1>3. /\ new \in Call /\ new.pc = pc /\ new.op = c.op /\ new.of = c.of
        /\ new.to = c.to /\ new.token = c.token /\ new.barred = c.barred
    BY <1>2, ToStep
  <1>4. call' = [call EXCEPT ![t] = new]
    BY <1>1, <1>2 DEF Runs, Ran
  <1>5. QED BY <1>1, <1>3, <1>4

LEMMA Answering ==
  ASSUME SessionsInv, NEW t \in Tabs, call[t].pc # "idle", Answer(t)
  PROVE  \E new \in Call : call' = [call EXCEPT ![t] = new] /\ CallOK(new)
  <1> "answer" \in Steps /\ Runs(t, "answer")
    BY DEF Answer, Steps, Runs
  <1>1. PICK new \in Call :
          /\ call' = [call EXCEPT ![t] = new] /\ new.pc = "answer"
          /\ new.op = call[t].op /\ new.of = call[t].of /\ new.to = call[t].to
          /\ new.token = call[t].token /\ new.barred = call[t].barred
    BY Running
  <1>2. PICK c : c = call[t]
    OBVIOUS
  <1>3. CallOK(new)
    BY <1>1, <1>2, CallOf, GoesOn
  <1>4. QED BY <1>1, <1>3

LEMMA Ending ==
  ASSUME SessionsInv, NEW t \in Tabs, End(t)
  PROVE  \E new \in Call : call' = [call EXCEPT ![t] = new] /\ CallOK(new)
  BY NoCallOK DEF End, CallOK

\* What is left when the browser and the tables are as before.
LEMMA QuietStep ==
  ASSUME SessionsInv, NEW t \in Tabs,
         \E new \in Call : call' = [call EXCEPT ![t] = new] /\ CallOK(new),
         UNCHANGED <<tables, minted, lapsed, storage, lapses>>, calls' \in 0 .. MaxCalls
  PROVE  SessionsInv'
  <1>1. PICK new \in Call : call' = [call EXCEPT ![t] = new] /\ CallOK(new)
    OBVIOUS
  <1>2. StorageInv' /\ BoundsType'
    BY DEF SessionsInv, StorageInv, BoundsType, TokenOK, tables
  <1>3. QED BY <1>1, <1>2, CallStep

LEMMA SubmitOK ==
  ASSUME SessionsInv, NEW t \in Tabs, Submit(t)
  PROVE  SessionsInv'
  <1>1. PICK g \in May[t] :
          LET c == [NoCall EXCEPT !.op = g.op, !.of = g.of, !.to = g.to] IN
            call' = [call EXCEPT ![t] =
              CASE g.op = "login"  -> [c EXCEPT !.pc = "lookup"]
                [] g.op = "accept" -> [c EXCEPT !.pc = "match"]
                [] SignsOut(g.op) /\ Stored(t) = NoToken -> [c EXCEPT !.pc = "answer"]
                [] OTHER -> Fetch(t, c)]
    BY DEF Submit
  <1>2. PICK c : c = [NoCall EXCEPT !.op = g.op, !.of = g.of, !.to = g.to]
    OBVIOUS
  <1>3. g \in Goal /\ IsGoal(g)
    BY SessionsConstantsOK
  <1>4. NoCall \in Call /\ NoCall.token = NoToken /\ NoCall.barred = {} /\ NoCall.ran = FALSE
    BY NoCallOK DEF NoCall, CallOK
  <1>5. /\ c \in Call /\ c.op = g.op /\ c.of = g.of /\ c.to = g.to /\ c.op # "none"
        /\ c.token = NoToken /\ c.barred = {} /\ ~c.ran
    BY <1>2, <1>3, <1>4 DEF Goal, Call, Operations, Public, Privileged
  <1>6. Aimed(c)
    BY <1>3, <1>5 DEF Aimed, IsGoal
  <1>7. ASSUME NEW pc \in {"lookup", "match", "answer"},
               pc = "lookup" => c.op = "login", pc = "match" => c.op = "accept"
        PROVE  CallOK([c EXCEPT !.pc = pc])
    <2>1. PICK new : new = [c EXCEPT !.pc = pc]
      OBVIOUS
    <2>2. /\ new \in Call /\ new.pc = pc /\ new.ran = c.ran /\ new.op = c.op /\ new.of = c.of
          /\ new.to = c.to /\ new.token = c.token /\ new.barred = c.barred
      <3>1. pc \in Steps /\ c \in Call
        BY <1>5 DEF Steps
      <3>2. QED BY <2>1, <3>1, JustStep
    <2>3. CallOK(new)
      BY <1>5, <1>6, <1>7, <2>2 DEF CallOK, TokenOK, BarredOK, AimOK, RanOK, Aimed, IsGoal
    <2>4. QED BY <2>1, <2>3
  <1>8. CallOK(Fetch(t, c))
    <2>1. PICK tk : tk = Stored(t)
      OBVIOUS
    <2>2. tk \in Tokens \cup {NoToken} /\ TokenOK(tk)
      BY <2>1, StoredOf
    <2>3. CallOK(Sent(c, tk, "guard", Grounds \ {"rotated"}))
      BY <1>5, <1>6, <2>2, SentGuard
    <2>4. QED BY <2>1, <2>3 DEF Fetch
  <1>9. PICK new :
          /\ call' = [call EXCEPT ![t] = new]
          /\ new = CASE g.op = "login"  -> [c EXCEPT !.pc = "lookup"]
                     [] g.op = "accept" -> [c EXCEPT !.pc = "match"]
                     [] SignsOut(g.op) /\ Stored(t) = NoToken -> [c EXCEPT !.pc = "answer"]
                     [] OTHER -> Fetch(t, c)
    BY <1>1, <1>2
  <1>10. CallOK(new)
    <2>1. CASE g.op = "login"
      <3>1. new = [c EXCEPT !.pc = "lookup"]
        BY <1>9, <2>1 DEF SignsOut
      <3>2. QED BY <1>5, <1>7, <2>1, <3>1
    <2>2. CASE g.op = "accept"
      <3>1. new = [c EXCEPT !.pc = "match"]
        BY <1>9, <2>2 DEF SignsOut
      <3>2. QED BY <1>5, <1>7, <2>2, <3>1
    <2>3. CASE SignsOut(g.op) /\ Stored(t) = NoToken
      <3>1. new = [c EXCEPT !.pc = "answer"]
        BY <1>9, <2>3 DEF SignsOut
      <3>2. QED BY <1>7, <3>1
    <2>4. CASE g.op # "login" /\ g.op # "accept" /\ ~(SignsOut(g.op) /\ Stored(t) = NoToken)
      <3>1. new = Fetch(t, c)
        BY <1>9, <2>4
      <3>2. QED BY <1>8, <3>1
    <2>5. QED BY <2>1, <2>2, <2>3, <2>4
  <1>11. new \in Call
    BY <1>10 DEF CallOK
  <1>12. calls' \in 0 .. MaxCalls
    BY SessionsConstantsOK DEF Submit, SessionsInv, BoundsType
  <1>13. QED BY <1>9, <1>10, <1>11, <1>12, QuietStep DEF Submit

LEMMA UnauthorizedOK ==
  ASSUME SessionsInv, NEW t \in Tabs, call[t].pc \in {"guard", "profile"}, Unauthorized(t)
  PROVE  \E new \in Call : call' = [call EXCEPT ![t] = new] /\ CallOK(new)
  <1>1. CallOK(call[t]) /\ StorageInv
    BY CallOf DEF SessionsInv
  <1>2. Aimed(call[t]) /\ ~call[t].ran
    BY <1>1 DEF CallOK, AimOK, RanOK, Aimed
  <1>3. PICK new : new = IF SignsOut(call[t].op) THEN Failed(t) ELSE Refreshing(t, call[t])
    OBVIOUS
  <1>4. call' = [call EXCEPT ![t] = new]
    BY <1>3 DEF Unauthorized
  <1>5. CallOK(new)
    BY <1>1, <1>2, <1>3, FailedOK, RefreshingOK
  <1>6. QED BY <1>4, <1>5 DEF CallOK

\* What a call is about does not change as it goes on.
LEMMA AimKept ==
  ASSUME NEW c, CallOK(c), c.pc # "idle", NEW new,
         new.op = c.op, new.of = c.of, new.to = c.to
  PROVE  new.op # "none" /\ IsGoal(new)
  BY DEF CallOK, AimOK, IsGoal

LEMMA FindSessionOK ==
  ASSUME SessionsInv, NEW t \in Tabs, FindSession(t)
  PROVE  SessionsInv'
  <1>1. call[t].pc = "guard"
    BY DEF FindSession, At
  <1>2. CASE ~Admits(call[t].token)
    <2>1. Unauthorized(t)
      BY <1>2 DEF FindSession
    <2>2. QED BY <1>1, <2>1, UnauthorizedOK, QuietStep DEF FindSession, SessionsInv, BoundsType
  <1>3. CASE Admits(call[t].token)
    <2>1. Goto(t, "profile") /\ "profile" \in Steps
      BY <1>3 DEF FindSession, Steps
    <2>2. PICK new \in Call :
            /\ call' = [call EXCEPT ![t] = new]
            /\ new.pc = "profile" /\ new.ran = call[t].ran
            /\ new.op = call[t].op /\ new.of = call[t].of /\ new.to = call[t].to
            /\ new.token = call[t].token /\ new.barred = call[t].barred
      BY <2>1, Going
    <2>3. PICK c \in Call : c = call[t] /\ CallOK(c)
      BY CallOf
    <2>4. PICK tk : tk = c.token
      OBVIOUS
    <2>5. tk # NoToken /\ tk.n > lapsed.access /\ ~session[tk.session].revoked
      BY <1>3, <2>3, <2>4 DEF Admits, IsLive, Unrevoked
    <2>6. TokenOK(tk) /\ BarredOK(c) /\ c.barred \subseteq Grounds /\ c.pc = "guard"
      BY <1>1, <2>3, <2>4 DEF CallOK, Call
    <2>7. tk.n \in Nat /\ lapsed.access \in Nat
      BY <2>5, <2>6 DEF TokenOK, SessionsInv, TablesType
    <2>8. ASSUME NEW g \in c.barred PROVE g \in {"user", "role"}
      <3>1. Holds(g, c.op, tk) /\ g \in Grounds /\ g # "rotated"
        BY <2>4, <2>6 DEF BarredOK
      <3>2. g # "session"
        BY <2>5, <3>1 DEF Holds
      <3>3. g # "access"
        <4>1. g = "access" => tk.n <= lapsed.access
          BY <3>1 DEF Holds
        <4>2. ~(tk.n <= lapsed.access)
          BY <2>5, <2>7
        <4>3. QED BY <4>1, <4>2
      <3>4. QED BY <3>1, <3>2, <3>3 DEF Grounds
    <2>9. BarredOK(new)
      BY <2>2, <2>3, <2>4, <2>5, <2>6, <2>8 DEF BarredOK
    <2>10. AimOK(new) /\ RanOK(new)
      <3>1. new.op # "none" /\ IsGoal(new)
        BY <2>2, <2>3, <2>6, AimKept
      <3>2. QED BY <2>2, <2>3, <2>6, <3>1 DEF CallOK, AimOK, RanOK
    <2>11. CallOK(new)
      BY <2>2, <2>3, <2>4, <2>6, <2>9, <2>10 DEF CallOK
    <2>12. QED BY <2>2, <2>11, QuietStep DEF FindSession, SessionsInv, BoundsType
  <1>4. QED BY <1>2, <1>3

LEMMA FindAuthProfileOK ==
  ASSUME SessionsInv, NEW t \in Tabs, FindAuthProfile(t)
  PROVE  SessionsInv'
  <1>1. call[t].pc = "profile"
    BY DEF FindAuthProfile, At
  <1>2. CASE ~IsActive(call[t].token.user)
    <2>1. Unauthorized(t)
      BY <1>2 DEF FindAuthProfile
    <2>2. QED BY <1>1, <2>1, UnauthorizedOK, QuietStep DEF FindAuthProfile, SessionsInv, BoundsType
  <1>3. CASE IsActive(call[t].token.user) /\ ~Permitted(call[t].op, call[t].token.user)
    <2>1. End(t)
      BY <1>3 DEF FindAuthProfile
    <2>2. QED BY <2>1, Ending, QuietStep DEF FindAuthProfile, SessionsInv, BoundsType
  <1>4. CASE IsActive(call[t].token.user) /\ Permitted(call[t].op, call[t].token.user)
    <2>1. Goto(t, "handle") /\ "handle" \in Steps
      BY <1>4 DEF FindAuthProfile, Steps
    <2>2. PICK new \in Call :
            /\ call' = [call EXCEPT ![t] = new]
            /\ new.pc = "handle" /\ new.ran = call[t].ran
            /\ new.op = call[t].op /\ new.of = call[t].of /\ new.to = call[t].to
            /\ new.token = call[t].token /\ new.barred = call[t].barred
      BY <2>1, Going
    <2>3. PICK c \in Call : c = call[t] /\ CallOK(c)
      BY CallOf
    <2>4. c.pc = "profile" /\ BarredOK(c)
      BY <1>1, <2>3 DEF CallOK
    <2>5. \A g \in c.barred : g \in {"user", "role"} /\ Holds(g, c.op, c.token)
      BY <2>4 DEF BarredOK
    <2>6. c.token # NoToken /\ c.barred = {}
      BY <1>4, <2>3, <2>4, <2>5 DEF BarredOK, Holds
    <2>7. BarredOK(new)
      BY <2>2, <2>3, <2>6 DEF BarredOK
    <2>8. AimOK(new) /\ RanOK(new)
      <3>1. new.op # "none" /\ IsGoal(new)
        BY <2>2, <2>3, <2>4, AimKept
      <3>2. QED BY <2>2, <2>3, <2>4, <3>1 DEF CallOK, AimOK, RanOK
    <2>9. CallOK(new)
      BY <2>2, <2>3, <2>7, <2>8 DEF CallOK
    <2>10. QED BY <2>2, <2>9, QuietStep DEF FindAuthProfile, SessionsInv, BoundsType
  <1>5. QED BY <1>2, <1>3, <1>4

LEMMA ReadOK ==
  ASSUME SessionsInv, NEW t \in Tabs, Read(t)
  PROVE  SessionsInv'
  <1>1. call[t].pc # "idle" /\ Answer(t)
    BY DEF Read, At
  <1>2. QED BY <1>1, Answering, QuietStep DEF Read, SessionsInv, BoundsType

LEMMA CheckFirstOK ==
  ASSUME SessionsInv, NEW t \in Tabs, CheckFirst(t)
  PROVE  SessionsInv'
  <1>1. call[t].pc = "handle" /\ UNCHANGED <<tables, minted, lapsed, storage, calls, lapses>>
    BY DEF CheckFirst, At
  <1>2. CASE Answer(t)
    BY <1>1, <1>2, Answering, QuietStep DEF SessionsInv, BoundsType
  <1>3. CASE ~Answer(t)
    <2>1. Runs(t, "insert") /\ "insert" \in Steps
      BY <1>3 DEF CheckFirst, Runs, Steps
    <2>2. PICK new \in Call :
            /\ call' = [call EXCEPT ![t] = new] /\ new.pc = "insert"
            /\ new.op = call[t].op /\ new.of = call[t].of /\ new.to = call[t].to
            /\ new.token = call[t].token /\ new.barred = call[t].barred
      BY <2>1, Running
    <2>3. PICK c \in Call : c = call[t] /\ CallOK(c)
      BY CallOf
    <2>4. BarredOK(new)
      BY <1>1, <2>2, <2>3 DEF CallOK, BarredOK
    <2>5. new.op # "none" /\ IsGoal(new)
      BY <1>1, <2>2, <2>3, AimKept
    <2>6. new.op = "operator" => user[new.of].status # "ABSENT"
      <3>1. ~(c.op = "operator" /\ user[c.of].status = "ABSENT")
        BY <1>3, <2>3 DEF CheckFirst
      <3>2. QED BY <2>2, <2>3, <3>1
    <2>7. CallOK(new)
      BY <2>2, <2>3, <2>4, <2>5, <2>6 DEF CallOK, AimOK, RanOK
    <2>8. QED BY <1>1, <2>2, <2>7, QuietStep DEF SessionsInv, BoundsType
  <1>4. QED BY <1>2, <1>3 DEF CheckFirst

\* A visitor's request is looked up and goes on.
LEMMA LookupOK ==
  ASSUME SessionsInv, NEW t \in Tabs, FindActiveByEmail(t) \/ FindInvitation(t)
  PROVE  SessionsInv'
  <1>1. UNCHANGED <<tables, minted, lapsed, storage, calls, lapses>>
    BY DEF FindActiveByEmail, FindInvitation
  <1>2. CASE End(t)
    BY <1>1, <1>2, Ending, QuietStep DEF SessionsInv, BoundsType
  <1>3. CASE ~End(t)
    <2>1. PICK pc \in {"open", "join"} :
            /\ Goto(t, pc)
            /\ pc = "open" => call[t].pc = "lookup" /\ IsActive(call[t].of)
            /\ pc = "join" => call[t].pc = "match" /\ invitation[call[t].of] = "OPEN"
      BY <1>3 DEF FindActiveByEmail, FindInvitation, At
    <2>2. pc \in Steps
      BY DEF Steps
    <2>3. PICK new \in Call :
            /\ call' = [call EXCEPT ![t] = new]
            /\ new.pc = pc /\ new.ran = call[t].ran
            /\ new.op = call[t].op /\ new.of = call[t].of /\ new.to = call[t].to
            /\ new.token = call[t].token /\ new.barred = call[t].barred
      BY <2>1, <2>2, Going
    <2>4. PICK c \in Call : c = call[t] /\ CallOK(c)
      BY CallOf
    <2>5. BarredOK(new)
      BY <2>1, <2>3, <2>4 DEF CallOK, BarredOK
    <2>6. new.op # "none" /\ IsGoal(new)
      BY <2>1, <2>3, <2>4, AimKept
    <2>7. AimOK(new)
      BY <2>1, <2>3, <2>4, <2>6 DEF CallOK, AimOK, IsActive
    <2>8. CallOK(new)
      BY <2>1, <2>3, <2>4, <2>5, <2>7 DEF CallOK, RanOK
    <2>9. QED BY <1>1, <2>3, <2>8, QuietStep DEF SessionsInv, BoundsType
  <1>4. QED BY <1>2, <1>3

\* Steps after which the browser keeps other tokens.
LEMMA StoreStep ==
  ASSUME SessionsInv, NEW t \in Tabs,
         \E new \in Call : call' = [call EXCEPT ![t] = new] /\ CallOK(new),
         UNCHANGED <<tables, minted, lapsed, calls, lapses>>,
         NEW tk \in Tokens \cup {NoToken}, TokenOK(tk),
         storage' = storage \/ storage' = [storage EXCEPT ![BrowserOf[t]] = tk]
  PROVE  SessionsInv'
  <1>1. PICK new \in Call : call' = [call EXCEPT ![t] = new] /\ CallOK(new)
    OBVIOUS
  <1>2. BoundsType'
    BY DEF SessionsInv, BoundsType
  <1>3. StorageInv'
    <2>1. storage \in [Browsers -> Tokens \cup {NoToken}] /\ \A b \in Browsers : TokenOK(storage[b])
      BY DEF SessionsInv, StorageInv
    <2>2. storage' \in [Browsers -> Tokens \cup {NoToken}]
      BY <2>1
    <2>3. ASSUME NEW b \in Browsers PROVE TokenOK(storage'[b])
      BY <2>1
    <2>4. QED BY <2>2, <2>3 DEF StorageInv, TokenOK, tables
  <1>4. QED BY <1>1, <1>2, <1>3, CallStep

LEMMA NoTokenOK == NoToken \in Tokens \cup {NoToken} /\ TokenOK(NoToken)
  BY DEF TokenOK

LEMMA ReceiveOK ==
  ASSUME SessionsInv, NEW t \in Tabs, Receive(t)
  PROVE  SessionsInv'
  <1>1. /\ End(t) /\ UNCHANGED <<tables, minted, lapsed, calls, lapses>>
        /\ storage' = storage \/ storage' = [storage EXCEPT ![BrowserOf[t]] = NoToken]
    BY DEF Receive
  <1>2. QED BY <1>1, NoTokenOK, Ending, StoreStep

LEMMA FindSessionByRefreshTokenOK ==
  ASSUME SessionsInv, NEW t \in Tabs, FindSessionByRefreshToken(t)
  PROVE  SessionsInv'
  <1>1. call[t].pc = "refresh" /\ UNCHANGED <<tables, minted, lapsed, calls, lapses>>
    BY DEF FindSessionByRefreshToken, At
  <1>2. CASE ~Redeems(call[t].token)
    <2>1. storage' = [storage EXCEPT ![BrowserOf[t]] = NoToken] /\ End(t)
      BY <1>2 DEF FindSessionByRefreshToken
    <2>2. QED BY <1>1, <2>1, NoTokenOK, Ending, StoreStep
  <1>3. CASE Redeems(call[t].token)
    <2>1. Goto(t, "rotate") /\ UNCHANGED storage /\ "rotate" \in Steps
      BY <1>3 DEF FindSessionByRefreshToken, Steps
    <2>2. PICK new \in Call :
            /\ call' = [call EXCEPT ![t] = new]
            /\ new.pc = "rotate" /\ new.ran = call[t].ran
            /\ new.op = call[t].op /\ new.of = call[t].of /\ new.to = call[t].to
            /\ new.token = call[t].token /\ new.barred = call[t].barred
      BY <2>1, Going
    <2>3. PICK c \in Call : c = call[t] /\ CallOK(c)
      BY CallOf
    <2>4. PICK tk : tk = c.token
      OBVIOUS
    <2>5. /\ IsActive(tk.user) /\ ~session[tk.session].revoked
          /\ tk.n = session[tk.session].token
      BY <1>3, <2>3, <2>4 DEF Redeems, IsLive, Unrevoked
    <2>6. BarredOK(c) /\ c.pc = "refresh"
      BY <1>1, <2>3 DEF CallOK
    <2>7. tk # NoToken /\ \A g \in c.barred : g \in {"session", "user", "rotated"} /\ Holds(g, c.op, tk)
      BY <2>4, <2>6 DEF BarredOK
    <2>8. c.barred = {}
      BY <2>5, <2>7 DEF Holds
    <2>9. BarredOK(new)
      BY <2>2, <2>3, <2>4, <2>7, <2>8 DEF BarredOK
    <2>10. new.op # "none" /\ IsGoal(new)
      BY <2>2, <2>3, <2>6, AimKept
    <2>11. CallOK(new)
      BY <2>2, <2>3, <2>6, <2>9, <2>10 DEF CallOK, AimOK, RanOK
    <2>12. QED BY <1>1, <2>1, <2>2, <2>11, QuietStep DEF SessionsInv, BoundsType
  <1>4. QED BY <1>2, <1>3

LEMMA SaveTokensOK ==
  ASSUME SessionsInv, NEW t \in Tabs, SaveTokens(t)
  PROVE  SessionsInv'
  <1>1. PICK c \in Call : c = call[t] /\ CallOK(c)
    BY CallOf
  <1>2. PICK tk : tk = c.token
    OBVIOUS
  <1>3. /\ c.pc = "tokens" /\ storage' = [storage EXCEPT ![BrowserOf[t]] = tk]
        /\ UNCHANGED <<tables, minted, lapsed, calls, lapses>>
    BY <1>1, <1>2 DEF SaveTokens, At
  <1>4. tk \in Tokens \cup {NoToken} /\ TokenOK(tk)
    BY <1>1, <1>2 DEF CallOK, Call
  <1>5. PICK new : new = IF c.op \in {"login", "me"} THEN NoCall
                         ELSE Sent(c, tk, "guard", Grounds \ {"rotated"})
    OBVIOUS
  <1>6. call' = [call EXCEPT ![t] = new]
    BY <1>1, <1>2, <1>5 DEF SaveTokens
  <1>7. CASE c.op \in {"login", "me"}
    <2>1. CallOK(new)
      BY <1>5, <1>7, NoCallOK
    <2>2. QED BY <1>3, <1>4, <1>6, <2>1, StoreStep DEF CallOK
  <1>8. CASE c.op \notin {"login", "me"}
    <2>1. Aimed(c) /\ ~c.ran
      BY <1>1, <1>3, <1>8 DEF CallOK, AimOK, RanOK, Aimed
    <2>2. CallOK(new)
      BY <1>4, <1>5, <1>8, <2>1, SentGuard
    <2>3. QED BY <1>3, <1>4, <1>6, <2>2, StoreStep DEF CallOK
  <1>9. QED BY <1>7, <1>8

LEMMA LoseOK ==
  ASSUME SessionsInv, NEW t \in Tabs, Lose(t)
  PROVE  SessionsInv'
  <1>1. call[t].pc # "idle" /\ UNCHANGED <<tables, minted, lapsed, calls, lapses>>
    BY DEF Lose
  <1>2. CASE storage' = [storage EXCEPT ![BrowserOf[t]] = NoToken] /\ End(t)
    BY <1>1, <1>2, NoTokenOK, Ending, StoreStep
  <1>3. CASE UNCHANGED storage /\ call' = [call EXCEPT ![t] = Failed(t)]
    <2>1. PICK new : new = Failed(t)
      OBVIOUS
    <2>2. CallOK(new)
      BY <1>1, <2>1, CallOf, FailedOK DEF SessionsInv
    <2>3. call' = [call EXCEPT ![t] = new]
      BY <1>3, <2>1
    <2>4. QED BY <1>1, <1>3, <2>2, <2>3, QuietStep DEF CallOK, SessionsInv, BoundsType
  <1>4. QED BY <1>2, <1>3 DEF Lose

\* Time goes by: more tokens are too old, no ground is lifted.
LEMMA LapseOK ==
  ASSUME SessionsInv, NEW what \in {"access", "session"}, Lapse(what)
  PROVE  SessionsInv'
  <1>1. /\ lapsed' = [lapsed EXCEPT ![what] = minted] /\ lapses' = lapses + 1 /\ lapses < MaxLapses
        /\ UNCHANGED <<tables, minted, storage, call, calls>>
    BY DEF Lapse
  <1>2. lapsed \in [access: 0 .. minted, session: 0 .. minted] /\ minted \in Nat
    BY DEF SessionsInv, TablesType
  <1>3. lapsed' \in [access: 0 .. minted, session: 0 .. minted] /\ lapsed.access <= lapsed'.access
    <2>1. CASE what = "access"
      BY <1>1, <1>2, <2>1
    <2>2. CASE what = "session"
      BY <1>1, <1>2, <2>2
    <2>3. QED BY <2>1, <2>2
  <1>4. lapsed'.access \in Nat
    BY <1>2, <1>3
  <1>5. Later
    BY <1>1, <1>2, <1>3, <1>4 DEF Later, tables
  <1>6. \A u \in Users : user[u].status # "ABSENT" => user'[u] = user[u]
    BY <1>1 DEF tables
  <1>7. CallsInv'
    <2>1. ASSUME NEW t \in Tabs, NEW c \in Call, c = call[t] PROVE CallOK(c)'
      <3>1. CallOK(c)
        BY <2>1 DEF SessionsInv, CallsInv
      <3>2. QED BY <1>5, <1>6, <3>1, LaterCall DEF SessionsInv
    <2>2. QED BY <1>1, <2>1 DEF SessionsInv, CallsInv
  <1>8. TablesType' /\ ProfileType' /\ AccountInv' /\ OneProfilePerUser'
    BY <1>1, <1>3 DEF tables, SessionsInv, TablesType, ProfileType, AccountInv, AcceptedOnce, OneProfilePerUser
  <1>9. StorageInv'
    BY <1>1 DEF SessionsInv, StorageInv, TokenOK, tables
  <1>10. BoundsType'
    BY <1>1, SessionsConstantsOK DEF SessionsInv, BoundsType
  <1>11. QED BY <1>7, <1>8, <1>9, <1>10 DEF SessionsInv

-----------------------------------------------------------------------------
(* Steps that change the tables. *)

\* A step that serves a call and leaves the accounts alone.
LEMMA SessionStep ==
  ASSUME SessionsInv, NEW t \in Tabs, NEW new, call' = [call EXCEPT ![t] = new], CallOK(new)', Later,
         UNCHANGED <<user, profile, invitation, lapsed, storage, calls, lapses>>,
         DOMAIN session' \subseteq 1 .. minted', minted' \in Nat, minted <= minted',
         session' \in [DOMAIN session' -> [user: Users, token: 1 .. minted', revoked: BOOLEAN]]
  PROVE  SessionsInv'
  <1>1. TablesType /\ minted \in Nat
    BY DEF SessionsInv, TablesType
  <1>2. lapsed \in [access: 0 .. minted', session: 0 .. minted']
    BY <1>1 DEF TablesType
  <1>3. TablesType'
    BY <1>1, <1>2 DEF TablesType
  <1>4. ProfileType' /\ BoundsType' /\ AccountInv' /\ OneProfilePerUser'
    BY DEF SessionsInv, ProfileType, BoundsType, AccountInv, AcceptedOnce, OneProfilePerUser
  <1>5. StorageInv'
    <2>1. ASSUME NEW b \in Browsers, NEW tk, tk = storage[b] PROVE TokenOK(tk)'
      <3>1. TokenOK(tk)
        BY <2>1 DEF SessionsInv, StorageInv
      <3>2. QED BY <1>1, <3>1, LaterToken
    <2>2. \A b \in Browsers : TokenOK(storage[b])'
      <3>1. ASSUME NEW b \in Browsers PROVE TokenOK(storage[b])'
        <4>1. PICK tk : tk = storage[b]
          OBVIOUS
        <4>2. TokenOK(tk)'
          BY <2>1, <4>1
        <4>3. QED BY <4>1, <4>2 DEF TokenOK
      <3>2. QED BY <3>1
    <2>3. QED BY <2>2 DEF SessionsInv, StorageInv
  <1>6. QED BY <1>3, <1>4, <1>5, ServeStep

\* Logout, logoutAll and the second statement of a suspension.
LEMMA RevokeOK ==
  ASSUME SessionsInv, NEW t \in Tabs, Logout(t) \/ RevokeSessions(t)
  PROVE  SessionsInv'
  <1>1. PICK scope : Revoke(scope)
    BY DEF Logout, RevokeSessions
  <1>2. /\ call[t].pc # "idle" /\ Answer(t)
        /\ UNCHANGED <<user, profile, invitation, minted, lapsed, storage, calls, lapses>>
    BY DEF Logout, RevokeSessions, At
  <1>3. /\ minted \in Nat /\ lapsed.access \in Nat /\ DOMAIN session \subseteq 1 .. minted
        /\ session \in [DOMAIN session -> [user: Users, token: 1 .. minted, revoked: BOOLEAN]]
    BY DEF SessionsInv, TablesType
  <1> DEFINE Row(s) == [session[s] EXCEPT !.revoked = @ \/ s \in scope]
  <1>4. ASSUME NEW s \in DOMAIN session
        PROVE  /\ Row(s) \in [user: Users, token: 1 .. minted, revoked: BOOLEAN]
               /\ Row(s).token = session[s].token
               /\ session[s].revoked => Row(s).revoked
    <2>1. session[s] \in [user: Users, token: 1 .. minted, revoked: BOOLEAN]
      BY <1>3
    <2>2. QED BY <2>1
  <1>5. session' = [s \in DOMAIN session |-> Row(s)]
    BY <1>1 DEF Revoke
  <1> HIDE DEF Row
  <1>6. /\ DOMAIN session' = DOMAIN session /\ \A s \in DOMAIN session : session'[s] = Row(s)
        /\ session' \in [DOMAIN session -> [user: Users, token: 1 .. minted, revoked: BOOLEAN]]
    BY <1>4, <1>5
  <1>7. Later
    BY <1>2, <1>3, <1>4, <1>6 DEF Later
  <1>8. PICK new \in Call : call' = [call EXCEPT ![t] = new] /\ CallOK(new)
    BY <1>2, Answering
  <1>9. CallOK(new)'
    <2>1. TablesType /\ \A u \in Users : user'[u] = user[u]
      BY <1>2 DEF SessionsInv
    <2>2. QED BY <1>7, <1>8, <2>1, LaterCall
  <1>10. /\ DOMAIN session' \subseteq 1 .. minted' /\ minted' \in Nat /\ minted <= minted'
         /\ session' \in [DOMAIN session' -> [user: Users, token: 1 .. minted', revoked: BOOLEAN]]
    BY <1>2, <1>3, <1>6
  <1>11. QED BY <1>2, <1>7, <1>8, <1>9, <1>10, SessionStep

\* Tokens of a session that exists, for a user who does.
LEMMA IssueStep ==
  ASSUME SessionsInv, NEW t \in Tabs, call[t].pc \in {"open", "rotate"},
         NEW u \in Users, user[u].status # "ABSENT", NEW s \in DOMAIN session', s \in Nat,
         Issue(t, u, s), Later, UNCHANGED <<user, profile, invitation, lapsed, storage, calls, lapses>>,
         DOMAIN session' \subseteq 1 .. minted',
         session' \in [DOMAIN session' -> [user: Users, token: 1 .. minted', revoked: BOOLEAN]]
  PROVE  SessionsInv'
  <1>1. minted \in Nat /\ minted' = minted + 1
    BY DEF SessionsInv, TablesType, Issue
  <1>2. PICK c \in Call : c = call[t] /\ CallOK(c)
    BY CallOf
  <1>3. PICK tk : tk = [user |-> u, session |-> s, n |-> minted + 1]
    OBVIOUS
  <1>4. tk \in Tokens /\ tk.user = u /\ tk.session = s /\ tk.n = minted + 1
    BY <1>1, <1>3 DEF Tokens
  <1>5. PICK new : new = [c EXCEPT !.pc = "tokens", !.token = tk]
    OBVIOUS
  <1>6. /\ new \in Call /\ new.pc = "tokens" /\ new.token = tk /\ new.ran = c.ran
        /\ new.op = c.op /\ new.of = c.of /\ new.to = c.to /\ new.barred = c.barred
    BY <1>4, <1>5 DEF Call
  <1>7. call' = [call EXCEPT ![t] = new]
    BY <1>2, <1>3, <1>5 DEF Issue
  <1>8. c.barred = {} /\ (c.op # "me" => ~c.ran) /\ c.pc # "idle"
    BY <1>2 DEF CallOK, BarredOK, RanOK
  <1>9. new.op # "none" /\ IsGoal(new)
    BY <1>2, <1>6, <1>8, AimKept
  <1>10. tk # NoToken /\ TokenOK(tk)'
    <2>1. DOMAIN NoToken = {"session"} /\ DOMAIN tk = {"user", "session", "n"}
      BY <1>3 DEF NoToken
    <2>2. "n" \notin {"session"} /\ "n" \in {"user", "session", "n"}
      OBVIOUS
    <2>3. tk # NoToken
      BY <2>1, <2>2
    <2>4. QED BY <1>1, <1>4, <2>3 DEF TokenOK
  <1>11. CallOK(new)'
    BY <1>6, <1>8, <1>9, <1>10 DEF CallOK, BarredOK, AimOK, RanOK
  <1>12. minted' \in Nat /\ minted <= minted'
    BY <1>1
  <1>13. QED BY <1>7, <1>11, <1>12, SessionStep

LEMMA CreateSessionOK ==
  ASSUME SessionsInv, NEW t \in Tabs, CreateSession(t)
  PROVE  SessionsInv'
  <1> DEFINE s == minted + 1
             row == [user |-> call[t].of, token |-> minted + 1, revoked |-> FALSE]
  <1>1. /\ call[t].pc = "open" /\ Issue(t, call[t].of, s)
        /\ session' = [x \in DOMAIN session \cup {s} |-> IF x = s THEN row ELSE session[x]]
        /\ UNCHANGED <<user, profile, invitation, lapsed, storage, calls, lapses>>
    BY DEF CreateSession, At
  <1>2. /\ minted \in Nat /\ lapsed.access \in Nat /\ DOMAIN session \subseteq 1 .. minted
        /\ session \in [DOMAIN session -> [user: Users, token: 1 .. minted, revoked: BOOLEAN]]
    BY DEF SessionsInv, TablesType
  <1>3. minted' = minted + 1
    BY <1>1 DEF Issue
  <1>4. PICK c \in Call : c = call[t] /\ CallOK(c)
    BY CallOf
  <1>5. call[t].of \in Users /\ user[call[t].of].status # "ABSENT"
    BY <1>1, <1>4 DEF CallOK, AimOK, IsGoal
  <1>6. row \in [user: Users, token: 1 .. minted', revoked: BOOLEAN]
    BY <1>2, <1>3, <1>5
  <1>7. \A x \in DOMAIN session : session[x] \in [user: Users, token: 1 .. minted', revoked: BOOLEAN]
    BY <1>2, <1>3
  <1> HIDE DEF row
  <1>8. /\ DOMAIN session' = DOMAIN session \cup {s} /\ s \notin DOMAIN session
        /\ \A x \in DOMAIN session : session'[x] = session[x]
    BY <1>1, <1>2
  <1>9. /\ DOMAIN session' \subseteq 1 .. minted'
        /\ session' \in [DOMAIN session' -> [user: Users, token: 1 .. minted', revoked: BOOLEAN]]
    BY <1>1, <1>2, <1>3, <1>6, <1>7, <1>8
  <1>10. Later
    BY <1>1, <1>2, <1>3, <1>8 DEF Later
  <1>11. s \in DOMAIN session' /\ s \in Nat
    BY <1>2, <1>8
  <1>12. QED BY <1>1, <1>5, <1>9, <1>10, <1>11, IssueStep

LEMMA RotateOK ==
  ASSUME SessionsInv, NEW t \in Tabs, Rotate(t)
  PROVE  SessionsInv'
  <1> DEFINE s == call[t].token.session
             new == [session[s] EXCEPT !.token = minted + 1]
  <1>1. /\ call[t].pc = "rotate" /\ Issue(t, call[t].token.user, s)
        /\ session' = [session EXCEPT ![s].token = minted + 1]
        /\ UNCHANGED <<user, profile, invitation, lapsed, storage, calls, lapses>>
    BY DEF Rotate, At
  <1>2. /\ minted \in Nat /\ lapsed.access \in Nat /\ DOMAIN session \subseteq 1 .. minted
        /\ session \in [DOMAIN session -> [user: Users, token: 1 .. minted, revoked: BOOLEAN]]
    BY DEF SessionsInv, TablesType
  <1>3. minted' = minted + 1
    BY <1>1 DEF Issue
  <1>4. PICK c \in Call : c = call[t] /\ CallOK(c)
    BY CallOf
  <1>5. c.token # NoToken /\ TokenOK(c.token)
    BY <1>1, <1>4 DEF CallOK, BarredOK
  <1>6. /\ call[t].token.user \in Users /\ user[call[t].token.user].status # "ABSENT"
        /\ s \in DOMAIN session /\ s \in Nat
    BY <1>4, <1>5 DEF TokenOK, Tokens
  <1>7. session[s] \in [user: Users, token: 1 .. minted, revoked: BOOLEAN]
    BY <1>2, <1>6
  <1>8. /\ new \in [user: Users, token: 1 .. minted', revoked: BOOLEAN]
        /\ new.token = minted + 1 /\ (new.revoked <=> session[s].revoked)
    BY <1>2, <1>3, <1>7
  <1>9. \A x \in DOMAIN session : session[x] \in [user: Users, token: 1 .. minted', revoked: BOOLEAN]
    BY <1>2, <1>3
  <1>10. session' = [session EXCEPT ![s] = new]
    BY <1>1
  <1> HIDE DEF new, s
  <1>11. /\ DOMAIN session' = DOMAIN session /\ session'[s] = new
         /\ \A x \in DOMAIN session : x # s => session'[x] = session[x]
    BY <1>2, <1>6, <1>10
  <1>12. /\ DOMAIN session' \subseteq 1 .. minted'
         /\ session' \in [DOMAIN session' -> [user: Users, token: 1 .. minted', revoked: BOOLEAN]]
    <2> DEFINE R == [user: Users, token: 1 .. minted', revoked: BOOLEAN]
    <2>1. new \in R /\ \A x \in DOMAIN session : session[x] \in R
      BY <1>8, <1>9
    <2> HIDE DEF R
    <2>2. session \in [DOMAIN session -> R]
      BY <1>2, <2>1
    <2>3. session' \in [DOMAIN session -> R]
      BY <1>10, <2>1, <2>2
    <2>4. 1 .. minted \subseteq 1 .. minted'
      BY <1>2, <1>3
    <2>5. QED BY <1>2, <1>11, <2>3, <2>4 DEF R
  <1>13. Later
    BY <1>1, <1>2, <1>3, <1>8, <1>11 DEF Later
  <1>14. QED BY <1>1, <1>6, <1>11, <1>12, <1>13, IssueStep

\* An administrator writes the row of a user: the grounds this lifts are
\* taken off every call under way.
Writes(u, row) == user' = [user EXCEPT ![u] = row]

Freed(c, x, u, row) == [c EXCEPT !.barred = StillBarred(x, u, row)]

LEMMA BarredAfter ==
  ASSUME SessionsInv, Later, NEW u \in Users, NEW row, row.role \in Roles,
         Writes(u, row), NEW x \in Tabs, NEW c \in Call, c = call[x],
         NEW d, d = Freed(c, x, u, row)
  PROVE  CallOK(d)' /\ d.pc = c.pc /\ d.op = c.op /\ d.of = c.of /\ d.to = c.to
         /\ d.token = c.token /\ d.barred \subseteq c.barred
  <1>1. CallOK(c)
    BY CallOf
  <1>2. PICK b : b = StillBarred(x, u, row)
    OBVIOUS
  <1>3. b \subseteq c.barred /\ c.barred \subseteq Grounds
    BY <1>2 DEF StillBarred, Call
  <1>4. /\ d \in Call /\ d.pc = c.pc /\ d.op = c.op /\ d.of = c.of /\ d.to = c.to
        /\ d.token = c.token /\ d.ran = c.ran /\ d.barred = b
    BY <1>2, <1>3 DEF Call, Freed
  <1>5. TokenOK(c.token)'
    BY <1>1, LaterToken DEF CallOK, SessionsInv
  <1>6. ASSUME NEW g \in b PROVE c.token # NoToken /\ Holds(g, c.op, c.token)'
    <2>1. PICK tk : tk = c.token
      OBVIOUS
    <2>2. tk # NoToken /\ Holds(g, c.op, tk) /\ TokenOK(tk) /\ g \in Grounds
      BY <1>1, <1>3, <2>1 DEF CallOK, BarredOK
    <2>3. tk.user \in Users /\ user \in [Users -> [status: Statuses, role: Roles, via: Invitations \cup {NoInvitation}]]
      BY <2>2 DEF TokenOK, Tokens, SessionsInv, TablesType
    <2>4. tk.user = u => /\ g = "user" => row.status # "ACTIVE"
                         /\ g = "role" => row.role # "ADMIN"
      BY <1>2, <2>1, <2>2 DEF StillBarred
    <2>5. g = "user" => ~IsActive(tk.user)'
      <3>1. CASE tk.user = u
        BY <2>3, <2>4, <3>1 DEF IsActive, Writes
      <3>2. CASE tk.user # u
        BY <2>2, <2>3, <3>2 DEF IsActive, Holds, Writes
      <3>3. QED BY <3>1, <3>2
    <2>6. g = "role" => ~Permitted(c.op, tk.user)'
      <3>1. ASSUME g = "role" PROVE c.op \notin Grants[user[tk.user].role]
        BY <2>2, <3>1 DEF Holds, Permitted
      <3>2. CASE tk.user # u
        BY <2>3, <3>1, <3>2 DEF Permitted, Writes
      <3>3. CASE tk.user = u
        <4>1. user'[u] = row /\ user[u].role \in Roles
          BY <2>3 DEF Writes
        <4>2. g = "role" => c.op \notin Operations \ Privileged
          BY <3>1, <3>3, <4>1, GrantsOf
        <4>3. g = "role" => row.role = "OPERATOR"
          BY <2>4, <3>3 DEF Roles
        <4>4. Grants["OPERATOR"] = Operations \ Privileged
          BY GrantsOf DEF Roles
        <4>5. g = "role" => c.op \notin Grants[row.role]
          BY <4>2, <4>3, <4>4
        <4>6. QED BY <3>3, <4>1, <4>5 DEF Permitted
      <3>4. QED BY <3>2, <3>3
    <2>7. Holds(g, c.op, tk)'
      BY <2>2, <2>5, <2>6, LaterHolds DEF SessionsInv
    <2>8. QED BY <2>1, <2>2, <2>7
  <1>7. BarredOK(d)'
    <2>1. \A g \in d.barred : d.token # NoToken /\ Holds(g, d.op, d.token)'
      BY <1>4, <1>6
    <2>2. QED BY <1>1, <1>3, <1>4, <2>1 DEF CallOK, BarredOK
  <1>8. AimOK(d)'
    <2>1. IsGoal(c) => IsGoal(d)
      BY <1>4 DEF IsGoal
    <2>2. c.pc = "open" \/ (c.pc = "insert" /\ c.op = "operator") => c.of \in Users
      BY <1>1 DEF CallOK, AimOK, IsGoal
    <2>3. c.pc = "join" => c.of \in Invitations
      BY <1>1 DEF CallOK, AimOK, IsGoal
    <2>4. AimOK(c)
      BY <1>1 DEF CallOK
    <2>5. /\ d.pc = "open" => user'[d.of].status # "ABSENT"
          /\ d.pc = "insert" /\ d.op = "operator" => user'[d.of].status # "ABSENT"
      BY <1>4, <2>2, <2>4 DEF AimOK, Later
    <2>6. d.pc = "join" => invitation'[d.of] # "ABSENT"
      BY <1>4, <2>3, <2>4 DEF AimOK, Later
    <2>7. d.pc # "idle" => d.op # "none" /\ IsGoal(d)
      BY <1>4, <2>1, <2>4 DEF AimOK
    <2>8. /\ d.pc \in {"match", "join"} => d.op = "accept"
          /\ d.pc \in {"lookup", "open"} => d.op = "login"
      BY <1>4, <2>4 DEF AimOK
    <2>9. QED BY <2>5, <2>6, <2>7, <2>8 DEF AimOK
  <1>9. RanOK(d)'
    BY <1>1, <1>4 DEF CallOK, RanOK
  <1>10. CallOK(d)'
    BY <1>4, <1>5, <1>7, <1>8, <1>9 DEF CallOK
  <1>11. QED BY <1>3, <1>4, <1>10

LEMMA WriteOK ==
  ASSUME SessionsInv, NEW t \in Tabs, call[t].pc = "handle", NEW u \in Users,
         NEW row \in [status: Statuses, role: Roles, via: Invitations \cup {NoInvitation}],
         user[u].status # "ABSENT", row.status # "ABSENT", row.via = user[u].via,
         NEW pc \in {"revoke", "answer"}, Write(t, u, row, pc),
         UNCHANGED <<profile, invitation, session, minted, lapsed, storage, calls, lapses>>
  PROVE  SessionsInv'
  <1>1. user' = [user EXCEPT ![u] = row]
    BY DEF Write
  <1>2. user \in [Users -> [status: Statuses, role: Roles, via: Invitations \cup {NoInvitation}]]
    BY DEF SessionsInv, TablesType
  <1>3. /\ user' \in [Users -> [status: Statuses, role: Roles, via: Invitations \cup {NoInvitation}]]
        /\ user'[u] = row /\ \A v \in Users : v # u => user'[v] = user[v]
        /\ \A v \in Users : user'[v].via = user[v].via
    BY <1>1, <1>2
  <1>4. Later /\ row.role \in Roles
    BY <1>3 DEF Later, SessionsInv, TablesType
  <1>12. Writes(u, row)
    BY <1>1 DEF Writes
  <1>5. call' = [x \in Tabs |->
                   IF x = t THEN Ran(Freed(call[x], x, u, row), pc) ELSE Freed(call[x], x, u, row)]
    BY DEF Write, Freed, Ran
  <1>6. ASSUME NEW x \in Tabs, NEW new, new = call'[x] PROVE CallOK(new)'
    <2>1. PICK c \in Call : c = call[x] /\ CallOK(c)
      BY CallOf
    <2>2. PICK d : d = Freed(c, x, u, row)
      OBVIOUS
    <2>3. /\ CallOK(d)' /\ d.pc = c.pc /\ d.op = c.op /\ d.of = c.of /\ d.to = c.to
          /\ d.token = c.token /\ d.barred \subseteq c.barred
      BY <1>4, <1>12, <2>1, <2>2, BarredAfter
    <2>4. CASE x # t
      BY <1>5, <1>6, <2>1, <2>2, <2>3, <2>4
    <2>5. CASE x = t
      <3>1. new = Ran(d, pc)
        BY <1>5, <1>6, <2>1, <2>2, <2>5
      <3>2. pc \in Steps /\ d \in Call
        BY <2>3 DEF Steps, CallOK
      <3>3. /\ new \in Call /\ new.pc = pc /\ new.op = d.op /\ new.of = d.of /\ new.to = d.to
            /\ new.token = d.token /\ new.barred = d.barred
        BY <3>1, <3>2, ToStep
      <3>4. c.pc = "handle" /\ BarredOK(c)
        BY <2>1, <2>5 DEF CallOK
      <3>5. c.token # NoToken /\ d.barred = {}
        BY <2>3, <3>4 DEF BarredOK
      <3>6. BarredOK(new)'
        BY <2>3, <3>3, <3>5 DEF BarredOK
      <3>7. c.op # "none" /\ IsGoal(c)
        BY <2>1, <3>4 DEF CallOK, AimOK
      <3>8. IsGoal(new)
        BY <2>3, <3>3, <3>7 DEF IsGoal
      <3>9. AimOK(new)' /\ RanOK(new)'
        BY <2>3, <3>3, <3>7, <3>8 DEF AimOK, RanOK
      <3>10. QED BY <2>3, <3>3, <3>6, <3>9 DEF CallOK
    <2>6. QED BY <2>4, <2>5
  <1>7. CallsInv'
    <2>1. ASSUME NEW x \in Tabs PROVE call'[x] \in Call
      <3>1. PICK new : new = call'[x]
        OBVIOUS
      <3>2. CallOK(new)'
        BY <1>6, <3>1
      <3>3. QED BY <3>1, <3>2 DEF CallOK
    <2>2. call' \in [Tabs -> Call]
      BY <1>5, <2>1
    <2>3. QED BY <1>6, <2>2 DEF CallsInv
  <1>8. TablesType' /\ ProfileType' /\ BoundsType' /\ OneProfilePerUser'
    BY <1>3 DEF SessionsInv, TablesType, ProfileType, BoundsType, OneProfilePerUser
  <1>9. StorageInv'
    <2>1. \A b \in Browsers : TokenOK(storage[b])
      BY DEF SessionsInv, StorageInv
    <2>2. ASSUME NEW b \in Browsers PROVE TokenOK(storage[b])'
      <3>1. PICK tk : tk = storage[b]
        OBVIOUS
      <3>2. TokenOK(tk)'
        BY <1>4, <2>1, <3>1, LaterToken DEF SessionsInv
      <3>3. storage'[b] = tk
        BY <3>1
      <3>4. QED BY <3>2, <3>3 DEF TokenOK
    <2>3. QED BY <2>2 DEF SessionsInv, StorageInv
  <1>10. AccountInv'
    BY <1>3 DEF SessionsInv, AccountInv, AcceptedOnce
  <1>11. QED BY <1>7, <1>8, <1>9, <1>10 DEF SessionsInv

\* A handler that only answers.
LEMMA AnswerOnlyOK ==
  ASSUME SessionsInv, NEW t \in Tabs, call[t].pc # "idle", Answer(t),
         UNCHANGED <<tables, minted, lapsed, storage, calls, lapses>>
  PROVE  SessionsInv'
  BY Answering, QuietStep DEF SessionsInv, BoundsType

LEMMA UpdateStatusOK ==
  ASSUME SessionsInv, NEW t \in Tabs, UpdateStatus(t)
  PROVE  SessionsInv'
  <1>1. PICK c \in Call : c = call[t] /\ CallOK(c)
    BY CallOf
  <1>2. /\ c.pc = "handle" /\ c.op = "status"
        /\ UNCHANGED <<profile, invitation, session, minted, lapsed, storage, calls, lapses>>
    BY <1>1 DEF UpdateStatus, At
  <1>3. c.of \in Users /\ c.to \in Statuses \ {"ABSENT"}
    BY <1>1, <1>2 DEF CallOK, AimOK, IsGoal
  <1>4. CASE Answer(t) /\ UNCHANGED user
    BY <1>1, <1>2, <1>4, AnswerOnlyOK DEF tables
  <1>5. CASE user[c.of].status = "ABSENT"
    <2>1. Answer(t) /\ UNCHANGED user
      BY <1>1, <1>5 DEF UpdateStatus
    <2>2. QED BY <1>4, <2>1
  <1>6. CASE user[c.of].status # "ABSENT" /\ ~(Answer(t) /\ UNCHANGED user)
    <2>1. PICK row : row = [user[c.of] EXCEPT !.status = c.to]
      OBVIOUS
    <2>2. user[c.of] \in [status: Statuses, role: Roles, via: Invitations \cup {NoInvitation}]
      BY <1>3 DEF SessionsInv, TablesType
    <2>3. /\ row \in [status: Statuses, role: Roles, via: Invitations \cup {NoInvitation}]
          /\ row.status # "ABSENT" /\ row.via = user[c.of].via
      BY <1>3, <2>1, <2>2
    <2>4. PICK pc : pc = IF c.to = "SUSPENDED" THEN "revoke" ELSE "answer"
      OBVIOUS
    <2>5. Write(t, c.of, row, pc)
      BY <1>1, <1>6, <2>1, <2>4 DEF UpdateStatus
    <2>6. pc \in {"revoke", "answer"}
      BY <2>4
    <2>7. QED BY <1>1, <1>2, <1>3, <1>6, <2>3, <2>5, <2>6, WriteOK
  <1>7. QED BY <1>4, <1>5, <1>6

LEMMA UpdateRoleOK ==
  ASSUME SessionsInv, NEW t \in Tabs, UpdateRole(t)
  PROVE  SessionsInv'
  <1>1. PICK c \in Call : c = call[t] /\ CallOK(c)
    BY CallOf
  <1>2. /\ c.pc = "handle" /\ c.op = "role"
        /\ UNCHANGED <<profile, invitation, session, minted, lapsed, storage, calls, lapses>>
    BY <1>1 DEF UpdateRole, At
  <1>3. c.of \in Users /\ c.to \in Roles
    BY <1>1, <1>2 DEF CallOK, AimOK, IsGoal
  <1>4. CASE user[c.of].status = "ABSENT"
    <2>1. Answer(t) /\ UNCHANGED user
      BY <1>1, <1>4 DEF UpdateRole
    <2>2. QED BY <1>1, <1>2, <2>1, AnswerOnlyOK DEF tables
  <1>5. CASE user[c.of].status # "ABSENT"
    <2>1. PICK row : row = [user[c.of] EXCEPT !.role = c.to]
      OBVIOUS
    <2>2. user[c.of] \in [status: Statuses, role: Roles, via: Invitations \cup {NoInvitation}]
      BY <1>3 DEF SessionsInv, TablesType
    <2>3. /\ row \in [status: Statuses, role: Roles, via: Invitations \cup {NoInvitation}]
          /\ row.status = user[c.of].status /\ row.via = user[c.of].via
      BY <1>3, <2>1, <2>2
    <2>4. Write(t, c.of, row, "answer")
      BY <1>1, <1>5, <2>1 DEF UpdateRole
    <2>5. QED BY <1>1, <1>2, <1>3, <1>5, <2>3, <2>4, WriteOK
  <1>6. QED BY <1>4, <1>5

\* Steps that serve a call and change accounts, profiles or invitations, but
\* no row of a user that is there.
LEMMA AccountStep ==
  ASSUME SessionsInv, NEW t \in Tabs,
         \E new \in Call : call' = [call EXCEPT ![t] = new] /\ CallOK(new),
         user' \in [Users -> [status: Statuses, role: Roles, via: Invitations \cup {NoInvitation}]],
         \A u \in Users : user[u].status # "ABSENT" => user'[u] = user[u],
         invitation' \in [Invitations -> {"ABSENT", "OPEN", "ACCEPTED"}],
         \A i \in Invitations : invitation[i] # "ABSENT" => invitation'[i] # "ABSENT",
         ProfileType', AccountInv', OneProfilePerUser',
         UNCHANGED <<session, minted, lapsed, storage, calls, lapses>>
  PROVE  SessionsInv'
  <1>1. PICK new \in Call : call' = [call EXCEPT ![t] = new] /\ CallOK(new)
    OBVIOUS
  <1>2. minted \in Nat /\ lapsed.access \in Nat
    BY DEF SessionsInv, TablesType
  <1>3. Later
    BY <1>2 DEF Later
  <1>4. CallOK(new)'
    BY <1>1, <1>3, LaterCall DEF SessionsInv
  <1>5. TablesType' /\ BoundsType'
    BY DEF SessionsInv, TablesType, BoundsType
  <1>6. StorageInv'
    <2>1. ASSUME NEW b \in Browsers PROVE TokenOK(storage[b])'
      <3>1. PICK tk : tk = storage[b]
        OBVIOUS
      <3>2. TokenOK(tk)'
        BY <1>3, <3>1, LaterToken DEF SessionsInv, StorageInv
      <3>3. storage'[b] = tk
        BY <3>1
      <3>4. QED BY <3>2, <3>3 DEF TokenOK
    <2>2. QED BY <2>1 DEF SessionsInv, StorageInv
  <1>7. QED BY <1>1, <1>3, <1>4, <1>5, <1>6, ServeStep

LEMMA CreateInvitationOK ==
  ASSUME SessionsInv, NEW t \in Tabs, CreateInvitation(t)
  PROVE  SessionsInv'
  <1>1. /\ call[t].pc # "idle" /\ Answer(t)
        /\ UNCHANGED <<user, profile, session, minted, lapsed, storage, calls, lapses>>
    BY DEF CreateInvitation, At
  <1>2. invitation \in [Invitations -> {"ABSENT", "OPEN", "ACCEPTED"}]
    BY DEF SessionsInv, TablesType
  <1>3. /\ invitation' \in [Invitations -> {"ABSENT", "OPEN", "ACCEPTED"}]
        /\ \A i \in Invitations : /\ invitation'[i] = "ACCEPTED" <=> invitation[i] = "ACCEPTED"
                                  /\ invitation[i] # "ABSENT" => invitation'[i] # "ABSENT"
    <2> DEFINE unused == {i \in Invitations : /\ invitation[i] = "ABSENT"
                                              /\ AddressOf[i] = AddressOf[call[t].of]}
    <2>1. invitation' = IF unused = {} THEN invitation
                        ELSE [invitation EXCEPT ![CHOOSE i \in unused : TRUE] = "OPEN"]
      BY DEF CreateInvitation
    <2>2. CASE unused = {}
      BY <1>2, <2>1, <2>2
    <2>3. CASE unused # {}
      <3>1. PICK j : j = CHOOSE i \in unused : TRUE
        OBVIOUS
      <3>2. j \in unused
        BY <2>3, <3>1
      <3>3. j \in Invitations /\ invitation[j] = "ABSENT"
        BY <3>2
      <3>4. invitation' = [invitation EXCEPT ![j] = "OPEN"]
        BY <2>1, <2>3, <3>1
      <3>5. /\ invitation' \in [Invitations -> {"ABSENT", "OPEN", "ACCEPTED"}]
            /\ invitation'[j] = "OPEN"
            /\ \A i \in Invitations : i # j => invitation'[i] = invitation[i]
        BY <1>2, <3>3, <3>4
      <3>6. QED BY <3>3, <3>5
    <2>4. QED BY <2>2, <2>3
  <1>4. AccountInv'
    <2>1. \A i \in Invitations : invitation'[i] = "ACCEPTED" <=> invitation[i] = "ACCEPTED"
      BY <1>3
    <2>2. QED BY <1>1, <2>1 DEF SessionsInv, AccountInv, AcceptedOnce
  <1>5. ProfileType' /\ OneProfilePerUser' /\ \A u \in Users : user'[u] = user[u]
    BY <1>1 DEF SessionsInv, ProfileType, OneProfilePerUser
  <1>6. user' \in [Users -> [status: Statuses, role: Roles, via: Invitations \cup {NoInvitation}]]
    BY <1>1 DEF SessionsInv, TablesType
  <1>7. \A i \in Invitations : invitation[i] # "ABSENT" => invitation'[i] # "ABSENT"
    BY <1>3
  <1>8. invitation' \in [Invitations -> {"ABSENT", "OPEN", "ACCEPTED"}]
    BY <1>3
  <1>9. QED BY <1>1, <1>4, <1>5, <1>6, <1>7, <1>8, Answering, AccountStep

LEMMA CreateOperatorOK ==
  ASSUME SessionsInv, NEW t \in Tabs, CreateOperator(t)
  PROVE  SessionsInv'
  <1>1. PICK c \in Call : c = call[t] /\ CallOK(c)
    BY CallOf
  <1>2. /\ c.pc = "insert" /\ c.op = "operator" /\ Answer(t)
        /\ UNCHANGED <<user, invitation, session, minted, lapsed, storage, calls, lapses>>
    BY <1>1 DEF CreateOperator, At
  <1>3. c.of \in Users
    BY <1>1, <1>2 DEF CallOK, AimOK, IsGoal
  <1>4. profile' = IF ProfileUnique(c.of) THEN profile \cup {[user |-> c.of, by |-> t]} ELSE profile
    BY <1>1 DEF CreateOperator
  <1>5. ProfileType' /\ OneProfilePerUser'
    BY <1>3, <1>4 DEF SessionsInv, ProfileType, OneProfilePerUser, ProfileUnique, HasProfile
  <1>6. AccountInv' /\ \A u \in Users : user'[u] = user[u]
    BY <1>2 DEF SessionsInv, AccountInv, AcceptedOnce
  <1>7. /\ user' \in [Users -> [status: Statuses, role: Roles, via: Invitations \cup {NoInvitation}]]
        /\ invitation' \in [Invitations -> {"ABSENT", "OPEN", "ACCEPTED"}]
    BY <1>2 DEF SessionsInv, TablesType
  <1>8. QED BY <1>1, <1>2, <1>5, <1>6, <1>7, Answering, AccountStep

LEMMA AcceptInviteOK ==
  ASSUME SessionsInv, NEW t \in Tabs, AcceptInvite(t)
  PROVE  SessionsInv'
  <1>1. PICK c \in Call : c = call[t] /\ CallOK(c)
    BY CallOf
  <1>2. /\ c.pc = "join" /\ End(t)
        /\ UNCHANGED <<profile, session, minted, lapsed, storage, calls, lapses>>
    BY <1>1 DEF AcceptInvite, At
  <1>3. c.of \in Invitations
    BY <1>1, <1>2 DEF CallOK, AimOK, IsGoal
  <1>4. /\ user \in [Users -> [status: Statuses, role: Roles, via: Invitations \cup {NoInvitation}]]
        /\ invitation \in [Invitations -> {"ABSENT", "OPEN", "ACCEPTED"}]
    BY DEF SessionsInv, TablesType
  <1>5. ProfileType' /\ OneProfilePerUser'
    BY <1>2 DEF SessionsInv, ProfileType, OneProfilePerUser
  <1>6. CASE ~Joins(c.of)
    <2>1. UNCHANGED <<user, invitation>>
      BY <1>1, <1>6 DEF AcceptInvite
    <2>2. AccountInv'
      BY <2>1 DEF SessionsInv, AccountInv, AcceptedOnce
    <2>3. QED BY <1>2, <1>4, <1>5, <2>1, <2>2, Ending, AccountStep
  <1>7. CASE Joins(c.of)
    <2>1. PICK u : u = CHOOSE x \in Users : user[x].status = "ABSENT"
      OBVIOUS
    <2>2. u \in Users /\ user[u].status = "ABSENT"
      BY <1>7, <2>1 DEF Joins
    <2>3. PICK row : row = [status |-> "ACTIVE", role |-> "OPERATOR", via |-> c.of]
      OBVIOUS
    <2>4. /\ user' = [user EXCEPT ![u] = row]
          /\ invitation' = [invitation EXCEPT ![c.of] = "ACCEPTED"]
      BY <1>1, <1>7, <2>1, <2>3 DEF AcceptInvite
    <2>5. /\ row \in [status: Statuses, role: Roles, via: Invitations \cup {NoInvitation}]
          /\ row.status # "ABSENT" /\ row.via = c.of
      BY <1>3, <2>3 DEF Statuses, Roles
    <2>6. /\ user' \in [Users -> [status: Statuses, role: Roles, via: Invitations \cup {NoInvitation}]]
          /\ user'[u] = row /\ \A v \in Users : v # u => user'[v] = user[v]
      BY <1>4, <2>2, <2>4, <2>5
    <2>7. /\ invitation' \in [Invitations -> {"ABSENT", "OPEN", "ACCEPTED"}]
          /\ invitation'[c.of] = "ACCEPTED"
          /\ \A i \in Invitations : i # c.of => invitation'[i] = invitation[i]
      BY <1>3, <1>4, <2>4
    <2>8. user[u].via = NoInvitation /\ c.of # NoInvitation
      BY <1>3, <2>2, SessionsConstantsOK DEF SessionsInv, AccountInv
    <2>9. ASSUME NEW v \in Users, v # u, user[v].via # NoInvitation
          PROVE  AddressOf[user[v].via] # AddressOf[c.of]
      BY <1>7, <2>9 DEF Joins, Taken
    <2>10. AcceptedOnce'
      <3>1. ASSUME NEW i \in Invitations
            PROVE  invitation'[i] = "ACCEPTED" <=> \E v \in Users : user'[v].via = i
        <4>1. CASE i = c.of
          BY <2>2, <2>5, <2>6, <2>7, <4>1
        <4>2. CASE i # c.of
          <5>1. i # NoInvitation
            BY SessionsConstantsOK
          <5>2. (\E v \in Users : user'[v].via = i) <=> \E v \in Users : user[v].via = i
            BY <2>2, <2>5, <2>6, <2>8, <4>2, <5>1
          <5>3. QED BY <2>7, <4>2, <5>2 DEF SessionsInv, AccountInv, AcceptedOnce
        <4>3. QED BY <4>1, <4>2
      <3>2. ASSUME NEW v \in Users, NEW w \in Users,
                   user'[v].via # NoInvitation, user'[w].via # NoInvitation,
                   AddressOf[user'[v].via] = AddressOf[user'[w].via]
            PROVE  v = w
        <4>1. CASE v # u /\ w # u
          BY <2>6, <3>2, <4>1 DEF SessionsInv, AccountInv, AcceptedOnce
        <4>2. CASE v = u /\ w # u
          BY <2>5, <2>6, <2>9, <3>2, <4>2
        <4>3. CASE v # u /\ w = u
          BY <2>5, <2>6, <2>9, <3>2, <4>3
        <4>4. QED BY <4>1, <4>2, <4>3
      <3>3. QED BY <3>1, <3>2 DEF AcceptedOnce
    <2>11. AccountInv'
      BY <2>5, <2>6, <2>10 DEF SessionsInv, AccountInv
    <2>12. \A v \in Users : user[v].status # "ABSENT" => user'[v] = user[v]
      BY <2>2, <2>6
    <2>13. QED BY <1>2, <1>5, <2>6, <2>7, <2>11, <2>12, Ending, AccountStep
  <1>8. QED BY <1>6, <1>7

-----------------------------------------------------------------------------
(* The invariant holds throughout. *)

LEMMA SessionsInit == Init => SessionsInv
  <1> SUFFICES ASSUME Init
               PROVE  SessionsInv
    OBVIOUS
  <1> DEFINE n == Len(Owner)
  <1>1. n \in Nat /\ Browsers = 1 .. n /\ \A b \in Browsers : Owner[b] \in Users /\ Owner[b] \in Seeded
    BY SessionsConstantsOK DEF Browsers, Seeded
  <1>2. /\ user = [u \in Users |-> [status |-> IF u \in Seeded THEN "ACTIVE" ELSE "ABSENT",
                                    role   |-> IF u \in Admins THEN "ADMIN" ELSE "OPERATOR",
                                    via    |-> NoInvitation]]
        /\ invitation = [i \in Invitations |-> IF i \in Invited THEN "OPEN" ELSE "ABSENT"]
    BY DEF Init
  <1>3. /\ session = [b \in Browsers |-> [user |-> Owner[b], token |-> b, revoked |-> FALSE]]
        /\ minted = n /\ lapsed = [access |-> 0, session |-> 0]
    BY DEF Init
  <1>4. user \in [Users -> [status: Statuses, role: Roles, via: Invitations \cup {NoInvitation}]]
    BY <1>2 DEF Statuses, Roles
  <1>5. session \in [DOMAIN session -> [user: Users, token: 1 .. minted, revoked: BOOLEAN]]
    BY <1>1, <1>3
  <1>6. TablesType
    BY <1>1, <1>2, <1>3, <1>4, <1>5 DEF TablesType
  <1>7. StorageInv
    <2>1. storage = [b \in Browsers |-> [user |-> Owner[b], session |-> b, n |-> b]]
      BY DEF Init
    <2>2. \A b \in Browsers : storage[b] \in Tokens
      BY <1>1, <2>1 DEF Tokens
    <2>3. \A b \in Browsers : TokenOK(storage[b])
      <3>1. TAKE b \in Browsers
      <3>2. storage[b].session \in DOMAIN session /\ storage[b].n \in 1 .. minted
        BY <1>1, <1>3, <2>1
      <3>3. user[storage[b].user].status # "ABSENT"
        BY <1>1, <1>2, <2>1
      <3>4. QED BY <2>2, <3>2, <3>3 DEF TokenOK
    <2>4. QED BY <2>1, <2>2, <2>3 DEF StorageInv
  <1>8. CallsInv
    <2>1. call = [t \in Tabs |-> NoCall] /\ CallOK(NoCall)
      BY NoCallOK DEF Init
    <2>2. NoCall \in Call
      BY <2>1 DEF CallOK
    <2>3. QED BY <2>1, <2>2 DEF CallsInv
  <1>9. AccountInv
    <2>1. /\ \A u \in Users : user[u].via = NoInvitation
          /\ \A i \in Invitations : invitation[i] # "ACCEPTED"
      BY <1>2
    <2>2. QED BY <2>1, SessionsConstantsOK DEF AccountInv, AcceptedOnce
  <1>10. ProfileType /\ OneProfilePerUser
    BY DEF Init, ProfileType, OneProfilePerUser
  <1>11. BoundsType
    BY SessionsConstantsOK DEF Init, BoundsType
  <1>12. QED BY <1>6, <1>7, <1>8, <1>9, <1>10, <1>11 DEF SessionsInv

LEMMA SessionsStutter == SessionsInv /\ UNCHANGED vars => SessionsInv'
  <1> SUFFICES ASSUME SessionsInv, UNCHANGED vars
               PROVE  SessionsInv'
    OBVIOUS
  <1> USE DEF vars, tables
  <1>1. TablesType' /\ ProfileType' /\ BoundsType' /\ AccountInv' /\ OneProfilePerUser'
    BY DEF SessionsInv, TablesType, ProfileType, BoundsType, AccountInv, AcceptedOnce, OneProfilePerUser
  <1>2. StorageInv'
    BY DEF SessionsInv, StorageInv, TokenOK
  <1>3. \A c \in Call : CallOK(c) => CallOK(c)'
    BY DEF CallOK, TokenOK, BarredOK, AimOK, RanOK, Holds, IsActive, Permitted
  <1>4. CallsInv'
    BY <1>3 DEF SessionsInv, CallsInv
  <1>5. QED BY <1>1, <1>2, <1>4 DEF SessionsInv

LEMMA SessionsStep == SessionsInv /\ [Next]_vars => SessionsInv'
  <1> SUFFICES ASSUME SessionsInv, [Next]_vars
               PROVE  SessionsInv'
    OBVIOUS
  <1>1. CASE UNCHANGED vars
    BY <1>1, SessionsStutter
  <1>2. CASE \E what \in {"access", "session"} : Lapse(what)
    BY <1>2, LapseOK
  <1>3. ASSUME NEW t \in Tabs, Submit(t) \/ Step(t) \/ Lose(t)
        PROVE  SessionsInv'
    <2>1. CASE Submit(t)
      BY <2>1, SubmitOK
    <2>2. CASE Lose(t)
      BY <2>2, LoseOK
    <2>3. CASE FindSession(t) \/ FindAuthProfile(t) \/ Read(t)
      BY <2>3, FindSessionOK, FindAuthProfileOK, ReadOK
    <2>4. CASE Logout(t) \/ RevokeSessions(t)
      BY <2>4, RevokeOK
    <2>5. CASE UpdateStatus(t) \/ UpdateRole(t)
      BY <2>5, UpdateStatusOK, UpdateRoleOK
    <2>6. CASE CheckFirst(t) \/ CreateInvitation(t) \/ CreateOperator(t)
      BY <2>6, CheckFirstOK, CreateInvitationOK, CreateOperatorOK
    <2>7. CASE Receive(t) \/ SaveTokens(t) \/ FindSessionByRefreshToken(t)
      BY <2>7, ReceiveOK, SaveTokensOK, FindSessionByRefreshTokenOK
    <2>8. CASE FindActiveByEmail(t) \/ FindInvitation(t)
      BY <2>8, LookupOK
    <2>9. CASE CreateSession(t) \/ Rotate(t) \/ AcceptInvite(t)
      BY <2>9, CreateSessionOK, RotateOK, AcceptInviteOK
    <2>10. QED
      BY <1>3, <2>1, <2>2, <2>3, <2>4, <2>5, <2>6, <2>7, <2>8, <2>9 DEF Step
  <1>4. QED BY <1>1, <1>2, <1>3 DEF Next

\* What holds of accounts, sessions, tokens and of every call on its way, from
\* the first state on and however calls interleave and fail.
THEOREM SessionsInvariant == Spec => []SessionsInv
  BY SessionsInit, SessionsStep, PTL DEF Spec

\* Every variable of the model keeps its type: accounts, sessions, the tokens
\* of a browser and the calls of its tabs (Session, User, token-storage.ts).
THEOREM SessionsTypeCorrect == Spec => []TypeOK
  <1>1. SessionsInv => TypeOK
    BY DEF SessionsInv, TablesType, ProfileType, BoundsType, StorageInv, CallsInv, TypeOK
  <1>2. QED BY <1>1, SessionsInvariant, PTL

\* JwtAuthGuard and PermissionsGuard look at the session, the user and the role
\* one after the other, yet let in no call that was hopeless when it was sent.
THEOREM SessionsNoLateEntry == Spec => []NoLateEntry
  <1>1. SessionsInv => NoLateEntry
    BY CallOf DEF NoLateEntry, CallOK, BarredOK
  <1>2. QED BY <1>1, SessionsInvariant, PTL

\* refresh rotates a session for no token that was redeemed, or whose session
\* or user was shut out, before the client sent it.
THEOREM SessionsNoReplay == Spec => []NoReplay
  <1>1. SessionsInv => NoReplay
    BY CallOf DEF NoReplay, At, CallOK, BarredOK
  <1>2. QED BY <1>1, SessionsInvariant, PTL

\* acceptInvite marks an invitation accepted if and only if it made an account,
\* and makes one account an address, however many run at once.
THEOREM SessionsAcceptedOnce == Spec => []AcceptedOnce
  <1>1. SessionsInv => AcceptedOnce
    BY DEF SessionsInv, AccountInv
  <1>2. QED BY <1>1, SessionsInvariant, PTL

\* operators.create, which checks first and inserts later, leaves a user with
\* one profile at most.
THEOREM SessionsOneProfile == Spec => []OneProfilePerUser
  <1>1. SessionsInv => OneProfilePerUser
    BY DEF SessionsInv
  <1>2. QED BY <1>1, SessionsInvariant, PTL

\* authenticatedRequest, which sends a call again after it renewed the tokens,
\* sends none again whose handler has run.
THEOREM SessionsHandledOnce == Spec => []HandledOnce
  <1>1. SessionsInv => HandledOnce
    BY CallOf DEF HandledOnce, CallOK, RanOK
  <1>2. QED BY <1>1, SessionsInvariant, PTL

-----------------------------------------------------------------------------
(* Every step is one of Access, or none. *)

TicketOf(s) == [id |-> s, user |-> session[s].user, token |-> session[s].token,
                ended |-> session[s].revoked]

LEMMA TicketsAre == Tickets = {TicketOf(s) : s \in DOMAIN session}
  BY DEF Tickets, TicketOf

LEMMA AccountsKept ==
  ASSUME UNCHANGED invitation,
         \A u \in Users : /\ user'[u].via = user[u].via
                          /\ user'[u].status = "ABSENT" <=> user[u].status = "ABSENT"
  PROVE  /\ Members' = Members /\ Joined' = Joined
         /\ \A statuses : InvitationsIn(statuses)' = InvitationsIn(statuses)
  <1>1. Members' = Members
    BY DEF Members
  <1>2. {v \in Users : user'[v].via # NoInvitation} = {v \in Users : user[v].via # NoInvitation}
    OBVIOUS
  <1>3. Joined' = Joined
    BY <1>2 DEF Joined
  <1>4. QED BY <1>1, <1>3 DEF InvitationsIn

LEMMA SessionsKept == UNCHANGED <<session, minted>> => Tickets' = Tickets /\ (1 .. minted)' = 1 .. minted
  BY DEF Tickets

LEMMA QuietOfAccess ==
  ASSUME UNCHANGED <<tables, minted>>
  PROVE  UNCHANGED TheAccess!vars
  <1>1. UNCHANGED <<user, invitation, session, minted, profile>>
    BY DEF tables
  <1>2. /\ Members' = Members /\ Joined' = Joined
        /\ \A statuses : InvitationsIn(statuses)' = InvitationsIn(statuses)
    BY <1>1, AccountsKept
  <1>3. QED BY <1>1, <1>2, SessionsKept DEF TheAccess!vars

\* An administrator changes the row of a user who stays a member.
LEMMA WriteOfAccess ==
  ASSUME SessionsInv, NEW t \in Tabs, UpdateStatus(t) \/ UpdateRole(t)
  PROVE  UNCHANGED TheAccess!vars
  <1>1. UNCHANGED <<profile, invitation, session, minted>>
    BY DEF UpdateStatus, UpdateRole
  <1>2. PICK c \in Call : c = call[t] /\ CallOK(c)
    BY CallOf
  <1>3. user \in [Users -> [status: Statuses, role: Roles, via: Invitations \cup {NoInvitation}]]
    BY DEF SessionsInv, TablesType
  <1>4. /\ c.pc = "handle" /\ c.op \in {"status", "role"} /\ c.of \in Users
        /\ c.op = "status" => c.to # "ABSENT"
    BY <1>2 DEF UpdateStatus, UpdateRole, At, CallOK, AimOK, IsGoal
  <1>5. PICK old : old = user[c.of] /\ old \in [status: Statuses, role: Roles, via: Invitations \cup {NoInvitation}]
    BY <1>3, <1>4
  <1>6. \/ UNCHANGED user
        \/ /\ old.status # "ABSENT"
           /\ \/ c.op = "status" /\ user' = [user EXCEPT ![c.of] = [old EXCEPT !.status = c.to]]
              \/ user' = [user EXCEPT ![c.of] = [old EXCEPT !.role = c.to]]
    BY <1>2, <1>5 DEF UpdateStatus, UpdateRole, Write
  <1>7. ASSUME NEW u \in Users
        PROVE  /\ user'[u].via = user[u].via
               /\ user'[u].status = "ABSENT" <=> user[u].status = "ABSENT"
    <2>1. CASE UNCHANGED user
      BY <2>1
    <2>2. CASE u # c.of
      BY <1>3, <1>4, <1>6, <2>2
    <2>3. CASE u = c.of /\ ~UNCHANGED user
      <3>1. \/ user'[u] = [old EXCEPT !.status = c.to] /\ c.op = "status"
            \/ user'[u] = [old EXCEPT !.role = c.to]
        BY <1>3, <1>4, <1>6, <2>3
      <3>2. QED BY <1>4, <1>5, <1>6, <2>3, <3>1
    <2>4. QED BY <2>1, <2>2, <2>3
  <1>8. /\ Members' = Members /\ Joined' = Joined
        /\ \A statuses : InvitationsIn(statuses)' = InvitationsIn(statuses)
    BY <1>1, <1>7, AccountsKept
  <1>9. QED BY <1>1, <1>8, SessionsKept DEF TheAccess!vars

\* invite may make a row of an invitation.
LEMMA InviteOfAccess ==
  ASSUME SessionsInv, NEW t \in Tabs, CreateInvitation(t)
  PROVE  TheAccess!Invite \/ UNCHANGED TheAccess!vars
  <1> DEFINE unused == {i \in Invitations : /\ invitation[i] = "ABSENT"
                                            /\ AddressOf[i] = AddressOf[call[t].of]}
  <1>1. /\ UNCHANGED <<user, profile, session, minted>>
        /\ invitation' = IF unused = {} THEN invitation
                         ELSE [invitation EXCEPT ![CHOOSE i \in unused : TRUE] = "OPEN"]
    BY DEF CreateInvitation
  <1>2. CASE unused = {}
    BY <1>1, <1>2, QuietOfAccess DEF tables
  <1>3. CASE unused # {}
    <2>1. PICK i : i = CHOOSE x \in unused : TRUE
      OBVIOUS
    <2>2. i \in Invitations /\ invitation[i] = "ABSENT"
      BY <1>3, <2>1
    <2>3. invitation' = [invitation EXCEPT ![i] = "OPEN"] /\ DOMAIN invitation = Invitations
      BY <1>1, <1>3, <2>1 DEF SessionsInv, TablesType
    <2>4. invitation'[i] = "OPEN" /\ \A j \in Invitations : j # i => invitation'[j] = invitation[j]
      BY <2>2, <2>3
    <2>5. InvitationsIn({"ACCEPTED"})' = InvitationsIn({"ACCEPTED"})
      BY <2>2, <2>4 DEF InvitationsIn
    <2>6. InvitationsIn({"OPEN", "ACCEPTED"})' = InvitationsIn({"OPEN", "ACCEPTED"}) \cup {i}
      BY <2>2, <2>4 DEF InvitationsIn
    <2>7. i \in Invitations \ InvitationsIn({"OPEN", "ACCEPTED"})
      BY <2>2 DEF InvitationsIn
    <2>8. Members' = Members /\ Joined' = Joined
      BY <1>1 DEF Members, Joined
    <2>9. QED BY <1>1, <2>5, <2>6, <2>7, <2>8, SessionsKept DEF TheAccess!Invite
  <1>4. QED BY <1>2, <1>3

\* acceptInvite may make an account.
LEMMA JoinOfAccess ==
  ASSUME SessionsInv, NEW t \in Tabs, AcceptInvite(t)
  PROVE  TheAccess!Join \/ UNCHANGED TheAccess!vars
  <1>1. PICK c \in Call : c = call[t] /\ CallOK(c)
    BY CallOf
  <1>2. c.pc = "join" /\ UNCHANGED <<profile, session, minted>>
    BY <1>1 DEF AcceptInvite, At
  <1>3. c.of \in Invitations /\ invitation[c.of] # "ABSENT"
    BY <1>1, <1>2 DEF CallOK, AimOK, IsGoal
  <1>4. CASE ~Joins(c.of)
    <2>1. UNCHANGED <<user, invitation>>
      BY <1>1, <1>4 DEF AcceptInvite
    <2>2. QED BY <1>2, <2>1, QuietOfAccess DEF tables
  <1>5. CASE Joins(c.of)
    <2>1. PICK u : u = CHOOSE x \in Users : user[x].status = "ABSENT"
      OBVIOUS
    <2>2. u \in Users /\ user[u].status = "ABSENT"
      BY <1>5, <2>1 DEF Joins
    <2>3. PICK i : i = c.of
      OBVIOUS
    <2>4. PICK row : row = [status |-> "ACTIVE", role |-> "OPERATOR", via |-> i]
      OBVIOUS
    <2>5. user' = [user EXCEPT ![u] = row] /\ invitation' = [invitation EXCEPT ![i] = "ACCEPTED"]
      BY <1>1, <1>5, <2>1, <2>3, <2>4 DEF AcceptInvite
    <2>6. /\ DOMAIN user = Users /\ DOMAIN invitation = Invitations
          /\ invitation \in [Invitations -> {"ABSENT", "OPEN", "ACCEPTED"}]
      BY DEF SessionsInv, TablesType
    <2>7. user'[u] = row /\ \A v \in Users : v # u => user'[v] = user[v]
      BY <2>2, <2>5, <2>6
    <2>8. invitation'[i] = "ACCEPTED" /\ \A j \in Invitations : j # i => invitation'[j] = invitation[j]
      BY <1>3, <2>3, <2>5, <2>6
    <2>9. row.status = "ACTIVE" /\ row.via = i /\ i \in Invitations /\ i # NoInvitation
      BY <1>3, <2>3, <2>4, SessionsConstantsOK
    <2>10. user[u].via = NoInvitation
      BY <2>2 DEF SessionsInv, AccountInv
    <2>11. \A v \in Users : user[v].via # NoInvitation => AddressOf[user[v].via] # AddressOf[i]
      BY <1>5, <2>3 DEF Joins, Taken
    <2>12. invitation[i] = "OPEN"
      <3>1. ASSUME invitation[i] = "ACCEPTED" PROVE FALSE
        <4>1. PICK v \in Users : user[v].via = i
          BY <2>9, <3>1 DEF SessionsInv, AccountInv, AcceptedOnce
        <4>2. QED BY <2>9, <2>11, <4>1
      <3>2. QED BY <1>3, <2>3, <2>6, <2>9, <3>1
    <2>13. u \in Users \ Members /\ Members' = Members \cup {u}
      BY <2>2, <2>7, <2>9 DEF Members
    <2>14. /\ InvitationsIn({"OPEN", "ACCEPTED"})' = InvitationsIn({"OPEN", "ACCEPTED"})
           /\ InvitationsIn({"ACCEPTED"})' = InvitationsIn({"ACCEPTED"}) \cup {i}
           /\ i \in InvitationsIn({"OPEN", "ACCEPTED"}) \ InvitationsIn({"ACCEPTED"})
      BY <2>8, <2>9, <2>12 DEF InvitationsIn
    <2>15. Joined' = Joined \cup {[user |-> u, by |-> i]}
      <3>1. {v \in Users : user'[v].via # NoInvitation} = {v \in Users : user[v].via # NoInvitation} \cup {u}
        BY <2>2, <2>7, <2>9
      <3>2. \A v \in {w \in Users : user[w].via # NoInvitation} : v # u /\ user'[v].via = user[v].via
        BY <2>7, <2>10
      <3>3. QED BY <2>7, <2>9, <3>1, <3>2 DEF Joined
    <2>16. \A j \in Joined : AddressOf[j.by] # AddressOf[i]
      <3>1. ASSUME NEW v \in {w \in Users : user[w].via # NoInvitation},
                   NEW j, j = [user |-> v, by |-> user[v].via]
            PROVE  AddressOf[j.by] # AddressOf[i]
        BY <2>11, <3>1
      <3>2. QED BY <3>1 DEF Joined
    <2>17. QED
      BY <1>2, <2>13, <2>14, <2>15, <2>16, SessionsKept DEF TheAccess!Join
  <1>6. QED BY <1>4, <1>5

\* operators.create may insert a profile.
LEMMA AppointOfAccess ==
  ASSUME SessionsInv, NEW t \in Tabs, CreateOperator(t)
  PROVE  TheAccess!Appoint \/ UNCHANGED TheAccess!vars
  <1>1. PICK c \in Call : c = call[t] /\ CallOK(c)
    BY CallOf
  <1>2. c.pc = "insert" /\ c.op = "operator" /\ UNCHANGED <<user, invitation, session, minted>>
    BY <1>1 DEF CreateOperator, At
  <1>3. c.of \in Members
    BY <1>1, <1>2 DEF CallOK, AimOK, IsGoal, Members
  <1>4. /\ Members' = Members /\ Joined' = Joined
        /\ \A statuses : InvitationsIn(statuses)' = InvitationsIn(statuses)
    BY <1>2, AccountsKept
  <1>5. profile' = IF ProfileUnique(c.of) THEN profile \cup {[user |-> c.of, by |-> t]} ELSE profile
    BY <1>1 DEF CreateOperator
  <1>6. CASE ProfileUnique(c.of)
    <2>1. \A a \in profile : a.user # c.of
      BY <1>6 DEF ProfileUnique, HasProfile
    <2>2. QED BY <1>2, <1>3, <1>4, <1>5, <1>6, <2>1, SessionsKept DEF TheAccess!Appoint
  <1>7. CASE ~ProfileUnique(c.of)
    BY <1>2, <1>4, <1>5, <1>7, SessionsKept DEF TheAccess!vars
  <1>8. QED BY <1>6, <1>7

\* A ticket after the sessions in scope are revoked.
LEMMA TicketEnds ==
  ASSUME SessionsInv, NEW scope, Revoke(scope), NEW s \in DOMAIN session,
         NEW over, TicketOf(s) \in over <=> s \in scope, NEW k, k = TicketOf(s)
  PROVE  TicketOf(s)' = [k EXCEPT !.ended = @ \/ k \in over]
  <1>1. PICK row : row = session[s]
    OBVIOUS
  <1>2. DOMAIN row = {"user", "token", "revoked"}
    BY <1>1 DEF SessionsInv, TablesType
  <1>3. session'[s] = [row EXCEPT !.revoked = @ \/ s \in scope]
    BY <1>1 DEF Revoke
  <1>4. PICK e : e = (row.revoked \/ s \in scope)
    OBVIOUS
  <1>5. session'[s] = [row EXCEPT !.revoked = e]
    BY <1>3, <1>4
  <1>6. session'[s].user = row.user /\ session'[s].token = row.token /\ session'[s].revoked = e
    BY <1>2, <1>5
  <1>7. k = [id |-> s, user |-> row.user, token |-> row.token, ended |-> row.revoked]
    BY <1>1 DEF TicketOf
  <1>8. [k EXCEPT !.ended = e] = [id |-> s, user |-> row.user, token |-> row.token, ended |-> e]
    BY <1>7
  <1>9. TicketOf(s)' = [k EXCEPT !.ended = e]
    BY <1>6, <1>8 DEF TicketOf
  <1>10. (k.ended \/ k \in over) = e
    <2>1. k.ended = row.revoked
      BY <1>7
    <2>2. QED BY <1>4, <2>1
  <1>11. QED BY <1>9, <1>10

LEMMA TicketsEnd ==
  ASSUME SessionsInv, NEW scope, Revoke(scope),
         NEW over, \A s \in DOMAIN session : TicketOf(s) \in over <=> s \in scope
  PROVE  Tickets' = TheAccess!Ended(over)
  <1> DEFINE after(k) == [k EXCEPT !.ended = @ \/ k \in over]
  <1>1. DOMAIN session' = DOMAIN session
    BY DEF Revoke
  <1>2. ASSUME NEW s \in DOMAIN session PROVE TicketOf(s)' = after(TicketOf(s))
    BY <1>2, TicketEnds
  <1>3. TheAccess!Ended(over) = {after(k) : k \in Tickets}
    BY DEF TheAccess!Ended
  <1> HIDE DEF after
  <1>4. Tickets' = {TicketOf(s)' : s \in DOMAIN session'}
    BY TicketsAre DEF Tickets, TicketOf
  <1>5. QED BY <1>1, <1>2, <1>3, <1>4, TicketsAre

\* Logout, logoutAll and the second statement of a suspension end sessions.
LEMMA RevokeOfAccess ==
  ASSUME SessionsInv, NEW t \in Tabs, Logout(t) \/ RevokeSessions(t)
  PROVE  TheAccess!End \/ UNCHANGED TheAccess!vars
  <1>1. PICK c \in Call : c = call[t] /\ CallOK(c)
    BY CallOf
  <1>2. c.pc \in {"handle", "revoke"} /\ UNCHANGED <<user, profile, invitation, minted>>
    BY <1>1 DEF Logout, RevokeSessions, At
  <1>3. c.token # NoToken /\ c.token.session \in DOMAIN session
    BY <1>1, <1>2 DEF CallOK, BarredOK, TokenOK
  <1>4. PICK scope : /\ Revoke(scope)
                     /\ (\E s \in DOMAIN session : scope = {s}) \/ (\E u : scope = SessionsOf(u))
    BY <1>1, <1>3 DEF Logout, RevokeSessions
  <1>5. /\ Members' = Members /\ Joined' = Joined
        /\ \A statuses : InvitationsIn(statuses)' = InvitationsIn(statuses)
    BY <1>2, AccountsKept
  <1>6. ASSUME NEW s \in DOMAIN session, scope = {s} PROVE TheAccess!End
    <2>1. PICK k : k = TicketOf(s)
      OBVIOUS
    <2>2. \A r \in DOMAIN session : TicketOf(r) \in {k} <=> r \in scope
      BY <1>6, <2>1 DEF TicketOf
    <2>3. Tickets' = TheAccess!Ended({k}) /\ k \in Tickets
      BY <1>4, <2>1, <2>2, TicketsEnd, TicketsAre
    <2>4. QED BY <1>2, <1>5, <2>3 DEF TheAccess!End
  <1>7. ASSUME NEW u, scope = SessionsOf(u), NEW s \in scope PROVE TheAccess!End
    <2>1. PICK k : k = TicketOf(s)
      OBVIOUS
    <2>2. s \in DOMAIN session /\ k.user = u
      BY <1>7, <2>1 DEF SessionsOf, TicketOf
    <2> DEFINE over == {x \in Tickets : x.user = k.user}
    <2>3. \A r \in DOMAIN session : TicketOf(r) \in over <=> r \in scope
      <3>1. TAKE r \in DOMAIN session
      <3>2. TicketOf(r) \in Tickets /\ TicketOf(r).user = session[r].user
        BY TicketsAre DEF TicketOf
      <3>3. QED BY <1>7, <2>2, <3>2 DEF SessionsOf
    <2> HIDE DEF over
    <2>4. Tickets' = TheAccess!Ended(over) /\ k \in Tickets
      BY <1>4, <2>1, <2>2, <2>3, TicketsEnd, TicketsAre
    <2>5. QED BY <1>2, <1>5, <2>4 DEF TheAccess!End, over
  <1>8. ASSUME NEW u, scope = SessionsOf(u), scope = {} PROVE UNCHANGED TheAccess!vars
    <2>1. \A r \in DOMAIN session : TicketOf(r) \in {} <=> r \in scope
      BY <1>8
    <2>2. Tickets' = TheAccess!Ended({})
      BY <1>4, <2>1, TicketsEnd
    <2>3. \A s \in DOMAIN session : session'[s] = session[s]
      <3>1. TAKE s \in DOMAIN session
      <3>2. PICK row : row = session[s]
        OBVIOUS
      <3>3. row \in [user: Users, token: 1 .. minted, revoked: BOOLEAN]
        BY <3>2 DEF SessionsInv, TablesType
      <3>4. session'[s] = [row EXCEPT !.revoked = @ \/ s \in {}]
        BY <1>4, <1>8, <3>2 DEF Revoke
      <3>5. (row.revoked \/ s \in {}) = row.revoked
        BY <3>3
      <3>6. session'[s] = [row EXCEPT !.revoked = row.revoked]
        BY <3>4, <3>5
      <3>7. QED BY <3>2, <3>3, <3>6
    <2>4. DOMAIN session' = DOMAIN session
      BY <1>4 DEF Revoke
    <2>5. Tickets' = Tickets
      BY <2>3, <2>4 DEF Tickets
    <2>6. QED BY <1>2, <1>5, <2>5 DEF TheAccess!vars
  <1>9. QED BY <1>4, <1>6, <1>7, <1>8

\* Login opens a session under a token of its own.
LEMMA OpenOfAccess ==
  ASSUME SessionsInv, NEW t \in Tabs, CreateSession(t)
  PROVE  TheAccess!Open
  <1> DEFINE s == minted + 1
             row == [user |-> call[t].of, token |-> minted + 1, revoked |-> FALSE]
  <1>1. /\ call[t].pc = "open" /\ minted' = minted + 1
        /\ session' = [x \in DOMAIN session \cup {s} |-> IF x = s THEN row ELSE session[x]]
        /\ UNCHANGED <<user, profile, invitation>>
    BY DEF CreateSession, At, Issue
  <1>2. minted \in Nat /\ DOMAIN session \subseteq 1 .. minted
    BY DEF SessionsInv, TablesType
  <1>3. PICK c \in Call : c = call[t] /\ CallOK(c)
    BY CallOf
  <1>4. c.of \in Members
    BY <1>1, <1>3 DEF CallOK, AimOK, IsGoal, Members
  <1>5. PICK k : k = [id |-> s, user |-> c.of, token |-> s, ended |-> FALSE]
    OBVIOUS
  <1>6. session'[s].user = c.of /\ session'[s].token = s /\ session'[s].revoked = FALSE
    BY <1>1, <1>3
  <1>7. s \notin DOMAIN session /\ DOMAIN session' = DOMAIN session \cup {s}
    BY <1>1, <1>2
  <1>8. ASSUME NEW x \in DOMAIN session PROVE session'[x] = session[x]
    BY <1>1, <1>7
  <1>9. s \in Nat /\ s \notin 1 .. minted /\ 1 .. minted' = (1 .. minted) \cup {s}
    BY <1>1, <1>2
  <1> HIDE DEF s, row
  <1>10. Tickets' = Tickets \cup {k}
    <2>1. Tickets' = {[id |-> x, user |-> session'[x].user, token |-> session'[x].token,
                       ended |-> session'[x].revoked] : x \in DOMAIN session \cup {s}}
      BY <1>7 DEF Tickets
    <2>2. k = [id |-> s, user |-> session'[s].user, token |-> session'[s].token,
               ended |-> session'[s].revoked]
      BY <1>5, <1>6
    <2>3. QED BY <1>8, <2>1, <2>2 DEF Tickets
  <1>11. \A x \in Tickets : x.id # k.id
    BY <1>5, <1>7 DEF Tickets
  <1>12. k \in Tickets' \ Tickets
    BY <1>10, <1>11
  <1>13. k \in [id: Nat, user: Members, token: 1 .. minted', ended: {FALSE}] /\ k.token = s
    BY <1>4, <1>5, <1>9
  <1>14. k.token \notin 1 .. minted /\ 1 .. minted' = (1 .. minted) \cup {k.token}
    BY <1>9, <1>13
  <1>15. /\ Members' = Members /\ Joined' = Joined
         /\ \A statuses : InvitationsIn(statuses)' = InvitationsIn(statuses)
    BY <1>1, AccountsKept
  <1>16. QED
    BY <1>1, <1>10, <1>11, <1>12, <1>13, <1>14, <1>15 DEF TheAccess!Open, TheAccess!HandsOut

\* refresh gives the session another token, and nothing else.
LEMMA RenewOfAccess ==
  ASSUME SessionsInv, NEW t \in Tabs, Rotate(t)
  PROVE  TheAccess!Renew
  <1>1. PICK c \in Call : c = call[t] /\ CallOK(c)
    BY CallOf
  <1>2. PICK s : s = c.token.session
    OBVIOUS
  <1>3. /\ c.pc = "rotate" /\ minted' = minted + 1
        /\ session' = [session EXCEPT ![s].token = minted + 1]
        /\ UNCHANGED <<user, profile, invitation>>
    BY <1>1, <1>2 DEF Rotate, At, Issue
  <1>4. /\ minted \in Nat /\ DOMAIN session \subseteq 1 .. minted
        /\ session \in [DOMAIN session -> [user: Users, token: 1 .. minted, revoked: BOOLEAN]]
    BY DEF SessionsInv, TablesType
  <1>5. s \in DOMAIN session
    BY <1>1, <1>2, <1>3 DEF CallOK, BarredOK, TokenOK
  <1>6. PICK row : row = session[s] /\ row \in [user: Users, token: 1 .. minted, revoked: BOOLEAN]
    BY <1>4, <1>5
  <1>7. PICK n : n = minted + 1
    OBVIOUS
  <1>8. session' = [session EXCEPT ![s] = [row EXCEPT !.token = n]]
    BY <1>3, <1>6, <1>7
  <1>9. session'[s] = [row EXCEPT !.token = n] /\ DOMAIN session' = DOMAIN session
    BY <1>5, <1>8
  <1>10. session'[s].user = row.user /\ session'[s].token = n /\ session'[s].revoked = row.revoked
    BY <1>6, <1>9
  <1>11. ASSUME NEW x \in DOMAIN session, x # s PROVE session'[x] = session[x]
    BY <1>8, <1>11
  <1>12. n \notin 1 .. minted /\ 1 .. minted' = (1 .. minted) \cup {n}
    BY <1>3, <1>4, <1>7
  <1>13. PICK old : old = [id |-> s, user |-> row.user, token |-> row.token, ended |-> row.revoked]
    OBVIOUS
  <1>14. PICK new : new = [id |-> s, user |-> row.user, token |-> n, ended |-> row.revoked]
    OBVIOUS
  <1>15. new = [old EXCEPT !.token = new.token]
    BY <1>13, <1>14
  <1>16. old \in Tickets
    BY <1>5, <1>6, <1>13 DEF Tickets
  <1>17. Tickets' = (Tickets \ {old}) \cup {new}
    <2> DEFINE now(x) == [id |-> x, user |-> session[x].user, token |-> session[x].token,
                          ended |-> session[x].revoked]
               next(x) == [id |-> x, user |-> session'[x].user, token |-> session'[x].token,
                           ended |-> session'[x].revoked]
    <2>1. /\ Tickets = {now(x) : x \in DOMAIN session}
          /\ Tickets' = {next(x) : x \in DOMAIN session}
      BY <1>9 DEF Tickets
    <2>2. old = now(s) /\ new = next(s)
      BY <1>6, <1>10, <1>13, <1>14
    <2>3. \A x \in DOMAIN session : x # s => next(x) = now(x) /\ now(x).id # old.id
      BY <1>11, <1>13
    <2> HIDE DEF now, next
    <2>4. \A x \in DOMAIN session : x # s => next(x) = now(x) /\ now(x) # old
      BY <2>3
    <2>5. QED BY <1>5, <2>1, <2>2, <2>4
  <1>18. new \notin Tickets
    <2>1. ASSUME NEW x \in DOMAIN session PROVE session[x].token # n
      BY <1>4, <1>12
    <2>2. \A k \in Tickets : k.token # n
      BY <2>1 DEF Tickets
    <2>3. QED BY <1>14, <2>2
  <1>19. new \in Tickets' \ Tickets
    BY <1>17, <1>18
  <1>20. /\ new.id = old.id /\ new.user = old.user /\ new.ended = old.ended
         /\ new.token \notin 1 .. minted /\ 1 .. minted' = (1 .. minted) \cup {new.token}
    BY <1>12, <1>13, <1>14
  <1>21. /\ Members' = Members /\ Joined' = Joined
         /\ \A statuses : InvitationsIn(statuses)' = InvitationsIn(statuses)
    BY <1>3, AccountsKept
  <1>22. Tickets' = (Tickets \ {old}) \cup {[old EXCEPT !.token = new.token]}
    BY <1>15, <1>17
  <1>23. QED
    BY <1>3, <1>16, <1>19, <1>20, <1>21, <1>22 DEF TheAccess!Renew, TheAccess!HandsOut

LEMMA InitOfAccess == Init => TheAccess!Init
  <1> SUFFICES ASSUME Init
               PROVE  TheAccess!Init
    OBVIOUS
  <1>1. Members \subseteq Users /\ InvitationsIn({"OPEN", "ACCEPTED"}) \subseteq Invitations
    BY DEF Members, InvitationsIn
  <1>2. Joined = {} /\ InvitationsIn({"ACCEPTED"}) = {} /\ profile = {}
    BY DEF Init, Joined, InvitationsIn
  <1>3. /\ session = [b \in Browsers |-> [user |-> Owner[b], token |-> b, revoked |-> FALSE]]
        /\ minted = Len(Owner)
    BY DEF Init
  <1>4. Len(Owner) \in Nat /\ Browsers = 1 .. Len(Owner) /\ \A b \in Browsers : Owner[b] \in Members
    <2>1. Len(Owner) \in Nat /\ Browsers = 1 .. Len(Owner) /\ \A b \in Browsers : Owner[b] \in Users /\ Owner[b] \in Seeded
      BY SessionsConstantsOK DEF Browsers, Seeded
    <2>2. \A u \in Users : u \in Seeded => user[u].status = "ACTIVE"
      BY DEF Init
    <2>3. QED BY <2>1, <2>2 DEF Members
  <1>5. Tickets = {[id |-> b, user |-> Owner[b], token |-> b, ended |-> FALSE] : b \in Browsers}
    BY <1>3 DEF Tickets
  <1>6. Tickets \subseteq [id: Nat, user: Members, token: 1 .. minted, ended: BOOLEAN]
    <2>1. \A b \in Browsers : Owner[b] \in Members /\ b \in Nat /\ b \in 1 .. minted
      BY <1>3, <1>4
    <2>2. ASSUME NEW b \in Browsers
          PROVE  [id |-> b, user |-> Owner[b], token |-> b, ended |-> FALSE]
                   \in [id: Nat, user: Members, token: 1 .. minted, ended: BOOLEAN]
      BY <2>1
    <2>3. QED BY <1>5, <2>2
  <1>7. \A j, k \in Tickets : j.id = k.id \/ j.token = k.token => j = k
    <2>1. TAKE j, k \in Tickets
    <2>2. PICK b \in Browsers : j = [id |-> b, user |-> Owner[b], token |-> b, ended |-> FALSE]
      BY <1>5
    <2>3. PICK c \in Browsers : k = [id |-> c, user |-> Owner[c], token |-> c, ended |-> FALSE]
      BY <1>5
    <2>4. j.id = b /\ j.token = b /\ k.id = c /\ k.token = c
      BY <2>2, <2>3
    <2>5. QED BY <2>2, <2>3, <2>4
  <1>8. TheAccess!TicketsSound
    BY <1>6, <1>7 DEF TheAccess!TicketsSound, TheAccess!Ticket
  <1>9. QED BY <1>1, <1>2, <1>8 DEF TheAccess!Init

\* Whatever requests, tabs and faults do, accounts, profiles and sessions change
\* as Access says: an account from an open invitation, for an address that has
\* none yet; one profile a user; sessions that belong to one user for good, are
\* renewed under a token never used before and are never restored.
THEOREM SessionsImplementAccess == Spec => ImplementsAccess
  <1>1. ASSUME SessionsInv, NEW t \in Tabs, Submit(t) \/ Step(t) \/ Lose(t)
        PROVE  TheAccess!Next \/ UNCHANGED TheAccess!vars
    <2>1. CASE UNCHANGED <<tables, minted>>
      BY <2>1, QuietOfAccess
    <2>2. CASE UpdateStatus(t) \/ UpdateRole(t)
      BY <1>1, <2>2, WriteOfAccess
    <2>3. CASE Logout(t) \/ RevokeSessions(t)
      BY <1>1, <2>3, RevokeOfAccess DEF TheAccess!Next
    <2>4. CASE CreateInvitation(t) \/ CreateOperator(t) \/ AcceptInvite(t)
      BY <1>1, <2>4, InviteOfAccess, AppointOfAccess, JoinOfAccess DEF TheAccess!Next
    <2>5. CASE CreateSession(t) \/ Rotate(t)
      BY <1>1, <2>5, OpenOfAccess, RenewOfAccess DEF TheAccess!Next
    <2>6. QED
      BY <1>1, <2>1, <2>2, <2>3, <2>4, <2>5
         DEF Step, Submit, Lose, FindSession, FindAuthProfile, Read, CheckFirst, Receive,
             FindActiveByEmail, FindSessionByRefreshToken, SaveTokens, FindInvitation
  <1>2. ASSUME NEW what \in {"access", "session"}, Lapse(what) PROVE UNCHANGED TheAccess!vars
    BY <1>2, QuietOfAccess DEF Lapse
  <1>3. ASSUME UNCHANGED vars PROVE UNCHANGED TheAccess!vars
    BY <1>3, QuietOfAccess DEF vars
  <1>4. SessionsInv /\ [Next]_vars => [TheAccess!Next]_(TheAccess!vars)
    BY <1>1, <1>2, <1>3 DEF Next
  <1>5. QED BY <1>4, InitOfAccess, SessionsInvariant, PTL DEF Spec, ImplementsAccess, TheAccess!Spec
=============================================================================
