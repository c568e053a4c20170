-------------------------------- MODULE Access --------------------------------
(***************************************************************************)
(* What accounts and sessions promise, whatever requests, browsers and     *)
(* faults do: an account is made for good, from an invitation that was     *)
(* open, and no two for one address; a member is appointed operator once;  *)
(* a session belongs to one member for good and is never restored; and a   *)
(* token is good for one session and, once replaced, for none.             *)
(***************************************************************************)
EXTENDS Integers

CONSTANTS Users,        \* who may have an account
          Invitations, AddressOf,  \* invitations, and whom each is sent to
          Clerks        \* who may appoint an operator

VARIABLES members,    \* those who have an account
          joined,     \* those who got theirs by an invitation, and by which
          invited,    \* invitations that were sent
          accepted,   \* and those marked as accepted
          appointed,  \* the appointments, each by a clerk
          tickets,    \* the sessions, with the token each is renewed with
          issued      \* tokens that were handed out so far

vars == <<members, joined, invited, accepted, appointed, tickets, issued>>

Ticket == [id: Nat, user: members, token: issued, ended: BOOLEAN]

\* Nobody holds two tickets of one number or two with one token.
TicketsSound ==
  /\ tickets \subseteq Ticket
  /\ \A s, t \in tickets : s.id = t.id \/ s.token = t.token => s = t

Init ==
  /\ members \subseteq Users /\ invited \subseteq Invitations
  /\ joined = {} /\ accepted = {} /\ appointed = {}
  /\ TicketsSound

Invite ==
  \E i \in Invitations \ invited :
    /\ invited' = invited \cup {i}
    /\ UNCHANGED <<members, joined, accepted, appointed, tickets, issued>>

Join ==
  \E u \in Users \ members, i \in invited \ accepted :
    /\ \A j \in joined : AddressOf[j.by] # AddressOf[i]
    /\ members' = members \cup {u}
    /\ joined' = joined \cup {[user |-> u, by |-> i]}
    /\ accepted' = accepted \cup {i}
    /\ UNCHANGED <<invited, appointed, tickets, issued>>

Appoint ==
  \E u \in members, c \in Clerks :
    /\ \A a \in appointed : a.user # u
    /\ appointed' = appointed \cup {[user |-> u, by |-> c]}
    /\ UNCHANGED <<members, joined, invited, accepted, tickets, issued>>

\* A token that was handed out before is never handed out again.
HandsOut(t) == t.token \notin issued /\ issued' = issued \cup {t.token}

Open ==
  \E t \in tickets' \ tickets :
    /\ t \in [id: Nat, user: members, token: issued', ended: {FALSE}]
    /\ \A s \in tickets : s.id # t.id
    /\ HandsOut(t)
    /\ tickets' = tickets \cup {t}
    /\ UNCHANGED <<members, joined, invited, accepted, appointed>>

\* Renewing a session that has ended does not restore it.
Renew ==
  \E s \in tickets, t \in tickets' \ tickets :
    /\ t.id = s.id /\ t.user = s.user /\ t.ended = s.ended
    /\ HandsOut(t)
    /\ tickets' = (tickets \ {s}) \cup {[s EXCEPT !.token = t.token]}
    /\ UNCHANGED <<members, joined, invited, accepted, appointed>>

Ended(over) == {[t EXCEPT !.ended = @ \/ t \in over] : t \in tickets}

\* One session, or all of a user.
End ==
  \E s \in tickets :
    /\ tickets' \in {Ended({s}), Ended({t \in tickets : t.user = s.user})}
    /\ UNCHANGED <<members, joined, invited, accepted, appointed, issued>>

Next == Invite \/ Join \/ Appoint \/ Open \/ Renew \/ End

Spec == Init /\ [][Next]_vars

\* Sessions have users and tokens of their own, every account that was asked
\* for has its own accepted invitation and address, and nobody who is no
\* member is an operator, nor anybody twice.
Sound ==
  /\ TicketsSound
  /\ accepted = {j.by : j \in joined}
  /\ \A j, k \in joined : j.user = k.user \/ AddressOf[j.by] = AddressOf[k.by] => j = k
  /\ \A j \in joined : j.user \in members
  /\ \A a \in appointed : a.user \in members
  /\ \A a, b \in appointed : a.user = b.user => a = b
=============================================================================
