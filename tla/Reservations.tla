---------------------------- MODULE Reservations ----------------------------
(***************************************************************************)
(* What the assignment engine promises its callers, with none of its       *)
(* machinery: a table of bookings in which two live bookings of one        *)
(* resource never cover the same instant, a booking once over stays over,  *)
(* and moving a booking to another resource is a single step, so that an   *)
(* event is never seen without the resource it is trading in, or with      *)
(* both the old one and the new one.                                       *)
(***************************************************************************)
EXTENDS Integers

CONSTANTS Ids,        \* names of bookings; a name is used at most once
          Events,     \* what a booking is for
          Resources   \* what is booked

VARIABLES live,       \* the bookings that hold their resource
          over        \* the names of those that no longer do

Booking == [id: Ids, event: Events, resource: Resources, from: Int, to: Int]

Known(i) == i \in over \/ \E b \in live : b.id = i

\* Two bookings clash when they hold one resource at a common instant of
\* their half-open intervals [from, to).
Clash(b, c) == b.resource = c.resource /\ b.from < c.to /\ c.from < b.to

\* b can be entered beside the bookings in `others`.
Fits(b, others) ==
  b \in Booking /\ ~Known(b.id) /\ \A c \in others : ~Clash(b, c)

Added == live' \ live

Init == live = {} /\ over = {}

Book ==
  \E b \in Added : /\ Fits(b, live)
                   /\ live' = live \cup {b}
                   /\ UNCHANGED over

\* A booking may be entered for the record only, already over.
Record == \E i \in Ids : /\ ~Known(i)
                         /\ over' = over \cup {i}
                         /\ UNCHANGED live

End == \E b \in live : /\ live' = live \ {b}
                       /\ over' = over \cup {b.id}

\* A live booking ends and another, for the same event, takes its place.
Replace ==
  \E old \in live, new \in Added :
    /\ new.event = old.event
    /\ Fits(new, live \ {old})
    /\ live' = (live \ {old}) \cup {new}
    /\ over' = over \cup {old.id}

Next == Book \/ Record \/ End \/ Replace

Spec == Init /\ [][Next]_<<live, over>>

\* No two live bookings of one resource cover a common instant.
NoDoubleBooking == \A b, c \in live : b # c => ~Clash(b, c)
=============================================================================
