---------------------------- MODULE MCAssignments ----------------------------
(* Instances of Assignments small enough for TLC. *)
EXTENDS Assignments, TLC

CONSTANTS anna, boris, cam

Symmetric == Permutations(Requests)

\* Two events that follow each other directly; the cooldown before the second
\* makes it run into the first.
Early == [startsAt |-> 1, endsAt |-> 3, cooldownBefore |-> 0, cooldownAfter |-> 0]
Late  == [startsAt |-> 3, endsAt |-> 5, cooldownBefore |-> 1, cooldownAfter |-> 0]

OneSchedule  == {Early}
TwoSchedules == {Early, Late}

TypeOfResource ==
  [r \in Resources |-> IF r \in {anna, boris} THEN "OPERATOR" ELSE "DEVICE"]

EventWindow == [startsAt |-> NoTime, endsAt |-> NoTime]
Extended    == [startsAt |-> NoTime, endsAt |-> 5]
WholeEvent  == {EventWindow}
AlsoLonger  == {EventWindow, Extended}

Want(r, s) == [resource |-> r, range |-> EventWindow, status |-> s]
NoBulks  == {}
CrewBulk == {<<Want(anna, "ACTIVE"), Want(boris, "RESERVED")>>}
MixedBulks == {<<Want(anna, "RESERVED"), Want(cam, "ACTIVE")>>,
               <<Want(anna, "ACTIVE"), Want(anna, "RESERVED")>>}

NoMaintenance  == [r \in Resources |-> {}]
CamMaintenance == [r \in Resources |->
                     IF r = cam THEN {[startsAt |-> 4, endsAt |-> 6]} ELSE {}]
=============================================================================
