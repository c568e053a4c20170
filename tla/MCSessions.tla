----------------------------- MODULE MCSessions -----------------------------
(* An instance of Sessions small enough for TLC. *)
EXTENDS Sessions, TLC

CONSTANTS boss, clerk, new1, new2, desk, left, right, i1, i2, i3

MCOwner == <<boss, clerk>>
MCBrowserOf == desk :> 1 @@ left :> 2 @@ right :> 2
MCAddressOf == [i \in Invitations |-> "new@example.org"]

Go(op) == [op |-> op, of |-> clerk, to |-> "ABSENT"]
On(op, x) == [op |-> op, of |-> x, to |-> "ABSENT"]
Set(op, u, v) == [op |-> op, of |-> u, to |-> v]

\* The boss sits at a desk and decides on the clerk, an administrator too, who
\* has two tabs open; invited colleagues use them as well.
MCMay ==
     desk :> {Set("status", clerk, "SUSPENDED"), Set("status", clerk, "ACTIVE"),
              Set("role", clerk, "OPERATOR"), On("operator", boss)}
  @@ left :> {Go("read"), Go("logout"), On("accept", i1)}
  @@ right :> {Go("me"), Go("login"), Go("logoutAll"), On("accept", i2),
               On("operator", boss), On("invite", i1)}
=============================================================================
