------------------------------- MODULE MCSync -------------------------------
(* An instance of Sync small enough for TLC. *)
EXTENDS Sync, TLC

CONSTANTS c1, m1, m2, x1, x2, chief, aide

\* One desktop edits an expense and enters another one, which has no version.
MCClientOf == [m \in Mutations |-> c1]
MCEntityOf == m1 :> x1 @@ m2 :> x2
MCType == [e \in Entities |-> "Expense"]
MCResolutions == chief :> {"MERGE_SAFE_FIELDS"} @@ aide :> {"SERVER_WINS"}
=============================================================================
