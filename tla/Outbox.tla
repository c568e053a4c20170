-------------------------------- MODULE Outbox --------------------------------
(***************************************************************************)
(* What offline work promises those who enter it: whatever the network,    *)
(* the pushes and the server do, a mutation is recorded at most once,      *)
(* nothing is recorded or disputed that was not entered, a desktop is      *)
(* through with a mutation only if the server has it on record or disputes *)
(* it, and the fields of a protected row are never merged.                 *)
(***************************************************************************)
EXTENDS Integers

CONSTANTS Mutations,
          Protected,  \* mutations of rows whose fields are never merged
          Pushes,     \* what may carry a mutation to the server
          Verdicts    \* how a dispute may be decided

VARIABLES entered,   \* mutations on a local queue, or past it
          recorded,  \* mutations on record, and the push each came with
          cases,     \* disputes about mutations, numbered, with their outcome
          settled    \* mutations a desktop is through with

vars == <<entered, recorded, cases, settled>>

Undecided == "none"

IsRecorded(m) == \E o \in recorded : o.mutation = m
IsDisputed(m) == \E c \in cases : c.of = m

Init == entered = {} /\ recorded = {} /\ cases = {} /\ settled = {}

Enter ==
  \E m \in Mutations \ entered : /\ entered' = entered \cup {m}
                                 /\ UNCHANGED <<recorded, cases, settled>>

Record ==
  \E m \in entered, p \in Pushes :
    /\ ~IsRecorded(m)
    /\ recorded' = recorded \cup {[mutation |-> m, push |-> p]}
    /\ UNCHANGED <<entered, cases, settled>>

\* A mutation may be disputed again when it is sent again.
Dispute ==
  \E new \in cases' \ cases :
    /\ new \in [case: Nat, of: entered, outcome: {Undecided}]
    /\ \A c \in cases : c.case # new.case
    /\ cases' = cases \cup {new}
    /\ UNCHANGED <<entered, recorded, settled>>

\* Of two who decide one dispute at the same time, the later one prevails.
Decide ==
  \E c \in cases, v \in Verdicts :
    /\ v = "MERGE_SAFE_FIELDS" => c.of \notin Protected
    /\ cases' = (cases \ {c}) \cup {[c EXCEPT !.outcome = v]}
    /\ UNCHANGED <<entered, recorded, settled>>

Settle ==
  /\ settled \subseteq settled'
  /\ \A m \in settled' : IsRecorded(m) \/ IsDisputed(m)
  /\ UNCHANGED <<entered, recorded, cases>>

Next == Enter \/ Record \/ Dispute \/ Decide \/ Settle

Spec == Init /\ [][Next]_vars

\* Each mutation is on record once, each dispute has a number of its own, and
\* nobody is through with what the server neither has nor disputes.
Sound ==
  /\ \A o, q \in recorded : o.mutation = q.mutation => o = q
  /\ \A m \in Mutations : IsRecorded(m) \/ IsDisputed(m) => m \in entered
  /\ \A m \in settled : IsRecorded(m) \/ IsDisputed(m)
  /\ \A c, d \in cases : c.case = d.case => c = d
  /\ \A c \in cases : c.outcome = "MERGE_SAFE_FIELDS" => c.of \notin Protected
=============================================================================
