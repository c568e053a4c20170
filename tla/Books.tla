-------------------------------- MODULE Books --------------------------------
(***************************************************************************)
(* What the books of the organization promise an auditor, whatever the     *)
(* workflows that keep them: a claim on the organization's money is        *)
(* recognised at most once, for an amount that is never restated, and cash *)
(* only goes out for a claim that is recognised.                           *)
(***************************************************************************)
CONSTANTS Claims,   \* expenses, payouts and adjustments
          Amounts   \* what one of them may be worth

VARIABLES recognised,  \* the entries of recognised claims, with their amounts
          settled      \* the claims cash has gone out for

vars == <<recognised, settled>>

Entry == [of: Claims, amount: Amounts]

IsRecognised(c) == \E n \in recognised : n.of = c

Init == recognised = {} /\ settled = {}

\* An approved expense, a deduction: owed, but no cash moves.
Recognise ==
  \E n \in Entry : /\ ~IsRecognised(n.of)
                   /\ recognised' = recognised \cup {n}
                   /\ UNCHANGED settled

\* A salary payout, an advance: recognised and paid at once.
Pay ==
  \E n \in Entry : /\ ~IsRecognised(n.of)
                   /\ recognised' = recognised \cup {n}
                   /\ settled' = settled \cup {n.of}

\* The reimbursement of an expense recognised before.
Settle ==
  \E n \in recognised : /\ settled' = settled \cup {n.of}
                        /\ UNCHANGED recognised

Next == Recognise \/ Pay \/ Settle

Spec == Init /\ [][Next]_vars

\* Each claim has one amount, and cash went out only for recognised ones.
Sound ==
  /\ \A m, n \in recognised : m.of = n.of => m = n
  /\ \A c \in settled : IsRecognised(c)
=============================================================================
