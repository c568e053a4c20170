------------------------------ MODULE WorkQueue ------------------------------
(***************************************************************************)
(* What the worker queue promises those who put work on it, whatever the   *)
(* claims, the workers and the server do: one job for each piece of work,  *)
(* about that piece for good; a job that has left the queue does not come  *)
(* back; nobody is handed a job that is still on it, nor one twice; every  *)
(* hand-out is among the attempts; and a worker ends what it was handed.   *)
(***************************************************************************)
EXTENDS Integers, Sequences, FiniteSets

CONSTANTS Workers,
          Repeated   \* work that may be asked for again

VARIABLES row,     \* the jobs: what each is about, is it on the queue, attempts
          given,   \* which job was handed to whom
          done     \* which of those are over

vars == <<row, given, done>>

Waiting(j) == row[j].waiting

\* Those who were handed job j.
Holders(j) == {w \in Workers : [job |-> j, to |-> w] \in given}

Added == {row'[j] : j \in DOMAIN row' \ DOMAIN row}

Init == row = <<>> /\ given = {} /\ done = {}

Post ==
  \E new \in Added :
    /\ new.of \in Repeated \/ \A j \in DOMAIN row : row[j].of # new.of
    /\ row' = Append(row, [of |-> new.of, waiting |-> TRUE, attempts |-> 0])
    /\ UNCHANGED <<given, done>>

\* Two claims may take one job off the queue, each in an attempt of its own.
Attempt ==
  \E j \in DOMAIN row :
    /\ row' = [row EXCEPT ![j] = [of |-> @.of, waiting |-> FALSE, attempts |-> @.attempts + 1]]
    /\ UNCHANGED <<given, done>>

HandOut ==
  \E w \in Workers, js \in SUBSET DOMAIN row :
    /\ \A j \in js : /\ ~Waiting(j) /\ w \notin Holders(j)
                     /\ Cardinality(Holders(j)) < row[j].attempts
    /\ given' = given \cup {[job |-> j, to |-> w] : j \in js}
    /\ UNCHANGED <<row, done>>

End == \E g \in given \ done : done' = done \cup {g} /\ UNCHANGED <<row, given>>

Next == Post \/ Attempt \/ HandOut \/ End

Spec == Init /\ [][Next]_vars

\* Of what was handed out nothing is on the queue, and the attempts count it.
Sound ==
  /\ \A i, j \in DOMAIN row : row[i].of = row[j].of => i = j \/ row[i].of \in Repeated
  /\ \A g \in given : g.job \in DOMAIN row /\ ~Waiting(g.job)
  /\ \A j \in DOMAIN row : Cardinality(Holders(j)) <= row[j].attempts
  /\ done \subseteq given
=============================================================================
