------------------------------- MODULE MCJobs -------------------------------
(* An instance of Jobs small enough for TLC. *)
EXTENDS Jobs, TLC

CONSTANTS ann, ben, admin, web, w1, w2, r1, r2

Of(op, us, r) == [op |-> op, users |-> us, rule |-> r]

\* Two clients dispatch, export, run and read; one worker fails, one does not.
MCMay ==
     admin :> {Of("dispatch", {ann, ben}, r1), Of("scheduled", {}, r1), Of("export", {ann}, r1)}
  @@ web :> {Of("read", {ann}, r1), Of("readAll", {ann}, r1), Of("report", {ann}, r1),
             Of("create", {}, r2), Of("execute", {}, r1)}

\* One worker ends its jobs, the other, which helps with notifications, never does.
MCServes == w1 :> Queues @@ w2 :> {"notifications"}
MCOutcomes == w1 :> {"COMPLETED"} @@ w2 :> {}
=============================================================================
