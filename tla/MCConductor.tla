------------------------------ MODULE MCConductor ------------------------------
(* Small instances of Conductor for TLC. *)
EXTENDS Conductor

CONSTANTS t1, t2

\* Ticks one after the other: a job that fails so often, and ops_health.
Serial(failures, crashed) ==
    [ticks |-> {t1}, jobs |-> {"job", "ops_health"}, custodians |-> {}, operator |-> TRUE,
     maxFailures |-> [j \in Job |-> IF j = "job" THEN failures ELSE 0], maxCrashes |-> crashed]

\* Two ticks of a custodian's job that overlap.
Overlap ==
    [ticks |-> {t1, t2}, jobs |-> {"job"}, custodians |-> {"job"}, operator |-> FALSE,
     maxFailures |-> [j \in Job |-> 0], maxCrashes |-> 1]

\* Up to the triage, and with a kill up to the health check.
MCSetups == {Serial(3, 0), Serial(2, 1), Overlap}
=============================================================================
