-------------------------- MODULE MCBackgroundJob --------------------------
(***************************************************************************)
(* Small instances of BackgroundJob.                                       *)
(***************************************************************************)
EXTENDS BackgroundJob, TLC

\* A generation job runs long enough for rewrites and several batches and is
\* retried once by itself; an audit job, which the controller treats alike,
\* has the deaths, and every failure blocks it until an operator retries it.
Attempts == [k \in JobKinds |-> IF k = "narrative_audit" THEN 2 ELSE 13]
Retries == [k \in JobKinds |-> IF k = "narrative_audit" THEN 0 ELSE 1]
Deaths == [k \in JobKinds |-> IF k = "narrative_audit" THEN 2 ELSE 0]

=============================================================================
