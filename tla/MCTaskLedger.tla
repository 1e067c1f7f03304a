---------------------------- MODULE MCTaskLedger ----------------------------
(***************************************************************************)
(* Small instances of TaskLedger: a request that creates the Task, two     *)
(* requests that share an idempotency key, and one with a key of its own.  *)
(***************************************************************************)
EXTENDS TaskLedger, TLC

CONSTANTS create, reopen, clash, other

Keys == [r \in Requests |-> IF r = clash THEN reopen ELSE r]
Bodies == [r \in Requests |-> r]

AnyProcess == Permutations(Processes)

=============================================================================
