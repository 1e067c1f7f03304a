---------------------------- MODULE MCTaskRuntime ----------------------------
(***************************************************************************)
(* Small instances of TaskRuntime for TLC.  Each configuration picks the   *)
(* task kind, the tier and the graph among the definitions below.          *)
(***************************************************************************)
EXTENDS TaskRuntime, TLC

CONSTANTS w1, w2, g1

\* No protocol: a one-node graph nobody can bind.
NoGraph ==
  [deps |-> [n \in Nodes |-> {}], role |-> [n \in Nodes |-> "worker"],
   produces |-> [n \in Nodes |-> {}],
   gateNode |-> [g \in Gates |-> w1], gateKind |-> [g \in Gates |-> "human"],
   subjects |-> [g \in Gates |-> {}], result |-> "draft"]

\* An author node and a review node with one independent gate on the draft.
ReviewGraph ==
  [deps |-> (w1 :> {} @@ w2 :> {w1}),
   role |-> (w1 :> "worker" @@ w2 :> "reviewer"),
   produces |-> (w1 :> {"draft"} @@ w2 :> {}),
   gateNode |-> (g1 :> w2), gateKind |-> (g1 :> "independent"),
   subjects |-> (g1 :> {"draft"}), result |-> "draft"]

\* The state after create_task with a complete profile, ready, running,
\* bind_compiled_protocol and create_work_items of the compiled graph.
MaterializedInit ==
  /\ taskStatus = "running"
  /\ admitted = TRUE /\ compiled = TRUE
  /\ wiStatus = [w \in WorkItems |->
                   IF Graph.deps[w] = {} THEN "ready" ELSE "pending"]
  /\ dependsOn = Graph.deps
  /\ protocolRole = Graph.role
  /\ NoWork

MaterializedSpec == MaterializedInit /\ [][Next]_vars

Drafts == [v \in Versions |-> "draft"]
QuotesAll == [f \in Feedback |-> Versions]

\* The record types that matter to a tier: a plan by the Supervisor and a
\* quality receipt that names a Supervisor and a Reviewer Attempt.
PlanAndQuality ==
  [r \in Records |->
     IF r = "execution_plan" THEN [attempts |-> {"supervisor"}, records |-> {}]
     ELSE [attempts |-> {"supervisor", "reviewer"}, records |-> {"execution_plan"}]]

TierL3 == [mode |-> "governed_multi_worker", minDelegated |-> 1,
           preWorker |-> {"execution_plan"} \cap Records,
           required |-> Records \cup {"evidence_binding"}]

Interchangeable == Permutations(Attempts) \cup Permutations(Workers)
CallersToo == Permutations(Attempts) \cup Permutations(Callers)

=============================================================================
