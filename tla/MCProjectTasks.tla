--------------------------- MODULE MCProjectTasks ---------------------------
(***************************************************************************)
(* Three Tasks with one goal: two requests that compete for it, one that   *)
(* declares an independent boundary, and a legacy run.                     *)
(***************************************************************************)
EXTENDS ProjectTasks, TLC

Request(task, goal, independent) ==
  [task |-> task, goal |-> goal, key |-> "k", independent |-> independent, legacy |-> FALSE]

MCTasks == {"a", "b", "old"}
MCRequests == {Request("a", "g", FALSE), Request("b", "g", FALSE), Request("b", "g", TRUE)}
MCSources == <<[task |-> "old", goal |-> "g", status |-> "paused"]>>

Symmetry == Permutations(Processes)

=============================================================================
