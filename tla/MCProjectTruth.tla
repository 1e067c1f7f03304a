--------------------------- MODULE MCProjectTruth ---------------------------
(* Change sets for TLC: one fact, two values. *)
EXTENDS ProjectTruth

CONSTANTS f1, v1, v2

Manifest2 == [revision |-> 2, status |-> "paused", scope |-> {f1}]

Change(actor, write, agent) ==
  [actor |-> actor, writes |-> [f \in {f1} |-> write], agent |-> agent]

\* "set" and "reset" share a key; "own" is the agent's; "raw" writes a
\* manifest without going through the registry.
MCRequests == {"set", "reset", "own", "raw"}
MCRequestKey == [r \in MCRequests |-> IF r = "reset" THEN "set" ELSE r]
MCRequestBody ==
  [r \in MCRequests |->
     CASE r = "set" -> Change("operator", v1, None)
       [] r = "reset" -> Change("operator", v2, None)
       [] r = "own" -> Change("agent", v2, None)
       [] r = "raw" -> Change("operator", "keep", Manifest2)]

=============================================================================
