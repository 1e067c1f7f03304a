----------------------------- MODULE CommandLog -----------------------------
(***************************************************************************)
(* What the event ledger of a Task promises to the callers of the runtime: *)
(* a log of commands that only grows, in which an idempotency key occurs   *)
(* once, and a caller is told of success only when its command is in it.   *)
(* TaskLedger, the append path with its locks and crashes, implements it.  *)
(***************************************************************************)
EXTENDS Naturals, Sequences

CONSTANTS Requests, Key, Body

VARIABLES log,    \* the requests whose events are in force, in order
          acked   \* the requests whose callers were told of success

logVars == <<log, acked>>

Applied == {log[i] : i \in DOMAIN log}
Same(r, s) == Key[r] = Key[s] /\ Body[r] = Body[s]

LogInit == log = <<>> /\ acked = {}

\* A command takes effect: its key is new.
Apply(r) ==
  /\ \A s \in Applied : Key[s] # Key[r]
  /\ log' = Append(log, r)
  /\ UNCHANGED acked

\* A caller learns that its command, or one equal to it, has taken effect.
Acknowledge(r) ==
  /\ \E s \in Applied : Same(r, s)
  /\ acked' = acked \cup {r}
  /\ UNCHANGED log

LogNext == \E r \in Requests : Apply(r) \/ Acknowledge(r)

LogSpec == LogInit /\ [][LogNext]_logVars

=============================================================================
