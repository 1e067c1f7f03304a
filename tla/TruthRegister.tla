---------------------------- MODULE TruthRegister ----------------------------
(***************************************************************************)
(* What ProjectTruthStore promises its callers: a history of change sets   *)
(* that only grows, in which every change set was made for the state that  *)
(* it changes, an idempotency key occurs once, and a caller is told of     *)
(* success only for a change set of the history.                           *)
(***************************************************************************)
EXTENDS Naturals, Sequences

VARIABLES
  history,  \* the change sets in force: their key, body and the version
            \* of the state they were made for
  told      \* pairs of key and body whose callers were told of success

registerVars == <<history, told>>

KeysOf(h) == {h[i].key : i \in DOMAIN h}

RegisterInit == history = <<>> /\ told = {}

\* A change set takes effect.
Apply ==
  /\ Len(history') = Len(history) + 1
  /\ \A i \in DOMAIN history : history'[i] = history[i]
  /\ LET new == history'[Len(history')]
     IN  new.key \notin KeysOf(history) /\ new.madeFor = Len(history)
  /\ UNCHANGED told

\* A caller learns that its change set is in force.
Tell ==
  /\ \E i \in DOMAIN history :
       told' = told \cup {[key |-> history[i].key, body |-> history[i].body]}
  /\ UNCHANGED history

RegisterNext == Apply \/ Tell

RegisterSpec == RegisterInit /\ [][RegisterNext]_registerVars

=============================================================================
