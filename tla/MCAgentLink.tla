----------------------------- MODULE MCAgentLink -----------------------------
(***************************************************************************)
(* A small instance of AgentLink: two terminals started with one name and  *)
(* a third with another, three messages.                                   *)
(***************************************************************************)
EXTENDS AgentLink

CONSTANTS a1, a2, t1, t2, t3, m1, m2, m3

MCNameOf == (t1 :> a1) @@ (t2 :> a1) @@ (t3 :> a2)
MCOperation == (m1 :> "submit") @@ (m2 :> "none") @@ (m3 :> "enter")

None == [b \in Bounded |-> 0]
With(f) == f @@ None

\* One terminal whose link breaks; two that compete for a name; who gets the
\* voice; a restart; who has the focus.
Traffic == With([starts |-> 1, messages |-> 2, keys |-> 2, drops |-> 1])
Twins == With([starts |-> 2, messages |-> 1, keys |-> 1])
Voices == With([starts |-> 2, commands |-> 2, notices |-> 1])
Restarts == With([starts |-> 2, commands |-> 1, restarts |-> 1])
Focuses == With([starts |-> 1, reports |-> 3, drops |-> 1])
MCBudgets == {Traffic, Twins, Voices, Restarts, Focuses}
=============================================================================
