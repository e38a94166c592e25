--------------------------- MODULE MCEngineProcess ---------------------------
(***************************************************************************)
(* A small instance of EngineProcess: three processes and a shell.         *)
(***************************************************************************)
EXTENDS EngineProcess, TLC

None == [b \in Bounded |-> 0]
With(f) == f @@ None

\* Two engines that compete; requests to end; upgrades with one failure.
Rivals == With([manual |-> 2, crashes |-> 1])
Asked == With([asks |-> 3, faults |-> 1])
Upgrades == With([shells |-> 2, faults |-> 1])
MCBudgets == {Rivals, Asked, Upgrades}
=============================================================================
