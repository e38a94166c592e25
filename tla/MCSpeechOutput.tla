--------------------------- MODULE MCSpeechOutput ---------------------------
(***************************************************************************)
(* A small instance of SpeechOutput: two speech requests, one of them      *)
(* cached, and an announcement.                                            *)
(***************************************************************************)
EXTENDS SpeechOutput, TLC

CONSTANTS s1, s2, a1

None == [b \in Bounded |-> 0]
With(f) == f @@ None

\* Speech with a worker that fails; speech that is stopped; what the controller
\* is told, and when it is turned on or off; the feedback sounds.
Faults == With([requests |-> 2, faults |-> 1])
Stopped == With([requests |-> 2, stops |-> 1])
Microphone == With([requests |-> 2, files |-> 1])
Switched == With([requests |-> 2, toggles |-> 1])
Sounds == With([files |-> 2, loops |-> 2, toggles |-> 1])
MCBudgets == {Faults, Stopped, Microphone, Switched, Sounds}
=============================================================================
