----------------------------- MODULE MCSpeechInput -----------------------------
(***************************************************************************)
(* A small instance of SpeechInput.                                        *)
(***************************************************************************)
EXTENDS SpeechInput

None == [b \in Bounded |-> 0]
With(f) == f @@ None

\* What the detector makes of a stream; workers that hang, with flushes to hand over
\* three utterances of two chunks each.
Streams == With([chunks |-> 10, commands |-> 1])
Hung == With([chunks |-> 6, commands |-> 3, hangs |-> 2, timeouts |-> 2])
MCSpeechBudgets == {Streams, Hung}
=============================================================================
