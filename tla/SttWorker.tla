------------------------------- MODULE SttWorker -------------------------------
(***************************************************************************)
(* The transcription workers of core/engine.py.  A worker hung in native   *)
(* code cannot be killed: the next utterance, a minute later or more,      *)
(* leaves it behind with its queue and starts another generation.  The old *)
(* one goes on when its call returns.  The three fields that both use are  *)
(* under _stt_state_lock, one access at a time.                            *)
(***************************************************************************)
EXTENDS SequencesExt

CONSTANTS
  Nothing,          \* no utterance
  MaxGeneration     \* bound: how often a worker is left behind

ASSUME SttAssumption == MaxGeneration \in Nat

VARIABLES
  generation,   \* _stt_generation
  stt,          \* _stt: loaded, or None after a reload that failed
  started,      \* _stt_job_started: none, recent, or STT_HANG_RECOVERY_S ago and more
  queues,       \* the job queue of each generation
  workers,      \* the worker thread of each generation
  answers,      \* TranscriptionCompleted events on their way to the controller
  answered,     \* history: the utterances that have been answered
  atDoor        \* history: workers left behind between their check and their answer

sttVars == <<generation, stt, started, queues, workers, answers, answered, atDoor>>

Generations == 0..MaxGeneration
Idle == [pc |-> "idle", job |-> Nothing, hung |-> FALSE]

SttInit ==
  /\ generation = 0
  /\ stt = "loaded"
  /\ started = "none"
  /\ queues = [g \in Generations |-> <<>>]
  /\ workers = [g \in Generations |-> IF g = 0 THEN Idle ELSE [Idle EXCEPT !.pc = "unborn"]]
  /\ answers = <<>> /\ answered = {}
  /\ atDoor = {}

At(g, pc) == workers[g].pc = pc
Goes(g, pc) == workers' = [workers EXCEPT ![g].pc = pc]

-----------------------------------------------------------------------------
\* _recover_stt_if_hung and then the job, for transcribe_and_process.
Puts(utt) ==
  IF started = "old" /\ generation < MaxGeneration
    THEN LET g == generation + 1
         IN  /\ generation' = g
             /\ started' = "none"
             /\ workers' = [workers EXCEPT ![g].pc = "reload"]
             /\ queues' = [queues EXCEPT ![g] = <<utt>>]
             /\ atDoor' = IF At(generation, "send") THEN atDoor \cup {generation} ELSE atDoor
             /\ UNCHANGED <<stt, answered>>
    ELSE /\ queues' = [queues EXCEPT ![generation] = Append(@, utt)]
         /\ UNCHANGED <<generation, stt, started, workers, answered, atDoor>>

\* A new generation loads the engine again, for every worker there is.
Reloads(g) ==
  /\ At(g, "reload")
  /\ stt' \in {"loaded", "none"}
  /\ Goes(g, "idle")
  /\ UNCHANGED <<generation, started, queues, answers, answered, atDoor>>

\* The next job of its own queue; that it has started is written for whichever
\* generation there is now.
Takes(g) ==
  /\ At(g, "idle") /\ queues[g] # <<>>
  /\ workers' = [workers EXCEPT ![g] = [@ EXCEPT !.pc = "busy", !.job = Head(queues[g])]]
  /\ queues' = [queues EXCEPT ![g] = Tail(@)]
  /\ started' = "recent"
  /\ UNCHANGED <<generation, stt, answers, answered, atDoor>>

\* The call does not return for now, or returns after all.
Hangs(g) ==
  /\ At(g, "busy") /\ stt = "loaded"
  /\ workers' = [workers EXCEPT ![g].hung = ~@]
  /\ UNCHANGED <<generation, stt, started, queues, answers, answered, atDoor>>

JobAges ==
  /\ started = "recent"
  /\ started' = "old"
  /\ UNCHANGED <<generation, stt, queues, workers, answers, answered, atDoor>>

\* A text, none, an exception or no engine at all: every way leads to the finally.
TranscribesWithEngineOnly(g) ==
  /\ At(g, "busy") /\ ~workers[g].hung
  /\ Goes(g, IF stt = "none" THEN "clean" ELSE "check")
  /\ UNCHANGED <<generation, stt, started, queues, answers, answered, atDoor>>
Transcribes(g) ==
  /\ At(g, "busy") /\ ~workers[g].hung
  /\ Goes(g, "check")
  /\ UNCHANGED <<generation, stt, started, queues, answers, answered, atDoor>>

\* _stt_generation_current, and the lock is free again before the answer is sent.
ChecksNothing(g) ==
  /\ At(g, "check")
  /\ Goes(g, "send")
  /\ UNCHANGED <<generation, stt, started, queues, answers, answered, atDoor>>
Checks(g) ==
  /\ At(g, "check")
  /\ Goes(g, IF g = generation THEN "send" ELSE "clean")
  /\ UNCHANGED <<generation, stt, started, queues, answers, answered, atDoor>>

Sends(g) ==
  /\ At(g, "send")
  /\ answers' = Append(answers, workers[g].job)
  /\ answered' = answered \cup {workers[g].job}
  /\ Goes(g, "clean")
  /\ atDoor' = atDoor \ {g}
  /\ UNCHANGED <<generation, stt, started, queues>>

\* Only the current generation forgets when its job started.
Cleans(g) ==
  /\ At(g, "clean")
  /\ workers' = [workers EXCEPT ![g] = Idle]
  /\ started' = IF g = generation THEN "none" ELSE started
  /\ UNCHANGED <<generation, stt, queues, answers, answered, atDoor>>

WorkerGoesOn(g) ==
  Reloads(g) \/ Takes(g) \/ Transcribes(g) \/ Checks(g) \/ Sends(g) \/ Cleans(g)

-----------------------------------------------------------------------------
InHand(utt) ==
  \/ utt \in ToSet(queues[generation])
  \/ workers[generation].job = utt

\* A worker that was left behind answers nothing, but for the answer it had
\* already decided to send, and only that one.
AbandonedIsQuiet ==
  \A g \in Generations : g < generation /\ At(g, "send") => g \in atDoor

\* core/engine.py: "an abandoned (hung, later unstuck) worker can never inject
\* stale text or corrupt state".
NoLateAnswer == [][\A g \in Generations : g < generation /\ At(g, "send") => answers' = answers]_sttVars
OnlyHungAreLeft == [][generation' # generation => At(generation, "busy")]_sttVars
=============================================================================
