------------------------------ MODULE SpeechInput ------------------------------
(***************************************************************************)
(* From the microphone to the transcription: the detector's segments go to *)
(* the state controller, one of them at a time from there to the worker,   *)
(* and the others wait.  Of the controller only that is kept (VoiceLoop    *)
(* has the rest): TRANSCRIBING, its watchdog, and the parked audio.        *)
(***************************************************************************)
EXTENDS StreamingVad, SttWorker

CONSTANTS
  MinRecording,   \* chunks of the 0.3 s below which nothing is transcribed
  SpeechBudgets   \* bounds: how many of each a behaviour has

VARIABLES
  transcribing,   \* the controller is in TRANSCRIBING
  parked,         \* audio queued meanwhile, too short or not
  uttered,        \* history: segments handed over so far
  left            \* what is left of the bounds

control == <<transcribing, parked, uttered>>
vars == <<vadVars, sttVars, control, left>>

Bounded == {"chunks", "commands", "hangs", "timeouts"}

ASSUME SpeechInputAssumption ==
  /\ MinRecording \in Nat
  /\ SpeechBudgets \subseteq [Bounded -> Nat]

TypeOK ==
  /\ speaking \in BOOLEAN /\ cut \in BOOLEAN
  /\ generation \in Generations
  /\ started \in {"none", "recent", "old"}
  /\ transcribing \in BOOLEAN
  /\ left \in [Bounded -> Nat]

Init ==
  /\ VadInit
  /\ SttInit
  /\ transcribing = FALSE /\ parked = <<>> /\ uttered = 0
  /\ left \in SpeechBudgets

Spend(what) == left[what] > 0 /\ left' = [left EXCEPT ![what] = @ - 1]

-----------------------------------------------------------------------------
\* _handle_speech_end: parked while a transcription runs, ignored when too short.
SpeechEnded(segment) ==
  /\ uttered' = uttered + 1
  /\ IF transcribing
       THEN /\ parked' = Append(parked, [id |-> uttered + 1, short |-> Len(segment) < MinRecording])
            /\ UNCHANGED <<transcribing, sttVars>>
     ELSE IF Len(segment) < MinRecording
       THEN UNCHANGED <<transcribing, parked, sttVars>>
     ELSE /\ transcribing' = TRUE
          /\ Puts(uttered + 1)
          /\ UNCHANGED <<answers, parked>>

\* process_queued_audio: the next parked segment that is long enough.
NextParked(rest) ==
  LET long == {i \in 1..Len(parked) : ~parked[i].short}
  IN  IF long = {}
        THEN /\ parked' = <<>> /\ transcribing' = FALSE
             /\ answers' = rest
             /\ UNCHANGED <<generation, stt, started, queues, workers, answered, atDoor>>
        ELSE LET i == CHOOSE k \in long : \A j \in long : k <= j
             IN  /\ parked' = SubSeq(parked, i + 1, Len(parked))
                 /\ transcribing' = TRUE
                 /\ answers' = rest
                 /\ Puts(parked[i].id)

\* A chunk, or a command that flushes or resets the detector.
Microphone ==
  \/ /\ Spend("chunks")
     /\ \/ (\E level \in Levels : Hears(level)) /\ UNCHANGED <<control, sttVars>>
        \/ (Cuts \/ \E level \in Levels : EndsSpeech(level)) /\ SpeechEnded(Handed)
  \/ /\ Spend("commands")
     /\ \/ Flushes /\ SpeechEnded(buffer)
        \/ Resets /\ UNCHANGED <<control, sttVars>>

\* _handle_transcription_complete: whoever's answer it is.
Completes ==
  /\ answers # <<>>
  /\ NextParked(Tail(answers))
  /\ UNCHANGED <<vadVars, uttered, left>>

\* The controller's watchdog, after TRANSCRIPTION_TIMEOUT.
GivesUp ==
  /\ transcribing
  /\ Spend("timeouts")
  /\ NextParked(answers)
  /\ UNCHANGED <<vadVars, uttered>>

Works == \E g \in Generations : WorkerGoesOn(g)

Transcription ==
  /\ \/ Works /\ UNCHANGED left
     \/ JobAges /\ UNCHANGED left
     \/ Spend("hangs") /\ \E g \in Generations : Hangs(g)
  /\ UNCHANGED <<vadVars, control>>

Next == Microphone \/ Completes \/ GivesUp \/ Transcription

\* The worker threads and the controller thread go on; a call may hang for ever.
Fairness ==
  /\ \A g \in Generations : WF_vars(Transcription /\ WorkerGoesOn(g))
  /\ WF_vars(Completes)

Spec == Init /\ [][Next]_vars /\ Fairness

-----------------------------------------------------------------------------
\* Whatever the engine's call does short of hanging for ever, an utterance in
\* hand is answered, unless its worker was left behind.
UtteranceIsAnswered ==
  \A u \in 1..3, g \in Generations :
    (generation = g /\ InHand(u)) ~> (u \in answered \/ generation # g \/ workers[g].hung)
=============================================================================
