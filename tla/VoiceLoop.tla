------------------------------ MODULE VoiceLoop ------------------------------
(***************************************************************************)
(* The threads around the StateController: the audio callback that drives  *)
(* the VAD, the STT worker, the transcription watchdog, the playback       *)
(* threads, the HTTP speech requests, the user's commands and the agents   *)
(* that connect and disconnect.  Each of them reads the state when it runs *)
(* and appends to the controller's queue; what it read may be stale when   *)
(* the message is handled.                                                 *)
(***************************************************************************)
EXTENDS StateController, FiniteSets

CONSTANTS
  Commands,        \* messages users send
  MaxCommands,     \* bound: commands sent in one behaviour
  MaxPrompts,      \* bound: play_audio calls and speech requests begun
  MaxChurn         \* bound: registrations and unregistrations

ASSUME BoundsAssumption ==
  /\ Commands \subseteq CommandMessage
  /\ MaxCommands \in Nat
  /\ MaxPrompts \in Nat
  /\ MaxChurn \in Nat

VARIABLES
  speeches,   \* TTSManager._active_plays
  commands,   \* commands sent so far
  prompts,    \* playbacks begun so far
  churn       \* registrations and unregistrations so far

bounds == <<commands, prompts, churn>>
vars == <<controllerVars, speeches, bounds>>

Send(msgs) == queue' = queue \o msgs

Init ==
  /\ \/ state = "OFF" /\ queue = <<>> /\ owed = 0
     \/ state = "LISTENING" /\ queue = StartPlays /\ owed = Len(StartPlays)
  /\ plays = 0
  /\ desired = "LISTENING"
  /\ pending = FALSE
  /\ armed = FALSE
  /\ elapsed = 0
  /\ audioQueue = <<>>
  /\ jobs = <<>>
  /\ hung = FALSE
  /\ vad = "silent"
  /\ heard = 0
  /\ registered \in SUBSET Agents
  /\ current \in IF registered = {} THEN {NoAgent} ELSE registered
  /\ captured = [u \in Utterances |-> NoAgent]
  /\ injected = <<>>
  /\ offAsked = FALSE
  /\ speeches = 0
  /\ commands = 0
  /\ prompts = 0
  /\ churn = 0

Controller ==
  /\ HandleEvent
  /\ UNCHANGED <<speeches, bounds>>

-----------------------------------------------------------------------------
(***************************************************************************)
(* Audio callback: on_audio_chunk and the VAD callbacks of the engine.     *)
(***************************************************************************)
ShouldProcess ==
  /\ state \in {"LISTENING", "RECORDING", "TRANSCRIBING", "INJECTING"}
  /\ registered # {}

\* The agent is captured when the speech ends, before the message is sent.
EndUtterance(l) ==
  /\ captured' = [captured EXCEPT ![heard] = current]
  /\ Send(<<SpeechEnded(heard, l, current, "vad")>>)

VadSpeechStart ==
  /\ ShouldProcess
  /\ vad = "silent"
  /\ heard < MaxUtterances
  /\ vad' = "speaking"
  /\ heard' = heard + 1
  /\ Send(<<Signal("SpeechStarted")>>)
  /\ UNCHANGED <<control, audioQueue, jobs, hung, agents, owed, history, speeches, bounds>>

VadSpeechEnd ==
  /\ ShouldProcess
  /\ vad = "speaking"
  /\ vad' = "silent"
  /\ \E l \in BOOLEAN : EndUtterance(l)
  /\ UNCHANGED <<control, audioQueue, jobs, hung, heard, agents, owed,
                 injected, offAsked, speeches, bounds>>

\* max_speech_seconds reached: what was said so far is one utterance, the
\* speaker goes on with the next.
VadMaxSpeech ==
  /\ ShouldProcess
  /\ vad = "speaking"
  /\ heard < MaxUtterances
  /\ heard' = heard + 1
  /\ EndUtterance(TRUE)
  /\ UNCHANGED <<control, audioQueue, jobs, hung, vad, agents, owed,
                 injected, offAsked, speeches, bounds>>

(***************************************************************************)
(* STT worker: one job at a time, in order.  An exception, an engine that  *)
(* is not loaded and silence all give an empty text.                       *)
(***************************************************************************)
SttCompletes(msg) ==
  /\ jobs # <<>>
  /\ jobs' = Tail(jobs)
  /\ hung' = FALSE
  /\ Send(<<msg>>)
  /\ UNCHANGED <<control, audioQueue, vad, heard, agents, owed, history, speeches, bounds>>

SttTranscribes == jobs # <<>> /\ SttCompletes(Transcribed(Head(jobs)))
SttFindsNoText == SttCompletes(NoText)

SttHangs ==
  /\ jobs # <<>>
  /\ hung' = TRUE
  /\ UNCHANGED <<control, queue, audioQueue, jobs, vad, heard, agents, owed,
                 history, speeches, bounds>>

(***************************************************************************)
(* Watchdog timer thread.                                                  *)
(***************************************************************************)
WatchdogElapses ==
  /\ armed
  /\ armed' = FALSE
  /\ elapsed' = elapsed + 1
  /\ UNCHANGED <<state, plays, desired, pending, queue, audio, agents, owed,
                 history, speeches, bounds>>

\* The handler of a short utterance passes through TRANSCRIBING, where a timer
\* thread may see it.
Rejecting ==
  /\ Handling("SpeechEnded")
  /\ ~Head(queue).long
  /\ state \in {"LISTENING", "RECORDING"}

WatchdogSilent == queue' = queue
WatchdogMessage ==
  IF state = "TRANSCRIBING" THEN Send(<<NoText>>)
  ELSE UNCHANGED queue \/ (Rejecting /\ Send(<<NoText>>))

WatchdogRuns ==
  /\ elapsed > 0
  /\ elapsed' = elapsed - 1
  /\ WatchdogMessage
  /\ UNCHANGED <<state, plays, desired, pending, armed, audio, agents, owed,
                 history, speeches, bounds>>

(***************************************************************************)
(* Playback threads.                                                       *)
(***************************************************************************)
\* play_audio(pause_mic=True) from any thread; OFF plays without messages.
PlayAudio ==
  /\ prompts < MaxPrompts
  /\ state # "OFF"
  /\ prompts' = prompts + 1
  /\ Send(<<Signal("PlayStarted")>>)
  /\ Owe(<<Signal("PlayStarted")>>)
  /\ UNCHANGED <<control, audio, agents, history, speeches, commands, churn>>

PlaybackUnreported ==
  /\ owed > 0
  /\ owed' = owed - 1
  /\ UNCHANGED <<control, queue, audio, agents, history, speeches, bounds>>

PlaybackEnds ==
  /\ owed > 0
  /\ owed' = owed - 1
  /\ Send(<<Signal("PlayCompleted")>>)
  /\ UNCHANGED <<control, audio, agents, history, speeches, bounds>>

\* handle_speech: only the first request pauses the mic, unless it is OFF;
\* the last one always resumes it.
SpeechBegins ==
  /\ prompts < MaxPrompts
  /\ prompts' = prompts + 1
  /\ speeches' = speeches + 1
  /\ IF speeches = 0 /\ state # "OFF"
     THEN Send(<<Signal("PlayStarted")>>) ELSE UNCHANGED queue
  /\ UNCHANGED <<control, audio, agents, owed, history, commands, churn>>

SpeechDone ==
  /\ speeches > 0
  /\ speeches' = speeches - 1
  /\ IF speeches = 1 THEN Send(<<Signal("PlayCompleted")>>) ELSE UNCHANGED queue
  /\ UNCHANGED <<control, audio, agents, owed, history, bounds>>

(***************************************************************************)
(* Users (hotkey thread, HTTP handlers) and agents.                        *)
(***************************************************************************)
UserCommands ==
  /\ commands < MaxCommands
  /\ commands' = commands + 1
  /\ \E c \in Commands : Send(<<c>>)
  /\ UNCHANGED <<control, audio, agents, owed, history, speeches, prompts, churn>>

\* AgentManager.register in agents mode, without a saved preference.
AgentRegisters(a) ==
  /\ churn < MaxChurn
  /\ a \notin registered
  /\ churn' = churn + 1
  /\ registered' = registered \cup {a}
  /\ current' = IF current = NoAgent THEN a ELSE current
  /\ UNCHANGED <<control, queue, audio, owed, history, speeches, commands, prompts>>

\* AgentManager.unregister: another agent, if there is one, becomes current
\* and is announced.
AgentUnregisters(a) ==
  /\ churn < MaxChurn
  /\ a \in registered
  /\ churn' = churn + 1
  /\ registered' = registered \ {a}
  /\ IF a = current /\ registered # {a}
     THEN \E b \in registered \ {a} :
            /\ current' = b
            /\ Send(Announcement(b))
            /\ Owe(Announcement(b))
     ELSE /\ current' = IF a = current THEN NoAgent ELSE current
          /\ UNCHANGED <<queue, owed>>
  /\ UNCHANGED <<control, audio, history, speeches, commands, prompts>>

Next ==
  \/ Controller
  \/ VadSpeechStart \/ VadSpeechEnd \/ VadMaxSpeech
  \/ SttTranscribes \/ SttFindsNoText \/ SttHangs
  \/ WatchdogElapses \/ WatchdogRuns
  \/ PlayAudio \/ PlaybackEnds
  \/ SpeechBegins \/ SpeechDone
  \/ UserCommands
  \/ \E a \in Agents : AgentRegisters(a) \/ AgentUnregisters(a)

Spec == Init /\ [][Next]_vars

(***************************************************************************)
(* Fairness.  The controller's worker thread runs while the queue is not   *)
(* empty; a timer that is not cancelled fires; playback ends (its deadline *)
(* is enforced by the output worker and the TTS proxy's timeout).  Nothing *)
(* is assumed of the STT worker: a native call may never return.           *)
(***************************************************************************)
Fairness ==
  /\ WF_vars(Controller)
  /\ WF_vars(WatchdogElapses)
  /\ WF_vars(WatchdogRuns)
  /\ WF_vars(PlaybackEnds)
  /\ WF_vars(SpeechDone)

FairSpec == Spec /\ Fairness
-----------------------------------------------------------------------------
(***************************************************************************)
(* Properties.                                                             *)
(***************************************************************************)
TypeOK ==
  /\ state \in AppState \ {"INJECTING"}
  /\ plays \in Nat
  /\ desired \in {"LISTENING", "OFF"}
  /\ pending \in BOOLEAN
  /\ armed \in BOOLEAN
  /\ elapsed \in Nat
  /\ queue \in Seq(Message)
  /\ audioQueue \in Seq(Parked)
  /\ Len(audioQueue) <= AudioQueueSize
  /\ jobs \in Seq(Job)
  /\ hung \in BOOLEAN
  /\ vad \in {"silent", "speaking"}
  /\ heard \in 0..MaxUtterances
  /\ vad = "speaking" => heard > 0
  /\ registered \subseteq Agents
  /\ current \in AgentOrNone
  /\ owed \in Nat
  /\ captured \in [Utterances -> AgentOrNone]
  /\ injected \in Seq(InjectedText)
  /\ offAsked \in BOOLEAN
  /\ speeches \in Nat
  /\ commands \in Nat
  /\ prompts \in Nat
  /\ churn \in Nat

Queued(t) == \E i \in DOMAIN queue : queue[i].type = t
Count(t) == Cardinality({i \in DOMAIN queue : queue[i].type = t})

\* The FSM never waits in TRANSCRIBING without something under way that will
\* take it out: a counting watchdog, a timer thread about to look at the state,
\* a completion in the queue, or a deferred one behind a play.  A watchdog
\* cancelled by the completion of another utterance must not break this.
TranscribingHasExit ==
  state = "TRANSCRIBING" =>
    \/ armed
    \/ elapsed > 0
    \/ Queued("TranscriptionCompleted")
    \/ pending /\ plays > 0

\* The counter, the FSM and the intents agree: PLAYING and a deferred
\* transcription have a play that will end them, and an OFF asked for in PLAYING is
\* the desired state until the playback is over.
PlaysAccounted ==
  /\ state = "PLAYING" => plays > 0
  /\ pending => plays > 0
  /\ offAsked => state = "PLAYING" /\ desired = "OFF"

\* The inductive invariant behind the theorems of VoiceLoopProofs.
IInv == TypeOK /\ TranscribingHasExit /\ PlaysAccounted

\* PLAYING is not a trap: the plays that are counted or about to be never exceed the
\* PlayCompleted messages that are queued or still to be sent, however play_audio
\* threads, speech requests and OFF commands interleave.
PlayingHasCompletion ==
  /\ state = "PLAYING" => plays > 0
  /\ plays + Count("PlayStarted")
       <= owed + (IF speeches > 0 THEN 1 ELSE 0) + Count("PlayCompleted")

\* The messages that have speech with them, as audio or as text.
HasSpeech(m) ==
  m.type = "SpeechEnded" \/ (m.type = "TranscriptionCompleted" /\ m.text)

\* An utterance is never transcribed or injected twice: it is in at most one of
\* the event queue, the parked audio, the STT jobs and the injected texts.
Places(u) ==
    Cardinality({i \in DOMAIN queue : HasSpeech(queue[i]) /\ queue[i].utt = u})
  + Cardinality({i \in DOMAIN audioQueue : audioQueue[i].utt = u})
  + Cardinality({i \in DOMAIN jobs : jobs[i].utt = u})
  + Cardinality({i \in DOMAIN injected : injected[i].utt = u})

UtteranceInOnePlace == \A u \in Utterances : Places(u) <= 1

\* The number of an utterance that was not heard to its end is nowhere yet.
Unheard(u) == u > heard \/ (u = heard /\ vad = "speaking")
UnheardIsNowhere == \A u \in Utterances : Unheard(u) => Places(u) = 0

\* Text of speech that was never parked goes to the agent that was current when
\* the speech ended, however agents are switched or dropped meanwhile.
DirectSpeechKeepsAgent ==
  \A i \in DOMAIN injected :
    LET x == injected[i]
    IN  x.source = "vad" /\ captured[x.utt] # NoAgent => x.to = captured[x.utt]

\* On its way through the queue and the STT jobs, speech that was never parked
\* has the agent with it, or none that could be captured.
KeepsAgent(x) == x.source = "vad" => captured[x.utt] \in {x.agent, NoAgent}
AgentTravels ==
  /\ \A i \in DOMAIN queue :
       HasSpeech(queue[i]) => KeepsAgent(queue[i])
  /\ \A i \in DOMAIN jobs : KeepsAgent(jobs[i])

\* The inductive invariant of the utterances.
UtterancesInv ==
  UtteranceInOnePlace /\ UnheardIsNowhere /\ AgentTravels /\ DirectSpeechKeepsAgent

\* What fsm.py promises of every utterance (SpeechEnded: "ensuring they go to the
\* correct agent even if agent switches later").
SpeechKeepsAgent ==
  \A i \in DOMAIN injected :
    LET x == injected[i]
    IN  captured[x.utt] # NoAgent => x.to = captured[x.utt]

\* The microphone stays paused until the last counted play is over.
MicPausedUntilLastPlay ==
  [][state = "PLAYING" /\ state' # "PLAYING" => plays' = 0]_vars

\* An OFF asked for during playback is not lost, whatever plays begin or end
\* and whatever transcription completes before the playback is over.
OffAskedInPlayIsHonoured ==
  [][offAsked /\ state' # "PLAYING" => state' = "OFF"]_vars

\* Once OFF, only a user's command turns the microphone on again.
OffUntilCommand ==
  [][state = "OFF" /\ state' # "OFF"
       => Head(queue).type \in {"HotkeyPressed", "SetListening"}]_vars

\* tts_manager: the "mic stays paused while any play is active".  Checked when no
\* play message is under way.
MicPausedWhileSpeaking ==
  speeches > 0 /\ ~Queued("PlayStarted") /\ ~Queued("PlayCompleted")
    => state \in {"PLAYING", "OFF"}

\* Even when the STT worker hangs for ever, TRANSCRIBING ends.
TranscribingEnds == state = "TRANSCRIBING" ~> state # "TRANSCRIBING"

\* Playback always gives the microphone back, or turns it off as asked.
PlayingEnds == state = "PLAYING" ~> state # "PLAYING"
=============================================================================
