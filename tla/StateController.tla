--------------------------- MODULE StateController ---------------------------
(***************************************************************************)
(* The event-queue consumer of dictare (core/controller.py) and the part   *)
(* of the engine it calls from inside a handler.  Producer threads only    *)
(* append messages to `queue`; one worker thread takes the head and runs   *)
(* its handler to the end, so each handler is one action here.  The        *)
(* producers are in module VoiceLoop, which EXTENDS this one.              *)
(*                                                                         *)
(* An utterance is a number, in the order in which its speech was heard.   *)
(* Of its audio only `long` is kept: at least MIN_RECORDING_DURATION.      *)
(***************************************************************************)
EXTENDS Naturals, Sequences

CONSTANTS
  Agents,          \* ids of the agents that may register
  NoAgent,         \* "no current agent" (None)
  MaxUtterances,   \* bound: utterances heard in one behaviour
  AudioQueueSize,  \* capacity of AudioManager._audio_queue
  StartSound,      \* the "start" sound is enabled and pauses the mic
  AnnounceAgent    \* agent switches are announced and pause the mic

ASSUME ConstantsAssumption ==
  /\ NoAgent \notin Agents
  /\ MaxUtterances \in Nat \ {0}
  /\ AudioQueueSize \in Nat \ {0}
  /\ StartSound \in BOOLEAN
  /\ AnnounceAgent \in BOOLEAN

VARIABLES
  state,       \* StateManager._state
  plays,       \* _current_play_id, the active-plays counter
  desired,     \* _desired_state_after_play
  pending,     \* _pending_transcription is not None
  armed,       \* a transcription watchdog timer is counting
  elapsed,     \* timer threads past their wait that have not looked at state yet
  queue,       \* StateController._queue
  audioQueue,  \* AudioManager._audio_queue: speech parked while busy
  jobs,        \* STT jobs, the head being transcribed
  hung,        \* the transcription of the head has run past STT_HANG_RECOVERY_S
  vad,         \* StreamingVAD: "silent" or "speaking"
  heard,       \* number of the utterance last begun
  registered,  \* ids known to the AgentManager
  current,     \* AgentManager._current_agent_id
  owed,        \* play_audio playbacks that still have to send PlayCompleted
  captured,    \* history: the agent current when an utterance ended
  injected,    \* history: what inject_text was called with, in order
  offAsked     \* history: OFF was asked while PLAYING and is still due

control == <<state, plays, desired, pending, armed, elapsed>>
audio   == <<audioQueue, jobs, hung, vad, heard>>
agents  == <<registered, current>>
history == <<captured, injected, offAsked>>
controllerVars == <<control, queue, audio, agents, owed, history>>

AppState == {"OFF", "LISTENING", "RECORDING", "TRANSCRIBING", "INJECTING", "PLAYING"}

Utterances == 1..MaxUtterances
AgentOrNone == Agents \cup {NoAgent}
Source == {"vad", "queued"}

(***************************************************************************)
(* Messages of core/fsm.py.                                                *)
(***************************************************************************)
SpeechEndedMessage ==
  [type : {"SpeechEnded"}, utt : Utterances, long : BOOLEAN,
   agent : AgentOrNone, source : Source]

\* `text` says whether the text is nonempty.  Only the STT worker sends text;
\* the watchdog's message is one without.
TranscriptionMessage ==
       [type : {"TranscriptionCompleted"}, text : {TRUE}, utt : Utterances,
        agent : AgentOrNone, source : Source]
  \cup [type : {"TranscriptionCompleted"}, text : {FALSE}]

\* What users ask for, with a hotkey, the tray or over HTTP.
CommandMessage ==
       [type : {"HotkeyPressed", "DiscardCurrent"}]
  \cup [type : {"SwitchAgent"}, to : Agents]
  \cup [type : {"SetListening"}, on : BOOLEAN]

Message ==
       SpeechEndedMessage
  \cup TranscriptionMessage
  \cup [type : {"SpeechStarted", "PlayStarted", "PlayCompleted"}]
  \cup CommandMessage

SpeechEnded(u, l, a, src) ==
  [type |-> "SpeechEnded", utt |-> u, long |-> l, agent |-> a, source |-> src]
Transcribed(job) ==
  [type |-> "TranscriptionCompleted", text |-> TRUE, utt |-> job.utt,
   agent |-> job.agent, source |-> job.source]
NoText == [type |-> "TranscriptionCompleted", text |-> FALSE]
Signal(t) == [type |-> t]

Parked == [utt : Utterances, long : BOOLEAN]
Job == [utt : Utterances, agent : AgentOrNone, source : Source]
InjectedText == [utt : Utterances, to : AgentOrNone, source : Source]

-----------------------------------------------------------------------------
(***************************************************************************)
(* Helpers shared by the handlers.                                         *)
(***************************************************************************)
Handling(t) == queue # <<>> /\ Head(queue).type = t
Consume(msgs) == queue' = Tail(queue) \o msgs

\* An agent captured as None is resolved when it is used.
ResolveIgnoresCapture(a) == current
Resolve(a) == IF a = NoAgent THEN current ELSE a

\* AudioManager.queue_audio: a full queue loses its oldest entry.
Park(u, l) ==
  LET item == [utt |-> u, long |-> l]
  IN  IF Len(audioQueue) < AudioQueueSize
      THEN Append(audioQueue, item)
      ELSE Append(Tail(audioQueue), item)

\* process_queued_audio pops entries up to the first long one and sends that
\* one, with the agent that is current now, as a new SpeechEnded.
FirstLong ==
  CHOOSE i \in DOMAIN audioQueue :
    audioQueue[i].long /\ \A j \in 1..(i - 1) : ~audioQueue[j].long
HasLong == \E i \in DOMAIN audioQueue : audioQueue[i].long
Requeued ==
  IF HasLong
  THEN <<SpeechEnded(audioQueue[FirstLong].utt, TRUE, current, "queued")>>
  ELSE <<>>
LeftoverKeepsAll == audioQueue
Leftover ==
  IF HasLong
  THEN SubSeq(audioQueue, FirstLong + 1, Len(audioQueue))
  ELSE <<>>

\* on_state_change(OFF, LISTENING): play_audio sends PlayStarted at once and
\* owes a PlayCompleted.
StartPlays == IF StartSound THEN <<Signal("PlayStarted")>> ELSE <<>>
Owe(msgs) == owed' = owed + Len(msgs)

\* inject_text: an empty text is not injected.
Injections(m) ==
  IF m.text
  THEN Append(injected, [utt |-> m.utt, to |-> Resolve(m.agent), source |-> m.source])
  ELSE injected

-----------------------------------------------------------------------------
(***************************************************************************)
(* Speech.                                                                 *)
(***************************************************************************)
HandleSpeechStarted ==
  /\ Handling("SpeechStarted")
  /\ state' = IF state = "LISTENING" THEN "RECORDING" ELSE state
  /\ Consume(<<>>)
  /\ UNCHANGED <<plays, desired, pending, armed, elapsed, audio, agents, owed, history>>

\* _recover_stt_if_hung: the stuck worker and its queue are abandoned.
JobsAfter(job) == IF hung THEN <<job>> ELSE Append(jobs, job)

ArmForgotten == armed' = armed
ArmWatchdog == armed' = TRUE

\* LISTENING or RECORDING: the audio goes to the STT worker ...
BeginTranscription(m) ==
  /\ state \in {"LISTENING", "RECORDING"}
  /\ m.long
  /\ state' = "TRANSCRIBING"
  /\ ArmWatchdog
  /\ jobs' = JobsAfter([utt |-> m.utt, agent |-> Resolve(m.agent), source |-> m.source])
  /\ hung' = FALSE
  /\ UNCHANGED audioQueue

\* ... unless it is too short.
RejectShort(m) ==
  /\ state \in {"LISTENING", "RECORDING"}
  /\ ~m.long
  /\ state' = "LISTENING"
  /\ UNCHANGED <<armed, jobs, hung, audioQueue>>

\* TRANSCRIBING or INJECTING: parked, without the captured agent.
ParkSpeech(m) ==
  /\ state \in {"TRANSCRIBING", "INJECTING"}
  /\ audioQueue' = Park(m.utt, m.long)
  /\ UNCHANGED <<state, armed, jobs, hung>>

\* OFF or PLAYING: dropped.
DropSpeech ==
  /\ state \in {"OFF", "PLAYING"}
  /\ UNCHANGED <<state, armed, jobs, hung, audioQueue>>

HandleSpeechEnded ==
  /\ Handling("SpeechEnded")
  /\ LET m == Head(queue)
     IN  BeginTranscription(m) \/ RejectShort(m) \/ ParkSpeech(m) \/ DropSpeech
  /\ Consume(<<>>)
  /\ UNCHANGED <<plays, desired, pending, elapsed, vad, heard, agents, owed, history>>

(***************************************************************************)
(* Transcription.  A watchdog cancelled after its wait is over still runs. *)
(***************************************************************************)
\* While something plays the transition is left to the last PlayCompleted.
DeferTranscription(m) ==
  /\ plays > 0
  /\ pending' = TRUE
  /\ Consume(<<>>)
  /\ UNCHANGED <<state, desired, audioQueue, owed>>

\* Otherwise the target is taken from any state, OFF included.
ApplyTranscription(m) ==
  LET back == desired = "LISTENING"
      beep == IF back /\ state = "OFF" THEN StartPlays ELSE <<>>
  IN  /\ plays = 0
      /\ state' = desired
      /\ desired' = "LISTENING"
      /\ Owe(beep)
      /\ IF back
         THEN Consume(beep \o Requeued) /\ audioQueue' = Leftover
         ELSE Consume(<<>>) /\ UNCHANGED audioQueue
      /\ UNCHANGED pending

HandleTranscriptionCompleted ==
  /\ Handling("TranscriptionCompleted")
  /\ armed' = FALSE
  /\ LET m == Head(queue)
     IN  /\ DeferTranscription(m) \/ ApplyTranscription(m)
         /\ injected' = Injections(m)
  /\ UNCHANGED <<plays, elapsed, jobs, hung, vad, heard, agents, captured, offAsked>>

(***************************************************************************)
(* Playback.                                                               *)
(***************************************************************************)
DesiredForgetsOff == IF plays = 0 /\ state = "OFF" THEN "OFF" ELSE "LISTENING"
DesiredAtPlayStart == IF plays = 0 /\ state = "OFF" THEN "OFF" ELSE desired

HandlePlayStarted ==
  /\ Handling("PlayStarted")
  /\ plays' = plays + 1
  /\ desired' = DesiredAtPlayStart
  /\ vad' = "silent"
  /\ state' = IF state = "OFF" THEN "OFF" ELSE "PLAYING"
  /\ Consume(<<>>)
  /\ UNCHANGED <<pending, armed, elapsed, audioQueue, jobs, hung, heard,
                 agents, owed, history>>

PlaysUnguarded == plays - 1
PlaysAfterCompletion == IF plays > 0 THEN plays - 1 ELSE 0

LastPlay == PlaysAfterCompletion = 0

\* An OFF asked for meanwhile wins; otherwise PLAYING, a deferred TRANSCRIBING
\* and, as a safety net, any other state go to the desired state.
FinishPlays ==
  LET back == desired = "LISTENING"
  IN  /\ vad' = "silent"
      /\ desired' = "LISTENING"
      /\ pending' = FALSE
      /\ state' = IF state = "OFF" THEN "OFF" ELSE desired
      /\ offAsked' = FALSE
      /\ IF back
         THEN Consume(Requeued) /\ audioQueue' = Leftover
         ELSE Consume(<<>>) /\ UNCHANGED audioQueue

KeepPlaying ==
  /\ Consume(<<>>)
  /\ UNCHANGED <<state, desired, pending, vad, audioQueue, offAsked>>

HandlePlayCompleted ==
  /\ Handling("PlayCompleted")
  /\ plays' = PlaysAfterCompletion
  /\ IF LastPlay THEN FinishPlays ELSE KeepPlaying
  /\ UNCHANGED <<armed, elapsed, jobs, hung, heard, agents, owed, captured, injected>>

(***************************************************************************)
(* Commands.                                                               *)
(***************************************************************************)
TurnOn ==
  /\ state = "OFF"
  /\ state' = "LISTENING"
  /\ Consume(StartPlays)
  /\ Owe(StartPlays)
  /\ UNCHANGED <<desired, offAsked>>

\* The intent is recorded and applied by whatever leaves the busy state.
TurnOffLater ==
  /\ desired' = "OFF"
  /\ offAsked' = (offAsked \/ state = "PLAYING")
  /\ Consume(<<>>)
  /\ UNCHANGED <<state, owed>>

TurnOffNow ==
  /\ state' = "OFF"
  /\ Consume(<<>>)
  /\ UNCHANGED <<desired, owed, offAsked>>

\* discard_current_internal
DiscardAudio == audioQueue' = <<>> /\ vad' = "silent"
KeepAudio == UNCHANGED <<audioQueue, vad>>

HandleHotkeyPressed ==
  /\ Handling("HotkeyPressed")
  /\ \/ TurnOn /\ KeepAudio
     \/ state # "OFF" /\ plays > 0 /\ TurnOffLater /\ KeepAudio
     \/ state # "OFF" /\ plays = 0 /\ TurnOffNow /\ DiscardAudio
  /\ UNCHANGED <<plays, pending, armed, elapsed, jobs, hung, heard, agents,
                 captured, injected>>

IgnoreCommand == Consume(<<>>) /\ UNCHANGED <<state, desired, owed, offAsked>>

HandleSetListening ==
  /\ Handling("SetListening")
  /\ IF Head(queue).on
     THEN TurnOn \/ (state # "OFF" /\ IgnoreCommand)
     ELSE \/ state = "LISTENING" /\ TurnOffNow
          \/ state = "OFF" /\ IgnoreCommand
          \/ state \notin {"OFF", "LISTENING"} /\ TurnOffLater
  /\ UNCHANGED <<plays, pending, armed, elapsed, audio, agents, captured, injected>>

HandleDiscardCurrent ==
  /\ Handling("DiscardCurrent")
  /\ DiscardAudio
  /\ state' = IF state = "RECORDING" THEN "LISTENING" ELSE state
  /\ Consume(<<>>)
  /\ UNCHANGED <<plays, desired, pending, armed, elapsed, jobs, hung, heard,
                 agents, owed, history>>

\* flush_vad: speech in progress ends now, for the agent being left.
Flush(l) ==
  IF vad = "speaking" THEN <<SpeechEnded(heard, l, current, "vad")>> ELSE <<>>

\* Announcing the new agent pauses the mic unless it is OFF.
Announcement(a) ==
  IF AnnounceAgent /\ a # current /\ state # "OFF"
  THEN <<Signal("PlayStarted")>> ELSE <<>>

HandleSwitchAgent ==
  /\ Handling("SwitchAgent")
  /\ LET to == Head(queue).to
         found == to \in registered
         announced == IF found THEN Announcement(to) ELSE <<>>
     IN  IF registered = {}
         THEN Consume(<<>>) /\ UNCHANGED <<vad, captured, current, owed>>
         ELSE /\ \E l \in BOOLEAN : Consume(Flush(l) \o announced)
              /\ vad' = "silent"
              /\ captured' = IF vad = "speaking"
                             THEN [captured EXCEPT ![heard] = current] ELSE captured
              /\ current' = IF found THEN to ELSE current
              /\ Owe(announced)
  /\ UNCHANGED <<control, audioQueue, jobs, hung, heard, registered, injected, offAsked>>

HandleEvent ==
  \/ HandleSpeechStarted
  \/ HandleSpeechEnded
  \/ HandleTranscriptionCompleted
  \/ HandlePlayStarted
  \/ HandlePlayCompleted
  \/ HandleHotkeyPressed
  \/ HandleSetListening
  \/ HandleDiscardCurrent
  \/ HandleSwitchAgent
=============================================================================
