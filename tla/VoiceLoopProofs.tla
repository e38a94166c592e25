--------------------------- MODULE VoiceLoopProofs ---------------------------
(***************************************************************************)
(* Safety of VoiceLoop for every number of agents, utterances, commands    *)
(* and playbacks.                                                          *)
(***************************************************************************)
EXTENDS VoiceLoop, FiniteSetTheorems, SequenceTheorems, WellFoundedInduction, TLAPS

USE ConstantsAssumption, BoundsAssumption

-----------------------------------------------------------------------------
(***************************************************************************)
(* Messages.                                                               *)
(***************************************************************************)

\* Every message a handler or a producer builds is one of the messages of fsm.py.
LEMMA MessagesBuilt ==
  /\ \A u \in Utterances, l \in BOOLEAN, a \in AgentOrNone, s \in Source :
       SpeechEnded(u, l, a, s) \in Message
  /\ \A j \in Job : Transcribed(j) \in Message
  /\ NoText \in Message
  /\ Signal("SpeechStarted") \in Message
  /\ Signal("PlayStarted") \in Message
  /\ Signal("PlayCompleted") \in Message
  BY DEF SpeechEnded, Transcribed, NoText, Signal, Message, SpeechEndedMessage,
         TranscriptionMessage, Job

\* What the type of a message says of its other fields.
LEMMA MessageFields ==
  ASSUME NEW m \in Message
  PROVE  /\ m.type = "SpeechEnded" => m \in SpeechEndedMessage
         /\ m.type = "TranscriptionCompleted" => m \in TranscriptionMessage
         /\ m.type = "SwitchAgent" => m.to \in Agents
  BY DEF Message, SpeechEndedMessage, TranscriptionMessage, CommandMessage

\* A queue that loses its head and gains messages is still a queue of messages.
LEMMA QueueTypes ==
  ASSUME NEW q \in Seq(Message), NEW msgs \in Seq(Message)
  PROVE  /\ q \o msgs \in Seq(Message)
         /\ q # <<>> => Tail(q) \o msgs \in Seq(Message)
         /\ q # <<>> => Head(q) \in Message
  OBVIOUS

\* A nonempty set of naturals has a least element.
LEMMA LeastElement ==
  ASSUME NEW S \in SUBSET Nat, S # {}
  PROVE  \E i \in S : \A j \in S : i <= j
<1> DEFINE Less == {p \in Nat \X Nat : p[1] < p[2]}
<1>1. Less = OpToRel(<, Nat)
  BY Zenon DEF OpToRel
<1>2. IsWellFoundedOn(Less, Nat)
  BY <1>1, NatLessThanWellFounded, Zenon
<1>3. PICK i \in S : \A j \in S : <<j, i>> \notin Less
  BY <1>2, WFMin, Zenon
<1>4. ASSUME NEW j \in S, j < i
      PROVE  <<j, i>> \in Less
  <2>1. <<j, i>> \in Nat \X Nat
    OBVIOUS
  <2> QED
    BY <1>4, <2>1
<1>5. \A j \in S : ~(j < i)
  BY <1>3, <1>4, Zenon
<1> QED
  BY <1>5

-----------------------------------------------------------------------------
(***************************************************************************)
(* Type correctness.                                                       *)
(***************************************************************************)

\* The audio that is taken up again exists.
LEMMA FirstLongExists ==
  ASSUME TypeOK, HasLong
  PROVE  /\ FirstLong \in 1..Len(audioQueue)
         /\ audioQueue[FirstLong] \in Parked
<1> USE DEF TypeOK
<1> DEFINE Long == {i \in DOMAIN audioQueue : audioQueue[i].long}
<1>1. Long # {} /\ Long \subseteq Nat
  BY DEF HasLong
<1>2. PICK i \in Long : \A j \in Long : i <= j
  BY <1>1, LeastElement
<1>3. audioQueue[i].long /\ \A j \in 1..(i - 1) : ~audioQueue[j].long
  BY <1>2
<1>4. FirstLong \in DOMAIN audioQueue
  BY <1>2, <1>3 DEF FirstLong
<1> QED
  BY <1>4

\* What the handlers append to the queue, and what they take from the parked
\* audio, has the right type.
LEMMA HelperTypes ==
  ASSUME TypeOK
  PROVE  /\ Requeued \in Seq(Message)
         /\ Leftover \in Seq(Parked)
         /\ Len(Leftover) <= AudioQueueSize
         /\ StartPlays \in Seq(Message)
         /\ \A l \in BOOLEAN : Flush(l) \in Seq(Message)
         /\ \A a \in Agents : Announcement(a) \in Seq(Message)
         /\ \A a \in AgentOrNone : Resolve(a) \in AgentOrNone
<1> USE DEF TypeOK
<1>1. HasLong => /\ FirstLong \in 1..Len(audioQueue)
                 /\ audioQueue[FirstLong] \in Parked
  BY FirstLongExists
<1>2. Requeued \in Seq(Message)
  <2>1. CASE HasLong
    <3>1. SpeechEnded(audioQueue[FirstLong].utt, TRUE, current, "queued") \in Message
      BY <1>1, <2>1, MessagesBuilt DEF Parked, Source
    <3>2. \A m \in Message : <<m>> \in Seq(Message)
      OBVIOUS
    <3>3. Requeued = <<SpeechEnded(audioQueue[FirstLong].utt, TRUE, current, "queued")>>
      BY <2>1 DEF Requeued
    <3> QED
      BY <3>1, <3>2, <3>3, Zenon
  <2>2. CASE ~HasLong
    BY <2>2 DEF Requeued
  <2> QED
    BY <2>1, <2>2
<1>3. Leftover \in Seq(Parked) /\ Len(Leftover) <= AudioQueueSize
  BY <1>1 DEF Leftover
<1>4. StartPlays \in Seq(Message)
  BY MessagesBuilt DEF StartPlays
<1>5. ASSUME NEW l \in BOOLEAN
      PROVE  Flush(l) \in Seq(Message)
  BY MessagesBuilt DEF Flush, Utterances, Source
<1>6. ASSUME NEW a \in Agents
      PROVE  Announcement(a) \in Seq(Message)
  BY MessagesBuilt DEF Announcement
<1>7. \A a \in AgentOrNone : Resolve(a) \in AgentOrNone
  BY DEF Resolve
<1> QED
  BY <1>2, <1>3, <1>4, <1>5, <1>6, <1>7

\* Every handler takes the head of a nonempty queue and appends messages.
LEMMA HandlerConsumes ==
  ASSUME TypeOK, HandleEvent
  PROVE  queue # <<>> /\ \E msgs \in Seq(Message) : Consume(msgs)
<1>1. queue # <<>>
  <2>1. \E t \in {"SpeechStarted", "SpeechEnded", "TranscriptionCompleted", "PlayStarted",
                  "PlayCompleted", "HotkeyPressed", "SetListening", "DiscardCurrent",
                  "SwitchAgent"} : Handling(t)
    BY DEF HandleEvent, HandleSpeechStarted, HandleSpeechEnded,
       HandleTranscriptionCompleted, HandlePlayStarted, HandlePlayCompleted,
       HandleHotkeyPressed, HandleSetListening, HandleDiscardCurrent, HandleSwitchAgent
  <2> QED
    BY <2>1 DEF Handling
<1>2. <<>> \in Seq(Message) /\ Requeued \in Seq(Message) /\ StartPlays \in Seq(Message)
  BY HelperTypes
<1>3. CASE HandleSpeechStarted \/ HandleSpeechEnded \/ HandlePlayStarted \/ HandleDiscardCurrent
  <2>1. Consume(<<>>)
    BY <1>3 DEF HandleSpeechStarted, HandleSpeechEnded, HandlePlayStarted, HandleDiscardCurrent
  <2> QED
    BY <1>1, <1>2, <2>1, Zenon
<1>4. CASE HandleTranscriptionCompleted
  <2> DEFINE m == Head(queue)
             beep == IF desired = "LISTENING" /\ state = "OFF" THEN StartPlays ELSE <<>>
  <2>1. beep \o Requeued \in Seq(Message)
    BY <1>2
  <2>2. Consume(beep \o Requeued) \/ Consume(<<>>)
    BY <1>4 DEF HandleTranscriptionCompleted, DeferTranscription, ApplyTranscription
  <2> QED
    BY <1>1, <1>2, <2>1, <2>2, Zenon
<1>5. CASE HandlePlayCompleted
  <2>1. Consume(Requeued) \/ Consume(<<>>)
    BY <1>5 DEF HandlePlayCompleted, FinishPlays, KeepPlaying
  <2> QED
    BY <1>1, <1>2, <2>1, Zenon
<1>6. CASE HandleHotkeyPressed \/ HandleSetListening
  <2>1. Consume(StartPlays) \/ Consume(<<>>)
    BY <1>6 DEF HandleHotkeyPressed, HandleSetListening,
       TurnOn, TurnOffLater, TurnOffNow, IgnoreCommand
  <2> QED
    BY <1>1, <1>2, <2>1, Zenon
<1>7. CASE HandleSwitchAgent
  <2> DEFINE to == Head(queue).to
             announced == IF to \in registered THEN Announcement(to) ELSE <<>>
  <2>1. to \in Agents
    BY <1>1, <1>7, QueueTypes, MessageFields DEF TypeOK, HandleSwitchAgent, Handling
  <2>2. \A l \in BOOLEAN : Flush(l) \o announced \in Seq(Message)
    BY <2>1, HelperTypes
  <2>3. CASE registered = {}
    <3>1. Consume(<<>>)
      BY <1>7, <2>3 DEF HandleSwitchAgent
    <3> QED
      BY <1>1, <1>2, <3>1, Zenon
  <2>4. CASE registered # {}
    <3>1. \E l \in BOOLEAN : Consume(Flush(l) \o announced)
      BY <1>7, <2>4 DEF HandleSwitchAgent
    <3> QED
      BY <1>1, <2>2, <3>1, Zenon
  <2> QED
    BY <2>3, <2>4
<1> QED
  BY <1>3, <1>4, <1>5, <1>6, <1>7 DEF HandleEvent

\* A handler keeps every variable in its type.
LEMMA ControllerTypes ==
  ASSUME TypeOK, Controller
  PROVE  TypeOK'
<1> USE DEF TypeOK, Handling, control, audio, agents, history, bounds
<1>1. HandleEvent /\ UNCHANGED <<speeches, bounds>>
  BY DEF Controller
<1>2. Head(queue) \in Message
  BY <1>1, HandlerConsumes, QueueTypes
<1>3. queue' \in Seq(Message)
  BY <1>1, HandlerConsumes, QueueTypes, Zenon DEF Consume
<1>4. CASE HandleSpeechStarted
  BY <1>1, <1>3, <1>4 DEF HandleSpeechStarted, AppState
<1>5. CASE HandleSpeechEnded
  <2> DEFINE m == Head(queue)
  <2>1. m \in SpeechEndedMessage
    BY <1>2, <1>5, MessageFields DEF HandleSpeechEnded
  <2>2. UNCHANGED <<plays, desired, pending, elapsed, vad, heard, agents, owed, history>>
    BY <1>5 DEF HandleSpeechEnded
  <2>3. CASE BeginTranscription(m)
    <3>1. [utt |-> m.utt, agent |-> Resolve(m.agent), source |-> m.source] \in Job
      BY <2>1, HelperTypes DEF SpeechEndedMessage, Job
    <3>2. jobs' \in Seq(Job)
      BY <2>3, <3>1 DEF BeginTranscription, JobsAfter
    <3> QED
      BY <1>1, <1>3, <2>2, <2>3, <3>2 DEF BeginTranscription, ArmWatchdog, AppState
  <2>4. CASE RejectShort(m)
    BY <1>1, <1>3, <2>2, <2>4 DEF RejectShort, AppState
  <2>5. CASE ParkSpeech(m)
    <3> DEFINE item == [utt |-> m.utt, long |-> m.long]
    <3>1. item \in Parked
      BY <2>1 DEF Parked, SpeechEndedMessage
    <3>2. CASE Len(audioQueue) < AudioQueueSize
      <4>1. audioQueue' = Append(audioQueue, item)
        BY <2>5, <3>2 DEF ParkSpeech, Park
      <4>2. audioQueue' \in Seq(Parked) /\ Len(audioQueue') <= AudioQueueSize
        BY <3>1, <3>2, <4>1
      <4> QED
        BY <1>1, <1>3, <2>2, <2>5, <4>2 DEF ParkSpeech
    <3>3. CASE ~(Len(audioQueue) < AudioQueueSize)
      <4>1. audioQueue' = Append(Tail(audioQueue), item)
        BY <2>5, <3>3 DEF ParkSpeech, Park
      <4>2. audioQueue # <<>> /\ Tail(audioQueue) \in Seq(Parked)
              /\ Len(Tail(audioQueue)) = Len(audioQueue) - 1
        BY <3>3
      <4>3. audioQueue' \in Seq(Parked) /\ Len(audioQueue') <= AudioQueueSize
        BY <3>1, <4>1, <4>2
      <4> QED
        BY <1>1, <1>3, <2>2, <2>5, <4>3 DEF ParkSpeech
    <3> QED
      BY <3>2, <3>3
  <2>6. CASE DropSpeech
    BY <1>1, <1>3, <2>2, <2>6 DEF DropSpeech
  <2> QED
    BY <1>5, <2>3, <2>4, <2>5, <2>6 DEF HandleSpeechEnded
<1>6. CASE HandleTranscriptionCompleted
  <2> DEFINE m == Head(queue)
  <2>1. m \in TranscriptionMessage
    BY <1>2, <1>6, MessageFields DEF HandleTranscriptionCompleted
  <2>2. injected' \in Seq(InjectedText)
    <3>1. m.text => [utt |-> m.utt, to |-> Resolve(m.agent), source |-> m.source] \in InjectedText
      BY <2>1, HelperTypes DEF TranscriptionMessage, InjectedText
    <3>2. injected' = Injections(m)
      BY <1>6 DEF HandleTranscriptionCompleted
    <3> QED
      BY <3>1, <3>2 DEF Injections
  <2>3. UNCHANGED <<plays, elapsed, jobs, hung, vad, heard, agents, captured, offAsked>>
           /\ armed' = FALSE
    BY <1>6 DEF HandleTranscriptionCompleted
  <2>4. CASE DeferTranscription(m)
    BY <1>1, <1>3, <2>2, <2>3, <2>4 DEF DeferTranscription
  <2>5. CASE ApplyTranscription(m)
    <3>1. owed' \in Nat
      BY <2>5, HelperTypes DEF ApplyTranscription, Owe
    <3>2. audioQueue' \in Seq(Parked) /\ Len(audioQueue') <= AudioQueueSize
      BY <2>5, HelperTypes DEF ApplyTranscription
    <3>3. state' \in AppState \ {"INJECTING"} /\ desired' \in {"LISTENING", "OFF"}
            /\ UNCHANGED pending
      BY <2>5 DEF ApplyTranscription, AppState
    <3> QED
      BY <1>1, <1>3, <2>2, <2>3, <3>1, <3>2, <3>3
  <2> QED
    BY <1>6, <2>4, <2>5 DEF HandleTranscriptionCompleted
<1>7. CASE HandlePlayStarted
  BY <1>1, <1>3, <1>7 DEF HandlePlayStarted, DesiredAtPlayStart, AppState
<1>8. CASE HandlePlayCompleted
  <2>1. plays' \in Nat
    BY <1>8 DEF HandlePlayCompleted, PlaysAfterCompletion
  <2>2. UNCHANGED <<armed, elapsed, jobs, hung, heard, agents, owed, captured, injected>>
    BY <1>8 DEF HandlePlayCompleted
  <2>3. CASE FinishPlays
    <3>1. audioQueue' \in Seq(Parked) /\ Len(audioQueue') <= AudioQueueSize
      BY <2>3, HelperTypes DEF FinishPlays
    <3>2. state' \in AppState \ {"INJECTING"}
      BY <2>3 DEF FinishPlays, AppState
    <3> QED
      BY <1>1, <1>3, <2>1, <2>2, <2>3, <3>1, <3>2 DEF FinishPlays
  <2>4. CASE KeepPlaying
    BY <1>1, <1>3, <2>1, <2>2, <2>4 DEF KeepPlaying
  <2> QED
    BY <1>8, <2>3, <2>4 DEF HandlePlayCompleted
<1>9. CASE HandleHotkeyPressed
  <2>1. owed' \in Nat
    BY <1>9, HelperTypes DEF HandleHotkeyPressed, TurnOn, TurnOffLater, TurnOffNow, Owe
  <2>2. state' \in AppState \ {"INJECTING"} /\ desired' \in {"LISTENING", "OFF"}
          /\ offAsked' \in BOOLEAN
    BY <1>9 DEF HandleHotkeyPressed, TurnOn, TurnOffLater, TurnOffNow, AppState
  <2>3. UNCHANGED <<plays, pending, armed, elapsed, jobs, hung, heard, agents,
                    captured, injected>>
    BY <1>9 DEF HandleHotkeyPressed
  <2>4. audioQueue' \in Seq(Parked) /\ Len(audioQueue') <= AudioQueueSize
          /\ vad' \in {"silent", "speaking"} /\ (vad' = "speaking" => heard > 0)
    <3>1. CASE DiscardAudio
      BY <3>1 DEF DiscardAudio
    <3>2. CASE KeepAudio
      BY <3>2 DEF KeepAudio
    <3> QED
      BY <1>9, <3>1, <3>2 DEF HandleHotkeyPressed
  <2> QED
    BY <1>1, <1>3, <2>1, <2>2, <2>3, <2>4
<1>10. CASE HandleSetListening
  <2>1. owed' \in Nat
    BY <1>10, HelperTypes
       DEF HandleSetListening, TurnOn, TurnOffLater, TurnOffNow, IgnoreCommand, Owe
  <2>2. state' \in AppState \ {"INJECTING"} /\ desired' \in {"LISTENING", "OFF"}
          /\ offAsked' \in BOOLEAN
    BY <1>10 DEF HandleSetListening, TurnOn, TurnOffLater, TurnOffNow, IgnoreCommand, AppState
  <2>3. UNCHANGED <<plays, pending, armed, elapsed, audio, agents, captured, injected>>
    BY <1>10 DEF HandleSetListening
  <2> QED
    BY <1>1, <1>3, <2>1, <2>2, <2>3
<1>11. CASE HandleDiscardCurrent
  BY <1>1, <1>3, <1>11 DEF HandleDiscardCurrent, DiscardAudio, AppState
<1>12. CASE HandleSwitchAgent
  <2> DEFINE to == Head(queue).to
             announced == IF to \in registered THEN Announcement(to) ELSE <<>>
  <2>1. to \in Agents
    BY <1>2, <1>12, MessageFields DEF HandleSwitchAgent
  <2>2. announced \in Seq(Message)
    BY <2>1, HelperTypes
  <2>3. owed' \in Nat /\ current' \in AgentOrNone
    BY <1>12, <2>1, <2>2 DEF HandleSwitchAgent, Owe, AgentOrNone
  <2>4. captured' \in [Utterances -> AgentOrNone] /\ vad' \in {"silent", "speaking"}
          /\ (vad' = "speaking" => heard > 0)
    BY <1>12 DEF HandleSwitchAgent
  <2>5. UNCHANGED <<control, audioQueue, jobs, hung, heard, registered, injected, offAsked>>
    BY <1>12 DEF HandleSwitchAgent
  <2> QED
    BY <1>1, <1>3, <2>3, <2>4, <2>5
<1> QED
  BY <1>1, <1>4, <1>5, <1>6, <1>7, <1>8, <1>9, <1>10, <1>11, <1>12 DEF HandleEvent

\* A producer removes nothing from the queue.
LEMMA ProducerSends ==
  ASSUME TypeOK, Next, ~Controller
  PROVE  \E msgs \in Seq(Message) : queue' = queue \o msgs
<1>1. \A m \in Message : <<m>> \in Seq(Message)
  OBVIOUS
<1>2. ASSUME NEW m \in Message, Send(<<m>>)
      PROVE  \E msgs \in Seq(Message) : queue' = queue \o msgs
  BY <1>1, <1>2, Zenon DEF Send
<1>3. ASSUME UNCHANGED queue
      PROVE  \E msgs \in Seq(Message) : queue' = queue \o msgs
  <2>1. queue' = queue \o <<>> /\ <<>> \in Seq(Message)
    BY <1>3 DEF TypeOK
  <2> QED
    BY <2>1, Zenon
<1>4. CASE VadSpeechStart
  BY <1>2, <1>4, MessagesBuilt DEF VadSpeechStart
<1>5. CASE VadSpeechEnd \/ VadMaxSpeech
  <2>1. PICK l \in BOOLEAN : EndUtterance(l)
    BY <1>5 DEF VadSpeechEnd, VadMaxSpeech
  <2>2. vad = "speaking"
    BY <1>5 DEF VadSpeechEnd, VadMaxSpeech
  <2>3. SpeechEnded(heard, l, current, "vad") \in Message
    BY <2>2, MessagesBuilt DEF TypeOK, Utterances, Source
  <2> QED
    BY <1>2, <2>1, <2>3, Zenon DEF EndUtterance
<1>6. CASE SttTranscribes
  <2>1. Transcribed(Head(jobs)) \in Message
    BY <1>6, MessagesBuilt DEF TypeOK, SttTranscribes
  <2> QED
    BY <1>2, <1>6, <2>1, Zenon DEF SttTranscribes, SttCompletes
<1>7. CASE SttFindsNoText
  BY <1>2, <1>7, MessagesBuilt DEF SttFindsNoText, SttCompletes
<1>8. CASE SttHangs \/ WatchdogElapses
  BY <1>3, <1>8 DEF SttHangs, WatchdogElapses
<1>9. CASE WatchdogRuns
  BY <1>2, <1>3, <1>9, MessagesBuilt DEF WatchdogRuns, WatchdogMessage
<1>10. CASE PlayAudio \/ PlaybackEnds
  BY <1>2, <1>10, MessagesBuilt DEF PlayAudio, PlaybackEnds
<1>11. CASE SpeechBegins
  BY <1>2, <1>3, <1>11, MessagesBuilt DEF SpeechBegins
<1>12. CASE SpeechDone
  BY <1>2, <1>3, <1>12, MessagesBuilt DEF SpeechDone
<1>13. CASE UserCommands
  BY <1>2, <1>13, BoundsAssumption DEF UserCommands, Message
<1>14. ASSUME NEW a \in Agents, AgentRegisters(a)
       PROVE  \E msgs \in Seq(Message) : queue' = queue \o msgs
  BY <1>3, <1>14 DEF AgentRegisters
<1>15. ASSUME NEW a \in Agents, AgentUnregisters(a)
       PROVE  \E msgs \in Seq(Message) : queue' = queue \o msgs
  <2>1. \A b \in registered : Announcement(b) \in Seq(Message)
    BY HelperTypes DEF TypeOK
  <2>2. (\E b \in registered : Send(Announcement(b))) \/ UNCHANGED queue
    BY <1>15 DEF AgentUnregisters
  <2> QED
    BY <1>3, <2>1, <2>2, Zenon DEF Send
<1> QED
  BY <1>4, <1>5, <1>6, <1>7, <1>8, <1>9, <1>10, <1>11, <1>12, <1>13, <1>14, <1>15 DEF Next

\* A producer keeps every variable in its type.
LEMMA ProducerTypes ==
  ASSUME TypeOK, Next, ~Controller
  PROVE  TypeOK'
<1> USE DEF TypeOK, control, audio, agents, history, bounds
<1>1. queue' \in Seq(Message)
  <2>1. PICK msgs \in Seq(Message) : queue' = queue \o msgs
    BY ProducerSends
  <2> QED
    BY <2>1, QueueTypes
<1>2. CASE VadSpeechStart
  BY <1>1, <1>2 DEF VadSpeechStart
<1>3. CASE VadSpeechEnd \/ VadMaxSpeech
  <2>1. captured' \in [Utterances -> AgentOrNone]
    BY <1>3 DEF VadSpeechEnd, VadMaxSpeech, EndUtterance
  <2>2. CASE VadSpeechEnd
    BY <1>1, <2>1, <2>2 DEF VadSpeechEnd
  <2>3. CASE VadMaxSpeech
    BY <1>1, <2>1, <2>3 DEF VadMaxSpeech
  <2> QED
    BY <1>3, <2>2, <2>3
<1>4. CASE SttTranscribes \/ SttFindsNoText
  <2>1. PICK msg : SttCompletes(msg)
    BY <1>4 DEF SttTranscribes, SttFindsNoText
  <2>2. jobs' \in Seq(Job)
    BY <2>1 DEF SttCompletes
  <2> QED
    BY <1>1, <2>1, <2>2 DEF SttCompletes
<1>5. CASE SttHangs
  BY <1>5 DEF SttHangs
<1>6. CASE WatchdogElapses
  <2>1. armed' = FALSE /\ elapsed' = elapsed + 1
    BY <1>6, Zenon DEF WatchdogElapses
  <2>2. UNCHANGED <<state, plays, desired, pending, queue, audio, agents, owed,
                    history, speeches, bounds>>
    BY <1>6 DEF WatchdogElapses
  <2>3. armed' \in BOOLEAN
    BY <2>1
  <2>4. elapsed' \in Nat
    BY <2>1
  <2> QED
    BY <2>2, <2>3, <2>4
<1>7. CASE WatchdogRuns
  BY <1>1, <1>7 DEF WatchdogRuns
<1>8. CASE PlayAudio
  BY <1>1, <1>8 DEF PlayAudio, Owe
<1>9. CASE PlaybackEnds
  BY <1>1, <1>9 DEF PlaybackEnds
<1>10. CASE SpeechBegins
  BY <1>1, <1>10 DEF SpeechBegins
<1>11. CASE SpeechDone
  BY <1>1, <1>11 DEF SpeechDone
<1>12. CASE UserCommands
  BY <1>1, <1>12 DEF UserCommands
<1>13. ASSUME NEW a \in Agents, AgentRegisters(a)
       PROVE  TypeOK'
  BY <1>13 DEF AgentRegisters, AgentOrNone
<1>14. ASSUME NEW a \in Agents, AgentUnregisters(a)
       PROVE  TypeOK'
  <2>1. owed' \in Nat /\ current' \in AgentOrNone
    <3>1. CASE a = current /\ registered # {a}
      <4>1. PICK b \in registered \ {a} : current' = b /\ Owe(Announcement(b))
        BY <1>14, <3>1 DEF AgentUnregisters
      <4> QED
        BY <4>1, HelperTypes DEF Owe, AgentOrNone
    <3>2. CASE ~(a = current /\ registered # {a})
      BY <1>14, <3>2 DEF AgentUnregisters, AgentOrNone
    <3> QED
      BY <3>1, <3>2
  <2> QED
    BY <1>1, <1>14, <2>1 DEF AgentUnregisters
<1> QED
  BY <1>2, <1>3, <1>4, <1>5, <1>6, <1>7, <1>8, <1>9, <1>10, <1>11, <1>12, <1>13, <1>14
  DEF Next

\* The program starts well-typed.
LEMMA InitTypes == Init => TypeOK
<1> SUFFICES ASSUME Init
             PROVE  TypeOK
  OBVIOUS
<1>1. queue \in Seq(Message) /\ owed \in Nat
  <2>1. \A m \in Message : <<m>> \in Seq(Message) /\ Len(<<m>>) \in Nat
    OBVIOUS
  <2>2. <<>> \in Seq(Message) /\ Len(<<>>) \in Nat
    OBVIOUS
  <2> QED
    BY <2>1, <2>2, MessagesBuilt DEF Init, StartPlays
<1>2. captured \in [Utterances -> AgentOrNone]
  BY DEF Init, AgentOrNone
<1>3. audioQueue \in Seq(Parked) /\ Len(audioQueue) <= AudioQueueSize
  BY DEF Init
<1>4. jobs \in Seq(Job) /\ injected \in Seq(InjectedText)
  BY DEF Init
<1>5. current \in AgentOrNone /\ registered \subseteq Agents
  BY DEF Init, AgentOrNone
<1>6. state \in AppState \ {"INJECTING"} /\ desired \in {"LISTENING", "OFF"}
        /\ vad = "silent"
  BY DEF Init, AppState
<1>7. /\ pending \in BOOLEAN
      /\ armed \in BOOLEAN
      /\ hung \in BOOLEAN
      /\ offAsked \in BOOLEAN
  BY DEF Init
<1>8. /\ plays \in Nat
      /\ elapsed \in Nat
      /\ heard \in 0..MaxUtterances
      /\ speeches \in Nat
      /\ commands \in Nat
      /\ prompts \in Nat
      /\ churn \in Nat
  BY DEF Init
<1> QED
  BY <1>1, <1>2, <1>3, <1>4, <1>5, <1>6, <1>7, <1>8 DEF TypeOK

\* Every step keeps every variable in its type.
LEMMA TypeStep ==
  ASSUME TypeOK, [Next]_vars
  PROVE  TypeOK'
<1>1. CASE Controller
  BY <1>1, ControllerTypes
<1>2. CASE Next /\ ~Controller
  BY <1>2, ProducerTypes
<1>3. CASE UNCHANGED vars
  BY <1>3 DEF TypeOK, vars, controllerVars, control, audio, agents, history, bounds
<1> QED
  BY <1>1, <1>2, <1>3

\* Every reachable state of the voice loop is well-typed: the state machine is in a
\* state the handlers know (never INJECTING), the parked audio stays within its
\* capacity and the play counter never goes below zero.
THEOREM TypeCorrect == Spec => []TypeOK
  BY InitTypes, TypeStep, PTL DEF Spec

-----------------------------------------------------------------------------
(***************************************************************************)
(* The inductive invariant.                                                *)
(***************************************************************************)

\* A message at the head is the only one a handler removes, and a producer removes
\* none: a completion in the queue stays there until it is handled.
LEMMA QueuedStays ==
  ASSUME TypeOK, Next, ~(Controller /\ HandleTranscriptionCompleted),
         Queued("TranscriptionCompleted")
  PROVE  Queued("TranscriptionCompleted")'
<1> DEFINE T == "TranscriptionCompleted"
<1>1. PICK i \in DOMAIN queue : queue[i].type = T
  BY DEF Queued
<1>2. queue \in Seq(Message)
  BY DEF TypeOK
<1>3. ASSUME NEW msgs \in Seq(Message), queue' = queue \o msgs
      PROVE  Queued(T)'
  <2>1. i \in DOMAIN queue' /\ queue'[i] = queue[i]
    BY <1>1, <1>2, <1>3
  <2> QED
    BY <1>1, <2>1 DEF Queued
<1>4. CASE Controller
  <2>1. queue # <<>> /\ \E msgs \in Seq(Message) : Consume(msgs)
    BY <1>4, HandlerConsumes DEF Controller
  <2>2. PICK msgs \in Seq(Message) : queue' = Tail(queue) \o msgs
    BY <2>1 DEF Consume
  <2>3. Head(queue).type # T
    BY <1>4 DEF Controller, HandleEvent, Handling, HandleSpeechStarted, HandleSpeechEnded,
       HandlePlayStarted, HandlePlayCompleted, HandleHotkeyPressed, HandleSetListening,
       HandleDiscardCurrent, HandleSwitchAgent
  <2>4. i # 1 /\ i \in 2..Len(queue)
    BY <1>1, <1>2, <2>1, <2>3
  <2>5. i - 1 \in DOMAIN queue' /\ queue'[i - 1] = queue[i]
    BY <1>2, <2>1, <2>2, <2>4
  <2> QED
    BY <1>1, <2>5 DEF Queued
<1>5. CASE ~Controller
  <2>1. \E msgs \in Seq(Message) : queue' = queue \o msgs
    BY <1>5, ProducerSends
  <2> QED
    BY <1>3, <2>1
<1> QED
  BY <1>4, <1>5

\* Only the controller and the watchdog change what the state machine knows.
LEMMA ProducersKeepControl ==
  ASSUME Next, ~Controller
  PROVE  /\ UNCHANGED <<state, plays, desired, pending, offAsked>>
         /\ WatchdogElapses \/ WatchdogRuns \/ UNCHANGED <<armed, elapsed>>
  BY DEF Next, control, history, VadSpeechStart, VadSpeechEnd, VadMaxSpeech, EndUtterance,
     SttTranscribes, SttFindsNoText, SttCompletes, SttHangs, WatchdogElapses, WatchdogRuns,
     PlayAudio, PlaybackEnds, SpeechBegins, SpeechDone, UserCommands,
     AgentRegisters, AgentUnregisters

\* The bookkeeping of plays survives every step.
LEMMA PlaysStep ==
  ASSUME IInv, [Next]_vars
  PROVE  PlaysAccounted'
<1> USE DEF IInv, PlaysAccounted, control, history
<1>1. TypeOK
  OBVIOUS
<1>2. CASE Controller
  <2>1. HandleEvent
    BY <1>2 DEF Controller
  <2>2. CASE HandleSpeechStarted
    BY <2>2 DEF HandleSpeechStarted
  <2>3. CASE HandleSpeechEnded
    BY <2>3 DEF HandleSpeechEnded, BeginTranscription, RejectShort, ParkSpeech, DropSpeech
  <2>4. CASE HandleTranscriptionCompleted
    BY <2>4 DEF TypeOK, HandleTranscriptionCompleted, DeferTranscription, ApplyTranscription
  <2>5. CASE HandlePlayStarted
    BY <2>5 DEF TypeOK, HandlePlayStarted, DesiredAtPlayStart
  <2>6. CASE HandlePlayCompleted
    BY <2>6 DEF TypeOK, HandlePlayCompleted, PlaysAfterCompletion, LastPlay, FinishPlays, KeepPlaying
  <2>7. CASE HandleHotkeyPressed
    BY <2>7 DEF TypeOK, HandleHotkeyPressed, TurnOn, TurnOffLater, TurnOffNow
  <2>8. CASE HandleSetListening
    BY <2>8 DEF TypeOK, HandleSetListening, TurnOn, TurnOffLater, TurnOffNow, IgnoreCommand
  <2>9. CASE HandleDiscardCurrent
    BY <2>9 DEF HandleDiscardCurrent
  <2>10. CASE HandleSwitchAgent
    BY <2>10 DEF HandleSwitchAgent
  <2> QED
    BY <2>1, <2>2, <2>3, <2>4, <2>5, <2>6, <2>7, <2>8, <2>9, <2>10 DEF HandleEvent
<1>3. CASE Next /\ ~Controller
  BY <1>3, ProducersKeepControl
<1>4. CASE UNCHANGED vars
  BY <1>4 DEF vars, controllerVars
<1> QED
  BY <1>2, <1>3, <1>4

\* Whatever happens, TRANSCRIBING keeps a way out.
LEMMA ExitStep ==
  ASSUME IInv, [Next]_vars
  PROVE  TranscribingHasExit'
<1> USE DEF IInv, TranscribingHasExit, control, history
<1>1. TypeOK
  OBVIOUS
<1>2. CASE HandleTranscriptionCompleted
  BY <1>2 DEF TypeOK, HandleTranscriptionCompleted, DeferTranscription, ApplyTranscription
<1>3. CASE Controller /\ ~HandleTranscriptionCompleted
  <2>1. Queued("TranscriptionCompleted") => Queued("TranscriptionCompleted")'
    BY <1>1, <1>3, QueuedStays DEF Next
  <2>2. CASE HandleSpeechStarted
    BY <2>1, <2>2 DEF HandleSpeechStarted
  <2>3. CASE HandleSpeechEnded
    BY <2>1, <2>3 DEF HandleSpeechEnded, BeginTranscription, ArmWatchdog, RejectShort,
       ParkSpeech, DropSpeech
  <2>4. CASE HandlePlayStarted
    BY <2>4 DEF HandlePlayStarted
  <2>5. CASE HandlePlayCompleted
    BY <2>1, <2>5 DEF TypeOK, PlaysAccounted, HandlePlayCompleted, PlaysAfterCompletion,
       LastPlay, FinishPlays, KeepPlaying
  <2>6. CASE HandleHotkeyPressed
    BY <2>1, <2>6 DEF HandleHotkeyPressed, TurnOn, TurnOffLater, TurnOffNow
  <2>7. CASE HandleSetListening
    BY <2>1, <2>7 DEF HandleSetListening, TurnOn, TurnOffLater, TurnOffNow, IgnoreCommand
  <2>8. CASE HandleDiscardCurrent
    BY <2>1, <2>8 DEF HandleDiscardCurrent
  <2>9. CASE HandleSwitchAgent
    BY <2>1, <2>9 DEF HandleSwitchAgent
  <2> QED
    BY <1>3, <2>2, <2>3, <2>4, <2>5, <2>6, <2>7, <2>8, <2>9 DEF Controller, HandleEvent
<1>4. CASE Next /\ ~Controller
  <2>1. Queued("TranscriptionCompleted") => Queued("TranscriptionCompleted")'
    BY <1>1, <1>4, QueuedStays
  <2>2. UNCHANGED <<state, plays, pending>>
    BY <1>4, ProducersKeepControl
  <2>3. CASE WatchdogElapses
    BY <2>2, <2>3 DEF TypeOK, WatchdogElapses
  <2>4. CASE WatchdogRuns
    <3>1. CASE state = "TRANSCRIBING"
      <4>1. queue' = Append(queue, NoText) /\ queue \in Seq(Message)
        BY <2>4, <3>1 DEF TypeOK, WatchdogRuns, WatchdogMessage, Send
      <4>2. Queued("TranscriptionCompleted")'
        <5>1. Len(queue) + 1 \in DOMAIN queue'
                /\ queue'[Len(queue) + 1].type = "TranscriptionCompleted"
          BY <4>1 DEF NoText
        <5> QED
          BY <5>1 DEF Queued
      <4> QED
        BY <4>2
    <3>2. CASE state # "TRANSCRIBING"
      BY <2>2, <3>2
    <3> QED
      BY <3>1, <3>2
  <2>5. CASE UNCHANGED <<armed, elapsed>>
    BY <2>1, <2>2, <2>5
  <2> QED
    BY <1>4, <2>3, <2>4, <2>5, ProducersKeepControl
<1>5. CASE UNCHANGED vars
  BY <1>5 DEF vars, controllerVars, Queued
<1> QED
  BY <1>2, <1>3, <1>4, <1>5

\* IInv holds in every reachable state.
THEOREM Inductive == Spec => []IInv
<1>1. Init => IInv
  BY InitTypes DEF Init, IInv, TranscribingHasExit, PlaysAccounted
<1>2. IInv /\ [Next]_vars => IInv'
  <2> SUFFICES ASSUME IInv, [Next]_vars
               PROVE  IInv'
    OBVIOUS
  <2> QED
    BY TypeStep, PlaysStep, ExitStep DEF IInv
<1> QED
  BY <1>1, <1>2, PTL DEF Spec

\* For every number of agents, utterances, playbacks and commands: as long as the state
\* machine waits in TRANSCRIBING, a watchdog, a timer thread, a queued completion or a
\* counted play will take it out (controller.py, the transcription watchdog).
THEOREM TranscribingAlwaysHasExit == Spec => []TranscribingHasExit
  BY Inductive, PTL DEF IInv

\* The microphone stays paused until the last of any number of plays is over
\* (controller.py, the play counter).
THEOREM MicStaysPaused == Spec => MicPausedUntilLastPlay
<1>1. IInv /\ [Next]_vars => [state = "PLAYING" /\ state' # "PLAYING" => plays' = 0]_vars
  <2> SUFFICES ASSUME IInv, Next, state = "PLAYING", state' # "PLAYING"
               PROVE  plays' = 0
    OBVIOUS
  <2>1. plays > 0 /\ TypeOK
    BY DEF IInv, PlaysAccounted
  <2>2. HandleEvent
    BY ProducersKeepControl DEF Controller
  <2>3. ~HandleSpeechStarted /\ ~HandleSpeechEnded
    BY DEF HandleSpeechStarted, HandleSpeechEnded, BeginTranscription, RejectShort,
       ParkSpeech, DropSpeech
  <2>4. ~HandleTranscriptionCompleted
    BY <2>1 DEF TypeOK, HandleTranscriptionCompleted, DeferTranscription, ApplyTranscription
  <2>5. ~HandlePlayStarted /\ ~HandleDiscardCurrent /\ ~HandleSwitchAgent
    BY DEF HandlePlayStarted, HandleDiscardCurrent, HandleSwitchAgent, control
  <2>6. ~HandleHotkeyPressed /\ ~HandleSetListening
    BY <2>1 DEF TypeOK, HandleHotkeyPressed, HandleSetListening,
       TurnOn, TurnOffLater, TurnOffNow, IgnoreCommand
  <2>7. CASE HandlePlayCompleted
    BY <2>7 DEF HandlePlayCompleted, LastPlay, FinishPlays, KeepPlaying
  <2> QED
    BY <2>2, <2>3, <2>4, <2>5, <2>6, <2>7 DEF HandleEvent
<1> QED
  BY <1>1, Inductive, PTL DEF Spec, MicPausedUntilLastPlay

\* An OFF asked for while something plays decides the state after the playback, whatever
\* else is queued, begins or completes meanwhile (controller.py, _desired_state_after_play).
THEOREM OffInPlayIsHonoured == Spec => OffAskedInPlayIsHonoured
<1>1. IInv /\ [Next]_vars => [offAsked /\ state' # "PLAYING" => state' = "OFF"]_vars
  <2> SUFFICES ASSUME IInv, Next, offAsked, state' # "PLAYING"
               PROVE  state' = "OFF"
    OBVIOUS
  <2>1. plays > 0 /\ TypeOK /\ state = "PLAYING" /\ desired = "OFF"
    BY DEF IInv, PlaysAccounted
  <2>2. HandleEvent
    BY <2>1, ProducersKeepControl DEF Controller
  <2>3. ~HandleSpeechStarted /\ ~HandleSpeechEnded
    BY <2>1 DEF HandleSpeechStarted, HandleSpeechEnded, BeginTranscription, RejectShort,
       ParkSpeech, DropSpeech
  <2>4. ~HandleTranscriptionCompleted
    <3>1. plays # 0 /\ state' # state
      BY <2>1 DEF TypeOK
    <3> QED
      BY <3>1 DEF HandleTranscriptionCompleted, DeferTranscription, ApplyTranscription
  <2>5. ~HandlePlayStarted /\ ~HandleDiscardCurrent /\ ~HandleSwitchAgent
    BY <2>1 DEF HandlePlayStarted, HandleDiscardCurrent, HandleSwitchAgent, control
  <2>6. ~HandleHotkeyPressed /\ ~HandleSetListening
    <3>1. plays # 0 /\ state' # state /\ state \notin {"OFF", "LISTENING"}
      BY <2>1 DEF TypeOK
    <3> QED
      BY <3>1 DEF HandleHotkeyPressed, HandleSetListening, TurnOn, TurnOffLater, TurnOffNow, IgnoreCommand
  <2>7. CASE HandlePlayCompleted
    BY <2>1, <2>7 DEF HandlePlayCompleted, LastPlay, FinishPlays, KeepPlaying
  <2> QED
    BY <2>2, <2>3, <2>4, <2>5, <2>6, <2>7 DEF HandleEvent
<1> QED
  BY <1>1, Inductive, PTL DEF Spec, OffAskedInPlayIsHonoured

-----------------------------------------------------------------------------
(***************************************************************************)
(* How many elements of a sequence are in a set.                           *)
(***************************************************************************)
Positions(s, T) == {i \in DOMAIN s : s[i] \in T}
HowMany(s, T) == Cardinality(Positions(s, T))

LEMMA PositionsFinite ==
  ASSUME NEW S, NEW s \in Seq(S), NEW T
  PROVE  /\ Positions(s, T) \subseteq 1..Len(s)
         /\ IsFiniteSet(Positions(s, T))
         /\ HowMany(s, T) \in Nat
<1>1. Len(s) \in Nat /\ Positions(s, T) \subseteq 1..Len(s)
  BY LenProperties DEF Positions
<1>2. IsFiniteSet(1..Len(s))
  BY <1>1, FS_Interval
<1> QED
  BY <1>1, <1>2, FS_Subset, FS_CardinalityType DEF HowMany

\* The elements of a concatenation are those of its parts.
LEMMA ConcatCounts ==
  ASSUME NEW S, NEW s \in Seq(S), NEW t \in Seq(S), NEW T
  PROVE  HowMany(s \o t, T) = HowMany(s, T) + HowMany(t, T)
<1> DEFINE n == Len(s)
           P == Positions(s, T)
           D == Positions(t, T)
           Q == Positions(s \o t, T)
           f == [i \in D |-> i + n]
<1>1. /\ n \in Nat /\ Len(t) \in Nat
      /\ DOMAIN s = 1..n /\ DOMAIN t = 1..Len(t) /\ DOMAIN (s \o t) = 1..(n + Len(t))
  BY ConcatProperties, LenProperties
<1>2. \A i \in 1..(n + Len(t)) : (s \o t)[i] = IF i <= n THEN s[i] ELSE t[i - n]
  BY ConcatProperties
<1>3. /\ \A i : i \in P <=> i \in 1..n /\ s[i] \in T
      /\ \A i : i \in D <=> i \in 1..Len(t) /\ t[i] \in T
      /\ \A i : i \in Q <=> i \in 1..(n + Len(t)) /\ (s \o t)[i] \in T
  BY <1>1 DEF Positions
<1>4. /\ IsFiniteSet(P) /\ Cardinality(P) \in Nat
      /\ IsFiniteSet(D) /\ Cardinality(D) \in Nat
  BY PositionsFinite DEF HowMany
<1> HIDE DEF P, D, Q, n
<1>5. \A i \in D : i + n \in Q \ P
  <2> TAKE i \in D
  <2>1. i \in 1..Len(t) /\ t[i] \in T
    BY <1>3
  <2>2. i + n \in 1..(n + Len(t)) /\ ~(i + n <= n) /\ (i + n) - n = i
    BY <1>1, <2>1
  <2>3. (s \o t)[i + n] = t[i]
    BY <1>2, <2>2
  <2>4. i + n \notin 1..n
    BY <1>1, <2>2
  <2> QED
    BY <1>3, <2>1, <2>2, <2>3, <2>4
<1>6. \A k \in Q \ P : k - n \in D /\ (k - n) + n = k
  <2> TAKE k \in Q \ P
  <2>1. k \in 1..(n + Len(t)) /\ (s \o t)[k] \in T
    BY <1>3
  <2>2. ~(k <= n)
    BY <1>1, <1>2, <1>3, <2>1
  <2>3. k - n \in 1..Len(t) /\ (k - n) + n = k
    BY <1>1, <2>1, <2>2
  <2> QED
    BY <1>2, <1>3, <2>1, <2>2, <2>3
<1>7. f \in Bijection(D, Q \ P)
  <2>1. f \in [D -> Q \ P] /\ DOMAIN f = D
    BY <1>5
  <2>2. \A i, j \in D : f[i] = f[j] => i = j
    BY <1>1, <1>3
  <2>3. \A k \in Q \ P : \E i \in D : f[i] = k
    BY <1>6
  <2> HIDE DEF f
  <2> QED
    BY <2>1, <2>2, <2>3, Zenon DEF Bijection, Injection, Surjection, IsInjective
<1> HIDE DEF f
<1>8. ExistsBijection(D, Q \ P)
  BY <1>7, Zenon DEF ExistsBijection
<1>9. IsFiniteSet(Q \ P) /\ Cardinality(Q \ P) = Cardinality(D)
  BY <1>4, <1>8, FS_Bijection
<1>10. Q = P \cup (Q \ P) /\ P \cap (Q \ P) = {}
  BY <1>1, <1>2, <1>3
<1>11. Cardinality(P \cup (Q \ P)) =
         Cardinality(P) + Cardinality(Q \ P) - Cardinality(P \cap (Q \ P))
  BY <1>4, <1>9, FS_Union
<1>12. Cardinality(Q) = Cardinality(P) + Cardinality(D)
  <2>1. Cardinality(P \cap (Q \ P)) = 0
    BY <1>10, FS_EmptySet
  <2>2. Cardinality(Q) = Cardinality(P) + Cardinality(Q \ P) - 0
    BY <1>10, <1>11, <2>1
  <2> QED
    BY <1>4, <1>9, <2>2
<1> QED
  BY <1>12 DEF HowMany, P, D, Q

LEMMA NoneCount ==
  ASSUME NEW T
  PROVE  HowMany(<<>>, T) = 0
<1>1. Positions(<<>>, T) = {}
  BY DEF Positions
<1> QED
  BY <1>1, FS_EmptySet DEF HowMany

LEMMA OneCounts ==
  ASSUME NEW x, NEW T
  PROVE  HowMany(<<x>>, T) = IF x \in T THEN 1 ELSE 0
<1>1. Positions(<<x>>, T) = IF x \in T THEN {1} ELSE {}
  BY DEF Positions
<1> QED
  BY <1>1, FS_EmptySet, FS_Singleton DEF HowMany

LEMMA AppendCounts ==
  ASSUME NEW S, NEW s \in Seq(S), NEW x \in S, NEW T
  PROVE  HowMany(Append(s, x), T) = HowMany(s, T) + (IF x \in T THEN 1 ELSE 0)
<1>1. Append(s, x) = s \o <<x>> /\ <<x>> \in Seq(S)
  BY AppendIsConcat
<1>2. HowMany(s \o <<x>>, T) = HowMany(s, T) + HowMany(<<x>>, T)
  BY <1>1, ConcatCounts
<1> QED
  BY <1>1, <1>2, OneCounts

\* Behind its element k a sequence has at most what the whole has, less element k.
LEMMA RestCounts ==
  ASSUME NEW S, NEW s \in Seq(S), NEW k \in 1..Len(s), NEW T
  PROVE  HowMany(SubSeq(s, k + 1, Len(s)), T) + (IF s[k] \in T THEN 1 ELSE 0)
           <= HowMany(s, T)
<1> DEFINE a == SubSeq(s, 1, k - 1)
           b == SubSeq(s, k + 1, Len(s))
           c == Append(a, s[k])
<1>1. /\ Len(s) \in Nat /\ s[k] \in S /\ \A i \in 1..Len(s) : s[i] \in S
      /\ k \in Int /\ k - 1 \in Int /\ k + 1 \in Int /\ 1 <= k /\ k <= Len(s)
  BY LenProperties
<1>2. a \in Seq(S) /\ Len(a) = k - 1 /\ \A i \in 1..(k - 1) : a[i] = s[i]
  <2>1. \A i \in 1..(k - 1) : s[i] \in S
    BY <1>1
  <2>2. /\ a \in Seq(S) /\ Len(a) = (IF 1 <= k - 1 THEN (k - 1) - 1 + 1 ELSE 0)
        /\ \A i \in 1..((k - 1) - 1 + 1) : a[i] = s[1 + i - 1]
    BY <1>1, <2>1, SubSeqProperties
  <2> HIDE DEF a
  <2> QED
    BY <1>1, <2>2
<1>3. b \in Seq(S) /\ Len(b) = Len(s) - k /\ \A i \in 1..(Len(s) - k) : b[i] = s[k + i]
  <2>1. \A i \in (k + 1)..Len(s) : s[i] \in S
    BY <1>1
  <2>2. /\ b \in Seq(S)
        /\ Len(b) = (IF k + 1 <= Len(s) THEN Len(s) - (k + 1) + 1 ELSE 0)
        /\ \A i \in 1..(Len(s) - (k + 1) + 1) : b[i] = s[(k + 1) + i - 1]
    BY <1>1, <2>1, SubSeqProperties
  <2> HIDE DEF b
  <2>3. \A i \in 1..(Len(s) - k) : (k + 1) + i - 1 = k + i
    BY <1>1
  <2> QED
    BY <1>1, <2>2, <2>3
<1> HIDE DEF a, b
<1>4. /\ c \in Seq(S) /\ Len(c) = k
      /\ \A i \in 1..k : c[i] = s[i]
  BY <1>1, <1>2, AppendProperties
<1> HIDE DEF c
<1>5. s = c \o b
  <2>1. c \o b \in Seq(S) /\ Len(c \o b) = Len(s)
    <3>1. c \o b \in Seq(S) /\ Len(c \o b) = Len(c) + Len(b)
      BY <1>3, <1>4, ConcatProperties
    <3> QED
      BY <1>1, <1>3, <1>4, <3>1
  <2>2. ASSUME NEW i \in 1..Len(s) PROVE s[i] = (c \o b)[i]
    <3>1. (c \o b)[i] = IF i <= k THEN c[i] ELSE b[i - k]
      <4>1. Len(c) = k /\ i \in 1..(Len(c) + Len(b))
        BY <1>1, <1>3, <1>4
      <4> QED
        BY <1>3, <1>4, <4>1, ConcatProperties
    <3>2. CASE i <= k
      BY <1>4, <3>1, <3>2
    <3>3. CASE ~(i <= k)
      <4>1. i - k \in 1..(Len(s) - k) /\ k + (i - k) = i
        BY <1>1, <3>3
      <4> QED
        BY <1>3, <3>1, <3>3, <4>1
    <3> QED
      BY <3>2, <3>3
  <2> QED
    BY <2>1, <2>2, SeqEqual
<1>6. HowMany(s, T) = HowMany(c, T) + HowMany(b, T)
  BY <1>3, <1>4, <1>5, ConcatCounts
<1>7. HowMany(c, T) = HowMany(a, T) + (IF s[k] \in T THEN 1 ELSE 0)
  BY <1>1, <1>2, AppendCounts DEF c
<1>8. HowMany(a, T) \in Nat /\ HowMany(b, T) \in Nat
  BY <1>2, <1>3, PositionsFinite
<1> QED
  BY <1>6, <1>7, <1>8 DEF b

LEMMA TailCounts ==
  ASSUME NEW S, NEW s \in Seq(S), s # <<>>, NEW T
  PROVE  HowMany(Tail(s), T) + (IF Head(s) \in T THEN 1 ELSE 0) <= HowMany(s, T)
<1>1. Tail(s) = SubSeq(s, 1 + 1, Len(s)) /\ Head(s) = s[1] /\ 1 \in 1..Len(s)
  BY TailIsSubSeq, LenProperties, EmptySeq
<1> QED
  BY <1>1, RestCounts

\* None is counted when none is there.
LEMMA CountsNone ==
  ASSUME NEW S, NEW s \in Seq(S), NEW T
  PROVE  HowMany(s, T) = 0 <=> \A i \in DOMAIN s : s[i] \notin T
<1>1. IsFiniteSet(Positions(s, T))
  BY PositionsFinite
<1> QED
  BY <1>1, FS_EmptySet DEF HowMany, Positions

-----------------------------------------------------------------------------
(***************************************************************************)
(* Utterances.  What a place holds of utterance u is counted.              *)
(***************************************************************************)
Speech(u) == {m \in Message : HasSpeech(m) /\ m.utt = u}
AudioOf(u) == {p \in Parked : p.utt = u}
JobsOf(u) == {j \in Job : j.utt = u}
TextOf(u) == {x \in InjectedText : x.utt = u}

InQueue(u) == HowMany(queue, Speech(u))
InAudio(u) == HowMany(audioQueue, AudioOf(u))
InJobs(u) == HowMany(jobs, JobsOf(u))
InText(u) == HowMany(injected, TextOf(u))

LEMMA PlacesOfSequences ==
  ASSUME NEW q \in Seq(Message), NEW p \in Seq(Parked), NEW j \in Seq(Job),
         NEW x \in Seq(InjectedText), NEW u
  PROVE  /\ Cardinality({i \in DOMAIN q : HasSpeech(q[i]) /\ q[i].utt = u})
              = HowMany(q, Speech(u))
         /\ Cardinality({i \in DOMAIN p : p[i].utt = u}) = HowMany(p, AudioOf(u))
         /\ Cardinality({i \in DOMAIN j : j[i].utt = u}) = HowMany(j, JobsOf(u))
         /\ Cardinality({i \in DOMAIN x : x[i].utt = u}) = HowMany(x, TextOf(u))
<1>1. {i \in DOMAIN q : HasSpeech(q[i]) /\ q[i].utt = u} = Positions(q, Speech(u))
  <2>1. \A i \in DOMAIN q : q[i] \in Message
    OBVIOUS
  <2> QED
    BY <2>1, Zenon DEF Positions, Speech
<1>2. {i \in DOMAIN p : p[i].utt = u} = Positions(p, AudioOf(u))
  <2>1. \A i \in DOMAIN p : p[i] \in Parked
    OBVIOUS
  <2> QED
    BY <2>1, Zenon DEF Positions, AudioOf
<1>3. {i \in DOMAIN j : j[i].utt = u} = Positions(j, JobsOf(u))
  <2>1. \A i \in DOMAIN j : j[i] \in Job
    OBVIOUS
  <2> QED
    BY <2>1, Zenon DEF Positions, JobsOf
<1>4. {i \in DOMAIN x : x[i].utt = u} = Positions(x, TextOf(u))
  <2>1. \A i \in DOMAIN x : x[i] \in InjectedText
    OBVIOUS
  <2> QED
    BY <2>1, Zenon DEF Positions, TextOf
<1> QED
  BY <1>1, <1>2, <1>3, <1>4, Zenon DEF HowMany

LEMMA PlacesAdd ==
  ASSUME TypeOK, NEW u
  PROVE  /\ Places(u) = InQueue(u) + InAudio(u) + InJobs(u) + InText(u)
         /\ InQueue(u) \in Nat /\ InAudio(u) \in Nat /\ InJobs(u) \in Nat /\ InText(u) \in Nat
<1>1. /\ queue \in Seq(Message) /\ audioQueue \in Seq(Parked)
      /\ jobs \in Seq(Job) /\ injected \in Seq(InjectedText)
  BY DEF TypeOK
<1>2. Places(u) = InQueue(u) + InAudio(u) + InJobs(u) + InText(u)
  BY <1>1, PlacesOfSequences, Zenon DEF Places, InQueue, InAudio, InJobs, InText
<1>3. InQueue(u) \in Nat /\ InAudio(u) \in Nat
  BY <1>1, PositionsFinite, Zenon DEF InQueue, InAudio
<1>4. InJobs(u) \in Nat /\ InText(u) \in Nat
  BY <1>1, PositionsFinite, Zenon DEF InJobs, InText
<1> QED
  BY <1>2, <1>3, <1>4

LEMMA PlacesAddPrime ==
  ASSUME TypeOK', NEW u
  PROVE  /\ Places(u)' = InQueue(u)' + InAudio(u)' + InJobs(u)' + InText(u)'
         /\ InQueue(u)' \in Nat /\ InAudio(u)' \in Nat /\ InJobs(u)' \in Nat /\ InText(u)' \in Nat
<1>1. /\ queue' \in Seq(Message) /\ audioQueue' \in Seq(Parked)
      /\ jobs' \in Seq(Job) /\ injected' \in Seq(InjectedText)
  BY DEF TypeOK
<1>2. Places(u)' = InQueue(u)' + InAudio(u)' + InJobs(u)' + InText(u)'
  BY <1>1, PlacesOfSequences, Zenon DEF Places, InQueue, InAudio, InJobs, InText
<1>3. InQueue(u)' \in Nat /\ InAudio(u)' \in Nat
  BY <1>1, PositionsFinite, Zenon DEF InQueue, InAudio
<1>4. InJobs(u)' \in Nat /\ InText(u)' \in Nat
  BY <1>1, PositionsFinite, Zenon DEF InJobs, InText
<1> QED
  BY <1>2, <1>3, <1>4

\* Messages without speech.
LEMMA NoSpeech ==
  ASSUME NEW u
  PROVE  /\ Signal("SpeechStarted") \notin Speech(u)
         /\ Signal("PlayStarted") \notin Speech(u)
         /\ Signal("PlayCompleted") \notin Speech(u)
         /\ NoText \notin Speech(u)
         /\ \A c \in CommandMessage : c \notin Speech(u)
<1>1. ASSUME NEW m, m \in Speech(u)
      PROVE  m.type = "SpeechEnded" \/ (m.type = "TranscriptionCompleted" /\ m.text)
  BY <1>1 DEF Speech, HasSpeech
<1>2. /\ Signal("SpeechStarted").type = "SpeechStarted"
      /\ Signal("PlayStarted").type = "PlayStarted"
      /\ Signal("PlayCompleted").type = "PlayCompleted"
      /\ NoText.type = "TranscriptionCompleted" /\ NoText.text = FALSE
  BY DEF Signal, NoText
<1>3. \A c \in CommandMessage :
        c.type \in {"HotkeyPressed", "DiscardCurrent", "SwitchAgent", "SetListening"}
  BY DEF CommandMessage
<1> QED
  BY <1>1, <1>2, <1>3

LEMMA NoSpeechSent ==
  ASSUME NEW u
  PROVE  /\ HowMany(<<>>, Speech(u)) = 0
         /\ HowMany(StartPlays, Speech(u)) = 0
         /\ \A a : HowMany(Announcement(a), Speech(u)) = 0
<1>1. HowMany(<<>>, Speech(u)) = 0
  BY NoneCount
<1>2. HowMany(<<Signal("PlayStarted")>>, Speech(u)) = 0
  BY OneCounts, NoSpeech
<1> QED
  BY <1>1, <1>2 DEF StartPlays, Announcement

\* What is taken out of the parked audio goes into the queue or is dropped.
LEMMA RequeueMoves ==
  ASSUME TypeOK, NEW u
  PROVE  HowMany(Requeued, Speech(u)) + HowMany(Leftover, AudioOf(u)) <= InAudio(u)
<1> DEFINE k == FirstLong
<1>1. audioQueue \in Seq(Parked) /\ InAudio(u) \in Nat
  BY PlacesAdd DEF TypeOK
<1>2. CASE HasLong
  <2>1. k \in 1..Len(audioQueue) /\ audioQueue[k] \in Parked
    BY <1>2, FirstLongExists
  <2> HIDE DEF k
  <2> DEFINE m == SpeechEnded(audioQueue[k].utt, TRUE, current, "queued")
  <2>2. Requeued = <<m>> /\ Leftover = SubSeq(audioQueue, k + 1, Len(audioQueue))
    BY <1>2 DEF Requeued, Leftover, k
  <2>3. m \in Speech(u) => audioQueue[k] \in AudioOf(u)
    BY <2>1 DEF Speech, AudioOf, SpeechEnded
  <2>4. HowMany(<<m>>, Speech(u)) = IF m \in Speech(u) THEN 1 ELSE 0
    BY OneCounts
  <2>5. HowMany(SubSeq(audioQueue, k + 1, Len(audioQueue)), AudioOf(u))
          + (IF audioQueue[k] \in AudioOf(u) THEN 1 ELSE 0) <= HowMany(audioQueue, AudioOf(u))
    BY <1>1, <2>1, RestCounts
  <2>6. Leftover \in Seq(Parked)
    BY HelperTypes
  <2>7. HowMany(Leftover, AudioOf(u)) \in Nat
    BY <2>6, PositionsFinite
  <2> HIDE DEF m
  <2> QED
    BY <1>1, <2>2, <2>3, <2>4, <2>5, <2>7 DEF InAudio
<1>3. CASE ~HasLong
  <2>1. HowMany(Requeued, Speech(u)) = 0 /\ HowMany(Leftover, AudioOf(u)) = 0
    BY <1>3, NoneCount DEF Requeued, Leftover
  <2> QED
    BY <1>1, <2>1
<1> QED
  BY <1>2, <1>3

\* Speech that an agent's switch ends is the utterance last heard.
LEMMA FlushCounts ==
  ASSUME TypeOK, NEW u, NEW l \in BOOLEAN
  PROVE  HowMany(Flush(l), Speech(u)) \in Nat /\ HowMany(Flush(l), Speech(u)) <= 1
         /\ (HowMany(Flush(l), Speech(u)) = 0 \/ (u = heard /\ vad = "speaking"))
<1> DEFINE m == SpeechEnded(heard, l, current, "vad")
<1>1. m \in Speech(u) => u = heard
  BY DEF Speech, SpeechEnded
<1>2. HowMany(<<m>>, Speech(u)) = (IF m \in Speech(u) THEN 1 ELSE 0)
        /\ HowMany(<<>>, Speech(u)) = 0
  BY NoneCount, OneCounts
<1>3. Flush(l) = IF vad = "speaking" THEN <<m>> ELSE <<>>
  BY DEF Flush
<1> HIDE DEF m
<1> QED
  BY <1>1, <1>2, <1>3

\* What the queue holds when its head is consumed, and when something is sent.
LEMMA ConsumeCounts ==
  ASSUME TypeOK, queue # <<>>, NEW msgs \in Seq(Message), Consume(msgs), NEW u
  PROVE  /\ HowMany(msgs, Speech(u)) \in Nat
         /\ InQueue(u)' + (IF Head(queue) \in Speech(u) THEN 1 ELSE 0)
              <= InQueue(u) + HowMany(msgs, Speech(u))
<1>1. queue \in Seq(Message) /\ Tail(queue) \in Seq(Message)
  BY HeadTailProperties DEF TypeOK
<1>2. queue' = Tail(queue) \o msgs
  BY DEF Consume
<1>3. HowMany(Tail(queue) \o msgs, Speech(u))
        = HowMany(Tail(queue), Speech(u)) + HowMany(msgs, Speech(u))
  BY <1>1, ConcatCounts
<1>4. HowMany(Tail(queue), Speech(u)) + (IF Head(queue) \in Speech(u) THEN 1 ELSE 0)
        <= HowMany(queue, Speech(u))
  BY <1>1, TailCounts
<1>5. /\ HowMany(msgs, Speech(u)) \in Nat /\ HowMany(Tail(queue), Speech(u)) \in Nat
      /\ HowMany(queue, Speech(u)) \in Nat
  BY <1>1, PositionsFinite
<1>6. InQueue(u)' = HowMany(Tail(queue) \o msgs, Speech(u)) /\ InQueue(u) = HowMany(queue, Speech(u))
  BY <1>2 DEF InQueue
<1> QED
  BY <1>3, <1>4, <1>5, <1>6

LEMMA SendCounts ==
  ASSUME TypeOK, NEW msgs \in Seq(Message), Send(msgs), NEW u
  PROVE  /\ HowMany(msgs, Speech(u)) \in Nat
         /\ InQueue(u)' = InQueue(u) + HowMany(msgs, Speech(u))
<1>1. queue \in Seq(Message) /\ queue' = queue \o msgs
  BY DEF TypeOK, Send
<1>2. HowMany(queue \o msgs, Speech(u)) = HowMany(queue, Speech(u)) + HowMany(msgs, Speech(u))
  BY <1>1, ConcatCounts
<1>3. HowMany(msgs, Speech(u)) \in Nat
  BY PositionsFinite
<1> QED
  BY <1>1, <1>2, <1>3 DEF InQueue

\* A handler's message about utterance u, and what is made of it.
LEMMA HeadCounts ==
  ASSUME TypeOK, queue # <<>>, NEW u
  PROVE  /\ Head(queue) \in Message
         /\ HasSpeech(Head(queue)) /\ Head(queue).utt = u => Head(queue) \in Speech(u)
<1>1. Head(queue) \in Message
  BY QueueTypes DEF TypeOK
<1> QED
  BY <1>1 DEF Speech

\* An utterance is where it was, moves on or is dropped.
Stays(u) == Places(u)' <= Places(u)

\* It is sent when the speaker has ended it.
IsEnded(u) ==
  /\ u = heard /\ vad = "speaking"
  /\ Places(u)' <= Places(u) + 1
  /\ ~Unheard(u)'

\* Of a step that sends no speech and leaves the other places alone, or empties the
\* parked audio.
LEMMA QuietStep ==
  ASSUME TypeOK, TypeOK', NEW u, InQueue(u)' <= InQueue(u),
         UNCHANGED <<jobs, injected>>, audioQueue' \in {audioQueue, <<>>}
  PROVE  Stays(u)
<1>1. InJobs(u)' = InJobs(u) /\ InText(u)' = InText(u)
  BY DEF InJobs, InText
<1>2. InAudio(u)' = InAudio(u) \/ InAudio(u)' = 0
  BY NoneCount DEF InAudio
<1> QED
  BY <1>1, <1>2, PlacesAdd, PlacesAddPrime DEF Stays

LEMMA EndedSpeechMoves ==
  ASSUME TypeOK, TypeOK', HandleSpeechEnded, NEW u
  PROVE  Stays(u)
<1> DEFINE m == Head(queue)
           here == IF m \in Speech(u) THEN 1 ELSE 0
<1>1. queue # <<>> /\ Consume(<<>>) /\ m.type = "SpeechEnded"
        /\ injected' = injected
  BY DEF HandleSpeechEnded, Handling, history
<1>2. InQueue(u)' + here <= InQueue(u) + 0
  <2>1. <<>> \in Seq(Message) /\ HowMany(<<>>, Speech(u)) = 0
    BY NoneCount
  <2> QED
    BY <1>1, <2>1, ConsumeCounts
<1>3. m \in SpeechEndedMessage /\ m.utt \in Utterances /\ m.long \in BOOLEAN
        /\ (m.utt = u => m \in Speech(u))
  BY <1>1, HeadCounts, MessageFields DEF HasSpeech, SpeechEndedMessage
<1>4. InText(u)' = InText(u)
  BY <1>1 DEF InText
<1>5. CASE BeginTranscription(m)
  <2> DEFINE job == [utt |-> m.utt, agent |-> Resolve(m.agent), source |-> m.source]
  <2>1. job \in Job
    BY <1>3, HelperTypes DEF SpeechEndedMessage, Job
  <2>2. job.utt = m.utt
    OBVIOUS
  <2>3. audioQueue' = audioQueue /\ jobs' = JobsAfter(job)
    BY <1>5 DEF BeginTranscription
  <2> HIDE DEF job
  <2>4. job \in JobsOf(u) => m \in Speech(u)
    BY <1>3, <2>2 DEF JobsOf
  <2>5. HowMany(<<job>>, JobsOf(u)) \in Nat /\ HowMany(<<job>>, JobsOf(u)) <= here
    BY <2>4, OneCounts
  <2>6. HowMany(Append(jobs, job), JobsOf(u)) \in Nat
          /\ HowMany(Append(jobs, job), JobsOf(u)) <= InJobs(u) + here
    <3>1. HowMany(Append(jobs, job), JobsOf(u))
            = HowMany(jobs, JobsOf(u)) + (IF job \in JobsOf(u) THEN 1 ELSE 0)
      BY <2>1, AppendCounts DEF TypeOK
    <3>2. InJobs(u) \in Nat
      BY PlacesAdd
    <3> QED
      BY <2>4, <3>1, <3>2 DEF InJobs
  <2>7. InJobs(u)' <= InJobs(u) + here
    <3>1. InJobs(u)' = HowMany(jobs', JobsOf(u)) /\ InJobs(u) \in Nat
      BY PlacesAdd DEF InJobs
    <3>2. CASE jobs' = <<job>>
      BY <2>5, <3>1, <3>2
    <3>3. CASE jobs' = Append(jobs, job)
      BY <2>6, <3>1, <3>3
    <3> QED
      BY <2>3, <3>2, <3>3 DEF JobsAfter
  <2>8. InAudio(u)' = InAudio(u)
    BY <2>3 DEF InAudio
  <2> HIDE DEF m
  <2> QED
    BY <1>2, <1>4, <2>7, <2>8, PlacesAdd, PlacesAddPrime DEF Stays
<1>6. CASE ParkSpeech(m)
  <2> DEFINE item == [utt |-> m.utt, long |-> m.long]
  <2>1. item \in Parked /\ item.utt = m.utt
    BY <1>3 DEF Parked
  <2>2. audioQueue' = Park(m.utt, m.long) /\ jobs' = jobs
    BY <1>6 DEF ParkSpeech
  <2>3. Park(m.utt, m.long) \in {Append(audioQueue, item), Append(Tail(audioQueue), item)}
          /\ (Len(audioQueue) = 0 => Park(m.utt, m.long) = Append(audioQueue, item))
    BY DEF Park
  <2> HIDE DEF item
  <2>4. item \in AudioOf(u) => m \in Speech(u)
    BY <1>3, <2>1 DEF AudioOf
  <2>5. audioQueue \in Seq(Parked) /\ InAudio(u) \in Nat
    BY PlacesAdd DEF TypeOK
  <2>6. HowMany(Append(audioQueue, item), AudioOf(u)) <= InAudio(u) + here
    <3>1. HowMany(Append(audioQueue, item), AudioOf(u))
            = HowMany(audioQueue, AudioOf(u)) + (IF item \in AudioOf(u) THEN 1 ELSE 0)
      BY <2>1, <2>5, AppendCounts
    <3> QED
      BY <2>4, <2>5, <3>1 DEF InAudio
  <2>7. audioQueue # <<>> =>
          HowMany(Append(Tail(audioQueue), item), AudioOf(u)) <= InAudio(u) + here
    <3> SUFFICES ASSUME audioQueue # <<>>
                 PROVE  HowMany(Append(Tail(audioQueue), item), AudioOf(u)) <= InAudio(u) + here
      OBVIOUS
    <3>1. Tail(audioQueue) \in Seq(Parked)
      BY <2>5, HeadTailProperties
    <3>2. HowMany(Append(Tail(audioQueue), item), AudioOf(u))
            = HowMany(Tail(audioQueue), AudioOf(u)) + (IF item \in AudioOf(u) THEN 1 ELSE 0)
      BY <2>1, <3>1, AppendCounts
    <3>3. HowMany(Tail(audioQueue), AudioOf(u))
            + (IF Head(audioQueue) \in AudioOf(u) THEN 1 ELSE 0) <= HowMany(audioQueue, AudioOf(u))
      BY <2>5, TailCounts
    <3>4. HowMany(Tail(audioQueue), AudioOf(u)) \in Nat
      BY <3>1, PositionsFinite
    <3> QED
      BY <2>4, <2>5, <3>2, <3>3, <3>4 DEF InAudio
  <2>8. InAudio(u)' <= InAudio(u) + here
    <3>1. InAudio(u)' = HowMany(Park(m.utt, m.long), AudioOf(u))
      BY <2>2 DEF InAudio
    <3>2. Len(audioQueue) = 0 <=> audioQueue = <<>>
      BY <2>5, EmptySeq
    <3> QED
      BY <2>3, <2>6, <2>7, <3>1, <3>2
  <2>9. InJobs(u)' = InJobs(u)
    BY <2>2 DEF InJobs
  <2> HIDE DEF m
  <2> QED
    BY <1>2, <1>4, <2>8, <2>9, PlacesAdd, PlacesAddPrime DEF Stays
<1>7. CASE RejectShort(m) \/ DropSpeech
  <2>1. UNCHANGED <<audioQueue, jobs>>
    BY <1>7 DEF RejectShort, DropSpeech
  <2>2. InQueue(u)' <= InQueue(u)
    BY <1>2, PlacesAdd, PlacesAddPrime
  <2> QED
    BY <1>1, <2>1, <2>2, QuietStep
<1> QED
  BY <1>5, <1>6, <1>7 DEF HandleSpeechEnded

LEMMA CompletionMoves ==
  ASSUME TypeOK, TypeOK', HandleTranscriptionCompleted, NEW u
  PROVE  Stays(u)
<1> DEFINE m == Head(queue)
           here == IF m \in Speech(u) THEN 1 ELSE 0
           beep == IF desired = "LISTENING" /\ state = "OFF" THEN StartPlays ELSE <<>>
<1>1. queue # <<>> /\ m.type = "TranscriptionCompleted"
        /\ jobs' = jobs /\ injected' = Injections(m)
  BY DEF HandleTranscriptionCompleted, Handling
<1>2. InJobs(u)' = InJobs(u)
  BY <1>1 DEF InJobs
<1>3. m \in TranscriptionMessage
  BY <1>1, HeadCounts, MessageFields
<1>4. InText(u) \in Nat /\ InText(u)' <= InText(u) + here
  <2>1. CASE m.text
    <3> DEFINE x == [utt |-> m.utt, to |-> Resolve(m.agent), source |-> m.source]
    <3>1. x \in InjectedText /\ x.utt = m.utt
      BY <1>3, <2>1, HelperTypes DEF TranscriptionMessage, InjectedText
    <3>2. injected' = Append(injected, x)
      BY <1>1, <2>1 DEF Injections
    <3> HIDE DEF x
    <3>3. x \in TextOf(u) => m \in Speech(u)
      BY <1>1, <2>1, <3>1, HeadCounts DEF TextOf, HasSpeech
    <3>4. HowMany(Append(injected, x), TextOf(u))
            = HowMany(injected, TextOf(u)) + (IF x \in TextOf(u) THEN 1 ELSE 0)
      BY <3>1, AppendCounts DEF TypeOK
    <3>5. InText(u) \in Nat
      BY PlacesAdd
    <3> HIDE DEF m
    <3> QED
      BY <3>2, <3>3, <3>4, <3>5 DEF InText
  <2>2. CASE ~m.text
    <3>1. injected' = injected
      BY <1>1, <2>2 DEF Injections
    <3>2. InText(u) \in Nat
      BY PlacesAdd
    <3> QED
      BY <3>1, <3>2 DEF InText
  <2> QED
    BY <2>1, <2>2
<1>5. <<>> \in Seq(Message) /\ HowMany(<<>>, Speech(u)) = 0
  BY NoneCount
<1>6. CASE Consume(<<>>) /\ audioQueue' = audioQueue
  <2>1. InQueue(u)' + here <= InQueue(u) + 0
    BY <1>1, <1>5, <1>6, ConsumeCounts
  <2>2. InAudio(u)' = InAudio(u)
    BY <1>6 DEF InAudio
  <2> HIDE DEF m
  <2> QED
    BY <1>2, <1>4, <2>1, <2>2, PlacesAdd, PlacesAddPrime DEF Stays
<1>7. CASE Consume(beep \o Requeued) /\ audioQueue' = Leftover
  <2>1. beep \in Seq(Message) /\ Requeued \in Seq(Message)
          /\ beep \o Requeued \in Seq(Message)
    BY HelperTypes
  <2>2. HowMany(beep, Speech(u)) = 0
    BY NoSpeechSent
  <2> HIDE DEF beep
  <2>3. HowMany(beep \o Requeued, Speech(u)) = 0 + HowMany(Requeued, Speech(u))
    BY <2>1, <2>2, ConcatCounts
  <2>4. InQueue(u)' + here <= InQueue(u) + HowMany(beep \o Requeued, Speech(u))
    BY <1>1, <1>7, <2>1, ConsumeCounts
  <2>5. HowMany(Requeued, Speech(u)) + InAudio(u)' <= InAudio(u)
    BY <1>7, RequeueMoves DEF InAudio
  <2>6. HowMany(Requeued, Speech(u)) \in Nat
    BY <2>1, PositionsFinite
  <2> HIDE DEF m
  <2> QED
    BY <1>2, <1>4, <2>3, <2>4, <2>5, <2>6, PlacesAdd, PlacesAddPrime DEF Stays
<1> QED
  BY <1>6, <1>7 DEF HandleTranscriptionCompleted, DeferTranscription, ApplyTranscription

LEMMA PlayEndMoves ==
  ASSUME TypeOK, TypeOK', HandlePlayCompleted, NEW u
  PROVE  Stays(u)
<1>1. queue # <<>> /\ UNCHANGED <<jobs, injected>>
  BY DEF HandlePlayCompleted, Handling
<1>2. CASE Consume(<<>>) /\ audioQueue' = audioQueue
  <2>1. <<>> \in Seq(Message) /\ HowMany(<<>>, Speech(u)) = 0
    BY NoneCount
  <2>2. InQueue(u)' + (IF Head(queue) \in Speech(u) THEN 1 ELSE 0) <= InQueue(u) + 0
    BY <1>1, <1>2, <2>1, ConsumeCounts
  <2>3. InQueue(u)' <= InQueue(u)
    BY <2>2, PlacesAdd, PlacesAddPrime
  <2> QED
    BY <1>1, <1>2, <2>3, QuietStep
<1>3. CASE Consume(Requeued) /\ audioQueue' = Leftover
  <2>1. Requeued \in Seq(Message)
    BY HelperTypes
  <2>2. InQueue(u)' + (IF Head(queue) \in Speech(u) THEN 1 ELSE 0)
          <= InQueue(u) + HowMany(Requeued, Speech(u))
    BY <1>1, <1>3, <2>1, ConsumeCounts
  <2>3. HowMany(Requeued, Speech(u)) + InAudio(u)' <= InAudio(u)
    BY <1>3, RequeueMoves DEF InAudio
  <2>4. HowMany(Requeued, Speech(u)) \in Nat
    BY <2>1, PositionsFinite
  <2>5. InJobs(u)' = InJobs(u) /\ InText(u)' = InText(u)
    BY <1>1 DEF InJobs, InText
  <2> QED
    BY <2>2, <2>3, <2>4, <2>5, PlacesAdd, PlacesAddPrime DEF Stays
<1> QED
  BY <1>2, <1>3 DEF HandlePlayCompleted, FinishPlays, KeepPlaying

LEMMA SwitchMoves ==
  ASSUME TypeOK, TypeOK', HandleSwitchAgent, NEW u
  PROVE  Stays(u) \/ IsEnded(u)
<1> DEFINE to == Head(queue).to
           announced == IF to \in registered THEN Announcement(to) ELSE <<>>
           here == IF Head(queue) \in Speech(u) THEN 1 ELSE 0
<1>1. queue # <<>> /\ UNCHANGED <<jobs, injected, audioQueue, heard>>
  BY DEF HandleSwitchAgent, Handling
<1>2. to \in Agents
  BY HeadCounts, MessageFields DEF HandleSwitchAgent, Handling
<1>3. <<>> \in Seq(Message) /\ HowMany(<<>>, Speech(u)) = 0
  BY NoneCount
<1>4. /\ InJobs(u)' = InJobs(u)
      /\ InText(u)' = InText(u)
      /\ InAudio(u)' = InAudio(u)
  BY <1>1 DEF InJobs, InText, InAudio
<1>5. CASE registered = {}
  <2>1. Consume(<<>>)
    BY <1>5 DEF HandleSwitchAgent
  <2>2. InQueue(u)' + here <= InQueue(u) + 0
    BY <1>1, <1>3, <2>1, ConsumeCounts
  <2>3. InQueue(u)' <= InQueue(u)
    BY <2>2, PlacesAdd, PlacesAddPrime
  <2> QED
    BY <1>1, <2>3, QuietStep
<1>6. CASE registered # {}
  <2>1. PICK l \in BOOLEAN : Consume(Flush(l) \o announced)
    BY <1>6 DEF HandleSwitchAgent
  <2>2. vad' = "silent"
    BY <1>6 DEF HandleSwitchAgent
  <2>3. announced \in Seq(Message) /\ Flush(l) \in Seq(Message)
          /\ Flush(l) \o announced \in Seq(Message)
    BY <1>2, HelperTypes
  <2>4. HowMany(announced, Speech(u)) = 0
    BY NoSpeechSent
  <2> HIDE DEF announced
  <2>5. HowMany(Flush(l) \o announced, Speech(u)) = HowMany(Flush(l), Speech(u)) + 0
    BY <2>3, <2>4, ConcatCounts
  <2>6. InQueue(u)' + here <= InQueue(u) + HowMany(Flush(l) \o announced, Speech(u))
    BY <1>1, <2>1, <2>3, ConsumeCounts
  <2>7. /\ HowMany(Flush(l), Speech(u)) \in Nat /\ HowMany(Flush(l), Speech(u)) <= 1
        /\ HowMany(Flush(l), Speech(u)) = 0 \/ (u = heard /\ vad = "speaking")
    BY FlushCounts
  <2>8. u = heard => ~Unheard(u)'
    BY <1>1, <2>2 DEF Unheard, TypeOK
  <2>9. InQueue(u)' <= InQueue(u) + HowMany(Flush(l), Speech(u))
    BY <2>5, <2>6, <2>7, PlacesAdd, PlacesAddPrime
  <2> QED
    BY <1>4, <2>7, <2>8, <2>9, PlacesAdd, PlacesAddPrime DEF Stays, IsEnded
<1> QED
  BY <1>5, <1>6

\* The handlers that only send signals.
LEMMA CommandMoves ==
  ASSUME TypeOK, TypeOK', NEW u,
         \/ HandleSpeechStarted \/ HandlePlayStarted \/ HandleHotkeyPressed
         \/ HandleSetListening \/ HandleDiscardCurrent
  PROVE  Stays(u)
<1>1. queue # <<>>
  BY DEF HandleSpeechStarted, HandlePlayStarted, HandleHotkeyPressed, HandleSetListening,
     HandleDiscardCurrent, Handling
<1>2. UNCHANGED <<jobs, injected>> /\ audioQueue' \in {audioQueue, <<>>}
  BY DEF HandleSpeechStarted, HandlePlayStarted, HandleHotkeyPressed, HandleSetListening,
     HandleDiscardCurrent, DiscardAudio, KeepAudio, audio, history
<1>3. Consume(<<>>) \/ Consume(StartPlays)
  BY DEF HandleSpeechStarted, HandlePlayStarted, HandleHotkeyPressed, HandleSetListening,
     HandleDiscardCurrent, TurnOn, TurnOffLater, TurnOffNow, IgnoreCommand
<1>4. /\ <<>> \in Seq(Message) /\ HowMany(<<>>, Speech(u)) = 0
      /\ StartPlays \in Seq(Message) /\ HowMany(StartPlays, Speech(u)) = 0
  BY NoSpeechSent, HelperTypes
<1>5. InQueue(u)' + (IF Head(queue) \in Speech(u) THEN 1 ELSE 0) <= InQueue(u) + 0
  <2>1. ASSUME NEW msgs \in {<<>>, StartPlays}, Consume(msgs)
        PROVE  InQueue(u)' + (IF Head(queue) \in Speech(u) THEN 1 ELSE 0) <= InQueue(u) + 0
    <3>1. msgs \in Seq(Message) /\ HowMany(msgs, Speech(u)) = 0
      BY <1>4
    <3> QED
      BY <1>1, <2>1, <3>1, ConsumeCounts
  <2> QED
    BY <1>3, <2>1
<1>6. InQueue(u)' <= InQueue(u)
  BY <1>5, PlacesAdd, PlacesAddPrime
<1> QED
  BY <1>2, <1>6, QuietStep

\* A producer that sends something, or nothing, without speech.
LEMMA SignalMoves ==
  ASSUME TypeOK, TypeOK', NEW u, UNCHANGED <<audioQueue, jobs, injected>>,
         \/ UNCHANGED queue
         \/ \E msgs \in Seq(Message) : Send(msgs) /\ HowMany(msgs, Speech(u)) = 0
  PROVE  Stays(u)
<1>1. InQueue(u)' <= InQueue(u)
  <2>1. CASE UNCHANGED queue
    BY <2>1, PlacesAdd DEF InQueue
  <2>2. ASSUME NEW msgs \in Seq(Message), Send(msgs), HowMany(msgs, Speech(u)) = 0
        PROVE  InQueue(u)' <= InQueue(u)
    BY <2>2, SendCounts, PlacesAdd
  <2> QED
    BY <2>1, <2>2
<1> QED
  BY <1>1, QuietStep

\* The producers that send signals, commands and messages without text.
LEMMA ProducerMoves ==
  ASSUME TypeOK, TypeOK', NEW u,
         \/ VadSpeechStart \/ SttHangs \/ WatchdogElapses \/ WatchdogRuns
         \/ PlayAudio \/ PlaybackEnds \/ SpeechBegins \/ SpeechDone \/ UserCommands
         \/ \E a \in Agents : AgentRegisters(a) \/ AgentUnregisters(a)
  PROVE  Stays(u)
<1> DEFINE Quiet == \/ UNCHANGED queue
                    \/ \E msgs \in Seq(Message) : Send(msgs) /\ HowMany(msgs, Speech(u)) = 0
<1>1. UNCHANGED <<audioQueue, jobs, injected>>
  BY DEF VadSpeechStart, SttHangs, WatchdogElapses, WatchdogRuns, PlayAudio, PlaybackEnds,
     SpeechBegins, SpeechDone, UserCommands, AgentRegisters, AgentUnregisters, audio, history
<1>2. ASSUME NEW m \in Message, m \notin Speech(u), Send(<<m>>)
      PROVE  Quiet
  <2>1. <<m>> \in Seq(Message) /\ HowMany(<<m>>, Speech(u)) = 0
    BY <1>2, OneCounts
  <2> QED
    BY <1>2, <2>1
<1>3. CASE VadSpeechStart \/ WatchdogRuns \/ PlayAudio \/ PlaybackEnds \/ SpeechBegins \/ SpeechDone
  <2>1. \/ UNCHANGED queue
        \/ Send(<<Signal("SpeechStarted")>>)
        \/ Send(<<Signal("PlayStarted")>>)
        \/ Send(<<Signal("PlayCompleted")>>)
        \/ Send(<<NoText>>)
    BY <1>3 DEF VadSpeechStart, WatchdogRuns, WatchdogMessage, PlayAudio, PlaybackEnds,
       SpeechBegins, SpeechDone
  <2> HIDE DEF Quiet
  <2>2. Quiet
    BY <1>2, <2>1, MessagesBuilt, NoSpeech, Zenon DEF Quiet
  <2> QED
    BY <1>1, <2>2, SignalMoves DEF Quiet
<1>4. CASE UserCommands
  <2>1. PICK c \in Commands : Send(<<c>>)
    BY <1>4 DEF UserCommands
  <2>2. c \in Message /\ c \notin Speech(u)
    BY NoSpeech DEF Message
  <2> QED
    BY <1>1, <1>2, <2>1, <2>2, SignalMoves
<1>5. CASE \E a \in Agents : AgentUnregisters(a)
  <2>1. (\E b \in registered : Send(Announcement(b))) \/ UNCHANGED queue
    BY <1>5 DEF AgentUnregisters
  <2>2. \A b \in registered : Announcement(b) \in Seq(Message)
    BY HelperTypes DEF TypeOK
  <2>3. Quiet
    BY <2>1, <2>2, NoSpeechSent, Zenon
  <2> QED
    BY <1>1, <2>3, SignalMoves
<1>6. CASE SttHangs \/ WatchdogElapses \/ \E a \in Agents : AgentRegisters(a)
  <2>1. UNCHANGED queue
    BY <1>6 DEF SttHangs, WatchdogElapses, AgentRegisters
  <2> QED
    BY <1>1, <2>1, SignalMoves
<1> QED
  BY <1>3, <1>4, <1>5, <1>6

\* The voice activity detector ends an utterance.
LEMMA EndMoves ==
  ASSUME TypeOK, TypeOK', VadSpeechEnd \/ VadMaxSpeech, NEW u
  PROVE  Stays(u) \/ IsEnded(u)
<1>1. PICK l \in BOOLEAN : Send(<<SpeechEnded(heard, l, current, "vad")>>)
  BY DEF VadSpeechEnd, VadMaxSpeech, EndUtterance
<1>2. vad = "speaking" /\ heard \in Utterances
  <2>1. vad = "speaking"
    BY DEF VadSpeechEnd, VadMaxSpeech
  <2>2. heard \in 0..MaxUtterances /\ heard > 0
    BY <2>1 DEF TypeOK
  <2> QED
    BY <2>1, <2>2 DEF Utterances
<1> DEFINE m == SpeechEnded(heard, l, current, "vad")
<1>3. m \in Message
  BY <1>2, MessagesBuilt DEF TypeOK, Source
<1>4. m \in Speech(u) => u = heard
  BY DEF Speech, SpeechEnded
<1> HIDE DEF m
<1>5. <<m>> \in Seq(Message) /\ HowMany(<<m>>, Speech(u)) = IF m \in Speech(u) THEN 1 ELSE 0
  BY <1>3, OneCounts
<1>6. InQueue(u)' = InQueue(u) + HowMany(<<m>>, Speech(u))
  BY <1>1, <1>5, SendCounts DEF m
<1>7. UNCHANGED <<audioQueue, jobs, injected>>
  BY DEF VadSpeechEnd, VadMaxSpeech, EndUtterance
<1>8. InAudio(u)' = InAudio(u) /\ InJobs(u)' = InJobs(u) /\ InText(u)' = InText(u)
  BY <1>7 DEF InAudio, InJobs, InText
<1>9. u = heard => ~Unheard(u)'
  <2>1. (vad' = "silent" /\ heard' = heard) \/ heard' = heard + 1
    BY DEF VadSpeechEnd, VadMaxSpeech
  <2>2. heard \in Nat
    BY <1>2 DEF Utterances
  <2> QED
    BY <2>1, <2>2 DEF Unheard
<1> QED
  BY <1>2, <1>4, <1>5, <1>6, <1>8, <1>9, PlacesAdd, PlacesAddPrime DEF Stays, IsEnded

\* The STT worker sends the text of its first job, or no text.
LEMMA SttMoves ==
  ASSUME TypeOK, TypeOK', SttTranscribes \/ SttFindsNoText, NEW u
  PROVE  Stays(u)
<1>1. PICK m \in {Transcribed(Head(jobs)), NoText} : SttCompletes(m)
  BY DEF SttTranscribes, SttFindsNoText
<1>2. jobs # <<>> /\ jobs' = Tail(jobs) /\ Send(<<m>>) /\ UNCHANGED <<audioQueue, injected>>
  BY <1>1 DEF SttCompletes, history
<1>3. jobs \in Seq(Job) /\ Head(jobs) \in Job
  BY <1>2, HeadTailProperties DEF TypeOK
<1>4. m \in Message
  BY <1>1, <1>3, MessagesBuilt
<1>5. m \in Speech(u) => Head(jobs) \in JobsOf(u)
  <2>1. Transcribed(Head(jobs)).utt = Head(jobs).utt
    BY DEF Transcribed
  <2> QED
    BY <1>1, <1>3, <2>1, NoSpeech DEF Speech, JobsOf
<1>6. <<m>> \in Seq(Message) /\ HowMany(<<m>>, Speech(u)) = IF m \in Speech(u) THEN 1 ELSE 0
  BY <1>4, OneCounts
<1>7. InQueue(u)' = InQueue(u) + HowMany(<<m>>, Speech(u))
  BY <1>2, <1>6, SendCounts
<1>8. InJobs(u)' + (IF Head(jobs) \in JobsOf(u) THEN 1 ELSE 0) <= InJobs(u)
  BY <1>2, <1>3, TailCounts DEF InJobs
<1>9. InAudio(u)' = InAudio(u) /\ InText(u)' = InText(u)
  BY <1>2 DEF InAudio, InText
<1> QED
  BY <1>5, <1>6, <1>7, <1>8, <1>9, PlacesAdd, PlacesAddPrime DEF Stays

\* Every step leaves an utterance where it is, moves it on or drops it, but for the
\* one that sends it first.
LEMMA UtterancesMove ==
  ASSUME TypeOK, [Next]_vars, NEW u
  PROVE  Stays(u) \/ IsEnded(u)
<1>1. TypeOK'
  BY TypeStep
<1>2. CASE Controller
  <2>1. HandleEvent
    BY <1>2 DEF Controller
  <2> QED
    BY <1>1, <2>1, EndedSpeechMoves, CompletionMoves, PlayEndMoves, SwitchMoves, CommandMoves
    DEF HandleEvent
<1>3. CASE Next /\ ~Controller
  BY <1>1, <1>3, ProducerMoves, EndMoves, SttMoves DEF Next
<1>4. CASE UNCHANGED vars
  <2>1. UNCHANGED <<queue, audioQueue, jobs, injected>>
    BY <1>4 DEF vars, controllerVars, audio, history
  <2>2. InQueue(u)' <= InQueue(u)
    BY <2>1, PlacesAdd DEF InQueue
  <2> QED
    BY <1>1, <2>1, <2>2, QuietStep
<1> QED
  BY <1>2, <1>3, <1>4

\* What was not heard to its end stays so only while it is spoken.
LEMMA UnheardBefore ==
  ASSUME TypeOK, [Next]_vars, NEW u \in Utterances, Unheard(u)'
  PROVE  Unheard(u)
<1>1. heard \in Nat
  BY DEF TypeOK
<1>2. CASE VadSpeechStart \/ VadMaxSpeech
  <2>1. heard' = heard + 1
    BY <1>2 DEF VadSpeechStart, VadMaxSpeech
  <2>2. u \in Nat
    BY DEF Utterances
  <2> QED
    BY <1>1, <2>1, <2>2 DEF Unheard
<1>3. CASE ~VadSpeechStart /\ ~VadMaxSpeech
  <2>1. heard' = heard /\ (vad' = vad \/ vad' = "silent")
    <3>1. CASE Controller
      BY <3>1 DEF Controller, HandleEvent, HandleSpeechStarted, HandleSpeechEnded,
         HandleTranscriptionCompleted, HandlePlayStarted, HandlePlayCompleted, FinishPlays,
         KeepPlaying, HandleHotkeyPressed, DiscardAudio, KeepAudio, HandleSetListening,
         HandleDiscardCurrent, HandleSwitchAgent, audio
    <3>2. CASE Next /\ ~Controller
      BY <1>3, <3>2 DEF Next, VadSpeechEnd, SttTranscribes, SttFindsNoText, SttCompletes,
         SttHangs, WatchdogElapses, WatchdogRuns, PlayAudio, PlaybackEnds, SpeechBegins,
         SpeechDone, UserCommands, AgentRegisters, AgentUnregisters, audio
    <3>3. CASE UNCHANGED vars
      BY <3>3 DEF vars, controllerVars, audio
    <3> QED
      BY <3>1, <3>2, <3>3
  <2> QED
    BY <2>1 DEF Unheard
<1> QED
  BY <1>2, <1>3

LEMMA PlacesStep ==
  ASSUME TypeOK, UtteranceInOnePlace, UnheardIsNowhere, [Next]_vars
  PROVE  UtteranceInOnePlace' /\ UnheardIsNowhere'
<1> SUFFICES ASSUME NEW u \in Utterances
             PROVE  Places(u)' <= 1 /\ (Unheard(u)' => Places(u)' = 0)
  BY DEF UtteranceInOnePlace, UnheardIsNowhere
<1>1. TypeOK'
  BY TypeStep
<1>2. Places(u) \in Nat /\ Places(u)' \in Nat
  BY <1>1, PlacesAdd, PlacesAddPrime
<1>3. Places(u) <= 1 /\ (Unheard(u) => Places(u) = 0)
  BY DEF UtteranceInOnePlace, UnheardIsNowhere
<1>4. Unheard(u)' => Unheard(u)
  BY UnheardBefore
<1>5. CASE Stays(u)
  BY <1>2, <1>3, <1>4, <1>5 DEF Stays
<1>6. CASE IsEnded(u)
  <2>1. Unheard(u)
    BY <1>6 DEF IsEnded, Unheard
  <2> QED
    BY <1>2, <1>3, <1>6, <2>1 DEF IsEnded
<1> QED
  BY <1>5, <1>6, UtterancesMove

\* What is in a place is counted.
LEMMA FoundCounts ==
  ASSUME TypeOK
  PROVE  /\ \A i \in DOMAIN queue : HasSpeech(queue[i]) =>
              queue[i].utt \in Utterances /\ Places(queue[i].utt) # 0
         /\ \A i \in DOMAIN jobs : jobs[i].utt \in Utterances /\ Places(jobs[i].utt) # 0
         /\ \A i \in DOMAIN injected :
              injected[i].utt \in Utterances /\ Places(injected[i].utt) # 0
<1>1. ASSUME NEW i \in DOMAIN queue, HasSpeech(queue[i])
      PROVE  queue[i].utt \in Utterances /\ Places(queue[i].utt) # 0
  <2>1. queue \in Seq(Message) /\ queue[i] \in Message
    BY DEF TypeOK
  <2> DEFINE u == queue[i].utt
  <2>2. u \in Utterances
    BY <1>1, <2>1, MessageFields DEF HasSpeech, SpeechEndedMessage, TranscriptionMessage
  <2>3. queue[i] \in Speech(u)
    BY <1>1, <2>1 DEF Speech
  <2> HIDE DEF u
  <2>4. InQueue(u) # 0
    BY <2>1, <2>3, CountsNone DEF InQueue
  <2> QED
    BY <2>2, <2>4, PlacesAdd DEF u
<1>2. ASSUME NEW i \in DOMAIN jobs
      PROVE  jobs[i].utt \in Utterances /\ Places(jobs[i].utt) # 0
  <2>1. jobs \in Seq(Job) /\ jobs[i] \in Job
    BY DEF TypeOK
  <2> DEFINE u == jobs[i].utt
  <2>2. u \in Utterances /\ jobs[i] \in JobsOf(u)
    BY <2>1 DEF Job, JobsOf
  <2> HIDE DEF u
  <2>3. InJobs(u) # 0
    BY <2>1, <2>2, CountsNone DEF InJobs
  <2> QED
    BY <2>2, <2>3, PlacesAdd DEF u
<1>3. ASSUME NEW i \in DOMAIN injected
      PROVE  injected[i].utt \in Utterances /\ Places(injected[i].utt) # 0
  <2>1. injected \in Seq(InjectedText) /\ injected[i] \in InjectedText
    BY DEF TypeOK
  <2> DEFINE u == injected[i].utt
  <2>2. u \in Utterances /\ injected[i] \in TextOf(u)
    BY <2>1 DEF InjectedText, TextOf
  <2> HIDE DEF u
  <2>3. InText(u) # 0
    BY <2>1, <2>2, CountsNone DEF InText
  <2> QED
    BY <2>2, <2>3, PlacesAdd DEF u
<1> QED
  BY <1>1, <1>2, <1>3

\* The agent of an utterance is captured before the utterance is anywhere.
LEMMA CapturedOnce ==
  ASSUME TypeOK, UnheardIsNowhere, [Next]_vars, NEW u \in Utterances, Places(u) # 0
  PROVE  captured'[u] = captured[u]
<1>1. ~(vad = "speaking" /\ u = heard)
  BY DEF UnheardIsNowhere, Unheard
<1>2. captured' = captured
        \/ (vad = "speaking" /\ captured' = [captured EXCEPT ![heard] = current])
  <2>1. CASE Controller
    BY <2>1 DEF Controller, HandleEvent, HandleSpeechStarted, HandleSpeechEnded,
       HandleTranscriptionCompleted, HandlePlayStarted, HandlePlayCompleted,
       HandleHotkeyPressed, HandleSetListening, HandleDiscardCurrent, HandleSwitchAgent, history
  <2>2. CASE Next /\ ~Controller
    BY <2>2 DEF Next, VadSpeechStart, VadSpeechEnd, VadMaxSpeech, EndUtterance,
       SttTranscribes, SttFindsNoText, SttCompletes, SttHangs, WatchdogElapses, WatchdogRuns,
       PlayAudio, PlaybackEnds, SpeechBegins, SpeechDone, UserCommands, AgentRegisters,
       AgentUnregisters, history
  <2>3. CASE UNCHANGED vars
    BY <2>3 DEF vars, controllerVars, history
  <2> QED
    BY <2>1, <2>2, <2>3
<1> QED
  BY <1>1, <1>2 DEF TypeOK

\* After the step, x has the agent with it that is captured then.
Keeps(x) == x.source = "vad" => captured'[x.utt] \in {x.agent, NoAgent}
Good(m) == HasSpeech(m) => Keeps(m)

LEMMA OldIsGood ==
  ASSUME TypeOK, UtterancesInv, [Next]_vars
  PROVE  /\ \A i \in DOMAIN queue : Good(queue[i])
         /\ \A i \in DOMAIN jobs : Keeps(jobs[i])
         /\ \A i \in DOMAIN injected : captured'[injected[i].utt] = captured[injected[i].utt]
  BY FoundCounts, CapturedOnce
  DEF UtterancesInv, AgentTravels, KeepsAgent, Keeps, Good

LEMMA SignalsAreGood ==
  /\ Good(Signal("SpeechStarted"))
  /\ Good(Signal("PlayStarted"))
  /\ Good(Signal("PlayCompleted"))
  /\ Good(NoText)
  /\ \A c \in CommandMessage : Good(c)
<1>1. /\ ~HasSpeech(Signal("SpeechStarted"))
      /\ ~HasSpeech(Signal("PlayStarted"))
      /\ ~HasSpeech(Signal("PlayCompleted"))
      /\ ~HasSpeech(NoText)
  BY DEF Signal, NoText, HasSpeech
<1>2. \A c \in CommandMessage : ~HasSpeech(c)
  BY DEF CommandMessage, HasSpeech
<1> QED
  BY <1>1, <1>2 DEF Good

\* Every element of a sequence of at most two parts.
AllGood(msgs) == \A j \in DOMAIN msgs : Good(msgs[j])

LEMMA JoinedAreGood ==
  ASSUME NEW s \in Seq(Message), NEW t \in Seq(Message), AllGood(s), AllGood(t)
  PROVE  AllGood(s \o t)
<1> SUFFICES ASSUME NEW j \in DOMAIN (s \o t)
             PROVE  Good((s \o t)[j])
  BY DEF AllGood
<1>1. /\ Len(s) \in Nat /\ Len(t) \in Nat /\ j \in 1..(Len(s) + Len(t))
      /\ DOMAIN s = 1..Len(s) /\ DOMAIN t = 1..Len(t)
  BY ConcatProperties, LenProperties
<1>2. (s \o t)[j] = IF j <= Len(s) THEN s[j] ELSE t[j - Len(s)]
  BY <1>1, ConcatProperties
<1>3. CASE j <= Len(s)
  BY <1>1, <1>2, <1>3 DEF AllGood
<1>4. CASE ~(j <= Len(s))
  <2>1. j - Len(s) \in DOMAIN t
    BY <1>1, <1>4
  <2> QED
    BY <1>2, <1>4, <2>1 DEF AllGood
<1> QED
  BY <1>3, <1>4

LEMMA FewAreGood ==
  /\ AllGood(<<>>)
  /\ \A m : Good(m) => AllGood(<<m>>)
  BY DEF AllGood

LEMMA HelpersAreGood ==
  ASSUME TypeOK
  PROVE  /\ AllGood(StartPlays)
         /\ \A a : AllGood(Announcement(a))
         /\ AllGood(Requeued)
<1>1. AllGood(<<>>) /\ AllGood(<<Signal("PlayStarted")>>)
  BY FewAreGood, SignalsAreGood
<1>2. \A u, l, a : Good(SpeechEnded(u, l, a, "queued"))
  BY DEF SpeechEnded, Good, Keeps
<1>3. AllGood(Requeued)
  BY <1>1, <1>2, FewAreGood DEF Requeued
<1> QED
  BY <1>1, <1>3 DEF StartPlays, Announcement

\* What was in the queue, and what a step puts there.
Adds(msgs) ==
  /\ msgs \in Seq(Message)
  /\ AllGood(msgs)
  /\ \/ queue' = queue \o msgs
     \/ queue # <<>> /\ queue' = Tail(queue) \o msgs

LEMMA AddsNothing ==
  ASSUME TypeOK, queue' = queue \/ (queue # <<>> /\ Consume(<<>>))
  PROVE  \E msgs : Adds(msgs)
<1>1. Adds(<<>>)
  <2>1. <<>> \in Seq(Message) /\ AllGood(<<>>)
    BY FewAreGood
  <2>2. queue \o <<>> = queue
    BY ConcatEmptySeq DEF TypeOK
  <2> QED
    BY <2>1, <2>2 DEF Adds, Consume
<1> QED
  BY <1>1

LEMMA HandlersAdd ==
  ASSUME TypeOK, UtterancesInv, Controller
  PROVE  \E msgs : Adds(msgs)
<1>1. queue # <<>> /\ HandleEvent
  BY HandlerConsumes DEF Controller
<1>2. <<>> \in Seq(Message) /\ AllGood(<<>>)
  BY FewAreGood
<1>3. CASE \/ HandleSpeechStarted \/ HandleSpeechEnded \/ HandlePlayStarted
           \/ HandleHotkeyPressed \/ HandleSetListening \/ HandleDiscardCurrent
  <2>1. Consume(<<>>) \/ Consume(StartPlays)
    BY <1>3 DEF HandleSpeechStarted, HandleSpeechEnded, HandlePlayStarted, HandleHotkeyPressed,
       HandleSetListening, HandleDiscardCurrent, TurnOn, TurnOffLater, TurnOffNow, IgnoreCommand
  <2>2. Adds(<<>>) \/ Adds(StartPlays)
    BY <1>1, <1>2, <2>1, HelperTypes, HelpersAreGood DEF Adds, Consume
  <2> QED
    BY <2>2
<1>4. CASE HandleTranscriptionCompleted
  <2> DEFINE beep == IF desired = "LISTENING" /\ state = "OFF" THEN StartPlays ELSE <<>>
  <2>1. Consume(<<>>) \/ Consume(beep \o Requeued)
    BY <1>4 DEF HandleTranscriptionCompleted, DeferTranscription, ApplyTranscription
  <2>2. beep \in Seq(Message) /\ AllGood(beep) /\ Requeued \in Seq(Message) /\ AllGood(Requeued)
    BY <1>2, HelperTypes, HelpersAreGood
  <2> HIDE DEF beep
  <2>3. beep \o Requeued \in Seq(Message) /\ AllGood(beep \o Requeued)
    BY <2>2, JoinedAreGood, ConcatProperties
  <2>4. Adds(<<>>) \/ Adds(beep \o Requeued)
    BY <1>1, <1>2, <2>1, <2>3 DEF Adds, Consume
  <2> QED
    BY <2>4
<1>5. CASE HandlePlayCompleted
  <2>1. Consume(<<>>) \/ Consume(Requeued)
    BY <1>5 DEF HandlePlayCompleted, FinishPlays, KeepPlaying
  <2>2. Adds(<<>>) \/ Adds(Requeued)
    BY <1>1, <1>2, <2>1, HelperTypes, HelpersAreGood DEF Adds, Consume
  <2> QED
    BY <2>2
<1>6. CASE HandleSwitchAgent
  <2> DEFINE to == Head(queue).to
             announced == IF to \in registered THEN Announcement(to) ELSE <<>>
  <2>1. CASE registered = {}
    <3>1. Consume(<<>>)
      BY <1>6, <2>1 DEF HandleSwitchAgent
    <3> QED
      BY <1>1, <3>1, AddsNothing
  <2>2. CASE registered # {}
    <3>1. PICK l \in BOOLEAN : Consume(Flush(l) \o announced)
      BY <1>6, <2>2 DEF HandleSwitchAgent
    <3>2. to \in Agents
      BY <1>1, <1>6, HeadCounts, MessageFields DEF HandleSwitchAgent, Handling
    <3>3. announced \in Seq(Message) /\ AllGood(announced) /\ Flush(l) \in Seq(Message)
      BY <1>2, <3>2, HelperTypes, HelpersAreGood
    <3>4. AllGood(Flush(l))
      <4>1. CASE vad = "speaking"
        <5>1. captured' = [captured EXCEPT ![heard] = current] /\ heard \in Utterances
          BY <1>6, <2>2, <4>1 DEF HandleSwitchAgent, TypeOK, Utterances
        <5>2. Good(SpeechEnded(heard, l, current, "vad"))
          BY <5>1 DEF Good, Keeps, SpeechEnded, TypeOK
        <5> QED
          BY <4>1, <5>2, FewAreGood DEF Flush
      <4>2. CASE vad # "speaking"
        BY <1>2, <4>2 DEF Flush
      <4> QED
        BY <4>1, <4>2
    <3> HIDE DEF announced
    <3>5. Flush(l) \o announced \in Seq(Message) /\ AllGood(Flush(l) \o announced)
      BY <3>3, <3>4, JoinedAreGood, ConcatProperties
    <3>6. Adds(Flush(l) \o announced)
      BY <1>1, <3>1, <3>5 DEF Adds, Consume
    <3> QED
      BY <3>6
  <2> QED
    BY <2>1, <2>2
<1> QED
  BY <1>1, <1>3, <1>4, <1>5, <1>6 DEF HandleEvent

LEMMA ProducersAdd ==
  ASSUME TypeOK, UtterancesInv, Next, ~Controller
  PROVE  \E msgs : Adds(msgs)
<1>1. ASSUME NEW m \in Message, Good(m), Send(<<m>>)
      PROVE  \E msgs : Adds(msgs)
  <2>1. Adds(<<m>>)
    BY <1>1, FewAreGood DEF Adds, Send
  <2> QED
    BY <2>1
<1>2. CASE VadSpeechEnd \/ VadMaxSpeech
  <2>1. PICK l \in BOOLEAN : Send(<<SpeechEnded(heard, l, current, "vad")>>)
    BY <1>2 DEF VadSpeechEnd, VadMaxSpeech, EndUtterance
  <2>2. captured' = [captured EXCEPT ![heard] = current] /\ vad = "speaking"
    BY <1>2 DEF VadSpeechEnd, VadMaxSpeech, EndUtterance
  <2>3. heard \in Utterances
    BY <2>2 DEF TypeOK, Utterances
  <2>4. Good(SpeechEnded(heard, l, current, "vad"))
    BY <2>2, <2>3 DEF Good, Keeps, SpeechEnded, TypeOK
  <2>5. SpeechEnded(heard, l, current, "vad") \in Message
    BY <2>3, MessagesBuilt DEF TypeOK, Source
  <2> QED
    BY <1>1, <2>1, <2>4, <2>5
<1>3. CASE SttTranscribes
  <2>1. jobs # <<>> /\ Send(<<Transcribed(Head(jobs))>>)
    BY <1>3 DEF SttTranscribes, SttCompletes
  <2>2. jobs \in Seq(Job) /\ Head(jobs) = jobs[1] /\ 1 \in DOMAIN jobs /\ Head(jobs) \in Job
    BY <2>1 DEF TypeOK
  <2>3. Keeps(Head(jobs))
    BY <2>2, OldIsGood
  <2>4. Good(Transcribed(Head(jobs)))
    BY <2>3 DEF Good, Keeps, Transcribed
  <2> QED
    BY <1>1, <2>1, <2>2, <2>4, MessagesBuilt
<1>4. CASE UserCommands
  <2>1. PICK c \in Commands : Send(<<c>>)
    BY <1>4 DEF UserCommands
  <2> QED
    BY <1>1, <2>1, SignalsAreGood DEF Message
<1>5. CASE \E a \in Agents : AgentUnregisters(a)
  <2>1. (\E b \in registered : Send(Announcement(b))) \/ UNCHANGED queue
    BY <1>5 DEF AgentUnregisters
  <2>2. \A b \in registered : Announcement(b) \in Seq(Message)
    BY HelperTypes DEF TypeOK
  <2>3. (\E b \in registered : Adds(Announcement(b))) \/ UNCHANGED queue
    BY <2>1, <2>2, HelpersAreGood DEF Adds, Send
  <2> QED
    BY <2>3, AddsNothing
<1>6. CASE \/ VadSpeechStart \/ SttFindsNoText \/ SttHangs \/ WatchdogElapses \/ WatchdogRuns
           \/ PlayAudio \/ PlaybackEnds \/ SpeechBegins \/ SpeechDone
           \/ \E a \in Agents : AgentRegisters(a)
  <2>1. \/ UNCHANGED queue
        \/ Send(<<Signal("SpeechStarted")>>)
        \/ Send(<<Signal("PlayStarted")>>)
        \/ Send(<<Signal("PlayCompleted")>>)
        \/ Send(<<NoText>>)
    BY <1>6 DEF VadSpeechStart, SttFindsNoText, SttCompletes, SttHangs, WatchdogElapses,
       WatchdogRuns, WatchdogMessage, PlayAudio, PlaybackEnds, SpeechBegins, SpeechDone,
       AgentRegisters
  <2> QED
    BY <1>1, <2>1, AddsNothing, MessagesBuilt, SignalsAreGood, Zenon
<1> QED
  BY <1>2, <1>3, <1>4, <1>5, <1>6 DEF Next

LEMMA QueueStaysGood ==
  ASSUME TypeOK, UtterancesInv, [Next]_vars
  PROVE  AllGood(queue')
<1>1. queue \in Seq(Message) /\ AllGood(queue)
  BY OldIsGood DEF TypeOK, AllGood
<1>2. PICK msgs : Adds(msgs)
  <2>1. CASE UNCHANGED vars
    BY <2>1, AddsNothing DEF vars, controllerVars
  <2> QED
    BY <2>1, HandlersAdd, ProducersAdd
<1>3. CASE queue' = queue \o msgs
  BY <1>1, <1>2, <1>3, JoinedAreGood DEF Adds
<1>4. CASE queue # <<>> /\ queue' = Tail(queue) \o msgs
  <2>1. Tail(queue) \in Seq(Message) /\ Len(Tail(queue)) = Len(queue) - 1
          /\ \A i \in 1..Len(Tail(queue)) : Tail(queue)[i] = queue[i + 1]
    BY <1>1, <1>4, HeadTailProperties
  <2>2. AllGood(Tail(queue))
    <3> SUFFICES ASSUME NEW i \in DOMAIN Tail(queue)
                 PROVE  Good(Tail(queue)[i])
      BY DEF AllGood
    <3>1. Len(queue) \in Nat /\ DOMAIN queue = 1..Len(queue) /\ i \in 1..Len(Tail(queue))
      BY <1>1, <2>1, LenProperties
    <3>2. i + 1 \in DOMAIN queue
      BY <2>1, <3>1
    <3> QED
      BY <1>1, <2>1, <3>1, <3>2 DEF AllGood
  <2> QED
    BY <1>2, <1>4, <2>1, <2>2, JoinedAreGood DEF Adds
<1> QED
  BY <1>2, <1>3, <1>4 DEF Adds

\* The jobs are those that were there and the one a handler begins.
LEMMA JobsStayGood ==
  ASSUME TypeOK, UtterancesInv, [Next]_vars
  PROVE  \A i \in DOMAIN jobs' : Keeps(jobs'[i])
<1>1. jobs \in Seq(Job) /\ \A i \in DOMAIN jobs : Keeps(jobs[i])
  BY OldIsGood DEF TypeOK
<1>2. CASE HandleSpeechEnded
  <2> DEFINE m == Head(queue)
             job == [utt |-> m.utt, agent |-> Resolve(m.agent), source |-> m.source]
  <2>1. jobs' = jobs \/ jobs' = JobsAfter(job)
    BY <1>2 DEF HandleSpeechEnded, BeginTranscription, RejectShort, ParkSpeech, DropSpeech
  <2>2. queue # <<>> /\ m.type = "SpeechEnded" /\ m \in Message
    BY <1>2, HeadCounts DEF HandleSpeechEnded, Handling
  <2>3. m = queue[1] /\ 1 \in DOMAIN queue
    BY <2>2, LenProperties, EmptySeq DEF TypeOK
  <2>4. Keeps(m)
    BY <2>2, <2>3, OldIsGood DEF Good, HasSpeech
  <2>5. Keeps(job)
    BY <2>4 DEF Keeps, Resolve
  <2>6. job \in Job
    BY <2>2, MessageFields, HelperTypes DEF SpeechEndedMessage, Job
  <2> HIDE DEF job, m
  <2>7. CASE jobs' = Append(jobs, job)
    <3>1. /\ Len(jobs) \in Nat /\ DOMAIN jobs = 1..Len(jobs)
          /\ DOMAIN jobs' = 1..(Len(jobs) + 1) /\ jobs'[Len(jobs) + 1] = job
          /\ \A i \in 1..Len(jobs) : jobs'[i] = jobs[i]
      BY <1>1, <2>6, <2>7
    <3> QED
      BY <1>1, <2>5, <3>1
  <2>8. CASE jobs' = <<job>>
    BY <2>5, <2>8
  <2> QED
    BY <1>1, <2>1, <2>7, <2>8 DEF JobsAfter
<1>3. CASE SttTranscribes \/ SttFindsNoText
  <2>1. jobs # <<>> /\ jobs' = Tail(jobs)
    BY <1>3 DEF SttTranscribes, SttFindsNoText, SttCompletes
  <2>2. /\ Len(jobs) \in Nat /\ DOMAIN jobs = 1..Len(jobs)
        /\ DOMAIN jobs' = 1..(Len(jobs) - 1)
        /\ \A i \in 1..(Len(jobs) - 1) : jobs'[i] = jobs[i + 1]
    BY <1>1, <2>1
  <2>3. \A i \in 1..(Len(jobs) - 1) : i + 1 \in 1..Len(jobs)
    BY <2>2
  <2> QED
    BY <1>1, <2>2, <2>3
<1>4. CASE ~HandleSpeechEnded /\ ~SttTranscribes /\ ~SttFindsNoText
  <2>1. jobs' = jobs
    <3>1. CASE Controller
      BY <1>4, <3>1 DEF Controller, HandleEvent, HandleSpeechStarted,
         HandleTranscriptionCompleted, HandlePlayStarted, HandlePlayCompleted,
         HandleHotkeyPressed, HandleSetListening, HandleDiscardCurrent, HandleSwitchAgent, audio
    <3>2. CASE Next /\ ~Controller
      BY <1>4, <3>2 DEF Next, VadSpeechStart, VadSpeechEnd, VadMaxSpeech, SttHangs,
         WatchdogElapses, WatchdogRuns, PlayAudio, PlaybackEnds, SpeechBegins, SpeechDone,
         UserCommands, AgentRegisters, AgentUnregisters, audio
    <3>3. CASE UNCHANGED vars
      BY <3>3 DEF vars, controllerVars, audio
    <3> QED
      BY <3>1, <3>2, <3>3
  <2> QED
    BY <1>1, <2>1
<1> QED
  BY <1>2, <1>3, <1>4

LEMMA AgentStep ==
  ASSUME TypeOK, UtterancesInv, [Next]_vars
  PROVE  AgentTravels' /\ DirectSpeechKeepsAgent'
<1>1. AgentTravels'
  <2>1. AllGood(queue') /\ \A i \in DOMAIN jobs' : Keeps(jobs'[i])
    BY QueueStaysGood, JobsStayGood
  <2> QED
    BY <2>1 DEF AgentTravels, AllGood, Good, Keeps, KeepsAgent
<1>2. \A i \in DOMAIN injected :
        injected[i].source = "vad" /\ captured'[injected[i].utt] # NoAgent
          => injected[i].to = captured'[injected[i].utt]
  BY OldIsGood DEF UtterancesInv, DirectSpeechKeepsAgent
<1>3. CASE HandleTranscriptionCompleted
  <2> DEFINE m == Head(queue)
             x == [utt |-> m.utt, to |-> Resolve(m.agent), source |-> m.source]
  <2>1. injected' = IF m.text THEN Append(injected, x) ELSE injected
    BY <1>3 DEF HandleTranscriptionCompleted, Injections
  <2>2. queue # <<>> /\ m.type = "TranscriptionCompleted" /\ m \in Message
    BY <1>3, HeadCounts DEF HandleTranscriptionCompleted, Handling
  <2>3. m = queue[1] /\ 1 \in DOMAIN queue
    BY <2>2, LenProperties, EmptySeq DEF TypeOK
  <2>4. CASE m.text
    <3>1. Keeps(m)
      BY <2>2, <2>3, <2>4, OldIsGood DEF Good, HasSpeech
    <3>2. x.source = "vad" /\ captured'[x.utt] # NoAgent => x.to = captured'[x.utt]
      BY <3>1 DEF Keeps, Resolve
    <3>3. x \in InjectedText
      BY <2>2, <2>4, MessageFields, HelperTypes DEF TranscriptionMessage, InjectedText
    <3> HIDE DEF x, m
    <3>4. injected' = Append(injected, x)
      BY <2>1, <2>4
    <3>5. /\ Len(injected) \in Nat /\ DOMAIN injected = 1..Len(injected)
          /\ DOMAIN injected' = 1..(Len(injected) + 1) /\ injected'[Len(injected) + 1] = x
          /\ \A i \in 1..Len(injected) : injected'[i] = injected[i]
      BY <3>3, <3>4 DEF TypeOK
    <3> QED
      BY <1>1, <1>2, <3>2, <3>5 DEF DirectSpeechKeepsAgent
  <2>5. CASE ~m.text
    BY <1>1, <1>2, <2>1, <2>5 DEF DirectSpeechKeepsAgent
  <2> QED
    BY <2>4, <2>5
<1>4. CASE ~HandleTranscriptionCompleted
  <2>1. injected' = injected
    <3>1. CASE Controller
      BY <1>4, <3>1 DEF Controller, HandleEvent, HandleSpeechStarted, HandleSpeechEnded,
         HandlePlayStarted, HandlePlayCompleted, HandleHotkeyPressed, HandleSetListening,
         HandleDiscardCurrent, HandleSwitchAgent, history
    <3>2. CASE Next /\ ~Controller
      BY <3>2 DEF Next, VadSpeechStart, VadSpeechEnd, VadMaxSpeech, SttTranscribes,
         SttFindsNoText, SttCompletes, SttHangs, WatchdogElapses, WatchdogRuns, PlayAudio,
         PlaybackEnds, SpeechBegins, SpeechDone, UserCommands, AgentRegisters,
         AgentUnregisters, history
    <3>3. CASE UNCHANGED vars
      BY <3>3 DEF vars, controllerVars, history
    <3> QED
      BY <3>1, <3>2, <3>3
  <2> QED
    BY <1>1, <1>2, <2>1 DEF DirectSpeechKeepsAgent
<1> QED
  BY <1>3, <1>4

LEMMA NothingHeardYet == Init => UtterancesInv
<1> SUFFICES ASSUME Init
             PROVE  UtterancesInv
  OBVIOUS
<1>1. TypeOK
  BY InitTypes
<1>2. /\ queue = <<>> \/ queue = StartPlays
      /\ audioQueue = <<>> /\ jobs = <<>> /\ injected = <<>>
  BY DEF Init
<1>3. \A u : Places(u) = 0
  <2> TAKE u
  <2>1. InQueue(u) = 0 /\ InAudio(u) = 0 /\ InJobs(u) = 0 /\ InText(u) = 0
    BY <1>2, NoneCount, NoSpeechSent DEF InQueue, InAudio, InJobs, InText
  <2> QED
    BY <1>1, <2>1, PlacesAdd
<1>4. UtteranceInOnePlace /\ UnheardIsNowhere
  BY <1>3 DEF UtteranceInOnePlace, UnheardIsNowhere
<1>5. AgentTravels /\ DirectSpeechKeepsAgent
  <2>1. \A i \in DOMAIN queue : ~HasSpeech(queue[i])
    BY <1>2 DEF StartPlays, Signal, HasSpeech
  <2> QED
    BY <1>2, <2>1 DEF AgentTravels, DirectSpeechKeepsAgent
<1> QED
  BY <1>4, <1>5 DEF UtterancesInv

\* UtterancesInv holds in every reachable state.
THEOREM UtterancesSound == Spec => []UtterancesInv
<1>1. TypeOK /\ UtterancesInv /\ [Next]_vars => UtterancesInv'
  <2> SUFFICES ASSUME TypeOK, UtterancesInv, [Next]_vars
               PROVE  UtterancesInv'
    OBVIOUS
  <2>1. UtteranceInOnePlace' /\ UnheardIsNowhere'
    BY PlacesStep DEF UtterancesInv
  <2> QED
    BY <2>1, AgentStep DEF UtterancesInv
<1> QED
  BY <1>1, NothingHeardYet, TypeCorrect, PTL DEF Spec

\* However many utterances are spoken, parked and requeued, and whatever agents are
\* switched, an utterance is never in two of the places at once, and never transcribed
\* or injected twice (controller.py, audio_manager.py).
THEOREM NeverInTwoPlaces == Spec => []UtteranceInOnePlace
  BY UtterancesSound, PTL DEF UtterancesInv

\* Text of speech that was never parked goes to the agent that was current when the
\* speech ended, for any number of agents and switches (fsm.py, SpeechEnded).
THEOREM SpeechGoesToItsAgent == Spec => []DirectSpeechKeepsAgent
  BY UtterancesSound, PTL DEF UtterancesInv

-----------------------------------------------------------------------------
(***************************************************************************)
(* Plays and their completions.                                            *)
(***************************************************************************)
OfType(t) == {m \in Message : m.type = t}
Starts(m) == IF m.type = "PlayStarted" THEN 1 ELSE 0
Completes(m) == IF m.type = "PlayCompleted" THEN 1 ELSE 0

\* Completions that are still to be sent.
Promised == owed + (IF speeches > 0 THEN 1 ELSE 0)

\* A course of queue q with e completions promised and p plays counted: b[i] is what the
\* completions from message i on leave for the plays that began before it.
IsCourse(b, q, e, p) ==
  /\ b \in [1..(Len(q) + 1) -> Nat]
  /\ b[Len(q) + 1] = e
  /\ \A i \in 1..Len(q) : b[i] + Starts(q[i]) = b[i + 1] + Completes(q[i])
  /\ p <= b[1]
  /\ b[1] + HowMany(q, OfType("PlayStarted")) = e + HowMany(q, OfType("PlayCompleted"))

Covered(q, e, p) == \E b : IsCourse(b, q, e, p)

\* The inductive invariant: every play that began or is queued has a completion behind it.
PlaysCovered == Covered(queue, Promised, plays)

LEMMA MessageCounts ==
  ASSUME NEW m \in Message
  PROVE  /\ HowMany(<<m>>, OfType("PlayStarted")) = Starts(m)
         /\ HowMany(<<m>>, OfType("PlayCompleted")) = Completes(m)
         /\ Starts(m) \in Nat /\ Completes(m) \in Nat
<1>1. HowMany(<<m>>, OfType("PlayStarted")) = IF m \in OfType("PlayStarted") THEN 1 ELSE 0
  BY OneCounts
<1>2. HowMany(<<m>>, OfType("PlayCompleted")) = IF m \in OfType("PlayCompleted") THEN 1 ELSE 0
  BY OneCounts
<1> QED
  BY <1>1, <1>2 DEF OfType, Starts, Completes

\* One more message, with the promise it makes or keeps.
LEMMA CoveredAppend ==
  ASSUME NEW q \in Seq(Message), NEW m \in Message, NEW e \in Nat, NEW f \in Nat, NEW p \in Nat,
         Covered(q, e, p), e + Starts(m) = f + Completes(m)
  PROVE  Covered(Append(q, m), f, p)
<1>1. PICK b : IsCourse(b, q, e, p)
  BY DEF Covered
<1> DEFINE n == Len(q)
           r == Append(q, m)
           c == [i \in 1..(n + 2) |-> IF i <= n + 1 THEN b[i] ELSE f]
<1>2. /\ n \in Nat /\ Len(r) = n + 1 /\ r[n + 1] = m
      /\ \A i \in 1..n : r[i] = q[i]
  BY AppendProperties, LenProperties
<1>3. /\ b \in [1..(n + 1) -> Nat] /\ b[n + 1] = e
      /\ \A i \in 1..n : b[i] + Starts(q[i]) = b[i + 1] + Completes(q[i])
      /\ p <= b[1]
      /\ b[1] + HowMany(q, OfType("PlayStarted")) = e + HowMany(q, OfType("PlayCompleted"))
  BY <1>1 DEF IsCourse
<1>4. /\ HowMany(r, OfType("PlayStarted")) = HowMany(q, OfType("PlayStarted")) + Starts(m)
      /\ HowMany(r, OfType("PlayCompleted")) = HowMany(q, OfType("PlayCompleted")) + Completes(m)
  <2>1. HowMany(r, OfType("PlayStarted")) = HowMany(q, OfType("PlayStarted"))
          + (IF m \in OfType("PlayStarted") THEN 1 ELSE 0)
    BY AppendCounts
  <2>2. HowMany(r, OfType("PlayCompleted")) = HowMany(q, OfType("PlayCompleted"))
          + (IF m \in OfType("PlayCompleted") THEN 1 ELSE 0)
    BY AppendCounts
  <2> QED
    BY <2>1, <2>2 DEF OfType, Starts, Completes
<1>5. Starts(m) \in Nat /\ Completes(m) \in Nat
      /\ HowMany(q, OfType("PlayStarted")) \in Nat /\ HowMany(q, OfType("PlayCompleted")) \in Nat
  BY MessageCounts, PositionsFinite
<1> HIDE DEF n, r
<1>6. c \in [1..(n + 2) -> Nat] /\ c[n + 2] = f /\ c[1] = b[1] /\ c[n + 1] = e
      /\ \A i \in 1..n : c[i] = b[i] /\ c[i + 1] = b[i + 1]
  BY <1>2, <1>3
<1> HIDE DEF c
<1>7. \A i \in 1..(n + 1) : c[i] + Starts(r[i]) = c[i + 1] + Completes(r[i])
  <2> TAKE i \in 1..(n + 1)
  <2>1. CASE i = n + 1
    <3>1. c[i] = e /\ c[i + 1] = f /\ r[i] = m
      BY <1>2, <1>6, <2>1
    <3> QED
      BY <3>1
  <2>2. CASE i \in 1..n
    BY <1>2, <1>3, <1>6, <2>2
  <2> QED
    BY <1>2, <2>1, <2>2
<1>8. c[1] + HowMany(r, OfType("PlayStarted")) = f + HowMany(r, OfType("PlayCompleted"))
  <2>1. PICK d \in Nat : d = b[1] /\ d = c[1]
    <3>1. b[1] \in Nat
      BY <1>2, <1>3
    <3>2. c[1] = b[1]
      BY <1>6
    <3> QED
      BY <3>1, <3>2, Zenon
  <2>2. d + HowMany(q, OfType("PlayStarted")) = e + HowMany(q, OfType("PlayCompleted"))
    BY <1>3, <2>1, Zenon
  <2>3. PICK s \in Nat, t \in Nat : s = Starts(m) /\ t = Completes(m)
    BY <1>5
  <2>4. PICK x \in Nat, y \in Nat :
          x = HowMany(q, OfType("PlayStarted")) /\ y = HowMany(q, OfType("PlayCompleted"))
    BY <1>5
  <2>5. d + x = e + y
    BY <2>2, <2>4, Zenon
  <2>6. e + s = f + t
    BY <2>3, Zenon
  <2>7. d + (x + s) = f + (y + t)
    BY <2>5, <2>6
  <2> QED
    BY <1>4, <2>1, <2>3, <2>4, <2>7, Zenon
<1>9. Len(r) + 1 = n + 2
  BY <1>2
<1>10. IsCourse(c, r, f, p)
  BY <1>2, <1>3, <1>6, <1>7, <1>8, <1>9 DEF IsCourse
<1> QED
  BY <1>10 DEF Covered, r

\* Without the message that is handled.
LEMMA CoveredTail ==
  ASSUME NEW q \in Seq(Message), q # <<>>, NEW e \in Nat, NEW p \in Nat, NEW o \in Nat,
         Covered(q, e, p),
         o + Completes(Head(q)) = p + Starts(Head(q)) \/ (o = 0 /\ Starts(Head(q)) = 0)
  PROVE  Covered(Tail(q), e, o)
<1>1. PICK b : IsCourse(b, q, e, p)
  BY DEF Covered
<1> DEFINE n == Len(q)
           r == Tail(q)
           m == Head(q)
           c == [i \in 1..n |-> b[i + 1]]
<1>2. /\ n \in Nat \ {0} /\ Len(r) = n - 1 /\ m = q[1] /\ m \in Message
      /\ r \in Seq(Message) /\ \A i \in 1..(n - 1) : r[i] = q[i + 1]
  BY HeadTailProperties, LenProperties, EmptySeq
<1>3. /\ b \in [1..(n + 1) -> Nat] /\ b[n + 1] = e
      /\ \A i \in 1..n : b[i] + Starts(q[i]) = b[i + 1] + Completes(q[i])
      /\ p <= b[1]
      /\ b[1] + HowMany(q, OfType("PlayStarted")) = e + HowMany(q, OfType("PlayCompleted"))
  BY <1>1 DEF IsCourse
<1>4. q = <<m>> \o r
  <2>1. <<m>> \in Seq(Message) /\ Len(<<m>>) = 1 /\ <<m>>[1] = m
    BY <1>2
  <2>2. /\ <<m>> \o r \in Seq(Message) /\ Len(<<m>> \o r) = 1 + (n - 1)
        /\ \A i \in 1..(1 + (n - 1)) : (<<m>> \o r)[i] = IF i <= 1 THEN <<m>>[i] ELSE r[i - 1]
    BY <1>2, <2>1, ConcatProperties
  <2>3. ASSUME NEW i \in 1..n PROVE q[i] = (<<m>> \o r)[i]
    <3>1. CASE i = 1
      BY <1>2, <2>1, <2>2, <3>1
    <3>2. CASE i # 1
      <4>1. i - 1 \in 1..(n - 1) /\ (i - 1) + 1 = i /\ ~(i <= 1) /\ i \in 1..(1 + (n - 1))
        BY <1>2, <3>2
      <4> QED
        BY <1>2, <2>2, <4>1
    <3> QED
      BY <3>1, <3>2
  <2> QED
    BY <1>2, <2>2, <2>3, SeqEqual
<1>5. /\ HowMany(q, OfType("PlayStarted")) = Starts(m) + HowMany(r, OfType("PlayStarted"))
      /\ HowMany(q, OfType("PlayCompleted")) = Completes(m) + HowMany(r, OfType("PlayCompleted"))
  <2>1. <<m>> \in Seq(Message)
    BY <1>2
  <2>2. /\ HowMany(<<m>> \o r, OfType("PlayStarted")) =
             HowMany(<<m>>, OfType("PlayStarted")) + HowMany(r, OfType("PlayStarted"))
        /\ HowMany(<<m>> \o r, OfType("PlayCompleted")) =
             HowMany(<<m>>, OfType("PlayCompleted")) + HowMany(r, OfType("PlayCompleted"))
    BY <1>2, <2>1, ConcatCounts
  <2> QED
    BY <1>2, <1>4, <2>2, MessageCounts
<1>6. /\ Starts(m) \in Nat /\ Completes(m) \in Nat
      /\ HowMany(r, OfType("PlayStarted")) \in Nat /\ HowMany(r, OfType("PlayCompleted")) \in Nat
  BY <1>2, MessageCounts, PositionsFinite
<1>7. o + Completes(m) = p + Starts(m) \/ (o = 0 /\ Starts(m) = 0)
  OBVIOUS
<1> HIDE DEF n, r, m
<1>8. c \in [1..n -> Nat] /\ c[n] = e /\ \A i \in 1..n : c[i] = b[i + 1]
  BY <1>2, <1>3
<1> HIDE DEF c
<1>9. b[1] \in Nat /\ b[2] \in Nat /\ c[1] = b[2] /\ b[1] + Starts(m) = b[2] + Completes(m)
  BY <1>2, <1>3, <1>8
<1>10. \A i \in 1..(n - 1) : c[i] + Starts(r[i]) = c[i + 1] + Completes(r[i])
  <2> TAKE i \in 1..(n - 1)
  <2>1. i \in 1..n /\ i + 1 \in 1..n
    BY <1>2
  <2> QED
    BY <1>2, <1>3, <1>8, <2>1
<1>11. o <= c[1]
  BY <1>3, <1>6, <1>7, <1>9
<1>12. c[1] + HowMany(r, OfType("PlayStarted")) = e + HowMany(r, OfType("PlayCompleted"))
  <2>1. b[1] + (Starts(m) + HowMany(r, OfType("PlayStarted")))
          = e + (Completes(m) + HowMany(r, OfType("PlayCompleted")))
    BY <1>3, <1>5, Zenon
  <2>2. PICK d \in Nat, g \in Nat : d = b[1] /\ g = c[1]
    BY <1>9
  <2>3. /\ d + (Starts(m) + HowMany(r, OfType("PlayStarted")))
             = e + (Completes(m) + HowMany(r, OfType("PlayCompleted")))
        /\ d + Starts(m) = g + Completes(m)
    BY <1>9, <2>1, <2>2, Zenon
  <2>4. g + HowMany(r, OfType("PlayStarted")) = e + HowMany(r, OfType("PlayCompleted"))
    BY <1>6, <2>3
  <2> QED
    BY <2>2, <2>4, Zenon
<1>13. (n - 1) + 1 = n
  BY <1>2
<1>14. IsCourse(c, r, e, o)
  BY <1>2, <1>8, <1>10, <1>11, <1>12, <1>13 DEF IsCourse
<1> QED
  BY <1>14 DEF Covered, r

\* A promise without a message.
LEMMA CoveredMore ==
  ASSUME NEW q \in Seq(Message), NEW e \in Nat, NEW p \in Nat, Covered(q, e, p)
  PROVE  Covered(q, e + 1, p)
<1>1. PICK b : IsCourse(b, q, e, p)
  BY DEF Covered
<1> DEFINE c == [i \in 1..(Len(q) + 1) |-> b[i] + 1]
<1>2. /\ Len(q) \in Nat /\ b \in [1..(Len(q) + 1) -> Nat] /\ b[Len(q) + 1] = e
      /\ \A i \in 1..Len(q) : b[i] + Starts(q[i]) = b[i + 1] + Completes(q[i])
      /\ p <= b[1]
      /\ b[1] + HowMany(q, OfType("PlayStarted")) = e + HowMany(q, OfType("PlayCompleted"))
  BY <1>1, LenProperties DEF IsCourse
<1>3. \A m \in Message : Starts(m) \in Nat /\ Completes(m) \in Nat
  BY MessageCounts
<1>4. HowMany(q, OfType("PlayStarted")) \in Nat /\ HowMany(q, OfType("PlayCompleted")) \in Nat
  BY PositionsFinite
<1>5. c \in [1..(Len(q) + 1) -> Nat] /\ \A i \in 1..(Len(q) + 1) : c[i] = b[i] + 1
  BY <1>2
<1> HIDE DEF c
<1>6. \A i \in 1..Len(q) : c[i] + Starts(q[i]) = c[i + 1] + Completes(q[i])
  <2> TAKE i \in 1..Len(q)
  <2>1. i \in 1..(Len(q) + 1) /\ i + 1 \in 1..(Len(q) + 1) /\ q[i] \in Message
    BY <1>2
  <2>2. PICK x \in Nat, y \in Nat : x = b[i] /\ y = b[i + 1]
    BY <1>2, <2>1
  <2>3. c[i] = x + 1 /\ c[i + 1] = y + 1
    BY <1>5, <2>1, <2>2
  <2>4. x + Starts(q[i]) = y + Completes(q[i])
    BY <1>2, <2>2, Zenon
  <2>5. PICK s \in Nat, t \in Nat : s = Starts(q[i]) /\ t = Completes(q[i])
    BY <1>3, <2>1
  <2>6. (x + 1) + s = (y + 1) + t
    BY <2>4, <2>5
  <2> QED
    BY <2>3, <2>5, <2>6, Zenon
<1>7. /\ c[1] = b[1] + 1 /\ b[1] \in Nat /\ c[Len(q) + 1] = e + 1
  BY <1>2, <1>5
<1>8. c[1] + HowMany(q, OfType("PlayStarted")) = (e + 1) + HowMany(q, OfType("PlayCompleted"))
  <2>1. b[1] + HowMany(q, OfType("PlayStarted")) = e + HowMany(q, OfType("PlayCompleted"))
    BY <1>2
  <2>2. PICK d \in Nat : d = b[1] /\ c[1] = d + 1
    BY <1>7
  <2>3. d + HowMany(q, OfType("PlayStarted")) = e + HowMany(q, OfType("PlayCompleted"))
    BY <2>1, <2>2, Zenon
  <2>4. (d + 1) + HowMany(q, OfType("PlayStarted"))
          = (e + 1) + HowMany(q, OfType("PlayCompleted"))
    BY <1>4, <2>3
  <2> QED
    BY <2>2, <2>4, Zenon
<1>9. p <= c[1]
  BY <1>2, <1>7
<1>10. IsCourse(c, q, e + 1, p)
  BY <1>5, <1>6, <1>7, <1>8, <1>9, Zenon DEF IsCourse
<1> QED
  BY <1>10 DEF Covered

\* Messages that are neither a start nor a completion, and none at all.
Neutral(msgs) ==
  msgs = <<>> \/ \E m \in Message : msgs = <<m>> /\ Starts(m) = 0 /\ Completes(m) = 0

\* A start that is promised its completion, or none.
StartOrNone(msgs) == msgs = <<>> \/ msgs = <<Signal("PlayStarted")>>

LEMMA CoveredNeutral ==
  ASSUME NEW q \in Seq(Message), NEW e \in Nat, NEW p \in Nat, Covered(q, e, p),
         NEW msgs, Neutral(msgs)
  PROVE  q \o msgs \in Seq(Message) /\ Covered(q \o msgs, e, p)
<1>1. CASE msgs = <<>>
  BY <1>1, ConcatEmptySeq
<1>2. ASSUME NEW m \in Message, msgs = <<m>>, Starts(m) = 0, Completes(m) = 0
      PROVE  q \o msgs \in Seq(Message) /\ Covered(q \o msgs, e, p)
  <2>1. q \o <<m>> = Append(q, m) /\ Append(q, m) \in Seq(Message)
    BY AppendIsConcat, AppendProperties
  <2>2. Covered(Append(q, m), e, p)
    BY <1>2, CoveredAppend
  <2> QED
    BY <1>2, <2>1, <2>2
<1> QED
  BY <1>1, <1>2 DEF Neutral

LEMMA CoveredStart ==
  ASSUME NEW q \in Seq(Message), NEW e \in Nat, NEW p \in Nat, Covered(q, e, p),
         NEW msgs, StartOrNone(msgs)
  PROVE  /\ q \o msgs \in Seq(Message) /\ Len(msgs) \in Nat
         /\ Covered(q \o msgs, e + Len(msgs), p)
<1>1. CASE msgs = <<>>
  <2>1. q \o msgs = q /\ Len(msgs) = 0 /\ e + 0 = e
    BY <1>1, ConcatEmptySeq
  <2> QED
    BY <2>1
<1>2. CASE msgs = <<Signal("PlayStarted")>>
  <2> DEFINE m == Signal("PlayStarted")
  <2>1. m \in Message /\ Starts(m) = 1 /\ Completes(m) = 0
    BY MessagesBuilt DEF Signal, Starts, Completes
  <2> HIDE DEF m
  <2>2. q \o <<m>> = Append(q, m) /\ Append(q, m) \in Seq(Message)
    BY <2>1, AppendIsConcat, AppendProperties
  <2>3. Covered(Append(q, m), e + 1, p)
    BY <2>1, CoveredAppend
  <2>4. msgs = <<m>> /\ Len(msgs) = 1
    BY <1>2 DEF m
  <2> QED
    BY <2>2, <2>3, <2>4
<1> QED
  BY <1>1, <1>2 DEF StartOrNone

LEMMA CoveredEnd ==
  ASSUME NEW q \in Seq(Message), NEW e \in Nat, NEW p \in Nat, Covered(q, e + 1, p)
  PROVE  Covered(q \o <<Signal("PlayCompleted")>>, e, p)
<1> DEFINE m == Signal("PlayCompleted")
<1>1. m \in Message /\ Starts(m) = 0 /\ Completes(m) = 1
  BY MessagesBuilt DEF Signal, Starts, Completes
<1> HIDE DEF m
<1>2. q \o <<m>> = Append(q, m)
  BY <1>1, AppendIsConcat
<1>3. Covered(Append(q, m), e, p)
  BY <1>1, CoveredAppend
<1> QED
  BY <1>2, <1>3 DEF m

LEMMA HelpersOfPlays ==
  ASSUME TypeOK
  PROVE  /\ StartOrNone(<<>>) /\ StartOrNone(StartPlays)
         /\ \A a : StartOrNone(Announcement(a))
         /\ Neutral(<<>>) /\ Neutral(Requeued)
         /\ \A l \in BOOLEAN : Neutral(Flush(l))
         /\ Promised \in Nat
<1>1. \A u, l, a, s : Starts(SpeechEnded(u, l, a, s)) = 0 /\ Completes(SpeechEnded(u, l, a, s)) = 0
  BY DEF SpeechEnded, Starts, Completes
<1>2. Neutral(Requeued)
  <2>1. CASE HasLong
    <3>1. audioQueue[FirstLong].utt \in Utterances /\ current \in AgentOrNone
      BY <2>1, FirstLongExists DEF Parked, TypeOK
    <3>2. SpeechEnded(audioQueue[FirstLong].utt, TRUE, current, "queued") \in Message
      BY <3>1, MessagesBuilt DEF Source
    <3> QED
      BY <1>1, <2>1, <3>2, Zenon DEF Requeued, Neutral
  <2>2. CASE ~HasLong
    BY <2>2 DEF Requeued, Neutral
  <2> QED
    BY <2>1, <2>2
<1>3. ASSUME NEW l \in BOOLEAN PROVE Neutral(Flush(l))
  <2>1. CASE vad = "speaking"
    <3>1. heard \in Utterances /\ current \in AgentOrNone
      BY <2>1 DEF TypeOK, Utterances
    <3>2. SpeechEnded(heard, l, current, "vad") \in Message
      BY <3>1, MessagesBuilt DEF Source
    <3> QED
      BY <1>1, <2>1, <3>2, Zenon DEF Flush, Neutral
  <2>2. CASE vad # "speaking"
    BY <2>2 DEF Flush, Neutral
  <2> QED
    BY <2>1, <2>2
<1>4. Promised \in Nat
  BY DEF Promised, TypeOK
<1> QED
  BY <1>2, <1>3, <1>4 DEF StartOrNone, StartPlays, Announcement, Neutral

\* What is left of the queue when a handler has counted its message.
LEMMA HandledIsCovered ==
  ASSUME TypeOK, PlaysCovered, HandleEvent
  PROVE  /\ queue # <<>> /\ Tail(queue) \in Seq(Message)
         /\ plays' \in Nat
         /\ Covered(Tail(queue), Promised, plays')
<1> DEFINE m == Head(queue)
<1>1. queue # <<>>
  BY HandlerConsumes
<1>2. queue \in Seq(Message) /\ Tail(queue) \in Seq(Message) /\ plays \in Nat /\ Promised \in Nat
  BY <1>1, HeadTailProperties, HelpersOfPlays DEF TypeOK
<1>3. CASE HandlePlayStarted
  <2>1. plays' = plays + 1 /\ Starts(m) = 1 /\ Completes(m) = 0
    BY <1>3 DEF HandlePlayStarted, Handling, Starts, Completes
  <2> QED
    BY <1>1, <1>2, <2>1, CoveredTail DEF PlaysCovered
<1>4. CASE HandlePlayCompleted
  <2>1. plays' = PlaysAfterCompletion /\ Starts(m) = 0 /\ Completes(m) = 1
    BY <1>4 DEF HandlePlayCompleted, Handling, Starts, Completes
  <2>2. plays' \in Nat /\ (plays' + 1 = plays + 0 \/ plays' = 0)
    BY <1>2, <2>1 DEF PlaysAfterCompletion
  <2> QED
    BY <1>1, <1>2, <2>1, <2>2, CoveredTail DEF PlaysCovered
<1>5. CASE ~HandlePlayStarted /\ ~HandlePlayCompleted
  <2>1. plays' = plays /\ m.type \notin {"PlayStarted", "PlayCompleted"}
    BY <1>5 DEF HandleEvent, Handling, HandleSpeechStarted, HandleSpeechEnded,
       HandleTranscriptionCompleted, HandleHotkeyPressed, HandleSetListening,
       HandleDiscardCurrent, HandleSwitchAgent, control
  <2>2. Starts(m) = 0 /\ Completes(m) = 0
    BY <2>1 DEF Starts, Completes
  <2> QED
    BY <1>1, <1>2, <2>1, <2>2, CoveredTail DEF PlaysCovered
<1> QED
  BY <1>3, <1>4, <1>5

LEMMA HandlersCover ==
  ASSUME TypeOK, PlaysCovered, Controller
  PROVE  PlaysCovered'
<1>1. HandleEvent /\ speeches' = speeches
  BY DEF Controller
<1>2. /\ queue # <<>> /\ Tail(queue) \in Seq(Message) /\ plays' \in Nat
      /\ Covered(Tail(queue), Promised, plays') /\ Promised \in Nat /\ owed \in Nat
  BY <1>1, HandledIsCovered, HelpersOfPlays DEF TypeOK
\* It suffices that a neutral message and a promised start are all that is sent.
<1>3. ASSUME NEW a, NEW b, Consume(a \o b), owed' = owed + Len(a), StartOrNone(a), Neutral(b),
             a \in Seq(Message), b \in Seq(Message)
      PROVE  PlaysCovered'
  <2>1. /\ Tail(queue) \o a \in Seq(Message) /\ Len(a) \in Nat
        /\ Covered(Tail(queue) \o a, Promised + Len(a), plays')
    BY <1>2, <1>3, CoveredStart
  <2>2. Covered((Tail(queue) \o a) \o b, Promised + Len(a), plays')
    <3>1. Promised + Len(a) \in Nat
      BY <1>2, <2>1
    <3> DEFINE q == Tail(queue) \o a
               e == Promised + Len(a)
               p == plays'
    <3>2. q \in Seq(Message) /\ e \in Nat /\ p \in Nat /\ Covered(q, e, p)
      BY <1>2, <2>1, <3>1
    <3> HIDE DEF q, e, p
    <3>3. Covered(q \o b, e, p)
      BY <1>3, <3>2, CoveredNeutral
    <3> QED
      BY <3>3, Zenon DEF q, e, p
  <2>3. queue' = (Tail(queue) \o a) \o b
    <3> DEFINE rest == Tail(queue)
    <3>1. rest \in Seq(Message) /\ queue' = rest \o (a \o b)
      BY <1>2, <1>3 DEF Consume
    <3> HIDE DEF rest
    <3>2. (rest \o a) \o b = rest \o (a \o b)
      BY <1>3, <3>1, ConcatAssociative
    <3> QED
      BY <3>1, <3>2, Zenon DEF rest
  <2>4. Promised' = Promised + Len(a)
    BY <1>1, <1>2, <1>3, <2>1 DEF Promised
  <2> QED
    BY <2>2, <2>3, <2>4 DEF PlaysCovered
<1>4. ASSUME NEW b \in Seq(Message), Neutral(b), Consume(b), owed' = owed
      PROVE  PlaysCovered'
  <2>1. <<>> \in Seq(Message) /\ <<>> \o b = b /\ Len(<<>>) = 0
    BY ConcatEmptySeq
  <2>2. owed' = owed + Len(<<>>)
    BY <1>2, <1>4, <2>1
  <2> QED
    BY <1>3, <1>4, <2>1, <2>2, HelpersOfPlays
<1>5. ASSUME NEW a \in Seq(Message), StartOrNone(a), Consume(a), Owe(a)
      PROVE  PlaysCovered'
  <2>1. <<>> \in Seq(Message) /\ a \o <<>> = a
    BY ConcatEmptySeq
  <2> QED
    BY <1>3, <1>5, <2>1, HelpersOfPlays DEF Owe
<1>6. <<>> \in Seq(Message) /\ Neutral(<<>>)
  BY HelpersOfPlays
<1>7. CASE HandleSpeechStarted \/ HandleSpeechEnded \/ HandlePlayStarted \/ HandleDiscardCurrent
  <2>1. Consume(<<>>) /\ owed' = owed
    BY <1>7 DEF HandleSpeechStarted, HandleSpeechEnded, HandlePlayStarted, HandleDiscardCurrent
  <2> QED
    BY <1>4, <1>6, <2>1
<1>8. CASE HandleTranscriptionCompleted
  <2> DEFINE beep == IF desired = "LISTENING" /\ state = "OFF" THEN StartPlays ELSE <<>>
  <2>1. beep \in Seq(Message) /\ Requeued \in Seq(Message)
          /\ StartOrNone(beep) /\ Neutral(Requeued)
    BY HelperTypes, HelpersOfPlays
  <2>2. CASE DeferTranscription(Head(queue))
    <3>1. Consume(<<>>) /\ owed' = owed
      BY <2>2 DEF DeferTranscription
    <3> QED
      BY <1>4, <1>6, <3>1
  <2>3. CASE ApplyTranscription(Head(queue))
    <3>1. CASE desired = "LISTENING"
      <4>1. Consume(beep \o Requeued) /\ Owe(beep)
        BY <2>3, <3>1 DEF ApplyTranscription
      <4> HIDE DEF beep
      <4> QED
        BY <1>3, <2>1, <4>1 DEF Owe
    <3>2. CASE desired # "LISTENING"
      <4>1. Consume(<<>>) /\ Owe(<<>>)
        BY <2>3, <3>2 DEF ApplyTranscription
      <4> QED
        BY <1>5, <1>6, <4>1, HelpersOfPlays
    <3> QED
      BY <3>1, <3>2
  <2> QED
    BY <1>8, <2>2, <2>3 DEF HandleTranscriptionCompleted
<1>9. CASE HandlePlayCompleted
  <2>1. (Consume(<<>>) \/ Consume(Requeued)) /\ owed' = owed
    BY <1>9 DEF HandlePlayCompleted, FinishPlays, KeepPlaying
  <2> QED
    BY <1>4, <1>6, <2>1, HelperTypes, HelpersOfPlays
<1>10. CASE HandleHotkeyPressed \/ HandleSetListening
  <2>1. (Consume(StartPlays) /\ Owe(StartPlays)) \/ (Consume(<<>>) /\ owed' = owed)
    BY <1>10 DEF HandleHotkeyPressed, HandleSetListening, TurnOn, TurnOffLater, TurnOffNow,
       IgnoreCommand
  <2> QED
    BY <1>4, <1>5, <1>6, <2>1, HelperTypes, HelpersOfPlays
<1>11. CASE HandleSwitchAgent
  <2> DEFINE to == Head(queue).to
             announced == IF to \in registered THEN Announcement(to) ELSE <<>>
  <2>1. CASE registered = {}
    <3>1. Consume(<<>>) /\ owed' = owed
      BY <1>11, <2>1 DEF HandleSwitchAgent
    <3> QED
      BY <1>4, <1>6, <3>1
  <2>2. CASE registered # {}
    <3>1. PICK l \in BOOLEAN : Consume(Flush(l) \o announced)
      BY <1>11, <2>2 DEF HandleSwitchAgent
    <3>2. Owe(announced)
      BY <1>11, <2>2 DEF HandleSwitchAgent
    <3>3. to \in Agents
      BY <1>2, <1>11, HeadCounts, MessageFields DEF HandleSwitchAgent, Handling
    <3>4. announced \in Seq(Message) /\ StartOrNone(announced)
            /\ Flush(l) \in Seq(Message) /\ Neutral(Flush(l))
      BY <1>6, <3>3, HelperTypes, HelpersOfPlays
    <3> HIDE DEF announced
    <3>5. /\ Tail(queue) \o Flush(l) \in Seq(Message)
          /\ Covered(Tail(queue) \o Flush(l), Promised, plays')
      BY <1>2, <3>4, CoveredNeutral
    <3>6. /\ Len(announced) \in Nat
          /\ Covered((Tail(queue) \o Flush(l)) \o announced, Promised + Len(announced), plays')
      BY <1>2, <3>4, <3>5, CoveredStart
    <3>7. queue' = (Tail(queue) \o Flush(l)) \o announced
      <4>1. queue' = Tail(queue) \o (Flush(l) \o announced)
        BY <3>1 DEF Consume
      <4> DEFINE rest == Tail(queue)
                 flush == Flush(l)
      <4>2. rest \in Seq(Message) /\ flush \in Seq(Message)
        BY <1>2, <3>4
      <4> HIDE DEF rest, flush
      <4>3. (rest \o flush) \o announced = rest \o (flush \o announced)
        BY <3>4, <4>2, ConcatAssociative
      <4> QED
        BY <4>1, <4>3, Zenon DEF rest, flush
    <3>8. Promised' = Promised + Len(announced)
      BY <1>1, <1>2, <3>2, <3>6 DEF Promised, Owe
    <3> QED
      BY <3>6, <3>7, <3>8 DEF PlaysCovered
  <2> QED
    BY <2>1, <2>2
<1> QED
  BY <1>1, <1>7, <1>8, <1>9, <1>10, <1>11 DEF HandleEvent

LEMMA ProducersCover ==
  ASSUME TypeOK, PlaysCovered, Next, ~Controller
  PROVE  PlaysCovered'
<1>1. /\ queue \in Seq(Message) /\ plays \in Nat /\ Promised \in Nat
      /\ owed \in Nat /\ speeches \in Nat /\ plays' = plays
  BY HelpersOfPlays, ProducersKeepControl DEF TypeOK
<1>2. Covered(queue, Promised, plays)
  BY DEF PlaysCovered
<1>3. ASSUME NEW msgs, Neutral(msgs), Send(msgs), UNCHANGED <<owed, speeches>>
      PROVE  PlaysCovered'
  <2>1. Covered(queue \o msgs, Promised, plays)
    BY <1>1, <1>2, <1>3, CoveredNeutral
  <2>2. queue' = queue \o msgs /\ Promised' = Promised
    BY <1>3 DEF Send, Promised
  <2> QED
    BY <1>1, <2>1, <2>2 DEF PlaysCovered
<1>4. ASSUME NEW msgs, StartOrNone(msgs), Send(msgs), Promised' = Promised + Len(msgs)
      PROVE  PlaysCovered'
  <2>1. Covered(queue \o msgs, Promised + Len(msgs), plays)
    BY <1>1, <1>2, <1>4, CoveredStart
  <2> QED
    BY <1>1, <1>4, <2>1 DEF PlaysCovered, Send
<1>5. ASSUME UNCHANGED queue, Promised' = Promised
      PROVE  PlaysCovered'
  BY <1>1, <1>2, <1>5 DEF PlaysCovered
<1>6. ASSUME Send(<<Signal("PlayCompleted")>>), Promised' \in Nat, Promised = Promised' + 1
      PROVE  PlaysCovered'
  <2>1. Covered(queue \o <<Signal("PlayCompleted")>>, Promised', plays)
    BY <1>1, <1>2, <1>6, CoveredEnd
  <2> QED
    BY <1>1, <1>6, <2>1 DEF PlaysCovered, Send
<1>7. ASSUME NEW m \in Message, m.type \notin {"PlayStarted", "PlayCompleted"}
      PROVE  Neutral(<<m>>)
  BY <1>7 DEF Neutral, Starts, Completes
<1>8. StartOrNone(<<Signal("PlayStarted")>>) /\ Len(<<Signal("PlayStarted")>>) = 1
  BY DEF StartOrNone
<1>9. CASE VadSpeechStart
  <2>1. Send(<<Signal("SpeechStarted")>>) /\ UNCHANGED <<owed, speeches>>
    BY <1>9 DEF VadSpeechStart
  <2>2. Neutral(<<Signal("SpeechStarted")>>)
    BY <1>7, MessagesBuilt DEF Signal
  <2> QED
    BY <1>3, <2>1, <2>2
<1>10. CASE VadSpeechEnd \/ VadMaxSpeech
  <2>1. PICK l \in BOOLEAN : Send(<<SpeechEnded(heard, l, current, "vad")>>)
    BY <1>10 DEF VadSpeechEnd, VadMaxSpeech, EndUtterance
  <2>2. vad = "speaking" /\ UNCHANGED <<owed, speeches>>
    BY <1>10 DEF VadSpeechEnd, VadMaxSpeech
  <2>3. Neutral(<<SpeechEnded(heard, l, current, "vad")>>)
    BY <2>2, HelpersOfPlays DEF Flush
  <2> QED
    BY <1>3, <2>1, <2>2, <2>3
<1>11. CASE SttTranscribes \/ SttFindsNoText
  <2>1. PICK m \in {Transcribed(Head(jobs)), NoText} : SttCompletes(m)
    BY <1>11 DEF SttTranscribes, SttFindsNoText
  <2>2. jobs # <<>> /\ Send(<<m>>) /\ UNCHANGED <<owed, speeches>>
    BY <2>1 DEF SttCompletes
  <2>3. Head(jobs) \in Job
    BY <2>2, HeadTailProperties DEF TypeOK
  <2>4. m \in Message
    BY <2>1, <2>3, MessagesBuilt
  <2>5. m.type = "TranscriptionCompleted"
    BY <2>1 DEF Transcribed, NoText
  <2> QED
    BY <1>3, <1>7, <2>2, <2>4, <2>5
<1>12. CASE SttHangs \/ WatchdogElapses \/ \E a \in Agents : AgentRegisters(a)
  <2>1. UNCHANGED <<queue, owed, speeches>>
    BY <1>12 DEF SttHangs, WatchdogElapses, AgentRegisters
  <2> QED
    BY <1>5, <2>1 DEF Promised
<1>13. CASE WatchdogRuns
  <2>1. (UNCHANGED queue \/ Send(<<NoText>>)) /\ UNCHANGED <<owed, speeches>>
    BY <1>13 DEF WatchdogRuns, WatchdogMessage
  <2>2. Neutral(<<NoText>>)
    BY <1>7, MessagesBuilt DEF NoText
  <2>3. Promised' = Promised
    BY <2>1 DEF Promised
  <2> QED
    BY <1>3, <1>5, <2>1, <2>2, <2>3
<1>14. CASE PlayAudio
  <2>1. Send(<<Signal("PlayStarted")>>) /\ owed' = owed + 1 /\ UNCHANGED speeches
    BY <1>8, <1>14 DEF PlayAudio, Owe
  <2>2. Promised' = Promised + 1
    BY <1>1, <2>1 DEF Promised
  <2> QED
    BY <1>4, <1>8, <2>1, <2>2
<1>15. CASE PlaybackEnds
  <2>1. Send(<<Signal("PlayCompleted")>>) /\ owed > 0 /\ owed' = owed - 1 /\ UNCHANGED speeches
    BY <1>15 DEF PlaybackEnds
  <2>2. Promised' \in Nat /\ Promised = Promised' + 1
    BY <1>1, <2>1 DEF Promised
  <2> QED
    BY <1>6, <2>1, <2>2
<1>16. CASE SpeechBegins
  <2>1. speeches' = speeches + 1 /\ UNCHANGED owed
    BY <1>16 DEF SpeechBegins
  <2>2. CASE speeches = 0 /\ state # "OFF"
    <3>1. Send(<<Signal("PlayStarted")>>)
      BY <1>16, <2>2 DEF SpeechBegins
    <3>2. Promised' = Promised + 1
      BY <1>1, <2>1, <2>2 DEF Promised
    <3> QED
      BY <1>4, <1>8, <3>1, <3>2
  <2>3. CASE ~(speeches = 0 /\ state # "OFF")
    <3>1. UNCHANGED queue
      BY <1>16, <2>3 DEF SpeechBegins
    <3>2. Promised' = Promised \/ Promised' = Promised + 1
      BY <1>1, <2>1 DEF Promised
    <3>3. Covered(queue, Promised + 1, plays)
      BY <1>1, <1>2, CoveredMore
    <3> QED
      BY <1>1, <1>2, <3>1, <3>2, <3>3 DEF PlaysCovered
  <2> QED
    BY <2>2, <2>3
<1>17. CASE SpeechDone
  <2>1. speeches > 0 /\ speeches' = speeches - 1 /\ UNCHANGED owed
    BY <1>17 DEF SpeechDone
  <2>2. CASE speeches = 1
    <3>1. Send(<<Signal("PlayCompleted")>>)
      BY <1>17, <2>2 DEF SpeechDone
    <3>2. Promised' \in Nat /\ Promised = Promised' + 1
      BY <1>1, <2>1, <2>2 DEF Promised
    <3> QED
      BY <1>6, <3>1, <3>2
  <2>3. CASE speeches # 1
    <3>1. UNCHANGED queue
      BY <1>17, <2>3 DEF SpeechDone
    <3>2. Promised' = Promised
      BY <1>1, <2>1, <2>3 DEF Promised
    <3> QED
      BY <1>5, <3>1, <3>2
  <2> QED
    BY <2>2, <2>3
<1>18. CASE UserCommands
  <2>1. PICK c \in Commands : Send(<<c>>)
    BY <1>18 DEF UserCommands
  <2>2. UNCHANGED <<owed, speeches>>
    BY <1>18 DEF UserCommands
  <2>3. c \in Message /\ c.type \notin {"PlayStarted", "PlayCompleted"}
    BY DEF Message, CommandMessage
  <2> QED
    BY <1>3, <1>7, <2>1, <2>2, <2>3
<1>19. CASE \E a \in Agents : AgentUnregisters(a)
  <2>1. UNCHANGED speeches
          /\ \/ \E b \in registered : Send(Announcement(b)) /\ Owe(Announcement(b))
             \/ UNCHANGED <<queue, owed>>
    BY <1>19 DEF AgentUnregisters
  <2>2. ASSUME NEW b \in registered, Send(Announcement(b)), Owe(Announcement(b))
        PROVE  PlaysCovered'
    <3>1. StartOrNone(Announcement(b))
      BY HelpersOfPlays
    <3>2. Len(Announcement(b)) \in Nat
      BY <1>1, <1>2, <3>1, CoveredStart
    <3>3. Promised' = Promised + Len(Announcement(b))
      BY <1>1, <2>1, <2>2, <3>2 DEF Promised, Owe
    <3> QED
      BY <1>4, <2>2, <3>1, <3>3
  <2>3. CASE UNCHANGED <<queue, owed>>
    <3>1. Promised' = Promised
      BY <2>1, <2>3 DEF Promised
    <3> QED
      BY <1>5, <2>3, <3>1
  <2> QED
    BY <2>1, <2>2, <2>3
<1> QED
  BY <1>9, <1>10, <1>11, <1>12, <1>13, <1>14, <1>15, <1>16, <1>17, <1>18, <1>19 DEF Next

LEMMA InitIsCovered == Init => PlaysCovered
<1> SUFFICES ASSUME Init
             PROVE  PlaysCovered
  OBVIOUS
<1>1. <<>> \in Seq(Message) /\ Covered(<<>>, 0, 0)
  <2> DEFINE b == [i \in 1..1 |-> 0]
  <2>1. b \in [1..1 -> Nat] /\ b[1] = 0 /\ Len(<<>>) = 0
    OBVIOUS
  <2>2. /\ HowMany(<<>>, OfType("PlayStarted")) = 0
        /\ HowMany(<<>>, OfType("PlayCompleted")) = 0
    BY NoneCount
  <2> HIDE DEF b
  <2>3. IsCourse(b, <<>>, 0, 0)
    BY <2>1, <2>2 DEF IsCourse
  <2> QED
    BY <2>3 DEF Covered
<1>2. TypeOK /\ plays = 0 /\ speeches = 0
  BY InitTypes DEF Init
<1>3. PICK msgs : StartOrNone(msgs) /\ queue = msgs /\ owed = Len(msgs)
  <2>1. CASE queue = <<>> /\ owed = 0
    BY <2>1, Len(<<>>) = 0 DEF StartOrNone
  <2>2. CASE queue = StartPlays /\ owed = Len(StartPlays)
    BY <1>2, <2>2, HelpersOfPlays
  <2> QED
    BY <2>1, <2>2 DEF Init
<1>4. Covered(<<>> \o msgs, 0 + Len(msgs), 0)
  BY <1>1, <1>3, CoveredStart
<1>5. <<>> \o msgs = msgs
  BY <1>2, <1>3, ConcatEmptySeq DEF TypeOK
<1>6. Promised = 0 + Len(msgs)
  BY <1>2, <1>3 DEF TypeOK, Promised
<1> QED
  BY <1>2, <1>3, <1>4, <1>5, <1>6 DEF PlaysCovered

\* PlaysCovered holds in every reachable state.
THEOREM CompletionsSuffice == Spec => []PlaysCovered
<1>1. TypeOK /\ PlaysCovered /\ [Next]_vars => PlaysCovered'
  <2> SUFFICES ASSUME TypeOK, PlaysCovered, [Next]_vars
               PROVE  PlaysCovered'
    OBVIOUS
  <2>1. CASE UNCHANGED vars
    BY <2>1 DEF vars, controllerVars, control, PlaysCovered, Promised
  <2> QED
    BY <2>1, HandlersCover, ProducersCover
<1> QED
  BY <1>1, InitIsCovered, TypeCorrect, PTL DEF Spec

\* PLAYING is left in the end because the plays counted or queued never exceed the
\* completions queued or still to be sent, in every order of any number of playbacks,
\* speech requests, switches of agents and commands (controller.py, the play counter).
THEOREM PlayingIsNoTrap == Spec => []PlayingHasCompletion
<1>1. IInv /\ PlaysCovered => PlayingHasCompletion
  <2> SUFFICES ASSUME IInv, PlaysCovered
               PROVE  PlayingHasCompletion
    OBVIOUS
  <2>1. TypeOK /\ (state = "PLAYING" => plays > 0)
    BY DEF IInv, PlaysAccounted
  <2>2. PICK b : IsCourse(b, queue, Promised, plays)
    BY DEF PlaysCovered, Covered
  <2>3. queue \in Seq(Message) /\ plays \in Nat /\ Promised \in Nat
    BY <2>1, HelpersOfPlays DEF TypeOK
  <2>4. \A t : Count(t) = HowMany(queue, OfType(t)) /\ Count(t) \in Nat
    <3> TAKE t
    <3>1. \A i \in DOMAIN queue : queue[i] \in Message
      BY <2>3
    <3>2. {i \in DOMAIN queue : queue[i].type = t} = Positions(queue, OfType(t))
      BY <3>1, Zenon DEF Positions, OfType
    <3>3. Count(t) = HowMany(queue, OfType(t))
      BY <3>2, Zenon DEF Count, HowMany
    <3> QED
      BY <2>3, <3>3, PositionsFinite
  <2>5. PICK d \in Nat : /\ plays <= d
                         /\ d + Count("PlayStarted") = Promised + Count("PlayCompleted")
    <3>1. 1 \in 1..(Len(queue) + 1)
      BY <2>3, LenProperties
    <3>2. b[1] \in Nat
      BY <2>2, <3>1 DEF IsCourse
    <3>3. /\ plays <= b[1]
          /\ b[1] + Count("PlayStarted") = Promised + Count("PlayCompleted")
      BY <2>2, <2>4, Zenon DEF IsCourse
    <3> QED
      BY <3>2, <3>3
  <2>6. Count("PlayStarted") \in Nat /\ Count("PlayCompleted") \in Nat
    BY <2>4
  <2>7. plays + Count("PlayStarted") <= Promised + Count("PlayCompleted")
    BY <2>3, <2>5, <2>6
  <2> QED
    BY <2>1, <2>7 DEF PlayingHasCompletion, Promised
<1> QED
  BY <1>1, Inductive, CompletionsSuffice, PTL
=============================================================================
