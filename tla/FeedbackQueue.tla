---------------------------- MODULE FeedbackQueue ----------------------------
(***************************************************************************)
(* The output of feedback sounds (audio/beep.py): one worker thread plays  *)
(* what every other thread puts in its queue.  A sound may pause the       *)
(* microphone, a loop puts its next one-second chunk in the queue from the *)
(* worker when the last one is over.  What the controller is told about    *)
(* plays goes through its event queue; of what it does with it only the    *)
(* count of the plays is kept here.                                        *)
(***************************************************************************)
EXTENDS Naturals, SequencesExt

VARIABLES
  off,        \* the controller's state is OFF
  mail,       \* PlayStarted and PlayCompleted in the controller's queue
  counted,    \* _current_play_id: the microphone is paused while it is not 0
  sounds,     \* _play_queue
  sounding,   \* what the worker is at: Silence, an item, or Again
  looping     \* _loop_active

queueVars == <<off, mail, counted, sounds, sounding, looping>>

Started == "PlayStarted"
Completed == "PlayCompleted"
Silence == "silence"
Sound == "sound"       \* no on_complete
Pausing == "pausing"   \* on_complete tells the controller
Chunk == "chunk"       \* on_complete is _enqueue_loop_next
Again == "again"       \* ... which has seen _loop_active set

QueueTypeOK ==
  /\ off \in BOOLEAN
  /\ mail \in Seq({Started, Completed})
  /\ counted \in Nat
  /\ sounds \in Seq({Sound, Pausing, Chunk})
  /\ sounding \in {Silence, Sound, Pausing, Chunk, Again}
  /\ looping \in BOOLEAN

QueueInit ==
  /\ off \in BOOLEAN
  /\ mail = <<>>
  /\ counted = 0
  /\ sounds = <<>>
  /\ sounding = Silence
  /\ looping = FALSE

Tell(what) == mail' = Append(mail, what)

\* The controller's handlers of the two events, as far as the count goes.
ControllerHandles ==
  /\ mail # <<>>
  /\ mail' = Tail(mail)
  /\ counted' = IF Head(mail) = Started THEN counted + 1
                ELSE IF counted > 0 THEN counted - 1 ELSE 0
  /\ UNCHANGED <<off, sounds, sounding, looping>>

Toggles ==
  /\ off' = ~off
  /\ UNCHANGED <<mail, counted, sounds, sounding, looping>>

\* play_audio of a file, with pause_mic or without; OFF pauses nothing.
PlayFile(pause) ==
  /\ IF pause /\ ~off
       THEN Tell(Started) /\ sounds' = Append(sounds, Pausing)
       ELSE sounds' = Append(sounds, Sound) /\ UNCHANGED mail
  /\ UNCHANGED <<off, counted, sounding, looping>>

\* The worker.  A pausing sound ends, or its 10 s deadline stops it.
TakesSound ==
  /\ sounding = Silence
  /\ sounds # <<>>
  /\ sounding' = Head(sounds)
  /\ sounds' = Tail(sounds)
  /\ UNCHANGED <<off, mail, counted, looping>>

SoundOver ==
  /\ sounding \in {Sound, Pausing}
  /\ sounding' = Silence
  /\ IF sounding = Pausing THEN Tell(Completed) ELSE UNCHANGED mail
  /\ UNCHANGED <<off, counted, sounds, looping>>

ChunkOverAlways ==
  /\ sounding = Chunk
  /\ sounding' = Again
  /\ UNCHANGED <<off, mail, counted, sounds, looping>>
ChunkOver ==
  /\ sounding = Chunk
  /\ sounding' = IF looping THEN Again ELSE Silence
  /\ UNCHANGED <<off, mail, counted, sounds, looping>>

NextChunk ==
  /\ sounding = Again
  /\ sounding' = Silence
  /\ sounds' = Append(sounds, Chunk)
  /\ UNCHANGED <<off, mail, counted, looping>>

\* start_loop and stop_loop, called by the controller when TRANSCRIBING begins
\* and ends.  A loop that starts before the chunk of the last one is over makes
\* a second chain of chunks.
StartLoop ==
  /\ ~looping
  /\ looping' = TRUE
  /\ sounds' = Append(sounds, Chunk)
  /\ UNCHANGED <<off, mail, counted, sounding>>

StopLoop ==
  /\ looping
  /\ looping' = FALSE
  /\ UNCHANGED <<off, mail, counted, sounds, sounding>>

OutputWorker == TakesSound \/ SoundOver \/ ChunkOver \/ NextChunk

-----------------------------------------------------------------------------
\* A loop that is not started again falls silent, although the worker looks at
\* _loop_active before it puts a chunk and two chains may run: nothing the worker
\* has checked, and no chunk in the queue, feeds the loop for ever.
LoopDrains ==
  ~looping ~> looping \/ (sounding \notin {Chunk, Again} /\ Chunk \notin ToSet(sounds))
=============================================================================
