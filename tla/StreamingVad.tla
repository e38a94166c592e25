----------------------------- MODULE StreamingVad -----------------------------
(***************************************************************************)
(* The voice activity detector (audio/vad.py, StreamingVAD): how a stream  *)
(* of 32 ms chunks is cut into utterances.  Each call runs under the audio *)
(* manager's _vad_lock.  A chunk is its number in the stream, durations    *)
(* are counted in chunks, and of Silero's probability only its place       *)
(* against the two thresholds is kept.  The realtime partials and the      *)
(* reset of the network after minutes of silence are left out.             *)
(***************************************************************************)
EXTENDS Integers, Sequences

CONSTANTS
  MinSpeech,    \* chunks of min_speech_ms
  MinSilence,   \* chunks of min_silence_ms
  MaxSpeech,    \* chunks of max_speech_seconds
  PreBuffer     \* _pre_buffer_chunks

ASSUME VadAssumption ==
  /\ MinSpeech \in Nat \ {0}
  /\ MinSilence \in Nat \ {0}
  /\ MaxSpeech \in Nat \ {0}
  /\ PreBuffer \in Nat \ {0}

VARIABLES
  now,          \* chunks processed so far
  speaking,     \* _is_speaking
  buffer,       \* _audio_buffer
  pre,          \* _pre_buffer
  speechRun,    \* _speech_samples
  silenceRun,   \* _silence_samples
  total,        \* _total_speech_samples
  mark,         \* history: the last chunk that was handed over
  cut           \* history: the utterance in progress has been cut already

runs == <<speechRun, silenceRun, total>>
vadVars == <<now, speaking, buffer, pre, runs, mark, cut>>

Levels == {"speech", "between", "silence"}

VadInit ==
  /\ now = 0 /\ mark = 0
  /\ speaking = FALSE /\ cut = FALSE
  /\ buffer = <<>> /\ pre = <<>>
  /\ speechRun = 0 /\ silenceRun = 0 /\ total = 0

-----------------------------------------------------------------------------
PrePushed ==
  LET longer == Append(pre, now + 1)
  IN  IF Len(longer) > PreBuffer THEN Tail(longer) ELSE longer

\* process_chunk, silent so far: the pre-buffer moves on, speech has to last.
Listens(level) ==
  /\ ~speaking
  /\ level # "speech" \/ speechRun + 1 < MinSpeech
  /\ now' = now + 1
  /\ pre' = PrePushed
  /\ speechRun' = IF level = "speech" THEN speechRun + 1 ELSE 0
  /\ UNCHANGED <<speaking, buffer, silenceRun, total, mark, cut>>

\* on_speech_start
StartsWithHistory(level) ==
  /\ ~speaking
  /\ level = "speech" /\ speechRun + 1 >= MinSpeech
  /\ now' = now + 1
  /\ speaking' = TRUE /\ cut' = FALSE
  /\ buffer' = PrePushed /\ pre' = PrePushed
  /\ speechRun' = 0 /\ silenceRun' = 0
  /\ UNCHANGED <<total, mark>>
Starts(level) ==
  /\ ~speaking
  /\ level = "speech" /\ speechRun + 1 >= MinSpeech
  /\ now' = now + 1
  /\ speaking' = TRUE /\ cut' = FALSE
  /\ buffer' = PrePushed /\ pre' = <<>>
  /\ speechRun' = 0 /\ silenceRun' = 0
  /\ UNCHANGED <<total, mark>>

Ends(level) == level = "silence" /\ silenceRun + 1 >= MinSilence

\* Speaking: one more chunk.
Records(level) ==
  /\ speaking
  /\ total + 1 < MaxSpeech /\ ~Ends(level)
  /\ now' = now + 1
  /\ buffer' = Append(buffer, now + 1)
  /\ total' = total + 1
  /\ silenceRun' = IF level = "silence" THEN silenceRun + 1 ELSE 0
  /\ UNCHANGED <<speaking, pre, speechRun, mark, cut>>

\* The longest utterance: what there is is handed over, whatever the level, and
\* silence is not counted for this chunk.
Cuts ==
  /\ speaking
  /\ total + 1 >= MaxSpeech
  /\ now' = now + 1
  /\ buffer' = <<>>
  /\ total' = 0
  /\ mark' = now + 1 /\ cut' = TRUE
  /\ UNCHANGED <<speaking, pre, speechRun, silenceRun>>

\* on_speech_end
EndsSpeech(level) ==
  /\ speaking
  /\ total + 1 < MaxSpeech /\ Ends(level)
  /\ now' = now + 1
  /\ speaking' = FALSE
  /\ buffer' = <<>>
  /\ silenceRun' = 0 /\ total' = 0
  /\ mark' = now + 1
  /\ UNCHANGED <<pre, speechRun, cut>>

\* flush: right after a cut there is nothing to hand over and the speech goes on.
\* total keeps what the utterance had, at the cost of the next one.
Flushes ==
  /\ speaking /\ buffer # <<>>
  /\ speaking' = FALSE
  /\ buffer' = <<>>
  /\ mark' = now
  /\ UNCHANGED <<now, pre, runs, cut>>

\* reset: what was said is forgotten.
Resets ==
  /\ speaking' = FALSE
  /\ buffer' = <<>> /\ pre' = <<>>
  /\ speechRun' = 0 /\ silenceRun' = 0 /\ total' = 0
  /\ UNCHANGED <<now, mark, cut>>

Hears(level) == Listens(level) \/ Starts(level) \/ Records(level)

\* The segment that a step hands over.
Handed == Append(buffer, now + 1)

VadNext ==
  \/ \E level \in Levels : Hears(level) \/ EndsSpeech(level)
  \/ Cuts \/ Flushes \/ Resets

VadSpec == VadInit /\ [][VadNext]_vadVars

-----------------------------------------------------------------------------
\* The last chunks, in order and without a gap.
UpToNow(s) == \A i \in 1..Len(s) : s[i] = now - Len(s) + i

\* Every segment handed over is one piece of the stream that no other segment
\* has a part of; a cut loses nothing; nothing is kept of a finished utterance;
\* and no segment is longer than the longest speech and the pre-buffer.
SegmentsAreSound ==
  /\ UpToNow(buffer) /\ UpToNow(pre)
  /\ now - Len(buffer) >= mark /\ now - Len(pre) >= mark
  /\ speaking /\ cut => now - Len(buffer) = mark
  /\ ~speaking => buffer = <<>>
  /\ Len(buffer) < PreBuffer + MaxSpeech

\* vad.py: "Max duration before forced send (default 60s)", behind the chunk that
\* began the speech.
CutsAreLong == [][cut' /\ ~cut => Len(Handed) > MaxSpeech]_vadVars
=============================================================================
