--------------------------- MODULE SpeechInputProofs ---------------------------
(***************************************************************************)
(* Proofs about the way of speech into the engine, for every length of     *)
(* speech, silence and pre-buffer and every number of chunks, workers and  *)
(* utterances: the segments that the detector hands over are sound, and a  *)
(* worker left behind is quiet.                                            *)
(***************************************************************************)
EXTENDS SpeechInput, TLAPS

VadTypes ==
  /\ now \in Nat /\ mark \in Nat
  /\ speaking \in BOOLEAN /\ cut \in BOOLEAN
  /\ buffer \in Seq(Nat) /\ pre \in Seq(Nat)
  /\ speechRun \in Nat /\ silenceRun \in Nat /\ total \in Nat

\* What SegmentsAreSound rests on: the pre-buffer is empty while someone speaks,
\* and a segment outgrows the pre-buffer only by what total has counted.
Lengths ==
  /\ speaking => pre = <<>>
  /\ Len(pre) <= PreBuffer
  /\ total < MaxSpeech
  /\ Len(buffer) <= PreBuffer + total

VadInv == VadTypes /\ Lengths /\ SegmentsAreSound

\* A sequence of the last chunks before n.
Ending(s, n) == \A i \in 1..Len(s) : s[i] = n - Len(s) + i

-----------------------------------------------------------------------------
LEMMA EmptyEnds ==
  ASSUME NEW n \in Nat
  PROVE  /\ <<>> \in Seq(Nat)
         /\ Len(<<>>) = 0
         /\ Ending(<<>>, n)
  BY DEF Ending

\* The next chunk behind the last ones.
LEMMA AppendEnds ==
  ASSUME NEW s \in Seq(Nat), NEW n \in Nat, Ending(s, n)
  PROVE  /\ Append(s, n + 1) \in Seq(Nat)
         /\ Len(Append(s, n + 1)) = Len(s) + 1
         /\ Ending(Append(s, n + 1), n + 1)
<1> DEFINE t == Append(s, n + 1)
<1>1. t \in Seq(Nat) /\ Len(t) = Len(s) + 1
  OBVIOUS
<1>2. ASSUME NEW i \in 1..Len(t) PROVE t[i] = n + 1 - Len(t) + i
  <2>1. CASE i \in 1..Len(s)
    <3>1. t[i] = s[i]
      BY <2>1
    <3>2. s[i] = n - Len(s) + i
      BY <2>1 DEF Ending
    <3> QED
      BY <1>1, <2>1, <3>1, <3>2
  <2>2. CASE i = Len(s) + 1
    BY <1>1, <2>2
  <2> QED
    BY <1>1, <2>1, <2>2
<1> QED
  BY <1>1, <1>2 DEF Ending

\* The oldest of them dropped.
LEMMA TailEnds ==
  ASSUME NEW s \in Seq(Nat), NEW n \in Nat, Ending(s, n), Len(s) > 0
  PROVE  /\ Tail(s) \in Seq(Nat)
         /\ Len(Tail(s)) = Len(s) - 1
         /\ Ending(Tail(s), n)
<1>0. s # <<>>
  OBVIOUS
<1>1. Tail(s) \in Seq(Nat) /\ Len(Tail(s)) = Len(s) - 1
  BY <1>0
<1>2. ASSUME NEW i \in 1..Len(Tail(s)) PROVE Tail(s)[i] = n - Len(Tail(s)) + i
  <2>1. Tail(s)[i] = s[i + 1] /\ i + 1 \in 1..Len(s)
    BY <1>0, <1>1
  <2>2. s[i + 1] = n - Len(s) + (i + 1)
    BY <2>1 DEF Ending
  <2>3. Len(s) \in Nat /\ i \in Nat
    BY <1>1
  <2> QED
    BY <1>1, <2>1, <2>2, <2>3
<1> QED
  BY <1>1, <1>2 DEF Ending

\* The pre-buffer with the chunk of this step.
LEMMA PrePushedEnds ==
  ASSUME VadInv
  PROVE  /\ PrePushed \in Seq(Nat)
         /\ Len(PrePushed) <= PreBuffer
         /\ Ending(PrePushed, now + 1)
         /\ now + 1 - Len(PrePushed) >= mark
<1> DEFINE longer == Append(pre, now + 1)
<1>1. now \in Nat /\ mark \in Nat /\ pre \in Seq(Nat) /\ PreBuffer \in Nat \ {0}
  BY VadAssumption DEF VadInv, VadTypes
<1>2. Ending(pre, now) /\ now - Len(pre) >= mark /\ Len(pre) <= PreBuffer
  BY DEF VadInv, Lengths, SegmentsAreSound, UpToNow, Ending
<1>3. longer \in Seq(Nat) /\ Len(longer) = Len(pre) + 1 /\ Ending(longer, now + 1)
  BY <1>1, <1>2, AppendEnds
<1>4. CASE Len(longer) > PreBuffer
  <2>1. PrePushed = Tail(longer)
    BY <1>4 DEF PrePushed
  <2>2. Len(longer) > 0 /\ now + 1 \in Nat
    BY <1>1, <1>3
  <2>3. Tail(longer) \in Seq(Nat) /\ Len(Tail(longer)) = Len(longer) - 1 /\ Ending(Tail(longer), now + 1)
    BY <1>3, <2>2, TailEnds
  <2>4. Len(Tail(longer)) = Len(pre)
    BY <1>1, <1>3, <2>3
  <2> HIDE DEF longer
  <2> QED
    BY <1>1, <1>2, <2>1, <2>3, <2>4
<1>5. CASE ~(Len(longer) > PreBuffer)
  <2>1. PrePushed = longer
    BY <1>5 DEF PrePushed
  <2> HIDE DEF longer
  <2> QED
    BY <1>1, <1>2, <1>3, <1>5, <2>1
<1> QED
  BY <1>4, <1>5

-----------------------------------------------------------------------------
LEMMA VadInitially == VadInit => VadInv
<1> SUFFICES ASSUME VadInit PROVE VadInv
  OBVIOUS
<1>1. now = 0 /\ mark = 0 /\ speaking = FALSE /\ cut = FALSE /\ buffer = <<>> /\ pre = <<>>
  BY DEF VadInit
<1>2. speechRun = 0 /\ silenceRun = 0 /\ total = 0
  BY DEF VadInit
<1>3. <<>> \in Seq(Nat) /\ Len(<<>>) = 0 /\ 0 \in Nat
  OBVIOUS
<1>4. VadTypes
  BY <1>1, <1>2, <1>3 DEF VadTypes
<1>5. Lengths
  BY <1>1, <1>2, <1>3, VadAssumption DEF Lengths
<1>6. SegmentsAreSound
  BY <1>1, <1>3, VadAssumption DEF SegmentsAreSound, UpToNow
<1> QED
  BY <1>4, <1>5, <1>6 DEF VadInv

LEMMA ListensKeeps ==
  ASSUME VadInv, NEW level \in Levels, Listens(level)
  PROVE  VadInv'
<1>1. now' = now + 1 /\ pre' = PrePushed /\ ~speaking
  BY DEF Listens
<1>2. UNCHANGED <<speaking, buffer, silenceRun, total, mark, cut>>
  BY DEF Listens
<1>3. VadTypes /\ Lengths /\ SegmentsAreSound
  BY DEF VadInv
<1>4. buffer = <<>> /\ Len(buffer) = 0
  BY <1>1, <1>3 DEF SegmentsAreSound
<1>5. /\ PrePushed \in Seq(Nat) /\ Len(PrePushed) <= PreBuffer
      /\ Ending(PrePushed, now + 1) /\ now + 1 - Len(PrePushed) >= mark
  BY PrePushedEnds
<1>6. speechRun' \in Nat
  <2>1. speechRun' = speechRun + 1 \/ speechRun' = 0
    BY DEF Listens
  <2> QED
    BY <1>3, <2>1 DEF VadTypes
<1>7. VadTypes'
  BY <1>1, <1>2, <1>3, <1>5, <1>6 DEF VadTypes
<1>8. Lengths'
  BY <1>1, <1>2, <1>3, <1>5 DEF Lengths
<1>9. SegmentsAreSound'
  <2>1. UpToNow(pre)' /\ now' - Len(pre') >= mark'
    <3>1. mark' = mark
      BY <1>2
    <3>2. Ending(pre', now')
      BY <1>1, <1>5
    <3>3. now' - Len(pre') >= mark'
      <4>0. now \in Nat /\ Len(PrePushed) \in Nat
        BY <1>3, <1>5 DEF VadTypes
      <4>1. now' - Len(pre') = now + 1 - Len(PrePushed)
        BY <1>1, <4>0
      <4> QED
        BY <1>5, <3>1, <4>1
    <3> QED
      BY <3>2, <3>3 DEF UpToNow, Ending
  <2>2. UpToNow(buffer)' /\ now' - Len(buffer') >= mark'
    BY <1>1, <1>2, <1>3, <1>4 DEF UpToNow, VadTypes, SegmentsAreSound
  <2> QED
    BY <1>1, <1>2, <1>3, <1>4, <2>1, <2>2 DEF SegmentsAreSound
<1> QED
  BY <1>7, <1>8, <1>9 DEF VadInv

LEMMA StartsKeeps ==
  ASSUME VadInv, NEW level \in Levels, Starts(level)
  PROVE  VadInv'
<1>1. /\ now' = now + 1 /\ speaking' = TRUE /\ cut' = FALSE
      /\ buffer' = PrePushed /\ pre' = <<>>
      /\ speechRun' = 0 /\ silenceRun' = 0 /\ total' = total /\ mark' = mark
  BY DEF Starts
<1>2. VadTypes /\ Lengths
  BY DEF VadInv
<1>3. /\ PrePushed \in Seq(Nat) /\ Len(PrePushed) <= PreBuffer
      /\ Ending(PrePushed, now + 1) /\ now + 1 - Len(PrePushed) >= mark
  BY PrePushedEnds
<1>4. /\ now \in Nat /\ mark \in Nat /\ total \in Nat /\ total < MaxSpeech
      /\ PreBuffer \in Nat \ {0} /\ MaxSpeech \in Nat \ {0} /\ Len(PrePushed) \in Nat
  BY <1>2, <1>3, VadAssumption DEF VadTypes, Lengths
<1>5. <<>> \in Seq(Nat) /\ Len(<<>>) = 0 /\ 0 \in Nat
  OBVIOUS
<1>6. VadTypes'
  <2>1. now' \in Nat /\ mark' \in Nat /\ total' \in Nat
    BY <1>1, <1>4
  <2>2. speechRun' \in Nat /\ silenceRun' \in Nat
    BY <1>1, <1>5
  <2>3. buffer' \in Seq(Nat) /\ pre' \in Seq(Nat)
    BY <1>1, <1>3, <1>5
  <2> QED
    BY <1>1, <2>1, <2>2, <2>3 DEF VadTypes
<1>7. Lengths'
  BY <1>1, <1>3, <1>4, <1>5 DEF Lengths
<1>8. SegmentsAreSound'
  <2>1. UpToNow(buffer)' /\ now' - Len(buffer') >= mark'
    <3>2. Ending(buffer', now')
      BY <1>1, <1>3
    <3>3. now' - Len(buffer') >= mark'
      <4>1. now' - Len(buffer') = now + 1 - Len(PrePushed)
        BY <1>1, <1>4
      <4> QED
        BY <1>1, <1>3, <4>1
    <3> QED
      BY <3>2, <3>3 DEF UpToNow, Ending
  <2>2. UpToNow(pre)' /\ now' - Len(pre') >= mark'
    <3>1. now + 1 - 0 >= mark
      BY <1>3, <1>4
    <3> QED
      BY <1>1, <1>5, <3>1 DEF UpToNow
  <2>3. Len(buffer') < PreBuffer + MaxSpeech
    BY <1>1, <1>3, <1>4
  <2> QED
    BY <1>1, <2>1, <2>2, <2>3 DEF SegmentsAreSound
<1> QED
  BY <1>6, <1>7, <1>8 DEF VadInv

LEMMA RecordsKeeps ==
  ASSUME VadInv, NEW level \in Levels, Records(level)
  PROVE  VadInv'
<1>1. /\ speaking /\ total + 1 < MaxSpeech
      /\ now' = now + 1 /\ buffer' = Append(buffer, now + 1) /\ total' = total + 1
      /\ speaking' = speaking /\ pre' = pre /\ speechRun' = speechRun
      /\ mark' = mark /\ cut' = cut
  BY DEF Records
<1>2. VadTypes /\ Lengths /\ SegmentsAreSound
  BY DEF VadInv
<1>3. /\ now \in Nat /\ mark \in Nat /\ total \in Nat /\ buffer \in Seq(Nat) /\ Len(buffer) \in Nat
      /\ PreBuffer \in Nat \ {0} /\ MaxSpeech \in Nat \ {0}
  BY <1>2, VadAssumption DEF VadTypes
<1>4. Ending(buffer, now) /\ now - Len(buffer) >= mark /\ Len(buffer) <= PreBuffer + total
  BY <1>2 DEF SegmentsAreSound, UpToNow, Ending, Lengths
<1>5. buffer' \in Seq(Nat) /\ Len(buffer') = Len(buffer) + 1 /\ Ending(buffer', now + 1)
  BY <1>1, <1>3, <1>4, AppendEnds
<1>6. pre = <<>> /\ Len(pre) = 0
  BY <1>1, <1>2 DEF Lengths
<1>7. silenceRun' \in Nat
  <2>1. silenceRun' = silenceRun + 1 \/ silenceRun' = 0
    BY DEF Records
  <2> QED
    BY <1>2, <2>1 DEF VadTypes
<1>8. VadTypes'
  BY <1>1, <1>2, <1>3, <1>5, <1>7 DEF VadTypes
<1>9. Lengths'
  <2>1. Len(buffer') <= PreBuffer + total'
    BY <1>1, <1>3, <1>4, <1>5
  <2> QED
    BY <1>1, <1>2, <2>1 DEF Lengths
<1>10. SegmentsAreSound'
  <2>1. now' - Len(buffer') = now - Len(buffer)
    BY <1>1, <1>3, <1>5
  <2>2. UpToNow(buffer)' /\ now' - Len(buffer') >= mark'
    BY <1>1, <1>4, <1>5, <2>1 DEF UpToNow, Ending
  <2>3. UpToNow(pre)' /\ now' - Len(pre') >= mark'
    BY <1>1, <1>3, <1>4, <1>6 DEF UpToNow
  <2>4. speaking' /\ cut' => now' - Len(buffer') = mark'
    BY <1>1, <1>2, <2>1 DEF SegmentsAreSound
  <2>5. Len(buffer') < PreBuffer + MaxSpeech
    BY <1>1, <1>3, <1>4, <1>5
  <2> QED
    BY <1>1, <2>2, <2>3, <2>4, <2>5 DEF SegmentsAreSound
<1> QED
  BY <1>8, <1>9, <1>10 DEF VadInv

\* A hand-over leaves nothing behind: the cut, the end of speech and the flush
\* all empty the buffer and mark the last chunk.
LEMMA HandOverKeeps ==
  ASSUME VadInv,
         buffer' = <<>>, pre' = pre, pre = <<>>, mark' = now', now' \in Nat,
         speaking' \in BOOLEAN, cut' \in BOOLEAN,
         speechRun' \in Nat, silenceRun' \in Nat, total' \in Nat, total' < MaxSpeech
  PROVE  VadInv'
<1>1. <<>> \in Seq(Nat) /\ Len(<<>>) = 0
  OBVIOUS
<1>2. PreBuffer \in Nat /\ PreBuffer > 0 /\ MaxSpeech \in Nat /\ MaxSpeech > 0
  BY VadAssumption DEF VadAssumption
<1>3. pre' = <<>> /\ Len(pre') = 0 /\ Len(buffer') = 0
  BY <1>1
<1>4. VadTypes'
  BY <1>1, <1>3 DEF VadTypes
<1>5. Lengths'
  <2>1. \A t \in Nat : 0 <= PreBuffer /\ 0 <= PreBuffer + t
    BY <1>2
  <2> QED
    BY <1>3, <2>1 DEF Lengths
<1>6. SegmentsAreSound'
  <2>1. \A n \in Nat : n - 0 = n /\ n - 0 >= n
    OBVIOUS
  <2>0. 0 < PreBuffer + MaxSpeech
    BY <1>2
  <2>2. UpToNow(buffer)' /\ UpToNow(pre)'
    BY <1>3 DEF UpToNow
  <2> QED
    BY <1>3, <2>0, <2>1, <2>2 DEF SegmentsAreSound
<1> QED
  BY <1>4, <1>5, <1>6 DEF VadInv

LEMMA CutsKeeps ==
  ASSUME VadInv, Cuts
  PROVE  VadInv'
<1>1. VadTypes /\ Lengths
  BY DEF VadInv
<1>2. /\ speaking /\ now' = now + 1 /\ buffer' = <<>> /\ total' = 0
      /\ mark' = now + 1 /\ cut' = TRUE /\ speaking' = speaking /\ pre' = pre
      /\ speechRun' = speechRun /\ silenceRun' = silenceRun
  BY DEF Cuts
<1>3. pre = <<>>
  BY <1>1, <1>2 DEF Lengths
<1>4. now' \in Nat /\ 0 < MaxSpeech
  BY <1>1, <1>2, VadAssumption DEF VadTypes
<1> QED
  BY <1>1, <1>2, <1>3, <1>4, HandOverKeeps DEF VadTypes

LEMMA EndsSpeechKeeps ==
  ASSUME VadInv, NEW level \in Levels, EndsSpeech(level)
  PROVE  VadInv'
<1>1. VadTypes /\ Lengths
  BY DEF VadInv
<1>2. /\ speaking /\ now' = now + 1 /\ buffer' = <<>> /\ total' = 0
      /\ mark' = now + 1 /\ cut' = cut /\ speaking' = FALSE /\ pre' = pre
      /\ speechRun' = speechRun /\ silenceRun' = 0
  BY DEF EndsSpeech
<1>3. pre = <<>>
  BY <1>1, <1>2 DEF Lengths
<1>4. now' \in Nat /\ 0 < MaxSpeech
  BY <1>1, <1>2, VadAssumption DEF VadTypes
<1> QED
  BY <1>1, <1>2, <1>3, <1>4, HandOverKeeps DEF VadTypes

LEMMA FlushesKeeps ==
  ASSUME VadInv, Flushes
  PROVE  VadInv'
<1>1. VadTypes /\ Lengths
  BY DEF VadInv
<1>2. /\ speaking /\ buffer' = <<>> /\ mark' = now /\ speaking' = FALSE
      /\ UNCHANGED <<now, pre, runs, cut>>
  BY DEF Flushes
<1>3. pre = <<>> /\ total < MaxSpeech
  BY <1>1, <1>2 DEF Lengths
<1> QED
  BY <1>1, <1>2, <1>3, HandOverKeeps DEF VadTypes, runs

LEMMA ResetsKeeps ==
  ASSUME VadInv, Resets
  PROVE  VadInv'
<1>1. VadTypes /\ SegmentsAreSound
  BY DEF VadInv
<1>2. /\ speaking' = FALSE /\ buffer' = <<>> /\ pre' = <<>>
      /\ speechRun' = 0 /\ silenceRun' = 0 /\ total' = 0
      /\ now' = now /\ mark' = mark /\ cut' = cut
  BY DEF Resets
<1>3. <<>> \in Seq(Nat) /\ Len(<<>>) = 0 /\ 0 \in Nat
  OBVIOUS
<1>4. PreBuffer \in Nat \ {0} /\ MaxSpeech \in Nat \ {0}
  BY VadAssumption
<1>5. VadTypes'
  BY <1>1, <1>2, <1>3 DEF VadTypes
<1>6. Lengths'
  BY <1>2, <1>3, <1>4 DEF Lengths
<1>7. now - 0 >= mark
  <2>1. now \in Nat /\ mark \in Nat /\ Len(buffer) \in Nat
    BY <1>1 DEF VadTypes
  <2>2. now - Len(buffer) >= mark
    BY <1>1 DEF SegmentsAreSound
  <2> QED
    BY <2>1, <2>2
<1>8. SegmentsAreSound'
  BY <1>2, <1>3, <1>4, <1>7 DEF SegmentsAreSound, UpToNow
<1> QED
  BY <1>5, <1>6, <1>8 DEF VadInv

LEMMA VadStutters ==
  ASSUME VadInv, UNCHANGED vadVars
  PROVE  VadInv'
BY DEF VadInv, VadTypes, Lengths, SegmentsAreSound, UpToNow, vadVars, runs

LEMMA VadStepKeeps ==
  ASSUME VadInv, VadNext
  PROVE  VadInv'
BY ListensKeeps, StartsKeeps, RecordsKeeps, CutsKeeps, EndsSpeechKeeps, FlushesKeeps, ResetsKeeps
   DEF VadNext, Hears

-----------------------------------------------------------------------------
\* A step of the composition is one of the detector, or leaves it alone.
LEMMA StepOfVad ==
  ASSUME [Next]_vars
  PROVE  VadNext \/ UNCHANGED vadVars
<1>1. CASE Microphone
  BY <1>1 DEF Microphone, VadNext
<1>2. CASE Completes
  BY <1>2 DEF Completes
<1>3. CASE GivesUp
  BY <1>3 DEF GivesUp
<1>4. CASE Transcription
  BY <1>4 DEF Transcription
<1>5. CASE UNCHANGED vars
  BY <1>5 DEF vars
<1> QED
  BY <1>1, <1>2, <1>3, <1>4, <1>5 DEF Next

\* Every segment that StreamingVAD hands to on_speech_end is a gapless piece of
\* the stream, overlaps no other and is no longer than max_speech_seconds and the
\* pre-buffer, whatever the durations are set to.
THEOREM SegmentsSound == Spec => []SegmentsAreSound
<1>1. Init => VadInv
  BY VadInitially DEF Init
<1>2. VadInv /\ [Next]_vars => VadInv'
  BY StepOfVad, VadStepKeeps, VadStutters
<1>3. VadInv => SegmentsAreSound
  BY DEF VadInv
<1> QED
  BY <1>1, <1>2, <1>3, PTL DEF Spec

-----------------------------------------------------------------------------
\* Of the workers only where they are matters; what they work on is any value.
Places == {"unborn", "reload", "idle", "busy", "check", "send", "clean"}
Threads(Jobs) == [pc : Places, job : Jobs, hung : BOOLEAN]

WorkersAreRecords ==
  /\ generation \in Generations
  /\ \E Jobs : workers \in [Generations -> Threads(Jobs)]

SttInv == WorkersAreRecords /\ AbandonedIsQuiet

LEMMA MoreJobs ==
  ASSUME NEW Jobs, NEW w \in Threads(Jobs), NEW j
  PROVE  w \in Threads(Jobs \cup {j})
  BY DEF Threads

LEMMA ThreadMoves ==
  ASSUME NEW Jobs, NEW w \in Threads(Jobs), NEW p \in Places
  PROVE  [w EXCEPT !.pc = p] \in Threads(Jobs) /\ [w EXCEPT !.pc = p].pc = p
  BY DEF Threads

LEMMA ThreadTakes ==
  ASSUME NEW Jobs, NEW w \in Threads(Jobs), NEW j
  PROVE  /\ [w EXCEPT !.pc = "busy", !.job = j] \in Threads(Jobs \cup {j})
         /\ [w EXCEPT !.pc = "busy", !.job = j].pc = "busy"
  BY DEF Threads, Places

LEMMA IdleThread == Idle \in Threads({Nothing}) /\ [Idle EXCEPT !.pc = "unborn"] \in Threads({Nothing})
<1>1. Idle \in Threads({Nothing})
  BY DEF Idle, Threads, Places
<1>2. "unborn" \in Places
  BY DEF Places
<1> QED
  BY <1>1, <1>2, ThreadMoves

LEMMA SttInitially == SttInit => SttInv
<1> SUFFICES ASSUME SttInit PROVE SttInv
  OBVIOUS
<1>1. generation = 0 /\ workers = [g \in Generations |-> IF g = 0 THEN Idle ELSE [Idle EXCEPT !.pc = "unborn"]]
  BY DEF SttInit
<1>2. 0 \in Generations
  BY SttAssumption DEF Generations
<1>3. WorkersAreRecords
  <2>1. workers \in [Generations -> Threads({Nothing})]
    BY <1>1, IdleThread
  <2> QED
    BY <1>1, <1>2, <2>1 DEF WorkersAreRecords
<1>4. AbandonedIsQuiet
  BY <1>1, SttAssumption DEF AbandonedIsQuiet, Generations
<1> QED
  BY <1>3, <1>4 DEF SttInv

LEMMA TakesKeeps ==
  ASSUME SttInv, NEW g \in Generations, Takes(g)
  PROVE  SttInv'
<1>1. PICK Jobs : workers \in [Generations -> Threads(Jobs)]
  BY DEF SttInv, WorkersAreRecords
<1> DEFINE job == Head(queues[g])
           taken == [workers[g] EXCEPT !.pc = "busy", !.job = job]
<1>2. /\ workers' = [workers EXCEPT ![g] = taken]
      /\ generation' = generation /\ atDoor' = atDoor
  BY DEF Takes
<1>3. taken \in Threads(Jobs \cup {job}) /\ taken.pc = "busy"
  <2>1. workers[g] \in Threads(Jobs)
    BY <1>1
  <2> QED
    BY <2>1, ThreadTakes, Zenon
<1>4. \A h \in Generations : workers[h] \in Threads(Jobs \cup {job})
  BY <1>1, MoreJobs
<1> HIDE DEF job, taken
<1>5. workers' \in [Generations -> Threads(Jobs \cup {job})]
  BY <1>1, <1>2, <1>3, <1>4
<1>6. WorkersAreRecords'
  BY <1>2, <1>5 DEF SttInv, WorkersAreRecords
<1>7. AbandonedIsQuiet'
  BY <1>1, <1>2, <1>3 DEF SttInv, AbandonedIsQuiet, At
<1> QED
  BY <1>6, <1>7 DEF SttInv

\* A worker that goes on to another place, to the door only if it is the current one.
LEMMA MoveKeeps ==
  ASSUME SttInv, NEW g \in Generations, NEW p \in Places, p = "send" => g = generation,
         Goes(g, p), generation' = generation,
         atDoor' = atDoor \/ (p # "send" /\ atDoor' = atDoor \ {g})
  PROVE  SttInv'
<1>1. PICK Jobs : workers \in [Generations -> Threads(Jobs)]
  BY DEF SttInv, WorkersAreRecords
<1> DEFINE moved == [workers[g] EXCEPT !.pc = p]
<1>2. /\ workers' = [workers EXCEPT ![g] = moved]
      /\ generation' = generation
      /\ atDoor \ {g} \subseteq atDoor'
  BY DEF Goes
<1>3. moved \in Threads(Jobs) /\ moved.pc = p
  <2>1. workers[g] \in Threads(Jobs)
    BY <1>1
  <2> QED
    BY <2>1, ThreadMoves, Zenon
<1> HIDE DEF moved
<1>4. workers' \in [Generations -> Threads(Jobs)]
  BY <1>1, <1>2, <1>3
<1>5. WorkersAreRecords'
  BY <1>2, <1>4 DEF SttInv, WorkersAreRecords
<1>6. AbandonedIsQuiet'
  <2> SUFFICES ASSUME NEW h \in Generations, h < generation, workers'[h].pc = "send"
               PROVE  h \in atDoor'
    BY <1>2 DEF AbandonedIsQuiet, At
  <2>1. h # g
    <3>1. h \in Int /\ generation \in Int
      BY SttAssumption DEF SttInv, WorkersAreRecords, Generations
    <3> QED
      BY <1>1, <1>2, <1>3, <3>1
  <2>2. workers'[h] = workers[h]
    BY <1>1, <1>2, <2>1
  <2> QED
    BY <1>2, <2>1, <2>2 DEF SttInv, AbandonedIsQuiet, At
<1> QED
  BY <1>5, <1>6 DEF SttInv

LEMMA HangsKeeps ==
  ASSUME SttInv, NEW g \in Generations, Hangs(g)
  PROVE  SttInv'
<1>1. PICK Jobs : workers \in [Generations -> Threads(Jobs)]
  BY DEF SttInv, WorkersAreRecords
<1>2. /\ workers' = [workers EXCEPT ![g].hung = ~@]
      /\ generation' = generation /\ atDoor' = atDoor /\ workers[g].pc = "busy"
  BY DEF Hangs, At
<1> DEFINE w == workers[g]
<1>3. w \in Threads(Jobs)
  BY <1>1
<1>4. [w EXCEPT !.hung = ~@] \in Threads(Jobs) /\ [w EXCEPT !.hung = ~@].pc = w.pc
  <2> HIDE DEF w
  <2> QED
    BY <1>3 DEF Threads
<1> DEFINE hanging == [w EXCEPT !.hung = ~@]
<1>5. workers' = [workers EXCEPT ![g] = hanging] /\ hanging \in Threads(Jobs) /\ hanging.pc = "busy"
  BY <1>2, <1>4
<1> HIDE DEF hanging
<1>6. workers' \in [Generations -> Threads(Jobs)]
  BY <1>1, <1>5
<1>7. WorkersAreRecords'
  BY <1>2, <1>6 DEF SttInv, WorkersAreRecords
<1>8. AbandonedIsQuiet'
  BY <1>1, <1>2, <1>5 DEF SttInv, AbandonedIsQuiet, At
<1> QED
  BY <1>7, <1>8 DEF SttInv

LEMMA CleansKeeps ==
  ASSUME SttInv, NEW g \in Generations, Cleans(g)
  PROVE  SttInv'
<1>1. PICK Jobs : workers \in [Generations -> Threads(Jobs)]
  BY DEF SttInv, WorkersAreRecords
<1>2. /\ workers' = [workers EXCEPT ![g] = Idle]
      /\ generation' = generation /\ atDoor' = atDoor
  BY DEF Cleans
<1>3. Idle \in Threads(Jobs \cup {Nothing}) /\ Idle.pc = "idle"
  BY DEF Threads, Idle, Places
<1>4. \A h \in Generations : workers[h] \in Threads(Jobs \cup {Nothing})
  BY <1>1, MoreJobs
<1>5. workers' \in [Generations -> Threads(Jobs \cup {Nothing})]
  BY <1>1, <1>2, <1>3, <1>4
<1>6. WorkersAreRecords'
  BY <1>2, <1>5 DEF SttInv, WorkersAreRecords
<1>7. AbandonedIsQuiet'
  BY <1>1, <1>2, <1>3 DEF SttInv, AbandonedIsQuiet, At
<1> QED
  BY <1>6, <1>7 DEF SttInv

\* Another generation: whoever was at the door is remembered.
LEMMA PutsKeeps ==
  ASSUME SttInv, NEW utt, Puts(utt)
  PROVE  SttInv'
<1>1. PICK Jobs : workers \in [Generations -> Threads(Jobs)]
  BY DEF SttInv, WorkersAreRecords
<1>2. generation \in Generations /\ AbandonedIsQuiet
  BY DEF SttInv, WorkersAreRecords
<1>3. CASE started = "old" /\ generation < MaxGeneration
  <2> DEFINE next == generation + 1
             moved == [workers[next] EXCEPT !.pc = "reload"]
  <2>1. /\ generation' = next
        /\ workers' = [workers EXCEPT ![next] = moved]
        /\ atDoor' = IF At(generation, "send") THEN atDoor \cup {generation} ELSE atDoor
    BY <1>3 DEF Puts
  <2>2. next \in Generations
    BY <1>2, <1>3, SttAssumption DEF Generations
  <2>3. moved \in Threads(Jobs) /\ moved.pc = "reload"
    <3>1. workers[next] \in Threads(Jobs) /\ "reload" \in Places
      BY <1>1, <2>2 DEF Places
    <3> QED
      BY <3>1, ThreadMoves, Zenon
  <2>4. \A h \in Generations : h < next => h < generation \/ h = generation
    BY <1>2, SttAssumption DEF Generations
  <2> HIDE DEF next, moved
  <2>5. workers' \in [Generations -> Threads(Jobs)]
    BY <1>1, <2>1, <2>2, <2>3
  <2>6. WorkersAreRecords'
    BY <2>1, <2>2, <2>5 DEF WorkersAreRecords
  <2>7. AbandonedIsQuiet'
    <3> SUFFICES ASSUME NEW h \in Generations, h < next, workers'[h].pc = "send"
                 PROVE  h \in atDoor'
      BY <2>1 DEF AbandonedIsQuiet, At
    <3>1. h # next /\ workers'[h] = workers[h]
      BY <1>1, <2>1, <2>3
    <3>2. CASE h < generation
      BY <1>2, <2>1, <3>1, <3>2 DEF AbandonedIsQuiet, At
    <3>3. CASE h = generation
      BY <2>1, <3>1, <3>3 DEF At
    <3> QED
      BY <2>4, <3>2, <3>3
  <2> QED
    BY <2>6, <2>7 DEF SttInv
<1>4. CASE ~(started = "old" /\ generation < MaxGeneration)
  <2>1. UNCHANGED <<generation, workers>> /\ atDoor' = atDoor
    BY <1>4 DEF Puts
  <2> QED
    BY <2>1 DEF SttInv, WorkersAreRecords, AbandonedIsQuiet, At
<1> QED
  BY <1>3, <1>4

LEMMA WorkerKeeps ==
  ASSUME SttInv, NEW g \in Generations, WorkerGoesOn(g)
  PROVE  SttInv'
<1>1. CASE Reloads(g)
  BY <1>1, MoveKeeps DEF Reloads, Places
<1>2. CASE Takes(g)
  BY <1>2, TakesKeeps
<1>3. CASE Transcribes(g)
  BY <1>3, MoveKeeps DEF Transcribes, Places
<1>4. CASE Checks(g)
  <2>1. CASE g = generation
    BY <1>4, <2>1, MoveKeeps DEF Checks, Places
  <2>2. CASE g # generation
    BY <1>4, <2>2, MoveKeeps DEF Checks, Places
  <2> QED
    BY <2>1, <2>2
<1>5. CASE Sends(g)
  BY <1>5, MoveKeeps DEF Sends, Places
<1>6. CASE Cleans(g)
  BY <1>6, CleansKeeps
<1> QED
  BY <1>1, <1>2, <1>3, <1>4, <1>5, <1>6 DEF WorkerGoesOn

\* What the rest of the system does to the workers: it puts a job, or nothing.
LEMMA StepOfStt ==
  ASSUME [Next]_vars, ~(Transcription)
  PROVE  (\E utt : Puts(utt)) \/ UNCHANGED <<generation, workers, atDoor>>
<1>1. CASE Microphone
  BY <1>1 DEF Microphone, SpeechEnded, sttVars
<1>2. CASE Completes
  BY <1>2 DEF Completes, NextParked
<1>3. CASE GivesUp
  BY <1>3 DEF GivesUp, NextParked
<1>4. CASE UNCHANGED vars
  BY <1>4 DEF vars, sttVars
<1> QED
  BY <1>1, <1>2, <1>3, <1>4 DEF Next

LEMMA SttStepKeeps ==
  ASSUME SttInv, [Next]_vars
  PROVE  SttInv'
<1>1. CASE Transcription
  <2>1. CASE Works
    BY <2>1, WorkerKeeps DEF Works
  <2>2. CASE JobAges
    BY <2>2 DEF JobAges, SttInv, WorkersAreRecords, AbandonedIsQuiet, At
  <2>3. CASE \E g \in Generations : Hangs(g)
    BY <2>3, HangsKeeps
  <2> QED
    BY <1>1, <2>1, <2>2, <2>3 DEF Transcription
<1>2. CASE UNCHANGED <<generation, workers, atDoor>>
  BY <1>2 DEF SttInv, WorkersAreRecords, AbandonedIsQuiet, At
<1> QED
  BY <1>1, <1>2, StepOfStt, PutsKeeps

\* However many workers are left behind: one of them sends an answer only if it had
\* passed _stt_generation_current before it was.
THEOREM AbandonedQuiet == Spec => []AbandonedIsQuiet
<1>1. Init => SttInv
  BY SttInitially DEF Init
<1>2. SttInv /\ [Next]_vars => SttInv'
  BY SttStepKeeps
<1>3. SttInv => AbandonedIsQuiet
  BY DEF SttInv
<1> QED
  BY <1>1, <1>2, <1>3, PTL DEF Spec
=============================================================================
