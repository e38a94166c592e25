-------------------------- MODULE SpeechOutputProofs --------------------------
(***************************************************************************)
(* Proofs about SpeechOutput: its types, that "ok" means heard, and that   *)
(* the controller's count of plays is right once everything it was told is *)
(* handled.                                                                *)
(***************************************************************************)
EXTENDS SpeechOutput, FiniteSetTheorems, SequenceTheorems, TLAPS

(***************************************************************************)
(* The request in the worker's hands.                                      *)
(***************************************************************************)
\* The places of a request that the worker has not been given yet.
Fresh == {"idle", "counted", "asks"}
InHands == parallel \cup (IF speaking = Nothing THEN {} ELSE {speaking})

\* Requests from the cache have threads of their own, the others the main thread;
\* what a stop kills is an audio process that runs; and once the request of the
\* main thread is killed, the stop that killed it is still to be seen.
WorkerSound ==
  /\ parallel \subseteq Cached /\ speaking \notin Cached
  /\ audible \subseteq InHands
  /\ player # Nothing => player \in audible
  /\ speaking \in killed => halt

\* Each request is given to the worker once: what is still to be read was neither
\* spoken nor killed.
GivenOnce ==
  /\ \A i \in 1..Len(inbox) : inbox[i] \notin killed \cup InHands /\ pc[inbox[i]] \notin Fresh
  /\ \A i, j \in 1..Len(inbox) : inbox[i] = inbox[j] => i = j
  /\ \A r \in killed \cup InHands : pc[r] \notin Fresh

WasHeard(r) == r \in heard \/ (r \in Cached /\ r \in killed)

\* Wherever an "ok" is on its way, the speech was heard.
OkIsTrue ==
  \A r \in Requests :
    result[r] = "ok" \/ finished[r] = "ok" \/ <<r, "ok">> \in posts => WasHeard(r)

-----------------------------------------------------------------------------
(***************************************************************************)
(* What the controller is told.                                            *)
(***************************************************************************)
\* The requests that _active_plays counts.
Acting == {r \in Requests \ Announces : pc[r] \in {"counted", "asks", "waiting", "returned"}}
Firsts == {r \in Requests : pc[r] = "counted"}
Lasts == {r \in Requests : pc[r] = "last"}
Announcing == {r \in told : pc[r] # "done"}

ActiveIsCounted ==
  /\ active = Cardinality(Acting)
  /\ Firsts \cup Lasts \subseteq Requests \ Announces
  /\ \A r, q \in Firsts : r = q
  /\ \A r \in told : pc[r] # "idle"

\* The plays the controller has been told of, without their ends: those of
\* play_audio; those of handle_speech, all in one, from when the first has told it
\* until the last has; and the pausing sounds.
SpeechPlays ==
  Cardinality(Announcing) + Cardinality(Lasts) + (IF active > 0 /\ Firsts = {} THEN 1 ELSE 0)
PausingPlaces(s) == {i \in 1..Len(s) : s[i] = Pausing}
SoundPlays == Cardinality(PausingPlaces(sounds)) + (IF sounding = Pausing THEN 1 ELSE 0)

Effect(message) == IF message = Started THEN 1 ELSE -1

\* b is the count that the controller will have after each of its messages: never
\* below 0, and at the end that of the plays.
Course(b, n) ==
  /\ b \in [0..Len(mail) -> Nat]
  /\ b[0] = counted /\ b[Len(mail)] = n
  /\ \A k \in 1..Len(mail) : b[k] = b[k - 1] + Effect(mail[k])
Balanced == \E b \in [0..Len(mail) -> Nat] : Course(b, SpeechPlays + SoundPlays)

IInv ==
  /\ TypeOK /\ WorkerSound /\ GivenOnce /\ OkIsTrue
  /\ ActiveIsCounted
  /\ ~skipped => Balanced

-----------------------------------------------------------------------------
(***************************************************************************)
(* Types.                                                                  *)
(***************************************************************************)
LEMMA SpendTypes ==
  ASSUME left \in [Bounded -> Nat], NEW what \in Bounded, Spend(what)
  PROVE  left' \in [Bounded -> Nat]
<1>1. left[what] - 1 \in Nat
  BY DEF Spend
<1> QED BY <1>1 DEF Spend

LEMMA Names ==
  /\ Started # Completed
  /\ Pausing \notin {Silence, Sound, Chunk, Again}
  /\ \A w \in {"requests", "files", "loops", "toggles", "stops", "faults"} : w \in Bounded
BY DEF Started, Completed, Pausing, Silence, Sound, Chunk, Again, Bounded

Message == {Started, Completed}
Queued == {Sound, Pausing, Chunk}

LEMMA TellTypes ==
  ASSUME QueueTypeOK, NEW what \in Message, Tell(what)
  PROVE  mail' \in Seq(Message)
BY AppendProperties DEF QueueTypeOK, Tell, Message

LEMMA FeedbackTypes ==
  ASSUME TypeOK, Feedback
  PROVE  TypeOK'
<1>1. QueueTypeOK
  BY DEF TypeOK
<1>2. CASE ControllerHandles /\ UNCHANGED left
  <2>1. mail' \in Seq(Message)
    BY <1>1, <1>2, HeadTailProperties DEF ControllerHandles, QueueTypeOK, Message
  <2>2. counted' \in Nat
    BY <1>1, <1>2 DEF ControllerHandles, QueueTypeOK
  <2>3. QueueTypeOK'
    BY <1>1, <1>2, <2>1, <2>2 DEF ControllerHandles, QueueTypeOK, Message
  <2> QED BY <1>2, <2>3 DEF TypeOK, Feedback, managerVars, workerVars
<1>3. CASE OutputWorker /\ UNCHANGED left
  <2>1. QueueTypeOK'
    <3>1. CASE TakesSound
      <4>1. Head(sounds) \in Queued /\ sounds' \in Seq(Queued)
        BY <1>1, <3>1, HeadTailProperties DEF TakesSound, QueueTypeOK, Queued
      <4> QED BY <1>1, <3>1, <4>1 DEF TakesSound, QueueTypeOK, Queued
    <3>2. CASE SoundOver
      BY <1>1, <3>2, TellTypes DEF SoundOver, QueueTypeOK, Message
    <3>3. CASE ChunkOver
      BY <1>1, <3>3 DEF ChunkOver, QueueTypeOK
    <3>4. CASE NextChunk
      <4>1. sounds' \in Seq(Queued)
        BY <1>1, <3>4, AppendProperties DEF NextChunk, QueueTypeOK, Queued
      <4> QED BY <1>1, <3>4, <4>1 DEF NextChunk, QueueTypeOK, Queued
    <3> QED BY <1>3, <3>1, <3>2, <3>3, <3>4 DEF OutputWorker
  <2> QED BY <1>3, <2>1 DEF TypeOK, Feedback, managerVars, workerVars
<1>4. CASE Toggles /\ Spend("toggles")
  BY <1>1, <1>4, Names, SpendTypes DEF Toggles, QueueTypeOK, TypeOK, Feedback, managerVars, workerVars
<1>5. ASSUME NEW pause \in BOOLEAN, PlayFile(pause), Spend("files")
      PROVE  TypeOK'
  <2>1. sounds' \in Seq(Queued)
    BY <1>1, <1>5, AppendProperties DEF PlayFile, QueueTypeOK, Queued
  <2>2. mail' \in Seq(Message)
    BY <1>1, <1>5, TellTypes DEF PlayFile, QueueTypeOK, Message
  <2>3. QueueTypeOK'
    BY <1>1, <1>5, <2>1, <2>2 DEF PlayFile, QueueTypeOK, Queued, Message
  <2> QED BY <1>5, <2>3, Names, SpendTypes DEF TypeOK, Feedback, managerVars, workerVars
<1>6. CASE StartLoop /\ Spend("loops")
  <2>1. sounds' \in Seq(Queued)
    BY <1>1, <1>6, AppendProperties DEF StartLoop, QueueTypeOK, Queued
  <2>2. QueueTypeOK'
    BY <1>1, <1>6, <2>1 DEF StartLoop, QueueTypeOK, Queued
  <2> QED BY <1>6, <2>2, Names, SpendTypes DEF TypeOK, Feedback, managerVars, workerVars
<1>7. CASE StopLoop /\ UNCHANGED left
  BY <1>1, <1>7 DEF StopLoop, QueueTypeOK, TypeOK, Feedback, managerVars, workerVars
<1> QED BY <1>2, <1>3, <1>4, <1>5, <1>6, <1>7 DEF Feedback

LEMMA QueueStays ==
  ASSUME QueueTypeOK, UNCHANGED queueVars
  PROVE  QueueTypeOK'
BY DEF QueueTypeOK, queueVars

LEMMA MailOnly ==
  ASSUME QueueTypeOK, NEW what \in Message, Tell(what) \/ mail' = mail,
         UNCHANGED <<off, counted, sounds, sounding, looping>>
  PROVE  QueueTypeOK'
BY TellTypes DEF QueueTypeOK, Message

\* The types of the manager's variables, but for active, and of the worker's, but for
\* audible; ActiveIsCounted and WorkerSound bound these two.
ManagerTypes ==
  /\ pc \in [Requests -> Place]
  /\ told \subseteq Announces
  /\ result \in [Requests -> Verdict]
  /\ pending \subseteq Requests
  /\ finished \in [Requests -> Verdict]
  /\ tts \in {"loading", "ready", "failed"}
  /\ skipped \in BOOLEAN
WorkerTypes ==
  /\ worker \in {"starting", "up", "cut", "dead"}
  /\ inbox \in Seq(Requests)
  /\ speaking \in Requests \cup {Nothing}
  /\ parallel \subseteq Requests
  /\ player \in Requests \cup {Nothing}
  /\ killed \cup heard \subseteq Requests
  /\ halt \in BOOLEAN
  /\ posts \subseteq Requests \X {"ok", "failed"}

LEMMA TypesAre ==
  TypeOK <=> /\ QueueTypeOK /\ ManagerTypes /\ WorkerTypes
             /\ active \in 0..Cardinality(Requests) /\ left \in [Bounded -> Nat]
             /\ audible \subseteq parallel \cup {speaking}
BY DEF TypeOK, ManagerTypes, WorkerTypes

PlainTypes == QueueTypeOK' /\ ManagerTypes' /\ WorkerTypes' /\ left' \in [Bounded -> Nat]

LEMMA RequestTypes ==
  ASSUME TypeOK, NEW r \in Requests, Begins(r) \/ Request(r)
  PROVE  PlainTypes
<1>1. QueueTypeOK /\ ManagerTypes /\ WorkerTypes /\ left \in [Bounded -> Nat]
  BY TypesAre
<1> USE DEF Place, Verdict
<1>2. CASE Begins(r)
  <2>1. QueueTypeOK'
    BY <1>1, <1>2, MailOnly DEF Begins, Message
  <2>2. ManagerTypes' /\ WorkerTypes'
    BY <1>1, <1>2 DEF Begins, Goes, ManagerTypes, WorkerTypes, workerVars
  <2>3. left' \in [Bounded -> Nat]
    BY <1>1, <1>2, Names, SpendTypes DEF Begins
  <2> QED BY <2>1, <2>2, <2>3 DEF PlainTypes
<1>3. CASE TellsFirst(r)
  <2>1. QueueTypeOK'
    BY <1>1, <1>3, MailOnly DEF TellsFirst, Message
  <2>2. ManagerTypes' /\ WorkerTypes'
    BY <1>1, <1>3 DEF TellsFirst, Goes, ManagerTypes, WorkerTypes, workerVars, QueueTypeOK
  <2> QED BY <1>1, <1>3, <2>1, <2>2 DEF PlainTypes, TellsFirst
<1>4. CASE Puts(r)
  <2>1. QueueTypeOK'
    BY <1>1, <1>4, QueueStays DEF Puts
  <2>2. ManagerTypes'
    BY <1>1, <1>4 DEF Puts, Goes, ManagerTypes
  <2>3. Append(inbox, r) \in Seq(Requests)
    BY <1>1, AppendProperties DEF WorkerTypes
  <2>4. WorkerTypes'
    BY <1>1, <1>4, <2>3 DEF Puts, WorkerTypes
  <2> QED BY <1>1, <1>4, <2>1, <2>2, <2>4 DEF PlainTypes, Puts
<1>5. CASE Wakes(r)
  <2>1. QueueTypeOK'
    BY <1>1, <1>5, QueueStays DEF Wakes
  <2>2. ManagerTypes' /\ WorkerTypes'
    BY <1>1, <1>5 DEF Wakes, Goes, ManagerTypes, WorkerTypes, workerVars
  <2> QED BY <1>1, <1>5, <2>1, <2>2 DEF PlainTypes, Wakes
<1>6. CASE Ends(r)
  <2>1. QueueTypeOK'
    BY <1>1, <1>6, MailOnly DEF Ends, Message
  <2>2. ManagerTypes' /\ WorkerTypes'
    BY <1>1, <1>6 DEF Ends, Goes, ManagerTypes, WorkerTypes, workerVars
  <2> QED BY <1>1, <1>6, <2>1, <2>2 DEF PlainTypes, Ends
<1>7. CASE TellsLast(r)
  <2>1. QueueTypeOK'
    BY <1>1, <1>7, MailOnly DEF TellsLast, Message
  <2>2. ManagerTypes' /\ WorkerTypes'
    BY <1>1, <1>7 DEF TellsLast, Goes, ManagerTypes, WorkerTypes, workerVars
  <2> QED BY <1>1, <1>7, <2>1, <2>2 DEF PlainTypes, TellsLast
<1> QED BY <1>2, <1>3, <1>4, <1>5, <1>6, <1>7 DEF Request

\* The steps of the worker, of its connection and of what it posts.
WorkerStep ==
  \/ \E r \in Requests : StartsAudio(r) \/ EndsAudio(r) \/ CannotSpeak(r)
  \/ Connects \/ Loads \/ Cuts \/ Dies
  \/ Takes \/ Stops \/ PostArrives \/ PostLost

LEMMA WorkerTypesStay ==
  ASSUME TypeOK, WorkerStep
  PROVE  PlainTypes
<1>1. QueueTypeOK /\ ManagerTypes /\ WorkerTypes /\ left \in [Bounded -> Nat]
  BY TypesAre
<1>2. QueueTypeOK'
  <2>1. UNCHANGED queueVars
    BY DEF WorkerStep, StartsAudio, EndsAudio, Spoken, CannotSpeak, Connects, Loads, Cuts, Dies,
           Takes, Stops, PostArrives, PostLost, managerVars
  <2> QED BY <1>1, <2>1, QueueStays
<1>3. left' \in [Bounded -> Nat]
  BY <1>1, Names, SpendTypes
     DEF WorkerStep, StartsAudio, EndsAudio, Spoken, CannotSpeak, Connects, Loads, Cuts, Dies,
         Takes, Stops, PostArrives, PostLost
<1>4. ManagerTypes'
  <2>1. CASE Loads
    BY <1>1, <2>1 DEF Loads, ManagerTypes
  <2>2. CASE PostArrives
    <3>1. PICK p \in posts : Completes(p[1], p[2])
      BY <2>2 DEF PostArrives
    <3>2. p[1] \in Requests /\ p[2] \in Verdict
      BY <1>1, <3>1 DEF WorkerTypes, Verdict
    <3>3. finished' \in [Requests -> Verdict]
      BY <1>1, <3>1, <3>2 DEF Completes, ManagerTypes
    <3> QED BY <1>1, <2>2, <3>3 DEF PostArrives, ManagerTypes
  <2>3. CASE UNCHANGED managerVars
    BY <1>1, <2>3 DEF managerVars, ManagerTypes
  <2> QED
    BY <2>1, <2>2, <2>3
       DEF WorkerStep, StartsAudio, EndsAudio, Spoken, CannotSpeak, Connects, Cuts, Dies, Takes,
           Stops, PostLost
<1>5. WorkerTypes'
  <2>1. ASSUME NEW r \in Requests, StartsAudio(r) PROVE WorkerTypes'
    BY <1>1, <2>1 DEF StartsAudio, WorkerTypes
  <2>2. ASSUME NEW r \in Requests, EndsAudio(r) PROVE WorkerTypes'
    <3>1. Outcome(r, "ok") \in {"ok", "failed"}
      BY DEF Outcome
    <3>2. speaking' \in Requests \cup {Nothing} /\ player' \in Requests \cup {Nothing}
      BY <1>1, <2>2 DEF EndsAudio, Spoken, WorkerTypes
    <3>3. halt' \in BOOLEAN
      BY <1>1, <2>2 DEF EndsAudio, Spoken, WorkerTypes
    <3>4. posts' \subseteq Requests \X {"ok", "failed"}
      BY <1>1, <2>2, <3>1 DEF EndsAudio, Spoken, WorkerTypes
    <3>5. /\ killed' \cup heard' \subseteq Requests /\ parallel' \subseteq Requests
          /\ worker' = worker /\ inbox' = inbox
      BY <1>1, <2>2 DEF EndsAudio, Spoken, WorkerTypes
    <3> QED BY <1>1, <3>2, <3>3, <3>4, <3>5 DEF WorkerTypes
  <2>3. ASSUME NEW r \in Requests, CannotSpeak(r) PROVE WorkerTypes'
    <3>1. speaking' \in Requests \cup {Nothing}
      BY <1>1, <2>3 DEF CannotSpeak, WorkerTypes
    <3>2. halt' \in BOOLEAN
      BY <1>1, <2>3 DEF CannotSpeak, WorkerTypes
    <3>3. posts' \subseteq Requests \X {"ok", "failed"}
      BY <1>1, <2>3 DEF CannotSpeak, WorkerTypes
    <3>4. /\ killed' \cup heard' \subseteq Requests /\ parallel' \subseteq Requests
          /\ worker' = worker /\ inbox' = inbox /\ player' = player
      BY <1>1, <2>3 DEF CannotSpeak, WorkerTypes
    <3> QED BY <1>1, <3>1, <3>2, <3>3, <3>4 DEF WorkerTypes
  <2>4. CASE Connects \/ Loads
    BY <1>1, <2>4 DEF Connects, Loads, WorkerTypes, workerVars
  <2>5. CASE Cuts \/ Dies
    <3>1. <<>> \in Seq(Requests)
      BY EmptySeq
    <3> QED BY <1>1, <2>5, <3>1 DEF Cuts, Dies, WorkerTypes
  <2>6. CASE Takes
    <3>1. Head(inbox) \in Requests /\ Tail(inbox) \in Seq(Requests)
      BY <1>1, <2>6, HeadTailProperties DEF Takes, WorkerTypes
    <3> QED BY <1>1, <2>6, <3>1 DEF Takes, WorkerTypes
  <2>7. CASE Stops
    BY <1>1, <2>7 DEF Stops, WorkerTypes
  <2>8. CASE PostArrives \/ PostLost
    BY <1>1, <2>8 DEF PostArrives, PostLost, WorkerTypes
  <2> QED BY <2>1, <2>2, <2>3, <2>4, <2>5, <2>6, <2>7, <2>8 DEF WorkerStep
<1> QED BY <1>2, <1>3, <1>4, <1>5 DEF PlainTypes

-----------------------------------------------------------------------------
(***************************************************************************)
(* The worker's hands, and what is true of an "ok".                        *)
(***************************************************************************)
SoundWorker == WorkerSound /\ GivenOnce /\ OkIsTrue

LEMMA HandsAre ==
  ASSUME TypeOK, WorkerSound
  PROVE  /\ InHands \subseteq Requests /\ audible \subseteq Requests /\ Nothing \notin Requests
         /\ \A r : r \in InHands <=> r # Nothing /\ r \in parallel \cup {speaking}
BY NothingAssumption DEF TypeOK, WorkerSound, InHands

LEMMA HandsAreNext ==
  ASSUME PlainTypes
  PROVE  \A r : r \in InHands' <=> r # Nothing /\ r \in parallel' \cup {speaking'}
BY NothingAssumption DEF PlainTypes, WorkerTypes, InHands

\* A request's thread gives the worker at most its own request, and takes up at
\* most what was answered to it.
LEMMA RequestSound ==
  ASSUME IInv, NEW r \in Requests, Begins(r) \/ Request(r)
  PROVE  SoundWorker'
<1>1. TypeOK /\ WorkerSound /\ GivenOnce /\ OkIsTrue
  BY DEF IInv
<1>2. UNCHANGED <<speaking, parallel, audible, player, killed, heard, halt, posts, finished>>
  BY DEF Begins, Request, TellsFirst, Puts, Wakes, Ends, TellsLast, workerVars
<1>3. WorkerSound'
  BY <1>1, <1>2 DEF WorkerSound, InHands
<1>4. pc \in [Requests -> Place] /\ inbox \in Seq(Requests) /\ result \in [Requests -> Verdict]
  BY <1>1 DEF TypeOK
<1>5. \A q \in Requests : pc[q] \notin Fresh => pc'[q] \notin Fresh
  BY <1>4 DEF Begins, Request, TellsFirst, Puts, Wakes, Ends, TellsLast, Goes, Fresh
<1>6. killed \cup InHands \subseteq Requests
  BY <1>1, HandsAre DEF TypeOK
<1>7. GivenOnce'
  <2>1. \A q \in (killed \cup InHands)' : pc'[q] \notin Fresh
    BY <1>1, <1>2, <1>5, <1>6 DEF GivenOnce, InHands
  <2>2. CASE inbox' = inbox
    <3>1. \A i \in 1..Len(inbox) : inbox[i] \in Requests
      BY <1>4
    <3> QED BY <1>1, <1>2, <1>5, <2>1, <2>2, <3>1 DEF GivenOnce, InHands
  <2>3. CASE Puts(r) /\ inbox' = Append(inbox, r)
    <3>1. pc[r] \in Fresh /\ pc'[r] \notin Fresh
      BY <1>4, <2>3 DEF Puts, Goes, Fresh
    <3>2. /\ Len(inbox') = Len(inbox) + 1 /\ Len(inbox) \in Nat
          /\ \A i \in 1..Len(inbox) : inbox'[i] = inbox[i] /\ inbox[i] \in Requests
          /\ inbox'[Len(inbox) + 1] = r
      BY <1>4, <2>3, AppendProperties, LenProperties
    <3>3. r \notin killed \cup InHands /\ \A i \in 1..Len(inbox) : inbox[i] # r
      BY <1>1, <3>1 DEF GivenOnce
    <3>4. ASSUME NEW i \in 1..Len(inbox')
          PROVE  inbox'[i] \notin (killed \cup InHands)' /\ pc'[inbox'[i]] \notin Fresh
      <4>1. CASE i = Len(inbox) + 1
        BY <1>2, <3>1, <3>2, <3>3, <4>1 DEF InHands
      <4>2. CASE i \in 1..Len(inbox)
        BY <1>1, <1>2, <1>5, <3>2, <4>2 DEF GivenOnce, InHands
      <4> QED BY <3>2, <4>1, <4>2
    <3>5. ASSUME NEW i \in 1..Len(inbox'), NEW j \in 1..Len(inbox'), inbox'[i] = inbox'[j]
          PROVE  i = j
      <4>1. CASE i \in 1..Len(inbox) /\ j \in 1..Len(inbox)
        BY <1>1, <3>2, <3>5, <4>1 DEF GivenOnce
      <4> QED BY <3>2, <3>3, <3>5, <4>1
    <3> QED BY <2>1, <3>4, <3>5 DEF GivenOnce
  <2> QED BY <2>2, <2>3 DEF Begins, Request, TellsFirst, Puts, Wakes, Ends, TellsLast, workerVars
<1>8. OkIsTrue'
  <2>1. \A q \in Requests : result'[q] = "ok" => result[q] = "ok" \/ finished[q] = "ok"
    BY <1>4 DEF Begins, Request, TellsFirst, Puts, Wakes, Ends, TellsLast, workerVars
  <2> QED BY <1>1, <1>2, <2>1 DEF OkIsTrue, WasHeard
<1> QED BY <1>3, <1>7, <1>8 DEF SoundWorker

\* Nothing that was neither in the worker's hands nor killed gets there but from
\* the inbox.
LEMMA InboxStays ==
  ASSUME GivenOnce, (killed \cup InHands)' \subseteq killed \cup InHands,
         UNCHANGED <<inbox, pc>>
  PROVE  GivenOnce'
BY DEF GivenOnce

LEMMA WorkerSoundStays ==
  ASSUME IInv, WorkerStep
  PROVE  SoundWorker'
<1>1. TypeOK /\ WorkerSound /\ GivenOnce /\ OkIsTrue
  BY DEF IInv
<1>2. PlainTypes
  BY <1>1, WorkerTypesStay
<1>3. ASSUME NEW r \in Requests, StartsAudio(r) PROVE SoundWorker'
  <2>1. /\ r \in InHands /\ audible' = audible \cup {r} /\ player' = r
        /\ UNCHANGED <<parallel, speaking, killed, heard, halt, posts, inbox, pc, result, finished>>
    BY <1>1, <1>3, HandsAre DEF StartsAudio, managerVars
  <2>2. WorkerSound'
    BY <1>1, <2>1 DEF WorkerSound, InHands
  <2>3. GivenOnce' /\ OkIsTrue'
    BY <1>1, <2>1 DEF GivenOnce, OkIsTrue, WasHeard, InHands
  <2> QED BY <2>2, <2>3 DEF SoundWorker
<1>4. ASSUME NEW r \in Requests, EndsAudio(r) \/ CannotSpeak(r) PROVE SoundWorker'
  <2>1. /\ r # Nothing /\ r \in InHands
        /\ speaking' = (IF r = speaking THEN Nothing ELSE speaking)
        /\ halt' = (IF r = speaking THEN FALSE ELSE halt)
        /\ parallel' = parallel \ {r}
        /\ audible' = audible \ {r}
        /\ player' = (IF player = r THEN Nothing ELSE player)
        /\ UNCHANGED <<killed, inbox, pc, result, finished>>
    BY <1>1, <1>4, HandsAre DEF EndsAudio, Spoken, CannotSpeak, managerVars, WorkerSound
  <2>2. \A q : q \in InHands' <=> q \in InHands /\ q # r
    BY <1>1, <1>2, <2>1, HandsAre, HandsAreNext
  <2>3. WorkerSound'
    <3>1. speaking' \in killed' => halt'
      BY <1>1, <2>1, HandsAre DEF WorkerSound, TypeOK
    <3>2. speaking' \notin Cached /\ parallel' \subseteq Cached
      BY <1>1, <2>1, RequestsAssumption, NothingAssumption DEF WorkerSound
    <3>3. audible' \subseteq InHands' /\ (player' # Nothing => player' \in audible')
      BY <1>1, <2>1, <2>2 DEF WorkerSound
    <3> QED BY <3>1, <3>2, <3>3 DEF WorkerSound
  <2>4. GivenOnce'
    BY <1>1, <2>1, <2>2, InboxStays
  <2>5. OkIsTrue'
    <3>1. heard \subseteq heard'
      BY <1>4 DEF EndsAudio, CannotSpeak
    <3>2. <<r, "ok">> \in posts' => <<r, "ok">> \in posts \/ (WasHeard(r))'
      <4>1. CASE CannotSpeak(r)
        BY <4>1 DEF CannotSpeak
      <4>2. CASE EndsAudio(r) /\ r \notin killed
        BY <4>2 DEF EndsAudio, WasHeard
      <4>3. CASE EndsAudio(r) /\ r \in killed /\ r = speaking
        BY <1>1, <4>3 DEF EndsAudio, Spoken, Outcome, WorkerSound
      <4>4. CASE EndsAudio(r) /\ r \in killed /\ r # speaking
        BY <1>1, <2>1, <4>4, HandsAre DEF WorkerSound, WasHeard
      <4> QED BY <1>4, <4>1, <4>2, <4>3, <4>4
    <3>3. \A q \in Requests : q # r /\ <<q, "ok">> \in posts' => <<q, "ok">> \in posts
      <4>1. \E o \in {"ok", "failed"} : posts' = posts \cup {<<r, o>>}
        <5>1. Outcome(r, "ok") \in {"ok", "failed"}
          BY DEF Outcome
        <5> QED BY <1>4, <5>1 DEF EndsAudio, Spoken, CannotSpeak
      <4> QED BY <4>1
    <3> QED BY <1>1, <2>1, <3>1, <3>2, <3>3 DEF OkIsTrue, WasHeard
  <2> QED BY <2>3, <2>4, <2>5 DEF SoundWorker
<1>5. CASE Connects \/ Loads \/ PostLost
  <2>1. /\ UNCHANGED <<speaking, parallel, audible, player, killed, heard, halt, inbox, pc, result,
                       finished>>
        /\ posts' \subseteq posts
    BY <1>5 DEF Connects, Loads, PostLost, managerVars, workerVars
  <2> QED BY <1>1, <2>1 DEF SoundWorker, WorkerSound, GivenOnce, OkIsTrue, WasHeard, InHands
<1>6. CASE Cuts \/ Dies
  <2>1. /\ inbox' = <<>> /\ UNCHANGED <<killed, heard, halt, pc, result, finished>>
        /\ \/ UNCHANGED <<speaking, parallel, audible, player, posts>>
           \/ speaking' = Nothing /\ parallel' = {} /\ audible' = {} /\ player' = Nothing /\ posts' = {}
    BY <1>6 DEF Cuts, Dies, managerVars
  <2>2. WorkerSound'
    BY <1>1, <2>1, HandsAre, RequestsAssumption DEF WorkerSound, InHands, TypeOK
  <2>3. GivenOnce'
    BY <1>1, <2>1, EmptySeq DEF GivenOnce, InHands
  <2>4. OkIsTrue'
    BY <1>1, <2>1 DEF OkIsTrue, WasHeard
  <2> QED BY <2>2, <2>3, <2>4 DEF SoundWorker
<1>7. CASE Takes
  <2> DEFINE h == Head(inbox)
  <2>1. /\ inbox # <<>> /\ inbox \in Seq(Requests) /\ h \in Requests /\ Len(inbox) \in Nat \ {0}
        /\ h = inbox[1] /\ inbox' = Tail(inbox) /\ Len(inbox') = Len(inbox) - 1
        /\ \A i \in 1..Len(inbox') : inbox'[i] = inbox[i + 1]
    BY <1>1, <1>7, EmptySeq, HeadTailProperties DEF Takes, TypeOK
  <2>2. /\ UNCHANGED <<audible, player, killed, heard, posts, pc, result, finished>>
        /\ speaking = Nothing
        /\ \/ h \in Cached /\ parallel' = parallel \cup {h} /\ speaking' = speaking /\ halt' = halt
           \/ h \notin Cached /\ speaking' = h /\ halt' = FALSE /\ parallel' = parallel
    BY <1>7 DEF Takes, managerVars
  <2>3. h \notin killed \cup InHands /\ pc[h] \notin Fresh
    BY <1>1, <2>1 DEF GivenOnce
  <2> HIDE DEF h
  <2>4. \A q : q \in InHands' <=> q \in InHands \/ q = h
    BY <1>1, <1>2, <2>1, <2>2, HandsAre, HandsAreNext
  <2>5. WorkerSound'
    BY <1>1, <2>2, <2>3, <2>4 DEF WorkerSound
  <2>6. GivenOnce'
    <3>1. ASSUME NEW i \in 1..Len(inbox')
          PROVE  i + 1 \in 1..Len(inbox) /\ inbox'[i] = inbox[i + 1] /\ inbox[i + 1] # h
      BY <1>1, <2>1 DEF GivenOnce
    <3>2. \A i \in 1..Len(inbox') : inbox'[i] \notin (killed \cup InHands)' /\ pc'[inbox'[i]] \notin Fresh
      BY <1>1, <2>2, <2>4, <3>1 DEF GivenOnce
    <3>3. \A i, j \in 1..Len(inbox') : inbox'[i] = inbox'[j] => i = j
      <4> SUFFICES ASSUME NEW i \in 1..Len(inbox'), NEW j \in 1..Len(inbox'), inbox'[i] = inbox'[j]
                   PROVE  i = j
        OBVIOUS
      <4>1. i + 1 = j + 1
        BY <1>1, <3>1 DEF GivenOnce
      <4> QED BY <2>1, <4>1
    <3>4. \A q \in (killed \cup InHands)' : pc'[q] \notin Fresh
      BY <1>1, <2>2, <2>3, <2>4 DEF GivenOnce
    <3> QED BY <3>2, <3>3, <3>4 DEF GivenOnce
  <2>7. OkIsTrue'
    BY <1>1, <2>2 DEF OkIsTrue, WasHeard
  <2> QED BY <2>5, <2>6, <2>7 DEF SoundWorker
<1>8. CASE Stops
  <2>1. /\ halt' = TRUE /\ killed' = IF player = Nothing THEN killed ELSE killed \cup {player}
        /\ UNCHANGED <<inbox, speaking, parallel, audible, player, heard, posts, pc, result, finished>>
    BY <1>8 DEF Stops, managerVars
  <2>2. WorkerSound'
    BY <1>1, <2>1 DEF WorkerSound, InHands
  <2>3. (killed \cup InHands)' \subseteq killed \cup InHands
    BY <1>1, <2>1 DEF WorkerSound, InHands
  <2>4. GivenOnce' /\ OkIsTrue'
    BY <1>1, <2>1, <2>3, InboxStays DEF OkIsTrue, WasHeard
  <2> QED BY <2>2, <2>4 DEF SoundWorker
<1>9. CASE PostArrives
  <2>1. PICK p \in posts : posts' = posts \ {p} /\ Completes(p[1], p[2])
    BY <1>9 DEF PostArrives
  <2>2. UNCHANGED <<inbox, speaking, parallel, audible, player, killed, heard, halt, pc, result>>
    BY <1>9 DEF PostArrives
  <2>3. finished \in [Requests -> Verdict] /\ p[1] \in Requests /\ p = <<p[1], p[2]>>
    BY <1>1, <2>1 DEF TypeOK
  <2>4. \A q \in Requests : finished'[q] = "ok" => finished[q] = "ok" \/ <<q, "ok">> \in posts
    BY <2>1, <2>3 DEF Completes
  <2> QED BY <1>1, <2>1, <2>2, <2>4
          DEF SoundWorker, WorkerSound, GivenOnce, OkIsTrue, WasHeard, InHands
<1> QED BY <1>3, <1>4, <1>5, <1>6, <1>7, <1>8, <1>9 DEF WorkerStep

-----------------------------------------------------------------------------
(***************************************************************************)
(* The messages of the controller and the count they lead to.              *)
(***************************************************************************)
LEMMA EffectIs ==
  /\ Effect(Started) = 1 /\ Effect(Completed) = -1
  /\ \A x \in Message : Effect(x) \in {1, -1}
BY Names DEF Effect, Message

\* One more message is sent.
LEMMA CourseGrows ==
  ASSUME mail \in Seq(Message), NEW x \in Message, mail' = Append(mail, x), counted' = counted,
         NEW n \in Nat, NEW b \in [0..Len(mail) -> Nat], Course(b, n), n + Effect(x) \in Nat
  PROVE  \E c \in [0..Len(mail') -> Nat] : Course(c, n + Effect(x))'
<1> DEFINE l == Len(mail)
           c == [k \in 0..(l + 1) |-> IF k <= l THEN b[k] ELSE n + Effect(x)]
<1>1. /\ l \in Nat /\ Len(mail') = l + 1 /\ mail'[l + 1] = x
      /\ \A k \in 1..l : mail'[k] = mail[k]
  BY AppendProperties, LenProperties
<1>2. b[0] = counted /\ b[l] = n /\ \A k \in 1..l : b[k] = b[k - 1] + Effect(mail[k])
  BY DEF Course
<1> HIDE DEF l
<1>3. b \in [0..l -> Nat]
  BY DEF l
<1>4. c \in [0..(l + 1) -> Nat]
  BY <1>1, <1>3
<1>5. c[0] = counted /\ c[l + 1] = n + Effect(x)
  BY <1>1, <1>2
<1>6. \A k \in 1..(l + 1) : c[k] = c[k - 1] + Effect(mail'[k])
  <2> SUFFICES ASSUME NEW k \in 1..(l + 1) PROVE c[k] = c[k - 1] + Effect(mail'[k])
    OBVIOUS
  <2>1. CASE k \in 1..l
    BY <1>1, <1>2, <2>1
  <2>2. CASE k = l + 1
    BY <1>1, <1>2, <2>2
  <2> QED BY <1>1, <2>1, <2>2
<1> HIDE DEF c
<1>7. PICK d \in [0..(l + 1) -> Nat] :
        /\ d[0] = counted /\ d[l + 1] = n + Effect(x)
        /\ \A k \in 1..(l + 1) : d[k] = d[k - 1] + Effect(mail'[k])
  BY <1>4, <1>5, <1>6
<1>8. d \in [0..Len(mail') -> Nat] /\ Course(d, n + Effect(x))'
  BY <1>1, <1>7 DEF Course, Effect
<1> QED BY <1>8

\* The controller handles the first one.
LEMMA CourseGoesOn ==
  ASSUME mail \in Seq(Message), mail # <<>>, mail' = Tail(mail), counted \in Nat,
         counted' = IF Head(mail) = Started THEN counted + 1
                    ELSE IF counted > 0 THEN counted - 1 ELSE 0,
         NEW n \in Nat, NEW b \in [0..Len(mail) -> Nat], Course(b, n)
  PROVE  \E c \in [0..Len(mail') -> Nat] : Course(c, n)'
<1> DEFINE l == Len(mail)
           c == [k \in 0..(l - 1) |-> b[k + 1]]
<1>1. /\ l \in Nat \ {0} /\ Len(mail') = l - 1 /\ Head(mail) = mail[1] /\ mail[1] \in Message
      /\ \A k \in 1..(l - 1) : mail'[k] = mail[k + 1]
  BY EmptySeq, HeadTailProperties
<1>2. b[0] = counted /\ b[l] = n /\ \A k \in 1..l : b[k] = b[k - 1] + Effect(mail[k])
  BY DEF Course
<1> HIDE DEF l
<1>3. b \in [0..l -> Nat]
  BY DEF l
<1>4. c \in [0..(l - 1) -> Nat]
  BY <1>1, <1>3
<1>5. c[0] = counted'
  <2>1. b[1] = counted + Effect(mail[1]) /\ b[1] \in Nat /\ c[0] = b[1]
    BY <1>1, <1>2, <1>3
  <2> QED BY <1>1, <2>1, Names DEF Effect, Message
<1>6. c[l - 1] = n
  BY <1>1, <1>2
<1>7. \A k \in 1..(l - 1) : c[k] = c[k - 1] + Effect(mail'[k])
  <2> SUFFICES ASSUME NEW k \in 1..(l - 1) PROVE c[k] = c[k - 1] + Effect(mail'[k])
    OBVIOUS
  <2>1. k + 1 \in 1..l /\ (k + 1) - 1 = k /\ (k - 1) + 1 = k /\ k - 1 \in 0..(l - 1) /\ k \in 0..(l - 1)
    BY <1>1
  <2>2. b[k + 1] = b[k] + Effect(mail[k + 1])
    BY <1>2, <2>1
  <2>3. c[k] = b[k + 1] /\ c[k - 1] = b[k]
    BY <2>1
  <2> QED BY <1>1, <2>2, <2>3
<1> HIDE DEF c
<1>8. PICK d \in [0..(l - 1) -> Nat] :
        /\ d[0] = counted' /\ d[l - 1] = n
        /\ \A k \in 1..(l - 1) : d[k] = d[k - 1] + Effect(mail'[k])
  BY <1>4, <1>5, <1>6, <1>7
<1>9. d \in [0..Len(mail') -> Nat] /\ Course(d, n)'
  BY <1>1, <1>8 DEF Course, Effect
<1> QED BY <1>9

\* What is told agrees with what changes: the balance stays.
Agrees(change) ==
  \/ change = 0 /\ mail' = mail
  \/ \E x \in Message : change = Effect(x) /\ Tell(x)

LEMMA BalanceStays ==
  ASSUME QueueTypeOK, Balanced, counted' = counted, NEW change \in Int, Agrees(change),
         NEW n \in Nat, n = SpeechPlays + SoundPlays,
         n + change \in Nat, (SpeechPlays + SoundPlays)' = n + change
  PROVE  Balanced'
<1>1. mail \in Seq(Message)
  BY DEF QueueTypeOK, Message
<1>2. PICK b \in [0..Len(mail) -> Nat] : Course(b, n)
  BY DEF Balanced
<1>3. CASE change = 0 /\ mail' = mail
  <2>1. Course(b, n)' /\ b \in [0..Len(mail') -> Nat] /\ (SpeechPlays + SoundPlays)' = n
    BY <1>2, <1>3 DEF Course
  <2> QED BY <2>1 DEF Balanced
<1>4. ASSUME NEW x \in Message, change = Effect(x), Tell(x) PROVE Balanced'
  <2>1. PICK c \in [0..Len(mail') -> Nat] : Course(c, n + Effect(x))'
    BY <1>1, <1>2, <1>4, CourseGrows DEF Tell
  <2> QED BY <1>4, <2>1 DEF Balanced, Course
<1> QED BY <1>3, <1>4 DEF Agrees

-----------------------------------------------------------------------------
(***************************************************************************)
(* The sounds.                                                             *)
(***************************************************************************)
LEMMA SubsetsFinite ==
  ASSUME NEW T \in SUBSET Requests
  PROVE  IsFiniteSet(T) /\ Cardinality(T) \in Nat /\ Cardinality(T) <= Cardinality(Requests)
BY RequestsAssumption, FS_Subset, FS_CardinalityType

LEMMA PlacesFinite ==
  ASSUME NEW n \in Nat, NEW P \in SUBSET (1..n)
  PROVE  IsFiniteSet(P) /\ Cardinality(P) \in Nat
<1>1. IsFiniteSet(1..n)
  BY FS_Interval
<1> QED BY <1>1, FS_Subset, FS_CardinalityType

\* The number of pausing sounds in a queue that gets one more.
LEMMA PausingAppend ==
  ASSUME NEW s \in Seq(Queued), NEW x \in Queued
  PROVE  /\ Cardinality(PausingPlaces(s)) \in Nat
         /\ Cardinality(PausingPlaces(Append(s, x))) =
              Cardinality(PausingPlaces(s)) + (IF x = Pausing THEN 1 ELSE 0)
<1> DEFINE P == PausingPlaces(s)
           n == Len(s)
<1>1. n \in Nat /\ P \in SUBSET (1..n) /\ n + 1 \notin P
  BY LenProperties DEF PausingPlaces
<1>2. /\ Len(Append(s, x)) = n + 1 /\ Append(s, x)[n + 1] = x
      /\ \A i \in 1..n : Append(s, x)[i] = s[i]
  BY AppendProperties
<1>3. PausingPlaces(Append(s, x)) = IF x = Pausing THEN P \cup {n + 1} ELSE P
  BY <1>1, <1>2 DEF PausingPlaces
<1> HIDE DEF P, n
<1>4. IsFiniteSet(P) /\ Cardinality(P) \in Nat
  BY <1>1, PlacesFinite
<1>5. Cardinality(P \cup {n + 1}) = Cardinality(P) + 1
  BY <1>1, <1>4, FS_AddElement
<1> QED BY <1>3, <1>4, <1>5 DEF P

\* And in one that loses its head, whose places move down by one.
LEMMA PausingTail ==
  ASSUME NEW s \in Seq(Queued), s # <<>>
  PROVE  /\ Cardinality(PausingPlaces(Tail(s))) \in Nat
         /\ Cardinality(PausingPlaces(s)) =
              Cardinality(PausingPlaces(Tail(s))) + (IF Head(s) = Pausing THEN 1 ELSE 0)
<1> DEFINE P == PausingPlaces(s)
           D == PausingPlaces(Tail(s))
           n == Len(s)
           f == [i \in D |-> i + 1]
<1>1. /\ n \in Nat \ {0} /\ P \in SUBSET (1..n) /\ Head(s) = s[1]
      /\ Len(Tail(s)) = n - 1 /\ \A i \in 1..(n - 1) : Tail(s)[i] = s[i + 1]
  BY EmptySeq, HeadTailProperties DEF PausingPlaces
<1>2. /\ D \in SUBSET (1..(n - 1))
      /\ \A i : i \in D <=> (i \in 1..(n - 1) /\ i + 1 \in P)
  BY <1>1 DEF PausingPlaces
<1>3. 1 \in P <=> Head(s) = Pausing
  BY <1>1 DEF PausingPlaces
<1> HIDE DEF P, D, n
<1>4. IsFiniteSet(P) /\ Cardinality(P) \in Nat /\ IsFiniteSet(D) /\ Cardinality(D) \in Nat
  <2>1. n - 1 \in Nat
    BY <1>1
  <2> QED BY <1>1, <1>2, <2>1, PlacesFinite
<1>5. f \in Bijection(D, P \ {1})
  <2>1. f \in [D -> P \ {1}]
    <3>1. \A i \in D : i + 1 \in P \ {1}
      BY <1>1, <1>2
    <3> QED BY <3>1
  <2>2. \A i, j \in D : f[i] = f[j] => i = j
    BY <1>2
  <2>3. ASSUME NEW k \in P \ {1} PROVE \E i \in D : f[i] = k
    <3>1. k - 1 \in 1..(n - 1) /\ (k - 1) + 1 = k
      BY <1>1
    <3>2. k - 1 \in D
      BY <1>2, <3>1
    <3> QED BY <3>1, <3>2
  <2>4. DOMAIN f = D
    OBVIOUS
  <2> HIDE DEF f
  <2> QED BY <2>1, <2>2, <2>3, <2>4, Zenon DEF Bijection, Injection, Surjection, IsInjective
<1> HIDE DEF f
<1>6. Cardinality(P \ {1}) = Cardinality(D)
  <2>1. ExistsBijection(D, P \ {1})
    BY <1>5, Zenon DEF ExistsBijection
  <2> QED BY <1>4, <2>1, FS_Bijection
<1>7. Cardinality(P \ {1}) = IF 1 \in P THEN Cardinality(P) - 1 ELSE Cardinality(P)
  BY <1>4, FS_RemoveElement
<1>8. Cardinality(P) = Cardinality(D) + (IF Head(s) = Pausing THEN 1 ELSE 0)
  BY <1>3, <1>4, <1>6, <1>7
<1> QED BY <1>4, <1>8 DEF P, D

LEMMA NoPausing ==
  ASSUME NEW s \in Seq(Queued)
  PROVE  /\ Cardinality(PausingPlaces(s)) \in Nat
         /\ Cardinality(PausingPlaces(s)) = 0 <=> Pausing \notin ToSet(s)
<1>1. Len(s) \in Nat /\ PausingPlaces(s) \in SUBSET (1..Len(s)) /\ DOMAIN s = 1..Len(s)
  BY LenProperties DEF PausingPlaces
<1>2. IsFiniteSet(PausingPlaces(s)) /\ Cardinality(PausingPlaces(s)) \in Nat
  BY <1>1, PlacesFinite
<1>3. (Cardinality(PausingPlaces(s)) = 0) <=> (PausingPlaces(s) = {})
  BY <1>2, FS_EmptySet
<1>4. (PausingPlaces(s) = {}) <=> (Pausing \notin ToSet(s))
  BY <1>1 DEF PausingPlaces, ToSet
<1> QED BY <1>2, <1>3, <1>4

-----------------------------------------------------------------------------
(***************************************************************************)
(* The balance of the sounds.                                              *)
(***************************************************************************)
LEMMA SpeechPlaysType ==
  ASSUME told \subseteq Announces
  PROVE  SpeechPlays \in Nat
<1>1. Announcing \in SUBSET Requests /\ Lasts \in SUBSET Requests
  BY RequestsAssumption DEF Announcing, Lasts
<1>2. Cardinality(Announcing) \in Nat /\ Cardinality(Lasts) \in Nat
  BY <1>1, SubsetsFinite
<1> QED BY <1>2 DEF SpeechPlays

LEMMA SoundPlaysType ==
  ASSUME QueueTypeOK
  PROVE  SoundPlays \in Nat /\ Cardinality(PausingPlaces(sounds)) \in Nat
<1>1. Cardinality(PausingPlaces(sounds)) \in Nat
  BY NoPausing DEF QueueTypeOK, Queued
<1> QED BY <1>1 DEF SoundPlays

LEMMA SpeechBalance ==
  ASSUME IInv, ~skipped, UNCHANGED <<counted, sounds, sounding>>, told' \subseteq Announces,
         NEW change \in Int, Agrees(change), SpeechPlays' = SpeechPlays + change
  PROVE  Balanced'
<1>1. QueueTypeOK /\ told \subseteq Announces /\ Balanced
  BY DEF IInv, TypeOK
<1>2. SoundPlays' = SoundPlays
  BY DEF SoundPlays, PausingPlaces
<1>3. SpeechPlays' \in Nat
  <2>1. Announcing' \in SUBSET Requests /\ Lasts' \in SUBSET Requests
    BY RequestsAssumption DEF Announcing, Lasts
  <2>2. Cardinality(Announcing') \in Nat /\ Cardinality(Lasts') \in Nat
    BY <2>1, SubsetsFinite
  <2> QED BY <2>2 DEF SpeechPlays
<1> DEFINE n == SpeechPlays + SoundPlays
<1>4. n \in Nat /\ n + change \in Nat /\ (SpeechPlays + SoundPlays)' = n + change
  BY <1>1, <1>2, <1>3, SpeechPlaysType, SoundPlaysType
<1> QED BY <1>1, <1>4, BalanceStays

LEMMA SoundBalance ==
  ASSUME IInv, ~skipped, UNCHANGED <<counted, active, told, pc>>,
         NEW change \in Int, Agrees(change), SoundPlays' \in Nat, SoundPlays' = SoundPlays + change
  PROVE  Balanced'
<1>1. QueueTypeOK /\ told \subseteq Announces /\ Balanced
  BY DEF IInv, TypeOK
<1>2. SpeechPlays' = SpeechPlays
  BY DEF SpeechPlays, Announcing, Lasts, Firsts
<1> DEFINE n == SpeechPlays + SoundPlays
<1>3. n \in Nat /\ n + change \in Nat /\ (SpeechPlays + SoundPlays)' = n + change
  BY <1>1, <1>2, SpeechPlaysType, SoundPlaysType
<1> QED BY <1>1, <1>3, BalanceStays

LEMMA FeedbackBalance ==
  ASSUME IInv, Feedback, ~skipped
  PROVE  Balanced'
<1>1. /\ TypeOK /\ QueueTypeOK /\ Balanced
      /\ sounds \in Seq(Queued) /\ mail \in Seq(Message) /\ counted \in Nat
  BY DEF IInv, TypeOK, QueueTypeOK, Queued, Message
<1>2. UNCHANGED <<active, told, pc>>
  BY DEF Feedback, managerVars
<1>3. SoundPlays \in Nat /\ SoundPlays' \in Nat
  <2>1. Cardinality(PausingPlaces(sounds')) \in Nat
    BY <1>1, FeedbackTypes, NoPausing DEF TypeOK, QueueTypeOK, Queued
  <2> QED BY <1>1, <2>1, SoundPlaysType DEF SoundPlays, PausingPlaces
<1>4. CASE ControllerHandles
  <2>1. SpeechPlays' = SpeechPlays /\ SoundPlays' = SoundPlays
    BY <1>2, <1>4 DEF ControllerHandles, SpeechPlays, SoundPlays, Announcing, Lasts, Firsts, PausingPlaces
  <2>2. SpeechPlays + SoundPlays \in Nat
    BY <1>1, SpeechPlaysType, SoundPlaysType DEF TypeOK
  <2>3. PICK b \in [0..Len(mail) -> Nat] : Course(b, SpeechPlays + SoundPlays)
    BY <1>1 DEF Balanced
  <2> DEFINE n == SpeechPlays + SoundPlays
  <2>4. PICK m \in Nat : m = n
    BY <2>2
  <2>5. \E c \in [0..Len(mail') -> Nat] : Course(c, m)'
    BY <1>1, <1>4, <2>3, <2>4, CourseGoesOn DEF ControllerHandles
  <2> QED BY <2>1, <2>4, <2>5 DEF Balanced, Course
<1>5. ASSUME UNCHANGED <<mail, counted>>, SoundPlays' = SoundPlays
      PROVE  Balanced'
  BY <1>2, <1>3, <1>5, SoundBalance DEF Agrees
<1>6. ASSUME NEW x \in Queued, sounds' = Append(sounds, x), UNCHANGED <<mail, counted, sounding>>,
             x # Pausing
      PROVE  Balanced'
  <2>1. SoundPlays' = SoundPlays
    BY <1>1, <1>6, PausingAppend DEF SoundPlays, PausingPlaces
  <2> QED BY <1>5, <1>6, <2>1
<1>7. CASE OutputWorker
  <2>1. CASE TakesSound
    <3>1. Cardinality(PausingPlaces(sounds)) =
            Cardinality(PausingPlaces(sounds')) + (IF Head(sounds) = Pausing THEN 1 ELSE 0)
      BY <1>1, <2>1, PausingTail DEF TakesSound
    <3>2. Cardinality(PausingPlaces(sounds')) \in Nat
      BY <1>1, <2>1, PausingTail DEF TakesSound
    <3>3. SoundPlays' = SoundPlays
      <4>1. SoundPlays' = Cardinality(PausingPlaces(sounds')) + (IF sounding' = Pausing THEN 1 ELSE 0)
        BY DEF SoundPlays, PausingPlaces
      <4>2. sounding # Pausing /\ sounding' = Head(sounds)
        BY <2>1, Names DEF TakesSound
      <4> QED BY <3>1, <3>2, <4>1, <4>2 DEF SoundPlays
    <3> QED BY <1>5, <2>1, <3>3 DEF TakesSound
  <2>2. CASE SoundOver /\ sounding = Pausing
    <3>1. SoundPlays' = SoundPlays - 1
      BY <1>1, <2>2, Names, SoundPlaysType DEF SoundOver, SoundPlays, PausingPlaces
    <3>2. Agrees(-1)
      BY <2>2, EffectIs DEF SoundOver, Agrees, Message
    <3>3. SoundPlays' = SoundPlays + (-1)
      BY <1>3, <3>1
    <3> QED BY <1>2, <1>3, <2>2, <3>2, <3>3, SoundBalance DEF SoundOver
  <2>3. CASE SoundOver /\ sounding # Pausing
    <3>1. SoundPlays' = SoundPlays
      BY <2>3, Names DEF SoundOver, SoundPlays, PausingPlaces
    <3> QED BY <1>5, <2>3, <3>1 DEF SoundOver
  <2>4. CASE ChunkOver
    <3>1. SoundPlays' = SoundPlays
      BY <2>4, Names DEF ChunkOver, SoundPlays, PausingPlaces
    <3> QED BY <1>5, <2>4, <3>1 DEF ChunkOver
  <2>5. CASE NextChunk
    <3>0. SoundPlays' = Cardinality(PausingPlaces(sounds')) + (IF sounding' = Pausing THEN 1 ELSE 0)
      BY DEF SoundPlays, PausingPlaces
    <3>1. SoundPlays' = SoundPlays
      <4>1. Cardinality(PausingPlaces(sounds')) = Cardinality(PausingPlaces(sounds))
        BY <1>1, <2>5, Names, PausingAppend, SoundPlaysType DEF NextChunk, Queued
      <4>2. sounding # Pausing /\ sounding' # Pausing
        BY <2>5, Names DEF NextChunk
      <4> QED BY <3>0, <4>1, <4>2 DEF SoundPlays
    <3> QED BY <1>5, <2>5, <3>1 DEF NextChunk
  <2> QED BY <1>7, <2>1, <2>2, <2>3, <2>4, <2>5 DEF OutputWorker
<1>8. CASE Toggles \/ StopLoop
  <2>1. SoundPlays' = SoundPlays
    BY <1>8 DEF Toggles, StopLoop, SoundPlays, PausingPlaces
  <2> QED BY <1>5, <1>8, <2>1 DEF Toggles, StopLoop
<1>9. ASSUME NEW pause \in BOOLEAN, PlayFile(pause) PROVE Balanced'
  <2>1. CASE pause /\ ~off
    <3>1. SoundPlays' = SoundPlays + 1
      BY <1>1, <1>9, <2>1, PausingAppend DEF PlayFile, SoundPlays, PausingPlaces, Queued
    <3>2. Agrees(1)
      BY <1>9, <2>1, EffectIs DEF PlayFile, Agrees, Message
    <3> QED BY <1>2, <1>3, <1>9, <3>1, <3>2, SoundBalance DEF PlayFile
  <2>2. CASE ~(pause /\ ~off)
    BY <1>6, <1>9, <2>2, Names DEF PlayFile, Queued
  <2> QED BY <2>1, <2>2
<1>10. CASE StartLoop
  BY <1>6, <1>10, Names DEF StartLoop, Queued
<1> QED BY <1>4, <1>7, <1>8, <1>9, <1>10 DEF Feedback

-----------------------------------------------------------------------------
(***************************************************************************)
(* The count of the active, and the balance of the speech.                 *)
(***************************************************************************)
Counts == {"counted", "asks", "waiting", "returned"}

LEMMA Counting ==
  ASSUME NEW T \in SUBSET Requests, NEW r \in Requests
  PROVE  /\ Cardinality(T) \in Nat
         /\ Cardinality(T \cup {r}) = IF r \in T THEN Cardinality(T) ELSE Cardinality(T) + 1
         /\ Cardinality(T \ {r}) = IF r \in T THEN Cardinality(T) - 1 ELSE Cardinality(T)
         /\ r \in T => Cardinality(T) > 0
         /\ T = {} <=> Cardinality(T) = 0
<1>1. IsFiniteSet(T) /\ Cardinality(T) \in Nat
  BY SubsetsFinite
<1>2. /\ Cardinality(T \cup {r}) = IF r \in T THEN Cardinality(T) ELSE Cardinality(T) + 1
      /\ Cardinality(T \ {r}) = IF r \in T THEN Cardinality(T) - 1 ELSE Cardinality(T)
  BY <1>1, FS_AddElement, FS_RemoveElement
<1>3. (T = {}) <=> (Cardinality(T) = 0)
  BY <1>1, FS_EmptySet
<1>4. r \in T => Cardinality(T) > 0
  BY <1>1, <1>3
<1> QED BY <1>1, <1>2, <1>3, <1>4

\* What a request's step does to the four sets.
LEMMA SetsMove ==
  ASSUME TypeOK, NEW r \in Requests, NEW to \in Place, pc' = [pc EXCEPT ![r] = to]
  PROVE  /\ Acting' = IF r \notin Announces /\ to \in Counts THEN Acting \cup {r} ELSE Acting \ {r}
         /\ Firsts' = IF to = "counted" THEN Firsts \cup {r} ELSE Firsts \ {r}
         /\ Lasts' = IF to = "last" THEN Lasts \cup {r} ELSE Lasts \ {r}
         /\ told' = told =>
              Announcing' = IF r \in told /\ to # "done" THEN Announcing \cup {r} ELSE Announcing \ {r}
<1>1. /\ pc'[r] = to /\ \A q \in Requests : q # r => pc'[q] = pc[q]
      /\ told \subseteq Requests
  BY RequestsAssumption DEF TypeOK
<1>2. Acting' = IF r \notin Announces /\ to \in Counts THEN Acting \cup {r} ELSE Acting \ {r}
  BY <1>1 DEF Acting, Counts
<1>3. Firsts' = IF to = "counted" THEN Firsts \cup {r} ELSE Firsts \ {r}
  BY <1>1 DEF Firsts
<1>4. Lasts' = IF to = "last" THEN Lasts \cup {r} ELSE Lasts \ {r}
  BY <1>1 DEF Lasts
<1>5. told' = told =>
        Announcing' = IF r \in told /\ to # "done" THEN Announcing \cup {r} ELSE Announcing \ {r}
  BY <1>1 DEF Announcing
<1> QED BY <1>2, <1>3, <1>4, <1>5

LEMMA SetsAre ==
  ASSUME IInv
  PROVE  /\ Acting \in SUBSET Requests /\ Firsts \in SUBSET Acting /\ Lasts \in SUBSET Requests
         /\ Announcing \in SUBSET Requests /\ told \subseteq Announces
         /\ Acting \cap Announces = {} /\ (Firsts \cup Lasts) \cap Announces = {}
         /\ active = Cardinality(Acting) /\ active \in Nat
         /\ \A r \in Requests : /\ r \in Acting <=> r \notin Announces /\ pc[r] \in Counts
                                /\ r \in Firsts <=> pc[r] = "counted"
                                /\ r \in Lasts <=> pc[r] = "last"
                                /\ r \in Announcing <=> r \in told /\ pc[r] # "done"
BY RequestsAssumption
   DEF IInv, TypeOK, ActiveIsCounted, Acting, Firsts, Lasts, Announcing, Counts

\* What the requests' threads keep of the two invariants.
Counted == ActiveIsCounted' /\ (~skipped' => Balanced')

LEMMA BeginsCounts ==
  ASSUME IInv, NEW r \in Requests, Begins(r)
  PROVE  Counted
<1>1. /\ pc[r] = "idle" /\ UNCHANGED <<off, counted, sounds, sounding, skipped>>
      /\ \/ /\ r \in Announces /\ off /\ pc' = [pc EXCEPT ![r] = "asks"]
            /\ mail' = mail /\ told' = told /\ active' = active
         \/ /\ r \in Announces /\ ~off /\ pc' = [pc EXCEPT ![r] = "asks"]
            /\ Tell(Started) /\ told' = told \cup {r} /\ active' = active
         \/ /\ r \notin Announces /\ active = 0 /\ pc' = [pc EXCEPT ![r] = "counted"]
            /\ mail' = mail /\ told' = told /\ active' = active + 1
         \/ /\ r \notin Announces /\ active # 0 /\ pc' = [pc EXCEPT ![r] = "asks"]
            /\ mail' = mail /\ told' = told /\ active' = active + 1
  BY DEF Begins, Goes
<1>2. /\ r \notin Acting /\ r \notin Firsts /\ r \notin Lasts /\ r \notin told /\ r \notin Announcing
  BY <1>1, SetsAre DEF IInv, ActiveIsCounted, Counts
<1>3. TypeOK /\ pc \in [Requests -> Place] /\ ActiveIsCounted /\ told \subseteq Announces
  BY DEF IInv, TypeOK
<1>4. \A q \in told' : pc'[q] # "idle"
  BY <1>1, <1>3, RequestsAssumption DEF ActiveIsCounted
<1>5. /\ Acting \ {r} = Acting /\ Firsts \ {r} = Firsts /\ Lasts \ {r} = Lasts
      /\ Announcing \ {r} = Announcing /\ r \notin told
  BY <1>2
<1>6. CASE r \in Announces
  <2>1. pc' = [pc EXCEPT ![r] = "asks"] /\ active' = active
    BY <1>1, <1>6
  <2>2. Acting' = Acting /\ Firsts' = Firsts /\ Lasts' = Lasts
    <3>1. Acting' = Acting \ {r} /\ Firsts' = Firsts \ {r} /\ Lasts' = Lasts \ {r}
      BY <1>3, <1>6, <2>1, SetsMove DEF Place
    <3> QED BY <1>5, <3>1
  <2>3. ActiveIsCounted'
    BY <1>3, <1>4, <2>1, <2>2 DEF ActiveIsCounted
  <2>4. CASE off
    <3>1. Announcing' = Announcing
      <4>1. told' = told
        BY <1>1, <1>6, <2>4
      <4>2. Announcing' = Announcing \ {r}
        BY <1>3, <1>5, <2>1, <4>1, SetsMove DEF Place
      <4> QED BY <1>5, <4>2
    <3>2. SpeechPlays' = SpeechPlays + 0
      BY <1>3, <2>1, <2>2, <3>1, SpeechPlaysType DEF SpeechPlays
    <3>3. Agrees(0) /\ told' \subseteq Announces
      BY <1>1, <1>3, <1>6, <2>4 DEF Agrees
    <3> QED BY <1>1, <2>3, <3>2, <3>3, SpeechBalance DEF Counted
  <2>5. CASE ~off
    <3>1. told' = told \cup {r} /\ Tell(Started)
      BY <1>1, <1>6, <2>5
    <3>2. Announcing' = Announcing \cup {r}
      BY <1>3, <2>1, <3>1, RequestsAssumption DEF Announcing
    <3>3. Cardinality(Announcing') = Cardinality(Announcing) + 1 /\ Cardinality(Announcing) \in Nat
      BY <1>2, <3>2, SetsAre, Counting
    <3>4. SpeechPlays' = SpeechPlays + 1
      <4>1. Cardinality(Lasts) \in Nat
        BY SetsAre, Counting
      <4> QED BY <2>1, <2>2, <3>3, <4>1 DEF SpeechPlays
    <3>5. Agrees(1) /\ told' \subseteq Announces
      BY <1>3, <1>6, <3>1, EffectIs DEF Agrees, Message
    <3> QED BY <1>1, <2>3, <3>4, <3>5, SpeechBalance DEF Counted
  <2> QED BY <2>4, <2>5
<1>7. CASE r \notin Announces
  <2>1. /\ mail' = mail /\ told' = told /\ active' = active + 1
        /\ \/ active = 0 /\ pc' = [pc EXCEPT ![r] = "counted"]
           \/ active # 0 /\ pc' = [pc EXCEPT ![r] = "asks"]
    BY <1>1, <1>7
  <2>2. Acting' = Acting \cup {r} /\ Lasts' = Lasts /\ Announcing' = Announcing
    <3>1. PICK to \in {"counted", "asks"} : pc' = [pc EXCEPT ![r] = to]
      BY <2>1
    <3>2. to \in Place /\ to \in Counts /\ to # "last"
      BY DEF Place, Counts
    <3>3. Acting' = Acting \cup {r} /\ Lasts' = Lasts \ {r} /\ Announcing' = Announcing \ {r}
      BY <1>3, <1>5, <1>7, <2>1, <3>1, <3>2, SetsMove
    <3> QED BY <1>5, <3>3
  <2>3. active' = Cardinality(Acting') /\ active \in Nat
    BY <1>2, <2>1, <2>2, SetsAre, Counting
  <2>4. CASE active = 0
    <3>1. Firsts = {}
      <4>1. Acting = {}
        BY <2>4, SetsAre, Counting
      <4> QED BY <4>1, SetsAre
    <3>2. Firsts' = {r}
      BY <1>3, <2>1, <2>4, <3>1, SetsMove DEF Place
    <3>3. ActiveIsCounted'
      BY <1>3, <1>4, <1>7, <2>2, <2>3, <3>2 DEF ActiveIsCounted
    <3>4. SpeechPlays' = SpeechPlays + 0
      BY <1>3, <2>2, <2>4, <3>2, SpeechPlaysType DEF SpeechPlays
    <3> QED BY <1>1, <1>3, <2>1, <3>3, <3>4, SpeechBalance DEF Counted, Agrees
  <2>5. CASE active # 0
    <3>1. Firsts' = Firsts
      <4>1. Firsts' = Firsts \ {r}
        BY <1>3, <2>1, <2>5, SetsMove DEF Place
      <4> QED BY <1>5, <4>1
    <3>2. ActiveIsCounted'
      BY <1>3, <1>4, <1>7, <2>2, <2>3, <3>1 DEF ActiveIsCounted
    <3>3. SpeechPlays' = SpeechPlays + 0
      BY <1>3, <2>1, <2>2, <2>3, <2>5, <3>1, SpeechPlaysType DEF SpeechPlays
    <3> QED BY <1>1, <1>3, <2>1, <3>2, <3>3, SpeechBalance DEF Counted, Agrees
  <2> QED BY <2>4, <2>5
<1> QED BY <1>6, <1>7

\* A request stays among those that are counted, and tells nobody.
LEMMA StaysCounted ==
  ASSUME IInv, NEW r \in Requests, NEW to \in {"waiting", "returned"},
         pc[r] \in {"asks", "waiting"}, pc' = [pc EXCEPT ![r] = to],
         UNCHANGED <<active, told, mail, counted, sounds, sounding, skipped>>
  PROVE  Counted
<1>1. TypeOK /\ ActiveIsCounted /\ told \subseteq Announces /\ pc \in [Requests -> Place]
  BY DEF IInv, TypeOK
<1>2. /\ to \in Place /\ to \in Counts /\ to # "counted" /\ to # "last" /\ to # "done" /\ to # "idle"
      /\ pc[r] \in Counts /\ pc[r] # "counted" /\ pc[r] # "last" /\ pc[r] # "done"
  BY DEF Place, Counts
<1>3. /\ r \in Acting <=> r \notin Announces
      /\ r \notin Firsts /\ r \notin Lasts /\ (r \in Announcing <=> r \in told)
  BY <1>2, SetsAre
<1>4. Acting' = Acting /\ Firsts' = Firsts /\ Lasts' = Lasts /\ Announcing' = Announcing
  <2>1. /\ Acting' = IF r \notin Announces THEN Acting \cup {r} ELSE Acting \ {r}
        /\ Firsts' = Firsts \ {r} /\ Lasts' = Lasts \ {r}
        /\ Announcing' = IF r \in told THEN Announcing \cup {r} ELSE Announcing \ {r}
    BY <1>1, <1>2, SetsMove
  <2> QED BY <1>3, <2>1
<1>5. ActiveIsCounted'
  BY <1>1, <1>2, <1>4 DEF ActiveIsCounted
<1>6. SpeechPlays' = SpeechPlays + 0
  BY <1>1, <1>4, SpeechPlaysType DEF SpeechPlays
<1> QED BY <1>1, <1>5, <1>6, SpeechBalance DEF Counted, Agrees

LEMMA TellsFirstCounts ==
  ASSUME IInv, NEW r \in Requests, TellsFirst(r)
  PROVE  Counted
<1>1. /\ pc[r] = "counted" /\ pc' = [pc EXCEPT ![r] = "asks"]
      /\ UNCHANGED <<active, told, counted, sounds, sounding>>
      /\ IF off THEN skipped' = TRUE ELSE Tell(Started)
      /\ skipped => skipped'
  BY DEF TellsFirst, Goes
<1>2. TypeOK /\ ActiveIsCounted /\ told \subseteq Announces
  BY DEF IInv, TypeOK
<1>3. r \in Firsts /\ r \in Acting /\ r \notin Announces /\ r \notin Lasts /\ r \notin told /\ r \notin Announcing
  BY <1>1, SetsAre, RequestsAssumption
<1>4. Acting' = Acting /\ Firsts' = {} /\ Lasts' = Lasts /\ Announcing' = Announcing
  <2>1. /\ Acting' = Acting \cup {r} /\ Firsts' = Firsts \ {r} /\ Lasts' = Lasts \ {r}
        /\ Announcing' = Announcing \ {r}
    BY <1>1, <1>2, <1>3, SetsMove DEF Place, Counts
  <2>2. Firsts = {r}
    BY <1>2, <1>3 DEF ActiveIsCounted
  <2> QED BY <1>3, <2>1, <2>2
<1>5. ActiveIsCounted'
  <2>1. \A q \in told : pc'[q] # "idle"
    BY <1>1, <1>2 DEF ActiveIsCounted, TypeOK
  <2> QED BY <1>1, <1>2, <1>4, <2>1 DEF ActiveIsCounted
<1>6. SpeechPlays' = SpeechPlays + 1
  <2>1. Acting \in SUBSET Requests /\ active = Cardinality(Acting)
    BY SetsAre
  <2>2. active > 0
    BY <1>3, <2>1, Counting
  <2>3. Cardinality(Announcing) \in Nat /\ Cardinality(Lasts) \in Nat
    BY SetsAre, SubsetsFinite
  <2> QED BY <1>1, <1>3, <1>4, <2>2, <2>3 DEF SpeechPlays
<1>7. ASSUME ~skipped' PROVE Balanced'
  <2>1. Agrees(1) /\ ~skipped
    BY <1>1, <1>7, EffectIs DEF Agrees, Message
  <2> QED BY <1>1, <1>2, <1>6, <2>1, SpeechBalance
<1> QED BY <1>5, <1>7 DEF Counted

LEMMA EndsCounts ==
  ASSUME IInv, NEW r \in Requests, Ends(r)
  PROVE  Counted
<1>1. /\ pc[r] = "returned" /\ UNCHANGED <<told, counted, sounds, sounding, skipped>>
      /\ r \in Announces => /\ pc' = [pc EXCEPT ![r] = "done"] /\ active' = active
                            /\ IF r \in told THEN Tell(Completed) ELSE mail' = mail
      /\ r \notin Announces => /\ pc' = [pc EXCEPT ![r] = IF active = 1 THEN "last" ELSE "done"]
                               /\ active' = active - 1 /\ mail' = mail
  BY DEF Ends, Goes
<1>2. TypeOK /\ ActiveIsCounted /\ told \subseteq Announces /\ pc \in [Requests -> Place]
  BY DEF IInv, TypeOK
<1>3. r \notin Firsts /\ r \notin Lasts /\ (r \in Announcing <=> r \in told)
      /\ (r \in Acting <=> r \notin Announces)
  BY <1>1, SetsAre DEF Counts
<1>4. \A q \in told' : pc'[q] # "idle"
  BY <1>1, <1>2, RequestsAssumption DEF ActiveIsCounted
<1>5. Cardinality(Announcing) \in Nat /\ Cardinality(Lasts) \in Nat /\ active \in Nat
  BY SetsAre, Counting
<1>6. CASE r \in Announces
  <2>1. Acting' = Acting \ {r} /\ Firsts' = Firsts \ {r} /\ Lasts' = Lasts \ {r}
        /\ Announcing' = Announcing \ {r}
    BY <1>1, <1>2, <1>6, SetsMove DEF Place
  <2>2. Acting' = Acting /\ Firsts' = Firsts /\ Lasts' = Lasts
    BY <1>3, <1>6, <2>1
  <2>3. ActiveIsCounted'
    BY <1>1, <1>2, <1>4, <1>6, <2>2 DEF ActiveIsCounted
  <2>4. CASE r \in told
    <3>1. Cardinality(Announcing') = Cardinality(Announcing) - 1
      BY <1>3, <2>1, <2>4, SetsAre, Counting
    <3>2. SpeechPlays' = SpeechPlays + (-1)
      BY <1>1, <1>5, <1>6, <2>2, <3>1 DEF SpeechPlays
    <3>3. Agrees(-1)
      BY <1>1, <1>6, <2>4, EffectIs DEF Agrees, Message
    <3> QED BY <1>1, <1>2, <2>3, <3>2, <3>3, SpeechBalance DEF Counted
  <2>5. CASE r \notin told
    <3>1. Announcing' = Announcing
      BY <1>3, <2>1, <2>5
    <3>2. SpeechPlays' = SpeechPlays + 0
      BY <1>1, <1>2, <1>6, <2>2, <3>1, SpeechPlaysType DEF SpeechPlays
    <3>3. Agrees(0)
      BY <1>1, <1>6, <2>5 DEF Agrees
    <3> QED BY <1>1, <1>2, <2>3, <3>2, <3>3, SpeechBalance DEF Counted
  <2> QED BY <2>4, <2>5
<1>7. CASE r \notin Announces
  <2> DEFINE to == IF active = 1 THEN "last" ELSE "done"
  <2>1. /\ pc' = [pc EXCEPT ![r] = to] /\ active' = active - 1 /\ mail' = mail
        /\ r \notin told /\ r \notin Announcing /\ r \in Acting
    BY <1>1, <1>2, <1>3, <1>7
  <2>2. /\ to \in Place /\ to \notin Counts /\ to # "counted" /\ to # "idle"
    BY DEF Place, Counts
  <2>3. /\ Acting' = Acting \ {r} /\ Firsts' = Firsts \ {r} /\ Announcing' = Announcing \ {r}
        /\ Lasts' = IF to = "last" THEN Lasts \cup {r} ELSE Lasts \ {r}
    <3> HIDE DEF to
    <3> QED BY <1>1, <1>2, <2>1, <2>2, SetsMove
  <2>4. Firsts' = Firsts /\ Announcing' = Announcing
    BY <1>3, <2>1, <2>3
  <2>5. active' = Cardinality(Acting') /\ active > 0
    <3>1. Acting \in SUBSET Requests /\ active = Cardinality(Acting)
      BY SetsAre
    <3>2. Cardinality(Acting) > 0 /\ Cardinality(Acting \ {r}) = Cardinality(Acting) - 1
      BY <2>1, <3>1, Counting
    <3> QED BY <2>1, <2>3, <3>1, <3>2
  <2>6. ActiveIsCounted'
    <3>1. Lasts' \subseteq Requests \ Announces
      BY <1>2, <1>7, <2>3 DEF ActiveIsCounted
    <3> QED BY <1>2, <1>4, <2>4, <2>5, <3>1 DEF ActiveIsCounted
  <2>7. SpeechPlays' = SpeechPlays + 0
    <3>1. CASE active = 1
      <4>1. Firsts = {}
        <5>1. Acting \ {r} = {}
          <6>1. Cardinality(Acting \ {r}) = 0 /\ Acting \ {r} \in SUBSET Requests
            BY <2>3, <2>5, <2>1, <3>1, SetsAre
          <6> QED BY <6>1, Counting
        <5> QED BY <1>3, <5>1, SetsAre
      <4>2. Cardinality(Lasts') = Cardinality(Lasts) + 1
        BY <1>3, <2>3, <3>1, SetsAre, Counting
      <4>3. active' = 0
        BY <2>1, <3>1
      <4> QED BY <1>5, <2>4, <3>1, <4>1, <4>2, <4>3 DEF SpeechPlays
    <3>2. CASE active # 1
      <4>1. Lasts' = Lasts
        BY <1>3, <2>3, <3>2
      <4>2. active' > 0
        BY <1>5, <2>1, <2>5, <3>2
      <4> QED BY <1>5, <2>4, <2>5, <4>1, <4>2 DEF SpeechPlays
    <3> QED BY <3>1, <3>2
  <2> HIDE DEF to
  <2>8. Agrees(0)
    BY <2>1 DEF Agrees
  <2> QED BY <1>1, <1>2, <2>6, <2>7, <2>8, SpeechBalance DEF Counted
<1> QED BY <1>6, <1>7

LEMMA TellsLastCounts ==
  ASSUME IInv, NEW r \in Requests, TellsLast(r)
  PROVE  Counted
<1>1. /\ pc[r] = "last" /\ pc' = [pc EXCEPT ![r] = "done"] /\ Tell(Completed)
      /\ UNCHANGED <<active, told, counted, sounds, sounding, skipped>>
  BY DEF TellsLast, Goes
<1>2. TypeOK /\ ActiveIsCounted /\ told \subseteq Announces
  BY DEF IInv, TypeOK
<1>3. r \in Lasts /\ r \notin Firsts /\ r \notin Acting /\ r \notin told /\ r \notin Announcing
  BY <1>1, SetsAre DEF Counts
<1>4. Acting' = Acting /\ Firsts' = Firsts /\ Lasts' = Lasts \ {r} /\ Announcing' = Announcing
  <2>1. Acting' = Acting \ {r} /\ Firsts' = Firsts \ {r} /\ Lasts' = Lasts \ {r}
        /\ Announcing' = Announcing \ {r}
    BY <1>1, <1>2, SetsMove DEF Place, Counts
  <2> QED BY <1>3, <2>1
<1>5. ActiveIsCounted'
  <2>1. \A q \in told : pc'[q] # "idle"
    BY <1>1, <1>2 DEF ActiveIsCounted, TypeOK
  <2> QED BY <1>1, <1>2, <1>4, <2>1 DEF ActiveIsCounted
<1>6. SpeechPlays' = SpeechPlays + (-1)
  <2>1. Cardinality(Lasts') = Cardinality(Lasts) - 1
    BY <1>3, <1>4, SetsAre, Counting
  <2>2. Cardinality(Announcing) \in Nat /\ Cardinality(Lasts) \in Nat
    BY SetsAre, Counting
  <2> QED BY <1>1, <1>4, <2>1, <2>2 DEF SpeechPlays
<1>7. Agrees(-1)
  BY <1>1, EffectIs DEF Agrees, Message
<1> QED BY <1>1, <1>2, <1>5, <1>6, <1>7, SpeechBalance DEF Counted

-----------------------------------------------------------------------------
(***************************************************************************)
(* The theorems.                                                           *)
(***************************************************************************)
\* What bounds active and audible is invariant, so the types are.
LEMMA Reassembled ==
  ASSUME PlainTypes, SoundWorker', Counted
  PROVE  IInv'
<1>1. active' \in 0..Cardinality(Requests)
  <2>1. Acting' \in SUBSET Requests /\ active' = Cardinality(Acting')
    BY DEF Counted, ActiveIsCounted, Acting
  <2>2. Cardinality(Requests) \in Nat
    BY RequestsAssumption, FS_CardinalityType
  <2> QED BY <2>1, <2>2, SubsetsFinite
<1>2. audible' \subseteq parallel' \cup {speaking'}
  BY DEF SoundWorker, WorkerSound, InHands
<1>3. TypeOK'
  BY <1>1, <1>2 DEF PlainTypes, ManagerTypes, WorkerTypes, TypeOK
<1> QED BY <1>3 DEF IInv, SoundWorker, Counted

LEMMA StepKeeps ==
  ASSUME IInv, [Next]_vars
  PROVE  IInv'
<1>1. CASE UNCHANGED vars
  <2>1. UNCHANGED queueVars /\ UNCHANGED managerVars /\ UNCHANGED workerVars /\ left' = left
    BY <1>1 DEF vars
  <2>2. TypeOK'
    BY <2>1 DEF IInv, TypeOK, QueueTypeOK, queueVars, managerVars, workerVars
  <2>3. (WorkerSound /\ GivenOnce /\ OkIsTrue /\ ActiveIsCounted)'
    BY <2>1 DEF IInv, managerVars, workerVars, WorkerSound, GivenOnce, OkIsTrue, WasHeard, InHands,
                ActiveIsCounted, Acting, Firsts, Lasts
  <2>4. ~skipped' => Balanced'
    BY <2>1
       DEF IInv, queueVars, managerVars, Balanced, Course, SpeechPlays, SoundPlays, Announcing,
           Firsts, Lasts, PausingPlaces, Effect
  <2> QED BY <2>2, <2>3, <2>4 DEF IInv
<1>2. CASE Feedback
  <2>1. TypeOK' /\ UNCHANGED managerVars /\ UNCHANGED workerVars
    BY <1>2, FeedbackTypes DEF Feedback, IInv
  <2>2. (WorkerSound /\ GivenOnce /\ OkIsTrue)'
    BY <2>1 DEF IInv, managerVars, workerVars, WorkerSound, GivenOnce, OkIsTrue, WasHeard, InHands
  <2>3. ActiveIsCounted'
    BY <2>1 DEF IInv, managerVars, ActiveIsCounted, Acting, Firsts, Lasts
  <2>4. ~skipped' => Balanced'
    BY <1>2, <2>1, FeedbackBalance DEF managerVars
  <2> QED BY <2>1, <2>2, <2>3, <2>4 DEF IInv
<1>3. ASSUME NEW r \in Requests, Begins(r) \/ Request(r) PROVE IInv'
  <2>1. PlainTypes /\ SoundWorker'
    BY <1>3, RequestTypes, RequestSound DEF IInv
  <2>2. CASE Puts(r) \/ Wakes(r)
    <3>1. \E to \in {"waiting", "returned"} : pc' = [pc EXCEPT ![r] = to]
      BY <2>2 DEF Puts, Wakes, Goes
    <3>2. /\ pc[r] \in {"asks", "waiting"}
          /\ UNCHANGED <<active, told, mail, counted, sounds, sounding, skipped>>
      BY <2>2 DEF Puts, Wakes, Goes, queueVars
    <3> QED BY <2>1, <3>1, <3>2, StaysCounted, Reassembled
  <2> QED BY <1>3, <2>1, <2>2, BeginsCounts, TellsFirstCounts, EndsCounts, TellsLastCounts, Reassembled
          DEF Request
<1>4. CASE WorkerStep
  <2>1. PlainTypes /\ SoundWorker'
    BY <1>4, WorkerTypesStay, WorkerSoundStays DEF IInv
  <2>2. UNCHANGED <<queueVars, pc, told, active, skipped>>
    BY <1>4
       DEF WorkerStep, StartsAudio, EndsAudio, Spoken, CannotSpeak, Connects, Loads, Cuts, Dies,
           Takes, Stops, PostArrives, PostLost, managerVars
  <2>3. ActiveIsCounted'
    BY <2>2 DEF IInv, ActiveIsCounted, Acting, Firsts, Lasts
  <2>4. ~skipped' => Balanced'
    BY <2>2
       DEF IInv, queueVars, Balanced, Course, SpeechPlays, SoundPlays, Announcing, Firsts, Lasts,
           PausingPlaces, Effect
  <2> QED BY <2>1, <2>3, <2>4, Reassembled DEF Counted
<1> QED BY <1>1, <1>2, <1>3, <1>4 DEF Next, WorkerStep

LEMMA Starting ==
  ASSUME Init
  PROVE  IInv
<1>1. TypeOK
  <2>1. <<>> \in Seq(Message) /\ <<>> \in Seq(Queued) /\ <<>> \in Seq(Requests)
    BY EmptySeq
  <2>2. QueueTypeOK
    BY <2>1 DEF Init, QueueInit, QueueTypeOK, Message, Queued
  <2>3. 0 \in 0..Cardinality(Requests)
    BY RequestsAssumption, FS_CardinalityType
  <2> QED BY <2>1, <2>2, <2>3, BudgetsAssumption DEF Init, TypeOK, Place, Verdict
<1>2. WorkerSound /\ GivenOnce /\ OkIsTrue
  BY NothingAssumption, RequestsAssumption, EmptySeq
     DEF Init, WorkerSound, GivenOnce, OkIsTrue, InHands, Fresh
<1>3. Acting = {} /\ Firsts = {} /\ Lasts = {} /\ Announcing = {} /\ PausingPlaces(sounds) = {}
  BY EmptySeq DEF Init, QueueInit, Acting, Firsts, Lasts, Announcing, PausingPlaces
<1>4. ActiveIsCounted
  BY <1>3, FS_EmptySet DEF Init, ActiveIsCounted
<1>5. SpeechPlays = 0 /\ SoundPlays = 0
  <2>1. Cardinality(Lasts) = 0 /\ Cardinality(Announcing) = 0 /\ Cardinality(PausingPlaces(sounds)) = 0
    BY <1>3, FS_EmptySet
  <2>2. active = 0 /\ sounding # Pausing
    BY Names DEF Init, QueueInit
  <2> QED BY <2>1, <2>2 DEF SpeechPlays, SoundPlays
<1>6. Balanced
  <2>1. Len(mail) = 0 /\ mail = <<>> /\ counted = 0
    BY EmptySeq DEF Init, QueueInit
  <2> DEFINE b == [k \in 0..0 |-> 0]
  <2>2. b \in [0..0 -> Nat] /\ b[0] = 0
    OBVIOUS
  <2> HIDE DEF b
  <2>3. Course(b, 0)
    BY <2>1, <2>2 DEF Course
  <2> QED BY <1>5, <2>1, <2>2, <2>3 DEF Balanced
<1> QED BY <1>1, <1>2, <1>4, <1>6 DEF IInv

\* The inductive invariant holds in every reachable state.
THEOREM Inductive == Spec => []IInv
<1>1. Init => IInv
  BY Starting
<1>2. IInv /\ [Next]_vars => IInv'
  BY StepKeeps
<1> QED BY <1>1, <1>2, PTL DEF Spec

\* Every variable keeps its type; _active_plays is never negative and never more than
\* the requests.
THEOREM TypeCorrect == Spec => []TypeOK
BY Inductive, PTL DEF IInv

\* speak_text and handle_speech return "ok" only for speech that was heard to its
\* end, however requests, stops, deaths and lost or late completions interleave; but
\* for a stopped cached phrase.
THEOREM OkIsHonest == Spec => []OkMeansHeard
<1>1. IInv => OkMeansHeard
  BY DEF IInv, OkIsTrue, WasHeard, OkMeansHeard
<1> QED BY <1>1, Inductive, PTL

\* However plays overlap and their messages cross: once the controller has handled
\* what it was told, it counts a play if and only if there is one.
THEOREM CountIsRight == Spec => []MicAgrees
<1>1. IInv => MicAgrees
  <2> SUFFICES ASSUME IInv, mail = <<>>, ~skipped, \A r \in Requests : ~Telling(r)
               PROVE  counted > 0 <=> Playing \/ PausingSounds
    BY DEF MicAgrees
  <2>1. counted = SpeechPlays + SoundPlays /\ counted \in Nat
    <3>1. PICK b \in [0..Len(mail) -> Nat] : Course(b, SpeechPlays + SoundPlays)
      BY DEF IInv, Balanced
    <3>2. Len(mail) = 0 /\ 0 \in 0..0
      BY EmptySeq
    <3> QED BY <3>1, <3>2 DEF Course
  <2>2. Firsts = {} /\ Lasts = {}
    BY DEF Firsts, Lasts, Telling
  <2>3. Cardinality(Announcing) \in Nat /\ (Cardinality(Announcing) = 0 <=> Announcing = {})
    BY SetsAre, SubsetsFinite, FS_EmptySet
  <2>4. active \in Nat /\ Cardinality(Lasts) = 0
    BY <2>2, SetsAre, FS_EmptySet
  <2>5. SpeechPlays \in Nat /\ (SpeechPlays > 0 <=> Playing)
    <3>1. (Announcing # {}) <=> (\E r \in told : pc[r] # "done")
      BY DEF Announcing
    <3>2. SpeechPlays = Cardinality(Announcing) + (IF active > 0 THEN 1 ELSE 0)
      BY <2>2, <2>3, <2>4 DEF SpeechPlays
    <3>3. SpeechPlays \in Nat /\ ((SpeechPlays > 0) <=> (active > 0 \/ Announcing # {}))
      BY <2>3, <2>4, <3>2
    <3> QED BY <3>1, <3>3 DEF Playing
  <2>6. SoundPlays \in Nat /\ (SoundPlays > 0 <=> PausingSounds)
    <3>1. sounds \in Seq(Queued)
      BY DEF IInv, TypeOK, QueueTypeOK, Queued
    <3>2. /\ Cardinality(PausingPlaces(sounds)) \in Nat
          /\ (Cardinality(PausingPlaces(sounds)) = 0) <=> (Pausing \notin ToSet(sounds))
      BY <3>1, NoPausing
    <3>3. (SoundPlays > 0) <=> (sounding = Pausing \/ Cardinality(PausingPlaces(sounds)) # 0)
      BY <3>2 DEF SoundPlays
    <3>4. SoundPlays \in Nat
      BY <3>2 DEF SoundPlays
    <3> QED BY <3>2, <3>3, <3>4 DEF PausingSounds
  <2> QED BY <2>1, <2>5, <2>6
<1> QED BY <1>1, Inductive, PTL
=============================================================================
