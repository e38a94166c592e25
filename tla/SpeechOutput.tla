----------------------------- MODULE SpeechOutput -----------------------------
(***************************************************************************)
(* Speech (core/tts_manager.py, tts/proxy.py, tts/worker.py): threads that *)
(* want something spoken, the worker process that speaks, and what the     *)
(* controller is told of it, composed with the feedback sounds.            *)
(*                                                                         *)
(* A request waits for a completion that the worker posts when its audio   *)
(* is over.  The worker may die, lose its connection, hang, fail to post,  *)
(* or be told to stop; the request then ends by its timeout.               *)
(***************************************************************************)
EXTENDS FeedbackQueue, FiniteSets

CONSTANTS
  Requests,    \* calls of handle_speech and of speak_text
  Announces,   \* those of speak_text, run by play_audio on a thread of their own
  Cached,      \* those whose audio the worker has in its cache
  Budgets      \* bounds: how many of each a behaviour has

ASSUME RequestsAssumption ==
  /\ IsFiniteSet(Requests)
  /\ Announces \subseteq Requests /\ Cached \subseteq Requests

Nothing == "nothing"
ASSUME NothingAssumption == Nothing \notin Requests

VARIABLES
  pc,         \* where each request is
  told,       \* those of play_audio that will tell the controller of their end
  result,     \* what its speak() returned
  active,     \* _active_plays
  pending,    \* _pending: the requests that wait for a completion
  finished,   \* the result a completion has set, none before
  tts,        \* the manager's engine: loading (the proxy is there), ready, failed
  worker,     \* its process: starting, up, cut (without connection), dead
  inbox,      \* the __tts__ queue and what the worker has not read of it
  speaking,   \* the request in engine.speak of the worker's main thread
  parallel,   \* requests played from the cache, each by a thread of its own
  audible,    \* those of both whose audio process runs
  player,     \* _current_audio_proc: whose audio process a stop would kill
  killed,     \* history: requests whose audio was killed
  heard,      \* history: requests whose audio was played to its end
  halt,       \* _stop_requested
  posts,      \* completions under way
  skipped,    \* history: a request did not tell the controller because it was OFF
  left        \* what is left of the bounds

managerVars == <<pc, told, result, active, pending, finished, tts, skipped>>
workerVars == <<worker, inbox, speaking, parallel, audible, player, killed, heard, halt, posts>>
vars == <<queueVars, managerVars, workerVars, left>>

Verdict == {"none", "ok", "failed"}
Place == {"idle", "counted", "asks", "waiting", "returned", "last", "done"}
Bounded == {"requests", "files", "loops", "toggles", "stops", "faults"}
ASSUME BudgetsAssumption == Budgets \subseteq [Bounded -> Nat]

TypeOK ==
  /\ QueueTypeOK
  /\ pc \in [Requests -> Place]
  /\ told \subseteq Announces
  /\ result \in [Requests -> Verdict]
  /\ active \in 0..Cardinality(Requests)
  /\ pending \subseteq Requests
  /\ finished \in [Requests -> Verdict]
  /\ tts \in {"loading", "ready", "failed"}
  /\ worker \in {"starting", "up", "cut", "dead"}
  /\ inbox \in Seq(Requests)
  /\ speaking \in Requests \cup {Nothing}
  /\ parallel \subseteq Requests
  /\ player \in Requests \cup {Nothing}
  /\ audible \subseteq parallel \cup {speaking}
  /\ killed \cup heard \subseteq Requests
  /\ halt \in BOOLEAN
  /\ posts \subseteq Requests \X {"ok", "failed"}
  /\ skipped \in BOOLEAN
  /\ left \in [Bounded -> Nat]

Init ==
  /\ QueueInit
  /\ pc = [r \in Requests |-> "idle"]
  /\ told = {}
  /\ result = [r \in Requests |-> "none"]
  /\ active = 0
  /\ pending = {}
  /\ finished = [r \in Requests |-> "none"]
  /\ tts = "loading"
  /\ worker = "starting"
  /\ inbox = <<>>
  /\ speaking = Nothing
  /\ parallel = {}
  /\ player = Nothing
  /\ audible = {}
  /\ killed = {}
  /\ heard = {}
  /\ halt = FALSE
  /\ posts = {}
  /\ skipped = FALSE
  /\ left \in Budgets

Spend(what) == left[what] > 0 /\ left' = [left EXCEPT ![what] = @ - 1]
Goes(r, from, to) == pc[r] = from /\ pc' = [pc EXCEPT ![r] = to]

-----------------------------------------------------------------------------
(***************************************************************************)
(* The thread of a request.  handle_speech counts itself under a lock and  *)
(* tells the controller after it; speak_text leaves that to play_audio.    *)
(***************************************************************************)
Begins(r) ==
  /\ Spend("requests")
  /\ tts # "failed"
  /\ IF r \in Announces
       THEN /\ Goes(r, "idle", "asks")
            /\ IF off THEN UNCHANGED <<mail, told>> ELSE Tell(Started) /\ told' = told \cup {r}
            /\ UNCHANGED active
       ELSE /\ Goes(r, "idle", IF active = 0 THEN "counted" ELSE "asks")
            /\ active' = active + 1
            /\ UNCHANGED <<mail, told>>
  /\ UNCHANGED <<off, counted, sounds, sounding, looping, result, pending, finished, tts,
                 skipped, workerVars>>

TellsFirst(r) ==
  /\ Goes(r, "counted", "asks")
  /\ IF off THEN UNCHANGED mail ELSE Tell(Started)
  /\ skipped' = (skipped \/ off)
  /\ UNCHANGED <<off, counted, sounds, sounding, looping, told, result, active, pending,
                 finished, tts, workerVars, left>>

\* speak: without a connected worker there is nobody to wait for.
Puts(r) ==
  /\ IF worker = "up"
       THEN /\ Goes(r, "asks", "waiting")
            /\ pending' = pending \cup {r}
            /\ inbox' = Append(inbox, r)
            /\ UNCHANGED result
       ELSE /\ Goes(r, "asks", "returned")
            /\ result' = [result EXCEPT ![r] = "failed"]
            /\ UNCHANGED <<pending, inbox>>
  /\ UNCHANGED <<queueVars, told, active, finished, tts, skipped, worker, speaking, parallel,
                 audible, player, killed, heard, halt, posts, left>>

\* The completion has come, or the 120 s are over.
WakesCompleted(r) ==
  /\ finished[r] # "none"
  /\ Goes(r, "waiting", "returned")
  /\ pending' = pending \ {r}
  /\ result' = [result EXCEPT ![r] = finished[r]]
  /\ UNCHANGED <<queueVars, told, active, finished, tts, skipped, workerVars, left>>
Wakes(r) ==
  /\ Goes(r, "waiting", "returned")
  /\ pending' = pending \ {r}
  /\ result' = [result EXCEPT ![r] = IF finished[r] = "none" THEN "failed" ELSE finished[r]]
  /\ UNCHANGED <<queueVars, told, active, finished, tts, skipped, workerVars, left>>

EndsTwice(r) ==
  /\ Goes(r, "returned", IF active <= 1 THEN "last" ELSE "done")
  /\ active' = active - 1
  /\ UNCHANGED <<queueVars, told, result, pending, finished, tts, skipped, workerVars, left>>
EndsEach(r) ==
  /\ Goes(r, "returned", "last")
  /\ active' = IF active > 0 THEN active - 1 ELSE 0
  /\ UNCHANGED <<queueVars, told, result, pending, finished, tts, skipped, workerVars, left>>
Ends(r) ==
  /\ IF r \in Announces
       THEN /\ Goes(r, "returned", "done")
            /\ IF r \in told THEN Tell(Completed) ELSE UNCHANGED mail
            /\ UNCHANGED active
       ELSE /\ Goes(r, "returned", IF active = 1 THEN "last" ELSE "done")
            /\ active' = active - 1
            /\ UNCHANGED mail
  /\ UNCHANGED <<off, counted, sounds, sounding, looping, told, result, pending, finished, tts,
                 skipped, workerVars, left>>

TellsLast(r) ==
  /\ Goes(r, "last", "done")
  /\ Tell(Completed)
  /\ UNCHANGED <<off, counted, sounds, sounding, looping, told, result, active, pending,
                 finished, tts, skipped, workerVars, left>>

Request(r) == TellsFirst(r) \/ Puts(r) \/ Wakes(r) \/ Ends(r) \/ TellsLast(r)

-----------------------------------------------------------------------------
(***************************************************************************)
(* Loading and the connection of the worker.                               *)
(***************************************************************************)
Connects ==
  /\ worker \in {"starting", "cut"}
  /\ worker' = "up"
  /\ UNCHANGED <<queueVars, managerVars, inbox, speaking, parallel, audible, player, killed,
                 heard, halt, posts, left>>

\* load sees the worker, or that its process has ended or took more than 120 s.
Loads ==
  /\ tts = "loading"
  /\ tts' = IF worker = "up" THEN "ready" ELSE "failed"
  /\ UNCHANGED <<queueVars, pc, told, result, active, pending, finished, skipped, workerVars, left>>

\* The SSE connection ends, and its queue with it.
Cuts ==
  /\ worker = "up"
  /\ Spend("faults")
  /\ worker' = "cut"
  /\ inbox' = <<>>
  /\ UNCHANGED <<queueVars, managerVars, speaking, parallel, audible, player, killed, heard,
                 halt, posts>>

\* The process ends; nothing starts it again.
Dies ==
  /\ worker # "dead"
  /\ Spend("faults")
  /\ worker' = "dead"
  /\ inbox' = <<>>
  /\ speaking' = Nothing
  /\ parallel' = {}
  /\ audible' = {}
  /\ player' = Nothing
  /\ posts' = {}
  /\ UNCHANGED <<queueVars, managerVars, killed, heard, halt>>

-----------------------------------------------------------------------------
(***************************************************************************)
(* The worker.                                                             *)
(***************************************************************************)
\* The main thread takes the next message when it has spoken the last one.
Takes ==
  /\ speaking = Nothing
  /\ inbox # <<>>
  /\ inbox' = Tail(inbox)
  /\ IF Head(inbox) \in Cached
       THEN parallel' = parallel \cup {Head(inbox)} /\ UNCHANGED <<speaking, halt>>
       ELSE speaking' = Head(inbox) /\ halt' = FALSE /\ UNCHANGED parallel
  /\ UNCHANGED <<queueVars, managerVars, worker, audible, player, killed, heard, posts, left>>

\* play_audio_native: the latest audio process is the one a stop finds.
StartsAudio(r) ==
  /\ r \in (parallel \cup {speaking}) \ audible
  /\ r # Nothing
  /\ audible' = audible \cup {r}
  /\ player' = r
  /\ UNCHANGED <<queueVars, managerVars, worker, inbox, speaking, parallel, killed, heard, halt,
                 posts, left>>

\* What the worker makes of a request that has been spoken, or could not be.
IgnoresHalt(r, went) == went
Outcome(r, went) == IF r = speaking /\ halt THEN "failed" ELSE went

Spoken(r, went) ==
  /\ posts' = posts \cup {<<r, Outcome(r, went)>>}
  /\ speaking' = IF r = speaking THEN Nothing ELSE speaking
  /\ halt' = IF r = speaking THEN FALSE ELSE halt
  /\ parallel' = parallel \ {r}
  /\ audible' = audible \ {r}
  /\ player' = IF player = r THEN Nothing ELSE player
  /\ UNCHANGED <<queueVars, managerVars, worker, inbox, killed, left>>

\* A killed process ends like one that has played everything.
EndsAudio(r) ==
  /\ r \in audible
  /\ heard' = IF r \in killed THEN heard ELSE heard \cup {r}
  /\ Spoken(r, "ok")

CannotSpeak(r) ==
  /\ r \in (parallel \cup {speaking}) \ audible
  /\ r # Nothing
  /\ Spend("faults")
  /\ posts' = posts \cup {<<r, "failed">>}
  /\ speaking' = IF r = speaking THEN Nothing ELSE speaking
  /\ halt' = IF r = speaking THEN FALSE ELSE halt
  /\ parallel' = parallel \ {r}
  /\ UNCHANGED <<queueVars, managerVars, worker, inbox, audible, player, killed, heard>>

\* stop_speaking: SIGUSR2.
Stops ==
  /\ Spend("stops")
  /\ worker # "dead"
  /\ halt' = TRUE
  /\ killed' = IF player = Nothing THEN killed ELSE killed \cup {player}
  /\ UNCHANGED <<queueVars, managerVars, worker, inbox, speaking, parallel, audible, player,
                 heard, posts>>

\* complete() sets what the request waits for, if it still does.
Completes(r, outcome) ==
  finished' = [finished EXCEPT ![r] = IF r \in pending /\ tts # "failed" THEN outcome ELSE @]

PostArrives ==
  \E p \in posts :
    /\ posts' = posts \ {p}
    /\ Completes(p[1], p[2])
    /\ UNCHANGED <<queueVars, pc, told, result, active, pending, tts, skipped, worker, inbox,
                   speaking, parallel, audible, player, killed, heard, halt, left>>

PostLost ==
  /\ Spend("faults")
  /\ \E p \in posts : posts' = posts \ {p}
  /\ UNCHANGED <<queueVars, managerVars, worker, inbox, speaking, parallel, audible, player,
                 killed, heard, halt>>

-----------------------------------------------------------------------------
Feedback ==
  /\ \/ ControllerHandles /\ UNCHANGED left
     \/ OutputWorker /\ UNCHANGED left
     \/ Toggles /\ Spend("toggles")
     \/ (\E pause \in BOOLEAN : PlayFile(pause)) /\ Spend("files")
     \/ StartLoop /\ Spend("loops")
     \/ StopLoop /\ UNCHANGED left
  /\ UNCHANGED <<managerVars, workerVars>>

Next ==
  \/ Feedback
  \/ \E r \in Requests :
       Begins(r) \/ Request(r) \/ StartsAudio(r) \/ EndsAudio(r) \/ CannotSpeak(r)
  \/ Connects \/ Loads \/ Cuts \/ Dies
  \/ Takes \/ Stops \/ PostArrives \/ PostLost

Spec == Init /\ [][Next]_vars

\* The controller, the output worker (its waits have a deadline) and the threads
\* of the requests (theirs have a timeout) go on; nothing is assumed of the TTS
\* worker, nor of the controller's leaving TRANSCRIBING.
Fairness ==
  /\ WF_vars(ControllerHandles /\ UNCHANGED <<managerVars, workerVars, left>>)
  /\ WF_vars(OutputWorker /\ UNCHANGED <<managerVars, workerVars, left>>)
  /\ \A r \in Requests : WF_vars(Request(r))

FairSpec == Spec /\ Fairness

-----------------------------------------------------------------------------
(***************************************************************************)
(* Properties.                                                             *)
(***************************************************************************)
Telling(r) == pc[r] \in {"counted", "last"}
Playing == active > 0 \/ \E r \in told : pc[r] # "done"
PausingSounds == sounding = Pausing \/ Pausing \in ToSet(sounds)

\* tts_manager: the microphone stays paused while any play is active, and not
\* longer.  The messages of the first and of the last request are sent outside of
\* the lock and may cross, and plays of both kinds overlap: once all are handled,
\* the count is right, unless speech began while the microphone was OFF.
MicAgrees ==
  mail = <<>> /\ ~skipped /\ (\A r \in Requests : ~Telling(r))
    => (counted > 0 <=> Playing \/ PausingSounds)

\* Whoever asked is told "ok" only for speech that was heard to its end; a stop,
\* a request that was waiting when another was stopped, and a late completion do
\* not make it so.  (A stopped cached phrase is reported as spoken.)
OkMeansHeard ==
  \A r \in Requests :
    result[r] = "ok" => r \in heard \/ (r \in Cached /\ r \in killed)

\* The microphone comes back after the last play although the worker may die or
\* hang, although posts may be lost and whatever is stopped.
MicComesBack == counted > 0 ~> counted = 0
=============================================================================
