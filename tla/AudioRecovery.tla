---------------------------- MODULE AudioRecovery ----------------------------
(***************************************************************************)
(* Recovery of dictare's audio (core/audio_manager.py) on the executor of  *)
(* AudioControl: device changes, sleep and wake, the engine's reconnect    *)
(* loop (core/engine.py), reconnects on focus, a new input device chosen   *)
(* in the settings, sounds, and the end of the engine.                     *)
(*                                                                         *)
(* A transaction is a list of native calls that the owner thread makes one *)
(* after the other.  Each of them returns, raises an error, or does not    *)
(* end before its deadline.                                                *)
(***************************************************************************)
EXTENDS AudioControl

CONSTANTS
  Attempts,        \* attempts of one reconnect (5 in the code)
  MaxReconnects,   \* _MAX_RECONNECTS
  MaxEvents,       \* bound: device changes, sleeps and wakes
  MaxCalls         \* bound: focus-ins, sounds, and devices chosen in the settings

ASSUME CallersAssumption == Caller = {"main", "focus", "settings", "sounds"}
ASSUME LimitsAssumption ==
  /\ Attempts \in Nat \ {0}
  /\ MaxReconnects \in Nat
  /\ MaxEvents \in Nat
  /\ MaxCalls \in Nat

\* default_input_changed is handled as devices_changed is.
Reason == {"devices_changed", "default_output_changed", "system_sleep", "system_wake"}

NativeCall == {"stop_output", "abort", "reinit", "open", "discard", "stop_input", "play"}

VARIABLES
  begun,       \* the owner has begun the transaction of its job
  todo,        \* the native calls left in it, the one in progress first
  attempt,     \* of a reconnect
  outcome,     \* of the transaction so far: ok when audio arrived, failed, or error
  audio,       \* _audio: none, idle (no stream), running, or broken (reconnect_reason)
  reasons,     \* _device_change_reasons
  posting,     \* OS threads that have added a reason and not called request() yet
  sleeping,    \* _sleeping
  monitor,     \* _device_monitor: on, off, or none
  recent,      \* reconnects in the window of the circuit breaker
  main,        \* where the engine's main thread is
  running,     \* engine.running
  noticed,     \* threads that have read a reconnect_reason and not acted on it yet
  lock,        \* holder of _reconnecting
  asleep,      \* external: the system is between its sleep and its wake event
  events, calls     \* counters of the bounds

transaction == <<begun, todo, attempt, outcome>>
manager == <<audio, reasons, sleeping, monitor, recent>>
pending == <<posting, noticed>>
threads == <<main, running, lock>>
counters == <<asleep, events, calls>>
vars == <<executor, transaction, manager, pending, threads, counters>>

\* start_streaming has set the output executor and waits for start_input.
Init ==
  /\ ExecutorInit
  /\ begun = FALSE
  /\ todo = <<>>
  /\ attempt = 0
  /\ outcome = "failed"
  /\ audio = "idle"
  /\ reasons = {}
  /\ posting = 0
  /\ sleeping = FALSE
  /\ monitor = "off"
  /\ recent = 0
  /\ main = "starting"
  /\ running = TRUE
  /\ noticed = {}
  /\ lock = Nobody
  /\ asleep = FALSE
  /\ events = 0
  /\ calls = 0

-----------------------------------------------------------------------------
(***************************************************************************)
(* Threads that ask for work.                                              *)
(***************************************************************************)
StartStreaming ==
  /\ main = "starting"
  /\ "main" \notin waiting
  /\ IF Available
     THEN Execute("main", "start_input") /\ UNCHANGED main
     ELSE main' = "leaving" /\ UNCHANGED executor
  /\ UNCHANGED <<transaction, manager, pending, running, lock, counters>>

StartMonitor ==
  /\ main = "started"
  /\ main' = "polling"
  /\ monitor' = "on"
  /\ UNCHANGED <<executor, transaction, audio, reasons, sleeping, recent,
                 pending, running, lock, counters>>

\* reconnect_reason
NeedsReconnect == audio \in {"none", "broken"}

\* engine.run and set_agent_focus read the reason first.
NoticeDead(c) ==
  /\ NeedsReconnect
  /\ c \notin noticed \cup waiting
  /\ noticed' = noticed \cup {c}
  /\ \/ /\ c = "main" /\ main = "polling" /\ running
        /\ UNCHANGED calls
     \/ /\ c = "focus" /\ calls < MaxCalls
        /\ calls' = calls + 1
  /\ UNCHANGED <<executor, transaction, manager, posting, threads, asleep, events>>

\* By now the other one may be reconnecting, or have done so.  A refused request
\* raises: the main loop ends.
Reconnect(c) ==
  /\ c \in noticed
  /\ noticed' = noticed \ {c}
  /\ \/ /\ lock # Nobody
        /\ UNCHANGED <<executor, lock, main>>
     \/ /\ lock = Nobody /\ Available
        /\ Execute(c, "reconnect_input")
        /\ lock' = c
        /\ UNCHANGED main
     \/ /\ lock = Nobody /\ ~Available
        /\ main' = IF c = "main" THEN "leaving" ELSE main
        /\ UNCHANGED <<executor, lock>>
  /\ UNCHANGED <<transaction, manager, posting, running, counters>>

\* The lock is kept until the retry delay is over.
BackoffEnds ==
  /\ main = "backoff"
  /\ main' = "polling"
  /\ lock' = Nobody
  /\ UNCHANGED <<executor, transaction, manager, pending, running, counters>>

ChooseInput ==
  /\ calls < MaxCalls
  /\ Execute("settings", "reset_input")
  /\ calls' = calls + 1
  /\ UNCHANGED <<transaction, manager, pending, threads, asleep, events>>

\* The sound worker plays, and stops a sound that does not end; it may have
\* begun before the executor was there.
Sound ==
  /\ calls < MaxCalls
  /\ Execute("sounds", "play_output") \/ Execute("sounds", "stop_output")
  /\ calls' = calls + 1
  /\ UNCHANGED <<transaction, manager, pending, threads, asleep, events>>

\* The system goes to sleep, wakes up, or sees a device change; only a monitor
\* that is on hears of it.  _on_device_change adds the reason here, and calls
\* request() in a second step of the same thread of the system.
DeviceChange(r) ==
  /\ events < MaxEvents
  /\ events' = events + 1
  /\ \/ /\ r = "system_sleep" /\ ~asleep /\ asleep' = TRUE
     \/ /\ r = "system_wake" /\ asleep /\ asleep' = FALSE
     \/ /\ r \in {"devices_changed", "default_output_changed"} /\ UNCHANGED asleep
  /\ IF monitor = "on"
     THEN /\ reasons' = reasons \cup {r}
          /\ posting' = posting + 1
     ELSE UNCHANGED <<reasons, posting>>
  /\ UNCHANGED <<executor, transaction, audio, sleeping, monitor, recent,
                 threads, calls, noticed>>

PostChange ==
  /\ posting > 0
  /\ posting' = posting - 1
  /\ RequestChange
  /\ UNCHANGED <<transaction, manager, threads, counters, noticed>>

\* The stream reports errors, is inactive, or delivers nothing for 3 s.
StreamBreaks ==
  /\ audio = "running"
  /\ audio' = "broken"
  /\ UNCHANGED <<executor, transaction, reasons, sleeping, monitor, recent,
                 pending, threads, counters>>

WindowPasses ==
  /\ recent > 0
  /\ recent' = recent - 1
  /\ UNCHANGED <<executor, transaction, audio, reasons, sleeping, monitor,
                 pending, threads, counters>>

-----------------------------------------------------------------------------
(***************************************************************************)
(* The end: someone stops the engine, or the poison callback has.          *)
(***************************************************************************)
Stop ==
  /\ running
  /\ running' = FALSE
  /\ UNCHANGED <<executor, transaction, manager, pending, main, lock, counters>>

LoopEnds ==
  /\ main = "polling"
  /\ "main" \notin waiting \cup noticed
  /\ ~running
  /\ main' = "leaving"
  /\ UNCHANGED <<executor, transaction, manager, pending, running, lock, counters>>

\* AudioManager.close
CloseMonitor ==
  /\ main = "leaving"
  /\ main' = "closing"
  /\ running' = FALSE
  /\ monitor' = "none"
  /\ sleeping' = TRUE
  /\ UNCHANGED <<executor, transaction, audio, reasons, recent, pending, lock, counters>>

CloseAudio ==
  /\ main = "closing"
  /\ main' = "shutting"
  /\ IF poisoned THEN UNCHANGED executor ELSE Execute("main", "close_audio")
  /\ UNCHANGED <<transaction, manager, pending, running, lock, counters>>

CloseExecutor ==
  /\ main = "shutting"
  /\ "main" \notin waiting
  /\ main' = "closed"
  /\ Shutdown
  /\ UNCHANGED <<transaction, manager, pending, running, lock, counters>>

-----------------------------------------------------------------------------
(***************************************************************************)
(* The owner thread.                                                       *)
(***************************************************************************)
OwnerTakes ==
  /\ Take
  /\ begun' = FALSE
  /\ todo' = <<>>
  /\ attempt' = 0
  /\ outcome' = "failed"
  /\ UNCHANGED <<manager, pending, threads, counters>>

Abort == IF audio \in {"running", "broken"} THEN <<"abort">> ELSE <<>>
Rebuild == <<"stop_output">> \o Abort \o <<"reinit", "open">>
Retry == <<"stop_output", "reinit", "open">>

\* A capture without a stream is dropped by the transactions that abort one.
Dropped == IF audio = "idle" THEN "none" ELSE audio

SleepWins == sleeping \/ "system_sleep" \in reasons
AsleepAfter == (sleeping \/ "system_sleep" \in reasons) /\ "system_wake" \notin reasons

\* _process_device_changes_owned: one transaction for all reasons so far.
BeginDeviceChange ==
  /\ job = Coalesced
  /\ reasons' = {}
  /\ IF reasons = {}
     THEN UNCHANGED <<sleeping, todo, audio>>
     ELSE /\ sleeping' = AsleepAfter
          /\ \/ /\ AsleepAfter
                /\ todo' = <<"stop_output">> \o Abort
                /\ audio' = Dropped
             \/ /\ ~AsleepAfter
                /\ reasons \subseteq {"default_output_changed", "system_sleep"}
                /\ UNCHANGED <<todo, audio>>
             \/ /\ ~AsleepAfter
                /\ ~(reasons \subseteq {"default_output_changed", "system_sleep"})
                /\ todo' = Rebuild
                /\ audio' = Dropped
  /\ UNCHANGED <<attempt, monitor, recent>>

BeginReset ==
  /\ job.op = "reset_input"
  /\ todo' = Rebuild
  /\ audio' = Dropped
  /\ UNCHANGED <<attempt, reasons, sleeping, monitor, recent>>

\* _reconnect_owned: the circuit breaker, then the first attempt, without a reinit.
BreakerOff == FALSE
BreakerTrips == recent >= MaxReconnects

BeginReconnect ==
  /\ job.op = "reconnect_input"
  /\ IF BreakerTrips
     THEN UNCHANGED <<todo, attempt, audio, monitor, recent>>
     ELSE /\ todo' = Abort \o <<"open">>
          /\ attempt' = 1
          /\ audio' = Dropped
          /\ monitor' = IF monitor = "on" THEN "off" ELSE monitor
          /\ recent' = recent + 1
  /\ UNCHANGED <<reasons, sleeping>>

\* _execute_audio_lifecycle plays nothing while the system sleeps.
BeginCalls ==
  /\ todo' = CASE job.op = "start_input" -> <<"open">>
               [] job.op = "play_output" -> IF sleeping THEN <<>> ELSE <<"play">>
               [] job.op = "stop_output" -> <<"stop_output">>
               [] job.op = "close_audio" ->
                    IF audio \in {"running", "broken"} THEN <<"stop_output", "stop_input">>
                    ELSE <<"stop_output">>
               [] OTHER -> <<>>
  /\ job.op \in {"start_input", "play_output", "stop_output", "close_audio"}
  /\ UNCHANGED <<attempt, audio, reasons, sleeping, monitor, recent>>

\* _execute_owned: a request that was queued before the poison is refused.
AlwaysAdmitted == TRUE
Admitted == Available

Begin ==
  /\ job \notin {Idle, Exit}
  /\ ~begun
  /\ begun' = TRUE
  /\ \/ /\ Admitted
        /\ BeginDeviceChange \/ BeginReset \/ BeginReconnect \/ BeginCalls
        /\ UNCHANGED outcome
     \/ /\ ~Admitted
        /\ outcome' = "error"
        /\ UNCHANGED <<todo, attempt, manager>>
  /\ UNCHANGED <<executor, pending, threads, counters>>

-----------------------------------------------------------------------------
Busy == begun /\ todo # <<>>
Call == Head(todo)

\* The error of an attempt leads to the next one; any other ends the transaction.
Fail ==
  IF job.op = "reconnect_input" /\ attempt < Attempts
  THEN /\ todo' = Retry
       /\ attempt' = attempt + 1
  ELSE /\ todo' = <<>>
       /\ UNCHANGED attempt

\* What an error of the call leaves of the capture.
Abandoned ==
  CASE Call \in {"open", "discard"} -> IF job.op = "start_input" THEN "idle" ELSE "none"
    [] Call = "stop_input" -> "idle"
    [] OTHER -> audio

\* stop_output within a transaction is a nested execute() on the owner thread;
\* _stop_audio_output_owned goes on after every error of it.
Nested == Call = "stop_output" /\ job.op # "stop_output"

Refused ==
  /\ Busy /\ Nested /\ poisoned
  /\ todo' = Tail(todo)
  /\ UNCHANGED <<executor, begun, attempt, outcome, manager, pending, threads, counters>>

Calling == Busy /\ ~(Nested /\ poisoned)

CallReturns ==
  /\ Calling
  /\ \/ /\ Call \in {"stop_output", "reinit", "play"}
        /\ todo' = Tail(todo)
        /\ UNCHANGED <<attempt, outcome, audio, monitor>>
     \/ /\ Call = "abort"
        /\ todo' = Tail(todo)
        /\ audio' = "none"
        /\ UNCHANGED <<attempt, outcome, monitor>>
     \/ /\ Call = "stop_input"
        /\ todo' = Tail(todo)
        /\ audio' = "idle"
        /\ UNCHANGED <<attempt, outcome, monitor>>
     \/ /\ Call = "open"     \* audio arrives
        /\ todo' = Tail(todo)
        /\ audio' = "running"
        /\ outcome' = "ok"
        /\ monitor' = IF job.op = "reconnect_input" /\ monitor = "off" THEN "on" ELSE monitor
        /\ UNCHANGED attempt
     \/ /\ Call = "open"     \* a zombie stream
        /\ todo' = <<"discard">>
        /\ audio' = "running"
        /\ UNCHANGED <<attempt, outcome, monitor>>
     \/ /\ Call = "discard"
        /\ Fail
        /\ audio' = "none"
        /\ UNCHANGED <<outcome, monitor>>
  /\ UNCHANGED <<executor, begun, reasons, sleeping, recent, pending, threads, counters>>

\* abort swallows errors.
CallRaises ==
  /\ Calling
  /\ \/ /\ Nested
        /\ todo' = Tail(todo)
        /\ UNCHANGED <<attempt, audio>>
     \/ /\ ~Nested
        /\ Call # "abort"
        /\ Fail
        /\ audio' = Abandoned
  /\ UNCHANGED <<executor, begun, outcome, reasons, sleeping, monitor, recent,
                 pending, threads, counters>>

\* The poison callback stops the engine.
RunsOn == running
AfterPoison == FALSE

CallTimesOut ==
  /\ Calling
  /\ poisoned' = TRUE
  /\ running' = AfterPoison
  /\ IF Nested
     THEN /\ todo' = Tail(todo)
          /\ UNCHANGED <<outcome, audio>>
     ELSE /\ todo' = <<>>
          /\ outcome' = "error"
          /\ audio' = Abandoned
  /\ UNCHANGED <<queue, keyQueued, closed, job, waiting, begun, attempt,
                 reasons, sleeping, monitor, recent, pending, main, lock, counters>>

\* What the end of its request means to the thread that waited for it.
MainAfter ==
  CASE job.by # "main" -> main
    [] job.by = "main" /\ job.op = "start_input" -> IF outcome = "ok" THEN "started" ELSE "leaving"
    [] job.by = "main" /\ job.op = "reconnect_input" ->
         CASE outcome = "ok" -> "polling"
           [] outcome = "failed" -> "backoff"
           [] OTHER -> "leaving"
    [] OTHER -> main

Finish ==
  /\ begun
  /\ todo = <<>>
  /\ Done
  /\ begun' = FALSE
  /\ main' = MainAfter
  /\ lock' = IF job.op = "reconnect_input" /\ MainAfter # "backoff" THEN Nobody ELSE lock
  /\ UNCHANGED <<todo, attempt, outcome, manager, pending, running, counters>>

Calls == CallReturns \/ CallRaises \/ CallTimesOut \/ Refused
Owner == OwnerTakes \/ Begin \/ Calls \/ Finish
Main ==
  \/ StartStreaming \/ StartMonitor \/ NoticeDead("main") \/ Reconnect("main")
  \/ BackoffEnds \/ LoopEnds
  \/ CloseMonitor \/ CloseAudio \/ CloseExecutor

\* The owner thread has ended and nobody waits for it.
Ended ==
  /\ main = "closed" /\ job = Exit /\ waiting = {}
  /\ UNCHANGED vars

Next ==
  \/ Owner \/ Main
  \/ NoticeDead("focus") \/ Reconnect("focus") \/ ChooseInput \/ Sound \/ PostChange \/ StreamBreaks \/ WindowPasses
  \/ \E r \in Reason : DeviceChange(r)
  \/ Stop
  \/ Ended

Spec == Init /\ [][Next]_vars

(***************************************************************************)
(* Fairness.  Every native call has a deadline (_run_with_timeout), so the *)
(* owner thread goes on; the threads that are not blocked go on.  Nothing  *)
(* is assumed of the system, of the devices, or of the user.               *)
(***************************************************************************)
Fairness ==
  /\ WF_vars(Owner)
  /\ WF_vars(Main)
  /\ WF_vars(PostChange)

FairSpec == Spec /\ Fairness
-----------------------------------------------------------------------------
(***************************************************************************)
(* Properties.                                                             *)
(***************************************************************************)
ManagerTypes ==
  /\ begun \in BOOLEAN
  /\ todo \in Seq(NativeCall)
  /\ attempt \in 0..Attempts
  /\ outcome \in {"ok", "failed", "error"}
  /\ audio \in {"none", "idle", "running", "broken"}
  /\ reasons \subseteq Reason
  /\ posting \in Nat
  /\ sleeping \in BOOLEAN
  /\ monitor \in {"on", "off", "none"}
  /\ recent \in 0..MaxReconnects
  /\ main \in {"starting", "started", "polling", "backoff", "leaving", "closing",
               "shutting", "closed"}
  /\ running \in BOOLEAN
  /\ noticed \subseteq {"main", "focus"}
  /\ lock \in {Nobody, "main", "focus"}
  /\ asleep \in BOOLEAN
  /\ events \in 0..MaxEvents /\ calls \in 0..MaxCalls

\* The type of every variable; the circuit breaker bounds the reconnects of a
\* window.
TypeOK == ExecutorTypes /\ ManagerTypes

\* A device event that comes while another is being recovered from is not lost
\* by the coalescing: somebody is still going to look at the reasons.
ReasonsNotStranded ==
  reasons # {} /\ Available =>
    \/ \E i \in DOMAIN queue : queue[i] = Coalesced
    \/ job = Coalesced /\ ~begun
    \/ posting > 0

\* The invariant the proofs use: a transaction has begun only for work, hence its
\* end never makes the owner forget that it has ended.
IInv ==
  /\ ExecutorInv
  /\ ManagerTypes
  /\ begun => job \notin {Idle, Exit}
  /\ ReasonsNotStranded

\* Requests that were queued before the poison make no native call after it.
PoisonRefusesQueued == [][poisoned /\ todo = <<>> => todo' = <<>>]_vars

\* A wake that was reported is acted on: also when it shares a burst with the
\* sleep before it.
WakeIsHandled == ("system_wake" \in reasons) ~> (~sleeping \/ ~running)

\* After a native timeout every caller gets its answer and the engine gets to its
\* end, where the process is replaced.
PoisonEndsRuntime == poisoned ~> (main = "closed" /\ job = Exit /\ waiting = {})

\* supervisor.py: "A native timeout is terminal for the current process";
\* audio_manager.py: "callers must not continue with another PortAudio lifecycle
\* call".
PoisonIsTerminal == poisoned => ~Calling

\* audio_manager.py: "Do not terminate/reinitialize PortAudio while the hardware
\* graph is being suspended; wake owns the subsequent full recovery".  The manager
\* has handled the sleep, and the system has not reported the wake.
NoReinitWhileAsleep == running /\ sleeping /\ asleep /\ Busy => Call # "reinit"
=============================================================================
