------------------------- MODULE AudioRecoveryProofs -------------------------
(***************************************************************************)
(* Safety of AudioRecovery for every number of attempts, reconnects,       *)
(* events and calls.                                                       *)
(***************************************************************************)
EXTENDS AudioRecovery, TLAPS

USE CallersAssumption, LimitsAssumption

-----------------------------------------------------------------------------
(***************************************************************************)
(* The executor.  A step of the system does one of six things to it.       *)
(***************************************************************************)
Untouched == UNCHANGED <<queue, keyQueued, closed, job, waiting>>

ExecutorStep ==
  \/ \E c \in Caller, o \in Work : Execute(c, o)
  \/ RequestChange
  \/ Shutdown
  \/ Take
  \/ Done /\ job \notin {Idle, Exit}
  \/ Untouched /\ poisoned' \in BOOLEAN

\* The requests there are, and how they differ.
LEMMA Requests ==
  /\ Coalesced \in Request /\ Exit \in Request
  /\ \A c \in Caller, o \in Work : [op |-> o, by |-> c] \in Request
  /\ Coalesced # Exit
  /\ \A c \in Caller, o \in Work :
       /\ [op |-> o, by |-> c] # Coalesced
       /\ [op |-> o, by |-> c] # Exit
  /\ \A r \in Request : (r.op = "device_change") <=> (r = Coalesced)
  /\ \A r \in Request : r.by \in Caller \cup {Nobody}
  /\ Nobody \notin Caller
  BY CallerAssumption DEF Request, Coalesced, Exit, Work, Nobody

\* Every action uses the executor through its operations; a transaction that
\* has begun has a request.
LEMMA StepsOfExecutor ==
  ASSUME IInv, Next
  PROVE  ExecutorStep
<1>1. CASE OwnerTakes \/ ChooseInput \/ Sound \/ PostChange \/ CloseExecutor
  <2>1. CASE OwnerTakes
    BY <2>1 DEF OwnerTakes, ExecutorStep
  <2>2. CASE ChooseInput
    BY <2>2 DEF ChooseInput, ExecutorStep, Work
  <2>3. CASE Sound
    BY <2>3 DEF Sound, ExecutorStep, Work
  <2>4. CASE PostChange
    BY <2>4 DEF PostChange, ExecutorStep
  <2>5. CASE CloseExecutor
    BY <2>5 DEF CloseExecutor, ExecutorStep
  <2> QED
    BY <1>1, <2>1, <2>2, <2>3, <2>4, <2>5
<1>2. CASE StartStreaming \/ CloseAudio \/ \E c \in {"main", "focus"} : Reconnect(c)
  <2>1. UNCHANGED executor \/ \E c \in Caller, o \in Work : Execute(c, o)
    BY <1>2 DEF StartStreaming, CloseAudio, Reconnect, Work
  <2>2. UNCHANGED executor => Untouched /\ poisoned' \in BOOLEAN
    BY DEF executor, Untouched, IInv, ExecutorInv, ExecutorTypes
  <2> QED
    BY <2>1, <2>2, Zenon DEF ExecutorStep
<1>3. CASE Finish
  BY <1>3 DEF Finish, ExecutorStep, IInv
<1>4. CASE CallTimesOut
  BY <1>4 DEF CallTimesOut, ExecutorStep, Untouched
<1>5. CASE \/ StartMonitor \/ BackoffEnds \/ LoopEnds \/ CloseMonitor \/ Begin
           \/ CallReturns \/ CallRaises \/ Refused \/ StreamBreaks \/ WindowPasses
           \/ Stop \/ Ended \/ \E c \in {"main", "focus"} : NoticeDead(c)
           \/ \E r \in Reason : DeviceChange(r)
  <2>1. UNCHANGED executor
    BY <1>5 DEF StartMonitor, BackoffEnds, LoopEnds, CloseMonitor, Begin, CallReturns,
       CallRaises, Refused, StreamBreaks, WindowPasses, Stop, Ended, NoticeDead,
       DeviceChange, vars
  <2> QED
    BY <2>1 DEF executor, ExecutorStep, Untouched, IInv, ExecutorInv, ExecutorTypes
<1> QED
  BY <1>1, <1>2, <1>3, <1>4, <1>5, Zenon DEF Next, Owner, Calls, Main

\* The executor's operations keep its types.
LEMMA ExecutorTypesKept ==
  ASSUME ExecutorInv, ExecutorStep
  PROVE  ExecutorTypes'
<1> USE DEF ExecutorTypes, ExecutorInv
<1>1. CASE \E c \in Caller, o \in Work : Execute(c, o)
  BY <1>1, Requests DEF Execute
<1>2. CASE RequestChange
  <2>1. UNCHANGED <<poisoned, closed, job, waiting>>
    BY <1>2 DEF RequestChange
  <2>2. CASE NotQueued
    BY <1>2, <2>1, <2>2, Requests DEF RequestChange
  <2>3. CASE ~NotQueued
    BY <1>2, <2>1, <2>3 DEF RequestChange
  <2> QED
    BY <2>2, <2>3
<1>3. CASE Shutdown
  BY <1>3, Requests DEF Shutdown
<1>4. CASE Take
  BY <1>4 DEF Take, KeyGivenBack
<1>5. CASE Done
  BY <1>5 DEF Done
<1>6. CASE Untouched /\ poisoned' \in BOOLEAN
  BY <1>6 DEF Untouched
<1> QED
  BY <1>1, <1>2, <1>3, <1>4, <1>5, <1>6 DEF ExecutorStep

\* What the two ways a queue changes do to the requests in it.
LEMMA Appended ==
  ASSUME NEW q \in Seq(Request), NEW r \in Request
  PROVE  /\ DOMAIN Append(q, r) = DOMAIN q \cup {Len(q) + 1}
         /\ \A i \in DOMAIN q : Append(q, r)[i] = q[i]
         /\ Append(q, r)[Len(q) + 1] = r
         /\ Len(Append(q, r)) = Len(q) + 1
         /\ DOMAIN q = 1..Len(q)
  OBVIOUS

LEMMA Taken ==
  ASSUME NEW q \in Seq(Request), q # <<>>
  PROVE  /\ DOMAIN Tail(q) = 1..(Len(q) - 1)
         /\ \A i \in DOMAIN Tail(q) : i + 1 \in DOMAIN q /\ Tail(q)[i] = q[i + 1]
         /\ Len(Tail(q)) = Len(q) - 1
         /\ Head(q) = q[1]
         /\ Len(q) \in Nat \ {0}
         /\ DOMAIN q = 1..Len(q)
  OBVIOUS

\* The parts of ExecutorInv, kept by each operation.
LEMMA ExecuteKeeps ==
  ASSUME ExecutorInv, NEW c \in Caller, NEW o \in Work, Execute(c, o)
  PROVE  CallersHaveRequest' /\ OneFollowUp' /\ KeyIsKept' /\ ExitMeansClosed'
<1> DEFINE r == [op |-> o, by |-> c]
<1>1. /\ queue' = Append(queue, r) /\ queue \in Seq(Request) /\ r \in Request
      /\ r # Coalesced /\ r # Exit /\ r.by = c
      /\ waiting' = waiting \cup {c} /\ UNCHANGED <<keyQueued, closed, job>>
      /\ ~closed
  BY Requests DEF Execute, Available, ExecutorInv, ExecutorTypes
<1> HIDE DEF r
<1>2. /\ DOMAIN queue' = DOMAIN queue \cup {Len(queue) + 1}
      /\ \A i \in DOMAIN queue : queue'[i] = queue[i]
      /\ queue'[Len(queue) + 1] = r
  BY <1>1, Appended
<1>3. job # Exit /\ \A i \in DOMAIN queue' : queue'[i] # Exit
  BY <1>1, <1>2 DEF ExecutorInv, ExitMeansClosed
<1>4. CallersHaveRequest'
  BY <1>1, <1>2, <1>3 DEF CallersHaveRequest, ExecutorInv, InQueue
<1>5. OneFollowUp' /\ KeyIsKept'
  BY <1>1, <1>2 DEF OneFollowUp, KeyIsKept, ExecutorInv
<1>6. ExitMeansClosed'
  BY <1>1, <1>3 DEF ExitMeansClosed
<1> QED
  BY <1>4, <1>5, <1>6

LEMMA RequestChangeKeeps ==
  ASSUME ExecutorInv, RequestChange
  PROVE  CallersHaveRequest' /\ OneFollowUp' /\ KeyIsKept' /\ ExitMeansClosed'
<1>1. UNCHANGED <<closed, job, waiting>>
  BY DEF RequestChange
<1>2. CASE ~NotQueued
  <2>1. UNCHANGED <<queue, keyQueued>>
    BY <1>2 DEF RequestChange
  <2> QED
    BY <1>1, <2>1 DEF ExecutorInv, CallersHaveRequest, InQueue, OneFollowUp, KeyIsKept,
       ExitMeansClosed
<1>3. CASE NotQueued
  <2>1. /\ queue' = Append(queue, Coalesced) /\ keyQueued' = TRUE
        /\ ~keyQueued /\ ~closed
        /\ queue \in Seq(Request) /\ Coalesced \in Request /\ Coalesced # Exit
    BY <1>3, Requests DEF RequestChange, NotQueued, Available, ExecutorInv, ExecutorTypes
  <2>2. /\ DOMAIN queue' = DOMAIN queue \cup {Len(queue) + 1}
        /\ \A i \in DOMAIN queue : queue'[i] = queue[i]
        /\ queue'[Len(queue) + 1] = Coalesced
    BY <2>1, Appended
  <2>3. job # Exit /\ \A i \in DOMAIN queue' : queue'[i] # Exit
    BY <2>1, <2>2 DEF ExecutorInv, ExitMeansClosed
  <2>4. CallersHaveRequest'
    BY <1>1, <2>2, <2>3 DEF CallersHaveRequest, ExecutorInv, InQueue
  <2>5. \A i \in DOMAIN queue : queue[i] # Coalesced
    BY <2>1 DEF ExecutorInv, KeyIsKept
  <2>6. OneFollowUp' /\ KeyIsKept'
    BY <2>1, <2>2, <2>5 DEF OneFollowUp, KeyIsKept
  <2>7. ExitMeansClosed'
    BY <1>1, <2>3 DEF ExitMeansClosed
  <2> QED
    BY <2>4, <2>6, <2>7
<1> QED
  BY <1>2, <1>3

LEMMA ShutdownKeeps ==
  ASSUME ExecutorInv, Shutdown
  PROVE  CallersHaveRequest' /\ OneFollowUp' /\ KeyIsKept' /\ ExitMeansClosed'
<1>1. closed' = TRUE /\ UNCHANGED <<keyQueued, job, waiting>>
  BY DEF Shutdown
<1>2. CASE closed
  <2>1. queue' = queue
    BY <1>2 DEF Shutdown
  <2> QED
    BY <1>1, <2>1 DEF ExecutorInv, CallersHaveRequest, InQueue, OneFollowUp, KeyIsKept,
       ExitMeansClosed
<1>3. CASE ~closed
  <2>1. /\ queue' = Append(queue, Exit) /\ queue \in Seq(Request)
        /\ Exit \in Request /\ Coalesced # Exit
    BY <1>3, Requests DEF Shutdown, ExecutorInv, ExecutorTypes
  <2>2. /\ DOMAIN queue' = DOMAIN queue \cup {Len(queue) + 1}
        /\ \A i \in DOMAIN queue : queue'[i] = queue[i]
        /\ queue'[Len(queue) + 1] = Exit
        /\ Len(queue') = Len(queue) + 1
    BY <2>1, Appended
  <2>3. job # Exit /\ \A i \in DOMAIN queue : queue[i] # Exit
    BY <1>3 DEF ExecutorInv, ExitMeansClosed
  <2>4. CallersHaveRequest'
    BY <1>1, <2>2, <2>3 DEF CallersHaveRequest, ExecutorInv, InQueue
  <2>5. OneFollowUp' /\ KeyIsKept'
    BY <1>1, <2>1, <2>2 DEF OneFollowUp, KeyIsKept, ExecutorInv
  <2> QED
    BY <1>1, <2>4, <2>5 DEF ExitMeansClosed
<1> QED
  BY <1>2, <1>3

LEMMA TakeKeeps ==
  ASSUME ExecutorInv, Take
  PROVE  CallersHaveRequest' /\ OneFollowUp' /\ KeyIsKept' /\ ExitMeansClosed'
<1>1. /\ job = Idle /\ queue # <<>> /\ queue \in Seq(Request)
      /\ queue' = Tail(queue) /\ job' = Head(queue)
      /\ UNCHANGED <<closed, waiting>>
      /\ waiting \subseteq Caller
  BY DEF Take, ExecutorInv, ExecutorTypes
<1>2. /\ DOMAIN queue' = 1..(Len(queue) - 1)
      /\ \A i \in DOMAIN queue' : i + 1 \in DOMAIN queue /\ queue'[i] = queue[i + 1]
      /\ Len(queue') = Len(queue) - 1
      /\ job' = queue[1]
      /\ Len(queue) \in Nat \ {0}
      /\ DOMAIN queue = 1..Len(queue)
  BY <1>1, Taken
<1>3. \A i \in DOMAIN queue : i # 1 => i - 1 \in DOMAIN queue' /\ queue'[i - 1] = queue[i]
  BY <1>2
<1>4. 1 \in DOMAIN queue /\ job' \in Request
  BY <1>1, <1>2
<1>5. CallersHaveRequest'
  <2>1. ASSUME NEW c \in waiting'
        PROVE  InQueue(c)' \/ job'.by = c
    <3>1. c \in waiting /\ job.by # c
      BY <1>1, Requests DEF Idle
    <3>2. PICK i \in DOMAIN queue : queue[i].by = c
      BY <3>1 DEF ExecutorInv, CallersHaveRequest, InQueue
    <3>3. CASE i = 1
      BY <3>2, <3>3, <1>2
    <3>4. CASE i # 1
      BY <3>2, <3>4, <1>3 DEF InQueue
    <3> QED
      BY <3>3, <3>4
  <2>2. \A i \in DOMAIN queue' : queue'[i] = Exit => i = Len(queue')
    BY <1>2 DEF ExecutorInv, CallersHaveRequest
  <2>3. ASSUME job' = Exit
        PROVE  queue' = <<>>
    <3>1. 1 = Len(queue)
      BY <1>2, <1>4, <2>3 DEF ExecutorInv, CallersHaveRequest
    <3> QED
      BY <3>1, <1>1
  <2> QED
    BY <2>1, <2>2, <2>3 DEF CallersHaveRequest
<1>6. job'.op = "device_change" <=> job' = Coalesced
  BY <1>4, Requests
<1>7. OneFollowUp'
  <2>1. ASSUME keyQueued'
        PROVE  \E i \in DOMAIN queue' : queue'[i] = Coalesced
    <3>1. keyQueued /\ job' # Coalesced
      BY <1>6, <2>1 DEF Take, KeyGivenBack
    <3>2. PICK i \in DOMAIN queue : queue[i] = Coalesced
      BY <3>1 DEF ExecutorInv, OneFollowUp
    <3>3. i # 1
      BY <1>2, <3>1, <3>2
    <3> QED
      BY <3>2, <3>3, <1>3
  <2>2. ASSUME NEW i \in DOMAIN queue', NEW j \in DOMAIN queue',
               queue'[i] = Coalesced, queue'[j] = Coalesced
        PROVE  i = j
    <3>1. i + 1 = j + 1
      BY <1>2, <2>2 DEF ExecutorInv, OneFollowUp
    <3> QED
      BY <3>1, <1>2
  <2> QED
    BY <2>1, <2>2 DEF OneFollowUp
<1>8. KeyIsKept'
  <2>1. SUFFICES ASSUME NEW i \in DOMAIN queue', queue'[i] = Coalesced
                 PROVE  keyQueued'
    BY DEF KeyIsKept
  <2>2. i + 1 \in DOMAIN queue /\ queue[i + 1] = Coalesced /\ i + 1 # 1
    BY <1>2, <2>1
  <2>3. keyQueued /\ queue[1] # Coalesced
    BY <2>2, <1>4 DEF ExecutorInv, KeyIsKept, OneFollowUp
  <2> QED
    BY <2>3, <1>2, <1>6 DEF Take, KeyGivenBack
<1>9. ExitMeansClosed'
  BY <1>1, <1>2, <1>4 DEF ExecutorInv, ExitMeansClosed
<1> QED
  BY <1>5, <1>7, <1>8, <1>9

LEMMA DoneKeeps ==
  ASSUME ExecutorInv, Done, job \notin {Idle, Exit}
  PROVE  CallersHaveRequest' /\ OneFollowUp' /\ KeyIsKept' /\ ExitMeansClosed'
<1>1. /\ job' = Idle /\ waiting' = waiting \ {job.by}
      /\ UNCHANGED <<queue, keyQueued, closed>>
      /\ Idle # Exit
  BY DEF Done, Idle, Exit
<1>2. CallersHaveRequest'
  BY <1>1 DEF ExecutorInv, CallersHaveRequest, InQueue
<1> QED
  BY <1>1, <1>2 DEF ExecutorInv, OneFollowUp, KeyIsKept, ExitMeansClosed

LEMMA ExecutorKept ==
  ASSUME ExecutorInv, ExecutorStep
  PROVE  ExecutorInv'
<1>1. CASE Untouched
  BY <1>1, ExecutorTypesKept DEF Untouched, ExecutorInv, CallersHaveRequest, InQueue,
     OneFollowUp, KeyIsKept, ExitMeansClosed
<1> QED
  BY <1>1, ExecutorTypesKept, ExecuteKeeps, RequestChangeKeeps, ShutdownKeeps, TakeKeeps,
     DoneKeeps DEF ExecutorStep, ExecutorInv

-----------------------------------------------------------------------------
(***************************************************************************)
(* The audio manager.                                                      *)
(***************************************************************************)

\* A transaction is a sequence of native calls.
LEMMA Transactions ==
  /\ Rebuild \in Seq(NativeCall) /\ Retry \in Seq(NativeCall)
  /\ <<"stop_output">> \o Abort \in Seq(NativeCall)
  /\ Abort \o <<"open">> \in Seq(NativeCall)
  /\ <<>> \in Seq(NativeCall)
  /\ \A c \in NativeCall : <<c>> \in Seq(NativeCall)
  /\ <<"stop_output", "stop_input">> \in Seq(NativeCall)
<1> USE DEF NativeCall
<1>1. CASE audio \in {"running", "broken"}
  BY <1>1 DEF Abort, Rebuild, Retry
<1>2. CASE audio \notin {"running", "broken"}
  BY <1>2 DEF Abort, Rebuild, Retry
<1> QED
  BY <1>1, <1>2

\* What is left of a transaction after a call, and what an error makes of it.
LEMMA Remaining ==
  ASSUME IInv, Busy
  PROVE  /\ Tail(todo) \in Seq(NativeCall)
         /\ Call \in NativeCall
         /\ Fail => todo' \in Seq(NativeCall) /\ attempt' \in 0..Attempts
         /\ Abandoned \in {"none", "idle", "running", "broken"}
<1>1. todo \in Seq(NativeCall) /\ todo # <<>> /\ attempt \in 0..Attempts
  BY DEF Busy, IInv, ManagerTypes
<1>2. Fail => todo' \in Seq(NativeCall)
  BY Transactions DEF Fail
<1>3. Fail => attempt' \in 0..Attempts
  BY <1>1 DEF Fail
<1>4. Abandoned \in {"none", "idle", "running", "broken"}
  BY DEF Abandoned, IInv, ManagerTypes
<1> QED
  BY <1>1, <1>2, <1>3, <1>4 DEF Call

\* The owner thread's actions keep the types.
LEMMA OwnerTypes ==
  ASSUME IInv, Owner
  PROVE  ManagerTypes'
<1> USE DEF ManagerTypes, IInv
<1>1. CASE OwnerTakes
  <2>1. todo' \in Seq(NativeCall) /\ attempt' \in 0..Attempts
    BY <1>1, Transactions DEF OwnerTakes
  <2> QED
    BY <1>1, <2>1 DEF OwnerTakes, manager, pending, threads, counters
<1>2. CASE Begin
  <2>1. /\ UNCHANGED <<posting, noticed, main, running, lock, asleep, events, calls>>
        /\ begun' = TRUE
    BY <1>2 DEF Begin, pending, threads, counters
  <2>2. CASE BeginDeviceChange /\ UNCHANGED outcome
    <3>1. todo' \in Seq(NativeCall)
      BY <2>2, Transactions DEF BeginDeviceChange
    <3>2. /\ audio' \in {"none", "idle", "running", "broken"}
          /\ sleeping' \in BOOLEAN /\ reasons' \subseteq Reason
      BY <2>2 DEF BeginDeviceChange, Dropped, AsleepAfter
    <3> QED
      BY <2>1, <2>2, <3>1, <3>2 DEF BeginDeviceChange
  <2>3. CASE BeginReset /\ UNCHANGED outcome
    BY <2>1, <2>3, Transactions DEF BeginReset, Dropped
  <2>4. CASE BeginReconnect /\ UNCHANGED outcome
    <3>1. recent' \in 0..MaxReconnects
      BY <2>4 DEF BeginReconnect, BreakerTrips
    <3>2. todo' \in Seq(NativeCall)
      BY <2>4, Transactions DEF BeginReconnect
    <3>3. attempt' \in 0..Attempts
      BY <2>4 DEF BeginReconnect
    <3> QED
      BY <2>1, <2>4, <3>1, <3>2, <3>3 DEF BeginReconnect, Dropped
  <2>5. CASE BeginCalls /\ UNCHANGED outcome
    <3>1. todo' \in Seq(NativeCall)
      BY <2>5, Transactions DEF BeginCalls, NativeCall
    <3> QED
      BY <2>1, <2>5, <3>1 DEF BeginCalls
  <2>6. CASE outcome' = "error" /\ UNCHANGED <<todo, attempt, manager>>
    BY <2>1, <2>6 DEF manager
  <2> QED
    BY <1>2, <2>2, <2>3, <2>4, <2>5, <2>6 DEF Begin
<1>3. CASE CallReturns
  <2>1. /\ Busy
        /\ UNCHANGED <<begun, reasons, sleeping, recent, posting, noticed, main,
                       running, lock, asleep, events, calls>>
    BY <1>3 DEF CallReturns, Calling, pending, threads, counters
  <2>2. <<"discard">> \in Seq(NativeCall)
    BY DEF NativeCall
  <2>3. todo' \in Seq(NativeCall) /\ attempt' \in 0..Attempts
    BY <1>3, <2>1, <2>2, Remaining DEF CallReturns
  <2>4. /\ outcome' \in {"ok", "failed", "error"}
        /\ audio' \in {"none", "idle", "running", "broken"}
        /\ monitor' \in {"on", "off", "none"}
    BY <1>3 DEF CallReturns
  <2> QED
    BY <2>1, <2>3, <2>4
<1>4. CASE CallRaises
  <2>1. /\ Busy
        /\ UNCHANGED <<begun, outcome, reasons, sleeping, monitor, recent, posting,
                       noticed, main, running, lock, asleep, events, calls>>
    BY <1>4 DEF CallRaises, Calling, pending, threads, counters
  <2>2. todo' \in Seq(NativeCall) /\ attempt' \in 0..Attempts
    BY <1>4, <2>1, Remaining DEF CallRaises
  <2>3. audio' \in {"none", "idle", "running", "broken"}
    BY <1>4, <2>1, Remaining DEF CallRaises
  <2> QED
    BY <2>1, <2>2, <2>3
<1>5. CASE CallTimesOut
  <2>1. /\ Busy
        /\ UNCHANGED <<begun, attempt, reasons, sleeping, monitor, recent, posting,
                       noticed, main, lock, asleep, events, calls>>
        /\ running' = FALSE
    BY <1>5 DEF CallTimesOut, Calling, AfterPoison, pending, counters
  <2>2. todo' \in Seq(NativeCall)
    BY <1>5, <2>1, Remaining, Transactions DEF CallTimesOut
  <2>3. /\ outcome' \in {"ok", "failed", "error"}
        /\ audio' \in {"none", "idle", "running", "broken"}
    BY <1>5, <2>1, Remaining DEF CallTimesOut
  <2> QED
    BY <2>1, <2>2, <2>3
<1>6. CASE Refused
  BY <1>6, Remaining DEF Refused, manager, pending, threads, counters
<1>7. CASE Finish
  <2>1. main' \in {"starting", "started", "polling", "backoff", "leaving", "closing",
                   "shutting", "closed"}
    BY <1>7 DEF Finish, MainAfter
  <2>2. lock' \in {Nobody, "main", "focus"}
    BY <1>7 DEF Finish
  <2> QED
    BY <1>7, <2>1, <2>2 DEF Finish, manager, pending, counters
<1> QED
  BY <1>1, <1>2, <1>3, <1>4, <1>5, <1>6, <1>7 DEF Owner, Calls

\* And so do the actions of the other threads and of the environment.
LEMMA OtherTypes ==
  ASSUME IInv, Next, ~Owner
  PROVE  ManagerTypes'
<1> USE DEF ManagerTypes, IInv
<1>1. CASE \/ StartStreaming \/ BackoffEnds \/ Stop \/ LoopEnds \/ CloseAudio
           \/ CloseExecutor \/ Ended
  <2>1. UNCHANGED <<transaction, manager, pending, counters>>
    BY <1>1 DEF StartStreaming, BackoffEnds, Stop, LoopEnds, CloseAudio, CloseExecutor,
       Ended, vars
  <2>2. /\ main' \in {"starting", "started", "polling", "backoff", "leaving", "closing",
                      "shutting", "closed"}
        /\ running' \in BOOLEAN
        /\ lock' \in {Nobody, "main", "focus"}
    BY <1>1 DEF StartStreaming, BackoffEnds, Stop, LoopEnds, CloseAudio, CloseExecutor,
       Ended, vars, threads
  <2> QED
    BY <2>1, <2>2 DEF transaction, manager, pending, counters
<1>2. CASE StartMonitor \/ CloseMonitor
  BY <1>2 DEF StartMonitor, CloseMonitor, transaction, pending, counters
<1>3. CASE \E c \in {"main", "focus"} : NoticeDead(c)
  <2>1. PICK c \in {"main", "focus"} : NoticeDead(c)
    BY <1>3
  <2>2. calls' \in 0..MaxCalls
    BY <2>1 DEF NoticeDead
  <2>3. noticed' \subseteq {"main", "focus"}
    BY <2>1 DEF NoticeDead
  <2> QED
    BY <2>1, <2>2, <2>3 DEF NoticeDead, transaction, manager, threads
<1>4. CASE \E c \in {"main", "focus"} : Reconnect(c)
  <2>1. PICK c \in {"main", "focus"} : Reconnect(c)
    BY <1>4
  <2>2. /\ main' \in {"starting", "started", "polling", "backoff", "leaving", "closing",
                      "shutting", "closed"}
        /\ lock' \in {Nobody, "main", "focus"}
        /\ noticed' \subseteq {"main", "focus"}
    BY <2>1 DEF Reconnect
  <2> QED
    BY <2>1, <2>2 DEF Reconnect, transaction, manager, counters
<1>5. CASE ChooseInput \/ Sound
  <2>1. calls' \in 0..MaxCalls
    BY <1>5 DEF ChooseInput, Sound
  <2>2. UNCHANGED <<transaction, manager, pending, threads, asleep, events>>
    BY <1>5 DEF ChooseInput, Sound
  <2> QED
    BY <2>1, <2>2 DEF transaction, manager, pending, threads
<1>6. CASE PostChange
  <2>1. posting > 0 /\ posting' = posting - 1
    BY <1>6, Zenon DEF PostChange
  <2>2. posting \in Nat
    OBVIOUS
  <2>3. posting' \in Nat
    BY <2>1, <2>2
  <2> QED
    BY <1>6, <2>3 DEF PostChange, transaction, manager, threads, counters
<1>7. CASE StreamBreaks
  BY <1>7 DEF StreamBreaks, transaction, pending, threads, counters
<1>8. CASE WindowPasses
  <2>1. recent \in 0..MaxReconnects /\ recent > 0 /\ recent' = recent - 1
    BY <1>8 DEF WindowPasses
  <2>2. recent' \in 0..MaxReconnects
    BY <2>1
  <2> QED
    BY <1>8, <2>2 DEF WindowPasses, transaction, pending, threads, counters
<1>9. CASE \E r \in Reason : DeviceChange(r)
  <2>1. PICK r \in Reason : DeviceChange(r)
    BY <1>9
  <2>2. events' \in 0..MaxEvents
    BY <2>1 DEF DeviceChange
  <2>3. posting' \in Nat
    BY <2>1 DEF DeviceChange
  <2>4. reasons' \subseteq Reason /\ asleep' \in BOOLEAN
    BY <2>1 DEF DeviceChange
  <2> QED
    BY <2>1, <2>2, <2>3, <2>4 DEF DeviceChange, transaction, threads
<1> QED
  BY <1>1, <1>2, <1>3, <1>4, <1>5, <1>6, <1>7, <1>8, <1>9, Zenon DEF Next, Main

\* A transaction begins for work, and its job stays until it is finished.
LEMMA BegunHasWork ==
  ASSUME IInv, Next
  PROVE  begun' => job' \notin {Idle, Exit}
<1>1. CASE OwnerTakes \/ Finish
  BY <1>1 DEF OwnerTakes, Finish
<1>2. CASE Begin
  BY <1>2 DEF Begin, executor
<1>3. CASE ~OwnerTakes /\ ~Finish /\ ~Begin
  <2>1. UNCHANGED <<begun, job>>
    BY <1>3 DEF Next, Owner, Calls, Main, CallReturns, CallRaises, CallTimesOut, Refused,
       StartStreaming, StartMonitor, NoticeDead, Reconnect, BackoffEnds, LoopEnds,
       CloseMonitor, CloseAudio, CloseExecutor, ChooseInput, Sound, PostChange,
       StreamBreaks, WindowPasses, DeviceChange, Stop, Ended, Execute, RequestChange,
       Shutdown, executor, transaction, vars
  <2> QED
    BY <2>1 DEF IInv
<1> QED
  BY <1>1, <1>2, <1>3

\* The owner takes the reasons or leaves them to a request that is still there.
LEMMA ReasonsKept ==
  ASSUME IInv, Next
  PROVE  ReasonsNotStranded'
<1> DEFINE Queued == \E i \in DOMAIN queue : queue[i] = Coalesced
<1> SUFFICES ASSUME reasons' # {}, Available'
             PROVE  Queued' \/ (job' = Coalesced /\ ~begun') \/ posting' > 0
  BY DEF ReasonsNotStranded
<1>1. /\ posting \in Nat /\ queue \in Seq(Request)
      /\ reasons # {} /\ Available => Queued \/ (job = Coalesced /\ ~begun) \/ posting > 0
  BY DEF IInv, ManagerTypes, ExecutorInv, ExecutorTypes, ReasonsNotStranded
<1>2. CASE OwnerTakes
  <2>1. /\ UNCHANGED <<reasons, posting, poisoned, closed>>
        /\ job = Idle /\ queue # <<>> /\ job' = Head(queue) /\ queue' = Tail(queue)
        /\ ~begun' /\ Idle # Coalesced
    BY <1>2 DEF OwnerTakes, Take, manager, pending, Idle, Coalesced
  <2>2. Queued \/ posting > 0
    BY <1>1, <2>1 DEF Available
  <2>3. ASSUME NEW i \in DOMAIN queue, queue[i] = Coalesced
        PROVE  Queued' \/ job' = Coalesced
    <3>1. CASE i = 1
      BY <1>1, <2>1, <2>3, <3>1, Taken
    <3>2. CASE i # 1
      <4>1. i - 1 \in DOMAIN queue' /\ queue'[i - 1] = Coalesced
        BY <1>1, <2>1, <2>3, <3>2, Taken
      <4> QED
        BY <4>1
    <3> QED
      BY <3>1, <3>2
  <2> QED
    BY <2>1, <2>2, <2>3
<1>3. CASE Begin
  <2>1. UNCHANGED <<queue, job, poisoned, closed, posting>>
    BY <1>3 DEF Begin, executor, pending
  <2>2. Admitted
    BY <2>1 DEF Admitted, Available
  <2>3. ~BeginDeviceChange /\ (BeginReset \/ BeginReconnect \/ BeginCalls)
    BY <1>3, <2>2 DEF Begin, BeginDeviceChange
  <2>4. job # Coalesced /\ reasons' = reasons
    BY <2>3 DEF BeginReset, BeginReconnect, BeginCalls, Coalesced
  <2> QED
    BY <1>1, <2>1, <2>4 DEF Available
<1>4. CASE CallTimesOut \/ CloseExecutor
  BY <1>4 DEF CallTimesOut, CloseExecutor, Shutdown, Available
<1>5. CASE PostChange
  <2>1. UNCHANGED <<reasons, poisoned, closed>> /\ RequestChange
    BY <1>5 DEF PostChange, RequestChange, manager
  <2>2. CASE NotQueued
    <3>1. queue' = Append(queue, Coalesced)
      BY <2>1, <2>2 DEF RequestChange
    <3>2. Len(queue) + 1 \in DOMAIN queue' /\ queue'[Len(queue) + 1] = Coalesced
      BY <1>1, <3>1, Appended, Requests
    <3> QED
      BY <3>2
  <2>3. CASE ~NotQueued
    <3>1. keyQueued /\ queue' = queue
      BY <2>1, <2>3 DEF NotQueued, Available, RequestChange
    <3> QED
      BY <3>1 DEF IInv, ExecutorInv, OneFollowUp
  <2> QED
    BY <2>2, <2>3
<1>6. CASE \E r \in Reason : DeviceChange(r)
  <2>1. PICK r \in Reason : DeviceChange(r)
    BY <1>6
  <2>2. UNCHANGED <<queue, job, begun, poisoned, closed>>
    BY <2>1 DEF DeviceChange, executor, transaction
  <2>3. posting' = posting + 1 \/ UNCHANGED <<reasons, posting>>
    BY <2>1 DEF DeviceChange
  <2> QED
    BY <1>1, <2>2, <2>3 DEF Available
<1>7. CASE \/ StartStreaming \/ ChooseInput \/ Sound \/ CloseAudio
           \/ \E c \in {"main", "focus"} : Reconnect(c)
  <2>1. UNCHANGED <<reasons, posting, begun, job, poisoned, closed>>
    BY <1>7 DEF StartStreaming, ChooseInput, Sound, CloseAudio, Reconnect, Execute,
       manager, pending, transaction, executor
  <2>2. queue' = queue \/ \E c \in Caller, o \in Work : Execute(c, o)
    BY <1>7 DEF StartStreaming, ChooseInput, Sound, CloseAudio, Reconnect, Work, executor
  <2>3. queue' = queue \/ \E r \in Request : queue' = Append(queue, r)
    BY <2>2, Requests DEF Execute
  <2>4. Queued => Queued'
    BY <1>1, <2>3, Appended
  <2> QED
    BY <1>1, <2>1, <2>4 DEF Available
<1>8. CASE Finish
  BY <1>1, <1>8 DEF Finish, Done, manager, pending, Available
<1>9. CASE \/ StartMonitor \/ BackoffEnds \/ LoopEnds \/ CloseMonitor
           \/ CallReturns \/ CallRaises \/ Refused \/ StreamBreaks \/ WindowPasses
           \/ Stop \/ Ended \/ \E c \in {"main", "focus"} : NoticeDead(c)
  <2>1. UNCHANGED <<queue, job, begun, reasons, posting, poisoned, closed>>
    BY <1>9 DEF StartMonitor, BackoffEnds, LoopEnds, CloseMonitor, CallReturns, CallRaises,
       Refused, StreamBreaks, WindowPasses, Stop, Ended, NoticeDead, executor, transaction,
       manager, pending, vars
  <2> QED
    BY <1>1, <2>1 DEF Available
<1> QED
  BY <1>2, <1>3, <1>4, <1>5, <1>6, <1>7, <1>8, <1>9, Zenon DEF Next, Owner, Calls, Main

-----------------------------------------------------------------------------
(***************************************************************************)
(* Theorems.                                                               *)
(***************************************************************************)
LEMMA InitInv == Init => IInv
<1> SUFFICES ASSUME Init
             PROVE  IInv
  OBVIOUS
<1>1. ExecutorInv
  <2>1. /\ queue = <<>> /\ DOMAIN queue = {} /\ queue \in Seq(Request)
        /\ ~keyQueued /\ job = Idle /\ Idle # Exit /\ waiting = {}
    BY DEF Init, ExecutorInit, Idle, Exit
  <2>2. ExecutorTypes
    BY <2>1 DEF Init, ExecutorInit, ExecutorTypes
  <2> QED
    BY <2>1, <2>2 DEF ExecutorInv, CallersHaveRequest, OneFollowUp, KeyIsKept,
       ExitMeansClosed
<1>2. ManagerTypes
  <2>1. todo \in Seq(NativeCall)
    BY Transactions DEF Init
  <2>2. attempt \in 0..Attempts /\ recent \in 0..MaxReconnects
        /\ events \in 0..MaxEvents /\ calls \in 0..MaxCalls
    BY DEF Init, LimitsAssumption
  <2> QED
    BY <2>1, <2>2 DEF Init, ManagerTypes
<1> QED
  BY <1>1, <1>2 DEF IInv, Init, ReasonsNotStranded

LEMMA StepInv == IInv /\ [Next]_vars => IInv'
<1> SUFFICES ASSUME IInv, [Next]_vars
             PROVE  IInv'
  OBVIOUS
<1>1. CASE Next
  <2>1. ExecutorInv'
    BY <1>1, StepsOfExecutor, ExecutorKept DEF IInv
  <2>2. ManagerTypes'
    BY <1>1, OwnerTypes, OtherTypes
  <2> QED
    BY <1>1, <2>1, <2>2, BegunHasWork, ReasonsKept DEF IInv
<1>2. CASE UNCHANGED vars
  <2>1. ExecutorInv'
    BY <1>2, ExecutorKept DEF IInv, ExecutorInv, ExecutorTypes, ExecutorStep, Untouched,
       vars, executor
  <2> QED
    BY <1>2, <2>1 DEF IInv, ManagerTypes, ReasonsNotStranded, Available, vars, executor,
       transaction, manager, pending, threads, counters
<1> QED
  BY <1>1, <1>2

\* The inductive invariant.
THEOREM Inductive == Spec => []IInv
  BY InitInv, StepInv, PTL DEF Spec

\* Every variable keeps its type; the circuit breaker bounds the reconnects.
THEOREM TypeCorrect == Spec => []TypeOK
<1>1. IInv => TypeOK
  BY DEF IInv, ExecutorInv, TypeOK
<1> QED
  BY <1>1, Inductive, PTL

\* Whoever waits in execute() has a request that the owner thread will reach.
THEOREM NoCallerForgotten == Spec => []CallersHaveRequest
<1>1. IInv => CallersHaveRequest
  BY DEF IInv, ExecutorInv
<1> QED
  BY <1>1, Inductive, PTL

\* Events that come during a recovery lead to one more, and not to two.
THEOREM AtMostOneFollowUp == Spec => []OneFollowUp
<1>1. IInv => OneFollowUp
  BY DEF IInv, ExecutorInv
<1> QED
  BY <1>1, Inductive, PTL

\* No device event is lost by the coalescing.
THEOREM NoReasonStranded == Spec => []ReasonsNotStranded
<1>1. IInv => ReasonsNotStranded
  BY DEF IInv
<1> QED
  BY <1>1, Inductive, PTL

\* After the poison no other request makes a native call.
THEOREM QueuedIsRefused == Spec => PoisonRefusesQueued
<1>1. ASSUME Next, poisoned, todo = <<>>
      PROVE  todo' = <<>>
  <2>1. CASE OwnerTakes
    BY <2>1 DEF OwnerTakes
  <2>2. CASE Begin
    BY <1>1, <2>2 DEF Begin, Admitted, Available
  <2>3. ~Calls
    BY <1>1 DEF Calls, CallReturns, CallRaises, CallTimesOut, Refused, Calling, Busy
  <2>4. CASE ~OwnerTakes /\ ~Begin /\ ~Calls
    <3>1. todo' = todo
      BY <1>1, <2>4 DEF Next, Owner, Main, Finish, StartStreaming, StartMonitor, NoticeDead,
         Reconnect, BackoffEnds, LoopEnds, CloseMonitor, CloseAudio, CloseExecutor,
         ChooseInput, Sound, PostChange, StreamBreaks, WindowPasses, DeviceChange, Stop,
         Ended, transaction, vars
    <3> QED
      BY <1>1, <3>1
  <2> QED
    BY <2>1, <2>2, <2>3, <2>4
<1>2. [Next]_vars => (poisoned /\ todo = <<>> => todo' = <<>>)
  BY <1>1 DEF vars, transaction
<1> QED
  BY <1>2, PTL DEF Spec, PoisonRefusesQueued
=============================================================================
