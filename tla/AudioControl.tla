---------------------------- MODULE AudioControl ----------------------------
(***************************************************************************)
(* The executor of dictare's native audio calls (audio/supervisor.py): one *)
(* thread takes requests in order.  execute() waits for its request,       *)
(* request() leaves one behind that is dropped while its like is queued.   *)
(* A native call that times out poisons the executor: the call may still   *)
(* hold native state, so no other may be made in this process.             *)
(***************************************************************************)
EXTENDS Naturals, Sequences

CONSTANT Caller      \* the threads that call execute(), one request at a time

Nobody == "nobody"   \* the caller of a request that nobody waits for
ASSUME CallerAssumption == Nobody \notin Caller

\* What execute() is asked for; request() is asked for device changes only, and
\* shutdown() puts the None that ends the thread.
Work == {"start_input", "reset_input", "reconnect_input", "close_audio",
         "play_output", "stop_output"}
Coalesced == [op |-> "device_change", by |-> Nobody]
Exit == [op |-> "exit", by |-> Nobody]
Request == [op : Work, by : Caller] \cup {Coalesced, Exit}
Idle == [op |-> "none", by |-> Nobody]

VARIABLES
  queue,       \* _queue
  keyQueued,   \* _queued_keys holds the key of device changes
  poisoned,    \* _poisoned_reason is set
  closed,      \* _closed
  job,         \* the request the owner thread has taken; Exit when it has ended
  waiting      \* callers whose request is not done

executor == <<queue, keyQueued, poisoned, closed, job, waiting>>

ExecutorTypes ==
  /\ queue \in Seq(Request)
  /\ keyQueued \in BOOLEAN
  /\ poisoned \in BOOLEAN
  /\ closed \in BOOLEAN
  /\ job \in Request \cup {Idle}
  /\ waiting \subseteq Caller

ExecutorInit ==
  /\ queue = <<>>
  /\ keyQueued = FALSE
  /\ poisoned = FALSE
  /\ closed = FALSE
  /\ job = Idle
  /\ waiting = {}

-----------------------------------------------------------------------------
\* _check_available_locked
Available == ~poisoned /\ ~closed

Execute(c, o) ==
  /\ Available
  /\ c \notin waiting
  /\ queue' = Append(queue, [op |-> o, by |-> c])
  /\ waiting' = waiting \cup {c}
  /\ UNCHANGED <<keyQueued, poisoned, closed, job>>

\* request(); refused, or dropped when there is one in the queue.
NotQueued == Available /\ ~keyQueued

RequestChange ==
  /\ IF NotQueued
     THEN /\ queue' = Append(queue, Coalesced)
          /\ keyQueued' = TRUE
     ELSE UNCHANGED <<queue, keyQueued>>
  /\ UNCHANGED <<poisoned, closed, job, waiting>>

ShutdownFirst ==
  /\ closed' = TRUE
  /\ queue' = <<Exit>> \o queue
  /\ UNCHANGED <<keyQueued, poisoned, job, waiting>>
Shutdown ==
  /\ closed' = TRUE
  /\ queue' = IF closed THEN queue ELSE Append(queue, Exit)
  /\ UNCHANGED <<keyQueued, poisoned, job, waiting>>

\* The key is given back before the work begins, so that an event that comes
\* during a recovery leads to one more.
KeyKept == keyQueued
KeyGivenBack == keyQueued /\ job'.op # "device_change"

Take ==
  /\ job = Idle
  /\ queue # <<>>
  /\ job' = Head(queue)
  /\ queue' = Tail(queue)
  /\ keyQueued' = KeyGivenBack
  /\ UNCHANGED <<poisoned, closed, waiting>>

\* done.set(), whatever became of the work.
Done ==
  /\ job' = Idle
  /\ waiting' = waiting \ {job.by}
  /\ UNCHANGED <<queue, keyQueued, poisoned, closed>>

-----------------------------------------------------------------------------
\* No caller waits in vain: its request is in the queue or being worked on, and
\* the thread does not end before it gets there.
InQueue(c) == \E i \in DOMAIN queue : queue[i].by = c
CallersHaveRequest ==
  /\ \A c \in waiting : InQueue(c) \/ job.by = c
  /\ \A i \in DOMAIN queue : queue[i] = Exit => i = Len(queue)
  /\ job = Exit => queue = <<>>

\* supervisor.py: "events arriving during a recovery collapse into at most one
\* follow-up recovery"; and the key never refuses an event for nothing.
OneFollowUp ==
  /\ keyQueued => \E i \in DOMAIN queue : queue[i] = Coalesced
  /\ \A i, j \in DOMAIN queue : queue[i] = Coalesced /\ queue[j] = Coalesced => i = j

\* What makes both inductive: the queue has a device change only with its key,
\* and the end of the thread only when nothing can be added any more.
KeyIsKept == (\E i \in DOMAIN queue : queue[i] = Coalesced) => keyQueued
ExitMeansClosed ==
  (job = Exit \/ \E i \in DOMAIN queue : queue[i] = Exit) => closed

ExecutorInv ==
  ExecutorTypes /\ CallersHaveRequest /\ OneFollowUp /\ KeyIsKept /\ ExitMeansClosed
=============================================================================
