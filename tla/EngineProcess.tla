---------------------------- MODULE EngineProcess ----------------------------
(***************************************************************************)
(* The life of an engine process (cli/serve.py, app/controller.py and the  *)
(* exit requests of core/engine.py), its PID file, its port, and the       *)
(* supervisor that starts it again (resources/launcher.swift).             *)
(*                                                                         *)
(* request_process_exit is called by signal handlers, HTTP handlers and    *)
(* the audio control thread; it takes no lock, so what it tests and what   *)
(* it writes are two steps.                                                *)
(***************************************************************************)
EXTENDS RuntimeStore, FiniteSets

CONSTANTS
  Processes,   \* engine processes, in one behaviour
  Nobody,      \* no process
  Budgets      \* bounds: how many of each a behaviour has

ASSUME ProcessesAssumption == Nobody \notin Processes

VARIABLES
  at,        \* where each process is in its life
  pidFile,   \* the process that ~/.dictare/engine.pid names
  port,      \* the process that listens
  running,   \* engine.running
  code,      \* requested_exit_code
  reason,    \* requested_exit_reason
  decided,   \* callers of request_process_exit that are about to write the two
  watchdogs, \* exit codes of the watchdogs that count
  status,    \* what the supervisor has seen of a process that ended
  version,   \* the runtime a process was started from
  child,     \* the launcher's childProcess
  due,       \* restartWorkItem is scheduled
  leaving,   \* launcherIsTerminating
  asked,     \* history: who asked the process to end
  left       \* what is left of the bounds

processVars == <<at, pidFile, port, running, code, reason, decided, watchdogs, status, version>>
launcherVars == <<child, due, leaving>>
vars == <<storeVars, processVars, launcherVars, asked, left>>

Bounded == {"manual", "asks", "crashes", "shells", "faults"}
ASSUME BudgetsAssumption == Budgets \subseteq [Bounded -> Nat]

Caller == {"signal", "shutdown", "restart", "poison"}
Shutdowns == {"signal", "shutdown"}

Ok == 0
Failed == 1
Poisoned == 70
RestartRequested == 75
Killed == 137
CodeOfFailure(k) == IF k = "restart" THEN RestartRequested ELSE IF k = "poison" THEN Failed ELSE Ok
CodeOf(k) == CASE k = "restart" -> RestartRequested [] k = "poison" -> Poisoned [] OTHER -> Ok

Serving == {"loading", "running", "stopping"}
Alive(p) == p # Nobody /\ at[p] \notin {"off", "ended"}

TypeOK ==
  /\ StoreTypeOK
  /\ at \in [Processes -> {"off", "begun", "checked", "claiming", "claimed", "ended"} \cup Serving]
  /\ pidFile \in Processes \cup {Nobody}
  /\ port \in Processes \cup {Nobody}
  /\ running \in [Processes -> BOOLEAN]
  /\ code \in [Processes -> {Ok, Poisoned, RestartRequested}]
  /\ reason \in [Processes -> Caller \cup {"normal"}]
  /\ decided \in [Processes -> SUBSET Caller]
  /\ watchdogs \in [Processes -> SUBSET {Ok, Poisoned, RestartRequested}]
  /\ status \in [Processes -> {Ok, Failed, Poisoned, RestartRequested, Killed}]
  /\ version \in [Processes -> Link]
  /\ child \in Processes \cup {Nobody}
  /\ due \in BOOLEAN
  /\ leaving \in BOOLEAN
  /\ asked \in [Processes -> SUBSET Caller]
  /\ left \in [Bounded -> Nat]

Init ==
  /\ StoreInit
  /\ at = [p \in Processes |-> "off"]
  /\ pidFile = Nobody
  /\ port = Nobody
  /\ running = [p \in Processes |-> FALSE]
  /\ code = [p \in Processes |-> Ok]
  /\ reason = [p \in Processes |-> "normal"]
  /\ decided = [p \in Processes |-> {}]
  /\ watchdogs = [p \in Processes |-> {}]
  /\ status = [p \in Processes |-> Ok]
  /\ version = [p \in Processes |-> NoVersion]
  /\ child = Nobody
  /\ due = TRUE
  /\ leaving = FALSE
  /\ asked = [p \in Processes |-> {}]
  /\ left \in Budgets

Spend(what) == left[what] > 0 /\ left' = [left EXCEPT ![what] = @ - 1]
Goes(p, from, to) == at[p] = from /\ at' = [at EXCEPT ![p] = to]

\* The process is gone: so are its threads and its port.
Ended(p, outcome) ==
  /\ at' = [at EXCEPT ![p] = "ended"]
  /\ status' = [status EXCEPT ![p] = outcome]
  /\ port' = IF port = p THEN Nobody ELSE port
  /\ decided' = [decided EXCEPT ![p] = {}]
  /\ watchdogs' = [watchdogs EXCEPT ![p] = {}]

exits == <<running, code, reason, asked>>

-----------------------------------------------------------------------------
(***************************************************************************)
(* Start: serve and AppController.start.                                   *)
(***************************************************************************)
Spawned(p) ==
  /\ Goes(p, "off", "begun")
  /\ version' = [version EXCEPT ![p] = pythonPath]
  /\ UNCHANGED <<pidFile, port, running, code, reason, decided, watchdogs, status>>

\* "dictare serve" in a terminal, beside the supervised engine.
ManualStart(p) ==
  /\ Spend("manual")
  /\ Spawned(p)
  /\ UNCHANGED <<storeVars, launcherVars, asked>>

\* serve: another engine is no error, a stale PID file is removed.
Checks(p) ==
  /\ at[p] = "begun"
  /\ IF Alive(pidFile)
       THEN Ended(p, Ok) /\ UNCHANGED pidFile
       ELSE /\ Goes(p, "begun", "checked")
            /\ pidFile' = Nobody
            /\ UNCHANGED <<status, port, decided, watchdogs>>
  /\ UNCHANGED <<storeVars, version, exits, launcherVars, left>>

\* _run_serve corrects python_path; _check_single_instance looks at the PID file
\* again.  Whoever fails from here on removes the PID file, whosever it is.
Claims(p) ==
  /\ at[p] = "checked"
  /\ pythonPath' = version[p]
  /\ IF Alive(pidFile)
       THEN Ended(p, Failed) /\ pidFile' = Nobody
       ELSE Goes(p, "checked", "claiming") /\ UNCHANGED <<pidFile, status, port, decided, watchdogs>>
  /\ UNCHANGED <<works, currentLink, previousLink, step, goal, noted, version, exits, launcherVars,
                 left>>

WritesPid(p) ==
  /\ Goes(p, "claiming", "claimed")
  /\ pidFile' = p
  /\ UNCHANGED <<storeVars, port, status, decided, watchdogs, version, exits, launcherVars, left>>

\* The port decides between two that both wrote the PID file.
BindsAnyway(p) ==
  /\ Goes(p, "claimed", "loading")
  /\ port' = IF port = Nobody THEN p ELSE port
  /\ UNCHANGED <<storeVars, pidFile, status, decided, watchdogs, version, exits, launcherVars, left>>
Binds(p) ==
  /\ at[p] = "claimed"
  /\ IF port = Nobody
       THEN /\ Goes(p, "claimed", "loading")
            /\ port' = p
            /\ UNCHANGED <<pidFile, status, decided, watchdogs>>
       ELSE Ended(p, Failed) /\ pidFile' = Nobody
  /\ UNCHANGED <<storeVars, version, exits, launcherVars, left>>

\* init_components has loaded the models; start_runtime sets running.
Runs(p) ==
  /\ Goes(p, "loading", "running")
  /\ running' = [running EXCEPT ![p] = TRUE]
  /\ UNCHANGED <<storeVars, pidFile, port, status, decided, watchdogs, version, code, reason, asked,
                 launcherVars, left>>

LoadFails(p) ==
  /\ at[p] = "loading"
  /\ Spend("faults")
  /\ Ended(p, Failed)
  /\ pidFile' = Nobody
  /\ UNCHANGED <<storeVars, version, exits, launcherVars>>

-----------------------------------------------------------------------------
(***************************************************************************)
(* Exit requests.                                                          *)
(***************************************************************************)
\* A request to an engine that has a reason already changes neither code nor reason.
Wins(p, k) ==
  /\ reason[p] \notin Shutdowns
  /\ code[p] = Ok \/ k = "poison"

\* What every caller does last; only a signal has no watchdog.
Stopped(p, k, c) ==
  /\ running' = [running EXCEPT ![p] = FALSE]
  /\ watchdogs' = [watchdogs EXCEPT ![p] = IF k = "signal" THEN @ ELSE @ \cup {c}]

\* A signal before the engine exists sets an event that nobody waits for.
AsksTooEarly(p) ==
  /\ at[p] \in {"checked", "claiming"}
  /\ Spend("asks")
  /\ asked' = [asked EXCEPT ![p] = @ \cup {"signal"}]
  /\ UNCHANGED <<storeVars, processVars, launcherVars>>

AsksExit(p, k) ==
  /\ at[p] \in Serving
  /\ k \notin decided[p]
  /\ k = "poison" => at[p] = "running"
  /\ Spend("asks")
  /\ asked' = [asked EXCEPT ![p] = @ \cup {k}]
  /\ IF Wins(p, k)
       THEN decided' = [decided EXCEPT ![p] = @ \cup {k}] /\ UNCHANGED <<running, watchdogs>>
       ELSE Stopped(p, k, code[p]) /\ UNCHANGED decided
  /\ UNCHANGED <<storeVars, at, pidFile, port, code, reason, status, version, launcherVars>>

WritesExitUnwatched(p, k) ==
  /\ k \in decided[p]
  /\ decided' = [decided EXCEPT ![p] = @ \ {k}]
  /\ code' = [code EXCEPT ![p] = CodeOf(k)]
  /\ reason' = [reason EXCEPT ![p] = k]
  /\ Stopped(p, "signal", CodeOf(k))
  /\ UNCHANGED <<storeVars, at, pidFile, port, status, version, launcherVars, asked, left>>
WritesExit(p, k) ==
  /\ k \in decided[p]
  /\ decided' = [decided EXCEPT ![p] = @ \ {k}]
  /\ code' = [code EXCEPT ![p] = CodeOf(k)]
  /\ reason' = [reason EXCEPT ![p] = k]
  /\ Stopped(p, k, CodeOf(k))
  /\ UNCHANGED <<storeVars, at, pidFile, port, status, version, launcherVars, asked, left>>

\* run() sees that the engine stops; the PID file goes first.
Leaves(p) ==
  /\ ~running[p]
  /\ Goes(p, "running", "stopping")
  /\ pidFile' = Nobody
  /\ UNCHANGED <<storeVars, port, status, decided, watchdogs, version, exits, launcherVars, left>>

\* AppController.stop, which may hang, and the exit of serve.
FinalCodeLost(p) == Ok
FinalCode(p) == code[p]

Exits(p) ==
  /\ at[p] = "stopping"
  /\ Ended(p, FinalCode(p))
  /\ UNCHANGED <<storeVars, pidFile, version, exits, launcherVars, left>>

WatchdogFires(p) ==
  /\ at[p] # "ended"
  /\ \E c \in watchdogs[p] : Ended(p, c)
  /\ UNCHANGED <<storeVars, pidFile, version, exits, launcherVars, left>>

Crashes(p) ==
  /\ at[p] \notin {"off", "ended"}
  /\ Spend("crashes")
  /\ Ended(p, Killed)
  /\ UNCHANGED <<storeVars, pidFile, version, exits, launcherVars>>

-----------------------------------------------------------------------------
(***************************************************************************)
(* The launcher.  The delays of its restarts are left out.                 *)
(***************************************************************************)
Spawns(p) ==
  /\ due
  /\ ~leaving
  /\ child = Nobody
  /\ due' = FALSE
  /\ child' = p
  /\ Spawned(p)
  /\ UNCHANGED <<storeVars, leaving, asked, left>>

SeesExit ==
  /\ child # Nobody
  /\ at[child] = "ended"
  /\ child' = Nobody
  /\ leaving' = (leaving \/ status[child] = Ok)
  /\ due' = (status[child] # Ok /\ ~leaving)
  /\ UNCHANGED <<storeVars, processVars, asked, left>>

\* The service is stopped: the child has 2 s to end after its SIGTERM.
ServiceStops ==
  /\ leaving' = TRUE
  /\ due' = FALSE
  /\ child' = Nobody
  /\ IF Alive(child) THEN Ended(child, Killed) ELSE UNCHANGED <<at, status, port, decided, watchdogs>>
  /\ UNCHANGED <<pidFile, running, code, reason, version, asked>>

\* repair_runtime, with which upgrade and rollback end, stops a service that runs,
\* writes its definition and starts it: a new launcher.
ServiceStarts ==
  /\ leaving' = FALSE
  /\ due' = TRUE
  /\ child' = Nobody
  /\ IF Alive(child) THEN Ended(child, Killed) ELSE UNCHANGED <<at, status, port, decided, watchdogs>>
  /\ UNCHANGED <<pidFile, running, code, reason, version, asked>>

\* upgrade, rollback and repair, with what they do to the service.
Shell(s) ==
  \/ /\ BeginsUpgrade(s) \/ BeginsRollback(s) \/ BeginsRepair(s)
     /\ Spend("shells")
     /\ UNCHANGED <<processVars, launcherVars, asked>>
  \/ /\ Installs(s) \/ Notes(s) \/ RollsBack(s) \/ Keeps(s) \/ Flips(s) \/ WritesPath(s)
     /\ UNCHANGED <<processVars, launcherVars, asked, left>>
  \/ /\ InstallFails(s) \/ ShellKilled(s)
     /\ Spend("faults")
     /\ UNCHANGED <<processVars, launcherVars, asked>>
  \/ /\ Advance(s, "stop", "note") \/ Advance(s, "halt", "back")
     /\ ServiceStops
     /\ UNCHANGED <<works, currentLink, previousLink, pythonPath, goal, noted, left>>
  \/ /\ Advance(s, "start", "idle")
     /\ ServiceStarts
     /\ UNCHANGED <<works, currentLink, previousLink, pythonPath, goal, noted, left>>

Steps(p) ==
  \/ Checks(p) \/ Claims(p) \/ WritesPid(p) \/ Binds(p) \/ Runs(p) \/ Leaves(p)
  \/ \E k \in Caller : WritesExit(p, k)

Next ==
  \/ \E p \in Processes :
       \/ Steps(p) \/ LoadFails(p) \/ Exits(p) \/ WatchdogFires(p) \/ Crashes(p)
       \/ ManualStart(p) \/ Spawns(p) \/ AsksTooEarly(p)
       \/ \E k \in Caller : AsksExit(p, k)
  \/ SeesExit
  \/ \E s \in Shells : Shell(s)

Spec == Init /\ [][Next]_vars

\* Threads go on and timers fire; AppController.stop may hang for ever.
Fairness == \A p \in Processes : WF_vars(Steps(p)) /\ WF_vars(WatchdogFires(p))
FairSpec == Spec /\ Fairness

-----------------------------------------------------------------------------
(***************************************************************************)
(* Properties.                                                             *)
(***************************************************************************)
\* Two engines never serve, or listen to the microphone, at once, although the PID
\* file is checked twice and written later, and is removed by others.
OneServer == \A p, q \in Processes : at[p] \in Serving /\ at[q] \in Serving => p = q

\* The supervisor replaces a process whose native audio is poisoned: unless a
\* shutdown was asked for, it ends with a code that is not 0, whoever else asked
\* for a restart and whichever watchdog ended it.
PoisonedIsReplaced ==
  \A p \in Processes :
    at[p] = "ended" /\ "poison" \in asked[p] /\ asked[p] \cap Shutdowns = {} => status[p] # Ok

\* request_process_exit: "A non-zero outcome is never downgraded to a normal
\* shutdown."
NeverDowngraded ==
  [][\A p \in Processes : code[p] # Ok /\ at'[p] # "ended" => code'[p] # Ok]_vars

\* A shutdown or restart asked for by a client, or a poisoned native call, ends the
\* process, even when it is still loading and when stopping it hangs.
AskedExitHappens ==
  \A p \in Processes : asked[p] \cap {"shutdown", "restart", "poison"} # {} ~> at[p] = "ended"

\* request_shutdown: "Request graceful shutdown."
SignalEnds == \A p \in Processes : "signal" \in asked[p] ~> at[p] \in {"stopping", "ended"}
=============================================================================
