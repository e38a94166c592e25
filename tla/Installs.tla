------------------------------- MODULE Installs -------------------------------
(***************************************************************************)
(* The downloads and installs that the settings page asks of the engine    *)
(* (core/http_routes_models.py, core/http_server.py, tts/venv.py and       *)
(* utils/hf_download.py).  Each POST starts a thread that works in a venv  *)
(* and in the Hugging Face cache and reports through a dictionary of jobs  *)
(* and through the queues of the pages that listen; the queues are filled  *)
(* by callbacks of the server's event loop.  Nothing but the list of       *)
(* queues has a lock.  One capability is modelled, with a venv and a       *)
(* repository: a pull and a capability install share its job, a venv       *)
(* install has a job of its own.                                           *)
(***************************************************************************)
EXTENDS SequencesExt

CONSTANTS
  Pages,    \* settings pages that may listen
  MaxPuts   \* bound: callbacks the event loop may be behind

ASSUME InstallsAssumption == MaxPuts \in Nat \ {0}

VARIABLES
  jobs,        \* download_jobs: the status of each job, "none" when absent
  workers,     \* the install threads, in the order of their POSTs
  venv,        \* the engine's venv on disk: absent, bare (no packages) or full
  repo,        \* its cached repository: absent, some files, check_file too, or full
  pages,       \* each page: away, joining, open or leaked, and what it was told last
  puts,        \* call_soon_threadsafe callbacks of the event loop
  overlapped   \* history: jobs that two threads have worked on at a time

disk == <<venv, repo>>
installVars == <<jobs, workers, disk, pages, puts, overlapped>>

Kinds == {"capability", "model", "tts"}
JobIds == {"cap", "tts-install"}
JobOf(kind) == IF kind = "tts" THEN "tts-install" ELSE "cap"
Finals == {"done", "error"}
Ended == {"end", "dead"}

Workers == 1..Len(workers)
JobAt(w) == JobOf(workers[w].kind)
Live(w) == workers[w].pc \notin Ended

\* is_venv_installed: there is a python; is_repo_cached: there is the file to check.
VenvInstalled == venv # "absent"
RepoCached == repo \in {"checked", "full"}

Unheard == [j \in JobIds |-> "none"]

InstallsInit ==
  /\ jobs = Unheard
  /\ workers = <<>>
  /\ venv \in {"absent", "full"}
  /\ repo \in {"absent", "full"}
  /\ pages = [p \in Pages |-> [pc |-> "away", heard |-> Unheard]]
  /\ puts = <<>>
  /\ overlapped = {}

-----------------------------------------------------------------------------
(***************************************************************************)
(* The POSTs and DELETEs.                                                  *)
(***************************************************************************)
\* What each POST answers instead of starting a thread: ready, cached, installing.
Refused(kind) ==
  \/ kind = "capability" /\ VenvInstalled /\ RepoCached
  \/ kind = "model" /\ RepoCached
  \/ jobs[JobOf(kind)] = "downloading"

Post(kind) ==
  /\ ~Refused(kind)
  /\ workers' = Append(workers, [kind |-> kind, pc |-> "begin"])
  /\ overlapped' = overlapped \cup
       {j \in {JobOf(kind)} : \E w \in Workers : Live(w) /\ JobAt(w) = j}
  /\ UNCHANGED <<jobs, disk, pages, puts>>

\* capability_uninstall and tts_engine_uninstall: no job is consulted.
UninstallVenv ==
  /\ venv # "absent"
  /\ venv' = "absent"
  /\ UNCHANGED <<jobs, workers, repo, pages, puts, overlapped>>
UninstallRepo ==
  /\ repo # "absent"
  /\ repo' = "absent"
  /\ UNCHANGED <<jobs, workers, venv, pages, puts, overlapped>>

-----------------------------------------------------------------------------
(***************************************************************************)
(* An install thread.                                                      *)
(***************************************************************************)
Goes(w, pc) == workers' = [workers EXCEPT ![w].pc = pc]

\* _push: one callback for each queue of the list at this moment.
Listening == {p \in Pages : pages[p].pc \in {"joining", "open"}}
Pushed(j, status) ==
  puts' = puts \o SetToSeq({[page |-> p, job |-> j, status |-> status] : p \in Listening})

\* download_jobs[id] = job, and the push.
SetsJob(w, status, pc) ==
  /\ jobs' = [jobs EXCEPT ![JobAt(w)] = status]
  /\ Pushed(JobAt(w), status)
  /\ Goes(w, pc)

\* download_jobs[id].update and the push: a KeyError ends the thread.
UpdatesJob(w, pc) ==
  IF jobs[JobAt(w)] = "none"
    THEN Goes(w, "dead") /\ UNCHANGED <<jobs, puts>>
    ELSE Pushed(JobAt(w), jobs[JobAt(w)]) /\ Goes(w, pc) /\ UNCHANGED jobs

FirstStep == [capability |-> "venv", model |-> "fetch", tts |-> "make"]

Begins(w) ==
  /\ workers[w].pc = "begin"
  /\ SetsJob(w, "downloading", FirstStep[workers[w].kind])
  /\ UNCHANGED <<disk, pages, overlapped>>

\* Step 1 of a capability: the venv, if there is none.
ChecksVenv(w) ==
  /\ workers[w].pc = "venv"
  /\ IF VenvInstalled
       THEN Goes(w, "repo") /\ UNCHANGED <<jobs, puts>>
       ELSE UpdatesJob(w, "make")
  /\ UNCHANGED <<disk, pages, overlapped>>

\* install_venv: a report before each of its two commands, and one at the end.
MakesVenv(w) ==
  /\ workers[w].pc = "make"
  /\ \E ok \in BOOLEAN :
       /\ UpdatesJob(w, IF ok THEN "pack" ELSE "undo")
       /\ venv' = IF ok /\ workers'[w].pc # "dead" THEN "bare" ELSE venv
  /\ UNCHANGED <<repo, pages, overlapped>>

\* pip needs the venv's python: it fails when the venv was removed meanwhile.
InstallsPackages(w) ==
  /\ workers[w].pc = "pack"
  /\ \E ok \in BOOLEAN :
       /\ ok => VenvInstalled
       /\ UpdatesJob(w, IF ok THEN "made" ELSE "undo")
       /\ venv' = IF ok /\ workers'[w].pc # "dead" THEN "full" ELSE venv
  /\ UNCHANGED <<repo, pages, overlapped>>

VenvIsReady(w) ==
  /\ workers[w].pc = "made"
  /\ UpdatesJob(w, IF workers[w].kind = "tts" THEN "done" ELSE "repo")
  /\ UNCHANGED <<disk, pages, overlapped>>

\* install_venv's handlers report before they clean up: a KeyError there leaves the venv.
UndoesVenv(w) ==
  /\ workers[w].pc = "undo"
  /\ UpdatesJob(w, "failed")
  /\ venv' = IF workers'[w].pc = "dead" THEN venv ELSE "absent"
  /\ UNCHANGED <<repo, pages, overlapped>>

\* Step 2 of a capability: the model, if check_file is not there.
ChecksRepo(w) ==
  /\ workers[w].pc = "repo"
  /\ IF RepoCached
       THEN Goes(w, "done") /\ UNCHANGED <<jobs, puts>>
       ELSE UpdatesJob(w, "fetch")
  /\ UNCHANGED <<disk, pages, overlapped>>

\* snapshot_download: files arrive in any order, check_file among them.
Fetches(w) ==
  /\ workers[w].pc = "fetch"
  /\ \/ repo = "absent" /\ repo' = "some"
     \/ repo = "some" /\ repo' = "checked"
  /\ UNCHANGED <<jobs, workers, venv, pages, puts, overlapped>>

\* The loop that watches the download reports once more after it has ended.
FetchEnds(w) ==
  /\ workers[w].pc = "fetch"
  /\ \E ok \in BOOLEAN :
       /\ UpdatesJob(w, IF ok THEN "done" ELSE "failed")
       /\ repo' = IF ok THEN "full" ELSE repo
  /\ UNCHANGED <<venv, pages, overlapped>>

FinishesSilently(w) ==
  /\ workers[w].pc \in {"done", "failed"}
  /\ IF workers[w].pc = "done"
       THEN SetsJob(w, "done", "linger")
       ELSE /\ jobs' = [jobs EXCEPT ![JobAt(w)] = "error"]
            /\ Goes(w, "linger")
            /\ UNCHANGED puts
  /\ UNCHANGED <<disk, pages, overlapped>>
FinishesAtTheEnd(w) ==
  /\ workers[w].pc \in {"done", "failed"}
  /\ IF workers[w].pc = "done"
       THEN SetsJob(w, "done", "linger")
       ELSE Pushed(JobAt(w), "error") /\ Goes(w, "end") /\ UNCHANGED jobs
  /\ UNCHANGED <<disk, pages, overlapped>>
Finishes(w) ==
  /\ workers[w].pc \in {"done", "failed"}
  /\ SetsJob(w, IF workers[w].pc = "done" THEN "done" ELSE "error", "linger")
  /\ UNCHANGED <<disk, pages, overlapped>>

\* Ten seconds later the job is popped, whoever's it is by now.
CleansUp(w) ==
  /\ workers[w].pc = "linger"
  /\ jobs' = [jobs EXCEPT ![JobAt(w)] = "none"]
  /\ Goes(w, "end")
  /\ UNCHANGED <<puts, disk, pages, overlapped>>

WorkerSteps(w) ==
  /\ Len(puts) < MaxPuts
  /\ \/ Begins(w) \/ ChecksVenv(w) \/ MakesVenv(w) \/ InstallsPackages(w) \/ VenvIsReady(w)
     \/ UndoesVenv(w) \/ ChecksRepo(w) \/ Fetches(w) \/ FetchEnds(w)
     \/ Finishes(w) \/ CleansUp(w)

-----------------------------------------------------------------------------
(***************************************************************************)
(* The event loop: a page's connection, and the callbacks.  It does one    *)
(* thing at a time, while the threads go on.                               *)
(***************************************************************************)
Free == \A p \in Pages : pages[p].pc # "joining"

\* models_pull_progress: the queue is in the list before the jobs are read.
PageJoins(p) ==
  /\ Free /\ pages[p].pc = "away"
  /\ pages' = [pages EXCEPT ![p] = [pc |-> "joining", heard |-> Unheard]]
  /\ UNCHANGED <<jobs, workers, disk, puts, overlapped>>

PageReadsJobs(p) ==
  /\ pages[p].pc = "joining"
  /\ pages' = [pages EXCEPT ![p] = [pc |-> "open", heard |-> jobs]]
  /\ UNCHANGED <<jobs, workers, disk, puts, overlapped>>

\* A job comes or goes while the dictionary is read: the request fails, its queue stays.
PageFails(p) ==
  /\ pages[p].pc = "joining"
  /\ \E w \in Workers : workers[w].pc \in {"begin", "linger"}
  /\ \E j \in JobIds : jobs[j] # "none"
  /\ pages' = [pages EXCEPT ![p].pc = "leaked"]
  /\ UNCHANGED <<jobs, workers, disk, puts, overlapped>>

\* A page that leaves takes its queue along, with what was on its way to it.
PageLeaves(p) ==
  /\ Free /\ pages[p].pc = "open"
  /\ pages' = [pages EXCEPT ![p] = [pc |-> "away", heard |-> Unheard]]
  /\ puts' = SelectSeq(puts, LAMBDA e : e.page # p)
  /\ UNCHANGED <<jobs, workers, disk, overlapped>>

LoopPuts ==
  /\ Free /\ puts # <<>>
  /\ LET e == Head(puts)
     IN  pages' = IF pages[e.page].pc = "open"
                    THEN [pages EXCEPT ![e.page].heard[e.job] = e.status]
                    ELSE pages
  /\ puts' = Tail(puts)
  /\ UNCHANGED <<jobs, workers, disk, overlapped>>

\* The engine goes, with its threads and connections; the disk stays as it is.
InstallsDie ==
  /\ jobs' = Unheard
  /\ workers' = [w \in Workers |-> [workers[w] EXCEPT !.pc = "end"]]
  /\ pages' = [p \in Pages |-> [pc |-> "away", heard |-> Unheard]]
  /\ puts' = <<>>
  /\ UNCHANGED <<disk, overlapped>>

-----------------------------------------------------------------------------
\* A job that says "downloading" has a thread that will say otherwise: the
\* POSTs refuse while it does, so nothing could be installed until a restart.
InstallingHasWorker ==
  \A j \in JobIds : jobs[j] = "downloading" => \E w \in Workers : Live(w) /\ JobAt(w) = j

\* A page that shows an install in progress is told how it ended, unless the
\* same job was started again before the first thread had cleaned up.
Uncertain(p, j) == pages[p].pc = "open" /\ pages[p].heard[j] = "downloading"
EndIsSeen ==
  \A p \in Pages, j \in JobIds : Uncertain(p, j) ~> (~Uncertain(p, j) \/ j \in overlapped)

\* core/http_server.py: "Clean up after 10 s so clients can read the final state".
EveryEndIsSeen == \A p \in Pages, j \in JobIds : Uncertain(p, j) ~> ~Uncertain(p, j)

\* utils/hf_download.py: "A file to check for (proves download is complete)".
CachedIsComplete == RepoCached => repo = "full"

\* tts/venv.py: "Check if the isolated venv for an engine exists and has deps installed".
InstalledHasPackages == VenvInstalled => venv = "full"
=============================================================================
