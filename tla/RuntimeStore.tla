---------------------------- MODULE RuntimeStore ----------------------------
(***************************************************************************)
(* The runtimes (runtime_store.py, cli/upgrade.py, cli/repair.py): version *)
(* directories, the links current and previous, and the python_path file   *)
(* the launcher starts the engine from.  upgrade and rollback are          *)
(* processes of their own; they take no lock, and each may be killed       *)
(* between any two of its steps.                                           *)
(***************************************************************************)
EXTENDS Naturals

CONSTANTS
  Versions,     \* version directories
  NoVersion,    \* a link that is not there
  Shells        \* terminals in which upgrade, rollback or repair are run

ASSUME VersionsAssumption == NoVersion \notin Versions

VARIABLES
  works,        \* versions whose directory holds a runtime that starts
  currentLink,  \* current
  previousLink, \* previous
  pythonPath,   \* ~/.dictare/python_path
  step,         \* what each shell will do next
  goal,         \* the version it activates
  noted         \* what it has read of current, for previous

storeVars == <<works, currentLink, previousLink, pythonPath, step, goal, noted>>

Link == Versions \cup {NoVersion}
Step == {"idle", "install", "stop", "note", "halt", "back", "keep", "flip", "path", "start"}

StoreTypeOK ==
  /\ works \subseteq Versions
  /\ currentLink \in Link
  /\ previousLink \in Link
  /\ pythonPath \in Link
  /\ step \in [Shells -> Step]
  /\ goal \in [Shells -> Link]
  /\ noted \in [Shells -> Link]

\* Upgraded once before: a first runtime has no way back from its own failure.
StoreInit ==
  /\ currentLink \in Versions
  /\ previousLink \in Versions \ {currentLink}
  /\ works = {currentLink, previousLink}
  /\ pythonPath = currentLink
  /\ step = [s \in Shells |-> "idle"]
  /\ goal = [s \in Shells |-> NoVersion]
  /\ noted = [s \in Shells |-> NoVersion]

Advance(s, from, to) == step[s] = from /\ step' = [step EXCEPT ![s] = to]

\* The active version is installed again only with --reinstall.
BeginsUpgrade(s) ==
  /\ Advance(s, "idle", "install")
  /\ \E v \in Versions : goal' = [goal EXCEPT ![s] = v]
  /\ UNCHANGED <<works, currentLink, previousLink, pythonPath, noted>>

\* uv writes into the version's directory, which may be one that is in use; the
\* smoke test comes last.
Installs(s) ==
  /\ Advance(s, "install", "stop")
  /\ works' = works \cup {goal[s]}
  /\ UNCHANGED <<currentLink, previousLink, pythonPath, goal, noted>>

InstallFails(s) ==
  /\ Advance(s, "install", "idle")
  /\ works' = works \ {goal[s]}
  /\ UNCHANGED <<currentLink, previousLink, pythonPath, goal, noted>>

\* activate_runtime and rollback_runtime: the links are read, then previous is
\* written and then current, each atomically.
NotesAlways(s) ==
  /\ Advance(s, "note", "keep")
  /\ noted' = [noted EXCEPT ![s] = currentLink]
  /\ UNCHANGED <<works, currentLink, previousLink, pythonPath, goal>>
Notes(s) ==
  /\ Advance(s, "note", "keep")
  /\ noted' = [noted EXCEPT ![s] = IF currentLink = goal[s] THEN NoVersion ELSE currentLink]
  /\ UNCHANGED <<works, currentLink, previousLink, pythonPath, goal>>

BeginsRollback(s) ==
  /\ Advance(s, "idle", "halt")
  /\ UNCHANGED <<works, currentLink, previousLink, pythonPath, goal, noted>>

\* The service is stopped by now; with nothing to go back to it stays stopped.
RollsBack(s) ==
  /\ Advance(s, "back", IF previousLink = NoVersion THEN "idle" ELSE "keep")
  /\ goal' = [goal EXCEPT ![s] = previousLink]
  /\ noted' = [noted EXCEPT ![s] = currentLink]
  /\ UNCHANGED <<works, currentLink, previousLink, pythonPath>>

Keeps(s) ==
  /\ Advance(s, "keep", "flip")
  /\ previousLink' = IF noted[s] = NoVersion THEN previousLink ELSE noted[s]
  /\ UNCHANGED <<works, currentLink, pythonPath, goal, noted>>

Flips(s) ==
  /\ Advance(s, "flip", "path")
  /\ currentLink' = goal[s]
  /\ UNCHANGED <<works, previousLink, pythonPath, goal, noted>>

\* repair_runtime: the shim is the same for every version, python_path is not.
BeginsRepair(s) ==
  /\ Advance(s, "idle", "path")
  /\ UNCHANGED <<works, currentLink, previousLink, pythonPath, goal, noted>>

WritesPath(s) ==
  /\ Advance(s, "path", "start")
  /\ pythonPath' = currentLink
  /\ UNCHANGED <<works, currentLink, previousLink, goal, noted>>

ShellKilled(s) ==
  /\ step[s] # "idle"
  /\ step' = [step EXCEPT ![s] = "idle"]
  /\ works' = IF step[s] = "install" THEN works \ {goal[s]} ELSE works
  /\ UNCHANGED <<currentLink, previousLink, pythonPath, goal, noted>>

-----------------------------------------------------------------------------
\* One failure - of an installation, which may be into the active version or the
\* one to roll back to, or a kill between any two steps - leaves the user a link
\* to a runtime that starts, or a rollback under way to one, whatever was upgraded
\* and rolled back before.
WayBack == ({currentLink, previousLink} \cup {goal[s] : s \in {t \in Shells : step[t] = "flip"}})
             \cap works # {}
=============================================================================
