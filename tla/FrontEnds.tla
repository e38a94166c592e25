------------------------------- MODULE FrontEnds -------------------------------
(***************************************************************************)
(* What the user sees of the engine: the menu bar application and the      *)
(* settings page's installs, next to an engine that may go at any moment   *)
(* and take its threads and connections with it.  How much happens is      *)
(* bounded by one of several budgets, chosen in the initial state.         *)
(***************************************************************************)
EXTENDS Tray, Installs

CONSTANT FrontBudgets   \* bounds: how many of each a behaviour has

VARIABLE left   \* what is left of the bounds

vars == <<trayVars, installVars, left>>

Bounded == {"moves", "starts", "deaths", "clicks", "services", "timeouts", "quits",
            "posts", "deletes", "joins"}

ASSUME FrontBudgetsAssumption == FrontBudgets \subseteq [Bounded -> Nat]

TypeOK ==
  /\ engine.life \in {"down", "loading", "ready"}
  /\ tray.mode \in Modes /\ tray.current \in TrayAgents \cup {NoTarget}
  /\ window \in {"none", "building", "shown", "gone"}
  /\ icon \in {"disconnected", "loading", "active", "plain"}
  /\ jobs \in [JobIds -> {"none", "downloading"} \cup Finals]
  /\ venv \in {"absent", "bare", "full"}
  /\ repo \in {"absent", "some", "checked", "full"}
  /\ \A p \in Pages : pages[p].pc \in {"away", "joining", "open", "leaked"}
  /\ left \in [Bounded -> Nat]

Init ==
  /\ TrayInit
  /\ InstallsInit
  /\ left \in FrontBudgets
  /\ IF left["posts"] = 0
       THEN venv = "absent" /\ repo = "absent" /\ window = "none"
       ELSE Up /\ savedMode = engine.mode /\ window = "gone"

Spend(what) == left[what] > 0 /\ left' = [left EXCEPT ![what] = @ - 1]

\* The threads and connections of an engine that goes go with it.
WithEngine ==
  IF Up /\ engine'.life = "down" THEN InstallsDie ELSE UNCHANGED installVars

\* What nobody has to do.
Changes ==
  \/ EngineMoves /\ Spend("moves")
  \/ EngineStarts /\ Spend("starts")
  \/ EngineDies /\ Spend("deaths")
  \/ PollTimesOut /\ Spend("timeouts")
  \/ Quit /\ Spend("quits")

Clicks ==
  \/ Spend("clicks") /\ \E m \in Modes : ClickMode(left["clicks"], m)
  \/ Spend("clicks") /\ \E a \in TrayAgents : ClickTarget(left["clicks"], a)
  \/ Spend("clicks") /\ ClickToggle(left["clicks"])
  \/ Spend("services") /\ ClickService(left["services"])

\* What the threads and the main loop go on with.
Shows == RunBuilds \/ RunShows
Polls == PollAsks \/ PollSets
Threads == (\E r \in sent : Arrives(r)) \/ (\E o \in orders : OrderDoes(o))

TrayStep ==
  /\ Changes \/ Clicks \/ ((Shows \/ CallDoes \/ Polls \/ Threads \/ EngineLoads) /\ UNCHANGED left)
  /\ WithEngine

Requests ==
  \/ Spend("posts") /\ \E k \in Kinds : Post(k)
  \/ Spend("deletes") /\ (UninstallVenv \/ UninstallRepo)
  \/ Spend("joins") /\ \E p \in Pages : PageJoins(p)

Connections ==
  \E p \in Pages : PageReadsJobs(p) \/ PageFails(p) \/ PageLeaves(p)

InstallStep ==
  /\ Up
  /\ Requests \/ ((Connections \/ LoopPuts \/ \E w \in Workers : WorkerSteps(w)) /\ UNCHANGED left)
  /\ UNCHANGED trayVars

Next == TrayStep \/ InstallStep

Installing == \/ LoopPuts
              \/ \E p \in Pages : PageReadsJobs(p)
              \/ \E w \in Workers : WorkerSteps(w)

\* Every thread and the event loop go on; nobody has to click or to post.  All
\* but the polling comes to an end, so that one condition serves several threads.
Fairness ==
  /\ WF_vars(TrayStep /\ (Shows \/ CallDoes \/ Threads \/ EngineLoads))
  /\ WF_vars(TrayStep /\ Polls)
  /\ WF_vars(InstallStep /\ Installing)

Spec == Init /\ [][Next]_vars /\ Fairness

-----------------------------------------------------------------------------
\* Whatever was clicked, lost or overtaken, and however often the engine went
\* away: once things are quiet the menu and the icon say what the engine says.
MenuCatchesUp == <>[](window = "gone" \/ MenuAgrees)
=============================================================================
