------------------------------- MODULE Services -------------------------------
(***************************************************************************)
(* dictare as a service on macOS: the commands of cli/service.py and       *)
(* cli/repair.py and the launch-at-login switch of the settings page       *)
(* (daemon/launchd.py), step by step, next to what they start and stop.    *)
(*                                                                         *)
(* launchd runs "open -W Dictare.app"; LaunchServices, and not launchd,    *)
(* owns the launcher, so that unloading the job may leave it alive.  The   *)
(* launcher runs the engine and starts it again.  A command is the         *)
(* sequence of steps it has still to do; a step may put others in front.   *)
(* The switch is a thread of the engine, and ends with it.                 *)
(***************************************************************************)
EXTENDS Bundle, Sequences, FiniteSets

CONSTANTS
  Launchers,   \* launcher processes that may be alive at once
  Nobody       \* no launcher

ASSUME ServicesAssumption == Nobody \notin Launchers

VARIABLES
  plist,        \* the LaunchAgent's file
  job,          \* its job: absent, open (its process runs) or over
  opened,       \* the launcher that "open -W" waits for
  trayPlist,    \* the tray's LaunchAgent's file
  trayJob,      \* its job is loaded
  launchers,    \* each launcher: off, due (about to run an engine), starting or owns
  scripts,      \* the launchers that are shell scripts
  engine,       \* an engine serves, and engine.pid names it
  loose,        \* an engine whose launcher was killed is still starting
  todo,         \* the steps each runner has before it
  brought,      \* the pre-built launcher a runner was given
  found,        \* repair: was it installed, did it run
  disturbed,    \* history: while a command ran another did, or the engine was shut down
  after         \* history: the command that ended last, undisturbed and with nothing since

jobVars == <<plist, job, opened, trayPlist, trayJob>>
processVars == <<launchers, scripts, engine, loose>>
commandVars == <<todo, brought, found, disturbed, after>>
serviceVars == <<bundleVars, jobVars, processVars, commandVars>>

Runners == {"shell", "switch"}
Nothing == "nothing"
Busy(r) == todo[r] # <<>>
Free == {l \in Launchers : launchers[l] = "off"}
Owner == IF \E l \in Launchers : launchers[l] = "owns"
           THEN CHOOSE l \in Launchers : launchers[l] = "owns" ELSE Nobody

ServicesTypeOK ==
  /\ BundleTypeOK
  /\ plist \in BOOLEAN /\ trayPlist \in BOOLEAN /\ trayJob \in BOOLEAN
  /\ job \in {"absent", "open", "over"}
  /\ opened \in Launchers \cup {Nobody}
  /\ launchers \in [Launchers -> {"off", "due", "starting", "owns"}]
  /\ scripts \subseteq Launchers
  /\ engine \in BOOLEAN /\ loose \in BOOLEAN /\ disturbed \in BOOLEAN
  /\ brought \in [Runners -> Prebuilt]

\* Nothing is installed, or a "dictare serve" runs in a terminal.
ServicesInit ==
  /\ BundleInit
  /\ plist = FALSE /\ job = "absent" /\ opened = Nobody
  /\ trayPlist = FALSE /\ trayJob = FALSE
  /\ launchers = [l \in Launchers |-> "off"]
  /\ scripts = {}
  /\ engine \in BOOLEAN /\ loose = FALSE
  /\ todo = [r \in Runners |-> <<>>]
  /\ brought = [r \in Runners |-> "none"]
  /\ found = [installed |-> FALSE, ran |-> FALSE]
  /\ disturbed = FALSE
  /\ after = Nothing

-----------------------------------------------------------------------------
(***************************************************************************)
(* Launchers and engines, as the commands see them (EngineProcess has      *)
(* their lives in detail).                                                 *)
(***************************************************************************)
\* The launchers after the engine that serves has ended.
AfterEngine(clean) ==
  [l \in Launchers |->
     IF launchers[l] # "owns" THEN launchers[l]
     ELSE IF clean \/ l \in scripts THEN "off" ELSE "due"]

\* "open" ends with its launcher; a clean end is final for launchd.
JobAfter(state) ==
  IF opened # Nobody /\ state[opened] = "off"
    THEN job' = "over" /\ opened' = Nobody
    ELSE UNCHANGED <<job, opened>>

LaunchersBecome(state) == launchers' = state /\ JobAfter(state)

\* The engine takes the switch's thread with it.
SwitchDies(r) == [todo EXCEPT !["switch"] = <<>>, ![r] = IF r = "switch" THEN <<>> ELSE @]

\* spawnPythonEngine: without python_path the launcher gives up.
Spawns(l) ==
  /\ launchers[l] = "due"
  /\ LaunchersBecome([launchers EXCEPT ![l] = IF pythonFile = NoPath THEN "off" ELSE "starting"])
  /\ UNCHANGED <<bundleVars, plist, trayPlist, trayJob, scripts, engine, loose, commandVars>>

\* serve: where another engine serves this one ends, and its launcher with it.
Serves(l) ==
  /\ launchers[l] = "starting"
  /\ LaunchersBecome([launchers EXCEPT ![l] = IF engine THEN "off" ELSE "owns"])
  /\ engine' = TRUE
  /\ IF engine THEN UNCHANGED bundleVars ELSE Ensured("dev")
  /\ UNCHANGED <<plist, trayPlist, trayJob, scripts, loose, commandVars>>

ServesAlone ==
  /\ loose
  /\ loose' = FALSE
  /\ engine' = TRUE
  /\ IF engine THEN UNCHANGED bundleVars ELSE Ensured("dev")
  /\ UNCHANGED <<jobVars, launchers, scripts, commandVars>>

\* A crash, or a restart or shutdown that a client asked for.  An engine that nobody
\* is to start again ends what its command had promised.
EngineEnds(clean) ==
  /\ engine
  /\ engine' = FALSE
  /\ LaunchersBecome(AfterEngine(clean))
  /\ todo' = SwitchDies("switch")
  /\ LET final == AfterEngine(clean) = AfterEngine(TRUE)
     IN /\ after' = IF final THEN Nothing ELSE after
        /\ disturbed' = (disturbed \/ (final /\ \E r \in Runners : Busy(r)))
  /\ UNCHANGED <<bundleVars, plist, trayPlist, trayJob, scripts, loose, brought, found>>

-----------------------------------------------------------------------------
(***************************************************************************)
(* Commands.                                                               *)
(***************************************************************************)
InstallTray == <<"unload-tray-if-loaded", "tray-plist", "load-tray">>
Install ==
  <<"sync-path", "remove-path", "path", "bundle", "plist", "stop-if-loaded",
    "kill-engine", "kill-launchers", "load">> \o InstallTray
Uninstall == <<"uninstall-tray", "unplist", "unbundle">>
StartService == <<"sync-path", "load-if-not">>
StopService == <<"stop-if-loaded">>

Plan(c) ==
  CASE c = "install" -> Install
    [] c = "uninstall" -> Uninstall
    [] c = "start" -> StartService
    [] c = "stop" -> StopService
    [] c = "restart" -> StopService \o StartService
    [] c \in {"repair", "repair-no-start", "repair-force"} ->
         (IF home.store THEN <<"path">> ELSE <<>>)
           \o <<IF c = "repair-force" THEN "migrate-by-force" ELSE "migrate", "look", "stop-if-loaded">>
           \o Install \o <<IF c = "repair-no-start" THEN "stop-if-loaded" ELSE "stop-as-found">>
    [] c = "enable" -> (IF plist THEN <<>> ELSE Install) \o InstallTray
    [] c = "disable" -> <<"uninstall-tray">> \o Uninstall

ShellCommands ==
  {"install", "uninstall", "start", "stop", "restart", "repair", "repair-no-start", "repair-force"}
SwitchCommands == {"enable", "disable"}

\* The last step names the command.
Begins(r, c, prebuilt) ==
  /\ ~Busy(r)
  /\ c \in {"uninstall", "start", "stop", "restart"} => plist
  /\ r = "switch" => engine
  /\ prebuilt # "none" => c = "install"
  /\ todo' = [todo EXCEPT ![r] = Plan(c) \o <<c>>]
  /\ brought' = [brought EXCEPT ![r] = prebuilt]
  /\ disturbed' = \E other \in Runners : Busy(other)
  /\ after' = Nothing
  /\ UNCHANGED <<bundleVars, jobVars, processVars, found>>

\* The command is killed, or one of its steps fails.
Stops(r) ==
  /\ Busy(r)
  /\ todo' = [todo EXCEPT ![r] = <<>>]
  /\ UNCHANGED <<bundleVars, jobVars, processVars, brought, found, disturbed, after>>

\* What a step leaves to do.
Then(r, steps) == todo' = [todo EXCEPT ![r] = steps \o Tail(@)]
Goes(r) == Then(r, <<>>)

Says(r, step) == Busy(r) /\ Head(todo[r]) = step
history == <<brought, found, disturbed, after>>

-----------------------------------------------------------------------------
(***************************************************************************)
(* Steps on the bundle and on python_path.                                 *)
(***************************************************************************)
PathStep(r) ==
  \/ /\ Says(r, "sync-path")
     /\ Then(r, IF pythonFile = Resolved("dev") THEN <<>> ELSE <<"remove-path", "path">>)
     /\ UNCHANGED bundleVars
  \/ Says(r, "remove-path") /\ Goes(r) /\ RemovesPath
  \/ Says(r, "path") /\ Goes(r) /\ WritesResolved

BundleStep(r) ==
  \/ /\ Says(r, "bundle")
     /\ Then(r, IF NeedsBundle(brought[r]) THEN <<"remove-app", "launcher">> ELSE <<>>)
     /\ UNCHANGED <<home, swift, app, pythonFile>>
  \/ Says(r, "remove-app") /\ Goes(r) /\ RemovesApp
  \/ Says(r, "launcher") /\ CopiesKeg(brought[r]) /\ Then(r, <<"end-copy">>) /\ BeginsCopy
  \/ /\ Says(r, "launcher") /\ ~CopiesKeg(brought[r])
     /\ Then(r, IF brought[r] = "valid" THEN <<"mark", "hash">> ELSE <<"hash">>)
     /\ PutsLauncher(brought[r])
  \/ Says(r, "mark") /\ Goes(r) /\ PutsMark
  \/ Says(r, "hash") /\ Goes(r) /\ PutsHash
  \/ \E force \in BOOLEAN :
       /\ Says(r, IF force THEN "migrate-by-force" ELSE "migrate")
       /\ Then(r, IF Migrates(force) THEN <<"remove-app", "copy">> ELSE <<>>)
       /\ UNCHANGED <<home, swift, app, pythonFile>>
  \/ Says(r, "copy") /\ Then(r, <<"end-copy">>) /\ BeginsCopy
  \/ Says(r, "end-copy") /\ Goes(r) /\ EndsCopy
  \/ Says(r, "unbundle") /\ Goes(r) /\ RemovesApp

\* What is left of the signed launcher's history after a step on the bundle.
TrustAfter(r) ==
  /\ ~disturbed /\ ~Says(r, "unbundle")
  /\ \/ app' # app /\ app'.launcher = "signed" /\ app'.mark # {} /\ app'.whole
     \/ trusted /\ (brought[r] = "none" \/ app' = app)

DiskStep(r) ==
  /\ PathStep(r) \/ (BundleStep(r) /\ trusted' = TrustAfter(r))
  /\ UNCHANGED <<jobVars, processVars, history>>

-----------------------------------------------------------------------------
(***************************************************************************)
(* Steps on the jobs.                                                      *)
(***************************************************************************)
\* _stop_service.
StopSteps == <<"unload", "end-engine">>

\* is_loaded: launchctl knows the job, whether its process runs or is over.
IsLoadedWhileOpen == job = "open"
IsLoaded == job # "absent"

FileStep(r) ==
  \/ Says(r, "plist") /\ Goes(r) /\ plist' = TRUE /\ UNCHANGED <<trayPlist, trayJob, found>>
  \/ /\ Says(r, "stop-if-loaded")
     /\ Then(r, IF IsLoaded THEN StopSteps ELSE <<>>)
     /\ UNCHANGED <<plist, trayPlist, trayJob, found>>
  \/ /\ Says(r, "unplist")
     /\ Then(r, IF plist THEN <<"stop-if-loaded", "unlink">> ELSE <<>>)
     /\ UNCHANGED <<plist, trayPlist, trayJob, found>>
  \/ Says(r, "unlink") /\ Goes(r) /\ plist' = FALSE /\ UNCHANGED <<trayPlist, trayJob, found>>
  \/ /\ Says(r, "load-if-not")
     /\ IF plist THEN Then(r, IF IsLoaded THEN <<>> ELSE <<"load">>)
                 ELSE todo' = [todo EXCEPT ![r] = <<>>]
     /\ UNCHANGED <<plist, trayPlist, trayJob, found>>
  \/ /\ Says(r, "look") /\ Goes(r)
     /\ found' = [installed |-> plist, ran |-> IsLoaded]
     /\ UNCHANGED <<plist, trayPlist, trayJob>>
  \* repair: an intentionally stopped service stays stopped.
  \/ /\ Says(r, "stop-as-found")
     /\ Then(r, IF found.installed /\ ~found.ran THEN StopService ELSE <<>>)
     /\ UNCHANGED <<plist, trayPlist, trayJob, found>>

TrayStep(r) ==
  /\ \/ Says(r, "unload-tray-if-loaded") /\ Goes(r) /\ trayJob' = FALSE /\ UNCHANGED trayPlist
     \/ Says(r, "tray-plist") /\ Goes(r) /\ trayPlist' = TRUE /\ UNCHANGED trayJob
     \/ Says(r, "load-tray") /\ Goes(r) /\ trayJob' = TRUE /\ UNCHANGED trayPlist
     \/ /\ Says(r, "uninstall-tray")
        /\ Then(r, IF trayPlist THEN <<"unload-tray", "unlink-tray">> ELSE <<>>)
        /\ UNCHANGED <<trayPlist, trayJob>>
     \/ Says(r, "unload-tray") /\ Goes(r) /\ trayJob' = FALSE /\ UNCHANGED trayPlist
     \/ Says(r, "unlink-tray") /\ Goes(r) /\ trayPlist' = FALSE /\ UNCHANGED trayJob
  /\ UNCHANGED <<plist, found>>

\* launchctl unload, and SIGKILL for the process that launchd knew: the launcher does
\* not notice; or it ends in an orderly way, and its engine first; or its engine
\* survives it, as an orphan.
Unloads(r) ==
  /\ Says(r, "unload")
  /\ job' = "absent"
  /\ opened' = Nobody
  /\ \/ UNCHANGED <<launchers, engine, loose>> /\ Goes(r)
     \/ /\ opened # Nobody
        /\ launchers' = [launchers EXCEPT ![opened] = "off"]
        /\ \/ /\ engine' = (engine /\ Owner # opened)
              /\ IF engine /\ Owner = opened
                   THEN todo' = [SwitchDies(r) EXCEPT !["shell"] = IF r = "shell" THEN Tail(@) ELSE @]
                   ELSE Goes(r)
              /\ UNCHANGED loose
           \/ /\ loose' = (loose \/ launchers[opened] = "starting")
              /\ UNCHANGED engine /\ Goes(r)
  /\ UNCHANGED scripts

\* SIGTERM by the PID file, and SIGKILL for an engine that is not gone after 3 s.
EndsEngine(r) ==
  /\ Says(r, "end-engine")
  /\ IF engine
       THEN /\ engine' = FALSE
            /\ \E clean \in BOOLEAN : LaunchersBecome(AfterEngine(clean))
            /\ todo' = [SwitchDies(r) EXCEPT !["shell"] = IF r = "shell" THEN Tail(@) ELSE @]
       ELSE Goes(r) /\ UNCHANGED <<launchers, engine, job, opened>>
  /\ UNCHANGED <<scripts, loose>>

\* _kill_orphan_processes: the engine by its PID file, then every launcher.
KillsEngine(r) ==
  /\ Says(r, "kill-engine")
  /\ IF engine
       THEN /\ engine' = FALSE
            /\ LaunchersBecome(AfterEngine(FALSE))
            /\ todo' = [SwitchDies(r) EXCEPT !["shell"] = IF r = "shell" THEN Tail(@) ELSE @]
       ELSE Goes(r) /\ UNCHANGED <<launchers, engine, job, opened>>
  /\ UNCHANGED <<scripts, loose>>

KillsOne(r) ==
  /\ Says(r, "kill-launchers") /\ Goes(r)
  /\ LET doomed == IF Owner = Nobody THEN {} ELSE {Owner}
     IN LaunchersBecome([l \in Launchers |-> IF l \in doomed THEN "off" ELSE launchers[l]])
  /\ UNCHANGED <<scripts, engine, loose>>
KillsLaunchers(r) ==
  /\ Says(r, "kill-launchers") /\ Goes(r)
  /\ LaunchersBecome([l \in Launchers |-> "off"])
  /\ loose' = (loose \/ \E l \in Launchers : launchers[l] = "starting")
  /\ UNCHANGED <<scripts, engine>>

\* launchctl load: RunAtLoad.  A bundle without a launcher cannot be opened.
Loads(r) ==
  /\ Says(r, "load") /\ Goes(r)
  /\ IF job # "absent" THEN UNCHANGED <<job, opened, launchers, scripts>>
     ELSE IF app.launcher = "none"
       THEN job' = "over" /\ UNCHANGED <<opened, launchers, scripts>>
     ELSE LET l == CHOOSE l \in Free : TRUE IN
       /\ Free # {}
       /\ job' = "open" /\ opened' = l
       /\ launchers' = [launchers EXCEPT ![l] = "due"]
       /\ scripts' = IF app.launcher = "bash" THEN scripts \cup {l} ELSE scripts \ {l}
  /\ UNCHANGED <<engine, loose>>

JobStep(r) ==
  /\ \/ (FileStep(r) \/ TrayStep(r)) /\ UNCHANGED <<job, opened, processVars>>
     \/ /\ Unloads(r) \/ EndsEngine(r) \/ KillsEngine(r) \/ KillsLaunchers(r) \/ Loads(r)
        /\ UNCHANGED <<plist, trayPlist, trayJob, found>>
  /\ UNCHANGED <<bundleVars, brought, disturbed, after>>

\* The command is over.
Completes(r) ==
  /\ Len(todo[r]) = 1
  /\ Head(todo[r]) \in ShellCommands \cup SwitchCommands
  /\ Goes(r)
  /\ LET quiet == \A other \in Runners \ {r} : ~Busy(other)
     IN /\ after' = IF disturbed \/ ~quiet THEN Nothing ELSE Head(todo[r])
        /\ disturbed' = (disturbed /\ ~quiet)
  /\ UNCHANGED <<bundleVars, jobVars, processVars, brought, found>>

CommandStep(r) == DiskStep(r) \/ JobStep(r) \/ Completes(r)
ProcessStep == ServesAlone \/ \E l \in Launchers : Spawns(l) \/ Serves(l)

-----------------------------------------------------------------------------
(***************************************************************************)
(* Properties.                                                             *)
(***************************************************************************)
\* An install that nothing disturbed leaves at most one launcher, however many an
\* earlier stop, kill or crash had left behind: two would both watch the hotkey.
InstallLeavesAtMostOne ==
  after = "install" => Cardinality({l \in Launchers : launchers[l] # "off"}) =< 1

\* install: "Stop existing service and verify it's dead before loading the new one."
OldIsDeadAtLoad ==
  \A r \in Runners :
    ~disturbed /\ Says(r, "load") /\ todo[r][Len(todo[r])] = "install" => ~engine /\ ~loose

\* The launcher that an install leaves has an engine, as the hotkey needs.
InstallLeavesOneOwner == after = "install" ~> Owner # Nobody \/ after # "install"

\* An install that nothing disturbed ends with an engine that serves, and so does a
\* restart where there is a bundle; also when the engine crashes before or since,
\* and is to be started again.
InstallServes ==
  /\ after = "install" ~> engine \/ after # "install"
  /\ after = "restart" /\ HasLauncher ~> engine \/ after # "restart"

\* create_app_bundle: "Signed launcher installed, no new prebuilt provided — keep
\* existing signed binary".
SignedIsKept ==
  \A r \in Runners :
    Says(r, "bundle") /\ brought[r] = "none" /\ app.launcher = "signed" => ~NeedsBundle(brought[r])

\* is_installed: "Service is not installed" is never said of one that is loaded.
LoadedHasPlist == (job # "absent" => plist) /\ (trayJob => trayPlist)

\* service stop: "Stop the dictare service."
StopIsFinal == [][after = "stop" => ~(~engine /\ engine')]_<<after, engine>>

\* service start: "Load the LaunchAgent (starts the process and enables KeepAlive)."
StartServes == after = "start" ~> engine \/ after # "start"

\* disable_launch_at_login: "by unloading and removing both LaunchAgents".
DisableRemoves ==
  Busy("switch") /\ todo["switch"][Len(todo["switch"])] = "disable" ~> ~plist \/ Busy("shell")
=============================================================================
