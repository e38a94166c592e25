--------------------------------- MODULE Tray ---------------------------------
(***************************************************************************)
(* The menu bar application (tray/app.py), a process of its own that knows *)
(* the engine by GET /openvip/status and POST /openvip/control only.  Its  *)
(* main thread runs the menu's handlers, which write what the user chose   *)
(* before the engine has heard of it; a polling thread overwrites that     *)
(* with what the engine says; every request and every service command has  *)
(* a short-lived thread of its own, so they arrive in any order or never.  *)
(* The menu and the icon are snapshots of the fields, taken on the main    *)
(* thread, for which the polling thread queues callbacks (macOS).          *)
(***************************************************************************)
EXTENDS SequencesExt

CONSTANTS
  TrayAgents,   \* names of the sessions that may connect
  NoTarget      \* "", or a current_agent of None

ASSUME TrayAssumption == NoTarget \notin TrayAgents

VARIABLES
  engine,     \* what GET /status would say, and whether anyone answers
  savedMode,  \* output.mode of config.toml
  tray,       \* _state, _targets, _current_target, _output_mode and the permissions
  poll,       \* the polling thread: what it does next, and the status it has
  calls,      \* callbacks queued for the main thread
  menu,       \* the menu on screen
  icon,       \* the icon on screen
  window,     \* no icon, an icon being built, an icon, or the tray has quit
  sent,       \* control requests on their way
  orders      \* service commands in progress: what each has still to do

trayFields == <<tray, poll, calls>>
screen == <<menu, icon, window>>
outside == <<sent, orders, savedMode>>
trayVars == <<engine, trayFields, screen, outside>>

Modes == {"keyboard", "agents"}
NoMenu == [state |-> "no menu"]
Up == engine.life # "down"

-----------------------------------------------------------------------------
(***************************************************************************)
(* The engine, as its status shows it.                                     *)
(***************************************************************************)
\* get_status: loading hides everything else, voice-muted hides listening.
DisplayState(e) ==
  IF e.life = "down" THEN "disconnected"
  ELSE IF e.life = "loading" THEN "loading"
  ELSE IF e.app = "listening" /\ e.muted THEN "muted"
  ELSE e.app

\* resolve_display_state and _tray_state_map: recording is listening to the tray.
TrayState(e) == IF DisplayState(e) = "recording" THEN "listening" ELSE DisplayState(e)

Visible(e) == IF e.mode = "agents" /\ e.agents # <<>> THEN e.current ELSE NoTarget

Started(m) ==
  [life |-> "loading", app |-> "off", muted |-> FALSE, granted |-> TRUE,
   mode |-> m, agents |-> <<>>, current |-> NoTarget]
Down == [Started("keyboard") EXCEPT !.life = "down"]

\* stt.toggle, output.set_mode and output.set_agent, as handled by a running engine.
Handled(e, what) ==
  CASE what.command = "stt.toggle" ->
         [e EXCEPT !.app = IF @ = "off" THEN "listening" ELSE "off"]
    [] what.command = "output.set_mode" ->
         [e EXCEPT !.mode = what.name,
                   !.current = IF @ = NoTarget /\ e.agents # <<>> THEN Head(e.agents) ELSE @]
    [] what.command = "output.set_agent" ->
         IF what.name \in ToSet(e.agents) THEN [e EXCEPT !.current = what.name, !.mode = "agents"] ELSE e

\* What happens to the engine without the tray: the hotkey, sessions, macOS.
Events(e) ==
  {[e EXCEPT !.app = s] : s \in {"off", "listening", "recording"}}
    \cup {[e EXCEPT !.muted = ~@], [e EXCEPT !.granted = ~@]}
    \cup {[e EXCEPT !.agents = Append(@, a), !.current = IF @ = NoTarget THEN a ELSE @] :
            a \in TrayAgents \ ToSet(e.agents)}
    \cup {LET left == Remove(e.agents, a)
          IN  [e EXCEPT !.agents = left,
                        !.current = IF @ # a THEN @ ELSE IF left = <<>> THEN NoTarget ELSE Head(left)] :
            a \in ToSet(e.agents)}

EngineMoves ==
  /\ engine.life = "ready"
  /\ engine' \in Events(engine) \ {engine}
  /\ UNCHANGED <<trayFields, screen, outside>>

EngineLoads ==
  /\ engine.life = "loading"
  /\ engine' = [engine EXCEPT !.life = "ready"]
  /\ UNCHANGED <<trayFields, screen, outside>>

EngineDies ==
  /\ Up
  /\ engine' = Down
  /\ UNCHANGED <<trayFields, screen, outside>>

\* Its service manager starts it: with the mode of config.toml or of the last session.
EngineStarts ==
  /\ ~Up
  /\ engine' \in {Started(m) : m \in Modes}
  /\ UNCHANGED <<trayFields, screen, outside>>

-----------------------------------------------------------------------------
(***************************************************************************)
(* The menu, the icon, and who may build them.                             *)
(***************************************************************************)
\* _create_menu: the target submenu is there in agents mode only.
CreateMenu(t) ==
  LET targets == IF t.mode = "agents" THEN t.targets ELSE <<>>
  IN  [state |-> t.state, mode |-> t.mode, granted |-> t.granted, targets |-> targets,
       current |-> IF targets = <<>> THEN NoTarget ELSE t.current]

IconOf(t) ==
  IF t.state \in {"disconnected", "loading"} THEN t.state
  ELSE IF ~t.granted THEN "disconnected"
  ELSE IF t.state = "listening" THEN "active" ELSE "plain"

HasIcon == window = "shown"

\* The run loop's next callback.
CallDoes ==
  /\ HasIcon /\ calls # <<>>
  /\ \/ Head(calls) = "icon" /\ icon' = IconOf(tray) /\ UNCHANGED menu
     \/ Head(calls) = "menu" /\ menu' = CreateMenu(tray) /\ UNCHANGED icon
  /\ calls' = Tail(calls)
  /\ UNCHANGED <<engine, tray, poll, window, outside>>

-----------------------------------------------------------------------------
(***************************************************************************)
(* The polling thread.  Each setter writes and then asks for the menu.     *)
(***************************************************************************)
Polling == window # "gone"

PollAsks ==
  /\ Polling /\ poll.next = "ask"
  /\ poll' = [next |-> IF Up THEN "state" ELSE "lost", status |-> engine]
  /\ UNCHANGED <<engine, tray, calls, screen, outside>>

\* The request takes more than its two seconds: the engine counts as gone.
PollTimesOut ==
  /\ Polling /\ poll.next = "ask"
  /\ Up
  /\ poll' = [next |-> "lost", status |-> Down]
  /\ UNCHANGED <<engine, tray, calls, screen, outside>>

\* set_state
StateSet(s) ==
  /\ tray' = [tray EXCEPT !.state = s]
  /\ calls' = IF s = tray.state THEN calls ELSE calls \o <<"icon", "menu">>

\* set_targets: no current agent keeps the last one, or takes the first.
NewTarget(targets, current) ==
  IF current # NoTarget THEN current
  ELSE IF targets = <<>> THEN NoTarget
  ELSE IF tray.current = NoTarget THEN Head(targets) ELSE tray.current
TargetsSetByList(targets, current) ==
  /\ tray' = [tray EXCEPT !.targets = targets, !.current = NewTarget(targets, current)]
  /\ calls' = IF targets # tray.targets THEN Append(calls, "menu") ELSE calls
TargetsSet(targets, current) ==
  /\ tray' = [tray EXCEPT !.targets = targets, !.current = NewTarget(targets, current)]
  /\ calls' = IF tray' # tray THEN Append(calls, "menu") ELSE calls

\* set_output_mode
ModeSet(m) ==
  /\ tray' = [tray EXCEPT !.mode = m]
  /\ calls' = IF m # tray.mode THEN Append(calls, "menu") ELSE calls

PermissionsSet(g) ==
  /\ tray' = [tray EXCEPT !.granted = g]
  /\ calls' = IF g # tray.granted THEN calls \o <<"menu", "icon">> ELSE calls

PollSteps == [state |-> "targets", targets |-> "mode", mode |-> "granted", granted |-> "ask", lost |-> "ask"]

PollSets ==
  /\ Polling /\ poll.next # "ask"
  /\ LET s == poll.status
     IN  CASE poll.next \in {"state", "lost"} -> StateSet(TrayState(s))
           [] poll.next = "targets" -> TargetsSet(s.agents, Visible(s))
           [] poll.next = "mode" -> ModeSet(s.mode)
           [] poll.next = "granted" -> PermissionsSet(s.granted)
  /\ poll' = IF PollSteps[poll.next] = "ask"
                THEN [next |-> "ask", status |-> Down]
                ELSE [poll EXCEPT !.next = PollSteps[@]]
  /\ UNCHANGED <<engine, screen, outside>>

-----------------------------------------------------------------------------
(***************************************************************************)
(* The main thread.  It builds its own menus at once.                      *)
(***************************************************************************)
\* run builds the menu before there is an icon; the icon is brought up to date after.
RunBuilds ==
  /\ window = "none"
  /\ window' = "building"
  /\ menu' = CreateMenu(tray)
  /\ UNCHANGED <<engine, trayFields, icon, outside>>

RunShows ==
  /\ window = "building"
  /\ window' = "shown"
  /\ icon' = IconOf(tray)
  /\ UNCHANGED <<engine, trayFields, menu, outside>>

Send(n, command, name) == sent' = sent \cup {[id |-> n, command |-> command, name |-> name]}

\* _make_output_mode_handler: the fields and config.toml first, then the engine.
ClickMode(n, m) ==
  /\ HasIcon
  /\ tray' = [tray EXCEPT !.mode = m]
  /\ savedMode' = m
  /\ Send(n, "output.set_mode", m)
  /\ menu' = CreateMenu(tray')
  /\ UNCHANGED <<engine, poll, calls, icon, window, orders>>

\* _make_target_handler
ClickTarget(n, a) ==
  /\ HasIcon /\ a \in ToSet(menu.targets)
  /\ tray' = [tray EXCEPT !.current = a]
  /\ Send(n, "output.set_agent", a)
  /\ menu' = CreateMenu(tray')
  /\ UNCHANGED <<engine, poll, calls, icon, window, savedMode, orders>>

\* _on_toggle_listening: whatever the menu says, the engine toggles.
ClickToggle(n) ==
  /\ HasIcon
  /\ Send(n, "stt.toggle", "")
  /\ UNCHANGED <<engine, trayFields, screen, savedMode, orders>>

\* _on_stop_service, _on_start_service and _on_restart_engine.
ClickService(n) ==
  /\ HasIcon
  /\ \E todo \in {<<"stop", "start">>, IF menu.state = "disconnected" THEN <<"start">> ELSE <<"stop">>} :
       orders' = orders \cup {[id |-> n, todo |-> todo]}
  /\ UNCHANGED <<engine, trayFields, screen, savedMode, sent>>

\* _on_quit, or a signal once there is an icon.
Quit ==
  /\ HasIcon
  /\ window' = "gone"
  /\ UNCHANGED <<engine, trayFields, menu, icon, outside>>

-----------------------------------------------------------------------------
(***************************************************************************)
(* The threads of the requests and of the service commands.                *)
(***************************************************************************)
Arrives(r) ==
  /\ r \in sent
  /\ sent' = sent \ {r}
  /\ engine' = IF Up THEN Handled(engine, r) ELSE engine
  /\ UNCHANGED <<trayFields, screen, savedMode, orders>>

OrderDoes(o) ==
  /\ o \in orders
  /\ orders' = (orders \ {o}) \cup
       (IF Len(o.todo) = 1 THEN {} ELSE {[o EXCEPT !.todo = Tail(@)]})
  /\ \/ Head(o.todo) = "stop" /\ engine' = Down
     \/ /\ Head(o.todo) = "start"
        /\ engine' \in IF Up THEN {engine} ELSE {Started(m) : m \in Modes}
  /\ UNCHANGED <<trayFields, screen, savedMode, sent>>

\* A tray that starts, or none: disconnected, in the mode of config.toml.
TrayInit ==
  /\ LET a == CHOOSE x \in TrayAgents : TRUE
     IN  engine \in {Down, [Started("agents") EXCEPT !.life = "ready", !.agents = <<a>>, !.current = a]}
  /\ savedMode \in Modes
  /\ tray = [state |-> "disconnected", targets |-> <<>>, current |-> NoTarget,
             mode |-> savedMode, granted |-> TRUE]
  /\ poll = [next |-> "ask", status |-> Down]
  /\ calls = <<>>
  /\ menu = NoMenu /\ icon = "disconnected" /\ window \in {"none", "gone"}
  /\ sent = {} /\ orders = {}

-----------------------------------------------------------------------------
\* The menu and the icon say what the engine's status says.
MenuAgrees ==
  /\ menu.state = TrayState(engine)
  /\ Up => /\ menu.mode = engine.mode
           /\ menu.granted = engine.granted
           /\ engine.mode = "agents" =>
                menu.targets = engine.agents /\ menu.current = Visible(engine)
           /\ icon = IconOf([state |-> TrayState(engine), granted |-> engine.granted])
  /\ ~Up => icon = "disconnected"
=============================================================================
