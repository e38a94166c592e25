----------------------------- MODULE HotkeyLink -----------------------------
(***************************************************************************)
(* The hotkey on macOS, from the finger to the tap detector.  The launcher *)
(* (resources/launcher.swift) forwards each event on a connection of its   *)
(* own and blocks until the engine acknowledges it or 250 ms have passed;  *)
(* the engine (hotkey/ipc.py) serves each connection in a thread.  When    *)
(* key.down is not acknowledged the launcher sends SIGUSR1, which the      *)
(* engine takes for a whole tap - while the thread that serves the key.down*)
(* may still be on its way.                                                *)
(***************************************************************************)
EXTENDS TapDetector

CONSTANTS
  MaxPresses,    \* bound: presses of the hotkey in one behaviour
  MaxOthers      \* bound: other keys pressed while it is down

ASSUME BoundsAssumption == MaxPresses \in Nat /\ MaxOthers \in Nat

Event == {"key.down", "key.up", "other_key", "key.combo"}
DetectorEvent == Event \ {"key.combo"}

VARIABLES
  down,        \* hotkeyIsDown
  viaIPC,      \* keyDownSentViaIPC
  awaiting,    \* the event sendIPCMessage waits for the ack of, or "none"
  handled,     \* the engine has handled that event
  late,        \* events given up by the launcher and not handled yet
  signalled,   \* SIGUSR1 is pending; a second one is merged with it
  tapping,     \* SIGUSR1 handlers between their key_down and their key_up
  engine,      \* AppController._engine: absent, running, stopping, gone
  presses,     \* presses so far
  others,      \* other keys so far
  touched,     \* history: another key came during this press
  taps,        \* history: presses forwarded without another key, and released
  failed,      \* history: some event was not acknowledged
  upLost       \* history: a key.up never reached the engine

launcher == <<down, viaIPC, awaiting, handled>>
transit  == <<late, signalled, tapping>>
history  == <<presses, others, touched, taps, failed, upLost>>
vars == <<detector, launcher, transit, engine, history>>

Init ==
  /\ DetectorInit
  /\ down = FALSE
  /\ viaIPC = FALSE
  /\ awaiting = "none"
  /\ handled = FALSE
  /\ late = [e \in DetectorEvent |-> 0]
  /\ signalled = FALSE
  /\ tapping = 0
  /\ engine = "absent"
  /\ presses = 0
  /\ others = 0
  /\ touched = FALSE
  /\ taps = 0
  /\ failed = FALSE
  /\ upLost = FALSE

-----------------------------------------------------------------------------
(***************************************************************************)
(* Launcher: its event callbacks run one at a time on the main run loop.   *)
(***************************************************************************)
SendIPCMessage(e) ==
  /\ awaiting' = e
  /\ handled' = FALSE

Press ==
  /\ awaiting = "none"
  /\ ~down
  /\ presses < MaxPresses
  /\ down' = TRUE
  /\ SendIPCMessage("key.down")
  /\ presses' = presses + 1
  /\ touched' = FALSE
  /\ UNCHANGED <<detector, viaIPC, transit, engine, others, taps, failed, upLost>>

\* The mode-switch modifier is held too.
PressCombo ==
  /\ awaiting = "none"
  /\ ~down
  /\ down' = TRUE
  /\ viaIPC' = FALSE
  /\ SendIPCMessage("key.combo")
  /\ UNCHANGED <<detector, transit, engine, history>>

Release ==
  /\ awaiting = "none"
  /\ down
  /\ down' = FALSE
  /\ viaIPC' = FALSE
  /\ IF viaIPC
     THEN /\ SendIPCMessage("key.up")
          /\ taps' = IF touched THEN taps ELSE taps + 1
     ELSE UNCHANGED <<awaiting, handled, taps>>
  /\ UNCHANGED <<detector, transit, engine, presses, others, touched, failed, upLost>>

OtherKey ==
  /\ awaiting = "none"
  /\ down /\ viaIPC
  /\ others < MaxOthers
  /\ others' = others + 1
  /\ touched' = TRUE
  /\ SendIPCMessage("other_key")
  /\ UNCHANGED <<detector, down, viaIPC, transit, engine, presses, taps, failed, upLost>>

ViaIPCAlways == TRUE
ViaIPCAfterAck == viaIPC \/ awaiting = "key.down"

Acknowledged ==
  /\ awaiting # "none"
  /\ handled
  /\ awaiting' = "none"
  /\ viaIPC' = ViaIPCAfterAck
  /\ UNCHANGED <<detector, down, handled, transit, engine, history>>

\* Only key.down has a fallback.
NeedsFallback == awaiting = "key.down"

GiveUp ==
  /\ awaiting' = "none"
  /\ failed' = TRUE
  /\ signalled' = (signalled \/ NeedsFallback)
  /\ UNCHANGED <<detector, down, viaIPC, handled, tapping, engine,
                 presses, others, touched, taps>>

\* No socket, no connection, or nothing sent.
ConnectionFails ==
  /\ awaiting # "none"
  /\ ~handled
  /\ GiveUp
  /\ upLost' = (upLost \/ awaiting = "key.up")
  /\ UNCHANGED late

\* The event was handled or is still going to be.
AckTimesOut ==
  /\ awaiting # "none"
  /\ GiveUp
  /\ late' = IF handled \/ awaiting \notin DetectorEvent THEN late
             ELSE [late EXCEPT ![awaiting] = @ + 1]
  /\ UNCHANGED upLost

-----------------------------------------------------------------------------
(***************************************************************************)
(* Engine.  Until the engine is there, and when it has gone, the entry     *)
(* points return at once; the event is acknowledged all the same.          *)
(***************************************************************************)
Attached == engine \in {"running", "stopping"}

Deliver(e) ==
  IF ~Attached \/ e = "key.combo" THEN UNCHANGED detector
  ELSE \/ e = "key.down" /\ OnKeyDown
       \/ e = "key.up" /\ OnKeyUp
       \/ e = "other_key" /\ OnOtherKey

HandleEvent ==
  /\ awaiting # "none"
  /\ ~handled
  /\ handled' = TRUE
  /\ Deliver(awaiting)
  /\ UNCHANGED <<down, viaIPC, awaiting, transit, engine, history>>

HandleLate(e) ==
  /\ late[e] > 0
  /\ late' = [late EXCEPT ![e] = @ - 1]
  /\ Deliver(e)
  /\ UNCHANGED <<launcher, signalled, tapping, engine, history>>

\* on_hotkey_tap presses and releases; other threads may get the lock between.
TapPresses ==
  /\ signalled
  /\ signalled' = FALSE
  /\ tapping' = IF Attached THEN tapping + 1 ELSE tapping
  /\ Deliver("key.down")
  /\ UNCHANGED <<launcher, late, engine, history>>

TapReleases ==
  /\ tapping > 0
  /\ tapping' = tapping - 1
  /\ Deliver("key.up")
  /\ UNCHANGED <<launcher, late, signalled, engine, history>>

\* The main thread starts and stops the engine, outside its signal handlers.
EngineStarts ==
  /\ engine = "absent"
  /\ tapping = 0
  /\ engine' = "running"
  /\ UNCHANGED <<detector, launcher, transit, history>>

EngineStops ==
  /\ engine = "running"
  /\ tapping = 0
  /\ engine' = "stopping"
  /\ Reset
  /\ UNCHANGED <<launcher, transit, history>>

EngineGone ==
  /\ engine = "stopping"
  /\ tapping = 0
  /\ engine' = "gone"
  /\ UNCHANGED <<detector, launcher, transit, history>>

Timers ==
  /\ TimerElapses \/ OrphanElapses \/ OnHoldTimeout \/ OnDoubleTapTimeout
  /\ UNCHANGED <<launcher, transit, engine, history>>

Next ==
  \/ Press \/ PressCombo \/ Release \/ OtherKey
  \/ Acknowledged \/ ConnectionFails \/ AckTimesOut
  \/ HandleEvent \/ TapPresses \/ TapReleases
  \/ \E e \in DetectorEvent : HandleLate(e)
  \/ EngineStarts \/ EngineStops \/ EngineGone
  \/ Timers

Spec == Init /\ [][Next]_vars

(***************************************************************************)
(* Fairness.  A timer that is not cancelled elapses and its thread gets    *)
(* the lock; connection threads and signal handlers run; the launcher does *)
(* not wait longer than its receive timeout.  Nothing is assumed of the    *)
(* user.                                                                   *)
(***************************************************************************)
Quietly(A) == A /\ UNCHANGED <<launcher, transit, engine, history>>

Fairness ==
  /\ WF_vars(Quietly(TimerElapses))
  /\ WF_vars(Quietly(OrphanElapses))
  /\ WF_vars(Quietly(OnHoldTimeout))
  /\ WF_vars(Quietly(OnDoubleTapTimeout))
  /\ WF_vars(HandleEvent)
  /\ WF_vars(\E e \in DetectorEvent : HandleLate(e))
  /\ WF_vars(TapPresses)
  /\ WF_vars(TapReleases)
  /\ WF_vars(AckTimesOut \/ Acknowledged)

FairSpec == Spec /\ Fairness
-----------------------------------------------------------------------------
(***************************************************************************)
(* Properties.                                                             *)
(***************************************************************************)
LinkTypes ==
  /\ down \in BOOLEAN
  /\ viaIPC \in BOOLEAN
  /\ awaiting \in Event \cup {"none"}
  /\ handled \in BOOLEAN
  /\ late \in [DetectorEvent -> Nat]
  /\ signalled \in BOOLEAN
  /\ tapping \in Nat
  /\ engine \in {"absent", "running", "stopping", "gone"}
  /\ presses \in 0..MaxPresses
  /\ others \in 0..MaxOthers
  /\ touched \in BOOLEAN
  /\ taps \in Nat
  /\ failed \in BOOLEAN
  /\ upLost \in BOOLEAN

\* A key.up is due only for a key.down that was acknowledged and goes on.
OneWay ==
  /\ viaIPC => down
  /\ awaiting = "key.down" => down /\ ~viaIPC

\* The type of every variable, and what the launcher's flags say of each other.
TypeOK == DetectorTypes /\ LinkTypes /\ OneWay

\* The presses of the hotkey that the callbacks stand for.
Reported == reported["single"] + 2 * (reported["double"] + reported["hold"])

\* A press is reported at most once, although a key.down whose acknowledgement
\* is late is sent a second time, as SIGUSR1, and both may reach the detector.
PressReportedOnce == Reported <= presses

\* Releases the detector may still get: of the tap being simulated, of a pending
\* signal, on their way, and of the press that goes on.
Bit(b) == IF b THEN 1 ELSE 0
Outstanding ==
  tapping + Bit(signalled) + late["key.up"] + Bit(awaiting = "key.up" /\ ~handled)
    + Bit(viaIPC) + Bit(awaiting = "key.down")

\* Presses the detector has reported or still holds a release of.
Held == Bit(state \in {"RELEASED_1", "PRESSED_2", "HOLD_ACTIVE"})
Consumed == Reported + Held

\* What makes PressReportedOnce inductive: a press gives the detector one release,
\* by one of the two ways, and a tap is reported for a release.
Accounted == Consumed + Outstanding <= presses

\* While every event is acknowledged in time, a press during which another key
\* was pressed is part of no tap (tap_detector.py, "Command+Plus should not
\* trigger a tap"), whatever the timers of earlier presses do.
ComboKeepsQuiet == ~failed => Reported <= taps

\* What makes ComboKeepsQuiet inductive, while every event is acknowledged in time: no
\* event is left over, the detector knows of the other key before the release comes,
\* and a tap is forwarded for every release that it holds or has reported.
PressGoesOn == viaIPC \/ (awaiting = "key.up" /\ ~handled)
OtherKeyKnown == ~(awaiting = "other_key" /\ ~handled) /\ engine # "gone"
TapOnItsWay == awaiting = "key.up" /\ ~handled /\ ~touched

NothingLeftOver ==
  /\ \A e \in DetectorEvent : late[e] = 0
  /\ ~signalled /\ tapping = 0
TouchedIsCombo ==
  /\ awaiting = "key.down" => ~touched
  /\ engine = "absent" => state = "IDLE"
  /\ touched /\ PressGoesOn /\ OtherKeyKnown
       => combo \/ state \notin {"PRESSED_1", "PRESSED_2"}
TapsAccounted == Consumed + Bit(TapOnItsWay) <= taps
QuietInv == ~failed => NothingLeftOver /\ TouchedIsCombo /\ TapsAccounted

\* The detector never waits for a timer that will not run: the window of a
\* first tap is timed, and so is a second press that may become a hold.
WaitIsTimed ==
  /\ state = "RELEASED_1" => timer = "double" \/ due["double"] > 0
  /\ state = "PRESSED_2" /\ ~combo => timer = "hold" \/ orphans > 0 \/ due["hold"] > 0

\* The inductive invariant of the proofs.
IInv == TypeOK /\ Accounted /\ WaitIsTimed

\* A first tap does not stay undecided: it is reported, joined by a second
\* press, or dropped when the engine stops.
TapIsDecided == (state = "RELEASED_1") ~> (state # "RELEASED_1")

\* tap_detector.py: a second press within the window "cancels the double-tap
\* timer"; so when that timer still runs, it does not end the second press.
\* Stated of events that are acknowledged in time.
SecondPressKept ==
  [][~failed /\ state = "PRESSED_2" /\ due'["double"] < due["double"]
       => state' = state]_vars

\* launcher.swift: when a key.up is lost, the "long-press timer will fire at
\* 0.8s and reset" the detector.
LostKeyUpResets ==
  (upLost /\ engine = "running") ~> (state = "IDLE" \/ engine # "running")
=============================================================================
