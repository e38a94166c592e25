----------------------------- MODULE TapDetector -----------------------------
(***************************************************************************)
(* The tap detector of dictare (hotkey/tap_detector.py): single taps,      *)
(* double taps and double-tap-and-hold on one key.  Key events and timer   *)
(* threads take the detector's lock one after the other, so each of the    *)
(* methods is one step; callbacks run after the lock is released and never *)
(* come back to the detector.                                              *)
(*                                                                         *)
(* A threading.Timer that is cancelled while it waits never runs, but one  *)
(* that has left its wait runs its function whatever is cancelled: `timer` *)
(* can be cancelled, `due` cannot.                                         *)
(***************************************************************************)
EXTENDS Naturals

CONSTANT Wired     \* the outcomes that have a callback

TapState == {"IDLE", "PRESSED_1", "RELEASED_1", "PRESSED_2", "HOLD_ACTIVE"}
Outcome == {"single", "double", "hold"}
TimerKind == {"double", "hold"}

ASSUME WiredAssumption == Wired \subseteq Outcome

VARIABLES
  state,      \* _state
  combo,      \* _combo_detected
  timer,      \* kind of the timer that _timer names, while it waits, or "none"
  orphans,    \* hold timers that wait and that _timer no longer names
  due,        \* timer threads past their wait that have not got the lock yet
  reported    \* history: how often each callback was called

detector == <<state, combo, timer, orphans, due, reported>>

DetectorTypes ==
  /\ state \in TapState
  /\ combo \in BOOLEAN
  /\ timer \in TimerKind \cup {"none"}
  /\ orphans \in Nat
  /\ due \in [TimerKind -> Nat]
  /\ reported \in [Outcome -> Nat]

DetectorInit ==
  /\ state = "IDLE"
  /\ combo = FALSE
  /\ timer = "none"
  /\ orphans = 0
  /\ due = [k \in TimerKind |-> 0]
  /\ reported = [o \in Outcome |-> 0]

-----------------------------------------------------------------------------
Report(o) ==
  reported' = IF o \in Wired THEN [reported EXCEPT ![o] = @ + 1] ELSE reported

\* _reset: the timer that can still be cancelled is.
Idle ==
  /\ state' = "IDLE"
  /\ combo' = FALSE
  /\ timer' = "none"

\* In the other states a press is a key repeat.
OnKeyDown ==
  /\ \/ /\ state = "IDLE"
        /\ state' = "PRESSED_1"
        /\ combo' = FALSE
        /\ UNCHANGED timer
     \/ /\ state = "RELEASED_1"
        /\ state' = "PRESSED_2"
        /\ combo' = FALSE
        /\ timer' = "hold"
     \/ /\ state \in {"PRESSED_1", "PRESSED_2", "HOLD_ACTIVE"}
        /\ UNCHANGED <<state, combo, timer>>
  /\ UNCHANGED <<orphans, due, reported>>

OnKeyUp ==
  /\ \/ /\ state \in {"PRESSED_1", "PRESSED_2"} /\ combo
        /\ Idle
        /\ UNCHANGED reported
     \/ /\ state = "PRESSED_1" /\ ~combo
        /\ state' = "RELEASED_1"
        /\ timer' = "double"
        /\ UNCHANGED <<combo, reported>>
     \/ /\ state = "PRESSED_2" /\ ~combo
        /\ Report("double")
        /\ Idle
     \/ /\ state = "HOLD_ACTIVE"
        /\ Report("hold")
        /\ Idle
     \/ /\ state \in {"IDLE", "RELEASED_1"}
        /\ UNCHANGED <<state, combo, timer, reported>>
  /\ UNCHANGED <<orphans, due>>

OtherKeyOnFirstPress ==
  /\ combo' = (combo \/ state = "PRESSED_1")
  /\ UNCHANGED <<state, timer, orphans, due, reported>>
OnOtherKey ==
  /\ combo' = (combo \/ state \in {"PRESSED_1", "PRESSED_2"})
  /\ UNCHANGED <<state, timer, orphans, due, reported>>

Reset ==
  /\ Idle
  /\ UNCHANGED <<orphans, due, reported>>

-----------------------------------------------------------------------------
TimerElapses ==
  /\ timer # "none"
  /\ due' = [due EXCEPT ![timer] = @ + 1]
  /\ timer' = "none"
  /\ UNCHANGED <<state, combo, orphans, reported>>

OrphanElapses ==
  /\ orphans > 0
  /\ orphans' = orphans - 1
  /\ due' = [due EXCEPT !["hold"] = @ + 1]
  /\ UNCHANGED <<state, combo, timer, reported>>

OnHoldTimeoutForgets ==
  /\ due["hold"] > 0
  /\ due' = [due EXCEPT !["hold"] = @ - 1]
  /\ timer' = "none"
  /\ UNCHANGED <<state, combo, orphans, reported>>

\* _timer is dropped without a cancel: when the timer that runs here is one of
\* an earlier press, the timer of this press goes on waiting.
OnHoldTimeout ==
  /\ due["hold"] > 0
  /\ due' = [due EXCEPT !["hold"] = @ - 1]
  /\ IF state = "PRESSED_2" /\ ~combo
     THEN /\ state' = "HOLD_ACTIVE"
          /\ timer' = "none"
          /\ orphans' = IF timer = "none" THEN orphans ELSE orphans + 1
     ELSE UNCHANGED <<state, timer, orphans>>
  /\ UNCHANGED <<combo, reported>>

WindowAssumed == TRUE
WindowOpen == state = "RELEASED_1" /\ ~combo

\* Whatever the detector is doing by now, it is reset.
OnDoubleTapTimeout ==
  /\ due["double"] > 0
  /\ due' = [due EXCEPT !["double"] = @ - 1]
  /\ IF WindowOpen THEN Report("single") ELSE UNCHANGED reported
  /\ Idle
  /\ UNCHANGED orphans
=============================================================================
