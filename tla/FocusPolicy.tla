----------------------------- MODULE FocusPolicy -----------------------------
(***************************************************************************)
(* The feedback policy's knowledge of which terminals have the focus       *)
(* (audio/feedback_policy.py).  A focus-in is applied at once, a focus-out *)
(* by a timer of 500 ms.  A timer that has elapsed waits for the lock and  *)
(* cannot be cancelled any more.                                           *)
(***************************************************************************)
EXTENDS Naturals, FiniteSets

CONSTANTS
  Watched,     \* the agents whose terminals report their focus
  MaxTimers    \* bound: focus-out timers started for one agent

ASSUME TimersAssumption == MaxTimers \in Nat

Timer == 1..MaxTimers

VARIABLES
  focus,      \* _focus, "none" without an entry
  slot,       \* _timers, 0 without an entry
  counting,   \* timers that have neither elapsed nor been cancelled
  elapsed,    \* timers that have elapsed and not applied the focus-out yet
  started,    \* timers started so far
  told,       \* history: the last report handled since the agent registered
  crossed     \* history: a report was handled while an elapsed timer waited for the lock

focusVars == <<focus, slot, counting, elapsed, started, told, crossed>>

Reported == {"none", "in", "out"}

FocusTypeOK ==
  /\ focus \in [Watched -> Reported]
  /\ slot \in [Watched -> Timer \cup {0}]
  /\ counting \in [Watched -> SUBSET Timer]
  /\ elapsed \in [Watched -> SUBSET Timer]
  /\ started \in [Watched -> 0..MaxTimers]
  /\ told \in [Watched -> Reported]
  /\ crossed \in [Watched -> BOOLEAN]

FocusInit ==
  /\ focus = [a \in Watched |-> "none"]
  /\ slot = [a \in Watched |-> 0]
  /\ counting = [a \in Watched |-> {}]
  /\ elapsed = [a \in Watched |-> {}]
  /\ started = [a \in Watched |-> 0]
  /\ told = [a \in Watched |-> "none"]
  /\ crossed = [a \in Watched |-> FALSE]

Crosses(a) == crossed' = [crossed EXCEPT ![a] = @ \/ elapsed[a] # {}]

\* cancel() stops a timer that still counts and no other.
CancelNothing(a) == counting[a]
CancelSlot(a) == counting[a] \ {slot[a]}

FocusIn(a) ==
  /\ focus' = [focus EXCEPT ![a] = "in"]
  /\ slot' = [slot EXCEPT ![a] = 0]
  /\ counting' = [counting EXCEPT ![a] = CancelSlot(a)]
  /\ told' = [told EXCEPT ![a] = "in"]
  /\ Crosses(a)
  /\ UNCHANGED <<elapsed, started>>

FocusOut(a) ==
  LET t == started[a] + 1
  IN  /\ t \in Timer
      /\ started' = [started EXCEPT ![a] = t]
      /\ counting' = [counting EXCEPT ![a] = CancelSlot(a) \cup {t}]
      /\ slot' = [slot EXCEPT ![a] = t]
      /\ told' = [told EXCEPT ![a] = "out"]
      /\ Crosses(a)
      /\ UNCHANGED <<focus, elapsed>>

RemoveAgent(a) ==
  /\ focus' = [focus EXCEPT ![a] = "none"]
  /\ slot' = [slot EXCEPT ![a] = 0]
  /\ counting' = [counting EXCEPT ![a] = CancelSlot(a)]
  /\ told' = [told EXCEPT ![a] = "none"]
  /\ Crosses(a)
  /\ UNCHANGED <<elapsed, started>>

TimerElapses(a) ==
  \E t \in counting[a] :
    /\ counting' = [counting EXCEPT ![a] = @ \ {t}]
    /\ elapsed' = [elapsed EXCEPT ![a] = @ \cup {t}]
    /\ UNCHANGED <<focus, slot, started, told, crossed>>

\* _apply_unfocus removes whichever timer is in the slot.
ApplyUnfocus(a) ==
  \E t \in elapsed[a] :
    /\ elapsed' = [elapsed EXCEPT ![a] = @ \ {t}]
    /\ focus' = [focus EXCEPT ![a] = "out"]
    /\ slot' = [slot EXCEPT ![a] = 0]
    /\ UNCHANGED <<counting, started, told, crossed>>

\* restore_state: the agent whose focus the session file has kept, if any.
FocusRestored(kept) ==
  /\ focus' = [a \in Watched |-> IF a = kept THEN "in" ELSE "none"]
  /\ told' = focus'
  /\ slot' = [a \in Watched |-> 0]
  /\ counting' = [a \in Watched |-> {}]
  /\ elapsed' = [a \in Watched |-> {}]
  /\ crossed' = [a \in Watched |-> FALSE]
  /\ UNCHANGED started

-----------------------------------------------------------------------------
\* Debouncing: a focus-in that comes back before the 500 ms are over silences
\* the terminal and keeps it silenced, however often the focus flickers, unless
\* a report was handled between the end of a timer and its _apply_unfocus.
FlickerIsCaught == \A a \in Watched : told[a] = "in" /\ ~crossed[a] => focus[a] = "in"

\* An agent whose terminal lost the focus does not stay silenced: a timer that
\* will apply the focus-out is left, even when an earlier one emptied the slot.
FocusOutPending ==
  \A a \in Watched :
    told[a] = "out" => focus[a] = "out" \/ counting[a] \cup elapsed[a] # {}
=============================================================================
