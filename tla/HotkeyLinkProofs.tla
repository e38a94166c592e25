-------------------------- MODULE HotkeyLinkProofs --------------------------
(***************************************************************************)
(* Safety of HotkeyLink for every number of presses and other keys and     *)
(* every choice of wired callbacks; and of what a double tap does then, in *)
(* TextPath, for every number of texts and taps; and of the submit trigger *)
(* at the end of a text, for every text and every trigger.                 *)
(***************************************************************************)
EXTENDS HotkeyLink, TextPath, FiniteSetTheorems, SequenceTheorems, TLAPS

USE WiredAssumption, BoundsAssumption

-----------------------------------------------------------------------------
\* A report adds what it stands for, or nothing when nobody is wired to it.
LEMMA ReportCounts ==
  ASSUME DetectorTypes, NEW o \in Outcome, Report(o)
  PROVE  /\ reported' \in [Outcome -> Nat]
         /\ Reported \in Nat /\ Reported' \in Nat
         /\ Reported' <= Reported + (IF o = "single" THEN 1 ELSE 2)
<1>1. CASE o \in Wired
  <2>1. reported' = [reported EXCEPT ![o] = @ + 1]
    BY <1>1 DEF Report
  <2>2. /\ reported' \in [Outcome -> Nat]
        /\ \A p \in Outcome :
             reported'[p] = IF p = o THEN reported[p] + 1 ELSE reported[p]
    BY <2>1 DEF DetectorTypes, Outcome
  <2> QED
    BY <2>2 DEF DetectorTypes, Outcome, Reported
<1>2. CASE o \notin Wired
  BY <1>2 DEF Report, DetectorTypes, Outcome, Reported
<1> QED
  BY <1>1, <1>2

\* Counting the presses gives a natural number.
LEMMA ConsumedTypes ==
  ASSUME DetectorTypes
  PROVE  Reported \in Nat /\ Held \in {0, 1} /\ Consumed = Reported + Held
  BY DEF DetectorTypes, Outcome, Reported, Held, Consumed, Bit

\* A press of the key consumes nothing.
LEMMA KeyDownCounts ==
  ASSUME DetectorTypes, OnKeyDown
  PROVE  DetectorTypes' /\ Consumed' = Consumed
<1>1. DetectorTypes'
  BY DEF DetectorTypes, OnKeyDown, TapState, TimerKind
<1>2. Reported' = Reported
  BY DEF OnKeyDown, Reported
<1>3. Held' = Held
  BY DEF DetectorTypes, OnKeyDown, TapState, Held, Bit
<1> QED
  BY <1>1, <1>2, <1>3 DEF Consumed

\* A release of the key accounts for one press more, at most.
LEMMA KeyUpCounts ==
  ASSUME DetectorTypes, OnKeyUp
  PROVE  DetectorTypes' /\ Consumed' <= Consumed + 1
<1> USE DEF Idle
<1>0. /\ orphans' = orphans /\ due' = due
  BY DEF OnKeyUp
<1>1. CASE state \in {"PRESSED_1", "PRESSED_2"} /\ combo /\ Idle /\ UNCHANGED reported
  <2>1. DetectorTypes'
    BY <1>0, <1>1 DEF DetectorTypes, TapState, TimerKind
  <2>2. Reported' = Reported /\ Held' = 0
    BY <1>1 DEF Reported, Held, Bit
  <2> QED
    BY <2>1, <2>2, ConsumedTypes DEF Consumed
<1>2. CASE /\ state = "PRESSED_1" /\ ~combo
           /\ state' = "RELEASED_1"
           /\ timer' = "double"
           /\ UNCHANGED <<combo, reported>>
  <2>1. DetectorTypes'
    BY <1>0, <1>2 DEF DetectorTypes, TapState, TimerKind
  <2>2. Reported' = Reported /\ Held' = 1 /\ Held = 0
    BY <1>2 DEF Reported, Held, Bit
  <2> QED
    BY <2>1, <2>2, ConsumedTypes DEF Consumed
<1>3. CASE \E o \in {"double", "hold"} :
             /\ state \in {"PRESSED_2", "HOLD_ACTIVE"}
             /\ Report(o) /\ Idle
  <2>1. PICK o \in {"double", "hold"} :
          state \in {"PRESSED_2", "HOLD_ACTIVE"} /\ Report(o) /\ Idle
    BY <1>3
  <2>2. o \in Outcome /\ o # "single"
    BY DEF Outcome
  <2>3. /\ reported' \in [Outcome -> Nat]
        /\ Reported \in Nat /\ Reported' \in Nat
        /\ Reported' <= Reported + 2
    BY <2>1, <2>2, ReportCounts
  <2>4. DetectorTypes'
    BY <1>0, <2>1, <2>3 DEF DetectorTypes, TapState, TimerKind
  <2>5. Consumed' <= Consumed + 1
    BY <2>1, <2>3 DEF Consumed, Reported, Held, Bit, DetectorTypes, Outcome, Idle
  <2> QED
    BY <2>4, <2>5
<1>4. CASE UNCHANGED <<state, combo, timer, reported>>
  <2>1. DetectorTypes'
    BY <1>0, <1>4 DEF DetectorTypes
  <2>2. Reported' = Reported /\ Held' = Held
    BY <1>4 DEF Reported, Held
  <2> QED
    BY <2>1, <2>2, ConsumedTypes DEF Consumed
<1> QED
  BY <1>1, <1>2, <1>3, <1>4 DEF OnKeyUp

\* Another key and the reset of the detector consume nothing.
LEMMA OtherKeyCounts ==
  ASSUME DetectorTypes, OnOtherKey \/ Reset
  PROVE  DetectorTypes' /\ Consumed' <= Consumed
<1>1. DetectorTypes'
  BY DEF DetectorTypes, OnOtherKey, Reset, Idle, TapState, TimerKind
<1>2. Reported' = Reported
  BY DEF OnOtherKey, Reset, Reported
<1>3. Held' <= Held
  BY DEF OnOtherKey, Reset, Idle, Held, Bit
<1>4. Held' \in {0, 1}
  BY DEF Held, Bit
<1> QED
  BY <1>1, <1>2, <1>3, <1>4, ConsumedTypes DEF Consumed

\* A timer reports at most the release that the detector holds.
LEMMA TimersCount ==
  ASSUME DetectorTypes,
         TimerElapses \/ OrphanElapses \/ OnHoldTimeout \/ OnDoubleTapTimeout
  PROVE  DetectorTypes' /\ Consumed' <= Consumed
<1>1. CASE TimerElapses \/ OrphanElapses
  <2>1. DetectorTypes'
    BY <1>1 DEF DetectorTypes, TimerElapses, OrphanElapses, TimerKind
  <2>2. Reported' = Reported /\ Held' = Held
    BY <1>1 DEF TimerElapses, OrphanElapses, Reported, Held
  <2> QED
    BY <2>1, <2>2, ConsumedTypes DEF Consumed
<1>2. CASE OnHoldTimeout
  <2>1. DetectorTypes'
    BY <1>2 DEF DetectorTypes, OnHoldTimeout, TimerKind, TapState
  <2>2. Reported' = Reported /\ Held' = Held
    BY <1>2 DEF OnHoldTimeout, Reported, Held, Bit
  <2> QED
    BY <2>1, <2>2, ConsumedTypes DEF Consumed
<1>3. CASE OnDoubleTapTimeout
  <2>1. due' \in [TimerKind -> Nat] /\ orphans' = orphans /\ Idle
    BY <1>3 DEF DetectorTypes, OnDoubleTapTimeout, WindowOpen, TimerKind
  <2>2. Held' \in Nat /\ Held' <= 0
    BY <2>1 DEF Idle, Held, Bit
  <2>3. CASE state = "RELEASED_1" /\ ~combo
    <3>1. Report("single") /\ "single" \in Outcome
      BY <1>3, <2>3 DEF OnDoubleTapTimeout, WindowOpen, Outcome
    <3>2. /\ reported' \in [Outcome -> Nat]
          /\ Reported \in Nat /\ Reported' \in Nat
          /\ Reported' <= Reported + 1
      BY <3>1, ReportCounts
    <3>3. DetectorTypes'
      BY <2>1, <3>2 DEF DetectorTypes, Idle, TapState, TimerKind
    <3>4. Consumed' <= Consumed
      BY <2>1, <2>3, <3>2
      DEF Consumed, Reported, Held, Bit, DetectorTypes, Outcome, Idle
    <3> QED
      BY <3>3, <3>4
  <2>4. CASE ~(state = "RELEASED_1" /\ ~combo)
    <3>1. reported' = reported
      BY <1>3, <2>4 DEF OnDoubleTapTimeout, WindowOpen
    <3>2. DetectorTypes'
      BY <2>1, <3>1 DEF DetectorTypes, Idle, TapState, TimerKind
    <3>3. Reported' = Reported
      BY <3>1 DEF Reported
    <3> QED
      BY <2>2, <3>2, <3>3, ConsumedTypes DEF Consumed
  <2> QED
    BY <2>3, <2>4
<1> QED
  BY <1>1, <1>2, <1>3

\* An event that reaches the detector accounts for one press more when it is a
\* release, and for none when it is not.
LEMMA DeliverCounts ==
  ASSUME DetectorTypes, NEW e \in Event, Deliver(e)
  PROVE  DetectorTypes' /\ Consumed' <= Consumed + Bit(e = "key.up")
<1>1. CASE UNCHANGED detector
  BY <1>1, ConsumedTypes
  DEF detector, DetectorTypes, Consumed, Reported, Held, Bit, Outcome
<1>2. CASE e = "key.down" /\ OnKeyDown
  <2>1. DetectorTypes' /\ Consumed' = Consumed
    BY <1>2, KeyDownCounts
  <2> QED
    BY <1>2, <2>1, ConsumedTypes DEF Bit
<1>3. CASE e = "key.up" /\ OnKeyUp
  BY <1>3, KeyUpCounts DEF Bit
<1>4. CASE e = "other_key" /\ OnOtherKey
  <2>1. DetectorTypes' /\ Consumed' <= Consumed
    BY <1>4, OtherKeyCounts
  <2> QED
    BY <1>4, <2>1, ConsumedTypes DEF Bit
<1> QED
  BY <1>1, <1>2, <1>3, <1>4 DEF Deliver

-----------------------------------------------------------------------------
(***************************************************************************)
(* Each step of the link keeps the types and the account of presses.       *)
(***************************************************************************)

\* The steps of the launcher keep the types.
LEMMA LauncherTypes ==
  ASSUME TypeOK,
         \/ Press \/ PressCombo \/ Release \/ OtherKey
         \/ Acknowledged \/ ConnectionFails \/ AckTimesOut
  PROVE  TypeOK'
<1> USE DEF TypeOK, Event, DetectorEvent, transit
<1>0. DetectorTypes'
  BY DEF Press, PressCombo, Release, OtherKey, Acknowledged, ConnectionFails,
         AckTimesOut, GiveUp, NeedsFallback, detector, DetectorTypes
<1>1. CASE Press
  <2>1. LinkTypes'
    <3>1. presses' \in 0..MaxPresses
      BY <1>1 DEF Press, SendIPCMessage, LinkTypes
    <3> QED
      BY <1>1, <3>1 DEF Press, SendIPCMessage, LinkTypes
  <2>2. OneWay'
    BY <1>1 DEF Press, SendIPCMessage, LinkTypes, OneWay
  <2> QED
    BY <1>0, <2>1, <2>2
<1>2. CASE PressCombo
  <2>1. LinkTypes'
    BY <1>2 DEF PressCombo, SendIPCMessage, history, LinkTypes
  <2>2. OneWay'
    BY <1>2 DEF PressCombo, SendIPCMessage, history, LinkTypes, OneWay
  <2> QED
    BY <1>0, <2>1, <2>2
<1>3. CASE Release
  <2>1. LinkTypes'
    <3>1. taps' \in Nat
      BY <1>3 DEF Release, LinkTypes
    <3>2. awaiting' \in Event \cup {"none"} /\ handled' \in BOOLEAN
      BY <1>3 DEF Release, SendIPCMessage, LinkTypes
    <3> QED
      BY <1>3, <3>1, <3>2 DEF Release, LinkTypes
  <2>2. OneWay'
    BY <1>3 DEF Release, SendIPCMessage, LinkTypes, OneWay
  <2> QED
    BY <1>0, <2>1, <2>2
<1>4. CASE OtherKey
  <2>1. LinkTypes'
    <3>1. others' \in 0..MaxOthers
      BY <1>4 DEF OtherKey, SendIPCMessage, LinkTypes
    <3> QED
      BY <1>4, <3>1 DEF OtherKey, SendIPCMessage, LinkTypes
  <2>2. OneWay'
    BY <1>4 DEF OtherKey, SendIPCMessage, LinkTypes, OneWay
  <2> QED
    BY <1>0, <2>1, <2>2
<1>5. CASE Acknowledged
  <2>1. LinkTypes'
    BY <1>5 DEF Acknowledged, ViaIPCAfterAck, history, LinkTypes
  <2>2. OneWay'
    BY <1>5 DEF Acknowledged, ViaIPCAfterAck, history, LinkTypes, OneWay
  <2> QED
    BY <1>0, <2>1, <2>2
<1>6. CASE ConnectionFails
  <2>1. LinkTypes'
    BY <1>6 DEF ConnectionFails, GiveUp, NeedsFallback, LinkTypes
  <2>2. OneWay'
    BY <1>6 DEF ConnectionFails, GiveUp, NeedsFallback, LinkTypes, OneWay
  <2> QED
    BY <1>0, <2>1, <2>2
<1>7. CASE AckTimesOut
  <2>1. LinkTypes'
    BY <1>7 DEF AckTimesOut, GiveUp, NeedsFallback, LinkTypes
  <2>2. OneWay'
    BY <1>7 DEF AckTimesOut, GiveUp, NeedsFallback, LinkTypes, OneWay
  <2> QED
    BY <1>0, <2>1, <2>2
<1> QED
  BY <1>1, <1>2, <1>3, <1>4, <1>5, <1>6, <1>7

\* The steps of the launcher: a release is outstanding for at most one of the
\* two ways in which a press reaches the engine.
LEMMA LauncherAccounts ==
  ASSUME TypeOK, Accounted,
         \/ Press \/ PressCombo \/ Release \/ OtherKey
         \/ Acknowledged \/ ConnectionFails \/ AckTimesOut
  PROVE  Accounted'
<1> USE DEF TypeOK, LinkTypes, OneWay, DetectorTypes, detector, Event, DetectorEvent,
            Accounted, Consumed, Reported, Held, Outstanding, Bit, Outcome, transit
<1>1. CASE Press
  BY <1>1 DEF Press, SendIPCMessage
<1>2. CASE PressCombo
  BY <1>2 DEF PressCombo, SendIPCMessage, history
<1>3. CASE Release
  BY <1>3 DEF Release, SendIPCMessage
<1>4. CASE OtherKey
  BY <1>4 DEF OtherKey, SendIPCMessage
<1>5. CASE Acknowledged
  BY <1>5 DEF Acknowledged, ViaIPCAfterAck, history
<1>6. CASE ConnectionFails
  BY <1>6 DEF ConnectionFails, GiveUp, NeedsFallback
<1>7. CASE AckTimesOut
  BY <1>7 DEF AckTimesOut, GiveUp, NeedsFallback
<1> QED
  BY <1>1, <1>2, <1>3, <1>4, <1>5, <1>6, <1>7

\* The steps of the engine: the detector gets releases that were outstanding.
LEMMA EngineAccounts ==
  ASSUME TypeOK, Accounted,
         \/ HandleEvent \/ TapPresses \/ TapReleases
         \/ \E e \in DetectorEvent : HandleLate(e)
         \/ EngineStarts \/ EngineStops \/ EngineGone \/ Timers
  PROVE  TypeOK' /\ Accounted'
<1>0. DetectorTypes
  BY DEF TypeOK
<1>1. CASE HandleEvent
  <2>0. awaiting \in Event /\ Deliver(awaiting)
    BY <1>1 DEF HandleEvent, TypeOK, LinkTypes
  <2>1. DetectorTypes' /\ Consumed' <= Consumed + Bit(awaiting = "key.up")
    BY <1>0, <2>0, DeliverCounts
  <2>2. LinkTypes'
    BY <1>1
    DEF HandleEvent, transit, history, TypeOK, LinkTypes, Event, DetectorEvent
  <2>3. OneWay'
    BY <1>1 DEF HandleEvent, transit, history, TypeOK, LinkTypes, OneWay
  <2>4. Accounted'
    BY <1>1, <2>1
    DEF HandleEvent, TypeOK, LinkTypes, DetectorTypes, Event, DetectorEvent,
        transit, history, Accounted, Consumed, Reported, Held, Outstanding, Bit,
        Outcome
  <2> QED
    BY <2>1, <2>2, <2>3, <2>4 DEF TypeOK
<1>2. CASE TapPresses
  <2>1. DetectorTypes' /\ Consumed' <= Consumed + Bit("key.down" = "key.up")
    BY <1>0, <1>2, DeliverCounts DEF TapPresses, Event
  <2>2. LinkTypes'
    <3>1. tapping' \in Nat
      BY <1>2 DEF TapPresses, Attached, TypeOK, LinkTypes
    <3> QED
      BY <1>2, <3>1 DEF TapPresses, launcher, history, TypeOK, LinkTypes
  <2>3. OneWay'
    BY <1>2 DEF TapPresses, launcher, history, TypeOK, LinkTypes, OneWay
  <2>4. Accounted'
    BY <1>2, <2>1
    DEF TapPresses, TypeOK, LinkTypes, DetectorTypes, Event, DetectorEvent,
        launcher, history, Accounted, Consumed, Reported, Held, Outstanding, Bit,
        Outcome
  <2> QED
    BY <2>1, <2>2, <2>3, <2>4 DEF TypeOK
<1>3. CASE TapReleases
  <2>1. DetectorTypes' /\ Consumed' <= Consumed + Bit("key.up" = "key.up")
    BY <1>0, <1>3, DeliverCounts DEF TapReleases, Event
  <2>2. LinkTypes'
    BY <1>3
    DEF TapReleases, launcher, history, TypeOK, LinkTypes, Event, DetectorEvent
  <2>3. OneWay'
    BY <1>3 DEF TapReleases, launcher, history, TypeOK, LinkTypes, OneWay
  <2>4. Accounted'
    BY <1>3, <2>1
    DEF TapReleases, TypeOK, LinkTypes, DetectorTypes, Event, DetectorEvent,
        launcher, history, Accounted, Consumed, Reported, Held, Outstanding, Bit,
        Outcome
  <2> QED
    BY <2>1, <2>2, <2>3, <2>4 DEF TypeOK
<1>4. ASSUME NEW e \in DetectorEvent, HandleLate(e)
      PROVE  TypeOK' /\ Accounted'
  <2>1. DetectorTypes' /\ Consumed' <= Consumed + Bit(e = "key.up")
    BY <1>0, <1>4, DeliverCounts DEF HandleLate, Event, DetectorEvent
  <2>2. LinkTypes'
    BY <1>4
    DEF HandleLate, launcher, history, TypeOK, LinkTypes, Event, DetectorEvent
  <2>3. OneWay'
    BY <1>4 DEF HandleLate, launcher, history, TypeOK, LinkTypes, OneWay
  <2>4. Accounted'
    BY <1>4, <2>1
    DEF HandleLate, TypeOK, LinkTypes, DetectorTypes, Event, DetectorEvent,
        launcher, history, Accounted, Consumed, Reported, Held, Outstanding, Bit,
        Outcome
  <2> QED
    BY <2>1, <2>2, <2>3, <2>4 DEF TypeOK
<1>5. CASE EngineStarts \/ EngineGone
  <2>1. DetectorTypes' /\ Consumed' = Consumed
    BY <1>0, <1>5
    DEF EngineStarts, EngineGone, detector, DetectorTypes, Consumed, Reported, Held,
        Bit
  <2>2. LinkTypes'
    BY <1>5
    DEF EngineStarts, EngineGone, launcher, history, transit, detector, TypeOK,
        LinkTypes, Event, DetectorEvent
  <2>3. OneWay'
    BY <1>5
    DEF EngineStarts, EngineGone, launcher, history, transit, detector, TypeOK,
        LinkTypes, OneWay
  <2>4. Accounted'
    BY <1>5, <2>1
    DEF EngineStarts, EngineGone, TypeOK, LinkTypes, DetectorTypes, Event,
        DetectorEvent, launcher, history, transit, detector, Accounted, Consumed,
        Reported, Held, Outstanding, Bit, Outcome
  <2> QED
    BY <2>1, <2>2, <2>3, <2>4 DEF TypeOK
<1>6. CASE EngineStops
  <2>1. DetectorTypes' /\ Consumed' <= Consumed
    BY <1>0, <1>6, OtherKeyCounts DEF EngineStops
  <2>2. LinkTypes'
    BY <1>6
    DEF EngineStops, launcher, history, transit, TypeOK, LinkTypes, Event,
        DetectorEvent
  <2>3. OneWay'
    BY <1>6 DEF EngineStops, launcher, history, transit, TypeOK, LinkTypes, OneWay
  <2>4. Accounted'
    BY <1>6, <2>1
    DEF EngineStops, TypeOK, LinkTypes, DetectorTypes, Event, DetectorEvent,
        launcher, history, transit, Accounted, Consumed, Reported, Held,
        Outstanding, Bit, Outcome
  <2> QED
    BY <2>1, <2>2, <2>3, <2>4 DEF TypeOK
<1>7. CASE Timers
  <2>1. DetectorTypes' /\ Consumed' <= Consumed
    BY <1>0, <1>7, TimersCount DEF Timers
  <2>2. LinkTypes'
    BY <1>7
    DEF Timers, launcher, history, transit, TypeOK, LinkTypes, Event, DetectorEvent
  <2>3. OneWay'
    BY <1>7 DEF Timers, launcher, history, transit, TypeOK, LinkTypes, OneWay
  <2>4. Accounted'
    BY <1>7, <2>1
    DEF Timers, TypeOK, LinkTypes, DetectorTypes, Event, DetectorEvent, launcher,
        history, transit, Accounted, Consumed, Reported, Held, Outstanding, Bit,
        Outcome
  <2> QED
    BY <2>1, <2>2, <2>3, <2>4 DEF TypeOK
<1> QED
  BY <1>1, <1>2, <1>3, <1>4, <1>5, <1>6, <1>7

\* What a step of the detector leaves waiting is timed.
LEMMA TimedSteps ==
  ASSUME DetectorTypes, WaitIsTimed,
         \/ OnKeyDown \/ OnKeyUp \/ OnOtherKey \/ Reset
         \/ TimerElapses \/ OrphanElapses \/ OnHoldTimeout \/ OnDoubleTapTimeout
         \/ UNCHANGED detector
  PROVE  WaitIsTimed'
<1> USE DEF WaitIsTimed, DetectorTypes, TapState, TimerKind, Idle
<1>1. CASE OnKeyDown
  BY <1>1 DEF OnKeyDown
<1>2. CASE OnKeyUp
  BY <1>2 DEF OnKeyUp
<1>3. CASE OnOtherKey \/ Reset
  BY <1>3 DEF OnOtherKey, Reset
<1>4. CASE TimerElapses
  BY <1>4 DEF TimerElapses
<1>5. CASE OrphanElapses
  BY <1>5 DEF OrphanElapses
<1>6. CASE OnHoldTimeout
  BY <1>6 DEF OnHoldTimeout
<1>7. CASE OnDoubleTapTimeout
  BY <1>7 DEF OnDoubleTapTimeout, WindowOpen
<1>8. CASE UNCHANGED detector
  BY <1>8 DEF detector
<1> QED
  BY <1>1, <1>2, <1>3, <1>4, <1>5, <1>6, <1>7, <1>8

\* Every step of the link is a step of the detector, or leaves it alone.
LEMMA DetectorSteps ==
  ASSUME [Next]_vars
  PROVE  \/ OnKeyDown \/ OnKeyUp \/ OnOtherKey \/ Reset
         \/ TimerElapses \/ OrphanElapses \/ OnHoldTimeout \/ OnDoubleTapTimeout
         \/ UNCHANGED detector
  BY DEF Next, vars, Press, PressCombo, Release, OtherKey, Acknowledged,
         ConnectionFails, AckTimesOut, GiveUp, NeedsFallback, HandleEvent,
         TapPresses, TapReleases, HandleLate, Deliver, EngineStarts, EngineStops,
         EngineGone, Timers

-----------------------------------------------------------------------------
\* The inductive invariant: the types, the account of presses, and that the
\* detector waits only for timers that are there.
THEOREM Inductive == Spec => []IInv
<1>1. Init => IInv
  <2> SUFFICES ASSUME Init PROVE IInv
    OBVIOUS
  <2> USE DEF Init, DetectorInit
  <2>1. DetectorTypes /\ WaitIsTimed
    BY DEF DetectorTypes, WaitIsTimed, TapState, TimerKind, Outcome
  <2>2. OneWay
    BY DEF OneWay
  <2>4. /\ presses \in 0..MaxPresses /\ others \in 0..MaxOthers
        /\ taps \in Nat /\ tapping \in Nat
        /\ late \in [DetectorEvent -> Nat]
    OBVIOUS
  <2>5. LinkTypes
    BY <2>4 DEF LinkTypes
  <2>3. Accounted
    BY DEF Accounted, Consumed, Reported, Held, Outstanding, Bit, Outcome,
           DetectorEvent, Event
  <2> QED
    BY <2>1, <2>2, <2>3, <2>5 DEF IInv, TypeOK
<1>2. IInv /\ [Next]_vars => IInv'
  <2> SUFFICES ASSUME IInv, [Next]_vars PROVE IInv'
    OBVIOUS
  <2>1. TypeOK /\ Accounted /\ WaitIsTimed /\ DetectorTypes
    BY DEF IInv, TypeOK
  <2>2. WaitIsTimed'
    BY <2>1, TimedSteps, DetectorSteps
  <2>3. CASE Next
    <3>1. TypeOK' /\ Accounted'
      BY <2>1, <2>3, LauncherTypes, LauncherAccounts, EngineAccounts DEF Next
    <3> QED
      BY <2>2, <3>1 DEF IInv
  <2>4. CASE UNCHANGED vars
    <3>1. TypeOK'
      BY <2>1, <2>4
      DEF vars, detector, launcher, transit, history, TypeOK, DetectorTypes,
          LinkTypes, OneWay
    <3>2. Accounted'
      BY <2>1, <2>4
      DEF vars, detector, launcher, transit, history, Accounted, Consumed,
          Reported, Held, Outstanding
    <3> QED
      BY <2>2, <3>1, <3>2 DEF IInv
  <2> QED
    BY <2>3, <2>4
<1> QED
  BY <1>1, <1>2, PTL DEF Spec

\* Every variable keeps its type, for every bound and every wiring.
THEOREM TypeCorrect == Spec => []TypeOK
<1>1. IInv => TypeOK
  BY DEF IInv
<1> QED
  BY <1>1, Inductive, PTL

\* However many events are late, lost or sent again as SIGUSR1, the callbacks
\* stand for no more presses than the user made.
THEOREM EachPressReportedOnce == Spec => []PressReportedOnce
<1>1. IInv => PressReportedOnce
  BY DEF IInv, TypeOK, DetectorTypes, LinkTypes, Accounted, Consumed, Outstanding,
         Held, Bit, Reported, PressReportedOnce, Outcome, Event, DetectorEvent
<1> QED
  BY <1>1, Inductive, PTL

\* The detector never waits for a timer that will not run.
THEOREM EveryWaitIsTimed == Spec => []WaitIsTimed
<1>1. IInv => WaitIsTimed
  BY DEF IInv
<1> QED
  BY <1>1, Inductive, PTL

-----------------------------------------------------------------------------
(***************************************************************************)
(* Presses with another key.                                               *)
(***************************************************************************)

\* Without a callback for holds, a release counts only where no other key was seen.
LEMMA ReleaseOfCombo ==
  ASSUME DetectorTypes, "hold" \notin Wired, OnKeyUp,
         combo \/ state \notin {"PRESSED_1", "PRESSED_2"}
  PROVE  Consumed' <= Consumed
<1>1. CASE state = "HOLD_ACTIVE"
  <2>1. Report("hold") /\ Idle
    BY <1>1 DEF OnKeyUp
  <2>2. Reported' = Reported /\ Held' = 0
    BY <2>1 DEF Report, Reported, Idle, Held, Bit
  <2> QED
    BY <2>2, ConsumedTypes DEF Consumed
<1>2. CASE state # "HOLD_ACTIVE"
  <2>1. Reported' = Reported
    BY <1>2 DEF OnKeyUp, Reported
  <2>2. Held' <= Held /\ Held' \in {0, 1}
    BY <1>2 DEF OnKeyUp, Idle, Held, Bit
  <2> QED
    BY <2>1, <2>2, ConsumedTypes DEF Consumed
<1> QED
  BY <1>1, <1>2

\* The launcher forwards a tap for every release that it sends.
LEMMA LauncherIsQuiet ==
  ASSUME TypeOK, QuietInv,
         \/ Press \/ PressCombo \/ Release \/ OtherKey
         \/ Acknowledged \/ ConnectionFails \/ AckTimesOut
  PROVE  QuietInv'
<1>1. CASE ConnectionFails \/ AckTimesOut
  BY <1>1 DEF ConnectionFails, AckTimesOut, GiveUp, QuietInv
<1>2. CASE ~(ConnectionFails \/ AckTimesOut)
  <2> SUFFICES ASSUME ~failed'
               PROVE  NothingLeftOver' /\ TouchedIsCombo' /\ TapsAccounted'
    BY DEF QuietInv
  <2>1. /\ UNCHANGED <<detector, transit, engine>> /\ failed' = failed
    BY <1>2 DEF Press, PressCombo, Release, OtherKey, Acknowledged, history
  <2>2. NothingLeftOver /\ TouchedIsCombo /\ TapsAccounted
    BY <2>1 DEF QuietInv
  <2>3. NothingLeftOver'
    BY <2>1, <2>2 DEF NothingLeftOver, transit
  <2>4. Consumed' = Consumed /\ Consumed \in Nat /\ taps \in Nat
    BY <2>1, ConsumedTypes DEF Consumed, Reported, Held, detector, TypeOK, LinkTypes
  <2>5. TouchedIsCombo'
    <3> USE <2>1, <2>2 DEF TouchedIsCombo, PressGoesOn, OtherKeyKnown, detector
    <3>1. CASE Press
      BY <3>1 DEF Press, SendIPCMessage, TypeOK, OneWay
    <3>2. CASE PressCombo
      BY <3>2 DEF PressCombo, SendIPCMessage
    <3>3. CASE Release
      BY <3>3 DEF Release, SendIPCMessage
    <3>4. CASE OtherKey
      BY <3>4 DEF OtherKey, SendIPCMessage
    <3>5. CASE Acknowledged
      <4>1. /\ handled /\ awaiting' = "none" /\ touched' = touched
            /\ viaIPC' = (viaIPC \/ awaiting = "key.down")
        BY <3>5 DEF Acknowledged, ViaIPCAfterAck, history
      <4>2. viaIPC \in BOOLEAN /\ touched \in BOOLEAN /\ handled \in BOOLEAN
        BY DEF TypeOK, LinkTypes
      <4>3. CASE awaiting = "key.down"
        BY <4>1, <4>2, <4>3
      <4>4. CASE awaiting # "key.down"
        BY <4>1, <4>2, <4>4
      <4> QED
        BY <4>3, <4>4
    <3> QED
      BY <1>2, <3>1, <3>2, <3>3, <3>4, <3>5
  <2>6. TapsAccounted'
    <3> USE <2>2, <2>4 DEF TapsAccounted, TapOnItsWay, Bit
    <3>1. CASE Press
      BY <3>1 DEF Press, SendIPCMessage
    <3>2. CASE PressCombo
      BY <3>2 DEF PressCombo, SendIPCMessage, history
    <3>3. CASE Release
      BY <3>3 DEF Release, SendIPCMessage
    <3>4. CASE OtherKey
      BY <3>4 DEF OtherKey, SendIPCMessage
    <3>5. CASE Acknowledged
      BY <3>5 DEF Acknowledged, history
    <3> QED
      BY <1>2, <3>1, <3>2, <3>3, <3>4, <3>5
  <2> QED
    BY <2>3, <2>5, <2>6
<1> QED
  BY <1>1, <1>2

\* The engine is told of the other key before the release, and reports no more taps
\* than were forwarded.
LEMMA EngineIsQuiet ==
  ASSUME TypeOK, QuietInv, "hold" \notin Wired,
         \/ HandleEvent \/ TapPresses \/ TapReleases
         \/ \E e \in DetectorEvent : HandleLate(e)
         \/ EngineStarts \/ EngineStops \/ EngineGone \/ Timers
  PROVE  QuietInv'
<1> SUFFICES ASSUME ~failed'
             PROVE  NothingLeftOver' /\ TouchedIsCombo' /\ TapsAccounted'
  BY DEF QuietInv
<1>1. UNCHANGED history
  BY DEF HandleEvent, TapPresses, TapReleases, HandleLate, EngineStarts, EngineStops,
         EngineGone, Timers
<1>2. NothingLeftOver /\ TouchedIsCombo /\ TapsAccounted
  BY <1>1 DEF QuietInv, history
<1>3. ~TapPresses /\ ~TapReleases /\ ~\E e \in DetectorEvent : HandleLate(e)
  BY <1>2 DEF NothingLeftOver, TapPresses, TapReleases, HandleLate
<1>4. DetectorTypes /\ taps \in Nat /\ Consumed \in Nat /\ awaiting \in Event \cup {"none"}
  BY ConsumedTypes DEF TypeOK, LinkTypes
<1>5. CASE HandleEvent
  <2>1. /\ awaiting \in Event /\ ~handled /\ handled' = TRUE /\ Deliver(awaiting)
        /\ UNCHANGED <<viaIPC, awaiting, transit, engine, touched, taps>>
    BY <1>1, <1>4, <1>5 DEF HandleEvent, history
  <2>2. NothingLeftOver'
    BY <1>2, <2>1 DEF NothingLeftOver, transit
  <2>3. TouchedIsCombo'
    <3> USE <1>2, <2>1 DEF TouchedIsCombo, PressGoesOn, OtherKeyKnown
    <3>1. CASE UNCHANGED detector
      <4>1. state' = state /\ combo' = combo
        BY <3>1 DEF detector
      <4>2. CASE Attached
        <5>1. awaiting = "key.combo" \/ OnKeyDown \/ OnKeyUp \/ OnOtherKey
          BY <4>2 DEF Deliver
        <5>2. CASE awaiting # "other_key"
          BY <4>1, <5>2
        <5>3. CASE awaiting = "other_key"
          <6>1. OnOtherKey
            BY <4>2, <5>3 DEF Deliver
          <6> QED
            BY <4>1, <5>3, <6>1 DEF OnOtherKey
        <5> QED
          BY <5>2, <5>3
      <4>3. CASE engine \in {"absent", "gone"}
        BY <4>1, <4>3
      <4> QED
        BY <4>2, <4>3 DEF Attached, TypeOK, LinkTypes
    <3>2. CASE Attached /\ awaiting = "key.down" /\ OnKeyDown
      BY <3>2 DEF Attached
    <3>3. CASE Attached /\ awaiting = "key.up" /\ OnKeyUp
      BY <3>3 DEF Attached, OnKeyUp, Idle
    <3>4. CASE Attached /\ awaiting = "other_key" /\ OnOtherKey
      BY <3>4 DEF Attached, OnOtherKey
    <3> QED
      BY <3>1, <3>2, <3>3, <3>4 DEF Deliver
  <2>4. TapsAccounted'
    <3>1. DetectorTypes' /\ Consumed' <= Consumed + Bit(awaiting = "key.up")
      BY <1>4, <2>1, DeliverCounts
    <3>2. Consumed' \in Nat
      BY <3>1, ConsumedTypes DEF DetectorTypes, Outcome, Consumed, Reported, Held, Bit
    <3>3. Bit(TapOnItsWay)' = 0 /\ taps' = taps
      BY <2>1 DEF TapOnItsWay, Bit
    <3>0. PICK b \in {0, 1} : b = Bit(TapOnItsWay) /\ Consumed + b <= taps
      BY <1>2 DEF TapsAccounted, Bit
    <3>4. CASE awaiting # "key.up" \/ ~touched
      <4>1. Bit(awaiting = "key.up") <= b
        BY <2>1, <3>0, <3>4 DEF TapOnItsWay, Bit
      <4>2. Bit(awaiting = "key.up") \in {0, 1}
        BY DEF Bit
      <4>3. Consumed' <= taps
        BY <1>4, <3>0, <3>1, <3>2, <4>1, <4>2
      <4> QED
        BY <3>2, <3>3, <4>3 DEF TapsAccounted
    <3>5. CASE awaiting = "key.up" /\ touched
      <4>1. UNCHANGED detector \/ (OnKeyUp /\ engine # "gone")
        BY <2>1, <3>5 DEF Deliver, Attached
      <4>2. CASE UNCHANGED detector
        <5>1. Consumed' = Consumed
          BY <4>2 DEF detector, Consumed, Reported, Held
        <5> QED
          BY <1>4, <3>0, <3>3, <5>1 DEF TapsAccounted
      <4>3. CASE OnKeyUp /\ engine # "gone"
        <5>1. combo \/ state \notin {"PRESSED_1", "PRESSED_2"}
          BY <1>2, <2>1, <3>5, <4>3 DEF TouchedIsCombo, PressGoesOn, OtherKeyKnown
        <5>2. Consumed' <= Consumed
          BY <1>4, <4>3, <5>1, ReleaseOfCombo
        <5>3. Consumed' <= taps
          BY <1>4, <3>0, <3>2, <5>2
        <5> QED
          BY <3>2, <3>3, <5>3 DEF TapsAccounted
      <4> QED
        BY <4>1, <4>2, <4>3
    <3> QED
      BY <3>4, <3>5
  <2> QED
    BY <2>2, <2>3, <2>4
<1>6. CASE EngineStarts \/ EngineStops \/ EngineGone \/ Timers
  <2>1. UNCHANGED <<launcher, transit>>
    BY <1>6 DEF EngineStarts, EngineStops, EngineGone, Timers
  <2>2. NothingLeftOver'
    BY <1>2, <2>1 DEF NothingLeftOver, transit
  <2>3. Consumed' <= Consumed /\ Consumed' \in Nat
    <3>1. CASE EngineStarts \/ EngineGone
      BY <1>4, <3>1 DEF EngineStarts, EngineGone, detector, Consumed, Reported, Held
    <3>2. CASE EngineStops \/ Timers
      <4>1. DetectorTypes' /\ Consumed' <= Consumed
        BY <1>4, <3>2, OtherKeyCounts, TimersCount DEF EngineStops, Timers
      <4> QED
        BY <4>1, ConsumedTypes DEF DetectorTypes, Outcome, Consumed, Reported, Held, Bit
    <3> QED
      BY <1>6, <3>1, <3>2
  <2>4. TapsAccounted'
    <3>1. TapOnItsWay' = TapOnItsWay /\ taps' = taps
      BY <1>1, <2>1 DEF TapOnItsWay, launcher, history
    <3>2. PICK b \in {0, 1} : b = Bit(TapOnItsWay) /\ Consumed + b <= taps
      BY <1>2 DEF TapsAccounted, Bit
    <3>3. Bit(TapOnItsWay)' = b
      BY <3>1, <3>2 DEF Bit
    <3> QED
      BY <1>4, <2>3, <3>1, <3>2, <3>3 DEF TapsAccounted
  <2>5. TouchedIsCombo'
    <3> USE <1>1, <1>2, <2>1
        DEF TouchedIsCombo, PressGoesOn, OtherKeyKnown, launcher, history
    <3>1. CASE EngineStarts \/ EngineGone
      BY <3>1 DEF EngineStarts, EngineGone, detector
    <3>2. CASE EngineStops
      BY <3>2 DEF EngineStops, Reset, Idle
    <3>3. CASE Timers
      BY <3>3 DEF Timers, TimerElapses, OrphanElapses, OnHoldTimeout, OnDoubleTapTimeout,
         Idle
    <3> QED
      BY <1>6, <3>1, <3>2, <3>3
  <2> QED
    BY <2>2, <2>4, <2>5
<1> QED
  BY <1>3, <1>5, <1>6

\* While events are acknowledged in time, a press with another key is part of no tap,
\* whatever stale timers run.  The engine gives the detector no callback for holds
\* (engine.py, TapDetector); with one, a key pressed during a hold would not undo it.
THEOREM CombosAreQuiet ==
  ASSUME "hold" \notin Wired
  PROVE  Spec => []ComboKeepsQuiet
<1>1. Init => QuietInv
  BY DEF Init, DetectorInit, QuietInv, NothingLeftOver, TouchedIsCombo, TapsAccounted,
         TapOnItsWay, PressGoesOn, Consumed, Reported, Held, Bit, Outcome
<1>2. TypeOK /\ QuietInv /\ [Next]_vars => QuietInv'
  <2> SUFFICES ASSUME TypeOK, QuietInv, [Next]_vars
               PROVE  QuietInv'
    OBVIOUS
  <2>1. CASE UNCHANGED vars
    BY <2>1 DEF vars, detector, launcher, transit, history, QuietInv, NothingLeftOver,
       TouchedIsCombo, TapsAccounted, TapOnItsWay, PressGoesOn, OtherKeyKnown, Consumed,
       Reported, Held
  <2> QED
    BY <2>1, LauncherIsQuiet, EngineIsQuiet DEF Next
<1>3. TypeOK /\ QuietInv => ComboKeepsQuiet
  <2> SUFFICES ASSUME TypeOK, QuietInv, ~failed
               PROVE  Reported <= taps
    BY DEF ComboKeepsQuiet
  <2>1. Reported \in Nat /\ Held \in {0, 1} /\ Consumed = Reported + Held
    BY ConsumedTypes DEF TypeOK
  <2>2. taps \in Nat /\ Consumed + Bit(TapOnItsWay) <= taps
    BY DEF QuietInv, TapsAccounted, TypeOK, LinkTypes
  <2> QED
    BY <2>1, <2>2 DEF Bit
<1> QED
  BY <1>1, <1>2, <1>3, TypeCorrect, PTL DEF Spec

-----------------------------------------------------------------------------
(***************************************************************************)
(* What becomes of a double tap: TextPath, from the tap to the agent.      *)
(***************************************************************************)
IsSeq(s) == \E S : s \in Seq(S)

IsInjection(i) ==
  /\ {"phase", "took", "out"} \subseteq DOMAIN i
  /\ i.took \in BOOLEAN
  /\ IsSeq(i.out)

\* What the threads and the keyboard agent work with.
Wellformed ==
  /\ armed \in Nat /\ pending \in BOOLEAN
  /\ raced \in BOOLEAN /\ IsSeq(sent) /\ IsSeq(typing)
  /\ inj = [th \in Thread |-> inj[th]]
  /\ \A th \in Thread : IsInjection(inj[th])

\* The place at the end of a sequence adds what stands there.
LEMMA OneMorePlace ==
  ASSUME NEW n \in Nat, NEW A \in SUBSET (1..n), NEW B \in SUBSET (1..(n + 1)), A = B \cap (1..n)
  PROVE  /\ Cardinality(A) \in Nat
         /\ Cardinality(B) = Cardinality(A) + (IF (n + 1) \in B THEN 1 ELSE 0)
<1>1. IsFiniteSet(1..n)
  BY FS_Interval
<1>2. IsFiniteSet(A) /\ Cardinality(A) \in Nat
  BY <1>1, FS_Subset, FS_CardinalityType
<1>3. (n + 1) \notin 1..n /\ \A k \in 1..(n + 1) : k \in 1..n \/ k = n + 1
  OBVIOUS
<1>4. CASE (n + 1) \in B
  <2>1. B = A \cup {n + 1} /\ (n + 1) \notin A
    BY <1>4, <1>3
  <2>2. Cardinality(A \cup {n + 1}) = Cardinality(A) + 1
    BY <1>2, <2>1, FS_AddElement
  <2> QED BY <1>2, <1>4, <2>1, <2>2
<1>5. CASE (n + 1) \notin B
  <2>1. B = A
    BY <1>5, <1>3
  <2> QED BY <1>2, <1>5, <2>1
<1> QED BY <1>4, <1>5

\* The places behind the head, each one further on.
LEMMA WithoutFirst ==
  ASSUME NEW n \in Nat \ {0}, NEW A \in SUBSET (1..n), NEW B \in SUBSET (1..(n - 1)),
         \A k \in 1..(n - 1) : k \in B <=> (k + 1) \in A
  PROVE  /\ Cardinality(B) \in Nat
         /\ Cardinality(A) = Cardinality(B) + (IF 1 \in A THEN 1 ELSE 0)
<1> DEFINE f == [k \in B |-> k + 1]
<1>1. IsFiniteSet(A) /\ Cardinality(A) \in Nat /\ IsFiniteSet(B) /\ Cardinality(B) \in Nat
  <2>1. IsFiniteSet(1..n) /\ IsFiniteSet(1..(n - 1))
    BY FS_Interval
  <2> QED BY <2>1, FS_Subset, FS_CardinalityType
<1>2. f \in Bijection(B, A \ {1})
  <2>1. f \in [B -> A \ {1}]
    <3>1. \A k \in B : k + 1 \in A \ {1}
      OBVIOUS
    <3> QED BY <3>1
  <2>2. \A j, k \in B : f[j] = f[k] => j = k
    OBVIOUS
  <2>3. ASSUME NEW a \in A \ {1} PROVE \E k \in B : f[k] = a
    <3>1. a - 1 \in 1..(n - 1) /\ (a - 1) + 1 = a
      OBVIOUS
    <3>2. a - 1 \in B
      BY <3>1
    <3> QED BY <3>1, <3>2
  <2>4. DOMAIN f = B
    OBVIOUS
  <2> HIDE DEF f
  <2> QED BY <2>1, <2>2, <2>3, <2>4, Zenon DEF Bijection, Injection, Surjection, IsInjective
<1>3. Cardinality(A \ {1}) = Cardinality(B)
  <2>1. ExistsBijection(B, A \ {1})
    BY <1>2, Zenon DEF ExistsBijection
  <2> QED BY <1>1, <2>1, FS_Bijection
<1>4. Cardinality(A \ {1}) = IF 1 \in A THEN Cardinality(A) - 1 ELSE Cardinality(A)
  BY <1>1, FS_RemoveElement
<1> QED BY <1>1, <1>3, <1>4

LEMMA SequenceEnds ==
  ASSUME NEW s, IsSeq(s)
  PROVE  /\ Len(s) \in Nat /\ DOMAIN s = 1..Len(s)
         /\ \A e : /\ IsSeq(Append(s, e)) /\ DOMAIN Append(s, e) = 1..(Len(s) + 1)
                  /\ \A k \in 1..Len(s) : Append(s, e)[k] = s[k]
                  /\ Append(s, e)[Len(s) + 1] = e
         /\ s # <<>> =>
              /\ IsSeq(Tail(s)) /\ Len(s) > 0 /\ Head(s) = s[1]
              /\ DOMAIN Tail(s) = 1..(Len(s) - 1)
              /\ \A k \in 1..(Len(s) - 1) : Tail(s)[k] = s[k + 1]
<1>1. PICK S : s \in Seq(S)
  BY DEF IsSeq
<1>2. Len(s) \in Nat /\ DOMAIN s = 1..Len(s)
  BY <1>1
<1>3. ASSUME NEW e
      PROVE  /\ IsSeq(Append(s, e)) /\ DOMAIN Append(s, e) = 1..(Len(s) + 1)
             /\ \A k \in 1..Len(s) : Append(s, e)[k] = s[k]
             /\ Append(s, e)[Len(s) + 1] = e
  <2>1. s \in Seq(S \cup {e})
    BY <1>1
  <2>2. Append(s, e) \in Seq(S \cup {e})
    BY <2>1
  <2> QED BY <2>1, <2>2 DEF IsSeq
<1>4. ASSUME s # <<>>
      PROVE  /\ IsSeq(Tail(s)) /\ Len(s) > 0 /\ Head(s) = s[1]
             /\ DOMAIN Tail(s) = 1..(Len(s) - 1)
             /\ \A k \in 1..(Len(s) - 1) : Tail(s)[k] = s[k + 1]
  <2>1. Tail(s) \in Seq(S)
    BY <1>1, <1>4
  <2> QED BY <1>1, <1>4, <2>1 DEF IsSeq
<1> QED BY <1>2, <1>3, <1>4

LEMMA TapsAdd ==
  ASSUME NEW s, IsSeq(s), NEW m
  PROVE  /\ TapsIn(s) \in Nat
         /\ TapsIn(Append(s, m)) = TapsIn(s) + One(m.ops = "tap")
<1> DEFINE A == {k \in DOMAIN s : s[k].ops = "tap"}
           B == {k \in DOMAIN Append(s, m) : Append(s, m)[k].ops = "tap"}
<1>1. /\ Len(s) \in Nat /\ DOMAIN s = 1..Len(s) /\ DOMAIN Append(s, m) = 1..(Len(s) + 1)
      /\ \A k \in 1..Len(s) : Append(s, m)[k] = s[k]
      /\ Append(s, m)[Len(s) + 1] = m
  BY SequenceEnds
<1>2. A \in SUBSET (1..Len(s)) /\ B \in SUBSET (1..(Len(s) + 1)) /\ A = B \cap (1..Len(s))
  BY <1>1
<1>3. (Len(s) + 1) \in B <=> m.ops = "tap"
  BY <1>1
<1> HIDE DEF A, B
<1>4. /\ Cardinality(A) \in Nat
      /\ Cardinality(B) = Cardinality(A) + (IF (Len(s) + 1) \in B THEN 1 ELSE 0)
  BY <1>1, <1>2, OneMorePlace
<1> QED BY <1>3, <1>4, Zenon DEF TapsIn, One, A, B

LEMMA TapsLose ==
  ASSUME NEW s, IsSeq(s), s # <<>>
  PROVE  /\ TapsIn(Tail(s)) \in Nat
         /\ TapsIn(s) = TapsIn(Tail(s)) + One(Head(s).ops = "tap")
<1> DEFINE A == {k \in DOMAIN s : s[k].ops = "tap"}
           B == {k \in DOMAIN Tail(s) : Tail(s)[k].ops = "tap"}
<1>1. /\ Len(s) \in Nat /\ DOMAIN s = 1..Len(s) /\ Len(s) > 0 /\ Head(s) = s[1]
      /\ DOMAIN Tail(s) = 1..(Len(s) - 1)
      /\ \A k \in 1..(Len(s) - 1) : Tail(s)[k] = s[k + 1]
  BY SequenceEnds
<1>2. /\ Len(s) \in Nat \ {0} /\ A \in SUBSET (1..Len(s)) /\ B \in SUBSET (1..(Len(s) - 1))
      /\ \A k \in 1..(Len(s) - 1) : k \in B <=> (k + 1) \in A
  BY <1>1
<1>3. 1 \in A <=> Head(s).ops = "tap"
  BY <1>1
<1> HIDE DEF A, B
<1>4. /\ Cardinality(B) \in Nat
      /\ Cardinality(A) = Cardinality(B) + (IF 1 \in A THEN 1 ELSE 0)
  BY <1>1, <1>2, WithoutFirst
<1> QED BY <1>3, <1>4, Zenon DEF TapsIn, One, A, B

LEMMA FewTaps ==
  /\ TapsIn(<<>>) = 0
  /\ \A s : IsSeq(s) => TapsIn(s) \in Nat
<1>1. TapsIn(<<>>) = 0
  <2>1. {k \in DOMAIN <<>> : <<>>[k].ops = "tap"} = {}
    OBVIOUS
  <2> QED BY <2>1, FS_EmptySet DEF TapsIn
<1> QED BY <1>1, TapsAdd

IsMessage(m) == "ops" \in DOMAIN m

\* The filters make no second submit of one: what they find is either the text or the
\* name of an agent, and only the text keeps the submit.
LEMMA FiltersKeepTap ==
  ASSUME NEW text, NEW ops, NEW b, NEW ids
  PROVE  LET out == Filters(Message(text, ops), b, ids)
         IN  /\ IsSeq(out)
             /\ TapsIn(out) <= One(ops = "tap")
<1> DEFINE m == Message(text, ops)
           heard == MuteFilter(m, b)
           addressed == AgentFilter(Head(heard), ids)
           out == Filters(m, b, ids)
<1>1. m = [text |-> text, ops |-> ops, switch |-> NoAgent, mute |-> "none"]
  BY DEF Message
<1>2. heard = <<>> \/ \E h : heard = <<h>> /\ IsMessage(h) /\ h.ops = ops
  <2> HIDE DEF m
  <2> DEFINE command(a) == [m EXCEPT !.text = <<>>, !.mute = a]
  <2>1. m.ops = ops /\ IsMessage(m)
    BY <1>1 DEF IsMessage
  <2>2. \A a : command(a).ops = ops /\ IsMessage(command(a))
    BY <2>1 DEF IsMessage
  <2>3. heard \in {<<>>, <<m>>, <<command("mute")>>, <<command("unmute")>>}
    BY DEF MuteFilter, m
  <2> HIDE DEF heard, command
  <2> QED BY <2>1, <2>2, <2>3
<1>3. CASE heard = <<>>
  <2>1. out = <<>>
    BY <1>3 DEF Filters
  <2>2. <<>> \in Seq({})
    OBVIOUS
  <2> QED BY <2>1, <2>2, FewTaps DEF IsSeq, One
<1>4. ASSUME NEW h, heard = <<h>>, IsMessage(h), h.ops = ops
      PROVE  IsSeq(out) /\ TapsIn(out) <= One(ops = "tap")
  <2>1. Head(heard) = h /\ heard # <<>>
    BY <1>4
  <2>2. out = [j \in 1..Len(addressed) |-> InputFilter(addressed[j])]
    BY <2>1 DEF Filters
  <2>3. PICK x, y : /\ addressed \in {<<x>>, <<x, y>>}
                    /\ IsMessage(x) /\ x.ops \in {ops, "none"}
                    /\ IsMessage(y) /\ y.ops = "none"
    <3> DEFINE found == AgentMatches(tokenize(h.text), ids)
               before == BeforeAgent(h.text, tokenize(h.text)[Min(found)])
               switch == [Message(<<>>, "none") EXCEPT !.switch =
                            _match_agent(tokenize(h.text)[Min(found) + 1], ids)]
               short == [h EXCEPT !.text = before]
    <3>1. addressed \in {<<h>>, <<switch>>, <<short, switch>>}
      BY <2>1, Zenon DEF AgentFilter
    <3>2. IsMessage(switch) /\ switch.ops = "none"
      BY DEF Message, IsMessage
    <3>3. IsMessage(short) /\ short.ops = ops
      BY <1>4 DEF IsMessage
    <3> HIDE DEF addressed, switch, short
    <3> QED BY <1>4, <3>1, <3>2, <3>3
  <2>4. \A z : IsMessage(z) => InputFilter(z).ops \in {z.ops, "voice"}
    BY DEF InputFilter, IsMessage
  <2> DEFINE submits == {k \in DOMAIN out : out[k].ops = "tap"}
             n == Len(addressed)
             filtered(k) == InputFilter(addressed[k])
  <2>5. n \in {1, 2} /\ addressed[1] = x /\ (n = 2 => addressed[2] = y)
    BY <2>3
  <2>6. /\ DOMAIN out = 1..n /\ \A k \in 1..n : out[k] = filtered(k)
    BY <2>2
  <2>7. IsSeq(out)
    <3>1. out \in Seq({filtered(k) : k \in 1..n})
      <4> HIDE DEF addressed, out, filtered
      <4> QED BY <2>2, <2>5 DEF filtered
    <3> QED BY <3>1 DEF IsSeq
  <2>8. \A k \in submits : k = 1 /\ ops = "tap"
    BY <2>3, <2>4, <2>5, <2>6
  <2> HIDE DEF submits
  <2>9. submits = {} \/ (submits = {1} /\ ops = "tap")
    BY <2>8
  <2>10. Cardinality(submits) <= One(ops = "tap")
    <3>1. CASE submits = {}
      <4>1. Cardinality(submits) = 0
        BY <3>1, FS_EmptySet
      <4> QED BY <4>1 DEF One
    <3>2. CASE submits = {1} /\ ops = "tap"
      <4>1. Cardinality(submits) = 1 /\ One(ops = "tap") = 1
        BY <3>2, FS_Singleton DEF One
      <4> QED BY <4>1
    <3> QED BY <2>9, <3>1, <3>2
  <2> QED BY <2>7, <2>10 DEF submits, TapsIn
<1> QED BY <1>2, <1>3, <1>4

\* The inductive invariant.
Good == Wellformed /\ SubmitsAccounted

\* What a step of one thread changes.
LEMMA Moved ==
  ASSUME Wellformed, NEW th \in Thread, NEW rec, Moves(th, rec), IsInjection(rec)
  PROVE  /\ inj' = [o \in Thread |-> inj'[o]]
         /\ \A o \in Thread : IsInjection(inj'[o])
         /\ inj'[th] = rec /\ \A o \in Thread \ {th} : inj'[o] = inj[o]
         /\ TapsInHand \in Nat /\ TapsInHand' \in Nat
         /\ TapsInHand' + TapsIn(inj[th].out) = TapsInHand + TapsIn(rec.out)
<1>1. inj' = [o \in Thread |-> IF o = th THEN rec ELSE inj[o]]
  BY DEF Moves, Wellformed
<1>2. inj'[th] = rec /\ \A o \in Thread : inj'[o] = IF o = th THEN rec ELSE inj[o]
  BY <1>1
<1>3. inj' = [o \in Thread |-> inj'[o]] /\ \A o \in Thread : IsInjection(inj'[o])
  BY <1>1, <1>2 DEF Wellformed
<1>4. /\ TapsIn(rec.out) \in Nat
      /\ \A o \in Thread : TapsIn(inj[o].out) \in Nat
  BY FewTaps DEF Wellformed, IsInjection
<1>5. /\ TapsIn(inj["controller"].out) \in Nat
      /\ TapsIn(inj["repeat"].out) \in Nat
      /\ TapsInHand = TapsIn(inj["controller"].out) + TapsIn(inj["repeat"].out)
      /\ TapsInHand' = TapsIn(inj'["controller"].out) + TapsIn(inj'["repeat"].out)
  BY <1>4, Zenon DEF TapsInHand, Thread
<1>6. CASE th = "controller"
  <2>1. inj'["controller"] = rec /\ inj'["repeat"] = inj["repeat"]
    BY <1>2, <1>6 DEF Thread
  <2> QED BY <1>2, <1>3, <1>4, <1>5, <1>6, <2>1
<1>7. CASE th = "repeat"
  <2>1. inj'["repeat"] = rec /\ inj'["controller"] = inj["controller"]
    BY <1>2, <1>7 DEF Thread
  <2> QED BY <1>2, <1>3, <1>4, <1>5, <1>7, <2>1
<1> QED BY <1>6, <1>7 DEF Thread

\* The keyboard agent's queue.
LEMMA QueuedAdd ==
  ASSUME NEW q, IsSeq(q), NEW m
  PROVE  /\ TapsQueued(q) \in Nat
         /\ TapsQueued(Append(q, m)) = TapsQueued(q) + One(m.given.ops = "tap")
<1> DEFINE A == {k \in DOMAIN q : q[k].given.ops = "tap"}
           B == {k \in DOMAIN Append(q, m) : Append(q, m)[k].given.ops = "tap"}
<1>1. /\ Len(q) \in Nat /\ DOMAIN q = 1..Len(q) /\ DOMAIN Append(q, m) = 1..(Len(q) + 1)
      /\ \A k \in 1..Len(q) : Append(q, m)[k] = q[k]
      /\ Append(q, m)[Len(q) + 1] = m
  BY SequenceEnds
<1>2. A \in SUBSET (1..Len(q)) /\ B \in SUBSET (1..(Len(q) + 1)) /\ A = B \cap (1..Len(q))
  BY <1>1
<1>3. (Len(q) + 1) \in B <=> m.given.ops = "tap"
  BY <1>1
<1> HIDE DEF A, B
<1>4. /\ Cardinality(A) \in Nat
      /\ Cardinality(B) = Cardinality(A) + (IF (Len(q) + 1) \in B THEN 1 ELSE 0)
  BY <1>1, <1>2, OneMorePlace
<1> QED BY <1>3, <1>4, Zenon DEF TapsQueued, One, A, B

LEMMA QueuedLose ==
  ASSUME NEW q, IsSeq(q), q # <<>>
  PROVE  TapsQueued(q) = TapsQueued(Tail(q)) + One(Head(q).given.ops = "tap")
<1> DEFINE A == {k \in DOMAIN q : q[k].given.ops = "tap"}
           B == {k \in DOMAIN Tail(q) : Tail(q)[k].given.ops = "tap"}
<1>1. /\ Len(q) \in Nat /\ DOMAIN q = 1..Len(q) /\ Len(q) > 0 /\ Head(q) = q[1]
      /\ DOMAIN Tail(q) = 1..(Len(q) - 1)
      /\ \A k \in 1..(Len(q) - 1) : Tail(q)[k] = q[k + 1]
  BY SequenceEnds
<1>2. /\ Len(q) \in Nat \ {0} /\ A \in SUBSET (1..Len(q)) /\ B \in SUBSET (1..(Len(q) - 1))
      /\ \A k \in 1..(Len(q) - 1) : k \in B <=> (k + 1) \in A
  BY <1>1
<1>3. 1 \in A <=> Head(q).given.ops = "tap"
  BY <1>1
<1> HIDE DEF A, B
<1>4. Cardinality(A) = Cardinality(B) + (IF 1 \in A THEN 1 ELSE 0)
  BY <1>1, <1>2, WithoutFirst
<1> QED BY <1>3, <1>4, Zenon DEF TapsQueued, One, A, B

\* The account in numbers.
LEMMA Numbers ==
  /\ \A s : IsSeq(s) => TapsIn(s) \in Nat
  /\ \A q : IsSeq(q) => TapsQueued(q) \in Nat
  /\ \A b : One(b) \in Nat
BY FewTaps, QueuedAdd DEF One

\* A step of a thread that has read the deferred submit: the submits it has and leaves.
LEMMA ThreadGoesOn ==
  ASSUME Good, NEW th \in Thread, NEW rec, Moves(th, rec), IsInjection(rec),
         rec.phase # "read",
         raced' = raced, armed' = armed, pending' \in BOOLEAN,
         (pending' = pending) \/ Took(th),
         IsSeq(sent'), IsSeq(typing'),
         ~raced =>
           TapsIn(sent') + TapsQueued(typing') + TapsIn(rec.out) + One(pending')
             <= TapsIn(sent) + TapsQueued(typing) + TapsIn(inj[th].out)
                  + One(pending)
  PROVE  Good'
<1>1. /\ inj' = [o \in Thread |-> inj'[o]]
      /\ \A o \in Thread : IsInjection(inj'[o])
      /\ inj'[th] = rec /\ \A o \in Thread \ {th} : inj'[o] = inj[o]
      /\ TapsInHand \in Nat /\ TapsInHand' \in Nat
      /\ TapsInHand' + TapsIn(inj[th].out) = TapsInHand + TapsIn(rec.out)
  BY Moved DEF Good
<1>2. Wellformed'
  BY <1>1 DEF Good, Wellformed
<1>3. \A o \in Thread : Took(o)' => Took(o) /\ o # th
  BY <1>1 DEF Took
<1>4. /\ TapsIn(sent) \in Nat /\ TapsQueued(typing) \in Nat
      /\ TapsIn(inj[th].out) \in Nat
      /\ TapsIn(sent') \in Nat /\ TapsQueued(typing') \in Nat
      /\ TapsIn(rec.out) \in Nat
      /\ One(pending) \in Nat /\ One(pending') \in Nat /\ armed \in Nat
  BY Numbers DEF Good, Wellformed, IsInjection
<1>5. /\ TapsSpent = TapsIn(sent) + TapsQueued(typing) + TapsInHand
                + One(pending)
      /\ TapsSpent' = TapsIn(sent') + TapsQueued(typing') + TapsInHand'
                + One(pending')
  BY Zenon DEF TapsSpent
<1>6. /\ TapsSpent \in Nat /\ TapsSpent' \in Nat
      /\ ~raced => TapsSpent' <= TapsSpent
  BY <1>1, <1>4, <1>5
<1>7. ASSUME ~raced
      PROVE  /\ \A o \in Thread : Took(o)' => pending'
             /\ \A o, u \in Thread : Took(o)' /\ Took(u)' => o = u
             /\ TapsSpent' <= armed'
  <2>1. /\ \A o \in Thread : Took(o) => pending
        /\ \A o, u \in Thread : Took(o) /\ Took(u) => o = u
        /\ TapsSpent <= armed
    BY <1>7 DEF Good, SubmitsAccounted
  <2> QED BY <1>3, <1>4, <1>6, <1>7, <2>1
<1>8. SubmitsAccounted'
  BY <1>7 DEF SubmitsAccounted
<1> QED BY <1>2, <1>8 DEF Good

LEMMA EmptyIsSeq == IsSeq(<<>>)
<1>1. <<>> \in Seq({})
  OBVIOUS
<1> QED BY <1>1 DEF IsSeq

\* A step of a thread that does nothing to the messages.
LEMMA ThreadAlone ==
  ASSUME Good, NEW th \in Thread, NEW rec, Moves(th, rec), IsInjection(rec),
         rec.phase # "read", rec.out = inj[th].out, UNCHANGED <<pending, typing, sent, armed,
         raced>>
  PROVE  Good'
<1>1. TapsIn(sent') + TapsQueued(typing') + TapsIn(rec.out) + One(pending')
        <= TapsIn(sent) + TapsQueued(typing) + TapsIn(inj[th].out)
                + One(pending)
  <2>1. /\ TapsIn(sent') = TapsIn(sent)
        /\ TapsQueued(typing') = TapsQueued(typing)
        /\ TapsIn(rec.out) = TapsIn(inj[th].out) /\ One(pending') = One(pending)
    BY Zenon
  <2>2. TapsIn(sent) \in Nat /\ TapsQueued(typing) \in Nat
        /\ TapsIn(inj[th].out) \in Nat
        /\ One(pending) \in Nat
    BY Numbers DEF Good, Wellformed, IsInjection
  <2> QED BY <2>1, <2>2
<1> QED BY <1>1, ThreadGoesOn DEF Good, Wellformed

LEMMA Untouched ==
  ASSUME Good, UNCHANGED <<pending, inj, typing, sent, armed, raced>>
  PROVE  Good'
BY DEF Good, Wellformed, SubmitsAccounted, TapsSpent, TapsInHand, Took

\* A double tap is deferred and counted, or sent as a submit of its own.
LEMMA TapCounts ==
  ASSUME Good, DoubleTap
  PROVE  Good'
<1>1. UNCHANGED <<inj, typing, raced>>
  BY DEF DoubleTap
<1>2. /\ TapsIn(sent) \in Nat /\ TapsQueued(typing) \in Nat /\ TapsInHand \in Nat
      /\ One(pending) \in Nat /\ armed \in Nat
  <2>1. TapsIn(inj["controller"].out) \in Nat /\ TapsIn(inj["repeat"].out) \in Nat
    BY Numbers DEF Good, Wellformed, IsInjection, Thread
  <2> QED BY <2>1, Numbers DEF Good, Wellformed, TapsInHand
<1>3. /\ TapsSpent = TapsIn(sent) + TapsQueued(typing) + TapsInHand
                + One(pending)
      /\ TapsSpent' = TapsIn(sent') + TapsQueued(typing) + TapsInHand
                + One(pending')
  BY <1>1, Zenon DEF TapsSpent, TapsInHand
<1>4. CASE pending' = TRUE /\ armed' = armed + 1 /\ UNCHANGED sent
  <2>1. One(pending') <= One(pending) + 1
    BY <1>4 DEF One
  <2>2. TapsSpent' <= TapsSpent + 1 /\ TapsSpent \in Nat /\ TapsSpent' \in Nat
    <3>1. One(pending') \in Nat /\ TapsIn(sent') = TapsIn(sent)
      BY <1>4, Numbers
    <3> QED BY <1>2, <1>3, <2>1, <3>1
  <2>3. Wellformed'
    BY <1>1, <1>4 DEF Good, Wellformed
  <2>4. SubmitsAccounted'
    <3>1. TapsSpent' \in Nat /\ (TapsSpent <= armed => TapsSpent' <= armed')
      BY <1>2, <1>4, <2>2
    <3>2. \A th \in Thread : Took(th)' <=> Took(th)
      BY <1>1 DEF Took
    <3> QED BY <1>1, <1>4, <3>1, <3>2 DEF Good, SubmitsAccounted
  <2> QED BY <2>3, <2>4 DEF Good
<1>5. CASE UNCHANGED <<pending, armed, sent>>
  BY <1>1, <1>5, Untouched
<1>6. CASE /\ sent' = Append(sent, Given(current, Message(Nothing, "auto"),
                                              Resting))
           /\ UNCHANGED <<pending, armed>>
  <2>1. Given(current, Message(Nothing, "auto"), Resting).ops = "auto"
    BY DEF Given, Message
  <2>2. IsSeq(sent') /\ TapsIn(sent') = TapsIn(sent)
    BY <1>2, <1>6, <2>1, TapsAdd, SequenceEnds DEF Good, Wellformed, One
  <2>3. Wellformed'
    BY <1>1, <1>6, <2>2 DEF Good, Wellformed
  <2>4. TapsSpent' = TapsSpent
    BY <1>3, <1>6, <2>2
  <2>5. SubmitsAccounted'
    BY <1>1, <1>6, <2>4 DEF Good, SubmitsAccounted, Took
  <2> QED BY <2>3, <2>5 DEF Good
<1> QED BY <1>4, <1>5, <1>6 DEF DoubleTap

\* A thread that begins reads the deferred submit, and nobody else has read it unless
\* it is raced.
LEMMA BeginsCounts ==
  ASSUME Good, NEW th \in Thread, NEW text, NEW to, Begins(th, text, to),
         UNCHANGED <<pending, typing, sent, armed>>
  PROVE  Good'
<1> DEFINE rec == [Resting EXCEPT !.phase = "read", !.text = text, !.to = to, !.took = pending]
<1>1. /\ Moves(th, rec)
      /\ raced' = (raced \/ (pending /\ \E o \in Thread : Took(o)))
  BY DEF Begins, Took
<1>2. /\ rec.phase = "read" /\ rec.took = pending /\ rec.out = <<>>
      /\ {"phase", "took", "out"} \subseteq DOMAIN rec
  BY DEF Resting, Nothing
<1> HIDE DEF rec
<1>3. IsInjection(rec) /\ TapsIn(rec.out) = 0
  <2>1. <<>> \in Seq({})
    OBVIOUS
  <2> QED BY <1>2, <2>1, FewTaps DEF IsInjection, IsSeq, Good, Wellformed
<1>4. /\ inj' = [o \in Thread |-> inj'[o]]
      /\ \A o \in Thread : IsInjection(inj'[o])
      /\ inj'[th] = rec /\ \A o \in Thread \ {th} : inj'[o] = inj[o]
      /\ TapsInHand \in Nat /\ TapsInHand' \in Nat
      /\ TapsInHand' + TapsIn(inj[th].out) = TapsInHand + TapsIn(rec.out)
  BY <1>1, <1>3, Moved DEF Good
<1>5. Wellformed'
  BY <1>1, <1>4 DEF Good, Wellformed
<1>6. /\ TapsIn(sent) \in Nat /\ TapsQueued(typing) \in Nat
      /\ TapsIn(inj[th].out) \in Nat
      /\ One(pending) \in Nat /\ armed \in Nat
  BY Numbers DEF Good, Wellformed, IsInjection
<1>7. /\ TapsSpent = TapsIn(sent) + TapsQueued(typing) + TapsInHand
                + One(pending)
      /\ TapsSpent' = TapsIn(sent) + TapsQueued(typing) + TapsInHand'
                + One(pending)
  BY Zenon DEF TapsSpent
<1>8. TapsSpent \in Nat /\ TapsSpent' \in Nat /\ TapsSpent' <= TapsSpent
  BY <1>3, <1>4, <1>6, <1>7
<1>9. ASSUME ~raced'
      PROVE  /\ \A o \in Thread : Took(o)' => pending'
             /\ \A o, u \in Thread : Took(o)' /\ Took(u)' => o = u
             /\ TapsSpent' <= armed'
  <2>1. ~raced /\ (pending => \A o \in Thread : ~Took(o))
    BY <1>1, <1>9
  <2>2. /\ \A o \in Thread : Took(o) => pending
        /\ \A o, u \in Thread : Took(o) /\ Took(u) => o = u
        /\ TapsSpent <= armed
    BY <2>1 DEF Good, SubmitsAccounted
  <2>3. \A o \in Thread : Took(o)' <=> IF o = th THEN pending ELSE Took(o)
    BY <1>2, <1>4 DEF Took, Good, Wellformed
  <2> QED BY <1>6, <1>8, <2>1, <2>2, <2>3
<1>10. SubmitsAccounted'
  BY <1>9 DEF SubmitsAccounted
<1> QED BY <1>5, <1>10 DEF Good

\* The one that read it clears it, and has it in its message, or in none.
LEMMA PreparesCounts ==
  ASSUME Good, NEW th \in Thread, Prepares(th)
  PROVE  Good'
<1> DEFINE i == inj[th]
           ops == IF i.took THEN "tap" ELSE IF left.auto THEN "auto" ELSE "newline"
           out == Filters(Message(i.text, ops), muted, registered \ {Keyboard})
           rec == [i EXCEPT !.phase = "filtered", !.ids = registered \ {Keyboard}, !.out = out]
<1>1. /\ i.phase = "read" /\ Moves(th, rec) /\ pending' = (IF i.took THEN FALSE ELSE pending)
      /\ UNCHANGED <<typing, sent, armed, raced>>
  BY DEF Prepares, ClearSubmit
<1>2. IsInjection(i) /\ pending \in BOOLEAN
  BY DEF Good, Wellformed
<1>3. IsSeq(out) /\ TapsIn(out) <= One(ops = "tap") /\ (ops = "tap" <=> i.took)
  <2>1. ops = "tap" <=> i.took
    BY <1>2 DEF IsInjection
  <2> HIDE DEF ops, i
  <2> QED BY <2>1, FiltersKeepTap
<1> HIDE DEF out, ops, i
<1>4. IsInjection(rec) /\ rec.phase # "read" /\ rec.out = out
  BY <1>2, <1>3 DEF IsInjection
<1>5. /\ TapsIn(sent) \in Nat /\ TapsQueued(typing) \in Nat /\ TapsIn(out) \in Nat
      /\ TapsIn(i.out) \in Nat
  BY <1>2, <1>3, Numbers DEF Good, Wellformed, IsInjection
<1>6. ~raced => TapsIn(out) + One(pending') <= TapsIn(i.out) + One(pending)
  <2>1. CASE i.took
    <3>1. Took(th)
      BY <1>1, <2>1 DEF Took, i
    <3>2. ~raced => pending
      BY <3>1 DEF Good, SubmitsAccounted
    <3> QED BY <1>1, <1>3, <1>5, <2>1, <3>2 DEF One
  <2>2. CASE ~i.took
    BY <1>1, <1>2, <1>3, <1>5, <2>2 DEF One
  <2> QED BY <2>1, <2>2
<1>7. pending' \in BOOLEAN /\ (pending' = pending \/ Took(th))
  BY <1>1, <1>2 DEF Took, i, IsInjection
<1>8. One(pending) \in Nat /\ One(pending') \in Nat
  BY DEF One
<1>9. ~raced =>
        TapsIn(sent') + TapsQueued(typing') + TapsIn(rec.out) + One(pending')
          <= TapsIn(sent) + TapsQueued(typing) + TapsIn(i.out) + One(pending)
  <2>1. /\ TapsIn(sent') = TapsIn(sent)
        /\ TapsQueued(typing') = TapsQueued(typing)
        /\ TapsIn(rec.out) = TapsIn(out)
    BY <1>1, <1>4, Zenon
  <2> QED BY <1>5, <1>6, <1>8, <2>1
<1> HIDE DEF rec
<1> QED BY <1>1, <1>4, <1>7, <1>9, ThreadGoesOn DEF i, Good, Wellformed

\* The executors take no submit and add none.
LEMMA ExecutesCounts ==
  ASSUME Good, NEW th \in Thread, Executes(th)
  PROVE  Good'
<1> DEFINE i == inj[th]
           rec == [i EXCEPT !.phase = "ready", !.to = IF @ = NoAgent THEN current' ELSE @]
<1>1. Moves(th, rec) /\ UNCHANGED <<pending, typing, sent, armed, raced>>
  BY Zenon DEF Executes
<1>2. IsInjection(i)
  BY DEF Good, Wellformed
<1>3. IsInjection(rec) /\ rec.phase # "read" /\ rec.out = i.out
  BY <1>2 DEF IsInjection
<1> HIDE DEF rec
<1> QED BY <1>1, <1>3, ThreadAlone

LEMMA LockCounts ==
  ASSUME Good, NEW th \in Thread, TakesLock(th) \/ Answered(th)
  PROVE  Good'
<1> DEFINE i == inj[th]
           rec == [i EXCEPT !.phase = "sending"]
<1>1. Moves(th, rec) /\ UNCHANGED <<pending, typing, sent, armed, raced>>
  BY DEF TakesLock, Answered, GoesOn
<1>2. IsInjection(i)
  BY DEF Good, Wellformed
<1>3. IsInjection(rec) /\ rec.phase # "read" /\ rec.out = i.out
  BY <1>2 DEF IsInjection
<1> HIDE DEF rec
<1> QED BY <1>1, <1>3, ThreadAlone

LEMMA ReturnsCounts ==
  ASSUME Good, NEW th \in Thread, Returns(th)
  PROVE  Good'
<1>1. Moves(th, Resting) /\ inj[th].out = <<>>
      /\ UNCHANGED <<pending, typing, sent, armed, raced>>
  BY DEF Returns, Nothing
<1>2. IsInjection(Resting) /\ Resting.phase # "read" /\ Resting.out = <<>>
  BY EmptyIsSeq DEF Resting, Nothing, IsInjection
<1> QED BY <1>1, <1>2, ThreadAlone

\* The first message goes to the keyboard agent's queue, to an agent, or nowhere.
LEMMA SendsCounts ==
  ASSUME Good, NEW th \in Thread, Sends(th)
  PROVE  Good'
<1> DEFINE i == inj[th]
           m == Head(i.out)
           rest == [i EXCEPT !.out = Tail(@)]
           waiting == [rest EXCEPT !.phase = "waiting"]
           typed == [from |-> th, given |-> Given(Keyboard, m, i)]
<1>1. /\ i.phase = "sending" /\ i.out # <<>>
      /\ UNCHANGED <<pending, armed, raced>>
      /\ \/ typing' = Append(typing, typed) /\ UNCHANGED sent /\ Moves(th, waiting)
         \/ UNCHANGED <<typing, sent>> /\ Moves(th, rest)
         \/ sent' = Append(sent, Given(i.to, m, i)) /\ UNCHANGED typing /\ Moves(th, rest)
  BY Zenon DEF Sends, Nothing
<1>2. IsInjection(i)
  BY DEF Good, Wellformed
<1>3. IsSeq(Tail(i.out)) /\ TapsIn(i.out) = TapsIn(Tail(i.out)) + One(m.ops = "tap")
  BY <1>1, <1>2, TapsLose, SequenceEnds DEF IsInjection
<1>4. /\ IsInjection(rest) /\ rest.phase # "read" /\ rest.out = Tail(i.out)
      /\ IsInjection(waiting) /\ waiting.phase # "read" /\ waiting.out = Tail(i.out)
  BY <1>1, <1>2, <1>3 DEF IsInjection
<1>5. typed.given.ops = m.ops /\ Given(i.to, m, i).ops = m.ops
  BY DEF Given
<1>6. /\ IsSeq(sent) /\ IsSeq(typing) /\ pending \in BOOLEAN
      /\ IsSeq(Append(sent, Given(i.to, m, i))) /\ IsSeq(Append(typing, typed))
  BY SequenceEnds DEF Good, Wellformed
<1> HIDE DEF m, rest, waiting, typed
<1>7. /\ TapsIn(Append(sent, Given(i.to, m, i))) = TapsIn(sent)
                + One(m.ops = "tap")
      /\ TapsQueued(Append(typing, typed)) = TapsQueued(typing) + One(m.ops = "tap")
  BY <1>5, <1>6, TapsAdd, QueuedAdd
<1>8. /\ TapsIn(sent) \in Nat /\ TapsQueued(typing) \in Nat
      /\ TapsIn(Tail(i.out)) \in Nat
      /\ One(pending) \in Nat /\ One(m.ops = "tap") \in Nat
  BY <1>3, <1>6, Numbers
<1>9. PICK rec \in {rest, waiting} :
        /\ Moves(th, rec) /\ IsSeq(sent') /\ IsSeq(typing')
        /\ TapsIn(sent') + TapsQueued(typing')
             <= TapsIn(sent) + TapsQueued(typing) + One(m.ops = "tap")
        /\ TapsIn(sent') \in Nat /\ TapsQueued(typing') \in Nat
  <2>1. CASE typing' = Append(typing, typed) /\ UNCHANGED sent /\ Moves(th, waiting)
    BY <1>6, <1>7, <1>8, <2>1
  <2>2. CASE UNCHANGED <<typing, sent>> /\ Moves(th, rest)
    BY <1>6, <1>8, <2>2
  <2>3. CASE sent' = Append(sent, Given(i.to, m, i)) /\ UNCHANGED typing
               /\ Moves(th, rest)
    BY <1>6, <1>7, <1>8, <2>3
  <2> QED BY <1>1, <2>1, <2>2, <2>3
<1>10. IsInjection(rec) /\ rec.phase # "read" /\ TapsIn(rec.out) = TapsIn(Tail(i.out))
  BY <1>4
<1>11. TapsIn(sent') + TapsQueued(typing') + TapsIn(rec.out) + One(pending')
         <= TapsIn(sent) + TapsQueued(typing) + TapsIn(i.out) + One(pending)
  <2>1. One(pending') = One(pending)
    BY <1>1, Zenon
  <2> QED BY <1>3, <1>8, <1>9, <1>10, <2>1
<1> QED BY <1>1, <1>6, <1>9, <1>10, <1>11, ThreadGoesOn

\* A message that timed out stays in the queue, from nobody.
LEMMA TimesOutCounts ==
  ASSUME Good, NEW th \in Thread, TimesOut(th)
  PROVE  Good'
<1> DEFINE i == inj[th]
           rec == [i EXCEPT !.phase = "sending"]
           forgotten(k) == IF typing[k].from = th THEN [typing[k] EXCEPT !.from = "nobody"]
                           ELSE typing[k]
<1>1. /\ Moves(th, rec) /\ UNCHANGED <<pending, sent, armed, raced>>
      /\ typing' = [k \in DOMAIN typing |-> forgotten(k)]
  BY DEF TimesOut, GoesOn
<1>2. IsInjection(i) /\ IsSeq(typing) /\ IsSeq(sent) /\ pending \in BOOLEAN
  BY DEF Good, Wellformed
<1>3. IsInjection(rec) /\ rec.phase # "read" /\ rec.out = i.out
  BY <1>2 DEF IsInjection
<1>4. Len(typing) \in Nat /\ DOMAIN typing = 1..Len(typing)
  BY <1>2, SequenceEnds
<1>5. IsSeq(typing')
  <2>1. typing' \in Seq({forgotten(k) : k \in 1..Len(typing)})
    <3> HIDE DEF forgotten
    <3> QED BY <1>1, <1>4
  <2> QED BY <2>1 DEF IsSeq
<1>6. TapsQueued(typing') = TapsQueued(typing)
  <2>1. \A k \in DOMAIN typing : typing'[k].given.ops = typing[k].given.ops
    BY <1>1
  <2>2. DOMAIN typing' = DOMAIN typing
    BY <1>1
  <2>3. {k \in DOMAIN typing' : typing'[k].given.ops = "tap"}
          = {k \in DOMAIN typing : typing[k].given.ops = "tap"}
    BY <2>1, <2>2
  <2> QED BY <2>3, Zenon DEF TapsQueued
<1>7. TapsIn(sent') + TapsQueued(typing') + TapsIn(rec.out) + One(pending')
        <= TapsIn(sent) + TapsQueued(typing) + TapsIn(i.out) + One(pending)
  <2>1. /\ TapsIn(sent') = TapsIn(sent) /\ One(pending') = One(pending)
        /\ TapsIn(rec.out) = TapsIn(i.out)
    BY <1>1, <1>3, Zenon
  <2>2. TapsIn(sent) \in Nat /\ TapsQueued(typing) \in Nat
        /\ TapsIn(i.out) \in Nat /\ One(pending) \in Nat
    BY <1>2, Numbers DEF IsInjection
  <2> QED BY <1>6, <2>1, <2>2
<1> HIDE DEF rec
<1> QED BY <1>1, <1>2, <1>3, <1>5, <1>7, ThreadGoesOn

\* The worker types a message, or fails to.
LEMMA WorkerCounts ==
  ASSUME Good, WorkerTypes
  PROVE  Good'
<1> DEFINE m == Head(typing).given
<1>1. /\ typing # <<>> /\ typing' = Tail(typing) /\ sent' \in {sent, Append(sent, m)}
      /\ UNCHANGED <<pending, inj, armed, raced>>
  BY DEF WorkerTypes, Nothing
<1>2. IsSeq(sent) /\ IsSeq(typing)
  BY DEF Good, Wellformed
<1>3. IsSeq(typing') /\ TapsQueued(typing) = TapsQueued(typing') + One(m.ops = "tap")
  BY <1>1, <1>2, QueuedLose, SequenceEnds
<1> HIDE DEF m
<1>4. /\ IsSeq(sent') /\ TapsIn(sent) \in Nat /\ TapsIn(sent') \in Nat
      /\ TapsIn(sent') <= TapsIn(sent) + One(m.ops = "tap")
  <2>1. IsSeq(Append(sent, m)) /\ TapsIn(Append(sent, m)) = TapsIn(sent)
                  + One(m.ops = "tap")
    BY <1>2, TapsAdd, SequenceEnds
  <2>2. TapsIn(sent) \in Nat /\ One(m.ops = "tap") \in Nat
    BY <1>2, Numbers
  <2>3. CASE sent' = sent
    BY <1>2, <2>2, <2>3
  <2>4. CASE sent' = Append(sent, m)
    <3>1. IsSeq(sent') /\ TapsIn(sent') = TapsIn(sent) + One(m.ops = "tap")
      BY <2>1, <2>4
    <3> QED BY <2>2, <3>1
  <2> QED BY <1>1, <2>3, <2>4
<1>5. Wellformed'
  BY <1>1, <1>3, <1>4 DEF Good, Wellformed
<1>6. /\ TapsSpent = TapsIn(sent) + TapsQueued(typing) + TapsInHand
                + One(pending)
      /\ TapsSpent' = TapsIn(sent') + TapsQueued(typing') + TapsInHand
                + One(pending)
  BY <1>1, Zenon DEF TapsSpent, TapsInHand
<1>7. /\ TapsQueued(typing) \in Nat /\ TapsQueued(typing') \in Nat
      /\ One(m.ops = "tap") \in Nat
      /\ TapsInHand \in Nat /\ One(pending) \in Nat /\ armed \in Nat
  <2>1. TapsIn(inj["controller"].out) \in Nat /\ TapsIn(inj["repeat"].out) \in Nat
    BY Numbers DEF Good, Wellformed, IsInjection, Thread
  <2> QED BY <1>2, <1>3, <2>1, Numbers DEF Good, Wellformed, TapsInHand
<1>8. TapsSpent' <= TapsSpent /\ TapsSpent \in Nat /\ TapsSpent' \in Nat
  BY <1>3, <1>4, <1>6, <1>7
<1>9. SubmitsAccounted'
  <2>1. \A th \in Thread : Took(th)' <=> Took(th)
    BY <1>1 DEF Took
  <2> QED BY <1>1, <1>7, <1>8, <2>1 DEF Good, SubmitsAccounted
<1> QED BY <1>5, <1>9 DEF Good

-----------------------------------------------------------------------------
LEMMA NoTapYet == PathInit => Good
<1> SUFFICES ASSUME PathInit PROVE Good
  OBVIOUS
<1>1. /\ armed = 0 /\ pending = FALSE /\ raced = FALSE /\ sent = <<>> /\ typing = <<>>
      /\ inj = [th \in Thread |-> Resting]
  BY DEF PathInit, Nothing
<1>2. Resting.phase = "idle" /\ Resting.took = FALSE /\ Resting.out = <<>>
      /\ IsInjection(Resting)
  BY EmptyIsSeq DEF Resting, Nothing, IsInjection
<1>3. \A th \in Thread : inj[th] = Resting
  BY <1>1
<1>4. Wellformed
  BY <1>1, <1>2, <1>3, EmptyIsSeq DEF Wellformed
<1>5. TapsSpent = 0
  <2>1. TapsQueued(<<>>) = 0
    <3>1. {k \in DOMAIN <<>> : <<>>[k].given.ops = "tap"} = {}
      OBVIOUS
    <3> QED BY <3>1, FS_EmptySet DEF TapsQueued
  <2>2. inj["controller"].out = <<>> /\ inj["repeat"].out = <<>>
    BY <1>2, <1>3 DEF Thread
  <2> QED BY <1>1, <2>1, <2>2, FewTaps DEF TapsSpent, TapsInHand, One
<1>6. SubmitsAccounted
  BY <1>1, <1>2, <1>3, <1>5 DEF SubmitsAccounted, Took
<1> QED BY <1>4, <1>6 DEF Good

LEMMA StepCounts == Good /\ [PathNext]_pathVars => Good'
<1> SUFFICES ASSUME Good, [PathNext]_pathVars PROVE Good'
  OBVIOUS
<1>1. CASE SpeechStarts \/ SpeechEnds \/ Mutes \/ Leaves
             \/ Transcribes \/ UNCHANGED pathVars
  <2>1. UNCHANGED <<pending, inj, typing, sent, armed, raced>>
    BY <1>1 DEF SpeechStarts, SpeechEnds, Mutes, Leaves, Transcribes,
       pathVars
  <2> QED BY <2>1, Untouched
<1>2. CASE Transcribed
  <2>1. /\ Begins("controller", Head(queue).text, Head(queue).to)
        /\ UNCHANGED <<pending, typing, sent, armed>>
    BY <1>2 DEF Transcribed
  <2> QED BY <2>1, BeginsCounts DEF Thread
<1>3. CASE resend_last
  <2>1. Begins("repeat", last, NoAgent) /\ UNCHANGED <<pending, typing, sent, armed>>
    BY <1>3 DEF resend_last
  <2> QED BY <2>1, BeginsCounts DEF Thread
<1>4. ASSUME NEW th \in Thread, Step(th)
      PROVE  Good'
  BY <1>4, PreparesCounts, ExecutesCounts, LockCounts, SendsCounts, ReturnsCounts, TimesOutCounts
     DEF Step
<1> QED BY <1>1, <1>2, <1>3, <1>4, TapCounts, WorkerCounts DEF PathNext

\* However many double submits, texts, repeats and time-outs of the keyboard there are,
\* and whatever the triggers find in the texts: a double tap that was deferred submits
\* one message at most, unless both threads read it at the same time.
THEOREM OneTapSubmitsOnce == PathSpec => []OneTapOneSubmit
<1>1. Good => OneTapOneSubmit
  <2> SUFFICES ASSUME Good, ~raced PROVE TapsIn(sent) + One(pending) <= armed
    BY DEF OneTapOneSubmit
  <2>1. /\ TapsIn(sent) \in Nat /\ TapsQueued(typing) \in Nat /\ One(pending) \in Nat
        /\ TapsIn(inj["controller"].out) \in Nat /\ TapsIn(inj["repeat"].out) \in Nat
        /\ armed \in Nat
    BY Numbers DEF Good, Wellformed, IsInjection, Thread
  <2>2. TapsSpent <= armed
    BY DEF Good, SubmitsAccounted
  <2> QED BY <2>1, <2>2 DEF TapsSpent, TapsInHand
<1> QED BY <1>1, NoTapYet, StepCounts, PTL DEF PathSpec
-----------------------------------------------------------------------------
(***************************************************************************)
(* The matcher.  What it finds is defined by recursion, over the slots of  *)
(* a trigger, the words of a text and the powers of 0.95: the lemmas build *)
(* these functions step by step, by the least step that fails.             *)
(***************************************************************************)
\* Every set of numbers has a least one.
LEMMA Least ==
  ASSUME NEW T \in SUBSET Nat, T # {}
  PROVE  \E m \in T : \A k \in T : m <= k
<1> DEFINE U == {1..m : m \in T}
<1>1. U \subseteq FiniteSubsetsOf(Nat)
  <2> SUFFICES ASSUME NEW m \in T PROVE 1..m \in FiniteSubsetsOf(Nat)
    OBVIOUS
  <2>1. IsFiniteSet(1..m)
    BY FS_Interval
  <2> QED
    BY <2>1 DEF FiniteSubsetsOf
<1>2. U # {}
  OBVIOUS
<1>3. IsWellFoundedOn(StrictSubsetOrdering(Nat), FiniteSubsetsOf(Nat))
  BY FS_StrictSubsetOrderingWellFounded
<1>4. \E x \in U : \A y \in U : <<y, x>> \notin StrictSubsetOrdering(Nat)
  <2> HIDE DEF U
  <2> QED
    BY <1>1, <1>2, <1>3, WFMin, Zenon
<1>5. PICK m \in T : \A k \in T : <<1..k, 1..m>> \notin StrictSubsetOrdering(Nat)
  BY <1>4
<1>6. ASSUME NEW k \in T, k < m PROVE FALSE
  <2>1. m \in 1..m /\ m \notin 1..k
    BY <1>6
  <2>2. <<1..k, 1..m>> \in StrictSubsetOrdering(Nat)
    BY <1>6, <2>1 DEF StrictSubsetOrdering
  <2> QED
    BY <1>5, <2>2
<1> QED
  BY <1>6

LEMMA UpTo ==
  ASSUME NEW n \in Nat, NEW G, 0 \in G, \A m \in 0..(n - 1) : m \in G => m + 1 \in G
  PROVE  0..n \subseteq G
<1> SUFFICES ASSUME (0..n) \ G # {} PROVE FALSE
  OBVIOUS
<1>1. PICK m \in (0..n) \ G : \A k \in (0..n) \ G : m <= k
  <2>1. (0..n) \ G \in SUBSET Nat
    OBVIOUS
  <2> QED
    BY <2>1, Least
<1>2. m - 1 \in 0..(n - 1) /\ m - 1 \in G
  BY <1>1
<1> QED
  BY <1>1, <1>2

LEMMA Greatest ==
  ASSUME NEW n \in Nat, NEW T \in SUBSET (0..n), T # {}
  PROVE  Max(T) \in T /\ \A k \in T : k <= Max(T)
<1> DEFINE D == {n - k : k \in T}
<1>0. \A k \in T : k \in 0..n /\ n - k \in Nat
  OBVIOUS
<1>1. D \in SUBSET Nat /\ D # {}
  BY <1>0
<1>2. PICK m \in D : \A k \in D : m <= k
  <2> HIDE DEF D
  <2> QED
    BY <1>1, Least
<1>3. PICK x \in T : m = n - x
  OBVIOUS
<1>4. \A k \in T : k <= x
  BY <1>0, <1>2, <1>3
<1>5. \A y \in T : (\A k \in T : k <= y) <=> (\A k \in T : y >= k)
  BY <1>0
<1> QED
  BY <1>4, <1>5 DEF Max

LEMMA Smallest ==
  ASSUME NEW T \in SUBSET Nat, T # {}
  PROVE  Min(T) \in T /\ \A k \in T : Min(T) <= k
BY Least DEF Min

\* The powers of 0.95, each made of the one before.
Powers(f, n) ==
  /\ f[0] = Full
  /\ \A k \in 1..n : f[k] = (f[k - 1] * 95) \div 100

LEMMA PowersExist ==
  ASSUME NEW n \in Nat
  PROVE  \E f \in [Nat -> Nat] : Powers(f, n)
<1> DEFINE G == {m \in Nat : \E f \in [Nat -> Nat] : Powers(f, m)}
<1>1. 0 \in G
  <2>1. [k \in Nat |-> Full] \in [Nat -> Nat] /\ Powers([k \in Nat |-> Full], 0)
    BY DEF Powers, Full
  <2> QED
    BY <2>1
<1>2. ASSUME NEW m \in 0..(n - 1), m \in G PROVE m + 1 \in G
  <2>1. PICK f \in [Nat -> Nat] : Powers(f, m)
    BY <1>2
  <2> DEFINE p == (f[m] * 95) \div 100
             g == [f EXCEPT ![m + 1] = p]
  <2>2. m \in Nat /\ f[m] \in Nat
    OBVIOUS
  <2>3. p \in Nat
    BY <2>2
  <2>4. g \in [Nat -> Nat] /\ g[m + 1] = p /\ \A k \in Nat : k # m + 1 => g[k] = f[k]
    BY <2>2, <2>3
  <2> HIDE DEF g
  <2>5. ASSUME NEW k \in 1..(m + 1) PROVE g[k] = (g[k - 1] * 95) \div 100
    <3>1. CASE k = m + 1
      <4>1. k - 1 = m /\ m # m + 1
        BY <3>1
      <4> QED
        BY <3>1, <4>1, <2>2, <2>4
    <3>2. CASE k # m + 1
      <4>1. k \in 1..m /\ k - 1 \in Nat /\ k \in Nat /\ k - 1 # m + 1
        BY <3>2
      <4> QED
        BY <3>2, <4>1, <2>1, <2>4 DEF Powers
    <3> QED
      BY <3>1, <3>2
  <2>6. g[0] = Full
    BY <2>1, <2>2, <2>4 DEF Powers
  <2> QED
    BY <2>2, <2>4, <2>5, <2>6 DEF Powers
<1> HIDE DEF G
<1>3. n \in G
  BY <1>1, <1>2, UpTo
<1> QED
  BY <1>3 DEF G

LEMMA PowersAgree ==
  ASSUME NEW n \in Nat, NEW f, NEW g, Powers(f, n), Powers(g, n)
  PROVE  \A k \in 0..n : f[k] = g[k]
<1> DEFINE G == {k \in 0..n : f[k] = g[k]}
<1>1. 0 \in G
  BY DEF Powers
<1>2. ASSUME NEW m \in 0..(n - 1), m \in G PROVE m + 1 \in G
  <2>1. m + 1 \in 1..n /\ m + 1 \in 0..n /\ (m + 1) - 1 = m
    OBVIOUS
  <2> QED
    BY <2>1, <1>2 DEF Powers
<1> HIDE DEF G
<1>3. 0..n \subseteq G
  BY <1>1, <1>2, UpTo
<1> QED
  BY <1>3 DEF G

LEMMA DecayTypes == Decay \in [Nat -> Nat] /\ Decay[0] = Full
<1> DEFINE Solves(f) == f = [k \in Nat |-> IF k = 0 THEN Full ELSE (f[k - 1] * 95) \div 100]
           power(n) == CHOOSE f \in [Nat -> Nat] : Powers(f, n)
           d == [n \in Nat |-> power(n)[n]]
<1>1. \A n \in Nat : power(n) \in [Nat -> Nat] /\ Powers(power(n), n)
  <2> SUFFICES ASSUME NEW n \in Nat PROVE power(n) \in [Nat -> Nat] /\ Powers(power(n), n)
    OBVIOUS
  <2>1. \E f \in [Nat -> Nat] : Powers(f, n)
    BY PowersExist
  <2> QED
    BY <2>1, Zenon
<1> HIDE DEF power
<1>2. d \in [Nat -> Nat] /\ \A n \in Nat : d[n] = power(n)[n]
  BY <1>1
<1> HIDE DEF d
<1>3. d[0] = Full
  BY <1>1, <1>2 DEF Powers
<1>4. ASSUME NEW n \in Nat, n # 0 PROVE d[n] = (d[n - 1] * 95) \div 100
  <2>1. n - 1 \in Nat /\ n \in 1..n /\ n - 1 \in 0..(n - 1)
    BY <1>4
  <2>2. Powers(power(n), n - 1)
    <3>1. Powers(power(n), n) /\ \A k \in 1..(n - 1) : k \in 1..n
      BY <1>1
    <3> QED
      BY <3>1 DEF Powers
  <2>3. Powers(power(n - 1), n - 1)
    BY <1>1, <2>1
  <2>4. power(n)[n - 1] = power(n - 1)[n - 1]
    BY <2>1, <2>2, <2>3, PowersAgree
  <2>5. power(n)[n] = (power(n)[n - 1] * 95) \div 100
    BY <1>1, <2>1 DEF Powers
  <2> QED
    BY <1>2, <2>1, <2>4, <2>5
<1>5. Solves(d)
  <2>1. \A k \in Nat : d[k] = IF k = 0 THEN Full ELSE (d[k - 1] * 95) \div 100
    BY <1>3, <1>4
  <2>2. d = [k \in Nat |-> d[k]]
    BY <1>2
  <2> QED
    BY <2>1, <2>2
<1>6. Decay = CHOOSE f : Solves(f)
  BY DEF Decay
<1>7. Solves(Decay)
  <2> HIDE DEF Solves
  <2> QED
    BY <1>5, <1>6
<1>8. \A k \in Nat : Decay[k] = IF k = 0 THEN Full ELSE (Decay[k - 1] * 95) \div 100
  BY <1>7
<1>9. ASSUME NEW n \in Nat PROVE Decay[n] \in Nat
  <2>1. Powers(Decay, n)
    <3>1. \A k \in 1..n : k \in Nat /\ k # 0
      OBVIOUS
    <3>2. Decay[0] = Full
      BY <1>8
    <3>3. \A k \in 1..n : Decay[k] = (Decay[k - 1] * 95) \div 100
      BY <1>8, <3>1
    <3> QED
      BY <3>2, <3>3 DEF Powers
  <2>2. Powers(power(n), n) /\ power(n)[n] \in Nat
    BY <1>1
  <2>3. Decay[n] = power(n)[n]
    BY <2>1, <2>2, PowersAgree
  <2> QED
    BY <2>2, <2>3
<1>10. Decay = [k \in Nat |-> Decay[k]]
  BY <1>7
<1> QED
  BY <1>8, <1>9, <1>10
-----------------------------------------------------------------------------
\* The places of the slots, from the last one.
Limit(tokens, n, place, k) == IF k = n THEN Len(tokens) + 1 ELSE place[k + 1]
Found(tokens, slots, n, place, k) ==
  Nearest({i \in 1..(Limit(tokens, n, place, k) - 1) : tokens[i] \in slots[k]})

LEMMA NearestIs ==
  ASSUME NEW N \in Nat, NEW T \in SUBSET (1..N)
  PROVE  /\ Nearest(T) \in 0..N
         /\ T = {} => Nearest(T) = 0
         /\ T # {} => Nearest(T) \in T /\ \A k \in T : k <= Nearest(T)
<1>1. CASE T = {}
  BY <1>1 DEF Nearest
<1>2. CASE T # {}
  <2>1. T \in SUBSET (0..N)
    OBVIOUS
  <2>2. Max(T) \in T /\ \A k \in T : k <= Max(T)
    BY <1>2, <2>1, Greatest
  <2>3. Nearest(T) = Max(T)
    BY <1>2 DEF Nearest
  <2>4. Nearest(T) \in T /\ Nearest(T) \in 0..N
    BY <2>1, <2>2, <2>3
  <2> QED
    BY <1>2, <2>2, <2>3, <2>4
<1> QED
  BY <1>1, <1>2

LEMMA PlacesAre ==
  ASSUME NEW tokens, NEW slots, Len(tokens) \in Nat, Len(slots) \in Nat
  PROVE  /\ Places(tokens, slots) \in [1..Len(slots) -> 0..Len(tokens)]
         /\ \A k \in 1..Len(slots) :
              Places(tokens, slots)[k] = Found(tokens, slots, Len(slots), Places(tokens, slots), k)
<1> DEFINE N == Len(tokens)
           n == Len(slots)
           Until(f, m) == \A k \in (n - m + 1)..n : f[k] = Found(tokens, slots, n, f, k)
           Solves(f) == f = [k \in 1..n |-> Found(tokens, slots, n, f, k)]
           G == {m \in 0..n : \E f \in [1..n -> 0..N] : Until(f, m)}
<1>0. N \in Nat /\ n \in Nat
  OBVIOUS
<1>1. 0 \in G
  <2>1. [k \in 1..n |-> 0] \in [1..n -> 0..N] /\ 0 \in 0..n
    OBVIOUS
  <2>2. \A f : Until(f, 0)
    OBVIOUS
  <2> QED
    BY <2>1, <2>2
<1>2. ASSUME NEW f, NEW k \in 1..n, k # n => f[k + 1] \in 0..N
      PROVE  Found(tokens, slots, n, f, k) \in 0..N
  <2>1. Limit(tokens, n, f, k) \in 0..(N + 1)
    <3>1. CASE k = n
      BY <3>1 DEF Limit
    <3>2. CASE k # n
      BY <3>2, <1>2 DEF Limit
    <3> QED
      BY <3>1, <3>2
  <2>2. {i \in 1..(Limit(tokens, n, f, k) - 1) : tokens[i] \in slots[k]} \in SUBSET (1..N)
    <3>1. \A i \in 1..(Limit(tokens, n, f, k) - 1) : i \in 1..N
      BY <2>1
    <3> QED
      BY <3>1
  <2> QED
    BY <2>2, NearestIs DEF Found
<1>3. ASSUME NEW f, NEW g, NEW k \in 1..n, k # n => f[k + 1] = g[k + 1]
      PROVE  Found(tokens, slots, n, f, k) = Found(tokens, slots, n, g, k)
  BY <1>3 DEF Found, Limit
<1>4. ASSUME NEW m \in 0..(n - 1), m \in G PROVE m + 1 \in G
  <2>1. PICK f \in [1..n -> 0..N] : Until(f, m)
    BY <1>4
  <2> DEFINE x == n - m
             p == Found(tokens, slots, n, f, x)
             g == [f EXCEPT ![x] = p]
  <2>2. x \in 1..n /\ p \in 0..N /\ m + 1 \in 0..n /\ n - (m + 1) + 1 = x
    <3>1. x \in 1..n /\ m + 1 \in 0..n /\ n - (m + 1) + 1 = x
      OBVIOUS
    <3>2. x # n => x + 1 \in 1..n /\ x + 1 \in (n - m + 1)..n
      <4>1. \A a, b \in Nat : b \in 0..(a - 1) /\ a - b # a => a - b + 1 \in 1..a /\ a - b + 1 \in (a - b + 1)..a
        OBVIOUS
      <4> QED
        BY <4>1, <1>0
    <3> QED
      BY <3>1, <3>2, <1>2
  <2>3. g \in [1..n -> 0..N] /\ g[x] = p /\ \A k \in 1..n : k # x => g[k] = f[k]
    BY <2>2
  <2> HIDE DEF g
  <2>4. ASSUME NEW k \in x..n PROVE g[k] = Found(tokens, slots, n, g, k)
    <3>0. k \in 1..n /\ (k # n => k + 1 \in 1..n /\ k + 1 # x)
      <4>1. \A y \in 1..n : \A j \in y..n : j \in 1..n /\ (j # n => j + 1 \in 1..n /\ j + 1 # y)
        BY <1>0
      <4> HIDE DEF x
      <4> QED
        BY <4>1, <2>2
    <3>1. Found(tokens, slots, n, f, k) = Found(tokens, slots, n, g, k)
      BY <3>0, <2>3, <1>3
    <3>2. CASE k = x
      BY <3>1, <3>2, <2>3
    <3>3. CASE k # x
      <4>1. k \in (n - m + 1)..n
        <5>1. \A a, b \in Nat : b \in 0..(a - 1) => \A j \in (a - b)..a : j # a - b => j \in (a - b + 1)..a
          OBVIOUS
        <5> QED
          BY <3>3, <5>1, <1>0
      <4> QED
        BY <4>1, <3>0, <3>1, <3>3, <2>1, <2>3
    <3> QED
      BY <3>2, <3>3
  <2>5. Until(g, m + 1)
    BY <2>2, <2>4
  <2> HIDE DEF Until
  <2> QED
    BY <2>2, <2>3, <2>5
<1> HIDE DEF G
<1>5. n \in G
  <2>1. 0..n \subseteq G
    BY <1>0, <1>1, <1>4, UpTo
  <2> QED
    BY <2>1, <1>0
<1>6. PICK f \in [1..n -> 0..N] : Until(f, n)
  BY <1>5 DEF G
<1>7. \A k \in 1..n : f[k] = Found(tokens, slots, n, f, k)
  <2>1. n - n + 1 = 1
    OBVIOUS
  <2> QED
    BY <2>1, <1>6
<1>8. Solves(f)
  <2>1. f = [k \in 1..n |-> f[k]]
    BY <1>6
  <2> QED
    BY <2>1, <1>7
<1>9. Places(tokens, slots) = CHOOSE g : Solves(g)
  BY DEF Places, Found, Limit
<1>10. Solves(Places(tokens, slots))
  <2> HIDE DEF Solves
  <2> QED
    BY <1>8, <1>9
<1> DEFINE ps == Places(tokens, slots)
<1> HIDE DEF ps
<1>11. /\ \A k \in 1..n : ps[k] = Found(tokens, slots, n, ps, k)
       /\ ps = [k \in 1..n |-> ps[k]]
  BY <1>10 DEF ps
<1>12. \A k \in 1..n : ps[k] \in 0..N
  <2> DEFINE H == {j \in 0..n : \A k \in (n - j + 1)..n : ps[k] \in 0..N}
  <2>1. 0 \in H
    BY <1>0
  <2>2. ASSUME NEW j \in 0..(n - 1), j \in H PROVE j + 1 \in H
    <3>1. /\ n - j \in 1..n /\ j + 1 \in 0..n
          /\ n - (j + 1) + 1 = n - j /\ (n - j # n => n - j + 1 \in (n - j + 1)..n)
      BY <1>0
    <3>2. ps[n - j] \in 0..N
      BY <2>2, <3>1, <1>2, <1>11
    <3>3. \A k \in (n - j)..n : k = n - j \/ k \in (n - j + 1)..n
      BY <1>0
    <3> QED
      BY <2>2, <3>1, <3>2, <3>3
  <2> HIDE DEF H
  <2>3. n \in H
    <3>1. 0..n \subseteq H
      BY <1>0, <2>1, <2>2, UpTo
    <3> QED
      BY <3>1, <1>0
  <2>4. n - n + 1 = 1
    BY <1>0
  <2> QED
    BY <2>3, <2>4 DEF H
<1>13. ps \in [1..n -> 0..N]
  BY <1>11, <1>12
<1> QED
  BY <1>11, <1>13 DEF ps

\* Slots that are found stand one after the other ...
LEMMA PlacesApart ==
  ASSUME NEW tokens, NEW slots, Len(tokens) \in Nat, Len(slots) \in Nat \ {0},
         Places(tokens, slots)[1] # 0
  PROVE  LET ps == Places(tokens, slots)
             n == Len(slots)
         IN  /\ ps[1] \in 1..Len(tokens) /\ ps[n] \in 1..Len(tokens)
             /\ ps[n] - ps[1] >= n - 1
<1> DEFINE N == Len(tokens)
           n == Len(slots)
           ps == Places(tokens, slots)
           H == {j \in 0..(n - 1) : ps[j + 1] # 0 /\ ps[j + 1] - ps[1] >= j}
<1>1. /\ ps \in [1..n -> 0..N]
      /\ \A k \in 1..n : ps[k] = Found(tokens, slots, n, ps, k)
  BY PlacesAre
<1>0. ps[1] # 0
  OBVIOUS
<1> HIDE DEF ps
<1>2. N \in Nat /\ n \in Nat /\ n >= 1
  OBVIOUS
<1>3. 0 \in H
  BY <1>0, <1>1, <1>2
<1>4. ASSUME NEW j \in 0..((n - 1) - 1), j \in H PROVE j + 1 \in H
  <2>1. /\ j + 1 \in 1..n /\ (j + 1) + 1 \in 1..n /\ j + 1 # n /\ j + 1 \in 0..(n - 1) /\ 1 \in 1..n
    BY <1>2
  <2>2. ps[j + 1] \in 0..N /\ ps[(j + 1) + 1] \in 0..N /\ ps[1] \in 0..N
    BY <1>1, <2>1
  <2> DEFINE T == {i \in 1..(ps[(j + 1) + 1] - 1) : tokens[i] \in slots[j + 1]}
  <2>3. ps[j + 1] = Nearest(T)
    BY <1>1, <2>1 DEF Found, Limit
  <2>4. T \in SUBSET (1..N) /\ \A i \in T : i < ps[(j + 1) + 1]
    BY <1>2, <2>2
  <2> HIDE DEF T
  <2>5. ps[j + 1] \in T
    BY <1>4, <2>3, <2>4, NearestIs, <1>2
  <2>6. ps[j + 1] < ps[(j + 1) + 1] /\ ps[j + 1] - ps[1] >= j
    BY <2>4, <2>5, <1>4
  <2> QED
    BY <2>1, <2>2, <2>6
<1> HIDE DEF H
<1>5. n - 1 \in H
  <2>1. 0..(n - 1) \subseteq H
    <3>1. n - 1 \in Nat
      BY <1>2
    <3> QED
      BY <3>1, <1>3, <1>4, UpTo
  <2> QED
    BY <2>1, <1>2
<1>6. ps[n] # 0 /\ ps[n] - ps[1] >= n - 1
  <2>1. (n - 1) + 1 = n
    BY <1>2
  <2> QED
    BY <2>1, <1>5 DEF H
<1>7. ps[1] \in 1..N /\ ps[n] \in 1..N
  BY <1>0, <1>1, <1>2, <1>6
<1> QED
  BY <1>6, <1>7 DEF ps

\* ... and at the end of the text, one behind the other, when it ends with them.
LEMMA PlacesAtEnd ==
  ASSUME NEW tokens, NEW slots, Len(tokens) \in Nat, Len(slots) \in 1..Len(tokens),
         \A k \in 1..Len(slots) : tokens[Len(tokens) - Len(slots) + k] \in slots[k]
  PROVE  \A k \in 1..Len(slots) : Places(tokens, slots)[k] = Len(tokens) - Len(slots) + k
<1> DEFINE N == Len(tokens)
           n == Len(slots)
           ps == Places(tokens, slots)
           H == {j \in 0..(n - 1) : ps[n - j] = N - j}
<1>1. /\ ps \in [1..n -> 0..N]
      /\ \A k \in 1..n : ps[k] = Found(tokens, slots, n, ps, k)
  BY PlacesAre
<1> HIDE DEF ps
<1>2. N \in Nat /\ n \in 1..N /\ \A k \in 1..n : tokens[N - n + k] \in slots[k]
  OBVIOUS
<1> HIDE DEF N, n
<1>3. ASSUME NEW j \in 0..(n - 1), Limit(tokens, n, ps, n - j) = N - j + 1
      PROVE  j \in H
  <2>1. n - j \in 1..n /\ N - n + (n - j) = N - j /\ N - j \in 1..N /\ (N - j + 1) - 1 = N - j
    BY <1>2
  <2> DEFINE T == {i \in 1..(N - j) : tokens[i] \in slots[n - j]}
  <2>2. ps[n - j] = Nearest(T)
    BY <1>1, <1>3, <2>1 DEF Found
  <2>3. N - j \in T /\ T \in SUBSET (1..N) /\ T # {} /\ \A i \in T : i <= N - j
    <3>1. N - j \in T
      BY <2>1, <1>2
    <3>2. \A i \in 1..(N - j) : i \in 1..N /\ i <= N - j
      BY <1>2, <2>1
    <3> QED
      BY <3>1, <3>2
  <2> HIDE DEF T
  <2>4. Nearest(T) \in T /\ \A k \in T : k <= Nearest(T)
    BY <2>3, NearestIs, <1>2
  <2>5. Nearest(T) \in 1..N /\ Nearest(T) <= N - j /\ N - j <= Nearest(T)
    BY <2>3, <2>4
  <2>6. Nearest(T) = N - j
    BY <2>5, <2>1
  <2> QED
    BY <2>2, <2>6
<1>4. 0 \in H
  <2>1. n - 0 = n /\ 0 \in 0..(n - 1) /\ N - 0 + 1 = N + 1
    BY <1>2
  <2>2. Limit(tokens, n, ps, n) = N + 1
    BY DEF Limit, N
  <2> QED
    BY <2>1, <2>2, <1>3
<1>5. ASSUME NEW j \in 0..((n - 1) - 1), j \in H PROVE j + 1 \in H
  <2>1. j + 1 \in 0..(n - 1) /\ n - (j + 1) # n /\ n - (j + 1) + 1 = n - j /\ N - (j + 1) + 1 = N - j
    BY <1>2
  <2>2. Limit(tokens, n, ps, n - (j + 1)) = N - (j + 1) + 1
    BY <2>1, <1>5 DEF Limit
  <2> QED
    BY <2>1, <2>2, <1>3
<1>6. ASSUME NEW k \in 1..n PROVE ps[k] = N - n + k
  <2>1. n - k \in 0..(n - 1) /\ n - (n - k) = k /\ N - (n - k) = N - n + k /\ n - 1 \in Nat
    BY <1>2
  <2> HIDE DEF H
  <2>2. 0..(n - 1) \subseteq H
    BY <2>1, <1>4, <1>5, UpTo
  <2>3. n - k \in H
    BY <2>1, <2>2
  <2> QED
    BY <2>1, <2>3 DEF H
<1> QED
  BY <1>6 DEF ps, n, N

\* The words that are scanned are the last ones.
LEMMA ScannedAre ==
  ASSUME NEW tokens, IsSeq(tokens)
  PROVE  LET w == Scanned(tokens, ScanWords)
             m == Len(w)
             N == Len(tokens)
         IN  /\ IsSeq(w) /\ m \in 0..N /\ (m = N \/ m = ScanWords)
             /\ \A i \in 1..m : w[i] = tokens[N - m + i]
<1> DEFINE N == Len(tokens)
<1>0. ScanWords \in Nat \ {0}
  BY TriggersAssumption
<1>1. PICK S : tokens \in Seq(S)
  BY DEF IsSeq
<1>2. CASE N > ScanWords
  <2>1. Scanned(tokens, ScanWords) = SubSeq(tokens, N - ScanWords + 1, N)
    BY <1>2 DEF Scanned
  <2>2. N \in Nat /\ N - ScanWords + 1 \in 1..N
    BY <1>0, <1>1, <1>2
  <2>3. \A a, b \in Nat : a \in 1..N /\ b \in 0..N =>
          /\ SubSeq(tokens, a, b) \in Seq(S)
          /\ a <= b + 1 => Len(SubSeq(tokens, a, b)) = b - a + 1
          /\ a <= b => \A i \in 1..(b - a + 1) : SubSeq(tokens, a, b)[i] = tokens[a + i - 1]
    BY <1>1
  <2> DEFINE w == Scanned(tokens, ScanWords)
  <2>4. /\ w \in Seq(S) /\ Len(w) = N - (N - ScanWords + 1) + 1
        /\ \A i \in 1..(N - (N - ScanWords + 1) + 1) : w[i] = tokens[(N - ScanWords + 1) + i - 1]
    BY <1>0, <2>1, <2>2, <2>3
  <2>5. Len(w) = ScanWords
    BY <2>4, <1>0, <2>2
  <2>6. ASSUME NEW i \in 1..ScanWords PROVE w[i] = tokens[N - ScanWords + i]
    <3>1. i \in 1..(N - (N - ScanWords + 1) + 1) /\ (N - ScanWords + 1) + i - 1 = N - ScanWords + i
      BY <1>0, <2>2
    <3> QED
      BY <3>1, <2>4
  <2>7. ScanWords \in 0..N
    BY <1>0, <1>2, <2>2
  <2>8. IsSeq(w)
    BY <2>4 DEF IsSeq
  <2> QED
    BY <2>5, <2>6, <2>7, <2>8
<1>3. CASE ~(N > ScanWords)
  <2>1. Scanned(tokens, ScanWords) = tokens
    BY <1>3 DEF Scanned
  <2>2. N \in 0..N /\ \A i \in 1..N : N - N + i = i
    BY <1>1
  <2> QED
    BY <2>1, <2>2
<1> QED
  BY <1>2, <1>3

Pattern == [slots : Seq(SUBSET STRING), lastWord : BOOLEAN]

Confidence == 0..Full

\* What raises a confidence leaves a full one as it is.
LEMMA RaisedIs ==
  /\ \A x, percent \in Nat : Raised(x, percent) \in Confidence
  /\ \A percent \in Nat : percent >= 100 => Raised(Full, percent) = Full
  /\ 0 \in Confidence /\ Full \in Confidence /\ Confidence \subseteq Nat
<1>1. Full = 10000 /\ Confidence = 0..10000
  BY DEF Full, Confidence
<1>2. ASSUME NEW x \in Nat, NEW percent \in Nat PROVE Raised(x, percent) \in 0..10000
  <2>1. (x * percent) \div 100 \in Nat
    OBVIOUS
  <2> QED
    BY <1>1, <2>1 DEF Raised
<1>3. ASSUME NEW percent \in Nat, percent >= 100 PROVE Raised(Full, percent) = Full
  <2>1. Full * percent = 100 * (100 * percent) /\ 100 * percent \in Nat /\ 100 * percent >= 10000
    BY <1>1, <1>3
  <2>2. \A z \in Nat : (100 * z) \div 100 = z
    OBVIOUS
  <2>3. (Full * percent) \div 100 = 100 * percent
    BY <2>1, <2>2
  <2> QED
    BY <1>1, <2>1, <2>3 DEF Raised
<1> QED
  BY <1>1, <1>2, <1>3

\* A confidence is a number up to Full, and a text that ends with a trigger has it in full.
LEMMA AnywhereIs ==
  ASSUME NEW tokens, IsSeq(tokens), NEW slots, Len(slots) \in Nat \ {0}
  PROVE  /\ MatchAnywhere(tokens, slots, ScanWords).confidence \in Confidence
         /\ Len(slots) <= Len(tokens) /\ Len(slots) <= ScanWords
            /\ (\A k \in 1..Len(slots) : tokens[Len(tokens) - Len(slots) + k] \in slots[k])
              => MatchAnywhere(tokens, slots, ScanWords).confidence = Full
<1> DEFINE w == Scanned(tokens, ScanWords)
           ps == Places(w, slots)
           n == Len(slots)
           gaps == Last(ps) - Head(ps) - (n - 1)
           distance == Len(w) - Last(ps)
           near == IF gaps = 0 THEN Raised(Decay[distance], 110)
                   ELSE Decay[distance + gaps]
           c == Raised(near, 100 + 2 * (n - 1))
<1>1. MatchAnywhere(tokens, slots, ScanWords).confidence = IF Head(ps) = 0 THEN 0 ELSE c
  BY DEF MatchAnywhere, NoMatch
<1>2. IsSeq(w) /\ Len(w) \in 0..Len(tokens) /\ (Len(w) = Len(tokens) \/ Len(w) = ScanWords)
      /\ \A i \in 1..Len(w) : w[i] = tokens[Len(tokens) - Len(w) + i]
  BY ScannedAre
<1>3. n \in Nat /\ n >= 1 /\ Len(w) \in Nat /\ Len(tokens) \in Nat
  <2>1. Len(tokens) \in Nat
    BY SequenceEnds
  <2> QED
    BY <2>1, <1>2
<1>4. Head(ps) = ps[1] /\ Last(ps) = ps[n]
  <2>1. ps \in [1..n -> 0..Len(w)]
    BY <1>3, PlacesAre
  <2> HIDE DEF ps, w
  <2>2. Len(ps) = n
    BY <1>3, <2>1
  <2> QED
    BY <1>3, <2>1, <2>2 DEF Last
<1>6. ASSUME near \in Nat PROVE c \in Confidence
  <2>1. n - 1 \in Nat
    BY <1>3
  <2>2. 100 + 2 * (n - 1) \in Nat
    BY <2>1
  <2> HIDE DEF near
  <2> QED
    BY <1>6, <2>2, RaisedIs, Zenon
<1>7. ASSUME Head(ps) # 0 PROVE near \in Nat
  <2>1. ps[1] \in 1..Len(w) /\ ps[n] \in 1..Len(w) /\ ps[n] - ps[1] >= n - 1
    BY <1>3, <1>4, <1>7, PlacesApart
  <2> HIDE DEF ps, w
  <2>2. gaps \in Nat /\ distance \in Nat /\ distance + gaps \in Nat
    BY <1>3, <1>4, <2>1
  <2> HIDE DEF gaps, distance
  <2>3. Decay[distance] \in Nat /\ Decay[distance + gaps] \in Nat
    BY <2>2, DecayTypes
  <2>4. Raised(Decay[distance], 110) \in Nat
    <3>1. \A x \in Nat : Raised(x, 110) \in Nat
      BY RaisedIs
    <3> QED
      BY <2>3, <3>1, Zenon
  <2> QED
    BY <2>3, <2>4
<1>8. ASSUME /\ n <= Len(tokens) /\ n <= ScanWords
             /\ \A k \in 1..n : tokens[Len(tokens) - n + k] \in slots[k]
      PROVE  Head(ps) # 0 /\ c = Full
  <2>1. n \in 1..Len(w)
    BY <1>2, <1>3, <1>8
  <2>2. ASSUME NEW k \in 1..n PROVE w[Len(w) - n + k] \in slots[k]
    <3>1. Len(w) - n + k \in 1..Len(w)
          /\ Len(tokens) - Len(w) + (Len(w) - n + k) = Len(tokens) - n + k
      BY <1>3, <2>1
    <3>2. w[Len(w) - n + k] = tokens[Len(tokens) - n + k]
      BY <1>2, <3>1
    <3> QED
      BY <3>2, <1>8
  <2>3. \A k \in 1..n : ps[k] = Len(w) - n + k
    BY <1>3, <2>1, <2>2, PlacesAtEnd
  <2> HIDE DEF ps, w
  <2>4. 1 \in 1..n /\ n \in 1..n
    BY <1>3
  <2>5. Head(ps) = Len(w) - n + 1 /\ Last(ps) = Len(w) - n + n
    BY <1>4, <2>3, <2>4
  <2>6. gaps = 0 /\ distance = 0 /\ Head(ps) # 0
    BY <1>3, <2>1, <2>5
  <2>7. Decay[distance] = Full
    BY <2>6, DecayTypes
  <2> HIDE DEF distance, gaps
  <2>8. near = Full
    BY <2>6, <2>7, RaisedIs
  <2>9. n - 1 \in Nat
    BY <1>3
  <2> HIDE DEF near
  <2>10. c = Full
    BY <2>8, <2>9, RaisedIs
  <2> QED
    BY <2>6, <2>10
<1>9. 0 \in Confidence
  BY RaisedIs
<1> HIDE DEF ps, c, near
<1> QED
  BY <1>1, <1>6, <1>7, <1>8, <1>9

LEMMA LastWordIs ==
  ASSUME NEW tokens, IsSeq(tokens), NEW slots, Len(slots) \in Nat \ {0}
  PROVE  /\ MatchLastWord(tokens, slots).confidence \in Confidence
         /\ Len(slots) <= Len(tokens)
            /\ (\A k \in 1..Len(slots) : tokens[Len(tokens) - Len(slots) + k] \in slots[k])
              => MatchLastWord(tokens, slots).confidence = Full
<1> DEFINE ps == Places(tokens, slots)
           n == Len(slots)
<1>1. MatchLastWord(tokens, slots).confidence
        = IF Head(ps) = 0 \/ Last(ps) # Len(tokens) THEN 0 ELSE Full
  BY DEF MatchLastWord, NoMatch
<1>2. n \in Nat /\ n >= 1 /\ Len(tokens) \in Nat
  BY SequenceEnds
<1>3. Head(ps) = ps[1] /\ Last(ps) = ps[n]
  <2>1. ps \in [1..n -> 0..Len(tokens)]
    BY <1>2, PlacesAre
  <2> HIDE DEF ps
  <2>2. Len(ps) = n
    BY <1>2, <2>1
  <2> QED
    BY <1>2, <2>1, <2>2 DEF Last
<1>4. ASSUME n <= Len(tokens), \A k \in 1..n : tokens[Len(tokens) - n + k] \in slots[k]
      PROVE  Head(ps) # 0 /\ Last(ps) = Len(tokens)
  <2>1. n \in 1..Len(tokens) /\ 1 \in 1..n /\ n \in 1..n
    BY <1>2, <1>4
  <2>2. \A k \in 1..n : ps[k] = Len(tokens) - n + k
    BY <1>2, <1>4, <2>1, PlacesAtEnd
  <2> HIDE DEF ps
  <2> QED
    BY <1>2, <1>3, <2>1, <2>2
<1>5. 0 \in Confidence /\ Full \in Confidence
  BY RaisedIs
<1> HIDE DEF ps
<1> QED
  BY <1>1, <1>4, <1>5

LEMMA MatchIs ==
  ASSUME NEW tokens, IsSeq(tokens), NEW p \in Pattern
  PROVE  /\ Match(tokens, p, ScanWords).confidence \in Confidence
         /\ EndsWith(tokens, p) => Match(tokens, p, ScanWords).confidence = Full
<1>1. p.slots \in Seq(SUBSET STRING) /\ p.lastWord \in BOOLEAN /\ Len(tokens) \in Nat
  BY SequenceEnds DEF Pattern
<1>2. CASE p.slots = <<>>
  <2>1. Match(tokens, p, ScanWords) = NoMatch
    BY <1>2 DEF Match
  <2>2. NoMatch.confidence \in Confidence
    BY RaisedIs DEF NoMatch
  <2>3. ~EndsWith(tokens, p)
    <3>1. Len(p.slots) = 0
      BY <1>2
    <3> QED
      BY <3>1 DEF EndsWith
  <2> QED
    BY <2>1, <2>2, <2>3
<1>3. CASE p.slots # <<>>
  <2>1. Len(p.slots) \in Nat \ {0}
    BY <1>1, <1>3
  <2>2. EndsWith(tokens, p) =>
          /\ Len(p.slots) <= Len(tokens)
          /\ p.lastWord \/ Len(p.slots) <= ScanWords
          /\ \A k \in 1..Len(p.slots) : tokens[Len(tokens) - Len(p.slots) + k] \in p.slots[k]
    <3> DEFINE n == Len(p.slots)
    <3>1. EndsWith(tokens, p) <=>
            /\ n \in 1..Len(tokens)
            /\ p.lastWord \/ n <= ScanWords
            /\ \A k \in 1..n : tokens[Len(tokens) - n + k] \in p.slots[k]
      BY Zenon DEF EndsWith
    <3>2. n \in 1..Len(tokens) => n <= Len(tokens)
      BY <1>1, <2>1
    <3> QED
      BY <3>1, <3>2, Zenon
  <2>3. CASE p.lastWord
    <3>1. Match(tokens, p, ScanWords) = MatchLastWord(tokens, p.slots)
      BY <1>3, <2>3, Zenon DEF Match
    <3> QED
      BY <2>1, <2>2, <3>1, LastWordIs
  <2>4. CASE ~p.lastWord
    <3>1. Match(tokens, p, ScanWords) = MatchAnywhere(tokens, p.slots, ScanWords)
      BY <1>3, <2>4, Zenon DEF Match
    <3> QED
      BY <2>1, <2>2, <2>4, <3>1, AnywhereIs
  <2> QED
    BY <2>3, <2>4
<1> QED
  BY <1>2, <1>3

\* The best of the matches is as good as each of them.
LEMMA BestIs ==
  ASSUME NEW tokens, IsSeq(tokens), NEW p \in DOMAIN SubmitPatterns,
         EndsWith(tokens, SubmitPatterns[p])
  PROVE  find_best_match(tokens, SubmitPatterns, ScanWords).confidence = Full
<1> DEFINE n == Len(SubmitPatterns)
           m == [i \in 1..n |-> Match(tokens, SubmitPatterns[i], ScanWords)]
           best == {i \in 1..n :
                      \A j \in 1..n : m[j].confidence < m[i].confidence
                                      \/ (m[j].confidence = m[i].confidence /\ i <= j)}
           C == {m[i].confidence : i \in 1..n}
           F == {i \in 1..n : m[i].confidence = Max(C)}
<1>1. SubmitPatterns \in Seq(Pattern)
  BY TriggersAssumption DEF Pattern
<1>2. n \in Nat /\ p \in 1..n /\ \A i \in 1..n : SubmitPatterns[i] \in Pattern
  BY <1>1
<1>0. Full \in Nat /\ Confidence = 0..Full
  BY DEF Full, Confidence
<1>3. \A i \in 1..n : m[i].confidence \in Confidence /\ m[i].confidence \in Nat
  BY <1>2, MatchIs, RaisedIs
<1>4. m[p].confidence = Full
  BY <1>2, MatchIs
<1>5. tokens # <<>> /\ SubmitPatterns # <<>>
  <2>1. Len(tokens) \in Nat /\ Len(tokens) # 0
    BY SequenceEnds DEF EndsWith
  <2> QED
    BY <1>2, <2>1
<1>6. find_best_match(tokens, SubmitPatterns, ScanWords) = m[CHOOSE i \in best : TRUE]
  BY <1>5 DEF find_best_match
<1> HIDE DEF m
<1>7. C \in SUBSET (Confidence) /\ C # {} /\ Full \in Nat
  <2>1. m[p].confidence \in C
    BY <1>2
  <2>2. \A c \in C : c \in Confidence
    BY <1>3
  <2> HIDE DEF C
  <2> QED
    BY <2>1, <2>2 DEF Full
<1>8. Max(C) \in C /\ \A c \in C : c <= Max(C)
  <2> HIDE DEF C
  <2> QED
    BY <1>0, <1>7, Greatest
<1>9. F \in SUBSET Nat /\ F # {}
  <2>1. PICK i \in 1..n : Max(C) = m[i].confidence
    BY <1>8
  <2> HIDE DEF C
  <2>2. i \in F
    BY <2>1
  <2>3. \A k \in F : k \in Nat
    OBVIOUS
  <2> HIDE DEF F
  <2> QED
    BY <2>2, <2>3
<1>10. Min(F) \in F /\ \A k \in F : Min(F) <= k
  <2> HIDE DEF F
  <2> QED
    BY <1>9, Smallest
<1>11. Min(F) \in best
  <2>1. Min(F) \in 1..n /\ m[Min(F)].confidence = Max(C)
    BY <1>10
  <2>2. ASSUME NEW j \in 1..n
        PROVE  m[j].confidence < Max(C) \/ (m[j].confidence = Max(C) /\ Min(F) <= j)
    <3>1. m[j].confidence <= Max(C) /\ m[j].confidence \in Nat /\ Max(C) \in Nat
      BY <1>3, <1>8
    <3>2. m[j].confidence = Max(C) => Min(F) <= j
      BY <1>10
    <3> QED
      BY <3>1, <3>2
  <2> QED
    BY <2>1, <2>2
<1>12. (CHOOSE i \in best : TRUE) \in best
  <2> HIDE DEF best
  <2> QED
    BY <1>11
<1>13. ASSUME NEW i \in best PROVE m[i].confidence = Full
  <2>1. m[p].confidence <= m[i].confidence /\ m[i].confidence \in 0..Full
    BY <1>0, <1>2, <1>3, <1>4
  <2> QED
    BY <2>1, <1>0, <1>4
<1> HIDE DEF best
<1> QED
  BY <1>6, <1>12, <1>13

-----------------------------------------------------------------------------
(***************************************************************************)
(* The texts.                                                              *)
(***************************************************************************)
\* The tokens of a text are those of its words.
TokensOf(text, t) == t \in Seq(STRING) /\ \A i \in DOMAIN t : \E k \in DOMAIN text : t[i] \in ToSet(text[k])
Joined(text, f, n) == \A i \in 1..n : f[i] = IF i = 1 THEN text[i] ELSE f[i - 1] \o text[i]

LEMMA JoinedExists ==
  ASSUME NEW text \in Texts
  PROVE  \E f \in [1..Len(text) -> Seq(STRING)] : Joined(text, f, Len(text))
<1> DEFINE n == Len(text)
           G == {m \in 0..n : \E f \in [1..n -> Seq(STRING)] : Joined(text, f, m)}
<1>1. n \in Nat /\ (\A i \in 1..n : text[i] \in Seq(STRING)) /\ <<>> \in Seq(STRING)
  BY DEF Texts
<1>2. 0 \in G
  <2>1. [i \in 1..n |-> <<>>] \in [1..n -> Seq(STRING)] /\ 0 \in 0..n
    BY <1>1
  <2>2. \A f : Joined(text, f, 0)
    BY DEF Joined
  <2> QED
    BY <2>1, <2>2
<1>3. ASSUME NEW m \in 0..(n - 1), m \in G PROVE m + 1 \in G
  <2>1. PICK f \in [1..n -> Seq(STRING)] : Joined(text, f, m)
    BY <1>3
  <2> DEFINE x == m + 1
             p == IF x = 1 THEN text[x] ELSE f[x - 1] \o text[x]
             g == [f EXCEPT ![x] = p]
  <2>2. x \in 1..n /\ x \in 0..n /\ (x # 1 => x - 1 \in 1..n)
    BY <1>1
  <2>3. p \in Seq(STRING)
    <3>1. text[x] \in Seq(STRING) /\ (x # 1 => f[x - 1] \in Seq(STRING))
      BY <1>1, <2>2
    <3>2. \A a, b \in Seq(STRING) : a \o b \in Seq(STRING)
      OBVIOUS
    <3> HIDE DEF x
    <3> QED
      BY <3>1, <3>2
  <2>4. g \in [1..n -> Seq(STRING)] /\ g[x] = p /\ \A i \in 1..n : i # x => g[i] = f[i]
    BY <2>2, <2>3
  <2> HIDE DEF g
  <2>5. ASSUME NEW i \in 1..x PROVE g[i] = IF i = 1 THEN text[i] ELSE g[i - 1] \o text[i]
    <3>1. i \in 1..n /\ (i # x => i \in 1..m) /\ (i # 1 => i - 1 \in 1..n /\ i - 1 # x)
      BY <1>1, <2>2
    <3>2. i # 1 => g[i - 1] = f[i - 1]
      BY <3>1, <2>4
    <3>3. CASE i = x
      BY <3>2, <3>3, <2>4
    <3>4. CASE i # x
      <4>1. g[i] = f[i] /\ f[i] = IF i = 1 THEN text[i] ELSE f[i - 1] \o text[i]
        BY <3>1, <3>4, <2>1, <2>4 DEF Joined
      <4> QED
        BY <3>2, <4>1
    <3> QED
      BY <3>3, <3>4
  <2> HIDE DEF x
  <2>6. Joined(text, g, x)
    BY <2>5 DEF Joined
  <2> QED
    BY <2>2, <2>4, <2>6 DEF x
<1> HIDE DEF G
<1>4. n \in G
  <2>1. 0..n \subseteq G
    BY <1>1, <1>2, <1>3, UpTo
  <2> QED
    BY <2>1, <1>1
<1> QED
  BY <1>4 DEF G

LEMMA Tokens ==
  ASSUME NEW text \in Texts
  PROVE  TokensOf(text, tokenize(text))
<1> DEFINE n == Len(text)
           Solves(f) == f = [i \in 1..n |-> IF i = 1 THEN text[i] ELSE f[i - 1] \o text[i]]
<1>1. n \in Nat /\ DOMAIN text = 1..n /\ \A i \in 1..n : text[i] \in Seq(STRING)
  BY DEF Texts
<1>2. CASE n = 0
  <2>1. tokenize(text) = text /\ text = <<>>
    BY <1>1, <1>2 DEF tokenize, FlattenSeq, Texts
  <2>2. <<>> \in Seq(STRING) /\ DOMAIN <<>> = {}
    OBVIOUS
  <2> QED
    BY <2>1, <2>2 DEF TokensOf
<1>3. CASE n # 0
  <2>1. PICK f \in [1..n -> Seq(STRING)] : Joined(text, f, n)
    BY JoinedExists
  <2>2. Solves(f)
    <3>1. f = [i \in 1..n |-> f[i]]
      OBVIOUS
    <3> QED
      BY <2>1, <3>1 DEF Joined
  <2>3. tokenize(text) = (CHOOSE g : Solves(g))[n]
    BY <1>3 DEF tokenize, FlattenSeq
  <2>4. PICK g : Solves(g) /\ tokenize(text) = g[n]
    <3> HIDE DEF Solves
    <3> QED
      BY <2>2, <2>3
  <2>5. \A i \in 1..n : g[i] = IF i = 1 THEN text[i] ELSE g[i - 1] \o text[i]
    BY <2>4
  <2> DEFINE G == {m \in 0..(n - 1) : TokensOf(text, g[m + 1])}
  <2>6. 0 \in G
    <3>1. 1 \in 1..n /\ 0 \in 0..(n - 1) /\ 0 + 1 = 1
      BY <1>1, <1>3
    <3>2. g[1] = text[1] /\ text[1] \in Seq(STRING)
      BY <1>1, <2>5, <3>1
    <3>3. \A i \in DOMAIN text[1] : text[1][i] \in ToSet(text[1])
      BY DEF ToSet
    <3> QED
      BY <1>1, <3>1, <3>2, <3>3 DEF TokensOf
  <2>7. ASSUME NEW m \in 0..((n - 1) - 1), m \in G PROVE m + 1 \in G
    <3> DEFINE a == g[m + 1]
               b == text[m + 2]
    <3>1. m + 2 \in 1..n /\ m + 2 # 1 /\ m + 1 \in 0..(n - 1) /\ (m + 1) + 1 = m + 2 /\ (m + 2) - 1 = m + 1
      BY <1>1
    <3>2. g[m + 2] = a \o b /\ a \in Seq(STRING) /\ b \in Seq(STRING)
      BY <1>1, <2>5, <2>7, <3>1 DEF TokensOf
    <3>3. \A i \in DOMAIN a : \E k \in DOMAIN text : a[i] \in ToSet(text[k])
      BY <2>7 DEF TokensOf
    <3>4. \A i \in DOMAIN b : b[i] \in ToSet(text[m + 2])
      BY DEF ToSet
    <3> HIDE DEF a, b
    <3>5. \A x, y \in Seq(STRING) :
            /\ x \o y \in Seq(STRING)
            /\ \A i \in DOMAIN (x \o y) : \/ i \in DOMAIN x /\ (x \o y)[i] = x[i]
                                          \/ \E j \in DOMAIN y : (x \o y)[i] = y[j]
      <4> SUFFICES ASSUME NEW x \in Seq(STRING), NEW y \in Seq(STRING), NEW i \in DOMAIN (x \o y)
                   PROVE  \/ i \in DOMAIN x /\ (x \o y)[i] = x[i]
                          \/ \E j \in DOMAIN y : (x \o y)[i] = y[j]
        OBVIOUS
      <4>1. i \in 1..(Len(x) + Len(y)) /\ Len(x) \in Nat /\ Len(y) \in Nat
        OBVIOUS
      <4>2. CASE i <= Len(x)
        BY <4>1, <4>2
      <4>3. CASE ~(i <= Len(x))
        <5>1. i - Len(x) \in DOMAIN y /\ (x \o y)[i] = y[i - Len(x)]
          BY <4>1, <4>3
        <5> QED
          BY <5>1
      <4> QED
        BY <4>2, <4>3
    <3>6. ASSUME NEW i \in DOMAIN (a \o b) PROVE \E k \in DOMAIN text : (a \o b)[i] \in ToSet(text[k])
      <4>1. \/ i \in DOMAIN a /\ (a \o b)[i] = a[i]
            \/ \E j \in DOMAIN b : (a \o b)[i] = b[j]
        BY <3>2, <3>5
      <4>2. m + 2 \in DOMAIN text
        BY <1>1, <3>1
      <4> QED
        BY <3>3, <3>4, <4>1, <4>2
    <3>7. TokensOf(text, a \o b)
      BY <3>2, <3>5, <3>6 DEF TokensOf
    <3> QED
      BY <3>1, <3>2, <3>7
  <2> HIDE DEF G
  <2>8. n - 1 \in G
    <3>1. n - 1 \in Nat
      BY <1>1, <1>3
    <3>2. 0..(n - 1) \subseteq G
      BY <2>6, <2>7, <3>1, UpTo
    <3> QED
      BY <3>1, <3>2
  <2>9. TokensOf(text, g[n])
    <3>1. (n - 1) + 1 = n
      BY <1>1
    <3> QED
      BY <2>8, <3>1 DEF G
  <2> QED
    BY <2>4, <2>9
<1> QED
  BY <1>2, <1>3

\* What the agent filter leaves of a text is a text.
LEMMA BeforeAgentIs ==
  ASSUME NEW text \in Texts, NEW trigger, \E k \in DOMAIN text : trigger \in ToSet(text[k])
  PROVE  BeforeAgent(text, trigger) \in Texts
<1> DEFINE K == {k \in 1..Len(text) : trigger \in ToSet(text[k])}
           i == Min(K)
           I == {j \in 1..Len(text[i]) : text[i][j] = trigger}
           cut == IF I # {} THEN Min(I) ELSE 0
           kept == SubSeq(text[i], 1, cut - 1)
<1>1. Len(text) \in Nat /\ DOMAIN text = 1..Len(text) /\ \A k \in 1..Len(text) : text[k] \in Seq(STRING)
  BY DEF Texts
<1>2. i \in K
  <2>1. K \in SUBSET Nat /\ K # {}
    BY <1>1
  <2> HIDE DEF K
  <2> QED
    BY <2>1, Smallest
<1>3. i \in 1..Len(text) /\ text[i] \in Seq(STRING)
  BY <1>1, <1>2
<1> HIDE DEF i, K
<1>4. cut \in 0..Len(text[i])
  <2>1. I \in SUBSET Nat /\ \A j \in I : j \in 0..Len(text[i])
    BY <1>3
  <2>2. CASE I = {}
    BY <2>2, <1>3
  <2>3. CASE I # {}
    <3> HIDE DEF I
    <3>1. Min(I) \in I
      BY <2>1, <2>3, Smallest
    <3> QED
      BY <2>1, <2>3, <3>1
  <2> QED
    BY <2>2, <2>3
<1> HIDE DEF cut
<1>5. kept \in Seq(STRING)
  <2>1. \A q \in Seq(STRING), c \in Nat : c <= Len(q) => SubSeq(q, 1, c - 1) \in Seq(STRING)
    OBVIOUS
  <2> QED
    BY <1>3, <1>4, <2>1
<1> HIDE DEF kept
<1>6. SubSeq(text, 1, i - 1) \in Seq(Seq(STRING))
  <2>1. \A E : \A q \in Seq(E), c \in Nat : c <= Len(q) => SubSeq(q, 1, c - 1) \in Seq(E)
    OBVIOUS
  <2>2. text \in Seq(Seq(STRING)) /\ i \in Nat /\ i <= Len(text)
    BY <1>1, <1>3 DEF Texts
  <2> QED
    BY <2>1, <2>2
<1>7. (IF kept = <<>> THEN <<>> ELSE <<kept>>) \in Seq(Seq(STRING))
  <2>1. <<>> \in Seq(Seq(STRING)) /\ \A q \in Seq(STRING) : <<q>> \in Seq(Seq(STRING))
    OBVIOUS
  <2> QED
    BY <1>5, <2>1
<1>8. BeforeAgent(text, trigger) = SubSeq(text, 1, i - 1) \o (IF kept = <<>> THEN <<>> ELSE <<kept>>)
  BY DEF BeforeAgent, SelectInSeq, kept, cut, I, i, K
<1> QED
  BY <1>6, <1>7, <1>8 DEF Texts

-----------------------------------------------------------------------------
(***************************************************************************)
(* From the filters to the agents.                                         *)
(***************************************************************************)
\* No submit trigger has been missed at the end of a message.
Clear(m) ==
  m.ops = "newline" => \A p \in DOMAIN SubmitPatterns : ~EndsWith(tokenize(m.text), SubmitPatterns[p])

IsText(m) == {"text", "ops"} \subseteq DOMAIN m /\ m.text \in Texts

LEMMA InputIsClear ==
  ASSUME NEW m, IsText(m)
  PROVE  Clear(InputFilter(m))
<1> DEFINE match == find_best_match(tokenize(m.text), SubmitPatterns, ScanWords)
           cut == [m EXCEPT !.text = BeforeTrigger(m.text, match.start), !.ops = "voice"]
<1>1. IsSeq(tokenize(m.text))
  BY Tokens DEF IsText, TokensOf, IsSeq
<1>2. CASE Submits(m)
  <2>1. InputFilter(m) = m
    BY <1>2, Zenon DEF InputFilter
  <2> QED
    BY <1>2, <2>1 DEF Submits, Clear
<1>3. CASE match.confidence < Threshold
  <2>1. InputFilter(m) = m
    BY <1>3, Zenon DEF InputFilter
  <2>2. ASSUME NEW p \in DOMAIN SubmitPatterns, EndsWith(tokenize(m.text), SubmitPatterns[p]) PROVE FALSE
    <3>1. match.confidence = Full
      BY <1>1, <2>2, BestIs
    <3> HIDE DEF match
    <3> QED
      BY <1>3, <3>1 DEF Threshold, Full
  <2> QED
    BY <2>1, <2>2 DEF Clear
<1>4. CASE ~Submits(m) /\ ~(match.confidence < Threshold)
  <2>1. InputFilter(m) = cut
    BY <1>4, Zenon DEF InputFilter
  <2>2. cut.ops = "voice"
    BY DEF IsText
  <2> HIDE DEF cut
  <2> QED
    BY <2>1, <2>2 DEF Clear
<1> QED
  BY <1>2, <1>3, <1>4

LEMMA AgentKeepsTexts ==
  ASSUME NEW m, IsText(m), NEW ids
  PROVE  LET out == AgentFilter(m, ids)
         IN  Len(out) \in {1, 2} /\ \A j \in 1..Len(out) : IsText(out[j])
<1> DEFINE tokens == tokenize(m.text)
           found == AgentMatches(tokens, ids)
           i == Min(found)
           before == BeforeAgent(m.text, tokens[i])
           switch == [Message(<<>>, "none") EXCEPT !.switch = _match_agent(tokens[i + 1], ids)]
           short == [m EXCEPT !.text = before]
           out == AgentFilter(m, ids)
<1>1. out = IF found = {} THEN <<m>> ELSE IF before = <<>> THEN <<switch>> ELSE <<short, switch>>
  BY Zenon DEF AgentFilter
<1>2. IsText(switch)
  <2>1. <<>> \in Texts
    BY DEF Texts
  <2> QED
    BY <2>1 DEF IsText, Message
<1>3. ASSUME found # {} PROVE IsText(short)
  <2>1. TokensOf(m.text, tokens)
    BY Tokens DEF IsText
  <2>2. tokens \in Seq(STRING)
    BY <2>1 DEF TokensOf
  <2> HIDE DEF tokens
  <2>3. found \in SUBSET Nat /\ \A k \in found : k \in DOMAIN tokens
    BY <2>2 DEF AgentMatches
  <2> HIDE DEF found
  <2>4. i \in found
    BY <1>3, <2>3, Smallest
  <2>5. \E k \in DOMAIN m.text : tokens[i] \in ToSet(m.text[k])
    BY <2>1, <2>3, <2>4 DEF TokensOf
  <2>6. before \in Texts
    BY <2>5, BeforeAgentIs DEF IsText
  <2> HIDE DEF before
  <2> QED
    BY <2>6 DEF IsText
<1> HIDE DEF found, before, switch, short
<1>4. CASE out = <<m>>
  BY <1>4
<1>5. CASE out = <<switch>>
  BY <1>2, <1>5
<1>6. CASE found # {} /\ out = <<short, switch>>
  BY <1>2, <1>3, <1>6
<1> QED
  BY <1>1, <1>4, <1>5, <1>6

LEMMA FiltersAreClear ==
  ASSUME NEW text \in Texts, NEW ops, NEW b, NEW ids
  PROVE  \A j \in DOMAIN Filters(Message(text, ops), b, ids) :
           Clear(Filters(Message(text, ops), b, ids)[j])
<1> DEFINE m == Message(text, ops)
           heard == MuteFilter(m, b)
           addressed == AgentFilter(Head(heard), ids)
           out == Filters(m, b, ids)
           command(a) == [m EXCEPT !.text = <<>>, !.mute = a]
<1>1. IsText(m) /\ \A a : IsText(command(a))
  <2>1. <<>> \in Texts
    BY DEF Texts
  <2> QED
    BY <2>1 DEF IsText, Message
<1>2. heard \in {<<>>, <<m>>, <<command("mute")>>, <<command("unmute")>>}
  BY DEF MuteFilter
<1> HIDE DEF command, m
<1>3. heard = <<>> \/ \E h : heard = <<h>> /\ IsText(h)
  BY <1>1, <1>2
<1> HIDE DEF heard
<1>4. out = IF heard = <<>> THEN <<>> ELSE [j \in 1..Len(addressed) |-> InputFilter(addressed[j])]
  BY Zenon DEF Filters, heard
<1>5. ASSUME heard = <<>> PROVE \A j \in DOMAIN out : Clear(out[j])
  <2>1. out = <<>> /\ DOMAIN <<>> = {}
    BY <1>4, <1>5
  <2> HIDE DEF out
  <2> QED
    BY <2>1
<1>6. ASSUME NEW h, heard = <<h>>, IsText(h)
      PROVE  \A j \in DOMAIN out : Clear(out[j])
  <2>1. Head(heard) = h /\ heard # <<>>
    BY <1>6
  <2>2. out = [j \in 1..Len(addressed) |-> InputFilter(addressed[j])]
    BY <1>4, <2>1
  <2>3. \A j \in 1..Len(addressed) : IsText(addressed[j])
    BY <1>6, <2>1, AgentKeepsTexts
  <2> HIDE DEF addressed, out
  <2>4. \A j \in DOMAIN out : j \in 1..Len(addressed) /\ out[j] = InputFilter(addressed[j])
    BY <2>2
  <2> QED
    BY <2>3, <2>4, InputIsClear
<1>7. \A j \in DOMAIN out : Clear(out[j])
  <2> HIDE DEF out
  <2> QED
    BY <1>3, <1>5, <1>6
<1> QED
  BY <1>7 DEF m

\* Every text on its way is a text, and no message on its way has missed a trigger.
AllClear(s) == \A k \in DOMAIN s : Clear(s[k])

TextsToCome ==
  /\ "texts" \in DOMAIN left /\ left.texts \in Seq(Texts)
  /\ speaking => left.texts # <<>>
  /\ IsSeq(queue) /\ \A k \in DOMAIN queue : "text" \in DOMAIN queue[k] /\ queue[k].text \in Texts
  /\ last \in Texts

InHand(i) == "text" \in DOMAIN i /\ i.text \in Texts /\ AllClear(i.out)

MessagesClear ==
  /\ \A th \in Thread : InHand(inj[th])
  /\ \A k \in DOMAIN typing : "given" \in DOMAIN typing[k] /\ Clear(typing[k].given)
  /\ AllClear(sent)

TextInv == Good /\ TextsToCome /\ MessagesClear

LEMMA ClearEnds ==
  ASSUME NEW s, IsSeq(s), AllClear(s)
  PROVE  /\ \A m : Clear(m) => AllClear(Append(s, m))
         /\ s # <<>> => Clear(Head(s)) /\ AllClear(Tail(s))
<1>1. ASSUME NEW m, Clear(m) PROVE AllClear(Append(s, m))
  <2>1. /\ DOMAIN Append(s, m) = 1..(Len(s) + 1) /\ DOMAIN s = 1..Len(s) /\ Len(s) \in Nat
        /\ \A k \in 1..Len(s) : Append(s, m)[k] = s[k]
        /\ Append(s, m)[Len(s) + 1] = m
    BY SequenceEnds
  <2>2. \A k \in 1..(Len(s) + 1) : k \in 1..Len(s) \/ k = Len(s) + 1
    BY <2>1
  <2> QED
    BY <1>1, <2>1, <2>2 DEF AllClear
<1>2. ASSUME s # <<>> PROVE Clear(Head(s)) /\ AllClear(Tail(s))
  <2>1. /\ Len(s) > 0 /\ Head(s) = s[1] /\ DOMAIN Tail(s) = 1..(Len(s) - 1)
        /\ \A k \in 1..(Len(s) - 1) : Tail(s)[k] = s[k + 1]
        /\ DOMAIN s = 1..Len(s) /\ Len(s) \in Nat
    BY <1>2, SequenceEnds
  <2>2. \A k \in 1..(Len(s) - 1) : k + 1 \in 1..Len(s)
    BY <2>1
  <2>3. 1 \in 1..Len(s)
    BY <2>1
  <2> QED
    BY <2>1, <2>2, <2>3 DEF AllClear
<1> QED
  BY <1>1, <1>2

LEMMA GivenIsClear ==
  ASSUME NEW to, NEW m, NEW i
  PROVE  Clear(Given(to, m, i)) <=> Clear(m)
<1>1. Given(to, m, i).ops = m.ops /\ Given(to, m, i).text = m.text
  BY DEF Given
<1> QED
  BY <1>1, Zenon DEF Clear

LEMMA SpendKeeps ==
  ASSUME TextsToCome, NEW what, what # "texts", Spend(what), UNCHANGED <<speaking, queue, last>>
  PROVE  TextsToCome'
<1>1. left' = [left EXCEPT ![what] = @ - 1]
  BY DEF Spend
<1>2. "texts" \in DOMAIN left' /\ left'.texts = left.texts
  BY <1>1 DEF TextsToCome
<1> QED
  BY <1>2 DEF TextsToCome

LEMMA TextsStay ==
  ASSUME TextsToCome, [PathNext]_pathVars
  PROVE  TextsToCome'
<1>1. CASE UNCHANGED <<left, speaking, queue, last>>
  BY <1>1 DEF TextsToCome
<1>2. CASE SpeechStarts
  BY <1>2 DEF SpeechStarts, TextsToCome, Nothing
<1>3. CASE SpeechEnds
  <2>1. left' = [left EXCEPT !.texts = Tail(@)] /\ UNCHANGED last /\ speaking /\ ~speaking'
        /\ \/ UNCHANGED queue
           \/ queue' = Append(queue, [text |-> Head(left.texts), to |-> current, heard |-> FALSE])
    BY <1>3, Zenon DEF SpeechEnds
  <2>2. "texts" \in DOMAIN left' /\ left'.texts = Tail(left.texts)
    BY <2>1 DEF TextsToCome
  <2>3. left.texts \in Seq(Texts) /\ left.texts # <<>>
    BY <2>1 DEF TextsToCome
  <2>4. Tail(left.texts) \in Seq(Texts) /\ Head(left.texts) \in Texts
    BY <2>3
  <2>5. CASE UNCHANGED queue
    BY <2>1, <2>2, <2>4, <2>5 DEF TextsToCome
  <2>6. CASE queue' = Append(queue, [text |-> Head(left.texts), to |-> current, heard |-> FALSE])
    <3> DEFINE u == [text |-> Head(left.texts), to |-> current, heard |-> FALSE]
    <3>1. /\ IsSeq(Append(queue, u)) /\ DOMAIN Append(queue, u) = 1..(Len(queue) + 1)
          /\ \A k \in 1..Len(queue) : Append(queue, u)[k] = queue[k]
          /\ Append(queue, u)[Len(queue) + 1] = u /\ DOMAIN queue = 1..Len(queue) /\ Len(queue) \in Nat
      BY SequenceEnds DEF TextsToCome
    <3>2. "text" \in DOMAIN u /\ u.text \in Texts
      BY <2>4
    <3> HIDE DEF u
    <3>3. \A k \in 1..(Len(queue) + 1) : k \in 1..Len(queue) \/ k = Len(queue) + 1
      BY <3>1
    <3>4. IsSeq(queue') /\ \A k \in DOMAIN queue' : "text" \in DOMAIN queue'[k] /\ queue'[k].text \in Texts
      BY <2>6, <3>1, <3>2, <3>3 DEF TextsToCome, u
    <3> QED
      BY <2>1, <2>2, <2>4, <3>4 DEF TextsToCome
  <2> QED
    BY <2>1, <2>5, <2>6
<1>4. CASE Transcribes
  <2>1. PICK k \in DOMAIN queue :
          queue' = [queue EXCEPT ![k].heard = TRUE] /\ last' = queue[k].text /\ UNCHANGED <<left, speaking>>
    BY <1>4 DEF Transcribes
  <2>2. Len(queue) \in Nat /\ DOMAIN queue = 1..Len(queue)
    BY SequenceEnds DEF TextsToCome
  <2> DEFINE u(j) == IF j = k THEN [queue[k] EXCEPT !.heard = TRUE] ELSE queue[j]
  <2>3. queue' = [j \in 1..Len(queue) |-> u(j)]
    BY <2>1, <2>2
  <2>4. \A j \in 1..Len(queue) : "text" \in DOMAIN u(j) /\ u(j).text \in Texts
    BY <2>2 DEF TextsToCome
  <2> HIDE DEF u
  <2>5. IsSeq(queue')
    <3>1. queue' \in Seq({u(j) : j \in 1..Len(queue)})
      BY <2>2, <2>3
    <3> QED
      BY <3>1 DEF IsSeq
  <2>6. \A j \in DOMAIN queue' : "text" \in DOMAIN queue'[j] /\ queue'[j].text \in Texts
    BY <2>3, <2>4
  <2>7. last' \in Texts
    BY <2>1 DEF TextsToCome
  <2> QED
    BY <2>1, <2>5, <2>6, <2>7 DEF TextsToCome
<1>5. CASE Transcribed
  <2>1. queue # <<>> /\ queue' = Tail(queue) /\ UNCHANGED <<left, speaking, last>>
    BY <1>5 DEF Transcribed, Nothing
  <2>2. /\ IsSeq(Tail(queue)) /\ DOMAIN Tail(queue) = 1..(Len(queue) - 1)
        /\ \A k \in 1..(Len(queue) - 1) : Tail(queue)[k] = queue[k + 1]
        /\ DOMAIN queue = 1..Len(queue) /\ Len(queue) \in Nat
    BY <2>1, SequenceEnds DEF TextsToCome
  <2>3. \A k \in 1..(Len(queue) - 1) : k + 1 \in DOMAIN queue
    BY <2>2
  <2>4. \A k \in DOMAIN queue' : "text" \in DOMAIN queue'[k] /\ queue'[k].text \in Texts
    BY <2>1, <2>2, <2>3 DEF TextsToCome
  <2> QED
    BY <2>1, <2>2, <2>4 DEF TextsToCome
<1>6. CASE DoubleTap
  BY <1>6, SpendKeeps DEF DoubleTap
<1>7. CASE Mutes
  BY <1>7, SpendKeeps DEF Mutes
<1>8. CASE Leaves
  <2>1. Spend("leaves") /\ UNCHANGED <<speaking, queue, last>>
    BY <1>8 DEF Leaves
  <2> QED
    BY <2>1, SpendKeeps
<1>9. CASE resend_last
  BY <1>9, SpendKeeps DEF resend_last
<1>10. ASSUME NEW th \in Thread, Step(th) PROVE TextsToCome'
  <2>1. UNCHANGED <<left, speaking, queue, last>>
    BY <1>10, Zenon DEF Step, Prepares, Executes, TakesLock, Sends, Returns, Answered, TimesOut, GoesOn
  <2> QED
    BY <2>1, <1>1
<1>11. CASE WorkerTypes
  BY <1>1, <1>11 DEF WorkerTypes
<1>12. CASE UNCHANGED pathVars
  BY <1>1, <1>12 DEF pathVars
<1> QED
  BY <1>2, <1>3, <1>4, <1>5, <1>6, <1>7, <1>8, <1>9, <1>10, <1>11, <1>12 DEF PathNext

\* A thread that goes on with a message of its own, or with fewer.
LEMMA HandMoves ==
  ASSUME Good, MessagesClear, NEW th \in Thread, NEW rec, Moves(th, rec), InHand(rec)
  PROVE  \A o \in Thread : InHand(inj'[o])
<1>1. inj = [o \in Thread |-> inj[o]] /\ inj' = [inj EXCEPT ![th] = rec]
  BY DEF Good, Wellformed, Moves
<1>2. \A o \in Thread : inj'[o] = IF o = th THEN rec ELSE inj[o]
  BY <1>1
<1> QED
  BY <1>2 DEF MessagesClear

LEMMA BeginsClear ==
  ASSUME Good, MessagesClear, NEW th \in Thread, NEW text \in Texts, NEW to, Begins(th, text, to),
         UNCHANGED <<typing, sent>>
  PROVE  MessagesClear'
<1> DEFINE rec == [Resting EXCEPT !.phase = "read", !.text = text, !.to = to, !.took = pending]
<1>1. Moves(th, rec)
  BY DEF Begins
<1>2. InHand(rec)
  BY DEF InHand, Resting, Nothing, AllClear
<1> HIDE DEF rec
<1> QED
  BY <1>1, <1>2, HandMoves DEF MessagesClear

LEMMA PreparesClear ==
  ASSUME Good, MessagesClear, NEW th \in Thread, Prepares(th)
  PROVE  MessagesClear'
<1> DEFINE i == inj[th]
           ops == IF i.took THEN "tap" ELSE IF left.auto THEN "auto" ELSE "newline"
           out == Filters(Message(i.text, ops), muted, registered \ {Keyboard})
           rec == [i EXCEPT !.phase = "filtered", !.ids = registered \ {Keyboard}, !.out = out]
<1>1. Moves(th, rec) /\ UNCHANGED <<typing, sent>>
  BY Zenon DEF Prepares
<1>2. InHand(i) /\ "out" \in DOMAIN i
  BY DEF MessagesClear, Good, Wellformed, IsInjection
<1>3. AllClear(out)
  <2> HIDE DEF ops
  <2> QED
    BY <1>2, FiltersAreClear DEF AllClear, InHand
<1> HIDE DEF out, i
<1>4. InHand(rec)
  BY <1>2, <1>3 DEF InHand
<1> HIDE DEF rec
<1> QED
  BY <1>1, <1>4, HandMoves DEF MessagesClear

LEMMA SendsClear ==
  ASSUME Good, MessagesClear, NEW th \in Thread, Sends(th)
  PROVE  MessagesClear'
<1> DEFINE i == inj[th]
           m == Head(i.out)
           rest == [i EXCEPT !.out = Tail(@)]
           waiting == [rest EXCEPT !.phase = "waiting"]
           typed == [from |-> th, given |-> Given(Keyboard, m, i)]
<1>1. /\ i.out # <<>>
      /\ \/ typing' = Append(typing, typed) /\ UNCHANGED sent /\ Moves(th, waiting)
         \/ UNCHANGED <<typing, sent>> /\ Moves(th, rest)
         \/ sent' = Append(sent, Given(i.to, m, i)) /\ UNCHANGED typing /\ Moves(th, rest)
  BY Zenon DEF Sends, Nothing
<1>2. InHand(i) /\ IsInjection(i) /\ IsSeq(sent) /\ IsSeq(typing)
  BY DEF MessagesClear, Good, Wellformed
<1>3. Clear(m) /\ AllClear(Tail(i.out))
  BY <1>1, <1>2, ClearEnds DEF InHand, IsInjection
<1>4. rest.out = Tail(i.out) /\ waiting.out = Tail(i.out) /\ rest.text = i.text /\ waiting.text = i.text
      /\ "text" \in DOMAIN rest /\ "text" \in DOMAIN waiting
  BY <1>2 DEF IsInjection, InHand
<1>5. typed.given = Given(Keyboard, m, i) /\ "given" \in DOMAIN typed
  OBVIOUS
<1> HIDE DEF m, rest, waiting, typed
<1>6. InHand(rest) /\ InHand(waiting)
  BY <1>2, <1>3, <1>4 DEF InHand
<1>7. Clear(Given(i.to, m, i)) /\ Clear(typed.given)
  BY <1>3, <1>5, GivenIsClear
<1>8. AllClear(Append(sent, Given(i.to, m, i)))
  BY <1>2, <1>7, ClearEnds DEF MessagesClear
<1>9. \A k \in DOMAIN Append(typing, typed) :
        "given" \in DOMAIN Append(typing, typed)[k] /\ Clear(Append(typing, typed)[k].given)
  <2>1. /\ DOMAIN Append(typing, typed) = 1..(Len(typing) + 1) /\ DOMAIN typing = 1..Len(typing)
        /\ Len(typing) \in Nat /\ Append(typing, typed)[Len(typing) + 1] = typed
        /\ \A k \in 1..Len(typing) : Append(typing, typed)[k] = typing[k]
    BY <1>2, SequenceEnds
  <2>2. \A k \in 1..(Len(typing) + 1) : k \in 1..Len(typing) \/ k = Len(typing) + 1
    BY <2>1
  <2> QED
    BY <1>5, <1>7, <2>1, <2>2 DEF MessagesClear
<1> HIDE DEF i
<1>10. CASE typing' = Append(typing, typed) /\ UNCHANGED sent /\ Moves(th, waiting)
  BY <1>6, <1>9, <1>10, HandMoves DEF MessagesClear
<1>11. CASE UNCHANGED <<typing, sent>> /\ Moves(th, rest)
  BY <1>6, <1>11, HandMoves DEF MessagesClear
<1>12. CASE sent' = Append(sent, Given(i.to, m, i)) /\ UNCHANGED typing /\ Moves(th, rest)
  BY <1>6, <1>8, <1>12, HandMoves DEF MessagesClear
<1> QED
  BY <1>1, <1>10, <1>11, <1>12

\* The steps of a thread that leave the messages as they are.
LEMMA ThreadClear ==
  ASSUME Good, MessagesClear, NEW th \in Thread,
         Executes(th) \/ TakesLock(th) \/ Returns(th) \/ Answered(th) \/ TimesOut(th)
  PROVE  MessagesClear'
<1> DEFINE i == inj[th]
           ready == [i EXCEPT !.phase = "ready", !.to = IF @ = NoAgent THEN current' ELSE @]
           sending == [i EXCEPT !.phase = "sending"]
<1>1. InHand(i) /\ IsInjection(i) /\ IsSeq(typing)
  BY DEF MessagesClear, Good, Wellformed
<1>2. InHand(ready) /\ InHand(sending) /\ InHand(Resting)
  <2>1. <<>> \in Texts /\ AllClear(<<>>)
    BY DEF Texts, AllClear
  <2> QED
    BY <1>1, <2>1 DEF InHand, Resting, Nothing, IsInjection
<1>3. UNCHANGED sent /\ (Moves(th, ready) \/ Moves(th, sending) \/ Moves(th, Resting))
  BY Zenon DEF Executes, TakesLock, Returns, Answered, TimesOut, GoesOn
<1> HIDE DEF ready, sending
<1>4. \A k \in DOMAIN typing' : "given" \in DOMAIN typing'[k] /\ Clear(typing'[k].given)
  <2>1. CASE UNCHANGED typing
    BY <2>1 DEF MessagesClear
  <2>2. CASE TimesOut(th)
    <3>1. typing' = [k \in DOMAIN typing |-> IF typing[k].from = th THEN [typing[k] EXCEPT !.from = "nobody"]
                                             ELSE typing[k]]
      BY <2>2 DEF TimesOut
    <3>2. \A k \in DOMAIN typing : typing'[k].given = typing[k].given /\ "given" \in DOMAIN typing'[k]
      BY <3>1 DEF MessagesClear
    <3>3. DOMAIN typing' = DOMAIN typing
      BY <3>1
    <3> QED
      BY <3>2, <3>3 DEF MessagesClear
  <2> QED
    BY <2>1, <2>2, Zenon DEF Executes, TakesLock, Returns, Answered
<1>5. AllClear(sent')
  BY <1>3 DEF MessagesClear
<1>6. \A o \in Thread : InHand(inj'[o])
  BY <1>2, <1>3, HandMoves
<1> QED
  BY <1>4, <1>5, <1>6 DEF MessagesClear

LEMMA TapClear ==
  ASSUME Good, MessagesClear, DoubleTap
  PROVE  MessagesClear'
<1> DEFINE m == Given(current, Message(Nothing, "auto"), Resting)
<1>1. UNCHANGED <<inj, typing>> /\ sent' \in {sent, Append(sent, m)}
  BY Zenon DEF DoubleTap
<1>2. Clear(m)
  BY DEF Clear, Given, Message
<1> HIDE DEF m
<1>3. AllClear(sent')
  BY <1>1, <1>2, ClearEnds DEF MessagesClear, Good, Wellformed
<1> QED
  BY <1>1, <1>3 DEF MessagesClear

LEMMA WorkerClear ==
  ASSUME Good, MessagesClear, WorkerTypes
  PROVE  MessagesClear'
<1> DEFINE m == Head(typing).given
<1>1. typing # <<>> /\ typing' = Tail(typing) /\ UNCHANGED inj /\ sent' \in {sent, Append(sent, m)}
  BY DEF WorkerTypes, Nothing
<1>2. /\ Head(typing) = typing[1] /\ DOMAIN Tail(typing) = 1..(Len(typing) - 1)
      /\ \A k \in 1..(Len(typing) - 1) : Tail(typing)[k] = typing[k + 1]
      /\ DOMAIN typing = 1..Len(typing) /\ Len(typing) \in Nat /\ Len(typing) > 0
  BY <1>1, SequenceEnds DEF Good, Wellformed
<1>3. 1 \in DOMAIN typing /\ \A k \in 1..(Len(typing) - 1) : k + 1 \in DOMAIN typing
  BY <1>2
<1>4. Clear(m)
  BY <1>2, <1>3 DEF MessagesClear
<1> HIDE DEF m
<1>5. AllClear(sent')
  BY <1>1, <1>4, ClearEnds DEF MessagesClear, Good, Wellformed
<1>6. \A k \in DOMAIN typing' : "given" \in DOMAIN typing'[k] /\ Clear(typing'[k].given)
  BY <1>1, <1>2, <1>3 DEF MessagesClear
<1> QED
  BY <1>1, <1>5, <1>6 DEF MessagesClear

LEMMA TextStart == PathInit => TextInv
<1> SUFFICES ASSUME PathInit PROVE TextInv
  OBVIOUS
<1>1. /\ left \in Scenarios /\ speaking = FALSE /\ queue = <<>> /\ last = <<>>
      /\ inj = [th \in Thread |-> Resting] /\ typing = <<>> /\ sent = <<>>
  BY DEF PathInit, Nothing
<1>2. left \in [texts : Seq(Texts), current : Agents \cup {NoAgent}, muted : BOOLEAN,
                auto : BOOLEAN, taps : Nat, mutes : Nat, leaves : Nat, repeats : Nat]
  BY <1>1, ScenariosAssumption
<1>3. "texts" \in DOMAIN left /\ left.texts \in Seq(Texts)
  BY <1>2
<1>4. <<>> \in Texts /\ AllClear(<<>>) /\ DOMAIN <<>> = {}
  BY DEF Texts, AllClear
<1>5. InHand(Resting)
  BY <1>4 DEF InHand, Resting, Nothing
<1>6. TextsToCome
  BY <1>1, <1>3, <1>4, EmptyIsSeq DEF TextsToCome
<1>7. MessagesClear
  BY <1>1, <1>4, <1>5 DEF MessagesClear
<1> QED
  BY <1>6, <1>7, NoTapYet DEF TextInv

LEMMA TextStep == TextInv /\ [PathNext]_pathVars => TextInv'
<1> SUFFICES ASSUME Good, TextsToCome, MessagesClear, [PathNext]_pathVars PROVE TextInv'
  BY DEF TextInv
<1>1. Good' /\ TextsToCome'
  BY StepCounts, TextsStay
<1>2. CASE SpeechStarts \/ SpeechEnds \/ Mutes \/ Leaves \/ Transcribes \/ UNCHANGED pathVars
  <2>1. UNCHANGED <<inj, typing, sent>>
    BY <1>2 DEF SpeechStarts, SpeechEnds, Mutes, Leaves, Transcribes, pathVars
  <2> QED
    BY <1>1, <2>1 DEF MessagesClear, TextInv
<1>3. CASE Transcribed
  <2>1. queue # <<>> /\ Begins("controller", Head(queue).text, Head(queue).to) /\ UNCHANGED <<typing, sent>>
    BY <1>3 DEF Transcribed, Nothing
  <2>2. Head(queue) = queue[1] /\ 1 \in DOMAIN queue
    <3>1. Head(queue) = queue[1] /\ DOMAIN queue = 1..Len(queue) /\ Len(queue) \in Nat /\ Len(queue) > 0
      BY <2>1, SequenceEnds DEF TextsToCome
    <3> QED
      BY <3>1
  <2>3. Head(queue).text \in Texts
    BY <2>2 DEF TextsToCome
  <2> QED
    BY <1>1, <2>1, <2>3, BeginsClear DEF TextInv, Thread
<1>4. CASE resend_last
  <2>1. Begins("repeat", last, NoAgent) /\ UNCHANGED <<typing, sent>> /\ last \in Texts
    BY <1>4 DEF resend_last, TextsToCome
  <2> QED
    BY <1>1, <2>1, BeginsClear DEF TextInv, Thread
<1>5. ASSUME NEW th \in Thread, Step(th) PROVE MessagesClear'
  BY <1>5, PreparesClear, SendsClear, ThreadClear DEF Step
<1>6. CASE DoubleTap
  BY <1>1, <1>6, TapClear DEF TextInv
<1>7. CASE WorkerTypes
  BY <1>1, <1>7, WorkerClear DEF TextInv
<1> QED
  BY <1>1, <1>2, <1>3, <1>4, <1>5, <1>6, <1>7 DEF PathNext, TextInv

\* Whatever the texts, the triggers and the agents that may be named: no text that ends
\* with a submit trigger, all of it among the words that are scanned, is given to an
\* agent without a submit; neither a part of the trigger earlier in the text, nor a
\* command that was cut off behind it, nor the other thread makes the filter miss it.
THEOREM EndTriggersAreObeyed == PathSpec => []EndTriggerIsObeyed
<1>1. TextInv => EndTriggerIsObeyed
  BY DEF TextInv, MessagesClear, AllClear, Clear, EndTriggerIsObeyed
<1> QED
  BY <1>1, TextStart, TextStep, PTL DEF PathSpec
=============================================================================
