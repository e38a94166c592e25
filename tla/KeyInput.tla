------------------------------- MODULE KeyInput -------------------------------
(***************************************************************************)
(* The engine's own hotkey listener, where no launcher sends the key       *)
(* (hotkey/factory.py, evdev_listener.py, pynput_listener.py): which key   *)
(* of which device it reads, what it reports of the keys pressed there,    *)
(* and the captures of the settings page, which take the next key for      *)
(* themselves.  A capture is a thread of the server that shares two        *)
(* attributes with the listener's thread, without a lock.                  *)
(***************************************************************************)
EXTENDS Naturals, Sequences, SequencesExt

CONSTANTS
  KeyNames,      \* keys
  Hotkey,        \* the key that is configured
  Modifier,      \* the key that makes a mode switch of it, with evdev
  Unnamed,       \* keys without a name of their own, which nobody can choose
  Preferred,     \* the order of suggest_fallback_key
  DeviceLists,   \* what may be attached, in the order of evdev.list_devices
  Captures,      \* requests to capture a key
  NoKey, NoCapture

ASSUME KeyInputAssumption ==
  /\ Hotkey \in KeyNames /\ Modifier \in KeyNames /\ Unnamed \subseteq KeyNames
  /\ NoKey \notin KeyNames /\ NoCapture \notin Captures

VARIABLES
  devices,     \* the devices attached when the engine starts
  backend,     \* evdev or pynput
  listener,    \* the key it listens for, its device, and whether its thread runs
  down,        \* keys that are held
  modifier,    \* modifier_held
  capturing,   \* _capture_event
  captured,    \* _captured_key
  grabbed,     \* what the listener's thread is about to do with a key it captured
  captures,    \* each capture: where it is, what it answered
  woken,       \* events that were set
  unended,     \* history: presses reported since the last release reported
  crowded      \* history: captures that another has overlapped

keyVars == <<devices, backend, listener, down, modifier, capturing, captured, grabbed, captures,
             woken, unended, crowded>>

-----------------------------------------------------------------------------
(***************************************************************************)
(* The choice of the key and of its device.                                *)
(***************************************************************************)
Device == [named : BOOLEAN, excluded : BOOLEAN, keyboard : BOOLEAN, keys : SUBSET KeyNames]

\* The first and the last of a set of places in a list, 0 for none.
First(places) == IF places = {} THEN 0 ELSE CHOOSE i \in places : \A j \in places : i =< j
Latest(places) == IF places = {} THEN 0 ELSE CHOOSE i \in places : \A j \in places : i >= j

Skipped(d) == d.excluded /\ ~d.named
Having(list, key, Kind(_)) ==
  {i \in DOMAIN list : ~Skipped(list[i]) /\ key \in list[i].keys /\ Kind(list[i])}

\* _find_keyboard_device.  A name in the configuration keeps the search going
\* past the first keyboard, and the last one found is kept.
Found(list, key) ==
  LET target == \E i \in DOMAIN list : list[i].named
      users == Having(list, key, LAMBDA d : d.named)
      keyboards == Having(list, key, LAMBDA d : ~d.named /\ d.keyboard)
      others == Having(list, key, LAMBDA d : ~d.named /\ ~d.keyboard)
      fallbacks == {i \in DOMAIN list : ~list[i].excluded /\ list[i].keys # {}}
  IN IF users # {} THEN First(users)
     ELSE IF keyboards # {} THEN IF target THEN Latest(keyboards) ELSE First(keyboards)
     ELSE IF others # {} THEN First(others)
     ELSE First(fallbacks)

\* is_key_available: whatever the configuration names.
AvailableAnywhere(list, key) == \E i \in DOMAIN list : key \in list[i].keys
Available(list, key) == \E i \in DOMAIN list : ~list[i].excluded /\ key \in list[i].keys

\* suggest_fallback_key looks at every device.
Suggested(list) ==
  LET there == SelectSeq(Preferred, LAMBDA key : AvailableAnywhere(list, key))
  IN IF there = <<>> THEN NoKey ELSE Head(there)

\* create_hotkey_listener.
KeyFor(list) ==
  IF ~Available(list, Hotkey) /\ Suggested(list) # NoKey THEN Suggested(list) ELSE Hotkey

\* start: without any device the engine does not start.
KeyInit ==
  /\ devices \in DeviceLists
  /\ backend \in {"evdev", "pynput"}
  /\ listener = IF backend = "pynput" THEN [key |-> Hotkey, device |-> 0, on |-> TRUE]
                ELSE [key |-> KeyFor(devices), device |-> Found(devices, KeyFor(devices)), on |-> TRUE]
  /\ backend = "evdev" => listener.device # 0
  /\ down = {} /\ modifier = FALSE
  /\ capturing = NoCapture /\ captured = NoKey /\ grabbed = <<>>
  /\ captures = [c \in Captures |-> [pc |-> "idle", answer |-> NoKey]]
  /\ woken = {}
  /\ unended = 0
  /\ crowded = {}

-----------------------------------------------------------------------------
(***************************************************************************)
(* The listener's thread.                                                  *)
(***************************************************************************)
choice == <<devices, backend>>
captureVars == <<capturing, captured, captures, woken, crowded>>

Tracked(key) == backend = "evdev" /\ key = Modifier

\* A key goes down, or repeats: evdev tells the two apart.
Dispatches(key, again) ==
  IF Tracked(key)
    THEN modifier' = TRUE /\ UNCHANGED <<grabbed, unended>>
  ELSE IF key = listener.key
    THEN /\ unended' = IF modifier \/ (again /\ backend = "evdev") THEN unended ELSE unended + 1
         /\ UNCHANGED <<grabbed, modifier>>
  ELSE UNCHANGED <<grabbed, modifier, unended>>

\* What is done with a key that is captured; another thread may come between.
StatementsBackwards(key, c) == <<<<"set", c>>, <<"write", key>>>>
Statements(key, c) == <<<<"write", key>>, <<"set", c>>>>

\* Between captures a press is reported; during one it is swallowed.
Takes(key) ==
  /\ grabbed' = IF key \in Unnamed THEN <<>> ELSE Statements(key, capturing)
  /\ UNCHANGED <<modifier, unended>>

Presses(key) ==
  /\ listener.on /\ grabbed = <<>>
  /\ key \notin down
  /\ down' = down \cup {key}
  /\ IF capturing # NoCapture THEN Takes(key) ELSE Dispatches(key, FALSE)
  /\ UNCHANGED <<choice, listener, captureVars>>

Repeats(key) ==
  /\ listener.on /\ grabbed = <<>>
  /\ key \in down
  /\ IF capturing # NoCapture /\ backend = "pynput" THEN Takes(key) ELSE Dispatches(key, TRUE)
  /\ UNCHANGED <<choice, listener, down, captureVars>>

\* A release is reported, capture or not.
ReleasesUnlessCaptured(key) ==
  /\ listener.on /\ grabbed = <<>>
  /\ key \in down
  /\ down' = down \ {key}
  /\ IF capturing # NoCapture THEN UNCHANGED <<modifier, unended>>
     ELSE /\ modifier' = (modifier /\ ~Tracked(key))
          /\ unended' = IF key = listener.key THEN 0 ELSE unended
  /\ UNCHANGED <<choice, listener, grabbed, captureVars>>
Releases(key) ==
  /\ listener.on /\ grabbed = <<>>
  /\ key \in down
  /\ down' = down \ {key}
  /\ modifier' = (modifier /\ ~Tracked(key))
  /\ unended' = IF key = listener.key THEN 0 ELSE unended
  /\ UNCHANGED <<choice, listener, grabbed, captureVars>>

HandsOver ==
  /\ grabbed # <<>>
  /\ grabbed' = Tail(grabbed)
  /\ LET statement == Head(grabbed)
     IN IF statement[1] = "write"
          THEN captured' = statement[2] /\ UNCHANGED woken
          ELSE woken' = woken \cup {statement[2]} /\ UNCHANGED captured
  /\ UNCHANGED <<choice, listener, down, modifier, capturing, captures, unended, crowded>>

\* The device is unplugged: the thread ends, for good.
Unplugged ==
  /\ listener.on /\ backend = "evdev" /\ grabbed = <<>>
  /\ listener' = [listener EXCEPT !.on = FALSE]
  /\ UNCHANGED <<choice, down, modifier, grabbed, captureVars, unended>>

-----------------------------------------------------------------------------
(***************************************************************************)
(* capture_next_key, in the thread of a request.                           *)
(***************************************************************************)
At(c, pc) == captures[c].pc = pc
Moves(c, pc) == captures' = [captures EXCEPT ![c].pc = pc]
Under == {c \in Captures : ~At(c, "idle") /\ ~At(c, "over")}
keys == <<choice, listener, down, modifier, grabbed, unended>>

\* Without a listener that runs the answer is no key at once.
Asks(c) ==
  /\ At(c, "idle")
  /\ IF ~listener.on
       THEN Moves(c, "over") /\ UNCHANGED <<captured, crowded>>
       ELSE /\ Moves(c, "asking")
            /\ captured' = NoKey
            /\ crowded' = IF Under = {} THEN crowded ELSE crowded \cup Under \cup {c}
  /\ UNCHANGED <<keys, capturing, woken>>

Arms(c) ==
  /\ At(c, "asking") /\ Moves(c, "waiting")
  /\ capturing' = c
  /\ UNCHANGED <<keys, captured, woken, crowded>>

\* The event is set, or the time is over.
WaitEnds(c) ==
  /\ At(c, "waiting") /\ Moves(c, IF c \in woken THEN "woken" ELSE "late")
  /\ capturing' = NoCapture
  /\ UNCHANGED <<keys, captured, woken, crowded>>

Answers(c) ==
  /\ At(c, "woken") \/ At(c, "late")
  /\ captures' = [captures EXCEPT ![c] = [pc |-> "over", answer |-> captured]]
  /\ UNCHANGED <<keys, capturing, captured, woken, crowded>>

\* The engine goes, with its threads.
KeysEnd ==
  /\ listener' = [listener EXCEPT !.on = FALSE]
  /\ captures' = [c \in Captures |-> IF At(c, "idle") THEN captures[c] ELSE [captures[c] EXCEPT !.pc = "over"]]
  /\ grabbed' = <<>> /\ capturing' = NoCapture
  /\ UNCHANGED <<choice, down, modifier, captured, woken, unended, crowded>>

KeyStep == HandsOver \/ \E c \in Captures : Arms(c) \/ WaitEnds(c) \/ Answers(c)
KeyPress == \E key \in KeyNames : Presses(key) \/ Repeats(key) \/ Releases(key)

-----------------------------------------------------------------------------
(***************************************************************************)
(* Properties.                                                             *)
(***************************************************************************)
\* A capture that a key press has ended, and no other has overlapped, answers a key.
WakeHasKey ==
  \A c \in Captures \ crowded :
    At(c, "woken") => captured # NoKey

\* Captures swallow presses, and the tap detector counts on a release for each one
\* that it hears of: there are never two without a release between them.
PressEnds == backend = "evdev" => unended =< 1

\* A key that is on a usable device is the key listened for, there, and on the
\* device of the configuration if it is on that one.
KeyIsHeard ==
  backend = "evdev" /\ Available(devices, Hotkey) =>
    /\ listener.key = Hotkey
    /\ Hotkey \in devices[listener.device].keys
    /\ (\E i \in DOMAIN devices : devices[i].named /\ Hotkey \in devices[i].keys)
         => devices[listener.device].named

\* create_hotkey_listener: "Check if key is available, suggest fallback if not".
ListenedKeyExists == backend = "evdev" => listener.key \in devices[listener.device].keys

\* is_key_available: "Uses the same filtering and prioritization as
\* _find_keyboard_device()".
NamedDeviceCounts ==
  backend = "evdev" /\ (\E i \in DOMAIN devices : devices[i].named /\ Hotkey \in devices[i].keys)
    => listener.key = Hotkey

\* capture_next_key: "Capture the next physical key press".
EveryWakeHasKey == \A c \in Captures : At(c, "woken") => captured # NoKey
=============================================================================
