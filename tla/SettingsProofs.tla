----------------------------- MODULE SettingsProofs -----------------------------
(***************************************************************************)
(* Proofs about what the settings page and the commands change, for every  *)
(* keyboard, any number of captures and of launchers, and every order of   *)
(* commands: a capture that is woken has its key, and a signed launcher    *)
(* stays.                                                                  *)
(***************************************************************************)
EXTENDS Settings, FiniteSetTheorems, SequenceTheorems, TLAPS

-----------------------------------------------------------------------------
(***************************************************************************)
(* Captures.                                                               *)
(***************************************************************************)
Grabs(c) == {Statements(key, c) : key \in KeyNames} \cup {<<<<"set", c>>>>}

CaptureTypes ==
  /\ captured \in KeyNames \cup {NoKey}
  /\ capturing \in Captures \cup {NoCapture}
  /\ captures \in [Captures -> [pc : {"idle", "asking", "waiting", "woken", "late", "over"},
                                answer : KeyNames \cup {NoKey}]]
  /\ woken \subseteq Captures /\ crowded \subseteq Captures
  /\ grabbed = <<>> \/ \E c \in Captures : grabbed \in Grabs(c)

\* A capture that has not begun has left no trace, and where no other overlaps
\* one that is under way, the key is there from the moment it is written.
CapturesSound ==
  /\ \A c \in Captures : At(c, "idle") => capturing # c /\ c \notin woken /\ grabbed \notin Grabs(c)
  /\ \A c \in Under \ crowded : Under = {c}
  /\ \A c \in Under \ crowded : (c \in woken \/ grabbed = <<<<"set", c>>>>) => captured # NoKey
  /\ \A c \in Captures : At(c, "woken") => c \in woken

CaptureInv == CaptureTypes /\ CapturesSound

\* A capture that begins, alone or beside others.
LEMMA AsksKeeps ==
  ASSUME CaptureInv, NEW c \in Captures, Asks(c)
  PROVE  CaptureInv'
<1> USE KeyInputAssumption DEF CaptureInv, CaptureTypes, Asks, Moves, At, keys
<1>1. CASE ~listener.on
  <2>1. CaptureTypes'
    BY <1>1
  <2>2. Under' = Under
    BY <1>1 DEF Under
  <2>3. CapturesSound'
    BY <1>1, <2>2 DEF CapturesSound, Grabs, Statements
  <2> QED
    BY <2>1, <2>3
<1>2. CASE listener.on
  <2>1. CaptureTypes'
    BY <1>2 DEF Under
  <2>2. Under' = Under \cup {c}
    BY <1>2 DEF Under
  <2>3. crowded' = IF Under = {} THEN crowded ELSE crowded \cup Under \cup {c}
    BY <1>2
  <2>4. \A d \in Under' \ crowded' : Under = {} /\ d = c
    BY <2>2, <2>3
  <2>5. c \notin woken /\ grabbed \notin Grabs(c)
    BY DEF CapturesSound
  <2>6. UNCHANGED <<woken, grabbed, capturing>>
    BY <1>2
  <2>7. grabbed # <<<<"set", c>>>>
    BY <2>5 DEF Grabs
  <2>8. \A d \in Captures : At(d, "idle")' => At(d, "idle")
    BY <1>2
  <2>9. \A d \in Captures : At(d, "woken")' => At(d, "woken")
    BY <1>2
  <2>10. \A d \in Captures : At(d, "idle")' => (capturing # d /\ d \notin woken /\ grabbed \notin Grabs(d))'
    BY <2>6, <2>8 DEF CapturesSound, Grabs, Statements
  <2>11. \A d \in Under' \ crowded' : Under' = {d}
    BY <2>2, <2>4
  <2>12. \A d \in Under' \ crowded' : ~(d \in woken' \/ grabbed' = <<<<"set", d>>>>)
    BY <2>4, <2>5, <2>6, <2>7
  <2>13. \A d \in Captures : At(d, "woken")' => d \in woken'
    BY <2>6, <2>9 DEF CapturesSound
  <2> QED
    BY <2>1, <2>10, <2>11, <2>12, <2>13 DEF CapturesSound
<1> QED
  BY <1>1, <1>2

\* A key goes down, repeats or goes up.
LEMMA KeyPressKeeps ==
  ASSUME CaptureInv, NEW key \in KeyNames, Presses(key) \/ Repeats(key) \/ Releases(key)
  PROVE  CaptureInv'
<1> USE KeyInputAssumption
<1>1. UNCHANGED captureVars
  BY DEF Presses, Repeats, Releases
<1>2. Under' = Under
  BY <1>1 DEF Under, At, captureVars
<1>3. grabbed' = grabbed \/ (capturing \in Captures /\ grabbed' \in {<<>>, Statements(key, capturing)})
  BY DEF Presses, Repeats, Releases, Takes, Dispatches, CaptureInv, CaptureTypes
<1>4. CASE grabbed' = grabbed
  BY <1>1, <1>2, <1>4 DEF CaptureInv, CaptureTypes, CapturesSound, captureVars, At, Grabs, Statements
<1>5. CASE capturing \in Captures /\ grabbed' \in {<<>>, Statements(key, capturing)}
  <2>1. CaptureTypes'
    BY <1>1, <1>5 DEF CaptureInv, CaptureTypes, captureVars, Grabs, Statements
  <2>2. \A c \in Captures : c # capturing => grabbed' \notin Grabs(c)
    BY <1>5 DEF Grabs, Statements
  <2>3. \A c \in Captures : grabbed' # <<<<"set", c>>>>
    BY <1>5 DEF Statements
  <2>4. UNCHANGED <<capturing, captured, captures, woken, crowded>>
    BY <1>1 DEF captureVars
  <2>5. \A c \in Captures : At(c, "idle")' => (capturing # c /\ c \notin woken)' /\ grabbed' \notin Grabs(c)
    BY <2>2, <2>4 DEF CaptureInv, CapturesSound, At
  <2>6. \A c \in Captures : Grabs(c)' = Grabs(c)
    BY DEF Grabs, Statements
  <2>7. \A c \in Under' \ crowded' : Under' = {c} /\ (c \in woken' => captured' # NoKey)
    BY <1>2, <2>4 DEF CaptureInv, CapturesSound
  <2>8. \A c \in Captures : At(c, "woken")' => c \in woken'
    BY <2>4 DEF CaptureInv, CapturesSound, At
  <2>9. Under' \subseteq Captures
    BY DEF Under
  <2>10. CapturesSound'
    BY <2>3, <2>5, <2>6, <2>7, <2>8, <2>9 DEF CapturesSound
  <2> QED
    BY <2>1, <2>10 DEF CaptureInv
<1> QED
  BY <1>3, <1>4, <1>5

\* The listener's thread writes the key, then sets the event.
LEMMA HandsOverKeeps ==
  ASSUME CaptureInv, HandsOver
  PROVE  CaptureInv'
<1> USE KeyInputAssumption
<1>1. PICK c \in Captures : grabbed \in Grabs(c)
  BY DEF CaptureInv, CaptureTypes, HandsOver
<1>2. UNCHANGED <<capturing, captures, crowded>> /\ Under' = Under
  BY DEF HandsOver, Under, At
<1>3. ~At(c, "idle")
  BY <1>1 DEF CaptureInv, CapturesSound
<1>4. CASE \E key \in KeyNames : grabbed = Statements(key, c)
  <2>1. PICK key \in KeyNames : grabbed = <<<<"write", key>>, <<"set", c>>>>
    BY <1>4 DEF Statements
  <2>2. captured' = key /\ woken' = woken /\ grabbed' = <<<<"set", c>>>>
    BY <2>1 DEF HandsOver
  <2>3. CaptureTypes'
    BY <1>2, <2>2 DEF CaptureInv, CaptureTypes, Grabs
  <2>4. \A d \in Captures : d # c => grabbed' \notin Grabs(d)
    BY <2>2 DEF Grabs, Statements
  <2>5. captured' # NoKey
    BY <2>2
  <2>6. CapturesSound'
    BY <1>2, <1>3, <2>2, <2>4, <2>5 DEF CaptureInv, CapturesSound, At, Grabs, Statements
  <2> QED
    BY <2>3, <2>6 DEF CaptureInv
<1>5. CASE grabbed = <<<<"set", c>>>>
  <2>1. captured' = captured /\ woken' = woken \cup {c} /\ grabbed' = <<>>
    BY <1>5 DEF HandsOver
  <2>2. CaptureTypes'
    BY <1>2, <2>1 DEF CaptureInv, CaptureTypes
  <2>3. \A d \in Captures : grabbed' \notin Grabs(d) /\ grabbed' # <<<<"set", d>>>>
    BY <2>1 DEF Grabs, Statements
  <2>4. CapturesSound'
    BY <1>2, <1>3, <1>5, <2>1, <2>3 DEF CaptureInv, CapturesSound, At, Grabs, Statements
  <2> QED
    BY <2>2, <2>4 DEF CaptureInv
<1> QED
  BY <1>1, <1>4, <1>5 DEF Grabs

\* The rest of a capture.
LEMMA CaptureStepKeeps ==
  ASSUME CaptureInv, NEW c \in Captures, Arms(c) \/ WaitEnds(c) \/ Answers(c)
  PROVE  CaptureInv'
<1> USE KeyInputAssumption DEF CaptureInv, CaptureTypes, Moves, At, keys
<1>1. UNCHANGED <<grabbed, captured, woken, crowded>>
  BY DEF Arms, WaitEnds, Answers
<1>2. CaptureTypes'
  BY <1>1 DEF Arms, WaitEnds, Answers, Grabs, Statements
<1>3. Under' = Under \/ Under' = Under \ {c}
  BY DEF Arms, WaitEnds, Answers, Under
<1>4. ~At(c, "idle") /\ ~At(c, "idle")'
  BY DEF Arms, WaitEnds, Answers
<1>5. \A d \in Captures : d # c => captures'[d] = captures[d]
  BY DEF Arms, WaitEnds, Answers
<1>6. \A d \in Captures : At(d, "idle")' => At(d, "idle") /\ capturing' # d
  BY <1>4, <1>5 DEF Arms, WaitEnds, Answers, CapturesSound
<1>7. \A d \in Captures : At(d, "woken")' => d \in woken
  BY <1>5 DEF Arms, WaitEnds, Answers, CapturesSound
<1>8. \A d \in Under' \ crowded' : d \in Under \ crowded /\ Under' = {d}
  BY <1>1, <1>3 DEF CapturesSound
<1> QED
  BY <1>1, <1>2, <1>6, <1>7, <1>8 DEF CapturesSound, Grabs, Statements

\* The engine goes.
LEMMA KeysEndKeeps ==
  ASSUME CaptureInv, KeysEnd
  PROVE  CaptureInv'
<1> USE KeyInputAssumption DEF CaptureInv, CaptureTypes, At
<1>1. CaptureTypes'
  BY DEF KeysEnd
<1>2. Under' = {}
  BY DEF KeysEnd, Under
<1>3. \A d \in Captures : At(d, "idle")' => At(d, "idle")
  BY DEF KeysEnd
<1>4. \A d \in Captures : ~At(d, "woken")'
  BY DEF KeysEnd
<1>5. grabbed' = <<>> /\ capturing' = NoCapture /\ woken' = woken
  BY DEF KeysEnd
<1>6. \A d \in Captures : grabbed' \notin Grabs(d)
  BY <1>5 DEF Grabs, Statements
<1> QED
  BY <1>1, <1>2, <1>3, <1>4, <1>5, <1>6 DEF CapturesSound, Grabs, Statements

LEMMA CapturesUntouched ==
  ASSUME CaptureInv, UNCHANGED <<capturing, captured, captures, woken, crowded, grabbed>>
  PROVE  CaptureInv'
BY DEF CaptureInv, CaptureTypes, CapturesSound, Under, At, Grabs, Statements

LEMMA CaptureInit ==
  ASSUME Init
  PROVE  CaptureInv
BY KeyInputAssumption DEF Init, KeyInit, CaptureInv, CaptureTypes, CapturesSound, Under, At, Grabs,
  Statements

LEMMA CaptureNext ==
  ASSUME CaptureInv, [Next]_vars
  PROVE  CaptureInv'
<1>1. CASE EditStep
  BY <1>1, CapturesUntouched DEF EditStep, keyVars
<1>2. CASE ListenStep
  <2>1. CASE KeyPress
    BY <2>1, KeyPressKeeps DEF KeyPress
  <2>2. CASE \E c \in Captures : Asks(c)
    BY <2>2, AsksKeeps
  <2>3. CASE Unplugged
    BY <2>3, CapturesUntouched DEF Unplugged, captureVars
  <2>4. CASE KeyStep
    BY <2>4, HandsOverKeeps, CaptureStepKeeps DEF KeyStep
  <2> QED
    BY <1>2, <2>1, <2>2, <2>3, <2>4 DEF ListenStep
<1>3. CASE ServiceStep
  <2>1. WithEngine
    BY <1>3 DEF ServiceStep
  <2> QED
    BY <2>1, KeysEndKeeps, CapturesUntouched DEF WithEngine, keyVars
<1>4. CASE UNCHANGED vars
  BY <1>4, CapturesUntouched DEF vars, keyVars
<1> QED
  BY <1>1, <1>2, <1>3, <1>4 DEF Next

\* capture_next_key: a capture that a key press has ended, and no other has
\* overlapped, answers a key, wherever the listener's thread comes between its steps.
THEOREM WokenCapturesHaveKey == Spec => []WakeHasKey
<1>1. CaptureInv => WakeHasKey
  BY DEF CaptureInv, CaptureTypes, CapturesSound, WakeHasKey, Under, At
<1>2. Spec => []CaptureInv
  BY CaptureInit, CaptureNext, PTL DEF Spec
<1> QED
  BY <1>1, <1>2, PTL

-----------------------------------------------------------------------------
(***************************************************************************)
(* The signed launcher.                                                    *)
(***************************************************************************)
\* The steps of the commands: those that replace the bundle, the others, and the
\* last ones.
Removing == {"remove-app", "launcher"}
Copying == {"copy", "end-copy"}
OnApp == Removing \cup Copying
Harmless ==
  {"sync-path", "remove-path", "path", "bundle", "mark", "hash", "migrate", "migrate-by-force", "unbundle",
   "plist", "unplist", "unlink", "look", "stop-as-found", "stop-if-loaded", "load-if-not", "load",
   "unload", "end-engine", "kill-engine", "kill-launchers", "unload-tray-if-loaded", "tray-plist",
   "load-tray", "uninstall-tray", "unload-tray", "unlink-tray"}
Names == ShellCommands \cup SwitchCommands
OffApp == Harmless \cup Names
Steps == OnApp \cup OffApp

Avoids(s, steps) == \A i \in DOMAIN s : s[i] \notin steps

\* The bundle is removed by the next step or by none, and a launcher is put there
\* at once or next behind that.
Formed(s) ==
  \A i \in DOMAIN s :
    /\ s[i] = "remove-app" => i = 1
    /\ s[i] = "launcher" => i = 1 \/ (i = 2 /\ s[1] = "remove-app")

AppType ==
  /\ home \in Homes
  /\ BundleTypeOK

\* A launcher that is trusted, where Homebrew has none to copy, is there with its mark.
AppSound ==
  /\ SignedStays
  /\ trusted /\ home.cellar = NoSource => app.launcher = "signed" /\ app.mark # {}

\* Where a command runs alone and nothing was brought, it does not replace a
\* launcher that is trusted, for the steps that would are not among its own.
TodoSound ==
  /\ todo \in [Runners -> Seq(Steps)]
  /\ \A r \in Runners : Formed(todo[r])
  /\ ~disturbed => \A r, q \in Runners : Busy(r) /\ Busy(q) => r = q
  /\ home.cellar = NoSource => \A r \in Runners : Avoids(todo[r], Copying)
  /\ trusted /\ home.cellar = NoSource /\ ~disturbed =>
       \A r \in Runners : brought[r] = "none" => Avoids(todo[r], Removing)

SignedInv == AppType /\ AppSound /\ TodoSound

-----------------------------------------------------------------------------
LEMMA AvoidsTail ==
  ASSUME NEW s \in Seq(Steps), s # <<>>, NEW steps, Avoids(s, steps)
  PROVE  /\ Tail(s) \in Seq(Steps)
         /\ Avoids(Tail(s), steps)
         /\ Head(s) \notin steps
BY DEF Avoids

LEMMA AvoidsConcat ==
  ASSUME NEW s \in Seq(Steps), NEW t \in Seq(Steps), NEW steps, Avoids(s, steps), Avoids(t, steps)
  PROVE  s \o t \in Seq(Steps) /\ Avoids(s \o t, steps)
<1>1. ASSUME NEW i \in 1..Len(s \o t) PROVE (s \o t)[i] \notin steps
  <2>1. CASE i =< Len(s)
    BY <2>1 DEF Avoids
  <2>2. CASE i > Len(s)
    <3>1. (s \o t)[i] = t[i - Len(s)] /\ i - Len(s) \in 1..Len(t)
      BY <2>2
    <3> QED
      BY <3>1 DEF Avoids
  <2> QED
    BY <2>1, <2>2
<1> QED
  BY <1>1 DEF Avoids

LEMMA Few ==
  ASSUME NEW S, NEW a \in S, NEW b \in S
  PROVE  <<>> \in Seq(S) /\ <<a>> \in Seq(S) /\ <<a, b>> \in Seq(S)
OBVIOUS

LEMMA HarmlessAvoids ==
  ASSUME NEW s \in Seq(Harmless)
  PROVE  s \in Seq(Steps) /\ Avoids(s, Removing) /\ Avoids(s, Copying) /\ Avoids(s, Names)
<1>1. Harmless \cap OnApp = {} /\ Harmless \cap Names = {}
  BY DEF Harmless, OnApp, Removing, Copying, Names, ShellCommands, SwitchCommands
<1>2. \A i \in DOMAIN s : s[i] \in Harmless
  OBVIOUS
<1>3. s \in Seq(Steps)
  BY DEF Steps, OffApp
<1> QED
  BY <1>1, <1>2, <1>3 DEF Avoids, OnApp

LEMMA FormedTail ==
  ASSUME NEW s \in Seq(Steps), s # <<>>, Formed(s)
  PROVE  Formed(Tail(s)) /\ (Head(s) # "remove-app" => Avoids(Tail(s), Removing))
<1> DEFINE t == Tail(s)
<1>1. \A i \in DOMAIN t : i \in Nat /\ i >= 1 /\ i + 1 \in DOMAIN s /\ t[i] = s[i + 1]
  OBVIOUS
<1>2. s[1] = Head(s)
  OBVIOUS
<1> HIDE DEF t
<1>3. ASSUME NEW i \in DOMAIN t
      PROVE  t[i] # "remove-app" /\ (t[i] = "launcher" => i = 1 /\ s[1] = "remove-app")
  <2>1. i \in Nat /\ i >= 1 /\ i + 1 \in DOMAIN s /\ t[i] = s[i + 1]
    BY <1>1
  <2>2. (s[i + 1] = "remove-app" => i + 1 = 1)
        /\ (s[i + 1] = "launcher" => i + 1 = 1 \/ (i + 1 = 2 /\ s[1] = "remove-app"))
    BY <2>1 DEF Formed
  <2> QED
    BY <2>1, <2>2
<1>4. Formed(t)
  BY <1>3 DEF Formed
<1>5. ASSUME Head(s) # "remove-app" PROVE Avoids(t, Removing)
  BY <1>2, <1>3, <1>5 DEF Avoids, Removing
<1> QED
  BY <1>4, <1>5 DEF t

LEMMA SettledFormed ==
  ASSUME NEW s, Avoids(s, Removing)
  PROVE  Formed(s)
<1>1. \A i \in DOMAIN s : s[i] # "remove-app" /\ s[i] # "launcher"
  BY DEF Avoids, Removing
<1> QED
  BY <1>1 DEF Formed

LEMMA RemovesFormed ==
  ASSUME NEW s \in Seq(Steps), Avoids(s, Removing), NEW front \in Seq(Steps), Len(front) = 2,
         front[1] = "remove-app", front[2] # "remove-app"
  PROVE  front \o s \in Seq(Steps) /\ Formed(front \o s)
<1> DEFINE t == front \o s
<1>0. /\ t \in Seq(Steps) /\ Len(t) = Len(front) + Len(s)
      /\ \A i \in 1..(Len(front) + Len(s)) : t[i] = IF i <= Len(front) THEN front[i] ELSE s[i - Len(front)]
  BY ConcatProperties
<1> HIDE DEF t
<1>1. t \in Seq(Steps) /\ Len(t) = Len(s) + 2 /\ Len(s) \in Nat
  BY <1>0
<1>2. t[1] = front[1] /\ t[2] = front[2]
  BY <1>0, <1>1
<1>3. \A i \in 1..Len(t) : i > 2 => t[i] = s[i - 2] /\ i - 2 \in DOMAIN s
  BY <1>0, <1>1
<1>4. DOMAIN t = 1..Len(t)
  BY <1>1
<1>5. ASSUME NEW i \in DOMAIN t
      PROVE  /\ t[i] = "remove-app" => i = 1 \/ i = 2
             /\ t[i] = "launcher" => i = 1 \/ i = 2
  <2>1. CASE i > 2
    BY <1>3, <1>4, <2>1 DEF Avoids, Removing
  <2>2. CASE i =< 2
    BY <1>1, <1>4, <2>2
  <2> QED
    BY <1>1, <1>4, <2>1, <2>2
<1>6. Formed(t)
  BY <1>2, <1>5 DEF Formed
<1> QED
  BY <1>1, <1>6 DEF t

LEMMA PlansHarmless ==
  ASSUME NEW c \in Names
  PROVE  Plan(c) \in Seq(Harmless)
<1>1. InstallTray \in Seq(Harmless)
  BY DEF InstallTray, Harmless
<1>2. Install \in Seq(Harmless)
  <2> DEFINE front == <<"sync-path", "remove-path", "path", "bundle", "plist", "stop-if-loaded",
                        "kill-engine", "kill-launchers", "load">>
  <2>1. front \in Seq(Harmless)
    BY DEF Harmless
  <2> QED
    BY <1>1, <2>1 DEF Install
<1>3. Uninstall \in Seq(Harmless) /\ StartService \in Seq(Harmless) /\ StopService \in Seq(Harmless)
  BY DEF Uninstall, StartService, StopService, Harmless
<1>4. <<>> \in Seq(Harmless)
  OBVIOUS
<1>6. CASE c \in {"install", "uninstall", "start", "stop"}
  BY <1>2, <1>3, <1>6 DEF Plan
<1>7. CASE c = "restart"
  <2>1. StopService \o StartService \in Seq(Harmless)
    BY <1>3, ConcatProperties
  <2>2. Plan(c) = StopService \o StartService
    BY <1>7 DEF Plan
  <2> QED
    BY <2>1, <2>2
<1>8. CASE c \in {"repair", "repair-no-start", "repair-force"}
  <2> DEFINE migrate == IF c = "repair-force" THEN "migrate-by-force" ELSE "migrate"
             stop == IF c = "repair-no-start" THEN "stop-if-loaded" ELSE "stop-as-found"
             path == IF home.store THEN <<"path">> ELSE <<>>
             look == <<migrate, "look", "stop-if-loaded">>
             end == <<stop>>
  <2>1. Plan(c) = path \o look \o Install \o end
    BY <1>8 DEF Plan
  <2>2. path \in Seq(Harmless) /\ look \in Seq(Harmless) /\ end \in Seq(Harmless)
    <3>1. /\ migrate \in Harmless /\ stop \in Harmless
          /\ "path" \in Harmless /\ "look" \in Harmless /\ "stop-if-loaded" \in Harmless
      BY DEF Harmless
    <3> HIDE DEF migrate, stop
    <3>2. path \in Seq(Harmless)
      BY <3>1
    <3>3. look \in Seq(Harmless)
      BY <3>1
    <3>4. end \in Seq(Harmless)
      BY <3>1
    <3> QED
      BY <3>2, <3>3, <3>4
  <2> HIDE DEF path, look, end
  <2>3. path \o look \in Seq(Harmless)
    BY <2>2
  <2>4. path \o look \o Install \in Seq(Harmless)
    BY <1>2, <2>3
  <2>5. path \o look \o Install \o end \in Seq(Harmless)
    BY <2>2, <2>4
  <2> QED
    BY <2>1, <2>5
<1>9. CASE c = "enable"
  <2> DEFINE install == IF plist THEN <<>> ELSE Install
  <2>1. install \in Seq(Harmless)
    BY <1>2, <1>4
  <2>2. Plan(c) = install \o InstallTray
    BY <1>9 DEF Plan
  <2> HIDE DEF install
  <2>3. install \o InstallTray \in Seq(Harmless)
    BY <1>1, <2>1
  <2> QED
    BY <2>2, <2>3
<1>10. CASE c = "disable"
  <2>1. <<"uninstall-tray">> \in Seq(Harmless)
    BY DEF Harmless
  <2>2. <<"uninstall-tray">> \o Uninstall \in Seq(Harmless)
    BY <1>3, <2>1
  <2>3. Plan(c) = <<"uninstall-tray">> \o Uninstall
    BY <1>10 DEF Plan
  <2> QED
    BY <2>2, <2>3
<1> QED
  BY <1>6, <1>7, <1>8, <1>9, <1>10 DEF Names, ShellCommands, SwitchCommands

-----------------------------------------------------------------------------
\* What a runner has left of its steps after one that adds none that replace the
\* bundle, or after it has ended.
Shorter(r) ==
  \/ todo'[r] = todo[r] \/ todo'[r] = <<>>
  \/ /\ Busy(r) /\ Head(todo[r]) \in OffApp
     /\ \E s \in Seq(Harmless) : todo'[r] = s \o Tail(todo[r])

\* The steps a runner has left are sound, whichever way it went on.
LEMMA ShorterSound ==
  ASSUME TodoSound, NEW r \in Runners, Shorter(r)
  PROVE  /\ todo'[r] \in Seq(Steps)
         /\ Formed(todo'[r])
         /\ \A steps \in {Removing, Copying} : Avoids(todo[r], steps) => Avoids(todo'[r], steps)
         /\ todo'[r] # <<>> => Busy(r)
<1>1. todo[r] \in Seq(Steps) /\ Formed(todo[r])
  BY DEF TodoSound
<1>2. CASE todo'[r] = todo[r]
  BY <1>1, <1>2 DEF Busy
<1>3. CASE todo'[r] = <<>>
  BY <1>3 DEF Formed, Avoids
<1>4. CASE /\ Busy(r) /\ Head(todo[r]) \in OffApp
           /\ \E s \in Seq(Harmless) : todo'[r] = s \o Tail(todo[r])
  <2>1. PICK s \in Seq(Harmless) : todo'[r] = s \o Tail(todo[r])
    BY <1>4
  <2>2. s \in Seq(Steps) /\ Avoids(s, Removing) /\ Avoids(s, Copying)
    BY HarmlessAvoids
  <2>3. Head(todo[r]) # "remove-app"
    BY <1>4 DEF OffApp, Harmless, Names, ShellCommands, SwitchCommands
  <2>4. Tail(todo[r]) \in Seq(Steps) /\ Avoids(Tail(todo[r]), Removing)
    BY <1>1, <1>4, <2>3, FormedTail DEF Busy
  <2>5. Avoids(todo'[r], Removing) /\ todo'[r] \in Seq(Steps)
    BY <2>1, <2>2, <2>4, AvoidsConcat
  <2>6. Avoids(todo[r], Copying) => Avoids(todo'[r], Copying)
    <3> HAVE Avoids(todo[r], Copying)
    <3>1. Avoids(Tail(todo[r]), Copying)
      BY <1>1, <1>4, AvoidsTail DEF Busy
    <3> QED
      BY <2>1, <2>2, <2>4, <3>1, AvoidsConcat
  <2> QED
    BY <1>4, <2>5, <2>6, SettledFormed
<1> QED
  BY <1>2, <1>3, <1>4 DEF Shorter

\* A step that leaves the bundle alone, and the commands as they were or shorter.
LEMMA BundleUntouched ==
  ASSUME SignedInv,
         UNCHANGED <<home, app, trusted, brought>>, BundleTypeOK', todo' = [r \in Runners |-> todo'[r]],
         \A r \in Runners : Shorter(r),
         ~disturbed' => ~disturbed \/ (\A r \in Runners : todo'[r] = <<>>)
  PROVE  SignedInv'
<1>1. \A r \in Runners : /\ todo'[r] \in Seq(Steps)
                         /\ Formed(todo'[r])
                         /\ Avoids(todo[r], Removing) => Avoids(todo'[r], Removing)
                         /\ Avoids(todo[r], Copying) => Avoids(todo'[r], Copying)
                         /\ Busy(r)' => Busy(r)
  BY ShorterSound DEF SignedInv, Busy
<1>2. AppType' /\ AppSound'
  BY DEF SignedInv, AppType, AppSound, SignedStays
<1>3. todo' \in [Runners -> Seq(Steps)]
  BY <1>1
<1>4. (\A r \in Runners : todo'[r] = <<>>) => (\A r \in Runners : ~Busy(r)' /\ Avoids(todo'[r], Removing))
  BY DEF Busy, Avoids
<1>5. TodoSound'
  BY <1>1, <1>3, <1>4 DEF SignedInv, TodoSound
<1> QED
  BY <1>2, <1>5 DEF SignedInv

-----------------------------------------------------------------------------
\* One runner goes on, whatever harmless steps are put in front of the others.
LEMMA ThenShorter ==
  ASSUME TodoSound, NEW r \in Runners, Busy(r), Head(todo[r]) \in OffApp,
         NEW s \in Seq(Harmless), Then(r, s)
  PROVE  todo' = [q \in Runners |-> todo'[q]] /\ \A q \in Runners : Shorter(q)
BY DEF TodoSound, Then, Shorter

LEMMA GoesShorter ==
  ASSUME TodoSound, NEW r \in Runners, Busy(r), Head(todo[r]) \in OffApp, Goes(r)
  PROVE  todo' = [q \in Runners |-> todo'[q]] /\ \A q \in Runners : Shorter(q)
<1>1. <<>> \in Seq(Harmless)
  OBVIOUS
<1> QED
  BY <1>1, ThenShorter DEF Goes

\* The same, where the engine takes the switch with it.
LEMMA DiesShorter ==
  ASSUME TodoSound, NEW r \in Runners, Busy(r), Head(todo[r]) \in OffApp,
         todo' = [SwitchDies(r) EXCEPT !["shell"] = IF r = "shell" THEN Tail(@) ELSE @]
  PROVE  todo' = [q \in Runners |-> todo'[q]] /\ \A q \in Runners : Shorter(q)
<1>1. todo \in [Runners -> Seq(Steps)] /\ DOMAIN todo' = Runners
  BY DEF TodoSound, SwitchDies
<1>2. todo'["switch"] = <<>>
  BY <1>1 DEF SwitchDies, Runners
<1>3. todo'["shell"] = IF r = "shell" THEN Tail(todo["shell"]) ELSE todo["shell"]
  BY <1>1 DEF SwitchDies, Runners
<1>4. r = "shell" => Tail(todo["shell"]) = <<>> \o Tail(todo["shell"]) /\ <<>> \in Seq(Harmless)
  <2>1. ASSUME r = "shell" PROVE Tail(todo["shell"]) \in Seq(Steps)
    BY <1>1, <2>1 DEF Busy, Runners
  <2> QED
    BY <2>1, ConcatEmptySeq
<1>5. Shorter("shell")
  BY <1>3, <1>4 DEF Shorter
<1>6. Shorter("switch")
  BY <1>2 DEF Shorter
<1>7. todo' = [q \in Runners |-> todo'[q]]
  BY <1>1
<1> QED
  BY <1>5, <1>6, <1>7 DEF Runners

LEMMA JobStepShorter ==
  ASSUME TodoSound, NEW r \in Runners, JobStep(r)
  PROVE  todo' = [q \in Runners |-> todo'[q]] /\ \A q \in Runners : Shorter(q)
<1> DEFINE Goal == todo' = [q \in Runners |-> todo'[q]] /\ \A q \in Runners : Shorter(q)
<1>1. <<>> \in Seq(Harmless) /\ StopSteps \in Seq(Harmless) /\ StopService \in Seq(Harmless)
      /\ <<"stop-if-loaded", "unlink">> \in Seq(Harmless) /\ <<"load">> \in Seq(Harmless)
      /\ <<"unload-tray", "unlink-tray">> \in Seq(Harmless)
  BY DEF StopSteps, StopService, Harmless
<1>2. CASE FileStep(r)
  <2>1. Busy(r) /\ Head(todo[r]) \in OffApp
    BY <1>2 DEF FileStep, Says, OffApp, Harmless
  <2>2. (\E s \in Seq(Harmless) : Then(r, s)) \/ todo' = [todo EXCEPT ![r] = <<>>]
    BY <1>1, <1>2 DEF FileStep, Goes
  <2>3. CASE todo' = [todo EXCEPT ![r] = <<>>]
    BY <2>3 DEF TodoSound, Shorter
  <2> QED
    BY <2>1, <2>2, <2>3, ThenShorter
<1>3. CASE TrayStep(r)
  <2>1. Busy(r) /\ Head(todo[r]) \in OffApp
    BY <1>3 DEF TrayStep, Says, OffApp, Harmless
  <2>2. \E s \in Seq(Harmless) : Then(r, s)
    BY <1>1, <1>3 DEF TrayStep, Goes
  <2> QED
    BY <2>1, <2>2, ThenShorter
<1>4. CASE Unloads(r) \/ EndsEngine(r) \/ KillsEngine(r) \/ KillsLaunchers(r) \/ Loads(r)
  <2>1. Busy(r) /\ Head(todo[r]) \in OffApp
    BY <1>4 DEF Unloads, EndsEngine, KillsEngine, KillsLaunchers, Loads, Says, OffApp, Harmless
  <2>2. Goes(r) \/ todo' = [SwitchDies(r) EXCEPT !["shell"] = IF r = "shell" THEN Tail(@) ELSE @]
    BY <1>4 DEF Unloads, EndsEngine, KillsEngine, KillsLaunchers, Loads
  <2> QED
    BY <2>1, <2>2, GoesShorter, DiesShorter
<1> QED
  BY <1>2, <1>3, <1>4 DEF JobStep

LEMMA PathStepShorter ==
  ASSUME TodoSound, NEW r \in Runners, PathStep(r)
  PROVE  todo' = [q \in Runners |-> todo'[q]] /\ \A q \in Runners : Shorter(q)
<1>1. <<>> \in Seq(Harmless) /\ <<"remove-path", "path">> \in Seq(Harmless)
  BY DEF Harmless
<1>2. Busy(r) /\ Head(todo[r]) \in OffApp
  BY DEF PathStep, Says, OffApp, Harmless
<1>3. \E s \in Seq(Harmless) : Then(r, s)
  BY <1>1 DEF PathStep, Goes
<1> QED
  BY <1>2, <1>3, ThenShorter

-----------------------------------------------------------------------------
\* A step on the bundle, of a runner that puts steps in front of the others.
LEMMA RunnerSound ==
  ASSUME TodoSound, UNCHANGED <<home, brought, disturbed>>, NEW r \in Runners, Busy(r),
         NEW rest, todo' = [todo EXCEPT ![r] = rest], rest \in Seq(Steps), Formed(rest),
         home.cellar = NoSource => Avoids(rest, Copying),
         trusted' /\ home.cellar = NoSource /\ ~disturbed /\ brought[r] = "none" => Avoids(rest, Removing)
  PROVE  TodoSound'
<1>1. todo' \in [Runners -> Seq(Steps)] /\ todo'[r] = rest
  BY DEF TodoSound
<1>2. \A q \in Runners : q # r => todo'[q] = todo[q]
  BY DEF TodoSound
<1>3. \A q \in Runners : Formed(todo'[q])
  BY <1>1, <1>2 DEF TodoSound
<1>4. \A q \in Runners : Busy(q)' => Busy(q)
  BY <1>2 DEF Busy
<1>5. ~disturbed => \A q \in Runners : q # r => todo'[q] = <<>>
  BY <1>2 DEF TodoSound, Busy
<1>6. Avoids(<<>>, Removing)
  BY DEF Avoids
<1>7. home.cellar = NoSource => \A q \in Runners : Avoids(todo'[q], Copying)
  BY <1>1, <1>2 DEF TodoSound
<1>8. trusted' /\ home.cellar = NoSource /\ ~disturbed =>
        \A q \in Runners : brought[q] = "none" => Avoids(todo'[q], Removing)
  BY <1>1, <1>5, <1>6
<1> QED
  BY <1>1, <1>3, <1>4, <1>7, <1>8 DEF TodoSound

\* What such a step leaves, if it is not the removal of the bundle.
LEMMA FrontSound ==
  ASSUME NEW s \in Seq(Steps), s # <<>>, Formed(s), Head(s) # "remove-app",
         NEW front \in Seq(Steps)
  PROVE  /\ front \o Tail(s) \in Seq(Steps)
         /\ Avoids(front, Removing) => Avoids(front \o Tail(s), Removing) /\ Formed(front \o Tail(s))
         /\ Len(front) = 2 /\ front[1] = "remove-app" /\ front[2] # "remove-app" => Formed(front \o Tail(s))
         /\ Avoids(front, Copying) /\ Avoids(s, Copying) => Avoids(front \o Tail(s), Copying)
<1>1. Tail(s) \in Seq(Steps) /\ Avoids(Tail(s), Removing)
  BY FormedTail
<1>2. Avoids(s, Copying) => Avoids(Tail(s), Copying)
  BY AvoidsTail
<1>3. front \o Tail(s) \in Seq(Steps)
  BY <1>1, ConcatProperties
<1>4. Avoids(front, Removing) => Avoids(front \o Tail(s), Removing)
  BY <1>1, AvoidsConcat
<1>5. Avoids(front \o Tail(s), Removing) => Formed(front \o Tail(s))
  BY <1>3, SettledFormed
<1>6. Len(front) = 2 /\ front[1] = "remove-app" /\ front[2] # "remove-app" => Formed(front \o Tail(s))
  BY <1>1, RemovesFormed
<1>7. Avoids(front, Copying) /\ Avoids(s, Copying) => Avoids(front \o Tail(s), Copying)
  BY <1>1, <1>2, AvoidsConcat
<1> QED
  BY <1>3, <1>4, <1>5, <1>6, <1>7

\* The steps that the steps on the bundle leave to do.
LEMMA Fronts ==
  /\ <<>> \in Seq(Steps) /\ Avoids(<<>>, Removing) /\ Avoids(<<>>, Copying)
  /\ <<"hash">> \in Seq(Steps) /\ Avoids(<<"hash">>, Removing) /\ Avoids(<<"hash">>, Copying)
  /\ <<"mark", "hash">> \in Seq(Steps) /\ Avoids(<<"mark", "hash">>, Removing)
     /\ Avoids(<<"mark", "hash">>, Copying)
  /\ <<"end-copy">> \in Seq(Steps) /\ Avoids(<<"end-copy">>, Removing)
  /\ <<"remove-app", "launcher">> \in Seq(Steps) /\ Avoids(<<"remove-app", "launcher">>, Copying)
  /\ <<"remove-app", "copy">> \in Seq(Steps)
<1>1. \A step \in {"mark", "hash", "end-copy", "remove-app", "launcher", "copy"} : step \in Steps
  BY DEF Steps, OnApp, OffApp, Harmless, Removing, Copying
<1>2. "hash" \notin Removing /\ "hash" \notin Copying /\ "end-copy" \notin Removing
      /\ "mark" \notin Removing /\ "mark" \notin Copying
      /\ "remove-app" \notin Copying /\ "launcher" \notin Copying
  BY DEF Removing, Copying
<1>3. <<>> \in Seq(Steps) /\ <<"hash">> \in Seq(Steps) /\ <<"end-copy">> \in Seq(Steps)
      /\ <<"mark", "hash">> \in Seq(Steps)
      /\ <<"remove-app", "launcher">> \in Seq(Steps) /\ <<"remove-app", "copy">> \in Seq(Steps)
  BY <1>1, Few
<1>4. \A steps : Avoids(<<>>, steps)
  BY DEF Avoids
<1>5. Avoids(<<"hash">>, Removing) /\ Avoids(<<"hash">>, Copying) /\ Avoids(<<"end-copy">>, Removing)
      /\ Avoids(<<"mark", "hash">>, Removing) /\ Avoids(<<"mark", "hash">>, Copying)
      /\ Avoids(<<"remove-app", "launcher">>, Copying)
  BY <1>2 DEF Avoids
<1> QED
  BY <1>3, <1>4, <1>5

\* What a copy that is under way may have left so far.
LEMMA BeginsCopySound ==
  ASSUME BeginsCopy, home.cellar \in Sources \cup {NoSource}
  PROVE  /\ app' \in [launcher : {"none", "bash", "local", "signed"}, source : Sources \cup {NoSource},
                      mark : SUBSET {"MacOS", "Resources"}, whole : BOOLEAN]
         /\ app'.launcher \in {"none", "signed"}
<1>1. PICK put \in {"none", "signed"}, source \in {NoSource, home.cellar}, mark \in SUBSET {"Resources"} :
        app' = [launcher |-> put, source |-> source, mark |-> mark, whole |-> FALSE]
  BY DEF BeginsCopy
<1> QED
  BY <1>1

\* Every step on the bundle, with what is left of the trust in it.
LEMMA BundleStepKeeps ==
  ASSUME SignedInv, NEW r \in Runners, BundleStep(r), trusted' = TrustAfter(r), UNCHANGED history
  PROVE  SignedInv'
<1> DEFINE s == todo[r]
<1>1. s \in Seq(Steps) /\ Formed(s) /\ s # <<>> /\ Busy(r)
  BY DEF SignedInv, TodoSound, BundleStep, Says, Busy
<1>2. UNCHANGED <<home, swift, pythonFile, brought, disturbed>>
  BY DEF BundleStep, RemovesApp, BeginsCopy, EndsCopy, PutsLauncher, PutsMark, PutsHash, history
<1>3. home.cellar \in Sources \cup {NoSource} /\ BundleTypeOK
  BY BundleAssumption DEF SignedInv, AppType
<1>4. /\ trusted' \in BOOLEAN
      /\ trusted' => \/ app' # app /\ app'.launcher = "signed" /\ app'.mark # {} /\ app'.whole
                     \/ trusted /\ (brought[r] = "none" \/ app' = app)
      /\ trusted' => ~disturbed /\ Head(s) # "unbundle"
  BY <1>1 DEF TrustAfter, Says
<1>5. trusted /\ home.cellar = NoSource /\ ~disturbed /\ brought[r] = "none" => Avoids(s, Removing)
  BY DEF SignedInv, TodoSound
<1>6. home.cellar = NoSource => Avoids(s, Copying)
  BY DEF SignedInv, TodoSound
<1>7. Head(s) = "remove-app" \/ Head(s) = "launcher" => ~Avoids(s, Removing)
  BY <1>1, AvoidsTail DEF Removing
<1>8. Head(s) = "copy" \/ Head(s) = "end-copy" => ~Avoids(s, Copying)
  BY <1>1, AvoidsTail DEF Copying
<1>9. ASSUME NEW front \in Seq(Steps), Then(r, front), Head(s) # "remove-app",
             \/ Avoids(front, Removing)
             \/ /\ Len(front) = 2 /\ front[1] = "remove-app" /\ front[2] # "remove-app"
                /\ ~(trusted' /\ home.cellar = NoSource /\ brought[r] = "none"),
             home.cellar = NoSource => Avoids(front, Copying)
      PROVE  TodoSound'
  <2>1. todo' = [todo EXCEPT ![r] = front \o Tail(s)]
    BY <1>9 DEF Then
  <2>2. front \o Tail(s) \in Seq(Steps) /\ Formed(front \o Tail(s))
    BY <1>1, <1>9, FrontSound
  <2>3. home.cellar = NoSource => Avoids(front \o Tail(s), Copying)
    BY <1>1, <1>6, <1>9, FrontSound
  <2>4. trusted' /\ home.cellar = NoSource /\ ~disturbed /\ brought[r] = "none"
          => Avoids(front \o Tail(s), Removing)
    BY <1>1, <1>9, FrontSound
  <2> QED
    BY <1>1, <1>2, <2>1, <2>2, <2>3, <2>4, RunnerSound DEF SignedInv
<1>10. CASE Says(r, "bundle") /\ UNCHANGED app
            /\ Then(r, IF NeedsBundle(brought[r]) THEN <<"remove-app", "launcher">> ELSE <<>>)
  <2>1. trusted' => trusted
    BY <1>4, <1>10
  <2>2. AppType' /\ AppSound'
    BY <1>2, <1>4, <1>10, <2>1 DEF SignedInv, AppType, AppSound, BundleTypeOK, SignedStays
  <2>3. Head(s) # "remove-app"
    BY <1>10 DEF Says
  <2>4. trusted /\ home.cellar = NoSource /\ brought[r] = "none" => ~NeedsBundle(brought[r])
    BY DEF SignedInv, AppSound, NeedsBundle, KeepsSigned, HasLauncher
  <2>5. TodoSound'
    <3>1. CASE NeedsBundle(brought[r])
      <4> DEFINE front == <<"remove-app", "launcher">>
      <4>1. front \in Seq(Steps) /\ Avoids(front, Copying)
            /\ Len(front) = 2 /\ front[1] = "remove-app" /\ front[2] # "remove-app"
        BY Fronts
      <4>2. Then(r, front)
        BY <1>10, <3>1
      <4> HIDE DEF front
      <4> QED
        BY <1>9, <2>1, <2>3, <2>4, <3>1, <4>1, <4>2
    <3>2. CASE ~NeedsBundle(brought[r])
      BY <1>9, <1>10, <2>3, <3>2, Fronts
    <3> QED
      BY <3>1, <3>2
  <2> QED
    BY <2>2, <2>5 DEF SignedInv
<1>11. CASE Says(r, "remove-app") /\ Goes(r) /\ RemovesApp
  <2>1. app' = NoApp /\ Head(s) = "remove-app"
    BY <1>11 DEF RemovesApp, Says
  <2>2. trusted' => trusted /\ ~disturbed /\ (brought[r] = "none" \/ app' = app)
    BY <1>4, <2>1 DEF NoApp
  <2>3. home.cellar = NoSource => ~trusted'
    BY <1>5, <1>7, <2>1, <2>2 DEF SignedInv, AppSound, NoApp
  <2>4. AppType' /\ AppSound'
    BY <1>2, <1>3, <1>4, <2>1, <2>3 DEF SignedInv, AppType, AppSound, BundleTypeOK, SignedStays, NoApp
  <2>5. todo' = [todo EXCEPT ![r] = Tail(s)]
    <3>1. Tail(s) \in Seq(Steps)
      BY <1>1
    <3>2. <<>> \o Tail(s) = Tail(s)
      BY <3>1, ConcatEmptySeq
    <3> QED
      BY <1>11, <3>2 DEF Goes, Then
  <2>6. Tail(s) \in Seq(Steps) /\ Formed(Tail(s)) /\ (home.cellar = NoSource => Avoids(Tail(s), Copying))
    BY <1>1, <1>6, FormedTail, AvoidsTail
  <2>7. TodoSound'
    BY <1>1, <1>2, <2>3, <2>5, <2>6, RunnerSound DEF SignedInv
  <2> QED
    BY <2>4, <2>7 DEF SignedInv
<1>12. CASE Says(r, "launcher") /\ CopiesKeg(brought[r]) /\ Then(r, <<"end-copy">>) /\ BeginsCopy
  <2>1. Head(s) = "launcher" /\ home.cellar # NoSource
    BY <1>12 DEF Says, CopiesKeg
  <2>2. AppType' /\ AppSound'
    BY <1>2, <1>3, <1>4, <1>12, <2>1, BeginsCopySound DEF SignedInv, AppType, AppSound, BundleTypeOK,
       SignedStays
  <2>3. TodoSound'
    BY <1>9, <1>12, <2>1, Fronts
  <2> QED
    BY <2>2, <2>3 DEF SignedInv
<1>13. CASE /\ Says(r, "launcher") /\ ~CopiesKeg(brought[r]) /\ PutsLauncher(brought[r])
            /\ Then(r, IF brought[r] = "valid" THEN <<"mark", "hash">> ELSE <<"hash">>)
  <2>1. Head(s) = "launcher"
    BY <1>13 DEF Says
  <2>2. PICK made \in Made(brought[r]) : app' = [NoApp EXCEPT !.launcher = made]
    BY <1>13 DEF PutsLauncher
  <2>3. app'.launcher = made /\ app'.mark = {}
    BY <2>2 DEF NoApp
  <2>4. trusted' => made = "signed" /\ home.cellar # NoSource
    <3> SUFFICES ASSUME trusted' PROVE made = "signed" /\ home.cellar # NoSource
      OBVIOUS
    <3>1. trusted /\ ~disturbed /\ (brought[r] = "none" \/ app' = app)
      BY <1>4, <2>3
    <3>2. home.cellar # NoSource
      BY <1>5, <1>7, <2>1, <2>3, <3>1 DEF SignedInv, AppSound
    <3>3. app' = app
      BY <1>13, <3>1, <3>2 DEF CopiesKeg
    <3>4. made \in {"signed", "local", "bash"}
      BY <2>2 DEF Made
    <3>5. made = "signed"
      BY <2>3, <3>1, <3>3, <3>4 DEF SignedInv, AppSound, SignedStays
    <3> QED
      BY <3>2, <3>5
  <2>5. AppType' /\ AppSound'
    <3>1. app' \in [launcher : {"none", "bash", "local", "signed"}, source : Sources \cup {NoSource},
                    mark : SUBSET {"MacOS", "Resources"}, whole : BOOLEAN]
      BY <2>2 DEF NoApp, Made
    <3>2. AppSound'
      BY <1>2, <2>3, <2>4 DEF AppSound, SignedStays
    <3> QED
      BY <1>2, <1>3, <1>4, <3>1, <3>2 DEF SignedInv, AppType, BundleTypeOK
  <2>6. TodoSound'
    BY <1>9, <1>13, <2>1, Fronts
  <2> QED
    BY <2>5, <2>6 DEF SignedInv
<1>19. CASE Says(r, "mark") /\ Goes(r) /\ PutsMark
  <2>1. Head(s) = "mark" /\ app' = [app EXCEPT !.mark = {"MacOS"}]
    BY <1>19 DEF Says, PutsMark
  <2>2. app'.launcher = app.launcher /\ app'.mark = {"MacOS"}
    BY <1>3, <2>1 DEF BundleTypeOK
  <2>3. AppType'
    BY <1>2, <1>3, <1>4, <2>1 DEF SignedInv, AppType, BundleTypeOK
  <2>4. AppSound'
    BY <1>2, <1>4, <2>2 DEF SignedInv, AppSound, SignedStays
  <2>5. TodoSound'
    BY <1>9, <1>19, <2>1, Fronts DEF Goes
  <2> QED
    BY <2>3, <2>4, <2>5 DEF SignedInv
<1>14. CASE Says(r, "hash") /\ Goes(r) /\ PutsHash
  <2>1. Head(s) = "hash" /\ app' = [app EXCEPT !.source = swift]
    BY <1>14 DEF Says, PutsHash
  <2>2. app'.launcher = app.launcher /\ app'.mark = app.mark
    BY <1>3, <2>1 DEF BundleTypeOK
  <2>3. AppType'
    BY <1>2, <1>3, <1>4, <2>1 DEF SignedInv, AppType, BundleTypeOK
  <2>4. AppSound'
    BY <1>2, <1>4, <2>2 DEF SignedInv, AppSound, SignedStays
  <2>5. TodoSound'
    BY <1>9, <1>14, <2>1, Fronts DEF Goes
  <2> QED
    BY <2>3, <2>4, <2>5 DEF SignedInv
<1>15. ASSUME NEW force \in BOOLEAN, UNCHANGED app,
              Says(r, IF force THEN "migrate-by-force" ELSE "migrate"),
              Then(r, IF Migrates(force) THEN <<"remove-app", "copy">> ELSE <<>>)
       PROVE  SignedInv'
  <2>1. trusted' => trusted
    BY <1>4, <1>15
  <2>2. AppType' /\ AppSound'
    BY <1>2, <1>4, <1>15, <2>1 DEF SignedInv, AppType, AppSound, BundleTypeOK, SignedStays
  <2>3. Head(s) # "remove-app"
    BY <1>15 DEF Says
  <2>4. TodoSound'
    <3>1. CASE Migrates(force)
      <4> DEFINE front == <<"remove-app", "copy">>
      <4>1. front \in Seq(Steps) /\ Len(front) = 2 /\ front[1] = "remove-app" /\ front[2] # "remove-app"
        BY Fronts
      <4>2. Then(r, front) /\ home.cellar # NoSource
        BY <1>15, <3>1 DEF Migrates
      <4> HIDE DEF front
      <4> QED
        BY <1>9, <2>3, <4>1, <4>2
    <3>2. CASE ~Migrates(force)
      BY <1>9, <1>15, <2>3, <3>2, Fronts
    <3> QED
      BY <3>1, <3>2
  <2> QED
    BY <2>2, <2>4 DEF SignedInv
<1>16. CASE Says(r, "copy") /\ Then(r, <<"end-copy">>) /\ BeginsCopy
  <2>1. Head(s) = "copy" /\ home.cellar # NoSource
    BY <1>6, <1>8, <1>16 DEF Says
  <2>2. AppType' /\ AppSound'
    BY <1>2, <1>3, <1>4, <1>16, <2>1, BeginsCopySound DEF SignedInv, AppType, AppSound, BundleTypeOK,
       SignedStays
  <2>3. TodoSound'
    BY <1>9, <1>16, <2>1, Fronts
  <2> QED
    BY <2>2, <2>3 DEF SignedInv
<1>17. CASE Says(r, "end-copy") /\ Goes(r) /\ EndsCopy
  <2>1. Head(s) = "end-copy" /\ home.cellar # NoSource
    BY <1>6, <1>8, <1>17 DEF Says
  <2>2. AppType' /\ AppSound'
    BY <1>2, <1>3, <1>4, <1>17, <2>1 DEF SignedInv, AppType, AppSound, BundleTypeOK, SignedStays,
       CellarApp, EndsCopy
  <2>3. TodoSound'
    BY <1>9, <1>17, <2>1, Fronts DEF Goes
  <2> QED
    BY <2>2, <2>3 DEF SignedInv
<1>18. CASE Says(r, "unbundle") /\ Goes(r) /\ RemovesApp
  <2>1. Head(s) = "unbundle" /\ app' = NoApp
    BY <1>18 DEF Says, RemovesApp
  <2>2. ~trusted'
    BY <1>4, <2>1
  <2>3. AppType' /\ AppSound'
    BY <1>2, <1>3, <1>4, <2>1, <2>2 DEF SignedInv, AppType, AppSound, BundleTypeOK, SignedStays, NoApp
  <2>4. TodoSound'
    BY <1>9, <1>18, <2>1, Fronts DEF Goes
  <2> QED
    BY <2>3, <2>4 DEF SignedInv
<1> QED
  BY <1>10, <1>11, <1>12, <1>13, <1>14, <1>15, <1>16, <1>17, <1>18, <1>19 DEF BundleStep

\* The other steps of a command.
LEMMA EnsuredType ==
  ASSUME BundleTypeOK, NEW executable \in Interpreters, Ensured(executable)
  PROVE  BundleTypeOK' /\ UNCHANGED <<home, app, trusted>>
BY DEF BundleTypeOK, Ensured, Resolved, Interpreters

LEMMA CommandStepKeeps ==
  ASSUME SignedInv, NEW r \in Runners, CommandStep(r)
  PROVE  SignedInv'
<1>1. CASE DiskStep(r) /\ ~PathStep(r)
  BY <1>1, BundleStepKeeps DEF DiskStep
<1>2. CASE DiskStep(r) /\ PathStep(r)
  <2>1. UNCHANGED <<home, app, trusted>> /\ BundleTypeOK'
    BY <1>2 DEF PathStep, RemovesPath, WritesResolved, SignedInv, AppType, BundleTypeOK, bundleVars,
       Resolved, Interpreters
  <2>2. UNCHANGED <<brought, disturbed>>
    BY <1>2 DEF DiskStep, history
  <2> QED
    BY <1>2, <2>1, <2>2, PathStepShorter, BundleUntouched DEF SignedInv
<1>3. CASE JobStep(r)
  <2>1. UNCHANGED <<home, app, trusted, brought, disturbed>> /\ BundleTypeOK'
    BY <1>3 DEF JobStep, bundleVars, SignedInv, AppType, BundleTypeOK
  <2> QED
    BY <1>3, <2>1, JobStepShorter, BundleUntouched DEF SignedInv
<1>4. CASE Completes(r)
  <2>1. UNCHANGED <<home, app, trusted, brought>> /\ BundleTypeOK'
    BY <1>4 DEF Completes, bundleVars, SignedInv, AppType, BundleTypeOK
  <2>2. Busy(r) /\ Head(todo[r]) \in OffApp
    BY <1>4 DEF Completes, Busy, OffApp, Names
  <2>3. todo' = [q \in Runners |-> todo'[q]] /\ \A q \in Runners : Shorter(q)
    BY <1>4, <2>2, GoesShorter DEF Completes, SignedInv
  <2>4. todo'[r] = <<>> /\ \A q \in Runners \ {r} : todo'[q] = todo[q]
    <3>1. todo[r] \in Seq(Steps) /\ Len(todo[r]) = 1 /\ todo \in [Runners -> Seq(Steps)]
      BY <1>4 DEF Completes, SignedInv, TodoSound
    <3>2. Tail(todo[r]) = <<>>
      <4>1. Tail(todo[r]) \in Seq(Steps) /\ Len(Tail(todo[r])) = 0
        BY <2>2, <3>1, HeadTailProperties DEF Busy
      <4> QED
        BY <4>1, EmptySeq
    <3>3. todo' = [todo EXCEPT ![r] = <<>>]
      <4>1. <<>> \in Seq(Steps)
        OBVIOUS
      <4>2. <<>> \o <<>> = <<>>
        BY <4>1, ConcatEmptySeq
      <4> QED
        BY <1>4, <3>2, <4>2 DEF Completes, Goes, Then
    <3> QED
      BY <3>1, <3>3
  <2>5. ~disturbed' => ~disturbed \/ (\A q \in Runners : todo'[q] = <<>>)
    BY <1>4, <2>4 DEF Completes, Busy
  <2> QED
    BY <2>1, <2>3, <2>5, BundleUntouched
<1> QED
  BY <1>1, <1>2, <1>3, <1>4 DEF CommandStep

\* A command begins.
LEMMA BeginsKeeps ==
  ASSUME SignedInv, NEW r \in Runners, NEW c \in Names, NEW p \in Prebuilt,
         Begins(r, c, p)
  PROVE  SignedInv'
<1>1. UNCHANGED <<home, app, trusted>> /\ BundleTypeOK'
  BY DEF Begins, bundleVars, SignedInv, AppType, BundleTypeOK
<1>2. AppType' /\ AppSound'
  BY <1>1 DEF SignedInv, AppType, AppSound, SignedStays
<1> DEFINE rest == Plan(c) \o <<c>>
<1>3. rest \in Seq(Steps) /\ Avoids(rest, Removing) /\ Avoids(rest, Copying) /\ Formed(rest)
  <2>1. Plan(c) \in Seq(Steps) /\ Avoids(Plan(c), Removing) /\ Avoids(Plan(c), Copying)
    BY PlansHarmless, HarmlessAvoids
  <2>2. c \in Steps /\ c \notin Removing /\ c \notin Copying
    BY DEF Steps, OffApp, Names, ShellCommands, SwitchCommands, Removing, Copying
  <2>3. <<c>> \in Seq(Steps) /\ Avoids(<<c>>, Removing) /\ Avoids(<<c>>, Copying)
    BY <2>2 DEF Avoids
  <2> QED
    BY <2>1, <2>3, AvoidsConcat, SettledFormed
<1>4. todo' = [todo EXCEPT ![r] = rest] /\ ~Busy(r)
  BY DEF Begins
<1> HIDE DEF rest
<1>5. todo' \in [Runners -> Seq(Steps)] /\ todo'[r] = rest /\ \A q \in Runners : q # r => todo'[q] = todo[q]
  BY <1>3, <1>4 DEF SignedInv, TodoSound
<1>6. disturbed' = \E q \in Runners : Busy(q)
  BY DEF Begins
<1>7. ~disturbed' => \A q \in Runners : q # r => todo'[q] = <<>>
  BY <1>5, <1>6 DEF Busy
<1>8. Avoids(<<>>, Removing)
  BY Fronts
<1>9. TodoSound'
  <2>1. \A q \in Runners : Formed(todo'[q])
    BY <1>3, <1>5 DEF SignedInv, TodoSound
  <2>2. ~disturbed' => \A q, q2 \in Runners : Busy(q)' /\ Busy(q2)' => q = q2
    BY <1>7 DEF Busy
  <2>3. home.cellar = NoSource => \A q \in Runners : Avoids(todo'[q], Copying)
    BY <1>3, <1>5 DEF SignedInv, TodoSound
  <2>4. ~disturbed' => \A q \in Runners : Avoids(todo'[q], Removing)
    BY <1>3, <1>5, <1>7, <1>8
  <2> QED
    BY <1>1, <1>5, <2>1, <2>2, <2>3, <2>4 DEF TodoSound
<1> QED
  BY <1>2, <1>9 DEF SignedInv

\* A command is killed, or its engine goes.
LEMMA EndsKeeps ==
  ASSUME SignedInv, (\E r \in Runners : Stops(r)) \/ (\E clean \in BOOLEAN : EngineEnds(clean))
  PROVE  SignedInv'
<1>1. UNCHANGED <<home, app, trusted, brought>> /\ BundleTypeOK'
  BY DEF Stops, EngineEnds, bundleVars, SignedInv, AppType, BundleTypeOK
<1>2. ~disturbed' => ~disturbed
  BY DEF Stops, EngineEnds
<1>3. todo' = [q \in Runners |-> todo'[q]] /\ \A q \in Runners : Shorter(q)
  BY DEF Stops, EngineEnds, SwitchDies, SignedInv, TodoSound, Shorter
<1> QED
  BY <1>1, <1>2, <1>3, BundleUntouched

\* Launchers and engines come and go; the version of dictare changes.
LEMMA ProcessKeeps ==
  ASSUME SignedInv, ProcessStep \/ (SourceChanges /\ UNCHANGED commandVars)
  PROVE  SignedInv'
<1>1. UNCHANGED <<home, app, trusted>> /\ BundleTypeOK'
  <2>1. CASE UNCHANGED bundleVars
    BY <2>1 DEF bundleVars, SignedInv, AppType, BundleTypeOK
  <2>2. CASE Ensured("dev")
    BY <2>2, EnsuredType DEF SignedInv, AppType, Interpreters
  <2>3. CASE SourceChanges
    BY <2>3 DEF SourceChanges, SignedInv, AppType, BundleTypeOK
  <2> QED
    BY <2>1, <2>2, <2>3 DEF ProcessStep, ServesAlone, Spawns, Serves
<1>2. UNCHANGED commandVars
  BY DEF ProcessStep, ServesAlone, Spawns, Serves
<1>3. todo' = [q \in Runners |-> todo'[q]] /\ \A q \in Runners : Shorter(q)
  BY <1>2 DEF commandVars, SignedInv, TodoSound, Shorter
<1> QED
  BY <1>1, <1>2, <1>3, BundleUntouched DEF commandVars

LEMMA SignedInit ==
  ASSUME Init
  PROVE  SignedInv
<1>1. AppType /\ AppSound
  BY DEF Init, ServicesInit, BundleInit, AppType, AppSound, BundleTypeOK, SignedStays, NoApp
<1>2. <<>> \in Seq(Steps) /\ Formed(<<>>) /\ \A steps : Avoids(<<>>, steps)
  BY DEF Formed, Avoids
<1>3. TodoSound
  BY <1>2 DEF Init, ServicesInit, BundleInit, TodoSound, Busy
<1> QED
  BY <1>1, <1>3 DEF SignedInv

LEMMA SignedNext ==
  ASSUME SignedInv, [Next]_vars
  PROVE  SignedInv'
<1>1. CASE UNCHANGED serviceVars
  BY <1>1 DEF serviceVars, bundleVars, commandVars, SignedInv, AppType, AppSound, BundleTypeOK, SignedStays,
     TodoSound, Busy
<1>2. CASE ServiceStep
  <2>1. CASE Commands
    <3>1. CASE \E c \in ShellCommands, p \in Prebuilt : Begins("shell", c, p)
      BY <3>1, BeginsKeeps DEF Runners, Names
    <3>2. CASE \E c \in SwitchCommands : Begins("switch", c, "none")
      BY <3>2, BeginsKeeps DEF Runners, Prebuilt, Names
    <3>3. CASE Stops("shell") \/ \E clean \in BOOLEAN : EngineEnds(clean)
      BY <3>3, EndsKeeps DEF Runners
    <3>4. CASE SourceChanges /\ UNCHANGED commandVars
      BY <3>4, ProcessKeeps
    <3> QED
      BY <2>1, <3>1, <3>2, <3>3, <3>4 DEF Commands
  <2>2. CASE ProcessStep
    BY <2>2, ProcessKeeps
  <2>3. CASE \E r \in Runners : CommandStep(r)
    BY <2>3, CommandStepKeeps
  <2> QED
    BY <1>2, <2>1, <2>2, <2>3 DEF ServiceStep
<1> QED
  BY <1>1, <1>2 DEF Next, EditStep, ListenStep, vars

\* create_app_bundle and migrate_signed_bundle_from_cellar: once a signed launcher has
\* its mark, and until another is brought or it is uninstalled, whatever is installed,
\* upgraded, repaired, killed half-way or run beside it, no unsigned launcher takes
\* the place of the signed one that has the user's permissions.
THEOREM SignedLauncherStays == Spec => []SignedStays
<1>1. SignedInv => SignedStays
  BY DEF SignedInv, AppSound
<1>2. Spec => []SignedInv
  BY SignedInit, SignedNext, PTL DEF Spec
<1> QED
  BY <1>1, <1>2, PTL

-----------------------------------------------------------------------------
(***************************************************************************)
(* One launcher.                                                           *)
(***************************************************************************)
Alive == {l \in Launchers : launchers[l] # "off"}
AtMostOne == \A l, k \in Alive : l = k

\* The end of an install, from behind.
Behind == <<"install", "load-tray", "tray-plist", "unload-tray-if-loaded", "load", "kill-launchers">>
EndsInstall(s) == \A i \in 1..6 : i <= Len(s) => s[Len(s) + 1 - i] = Behind[i]

\* An install has still to kill the launchers, or has done so, or has loaded one.
InstallSoon(r) ==
  /\ EndsInstall(todo[r])
  /\ \/ Len(todo[r]) > 5
     \/ Len(todo[r]) = 5 /\ Alive = {}
     \/ Len(todo[r]) < 5 /\ AtMostOne
InstallSound(r) == Avoids(todo[r], {"install"}) \/ InstallSoon(r)

OneInv ==
  /\ launchers \in [Launchers -> {"off", "due", "starting", "owns"}]
  /\ ~disturbed => \A r \in Runners : InstallSound(r)
  /\ after = "install" => AtMostOne /\ \A r \in Runners : ~Busy(r)

-----------------------------------------------------------------------------
LEMMA EndsTail ==
  ASSUME NEW s \in Seq(Steps), s # <<>>, EndsInstall(s)
  PROVE  EndsInstall(Tail(s)) /\ (Len(s) <= 6 => Head(s) = Behind[Len(s)])
<1> DEFINE t == Tail(s)
<1>1. t \in Seq(Steps) /\ Len(t) = Len(s) - 1 /\ Len(s) \in Nat /\ Len(s) >= 1
  BY HeadTailProperties, EmptySeq
<1>2. \A i \in 1..Len(t) : t[i] = s[i + 1]
  OBVIOUS
<1>3. Head(s) = s[1]
  OBVIOUS
<1> HIDE DEF t
<1>4. ASSUME NEW i \in 1..6, i <= Len(t) PROVE t[Len(t) + 1 - i] = Behind[i]
  <2>1. Len(t) + 1 - i \in 1..Len(t) /\ (Len(t) + 1 - i) + 1 = Len(s) + 1 - i
    BY <1>1, <1>4
  <2>2. i <= Len(s)
    BY <1>1, <1>4
  <2> QED
    BY <1>2, <2>1, <2>2 DEF EndsInstall
<1>5. ASSUME Len(s) <= 6 PROVE s[1] = Behind[Len(s)]
  <2>1. Len(s) \in 1..6
    BY <1>1, <1>5
  <2>2. ASSUME NEW n \in 1..6, n = Len(s) PROVE s[1] = Behind[n]
    <3>1. n <= Len(s) /\ Len(s) + 1 - n = 1
      BY <2>2
    <3>2. s[Len(s) + 1 - n] = Behind[n]
      BY <3>1 DEF EndsInstall
    <3> QED
      BY <3>1, <3>2
  <2> QED
    BY <2>1, <2>2
<1> QED
  BY <1>3, <1>4, <1>5 DEF EndsInstall, t

LEMMA EndsFront ==
  ASSUME NEW f \in Seq(Steps), NEW t \in Seq(Steps), EndsInstall(t), Len(t) > 5
  PROVE  EndsInstall(f \o t) /\ Len(f \o t) > 5
<1> DEFINE s == f \o t
<1>1. /\ s \in Seq(Steps) /\ Len(s) = Len(f) + Len(t) /\ Len(f) \in Nat /\ Len(t) \in Nat
      /\ \A i \in 1..(Len(f) + Len(t)) : s[i] = IF i <= Len(f) THEN f[i] ELSE t[i - Len(f)]
  BY ConcatProperties
<1> HIDE DEF s
<1>2. ASSUME NEW i \in 1..6 PROVE s[Len(s) + 1 - i] = Behind[i]
  <2>1. Len(s) + 1 - i \in 1..(Len(f) + Len(t)) /\ ~(Len(s) + 1 - i <= Len(f))
        /\ (Len(s) + 1 - i) - Len(f) = Len(t) + 1 - i
    BY <1>1
  <2>2. s[Len(s) + 1 - i] = t[Len(t) + 1 - i]
    BY <1>1, <2>1
  <2>3. i <= Len(t)
    BY <1>1
  <2> QED
    BY <2>2, <2>3 DEF EndsInstall
<1> QED
  BY <1>1, <1>2 DEF EndsInstall, s

LEMMA InstallEnds ==
  /\ EndsInstall(Plan("install") \o <<"install">>)
  /\ Len(Plan("install") \o <<"install">>) > 5
<1> DEFINE front == <<"sync-path", "remove-path", "path", "bundle", "plist", "stop-if-loaded",
                      "kill-engine", "kill-launchers", "load">>
           name == <<"install">>
           s == Install \o name
<1>1. front \in Seq(Harmless) /\ InstallTray \in Seq(Harmless) /\ name \in Seq(Steps)
  BY DEF Harmless, InstallTray, Steps, OffApp, Names, ShellCommands
<1>2. Len(front) = 9 /\ Len(InstallTray) = 3 /\ Len(name) = 1
  BY DEF InstallTray
<1>3. front[8] = "kill-launchers" /\ front[9] = "load" /\ name[1] = "install"
  OBVIOUS
<1>4. InstallTray[1] = "unload-tray-if-loaded" /\ InstallTray[2] = "tray-plist" /\ InstallTray[3] = "load-tray"
  BY DEF InstallTray
<1>5. Install = front \o InstallTray
  BY DEF Install
<1> HIDE DEF front, name
<1>6. Install \in Seq(Harmless) /\ Len(Install) = 12
      /\ \A i \in 1..12 : Install[i] = IF i <= 9 THEN front[i] ELSE InstallTray[i - 9]
  <2>1. /\ Install \in Seq(Harmless) /\ Len(Install) = Len(front) + Len(InstallTray)
        /\ \A i \in 1..(Len(front) + Len(InstallTray)) :
             Install[i] = IF i <= Len(front) THEN front[i] ELSE InstallTray[i - Len(front)]
    BY <1>1, <1>5, ConcatProperties
  <2> QED
    BY <1>2, <2>1
<1>7. Install \in Seq(Steps)
  BY <1>6, HarmlessAvoids
<1>8. Len(s) = 13 /\ \A i \in 1..13 : s[i] = IF i <= 12 THEN Install[i] ELSE name[i - 12]
  <2>1. /\ Len(s) = Len(Install) + Len(name)
        /\ \A i \in 1..(Len(Install) + Len(name)) :
             s[i] = IF i <= Len(Install) THEN Install[i] ELSE name[i - Len(Install)]
    BY <1>1, <1>7, ConcatProperties
  <2> QED
    BY <1>2, <1>6, <2>1
<1>9. s[13] = "install" /\ s[12] = "load-tray" /\ s[11] = "tray-plist" /\ s[10] = "unload-tray-if-loaded"
      /\ s[9] = "load" /\ s[8] = "kill-launchers"
  BY <1>3, <1>4, <1>6, <1>8
<1> HIDE DEF s
<1>10. EndsInstall(s)
  <2>1. ASSUME NEW i \in 1..6 PROVE s[14 - i] = Behind[i]
    <3>1. i = 1 \/ i = 2 \/ i = 3 \/ i = 4 \/ i = 5 \/ i = 6
      OBVIOUS
    <3> QED
      BY <1>9, <3>1 DEF Behind
  <2> QED
    BY <1>8, <2>1 DEF EndsInstall
<1>11. Plan("install") = Install
  BY DEF Plan
<1> QED
  BY <1>8, <1>10, <1>11 DEF s, name

-----------------------------------------------------------------------------
\* Only a load puts a launcher there.
LEMMA LaunchersFall ==
  ASSUME launchers \in [Launchers -> {"off", "due", "starting", "owns"}], NEW r,
         \/ UNCHANGED launchers \/ ProcessStep \/ (\E clean \in BOOLEAN : EngineEnds(clean))
         \/ Unloads(r) \/ EndsEngine(r) \/ KillsEngine(r) \/ KillsLaunchers(r)
  PROVE  launchers' \in [Launchers -> {"off", "due", "starting", "owns"}] /\ Alive' \subseteq Alive
<1>1. CASE UNCHANGED launchers
  BY <1>1 DEF Alive
<1>2. ASSUME NEW clean, launchers' = AfterEngine(clean)
      PROVE  launchers' \in [Launchers -> {"off", "due", "starting", "owns"}] /\ Alive' \subseteq Alive
  BY <1>2 DEF Alive, AfterEngine
<1>3. CASE (\E clean \in BOOLEAN : EngineEnds(clean)) \/ EndsEngine(r) \/ KillsEngine(r)
  BY <1>1, <1>2, <1>3 DEF EngineEnds, EndsEngine, KillsEngine, LaunchersBecome
<1>4. CASE KillsLaunchers(r)
  BY <1>4 DEF KillsLaunchers, LaunchersBecome, Alive
<1>5. CASE Unloads(r)
  BY <1>1, <1>5 DEF Unloads, Alive
<1>6. CASE ProcessStep
  BY <1>1, <1>6 DEF ProcessStep, ServesAlone, Spawns, Serves, LaunchersBecome, Alive
<1> QED
  BY <1>1, <1>3, <1>4, <1>5, <1>6

LEMMA FallKeepsFew ==
  ASSUME Alive' \subseteq Alive
  PROVE  (AtMostOne => AtMostOne') /\ (Alive = {} => Alive' = {})
BY DEF AtMostOne

LEMMA InstallStays ==
  ASSUME NEW r \in Runners, InstallSound(r), Alive' \subseteq Alive,
         todo'[r] = todo[r] \/ todo'[r] = <<>>
  PROVE  InstallSound(r)'
<1>1. CASE todo'[r] = todo[r]
  BY <1>1, FallKeepsFew DEF InstallSound, InstallSoon
<1>2. CASE todo'[r] = <<>>
  BY <1>2 DEF InstallSound, Avoids
<1> QED
  BY <1>1, <1>2

\* The steps that a step on the bundle puts in front name no command.
LEMMA FrontsNameless ==
  ASSUME NEW f \in {<<>>, <<"hash">>, <<"mark", "hash">>, <<"end-copy">>, <<"remove-app", "launcher">>,
                 <<"remove-app", "copy">>}
  PROVE  f \in Seq(Steps) /\ Avoids(f, {"install"})
<1>1. f \in Seq(Steps)
  BY Fronts
<1>2. /\ Avoids(<<>>, {"install"}) /\ Avoids(<<"hash">>, {"install"}) /\ Avoids(<<"end-copy">>, {"install"})
      /\ Avoids(<<"mark", "hash">>, {"install"})
      /\ Avoids(<<"remove-app", "launcher">>, {"install"}) /\ Avoids(<<"remove-app", "copy">>, {"install"})
  BY DEF Avoids
<1> QED
  BY <1>1, <1>2

\* What a step of a command leaves of it.
LEMMA WhatIsLeft ==
  ASSUME TodoSound, NEW r \in Runners, CommandStep(r)
  PROVE  /\ todo[r] \in Seq(Steps) /\ Busy(r)
         /\ \A q \in Runners : ~Busy(q) => todo'[q] = <<>>
         /\ \/ todo'[r] = todo[r] \/ todo'[r] = <<>>
            \/ \E f \in Seq(Steps) : Avoids(f, {"install"}) /\ todo'[r] = f \o Tail(todo[r])
<1>1. todo \in [Runners -> Seq(Steps)]
  BY DEF TodoSound
<1>2. Busy(r)
  <2>1. CASE DiskStep(r)
    BY <2>1 DEF DiskStep, PathStep, BundleStep, Says
  <2>2. CASE JobStep(r)
    BY <2>2 DEF JobStep, FileStep, TrayStep, Unloads, EndsEngine, KillsEngine, KillsLaunchers, Loads, Says
  <2>3. CASE Completes(r)
    BY <2>3 DEF Completes, Busy
  <2> QED
    BY <2>1, <2>2, <2>3 DEF CommandStep
<1>3. ASSUME \A q \in Runners : Shorter(q)
      PROVE  /\ \A q \in Runners : ~Busy(q) => todo'[q] = <<>>
             /\ \/ todo'[r] = todo[r] \/ todo'[r] = <<>>
                \/ \E f \in Seq(Steps) : Avoids(f, {"install"}) /\ todo'[r] = f \o Tail(todo[r])
  <2>1. \A q \in Runners : ~Busy(q) => todo'[q] = <<>>
    BY <1>3 DEF Shorter, Busy
  <2>2. ASSUME NEW f \in Seq(Harmless) PROVE f \in Seq(Steps) /\ Avoids(f, {"install"})
    BY <2>2, HarmlessAvoids DEF Avoids, Names, ShellCommands
  <2> QED
    BY <1>3, <2>1, <2>2 DEF Shorter
<1>4. CASE DiskStep(r) /\ PathStep(r)
  BY <1>1, <1>2, <1>3, <1>4, PathStepShorter
<1>5. CASE JobStep(r)
  BY <1>1, <1>2, <1>3, <1>5, JobStepShorter
<1>6. CASE Completes(r)
  <2>1. Head(todo[r]) \in OffApp /\ Goes(r)
    BY <1>6 DEF Completes, OffApp, Names
  <2> QED
    BY <1>1, <1>2, <1>3, <2>1, GoesShorter
<1>7. CASE DiskStep(r) /\ ~PathStep(r)
  <2>1. PICK f \in {<<>>, <<"hash">>, <<"mark", "hash">>, <<"end-copy">>, <<"remove-app", "launcher">>,
                  <<"remove-app", "copy">>} :
          Then(r, f)
    BY <1>7 DEF DiskStep, BundleStep, Goes
  <2>2. todo'[r] = f \o Tail(todo[r]) /\ \A q \in Runners : q # r => todo'[q] = todo[q]
    BY <1>1, <2>1 DEF Then
  <2> QED
    BY <1>1, <1>2, <2>2, FrontsNameless DEF Busy
<1> QED
  BY <1>4, <1>5, <1>6, <1>7 DEF CommandStep

\* The last steps of an install put nothing in front, and each does what is expected.
LEMMA LastSteps ==
  ASSUME NEW r \in Runners, CommandStep(r), NEW n \in 1..6, Head(todo[r]) = Behind[n]
  PROVE  /\ Goes(r)
         /\ n = 6 => KillsLaunchers(r)
         /\ n # 5 => ~Loads(r)
         /\ n = 1 <=> Completes(r)
<1>1. /\ Behind[1] = "install" /\ Behind[2] = "load-tray" /\ Behind[3] = "tray-plist"
      /\ Behind[4] = "unload-tray-if-loaded" /\ Behind[5] = "load" /\ Behind[6] = "kill-launchers"
  BY DEF Behind
<1>2. n = 1 \/ n = 2 \/ n = 3 \/ n = 4 \/ n = 5 \/ n = 6
  OBVIOUS
<1>3. ~DiskStep(r)
  BY <1>1, <1>2 DEF DiskStep, PathStep, BundleStep, Says
<1>4. CASE JobStep(r)
  <2>1. ~FileStep(r) /\ ~Unloads(r) /\ ~EndsEngine(r) /\ ~KillsEngine(r)
    BY <1>1, <1>2 DEF FileStep, Unloads, EndsEngine, KillsEngine, Says
  <2>2. CASE TrayStep(r)
    <3>1. n = 2 \/ n = 3 \/ n = 4
      BY <1>1, <1>2, <2>2 DEF TrayStep, Says
    <3>2. Goes(r)
      BY <1>1, <2>2, <3>1 DEF TrayStep, Says
    <3> QED
      BY <1>1, <3>1, <3>2 DEF Loads, Completes, Says, ShellCommands, SwitchCommands
  <2>3. CASE KillsLaunchers(r)
    BY <1>1, <1>2, <2>3 DEF KillsLaunchers, Loads, Completes, Says, ShellCommands, SwitchCommands
  <2>4. CASE Loads(r)
    BY <1>1, <1>2, <2>4 DEF KillsLaunchers, Loads, Completes, Says, ShellCommands, SwitchCommands
  <2> QED
    BY <1>4, <2>1, <2>2, <2>3, <2>4 DEF JobStep
<1>5. CASE Completes(r)
  BY <1>1, <1>2, <1>5 DEF KillsLaunchers, Loads, Completes, Says, ShellCommands, SwitchCommands
<1> QED
  BY <1>3, <1>4, <1>5 DEF CommandStep

LEMMA LoadsOne ==
  ASSUME launchers \in [Launchers -> {"off", "due", "starting", "owns"}], NEW r, Loads(r)
  PROVE  /\ launchers' \in [Launchers -> {"off", "due", "starting", "owns"}]
         /\ Alive = {} => AtMostOne'
<1>1. CASE UNCHANGED launchers
  BY <1>1 DEF Alive, AtMostOne
<1>2. CASE Free # {} /\ \E l \in Free : launchers' = [launchers EXCEPT ![l] = "due"]
  BY <1>2 DEF Free, Alive, AtMostOne
<1> QED
  BY <1>1, <1>2 DEF Loads

LEMMA CommandLaunchers ==
  ASSUME launchers \in [Launchers -> {"off", "due", "starting", "owns"}], NEW r \in Runners, CommandStep(r)
  PROVE  /\ launchers' \in [Launchers -> {"off", "due", "starting", "owns"}]
         /\ Alive' \subseteq Alive \/ Loads(r)
         /\ KillsLaunchers(r) => Alive' = {}
<1>1. UNCHANGED launchers \/ Unloads(r) \/ EndsEngine(r) \/ KillsEngine(r) \/ KillsLaunchers(r) \/ Loads(r)
  BY DEF CommandStep, DiskStep, JobStep, Completes, processVars
<1>2. KillsLaunchers(r) => Alive' = {}
  BY DEF KillsLaunchers, LaunchersBecome, Alive
<1> QED
  BY <1>1, <1>2, LaunchersFall, LoadsOne

\* The command that installs goes on.
LEMMA InstallGoesOn ==
  ASSUME TodoSound, launchers \in [Launchers -> {"off", "due", "starting", "owns"}],
         NEW r \in Runners, InstallSound(r), CommandStep(r)
  PROVE  InstallSound(r)'
<1> DEFINE s == todo[r]
<1>1. /\ s \in Seq(Steps) /\ s # <<>>
      /\ \/ todo'[r] = s \/ todo'[r] = <<>>
         \/ \E f \in Seq(Steps) : Avoids(f, {"install"}) /\ todo'[r] = f \o Tail(s)
  BY WhatIsLeft DEF Busy
<1>2. Len(s) \in Nat /\ Len(s) >= 1
  BY <1>1, EmptySeq
<1>3. CASE todo'[r] = <<>>
  BY <1>3 DEF InstallSound, Avoids
<1>4. CASE Avoids(s, {"install"}) /\ todo'[r] # <<>>
  <2>1. Tail(s) \in Seq(Steps) /\ Avoids(Tail(s), {"install"})
    BY <1>1, <1>4, AvoidsTail
  <2> QED
    BY <1>1, <1>4, <2>1, AvoidsConcat DEF InstallSound
<1>5. CASE InstallSoon(r) /\ Len(s) > 6 /\ todo'[r] # <<>>
  <2>1. EndsInstall(Tail(s)) /\ Tail(s) \in Seq(Steps) /\ Len(Tail(s)) > 5
    BY <1>1, <1>5, EndsTail, HeadTailProperties DEF InstallSoon
  <2>2. EndsInstall(todo'[r]) /\ Len(todo'[r]) > 5
    <3>1. CASE todo'[r] = s
      BY <1>5, <1>2, <3>1 DEF InstallSoon
    <3>2. CASE \E f \in Seq(Steps) : todo'[r] = f \o Tail(s)
      BY <2>1, <3>2, EndsFront
    <3> QED
      BY <1>1, <1>5, <3>1, <3>2
  <2> QED
    BY <2>2 DEF InstallSound, InstallSoon
<1>6. CASE InstallSoon(r) /\ Len(s) <= 6 /\ todo'[r] # <<>>
  <2> DEFINE n == Len(s)
  <2>1. n \in 1..6 /\ Head(s) = Behind[n]
    <3>1. n \in 1..6
      <4>1. \A m \in Nat : m >= 1 /\ m <= 6 => m \in 1..6
        OBVIOUS
      <4> QED
        BY <1>2, <1>6, <4>1
    <3>2. EndsInstall(s)
      BY <1>6 DEF InstallSoon
    <3> QED
      BY <1>1, <1>6, <3>1, <3>2, EndsTail
  <2>2. Goes(r) /\ (n = 6 => KillsLaunchers(r)) /\ (n # 5 => ~Loads(r))
    BY <2>1, LastSteps
  <2>3. Tail(s) \in Seq(Steps) /\ Len(Tail(s)) = n - 1 /\ EndsInstall(Tail(s))
    BY <1>1, <1>6, EndsTail, HeadTailProperties DEF InstallSoon
  <2>4. todo'[r] = Tail(s)
    <3>1. <<>> \o Tail(s) = Tail(s)
      BY <2>3, ConcatEmptySeq
    <3> QED
      BY <2>2, <3>1 DEF Goes, Then, TodoSound
  <2>5. Len(todo'[r]) = n - 1 /\ EndsInstall(todo'[r])
    BY <2>3, <2>4
  <2>6. Alive' \subseteq Alive \/ Loads(r)
    BY CommandLaunchers
  <2>7. CASE n = 6
    BY <2>2, <2>5, <2>7, CommandLaunchers DEF InstallSound, InstallSoon
  <2>8. CASE n = 5
    <3>1. AtMostOne'
      BY <1>6, <2>6, <2>8, LoadsOne, FallKeepsFew DEF InstallSoon, AtMostOne
    <3> QED
      BY <2>5, <2>8, <3>1 DEF InstallSound, InstallSoon
  <2>9. CASE n < 5
    <3>1. AtMostOne'
      BY <1>6, <2>2, <2>6, <2>9, FallKeepsFew DEF InstallSoon
    <3> QED
      BY <2>1, <2>5, <2>9, <3>1 DEF InstallSound, InstallSoon
  <2>10. n = 6 \/ n = 5 \/ n < 5
    <3>1. \A m \in 1..6 : m = 6 \/ m = 5 \/ m < 5
      OBVIOUS
    <3> QED
      BY <2>1, <3>1
  <2> QED
    BY <2>7, <2>8, <2>9, <2>10
<1> QED
  BY <1>1, <1>3, <1>4, <1>5, <1>6 DEF InstallSound, InstallSoon

\* A command begins.
LEMMA BeginsInstall ==
  ASSUME NEW r \in Runners, NEW c \in Names, NEW p \in Prebuilt, Begins(r, c, p), TodoSound, OneInv
  PROVE  OneInv'
<1> DEFINE rest == Plan(c) \o <<c>>
<1>1. todo' = [todo EXCEPT ![r] = rest] /\ disturbed' = (\E q \in Runners : Busy(q)) /\ after' = Nothing
      /\ UNCHANGED launchers
  BY DEF Begins, processVars
<1>2. Avoids(rest, {"install"}) \/ (EndsInstall(rest) /\ Len(rest) > 5)
  <2>1. CASE c = "install"
    BY <2>1, InstallEnds
  <2>2. CASE c # "install"
    <3>1. Plan(c) \in Seq(Steps) /\ Avoids(Plan(c), {"install"})
      BY PlansHarmless, HarmlessAvoids DEF Avoids, Names, ShellCommands
    <3>2. <<c>> \in Seq(Steps) /\ Avoids(<<c>>, {"install"})
      BY <2>2 DEF Steps, OffApp, Avoids
    <3> QED
      BY <3>1, <3>2, AvoidsConcat
  <2> QED
    BY <2>1, <2>2
<1> HIDE DEF rest
<1>3. todo'[r] = rest /\ \A q \in Runners : q # r => todo'[q] = todo[q]
  BY <1>1 DEF TodoSound
<1>4. InstallSound(r)'
  BY <1>2, <1>3 DEF InstallSound, InstallSoon
<1>5. ASSUME ~disturbed', NEW q \in Runners, q # r PROVE InstallSound(q)'
  BY <1>1, <1>3, <1>5 DEF Busy, InstallSound, Avoids
<1> QED
  BY <1>1, <1>4, <1>5 DEF OneInv, Nothing

\* Steps of no command: nothing grows.
LEMMA OthersKeepOne ==
  ASSUME TodoSound, OneInv,
         launchers' \in [Launchers -> {"off", "due", "starting", "owns"}], Alive' \subseteq Alive,
         \A q \in Runners : todo'[q] = todo[q] \/ todo'[q] = <<>>,
         ~disturbed' => ~disturbed, after' = after \/ after' = Nothing
  PROVE  OneInv'
<1>1. ~disturbed' => \A q \in Runners : InstallSound(q)'
  BY InstallStays DEF OneInv
<1>2. after' = "install" => AtMostOne' /\ \A q \in Runners : ~Busy(q)'
  BY FallKeepsFew DEF OneInv, Nothing, Busy
<1> QED
  BY <1>1, <1>2 DEF OneInv

LEMMA CommandKeepsOne ==
  ASSUME TodoSound, OneInv, NEW r \in Runners, CommandStep(r)
  PROVE  OneInv'
<1>1. launchers' \in [Launchers -> {"off", "due", "starting", "owns"}]
  BY CommandLaunchers DEF OneInv
<1>2. Busy(r) /\ \A q \in Runners : ~Busy(q) => todo'[q] = <<>>
  BY WhatIsLeft
<1>3. after # "install"
  BY <1>2 DEF OneInv
<1>4. ASSUME ~disturbed PROVE \A q \in Runners : InstallSound(q)'
  <2>1. InstallSound(r)'
    BY <1>4, InstallGoesOn DEF OneInv
  <2>2. \A q \in Runners : q # r => todo'[q] = <<>>
    BY <1>2, <1>4 DEF TodoSound
  <2> QED
    BY <2>1, <2>2 DEF InstallSound, Avoids
<1>5. CASE Completes(r)
  <2>1. \A q \in Runners : q # r => todo'[q] = todo[q]
    BY <1>5 DEF Completes, Goes, Then, TodoSound
  <2>2. todo[r] \in Seq(Steps) /\ todo[r] # <<>> /\ Len(todo[r]) = 1
    BY <1>2, <1>5 DEF Completes, TodoSound, Busy
  <2>3. todo'[r] = <<>>
    <3>1. Tail(todo[r]) \in Seq(Steps) /\ Len(Tail(todo[r])) = 0
      BY <2>2, HeadTailProperties
    <3>2. Tail(todo[r]) = <<>> /\ <<>> \o <<>> = <<>>
      BY <3>1, EmptySeq, ConcatEmptySeq
    <3> QED
      BY <1>5, <3>2 DEF Completes, Goes, Then, TodoSound
  <2>4. ~disturbed' => ~disturbed \/ \A q \in Runners : todo'[q] = <<>>
    BY <1>5, <2>1, <2>3 DEF Completes, Busy
  <2>5. ASSUME after' = "install" PROVE AtMostOne' /\ \A q \in Runners : ~Busy(q)'
    <3>1. Head(todo[r]) = "install" /\ ~disturbed /\ \A q \in Runners \ {r} : ~Busy(q)
      BY <1>5, <2>5 DEF Completes, Nothing
    <3>2. ~Avoids(todo[r], {"install"})
      BY <2>2, <3>1, AvoidsTail
    <3>3. AtMostOne
      <4>1. InstallSoon(r)
        BY <3>1, <3>2 DEF OneInv, InstallSound
      <4> QED
        BY <2>2, <4>1 DEF InstallSoon
    <3>4. UNCHANGED launchers
      BY <1>5 DEF Completes, processVars
    <3> QED
      BY <2>1, <2>3, <3>1, <3>3, <3>4 DEF AtMostOne, Alive, Busy
  <2>6. ~disturbed' => \A q \in Runners : InstallSound(q)'
    BY <1>4, <2>4 DEF InstallSound, Avoids
  <2> QED
    BY <1>1, <2>5, <2>6 DEF OneInv
<1>6. CASE DiskStep(r) \/ JobStep(r)
  <2>1. UNCHANGED <<disturbed, after>>
    BY <1>6 DEF DiskStep, JobStep, history
  <2> QED
    BY <1>1, <1>3, <1>4, <2>1 DEF OneInv
<1> QED
  BY <1>5, <1>6 DEF CommandStep

LEMMA OneInit ==
  ASSUME Init
  PROVE  OneInv
BY DEF Init, ServicesInit, OneInv, InstallSound, Avoids, Nothing

LEMMA OneNext ==
  ASSUME TodoSound, OneInv, [Next]_vars
  PROVE  OneInv'
<1>1. CASE UNCHANGED <<processVars, commandVars>>
  <2>1. UNCHANGED <<launchers, todo, disturbed, after>>
    BY <1>1 DEF processVars, commandVars
  <2> QED
    BY <2>1, LaunchersFall, OthersKeepOne DEF OneInv
<1>2. CASE ServiceStep
  <2>1. CASE \E c \in ShellCommands, p \in Prebuilt : Begins("shell", c, p)
    BY <2>1, BeginsInstall DEF Runners, Names
  <2>2. CASE \E c \in SwitchCommands : Begins("switch", c, "none")
    BY <2>2, BeginsInstall DEF Runners, Names, Prebuilt
  <2>3. CASE Stops("shell")
    <3>1. UNCHANGED <<launchers, disturbed, after>> /\ todo' = [todo EXCEPT !["shell"] = <<>>]
      BY <2>3 DEF Stops, processVars
    <3> QED
      BY <3>1, LaunchersFall, OthersKeepOne DEF OneInv, TodoSound
  <2>4. CASE \E clean \in BOOLEAN : EngineEnds(clean)
    <3>1. (~disturbed' => ~disturbed) /\ (after' = after \/ after' = Nothing)
      BY <2>4 DEF EngineEnds
    <3>2. \A q \in Runners : todo'[q] = todo[q] \/ todo'[q] = <<>>
      BY <2>4 DEF EngineEnds, SwitchDies, TodoSound
    <3> QED
      BY <2>4, <3>1, <3>2, LaunchersFall, OthersKeepOne DEF OneInv
  <2>5. CASE ProcessStep
    <3>1. UNCHANGED <<todo, disturbed, after>>
      BY <2>5 DEF ProcessStep, ServesAlone, Spawns, Serves, commandVars
    <3> QED
      BY <2>5, <3>1, LaunchersFall, OthersKeepOne DEF OneInv
  <2>6. CASE \E r \in Runners : CommandStep(r)
    BY <2>6, CommandKeepsOne
  <2> QED
    BY <1>1, <1>2, <2>1, <2>2, <2>3, <2>4, <2>5, <2>6 DEF ServiceStep, Commands
<1> QED
  BY <1>1, <1>2 DEF Next, EditStep, ListenStep, vars, serviceVars

\* _kill_orphan_processes: after an install that nothing disturbed one launcher at
\* most is alive, whatever earlier commands, kills and crashes left behind.
THEOREM InstallsLeaveAtMostOneLauncher == Spec => []InstallLeavesAtMostOne
<1>1. OneInv => InstallLeavesAtMostOne
  <2> SUFFICES ASSUME OneInv, after = "install"
               PROVE  Cardinality(Alive) <= 1
    BY DEF InstallLeavesAtMostOne, Alive
  <2>1. Alive = {} \/ \E l \in Launchers : Alive = {l}
    BY DEF OneInv, AtMostOne, Alive
  <2>2. CASE Alive = {}
    BY <2>2, FS_EmptySet
  <2>3. CASE \E l \in Launchers : Alive = {l}
    BY <2>3, FS_Singleton
  <2> QED
    BY <2>1, <2>2, <2>3
<1>2. Spec => []SignedInv
  BY SignedInit, SignedNext, PTL DEF Spec
<1>3. SignedInv => TodoSound
  BY DEF SignedInv
<1>4. Spec => []OneInv
  BY <1>2, <1>3, OneInit, OneNext, PTL DEF Spec
<1> QED
  BY <1>1, <1>4, PTL
-----------------------------------------------------------------------------
(***************************************************************************)
(* The configuration file.  What is read of a file is a fold over its      *)
(* lines, so the proofs are inductions over sequences, by the least        *)
(* counterexample: a set of numbers has a least one, and a function that   *)
(* is defined by recursion over sets of indices is built line by line.     *)
(***************************************************************************)
\* Every set of numbers has a least one: the induction of the proofs below.
LEMMA Least ==
  ASSUME NEW T \in SUBSET Nat, T # {}
  PROVE  \E m \in T : \A k \in T : m <= k
<1> DEFINE U == {1..m : m \in T}
<1>1. U \subseteq FiniteSubsetsOf(Nat)
  <2> SUFFICES ASSUME NEW m \in T PROVE 1..m \in FiniteSubsetsOf(Nat)
    OBVIOUS
  <2>1. IsFiniteSet(1..m)
    BY FS_Interval
  <2> QED
    BY <2>1 DEF FiniteSubsetsOf
<1>2. U # {}
  OBVIOUS
<1>3. IsWellFoundedOn(StrictSubsetOrdering(Nat), FiniteSubsetsOf(Nat))
  BY FS_StrictSubsetOrderingWellFounded
<1>4. \E x \in U : \A y \in U : <<y, x>> \notin StrictSubsetOrdering(Nat)
  <2> HIDE DEF U
  <2> QED
    BY <1>1, <1>2, <1>3, WFMin, Zenon
<1>5. PICK m \in T : \A k \in T : <<1..k, 1..m>> \notin StrictSubsetOrdering(Nat)
  BY <1>4
<1>6. ASSUME NEW k \in T, k < m PROVE FALSE
  <2>1. m \in 1..m /\ m \notin 1..k
    BY <1>6
  <2>2. <<1..k, 1..m>> \in StrictSubsetOrdering(Nat)
    BY <1>6, <2>1 DEF StrictSubsetOrdering
  <2> QED
    BY <1>5, <2>2
<1> QED
  BY <1>6

LEMMA UpTo ==
  ASSUME NEW n \in Nat, NEW G, 0 \in G, \A m \in 0..(n - 1) : m \in G => m + 1 \in G
  PROVE  0..n \subseteq G
<1> SUFFICES ASSUME (0..n) \ G # {} PROVE FALSE
  OBVIOUS
<1>1. PICK m \in (0..n) \ G : \A k \in (0..n) \ G : m <= k
  <2>1. (0..n) \ G \in SUBSET Nat
    OBVIOUS
  <2> QED
    BY <2>1, Least
<1>2. m - 1 \in 0..(n - 1) /\ m - 1 \in G
  BY <1>1
<1> QED
  BY <1>1, <1>2

LEMMA Greatest ==
  ASSUME NEW n \in Nat, NEW T \in SUBSET (1..n), T # {}
  PROVE  Max(T) \in T /\ \A k \in T : k <= Max(T)
<1> DEFINE D == {n - k : k \in T}
<1>0. \A k \in T : k \in 1..n /\ n - k \in Nat
  OBVIOUS
<1>1. D \in SUBSET Nat /\ D # {}
  BY <1>0
<1>2. PICK m \in D : \A k \in D : m <= k
  <2> HIDE DEF D
  <2> QED
    BY <1>1, Least
<1>3. PICK x \in T : m = n - x
  OBVIOUS
<1>4. \A k \in T : k <= x
  BY <1>0, <1>2, <1>3
<1>5. \A y \in T : (\A k \in T : k <= y) <=> (\A k \in T : y >= k)
  BY <1>0
<1> QED
  BY <1>4, <1>5 DEF Max

LEMMA Smallest ==
  ASSUME NEW T \in SUBSET Nat, T # {}
  PROVE  Min(T) \in T /\ \A k \in T : Min(T) <= k
BY Least DEF Min

LEMMA MaxUpTo ==
  ASSUME NEW n \in Nat \ {0}
  PROVE  Max(1..n) = n /\ (1..n) \ {n} = 1..(n - 1)
<1>0. 1..n \in SUBSET (1..n) /\ 1..n # {}
  OBVIOUS
<1>1. Max(1..n) \in 1..n /\ \A k \in 1..n : k <= Max(1..n)
  BY <1>0, Greatest
<1> QED
  BY <1>1

-----------------------------------------------------------------------------
\* Folds from the left, over the sets of indices that the community module folds over.
Folds(f, op, base, seq) ==
  /\ f[{}] = base
  /\ \A t \in SUBSET (1..Len(seq)) : t # {} => f[t] = op[<<f[t \ {Max(t)}], seq[Max(t)]>>]
FoldsAlike(f, g, n) ==
  /\ f[{}] = g[{}]
  /\ \A t \in SUBSET (1..n) : t # {} /\ f[t \ {Max(t)}] = g[t \ {Max(t)}] => f[t] = g[t]

LEMMA FoldExists ==
  ASSUME NEW S, NEW E, NEW op \in [S \X E -> S], NEW base \in S, NEW seq \in Seq(E)
  PROVE  \E f \in [SUBSET (1..Len(seq)) -> S] : Folds(f, op, base, seq)
<1> DEFINE Solves(f, n) ==
             /\ f[{}] = base
             /\ \A t \in SUBSET (1..n) : t # {} => f[t] = op[<<f[t \ {Max(t)}], seq[Max(t)]>>]
           G == {n \in 0..Len(seq) : \E f \in [SUBSET (1..n) -> S] : Solves(f, n)}
<1>0. Len(seq) \in Nat /\ \A i \in 1..Len(seq) : seq[i] \in E
  OBVIOUS
<1>1. 0 \in G
  <2> DEFINE g == [t \in SUBSET (1..0) |-> base]
  <2>1. g \in [SUBSET (1..0) -> S]
    OBVIOUS
  <2>2. SUBSET (1..0) = {{}}
    OBVIOUS
  <2>3. Solves(g, 0)
    BY <2>2
  <2> HIDE DEF g
  <2>4. 0 \in 0..Len(seq)
    BY <1>0
  <2> QED
    BY <2>1, <2>3, <2>4
<1>2. ASSUME NEW m \in 0..(Len(seq) - 1), m \in G PROVE m + 1 \in G
  <2>1. PICK f \in [SUBSET (1..m) -> S] : Solves(f, m)
    BY <1>2
  <2> DEFINE g == [t \in SUBSET (1..(m + 1)) |->
                     IF m + 1 \in t THEN op[<<f[t \ {m + 1}], seq[m + 1]>>] ELSE f[t]]
  <2>2. \A t \in SUBSET (1..(m + 1)) : t \ {m + 1} \in SUBSET (1..m)
    OBVIOUS
  <2>3. seq[m + 1] \in E
    BY <1>0
  <2>4. \A t \in SUBSET (1..(m + 1)) : m + 1 \notin t => t \in SUBSET (1..m)
    BY <2>2
  <2>5. g \in [SUBSET (1..(m + 1)) -> S]
    BY <2>2, <2>3, <2>4
  <2>6. \A t \in SUBSET (1..m) : g[t] = f[t]
    OBVIOUS
  <2>7. ASSUME NEW t \in SUBSET (1..(m + 1)), t # {}
        PROVE  g[t] = op[<<g[t \ {Max(t)}], seq[Max(t)]>>]
    <3>1. Max(t) \in t /\ \A k \in t : k <= Max(t)
      <4>1. m + 1 \in Nat
        BY <1>0
      <4> QED
        BY <2>7, <4>1, Greatest
    <3>2. CASE m + 1 \in t
      <4>1. Max(t) = m + 1
        <5>1. Max(t) \in 1..(m + 1) /\ m + 1 <= Max(t)
          BY <3>1, <3>2
        <5> QED
          BY <5>1, <1>0
      <4>2. g[t \ {m + 1}] = f[t \ {m + 1}]
        BY <2>2, <2>6
      <4> QED
        BY <3>2, <4>1, <4>2
    <3>3. CASE m + 1 \notin t
      <4>1. t \in SUBSET (1..m) /\ t \ {Max(t)} \in SUBSET (1..m)
        BY <3>3, <2>4
      <4> HIDE DEF g
      <4> QED
        BY <4>1, <2>1, <2>6, <2>7
    <3> QED
      BY <3>2, <3>3
  <2>8. g[{}] = base
    BY <2>1, <2>6
  <2>9. m + 1 \in 0..Len(seq)
    BY <1>0
  <2> HIDE DEF g
  <2>10. Solves(g, m + 1)
    BY <2>7, <2>8
  <2> HIDE DEF Solves
  <2> QED
    BY <2>5, <2>9, <2>10
<1> HIDE DEF G
<1>3. Len(seq) \in G
  <2>1. 0..Len(seq) \subseteq G
    BY <1>0, <1>1, <1>2, UpTo
  <2> QED
    BY <2>1, <1>0
<1> QED
  BY <1>3 DEF G, Folds

LEMMA SameFold ==
  ASSUME NEW n \in Nat, NEW f, NEW g, FoldsAlike(f, g, n)
  PROVE  \A t \in SUBSET (1..n) : f[t] = g[t]
<1> USE DEF FoldsAlike
<1> DEFINE G == {m \in 0..n : \A t \in SUBSET (1..m) : f[t] = g[t]}
<1>1. 0 \in G
  <2>1. SUBSET (1..0) = {{}} /\ 0 \in 0..n
    OBVIOUS
  <2> QED
    BY <2>1
<1>2. ASSUME NEW m \in 0..(n - 1), m \in G PROVE m + 1 \in G
  <2>0. m \in Nat /\ m + 1 \in Nat /\ m + 1 \in 0..n
    OBVIOUS
  <2> SUFFICES ASSUME NEW t \in SUBSET (1..(m + 1)) PROVE f[t] = g[t]
    BY <2>0
  <2>1. CASE t = {}
    BY <2>1
  <2>2. CASE t # {}
    <3>1. Max(t) \in t /\ \A k \in t : k <= Max(t)
      BY <2>0, <2>2, Greatest
    <3>2. t \ {Max(t)} \in SUBSET (1..m)
      <4>1. ASSUME NEW k \in t, k # Max(t) PROVE k \in 1..m
        <5>1. k \in 1..(m + 1) /\ Max(t) \in 1..(m + 1) /\ k <= Max(t)
          BY <3>1
        <5> QED
          BY <5>1, <4>1, <2>0
      <4> QED
        BY <4>1
    <3>3. f[t \ {Max(t)}] = g[t \ {Max(t)}]
      BY <3>2, <1>2
    <3>4. t \in SUBSET (1..n)
      <4>1. \A k \in 1..(m + 1) : k \in 1..n
        BY <2>0
      <4> QED
        BY <4>1
    <3> QED
      BY <3>3, <3>4, <2>2
  <2> QED
    BY <2>1, <2>2
<1> HIDE DEF G
<1>3. n \in G
  BY <1>1, <1>2, UpTo
<1> QED
  BY <1>3 DEF G

-----------------------------------------------------------------------------
\* The scanner, line by line.
Scan == [place : {"top", "own", "other"}, notes : Seq(Line), owned : Seq(Line), rest : Seq(Line)]

LEMMA ReadScan ==
  ASSUME NEW s, NEW scan \in Scan, NEW line \in Line
  PROVE  Read(s, scan, line) \in Scan
<1>1. /\ <<line>> \in Seq(Line)
      /\ scan.notes \in Seq(Line) /\ scan.owned \in Seq(Line) /\ scan.rest \in Seq(Line)
  BY DEF Scan
<1>2. /\ scan.owned \o scan.notes \o <<line>> \in Seq(Line)
      /\ scan.rest \o scan.notes \o <<line>> \in Seq(Line)
      /\ Append(scan.owned, line) \in Seq(Line) /\ Append(scan.rest, line) \in Seq(Line)
      /\ Append(scan.notes, line) \in Seq(Line) /\ <<>> \in Seq(Line)
  BY <1>1
<1> QED
  BY <1>1, <1>2 DEF Scan, Read, ReadOwn, ReadOther, ReadLine

LEMMA ScanFold ==
  ASSUME NEW s, NEW lines \in Seq(Line)
  PROVE  \E f \in [SUBSET (1..Len(lines)) -> Scan] :
            /\ f[{}] = Start
            /\ \A t \in SUBSET (1..Len(lines)) :
                  t # {} => f[t] = Read(s, f[t \ {Max(t)}], lines[Max(t)])
            /\ Scanned(lines, s) = f[1..Len(lines)]
<1> DEFINE op == [p \in Scan \X Line |-> Read(s, p[1], p[2])]
           n == Len(lines)
           Solves(f) == f = [t \in SUBSET DOMAIN lines |->
                               IF t = {} THEN Start ELSE Read(s, f[t \ {Max(t)}], lines[Max(t)])]
<1>1. op \in [Scan \X Line -> Scan]
  BY ReadScan
<1>2. Start \in Scan
  BY DEF Start, Scan
<1>3. DOMAIN lines = 1..n /\ n \in Nat /\ \A i \in 1..n : lines[i] \in Line
  OBVIOUS
<1>4. PICK f \in [SUBSET (1..Len(lines)) -> Scan] : Folds(f, op, Start, lines)
  <2> HIDE DEF op
  <2> QED
    BY <1>1, <1>2, FoldExists
<1>5. ASSUME NEW t \in SUBSET (1..n), t # {}
      PROVE  /\ t \ {Max(t)} \in SUBSET (1..n) /\ Max(t) \in 1..n
             /\ f[t] = Read(s, f[t \ {Max(t)}], lines[Max(t)])
  <2>1. Max(t) \in t
    BY <1>3, <1>5, Greatest
  <2>2. Max(t) \in 1..n /\ t \ {Max(t)} \in SUBSET (1..n)
    BY <2>1
  <2>3. f[t \ {Max(t)}] \in Scan /\ lines[Max(t)] \in Line
    BY <2>2, <1>3
  <2>4. op[<<f[t \ {Max(t)}], lines[Max(t)]>>] = Read(s, f[t \ {Max(t)}], lines[Max(t)])
    BY <2>3
  <2> QED
    BY <2>2, <2>4, <1>4, <1>5 DEF Folds
<1>6. Solves(f)
  <2>1. f = [t \in SUBSET (1..n) |-> f[t]]
    OBVIOUS
  <2> QED
    BY <2>1, <1>3, <1>4, <1>5 DEF Folds
<1>7. Scanned(lines, s) = (CHOOSE g : Solves(g))[DOMAIN lines]
  BY DEF Scanned, FoldLeft, MapThenFoldSet
<1>8. PICK g : Solves(g) /\ Scanned(lines, s) = g[DOMAIN lines]
  <2> HIDE DEF Solves
  <2> QED
    BY <1>6, <1>7
<1>9. \A t \in SUBSET (1..n) : f[t] = g[t]
  <2>1. {} \in SUBSET (1..n) /\ g[{}] = Start
    BY <1>8, <1>3
  <2>2. ASSUME NEW t \in SUBSET (1..n), t # {}, f[t \ {Max(t)}] = g[t \ {Max(t)}]
        PROVE  f[t] = g[t]
    <3>1. g[t] = Read(s, g[t \ {Max(t)}], lines[Max(t)])
      BY <1>8, <1>3, <2>2
    <3> QED
      BY <3>1, <2>2, <1>5
  <2>3. FoldsAlike(f, g, n)
    BY <2>1, <2>2, <1>4 DEF Folds, FoldsAlike
  <2>4. n \in Nat
    BY <1>3
  <2> HIDE DEF n
  <2> QED
    BY ONLY <2>3, <2>4, SameFold
<1>10. Scanned(lines, s) = f[1..n]
  BY <1>3, <1>8, <1>9
<1> HIDE DEF op, Solves
<1> QED
  BY <1>4, <1>5, <1>10 DEF Folds

LEMMA ScanStep ==
  ASSUME NEW s, NEW lines \in Seq(Line), NEW line \in Line
  PROVE  /\ Scanned(lines, s) \in Scan
         /\ Scanned(<<>>, s) = Start
         /\ Scanned(Append(lines, line), s) = Read(s, Scanned(lines, s), line)
<1> DEFINE n == Len(lines)
           more == Append(lines, line)
<1>1. /\ n \in Nat /\ more \in Seq(Line) /\ Len(more) = n + 1 /\ more[n + 1] = line
      /\ \A i \in 1..n : more[i] = lines[i]
  BY AppendProperties
<1>2. PICK f \in [SUBSET (1..Len(lines)) -> Scan] :
             /\ f[{}] = Start
             /\ \A t \in SUBSET (1..Len(lines)) :
                   t # {} => f[t] = Read(s, f[t \ {Max(t)}], lines[Max(t)])
             /\ Scanned(lines, s) = f[1..Len(lines)]
  BY ScanFold
<1>3. PICK g \in [SUBSET (1..Len(more)) -> Scan] :
             /\ g[{}] = Start
             /\ \A t \in SUBSET (1..Len(more)) :
                   t # {} => g[t] = Read(s, g[t \ {Max(t)}], more[Max(t)])
             /\ Scanned(more, s) = g[1..Len(more)]
  <2> HIDE DEF more
  <2> QED
    BY <1>1, ScanFold
<1> HIDE DEF more
<1>4. FoldsAlike(f, g, n)
  <2>1. ASSUME NEW t \in SUBSET (1..n), t # {}, f[t \ {Max(t)}] = g[t \ {Max(t)}]
        PROVE  f[t] = g[t]
    <3>1. Max(t) \in 1..n
      BY <1>1, <2>1, Greatest
    <3>2. t \in SUBSET (1..Len(more))
      <4>1. \A k \in 1..n : k \in 1..Len(more)
        BY <1>1
      <4> QED
        BY <4>1
    <3> QED
      BY <3>1, <3>2, <1>1, <1>2, <1>3, <2>1
  <2> QED
    BY <2>1, <1>2, <1>3 DEF FoldsAlike
<1>5. f[1..n] = g[1..n]
  <2>1. n \in Nat
    BY <1>1
  <2>2. FoldsAlike(f, g, n)
    BY <1>4
  <2> HIDE DEF n
  <2>3. \A t \in SUBSET (1..n) : f[t] = g[t]
    BY ONLY <2>1, <2>2, SameFold
  <2>4. 1..n \in SUBSET (1..n)
    OBVIOUS
  <2> QED
    BY <2>3, <2>4
<1>6. g[1..(n + 1)] = Read(s, g[1..n], line)
  <2>1. Max(1..(n + 1)) = n + 1 /\ (1..(n + 1)) \ {n + 1} = 1..n
    <3>1. n + 1 \in Nat \ {0} /\ (n + 1) - 1 = n
      BY <1>1
    <3> QED
      BY <3>1, MaxUpTo
  <2>2. 1..(n + 1) \in SUBSET (1..Len(more)) /\ 1..(n + 1) # {}
    BY <1>1
  <2> QED
    BY <2>1, <2>2, <1>1, <1>3
<1>7. Scanned(<<>>, s) = Start
  <2> DEFINE none == <<>>
  <2>1. none \in Seq(Line) /\ 1..Len(none) = {}
    OBVIOUS
  <2> HIDE DEF none
  <2>2. PICK h \in [SUBSET (1..Len(none)) -> Scan] :
               h[{}] = Start /\ Scanned(none, s) = h[1..Len(none)]
    BY <2>1, ScanFold
  <2>3. Scanned(none, s) = Start
    BY <2>1, <2>2
  <2> QED
    BY <2>3 DEF none
<1>8. 1..Len(lines) \in SUBSET (1..Len(lines))
  OBVIOUS
<1> QED
  BY <1>1, <1>2, <1>3, <1>5, <1>6, <1>7, <1>8 DEF more

-----------------------------------------------------------------------------
\* What is left without the notes.
Kept(kept, line) == IF line.kind = "note" THEN kept ELSE Append(kept, line)

LEMMA SolidFold ==
  ASSUME NEW lines \in Seq(Line)
  PROVE  \E f \in [SUBSET (1..Len(lines)) -> Seq(Line)] :
            /\ f[{}] = <<>>
            /\ \A t \in SUBSET (1..Len(lines)) :
                  t # {} => f[t] = Kept(f[t \ {Max(t)}], lines[Max(t)])
            /\ Solid(lines) = f[1..Len(lines)]
<1> DEFINE op == [p \in Seq(Line) \X Line |-> Kept(p[1], p[2])]
           n == Len(lines)
           Solves(f) == f = [t \in SUBSET DOMAIN lines |->
                               IF t = {} THEN <<>> ELSE Kept(f[t \ {Max(t)}], lines[Max(t)])]
<1>1. op \in [Seq(Line) \X Line -> Seq(Line)]
  BY DEF Kept
<1>2. <<>> \in Seq(Line)
  OBVIOUS
<1>3. DOMAIN lines = 1..n /\ n \in Nat /\ \A i \in 1..n : lines[i] \in Line
  OBVIOUS
<1>4. PICK f \in [SUBSET (1..Len(lines)) -> Seq(Line)] : Folds(f, op, <<>>, lines)
  <2> HIDE DEF op
  <2> QED
    BY <1>1, <1>2, FoldExists
<1>5. ASSUME NEW t \in SUBSET (1..n), t # {}
      PROVE  /\ t \ {Max(t)} \in SUBSET (1..n) /\ Max(t) \in 1..n
             /\ f[t] = Kept(f[t \ {Max(t)}], lines[Max(t)])
  <2>1. Max(t) \in t
    BY <1>3, <1>5, Greatest
  <2>2. Max(t) \in 1..n /\ t \ {Max(t)} \in SUBSET (1..n)
    BY <2>1
  <2>3. f[t \ {Max(t)}] \in Seq(Line) /\ lines[Max(t)] \in Line
    BY <2>2, <1>3
  <2>4. op[<<f[t \ {Max(t)}], lines[Max(t)]>>] = Kept(f[t \ {Max(t)}], lines[Max(t)])
    BY <2>3
  <2> QED
    BY <2>2, <2>4, <1>4, <1>5 DEF Folds
<1>6. Solves(f)
  <2>1. f = [t \in SUBSET (1..n) |-> f[t]]
    OBVIOUS
  <2> QED
    BY <2>1, <1>3, <1>4, <1>5 DEF Folds
<1>7. Solid(lines) = (CHOOSE g : Solves(g))[DOMAIN lines]
  BY DEF Solid, Kept, FoldLeft, MapThenFoldSet
<1>8. PICK g : Solves(g) /\ Solid(lines) = g[DOMAIN lines]
  <2> HIDE DEF Solves
  <2> QED
    BY <1>6, <1>7
<1>9. \A t \in SUBSET (1..n) : f[t] = g[t]
  <2>1. {} \in SUBSET (1..n) /\ g[{}] = <<>>
    BY <1>8, <1>3
  <2>2. ASSUME NEW t \in SUBSET (1..n), t # {}, f[t \ {Max(t)}] = g[t \ {Max(t)}]
        PROVE  f[t] = g[t]
    <3>1. g[t] = Kept(g[t \ {Max(t)}], lines[Max(t)])
      BY <1>8, <1>3, <2>2
    <3> QED
      BY <3>1, <2>2, <1>5
  <2>3. FoldsAlike(f, g, n)
    BY <2>1, <2>2, <1>4 DEF Folds, FoldsAlike
  <2>4. n \in Nat
    BY <1>3
  <2> HIDE DEF n
  <2> QED
    BY ONLY <2>3, <2>4, SameFold
<1>10. Solid(lines) = f[1..n]
  BY <1>3, <1>8, <1>9
<1> HIDE DEF op, Solves
<1> QED
  BY <1>4, <1>5, <1>10 DEF Folds

LEMMA SolidStep ==
  ASSUME NEW lines \in Seq(Line), NEW line \in Line
  PROVE  /\ Solid(lines) \in Seq(Line)
         /\ Solid(<<>>) = <<>>
         /\ Solid(Append(lines, line)) = Kept(Solid(lines), line)
<1> DEFINE n == Len(lines)
           more == Append(lines, line)
<1>1. /\ n \in Nat /\ more \in Seq(Line) /\ Len(more) = n + 1 /\ more[n + 1] = line
      /\ \A i \in 1..n : more[i] = lines[i]
  BY AppendProperties
<1>2. PICK f \in [SUBSET (1..Len(lines)) -> Seq(Line)] :
             /\ f[{}] = <<>>
             /\ \A t \in SUBSET (1..Len(lines)) :
                   t # {} => f[t] = Kept(f[t \ {Max(t)}], lines[Max(t)])
             /\ Solid(lines) = f[1..Len(lines)]
  BY SolidFold
<1>3. PICK g \in [SUBSET (1..Len(more)) -> Seq(Line)] :
             /\ g[{}] = <<>>
             /\ \A t \in SUBSET (1..Len(more)) :
                   t # {} => g[t] = Kept(g[t \ {Max(t)}], more[Max(t)])
             /\ Solid(more) = g[1..Len(more)]
  <2> HIDE DEF more
  <2> QED
    BY <1>1, SolidFold
<1> HIDE DEF more
<1>4. FoldsAlike(f, g, n)
  <2>1. ASSUME NEW t \in SUBSET (1..n), t # {}, f[t \ {Max(t)}] = g[t \ {Max(t)}]
        PROVE  f[t] = g[t]
    <3>1. Max(t) \in 1..n
      BY <1>1, <2>1, Greatest
    <3>2. t \in SUBSET (1..Len(more))
      <4>1. \A k \in 1..n : k \in 1..Len(more)
        BY <1>1
      <4> QED
        BY <4>1
    <3> QED
      BY <3>1, <3>2, <1>1, <1>2, <1>3, <2>1
  <2> QED
    BY <2>1, <1>2, <1>3 DEF FoldsAlike
<1>5. f[1..n] = g[1..n]
  <2>1. n \in Nat
    BY <1>1
  <2>2. FoldsAlike(f, g, n)
    BY <1>4
  <2> HIDE DEF n
  <2>3. \A t \in SUBSET (1..n) : f[t] = g[t]
    BY ONLY <2>1, <2>2, SameFold
  <2>4. 1..n \in SUBSET (1..n)
    OBVIOUS
  <2> QED
    BY <2>3, <2>4
<1>6. g[1..(n + 1)] = Kept(g[1..n], line)
  <2>1. Max(1..(n + 1)) = n + 1 /\ (1..(n + 1)) \ {n + 1} = 1..n
    <3>1. n + 1 \in Nat \ {0} /\ (n + 1) - 1 = n
      BY <1>1
    <3> QED
      BY <3>1, MaxUpTo
  <2>2. 1..(n + 1) \in SUBSET (1..Len(more)) /\ 1..(n + 1) # {}
    BY <1>1
  <2> QED
    BY <2>1, <2>2, <1>1, <1>3
<1>7. Solid(<<>>) = <<>>
  <2>1. <<>> \in Seq(Line) /\ 1..Len(<<>>) = {}
    OBVIOUS
  <2> QED
    BY <2>1, SolidFold
<1>8. 1..Len(lines) \in SUBSET (1..Len(lines))
  OBVIOUS
<1> QED
  BY <1>1, <1>2, <1>3, <1>5, <1>6, <1>7, <1>8 DEF more

\* Induction over sequences.
LEMMA Sequences ==
  ASSUME NEW E, NEW G, <<>> \in G, \A q \in Seq(E), e \in E : q \in G => Append(q, e) \in G
  PROVE  Seq(E) \subseteq G
<1> DEFINE K == {n \in Nat : \A q \in Seq(E) : Len(q) = n => q \in G}
<1>1. 0 \in K
  BY EmptySeq
<1>2. ASSUME NEW n \in Nat, n \in K PROVE n + 1 \in K
  <2> SUFFICES ASSUME NEW q \in Seq(E), Len(q) = n + 1 PROVE q \in G
    OBVIOUS
  <2>1. q # <<>>
    BY EmptySeq
  <2>2. PICK p \in Seq(E), e \in E : q = Append(p, e)
    BY <2>1, SequenceEmptyOrAppend
  <2>3. Len(p) = n
    BY <2>2, AppendProperties
  <2> QED
    BY <2>2, <2>3, <1>2
<1> HIDE DEF K
<1>3. ASSUME NEW q \in Seq(E) PROVE q \in G
  <2>1. Len(q) \in Nat
    OBVIOUS
  <2>2. 0..Len(q) \subseteq K
    BY <2>1, <1>1, <1>2, UpTo
  <2>3. Len(q) \in K
    BY <2>1, <2>2
  <2> QED
    BY <2>3 DEF K
<1> QED
  BY <1>3

LEMMA Blank == Solid(<<>>) = <<>> /\ (\A s : Scanned(<<>>, s) = Start) /\ \A q \in Seq(Line) : Solid(q) \in Seq(Line)
<1>1. [kind |-> "note", name |-> "banner"] \in Line
  BY DEF Line, LineNames
<1>2. <<>> \in Seq(Line)
  OBVIOUS
<1>3. \A s : Scanned(<<>>, s) = Start
  BY <1>1, <1>2, ScanStep
<1>4. Solid(<<>>) = <<>> /\ \A q \in Seq(Line) : Solid(q) \in Seq(Line)
  BY <1>1, <1>2, SolidStep
<1> QED
  BY <1>3, <1>4

LEMMA SolidConcat ==
  ASSUME NEW a \in Seq(Line), NEW b \in Seq(Line)
  PROVE  Solid(a \o b) = Solid(a) \o Solid(b)
<1> DEFINE G == {q \in Seq(Line) : Solid(a \o q) = Solid(a) \o Solid(q)}
<1>1. <<>> \in G
  <2>1. Solid(<<>>) = <<>> /\ Solid(a) \in Seq(Line)
    BY Blank
  <2> QED
    BY <2>1
<1>2. ASSUME NEW q \in Seq(Line), NEW e \in Line, q \in G PROVE Append(q, e) \in G
  <2>1. a \o Append(q, e) = Append(a \o q, e) /\ a \o q \in Seq(Line)
    OBVIOUS
  <2>2. /\ Solid(Append(q, e)) = Kept(Solid(q), e) /\ Solid(q) \in Seq(Line)
        /\ Solid(Append(a \o q, e)) = Kept(Solid(a \o q), e) /\ Solid(a) \in Seq(Line)
    BY <2>1, SolidStep
  <2>3. Solid(a) \o Append(Solid(q), e) = Append(Solid(a) \o Solid(q), e)
    BY <2>2
  <2>4. Append(q, e) \in Seq(Line)
    OBVIOUS
  <2>5. Solid(a \o Append(q, e)) = Solid(a) \o Solid(Append(q, e))
    BY <2>1, <2>2, <2>3, <1>2 DEF Kept
  <2> QED
    BY <2>4, <2>5
<1> HIDE DEF G
<1>3. b \in G
  BY <1>1, <1>2, Sequences
<1> QED
  BY <1>3 DEF G

NotesOnly(seq) == \A i \in DOMAIN seq : seq[i].kind = "note"

LEMMA SolidNotes ==
  ASSUME NEW b \in Seq(Line), NotesOnly(b)
  PROVE  Solid(b) = <<>>
<1> DEFINE G == {q \in Seq(Line) : NotesOnly(q) => Solid(q) = <<>>}
<1>1. <<>> \in G
  BY Blank
<1>2. ASSUME NEW q \in Seq(Line), NEW e \in Line, q \in G PROVE Append(q, e) \in G
  <2> SUFFICES ASSUME NotesOnly(Append(q, e)) PROVE Solid(Append(q, e)) = <<>>
    OBVIOUS
  <2>1. NotesOnly(q) /\ e.kind = "note"
    <3>1. /\ Len(Append(q, e)) = Len(q) + 1 /\ \A i \in 1..Len(q) : Append(q, e)[i] = q[i]
          /\ Append(q, e)[Len(q) + 1] = e /\ DOMAIN q = 1..Len(q)
          /\ DOMAIN Append(q, e) = 1..(Len(q) + 1) /\ Len(q) \in Nat
      BY AppendProperties
    <3> QED
      BY <3>1 DEF NotesOnly
  <2> QED
    BY <2>1, <1>2, SolidStep DEF Kept
<1> HIDE DEF G
<1>3. b \in G
  BY <1>1, <1>2, Sequences
<1> QED
  BY <1>3 DEF G

-----------------------------------------------------------------------------
\* What the editor of a section shows of a file, and whether the file ends in it.
View(lines, t) == Solid(Scanned(lines, t).owned)
In(lines, t) == Scanned(lines, t).place = "own"

\* Notes are kept back only before the first header.
LEMMA Backlog ==
  ASSUME NEW s, NEW lines \in Seq(Line)
  PROVE  /\ Scanned(lines, s) \in Scan
         /\ NotesOnly(Scanned(lines, s).notes)
         /\ Scanned(lines, s).place # "top" => Scanned(lines, s).notes = <<>>
<1> DEFINE Fits(scan) == /\ scan \in Scan /\ NotesOnly(scan.notes)
                         /\ scan.place # "top" => scan.notes = <<>>
           G == {q \in Seq(Line) : Fits(Scanned(q, s))}
<1>1. <<>> \in G
  <2>1. Fits(Start)
    BY DEF Start, Scan, NotesOnly
  <2> HIDE DEF Fits
  <2> QED
    BY <2>1, Blank
<1>2. ASSUME NEW q \in Seq(Line), NEW e \in Line, q \in G PROVE Append(q, e) \in G
  <2>1. Scanned(Append(q, e), s) = Read(s, Scanned(q, s), e)
    BY ScanStep
  <2>2. ASSUME NEW scan \in Scan, NotesOnly(scan.notes), scan.place # "top" => scan.notes = <<>>
        PROVE  Fits(Read(s, scan, e))
    <3>1. Read(s, scan, e) \in Scan
      BY ReadScan
    <3>2. scan.notes \in Seq(Line)
      BY DEF Scan
    <3>3. e.kind = "note" => NotesOnly(Append(scan.notes, e))
      <4>1. /\ \A i \in 1..Len(scan.notes) : Append(scan.notes, e)[i] = scan.notes[i]
            /\ Append(scan.notes, e)[Len(scan.notes) + 1] = e
            /\ DOMAIN Append(scan.notes, e) = 1..(Len(scan.notes) + 1)
            /\ Len(scan.notes) \in Nat /\ DOMAIN scan.notes = 1..Len(scan.notes)
        BY <3>2, AppendProperties
      <4> QED
        BY <4>1, <2>2 DEF NotesOnly
    <3>4. NotesOnly(<<>>)
      BY DEF NotesOnly
    <3>5. CASE IsHeader(e) \/ e = Header(s)
      <4>1. Read(s, scan, e) = ReadOwn(scan, e) \/ Read(s, scan, e) = ReadOther(scan, e)
        BY <3>5 DEF Read
      <4>2. ReadOwn(scan, e).notes = <<>> /\ ReadOther(scan, e).notes = <<>>
        BY DEF ReadOwn, ReadOther
      <4> QED
        BY <3>1, <3>4, <4>1, <4>2
    <3>6. CASE ~IsHeader(e) /\ e # Header(s)
      <4>1. Read(s, scan, e) = ReadLine(scan, e)
        BY <3>6 DEF Read
      <4>2. CASE scan.place = "own"
        <5>1. ReadLine(scan, e) = [scan EXCEPT !.owned = Append(scan.owned, e)]
          BY <4>2 DEF ReadLine
        <5> QED
          BY <5>1, <4>1, <3>1, <2>2 DEF Scan
      <4>3. CASE scan.place = "other"
        <5>1. ReadLine(scan, e) = [scan EXCEPT !.rest = Append(scan.rest, e)]
          BY <4>3 DEF ReadLine
        <5> QED
          BY <5>1, <4>1, <3>1, <2>2 DEF Scan
      <4>4. CASE scan.place = "top"
        <5>1. ReadLine(scan, e).place = "top"
          BY <4>4 DEF ReadLine, Scan
        <5>2. NotesOnly(ReadLine(scan, e).notes)
          BY <4>4, <3>3, <3>4 DEF ReadLine, Scan
        <5> QED
          BY <5>1, <5>2, <4>1, <3>1
      <4> QED
        BY <4>2, <4>3, <4>4 DEF Scan
    <3> QED
      BY <3>5, <3>6
  <2>3. Append(q, e) \in Seq(Line)
    OBVIOUS
  <2> QED
    BY <2>1, <2>2, <2>3, <1>2
<1> HIDE DEF G
<1>3. lines \in G
  BY <1>1, <1>2, Sequences
<1> QED
  BY <1>3 DEF G

LEMMA NotHeader ==
  ASSUME NEW l \in Line
  PROVE  /\ IsHeader(l) <=> l.kind = "header"
         /\ \A t : l = Header(t) => IsHeader(l)
         /\ l.kind \in {"header", "key", "note"}
BY DEF Line, IsHeader, Header

LEMMA ViewStep ==
  ASSUME NEW t, NEW lines \in Seq(Line), NEW line \in Line
  PROVE  /\ View(lines, t) \in Seq(Line) /\ View(<<>>, t) = <<>> /\ ~In(<<>>, t)
         /\ View(Append(lines, line), t) = IF line = Header(t) \/ (In(lines, t) /\ line.kind = "key")
                                            THEN Append(View(lines, t), line) ELSE View(lines, t)
         /\ In(Append(lines, line), t) <=> line = Header(t) \/ (In(lines, t) /\ ~IsHeader(line))
<1> DEFINE scan == Scanned(lines, t)
<1>1. /\ scan \in Scan /\ NotesOnly(scan.notes) /\ scan.owned \in Seq(Line)
      /\ scan.notes \in Seq(Line)
  BY Backlog DEF Scan
<1>2. Scanned(Append(lines, line), t) = Read(t, scan, line)
  BY ScanStep
<1>3. View(lines, t) \in Seq(Line) /\ View(<<>>, t) = <<>> /\ ~In(<<>>, t)
  BY <1>1, Blank DEF View, In, Start
<1>4. Solid(scan.owned \o scan.notes \o <<line>>) = Kept(Solid(scan.owned), line)
  <2>1. /\ scan.owned \o scan.notes \o <<line>> = Append(scan.owned \o scan.notes, line)
        /\ scan.owned \o scan.notes \in Seq(Line)
    <3>1. \A a, b \in Seq(Line) : a \o b \in Seq(Line) /\ a \o b \o <<line>> = Append(a \o b, line)
      OBVIOUS
    <3> HIDE DEF scan
    <3> QED
      BY <3>1, <1>1
  <2>2. Solid(scan.owned \o scan.notes) = Solid(scan.owned) \o <<>>
    BY <1>1, SolidConcat, SolidNotes
  <2>3. @ = Solid(scan.owned)
    BY <1>1, Blank
  <2> QED
    BY <2>1, <2>2, <2>3, SolidStep
<1>5. Solid(Append(scan.owned, line)) = Kept(Solid(scan.owned), line)
  BY <1>1, SolidStep
<1> HIDE DEF scan
<1>6. CASE line = Header(t)
  <2>1. Read(t, scan, line).place = "own" /\ Read(t, scan, line).owned = scan.owned \o scan.notes \o <<line>>
    BY <1>6 DEF Read, ReadOwn
  <2>2. line.kind # "note"
    BY <1>6, NotHeader
  <2> QED
    BY <2>1, <2>2, <1>2, <1>3, <1>4, <1>6 DEF View, In, Kept, scan
<1>7. CASE line # Header(t) /\ IsHeader(line)
  <2>1. Read(t, scan, line).place = "other" /\ Read(t, scan, line).owned = scan.owned
    BY <1>7 DEF Read, ReadOther
  <2>2. line.kind # "key"
    BY <1>7, NotHeader
  <2> QED
    BY <2>1, <2>2, <1>2, <1>3, <1>7 DEF View, In, scan
<1>8. CASE ~IsHeader(line)
  <2>1. line # Header(t)
    BY <1>8, NotHeader
  <2>2. Read(t, scan, line) = ReadLine(scan, line)
    BY <2>1, <1>8 DEF Read
  <2>3. scan.place = "own" => /\ ReadLine(scan, line).place = "own"
                              /\ ReadLine(scan, line).owned = Append(scan.owned, line)
    <3> SUFFICES ASSUME scan.place = "own"
                 PROVE  ReadLine(scan, line).place = "own" /\ ReadLine(scan, line).owned = Append(scan.owned, line)
      OBVIOUS
    <3>1. ReadLine(scan, line) = [scan EXCEPT !.owned = Append(scan.owned, line)]
      BY DEF ReadLine
    <3> QED
      BY <3>1, <1>1 DEF Scan
  <2>4. scan.place # "own" => /\ ReadLine(scan, line).place # "own"
                              /\ ReadLine(scan, line).owned = scan.owned
    BY <1>1 DEF ReadLine, Scan
  <2>5. line.kind # "header"
    BY <1>8, NotHeader
  <2> QED
    BY <2>1, <2>2, <2>3, <2>4, <2>5, <1>2, <1>3, <1>5, <1>8, NotHeader DEF View, In, Kept, scan
<1> QED
  BY <1>6, <1>7, <1>8

\* A line more, and what saving a section would leave of the file.
LEMMA StripStep ==
  ASSUME NEW s, NEW lines \in Seq(Line), NEW line \in Line
  PROVE  LET scan == Scanned(lines, s)
             more == Append(lines, line)
         IN  /\ Strip(lines, s) \in Seq(Line) /\ Strip(<<>>, s) = <<>> /\ scan.rest \in Seq(Line)
             /\ line = Header(s) => Strip(more, s) = scan.rest /\ Scanned(more, s).rest = scan.rest
             /\ line # Header(s) /\ (IsHeader(line) \/ ~In(lines, s)) =>
                   /\ Strip(more, s) = Append(Strip(lines, s), line)
                   /\ \/ Scanned(more, s).rest = Append(Strip(lines, s), line)
                      \/ line.kind = "note" /\ Scanned(more, s).rest = scan.rest
             /\ In(lines, s) /\ ~IsHeader(line) =>
                   Strip(more, s) = Strip(lines, s) /\ Scanned(more, s).rest = scan.rest
<1> DEFINE scan == Scanned(lines, s)
           more == Append(lines, line)
<1>1. /\ scan \in Scan /\ scan.notes \in Seq(Line) /\ scan.rest \in Seq(Line)
      /\ scan.place # "top" => scan.notes = <<>>
  BY Backlog DEF Scan
<1>2. Scanned(more, s) = Read(s, scan, line)
  BY ScanStep
<1>3. \A q \in Seq(Line) : q \o <<>> = q /\ <<>> \o q = q
  OBVIOUS
<1>4. Strip(lines, s) = scan.rest \o scan.notes /\ Strip(lines, s) \in Seq(Line)
  BY <1>1 DEF Strip
<1>5. Strip(<<>>, s) = <<>>
  <2>1. Start.rest = <<>> /\ Start.notes = <<>>
    BY DEF Start
  <2>2. <<>> \in Seq(Line)
    OBVIOUS
  <2> QED
    BY <2>1, <2>2, <1>3, Blank DEF Strip
<1>6. \A a \in Seq(Line) : Append(a, line) \in Seq(Line)
  OBVIOUS
<1> HIDE DEF scan, more
<1>14. scan.rest \o scan.notes \o <<line>> = Append(Strip(lines, s), line)
  <2>1. \A a, b \in Seq(Line) : a \o b \o <<line>> = Append(a \o b, line)
    OBVIOUS
  <2>2. scan.rest \o scan.notes \o <<line>> = Append(scan.rest \o scan.notes, line)
    BY <2>1, <1>1
  <2> QED
    BY <2>2, <1>4
<1>15. scan.rest \o Append(scan.notes, line) = Append(Strip(lines, s), line)
  <2>1. \A a, b \in Seq(Line) : a \o Append(b, line) = Append(a \o b, line)
    OBVIOUS
  <2>2. scan.rest \o Append(scan.notes, line) = Append(scan.rest \o scan.notes, line)
    BY <2>1, <1>1
  <2> QED
    BY <2>2, <1>4
<1>7. ASSUME line = Header(s) PROVE Strip(more, s) = scan.rest /\ Scanned(more, s).rest = scan.rest
  <2>1. Read(s, scan, line).rest = scan.rest /\ Read(s, scan, line).notes = <<>>
    BY <1>7 DEF Read, ReadOwn
  <2> QED
    BY <2>1, <1>1, <1>2, <1>3 DEF Strip
<1>8. ASSUME line # Header(s), IsHeader(line)
      PROVE  Strip(more, s) = Append(Strip(lines, s), line) /\ Scanned(more, s).rest = Append(Strip(lines, s), line)
  <2>1. Read(s, scan, line).rest = scan.rest \o scan.notes \o <<line>> /\ Read(s, scan, line).notes = <<>>
    BY <1>8 DEF Read, ReadOther
  <2>2. Append(Strip(lines, s), line) \o <<>> = Append(Strip(lines, s), line)
    BY <1>3, <1>4, <1>6
  <2> QED
    BY <2>1, <2>2, <1>2, <1>14 DEF Strip
<1>9. ASSUME ~IsHeader(line)
      PROVE  line # Header(s) /\ Scanned(more, s) = ReadLine(scan, line)
  <2>1. line # Header(s)
    BY <1>9, NotHeader
  <2> QED
    BY <2>1, <1>2, <1>9 DEF Read
<1>10. ASSUME ~IsHeader(line), scan.place = "own"
       PROVE  Strip(more, s) = Strip(lines, s) /\ Scanned(more, s).rest = scan.rest
  <2>1. ReadLine(scan, line) = [scan EXCEPT !.owned = Append(scan.owned, line)]
    BY <1>10 DEF ReadLine
  <2>2. ReadLine(scan, line).rest = scan.rest /\ ReadLine(scan, line).notes = scan.notes
    BY <2>1, <1>1 DEF Scan
  <2> QED
    BY <2>2, <1>4, <1>9, <1>10 DEF Strip
<1>11. ASSUME ~IsHeader(line), scan.place = "other"
       PROVE  /\ Strip(more, s) = Append(Strip(lines, s), line)
              /\ Scanned(more, s).rest = Append(Strip(lines, s), line)
  <2>1. ReadLine(scan, line) = [scan EXCEPT !.rest = Append(scan.rest, line)]
    BY <1>11 DEF ReadLine
  <2>2. ReadLine(scan, line).rest = Append(scan.rest, line) /\ ReadLine(scan, line).notes = <<>>
    BY <2>1, <1>1, <1>11 DEF Scan
  <2>3. Strip(lines, s) = scan.rest
    BY <1>1, <1>3, <1>4, <1>11
  <2>4. Append(scan.rest, line) \o <<>> = Append(scan.rest, line)
    BY <1>1, <1>3, <1>6
  <2> QED
    BY <2>2, <2>3, <2>4, <1>9, <1>11 DEF Strip
<1>12. ASSUME ~IsHeader(line), scan.place = "top"
       PROVE  /\ Strip(more, s) = Append(Strip(lines, s), line)
              /\ \/ Scanned(more, s).rest = Append(Strip(lines, s), line)
                 \/ line.kind = "note" /\ Scanned(more, s).rest = scan.rest
  <2>1. CASE line.kind = "note"
    <3>1. ReadLine(scan, line) = [scan EXCEPT !.notes = Append(scan.notes, line)]
      BY <1>12, <2>1 DEF ReadLine
    <3>2. ReadLine(scan, line).rest = scan.rest /\ ReadLine(scan, line).notes = Append(scan.notes, line)
      BY <3>1, <1>1 DEF Scan
    <3> QED
      BY <3>2, <2>1, <1>9, <1>12, <1>15 DEF Strip
  <2>2. CASE line.kind # "note"
    <3>1. ReadLine(scan, line) = [scan EXCEPT !.notes = <<>>, !.rest = scan.rest \o scan.notes \o <<line>>]
      BY <1>12, <2>2 DEF ReadLine
    <3>2. /\ ReadLine(scan, line).rest = scan.rest \o scan.notes \o <<line>>
          /\ ReadLine(scan, line).notes = <<>>
      BY <3>1, <1>1 DEF Scan
    <3>3. Append(Strip(lines, s), line) \o <<>> = Append(Strip(lines, s), line)
      BY <1>3, <1>4, <1>6
    <3> QED
      BY <3>2, <3>3, <2>2, <1>9, <1>12, <1>14 DEF Strip
  <2> QED
    BY <2>1, <2>2
<1>13. scan.place \in {"top", "own", "other"}
  BY <1>1 DEF Scan
<1> QED
  BY <1>1, <1>4, <1>5, <1>7, <1>8, <1>9, <1>10, <1>11, <1>12, <1>13 DEF In, scan, more

\* Saving a section changes nothing in what the others show.
LEMMA StripView ==
  ASSUME NEW s, NEW t, Header(s) # Header(t), NEW lines \in Seq(Line)
  PROVE  View(Strip(lines, s), t) = View(lines, t)
<1> DEFINE Same(q) == /\ View(Strip(q, s), t) = View(q, t)
                      /\ View(Scanned(q, s).rest, t) = View(q, t)
                      /\ ~In(q, s) => In(Strip(q, s), t) = In(q, t)
                      /\ In(q, s) => ~In(q, t)
           G == {q \in Seq(Line) : Same(q)}
<1>1. <<>> \in G
  <2>1. Strip(<<>>, s) = <<>> /\ Scanned(<<>>, s).rest = <<>> /\ ~In(<<>>, s)
    <3>1. <<>> \in Seq(Line) /\ <<>> \o <<>> = <<>>
      OBVIOUS
    <3> QED
      BY <3>1, Blank DEF Start, Strip, In
  <2> QED
    BY <2>1
<1>2. ASSUME NEW q \in Seq(Line), NEW e \in Line, q \in G PROVE Append(q, e) \in G
  <2> DEFINE more == Append(q, e)
  <2>1. more \in Seq(Line) /\ Same(q)
    BY <1>2
  <2>2. Strip(q, s) \in Seq(Line) /\ Scanned(q, s).rest \in Seq(Line)
    BY StripStep
  <2>3. \A p \in Seq(Line) : \A x :
          /\ View(Append(p, e), x) = IF e = Header(x) \/ (In(p, x) /\ e.kind = "key")
                                      THEN Append(View(p, x), e) ELSE View(p, x)
          /\ In(Append(p, e), x) <=> e = Header(x) \/ (In(p, x) /\ ~IsHeader(e))
    BY ViewStep
  <2>4. IsHeader(e) <=> e.kind = "header"
    BY NotHeader
  <2> HIDE DEF more
  <2>5. CASE e = Header(s)
    <3>1. Strip(more, s) = Scanned(q, s).rest /\ Scanned(more, s).rest = Scanned(q, s).rest
      BY <2>5, StripStep DEF more
    <3>2. IsHeader(e) /\ e # Header(t)
      BY <2>5, NotHeader
    <3>3. View(more, t) = View(q, t) /\ ~In(more, t) /\ In(more, s)
      BY <3>2, <2>3, <2>4, <2>5 DEF more
    <3> QED
      BY <3>1, <3>3, <2>1 DEF more
  <2>6. CASE e # Header(s) /\ (IsHeader(e) \/ ~In(q, s))
    <3>1. /\ Strip(more, s) = Append(Strip(q, s), e)
          /\ \/ Scanned(more, s).rest = Append(Strip(q, s), e)
             \/ e.kind = "note" /\ Scanned(more, s).rest = Scanned(q, s).rest
      BY <2>6, StripStep DEF more
    <3>2. IsHeader(e) \/ In(Strip(q, s), t) = In(q, t)
      BY <2>1, <2>6
    <3>3. /\ In(Append(Strip(q, s), e), t) = In(more, t)
          /\ View(Append(Strip(q, s), e), t) = View(more, t)
      <4>1. /\ In(Append(Strip(q, s), e), t) <=> e = Header(t) \/ (In(Strip(q, s), t) /\ ~IsHeader(e))
            /\ In(more, t) <=> e = Header(t) \/ (In(q, t) /\ ~IsHeader(e))
        BY <2>2, <2>3 DEF more
      <4>2. /\ View(Append(Strip(q, s), e), t) = IF e = Header(t) \/ (In(Strip(q, s), t) /\ e.kind = "key")
                                                  THEN Append(View(Strip(q, s), t), e) ELSE View(Strip(q, s), t)
            /\ View(more, t) = IF e = Header(t) \/ (In(q, t) /\ e.kind = "key")
                                THEN Append(View(q, t), e) ELSE View(q, t)
        BY <2>2, <2>3 DEF more
      <4>3. View(Strip(q, s), t) = View(q, t)
        BY <2>1
      <4>4. In(Strip(q, s), t) \in BOOLEAN /\ In(q, t) \in BOOLEAN /\ In(more, t) \in BOOLEAN
            /\ In(Append(Strip(q, s), e), t) \in BOOLEAN
        BY DEF In
      <4>5. e.kind = "key" => ~IsHeader(e)
        BY <2>4
      <4> QED
        BY ONLY <4>1, <4>2, <4>3, <4>4, <4>5, <3>2
    <3>4. e.kind = "note" => View(more, t) = View(q, t)
      <4>1. e.kind = "note" => e # Header(t)
        BY <2>4, NotHeader
      <4> QED
        BY <4>1, <2>3 DEF more
    <3>5. ~In(more, s)
      BY <2>3, <2>6 DEF more
    <3> QED
      BY <3>1, <3>2, <3>3, <3>4, <3>5, <2>1 DEF more
  <2>7. CASE In(q, s) /\ ~IsHeader(e)
    <3>1. Strip(more, s) = Strip(q, s) /\ Scanned(more, s).rest = Scanned(q, s).rest
      BY <2>7, StripStep DEF more
    <3>2. e # Header(t) /\ e # Header(s)
      BY <2>7, NotHeader
    <3>3. View(more, t) = View(q, t) /\ ~In(more, t) /\ In(more, s)
      BY <3>2, <2>1, <2>3, <2>7 DEF more
    <3> QED
      BY <3>1, <3>3, <2>1 DEF more
  <2> QED
    BY <2>5, <2>6, <2>7
<1> HIDE DEF G
<1>3. lines \in G
  BY <1>1, <1>2, Sequences
<1> QED
  BY <1>3 DEF G

-----------------------------------------------------------------------------
\* Whether a file ends in a section, and what its view has, by the lines of the file.
Open(lines, t, n) ==
  \E j \in 1..n : lines[j] = Header(t) /\ \A m \in (j + 1)..n : ~IsHeader(lines[m])
Counts(lines, t, i) ==
  lines[i] = Header(t) \/ (lines[i].kind = "key" /\ Open(lines, t, i))

LEMMA OpenStep ==
  ASSUME NEW t, NEW q \in Seq(Line), NEW e \in Line
  PROVE  /\ \A i \in 1..Len(q) : Open(Append(q, e), t, i) = Open(q, t, i)
         /\ Open(Append(q, e), t, Len(q) + 1) <=> e = Header(t) \/ (Open(q, t, Len(q)) /\ ~IsHeader(e))
         /\ Open(q, t, Len(q)) \in BOOLEAN
<1> DEFINE more == Append(q, e)
           n == Len(q)
<1>1. /\ n \in Nat /\ Len(more) = n + 1 /\ more[n + 1] = e
      /\ \A i \in 1..n : more[i] = q[i]
  BY AppendProperties
<1> HIDE DEF more, n
<1>2. ASSUME NEW i \in 1..n PROVE Open(more, t, i) = Open(q, t, i)
  <2>1. \A j \in 1..i : j \in 1..n /\ more[j] = q[j] /\ \A m \in (j + 1)..i : m \in 1..n /\ more[m] = q[m]
    BY <1>1
  <2> QED
    BY <2>1 DEF Open
<1>3. ASSUME e = Header(t) PROVE Open(more, t, n + 1)
  <2>1. n + 1 \in 1..(n + 1) /\ ((n + 1) + 1)..(n + 1) = {}
    BY <1>1
  <2> QED
    BY <2>1, <1>1, <1>3 DEF Open
<1>4. ASSUME Open(q, t, n), ~IsHeader(e) PROVE Open(more, t, n + 1)
  <2>1. PICK j \in 1..n : q[j] = Header(t) /\ \A m \in (j + 1)..n : ~IsHeader(q[m])
    BY <1>4 DEF Open
  <2>2. \A m \in (j + 1)..(n + 1) : ~IsHeader(more[m])
    <3>1. \A m \in (j + 1)..(n + 1) : m = n + 1 \/ (m \in (j + 1)..n /\ m \in 1..n)
      BY <1>1
    <3> QED
      BY <3>1, <2>1, <1>1, <1>4
  <2>3. j \in 1..(n + 1)
    BY <1>1
  <2> QED
    BY <2>1, <2>2, <2>3, <1>1 DEF Open
<1>5. ASSUME Open(more, t, n + 1), e # Header(t) PROVE Open(q, t, n) /\ ~IsHeader(e)
  <2>1. PICK j \in 1..(n + 1) : more[j] = Header(t) /\ \A m \in (j + 1)..(n + 1) : ~IsHeader(more[m])
    BY <1>5 DEF Open
  <2>2. j # n + 1
    BY <2>1, <1>1, <1>5
  <2>3. j \in 1..n /\ n + 1 \in (j + 1)..(n + 1)
    BY <2>2, <1>1
  <2>4. \A m \in (j + 1)..n : m \in (j + 1)..(n + 1) /\ m \in 1..n
    BY <2>3, <1>1
  <2> QED
    BY <2>1, <2>3, <2>4, <1>1 DEF Open
<1>6. Open(q, t, n) \in BOOLEAN
  BY DEF Open
<1> QED
  BY <1>2, <1>3, <1>4, <1>5, <1>6 DEF more, n

LEMMA OpenIn ==
  ASSUME NEW t, NEW lines \in Seq(Line)
  PROVE  In(lines, t) <=> Open(lines, t, Len(lines))
<1> DEFINE G == {q \in Seq(Line) : In(q, t) <=> Open(q, t, Len(q))}
<1>1. <<>> \in G
  <2>1. Len(<<>>) = 0 /\ 1..0 = {}
    OBVIOUS
  <2>2. ~Open(<<>>, t, Len(<<>>))
    BY <2>1 DEF Open
  <2>3. ~In(<<>>, t)
    BY Blank DEF In, Start
  <2> QED
    BY <2>2, <2>3
<1>2. ASSUME NEW q \in Seq(Line), NEW e \in Line, q \in G PROVE Append(q, e) \in G
  <2>1. Len(Append(q, e)) = Len(q) + 1 /\ Append(q, e) \in Seq(Line)
    BY AppendProperties
  <2> QED
    BY <2>1, <1>2, ViewStep, OpenStep
<1> HIDE DEF G
<1>3. lines \in G
  BY <1>1, <1>2, Sequences
<1> QED
  BY <1>3 DEF G

LEMMA ViewHas ==
  ASSUME NEW t, NEW lines \in Seq(Line)
  PROVE  /\ \A v : v \in Range(View(lines, t)) <=> \E i \in 1..Len(lines) : lines[i] = v /\ Counts(lines, t, i)
         /\ IsInjective(View(lines, t)) =>
              \A i, j \in 1..Len(lines) : lines[i] = Header(t) /\ lines[j] = Header(t) => i = j
<1> DEFINE Has(q) == \A v : v \in Range(View(q, t)) <=> \E i \in 1..Len(q) : q[i] = v /\ Counts(q, t, i)
           Single(q) == IsInjective(View(q, t)) =>
                          \A i, j \in 1..Len(q) : q[i] = Header(t) /\ q[j] = Header(t) => i = j
           G == {q \in Seq(Line) : Has(q) /\ Single(q)}
<1>1. <<>> \in G
  <2>1. Len(<<>>) = 0 /\ 1..0 = {} /\ Range(<<>>) = {}
    BY DEF Range
  <2>2. View(<<>>, t) = <<>>
    BY Blank DEF View, Start
  <2> QED
    BY <2>1, <2>2
<1>2. ASSUME NEW q \in Seq(Line), NEW e \in Line, q \in G PROVE Append(q, e) \in G
  <2> DEFINE more == Append(q, e)
             n == Len(q)
             new == e = Header(t) \/ (In(q, t) /\ e.kind = "key")
  <2>1. /\ n \in Nat /\ Len(more) = n + 1 /\ more[n + 1] = e /\ more \in Seq(Line)
        /\ \A i \in 1..n : more[i] = q[i]
    BY AppendProperties
  <2>2. View(more, t) = (IF new THEN Append(View(q, t), e) ELSE View(q, t)) /\ View(q, t) \in Seq(Line)
    BY ViewStep
  <2>3. /\ \A i \in 1..n : Open(more, t, i) = Open(q, t, i)
        /\ Open(more, t, n + 1) <=> e = Header(t) \/ (In(q, t) /\ ~IsHeader(e))
    BY OpenStep, OpenIn
  <2>4. IsHeader(e) <=> e.kind = "header"
    BY NotHeader
  <2> HIDE DEF more, n
  <2>5. \A i \in 1..n : Counts(more, t, i) <=> Counts(q, t, i)
    BY <2>1, <2>3 DEF Counts
  <2>6. Counts(more, t, n + 1) <=> new
    BY <2>1, <2>3, <2>4 DEF Counts
  <2>7. \A i \in 1..(n + 1) : i = n + 1 \/ i \in 1..n
    BY <2>1
  <2>8. n + 1 \in 1..(n + 1) /\ 1..n \subseteq 1..(n + 1)
    BY <2>1
  <2>9. Range(Append(View(q, t), e)) = Range(View(q, t)) \cup {e}
    <3> DEFINE w == View(q, t)
    <3>1. /\ w \in Seq(Line) /\ DOMAIN w = 1..Len(w) /\ Len(w) \in Nat
          /\ DOMAIN Append(w, e) = 1..(Len(w) + 1) /\ Append(w, e)[Len(w) + 1] = e
          /\ \A i \in 1..Len(w) : Append(w, e)[i] = w[i]
      BY <2>2, AppendProperties
    <3> HIDE DEF w
    <3>2. \A i \in 1..(Len(w) + 1) : i = Len(w) + 1 \/ i \in 1..Len(w)
      BY <3>1
    <3>3. Len(w) + 1 \in 1..(Len(w) + 1) /\ 1..Len(w) \subseteq 1..(Len(w) + 1)
      BY <3>1
    <3> QED
      BY <3>1, <3>2, <3>3 DEF Range, w
  <2> HIDE DEF new
  <2>10. Has(q) /\ Single(q)
    BY <1>2 DEF n
  <2>11. Has(more)
    <3>1. \A v : (\E i \in 1..Len(more) : more[i] = v /\ Counts(more, t, i))
                 <=> (\E i \in 1..n : q[i] = v /\ Counts(q, t, i)) \/ (new /\ v = e)
      BY <2>1, <2>5, <2>6, <2>7, <2>8
    <3>2. \A v : v \in Range(View(more, t)) <=> v \in Range(View(q, t)) \/ (new /\ v = e)
      BY <2>2, <2>9
    <3> QED
      BY <3>1, <3>2, <2>10 DEF n
  <2>12. Single(more)
    <3> SUFFICES ASSUME IsInjective(View(more, t)), NEW i \in 1..Len(more), NEW j \in 1..Len(more),
                        more[i] = Header(t), more[j] = Header(t)
                 PROVE  i = j
      OBVIOUS
    <3> DEFINE w == View(q, t)
    <3>1. /\ w \in Seq(Line) /\ DOMAIN w = 1..Len(w) /\ Len(w) \in Nat
          /\ DOMAIN Append(w, e) = 1..(Len(w) + 1) /\ Append(w, e)[Len(w) + 1] = e
          /\ \A k \in 1..Len(w) : Append(w, e)[k] = w[k]
      BY <2>2, AppendProperties
    <3> HIDE DEF w
    <3>2. IsInjective(w)
      <4>1. CASE new
        <5>1. IsInjective(Append(w, e))
          BY <4>1, <2>2 DEF w
        <5>2. \A k \in 1..Len(w) : k \in 1..(Len(w) + 1)
          BY <3>1
        <5> QED
          BY <5>1, <5>2, <3>1 DEF IsInjective
      <4>2. CASE ~new
        BY <4>2, <2>2 DEF w
      <4> QED
        BY <4>1, <4>2
    <3>3. \A k, l \in 1..n : q[k] = Header(t) /\ q[l] = Header(t) => k = l
      BY <3>2, <2>10 DEF w, n
    <3>4. ASSUME NEW k \in 1..n, q[k] = Header(t) PROVE e # Header(t)
      <4> SUFFICES ASSUME e = Header(t) PROVE FALSE
        OBVIOUS
      <4>1. e \in Range(w)
        BY <3>4, <2>10 DEF w, n, Counts
      <4>2. PICK l \in 1..Len(w) : w[l] = e
        BY <4>1, <3>1 DEF Range
      <4>3. IsInjective(Append(w, e))
        BY <2>2 DEF w, new
      <4>4. l \in 1..(Len(w) + 1) /\ Len(w) + 1 \in 1..(Len(w) + 1) /\ l # Len(w) + 1
        BY <3>1
      <4> QED
        BY <4>2, <4>3, <4>4, <3>1 DEF IsInjective
    <3> QED
      BY <3>3, <3>4, <2>1, <2>7
  <2> QED
    BY <2>11, <2>12, <2>1 DEF more
<1> HIDE DEF G
<1>3. lines \in G
  BY <1>1, <1>2, Sequences
<1> QED
  BY <1>3 DEF G

\* What follows shows the same, whatever it follows, but for the section that is open.
LEMMA SameEnd ==
  ASSUME NEW t, NEW a \in Seq(Line), NEW b \in Seq(Line), In(a, t) = In(b, t), NEW lines \in Seq(Line)
  PROVE  /\ \E x \in Seq(Line) : View(a \o lines, t) = View(a, t) \o x /\ View(b \o lines, t) = View(b, t) \o x
         /\ In(a \o lines, t) = In(b \o lines, t)
<1> DEFINE Same(q) == /\ \E x \in Seq(Line) : /\ View(a \o q, t) = View(a, t) \o x
                                              /\ View(b \o q, t) = View(b, t) \o x
                      /\ In(a \o q, t) = In(b \o q, t)
           G == {q \in Seq(Line) : Same(q)}
<1>0. View(a, t) \in Seq(Line) /\ View(b, t) \in Seq(Line)
  BY Backlog, Blank DEF View, Scan
<1>1. <<>> \in G
  <2>1. a \o <<>> = a /\ b \o <<>> = b /\ <<>> \in Seq(Line)
    OBVIOUS
  <2>2. View(a, t) = View(a, t) \o <<>> /\ View(b, t) = View(b, t) \o <<>>
    BY <1>0
  <2> QED
    BY <2>1, <2>2
<1>2. ASSUME NEW q \in Seq(Line), NEW e \in Line, q \in G PROVE Append(q, e) \in G
  <2>1. /\ a \o Append(q, e) = Append(a \o q, e) /\ b \o Append(q, e) = Append(b \o q, e)
        /\ a \o q \in Seq(Line) /\ b \o q \in Seq(Line) /\ Append(q, e) \in Seq(Line)
    OBVIOUS
  <2>2. PICK x \in Seq(Line) : View(a \o q, t) = View(a, t) \o x /\ View(b \o q, t) = View(b, t) \o x
    BY <1>2
  <2>3. In(a \o q, t) = In(b \o q, t)
    BY <1>2
  <2>4. /\ View(a, t) \o Append(x, e) = Append(View(a, t) \o x, e)
        /\ View(b, t) \o Append(x, e) = Append(View(b, t) \o x, e) /\ Append(x, e) \in Seq(Line)
    BY <1>0
  <2> DEFINE new == e = Header(t) \/ (In(a \o q, t) /\ e.kind = "key")
  <2>5. /\ View(Append(a \o q, e), t) = IF new THEN Append(View(a \o q, t), e) ELSE View(a \o q, t)
        /\ View(Append(b \o q, e), t) = IF new THEN Append(View(b \o q, t), e) ELSE View(b \o q, t)
    <3>1. \A p \in Seq(Line) : View(Append(p, e), t) = IF e = Header(t) \/ (In(p, t) /\ e.kind = "key")
                                                       THEN Append(View(p, t), e) ELSE View(p, t)
      BY ViewStep
    <3> QED
      BY <3>1, <2>1, <2>3, Zenon
  <2>6. In(Append(a \o q, e), t) = In(Append(b \o q, e), t)
    BY <2>1, <2>3, ViewStep DEF In
  <2> HIDE DEF new
  <2>7. \E y \in Seq(Line) : View(a \o Append(q, e), t) = View(a, t) \o y /\ View(b \o Append(q, e), t) = View(b, t) \o y
    <3>1. CASE new
      BY <3>1, <2>1, <2>2, <2>4, <2>5
    <3>2. CASE ~new
      BY <3>2, <2>1, <2>2, <2>5
    <3> QED
      BY <3>1, <3>2
  <2> QED
    BY <2>1, <2>6, <2>7
<1> HIDE DEF G
<1>3. lines \in G
  BY <1>1, <1>2, Sequences
<1> QED
  BY <1>3 DEF G

\* A text of a section shows nothing of the others, and all of itself.
LEMMA TextView ==
  ASSUME NEW s, NEW text, TextOf(s, text), NEW lines \in Seq(Line)
  PROVE  /\ \A t : Header(t) # Header(s) => View(lines \o text, t) = View(lines, t)
         /\ View(lines, s) = <<>> /\ ~In(lines, s) => View(lines \o text, s) = Solid(text)
<1> DEFINE Headed(q) == \E i \in 1..Len(q) : q[i] = Header(s)
           Shows(q) ==
             /\ \A t : Header(t) # Header(s) =>
                  View(lines \o q, t) = View(lines, t) /\ (Headed(q) => ~In(lines \o q, t))
             /\ View(lines, s) = <<>> /\ ~In(lines, s) =>
                  View(lines \o q, s) = Solid(q) /\ (Headed(q) <=> In(lines \o q, s))
           G == {q \in Seq(Line) : TextOf(s, q) => Shows(q)}
<1>1. <<>> \in G
  <2>1. lines \o <<>> = lines /\ <<>> \in Seq(Line) /\ ~Headed(<<>>)
    OBVIOUS
  <2>2. Solid(<<>>) = <<>>
    BY Blank
  <2> HIDE DEF Headed
  <2>3. Shows(<<>>)
    BY <2>1, <2>2
  <2> QED
    BY <2>1, <2>3
<1>2. ASSUME NEW q \in Seq(Line), NEW e \in Line, q \in G PROVE Append(q, e) \in G
  <2> DEFINE more == Append(q, e)
             n == Len(q)
  <2>1. /\ n \in Nat /\ Len(more) = n + 1 /\ more[n + 1] = e /\ more \in Seq(Line)
        /\ \A i \in 1..n : more[i] = q[i]
        /\ DOMAIN more = 1..(n + 1) /\ DOMAIN q = 1..n
    BY AppendProperties
  <2> SUFFICES ASSUME TextOf(s, more) PROVE Shows(more)
    BY <2>1
  <2>2. lines \o more = Append(lines \o q, e) /\ lines \o q \in Seq(Line)
    OBVIOUS
  <2> HIDE DEF more, n
  <2>0. n + 1 \in 1..(n + 1) /\ \A i \in 1..n : i \in 1..(n + 1)
    BY <2>1
  <2>3. TextOf(s, q)
    <3> SUFFICES ASSUME NEW i \in 1..n
                 PROVE  /\ IsHeader(q[i]) => q[i] = Header(s)
                        /\ q[i].kind = "key" => \E j \in 1..i : q[j] = Header(s)
      BY <2>1 DEF TextOf
    <3>1. \A j \in 1..i : j \in 1..n
      BY <2>1
    <3>2. i \in DOMAIN more /\ more[i] = q[i] /\ \A j \in 1..i : more[j] = q[j]
      BY <3>1, <2>1, <2>0
    <3> QED
      BY <3>2 DEF TextOf
  <2>4. /\ IsHeader(e) => e = Header(s)
        /\ e.kind = "key" => \E j \in 1..(n + 1) : more[j] = Header(s)
    BY <2>1, <2>0 DEF TextOf
  <2>5. Shows(q)
    BY <2>3, <1>2
  <2>6. Headed(more) <=> Headed(q) \/ e = Header(s)
    <3>1. \A i \in 1..(n + 1) : i = n + 1 \/ i \in 1..n
      BY <2>1
    <3> QED
      BY <3>1, <2>0, <2>1 DEF n
  <2>7. e.kind = "key" => Headed(q)
    <3>1. \A t : e = Header(t) => e.kind = "header"
      BY DEF Header
    <3> QED
      BY <3>1, <2>1, <2>4, <2>6
  <2> HIDE DEF Headed
  <2>8. \A t : /\ View(Append(lines \o q, e), t) = IF e = Header(t) \/ (In(lines \o q, t) /\ e.kind = "key")
                                                   THEN Append(View(lines \o q, t), e) ELSE View(lines \o q, t)
               /\ In(Append(lines \o q, e), t) <=> e = Header(t) \/ (In(lines \o q, t) /\ ~IsHeader(e))
    BY <2>2, ViewStep
  <2>9. /\ IsHeader(e) <=> e.kind = "header"
        /\ \A t : e = Header(t) => IsHeader(e)
        /\ e.kind \in {"header", "key", "note"}
    BY NotHeader
  <2>10. ASSUME NEW t, Header(t) # Header(s)
         PROVE  View(lines \o more, t) = View(lines, t) /\ (Headed(more) => ~In(lines \o more, t))
    <3>1. e # Header(t)
      BY <2>4, <2>9, <2>10
    <3>2. View(lines \o q, t) = View(lines, t) /\ (Headed(q) => ~In(lines \o q, t))
      BY <2>5, <2>10
    <3>3. View(lines \o more, t) = View(lines, t)
      BY <3>1, <3>2, <2>2, <2>7, <2>8
    <3>4. Headed(more) => ~In(lines \o more, t)
      BY <3>1, <3>2, <2>2, <2>6, <2>8, <2>9
    <3> QED
      BY <3>3, <3>4
  <2>11. ASSUME View(lines, s) = <<>>, ~In(lines, s)
         PROVE  View(lines \o more, s) = Solid(more) /\ (Headed(more) <=> In(lines \o more, s))
    <3>1. View(lines \o q, s) = Solid(q) /\ (Headed(q) <=> In(lines \o q, s))
      BY <2>5, <2>11
    <3>2. Solid(more) = IF e.kind = "note" THEN Solid(q) ELSE Append(Solid(q), e)
      BY SolidStep DEF Kept, more
    <3>3. Headed(more) <=> In(lines \o more, s)
      BY <3>1, <2>2, <2>4, <2>6, <2>8
    <3>4. e.kind # "note" <=> e = Header(s) \/ (In(lines \o q, s) /\ e.kind = "key")
      BY <3>1, <2>4, <2>7, <2>9
    <3>5. View(lines \o more, s) = Solid(more)
      BY <3>1, <3>2, <3>4, <2>2, <2>8
    <3> QED
      BY <3>3, <3>5
  <2> QED
    BY <2>10, <2>11
<1> HIDE DEF G
<1>3. text \in Seq(Line)
  BY DEF TextOf
<1>4. text \in G
  BY <1>1, <1>2, <1>3, Sequences
<1>5. Shows(text)
  BY <1>4 DEF G
<1> QED
  BY <1>5

\* A text leaves a section alone if it has no header of it and its keys do not go there.
LEMMA Elsewhere ==
  ASSUME NEW lines \in Seq(Line), NEW text \in Seq(Line), NEW t, Header(t) \notin Range(text),
         OpensWithHeader(text) \/ ~In(lines, t)
  PROVE  View(lines \o text, t) = View(lines, t)
<1> DEFINE Headed(q) == \E i \in 1..Len(q) : IsHeader(q[i])
           Apply(q) == Header(t) \notin Range(q) /\ (OpensWithHeader(q) \/ ~In(lines, t))
           Same(q) == /\ View(lines \o q, t) = View(lines, t)
                      /\ In(lines \o q, t) => In(lines, t) /\ ~Headed(q)
           G == {q \in Seq(Line) : Apply(q) => Same(q)}
<1>1. <<>> \in G
  <2>1. lines \o <<>> = lines /\ <<>> \in Seq(Line) /\ ~Headed(<<>>)
    OBVIOUS
  <2> HIDE DEF Headed
  <2> QED
    BY <2>1
<1>2. ASSUME NEW q \in Seq(Line), NEW e \in Line, q \in G PROVE Append(q, e) \in G
  <2> DEFINE more == Append(q, e)
             n == Len(q)
  <2>1. /\ n \in Nat /\ Len(more) = n + 1 /\ more[n + 1] = e /\ more \in Seq(Line)
        /\ \A i \in 1..n : more[i] = q[i]
        /\ DOMAIN more = 1..(n + 1) /\ DOMAIN q = 1..n
    BY AppendProperties
  <2> SUFFICES ASSUME Apply(more) PROVE Same(more)
    BY <2>1
  <2>2. lines \o more = Append(lines \o q, e) /\ lines \o q \in Seq(Line)
    OBVIOUS
  <2> HIDE DEF more
  <2>3. n + 1 \in 1..(n + 1) /\ \A i \in 1..n : i \in 1..(n + 1)
    BY <2>1
  <2>4. e # Header(t) /\ Header(t) \notin Range(q)
    BY <2>1, <2>3 DEF Range
  <2>5. OpensWithHeader(more) => OpensWithHeader(q)
    <3> SUFFICES ASSUME OpensWithHeader(more), NEW i \in 1..n, q[i].kind = "key"
                 PROVE  \E j \in 1..i : IsHeader(q[j])
      BY <2>1 DEF OpensWithHeader
    <3>1. \A j \in 1..i : j \in 1..n
      BY <2>1
    <3>2. i \in DOMAIN more /\ more[i] = q[i] /\ \A j \in 1..i : more[j] = q[j]
      BY <3>1, <2>1, <2>3
    <3> QED
      BY <3>2 DEF OpensWithHeader
  <2>6. Same(q)
    BY <2>4, <2>5, <1>2
  <2>7. OpensWithHeader(more) /\ e.kind = "key" => Headed(q)
    <3> SUFFICES ASSUME OpensWithHeader(more), e.kind = "key" PROVE Headed(q)
      OBVIOUS
    <3>1. PICK j \in 1..(n + 1) : IsHeader(more[j])
      BY <2>1, <2>3 DEF OpensWithHeader
    <3>2. j # n + 1
      BY <3>1, <2>1 DEF IsHeader
    <3>3. j \in 1..n
      BY <3>2, <2>1
    <3> QED
      BY <3>1, <3>3, <2>1
  <2>8. Headed(more) => Headed(q) \/ IsHeader(e)
    <3>1. \A i \in 1..(n + 1) : i = n + 1 \/ i \in 1..n
      BY <2>1
    <3> QED
      BY <3>1, <2>1
  <2> HIDE DEF Headed
  <2>9. /\ View(Append(lines \o q, e), t) = IF e = Header(t) \/ (In(lines \o q, t) /\ e.kind = "key")
                                            THEN Append(View(lines \o q, t), e) ELSE View(lines \o q, t)
        /\ In(Append(lines \o q, e), t) <=> e = Header(t) \/ (In(lines \o q, t) /\ ~IsHeader(e))
    BY <2>2, ViewStep
  <2>10. In(lines \o q, t) => e.kind # "key"
    BY <2>6, <2>7
  <2> QED
    BY <2>2, <2>4, <2>6, <2>8, <2>9, <2>10
<1> HIDE DEF G
<1>3. text \in G
  BY <1>1, <1>2, Sequences
<1> QED
  BY <1>3 DEF G

\* A file without the header of a section shows nothing of it.
LEMMA NoHeader ==
  ASSUME NEW t, NEW lines \in Seq(Line), \A i \in 1..Len(lines) : lines[i] # Header(t)
  PROVE  View(lines, t) = <<>> /\ ~In(lines, t)
<1>1. ~Open(lines, t, Len(lines))
  BY DEF Open
<1>2. \A i \in 1..Len(lines) : ~Counts(lines, t, i)
  <2> SUFFICES ASSUME NEW i \in 1..Len(lines) PROVE ~Counts(lines, t, i)
    OBVIOUS
  <2>1. \A j \in 1..i : j \in 1..Len(lines)
    OBVIOUS
  <2> QED
    BY <2>1 DEF Counts, Open
<1>3. Range(View(lines, t)) = {}
  BY <1>2, ViewHas
<1>4. View(lines, t) \in Seq(Line)
  BY Backlog, Blank DEF View, Scan
<1>5. View(lines, t) = <<>>
  <2> DEFINE w == View(lines, t)
  <2>1. w \in Seq(Line) /\ Range(w) = {}
    BY <1>3, <1>4
  <2> HIDE DEF w
  <2>2. Len(w) = 0
    <3>0. DOMAIN w = 1..Len(w) /\ Len(w) \in Nat
      BY <2>1
    <3>1. 1 \notin 1..Len(w) /\ Len(w) \in Nat
      BY <2>1, <3>0 DEF Range
    <3> QED
      BY <3>1
  <2>3. w = <<>>
    BY <2>1, <2>2, EmptySeq
  <2> QED
    BY <2>3 DEF w
<1> QED
  BY <1>1, <1>5, OpenIn

LEMMA StripNone ==
  ASSUME NEW s, NEW lines \in Seq(Line)
  PROVE  \A i \in 1..Len(Strip(lines, s)) : Strip(lines, s)[i] # Header(s)
<1> DEFINE None(q) == \A i \in 1..Len(q) : q[i] # Header(s)
           G == {q \in Seq(Line) : None(Strip(q, s)) /\ None(Scanned(q, s).rest)}
<1>1. <<>> \in G
  <2>1. Strip(<<>>, s) = <<>> /\ Scanned(<<>>, s).rest = <<>> /\ <<>> \in Seq(Line)
    <3>1. <<>> \in Seq(Line) /\ <<>> \o <<>> = <<>>
      OBVIOUS
    <3> QED
      BY <3>1, Blank DEF Start, Strip
  <2>2. None(<<>>)
    OBVIOUS
  <2> HIDE DEF None
  <2> QED
    BY <2>1, <2>2
<1>2. ASSUME NEW q \in Seq(Line), NEW e \in Line, q \in G PROVE Append(q, e) \in G
  <2>1. Append(q, e) \in Seq(Line) /\ None(Strip(q, s)) /\ None(Scanned(q, s).rest)
    BY <1>2
  <2>2. Strip(q, s) \in Seq(Line) /\ Scanned(q, s).rest \in Seq(Line)
    BY StripStep
  <2>3. ASSUME e # Header(s) PROVE None(Append(Strip(q, s), e))
    <3> DEFINE w == Strip(q, s)
    <3>1. /\ Len(Append(w, e)) = Len(w) + 1 /\ Append(w, e)[Len(w) + 1] = e /\ Len(w) \in Nat
          /\ \A i \in 1..Len(w) : Append(w, e)[i] = w[i]
      BY <2>2, AppendProperties
    <3> HIDE DEF w
    <3>2. \A i \in 1..(Len(w) + 1) : i = Len(w) + 1 \/ i \in 1..Len(w)
      BY <3>1
    <3>3. None(w)
      BY <2>1 DEF w
    <3>4. None(Append(w, e))
      BY <2>3, <3>1, <3>2, <3>3
    <3> QED
      BY <3>4 DEF w
  <2> HIDE DEF None
  <2>4. CASE e = Header(s)
    BY <2>1, <2>4, StripStep
  <2>5. CASE e # Header(s) /\ (IsHeader(e) \/ ~In(q, s))
    <3>1. /\ Strip(Append(q, e), s) = Append(Strip(q, s), e)
          /\ \/ Scanned(Append(q, e), s).rest = Append(Strip(q, s), e)
             \/ Scanned(Append(q, e), s).rest = Scanned(q, s).rest
      BY <2>5, StripStep
    <3> QED
      BY <3>1, <2>1, <2>3, <2>5
  <2>6. CASE In(q, s) /\ ~IsHeader(e)
    BY <2>1, <2>6, StripStep
  <2> QED
    BY <2>4, <2>5, <2>6
<1> HIDE DEF G
<1>3. lines \in G
  BY <1>1, <1>2, Sequences
<1> QED
  BY <1>3 DEF G

\* What a save shows afterwards, in its own section and in every other.
Spared(lines, s, text, t) ==
  /\ Header(t) # Header(s)
  /\ \/ TextOf(s, text)
     \/ Header(t) \notin Range(text) /\ (OpensWithHeader(text) \/ ~In(Strip(lines, s), t))

LEMMA SaveView ==
  ASSUME NEW s, NEW text \in Seq(Line), NEW lines \in Seq(Line)
  PROVE  /\ Strip(lines, s) \o text \in Seq(Line)
         /\ TextOf(s, text) => View(Strip(lines, s) \o text, s) = Solid(text)
         /\ \A t : Spared(lines, s, text, t) => View(Strip(lines, s) \o text, t) = View(lines, t)
<1>0. Strip(lines, s) \in Seq(Line)
  BY Backlog DEF Strip, Scan
<1>1. View(Strip(lines, s), s) = <<>> /\ ~In(Strip(lines, s), s)
  BY <1>0, NoHeader, StripNone
<1>2. Strip(lines, s) \o text \in Seq(Line)
  BY <1>0
<1>3. \A t : Header(t) # Header(s) => View(Strip(lines, s), t) = View(lines, t)
  BY StripView
<1>4. TextOf(s, text) =>
         /\ View(Strip(lines, s) \o text, s) = Solid(text)
         /\ \A t : Header(t) # Header(s) => View(Strip(lines, s) \o text, t) = View(Strip(lines, s), t)
  BY <1>0, <1>1, TextView
<1>5. \A t : Header(t) \notin Range(text) /\ (OpensWithHeader(text) \/ ~In(Strip(lines, s), t))
              => View(Strip(lines, s) \o text, t) = View(Strip(lines, s), t)
  BY <1>0, Elsewhere
<1> QED
  BY <1>2, <1>3, <1>4, <1>5 DEF Spared

-----------------------------------------------------------------------------
\* Where a section's body is.
LEMMA HeaderFound ==
  ASSUME NEW s, NEW lines \in Seq(Line)
  PROVE  /\ HeaderAt(lines, s) \in 0..Len(lines)
         /\ HeaderAt(lines, s) = 0 => \A i \in 1..Len(lines) : lines[i] # Header(s)
         /\ HeaderAt(lines, s) # 0 => lines[HeaderAt(lines, s)] = Header(s)
<1> DEFINE I == {i \in 1..Len(lines) : lines[i] = Header(s)}
<1>1. I \in SUBSET Nat /\ Len(lines) \in Nat
  OBVIOUS
<1>2. I # {} => Min(I) \in I
  BY <1>1, Smallest
<1>3. HeaderAt(lines, s) = IF I # {} THEN Min(I) ELSE 0
  BY DEF HeaderAt, SelectInSeq
<1> QED
  BY <1>1, <1>2, <1>3

LEMMA BodyEnds ==
  ASSUME NEW lines \in Seq(Line), NEW from \in 0..Len(lines)
  PROVE  /\ BodyEnd(lines, from) \in from..Len(lines)
         /\ \A m \in (from + 1)..BodyEnd(lines, from) : ~IsHeader(lines[m])
         /\ BodyEnd(lines, from) < Len(lines) => IsHeader(lines[BodyEnd(lines, from) + 1])
<1> DEFINE n == Len(lines)
           rest == SubSeq(lines, from + 1, n)
           I == {i \in 1..Len(rest) : IsHeader(rest[i])}
           next == IF I # {} THEN Min(I) ELSE 0
<1>1. n \in Nat /\ from \in Nat /\ from <= n
  OBVIOUS
<1>2. Len(rest) = n - from /\ \A i \in 1..(n - from) : rest[i] = lines[from + i]
  <2>1. from + 1 \in Nat /\ \A i \in (from + 1)..n : i \in DOMAIN lines
    BY <1>1
  <2> QED
    BY <1>1
<1>3. I \in SUBSET Nat
  OBVIOUS
<1>4. I # {} => Min(I) \in I /\ \A k \in I : Min(I) <= k
  BY <1>3, Smallest
<1>5. BodyEnd(lines, from) = IF next = 0 THEN n ELSE from + next - 1
  BY DEF BodyEnd, SelectInSeq
<1> HIDE DEF rest, n
<1>6. CASE I = {}
  <2>1. BodyEnd(lines, from) = n
    BY <1>5, <1>6
  <2>2. ASSUME NEW m \in (from + 1)..n PROVE ~IsHeader(lines[m])
    <3>1. m - from \in 1..(n - from) /\ from + (m - from) = m
      BY <1>1
    <3> QED
      BY <3>1, <1>2, <1>6
  <2> QED
    BY <2>1, <2>2, <1>1 DEF n
<1>7. CASE I # {}
  <2> DEFINE x == Min(I)
  <2>1. x \in 1..(n - from) /\ IsHeader(rest[x]) /\ \A k \in I : x <= k
    BY <1>2, <1>4, <1>7
  <2>2. next = x /\ x # 0
    BY <2>1, <1>7
  <2> HIDE DEF x, next
  <2>3. BodyEnd(lines, from) = from + x - 1
    BY <1>5, <2>2
  <2>4. IsHeader(lines[from + x]) /\ (from + x - 1) + 1 = from + x
    BY <2>1, <1>1, <1>2
  <2>5. ASSUME NEW m \in (from + 1)..(from + x - 1) PROVE ~IsHeader(lines[m])
    <3>1. m - from \in 1..(n - from) /\ from + (m - from) = m /\ m - from < x
      BY <1>1, <2>1
    <3>2. m - from \notin I
      BY <3>1, <2>1
    <3> QED
      BY <3>1, <3>2, <1>2
  <2>6. from + x - 1 \in from..n
    BY <1>1, <2>1
  <2> QED
    BY <2>3, <2>4, <2>5, <2>6 DEF n
<1> QED
  BY <1>6, <1>7

LEMMA Split ==
  ASSUME NEW lines \in Seq(Line), NEW e \in 0..Len(lines)
  PROVE  /\ SubSeq(lines, 1, e) \in Seq(Line) /\ SubSeq(lines, e + 1, Len(lines)) \in Seq(Line)
         /\ Len(SubSeq(lines, 1, e)) = e /\ \A i \in 1..e : SubSeq(lines, 1, e)[i] = lines[i]
         /\ lines = SubSeq(lines, 1, e) \o SubSeq(lines, e + 1, Len(lines))
<1> DEFINE a == SubSeq(lines, 1, e)
           c == SubSeq(lines, e + 1, Len(lines))
           n == Len(lines)
<1>1. n \in Nat /\ e \in Nat /\ e <= n
  OBVIOUS
<1>2. a \in Seq(Line) /\ Len(a) = e /\ \A i \in 1..e : a[i] = lines[i]
  OBVIOUS
<1>3. c \in Seq(Line) /\ Len(c) = n - e /\ \A i \in 1..(n - e) : c[i] = lines[e + i]
  OBVIOUS
<1>4. /\ a \o c \in Seq(Line) /\ Len(a \o c) = n
      /\ \A i \in 1..n : (a \o c)[i] = IF i <= e THEN a[i] ELSE c[i - e]
  <2> HIDE DEF a, c
  <2> QED
    BY <1>1, <1>2, <1>3, ConcatProperties
<1>5. \A i \in 1..n : (a \o c)[i] = lines[i]
  <2> HIDE DEF a, c
  <2> SUFFICES ASSUME NEW i \in 1..n PROVE (a \o c)[i] = lines[i]
    OBVIOUS
  <2>1. CASE i <= e
    <3>1. i \in 1..e
      BY <2>1, <1>1
    <3> QED
      BY <3>1, <2>1, <1>2, <1>4
  <2>2. CASE i > e
    <3>1. i - e \in 1..(n - e) /\ e + (i - e) = i /\ ~(i <= e)
      BY <2>2, <1>1
    <3>2. (a \o c)[i] = c[i - e]
      BY <3>1, <1>4
    <3>3. c[i - e] = lines[e + (i - e)]
      BY <3>1, <1>3
    <3>4. lines[e + (i - e)] = lines[i]
      BY <3>1
    <3> QED
      BY <3>2, <3>3, <3>4, Zenon
  <2>3. i <= e \/ i > e
    BY <1>1
  <2> QED
    BY <2>1, <2>2, <2>3, Zenon
<1>6. lines = a \o c
  <2> HIDE DEF a, c
  <2> QED
    BY <1>4, <1>5, SeqEqual
<1> QED
  BY <1>2, <1>3, <1>6

\* The section that a part of the file ends in.
LEMMA OpenAt ==
  ASSUME NEW lines \in Seq(Line), NEW from \in 0..Len(lines), NEW e \in from..Len(lines),
         \A m \in (from + 1)..e : ~IsHeader(lines[m]),
         from # 0 => IsHeader(lines[from]), NEW t
  PROVE  In(SubSeq(lines, 1, e), t) <=> from # 0 /\ lines[from] = Header(t)
<1> DEFINE a == SubSeq(lines, 1, e)
<1>0. e \in 0..Len(lines) /\ e \in Nat /\ from \in Nat
  OBVIOUS
<1>1. a \in Seq(Line) /\ Len(a) = e /\ \A i \in 1..e : a[i] = lines[i]
  BY <1>0, Split
<1> HIDE DEF a
<1>2. In(a, t) <=> Open(a, t, e)
  BY <1>1, OpenIn
<1>3. \A h : h = Header(t) => IsHeader(h)
  BY DEF IsHeader, Header
<1>4. ASSUME Open(a, t, e) PROVE from # 0 /\ lines[from] = Header(t)
  <2>1. PICK j \in 1..e : a[j] = Header(t) /\ \A m \in (j + 1)..e : ~IsHeader(a[m])
    BY <1>4 DEF Open
  <2>2. IsHeader(lines[j])
    BY <2>1, <1>1, <1>3
  <2>3. j <= from
    BY <2>2, <1>0
  <2>4. ~(j < from)
    <3> SUFFICES ASSUME j < from PROVE FALSE
      OBVIOUS
    <3>1. from \in (j + 1)..e /\ from \in 1..e /\ from # 0
      BY <1>0
    <3> QED
      BY <3>1, <2>1, <1>1
  <2>5. j = from
    BY <2>3, <2>4, <1>0
  <2> QED
    BY <2>1, <2>5, <1>1
<1>5. ASSUME from # 0, lines[from] = Header(t) PROVE Open(a, t, e)
  <2>1. from \in 1..e /\ \A m \in (from + 1)..e : m \in 1..e
    BY <1>0, <1>5
  <2> QED
    BY <2>1, <1>1, <1>5 DEF Open
<1>6. In(a, t) <=> from # 0 /\ lines[from] = Header(t)
  BY <1>2, <1>4, <1>5
<1> QED
  BY <1>6 DEF a

\* A key more, and what the file shows.
Amid(p, q, k) == \E v, w \in Seq(Line) : p = v \o w /\ q = Append(v, k) \o w

LEMMA KeyLine ==
  ASSUME NEW a \in Seq(Line), NEW c \in Seq(Line), NEW k \in Line, k.kind = "key", NEW t
  PROVE  /\ ~In(a, t) => View(a \o <<k>> \o c, t) = View(a \o c, t)
         /\ In(a, t) => Amid(View(a \o c, t), View(a \o <<k>> \o c, t), k)
<1>1. a \o <<k>> = Append(a, k) /\ Append(a, k) \in Seq(Line)
  OBVIOUS
<1>2. ~IsHeader(k) /\ k # Header(t)
  BY NotHeader
<1>3. In(Append(a, k), t) = In(a, t)
  BY <1>2, ViewStep DEF In
<1>4. View(Append(a, k), t) = IF In(a, t) THEN Append(View(a, t), k) ELSE View(a, t)
  BY <1>2, ViewStep
<1>5. View(a, t) \in Seq(Line)
  BY ViewStep
<1>6. PICK x \in Seq(Line) : /\ View(Append(a, k) \o c, t) = View(Append(a, k), t) \o x
                             /\ View(a \o c, t) = View(a, t) \o x
  BY <1>1, <1>3, SameEnd
<1>7. ~In(a, t) => View(a \o <<k>> \o c, t) = View(a \o c, t)
  BY <1>1, <1>4, <1>6
<1>8. In(a, t) => Amid(View(a \o c, t), View(a \o <<k>> \o c, t), k)
  BY <1>1, <1>4, <1>5, <1>6 DEF Amid
<1> QED
  BY <1>7, <1>8

LEMMA Between ==
  ASSUME NEW v \in Seq(Line), NEW w \in Seq(Line), NEW k \in Line
  PROVE  /\ Range(Append(v, k) \o w) = Range(v \o w) \cup {k}
         /\ IsInjective(Append(v, k) \o w) <=> IsInjective(v \o w) /\ k \notin Range(v \o w)
<1> DEFINE y == Append(v, k) \o w
           z == v \o w
           n == Len(v)
           l == Len(w)
           up == [i \in 1..(n + l) |-> IF i <= n THEN i ELSE i + 1]
<1>1. n \in Nat /\ l \in Nat
  OBVIOUS
<1>2. /\ DOMAIN z = 1..(n + l)
      /\ \A i \in 1..(n + l) : z[i] = IF i <= n THEN v[i] ELSE w[i - n]
  OBVIOUS
<1>3. /\ DOMAIN y = 1..(n + l + 1)
      /\ \A i \in 1..(n + l + 1) : y[i] = IF i <= n THEN v[i] ELSE IF i = n + 1 THEN k ELSE w[i - (n + 1)]
  <2> DEFINE vk == Append(v, k)
  <2>1. /\ vk \in Seq(Line) /\ Len(vk) = n + 1 /\ vk[n + 1] = k /\ \A i \in 1..n : vk[i] = v[i]
    BY AppendProperties
  <2> HIDE DEF vk
  <2>2. /\ vk \o w \in Seq(Line) /\ Len(vk \o w) = n + 1 + l
        /\ \A i \in 1..(n + 1 + l) : (vk \o w)[i] = IF i <= n + 1 THEN vk[i] ELSE w[i - (n + 1)]
    <3>1. /\ vk \o w \in Seq(Line) /\ Len(vk \o w) = Len(vk) + Len(w)
          /\ \A i \in 1..(Len(vk) + Len(w)) :
                (vk \o w)[i] = IF i <= Len(vk) THEN vk[i] ELSE w[i - Len(vk)]
      BY <2>1, ConcatProperties
    <3> QED
      BY <3>1, <2>1
  <2>3. DOMAIN (vk \o w) = 1..(n + l + 1)
    BY <2>2, <1>1
  <2>4. \A i \in 1..(n + l + 1) :
          (vk \o w)[i] = IF i <= n THEN v[i] ELSE IF i = n + 1 THEN k ELSE w[i - (n + 1)]
    <3> SUFFICES ASSUME NEW i \in 1..(n + l + 1)
                 PROVE  (vk \o w)[i] = IF i <= n THEN v[i] ELSE IF i = n + 1 THEN k ELSE w[i - (n + 1)]
      OBVIOUS
    <3>1. i \in 1..(n + 1 + l) /\ (i <= n => i \in 1..n /\ i <= n + 1) /\ (i <= n + 1 => i <= n \/ i = n + 1)
      BY <1>1
    <3> HIDE DEF n, l
    <3> QED
      BY <3>1, <2>1, <2>2, <1>1
  <2> QED
    BY <2>3, <2>4 DEF vk
<1> HIDE DEF y, z, n, l
<1>4. \A i \in 1..(n + l) : /\ up[i] \in 1..(n + l + 1) /\ up[i] # n + 1 /\ y[up[i]] = z[i]
                            /\ \A j \in 1..(n + l) : up[i] = up[j] => i = j
  <2> SUFFICES ASSUME NEW i \in 1..(n + l)
               PROVE  /\ up[i] \in 1..(n + l + 1) /\ up[i] # n + 1 /\ y[up[i]] = z[i]
                      /\ \A j \in 1..(n + l) : up[i] = up[j] => i = j
    OBVIOUS
  <2>1. up[i] \in 1..(n + l + 1) /\ up[i] # n + 1 /\ \A j \in 1..(n + l) : up[i] = up[j] => i = j
    BY <1>1
  <2>2. y[up[i]] = z[i]
    <3>1. CASE i <= n
      <4>1. up[i] = i
        BY <3>1
      <4> QED
        BY <4>1, <3>1, <2>1, <1>2, <1>3
    <3>2. CASE ~(i <= n)
      <4>1. up[i] = i + 1 /\ ~(i + 1 <= n) /\ i + 1 # n + 1 /\ (i + 1) - (n + 1) = i - n
        BY <3>2, <1>1
      <4> QED
        BY <4>1, <3>2, <2>1, <1>2, <1>3
    <3> QED
      BY <3>1, <3>2
  <2> QED
    BY <2>1, <2>2
<1>5. \A m \in 1..(n + l + 1) : m = n + 1 \/ \E i \in 1..(n + l) : up[i] = m
  <2> SUFFICES ASSUME NEW m \in 1..(n + l + 1), m # n + 1 PROVE \E i \in 1..(n + l) : up[i] = m
    OBVIOUS
  <2>1. CASE m <= n
    <3>1. m \in 1..(n + l)
      BY <2>1, <1>1
    <3> QED
      BY <3>1, <2>1
  <2>2. CASE ~(m <= n)
    <3>1. m - 1 \in 1..(n + l) /\ ~(m - 1 <= n) /\ (m - 1) + 1 = m
      BY <2>2, <1>1
    <3> QED
      BY <3>1
  <2> QED
    BY <2>1, <2>2
<1>6. n + 1 \in 1..(n + l + 1) /\ y[n + 1] = k
  BY <1>1, <1>3
<1> HIDE DEF up
<1>7. Range(y) = Range(z) \cup {k}
  <2>1. \A m \in DOMAIN y : y[m] \in Range(z) \cup {k}
    BY <1>2, <1>3, <1>4, <1>5, <1>6 DEF Range
  <2>2. \A i \in DOMAIN z : z[i] \in Range(y)
    BY <1>2, <1>3, <1>4 DEF Range
  <2>3. k \in Range(y)
    BY <1>3, <1>6 DEF Range
  <2> QED
    BY <2>1, <2>2, <2>3 DEF Range
<1>8. IsInjective(y) <=> IsInjective(z) /\ k \notin Range(z)
  <2>1. ASSUME IsInjective(y) PROVE IsInjective(z) /\ k \notin Range(z)
    <3>1. ASSUME NEW i \in 1..(n + l), NEW j \in 1..(n + l), z[i] = z[j] PROVE i = j
      <4>1. up[i] = up[j]
        BY <2>1, <3>1, <1>3, <1>4 DEF IsInjective
      <4> QED
        BY <4>1, <1>4
    <3>2. ASSUME NEW i \in 1..(n + l), z[i] = k PROVE FALSE
      BY <2>1, <3>2, <1>3, <1>4, <1>6 DEF IsInjective
    <3> QED
      BY <3>1, <3>2, <1>2 DEF IsInjective, Range
  <2>2. ASSUME IsInjective(z), k \notin Range(z), NEW m \in 1..(n + l + 1), NEW o \in 1..(n + l + 1), y[m] = y[o]
        PROVE  m = o
    <3>1. \A i \in 1..(n + l) : z[i] # k
      BY <2>2, <1>2 DEF Range
    <3>2. \A i, j \in 1..(n + l) : z[i] = z[j] => i = j
      BY <2>2, <1>2 DEF IsInjective
    <3> QED
      BY <2>2, <3>1, <3>2, <1>4, <1>5, <1>6
  <2> QED
    BY <2>1, <2>2, <1>3 DEF IsInjective
<1> QED
  BY <1>7, <1>8 DEF y, z

LEMMA AmidRange ==
  ASSUME NEW p, NEW q, NEW k \in Line, Amid(p, q, k)
  PROVE  /\ Range(q) = Range(p) \cup {k}
         /\ IsInjective(q) <=> IsInjective(p) /\ k \notin Range(p)
BY Between DEF Amid

LEMMA Cut ==
  ASSUME NEW lines \in Seq(Line), NEW i \in 1..Len(lines)
  PROVE  /\ SubSeq(lines, 1, i - 1) \in Seq(Line) /\ SubSeq(lines, i + 1, Len(lines)) \in Seq(Line)
         /\ lines = SubSeq(lines, 1, i - 1) \o <<lines[i]>> \o SubSeq(lines, i + 1, Len(lines))
<1> DEFINE a == SubSeq(lines, 1, i - 1)
           b == SubSeq(lines, 1, i)
           c == SubSeq(lines, i + 1, Len(lines))
<1>1. i \in 0..Len(lines) /\ i - 1 \in 0..Len(lines) /\ i \in Nat /\ i >= 1 /\ lines[i] \in Line
  OBVIOUS
<1>2. b \in Seq(Line) /\ c \in Seq(Line) /\ Len(b) = i /\ (\A j \in 1..i : b[j] = lines[j]) /\ lines = b \o c
  BY <1>1, Split
<1>3. a \in Seq(Line) /\ Len(a) = i - 1 /\ \A j \in 1..(i - 1) : a[j] = lines[j]
  BY <1>1, Split
<1> HIDE DEF a, b, c
<1>4. a \o <<lines[i]>> = Append(a, lines[i])
  BY <1>1, <1>3
<1>5. b = Append(a, lines[i])
  <2> DEFINE d == Append(a, lines[i])
  <2>1. d \in Seq(Line) /\ Len(d) = i /\ d[i] = lines[i] /\ \A j \in 1..(i - 1) : d[j] = a[j]
    <3>1. /\ d \in Seq(Line) /\ Len(d) = Len(a) + 1 /\ d[Len(a) + 1] = lines[i]
          /\ \A j \in 1..Len(a) : d[j] = a[j]
      BY <1>1, <1>3, AppendProperties
    <3>2. Len(a) + 1 = i
      BY <1>1, <1>3
    <3> HIDE DEF d
    <3> QED
      BY <3>1, <3>2, <1>3
  <2> HIDE DEF d
  <2>2. \A j \in 1..i : j = i \/ j \in 1..(i - 1)
    BY <1>1
  <2>3. \A j \in 1..i : b[j] = d[j]
    BY <2>1, <2>2, <1>2, <1>3
  <2>4. b = d
    BY <2>1, <2>3, <1>2, SeqEqual
  <2> QED
    BY <2>4 DEF d
<1>6. lines = a \o <<lines[i]>> \o c
  BY <1>2, <1>4, <1>5
<1> QED
  BY <1>2, <1>3, <1>6 DEF a, c

\* A key is in the body of a section where the section shows it.
LEMMA KeyShown ==
  ASSUME NEW lines \in Seq(Line), NEW from \in 1..Len(lines), NEW s, lines[from] = Header(s),
         IsInjective(View(lines, s)), NEW k, k.kind = "key"
  PROVE  KeyIn(lines, from, k) # {} <=> k \in Range(View(lines, s))
<1> DEFINE e == BodyEnd(lines, from)
<1>1. /\ e \in from..Len(lines) /\ \A m \in (from + 1)..e : ~IsHeader(lines[m])
      /\ e < Len(lines) => IsHeader(lines[e + 1])
  <2>1. from \in 0..Len(lines)
    OBVIOUS
  <2> QED
    BY <2>1, BodyEnds
<1>2. e \in Nat /\ from \in Nat /\ Len(lines) \in Nat
  BY <1>1
<1>3. /\ k \in Range(View(lines, s)) <=> \E i \in 1..Len(lines) : lines[i] = k /\ Counts(lines, s, i)
      /\ \A i, j \in 1..Len(lines) : lines[i] = Header(s) /\ lines[j] = Header(s) => i = j
  BY ViewHas
<1>4. k # Header(s)
  BY DEF Header
<1> HIDE DEF e
<1>5. ASSUME NEW i \in (from + 1)..e, lines[i] = k PROVE k \in Range(View(lines, s))
  <2>1. i \in 1..Len(lines) /\ from \in 1..i
    BY <1>1, <1>2
  <2>2. \A m \in (from + 1)..i : m \in (from + 1)..e
    BY <1>2
  <2>3. Open(lines, s, i)
    BY <2>1, <2>2, <1>1 DEF Open
  <2> QED
    BY <2>1, <2>3, <1>3, <1>5 DEF Counts
<1>6. ASSUME k \in Range(View(lines, s)) PROVE \E i \in (from + 1)..e : lines[i] = k
  <2>1. PICK i \in 1..Len(lines) : lines[i] = k /\ Open(lines, s, i)
    BY <1>3, <1>4, <1>6 DEF Counts
  <2>2. PICK j \in 1..i : lines[j] = Header(s) /\ \A m \in (j + 1)..i : ~IsHeader(lines[m])
    BY <2>1 DEF Open
  <2>3. j = from
    <3>1. j \in 1..Len(lines)
      BY <1>2
    <3> QED
      BY <3>1, <2>2, <1>3
  <2>4. i # from
    BY <2>1, <1>4
  <2>5. ~(i > e)
    <3> SUFFICES ASSUME i > e PROVE FALSE
      OBVIOUS
    <3>1. e + 1 \in (j + 1)..i /\ e < Len(lines)
      BY <2>3, <1>1, <1>2
    <3> QED
      BY <3>1, <2>2, <1>1
  <2>6. i \in (from + 1)..e
    BY <2>2, <2>3, <2>4, <2>5, <1>2
  <2> QED
    BY <2>1, <2>6
<1>7. KeyIn(lines, from, k) = {i \in (from + 1)..e : lines[i] = k}
  BY DEF KeyIn, e
<1> QED
  BY <1>5, <1>6, <1>7

LEMMA PutView ==
  ASSUME NEW lines \in Seq(Line), NEW from \in 0..Len(lines), from # 0 => IsHeader(lines[from]),
         NEW k \in Line, k.kind = "key"
  PROVE  /\ Put(lines, from, k) \in Seq(Line)
         /\ \A t : from = 0 \/ lines[from] # Header(t) => View(Put(lines, from, k), t) = View(lines, t)
         /\ \A t : from # 0 /\ lines[from] = Header(t) /\ IsInjective(View(lines, t)) =>
              /\ IsInjective(View(Put(lines, from, k), t))
              /\ Range(View(Put(lines, from, k), t)) = Range(View(lines, t)) \cup {k}
<1>1. CASE KeyIn(lines, from, k) # {}
  <2>1. Put(lines, from, k) = lines
    BY <1>1 DEF Put
  <2>2. ASSUME NEW t, from # 0, lines[from] = Header(t), IsInjective(View(lines, t))
        PROVE  Range(View(lines, t)) = Range(View(lines, t)) \cup {k}
    <3>1. from \in 1..Len(lines)
      BY <2>2
    <3>2. k \in Range(View(lines, t))
      BY <3>1, <2>2, <1>1, KeyShown
    <3> QED
      BY <3>2
  <2> QED
    BY <2>1, <2>2
<1>2. CASE KeyIn(lines, from, k) = {}
  <2> DEFINE e == BodyEnd(lines, from)
             a == SubSeq(lines, 1, e)
             c == SubSeq(lines, e + 1, Len(lines))
  <2>1. e \in from..Len(lines) /\ \A m \in (from + 1)..e : ~IsHeader(lines[m])
    BY BodyEnds
  <2>2. e \in 0..Len(lines) /\ e \in Nat /\ (e + 1) - 1 = e
    BY <2>1
  <2> HIDE DEF e
  <2>3. a \in Seq(Line) /\ c \in Seq(Line) /\ lines = a \o c
    BY <2>2, Split
  <2>4. Put(lines, from, k) = a \o <<k>> \o c
    <3>1. Put(lines, from, k) = SubSeq(lines, 1, (e + 1) - 1) \o <<k>> \o SubSeq(lines, e + 1, Len(lines))
      BY <1>2 DEF Put, InsertAt, e
    <3> QED
      BY <3>1, <2>2
  <2>5. \A t : In(a, t) <=> from # 0 /\ lines[from] = Header(t)
    BY <2>1, OpenAt
  <2> HIDE DEF a, c
  <2>6. a \o <<k>> \o c \in Seq(Line)
    BY <2>3
  <2>7. ASSUME NEW t, ~In(a, t) PROVE View(Put(lines, from, k), t) = View(lines, t)
    <3>1. View(a \o <<k>> \o c, t) = View(a \o c, t)
      BY <2>3, <2>7, KeyLine
    <3> QED
      BY <3>1, <2>3, <2>4
  <2>8. ASSUME NEW t, from # 0, lines[from] = Header(t), IsInjective(View(lines, t))
        PROVE  /\ IsInjective(View(Put(lines, from, k), t))
               /\ Range(View(Put(lines, from, k), t)) = Range(View(lines, t)) \cup {k}
    <3>1. In(a, t)
      BY <2>5, <2>8
    <3>2. Amid(View(lines, t), View(Put(lines, from, k), t), k)
      <4>1. Amid(View(a \o c, t), View(a \o <<k>> \o c, t), k)
        BY <3>1, <2>3, KeyLine
      <4> QED
        BY <4>1, <2>3, <2>4, Zenon
    <3>4. k \notin Range(View(lines, t))
      <4>1. from \in 1..Len(lines)
        BY <2>8
      <4> QED
        BY <4>1, <2>8, <1>2, KeyShown
    <3> QED
      BY <3>2, <3>4, <2>8, AmidRange
  <2> QED
    BY <2>4, <2>5, <2>6, <2>7, <2>8
<1> QED
  BY <1>1, <1>2

LEMMA DropView ==
  ASSUME NEW lines \in Seq(Line), NEW from \in 1..Len(lines), IsHeader(lines[from]),
         NEW k \in Line, k.kind = "key"
  PROVE  /\ Drop(lines, from, k) \in Seq(Line)
         /\ \A t : lines[from] # Header(t) => View(Drop(lines, from, k), t) = View(lines, t)
         /\ \A t : lines[from] = Header(t) /\ IsInjective(View(lines, t)) =>
              /\ IsInjective(View(Drop(lines, from, k), t))
              /\ Range(View(Drop(lines, from, k), t)) = Range(View(lines, t)) \ {k}
<1>1. CASE KeyIn(lines, from, k) = {}
  <2>1. Drop(lines, from, k) = lines
    BY <1>1 DEF Drop
  <2>2. ASSUME NEW t, lines[from] = Header(t), IsInjective(View(lines, t))
        PROVE  Range(View(lines, t)) = Range(View(lines, t)) \ {k}
    <3>1. k \notin Range(View(lines, t))
      BY <2>2, <1>1, KeyShown
    <3> QED
      BY <3>1
  <2> QED
    BY <2>1, <2>2
<1>2. CASE KeyIn(lines, from, k) # {}
  <2> DEFINE e == BodyEnd(lines, from)
             I == KeyIn(lines, from, k)
             i == Min(I)
             a == SubSeq(lines, 1, i - 1)
             c == SubSeq(lines, i + 1, Len(lines))
  <2>1. e \in from..Len(lines) /\ \A m \in (from + 1)..e : ~IsHeader(lines[m])
    <3>1. from \in 0..Len(lines)
      OBVIOUS
    <3> QED
      BY <3>1, BodyEnds
  <2>2. I = {m \in (from + 1)..e : lines[m] = k}
    BY DEF KeyIn
  <2>3. Drop(lines, from, k) = a \o c
    BY <1>2 DEF Drop, RemoveAt
  <2> HIDE DEF e, I
  <2>4. i \in I
    <3>1. I \in SUBSET Nat /\ I # {}
      BY <2>1, <2>2, <1>2 DEF I
    <3> QED
      BY <3>1, Smallest
  <2> HIDE DEF i
  <2>5. i \in (from + 1)..e /\ lines[i] = k /\ i \in 1..Len(lines)
    BY <2>1, <2>2, <2>4
  <2>6. a \in Seq(Line) /\ c \in Seq(Line) /\ lines = a \o <<k>> \o c
    BY <2>5, Cut
  <2>7. \A t : In(a, t) <=> lines[from] = Header(t)
    <3>1. i - 1 \in from..Len(lines) /\ from \in 0..Len(lines) /\ from # 0
      BY <2>1, <2>5
    <3>2. \A m \in (from + 1)..(i - 1) : m \in (from + 1)..e
      BY <2>1, <2>5
    <3>3. \A m \in (from + 1)..(i - 1) : ~IsHeader(lines[m])
      BY <3>2, <2>1
    <3> QED
      BY <3>1, <3>3, OpenAt
  <2> HIDE DEF a, c
  <2>8. a \o c \in Seq(Line)
    BY <2>6
  <2>9. ASSUME NEW t, ~In(a, t) PROVE View(Drop(lines, from, k), t) = View(lines, t)
    <3>1. View(a \o <<k>> \o c, t) = View(a \o c, t)
      BY <2>6, <2>9, KeyLine
    <3> QED
      BY <3>1, <2>3, <2>6
  <2>10. ASSUME NEW t, lines[from] = Header(t), IsInjective(View(lines, t))
         PROVE  /\ IsInjective(View(Drop(lines, from, k), t))
                /\ Range(View(Drop(lines, from, k), t)) = Range(View(lines, t)) \ {k}
    <3>1. In(a, t)
      BY <2>7, <2>10
    <3>2. Amid(View(Drop(lines, from, k), t), View(lines, t), k)
      <4>1. Amid(View(a \o c, t), View(a \o <<k>> \o c, t), k)
        BY <3>1, <2>6, KeyLine
      <4> QED
        BY <4>1, <2>3, <2>6, Zenon
    <3>3. /\ IsInjective(View(Drop(lines, from, k), t)) /\ k \notin Range(View(Drop(lines, from, k), t))
          /\ Range(View(lines, t)) = Range(View(Drop(lines, from, k), t)) \cup {k}
      BY <3>2, <2>10, AmidRange
    <3> QED
      BY <3>3
  <2> QED
    BY <2>3, <2>7, <2>8, <2>9, <2>10
<1> QED
  BY <1>1, <1>2

-----------------------------------------------------------------------------
\* Where no text strayed, the file shows what was saved in each editor, and a plain
\* section has its header once at most, and each key that is set once.
Fits(lines, t, S) ==
  IsInjective(View(lines, t)) /\ {v \in Range(View(lines, t)) : v.kind = "key"} = S
ConfigInv ==
  /\ file \in Seq(Line)
  /\ saved \in [Edited -> Seq(Line)] /\ set \in [Plain -> SUBSET Line]
  /\ \A s \in Edited \ strays : View(file, s) = saved[s]
  /\ \A s \in Plain \ strays : Fits(file, s, set[s])

LEMMA Apart ==
  /\ \A s, t : s # t => Header(s) # Header(t)
  /\ \A s \in Section : Header(s) \in Line
  /\ \A k \in Keys : Key(k) \in Line /\ Key(k).kind = "key"
  /\ Version \in Line /\ Version.kind = "key"
  /\ \A s : IsHeader(Header(s)) /\ Header(s).kind # "key"
BY DEF Header, Key, Version, Line, LineNames, IsHeader

LEMMA StampedView ==
  ASSUME NEW lines \in Seq(Line)
  PROVE  Stamped(lines) \in Seq(Line) /\ \A t : View(Stamped(lines), t) = View(lines, t)
<1>1. 0 \in 0..Len(lines)
  OBVIOUS
<1> QED
  BY <1>1, Apart, PutView DEF Stamped

\* A header more, before another.
LEMMA HeaderBefore ==
  ASSUME NEW a \in Seq(Line), NEW d \in Seq(Line), d # <<>>, NEW h \in Line, IsHeader(h), IsHeader(d[1])
  PROVE  \A t : /\ h # Header(t) => View(a \o <<h>> \o d, t) = View(a \o d, t)
                /\ h = Header(t) /\ (\A i \in 1..Len(a \o d) : (a \o d)[i] # h) =>
                     View(a \o <<h>> \o d, t) = <<h>>
<1> DEFINE g == d[1]
           c == SubSeq(d, 2, Len(d))
           ah == Append(a, h)
           ag == Append(a, g)
           ahg == Append(ah, g)
<1>1. 1 \in 1..Len(d)
  BY EmptySeq
<1>2. c \in Seq(Line) /\ d = SubSeq(d, 1, 1 - 1) \o <<g>> \o c /\ g \in Line
  BY <1>1, Cut
<1> HIDE DEF c, g
<1>3. d = <<g>> \o c
  <2>1. SubSeq(d, 1, 1 - 1) = <<>> /\ <<>> \o <<g>> = <<g>>
    BY <1>2
  <2> QED
    BY <2>1, <1>2
<1>4. /\ ah \in Seq(Line) /\ ag \in Seq(Line) /\ ahg \in Seq(Line)
      /\ a \o d = ag \o c /\ a \o <<h>> \o d = ahg \o c
  <2>1. \A x \in Seq(Line), y \in Line :
          <<y>> \in Seq(Line) /\ Append(x, y) \in Seq(Line) /\ x \o <<y>> = Append(x, y)
    OBVIOUS
  <2>2. \A x, y, z \in Seq(Line) : (x \o y) \o z = x \o (y \o z)
    OBVIOUS
  <2>3. \A x \in Seq(Line), y \in Line : x \o (<<y>> \o c) = Append(x, y) \o c
    <3> SUFFICES ASSUME NEW x \in Seq(Line), NEW y \in Line PROVE x \o (<<y>> \o c) = Append(x, y) \o c
      OBVIOUS
    <3>1. (x \o <<y>>) \o c = x \o (<<y>> \o c)
      BY <2>1, <2>2, <1>2
    <3> QED
      BY <3>1, <2>1, Zenon
  <2>4. ah \in Seq(Line) /\ a \o <<h>> = ah
    BY <2>1
  <2>5. ag \in Seq(Line) /\ a \o d = ag \o c
    BY <2>1, <2>3, <1>2, <1>3, Zenon
  <2> HIDE DEF ah
  <2>6. ahg \in Seq(Line) /\ ah \o d = ahg \o c
    BY <2>1, <2>3, <2>4, <1>2, <1>3, Zenon
  <2> QED
    BY <2>4, <2>5, <2>6
<1>5. IsHeader(g) /\ g.kind # "key" /\ h.kind # "key"
  BY DEF IsHeader, g
<1> HIDE DEF ah, ag, ahg
<1>6. ASSUME NEW t
      PROVE  /\ View(ah, t) = IF h = Header(t) THEN Append(View(a, t), h) ELSE View(a, t)
             /\ View(ag, t) = IF g = Header(t) THEN Append(View(a, t), g) ELSE View(a, t)
             /\ View(ahg, t) = IF g = Header(t) THEN Append(View(ah, t), g) ELSE View(ah, t)
             /\ In(ahg, t) = In(ag, t)
  <2>1. \A p \in Seq(Line), e \in Line :
          /\ View(Append(p, e), t) = IF e = Header(t) \/ (In(p, t) /\ e.kind = "key")
                                     THEN Append(View(p, t), e) ELSE View(p, t)
          /\ In(Append(p, e), t) <=> e = Header(t) \/ (In(p, t) /\ ~IsHeader(e))
    BY ViewStep
  <2>2. In(ahg, t) <=> In(ag, t)
    BY <2>1, <1>2, <1>4, <1>5 DEF ah, ag, ahg
  <2>3. In(ahg, t) \in BOOLEAN /\ In(ag, t) \in BOOLEAN
    BY DEF In
  <2> QED
    BY <2>1, <2>2, <2>3, <1>2, <1>4, <1>5 DEF ah, ag, ahg
<1> SUFFICES ASSUME NEW t
             PROVE  /\ h # Header(t) => View(ahg \o c, t) = View(ag \o c, t)
                    /\ h = Header(t) /\ (\A i \in 1..Len(ag \o c) : (ag \o c)[i] # h) =>
                         View(ahg \o c, t) = <<h>>
  BY <1>4
<1>7. PICK x \in Seq(Line) : View(ahg \o c, t) = View(ahg, t) \o x /\ View(ag \o c, t) = View(ag, t) \o x
  <2>1. c \in Seq(Line) /\ ahg \in Seq(Line) /\ ag \in Seq(Line) /\ In(ahg, t) = In(ag, t)
    BY <1>2, <1>4, <1>6
  <2> QED
    BY <2>1, SameEnd, Zenon
<1>8. ASSUME h # Header(t) PROVE View(ahg \o c, t) = View(ag \o c, t)
  BY <1>6, <1>7, <1>8
<1>9. ASSUME h = Header(t), \A i \in 1..Len(ag \o c) : (ag \o c)[i] # h
      PROVE  View(ahg \o c, t) = <<h>>
  <2>1. ag \o c \in Seq(Line) /\ View(ag \o c, t) = <<>>
    <3>1. ag \o c \in Seq(Line)
      BY <1>2, <1>4
    <3> QED
      BY <3>1, <1>9, NoHeader
  <2>2. View(ag, t) \in Seq(Line) /\ View(a, t) \in Seq(Line)
    BY <1>4, ViewStep
  <2>3. View(ag, t) = <<>> /\ x = <<>>
    <3>1. \A v, w \in Seq(Line) : v \o w = <<>> => v = <<>> /\ w = <<>>
      OBVIOUS
    <3> QED
      BY <3>1, <2>1, <2>2, <1>7
  <2>4. g # Header(t) /\ View(a, t) = <<>>
    <3>1. \A v \in Seq(Line) : Append(v, g) # <<>>
      BY <1>2, AppendProperties, EmptySeq
    <3> QED
      BY <3>1, <2>2, <2>3, <1>6
  <2>5. View(ahg, t) = <<h>>
    <3>1. View(ahg, t) = Append(<<>>, h)
      BY <2>4, <1>6, <1>9
    <3> QED
      BY <3>1
  <2>6. <<h>> \o <<>> = <<h>>
    OBVIOUS
  <2> QED
    BY <2>3, <2>5, <2>6, <1>7
<1> QED
  BY <1>8, <1>9

LEMMA WithView ==
  ASSUME NEW lines \in Seq(Line), NEW s \in Section
  PROVE  LET more == WithSection(lines, s)
         IN  /\ more \in Seq(Line)
             /\ HeaderAt(more, s) \in 1..Len(more) /\ more[HeaderAt(more, s)] = Header(s)
             /\ \A t : t # s => View(more, t) = View(lines, t)
             /\ \A S : Fits(lines, s, S) => Fits(more, s, S)
<1> DEFINE more == WithSection(lines, s)
           h == Header(s)
<1>1. h \in Line /\ IsHeader(h) /\ h.kind # "key" /\ \A t : t # s => h # Header(t)
  BY Apart
<1>2. CASE HeaderAt(lines, s) # 0
  <2>1. more = lines
    BY <1>2 DEF WithSection
  <2>2. HeaderAt(lines, s) \in 1..Len(lines) /\ lines[HeaderAt(lines, s)] = h
    BY <1>2, HeaderFound
  <2> HIDE DEF more
  <2> QED
    BY <2>1, <2>2 DEF more
<1>3. CASE HeaderAt(lines, s) = 0
  <2> DEFINE at == SubTableAt(lines, s)
             a == SubSeq(lines, 1, at - 1)
             d == SubSeq(lines, at, Len(lines))
  <2>1. \A i \in 1..Len(lines) : lines[i] # h
    BY <1>3, HeaderFound
  <2>2. \/ more = Append(lines, h)
        \/ at # 0 /\ more = a \o <<h>> \o d
    BY <1>3 DEF WithSection, InsertAt
  <2>3. at # 0 => at \in 1..Len(lines) /\ IsHeader(lines[at])
    <3> DEFINE I == {i \in 1..Len(lines) : lines[i] \in {Header(t) : t \in SubTables(s)}}
    <3>1. at = IF I # {} THEN Min(I) ELSE 0
      BY DEF SubTableAt, SelectInSeq
    <3>2. I \in SUBSET Nat
      OBVIOUS
    <3>3. I # {} => Min(I) \in I
      BY <3>2, Smallest
    <3>4. at # 0 => at \in I
      BY <3>1, <3>3
    <3>5. \A i \in I : IsHeader(lines[i])
      BY Apart
    <3> HIDE DEF at
    <3> QED
      BY <3>4, <3>5
  <2> HIDE DEF more, h, at
  <2>4. /\ more \in Seq(Line) /\ (\E i \in 1..Len(more) : more[i] = h)
        /\ \A t : t # s => View(more, t) = View(lines, t)
        /\ View(lines, s) = <<>> /\ View(more, s) = <<h>>
    <3>1. View(lines, s) = <<>>
      BY <2>1, NoHeader DEF h
    <3>2. CASE more = Append(lines, h)
      <4>1. more \in Seq(Line) /\ Len(more) = Len(lines) + 1 /\ more[Len(lines) + 1] = h /\ Len(lines) \in Nat
        BY <3>2, <1>1, AppendProperties
      <4>2. Len(lines) + 1 \in 1..Len(more)
        BY <4>1
      <4>3. \A t : View(more, t) = IF h = Header(t) \/ (In(lines, t) /\ h.kind = "key")
                                   THEN Append(View(lines, t), h) ELSE View(lines, t)
        BY <3>2, <1>1, ViewStep
      <4>4. View(more, s) = Append(View(lines, s), h)
        BY <4>3 DEF h
      <4> QED
        BY <3>1, <4>1, <4>2, <4>3, <4>4, <1>1
    <3>3. CASE at # 0 /\ more = a \o <<h>> \o d
      <4>0. at \in 1..Len(lines) /\ IsHeader(lines[at])
        BY <2>3, <3>3
      <4>1. at - 1 \in 0..Len(lines) /\ (at - 1) + 1 = at
        BY <4>0
      <4>2. a \in Seq(Line) /\ d \in Seq(Line) /\ lines = a \o d
        BY <4>1, Split
      <4>3. d # <<>> /\ d[1] = lines[at]
        <5>1. at \in Nat /\ Len(lines) \in Nat /\ \A i \in at..Len(lines) : i \in DOMAIN lines
          BY <4>0
        <5>2. Len(d) = Len(lines) - at + 1 /\ Len(d) >= 1 /\ d[1] = lines[at]
          BY <4>0, <5>1
        <5>3. Len(<<>>) = 0
          OBVIOUS
        <5> HIDE DEF d
        <5> QED
          BY <5>2, <5>3
      <4> HIDE DEF a, d
      <4>4. /\ a \o <<h>> \in Seq(Line) /\ Len(a) \in Nat /\ Len(a \o <<h>>) = Len(a) + 1
            /\ (a \o <<h>>)[Len(a) + 1] = h
        BY <1>1, <4>2
      <4>5. /\ a \o <<h>> \o d \in Seq(Line) /\ Len(a \o <<h>> \o d) >= Len(a) + 1
            /\ (a \o <<h>> \o d)[Len(a) + 1] = h
        <5> DEFINE b == a \o <<h>>
        <5>1. b \in Seq(Line) /\ Len(b) = Len(a) + 1 /\ b[Len(a) + 1] = h /\ Len(a) \in Nat
          BY <4>4
        <5> HIDE DEF b
        <5>2. b \o d \in Seq(Line) /\ Len(b \o d) >= Len(a) + 1 /\ (b \o d)[Len(a) + 1] = h
          BY <5>1, <4>2, ConcatProperties
        <5> QED
          BY <5>2 DEF b
      <4>6. Len(a) + 1 \in 1..Len(more) /\ more[Len(a) + 1] = h
        BY <3>3, <4>4, <4>5
      <4>7. \A t : /\ h # Header(t) => View(more, t) = View(lines, t)
                   /\ h = Header(t) => View(more, t) = <<h>>
        <5>1. \A t : /\ h # Header(t) => View(a \o <<h>> \o d, t) = View(a \o d, t)
                     /\ h = Header(t) /\ (\A i \in 1..Len(a \o d) : (a \o d)[i] # h) =>
                          View(a \o <<h>> \o d, t) = <<h>>
          BY <1>1, <4>0, <4>2, <4>3, HeaderBefore
        <5>2. more = a \o <<h>> \o d /\ \A i \in 1..Len(a \o d) : (a \o d)[i] # h
          BY <2>1, <3>3, <4>2
        <5> QED
          BY <5>1, <5>2, <4>2
      <4>8. more \in Seq(Line) /\ (\E i \in 1..Len(more) : more[i] = h)
        BY <3>3, <4>5, <4>6
      <4>9. (\A t : t # s => View(more, t) = View(lines, t)) /\ View(more, s) = <<h>>
        <5>1. h = Header(s) /\ \A t : t # s => h # Header(t)
          BY <1>1 DEF h
        <5> QED
          BY <5>1, <4>7, Zenon
      <4> QED
        BY <3>1, <4>8, <4>9
    <3> QED
      BY <2>2, <3>2, <3>3
  <2>5. HeaderAt(more, s) \in 1..Len(more) /\ more[HeaderAt(more, s)] = h
    <3>1. /\ HeaderAt(more, s) \in 0..Len(more)
          /\ HeaderAt(more, s) = 0 => \A i \in 1..Len(more) : more[i] # h
          /\ HeaderAt(more, s) # 0 => more[HeaderAt(more, s)] = h
      BY <2>4, HeaderFound DEF h
    <3> QED
      BY <3>1, <2>4
  <2>6. Fits(lines, s, {}) /\ \A S : Fits(lines, s, S) => S = {}
    BY <2>4 DEF Fits, IsInjective, Range
  <2>7. Fits(more, s, {})
    BY <2>4, <1>1 DEF Fits, IsInjective, Range
  <2>8. \A S : Fits(lines, s, S) => Fits(more, s, S)
    BY <2>6, <2>7
  <2> QED
    BY <2>4, <2>5, <2>8 DEF h, more
<1> QED
  BY <1>2, <1>3

LEMMA SaveKeeps ==
  ASSUME ConfigInv, NEW s \in Edited, NEW text \in Texts(s), Save(s, text)
  PROVE  ConfigInv'
<1> USE DEF ConfigInv, Save
<1>1. text \in Seq(Line) /\ s \notin Plain
  BY SectionsAssumption
<1>2. /\ file' \in Seq(Line)
      /\ TextOf(s, text) => View(file', s) = Solid(text)
      /\ \A t : Spared(file, s, text, t) => View(file', t) = View(file, t)
  <2>1. file \in Seq(Line) /\ file' = Strip(file, s) \o text
    OBVIOUS
  <2>2. /\ Strip(file, s) \o text \in Seq(Line)
        /\ TextOf(s, text) => View(Strip(file, s) \o text, s) = Solid(text)
        /\ \A t : Spared(file, s, text, t) => View(Strip(file, s) \o text, t) = View(file, t)
    BY ONLY <2>1, <1>1, SaveView
  <2> QED
    BY ONLY <2>1, <2>2
<1>3. saved' \in [Edited -> Seq(Line)] /\ set' = set /\ saved'[s] = Solid(text)
      /\ \A t \in Edited : t # s => saved'[t] = saved[t]
  BY <1>1, Blank
<1>4. ASSUME NEW t \in Section, t \notin strays'
      PROVE  /\ t = s => TextOf(s, text)
             /\ t # s => t \notin strays /\ View(file', t) = View(file, t)
  <2>1. CASE TextOf(s, text)
    <3>1. t \notin strays \ {s}
      BY <2>1, <1>4 DEF Strays
    <3> QED
      BY <2>1, <3>1, <1>2, Apart DEF Spared
  <2>2. CASE ~TextOf(s, text)
    <3>1. t \notin strays /\ t # s /\ t \notin Reaches(s, text)
      BY <2>2, <1>4 DEF Strays
    <3>2. Header(t) \notin Range(text) /\ (OpensWithHeader(text) \/ ~In(Strip(file, s), t))
      BY <3>1 DEF Reaches, In
    <3> QED
      BY <3>1, <3>2, <1>2, Apart DEF Spared
  <2> QED
    BY <2>1, <2>2
<1>5. \A t \in Edited \ strays' : View(file', t) = saved'[t]
  BY <1>2, <1>3, <1>4 DEF Section
<1>6. \A t \in Plain \ strays' : Fits(file', t, set'[t])
  BY <1>1, <1>3, <1>4 DEF Fits, Section
<1> QED
  BY <1>2, <1>3, <1>5, <1>6

LEMMA SetValueKeeps ==
  ASSUME ConfigInv, NEW s \in Plain, NEW k \in Keys, SetValue(s, k)
  PROVE  ConfigInv'
<1> DEFINE lines == WithSection(file, s)
           at == HeaderAt(lines, s)
           more == Put(lines, at, Key(k))
<1> USE DEF ConfigInv, SetValue
<1>0. s \in Section /\ Key(k) \in Line /\ Key(k).kind = "key" /\ file \in Seq(Line)
  BY Apart DEF Section
<1>1. /\ lines \in Seq(Line) /\ at \in 1..Len(lines) /\ lines[at] = Header(s)
      /\ \A t : t # s => View(lines, t) = View(file, t)
      /\ s \notin strays => Fits(lines, s, set[s])
  BY <1>0, WithView
<1> HIDE DEF lines, at
<1>2. at \in 0..Len(lines) /\ at # 0 /\ IsHeader(lines[at])
  BY <1>1, Apart
<1>3. /\ more \in Seq(Line)
      /\ \A t : lines[at] # Header(t) => View(more, t) = View(lines, t)
      /\ s \notin strays => /\ IsInjective(View(more, s))
                            /\ Range(View(more, s)) = Range(View(lines, s)) \cup {Key(k)}
  BY <1>0, <1>1, <1>2, PutView DEF Fits
<1>4. s \notin strays => Fits(more, s, set[s] \cup {Key(k)})
  BY <1>0, <1>1, <1>3 DEF Fits
<1>5. \A t : t # s => View(more, t) = View(file, t)
  BY <1>1, <1>3, Apart
<1>6. file' = Stamped(more)
  BY DEF lines, at
<1> HIDE DEF more
<1>7. file' \in Seq(Line) /\ \A t : View(file', t) = View(more, t)
  BY <1>3, <1>6, StampedView
<1>8. saved' = saved /\ strays' = strays /\ set' \in [Plain -> SUBSET Line] /\ set'[s] = set[s] \cup {Key(k)}
      /\ \A t \in Plain : t # s => set'[t] = set[t]
  BY <1>0
<1>9. \A t \in Edited \ strays' : View(file', t) = saved'[t]
  <2>1. \A t \in Edited : t # s
    BY SectionsAssumption
  <2> QED
    BY <2>1, <1>5, <1>7, <1>8
<1>10. \A t \in Plain \ strays' : Fits(file', t, set'[t])
  BY <1>4, <1>5, <1>7, <1>8 DEF Fits
<1> QED
  BY <1>7, <1>8, <1>9, <1>10

LEMMA DeleteValueKeeps ==
  ASSUME ConfigInv, NEW s \in Plain, NEW k \in Keys, DeleteValue(s, k)
  PROVE  ConfigInv'
<1> DEFINE at == HeaderAt(file, s)
           less == IF at = 0 THEN file ELSE Drop(file, at, Key(k))
<1> USE DEF ConfigInv, DeleteValue
<1>0. Key(k) \in Line /\ Key(k).kind = "key" /\ file \in Seq(Line)
  BY Apart
<1>1. /\ less \in Seq(Line) /\ (s \notin strays => Fits(less, s, set[s] \ {Key(k)}))
      /\ \A t : t # s => View(less, t) = View(file, t)
  <2>1. CASE at = 0
    <3>1. View(file, s) = <<>>
      BY <2>1, HeaderFound, NoHeader
    <3>2. s \notin strays => set[s] = {}
      BY <3>1 DEF Fits, Range
    <3> QED
      BY <2>1, <3>2
  <2>2. CASE at # 0
    <3>1. at \in 1..Len(file) /\ file[at] = Header(s)
      BY <2>2, HeaderFound
    <3> HIDE DEF at
    <3>2. IsHeader(file[at]) /\ (s \notin strays => Fits(file, s, set[s]))
      BY <3>1, Apart
    <3>3. /\ Drop(file, at, Key(k)) \in Seq(Line)
          /\ \A t : file[at] # Header(t) => View(Drop(file, at, Key(k)), t) = View(file, t)
          /\ s \notin strays => /\ IsInjective(View(Drop(file, at, Key(k)), s))
                                /\ Range(View(Drop(file, at, Key(k)), s)) = Range(View(file, s)) \ {Key(k)}
      BY <1>0, <3>1, <3>2, DropView DEF Fits
    <3>4. s \notin strays => Fits(Drop(file, at, Key(k)), s, set[s] \ {Key(k)})
      BY <3>2, <3>3 DEF Fits
    <3> QED
      BY <2>2, <3>1, <3>3, <3>4, Apart
  <2> QED
    BY <2>1, <2>2
<1>2. file' = Stamped(less)
  OBVIOUS
<1> HIDE DEF less
<1>3. file' \in Seq(Line) /\ \A t : View(file', t) = View(less, t)
  BY <1>1, <1>2, StampedView
<1>4. saved' = saved /\ strays' = strays /\ set' \in [Plain -> SUBSET Line] /\ set'[s] = set[s] \ {Key(k)}
      /\ \A t \in Plain : t # s => set'[t] = set[t]
  BY <1>0
<1>5. \A t \in Edited \ strays' : View(file', t) = saved'[t]
  <2>1. \A t \in Edited : t # s
    BY SectionsAssumption
  <2> QED
    BY <2>1, <1>1, <1>3, <1>4
<1>6. \A t \in Plain \ strays' : Fits(file', t, set'[t])
  BY <1>1, <1>3, <1>4 DEF Fits
<1> QED
  BY <1>3, <1>4, <1>5, <1>6

LEMMA ConfigStepKeeps ==
  ASSUME ConfigInv, ConfigStep \/ UNCHANGED configVars
  PROVE  ConfigInv'
<1>1. CASE UNCHANGED configVars
  BY <1>1 DEF ConfigInv, configVars
<1>2. CASE ConfigStep
  BY <1>2, SaveKeeps, SetValueKeeps, DeleteValueKeeps DEF ConfigStep
<1> QED
  BY <1>1, <1>2

LEMMA ConfigInvMeans ==
  ASSUME ConfigInv
  PROVE  EditorsShowSaved /\ ValuesKept
<1> USE DEF ConfigInv
<1>1. EditorsShowSaved
  BY DEF EditorsShowSaved, Extract, View
<1>2. ASSUME NEW s \in Plain \ strays
      PROVE  /\ {file[i] : i \in BodyOf(s)} = set[s]
             /\ \A i, j \in DOMAIN file : file[i] = Header(s) /\ file[j] = Header(s) => i = j
  <2> DEFINE at == HeaderAt(file, s)
             e == BodyEnd(file, at)
             has == {file[i] : i \in BodyOf(s)}
  <2>1. DOMAIN file = 1..Len(file) /\ Fits(file, s, set[s])
    OBVIOUS
  <2>2. \A i, j \in DOMAIN file : file[i] = Header(s) /\ file[j] = Header(s) => i = j
    BY <2>1, ViewHas DEF Fits
  <2>3. CASE at = 0
    <3>1. View(file, s) = <<>>
      BY <2>3, HeaderFound, NoHeader
    <3>2. set[s] = {}
      BY <3>1, <2>1 DEF Fits, Range
    <3>3. BodyOf(s) = {}
      BY <2>3 DEF BodyOf
    <3> QED
      BY <2>2, <3>2, <3>3
  <2>4. CASE at # 0
    <3>1. at \in 1..Len(file) /\ file[at] = Header(s)
      BY <2>4, HeaderFound
    <3>2. BodyOf(s) = {i \in (at + 1)..e : file[i].kind = "key"}
      BY <2>4 DEF BodyOf
    <3>3. \A v : KeyIn(file, at, v) = {i \in (at + 1)..e : file[i] = v}
      BY DEF KeyIn
    <3> HIDE DEF at, e
    <3>4. \A v : v.kind = "key" => (KeyIn(file, at, v) # {} <=> v \in Range(View(file, s)))
      BY <3>1, <2>1, KeyShown DEF Fits
    <3>5. \A v : v \in has <=> v.kind = "key" /\ KeyIn(file, at, v) # {}
      <4> SUFFICES ASSUME NEW v PROVE v \in has <=> v.kind = "key" /\ KeyIn(file, at, v) # {}
        OBVIOUS
      <4>1. v \in has <=> \E i \in BodyOf(s) : file[i] = v
        OBVIOUS
      <4>2. (\E i \in BodyOf(s) : file[i] = v) <=> v.kind = "key" /\ \E i \in (at + 1)..e : file[i] = v
        BY <3>2
      <4>3. KeyIn(file, at, v) # {} <=> \E i \in (at + 1)..e : file[i] = v
        BY <3>3
      <4> HIDE DEF has
      <4> QED
        BY <4>1, <4>2, <4>3
    <3>6. \A v : v \in has <=> v \in set[s]
      BY <3>4, <3>5, <2>1 DEF Fits
    <3> QED
      BY <2>2, <3>6
  <2> QED
    BY <2>3, <2>4
<1> QED
  BY <1>1, <1>2 DEF ValuesKept

-----------------------------------------------------------------------------
\* The default file.
LEMMA Flat ==
  ASSUME NEW E, NEW seqs \in Seq(Seq(E)), Len(seqs) # 0
  PROVE  \E f : /\ FlattenSeq(seqs) = f[Len(seqs)]
                /\ \A i \in 1..Len(seqs) : f[i] = IF i = 1 THEN seqs[i] ELSE f[i - 1] \o seqs[i]
<1> DEFINE n == Len(seqs)
           op == [p \in Seq(E) \X Seq(E) |-> p[1] \o p[2]]
           Solves(f) == f = [i \in 1..n |-> IF i = 1 THEN seqs[i] ELSE f[i - 1] \o seqs[i]]
<1>1. op \in [Seq(E) \X Seq(E) -> Seq(E)] /\ <<>> \in Seq(E)
  OBVIOUS
<1>2. n \in Nat /\ n >= 1 /\ \A i \in 1..n : seqs[i] \in Seq(E)
  OBVIOUS
<1>3. PICK F \in [SUBSET (1..n) -> Seq(E)] : Folds(F, op, <<>>, seqs)
  <2> HIDE DEF op
  <2> QED
    BY <1>1, FoldExists
<1>4. ASSUME NEW i \in 1..n
      PROVE  /\ F[1..i] = F[1..(i - 1)] \o seqs[i] /\ i - 1 \in Nat
  <2>1. Max(1..i) = i /\ (1..i) \ {i} = 1..(i - 1)
    <3>1. i \in Nat \ {0}
      OBVIOUS
    <3> QED
      BY <3>1, MaxUpTo
  <2>2. 1..i \in SUBSET (1..n) /\ 1..(i - 1) \in SUBSET (1..n) /\ 1..i # {}
    <3>1. (\A k \in 1..i : k \in 1..n) /\ (\A k \in 1..(i - 1) : k \in 1..n) /\ i \in 1..i
      BY <1>2
    <3> QED
      BY <3>1
  <2>3. F[1..i] = op[<<F[1..(i - 1)], seqs[i]>>]
    BY <2>1, <2>2, <1>3 DEF Folds
  <2>4. F[1..(i - 1)] \in Seq(E) /\ seqs[i] \in Seq(E)
    BY <2>2, <1>2, <1>3
  <2>5. \A x, y \in Seq(E) : op[<<x, y>>] = x \o y
    OBVIOUS
  <2>6. i - 1 \in Nat
    OBVIOUS
  <2> HIDE DEF op
  <2> QED
    BY <2>3, <2>4, <2>5, <2>6
<1>5. Solves([i \in 1..n |-> F[1..i]])
  <2> DEFINE g == [i \in 1..n |-> F[1..i]]
  <2>1. ASSUME NEW i \in 1..n PROVE F[1..i] = IF i = 1 THEN seqs[i] ELSE g[i - 1] \o seqs[i]
    <3>1. CASE i = 1
      <4>1. 1..(i - 1) = {} /\ F[{}] = <<>>
        BY <3>1, <1>3 DEF Folds
      <4>2. <<>> \o seqs[i] = seqs[i]
        BY <1>2
      <4> QED
        BY <3>1, <4>1, <4>2, <1>4
    <3>2. CASE i # 1
      <4>1. i - 1 \in 1..n
        BY <3>2, <1>2
      <4> QED
        BY <3>2, <4>1, <1>4
    <3> QED
      BY <3>1, <3>2
  <2> QED
    BY <2>1
<1>6. FlattenSeq(seqs) = (CHOOSE f : Solves(f))[n]
  BY DEF FlattenSeq
<1>7. PICK f : Solves(f) /\ FlattenSeq(seqs) = f[n]
  <2> HIDE DEF Solves
  <2> QED
    BY <1>5, <1>6
<1> HIDE DEF op
<1>8. \A i \in 1..n : f[i] = IF i = 1 THEN seqs[i] ELSE f[i - 1] \o seqs[i]
  BY <1>7
<1> QED
  BY <1>7, <1>8

LEMMA SectionNotes ==
  ASSUME NEW lines \in Seq(Line), NEW s \in Section
  PROVE  LET more == lines \o <<Header(s), Note("default")>>
         IN  /\ more \in Seq(Line)
             /\ \A t : View(more, t) = IF t = s THEN Append(View(lines, t), Header(s)) ELSE View(lines, t)
<1> DEFINE h == Header(s)
           d == Note("default")
<1>1. h \in Line /\ d \in Line /\ d.kind = "note" /\ \A t : d # Header(t)
  BY DEF Header, Note, Line, LineNames
<1>2. \A t : h = Header(t) <=> t = s
  BY Apart
<1>3. h.kind # "key"
  BY Apart
<1> HIDE DEF h, d
<1>4. lines \o <<h, d>> = Append(Append(lines, h), d) /\ Append(lines, h) \in Seq(Line)
      /\ lines \o <<h, d>> \in Seq(Line)
  BY <1>1
<1>5. \A t : View(Append(lines, h), t) = IF h = Header(t) \/ (In(lines, t) /\ h.kind = "key")
                                         THEN Append(View(lines, t), h) ELSE View(lines, t)
  BY <1>1, ViewStep
<1>6. \A t : View(Append(Append(lines, h), d), t) = View(Append(lines, h), t)
  <2>1. \A t : View(Append(Append(lines, h), d), t) =
                 IF d = Header(t) \/ (In(Append(lines, h), t) /\ d.kind = "key")
                 THEN Append(View(Append(lines, h), t), d) ELSE View(Append(lines, h), t)
    BY <1>1, <1>4, ViewStep
  <2> QED
    BY <2>1, <1>1
<1> QED
  BY <1>2, <1>3, <1>4, <1>5, <1>6 DEF h, d

\* A sequence of all members of a set has each of them once.
LEMMA Ordered ==
  ASSUME NEW S, IsFiniteSet(S)
  PROVE  /\ Cardinality(S) \in Nat /\ (Cardinality(S) = 0 <=> S = {})
         /\ SetToSeq(S) \in [1..Cardinality(S) -> S] /\ IsInjective(SetToSeq(S))
<1>1. Cardinality(S) \in Nat /\ (Cardinality(S) = 0 <=> S = {})
  BY FS_CardinalityType, FS_EmptySet
<1>2. \E f \in [1..Cardinality(S) -> S] : IsInjective(f)
  BY FS_CardinalityType DEF ExistsBijection, Bijection, Injection
<1> QED
  BY <1>1, <1>2 DEF SetToSeq

\* The headers and notes of some sections, after a banner.
LEMMA DefaultsView ==
  ASSUME NEW n \in Nat \ {0}, NEW order \in [1..n -> Section], IsInjective(order),
         NEW top \in Seq(Line), \A t : View(top, t) = <<>>
  PROVE  LET lines == top \o FlattenSeq([i \in DOMAIN order |-> <<Header(order[i]), Note("default")>>])
         IN  /\ lines \in Seq(Line)
             /\ \A t : View(lines, t) = IF \E i \in 1..n : order[i] = t THEN <<Header(t)>> ELSE <<>>
<1> DEFINE row(s) == <<Header(s), Note("default")>>
           rows == [i \in DOMAIN order |-> row(order[i])]
           Shows(lines, m) ==
             /\ lines \in Seq(Line)
             /\ \A t : View(lines, t) = IF \E i \in 1..m : order[i] = t THEN <<Header(t)>> ELSE <<>>
<1>1. \A s \in Section : row(s) \in Seq(Line)
  BY DEF Header, Note, Line, LineNames
<1>2. rows \in Seq(Seq(Line)) /\ Len(rows) = n /\ \A i \in 1..n : rows[i] = row(order[i])
  <2> HIDE DEF row
  <2>1. rows \in [1..n -> Seq(Line)]
    BY <1>1
  <2>2. rows \in Seq(Seq(Line)) /\ Len(rows) = n
    BY <2>1
  <2> QED
    BY <2>2
<1> HIDE DEF rows
<1>3. PICK f : /\ FlattenSeq(rows) = f[n]
               /\ \A i \in 1..n : f[i] = IF i = 1 THEN rows[i] ELSE f[i - 1] \o rows[i]
  BY <1>2, Flat
<1>4. \A lines \in Seq(Line), s \in Section :
        /\ lines \o row(s) \in Seq(Line)
        /\ \A t : View(lines \o row(s), t) = IF t = s THEN Append(View(lines, t), Header(s)) ELSE View(lines, t)
  BY SectionNotes
<1> HIDE DEF row
<1>5. ASSUME NEW i \in 1..n, NEW lines, Shows(lines, i - 1) PROVE Shows(lines \o rows[i], i)
  <2> DEFINE s == order[i]
  <2>1. s \in Section /\ rows[i] = row(s)
    BY <1>2
  <2>2. \A j \in 1..(i - 1) : order[j] # s
    <3>1. \A j \in 1..(i - 1) : j \in 1..n /\ j # i
      OBVIOUS
    <3> QED
      BY <3>1 DEF IsInjective
  <2>3. \A t : (\E j \in 1..i : order[j] = t) <=> t = s \/ \E j \in 1..(i - 1) : order[j] = t
    <3>1. \A j \in 1..i : j = i \/ j \in 1..(i - 1)
      OBVIOUS
    <3>2. i \in 1..i /\ \A j \in 1..(i - 1) : j \in 1..i
      OBVIOUS
    <3> QED
      BY <3>1, <3>2
  <2> HIDE DEF s
  <2>4. lines \o row(s) \in Seq(Line) /\ \A t : View(lines \o row(s), t) =
          IF t = s THEN Append(View(lines, t), Header(s)) ELSE View(lines, t)
    BY <2>1, <1>4, <1>5
  <2>5. View(lines, s) = <<>>
    BY <2>2, <1>5
  <2>6. Append(<<>>, Header(s)) = <<Header(s)>>
    OBVIOUS
  <2>7. ASSUME NEW t
        PROVE  View(lines \o row(s), t) = IF \E j \in 1..i : order[j] = t THEN <<Header(t)>> ELSE <<>>
    <3>1. CASE t = s
      BY <3>1, <2>3, <2>4, <2>5, <2>6
    <3>2. CASE t # s
      BY <3>2, <2>3, <2>4, <1>5
    <3> QED
      BY <3>1, <3>2
  <2> QED
    BY <2>1, <2>4, <2>7
<1> DEFINE G == {m \in 0..n : m = 0 \/ (f[m] \in Seq(Line) /\ Shows(top \o f[m], m))}
<1>6. ASSUME NEW m \in 0..(n - 1), m \in G PROVE m + 1 \in G
  <2>1. m + 1 \in 1..n /\ (m + 1) - 1 = m /\ m + 1 \in 0..n
    OBVIOUS
  <2> HIDE DEF Shows
  <2>2. rows[m + 1] \in Seq(Line)
    BY <2>1, <1>2
  <2>3. CASE m = 0
    <3>1. Shows(top, 0)
      BY DEF Shows
    <3>2. f[1] = rows[1] /\ 1 \in 1..n /\ 1 - 1 = 0
      BY <1>3
    <3>3. Shows(top \o rows[1], 1)
      BY <3>1, <3>2, <1>5
    <3> QED
      BY <3>2, <3>3, <2>1, <2>2, <2>3
  <2>4. CASE m # 0
    <3>0. m + 1 # 1 /\ f[m] \in Seq(Line)
      BY <2>4, <1>6
    <3>1. f[m + 1] = f[m] \o rows[m + 1]
      <4>1. f[m + 1] = f[(m + 1) - 1] \o rows[m + 1]
        BY <3>0, <2>1, <1>3
      <4> QED
        BY <4>1, <2>1
    <3>2. Shows((top \o f[m]) \o rows[m + 1], m + 1)
      BY <2>1, <2>4, <1>5, <1>6
    <3>3. \A a, b, c \in Seq(Line) : (a \o b) \o c = a \o (b \o c) /\ b \o c \in Seq(Line)
      OBVIOUS
    <3>4. /\ (top \o f[m]) \o rows[m + 1] = top \o (f[m] \o rows[m + 1])
          /\ f[m] \o rows[m + 1] \in Seq(Line)
      BY <3>0, <3>3, <2>2, Zenon
    <3> QED
      BY <3>1, <3>2, <3>4, <2>1
  <2> QED
    BY <2>3, <2>4
<1> HIDE DEF Shows
<1>7. n \in G
  <2>1. 0 \in G /\ n \in 0..n
    OBVIOUS
  <2> HIDE DEF G
  <2>2. 0..n \subseteq G
    BY <2>1, <1>6, UpTo
  <2> QED
    BY <2>1, <2>2
<1>8. Shows(top \o FlattenSeq(rows), n)
  BY <1>3, <1>7
<1> QED
  BY <1>8 DEF Shows, rows, row

LEMMA ConfigInitInv == ConfigInit => ConfigInv
<1> SUFFICES ASSUME ConfigInit PROVE ConfigInv
  OBVIOUS
<1> DEFINE banner == <<Note("banner")>>
<1>1. PICK plain \in SUBSET Plain :
             file = banner \o
                    (IF plain = {} THEN <<>>
                     ELSE LET order == SetToSeq(plain)
                          IN FlattenSeq([i \in DOMAIN order |-> <<Header(order[i]), Note("default")>>]))
  BY DEF ConfigInit
<1>2. banner \in Seq(Line) /\ \A t : View(banner, t) = <<>>
  <2>1. Note("banner") \in Line /\ \A t : Note("banner") # Header(t)
    BY DEF Note, Header, Line, LineNames
  <2>2. banner \in Seq(Line) /\ \A i \in 1..Len(banner) : banner[i] = Note("banner")
    BY <2>1
  <2> HIDE DEF banner
  <2>3. ASSUME NEW t PROVE View(banner, t) = <<>>
    BY <2>1, <2>2, NoHeader
  <2> QED
    BY <2>2, <2>3
<1> HIDE DEF banner
<1>3. file \in Seq(Line) /\ \A t : View(file, t) = <<>> \/ (t \in Plain /\ View(file, t) = <<Header(t)>>)
  <2>1. CASE plain = {}
    <3>1. file = banner
      BY <2>1, <1>1, <1>2
    <3> QED
      BY <3>1, <1>2
  <2>2. CASE plain # {}
    <3> DEFINE order == SetToSeq(plain)
               n == Cardinality(plain)
    <3>1. IsFiniteSet(plain)
      BY SectionsAssumption, FS_Subset
    <3>2. n \in Nat \ {0} /\ order \in [1..n -> plain] /\ IsInjective(order)
      BY <3>1, <2>2, Ordered
    <3>3. file = banner \o FlattenSeq([i \in DOMAIN order |-> <<Header(order[i]), Note("default")>>])
      BY <2>2, <1>1
    <3> HIDE DEF order, n
    <3>4. order \in [1..n -> Section] /\ \A i \in 1..n : order[i] \in Plain
      BY <3>2 DEF Section
    <3>5. /\ file \in Seq(Line)
          /\ \A t : View(file, t) = IF \E i \in 1..n : order[i] = t THEN <<Header(t)>> ELSE <<>>
      BY <3>2, <3>3, <3>4, <1>2, DefaultsView
    <3> QED
      BY <3>4, <3>5
  <2> QED
    BY <2>1, <2>2
<1>4. /\ saved = [s \in Edited |-> <<>>] /\ set = [s \in Plain |-> {}]
  BY DEF ConfigInit
<1>5. \A s \in Edited : View(file, s) = saved[s]
  BY <1>3, <1>4, SectionsAssumption
<1>6. \A s \in Plain : Fits(file, s, set[s])
  <2> SUFFICES ASSUME NEW s \in Plain PROVE Fits(file, s, {})
    BY <1>4
  <2>1. CASE View(file, s) = <<>>
    BY <2>1 DEF Fits, IsInjective, Range
  <2>2. CASE View(file, s) = <<Header(s)>>
    <3>1. Header(s).kind # "key"
      BY Apart
    <3> QED
      BY <2>2, <3>1 DEF Fits, IsInjective, Range
  <2> QED
    BY <2>1, <2>2, <1>3
<1> QED
  BY <1>3, <1>4, <1>5, <1>6 DEF ConfigInv

LEMMA ConfigNext ==
  ASSUME ConfigInv, [Next]_vars
  PROVE  ConfigInv'
<1>1. ConfigStep \/ UNCHANGED configVars
  BY DEF Next, EditStep, ListenStep, ServiceStep, vars
<1> QED
  BY <1>1, ConfigStepKeeps

LEMMA ConfigAlways == Spec => []ConfigInv
<1>1. Init => ConfigInv
  BY ConfigInitInv DEF Init
<1> QED
  BY <1>1, ConfigNext, PTL DEF Spec

\* toml_sections.py: the editor of a section shows the headers and keys that were
\* saved in it last, whatever other sections were saved or values set since, for
\* every set of texts, unless one strayed from the section or into it.
THEOREM EditorsShowWhatWasSaved == Spec => []EditorsShowSaved
BY ConfigAlways, ConfigInvMeans, PTL

\* config.py beside toml_sections.py: a section set value by value is in the file
\* once at most, with the keys that were set and not deleted, whatever was saved,
\* unless a text of an editor strayed into the section.
THEOREM ValuesStaySet == Spec => []ValuesKept
BY ConfigAlways, ConfigInvMeans, PTL
=============================================================================
