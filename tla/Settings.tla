------------------------------- MODULE Settings -------------------------------
(***************************************************************************)
(* What the settings page and the commands beside it change outside the    *)
(* engine: the configuration file, the hotkey that is read from the        *)
(* keyboard, and the services of the machine.  The page is served by the   *)
(* engine, and what it asks for runs in threads of the engine.  How much   *)
(* happens is bounded by one of several budgets, chosen in the initial     *)
(* state.                                                                  *)
(***************************************************************************)
EXTENDS ConfigEdit, KeyInput, Services

CONSTANT SettingsBudgets   \* bounds: how many of each a behaviour has

VARIABLE left   \* what is left of the bounds

vars == <<configVars, keyVars, serviceVars, left>>

Bounded == {"edits", "keys", "captures", "unplugs", "commands", "switches", "kills", "ends",
            "sources"}

ASSUME SettingsAssumption == SettingsBudgets \subseteq [Bounded -> Nat]

TypeOK ==
  /\ ServicesTypeOK
  /\ listener.key \in KeyNames /\ listener.on \in BOOLEAN
  /\ capturing \in Captures \cup {NoCapture}
  /\ captured \in KeyNames \cup {NoKey}
  /\ unended \in Nat
  /\ left \in [Bounded -> Nat]

\* Where a part is not what a budget is about, one of its initial states is enough.
Init ==
  /\ ConfigInit /\ KeyInit /\ ServicesInit
  /\ left \in SettingsBudgets
  /\ left["edits"] > 0 \/ file = <<Note("banner")>>
  /\ left["keys"] > 0 \/ backend = "pynput"
  /\ left["unplugs"] > 0 \/ devices = CHOOSE list \in DeviceLists : TRUE
  /\ left["commands"] > 0 \/ engine
  /\ left["sources"] > 0 \/ (home.cellar = NoSource /\ ~home.store /\ ~home.brew)
  /\ left["sources"] > 0 \/ swift = CHOOSE source \in Sources : TRUE

Spend(what) == left[what] > 0 /\ left' = [left EXCEPT ![what] = @ - 1]

\* An engine that goes takes its listener and its captures with it.
WithEngine == IF engine /\ ~engine' THEN KeysEnd ELSE UNCHANGED keyVars

EditStep == Spend("edits") /\ ConfigStep /\ UNCHANGED <<keyVars, serviceVars>>

ListenStep ==
  /\ engine
  /\ \/ Spend("keys") /\ KeyPress
     \/ Spend("captures") /\ \E c \in Captures : Asks(c)
     \/ Spend("unplugs") /\ Unplugged
     \/ KeyStep /\ UNCHANGED left
  /\ UNCHANGED <<configVars, serviceVars>>

Commands ==
  \/ Spend("commands") /\ \E c \in ShellCommands, p \in Prebuilt : Begins("shell", c, p)
  \/ Spend("switches") /\ \E c \in SwitchCommands : Begins("switch", c, "none")
  \/ Spend("kills") /\ Stops("shell")
  \/ Spend("ends") /\ \E clean \in BOOLEAN : EngineEnds(clean)
  \/ Spend("sources") /\ SourceChanges /\ UNCHANGED <<jobVars, processVars, commandVars>>

ServiceStep ==
  /\ Commands \/ ((ProcessStep \/ \E r \in Runners : CommandStep(r)) /\ UNCHANGED left)
  /\ WithEngine
  /\ UNCHANGED configVars

Next == EditStep \/ ListenStep \/ ServiceStep

\* Launchers and engines come up by themselves, and threads go on.
Fairness ==
  /\ WF_vars(ServiceStep /\ ProcessStep)
  /\ \A r \in Runners : WF_vars(ServiceStep /\ CommandStep(r))

Spec == Init /\ [][Next]_vars /\ Fairness
=============================================================================
