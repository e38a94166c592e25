SPECIFICATION FairSpec
CONSTANTS
  Wired = {"single", "double"}
  MaxPresses = 3
  MaxOthers = 1
INVARIANT PressReportedOnce
INVARIANT ComboKeepsQuiet
PROPERTY TapIsDecided
