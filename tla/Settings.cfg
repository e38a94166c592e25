SPECIFICATION Spec
CONSTANTS
  Edited = {"audio.advanced", "keyboard.shortcuts"}
  Plain = {"audio", "tts"}
  SubTables <- MCSubTables
  Keys = {"model", "language"}
  Texts <- MCTexts
  KeyNames = {"scroll", "alt", "f12", "mute"}
  Hotkey = "f12"
  Modifier = "alt"
  Unnamed = {"mute"}
  Preferred <- MCPreferred
  DeviceLists <- MCDeviceLists
  Captures = {c1, c2}
  NoKey = NoKey
  NoCapture = NoCapture
  Sources = {"old", "new"}
  Homes <- MCHomes
  Launchers = {l1, l2, l3}
  Nobody = Nobody
  SettingsBudgets <- MCSettingsBudgets
INVARIANT EditorsShowSaved
INVARIANT ValuesKept
INVARIANT InstallLeavesAtMostOne
INVARIANT SignedStays
INVARIANT WakeHasKey
PROPERTY InstallServes
CHECK_DEADLOCK FALSE
