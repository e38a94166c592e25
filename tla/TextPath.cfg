SPECIFICATION PathSpec
CONSTANTS
  a1 = a1
  a2 = a2
  kb = kb
  NoAgent = NoAgent
  Agents = {a1, a2, kb}
  Keyboard = kb
  AgentTriggers = {"agent", "agente"}
  Score <- MCScore
  SubmitPatterns <- MCSubmit
  MutePatterns <- MCMute
  ListenPatterns <- MCListen
  ScanWords = 3
  MuteScanWords = 2
  AgentScanWords = 3
  Scenarios <- MCScenarios
INVARIANT OneTapOneSubmit
INVARIANT EndTriggerIsObeyed
CHECK_DEADLOCK FALSE
