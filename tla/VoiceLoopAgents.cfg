SPECIFICATION Spec
CONSTANTS
  Agents = {a1, a2}
  NoAgent = NoAgent
  MaxUtterances = 2
  AudioQueueSize = 1
  StartSound = TRUE
  AnnounceAgent = TRUE
  Commands <- SwitchCommands
  MaxCommands = 1
  MaxPrompts = 0
  MaxChurn = 2
SYMMETRY AgentSymmetry
INVARIANT UtteranceInOnePlace
INVARIANT DirectSpeechKeepsAgent
CHECK_DEADLOCK FALSE
