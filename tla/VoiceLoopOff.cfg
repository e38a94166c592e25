SPECIFICATION Spec
CONSTANTS
  Agents = {a1}
  NoAgent = NoAgent
  MaxUtterances = 1
  AudioQueueSize = 1
  StartSound = TRUE
  AnnounceAgent = TRUE
  Commands <- ListeningCommands
  MaxCommands = 1
  MaxPrompts = 1
  MaxChurn = 0
PROPERTY OffUntilCommand
CHECK_DEADLOCK FALSE
