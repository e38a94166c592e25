SPECIFICATION FairSpec
CONSTANTS
  Agents = {a1}
  NoAgent = NoAgent
  MaxUtterances = 2
  AudioQueueSize = 1
  StartSound = TRUE
  AnnounceAgent = TRUE
  Commands <- ListeningCommands
  MaxCommands = 1
  MaxPrompts = 1
  MaxChurn = 0
INVARIANT TranscribingHasExit
PROPERTY OffAskedInPlayIsHonoured
PROPERTY TranscribingEnds
PROPERTY PlayingEnds
CHECK_DEADLOCK FALSE
