SPECIFICATION Spec
CONSTANTS
  MinSpeech = 2
  MinSilence = 2
  MaxSpeech = 3
  PreBuffer = 3
  MinRecording = 2
  Nothing = Nothing
  MaxGeneration = 2
  SpeechBudgets <- MCSpeechBudgets
INVARIANT SegmentsAreSound
INVARIANT AbandonedIsQuiet
PROPERTY UtteranceIsAnswered
CHECK_DEADLOCK FALSE
