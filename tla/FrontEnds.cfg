SPECIFICATION Spec
CONSTANTS
  TrayAgents = {a1, a2}
  NoTarget = NoTarget
  Pages = {p1}
  MaxPuts = 2
  FrontBudgets <- MCFrontBudgets
PROPERTY MenuCatchesUp
PROPERTY EndIsSeen
CHECK_DEADLOCK FALSE
