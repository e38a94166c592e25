SPECIFICATION FairSpec
CONSTANTS
  Versions = {v1, v2, v3}
  NoVersion = NoVersion
  Shells = {s1}
  Processes = {p1, p2, p3}
  Nobody = Nobody
  Budgets <- MCBudgets
INVARIANT OneServer
INVARIANT PoisonedIsReplaced
INVARIANT WayBack
PROPERTY AskedExitHappens
CHECK_DEADLOCK FALSE
