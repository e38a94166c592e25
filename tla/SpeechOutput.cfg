SPECIFICATION FairSpec
CONSTANTS
  s1 = s1
  s2 = s2
  a1 = a1
  Requests = {s1, s2, a1}
  Announces = {a1}
  Cached = {s2, a1}
  Budgets <- MCBudgets
INVARIANT MicAgrees
INVARIANT OkMeansHeard
PROPERTY MicComesBack
PROPERTY LoopDrains
CHECK_DEADLOCK FALSE
