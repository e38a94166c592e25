SPECIFICATION FairSpec
CONSTANTS
  Caller = {"main", "focus", "settings", "sounds"}
  Attempts = 3
  MaxReconnects = 1
  MaxEvents = 2
  MaxCalls = 1
INVARIANT CallersHaveRequest
INVARIANT ReasonsNotStranded
PROPERTY WakeIsHandled
PROPERTY PoisonEndsRuntime
