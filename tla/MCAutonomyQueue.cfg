\* The queue and its drivers: overlapping ticks, no provider to watch.
CONSTANTS
  MaxQueueSize = 2
  Priorities = {0, 3}
  AttemptLimits = {1, 2}
  Providers = {}
  FailureWindow = 1
  MinSamples = 1
  DegradedPct = 0
  CriticalPct = 0
  MaxHeal = 1
  MinHealthy = 0
  Drivers = {d1, d2}
  MaxTasksPerTick = 2
  HealthEvery = 1
  InitialState = "NOMINAL"
  DirectTicks = TRUE
SPECIFICATION Spec
SYMMETRY DriverSymmetry
INVARIANTS
  SingleOwner
  AttemptsAreHonoured
  AtMostOneLoop
PROPERTIES
  UrgentNewItemsFirst
  ImplementsLifecycle
