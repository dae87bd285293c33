\* Progress: aborted loops, restarts, failures and CRITICAL spells, where no
\* success rate is critical.
CONSTANTS
  MaxQueueSize = 1
  Priorities = {1}
  AttemptLimits = {1, 2}
  Providers = {p1}
  FailureWindow = 1
  MinSamples = 1
  DegradedPct = 0
  CriticalPct = 0
  MaxHeal = 1
  MinHealthy = 1
  Drivers = {d1, d2}
  MaxTasksPerTick = 1
  HealthEvery = 1
  InitialState = "STOPPED"
  DirectTicks = FALSE
SPECIFICATION FairSpec
PROPERTIES
  EveryItemSettles
  AbortedLoopEnds
