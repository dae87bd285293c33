\* The health machinery: two providers, drivers stopped while they probe.
CONSTANTS
  MaxQueueSize = 2
  Priorities = {1}
  AttemptLimits = {2}
  Providers = {p1, p2}
  FailureWindow = 2
  MinSamples = 2
  DegradedPct = 70
  CriticalPct = 30
  MaxHeal = 1
  MinHealthy = 1
  Drivers = {d1, d2}
  MaxTasksPerTick = 1
  HealthEvery = 1
  InitialState = "STOPPED"
  DirectTicks = FALSE
SPECIFICATION Spec
SYMMETRY DriverSymmetry
INVARIANTS
  RunningIffStarted
PROPERTIES
  AlarmIsRaised
