\* Two runs of one task that must stay on the machine.
CONSTANTS
  t1 = t1
  t2 = t2
  r1 = r1
  r2 = r2
  local = local
  cloud = cloud
  Task = {t1, t2}
  Run = {r1, r2}
  NoTask = NoTask
  NoOne = NoOne
  Local = {local}
  Remote = {cloud}
  Cost <- Prices
  MaxCost = 2
  Budget <- Budgets
  FallbackAllowed = {t2}
  MinBudget = 1
  MaxRetries = 1
  Ram <- Models
  Suitable = {1, 2, 3}
  MaxFree = 3
  MaxPaid = 3
SPECIFICATION FairSpec
INVARIANTS
  OverspendIsBounded
  ReportsAreTruthful
  FallbackFindsTheBest
PROPERTIES
  EveryRunEnds
CHECK_DEADLOCK FALSE
