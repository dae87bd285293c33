\* Overlapping requests of one tenant over the turn of a month: the quota.
CONSTANTS
  Tenants = {t1}
  Limit <- Limits
  HardCap <- Caps
  TaskLimit = 1
  ComputeLimit = 2
  AgentLimit = 1
  TaskCap = 1
  MaxPeriod = 3
  Runs = {r1, r2}
  Providers = {p1}
  TaskTypes = {chat}
  Inputs = {i1}
  MaxMinutes = 1
  MaxRecords = 2
SPECIFICATION Spec
SYMMETRY Symmetry
INVARIANTS
  OvershootIsBounded
