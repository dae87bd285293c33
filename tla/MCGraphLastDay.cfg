\* Requests one at a time, through the last day of a month.
CONSTANTS
  Tenants = {t1}
  Limit <- Limits
  HardCap <- Caps
  TaskLimit = 1
  ComputeLimit = 2
  AgentLimit = 1
  TaskCap = 1
  MaxPeriod = 3
  Runs = {r1}
  Providers = {p1}
  TaskTypes = {chat}
  Inputs = {i1}
  MaxMinutes = 1
  MaxRecords = 2
SPECIFICATION Spec
INVARIANTS
  QuotaIsKept
