\* Without limits: what is learned, decided and cached, with two providers.
CONSTANTS
  Tenants = {t1}
  Limit <- Limits
  HardCap <- Caps
  TaskLimit = 0
  ComputeLimit = 0
  AgentLimit = 0
  TaskCap = 0
  MaxPeriod = 1
  Runs = {r1, r2}
  Providers = {p1, p2}
  TaskTypes = {chat, code}
  Inputs = {i1}
  MaxMinutes = 1
  MaxRecords = 3
SPECIFICATION Spec
SYMMETRY Symmetry
INVARIANT
  CachedAnswersWereGiven
PROPERTY
  TypeStaysServed
