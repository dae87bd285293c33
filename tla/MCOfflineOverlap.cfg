\* Overlapping calls of sync().
CONSTANTS
  MaxTasks = 3
  Kinds = {k1, k2}
  Syncs = {s1, s2}
SPECIFICATION FairSpec
INVARIANTS
  DeliveredStaysOut
  SyncMarksAreReal
  DeliveredOncePerCall
PROPERTIES
  SyncReturns
  PendingIsTried
