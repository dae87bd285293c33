\* Two nodes and a task; silence of one step, checks at most two steps apart.
CONSTANTS
  n1 = n1
  n2 = n2
  t1 = t1
  NodeId = {n1, n2}
  NoNode = NoNode
  Task = {t1}
  Able <- AbleToAll
  Private = {}
  Joining = {"active", "stale"}
  Loads = {1, 2}
  DefaultLoad = 1
  MaxSilence = 1
  CheckGap = 2
SPECIFICATION FairSpec
INVARIANTS
  SelectableNodesAreFresh
  TrailIsTrue
PROPERTIES
  SilentNodesAreRetired
