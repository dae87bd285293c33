\* Usage and invoices, and beside them growth, schedules, the execution
\* log, rule graphs and prompts.
CONSTANTS
  t1 = t1
  r1 = r1
  r2 = r2
  c1 = c1
  none = none
  key = key
  mock = mock
  g1 = g1
  g2 = g2
  u1 = u1
  u2 = u2
  u3 = u3
  Tenants = {t1}
  Tiers = {"pro"}
  Registrable <- MCRegistrable
  Bodies <- MCBodies
  None = none
  Runs = {r1, r2}
  Calls = {c1}
  Uses = {"invoice", "update", "meter"}
  Computes = {4}
  Caps = {1}
  Clients = {mock}
  Key = key
  MaxRecords = 3
  Slugs = {"home", "offer"}
  Users = {u1, u2, u3}
  VariantOrder <- MCVariantOrder
  Share <- MCShare
  NoVariant = "none"
  Getters = {g1, g2}
  MaxPages = 2
  MaxCount = 2
  Ids = {"often", "seldom"}
  Disabled = {}
  IntervalMs <- MCIntervalMs
  Ticks = {1, 2}
  MaxRegistrations = 3
  MaxTime = 3
  MaxHistory = 5
  Engines = {"e1", "e2"}
  Execs = {1, 2, 3}
  EngineOf <- MCEngineOf
  RunId <- MCRunId
  Outputs = {"a", "b"}
  Denied = "deny"
  RotateAt = 2
  MaxCrashes = 1
  MaxReplays = 1
  NodeIds = {1, 2, 3}
  Weight <- MCWeight
  Priority <- MCPriority
  Template <- MCTemplate
  Defines <- MCDefines
  RootFragment = 1
  Builds <- MCBuilds
  VarNames = {"a", "b", "c"}
  Texts <- MCTexts
  MaxRecursion = 3
SPECIFICATION Spec
SYMMETRY Symmetry
INVARIANTS
  UsageIsStored
  InvoiceCoversTheBill
  ViewsAreLostToRenames
  WinnerIsBest
  FiringsKeepPace
  ReceiptsAreOnDisk
  LogIsBounded
  OrdersRespectEdges
  ReferencesAreResolved
PROPERTIES
  VerifiedStaysVerified
CHECK_DEADLOCK FALSE
