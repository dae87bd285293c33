\* Calls that meet in the tenant manager and in the isolation controller.
CONSTANTS
  t1 = t1
  t2 = t2
  k1 = k1
  k2 = k2
  a1 = a1
  r1 = r1
  s1 = s1
  c1 = c1
  c2 = c2
  c3 = c3
  c4 = c4
  none = none
  Tenant = {t1, t2}
  Key = {k1, k2}
  Agent = {a1}
  Referral = {r1}
  Share = {s1}
  NoTenant = none
  Call = {c1, c2, c3, c4}
  Kinds <- MCKinds
  MaxRequests = 1
SPECIFICATION Spec
SYMMETRY Symmetry
INVARIANTS
  IndexesAgree
  ReferralsPayOnce
PROPERTIES
  SuspendedTenantsStayOut
CHECK_DEADLOCK FALSE
