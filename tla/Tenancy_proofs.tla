--------------------------- MODULE Tenancy_proofs ---------------------------
(***************************************************************************)
(* What holds of tenants, keys, configurations, referrals and contexts for *)
(* any sets of them and any calls.  The invariant is stated and kept part  *)
(* by part, as the operations change one part each.                        *)
(***************************************************************************)
EXTENDS Tenancy, TLAPS

TenantInv ==
  /\ status \in [Tenant -> Status \cup {"none"}]
  /\ tenants \subseteq Tenant /\ tiers \subseteq Tenant /\ limits \subseteq Tenant

KeyInv ==
  /\ owner \in [Key -> Tenant \cup {NoTenant}]
  /\ expired \subseteq Key /\ apiKeys \subseteq Key /\ apiKeyToId \subseteq Key
  /\ tenantByApiKey \in [Key -> Tenant \cup {NoTenant}]
  /\ tenantApiKeys \in [Tenant -> SUBSET Key]
  /\ KeyIndexesAgree

AgentInv ==
  /\ agentTenant \in [Agent -> Tenant \cup {NoTenant}] /\ creator \in [Agent -> Tenant \cup {NoTenant}]
  /\ agentConfigs \subseteq Agent /\ tenantAgentConfigs \in [Tenant -> SUBSET Agent]
  /\ \A a \in agentConfigs : creator[a] \in Tenant
  /\ AgentsAreListed

ReferralInv ==
  /\ referralStatus \in [Referral -> {"none", "pending", "completed"}]
  /\ referrals \subseteq Referral /\ referrer \in [Referral -> Tenant \cup {NoTenant}]
  /\ credited \in [Referral -> SUBSET Call] /\ told \in [Referral -> SUBSET Call]
  /\ \A r \in Referral :
       /\ referralStatus[r] = "none" => told[r] = {}
       /\ \/ /\ referralStatus[r] = "completed"
             /\ \E c \in Call : credited[r] = {c} /\ told[r] = {c}
          \/ /\ referralStatus[r] # "completed" /\ credited[r] = {}
             /\ r \in referrals => told[r] = {}

ShareInv == sharedBy \in [Share -> Tenant \cup {NoTenant}] /\ shareableOutputs \subseteq Share

ContextInv ==
  /\ activeContexts \in [Key -> Tenant \cup {NoTenant}]
  /\ rate \in [Tenant -> [count : 0 .. MaxRequests, over : BOOLEAN]]

CallTypes ==
  [kind : {"none", "route", "tenant", "claim", "onboard"},
   pc : {"new", "checked", "found", "tenant", "key", "limits", "context", "refused", "done"},
   tenant : Tenant \cup {NoTenant}, key : SUBSET Key, referral : SUBSET Referral]

\* Between its check and its end, a call acts for a tenant.
CallInv ==
  /\ call \in [Call -> CallTypes]
  /\ \A c \in Call :
       \/ call[c].pc \in {"checked", "tenant", "key", "limits"}
       \/ call[c].pc = "found" /\ call[c].kind = "tenant"
       => call[c].tenant \in Tenant

IInv == TenantInv /\ KeyInv /\ AgentInv /\ ReferralInv /\ ShareInv /\ ContextInv /\ CallInv

\* Who reports a referral that it has not completed is an onboarding.
OnboardingsReport ==
  \A r \in Referral : \A c \in told[r] : c \in credited[r] \/ call[c].kind = "onboard"

LEMMA InitEstablishesIInv == Init => IInv
<1> SUFFICES ASSUME Init PROVE IInv
  OBVIOUS
<1> USE TenancyAssumption DEF Init
<1>1. TenantInv /\ ShareInv
  BY DEF TenantInv, ShareInv, Status
<1>2. KeyInv
  BY DEF KeyInv, KeyIndexesAgree
<1>3. AgentInv
  BY DEF AgentInv, AgentsAreListed
<1>4. ReferralInv
  BY DEF ReferralInv
<1>5. ContextInv
  BY DEF ContextInv
<1>6. CallInv
  BY DEF CallInv, CallTypes
<1> QED
  BY <1>1, <1>2, <1>3, <1>4, <1>5, <1>6 DEF IInv

LEMMA IInvImplies == IInv => TypeOK /\ KeyIndexesAgree /\ AgentsAreListed
BY DEF IInv, TenantInv, KeyInv, AgentInv, ReferralInv, ShareInv, ContextInv, CallInv, CallTypes, TypeOK

-----------------------------------------------------------------------------
(* What does not change stays right.                                       *)

LEMMA Unchanged ==
  /\ TenantInv   /\ UNCHANGED tenantVars   => TenantInv'
  /\ KeyInv      /\ UNCHANGED keyVars      => KeyInv'
  /\ AgentInv    /\ UNCHANGED agentVars    => AgentInv'
  /\ ReferralInv /\ UNCHANGED referralVars => ReferralInv'
  /\ ShareInv    /\ UNCHANGED shareVars    => ShareInv'
  /\ ContextInv  /\ UNCHANGED contextVars  => ContextInv'
  /\ CallInv     /\ UNCHANGED call         => CallInv'
<1>1. TenantInv /\ UNCHANGED tenantVars => TenantInv'
  BY DEF TenantInv, tenantVars
<1>2. KeyInv /\ UNCHANGED keyVars => KeyInv'
  BY DEF KeyInv, keyVars, KeyIndexesAgree
<1>3. AgentInv /\ UNCHANGED agentVars => AgentInv'
  BY DEF AgentInv, agentVars, AgentsAreListed
<1>4. ReferralInv /\ UNCHANGED referralVars => ReferralInv'
  BY DEF ReferralInv, referralVars
<1>5. ShareInv /\ UNCHANGED shareVars => ShareInv'
  BY DEF ShareInv, shareVars
<1>6. ContextInv /\ UNCHANGED contextVars => ContextInv'
  BY DEF ContextInv, contextVars
<1>7. CallInv /\ UNCHANGED call => CallInv'
  BY DEF CallInv
<1> QED
  BY <1>1, <1>2, <1>3, <1>4, <1>5, <1>6, <1>7

-----------------------------------------------------------------------------
(* The tenant manager.                                                     *)

LEMMA CreateApiKeyKeeps ==
  ASSUME KeyInv, NEW t \in Tenant, NEW k \in Key, CreateApiKey(t, k)
  PROVE  KeyInv'
BY TenancyAssumption DEF KeyInv, KeyIndexesAgree, CreateApiKey

LEMMA RevokeApiKeyKeeps ==
  ASSUME KeyInv, NEW k \in Key, RevokeApiKey(k)
  PROVE  KeyInv'
BY TenancyAssumption DEF KeyInv, KeyIndexesAgree, RevokeApiKey

LEMMA AgentChangeKeeps ==
  ASSUME AgentInv, NEW t \in Tenant, NEW u \in Tenant, NEW a \in Agent,
         CreateAgentConfig(t, a) \/ UpdateAgentConfig(a, u) \/ DeleteAgentConfig(a)
  PROVE  AgentInv'
<1>1. CASE CreateAgentConfig(t, a)
  BY <1>1 DEF AgentInv, AgentsAreListed, CreateAgentConfig
<1>2. CASE UpdateAgentConfig(a, u)
  BY <1>2 DEF AgentInv, AgentsAreListed, UpdateAgentConfig
<1>3. CASE DeleteAgentConfig(a)
  BY <1>3 DEF AgentInv, AgentsAreListed, DeleteAgentConfig
<1> QED
  BY <1>1, <1>2, <1>3

LEMMA CreateReferralKeeps ==
  ASSUME ReferralInv, NEW t \in Tenant, NEW r \in Referral, CreateReferral(t, r)
  PROVE  ReferralInv'
BY DEF ReferralInv, CreateReferral

\* The first to complete a referral that is pending is the only one; one that is
\* gone is completed by nobody.
LEMMA CompleteKeeps ==
  ASSUME ReferralInv, NEW c \in Call, NEW r \in Referral, referralStatus[r] = "pending",
         Complete(c, r), UNCHANGED <<referrals, referrer>>
  PROVE  ReferralInv'
<1>1. credited[r] = {} /\ (r \in referrals => told[r] = {})
  BY DEF ReferralInv
<1>2. CASE r \in referrals
  <2>1. /\ referralStatus' = [referralStatus EXCEPT ![r] = "completed"]
        /\ credited' = [credited EXCEPT ![r] = {c}]
        /\ told' = [told EXCEPT ![r] = {c}]
    BY <1>1, <1>2 DEF Complete, CompleteReferral, ReferralInv
  <2> QED
    BY <2>1 DEF ReferralInv
<1>3. CASE r \notin referrals
  <2>1. /\ UNCHANGED <<referralStatus, credited>>
        /\ told' \in {told, [told EXCEPT ![r] = told[r] \cup {c}]}
    BY <1>3 DEF Complete, CompleteReferral
  <2> QED
    BY <1>3, <2>1 DEF ReferralInv
<1> QED
  BY <1>2, <1>3

LEMMA ClearStep ==
  ASSUME IInv, NEW t \in Tenant, ClearTenantData(t)
  PROVE  IInv'
<1> USE DEF IInv
<1>1. TenantInv'
  BY DEF TenantInv, ClearTenantData
<1>2. KeyInv'
  BY TenancyAssumption DEF KeyInv, KeyIndexesAgree, ClearTenantData
<1>3. AgentInv'
  BY DEF AgentInv, AgentsAreListed, ClearTenantData
<1>4. ReferralInv'
  BY DEF ReferralInv, ClearTenantData
<1>5. ShareInv'
  BY DEF ShareInv, ClearTenantData
<1>6. ContextInv' /\ CallInv'
  BY Unchanged DEF ClearTenantData
<1> QED
  BY <1>1, <1>2, <1>3, <1>4, <1>5, <1>6

LEMMA ManagerStep ==
  ASSUME IInv,
         \/ \E t \in Tenant, s \in Status \ {"trial"} : UpdateTenantStatus(t, s)
         \/ \E k \in Key : Expire(k)
  PROVE  IInv'
<1> USE DEF IInv
<1>1. ASSUME NEW t \in Tenant, NEW s \in Status \ {"trial"}, UpdateTenantStatus(t, s) PROVE IInv'
  <2>1. TenantInv'
    BY <1>1 DEF TenantInv, UpdateTenantStatus
  <2> QED
    BY <1>1, <2>1, Unchanged DEF UpdateTenantStatus
<1>2. ASSUME NEW k \in Key, Expire(k) PROVE IInv'
  <2>1. KeyInv'
    BY <1>2 DEF KeyInv, KeyIndexesAgree, Expire
  <2> QED
    BY <1>2, <2>1, Unchanged DEF Expire
<1> QED
  BY <1>1, <1>2

-----------------------------------------------------------------------------
(* The isolation controller.                                               *)

LEMMA ControllerStep ==
  ASSUME IInv,
         \/ \E k \in Key : RevokeContext(k) \/ ValidateContext(k)
         \/ \E t \in Tenant : WindowEnds(t)
  PROVE  IInv'
<1> USE DEF IInv
<1>1. ASSUME NEW k \in Key, RevokeContext(k) PROVE IInv'
  <2>1. ContextInv'
    BY <1>1 DEF ContextInv, RevokeContext
  <2> QED
    BY <1>1, <2>1, Unchanged DEF RevokeContext
<1>2. ASSUME NEW k \in Key, ValidateContext(k) PROVE IInv'
  <2> DEFINE u == activeContexts[k]
  <2>1. u \in Tenant
    BY <1>2 DEF ContextInv, ValidateContext
  <2>2. rate[u].over \/ rate[u].count + 1 \in 0 .. MaxRequests
    BY <1>2, <2>1, TenancyAssumption DEF ContextInv, ValidateContext, CheckRateLimit
  <2>3. ContextInv'
    BY <1>2, <2>1, <2>2, TenancyAssumption DEF ContextInv, ValidateContext
  <2> QED
    BY <1>2, <2>3, Unchanged DEF ValidateContext
<1>3. ASSUME NEW t \in Tenant, WindowEnds(t) PROVE IInv'
  <2>1. ContextInv'
    BY <1>3 DEF ContextInv, WindowEnds
  <2> QED
    BY <1>3, <2>1, Unchanged DEF WindowEnds
<1> QED
  BY <1>1, <1>2, <1>3

-----------------------------------------------------------------------------
(* The calls.                                                              *)

\* A call that is refused or done, or goes on with what it has.
LEMMA GotoKeeps ==
  ASSUME CallInv, NEW c \in Call,
         NEW pc \in {"limits", "context", "found", "refused", "done"}, Goto(c, pc),
         pc \in {"limits", "found"} => call[c].tenant \in Tenant
  PROVE  CallInv'
BY DEF CallInv, CallTypes, Goto

LEMMA RouteStep ==
  ASSUME IInv, NEW c \in Call, RunRoute(c)
  PROVE  IInv'
<1> USE DEF IInv
<1>1. CallInv' /\ call[c].tenant \in Tenant
  BY GotoKeeps DEF RunRoute, At, CallInv
<1>2. ASSUME NEW k \in Key, RouteCreatesKey(c, k) \/ RouteRevokesKey(c, k) PROVE IInv'
  <2>1. KeyInv'
    BY <1>1, <1>2, CreateApiKeyKeeps, RevokeApiKeyKeeps DEF RouteCreatesKey, RouteRevokesKey
  <2> QED
    BY <1>1, <1>2, <2>1, Unchanged DEF RouteCreatesKey, RouteRevokesKey
<1>3. ASSUME NEW a \in Agent, RouteChangesAgent(c, a) PROVE IInv'
  <2>1. AgentInv'
    BY <1>1, <1>3, AgentChangeKeeps DEF RouteChangesAgent
  <2> QED
    BY <1>1, <1>3, <2>1, Unchanged DEF RouteChangesAgent
<1>4. ASSUME NEW r \in Referral, RouteCreatesReferral(c, r) PROVE IInv'
  <2>1. ReferralInv'
    BY <1>1, <1>4, CreateReferralKeeps DEF RouteCreatesReferral
  <2> QED
    BY <1>1, <1>4, <2>1, Unchanged DEF RouteCreatesReferral
<1>5. ASSUME NEW s \in Share, RouteShares(c, s) PROVE IInv'
  <2>1. ShareInv'
    BY <1>1, <1>5 DEF RouteShares, CreateShareableOutput, ShareInv
  <2> QED
    BY <1>1, <1>5, <2>1, Unchanged DEF RouteShares
<1> QED
  BY <1>2, <1>3, <1>4, <1>5 DEF RunRoute

LEMMA GuardStep ==
  ASSUME IInv, NEW c \in Call,
         (\E k \in Key : CheckKey(c, k)) \/ OverQuota(c) \/ FindTenant(c) \/ EnterTenant(c)
  PROVE  IInv'
<1> USE DEF IInv
<1>1. ASSUME NEW k \in Key, CheckKey(c, k) PROVE IInv'
  <2>1. CallInv'
    <3>1. owner[k] \in Tenant
      BY <1>1 DEF CheckKey, KeyInv
    <3>2. \/ Goto(c, "refused")
          \/ call' = [call EXCEPT ![c].pc = "checked", ![c].tenant = owner[k], ![c].key = {k}]
      BY <1>1 DEF CheckKey
    <3>3. ASSUME call' = [call EXCEPT ![c].pc = "checked", ![c].tenant = owner[k], ![c].key = {k}]
          PROVE  CallInv'
      <4>1. call'[c] \in CallTypes /\ call'[c].tenant = owner[k]
        BY <3>1, <3>3 DEF CallInv, CallTypes
      <4> QED
        BY <3>1, <3>3, <4>1 DEF CallInv
    <3> QED
      BY <3>2, <3>3, GotoKeeps
  <2> QED
    BY <1>1, <2>1, Unchanged DEF CheckKey
<1>2. CASE OverQuota(c)
  <2>1. CallInv'
    BY <1>2, GotoKeeps DEF OverQuota
  <2> QED
    BY <1>2, <2>1, Unchanged DEF OverQuota
<1>3. CASE FindTenant(c)
  <2>1. call[c].tenant \in Tenant
    BY <1>3 DEF FindTenant, At, CallInv
  <2>2. CallInv'
    BY <1>3, <2>1, GotoKeeps DEF FindTenant
  <2> QED
    BY <1>3, <2>2, Unchanged DEF FindTenant
<1>4. CASE EnterTenant(c)
  <2>1. call[c].tenant \in Tenant
    BY <1>4 DEF EnterTenant, At, CallInv
  <2>2. CallInv'
    BY <1>4, GotoKeeps DEF EnterTenant
  <2>3. ContextInv'
    BY <1>4, <2>1 DEF EnterTenant, CreateContext, ContextInv, CallInv, CallTypes
  <2> QED
    BY <1>4, <2>2, <2>3, Unchanged DEF EnterTenant
<1> QED
  BY <1>1, <1>2, <1>3, <1>4

LEMMA ReferralStep ==
  ASSUME IInv, NEW c \in Call,
         ClaimReferral(c) \/ \E rs \in {{}} \cup {{r} : r \in Referral} : LookUpReferral(c, rs)
  PROVE  IInv'
<1> USE DEF IInv
<1>1. ASSUME NEW rs \in {{}} \cup {{r} : r \in Referral}, LookUpReferral(c, rs) PROVE IInv'
  <2>1. rs \cap referrals \in SUBSET Referral
    BY DEF ReferralInv
  <2>2. CallInv'
    <3>1. call' = [call EXCEPT ![c].referral = rs \cap referrals,
                               ![c].pc = IF rs \cap referrals = {} THEN "done" ELSE "found"]
      BY <1>1 DEF LookUpReferral
    <3>2. call[c] \in CallTypes /\ call[c].kind # "tenant"
      BY <1>1 DEF LookUpReferral, At, Lookups, CallInv
    <3>3. /\ call'[c] \in CallTypes /\ call'[c].pc \in {"done", "found"}
          /\ call'[c].kind = call[c].kind
      BY <2>1, <3>1, <3>2 DEF CallInv, CallTypes
    <3> QED
      BY <3>1, <3>2, <3>3 DEF CallInv
  <2> QED
    BY <1>1, <2>2, Unchanged DEF LookUpReferral
<1>2. ASSUME ClaimReferral(c) PROVE IInv'
  <2>1. CallInv'
    BY <1>2, GotoKeeps DEF ClaimReferral
  <2>2. PICK r \in call[c].referral :
          IF referralStatus[r] = "pending" THEN Complete(c, r)
                                           ELSE UNCHANGED <<referralStatus, credited, told>>
    BY <1>2 DEF ClaimReferral
  <2>3. r \in Referral
    BY DEF CallInv, CallTypes
  <2>4. UNCHANGED <<referrals, referrer>>
    BY <1>2 DEF ClaimReferral
  <2>5. ReferralInv'
    <3>1. CASE referralStatus[r] = "pending"
      BY <2>2, <2>3, <2>4, <3>1, CompleteKeeps
    <3>2. CASE referralStatus[r] # "pending"
      BY <2>2, <2>4, <3>2, Unchanged DEF referralVars
    <3> QED
      BY <3>1, <3>2
  <2> QED
    BY <1>2, <2>1, <2>5, Unchanged DEF ClaimReferral
<1> QED
  BY <1>1, <1>2

LEMMA OnboardStep ==
  ASSUME IInv, NEW c \in Call,
         \/ \E t \in Tenant : OnboardTenant(c, t)
         \/ \E k \in Key : OnboardKey(c, k)
         \/ OnboardLimits(c) \/ OnboardContext(c)
  PROVE  IInv'
<1> USE DEF IInv
<1>1. ASSUME NEW t \in Tenant, OnboardTenant(c, t) PROVE IInv'
  <2>1. TenantInv'
    BY <1>1 DEF OnboardTenant, CreateTenant, TenantInv, Status
  <2>2. CallInv'
    <3>1. call' = [call EXCEPT ![c].pc = "tenant", ![c].tenant = t]
      BY <1>1 DEF OnboardTenant
    <3>2. call'[c] \in CallTypes /\ call'[c].tenant = t
      BY <3>1 DEF CallInv, CallTypes
    <3> QED
      BY <3>1, <3>2 DEF CallInv
  <2> QED
    BY <1>1, <2>1, <2>2, Unchanged DEF OnboardTenant
<1>2. ASSUME NEW k \in Key, OnboardKey(c, k) PROVE IInv'
  <2>1. call[c].tenant \in Tenant
    BY <1>2 DEF OnboardKey, At, CallInv
  <2>2. KeyInv'
    BY <1>2, <2>1, CreateApiKeyKeeps DEF OnboardKey
  <2>3. CallInv'
    <3>1. call' = [call EXCEPT ![c] = [[call[c] EXCEPT !.pc = "key"] EXCEPT !.key = {k}]]
      BY <1>2 DEF OnboardKey, CallInv
    <3>2. PICK before \in CallTypes : before = call[c]
      BY DEF CallInv
    <3> DEFINE after == [[before EXCEPT !.pc = "key"] EXCEPT !.key = {k}]
    <3>3. after \in CallTypes /\ after.tenant = before.tenant
      BY DEF CallTypes
    <3>4. call' = [call EXCEPT ![c] = after]
      BY <3>1, <3>2
    <3> HIDE DEF after
    <3> QED
      BY <2>1, <3>2, <3>3, <3>4 DEF CallInv
  <2> QED
    BY <1>2, <2>2, <2>3, Unchanged DEF OnboardKey
<1>3. CASE OnboardLimits(c)
  <2>1. call[c].tenant \in Tenant
    BY <1>3 DEF OnboardLimits, At, CallInv
  <2>2. TenantInv'
    BY <1>3, <2>1 DEF OnboardLimits, TenantInv
  <2>3. CallInv'
    BY <1>3, <2>1, GotoKeeps DEF OnboardLimits
  <2> QED
    BY <1>3, <2>2, <2>3, Unchanged DEF OnboardLimits
<1>4. CASE OnboardContext(c)
  <2>1. call[c].tenant \in Tenant
    BY <1>4 DEF OnboardContext, At, CallInv
  <2>2. ContextInv'
    BY <1>4, <2>1 DEF OnboardContext, CreateContext, ContextInv, CallInv, CallTypes
  <2>3. CallInv'
    BY <1>4, GotoKeeps DEF OnboardContext
  <2> QED
    BY <1>4, <2>2, <2>3, Unchanged DEF OnboardContext
<1> QED
  BY <1>1, <1>2, <1>3, <1>4

LEMMA NextKeepsIInv == IInv /\ [Next]_vars => IInv'
<1> SUFFICES ASSUME IInv, [Next]_vars PROVE IInv'
  OBVIOUS
<1>1. ASSUME NEW c \in Call, CallStep(c) PROVE IInv'
  BY <1>1, RouteStep, GuardStep, ReferralStep, OnboardStep DEF CallStep
<1>2. CASE UNCHANGED vars
  BY <1>2, Unchanged DEF vars, IInv
<1> QED
  BY <1>1, <1>2, ClearStep, ManagerStep, ControllerStep DEF Next

-----------------------------------------------------------------------------
(* The theorems.                                                           *)

LEMMA SpecIInv == Spec => []IInv
BY InitEstablishesIInv, NextKeepsIInv, PTL DEF Spec

\* Every variable has its type; in particular no window counts more requests than
\* there may be.
THEOREM TypeCorrect == Spec => []TypeOK
BY SpecIInv, IInvImplies, PTL

\* However keys are created, revoked and cleared with their tenant, the four maps
\* of the tenant manager agree on them.
THEOREM KeyMapsAgree == Spec => []KeyIndexesAgree
BY SpecIInv, IInvImplies, PTL

\* A stored configuration is listed by the tenant that created it.
THEOREM StoredAgentsAreListed == Spec => []AgentsAreListed
BY SpecIInv, IInvImplies, PTL

\* All maps of the tenant manager agree.
THEOREM MapsAgree == Spec => []IndexesAgree
BY KeyMapsAgree, StoredAgentsAreListed, PTL DEF IndexesAgree

\* A call stays what it is.
LEMMA KindsStay == ASSUME IInv, [Next]_vars PROVE \A c \in Call : call'[c].kind = call[c].kind
<1>0. call \in [Call -> CallTypes]
  BY DEF IInv, CallInv
<1> SUFFICES ASSUME NEW d \in Call PROVE call'[d].kind = call[d].kind
  OBVIOUS
<1>r. PICK r \in CallTypes : r = call[d]
  BY <1>0
<1>1. ASSUME NEW c \in Call, CallStep(c) PROVE call'[d].kind = call[d].kind
  <2>1. ASSUME NEW pc, Goto(c, pc) PROVE call'[d].kind = call[d].kind
    BY <1>0, <1>r, <2>1 DEF Goto, CallTypes
  <2>2. CASE \/ OverQuota(c) \/ RunRoute(c) \/ FindTenant(c) \/ EnterTenant(c)
             \/ ClaimReferral(c) \/ OnboardLimits(c) \/ OnboardContext(c)
    BY <2>1, <2>2 DEF OverQuota, RunRoute, FindTenant, EnterTenant, ClaimReferral, OnboardLimits, OnboardContext
  <2>3. ASSUME NEW k \in Key, CheckKey(c, k) \/ OnboardKey(c, k) PROVE call'[d].kind = call[d].kind
    BY <1>0, <1>r, <2>1, <2>3 DEF CheckKey, OnboardKey, CallTypes
  <2>4. ASSUME NEW t \in Tenant, OnboardTenant(c, t) PROVE call'[d].kind = call[d].kind
    BY <1>0, <1>r, <2>4 DEF OnboardTenant, CallTypes
  <2>5. ASSUME NEW rs, LookUpReferral(c, rs) PROVE call'[d].kind = call[d].kind
    BY <1>0, <1>r, <2>5 DEF LookUpReferral, CallTypes
  <2> QED
    BY <1>1, <2>2, <2>3, <2>4, <2>5 DEF CallStep
<1>2. CASE UNCHANGED call
  BY <1>2
<1> QED
  BY <1>1, <1>2 DEF Next, vars, UpdateTenantStatus, ClearTenantData, WindowEnds, Expire,
     RevokeContext, ValidateContext

\* Nobody reports a referral but by a claim.
LEMMA ReportsComeFromClaims ==
  ASSUME [Next]_vars PROVE UNCHANGED <<credited, told>> \/ \E c \in Call : ClaimReferral(c)
<1>1. ASSUME NEW c \in Call, CallStep(c) PROVE UNCHANGED <<credited, told>> \/ ClaimReferral(c)
  <2>1. ASSUME RunRoute(c) PROVE UNCHANGED <<credited, told>>
    BY <2>1 DEF RunRoute, RouteCreatesKey, RouteRevokesKey, RouteChangesAgent,
       RouteCreatesReferral, CreateReferral, RouteShares, referralVars
  <2>2. ASSUME OverQuota(c) \/ FindTenant(c) \/ EnterTenant(c) \/ OnboardLimits(c) \/ OnboardContext(c)
        PROVE  UNCHANGED <<credited, told>>
    BY <2>2 DEF OverQuota, FindTenant, EnterTenant, OnboardLimits, OnboardContext, referralVars
  <2>3. ASSUME NEW k \in Key, CheckKey(c, k) \/ OnboardKey(c, k) PROVE UNCHANGED <<credited, told>>
    BY <2>3 DEF CheckKey, OnboardKey, referralVars
  <2>4. ASSUME NEW t \in Tenant, OnboardTenant(c, t) PROVE UNCHANGED <<credited, told>>
    BY <2>4 DEF OnboardTenant, referralVars
  <2>5. ASSUME NEW rs, LookUpReferral(c, rs) PROVE UNCHANGED <<credited, told>>
    BY <2>5 DEF LookUpReferral, referralVars
  <2> QED
    BY <1>1, <2>1, <2>2, <2>3, <2>4, <2>5 DEF CallStep
<1>2. CASE UNCHANGED vars
  BY <1>2 DEF vars, referralVars
<1> QED
  BY <1>1, <1>2 DEF Next, UpdateTenantStatus, ClearTenantData, WindowEnds, Expire,
     RevokeContext, ValidateContext, referralVars

LEMMA ReportsStayRight == IInv /\ OnboardingsReport /\ [Next]_vars => OnboardingsReport'
<1> SUFFICES ASSUME IInv, OnboardingsReport, [Next]_vars PROVE OnboardingsReport'
  OBVIOUS
<1>0. /\ told \in [Referral -> SUBSET Call] /\ credited \in [Referral -> SUBSET Call]
      /\ \A c \in Call : call[c].referral \subseteq Referral
  BY DEF IInv, ReferralInv, CallInv, CallTypes
<1>1. \A c \in Call : call'[c].kind = call[c].kind
  BY KindsStay
<1>2. CASE UNCHANGED <<credited, told>>
  BY <1>0, <1>1, <1>2 DEF OnboardingsReport
<1>3. ASSUME NEW c \in Call, ClaimReferral(c) PROVE OnboardingsReport'
  <2>1. PICK r \in Referral :
          IF referralStatus[r] = "pending" THEN Complete(c, r)
                                           ELSE UNCHANGED <<referralStatus, credited, told>>
    BY <1>0, <1>3 DEF ClaimReferral
  <2>2. CASE UNCHANGED <<credited, told>>
    BY <1>2, <2>2
  <2>3. CASE Complete(c, r)
    <3>1. CASE r \in referrals
      <4>1. /\ credited' = [credited EXCEPT ![r] = credited[r] \cup {c}]
            /\ told' = [told EXCEPT ![r] = told[r] \cup {c}]
        BY <2>3, <3>1 DEF Complete, CompleteReferral
      <4> QED
        BY <1>0, <1>1, <4>1 DEF OnboardingsReport
    <3>2. CASE r \notin referrals
      <4>1. /\ credited' = credited
            /\ \/ told' = told
               \/ call[c].kind = "onboard" /\ told' = [told EXCEPT ![r] = told[r] \cup {c}]
        BY <2>3, <3>2 DEF Complete, CompleteReferral
      <4> QED
        BY <1>0, <1>1, <4>1 DEF OnboardingsReport
    <3> QED
      BY <3>1, <3>2
  <2> QED
    BY <2>1, <2>2, <2>3
<1> QED
  BY <1>2, <1>3, ReportsComeFromClaims

\* No referral is completed twice, for any number of claims and onboardings, and
\* nobody reports it besides the one that completed it but onboardings that came
\* after it was cleared.
THEOREM OnePaymentPerReferral == Spec => []ReferralsPayOnce
<1>1. Init => OnboardingsReport
  BY DEF Init, OnboardingsReport
<1>2. IInv /\ OnboardingsReport => ReferralsPayOnce
  <2> SUFFICES ASSUME IInv, OnboardingsReport, NEW r \in Referral
               PROVE  \/ /\ referralStatus[r] = "completed"
                         /\ \E c \in Call : credited[r] = {c} /\ told[r] = {c}
                      \/ /\ referralStatus[r] # "completed" /\ credited[r] = {}
                         /\ r \in referrals => told[r] = {}
                         /\ \A c \in told[r] : call[c].kind = "onboard"
    BY DEF ReferralsPayOnce
  <2>1. credited[r] = {} => \A c \in told[r] : call[c].kind = "onboard"
    BY DEF OnboardingsReport
  <2> QED
    BY <2>1 DEF IInv, ReferralInv
<1> QED
  BY <1>1, <1>2, ReportsStayRight, SpecIInv, PTL DEF Spec

LEMMA ContextsComeFromTwoSteps ==
  ASSUME IInv, [Next]_vars, NEW k \in Key, activeContexts'[k] \notin {activeContexts[k], NoTenant}
  PROVE  \E c \in Call : (EnterTenant(c) \/ OnboardContext(c)) /\ k \in call[c].key
                         /\ activeContexts'[k] = call[c].tenant
<1>1. ~UNCHANGED activeContexts /\ (\A l \in Key : ~RevokeContext(l))
  BY DEF RevokeContext, IInv, ContextInv
<1>2. PICK c \in Call : EnterTenant(c) \/ OnboardContext(c)
  <2>1. ASSUME NEW c \in Call, RunRoute(c) PROVE UNCHANGED activeContexts
    BY <2>1 DEF RunRoute, RouteCreatesKey, RouteRevokesKey, RouteChangesAgent, RouteCreatesReferral,
                RouteShares, contextVars
  <2>2. ASSUME NEW c \in Call, NEW l \in Key, CheckKey(c, l) \/ OnboardKey(c, l)
        PROVE  UNCHANGED activeContexts
    BY <2>2 DEF CheckKey, OnboardKey, contextVars
  <2>3. ASSUME NEW c \in Call, NEW t \in Tenant, OnboardTenant(c, t) PROVE UNCHANGED activeContexts
    BY <2>3 DEF OnboardTenant, contextVars
  <2>4. ASSUME NEW c \in Call, NEW rs, LookUpReferral(c, rs) PROVE UNCHANGED activeContexts
    BY <2>4 DEF LookUpReferral, contextVars
  <2>5. ASSUME NEW c \in Call, OverQuota(c) \/ FindTenant(c) \/ ClaimReferral(c) \/ OnboardLimits(c)
        PROVE  UNCHANGED activeContexts
    BY <2>5 DEF OverQuota, FindTenant, ClaimReferral, OnboardLimits, contextVars
  <2>6. ASSUME NEW t \in Tenant, NEW s, UpdateTenantStatus(t, s) PROVE UNCHANGED activeContexts
    BY <2>6 DEF UpdateTenantStatus, contextVars
  <2>7. ASSUME NEW t \in Tenant, ClearTenantData(t) \/ WindowEnds(t) PROVE UNCHANGED activeContexts
    BY <2>7 DEF ClearTenantData, WindowEnds, contextVars
  <2>8. ASSUME NEW l \in Key, Expire(l) \/ ValidateContext(l) PROVE UNCHANGED activeContexts
    BY <2>8 DEF Expire, ValidateContext, contextVars
  <2>9. Next
    BY <1>1 DEF vars, contextVars
  <2>10. PICK c \in Call : CallStep(c)
    BY <1>1, <2>6, <2>7, <2>8, <2>9 DEF Next
  <2> QED
    BY <1>1, <2>1, <2>2, <2>3, <2>4, <2>5, <2>10 DEF CallStep
<1>3. \E l \in call[c].key : activeContexts' = [activeContexts EXCEPT ![l] = call[c].tenant]
  BY <1>1, <1>2 DEF EnterTenant, OnboardContext, CreateContext
<1> QED
  BY <1>2, <1>3 DEF IInv, ContextInv

\* A suspended tenant gets a context from its own onboarding only.
THEOREM SuspensionIsSeen == Spec => SuspendedTenantsStayOut
<1>1. IInv /\ [Next]_vars =>
        [\A k \in Key :
           /\ activeContexts'[k] \notin {activeContexts[k], NoTenant}
           /\ status[activeContexts'[k]] = "suspended"
           => \E c \in Call : At(c, {"onboard"}, "limits") /\ k \in call[c].key]_vars
  <2> SUFFICES ASSUME IInv, [Next]_vars, NEW k \in Key,
                      activeContexts'[k] \notin {activeContexts[k], NoTenant},
                      status[activeContexts'[k]] = "suspended"
               PROVE  \E c \in Call : At(c, {"onboard"}, "limits") /\ k \in call[c].key
    OBVIOUS
  <2>1. PICK c \in Call : (EnterTenant(c) \/ OnboardContext(c)) /\ k \in call[c].key
                         /\ activeContexts'[k] = call[c].tenant
    BY ContextsComeFromTwoSteps
  <2>2. ~EnterTenant(c)
    BY <2>1 DEF EnterTenant
  <2> QED
    BY <2>1, <2>2 DEF OnboardContext
<1> QED
  BY <1>1, SpecIInv, PTL DEF Spec, SuspendedTenantsStayOut
=============================================================================
