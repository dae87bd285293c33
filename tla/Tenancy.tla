------------------------------ MODULE Tenancy -------------------------------
(***************************************************************************)
(* Tenants, their API keys, agent configurations and referrals             *)
(* (api/tenant-manager.ts), the contexts and rate limits of                *)
(* tenancy/controller.ts, and the calls that go through them in several    *)
(* steps: routes behind tenantGuard (api/router.ts), requests through      *)
(* tenantMiddleware (tenancy/middleware.ts), claims of referrals, and      *)
(* onboardings (saas/onboarding.ts).                                       *)
(*                                                                         *)
(* A step ends at an await.  A call that holds a tenant, key or referral   *)
(* over an await holds the object itself: it sees later updates of it, and *)
(* does not see that it has been taken out of its map.                     *)
(***************************************************************************)
EXTENDS Naturals, FiniteSets

CONSTANTS Tenant, Key, Agent, Referral, Share, \* the ids that may be drawn, each once
          NoTenant,
          Call, Kinds,                   \* the calls, and what they may be ("none": it is not made)
          MaxRequests                    \* of a tenant in a window

ASSUME TenancyAssumption ==
  /\ NoTenant \notin Tenant
  /\ Kinds \subseteq [Call -> {"none", "route", "tenant", "claim", "onboard"}]
  /\ MaxRequests \in Nat \ {0}

VARIABLES
  status,              \* of a tenant's object, "none" before it is created
  tenants,             \* the ids in the map
  owner,               \* [Key -> Tenant], NoTenant before the key is created
  expired,
  apiKeys, apiKeyToId, tenantByApiKey, tenantApiKeys,
  agentTenant,         \* the tenantId of a configuration
  creator,             \* history: the tenant that created it
  agentConfigs, tenantAgentConfigs,
  referralStatus, referrals, referrer,
  credited,            \* history: the calls that completed the referral
  told,                \* history: the calls that report it as completed
  sharedBy,            \* [Share -> Tenant], NoTenant before the share is created
  shareableOutputs,
  activeContexts,      \* [Key -> Tenant]
  rate,                \* requests counted, and whether the window is over
  tiers, limits,       \* tenants with a pricing tier and with resource limits
  call                 \* the calls under way: kind, pc, and what they hold

tenantVars   == <<status, tenants, tiers, limits>>
keyVars      == <<owner, expired, apiKeys, apiKeyToId, tenantByApiKey, tenantApiKeys>>
agentVars    == <<agentTenant, creator, agentConfigs, tenantAgentConfigs>>
referralVars == <<referralStatus, referrals, referrer, credited, told>>
shareVars    == <<sharedBy, shareableOutputs>>
contextVars  == <<activeContexts, rate>>
vars == <<tenantVars, keyVars, agentVars, referralVars, shareVars, contextVars, call>>

Status == {"trial", "active", "suspended"}

Init ==
  /\ status = [t \in Tenant |-> "none"] /\ tenants = {} /\ tiers = {} /\ limits = {}
  /\ owner = [k \in Key |-> NoTenant] /\ expired = {} /\ apiKeys = {} /\ apiKeyToId = {}
  /\ tenantByApiKey = [k \in Key |-> NoTenant] /\ tenantApiKeys = [t \in Tenant |-> {}]
  /\ agentTenant = [a \in Agent |-> NoTenant] /\ creator = [a \in Agent |-> NoTenant]
  /\ agentConfigs = {} /\ tenantAgentConfigs = [t \in Tenant |-> {}]
  /\ referralStatus = [r \in Referral |-> "none"] /\ referrals = {}
  /\ referrer = [r \in Referral |-> NoTenant] /\ credited = [r \in Referral |-> {}]
  /\ told = [r \in Referral |-> {}]
  /\ sharedBy = [s \in Share |-> NoTenant] /\ shareableOutputs = {}
  /\ activeContexts = [k \in Key |-> NoTenant]
  /\ rate = [t \in Tenant |-> [count |-> 0, over |-> TRUE]]
  /\ \E kind \in Kinds :
       call = [c \in Call |-> [kind |-> kind[c], pc |-> "new", tenant |-> NoTenant, key |-> {},
                               referral |-> {}]]

-----------------------------------------------------------------------------
(* The tenant manager.  Its methods have no await: each is one step.       *)

CreateTenant(t) ==
  /\ status[t] = "none"
  /\ status' = [status EXCEPT ![t] = "trial"]
  /\ tenants' = tenants \cup {t}

UpdateTenantStatus(t, s) ==
  /\ t \in tenants
  /\ status' = [status EXCEPT ![t] = s]
  /\ UNCHANGED <<tenants, tiers, limits, keyVars, agentVars, referralVars, shareVars, contextVars, call>>

CreateApiKey(t, k) ==
  /\ owner[k] = NoTenant
  /\ owner' = [owner EXCEPT ![k] = t]
  /\ apiKeys' = apiKeys \cup {k}
  /\ apiKeyToId' = apiKeyToId \cup {k}
  /\ tenantByApiKey' = [tenantByApiKey EXCEPT ![k] = t]
  /\ tenantApiKeys' = [tenantApiKeys EXCEPT ![t] = @ \cup {k}]
  /\ UNCHANGED expired

Valid(k) == k \in apiKeyToId /\ k \in apiKeys /\ k \notin expired

\* Mutant of RevokeApiKey: the key stays in the index of its tenant.
RevokeUnindexed(k) ==
  /\ apiKeys' = apiKeys \ {k}
  /\ apiKeyToId' = apiKeyToId \ {k}
  /\ tenantByApiKey' = [tenantByApiKey EXCEPT ![k] = NoTenant]
  /\ UNCHANGED <<owner, expired, tenantApiKeys>>

RevokeApiKey(k) ==
  /\ apiKeys' = apiKeys \ {k}
  /\ IF k \in apiKeys
     THEN /\ apiKeyToId' = apiKeyToId \ {k}
          /\ tenantByApiKey' = [tenantByApiKey EXCEPT ![k] = NoTenant]
          /\ tenantApiKeys' = [tenantApiKeys EXCEPT ![owner[k]] = @ \ {k}]
     ELSE UNCHANGED <<apiKeyToId, tenantByApiKey, tenantApiKeys>>
  /\ UNCHANGED <<owner, expired>>

CreateAgentConfig(t, a) ==
  /\ creator[a] = NoTenant
  /\ creator' = [creator EXCEPT ![a] = t]
  /\ agentTenant' = [agentTenant EXCEPT ![a] = t]
  /\ agentConfigs' = agentConfigs \cup {a}
  /\ tenantAgentConfigs' = [tenantAgentConfigs EXCEPT ![t] = @ \cup {a}]

\* The updates may carry a tenantId; the indexes are not looked at.
UpdateAgentConfig(a, t) ==
  /\ a \in agentConfigs
  /\ agentTenant' = [agentTenant EXCEPT ![a] = t]
  /\ UNCHANGED <<creator, agentConfigs, tenantAgentConfigs>>

\* The index is the one of the tenant that the configuration now names.
DeleteAgentConfig(a) ==
  /\ a \in agentConfigs
  /\ tenantAgentConfigs' = [tenantAgentConfigs EXCEPT ![agentTenant[a]] = @ \ {a}]
  /\ agentConfigs' = agentConfigs \ {a}
  /\ UNCHANGED <<agentTenant, creator>>

CreateReferral(t, r) ==
  /\ referralStatus[r] = "none"
  /\ referralStatus' = [referralStatus EXCEPT ![r] = "pending"]
  /\ referrer' = [referrer EXCEPT ![r] = t]
  /\ referrals' = referrals \cup {r}
  /\ UNCHANGED <<credited, told>>

\* completeReferral() looks for the code again and never at the status, and answers
\* null if the code is gone.
CompleteReferral(c, r) ==
  IF r \in referrals
  THEN /\ referralStatus' = [referralStatus EXCEPT ![r] = "completed"]
       /\ credited' = [credited EXCEPT ![r] = @ \cup {c}]
  ELSE UNCHANGED <<referralStatus, credited>>

CreateShareableOutput(t, s) ==
  /\ sharedBy[s] = NoTenant
  /\ sharedBy' = [sharedBy EXCEPT ![s] = t]
  /\ shareableOutputs' = shareableOutputs \cup {s}

\* Contexts, tiers, limits and calls under way are not looked at, and neither is
\* whether the tenant is there.
ClearTenantData(t) ==
  /\ status[t] # "none"
  /\ tenants' = tenants \ {t}
  /\ LET ks == tenantApiKeys[t] \cap apiKeys
     IN  /\ apiKeys' = apiKeys \ ks
         /\ apiKeyToId' = apiKeyToId \ ks
         /\ tenantByApiKey' = [k \in Key |-> IF k \in ks THEN NoTenant ELSE tenantByApiKey[k]]
         /\ tenantApiKeys' = [tenantApiKeys EXCEPT ![t] = {}]
  /\ agentConfigs' = agentConfigs \ tenantAgentConfigs[t]
  /\ tenantAgentConfigs' = [tenantAgentConfigs EXCEPT ![t] = {}]
  /\ referrals' = {r \in referrals : referrer[r] # t}
  /\ shareableOutputs' = {s \in shareableOutputs : sharedBy[s] # t}
  /\ UNCHANGED <<status, tiers, limits, owner, expired, agentTenant, creator,
                 referralStatus, referrer, credited, told, sharedBy, contextVars, call>>

\* A key that has a date of expiry comes to it.
Expire(k) ==
  /\ k \in apiKeys
  /\ expired' = expired \cup {k}
  /\ UNCHANGED <<tenantVars, owner, apiKeys, apiKeyToId, tenantByApiKey, tenantApiKeys,
                 agentVars, referralVars, shareVars, contextVars, call>>

-----------------------------------------------------------------------------
(* The isolation controller.                                               *)

CreateContext(t, k) == activeContexts' = [activeContexts EXCEPT ![k] = t]

RevokeContext(k) ==
  /\ activeContexts[k] # NoTenant
  /\ activeContexts' = [activeContexts EXCEPT ![k] = NoTenant]
  /\ UNCHANGED <<tenantVars, keyVars, agentVars, referralVars, shareVars, rate, call>>

CheckRateLimit(t) == rate[t].over \/ rate[t].count < MaxRequests

\* validateContext(): the context is taken for the key it was created with.
ValidateContext(k) ==
  LET t == activeContexts[k]
  IN  /\ t # NoTenant
      /\ CheckRateLimit(t)
      /\ rate' = [rate EXCEPT ![t] = [count |-> IF @.over THEN 1 ELSE @.count + 1, over |-> FALSE]]
      /\ UNCHANGED <<tenantVars, keyVars, agentVars, referralVars, shareVars, activeContexts, call>>

WindowEnds(t) ==
  /\ ~rate[t].over
  /\ rate' = [rate EXCEPT ![t].over = TRUE]
  /\ UNCHANGED <<tenantVars, keyVars, agentVars, referralVars, shareVars, activeContexts, call>>

-----------------------------------------------------------------------------
(* Calls behind a guard.                                                   *)

At(c, kinds, pc) == call[c].kind \in kinds /\ call[c].pc = pc
Goto(c, pc) == call' = [call EXCEPT ![c].pc = pc]

\* validateApiKey(), as both guards call it.
CheckKey(c, k) ==
  /\ At(c, {"route", "tenant"}, "new")
  /\ owner[k] # NoTenant
  /\ IF Valid(k)
     THEN call' = [call EXCEPT ![c].pc = "checked", ![c].tenant = owner[k], ![c].key = {k}]
     ELSE Goto(c, "refused")
  /\ UNCHANGED <<tenantVars, keyVars, agentVars, referralVars, shareVars, contextVars>>

\* checkTenantQuota() says no.
OverQuota(c) ==
  /\ At(c, {"route", "tenant"}, "checked")
  /\ Goto(c, "refused")
  /\ UNCHANGED <<tenantVars, keyVars, agentVars, referralVars, shareVars, contextVars>>

\* It says yes, and next() runs the route up to its first await.  The key is not
\* looked at again.
RouteCreatesKey(c, k) ==
  /\ CreateApiKey(call[c].tenant, k)
  /\ UNCHANGED <<tenantVars, agentVars, referralVars, shareVars, contextVars>>

RouteRevokesKey(c, k) ==
  /\ owner[k] # NoTenant
  /\ RevokeApiKey(k)
  /\ UNCHANGED <<tenantVars, agentVars, referralVars, shareVars, contextVars>>

RouteChangesAgent(c, a) ==
  /\ \/ CreateAgentConfig(call[c].tenant, a)
     \/ \E t \in Tenant : UpdateAgentConfig(a, t)
     \/ DeleteAgentConfig(a)
  /\ UNCHANGED <<tenantVars, keyVars, referralVars, shareVars, contextVars>>

RouteCreatesReferral(c, r) ==
  /\ CreateReferral(call[c].tenant, r)
  /\ UNCHANGED <<tenantVars, keyVars, agentVars, shareVars, contextVars>>

RouteShares(c, s) ==
  /\ CreateShareableOutput(call[c].tenant, s)
  /\ UNCHANGED <<tenantVars, keyVars, agentVars, referralVars, contextVars>>

RunRoute(c) ==
  /\ At(c, {"route"}, "checked")
  /\ Goto(c, "done")
  /\ \/ \E k \in Key : RouteCreatesKey(c, k) \/ RouteRevokesKey(c, k)
     \/ \E a \in Agent : RouteChangesAgent(c, a)
     \/ \E r \in Referral : RouteCreatesReferral(c, r)
     \/ \E s \in Share : RouteShares(c, s)

\* tenantMiddleware: the tenant is looked up.
FindTenant(c) ==
  /\ At(c, {"tenant"}, "checked")
  /\ Goto(c, IF call[c].tenant \in tenants THEN "found" ELSE "refused")
  /\ UNCHANGED <<tenantVars, keyVars, agentVars, referralVars, shareVars, contextVars>>

\* Mutant of EnterTenant: the status is not looked at.
EnterAnyTenant(c) ==
  /\ At(c, {"tenant"}, "found")
  /\ \E k \in call[c].key : CreateContext(call[c].tenant, k)
  /\ Goto(c, "done")
  /\ UNCHANGED <<tenantVars, keyVars, agentVars, referralVars, shareVars, rate>>

\* Its status is looked at, and the context created, without an await between.
EnterTenant(c) ==
  /\ At(c, {"tenant"}, "found")
  /\ IF status[call[c].tenant] = "suspended"
     THEN Goto(c, "refused") /\ UNCHANGED activeContexts
     ELSE Goto(c, "done") /\ \E k \in call[c].key : CreateContext(call[c].tenant, k)
  /\ UNCHANGED <<tenantVars, keyVars, agentVars, referralVars, shareVars, rate>>

-----------------------------------------------------------------------------
(* POST /referrals/claim, and the referral of an onboarding.               *)

Lookups == {"claim", "onboard"}
Before(c) == IF call[c].kind = "claim" THEN "new" ELSE "context"

\* An onboarding need not have a code.
LookUpReferral(c, rs) ==
  /\ At(c, Lookups, Before(c))
  /\ rs = {} => call[c].kind = "onboard"
  /\ call' = [call EXCEPT ![c].referral = rs \cap referrals,
                          ![c].pc = IF rs \cap referrals = {} THEN "done" ELSE "found"]
  /\ UNCHANGED <<tenantVars, keyVars, agentVars, referralVars, shareVars, contextVars>>

\* The claim answers with the result; the onboarding, which does not look at it,
\* reports the code whatever came of it.
Complete(c, r) ==
  /\ CompleteReferral(c, r)
  /\ told' = IF r \in referrals \/ call[c].kind = "onboard"
             THEN [told EXCEPT ![r] = @ \cup {c}] ELSE told

\* Mutant of ClaimReferral: the status is the one at the time of the lookup.
ClaimFoundReferral(c) ==
  /\ At(c, Lookups, "found")
  /\ \E r \in call[c].referral : Complete(c, r)
  /\ Goto(c, "done")
  /\ UNCHANGED <<tenantVars, keyVars, agentVars, referrals, referrer, shareVars, contextVars>>

\* The status is looked at, and the referral completed, without an await between.
ClaimReferral(c) ==
  /\ At(c, Lookups, "found")
  /\ \E r \in call[c].referral :
       IF referralStatus[r] = "pending" THEN Complete(c, r)
       ELSE UNCHANGED <<referralStatus, credited, told>>
  /\ Goto(c, "done")
  /\ UNCHANGED <<tenantVars, keyVars, agentVars, referrals, referrer, shareVars, contextVars>>

-----------------------------------------------------------------------------
(* OnboardingFlow.onboard(): four steps, then the referral.                *)

OnboardTenant(c, t) ==
  /\ At(c, {"onboard"}, "new")
  /\ CreateTenant(t)
  /\ tiers' = tiers \cup {t}
  /\ call' = [call EXCEPT ![c].pc = "tenant", ![c].tenant = t]
  /\ UNCHANGED <<limits, keyVars, agentVars, referralVars, shareVars, contextVars>>

OnboardKey(c, k) ==
  /\ At(c, {"onboard"}, "tenant")
  /\ CreateApiKey(call[c].tenant, k)
  /\ call' = [call EXCEPT ![c].pc = "key", ![c].key = {k}]
  /\ UNCHANGED <<tenantVars, agentVars, referralVars, shareVars, contextVars>>

OnboardLimits(c) ==
  /\ At(c, {"onboard"}, "key")
  /\ limits' = limits \cup {call[c].tenant}
  /\ Goto(c, "limits")
  /\ UNCHANGED <<status, tenants, tiers, keyVars, agentVars, referralVars, shareVars, contextVars>>

OnboardContext(c) ==
  /\ At(c, {"onboard"}, "limits")
  /\ \E k \in call[c].key : CreateContext(call[c].tenant, k)
  /\ Goto(c, "context")
  /\ UNCHANGED <<tenantVars, keyVars, agentVars, referralVars, shareVars, rate>>

-----------------------------------------------------------------------------
CallStep(c) ==
  \/ OverQuota(c) \/ RunRoute(c)
  \/ FindTenant(c) \/ EnterTenant(c)
  \/ ClaimReferral(c)
  \/ OnboardLimits(c) \/ OnboardContext(c)
  \/ \E k \in Key : CheckKey(c, k) \/ OnboardKey(c, k)
  \/ \E t \in Tenant : OnboardTenant(c, t)
  \/ \E rs \in {{}} \cup {{r} : r \in Referral} : LookUpReferral(c, rs)

Next ==
  \/ \E c \in Call : CallStep(c)
  \/ \E t \in Tenant, s \in Status \ {"trial"} : UpdateTenantStatus(t, s)
  \/ \E t \in Tenant : ClearTenantData(t) \/ WindowEnds(t)
  \/ \E k \in Key : Expire(k) \/ RevokeContext(k) \/ ValidateContext(k)

Spec == Init /\ [][Next]_vars

-----------------------------------------------------------------------------
TypeOK ==
  /\ status \in [Tenant -> Status \cup {"none"}]
  /\ tenants \subseteq Tenant /\ tiers \subseteq Tenant /\ limits \subseteq Tenant
  /\ owner \in [Key -> Tenant \cup {NoTenant}]
  /\ expired \subseteq Key /\ apiKeys \subseteq Key /\ apiKeyToId \subseteq Key
  /\ tenantByApiKey \in [Key -> Tenant \cup {NoTenant}]
  /\ tenantApiKeys \in [Tenant -> SUBSET Key]
  /\ agentTenant \in [Agent -> Tenant \cup {NoTenant}] /\ creator \in [Agent -> Tenant \cup {NoTenant}]
  /\ agentConfigs \subseteq Agent /\ tenantAgentConfigs \in [Tenant -> SUBSET Agent]
  /\ referralStatus \in [Referral -> {"none", "pending", "completed"}]
  /\ referrals \subseteq Referral /\ referrer \in [Referral -> Tenant \cup {NoTenant}]
  /\ credited \in [Referral -> SUBSET Call] /\ told \in [Referral -> SUBSET Call]
  /\ sharedBy \in [Share -> Tenant \cup {NoTenant}] /\ shareableOutputs \subseteq Share
  /\ activeContexts \in [Key -> Tenant \cup {NoTenant}]
  /\ rate \in [Tenant -> [count : 0 .. MaxRequests, over : BOOLEAN]]
  /\ call \in [Call -> [kind : {"none", "route", "tenant", "claim", "onboard"},
                        pc : {"new", "checked", "found", "tenant", "key", "limits", "context",
                              "refused", "done"},
                        tenant : Tenant \cup {NoTenant}, key : SUBSET Key,
                        referral : SUBSET Referral]]

\* The four maps of the keys tell the same story, whatever the order in which keys
\* are created, revoked and cleared with their tenant.
KeyIndexesAgree ==
  \A k \in Key :
    /\ k \in apiKeyToId <=> k \in apiKeys
    /\ tenantByApiKey[k] = IF k \in apiKeys THEN owner[k] ELSE NoTenant
    /\ \A t \in Tenant : k \in tenantApiKeys[t] <=> k \in apiKeys /\ owner[k] = t

\* The tenant that created a configuration lists it as long as it is stored, also
\* when an update has named another tenant: so clearing that tenant takes it too.
AgentsAreListed == \A a \in agentConfigs : a \in tenantAgentConfigs[creator[a]]

\* The tenant manager keeps every key in four maps and every configuration in two,
\* and nothing but its own code, operation by operation, keeps them in step.
IndexesAgree == KeyIndexesAgree /\ AgentsAreListed

\* However claims and onboardings with one code run together, at most one of them
\* completes the referral, and then nobody else reports it, though
\* completeReferral() never looks at the status and an await lies between the
\* lookup and the claim.  If none has completed it, only onboardings may report
\* it, several even, and only once it was cleared with its tenant
\* (onboarding.ts:92 drops the result).
ReferralsPayOnce ==
  \A r \in Referral :
    \/ /\ referralStatus[r] = "completed"
       /\ \E c \in Call : credited[r] = {c} /\ told[r] = {c}
    \/ /\ referralStatus[r] # "completed" /\ credited[r] = {}
       /\ r \in referrals => told[r] = {}
       /\ \A c \in told[r] : call[c].kind = "onboard"

\* A suspended tenant gets no context but from the onboarding that creates it:
\* the middleware sees a suspension that comes while it waits.
SuspendedTenantsStayOut ==
  [][\A k \in Key :
       /\ activeContexts'[k] \notin {activeContexts[k], NoTenant}
       /\ status[activeContexts'[k]] = "suspended"
       => \E c \in Call : At(c, {"onboard"}, "limits") /\ k \in call[c].key]_vars
=============================================================================
