------------------------------ MODULE Billing ------------------------------
(***************************************************************************)
(* From usage to an invoice: the pricing catalogue (billing/pricing.ts),   *)
(* recordTaskUsage() and its siblings (billing/controller.ts), which store *)
(* in the UsageTracker, the bill they add up to, and createInvoice()       *)
(* (billing/stripe.ts), which prices the same records one by one on a      *)
(* client that initStripe() may replace meanwhile.                         *)
(*                                                                         *)
(* A step ends at an await.  Quantities are in tenths of their unit and    *)
(* rates in hundredths of a cent, so that costs are whole thousandths of a *)
(* cent; all records lie in one month.  What POST /usage stores has been   *)
(* looked at by nobody (billing/router.ts:71): quantities may be negative, *)
(* and kinds unknown.  Stripe keeps the items it created.                  *)
(***************************************************************************)
EXTENDS Integers, Sequences, FiniteSets, SequencesExt

CONSTANTS Tenants,
          Tiers,         \* the names that tenants are given tiers by
          Registrable,   \* the rates that tiers may be registered with
          Bodies,        \* what POST /usage may be sent: a kind and a quantity
          None,          \* no tier, no key, no client, no run
          Runs,          \* the calls of recordTaskUsage()
          Calls, Uses,   \* the calls of stripe.ts, and what they may be for
          Computes,      \* what a run computes, in tenths of a minute
          Caps,          \* maxConcurrentTasks * 1000 of setResourceLimits
          Clients,       \* the clients that may be injected
          Key,           \* a key, which also names the client built from it
          MaxRecords     \* bounds a tenant's records

\* The types of usage, and any other word.
Kinds == {"task", "compute", "agent_run", "api_call", "storage", "bandwidth", "other"}

\* usageRates of a tier.
RateTables == [Kinds -> Int]

\* The rates of the default catalogue.
DefaultTiers ==
  LET Table(task, compute, agentRun, apiCall) ==
        [k \in Kinds |-> CASE k = "task" -> task [] k = "compute" -> compute
                           [] k = "agent_run" -> agentRun [] k = "api_call" -> apiCall
                           [] OTHER -> 0]
  IN [free       |-> Table(0, 0, 0, 0),
      starter    |-> Table(100, 500, 1000, 10),
      pro        |-> Table(50, 200, 500, 5),
      enterprise |-> Table(10, 50, 100, 1)]

ASSUME BillingAssumption ==
  /\ Registrable \subseteq RateTables /\ Bodies \subseteq [kind : Kinds, quantity : Int]
  /\ Computes \subseteq Nat /\ Caps \subseteq Nat /\ MaxRecords \in Nat
  /\ None \notin Tiers \cup Runs \cup Clients \cup {Key}
  /\ Key \notin Clients
  /\ Uses \subseteq {"invoice", "single", "update", "meter"}

VARIABLES
  pricingTiers,  \* the catalogue: the rates of each tier in it
  tier,        \* tierAssignments
  store,       \* usageStore: the records of a tenant, in order
  cap,         \* resourceLimits, 0: not set
  run,         \* the step of a run and its tenant
  configured,  \* stripeApiKeyConfigured
  apiKey,      \* configuredApiKey
  client,      \* stripeClient
  call,        \* the calls of stripe.ts under way
  items        \* the invoice items at Stripe: who created them, for which record

usageVars  == <<pricingTiers, tier, store, cap, run>>
stripeVars == <<configured, apiKey, client>>
billingVars == <<usageVars, stripeVars, call, items>>

NoCall == [use |-> "none", pc |-> "new", tenant |-> None, records |-> <<>>, next |-> 1,
           client |-> None, seen |-> {}]

BillingInit ==
  /\ pricingTiers = DefaultTiers
  /\ tier = [t \in Tenants |-> None]
  /\ store = [t \in Tenants |-> <<>>]
  /\ cap = [t \in Tenants |-> 0]
  /\ run = [r \in Runs |-> [pc |-> "new", tenant |-> None]]
  /\ configured = FALSE /\ apiKey = None /\ client = None
  /\ call = [c \in Calls |-> NoCall]
  /\ items = {}

-----------------------------------------------------------------------------
(* Prices.                                                                 *)

NoRates == [k \in Kinds |-> 0]

\* getTierForTenant(): without a tier, nothing costs anything.
Rates(t) == IF tier[t] = None THEN NoRates ELSE pricingTiers[tier[t]]

\* calculateCost(): what a record costs at given rates.
Cost(rates, record) == record.quantity * rates[record.kind]

\* getTenantUsage(): all of a tenant's records lie in the month.
TenantUsage(t) == store[t]

\* calculateCurrentBill(): what usage costs, credits included.
UsageCost(rates, usage) == SumFunction([i \in DOMAIN usage |-> Cost(rates, usage[i])])

\* Math.round().
Cents(cost) == (cost + 500) \div 1000

\* The invoices being made for these tenants are priced at these rates from now on.
Reprice(priced, rates) ==
  call' = [c \in Calls |-> IF call[c].tenant \in priced /\ call[c].pc = "items"
                           THEN [call[c] EXCEPT !.seen = @ \cup {rates}] ELSE call[c]]

\* registerTier(): the tier is new or replaces one, also under tenants that have it.
RegisterTier(p, rates) ==
  /\ pricingTiers' = [q \in DOMAIN pricingTiers \cup {p} |->
                        IF q = p THEN rates ELSE pricingTiers[q]]
  /\ Reprice({t \in Tenants : tier[t] = p}, rates)
  /\ UNCHANGED <<tier, store, cap, run, stripeVars, items>>

\* assignTier(), while invoices of the tenant may be priced.
AssignTier(t, p) ==
  /\ p \in DOMAIN pricingTiers /\ tier[t] # p
  /\ tier' = [tier EXCEPT ![t] = p]
  /\ Reprice({t}, pricingTiers[p])
  /\ UNCHANGED <<pricingTiers, store, cap, run, stripeVars, items>>

-----------------------------------------------------------------------------
(* Usage.                                                                  *)

\* Mutant of RecordUsage: the limit is enforced before the record is stored.
RecordWithinLimit(t, record) ==
  LET tasks == Cardinality({i \in DOMAIN store[t] : store[t][i].kind = "task"})
  IN store' = [store EXCEPT ![t] = IF cap[t] # 0 /\ tasks >= cap[t] THEN @
                                   ELSE Append(@, record)]

\* recordUsage() stores the record first.
RecordUsage(t, record) == store' = [store EXCEPT ![t] = Append(@, record)]

\* enforceLimits() then counts the tasks, whatever the kind of the record.
OverLimit(t) ==
  /\ cap[t] # 0
  /\ Cardinality({i \in DOMAIN store'[t] : store'[t][i].kind = "task"}) > cap[t]

HasRoom(t) == Len(store[t]) < MaxRecords

\* recordTaskUsage(), up to its first await.
RecordTask(r, t) ==
  /\ run[r].pc = "new" /\ HasRoom(t)
  /\ RecordUsage(t, [kind |-> "task", quantity |-> 10, of |-> r])
  /\ run' = [run EXCEPT ![r] = [pc |-> IF OverLimit(t) THEN "refused" ELSE "task", tenant |-> t]]
  /\ UNCHANGED <<pricingTiers, tier, cap, stripeVars, call, items>>

\* The compute time of the run follows, in a step of its own.
RecordCompute(r) ==
  /\ run[r].pc = "task" /\ HasRoom(run[r].tenant)
  /\ \E minutes \in Computes :
       RecordUsage(run[r].tenant, [kind |-> "compute", quantity |-> minutes, of |-> r])
  /\ run' = [run EXCEPT ![r].pc = IF OverLimit(run[r].tenant) THEN "late" ELSE "done"]
  /\ UNCHANGED <<pricingTiers, tier, cap, stripeVars, call, items>>

RecordOne(t, kind, quantity) ==
  /\ HasRoom(t)
  /\ RecordUsage(t, [kind |-> kind, quantity |-> quantity, of |-> None])
  /\ UNCHANGED <<pricingTiers, tier, cap, run, stripeVars, call, items>>

\* recordApiCall() and recordAgentRunUsage(): one record of one unit.
RecordUnit(t) == \E kind \in {"api_call", "agent_run"} : RecordOne(t, kind, 10)

\* POST /usage stores what the body says.
PostUsage(t) == \E body \in Bodies : RecordOne(t, body.kind, body.quantity)

\* POST /limits.
SetResourceLimits(t, n) ==
  /\ cap[t] # n
  /\ cap' = [cap EXCEPT ![t] = n]
  /\ UNCHANGED <<pricingTiers, tier, store, run, stripeVars, call, items>>

-----------------------------------------------------------------------------
(* Stripe.                                                                 *)

\* initStripe(apiKey): the key is kept, and no client is dropped.
InitStripe(key) ==
  /\ configured' = (key # None)
  /\ apiKey' = IF key # None THEN key ELSE apiKey
  /\ UNCHANGED <<client, usageVars, call, items>>

\* initStripe(apiKey, client).
InjectClient(key, injected) ==
  /\ configured' = (key # None)
  /\ client' = injected
  /\ UNCHANGED <<apiKey, usageVars, call, items>>

Served(c, account) == [call[c] EXCEPT !.pc = "create", !.client = account]

\* getStripe() at the start of a call.  createInvoice() has got a tenant's
\* records of the month.
GetStripe(c, t, use) ==
  /\ call[c].pc = "new"
  /\ LET started == [call[c] EXCEPT !.use = use, !.tenant = t, !.records = TenantUsage(t)]
     IN call' = [call EXCEPT ![c] =
          CASE configured /\ client # None -> [started EXCEPT !.pc = "create", !.client = client]
            [] configured /\ client = None /\ apiKey # None -> [started EXCEPT !.pc = "import"]
            [] OTHER -> [started EXCEPT !.pc = "failed"]]
  /\ UNCHANGED <<usageVars, stripeVars, items>>

\* The import is back: the client is built whether or not there is one by now.
BuildClient(c) ==
  /\ call[c].pc = "import"
  /\ client' = apiKey
  /\ call' = [call EXCEPT ![c] = Served(c, apiKey)]
  /\ UNCHANGED <<usageVars, configured, apiKey, items>>

\* createCustomer(), createSubscription(), cancelSubscription(): one request;
\* updateSubscription(): retrieve, then update.  Each may fail.
Request(c) ==
  /\ call[c].pc = "create" /\ call[c].use \in {"single", "update"}
  /\ \/ call' = [call EXCEPT ![c].pc = "failed"]
     \/ call' = [call EXCEPT ![c] = IF call[c].use = "update" /\ @.next = 1 THEN [@ EXCEPT !.next = 2]
                                   ELSE [@ EXCEPT !.pc = "done"]]
  /\ UNCHANGED <<usageVars, stripeVars, items>>

\* reportUsageToMeter() and getCustomerBalance(): one request, for one record.
ReportUsage(c) ==
  /\ call[c].pc = "create" /\ call[c].use = "meter"
  /\ \E pc \in {"done", "failed"} : call' = [call EXCEPT ![c].pc = pc]
  /\ UNCHANGED <<usageVars, stripeVars, items>>

\* invoices.create(), which may fail.
CreateInvoice(c) ==
  /\ call[c].pc = "create" /\ call[c].use = "invoice"
  /\ \/ call' = [call EXCEPT ![c].pc = "failed"]
     \/ call' = [call EXCEPT ![c].pc = "items", ![c].seen = {Rates(call[c].tenant)}]
  /\ UNCHANGED <<usageVars, stripeVars, items>>

\* The records that are still to be invoiced: those that cost at least half a
\* cent at the rates the tenant has now.
Charged(c) ==
  LET rates == Rates(call[c].tenant)
  IN {i \in call[c].next .. Len(call[c].records) : Cents(Cost(rates, call[c].records[i])) > 0}

Item(c, i) ==
  [by |-> c, at |-> call[c].client, tenant |-> call[c].tenant, record |-> i,
   cents |-> Cents(Cost(Rates(call[c].tenant), call[c].records[i]))]

\* Mutant of AddItem: asks for the client before every request.
AddItemAnywhere(c) ==
  /\ call[c].pc = "items" /\ Charged(c) # {}
  /\ LET i == CHOOSE j \in Charged(c) : \A k \in Charged(c) : j <= k
     IN \/ /\ items' = items \cup {[Item(c, i) EXCEPT !.at = client]}
           /\ call' = [call EXCEPT ![c].next = i + 1]
        \/ /\ items' \in {items, items \cup {Item(c, i)}}
           /\ call' = [call EXCEPT ![c].pc = "failed"]
  /\ UNCHANGED <<usageVars, stripeVars>>

\* One turn of the loop: an item is created and its answer comes back, or the
\* request fails, before or after Stripe has created the item.
AddItem(c) ==
  /\ call[c].pc = "items" /\ Charged(c) # {}
  /\ LET i == CHOOSE j \in Charged(c) : \A k \in Charged(c) : j <= k
     IN \/ /\ items' = items \cup {Item(c, i)}
           /\ call' = [call EXCEPT ![c].next = i + 1]
        \/ /\ items' \in {items, items \cup {Item(c, i)}}
           /\ call' = [call EXCEPT ![c].pc = "failed"]
  /\ UNCHANGED <<usageVars, stripeVars>>

\* No record is left: the invoice is finalized, or the request fails.
Finalize(c) ==
  /\ call[c].pc = "items" /\ Charged(c) = {}
  /\ \E pc \in {"finalized", "failed"} : call' = [call EXCEPT ![c].pc = pc]
  /\ UNCHANGED <<usageVars, stripeVars, items>>

BillingNext ==
  \/ \E p \in Tiers, rates \in Registrable : RegisterTier(p, rates)
  \/ \E t \in Tenants :
       \/ \E p \in Tiers : AssignTier(t, p)
       \/ RecordUnit(t)
       \/ \E r \in Runs : RecordTask(r, t)
       \/ PostUsage(t)
       \/ \E n \in Caps : SetResourceLimits(t, n)
       \/ \E c \in Calls, use \in Uses : GetStripe(c, t, use)
  \/ \E r \in Runs : RecordCompute(r)
  \/ \E key \in {Key, None} :
       \/ InitStripe(key)
       \/ \E injected \in Clients : InjectClient(key, injected)
  \/ \E c \in Calls : \/ BuildClient(c) \/ Request(c) \/ ReportUsage(c)
                     \/ CreateInvoice(c) \/ AddItem(c) \/ Finalize(c)

-----------------------------------------------------------------------------
(* Properties.                                                             *)

\* Whatever recordTaskUsage() answers, its usage is in the books, once: a run
\* that is told that its tenant exceeded a limit (usage-tracker.ts:31) is
\* billed for the record that made it exceed, and a run that is not told so
\* for both of its records.
UsageIsStored ==
  \A r \in Runs \ {s \in Runs : run[s].pc = "new"} :
    LET records == store[run[r].tenant]
        own     == {i \in DOMAIN records : records[i].of = r}
    IN \E first \in own :
         /\ records[first].kind = "task"
         /\ IF run[r].pc \in {"task", "refused"} THEN own = {first}
            ELSE \E second \in own : /\ first < second /\ own = {first, second}
                                     /\ records[second].kind = "compute"

Least(S)    == CHOOSE x \in S : \A y \in S : x <= y
Greatest(S) == CHOOSE x \in S : \A y \in S : y <= x

\* What an invoice comes to on the account it was created on.
Invoiced(c) == SumFunction([x \in {y \in items : y.by = c /\ y.at = call[c].client} |-> x.cents])

\* What a record may be charged, from its costs at the rates seen: a credit is not
\* given back.
Debit(cost) == IF cost > 0 THEN cost ELSE 0
LeastDebits(usage, seen) ==
  SumFunction([i \in DOMAIN usage |-> Debit(Least({Cost(rates, usage[i]) : rates \in seen}))])
GreatestDebits(usage, seen) ==
  SumFunction([i \in DOMAIN usage |-> Debit(Greatest({Cost(rates, usage[i]) : rates \in seen}))])

\* An invoice charges each record that costs something, once, and within half a
\* cent of what it cost at one of the rates that the tenant had while the invoice
\* was made (stripe.ts:157), though tiers are assigned and replaced, and the
\* client, between two of its items.  Under rates that stand still it thus falls
\* short of the bill by half a cent per record at most, but credits, which the
\* bill takes off (controller.ts:99), make it more.
InvoiceCoversTheBill ==
  \A c \in Calls : call[c].pc = "finalized" =>
    LET usage == call[c].records
        seen  == call[c].seen
        slack == 500 * Len(usage)
    IN /\ 1000 * Invoiced(c) \in LeastDebits(usage, seen) - slack .. GreatestDebits(usage, seen) + slack
       /\ \A rates \in seen : seen = {rates} => UsageCost(rates, usage) <= 1000 * Invoiced(c) + slack

=============================================================================
