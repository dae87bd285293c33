------------------------------- MODULE Growth -------------------------------
(***************************************************************************)
(* Landing pages, A/B tests, campaigns and viral loops (growth/engine.ts)  *)
(* behind the routes of growth/router.ts.                                  *)
(*                                                                         *)
(* An operation of the engine is one step, it has no await; the route that *)
(* serves a page is two, it looks the page up and then counts the view.    *)
(* Rates are kept as the fraction that was computed last.                  *)
(***************************************************************************)
EXTENDS Naturals, Sequences, FiniteSets, SequencesExt

CONSTANTS Slugs,
          Users,
          VariantOrder,            \* the variants of the test, in its order
          Share,                   \* Share[u]: the variant u's hash falls into, or none
          NoVariant,               \* no variant
          Getters,                 \* the requests for a page under way
          MaxPages, MaxCount       \* bounds the pages and the loops, and every counter

Variants == Range(VariantOrder)
First == VariantOrder[1]

ASSUME GrowthAssumption ==
  /\ VariantOrder \in Seq(Variants) /\ VariantOrder # <<>> /\ IsInjective(VariantOrder)
  /\ Variants \cap {NoVariant, "control"} = {}
  /\ Share \in [Users -> Variants \cup {NoVariant}]
  /\ IsFiniteSet(Getters) /\ MaxPages \in Nat /\ MaxCount \in Nat

VARIABLES
  landingPages,          \* in the order of creation: slug, active, shown counters
  pageViews, pageConversions,
  getter,                \* the requests for a page, and what happened to them
  active, winner,        \* of the A/B test
  results,               \* per variant: views, conversions, conversionRate
  abTestAssignments,     \* [Users -> Variants], NoVariant before
  late,                  \* history: a conversion came in after the winner was named
  campaign,              \* status and what was reported last
  completions            \* of the viral loops, in the order of their creation

pageVars == <<landingPages, pageViews, pageConversions, getter>>
testVars == <<active, winner, results, abTestAssignments, late>>
growthVars == <<pageVars, testVars, campaign, completions>>

GrowthInit ==
  /\ landingPages = <<>> /\ pageViews = <<>> /\ pageConversions = <<>>
  /\ getter = [g \in Getters |-> [pc |-> "new", slug |-> NoVariant, moved |-> FALSE]]
  /\ active = TRUE /\ winner = NoVariant
  /\ results = [v \in Variants |-> [views |-> 0, conversions |-> 0, rate |-> <<0, 1>>]]
  /\ abTestAssignments = [u \in Users |-> NoVariant]
  /\ late = FALSE
  /\ campaign = [status |-> "none", sent |-> 0, opened |-> 0]
  /\ completions = <<>>

-----------------------------------------------------------------------------
(* Landing pages.                                                          *)

CreateLandingPage(s) ==
  /\ Len(landingPages) < MaxPages
  /\ landingPages' = Append(landingPages, [slug |-> s, active |-> TRUE, views |-> 0])
  /\ pageViews' = Append(pageViews, 0)
  /\ pageConversions' = Append(pageConversions, 0)
  /\ UNCHANGED <<getter, testVars, campaign, completions>>

\* Mutant of WithSlug: as getLandingPageBySlug(), only active pages.
ActiveWithSlug(s) ==
  {i \in DOMAIN landingPages : landingPages[i].slug = s /\ landingPages[i].active}

\* The pages that recordPageView() and recordConversion() choose from.
WithSlug(s) == {i \in DOMAIN landingPages : landingPages[i].slug = s}

Oldest(S) == CHOOSE i \in S : \A j \in S : i <= j

\* updateLandingPage() takes whatever the body says, here one field.
UpdateLandingPage(i) ==
  /\ \/ \E s \in Slugs \ {landingPages[i].slug} :
          /\ landingPages' = [landingPages EXCEPT ![i].slug = s]
          /\ getter' = [g \in Getters |-> [getter[g] EXCEPT
               !.moved = @ \/ (getter[g].pc = "found" /\ getter[g].slug = landingPages[i].slug)]]
     \/ /\ landingPages' = [landingPages EXCEPT ![i].active = ~@]
        /\ UNCHANGED getter
     \/ /\ landingPages' = [landingPages EXCEPT ![i].views = 0]
        /\ UNCHANGED getter
  /\ UNCHANGED <<pageViews, pageConversions, testVars, campaign, completions>>

\* GET /pages/:slug, up to the await: the first active page with the slug.
GetPage(g, s) ==
  /\ getter[g].pc = "new"
  /\ getter' = [getter EXCEPT ![g] =
       [pc |-> IF \E i \in WithSlug(s) : landingPages[i].active THEN "found" ELSE "missing",
        slug |-> s, moved |-> FALSE]]
  /\ UNCHANGED <<landingPages, pageViews, pageConversions, testVars, campaign, completions>>

\* Then recordPageView(): the first page with the slug, whether active or not.
RecordPageView(g) ==
  /\ getter[g].pc = "found"
  /\ LET S == WithSlug(getter[g].slug) IN
       IF S = {} THEN /\ getter' = [getter EXCEPT ![g].pc = "lost"]
                      /\ UNCHANGED <<landingPages, pageViews>>
       ELSE LET i == Oldest(S) IN
              /\ pageViews[i] < MaxCount
              /\ pageViews' = [pageViews EXCEPT ![i] = @ + 1]
              /\ landingPages' = [landingPages EXCEPT ![i].views = pageViews[i] + 1]
              /\ getter' = [getter EXCEPT ![g].pc = "counted"]
  /\ UNCHANGED <<pageConversions, testVars, campaign, completions>>

RecordConversion(s) ==
  /\ WithSlug(s) # {} /\ pageConversions[Oldest(WithSlug(s))] < MaxCount
  /\ pageConversions' = [pageConversions EXCEPT ![Oldest(WithSlug(s))] = @ + 1]
  /\ UNCHANGED <<landingPages, pageViews, getter, testVars, campaign, completions>>

-----------------------------------------------------------------------------
(* The A/B test.                                                           *)

\* The conversion rate, as it is computed after a count.
Recomputed(r) ==
  [r EXCEPT !.rate = IF r.views > 0 THEN <<r.conversions, r.views>> ELSE <<0, 1>>]

\* Mutant of Viewed: leaves the rate to the next conversion.
ViewedOnly(r) == [r EXCEPT !.views = @ + 1]

Viewed(r) == Recomputed([r EXCEPT !.views = @ + 1])

Converted(r) == Recomputed([r EXCEPT !.conversions = @ + 1])

Bucket(u) == IF Share[u] = NoVariant THEN First ELSE Share[u]

\* An assignment is for good, it outlives the test.
Chosen(u) ==
  IF abTestAssignments[u] # NoVariant THEN abTestAssignments[u]
  ELSE IF active THEN Bucket(u) ELSE "control"

\* assignVariant().  A user whose hash lies above the traffic of all variants
\* gets the first one, but is not counted.
AssignVariant(u) ==
  /\ IF active /\ abTestAssignments[u] = NoVariant
     THEN /\ abTestAssignments' = [abTestAssignments EXCEPT ![u] = Chosen(u)]
          /\ results' = IF Share[u] = NoVariant THEN results
                        ELSE [results EXCEPT ![Share[u]] = Viewed(@)]
     ELSE UNCHANGED <<abTestAssignments, results>>
  /\ UNCHANGED <<active, winner, late, pageVars, campaign, completions>>

\* recordABTestConversion() does not ask whether the test is active.
RecordABTestConversion(v) ==
  /\ results[v].conversions < MaxCount
  /\ results' = [results EXCEPT ![v] = Converted(@)]
  /\ late' = (late \/ ~active)
  /\ UNCHANGED <<active, winner, abTestAssignments, pageVars, campaign, completions>>

Above(r, s) == r[1] * s[2] > s[1] * r[2]

\* The first variant with the highest rate above 0, if there is one.
DeclareWinner ==
  /\ LET Best == {i \in DOMAIN VariantOrder :
                   LET rate == results[VariantOrder[i]].rate
                   IN rate[1] > 0 /\ \A v \in Variants : ~Above(results[v].rate, rate)}
     IN winner' = IF Best = {} THEN NoVariant ELSE VariantOrder[Oldest(Best)]
  /\ active' = FALSE /\ late' = FALSE
  /\ UNCHANGED <<results, abTestAssignments, pageVars, campaign, completions>>

-----------------------------------------------------------------------------
(* A campaign and a viral loop.                                            *)

CreateCampaign ==
  /\ campaign.status = "none"
  /\ campaign' = [campaign EXCEPT !.status = "draft"]
  /\ UNCHANGED <<pageVars, testVars, completions>>

ActivateCampaign ==
  /\ campaign.status # "none"
  /\ campaign' = [campaign EXCEPT !.status = "active"]
  /\ UNCHANGED <<pageVars, testVars, completions>>

\* The metrics of the body replace those of earlier reports.
RecordCampaignMetrics ==
  /\ campaign.status # "none"
  /\ \E n \in 0 .. 1 : \/ campaign' = [campaign EXCEPT !.sent = n]
                       \/ campaign' = [campaign EXCEPT !.opened = n]
  /\ UNCHANGED <<pageVars, testVars, completions>>

CreateViralLoop ==
  /\ Len(completions) < MaxPages
  /\ completions' = Append(completions, 0)
  /\ UNCHANGED <<pageVars, testVars, campaign>>

\* Nothing makes a loop inactive.
TriggerViralLoop(l) ==
  /\ completions[l] < MaxCount
  /\ completions' = [completions EXCEPT ![l] = @ + 1]
  /\ UNCHANGED <<pageVars, testVars, campaign>>

\* The three parts share no variable.
PageNext ==
  \/ \E s \in Slugs : \/ CreateLandingPage(s)
                     \/ RecordConversion(s)
                     \/ \E g \in Getters : GetPage(g, s)
  \/ \E i \in DOMAIN landingPages : UpdateLandingPage(i)
  \/ \E g \in Getters : RecordPageView(g)

TestNext ==
  \/ \E u \in Users : AssignVariant(u)
  \/ \E v \in Variants : RecordABTestConversion(v)
  \/ DeclareWinner

CampaignNext ==
  \/ CreateCampaign \/ ActivateCampaign \/ RecordCampaignMetrics
  \/ CreateViralLoop
  \/ \E l \in DOMAIN completions : TriggerViralLoop(l)

-----------------------------------------------------------------------------
(* Properties.                                                             *)

\* A view is lost only to a PATCH that gave the page another slug while its
\* route was between the lookup and the count (router.ts:35); every other view
\* is counted, once, on one page.
ViewsAreLostToRenames ==
  /\ \A g \in Getters : getter[g].pc = "lost" => getter[g].moved
  /\ SumFunction(pageViews)
       = Cardinality({g \in Getters : getter[g].pc = "counted"})

\* declareWinner() reads rates that were computed on earlier calls.  Until the
\* next conversion comes in no variant converts better than the winner, and
\* without a winner no variant that was viewed converts at all.
WinnerIsBest ==
  ~active /\ ~late =>
    \A v \in Variants : results[v].views > 0 =>
      IF winner = NoVariant THEN results[v].conversions = 0
      ELSE results[v].conversions * results[winner].views
             <= results[winner].conversions * results[v].views

=============================================================================
