----------------------------- MODULE MCTenancy ------------------------------
(***************************************************************************)
(* At most four calls: one onboards a tenant, the others are what MCKinds  *)
(* lists.  In the first mix two claims meet each other and an onboarding   *)
(* on the code that a route has created, in the last one two onboardings.  *)
(***************************************************************************)
EXTENDS Tenancy, TLC

CONSTANTS t1, t2, k1, k2, a1, r1, s1, c1, c2, c3, c4, none

MCKinds == {c1 :> "onboard" @@ c2 :> "route" @@ c3 :> "claim" @@ c4 :> "claim",
            c1 :> "onboard" @@ c2 :> "route" @@ c3 :> "tenant" @@ c4 :> "route",
            c1 :> "onboard" @@ c2 :> "route" @@ c3 :> "onboard" @@ c4 :> "none"}

\* Tenants and keys are alike, and no property is about liveness.
Symmetry == Permutations({t1, t2}) \cup Permutations({k1, k2})

=============================================================================
