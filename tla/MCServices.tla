----------------------------- MODULE MCServices -----------------------------
(* One tenant that gets a tier whose rates are replaced, back and forth, by  *)
(* ones that are lower for tasks and higher for calls; one call of           *)
(* stripe.ts; tasks taken back through POST /usage; two slugs, a test with   *)
(* two variants and a user beyond their traffic; two schedules and two       *)
(* overlapping ticks; two engines with one log file; all graphs of three     *)
(* rules, and prompts of three fragments with at most two dependencies over  *)
(* three variables.                                                          *)
EXTENDS Services, TLC

CONSTANTS t1, r1, r2, c1, none, key, mock, g1, g2, u1, u2, u3

\* The calls of recordTaskUsage() are alike, and no property is about liveness.
Symmetry == Permutations({r1, r2})

MCRegistrable ==
  {DefaultTiers["pro"], [k \in Kinds |-> CASE k = "task" -> 20 [] k = "api_call" -> 700 [] OTHER -> 0]}
MCBodies == {[kind |-> "task", quantity |-> -20]}

MCVariantOrder == <<"A", "B">>
MCShare == u1 :> "A" @@ u2 :> "B" @@ u3 :> "none"

MCIntervalMs == "often" :> 1 @@ "seldom" :> 2

MCEngineOf == 1 :> "e1" @@ 2 :> "e1" @@ 3 :> "e2"
MCRunId    == 1 :> "i" @@ 2 :> "i" @@ 3 :> "i"

MCWeight   == 1 :> 1 @@ 2 :> 2 @@ 3 :> 1
MCPriority == 1 :> 0 @@ 2 :> 0 @@ 3 :> 1
MCTexts    == {{}, {"a"}, {"b"}, {"c"}, {"a", "b"}}
MCTemplate == 1 :> {"a"} @@ 2 :> {"c"} @@ 3 :> {}
MCDefines  == 1 :> <<>> @@ 2 :> ("a" :> {"b"}) @@ 3 :> ("a" :> {"a", "b"} @@ "b" :> {})
MCBuilds  ==
  [nodes : {{1, 2, 3}, {1, 2}, {2, 3}}, edges : UNION {kSubset(n, NodeIds \X NodeIds) : n \in 0 .. 2}]

=============================================================================
