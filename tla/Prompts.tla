------------------------------ MODULE Prompts ------------------------------
(***************************************************************************)
(* What is worked out from graphs that users write: the rules of a         *)
(* RuleGraph (memory/rule-graph.ts), also those that the compression       *)
(* engine reads out of a document; the fragments that                      *)
(* RecursivePromptSystem.build() puts together                             *)
(* (prompts/recursive-prompt-system.ts); and the variables of a            *)
(* PromptMemory (memory/prompt-memory.ts), whose texts refer to variables. *)
(* Nothing keeps any of them from going round in a circle.                 *)
(*                                                                         *)
(* A text is the set of the variables it refers to; ids are numbers, in    *)
(* the order in which they are sorted.  One rule graph and one prompt are  *)
(* built.  What a token budget cuts off a prompt is not modelled.          *)
(***************************************************************************)
EXTENDS Naturals, Sequences, FiniteSets, SequencesExt

CONSTANTS
  NodeIds,            \* of rules and of fragments
  Weight,             \* of the rules
  Priority,           \* of the fragments
  Template,           \* the texts of the fragments
  Defines,            \* the variables that the fragments bring along
  RootFragment,
  Builds,             \* the fragments that build() may be given: nodes and edges
  VarNames, Texts,
  MaxRecursion        \* MAX_RECURSION

GraphsOn(ids) == [nodes : SUBSET ids, edges : SUBSET (ids \X ids)]

\* Variables with their texts.
Memories == UNION {[names -> Texts] : names \in SUBSET VarNames}

ASSUME PromptsAssumption ==
  /\ NodeIds \subseteq Nat /\ IsFiniteSet(NodeIds) /\ RootFragment \in NodeIds
  /\ Weight \in [NodeIds -> Nat] /\ Priority \in [NodeIds -> Nat]
  /\ IsFiniteSet(VarNames) /\ Texts \subseteq SUBSET VarNames
  /\ Template \in [NodeIds -> Texts]
  /\ Defines \in [NodeIds -> Memories]
  /\ Builds \subseteq GraphsOn(NodeIds)
  /\ MaxRecursion \in Nat

VARIABLES
  ruleGraph,   \* nodes and edges; of: what it was built from
  variables,   \* of the PromptMemory, as far as they are set
  prompt       \* the fragments of build(), given its variables; built: whether there are any

promptVars == <<variables, prompt>>

PromptsInit ==
  /\ ruleGraph = [of |-> "nothing", nodes |-> {}, edges |-> {}]
  /\ variables = <<>>
  /\ prompt = [built |-> FALSE, nodes |-> {}, edges |-> {}]

-----------------------------------------------------------------------------
(* Lists of ids, and the walk that topologicalOrder() and                  *)
(* resolveFragmentOrder() share.                                           *)

\* forEach: a step, which is a function, from one id to the next.
Through(step, start, ids) == FoldLeft(LAMBDA x, id : step[<<x, id>>], start, ids)

\* sort(): by descending key, then by id; the n-th is what n - 1 others precede.
SortedBy(ids, key) ==
  LET Precedes(m, n) == key[m] > key[n] \/ (key[m] = key[n] /\ m < n)
  IN [n \in 1 .. Cardinality(ids) |->
        CHOOSE id \in ids : Cardinality({m \in ids : Precedes(m, id)}) = n - 1]

SortedById(ids) == SortedBy(ids, [id \in ids |-> 0])

Walks == [visiting : SUBSET NodeIds, visited : SUBSET NodeIds, order : Seq(NodeIds)]

NoWalk == [visiting |-> {}, visited |-> {}, order |-> <<>>]

Listing(order, id, listed) == IF id \in listed THEN Append(order, id) ELSE order

\* Mutant of PostOrder: an id is listed before what is below it.
PreOrder(below, starts, listed) ==
  LET visit[at \in Walks \X NodeIds] ==
        LET walk == at[1]
            id   == at[2]
            done == Through(visit, [walk EXCEPT !.visiting = @ \cup {id},
                                                !.order    = Listing(@, id, listed)], below[id])
        IN IF id \in walk.visiting \cup walk.visited THEN walk
           ELSE [done EXCEPT !.visiting = @ \ {id}, !.visited = @ \cup {id}]
  IN Through(visit, NoWalk, starts).order

\* visit(): an id is listed when all that is below it has been visited, and
\* is not visited again, be it listed or still on the way.
PostOrder(below, starts, listed) ==
  LET visit[at \in Walks \X NodeIds] ==
        LET walk == at[1]
            id   == at[2]
            done == Through(visit, [walk EXCEPT !.visiting = @ \cup {id}], below[id])
        IN IF id \in walk.visiting \cup walk.visited THEN walk
           ELSE [visiting |-> done.visiting \ {id}, visited |-> done.visited \cup {id},
                 order    |-> Listing(done.order, id, listed)]
  IN Through(visit, NoWalk, starts).order

Successors(graph, id) == {to \in NodeIds : <<id, to>> \in graph.edges}

-----------------------------------------------------------------------------
(* Rules.                                                                  *)

\* children(), sorted; an edge may end at an id that no node has.
Children(id) == SortedById(Successors(ruleGraph, id))

\* roots(): an edge into a node counts even if no node is where it begins.
Roots == SortedById({n \in ruleGraph.nodes : \A id \in NodeIds : <<id, n>> \notin ruleGraph.edges})

TopologicalOrder == Reverse(PostOrder([id \in NodeIds |-> Children(id)], Roots, NodeIds))

\* evaluate(): the rules in the order whose condition holds, by weight and id.
Evaluate(holding) == SortedBy(Range(TopologicalOrder) \cap ruleGraph.nodes \cap holding, Weight)

\* new RuleGraph(data).
NewRuleGraph(graph, of) ==
  /\ ruleGraph.of = "nothing"
  /\ ruleGraph' = [of |-> of, nodes |-> graph.nodes, edges |-> graph.edges]
  /\ UNCHANGED promptVars

\* docsToRuleGraph(): a rule in some of the lines, each with an edge to the next.
DocumentGraph(lines) ==
  [nodes |-> lines,
   edges |-> {e \in lines \X lines : e[1] < e[2] /\ \A k \in lines : k <= e[1] \/ e[2] <= k}]

RulesNext ==
  \/ \E graph \in GraphsOn(NodeIds) : NewRuleGraph(graph, "data")
  \/ \E lines \in SUBSET NodeIds : NewRuleGraph(DocumentGraph(lines), "document")

-----------------------------------------------------------------------------
(* Variables and prompts.                                                  *)

SetVariable(name, text) ==
  /\ ~prompt.built
  /\ variables' = [n \in DOMAIN variables \cup {name} |-> IF n = name THEN text ELSE variables[n]]
  /\ UNCHANGED <<ruleGraph, prompt>>

DeleteVariable(name) ==
  /\ ~prompt.built /\ name \in DOMAIN variables
  /\ variables' = [n \in DOMAIN variables \ {name} |-> variables[n]]
  /\ UNCHANGED <<ruleGraph, prompt>>

\* The arguments of resolve(): a text, in variables that refer to it, at a depth.
Places == [text : SUBSET VarNames, seen : SUBSET VarNames, depth : 0 .. MaxRecursion]

Left(texts, cycle) == {[name |-> v, cycle |-> cycle] : v \in texts}

\* Mutant of Resolve: a variable is compared with the one it stands in only.
ResolveSeeingOne(vars, text) ==
  LET left[at \in Places] ==
        IF at.depth = MaxRecursion THEN Left(at.text, FALSE)
        ELSE Left(at.text \cap at.seen, TRUE)
             \cup Left(at.text \ (at.seen \cup DOMAIN vars), FALSE)
             \cup UNION {left[[text |-> vars[v], seen |-> {v}, depth |-> at.depth + 1]] :
                         v \in (at.text \cap DOMAIN vars) \ at.seen}
  IN left[[text |-> text, seen |-> {}, depth |-> 0]]

\* resolve(): the references that are left in a text, as they were or as cycles.
Resolve(vars, text) ==
  LET left[at \in Places] ==
        IF at.depth = MaxRecursion THEN Left(at.text, FALSE)
        ELSE Left(at.text \cap at.seen, TRUE)
             \cup Left(at.text \ (at.seen \cup DOMAIN vars), FALSE)
             \cup UNION {left[[text |-> vars[v], seen |-> at.seen \cup {v}, depth |-> at.depth + 1]] :
                         v \in (at.text \cap DOMAIN vars) \ at.seen}
  IN left[[text |-> text, seen |-> {}, depth |-> 0]]

\* What a fragment depends on, by priority and id; an undefined fragment has
\* priority 0 and depends on nothing.
Dependencies(id) ==
  IF id \notin prompt.nodes THEN <<>>
  ELSE SortedBy(Successors(prompt, id),
                [f \in NodeIds |-> IF f \in prompt.nodes THEN Priority[f] ELSE 0])

\* resolveFragmentOrder(): undefined fragments are visited, and not listed.
FragmentOrder == PostOrder([id \in NodeIds |-> Dependencies(id)], <<RootFragment>>, prompt.nodes)

\* A fragment's variables are set where none of that name is set yet.
Hydrate[at \in Memories \X NodeIds] ==
  [n \in DOMAIN at[1] \cup DOMAIN Defines[at[2]] |->
     IF n \in DOMAIN at[1] THEN at[1][n] ELSE Defines[at[2]][n]]

\* The variables a prompt is made with: the caller's, then those of the fragments
\* in their order.
Hydrated == Through(Hydrate, variables, FragmentOrder)

\* The references left in a prompt: unresolvedVariables are those that are not cycles.
LeftInPrompt == UNION {Resolve(Hydrated, Template[id]) : id \in Range(FragmentOrder)}

Build(fragments) ==
  /\ ~prompt.built
  /\ prompt' = [built |-> TRUE, nodes |-> fragments.nodes, edges |-> fragments.edges]
  /\ UNCHANGED <<ruleGraph, variables>>

PromptsNext ==
  \/ \E name \in VarNames : DeleteVariable(name) \/ \E text \in Texts : SetVariable(name, text)
  \/ \E fragments \in Builds : Build(fragments)

-----------------------------------------------------------------------------
(* Properties.                                                             *)

\* Where paths lead that begin in a set: whatever no edge leaves.
Reached(nodes, edges, from) ==
  {n \in nodes : \A closed \in SUBSET nodes :
     from \subseteq closed /\ (\A e \in edges : e[1] \in closed => e[2] \in closed) => n \in closed}

\* An order lists what it has to, once, and the first end of an edge before the
\* second, unless the two are on a circle.
Respects(order, listed, edges) ==
  /\ Len(order) = Cardinality(listed) /\ Range(order) = listed
  /\ \A i, j \in DOMAIN order :
       <<order[i], order[j]>> \in edges /\ order[i] \notin Reached(NodeIds, edges, {order[j]}) => i < j

\* Whatever circles and dangling references there are, the walks come to an end
\* with an order that respects all others: rules follow what implies them, and
\* a fragment what it depends on.  A rule on a circle that no root leads to is
\* never evaluated (rule-graph.ts:77); every rule of a document is.
OrdersRespectEdges ==
  /\ ruleGraph.of # "nothing" =>
       Respects(TopologicalOrder, Reached(NodeIds, ruleGraph.edges, Range(Roots)), ruleGraph.edges)
  /\ ruleGraph.of = "document" => Range(Evaluate(NodeIds)) = ruleGraph.nodes
  /\ prompt.built =>
       LET known == {e \in prompt.edges : e[1] \in prompt.nodes}
       IN Respects(FragmentOrder, prompt.nodes \cap Reached(NodeIds, known, {RootFragment}),
                   {<<e[2], e[1]>> : e \in known})

\* What may be left of a text: a reference to what is not set, and a mark where
\* variables refer to each other in a circle.  It is exactly this, with a mark on
\* every circle, as long as there are fewer than MaxRecursion variables
\* (prompt-memory.ts:38); with more, a reference to one that is set may be left.
LeavesWhatIsUnset(vars, text, left) ==
  LET refs    == {ref \in (DOMAIN vars) \X VarNames : ref[2] \in vars[ref[1]]}
      reached == Reached(VarNames, refs, text)
      circles == {v \in reached \cap DOMAIN vars : v \in Reached(VarNames, refs, vars[v])}
      marked  == {l.name : l \in {k \in left : k.cycle}}
      plain   == {l.name : l \in {k \in left : ~k.cycle}}
  IN /\ plain \subseteq reached /\ marked \subseteq circles
     /\ Cardinality(DOMAIN vars) < MaxRecursion =>
          /\ plain = reached \ DOMAIN vars
          /\ marked = {} <=> circles = {}

ReferencesAreResolved ==
  /\ DOMAIN variables # {} =>
       \A text \in Texts : LeavesWhatIsUnset(variables, text, Resolve(variables, text))
  /\ prompt.built =>
       LeavesWhatIsUnset(Hydrated, UNION {Template[id] : id \in Range(FragmentOrder)}, LeftInPrompt)

=============================================================================
