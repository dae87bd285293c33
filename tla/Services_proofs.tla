-------------------------- MODULE Services_proofs --------------------------
(***************************************************************************)
(* What holds of billing, growth, schedules, the execution log, rules and  *)
(* prompts for any sets of tenants, runs, calls, pages, users, schedules   *)
(* and engines, any graphs and texts, and any bounds.  Each service has an *)
(* inductive invariant of its own, which all others leave alone.           *)
(*                                                                         *)
(* Bills, views and engines are added up with SumFunction.  What its       *)
(* recursion computes is shown without induction: a set for which it       *)
(* computed something else would have a smallest one within it.  The walks *)
(* of the rules and fragments, and resolve(), are recursive as well: that  *)
(* they end, and where, is shown from the least number of ids or depths    *)
(* left for which it would not hold.                                       *)
(***************************************************************************)
EXTENDS Services, FiniteSetTheorems, WellFoundedInduction, TLAPS

-----------------------------------------------------------------------------
(* Sums.                                                                   *)

\* A set of naturals that is not empty has a least element.
LEMMA LeastNat ==
  ASSUME NEW S \in SUBSET Nat, S # {} PROVE \E n \in S : \A m \in S : n <= m
<1> DEFINE R == {p \in Nat \X Nat : p[1] < p[2]}
<1>1. IsWellFoundedOn(OpToRel(<, Nat), Nat)
  BY NatLessThanWellFounded
<1>2. OpToRel(<, Nat) = R
  BY DEF OpToRel
<1>3. PICK n \in S : \A m \in S : ~(<<m, n>> \in R)
  <2> HIDE DEF R
  <2> QED
    BY <1>1, <1>2, WFMin
<1>4. ASSUME NEW m \in S PROVE n <= m
  <2>1. <<m, n>> \in Nat \X Nat /\ <<m, n>>[1] = m /\ <<m, n>>[2] = n
    OBVIOUS
  <2>2. ~(m < n)
    BY <1>3, <2>1
  <2> QED
    BY <2>2
<1> QED
  BY <1>4

\* The element of a set that a sum takes first.
Pick(s) == CHOOSE x \in s : TRUE

\* The equation of the sums of w over the sets in D.
IsSum(g, w, D) ==
  g = [s \in D |-> IF s = {} THEN 0 ELSE w[Pick(s)] + g[s \ {Pick(s)}]]

\* The equation over all parts of a set.
SumsIn(g, w, S) == IsSum(g, w, SUBSET S)

UpTo(S, n) == {s \in SUBSET S : Cardinality(s) <= n}

LEMMA PickIsIn == ASSUME NEW s, s # {} PROVE Pick(s) \in s
BY DEF Pick

LEMMA SmallerSet ==
  ASSUME NEW s, IsFiniteSet(s), NEW x \in s
  PROVE  IsFiniteSet(s \ {x}) /\ Cardinality(s \ {x}) \in Nat /\ Cardinality(s) = Cardinality(s \ {x}) + 1
<1>1. IsFiniteSet(s \ {x}) /\ Cardinality(s \ {x}) = Cardinality(s) - 1
  BY FS_RemoveElement
<1>2. Cardinality(s \ {x}) \in Nat /\ Cardinality(s) \in Nat
  BY <1>1, FS_CardinalityType
<1> QED
  BY <1>1, <1>2

\* The sets of SumsIn are what they are for.
LEMMA SumsUpTo ==
  ASSUME NEW S, IsFiniteSet(S), NEW w
  PROVE  \A n \in Nat : \E g : IsSum(g, w, UpTo(S, n))
<1> DEFINE Bad == {n \in Nat : ~\E g : IsSum(g, w, UpTo(S, n))}
<1>1. SUFFICES ASSUME Bad # {} PROVE FALSE
  OBVIOUS
<1>2. PICK n \in Bad : \A m \in Bad : n <= m
  <2> HIDE DEF Bad
  <2>1. Bad \in SUBSET Nat
    BY DEF Bad
  <2> QED
    BY <1>1, <2>1, LeastNat
<1>3. ASSUME NEW s \in SUBSET S PROVE IsFiniteSet(s) /\ Cardinality(s) \in Nat
  BY FS_Subset, FS_CardinalityType
<1>4. n # 0
  <2>1. SUFFICES ASSUME n = 0 PROVE FALSE
    OBVIOUS
  <2>2. UpTo(S, 0) = {{}}
    <3>1. ASSUME NEW s \in SUBSET S, Cardinality(s) <= 0 PROVE s = {}
      <4>1. Cardinality(s) = 0
        BY <1>3, <3>1
      <4> QED
        BY <1>3, <4>1, FS_EmptySet
    <3> QED
      <4>1. {} \in SUBSET S /\ Cardinality({}) <= 0
        BY FS_EmptySet
      <4> QED
        BY <3>1, <4>1 DEF UpTo
  <2>3. IsSum([s \in {{}} |-> 0], w, {{}})
    BY DEF IsSum
  <2> QED
    BY <2>1, <2>2, <2>3, <1>2
<1>5. PICK g : IsSum(g, w, UpTo(S, n - 1))
  <2>1. n - 1 \in Nat /\ n - 1 \notin Bad
    BY <1>2, <1>4
  <2> QED
    BY <2>1
<1> DEFINE h == [s \in UpTo(S, n) |-> IF s = {} THEN 0 ELSE w[Pick(s)] + g[s \ {Pick(s)}]]
<1>6. ASSUME NEW s \in UpTo(S, n), s # {} PROVE s \ {Pick(s)} \in UpTo(S, n - 1)
  <2>1. Pick(s) \in s
    BY <1>6, PickIsIn
  <2>2. IsFiniteSet(s) /\ s \in SUBSET S /\ Cardinality(s) <= n
    BY <1>3 DEF UpTo
  <2>3. Cardinality(s \ {Pick(s)}) \in Nat /\ Cardinality(s) = Cardinality(s \ {Pick(s)}) + 1
    BY <2>1, <2>2, SmallerSet
  <2> QED
    BY <2>2, <2>3, <1>2 DEF UpTo
<1>7. UpTo(S, n - 1) \subseteq UpTo(S, n)
  BY <1>2, <1>3 DEF UpTo
<1>8. ASSUME NEW s \in UpTo(S, n - 1) PROVE h[s] = g[s]
  <2>1. g[s] = IF s = {} THEN 0 ELSE w[Pick(s)] + g[s \ {Pick(s)}]
    BY <1>5, Zenon DEF IsSum
  <2>2. s \in UpTo(S, n)
    BY <1>7
  <2> QED
    BY <2>1, <2>2, Zenon
<1>9. h = [s \in UpTo(S, n) |-> IF s = {} THEN 0 ELSE w[Pick(s)] + h[s \ {Pick(s)}]]
  <2>1. ASSUME NEW s \in UpTo(S, n), s # {} PROVE h[s \ {Pick(s)}] = g[s \ {Pick(s)}]
    BY <1>6, <1>8, <2>1, Zenon
  <2> QED
    BY <2>1
<1>10. IsSum(h, w, UpTo(S, n))
  BY <1>9 DEF IsSum
<1> QED
  BY <1>10, <1>2

\* SumFunctionOnSet solves the equation, on all subsets of a finite set.
LEMMA SumEquation ==
  ASSUME NEW S, IsFiniteSet(S), NEW w
  PROVE  \E g : SumsIn(g, w, S) /\ SumFunctionOnSet(w, S) = g[S]
<1>1. UpTo(S, Cardinality(S)) = SUBSET S
  BY FS_Subset DEF UpTo
<1>2. \E g : SumsIn(g, w, S)
  <2>1. Cardinality(S) \in Nat
    BY FS_CardinalityType
  <2>2. \E g : IsSum(g, w, UpTo(S, Cardinality(S)))
    BY <2>1, SumsUpTo
  <2> QED
    BY <1>1, <2>2 DEF SumsIn
<1> DEFINE iter == CHOOSE g : g = [s \in SUBSET S |-> IF s = {} THEN 0 ELSE w[Pick(s)] + g[s \ {Pick(s)}]]
<1>3. SumsIn(iter, w, S)
  BY <1>2 DEF SumsIn, IsSum
<1>4. SumFunctionOnSet(w, S) = iter[S]
  BY DEF SumFunctionOnSet, FoldFunctionOnSet, MapThenFoldSet, Pick
<1> QED
  BY <1>3, <1>4

\* Among sets there is a smallest one: the way by which statements about finite
\* sets are proved.
LEMMA SmallestSet ==
  ASSUME NEW S, IsFiniteSet(S), NEW B \in SUBSET (SUBSET S), B # {}
  PROVE  \E s \in B : IsFiniteSet(s) /\ \A x \in s : s \ {x} \notin B
<1> DEFINE N == {Cardinality(s) : s \in B}
<1>1. ASSUME NEW s \in B PROVE IsFiniteSet(s) /\ Cardinality(s) \in Nat
  BY FS_Subset, FS_CardinalityType
<1>2. N \in SUBSET Nat /\ N # {}
  BY <1>1
<1>3. PICK n \in N : \A m \in N : n <= m
  <2> HIDE DEF N
  <2> QED
    BY <1>2, LeastNat
<1>4. PICK s \in B : Cardinality(s) = n
  BY <1>3
<1>5. ASSUME NEW x \in s, s \ {x} \in B PROVE FALSE
  <2>1. Cardinality(s \ {x}) \in Nat /\ Cardinality(s) = Cardinality(s \ {x}) + 1
    BY <1>1, SmallerSet
  <2>2. Cardinality(s) <= Cardinality(s \ {x})
    BY <1>3, <1>4, <1>5
  <2> QED
    BY <2>1, <2>2
<1> QED
  BY <1>1, <1>5

\* A solution on a set is one on every part of it, whatever the weights outside.
LEMMA SumsAgree ==
  ASSUME NEW S, IsFiniteSet(S), NEW T, T \subseteq S, NEW w, NEW v, \A x \in T : w[x] = v[x],
         NEW g, SumsIn(g, w, S)
  PROVE  g[T] = SumFunctionOnSet(v, T)
<1>0. IsFiniteSet(T)
  BY FS_Subset
<1>h. PICK h : SumsIn(h, v, T) /\ SumFunctionOnSet(v, T) = h[T]
  BY <1>0, SumEquation
<1> DEFINE B == {s \in SUBSET T : g[s] # h[s]}
<1>1. SUFFICES ASSUME B # {} PROVE FALSE
  <2>1. T \in SUBSET T
    OBVIOUS
  <2> QED
    BY <1>h, <2>1
<1>2. PICK s \in B : IsFiniteSet(s) /\ \A x \in s : s \ {x} \notin B
  <2> HIDE DEF B
  <2>1. B \in SUBSET (SUBSET S)
    BY DEF B
  <2> QED
    BY <1>1, <2>1, SmallestSet
<1>3. /\ g[s] = IF s = {} THEN 0 ELSE w[Pick(s)] + g[s \ {Pick(s)}]
      /\ h[s] = IF s = {} THEN 0 ELSE v[Pick(s)] + h[s \ {Pick(s)}]
  <2>1. s \in SUBSET S /\ s \in SUBSET T
    OBVIOUS
  <2> QED
    BY <1>h, <2>1, Zenon DEF SumsIn, IsSum
<1>4. s # {}
  BY <1>3
<1>5. Pick(s) \in s
  BY <1>4, PickIsIn
<1>6. g[s \ {Pick(s)}] = h[s \ {Pick(s)}]
  BY <1>2, <1>5
<1>7. w[Pick(s)] = v[Pick(s)]
  BY <1>5
<1>8. g[s] = h[s]
  BY <1>3, <1>4, <1>6, <1>7, Zenon
<1> QED
  BY <1>8

\* The sum of nothing.
LEMMA SumOfNone == ASSUME NEW w PROVE SumFunctionOnSet(w, {}) = 0
<1>1. PICK g : SumsIn(g, w, {}) /\ SumFunctionOnSet(w, {}) = g[{}]
  BY SumEquation, FS_EmptySet
<1>2. g[{}] = 0
  <2>1. {} \in SUBSET {}
    OBVIOUS
  <2> QED
    BY <1>1, <2>1, Zenon DEF SumsIn, IsSum
<1> QED
  BY <1>1, <1>2

LEMMA SumOfSame ==
  ASSUME NEW S, IsFiniteSet(S), NEW w, NEW v, \A x \in S : w[x] = v[x]
  PROVE  SumFunctionOnSet(w, S) = SumFunctionOnSet(v, S)
<1>1. PICK g : SumsIn(g, w, S) /\ SumFunctionOnSet(w, S) = g[S]
  BY SumEquation
<1>2. S \in SUBSET S
  OBVIOUS
<1>3. g[S] = SumFunctionOnSet(v, S)
  BY <1>1, <1>2, SumsAgree
<1> QED
  BY <1>1, <1>3

\* The first element taken, and what is left.
LEMMA SumOfPick ==
  ASSUME NEW S, IsFiniteSet(S), S # {}, NEW w
  PROVE  SumFunctionOnSet(w, S) = w[Pick(S)] + SumFunctionOnSet(w, S \ {Pick(S)})
<1>1. PICK g : SumsIn(g, w, S) /\ SumFunctionOnSet(w, S) = g[S]
  BY SumEquation
<1>2. PICK T \in SUBSET S : T = S \ {Pick(S)}
  OBVIOUS
<1>3. g[T] = SumFunctionOnSet(w, T)
  BY <1>1, SumsAgree
<1>4. g[S] = w[Pick(S)] + g[T]
  <2>1. S \in SUBSET S
    OBVIOUS
  <2> QED
    BY <1>1, <1>2, <2>1, Zenon DEF SumsIn, IsSum
<1> QED
  BY <1>1, <1>2, <1>3, <1>4

\* A sum of integers is an integer.
LEMMA SumIsInt ==
  ASSUME NEW S, IsFiniteSet(S), NEW w, \A x \in S : w[x] \in Int
  PROVE  SumFunctionOnSet(w, S) \in Int
<1> DEFINE B == {s \in SUBSET S : SumFunctionOnSet(w, s) \notin Int}
<1>1. SUFFICES ASSUME B # {} PROVE FALSE
  OBVIOUS
<1>2. PICK s \in B : IsFiniteSet(s) /\ \A x \in s : s \ {x} \notin B
  <2> HIDE DEF B
  <2>1. B \in SUBSET (SUBSET S)
    BY DEF B
  <2> QED
    BY <1>1, <2>1, SmallestSet
<1>3. s # {}
  BY SumOfNone
<1>4. Pick(s) \in s
  BY <1>3, PickIsIn
<1>5. SumFunctionOnSet(w, s \ {Pick(s)}) \in Int /\ w[Pick(s)] \in Int
  BY <1>2, <1>4
<1>6. SumFunctionOnSet(w, s) = w[Pick(s)] + SumFunctionOnSet(w, s \ {Pick(s)})
  BY <1>2, <1>3, SumOfPick
<1> QED
  BY <1>5, <1>6

\* In which order the elements are taken does not matter.
LEMMA SumOfRest ==
  ASSUME NEW S, IsFiniteSet(S), NEW w, \A x \in S : w[x] \in Int, NEW a \in S
  PROVE  SumFunctionOnSet(w, S) = w[a] + SumFunctionOnSet(w, S \ {a})
<1> DEFINE B == {s \in SUBSET S : \E x \in s : SumFunctionOnSet(w, s) # w[x] + SumFunctionOnSet(w, s \ {x})}
<1>1. SUFFICES ASSUME B # {} PROVE FALSE
  OBVIOUS
<1>2. PICK s \in B : IsFiniteSet(s) /\ \A x \in s : s \ {x} \notin B
  <2> HIDE DEF B
  <2>1. B \in SUBSET (SUBSET S)
    BY DEF B
  <2> QED
    BY <1>1, <2>1, SmallestSet
<1>3. PICK x \in s : SumFunctionOnSet(w, s) # w[x] + SumFunctionOnSet(w, s \ {x})
  BY <1>2
<1> DEFINE p == Pick(s)
<1>4. p \in s /\ SumFunctionOnSet(w, s) = w[p] + SumFunctionOnSet(w, s \ {p})
  BY <1>2, <1>3, PickIsIn, SumOfPick
<1> HIDE DEF p
<1>5. p # x
  BY <1>3, <1>4
<1>6. SumFunctionOnSet(w, s \ {p}) = w[x] + SumFunctionOnSet(w, (s \ {p}) \ {x})
  BY <1>2, <1>4, <1>5
<1>7. SumFunctionOnSet(w, s \ {x}) = w[p] + SumFunctionOnSet(w, (s \ {x}) \ {p})
  BY <1>2, <1>4, <1>5
<1>8. (s \ {p}) \ {x} = (s \ {x}) \ {p}
  OBVIOUS
<1>9. w[p] \in Int /\ w[x] \in Int /\ SumFunctionOnSet(w, (s \ {x}) \ {p}) \in Int
  <2>1. (s \ {x}) \ {p} \in SUBSET S
    OBVIOUS
  <2>2. IsFiniteSet((s \ {x}) \ {p})
    BY <2>1, FS_Subset
  <2> QED
    BY <1>4, <2>1, <2>2, SumIsInt
<1> DEFINE a1 == w[p]
           a2 == w[x]
           t == SumFunctionOnSet(w, (s \ {x}) \ {p})
<1>10. SumFunctionOnSet(w, s) = a1 + (a2 + t) /\ SumFunctionOnSet(w, s \ {x}) = a1 + t
  BY <1>4, <1>6, <1>7, <1>8
<1>11. SumFunctionOnSet(w, s) # a2 + (a1 + t)
  BY <1>3, <1>10
<1>12. a1 \in Int /\ a2 \in Int /\ t \in Int
  BY <1>9
<1> HIDE DEF a1, a2, t
<1> QED
  BY <1>10, <1>11, <1>12

\* Weights that differ by no more than k each make sums that differ by no more
\* than k for every element.
LEMMA SumsAreNear ==
  ASSUME NEW S, IsFiniteSet(S), NEW w, NEW v, NEW k \in Int,
         \A x \in S : w[x] \in Int /\ v[x] \in Int /\ w[x] <= v[x] + k
  PROVE  SumFunctionOnSet(w, S) <= SumFunctionOnSet(v, S) + k * Cardinality(S)
<1> DEFINE B == {s \in SUBSET S : ~(SumFunctionOnSet(w, s) <= SumFunctionOnSet(v, s) + k * Cardinality(s))}
<1>1. SUFFICES ASSUME B # {} PROVE FALSE
  OBVIOUS
<1>2. PICK s \in B : IsFiniteSet(s) /\ \A x \in s : s \ {x} \notin B
  <2> HIDE DEF B
  <2>1. B \in SUBSET (SUBSET S)
    BY DEF B
  <2> QED
    BY <1>1, <2>1, SmallestSet
<1>3. s # {}
  <2>1. SumFunctionOnSet(w, {}) = 0 /\ SumFunctionOnSet(v, {}) = 0 /\ Cardinality({}) = 0
    BY SumOfNone, FS_EmptySet
  <2> QED
    BY <1>2, <2>1
<1>4. PICK x \in s : TRUE
  BY <1>3
<1>5. x \in S /\ s \ {x} \in SUBSET S
  OBVIOUS
<1> DEFINE r == s \ {x}
           wr == SumFunctionOnSet(w, r)
           vr == SumFunctionOnSet(v, r)
           n == Cardinality(r)
<1>6. IsFiniteSet(r) /\ n \in Nat /\ Cardinality(s) = n + 1
  BY <1>2, SmallerSet
<1>7. SumFunctionOnSet(w, s) = w[x] + wr /\ SumFunctionOnSet(v, s) = v[x] + vr
  BY <1>2, <1>5, SumOfRest
<1>8. wr \in Int /\ vr \in Int
  BY <1>5, <1>6, SumIsInt
<1>9. wr <= vr + k * n
  BY <1>2, <1>5
<1>10. w[x] \in Int /\ v[x] \in Int /\ w[x] <= v[x] + k
  BY <1>5
<1>11. ~(w[x] + wr <= v[x] + vr + k * (n + 1))
  BY <1>6, <1>7
<1> HIDE DEF r, wr, vr, n
<1>12. k * n \in Int /\ k * (n + 1) = k * n + k
  BY <1>6
<1> QED
  BY <1>6, <1>8, <1>9, <1>10, <1>11, <1>12

\* A sum of larger numbers is larger.
LEMMA SumIsMonotone ==
  ASSUME NEW S, IsFiniteSet(S), NEW w, NEW v, \A x \in S : w[x] \in Int /\ v[x] \in Int /\ w[x] <= v[x]
  PROVE  SumFunctionOnSet(w, S) <= SumFunctionOnSet(v, S)
<1>1. \A x \in S : w[x] \in Int /\ v[x] \in Int /\ w[x] <= v[x] + 0
  OBVIOUS
<1>2. SumFunctionOnSet(w, S) <= SumFunctionOnSet(v, S) + 0 * Cardinality(S)
  <2>1. 0 \in Int
    OBVIOUS
  <2> QED
    BY <1>1, <2>1, SumsAreNear, Zenon
<1>3. 0 * Cardinality(S) = 0
  BY FS_CardinalityType
<1>4. SumFunctionOnSet(v, S) \in Int
  BY SumIsInt
<1> QED
  BY <1>2, <1>3, <1>4

\* A sum over keys instead of what has the keys; what no key leads to weighs
\* nothing.
LEMMA SumByKey ==
  ASSUME NEW S, IsFiniteSet(S), NEW T, IsFiniteSet(T), NEW w, NEW v, NEW key,
         \A x \in S : key[x] \in T /\ w[x] \in Int /\ v[key[x]] = w[x],
         \A x, y \in S : key[x] = key[y] => x = y,
         \A t \in T : (\A x \in S : key[x] # t) => v[t] = 0
  PROVE  SumFunctionOnSet(w, S) = SumFunctionOnSet(v, T)
<1>0. \A t \in T : v[t] \in Int
  OBVIOUS
<1> DEFINE Keys(s) == {key[x] : x \in s}
           B == {s \in SUBSET S : SumFunctionOnSet(w, s) # SumFunctionOnSet(v, Keys(s))}
<1>1. SumFunctionOnSet(w, S) = SumFunctionOnSet(v, Keys(S))
  <2>1. SUFFICES ASSUME B # {} PROVE FALSE
    <3>1. S \in SUBSET S
      OBVIOUS
    <3> QED
      BY <3>1
  <2>2. PICK s \in B : IsFiniteSet(s) /\ \A x \in s : s \ {x} \notin B
    <3> HIDE DEF B
    <3>1. B \in SUBSET (SUBSET S)
      BY DEF B
    <3> QED
      BY <2>1, <3>1, SmallestSet
  <2>3. s # {}
    <3>1. Keys({}) = {}
      OBVIOUS
    <3>2. SumFunctionOnSet(w, {}) = 0 /\ SumFunctionOnSet(v, {}) = 0
      BY SumOfNone
    <3> QED
      BY <2>2, <3>1, <3>2
  <2>4. PICK x \in s : TRUE
    BY <2>3
  <2>5. /\ Keys(s \ {x}) = Keys(s) \ {key[x]} /\ key[x] \in Keys(s)
        /\ Keys(s) \subseteq T /\ s \ {x} \in SUBSET S
    OBVIOUS
  <2>6. IsFiniteSet(Keys(s))
    BY <2>5, FS_Subset
  <2>7. SumFunctionOnSet(w, s) = w[x] + SumFunctionOnSet(w, s \ {x})
    BY <2>2, SumOfRest
  <2>8. SumFunctionOnSet(v, Keys(s)) = v[key[x]] + SumFunctionOnSet(v, Keys(s) \ {key[x]})
    <3> HIDE DEF Keys
    <3>1. \A t \in Keys(s) : v[t] \in Int
      BY <1>0, <2>5
    <3> QED
      BY <2>5, <2>6, <3>1, SumOfRest
  <2>9. SumFunctionOnSet(w, s \ {x}) = SumFunctionOnSet(v, Keys(s \ {x}))
    BY <2>2, <2>5
  <2>10. v[key[x]] = w[x]
    OBVIOUS
  <2> QED
    BY <2>2, <2>5, <2>7, <2>8, <2>9, <2>10
<1>2. SumFunctionOnSet(v, Keys(S)) = SumFunctionOnSet(v, T)
  <2> DEFINE M == Keys(S)
             C == {t \in SUBSET (T \ M) : SumFunctionOnSet(v, M \cup t) # SumFunctionOnSet(v, M)}
  <2>1. M \subseteq T /\ IsFiniteSet(T \ M) /\ \A t \in T \ M : v[t] = 0
    <3>1. M \subseteq T /\ \A t \in T \ M : v[t] = 0
      OBVIOUS
    <3>2. T \ M \in SUBSET T
      OBVIOUS
    <3> QED
      BY <3>1, <3>2, FS_Subset
  <2> HIDE DEF M
  <2>2. C = {}
    <3>1. SUFFICES ASSUME C # {} PROVE FALSE
      OBVIOUS
    <3>2. PICK t \in C : IsFiniteSet(t) /\ \A x \in t : t \ {x} \notin C
      <4> HIDE DEF C
      <4>1. C \in SUBSET (SUBSET (T \ M))
        BY DEF C
      <4> QED
        BY <2>1, <3>1, <4>1, SmallestSet
    <3>3. t # {}
      <4>1. M \cup {} = M
        OBVIOUS
      <4> QED
        BY <3>2, <4>1
    <3>4. PICK x \in t : TRUE
      BY <3>3
    <3>5. /\ x \in T \ M /\ t \ {x} \in SUBSET (T \ M) /\ (M \cup t) \ {x} = M \cup (t \ {x})
          /\ M \cup t \in SUBSET T /\ M \cup (t \ {x}) \in SUBSET T /\ x \in M \cup t
      BY <2>1
    <3>6. IsFiniteSet(M \cup t) /\ IsFiniteSet(M \cup (t \ {x}))
      BY <3>5, FS_Subset
    <3>7. \A y \in M \cup t : v[y] \in Int
      BY <1>0, <3>5
    <3>8. SumFunctionOnSet(v, M \cup t) = v[x] + SumFunctionOnSet(v, (M \cup t) \ {x})
      BY <3>5, <3>6, <3>7, SumOfRest
    <3>9. SumFunctionOnSet(v, M \cup (t \ {x})) = SumFunctionOnSet(v, M)
      BY <3>2, <3>5
    <3>10. SumFunctionOnSet(v, M \cup (t \ {x})) \in Int
      <4>1. \A y \in M \cup (t \ {x}) : v[y] \in Int
        BY <3>7
      <4> QED
        BY <3>6, <4>1, SumIsInt
    <3>11. SumFunctionOnSet(v, M \cup t) = SumFunctionOnSet(v, M)
      <4>1. v[x] = 0
        BY <2>1, <3>5
      <4>2. SumFunctionOnSet(v, M \cup t) = 0 + SumFunctionOnSet(v, M \cup (t \ {x}))
        BY <3>5, <3>8, <4>1
      <4> QED
        BY <3>9, <3>10, <4>2
    <3> QED
      BY <3>2, <3>11
  <2>3. M \cup (T \ M) = T /\ T \ M \in SUBSET (T \ M)
    BY <2>1
  <2>4. SumFunctionOnSet(v, M \cup (T \ M)) = SumFunctionOnSet(v, M)
    BY <2>2, <2>3
  <2> QED
    BY <2>3, <2>4 DEF M
<1> QED
  BY <1>1, <1>2

-----------------------------------------------------------------------------
(* Prices.                                                                 *)

UsageRecords == [kind : Kinds, quantity : Int, of : Runs \cup {None}]

\* What the loop of createInvoice() charges for a record that costs this much.
Charge(cost) == Debit(Cents(cost))

\* A factor may be taken out of a sum.
LEMMA SumOfMultiples ==
  ASSUME NEW S, IsFiniteSet(S), NEW w, \A x \in S : w[x] \in Int, NEW k \in Int
  PROVE  SumFunctionOnSet([x \in S |-> k * w[x]], S) = k * SumFunctionOnSet(w, S)
<1> DEFINE v == [x \in S |-> k * w[x]]
           B == {s \in SUBSET S : SumFunctionOnSet(v, s) # k * SumFunctionOnSet(w, s)}
<1>0. \A x \in S : v[x] \in Int /\ v[x] = k * w[x]
  OBVIOUS
<1> HIDE DEF v
<1>1. SUFFICES ASSUME B # {} PROVE FALSE
  <2>1. S \in SUBSET S
    OBVIOUS
  <2>2. SumFunctionOnSet(v, S) = k * SumFunctionOnSet(w, S)
    BY <2>1
  <2> QED
    BY <2>2 DEF v
<1>2. PICK s \in B : IsFiniteSet(s) /\ \A x \in s : s \ {x} \notin B
  <2> HIDE DEF B
  <2>1. B \in SUBSET (SUBSET S)
    BY DEF B
  <2> QED
    BY <1>1, <2>1, SmallestSet
<1>3. s # {}
  <2>1. SumFunctionOnSet(v, {}) = 0 /\ SumFunctionOnSet(w, {}) = 0 /\ k * 0 = 0
    BY SumOfNone
  <2> QED
    BY <1>2, <2>1
<1>4. PICK x \in s : TRUE
  BY <1>3
<1>5. x \in S /\ s \ {x} \in SUBSET S /\ IsFiniteSet(s \ {x})
  BY <1>2, SmallerSet
<1> DEFINE vr == SumFunctionOnSet(v, s \ {x})
           wr == SumFunctionOnSet(w, s \ {x})
<1>6. SumFunctionOnSet(v, s) = v[x] + vr /\ SumFunctionOnSet(w, s) = w[x] + wr
  BY <1>0, <1>2, SumOfRest
<1>7. vr = k * wr /\ wr \in Int
  BY <1>2, <1>5, SumIsInt
<1>8. k * w[x] + vr # k * (w[x] + wr)
  BY <1>0, <1>2, <1>5, <1>6
<1>9. w[x] \in Int
  BY <1>5
<1> HIDE DEF vr, wr
<1>10. k * (w[x] + wr) = k * w[x] + k * wr
  BY <1>7, <1>9
<1> QED
  BY <1>7, <1>8, <1>10

\* Among finitely many numbers there is a least one.
LEMMA LeastOfSome ==
  ASSUME NEW S, IsFiniteSet(S), S # {}, NEW w, \A x \in S : w[x] \in Int
  PROVE  \E x \in S : \A y \in S : w[x] <= w[y]
<1> DEFINE B == {s \in SUBSET S : s # {} /\ ~\E x \in s : \A y \in s : w[x] <= w[y]}
<1>1. SUFFICES ASSUME B # {} PROVE FALSE
  OBVIOUS
<1>2. PICK s \in B : IsFiniteSet(s) /\ \A x \in s : s \ {x} \notin B
  <2> HIDE DEF B
  <2>1. B \in SUBSET (SUBSET S)
    BY DEF B
  <2> QED
    BY <1>1, <2>1, SmallestSet
<1>3. PICK a \in s : TRUE
  OBVIOUS
<1>4. a \in S /\ s \in SUBSET S /\ ~\E x \in s : \A y \in s : w[x] <= w[y]
  OBVIOUS
<1>5. CASE s = {a}
  BY <1>4, <1>5
<1>6. CASE s # {a}
  <2>1. s \ {a} \in SUBSET S /\ s \ {a} # {} /\ s \ {a} \notin B
    BY <1>2, <1>3, <1>4, <1>6
  <2>2. PICK b \in s \ {a} : \A y \in s \ {a} : w[b] <= w[y]
    BY <2>1
  <2> QED
    BY <1>4, <2>2
<1> QED
  BY <1>5, <1>6

\* Among finitely many numbers there are a least and a greatest one.
LEMMA BoundsOfSome ==
  ASSUME NEW S, IsFiniteSet(S), S # {}, NEW w, \A x \in S : w[x] \in Int, NEW a \in S
  PROVE  LET C == {w[x] : x \in S}
         IN Least(C) \in Int /\ Greatest(C) \in Int /\ Least(C) <= w[a] /\ w[a] <= Greatest(C)
<1> DEFINE C == {w[x] : x \in S}
<1>1. PICK l \in S : \A y \in S : w[l] <= w[y]
  BY LeastOfSome
<1>2. PICK g \in S : \A y \in S : w[y] <= w[g]
  <2> DEFINE v == [x \in S |-> 0 - w[x]]
  <2>1. \A x \in S : v[x] \in Int /\ v[x] = 0 - w[x]
    OBVIOUS
  <2> HIDE DEF v
  <2>2. PICK g \in S : \A y \in S : v[g] <= v[y]
    BY <2>1, LeastOfSome
  <2>3. ASSUME NEW y \in S PROVE w[y] <= w[g]
    BY <2>1, <2>2
  <2> QED
    BY <2>3
<1>3. C \in SUBSET Int /\ w[l] \in C /\ w[g] \in C /\ w[a] \in C
  OBVIOUS
<1>4. \A x \in C : w[l] <= x /\ x <= w[g]
  BY <1>1, <1>2
<1> HIDE DEF C
<1>5. Least(C) \in C /\ \A x \in C : Least(C) <= x
  BY <1>3, <1>4 DEF Least
<1>6. Greatest(C) \in C /\ \A x \in C : x <= Greatest(C)
  BY <1>3, <1>4 DEF Greatest
<1>7. Least(C) \in Int /\ Greatest(C) \in Int /\ Least(C) <= w[a] /\ w[a] <= Greatest(C)
  BY <1>3, <1>5, <1>6
<1> QED
  BY <1>7 DEF C

\* The default rates are rates, and so are those of a tenant without a tier.
LEMMA DefaultRates ==
  /\ NoRates \in RateTables
  /\ \A p \in DOMAIN DefaultTiers : DefaultTiers[p] \in RateTables
<1>1. NoRates \in RateTables
  BY DEF NoRates, RateTables
<1>2. DOMAIN DefaultTiers = {"free", "starter", "pro", "enterprise"}
  BY DEF DefaultTiers
<1>3. DefaultTiers["free"] \in RateTables
  BY DEF DefaultTiers, RateTables
<1>4. DefaultTiers["starter"] \in RateTables
  BY DEF DefaultTiers, RateTables
<1>5. DefaultTiers["pro"] \in RateTables
  BY DEF DefaultTiers, RateTables
<1>6. DefaultTiers["enterprise"] \in RateTables
  BY DEF DefaultTiers, RateTables
<1> QED
  BY <1>1, <1>2, <1>3, <1>4, <1>5, <1>6

LEMMA ProductIsInt == ASSUME NEW q \in Int, NEW x \in Int PROVE q * x \in Int
OBVIOUS

\* A record costs a number, whatever the rates and the quantity.
LEMMA CostIsInt ==
  ASSUME NEW rates \in RateTables, NEW record \in UsageRecords
  PROVE  Cost(rates, record) \in Int
<1>1. record.quantity \in Int /\ record.kind \in Kinds
  BY DEF UsageRecords
<1>2. rates[record.kind] \in Int
  BY <1>1 DEF RateTables
<1> QED
  BY <1>1, <1>2, ProductIsInt DEF Cost

\* Math.round() is off by half a cent at most, and nothing is charged for a credit.
LEMMA RoundingFacts ==
  ASSUME NEW x \in Int
  PROVE  /\ Cents(x) \in Int /\ Charge(x) \in Nat /\ x <= Debit(x) /\ Debit(x) \in Int
         /\ Cents(x) > 0 => Charge(x) = Cents(x)
         /\ ~(Cents(x) > 0) => Charge(x) = 0
         /\ 1000 * Charge(x) <= Debit(x) + 500 /\ Debit(x) <= 1000 * Charge(x) + 500
<1> DEFINE n == Cents(x)
<1>1. n \in Int /\ 1000 * n <= x + 500 /\ x <= 1000 * n + 500
  BY DEF Cents
<1> HIDE DEF n
<1>2. Charge(x) = (IF n > 0 THEN n ELSE 0) /\ Debit(x) = (IF x > 0 THEN x ELSE 0)
  BY DEF n, Charge, Debit
<1> QED
  BY <1>1, <1>2 DEF n

\* Larger costs, larger debits.
LEMMA DebitGrows ==
  ASSUME NEW x \in Int, NEW y \in Int, x <= y
  PROVE  Debit(x) \in Int /\ Debit(y) \in Int /\ Debit(x) <= Debit(y)
BY DEF Debit

\* What invoices of these records may charge, within half a cent per record.
IsNearBills(usage, seen, total) ==
  LET slack == 500 * Len(usage)
  IN /\ 1000 * total \in LeastDebits(usage, seen) - slack .. GreatestDebits(usage, seen) + slack
     /\ \A rates \in seen : seen = {rates} => UsageCost(rates, usage) <= 1000 * total + slack

\* The costs v are charged, but for half a cent each; 
\* no more than them is charged, but for half a cent each.
IsCharged(v, charge, D) ==
  \A i \in D : charge[i] \in Int /\ v[i] \in Int /\ v[i] <= 1000 * charge[i] + 500
IsNotExceeded(v, charge, D) ==
  \A i \in D : charge[i] \in Int /\ v[i] \in Int /\ 1000 * charge[i] <= v[i] + 500

\* A thousand times a sum lies half a cent per element below another at most.
LEMMA SlackOfSums ==
  ASSUME NEW D, IsFiniteSet(D), NEW v, NEW charge, IsCharged(v, charge, D)
  PROVE  /\ SumFunctionOnSet(v, D) \in Int /\ SumFunctionOnSet(charge, D) \in Int
         /\ SumFunctionOnSet(v, D) <= 1000 * SumFunctionOnSet(charge, D) + 500 * Cardinality(D)
<1>0. \A i \in D : charge[i] \in Int /\ v[i] \in Int /\ v[i] <= 1000 * charge[i] + 500
  BY DEF IsCharged
<1>1. PICK k \in Int : k = 1000
  OBVIOUS
<1>2. PICK h \in Int : h = 500
  OBVIOUS
<1> DEFINE paid == [i \in D |-> k * charge[i]]
<1>3. \A i \in D : v[i] \in Int /\ paid[i] \in Int /\ v[i] <= paid[i] + h
  BY <1>0, <1>1, <1>2
<1>4. SumFunctionOnSet(paid, D) = k * SumFunctionOnSet(charge, D)
  <2>1. \A i \in D : charge[i] \in Int
    BY <1>0
  <2> QED
    BY <2>1, SumOfMultiples
<1> HIDE DEF paid
<1>5. SumFunctionOnSet(v, D) <= SumFunctionOnSet(paid, D) + h * Cardinality(D)
  BY <1>3, SumsAreNear
<1>6. SumFunctionOnSet(v, D) \in Int /\ SumFunctionOnSet(charge, D) \in Int
  <2>1. (\A i \in D : v[i] \in Int) /\ \A i \in D : charge[i] \in Int
    BY <1>0
  <2> QED
    BY <2>1, SumIsInt
<1> QED
  BY <1>1, <1>2, <1>4, <1>5, <1>6

\* ... or above it.
LEMMA SlackAboveSums ==
  ASSUME NEW D, IsFiniteSet(D), NEW v, NEW charge, IsNotExceeded(v, charge, D)
  PROVE  /\ SumFunctionOnSet(v, D) \in Int /\ SumFunctionOnSet(charge, D) \in Int
         /\ 1000 * SumFunctionOnSet(charge, D) <= SumFunctionOnSet(v, D) + 500 * Cardinality(D)
<1>0. \A i \in D : charge[i] \in Int /\ v[i] \in Int /\ 1000 * charge[i] <= v[i] + 500
  BY DEF IsNotExceeded
<1>1. PICK k \in Int : k = 1000
  OBVIOUS
<1>2. PICK h \in Int : h = 500
  OBVIOUS
<1> DEFINE paid == [i \in D |-> k * charge[i]]
<1>3. \A i \in D : paid[i] \in Int /\ v[i] \in Int /\ paid[i] <= v[i] + h
  BY <1>0, <1>1, <1>2
<1>4. SumFunctionOnSet(paid, D) = k * SumFunctionOnSet(charge, D)
  <2>1. \A i \in D : charge[i] \in Int
    BY <1>0
  <2> QED
    BY <2>1, SumOfMultiples
<1> HIDE DEF paid
<1>5. SumFunctionOnSet(paid, D) <= SumFunctionOnSet(v, D) + h * Cardinality(D)
  BY <1>3, SumsAreNear
<1>6. SumFunctionOnSet(v, D) \in Int /\ SumFunctionOnSet(charge, D) \in Int
  <2>1. (\A i \in D : v[i] \in Int) /\ \A i \in D : charge[i] \in Int
    BY <1>0
  <2> QED
    BY <2>1, SumIsInt
<1> QED
  BY <1>1, <1>2, <1>4, <1>5, <1>6

\* If each record is charged at rates that were seen, the charges come near the debits.
LEMMA ChargesAreNear ==
  ASSUME NEW usage \in Seq(UsageRecords), NEW seen \in SUBSET RateTables, IsFiniteSet(seen), NEW charge,
         \A i \in DOMAIN usage : \E rates \in seen : charge[i] = Charge(Cost(rates, usage[i]))
  PROVE  IsNearBills(usage, seen, SumFunctionOnSet(charge, DOMAIN usage))
<1> DEFINE D == DOMAIN usage
           n == Len(usage)
           costs(i) == {Cost(rates, usage[i]) : rates \in seen}
           least == [i \in D |-> Debit(Least(costs(i)))]
           greatest == [i \in D |-> Debit(Greatest(costs(i)))]
           total == SumFunctionOnSet(charge, D)
<1>1. /\ IsFiniteSet(D) /\ Cardinality(D) = n /\ n \in Nat
      /\ \A i \in D : usage[i] \in UsageRecords
  <2>1. n \in Nat /\ D = 1 .. n /\ \A i \in D : usage[i] \in UsageRecords
    OBVIOUS
  <2> HIDE DEF n
  <2>2. IsFiniteSet(1 .. n) /\ Cardinality(1 .. n) = IF 1 > n THEN 0 ELSE n - 1 + 1
    BY <2>1, FS_Interval
  <2>3. Cardinality(1 .. n) = n
    BY <2>1, <2>2
  <2> QED
    BY <2>1, <2>2, <2>3
<1>2. ASSUME NEW i \in D
      PROVE  /\ charge[i] \in Int /\ least[i] \in Int /\ greatest[i] \in Int
             /\ least[i] <= 1000 * charge[i] + 500
             /\ 1000 * charge[i] <= greatest[i] + 500
  <2>1. PICK rates \in seen : charge[i] = Charge(Cost(rates, usage[i]))
    OBVIOUS
  <2> DEFINE w == [r \in seen |-> Cost(r, usage[i])]
             C == {w[r] : r \in seen}
             x == Cost(rates, usage[i])
             ch == charge[i]
             l == Least(C)
             g == Greatest(C)
  <2>2. \A r \in seen : w[r] \in Int /\ w[r] = Cost(r, usage[i])
    BY <1>1, CostIsInt
  <2>3. costs(i) = C /\ w[rates] = x /\ x \in Int
    BY <2>2
  <2>4. least[i] = Debit(l) /\ greatest[i] = Debit(g)
    BY <2>3
  <2> HIDE DEF w, x
  <2>5. l \in Int /\ g \in Int /\ l <= x /\ x <= g
    BY <2>1, <2>2, <2>3, BoundsOfSome
  <2>6. ch = Charge(x)
    BY <2>1 DEF x
  <2> HIDE DEF C, l, g, ch, costs
  <2>7. ch \in Nat /\ 1000 * ch <= Debit(x) + 500 /\ Debit(x) <= 1000 * ch + 500
    BY <2>3, <2>6, RoundingFacts
  <2>8. /\ Debit(l) \in Int /\ Debit(x) \in Int /\ Debit(g) \in Int
        /\ Debit(l) <= Debit(x) /\ Debit(x) <= Debit(g)
    BY <2>3, <2>5, DebitGrows
  <2>9. Debit(l) <= 1000 * ch + 500 /\ 1000 * ch <= Debit(g) + 500
    BY <2>7, <2>8
  <2> HIDE DEF least, greatest
  <2> QED
    BY <2>4, <2>7, <2>8, <2>9 DEF ch
<1>3. ASSUME NEW rates \in seen, seen = {rates} PROVE UsageCost(rates, usage) <= 1000 * total + 500 * n
  <2> DEFINE v == [i \in D |-> Cost(rates, usage[i])]
  <2>1. ASSUME NEW i \in D PROVE charge[i] \in Int /\ v[i] \in Int /\ v[i] <= 1000 * charge[i] + 500
    <3> DEFINE x == Cost(rates, usage[i])
               ch == charge[i]
    <3>1. ch = Charge(x) /\ x \in Int /\ v[i] = x
      BY <1>1, <1>3, CostIsInt
    <3> HIDE DEF x, ch
    <3>2. ch \in Nat /\ x <= Debit(x) /\ Debit(x) \in Int /\ Debit(x) <= 1000 * ch + 500
      BY <3>1, RoundingFacts
    <3>3. ch \in Int /\ x <= 1000 * ch + 500
      BY <3>1, <3>2
    <3> HIDE DEF v
    <3> QED
      BY <3>1, <3>3 DEF ch
  <2>2. UsageCost(rates, usage) = SumFunctionOnSet(v, D)
    BY DEF UsageCost, SumFunction
  <2>n. IsCharged(v, charge, D)
    BY <2>1 DEF IsCharged
  <2> HIDE DEF v, D
  <2>3. SumFunctionOnSet(v, D) <= 1000 * SumFunctionOnSet(charge, D) + 500 * Cardinality(D)
    BY <1>1, <2>n, SlackOfSums
  <2> QED
    BY <1>1, <2>2, <2>3
<1>4. LeastDebits(usage, seen) = SumFunctionOnSet(least, D) /\ GreatestDebits(usage, seen) = SumFunctionOnSet(greatest, D)
  BY DEF LeastDebits, GreatestDebits, SumFunction
<1> HIDE DEF least, greatest
<1>l. IsCharged(least, charge, D) /\ IsNotExceeded(greatest, charge, D)
  BY <1>2 DEF IsCharged, IsNotExceeded
<1> HIDE DEF D, costs
<1>5. /\ SumFunctionOnSet(least, D) \in Int /\ total \in Int
      /\ SumFunctionOnSet(least, D) <= 1000 * total + 500 * Cardinality(D)
  BY <1>1, <1>l, SlackOfSums
<1>6. /\ SumFunctionOnSet(greatest, D) \in Int
      /\ 1000 * total <= SumFunctionOnSet(greatest, D) + 500 * Cardinality(D)
  BY <1>1, <1>l, SlackAboveSums
<1> HIDE DEF total
<1>7. 1000 * total \in LeastDebits(usage, seen) - 500 * n .. GreatestDebits(usage, seen) + 500 * n
  BY <1>1, <1>4, <1>5, <1>6
<1>8. IsNearBills(usage, seen, total)
  BY <1>3, <1>7 DEF IsNearBills
<1> QED
  BY <1>8 DEF total, D

-----------------------------------------------------------------------------
(* Usage.                                                                  *)

RunRecords == [pc : {"new", "task", "refused", "late", "done"}, tenant : Tenants \cup {None}]

UsageTypes ==
  /\ \A p \in DOMAIN pricingTiers : pricingTiers[p] \in RateTables
  /\ tier \in [Tenants -> Tiers \cup {None}]
  /\ \A t \in Tenants : tier[t] # None => tier[t] \in DOMAIN pricingTiers
  /\ store \in [Tenants -> Seq(UsageRecords)]
  /\ run \in [Runs -> RunRecords]
  /\ \A r \in Runs : run[r].pc # "new" => run[r].tenant \in Tenants

RecordsOf(r, t) == {i \in DOMAIN store[t] : store[t][i].of = r}

NewRunsHaveNone == \A r \in Runs, t \in Tenants : run[r].pc = "new" => RecordsOf(r, t) = {}

\* What UsageIsStored says of one run.
IsStored(r) ==
  LET t   == run[r].tenant
      own == RecordsOf(r, t)
  IN \E first \in own :
       /\ store[t][first].kind = "task"
       /\ IF run[r].pc \in {"task", "refused"} THEN own = {first}
          ELSE \E second \in own : /\ first < second /\ own = {first, second}
                                   /\ store[t][second].kind = "compute"

UsageInv == UsageTypes /\ NewRunsHaveNone /\ UsageIsStored

\* UsageIsStored, run by run.
LEMMA StoredOneByOne ==
  /\ UsageIsStored <=> \A r \in Runs : run[r].pc # "new" => IsStored(r)
  /\ UsageIsStored' <=> \A r \in Runs : run'[r].pc # "new" => IsStored(r)'
<1>1. UsageIsStored <=> \A r \in Runs \ {s \in Runs : run[s].pc = "new"} : IsStored(r)
  BY Zenon DEF UsageIsStored, IsStored, RecordsOf
<1>2. UsageIsStored' <=> \A r \in Runs \ {s \in Runs : run'[s].pc = "new"} : IsStored(r)'
  BY Zenon DEF UsageIsStored, IsStored, RecordsOf
<1> QED
  BY <1>1, <1>2

\* Nothing is stored before a run starts.
LEMMA UsageInitial == BillingInit => UsageInv
<1> SUFFICES ASSUME BillingInit PROVE UsageInv
  OBVIOUS
<1>1. UsageTypes
  <2>1. <<>> \in Seq(UsageRecords)
    OBVIOUS
  <2> QED
    BY <2>1, DefaultRates DEF BillingInit, UsageTypes, RunRecords
<1>2. NewRunsHaveNone
  BY DEF BillingInit, NewRunsHaveNone, RecordsOf
<1>3. UsageIsStored
  BY DEF BillingInit, UsageIsStored
<1> QED
  BY <1>1, <1>2, <1>3 DEF UsageInv

\* A record is stored: its run has one more, all other runs have what they had.
LEMMA RecordStored ==
  ASSUME UsageTypes, NEW t \in Tenants, NEW record \in UsageRecords, RecordUsage(t, record)
  PROVE  /\ store' \in [Tenants -> Seq(UsageRecords)]
         /\ \A u \in Tenants : \A i \in DOMAIN store[u] : i \in DOMAIN store'[u] /\ store'[u][i] = store[u][i]
         /\ \A u \in Tenants, r \in Runs \ {record.of} : RecordsOf(r, u)' = RecordsOf(r, u)
         /\ \A u \in Tenants \ {t}, r \in Runs : RecordsOf(r, u)' = RecordsOf(r, u)
         /\ LET n == Len(store[t]) + 1
            IN /\ RecordsOf(record.of, t)' = RecordsOf(record.of, t) \cup {n}
               /\ store'[t][n] = record
               /\ \A r : \A i \in RecordsOf(r, t) : i < n
<1> DEFINE n == Len(store[t]) + 1
<1>1. /\ store \in [Tenants -> Seq(UsageRecords)] /\ store[t] \in Seq(UsageRecords)
      /\ store' = [store EXCEPT ![t] = Append(store[t], record)]
  BY DEF UsageTypes, RecordUsage
<1>2. /\ Append(store[t], record) \in Seq(UsageRecords)
      /\ DOMAIN Append(store[t], record) = DOMAIN store[t] \cup {n}
      /\ n \notin DOMAIN store[t]
      /\ \A i \in DOMAIN store[t] : Append(store[t], record)[i] = store[t][i] /\ i < n
      /\ Append(store[t], record)[n] = record
  BY <1>1
<1>3. /\ store'[t] = Append(store[t], record)
      /\ \A u \in Tenants \ {t} : store'[u] = store[u]
  BY <1>1
<1> HIDE DEF n
<1>4. store' \in [Tenants -> Seq(UsageRecords)]
  BY <1>1, <1>2
<1>5. \A u \in Tenants : \A i \in DOMAIN store[u] : i \in DOMAIN store'[u] /\ store'[u][i] = store[u][i]
  BY <1>2, <1>3
<1>6. \A u \in Tenants \ {t}, r \in Runs : RecordsOf(r, u)' = RecordsOf(r, u)
  BY <1>3 DEF RecordsOf
<1>7. \A r : RecordsOf(r, t)' = RecordsOf(r, t) \cup {i \in {n} : record.of = r}
  BY <1>2, <1>3 DEF RecordsOf
<1>8. \A r \in Runs \ {record.of} : RecordsOf(r, t)' = RecordsOf(r, t)
  BY <1>7
<1>9. RecordsOf(record.of, t)' = RecordsOf(record.of, t) \cup {n}
  BY <1>7
<1>10. store'[t][n] = record /\ \A r : \A i \in RecordsOf(r, t) : i < n
  BY <1>2, <1>3 DEF RecordsOf
<1> QED
  BY <1>4, <1>5, <1>6, <1>8, <1>9, <1>10 DEF n

\* A run keeps what it has stored if it neither moves nor stores a record.
LEMMA RunKeepsRecords ==
  ASSUME UsageTypes, NEW r \in Runs, run'[r] = run[r],
         \A t \in Tenants : RecordsOf(r, t)' = RecordsOf(r, t),
         \A u \in Tenants : \A i \in DOMAIN store[u] : store'[u][i] = store[u][i]
  PROVE  /\ (run[r].pc = "new" => \A t \in Tenants : RecordsOf(r, t) = {})
              => (run'[r].pc = "new" => \A t \in Tenants : RecordsOf(r, t)' = {})
         /\ (run[r].pc # "new" => IsStored(r)) => (run'[r].pc # "new" => IsStored(r)')
<1>1. run[r].pc # "new" => run[r].tenant \in Tenants
  BY DEF UsageTypes
<1>2. \A t : RecordsOf(r, t) \subseteq DOMAIN store[t]
  BY DEF RecordsOf
<1>3. ASSUME run[r].pc # "new", IsStored(r) PROVE IsStored(r)'
  <2> DEFINE t == run[r].tenant
             own == RecordsOf(r, t)
  <2>1. t \in Tenants /\ run'[r].tenant = t /\ own' = own /\ \A i \in own : store'[t][i] = store[t][i]
    BY <1>1, <1>2, <1>3
  <2>2. PICK first \in own :
          /\ store[t][first].kind = "task"
          /\ IF run[r].pc \in {"task", "refused"} THEN own = {first}
             ELSE \E second \in own : /\ first < second /\ own = {first, second}
                                      /\ store[t][second].kind = "compute"
    BY <1>3 DEF IsStored
  <2>3. first \in own' /\ store'[t][first].kind = "task"
    BY <2>1, <2>2
  <2>4. CASE run[r].pc \in {"task", "refused"}
    BY <2>1, <2>2, <2>3, <2>4 DEF IsStored
  <2>5. CASE run[r].pc \notin {"task", "refused"}
    <3>1. PICK second \in own : /\ first < second /\ own = {first, second}
                                /\ store[t][second].kind = "compute"
      BY <2>2, <2>5
    <3>2. second \in own' /\ own' = {first, second} /\ store'[t][second].kind = "compute"
      BY <2>1, <3>1
    <3> QED
      BY <2>1, <2>3, <2>5, <3>1, <3>2 DEF IsStored
  <2> QED
    BY <2>4, <2>5
<1> QED
  BY <1>3

LEMMA RunFields ==
  ASSUME NEW t \in Tenants, NEW pc \in {"task", "refused", "late", "done"}
  PROVE  [pc |-> pc, tenant |-> t] \in RunRecords
BY DEF RunRecords

\* One step per operation; runs, calls of the API and POST /usage store records.
LEMMA UsageStep == ASSUME UsageInv, [BillingNext]_billingVars PROVE UsageInv'
<1>0. UsageTypes /\ NewRunsHaveNone /\ UsageIsStored
  BY DEF UsageInv
<1>n. \A r \in Runs : /\ run[r].pc = "new" => \A t \in Tenants : RecordsOf(r, t) = {}
                      /\ run[r].pc # "new" => IsStored(r)
  BY <1>0, StoredOneByOne DEF NewRunsHaveNone
<1>1. ASSUME store' = store, run' = run, UsageTypes' PROVE UsageInv'
  <2>1. NewRunsHaveNone'
    BY <1>0, <1>1 DEF NewRunsHaveNone, RecordsOf
  <2>2. UsageIsStored'
    BY <1>0, <1>1 DEF UsageIsStored
  <2> QED
    BY <1>1, <2>1, <2>2 DEF UsageInv
<1>t. ASSUME NEW t \in Tenants, NEW p \in Tiers, AssignTier(t, p) PROVE UsageInv'
  <2>1. /\ tier' = [tier EXCEPT ![t] = p] /\ p \in DOMAIN pricingTiers
        /\ UNCHANGED <<pricingTiers, store, run>>
    BY <1>t DEF AssignTier
  <2>2. UsageTypes'
    BY <1>0, <2>1 DEF UsageTypes
  <2> QED
    BY <1>1, <2>1, <2>2
<1>g. ASSUME NEW p \in Tiers, NEW rates \in Registrable, RegisterTier(p, rates) PROVE UsageInv'
  <2>1. /\ pricingTiers' = [q \in DOMAIN pricingTiers \cup {p} |-> IF q = p THEN rates ELSE pricingTiers[q]]
        /\ UNCHANGED <<tier, store, run>>
    BY <1>g DEF RegisterTier
  <2>2. rates \in RateTables
    BY BillingAssumption DEF BillingAssumption
  <2>3. UsageTypes'
    BY <1>0, <2>1, <2>2 DEF UsageTypes
  <2> QED
    BY <1>1, <2>1, <2>3
<1>2. ASSUME NEW t \in Tenants, NEW r \in Runs, RecordTask(r, t) PROVE UsageInv'
  <2> DEFINE record == [kind |-> "task", quantity |-> 10, of |-> r]
             pc == IF OverLimit(t) THEN "refused" ELSE "task"
             n == Len(store[t]) + 1
  <2>1. /\ RecordUsage(t, record) /\ run' = [run EXCEPT ![r] = [pc |-> pc, tenant |-> t]]
        /\ run[r].pc = "new" /\ UNCHANGED <<tier, pricingTiers>>
    BY <1>2 DEF RecordTask
  <2>2. record \in UsageRecords /\ record.of = r /\ record.kind = "task"
    BY DEF UsageRecords, Kinds
  <2>3. pc \in {"task", "refused"}
    OBVIOUS
  <2> HIDE DEF record, pc
  <2>4. /\ store' \in [Tenants -> Seq(UsageRecords)]
        /\ \A u \in Tenants : \A i \in DOMAIN store[u] : i \in DOMAIN store'[u] /\ store'[u][i] = store[u][i]
        /\ \A u \in Tenants, s \in Runs \ {r} : RecordsOf(s, u)' = RecordsOf(s, u)
        /\ RecordsOf(r, t)' = RecordsOf(r, t) \cup {n}
        /\ store'[t][n] = record
    BY <1>0, <2>1, <2>2, RecordStored
  <2> HIDE DEF n
  <2>5. [pc |-> pc, tenant |-> t] \in RunRecords
    BY <2>3, RunFields
  <2>6. run'[r] = [pc |-> pc, tenant |-> t] /\ \A s \in Runs \ {r} : run'[s] = run[s]
    BY <1>0, <2>1 DEF UsageTypes
  <2>7. UsageTypes'
    <3>1. run' \in [Runs -> RunRecords]
      BY <1>0, <2>1, <2>5 DEF UsageTypes
    <3> QED
      BY <1>0, <2>1, <2>4, <2>6, <3>1 DEF UsageTypes
  <2>8. RecordsOf(r, t)' = {n}
    BY <1>n, <2>1, <2>4
  <2>9. run'[r].pc # "new" /\ IsStored(r)'
    <3>1. run'[r].tenant = t /\ run'[r].pc = pc /\ pc \in {"task", "refused"}
      BY <2>3, <2>6
    <3>2. store'[t][n].kind = "task"
      BY <2>2, <2>4
    <3> QED
      BY <2>8, <3>1, <3>2 DEF IsStored
  <2>10. ASSUME NEW s \in Runs, s # r
         PROVE  /\ run'[s].pc = "new" => \A u \in Tenants : RecordsOf(s, u)' = {}
                /\ run'[s].pc # "new" => IsStored(s)'
    BY <1>0, <1>n, <2>4, <2>6, <2>10, RunKeepsRecords
  <2> QED
    BY <2>7, <2>9, <2>10, StoredOneByOne DEF UsageInv, NewRunsHaveNone
<1>3. ASSUME NEW t \in Tenants, NEW kind \in Kinds, NEW quantity \in Int, RecordOne(t, kind, quantity)
      PROVE  UsageInv'
  <2> DEFINE record == [kind |-> kind, quantity |-> quantity, of |-> None]
  <2>2. RecordUsage(t, record) /\ run' = run /\ UNCHANGED <<tier, pricingTiers>>
    BY <1>3 DEF RecordOne
  <2>3. record \in UsageRecords /\ record.of = None /\ None \notin Runs
    BY BillingAssumption DEF UsageRecords, BillingAssumption
  <2> HIDE DEF record
  <2>4. /\ store' \in [Tenants -> Seq(UsageRecords)]
        /\ \A u \in Tenants : \A i \in DOMAIN store[u] : i \in DOMAIN store'[u] /\ store'[u][i] = store[u][i]
        /\ \A u \in Tenants, s \in Runs \ {None} : RecordsOf(s, u)' = RecordsOf(s, u)
    BY <1>0, <2>2, <2>3, RecordStored
  <2>5. UsageTypes'
    BY <1>0, <2>2, <2>4 DEF UsageTypes
  <2>6. ASSUME NEW s \in Runs
        PROVE  /\ run'[s].pc = "new" => \A u \in Tenants : RecordsOf(s, u)' = {}
               /\ run'[s].pc # "new" => IsStored(s)'
    BY <1>0, <1>n, <2>2, <2>3, <2>4, RunKeepsRecords
  <2> QED
    BY <2>5, <2>6, StoredOneByOne DEF UsageInv, NewRunsHaveNone
<1>u. ASSUME NEW t \in Tenants, RecordUnit(t) \/ PostUsage(t) PROVE UsageInv'
  <2>1. PICK ten \in Int : ten = 10
    OBVIOUS
  <2>2. CASE RecordUnit(t)
    <3>1. PICK kind \in Kinds : RecordOne(t, kind, ten)
      BY <2>1, <2>2 DEF RecordUnit, Kinds
    <3> QED
      BY <1>3, <3>1
  <2>3. CASE PostUsage(t)
    <3>1. PICK body \in Bodies : RecordOne(t, body.kind, body.quantity)
      BY <2>3 DEF PostUsage
    <3>2. body.kind \in Kinds /\ body.quantity \in Int
      BY BillingAssumption DEF BillingAssumption
    <3> QED
      BY <1>3, <3>1, <3>2
  <2> QED
    BY <1>u, <2>2, <2>3
<1>4. ASSUME NEW r \in Runs, RecordCompute(r) PROVE UsageInv'
  <2>0. PICK t \in Tenants : t = run[r].tenant
    BY <1>0, <1>4 DEF RecordCompute, UsageTypes
  <2> DEFINE pc == IF OverLimit(t) THEN "late" ELSE "done"
             n == Len(store[t]) + 1
  <2>1. PICK minutes \in Computes : RecordUsage(t, [kind |-> "compute", quantity |-> minutes, of |-> r])
    BY <1>4, <2>0 DEF RecordCompute
  <2>2. run' = [run EXCEPT ![r].pc = pc] /\ run[r].pc = "task" /\ UNCHANGED <<tier, pricingTiers>>
    BY <1>4, <2>0 DEF RecordCompute
  <2>3. PICK record \in UsageRecords :
          RecordUsage(t, record) /\ record.of = r /\ record.kind = "compute"
    <3>1. minutes \in Nat
      BY BillingAssumption DEF BillingAssumption
    <3>2. [kind |-> "compute", quantity |-> minutes, of |-> r] \in UsageRecords
      BY <3>1 DEF UsageRecords, Kinds
    <3> QED
      BY <2>1, <3>2
  <2>4. /\ store' \in [Tenants -> Seq(UsageRecords)]
        /\ \A u \in Tenants : \A i \in DOMAIN store[u] : i \in DOMAIN store'[u] /\ store'[u][i] = store[u][i]
        /\ \A u \in Tenants, s \in Runs \ {r} : RecordsOf(s, u)' = RecordsOf(s, u)
        /\ RecordsOf(r, t)' = RecordsOf(r, t) \cup {n}
        /\ store'[t][n] = record
        /\ \A i \in RecordsOf(r, t) : i < n
    BY <1>0, <2>2, <2>3, RecordStored
  <2>5. /\ run'[r].pc = pc /\ run'[r].tenant = t /\ run' \in [Runs -> RunRecords]
        /\ pc \in {"late", "done"} /\ \A s \in Runs \ {r} : run'[s] = run[s]
    <3>1. pc \in {"late", "done"}
      OBVIOUS
    <3> DEFINE after == [run[r] EXCEPT !.pc = pc]
    <3>2. run' = [run EXCEPT ![r] = after] /\ run[r] \in RunRecords
      BY <1>0, <2>2 DEF UsageTypes
    <3> HIDE DEF pc
    <3>3. after.pc = pc /\ after.tenant = run[r].tenant /\ after \in RunRecords
      BY <3>1, <3>2, <2>0 DEF RunRecords
    <3> HIDE DEF after
    <3> QED
      BY <1>0, <2>0, <3>1, <3>2, <3>3 DEF UsageTypes
  <2> HIDE DEF pc, n
  <2>6. UsageTypes'
    BY <1>0, <2>2, <2>4, <2>5 DEF UsageTypes
  <2>7. PICK first \in RecordsOf(r, t) : store[t][first].kind = "task" /\ RecordsOf(r, t) = {first}
    BY <1>n, <2>0, <2>2 DEF IsStored
  <2>8. IsStored(r)'
    <3>1. RecordsOf(r, t)' = {first, n} /\ first < n
      BY <2>4, <2>7
    <3>2. first \in DOMAIN store[t]
      BY DEF RecordsOf
    <3>3. store'[t][first].kind = "task" /\ store'[t][n].kind = "compute"
      BY <2>2, <2>3, <2>4, <2>7, <3>2
    <3>4. run'[r].tenant = t /\ run'[r].pc \notin {"task", "refused"}
      BY <2>5
    <3> QED
      BY <3>1, <3>3, <3>4 DEF IsStored
  <2>9. ASSUME NEW s \in Runs, s # r
        PROVE  /\ run'[s].pc = "new" => \A u \in Tenants : RecordsOf(s, u)' = {}
               /\ run'[s].pc # "new" => IsStored(s)'
    BY <1>0, <1>n, <2>4, <2>5, <2>9, RunKeepsRecords
  <2> QED
    BY <2>5, <2>6, <2>8, <2>9, StoredOneByOne DEF UsageInv, NewRunsHaveNone
<1>5. ASSUME UNCHANGED <<pricingTiers, tier, store, run>> PROVE UsageInv'
  <2>1. UsageTypes'
    BY <1>0, <1>5 DEF UsageTypes
  <2> QED
    BY <1>1, <1>5, <2>1
<1>6. ASSUME NEW t \in Tenants, NEW k \in Caps, SetResourceLimits(t, k) PROVE UsageInv'
  BY <1>5, <1>6 DEF SetResourceLimits
<1>7. ASSUME NEW t \in Tenants, NEW c \in Calls, NEW use \in Uses, GetStripe(c, t, use) PROVE UsageInv'
  BY <1>5, <1>7 DEF GetStripe, usageVars
<1>8. ASSUME NEW c \in Calls,
             BuildClient(c) \/ Request(c) \/ ReportUsage(c) \/ CreateInvoice(c) \/ AddItem(c) \/ Finalize(c)
      PROVE  UsageInv'
  BY <1>5, <1>8 DEF BuildClient, Request, ReportUsage, CreateInvoice, AddItem, Finalize, usageVars
<1>9. ASSUME NEW key \in {Key, None}, InitStripe(key) \/ \E injected \in Clients : InjectClient(key, injected)
      PROVE  UsageInv'
  BY <1>5, <1>9 DEF InitStripe, InjectClient, usageVars
<1>10. CASE UNCHANGED billingVars
  BY <1>5, <1>10 DEF billingVars, usageVars
<1> QED
  BY <1>t, <1>g, <1>2, <1>u, <1>4, <1>6, <1>7, <1>8, <1>9, <1>10 DEF BillingNext

-----------------------------------------------------------------------------
(* Invoices.                                                               *)

Accounts == Clients \cup {Key, None}
CallRecords ==
  [use : Uses \cup {"none"},
   pc : {"new", "import", "create", "items", "finalized", "done", "failed"},
   tenant : Tenants \cup {None}, records : Seq(UsageRecords), next : Nat \ {0},
   client : Accounts, seen : SUBSET RateTables]

CallTypes ==
  /\ client \in Accounts /\ apiKey \in {Key, None}
  /\ call \in [Calls -> CallRecords]

ItemsOf(c) == {y \in items : y.by = c}

\* An item says what its record costs at rates that were seen.
ItemIsSound(c, y) ==
  /\ y.at = call[c].client
  /\ y.record \in DOMAIN call[c].records
  /\ call[c].pc = "items" => y.record < call[c].next
  /\ \E rates \in call[c].seen : y.cents = Charge(Cost(rates, call[c].records[y.record]))

\* The records that are dealt with: all of them once the invoice is finalized.
Dealt(c) == {i \in DOMAIN call[c].records : call[c].pc = "finalized" \/ i < call[c].next}

\* A record without an item costs less than half a cent at rates that were seen.
RecordIsSound(c, i) ==
  \/ \E y \in ItemsOf(c) : y.record = i
  \/ \E rates \in call[c].seen : Charge(Cost(rates, call[c].records[i])) = 0

InvoiceIsSound(c) ==
  /\ call[c].pc = "items" => Rates(call[c].tenant) \in call[c].seen
  /\ IsFiniteSet(call[c].seen)
  /\ \A y \in ItemsOf(c) : ItemIsSound(c, y)
  /\ \A y, z \in ItemsOf(c) : y.record = z.record => y = z
  /\ \A i \in Dealt(c) : RecordIsSound(c, i)

CallIsSound(c) ==
  /\ call[c].pc # "new" => call[c].tenant \in Tenants
  /\ call[c].pc \in {"new", "import"} \/ (call[c].pc = "create" /\ call[c].use = "invoice")
       => call[c].next = 1
  /\ call[c].pc \in {"new", "import", "create"} => ItemsOf(c) = {}
  /\ call[c].pc \in {"items", "finalized"} => InvoiceIsSound(c)

InvoiceInv == CallTypes /\ \A c \in Calls : CallIsSound(c)

\* No call, no item.
LEMMA InvoicesInitial == BillingInit => InvoiceInv
<1> SUFFICES ASSUME BillingInit PROVE InvoiceInv
  OBVIOUS
<1>1. NoCall \in CallRecords
  BY DEF NoCall, CallRecords, Accounts
<1>2. CallTypes
  BY <1>1 DEF BillingInit, CallTypes, Accounts
<1>3. ASSUME NEW c \in Calls PROVE CallIsSound(c)
  <2>1. call[c] = NoCall /\ items = {}
    BY DEF BillingInit
  <2>2. call[c].pc = "new" /\ call[c].next = 1 /\ ItemsOf(c) = {}
    BY <2>1 DEF NoCall, ItemsOf
  <2> QED
    BY <2>2 DEF CallIsSound
<1> QED
  BY <1>2, <1>3 DEF InvoiceInv

\* Rates stand while tiers do.
LEMMA RatesStand ==
  ASSUME UNCHANGED <<tier, pricingTiers>>, NEW t PROVE Rates(t)' = Rates(t)
BY DEF Rates

\* A tenant's rates stand, at least while an invoice is being made.
KeepsItsRates(c) == \A t : call[c].pc = "items" /\ t = call[c].tenant => Rates(t)' = Rates(t)

\* What a call that is not concerned keeps.
LEMMA CallStands ==
  ASSUME NEW c \in Calls, CallIsSound(c), call'[c] = call[c], ItemsOf(c)' = ItemsOf(c),
         KeepsItsRates(c)
  PROVE  CallIsSound(c)'
<1>1. (\A y : ItemIsSound(c, y)' <=> ItemIsSound(c, y)) /\ Dealt(c)' = Dealt(c)
      /\ \A i : RecordIsSound(c, i)' <=> RecordIsSound(c, i)
  BY DEF ItemIsSound, Dealt, RecordIsSound
<1>2. InvoiceIsSound(c) => InvoiceIsSound(c)'
  <2> SUFFICES ASSUME InvoiceIsSound(c) PROVE InvoiceIsSound(c)'
    OBVIOUS
  <2>1. call[c].pc = "items" => Rates(call[c].tenant)' \in call'[c].seen
    <3>1. PICK t : t = call[c].tenant
      OBVIOUS
    <3>2. call[c].pc = "items" => Rates(t)' = Rates(t) /\ Rates(t) \in call[c].seen
      BY <3>1 DEF KeepsItsRates, InvoiceIsSound
    <3> QED
      BY <3>1, <3>2 DEF Rates
  <2> QED
    BY <1>1, <2>1 DEF InvoiceIsSound
<1> QED
  BY <1>2 DEF CallIsSound

\* A step of one call that leaves the items of the others alone.
LEMMA CallMoves ==
  ASSUME InvoiceInv, NEW c \in Calls, NEW after \in CallRecords, call' = [call EXCEPT ![c] = after],
         UNCHANGED <<pricingTiers, tier, apiKey>>, client' \in Accounts, CallIsSound(c)',
         \A d \in Calls \ {c} : ItemsOf(d)' = ItemsOf(d)
  PROVE  InvoiceInv'
<1>1. CallTypes /\ \A d \in Calls : CallIsSound(d)
  BY DEF InvoiceInv
<1>2. CallTypes'
  BY <1>1 DEF CallTypes
<1>3. ASSUME NEW d \in Calls, d # c PROVE CallIsSound(d)'
  <2>1. call'[d] = call[d] /\ ItemsOf(d)' = ItemsOf(d)
    BY <1>1, <1>3 DEF CallTypes
  <2>2. KeepsItsRates(d)
    BY RatesStand DEF KeepsItsRates
  <2> QED
    BY <1>1, <2>1, <2>2, CallStands
<1> QED
  BY <1>2, <1>3 DEF InvoiceInv

\* A finalized invoice: one charge per record, none of them on another account.
LEMMA SoundInvoiceIsNear == UsageInv /\ InvoiceInv => InvoiceCoversTheBill
<1> SUFFICES ASSUME InvoiceInv, NEW c \in Calls, call[c].pc = "finalized"
             PROVE  IsNearBills(call[c].records, call[c].seen, Invoiced(c))
  BY ZenonT(30) DEF InvoiceCoversTheBill, IsNearBills
<1> DEFINE usage == call[c].records
           seen == call[c].seen
           D == DOMAIN usage
           w == [x \in {y \in items : y.by = c /\ y.at = call[c].client} |-> x.cents]
           key == [y \in ItemsOf(c) |-> y.record]
           charge == [i \in D |-> IF \E y \in ItemsOf(c) : y.record = i
                                  THEN (CHOOSE y \in ItemsOf(c) : y.record = i).cents ELSE 0]
<1>1. InvoiceIsSound(c)
  BY DEF InvoiceInv, CallIsSound
<1>2. usage \in Seq(UsageRecords) /\ seen \in SUBSET RateTables /\ IsFiniteSet(seen)
  BY <1>1 DEF CallRecords, InvoiceInv, CallTypes, InvoiceIsSound
<1>3. \A y \in ItemsOf(c) : /\ y.at = call[c].client /\ y.record \in D
                            /\ \E p \in seen : y.cents = Charge(Cost(p, usage[y.record]))
  BY <1>1 DEF InvoiceIsSound, ItemIsSound
<1>4. \A y, z \in ItemsOf(c) : y.record = z.record => y = z
  BY <1>1 DEF InvoiceIsSound
<1>5. \A i \in D : (\E y \in ItemsOf(c) : y.record = i) \/ \E p \in seen : Charge(Cost(p, usage[i])) = 0
  BY <1>1 DEF InvoiceIsSound, Dealt, RecordIsSound
<1>6. {y \in items : y.by = c /\ y.at = call[c].client} = ItemsOf(c)
  BY <1>3 DEF ItemsOf
<1>7. \A y \in ItemsOf(c) : charge[y.record] = y.cents
  <2> SUFFICES ASSUME NEW y \in ItemsOf(c) PROVE charge[y.record] = y.cents
    OBVIOUS
  <2>1. (CHOOSE z \in ItemsOf(c) : z.record = y.record) = y
    BY <1>4
  <2>2. charge[y.record] = (CHOOSE z \in ItemsOf(c) : z.record = y.record).cents
    BY <1>3
  <2> QED
    BY <2>1, <2>2
<1>8. \A i \in D : \E p \in seen : charge[i] = Charge(Cost(p, usage[i]))
  <2> SUFFICES ASSUME NEW i \in D PROVE \E p \in seen : charge[i] = Charge(Cost(p, usage[i]))
    OBVIOUS
  <2>1. CASE \E y \in ItemsOf(c) : y.record = i
    <3>1. PICK y \in ItemsOf(c) : y.record = i
      BY <2>1
    <3> HIDE DEF charge
    <3> QED
      BY <1>3, <1>7, <3>1
  <2>2. CASE ~\E y \in ItemsOf(c) : y.record = i
    <3>1. charge[i] = 0
      BY <2>2
    <3> HIDE DEF charge
    <3> QED
      BY <1>5, <2>2, <3>1
  <2> QED
    BY <2>1, <2>2
<1>9. \A i \in D : (\A y \in ItemsOf(c) : y.record # i) => charge[i] = 0
  OBVIOUS
<1>10. \A y \in ItemsOf(c) : y.cents \in Int
  <2> SUFFICES ASSUME NEW y \in ItemsOf(c) PROVE y.cents \in Int
    OBVIOUS
  <2>1. PICK p \in seen : y.cents = Charge(Cost(p, usage[y.record]))
    BY <1>3
  <2>2. usage[y.record] \in UsageRecords
    BY <1>2, <1>3
  <2>3. Cost(p, usage[y.record]) \in Int
    BY <1>2, <2>2, CostIsInt
  <2> QED
    BY <2>1, <2>3, RoundingFacts
<1>11. IsFiniteSet(D)
  <2> DEFINE n == Len(usage)
  <2>1. n \in Nat /\ D = 1 .. n
    BY <1>2
  <2> HIDE DEF n
  <2> QED
    BY <2>1, FS_Interval
<1>12. IsFiniteSet(ItemsOf(c))
  <2>1. key \in Injection(ItemsOf(c), D)
    <3>1. \A y \in ItemsOf(c) : key[y] \in D /\ key[y] = y.record
      BY <1>3
    <3>2. key \in [ItemsOf(c) -> D]
      BY <3>1
    <3> HIDE DEF D
    <3> QED
      BY <1>4, <3>1, <3>2 DEF Injection, IsInjective
  <2> HIDE DEF key, D
  <2> QED
    BY <1>11, <2>1, FS_Injection
<1>13. Invoiced(c) = SumFunctionOnSet(w, ItemsOf(c))
  BY <1>6 DEF Invoiced, SumFunction
<1>14. SumFunctionOnSet(w, ItemsOf(c)) = SumFunctionOnSet(charge, D)
  <2>1. \A y \in ItemsOf(c) : key[y] \in D /\ w[y] \in Int /\ charge[key[y]] = w[y]
    BY <1>3, <1>6, <1>7, <1>10
  <2>2. \A y, z \in ItemsOf(c) : key[y] = key[z] => y = z
    BY <1>4
  <2>3. \A i \in D : (\A y \in ItemsOf(c) : key[y] # i) => charge[i] = 0
    BY <1>9
  <2> HIDE DEF D, w, charge, key
  <2> QED
    BY <1>11, <1>12, <2>1, <2>2, <2>3, SumByKey
<1> HIDE DEF charge, usage, seen, w
<1>15. IsNearBills(usage, seen, SumFunctionOnSet(charge, DOMAIN usage))
  BY SMTT(30), <1>2, <1>8, ChargesAreNear
<1> QED
  BY <1>13, <1>14, <1>15 DEF usage, seen

\* getStripe() starts a call: it has created nothing yet.
LEMMA GetStripeStep ==
  ASSUME UsageInv, InvoiceInv, NEW c \in Calls, NEW t \in Tenants, NEW use \in Uses, GetStripe(c, t, use)
  PROVE  InvoiceInv'
<1>1. /\ call \in [Calls -> CallRecords] /\ client \in Accounts /\ call[c].pc = "new"
      /\ UNCHANGED <<pricingTiers, tier, items, apiKey, client>>
  BY DEF GetStripe, usageVars, stripeVars, InvoiceInv, CallTypes
<1>2. call[c].next = 1 /\ ItemsOf(c) = {}
  BY <1>1 DEF InvoiceInv, CallIsSound
<1>r. PICK r \in CallRecords : r = call[c]
  BY <1>1
<1>u. PICK usage \in Seq(UsageRecords) : usage = TenantUsage(t)
  BY DEF TenantUsage, UsageInv, UsageTypes
<1>a. PICK account \in Accounts : account = client
  BY <1>1
<1>3. r.next = 1
  BY <1>2, <1>r
<1> DEFINE started == [r EXCEPT !.use = use, !.tenant = t, !.records = usage]
           served == [started EXCEPT !.pc = "create", !.client = account]
           imports == [started EXCEPT !.pc = "import"]
           fails == [started EXCEPT !.pc = "failed"]
<1>4. /\ served \in CallRecords /\ served.tenant = t /\ served.next = 1 /\ served.pc = "create"
      /\ imports \in CallRecords /\ imports.tenant = t /\ imports.next = 1 /\ imports.pc = "import"
      /\ fails \in CallRecords /\ fails.tenant = t /\ fails.next = 1 /\ fails.pc = "failed"
  BY <1>3 DEF CallRecords
<1>5. \/ call' = [call EXCEPT ![c] = served]
      \/ call' = [call EXCEPT ![c] = imports]
      \/ call' = [call EXCEPT ![c] = fails]
  BY <1>r, <1>u, <1>a DEF GetStripe
<1> HIDE DEF served, imports, fails
<1>6. PICK after \in CallRecords :
        /\ call' = [call EXCEPT ![c] = after] /\ after.tenant = t /\ after.next = 1
        /\ after.pc \in {"create", "import", "failed"}
  BY <1>4, <1>5
<1>7. call'[c] = after /\ \A d \in Calls : ItemsOf(d)' = ItemsOf(d)
  BY <1>1, <1>6 DEF ItemsOf
<1>8. CallIsSound(c)'
  BY <1>2, <1>6, <1>7 DEF CallIsSound
<1> QED
  BY <1>1, <1>6, <1>7, <1>8, CallMoves

\* The rates that a tenant's calls are priced at are rates.
LEMMA RatesAreRates == ASSUME UsageInv, NEW t \in Tenants PROVE Rates(t) \in RateTables
BY DefaultRates DEF UsageInv, UsageTypes, Rates

\* The rates of some tenants are replaced.
Repriced(priced, rates) ==
  \A t \in Tenants : Rates(t)' = IF t \in priced THEN rates ELSE Rates(t)

\* The rates at which an invoice was priced grow.
LEMMA RepriceStep ==
  ASSUME UsageInv, InvoiceInv, NEW priced, NEW rates \in RateTables, Reprice(priced, rates),
         UNCHANGED <<items, client, apiKey>>, Repriced(priced, rates)
  PROVE  InvoiceInv'
<1> DEFINE hit(c) == call[c].tenant \in priced /\ call[c].pc = "items"
           after(c) == [call[c] EXCEPT !.seen = call[c].seen \cup {rates}]
<1>1. /\ call \in [Calls -> CallRecords]
      /\ call' = [c \in Calls |-> IF hit(c) THEN after(c) ELSE call[c]]
  BY DEF Reprice, InvoiceInv, CallTypes
<1>2. \A c \in Calls : ItemsOf(c)' = ItemsOf(c) /\ CallIsSound(c)
  BY <1>1 DEF ItemsOf, InvoiceInv
<1>3. ASSUME NEW c \in Calls, hit(c) PROVE call'[c] \in CallRecords /\ CallIsSound(c)'
  <2>r. PICK r \in CallRecords : r = call[c]
    BY <1>1
  <2>1. PICK s \in SUBSET RateTables : s = r.seen \cup {rates}
    <3>1. r.seen \in SUBSET RateTables
      BY DEF CallRecords
    <3> QED
      BY <3>1
  <2>a. after(c) = [r EXCEPT !.seen = s]
    BY <2>r, <2>1
  <2>2. /\ after(c) \in CallRecords /\ after(c).seen = call[c].seen \cup {rates} /\ after(c).pc = "items"
        /\ after(c).tenant = call[c].tenant /\ after(c).next = call[c].next
        /\ after(c).records = call[c].records
        /\ after(c).client = call[c].client /\ after(c).use = call[c].use
    <3> HIDE DEF after
    <3> QED
      BY <1>3, <2>r, <2>1, <2>a DEF CallRecords
  <2>3. call'[c] = after(c)
    BY <1>1, <1>3
  <2> HIDE DEF after
  <2>4. InvoiceIsSound(c) /\ call[c].pc = "items" /\ call[c].tenant \in Tenants
    BY <1>2, <1>3 DEF CallIsSound
  <2>5. \A y : ItemIsSound(c, y) => ItemIsSound(c, y)'
    BY <2>2, <2>3, <2>4 DEF ItemIsSound
  <2>6. Dealt(c)' = Dealt(c) /\ \A i : RecordIsSound(c, i) => RecordIsSound(c, i)'
    BY <1>2, <2>2, <2>3, <2>4 DEF Dealt, RecordIsSound
  <2>7. PICK t \in Tenants : t = call[c].tenant
    BY <2>4
  <2>8. Rates(call[c].tenant)' \in call'[c].seen
    <3>1. Rates(t)' = rates
      BY <1>3, <2>7 DEF Repriced
    <3>2. call'[c].tenant = t /\ rates \in call'[c].seen
      BY <2>2, <2>3, <2>7
    <3> QED
      BY <3>1, <3>2 DEF Rates
  <2>9. IsFiniteSet(call'[c].seen)
    <3>1. IsFiniteSet(call[c].seen)
      BY <2>4 DEF InvoiceIsSound
    <3> QED
      BY <2>2, <2>3, <3>1, FS_AddElement
  <2>10. InvoiceIsSound(c)'
    BY <1>2, <2>2, <2>3, <2>4, <2>5, <2>6, <2>8, <2>9 DEF InvoiceIsSound
  <2>11. call'[c].pc = "items" /\ call'[c].tenant \in Tenants
    BY <2>2, <2>3, <2>4
  <2> QED
    BY <2>2, <2>3, <2>10, <2>11 DEF CallIsSound
<1>4. ASSUME NEW c \in Calls, ~hit(c) PROVE call'[c] \in CallRecords /\ CallIsSound(c)'
  <2>1. call'[c] = call[c] /\ call[c] \in CallRecords
    BY <1>1, <1>4
  <2>2. call[c].pc = "items" => call[c].tenant \in Tenants /\ call[c].tenant \notin priced
    BY <1>2, <1>4 DEF CallIsSound
  <2>3. KeepsItsRates(c)
    BY <2>2 DEF Repriced, KeepsItsRates
  <2> QED
    BY <1>2, <2>1, <2>3, CallStands
<1>5. DOMAIN call' = Calls /\ call' = [c \in DOMAIN call' |-> call'[c]]
  BY <1>1
<1>6. CallTypes'
  <2>1. client' \in Accounts /\ apiKey' \in {Key, None}
    BY DEF InvoiceInv, CallTypes
  <2>2. call' \in [Calls -> CallRecords]
    BY <1>3, <1>4, <1>5
  <2> QED
    BY <2>1, <2>2 DEF CallTypes
<1> QED
  BY <1>3, <1>4, <1>6 DEF InvoiceInv

\* A tenant is given another tier.
LEMMA AssignTierStep ==
  ASSUME UsageInv, InvoiceInv, NEW t \in Tenants, NEW p \in Tiers, AssignTier(t, p)
  PROVE  InvoiceInv'
<1>1. /\ p \in DOMAIN pricingTiers /\ tier' = [tier EXCEPT ![t] = p]
      /\ Reprice({t}, pricingTiers[p]) /\ UNCHANGED <<pricingTiers, items, client, apiKey>>
  BY DEF AssignTier, stripeVars
<1>2. PICK rates \in RateTables : rates = pricingTiers[p]
  BY <1>1 DEF UsageInv, UsageTypes
<1>3. Repriced({t}, rates)
  BY <1>1, <1>2, BillingAssumption DEF Repriced, Rates, UsageInv, UsageTypes, BillingAssumption
<1> QED
  BY <1>1, <1>2, <1>3, RepriceStep

\* A tier is registered, perhaps over one that tenants have.
LEMMA RegisterTierStep ==
  ASSUME UsageInv, InvoiceInv, NEW p \in Tiers, NEW rates \in Registrable, RegisterTier(p, rates)
  PROVE  InvoiceInv'
<1> DEFINE priced == {t \in Tenants : tier[t] = p}
<1>1. /\ pricingTiers' = [q \in DOMAIN pricingTiers \cup {p} |-> IF q = p THEN rates ELSE pricingTiers[q]]
      /\ Reprice(priced, rates) /\ UNCHANGED <<tier, items, client, apiKey>>
  BY DEF RegisterTier, stripeVars
<1>2. rates \in RateTables
  BY BillingAssumption DEF BillingAssumption
<1>3. Repriced(priced, rates)
  <2>1. p # None
    BY BillingAssumption DEF BillingAssumption
  <2> QED
    BY <1>1, <2>1 DEF Repriced, Rates, UsageInv, UsageTypes
<1> HIDE DEF priced
<1> QED
  BY <1>1, <1>2, <1>3, RepriceStep

\* invoices.create() is priced at the rates of the moment.
LEMMA CreateInvoiceStep ==
  ASSUME UsageInv, InvoiceInv, NEW c \in Calls, CreateInvoice(c)
  PROVE  InvoiceInv'
<1>1. /\ call \in [Calls -> CallRecords] /\ call[c] \in CallRecords /\ client \in Accounts
      /\ UNCHANGED <<pricingTiers, tier, items, apiKey, client>>
      /\ call[c].pc = "create" /\ call[c].use = "invoice"
  BY DEF CreateInvoice, usageVars, stripeVars, InvoiceInv, CallTypes, UsageInv, UsageTypes
<1>2. call[c].next = 1 /\ ItemsOf(c) = {} /\ call[c].tenant \in Tenants
  BY <1>1 DEF InvoiceInv, CallIsSound
<1>r. PICK r \in CallRecords : r = call[c]
  BY <1>1
<1>3. PICK s \in SUBSET RateTables : s = {Rates(call[c].tenant)}
  BY <1>2, RatesAreRates
<1> DEFINE made == [r EXCEPT !.pc = "items", !.seen = s]
           fails == [r EXCEPT !.pc = "failed"]
<1>4. \A d \in Calls : ItemsOf(d)' = ItemsOf(d)
  BY <1>1 DEF ItemsOf
<1>5. CASE call' = [call EXCEPT ![c].pc = "failed"]
  <2>1. fails \in CallRecords /\ fails.pc = "failed" /\ fails.tenant = call[c].tenant
    BY <1>r DEF CallRecords
  <2>2. call' = [call EXCEPT ![c] = fails] /\ call'[c] = fails
    BY <1>1, <1>r, <1>5
  <2> HIDE DEF fails
  <2>3. CallIsSound(c)'
    BY <1>2, <2>1, <2>2 DEF CallIsSound
  <2> QED
    BY <1>1, <1>4, <2>1, <2>2, <2>3, CallMoves
<1>6. CASE call' = [call EXCEPT ![c].pc = "items", ![c].seen = {Rates(call[c].tenant)}]
  <2>1. /\ made \in CallRecords /\ made.pc = "items" /\ made.tenant = call[c].tenant
        /\ made.seen = s /\ made.next = 1
    BY <1>2, <1>r DEF CallRecords
  <2>2. call' = [call EXCEPT ![c] = made] /\ call'[c] = made
    BY <1>1, <1>3, <1>r, <1>6
  <2> HIDE DEF made
  <2>3. Dealt(c)' = {}
    <3>1. made.records \in Seq(UsageRecords)
      BY <2>1 DEF CallRecords
    <3>2. \A i \in DOMAIN made.records : i \in Nat /\ i >= 1
      BY <3>1
    <3> QED
      BY <2>1, <2>2, <3>2 DEF Dealt
  <2>4. Rates(call[c].tenant)' \in call'[c].seen /\ IsFiniteSet(call'[c].seen)
    <3>1. PICK t : t = call[c].tenant
      OBVIOUS
    <3>2. call'[c].tenant = t /\ call'[c].seen = s /\ s = {Rates(t)}
      BY <1>3, <2>1, <2>2, <3>1
    <3>3. Rates(t)' = Rates(t)
      BY <1>1, RatesStand
    <3>4. Rates(call[c].tenant)' \in call'[c].seen
      BY <3>2, <3>3 DEF Rates
    <3> QED
      BY <3>2, <3>4, FS_Singleton
  <2>5. InvoiceIsSound(c)'
    BY <1>2, <1>4, <2>3, <2>4 DEF InvoiceIsSound
  <2>6. CallIsSound(c)'
    BY <1>2, <2>1, <2>2, <2>5 DEF CallIsSound
  <2> QED
    BY <1>1, <1>4, <2>1, <2>2, <2>6, CallMoves
<1> QED
  BY <1>5, <1>6 DEF CreateInvoice

\* One more item, for the first record that costs half a cent at the rates of the
\* moment: the records that were passed over cost less at them.
LEMMA AddItemStep ==
  ASSUME UsageInv, InvoiceInv, NEW c \in Calls, AddItem(c)
  PROVE  InvoiceInv'
<1>r. PICK r \in CallRecords : r = call[c]
  BY DEF InvoiceInv, CallTypes
<1>p. PICK p : p = Rates(r.tenant)
  OBVIOUS
<1>u. PICK usage : usage = r.records
  OBVIOUS
<1> DEFINE charge(j) == Charge(Cost(p, usage[j]))
           cents(j) == Cents(Cost(p, usage[j]))
<1>1. /\ call \in [Calls -> CallRecords] /\ client \in Accounts
      /\ UNCHANGED <<pricingTiers, tier, apiKey, client>>
      /\ r.pc = "items" /\ Charged(c) # {}
  BY <1>r DEF AddItem, usageVars, stripeVars, InvoiceInv, CallTypes, UsageInv, UsageTypes
<1>2. InvoiceIsSound(c) /\ r.tenant \in Tenants /\ p \in r.seen
  BY <1>1, <1>r, <1>p DEF InvoiceInv, CallIsSound, InvoiceIsSound
<1>3. usage \in Seq(UsageRecords) /\ r.next \in Nat \ {0} /\ r.seen \in SUBSET RateTables
  BY <1>u DEF CallRecords
<1>4. Charged(c) = {j \in r.next .. Len(usage) : cents(j) > 0}
  BY <1>r, <1>p, <1>u DEF Charged
<1>5. \A j \in DOMAIN usage : IF cents(j) > 0 THEN charge(j) = cents(j) ELSE charge(j) = 0
  <2> SUFFICES ASSUME NEW j \in DOMAIN usage
               PROVE  IF cents(j) > 0 THEN charge(j) = cents(j) ELSE charge(j) = 0
    OBVIOUS
  <2>1. usage[j] \in UsageRecords /\ p \in RateTables
    BY <1>2, <1>3
  <2>2. Cost(p, usage[j]) \in Int
    BY <2>1, CostIsInt
  <2> QED
    BY <2>2, RoundingFacts
<1>6. PICK i \in Charged(c) : /\ \A j \in Charged(c) : i <= j
                             /\ i = CHOOSE j \in Charged(c) : \A k \in Charged(c) : j <= k
  <2>1. Charged(c) \in SUBSET Nat
    BY <1>3, <1>4
  <2>2. \E j \in Charged(c) : \A k \in Charged(c) : j <= k
    BY <1>1, <2>1, LeastNat
  <2> QED
    BY <2>2
<1>y. PICK y : y = Item(c, i)
  OBVIOUS
<1>7. /\ y.by = c /\ y.at = r.client /\ y.record = i /\ y.cents = cents(i)
      /\ \/ items' = items \cup {y} /\ call' = [call EXCEPT ![c].next = i + 1]
         \/ items' \in {items, items \cup {y}} /\ call' = [call EXCEPT ![c].pc = "failed"]
  BY <1>6, <1>r, <1>p, <1>u, <1>y DEF AddItem, Item
<1>8. i \in DOMAIN usage /\ i \in Nat \ {0} /\ r.next <= i /\ \A j \in DOMAIN usage : j \in Nat
  BY <1>3, <1>4, <1>6
<1>c. y.cents = charge(i)
  BY <1>4, <1>5, <1>6, <1>7, <1>8
<1>9. \A j \in DOMAIN usage : r.next <= j /\ j < i => charge(j) = 0
  <2> SUFFICES ASSUME NEW j \in DOMAIN usage, r.next <= j, j < i PROVE charge(j) = 0
    OBVIOUS
  <2> HIDE DEF charge, cents
  <2>1. j \in r.next .. Len(usage) /\ j \in Nat
    BY <1>3, <1>8
  <2>2. j \notin Charged(c)
    BY <1>6, <1>8, <2>1
  <2> QED
    BY <1>4, <1>5, <2>1, <2>2
<1>10. items' \in {items, items \cup {y}} /\ \A d \in Calls \ {c} : ItemsOf(d)' = ItemsOf(d)
  BY <1>7 DEF ItemsOf
<1>11. CASE call' = [call EXCEPT ![c].pc = "failed"]
  <2> DEFINE fails == [r EXCEPT !.pc = "failed"]
  <2>1. fails \in CallRecords /\ fails.pc = "failed" /\ fails.tenant = r.tenant
    BY DEF CallRecords
  <2>2. call' = [call EXCEPT ![c] = fails] /\ call'[c] = fails
    BY <1>1, <1>r, <1>11
  <2> HIDE DEF fails
  <2>3. CallIsSound(c)'
    BY <1>2, <2>1, <2>2 DEF CallIsSound
  <2> QED
    BY <1>1, <1>10, <2>1, <2>2, <2>3, CallMoves
<1>12. CASE items' = items \cup {y} /\ call' = [call EXCEPT ![c].next = i + 1]
  <2> DEFINE more == [r EXCEPT !.next = i + 1]
  <2>0. i + 1 \in Nat \ {0}
    BY <1>8
  <2>1. /\ more \in CallRecords /\ more.pc = "items" /\ more.tenant = r.tenant /\ more.next = i + 1
        /\ more.seen = r.seen /\ more.records = usage /\ more.client = r.client
    BY <1>1, <1>u, <2>0 DEF CallRecords
  <2>2. call' = [call EXCEPT ![c] = more] /\ call'[c] = more
    BY <1>1, <1>r, <1>12
  <2> HIDE DEF more
  <2>3. ItemsOf(c)' = ItemsOf(c) \cup {y}
    BY <1>7, <1>12 DEF ItemsOf
  <2>4. \A z \in ItemsOf(c) : ItemIsSound(c, z) /\ z.record \in DOMAIN usage /\ z.record < r.next
    BY <1>1, <1>2, <1>r, <1>u DEF InvoiceIsSound, ItemIsSound
  <2>5. \A z \in ItemsOf(c) : ItemIsSound(c, z)' /\ z.record # i
    <3> SUFFICES ASSUME NEW z \in ItemsOf(c) PROVE ItemIsSound(c, z)' /\ z.record # i
      OBVIOUS
    <3>1. z.record < i + 1 /\ z.record # i
      BY <1>3, <1>8, <2>4
    <3> QED
      BY <1>r, <1>u, <2>1, <2>2, <2>4, <3>1 DEF ItemIsSound
  <2>6. ItemIsSound(c, y)'
    <3>1. i < i + 1
      BY <1>8
    <3> QED
      BY <1>2, <1>7, <1>8, <1>c, <2>1, <2>2, <3>1 DEF ItemIsSound
  <2>7. ASSUME NEW j \in Dealt(c)' PROVE RecordIsSound(c, j)'
    <3>1. j \in DOMAIN usage /\ j < i + 1 /\ j \in Nat
      BY <1>8, <2>1, <2>2 DEF Dealt
    <3>2. CASE j < r.next
      <4>1. RecordIsSound(c, j)
        BY <1>2, <1>r, <1>u, <3>1, <3>2 DEF InvoiceIsSound, Dealt
      <4> QED
        BY <1>r, <1>u, <2>1, <2>2, <2>3, <4>1 DEF RecordIsSound
    <3>3. CASE r.next <= j /\ j < i
      <4>1. charge(j) = 0
        BY <1>9, <3>1, <3>3
      <4> QED
        BY <1>2, <2>1, <2>2, <4>1 DEF RecordIsSound
    <3>4. CASE j = i
      BY <1>7, <2>3, <3>4 DEF RecordIsSound
    <3> QED
      BY <1>3, <1>8, <3>1, <3>2, <3>3, <3>4
  <2>8. \A w, z \in ItemsOf(c)' : w.record = z.record => w = z
    BY <1>2, <1>7, <2>3, <2>5 DEF InvoiceIsSound
  <2>9. Rates(call[c].tenant)' \in call'[c].seen /\ IsFiniteSet(call'[c].seen)
    <3>1. call'[c].tenant = r.tenant /\ call'[c].seen = r.seen
      BY <2>1, <2>2
    <3>2. Rates(r.tenant)' = Rates(r.tenant)
      BY <1>1, RatesStand
    <3>3. IsFiniteSet(r.seen)
      BY <1>2, <1>r DEF InvoiceIsSound
    <3>4. Rates(call[c].tenant)' \in call'[c].seen
      BY <1>2, <1>p, <3>1, <3>2 DEF Rates
    <3> QED
      BY <3>1, <3>3, <3>4
  <2>10. InvoiceIsSound(c)'
    BY <2>3, <2>5, <2>6, <2>7, <2>8, <2>9, Zenon DEF InvoiceIsSound
  <2>11. CallIsSound(c)'
    BY <1>2, <2>1, <2>2, <2>10 DEF CallIsSound
  <2> QED
    BY <1>1, <1>10, <2>1, <2>2, <2>11, CallMoves
<1> QED
  BY <1>7, <1>11, <1>12

\* Nothing is left to charge: what has no item costs less at the rates of the moment.
LEMMA FinalizeStep ==
  ASSUME UsageInv, InvoiceInv, NEW c \in Calls, Finalize(c)
  PROVE  InvoiceInv'
<1>r. PICK r \in CallRecords : r = call[c]
  BY DEF InvoiceInv, CallTypes
<1>p. PICK p : p = Rates(r.tenant)
  OBVIOUS
<1>u. PICK usage : usage = r.records
  OBVIOUS
<1> DEFINE charge(j) == Charge(Cost(p, usage[j]))
           cents(j) == Cents(Cost(p, usage[j]))
<1>1. /\ call \in [Calls -> CallRecords] /\ client \in Accounts
      /\ UNCHANGED <<pricingTiers, tier, items, apiKey, client>>
      /\ r.pc = "items" /\ Charged(c) = {}
  BY <1>r DEF Finalize, usageVars, stripeVars, InvoiceInv, CallTypes, UsageInv, UsageTypes
<1>2. InvoiceIsSound(c) /\ r.tenant \in Tenants /\ p \in r.seen
  BY <1>1, <1>r, <1>p DEF InvoiceInv, CallIsSound, InvoiceIsSound
<1>3. usage \in Seq(UsageRecords) /\ r.next \in Nat \ {0} /\ r.seen \in SUBSET RateTables
  BY <1>u DEF CallRecords
<1>4. \A j \in DOMAIN usage : IF cents(j) > 0 THEN charge(j) = cents(j) ELSE charge(j) = 0
  <2> SUFFICES ASSUME NEW j \in DOMAIN usage
               PROVE  IF cents(j) > 0 THEN charge(j) = cents(j) ELSE charge(j) = 0
    OBVIOUS
  <2>1. usage[j] \in UsageRecords /\ p \in RateTables
    BY <1>2, <1>3
  <2>2. Cost(p, usage[j]) \in Int
    BY <2>1, CostIsInt
  <2> QED
    BY <2>2, RoundingFacts
<1>5. \A j \in DOMAIN usage : ~(j < r.next) => charge(j) = 0
  <2> SUFFICES ASSUME NEW j \in DOMAIN usage, ~(j < r.next) PROVE charge(j) = 0
    OBVIOUS
  <2>2. j \in r.next .. Len(usage)
    BY <1>3
  <2>3. ~(cents(j) > 0)
    BY <1>1, <1>r, <1>p, <1>u, <2>2 DEF Charged
  <2> HIDE DEF charge, cents
  <2> QED
    BY <1>4, <2>3
<1>6. PICK pc \in {"finalized", "failed"} : call' = [call EXCEPT ![c].pc = pc]
  BY DEF Finalize
<1> DEFINE after == [r EXCEPT !.pc = pc]
<1>7. /\ after \in CallRecords /\ after.pc = pc /\ after.tenant = r.tenant /\ after.next = r.next
      /\ after.seen = r.seen /\ after.records = usage /\ after.client = r.client
  BY <1>u DEF CallRecords
<1>8. call' = [call EXCEPT ![c] = after] /\ call'[c] = after
  BY <1>1, <1>6, <1>r
<1> HIDE DEF after
<1>9. \A d \in Calls : ItemsOf(d)' = ItemsOf(d)
  BY <1>1 DEF ItemsOf
<1>10. \A z \in ItemsOf(c) : ItemIsSound(c, z)'
  BY <1>2, <1>6, <1>7, <1>8, <1>r, <1>u DEF InvoiceIsSound, ItemIsSound
<1>11. \A j \in DOMAIN usage : RecordIsSound(c, j)'
  <2> SUFFICES ASSUME NEW j \in DOMAIN usage PROVE RecordIsSound(c, j)'
    OBVIOUS
  <2>1. CASE j < r.next
    <3>1. RecordIsSound(c, j)
      BY <1>2, <1>r, <1>u, <2>1 DEF InvoiceIsSound, Dealt
    <3> QED
      BY <1>7, <1>8, <1>9, <1>r, <1>u, <3>1 DEF RecordIsSound
  <2>2. CASE ~(j < r.next)
    <3>1. charge(j) = 0
      BY <1>5, <2>2
    <3> QED
      BY <1>2, <1>7, <1>8, <3>1 DEF RecordIsSound
  <2> QED
    BY <2>1, <2>2
<1>12. Dealt(c)' \subseteq DOMAIN usage
  BY <1>7, <1>8 DEF Dealt
<1>13. /\ IsFiniteSet(call'[c].seen) /\ call'[c].pc # "items"
       /\ \A w, z \in ItemsOf(c) : w.record = z.record => w = z
  BY <1>2, <1>6, <1>7, <1>8, <1>r, <1>u DEF InvoiceIsSound
<1>14. InvoiceIsSound(c)'
  BY <1>9, <1>10, <1>11, <1>12, <1>13 DEF InvoiceIsSound
<1>15. CallIsSound(c)'
  BY <1>2, <1>6, <1>7, <1>8, <1>14 DEF CallIsSound
<1> QED
  BY <1>1, <1>7, <1>8, <1>9, <1>15, CallMoves

\* The calls that make no invoice.
LEMMA RequestStep ==
  ASSUME InvoiceInv, NEW c \in Calls, Request(c) \/ ReportUsage(c)
  PROVE  InvoiceInv'
<1>r. PICK r \in CallRecords : r = call[c]
  BY DEF InvoiceInv, CallTypes
<1>1. /\ call \in [Calls -> CallRecords] /\ client \in Accounts
      /\ UNCHANGED <<pricingTiers, tier, items, apiKey, client>> /\ r.pc = "create" /\ r.use # "invoice"
  BY <1>r DEF Request, ReportUsage, usageVars, stripeVars, InvoiceInv, CallTypes
<1>2. ItemsOf(c) = {} /\ r.tenant \in Tenants
  BY <1>1, <1>r DEF InvoiceInv, CallIsSound
<1>3. \/ call' = [call EXCEPT ![c] = [r EXCEPT !.pc = "failed"]]
      \/ call' = [call EXCEPT ![c] = [r EXCEPT !.pc = "done"]]
      \/ call' = [call EXCEPT ![c] = [r EXCEPT !.next = 2]]
  BY <1>1, <1>r DEF Request, ReportUsage
<1>4. PICK after \in CallRecords :
        /\ call' = [call EXCEPT ![c] = after] /\ after.tenant = r.tenant
        /\ after.pc \in {"failed", "done"} \/ (after.pc = "create" /\ after.use # "invoice")
  <2>1. PICK two \in Nat \ {0} : two = 2
    OBVIOUS
  <2>2. /\ [r EXCEPT !.pc = "failed"] \in CallRecords /\ [r EXCEPT !.pc = "failed"].pc = "failed"
        /\ [r EXCEPT !.pc = "failed"].tenant = r.tenant
    BY DEF CallRecords
  <2>3. /\ [r EXCEPT !.pc = "done"] \in CallRecords /\ [r EXCEPT !.pc = "done"].pc = "done"
        /\ [r EXCEPT !.pc = "done"].tenant = r.tenant
    BY DEF CallRecords
  <2>4. /\ [r EXCEPT !.next = two] \in CallRecords /\ [r EXCEPT !.next = two].pc = "create"
        /\ [r EXCEPT !.next = two].tenant = r.tenant /\ [r EXCEPT !.next = two].use # "invoice"
    BY <1>1 DEF CallRecords
  <2> QED
    BY <1>3, <2>1, <2>2, <2>3, <2>4
<1>5. call'[c] = after /\ \A d \in Calls : ItemsOf(d)' = ItemsOf(d)
  BY <1>1, <1>4 DEF ItemsOf
<1>6. CallIsSound(c)'
  BY <1>2, <1>4, <1>5 DEF CallIsSound
<1> QED
  BY <1>1, <1>4, <1>5, <1>6, CallMoves

\* The client is replaced under calls that hold the old one.
LEMMA BuildClientStep ==
  ASSUME InvoiceInv, NEW c \in Calls, BuildClient(c)
  PROVE  InvoiceInv'
<1>1. /\ call \in [Calls -> CallRecords] /\ call[c] \in CallRecords /\ apiKey \in Accounts
      /\ UNCHANGED <<pricingTiers, tier, items, apiKey>> /\ client' = apiKey /\ call[c].pc = "import"
  BY DEF BuildClient, usageVars, InvoiceInv, CallTypes, Accounts
<1>2. ItemsOf(c) = {} /\ call[c].tenant \in Tenants /\ call[c].next = 1
  BY <1>1 DEF InvoiceInv, CallIsSound
<1>3. PICK after \in CallRecords : /\ call' = [call EXCEPT ![c] = after] /\ after.pc = "create"
                                   /\ after.tenant = call[c].tenant /\ after.next = 1
  <2>1. PICK r \in CallRecords : r = call[c]
    BY <1>1
  <2>2. PICK account \in Accounts : account = apiKey
    BY <1>1
  <2> DEFINE served == [r EXCEPT !.pc = "create", !.client = account]
  <2>3. served \in CallRecords /\ served.tenant = r.tenant /\ served.next = r.next /\ served.pc = "create"
    BY DEF CallRecords
  <2>4. call' = [call EXCEPT ![c] = served]
    BY <2>1, <2>2 DEF BuildClient, Served
  <2> HIDE DEF served
  <2> QED
    BY <1>2, <2>1, <2>3, <2>4
<1>4. call'[c] = after /\ \A d \in Calls : ItemsOf(d)' = ItemsOf(d)
  BY <1>1, <1>3 DEF ItemsOf
<1>5. CallIsSound(c)'
  BY <1>2, <1>3, <1>4 DEF CallIsSound
<1> QED
  BY <1>1, <1>3, <1>4, <1>5, CallMoves

\* An invoice stays sound under every operation of billing.
LEMMA InvoiceStep == ASSUME UsageInv, InvoiceInv, [BillingNext]_billingVars PROVE InvoiceInv'
<1>1. ASSUME UNCHANGED <<pricingTiers, tier, call, items>>, client' \in Accounts, apiKey' \in {Key, None}
      PROVE  InvoiceInv'
  <2>1. CallTypes'
    BY <1>1 DEF InvoiceInv, CallTypes
  <2>2. ASSUME NEW c \in Calls PROVE CallIsSound(c)'
    <3>1. CallIsSound(c) /\ call'[c] = call[c] /\ ItemsOf(c)' = ItemsOf(c)
      BY <1>1 DEF InvoiceInv, ItemsOf
    <3>2. KeepsItsRates(c)
      BY <1>1, RatesStand DEF KeepsItsRates
    <3> QED
      BY <1>1, <3>1, <3>2, CallStands
  <2> QED
    BY <2>1, <2>2 DEF InvoiceInv
<1>2. client \in Accounts /\ apiKey \in {Key, None}
  BY DEF InvoiceInv, CallTypes
<1>3. ASSUME NEW t \in Tenants,
             (\E r \in Runs : RecordTask(r, t)) \/ RecordUnit(t) \/ PostUsage(t) \/ (\E n \in Caps : SetResourceLimits(t, n))
      PROVE  InvoiceInv'
  BY <1>1, <1>2, <1>3 DEF RecordTask, RecordUnit, PostUsage, RecordOne, SetResourceLimits, stripeVars
<1>4. ASSUME NEW r \in Runs, RecordCompute(r) PROVE InvoiceInv'
  BY <1>1, <1>2, <1>4 DEF RecordCompute, stripeVars
<1>5. ASSUME NEW key \in {Key, None}, InitStripe(key) \/ \E injected \in Clients : InjectClient(key, injected)
      PROVE  InvoiceInv'
  BY <1>1, <1>2, <1>5 DEF InitStripe, InjectClient, usageVars, Accounts
<1>6. CASE UNCHANGED billingVars
  BY <1>1, <1>2, <1>6 DEF billingVars, usageVars, stripeVars
<1>7. CASE \E t \in Tenants :
             \/ \E p \in Tiers : AssignTier(t, p)
             \/ \E c \in Calls, use \in Uses : GetStripe(c, t, use)
  BY <1>7, AssignTierStep, GetStripeStep
<1>9. CASE \E p \in Tiers, rates \in Registrable : RegisterTier(p, rates)
  BY <1>9, RegisterTierStep
<1>8. CASE \E c \in Calls : \/ BuildClient(c) \/ Request(c) \/ ReportUsage(c)
                            \/ CreateInvoice(c) \/ AddItem(c) \/ Finalize(c)
  BY <1>8, BuildClientStep, RequestStep, CreateInvoiceStep, AddItemStep, FinalizeStep
<1> QED
  BY <1>3, <1>4, <1>5, <1>6, <1>7, <1>8, <1>9 DEF BillingNext

-----------------------------------------------------------------------------
(* Landing pages.                                                          *)

Pages == [slug : Slugs, active : BOOLEAN, views : Nat]
GetterRecords == [pc : {"new", "found", "missing", "counted", "lost"}, slug : Slugs \cup {NoVariant},
                  moved : BOOLEAN]

PageTypes ==
  /\ landingPages \in Seq(Pages)
  /\ pageViews \in Seq(Nat) /\ Len(pageViews) = Len(landingPages)
  /\ getter \in [Getters -> GetterRecords]

\* A page that was found keeps its slug or is noticed to have moved.
FoundIsThere ==
  \A g \in Getters :
    getter[g].pc = "found" /\ ~getter[g].moved => WithSlug(getter[g].slug) # {}

CountedGetters == {g \in Getters : getter[g].pc = "counted"}

PageInv == PageTypes /\ FoundIsThere /\ ViewsAreLostToRenames

\* Another element with nothing to count, and one more of what is counted.
LEMMA SumOfAppended ==
  ASSUME NEW f \in Seq(Nat)
  PROVE  SumFunction(Append(f, 0)) = SumFunction(f)
<1> DEFINE n == Len(f)
           g == Append(f, 0)
<1>1. /\ n \in Nat /\ DOMAIN f = 1 .. n /\ DOMAIN g = 1 .. n + 1 /\ g[n + 1] = 0
      /\ \A x \in 1 .. n : g[x] = f[x] /\ f[x] \in Nat
      /\ \A x \in 1 .. n + 1 : g[x] \in Int
      /\ (1 .. n + 1) \ {n + 1} = 1 .. n
  OBVIOUS
<1> HIDE DEF n, g
<1>2. IsFiniteSet(1 .. n + 1) /\ IsFiniteSet(1 .. n)
  BY <1>1, FS_Interval
<1>3. n + 1 \in 1 .. n + 1
  BY <1>1
<1>4. SumFunctionOnSet(g, 1 .. n + 1) = g[n + 1] + SumFunctionOnSet(g, (1 .. n + 1) \ {n + 1})
  BY <1>1, <1>2, <1>3, SumOfRest
<1>5. SumFunctionOnSet(g, 1 .. n) = SumFunctionOnSet(f, 1 .. n)
  BY <1>1, <1>2, SumOfSame
<1>6. SumFunctionOnSet(f, 1 .. n) \in Int
  <2>1. \A x \in 1 .. n : f[x] \in Int
    BY <1>1
  <2> QED
    BY <1>2, <2>1, SumIsInt
<1>7. SumFunctionOnSet(g, 1 .. n + 1) = 0 + SumFunctionOnSet(f, 1 .. n)
  BY <1>1, <1>4, <1>5
<1>8. SumFunctionOnSet(g, 1 .. n + 1) = SumFunctionOnSet(f, 1 .. n)
  BY <1>6, <1>7
<1>9. SumFunction(g) = SumFunctionOnSet(g, 1 .. n + 1) /\ SumFunction(f) = SumFunctionOnSet(f, 1 .. n)
  BY <1>1 DEF SumFunction
<1> QED
  BY <1>8, <1>9 DEF g

LEMMA SumOfIncremented ==
  ASSUME NEW f \in Seq(Nat), NEW i \in DOMAIN f
  PROVE  /\ SumFunction([f EXCEPT ![i] = @ + 1]) = SumFunction(f) + 1
         /\ SumFunction(f) \in Int
<1> DEFINE n == Len(f)
           g == [f EXCEPT ![i] = @ + 1]
           D == DOMAIN f
<1>1. /\ n \in Nat /\ D = 1 .. n /\ DOMAIN g = D /\ g[i] = f[i] + 1 /\ f[i] \in Nat
      /\ \A x \in D : f[x] \in Nat
      /\ \A x \in D \ {i} : g[x] = f[x]
  OBVIOUS
<1>2. (\A x \in D : f[x] \in Int) /\ (\A x \in D : g[x] \in Int)
  BY <1>1
<1> HIDE DEF n, g
<1>3. IsFiniteSet(D) /\ IsFiniteSet(D \ {i})
  <2>1. IsFiniteSet(1 .. n)
    BY <1>1, FS_Interval
  <2> QED
    BY <1>1, <2>1, FS_RemoveElement
<1>4. SumFunctionOnSet(g, D) = g[i] + SumFunctionOnSet(g, D \ {i})
  BY <1>2, <1>3, SumOfRest
<1>5. SumFunctionOnSet(f, D) = f[i] + SumFunctionOnSet(f, D \ {i})
  BY <1>2, <1>3, SumOfRest
<1>6. SumFunctionOnSet(g, D \ {i}) = SumFunctionOnSet(f, D \ {i})
  BY <1>1, <1>3, SumOfSame
<1>7. SumFunctionOnSet(f, D \ {i}) \in Int /\ SumFunctionOnSet(f, D) \in Int
  BY <1>2, <1>3, SumIsInt
<1>8. SumFunctionOnSet(g, D) = SumFunctionOnSet(f, D) + 1
  BY <1>1, <1>4, <1>5, <1>6, <1>7
<1>9. SumFunction(g) = SumFunctionOnSet(g, D) /\ SumFunction(f) = SumFunctionOnSet(f, D)
  BY <1>1 DEF SumFunction
<1> QED
  BY <1>7, <1>8, <1>9 DEF g

LEMMA GetterFacts ==
  /\ IsFiniteSet(Getters)
  /\ \A S \in SUBSET Getters : IsFiniteSet(S) /\ Cardinality(S) \in Nat
<1>1. IsFiniteSet(Getters)
  BY GrowthAssumption DEF GrowthAssumption
<1> QED
  BY <1>1, FS_Subset, FS_CardinalityType

\* No page, no request.
LEMMA PagesInitial == GrowthInit => PageInv
<1> SUFFICES ASSUME GrowthInit PROVE PageInv
  OBVIOUS
<1>1. PageTypes
  <2>1. <<>> \in Seq(Pages) /\ <<>> \in Seq(Nat)
    OBVIOUS
  <2> QED
    BY <2>1 DEF GrowthInit, PageTypes, GetterRecords
<1>2. FoundIsThere
  BY DEF GrowthInit, FoundIsThere
<1>3. {g \in Getters : getter[g].pc = "counted"} = {}
  BY DEF GrowthInit
<1>4. SumFunction(pageViews) = 0
  <2>1. DOMAIN pageViews = {}
    BY DEF GrowthInit
  <2> QED
    BY <2>1, SumOfNone DEF SumFunction
<1>5. Cardinality({}) = 0
  BY FS_EmptySet
<1>6. ViewsAreLostToRenames
  BY <1>3, <1>4, <1>5 DEF ViewsAreLostToRenames, GrowthInit
<1> QED
  BY <1>1, <1>2, <1>6 DEF PageInv

\* Fields of the records, and of those that differ in one of them.
LEMMA PageFields ==
  ASSUME NEW p \in Pages, NEW s \in Slugs, NEW n \in Nat
  PROVE  /\ p.slug \in Slugs
         /\ [p EXCEPT !.slug = s] \in Pages /\ [p EXCEPT !.slug = s].slug = s
         /\ [p EXCEPT !.active = ~@] \in Pages /\ [p EXCEPT !.active = ~@].slug = p.slug
         /\ [p EXCEPT !.views = n] \in Pages /\ [p EXCEPT !.views = n].slug = p.slug
BY DEF Pages

LEMMA GetterMoved ==
  ASSUME NEW r \in GetterRecords, NEW b \in BOOLEAN
  PROVE  /\ [r EXCEPT !.moved = b] \in GetterRecords /\ [r EXCEPT !.moved = b].moved = b
         /\ [r EXCEPT !.moved = b].pc = r.pc /\ [r EXCEPT !.moved = b].slug = r.slug
BY DEF GetterRecords

LEMMA GetterGoesOn ==
  ASSUME NEW r \in GetterRecords, NEW pc \in {"new", "found", "missing", "counted", "lost"}
  PROVE  /\ [r EXCEPT !.pc = pc] \in GetterRecords /\ [r EXCEPT !.pc = pc].pc = pc
         /\ [r EXCEPT !.pc = pc].moved = r.moved
BY DEF GetterRecords

\* Pages and requests keep their invariant, whichever of them moves.
LEMMA PageStep == ASSUME PageInv, [PageNext]_pageVars PROVE PageInv'
<1>0. PageTypes /\ FoundIsThere /\ ViewsAreLostToRenames
  BY DEF PageInv
<1>d. DOMAIN landingPages = DOMAIN pageViews /\ \A i \in DOMAIN landingPages : landingPages[i] \in Pages
  BY <1>0 DEF PageTypes
\* What is the same when the views and the counted getters are.
<1>s. ASSUME pageViews' = pageViews, CountedGetters' = CountedGetters,
             \A g \in Getters : getter'[g].pc = "lost" => getter'[g].moved
      PROVE  ViewsAreLostToRenames'
  BY <1>0, <1>s DEF ViewsAreLostToRenames, CountedGetters
<1>1. ASSUME NEW s \in Slugs, CreateLandingPage(s) PROVE PageInv'
  <2> DEFINE p == [slug |-> s, active |-> TRUE, views |-> 0]
  <2>1. landingPages' = Append(landingPages, p) /\ pageViews' = Append(pageViews, 0) /\ getter' = getter
    BY <1>1 DEF CreateLandingPage
  <2>2. p \in Pages
    BY DEF Pages
  <2> HIDE DEF p
  <2>3. PageTypes'
    BY <1>0, <2>1, <2>2 DEF PageTypes
  <2>4. \A i \in DOMAIN landingPages : i \in DOMAIN landingPages' /\ landingPages'[i] = landingPages[i]
    BY <1>0, <2>1, <2>2 DEF PageTypes
  <2>5. FoundIsThere'
    BY <1>0, <2>1, <2>4 DEF FoundIsThere, WithSlug
  <2>6. SumFunction(pageViews') = SumFunction(pageViews)
    BY <1>0, <2>1, SumOfAppended DEF PageTypes
  <2>7. ViewsAreLostToRenames'
    BY <1>0, <2>1, <2>6 DEF ViewsAreLostToRenames
  <2> QED
    BY <2>3, <2>5, <2>7 DEF PageInv
<1>2. ASSUME NEW s \in Slugs, RecordConversion(s) PROVE PageInv'
  BY <1>0, <1>2 DEF RecordConversion, PageInv, PageTypes, FoundIsThere, WithSlug, ViewsAreLostToRenames
<1>3. ASSUME NEW s \in Slugs, NEW g \in Getters, GetPage(g, s) PROVE PageInv'
  <2> DEFINE r == [pc |-> IF \E i \in WithSlug(s) : landingPages[i].active THEN "found" ELSE "missing",
                   slug |-> s, moved |-> FALSE]
  <2>1. getter' = [getter EXCEPT ![g] = r] /\ UNCHANGED <<landingPages, pageViews>> /\ getter[g].pc = "new"
    BY <1>3 DEF GetPage
  <2>2. /\ r \in GetterRecords /\ r.slug = s /\ r.pc \in {"found", "missing"}
        /\ r.pc = "found" => WithSlug(s) # {}
    BY DEF GetterRecords
  <2> HIDE DEF r
  <2>3. PageTypes'
    BY <1>0, <2>1, <2>2 DEF PageTypes
  <2>4. WithSlug(s)' = WithSlug(s) /\ \A h \in Getters \ {g} : getter'[h] = getter[h]
    BY <1>0, <2>1 DEF WithSlug, PageTypes
  <2>5. getter'[g] = r
    BY <1>0, <2>1 DEF PageTypes
  <2>6. FoundIsThere'
    BY <1>0, <2>1, <2>2, <2>4, <2>5 DEF FoundIsThere, WithSlug
  <2>7. CountedGetters' = CountedGetters
    BY <2>1, <2>2, <2>4, <2>5 DEF CountedGetters
  <2>8. \A h \in Getters : getter'[h].pc = "lost" => getter'[h].moved
    BY <1>0, <2>2, <2>4, <2>5 DEF ViewsAreLostToRenames
  <2> QED
    BY <1>s, <2>1, <2>3, <2>6, <2>7, <2>8 DEF PageInv
<1>4. ASSUME NEW i \in DOMAIN landingPages, UpdateLandingPage(i) PROVE PageInv'
  <2>0. pageViews' = pageViews
    BY <1>4 DEF UpdateLandingPage
  <2>1. ASSUME NEW s \in Slugs, s # landingPages[i].slug,
               landingPages' = [landingPages EXCEPT ![i].slug = s],
               getter' = [g \in Getters |-> [getter[g] EXCEPT
                 !.moved = @ \/ (getter[g].pc = "found" /\ getter[g].slug = landingPages[i].slug)]]
        PROVE  PageInv'
    <3>1. landingPages' = [landingPages EXCEPT ![i] = [landingPages[i] EXCEPT !.slug = s]]
      BY <1>0, <2>1 DEF PageTypes
    <3>2. /\ [landingPages[i] EXCEPT !.slug = s] \in Pages /\ [landingPages[i] EXCEPT !.slug = s].slug = s
      BY <1>d, <2>1, PageFields
    <3>3. /\ landingPages' \in Seq(Pages) /\ Len(landingPages') = Len(landingPages)
          /\ DOMAIN landingPages' = DOMAIN landingPages
          /\ \A j \in DOMAIN landingPages \ {i} : landingPages'[j] = landingPages[j]
      BY <1>0, <3>1, <3>2 DEF PageTypes
    <3> DEFINE gone(g) == getter[g].moved \/ (getter[g].pc = "found" /\ getter[g].slug = landingPages[i].slug)
    <3>4. \A g \in Getters : /\ getter'[g] \in GetterRecords
                             /\ getter'[g].pc = getter[g].pc /\ getter'[g].slug = getter[g].slug
                             /\ getter'[g].moved = gone(g)
      <4> SUFFICES ASSUME NEW g \in Getters
                   PROVE  /\ getter'[g] \in GetterRecords
                          /\ getter'[g].pc = getter[g].pc /\ getter'[g].slug = getter[g].slug
                          /\ getter'[g].moved = gone(g)
        OBVIOUS
      <4>1. getter[g] \in GetterRecords
        BY <1>0 DEF PageTypes
      <4>2. gone(g) \in BOOLEAN
        BY <4>1 DEF GetterRecords
      <4>3. getter'[g] = [getter[g] EXCEPT !.moved = gone(g)]
        BY <2>1
      <4> HIDE DEF gone
      <4> QED
        BY <4>1, <4>2, <4>3, GetterMoved
    <3>5. PageTypes'
      <4>1. getter' \in [Getters -> GetterRecords]
        BY <2>1, <3>4
      <4> QED
        BY <1>0, <2>0, <3>3, <4>1 DEF PageTypes
    <3>6. FoundIsThere'
      <4> SUFFICES ASSUME NEW g \in Getters, getter'[g].pc = "found", ~getter'[g].moved
                   PROVE  \E j \in DOMAIN landingPages' : landingPages'[j].slug = getter'[g].slug
        BY DEF FoundIsThere, WithSlug
      <4>1. ~getter[g].moved /\ getter[g].pc = "found" /\ getter[g].slug # landingPages[i].slug
        BY <3>4
      <4>2. PICK j \in DOMAIN landingPages : landingPages[j].slug = getter[g].slug
        BY <1>0, <4>1 DEF FoundIsThere, WithSlug
      <4>3. j # i
        BY <4>1, <4>2
      <4> QED
        BY <3>3, <3>4, <4>2, <4>3
    <3>7. CountedGetters' = CountedGetters
      BY <3>4 DEF CountedGetters
    <3>8. \A g \in Getters : getter'[g].pc = "lost" => getter'[g].moved
      BY <1>0, <3>4 DEF ViewsAreLostToRenames
    <3> QED
      BY <1>s, <2>0, <3>5, <3>6, <3>7, <3>8 DEF PageInv
  <2>2. ASSUME NEW p \in Pages, p.slug = landingPages[i].slug, landingPages' = [landingPages EXCEPT ![i] = p],
               getter' = getter
        PROVE  PageInv'
    <3>1. /\ landingPages' \in Seq(Pages) /\ Len(landingPages') = Len(landingPages)
          /\ DOMAIN landingPages' = DOMAIN landingPages
          /\ \A j \in DOMAIN landingPages : landingPages'[j].slug = landingPages[j].slug
      BY <1>0, <2>2 DEF PageTypes
    <3>2. PageTypes'
      BY <1>0, <2>0, <2>2, <3>1 DEF PageTypes
    <3>3. FoundIsThere'
      BY <1>0, <2>2, <3>1 DEF FoundIsThere, WithSlug
    <3>4. ViewsAreLostToRenames'
      BY <1>0, <2>0, <2>2 DEF ViewsAreLostToRenames
    <3> QED
      BY <3>2, <3>3, <3>4 DEF PageInv
  <2>3. CASE landingPages' = [landingPages EXCEPT ![i].active = ~@] /\ getter' = getter
    <3>1. landingPages' = [landingPages EXCEPT ![i] = [landingPages[i] EXCEPT !.active = ~@]]
      BY <1>0, <2>3 DEF PageTypes
    <3>2. [landingPages[i] EXCEPT !.active = ~@] \in Pages
          /\ [landingPages[i] EXCEPT !.active = ~@].slug = landingPages[i].slug
      BY <1>d DEF Pages
    <3> QED
      BY <2>2, <2>3, <3>1, <3>2
  <2>4. CASE landingPages' = [landingPages EXCEPT ![i].views = 0] /\ getter' = getter
    <3>1. landingPages' = [landingPages EXCEPT ![i] = [landingPages[i] EXCEPT !.views = 0]]
      BY <1>0, <2>4 DEF PageTypes
    <3>2. [landingPages[i] EXCEPT !.views = 0] \in Pages
          /\ [landingPages[i] EXCEPT !.views = 0].slug = landingPages[i].slug
      BY <1>d DEF Pages
    <3> QED
      BY <2>2, <2>4, <3>1, <3>2
  <2> QED
    BY <1>4, <2>1, <2>3, <2>4 DEF UpdateLandingPage
<1>5. ASSUME NEW g \in Getters, RecordPageView(g) PROVE PageInv'
  <2> DEFINE S == WithSlug(getter[g].slug)
             i == Oldest(S)
  <2>0. getter[g] \in GetterRecords /\ getter[g].pc = "found"
    BY <1>0, <1>5 DEF PageTypes, RecordPageView
  <2>1. CASE S = {}
    <3>1. getter' = [getter EXCEPT ![g] = [getter[g] EXCEPT !.pc = "lost"]] /\ UNCHANGED <<landingPages, pageViews>>
      BY <1>0, <1>5, <2>1 DEF RecordPageView, PageTypes
    <3>2. getter[g].moved
      BY <1>0, <2>0, <2>1 DEF FoundIsThere
    <3>3. /\ getter'[g] \in GetterRecords /\ getter'[g].pc = "lost" /\ getter'[g].moved
          /\ \A h \in Getters \ {g} : getter'[h] = getter[h]
      <4> DEFINE r == [getter[g] EXCEPT !.pc = "lost"]
      <4>1. r \in GetterRecords /\ r.pc = "lost" /\ r.moved = getter[g].moved
        BY <2>0, GetterGoesOn
      <4>2. getter' = [getter EXCEPT ![g] = r]
        BY <3>1
      <4> HIDE DEF r
      <4> QED
        BY <1>0, <3>2, <4>1, <4>2 DEF PageTypes
    <3>4. PageTypes'
      BY <1>0, <3>1, <3>3 DEF PageTypes
    <3>5. FoundIsThere'
      BY <1>0, <3>1, <3>3 DEF FoundIsThere, WithSlug
    <3>6. CountedGetters' = CountedGetters
      BY <2>0, <3>3 DEF CountedGetters
    <3>7. \A h \in Getters : getter'[h].pc = "lost" => getter'[h].moved
      BY <1>0, <3>3 DEF ViewsAreLostToRenames
    <3> QED
      BY <1>s, <3>1, <3>4, <3>5, <3>6, <3>7 DEF PageInv
  <2>2. CASE S # {}
    <3>1. /\ pageViews' = [pageViews EXCEPT ![i] = @ + 1]
          /\ landingPages' = [landingPages EXCEPT ![i].views = pageViews[i] + 1]
          /\ getter' = [getter EXCEPT ![g].pc = "counted"]
      BY <1>5, <2>2 DEF RecordPageView
    <3>2. i \in S
      <4>1. S \in SUBSET Nat
        BY <1>0 DEF WithSlug, PageTypes
      <4> HIDE DEF S
      <4>2. \E j \in S : \A k \in S : j <= k
        BY <2>2, <4>1, LeastNat
      <4> QED
        BY <4>2 DEF Oldest
    <3> HIDE DEF i
    <3>3. i \in DOMAIN landingPages /\ i \in DOMAIN pageViews /\ pageViews[i] + 1 \in Nat
      BY <1>0, <1>d, <3>2 DEF WithSlug, PageTypes
    <3> DEFINE p == [landingPages[i] EXCEPT !.views = pageViews[i] + 1]
               r == [getter[g] EXCEPT !.pc = "counted"]
    <3>4. p \in Pages /\ p.slug = landingPages[i].slug
      BY <1>d, <3>3 DEF Pages
    <3>5. landingPages' = [landingPages EXCEPT ![i] = p]
      BY <1>0, <3>1, <3>3 DEF PageTypes
    <3>6. getter' = [getter EXCEPT ![g] = r]
      BY <1>0, <3>1 DEF PageTypes
    <3>7. r \in GetterRecords /\ r.pc = "counted"
      BY <2>0, GetterGoesOn
    <3> HIDE DEF p, r
    <3>8. /\ landingPages' \in Seq(Pages) /\ Len(landingPages') = Len(landingPages)
          /\ DOMAIN landingPages' = DOMAIN landingPages
          /\ \A j \in DOMAIN landingPages : landingPages'[j].slug = landingPages[j].slug
      BY <1>0, <3>3, <3>4, <3>5 DEF PageTypes
    <3>9. getter'[g] = r /\ \A h \in Getters \ {g} : getter'[h] = getter[h]
      BY <1>0, <3>6 DEF PageTypes
    <3>10. PageTypes'
      <4>1. pageViews' \in Seq(Nat) /\ Len(pageViews') = Len(pageViews)
        BY <1>0, <3>1, <3>3 DEF PageTypes
      <4>2. getter' \in [Getters -> GetterRecords]
        BY <1>0, <3>6, <3>7 DEF PageTypes
      <4> QED
        BY <1>0, <3>8, <4>1, <4>2 DEF PageTypes
    <3>11. FoundIsThere'
      BY <1>0, <3>7, <3>8, <3>9 DEF FoundIsThere, WithSlug
    <3>12. SumFunction(pageViews') = SumFunction(pageViews) + 1
      BY <1>0, <3>1, <3>3, SumOfIncremented DEF PageTypes
    <3>13. Cardinality(CountedGetters') = Cardinality(CountedGetters) + 1
      <4>1. CountedGetters' = CountedGetters \cup {g} /\ g \notin CountedGetters
        BY <2>0, <3>7, <3>9 DEF CountedGetters
      <4>2. CountedGetters \in SUBSET Getters
        BY DEF CountedGetters
      <4>3. IsFiniteSet(CountedGetters)
        BY <4>2, GetterFacts
      <4> QED
        BY <4>1, <4>3, FS_AddElement
    <3>14. \A h \in Getters : getter'[h].pc = "lost" => getter'[h].moved
      BY <1>0, <3>7, <3>9 DEF ViewsAreLostToRenames
    <3>15. ViewsAreLostToRenames'
      BY <1>0, <3>12, <3>13, <3>14 DEF ViewsAreLostToRenames, CountedGetters
    <3> QED
      BY <3>10, <3>11, <3>15 DEF PageInv
  <2> QED
    BY <2>1, <2>2
<1>6. CASE UNCHANGED pageVars
  BY <1>0, <1>6 DEF pageVars, PageInv, PageTypes, FoundIsThere, WithSlug, ViewsAreLostToRenames
<1> QED
  BY <1>1, <1>2, <1>3, <1>4, <1>5, <1>6 DEF PageNext

-----------------------------------------------------------------------------
(* The A/B test.                                                           *)

VariantResults == [views : Nat, conversions : Nat, rate : Nat \X (Nat \ {0})]

\* The rate is the one that the counts have now: every count recomputes it.
RatesAreFresh ==
  \A v \in Variants :
    results[v].rate = IF results[v].views > 0 THEN <<results[v].conversions, results[v].views>>
                      ELSE <<0, 1>>

TestInv == results \in [Variants -> VariantResults] /\ RatesAreFresh /\ WinnerIsBest

LEMMA VariantFacts ==
  /\ Len(VariantOrder) \in Nat \ {0}
  /\ \A i \in DOMAIN VariantOrder : VariantOrder[i] \in Variants
  /\ \A v \in Variants : \E i \in DOMAIN VariantOrder : VariantOrder[i] = v
  /\ DOMAIN VariantOrder = 1 .. Len(VariantOrder)
  /\ NoVariant \notin Variants
  /\ Share \in [Users -> Variants \cup {NoVariant}]
BY GrowthAssumption DEF GrowthAssumption, Variants, Range

\* Cross-multiplication: if r is not above s, which is below t, r is below t.
LEMMA Multiplied ==
  ASSUME NEW x \in Nat, NEW y \in Nat, NEW z \in Nat
  PROVE  /\ x <= y => x * z <= y * z
         /\ x * z < y * z => x < y
OBVIOUS

LEMMA AboveIsOrder ==
  ASSUME NEW r \in Nat \X (Nat \ {0}), NEW s \in Nat \X (Nat \ {0}), NEW t \in Nat \X (Nat \ {0}),
         ~Above(r, s), Above(t, s)
  PROVE  ~Above(r, t)
<1> DEFINE a == r[1]
           b == r[2]
           c == s[1]
           d == s[2]
           e == t[1]
           f == t[2]
<1>1. a \in Nat /\ b \in Nat \ {0} /\ c \in Nat /\ d \in Nat \ {0} /\ e \in Nat /\ f \in Nat \ {0}
  OBVIOUS
<1>2. ~(a * d > c * b) /\ e * d > c * f
  BY DEF Above
<1>3. ~Above(r, t) <=> ~(a * f > e * b)
  BY DEF Above
<1> HIDE DEF a, b, c, d, e, f
<1>4. a * d \in Nat /\ c * b \in Nat /\ e * d \in Nat /\ c * f \in Nat /\ a * f \in Nat /\ e * b \in Nat
  BY <1>1
<1>5. (a * d) * f <= (c * b) * f
  BY <1>1, <1>2, <1>4, Multiplied
<1>6. (c * f) * b <= (e * d) * b
  BY <1>1, <1>2, <1>4, Multiplied
<1>7. (a * d) * f = (a * f) * d /\ (c * b) * f = (c * f) * b /\ (e * d) * b = (e * b) * d
  BY <1>1
<1>8. (a * f) * d <= (e * b) * d
  BY <1>1, <1>4, <1>5, <1>6, <1>7
<1>9. ASSUME a * f > e * b PROVE FALSE
  <2>1. (e * b) * d + d <= (a * f) * d
    <3>1. e * b + 1 <= a * f /\ e * b + 1 \in Nat
      BY <1>4, <1>9
    <3>2. (e * b + 1) * d <= (a * f) * d
      BY <1>1, <1>4, <3>1, Multiplied
    <3>3. (e * b + 1) * d = (e * b) * d + d
      BY <1>1, <1>4
    <3> QED
      BY <3>2, <3>3
  <2>2. (e * b) * d \in Nat /\ (a * f) * d \in Nat
    BY <1>1, <1>4
  <2> QED
    BY <1>1, <1>8, <2>1, <2>2
<1> QED
  BY <1>3, <1>9

\* Among the first n variants there is one that no other is above.
LEMMA BestOfSome ==
  ASSUME TestInv, NEW n \in DOMAIN VariantOrder
  PROVE  \E j \in 1 .. n : \A k \in 1 .. n :
           ~Above(results[VariantOrder[k]].rate, results[VariantOrder[j]].rate)
<1> DEFINE rate(i) == results[VariantOrder[i]].rate
           Best(m) == \E j \in 1 .. m : \A k \in 1 .. m : ~Above(rate(k), rate(j))
           Bad == {m \in DOMAIN VariantOrder : ~Best(m)}
<1>1. \A i \in DOMAIN VariantOrder : rate(i) \in Nat \X (Nat \ {0})
  BY VariantFacts DEF TestInv, VariantResults
<1>2. SUFFICES ASSUME Bad # {} PROVE FALSE
  OBVIOUS
<1>3. Bad \in SUBSET Nat
  BY VariantFacts
<1>4. PICK m \in Bad : \A l \in Bad : m <= l
  <2> HIDE DEF Bad
  <2> QED
    BY <1>2, <1>3, LeastNat
<1>5. m \in Nat /\ m >= 1 /\ m <= Len(VariantOrder) /\ Len(VariantOrder) \in Nat
  BY VariantFacts
<1>m. ~Best(m)
  BY <1>4
<1>6. \A r \in Nat \X (Nat \ {0}) : ~Above(r, r)
  BY DEF Above
<1>7. m # 1
  <2>1. SUFFICES ASSUME m = 1 PROVE FALSE
    OBVIOUS
  <2>2. ~Above(rate(1), rate(1)) /\ 1 .. 1 = {1}
    BY <1>1, <1>6, <2>1
  <2> QED
    BY <1>m, <2>1, <2>2
<1>8. m - 1 \in DOMAIN VariantOrder /\ m - 1 \notin Bad
  <2>1. m - 1 \in DOMAIN VariantOrder /\ ~(m <= m - 1)
    BY <1>5, <1>7, VariantFacts
  <2> HIDE DEF Bad
  <2> QED
    BY <1>4, <2>1
<1>9. PICK j \in 1 .. (m - 1) : \A k \in 1 .. (m - 1) : ~Above(rate(k), rate(j))
  BY <1>8
<1>10. /\ j \in 1 .. m /\ m \in 1 .. m /\ \A k \in 1 .. m : k = m \/ k \in 1 .. (m - 1)
       /\ \A k \in 1 .. m : k \in DOMAIN VariantOrder
  <2>1. DOMAIN VariantOrder = 1 .. Len(VariantOrder)
    BY VariantFacts
  <2> HIDE DEF rate, Best, Bad
  <2>2. j \in 1 .. m /\ m \in 1 .. m
    BY <1>5
  <2>3. \A k \in 1 .. m : k = m \/ k \in 1 .. (m - 1)
    BY <1>5
  <2>4. \A k \in 1 .. m : k \in DOMAIN VariantOrder
    BY <1>5, <2>1
  <2> QED
    BY <2>2, <2>3, <2>4
<1> HIDE DEF rate
<1>11. CASE Above(rate(m), rate(j))
  <2>1. \A k \in 1 .. m : ~Above(rate(k), rate(m))
    <3> SUFFICES ASSUME NEW k \in 1 .. m PROVE ~Above(rate(k), rate(m))
      OBVIOUS
    <3>1. CASE k = m
      BY <1>1, <1>6, <1>10, <3>1
    <3>2. CASE k \in 1 .. (m - 1)
      BY <1>1, <1>9, <1>10, <1>11, <3>2, AboveIsOrder
    <3> QED
      BY <1>10, <3>1, <3>2
  <2> QED
    BY <1>m, <1>10, <2>1
<1>12. CASE ~Above(rate(m), rate(j))
  BY <1>m, <1>9, <1>10, <1>12
<1> QED
  BY <1>11, <1>12

LEMMA ResultFields ==
  ASSUME NEW r \in VariantResults
  PROVE  /\ r.views \in Nat /\ r.conversions \in Nat
         /\ [r EXCEPT !.views = @ + 1] \in VariantResults
         /\ [r EXCEPT !.conversions = @ + 1] \in VariantResults
<1>1. r.views + 1 \in Nat /\ r.conversions + 1 \in Nat /\ r.views \in Nat /\ r.conversions \in Nat
  BY DEF VariantResults
<1> QED
  BY <1>1 DEF VariantResults

\* A test starts without views, conversions or a winner.
LEMMA TestInitial == GrowthInit => TestInv
<1> SUFFICES ASSUME GrowthInit PROVE TestInv
  OBVIOUS
<1>1. <<0, 1>> \in Nat \X (Nat \ {0})
  OBVIOUS
<1> QED
  BY <1>1 DEF GrowthInit, TestInv, VariantResults, RatesAreFresh, WinnerIsBest

\* A count of the view or the conversion of a variant leaves a fresh rate.
LEMMA CountIsFresh ==
  ASSUME NEW r \in VariantResults
  PROVE  /\ Recomputed(r) \in VariantResults
         /\ Recomputed(r).rate = IF Recomputed(r).views > 0
                                 THEN <<Recomputed(r).conversions, Recomputed(r).views>> ELSE <<0, 1>>
<1>1. Recomputed(r) = [views |-> r.views, conversions |-> r.conversions,
                       rate |-> IF r.views > 0 THEN <<r.conversions, r.views>> ELSE <<0, 1>>]
  BY DEF Recomputed, VariantResults
<1>2. r.views \in Nat /\ r.conversions \in Nat
  BY DEF VariantResults
<1> QED
  BY <1>1, <1>2 DEF VariantResults

\* A late conversion does not unseat a winner unless the history says so.
LEMMA TestStep == ASSUME TestInv, [TestNext]_testVars PROVE TestInv'
<1>0. results \in [Variants -> VariantResults] /\ RatesAreFresh /\ WinnerIsBest
  BY DEF TestInv
<1>1. ASSUME NEW u \in Users, AssignVariant(u) PROVE TestInv'
  <2>1. CASE results' = results
    BY <1>0, <1>1, <2>1 DEF AssignVariant, TestInv, RatesAreFresh, WinnerIsBest
  <2>2. CASE results' # results
    <3>1. active /\ active' = active /\ Share[u] # NoVariant /\ results' = [results EXCEPT ![Share[u]] = Viewed(@)]
      BY <1>1, <2>2 DEF AssignVariant
    <3>2. Share[u] \in Variants
      BY <3>1, VariantFacts
    <3> DEFINE r == [results[Share[u]] EXCEPT !.views = @ + 1]
    <3>3. r \in VariantResults
      BY <1>0, <3>2, ResultFields
    <3>4. results' = [results EXCEPT ![Share[u]] = Recomputed(r)]
      BY <1>0, <3>1, <3>2 DEF Viewed
    <3> HIDE DEF r
    <3>5. results' \in [Variants -> VariantResults] /\ RatesAreFresh'
      BY <1>0, <3>3, <3>4, CountIsFresh DEF RatesAreFresh
    <3> QED
      BY <3>1, <3>5 DEF TestInv, WinnerIsBest
  <2> QED
    BY <2>1, <2>2
<1>2. ASSUME NEW v \in Variants, RecordABTestConversion(v) PROVE TestInv'
  <2> DEFINE r == [results[v] EXCEPT !.conversions = @ + 1]
  <2>1. r \in VariantResults
    BY <1>0, ResultFields
  <2>2. results' = [results EXCEPT ![v] = Recomputed(r)] /\ late' = (late \/ ~active) /\ active' = active
    BY <1>0, <1>2 DEF RecordABTestConversion, Converted
  <2> HIDE DEF r
  <2>3. results' \in [Variants -> VariantResults] /\ RatesAreFresh'
    BY <1>0, <2>1, <2>2, CountIsFresh DEF RatesAreFresh
  <2>4. WinnerIsBest'
    BY <2>2 DEF WinnerIsBest
  <2> QED
    BY <2>3, <2>4 DEF TestInv
<1>3. CASE DeclareWinner
  <2> DEFINE rate(i) == results[VariantOrder[i]].rate
             Best == {i \in DOMAIN VariantOrder :
                       rate(i)[1] > 0 /\ \A v \in Variants : ~Above(results[v].rate, rate(i))}
  <2>1. results' = results /\ winner' = IF Best = {} THEN NoVariant ELSE VariantOrder[Oldest(Best)]
    BY <1>3 DEF DeclareWinner
  <2>2. SUFFICES ASSUME NEW v \in Variants, results[v].views > 0
                 PROVE  IF winner' = NoVariant THEN results[v].conversions = 0
                        ELSE results[v].conversions * results[winner'].views
                               <= results[winner'].conversions * results[v].views
    BY <1>0, <2>1 DEF TestInv, RatesAreFresh, WinnerIsBest
  <2>3. /\ results[v].rate = <<results[v].conversions, results[v].views>>
        /\ results[v].conversions \in Nat /\ results[v].views \in Nat \ {0}
    <3>1. results[v] \in VariantResults
      BY <1>0
    <3>2. results[v].conversions \in Nat /\ results[v].views \in Nat
      BY <3>1, ResultFields
    <3>3. results[v].rate = <<results[v].conversions, results[v].views>>
      BY <1>0, <2>2 DEF RatesAreFresh
    <3> QED
      BY <2>2, <3>2, <3>3
  <2>4. CASE Best = {}
    <3>0. winner' = NoVariant
      BY <2>1, <2>4
    <3>s. SUFFICES results[v].conversions = 0
      BY <3>0, Zenon
    <3>1. SUFFICES ASSUME results[v].conversions > 0 PROVE FALSE
      BY <2>3
    <3>2. Len(VariantOrder) \in DOMAIN VariantOrder
      BY VariantFacts
    <3>3. PICK j \in 1 .. Len(VariantOrder) : \A k \in 1 .. Len(VariantOrder) : ~Above(rate(k), rate(j))
      BY <3>2, BestOfSome
    <3>4. \A x \in Variants : ~Above(results[x].rate, rate(j))
      BY <3>3, VariantFacts
    <3>5. rate(j) \in Nat \X (Nat \ {0})
      BY <1>0, VariantFacts DEF VariantResults
    <3>6. ~(results[v].conversions * rate(j)[2] > rate(j)[1] * results[v].views)
      BY <2>3, <3>4 DEF Above
    <3> DEFINE a == results[v].conversions
               b == results[v].views
               c == rate(j)[1]
               d == rate(j)[2]
    <3>7. a \in Nat \ {0} /\ b \in Nat /\ c \in Nat /\ d \in Nat \ {0} /\ ~(a * d > c * b)
      BY <2>3, <3>1, <3>5, <3>6
    <3>8. c > 0
      <4> HIDE DEF a, b, c, d
      <4>1. SUFFICES ASSUME c = 0 PROVE FALSE
        BY <3>7
      <4>2. a * d > 0
        BY <3>7
      <4>3. c * b = 0
        BY <3>7, <4>1
      <4> QED
        BY <3>7, <4>2, <4>3
    <3> QED
      BY <2>4, <3>4, <3>8, VariantFacts
  <2>5. CASE Best # {}
    <3>1. Best \in SUBSET Nat
      BY VariantFacts
    <3>2. Oldest(Best) \in Best
      <4> HIDE DEF Best
      <4>1. \E i \in Best : \A j \in Best : i <= j
        BY <2>5, <3>1, LeastNat
      <4> QED
        BY <4>1 DEF Oldest
    <3> DEFINE w == VariantOrder[Oldest(Best)]
    <3>3. w \in Variants /\ results[w].rate[1] > 0 /\ ~Above(results[v].rate, results[w].rate)
      BY <3>2, VariantFacts
    <3>4. winner' = w
      BY <2>1, <2>5
    <3> HIDE DEF w
    <3>5. /\ results[w].rate = <<results[w].conversions, results[w].views>>
          /\ results[w].conversions \in Nat /\ results[w].views \in Nat
      <4>1. results[w] \in VariantResults /\ results[w].conversions \in Nat /\ results[w].views \in Nat
        BY <1>0, <3>3, ResultFields
      <4>2. results[w].views > 0
        <5>1. SUFFICES ASSUME ~(results[w].views > 0) PROVE FALSE
          OBVIOUS
        <5>2. results[w].rate = <<0, 1>>
          BY <1>0, <3>3, <5>1 DEF RatesAreFresh
        <5> QED
          BY <3>3, <5>2
      <4> QED
        BY <1>0, <3>3, <4>1, <4>2 DEF RatesAreFresh
    <3>6. ~(results[v].conversions * results[w].views > results[w].conversions * results[v].views)
      BY <2>3, <3>3, <3>5 DEF Above
    <3>7. winner' # NoVariant
      BY <3>3, <3>4, VariantFacts
    <3> DEFINE a == results[v].conversions * results[w].views
               b == results[w].conversions * results[v].views
    <3>8. a \in Nat /\ b \in Nat
      BY <2>3, <3>5
    <3>9. a <= b
      <4> HIDE DEF a, b
      <4>1. ~(a > b)
        BY <3>6 DEF a, b
      <4> QED
        BY <3>8, <4>1
    <3> QED
      BY <3>4, <3>7, <3>9
  <2> QED
    BY <2>4, <2>5
<1>4. CASE UNCHANGED testVars
  BY <1>0, <1>4 DEF testVars, TestInv, RatesAreFresh, WinnerIsBest
<1> QED
  BY <1>1, <1>2, <1>3, <1>4 DEF TestNext

-----------------------------------------------------------------------------
(* Schedules.                                                              *)

Registrations == [id : Ids, lastFiredMs : Nat, fireCount : Nat, deleted : BOOLEAN, since : Nat]
TickRecords == [pc : {"new", "callback", "done"}, nowMs : Nat, next : Nat \ {0}]
Events == [type : {"SCHEDULE_FIRED", "TASK_FAILED"}, sequence : Nat, of : Nat, at : Nat, count : Nat]

ScheduleTypes ==
  /\ clock \in Nat \ {0}
  /\ schedules \in Seq(Registrations)
  /\ tick \in [Ticks -> TickRecords]
  /\ sequence \in Nat
  /\ history \in Seq(Events)

\* When a registration that keeps the pace of its interval has fired so often.
Pace(entry, count) == entry.since + (count - 1) * IntervalMs[entry.id]

\* A registration has kept the pace up to now.
IsPaced(now, entry) ==
  /\ entry.since <= now
  /\ entry.lastFiredMs = 0 => entry.fireCount = 0
  /\ entry.lastFiredMs # 0 => entry.lastFiredMs <= now /\ Pace(entry, entry.fireCount) <= entry.lastFiredMs

\* A call that awaits a callback began in time to count for each registration.
TickIsSound(now, list, t) ==
  t.pc = "callback" =>
    /\ t.nowMs # 0 /\ t.nowMs <= now
    /\ t.next - 1 \in DOMAIN list
    /\ \A i \in DOMAIN list : list[i].since <= t.nowMs

\* What an event says of a registration in the list.
EventIsPaced(list, event) ==
  /\ event.of \in DOMAIN list
  /\ event.at >= Pace(list[event.of], event.count)

ScheduleInv ==
  /\ ScheduleTypes
  /\ \A i \in DOMAIN schedules : IsPaced(clock, schedules[i])
  /\ \A k \in Ticks : TickIsSound(clock, schedules, tick[k])
  /\ \A n \in DOMAIN history : EventIsPaced(schedules, history[n])

LEMMA PacedInTime == ScheduleInv => FiringsKeepPace
BY DEF ScheduleInv, EventIsPaced, Pace, FiringsKeepPace

LEMMA EventFields ==
  ASSUME NEW v \in Events, NEW n \in Nat
  PROVE  /\ v.at \in Nat /\ v.of \in Nat /\ v.count \in Nat
         /\ [v EXCEPT !.sequence = n] \in Events
         /\ [v EXCEPT !.sequence = n].of = v.of
         /\ [v EXCEPT !.sequence = n].at = v.at
         /\ [v EXCEPT !.sequence = n].count = v.count
BY DEF Events

\* One more firing, one more interval.
LEMMA OneMoreInterval ==
  ASSUME NEW c \in Nat, NEW ms \in Nat, NEW since \in Nat
  PROVE  /\ since + (c - 1) * ms \in Int
         /\ since + (c + 1 - 1) * ms = since + (c - 1) * ms + ms
         /\ since + (0 - 1) * ms <= since /\ since + (0 + 1 - 1) * ms = since
<1>1. (c - 1) * ms \in Int /\ (c + 1 - 1) * ms = (c - 1) * ms + ms
  OBVIOUS
<1>2. (0 - 1) * ms = 0 - ms /\ (0 + 1 - 1) * ms = 0
  OBVIOUS
<1> QED
  BY <1>1, <1>2

\* A registration that keeps the pace up to now has not fired more often than that.
LEMMA PaceFacts ==
  ASSUME NEW r \in Registrations, NEW now \in Nat, IsPaced(now, r)
  PROVE  /\ Pace(r, r.fireCount) \in Int /\ Pace(r, r.fireCount) <= now
         /\ Pace(r, r.fireCount + 1) \in Int
         /\ \A t \in Nat : r.since <= t /\ (r.lastFiredMs = 0 \/ t >= r.lastFiredMs + IntervalMs[r.id])
                             => Pace(r, r.fireCount + 1) <= t
<1>1. r.since \in Nat /\ r.fireCount \in Nat /\ r.id \in Ids /\ r.lastFiredMs \in Nat
  BY DEF Registrations
<1>2. IntervalMs[r.id] \in Nat
  BY <1>1, SchedulesAssumption DEF SchedulesAssumption
<1> DEFINE ms == IntervalMs[r.id]
           c == r.fireCount
           since == r.since
           p == since + (c - 1) * ms
           q == since + (c + 1 - 1) * ms
<1>3. /\ p \in Int /\ q = p + ms
      /\ c = 0 => p <= since /\ q = since
  <2> HIDE DEF ms, c, since
  <2>1. c \in Nat /\ ms \in Nat /\ since \in Nat
    BY <1>1, <1>2 DEF c, ms, since
  <2> QED
    BY <2>1, OneMoreInterval
<1>4. Pace(r, r.fireCount) = p /\ Pace(r, r.fireCount + 1) = q
  <2>1. Pace(r, r.fireCount) = p
    BY DEF Pace
  <2>2. Pace(r, r.fireCount + 1) = q
    BY <1>1, <1>2 DEF Pace
  <2> QED
    BY <2>1, <2>2
<1>5. /\ since <= now
      /\ r.lastFiredMs = 0 => c = 0
      /\ r.lastFiredMs # 0 => r.lastFiredMs <= now /\ p <= r.lastFiredMs
  BY <1>4 DEF IsPaced
<1>6. since \in Nat /\ ms \in Nat
  BY <1>1, <1>2
<1> HIDE DEF p, q, c, ms, since
<1>7. p <= now
  BY <1>1, <1>3, <1>5, <1>6
<1>8. ASSUME NEW t \in Nat, since <= t, r.lastFiredMs = 0 \/ t >= r.lastFiredMs + ms PROVE q <= t
  BY <1>1, <1>3, <1>5, <1>6, <1>8
<1>9. p \in Int /\ q \in Int
  BY <1>3, <1>6
<1>10. \A t \in Nat : since <= t /\ (r.lastFiredMs = 0 \/ t >= r.lastFiredMs + ms) => q <= t
  BY <1>8
<1> QED
  BY <1>4, <1>7, <1>9, <1>10 DEF since, ms

\* The registration after it has fired.
LEMMA RegistrationFields ==
  ASSUME NEW r \in Registrations, NEW t \in Nat
  PROVE  LET after == [[r EXCEPT !.lastFiredMs = t] EXCEPT !.fireCount = @ + 1]
         IN /\ after \in Registrations /\ after.id = r.id /\ after.lastFiredMs = t
            /\ after.fireCount = r.fireCount + 1 /\ after.since = r.since
<1> DEFINE fired == [r EXCEPT !.lastFiredMs = t]
<1>1. /\ fired \in Registrations /\ fired.id = r.id /\ fired.lastFiredMs = t /\ fired.since = r.since
      /\ fired.fireCount = r.fireCount /\ fired.fireCount + 1 \in Nat
  BY DEF Registrations
<1> HIDE DEF fired
<1>2. /\ [fired EXCEPT !.fireCount = @ + 1] \in Registrations
      /\ [fired EXCEPT !.fireCount = @ + 1].id = fired.id
      /\ [fired EXCEPT !.fireCount = @ + 1].since = fired.since
      /\ [fired EXCEPT !.fireCount = @ + 1].fireCount = fired.fireCount + 1
      /\ [fired EXCEPT !.fireCount = @ + 1].lastFiredMs = fired.lastFiredMs
  BY <1>1 DEF Registrations
<1> QED
  BY <1>1, <1>2 DEF fired

\* The registrations stay where they are, and what they are.
Stays(list, later) ==
  /\ DOMAIN list \subseteq DOMAIN later
  /\ \A i \in DOMAIN list : later[i].id = list[i].id /\ later[i].since = list[i].since

LEMMA EventStays ==
  ASSUME NEW list, NEW later, Stays(list, later), NEW v, EventIsPaced(list, v)
  PROVE  EventIsPaced(later, v)
BY DEF EventIsPaced, Stays, Pace

\* Nothing is registered and nothing has fired.
LEMMA SchedulesInitial == SchedulesInit => ScheduleInv
<1> SUFFICES ASSUME SchedulesInit PROVE ScheduleInv
  OBVIOUS
<1>1. <<>> \in Seq(Registrations) /\ <<>> \in Seq(Events)
  OBVIOUS
<1>2. ScheduleTypes
  BY <1>1 DEF SchedulesInit, ScheduleTypes, TickRecords
<1>3. DOMAIN history = {} /\ DOMAIN schedules = {} /\ \A k \in Ticks : tick[k].pc = "new"
  BY DEF SchedulesInit
<1> QED
  BY <1>2, <1>3 DEF ScheduleInv, TickIsSound

\* An event of one list is told in another, but for its number.
Tells(told, event) == told.of = event.of /\ told.at = event.at /\ told.count = event.count

LEMMA ToldIsPaced ==
  ASSUME NEW list, NEW v, NEW w, Tells(v, w), EventIsPaced(list, w)
  PROVE  EventIsPaced(list, v)
BY DEF Tells, EventIsPaced

\* The history loses its oldest events and gains some, but for their numbers.
LEMMA Emitted ==
  ASSUME sequence \in Nat, history \in Seq(Events), NEW events \in Seq(Events), Emit(events)
  PROVE  /\ sequence' \in Nat /\ history' \in Seq(Events)
         /\ \A n \in DOMAIN history' : \/ \E m \in DOMAIN history : Tells(history'[n], history[m])
                                       \/ \E m \in DOMAIN events : Tells(history'[n], events[m])
<1> DEFINE Numbered == [n \in DOMAIN events |-> [events[n] EXCEPT !.sequence = sequence + n - 1]]
           all == history \o Numbered
<1>0. MaxHistory \in Nat
  BY SchedulesAssumption DEF SchedulesAssumption
<1>1. /\ sequence' = sequence + Len(events)
      /\ history' = IF Len(all) > MaxHistory
                    THEN SubSeq(all, Len(all) - MaxHistory + 1, Len(all)) ELSE all
  BY DEF Emit
<1>2. \A n \in DOMAIN events : sequence + n - 1 \in Nat
  OBVIOUS
<1>3. \A n \in DOMAIN events :
        /\ [events[n] EXCEPT !.sequence = sequence + n - 1] \in Events
        /\ [events[n] EXCEPT !.sequence = sequence + n - 1].of = events[n].of
        /\ [events[n] EXCEPT !.sequence = sequence + n - 1].at = events[n].at
        /\ [events[n] EXCEPT !.sequence = sequence + n - 1].count = events[n].count
  BY <1>2, EventFields
<1>4. Numbered \in Seq(Events) /\ Len(Numbered) = Len(events) /\ DOMAIN Numbered = DOMAIN events
  BY <1>3
<1>5. \A n \in DOMAIN events : Tells(Numbered[n], events[n])
  BY <1>3 DEF Tells
<1> HIDE DEF Numbered
<1>6. /\ all \in Seq(Events) /\ Len(all) = Len(history) + Len(events)
      /\ \A n \in 1 .. Len(history) : all[n] = history[n]
      /\ \A n \in Len(history) + 1 .. Len(all) : all[n] = Numbered[n - Len(history)]
  BY <1>4
<1> HIDE DEF all
<1>7. ASSUME NEW n \in DOMAIN all
      PROVE  \/ \E m \in DOMAIN history : Tells(all[n], history[m])
             \/ \E m \in DOMAIN events : Tells(all[n], events[m])
  <2>1. n \in Nat /\ n >= 1 /\ n <= Len(history) + Len(events)
    BY <1>6
  <2>2. CASE n <= Len(history)
    <3>1. n \in DOMAIN history /\ all[n] = history[n]
      BY <1>6, <2>1, <2>2
    <3> QED
      BY <3>1 DEF Tells
  <2>3. CASE ~(n <= Len(history))
    <3>1. n - Len(history) \in DOMAIN events /\ all[n] = Numbered[n - Len(history)]
      BY <1>6, <2>1, <2>3
    <3> QED
      BY <1>5, <3>1
  <2> QED
    BY <2>2, <2>3
<1>8. history' \in Seq(Events) /\ \A n \in DOMAIN history' : \E m \in DOMAIN all : history'[n] = all[m]
  <2>1. CASE Len(all) > MaxHistory
    <3>1. Len(all) - MaxHistory + 1 \in 1 .. Len(all) + 1 /\ Len(all) \in Nat
      BY <1>0, <1>6, <2>1
    <3>2. PICK lost \in Nat : lost = Len(all) - MaxHistory
      <4>1. Len(all) - MaxHistory \in Nat
        BY <1>0, <2>1, <3>1
      <4> QED
        BY <4>1
    <3>3. history' = SubSeq(all, lost + 1, Len(all))
      BY <1>1, <2>1, <3>2
    <3>4. /\ history' \in Seq(Events)
          /\ \A n \in DOMAIN history' : n + lost \in DOMAIN all /\ history'[n] = all[n + lost]
      BY <1>0, <1>6, <3>1, <3>2, <3>3
    <3> QED
      BY <3>4
  <2>2. CASE ~(Len(all) > MaxHistory)
    BY <1>1, <1>6, <2>2
  <2> QED
    BY <2>1, <2>2
<1>9. sequence' \in Nat
  BY <1>1
<1> QED
  BY <1>7, <1>8, <1>9

\* The events of a step keep the pace if those that are emitted do.
LEMMA HistoryStays ==
  ASSUME ScheduleInv, NEW list, Stays(schedules, list), NEW events \in Seq(Events), Emit(events),
         \A n \in DOMAIN events : EventIsPaced(list, events[n])
  PROVE  /\ sequence' \in Nat /\ history' \in Seq(Events)
         /\ \A n \in DOMAIN history' : EventIsPaced(list, history'[n])
<1>1. /\ sequence' \in Nat /\ history' \in Seq(Events)
      /\ \A n \in DOMAIN history' : \/ \E m \in DOMAIN history : Tells(history'[n], history[m])
                                    \/ \E m \in DOMAIN events : Tells(history'[n], events[m])
  BY Emitted DEF ScheduleInv, ScheduleTypes
<1>2. \A m \in DOMAIN history : EventIsPaced(list, history[m])
  BY EventStays DEF ScheduleInv
<1> QED
  BY <1>1, <1>2, ToldIsPaced

\* A call of tick() goes on: it fires at most one registration, which is due.
LEMMA TickGoesOn ==
  ASSUME ScheduleInv, NEW k \in Ticks, NEW nowMs \in Nat \ {0}, nowMs <= clock,
         \A i \in DOMAIN schedules : schedules[i].since <= nowMs, NEW place \in Nat \ {0},
         NEW first \in Seq(Events), \A n \in DOMAIN first : EventIsPaced(schedules, first[n]),
         GoOn(k, nowMs, place, first), clock' = clock
  PROVE  ScheduleInv'
<1>0. /\ ScheduleTypes
      /\ \A i \in DOMAIN schedules : IsPaced(clock, schedules[i])
      /\ \A j \in Ticks : TickIsSound(clock, schedules, tick[j])
  BY DEF ScheduleInv
<1> DEFINE Following == {i \in place .. Len(schedules) :
                      /\ ~schedules[i].deleted /\ schedules[i].id \notin Disabled
                      /\ Due(i, nowMs)}
<1>1. CASE Following = {}
  <2>1. /\ tick' = [tick EXCEPT ![k] = [pc |-> "done", nowMs |-> nowMs, next |-> place]]
        /\ Emit(first) /\ schedules' = schedules
    BY <1>1, Zenon DEF GoOn
  <2>2. /\ sequence' \in Nat /\ history' \in Seq(Events)
        /\ \A n \in DOMAIN history' : EventIsPaced(schedules, history'[n])
    <3>1. Stays(schedules, schedules)
      BY DEF Stays
    <3> QED
      BY <2>1, <3>1, HistoryStays
  <2>3. [pc |-> "done", nowMs |-> nowMs, next |-> place] \in TickRecords
    BY DEF TickRecords
  <2>4. tick' \in [Ticks -> TickRecords] /\ \A j \in Ticks : TickIsSound(clock, schedules, tick'[j])
    BY <1>0, <2>1, <2>3 DEF ScheduleTypes, TickIsSound
  <2> QED
    BY <1>0, <2>1, <2>2, <2>4 DEF ScheduleInv, ScheduleTypes
<1>2. CASE Following # {}
  <2> DEFINE i == CHOOSE j \in Following : \A l \in Following : j <= l
             count == schedules[i].fireCount + 1
             fired == Event("SCHEDULE_FIRED", i, count)
             told == Append(first, fired)
  <2>1. /\ schedules' = Fired(i, nowMs) /\ Emit(told)
        /\ tick' = [tick EXCEPT ![k] = [pc |-> "callback", nowMs |-> nowMs, next |-> i + 1]]
    BY <1>2, Zenon DEF GoOn
  <2>2. i \in Following
    <3>1. Following \in SUBSET Nat
      BY <1>0 DEF ScheduleTypes
    <3>2. PICK j \in Following : \A l \in Following : j <= l
      <4> HIDE DEF Following
      <4> QED
        BY <1>2, <3>1, LeastNat
    <3> HIDE DEF Following
    <3> QED
      BY <3>2
  <2> HIDE DEF i
  <2>3. i \in DOMAIN schedules /\ i \in Nat /\ Due(i, nowMs) /\ schedules[i] \in Registrations
    BY <1>0, <2>2 DEF ScheduleTypes
  <2>4. PICK r \in Registrations : r = schedules[i]
    BY <2>3
  <2>5. r.fireCount + 1 \in Nat /\ clock \in Nat /\ count = r.fireCount + 1
    BY <1>0, <2>4 DEF Registrations, ScheduleTypes
  <2> HIDE DEF count
  <2>6. fired \in Events /\ fired.of = i /\ fired.at = clock /\ fired.count = r.fireCount + 1
    BY <2>3, <2>5 DEF Event, Events
  <2> HIDE DEF fired
  <2>7. Pace(r, r.fireCount + 1) <= nowMs /\ Pace(r, r.fireCount + 1) \in Int
    <3>1. IsPaced(clock, r) /\ r.since <= nowMs
      BY <1>0, <2>3, <2>4
    <3>2. r.lastFiredMs = 0 \/ nowMs >= r.lastFiredMs + IntervalMs[r.id]
      BY <2>3, <2>4 DEF Due
    <3> QED
      BY <2>5, <3>1, <3>2, PaceFacts
  <2>8. PICK after \in Registrations :
          /\ schedules' = [schedules EXCEPT ![i] = after]
          /\ after.id = r.id /\ after.lastFiredMs = nowMs /\ after.since = r.since
          /\ after.fireCount = r.fireCount + 1
    <3> DEFINE after == [[r EXCEPT !.lastFiredMs = nowMs] EXCEPT !.fireCount = @ + 1]
    <3>1. schedules' = [schedules EXCEPT ![i] = after]
      BY <1>0, <2>1, <2>3, <2>4 DEF Fired, ScheduleTypes
    <3>2. /\ after \in Registrations /\ after.id = r.id /\ after.lastFiredMs = nowMs
          /\ after.fireCount = r.fireCount + 1 /\ after.since = r.since
      BY RegistrationFields
    <3> HIDE DEF after
    <3> QED
      BY <3>1, <3>2
  <2>9. /\ DOMAIN schedules' = DOMAIN schedules /\ schedules' \in Seq(Registrations)
        /\ schedules'[i] = after
        /\ \A j \in DOMAIN schedules \ {i} : schedules'[j] = schedules[j]
    BY <1>0, <2>3, <2>8 DEF ScheduleTypes
  <2>10. PICK list : list = schedules'
    OBVIOUS
  <2>11. Stays(schedules, list)
    BY <2>4, <2>8, <2>9, <2>10 DEF Stays
  <2>12. EventIsPaced(list, fired)
    <3>1. Pace(after, r.fireCount + 1) = Pace(r, r.fireCount + 1)
      BY <2>8 DEF Pace
    <3>2. clock >= Pace(r, r.fireCount + 1)
      BY <2>5, <2>7
    <3> QED
      BY <2>3, <2>6, <2>9, <2>10, <3>1, <3>2 DEF EventIsPaced
  <2>13. told \in Seq(Events) /\ \A n \in DOMAIN told : EventIsPaced(list, told[n])
    <3>1. told \in Seq(Events) /\ \A n \in DOMAIN told : told[n] = fired \/ \E m \in DOMAIN first : told[n] = first[m]
      BY <2>6
    <3>2. \A m \in DOMAIN first : EventIsPaced(list, first[m])
      BY <2>11, EventStays
    <3> HIDE DEF told
    <3> QED
      BY <2>12, <3>1, <3>2
  <2> HIDE DEF told
  <2>14. /\ sequence' \in Nat /\ history' \in Seq(Events)
         /\ \A n \in DOMAIN history' : EventIsPaced(list, history'[n])
    BY <2>1, <2>11, <2>13, HistoryStays
  <2>15. IsPaced(clock, after)
    <3>1. after.lastFiredMs # 0 /\ after.lastFiredMs <= clock /\ after.since <= clock
      BY <1>0, <2>3, <2>4, <2>8 DEF IsPaced
    <3>2. Pace(after, after.fireCount) <= after.lastFiredMs
      BY <2>7, <2>8 DEF Pace
    <3> QED
      BY <3>1, <3>2 DEF IsPaced
  <2>16. \A j \in DOMAIN schedules' : IsPaced(clock, schedules'[j])
    BY <1>0, <2>9, <2>15
  <2>17. tick' \in [Ticks -> TickRecords] /\ \A j \in Ticks : TickIsSound(clock, list, tick'[j])
    <3> DEFINE waiting == [pc |-> "callback", nowMs |-> nowMs, next |-> i + 1]
    <3>1. waiting \in TickRecords /\ waiting.nowMs = nowMs /\ waiting.next - 1 = i
      BY <2>3 DEF TickRecords
    <3>2. tick' = [tick EXCEPT ![k] = waiting]
      BY <2>1
    <3> HIDE DEF waiting
    <3>3. \A j \in DOMAIN list : list[j].since = schedules[j].since /\ j \in DOMAIN schedules
      BY <2>9, <2>10, <2>11 DEF Stays
    <3>4. TickIsSound(clock, list, waiting)
      BY <2>3, <2>9, <2>10, <3>1, <3>3 DEF TickIsSound
    <3>5. \A j \in Ticks : TickIsSound(clock, list, tick[j])
      BY <1>0, <2>9, <2>10, <3>3 DEF TickIsSound
    <3> QED
      BY <1>0, <3>1, <3>2, <3>4, <3>5 DEF ScheduleTypes
  <2> QED
    BY <1>0, <2>9, <2>10, <2>14, <2>16, <2>17 DEF ScheduleInv, ScheduleTypes
<1> QED
  BY <1>1, <1>2

\* The registrations change without an event: those that are there keep their pace.
LEMMA NothingEmitted ==
  ASSUME ScheduleInv, UNCHANGED <<tick, sequence, history>>, clock' \in Nat \ {0}, clock' >= clock,
         schedules' \in Seq(Registrations), Stays(schedules, schedules'),
         \A i \in DOMAIN schedules' : IsPaced(clock', schedules'[i]),
         \A i \in DOMAIN schedules' \ DOMAIN schedules :
           \A k \in Ticks : tick[k].pc = "callback" => schedules'[i].since <= tick[k].nowMs
  PROVE  ScheduleInv'
<1>1. ScheduleTypes'
  BY DEF ScheduleInv, ScheduleTypes
<1>2. PICK list : list = schedules'
  OBVIOUS
<1>3. \A n \in DOMAIN history : EventIsPaced(list, history[n])
  BY <1>2, EventStays DEF ScheduleInv
<1>4. ASSUME NEW k \in Ticks PROVE TickIsSound(clock', list, tick[k])
  <2>1. TickIsSound(clock, schedules, tick[k]) /\ tick[k].nowMs \in Nat /\ clock \in Nat
    BY DEF ScheduleInv, ScheduleTypes, TickRecords
  <2>2. \A i \in DOMAIN schedules : i \in DOMAIN list /\ list[i].since = schedules[i].since
    BY <1>2 DEF Stays
  <2> QED
    BY <1>2, <2>1, <2>2 DEF TickIsSound
<1> QED
  BY <1>1, <1>2, <1>3, <1>4 DEF ScheduleInv

\* Registering, unregistering, ticking and time keep the pace.
LEMMA ScheduleStep == ASSUME ScheduleInv, [SchedulesNext]_scheduleVars PROVE ScheduleInv'
<1>0. /\ ScheduleTypes
      /\ \A i \in DOMAIN schedules : IsPaced(clock, schedules[i])
      /\ \A j \in Ticks : TickIsSound(clock, schedules, tick[j])
  BY DEF ScheduleInv
<1>1. ASSUME NEW id \in Ids, Register(id) PROVE ScheduleInv'
  <2>1. PICK since \in TicksBegan :
          /\ \A nowMs \in TicksBegan : since <= nowMs
          /\ schedules' = Append(schedules, [id |-> id, lastFiredMs |-> 0, fireCount |-> 0,
                                             deleted |-> FALSE, since |-> since])
          /\ UNCHANGED <<clock, tick, sequence, history>>
    BY <1>1 DEF Register
  <2> DEFINE new == [id |-> id, lastFiredMs |-> 0, fireCount |-> 0, deleted |-> FALSE, since |-> since]
  <2>2. /\ since \in Nat /\ since <= clock /\ clock \in Nat \ {0}
        /\ \A k \in Ticks : tick[k].pc = "callback" => since <= tick[k].nowMs
    BY <1>0, <2>1 DEF TicksBegan, ScheduleTypes, TickRecords
  <2>3. new \in Registrations /\ new.since = since /\ IsPaced(clock, new)
    BY <2>2 DEF Registrations, IsPaced
  <2>4. schedules' = Append(schedules, new)
    BY <2>1
  <2> HIDE DEF new
  <2>5. /\ schedules' \in Seq(Registrations)
        /\ \A i \in DOMAIN schedules : i \in DOMAIN schedules' /\ schedules'[i] = schedules[i]
        /\ \A i \in DOMAIN schedules' \ DOMAIN schedules : schedules'[i] = new
    BY <1>0, <2>3, <2>4 DEF ScheduleTypes
  <2>6. Stays(schedules, schedules')
    BY <2>5 DEF Stays
  <2>7. \A i \in DOMAIN schedules' : IsPaced(clock', schedules'[i])
    BY <1>0, <2>1, <2>3, <2>5
  <2>8. clock' = clock /\ clock' >= clock
    BY <2>1, <2>2
  <2> QED
    BY <2>1, <2>2, <2>3, <2>5, <2>6, <2>7, <2>8, NothingEmitted
<1>2. ASSUME NEW id \in Ids, Unregister(id) PROVE ScheduleInv'
  <2>1. /\ schedules' = [i \in DOMAIN schedules |->
              IF i \in Registered(id) THEN [schedules[i] EXCEPT !.deleted = TRUE] ELSE schedules[i]]
        /\ UNCHANGED <<clock, tick, sequence, history>>
    BY <1>2 DEF Unregister
  <2>2. \A r \in Registrations : /\ [r EXCEPT !.deleted = TRUE] \in Registrations
                                 /\ [r EXCEPT !.deleted = TRUE].id = r.id
                                 /\ [r EXCEPT !.deleted = TRUE].since = r.since
                                 /\ [r EXCEPT !.deleted = TRUE].fireCount = r.fireCount
                                 /\ [r EXCEPT !.deleted = TRUE].lastFiredMs = r.lastFiredMs
    BY DEF Registrations
  <2>3. /\ schedules' \in Seq(Registrations) /\ DOMAIN schedules' = DOMAIN schedules
        /\ \A i \in DOMAIN schedules : /\ schedules'[i].id = schedules[i].id
                                       /\ schedules'[i].since = schedules[i].since
                                       /\ schedules'[i].fireCount = schedules[i].fireCount
                                       /\ schedules'[i].lastFiredMs = schedules[i].lastFiredMs
    BY <1>0, <2>1, <2>2 DEF ScheduleTypes
  <2>4. Stays(schedules, schedules')
    BY <2>3 DEF Stays
  <2>5. \A i \in DOMAIN schedules' : IsPaced(clock', schedules'[i])
    BY <1>0, <2>1, <2>3 DEF IsPaced, Pace
  <2>6. clock' \in Nat \ {0} /\ clock' >= clock
    BY <1>0, <2>1 DEF ScheduleTypes
  <2> QED
    BY <2>1, <2>3, <2>4, <2>5, <2>6, NothingEmitted
<1>3. ASSUME NEW k \in Ticks, StartTick(k) PROVE ScheduleInv'
  <2>1. GoOn(k, clock, 1, <<>>) /\ clock' = clock
    BY <1>3 DEF StartTick
  <2>2. clock \in Nat \ {0} /\ 1 \in Nat \ {0} /\ clock <= clock
    BY <1>0 DEF ScheduleTypes
  <2>3. <<>> \in Seq(Events) /\ \A n \in DOMAIN <<>> : EventIsPaced(schedules, <<>>[n])
    OBVIOUS
  <2>4. \A i \in DOMAIN schedules : schedules[i].since <= clock
    BY <1>0 DEF IsPaced
  <2> QED
    BY <2>1, <2>2, <2>3, <2>4, TickGoesOn
<1>4. ASSUME NEW k \in Ticks, CallbackEnds(k) PROVE ScheduleInv'
  <2>1. tick[k] \in TickRecords /\ tick[k].pc = "callback" /\ clock' = clock
    BY <1>0, <1>4 DEF CallbackEnds, ScheduleTypes
  <2>2. /\ tick[k].nowMs \in Nat \ {0} /\ tick[k].next \in Nat \ {0} /\ tick[k].nowMs <= clock
        /\ tick[k].next - 1 \in DOMAIN schedules
        /\ \A i \in DOMAIN schedules : schedules[i].since <= tick[k].nowMs
    BY <1>0, <2>1 DEF TickIsSound, TickRecords
  <2>3. PICK i \in DOMAIN schedules : i = tick[k].next - 1
    BY <2>2
  <2>4. PICK r \in Registrations : r = schedules[i]
    BY <1>0 DEF ScheduleTypes
  <2> DEFINE failure == Event("TASK_FAILED", i, r.fireCount)
  <2>5. PICK failed \in {<<>>, <<failure>>} : GoOn(k, tick[k].nowMs, tick[k].next, failed)
    BY <1>4, <2>3, <2>4 DEF CallbackEnds
  <2>6. failure \in Events /\ EventIsPaced(schedules, failure)
    <3>1. i \in Nat /\ clock \in Nat /\ r.fireCount \in Nat
      BY <1>0, <2>3 DEF ScheduleTypes, Registrations
    <3>2. failure \in Events /\ failure.of = i /\ failure.at = clock /\ failure.count = r.fireCount
      BY <3>1 DEF Event, Events
    <3>3. IsPaced(clock, r)
      BY <1>0, <2>4
    <3>4. Pace(r, r.fireCount) \in Int /\ Pace(r, r.fireCount) <= clock
      BY <3>1, <3>3, PaceFacts
    <3>5. clock >= Pace(r, r.fireCount)
      BY <3>1, <3>4
    <3> HIDE DEF failure
    <3> QED
      BY <2>4, <3>2, <3>5 DEF EventIsPaced
  <2> HIDE DEF failure
  <2>7. failed \in Seq(Events) /\ \A n \in DOMAIN failed : EventIsPaced(schedules, failed[n])
    <3>1. CASE failed = <<>>
      BY <3>1
    <3>2. CASE failed = <<failure>>
      BY <2>6, <3>2
    <3> QED
      BY <2>5, <3>1, <3>2
  <2> QED
    BY <2>1, <2>2, <2>5, <2>7, TickGoesOn
<1>5. CASE TimeGoesOn
  <2>1. /\ clock \in Nat \ {0} /\ clock' = clock + 1 /\ UNCHANGED <<schedules, tick, sequence, history>>
        /\ schedules \in Seq(Registrations)
    BY <1>0, <1>5 DEF TimeGoesOn, ScheduleTypes
  <2>2. clock' \in Nat \ {0} /\ clock' >= clock /\ Stays(schedules, schedules')
    BY <2>1 DEF Stays
  <2>3. ASSUME NEW i \in DOMAIN schedules PROVE IsPaced(clock', schedules[i])
    <3>1. PICK r \in Registrations : r = schedules[i]
      BY <2>1
    <3>2. IsPaced(clock, r) /\ r.since \in Nat /\ r.lastFiredMs \in Nat
      BY <1>0, <3>1 DEF Registrations
    <3>3. PICK p : p = Pace(r, r.fireCount)
      OBVIOUS
    <3>4. r.since <= clock' /\ (r.lastFiredMs # 0 => r.lastFiredMs <= clock')
      BY <2>1, <3>2 DEF IsPaced
    <3> QED
      BY <3>1, <3>2, <3>4 DEF IsPaced
  <2> QED
    BY <2>1, <2>2, <2>3, NothingEmitted
<1>6. CASE UNCHANGED scheduleVars
  BY <1>6 DEF scheduleVars, ScheduleInv, ScheduleTypes
<1> QED
  BY <1>1, <1>2, <1>3, <1>4, <1>5, <1>6 DEF SchedulesNext

-----------------------------------------------------------------------------
(* The execution log.                                                      *)

Results == Outputs \cup {Denied}
LogLines == {[exec |-> x, id |-> RunId[x], out |-> out] : x \in Execs, out \in Results}

\* The lines of the file that are e's.
LinesOf(e) == {i \in DOMAIN file : EngineOf[file[i].exec] = e}

\* Those that no failed rotation let in.
LinesInTime(e) == LinesOf(e) \ overdue

LogTypes ==
  /\ up \in BOOLEAN
  /\ exec \in [Execs -> [pc : {"new", "routing", "receipt", "error"}, out : Results]]
  /\ entries \in [Engines -> Seq(LogLines)]
  /\ size \in [Engines -> Nat]
  /\ file \in Seq(LogLines) /\ overdue \in SUBSET (DOMAIN file)
  /\ trail \in [Execs -> {"none", "success", "failed"}]

\* What bounds the file: an engine counts at least its own lines, and rotates in time.
EnginesCount ==
  \A e \in Engines :
    Cardinality(LinesOf(e)) <= size[e] /\ Cardinality(LinesInTime(e)) <= RotateAt - 1

LogInv == LogTypes /\ EnginesCount /\ ReceiptsAreOnDisk

LEMMA LogFacts ==
  /\ RotateAt \in Nat /\ RotateAt > 1
  /\ \A x \in Execs : EngineOf[x] \in Engines
  /\ \A x \in Execs, out \in Results : [exec |-> x, id |-> RunId[x], out |-> out] \in LogLines
  /\ \A l \in LogLines : l.exec \in Execs /\ EngineOf[l.exec] \in Engines
BY ExecutionLogAssumption DEF ExecutionLogAssumption, LogLines

\* Some positions of a log.
LEMMA PositionsAreFinite ==
  ASSUME NEW log \in Seq(LogLines), NEW S \in SUBSET (DOMAIN log)
  PROVE  IsFiniteSet(S) /\ Cardinality(S) \in Nat /\ Cardinality(S) <= Len(log)
<1> DEFINE n == Len(log)
<1>1. n \in Nat /\ DOMAIN log = 1 .. n
  OBVIOUS
<1> HIDE DEF n
<1>2. IsFiniteSet(1 .. n) /\ Cardinality(1 .. n) = IF 1 > n THEN 0 ELSE n - 1 + 1
  BY <1>1, FS_Interval
<1>3. Cardinality(1 .. n) = n
  BY <1>1, <1>2
<1> QED
  BY <1>1, <1>2, <1>3, FS_Subset, FS_CardinalityType DEF n

LEMMA LinesAreFinite ==
  ASSUME LogTypes, NEW e
  PROVE  /\ IsFiniteSet(LinesOf(e)) /\ Cardinality(LinesOf(e)) \in Nat /\ Cardinality(LinesOf(e)) <= Len(file)
         /\ IsFiniteSet(LinesInTime(e)) /\ Cardinality(LinesInTime(e)) \in Nat
         /\ Cardinality(LinesInTime(e)) <= Cardinality(LinesOf(e))
<1>1. LinesOf(e) \in SUBSET (DOMAIN file) /\ file \in Seq(LogLines)
  BY DEF LinesOf, LogTypes
<1>2. IsFiniteSet(LinesOf(e)) /\ Cardinality(LinesOf(e)) \in Nat /\ Cardinality(LinesOf(e)) <= Len(file)
  BY <1>1, PositionsAreFinite
<1>3. LinesInTime(e) \in SUBSET LinesOf(e)
  BY DEF LinesInTime
<1> QED
  BY <1>2, <1>3, FS_Subset, FS_CardinalityType

\* The log is empty and nobody has a receipt.
LEMMA LogInitial == LogInit => LogInv
<1> SUFFICES ASSUME LogInit PROVE LogInv
  OBVIOUS
<1>1. LogTypes /\ ReceiptsAreOnDisk
  <2>1. <<>> \in Seq(LogLines)
    OBVIOUS
  <2> QED
    BY <2>1 DEF LogInit, LogTypes, ReceiptsAreOnDisk, Results
<1>2. \A e \in Engines : LinesOf(e) = {} /\ LinesInTime(e) = {}
  BY DEF LogInit, LinesOf, LinesInTime
<1>3. EnginesCount
  <2>1. Cardinality({}) = 0
    BY FS_EmptySet
  <2>2. \A e \in Engines : size[e] = 0
    BY DEF LogInit
  <2>3. 0 <= RotateAt - 1
    BY LogFacts
  <2>4. \A e \in Engines : Cardinality(LinesOf(e)) = 0 /\ Cardinality(LinesInTime(e)) = 0
    BY <1>2, <2>1
  <2> QED
    BY <2>2, <2>3, <2>4 DEF EnginesCount
<1> QED
  BY <1>1, <1>3 DEF LogInv

\* The lines of an engine, after one of x's was appended.
LEMMA LinesAfterAppend ==
  ASSUME LogTypes, NEW left \in Seq(LogLines), left = file \/ left = <<>>, NEW line \in LogLines,
         file' = Append(left, line), NEW e \in Engines
  PROVE  IF EngineOf[line.exec] = e
         THEN Cardinality(LinesOf(e)') = (IF left = file THEN Cardinality(LinesOf(e)) ELSE 0) + 1
         ELSE Cardinality(LinesOf(e)') = IF left = file THEN Cardinality(LinesOf(e)) ELSE 0
<1> DEFINE Old == {i \in DOMAIN left : EngineOf[left[i].exec] = e}
<1>1. LinesOf(e)' = IF EngineOf[line.exec] = e THEN Old \cup {Len(left) + 1} ELSE Old
  BY DEF LinesOf
<1>2. Len(left) + 1 \notin Old
  OBVIOUS
<1>3. left = file => Old = LinesOf(e)
  BY DEF LinesOf
<1>4. left # file => Old = {}
  OBVIOUS
<1>5. IsFiniteSet(Old) /\ Cardinality(Old) = IF left = file THEN Cardinality(LinesOf(e)) ELSE 0
  BY <1>3, <1>4, LinesAreFinite, FS_EmptySet
<1> HIDE DEF Old
<1> QED
  BY <1>1, <1>2, <1>5, FS_AddElement

\* One attempt to append a line: after the log was rotated, or to the log as it is.
LEMMA LineAppended ==
  ASSUME LogInv, NEW x \in Execs, exec[x].pc = "routing", NEW out \in Results, AppendLine(x, out),
         trail' = [trail EXCEPT ![x] = IF out = Denied THEN "failed" ELSE "success"], up' = up
  PROVE  LogInv'
<1> DEFINE e == EngineOf[x]
           line == [exec |-> x, id |-> RunId[x], out |-> out]
<1>2. LogTypes
  BY DEF LogInv
<1>1. PICK left \in Seq(LogLines), n \in Nat, counted \in SUBSET Nat :
        /\ counted \subseteq DOMAIN Append(left, line)
        /\ entries' = [entries EXCEPT ![e] = Append(@, line)]
        /\ \/ RotationDue(e) /\ Rotate /\ left = <<>> /\ n = 0 /\ counted = {}
           \/ /\ UNCHANGED rotationVars /\ left = file /\ n = size[e]
              /\ counted = IF RotationDue(e) THEN overdue \cup {Len(file) + 1} ELSE overdue
        /\ \/ /\ file' = Append(left, line) /\ overdue' = counted
              /\ size' = [size EXCEPT ![e] = n + 1]
              /\ exec' = [exec EXCEPT ![x] = [pc |-> "receipt", out |-> out]]
           \/ /\ file' = left /\ overdue' = counted \cap DOMAIN left
              /\ size' = [size EXCEPT ![e] = n]
              /\ exec' = [exec EXCEPT ![x].pc = "error"]
  <2>1. entries' = [entries EXCEPT ![e] = Append(@, line)]
    BY DEF AppendLine
  <2>2. CASE /\ RotationDue(e) /\ Rotate
             /\ \/ /\ file' = Append(<<>>, line) /\ overdue' = {}
                   /\ size' = [size EXCEPT ![e] = 0 + 1]
                   /\ exec' = [exec EXCEPT ![x] = [pc |-> "receipt", out |-> out]]
                \/ /\ file' = <<>> /\ overdue' = {} \cap DOMAIN <<>>
                   /\ size' = [size EXCEPT ![e] = 0]
                   /\ exec' = [exec EXCEPT ![x].pc = "error"]
    <3>1. <<>> \in Seq(LogLines) /\ 0 \in Nat /\ {} \in SUBSET Nat /\ {} \subseteq DOMAIN Append(<<>>, line)
      OBVIOUS
    <3> HIDE DEF e, line
    <3> QED
      BY <2>1, <2>2, <3>1
  <2> DEFINE marked == IF RotationDue(e) THEN overdue \cup {Len(file) + 1} ELSE overdue
  <2>3. CASE /\ UNCHANGED rotationVars
             /\ \/ /\ file' = Append(file, line) /\ overdue' = marked
                   /\ size' = [size EXCEPT ![e] = size[e] + 1]
                   /\ exec' = [exec EXCEPT ![x] = [pc |-> "receipt", out |-> out]]
                \/ /\ file' = file /\ overdue' = marked \cap DOMAIN file
                   /\ size' = [size EXCEPT ![e] = size[e]]
                   /\ exec' = [exec EXCEPT ![x].pc = "error"]
    <3>1. file \in Seq(LogLines) /\ size[e] \in Nat /\ overdue \in SUBSET (DOMAIN file)
      BY <1>2, LogFacts DEF LogTypes
    <3>2. marked \in SUBSET Nat /\ marked \subseteq DOMAIN Append(file, line)
      BY <3>1
    <3> HIDE DEF e, line
    <3> QED
      BY <2>1, <2>3, <3>1, <3>2
  <2> QED
    BY <2>2, <2>3 DEF AppendLine
<1>3. line \in LogLines /\ e \in Engines /\ line.exec = x /\ (left = file \/ left = <<>>)
  BY <1>1, LogFacts
<1> HIDE DEF e, line
<1>4. LogTypes'
  <2>1. up' \in BOOLEAN /\ trail' \in [Execs -> {"none", "success", "failed"}]
    BY <1>2 DEF LogTypes
  <2>2. entries' \in [Engines -> Seq(LogLines)]
    <3>1. Append(entries[e], line) \in Seq(LogLines)
      BY <1>2, <1>3 DEF LogTypes
    <3> QED
      BY <1>1, <1>2, <3>1 DEF LogTypes
  <2>3. size' \in [Engines -> Nat] /\ file' \in Seq(LogLines)
    <3>1. Append(left, line) \in Seq(LogLines) /\ n + 1 \in Nat
      BY <1>3
    <3>2. file' \in Seq(LogLines)
      BY <1>1, <1>3, <3>1
    <3>3. size' \in [Engines -> Nat]
      BY <1>1, <1>2, <1>3, <3>1 DEF LogTypes
    <3> QED
      BY <3>2, <3>3
  <2>5. overdue' \in SUBSET (DOMAIN file')
    BY <1>1
  <2>4. exec' \in [Execs -> [pc : {"new", "routing", "receipt", "error"}, out : Results]]
    <3> DEFINE Exec == [pc : {"new", "routing", "receipt", "error"}, out : Results]
    <3>1. exec \in [Execs -> Exec]
      BY <1>2 DEF LogTypes
    <3>2. \/ exec' = [exec EXCEPT ![x] = [pc |-> "receipt", out |-> out]]
          \/ exec' = [exec EXCEPT ![x] = [exec[x] EXCEPT !.pc = "error"]]
      BY <1>1, <3>1
    <3>3. [pc |-> "receipt", out |-> out] \in Exec /\ [exec[x] EXCEPT !.pc = "error"] \in Exec
      BY <3>1
    <3> HIDE DEF Exec
    <3>4. exec' \in [Execs -> Exec]
      BY <3>1, <3>2, <3>3
    <3> QED
      BY <3>4 DEF Exec
  <2> QED
    BY <2>1, <2>2, <2>3, <2>4, <2>5 DEF LogTypes
<1>5. EnginesCount'
  <2> SUFFICES ASSUME NEW f \in Engines
               PROVE  Cardinality(LinesOf(f)') <= size'[f] /\ Cardinality(LinesInTime(f)') <= RotateAt - 1
    BY DEF EnginesCount
  <2>1. /\ Cardinality(LinesOf(f)) <= size[f] /\ Cardinality(LinesInTime(f)) <= RotateAt - 1
        /\ Cardinality(LinesOf(f)) \in Nat /\ Cardinality(LinesInTime(f)) \in Nat /\ size[f] \in Nat
    BY <1>2, LinesAreFinite DEF LogInv, EnginesCount, LogTypes
  <2>2. RotateAt \in Nat /\ RotateAt > 1
    BY LogFacts
  <2>3. /\ Cardinality(LinesOf(f)') \in Nat /\ Cardinality(LinesInTime(f)') \in Nat
        /\ Cardinality(LinesInTime(f)') <= Cardinality(LinesOf(f)')
    <3>1. LinesOf(f)' \in SUBSET (DOMAIN file') /\ file' \in Seq(LogLines)
      BY <1>4 DEF LinesOf, LogTypes
    <3>2. IsFiniteSet(LinesOf(f)') /\ Cardinality(LinesOf(f)') \in Nat
      BY <3>1, PositionsAreFinite
    <3>3. LinesInTime(f)' \in SUBSET (LinesOf(f)')
      BY DEF LinesInTime
    <3> QED
      BY <3>2, <3>3, FS_Subset, FS_CardinalityType
  <2>4. size' \in [Engines -> Nat] /\ size \in [Engines -> Nat] /\ Cardinality({}) = 0
    BY <1>2, <1>4, FS_EmptySet DEF LogTypes
  <2>5. CASE file' = Append(left, line) /\ size' = [size EXCEPT ![e] = n + 1] /\ overdue' = counted
    <3>1. IF e = f THEN Cardinality(LinesOf(f)') = (IF left = file THEN Cardinality(LinesOf(f)) ELSE 0) + 1
                   ELSE Cardinality(LinesOf(f)') = IF left = file THEN Cardinality(LinesOf(f)) ELSE 0
      BY <1>2, <1>3, <2>5, LinesAfterAppend DEF e
    <3>2. size'[f] = IF e = f THEN n + 1 ELSE size[f]
      BY <1>3, <2>4, <2>5
    <3>3. CASE left = <<>>
      <4>1. file = <<>> => LinesOf(f) = {}
        BY DEF LinesOf
      <4>2. left = file => Cardinality(LinesOf(f)) = 0
        BY <2>4, <3>3, <4>1
      <4>3. Cardinality(LinesOf(f)') = IF e = f THEN 1 ELSE 0
        BY <3>1, <4>2
      <4> QED
        BY <1>3, <2>1, <2>2, <2>3, <3>2, <4>3
    <3>4. CASE left # <<>>
      <4>1. left = file /\ n = size[e]
        BY <1>1, <3>4
      <4>2. Cardinality(LinesOf(f)') <= size'[f]
        BY <2>1, <3>1, <3>2, <4>1
      <4>3. CASE e = f /\ ~RotationDue(e)
        <5>1. size[f] + 1 < RotateAt
          BY <2>1, <2>2, <3>4, <4>1, <4>3 DEF RotationDue
        <5> QED
          BY <2>1, <2>2, <2>3, <3>1, <4>1, <4>2, <4>3, <5>1
      <4>4. CASE e = f /\ RotationDue(e)
        <5>1. counted = overdue \cup {Len(file) + 1}
          BY <1>1, <3>4, <4>4
        <5>2. LinesOf(f)' \subseteq LinesOf(f) \cup {Len(file) + 1}
          BY <1>2, <2>5, <4>1 DEF LinesOf, LogTypes
        <5>3. LinesInTime(f)' \in SUBSET LinesInTime(f)
          BY <2>5, <5>1, <5>2 DEF LinesInTime
        <5>4. IsFiniteSet(LinesInTime(f))
          BY <1>2, LinesAreFinite
        <5>5. Cardinality(LinesInTime(f)') <= Cardinality(LinesInTime(f))
          BY <5>3, <5>4, FS_Subset
        <5> QED
          BY <2>1, <2>2, <2>3, <4>2, <5>5
      <4>5. CASE e # f
        <5>1. LinesOf(f)' = LinesOf(f)
          <6>1. \A i \in DOMAIN file : i \in DOMAIN file' /\ file'[i] = file[i]
            BY <1>2, <2>5, <4>1 DEF LogTypes
          <6>2. DOMAIN file' = DOMAIN file \cup {Len(file) + 1} /\ file'[Len(file) + 1] = line
            BY <1>2, <2>5, <4>1 DEF LogTypes
          <6> QED
            BY <1>3, <4>5, <6>1, <6>2 DEF LinesOf, e
        <5>2. overdue \subseteq counted
          BY <1>1, <3>4
        <5>3. LinesInTime(f)' \in SUBSET LinesInTime(f)
          BY <2>5, <5>1, <5>2 DEF LinesInTime
        <5>4. IsFiniteSet(LinesInTime(f))
          BY <1>2, LinesAreFinite
        <5>5. Cardinality(LinesInTime(f)') <= Cardinality(LinesInTime(f))
          BY <5>3, <5>4, FS_Subset
        <5> QED
          BY <2>1, <2>2, <2>3, <4>2, <5>5
      <4> QED
        BY <4>3, <4>4, <4>5
    <3> QED
      BY <3>3, <3>4
  <2>6. CASE file' = left /\ size' = [size EXCEPT ![e] = n] /\ overdue' = counted \cap DOMAIN left
    <3>1. CASE left = <<>>
      <4>1. LinesOf(f)' = {}
        BY <2>6, <3>1 DEF LinesOf
      <4> QED
        BY <2>2, <2>3, <2>4, <4>1
    <3>2. CASE left # <<>>
      <4>1. left = file /\ n = size[e] /\ overdue \subseteq counted /\ overdue \subseteq DOMAIN file
        BY <1>1, <1>2, <3>2 DEF LogTypes
      <4>2. LinesOf(f)' = LinesOf(f) /\ size'[f] = size[f]
        BY <2>4, <2>6, <4>1 DEF LinesOf
      <4>3. LinesInTime(f)' \in SUBSET LinesInTime(f)
        BY <2>6, <4>1, <4>2 DEF LinesInTime
      <4>4. IsFiniteSet(LinesInTime(f))
        BY <1>2, LinesAreFinite
      <4>5. Cardinality(LinesInTime(f)') <= Cardinality(LinesInTime(f))
        BY <4>3, <4>4, FS_Subset
      <4> QED
        BY <2>1, <2>2, <2>3, <4>2, <4>5
    <3> QED
      BY <3>1, <3>2
  <2> QED
    BY <1>1, <2>5, <2>6
<1>6. ReceiptsAreOnDisk'
  <2>1. ReceiptsAreOnDisk
    BY DEF LogInv
  <2>2. Range(file) \cup latest \cup backups \cup replaced
          \subseteq Range(left) \cup latest' \cup backups' \cup replaced'
    BY <1>1 DEF Rotate, rotationVars
  <2>3. Range(left) \subseteq Range(file')
    <3>1. ASSUME NEW i \in DOMAIN left PROVE i \in DOMAIN Append(left, line) /\ Append(left, line)[i] = left[i]
      BY <1>3
    <3> QED
      BY <1>1, <3>1 DEF Range
  <2>4. SUFFICES ASSUME NEW y \in Execs, exec'[y].pc = "receipt"
                 PROVE  /\ [exec |-> y, id |-> RunId[y], out |-> exec'[y].out]
                             \in Range(file') \cup latest' \cup backups' \cup replaced'
                        /\ trail'[y] = IF exec'[y].out = Denied THEN "failed" ELSE "success"
    BY DEF ReceiptsAreOnDisk
  <2>5. CASE y # x
    <3>1. exec'[y] = exec[y] /\ trail'[y] = trail[y]
      BY <1>1, <1>2, <2>5 DEF LogTypes
    <3> QED
      BY <2>1, <2>2, <2>3, <2>4, <3>1 DEF ReceiptsAreOnDisk
  <2>6. CASE y = x
    <3>1. exec' = [exec EXCEPT ![x] = [pc |-> "receipt", out |-> out]] /\ file' = Append(left, line)
      BY <1>1, <1>2, <2>4, <2>6 DEF LogTypes
    <3>2. exec'[x].out = out /\ trail'[x] = IF out = Denied THEN "failed" ELSE "success"
      BY <1>2, <3>1 DEF LogTypes
    <3>3. line \in Range(file')
      <4>1. Len(left) + 1 \in DOMAIN Append(left, line) /\ Append(left, line)[Len(left) + 1] = line
        BY <1>3
      <4> QED
        BY <3>1, <4>1 DEF Range
    <3> QED
      BY <2>6, <3>2, <3>3 DEF line
  <2> QED
    BY <2>5, <2>6
<1> QED
  BY <1>4, <1>5, <1>6 DEF LogInv

\* Every step of the log keeps LogInv.
LEMMA LogStep == ASSUME LogInv, [LogNext]_logVars PROVE LogInv'
<1>0. LogTypes /\ EnginesCount /\ ReceiptsAreOnDisk
  BY DEF LogInv
<1>1. ASSUME NEW x \in Execs, Execute(x) PROVE LogInv'
  <2>1. exec' = [exec EXCEPT ![x] = [exec[x] EXCEPT !.pc = "routing"]]
    BY <1>0, <1>1 DEF Execute, LogTypes, diskVars, rotationVars
  <2>2. LogTypes'
    BY <1>0, <1>1, <2>1 DEF Execute, LogTypes, diskVars, rotationVars
  <2>3. EnginesCount'
    BY <1>0, <1>1 DEF Execute, EnginesCount, LinesOf, LinesInTime, diskVars, rotationVars
  <2>4. ReceiptsAreOnDisk'
    BY <1>0, <1>1, <2>1 DEF Execute, ReceiptsAreOnDisk, LogTypes, diskVars, rotationVars
  <2> QED
    BY <2>2, <2>3, <2>4 DEF LogInv
<1>2. ASSUME NEW x \in Execs, Answer(x) PROVE LogInv'
  <2>0. up' = up /\ exec[x].pc = "routing"
    BY <1>2 DEF Answer
  <2>1. ASSUME NEW out \in Outputs, AppendLine(x, out), Audit(x, "success") PROVE LogInv'
    <3>1. out # Denied /\ out \in Results
      BY ExecutionLogAssumption DEF ExecutionLogAssumption, Results
    <3>2. trail' = [trail EXCEPT ![x] = IF out = Denied THEN "failed" ELSE "success"]
      BY <2>1, <3>1 DEF Audit
    <3> QED
      BY <2>0, <2>1, <3>1, <3>2, LineAppended
  <2>2. ASSUME AppendLine(x, Denied), Audit(x, "failed") PROVE LogInv'
    <3>1. Denied \in Results
      BY DEF Results
    <3>2. trail' = [trail EXCEPT ![x] = IF Denied = Denied THEN "failed" ELSE "success"]
      BY <2>2 DEF Audit
    <3> QED
      BY <2>0, <2>2, <3>1, <3>2, LineAppended
  <2>3. ASSUME exec' = [exec EXCEPT ![x].pc = "error"], UNCHANGED <<entries, size, diskVars, trail>>
        PROVE  LogInv'
    <3>1. exec' = [exec EXCEPT ![x] = [exec[x] EXCEPT !.pc = "error"]]
      BY <1>0, <2>3 DEF LogTypes, diskVars, rotationVars
    <3>2. LogTypes'
      BY <1>0, <2>0, <2>3, <3>1 DEF LogTypes, diskVars, rotationVars
    <3>3. EnginesCount'
      BY <1>0, <2>3 DEF EnginesCount, LinesOf, LinesInTime, diskVars, rotationVars
    <3>4. ReceiptsAreOnDisk'
      BY <1>0, <2>3, <3>1 DEF ReceiptsAreOnDisk, LogTypes, diskVars, rotationVars
    <3> QED
      BY <3>2, <3>3, <3>4 DEF LogInv
  <2> QED
    BY <1>2, <2>1, <2>2, <2>3 DEF Answer
<1>3. CASE Crash
  <2>1. \A x \in Execs : /\ exec'[x] = IF exec[x].pc = "routing" THEN [exec[x] EXCEPT !.pc = "error"] ELSE exec[x]
                         /\ exec'[x] \in [pc : {"new", "routing", "receipt", "error"}, out : Results]
    BY <1>0, <1>3 DEF Crash, LogTypes, diskVars, rotationVars
  <2>2. LogTypes'
    <3>1. exec' \in [Execs -> [pc : {"new", "routing", "receipt", "error"}, out : Results]]
      BY <1>3, <2>1 DEF Crash, diskVars, rotationVars
    <3>2. entries' \in [Engines -> Seq(LogLines)]
      <4>1. <<>> \in Seq(LogLines)
        OBVIOUS
      <4> QED
        BY <1>3, <4>1 DEF Crash, diskVars, rotationVars
    <3> QED
      BY <1>0, <1>3, <3>1, <3>2 DEF Crash, LogTypes, diskVars, rotationVars
  <2>3. EnginesCount'
    BY <1>0, <1>3 DEF Crash, EnginesCount, LinesOf, LinesInTime, diskVars, rotationVars
  <2>4. ReceiptsAreOnDisk'
    BY <1>0, <1>3, <2>1 DEF Crash, ReceiptsAreOnDisk, LogTypes, diskVars, rotationVars
  <2> QED
    BY <2>2, <2>3, <2>4 DEF LogInv
<1>4. CASE Restart
  <2>1. LogTypes'
    BY <1>0, <1>4 DEF Restart, LogTypes, diskVars, rotationVars
  <2>2. EnginesCount'
    <3> SUFFICES ASSUME NEW e \in Engines
                 PROVE  Cardinality(LinesOf(e)') <= size'[e] /\ Cardinality(LinesInTime(e)') <= RotateAt - 1
      BY DEF EnginesCount
    <3>1. LinesOf(e)' = LinesOf(e) /\ LinesInTime(e)' = LinesInTime(e)
      BY <1>4 DEF Restart, LinesOf, LinesInTime, diskVars, rotationVars
    <3>2. size'[e] = Len(file)
      BY <1>4 DEF Restart, diskVars, rotationVars
    <3> QED
      BY <1>0, <3>1, <3>2, LinesAreFinite DEF EnginesCount
  <2>3. ReceiptsAreOnDisk'
    BY <1>0, <1>4 DEF Restart, ReceiptsAreOnDisk, diskVars, rotationVars
  <2> QED
    BY <2>1, <2>2, <2>3 DEF LogInv
<1>5. ASSUME NEW e \in Engines, Replay(e) PROVE LogInv'
  <2>1. LogTypes'
    <3>1. entries[e] \o file \in Seq(LogLines)
      BY <1>0 DEF LogTypes, diskVars, rotationVars
    <3> QED
      BY <1>0, <1>5, <3>1 DEF Replay, Loaded, LogTypes, diskVars, rotationVars
  <2>2. EnginesCount'
    BY <1>0, <1>5 DEF Replay, EnginesCount, LinesOf, LinesInTime, diskVars, rotationVars
  <2>3. ReceiptsAreOnDisk'
    BY <1>0, <1>5 DEF Replay, ReceiptsAreOnDisk, diskVars, rotationVars
  <2> QED
    BY <2>1, <2>2, <2>3 DEF LogInv
<1>6. CASE UNCHANGED logVars
  BY <1>0, <1>6 DEF logVars, diskVars, rotationVars, LogInv, LogTypes, EnginesCount, LinesOf, LinesInTime, ReceiptsAreOnDisk
<1> QED
  BY <1>1, <1>2, <1>3, <1>4, <1>5, <1>6 DEF LogNext

\* The lines of some of the engines are no more than RotateAt - 1 for each of them.
LEMMA LogInvBoundsTheFile == LogInv => LogIsBounded
<1> SUFFICES ASSUME LogInv PROVE LogIsBounded
  OBVIOUS
<1>0. LogTypes /\ EnginesCount
  BY DEF LogInv
<1> DEFINE Some(E) == {i \in DOMAIN file \ overdue : EngineOf[file[i].exec] \in E}
           k == RotateAt - 1
           B == {E \in SUBSET Engines : ~(Cardinality(Some(E)) <= Cardinality(E) * k)}
<1>1. k \in Nat /\ IsFiniteSet(Engines)
  BY LogFacts, ExecutionLogAssumption DEF ExecutionLogAssumption
<1>2. /\ IsFiniteSet(DOMAIN file) /\ Cardinality(DOMAIN file) = Len(file)
      /\ Some(Engines) = DOMAIN file \ overdue
  <2> DEFINE n == Len(file)
  <2>1. n \in Nat /\ DOMAIN file = 1 .. n /\ \A i \in DOMAIN file : file[i] \in LogLines
    BY <1>0 DEF LogTypes
  <2> HIDE DEF n
  <2>2. IsFiniteSet(1 .. n) /\ Cardinality(1 .. n) = IF 1 > n THEN 0 ELSE n - 1 + 1
    BY <2>1, FS_Interval
  <2>3. Cardinality(1 .. n) = n
    BY <2>1, <2>2
  <2>4. \A i \in DOMAIN file : EngineOf[file[i].exec] \in Engines
    BY <2>1, LogFacts
  <2> QED
    BY <2>1, <2>2, <2>3, <2>4 DEF n
<1>3. \A E : IsFiniteSet(Some(E)) /\ Cardinality(Some(E)) \in Nat
  <2> TAKE E
  <2>1. Some(E) \in SUBSET (DOMAIN file)
    OBVIOUS
  <2> HIDE DEF Some
  <2> QED
    BY <1>2, <2>1, FS_Subset, FS_CardinalityType
<1>4. B = {}
  <2>1. SUFFICES ASSUME B # {} PROVE FALSE
    OBVIOUS
  <2>2. PICK E \in B : IsFiniteSet(E) /\ \A e \in E : E \ {e} \notin B
    <3> HIDE DEF B
    <3>1. B \in SUBSET (SUBSET Engines)
      BY DEF B
    <3> QED
      BY <1>1, <2>1, <3>1, SmallestSet
  <2>3. E # {}
    <3>1. Some({}) = {} /\ Cardinality({}) = 0 /\ 0 * k = 0
      BY <1>1, FS_EmptySet
    <3> QED
      BY <2>2, <3>1
  <2>4. PICK e \in E : TRUE
    BY <2>3
  <2>5. e \in Engines /\ E \ {e} \in SUBSET Engines
    OBVIOUS
  <2> DEFINE F == E \ {e}
             rest == Cardinality(Some(F))
             n == Cardinality(F)
             own == Cardinality(LinesInTime(e))
  <2>6. rest \in Nat /\ rest <= n * k
    BY <1>3, <2>2, <2>5
  <2>7. n \in Nat /\ Cardinality(E) = n + 1
    BY <2>2, SmallerSet
  <2>8. own \in Nat /\ own <= k /\ IsFiniteSet(LinesInTime(e))
    BY <1>0, <2>5, LinesAreFinite DEF EnginesCount
  <2>9. Cardinality(Some(E)) = own + rest
    <3>1. Some(E) = LinesInTime(e) \cup Some(F) /\ LinesInTime(e) \cap Some(F) = {}
      BY DEF LinesOf, LinesInTime
    <3>2. IsFiniteSet(Some(F))
      BY <1>3
    <3> HIDE DEF Some
    <3>3. Cardinality(LinesInTime(e) \cup Some(F)) = own + rest - Cardinality(LinesInTime(e) \cap Some(F))
      BY <2>8, <3>2, FS_Union
    <3>4. Cardinality({}) = 0
      BY FS_EmptySet
    <3>5. Cardinality(Some(E)) = own + rest - 0
      BY <3>1, <3>3, <3>4
    <3> HIDE DEF own, rest
    <3> QED
      BY <2>6, <2>8, <3>5
  <2>10. ~(own + rest <= (n + 1) * k)
    BY <2>2, <2>7, <2>9
  <2> HIDE DEF F, rest, n, own, k
  <2>11. n * k \in Nat /\ (n + 1) * k = n * k + k
    BY <1>1, <2>7
  <2> QED
    BY <1>1, <2>6, <2>7, <2>8, <2>10, <2>11
<1>5. Engines \in SUBSET Engines
  OBVIOUS
<1>6. Cardinality(Some(Engines)) <= Cardinality(Engines) * k
  BY <1>4, <1>5
<1>7. /\ Cardinality(Some(Engines)) = Cardinality(DOMAIN file) - Cardinality(overdue)
      /\ Cardinality(overdue) \in Nat /\ Cardinality(DOMAIN file) \in Nat
  <2>1. overdue \in SUBSET (DOMAIN file)
    BY <1>0 DEF LogTypes
  <2>2. DOMAIN file \cap overdue = overdue
    BY <2>1
  <2>3. Cardinality(DOMAIN file \ overdue) = Cardinality(DOMAIN file) - Cardinality(DOMAIN file \cap overdue)
    BY <1>2, FS_Difference
  <2> QED
    BY <1>2, <2>1, <2>2, <2>3, FS_Subset, FS_CardinalityType
<1>8. Cardinality(Engines) * k \in Nat
  <2>1. Cardinality(Engines) \in Nat
    BY <1>1, FS_CardinalityType
  <2> HIDE DEF k
  <2> QED
    BY <1>1, <2>1
<1> HIDE DEF Some
<1>9. Len(file) <= Cardinality(Engines) * k + Cardinality(overdue)
  <2> HIDE DEF k
  <2> QED
    BY <1>2, <1>3, <1>6, <1>7, <1>8
<1> QED
  BY <1>9 DEF LogIsBounded

\* Entries are only added at the end while a process runs.
LEMMA EntriesGrow ==
  ASSUME LogInv, [LogNext]_logVars, up', NEW e \in Engines
  PROVE  \E more \in Seq(LogLines) : entries[e] \in Seq(LogLines) /\ entries'[e] = entries[e] \o more
<1>0. /\ LogTypes /\ entries[e] \in Seq(LogLines) /\ file \in Seq(LogLines)
      /\ DOMAIN entries = Engines
  BY DEF LogInv, LogTypes
<1>1. ASSUME entries' = entries PROVE entries[e] \o <<>> = entries'[e] /\ <<>> \in Seq(LogLines)
  BY <1>0, <1>1
<1>2. ASSUME NEW x \in Execs, Answer(x), entries' # entries
      PROVE \E more \in Seq(LogLines) : entries'[e] = entries[e] \o more
  <2>1. PICK out \in Results : AppendLine(x, out)
    BY <1>2 DEF Answer, Results
  <2> DEFINE line == [exec |-> x, id |-> RunId[x], out |-> out]
  <2>2. entries' = [entries EXCEPT ![EngineOf[x]] = Append(entries[EngineOf[x]], line)] /\ line \in LogLines
    BY <2>1, LogFacts, <1>0 DEF AppendLine
  <2> HIDE DEF line
  <2>3. <<line>> \in Seq(LogLines) /\ <<>> \in Seq(LogLines)
    BY <2>2
  <2>4. Append(entries[e], line) = entries[e] \o <<line>>
    <3>1. entries[e] \in Seq(LogLines) /\ line \in LogLines
      BY <1>0, <2>2
    <3> QED
      BY <3>1
  <2>5. entries[e] = entries[e] \o <<>>
    BY <1>0
  <2> QED
    BY <1>0, <2>2, <2>3, <2>4, <2>5
<1>3. ASSUME NEW f \in Engines, Replay(f)
      PROVE \E more \in Seq(LogLines) : entries'[e] = entries[e] \o more
  <2>1. entries' = [entries EXCEPT ![f] = entries[f] \o file]
    BY <1>3 DEF Replay, Loaded
  <2>2. <<>> \in Seq(LogLines) /\ entries[e] = entries[e] \o <<>>
    BY <1>0
  <2> QED
    BY <1>0, <2>1, <2>2
<1>4. \/ entries' = entries
      \/ \E x \in Execs : Answer(x)
      \/ \E f \in Engines : Replay(f)
  BY DEF LogNext, Execute, Crash, Restart, logVars
<1> QED
  BY <1>0, <1>1, <1>2, <1>3, <1>4

\* What is added at the end cannot change which entry is the first one.
LEMMA LogVerifies ==
  ASSUME LogInv, [LogNext]_logVars, up', NEW e \in Engines, NEW id, NEW out, Verifies(e, id, out)
  PROVE  Verifies(e, id, out)'
<1>1. PICK more \in Seq(LogLines) : entries[e] \in Seq(LogLines) /\ entries'[e] = entries[e] \o more
  BY EntriesGrow
<1> DEFINE old == entries[e]
           new == entries'[e]
           Found == {i \in DOMAIN old : old[i].id = id}
           Now == {i \in DOMAIN new : new[i].id = id}
<1>2. Found # {} /\ old[CHOOSE i \in Found : \A j \in Found : i <= j].out = out
  BY DEF Verifies
<1>3. Found \in SUBSET Nat
  BY <1>1
<1>4. PICK i \in Found : \A j \in Found : i <= j
  <2> HIDE DEF Found
  <2> QED
    BY <1>2, <1>3, LeastNat
<1>5. (CHOOSE m \in Found : \A j \in Found : m <= j) = i
  BY <1>3, <1>4
<1>6. \A j \in DOMAIN old : j \in DOMAIN new /\ new[j] = old[j]
  BY <1>1
<1>7. \A j \in Now : i <= j
  <2> SUFFICES ASSUME NEW j \in Now PROVE i <= j
    OBVIOUS
  <2>1. CASE j \in DOMAIN old
    BY <1>4, <1>6, <2>1
  <2>2. CASE j \notin DOMAIN old
    BY <1>1, <2>2
  <2> QED
    BY <2>1, <2>2
<1>8. i \in Now /\ Now \in SUBSET Nat
  BY <1>1, <1>6
<1>9. (CHOOSE m \in Now : \A j \in Now : m <= j) = i
  BY <1>7, <1>8
<1>10. new[i].out = out
  BY <1>2, <1>5, <1>6
<1> QED
  BY <1>8, <1>9, <1>10 DEF Verifies

-----------------------------------------------------------------------------
(* Where paths lead.                                                       *)

\* No edge leaves the set.
IsClosed(edges, S) == \A e \in edges : e[1] \in S => e[2] \in S

\* It holds where paths begin, no edge leaves it, and it is the least such set.
LEMMA ReachedIsClosed ==
  ASSUME NEW nodes, NEW edges \in SUBSET (nodes \X nodes), NEW from \in SUBSET nodes
  PROVE  /\ from \subseteq Reached(nodes, edges, from)
         /\ Reached(nodes, edges, from) \in SUBSET nodes
         /\ IsClosed(edges, Reached(nodes, edges, from))
<1>1. ASSUME NEW e \in edges, e[1] \in Reached(nodes, edges, from) PROVE e[2] \in Reached(nodes, edges, from)
  <2>1. e[2] \in nodes
    OBVIOUS
  <2>2. ASSUME NEW closed \in SUBSET nodes, from \subseteq closed,
               \A d \in edges : d[1] \in closed => d[2] \in closed
        PROVE  e[2] \in closed
    BY <1>1, <2>2 DEF Reached
  <2> QED
    BY <2>1, <2>2 DEF Reached
<1> QED
  BY <1>1 DEF Reached, IsClosed

LEMMA ReachedIsLeast ==
  ASSUME NEW nodes, NEW edges, NEW from, NEW closed \in SUBSET nodes, from \subseteq closed, IsClosed(edges, closed)
  PROVE  Reached(nodes, edges, from) \subseteq closed
BY DEF Reached, IsClosed

\* Paths can be joined.
LEMMA ReachedOnwards ==
  ASSUME NEW nodes, NEW edges \in SUBSET (nodes \X nodes), NEW from \in SUBSET nodes,
         NEW onwards \in SUBSET Reached(nodes, edges, from)
  PROVE  Reached(nodes, edges, onwards) \subseteq Reached(nodes, edges, from)
BY ReachedIsClosed, ReachedIsLeast

\* Whatever is reached is reached from one of the ids that paths begin at.
LEMMA ReachedFromOne ==
  ASSUME NEW nodes, NEW edges \in SUBSET (nodes \X nodes), NEW from \in SUBSET nodes,
         NEW n \in Reached(nodes, edges, from)
  PROVE  \E m \in from : n \in Reached(nodes, edges, {m})
<1> DEFINE all == {k \in nodes : \E m \in from : k \in Reached(nodes, edges, {m})}
<1>1. ASSUME NEW m \in from PROVE /\ m \in Reached(nodes, edges, {m})
                                  /\ Reached(nodes, edges, {m}) \in SUBSET nodes
                                  /\ IsClosed(edges, Reached(nodes, edges, {m}))
  BY ReachedIsClosed
<1>2. from \subseteq all
  BY <1>1
<1>3. IsClosed(edges, all)
  <2>1. ASSUME NEW e \in edges, e[1] \in all PROVE e[2] \in all
    <3>1. PICK m \in from : e[1] \in Reached(nodes, edges, {m})
      BY <2>1
    <3>2. e[2] \in Reached(nodes, edges, {m})
      BY <1>1, <3>1 DEF IsClosed
    <3> QED
      BY <1>1, <3>1, <3>2
  <2> HIDE DEF all
  <2> QED
    BY <2>1 DEF IsClosed
<1>4. Reached(nodes, edges, from) \subseteq all
  <2>1. all \in SUBSET nodes
    OBVIOUS
  <2> HIDE DEF all
  <2> QED
    BY <1>2, <1>3, <2>1, ReachedIsLeast
<1> QED
  BY <1>4

\* A path backwards is a path.
LEMMA ReachedBackwards ==
  ASSUME NEW nodes, NEW edges \in SUBSET (nodes \X nodes), NEW m \in nodes,
         NEW n \in Reached(nodes, edges, {m})
  PROVE  m \in Reached(nodes, {<<e[2], e[1]>> : e \in edges}, {n})
<1> DEFINE back == {<<e[2], e[1]>> : e \in edges}
           S    == Reached(nodes, back, {n})
<1>1. back \in SUBSET (nodes \X nodes) /\ {n} \in SUBSET nodes
  BY DEF Reached
<1>2. n \in S /\ IsClosed(back, S)
  <2> HIDE DEF back
  <2> QED
    BY <1>1, ReachedIsClosed
<1>3. SUFFICES ASSUME m \notin S PROVE FALSE
  OBVIOUS
<1>4. IsClosed(edges, nodes \ S)
  <2>1. ASSUME NEW e \in edges, e[1] \in nodes \ S PROVE e[2] \in nodes \ S
    <3>1. <<e[2], e[1]>> \in back /\ e[2] \in nodes
      OBVIOUS
    <3> HIDE DEF back, S
    <3>2. e[2] \in S => e[1] \in S
      BY <1>2, <3>1 DEF IsClosed
    <3> QED
      BY <2>1, <3>1, <3>2
  <2> HIDE DEF S
  <2> QED
    BY <2>1 DEF IsClosed
<1>5. n \in nodes \ S
  <2> HIDE DEF S
  <2> QED
    BY <1>3, <1>4, ReachedIsLeast
<1> QED
  BY <1>2, <1>5

-----------------------------------------------------------------------------
(* Folds.                                                                  *)

LEMMA GreatestOf ==
  ASSUME NEW n \in Nat, NEW s \in SUBSET (1 .. n), s # {}
  PROVE  Max(s) \in s /\ \A x \in s : x <= Max(s)
<1> DEFINE below == {n - x : x \in s}
<1>0. \A x \in s : x \in Nat /\ x <= n
  OBVIOUS
<1>1. below \in SUBSET Nat /\ below # {}
  <2>1. \A x \in s : n - x \in Nat
    BY <1>0
  <2> QED
    BY <2>1
<1>2. PICK b \in below : \A c \in below : b <= c
  <2> HIDE DEF below
  <2> QED
    BY <1>1, LeastNat
<1>3. PICK x \in s : b = n - x
  BY <1>2
<1>4. ASSUME NEW y \in s PROVE x >= y
  <2>1. n - x <= n - y
    BY <1>2, <1>3
  <2> QED
    BY <1>0, <1>3, <2>1
<1>5. Max(s) \in s /\ \A y \in s : Max(s) >= y
  BY <1>4 DEF Max
<1> QED
  BY <1>0, <1>5

\* The equation of FoldLeft over the sets of positions in D.
IsFold(iter, step, start, ids, D) ==
  iter = [s \in D |-> IF s = {} THEN start ELSE step[<<iter[s \ {Max(s)}], ids[Max(s)]>>]]

\* It has a solution.
LEMMA FoldsUpTo ==
  ASSUME NEW step, NEW start, NEW ids
  PROVE  \A n \in Nat : \E iter : IsFold(iter, step, start, ids, SUBSET (1 .. n))
<1> DEFINE Bad == {n \in Nat : ~\E iter : IsFold(iter, step, start, ids, SUBSET (1 .. n))}
<1>1. SUFFICES ASSUME Bad # {} PROVE FALSE
  OBVIOUS
<1>2. PICK n \in Bad : \A m \in Bad : n <= m
  <2> HIDE DEF Bad
  <2>1. Bad \in SUBSET Nat
    BY DEF Bad
  <2> QED
    BY <1>1, <2>1, LeastNat
<1>3. n # 0
  <2>1. IsFold([s \in {{}} |-> start], step, start, ids, {{}})
    BY DEF IsFold
  <2>2. SUBSET (1 .. 0) = {{}}
    OBVIOUS
  <2> QED
    BY <2>1, <2>2
<1>4. PICK g : IsFold(g, step, start, ids, SUBSET (1 .. (n - 1)))
  <2>1. n \in Nat
    OBVIOUS
  <2>2. n - 1 \in Nat /\ n - 1 \notin Bad
    <3> HIDE DEF Bad
    <3> QED
      BY <1>2, <1>3, <2>1
  <2> QED
    BY <2>2
<1> DEFINE D == SUBSET (1 .. n)
           C == SUBSET (1 .. (n - 1))
           h == [s \in D |-> IF s = {} THEN start ELSE step[<<g[s \ {Max(s)}], ids[Max(s)]>>]]
<1>5. ASSUME NEW s \in D, s # {} PROVE s \ {Max(s)} \in C
  <2>1. Max(s) \in s /\ \A x \in s : x <= Max(s)
    BY <1>5, GreatestOf
  <2>2. ASSUME NEW x \in s, x # Max(s) PROVE x \in 1 .. (n - 1)
    <3>1. x \in 1 .. n /\ Max(s) \in 1 .. n /\ x <= Max(s)
      BY <2>1
    <3> QED
      BY <3>1, <2>2
  <2> QED
    BY <2>2
<1>6. C \subseteq D
  OBVIOUS
<1>7. ASSUME NEW s \in C PROVE h[s] = g[s]
  <2>1. g[s] = IF s = {} THEN start ELSE step[<<g[s \ {Max(s)}], ids[Max(s)]>>]
    BY <1>4, Zenon DEF IsFold
  <2>2. s \in D
    BY <1>6
  <2> QED
    BY <2>1, <2>2, Zenon
<1>8. h = [s \in D |-> IF s = {} THEN start ELSE step[<<h[s \ {Max(s)}], ids[Max(s)]>>]]
  <2>1. ASSUME NEW s \in D, s # {} PROVE h[s \ {Max(s)}] = g[s \ {Max(s)}]
    <3>1. s \ {Max(s)} \in C
      BY <1>5, <2>1
    <3> HIDE DEF C, D, h
    <3> QED
      BY <1>7, <3>1
  <2> HIDE DEF C, D
  <2> QED
    BY <2>1
<1>9. IsFold(h, step, start, ids, D)
  <2> HIDE DEF D, C
  <2> QED
    BY <1>8, Zenon DEF IsFold
<1> QED
  BY <1>9, <1>2

\* What a fold goes through.
IsChain(c, step, start, ids, n) ==
  /\ c[0] = start /\ Through(step, start, ids) = c[n]
  /\ \A m \in 1 .. n : c[m] = step[<<c[m - 1], ids[m]>>]

LEMMA ThroughIsChain ==
  ASSUME NEW step, NEW start, NEW ids, NEW n \in Nat, DOMAIN ids = 1 .. n
  PROVE  \E c : IsChain(c, step, start, ids, n)
<1> DEFINE iter == CHOOSE iter : IsFold(iter, step, start, ids, SUBSET (1 .. n))
<1>1. IsFold(iter, step, start, ids, SUBSET (1 .. n))
  BY FoldsUpTo
<1>2. Through(step, start, ids) = iter[1 .. n]
  BY DEF Through, FoldLeft, MapThenFoldSet, IsFold
<1> HIDE DEF iter
<1> DEFINE c == [m \in 0 .. n |-> iter[1 .. m]]
<1>3. c[0] = start
  <2>1. 1 .. 0 = {} /\ {} \in SUBSET (1 .. n)
    OBVIOUS
  <2>2. iter[{}] = start
    BY <1>1, <2>1, Zenon DEF IsFold
  <2> QED
    BY <2>1, <2>2
<1>4. ASSUME NEW m \in 1 .. n PROVE c[m] = step[<<c[m - 1], ids[m]>>]
  <2>1. (1 .. m) \in SUBSET (1 .. n) /\ 1 .. m # {}
    <3>1. 1 \in 1 .. m
      OBVIOUS
    <3>2. \A k \in 1 .. m : k \in 1 .. n
      OBVIOUS
    <3> QED
      BY <3>1, <3>2
  <2>2. Max(1 .. m) = m
    <3>1. Max(1 .. m) \in 1 .. m /\ \A x \in 1 .. m : x <= Max(1 .. m)
      BY <2>1, GreatestOf
    <3>2. m \in 1 .. m
      OBVIOUS
    <3>3. m <= Max(1 .. m) /\ Max(1 .. m) <= m /\ Max(1 .. m) \in Nat
      BY <3>1, <3>2
    <3> QED
      BY <3>3
  <2>3. (1 .. m) \ {m} = 1 .. (m - 1)
    OBVIOUS
  <2>4. iter[1 .. m] = step[<<iter[(1 .. m) \ {Max(1 .. m)}], ids[Max(1 .. m)]>>]
    <3> DEFINE s == 1 .. m
    <3> HIDE DEF s
    <3>1. s \in SUBSET (1 .. n) /\ s # {}
      BY <2>1 DEF s
    <3>2. iter[s] = step[<<iter[s \ {Max(s)}], ids[Max(s)]>>]
      BY <1>1, <3>1, Zenon DEF IsFold
    <3> QED
      BY <3>2 DEF s
  <2>5. m \in 0 .. n /\ m - 1 \in 0 .. n
    OBVIOUS
  <2> QED
    BY <2>2, <2>3, <2>4, <2>5
<1>5. Through(step, start, ids) = c[n]
  BY <1>2
<1> HIDE DEF c
<1> QED
  BY <1>3, <1>4, <1>5 DEF IsChain

\* A fold ends where each of its steps, from one set to the next, leads.
LEMMA ThroughStays ==
  ASSUME NEW step, NEW start, NEW ids, NEW n \in Nat, DOMAIN ids = 1 .. n,
         NEW P, start \in P[0],
         \A m \in 1 .. n : \A x \in P[m - 1] : step[<<x, ids[m]>>] \in P[m]
  PROVE  Through(step, start, ids) \in P[n]
<1>0. PICK c : IsChain(c, step, start, ids, n)
  BY ThroughIsChain
<1>1. /\ c[0] = start /\ Through(step, start, ids) = c[n]
      /\ \A m \in 1 .. n : c[m] = step[<<c[m - 1], ids[m]>>]
  BY <1>0 DEF IsChain
<1> DEFINE Bad == {m \in 0 .. n : c[m] \notin P[m]}
<1>2. SUFFICES ASSUME Bad # {} PROVE FALSE
  BY <1>1
<1>3. PICK m \in Bad : \A k \in Bad : m <= k
  <2> HIDE DEF Bad
  <2>1. Bad \in SUBSET Nat
    BY DEF Bad
  <2> QED
    BY <1>2, <2>1, LeastNat
<1>4. m # 0
  BY <1>1, <1>3
<1>5. m \in 1 .. n /\ m - 1 \in 0 .. n /\ m - 1 \notin Bad
  BY <1>3, <1>4
<1>6. c[m - 1] \in P[m - 1]
  BY <1>5
<1>7. c[m] \in P[m]
  BY <1>1, <1>5, <1>6
<1> QED
  BY <1>3, <1>7

\* Steps that agree on the way agree at the end.
LEMMA ThroughAgrees ==
  ASSUME NEW step, NEW other, NEW start, NEW ids, NEW n \in Nat, DOMAIN ids = 1 .. n,
         NEW P, start \in P,
         \A m \in 1 .. n : \A x \in P : /\ step[<<x, ids[m]>>] \in P
                                        /\ other[<<x, ids[m]>>] = step[<<x, ids[m]>>]
  PROVE  Through(other, start, ids) = Through(step, start, ids)
<1>c. PICK c : IsChain(c, step, start, ids, n)
  BY ThroughIsChain
<1>d. PICK d : IsChain(d, other, start, ids, n)
  BY ThroughIsChain
<1>1. /\ c[0] = start /\ Through(step, start, ids) = c[n]
      /\ \A m \in 1 .. n : c[m] = step[<<c[m - 1], ids[m]>>]
      /\ d[0] = start /\ Through(other, start, ids) = d[n]
      /\ \A m \in 1 .. n : d[m] = other[<<d[m - 1], ids[m]>>]
  BY <1>c, <1>d DEF IsChain
<1> DEFINE Bad == {m \in 0 .. n : ~(c[m] \in P /\ c[m] = d[m])}
<1>3. SUFFICES ASSUME Bad # {} PROVE FALSE
  BY <1>1
<1>4. PICK m \in Bad : \A k \in Bad : m <= k
  <2> HIDE DEF Bad
  <2>1. Bad \in SUBSET Nat
    BY DEF Bad
  <2> QED
    BY <1>3, <2>1, LeastNat
<1>5. m # 0
  BY <1>1, <1>4
<1>6. m \in 1 .. n /\ m - 1 \in 0 .. n /\ m - 1 \notin Bad
  BY <1>4, <1>5
<1>7. c[m - 1] \in P /\ c[m - 1] = d[m - 1]
  BY <1>6
<1>8. c[m] \in P /\ c[m] = d[m]
  <2>1. /\ step[<<c[m - 1], ids[m]>>] \in P
        /\ other[<<c[m - 1], ids[m]>>] = step[<<c[m - 1], ids[m]>>]
    BY <1>6, <1>7, Zenon
  <2>2. c[m] = step[<<c[m - 1], ids[m]>>] /\ d[m] = other[<<c[m - 1], ids[m]>>]
    BY <1>1, <1>6, <1>7, Zenon
  <2> QED
    BY <2>1, <2>2, Zenon
<1> QED
  BY <1>4, <1>8

-----------------------------------------------------------------------------
(* Sorted lists.                                                           *)

\* The ids that precede one in a sorted list.
Preceding(ids, key, id) == {m \in ids : key[m] > key[id] \/ (key[m] = key[id] /\ m < id)}

\* No two ids are preceded by equally many: so the list has all of them.
LEMMA SortedHasAll ==
  ASSUME NEW ids \in SUBSET Nat, IsFiniteSet(ids), NEW key, \A id \in ids : key[id] \in Nat
  PROVE  /\ SortedBy(ids, key) \in Seq(ids) /\ Len(SortedBy(ids, key)) = Cardinality(ids)
         /\ DOMAIN SortedBy(ids, key) = 1 .. Cardinality(ids)
         /\ Range(SortedBy(ids, key)) = ids
<1> DEFINE n == Cardinality(ids)
<1>1. n \in Nat
  BY FS_CardinalityType
<1>2. ASSUME NEW id \in ids
      PROVE  /\ IsFiniteSet(Preceding(ids, key, id)) /\ Cardinality(Preceding(ids, key, id)) \in Nat
             /\ Cardinality(Preceding(ids, key, id)) < n
  <2>1. Preceding(ids, key, id) \in SUBSET ids /\ id \notin Preceding(ids, key, id)
    BY DEF Preceding
  <2>2. IsFiniteSet(Preceding(ids, key, id)) /\ Cardinality(Preceding(ids, key, id)) <= n
        /\ (n = Cardinality(Preceding(ids, key, id)) => ids = Preceding(ids, key, id))
    BY <2>1, FS_Subset
  <2>3. Cardinality(Preceding(ids, key, id)) \in Nat
    BY <2>2, FS_CardinalityType
  <2> QED
    BY <1>1, <2>1, <2>2, <2>3
<1> HIDE DEF n
<1> DEFINE rank == [id \in ids |-> Cardinality(Preceding(ids, key, id)) + 1]
<1>3. rank \in [ids -> 1 .. n]
  <2>1. ASSUME NEW id \in ids PROVE Cardinality(Preceding(ids, key, id)) + 1 \in 1 .. n
    BY <1>1, <1>2
  <2> QED
    BY <2>1
<1>4. ASSUME NEW a \in ids, NEW b \in ids, a \in Preceding(ids, key, b)
      PROVE  Cardinality(Preceding(ids, key, a)) < Cardinality(Preceding(ids, key, b))
  <2>1. Preceding(ids, key, a) \subseteq Preceding(ids, key, b) \ {a}
    <3>1. ASSUME NEW m \in Preceding(ids, key, a) PROVE m \in Preceding(ids, key, b) /\ m # a
      <4>1. /\ m \in Nat /\ a \in Nat /\ b \in Nat /\ key[m] \in Nat /\ key[a] \in Nat /\ key[b] \in Nat
            /\ m \in ids
        BY DEF Preceding
      <4> QED
        BY <1>4, <4>1 DEF Preceding
    <3> QED
      BY <3>1
  <2>2. /\ IsFiniteSet(Preceding(ids, key, b) \ {a})
        /\ Cardinality(Preceding(ids, key, b)) = Cardinality(Preceding(ids, key, b) \ {a}) + 1
        /\ Cardinality(Preceding(ids, key, b) \ {a}) \in Nat
    BY <1>2, <1>4, SmallerSet
  <2>3. Cardinality(Preceding(ids, key, a)) <= Cardinality(Preceding(ids, key, b) \ {a})
    BY <2>1, <2>2, FS_Subset
  <2> QED
    BY <1>2, <2>2, <2>3
<1>5. ASSUME NEW a \in ids, NEW b \in ids, rank[a] = rank[b] PROVE a = b
  <2>1. Cardinality(Preceding(ids, key, a)) = Cardinality(Preceding(ids, key, b))
    BY <1>2, <1>5
  <2>2. a \notin Preceding(ids, key, b) /\ b \notin Preceding(ids, key, a)
    BY <1>2, <1>4, <2>1
  <2>3. a \in Nat /\ b \in Nat /\ key[a] \in Nat /\ key[b] \in Nat
    OBVIOUS
  <2> QED
    BY <2>2, <2>3 DEF Preceding
<1>6. rank \in Surjection(ids, 1 .. n)
  <2>1. rank \in Injection(ids, 1 .. n)
    BY <1>3, <1>5 DEF Injection, IsInjective
  <2>2. IsFiniteSet(1 .. n) /\ Cardinality(1 .. n) = n
    <3>1. 1 \in Int /\ n \in Int
      BY <1>1
    <3> QED
      BY <1>1, <3>1, FS_Interval
  <2> HIDE DEF rank
  <2>3. Cardinality(ids) = Cardinality(1 .. n)
    BY <2>2 DEF n
  <2> QED
    BY <2>1, <2>2, <2>3, FS_Injection
<1> DEFINE s == SortedBy(ids, key)
<1>7. s = [i \in 1 .. n |-> CHOOSE id \in ids : Cardinality(Preceding(ids, key, id)) = i - 1]
  BY DEF SortedBy, Preceding, n
<1> HIDE DEF s
<1>8. ASSUME NEW i \in 1 .. n PROVE s[i] \in ids /\ Cardinality(Preceding(ids, key, s[i])) = i - 1
  <2>1. PICK id \in ids : rank[id] = i
    BY <1>6 DEF Surjection
  <2>2. Cardinality(Preceding(ids, key, id)) = i - 1
    BY <1>2, <2>1
  <2>3. s[i] = CHOOSE x \in ids : Cardinality(Preceding(ids, key, x)) = i - 1
    BY <1>7
  <2> QED
    BY <2>2, <2>3
<1>9. DOMAIN s = 1 .. n /\ s \in [1 .. n -> ids]
  BY <1>7, <1>8
<1>10. s \in Seq(ids) /\ Len(s) = n
  BY <1>1, <1>9
<1>11. ASSUME NEW id \in ids PROVE id \in Range(s)
  <2>1. rank[id] \in 1 .. n /\ rank[id] = Cardinality(Preceding(ids, key, id)) + 1
    BY <1>3
  <2>2. PICK i \in 1 .. n : i = rank[id]
    BY <2>1
  <2>3. Cardinality(Preceding(ids, key, s[i])) = Cardinality(Preceding(ids, key, id)) /\ s[i] \in ids
    BY <1>2, <1>8, <2>1, <2>2
  <2>4. rank[s[i]] = rank[id]
    BY <2>3
  <2>5. s[i] = id
    BY <1>5, <2>3, <2>4
  <2> QED
    BY <1>9, <2>5 DEF Range
<1>12. Range(s) = ids
  BY <1>9, <1>11 DEF Range
<1> QED
  BY <1>9, <1>10, <1>12 DEF s, n

-----------------------------------------------------------------------------
(* The walk.                                                               *)

Enter(walk, id) == [walk EXCEPT !.visiting = @ \cup {id}]

Leave(walk, id, listed) ==
  [visiting |-> walk.visiting \ {id}, visited |-> walk.visited \cup {id}, order |-> Listing(walk.order, id, listed)]

\* The equation of visit(), for the arguments in D.
VisitOnce(visit, below, listed, walk, id) ==
  IF id \in walk.visiting \cup walk.visited THEN walk
  ELSE Leave(Through(visit, Enter(walk, id), below[id]), id, listed)

IsVisit(visit, below, listed, D) ==
  visit = [at \in D |-> VisitOnce(visit, below, listed, at[1], at[2])]

Seen(walk) == walk.visiting \cup walk.visited

Unseen(walk) == Cardinality(NodeIds \ Seen(walk))

\* The arguments for which at most n ids have not been seen.
Within(n) == {at \in Walks \X NodeIds : Unseen(at[1]) <= n}

\* A visit forgets no id.
Extends(walk, later) == later \in Walks /\ Seen(walk) \subseteq Seen(later)

GoesOn(visit, D) == \A at \in D : Extends(at[1], visit[at])

LEMMA WalkFields ==
  ASSUME NEW walk \in Walks
  PROVE  /\ walk.visiting \in SUBSET NodeIds /\ walk.visited \in SUBSET NodeIds
         /\ walk.order \in Seq(NodeIds) /\ Seen(walk) \in SUBSET NodeIds
         /\ Unseen(walk) \in Nat /\ Unseen(walk) <= Cardinality(NodeIds)
         /\ \A other \in Walks : Seen(walk) \subseteq Seen(other) => Unseen(other) <= Unseen(walk)
<1>1. /\ walk.visiting \in SUBSET NodeIds /\ walk.visited \in SUBSET NodeIds
      /\ walk.order \in Seq(NodeIds) /\ Seen(walk) \in SUBSET NodeIds
  BY DEF Walks, Seen
<1>2. IsFiniteSet(NodeIds)
  BY PromptsAssumption
<1>3. IsFiniteSet(NodeIds \ Seen(walk)) /\ Unseen(walk) \in Nat /\ Unseen(walk) <= Cardinality(NodeIds)
  BY <1>2, FS_Subset, FS_CardinalityType DEF Unseen
<1>4. ASSUME NEW other \in Walks, Seen(walk) \subseteq Seen(other) PROVE Unseen(other) <= Unseen(walk)
  <2>1. NodeIds \ Seen(other) \subseteq NodeIds \ Seen(walk)
    BY <1>4
  <2> QED
    BY <1>3, <2>1, FS_Subset DEF Unseen
<1> QED
  BY <1>1, <1>3, <1>4

LEMMA EnterFacts ==
  ASSUME NEW walk \in Walks, NEW id \in NodeIds
  PROVE  /\ Enter(walk, id) \in Walks /\ Seen(Enter(walk, id)) = Seen(walk) \cup {id}
         /\ Enter(walk, id).visiting = walk.visiting \cup {id}
         /\ Enter(walk, id).visited = walk.visited /\ Enter(walk, id).order = walk.order
         /\ id \notin Seen(walk) => Unseen(walk) = Unseen(Enter(walk, id)) + 1
<1>1. /\ Enter(walk, id) \in Walks /\ Seen(Enter(walk, id)) = Seen(walk) \cup {id}
      /\ Enter(walk, id).visiting = walk.visiting \cup {id}
      /\ Enter(walk, id).visited = walk.visited /\ Enter(walk, id).order = walk.order
  BY DEF Enter, Walks, Seen
<1>2. ASSUME id \notin Seen(walk) PROVE Unseen(walk) = Unseen(Enter(walk, id)) + 1
  <2>1. IsFiniteSet(NodeIds \ Seen(walk))
    BY PromptsAssumption, FS_Subset
  <2>2. id \in NodeIds \ Seen(walk) /\ (NodeIds \ Seen(walk)) \ {id} = NodeIds \ Seen(Enter(walk, id))
    BY <1>1, <1>2
  <2> QED
    BY <2>1, <2>2, SmallerSet DEF Unseen
<1> QED
  BY <1>1, <1>2

LEMMA LeaveFacts ==
  ASSUME NEW walk \in Walks, NEW id \in NodeIds, NEW listed
  PROVE  /\ Leave(walk, id, listed) \in Walks /\ Seen(Leave(walk, id, listed)) = Seen(walk) \cup {id}
         /\ Leave(walk, id, listed).visiting = walk.visiting \ {id}
         /\ Leave(walk, id, listed).visited = walk.visited \cup {id}
         /\ Leave(walk, id, listed).order = Listing(walk.order, id, listed)
<1>1. Listing(walk.order, id, listed) \in Seq(NodeIds)
  BY DEF Walks, Listing
<1> QED
  BY <1>1 DEF Leave, Walks, Seen

\* Two visits that agree on D.
Agree(visit, other, D) == \A at \in D : other[at] = visit[at]

LEMMA VisitOnceGoesOn ==
  ASSUME NEW below \in [NodeIds -> Seq(NodeIds)], NEW listed, NEW n \in Nat, NEW visit,
         GoesOn(visit, Within(n)), NEW other, Agree(visit, other, Within(n)),
         NEW walk \in Walks, NEW id \in NodeIds, Unseen(walk) <= n + 1
  PROVE  /\ Extends(walk, VisitOnce(visit, below, listed, walk, id))
         /\ VisitOnce(other, below, listed, walk, id) = VisitOnce(visit, below, listed, walk, id)
<1>1. CASE id \in Seen(walk)
  BY <1>1 DEF VisitOnce, Seen, Extends
<1>2. CASE id \notin Seen(walk)
  <2> DEFINE start == Enter(walk, id)
             A     == {w \in Walks : Seen(start) \subseteq Seen(w)}
             P     == [m \in 0 .. Len(below[id]) |-> A]
  <2>1. /\ start \in Walks /\ Seen(start) = Seen(walk) \cup {id} /\ Unseen(start) <= n
    <3>1. /\ start \in Walks /\ Seen(start) = Seen(walk) \cup {id} /\ Unseen(walk) = Unseen(start) + 1
      BY <1>2, EnterFacts
    <3>2. Unseen(walk) \in Nat /\ Unseen(start) \in Nat
      BY <3>1, WalkFields
    <3> QED
      BY <3>1, <3>2
  <2>2. below[id] \in Seq(NodeIds) /\ Len(below[id]) \in Nat /\ DOMAIN below[id] = 1 .. Len(below[id])
    OBVIOUS
  <2> HIDE DEF start
  <2>3. ASSUME NEW m \in 1 .. Len(below[id]), NEW w \in A
        PROVE  <<w, below[id][m]>> \in Within(n) /\ visit[<<w, below[id][m]>>] \in A
    <3>1. below[id][m] \in NodeIds
      BY <2>2
    <3>2. Unseen(w) <= n
      <4>1. Unseen(w) \in Nat /\ Unseen(start) \in Nat /\ Unseen(w) <= Unseen(start)
        BY <2>1, <2>3, WalkFields
      <4> QED
        BY <2>1, <4>1
    <3>3. <<w, below[id][m]>> \in Within(n)
      BY <3>1, <3>2 DEF Within
    <3>4. visit[<<w, below[id][m]>>] \in Walks /\ Seen(w) \subseteq Seen(visit[<<w, below[id][m]>>])
      BY <3>3 DEF GoesOn, Extends
    <3> QED
      BY <3>3, <3>4
  <2>4. start \in A
    BY <2>1
  <2>5. Through(visit, start, below[id]) \in A
    <3> HIDE DEF A
    <3>1. start \in P[0] /\ \A m \in 1 .. Len(below[id]) : \A w \in P[m - 1] : visit[<<w, below[id][m]>>] \in P[m]
      <4>1. P[0] = A
        BY <2>2
      <4>2. ASSUME NEW m \in 1 .. Len(below[id]) PROVE P[m - 1] = A /\ P[m] = A
        <5>1. m - 1 \in 0 .. Len(below[id]) /\ m \in 0 .. Len(below[id])
          BY <2>2
        <5> QED
          BY <5>1
      <4> HIDE DEF P
      <4> QED
        BY <2>3, <2>4, <4>1, <4>2
    <3> HIDE DEF P
    <3>2. Through(visit, start, below[id]) \in P[Len(below[id])]
      BY <2>2, <3>1, ThroughStays
    <3> QED
      BY <2>2, <3>2 DEF P
  <2>6. Through(other, start, below[id]) = Through(visit, start, below[id])
    <3> HIDE DEF A
    <3>1. \A m \in 1 .. Len(below[id]) : \A w \in A : /\ visit[<<w, below[id][m]>>] \in A
                                                   /\ other[<<w, below[id][m]>>] = visit[<<w, below[id][m]>>]
      BY <2>3 DEF Agree
    <3> QED
      BY <2>2, <2>4, <3>1, ThroughAgrees, SMTT(30)
  <2>7. \A any : VisitOnce(any, below, listed, walk, id) = Leave(Through(any, start, below[id]), id, listed)
    BY <1>2 DEF VisitOnce, Seen, start
  <2>8. /\ Leave(Through(visit, start, below[id]), id, listed) \in Walks
        /\ Seen(Leave(Through(visit, start, below[id]), id, listed)) = Seen(Through(visit, start, below[id])) \cup {id}
    BY <2>5, LeaveFacts
  <2> QED
    BY <2>1, <2>5, <2>6, <2>7, <2>8 DEF Extends
<1> QED
  BY <1>1, <1>2

\* Visits are defined: each begins with fewer ids that have not been seen.
LEMMA VisitsOneMore ==
  ASSUME NEW below \in [NodeIds -> Seq(NodeIds)], NEW listed, NEW n \in Nat, NEW before,
         IsVisit(before, below, listed, Within(n)), GoesOn(before, Within(n))
  PROVE  \E visit : IsVisit(visit, below, listed, Within(n + 1)) /\ GoesOn(visit, Within(n + 1))
<1> DEFINE visit == [at \in Within(n + 1) |-> VisitOnce(before, below, listed, at[1], at[2])]
<1>1. ASSUME NEW at \in Within(n + 1)
      PROVE  /\ at[1] \in Walks /\ at[2] \in NodeIds /\ Unseen(at[1]) <= n + 1
  BY DEF Within
<1>2. Agree(before, visit, Within(n))
  <2>1. ASSUME NEW at \in Within(n) PROVE visit[at] = before[at]
    <3>1. at \in Within(n + 1)
      <4>1. at \in Walks \X NodeIds /\ Unseen(at[1]) <= n
        BY DEF Within
      <4>2. Unseen(at[1]) \in Nat
        BY <4>1, WalkFields
      <4> QED
        BY <4>1, <4>2 DEF Within
    <3>2. before[at] = VisitOnce(before, below, listed, at[1], at[2])
      BY Zenon DEF IsVisit
    <3> QED
      BY <3>1, <3>2
  <2> QED
    BY <2>1 DEF Agree
<1> HIDE DEF visit
<1>3. ASSUME NEW walk \in Walks, NEW id \in NodeIds, Unseen(walk) <= n + 1
      PROVE  /\ Extends(walk, VisitOnce(before, below, listed, walk, id))
             /\ VisitOnce(visit, below, listed, walk, id) = VisitOnce(before, below, listed, walk, id)
  BY <1>2, <1>3, VisitOnceGoesOn
<1>4. ASSUME NEW at \in Within(n + 1)
      PROVE  /\ Extends(at[1], VisitOnce(before, below, listed, at[1], at[2]))
             /\ VisitOnce(visit, below, listed, at[1], at[2]) = VisitOnce(before, below, listed, at[1], at[2])
  BY <1>1, <1>3, Zenon
<1>5. GoesOn(visit, Within(n + 1))
  BY <1>4 DEF GoesOn, visit
<1>6. visit = [at \in Within(n + 1) |-> VisitOnce(visit, below, listed, at[1], at[2])]
  <2>1. visit = [at \in Within(n + 1) |-> VisitOnce(before, below, listed, at[1], at[2])]
    BY DEF visit
  <2> QED
    BY <1>4, <2>1
<1> QED
  BY <1>5, <1>6 DEF IsVisit

LEMMA VisitsUpTo ==
  ASSUME NEW below \in [NodeIds -> Seq(NodeIds)], NEW listed
  PROVE  \A n \in Nat : \E visit : IsVisit(visit, below, listed, Within(n)) /\ GoesOn(visit, Within(n))
<1> DEFINE Bad == {n \in Nat : ~\E visit : IsVisit(visit, below, listed, Within(n)) /\ GoesOn(visit, Within(n))}
<1>1. SUFFICES ASSUME Bad # {} PROVE FALSE
  OBVIOUS
<1>2. PICK n \in Bad : \A m \in Bad : n <= m
  <2> HIDE DEF Bad
  <2>1. Bad \in SUBSET Nat
    BY DEF Bad
  <2> QED
    BY <1>1, <2>1, LeastNat
<1>3. n \in Nat
  OBVIOUS
<1>5. CASE n = 0
  <2>1. ASSUME NEW at \in Within(0), NEW visit
        PROVE  /\ at[1] \in Walks /\ VisitOnce(visit, below, listed, at[1], at[2]) = at[1]
    <3>1. /\ at[1] \in Walks /\ at[2] \in NodeIds /\ Unseen(at[1]) <= 0
      BY DEF Within
    <3>2. Unseen(at[1]) = 0
      BY <3>1, WalkFields
    <3>3. NodeIds \ Seen(at[1]) = {}
      <4>1. IsFiniteSet(NodeIds \ Seen(at[1]))
        BY PromptsAssumption, FS_Subset
      <4> QED
        BY <3>2, <4>1, FS_EmptySet DEF Unseen
    <3>4. at[2] \in at[1].visiting \cup at[1].visited
      BY <3>1, <3>3 DEF Seen
    <3> QED
      BY <3>1, <3>4 DEF VisitOnce
  <2> DEFINE visit == [at \in Within(0) |-> at[1]]
  <2>2. GoesOn(visit, Within(0))
    BY <2>1 DEF GoesOn, Extends
  <2>3. visit = [at \in Within(0) |-> VisitOnce(visit, below, listed, at[1], at[2])]
    <3>1. \A at \in Within(0) : VisitOnce(visit, below, listed, at[1], at[2]) = at[1]
      BY <2>1
    <3> QED
      BY <3>1
  <2>4. IsVisit(visit, below, listed, Within(0))
    <3> HIDE DEF visit
    <3> QED
      BY <2>3 DEF IsVisit
  <2> QED
    BY <1>2, <1>5, <2>2, <2>4
<1>6. CASE n # 0
  <2>1. n - 1 \in Nat /\ n = (n - 1) + 1
    BY <1>3, <1>6
  <2>2. n - 1 \notin Bad
    <3> HIDE DEF Bad
    <3> QED
      BY <1>2, <1>3, <2>1
  <2>3. PICK before : IsVisit(before, below, listed, Within(n - 1)) /\ GoesOn(before, Within(n - 1))
    BY <2>1, <2>2
  <2>4. PICK k \in Nat : k = n - 1
    BY <2>1
  <2>5. \E visit : IsVisit(visit, below, listed, Within(k + 1)) /\ GoesOn(visit, Within(k + 1))
    <3> HIDE DEF Bad
    <3> QED
      BY <2>3, <2>4, VisitsOneMore
  <2> QED
    BY <1>2, <2>1, <2>4, <2>5
<1> QED
  BY <1>5, <1>6

\* What below lists is what edges lead to.
IsBelow(below, edges) ==
  /\ below \in [NodeIds -> Seq(NodeIds)] /\ edges \in SUBSET (NodeIds \X NodeIds)
  /\ \A id \in NodeIds : Range(below[id]) = {to \in NodeIds : <<id, to>> \in edges}

\* What was listed before it, or leads back to it.
IsListedBefore(order, j, edges, e) ==
  \/ \E i \in DOMAIN order : i < j /\ order[i] = e[2]
  \/ e[1] \in Reached(NodeIds, edges, {e[2]})

\* A walk that has listed what it has left, and has seen what is below that.
IsGood(walk, edges, listed) ==
  /\ walk \in Walks /\ walk.visiting \cap walk.visited = {}
  /\ IsInjective(walk.order) /\ Range(walk.order) = walk.visited \cap listed
  /\ \A e \in edges : e[1] \in walk.visited => e[2] \in Seen(walk)
  /\ \A j \in DOMAIN walk.order : \A e \in edges :
       walk.order[j] = e[1] /\ e[2] \in listed => IsListedBefore(walk.order, j, edges, e)

LEMMA AppendedOne ==
  ASSUME NEW S, NEW s \in Seq(S), NEW x \in S
  PROVE  /\ Append(s, x) \in Seq(S) /\ DOMAIN s = 1 .. Len(s) /\ Len(s) \in Nat
         /\ DOMAIN Append(s, x) = 1 .. (Len(s) + 1) /\ Len(Append(s, x)) = Len(s) + 1
         /\ Append(s, x)[Len(s) + 1] = x /\ Range(Append(s, x)) = Range(s) \cup {x}
         /\ \A i \in DOMAIN s : Append(s, x)[i] = s[i] /\ i \in DOMAIN Append(s, x)
         /\ \A i \in DOMAIN Append(s, x) : i \in DOMAIN s \/ i = Len(s) + 1
         /\ IsInjective(s) /\ x \notin Range(s) => IsInjective(Append(s, x))
<1> DEFINE t == Append(s, x)
<1>1. /\ t \in Seq(S) /\ DOMAIN s = 1 .. Len(s) /\ Len(s) \in Nat
      /\ DOMAIN t = 1 .. (Len(s) + 1) /\ Len(t) = Len(s) + 1
      /\ t[Len(s) + 1] = x /\ \A i \in 1 .. Len(s) : t[i] = s[i]
  OBVIOUS
<1> HIDE DEF t
<1>2. \A i \in DOMAIN s : t[i] = s[i] /\ i \in DOMAIN t
  BY <1>1
<1>3. \A i \in DOMAIN t : i \in DOMAIN s \/ i = Len(s) + 1
  BY <1>1
<1>4. Len(s) + 1 \in DOMAIN t
  BY <1>1
<1>5. Range(t) = Range(s) \cup {x}
  BY <1>1, <1>2, <1>3, <1>4 DEF Range
<1>6. ASSUME IsInjective(s), x \notin Range(s) PROVE IsInjective(t)
  <2>1. ASSUME NEW i \in DOMAIN t, NEW j \in DOMAIN t, t[i] = t[j] PROVE i = j
    <3>1. CASE i \in DOMAIN s /\ j \in DOMAIN s
      BY <1>2, <1>6, <2>1, <3>1 DEF IsInjective
    <3>2. CASE i \in DOMAIN s /\ j = Len(s) + 1
      BY <1>1, <1>2, <1>6, <2>1, <3>2 DEF Range
    <3>3. CASE j \in DOMAIN s /\ i = Len(s) + 1
      BY <1>1, <1>2, <1>6, <2>1, <3>3 DEF Range
    <3>4. CASE i = Len(s) + 1 /\ j = Len(s) + 1
      BY <3>4
    <3> QED
      BY <1>3, <3>1, <3>2, <3>3, <3>4
  <2> QED
    BY <2>1 DEF IsInjective
<1> QED
  BY <1>1, <1>2, <1>3, <1>5, <1>6 DEF t

\* An id can be left when everything below it has been seen.
LEMMA LeaveIsGood ==
  ASSUME NEW below, NEW edges, IsBelow(below, edges), NEW listed, NEW walk, IsGood(walk, edges, listed),
         NEW id \in walk.visiting, \A e \in edges : e[1] = id => e[2] \in Seen(walk),
         \A g \in walk.visiting : id \in Reached(NodeIds, edges, {g})
  PROVE  IsGood(Leave(walk, id, listed), edges, listed)
<1> DEFINE later == Leave(walk, id, listed)
<1>1. walk \in Walks /\ id \in NodeIds /\ walk.order \in Seq(NodeIds)
  BY DEF IsGood, Walks
<1>2. /\ later \in Walks /\ Seen(later) = Seen(walk)
      /\ later.visiting = walk.visiting \ {id} /\ later.visited = walk.visited \cup {id}
      /\ later.order = Listing(walk.order, id, listed)
  <2>1. Seen(walk) \cup {id} = Seen(walk)
    BY DEF Seen
  <2> QED
    BY <1>1, <2>1, LeaveFacts
<1> HIDE DEF later
<1>3. id \notin walk.visited /\ id \notin Range(walk.order)
  BY DEF IsGood
<1>4. \A e \in edges : e[1] \in later.visited => e[2] \in Seen(later)
  BY <1>2 DEF IsGood
<1>5. later.visiting \cap later.visited = {}
  BY <1>2 DEF IsGood
<1>6. CASE id \notin listed
  <2>1. later.order = walk.order
    BY <1>2, <1>6 DEF Listing
  <2>2. Range(later.order) = later.visited \cap listed
    BY <1>2, <1>6, <2>1 DEF IsGood
  <2> QED
    BY <1>2, <1>4, <1>5, <2>1, <2>2 DEF IsGood, later
<1>7. CASE id \in listed
  <2> DEFINE s == walk.order
             t == Append(s, id)
  <2>1. later.order = t
    BY <1>2, <1>7 DEF Listing
  <2>2. /\ DOMAIN s = 1 .. Len(s) /\ Len(s) \in Nat
        /\ t[Len(s) + 1] = id /\ Range(t) = Range(s) \cup {id}
        /\ \A i \in DOMAIN s : t[i] = s[i] /\ i \in DOMAIN t
        /\ \A i \in DOMAIN t : i \in DOMAIN s \/ i = Len(s) + 1
        /\ IsInjective(t)
    <3>1. IsInjective(s) /\ id \notin Range(s)
      BY <1>3 DEF IsGood
    <3> QED
      BY <1>1, <3>1, AppendedOne
  <2> HIDE DEF t
  <2>3. Range(t) = later.visited \cap listed
    BY <1>2, <1>7, <2>2 DEF IsGood
  <2>4. ASSUME NEW j \in DOMAIN t, NEW e \in edges, t[j] = e[1], e[2] \in listed
        PROVE  IsListedBefore(t, j, edges, e)
    <3>1. CASE j \in DOMAIN s
      <4>1. IsListedBefore(s, j, edges, e)
        BY <2>2, <2>4, <3>1 DEF IsGood
      <4> QED
        BY <2>2, <4>1 DEF IsListedBefore
    <3>2. CASE j = Len(s) + 1
      <4>1. e[1] = id /\ e[2] \in walk.visiting \cup walk.visited
        BY <2>2, <2>4, <3>2 DEF Seen
      <4>2. CASE e[2] \in walk.visiting
        BY <4>1, <4>2 DEF IsListedBefore
      <4>3. CASE e[2] \in walk.visited
        <5>1. e[2] \in Range(s)
          BY <2>4, <4>3 DEF IsGood
        <5>2. PICK i \in DOMAIN s : s[i] = e[2]
          BY <5>1 DEF Range
        <5>3. i \in DOMAIN t /\ t[i] = e[2] /\ i < j
          BY <2>2, <3>2, <5>2
        <5> QED
          BY <5>3 DEF IsListedBefore
      <4> QED
        BY <4>1, <4>2, <4>3
    <3> QED
      BY <2>2, <3>1, <3>2
  <2> QED
    BY <1>2, <1>4, <1>5, <2>1, <2>2, <2>3, <2>4 DEF IsGood, later
<1> QED
  BY <1>6, <1>7

\* What a visit does to a good walk: it sees the id and whatever it leads to.
GoodVisit(edges, listed, walk, id, later) ==
  IsGood(walk, edges, listed) /\ (\A g \in walk.visiting : id \in Reached(NodeIds, edges, {g}))
    => /\ IsGood(later, edges, listed) /\ later.visiting = walk.visiting
       /\ walk.visited \subseteq later.visited /\ id \in Seen(later)
       /\ later.visited \subseteq walk.visited \cup Reached(NodeIds, edges, {id})

\* The visits of all ids in a list, one after the other.
AllVisited(edges, listed, start, ids, done) ==
  /\ IsGood(done, edges, listed) /\ done.visiting = start.visiting
  /\ start.visited \subseteq done.visited /\ Range(ids) \subseteq Seen(done)
  /\ done.visited \subseteq start.visited \cup Reached(NodeIds, edges, Range(ids))

LEMMA ListIsVisited ==
  ASSUME NEW below, NEW edges, IsBelow(below, edges), NEW listed, NEW n \in Nat, NEW visit,
         \A at \in Within(n) : GoodVisit(edges, listed, at[1], at[2], visit[at]),
         NEW start, IsGood(start, edges, listed), Unseen(start) <= n, NEW ids \in Seq(NodeIds),
         \A g \in start.visiting : Range(ids) \subseteq Reached(NodeIds, edges, {g})
  PROVE  AllVisited(edges, listed, start, ids, Through(visit, start, ids))
<1> DEFINE reached == Reached(NodeIds, edges, Range(ids))
           On(w, m) == /\ IsGood(w, edges, listed) /\ w.visiting = start.visiting
                       /\ start.visited \subseteq w.visited /\ w.visited \subseteq start.visited \cup reached
                       /\ \A k \in 1 .. m : ids[k] \in Seen(w)
           P == [m \in 0 .. Len(ids) |-> {w \in Walks : On(w, m)}]
<1>0. edges \in SUBSET (NodeIds \X NodeIds) /\ start \in Walks
  BY DEF IsBelow, IsGood
<1>1. Len(ids) \in Nat /\ DOMAIN ids = 1 .. Len(ids)
  OBVIOUS
<1>2. start \in P[0]
  <2>1. On(start, 0)
    OBVIOUS
  <2> HIDE DEF On
  <2> QED
    BY <1>0, <1>1, <2>1
<1>3. ASSUME NEW m \in 1 .. Len(ids), NEW w \in P[m - 1] PROVE visit[<<w, ids[m]>>] \in P[m]
  <2> DEFINE id == ids[m]
             later == visit[<<w, id>>]
  <2>0. m - 1 \in 0 .. Len(ids) /\ m \in 0 .. Len(ids) /\ id \in NodeIds /\ id \in Range(ids)
    BY <1>1 DEF Range
  <2>1. w \in Walks /\ On(w, m - 1)
    <3> HIDE DEF On
    <3> QED
      BY <2>0
  <2> HIDE DEF later, id
  <2>2. <<w, id>> \in Within(n)
    <3>1. Seen(start) \subseteq Seen(w)
      BY <2>1 DEF Seen
    <3>2. Unseen(w) \in Nat /\ Unseen(start) \in Nat /\ Unseen(w) <= Unseen(start)
      BY <1>0, <2>1, <3>1, WalkFields
    <3>3. Unseen(w) <= n
      BY <3>2
    <3> QED
      BY <2>0, <2>1, <3>3 DEF Within
  <2>3. GoodVisit(edges, listed, w, id, later)
    BY <2>2 DEF later
  <2>4. \A g \in w.visiting : id \in Reached(NodeIds, edges, {g})
    BY <2>0, <2>1
  <2>5. /\ IsGood(later, edges, listed) /\ later.visiting = w.visiting
        /\ w.visited \subseteq later.visited /\ id \in Seen(later)
        /\ later.visited \subseteq w.visited \cup Reached(NodeIds, edges, {id})
    BY <2>1, <2>3, <2>4 DEF GoodVisit
  <2>6. Reached(NodeIds, edges, {id}) \subseteq reached
    <3>1. Range(ids) \in SUBSET NodeIds
      BY <1>1 DEF Range
    <3>2. {id} \in SUBSET reached
      BY <1>0, <2>0, <3>1, ReachedIsClosed
    <3> QED
      BY <1>0, <3>1, <3>2, ReachedOnwards
  <2>7. ASSUME NEW k \in 1 .. m PROVE ids[k] \in Seen(later)
    <3>1. CASE k = m
      BY <2>5, <3>1 DEF id
    <3>2. CASE k # m
      <4>1. k \in 1 .. (m - 1)
        BY <3>2
      <4>2. ids[k] \in Seen(w)
        BY <2>1, <4>1
      <4>3. Seen(w) \subseteq Seen(later)
        BY <2>5 DEF Seen
      <4> QED
        BY <4>2, <4>3
    <3> QED
      BY <3>1, <3>2
  <2>8. On(later, m)
    BY <2>1, <2>5, <2>6, <2>7
  <2>9. later \in Walks
    BY <2>5 DEF IsGood
  <2> HIDE DEF On
  <2> QED
    BY <2>0, <2>8, <2>9 DEF later, id
<1>4. Through(visit, start, ids) \in P[Len(ids)]
  <2> HIDE DEF P
  <2> QED
    BY <1>1, <1>2, <1>3, ThroughStays
<1>5. On(Through(visit, start, ids), Len(ids))
  <2> HIDE DEF On
  <2>1. Len(ids) \in 0 .. Len(ids)
    BY <1>1
  <2> QED
    BY <1>4, <2>1
<1>6. \A k \in 1 .. Len(ids) : ids[k] \in Seen(Through(visit, start, ids))
  BY <1>5
<1>7. Range(ids) \subseteq Seen(Through(visit, start, ids))
  BY <1>1, <1>6 DEF Range
<1> QED
  BY <1>5, <1>7 DEF AllVisited

LEMMA VisitOnceIsGood ==
  ASSUME NEW below, NEW edges, IsBelow(below, edges), NEW listed, NEW n \in Nat, NEW visit,
         \A at \in Within(n) : GoodVisit(edges, listed, at[1], at[2], visit[at]),
         NEW walk \in Walks, NEW id \in NodeIds, Unseen(walk) <= n + 1
  PROVE  GoodVisit(edges, listed, walk, id, VisitOnce(visit, below, listed, walk, id))
<1>1. CASE id \in Seen(walk)
  <2>1. VisitOnce(visit, below, listed, walk, id) = walk
    BY <1>1 DEF VisitOnce, Seen
  <2> QED
    BY <1>1, <2>1 DEF GoodVisit
<1>2. CASE id \notin Seen(walk)
  <2>1. SUFFICES ASSUME IsGood(walk, edges, listed),
                        \A g \in walk.visiting : id \in Reached(NodeIds, edges, {g})
        PROVE  LET later == VisitOnce(visit, below, listed, walk, id)
               IN  /\ IsGood(later, edges, listed) /\ later.visiting = walk.visiting
                   /\ walk.visited \subseteq later.visited /\ id \in Seen(later)
                   /\ later.visited \subseteq walk.visited \cup Reached(NodeIds, edges, {id})
    BY DEF GoodVisit
  <2> DEFINE start == Enter(walk, id)
             ids   == below[id]
             done  == Through(visit, start, ids)
             later == Leave(done, id, listed)
  <2>2. VisitOnce(visit, below, listed, walk, id) = later
    BY <1>2 DEF VisitOnce, Seen
  <2>3. /\ start \in Walks /\ Seen(start) = Seen(walk) \cup {id}
        /\ start.visiting = walk.visiting \cup {id}
        /\ start.visited = walk.visited /\ start.order = walk.order /\ Unseen(start) <= n
    <3>1. /\ start \in Walks /\ Seen(start) = Seen(walk) \cup {id}
          /\ start.visiting = walk.visiting \cup {id}
          /\ start.visited = walk.visited /\ start.order = walk.order
          /\ Unseen(walk) = Unseen(start) + 1
      BY <1>2, EnterFacts
    <3>2. Unseen(walk) \in Nat /\ Unseen(start) \in Nat
      BY <3>1, WalkFields
    <3> QED
      BY <3>1, <3>2
  <2> HIDE DEF start
  <2>4. IsGood(start, edges, listed)
    BY <1>2, <2>1, <2>3 DEF IsGood, Seen
  <2>5. /\ edges \in SUBSET (NodeIds \X NodeIds) /\ ids \in Seq(NodeIds)
        /\ Range(ids) = {to \in NodeIds : <<id, to>> \in edges}
    BY DEF IsBelow
  <2>6. ASSUME NEW g \in start.visiting
        PROVE  id \in Reached(NodeIds, edges, {g}) /\ Range(ids) \subseteq Reached(NodeIds, edges, {g})
    <3>1. {g} \in SUBSET NodeIds
      BY <2>3, <2>6 DEF Walks
    <3>2. /\ g \in Reached(NodeIds, edges, {g}) /\ IsClosed(edges, Reached(NodeIds, edges, {g}))
      BY <2>5, <3>1, ReachedIsClosed
    <3>3. id \in Reached(NodeIds, edges, {g})
      BY <2>1, <2>3, <2>6, <3>2
    <3>4. ASSUME NEW to \in Range(ids) PROVE to \in Reached(NodeIds, edges, {g})
      <4>1. <<id, to>> \in edges /\ <<id, to>>[1] = id /\ <<id, to>>[2] = to
        BY <2>5
      <4> QED
        BY <3>2, <3>3, <4>1 DEF IsClosed
    <3> QED
      BY <3>3, <3>4
  <2> HIDE DEF ids
  <2>7. /\ IsGood(done, edges, listed) /\ done.visiting = start.visiting
        /\ start.visited \subseteq done.visited /\ Range(ids) \subseteq Seen(done)
        /\ done.visited \subseteq start.visited \cup Reached(NodeIds, edges, Range(ids))
    <3>1. \A g \in start.visiting : Range(ids) \subseteq Reached(NodeIds, edges, {g})
      BY <2>6
    <3>2. AllVisited(edges, listed, start, ids, done)
      BY <2>3, <2>4, <2>5, <3>1, ListIsVisited
    <3> QED
      BY <3>2 DEF AllVisited
  <2> HIDE DEF done
  <2>8. id \in done.visiting /\ done \in Walks
    BY <2>3, <2>7 DEF IsGood
  <2>9. \A e \in edges : e[1] = id => e[2] \in Seen(done)
    <3>1. ASSUME NEW e \in edges, e[1] = id PROVE e[2] \in Seen(done)
      <4>1. e = <<id, e[2]>> /\ e[2] \in NodeIds
        BY <2>5, <3>1
      <4>2. e[2] \in Range(ids)
        BY <2>5, <4>1
      <4> QED
        BY <2>7, <4>2
    <3> QED
      BY <3>1
  <2>10. IsGood(later, edges, listed)
    <3>1. \A g \in done.visiting : id \in Reached(NodeIds, edges, {g})
      BY <2>6, <2>7
    <3> QED
      BY <2>7, <2>8, <2>9, <3>1, LeaveIsGood
  <2>11. /\ Seen(later) = Seen(done) \cup {id}
         /\ later.visiting = done.visiting \ {id} /\ later.visited = done.visited \cup {id}
    BY <2>8, LeaveFacts
  <2> HIDE DEF later
  <2>12. later.visiting = walk.visiting
    BY <1>2, <2>3, <2>7, <2>11 DEF Seen
  <2>13. Reached(NodeIds, edges, Range(ids)) \cup {id} \subseteq Reached(NodeIds, edges, {id})
    <3>1. Range(ids) \in SUBSET Reached(NodeIds, edges, {id})
      BY <2>3, <2>6
    <3>2. id \in Reached(NodeIds, edges, {id})
      BY <2>3, <2>6
    <3> QED
      BY <2>5, <3>1, <3>2, ReachedOnwards
  <2> QED
    BY <2>2, <2>3, <2>7, <2>10, <2>11, <2>12, <2>13
<1> QED
  BY <1>1, <1>2

\* Every visit is good.
LEMMA VisitsAreGood ==
  ASSUME NEW below, NEW edges, IsBelow(below, edges), NEW listed, NEW visit,
         IsVisit(visit, below, listed, Walks \X NodeIds)
  PROVE  \A n \in Nat : \A at \in Within(n) : GoodVisit(edges, listed, at[1], at[2], visit[at])
<1> DEFINE AllGood(n) == \A at \in Within(n) : GoodVisit(edges, listed, at[1], at[2], visit[at])
           Bad == {n \in Nat : ~AllGood(n)}
<1>1. SUFFICES ASSUME Bad # {} PROVE FALSE
  OBVIOUS
<1>2. PICK n \in Bad : \A m \in Bad : n <= m
  <2> HIDE DEF Bad
  <2>1. Bad \in SUBSET Nat
    BY DEF Bad
  <2> QED
    BY <1>1, <2>1, LeastNat
<1>3. n \in Nat /\ ~AllGood(n)
  OBVIOUS
<1>4. ASSUME NEW at \in Within(n) PROVE GoodVisit(edges, listed, at[1], at[2], visit[at])
  <2> DEFINE walk == at[1]
             id   == at[2]
  <2>1. walk \in Walks /\ id \in NodeIds /\ Unseen(walk) <= n /\ at \in Walks \X NodeIds
    BY DEF Within
  <2>2. visit[at] = VisitOnce(visit, below, listed, walk, id)
    BY <2>1, Zenon DEF IsVisit
  <2> HIDE DEF walk, id, Bad
  <2>3. CASE n = 0
    <3>1. Unseen(walk) = 0
      BY <2>1, <2>3, WalkFields
    <3>2. NodeIds \ Seen(walk) = {}
      <4>1. IsFiniteSet(NodeIds \ Seen(walk))
        BY PromptsAssumption, FS_Subset
      <4> QED
        BY <3>1, <4>1, FS_EmptySet DEF Unseen
    <3>3. id \in Seen(walk)
      BY <2>1, <3>2
    <3>4. VisitOnce(visit, below, listed, walk, id) = walk
      BY <3>3 DEF VisitOnce, Seen
    <3>5. GoodVisit(edges, listed, walk, id, walk)
      BY <3>3 DEF GoodVisit
    <3> QED
      BY <2>2, <3>4, <3>5 DEF walk, id
  <2>4. CASE n # 0
    <3>1. PICK k \in Nat : n = k + 1
      <4>1. n - 1 \in Nat /\ n = (n - 1) + 1
        BY <1>3, <2>4
      <4> QED
        BY <4>1
    <3>2. AllGood(k)
      <4>1. k \notin Bad
        BY <1>2, <3>1
      <4> QED
        BY <4>1 DEF Bad
    <3>3. GoodVisit(edges, listed, walk, id, VisitOnce(visit, below, listed, walk, id))
      <4>1. Unseen(walk) <= k + 1
        BY <2>1, <3>1
      <4> QED
        BY <2>1, <3>2, <4>1, VisitOnceIsGood
    <3> QED
      BY <2>2, <3>3 DEF walk, id
  <2> QED
    BY <2>3, <2>4
<1> QED
  BY <1>3, <1>4

\* The order lists what is to be listed of what the starts lead to, once, and
\* what is below an id before it, unless that leads back to the id.
LEMMA PostOrderFacts ==
  ASSUME NEW below, NEW edges, IsBelow(below, edges), NEW listed, NEW starts \in Seq(NodeIds)
  PROVE  LET order == PostOrder(below, starts, listed)
         IN  /\ order \in Seq(NodeIds) /\ IsInjective(order)
             /\ Range(order) = listed \cap Reached(NodeIds, edges, Range(starts))
             /\ \A j \in DOMAIN order : \A e \in edges :
                  order[j] = e[1] /\ e[2] \in listed => IsListedBefore(order, j, edges, e)
<1> DEFINE visit == CHOOSE visit : IsVisit(visit, below, listed, Walks \X NodeIds)
           done  == Through(visit, NoWalk, starts)
           top   == Cardinality(NodeIds)
<1>0. below \in [NodeIds -> Seq(NodeIds)] /\ edges \in SUBSET (NodeIds \X NodeIds)
  BY DEF IsBelow
<1>1. PostOrder(below, starts, listed) = done.order
  BY DEF PostOrder, IsVisit, VisitOnce, Enter, Leave
<1>2. top \in Nat /\ Within(top) = Walks \X NodeIds
  <2>1. top \in Nat
    BY PromptsAssumption, FS_CardinalityType
  <2>2. ASSUME NEW at \in Walks \X NodeIds PROVE at \in Within(top)
    <3>1. at[1] \in Walks
      OBVIOUS
    <3>2. Unseen(at[1]) <= top
      BY <3>1, WalkFields
    <3> HIDE DEF top
    <3> QED
      BY <3>2 DEF Within
  <2> HIDE DEF top
  <2> QED
    BY <2>1, <2>2 DEF Within
<1>3. IsVisit(visit, below, listed, Walks \X NodeIds)
  <2>1. \E v : IsVisit(v, below, listed, Within(top)) /\ GoesOn(v, Within(top))
    <3> HIDE DEF top
    <3> QED
      BY <1>0, <1>2, VisitsUpTo
  <2> QED
    BY <1>2, <2>1
<1> HIDE DEF visit, top
<1>4. \A at \in Within(top) : GoodVisit(edges, listed, at[1], at[2], visit[at])
  BY <1>2, <1>3, VisitsAreGood
<1>5. NoWalk \in Walks /\ NoWalk.visiting = {} /\ NoWalk.visited = {} /\ NoWalk.order = <<>>
  BY DEF NoWalk, Walks
<1>6. IsGood(NoWalk, edges, listed)
  BY <1>5 DEF IsGood, IsInjective, Range
<1>7. Unseen(NoWalk) <= top
  BY <1>5, WalkFields DEF top
<1>8. /\ IsGood(done, edges, listed) /\ done.visiting = {} /\ Range(starts) \subseteq Seen(done)
      /\ done.visited \subseteq Reached(NodeIds, edges, Range(starts))
  <2>1. \A g \in NoWalk.visiting : Range(starts) \subseteq Reached(NodeIds, edges, {g})
    BY <1>5
  <2>2. AllVisited(edges, listed, NoWalk, starts, done)
    BY <1>2, <1>4, <1>6, <1>7, <2>1, ListIsVisited
  <2> QED
    BY <1>5, <2>2 DEF AllVisited
<1> HIDE DEF done
<1>9. done \in Walks /\ Seen(done) = done.visited
  BY <1>8 DEF IsGood, Seen
<1>10. Reached(NodeIds, edges, Range(starts)) \subseteq done.visited
  <2>1. IsClosed(edges, done.visited)
    BY <1>8, <1>9 DEF IsGood, IsClosed
  <2>2. done.visited \in SUBSET NodeIds /\ Range(starts) \subseteq done.visited
    BY <1>8, <1>9 DEF Walks
  <2> QED
    BY <2>1, <2>2, ReachedIsLeast
<1>11. /\ done.order \in Seq(NodeIds) /\ IsInjective(done.order)
       /\ Range(done.order) = listed \cap Reached(NodeIds, edges, Range(starts))
       /\ \A j \in DOMAIN done.order : \A e \in edges :
            done.order[j] = e[1] /\ e[2] \in listed => IsListedBefore(done.order, j, edges, e)
  BY <1>8, <1>9, <1>10 DEF IsGood, Walks
<1> QED
  BY <1>1, <1>11

-----------------------------------------------------------------------------
(* Orders.                                                                 *)

TextTypes ==
  /\ ruleGraph \in [of : {"nothing", "data", "document"}, nodes : SUBSET NodeIds, edges : SUBSET (NodeIds \X NodeIds)]
  /\ ruleGraph.of = "document" => ruleGraph.edges = DocumentGraph(ruleGraph.nodes).edges
  /\ variables \in Memories
  /\ prompt \in [built : BOOLEAN, nodes : SUBSET NodeIds, edges : SUBSET (NodeIds \X NodeIds)]

LEMMA ListFacts ==
  ASSUME NEW S, NEW s \in Seq(S)
  PROVE  /\ Len(s) \in Nat /\ DOMAIN s = 1 .. Len(s) /\ Range(s) \in SUBSET S
         /\ \A i \in DOMAIN s : s[i] \in Range(s)
         /\ IsInjective(s) => Len(s) = Cardinality(Range(s))
<1>1. Len(s) \in Nat /\ DOMAIN s = 1 .. Len(s) /\ \A i \in 1 .. Len(s) : s[i] \in S
  OBVIOUS
<1>2. Range(s) \in SUBSET S /\ \A i \in DOMAIN s : s[i] \in Range(s)
  BY <1>1 DEF Range
<1>3. ASSUME IsInjective(s) PROVE Len(s) = Cardinality(Range(s))
  <2>1. s \in [1 .. Len(s) -> Range(s)]
    BY <1>1, <1>2
  <2>2. s \in Injection(1 .. Len(s), Range(s))
    BY <1>3, <2>1 DEF Injection
  <2>3. s \in Surjection(1 .. Len(s), Range(s))
    BY <1>1, <2>1 DEF Surjection, Range
  <2>4. ExistsBijection(1 .. Len(s), Range(s))
    BY <2>2, <2>3 DEF Bijection, ExistsBijection
  <2> QED
    BY <1>1, <2>4, FS_CountingElements
<1> QED
  BY <1>1, <1>2, <1>3

LEMMA ReversedList ==
  ASSUME NEW S, NEW s \in Seq(S)
  PROVE  /\ Reverse(s) \in Seq(S) /\ Len(Reverse(s)) = Len(s) /\ Range(Reverse(s)) = Range(s)
         /\ \A i \in DOMAIN Reverse(s) : Reverse(s)[i] = s[(Len(s) - i) + 1] /\ (Len(s) - i) + 1 \in DOMAIN s
<1> DEFINE n == Len(s)
           t == Reverse(s)
<1>1. n \in Nat /\ DOMAIN s = 1 .. n /\ \A i \in 1 .. n : s[i] \in S
  OBVIOUS
<1>2. t = [i \in 1 .. n |-> s[(n - i) + 1]]
  BY DEF Reverse
<1> HIDE DEF n, t
<1>3. \A i \in 1 .. n : (n - i) + 1 \in 1 .. n /\ (n - ((n - i) + 1)) + 1 = i
  BY <1>1
<1>4. DOMAIN t = 1 .. n /\ \A i \in 1 .. n : t[i] = s[(n - i) + 1] /\ t[i] \in S
  BY <1>1, <1>2, <1>3
<1>5. t \in [1 .. n -> S]
  BY <1>2, <1>4
<1>6. t \in Seq(S) /\ Len(t) = n
  BY <1>1, <1>5
<1>7. ASSUME NEW x \in Range(s) PROVE x \in Range(t)
  <2>1. PICK k \in 1 .. n : x = s[k]
    BY <1>1 DEF Range
  <2>2. (n - k) + 1 \in 1 .. n /\ t[(n - k) + 1] = s[k]
    <3>1. PICK i \in 1 .. n : i = (n - k) + 1 /\ (n - i) + 1 = k
      BY <1>3
    <3> QED
      BY <1>4, <3>1
  <2> QED
    BY <1>4, <2>1, <2>2 DEF Range
<1>8. Range(t) = Range(s)
  <2>1. \A i \in 1 .. n : t[i] \in Range(s)
    BY <1>1, <1>3, <1>4 DEF Range
  <2> QED
    BY <1>4, <1>7, <2>1 DEF Range
<1> QED
  BY <1>1, <1>3, <1>4, <1>6, <1>8 DEF n, t

LEMMA SortedByIdHasAll ==
  ASSUME NEW ids \in SUBSET NodeIds
  PROVE  SortedById(ids) \in Seq(NodeIds) /\ Range(SortedById(ids)) = ids
<1> DEFINE key == [id \in ids |-> 0]
<1>1. ids \in SUBSET Nat /\ IsFiniteSet(ids) /\ \A id \in ids : key[id] \in Nat
  BY PromptsAssumption, FS_Subset
<1> HIDE DEF key
<1>2. SortedBy(ids, key) \in Seq(ids) /\ Range(SortedBy(ids, key)) = ids
  BY <1>1, SortedHasAll
<1>3. SortedBy(ids, key) \in Seq(NodeIds)
  BY <1>2
<1> QED
  BY <1>2, <1>3 DEF SortedById, key

LEMMA ChildrenAreBelow ==
  TextTypes => IsBelow([id \in NodeIds |-> Children(id)], ruleGraph.edges)
<1>1. SUFFICES ASSUME TextTypes PROVE IsBelow([id \in NodeIds |-> Children(id)], ruleGraph.edges)
  OBVIOUS
<1>2. ASSUME NEW id \in NodeIds
      PROVE  Children(id) \in Seq(NodeIds) /\ Range(Children(id)) = {to \in NodeIds : <<id, to>> \in ruleGraph.edges}
  <2>1. Successors(ruleGraph, id) = {to \in NodeIds : <<id, to>> \in ruleGraph.edges}
    BY DEF Successors
  <2> QED
    BY <2>1, SortedByIdHasAll DEF Children
<1>3. ruleGraph.edges \in SUBSET (NodeIds \X NodeIds)
  BY <1>1 DEF TextTypes
<1> QED
  BY <1>2, <1>3 DEF IsBelow

LEMMA RootsAreListed ==
  TextTypes => /\ Roots \in Seq(NodeIds)
               /\ Range(Roots) = {n \in ruleGraph.nodes : \A id \in NodeIds : <<id, n>> \notin ruleGraph.edges}
<1>1. SUFFICES ASSUME TextTypes
      PROVE  /\ Roots \in Seq(NodeIds)
             /\ Range(Roots) = {n \in ruleGraph.nodes : \A id \in NodeIds : <<id, n>> \notin ruleGraph.edges}
  OBVIOUS
<1>2. {n \in ruleGraph.nodes : \A id \in NodeIds : <<id, n>> \notin ruleGraph.edges} \in SUBSET NodeIds
  BY <1>1 DEF TextTypes
<1> QED
  BY <1>2, SortedByIdHasAll DEF Roots

\* The rules that roots lead to follow what implies them.
LEMMA RulesAreOrdered ==
  TextTypes => Respects(TopologicalOrder, Reached(NodeIds, ruleGraph.edges, Range(Roots)), ruleGraph.edges)
<1>1. SUFFICES ASSUME TextTypes
      PROVE  Respects(TopologicalOrder, Reached(NodeIds, ruleGraph.edges, Range(Roots)), ruleGraph.edges)
  OBVIOUS
<1> DEFINE order == PostOrder([id \in NodeIds |-> Children(id)], Roots, NodeIds)
           edges == ruleGraph.edges
           led   == Reached(NodeIds, edges, Range(Roots))
           n     == Len(order)
           top   == TopologicalOrder
<1>2. IsBelow([id \in NodeIds |-> Children(id)], edges) /\ Roots \in Seq(NodeIds)
  BY <1>1, ChildrenAreBelow, RootsAreListed
<1>3. /\ order \in Seq(NodeIds) /\ IsInjective(order) /\ Range(order) = NodeIds \cap led
      /\ \A j \in DOMAIN order : \A e \in edges :
           order[j] = e[1] /\ e[2] \in NodeIds => IsListedBefore(order, j, edges, e)
  <2> HIDE DEF edges
  <2> QED
    BY <1>2, PostOrderFacts
<1>4. top = Reverse(order)
  BY DEF TopologicalOrder
<1> HIDE DEF order, top, edges
<1>5. /\ n \in Nat /\ DOMAIN order = 1 .. n /\ n = Cardinality(Range(order))
      /\ top \in Seq(NodeIds) /\ Len(top) = n /\ Range(top) = Range(order)
      /\ \A i \in DOMAIN top : top[i] = order[(n - i) + 1] /\ (n - i) + 1 \in DOMAIN order
  BY <1>3, <1>4, ListFacts, ReversedList
<1>6. Range(top) = led /\ Len(top) = Cardinality(led)
  <2>1. NodeIds \cap led = led
    BY DEF Reached
  <2> HIDE DEF led
  <2> QED
    BY <1>3, <1>5, <2>1
<1>7. ASSUME NEW i \in DOMAIN top, NEW j \in DOMAIN top, <<top[i], top[j]>> \in edges,
             top[i] \notin Reached(NodeIds, edges, {top[j]})
      PROVE  i < j
  <2> DEFINE a == (n - i) + 1
             b == (n - j) + 1
             e == <<top[i], top[j]>>
  <2>1. a \in DOMAIN order /\ b \in DOMAIN order /\ top[i] = order[a] /\ top[j] = order[b]
    BY <1>5
  <2>2. e[1] = order[a] /\ e[2] = order[b] /\ e \in edges /\ e[2] \in NodeIds
    BY <1>3, <1>7, <2>1
  <2>3. e[1] \notin Reached(NodeIds, edges, {e[2]})
    BY <1>7
  <2> HIDE DEF a, b, e
  <2>4. IsListedBefore(order, a, edges, e)
    BY <1>3, <2>1, <2>2
  <2>5. PICK k \in DOMAIN order : k < a /\ order[k] = e[2]
    BY <2>3, <2>4 DEF IsListedBefore
  <2>6. k = b
    BY <1>3, <2>1, <2>2, <2>5 DEF IsInjective
  <2>7. b < a /\ i \in Nat /\ j \in Nat
    <3>1. DOMAIN top = 1 .. n
      BY <1>5
    <3> QED
      BY <2>5, <2>6, <3>1
  <2> QED
    BY <1>5, <2>7 DEF a, b
<1> QED
  BY <1>6, <1>7 DEF Respects, edges, top

\* The rules of a document are all led to by its first.
LEMMA DocumentsAreLedTo ==
  ASSUME TextTypes, ruleGraph.of = "document"
  PROVE  ruleGraph.nodes \subseteq Reached(NodeIds, ruleGraph.edges, Range(Roots))
<1> DEFINE lines == ruleGraph.nodes
           edges == ruleGraph.edges
           led   == Reached(NodeIds, edges, Range(Roots))
           Bad   == {k \in lines : k \notin led}
<1>1. lines \in SUBSET NodeIds /\ edges \in SUBSET (NodeIds \X NodeIds) /\ NodeIds \in SUBSET Nat
  BY PromptsAssumption DEF TextTypes
<1>2. edges = {e \in lines \X lines : e[1] < e[2] /\ \A k \in lines : k <= e[1] \/ e[2] <= k}
  BY DEF TextTypes, DocumentGraph
<1>3. Range(Roots) = {n \in lines : \A id \in NodeIds : <<id, n>> \notin edges} /\ Range(Roots) \in SUBSET NodeIds
  BY <1>1, RootsAreListed
<1> HIDE DEF lines, edges
<1>4. Range(Roots) \subseteq led /\ IsClosed(edges, led)
  BY <1>1, <1>3, ReachedIsClosed
<1> HIDE DEF led
<1>5. SUFFICES ASSUME Bad # {} PROVE FALSE
  BY DEF lines, edges, led
<1>6. PICK n \in Bad : \A m \in Bad : n <= m
  <2>1. Bad \in SUBSET Nat
    BY <1>1
  <2> HIDE DEF Bad
  <2> QED
    BY <1>5, <2>1, LeastNat
<1>7. n \in lines /\ n \notin led
  BY <1>6
<1>8. PICK id \in NodeIds : <<id, n>> \in edges
  BY <1>3, <1>4, <1>7
<1>9. id \in lines /\ id < n
  BY <1>2, <1>8
<1>10. id \in led
  BY <1>1, <1>6, <1>7, <1>9
<1>11. n \in led
  <2>1. <<id, n>>[1] = id /\ <<id, n>>[2] = n
    OBVIOUS
  <2> QED
    BY <1>4, <1>8, <1>10, <2>1 DEF IsClosed
<1> QED
  BY <1>7, <1>11

LEMMA DocumentsAreEvaluated ==
  ASSUME TextTypes, ruleGraph.of = "document"
  PROVE  Range(Evaluate(NodeIds)) = ruleGraph.nodes
<1> DEFINE ids == Range(TopologicalOrder) \cap ruleGraph.nodes \cap NodeIds
<1>1. ids = ruleGraph.nodes
  <2>1. Range(TopologicalOrder) = Reached(NodeIds, ruleGraph.edges, Range(Roots))
    BY RulesAreOrdered DEF Respects
  <2>2. ruleGraph.nodes \in SUBSET NodeIds
    BY DEF TextTypes
  <2> QED
    BY <2>1, <2>2, DocumentsAreLedTo
<1>2. ids \in SUBSET Nat /\ IsFiniteSet(ids) /\ \A id \in ids : Weight[id] \in Nat
  BY PromptsAssumption, FS_Subset
<1> HIDE DEF ids
<1>3. Range(SortedBy(ids, Weight)) = ids
  BY <1>2, SortedHasAll
<1> QED
  BY <1>1, <1>3 DEF Evaluate, ids

\* The dependencies of the fragments that are defined.
Known == {e \in prompt.edges : e[1] \in prompt.nodes}

LEMMA DependenciesAreBelow ==
  TextTypes => IsBelow([id \in NodeIds |-> Dependencies(id)], Known)
<1>1. SUFFICES ASSUME TextTypes PROVE IsBelow([id \in NodeIds |-> Dependencies(id)], Known)
  OBVIOUS
<1>2. Known \in SUBSET (NodeIds \X NodeIds)
  BY <1>1 DEF TextTypes, Known
<1>3. ASSUME NEW id \in NodeIds
      PROVE  Dependencies(id) \in Seq(NodeIds) /\ Range(Dependencies(id)) = {to \in NodeIds : <<id, to>> \in Known}
  <2>1. CASE id \notin prompt.nodes
    <3>1. Dependencies(id) = <<>> /\ {to \in NodeIds : <<id, to>> \in Known} = {}
      BY <2>1 DEF Dependencies, Known
    <3> QED
      BY <3>1 DEF Range
  <2>2. CASE id \in prompt.nodes
    <3> DEFINE key == [f \in NodeIds |-> IF f \in prompt.nodes THEN Priority[f] ELSE 0]
               ids == Successors(prompt, id)
    <3>1. ids = {to \in NodeIds : <<id, to>> \in Known}
      BY <2>2 DEF Successors, Known
    <3>2. ids \in SUBSET Nat /\ IsFiniteSet(ids)
      BY <3>1, PromptsAssumption, FS_Subset
    <3>3. \A f \in NodeIds : key[f] \in Nat
      BY PromptsAssumption
    <3>4. Dependencies(id) = SortedBy(ids, key)
      BY <2>2 DEF Dependencies
    <3> HIDE DEF key, ids
    <3>5. \A f \in ids : key[f] \in Nat
      BY <3>1, <3>3
    <3>6. SortedBy(ids, key) \in Seq(ids) /\ Range(SortedBy(ids, key)) = ids
      BY <3>2, <3>5, SortedHasAll
    <3>7. SortedBy(ids, key) \in Seq(NodeIds)
      <4>1. ids \subseteq NodeIds
        BY <3>1
      <4> QED
        BY <3>6, <4>1
    <3> QED
      BY <3>1, <3>4, <3>6, <3>7
  <2> QED
    BY <2>1, <2>2
<1> QED
  BY <1>2, <1>3 DEF IsBelow

LEMMA FragmentFacts ==
  ASSUME TextTypes
  PROVE  /\ FragmentOrder \in Seq(NodeIds) /\ IsInjective(FragmentOrder)
         /\ Range(FragmentOrder) = prompt.nodes \cap Reached(NodeIds, Known, {RootFragment})
         /\ \A j \in DOMAIN FragmentOrder : \A e \in Known :
              FragmentOrder[j] = e[1] /\ e[2] \in prompt.nodes => IsListedBefore(FragmentOrder, j, Known, e)
<1>1. IsBelow([id \in NodeIds |-> Dependencies(id)], Known)
  BY DependenciesAreBelow
<1>2. <<RootFragment>> \in Seq(NodeIds) /\ Range(<<RootFragment>>) = {RootFragment}
  <2> DEFINE s == <<RootFragment>>
  <2>1. RootFragment \in NodeIds /\ <<>> \in Seq(NodeIds)
    BY PromptsAssumption
  <2>2. s \in Seq(NodeIds) /\ DOMAIN s = {1} /\ s[1] = RootFragment
    BY <2>1
  <2> HIDE DEF s
  <2>3. Range(s) = {RootFragment}
    BY <2>2 DEF Range
  <2> QED
    BY <2>2, <2>3 DEF s
<1> DEFINE below  == [id \in NodeIds |-> Dependencies(id)]
           starts == <<RootFragment>>
           order  == PostOrder(below, starts, prompt.nodes)
<1> HIDE DEF below, starts
<1>3. /\ order \in Seq(NodeIds) /\ IsInjective(order)
      /\ Range(order) = prompt.nodes \cap Reached(NodeIds, Known, Range(starts))
      /\ \A j \in DOMAIN order : \A e \in Known :
           order[j] = e[1] /\ e[2] \in prompt.nodes => IsListedBefore(order, j, Known, e)
  <2>1. IsBelow(below, Known) /\ starts \in Seq(NodeIds)
    BY <1>1, <1>2 DEF below, starts
  <2> QED
    BY <2>1, PostOrderFacts
<1>4. FragmentOrder = order
  BY DEF FragmentOrder, below, starts
<1> HIDE DEF order
<1>5. Range(starts) = {RootFragment}
  BY <1>2 DEF starts
<1> QED
  BY <1>3, <1>4, <1>5

\* The fragments that the root leads to follow what they depend on.
LEMMA FragmentsAreOrdered ==
  ASSUME TextTypes
  PROVE  Respects(FragmentOrder, prompt.nodes \cap Reached(NodeIds, Known, {RootFragment}),
                  {<<e[2], e[1]>> : e \in Known})
<1> DEFINE order == FragmentOrder
           back  == {<<e[2], e[1]>> : e \in Known}
<1>1. /\ order \in Seq(NodeIds) /\ IsInjective(order)
      /\ Range(order) = prompt.nodes \cap Reached(NodeIds, Known, {RootFragment})
      /\ \A j \in DOMAIN order : \A e \in Known :
           order[j] = e[1] /\ e[2] \in prompt.nodes => IsListedBefore(order, j, Known, e)
  BY FragmentFacts
<1> HIDE DEF order
<1>2. Known \in SUBSET (NodeIds \X NodeIds)
  BY DEF TextTypes, Known
<1>3. Len(order) = Cardinality(Range(order)) /\ \A i \in DOMAIN order : order[i] \in Range(order)
  BY <1>1, ListFacts
<1>4. ASSUME NEW i \in DOMAIN order, NEW j \in DOMAIN order, <<order[i], order[j]>> \in back,
             order[i] \notin Reached(NodeIds, back, {order[j]})
      PROVE  i < j
  <2>1. PICK e \in Known : e[2] = order[i] /\ e[1] = order[j]
    BY <1>4
  <2>2. order[i] \in prompt.nodes /\ order[i] \in NodeIds
    <3>1. order[i] \in Range(order)
      BY <1>3
    <3> QED
      BY <1>1, <3>1 DEF TextTypes
  <2> HIDE DEF back
  <2>3. IsListedBefore(order, j, Known, e)
    BY <1>1, <2>1, <2>2
  <2>4. order[j] \notin Reached(NodeIds, Known, {order[i]})
    BY <1>2, <1>4, <2>2, ReachedBackwards DEF back
  <2>5. PICK k \in DOMAIN order : k < j /\ order[k] = order[i]
    BY <2>1, <2>3, <2>4 DEF IsListedBefore
  <2>6. k = i
    BY <1>1, <2>5 DEF IsInjective
  <2> QED
    BY <2>5, <2>6
<1> QED
  BY <1>1, <1>3, <1>4 DEF Respects, order

LEMMA TextsAreOrdered == TextTypes => OrdersRespectEdges
BY RulesAreOrdered, DocumentsAreEvaluated, FragmentsAreOrdered DEF OrdersRespectEdges, Known

-----------------------------------------------------------------------------
(* References.                                                             *)

LEMMA MemoryFacts ==
  ASSUME NEW memory \in Memories
  PROVE  /\ DOMAIN memory \in SUBSET VarNames /\ IsFiniteSet(DOMAIN memory) /\ Cardinality(DOMAIN memory) \in Nat
         /\ \A v \in DOMAIN memory : memory[v] \in Texts /\ memory[v] \in SUBSET VarNames
<1>1. PICK names \in SUBSET VarNames : memory \in [names -> Texts]
  BY DEF Memories
<1>2. IsFiniteSet(names) /\ Cardinality(names) \in Nat
  BY PromptsAssumption, FS_Subset, FS_CardinalityType
<1> QED
  BY <1>1, <1>2, PromptsAssumption

\* Which variable refers to which.
Refs(memory) == {ref \in (DOMAIN memory) \X VarNames : ref[2] \in memory[ref[1]]}

\* What a text refers to, its variables included, not going through those in seen.
Avoiding(memory, text, seen) ==
  Reached(VarNames, {ref \in Refs(memory) : ref[2] \notin seen}, text \ seen)

From(memory, text) == Reached(VarNames, Refs(memory), text)

LEMMA AvoidingFacts ==
  ASSUME NEW memory \in Memories, NEW text \in SUBSET VarNames, NEW seen
  PROVE  /\ text \ seen \subseteq Avoiding(memory, text, seen)
         /\ Avoiding(memory, text, seen) \in SUBSET VarNames
         /\ \A v \in Avoiding(memory, text, seen) \cap DOMAIN memory : memory[v] \ seen \subseteq Avoiding(memory, text, seen)
         /\ \A closed \in SUBSET VarNames :
              text \ seen \subseteq closed /\ (\A v \in closed \cap DOMAIN memory : memory[v] \ seen \subseteq closed)
                => Avoiding(memory, text, seen) \subseteq closed
<1> DEFINE edges == {ref \in Refs(memory) : ref[2] \notin seen}
           A     == Avoiding(memory, text, seen)
<1>1. /\ DOMAIN memory \in SUBSET VarNames
      /\ \A v \in DOMAIN memory : memory[v] \in SUBSET VarNames
  BY MemoryFacts
<1>2. edges \in SUBSET (VarNames \X VarNames) /\ text \ seen \in SUBSET VarNames
  BY <1>1 DEF Refs
<1>3. \A v \in DOMAIN memory : \A w \in memory[v] \ seen : <<v, w>> \in edges
  BY <1>1 DEF Refs
<1>4. \A e \in edges : e[1] \in DOMAIN memory /\ e[2] \in memory[e[1]] \ seen
  BY DEF Refs
<1>5. A = Reached(VarNames, edges, text \ seen)
  BY DEF Avoiding
<1> HIDE DEF edges, A
<1>6. text \ seen \subseteq A /\ A \in SUBSET VarNames /\ IsClosed(edges, A)
  BY <1>2, <1>5, ReachedIsClosed
<1>7. ASSUME NEW v \in A \cap DOMAIN memory, NEW w \in memory[v] \ seen PROVE w \in A
  <2>1. <<v, w>> \in edges /\ <<v, w>>[1] = v /\ <<v, w>>[2] = w
    BY <1>3, <1>7
  <2> QED
    BY <1>6, <1>7, <2>1 DEF IsClosed
<1>8. ASSUME NEW closed \in SUBSET VarNames, text \ seen \subseteq closed,
             \A v \in closed \cap DOMAIN memory : memory[v] \ seen \subseteq closed
      PROVE  A \subseteq closed
  <2>1. IsClosed(edges, closed)
    BY <1>4, <1>8 DEF IsClosed
  <2> QED
    BY <1>5, <1>8, <2>1, ReachedIsLeast
<1> QED
  BY <1>6, <1>7, <1>8 DEF A

LEMMA FromAvoidsNone == ASSUME NEW memory, NEW text PROVE From(memory, text) = Avoiding(memory, text, {})
<1>1. {ref \in Refs(memory) : ref[2] \notin {}} = Refs(memory) /\ text \ {} = text
  OBVIOUS
<1> QED
  BY <1>1 DEF From, Avoiding

LEMMA FromFacts ==
  ASSUME NEW memory \in Memories, NEW text \in SUBSET VarNames
  PROVE  /\ text \subseteq From(memory, text) /\ From(memory, text) \in SUBSET VarNames
         /\ \A v \in From(memory, text) \cap DOMAIN memory : memory[v] \subseteq From(memory, text)
         /\ \A closed \in SUBSET VarNames :
              text \subseteq closed /\ (\A v \in closed \cap DOMAIN memory : memory[v] \subseteq closed)
                => From(memory, text) \subseteq closed
<1> DEFINE A == Avoiding(memory, text, {})
<1>1. /\ text \ {} \subseteq A /\ A \in SUBSET VarNames
      /\ \A v \in A \cap DOMAIN memory : memory[v] \ {} \subseteq A
      /\ \A closed \in SUBSET VarNames :
           text \ {} \subseteq closed /\ (\A v \in closed \cap DOMAIN memory : memory[v] \ {} \subseteq closed)
             => A \subseteq closed
  BY AvoidingFacts
<1>2. \A s : s \ {} = s
  OBVIOUS
<1> HIDE DEF A
<1>3. From(memory, text) = A
  BY FromAvoidsNone DEF A
<1> QED
  BY <1>1, <1>2, <1>3

\* What a part of it refers to is referred to.
LEMMA FromOnwards ==
  ASSUME NEW memory \in Memories, NEW text \in SUBSET VarNames, NEW onwards \in SUBSET From(memory, text)
  PROVE  From(memory, onwards) \subseteq From(memory, text)
<1>1. /\ From(memory, text) \in SUBSET VarNames
      /\ \A v \in From(memory, text) \cap DOMAIN memory : memory[v] \subseteq From(memory, text)
  BY FromFacts
<1>2. onwards \in SUBSET VarNames
  BY <1>1
<1> QED
  BY <1>1, <1>2, FromFacts

-----------------------------------------------------------------------------
(* What resolve() leaves.                                                  *)

\* The arguments of resolve() for a variable of a text.
Inner(memory, at, v) == [text |-> memory[v], seen |-> at.seen \cup {v}, depth |-> at.depth + 1]

Followed(memory, at) == (at.text \cap DOMAIN memory) \ at.seen

\* The equation of resolve(), for the arguments in D.
LeftOnce(left, memory, at) ==
  IF at.depth = MaxRecursion THEN Left(at.text, FALSE)
  ELSE Left(at.text \cap at.seen, TRUE)
       \cup Left(at.text \ (at.seen \cup DOMAIN memory), FALSE)
       \cup UNION {left[Inner(memory, at, v)] : v \in Followed(memory, at)}

IsLeft(left, memory, D) == left = [at \in D |-> LeftOnce(left, memory, at)]

\* The arguments from which the limit is at most n away.
Near(n) == {at \in Places : MaxRecursion - at.depth <= n}

LEMMA PlaceFacts ==
  ASSUME NEW at \in Places
  PROVE  /\ at.text \in SUBSET VarNames /\ at.seen \in SUBSET VarNames
         /\ at.depth \in Nat /\ at.depth <= MaxRecursion /\ MaxRecursion \in Nat
BY PromptsAssumption DEF Places

LEMMA InnerFacts ==
  ASSUME NEW memory \in Memories, NEW n \in Nat, NEW at \in Places, MaxRecursion - at.depth <= n + 1,
         at.depth # MaxRecursion, NEW v \in Followed(memory, at)
  PROVE  /\ Inner(memory, at, v) \in Near(n) /\ Inner(memory, at, v).text = memory[v]
         /\ Inner(memory, at, v).seen = at.seen \cup {v} /\ Inner(memory, at, v).depth = at.depth + 1
<1>1. memory[v] \in SUBSET VarNames /\ v \in VarNames
  BY MemoryFacts, PlaceFacts DEF Followed
<1>2. at.seen \cup {v} \in SUBSET VarNames /\ at.depth + 1 \in 0 .. MaxRecursion
      /\ MaxRecursion - (at.depth + 1) <= n
  BY <1>1, PlaceFacts
<1> DEFINE p == Inner(memory, at, v)
<1>3. p \in Places /\ p.text = memory[v] /\ p.seen = at.seen \cup {v} /\ p.depth = at.depth + 1
  BY <1>1, <1>2 DEF Inner, Places
<1> HIDE DEF p
<1>4. p \in Near(n)
  BY <1>2, <1>3 DEF Near
<1> QED
  BY <1>3, <1>4 DEF p

LEMMA LeftOnceAgrees ==
  ASSUME NEW memory \in Memories, NEW n \in Nat, NEW left, NEW other, Agree(left, other, Near(n)),
         NEW at \in Places, MaxRecursion - at.depth <= n + 1
  PROVE  LeftOnce(other, memory, at) = LeftOnce(left, memory, at)
<1>1. CASE at.depth = MaxRecursion
  BY <1>1 DEF LeftOnce
<1>2. CASE at.depth # MaxRecursion
  <2>1. \A v \in Followed(memory, at) : other[Inner(memory, at, v)] = left[Inner(memory, at, v)]
    BY <1>2, InnerFacts DEF Agree
  <2>2. {other[Inner(memory, at, v)] : v \in Followed(memory, at)} = {left[Inner(memory, at, v)] : v \in Followed(memory, at)}
    BY <2>1
  <2> QED
    BY <1>2, <2>2 DEF LeftOnce
<1> QED
  BY <1>1, <1>2

LEMMA LeftOneMore ==
  ASSUME NEW memory \in Memories, NEW n \in Nat, NEW before, IsLeft(before, memory, Near(n))
  PROVE  \E left : IsLeft(left, memory, Near(n + 1))
<1> DEFINE left == [at \in Near(n + 1) |-> LeftOnce(before, memory, at)]
<1>1. Agree(before, left, Near(n))
  <2>1. ASSUME NEW at \in Near(n) PROVE left[at] = before[at]
    <3>1. at \in Near(n + 1)
      <4>1. at \in Places /\ MaxRecursion - at.depth <= n
        BY DEF Near
      <4>2. MaxRecursion - at.depth \in Int
        BY <4>1, PlaceFacts
      <4> QED
        BY <4>1, <4>2 DEF Near
    <3>2. before[at] = LeftOnce(before, memory, at)
      BY Zenon DEF IsLeft
    <3> QED
      BY <3>1, <3>2
  <2> QED
    BY <2>1 DEF Agree
<1> HIDE DEF left
<1>2. \A at \in Near(n + 1) : LeftOnce(left, memory, at) = LeftOnce(before, memory, at)
  <2>1. ASSUME NEW at \in Near(n + 1) PROVE LeftOnce(left, memory, at) = LeftOnce(before, memory, at)
    <3>1. at \in Places /\ MaxRecursion - at.depth <= n + 1
      BY DEF Near
    <3> QED
      BY <1>1, <3>1, LeftOnceAgrees
  <2> QED
    BY <2>1
<1>3. left = [at \in Near(n + 1) |-> LeftOnce(left, memory, at)]
  <2>1. left = [at \in Near(n + 1) |-> LeftOnce(before, memory, at)]
    BY DEF left
  <2> QED
    BY <1>2, <2>1
<1> QED
  BY <1>3 DEF IsLeft

\* resolve() is defined: each call is nearer to the limit.
LEMMA LeftsUpTo ==
  ASSUME NEW memory \in Memories
  PROVE  \A n \in Nat : \E left : IsLeft(left, memory, Near(n))
<1> DEFINE Bad == {n \in Nat : ~\E left : IsLeft(left, memory, Near(n))}
<1>1. SUFFICES ASSUME Bad # {} PROVE FALSE
  OBVIOUS
<1>2. PICK n \in Bad : \A m \in Bad : n <= m
  <2> HIDE DEF Bad
  <2>1. Bad \in SUBSET Nat
    BY DEF Bad
  <2> QED
    BY <1>1, <2>1, LeastNat
<1>3. n \in Nat
  OBVIOUS
<1>4. CASE n = 0
  <2> DEFINE left == [at \in Near(0) |-> Left(at.text, FALSE)]
  <2>1. ASSUME NEW at \in Near(0), NEW any PROVE LeftOnce(any, memory, at) = Left(at.text, FALSE)
    <3>1. at \in Places /\ MaxRecursion - at.depth <= 0
      BY DEF Near
    <3>2. at.depth = MaxRecursion
      BY <3>1, PlaceFacts
    <3> QED
      BY <3>2 DEF LeftOnce
  <2>2. left = [at \in Near(0) |-> LeftOnce(left, memory, at)]
    <3> HIDE DEF left
    <3>1. \A at \in Near(0) : LeftOnce(left, memory, at) = Left(at.text, FALSE)
      BY <2>1
    <3> QED
      BY <3>1 DEF left
  <2>3. IsLeft(left, memory, Near(0))
    <3> HIDE DEF left
    <3> QED
      BY <2>2 DEF IsLeft
  <2> QED
    BY <1>2, <1>4, <2>3
<1>5. CASE n # 0
  <2>1. n - 1 \in Nat /\ n = (n - 1) + 1
    BY <1>3, <1>5
  <2>2. PICK k \in Nat : n = k + 1 /\ k < n
    <3> HIDE DEF Bad
    <3> QED
      BY <1>3, <2>1
  <2>3. k \notin Bad
    <3> HIDE DEF Bad
    <3> QED
      BY <1>2, <1>3, <2>2
  <2>4. PICK before : IsLeft(before, memory, Near(k))
    BY <2>3
  <2>5. \E left : IsLeft(left, memory, Near(k + 1))
    <3> HIDE DEF Bad
    <3> QED
      BY <2>4, LeftOneMore
  <2> QED
    BY <1>2, <2>2, <2>5
<1> QED
  BY <1>4, <1>5

\* The references of a text, which are left by one of its variables or by the text.
OnlyFrom(out, from) == out \subseteq [name : VarNames, cycle : BOOLEAN] /\ \A l \in out : l.name \in from

\* Marks are where variables refer to each other in a circle.
MarksCircles(memory, out) ==
  \A l \in out : l.cycle => l.name \in DOMAIN memory /\ l.name \in From(memory, memory[l.name])

UnsetOnly(memory, out) == \A l \in out : ~l.cycle => l.name \notin DOMAIN memory

HasUnset(memory, refs, out) == \A x \in refs \ DOMAIN memory : [name |-> x, cycle |-> FALSE] \in out

NoMarks(out) == \A l \in out : ~l.cycle

\* No circle, and nothing that is seen.
NoCircles(memory, refs, seen) ==
  /\ refs \cap seen = {}
  /\ \A v \in refs \cap DOMAIN memory : v \notin From(memory, memory[v])

\* The variables that a text stands in all refer to what it refers to.
InPlace(memory, at) ==
  /\ at.seen \in SUBSET DOMAIN memory
  /\ \A s \in at.seen : at.text \subseteq From(memory, memory[s])

\* Fewer variables than the limit, one seen at each depth.
Counted(memory, at) == Cardinality(DOMAIN memory) < MaxRecursion /\ Cardinality(at.seen) = at.depth

Complete(memory, at, out) ==
  /\ UnsetOnly(memory, out) /\ HasUnset(memory, Avoiding(memory, at.text, at.seen), out)
  /\ NoMarks(out) => NoCircles(memory, From(memory, at.text), at.seen)

IsLeftRightly(memory, at, out) ==
  InPlace(memory, at) =>
    /\ OnlyFrom(out, From(memory, at.text)) /\ MarksCircles(memory, out)
    /\ Counted(memory, at) => Complete(memory, at, out)

AllRightly(memory, left, D) == \A at \in D : IsLeftRightly(memory, at, left[at])

LEMMA InnerInPlace ==
  ASSUME NEW memory \in Memories, NEW at \in Places, InPlace(memory, at), at.depth # MaxRecursion,
         NEW v \in Followed(memory, at)
  PROVE  /\ InPlace(memory, Inner(memory, at, v))
         /\ Counted(memory, at) => Counted(memory, Inner(memory, at, v))
<1>1. /\ Inner(memory, at, v).text = memory[v]
      /\ Inner(memory, at, v).seen = at.seen \cup {v} /\ Inner(memory, at, v).depth = at.depth + 1
  BY DEF Inner
<1>2. v \in at.text /\ v \in DOMAIN memory /\ v \notin at.seen
  BY DEF Followed
<1>3. memory[v] \in SUBSET VarNames /\ IsFiniteSet(DOMAIN memory)
  BY <1>2, MemoryFacts
<1>4. ASSUME NEW s \in at.seen \cup {v} PROVE memory[v] \subseteq From(memory, memory[s])
  <2>1. CASE s = v
    BY <1>3, <2>1, FromFacts
  <2>2. CASE s \in at.seen
    <3>1. s \in DOMAIN memory /\ v \in From(memory, memory[s])
      BY <1>2, <2>2 DEF InPlace
    <3>2. memory[s] \in SUBSET VarNames
      BY <3>1, MemoryFacts
    <3>3. \A w \in From(memory, memory[s]) \cap DOMAIN memory : memory[w] \subseteq From(memory, memory[s])
      BY <3>2, FromFacts
    <3> QED
      BY <1>2, <3>1, <3>3
  <2> QED
    BY <2>1, <2>2
<1>5. InPlace(memory, Inner(memory, at, v))
  BY <1>1, <1>2, <1>4 DEF InPlace
<1>6. Cardinality(at.seen \cup {v}) = Cardinality(at.seen) + 1
  <2>1. IsFiniteSet(at.seen)
    BY <1>3, FS_Subset DEF InPlace
  <2> QED
    BY <1>2, <2>1, FS_AddElement
<1> QED
  BY <1>1, <1>5, <1>6 DEF Counted

\* What a text refers to, it refers to itself or through one of its variables.
LEMMA FromSplits ==
  ASSUME NEW memory \in Memories, NEW text \in SUBSET VarNames, NEW x \in From(memory, text)
  PROVE  x \in text \/ \E v \in text \cap DOMAIN memory : x \in From(memory, memory[v])
<1> DEFINE C == text \cup {y \in VarNames : \E v \in text \cap DOMAIN memory : y \in From(memory, memory[v])}
<1>1. \A v \in DOMAIN memory : memory[v] \in SUBSET VarNames
  BY MemoryFacts
<1>2. ASSUME NEW w \in C \cap DOMAIN memory, NEW y \in memory[w] PROVE y \in C
  <2>1. y \in VarNames
    BY <1>1
  <2>2. CASE w \in text
    <3>1. y \in From(memory, memory[w])
      BY <1>1, FromFacts
    <3> QED
      BY <2>1, <2>2, <3>1
  <2>3. CASE w \notin text
    <3>1. PICK v \in text \cap DOMAIN memory : w \in From(memory, memory[v])
      BY <2>3
    <3>2. y \in From(memory, memory[v])
      BY <1>1, <3>1, FromFacts
    <3> QED
      BY <2>1, <3>1, <3>2
  <2> QED
    BY <2>2, <2>3
<1>3. C \in SUBSET VarNames /\ text \subseteq C
  OBVIOUS
<1>4. \A w \in C \cap DOMAIN memory : memory[w] \subseteq C
  BY <1>2
<1>5. From(memory, text) \subseteq C
  <2> HIDE DEF C
  <2> QED
    BY <1>3, <1>4, FromFacts
<1> QED
  BY <1>5

\* The same, not going through what is seen.
SplitsUp(memory, text, seen, x) ==
  x \in text \ seen \/ \E v \in (text \cap DOMAIN memory) \ seen : x \in Avoiding(memory, memory[v], seen \cup {v})

LEMMA AvoidingSplits ==
  ASSUME NEW memory \in Memories, NEW text \in SUBSET VarNames, NEW seen, NEW x \in Avoiding(memory, text, seen)
  PROVE  SplitsUp(memory, text, seen, x)
<1> DEFINE C == (text \ seen) \cup {y \in VarNames : \E v \in (text \cap DOMAIN memory) \ seen :
                                      y \in Avoiding(memory, memory[v], seen \cup {v})}
<1>1. \A v \in DOMAIN memory : memory[v] \in SUBSET VarNames
  BY MemoryFacts
<1>2. ASSUME NEW w \in C \cap DOMAIN memory, NEW y \in memory[w] \ seen PROVE y \in C
  <2>1. y \in VarNames
    BY <1>1
  <2>2. CASE w \in text \ seen
    <3>1. CASE y = w
      BY <2>2, <3>1
    <3>2. CASE y # w
      <4>1. y \in memory[w] \ (seen \cup {w})
        BY <3>2
      <4>2. memory[w] \ (seen \cup {w}) \subseteq Avoiding(memory, memory[w], seen \cup {w})
        BY <1>1, AvoidingFacts
      <4> QED
        BY <2>1, <2>2, <4>1, <4>2
    <3> QED
      BY <3>1, <3>2
  <2>3. CASE w \notin text \ seen
    <3>1. PICK v \in (text \cap DOMAIN memory) \ seen : w \in Avoiding(memory, memory[v], seen \cup {v})
      BY <2>3
    <3>2. CASE y = v
      BY <3>1, <3>2
    <3>3. CASE y # v
      <4>1. \A u \in Avoiding(memory, memory[v], seen \cup {v}) \cap DOMAIN memory :
              memory[u] \ (seen \cup {v}) \subseteq Avoiding(memory, memory[v], seen \cup {v})
        BY <1>1, <3>1, AvoidingFacts
      <4>2. y \in Avoiding(memory, memory[v], seen \cup {v})
        BY <1>2, <3>1, <3>3, <4>1
      <4> QED
        BY <2>1, <3>1, <4>2
    <3> QED
      BY <3>2, <3>3
  <2> QED
    BY <2>2, <2>3
<1>3. C \in SUBSET VarNames /\ text \ seen \subseteq C
  OBVIOUS
<1>4. \A w \in C \cap DOMAIN memory : memory[w] \ seen \subseteq C
  BY <1>2
<1>5. Avoiding(memory, text, seen) \subseteq C
  <2> HIDE DEF C
  <2> QED
    BY <1>3, <1>4, AvoidingFacts
<1> QED
  BY <1>5 DEF SplitsUp


\* What is left of a variable that is followed.
LEMMA InnerIsRight ==
  ASSUME NEW memory \in Memories, NEW n \in Nat, NEW left, AllRightly(memory, left, Near(n)),
         NEW at \in Places, MaxRecursion - at.depth <= n + 1, InPlace(memory, at), at.depth # MaxRecursion,
         NEW v \in Followed(memory, at)
  PROVE  /\ OnlyFrom(left[Inner(memory, at, v)], From(memory, memory[v]))
         /\ MarksCircles(memory, left[Inner(memory, at, v)])
         /\ Counted(memory, at) =>
              /\ UnsetOnly(memory, left[Inner(memory, at, v)])
              /\ HasUnset(memory, Avoiding(memory, memory[v], at.seen \cup {v}), left[Inner(memory, at, v)])
              /\ NoMarks(left[Inner(memory, at, v)]) => NoCircles(memory, From(memory, memory[v]), at.seen \cup {v})
<1> DEFINE p   == Inner(memory, at, v)
           out == left[p]
<1>1. p \in Near(n) /\ p.text = memory[v] /\ p.seen = at.seen \cup {v}
  BY InnerFacts
<1>2. InPlace(memory, p) /\ (Counted(memory, at) => Counted(memory, p))
  BY InnerInPlace
<1> HIDE DEF p
<1>3. IsLeftRightly(memory, p, out)
  BY <1>1 DEF AllRightly
<1> HIDE DEF out
<1>4. /\ OnlyFrom(out, From(memory, memory[v])) /\ MarksCircles(memory, out)
      /\ Counted(memory, p) => Complete(memory, p, out)
  BY <1>1, <1>2, <1>3 DEF IsLeftRightly
<1>5. Complete(memory, p, out) =>
        /\ UnsetOnly(memory, out) /\ HasUnset(memory, Avoiding(memory, memory[v], at.seen \cup {v}), out)
        /\ NoMarks(out) => NoCircles(memory, From(memory, memory[v]), at.seen \cup {v})
  BY <1>1 DEF Complete
<1> QED
  BY <1>2, <1>4, <1>5 DEF out, p

\* Each reference that is left has one of three reasons.
LEMMA LeftByParts ==
  ASSUME NEW memory, NEW at, NEW left, at.depth # MaxRecursion
  PROVE  /\ \A v \in at.text \cap at.seen : [name |-> v, cycle |-> TRUE] \in LeftOnce(left, memory, at)
         /\ \A v \in at.text \ (at.seen \cup DOMAIN memory) : [name |-> v, cycle |-> FALSE] \in LeftOnce(left, memory, at)
         /\ \A v \in Followed(memory, at) : \A l \in left[Inner(memory, at, v)] : l \in LeftOnce(left, memory, at)
         /\ \A l \in LeftOnce(left, memory, at) :
              \/ \E v \in at.text \cap at.seen : l = [name |-> v, cycle |-> TRUE]
              \/ \E v \in at.text \ (at.seen \cup DOMAIN memory) : l = [name |-> v, cycle |-> FALSE]
              \/ \E v \in Followed(memory, at) : l \in left[Inner(memory, at, v)]
BY DEF LeftOnce, Left

\* At the limit all is left as it is; fewer variables than the limit never get there.
LEMMA LimitIsRight ==
  ASSUME NEW memory \in Memories, NEW at \in Places, at.depth = MaxRecursion
  PROVE  IsLeftRightly(memory, at, Left(at.text, FALSE))
<1> DEFINE out == Left(at.text, FALSE)
<1>1. SUFFICES ASSUME InPlace(memory, at)
      PROVE  /\ OnlyFrom(out, From(memory, at.text)) /\ MarksCircles(memory, out) /\ ~Counted(memory, at)
  BY DEF IsLeftRightly
<1>2. at.text \in SUBSET VarNames /\ at.text \subseteq From(memory, at.text)
  BY PlaceFacts, FromFacts
<1>3. OnlyFrom(out, From(memory, at.text)) /\ MarksCircles(memory, out)
  <2>1. ASSUME NEW l \in out
        PROVE  l \in [name : VarNames, cycle : BOOLEAN] /\ l.name \in From(memory, at.text) /\ ~l.cycle
    <3>1. PICK v \in at.text : l = [name |-> v, cycle |-> FALSE]
      BY DEF Left
    <3> QED
      BY <1>2, <3>1
  <2> HIDE DEF out
  <2> QED
    BY <2>1, Zenon DEF OnlyFrom, MarksCircles
<1>4. IsFiniteSet(DOMAIN memory) /\ Cardinality(DOMAIN memory) \in Nat
  BY MemoryFacts
<1>5. Cardinality(at.seen) <= Cardinality(DOMAIN memory) /\ Cardinality(at.seen) \in Nat
  <2>1. at.seen \in SUBSET DOMAIN memory
    BY <1>1 DEF InPlace
  <2> QED
    BY <1>4, <2>1, FS_Subset, FS_CardinalityType
<1>6. ~Counted(memory, at)
  BY <1>4, <1>5, PlaceFacts DEF Counted
<1> QED
  BY <1>3, <1>6

LEMMA LeftOnceIsRight ==
  ASSUME NEW memory \in Memories, NEW n \in Nat, NEW left, AllRightly(memory, left, Near(n)),
         NEW at \in Places, MaxRecursion - at.depth <= n + 1
  PROVE  IsLeftRightly(memory, at, LeftOnce(left, memory, at))
<1> DEFINE out  == LeftOnce(left, memory, at)
           from == From(memory, at.text)
<1>1. SUFFICES ASSUME InPlace(memory, at)
      PROVE  /\ OnlyFrom(out, from) /\ MarksCircles(memory, out)
             /\ Counted(memory, at) => Complete(memory, at, out)
  BY DEF IsLeftRightly
<1>2. /\ at.text \in SUBSET VarNames /\ at.seen \in SUBSET VarNames /\ at.seen \subseteq DOMAIN memory
      /\ \A s \in at.seen : at.text \subseteq From(memory, memory[s])
  BY <1>1, PlaceFacts DEF InPlace
<1>3. /\ at.text \subseteq from /\ from \in SUBSET VarNames
      /\ \A v \in from \cap DOMAIN memory : memory[v] \subseteq from
  BY <1>2, FromFacts
<1>4. \A v \in DOMAIN memory : memory[v] \in SUBSET VarNames
  BY MemoryFacts
<1>5. CASE at.depth = MaxRecursion
  <2>1. out = Left(at.text, FALSE)
    BY <1>5 DEF LeftOnce
  <2>2. IsLeftRightly(memory, at, Left(at.text, FALSE))
    BY <1>5, LimitIsRight
  <2> QED
    BY <1>1, <2>1, <2>2 DEF IsLeftRightly
<1>6. CASE at.depth # MaxRecursion
  <2>1. ASSUME NEW v \in Followed(memory, at)
        PROVE  /\ v \in at.text /\ v \in DOMAIN memory /\ v \notin at.seen
               /\ memory[v] \in SUBSET VarNames /\ From(memory, memory[v]) \subseteq from
    <3>1. v \in at.text /\ v \in DOMAIN memory /\ v \notin at.seen
      BY DEF Followed
    <3>2. memory[v] \in SUBSET from
      BY <1>3, <3>1
    <3> QED
      BY <1>2, <1>4, <3>1, <3>2, FromOnwards
  <2>2. ASSUME NEW v \in Followed(memory, at)
        PROVE  /\ OnlyFrom(left[Inner(memory, at, v)], From(memory, memory[v]))
               /\ MarksCircles(memory, left[Inner(memory, at, v)])
               /\ Counted(memory, at) =>
                    /\ UnsetOnly(memory, left[Inner(memory, at, v)])
                    /\ HasUnset(memory, Avoiding(memory, memory[v], at.seen \cup {v}), left[Inner(memory, at, v)])
                    /\ NoMarks(left[Inner(memory, at, v)]) => NoCircles(memory, From(memory, memory[v]), at.seen \cup {v})
    BY <1>1, <1>6, <2>2, InnerIsRight
  <2>3. /\ \A v \in at.text \cap at.seen : [name |-> v, cycle |-> TRUE] \in out
        /\ \A v \in at.text \ (at.seen \cup DOMAIN memory) : [name |-> v, cycle |-> FALSE] \in out
        /\ \A v \in Followed(memory, at) : \A l \in left[Inner(memory, at, v)] : l \in out
        /\ \A l \in out : \/ \E v \in at.text \cap at.seen : l = [name |-> v, cycle |-> TRUE]
                          \/ \E v \in at.text \ (at.seen \cup DOMAIN memory) : l = [name |-> v, cycle |-> FALSE]
                          \/ \E v \in Followed(memory, at) : l \in left[Inner(memory, at, v)]
    BY <1>6, LeftByParts
  <2> HIDE DEF out, from
  <2>4. OnlyFrom(out, from)
    <3>1. ASSUME NEW l \in out PROVE l \in [name : VarNames, cycle : BOOLEAN] /\ l.name \in from
      <4>1. CASE \E v \in at.text \cap at.seen : l = [name |-> v, cycle |-> TRUE]
        BY <1>3, <4>1
      <4>2. CASE \E v \in at.text \ (at.seen \cup DOMAIN memory) : l = [name |-> v, cycle |-> FALSE]
        BY <1>3, <4>2
      <4>3. CASE \E v \in Followed(memory, at) : l \in left[Inner(memory, at, v)]
        <5>1. PICK v \in Followed(memory, at) : l \in left[Inner(memory, at, v)]
          BY <4>3
        <5> QED
          BY <2>1, <2>2, <5>1 DEF OnlyFrom
      <4> QED
        BY <2>3, <4>1, <4>2, <4>3
    <3> QED
      BY <3>1 DEF OnlyFrom
  <2>5. MarksCircles(memory, out)
    <3>1. ASSUME NEW l \in out, l.cycle PROVE l.name \in DOMAIN memory /\ l.name \in From(memory, memory[l.name])
      <4>1. CASE \E v \in at.text \cap at.seen : l = [name |-> v, cycle |-> TRUE]
        BY <1>2, <4>1
      <4>2. CASE \E v \in at.text \ (at.seen \cup DOMAIN memory) : l = [name |-> v, cycle |-> FALSE]
        BY <3>1, <4>2
      <4>3. CASE \E v \in Followed(memory, at) : l \in left[Inner(memory, at, v)]
        <5>1. PICK v \in Followed(memory, at) : l \in left[Inner(memory, at, v)]
          BY <4>3
        <5> QED
          BY <2>2, <3>1, <5>1 DEF MarksCircles
      <4> QED
        BY <2>3, <4>1, <4>2, <4>3
    <3> QED
      BY <3>1 DEF MarksCircles
  <2>6. ASSUME Counted(memory, at) PROVE UnsetOnly(memory, out)
    <3>1. ASSUME NEW l \in out, ~l.cycle PROVE l.name \notin DOMAIN memory
      <4>1. CASE \E v \in at.text \cap at.seen : l = [name |-> v, cycle |-> TRUE]
        BY <3>1, <4>1
      <4>2. CASE \E v \in at.text \ (at.seen \cup DOMAIN memory) : l = [name |-> v, cycle |-> FALSE]
        BY <4>2
      <4>3. CASE \E v \in Followed(memory, at) : l \in left[Inner(memory, at, v)]
        <5>1. PICK v \in Followed(memory, at) : l \in left[Inner(memory, at, v)]
          BY <4>3
        <5> QED
          BY <2>2, <2>6, <3>1, <5>1 DEF UnsetOnly
      <4> QED
        BY <2>3, <4>1, <4>2, <4>3
    <3> QED
      BY <3>1 DEF UnsetOnly
  <2>7. ASSUME Counted(memory, at) PROVE HasUnset(memory, Avoiding(memory, at.text, at.seen), out)
    <3>1. ASSUME NEW x \in Avoiding(memory, at.text, at.seen), x \notin DOMAIN memory
          PROVE  [name |-> x, cycle |-> FALSE] \in out
      <4>1. CASE x \in at.text \ at.seen
        BY <2>3, <3>1, <4>1
      <4>2. CASE \E v \in (at.text \cap DOMAIN memory) \ at.seen : x \in Avoiding(memory, memory[v], at.seen \cup {v})
        <5>1. PICK v \in Followed(memory, at) : x \in Avoiding(memory, memory[v], at.seen \cup {v})
          BY <4>2 DEF Followed
        <5>2. [name |-> x, cycle |-> FALSE] \in left[Inner(memory, at, v)]
          BY <2>2, <2>7, <3>1, <5>1 DEF HasUnset
        <5> QED
          BY <2>3, <5>1, <5>2
      <4>3. SplitsUp(memory, at.text, at.seen, x)
        BY <1>2, <3>1, AvoidingSplits
      <4> QED
        BY <4>1, <4>2, <4>3 DEF SplitsUp
    <3> QED
      BY <3>1 DEF HasUnset
  <2>8. ASSUME Counted(memory, at), NoMarks(out) PROVE NoCircles(memory, from, at.seen)
    <3>1. at.text \cap at.seen = {}
      BY <2>3, <2>8 DEF NoMarks
    <3>2. ASSUME NEW v \in at.text \cap DOMAIN memory PROVE NoCircles(memory, From(memory, memory[v]), at.seen \cup {v})
      <4>1. v \in Followed(memory, at)
        BY <3>1 DEF Followed
      <4>2. NoMarks(left[Inner(memory, at, v)])
        BY <2>3, <2>8, <4>1 DEF NoMarks
      <4> QED
        BY <2>2, <2>8, <4>1, <4>2
    <3>3. ASSUME NEW x \in from
          PROVE  x \in at.text \/ \E v \in at.text \cap DOMAIN memory : x \in From(memory, memory[v])
      BY <1>2, <3>3, FromSplits DEF from
    <3>4. ASSUME NEW x \in from PROVE x \notin at.seen
      BY <3>1, <3>2, <3>3 DEF NoCircles
    <3>5. ASSUME NEW x \in from, x \in DOMAIN memory PROVE x \notin From(memory, memory[x])
      BY <3>2, <3>3, <3>5 DEF NoCircles
    <3> QED
      BY <3>4, <3>5 DEF NoCircles
  <2>9. Counted(memory, at) => Complete(memory, at, out)
    BY <2>6, <2>7, <2>8 DEF Complete, from
  <2> QED
    BY <2>4, <2>5, <2>9
<1> QED
  BY <1>5, <1>6

\* What resolve() leaves is left rightly, at every depth.
LEMMA LeftsAreRight ==
  ASSUME NEW memory \in Memories, NEW left, IsLeft(left, memory, Places)
  PROVE  \A n \in Nat : AllRightly(memory, left, Near(n))
<1> DEFINE Bad == {n \in Nat : ~AllRightly(memory, left, Near(n))}
<1>1. SUFFICES ASSUME Bad # {} PROVE FALSE
  OBVIOUS
<1>2. PICK n \in Bad : \A m \in Bad : n <= m
  <2> HIDE DEF Bad
  <2>1. Bad \in SUBSET Nat
    BY DEF Bad
  <2> QED
    BY <1>1, <2>1, LeastNat
<1>3. n \in Nat /\ ~AllRightly(memory, left, Near(n))
  OBVIOUS
<1>4. ASSUME NEW at \in Near(n) PROVE IsLeftRightly(memory, at, left[at])
  <2>1. at \in Places /\ MaxRecursion - at.depth <= n
    BY DEF Near
  <2>2. left[at] = LeftOnce(left, memory, at)
    BY <2>1, Zenon DEF IsLeft
  <2> HIDE DEF Bad
  <2>3. CASE n = 0
    <3>1. at.depth = MaxRecursion
      BY <2>1, <2>3, PlaceFacts
    <3>2. LeftOnce(left, memory, at) = Left(at.text, FALSE)
      BY <3>1 DEF LeftOnce
    <3>3. IsLeftRightly(memory, at, Left(at.text, FALSE))
      BY <2>1, <3>1, LimitIsRight
    <3> QED
      BY <2>2, <3>2, <3>3
  <2>4. CASE n # 0
    <3>1. PICK k \in Nat : n = k + 1
      <4>1. n - 1 \in Nat /\ n = (n - 1) + 1
        BY <1>3, <2>4
      <4> QED
        BY <4>1
    <3>2. AllRightly(memory, left, Near(k))
      <4>1. k \notin Bad
        BY <1>2, <3>1
      <4> QED
        BY <4>1 DEF Bad
    <3>3. MaxRecursion - at.depth <= k + 1
      BY <2>1, <3>1
    <3> QED
      BY <2>1, <2>2, <3>2, <3>3, LeftOnceIsRight
  <2> QED
    BY <2>3, <2>4
<1> QED
  BY <1>3, <1>4 DEF AllRightly


\* What a text, or several, should leave.
Whole(memory, text, out) ==
  /\ OnlyFrom(out, From(memory, text)) /\ MarksCircles(memory, out)
  /\ Cardinality(DOMAIN memory) < MaxRecursion =>
       /\ UnsetOnly(memory, out) /\ HasUnset(memory, From(memory, text), out)
       /\ NoMarks(out) => NoCircles(memory, From(memory, text), {})

LEMMA ResolveIsWhole ==
  ASSUME NEW memory \in Memories, NEW text \in SUBSET VarNames
  PROVE  Whole(memory, text, Resolve(memory, text))
<1> DEFINE left == CHOOSE left : IsLeft(left, memory, Places)
           top  == [text |-> text, seen |-> {}, depth |-> 0]
<1>1. Resolve(memory, text) = left[top]
  BY DEF Resolve, IsLeft, LeftOnce, Inner, Followed
<1>2. MaxRecursion \in Nat /\ Near(MaxRecursion) = Places
  <2>1. MaxRecursion \in Nat
    BY PromptsAssumption
  <2>2. ASSUME NEW at \in Places PROVE MaxRecursion - at.depth <= MaxRecursion
    BY PlaceFacts
  <2> QED
    BY <2>1, <2>2 DEF Near
<1>3. IsLeft(left, memory, Places)
  <2>1. \E l : IsLeft(l, memory, Near(MaxRecursion))
    BY <1>2, LeftsUpTo
  <2> QED
    BY <1>2, <2>1
<1>4. top \in Places /\ top.text = text /\ top.seen = {} /\ top.depth = 0
  BY <1>2 DEF Places
<1> HIDE DEF left, top
<1>5. AllRightly(memory, left, Places)
  <2>1. AllRightly(memory, left, Near(MaxRecursion))
    BY <1>2, <1>3, LeftsAreRight
  <2> QED
    BY <1>2, <2>1
<1>6. IsLeftRightly(memory, top, left[top])
  BY <1>4, <1>5 DEF AllRightly
<1>7. InPlace(memory, top)
  BY <1>4 DEF InPlace
<1>8. Cardinality(DOMAIN memory) < MaxRecursion => Counted(memory, top)
  BY <1>4, FS_EmptySet DEF Counted
<1>9. Avoiding(memory, text, {}) = From(memory, text)
  BY FromAvoidsNone
<1> QED
  BY <1>1, <1>4, <1>6, <1>7, <1>8, <1>9 DEF IsLeftRightly, Complete, Whole

\* Several texts leave what each of them does.
AllWhole(memory, ids, texts, outs) ==
  \A id \in ids : texts[id] \in SUBSET VarNames /\ Whole(memory, texts[id], outs[id])

IsUnion(all, ids, parts) == all = UNION {parts[id] : id \in ids}

LEMMA UnionIsWhole ==
  ASSUME NEW memory \in Memories, NEW ids, NEW texts, NEW outs, AllWhole(memory, ids, texts, outs),
         NEW text, IsUnion(text, ids, texts), NEW out, IsUnion(out, ids, outs)
  PROVE  Whole(memory, text, out)
<1>0. \A id \in ids : texts[id] \in SUBSET VarNames /\ Whole(memory, texts[id], outs[id])
  BY DEF AllWhole
<1>1. text \in SUBSET VarNames
  BY <1>0 DEF IsUnion
<1>2. /\ \A id \in ids : texts[id] \subseteq text
      /\ \A x \in text : \E id \in ids : x \in texts[id]
      /\ \A id \in ids : \A l \in outs[id] : l \in out
      /\ \A l \in out : \E id \in ids : l \in outs[id]
  BY DEF IsUnion
<1>3. ASSUME NEW id \in ids PROVE From(memory, texts[id]) \subseteq From(memory, text)
  <2>1. texts[id] \in SUBSET From(memory, text)
    BY <1>0, <1>1, <1>2, FromFacts
  <2> QED
    BY <1>1, <2>1, FromOnwards
<1>4. ASSUME NEW x \in From(memory, text) PROVE \E id \in ids : x \in From(memory, texts[id])
  <2>1. CASE x \in text
    <3>1. PICK id \in ids : x \in texts[id]
      BY <1>2, <2>1
    <3> QED
      BY <1>0, <3>1, FromFacts
  <2>2. CASE \E v \in text \cap DOMAIN memory : x \in From(memory, memory[v])
    <3>1. PICK v \in text \cap DOMAIN memory : x \in From(memory, memory[v])
      BY <2>2
    <3>2. PICK id \in ids : v \in texts[id]
      BY <1>2, <3>1
    <3>3. texts[id] \in SUBSET VarNames
      BY <1>0
    <3>4. memory[v] \in SUBSET From(memory, texts[id])
      <4>1. /\ texts[id] \subseteq From(memory, texts[id])
            /\ \A w \in From(memory, texts[id]) \cap DOMAIN memory : memory[w] \subseteq From(memory, texts[id])
        BY <3>3, FromFacts
      <4> QED
        BY <3>1, <3>2, <4>1
    <3>5. From(memory, memory[v]) \subseteq From(memory, texts[id])
      BY <3>3, <3>4, FromOnwards
    <3> QED
      BY <3>1, <3>5
  <2> QED
    BY <1>1, <2>1, <2>2, FromSplits
<1>5. OnlyFrom(out, From(memory, text))
  <2>1. ASSUME NEW l \in out PROVE l \in [name : VarNames, cycle : BOOLEAN] /\ l.name \in From(memory, text)
    <3>1. PICK id \in ids : l \in outs[id]
      BY <1>2
    <3>2. OnlyFrom(outs[id], From(memory, texts[id]))
      BY <1>0 DEF Whole
    <3> QED
      BY <1>3, <3>1, <3>2 DEF OnlyFrom
  <2> QED
    BY <2>1 DEF OnlyFrom
<1>6. MarksCircles(memory, out)
  <2>1. ASSUME NEW l \in out, l.cycle PROVE l.name \in DOMAIN memory /\ l.name \in From(memory, memory[l.name])
    <3>1. PICK id \in ids : l \in outs[id]
      BY <1>2
    <3>2. MarksCircles(memory, outs[id])
      BY <1>0 DEF Whole
    <3> QED
      BY <2>1, <3>1, <3>2 DEF MarksCircles
  <2> QED
    BY <2>1 DEF MarksCircles
<1>7. ASSUME Cardinality(DOMAIN memory) < MaxRecursion
      PROVE  /\ UnsetOnly(memory, out) /\ HasUnset(memory, From(memory, text), out)
             /\ NoMarks(out) => NoCircles(memory, From(memory, text), {})
  <2>1. ASSUME NEW id \in ids
        PROVE  /\ UnsetOnly(memory, outs[id]) /\ HasUnset(memory, From(memory, texts[id]), outs[id])
               /\ NoMarks(outs[id]) => NoCircles(memory, From(memory, texts[id]), {})
    BY <1>0, <1>7 DEF Whole
  <2>2. UnsetOnly(memory, out)
    BY <1>2, <2>1 DEF UnsetOnly
  <2>3. ASSUME NEW x \in From(memory, text), x \notin DOMAIN memory PROVE [name |-> x, cycle |-> FALSE] \in out
    <3>1. PICK id \in ids : x \in From(memory, texts[id])
      BY <1>4
    <3> QED
      BY <1>2, <2>1, <2>3, <3>1 DEF HasUnset
  <2>4. ASSUME NoMarks(out), NEW v \in From(memory, text) \cap DOMAIN memory PROVE v \notin From(memory, memory[v])
    <3>1. PICK id \in ids : v \in From(memory, texts[id])
      BY <1>4
    <3>2. NoMarks(outs[id])
      BY <1>2, <2>4 DEF NoMarks
    <3> QED
      BY <2>1, <3>1, <3>2 DEF NoCircles
  <2> QED
    BY <2>2, <2>3, <2>4 DEF HasUnset, NoCircles
<1> QED
  BY <1>5, <1>6, <1>7 DEF Whole

LEMMA WholeIsWhatIsUnset ==
  ASSUME NEW memory \in Memories, NEW text \in SUBSET VarNames, NEW left, Whole(memory, text, left)
  PROVE  LeavesWhatIsUnset(memory, text, left)
<1> DEFINE reached == From(memory, text)
           circles == {v \in reached \cap DOMAIN memory : v \in From(memory, memory[v])}
           marked  == {l.name : l \in {k \in left : k.cycle}}
           plain   == {l.name : l \in {k \in left : ~k.cycle}}
<1>1. SUFFICES /\ plain \subseteq reached /\ marked \subseteq circles
               /\ Cardinality(DOMAIN memory) < MaxRecursion =>
                    /\ plain = reached \ DOMAIN memory
                    /\ marked = {} <=> circles = {}
  BY DEF LeavesWhatIsUnset, From, Refs
<1>2. /\ \A l \in left : l \in [name : VarNames, cycle : BOOLEAN] /\ l.name \in reached
      /\ \A l \in left : l.cycle => l.name \in DOMAIN memory /\ l.name \in From(memory, memory[l.name])
  BY DEF Whole, OnlyFrom, MarksCircles
<1>3. plain \subseteq reached
  <2> HIDE DEF reached
  <2> QED
    BY <1>2
<1>4. marked \subseteq circles
  <2>1. ASSUME NEW l \in left, l.cycle PROVE l.name \in circles
    BY <1>2, <2>1
  <2> HIDE DEF circles
  <2> QED
    BY <2>1
<1>5. ASSUME Cardinality(DOMAIN memory) < MaxRecursion
      PROVE  plain = reached \ DOMAIN memory /\ (marked = {} <=> circles = {})
  <2>1. /\ \A l \in left : ~l.cycle => l.name \notin DOMAIN memory
        /\ \A x \in reached \ DOMAIN memory : [name |-> x, cycle |-> FALSE] \in left
        /\ NoMarks(left) => NoCircles(memory, reached, {})
    BY <1>5 DEF Whole, UnsetOnly, HasUnset
  <2>2. reached \ DOMAIN memory \subseteq plain
    <3>1. ASSUME NEW x \in reached \ DOMAIN memory PROVE x \in plain
      <4>1. PICK l \in left : l = [name |-> x, cycle |-> FALSE]
        BY <2>1
      <4>2. ~l.cycle /\ l.name = x
        BY <4>1
      <4> QED
        BY <4>2
    <3> HIDE DEF reached, plain
    <3> QED
      BY <3>1
  <2>3. plain \cap DOMAIN memory = {}
    <3> HIDE DEF reached
    <3> QED
      BY <2>1
  <2>4. ASSUME marked = {} PROVE circles = {}
    <3>1. NoMarks(left)
      BY <2>4 DEF NoMarks
    <3> QED
      BY <2>1, <3>1 DEF NoCircles
  <2> HIDE DEF reached, circles, marked, plain
  <2> QED
    BY <1>3, <1>4, <2>2, <2>3, <2>4
<1> QED
  BY <1>3, <1>4, <1>5

\* The variables that a prompt is made with.
LEMMA HydratedIsMemory == TextTypes => Hydrated \in Memories
<1>1. SUFFICES ASSUME TextTypes PROVE Hydrated \in Memories
  OBVIOUS
<1>2. FragmentOrder \in Seq(NodeIds)
  BY <1>1, FragmentFacts
<1>3. PICK n \in Nat : DOMAIN FragmentOrder = 1 .. n
  BY <1>2
<1>4. \A m \in 1 .. n : FragmentOrder[m] \in NodeIds
  BY <1>2, <1>3
<1>5. ASSUME NEW memory \in Memories, NEW id \in NodeIds PROVE Hydrate[<<memory, id>>] \in Memories
  <2>1. PICK names \in SUBSET VarNames : memory \in [names -> Texts]
    BY DEF Memories
  <2>2. PICK more \in SUBSET VarNames : Defines[id] \in [more -> Texts]
    <3>1. Defines[id] \in Memories
      BY PromptsAssumption
    <3> QED
      BY <3>1 DEF Memories
  <2> DEFINE all == [n2 \in names \cup more |-> IF n2 \in names THEN memory[n2] ELSE Defines[id][n2]]
  <2>3. Hydrate[<<memory, id>>] = all
    <3>1. <<memory, id>> \in Memories \X NodeIds
      OBVIOUS
    <3> QED
      BY <2>1, <2>2, <3>1 DEF Hydrate
  <2>4. all \in [names \cup more -> Texts] /\ names \cup more \in SUBSET VarNames
    BY <2>1, <2>2
  <2> HIDE DEF all
  <2> QED
    BY <2>3, <2>4 DEF Memories
<1> DEFINE P == [m \in 0 .. n |-> Memories]
<1>6. variables \in P[0] /\ P[n] = Memories
  BY <1>1 DEF TextTypes
<1>7. \A m \in 1 .. n : \A x \in P[m - 1] : Hydrate[<<x, FragmentOrder[m]>>] \in P[m]
  <2>1. ASSUME NEW m \in 1 .. n, NEW x \in P[m - 1] PROVE Hydrate[<<x, FragmentOrder[m]>>] \in P[m]
    <3>1. m - 1 \in 0 .. n /\ m \in 0 .. n
      OBVIOUS
    <3>2. x \in Memories /\ P[m] = Memories
      BY <3>1
    <3> HIDE DEF P
    <3> QED
      BY <1>4, <1>5, <3>2
  <2> HIDE DEF P
  <2> QED
    BY <2>1
<1> HIDE DEF P
<1>8. Through(Hydrate, variables, FragmentOrder) \in P[n]
  BY <1>3, <1>6, <1>7, ThroughStays
<1> QED
  BY <1>6, <1>8 DEF Hydrated

LEMMA TextsAreResolved == TextTypes => ReferencesAreResolved
<1>1. SUFFICES ASSUME TextTypes PROVE ReferencesAreResolved
  OBVIOUS
<1>2. ASSUME NEW text \in Texts PROVE LeavesWhatIsUnset(variables, text, Resolve(variables, text))
  <2>1. variables \in Memories /\ text \in SUBSET VarNames
    BY <1>1, PromptsAssumption DEF TextTypes
  <2>2. Whole(variables, text, Resolve(variables, text))
    BY <2>1, ResolveIsWhole
  <2> QED
    BY <2>1, <2>2, WholeIsWhatIsUnset
<1>3. LeavesWhatIsUnset(Hydrated, UNION {Template[id] : id \in Range(FragmentOrder)}, LeftInPrompt)
  <2>1. PICK memory \in Memories : memory = Hydrated
    BY <1>1, HydratedIsMemory
  <2>2. PICK ids \in SUBSET NodeIds : ids = Range(FragmentOrder)
    <3>1. FragmentOrder \in Seq(NodeIds)
      BY <1>1, FragmentFacts
    <3> QED
      BY <3>1, ListFacts
  <2>3. \A id \in ids : Template[id] \in SUBSET VarNames
    BY PromptsAssumption
  <2> DEFINE outs == [id \in ids |-> Resolve(memory, Template[id])]
             text == UNION {Template[id] : id \in ids}
             left == UNION {outs[id] : id \in ids}
  <2>4. AllWhole(memory, ids, Template, outs)
    <3>1. \A id \in ids : Whole(memory, Template[id], outs[id])
      BY <2>3, ResolveIsWhole
    <3> HIDE DEF outs
    <3> QED
      BY <2>3, <3>1 DEF AllWhole
  <2>5. LeftInPrompt = left
    BY <2>1, <2>2 DEF LeftInPrompt
  <2>6. text \in SUBSET VarNames
    BY <2>3
  <2>7. IsUnion(text, ids, Template) /\ IsUnion(left, ids, outs)
    BY DEF IsUnion
  <2> HIDE DEF outs, text, left
  <2>8. Whole(memory, text, left)
    BY <2>4, <2>7, UnionIsWhole
  <2>9. LeavesWhatIsUnset(memory, text, left)
    BY <2>6, <2>8, WholeIsWhatIsUnset
  <2> QED
    BY <2>1, <2>2, <2>5, <2>9 DEF text
<1> QED
  BY <1>2, <1>3 DEF ReferencesAreResolved


-----------------------------------------------------------------------------
(* Rules, variables and prompts, step by step.                             *)

LEMMA TextsInitial == ASSUME PromptsInit PROVE TextTypes
<1>1. variables \in Memories
  <2>1. variables = <<>> /\ {} \in SUBSET VarNames
    BY DEF PromptsInit
  <2>2. variables \in [{} -> Texts]
    BY <2>1
  <2> QED
    BY <2>1, <2>2 DEF Memories
<1> QED
  BY <1>1 DEF PromptsInit, TextTypes

LEMMA TextStep == ASSUME TextTypes, [TextNext]_textVars PROVE TextTypes'
<1>1. CASE UNCHANGED textVars
  BY <1>1 DEF textVars, promptVars, TextTypes
<1>2. CASE \E graph \in GraphsOn(NodeIds) : NewRuleGraph(graph, "data")
  <2>1. PICK graph \in GraphsOn(NodeIds) : NewRuleGraph(graph, "data")
    BY <1>2
  <2> QED
    BY <2>1 DEF NewRuleGraph, GraphsOn, promptVars, TextTypes
<1>3. CASE \E lines \in SUBSET NodeIds : NewRuleGraph(DocumentGraph(lines), "document")
  <2>1. PICK lines \in SUBSET NodeIds : NewRuleGraph(DocumentGraph(lines), "document")
    BY <1>3
  <2>2. /\ DocumentGraph(lines).nodes = lines
        /\ DocumentGraph(lines).edges \in SUBSET (NodeIds \X NodeIds)
    BY DEF DocumentGraph
  <2>3. /\ ruleGraph' = [of |-> "document", nodes |-> lines, edges |-> DocumentGraph(lines).edges]
        /\ UNCHANGED promptVars
    BY <2>1, <2>2 DEF NewRuleGraph
  <2>4. PICK edges \in SUBSET (NodeIds \X NodeIds) : edges = DocumentGraph(lines).edges
    BY <2>2
  <2> QED
    BY <2>3, <2>4 DEF promptVars, TextTypes
<1>4. CASE \E name \in VarNames : DeleteVariable(name) \/ \E text \in Texts : SetVariable(name, text)
  <2>1. PICK names \in SUBSET VarNames : variables \in [names -> Texts]
    BY DEF TextTypes, Memories
  <2>2. PICK name \in VarNames : DeleteVariable(name) \/ \E text \in Texts : SetVariable(name, text)
    BY <1>4
  <2>3. variables' \in Memories /\ UNCHANGED <<ruleGraph, prompt>>
    <3>1. CASE DeleteVariable(name)
      <4>1. variables' \in [names \ {name} -> Texts] /\ names \ {name} \in SUBSET VarNames
        BY <2>1, <3>1 DEF DeleteVariable
      <4> QED
        BY <3>1, <4>1 DEF DeleteVariable, Memories
    <3>2. CASE \E text \in Texts : SetVariable(name, text)
      <4>1. PICK text \in Texts : SetVariable(name, text)
        BY <3>2
      <4>2. variables' \in [names \cup {name} -> Texts] /\ names \cup {name} \in SUBSET VarNames
        BY <2>1, <4>1 DEF SetVariable
      <4> QED
        BY <4>1, <4>2 DEF SetVariable, Memories
    <3> QED
      BY <2>2, <3>1, <3>2
  <2> QED
    BY <2>3 DEF TextTypes
<1>5. CASE \E fragments \in Builds : Build(fragments)
  <2>1. PICK fragments \in GraphsOn(NodeIds) : Build(fragments)
    BY <1>5, PromptsAssumption
  <2> QED
    BY <2>1 DEF Build, GraphsOn, TextTypes
<1> QED
  BY <1>1, <1>2, <1>3, <1>4, <1>5 DEF TextNext, RulesNext, PromptsNext

-----------------------------------------------------------------------------
(* All services.                                                           *)

IInv == UsageInv /\ InvoiceInv /\ PageInv /\ TestInv /\ ScheduleInv /\ LogInv /\ TextTypes

\* A step of the services is a step of each of them, or leaves it alone.
LEMMA ServicesStep ==
  ASSUME [Next]_vars
  PROVE  /\ [BillingNext]_billingVars /\ [PageNext]_pageVars /\ [TestNext]_testVars
         /\ [SchedulesNext]_scheduleVars /\ [LogNext]_logVars /\ [TextNext]_textVars
<1>1. CASE UNCHANGED vars
  BY <1>1 DEF vars, growthVars
<1>2. CASE part = "billing" /\ BillingNext /\ UNCHANGED <<growthVars, scheduleVars, logVars, textVars>>
  BY <1>2 DEF growthVars
<1>3. CASE GrowthNext /\ UNCHANGED <<billingVars, scheduleVars, logVars, textVars>>
  <2>1. CASE PageNext
    <3>1. UNCHANGED testVars
      BY <2>1 DEF PageNext, CreateLandingPage, UpdateLandingPage, GetPage, RecordPageView, RecordConversion
    <3> QED
      BY <1>3, <2>1, <3>1
  <2>2. CASE TestNext
    <3>1. UNCHANGED pageVars
      BY <2>2 DEF TestNext, AssignVariant, RecordABTestConversion, DeclareWinner
    <3> QED
      BY <1>3, <2>2, <3>1
  <2>3. CASE CampaignNext
    <3>1. UNCHANGED <<pageVars, testVars>>
      BY <2>3 DEF CampaignNext, CreateCampaign, ActivateCampaign, RecordCampaignMetrics,
                  CreateViralLoop, TriggerViralLoop
    <3> QED
      BY <1>3, <3>1
  <2> QED
    BY <1>3, <2>1, <2>2, <2>3 DEF GrowthNext
<1>4. CASE part = "schedules" /\ SchedulesNext /\ UNCHANGED <<billingVars, growthVars, logVars, textVars>>
  BY <1>4 DEF growthVars
<1>5. CASE part = "log" /\ LogNext /\ UNCHANGED <<billingVars, growthVars, scheduleVars, textVars>>
  BY <1>5 DEF growthVars
<1>6. CASE TextNext /\ UNCHANGED <<billingVars, growthVars, scheduleVars, logVars>>
  BY <1>6 DEF growthVars
<1> QED
  BY <1>1, <1>2, <1>3, <1>4, <1>5, <1>6 DEF Next

\* The services keep their invariants, whichever of them moves (billing/, growth/,
\* schedule-registry.ts, the execution log of the deterministic engine).
THEOREM ServicesInvariant == Spec => []IInv
<1>1. Init => IInv
  <2> SUFFICES ASSUME Init PROVE IInv
    OBVIOUS
  <2>1. BillingInit /\ GrowthInit /\ SchedulesInit /\ LogInit /\ PromptsInit
    BY DEF Init
  <2> QED
    BY <2>1, UsageInitial, InvoicesInitial, PagesInitial, TestInitial, SchedulesInitial, LogInitial,
       TextsInitial DEF IInv
<1>2. IInv /\ [Next]_vars => IInv'
  <2> SUFFICES ASSUME IInv, [Next]_vars PROVE IInv'
    OBVIOUS
  <2>1. /\ [BillingNext]_billingVars /\ [PageNext]_pageVars /\ [TestNext]_testVars
        /\ [SchedulesNext]_scheduleVars /\ [LogNext]_logVars /\ [TextNext]_textVars
    BY ServicesStep
  <2>2. UsageInv' /\ InvoiceInv'
    BY <2>1, UsageStep, InvoiceStep DEF IInv
  <2>3. PageInv' /\ TestInv'
    BY <2>1, PageStep, TestStep DEF IInv
  <2>4. ScheduleInv' /\ LogInv' /\ TextTypes'
    BY <2>1, ScheduleStep, LogStep, TextStep DEF IInv
  <2> QED
    BY <2>2, <2>3, <2>4 DEF IInv
<1> QED
  BY <1>1, <1>2, PTL DEF Spec

\* Whatever a run was told, its usage is in the books, once (billing/controller.ts:
\* recordTaskUsage() stores before it enforces a limit).
THEOREM StoredOnce == Spec => []UsageIsStored
<1>1. IInv => UsageIsStored
  BY DEF IInv, UsageInv
<1> QED
  BY <1>1, ServicesInvariant, PTL

\* An invoice charges what its records cost at rates its tenant had, credits left
\* out, within half a cent per record, whatever was stored by POST /usage, whatever
\* rates tiers were registered with, and although tiers, rates and clients change
\* between its items (billing/stripe.ts, createInvoice()).
THEOREM InvoicesCoverTheBill == Spec => []InvoiceCoversTheBill
<1>1. IInv => InvoiceCoversTheBill
  BY SoundInvoiceIsNear DEF IInv
<1> QED
  BY <1>1, ServicesInvariant, PTL

\* No view of a landing page is lost unless a PATCH renames the page between the
\* two steps of GET /pages/:slug (growth engine, recordPageView()).
THEOREM ViewsAreCounted == Spec => []ViewsAreLostToRenames
<1>1. IInv => ViewsAreLostToRenames
  BY DEF IInv, PageInv
<1> QED
  BY <1>1, ServicesInvariant, PTL

\* The winner of an A/B test has the highest rate of the counts so far, unless a
\* conversion came in after it was named (growth engine, declareWinner()).
THEOREM BestVariantWins == Spec => []WinnerIsBest
<1>1. IInv => WinnerIsBest
  BY DEF IInv, TestInv
<1> QED
  BY <1>1, ServicesInvariant, PTL

\* However ticks overlap and callbacks delay them, the events of a registration do
\* not get ahead of its interval (schedule-registry.ts, tick() claims before its
\* callback; event-bus.ts stamps events when they are emitted).
THEOREM FiringsKeepThePace == Spec => []FiringsKeepPace
<1>1. IInv => FiringsKeepPace
  BY PacedInTime DEF IInv
<1> QED
  BY <1>1, ServicesInvariant, PTL

\* Who has a receipt finds it in the log or in a rotated file, unless another
\* rotation of the same millisecond took that file's name, across rotations by any
\* number of engines, failing renames and crashes (execution-log.ts, append()).
THEOREM ReceiptsSurvive == Spec => []ReceiptsAreOnDisk
<1>1. IInv => ReceiptsAreOnDisk
  BY DEF IInv, LogInv
<1> QED
  BY <1>1, ServicesInvariant, PTL

\* The log that engines share is bounded by what they count together, and a line
\* for every time that a rotation was due and failed (execution-log.ts, persistEntry()).
THEOREM SharedLogIsBounded == Spec => []LogIsBounded
<1>1. IInv => LogIsBounded
  BY LogInvBoundsTheFile DEF IInv
<1> QED
  BY <1>1, ServicesInvariant, PTL

\* What an engine verified once, it verifies until its process ends (the verifier
\* takes the first entry of a run id).
THEOREM VerdictsStand == Spec => VerifiedStaysVerified
<1>1. IInv /\ [Next]_vars =>
        [up' => \A e \in Engines, x \in Execs, out \in Outputs :
           Verifies(e, RunId[x], out) => Verifies(e, RunId[x], out)']_logVars
  <2> SUFFICES ASSUME IInv, [Next]_vars, up', NEW e \in Engines, NEW x \in Execs, NEW out \in Outputs,
                      Verifies(e, RunId[x], out)
               PROVE  Verifies(e, RunId[x], out)'
    OBVIOUS
  <2>1. LogInv /\ [LogNext]_logVars
    BY ServicesStep DEF IInv
  <2>2. PICK id : id = RunId[x]
    OBVIOUS
  <2>3. Verifies(e, id, out)'
    BY <2>1, <2>2, LogVerifies
  <2> QED
    BY <2>2, <2>3
<1> QED
  BY <1>1, ServicesInvariant, PTL DEF Spec, VerifiedStaysVerified

\* Rules follow what implies them and fragments what they depend on, but for circles,
\* and every rule of a document is evaluated, whatever graph a user wrote
\* (rule-graph.ts, topologicalOrder(); recursive-prompt-system.ts, resolveFragmentOrder()).
THEOREM OrdersAreRespected == Spec => []OrdersRespectEdges
<1>1. IInv => OrdersRespectEdges
  BY TextsAreOrdered DEF IInv
<1> QED
  BY <1>1, ServicesInvariant, PTL

\* With fewer variables than the limit, what is left of a text, or of the fragments of
\* a prompt, are its references to what is not set and a mark on circles
\* (prompt-memory.ts, resolveRecursive(), with what it has seen and its depth).
THEOREM ReferencesResolve == Spec => []ReferencesAreResolved
<1>1. IInv => ReferencesAreResolved
  BY TextsAreResolved DEF IInv
<1> QED
  BY <1>1, ServicesInvariant, PTL

=============================================================================
