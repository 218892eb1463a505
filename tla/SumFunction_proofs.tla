--------------------------- MODULE SumFunction_proofs ---------------------------
(***************************************************************************)
(* Sums of the values of a function over a finite set: what the totals the *)
(* tokens keep (_totalSupply) are compared with.                           *)
(*                                                                         *)
(* SumFunction is a fold, hence a recursive function over the subsets of   *)
(* the domain.  That this function exists, and every fact about it, is     *)
(* proved by descent: were there a subset of which the fact is false,      *)
(* there would be a smallest one (SmallestSubset), and the fact would hold *)
(* of all that is left when one element is taken out of it.  The element   *)
(* taken out depends on the set alone, so that the sums of two functions   *)
(* are taken in the same order.                                            *)
(***************************************************************************)
EXTENDS Functions, FiniteSets, FiniteSetTheorems, TLAPS

\* The element a fold takes out of a set first.
Taken(s) == CHOOSE x \in s : TRUE
Rest(s) == s \ {Taken(s)}

\* g maps every subset of S to the sum of f over it.
IsSumOf(g, f, S) ==
  g = [s \in SUBSET S |-> IF s = {} THEN 0 ELSE f[Taken(s)] + g[Rest(s)]]

Sums(f, S) == CHOOSE g : IsSumOf(g, f, S)

(***************************************************************************)
(* The recursion                                                           *)
(***************************************************************************)

\* A non-empty set of subsets of a finite set has a smallest member.
LEMMA SmallestSubset ==
  ASSUME NEW S, IsFiniteSet(S), NEW T, T \subseteq SUBSET S, T # {}
  PROVE  \E t \in T : \A u \in T : u \subseteq t => u = t
<1>1. FiniteSubsetsOf(S) = SUBSET S BY FS_FiniteSubsetsOfFinite
<1>2. IsWellFoundedOn(StrictSubsetOrdering(S), SUBSET S)
  BY <1>1, FS_StrictSubsetOrderingWellFounded
<1>3. \E t \in T : \A u \in T : ~(<<u, t>> \in StrictSubsetOrdering(S))
  BY <1>2, WFMin
<1> QED BY <1>3 DEF StrictSubsetOrdering

\* The rest of a set that is not empty lacks exactly the element taken out.
LEMMA RestIsSmaller ==
  ASSUME NEW s, s # {}
  PROVE  Taken(s) \in s /\ Rest(s) \subseteq s /\ Rest(s) # s
BY DEF Taken, Rest

\* The library's sum is such a sum, where the recursion has a solution.
LEMMA SumUnfolds ==
  ASSUME NEW f, NEW S PROVE SumFunctionOnSet(f, S) = Sums(f, S)[S]
BY DEF SumFunctionOnSet, FoldFunctionOnSet, MapThenFoldSet, Sums, IsSumOf, Rest, Taken

\* Solutions for two sets agree on the subsets of both.
LEMMA SumsAgree ==
  ASSUME NEW f, NEW S, NEW T, IsFiniteSet(S), NEW g, NEW h,
         IsSumOf(g, f, S), IsSumOf(h, f, T),
         NEW u \in SUBSET S, u \in SUBSET T
  PROVE  g[u] = h[u]
<1> DEFINE Bad == {s \in SUBSET S : s \in SUBSET T /\ g[s] # h[s]}
<1>1. SUFFICES ASSUME Bad # {} PROVE FALSE OBVIOUS
<1>2. PICK t \in Bad : \A s \in Bad : s \subseteq t => s = t
  <2>1. Bad \subseteq SUBSET S OBVIOUS
  <2> HIDE DEF Bad
  <2> QED BY <1>1, <2>1, SmallestSubset
<1>3. CASE t = {} BY <1>3 DEF IsSumOf
<1>4. CASE t # {}
  <2>1. Rest(t) \subseteq t /\ Rest(t) \notin Bad BY <1>2, <1>4, RestIsSmaller
  <2>2. g[Rest(t)] = h[Rest(t)] BY <2>1
  <2>3. g[t] = f[Taken(t)] + g[Rest(t)] BY <1>4 DEF IsSumOf
  <2>4. h[t] = f[Taken(t)] + h[Rest(t)] BY <1>4 DEF IsSumOf
  <2> QED BY <2>2, <2>3, <2>4
<1> QED BY <1>3, <1>4

\* The recursion has a solution: the one for a set is built from those for its
\* smaller subsets, which agree with one another.
LEMMA SumsExist == ASSUME NEW f, NEW S, IsFiniteSet(S) PROVE \E g : IsSumOf(g, f, S)
<1> DEFINE Bad == {s \in SUBSET S : ~\E g : IsSumOf(g, f, s)}
<1>1. SUFFICES ASSUME Bad # {} PROVE FALSE OBVIOUS
<1>2. PICK t \in Bad : \A s \in Bad : s \subseteq t => s = t
  <2>1. Bad \subseteq SUBSET S OBVIOUS
  <2> HIDE DEF Bad
  <2> QED BY <1>1, <2>1, SmallestSubset
<1> DEFINE below(u) == Sums(f, u)[u]
           g == [u \in SUBSET t |-> IF u = {} THEN 0 ELSE f[Taken(u)] + below(Rest(u))]
<1>3. ASSUME NEW u \in SUBSET t, u # t PROVE IsSumOf(Sums(f, u), f, u)
  <2>1. \E h : IsSumOf(h, f, u) BY <1>2, <1>3
  <2> QED BY <2>1 DEF Sums
<1>4. ASSUME NEW u \in SUBSET t, u # t PROVE g[u] = below(u)
  <2>1. IsSumOf(Sums(f, u), f, u) BY <1>3, <1>4
  <2>2. CASE u = {} BY <2>1, <2>2 DEF IsSumOf
  <2>3. CASE u # {}
    <3>1. Rest(u) \in SUBSET u /\ Rest(u) \in SUBSET t /\ Rest(u) # t
      BY <2>3, RestIsSmaller
    <3>2. IsSumOf(Sums(f, Rest(u)), f, Rest(u)) BY <1>3, <3>1
    <3>3. below(u) = f[Taken(u)] + Sums(f, u)[Rest(u)] BY <2>1, <2>3 DEF IsSumOf
    <3>4. IsFiniteSet(u) BY FS_Subset
    <3>5. Sums(f, u)[Rest(u)] = below(Rest(u)) BY <2>1, <3>1, <3>2, <3>4, SumsAgree
    <3> QED BY <2>3, <3>3, <3>5
  <2> QED BY <2>2, <2>3
<1>5. ASSUME NEW u \in SUBSET t, u # {} PROVE g[u] = f[Taken(u)] + g[Rest(u)]
  <2>1. Rest(u) \in SUBSET t /\ Rest(u) # t BY <1>5, RestIsSmaller
  <2>2. g[Rest(u)] = below(Rest(u)) BY <1>4, <2>1
  <2>3. g[u] = f[Taken(u)] + below(Rest(u)) BY <1>5
  <2> QED BY <2>2, <2>3
<1>6. IsSumOf(g, f, t)
  <2>1. g[{}] = 0 /\ g = [u \in SUBSET t |-> g[u]] OBVIOUS
  <2> HIDE DEF g
  <2> QED BY <1>5, <2>1 DEF IsSumOf
<1> QED BY <1>2, <1>6

\* The recursion equation.
LEMMA SumsRecursion ==
  ASSUME NEW f, NEW S, IsFiniteSet(S)
  PROVE  /\ Sums(f, S)[{}] = 0
         /\ \A s \in SUBSET S :
              s # {} => Sums(f, S)[s] = f[Taken(s)] + Sums(f, S)[Rest(s)]
<1>1. IsSumOf(Sums(f, S), f, S) BY SumsExist DEF Sums
<1> QED BY <1>1 DEF IsSumOf

(***************************************************************************)
(* Sums over the subsets of a domain                                       *)
(***************************************************************************)

\* Sums of integers are integers.
LEMMA SumsInt ==
  ASSUME NEW S, IsFiniteSet(S), NEW f \in [S -> Int], NEW s \in SUBSET S
  PROVE  Sums(f, S)[s] \in Int
<1> DEFINE g   == Sums(f, S)
           Bad == {t \in SUBSET S : g[t] \notin Int}
<1>1. SUFFICES ASSUME Bad # {} PROVE FALSE OBVIOUS
<1>2. PICK t \in Bad : \A u \in Bad : u \subseteq t => u = t
  <2>1. Bad \subseteq SUBSET S OBVIOUS
  <2> HIDE DEF Bad
  <2> QED BY <1>1, <2>1, SmallestSubset
<1>3. t # {} BY <1>2, SumsRecursion
<1>4. g[Rest(t)] \in Int BY <1>2, <1>3, RestIsSmaller
<1>5. f[Taken(t)] \in Int BY <1>3, RestIsSmaller
<1>6. g[t] = f[Taken(t)] + g[Rest(t)] BY <1>3, SumsRecursion
<1> HIDE DEF g
<1> QED BY <1>2, <1>4, <1>5, <1>6

\* When one value changes, the sums over the sets it belongs to change by as much,
\* and no other sum does.
LEMMA SumsChange ==
  ASSUME NEW S, IsFiniteSet(S), NEW f \in [S -> Int], NEW h \in [S -> Int], NEW a \in S,
         \A b \in S \ {a} : h[b] = f[b],
         NEW s \in SUBSET S
  PROVE  Sums(h, S)[s] =
           IF a \in s THEN Sums(f, S)[s] + (h[a] - f[a]) ELSE Sums(f, S)[s]
<1> DEFINE F == Sums(f, S)
           H == Sums(h, S)
           Right(t) == H[t] = IF a \in t THEN F[t] + (h[a] - f[a]) ELSE F[t]
           Bad == {t \in SUBSET S : ~Right(t)}
<1>1. SUFFICES ASSUME Bad # {} PROVE FALSE OBVIOUS
<1>2. PICK t \in Bad : \A u \in Bad : u \subseteq t => u = t
  <2>1. Bad \subseteq SUBSET S OBVIOUS
  <2> HIDE DEF Bad
  <2> QED BY <1>1, <2>1, SmallestSubset
<1> DEFINE p == Taken(t)
           r == Rest(t)
<1>3. t # {} BY <1>2, SumsRecursion
<1>4. p \in t /\ r \in SUBSET S BY <1>3, RestIsSmaller
<1>5. Right(r) BY <1>2, <1>3, RestIsSmaller
<1>6. F[t] = f[p] + F[r] /\ H[t] = h[p] + H[r] BY <1>3, SumsRecursion
<1>7. F[r] \in Int /\ H[r] \in Int BY <1>4, SumsInt
<1>8. f[p] \in Int /\ h[p] \in Int /\ f[a] \in Int /\ h[a] \in Int BY <1>4
<1>9. a \in r <=> a \in t /\ p # a BY DEF Rest
<1>10. p # a => h[p] = f[p] BY <1>4
<1> HIDE DEF F, H
<1>11. CASE p = a
  <2>1. H[r] = F[r] BY <1>5, <1>9, <1>11
  <2> QED BY <1>2, <1>4, <1>6, <1>7, <1>8, <1>11, <2>1
<1>12. CASE p # a
  BY <1>2, <1>5, <1>6, <1>7, <1>8, <1>9, <1>10, <1>12
<1> QED BY <1>11, <1>12

\* Whichever element is taken out of a set, the sum is its value and the rest's.
LEMMA SumsAnyOrder ==
  ASSUME NEW S, IsFiniteSet(S), NEW f \in [S -> Int], NEW s \in SUBSET S, NEW a \in s
  PROVE  Sums(f, S)[s] = f[a] + Sums(f, S)[s \ {a}]
<1> DEFINE g == Sums(f, S)
           Bad == {t \in SUBSET S : \E b \in t : g[t] # f[b] + g[t \ {b}]}
<1>1. SUFFICES ASSUME Bad # {} PROVE FALSE OBVIOUS
<1>2. PICK t \in Bad : \A u \in Bad : u \subseteq t => u = t
  <2>1. Bad \subseteq SUBSET S OBVIOUS
  <2> HIDE DEF Bad
  <2> QED BY <1>1, <2>1, SmallestSubset
<1>3. PICK b \in t : g[t] # f[b] + g[t \ {b}] BY <1>2
<1> DEFINE p == Taken(t)
<1>4. p \in t /\ g[t] = f[p] + g[t \ {p}] /\ p # b
  <2>1. t # {} BY <1>3
  <2>2. p \in t BY <2>1, RestIsSmaller
  <2>3. g[t] = f[p] + g[t \ {p}] BY <2>1, SumsRecursion DEF Rest
  <2> HIDE DEF g, p
  <2> QED BY <1>3, <2>2, <2>3
<1> HIDE DEF p
<1>5. ASSUME NEW x \in t, NEW y \in t \ {x}
      PROVE  g[t \ {x}] = f[y] + g[(t \ {x}) \ {y}]
  <2>1. t \ {x} \in SUBSET S /\ t \ {x} \notin Bad BY <1>2
  <2> QED BY <2>1
<1>6. g[t \ {p}] = f[b] + g[(t \ {p}) \ {b}] BY <1>3, <1>4, <1>5
<1>7. g[t \ {b}] = f[p] + g[(t \ {b}) \ {p}] BY <1>3, <1>4, <1>5
<1>8. (t \ {p}) \ {b} = (t \ {b}) \ {p} OBVIOUS
<1>9. f[p] \in Int /\ f[b] \in Int BY <1>3, <1>4
<1> DEFINE rest == g[(t \ {p}) \ {b}]
<1>10. rest \in Int BY SumsInt
<1>11. g[t] = f[p] + (f[b] + rest) BY <1>4, <1>6
<1>12. g[t \ {b}] = f[p] + rest BY <1>7, <1>8
<1>13. g[t] # f[b] + (f[p] + rest) BY <1>3, <1>12
<1> HIDE DEF rest
<1> QED BY <1>9, <1>10, <1>11, <1>13

(***************************************************************************)
(* SumFunction                                                             *)
(***************************************************************************)

\* The sum over a whole domain.
LEMMA SumWhole ==
  ASSUME NEW S, NEW T, NEW f \in [S -> T] PROVE SumFunction(f) = Sums(f, S)[S]
BY SumUnfolds DEF SumFunction

\* A sum of integers is an integer.
LEMMA SumInt ==
  ASSUME NEW S, IsFiniteSet(S), NEW f \in [S -> Int] PROVE SumFunction(f) \in Int
BY SumWhole, SumsInt

\* When one value changes, the sum changes by as much.
LEMMA SumChange ==
  ASSUME NEW S, IsFiniteSet(S), NEW f \in [S -> Int], NEW h \in [S -> Int], NEW a \in S,
         \A b \in S \ {a} : h[b] = f[b]
  PROVE  SumFunction(h) = SumFunction(f) + (h[a] - f[a])
<1>1. SumFunction(f) = Sums(f, S)[S] /\ SumFunction(h) = Sums(h, S)[S] BY SumWhole
<1> QED BY <1>1, SumsChange

\* A sum of nothings is nothing.
LEMMA SumZero ==
  ASSUME NEW S, IsFiniteSet(S) PROVE SumFunction([a \in S |-> 0]) = 0
<1> DEFINE f   == [a \in S |-> 0]
           g   == Sums(f, S)
           Bad == {t \in SUBSET S : g[t] # 0}
<1>1. f \in [S -> Int] OBVIOUS
<1>2. ASSUME Bad # {} PROVE FALSE
  <2>1. PICK t \in Bad : \A u \in Bad : u \subseteq t => u = t
    <3>1. Bad \subseteq SUBSET S OBVIOUS
    <3> HIDE DEF Bad
    <3> QED BY <1>2, <3>1, SmallestSubset
  <2>2. t # {} BY <2>1, SumsRecursion
  <2>3. g[Rest(t)] = 0 BY <2>1, <2>2, RestIsSmaller
  <2>4. f[Taken(t)] = 0 BY <2>2, RestIsSmaller
  <2>5. g[t] = f[Taken(t)] + g[Rest(t)] BY <2>2, SumsRecursion
  <2> HIDE DEF g
  <2> QED BY <2>1, <2>3, <2>4, <2>5
<1>3. g[S] = 0 BY <1>2
<1> HIDE DEF f
<1> QED BY <1>1, <1>3, SumWhole DEF f

\* A sum of naturals is a natural and at least as large as each of them.
LEMMA SumNat ==
  ASSUME NEW S, IsFiniteSet(S), NEW f \in [S -> Nat]
  PROVE  /\ SumFunction(f) \in Nat
         /\ \A a \in S : f[a] <= SumFunction(f)
<1> DEFINE g == Sums(f, S)
           Right(t) == g[t] \in Nat /\ \A a \in t : f[a] <= g[t]
           Bad == {t \in SUBSET S : ~Right(t)}
<1>1. f \in [S -> Int] OBVIOUS
<1>2. ASSUME Bad # {} PROVE FALSE
  <2>1. PICK t \in Bad : \A u \in Bad : u \subseteq t => u = t
    <3>1. Bad \subseteq SUBSET S OBVIOUS
    <3> HIDE DEF Bad
    <3> QED BY <1>2, <3>1, SmallestSubset
  <2>2. t # {}
    <3>1. g[{}] = 0 BY SumsRecursion
    <3>2. Right({}) BY <3>1
    <3> QED BY <2>1, <3>2
  <2>3. Right(Rest(t)) BY <2>1, <2>2, RestIsSmaller
  <2>4. Taken(t) \in t /\ f[Taken(t)] \in Nat BY <2>2, RestIsSmaller
  <2>5. g[t] = f[Taken(t)] + g[Rest(t)] BY <2>2, SumsRecursion
  <2> HIDE DEF g
  <2>6. \A a \in t : a = Taken(t) \/ a \in Rest(t) BY DEF Rest
  <2>7. \A a \in t : f[a] \in Nat BY <2>1
  <2>8. g[t] \in Nat BY <2>3, <2>4, <2>5
  <2>9. ASSUME NEW a \in t PROVE f[a] <= g[t]
    <3>1. CASE a = Taken(t) BY <2>3, <2>4, <2>5, <3>1
    <3>2. CASE a \in Rest(t) BY <2>3, <2>4, <2>5, <2>7, <3>2
    <3> QED BY <2>6, <3>1, <3>2
  <2> QED BY <2>1, <2>8, <2>9
<1>3. Right(S) BY <1>2
<1> QED BY <1>1, <1>3, SumWhole

\* One element more adds its value to the sum over a part of the domain.
LEMMA SumAdds ==
  ASSUME NEW S, IsFiniteSet(S), NEW f \in [S -> Int], NEW s \in SUBSET S, NEW a \in S \ s
  PROVE  SumFunctionOnSet(f, s \cup {a}) = SumFunctionOnSet(f, s) + f[a]
<1>1. ASSUME NEW t \in SUBSET S PROVE SumFunctionOnSet(f, t) = Sums(f, S)[t]
  <2>1. IsFiniteSet(t) BY FS_Subset
  <2>2. IsSumOf(Sums(f, S), f, S) BY SumsExist DEF Sums
  <2>3. IsSumOf(Sums(f, t), f, t) BY <2>1, SumsExist DEF Sums
  <2>4. SumFunctionOnSet(f, t) = Sums(f, t)[t] BY SumUnfolds
  <2> QED BY <2>1, <2>2, <2>3, <2>4, SumsAgree
<1> DEFINE u == s \cup {a}
<1>2. u \in SUBSET S /\ a \in u /\ u \ {a} = s OBVIOUS
<1> HIDE DEF u
<1>3. Sums(f, S)[u] = f[a] + Sums(f, S)[u \ {a}] BY <1>2, SumsAnyOrder
<1>4. Sums(f, S)[s] \in Int /\ f[a] \in Int BY SumsInt
<1>5. SumFunctionOnSet(f, u) = Sums(f, S)[u] BY <1>1, <1>2
<1>6. SumFunctionOnSet(f, s) = Sums(f, S)[s] BY <1>1
<1>7. Sums(f, S)[u \ {a}] = Sums(f, S)[s] BY <1>2
<1>8. SumFunctionOnSet(f, u) = SumFunctionOnSet(f, s) + f[a]
  BY <1>3, <1>4, <1>5, <1>6, <1>7
<1> QED BY <1>8 DEF u

\* A sum over nothing is nothing.
LEMMA SumOfNone == ASSUME NEW f PROVE SumFunctionOnSet(f, {}) = 0
<1>1. IsFiniteSet({}) BY FS_EmptySet
<1>2. Sums(f, {})[{}] = 0 BY <1>1, SumsRecursion
<1> QED BY <1>2, SumUnfolds
===============================================================================
