------------------------------ MODULE SetLemmas ------------------------------
(***************************************************************************)
(* What the proofs need of finite sets and of folds: the least and the     *)
(* greatest element of a set of naturals (lowest ids, locks taken in id    *)
(* order, newest runs); sums, as SumFunction computes them by picking an   *)
(* element, adding its value and going on without it; and folds over the   *)
(* places of a sequence.  Each recursion has one solution, by looking at a *)
(* least counterexample, and the sum is the same in whatever order it is   *)
(* taken.                                                                  *)
(***************************************************************************)
EXTENDS Integers, FiniteSets, FiniteSetsExt, TLAPS, FiniteSetTheorems,
        WellFoundedInduction

-----------------------------------------------------------------------------
(* Sets of naturals *)

\* The least element of a set of naturals is one of them, below all others.
LEMMA MinIn ==
    ASSUME NEW T, T \subseteq Nat, T # {}
    PROVE  /\ Min(T) \in T
           /\ \A y \in T : Min(T) <= y
<1> DEFINE Below(x) == {y \in T : y < x}
           C == {Below(x) : x \in T}
           R == StrictSubsetOrdering(Nat)
<1>1. \A y \in T : y \in Nat
  OBVIOUS
<1>2. ASSUME NEW x \in T PROVE Below(x) \in FiniteSubsetsOf(Nat)
  <2>1. IsFiniteSet(0 .. x)
    BY <1>1, FS_Interval
  <2>2. ASSUME NEW y \in Below(x) PROVE y \in 0 .. x
    BY <1>1
  <2>3. Below(x) \subseteq 0 .. x
    <3> HIDE DEF Below
    <3> QED  BY <2>2
  <2>4. Below(x) \subseteq Nat
    BY <1>1
  <2> HIDE DEF Below
  <2> QED  BY <2>1, <2>3, <2>4, FS_Subset DEF FiniteSubsetsOf
<1>3. C \subseteq FiniteSubsetsOf(Nat) /\ C # {}
  <2> HIDE DEF Below
  <2> QED  BY <1>2
<1>4. IsWellFoundedOn(R, FiniteSubsetsOf(Nat))
  BY FS_StrictSubsetOrderingWellFounded
<1>5. \E c \in C : \A d \in C : ~(<<d, c>> \in R)
  <2> HIDE DEF C, R
  <2> QED  BY <1>3, <1>4, WFMin
<1>6. PICK x \in T : \A d \in C : ~(<<d, Below(x)>> \in R)
  BY <1>5
<1>7. ASSUME NEW y \in T, y < x PROVE FALSE
  <2>1. y \in Below(x) /\ y \notin Below(y)
    BY <1>1, <1>7
  <2>2. ASSUME NEW z \in Below(y) PROVE z \in Below(x)
    BY <1>1, <1>7
  <2>3. Below(y) \in SUBSET Nat /\ Below(x) \in SUBSET Nat
    BY <1>1
  <2>4. Below(y) \in C
    OBVIOUS
  <2>5. <<Below(y), Below(x)>> \in R
    <3> HIDE DEF Below
    <3> QED  BY <2>1, <2>2, <2>3 DEF StrictSubsetOrdering
  <2> HIDE DEF C, R, Below
  <2> QED  BY <2>4, <2>5, <1>6
<1>8. \A y \in T : x <= y
  BY <1>1, <1>7
<1> QED  BY <1>8 DEF Min

\* The greatest element is the one above all others.
LEMMA MaxIs ==
    ASSUME NEW T, T \subseteq Nat, NEW m \in T, \A y \in T : y <= m
    PROVE  Max(T) = m
<1>1. m \in T /\ \A y \in T : m >= y
  OBVIOUS
<1>2. /\ Max(T) \in T
      /\ \A y \in T : Max(T) >= y
  BY <1>1 DEF Max
<1>3. m \in Nat /\ Max(T) \in Nat /\ Max(T) <= m /\ Max(T) >= m
  BY <1>2
<1> QED  BY <1>3

\* A finite set of naturals that is not empty has a greatest element.
LEMMA GreatestExists ==
    ASSUME NEW T, T \subseteq Nat, T # {}, IsFiniteSet(T)
    PROVE  \E x \in T : \A y \in T : y <= x
<1> DEFINE Above(x) == {y \in T : y > x}
           C == {Above(x) : x \in T}
           R == StrictSubsetOrdering(T)
<1>1. \A y \in T : y \in Nat
  OBVIOUS
<1>2. ASSUME NEW x \in T PROVE Above(x) \in FiniteSubsetsOf(T)
  <2>1. Above(x) \subseteq T
    OBVIOUS
  <2> HIDE DEF Above
  <2> QED  BY <2>1, FS_Subset DEF FiniteSubsetsOf
<1>3. C \subseteq FiniteSubsetsOf(T) /\ C # {}
  <2> HIDE DEF Above
  <2> QED  BY <1>2
<1>4. IsWellFoundedOn(R, FiniteSubsetsOf(T))
  BY FS_StrictSubsetOrderingWellFounded
<1>5. \E c \in C : \A d \in C : ~(<<d, c>> \in R)
  <2> HIDE DEF C, R
  <2> QED  BY <1>3, <1>4, WFMin
<1>6. PICK x \in T : \A d \in C : ~(<<d, Above(x)>> \in R)
  BY <1>5
<1>7. ASSUME NEW y \in T, y > x PROVE FALSE
  <2>1. y \in Above(x) /\ y \notin Above(y)
    BY <1>1, <1>7
  <2>2. ASSUME NEW z \in Above(y) PROVE z \in Above(x)
    BY <1>1, <1>7
  <2>3. Above(y) \in SUBSET T /\ Above(x) \in SUBSET T
    OBVIOUS
  <2>4. Above(y) \in C
    OBVIOUS
  <2>5. <<Above(y), Above(x)>> \in R
    <3> HIDE DEF Above
    <3> QED  BY <2>1, <2>2, <2>3 DEF StrictSubsetOrdering
  <2> HIDE DEF C, R, Above
  <2> QED  BY <2>4, <2>5, <1>6
<1> QED  BY <1>1, <1>7

-----------------------------------------------------------------------------
(* Sums *)

Pick(s) == CHOOSE x \in s : TRUE
Term(f, g, s) == IF s = {} THEN 0 ELSE f[Pick(s)] + g[s \ {Pick(s)}]
Solves(f, g, S) == g = [s \in SUBSET S |-> Term(f, g, s)]
Sum(f, S) == (CHOOSE g : Solves(f, g, S))[S]

\* A property of subsets that fails somewhere fails at a least one.
LEMMA LeastBad ==
    ASSUME NEW S, IsFiniteSet(S), NEW B, B \subseteq SUBSET S, B # {}
    PROVE  \E s \in B : \A t \in SUBSET s : t \in B => t = s
<1>. DEFINE R == StrictSubsetOrdering(S)
<1>1. IsWellFoundedOn(R, FiniteSubsetsOf(S))
  BY FS_StrictSubsetOrderingWellFounded
<1>2. B \subseteq FiniteSubsetsOf(S)
  BY FS_Subset DEF FiniteSubsetsOf
<1>3. PICK s \in B : \A t \in B : ~(<<t, s>> \in R)
  <2>. HIDE DEF R
  <2>. QED BY <1>1, <1>2, WFMin
<1>4. ASSUME NEW t \in SUBSET s, t \in B, t # s PROVE FALSE
  <2>1. <<t, s>> \in R
    BY <1>4 DEF StrictSubsetOrdering
  <2>. QED BY <1>3, <1>4, <2>1
<1>. QED BY <1>3, <1>4

LEMMA PickIn == ASSUME NEW s, s # {} PROVE Pick(s) \in s
BY DEF Pick

\* Two solutions of the recursion agree where both are defined.
LEMMA SolutionsAgree ==
    ASSUME NEW f, NEW S, IsFiniteSet(S), NEW T \in SUBSET S,
           NEW g, NEW h, Solves(f, g, S), Solves(f, h, T)
    PROVE  g[T] = h[T]
<1>. DEFINE B == {s \in SUBSET T : g[s] # h[s]}
<1>1. IsFiniteSet(T)
  BY FS_Subset
<1>2. ASSUME B # {} PROVE FALSE
  <2>1. PICK s \in B : \A t \in SUBSET s : t \in B => t = s
    <3>1. B \subseteq SUBSET T
      OBVIOUS
    <3>. HIDE DEF B
    <3>. QED BY <1>1, <1>2, <3>1, LeastBad
  <2>2. s \in SUBSET T /\ s \in SUBSET S /\ g[s] # h[s]
    OBVIOUS
  <2>3. g[s] = Term(f, g, s) /\ h[s] = Term(f, h, s)
    BY <2>2 DEF Solves
  <2>4. s # {}
    BY <2>2, <2>3 DEF Term
  <2>5. PICK u : u = s \ {Pick(s)}
    OBVIOUS
  <2>6. u \in SUBSET s /\ u # s /\ u \in SUBSET T
    BY <2>2, <2>4, <2>5, PickIn
  <2>7. g[u] = h[u]
    BY <2>1, <2>6
  <2>. QED BY <2>2, <2>3, <2>4, <2>5, <2>7 DEF Term
<1>. QED BY <1>2

\* The recursion has a solution.
LEMMA SolutionExists ==
    ASSUME NEW f, NEW S, IsFiniteSet(S)
    PROVE  \E g : Solves(f, g, S)
<1>. DEFINE B == {s \in SUBSET S : ~ \E g : Solves(f, g, s)}
<1>1. ASSUME B # {} PROVE FALSE
  <2>1. PICK s \in B : \A t \in SUBSET s : t \in B => t = s
    <3>1. B \subseteq SUBSET S
      OBVIOUS
    <3>. HIDE DEF B
    <3>. QED BY <1>1, <3>1, LeastBad
  <2>2. s \in SUBSET S /\ ~ \E g : Solves(f, g, s)
    OBVIOUS
  <2>. DEFINE G(u) == CHOOSE g : Solves(f, g, u)
  <2>3. ASSUME NEW u \in SUBSET s, u # s PROVE Solves(f, G(u), u)
    BY <2>1, <2>2, <2>3
  <2>. HIDE DEF G, B
  <2>. DEFINE Val(t) == IF t = {} THEN 0
                        ELSE f[Pick(t)] + G(t \ {Pick(t)})[t \ {Pick(t)}]
              h == [t \in SUBSET s |-> Val(t)]
  <2>4. ASSUME NEW u \in SUBSET s, u # s PROVE h[u] = G(u)[u]
    <3>1. h[u] = Val(u)
      OBVIOUS
    <3>2. G(u)[u] = Term(f, G(u), u)
      BY <2>3, <2>4 DEF Solves
    <3>3. CASE u = {}
      BY <3>1, <3>2, <3>3 DEF Term
    <3>4. CASE u # {}
      <4>1. PICK v : v = u \ {Pick(u)}
        OBVIOUS
      <4>2. v \in SUBSET u /\ v \in SUBSET s /\ v # s
        BY <2>4, <3>4, <4>1, PickIn
      <4>3. Solves(f, G(u), u) /\ Solves(f, G(v), v)
        BY <2>3, <2>4, <4>2
      <4>4. IsFiniteSet(u)
        BY <2>2, FS_Subset
      <4>5. G(u)[v] = G(v)[v]
        BY <4>2, <4>3, <4>4, SolutionsAgree
      <4>. HIDE DEF h
      <4>. QED BY <3>1, <3>2, <3>4, <4>1, <4>5 DEF Term
    <3>. QED BY <3>3, <3>4
  <2>5. ASSUME NEW t \in SUBSET s PROVE Val(t) = Term(f, h, t)
    <3>1. CASE t = {}
      BY <3>1 DEF Term
    <3>2. CASE t # {}
      <4>1. PICK u : u = t \ {Pick(t)}
        OBVIOUS
      <4>2. u \in SUBSET s /\ u # s
        BY <3>2, <4>1, PickIn
      <4>3. h[u] = G(u)[u]
        BY <2>4, <4>2
      <4>. HIDE DEF h
      <4>. QED BY <3>2, <4>1, <4>3 DEF Term
    <3>. QED BY <3>1, <3>2
  <2>6. h = [t \in SUBSET s |-> Term(f, h, t)]
    <3>1. h = [t \in SUBSET s |-> Val(t)]
      OBVIOUS
    <3>. HIDE DEF h, Val
    <3>. QED BY <2>5, <3>1
  <2>. HIDE DEF h
  <2>. QED BY <2>2, <2>6 DEF Solves
<1>2. S \in SUBSET S
  OBVIOUS
<1>. QED BY <1>1, <1>2

LEMMA SumSolves ==
    ASSUME NEW f, NEW S, IsFiniteSet(S), NEW g, Solves(f, g, S)
    PROVE  Sum(f, S) = g[S]
<1>1. Solves(f, CHOOSE h : Solves(f, h, S), S)
  BY SolutionExists
<1>. QED BY <1>1, SolutionsAgree DEF Sum

LEMMA SumIs == ASSUME NEW f PROVE SumFunction(f) = Sum(f, DOMAIN f)
BY DEF SumFunction, SumFunctionOnSet, FoldFunctionOnSet, MapThenFoldSet, Sum,
       Solves, Term, Pick

LEMMA SumEmpty == ASSUME NEW f PROVE Sum(f, {}) = 0
<1>1. IsFiniteSet({})
  BY FS_EmptySet
<1>2. PICK g : Solves(f, g, {})
  BY <1>1, SolutionExists
<1>3. g[{}] = 0
  BY <1>2 DEF Solves, Term
<1>. QED BY <1>1, <1>2, <1>3, SumSolves

LEMMA SumPick ==
    ASSUME NEW f, NEW S, IsFiniteSet(S), S # {}
    PROVE  Sum(f, S) = f[Pick(S)] + Sum(f, S \ {Pick(S)})
<1>1. PICK T : T = S \ {Pick(S)}
  OBVIOUS
<1>2. T \in SUBSET S /\ IsFiniteSet(T)
  BY <1>1, FS_Subset
<1>3. PICK g : Solves(f, g, S)
  BY SolutionExists
<1>4. PICK h : Solves(f, h, T)
  BY <1>2, SolutionExists
<1>5. g[T] = h[T]
  BY <1>2, <1>3, <1>4, SolutionsAgree
<1>6. g[S] = Term(f, g, S)
  BY <1>3 DEF Solves
<1>7. Sum(f, S) = g[S] /\ Sum(f, T) = h[T]
  BY <1>2, <1>3, <1>4, SumSolves
<1>. QED BY <1>1, <1>5, <1>6, <1>7 DEF Term

\* A sum of integers is an integer.
LEMMA SumInt ==
    ASSUME NEW f, NEW S, IsFiniteSet(S), \A x \in S : f[x] \in Int
    PROVE  Sum(f, S) \in Int
<1>. DEFINE B == {s \in SUBSET S : Sum(f, s) \notin Int}
<1>1. ASSUME B # {} PROVE FALSE
  <2>1. PICK s \in B : \A t \in SUBSET s : t \in B => t = s
    <3>1. B \subseteq SUBSET S
      OBVIOUS
    <3>. HIDE DEF B
    <3>. QED BY <1>1, <3>1, LeastBad
  <2>2. s \in SUBSET S /\ IsFiniteSet(s) /\ Sum(f, s) \notin Int
    BY FS_Subset
  <2>3. s # {}
    BY <2>2, SumEmpty
  <2>4. PICK u : u = s \ {Pick(s)}
    OBVIOUS
  <2>5. u \in SUBSET s /\ u # s /\ u \in SUBSET S /\ Pick(s) \in S
    BY <2>2, <2>3, <2>4, PickIn
  <2>6. Sum(f, u) \in Int
    BY <2>1, <2>5
  <2>7. Sum(f, s) = f[Pick(s)] + Sum(f, u)
    BY <2>2, <2>3, <2>4, SumPick
  <2>8. f[Pick(s)] \in Int
    BY <2>5
  <2>. QED BY <2>2, <2>6, <2>7, <2>8
<1>2. S \in SUBSET S
  OBVIOUS
<1>. QED BY <1>1, <1>2

\* Any element may be taken out first.
LEMMA SumWithout ==
    ASSUME NEW f, NEW S, IsFiniteSet(S), \A x \in S : f[x] \in Int,
           NEW x \in S
    PROVE  Sum(f, S) = f[x] + Sum(f, S \ {x})
<1>. DEFINE Fine(s) == \A y \in s : Sum(f, s) = f[y] + Sum(f, s \ {y})
            B == {s \in SUBSET S : ~Fine(s)}
<1>1. ASSUME B # {} PROVE FALSE
  <2>1. PICK s \in B : \A t \in SUBSET s : t \in B => t = s
    <3>1. B \subseteq SUBSET S
      OBVIOUS
    <3>. HIDE DEF B
    <3>. QED BY <1>1, <3>1, LeastBad
  <2>2. s \in SUBSET S /\ IsFiniteSet(s)
    BY FS_Subset
  <2>3. PICK y \in s : Sum(f, s) # f[y] + Sum(f, s \ {y})
    OBVIOUS
  <2>4. \A t \in SUBSET s : t # s => Fine(t)
    BY <2>1, <2>2
  <2>. HIDE DEF B
  <2>5. PICK c : c = Pick(s)
    OBVIOUS
  <2>6. c \in s /\ c \in S /\ y \in S
    BY <2>2, <2>3, <2>5, PickIn
  <2>7. Sum(f, s) = f[c] + Sum(f, s \ {c})
    BY <2>2, <2>3, <2>5, SumPick
  <2>8. c # y
    BY <2>3, <2>7
  <2>9. PICK v : v = (s \ {c}) \ {y}
    OBVIOUS
  <2>10. v = (s \ {y}) \ {c} /\ v \in SUBSET S
    BY <2>2, <2>9
  <2>11. Sum(f, s \ {c}) = f[y] + Sum(f, v)
    <3>1. /\ (s \ {c}) \in SUBSET s /\ s \ {c} # s /\ y \in s \ {c}
      BY <2>3, <2>6, <2>8
    <3>. QED BY <2>4, <2>9, <3>1
  <2>12. Sum(f, s \ {y}) = f[c] + Sum(f, v)
    <3>1. /\ (s \ {y}) \in SUBSET s /\ s \ {y} # s /\ c \in s \ {y}
      BY <2>3, <2>6, <2>8
    <3>. QED BY <2>4, <2>10, <3>1
  <2>13. Sum(f, v) \in Int
    <3>1. IsFiniteSet(v)
      BY <2>10, FS_Subset
    <3>. QED BY <2>10, <3>1, SumInt
  <2>14. f[c] \in Int /\ f[y] \in Int
    BY <2>6
  <2>. QED BY <2>3, <2>7, <2>11, <2>12, <2>13, <2>14
<1>2. Fine(S)
  <2>1. S \in SUBSET S
    OBVIOUS
  <2>. HIDE DEF Fine
  <2>. QED BY <1>1, <2>1
<1>. QED BY <1>2

\* The sum depends on the values at the elements alone.
LEMMA SumSame ==
    ASSUME NEW f, NEW g, NEW S, IsFiniteSet(S), \A x \in S : f[x] = g[x]
    PROVE  Sum(f, S) = Sum(g, S)
<1>. DEFINE B == {s \in SUBSET S : Sum(f, s) # Sum(g, s)}
<1>1. ASSUME B # {} PROVE FALSE
  <2>1. PICK s \in B : \A t \in SUBSET s : t \in B => t = s
    <3>1. B \subseteq SUBSET S
      OBVIOUS
    <3>. HIDE DEF B
    <3>. QED BY <1>1, <3>1, LeastBad
  <2>2. s \in SUBSET S /\ IsFiniteSet(s) /\ Sum(f, s) # Sum(g, s)
    BY FS_Subset
  <2>3. s # {}
    BY <2>2, SumEmpty
  <2>4. PICK u : u = s \ {Pick(s)}
    OBVIOUS
  <2>5. u \in SUBSET s /\ u # s /\ u \in SUBSET S /\ Pick(s) \in S
    BY <2>2, <2>3, <2>4, PickIn
  <2>6. Sum(f, u) = Sum(g, u)
    BY <2>1, <2>5
  <2>7. /\ Sum(f, s) = f[Pick(s)] + Sum(f, u)
        /\ Sum(g, s) = g[Pick(s)] + Sum(g, u)
    BY <2>2, <2>3, <2>4, SumPick
  <2>. QED BY <2>2, <2>5, <2>6, <2>7
<1>2. S \in SUBSET S
  OBVIOUS
<1>. QED BY <1>1, <1>2

\* Elements that count for nothing may be left out.
LEMMA SumOfPart ==
    ASSUME NEW f, NEW S, IsFiniteSet(S), \A x \in S : f[x] \in Int,
           NEW T \in SUBSET S, \A x \in S \ T : f[x] = 0
    PROVE  Sum(f, S) = Sum(f, T)
<1>. DEFINE B == {s \in SUBSET S : Sum(f, s) # Sum(f, s \cap T)}
<1>1. ASSUME B # {} PROVE FALSE
  <2>1. PICK s \in B : \A t \in SUBSET s : t \in B => t = s
    <3>1. B \subseteq SUBSET S
      OBVIOUS
    <3>. HIDE DEF B
    <3>. QED BY <1>1, <3>1, LeastBad
  <2>2. s \in SUBSET S /\ IsFiniteSet(s) /\ Sum(f, s) # Sum(f, s \cap T)
    BY FS_Subset
  <2>3. s # {}
    BY <2>2
  <2>4. PICK c : c = Pick(s)
    OBVIOUS
  <2>5. c \in s /\ c \in S
    BY <2>2, <2>3, <2>4, PickIn
  <2>6. Sum(f, s \ {c}) = Sum(f, (s \ {c}) \cap T)
    <3>1. (s \ {c}) \in SUBSET s /\ s \ {c} # s /\ (s \ {c}) \in SUBSET S
      BY <2>2, <2>5
    <3>. QED BY <2>1, <3>1
  <2>7. Sum(f, s) = f[c] + Sum(f, s \ {c})
    BY <2>2, <2>3, <2>4, SumPick
  <2>8. CASE c \in T
    <3>1. PICK w : w = s \cap T
      OBVIOUS
    <3>2. w \ {c} = (s \ {c}) \cap T /\ c \in w
      BY <2>5, <2>8, <3>1
    <3>3. IsFiniteSet(w) /\ \A x \in w : f[x] \in Int
      BY <2>2, <3>1, FS_Subset
    <3>4. Sum(f, w) = f[c] + Sum(f, w \ {c})
      BY <3>2, <3>3, SumWithout
    <3>. QED BY <2>2, <2>6, <2>7, <3>1, <3>2, <3>4
  <2>9. CASE c \notin T
    <3>1. (s \ {c}) \cap T = s \cap T /\ f[c] = 0
      BY <2>5, <2>9
    <3>2. Sum(f, s \ {c}) \in Int
      <4>1. IsFiniteSet(s \ {c}) /\ \A x \in s \ {c} : f[x] \in Int
        BY <2>2, FS_Subset
      <4>. QED BY <4>1, SumInt
    <3>3. Sum(f, s) = Sum(f, s \ {c})
      BY <2>7, <3>1, <3>2
    <3>4. Sum(f, (s \ {c}) \cap T) = Sum(f, s \cap T)
      BY <3>1
    <3>. HIDE DEF B
    <3>. QED BY <2>2, <2>6, <3>3, <3>4
  <2>. QED BY <2>8, <2>9
<1>2. S \in SUBSET S /\ S \cap T = T
  OBVIOUS
<1>. QED BY <1>1, <1>2

\* Sums add up.
LEMMA SumPlus ==
    ASSUME NEW f, NEW g, NEW h, NEW S, IsFiniteSet(S),
           \A x \in S : f[x] \in Int /\ g[x] \in Int /\ h[x] = f[x] + g[x]
    PROVE  Sum(h, S) = Sum(f, S) + Sum(g, S)
<1>. DEFINE B == {s \in SUBSET S : Sum(h, s) # Sum(f, s) + Sum(g, s)}
<1>1. ASSUME B # {} PROVE FALSE
  <2>1. PICK s \in B : \A t \in SUBSET s : t \in B => t = s
    <3>1. B \subseteq SUBSET S
      OBVIOUS
    <3>. HIDE DEF B
    <3>. QED BY <1>1, <3>1, LeastBad
  <2>2. /\ s \in SUBSET S /\ IsFiniteSet(s)
        /\ Sum(h, s) # Sum(f, s) + Sum(g, s)
    BY FS_Subset
  <2>3. s # {}
    BY <2>2, SumEmpty
  <2>4. PICK c : c = Pick(s)
    OBVIOUS
  <2>5. PICK u : u = s \ {c}
    OBVIOUS
  <2>6. /\ u \in SUBSET s /\ u # s /\ u \in SUBSET S /\ c \in S
        /\ IsFiniteSet(u)
    BY <2>2, <2>3, <2>4, <2>5, PickIn, FS_Subset
  <2>7. Sum(h, u) = Sum(f, u) + Sum(g, u)
    BY <2>1, <2>6
  <2>8. /\ Sum(f, s) = f[c] + Sum(f, u)
        /\ Sum(g, s) = g[c] + Sum(g, u)
        /\ Sum(h, s) = h[c] + Sum(h, u)
    BY <2>2, <2>3, <2>4, <2>5, SumPick
  <2>9. Sum(f, u) \in Int /\ Sum(g, u) \in Int
    BY <2>6, SumInt
  <2>10. f[c] \in Int /\ g[c] \in Int /\ h[c] = f[c] + g[c]
    BY <2>6
  <2>. QED BY <2>2, <2>7, <2>8, <2>9, <2>10
<1>2. S \in SUBSET S
  OBVIOUS
<1>. QED BY <1>1, <1>2

-----------------------------------------------------------------------------
(* Folds over sequences, as FoldLeft computes them *)

\* Induction, for a set of positions.
LEMMA Climb ==
    ASSUME NEW n \in Nat, NEW B \in SUBSET (0 .. n), 0 \in B,
           \A k \in 1 .. n : k - 1 \in B => k \in B
    PROVE  \A k \in 0 .. n : k \in B
<1>. DEFINE C == (0 .. n) \ B
<1>1. ASSUME C # {} PROVE FALSE
  <2>1. C \subseteq Nat
    OBVIOUS
  <2>. HIDE DEF C
  <2>2. PICK k \in C : \A j \in C : k <= j
    BY <1>1, <2>1, MinIn
  <2>. USE DEF C
  <2>3. k \in 1 .. n /\ k - 1 \in 0 .. n /\ k - 1 \notin C
    BY <2>2
  <2>. QED BY <2>2, <2>3
<1>. QED BY <1>1

LEMMA PrefixMax ==
    ASSUME NEW k \in Nat, k > 0
    PROVE  Max(1 .. k) = k /\ (1 .. k) \ {k} = 1 .. (k - 1)
<1>1. (1 .. k) \subseteq Nat /\ k \in 1 .. k /\ \A y \in 1 .. k : y <= k
  OBVIOUS
<1>2. Max(1 .. k) = k
  BY <1>1, MaxIs
<1>. QED BY <1>2

LEMMA PositionMax ==
    ASSUME NEW n \in Nat, NEW D \in SUBSET (1 .. n), D # {}
    PROVE  Max(D) \in 1 .. n /\ D \ {Max(D)} \in SUBSET (1 .. n)
<1>1. IsFiniteSet(1 .. n)
  BY FS_Interval
<1>2. IsFiniteSet(D)
  BY <1>1, FS_Subset
<1>. D \subseteq Nat
  OBVIOUS
<1>3. PICK x \in D : \A y \in D : y <= x
  BY <1>2, GreatestExists
<1>4. Max(D) = x
  BY <1>2, <1>3, MaxIs
<1>. QED BY <1>3, <1>4

FoldsBy(H, base, g, k) ==
    \A s \in SUBSET (1 .. k) :
        g[s] = IF s = {} THEN base ELSE H[<<g[s \ {Max(s)}], Max(s)>>]

\* The recursion over the sets of positions, last one first, has a solution.
LEMMA FoldSolvable ==
    ASSUME NEW V, NEW base \in V, NEW n \in Nat,
           NEW H \in [V \X (1 .. n) -> V]
    PROVE  \E g \in [SUBSET (1 .. n) -> V] : FoldsBy(H, base, g, n)
<1>. DEFINE Ok == {k \in 0 .. n :
                      \E g \in [SUBSET (1 .. k) -> V] : FoldsBy(H, base, g, k)}
<1>1. 0 \in Ok
  <2>1. [s \in SUBSET (1 .. 0) |-> base] \in [SUBSET (1 .. 0) -> V]
    OBVIOUS
  <2>2. \A s \in SUBSET (1 .. 0) : s = {}
    OBVIOUS
  <2>3. FoldsBy(H, base, [s \in SUBSET (1 .. 0) |-> base], 0)
    BY <2>2 DEF FoldsBy
  <2>. QED BY <2>1, <2>3
<1>2. ASSUME NEW k \in 1 .. n, k - 1 \in Ok PROVE k \in Ok
  <2>1. PICK g \in [SUBSET (1 .. (k - 1)) -> V] : FoldsBy(H, base, g, k - 1)
    BY <1>2
  <2>. DEFINE Val(s) == IF k \in s THEN H[<<g[s \ {k}], k>>] ELSE g[s]
              h == [s \in SUBSET (1 .. k) |-> Val(s)]
  <2>2. ASSUME NEW s \in SUBSET (1 .. k), k \notin s
        PROVE  s \in SUBSET (1 .. (k - 1))
    BY <2>2
  <2>3. ASSUME NEW s \in SUBSET (1 .. k)
        PROVE  s \ {k} \in SUBSET (1 .. (k - 1))
    OBVIOUS
  <2>4. ASSUME NEW s \in SUBSET (1 .. k) PROVE Val(s) \in V
    <3>1. CASE k \in s
      <4>1. g[s \ {k}] \in V
        BY <2>1, <2>3
      <4>. QED BY <3>1, <4>1
    <3>2. CASE k \notin s
      BY <2>1, <2>2, <3>2
    <3>. QED BY <3>1, <3>2
  <2>5. h \in [SUBSET (1 .. k) -> V]
    <3>. HIDE DEF Val
    <3>. QED BY <2>4
  <2>6. ASSUME NEW s \in SUBSET (1 .. k)
        PROVE  h[s] = IF s = {} THEN base ELSE H[<<h[s \ {Max(s)}], Max(s)>>]
    <3>1. h[s] = Val(s)
      OBVIOUS
    <3>2. CASE k \in s
      <4>1. Max(s) = k
        <5>1. s \subseteq Nat /\ \A y \in s : y <= k
          OBVIOUS
        <5>. QED BY <3>2, <5>1, MaxIs
      <4>2. PICK t : t = s \ {k}
        OBVIOUS
      <4>3. t \in SUBSET (1 .. k) /\ k \notin t
        BY <4>2
      <4>4. h[t] = g[t]
        BY <4>3
      <4>5. h[s] = H[<<g[t], k>>]
        BY <3>1, <3>2, <4>2
      <4>. HIDE DEF h, Val
      <4>. QED BY <3>2, <4>1, <4>2, <4>4, <4>5
    <3>3. CASE k \notin s
      <4>1. s \in SUBSET (1 .. (k - 1)) /\ h[s] = g[s]
        BY <2>2, <3>1, <3>3
      <4>2. g[s] = IF s = {} THEN base ELSE H[<<g[s \ {Max(s)}], Max(s)>>]
        BY <2>1, <4>1 DEF FoldsBy
      <4>3. PICK t : t = s \ {Max(s)}
        OBVIOUS
      <4>4. t \in SUBSET (1 .. k) /\ k \notin t
        BY <3>3, <4>3
      <4>5. h[t] = g[t]
        BY <4>4
      <4>. HIDE DEF h, Val
      <4>. QED BY <4>1, <4>2, <4>3, <4>5
    <3>. QED BY <3>2, <3>3
  <2>7. FoldsBy(H, base, h, k)
    <3>. HIDE DEF h
    <3>. QED BY <2>6 DEF FoldsBy
  <2>. HIDE DEF h
  <2>. QED BY <2>5, <2>7
<1>3. n \in 0 .. n /\ Ok \in SUBSET (0 .. n)
  OBVIOUS
<1>4. n \in Ok
  <2>. HIDE DEF Ok
  <2>. QED BY <1>1, <1>2, <1>3, Climb
<1>. QED BY <1>4

\* Over the prefixes, a fold takes one position after the other.
LEMMA FoldPrefixes ==
    ASSUME NEW n \in Nat, NEW base, NEW H, NEW g, FoldsBy(H, base, g, n)
    PROVE  /\ g[1 .. 0] = base
           /\ \A k \in 1 .. n : g[1 .. k] = H[<<g[1 .. (k - 1)], k>>]
<1>1. (1 .. 0) \in SUBSET (1 .. n) /\ (1 .. 0) = {}
  OBVIOUS
<1>2. g[1 .. 0] = base
  BY <1>1 DEF FoldsBy
<1>3. ASSUME NEW k \in 1 .. n PROVE g[1 .. k] = H[<<g[1 .. (k - 1)], k>>]
  <2>1. (1 .. k) \in SUBSET (1 .. n) /\ (1 .. k) # {}
    OBVIOUS
  <2>2. Max(1 .. k) = k /\ (1 .. k) \ {k} = 1 .. (k - 1)
    BY PrefixMax
  <2>3. g[1 .. k] = H[<<g[(1 .. k) \ {Max(1 .. k)}], Max(1 .. k)>>]
    BY <2>1 DEF FoldsBy
  <2>. QED BY <2>2, <2>3
<1>. QED BY <1>2, <1>3
=============================================================================
