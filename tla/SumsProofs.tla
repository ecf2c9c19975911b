------------------------------ MODULE SumsProofs ------------------------------
(***************************************************************************)
(* What SumFunction, the sum of a function's values, computes.  Balances,  *)
(* stocks, queued bytes and retained audiences are such sums, kept up to   *)
(* date by the code one element at a time; the proofs about them need to   *)
(* know what adding, removing or changing one element does to the sum.     *)
(*                                                                         *)
(* SumFunction is a recursive function over the subsets of a domain, and   *)
(* what it computes is shown by induction on their size, in the form that  *)
(* the provers can follow: a set of counterexamples that is not empty has  *)
(* a least one.                                                            *)
(***************************************************************************)
EXTENDS Integers, Functions, FiniteSetTheorems, WellFoundedInduction, TLAPS

\* The element that is added last to the sum over s.
Pick(s) == CHOOSE x \in s : TRUE

\* The sum over s, from the one that `it` has for a smaller set.
SumStep(it, f, s) == IF s = {} THEN 0 ELSE f[Pick(s)] + it[s \ {Pick(s)}]

\* it[s] is the sum of the values of f over s, for every subset s of S.
IsSum(it, f, S) == it = [s \in SUBSET S |-> SumStep(it, f, s)]

\* A non-empty set of naturals has a least element.
LEMMA LeastNat ==
    ASSUME NEW T \in SUBSET Nat, T # {}
    PROVE  \E n \in T : \A m \in T : n <= m
<1>1. PICK n \in T : \A m \in T : <<m, n>> \notin OpToRel(<, Nat)
  BY NatLessThanWellFounded, WFMin
<1>2. \A m \in T : ~(m < n)
  BY <1>1 DEF OpToRel
<1> QED BY <1>2

\* Pick takes an element of its set.
LEMMA PickIsMember == \A s : s # {} => Pick(s) \in s
BY DEF Pick

\* The size of a set without one of its elements.
LEMMA RemoveOne ==
    ASSUME NEW s, IsFiniteSet(s), NEW x \in s
    PROVE  /\ IsFiniteSet(s \ {x})
           /\ Cardinality(s) \in Nat \ {0}
           /\ Cardinality(s \ {x}) = Cardinality(s) - 1
BY FS_RemoveElement, FS_CardinalityType, FS_EmptySet

\* The community module's sum is the recursive function above.
LEMMA SumFunctionUnfolds ==
    ASSUME NEW f, NEW S
    PROVE  SumFunctionOnSet(f, S) = (CHOOSE it : IsSum(it, f, S))[S]
BY Zenon DEF SumFunctionOnSet, FoldFunctionOnSet, MapThenFoldSet, IsSum, SumStep, Pick

\* The recursion defines a function: by induction on n, there is one that
\* follows it up to sets of size n.
LEMMA SumExists ==
    ASSUME NEW f, NEW S, IsFiniteSet(S)
    PROVE  \E it : IsSum(it, f, S)
<1> DEFINE Upto(n) == \E it : \A s \in SUBSET S :
                        Cardinality(s) <= n => it[s] = SumStep(it, f, s)
           Bad == {n \in Nat : ~Upto(n)}
<1>1. \A s \in SUBSET S : IsFiniteSet(s) /\ Cardinality(s) \in Nat
                          /\ Cardinality(s) <= Cardinality(S)
  BY FS_Subset, FS_CardinalityType
<1>2. \A n \in Nat : Upto(n)
  <2> SUFFICES ASSUME Bad # {} PROVE FALSE
    OBVIOUS
  <2>1. PICK n \in Bad : \A m \in Bad : n <= m
    <3> HIDE DEF Upto
    <3> QED BY LeastNat
  <2>2. CASE n = 0
    <3> DEFINE it == [s \in SUBSET S |-> 0]
    <3>1. \A s \in SUBSET S : Cardinality(s) <= 0 => it[s] = SumStep(it, f, s)
      BY <1>1, FS_EmptySet DEF SumStep
    <3> QED BY <2>2, <3>1
  <2>3. CASE n # 0
    <3>1. Upto(n - 1)
      BY <2>1, <2>3
    <3>2. PICK it : \A s \in SUBSET S : Cardinality(s) <= n - 1 => it[s] = SumStep(it, f, s)
      BY <3>1
    <3> DEFINE jt == [s \in SUBSET S |-> SumStep(it, f, s)]
    <3>3. ASSUME NEW s \in SUBSET S, Cardinality(s) <= n
          PROVE  jt[s] = SumStep(jt, f, s)
      <4>1. CASE s = {}
        BY <4>1 DEF SumStep
      <4>2. CASE s # {}
        <5> DEFINE r == s \ {Pick(s)}
        <5>1. r \in SUBSET S /\ Cardinality(r) <= n - 1
          BY <1>1, <3>3, <4>2, PickIsMember, RemoveOne
        <5>2. jt[r] = it[r]
          BY <3>2, <5>1
        <5> QED BY <4>2, <5>2 DEF SumStep
      <4> QED BY <4>1, <4>2
    <3> QED BY <3>3
  <2> QED BY <2>2, <2>3
<1>3. PICK it : \A s \in SUBSET S : it[s] = SumStep(it, f, s)
  BY <1>1, <1>2
<1> DEFINE jt == [s \in SUBSET S |-> it[s]]
<1>4. \A s \in SUBSET S : SumStep(jt, f, s) = SumStep(it, f, s)
  BY DEF SumStep
<1>5. IsSum(jt, f, S)
  BY <1>3, <1>4 DEF IsSum
<1> QED BY <1>5

\* SumFunctionOnSet(f, S) is the value of such a function.
LEMMA SumFunctionIs ==
    ASSUME NEW f, NEW S, IsFiniteSet(S)
    PROVE  \E it : IsSum(it, f, S) /\ SumFunctionOnSet(f, S) = it[S]
BY SumExists, SumFunctionUnfolds, Zenon

\* The recursion, one subset at a time.
LEMMA SumValue ==
    ASSUME NEW f, NEW S, NEW it, IsSum(it, f, S), NEW s \in SUBSET S
    PROVE  it[s] = SumStep(it, f, s)
BY DEF IsSum

\* The sum depends on the summed values alone.
LEMMA SumsAgree ==
    ASSUME NEW f, NEW g, NEW S, NEW T, NEW it, NEW jt, IsSum(it, f, S), IsSum(jt, g, T),
           NEW U, IsFiniteSet(U), U \subseteq S, U \subseteq T, \A x \in U : f[x] = g[x]
    PROVE  it[U] = jt[U]
<1> DEFINE Bad == {n \in Nat : \E s \in SUBSET U : Cardinality(s) = n /\ it[s] # jt[s]}
<1>1. \A s \in SUBSET U : IsFiniteSet(s) /\ Cardinality(s) \in Nat
  BY FS_Subset, FS_CardinalityType
<1>2. Bad = {}
  <2> SUFFICES ASSUME Bad # {} PROVE FALSE
    OBVIOUS
  <2>1. PICK n \in Bad : \A m \in Bad : n <= m
    BY LeastNat
  <2>2. PICK s \in SUBSET U : Cardinality(s) = n /\ it[s] # jt[s]
    BY <2>1
  <2>3. it[s] = SumStep(it, f, s) /\ jt[s] = SumStep(jt, g, s)
    BY SumValue
  <2>4. s # {}
    BY <2>2, <2>3 DEF SumStep
  <2> DEFINE r == s \ {Pick(s)}
  <2>5. Pick(s) \in s /\ r \in SUBSET U /\ Cardinality(r) \in Nat /\ Cardinality(r) = n - 1
    BY <1>1, <2>2, <2>4, PickIsMember, RemoveOne
  <2>6. it[r] = jt[r]
    BY <2>1, <2>5
  <2>7. f[Pick(s)] = g[Pick(s)]
    BY <2>5
  <2> QED BY <2>2, <2>3, <2>4, <2>6, <2>7 DEF SumStep
<1> QED BY <1>1, <1>2

\* A sum of integers is an integer.
LEMMA SumIsInt ==
    ASSUME NEW f, NEW S, NEW it, IsSum(it, f, S), NEW U \in SUBSET S, IsFiniteSet(U),
           \A x \in U : f[x] \in Int
    PROVE  it[U] \in Int
<1> DEFINE Bad == {n \in Nat : \E s \in SUBSET U : Cardinality(s) = n /\ it[s] \notin Int}
<1>1. \A s \in SUBSET U : IsFiniteSet(s) /\ Cardinality(s) \in Nat
  BY FS_Subset, FS_CardinalityType
<1>2. Bad = {}
  <2> SUFFICES ASSUME Bad # {} PROVE FALSE
    OBVIOUS
  <2>1. PICK n \in Bad : \A m \in Bad : n <= m
    BY LeastNat
  <2>2. PICK s \in SUBSET U : Cardinality(s) = n /\ it[s] \notin Int
    BY <2>1
  <2>3. it[s] = SumStep(it, f, s)
    BY SumValue
  <2>4. s # {}
    BY <2>2, <2>3 DEF SumStep
  <2> DEFINE r == s \ {Pick(s)}
  <2>5. Pick(s) \in s /\ r \in SUBSET U /\ Cardinality(r) \in Nat /\ Cardinality(r) = n - 1
    BY <1>1, <2>2, <2>4, PickIsMember, RemoveOne
  <2>6. it[r] \in Int
    BY <2>1, <2>5
  <2> QED BY <2>2, <2>3, <2>4, <2>5, <2>6 DEF SumStep
<1> QED BY <1>1, <1>2

\* Any element may be the one that is added last.
LEMMA SumTakesAny ==
    ASSUME NEW f, NEW S, NEW it, IsSum(it, f, S), IsFiniteSet(S), \A x \in S : f[x] \in Int
    PROVE  \A s \in SUBSET S : \A y \in s : it[s] = f[y] + it[s \ {y}]
<1> DEFINE Any(s) == \A y \in s : it[s] = f[y] + it[s \ {y}]
           Bad == {n \in Nat : \E s \in SUBSET S : Cardinality(s) = n /\ ~Any(s)}
<1>1. \A s \in SUBSET S : IsFiniteSet(s) /\ Cardinality(s) \in Nat
  BY FS_Subset, FS_CardinalityType
<1>2. \A s \in SUBSET S : it[s] \in Int
  BY <1>1, SumIsInt
<1>3. Bad = {}
  <2> SUFFICES ASSUME Bad # {} PROVE FALSE
    OBVIOUS
  <2>1. PICK n \in Bad : \A m \in Bad : n <= m
    <3> HIDE DEF Any
    <3> QED BY LeastNat
  <2>2. PICK s \in SUBSET S : Cardinality(s) = n /\ ~Any(s)
    BY <2>1
  <2>3. PICK y \in s : it[s] # f[y] + it[s \ {y}]
    BY <2>2
  <2> DEFINE c == Pick(s)
             both == s \ {c, y}
  <2>4. c \in s /\ it[s] = f[c] + it[s \ {c}]
    BY <2>3, SumValue, PickIsMember DEF SumStep
  <2>5. c # y
    BY <2>3, <2>4
  <2>6. \A x \in s : Any(s \ {x})
    <3> TAKE x \in s
    <3>1. Cardinality(s \ {x}) \in Nat /\ Cardinality(s \ {x}) = n - 1
      BY <1>1, <2>2, RemoveOne
    <3> QED BY <2>1, <3>1
  <2>7. it[s \ {c}] = f[y] + it[both] /\ it[s \ {y}] = f[c] + it[both]
    <3>1. (s \ {c}) \ {y} = both /\ (s \ {y}) \ {c} = both
      OBVIOUS
    <3>2. y \in s \ {c} /\ c \in s \ {y}
      BY <2>4, <2>5
    <3> QED BY <2>4, <2>6, <3>1, <3>2
  <2>8. f[c] \in Int /\ f[y] \in Int /\ it[both] \in Int
    BY <1>2, <2>4
  <2> QED BY <2>3, <2>4, <2>7, <2>8
<1> QED BY <1>1, <1>3

-----------------------------------------------------------------------------
(* What the proofs about components use.                                   *)

\* The empty sum.
LEMMA SumOfNone == \A f : SumFunctionOnSet(f, {}) = 0
BY FS_EmptySet, SumFunctionIs, SumValue DEF SumStep

\* A sum of integers is an integer.
LEMMA SumType ==
    ASSUME NEW f, NEW S, IsFiniteSet(S), \A x \in S : f[x] \in Int
    PROVE  SumFunctionOnSet(f, S) \in Int
BY SumFunctionIs, SumIsInt

\* Equal values have equal sums.
LEMMA SumCongruence ==
    ASSUME NEW f, NEW g, NEW S, IsFiniteSet(S), \A x \in S : f[x] = g[x]
    PROVE  SumFunctionOnSet(f, S) = SumFunctionOnSet(g, S)
<1>1. PICK it : IsSum(it, f, S) /\ SumFunctionOnSet(f, S) = it[S]
  BY SumFunctionIs
<1>2. PICK jt : IsSum(jt, g, S) /\ SumFunctionOnSet(g, S) = jt[S]
  BY SumFunctionIs
<1> QED BY <1>1, <1>2, SumsAgree

\* A sum is one of its values plus the sum of the others.
LEMMA SumRemove ==
    ASSUME NEW f, NEW S, IsFiniteSet(S), \A x \in S : f[x] \in Int, NEW y \in S
    PROVE  SumFunctionOnSet(f, S) = f[y] + SumFunctionOnSet(f, S \ {y})
<1> DEFINE R == S \ {y}
<1>1. PICK it : IsSum(it, f, S) /\ SumFunctionOnSet(f, S) = it[S]
  BY SumFunctionIs
<1>2. IsFiniteSet(R)
  BY RemoveOne
<1>3. PICK jt : IsSum(jt, f, R) /\ SumFunctionOnSet(f, R) = jt[R]
  BY <1>2, SumFunctionIs
<1>4. it[R] = jt[R]
  BY <1>1, <1>2, <1>3, SumsAgree
<1>5. it[S] = f[y] + it[R]
  BY <1>1, SumTakesAny
<1> QED BY <1>1, <1>3, <1>4, <1>5

\* One more value.
LEMMA SumAdd ==
    ASSUME NEW f, NEW S, IsFiniteSet(S), NEW y, y \notin S,
           \A x \in S \cup {y} : f[x] \in Int
    PROVE  SumFunctionOnSet(f, S \cup {y}) = SumFunctionOnSet(f, S) + f[y]
<1> DEFINE T == S \cup {y}
<1>1. IsFiniteSet(T) /\ T \ {y} = S /\ y \in T
  BY FS_AddElement
<1>2. SumFunctionOnSet(f, T) = f[y] + SumFunctionOnSet(f, S)
  BY <1>1, SumRemove
<1>3. SumFunctionOnSet(f, S) \in Int /\ f[y] \in Int
  BY SumType
<1> QED BY <1>2, <1>3

\* A sum of values between 0 and M.
LEMMA SumBounds ==
    ASSUME NEW f, NEW S, IsFiniteSet(S), NEW M \in Nat, \A x \in S : f[x] \in 0..M
    PROVE  SumFunctionOnSet(f, S) \in 0..(Cardinality(S) * M)
<1> DEFINE sum(s) == SumFunctionOnSet(f, s)
           Fine(s) == sum(s) \in 0..(Cardinality(s) * M)
           Bad == {n \in Nat : \E s \in SUBSET S : Cardinality(s) = n /\ ~Fine(s)}
<1>1. \A s \in SUBSET S : IsFiniteSet(s) /\ Cardinality(s) \in Nat
  BY FS_Subset, FS_CardinalityType
<1>2. Bad = {}
  <2> SUFFICES ASSUME Bad # {} PROVE FALSE
    OBVIOUS
  <2>1. PICK n \in Bad : \A m \in Bad : n <= m
    <3> HIDE DEF Fine
    <3> QED BY LeastNat
  <2>2. PICK s \in SUBSET S : Cardinality(s) = n /\ ~Fine(s)
    BY <2>1
  <2>3. s # {}
    BY <2>2, SumOfNone, FS_EmptySet
  <2>4. PICK x \in s : TRUE
    BY <2>3
  <2> DEFINE r == s \ {x}
  <2>5. r \in SUBSET S /\ n \in Nat \ {0} /\ Cardinality(r) = n - 1
    BY <1>1, <2>2, RemoveOne
  <2>6. sum(r) \in 0..((n - 1) * M)
    <3>1. Fine(r)
      BY <2>1, <2>5
    <3> QED BY <2>5, <3>1
  <2>7. sum(s) = f[x] + sum(r)
    BY <1>1, SumRemove
  <2>8. n * M = (n - 1) * M + M
    BY <2>5
  <2>9. (n - 1) * M \in Nat
    BY <2>5
  <2>10. f[x] \in 0..M
    OBVIOUS
  <2>11. sum(s) \in 0..(n * M)
    <3> HIDE DEF sum
    <3> QED BY <2>6, <2>7, <2>8, <2>9, <2>10
  <2> QED BY <2>2, <2>11
<1> QED BY <1>1, <1>2

\* Summing from the second place on is summing the values one place further.
LEMMA SumShift ==
    ASSUME NEW f, NEW g, NEW n \in Nat, \A i \in 1..n : g[i] \in Int /\ g[i] = f[i + 1]
    PROVE  SumFunctionOnSet(g, 1..n) = SumFunctionOnSet(f, 2..(n + 1))
<1> DEFINE Same(k) == SumFunctionOnSet(g, 1..k) = SumFunctionOnSet(f, 2..(k + 1))
           Bad == {k \in Nat : k <= n /\ ~Same(k)}
<1>1. Bad = {}
  <2> SUFFICES ASSUME Bad # {} PROVE FALSE
    OBVIOUS
  <2>1. PICK k \in Bad : \A m \in Bad : k <= m
    <3> HIDE DEF Same
    <3> QED BY LeastNat
  <2>2. k # 0
    <3>1. 1..0 = {} /\ 2..(0 + 1) = {}
      OBVIOUS
    <3>2. Same(0)
      BY <3>1, SumOfNone
    <3> QED BY <2>1, <3>2
  <2>3. k - 1 \in Nat /\ k - 1 \notin Bad /\ (k - 1) + 1 = k /\ k <= n
    BY <2>1, <2>2
  <2>4. Same(k - 1)
    BY <2>3
  <2>5. SumFunctionOnSet(g, 1..k) = SumFunctionOnSet(g, 1..(k - 1)) + g[k]
    <3> DEFINE T == 1..(k - 1)
    <3>1. 1..k = T \cup {k} /\ k \notin T
      BY <2>3
    <3>2. IsFiniteSet(T)
      BY <2>3, FS_Interval
    <3>3. \A i \in T \cup {k} : g[i] \in Int
      BY <2>2, <2>3
    <3> HIDE DEF T
    <3>4. SumFunctionOnSet(g, T \cup {k}) = SumFunctionOnSet(g, T) + g[k]
      BY <3>1, <3>2, <3>3, SumAdd
    <3> QED BY <3>1, <3>4, Zenon DEF T
  <2>6. SumFunctionOnSet(f, 2..(k + 1)) = SumFunctionOnSet(f, 2..k) + f[k + 1]
    <3> DEFINE T == 2..k
               y == k + 1
    <3>1. 2..(k + 1) = T \cup {y} /\ y \notin T
      BY <2>2, <2>3
    <3>2. IsFiniteSet(T)
      BY <2>3, FS_Interval
    <3>3. \A i \in T \cup {y} : f[i] \in Int
      <4> TAKE i \in T \cup {y}
      <4>1. i - 1 \in 1..n /\ (i - 1) + 1 = i
        BY <2>2, <2>3
      <4> QED BY <4>1
    <3> HIDE DEF T, y
    <3>4. SumFunctionOnSet(f, T \cup {y}) = SumFunctionOnSet(f, T) + f[y]
      BY <3>1, <3>2, <3>3, SumAdd
    <3> QED BY <3>1, <3>4, Zenon DEF T, y
  <2>7. g[k] = f[k + 1]
    BY <2>2, <2>3
  <2>8. ~Same(k)
    BY <2>1
  <2> QED BY <2>3, <2>4, <2>5, <2>6, <2>7, <2>8
<1> QED BY <1>1

\* A function with one more argument.
LEMMA SumExtended ==
    ASSUME NEW f, NEW g, NEW y, IsFiniteSet(DOMAIN f), y \notin DOMAIN f,
           DOMAIN g = DOMAIN f \cup {y},
           \A x \in DOMAIN f : f[x] \in Int /\ g[x] = f[x], g[y] \in Int
    PROVE  SumFunction(g) = SumFunction(f) + g[y]
<1> DEFINE S == DOMAIN f
<1>1. SumFunctionOnSet(g, S \cup {y}) = SumFunctionOnSet(g, S) + g[y]
  BY SumAdd
<1>2. SumFunctionOnSet(g, S) = SumFunctionOnSet(f, S)
  BY SumCongruence
<1> QED BY <1>1, <1>2 DEF SumFunction

\* A sequence of numbers without its first.
LEMMA SumWithoutFirst ==
    ASSUME NEW f, NEW g, NEW n \in Nat, DOMAIN f = 1..(n + 1), DOMAIN g = 1..n,
           \A i \in 1..(n + 1) : f[i] \in Int, \A i \in 1..n : g[i] = f[i + 1]
    PROVE  SumFunction(f) = f[1] + SumFunction(g)
<1> DEFINE S == 1..(n + 1)
           T == 2..(n + 1)
           y == 1
<1>1. S = T \cup {y} /\ y \notin T
  OBVIOUS
<1>2. IsFiniteSet(T) /\ \A x \in T \cup {y} : f[x] \in Int
  BY FS_Interval
<1>3. SumFunctionOnSet(f, S) = f[1] + SumFunctionOnSet(f, T)
  <2> HIDE DEF S, T, y
  <2>1. SumFunctionOnSet(f, T \cup {y}) = SumFunctionOnSet(f, T) + f[y]
    BY <1>1, <1>2, SumAdd
  <2>2. SumFunctionOnSet(f, T) \in Int /\ f[y] \in Int
    BY <1>2, SumType
  <2>3. SumFunctionOnSet(f, T \cup {y}) = f[y] + SumFunctionOnSet(f, T)
    BY <2>1, <2>2
  <2> QED BY <1>1, <2>3, Zenon DEF y
<1>4. SumFunctionOnSet(g, 1..n) = SumFunctionOnSet(f, T)
  <2>1. \A i \in 1..n : g[i] \in Int /\ g[i] = f[i + 1]
    OBVIOUS
  <2> QED BY <2>1, SumShift
<1> QED BY <1>3, <1>4 DEF SumFunction

\* A function of no arguments.
LEMMA SumOfEmpty == ASSUME NEW f, DOMAIN f = {} PROVE SumFunction(f) = 0
BY SumOfNone DEF SumFunction

\* Values between 0 and M, over at most n arguments.
LEMMA SumAtMost ==
    ASSUME NEW f, IsFiniteSet(DOMAIN f), NEW M \in Nat, \A x \in DOMAIN f : f[x] \in 0..M,
           NEW n \in Nat, Cardinality(DOMAIN f) <= n
    PROVE  SumFunction(f) \in 0..(n * M)
<1> DEFINE c == Cardinality(DOMAIN f)
<1>1. c \in Nat
  BY FS_CardinalityType
<1>2. SumFunction(f) \in 0..(c * M)
  BY SumBounds DEF SumFunction
<1>3. c * M <= n * M
  BY <1>1
<1>4. c * M \in Nat /\ n * M \in Nat
  BY <1>1
<1> HIDE DEF c
<1> QED BY <1>2, <1>3, <1>4
=============================================================================
