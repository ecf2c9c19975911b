---------------------------- MODULE SnapshotsProofs ----------------------------
(***************************************************************************)
(* Proofs about Snapshots, for any peers, players and cells, any rates and *)
(* packet sizes, and any counter that is wide enough: no player that a     *)
(* recipient is shown is left out for longer than a bound, and the packets *)
(* show whoever has waited longest.                                        *)
(*                                                                         *)
(* The argument is a measure.  Wait is the ticks to a recipient's next     *)
(* visit: the rest of its cadence and then its place among the peers.      *)
(* Packets is the visits until a player's turn.  Each tick that leaves a   *)
(* player out takes one from Wait, or one from Packets when it is a visit. *)
(***************************************************************************)
EXTENDS Snapshots, FiniteSetTheorems, FunctionTheorems, TLAPS

-----------------------------------------------------------------------------
(* The order that goes round.                                              *)

\* The numbers are in a strict order.
LEMMA PrecedesOrder ==
    ASSUME NEW c \in Int
    PROVE  /\ \A a \in Int : ~Precedes(c, a, a)
           /\ \A a, b \in Int : a # b => (Precedes(c, a, b) <=> ~Precedes(c, b, a))
           /\ \A a, b, d \in Int : Precedes(c, a, b) /\ Precedes(c, b, d) => Precedes(c, a, d)
BY DEF Precedes

\* The order after l is the one after c, with what was up to l moved to its end.
LEMMA Rotate ==
    ASSUME NEW c \in Int, NEW l \in Int, NEW a \in Int, NEW b \in Int
    PROVE  Precedes(l, a, b) <=>
             IF Precedes(c, l, a) <=> Precedes(c, l, b) THEN Precedes(c, a, b)
             ELSE Precedes(c, l, a)
BY DEF Precedes

\* How many are ahead of an element of a finite set.
LEMMA AheadSize ==
    ASSUME NEW c \in Int, NEW S \in SUBSET Int, IsFiniteSet(S), NEW a \in S
    PROVE  /\ IsFiniteSet(Ahead(c, S, a))
           /\ Cardinality(Ahead(c, S, a)) \in Nat
           /\ Cardinality(S) \in Nat
           /\ Cardinality(Ahead(c, S, a)) < Cardinality(S)
<1>1. Ahead(c, S, a) \subseteq S /\ a \notin Ahead(c, S, a)
  BY PrecedesOrder DEF Ahead
<1>2. Ahead(c, S, a) \subseteq S \ {a}
  BY <1>1
<1>3. /\ IsFiniteSet(S \ {a}) /\ Cardinality(S) \in Nat
      /\ Cardinality(S \ {a}) = Cardinality(S) - 1
  BY FS_RemoveElement, FS_CardinalityType
<1>4. /\ IsFiniteSet(Ahead(c, S, a)) /\ Cardinality(Ahead(c, S, a)) <= Cardinality(S \ {a})
  BY <1>2, <1>3, FS_Subset
<1> QED BY <1>3, <1>4, FS_CardinalityType

\* The one that comes first has fewer ahead of it.
LEMMA AheadGrows ==
    ASSUME NEW c \in Int, NEW S \in SUBSET Int, IsFiniteSet(S), NEW a \in S, NEW b \in S,
           Precedes(c, a, b)
    PROVE  Cardinality(Ahead(c, S, a)) < Cardinality(Ahead(c, S, b))
<1>1. /\ Ahead(c, S, a) \subseteq Ahead(c, S, b)
      /\ a \in Ahead(c, S, b) /\ a \notin Ahead(c, S, a)
  BY PrecedesOrder DEF Ahead
<1>2. /\ IsFiniteSet(Ahead(c, S, b)) /\ Cardinality(Ahead(c, S, a)) \in Nat
      /\ Cardinality(Ahead(c, S, b)) \in Nat
  BY AheadSize
<1>3. /\ Cardinality(Ahead(c, S, a)) <= Cardinality(Ahead(c, S, b))
      /\ Cardinality(Ahead(c, S, a)) # Cardinality(Ahead(c, S, b))
  BY <1>1, <1>2, FS_Subset
<1> QED BY <1>2, <1>3

\* No two elements have as many ahead of them.
LEMMA AheadDiffers ==
    ASSUME NEW c \in Int, NEW S \in SUBSET Int, IsFiniteSet(S), NEW a \in S, NEW b \in S,
           Cardinality(Ahead(c, S, a)) = Cardinality(Ahead(c, S, b))
    PROVE  a = b
<1> SUFFICES ASSUME a # b PROVE FALSE
  OBVIOUS
<1>1. Precedes(c, a, b) \/ Precedes(c, b, a)
  BY PrecedesOrder
<1>2. Cardinality(Ahead(c, S, a)) \in Nat /\ Cardinality(Ahead(c, S, b)) \in Nat
  BY AheadSize
<1> QED BY <1>1, <1>2, AheadGrows

\* The image of a finite set under a function that tells its elements apart.
LEMMA SameSize ==
    ASSUME NEW S, IsFiniteSet(S), NEW U, NEW f \in [S -> U],
           \A a, b \in S : f[a] = f[b] => a = b,
           \A u \in U : \E a \in S : f[a] = u
    PROVE  IsFiniteSet(U) /\ Cardinality(U) = Cardinality(S)
<1>1. f \in Bijection(S, U)
  BY DEF Bijection, Injection, Surjection, IsInjective
<1>2. ExistsBijection(S, U)
  BY <1>1 DEF ExistsBijection
<1> QED BY <1>2, FS_Bijection

\* The numbers below n.
LEMMA IntervalSize ==
    ASSUME NEW n \in Nat
    PROVE  IsFiniteSet(0..(n - 1)) /\ Cardinality(0..(n - 1)) = n
<1>1. PICK m \in Int : m = n - 1
  OBVIOUS
<1>2. IsFiniteSet(0..m) /\ Cardinality(0..m) = IF 0 > m THEN 0 ELSE m - 0 + 1
  BY FS_Interval
<1>3. (IF 0 > m THEN 0 ELSE m - 0 + 1) = n
  BY <1>1
<1> QED BY <1>1, <1>2, <1>3

\* There is one with any number ahead of it that is less than the size.
LEMMA AheadOnto ==
    ASSUME NEW c \in Int, NEW S \in SUBSET Int, IsFiniteSet(S),
           NEW i \in Nat, i < Cardinality(S)
    PROVE  \E a \in S : Cardinality(Ahead(c, S, a)) = i
<1> DEFINE r == [a \in S |-> Cardinality(Ahead(c, S, a))]
           U == {r[a] : a \in S}
           n == Cardinality(S)
<1>1. n \in Nat
  BY FS_CardinalityType
<1>2. \A a \in S : r[a] \in 0..(n - 1)
  BY AheadSize, <1>1
<1>3. \A a, b \in S : r[a] = r[b] => a = b
  BY AheadDiffers
<1>4. r \in [S -> U] /\ \A u \in U : \E a \in S : r[a] = u
  OBVIOUS
<1>5. Cardinality(U) = n
  BY <1>3, <1>4, SameSize
<1>6. U \subseteq 0..(n - 1)
  BY <1>2
<1>7. IsFiniteSet(0..(n - 1)) /\ Cardinality(0..(n - 1)) = n
  BY <1>1, IntervalSize
<1>8. U = 0..(n - 1)
  BY <1>5, <1>6, <1>7, FS_Subset
<1> QED BY <1>1, <1>8

\* The first n are so many, or all.
LEMMA FirstSize ==
    ASSUME NEW c \in Int, NEW S \in SUBSET Int, IsFiniteSet(S), NEW n \in Nat
    PROVE  /\ First(n, S, c) \subseteq S /\ IsFiniteSet(First(n, S, c))
           /\ Cardinality(S) \in Nat
           /\ n <= Cardinality(S) => Cardinality(First(n, S, c)) = n
           /\ n >= Cardinality(S) => First(n, S, c) = S
<1> DEFINE F == First(n, S, c)
           r == [a \in F |-> Cardinality(Ahead(c, S, a))]
<1>1. F \subseteq S
  BY DEF First
<1>2. IsFiniteSet(F) /\ Cardinality(S) \in Nat
  BY <1>1, FS_Subset, FS_CardinalityType
<1>3. ASSUME n <= Cardinality(S) PROVE Cardinality(F) = n
  <2>0. ASSUME NEW a \in F
        PROVE  Cardinality(Ahead(c, S, a)) \in 0..(n - 1)
    <3>1. a \in S /\ Cardinality(Ahead(c, S, a)) < n
      BY DEF First
    <3>2. Cardinality(Ahead(c, S, a)) \in Nat
      BY <3>1, AheadSize
    <3> QED BY <3>1, <3>2
  <2>1. r \in [F -> 0..(n - 1)]
    <3> HIDE DEF F
    <3> QED BY <2>0
  <2>2. \A a, b \in F : r[a] = r[b] => a = b
    BY <1>1, AheadDiffers
  <2>3. ASSUME NEW u \in 0..(n - 1) PROVE \E a \in F : r[a] = u
    <3>1. u \in Nat /\ u < n
      OBVIOUS
    <3>2. PICK a \in S : Cardinality(Ahead(c, S, a)) = u
      BY <1>2, <1>3, <3>1, AheadOnto
    <3> QED BY <3>1, <3>2 DEF First
  <2>4. Cardinality(0..(n - 1)) = Cardinality(F)
    <3> PICK U : U = 0..(n - 1)
      OBVIOUS
    <3> HIDE DEF F, r
    <3>1. r \in [F -> U] /\ \A u \in U : \E a \in F : r[a] = u
      BY <2>1, <2>3
    <3>2. Cardinality(U) = Cardinality(F)
      BY <1>2, <2>2, <3>1, SameSize
    <3> QED BY <3>2
  <2> QED BY <2>4, IntervalSize
<1>4. ASSUME n >= Cardinality(S) PROVE F = S
  <2>1. ASSUME NEW a \in S PROVE Cardinality(Ahead(c, S, a)) < n
    <3>1. /\ Cardinality(Ahead(c, S, a)) \in Nat
          /\ Cardinality(Ahead(c, S, a)) < Cardinality(S)
      BY AheadSize
    <3> QED BY <1>2, <1>4, <3>1
  <2> QED BY <1>1, <2>1 DEF First
<1> QED BY <1>1, <1>2, <1>3, <1>4

\* The first n come before the others.
LEMMA FirstComesFirst ==
    ASSUME NEW c \in Int, NEW S \in SUBSET Int, IsFiniteSet(S), NEW n \in Nat,
           NEW a \in First(n, S, c), NEW b \in S \ First(n, S, c)
    PROVE  Precedes(c, a, b)
<1>1. /\ a \in S /\ Cardinality(Ahead(c, S, a)) < n /\ ~(Cardinality(Ahead(c, S, b)) < n)
  BY DEF First
<1>2. Cardinality(Ahead(c, S, a)) \in Nat /\ Cardinality(Ahead(c, S, b)) \in Nat
  BY <1>1, AheadSize
<1>3. CASE Precedes(c, b, a)
  BY <1>1, <1>2, <1>3, AheadGrows
<1> QED BY <1>1, <1>3, PrecedesOrder

\* The last of a finite set.
LEMMA LastIsLast ==
    ASSUME NEW c \in Int, NEW S \in SUBSET Int, IsFiniteSet(S), S # {}
    PROVE  /\ LastOf(S, c) \in S
           /\ \A b \in S \ {LastOf(S, c)} : Precedes(c, b, LastOf(S, c))
<1>1. Cardinality(S) \in Nat /\ Cardinality(S) # 0
  BY FS_CardinalityType, FS_EmptySet
<1>2. PICK a \in S : Cardinality(Ahead(c, S, a)) = Cardinality(S) - 1
  BY <1>1, AheadOnto
<1>3. ASSUME NEW b \in S \ {a} PROVE Precedes(c, b, a)
  <2>1. CASE Precedes(c, a, b)
    <3>1. Cardinality(Ahead(c, S, a)) < Cardinality(Ahead(c, S, b))
      BY <2>1, AheadGrows
    <3>2. Cardinality(Ahead(c, S, b)) < Cardinality(S) /\ Cardinality(Ahead(c, S, b)) \in Nat
      BY AheadSize
    <3> QED BY <1>1, <1>2, <3>1, <3>2
  <2> QED BY <2>1, PrecedesOrder
<1> QED BY <1>3 DEF LastOf

\* Where the order after the last of the first n begins.
LEMMA PassedByLast ==
    ASSUME NEW c \in Int, NEW S \in SUBSET Int, IsFiniteSet(S), NEW n \in Nat \ {0}, S # {}
    PROVE  /\ First(n, S, c) # {}
           /\ LastOf(First(n, S, c), c) \in First(n, S, c)
           /\ \A a \in S : Precedes(c, LastOf(First(n, S, c), c), a) <=> a \notin First(n, S, c)
<1> DEFINE F == First(n, S, c)
           l == LastOf(F, c)
<1>1. F \subseteq S /\ IsFiniteSet(F)
  BY FirstSize
<1>2. F # {}
  <2>1. Cardinality(S) \in Nat /\ Cardinality(S) # 0
    BY FS_CardinalityType, FS_EmptySet
  <2>2. PICK a \in S : Cardinality(Ahead(c, S, a)) = 0
    BY <2>1, AheadOnto
  <2> QED BY <2>2 DEF First
<1>3. l \in F /\ \A b \in F \ {l} : Precedes(c, b, l)
  BY <1>1, <1>2, LastIsLast
<1>4. ASSUME NEW a \in S \ F PROVE Precedes(c, l, a)
  BY <1>1, <1>3, <1>4, FirstComesFirst
<1>5. ASSUME NEW a \in F PROVE ~Precedes(c, l, a)
  <2> HIDE DEF F, l
  <2>1. a \in Int /\ l \in Int
    BY <1>1, <1>3
  <2>2. a = l \/ Precedes(c, a, l)
    BY <1>3
  <2> QED BY <2>1, <2>2, PrecedesOrder
<1> QED BY <1>2, <1>3, <1>4, <1>5

\* The order of a set after its first n: those go to the end.
LEMMA OrderAdvances ==
    ASSUME NEW c \in Int, NEW S \in SUBSET Int, IsFiniteSet(S), NEW n \in Nat \ {0},
           NEW l, l = LastOf(First(n, S, c), c), NEW a \in S, NEW b \in S
    PROVE  /\ l \in First(n, S, c)
           /\ Precedes(l, a, b) <=>
                IF a \in First(n, S, c) <=> b \in First(n, S, c) THEN Precedes(c, a, b)
                ELSE b \in First(n, S, c)
<1>1. First(n, S, c) \subseteq S
  BY FirstSize
<1>2. l \in First(n, S, c) /\ l \in Int
  BY <1>1, PassedByLast
<1>3. /\ Precedes(c, l, a) <=> a \notin First(n, S, c)
      /\ Precedes(c, l, b) <=> b \notin First(n, S, c)
  BY PassedByLast
<1> QED BY <1>2, <1>3, Rotate

\* Whoever was not among the first n moves up by n places.
LEMMA MovesUp ==
    ASSUME NEW c \in Int, NEW S \in SUBSET Int, IsFiniteSet(S), NEW n \in Nat \ {0},
           NEW l, l = LastOf(First(n, S, c), c), NEW a \in S \ First(n, S, c)
    PROVE  Cardinality(Ahead(l, S, a)) = Cardinality(Ahead(c, S, a)) - n
<1> DEFINE F == First(n, S, c)
<1>1. \A b \in S : Precedes(l, b, a) <=> b \notin F /\ Precedes(c, b, a)
  BY OrderAdvances
<1>2. F \subseteq Ahead(c, S, a)
  BY FirstComesFirst, FirstSize DEF Ahead
<1>3. Ahead(l, S, a) = Ahead(c, S, a) \ F
  BY <1>1 DEF Ahead
<1>4. ~(Cardinality(Ahead(c, S, a)) < n)
  BY DEF First
<1>5. IsFiniteSet(Ahead(c, S, a)) /\ Cardinality(Ahead(c, S, a)) \in Nat
      /\ Cardinality(S) \in Nat /\ Cardinality(Ahead(c, S, a)) < Cardinality(S)
  BY AheadSize
<1>6. Cardinality(F) = n
  BY <1>4, <1>5, FirstSize
<1>7. F \cap Ahead(c, S, a) = F
  BY <1>2
<1>8. Cardinality(Ahead(c, S, a) \ F) = Cardinality(Ahead(c, S, a)) - Cardinality(Ahead(c, S, a) \cap F)
  BY <1>5, FS_Difference, <1>2, FS_Subset
<1> QED BY <1>2, <1>3, <1>6, <1>7, <1>8

-----------------------------------------------------------------------------
(* Arithmetic.                                                             *)

\* The counter of ticks, and the ticks since one of its values.
LEMMA NextTick ==
    ASSUME NEW M \in Nat \ {0}, NEW t \in 0..(M - 1)
    PROVE  (t + 1) % M \in 0..(M - 1)
OBVIOUS

\* The difference of two values of the counter.
LEMMA TicksBetween ==
    ASSUME NEW M \in Nat \ {0}, NEW t \in 0..(M - 1), NEW u \in 0..(M - 1)
    PROVE  (t - u) % M = IF t >= u THEN t - u ELSE t - u + M
OBVIOUS

\* One more tick is one more in the difference, unless the counter comes round.
LEMMA OneMoreTick ==
    ASSUME NEW M \in Nat \ {0}, NEW t \in 0..(M - 1), NEW u \in 0..(M - 1),
           ((t - u) % M) + 1 < M
    PROVE  (((t + 1) % M) - u) % M = ((t - u) % M) + 1
<1>1. (t + 1) % M = IF t + 1 = M THEN 0 ELSE t + 1
  OBVIOUS
<1>2. PICK n \in 0..(M - 1) : n = (t + 1) % M
  BY NextTick
<1>3. (n - u) % M = IF n >= u THEN n - u ELSE n - u + M
  BY TicksBetween
<1>4. (t - u) % M = IF t >= u THEN t - u ELSE t - u + M
  BY TicksBetween
<1>5. (IF n >= u THEN n - u ELSE n - u + M) = (IF t >= u THEN t - u ELSE t - u + M) + 1
  BY <1>1, <1>2, <1>4
<1> QED BY <1>2, <1>3, <1>4, <1>5

\* Rounds of at most b.
LEMMA RoundUp ==
    ASSUME NEW b \in Nat \ {0}, NEW a \in Nat
    PROVE  /\ checked_div_ceil(a, b) \in Nat
           /\ a > 0 => checked_div_ceil(a, b) >= 1
           /\ a \in 1..b => checked_div_ceil(a, b) = 1
           /\ checked_div_ceil(a + b, b) = checked_div_ceil(a, b) + 1
           /\ \A i \in Nat : i < a => (i \div b) + 1 <= checked_div_ceil(a, b)
           /\ \A i \in Nat : i \div b \in Nat /\ (i + b) \div b = (i \div b) + 1
BY DEF checked_div_ceil

\* A round that begins in the middle takes one more at most.
LEMMA SplitRound ==
    ASSUME NEW b \in Nat \ {0}, NEW m \in Nat, NEW left \in 1..m, NEW i \in left..(m - 1)
    PROVE  checked_div_ceil(left, b) + ((i - left) \div b) <= checked_div_ceil(m, b)
<1> DEFINE p == checked_div_ceil(left, b)
           q == (i - left) \div b
           r == checked_div_ceil(m, b)
<1>1. p \in Nat /\ q \in Nat /\ r \in Nat
  <2>1. left \in Nat /\ i - left \in Nat
    OBVIOUS
  <2>2. p \in Nat /\ r \in Nat
    BY <2>1, RoundUp
  <2>3. q \in Nat
    BY <2>1
  <2> QED BY <2>2, <2>3
<1>2. (p - 1) * b < left /\ q * b <= i - left /\ r * b >= m
  BY DEF checked_div_ceil
<1> HIDE DEF p, q, r
<1>3. ((p - 1) + q) * b < m
  BY <1>1, <1>2
<1>4. ((p - 1) + q) * b < r * b
  BY <1>1, <1>2, <1>3
<1>5. (p - 1) + q < r
  BY <1>1, <1>4
<1> QED BY <1>1, <1>5 DEF p, q, r

\* The smaller and the greater of two.
LEMMA OfTwo ==
    ASSUME NEW a \in Int, NEW b \in Int
    PROVE  /\ Min({a, b}) = IF a <= b THEN a ELSE b
           /\ Max({a, b}) = IF a >= b THEN a ELSE b
BY DEF Min, Max

-----------------------------------------------------------------------------
(* Types.                                                                  *)

\* The ticks between two snapshots of a recipient.
Cadence == ticks_per_snapshot(cfg)

\* The counter after the next tick.
Now == (tick + 1) % TickModulus

\* The cadence of a valid configuration, and the room of the counter.
LEMMA CadenceType ==
    ASSUME TypeOK
    PROVE  /\ Cadence \in Nat \ {0}
           /\ Cardinality(Peer) \in Nat
           /\ Cadence + Cardinality(Peer) < TickModulus
<1>1. cfg \in Configs /\ validate(cfg)
  BY DEF TypeOK
<1>2. cfg.tick_hz \in Nat /\ cfg.snapshot_hz \in Nat \ {0}
  BY <1>1 DEF validate
<1>3. PICK q \in Nat : q = cfg.tick_hz \div cfg.snapshot_hz
  BY <1>2
<1>4. Cadence \in Nat \ {0}
  <2>1. Max({q, 1}) = IF q >= 1 THEN q ELSE 1
    BY OfTwo
  <2>2. Cadence = Max({q, 1})
    BY <1>3 DEF Cadence, ticks_per_snapshot
  <2> QED BY <2>1, <2>2
<1> QED BY <1>1, <1>4, TickAssumption, SnapshotsAssumption, FS_CardinalityType DEF Cadence

\* The sets that are put in order.
LEMMA LiveType ==
    ASSUME TypeOK
    PROVE  /\ Live \in SUBSET Int /\ IsFiniteSet(Live)
           /\ Cardinality(Live) \in Nat
           /\ RecipientCursor \in Int
<1>1. Live \subseteq Peer /\ Peer \subseteq Nat /\ IsFiniteSet(Peer)
  BY SnapshotsAssumption DEF TypeOK
<1>2. IsFiniteSet(Live)
  BY <1>1, FS_Subset
<1>3. RecipientCursor \in Int
  BY SnapshotsAssumption DEF TypeOK, RecipientCursor
<1> QED BY <1>1, <1>2, <1>3, FS_CardinalityType

\* A function has no more values than arguments.
LEMMA FiniteValues ==
    ASSUME NEW S, IsFiniteSet(S), NEW f, NEW U, U = {f[a] : a \in S}
    PROVE  IsFiniteSet(U)
<1>1. [a \in S |-> f[a]] \in Surjection(S, U)
  BY DEF Surjection
<1> QED BY <1>1, FS_Surjection

\* The players a recipient may be shown are live ones, finitely many.
LEMMA SelectedType ==
    ASSUME TypeOK, NEW v \in Live
    PROVE  /\ Selected(v) \in SUBSET Int /\ IsFiniteSet(Selected(v))
           /\ Selected(v) \subseteq Players /\ Selected(v) \subseteq Player
           /\ Cardinality(Selected(v)) \in Nat
           /\ Begin(v) \in Int
<1>1. \A p \in Live : sessions[p] \in Session
  BY DEF TypeOK
<1>2. \A p \in Live : sessions[p].player_id \in Player
  BY <1>1 DEF Session
<1>3. Player \subseteq Int
  BY SnapshotsAssumption
<1> DEFINE around == {q \in Live \ {v} :
                        sessions[q].cell - sessions[v].cell
                          \in -cfg.aoi_radius_cells..cfg.aoi_radius_cells}
           f == [p \in Live |-> sessions[p].player_id]
<1>4. around \subseteq Live
  OBVIOUS
<1>5. IsFiniteSet(around)
  BY <1>4, LiveType, FS_Subset
<1>6. Near(v) = {f[p] : p \in around}
  BY DEF Near
<1>7. IsFiniteSet(Near(v))
  <2> HIDE DEF around, f
  <2> QED BY <1>5, <1>6, FiniteValues
<1>8. Near(v) \subseteq Players /\ Players \subseteq Player
  BY <1>2, <1>4, <1>6 DEF Players
<1>9. Near(v) \in SUBSET Int /\ sessions[v].player_id \in Int
  BY <1>2, <1>3, <1>8
<1>10. SNAPSHOT_VISIBILITY_CEILING \in Nat
  BY ConfigAssumption
<1>11. Selected(v) \subseteq Near(v) /\ IsFiniteSet(Selected(v))
  BY <1>7, <1>9, <1>10, FirstSize DEF Selected
<1>12. Begin(v) \in Int
  BY <1>9, <1>11 DEF Begin
<1> QED BY <1>3, <1>8, <1>9, <1>11, <1>12, FS_CardinalityType

\* What is left of a round, and what a packet shows of it.
LEMMA PacketType ==
    ASSUME TypeOK, NEW v \in Live, Selected(v) # {}
    PROVE  /\ Left(v) \in 1..Cardinality(Selected(v))
           /\ Left(v) <= SNAPSHOT_ENTITIES_PER_PACKET =>
                Cardinality(Shown(v)) = Left(v) /\
                Shown(v) = First(Left(v), Selected(v), Begin(v))
           /\ Left(v) >= SNAPSHOT_ENTITIES_PER_PACKET =>
                Cardinality(Shown(v)) = SNAPSHOT_ENTITIES_PER_PACKET /\
                Shown(v) = First(SNAPSHOT_ENTITIES_PER_PACKET, Selected(v), Begin(v))
           /\ Shown(v) \subseteq Selected(v)
           /\ LastOf(Shown(v), Begin(v)) \in Shown(v)
           /\ Cardinality(Shown(v)) \in 1..Left(v)
           /\ Left(v) - Cardinality(Shown(v)) \in Nat
<1> DEFINE S == Selected(v)
           m == Cardinality(S)
           E == SNAPSHOT_ENTITIES_PER_PACKET
           n == Min({Left(v), E})
<1>1. S \in SUBSET Int /\ IsFiniteSet(S) /\ m \in Nat /\ Begin(v) \in Int
  BY SelectedType
<1>2. m # 0
  BY <1>1, FS_EmptySet
<1>3. sessions[v].remaining \in Nat
  BY DEF TypeOK, Session
<1>4. Min({sessions[v].remaining, m}) = IF sessions[v].remaining <= m THEN sessions[v].remaining ELSE m
  BY <1>1, <1>3, OfTwo
<1>5. Left(v) \in 1..m
  BY <1>1, <1>2, <1>3, <1>4 DEF Left
<1>6. E \in Nat \ {0}
  BY ConfigAssumption
<1>7. n = IF Left(v) <= E THEN Left(v) ELSE E
  BY <1>1, <1>5, <1>6, OfTwo
<1>8. n \in Nat \ {0} /\ n <= m /\ n <= Left(v)
  BY <1>1, <1>5, <1>6, <1>7
<1>9. Shown(v) = First(n, S, Begin(v))
  BY DEF Shown
<1> HIDE DEF n, S, m, E
<1>10. Cardinality(Shown(v)) = n /\ Shown(v) \subseteq S
  BY <1>1, <1>8, <1>9, FirstSize DEF m
<1>11. LastOf(Shown(v), Begin(v)) \in Shown(v)
  BY <1>1, <1>8, <1>9, PassedByLast DEF S
<1>12. n \in 1..Left(v) /\ Left(v) - n \in Nat
  BY <1>1, <1>5, <1>8
<1>13. /\ Left(v) <= E => n = Left(v)
       /\ Left(v) >= E => n = E
  BY <1>1, <1>5, <1>6, <1>7
<1> QED BY <1>5, <1>9, <1>10, <1>11, <1>12, <1>13 DEF S, m, E

\* A session after the visit of a tick.
LEMMA VisitedType ==
    ASSUME TypeOK, NEW v \in Live
    PROVE  /\ Visited(v, Now) \in Session
           /\ Visited(v, Now).player_id = sessions[v].player_id
           /\ Visited(v, Now).cell = sessions[v].cell
           /\ Visited(v, Now).last_visit = Now
           /\ Selected(v) # {} =>
                /\ Visited(v, Now).cursor = LastOf(Shown(v), Begin(v))
                /\ Visited(v, Now).remaining = Left(v) - Cardinality(Shown(v))
<1>1. sessions[v] \in Session
  BY DEF TypeOK
<1>2. Now \in 0..(TickModulus - 1)
  BY SnapshotsAssumption, NextTick DEF TypeOK, Now
<1>3. CASE Selected(v) = {}
  BY <1>1, <1>2, <1>3 DEF Visited, Session
<1>4. CASE Selected(v) # {}
  <2>1. LastOf(Shown(v), Begin(v)) \in Player /\ Left(v) - Cardinality(Shown(v)) \in Nat
    BY <1>4, PacketType, SelectedType
  <2>2. Visited(v, Now) = [sessions[v] EXCEPT !.last_visit = Now,
                               !.cursor = LastOf(Shown(v), Begin(v)),
                               !.remaining = Left(v) - Cardinality(Shown(v))]
    BY <1>4 DEF Visited
  <2> QED BY <1>1, <1>2, <2>1, <2>2 DEF Session
<1> QED BY <1>3, <1>4

\* What a tick does to a session.
LEMMA TickSessions ==
    ASSUME TypeOK, Tick
    PROVE  /\ Live' = Live /\ cfg' = cfg /\ tick' = Now /\ changes' = changes
           /\ sessions' \in [Live -> Session]
           /\ \A v \in Live :
                /\ v \in Visits(Now) => sessions'[v] = Visited(v, Now)
                /\ v \notin Visits(Now) => sessions'[v] = sessions[v]
                /\ sessions'[v].player_id = sessions[v].player_id
                /\ sessions'[v].cell = sessions[v].cell
           /\ Players' = Players
<1>1. /\ cfg' = cfg /\ tick' = Now /\ changes' = changes
      /\ sessions' = [v \in Live |-> IF v \in Visits(Now) THEN Visited(v, Now) ELSE sessions[v]]
  BY DEF Tick, Now
<1>2. Live' = Live
  BY <1>1 DEF Live
<1>3. ASSUME NEW v \in Live
      PROVE  /\ sessions[v] \in Session
             /\ v \in Visits(Now) => sessions'[v] = Visited(v, Now)
             /\ v \notin Visits(Now) => sessions'[v] = sessions[v]
             /\ sessions'[v] \in Session
             /\ sessions'[v].player_id = sessions[v].player_id
             /\ sessions'[v].cell = sessions[v].cell
  <2>1. sessions[v] \in Session
    BY DEF TypeOK
  <2>2. sessions'[v] = IF v \in Visits(Now) THEN Visited(v, Now) ELSE sessions[v]
    BY <1>1
  <2> QED BY <2>1, <2>2, VisitedType
<1>4. Players' = Players
  BY <1>2, <1>3 DEF Players
<1>5. sessions' \in [Live -> Session]
  BY <1>1, <1>3
<1> QED BY <1>1, <1>2, <1>3, <1>4, <1>5

\* What a recipient is shown does not change with the visits.
LEMMA TickSelected ==
    ASSUME TypeOK, Tick, NEW v \in Live
    PROVE  Selected(v)' = Selected(v)
<1>1. Live' = Live /\ cfg' = cfg
  BY TickSessions
<1>2. \A p \in Live : sessions'[p].player_id = sessions[p].player_id /\ sessions'[p].cell = sessions[p].cell
  BY TickSessions
<1>3. {q \in Live' \ {v} : sessions'[q].cell - sessions'[v].cell
                              \in -cfg'.aoi_radius_cells..cfg'.aoi_radius_cells}
      = {q \in Live \ {v} : sessions[q].cell - sessions[v].cell
                              \in -cfg.aoi_radius_cells..cfg.aoi_radius_cells}
  BY <1>1, <1>2
<1>4. Near(v)' = Near(v)
  BY <1>1, <1>2, <1>3 DEF Near
<1> QED BY <1>2, <1>4 DEF Selected

\* The recipients of a tick and the cursor after it.
LEMMA TickRecipients ==
    ASSUME TypeOK, Tick, Live # {}
    PROVE  /\ Recipients \subseteq Live
           /\ LastOf(Recipients, RecipientCursor) \in Recipients
           /\ RecipientCursor' = LastOf(Recipients, RecipientCursor)
           /\ cursor' \in Peer
<1>1. SNAPSHOT_PACKETS_PER_TICK \in Nat \ {0}
  BY ConfigAssumption
<1>2. /\ Recipients # {} /\ Recipients \subseteq Live
      /\ LastOf(Recipients, RecipientCursor) \in Recipients
  BY <1>1, LiveType, PassedByLast, FirstSize DEF Recipients
<1>3. cursor' = LastOf(Recipients, RecipientCursor)
  BY <1>2 DEF Tick
<1>4. cursor' \in Peer /\ cursor' # None
  <2>1. Live \subseteq Peer /\ Peer \subseteq Nat /\ None \notin Int
    BY SnapshotsAssumption DEF TypeOK
  <2>2. cursor' \in Peer
    BY <1>2, <1>3, <2>1
  <2>3. cursor' \in Nat
    BY <2>1, <2>2
  <2> QED BY <2>1, <2>2, <2>3
<1> QED BY <1>2, <1>3, <1>4 DEF RecipientCursor

\* A tick keeps the types.
LEMMA TickType == TypeOK /\ Tick => TypeOK'
<1> SUFFICES ASSUME TypeOK, Tick PROVE TypeOK'
  OBVIOUS
<1>1. /\ Live' = Live /\ cfg' = cfg /\ tick' = Now /\ changes' = changes
      /\ Players' = Players /\ sessions' \in [Live -> Session]
      /\ \A v \in Live : sessions'[v].player_id = sessions[v].player_id
  BY TickSessions
<1>2. Now \in 0..(TickModulus - 1)
  BY SnapshotsAssumption, NextTick DEF TypeOK, Now
<1>3. cursor' \in Peer \cup {None}
  <2>1. CASE Live = {}
    BY <2>1 DEF Tick, Recipients, First, TypeOK
  <2> QED BY <2>1, TickRecipients
<1>4. \A v \in Live : Shown(v) \subseteq Players
  BY SelectedType DEF Shown, First
<1>5. Visits(Now) \subseteq Live
  BY DEF Visits, Recipients, First
<1>6. shown' \subseteq Live \X Players
  <2>1. shown' = shown \cup UNION {{<<v, w>> : w \in Shown(v)} : v \in Visits(Now)}
    BY DEF Tick, Now
  <2> QED BY <1>4, <1>5, <2>1 DEF TypeOK
<1>7. age' \in [Live -> [Players -> Nat]]
  <2>1. age' = [v \in Live |-> [w \in Players |->
                  IF <<v, w>> \in UNION {{<<u, x>> : x \in Shown(u)} : u \in Visits(Now)}
                     \/ w \notin Selected(v) THEN 0 ELSE age[v][w] + 1]]
    BY DEF Tick, Now
  <2>2. \A v \in Live : \A w \in Players : age[v][w] \in Nat
    BY DEF TypeOK
  <2> QED BY <2>1, <2>2
<1>8. /\ cfg \in Configs /\ validate(cfg) /\ Live \subseteq Peer
      /\ Cardinality(Live) <= cfg.max_transport_peers
      /\ \A p, q \in Live : sessions[p].player_id = sessions[q].player_id => p = q
      /\ changes \in 0..MaxChanges
  BY DEF TypeOK
<1>9. validate(cfg') <=> validate(cfg)
  BY <1>1
<1> QED BY <1>1, <1>2, <1>3, <1>6, <1>7, <1>8, <1>9 DEF TypeOK

\* The waits that start again.
LEMMA ChangedType ==
    ASSUME TypeOK, Changed, changes < MaxChanges,
           cfg' = cfg, tick' = tick, cursor' = cursor,
           Live' \subseteq Peer, sessions' \in [Live' -> Session],
           Cardinality(Live') <= cfg.max_transport_peers,
           \A p, q \in Live' : sessions'[p].player_id = sessions'[q].player_id => p = q
    PROVE  TypeOK'
<1>1. changes' \in 0..MaxChanges
  BY SnapshotsAssumption DEF TypeOK, Changed
<1>2. age' \in [Live' -> [Players' -> Nat]] /\ shown' \subseteq Live' \X Players'
  BY DEF Changed
<1>3. /\ cfg' \in Configs /\ validate(cfg') /\ tick' \in 0..(TickModulus - 1)
      /\ cursor' \in Peer \cup {None} /\ Cardinality(Live') <= cfg'.max_transport_peers
  BY DEF TypeOK
<1> QED BY <1>1, <1>2, <1>3 DEF TypeOK

\* So do a login,
LEMMA JoinType ==
    ASSUME TypeOK, NEW p \in Peer, NEW player \in Player, Join(p, player)
    PROVE  TypeOK'
<1>1. sessions' = [q \in Live \cup {p} |-> IF q = p THEN NewSession(player) ELSE sessions[q]]
  BY DEF Join
<1>2. Live' = Live \cup {p}
  BY <1>1 DEF Live
<1>3. NewSession(player) \in Session /\ NewSession(player).player_id = player
  BY SnapshotsAssumption DEF NewSession, Session
<1>4. sessions' \in [Live' -> Session]
  BY <1>1, <1>2, <1>3 DEF TypeOK
<1>5. \A a, b \in Live' : sessions'[a].player_id = sessions'[b].player_id => a = b
  <2>1. player \notin Players
    BY DEF Join
  <2> QED BY <1>1, <1>2, <1>3, <2>1 DEF TypeOK, Players
<1>6. Cardinality(Live') <= cfg.max_transport_peers
  <2>1. p \notin Live /\ Cardinality(Live) < cfg.max_transport_peers
    BY DEF Join
  <2>2. Cardinality(Live \cup {p}) = Cardinality(Live) + 1 /\ Cardinality(Live) \in Nat
    BY <2>1, LiveType, FS_AddElement
  <2>3. cfg.max_transport_peers \in Int
    BY ConfigAssumption DEF TypeOK, validate
  <2> QED BY <1>2, <2>1, <2>2, <2>3
<1>7. Live' \subseteq Peer
  BY <1>2 DEF TypeOK
<1> QED BY <1>4, <1>5, <1>6, <1>7, ChangedType DEF Join

\* the end of a session,
LEMMA LeaveType ==
    ASSUME TypeOK, NEW p \in Peer, Leave(p)
    PROVE  TypeOK'
<1>1. sessions' = [q \in Live \ {p} |-> sessions[q]]
  BY DEF Leave
<1>2. Live' = Live \ {p}
  BY <1>1 DEF Live
<1>3. sessions' \in [Live' -> Session] /\ Live' \subseteq Peer
  BY <1>1, <1>2 DEF TypeOK
<1>4. \A a, b \in Live' : sessions'[a].player_id = sessions'[b].player_id => a = b
  BY <1>1, <1>2 DEF TypeOK
<1>5. Cardinality(Live') <= cfg.max_transport_peers
  <2>1. Cardinality(Live') <= Cardinality(Live) /\ Cardinality(Live') \in Nat
    BY <1>2, LiveType, FS_Subset, FS_CardinalityType
  <2>2. cfg.max_transport_peers \in Int
    BY ConfigAssumption DEF TypeOK, validate
  <2> QED BY <2>1, <2>2, LiveType DEF TypeOK
<1> QED BY <1>3, <1>4, <1>5, ChangedType DEF Leave

\* and a move.
LEMMA MoveType ==
    ASSUME TypeOK, NEW p \in Peer, NEW cell \in Cell, Move(p, cell)
    PROVE  TypeOK'
<1>1. sessions' = [sessions EXCEPT ![p].cell = cell] /\ p \in Live
  BY DEF Move
<1>2. Live' = Live
  BY <1>1 DEF Live
<1>3. \A q \in Live : sessions[q] \in Session
  BY DEF TypeOK
<1>4. \A q \in Live : sessions'[q] \in Session /\ sessions'[q].player_id = sessions[q].player_id
  BY <1>1, <1>3 DEF Session, Live
<1>5. sessions' \in [Live' -> Session]
  BY <1>1, <1>2, <1>4 DEF TypeOK
<1>6. \A a, b \in Live' : sessions'[a].player_id = sessions'[b].player_id => a = b
  BY <1>2, <1>4 DEF TypeOK
<1>7. Cardinality(Live') <= cfg.max_transport_peers /\ Live' \subseteq Peer
  BY <1>2 DEF TypeOK
<1> QED BY <1>5, <1>6, <1>7, ChangedType DEF Move

\* The types hold at first.
LEMMA TypeInit == Init => TypeOK
<1> SUFFICES ASSUME Init PROVE TypeOK
  OBVIOUS
<1>1. PICK live \in SUBSET Peer : \E login \in [live -> Player] :
          /\ \A p, q \in live : login[p] = login[q] => p = q
          /\ Cardinality(live) <= cfg.max_transport_peers
          /\ sessions = [p \in live |-> NewSession(login[p])]
  BY DEF Init
<1>2. PICK login \in [live -> Player] :
          /\ \A p, q \in live : login[p] = login[q] => p = q
          /\ Cardinality(live) <= cfg.max_transport_peers
          /\ sessions = [p \in live |-> NewSession(login[p])]
  BY <1>1
<1>3. Live = live
  BY <1>2 DEF Live
<1>4. \A p \in live : NewSession(login[p]) \in Session /\ NewSession(login[p]).player_id = login[p]
  BY SnapshotsAssumption DEF NewSession, Session
<1>5. sessions \in [Live -> Session]
  BY <1>2, <1>3, <1>4
<1>6. \A p, q \in Live : sessions[p].player_id = sessions[q].player_id => p = q
  BY <1>2, <1>3, <1>4
<1>7. age \in [Live -> [Players -> Nat]] /\ shown \subseteq Live \X Players
  BY DEF Init
<1>8. tick \in 0..(TickModulus - 1) /\ changes \in 0..MaxChanges /\ cursor \in Peer \cup {None}
  BY SnapshotsAssumption DEF Init
<1>9. cfg \in Configs /\ validate(cfg)
  BY DEF Init
<1> QED BY <1>2, <1>3, <1>5, <1>6, <1>7, <1>8, <1>9 DEF TypeOK

\* Every step keeps the types.
LEMMA TypeNext == TypeOK /\ [Next]_vars => TypeOK'
<1> SUFFICES ASSUME TypeOK, [Next]_vars PROVE TypeOK'
  OBVIOUS
<1>1. CASE UNCHANGED vars
  <2>1. /\ cfg' = cfg /\ sessions' = sessions /\ tick' = tick /\ cursor' = cursor
        /\ changes' = changes /\ age' = age /\ shown' = shown
    BY <1>1 DEF vars
  <2>2. Live' = Live /\ Players' = Players
    BY <2>1 DEF Live, Players
  <2>3. validate(cfg') <=> validate(cfg)
    BY <2>1
  <2> QED BY <2>1, <2>2, <2>3 DEF TypeOK
<1>2. CASE Tick
  BY <1>2, TickType
<1> QED BY <1>1, <1>2, JoinType, LeaveType, MoveType DEF Next

-----------------------------------------------------------------------------
(* The round of the recipients.                                            *)

\* Ticks since the last visit of a recipient.
Elapsed(v) == (tick - sessions[v].last_visit) % TickModulus

\* The ids of peers from the cursor up to a recipient, whoever is live.
Distance(v) == Cardinality({q \in Peer : ~Precedes(RecipientCursor, v, q)})

\* A recipient that is due is visited before the counter comes round: each
\* tick brings the cursor nearer, also while sessions come and go.
InTime ==
    \A v \in Live :
        sessions[v].last_visit # 0 => Elapsed(v) + Distance(v) <= Cadence + Cardinality(Peer)

\* The live peers that come before it.
Place(v) == Cardinality(Ahead(RecipientCursor, Live, v))

Rounds == checked_div_ceil(Cardinality(Live), SNAPSHOT_PACKETS_PER_TICK)

\* It is due by the next tick.
Ripe(v) == sessions[v].last_visit = 0 \/ Elapsed(v) + 1 >= Cadence

\* In so many ticks it will have been visited, if the sessions stay.
Wait(v) ==
    IF Ripe(v) THEN (Place(v) \div SNAPSHOT_PACKETS_PER_TICK) + 1
    ELSE Cadence - Elapsed(v) + Rounds - 1

\* There is a distance to every peer, at most the number of their ids.
LEMMA DistanceType ==
    ASSUME NEW c \in Int, NEW v \in Peer, NEW D, D = {q \in Peer : ~Precedes(c, v, q)}
    PROVE  /\ IsFiniteSet(D)
           /\ Cardinality(D) \in Nat /\ Cardinality(Peer) \in Nat
           /\ 1 <= Cardinality(D) /\ Cardinality(D) <= Cardinality(Peer)
<1>1. Peer \subseteq Int /\ IsFiniteSet(Peer)
  BY SnapshotsAssumption
<1>2. D \subseteq Peer /\ v \in D
  BY <1>1, PrecedesOrder
<1>3. IsFiniteSet(D) /\ Cardinality(D) <= Cardinality(Peer)
  BY <1>1, <1>2, FS_Subset
<1>4. Cardinality(D) \in Nat /\ Cardinality(D) # 0
  BY <1>2, <1>3, FS_CardinalityType, FS_EmptySet
<1> QED BY <1>1, <1>3, <1>4, FS_CardinalityType

\* The cursor comes nearer to whoever it has not reached.
LEMMA DistanceShrinks ==
    ASSUME NEW c \in Int, NEW l \in Peer, NEW v \in Peer, Precedes(c, l, v),
           NEW D, D = {q \in Peer : ~Precedes(c, v, q)},
           NEW N, N = {q \in Peer : ~Precedes(l, v, q)}
    PROVE  Cardinality(N) < Cardinality(D)
<1>1. Peer \subseteq Int
  BY SnapshotsAssumption
<1>2. l \in Int /\ v \in Int
  BY <1>1
<1>3. \A q \in Int : ~Precedes(l, v, q) => ~Precedes(c, v, q)
  BY <1>2 DEF Precedes
<1>4. ~Precedes(c, v, l) /\ Precedes(l, v, l)
  BY <1>2 DEF Precedes
<1>5. N \subseteq D /\ l \in D /\ l \notin N
  BY <1>1, <1>3, <1>4
<1>6. IsFiniteSet(D) /\ Cardinality(D) \in Nat /\ Cardinality(N) \in Nat
  BY <1>2, DistanceType
<1> QED BY <1>5, <1>6, FS_Subset

\* The time that has passed after a tick.
LEMMA TickElapsed ==
    ASSUME TypeOK, InTime, Tick, NEW v \in Live
    PROVE  /\ Elapsed(v) \in Nat
           /\ v \in Visits(Now) => Elapsed(v)' = 0
           /\ v \notin Visits(Now) /\ sessions[v].last_visit # 0 =>
                /\ Elapsed(v)' = Elapsed(v) + 1
                /\ (Now - sessions[v].last_visit) % TickModulus = Elapsed(v) + 1
           /\ Due(v, Now) <=> Ripe(v)
<1> DEFINE M == TickModulus
           u == sessions[v].last_visit
<1>1. M \in Nat \ {0} /\ tick \in 0..(M - 1) /\ u \in 0..(M - 1)
  BY SnapshotsAssumption DEF TypeOK, Session
<1>2. Elapsed(v) \in Nat
  BY <1>1 DEF Elapsed
<1>3. Now \in 0..(M - 1)
  BY <1>1, NextTick DEF Now
<1>4. tick' = Now
  BY TickSessions
<1>5. ASSUME v \in Visits(Now) PROVE Elapsed(v)' = 0
  <2>1. sessions'[v].last_visit = Now
    BY <1>5, TickSessions, VisitedType
  <2>2. (Now - Now) % M = 0
    BY <1>1, <1>3, TicksBetween
  <2> QED BY <1>4, <2>1, <2>2 DEF Elapsed
<1>6. ASSUME u # 0 PROVE (Now - u) % M = Elapsed(v) + 1
  <2>1. Distance(v) \in Nat /\ 1 <= Distance(v)
    BY DistanceType, LiveType DEF TypeOK, Distance
  <2>2. Elapsed(v) + Distance(v) <= Cadence + Cardinality(Peer)
    BY <1>6 DEF InTime
  <2>3. Elapsed(v) + 1 < M
    BY <1>1, <1>2, <2>1, <2>2, CadenceType
  <2>4. ((tick - u) % M) + 1 < M
    BY <2>3 DEF Elapsed
  <2>5. (((tick + 1) % M) - u) % M = ((tick - u) % M) + 1
    <3> HIDE DEF M, u
    <3> QED BY <1>1, <2>4, OneMoreTick
  <2> QED BY <2>5 DEF Elapsed, Now
<1>7. ASSUME v \notin Visits(Now), u # 0 PROVE Elapsed(v)' = Elapsed(v) + 1
  <2>1. sessions'[v] = sessions[v]
    BY <1>7, TickSessions
  <2> QED BY <1>4, <1>6, <1>7, <2>1 DEF Elapsed
<1>8. Due(v, Now) <=> Ripe(v)
  BY <1>6 DEF Due, Ripe, Cadence
<1> QED BY <1>2, <1>5, <1>6, <1>7, <1>8

\* A tick keeps InTime: who is visited has waited no tick, who is not due has
\* waited less than the cadence, and the cursor has come nearer to the others.
LEMMA TickInTime == TypeOK /\ InTime /\ Tick => InTime'
<1> SUFFICES ASSUME TypeOK, InTime, Tick PROVE InTime'
  OBVIOUS
<1>0. Live' = Live /\ Cadence' = Cadence
  BY TickSessions DEF Cadence
<1> SUFFICES ASSUME NEW v \in Live, sessions'[v].last_visit # 0
             PROVE  Elapsed(v)' + Distance(v)' <= Cadence + Cardinality(Peer)
  BY <1>0 DEF InTime
<1>1. v \in Peer /\ Cadence \in Nat \ {0} /\ RecipientCursor \in Int
  BY CadenceType, LiveType DEF TypeOK
<1>2. PICK l \in Peer : /\ l = LastOf(Recipients, RecipientCursor) /\ RecipientCursor' = l
  BY TickRecipients DEF TypeOK
<1>3. l \in Int
  BY SnapshotsAssumption
<1>4. /\ Distance(v) \in Nat /\ Distance(v)' \in Nat /\ Cardinality(Peer) \in Nat
      /\ Distance(v)' <= Cardinality(Peer)
  BY <1>1, <1>2, <1>3, DistanceType DEF Distance
<1>5. CASE v \in Visits(Now)
  BY <1>1, <1>4, <1>5, TickElapsed
<1>6. CASE v \notin Visits(Now)
  <2>1. sessions[v].last_visit # 0
    BY <1>6, TickSessions
  <2>2. Elapsed(v)' = Elapsed(v) + 1 /\ Elapsed(v) \in Nat
    BY <1>6, <2>1, TickElapsed
  <2>3. CASE v \in Recipients
    <3>1. ~Ripe(v)
      BY <1>6, <2>3, TickElapsed DEF Visits
    <3> QED BY <1>1, <1>4, <2>1, <2>2, <3>1 DEF Ripe
  <2>4. CASE v \notin Recipients
    <3>1. Precedes(RecipientCursor, l, v)
      BY <1>2, <2>4, LiveType, PassedByLast, ConfigAssumption DEF Recipients
    <3>2. Distance(v)' < Distance(v)
      BY <1>1, <1>2, <3>1, DistanceShrinks DEF Distance
    <3>3. Elapsed(v) + Distance(v) <= Cadence + Cardinality(Peer)
      BY <2>1 DEF InTime
    <3> QED BY <1>1, <1>4, <2>2, <3>2, <3>3
  <2> QED BY <2>3, <2>4
<1> QED BY <1>5, <1>6

\* A change of the sessions leaves the time and the cursor alone.
LEMMA ChangeInTime ==
    ASSUME TypeOK, InTime, cfg' = cfg, tick' = tick, cursor' = cursor,
           \A v \in Live' : \/ sessions'[v].last_visit = 0
                            \/ v \in Live /\ sessions'[v].last_visit = sessions[v].last_visit
    PROVE  InTime'
<1>1. Cadence' = Cadence /\ RecipientCursor' = RecipientCursor
  BY DEF Cadence, RecipientCursor
<1>2. \A v : Distance(v)' = Distance(v)
  BY <1>1 DEF Distance
<1>3. ASSUME NEW v \in Live', sessions'[v].last_visit # 0
      PROVE  Elapsed(v)' + Distance(v)' <= Cadence' + Cardinality(Peer)
  <2>1. v \in Live /\ sessions'[v].last_visit = sessions[v].last_visit
    BY <1>3
  <2>2. Elapsed(v)' = Elapsed(v)
    BY <2>1 DEF Elapsed
  <2> QED BY <1>1, <1>2, <1>3, <2>1, <2>2 DEF InTime
<1> QED BY <1>3 DEF InTime

\* Nobody has been visited at first.
LEMMA InTimeInit == Init => InTime
<1> SUFFICES ASSUME Init, NEW v \in Live PROVE sessions[v].last_visit = 0
  BY DEF InTime
<1> QED BY DEF Init, Live, NewSession

\* Every step keeps InTime.
LEMMA InTimeNext == TypeOK /\ InTime /\ [Next]_vars => InTime'
<1> SUFFICES ASSUME TypeOK, InTime, [Next]_vars PROVE InTime'
  OBVIOUS
<1>1. CASE UNCHANGED vars
  BY <1>1, ChangeInTime DEF vars, Live
<1>2. CASE Tick
  BY <1>2, TickInTime
<1>3. ASSUME NEW p \in Peer, NEW player \in Player, Join(p, player) PROVE InTime'
  <2>1. sessions' = [q \in Live \cup {p} |-> IF q = p THEN NewSession(player) ELSE sessions[q]]
    BY <1>3 DEF Join
  <2>2. \A v \in Live' : \/ sessions'[v].last_visit = 0
                         \/ v \in Live /\ sessions'[v].last_visit = sessions[v].last_visit
    BY <2>1 DEF Live, NewSession
  <2> QED BY <1>3, <2>2, ChangeInTime DEF Join
<1>4. ASSUME NEW p \in Peer, Leave(p) PROVE InTime'
  <2>1. \A v \in Live' : v \in Live /\ sessions'[v].last_visit = sessions[v].last_visit
    BY <1>4 DEF Leave, Live
  <2> QED BY <1>4, <2>1, ChangeInTime DEF Leave
<1>5. ASSUME NEW p \in Peer, NEW cell \in Cell, Move(p, cell) PROVE InTime'
  <2>1. sessions' = [sessions EXCEPT ![p].cell = cell]
    BY <1>5 DEF Move
  <2>2. \A v \in Live : sessions[v] \in Session
    BY DEF TypeOK
  <2>3. \A v \in Live' : v \in Live /\ sessions'[v].last_visit = sessions[v].last_visit
    BY <2>1, <2>2 DEF Live, Session
  <2> QED BY <1>5, <2>3, ChangeInTime DEF Move
<1> QED BY <1>1, <1>2, <1>3, <1>4, <1>5 DEF Next

\* The most ticks between two visits: Gap of the sessions there are.
Period == Cadence + Rounds - 1

\* The parts of a wait, and its bound.
WaitsBounded ==
    \A v \in Live :
        /\ Elapsed(v) \in Nat /\ Place(v) \in Nat
        /\ (Place(v) \div SNAPSHOT_PACKETS_PER_TICK) + 1 <= Rounds
        /\ Rounds \in Nat \ {0} /\ Period \in Nat
        /\ Wait(v) \in Nat /\ 1 <= Wait(v) /\ Wait(v) <= Period

\* The next visit is at most a period away.
LEMMA WaitBounds == TypeOK => WaitsBounded
<1> SUFFICES ASSUME TypeOK, NEW v \in Live
             PROVE  /\ Elapsed(v) \in Nat /\ Place(v) \in Nat
                    /\ (Place(v) \div SNAPSHOT_PACKETS_PER_TICK) + 1 <= Rounds
                    /\ Rounds \in Nat \ {0} /\ Period \in Nat
                    /\ Wait(v) \in Nat /\ 1 <= Wait(v) /\ Wait(v) <= Period
  BY DEF WaitsBounded
<1> DEFINE P == SNAPSHOT_PACKETS_PER_TICK
           n == Cardinality(Live)
<1>1. P \in Nat \ {0} /\ Cadence \in Nat \ {0} /\ n \in Nat
  BY ConfigAssumption, CadenceType, LiveType
<1>2. Place(v) \in Nat /\ Place(v) < n
  BY LiveType, AheadSize DEF Place
<1>3. TickModulus \in Nat \ {0} /\ tick - sessions[v].last_visit \in Int
  BY SnapshotsAssumption DEF TypeOK, Session
<1>4. Elapsed(v) \in Nat
  BY <1>3 DEF Elapsed
<1>5. /\ checked_div_ceil(n, P) \in Nat
      /\ (Place(v) \div P) + 1 <= checked_div_ceil(n, P)
      /\ Place(v) \div P \in Nat
  BY <1>1, <1>2, RoundUp
<1>6. Rounds = checked_div_ceil(n, P)
  BY DEF Rounds
<1>7. (Place(v) \div P) + 1 <= Rounds
  BY <1>5, <1>6
<1> HIDE DEF P, n
<1>8. Rounds \in Nat \ {0} /\ Period \in Nat
  BY <1>1, <1>5, <1>6 DEF Period
<1>9. Wait(v) \in Nat /\ 1 <= Wait(v) /\ Wait(v) <= Period
  <2>1. CASE Ripe(v)
    <3>1. Wait(v) = (Place(v) \div P) + 1
      BY <2>1 DEF Wait, P
    <3> QED BY <1>1, <1>5, <1>7, <1>8, <3>1 DEF Period
  <2>2. CASE ~Ripe(v)
    <3>1. Wait(v) = Cadence - Elapsed(v) + Rounds - 1
      BY <2>2 DEF Wait
    <3>2. Elapsed(v) + 1 < Cadence
      BY <1>1, <1>4, <2>2 DEF Ripe
    <3> QED BY <1>1, <1>4, <1>8, <3>1, <3>2 DEF Period
  <2> QED BY <2>1, <2>2
<1> QED BY <1>2, <1>4, <1>7, <1>8, <1>9 DEF P

\* A tick brings the visit of whoever it does not visit nearer.
LEMMA WaitStep ==
    ASSUME TypeOK, InTime, Tick, TypeOK', NEW v \in Live
    PROVE  /\ Period' = Period /\ Period \in Nat
           /\ Wait(v) \in Nat /\ 1 <= Wait(v)
           /\ Wait(v)' \in Nat /\ Wait(v)' <= Period
           /\ v \notin Visits(Now) => Wait(v)' + 1 <= Wait(v)
<1> DEFINE P == SNAPSHOT_PACKETS_PER_TICK
<1>1. Live' = Live /\ Cadence' = Cadence
  BY TickSessions DEF Cadence
<1>2. Rounds' = Rounds
  BY <1>1 DEF Rounds
<1>3. Period' = Period
  BY <1>1, <1>2 DEF Period
<1>4. WaitsBounded'
  BY WaitBounds, PTL
<1>5. /\ Elapsed(v) \in Nat /\ Place(v) \in Nat /\ (Place(v) \div P) + 1 <= Rounds
      /\ Rounds \in Nat \ {0} /\ Period \in Nat
      /\ Wait(v) \in Nat /\ 1 <= Wait(v)
  BY WaitBounds DEF WaitsBounded
<1>6. /\ Elapsed(v)' \in Nat /\ Place(v)' \in Nat /\ (Place(v)' \div P) + 1 <= Rounds
      /\ Wait(v)' \in Nat /\ Wait(v)' <= Period
  BY <1>1, <1>2, <1>3, <1>4 DEF WaitsBounded
<1>7. ASSUME v \notin Visits(Now) PROVE Wait(v)' + 1 <= Wait(v)
  <2>1. sessions'[v] = sessions[v]
    BY <1>7, TickSessions
  <2>2. sessions[v].last_visit # 0 => Elapsed(v)' = Elapsed(v) + 1
    BY <1>7, TickElapsed
  <2>3. P \in Nat \ {0} /\ Cadence \in Nat \ {0}
    BY ConfigAssumption, CadenceType
  <2>4. CASE Ripe(v)
    <3>1. v \in Live \ Recipients
      BY <1>7, <2>4, TickElapsed DEF Visits
    <3>2. RecipientCursor' = LastOf(Recipients, RecipientCursor)
      BY TickRecipients
    <3>3. Place(v)' = Place(v) - P
      BY <1>1, <2>3, <3>1, <3>2, LiveType, MovesUp DEF Place, Recipients
    <3>4. Ripe(v)'
      BY <1>1, <1>5, <2>1, <2>2, <2>3, <2>4 DEF Ripe
    <3>5. /\ Wait(v) = (Place(v) \div P) + 1
          /\ Wait(v)' = (Place(v)' \div P) + 1
      BY <2>4, <3>4 DEF Wait
    <3>6. Place(v)' + P = Place(v)
      BY <1>5, <2>3, <3>3
    <3> HIDE DEF P
    <3>7. Place(v) \div P = (Place(v)' \div P) + 1
      BY <1>6, <2>3, <3>6, RoundUp
    <3> QED BY <1>5, <1>6, <3>5, <3>7
  <2>5. CASE ~Ripe(v)
    <3>1. /\ Wait(v) = Cadence - Elapsed(v) + Rounds - 1
          /\ Elapsed(v) + 1 < Cadence
      BY <1>5, <2>3, <2>5 DEF Wait, Ripe
    <3>2. Elapsed(v)' = Elapsed(v) + 1
      BY <2>2, <2>5 DEF Ripe
    <3>3. CASE Ripe(v)'
      <4>1. Wait(v)' = (Place(v)' \div P) + 1
        BY <3>3 DEF Wait
      <4>2. Wait(v)' <= Rounds
        BY <1>6, <4>1
      <4> QED BY <1>5, <1>6, <2>3, <3>1, <4>2
    <3>4. CASE ~Ripe(v)'
      <4>1. Wait(v)' = Cadence - Elapsed(v)' + Rounds - 1
        BY <1>1, <1>2, <3>4 DEF Wait
      <4> QED BY <1>5, <2>3, <3>1, <3>2, <4>1
    <3> QED BY <3>3, <3>4
  <2> QED BY <2>4, <2>5
<1> QED BY <1>3, <1>5, <1>6, <1>7

-----------------------------------------------------------------------------
(* The round of the players that a recipient is shown.                     *)

\* The players that come before one in the recipient's next packets.
Turn(v, w) == Cardinality(Ahead(Begin(v), Selected(v), w))

\* The packets up to the one that shows a player.  A round that is not over
\* ends with a packet of its own: the next one starts at what is left.
Packets(v, w) ==
    LET E == SNAPSHOT_ENTITIES_PER_PACKET
    IN  IF Turn(v, w) < Left(v) THEN (Turn(v, w) \div E) + 1
        ELSE checked_div_ceil(Left(v), E) + ((Turn(v, w) - Left(v)) \div E) + 1

\* The packets of a whole round.
Chunks(v) == checked_div_ceil(Cardinality(Selected(v)), SNAPSHOT_ENTITIES_PER_PACKET)

\* The place of a player in the packets, and its bound.
PacketsBounded ==
    \A v \in Live : \A w \in Selected(v) :
        /\ Turn(v, w) \in Nat /\ Turn(v, w) < Cardinality(Selected(v))
        /\ Chunks(v) \in Nat
        /\ Packets(v, w) \in Nat /\ 1 <= Packets(v, w) /\ Packets(v, w) <= 1 + Chunks(v)

\* A player is at most one packet further away than a whole round.
LEMMA PacketsBounds == TypeOK => PacketsBounded
<1> SUFFICES ASSUME TypeOK, NEW v \in Live, NEW w \in Selected(v)
             PROVE  /\ Turn(v, w) \in Nat /\ Turn(v, w) < Cardinality(Selected(v))
                    /\ Chunks(v) \in Nat
                    /\ Packets(v, w) \in Nat /\ 1 <= Packets(v, w) /\ Packets(v, w) <= 1 + Chunks(v)
  BY DEF PacketsBounded
<1> DEFINE E == SNAPSHOT_ENTITIES_PER_PACKET
           m == Cardinality(Selected(v))
           i == Turn(v, w)
           left == Left(v)
<1>1. E \in Nat \ {0}
  BY ConfigAssumption
<1>2. m \in Nat /\ left \in 1..m
  BY SelectedType, PacketType
<1>3. i \in Nat /\ i < m
  BY SelectedType, AheadSize DEF Turn
<1>4. Chunks(v) = checked_div_ceil(m, E)
  BY DEF Chunks
<1>5. Packets(v, w) = IF i < left THEN (i \div E) + 1
                      ELSE checked_div_ceil(left, E) + ((i - left) \div E) + 1
  BY DEF Packets
<1> HIDE DEF E, m, i, left
<1>6. Chunks(v) \in Nat /\ i \div E \in Nat /\ (i \div E) + 1 <= Chunks(v)
  BY <1>1, <1>2, <1>3, <1>4, RoundUp
<1>7. CASE i < left
  BY <1>3, <1>5, <1>6, <1>7 DEF i, m
<1>8. CASE ~(i < left)
  <2>1. left \in Nat /\ i - left \in Nat /\ i \in left..(m - 1)
    BY <1>2, <1>3, <1>8
  <2>2. PICK p \in Nat : p = checked_div_ceil(left, E)
    BY <1>1, <2>1, RoundUp
  <2>3. PICK q \in Nat : q = (i - left) \div E
    BY <1>1, <2>1, RoundUp
  <2>4. p + q <= Chunks(v)
    BY <1>1, <1>2, <1>4, <2>1, <2>2, <2>3, SplitRound
  <2>5. Packets(v, w) = p + q + 1
    BY <1>5, <1>8, <2>2, <2>3
  <2> QED BY <1>3, <1>6, <2>4, <2>5 DEF i, m
<1> QED BY <1>7, <1>8

\* A packet that leaves a player out is one packet fewer before its own.
LEMMA PacketsStep ==
    ASSUME TypeOK, TypeOK', Tick, NEW v \in Live, NEW w \in Selected(v)
    PROVE  /\ Chunks(v)' = Chunks(v)
           /\ v \in Visits(Now) /\ w \notin Shown(v) =>
                1 <= Packets(v, w)' /\ Packets(v, w)' = Packets(v, w) - 1
           /\ v \notin Visits(Now) => Packets(v, w)' = Packets(v, w)
<1> DEFINE E == SNAPSHOT_ENTITIES_PER_PACKET
           S == Selected(v)
           m == Cardinality(S)
           k == Cardinality(Shown(v))
<1>1. Live' = Live /\ Selected(v)' = S
  BY TickSessions, TickSelected
<1>2. Chunks(v)' = Chunks(v)
  BY <1>1 DEF Chunks
<1>3. ASSUME v \notin Visits(Now) PROVE Packets(v, w)' = Packets(v, w)
  <2>1. sessions'[v] = sessions[v]
    BY <1>3, TickSessions
  <2>2. Begin(v)' = Begin(v) /\ Left(v)' = Left(v)
    BY <1>1, <2>1 DEF Begin, Left
  <2>3. Turn(v, w)' = Turn(v, w)
    BY <1>1, <2>2 DEF Turn
  <2> QED BY <2>2, <2>3 DEF Packets
<1>4. ASSUME v \in Visits(Now), w \notin Shown(v)
      PROVE  1 <= Packets(v, w)' /\ Packets(v, w)' = Packets(v, w) - 1
  <2>1. PacketsBounded'
    BY PacketsBounds, PTL
  <2>2. 1 <= Packets(v, w)'
    BY <1>1, <2>1 DEF PacketsBounded
  <2>3. /\ S \in SUBSET Int /\ IsFiniteSet(S) /\ m \in Nat /\ Begin(v) \in Int /\ S # {}
    BY SelectedType
  <2>4. E \in Nat \ {0}
    BY ConfigAssumption
  <2>5. PICK l : l = LastOf(Shown(v), Begin(v)) /\ l \in S
    BY <2>3, PacketType
  <2>6. sessions'[v].cursor = l /\ sessions'[v].remaining = Left(v) - k
    BY <1>4, <2>3, <2>5, TickSessions, VisitedType
  <2>7. Begin(v)' = l
    BY <1>1, <2>5, <2>6 DEF Begin
  <2>8. /\ Left(v) \in 1..m /\ k \in 1..Left(v) /\ Left(v) - k \in Nat
        /\ Left(v) <= E => k = Left(v)
        /\ Left(v) >= E => k = E
        /\ Shown(v) = First(k, S, Begin(v))
    BY <2>3, <2>4, PacketType
  <2>9. Left(v)' = IF Left(v) - k = 0 THEN m ELSE Left(v) - k
    <3>1. Min({Left(v) - k, m}) = IF Left(v) - k <= m THEN Left(v) - k ELSE m
      BY <2>3, <2>8, OfTwo
    <3>2. Left(v)' = IF Left(v) - k = 0 THEN m ELSE Min({Left(v) - k, m})
      BY <1>1, <2>5, <2>6 DEF Left
    <3> QED BY <2>3, <2>8, <3>1, <3>2
  <2>10. Turn(v, w) \in Nat /\ Turn(v, w) < m
    BY <2>3, AheadSize DEF Turn
  <2>11. k \in Nat \ {0}
    BY <2>8
  <2>12. Turn(v, w)' = Turn(v, w) - k
    BY <1>1, <1>4, <2>3, <2>5, <2>7, <2>8, <2>11, MovesUp DEF Turn
  <2>13. k <= Turn(v, w)
    <3>1. ~(Cardinality(Ahead(Begin(v), S, w)) < k)
      BY <1>4, <2>8 DEF First
    <3> QED BY <2>10, <2>11, <3>1 DEF Turn
  <2>14. PICK i \in Nat, left \in Nat, j \in Nat, rest \in Nat :
            i = Turn(v, w) /\ left = Left(v) /\ j = Turn(v, w)' /\ rest = Left(v)'
    BY <2>3, <2>8, <2>9, <2>10, <2>11, <2>12, <2>13
  <2>15. /\ Packets(v, w) = IF i < left THEN (i \div E) + 1
                            ELSE checked_div_ceil(left, E) + ((i - left) \div E) + 1
         /\ Packets(v, w)' = IF j < rest THEN (j \div E) + 1
                             ELSE checked_div_ceil(rest, E) + ((j - rest) \div E) + 1
    BY <2>14 DEF Packets
  <2> HIDE DEF E, m, k, S
  <2>16. CASE left <= E
    <3>1. j = i - left /\ rest = m /\ j < rest /\ ~(i < left)
      BY <2>3, <2>8, <2>9, <2>10, <2>12, <2>13, <2>14, <2>16
    <3>2. checked_div_ceil(left, E) = 1
      BY <2>4, <2>8, <2>14, <2>16, RoundUp
    <3>3. PICK q \in Nat : q = j \div E
      BY <2>4, <2>14, RoundUp
    <3>4. Packets(v, w) = 1 + q + 1 /\ Packets(v, w)' = q + 1
      BY <2>15, <3>1, <3>2, <3>3
    <3> QED BY <2>2, <3>3, <3>4
  <2>17. CASE left > E
    <3>1. rest + E = left /\ j + E = i
      BY <2>3, <2>4, <2>8, <2>9, <2>10, <2>12, <2>13, <2>14, <2>17
    <3>2. CASE i < left
      <4>1. j < rest
        BY <2>4, <3>1, <3>2
      <4>2. PICK q \in Nat : q = j \div E /\ i \div E = q + 1
        BY <2>4, <3>1, RoundUp
      <4>3. Packets(v, w) = q + 1 + 1 /\ Packets(v, w)' = q + 1
        BY <2>15, <3>2, <4>1, <4>2
      <4> QED BY <2>2, <4>2, <4>3
    <3>3. CASE ~(i < left)
      <4>1. ~(j < rest) /\ j - rest = i - left /\ j - rest \in Nat
        BY <2>4, <3>1, <3>3
      <4>2. PICK p \in Nat : p = checked_div_ceil(rest, E) /\ checked_div_ceil(left, E) = p + 1
        BY <2>4, <3>1, RoundUp
      <4>3. PICK q \in Nat : q = (j - rest) \div E
        BY <2>4, <4>1, RoundUp
      <4>4. Packets(v, w) = p + 1 + q + 1 /\ Packets(v, w)' = p + q + 1
        BY <2>15, <3>3, <4>1, <4>2, <4>3
      <4> QED BY <2>2, <4>2, <4>3, <4>4
    <3> QED BY <3>2, <3>3
  <2> QED BY <2>4, <2>14, <2>16, <2>17
<1> QED BY <1>2, <1>3, <1>4

-----------------------------------------------------------------------------
(* The waits.                                                              *)

\* Nobody has waited yet: after a change of the sessions.
Fresh == \A v \in Live, w \in Players : age[v][w] = 0

\* What a player has waited, and has still to wait, is within the bound.
Served ==
    \A v \in Live, w \in Players :
        IF w \in Selected(v)
          THEN age[v][w] + Wait(v) + (Packets(v, w) - 1) * Period <= Period * (1 + Chunks(v))
          ELSE age[v][w] = 0

\* The players are in the order of their waits, the longest first.
Sorted ==
    \A v \in Live : \A w, x \in Selected(v) :
        Precedes(Begin(v), w, x) => age[v][w] >= age[v][x]

\* Products of the number of packets and the period.
LEMMA Times ==
    ASSUME NEW p \in Nat, NEW a \in Nat, NEW b \in Nat, 1 <= a, a <= 1 + b
    PROVE  /\ (a - 1) * p \in Nat /\ p * (1 + b) \in Nat
           /\ p + (a - 1) * p <= p * (1 + b)
           /\ 2 <= a => (a - 1) * p = p + (a - 1 - 1) * p
<1>1. PICK i \in Nat : i = a - 1
  OBVIOUS
<1>2. PICK j \in Nat : j = b - i
  BY <1>1
<1>3. b = i + j
  BY <1>1, <1>2
<1>4. i * p \in Nat /\ j * p \in Nat
  OBVIOUS
<1>5. p * (1 + b) = p + i * p + j * p
  BY <1>3
<1>6. p + i * p <= p * (1 + b) /\ p * (1 + b) \in Nat
  BY <1>4, <1>5
<1>7. ASSUME 2 <= a PROVE i * p = p + (i - 1) * p
  OBVIOUS
<1> QED BY <1>1, <1>4, <1>6, <1>7

\* When nobody has waited yet, everything is within the bound and in order.
LEMMA FreshServed == TypeOK /\ Fresh => Served /\ Sorted
<1> SUFFICES ASSUME TypeOK, Fresh PROVE Served /\ Sorted
  OBVIOUS
<1>1. ASSUME NEW v \in Live, NEW w \in Selected(v)
      PROVE  age[v][w] + Wait(v) + (Packets(v, w) - 1) * Period <= Period * (1 + Chunks(v))
  <2>1. age[v][w] = 0
    BY SelectedType DEF Fresh
  <2>2. Wait(v) \in Nat /\ Wait(v) <= Period /\ Period \in Nat
    BY WaitBounds DEF WaitsBounded
  <2>3. /\ Packets(v, w) \in Nat /\ 1 <= Packets(v, w) /\ Packets(v, w) <= 1 + Chunks(v)
        /\ Chunks(v) \in Nat
    BY PacketsBounds DEF PacketsBounded
  <2>4. /\ (Packets(v, w) - 1) * Period \in Nat /\ Period * (1 + Chunks(v)) \in Nat
        /\ Period + (Packets(v, w) - 1) * Period <= Period * (1 + Chunks(v))
    BY <2>2, <2>3, Times
  <2> QED BY <2>1, <2>2, <2>4
<1>2. Served
  BY <1>1 DEF Served, Fresh
<1>3. Sorted
  BY SelectedType DEF Sorted, Fresh
<1> QED BY <1>2, <1>3

\* The wait of a player after a tick.
LEMMA TickAge ==
    ASSUME TypeOK, Tick, NEW v \in Live, NEW w \in Players
    PROVE  /\ age[v][w] \in Nat
           /\ age'[v][w] = IF (v \in Visits(Now) /\ w \in Shown(v)) \/ w \notin Selected(v) THEN 0
                           ELSE age[v][w] + 1
<1> DEFINE shows == UNION {{<<u, x>> : x \in Shown(u)} : u \in Visits(Now)}
<1>1. <<v, w>> \in shows <=> v \in Visits(Now) /\ w \in Shown(v)
  OBVIOUS
<1>2. age' = [u \in Live |-> [x \in Players |->
                IF <<u, x>> \in shows \/ x \notin Selected(u) THEN 0 ELSE age[u][x] + 1]]
  BY DEF Tick, Now
<1> HIDE DEF shows
<1>3. age'[v][w] = IF <<v, w>> \in shows \/ w \notin Selected(v) THEN 0 ELSE age[v][w] + 1
  BY <1>2
<1>4. age[v][w] \in Nat
  BY DEF TypeOK
<1> QED BY <1>1, <1>3, <1>4

\* A tick keeps the waits within the bound.  A player that is not shown has
\* waited one tick more; either the visit has come a tick nearer, or there is
\* a packet less to come and the next visit is at most a period away.
LEMMA TickServed ==
    ASSUME TypeOK, TypeOK', InTime, Served, Tick
    PROVE  Served'
<1>1. Live' = Live /\ Players' = Players
  BY TickSessions
<1>2. SUFFICES ASSUME NEW v \in Live, NEW w \in Players
               PROVE  IF w \in Selected(v)'
                        THEN age'[v][w] + Wait(v)' + (Packets(v, w)' - 1) * Period'
                               <= Period' * (1 + Chunks(v)')
                        ELSE age'[v][w] = 0
  BY <1>1 DEF Served
<1>3. Selected(v)' = Selected(v)
  BY TickSelected
<1>4. CASE w \notin Selected(v)
  BY <1>3, <1>4, TickAge
<1>5. CASE w \in Selected(v)
  <2>1. /\ Period' = Period /\ Period \in Nat
        /\ Wait(v) \in Nat /\ 1 <= Wait(v) /\ Wait(v)' \in Nat /\ Wait(v)' <= Period
        /\ v \notin Visits(Now) => Wait(v)' + 1 <= Wait(v)
    BY WaitStep
  <2>2. /\ Chunks(v)' = Chunks(v)
        /\ v \in Visits(Now) /\ w \notin Shown(v) =>
             1 <= Packets(v, w)' /\ Packets(v, w)' = Packets(v, w) - 1
        /\ v \notin Visits(Now) => Packets(v, w)' = Packets(v, w)
    BY <1>5, PacketsStep
  <2>3. /\ Packets(v, w) \in Nat /\ 1 <= Packets(v, w) /\ Packets(v, w) <= 1 + Chunks(v)
        /\ Chunks(v) \in Nat
    BY <1>5, PacketsBounds DEF PacketsBounded
  <2>4. PacketsBounded'
    BY PacketsBounds, PTL
  <2>5. Packets(v, w)' \in Nat /\ 1 <= Packets(v, w)' /\ Packets(v, w)' <= 1 + Chunks(v)
    BY <1>1, <1>3, <1>5, <2>2, <2>4 DEF PacketsBounded
  <2>6. /\ age[v][w] \in Nat
        /\ age'[v][w] = IF v \in Visits(Now) /\ w \in Shown(v) THEN 0 ELSE age[v][w] + 1
    BY <1>5, TickAge
  <2>7. age[v][w] + Wait(v) + (Packets(v, w) - 1) * Period <= Period * (1 + Chunks(v))
    BY <1>5 DEF Served
  <2>8. /\ (Packets(v, w) - 1) * Period \in Nat /\ Period * (1 + Chunks(v)) \in Nat
        /\ 2 <= Packets(v, w) => (Packets(v, w) - 1) * Period = Period + (Packets(v, w) - 1 - 1) * Period
    BY <2>1, <2>3, Times
  <2>9. /\ (Packets(v, w)' - 1) * Period \in Nat
        /\ Period + (Packets(v, w)' - 1) * Period <= Period * (1 + Chunks(v))
    BY <2>1, <2>3, <2>5, Times
  <2>10. age'[v][w] + Wait(v)' + (Packets(v, w)' - 1) * Period <= Period * (1 + Chunks(v))
    <3>1. CASE v \in Visits(Now) /\ w \in Shown(v)
      BY <2>1, <2>6, <2>8, <2>9, <3>1
    <3>2. CASE v \in Visits(Now) /\ w \notin Shown(v)
      <4>1. Packets(v, w)' = Packets(v, w) - 1 /\ 2 <= Packets(v, w)
        BY <2>2, <2>3, <3>2
      <4>2. (Packets(v, w) - 1) * Period = Period + (Packets(v, w)' - 1) * Period
        BY <2>8, <4>1
      <4> QED BY <2>1, <2>6, <2>7, <2>8, <2>9, <3>2, <4>2
    <3>3. CASE v \notin Visits(Now)
      <4>1. (Packets(v, w)' - 1) * Period = (Packets(v, w) - 1) * Period
        BY <2>2, <3>3
      <4> QED BY <2>1, <2>6, <2>7, <2>8, <3>3, <4>1
    <3> QED BY <3>1, <3>2, <3>3
  <2> QED BY <1>3, <1>5, <2>1, <2>2, <2>10
<1> QED BY <1>4, <1>5

\* The packet of a visit, and where the next one starts.
LEMMA VisitShows ==
    ASSUME TypeOK, Tick, NEW v \in Visits(Now), NEW w \in Selected(v), NEW x \in Selected(v)
    PROVE  /\ w \in Shown(v) /\ x \notin Shown(v) => Precedes(Begin(v), w, x)
           /\ Precedes(Begin(v)', w, x) <=>
                IF w \in Shown(v) <=> x \in Shown(v) THEN Precedes(Begin(v), w, x)
                ELSE x \in Shown(v)
<1> DEFINE S == Selected(v)
           k == Cardinality(Shown(v))
<1>1. v \in Live
  BY TickRecipients, LiveType, FirstSize, ConfigAssumption DEF Visits, Recipients
<1>2. S \in SUBSET Int /\ IsFiniteSet(S) /\ Begin(v) \in Int /\ S # {}
  BY <1>1, SelectedType
<1>3. SNAPSHOT_ENTITIES_PER_PACKET \in Nat \ {0}
  BY ConfigAssumption
<1>4. Left(v) \in Nat /\ k \in Nat \ {0} /\ Shown(v) = First(k, S, Begin(v))
  BY <1>1, <1>2, <1>3, PacketType
<1>5. PICK l : l = LastOf(Shown(v), Begin(v)) /\ l \in S
  BY <1>1, <1>2, PacketType
<1>6. Selected(v)' = S /\ sessions'[v].cursor = l
  BY <1>1, <1>2, <1>5, TickSelected, TickSessions, VisitedType
<1>7. Begin(v)' = l
  BY <1>5, <1>6 DEF Begin
<1> HIDE DEF k, S
<1>8. Precedes(l, w, x) <=>
        IF w \in Shown(v) <=> x \in Shown(v) THEN Precedes(Begin(v), w, x) ELSE x \in Shown(v)
  BY <1>2, <1>4, <1>5, OrderAdvances DEF S
<1>9. w \in Shown(v) /\ x \notin Shown(v) => Precedes(Begin(v), w, x)
  BY <1>2, <1>4, FirstComesFirst DEF S
<1> QED BY <1>7, <1>8, <1>9

\* A tick keeps the order of the waits: whoever is shown goes to the end.
LEMMA TickSorted ==
    ASSUME TypeOK, Sorted, Tick
    PROVE  Sorted'
<1>1. SUFFICES ASSUME NEW v \in Live, NEW w \in Selected(v), NEW x \in Selected(v),
                      Precedes(Begin(v)', w, x)
               PROVE  age'[v][w] >= age'[v][x]
  BY TickSessions, TickSelected DEF Sorted
<1>2. w \in Players /\ x \in Players
  BY SelectedType
<1>3. /\ age[v][w] \in Nat /\ age[v][x] \in Nat
      /\ age'[v][w] = IF v \in Visits(Now) /\ w \in Shown(v) THEN 0 ELSE age[v][w] + 1
      /\ age'[v][x] = IF v \in Visits(Now) /\ x \in Shown(v) THEN 0 ELSE age[v][x] + 1
  BY <1>2, TickAge
<1>4. Precedes(Begin(v), w, x) => age[v][w] >= age[v][x]
  BY DEF Sorted
<1>5. CASE v \in Visits(Now)
  <2>1. IF w \in Shown(v) <=> x \in Shown(v) THEN Precedes(Begin(v), w, x) ELSE x \in Shown(v)
    BY <1>1, <1>5, VisitShows
  <2> QED BY <1>3, <1>4, <1>5, <2>1
<1>6. CASE v \notin Visits(Now)
  <2>1. sessions'[v] = sessions[v] /\ Selected(v)' = Selected(v)
    BY <1>6, TickSessions, TickSelected
  <2>2. Begin(v)' = Begin(v)
    BY <2>1 DEF Begin
  <2> QED BY <1>1, <1>3, <1>4, <1>6, <2>2
<1> QED BY <1>5, <1>6

-----------------------------------------------------------------------------
(* The theorems.                                                           *)

\* The inductive invariant.
Inv == TypeOK /\ InTime /\ Served /\ Sorted

\* Nobody has waited at first,
LEMMA InitFresh == Init => Fresh
<1> SUFFICES ASSUME Init, NEW v \in Live, NEW w \in Players PROVE age[v][w] = 0
  BY DEF Fresh
<1> QED BY DEF Init

\* nor after the sessions changed.
LEMMA ChangedFresh == Changed => Fresh'
<1> SUFFICES ASSUME Changed PROVE Fresh'
  OBVIOUS
<1>1. age' = [v \in Live' |-> [w \in Players' |-> 0]]
  BY DEF Changed
<1> QED BY <1>1 DEF Fresh

\* A step that changes nothing.
LEMMA Stutters ==
    ASSUME UNCHANGED vars, Served, Sorted
    PROVE  Served' /\ Sorted'
<1>1. /\ cfg' = cfg /\ sessions' = sessions /\ tick' = tick /\ cursor' = cursor /\ age' = age
  BY DEF vars
<1>2. /\ Live' = Live /\ Players' = Players /\ RecipientCursor' = RecipientCursor
      /\ Cadence' = Cadence
  BY <1>1 DEF Live, Players, RecipientCursor, Cadence
<1>3. \A v : Near(v)' = Near(v)
  BY <1>1, <1>2 DEF Near
<1>4. \A v : Selected(v)' = Selected(v)
  BY <1>1, <1>3 DEF Selected
<1>5. \A v : Begin(v)' = Begin(v) /\ Left(v)' = Left(v)
  BY <1>1, <1>4 DEF Begin, Left
<1>6. /\ Rounds' = Rounds /\ \A v : Place(v)' = Place(v) /\ Elapsed(v)' = Elapsed(v)
  BY <1>1, <1>2 DEF Rounds, Place, Elapsed
<1>7. \A v : Ripe(v)' <=> Ripe(v)
  BY <1>1, <1>2, <1>6 DEF Ripe
<1>8. /\ Period' = Period
      /\ \A v : Wait(v)' = Wait(v) /\ Chunks(v)' = Chunks(v)
  BY <1>2, <1>4, <1>6, <1>7 DEF Period, Wait, Chunks
<1>9. \A v, w : Turn(v, w)' = Turn(v, w)
  BY <1>4, <1>5 DEF Turn
<1>10. \A v, w : Packets(v, w)' = Packets(v, w)
  BY <1>5, <1>9 DEF Packets
<1> QED BY <1>1, <1>2, <1>4, <1>5, <1>8, <1>10 DEF Served, Sorted

\* The inductive invariant holds at first.
LEMMA InvInit == Init => Inv
BY TypeInit, InTimeInit, InitFresh, FreshServed DEF Inv

\* Every step keeps the inductive invariant.
LEMMA InvNext == Inv /\ [Next]_vars => Inv'
<1> SUFFICES ASSUME Inv, [Next]_vars PROVE Inv'
  OBVIOUS
<1>1. TypeOK /\ InTime /\ Served /\ Sorted
  BY DEF Inv
<1>2. TypeOK' /\ InTime'
  BY <1>1, TypeNext, InTimeNext
<1>3. CASE UNCHANGED vars
  BY <1>1, <1>2, <1>3, Stutters DEF Inv
<1>4. CASE Tick
  BY <1>1, <1>2, <1>4, TickServed, TickSorted DEF Inv
<1>5. CASE Changed
  <2>1. Fresh'
    BY <1>5, ChangedFresh
  <2>2. TypeOK' /\ Fresh' => Served' /\ Sorted'
    BY FreshServed, PTL
  <2> QED BY <1>2, <2>1, <2>2 DEF Inv
<1>6. Next => Tick \/ Changed
  BY DEF Next, Join, Leave, Move
<1> QED BY <1>3, <1>4, <1>5, <1>6

\* The inductive invariant holds.
THEOREM Invariant == Spec => []Inv
<1> QED BY InvInit, InvNext, PTL DEF Spec

\* Sessions, cursors and counters keep their types: no two sessions share a
\* player, whoever logs in, and what is left of a round is never negative.
THEOREM TypeCorrect == Spec => []TypeOK
<1>1. Inv => TypeOK
  BY DEF Inv
<1> QED BY <1>1, Invariant, PTL

\* The wrapping counter of ticks never makes a recipient look as if it had
\* just been visited: broadcast_snapshots visits it before the difference to
\* its last visit comes round, also while other sessions come and go.
THEOREM VisitedInTime == Spec => []InTime
<1>1. Inv => InTime
  BY DEF Inv
<1> QED BY <1>1, Invariant, PTL

\* The bound of the waits.
LEMMA ServedInBound == TypeOK /\ Served => RecurrenceBounded
<1> SUFFICES ASSUME TypeOK, Served, NEW v \in Live, NEW w \in Players
             PROVE  age[v][w] <= Gap(Cardinality(Live))
                      * (1 + checked_div_ceil(Cardinality(Selected(v)), SNAPSHOT_ENTITIES_PER_PACKET))
  BY DEF RecurrenceBounded
<1>1. Gap(Cardinality(Live)) = Period
  BY DEF Gap, Period, Cadence, Rounds
<1>2. checked_div_ceil(Cardinality(Selected(v)), SNAPSHOT_ENTITIES_PER_PACKET) = Chunks(v)
  BY DEF Chunks
<1>3. Period \in Nat /\ Wait(v) \in Nat
  BY WaitBounds DEF WaitsBounded
<1>4. age[v][w] \in Nat
  BY DEF TypeOK
<1>5. CASE w \in Selected(v)
  <2>1. /\ Packets(v, w) \in Nat /\ 1 <= Packets(v, w) /\ Packets(v, w) <= 1 + Chunks(v)
        /\ Chunks(v) \in Nat
    BY <1>5, PacketsBounds DEF PacketsBounded
  <2>2. (Packets(v, w) - 1) * Period \in Nat /\ Period * (1 + Chunks(v)) \in Nat
    BY <1>3, <2>1, Times
  <2>3. age[v][w] + Wait(v) + (Packets(v, w) - 1) * Period <= Period * (1 + Chunks(v))
    BY <1>5 DEF Served
  <2>4. age[v][w] <= Period * (1 + Chunks(v))
    BY <1>3, <1>4, <2>2, <2>3
  <2> QED BY <1>1, <1>2, <2>4
<1>6. CASE w \notin Selected(v)
  <2>1. age[v][w] = 0
    BY <1>6 DEF Served
  <2>2. Chunks(v) \in Nat
    BY SelectedType, RoundUp, ConfigAssumption DEF Chunks
  <2>3. Period * (1 + Chunks(v)) \in Nat
    BY <1>3, <2>2
  <2>4. age[v][w] <= Period * (1 + Chunks(v))
    BY <2>1, <2>3
  <2> QED BY <1>1, <1>2, <2>4
<1> QED BY <1>5, <1>6

\* No player in a recipient's view is left out of its snapshots for longer
\* than one packet more than a round, a period each: for any number of peers,
\* any packet sizes and any valid rates.
THEOREM NobodyStarves == Spec => []RecurrenceBounded
<1>1. Inv => RecurrenceBounded
  BY ServedInBound DEF Inv
<1> QED BY <1>1, Invariant, PTL

\* broadcast_snapshots never shows a player again while somebody else in the
\* recipient's view has waited longer.
THEOREM LongestWaitGoesFirst == Spec => LongestWaitFirst
<1> DEFINE Fair ==
        Tick => \A v \in Live : \A w, x \in Selected(v) :
                    (age'[v][w] = 0 /\ age'[v][x] # 0) => age[v][w] >= age[v][x]
<1>1. ASSUME Inv, Tick, NEW v \in Live, NEW w \in Selected(v), NEW x \in Selected(v),
             age'[v][w] = 0, age'[v][x] # 0
      PROVE  age[v][w] >= age[v][x]
  <2>1. TypeOK /\ Sorted
    BY <1>1 DEF Inv
  <2>2. w \in Players /\ x \in Players
    BY <2>1, SelectedType
  <2>3. /\ age[v][w] \in Nat /\ age[v][x] \in Nat
        /\ age'[v][w] = IF v \in Visits(Now) /\ w \in Shown(v) THEN 0 ELSE age[v][w] + 1
        /\ age'[v][x] = IF v \in Visits(Now) /\ x \in Shown(v) THEN 0 ELSE age[v][x] + 1
    BY <1>1, <2>1, <2>2, TickAge
  <2>4. v \in Visits(Now) /\ w \in Shown(v)
    BY <1>1, <2>3
  <2>5. x \notin Shown(v)
    BY <1>1, <2>3, <2>4
  <2>6. Precedes(Begin(v), w, x)
    BY <1>1, <2>1, <2>4, <2>5, VisitShows
  <2> QED BY <2>1, <2>6 DEF Sorted
<1>2. Inv => Fair
  BY <1>1
<1>3. Inv /\ [Next]_vars => [Fair]_vars
  BY <1>2
<1> HIDE DEF Fair
<1>4. Spec => [][Fair]_vars
  BY <1>3, Invariant, PTL DEF Spec
<1> QED BY <1>4 DEF LongestWaitFirst, Fair

-----------------------------------------------------------------------------
(* What validate would have to compare with the expiry.                    *)

\* The bound of RecurrenceBounded, in the worst case that a configuration
\* admits.
WorstWait(c) ==
    (ticks_per_snapshot(c) + checked_div_ceil(c.max_transport_peers, SNAPSHOT_PACKETS_PER_TICK) - 1)
      * (1 + checked_div_ceil(Min({c.max_transport_peers - 1, SNAPSHOT_VISIBILITY_CEILING}),
                              SNAPSHOT_ENTITIES_PER_PACKET))

\* More takes as long or longer.
LEMMA RoundUpGrows ==
    ASSUME NEW b \in Nat \ {0}, NEW a \in Nat, NEW d \in Nat, a <= d
    PROVE  checked_div_ceil(a, b) <= checked_div_ceil(d, b)
<1>1. CASE a = 0
  BY <1>1, RoundUp DEF checked_div_ceil
<1>2. CASE a # 0
  <2>1. PICK i \in Nat : i = a - 1 /\ i < d
    <3>1. a - 1 \in Nat /\ a - 1 < d
      BY <1>2
    <3> QED BY <3>1
  <2>2. \A k \in Nat : k < d => (k \div b) + 1 <= checked_div_ceil(d, b)
    BY RoundUp
  <2>3. a + (b - 1) = i + b /\ b \in Int
    BY <2>1
  <2>4. (i + b) \div b = (i \div b) + 1
    BY RoundUp
  <2>5. checked_div_ceil(a, b) = (i \div b) + 1
    BY <2>3, <2>4 DEF checked_div_ceil
  <2> QED BY <2>1, <2>2, <2>5
<1> QED BY <1>1, <1>2

\* Products grow with their factors.
LEMMA ProductGrows ==
    ASSUME NEW p \in Nat, NEW q \in Nat, NEW a \in Nat, NEW b \in Nat, p <= q, a <= b
    PROVE  p * a <= q * b
<1>1. PICK i \in Nat : q = p + i
  <2>1. q = p + (q - p) /\ q - p \in Nat
    OBVIOUS
  <2> QED BY <2>1
<1>2. PICK j \in Nat : b = a + j
  <2>1. b = a + (b - a) /\ b - a \in Nat
    OBVIOUS
  <2> QED BY <2>1
<1>3. q * b = p * a + p * j + i * a + i * j
  BY <1>1, <1>2
<1>4. p * a \in Nat /\ p * j \in Nat /\ i * a \in Nat /\ i * j \in Nat
  OBVIOUS
<1> QED BY <1>3, <1>4

\* A recipient is not shown to itself, and at most the ceiling of others.
LEMMA SelectedSize ==
    ASSUME TypeOK, NEW v \in Live
    PROVE  /\ Cardinality(Selected(v)) <= Cardinality(Live) - 1
           /\ Cardinality(Selected(v)) <= SNAPSHOT_VISIBILITY_CEILING
<1> DEFINE around == {q \in Live \ {v} :
                        sessions[q].cell - sessions[v].cell
                          \in -cfg.aoi_radius_cells..cfg.aoi_radius_cells}
           f == [p \in around |-> sessions[p].player_id]
           n == Cardinality(Live)
           c == sessions[v].player_id
           L == SNAPSHOT_VISIBILITY_CEILING
<1>1. around \subseteq Live \ {v} /\ Live \in SUBSET Int /\ IsFiniteSet(Live) /\ n \in Nat
  BY LiveType
<1>2. IsFiniteSet(Live \ {v}) /\ Cardinality(Live \ {v}) = n - 1
  BY <1>1, FS_RemoveElement
<1>3. /\ IsFiniteSet(around) /\ Cardinality(around) \in Nat /\ Cardinality(around) <= n - 1
  <2> HIDE DEF around
  <2>1. IsFiniteSet(around) /\ Cardinality(around) <= Cardinality(Live \ {v})
    BY <1>1, <1>2, FS_Subset
  <2> QED BY <1>2, <2>1, FS_CardinalityType
<1>4. Near(v) = {f[p] : p \in around}
  BY DEF Near
<1>5. f \in Surjection(around, Near(v))
  BY <1>4 DEF Surjection
<1>6. IsFiniteSet(Near(v)) /\ Cardinality(Near(v)) <= Cardinality(around)
  BY <1>3, <1>5, FS_Surjection
<1>7. Cardinality(Near(v)) \in Nat
  BY <1>6, FS_CardinalityType
<1>8. \A p \in Live : sessions[p].player_id \in Int
  <2>1. \A p \in Live : sessions[p] \in Session
    BY DEF TypeOK
  <2>2. \A p \in Live : sessions[p].player_id \in Player
    BY <2>1 DEF Session
  <2>3. Player \subseteq Int
    BY SnapshotsAssumption
  <2> QED BY <2>2, <2>3
<1>9. Near(v) \in SUBSET Int /\ c \in Int /\ L \in Nat
  BY <1>1, <1>4, <1>8, ConfigAssumption
<1>10. Selected(v) = First(L, Near(v), c)
  BY DEF Selected
<1> HIDE DEF around, f, c, L
<1>11. /\ L <= Cardinality(Near(v)) => Cardinality(Selected(v)) = L
       /\ L >= Cardinality(Near(v)) => Selected(v) = Near(v)
  BY <1>6, <1>9, <1>10, FirstSize
<1>12. Cardinality(Selected(v)) <= L /\ Cardinality(Selected(v)) <= Cardinality(Near(v))
  BY <1>7, <1>9, <1>11
<1> QED BY <1>1, <1>3, <1>6, <1>7, <1>12, SelectedType DEF L

\* No wait exceeds the worst case of the configuration.
LEMMA WaitsWithinWorst ==
    ASSUME TypeOK, RecurrenceBounded, NEW v \in Live, NEW w \in Players
    PROVE  age[v][w] \in Nat /\ WorstWait(cfg) \in Nat /\ age[v][w] <= WorstWait(cfg)
<1> DEFINE n == Cardinality(Live)
           m == Cardinality(Selected(v))
           top == cfg.max_transport_peers
           L == SNAPSHOT_VISIBILITY_CEILING
           P == SNAPSHOT_PACKETS_PER_TICK
           E == SNAPSHOT_ENTITIES_PER_PACKET
           most == Min({top - 1, L})
<1>1. /\ P \in Nat \ {0} /\ E \in Nat \ {0} /\ L \in Nat \ {0} /\ Cadence \in Nat \ {0}
  BY ConfigAssumption, CadenceType
<1>2. n \in Nat /\ m \in Nat /\ m <= n - 1 /\ m <= L
  BY LiveType, SelectedType, SelectedSize
<1>3. top \in Nat \ {0} /\ n <= top
  BY ConfigAssumption DEF TypeOK, validate
<1>4. most = IF top - 1 <= L THEN top - 1 ELSE L
  BY <1>1, <1>3, OfTwo
<1>5. most \in Nat /\ m <= most
  BY <1>1, <1>2, <1>3, <1>4
<1>6. WorstWait(cfg) = (Cadence + checked_div_ceil(top, P) - 1) * (1 + checked_div_ceil(most, E))
  BY DEF WorstWait, Cadence
<1>7. age[v][w] <= (Cadence + checked_div_ceil(n, P) - 1) * (1 + checked_div_ceil(m, E))
  BY DEF RecurrenceBounded, Gap, Cadence
<1>8. age[v][w] \in Nat
  BY DEF TypeOK
<1> HIDE DEF n, m, top, L, P, E, most
<1>9. PICK a \in Nat, b \in Nat : /\ a = checked_div_ceil(n, P) /\ b = checked_div_ceil(top, P)
                                  /\ a <= b
  BY <1>1, <1>2, <1>3, RoundUp, RoundUpGrows
<1>10. PICK d \in Nat, e \in Nat : /\ d = checked_div_ceil(m, E) /\ e = checked_div_ceil(most, E)
                                   /\ d <= e
  BY <1>1, <1>2, <1>5, RoundUp, RoundUpGrows
<1>11. PICK p \in Nat, q \in Nat : p = Cadence + a - 1 /\ q = Cadence + b - 1 /\ p <= q
  BY <1>1, <1>9
<1>12. p * (1 + d) <= q * (1 + e) /\ p * (1 + d) \in Nat /\ q * (1 + e) \in Nat
  <2>1. 1 + d \in Nat /\ 1 + e \in Nat /\ 1 + d <= 1 + e
    BY <1>10
  <2>2. p * (1 + d) \in Nat /\ q * (1 + e) \in Nat
    BY <2>1
  <2> QED BY <1>11, <2>1, <2>2, ProductGrows
<1>13. age[v][w] <= p * (1 + d) /\ WorstWait(cfg) = q * (1 + e)
  BY <1>6, <1>7, <1>9, <1>10, <1>11
<1> QED BY <1>8, <1>12, <1>13

\* With a configuration whose worst wait is less than the expiry, no client
\* forgets a player that the server still selects for it.  validate compares
\* snapshot_recurrence_ticks instead, which is less.
THEOREM ShownInTime ==
    Spec => [](WorstWait(cfg) + 1 < expiry_ticks(cfg) => ShownBeforeExpiry)
<1> DEFINE Promise == WorstWait(cfg) + 1 < expiry_ticks(cfg) => ShownBeforeExpiry
<1>1. Inv => Promise
  <2> SUFFICES ASSUME Inv, WorstWait(cfg) + 1 < expiry_ticks(cfg), NEW pair \in shown
               PROVE  age[pair[1]][pair[2]] + 1 < expiry_ticks(cfg)
    BY DEF ShownBeforeExpiry
  <2>1. TypeOK /\ RecurrenceBounded
    BY ServedInBound DEF Inv
  <2>2. pair[1] \in Live /\ pair[2] \in Players
    BY <2>1 DEF TypeOK
  <2>3. /\ age[pair[1]][pair[2]] \in Nat /\ WorstWait(cfg) \in Nat
        /\ age[pair[1]][pair[2]] <= WorstWait(cfg)
    BY <2>1, <2>2, WaitsWithinWorst
  <2>4. expiry_ticks(cfg) \in Nat
    BY <2>1, ConfigAssumption DEF TypeOK, validate, expiry_ticks
  <2> QED BY <2>3, <2>4
<1> QED BY <1>1, Invariant, PTL
================================================================================
