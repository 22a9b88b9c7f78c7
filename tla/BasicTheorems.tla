--------------------------- MODULE BasicTheorems ---------------------------
(***************************************************************************)
(* What the proofs about several components need: least numbers, induction *)
(* on a set of numbers or of sets, the recursive functions that stand for  *)
(* the loops of the program, sets with one element at most, sums; and what *)
(* sort_in() and move_out() do to a list of jobs of any length.            *)
(***************************************************************************)
EXTENDS JobList, Picks, FiniteSets, FiniteSetTheorems, SequenceTheorems,
        WellFoundedInduction, TLAPS

LEMMA LeastNat ==
  ASSUME NEW S \in SUBSET Nat, S # {}
  PROVE  \E m \in S : \A k \in S : m <= k
<1>1. \E m \in S : \A k \in S : ~(<<k, m>> \in OpToRel(<, Nat))
  BY NatLessThanWellFounded, WFMin
<1>2. PICK m \in S : \A k \in S : ~(<<k, m>> \in OpToRel(<, Nat))
  BY <1>1
<1>3. \A k \in S : ~(k < m)
  BY <1>2 DEF OpToRel
<1> QED
  BY <1>3

\* Induction up to N, for the numbers that have a property as a set.
LEMMA UpTo ==
  ASSUME NEW N \in Nat, NEW S,
         0 \in S,
         \A n \in 0 .. N - 1 : n \in S => n + 1 \in S
  PROVE  \A n \in 0 .. N : n \in S
<1> DEFINE Out == {n \in 0 .. N : n \notin S}
<1> SUFFICES ASSUME Out # {} PROVE FALSE
  OBVIOUS
<1>1. Out \in SUBSET Nat
  OBVIOUS
<1> HIDE DEF Out
<1>2. PICK m \in Out : \A k \in Out : m <= k
  BY <1>1, LeastNat
<1> USE DEF Out
<1>3. m \in 0 .. N /\ m # 0
  BY <1>2
<1>4. m - 1 \in 0 .. N - 1 /\ m - 1 \notin Out
  BY <1>2, <1>3
<1>5. m - 1 \in S
  BY <1>4
<1>6. (m - 1) + 1 \in S
  BY <1>4, <1>5
<1> QED
  BY <1>2, <1>3, <1>6

\* A loop that goes round N times from a, where G is what happens in its body
\* in each round.
Rounds(f, N, a, G) ==
  f = [n \in 0 .. N |-> IF n = 0 THEN a ELSE G[<<n, f[n - 1]>>]]

LEMMA IteratedAt ==
  ASSUME NEW N \in Nat, NEW T, NEW a \in T, NEW G \in [(1 .. N) \X T -> T]
  PROVE  \E f \in [0 .. N -> T] : Rounds(f, N, a, G)
<1> DEFINE Runs(m, f) == /\ f \in [0 .. m -> T]
                         /\ f[0] = a
                         /\ \A n \in 1 .. m : f[n] = G[<<n, f[n - 1]>>]
           S == {m \in 0 .. N : \E f : Runs(m, f)}
<1>1. 0 \in S
  <2> DEFINE g == [n \in 0 .. 0 |-> a]
  <2>1. Runs(0, g)
    OBVIOUS
  <2> HIDE DEF g
  <2> QED
    BY <2>1
<1>2. \A m \in 0 .. N - 1 : m \in S => m + 1 \in S
  <2> SUFFICES ASSUME NEW m \in 0 .. N - 1, m \in S
               PROVE  m + 1 \in S
    OBVIOUS
  <2>1. PICK f : Runs(m, f)
    OBVIOUS
  <2> DEFINE g == [n \in 0 .. m + 1 |-> IF n <= m THEN f[n] ELSE G[<<m + 1, f[m]>>]]
  <2>2. g \in [0 .. m + 1 -> T]
    BY <2>1
  <2>3. g[0] = a
    BY <2>1
  <2>4. ASSUME NEW n \in 1 .. m + 1
        PROVE  g[n] = G[<<n, g[n - 1]>>]
    <3>1. n - 1 \in 0 .. m /\ n \in 0 .. m + 1 /\ n - 1 \in 0 .. m + 1
      BY <2>4
    <3>2. g[n - 1] = f[n - 1]
      BY <3>1
    <3>3. CASE n <= m
      BY <2>1, <3>1, <3>2, <3>3
    <3>4. CASE n = m + 1
      BY <3>1, <3>2, <3>4
    <3> QED
      BY <2>4, <3>3, <3>4
  <2> HIDE DEF g
  <2>5. Runs(m + 1, g)
    BY <2>2, <2>3, <2>4
  <2> QED
    BY <2>5
<1> HIDE DEF S
<1>3. N \in S
  BY <1>1, <1>2, UpTo
<1> USE DEF S
<1>4. PICK f : Runs(N, f)
  BY <1>3
<1>5. Rounds(f, N, a, G)
  <2> DEFINE g == [n \in 0 .. N |-> IF n = 0 THEN a ELSE G[<<n, f[n - 1]>>]]
  <2>1. \A n \in 0 .. N : f[n] = g[n]
    BY <1>4
  <2> QED
    BY <1>4, <2>1 DEF Rounds
<1> QED
  BY <1>4, <1>5

LEMMA Iterated ==
  ASSUME NEW N \in Nat, NEW T, NEW a \in T, NEW G \in [T -> T]
  PROVE  \E f \in [0 .. N -> T] :
           f = [n \in 0 .. N |-> IF n = 0 THEN a ELSE G[f[n - 1]]]
<1> DEFINE H == [x \in (1 .. N) \X T |-> G[x[2]]]
<1>1. H \in [(1 .. N) \X T -> T]
  OBVIOUS
<1>2. \A n \in 1 .. N, t \in T : H[<<n, t>>] = G[t]
  OBVIOUS
<1> HIDE DEF H
<1>0. N \in Nat /\ a \in T
  OBVIOUS
<1>3. \E f \in [0 .. N -> T] : Rounds(f, N, a, H)
  BY ONLY <1>0, <1>1, IteratedAt
<1>4. PICK f \in [0 .. N -> T] : Rounds(f, N, a, H)
  BY <1>3
<1>5. \A n \in 0 .. N : n # 0 => n \in 1 .. N /\ f[n - 1] \in T
  OBVIOUS
<1>6. f = [n \in 0 .. N |-> IF n = 0 THEN a ELSE G[f[n - 1]]]
  BY <1>2, <1>4, <1>5 DEF Rounds
<1> QED
  BY <1>6

LEMMA AtMostOne ==
  ASSUME NEW S, \A x, y \in S : x = y
  PROVE  Cardinality(S) = IF S = {} THEN 0 ELSE 1
<1>1. CASE S = {}
  BY <1>1, FS_EmptySet
<1>2. CASE S # {}
  <2>1. PICK x : x \in S
    BY <1>2
  <2>2. S = {x}
    BY <2>1
  <2> QED
    BY <2>2, FS_Singleton
<1> QED
  BY <1>1, <1>2

-----------------------------------------------------------------------------
(***************************************************************************)
(* Induction on the subsets of a finite set, for those that have a         *)
(* property as a set.                                                      *)
(***************************************************************************)
LEMMA AllSubsets ==
  ASSUME NEW S, IsFiniteSet(S), NEW P,
         {} \in P,
         \A s \in SUBSET S : s # {} /\ (\A x \in s : s \ {x} \in P) => s \in P
  PROVE  \A s \in SUBSET S : s \in P
<1> DEFINE N == Cardinality(S)
           All(n) == \A s \in SUBSET S : Cardinality(s) = n => s \in P
           C == {n \in 0 .. N : All(n)}
<1>1. N \in Nat
  BY FS_CardinalityType
<1>2. \A s \in SUBSET S : IsFiniteSet(s) /\ Cardinality(s) \in 0 .. N
  BY <1>1, FS_Subset, FS_CardinalityType
<1> HIDE DEF N
<1>3. 0 \in C
  <2>1. \A s \in SUBSET S : Cardinality(s) = 0 => s = {}
    BY <1>2, FS_EmptySet
  <2>2. All(0)
    BY <2>1
  <2>3. 0 \in 0 .. N
    BY <1>1
  <2> QED
    BY <2>2, <2>3
<1>4. \A n \in 0 .. N - 1 : n \in C => n + 1 \in C
  <2> SUFFICES ASSUME NEW n \in 0 .. N - 1, All(n)
               PROVE  All(n + 1)
    BY <1>1
  <2> SUFFICES ASSUME NEW s \in SUBSET S, Cardinality(s) = n + 1
               PROVE  s \in P
    OBVIOUS
  <2>1. s # {}
    <3>1. s = {} => Cardinality(s) = 0
      BY FS_EmptySet
    <3> QED
      BY <1>1, <3>1
  <2>2. \A x \in s : Cardinality(s \ {x}) = n
    BY <1>1, <1>2, FS_RemoveElement
  <2>3. \A x \in s : s \ {x} \in P
    BY <2>2
  <2> QED
    BY <2>1, <2>3
<1> HIDE DEF C
<1>5. \A n \in 0 .. N : n \in C
  BY <1>1, <1>3, <1>4, UpTo
<1> USE DEF C
<1> QED
  BY <1>2, <1>5

-----------------------------------------------------------------------------
(***************************************************************************)
(* Sums of natural numbers over a finite set: MapThenSumSet() of the       *)
(* community modules, and what the sum is after the summands changed.      *)
(***************************************************************************)

\* The element that is added next
AnyOf(s) == CHOOSE x \in s : TRUE

LEMMA AnyOfIn ==
  ASSUME NEW s, s # {}
  PROVE  AnyOf(s) \in s
BY DEF AnyOf

\* One equation for all partial sums: what MapThenSumSet() computes with.
Sums(F, g, S) ==
  F = [s \in SUBSET S |-> IF s = {} THEN 0
                          ELSE g[AnyOf(s)] + F[s \ {AnyOf(s)}]]

Total(g, S) == (CHOOSE F : Sums(F, g, S))[S]

LEMMA SumsStep ==
  ASSUME NEW S, NEW g, NEW F, Sums(F, g, S)
  PROVE  /\ F[{}] = 0
         /\ \A s \in SUBSET S : s # {} => F[s] = g[AnyOf(s)] + F[s \ {AnyOf(s)}]
<1>1. F[{}] = 0
  BY DEF Sums
<1>2. ASSUME NEW s \in SUBSET S, s # {}
      PROVE  F[s] = g[AnyOf(s)] + F[s \ {AnyOf(s)}]
  BY <1>2 DEF Sums
<1> QED
  BY <1>1, <1>2

\* There is one solution at most, whatever else the summands are defined for.
LEMMA SumsUnique ==
  ASSUME NEW S, IsFiniteSet(S), NEW g, NEW h, NEW T, NEW U,
         S \in SUBSET T, S \in SUBSET U,
         \A x \in S : g[x] = h[x],
         NEW F, Sums(F, g, T),
         NEW G, Sums(G, h, U)
  PROVE  \A s \in SUBSET S : F[s] = G[s]
<1> DEFINE P == {s \in SUBSET S : F[s] = G[s]}
<1>a. Sums(F, g, T) /\ Sums(G, h, U)
  OBVIOUS
<1>0. /\ F[{}] = 0
      /\ \A s \in SUBSET T : s # {} => F[s] = g[AnyOf(s)] + F[s \ {AnyOf(s)}]
  BY ONLY <1>a, SumsStep, SMTT(20)
<1>00. /\ G[{}] = 0
       /\ \A s \in SUBSET U : s # {} => G[s] = h[AnyOf(s)] + G[s \ {AnyOf(s)}]
  <2>1. G[{}] = 0
    BY ONLY <1>a, SumsStep
  <2>2. ASSUME NEW s \in SUBSET U, s # {}
        PROVE  G[s] = h[AnyOf(s)] + G[s \ {AnyOf(s)}]
    BY ONLY <1>a, <2>2, SumsStep
  <2> QED
    BY <2>1, <2>2
<1>1. {} \in P
  BY <1>0, <1>00
<1>2. ASSUME NEW s \in SUBSET S, s # {}, \A x \in s : s \ {x} \in P
      PROVE  s \in P
  <2>1. AnyOf(s) \in s
    BY <1>2, AnyOfIn
  <2>2. F[s \ {AnyOf(s)}] = G[s \ {AnyOf(s)}] /\ g[AnyOf(s)] = h[AnyOf(s)]
    BY <1>2, <2>1
  <2>3. F[s] = g[AnyOf(s)] + F[s \ {AnyOf(s)}]
    BY <1>0, <1>2
  <2>4. G[s] = h[AnyOf(s)] + G[s \ {AnyOf(s)}]
    BY <1>00, <1>2
  <2> QED
    BY <2>2, <2>3, <2>4
<1> HIDE DEF P
<1>3. \A s \in SUBSET S : s \in P
  BY <1>1, <1>2, AllSubsets
<1> QED
  BY <1>3 DEF P

LEMMA SumsExist ==
  ASSUME NEW S, IsFiniteSet(S), NEW g, \A x \in S : g[x] \in Nat
  PROVE  \E F \in [SUBSET S -> Nat] : Sums(F, g, S)
<1> DEFINE N == Cardinality(S) + 1
           T == [SUBSET S -> Nat]
           a == [s \in SUBSET S |-> 0]
           Then(F) == [s \in SUBSET S |-> IF s = {} THEN 0
                                          ELSE g[AnyOf(s)] + F[s \ {AnyOf(s)}]]
           G == [F \in T |-> Then(F)]
<1>1. N \in Nat /\ Cardinality(S) \in Nat
  BY FS_CardinalityType
<1>2. a \in T
  OBVIOUS
<1>3. ASSUME NEW F \in T
      PROVE  Then(F) \in T
  <2> SUFFICES ASSUME NEW s \in SUBSET S, s # {}
               PROVE  g[AnyOf(s)] + F[s \ {AnyOf(s)}] \in Nat
    OBVIOUS
  <2>1. AnyOf(s) \in S /\ s \ {AnyOf(s)} \in SUBSET S
    BY AnyOfIn
  <2> QED
    BY <2>1
<1>b. N \in Nat
  BY <1>1
<1>4. G \in [T -> T] /\ \A F \in T : G[F] = Then(F)
  <2> HIDE DEF T, Then
  <2> QED
    BY <1>3
<1>a. N = Cardinality(S) + 1
  OBVIOUS
<1> HIDE DEF N, T, a, G
<1>5. PICK f \in [0 .. N -> T] :
        f = [n \in 0 .. N |-> IF n = 0 THEN a ELSE G[f[n - 1]]]
  <2> HIDE DEF Then
  <2>1. G \in [T -> T]
    BY <1>4
  <2> QED
    BY ONLY <1>b, <1>2, <2>1, Iterated
<1>6. ASSUME NEW n \in 0 .. N - 1
      PROVE  f[n] \in T /\ f[n + 1] \in T /\ f[n + 1] = Then(f[n])
  <2> HIDE DEF Then
  <2>1. n \in 0 .. N /\ n + 1 \in 0 .. N /\ n + 1 # 0 /\ (n + 1) - 1 = n
    BY <1>1, <1>6
  <2>2. f[n + 1] = G[f[(n + 1) - 1]]
    BY <1>5, <2>1
  <2>3. f[n] \in T /\ f[n + 1] \in T
    BY <2>1
  <2> QED
    BY <1>4, <2>1, <2>2, <2>3
\* After n rounds the sums of less than n elements do not change any more.
<1> DEFINE Same(n) == \A s \in SUBSET S :
                        Cardinality(s) < n => Then(f[n])[s] = f[n][s]
           C == {n \in 0 .. N : Same(n)}
<1>7. 0 \in C
  <2>1. \A s \in SUBSET S : Cardinality(s) \in Nat
    BY FS_Subset, FS_CardinalityType
  <2>2. \A s \in SUBSET S : ~(Cardinality(s) < 0)
    BY <2>1
  <2>3. Same(0)
    BY <2>2
  <2>4. 0 \in 0 .. N
    BY <1>1
  <2> HIDE DEF Same
  <2> QED
    BY <2>3, <2>4
<1>8. \A n \in 0 .. N - 1 : n \in C => n + 1 \in C
  <2> SUFFICES ASSUME NEW n \in 0 .. N - 1, Same(n)
               PROVE  Same(n + 1)
    <3> HIDE DEF Same
    <3> QED
      BY <1>1
  <2> SUFFICES ASSUME NEW s \in SUBSET S, Cardinality(s) < n + 1
               PROVE  Then(f[n + 1])[s] = f[n + 1][s]
    OBVIOUS
  <2>0. f[n] \in T /\ f[n + 1] \in T /\ f[n + 1] = Then(f[n])
    BY <1>6
  <2>1. CASE s = {}
    BY <2>0, <2>1
  <2>2. CASE s # {}
    <3> DEFINE x == AnyOf(s)
               r == s \ {x}
    <3>1. x \in s /\ r \in SUBSET S
      BY <2>2, AnyOfIn
    <3>2. IsFiniteSet(s) /\ Cardinality(s) \in Nat
      BY FS_Subset, FS_CardinalityType
    <3>3. Cardinality(r) = Cardinality(s) - 1
      BY <3>1, <3>2, FS_RemoveElement
    <3>c. Cardinality(r) < n
      BY <1>1, <3>2, <3>3
    <3>4. Then(f[n])[r] = f[n][r]
      BY <3>1, <3>c
    <3>5. f[n + 1][r] = f[n][r]
      BY <2>0, <3>4
    <3>6. Then(f[n])[s] = g[x] + f[n][r]
      BY <2>2
    <3>7. Then(f[n + 1])[s] = g[x] + f[n + 1][r]
      BY <2>2
    <3> HIDE DEF Then, x, r
    <3> QED
      BY <2>0, <3>5, <3>6, <3>7
  <2> QED
    BY <2>1, <2>2
<1>9. N \in C
  <2> HIDE DEF C
  <2>1. \A n \in 0 .. N : n \in C
    BY <1>1, <1>7, <1>8, UpTo
  <2> QED
    BY <1>1, <2>1
<1>10. \A s \in SUBSET S : Cardinality(s) < N
  <2>1. \A s \in SUBSET S : Cardinality(s) \in Nat /\ Cardinality(s) <= Cardinality(S)
    BY FS_Subset, FS_CardinalityType
  <2> QED
    BY <1>1, <1>a, <2>1
<1>11. f[N] \in T
  BY <1>1
<1>12. \A s \in SUBSET S : Then(f[N])[s] = f[N][s]
  BY <1>9, <1>10
<1>13. Then(f[N]) = f[N]
  BY <1>11, <1>12 DEF T
<1> QED
  BY <1>11, <1>13 DEF Sums, T

\* What a sum is, and that its elements may be added in any order.
LEMMA TotalStep ==
  ASSUME NEW S, IsFiniteSet(S), NEW g, \A x \in S : g[x] \in Nat
  PROVE  /\ Total(g, S) \in Nat
         /\ S = {} => Total(g, S) = 0
         /\ \A x \in S : Total(g, S) = g[x] + Total(g, S \ {x})
<1>1. PICK F \in [SUBSET S -> Nat] : Sums(F, g, S)
  BY SumsExist
<1>2. ASSUME NEW s \in SUBSET S
      PROVE  Total(g, s) = F[s]
  <2>1. IsFiniteSet(s)
    BY FS_Subset
  <2>2. \E G : Sums(G, g, s)
    BY <2>1, SumsExist
  <2> DEFINE G == CHOOSE G : Sums(G, g, s)
  <2>3. Sums(G, g, s)
    BY <2>2
  <2>4. Total(g, s) = G[s]
    BY DEF Total
  <2> HIDE DEF G
  <2>5. \A r \in SUBSET s : F[r] = G[r]
    BY <1>1, <2>1, <2>3, SumsUnique
  <2> QED
    BY <2>4, <2>5
<1>3. /\ F[{}] = 0
      /\ \A s \in SUBSET S : s # {} => F[s] = g[AnyOf(s)] + F[s \ {AnyOf(s)}]
  BY <1>1, SumsStep
<1> DEFINE P == {s \in SUBSET S : \A x \in s : F[s] = g[x] + F[s \ {x}]}
<1>4. {} \in P
  OBVIOUS
<1>5. ASSUME NEW s \in SUBSET S, s # {}, \A y \in s : s \ {y} \in P
      PROVE  s \in P
  <2> SUFFICES ASSUME NEW x \in s
               PROVE  F[s] = g[x] + F[s \ {x}]
    OBVIOUS
  <2> DEFINE y == AnyOf(s)
  <2>1. y \in s /\ F[s] = g[y] + F[s \ {y}]
    BY <1>3, AnyOfIn
  <2> HIDE DEF y
  <2>2. CASE y = x
    BY <2>1, <2>2
  <2>3. CASE y # x
    <3>1. F[s \ {y}] = g[x] + F[(s \ {y}) \ {x}]
      BY <1>5, <2>1, <2>3
    <3>2. F[s \ {x}] = g[y] + F[(s \ {x}) \ {y}]
      BY <1>5, <2>1, <2>3
    <3>3. (s \ {y}) \ {x} = (s \ {x}) \ {y}
      OBVIOUS
    <3>4. /\ g[x] \in Nat /\ g[y] \in Nat
          /\ (s \ {x}) \ {y} \in SUBSET S
      BY <2>1
    <3>5. F[(s \ {x}) \ {y}] \in Nat
      BY <3>4
    <3>6. F[s] = g[y] + (g[x] + F[(s \ {x}) \ {y}])
      BY <2>1, <3>1, <3>3
    <3>7. g[y] + (g[x] + F[(s \ {x}) \ {y}]) = g[x] + (g[y] + F[(s \ {x}) \ {y}])
      BY <3>4, <3>5
    <3> QED
      BY <3>2, <3>6, <3>7
  <2> QED
    BY <2>2, <2>3
<1> HIDE DEF P
<1>6. \A s \in SUBSET S : s \in P
  BY <1>4, <1>5, AllSubsets
<1>7. \A x \in S : F[S] = g[x] + F[S \ {x}]
  BY <1>6 DEF P
<1>8. \A x \in S : S \ {x} \in SUBSET S
  OBVIOUS
<1>9. S \in SUBSET S /\ F[S] \in Nat
  OBVIOUS
<1> QED
  BY <1>2, <1>3, <1>7, <1>8, <1>9

\* Summands that are the same have the same sum.
LEMMA TotalSame ==
  ASSUME NEW S, IsFiniteSet(S), NEW g, NEW h,
         \A x \in S : g[x] \in Nat /\ g[x] = h[x]
  PROVE  Total(g, S) = Total(h, S)
<1>1. \E F : Sums(F, g, S)
  BY SumsExist
<1>2. \E F : Sums(F, h, S)
  BY SumsExist
<1> DEFINE F == CHOOSE F : Sums(F, g, S)
           G == CHOOSE G : Sums(G, h, S)
<1>3. Sums(F, g, S) /\ Sums(G, h, S)
  BY <1>1, <1>2
<1>4. Total(g, S) = F[S] /\ Total(h, S) = G[S]
  BY DEF Total
<1> HIDE DEF F, G
<1>5. \A s \in SUBSET S : F[s] = G[s]
  BY <1>3, SumsUnique
<1> QED
  BY <1>4, <1>5

\* A sum that is computed by the equation of MapThenSumSet().
LEMMA TotalIs ==
  ASSUME NEW S, IsFiniteSet(S), NEW g, \A x \in S : g[x] \in Nat,
         NEW F, Sums(F, g, S)
  PROVE  F[S] = Total(g, S)
<1> DEFINE G == CHOOSE G : Sums(G, g, S)
<1>3. Sums(G, g, S)
  OBVIOUS
<1>4. Total(g, S) = G[S]
  BY DEF Total
<1> HIDE DEF G
<1>5. \A s \in SUBSET S : F[s] = G[s]
  BY <1>3, SumsUnique
<1> QED
  BY <1>4, <1>5

LEMMA TotalOfTwo ==
  ASSUME NEW S, NEW T, IsFiniteSet(S), IsFiniteSet(T), S \cap T = {}, NEW g,
         \A x \in S \cup T : g[x] \in Nat
  PROVE  Total(g, S \cup T) = Total(g, S) + Total(g, T)
<1> DEFINE P == {s \in SUBSET S : Total(g, s \cup T) = Total(g, s) + Total(g, T)}
<1>1. {} \in P
  <2>1. Total(g, T) \in Nat
    BY TotalStep
  <2>2. Total(g, {}) = 0
    BY TotalStep, FS_EmptySet
  <2>3. {} \cup T = T
    OBVIOUS
  <2> HIDE DEF P
  <2>4. Total(g, {} \cup T) = Total(g, {}) + Total(g, T)
    BY <2>1, <2>2, <2>3
  <2> QED
    BY <2>4 DEF P
<1>2. ASSUME NEW s \in SUBSET S, s # {}, \A y \in s : s \ {y} \in P
      PROVE  s \in P
  <2>1. PICK x \in s : TRUE
    BY <1>2
  <2> DEFINE r == s \ {x}
  <2>2. Total(g, r \cup T) = Total(g, r) + Total(g, T)
    BY <1>2
  <2>3. /\ (s \cup T) \ {x} = r \cup T
        /\ x \in S /\ x \in s \cup T /\ g[x] \in Nat
        /\ \A y \in s : g[y] \in Nat
        /\ \A y \in r : g[y] \in Nat
        /\ \A y \in s \cup T : g[y] \in Nat
    BY <2>1
  <2>4. IsFiniteSet(s) /\ IsFiniteSet(s \cup T) /\ IsFiniteSet(r)
    BY FS_Subset, FS_Union
  <2>5. Total(g, s) = g[x] + Total(g, r)
    BY <2>1, <2>3, <2>4, TotalStep
  <2>6. Total(g, s \cup T) = g[x] + Total(g, r \cup T)
    <3>1. Total(g, s \cup T) = g[x] + Total(g, (s \cup T) \ {x})
      BY <2>3, <2>4, TotalStep
    <3> QED
      BY <2>3, <3>1
  <2>7. Total(g, r) \in Nat
    BY <2>3, <2>4, TotalStep
  <2>7a. Total(g, T) \in Nat
    BY TotalStep
  <2> HIDE DEF r
  <2>8. Total(g, s \cup T) = Total(g, s) + Total(g, T)
    BY <2>2, <2>3, <2>5, <2>6, <2>7, <2>7a
  <2> QED
    BY <2>8
<1> HIDE DEF P
<1>3. \A s \in SUBSET S : s \in P
  BY <1>1, <1>2, AllSubsets
<1> QED
  BY <1>3 DEF P

LEMMA TotalOfMore ==
  ASSUME NEW S, IsFiniteSet(S), NEW T \in SUBSET S, NEW g,
         \A x \in S : g[x] \in Nat
  PROVE  /\ Total(g, S \ T) = Total(g, S) - Total(g, T)
         /\ Total(g, T) <= Total(g, S)
<1>1. T \cup (S \ T) = S /\ T \cap (S \ T) = {}
  OBVIOUS
<1>2. IsFiniteSet(T) /\ IsFiniteSet(S \ T)
  BY FS_Subset
<1>3. Total(g, S) = Total(g, T) + Total(g, S \ T)
  BY <1>1, <1>2, TotalOfTwo
<1>4. Total(g, T) \in Nat /\ Total(g, S \ T) \in Nat
  BY <1>2, TotalStep
<1> QED
  BY <1>3, <1>4

\* One of the elements comes, goes, or has another summand.
LEMMA TotalChanged ==
  ASSUME NEW S, NEW T, IsFiniteSet(S), IsFiniteSet(T), NEW x, S \ {x} = T \ {x},
         NEW g, NEW h,
         \A y \in S : g[y] \in Nat, \A y \in T : h[y] \in Nat,
         \A y \in S \ {x} : g[y] = h[y]
  PROVE  /\ Total(g, S) \in Nat /\ Total(h, T) \in Nat
         /\ Total(h, T) + (IF x \in S THEN g[x] ELSE 0)
              = Total(g, S) + (IF x \in T THEN h[x] ELSE 0)
<1>1. IsFiniteSet(S \ {x}) /\ IsFiniteSet(T \ {x})
  BY FS_Subset
<1>2. Total(g, S \ {x}) = Total(h, T \ {x})
  BY <1>1, TotalSame
<1>3. /\ Total(g, S) \in Nat /\ Total(h, T) \in Nat
      /\ x \in S => Total(g, S) = g[x] + Total(g, S \ {x})
      /\ x \in T => Total(h, T) = h[x] + Total(h, T \ {x})
  BY TotalStep
<1>4. Total(g, S \ {x}) \in Nat
  BY <1>1, TotalStep
<1>5. (x \notin S => S \ {x} = S) /\ (x \notin T => T \ {x} = T)
  OBVIOUS
<1>6. Total(g, S) = (IF x \in S THEN g[x] ELSE 0) + Total(g, S \ {x})
  BY <1>3, <1>4, <1>5
<1>7. Total(h, T) = (IF x \in T THEN h[x] ELSE 0) + Total(g, S \ {x})
  <2>1. CASE x \in T
    BY <1>2, <1>3, <2>1
  <2>2. CASE x \notin T
    <3>1. Total(h, T) = Total(h, T \ {x})
      BY <1>5, <2>2
    <3> QED
      BY <1>2, <1>4, <2>2, <3>1
  <2> QED
    BY <2>1, <2>2
<1>8. (IF x \in S THEN g[x] ELSE 0) \in Nat /\ (IF x \in T THEN h[x] ELSE 0) \in Nat
  OBVIOUS
<1> QED
  BY ONLY <1>3, <1>4, <1>6, <1>7, <1>8

\* The same for the number of the elements.
LEMMA CountChanged ==
  ASSUME NEW S, NEW T, IsFiniteSet(S), IsFiniteSet(T), NEW x, S \ {x} = T \ {x}
  PROVE  /\ Cardinality(S) \in Nat /\ Cardinality(T) \in Nat
         /\ Cardinality(T) + (IF x \in S THEN 1 ELSE 0)
              = Cardinality(S) + (IF x \in T THEN 1 ELSE 0)
<1>1. Cardinality(S) \in Nat /\ Cardinality(T) \in Nat
  BY FS_CardinalityType
<1>2. x \in S => Cardinality(S \ {x}) = Cardinality(S) - 1
  BY FS_RemoveElement
<1>3. x \in T => Cardinality(T \ {x}) = Cardinality(T) - 1
  BY FS_RemoveElement
<1>4. (x \notin S => S \ {x} = S) /\ (x \notin T => T \ {x} = T)
  OBVIOUS
<1>5. Cardinality(S \ {x}) = Cardinality(T \ {x})
  OBVIOUS
<1> QED
  BY <1>1, <1>2, <1>3, <1>4, <1>5

LEMMA TotalOfOnes ==
  ASSUME NEW S, IsFiniteSet(S), NEW g, \A x \in S : g[x] = 1
  PROVE  Total(g, S) = Cardinality(S)
<1> DEFINE P == {s \in SUBSET S : Total(g, s) = Cardinality(s)}
<1>1. {} \in P
  <2>1. Total(g, {}) = 0
    BY FS_EmptySet, TotalStep
  <2> QED
    BY <2>1, FS_EmptySet
<1>2. ASSUME NEW s \in SUBSET S, s # {}, \A x \in s : s \ {x} \in P
      PROVE  s \in P
  <2>1. PICK x : x \in s
    BY <1>2
  <2>2. IsFiniteSet(s)
    BY FS_Subset
  <2>3. \A y \in s : g[y] \in Nat /\ g[y] = 1
    OBVIOUS
  <2>4. Total(g, s) = g[x] + Total(g, s \ {x})
    BY <2>1, <2>2, <2>3, TotalStep
  <2>5. Total(g, s \ {x}) = Cardinality(s \ {x})
    BY <1>2, <2>1
  <2>6. Cardinality(s \ {x}) = Cardinality(s) - 1 /\ Cardinality(s) \in Nat
    BY <2>1, <2>2, FS_RemoveElement, FS_CardinalityType
  <2>7. Total(g, s) = Cardinality(s)
    BY <2>1, <2>3, <2>4, <2>5, <2>6
  <2> QED
    BY <2>7
<1> HIDE DEF P
<1>3. \A s \in SUBSET S : s \in P
  BY <1>1, <1>2, AllSubsets
<1> QED
  BY <1>3 DEF P

-----------------------------------------------------------------------------
(***************************************************************************)
(* The operators that choose a least or a greatest element.                *)
(***************************************************************************)

LEMMA MinOfNats ==
  ASSUME NEW S \in SUBSET Nat, S # {}
  PROVE  Min(S) \in S /\ \A k \in S : Min(S) <= k
BY LeastNat DEF Min

LEMMA MaxOfNats ==
  ASSUME NEW n \in Nat, NEW S \in SUBSET (0 .. n), S # {}
  PROVE  Max(S) \in S /\ \A k \in S : k <= Max(S)
<1> DEFINE Above == {m \in Nat : \A k \in S : k <= m}
<1>1. n \in Above
  OBVIOUS
<1>2. PICK m \in Above : \A k \in Above : m <= k
  BY <1>1, LeastNat
<1>3. m \in S
  <2> SUFFICES ASSUME m \notin S
               PROVE  FALSE
    OBVIOUS
  <2>0. PICK k \in S : k <= m
    BY <1>2
  <2>1. m > 0
    BY <1>2, <2>0
  <2>2. m - 1 \in Above
    BY <1>2, <2>1
  <2> QED
    BY <1>2, <2>2
<1>4. \E x \in S : \A y \in S : x >= y
  BY <1>2, <1>3
<1> QED
  BY <1>4 DEF Max

-----------------------------------------------------------------------------
(***************************************************************************)
(* sort_in()                                                               *)
(***************************************************************************)

\* The elements of the list with one more element at place n.
LEMMA InsertAtElements ==
  ASSUME NEW T, NEW q \in Seq(T), NEW e \in T, NEW n \in 1 .. Len(q) + 1
  PROVE  /\ InsertAt(q, n, e) \in Seq(T)
         /\ Len(InsertAt(q, n, e)) = Len(q) + 1
         /\ \A i \in 1 .. Len(q) + 1 :
              InsertAt(q, n, e)[i] =
                IF i < n THEN q[i] ELSE IF i = n THEN e ELSE q[i - 1]
<1> DEFINE before == SubSeq(q, 1, n - 1)
           behind == SubSeq(q, n, Len(q))
<1>1. Len(q) \in Nat /\ \A i \in 1 .. Len(q) : q[i] \in T
  BY LenProperties, ElementOfSeq
<1>2. /\ before \in Seq(T)
      /\ Len(before) = n - 1
      /\ \A i \in 1 .. n - 1 : before[i] = q[i]
  <2>1. n - 1 \in Int /\ 1 \in Int /\ \A i \in 1 .. n - 1 : q[i] \in T
    BY <1>1
  <2>2. /\ before \in Seq(T)
        /\ Len(before) = IF 1 <= n - 1 THEN (n - 1) - 1 + 1 ELSE 0
        /\ \A i \in 1 .. (n - 1) - 1 + 1 : before[i] = q[1 + i - 1]
    BY ONLY <2>1, SubSeqProperties
  <2>3. \A i \in 1 .. n - 1 : 1 + i - 1 = i
    OBVIOUS
  <2> QED
    BY <1>1, <2>2, <2>3
<1>3. /\ behind \in Seq(T)
      /\ Len(behind) = Len(q) - n + 1
      /\ \A i \in 1 .. Len(q) - n + 1 : behind[i] = q[n + i - 1]
  <2>1. n \in Int /\ Len(q) \in Int /\ \A i \in n .. Len(q) : q[i] \in T
    BY <1>1
  <2>2. /\ behind \in Seq(T)
        /\ Len(behind) = IF n <= Len(q) THEN Len(q) - n + 1 ELSE 0
        /\ \A i \in 1 .. Len(q) - n + 1 : behind[i] = q[n + i - 1]
    BY ONLY <2>1, SubSeqProperties
  <2> QED
    BY <1>1, <2>2
<1>4. <<e>> \in Seq(T) /\ Len(<<e>>) = 1 /\ <<e>>[1] = e
  OBVIOUS
<1>5. /\ before \o <<e>> \in Seq(T)
      /\ Len(before \o <<e>>) = n
      /\ \A i \in 1 .. n :
           (before \o <<e>>)[i] = IF i <= n - 1 THEN before[i] ELSE e
  <2>1. /\ before \o <<e>> \in Seq(T)
        /\ Len(before \o <<e>>) = Len(before) + Len(<<e>>)
        /\ \A i \in 1 .. Len(before) + Len(<<e>>) :
             (before \o <<e>>)[i] = IF i <= Len(before) THEN before[i]
                                    ELSE <<e>>[i - Len(before)]
    BY ONLY <1>2, <1>4, ConcatProperties
  <2> QED
    BY <1>1, <1>2, <1>4, <2>1
<1> DEFINE upTo == before \o <<e>>
<1>6. /\ upTo \o behind \in Seq(T)
      /\ Len(upTo \o behind) = n + (Len(q) - n + 1)
      /\ \A i \in 1 .. n + (Len(q) - n + 1) :
           (upTo \o behind)[i] = IF i <= n THEN upTo[i] ELSE behind[i - n]
  <2>1. upTo \in Seq(T) /\ Len(upTo) = n
    BY <1>5
  <2> HIDE DEF upTo, behind
  <2>2. /\ upTo \o behind \in Seq(T)
        /\ Len(upTo \o behind) = Len(upTo) + Len(behind)
        /\ \A i \in 1 .. Len(upTo) + Len(behind) :
             (upTo \o behind)[i] = IF i <= Len(upTo) THEN upTo[i]
                                   ELSE behind[i - Len(upTo)]
    BY ONLY <1>3, <2>1, ConcatProperties
  <2> QED
    BY ONLY <1>3, <2>1, <2>2
<1>8. InsertAt(q, n, e) = upTo \o behind
  BY DEF InsertAt
<1>7. \A i \in 1 .. Len(q) + 1 : i > n => behind[i - n] = q[i - 1]
  <2> SUFFICES ASSUME NEW i \in 1 .. Len(q) + 1, i > n
               PROVE  behind[i - n] = q[i - 1]
    OBVIOUS
  <2>1. i - n \in 1 .. Len(q) - n + 1 /\ n + (i - n) - 1 = i - 1
    BY <1>1
  <2> QED
    BY <1>3, <2>1
<1> DEFINE all == upTo \o behind
<1> HIDE DEF before, behind, upTo, all
<1>10. \A i \in 1 .. Len(q) + 1 :
         all[i] = IF i <= n THEN upTo[i] ELSE behind[i - n]
  <2>1. Len(q) + 1 = n + (Len(q) - n + 1)
    BY ONLY <1>1
  <2> QED
    BY ONLY <1>6, <2>1 DEF all
<1>11. \A i \in 1 .. n : upTo[i] = IF i <= n - 1 THEN q[i] ELSE e
  <2>1. \A i \in 1 .. n : upTo[i] = IF i <= n - 1 THEN before[i] ELSE e
    BY <1>5 DEF upTo
  <2> QED
    BY ONLY <1>1, <1>2, <2>1, n \in 1 .. Len(q) + 1
<1>9. \A i \in 1 .. Len(q) + 1 :
        all[i] = IF i < n THEN q[i] ELSE IF i = n THEN e ELSE q[i - 1]
  BY ONLY <1>1, <1>7, <1>10, <1>11, n \in 1 .. Len(q) + 1
<1>12. InsertAt(q, n, e) = all
  BY <1>8 DEF all
<1>13. all \in Seq(T) /\ Len(all) = Len(q) + 1
  BY <1>1, <1>6 DEF all
<1> QED
  BY ONLY <1>9, <1>12, <1>13

InPrioOrder(q, prio) ==
  \A i, k \in DOMAIN q : i < k => prio[q[i]] >= prio[q[k]]

\* sort_in() puts the job somewhere between the head and the end.
LEMMA SortInPlace ==
  ASSUME NEW T, NEW q \in Seq(T), NEW prio \in [T -> Int], NEW j \in T,
         NEW order \in BOOLEAN
  PROVE  \E n \in 1 .. Len(q) + 1 :
           /\ SortIn(q, prio, j, order) = InsertAt(q, n, j)
           /\ q = <<>> \/ prio[Last(q)] >= prio[j] => n = Len(q) + 1
           /\ ~(q = <<>> \/ prio[Last(q)] >= prio[j]) /\ order =>
                /\ InPrioOrder(q, prio) =>
                     \A i \in 1 .. Len(q) : i >= n => prio[q[i]] < prio[j]
                /\ n > 1 => prio[q[n - 1]] >= prio[j]
<1> DEFINE lower == {i \in DOMAIN q : prio[q[i]] < prio[j]}
           high  == DOMAIN q \ lower
           atEnd == q = <<>> \/ prio[Last(q)] >= prio[j]
<1>1. /\ Len(q) \in Nat
      /\ DOMAIN q = 1 .. Len(q)
      /\ \A i \in 1 .. Len(q) : q[i] \in T /\ prio[q[i]] \in Int
      /\ prio[j] \in Int
  BY LenProperties, ElementOfSeq
<1>2. CASE atEnd
  <2>1. SortIn(q, prio, j, order) = InsertAt(q, Len(q) + 1, j)
    BY <1>2 DEF SortIn
  <2> QED
    BY <1>1, <1>2, <2>1
<1>5. CASE ~atEnd /\ order /\ prio[Head(q)] < prio[j]
  <2>1. SortIn(q, prio, j, order) = InsertAt(q, 0 + 1, j)
    BY <1>5 DEF SortIn
  <2>2. q # <<>> /\ Head(q) = q[1]
    BY <1>5
  <2>3. Len(q) >= 1
    BY <1>1, <2>2
  <2>4. ASSUME InPrioOrder(q, prio), NEW i \in 1 .. Len(q)
        PROVE  prio[q[i]] < prio[j]
    <3>1. i = 1 \/ prio[q[1]] >= prio[q[i]]
      BY <1>1, <2>3, <2>4 DEF InPrioOrder
    <3> QED
      BY <1>1, <1>5, <2>2, <2>3, <3>1
  <2>5. 1 \in 1 .. Len(q) + 1 /\ 0 + 1 = 1 /\ ~(1 > 1)
    BY <1>1
  <2> QED
    BY <1>5, <2>1, <2>4, <2>5
<1>3. CASE ~atEnd /\ order /\ ~(prio[Head(q)] < prio[j])
  <2> DEFINE m == Max(high)
  <2>1. SortIn(q, prio, j, order) = InsertAt(q, m + 1, j)
    BY <1>3 DEF SortIn
  <2>6. 1 \in high
    BY <1>1, <1>3
  <2>2. m \in high /\ \A k \in high : k <= m
    <3>1. high \in SUBSET (0 .. Len(q)) /\ high # {}
      BY <1>1, <2>6
    <3> QED
      BY <1>1, <3>1, MaxOfNats
  <2> HIDE DEF m
  <2>3. m + 1 \in 1 .. Len(q) + 1
    BY <1>1, <2>2
  <2>4. \A i \in 1 .. Len(q) : i >= m + 1 => prio[q[i]] < prio[j]
    BY <1>1, <2>2, SMTT(20)
  <2>5. prio[q[(m + 1) - 1]] >= prio[j]
    <3>1. m \in 1 .. Len(q) /\ m \notin lower
      BY <1>1, <2>2
    <3>2. (m + 1) - 1 = m /\ m \in Nat
      BY <1>1, <2>2
    <3> QED
      BY <1>1, <3>1, <3>2
  <2> QED
    BY <1>3, <2>1, <2>3, <2>4, <2>5
<1>4. CASE ~atEnd /\ ~order
  <2>1. SortIn(q, prio, j, order) = InsertAt(q, Min(lower) + 1, j)
    BY <1>4 DEF SortIn
  <2>2. Len(q) \in lower
    <3>1. Len(q) # 0
      BY <1>4, EmptySeq
    <3>2. Len(q) \in 1 .. Len(q)
      BY <1>1, <3>1
    <3> QED
      BY <1>1, <1>4, <3>2 DEF Last
  <2>3. Min(lower) \in lower
    <3>1. lower \in SUBSET Nat
      BY <1>1
    <3> QED
      BY <2>2, <3>1, MinOfNats
  <2> DEFINE n == Min(lower) + 1
  <2> HIDE DEF n
  <2>4. n \in 1 .. Len(q) + 1 /\ SortIn(q, prio, j, order) = InsertAt(q, n, j)
    BY <1>1, <2>1, <2>3 DEF n
  <2> QED
    BY <1>4, <2>4
<1> QED
  BY <1>2, <1>3, <1>4, <1>5

\* The list with the job sorted in, element by element.
LEMMA SortInShape ==
  ASSUME NEW T, NEW q \in Seq(T), NEW prio \in [T -> Int], NEW j \in T,
         NEW order \in BOOLEAN
  PROVE  \E n \in 1 .. Len(q) + 1 :
           /\ SortIn(q, prio, j, order) \in Seq(T)
           /\ Len(SortIn(q, prio, j, order)) = Len(q) + 1
           /\ \A i \in 1 .. Len(q) + 1 :
                SortIn(q, prio, j, order)[i] =
                  IF i < n THEN q[i] ELSE IF i = n THEN j ELSE q[i - 1]
           /\ q = <<>> \/ prio[Last(q)] >= prio[j] => n = Len(q) + 1
           /\ ~(q = <<>> \/ prio[Last(q)] >= prio[j]) /\ order =>
                /\ InPrioOrder(q, prio) =>
                     \A i \in 1 .. Len(q) : i >= n => prio[q[i]] < prio[j]
                /\ n > 1 => prio[q[n - 1]] >= prio[j]
<1> DEFINE s == SortIn(q, prio, j, order)
<1>1. PICK n \in 1 .. Len(q) + 1 :
        /\ s = InsertAt(q, n, j)
        /\ q = <<>> \/ prio[Last(q)] >= prio[j] => n = Len(q) + 1
        /\ ~(q = <<>> \/ prio[Last(q)] >= prio[j]) /\ order =>
             /\ InPrioOrder(q, prio) =>
                  \A i \in 1 .. Len(q) : i >= n => prio[q[i]] < prio[j]
             /\ n > 1 => prio[q[n - 1]] >= prio[j]
  BY SortInPlace, Zenon
<1> HIDE DEF s
<1>2. /\ InsertAt(q, n, j) \in Seq(T)
      /\ Len(InsertAt(q, n, j)) = Len(q) + 1
      /\ \A i \in 1 .. Len(q) + 1 :
           InsertAt(q, n, j)[i] =
             IF i < n THEN q[i] ELSE IF i = n THEN j ELSE q[i - 1]
  <2>1. InsertAt(q, n, j) \in Seq(T)
    BY ONLY q \in Seq(T), j \in T, n \in 1 .. Len(q) + 1, InsertAtElements
  <2>2. Len(InsertAt(q, n, j)) = Len(q) + 1
    BY ONLY q \in Seq(T), j \in T, n \in 1 .. Len(q) + 1, InsertAtElements
  <2>3. \A i \in 1 .. Len(q) + 1 :
          InsertAt(q, n, j)[i] =
            IF i < n THEN q[i] ELSE IF i = n THEN j ELSE q[i - 1]
    BY ONLY q \in Seq(T), j \in T, n \in 1 .. Len(q) + 1, InsertAtElements
  <2> QED
    BY <2>1, <2>2, <2>3
<1>3. /\ s \in Seq(T)
      /\ Len(s) = Len(q) + 1
      /\ \A i \in 1 .. Len(q) + 1 :
           s[i] = IF i < n THEN q[i] ELSE IF i = n THEN j ELSE q[i - 1]
  BY ONLY <1>1, <1>2
<1> QED
  BY <1>1, <1>3 DEF s

\* sort_in() adds one job to the list and loses none.
LEMMA SortInElements ==
  ASSUME NEW T, NEW q \in Seq(T), NEW prio \in [T -> Int], NEW j \in T,
         NEW order \in BOOLEAN
  PROVE  /\ SortIn(q, prio, j, order) \in Seq(T)
         /\ Len(SortIn(q, prio, j, order)) = Len(q) + 1
         /\ SortIn(q, prio, j, order) # <<>>
         /\ ToSet(SortIn(q, prio, j, order)) = ToSet(q) \cup {j}
<1> DEFINE s == SortIn(q, prio, j, order)
<1>2. PICK n \in 1 .. Len(q) + 1 :
        /\ s \in Seq(T)
        /\ Len(s) = Len(q) + 1
        /\ \A i \in 1 .. Len(q) + 1 :
             s[i] = IF i < n THEN q[i] ELSE IF i = n THEN j ELSE q[i - 1]
  BY SortInShape
<1> HIDE DEF s
<1>3. /\ Len(q) \in Nat
      /\ DOMAIN q = 1 .. Len(q)
      /\ DOMAIN s = 1 .. Len(q) + 1
  BY <1>2, LenProperties
<1>4. \A i \in DOMAIN s : s[i] \in ToSet(q) \cup {j}
  <2> SUFFICES ASSUME NEW i \in DOMAIN s, s[i] # j
               PROVE  \E k \in DOMAIN q : s[i] = q[k]
    BY DEF ToSet
  <2>3. i # n
    BY <1>2, <1>3
  <2>1. CASE i < n
    BY <1>2, <1>3, <2>1
  <2>2. CASE i > n
    <3>1. i - 1 \in DOMAIN q /\ s[i] = q[i - 1]
      BY <1>2, <1>3, <2>2
    <3> QED
      BY <3>1
  <2> QED
    BY <1>3, <2>1, <2>2, <2>3
<1>5. \A i \in DOMAIN q : q[i] \in ToSet(s)
  <2> SUFFICES ASSUME NEW i \in DOMAIN q
               PROVE  \E k \in DOMAIN s : s[k] = q[i]
    BY DEF ToSet
  <2>1. CASE i < n
    BY <1>2, <1>3, <2>1, SMTT(20)
  <2>2. CASE i >= n
    <3>1. i + 1 \in DOMAIN s /\ s[i + 1] = q[(i + 1) - 1] /\ (i + 1) - 1 = i
      BY <1>2, <1>3, <2>2
    <3> QED
      BY <3>1
  <2> QED
    BY <1>3, <2>1, <2>2
<1>6. j \in ToSet(s)
  <2>1. n \in DOMAIN s /\ s[n] = j
    BY <1>2, <1>3
  <2> QED
    BY <2>1 DEF ToSet
<1>7. ToSet(s) = ToSet(q) \cup {j}
  BY <1>4, <1>5, <1>6 DEF ToSet
<1>8. s # <<>>
  BY <1>2, <1>3, EmptySeq
<1> QED
  BY <1>2, <1>7, <1>8 DEF s

\* sort_in() links a job that is not in the list just once.
LEMMA SortInInjective ==
  ASSUME NEW T, NEW q \in Seq(T), NEW prio \in [T -> Int], NEW j \in T,
         NEW order \in BOOLEAN, IsInjective(q), j \notin ToSet(q)
  PROVE  IsInjective(SortIn(q, prio, j, order))
<1> DEFINE s == SortIn(q, prio, j, order)
<1>1. PICK n \in 1 .. Len(q) + 1 :
        /\ s \in Seq(T)
        /\ Len(s) = Len(q) + 1
        /\ \A i \in 1 .. Len(q) + 1 :
             s[i] = IF i < n THEN q[i] ELSE IF i = n THEN j ELSE q[i - 1]
  BY SortInShape
<1> HIDE DEF s
<1>2. /\ Len(q) \in Nat
      /\ DOMAIN q = 1 .. Len(q)
      /\ DOMAIN s = 1 .. Len(q) + 1
  BY <1>1, LenProperties
<1> DEFINE from(i) == IF i < n THEN i ELSE i - 1
<1>3. \A i \in DOMAIN s : i # n => from(i) \in DOMAIN q /\ s[i] = q[from(i)]
  <2> SUFFICES ASSUME NEW i \in DOMAIN s, i # n
               PROVE  from(i) \in DOMAIN q /\ s[i] = q[from(i)]
    OBVIOUS
  <2>1. s[i] = IF i < n THEN q[i] ELSE IF i = n THEN j ELSE q[i - 1]
    BY <1>1, <1>2
  <2>2. CASE i < n
    BY <1>2, <2>1, <2>2
  <2>3. CASE i > n
    BY <1>2, <2>1, <2>3
  <2> QED
    BY <1>2, <2>2, <2>3
<1>4. \A i \in DOMAIN s : i # n => s[i] # j
  BY <1>3 DEF ToSet
<1>5. s[n] = j
  BY <1>1, <1>2
<1>6. ASSUME NEW a \in DOMAIN s, NEW b \in DOMAIN s, s[a] = s[b]
      PROVE  a = b
  <2>1. CASE a = n \/ b = n
    BY <1>4, <1>5, <1>6, <2>1
  <2>2. CASE a # n /\ b # n
    <3>1. from(a) \in DOMAIN q /\ from(b) \in DOMAIN q
      BY <1>3, <2>2
    <3>2. q[from(a)] = q[from(b)]
      BY <1>3, <1>6, <2>2
    <3>3. from(a) = from(b)
      BY <3>1, <3>2 DEF IsInjective
    <3> QED
      BY <1>2, <2>2, <3>3
  <2> QED
    BY <2>1, <2>2
<1> QED
  BY <1>6 DEF IsInjective, s

\* The list is sorted: no job behind one of a lower priority.
\* Unless for a JOB_NOOP, sort_in() keeps a sorted list sorted.
LEMMA SortInKeepsOrder ==
  ASSUME NEW T, NEW q \in Seq(T), NEW prio \in [T -> Int], NEW j \in T,
         InPrioOrder(q, prio)
  PROVE  InPrioOrder(SortIn(q, prio, j, TRUE), prio)
<1> DEFINE s == SortIn(q, prio, j, TRUE)
<1>1. PICK n \in 1 .. Len(q) + 1 :
        /\ s \in Seq(T)
        /\ Len(s) = Len(q) + 1
        /\ \A i \in 1 .. Len(q) + 1 :
             s[i] = IF i < n THEN q[i] ELSE IF i = n THEN j ELSE q[i - 1]
        /\ q = <<>> \/ prio[Last(q)] >= prio[j] => n = Len(q) + 1
        /\ ~(q = <<>> \/ prio[Last(q)] >= prio[j]) /\ TRUE =>
             /\ InPrioOrder(q, prio) =>
                  \A i \in 1 .. Len(q) : i >= n => prio[q[i]] < prio[j]
             /\ n > 1 => prio[q[n - 1]] >= prio[j]
  BY SortInShape
<1> HIDE DEF s
<1>2. /\ Len(q) \in Nat
      /\ DOMAIN q = 1 .. Len(q)
      /\ DOMAIN s = 1 .. Len(q) + 1
      /\ \A i \in 1 .. Len(q) : q[i] \in T /\ prio[q[i]] \in Int
      /\ prio[j] \in Int
  BY <1>1, LenProperties, ElementOfSeq
<1>3. \A i \in 1 .. Len(q) : i < n => prio[q[i]] >= prio[j]
  <2> SUFFICES ASSUME NEW i \in 1 .. Len(q), i < n
               PROVE  prio[q[i]] >= prio[j]
    OBVIOUS
  <2>1. n - 1 \in 1 .. Len(q) /\ i <= n - 1
    BY <1>2
  <2>2. prio[q[n - 1]] >= prio[j]
    <3>1. CASE prio[Last(q)] >= prio[j]
      <4>1. n - 1 = Len(q)
        BY <1>1, <1>2, <3>1
      <4> QED
        BY <3>1, <4>1 DEF Last
    <3>2. CASE ~(prio[Last(q)] >= prio[j])
      <4>1. q # <<>> /\ n > 1
        BY <1>2, <2>1, EmptySeq
      <4> QED
        BY <1>1, <3>2, <4>1
    <3> QED
      BY <3>1, <3>2
  <2>3. i = n - 1 \/ prio[q[i]] >= prio[q[n - 1]]
    <3>1. i \in DOMAIN q /\ n - 1 \in DOMAIN q /\ (i = n - 1 \/ i < n - 1)
      BY <1>2, <2>1
    <3> QED
      BY <3>1 DEF InPrioOrder
  <2> QED
    BY <1>2, <2>1, <2>2, <2>3
<1>4. \A i \in 1 .. Len(q) : i >= n => prio[q[i]] < prio[j]
  BY <1>1, <1>2
<1>6. ASSUME NEW i \in DOMAIN s
      PROVE  /\ i < n => i \in DOMAIN q /\ s[i] = q[i]
             /\ i = n => s[i] = j
             /\ i > n => i - 1 \in DOMAIN q /\ i - 1 >= n /\ s[i] = q[i - 1]
  <2>1. s[i] = IF i < n THEN q[i] ELSE IF i = n THEN j ELSE q[i - 1]
    BY <1>1, <1>2
  <2> QED
    BY <1>2, <2>1
<1>5. ASSUME NEW a \in DOMAIN s, NEW b \in DOMAIN s, a < b
      PROVE  prio[s[a]] >= prio[s[b]]
  <2>1. CASE b < n
    <3>1. /\ a \in DOMAIN q /\ b \in DOMAIN q
          /\ s[a] = q[a] /\ s[b] = q[b]
      BY <1>2, <1>5, <1>6, <2>1
    <3> QED
      BY <1>5, <3>1 DEF InPrioOrder
  <2>2. CASE b = n
    BY <1>2, <1>3, <1>5, <1>6, <2>2
  <2>3. CASE a = n
    <3>1. b - 1 \in 1 .. Len(q) /\ b - 1 >= n /\ s[b] = q[b - 1] /\ s[a] = j
      BY <1>2, <1>5, <1>6, <2>3
    <3>2. prio[q[b - 1]] < prio[j] /\ prio[q[b - 1]] \in Int
      BY <1>2, <1>4, <3>1
    <3> QED
      BY <1>2, <3>1, <3>2
  <2>4. CASE a < n /\ b > n
    <3>1. /\ b - 1 \in 1 .. Len(q) /\ b - 1 >= n /\ s[b] = q[b - 1]
          /\ a \in 1 .. Len(q) /\ s[a] = q[a]
      BY <1>2, <1>6, <2>4
    <3>2. /\ prio[q[b - 1]] < prio[j] /\ prio[q[b - 1]] \in Int
          /\ prio[q[a]] >= prio[j] /\ prio[q[a]] \in Int
      BY <1>2, <1>3, <1>4, <2>4, <3>1
    <3> QED
      BY <1>2, <3>1, <3>2
  <2>5. CASE a > n
    <3>1. /\ a - 1 \in DOMAIN q /\ b - 1 \in DOMAIN q /\ a - 1 < b - 1
          /\ s[a] = q[a - 1] /\ s[b] = q[b - 1]
      BY <1>2, <1>5, <1>6, <2>5
    <3> QED
      BY <3>1 DEF InPrioOrder
  <2> QED
    BY <1>2, <1>5, <2>1, <2>2, <2>3, <2>4, <2>5
<1> QED
  BY <1>5 DEF InPrioOrder, s

-----------------------------------------------------------------------------
(***************************************************************************)
(* move_out(): the jobs that stay, counted from the head of the list.      *)
(***************************************************************************)

LEMMA StayFinite ==
  ASSUME NEW T, NEW q \in Seq(T), NEW gone
  PROVE  /\ Len(q) \in Nat
         /\ Stay(q, gone) \in SUBSET (1 .. Len(q))
         /\ IsFiniteSet(Stay(q, gone))
         /\ Cardinality(Stay(q, gone)) \in Nat
         /\ \A n : /\ IsFiniteSet(StayUpTo(q, gone, n))
                  /\ Cardinality(StayUpTo(q, gone, n)) \in Nat
<1>1. Len(q) \in Nat /\ DOMAIN q = 1 .. Len(q)
  BY LenProperties
<1>2. Stay(q, gone) \in SUBSET (1 .. Len(q))
  BY <1>1 DEF Stay
<1>3. IsFiniteSet(1 .. Len(q))
  BY <1>1, FS_Interval
<1>4. IsFiniteSet(Stay(q, gone))
  BY <1>2, <1>3, FS_Subset
<1>5. ASSUME NEW n
      PROVE  IsFiniteSet(StayUpTo(q, gone, n))
  <2>1. StayUpTo(q, gone, n) \in SUBSET Stay(q, gone)
    BY DEF StayUpTo
  <2> QED
    BY <1>4, <2>1, FS_Subset
<1> QED
  BY <1>1, <1>2, <1>4, <1>5, FS_CardinalityType

\* Behind every place that stays one more job has been counted.
LEMMA StayCountsUp ==
  ASSUME NEW T, NEW q \in Seq(T), NEW gone, NEW n \in Nat
  PROVE  Cardinality(StayUpTo(q, gone, n + 1)) =
           IF n + 1 \in Stay(q, gone)
           THEN Cardinality(StayUpTo(q, gone, n)) + 1
           ELSE Cardinality(StayUpTo(q, gone, n))
<1>1. /\ IsFiniteSet(StayUpTo(q, gone, n))
      /\ Stay(q, gone) \in SUBSET (1 .. Len(q))
      /\ Len(q) \in Nat
  BY StayFinite
<1>2. n + 1 \notin StayUpTo(q, gone, n)
  BY DEF StayUpTo
<1>3. CASE n + 1 \in Stay(q, gone)
  <2>1. StayUpTo(q, gone, n + 1) = StayUpTo(q, gone, n) \cup {n + 1}
    BY <1>1, <1>3 DEF StayUpTo
  <2> QED
    BY <1>1, <1>2, <1>3, <2>1, FS_AddElement
<1>4. CASE n + 1 \notin Stay(q, gone)
  <2>1. StayUpTo(q, gone, n + 1) = StayUpTo(q, gone, n)
    BY <1>1, <1>4 DEF StayUpTo
  <2> QED
    BY <1>4, <2>1
<1> QED
  BY <1>3, <1>4

LEMMA StayMonotone ==
  ASSUME NEW T, NEW q \in Seq(T), NEW gone,
         NEW a \in Stay(q, gone), NEW b \in Stay(q, gone), a < b
  PROVE  Cardinality(StayUpTo(q, gone, a)) < Cardinality(StayUpTo(q, gone, b))
<1>1. /\ IsFiniteSet(StayUpTo(q, gone, a))
      /\ IsFiniteSet(StayUpTo(q, gone, b))
      /\ Cardinality(StayUpTo(q, gone, a)) \in Nat
      /\ Cardinality(StayUpTo(q, gone, b)) \in Nat
      /\ Stay(q, gone) \in SUBSET Nat
  BY StayFinite
<1>2. StayUpTo(q, gone, a) \in SUBSET StayUpTo(q, gone, b)
  BY <1>1 DEF StayUpTo
<1>3. b \in StayUpTo(q, gone, b) /\ b \notin StayUpTo(q, gone, a)
  BY <1>1 DEF StayUpTo
<1>4. /\ Cardinality(StayUpTo(q, gone, a)) <= Cardinality(StayUpTo(q, gone, b))
      /\ Cardinality(StayUpTo(q, gone, a)) # Cardinality(StayUpTo(q, gone, b))
  BY <1>1, <1>2, <1>3, FS_Subset
<1> QED
  BY <1>1, <1>4

\* The k-th job that stays has a place.
LEMMA PlaceOfElement ==
  ASSUME NEW T, NEW q \in Seq(T), NEW gone,
         NEW k \in 1 .. Cardinality(Stay(q, gone))
  PROVE  /\ PlaceOf(q, gone, k) \in Stay(q, gone)
         /\ Cardinality(StayUpTo(q, gone, PlaceOf(q, gone, k))) = k
<1> DEFINE C(n) == Cardinality(StayUpTo(q, gone, n))
           Enough == {n \in Nat : C(n) >= k}
<1>1. /\ Len(q) \in Nat
      /\ Stay(q, gone) \in SUBSET (1 .. Len(q))
      /\ Cardinality(Stay(q, gone)) \in Nat
      /\ \A n : C(n) \in Nat
  BY StayFinite
<1>2. Len(q) \in Enough
  <2>1. StayUpTo(q, gone, Len(q)) = Stay(q, gone)
    BY <1>1 DEF StayUpTo
  <2> QED
    BY <1>1, <2>1
<1>3. PICK m \in Enough : \A n \in Enough : m <= n
  BY <1>2, LeastNat
<1>4. C(0) = 0
  <2>1. StayUpTo(q, gone, 0) = {}
    BY <1>1 DEF StayUpTo
  <2> QED
    BY <2>1, FS_EmptySet
<1>5. m - 1 \in Nat /\ (m - 1) + 1 = m
  BY <1>3, <1>4
<1>6. C(m - 1) < k
  BY <1>1, <1>3, <1>5
<1>7. C(m) = IF m \in Stay(q, gone) THEN C(m - 1) + 1 ELSE C(m - 1)
  BY <1>5, StayCountsUp
<1>8. m \in Stay(q, gone) /\ C(m) = k
  BY <1>1, <1>3, <1>6, <1>7
<1> QED
  BY <1>8 DEF PlaceOf

\* The jobs that stay keep their order.
LEMMA PlaceOfMonotone ==
  ASSUME NEW T, NEW q \in Seq(T), NEW gone,
         NEW k \in 1 .. Cardinality(Stay(q, gone)),
         NEW l \in 1 .. Cardinality(Stay(q, gone)), k < l
  PROVE  PlaceOf(q, gone, k) < PlaceOf(q, gone, l)
<1> DEFINE a == PlaceOf(q, gone, k)
           b == PlaceOf(q, gone, l)
<1>1. /\ a \in Stay(q, gone) /\ Cardinality(StayUpTo(q, gone, a)) = k
      /\ b \in Stay(q, gone) /\ Cardinality(StayUpTo(q, gone, b)) = l
  BY PlaceOfElement
<1> HIDE DEF a, b
<1>2. Stay(q, gone) \in SUBSET Nat
  BY StayFinite
<1>3. a # b
  BY <1>1
<1>4. ~(b < a)
  BY <1>1, StayMonotone
<1>5. a < b
  BY <1>1, <1>2, <1>3, <1>4
<1> QED
  BY <1>5 DEF a, b

\* move_out() unlinks the jobs it is given and no other.
LEMMA MoveOutElements ==
  ASSUME NEW T, NEW q \in Seq(T), NEW gone
  PROVE  /\ MoveOut(q, gone) \in Seq(T)
         /\ ToSet(MoveOut(q, gone)) = ToSet(q) \ gone
<1> DEFINE s == MoveOut(q, gone)
           n == Cardinality(Stay(q, gone))
<1>1. /\ Len(q) \in Nat
      /\ Stay(q, gone) \in SUBSET (1 .. Len(q))
      /\ n \in Nat
      /\ DOMAIN q = 1 .. Len(q)
  BY StayFinite, LenProperties
<1>2. \A k \in 1 .. n : PlaceOf(q, gone, k) \in Stay(q, gone)
  BY PlaceOfElement
<1>3. DOMAIN s = 1 .. n /\ \A k \in 1 .. n : s[k] = q[PlaceOf(q, gone, k)]
  BY DEF MoveOut
<1>4. s \in [1 .. n -> T]
  <2>1. \A k \in 1 .. n : q[PlaceOf(q, gone, k)] \in T
    BY <1>1, <1>2, ElementOfSeq
  <2> QED
    BY <2>1 DEF MoveOut
<1>5. s \in Seq(T)
  BY <1>1, <1>4, SeqDef
<1>6. \A k \in DOMAIN s : s[k] \in ToSet(q) \ gone
  BY <1>1, <1>2, <1>3 DEF Stay, ToSet
<1>7. ASSUME NEW i \in DOMAIN q, q[i] \notin gone
      PROVE  \E k \in DOMAIN s : s[k] = q[i]
  <2> DEFINE k == Cardinality(StayUpTo(q, gone, i))
  <2>1. i \in Stay(q, gone)
    BY <1>7 DEF Stay
  <2>2. k \in 1 .. n
    <3>1. /\ IsFiniteSet(Stay(q, gone))
          /\ StayUpTo(q, gone, i) \in SUBSET Stay(q, gone)
          /\ k \in Nat
          /\ IsFiniteSet(StayUpTo(q, gone, i))
      BY StayFinite DEF StayUpTo
    <3>2. k <= n
      BY <3>1, FS_Subset
    <3>3. i \in StayUpTo(q, gone, i)
      BY <1>1, <2>1 DEF StayUpTo
    <3>4. k # 0
      BY <3>1, <3>3, FS_EmptySet
    <3> QED
      BY <1>1, <3>1, <3>2, <3>4
  <2>3. PlaceOf(q, gone, k) = i
    <3> DEFINE p == PlaceOf(q, gone, k)
    <3>1. p \in Stay(q, gone) /\ Cardinality(StayUpTo(q, gone, p)) = k
      BY <2>2, PlaceOfElement
    <3> HIDE DEF p
    <3>2. ~(p < i) /\ ~(i < p)
      BY <2>1, <2>2, <3>1, StayMonotone, StayFinite
    <3>3. p = i
      BY <1>1, <2>1, <3>1, <3>2
    <3> QED
      BY <3>3 DEF p
  <2> QED
    BY <1>3, <2>2, <2>3
<1>8. ToSet(s) = ToSet(q) \ gone
  BY <1>6, <1>7 DEF ToSet
<1> QED
  BY <1>5, <1>8

\* What move_out() leaves is linked once, and in the order it was.
LEMMA MoveOutKeeps ==
  ASSUME NEW T, NEW q \in Seq(T), NEW gone
  PROVE  /\ IsInjective(q) => IsInjective(MoveOut(q, gone))
         /\ \A prio : InPrioOrder(q, prio)
                       => InPrioOrder(MoveOut(q, gone), prio)
<1> DEFINE s == MoveOut(q, gone)
           n == Cardinality(Stay(q, gone))
           at(k) == PlaceOf(q, gone, k)
<1>1. /\ Stay(q, gone) \in SUBSET (1 .. Len(q))
      /\ n \in Nat
      /\ Len(q) \in Nat
      /\ DOMAIN q = 1 .. Len(q)
  BY StayFinite, LenProperties
<1>2. DOMAIN s = 1 .. n /\ \A k \in 1 .. n : s[k] = q[at(k)]
  BY DEF MoveOut
<1>3. \A k \in 1 .. n : at(k) \in DOMAIN q
  BY <1>1, PlaceOfElement
<1>4. \A k, l \in 1 .. n : k < l => at(k) < at(l)
  BY PlaceOfMonotone
<1> HIDE DEF s, n, at
<1>5. ASSUME IsInjective(q), NEW k \in 1 .. n, NEW l \in 1 .. n, s[k] = s[l]
      PROVE  k = l
  <2>1. at(k) = at(l)
    BY <1>2, <1>3, <1>5 DEF IsInjective
  <2>2. ~(k < l) /\ ~(l < k)
    BY <1>1, <1>3, <1>4, <2>1
  <2> QED
    BY <1>1, <2>2
<1>6. ASSUME NEW prio, InPrioOrder(q, prio),
             NEW k \in 1 .. n, NEW l \in 1 .. n, k < l
      PROVE  prio[s[k]] >= prio[s[l]]
  BY <1>2, <1>3, <1>4, <1>6 DEF InPrioOrder
<1>7. /\ IsInjective(q) => IsInjective(s)
      /\ \A prio : InPrioOrder(q, prio) => InPrioOrder(s, prio)
  BY <1>2, <1>5, <1>6 DEF IsInjective, InPrioOrder
<1> QED
  BY <1>7 DEF s

-----------------------------------------------------------------------------
(***************************************************************************)
(* Front(), which SequenceTheorems does not treat.                         *)
(***************************************************************************)

LEMMA FrontElements ==
  ASSUME NEW T, NEW q \in Seq(T), q # <<>>
  PROVE  /\ Front(q) \in Seq(T)
         /\ Len(Front(q)) = Len(q) - 1
         /\ \A i \in 1 .. Len(q) - 1 : Front(q)[i] = q[i]
<1>1. /\ Len(q) \in Nat \ {0}
      /\ \A i \in 1 .. Len(q) : q[i] \in T
  BY EmptySeq, ElementOfSeq
<1>2. 1 \in Int /\ Len(q) - 1 \in Int /\ \A i \in 1 .. Len(q) - 1 : q[i] \in T
  BY <1>1
<1>3. /\ SubSeq(q, 1, Len(q) - 1) \in Seq(T)
      /\ Len(SubSeq(q, 1, Len(q) - 1)) =
           IF 1 <= Len(q) - 1 THEN (Len(q) - 1) - 1 + 1 ELSE 0
      /\ \A i \in 1 .. (Len(q) - 1) - 1 + 1 :
           SubSeq(q, 1, Len(q) - 1)[i] = q[1 + i - 1]
  BY ONLY <1>2, SubSeqProperties
<1> DEFINE f == SubSeq(q, 1, Len(q) - 1)
           n == Len(q) - 1
<1>4. n \in Nat /\ Len(q) - 1 = n
  BY <1>1
<1> HIDE DEF n
<1>5. /\ f \in Seq(T)
      /\ Len(f) = IF 1 <= n THEN n - 1 + 1 ELSE 0
      /\ \A i \in 1 .. n - 1 + 1 : f[i] = q[1 + i - 1]
  BY <1>3, <1>4
<1> HIDE DEF f
<1>6. Len(f) = n
  BY <1>4, <1>5
<1>7. ASSUME NEW i \in 1 .. n
      PROVE  f[i] = q[i]
  <2>1. 1 + i - 1 = i /\ i \in 1 .. n - 1 + 1
    BY <1>4
  <2> QED
    BY <1>5, <2>1
<1>8. Front(q) = f
  BY DEF Front, f
<1> QED
  BY <1>4, <1>5, <1>6, <1>7, <1>8

\* The head of the list and the jobs behind it.
LEMMA HeadAndTail ==
  ASSUME NEW T, NEW q \in Seq(T), q # <<>>
  PROVE  /\ Head(q) \in T /\ Tail(q) \in Seq(T)
         /\ ToSet(q) = {Head(q)} \cup ToSet(Tail(q))
         /\ IsInjective(q) => /\ IsInjective(Tail(q))
                              /\ Head(q) \notin ToSet(Tail(q))
         /\ \A p : InPrioOrder(q, p) => InPrioOrder(Tail(q), p)
<1> DEFINE t == Tail(q)
<1>1. /\ Head(q) \in T
      /\ t \in Seq(T)
      /\ Len(t) = Len(q) - 1
      /\ \A i \in 1 .. Len(t) : t[i] = q[i + 1]
  BY HeadTailProperties
<1>2. Head(q) = q[1]
  OBVIOUS
<1> HIDE DEF t
<1>3. DOMAIN q = 1 .. Len(q) /\ DOMAIN t = 1 .. Len(t)
  BY <1>1, LenProperties
<1>4. Len(q) \in Nat \ {0}
  BY EmptySeq
<1>5. \A i \in 1 .. Len(t) : i + 1 \in 1 .. Len(q) /\ i + 1 # 1
  BY <1>1, <1>4
<1>6. \A k \in 1 .. Len(q) : k = 1 \/ (k - 1 \in 1 .. Len(t) /\ (k - 1) + 1 = k)
  BY <1>1, <1>4
<1>7. 1 \in 1 .. Len(q)
  BY <1>4
<1>8. ToSet(q) \subseteq {Head(q)} \cup ToSet(t)
  <2> SUFFICES ASSUME NEW k \in 1 .. Len(q), k # 1
               PROVE  \E i \in 1 .. Len(t) : q[k] = t[i]
    BY <1>2, <1>3 DEF ToSet
  <2> QED
    BY <1>1, <1>6
<1>9. {Head(q)} \cup ToSet(t) \subseteq ToSet(q)
  BY <1>1, <1>2, <1>3, <1>5, <1>7 DEF ToSet
<1>10. ASSUME IsInjective(q)
       PROVE  IsInjective(t) /\ Head(q) \notin ToSet(t)
  <2>1. ASSUME NEW a \in 1 .. Len(t), NEW b \in 1 .. Len(t), t[a] = t[b]
        PROVE  a = b
    <3>1. a + 1 = b + 1
      BY <1>1, <1>3, <1>5, <1>10, <2>1 DEF IsInjective
    <3> QED
      BY <3>1
  <2>2. ASSUME NEW a \in 1 .. Len(t), t[a] = q[1]
        PROVE  FALSE
    BY <1>1, <1>3, <1>5, <1>7, <1>10, <2>2 DEF IsInjective
  <2>3. IsInjective(t)
    BY <1>3, <2>1 DEF IsInjective
  <2>4. q[1] \notin ToSet(t)
    BY <1>3, <2>2 DEF ToSet
  <2> QED
    BY <1>2, <2>3, <2>4
<1>11. ASSUME NEW p, InPrioOrder(q, p)
       PROVE  InPrioOrder(t, p)
  <2>1. ASSUME NEW a \in 1 .. Len(t), NEW b \in 1 .. Len(t), a < b
        PROVE  p[t[a]] >= p[t[b]]
    <3>1. a + 1 < b + 1
      BY <2>1
    <3> QED
      BY <1>1, <1>3, <1>5, <1>11, <3>1 DEF InPrioOrder
  <2> QED
    BY <1>3, <2>1 DEF InPrioOrder
<1> QED
  BY <1>1, <1>8, <1>9, <1>10, <1>11 DEF t

-----------------------------------------------------------------------------
(***************************************************************************)
(* The elements at some places of a sequence.                              *)
(***************************************************************************)
LEMMA NthPlace ==
  ASSUME NEW N \in Nat, NEW I \in SUBSET (1 .. N)
  PROVE  /\ Cardinality(I) \in 0 .. N
         /\ \A k \in 1 .. Cardinality(I) : Nth(I, k) \in I
         /\ \A k, l \in 1 .. Cardinality(I) : Nth(I, k) = Nth(I, l) => k = l
         /\ \A k, l \in 1 .. Cardinality(I) : k < l => Nth(I, k) < Nth(I, l)
         /\ \A i \in I : \E k \in 1 .. Cardinality(I) : Nth(I, k) = i
<1> DEFINE q == [i \in 1 .. N |-> i]
           gone == (1 .. N) \ I
           n == Cardinality(I)
<1>1. q \in Seq(Nat) /\ Len(q) = N /\ DOMAIN q = 1 .. N
  BY SeqDef, LenProperties
<1>2. Stay(q, gone) = I
  BY DEF Stay
<1>3. \A i : StayUpTo(q, gone, i) = {p \in I : p <= i}
  BY <1>2 DEF StayUpTo
<1>4. \A k : PlaceOf(q, gone, k) = Nth(I, k)
  BY <1>2, <1>3 DEF PlaceOf, Nth
<1>5. IsFiniteSet(1 .. N) /\ Cardinality(1 .. N) = N
  BY FS_Interval
<1>6. IsFiniteSet(I) /\ n \in Nat /\ n <= N
  BY <1>5, FS_Subset, FS_CardinalityType
<1> HIDE DEF q, gone
<1>7. ASSUME NEW k \in 1 .. n
      PROVE  Nth(I, k) \in I /\ Cardinality({p \in I : p <= Nth(I, k)}) = k
  <2>1. k \in 1 .. Cardinality(Stay(q, gone))
    BY <1>2
  <2>2. /\ PlaceOf(q, gone, k) \in Stay(q, gone)
        /\ Cardinality(StayUpTo(q, gone, PlaceOf(q, gone, k))) = k
    BY ONLY <1>1, <2>1, PlaceOfElement
  <2> QED
    BY <1>2, <1>3, <1>4, <2>2
<1>8. ASSUME NEW i \in I
      PROVE  \E k \in 1 .. n : Nth(I, k) = i
  <2> DEFINE C(j) == Cardinality({p \in I : p <= j})
  <2>1. C(i) \in 1 .. n
    <3>1. IsFiniteSet({p \in I : p <= i}) /\ C(i) \in Nat /\ C(i) <= n
      BY <1>6, FS_Subset, FS_CardinalityType
    <3>2. i \in {p \in I : p <= i}
      OBVIOUS
    <3>3. C(i) # 0
      BY <3>1, <3>2, FS_EmptySet
    <3> QED
      BY <1>6, <3>1, <3>3
  <2>2. \A a, b \in I : a < b => C(a) < C(b)
    BY <1>1, <1>2, <1>3, StayMonotone, ZenonT(40)
  <2> HIDE DEF C
  <2> DEFINE m == Nth(I, C(i))
  <2>3. m \in I /\ C(m) = C(i)
    BY <1>7, <2>1 DEF C
  <2> HIDE DEF m
  <2>4. ~(m < i) /\ ~(i < m)
    BY <2>1, <2>2, <2>3
  <2>5. m = i
    BY <2>3, <2>4
  <2> QED
    BY <2>1, <2>5 DEF m
<1>9. ASSUME NEW k \in 1 .. n, NEW l \in 1 .. n, Nth(I, k) = Nth(I, l)
      PROVE  k = l
  BY <1>7, <1>9
<1>10. \A k \in 1 .. n : Nth(I, k) \in I
  BY <1>7
<1>11. \A k, l \in 1 .. n : Nth(I, k) = Nth(I, l) => k = l
  BY <1>9
<1>12. n \in 0 .. N
  BY <1>6
<1>13. ASSUME NEW k \in 1 .. n, NEW l \in 1 .. n, k < l
       PROVE  Nth(I, k) < Nth(I, l)
  <2>1. k \in 1 .. Cardinality(Stay(q, gone)) /\ l \in 1 .. Cardinality(Stay(q, gone))
    BY <1>2
  <2>2. PlaceOf(q, gone, k) < PlaceOf(q, gone, l)
    BY ONLY <1>1, <1>13, <2>1, PlaceOfMonotone
  <2> QED
    BY <1>4, <2>2
<1> QED
  BY <1>8, <1>10, <1>11, <1>12, <1>13

LEMMA PickedInSeq ==
  ASSUME NEW N \in Nat, NEW I \in SUBSET (1 .. N), NEW T, NEW s,
         \A i \in I : s[i] \in T
  PROVE  Picked(s, I) \in Seq(T)
<1> DEFINE n == Cardinality(I)
<1>1. /\ n \in Nat
      /\ \A k \in 1 .. n : Nth(I, k) \in I
  BY NthPlace
<1>2. Picked(s, I) \in [1 .. n -> T]
  <2>1. \A k \in 1 .. n : s[Nth(I, k)] \in T
    BY <1>1
  <2> QED
    BY <2>1 DEF Picked
<1> QED
  BY <1>1, <1>2, SeqDef

LEMMA PickedElements ==
  ASSUME NEW N \in Nat, NEW I \in SUBSET (1 .. N), NEW T, NEW s,
         \A i \in I : s[i] \in T
  PROVE  /\ Picked(s, I) \in Seq(T)
         /\ Len(Picked(s, I)) = Cardinality(I)
         /\ DOMAIN Picked(s, I) = 1 .. Cardinality(I)
         /\ \A k \in 1 .. Cardinality(I) : Picked(s, I)[k] = s[Nth(I, k)]
<1> DEFINE n == Cardinality(I)
           t == Picked(s, I)
<1>1. n \in Nat
  BY NthPlace
<1>2. DOMAIN t = 1 .. n /\ \A k \in 1 .. n : t[k] = s[Nth(I, k)]
  BY DEF Picked
<1>3. t \in Seq(T)
  BY PickedInSeq
<1>4. Len(t) = n
  <2> HIDE DEF n, t
  <2> QED
    BY <1>1, <1>2, <1>3, LenProperties
<1> QED
  BY <1>2, <1>3, <1>4

=============================================================================
