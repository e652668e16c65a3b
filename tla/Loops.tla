------------------------------- MODULE Loops -------------------------------
(***************************************************************************)
(* What proofs about loops rest on: induction up to a bound, in the form   *)
(* of a set of naturals that holds 0 and the successor of each of its      *)
(* members, how sequences grow by Append and \o, and sums over finite sets.*)
(***************************************************************************)
EXTENDS Integers, SequenceTheorems, FiniteSetTheorems, WellFoundedInduction, TLAPS

(* A non-empty set of naturals has a least element.                        *)
LEMMA LeastElement ==
  ASSUME NEW T, T \subseteq Nat, T # {}
  PROVE  \E x \in T : \A y \in T : x <= y
<1>1. IsWellFoundedOn(OpToRel(<, Nat), Nat)
  BY NatLessThanWellFounded
<1>2. \E x \in T : \A y \in T : ~ (<<y, x>> \in OpToRel(<, Nat))
  BY <1>1, WFMin
<1>3. PICK x \in T : \A y \in T : ~ (<<y, x>> \in OpToRel(<, Nat))
  BY <1>2
<1>4. \A y \in T : ~ (y < x)
  BY <1>3 DEF OpToRel
<1> QED
  BY <1>4

(* Induction along a loop of n rounds.                                     *)
LEMMA UpTo ==
  ASSUME NEW n \in Nat, NEW T, 0 \in T,
         \A k \in 0 .. n - 1 : k \in T => k + 1 \in T
  PROVE  \A k \in 0..n : k \in T
<1> DEFINE Missed == {k \in 0..n : k \notin T}
<1>1. SUFFICES ASSUME Missed # {} PROVE FALSE
  OBVIOUS
<1>2. PICK x \in Missed : \A y \in Missed : x <= y
  <2>1. Missed \subseteq Nat /\ Missed # {}
    BY <1>1
  <2> HIDE DEF Missed
  <2> QED
    BY <2>1, LeastElement
<1>3. x \in 1..n /\ x - 1 \in 0 .. n - 1 /\ (x - 1) + 1 = x
  BY <1>2
<1>4. x - 1 \in T
  BY <1>2, <1>3
<1> QED
  BY <1>2, <1>3, <1>4

(* A loop whose k-th round leads from W[k] to W[k + 1] has a run, its      *)
(* values before and after each round; step[k] is what the round makes of  *)
(* what it finds.                                                          *)
IsRun(run, n, W, b, step) ==
  /\ run = [k \in 0..n |-> run[k]]
  /\ run[0] = b
  /\ \A k \in 0..n : run[k] \in W[k]
  /\ \A k \in 0 .. n - 1 : run[k + 1] = step[k][run[k]]

LEMMA RunExists ==
  ASSUME NEW n \in Nat, NEW W, NEW b \in W[0], NEW step,
         \A k \in 0 .. n - 1 : \A c \in W[k] : step[k][c] \in W[k + 1]
  PROVE  \E run : IsRun(run, n, W, b, step)
<1> DEFINE Runs(run, m) == IsRun(run, m, W, b, step)
           T == {m \in 0..n : \E run : Runs(run, m)}
<1>1. 0 \in T
  <2> DEFINE run == [k \in 0..0 |-> b]
  <2>1. run[0] = b /\ run = [k \in 0..0 |-> run[k]]
    OBVIOUS
  <2> HIDE DEF run
  <2>2. Runs(run, 0)
    BY <2>1 DEF IsRun
  <2> QED
    BY <2>2
<1>2. ASSUME NEW m \in 0 .. n - 1, m \in T PROVE m + 1 \in T
  <2>1. PICK run : Runs(run, m)
    BY <1>2
  <2>2. run[0] = b
    BY <2>1 DEF IsRun
  <2>3. \A k \in 0..m : run[k] \in W[k]
    BY <2>1 DEF IsRun
  <2>4. \A k \in 0 .. m - 1 : run[k + 1] = step[k][run[k]]
    BY <2>1 DEF IsRun
  <2> DEFINE longer == [k \in 0 .. m + 1 |-> IF k <= m THEN run[k] ELSE step[m][run[m]]]
  <2>5. longer = [k \in 0 .. m + 1 |-> longer[k]]
    OBVIOUS
  <2>6. \A k \in 0..m : longer[k] = run[k]
    OBVIOUS
  <2>7. longer[m + 1] = step[m][run[m]]
    OBVIOUS
  <2> HIDE DEF longer
  <2>8. longer[0] = b
    BY <2>2, <2>6
  <2>9. step[m][run[m]] \in W[m + 1]
    BY <2>3
  <2>10. ASSUME NEW k \in 0 .. m + 1 PROVE longer[k] \in W[k]
    <3>1. CASE k <= m
      BY <2>3, <2>6, <3>1
    <3>2. CASE k = m + 1
      BY <2>7, <2>9, <3>2
    <3> QED
      BY <3>1, <3>2
  <2>11. ASSUME NEW k \in 0 .. (m + 1) - 1 PROVE longer[k + 1] = step[k][longer[k]]
    <3>1. CASE k < m
      <4>1. k \in 0 .. m - 1 /\ k + 1 \in 0..m /\ k \in 0..m
        BY <3>1
      <4> QED
        BY <2>4, <2>6, <4>1
    <3>2. CASE k = m
      BY <2>6, <2>7, <3>2
    <3> QED
      BY <3>1, <3>2
  <2>12. Runs(longer, m + 1)
    BY <2>5, <2>8, <2>10, <2>11 DEF IsRun
  <2> HIDE DEF Runs
  <2> QED
    BY <2>12
<1> HIDE DEF T
<1>3. n \in 0..n
  OBVIOUS
<1>4. n \in T
  BY <1>1, <1>2, <1>3, UpTo
<1>5. PICK run : Runs(run, n)
  <2> HIDE DEF Runs
  <2> QED
    BY <1>4 DEF T
<1> QED
  BY <1>5

(* What a run is, one fact at a time.                                      *)
LEMMA RunFacts ==
  ASSUME NEW n \in Nat, NEW W, NEW b, NEW step, NEW run, IsRun(run, n, W, b, step)
  PROVE  /\ run = [k \in 0..n |-> run[k]]
         /\ run[0] = b
         /\ \A k \in 0 .. n - 1 : run[k] \in W[k] /\ run[k + 1] = step[k][run[k]]
<1>1. run = [k \in 0..n |-> run[k]]
  BY DEF IsRun
<1>2. run[0] = b
  BY DEF IsRun
<1>3. \A k \in 0..n : run[k] \in W[k]
  BY DEF IsRun
<1>4. \A k \in 0 .. n - 1 : run[k + 1] = step[k][run[k]]
  BY DEF IsRun
<1>5. \A k \in 0 .. n - 1 : run[k] \in W[k]
  BY <1>3
<1> QED
  BY <1>1, <1>2, <1>4, <1>5

(* Such a loop ends in W[n], whichever run of it is taken.                 *)
LEMMA LoopEnds ==
  ASSUME NEW n \in Nat, NEW W, NEW run, run[0] \in W[0],
         \A k \in 0 .. n - 1 : run[k] \in W[k] => run[k + 1] \in W[k + 1]
  PROVE  run[n] \in W[n]
<1> DEFINE T == {k \in 0..n : run[k] \in W[k]}
<1>1. 0 \in T /\ n \in 0..n /\ \A k \in 0 .. n - 1 : k \in T => k + 1 \in T
  OBVIOUS
<1> HIDE DEF T
<1> QED
  BY <1>1, UpTo DEF T

(* A sequence that is a prefix of a function grows to the next prefix.     *)
LEMMA AppendPrefix ==
  ASSUME NEW m \in Nat, NEW f
  PROVE  Append([i \in 1..m |-> f[i]], f[m + 1]) = [i \in 1 .. m + 1 |-> f[i]]
OBVIOUS

LEMMA ConcatPrefixes ==
  ASSUME NEW m \in Nat, NEW n \in Nat, NEW f, NEW g
  PROVE  [i \in 1..m |-> f[i]] \o [i \in 1..n |-> g[i]]
           = [i \in 1 .. m + n |-> IF i <= m THEN f[i] ELSE g[i - m]]
OBVIOUS

(* A set is as large as its image under a function that repeats no value.  *)
LEMMA ImageCardinality ==
  ASSUME NEW S, IsFiniteSet(S), NEW f,
         \A x, y \in S : f[x] = f[y] => x = y
  PROVE  IsFiniteSet({f[x] : x \in S}) /\ Cardinality({f[x] : x \in S}) = Cardinality(S)
<1> DEFINE T == {f[x] : x \in S}
           h == [x \in S |-> f[x]]
<1>1. h \in Bijection(S, T)
  BY DEF Bijection, Injection, Surjection, IsInjective
<1>2. ExistsBijection(S, T)
  BY <1>1 DEF ExistsBijection
<1> QED
  BY <1>2, FS_Bijection

LEMMA IntervalSize ==
  ASSUME NEW n \in Nat
  PROVE  IsFiniteSet(1..n) /\ Cardinality(1..n) = n
BY FS_Interval

(* What is left of a finite set without some of it.                        *)
LEMMA Remaining ==
  ASSUME NEW S, IsFiniteSet(S), NEW D, D \subseteq S
  PROVE  /\ IsFiniteSet(S \ D) /\ IsFiniteSet(D)
         /\ Cardinality(D) \in Nat /\ Cardinality(S \ D) \in Nat
         /\ Cardinality(S \ D) = Cardinality(S) - Cardinality(D)
<1>1. IsFiniteSet(D) /\ S \cap D = D
  BY FS_Subset
<1>2. IsFiniteSet(S \ D) /\ Cardinality(S \ D) = Cardinality(S) - Cardinality(S \cap D)
  BY FS_Difference
<1>3. Cardinality(D) \in Nat /\ Cardinality(S \ D) \in Nat
  BY <1>1, <1>2, FS_CardinalityType
<1> QED
  BY <1>1, <1>2, <1>3

-----------------------------------------------------------------------------
(* The sum of f over a finite set: how the fold over a set that takes an   *)
(* arbitrary member first comes to it, and that the order is no matter.    *)
SumRound(g, f, S) ==
  [s \in SUBSET S |->
     IF s = {} THEN 0
     ELSE f[CHOOSE x \in s : TRUE] + g[s \ {CHOOSE x \in s : TRUE}]]

SumOver(f, S) == (CHOOSE g : g = SumRound(g, f, S))[S]

(* One round of it.                                                        *)
LEMMA SumRoundAt ==
  ASSUME NEW S, NEW f, NEW g, NEW s \in SUBSET S
  PROVE  /\ s = {} => SumRound(g, f, S)[s] = 0
         /\ s # {} => \E x \in s : \A h : SumRound(h, f, S)[s] = f[x] + h[s \ {x}]
<1>1. CASE s = {}
  BY <1>1 DEF SumRound
<1>2. CASE s # {}
  <2> DEFINE x == CHOOSE y \in s : TRUE
  <2>1. x \in s
    BY <1>2
  <2>2. \A h : SumRound(h, f, S)[s] = f[x] + h[s \ {x}]
    BY <1>2 DEF SumRound
  <2> HIDE DEF x
  <2> QED
    BY <1>2, <2>1, <2>2
<1> QED
  BY <1>1, <1>2

LEMMA Smaller ==
  ASSUME NEW S, IsFiniteSet(S), NEW s \in SUBSET S, NEW x \in s
  PROVE  /\ s \ {x} \in SUBSET S
         /\ Cardinality(s) \in Nat /\ Cardinality(s \ {x}) \in Nat
         /\ Cardinality(s \ {x}) = Cardinality(s) - 1
<1>1. IsFiniteSet(s) /\ IsFiniteSet(s \ {x})
  BY FS_Subset, FS_RemoveElement
<1>2. Cardinality(s \ {x}) = Cardinality(s) - 1
  BY <1>1, FS_RemoveElement
<1> QED
  BY <1>1, <1>2, FS_CardinalityType

(* There is such a fold: after each round it is right for larger sets.     *)
LEMMA SumExists ==
  ASSUME NEW S, IsFiniteSet(S), NEW f, \A x \in S : f[x] \in Int
  PROVE  \E g : g = SumRound(g, f, S)
<1> DEFINE n == Cardinality(S) + 1
           Right(h, s) == h[s] = SumRound(h, f, S)[s]
           W == [k \in 0..n |-> {h \in [SUBSET S -> Int] :
                                   \A s \in SUBSET S : Cardinality(s) < k => Right(h, s)}]
           step == [k \in 0 .. n - 1 |-> [h \in W[k] |-> SumRound(h, f, S)]]
           zero == [s \in SUBSET S |-> 0]
<1>1. n \in Nat /\ 0 \in 0..n /\ n \in 0..n
      /\ \A s \in SUBSET S : Cardinality(s) \in Nat /\ Cardinality(s) < n
  BY FS_CardinalityType, FS_Subset
<1>2. zero \in W[0]
  <2>1. zero \in [SUBSET S -> Int]
    OBVIOUS
  <2>2. \A s \in SUBSET S : ~ (Cardinality(s) < 0)
    BY <1>1
  <2> HIDE DEF zero, Right, n
  <2> QED
    BY <1>1, <2>1, <2>2
<1>3. ASSUME NEW k \in 0 .. n - 1, NEW h \in W[k]
      PROVE  step[k][h] = SumRound(h, f, S) /\ SumRound(h, f, S) \in W[k + 1]
  <2> DEFINE r == SumRound(h, f, S)
  <2>1. k \in 0..n /\ k + 1 \in 0..n
    BY <1>1
  <2>2. h \in [SUBSET S -> Int] /\ \A s \in SUBSET S : Cardinality(s) < k => Right(h, s)
    BY <2>1
  <2>3. r = [s \in SUBSET S |-> r[s]]
    BY DEF SumRound
  <2>4. ASSUME NEW s \in SUBSET S
        PROVE  r[s] \in Int /\ (Cardinality(s) < k + 1 => Right(r, s))
    <3>1. CASE s = {}
      BY <3>1, SumRoundAt
    <3>2. CASE s # {}
      <4>1. PICK x \in s : \A e : SumRound(e, f, S)[s] = f[x] + e[s \ {x}]
        BY <3>2, SumRoundAt
      <4>2. s \ {x} \in SUBSET S /\ Cardinality(s) \in Nat
            /\ Cardinality(s \ {x}) = Cardinality(s) - 1
        BY Smaller
      <4>3. h[s \ {x}] \in Int /\ f[x] \in Int
        BY <2>2, <4>2
      <4>4. r[s] = f[x] + h[s \ {x}] /\ SumRound(r, f, S)[s] = f[x] + r[s \ {x}]
        BY <4>1
      <4>5. Cardinality(s) < k + 1 => h[s \ {x}] = r[s \ {x}]
        BY <2>1, <2>2, <4>2
      <4> HIDE DEF r
      <4> QED
        BY <4>3, <4>4, <4>5
    <3> QED
      BY <3>1, <3>2
  <2>5. r \in [SUBSET S -> Int]
    <3> HIDE DEF r, Right
    <3> QED
      BY <2>3, <2>4
  <2>6. \A s \in SUBSET S : Cardinality(s) < k + 1 => Right(r, s)
    <3> HIDE DEF r, Right
    <3> QED
      BY <2>4
  <2> HIDE DEF r, Right
  <2>7. r \in W[k + 1]
    BY <2>1, <2>5, <2>6
  <2> QED
    BY <2>7 DEF r
<1>4. \A k \in 0 .. n - 1 : \A h \in W[k] : step[k][h] \in W[k + 1]
  <2> HIDE DEF W, step, n
  <2> QED
    BY <1>3
<1>5. PICK run : IsRun(run, n, W, zero, step)
  <2> HIDE DEF W, step, n, zero
  <2> QED
    BY <1>1, <1>2, <1>4, RunExists
<1>6. run[n] \in W[n]
  <2> HIDE DEF W, step, zero, n
  <2> QED
    BY <1>1, <1>5 DEF IsRun
<1> DEFINE g == run[n]
<1>7. g \in [SUBSET S -> Int] /\ \A s \in SUBSET S : g[s] = SumRound(g, f, S)[s]
  <2> HIDE DEF n
  <2>1. g \in [SUBSET S -> Int] /\ \A s \in SUBSET S : Cardinality(s) < n => Right(g, s)
    BY <1>1, <1>6
  <2> HIDE DEF g
  <2> QED
    BY <1>1, <2>1
<1> HIDE DEF g
<1>8. SumRound(g, f, S) = [s \in SUBSET S |-> SumRound(g, f, S)[s]]
  BY DEF SumRound
<1>9. g = SumRound(g, f, S)
  <2> DEFINE r == SumRound(g, f, S)
  <2> HIDE DEF r
  <2> QED
    BY <1>7, <1>8 DEF r
<1> QED
  BY <1>9

(* Whichever member is taken first, the sum is the same.                   *)
LEMMA SumExchanges ==
  ASSUME NEW S, IsFiniteSet(S), NEW f, \A x \in S : f[x] \in Int,
         NEW g, g = SumRound(g, f, S)
  PROVE  /\ g[{}] = 0
         /\ \A s \in SUBSET S : g[s] \in Int /\ \A y \in s : g[s] = f[y] + g[s \ {y}]
<1> DEFINE Fine(s) == g[s] \in Int /\ \A y \in s : g[s] = f[y] + g[s \ {y}]
           n == Cardinality(S)
           T == {m \in 0..n : \A s \in SUBSET S : Cardinality(s) <= m => Fine(s)}
<1>1. n \in Nat /\ n \in 0..n
      /\ \A s \in SUBSET S : IsFiniteSet(s) /\ Cardinality(s) \in Nat /\ Cardinality(s) <= n
  BY FS_CardinalityType, FS_Subset
<1>2. {} \in SUBSET S /\ g[{}] = 0
  BY SumRoundAt
<1>3. Fine({})
  BY <1>2
<1>4. ASSUME NEW s \in SUBSET S, s # {},
             \A r \in SUBSET S : Cardinality(r) <= Cardinality(s) - 1 => Fine(r)
      PROVE  Fine(s)
  <2>1. PICK x \in s : g[s] = f[x] + g[s \ {x}]
    <3>1. PICK x \in s : \A h : SumRound(h, f, S)[s] = f[x] + h[s \ {x}]
      BY <1>4, SumRoundAt
    <3> QED
      BY <3>1
  <2>2. \A y \in s : s \ {y} \in SUBSET S /\ Cardinality(s \ {y}) = Cardinality(s) - 1
                     /\ Cardinality(s \ {y}) \in Nat
    BY Smaller
  <2>3. \A y \in s : Fine(s \ {y})
    <3> HIDE DEF Fine
    <3> QED
      BY <1>4, <2>2
  <2>4. g[s \ {x}] \in Int /\ f[x] \in Int
    BY <2>3
  <2>5. ASSUME NEW y \in s PROVE g[s] = f[y] + g[s \ {y}]
    <3>1. CASE y = x
      BY <2>1, <3>1
    <3>2. CASE y # x
      <4>1. y \in s \ {x} /\ x \in s \ {y} /\ (s \ {x}) \ {y} = (s \ {y}) \ {x}
        BY <3>2
      <4>2. g[s \ {x}] = f[y] + g[(s \ {x}) \ {y}]
        BY <2>3, <4>1
      <4>3. g[s \ {y}] = f[x] + g[(s \ {y}) \ {x}]
        BY <2>3, <4>1
      <4>4. g[(s \ {x}) \ {y}] \in Int /\ f[y] \in Int
        <5> DEFINE rest == s \ {x}
        <5>1. rest \in SUBSET S /\ Cardinality(rest) = Cardinality(s) - 1 /\ y \in rest
              /\ Cardinality(s) \in Nat
          BY <1>1, <2>2, <4>1
        <5> HIDE DEF rest
        <5>2. rest \ {y} \in SUBSET S /\ Cardinality(rest \ {y}) = Cardinality(rest) - 1
          BY <5>1, Smaller
        <5>3. Fine(rest \ {y})
          <6> HIDE DEF Fine
          <6> QED
            BY <1>4, <5>1, <5>2
        <5> QED
          BY <4>1, <5>3 DEF rest
      <4> DEFINE both == g[(s \ {x}) \ {y}]
      <4>5. g[s \ {x}] = f[y] + both /\ g[s \ {y}] = f[x] + both
        BY <4>1, <4>2, <4>3
      <4> HIDE DEF both
      <4> QED
        BY <2>1, <2>4, <4>4, <4>5 DEF both
    <3> QED
      BY <3>1, <3>2
  <2>6. g[s] \in Int
    BY <2>1, <2>4
  <2> QED
    BY <2>5, <2>6
<1> HIDE DEF Fine, n
<1>5. 0 \in T
  <2>1. \A s \in SUBSET S : Cardinality(s) <= 0 => s = {}
    BY <1>1, FS_EmptySet
  <2> QED
    BY <1>1, <1>3, <2>1
<1>6. ASSUME NEW m \in 0 .. n - 1, m \in T PROVE m + 1 \in T
  <2>1. m + 1 \in 0..n /\ m \in Nat
    BY <1>1
  <2>2. ASSUME NEW s \in SUBSET S, Cardinality(s) <= m + 1 PROVE Fine(s)
    <3>1. CASE s = {}
      BY <1>3, <3>1
    <3>2. CASE s # {}
      <4>1. \A r \in SUBSET S : Cardinality(r) <= Cardinality(s) - 1 => Fine(r)
        BY <1>1, <1>6, <2>1, <2>2
      <4> QED
        BY <1>4, <3>2, <4>1
    <3> QED
      BY <3>1, <3>2
  <2> QED
    BY <2>1, <2>2
<1>7. n \in T
  <2> HIDE DEF T
  <2> QED
    BY <1>1, <1>5, <1>6, UpTo
<1>8. \A s \in SUBSET S : Fine(s)
  BY <1>1, <1>7
<1> QED
  BY <1>2, <1>8 DEF Fine

(* The fold over a larger set has the same value at a set.                 *)
LEMMA SumsAgree ==
  ASSUME NEW S, IsFiniteSet(S), NEW R, S \subseteq R, NEW f,
         NEW g, g = SumRound(g, f, S), NEW h, h = SumRound(h, f, R)
  PROVE  g[S] = h[S]
<1> DEFINE n == Cardinality(S)
           T == {m \in 0..n : \A s \in SUBSET S : Cardinality(s) <= m => g[s] = h[s]}
<1>1. n \in Nat /\ n \in 0..n /\ S \in SUBSET S /\ Cardinality(S) <= n
      /\ \A s \in SUBSET S : IsFiniteSet(s) /\ Cardinality(s) \in Nat /\ Cardinality(s) <= n
  BY FS_CardinalityType, FS_Subset
<1>2. g[{}] = h[{}]
  BY SumRoundAt
<1>3. ASSUME NEW s \in SUBSET S, s # {},
             \A r \in SUBSET S : Cardinality(r) <= Cardinality(s) - 1 => g[r] = h[r]
      PROVE  g[s] = h[s]
  <2> DEFINE x == CHOOSE y \in s : TRUE
  <2>1. x \in s
    BY <1>3
  <2>2. s \in SUBSET R
    OBVIOUS
  <2>3. SumRound(g, f, S)[s] = f[x] + g[s \ {x}]
    BY <1>3 DEF SumRound
  <2>4. SumRound(h, f, R)[s] = f[x] + h[s \ {x}]
    BY <1>3, <2>2 DEF SumRound
  <2> HIDE DEF x
  <2>5. g[s \ {x}] = h[s \ {x}]
    <3>1. s \ {x} \in SUBSET S /\ Cardinality(s \ {x}) = Cardinality(s) - 1
          /\ Cardinality(s \ {x}) \in Nat
      BY <2>1, Smaller
    <3> QED
      BY <1>3, <3>1
  <2> QED
    BY <2>3, <2>4, <2>5
<1> HIDE DEF n
<1>5. 0 \in T
  <2>1. \A s \in SUBSET S : Cardinality(s) <= 0 => s = {}
    BY <1>1, FS_EmptySet
  <2> QED
    BY <1>1, <1>2, <2>1
<1>6. ASSUME NEW m \in 0 .. n - 1, m \in T PROVE m + 1 \in T
  <2>1. m + 1 \in 0..n /\ m \in Nat
    BY <1>1
  <2>2. ASSUME NEW s \in SUBSET S, Cardinality(s) <= m + 1 PROVE g[s] = h[s]
    <3>1. CASE s = {}
      BY <1>2, <3>1
    <3>2. CASE s # {}
      <4>1. \A r \in SUBSET S : Cardinality(r) <= Cardinality(s) - 1 => g[r] = h[r]
        BY <1>1, <1>6, <2>1, <2>2
      <4> QED
        BY <1>3, <3>2, <4>1
    <3> QED
      BY <3>1, <3>2
  <2> QED
    BY <2>1, <2>2
<1>7. n \in T
  <2> HIDE DEF T
  <2> QED
    BY <1>1, <1>5, <1>6, UpTo
<1> QED
  BY <1>1, <1>7

(* A further member adds its value.                                        *)
LEMMA SumGrows ==
  ASSUME NEW S, IsFiniteSet(S), NEW y, y \notin S, NEW f,
         \A x \in S \cup {y} : f[x] \in Int
  PROVE  SumOver(f, {}) = 0
         /\ SumOver(f, S) \in Int
         /\ SumOver(f, S \cup {y}) = SumOver(f, S) + f[y]
<1> DEFINE R == S \cup {y}
           Sum(U) == CHOOSE g : g = SumRound(g, f, U)
<1>1. IsFiniteSet(R) /\ IsFiniteSet({}) /\ S \subseteq R /\ R \ {y} = S /\ y \in R
  BY FS_AddElement, FS_EmptySet
<1>2. \A U \in {{}, S, R} : SumOver(f, U) = Sum(U)[U]
  BY Zenon DEF SumOver
<1>3. ASSUME NEW U \in {{}, S, R} PROVE Sum(U) = SumRound(Sum(U), f, U)
  <2>1. IsFiniteSet(U) /\ \A x \in U : f[x] \in Int
    BY <1>1
  <2>2. \E g : g = SumRound(g, f, U)
    BY <2>1, SumExists
  <2> QED
    BY <2>2
<1> HIDE DEF Sum
<1>4. Sum({})[{}] = 0
  BY <1>1, <1>3, SumExchanges
<1>5. Sum(S)[S] \in Int
  BY <1>3, SumExchanges
<1>6. Sum(R)[R] = f[y] + Sum(R)[S]
  <2>1. R \in SUBSET R
    OBVIOUS
  <2>2. \A x \in R : f[x] \in Int
    OBVIOUS
  <2>3. Sum(R) = SumRound(Sum(R), f, R)
    BY <1>3
  <2> DEFINE g == Sum(R)
  <2> HIDE DEF R, g
  <2>4. g = SumRound(g, f, R)
    BY <2>3 DEF g
  <2>5. g[R] = f[y] + g[R \ {y}]
    BY <1>1, <2>1, <2>2, <2>4, SumExchanges
  <2> QED
    BY <1>1, <2>1, <2>5 DEF g
<1>7. Sum(S)[S] = Sum(R)[S]
  <2>1. Sum(S) = SumRound(Sum(S), f, S) /\ Sum(R) = SumRound(Sum(R), f, R)
    BY <1>3
  <2> HIDE DEF R
  <2> QED
    BY <1>1, <2>1, SumsAgree
<1>8. f[y] \in Int
  BY <1>1
<1> QED
  BY <1>2, <1>4, <1>5, <1>6, <1>7, <1>8
=============================================================================
