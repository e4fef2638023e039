----------------------------- MODULE Recursion -----------------------------
(***************************************************************************)
(* Recursion over sets of naturals and over finite sets, for the proofs of *)
(* the other modules.  An induction theorem that takes a predicate as an   *)
(* operator is beyond the provers; here the predicate is a set, Good, of   *)
(* what has the property, so that a theorem is used by naming that set.    *)
(* With it a fold and a recursive function can be proved about: both are a *)
(* CHOOSE of a function that satisfies an equation, and RunsExist and      *)
(* FoldOverSets say that there is such a function and what it satisfies.   *)
(* Last come sorted sets, which are a CHOOSE of an ordered list.           *)
(***************************************************************************)
EXTENDS Integers, Sequences, FiniteSetsExt, FiniteSetTheorems, TLAPS

\* A set of naturals that is not empty has a least member.
LEMMA LeastNatural ==
  ASSUME NEW T, T \subseteq Nat, T # {}
  PROVE  \E n \in T : \A m \in T : n <= m
  <1> DEFINE Less == OpToRel(<, Nat)
  <1>1. IsWellFoundedOn(Less, Nat)
    BY NatLessThanWellFounded
  <1>2. \A m, n \in Nat : m < n => <<m, n>> \in Less
    BY DEF OpToRel
  <1> HIDE DEF Less
  <1>3. PICK n \in T : \A m \in T : ~ (<<m, n>> \in Less)
    BY <1>1, WFMin
  <1>4. ASSUME NEW m \in T PROVE n <= m
    <2>1. m \in Nat /\ n \in Nat
      OBVIOUS
    <2>2. ~(m < n)
      BY <1>2, <1>3, <2>1
    <2> QED
      BY <2>1, <2>2
  <1> QED
    BY <1>4

\* Induction over the naturals, of membership in a set.
LEMMA NatInductionIn ==
  ASSUME NEW Good, 0 \in Good, \A n \in Nat : n \in Good => n + 1 \in Good
  PROVE  Nat \subseteq Good
  <1> DEFINE Bad == Nat \ Good
  <1> SUFFICES ASSUME Bad # {} PROVE FALSE
    OBVIOUS
  <1>1. PICK n \in Bad : \A m \in Bad : n <= m
    BY LeastNatural
  <1>2. n # 0 /\ n - 1 \in Nat /\ n - 1 \notin Bad
    BY <1>1
  <1>3. n - 1 \in Good
    BY <1>2
  <1>4. (n - 1) + 1 \in Good
    BY <1>2, <1>3
  <1> QED
    BY <1>4

\* Induction over the subsets of a finite set, of membership in a set.
LEMMA SubsetInductionIn ==
  ASSUME NEW S, IsFiniteSet(S), NEW Good, {} \in Good,
         \A s \in SUBSET S : s # {} /\ (\A x \in s : s \ {x} \in Good) => s \in Good
  PROVE  SUBSET S \subseteq Good
  <1> DEFINE Sized == {n \in Nat : \A s \in SUBSET S : Cardinality(s) = n => s \in Good}
  <1>1. \A s \in SUBSET S : IsFiniteSet(s) /\ Cardinality(s) \in Nat
    BY FS_Subset, FS_CardinalityType
  <1>2. 0 \in Sized
    <2>1. \A s \in SUBSET S : Cardinality(s) = 0 => s = {}
      BY <1>1, FS_EmptySet
    <2> QED
      BY <2>1
  <1>3. ASSUME NEW n \in Nat, n \in Sized PROVE n + 1 \in Sized
    <2>1. ASSUME NEW s \in SUBSET S, Cardinality(s) = n + 1 PROVE s \in Good
      <3>1. IsFiniteSet(s) /\ s # {}
        BY <1>1, <2>1, FS_EmptySet
      <3>2. ASSUME NEW x \in s PROVE s \ {x} \in Good
        <4>1. Cardinality(s \ {x}) = Cardinality(s) - 1 /\ s \ {x} \in SUBSET S
          BY <3>1, FS_RemoveElement
        <4>2. Cardinality(s \ {x}) = n
          BY <2>1, <4>1
        <4> QED
          BY <1>3, <4>1, <4>2
      <3> QED
        BY <3>1, <3>2
    <2> QED
      BY <2>1
  <1> HIDE DEF Sized
  <1>4. Nat \subseteq Sized
    BY <1>2, <1>3, NatInductionIn
  <1> QED
    BY <1>1, <1>4 DEF Sized

\* pick chooses an element of every set that has one.
Picks(pick, S) == \A s \in SUBSET S : s # {} => pick[s] \in s

\* iter takes the elements away as pick chooses them.
Folds(iter, S, base, pick, Step) ==
  \A s \in SUBSET S : iter[s] = IF s = {} THEN base ELSE Step[<<pick[s], iter[s \ {pick[s]}]>>]

\* There is a function that folds any step over the subsets of a finite set.
LEMMA FoldOverSets ==
  ASSUME NEW S, IsFiniteSet(S), NEW V, NEW base \in V, NEW pick, Picks(pick, S),
         NEW Step \in [S \X V -> V]
  PROVE  \E iter \in [SUBSET S -> V] : Folds(iter, S, base, pick, Step)
  <1> USE DEF Picks
  <1> DEFINE Value(iter, s) == IF s = {} THEN base ELSE Step[<<pick[s], iter[s \ {pick[s]}]>>]
             Upto(n) == \E iter \in [SUBSET S -> V] :
                          \A s \in SUBSET S : Cardinality(s) <= n => iter[s] = Value(iter, s)
  <1>1. \A s \in SUBSET S : IsFiniteSet(s) /\ Cardinality(s) \in Nat
    BY FS_Subset, FS_CardinalityType
  <1>2. \A iter \in [SUBSET S -> V] : \A s \in SUBSET S : Value(iter, s) \in V
    <2> SUFFICES ASSUME NEW iter \in [SUBSET S -> V], NEW s \in SUBSET S PROVE Value(iter, s) \in V
      OBVIOUS
    <2>1. CASE s = {}
      BY <2>1
    <2>2. CASE s # {}
      <3>1. pick[s] \in S /\ iter[s \ {pick[s]}] \in V
        BY <2>2
      <3> QED
        BY <2>2, <3>1
    <2> QED
      BY <2>1, <2>2
  <1>3. ASSUME NEW n \in Nat, n = 0 \/ Upto(n - 1) PROVE Upto(n)
    <2>1. PICK old \in [SUBSET S -> V] :
            \A s \in SUBSET S : Cardinality(s) <= n - 1 => old[s] = Value(old, s)
      <3>1. CASE n = 0
        <4>1. \A s \in SUBSET S : ~(Cardinality(s) <= n - 1)
          BY <1>1, <3>1
        <4> WITNESS [s \in SUBSET S |-> base] \in [SUBSET S -> V]
        <4> QED
          BY <4>1
      <3>2. CASE n # 0
        BY <1>3, <3>2
      <3> QED
        BY <3>1, <3>2
    <2> DEFINE new == [s \in SUBSET S |-> Value(old, s)]
    <2>2. new \in [SUBSET S -> V]
      BY <1>2
    <2>3. ASSUME NEW s \in SUBSET S, Cardinality(s) <= n PROVE new[s] = Value(new, s)
      <3>1. CASE s = {}
        BY <3>1
      <3>2. CASE s # {}
        <4> DEFINE less == s \ {pick[s]}
        <4>1. pick[s] \in s /\ less \in SUBSET S /\ IsFiniteSet(s)
          BY <1>1, <3>2
        <4>2. Cardinality(less) = Cardinality(s) - 1
          BY <4>1, FS_RemoveElement
        <4>3. Cardinality(s) \in Nat
          BY <1>1
        <4>6. Cardinality(less) <= n - 1
          BY <2>3, <4>2, <4>3
        <4>4. old[less] = Value(old, less)
          BY <2>1, <4>1, <4>6
        <4>5. new[less] = Value(old, less) /\ new[s] = Value(old, s)
          BY <4>1
        <4> QED
          BY <3>2, <4>4, <4>5
      <3> QED
        BY <3>1, <3>2
    <2> QED
      BY <2>2, <2>3
  <1>4. \A n \in Nat : Upto(n)
    <2> HIDE DEF Upto
    <2>1. 0 \in {n \in Nat : Upto(n)}
      BY <1>3
    <2>2. \A n \in Nat : n \in {m \in Nat : Upto(m)} => n + 1 \in {m \in Nat : Upto(m)}
      BY <1>3
    <2>3. Nat \subseteq {n \in Nat : Upto(n)}
      BY <2>1, <2>2, NatInductionIn
    <2> QED
      BY <2>3
  <1>5. Upto(Cardinality(S))
    <2> HIDE DEF Upto
    <2> QED
      BY <1>1, <1>4
  <1>6. \A s \in SUBSET S : Cardinality(s) <= Cardinality(S)
    BY FS_Subset
  <1> QED
    BY <1>5, <1>6 DEF Folds

\* The greatest element of a finite set of naturals.
LEMMA GreatestNatural ==
  ASSUME NEW T, IsFiniteSet(T), T \subseteq Nat, T # {}
  PROVE  \E n \in T : \A m \in T : m <= n
  <1> DEFINE Good == {s \in SUBSET T : s # {} => \E n \in s : \A m \in s : m <= n}
  <1>1. {} \in Good
    OBVIOUS
  <1>2. ASSUME NEW s \in SUBSET T, s # {}, \A x \in s : s \ {x} \in Good PROVE s \in Good
    <2>1. PICK x \in s : TRUE
      BY <1>2
    <2>2. CASE s \ {x} = {}
      <3>1. \A m \in s : m <= x
        BY <2>2
      <3> QED
        BY <3>1
    <2>3. CASE s \ {x} # {}
      <3>1. PICK n \in s \ {x} : \A m \in s \ {x} : m <= n
        BY <1>2, <2>3
      <3>2. x \in Nat /\ n \in Nat /\ \A m \in s : m \in Nat
        OBVIOUS
      <3>3. CASE x <= n
        BY <3>1, <3>2, <3>3
      <3>4. CASE n <= x
        <4>1. \A m \in s : m <= x
          BY <3>1, <3>2, <3>4
        <4> QED
          BY <4>1
      <3> QED
        BY <3>2, <3>3, <3>4
    <2> QED
      BY <2>2, <2>3
  <1>3. T \in Good
    <2> HIDE DEF Good
    <2>1. SUBSET T \subseteq Good
      BY <1>1, <1>2, SubsetInductionIn
    <2> QED
      BY <2>1
  <1> QED
    BY <1>3

\* Running totals of the first n values that Step takes in.
Runs(run, n, base, Step) ==
  run[0] = base /\ \A k \in 1 .. n : run[k] = Step[<<k, run[k - 1]>>]

\* There are running totals of any step.
LEMMA RunsExist ==
  ASSUME NEW n \in Nat, NEW V, NEW base \in V, NEW Step \in [(1 .. n) \X V -> V]
  PROVE  \E run \in [0 .. n -> V] : Runs(run, n, base, Step)
  <1> DEFINE Good == {m \in Nat : m <= n => \E run \in [0 .. m -> V] : Runs(run, m, base, Step)}
  <1>1. 0 \in Good
    <2> DEFINE run == [k \in 0 .. 0 |-> base]
    <2>1. run \in [0 .. 0 -> V] /\ Runs(run, 0, base, Step)
      BY DEF Runs
    <2> QED
      BY <2>1
  <1>2. ASSUME NEW m \in Nat, m \in Good PROVE m + 1 \in Good
    <2> SUFFICES ASSUME m + 1 <= n
                 PROVE  \E run \in [0 .. m + 1 -> V] : Runs(run, m + 1, base, Step)
      OBVIOUS
    <2>1. PICK old \in [0 .. m -> V] : Runs(old, m, base, Step)
      BY <1>2
    <2> DEFINE run == [k \in 0 .. m + 1 |-> IF k = m + 1 THEN Step[<<k, old[m]>>] ELSE old[k]]
    <2>2. Step[<<m + 1, old[m]>>] \in V
      OBVIOUS
    <2>3. run \in [0 .. m + 1 -> V]
      BY <2>2
    <2>4. run[0] = base /\ \A k \in 1 .. m + 1 : run[k] = Step[<<k, run[k - 1]>>]
      <3>1. run[0] = base
        BY <2>1 DEF Runs
      <3>2. ASSUME NEW k \in 1 .. m + 1 PROVE run[k] = Step[<<k, run[k - 1]>>]
        <4>1. CASE k = m + 1
          BY <4>1
        <4>2. CASE k # m + 1
          <5>1. k \in 1 .. m /\ k - 1 \in 0 .. m + 1 /\ k - 1 # m + 1 /\ k \in 0 .. m + 1
            BY <4>2
          <5> QED
            BY <2>1, <4>2, <5>1 DEF Runs
        <4> QED
          BY <4>1, <4>2
      <3> QED
        BY <3>1, <3>2
    <2> QED
      BY <2>3, <2>4 DEF Runs
  <1>3. n \in Good
    <2> HIDE DEF Good
    <2>1. Nat \subseteq Good
      BY <1>1, <1>2, NatInductionIn
    <2> QED
      BY <2>1
  <1> QED
    BY <1>3

\* leap goes on at next[p], until it ends at one of stop.
Leaps(leap, a, b, stop, next, base, Step) ==
  \A p \in a .. b : leap[p] = IF p \in stop THEN base[p] ELSE Step[<<p, leap[next[p]]>>]

\* There is a function that leaps forward through an interval.
LEMMA LeapsExist ==
  ASSUME NEW a \in Nat, NEW b \in Nat, NEW V, NEW stop, NEW next, NEW base \in [a .. b -> V],
         NEW Step \in [(a .. b) \X V -> V],
         \A p \in (a .. b) \ stop : next[p] \in p + 1 .. b
  PROVE  \E leap \in [a .. b -> V] : Leaps(leap, a, b, stop, next, base, Step)
  <1> DEFINE Value(leap, p) == IF p \in stop THEN base[p] ELSE Step[<<p, leap[next[p]]>>]
             From(n) == \E leap \in [a .. b -> V] :
                          \A p \in a .. b : b - p <= n => leap[p] = Value(leap, p)
  <1>1. \A p \in (a .. b) \ stop : next[p] \in a .. b /\ b - next[p] < b - p
    OBVIOUS
  <1>2. \A leap \in [a .. b -> V] : \A p \in a .. b : Value(leap, p) \in V
    <2> SUFFICES ASSUME NEW leap \in [a .. b -> V], NEW p \in a .. b PROVE Value(leap, p) \in V
      OBVIOUS
    <2>1. CASE p \in stop
      BY <2>1
    <2>2. CASE p \notin stop
      <3>1. leap[next[p]] \in V
        BY <1>1, <2>2
      <3> QED
        BY <2>2, <3>1
    <2> QED
      BY <2>1, <2>2
  <1>3. ASSUME NEW n \in Nat, n = 0 \/ From(n - 1) PROVE From(n)
    <2>1. PICK old \in [a .. b -> V] :
            \A p \in a .. b : b - p <= n - 1 => old[p] = Value(old, p)
      <3>1. CASE n = 0
        <4>1. \A p \in a .. b : ~(b - p <= n - 1)
          BY <3>1
        <4> WITNESS base \in [a .. b -> V]
        <4> QED
          BY <4>1
      <3>2. CASE n # 0
        BY <1>3, <3>2
      <3> QED
        BY <3>1, <3>2
    <2> DEFINE new == [p \in a .. b |-> Value(old, p)]
    <2>2. new \in [a .. b -> V]
      BY <1>2
    <2>3. ASSUME NEW p \in a .. b, b - p <= n PROVE new[p] = Value(new, p)
      <3>1. CASE p \in stop
        BY <3>1
      <3>2. CASE p \notin stop
        <4> DEFINE q == next[p]
        <4>1. q \in a .. b /\ b - q < b - p
          BY <1>1, <3>2
        <4>2. b - q <= n - 1
          BY <2>3, <4>1
        <4>3. old[q] = Value(old, q)
          BY <2>1, <4>1, <4>2
        <4>4. new[q] = Value(old, q) /\ new[p] = Value(old, p)
          BY <4>1
        <4> QED
          BY <3>2, <4>3, <4>4
      <3> QED
        BY <3>1, <3>2
    <2> QED
      BY <2>2, <2>3
  <1>4. \A n \in Nat : From(n)
    <2> HIDE DEF From
    <2>1. 0 \in {n \in Nat : From(n)}
      BY <1>3
    <2>2. \A n \in Nat : n \in {m \in Nat : From(m)} => n + 1 \in {m \in Nat : From(m)}
      BY <1>3
    <2>3. Nat \subseteq {n \in Nat : From(n)}
      BY <2>1, <2>2, NatInductionIn
    <2> QED
      BY <2>3
  <1>5. PICK leap \in [a .. b -> V] : \A p \in a .. b : b - p <= b => leap[p] = Value(leap, p)
    BY <1>4
  <1>6. \A p \in a .. b : b - p <= b
    OBVIOUS
  <1> QED
    BY <1>5, <1>6 DEF Leaps

-----------------------------------------------------------------------------
(* A fold over a sequence takes its places away from the greatest down. *)

LEMMA GreatestOfInterval ==
  ASSUME NEW n \in Nat
  PROVE  /\ Max(1 .. (n + 1)) = n + 1
         /\ (1 .. (n + 1)) \ {n + 1} = 1 .. n
  <1>1. n + 1 \in 1 .. (n + 1) /\ \A m \in 1 .. (n + 1) : m <= n + 1
    OBVIOUS
  <1>2. \A x \in 1 .. (n + 1) : (\A y \in 1 .. (n + 1) : x >= y) => x = n + 1
    BY <1>1
  <1> QED
    BY <1>1, <1>2 DEF Max

LEMMA GreatestIsIn ==
  ASSUME NEW n \in Nat
  PROVE  Picks([s \in SUBSET (1 .. n) |-> Max(s)], 1 .. n)
  <1> SUFFICES ASSUME NEW s \in SUBSET (1 .. n), s # {} PROVE Max(s) \in s
    BY DEF Picks
  <1>1. IsFiniteSet(s) /\ s \subseteq Nat
    <2>1. IsFiniteSet(1 .. n)
      BY FS_Interval
    <2>2. IsFiniteSet(s)
      BY <2>1, FS_Subset
    <2> QED
      BY <2>2
  <1>2. \E x \in s : \A y \in s : y <= x
    BY <1>1, GreatestNatural
  <1>3. \E x \in s : \A y \in s : x >= y
    BY <1>1, <1>2
  <1> QED
    BY <1>3 DEF Max

\* iter takes the places of a sequence away from the last one on.
FoldsUp(iter, n, base, Step) ==
  \A s \in SUBSET (1 .. n) :
    iter[s] = IF s = {} THEN base ELSE Step[<<Max(s), iter[s \ {Max(s)}]>>]

\* There is a function that folds Step so.
LEMMA FoldExists ==
  ASSUME NEW n \in Nat, NEW V, NEW base \in V, NEW Step \in [(1 .. n) \X V -> V]
  PROVE  \E iter \in [SUBSET (1 .. n) -> V] : FoldsUp(iter, n, base, Step)
  <1> DEFINE pick == [s \in SUBSET (1 .. n) |-> Max(s)]
  <1>1. Picks(pick, 1 .. n)
    BY GreatestIsIn
  <1>2. \A s \in SUBSET (1 .. n) : pick[s] = Max(s)
    OBVIOUS
  <1>3. IsFiniteSet(1 .. n)
    BY FS_Interval
  <1> HIDE DEF pick
  <1>4. PICK iter \in [SUBSET (1 .. n) -> V] : Folds(iter, 1 .. n, base, pick, Step)
    BY <1>1, <1>3, FoldOverSets
  <1> QED
    BY <1>2, <1>4 DEF Folds, FoldsUp

\* total takes in Step one place after the other, as long as it has values.
Totals(total, n, V, base, Step) ==
  \A s \in SUBSET (1 .. n) :
    /\ s = {} => total[s] = base
    /\ s # {} /\ total[s \ {Max(s)}] \in V => total[s] = Step[<<Max(s), total[s \ {Max(s)}]>>]

\* The running totals end at what total makes of all places.
RunsTo(run, n, base, Step, total) == Runs(run, n, base, Step) /\ total[1 .. n] = run[n]

\* Such a fold is the last of the running totals.
LEMMA FoldIsRun ==
  ASSUME NEW n \in Nat, NEW V, NEW base \in V, NEW Step \in [(1 .. n) \X V -> V],
         NEW total, Totals(total, n, V, base, Step)
  PROVE  \E run \in [0 .. n -> V] : RunsTo(run, n, base, Step, total)
  <1>1. PICK run \in [0 .. n -> V] : Runs(run, n, base, Step)
    BY RunsExist
  <1> DEFINE Good == {k \in Nat : k <= n => total[1 .. k] = run[k]}
  <1>2. 0 \in Good
    <2>1. 1 .. 0 = {} /\ {} \in SUBSET (1 .. n)
      OBVIOUS
    <2> QED
      BY <1>1, <2>1 DEF Runs, Totals
  <1>3. ASSUME NEW k \in Nat, k \in Good PROVE k + 1 \in Good
    <2> SUFFICES ASSUME k + 1 <= n PROVE total[1 .. (k + 1)] = run[k + 1]
      OBVIOUS
    <2>1. Max(1 .. (k + 1)) = k + 1 /\ (1 .. (k + 1)) \ {k + 1} = 1 .. k
      BY GreatestOfInterval
    <2>2. 1 .. (k + 1) \in SUBSET (1 .. n) /\ 1 .. (k + 1) # {}
      <3>1. k + 1 \in 1 .. (k + 1) /\ \A x \in 1 .. (k + 1) : x \in 1 .. n
        OBVIOUS
      <3> QED
        BY <3>1
    <2>3. total[1 .. k] = run[k] /\ run[k] \in V
      BY <1>3
    <2>4. total[1 .. (k + 1)] = Step[<<k + 1, run[k]>>]
      BY <2>1, <2>2, <2>3 DEF Totals
    <2>5. k + 1 \in 1 .. n /\ (k + 1) - 1 = k
      OBVIOUS
    <2>6. run[k + 1] = Step[<<k + 1, run[k]>>]
      BY <1>1, <2>5 DEF Runs
    <2> QED
      BY <2>4, <2>6
  <1> HIDE DEF Good
  <1>4. n \in Good
    BY <1>2, <1>3, NatInductionIn
  <1> QED
    BY <1>1, <1>4 DEF Good, RunsTo

-----------------------------------------------------------------------------
(* Sorting *)

\* The places of s are in the order R.
Along(s, n, R) == \A i, j \in 1 .. n : i < j => <<s[i], s[j]>> \in R

\* R puts any two of S in one order.
Ordering(R, S) ==
  /\ \A x, y \in S : x # y => <<x, y>> \in R \/ <<y, x>> \in R
  /\ \A x \in S : <<x, x>> \notin R
  /\ \A x, y, z \in S : <<x, y>> \in R /\ <<y, z>> \in R => <<x, z>> \in R

\* One of the members comes after all others.
LEMMA LastInOrder ==
  ASSUME NEW S, IsFiniteSet(S), S # {}, NEW R, Ordering(R, S)
  PROVE  \E x \in S : \A y \in S \ {x} : <<y, x>> \in R
  <1> DEFINE Good == {T \in SUBSET S : T # {} => \E x \in T : \A y \in T \ {x} : <<y, x>> \in R}
  <1>1. {} \in Good
    OBVIOUS
  <1>2. ASSUME NEW T \in SUBSET S, T # {}, \A x \in T : T \ {x} \in Good PROVE T \in Good
    <2>1. PICK x \in T : TRUE
      BY <1>2
    <2>2. CASE T \ {x} = {}
      BY <2>1, <2>2
    <2>3. CASE T \ {x} # {}
      <3>1. PICK z \in T \ {x} : \A y \in (T \ {x}) \ {z} : <<y, z>> \in R
        BY <1>2, <2>1, <2>3
      <3>2. x \in S /\ z \in S /\ x # z /\ x \in T /\ z \in T /\ \A y \in T : y \in S
        BY <2>1, <3>1
      <3>3. CASE <<x, z>> \in R
        <4>1. \A y \in T \ {z} : <<y, z>> \in R
          BY <3>1, <3>3
        <4> QED
          BY <3>2, <4>1
      <3>4. CASE <<z, x>> \in R
        <4>1. \A y \in T \ {x} : <<y, x>> \in R
          BY <3>1, <3>2, <3>4 DEF Ordering
        <4> QED
          BY <3>2, <4>1
      <3> QED
        BY <3>2, <3>3, <3>4 DEF Ordering
    <2> QED
      BY <2>2, <2>3
  <1>3. S \in Good
    <2> HIDE DEF Good
    <2>1. SUBSET S \subseteq Good
      BY <1>1, <1>2, SubsetInductionIn
    <2> QED
      BY <2>1
  <1> QED
    BY <1>3

\* A finite set can be sorted.
LEMMA SortingExists ==
  ASSUME NEW S, IsFiniteSet(S), NEW R, Ordering(R, S)
  PROVE  \E s \in [1 .. Cardinality(S) -> S] : Along(s, Cardinality(S), R)
  <1> DEFINE Good == {T \in SUBSET S : \E s \in [1 .. Cardinality(T) -> T] : Along(s, Cardinality(T), R)}
  <1>1. {} \in Good
    <2>1. Cardinality({}) = 0
      BY FS_EmptySet
    <2>2. [k \in 1 .. 0 |-> k] \in [1 .. 0 -> {}] /\ Along([k \in 1 .. 0 |-> k], 0, R)
      BY DEF Along
    <2> QED
      BY <2>1, <2>2
  <1>2. ASSUME NEW T \in SUBSET S, T # {}, \A x \in T : T \ {x} \in Good PROVE T \in Good
    <2>1. IsFiniteSet(T) /\ Ordering(R, T)
      <3>1. IsFiniteSet(T)
        BY FS_Subset
      <3>2. Ordering(R, T)
        BY DEF Ordering
      <3> QED
        BY <3>1, <3>2
    <2>2. PICK x \in T : \A y \in T \ {x} : <<y, x>> \in R
      BY <1>2, <2>1, LastInOrder
    <2> DEFINE n == Cardinality(T \ {x})
    <2>3. n \in Nat /\ Cardinality(T) = n + 1
      <3>1. IsFiniteSet(T \ {x}) /\ n = Cardinality(T) - 1 /\ Cardinality(T) \in Nat
        BY <2>1, <2>2, FS_RemoveElement, FS_CardinalityType
      <3> QED
        BY <3>1, FS_CardinalityType
    <2>4. PICK s \in [1 .. n -> T \ {x}] : Along(s, n, R)
      BY <1>2
    <2> HIDE DEF n
    <2> DEFINE t == [k \in 1 .. n + 1 |-> IF k = n + 1 THEN x ELSE s[k]]
    <2>5. t \in [1 .. n + 1 -> T]
      <3>1. ASSUME NEW k \in 1 .. n + 1, k # n + 1 PROVE s[k] \in T
        <4>1. k \in 1 .. n
          BY <2>3, <3>1
        <4> QED
          BY <4>1
      <3> QED
        BY <3>1
    <2>6. Along(t, n + 1, R)
      <3> SUFFICES ASSUME NEW j \in 1 .. n + 1, NEW k \in 1 .. n + 1, j < k PROVE <<t[j], t[k]>> \in R
        BY DEF Along
      <3>1. j \in 1 .. n /\ t[j] = s[j] /\ s[j] \in T \ {x}
        <4>1. j \in 1 .. n /\ j # n + 1
          BY <2>3
        <4> QED
          BY <4>1
      <3>2. CASE k = n + 1
        <4>1. t[k] = x
          BY <3>2
        <4> QED
          BY <2>2, <3>1, <4>1
      <3>3. CASE k # n + 1
        <4>1. k \in 1 .. n /\ t[k] = s[k]
          BY <2>3, <3>3
        <4> QED
          BY <2>4, <3>1, <4>1 DEF Along
      <3> QED
        BY <3>2, <3>3
    <2> QED
      BY <2>3, <2>5, <2>6
  <1>3. S \in Good
    <2> HIDE DEF Good
    <2>1. SUBSET S \subseteq Good
      BY <1>1, <1>2, SubsetInductionIn
    <2> QED
      BY <2>1
  <1> QED
    BY <1>3

\* A sorted set is all there, nothing twice.
LEMMA SortedIsWhole ==
  ASSUME NEW S, IsFiniteSet(S), NEW R, Ordering(R, S),
         NEW s \in [1 .. Cardinality(S) -> S], Along(s, Cardinality(S), R)
  PROVE  /\ Cardinality(S) \in Nat /\ s \in Seq(S) /\ Len(s) = Cardinality(S)
         /\ \A x \in S : \E i \in 1 .. Len(s) : s[i] = x
         /\ \A i, j \in 1 .. Len(s) : s[i] = s[j] => i = j
         /\ \A i, j \in 1 .. Len(s) : <<s[i], s[j]>> \in R => i < j
  <1> DEFINE n == Cardinality(S)
  <1>1. n \in Nat
    BY FS_CardinalityType
  <1>2. s \in Seq(S) /\ Len(s) = n
    BY <1>1
  <1>3. ASSUME NEW i \in 1 .. n, NEW j \in 1 .. n, i < j PROVE s[i] # s[j] /\ <<s[j], s[i]>> \notin R
    <2>1. s[i] \in S /\ s[j] \in S /\ <<s[i], s[j]>> \in R
      BY <1>3 DEF Along
    <2> QED
      BY <2>1 DEF Ordering
  <1>4. \A i, j \in 1 .. n : s[i] = s[j] => i = j
    <2> SUFFICES ASSUME NEW i \in 1 .. n, NEW j \in 1 .. n, s[i] = s[j], i # j PROVE FALSE
      OBVIOUS
    <2>1. i < j \/ j < i
      BY <1>1
    <2> QED
      BY <1>3, <2>1
  <1>5. s \in Surjection(1 .. n, S)
    <2>1. s \in Injection(1 .. n, S)
      BY <1>4 DEF Injection, IsInjective
    <2>2. Cardinality(1 .. n) = n
      BY <1>1, FS_Interval
    <2> QED
      BY <2>1, <2>2, FS_Injection
  <1>6. \A x \in S : \E i \in 1 .. n : s[i] = x
    BY <1>5 DEF Surjection
  <1>7. \A i, j \in 1 .. n : <<s[i], s[j]>> \in R => i < j
    <2> SUFFICES ASSUME NEW i \in 1 .. n, NEW j \in 1 .. n, <<s[i], s[j]>> \in R, ~(i < j) PROVE FALSE
      OBVIOUS
    <2>1. i = j \/ j < i
      BY <1>1
    <2>2. s[i] \in S /\ <<s[i], s[i]>> \notin R
      BY DEF Ordering
    <2> QED
      BY <1>3, <2>1, <2>2
  <1> QED
    BY <1>1, <1>2, <1>4, <1>6, <1>7

\* In a sorted set a member's place says how many come after it.
LEMMA SortedPlace ==
  ASSUME NEW S, IsFiniteSet(S), NEW R, Ordering(R, S),
         NEW s \in [1 .. Cardinality(S) -> S], Along(s, Cardinality(S), R),
         NEW i \in 1 .. Cardinality(S)
  PROVE  Cardinality({y \in S : <<s[i], y>> \in R}) = Cardinality(S) - i
  <1> DEFINE n == Cardinality(S)
             After == {y \in S : <<s[i], y>> \in R}
             f == [j \in i + 1 .. n |-> s[j]]
  <1>1. /\ n \in Nat /\ Len(s) = n
        /\ \A x \in S : \E j \in 1 .. n : s[j] = x
        /\ \A j, k \in 1 .. n : s[j] = s[k] => j = k
        /\ \A j, k \in 1 .. n : <<s[j], s[k]>> \in R => j < k
    BY SortedIsWhole
  <1> HIDE DEF n
  <1>2. i \in 1 .. n /\ s \in [1 .. n -> S] /\ Along(s, n, R)
    BY DEF n
  <1>3. \A j \in i + 1 .. n : j \in 1 .. n /\ i < j
    BY <1>1, <1>2
  <1>4. f \in [i + 1 .. n -> After]
    <2> SUFFICES ASSUME NEW j \in i + 1 .. n PROVE s[j] \in After
      OBVIOUS
    <2>1. <<s[i], s[j]>> \in R /\ s[j] \in S
      BY <1>2, <1>3 DEF Along
    <2> QED
      BY <2>1
  <1>5. \A y \in After : \E j \in i + 1 .. n : f[j] = y
    <2> SUFFICES ASSUME NEW y \in After PROVE \E j \in i + 1 .. n : f[j] = y
      OBVIOUS
    <2>1. PICK j \in 1 .. n : s[j] = y
      BY <1>1
    <2>2. i < j
      BY <1>1, <1>2, <2>1
    <2>3. j \in i + 1 .. n
      BY <1>2, <2>2
    <2> QED
      BY <2>1, <2>3
  <1>6. \A j, k \in i + 1 .. n : f[j] = f[k] => j = k
    BY <1>1, <1>3
  <1>7. f \in Bijection(i + 1 .. n, After)
    BY <1>4, <1>5, <1>6 DEF Bijection, Injection, Surjection, IsInjective
  <1>8. IsFiniteSet(i + 1 .. n) /\ Cardinality(i + 1 .. n) = n - i
    <2>1. i + 1 \in Int /\ n \in Int /\ i <= n
      BY <1>1, <1>2
    <2> QED
      BY <2>1, FS_Interval
  <1>9. Cardinality(After) = Cardinality(i + 1 .. n)
    <2> HIDE DEF f, After
    <2>1. ExistsBijection(i + 1 .. n, After)
      BY <1>7 DEF ExistsBijection
    <2> QED
      BY <1>8, <2>1, FS_Bijection
  <1> QED
    BY <1>8, <1>9 DEF n

\* There is one way to sort a set.
LEMMA SortedIsUnique ==
  ASSUME NEW S, IsFiniteSet(S), NEW R, Ordering(R, S),
         NEW s \in [1 .. Cardinality(S) -> S], Along(s, Cardinality(S), R),
         NEW t \in [1 .. Cardinality(S) -> S], Along(t, Cardinality(S), R)
  PROVE  s = t
  <1> DEFINE n == Cardinality(S)
  <1>1. n \in Nat /\ Len(t) = n /\ \A x \in S : \E j \in 1 .. n : t[j] = x
    BY SortedIsWhole
  <1>2. ASSUME NEW i \in 1 .. n PROVE s[i] = t[i]
    <2>1. PICK j \in 1 .. n : t[j] = s[i]
      BY <1>1
    <2>2. Cardinality({y \in S : <<s[i], y>> \in R}) = n - i
      BY SortedPlace
    <2>3. Cardinality({y \in S : <<t[j], y>> \in R}) = n - j
      BY SortedPlace
    <2>4. n - i = n - j
      BY <2>1, <2>2, <2>3
    <2>5. i = j
      <3> HIDE DEF n
      <3> QED
        BY <1>1, <2>4
    <2> QED
      BY <2>1, <2>5
  <1>3. s \in [1 .. n -> S] /\ t \in [1 .. n -> S]
    OBVIOUS
  <1> HIDE DEF n
  <1>4. s = [i \in 1 .. n |-> s[i]] /\ t = [i \in 1 .. n |-> t[i]]
    BY <1>3
  <1>5. [i \in 1 .. n |-> s[i]] = [i \in 1 .. n |-> t[i]]
    BY <1>2
  <1> QED
    BY <1>4, <1>5
=============================================================================
