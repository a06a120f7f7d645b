--------------------------- MODULE SequenceProofs ----------------------------
(***************************************************************************)
(* What the proofs need to know of the folds, sums and flattened sequences *)
(* the models are written with.                                            *)
(*                                                                         *)
(* It takes induction, and the induction theorems of the library have a    *)
(* predicate as a parameter.  Here the predicate is a set of natural       *)
(* numbers, which a well-founded order gives a least element that is not   *)
(* in it.                                                                  *)
(***************************************************************************)
EXTENDS Integers, SequencesExt, SequenceTheorems, FiniteSetTheorems, WellFoundedInduction, TLAPS

Below == {ss \in Nat \X Nat : ss[1] < ss[2]}

LEMMA BelowWellFounded == IsWellFoundedOn(Below, Nat)
<1>1. IsWellFoundedOn(OpToRel(<, Nat), Nat)
  BY NatLessThanWellFounded
<1>2. OpToRel(<, Nat) = Below
  BY DEF OpToRel, Below
<1> QED
  BY <1>1, <1>2

LEMMA Least ==
  ASSUME NEW U \in SUBSET Nat, U # {}
  PROVE  \E x \in U : \A y \in U : x <= y
<1>1. PICK x \in U : \A y \in U : ~(<<y, x>> \in Below)
  BY BelowWellFounded, WFMin
<1>2. ASSUME NEW y \in U PROVE x <= y
  <2>1. x \in Nat /\ y \in Nat /\ <<y, x>> \in Nat \X Nat
    OBVIOUS
  <2>2. <<y, x>>[1] = y /\ <<y, x>>[2] = x
    OBVIOUS
  <2>3. ~(y < x)
    BY <1>1, <2>1, <2>2 DEF Below
  <2> QED
    BY <2>1, <2>3
<1> QED
  BY <1>2

\* Induction over the natural numbers.
LEMMA Induction ==
  ASSUME NEW T, 0 \in T, \A n \in Nat : n \in T => n + 1 \in T
  PROVE  \A n \in Nat : n \in T
<1>1. SUFFICES ASSUME Nat \ T # {} PROVE FALSE
  OBVIOUS
<1>2. PICK x \in Nat \ T : \A y \in Nat \ T : x <= y
  BY <1>1, Least
<1>3. x - 1 \in Nat /\ ~(x <= x - 1) /\ x = (x - 1) + 1
  BY <1>2
<1> QED
  BY <1>2, <1>3

-----------------------------------------------------------------------------
(* The least and the greatest of finitely many numbers. *)

LEMMA MinIs ==
  ASSUME NEW S \in SUBSET Nat, S # {}
  PROVE  Min(S) \in S /\ \A y \in S : Min(S) <= y
<1>1. \E x \in S : \A y \in S : x <= y
  BY Least
<1> QED
  BY <1>1 DEF Min

LEMMA MaxIs ==
  ASSUME NEW n \in Nat, NEW S \in SUBSET (0 .. n), S # {}
  PROVE  Max(S) \in S /\ \A y \in S : Max(S) >= y
<1> DEFINE Bounds == {m \in Nat : \A y \in S : y <= m}
<1>1. n \in Bounds
  OBVIOUS
<1>2. PICK m \in Bounds : \A k \in Bounds : m <= k
  <2>1. Bounds \in SUBSET Nat /\ Bounds # {}
    BY <1>1
  <2> HIDE DEF Bounds
  <2> QED
    BY <2>1, Least
<1>3. m \in S
  <2>1. SUFFICES ASSUME m \notin S PROVE FALSE
    OBVIOUS
  <2>2. PICK z \in S : TRUE
    OBVIOUS
  <2>3. \A y \in S : y <= m - 1
    BY <1>2, <2>1
  <2>4. m - 1 \in Nat
    BY <1>2, <2>2, <2>3
  <2>5. m - 1 \in Bounds
    BY <2>3, <2>4
  <2> QED
    BY <1>2, <2>5
<1>4. \E x \in S : \A y \in S : x >= y
  BY <1>2, <1>3
<1> QED
  BY <1>4 DEF Max

-----------------------------------------------------------------------------
(* A fold over a finite set, which `pick' takes apart, has a value. *)

Folded(S, base, pick, step, h, s) ==
  h[s] = IF s = {} THEN base ELSE step[<<pick[s], h[s \ {pick[s]}]>>]

LEMMA FoldExists ==
  ASSUME NEW S, IsFiniteSet(S), NEW V, NEW base \in V,
         NEW pick \in [(SUBSET S) \ {{}} -> S],
         \A s \in (SUBSET S) \ {{}} : pick[s] \in s,
         NEW step \in [S \X V -> V]
  PROVE  \E h \in [SUBSET S -> V] : \A s \in SUBSET S : Folded(S, base, pick, step, h, s)
<1> DEFINE Small(n) == {s \in SUBSET S : Cardinality(s) <= n}
           T == {n \in Nat : \E h \in [Small(n) -> V] :
                               \A s \in Small(n) : Folded(S, base, pick, step, h, s)}
<1>1. \A s \in SUBSET S : IsFiniteSet(s) /\ Cardinality(s) \in Nat
  BY FS_Subset, FS_CardinalityType
<1>2. 0 \in T
  <2>1. Small(0) = {{}}
    BY <1>1, FS_EmptySet
  <2>2. [s \in Small(0) |-> base] \in [Small(0) -> V]
    OBVIOUS
  <2>3. \A s \in Small(0) : Folded(S, base, pick, step, [q \in Small(0) |-> base], s)
    BY <2>1 DEF Folded
  <2> QED
    BY <2>2, <2>3
<1>3. ASSUME NEW n \in Nat, n \in T PROVE n + 1 \in T
  <2>1. PICK h \in [Small(n) -> V] : \A s \in Small(n) : Folded(S, base, pick, step, h, s)
    BY <1>3
  <2> DEFINE g == [s \in Small(n + 1) |->
                     IF s \in Small(n) THEN h[s]
                     ELSE step[<<pick[s], h[s \ {pick[s]}]>>]]
  <2>2. ASSUME NEW s \in Small(n + 1), s # {}
        PROVE  pick[s] \in S /\ s \ {pick[s]} \in Small(n) /\ s \ {pick[s]} \in Small(n + 1)
    <3>1. pick[s] \in s /\ s \in SUBSET S
      BY <2>2
    <3>2. Cardinality(s \ {pick[s]}) = Cardinality(s) - 1
      BY <1>1, <3>1, FS_RemoveElement
    <3> QED
      BY <1>1, <3>1, <3>2
  <2>3. {} \in Small(n)
    BY FS_EmptySet
  <2>4. g \in [Small(n + 1) -> V]
    <3> SUFFICES ASSUME NEW s \in Small(n + 1), s \notin Small(n)
                 PROVE  step[<<pick[s], h[s \ {pick[s]}]>>] \in V
      BY <2>1
    <3>1. pick[s] \in S /\ h[s \ {pick[s]}] \in V
      BY <2>1, <2>2, <2>3
    <3> QED
      BY <3>1
  <2>5. ASSUME NEW s \in Small(n + 1) PROVE Folded(S, base, pick, step, g, s)
    <3>1. CASE s = {}
      BY <2>1, <2>3, <3>1 DEF Folded
    <3>2. CASE s # {}
      <4>1. g[s \ {pick[s]}] = h[s \ {pick[s]}]
        BY <2>2, <3>2
      <4>2. g[s] = step[<<pick[s], h[s \ {pick[s]}]>>]
        BY <2>1, <3>2 DEF Folded
      <4> QED
        BY <3>2, <4>1, <4>2 DEF Folded
    <3> QED
      BY <3>1, <3>2
  <2> HIDE DEF g, Small
  <2>6. \A s \in Small(n + 1) : Folded(S, base, pick, step, g, s)
    BY <2>5
  <2> QED
    BY <1>3, <2>4, <2>6
<1>4. Cardinality(S) \in T
  <2> HIDE DEF T
  <2>1. Cardinality(S) \in Nat
    BY FS_CardinalityType
  <2> QED
    BY <1>2, <1>3, <2>1, Induction
<1>5. Small(Cardinality(S)) = SUBSET S
  BY FS_Subset, FS_CardinalityType
<1> QED
  BY <1>4, <1>5

-----------------------------------------------------------------------------
(* A fold over a sequence, from left to right: `h' is what FoldLeft         *)
(* recurses on, the greatest index first, and `f' are the results after     *)
(* each of the elements.                                                    *)

LEMMA Prefix ==
  ASSUME NEW i \in Nat \ {0}
  PROVE  Max(1 .. i) = i /\ (1 .. i) \ {i} = 1 .. i - 1 /\ 1 .. i # {}
<1>1. i \in Nat /\ 1 .. i \in SUBSET (0 .. i) /\ i \in 1 .. i
  OBVIOUS
<1>2. 1 .. i # {}
  BY <1>1
<1>3. Max(1 .. i) \in 1 .. i /\ \A y \in 1 .. i : Max(1 .. i) >= y
  BY <1>1, <1>2, MaxIs
<1>4. Max(1 .. i) >= i
  BY <1>1, <1>3
<1>5. (1 .. i) \ {i} = 1 .. i - 1
  BY <1>1
<1> QED
  BY <1>2, <1>3, <1>4, <1>5

LEMMA MaxOf ==
  ASSUME NEW n \in Nat, NEW s \in SUBSET (1 .. n), s # {}
  PROVE  Max(s) \in s
<1>1. s \in SUBSET (0 .. n)
  OBVIOUS
<1> QED
  BY <1>1, MaxIs

\* What the fold recurses on, and what it has after each element.
Recurses(n, base, step, h) ==
  \A s \in SUBSET (1 .. n) : h[s] = IF s = {} THEN base ELSE step[<<Max(s), h[s \ {Max(s)}]>>]

\* As long as the values are in `V'.
RecursesIn(V, n, base, step, h) ==
  /\ n \in Nat /\ base \in V /\ step \in [(1 .. n) \X V -> V]
  /\ h[{}] = base
  /\ \A s \in SUBSET (1 .. n) :
       s # {} /\ h[s \ {Max(s)}] \in V => h[s] = step[<<Max(s), h[s \ {Max(s)}]>>]

Unrolled(n, base, step, f) ==
  f[0] = base /\ \A i \in 1 .. n : f[i] = step[<<i, f[i - 1]>>]

LEMMA LeftFoldExists ==
  ASSUME NEW n \in Nat, NEW V, NEW base \in V, NEW step \in [(1 .. n) \X V -> V]
  PROVE  \E h \in [SUBSET (1 .. n) -> V] : Recurses(n, base, step, h)
<1> DEFINE pick == [s \in (SUBSET (1 .. n)) \ {{}} |-> Max(s)]
<1>1. \A s \in (SUBSET (1 .. n)) \ {{}} : Max(s) \in s
  BY MaxOf
<1>2. pick \in [(SUBSET (1 .. n)) \ {{}} -> 1 .. n]
  BY <1>1
<1>3. \A s \in (SUBSET (1 .. n)) \ {{}} : pick[s] \in s
  BY <1>1
<1>4. IsFiniteSet(1 .. n)
  BY FS_Interval
<1>5. PICK h \in [SUBSET (1 .. n) -> V] :
        \A s \in SUBSET (1 .. n) : Folded(1 .. n, base, pick, step, h, s)
  <2> HIDE DEF pick
  <2> QED
    BY <1>2, <1>3, <1>4, FoldExists
<1>6. Recurses(n, base, step, h)
  BY <1>5 DEF Folded, Recurses
<1> QED
  BY <1>6

LEMMA LeftFold ==
  ASSUME NEW V, NEW n, NEW base, NEW step, NEW h, RecursesIn(V, n, base, step, h)
  PROVE  \E f \in [0 .. n -> V] : Unrolled(n, base, step, f) /\ f[n] = h[1 .. n]
<1> DEFINE f == [i \in 0 .. n |-> h[1 .. i]]
           T == {i \in Nat : i <= n => f[i] \in V}
<1>0. n \in Nat /\ base \in V /\ step \in [(1 .. n) \X V -> V]
  BY DEF RecursesIn
<1>1. f[0] = base
  <2>1. 1 .. 0 = {} /\ f[0] = h[1 .. 0]
    BY <1>0
  <2> QED
    BY <2>1 DEF RecursesIn
<1>2. ASSUME NEW i \in 1 .. n, f[i - 1] \in V PROVE f[i] = step[<<i, f[i - 1]>>]
  <2>1. 1 .. i \in SUBSET (1 .. n) /\ h[1 .. i - 1] = f[i - 1] /\ h[1 .. i] = f[i]
    BY <1>0
  <2>2. Max(1 .. i) = i /\ (1 .. i) \ {i} = 1 .. i - 1 /\ 1 .. i # {}
    <3>1. i \in Nat \ {0}
      BY <1>0
    <3> QED
      BY <3>1, Prefix
  <2> HIDE DEF f
  <2> QED
    BY <1>0, <1>2, <2>1, <2>2 DEF RecursesIn
<1>3. \A i \in Nat : i \in T
  <2> HIDE DEF f
  <2>1. 0 \in T
    BY <1>0, <1>1
  <2>2. ASSUME NEW i \in Nat, i \in T PROVE i + 1 \in T
    <3>1. SUFFICES ASSUME i + 1 <= n PROVE f[i + 1] \in V
      OBVIOUS
    <3>2. i + 1 \in 1 .. n /\ f[(i + 1) - 1] \in V /\ (i + 1) - 1 = i
      BY <1>0, <2>2, <3>1
    <3>3. f[i + 1] = step[<<i + 1, f[i]>>] /\ f[i] \in V
      BY <1>0, <1>2, <3>2
    <3> QED
      BY <1>0, <3>2, <3>3
  <2> HIDE DEF T
  <2> QED
    BY <2>1, <2>2, Induction
<1>4. f \in [0 .. n -> V]
  <2>1. \A i \in 0 .. n : f[i] \in V
    <3> HIDE DEF f
    <3> QED
      BY <1>0, <1>3
  <2> QED
    BY <2>1
<1>5. \A i \in 1 .. n : f[i] = step[<<i, f[i - 1]>>]
  <2> HIDE DEF f
  <2>1. \A i \in 1 .. n : f[i - 1] \in V
    <3>1. \A i \in 1 .. n : i - 1 \in 0 .. n
      BY <1>0
    <3> QED
      BY <1>4, <3>1
  <2> QED
    BY <1>2, <2>1
<1>6. f[n] = h[1 .. n]
  BY <1>0
<1> HIDE DEF f
<1>7. Unrolled(n, base, step, f)
  BY <1>1, <1>5 DEF Unrolled
<1> QED
  BY <1>4, <1>6, <1>7

-----------------------------------------------------------------------------
(* Sums.  The order in which the terms are chosen does not matter.           *)

SumOf(l, S) == MapThenSumSet(LAMBDA j : l[j], S)

Chosen(s) == CHOOSE x \in s : TRUE

\* What the sum recurses on.
SumOver(l, S, h) ==
  h = [s \in SUBSET S |-> IF s = {} THEN 0 ELSE l[Chosen(s)] + h[s \ {Chosen(s)}]]

LEMMA SumExists ==
  ASSUME NEW S, IsFiniteSet(S), NEW l, \A x \in S : l[x] \in Nat
  PROVE  \E h \in [SUBSET S -> Nat] : SumOver(l, S, h)
<1> DEFINE pick == [s \in (SUBSET S) \ {{}} |-> Chosen(s)]
           step == [e \in S \X Nat |-> l[e[1]] + e[2]]
<1>1. \A s \in (SUBSET S) \ {{}} : Chosen(s) \in s
  BY DEF Chosen
<1>2. pick \in [(SUBSET S) \ {{}} -> S]
  BY <1>1
<1>3. \A s \in (SUBSET S) \ {{}} : pick[s] \in s
  BY <1>1
<1>4. step \in [S \X Nat -> Nat]
  OBVIOUS
<1>5. PICK h \in [SUBSET S -> Nat] : \A s \in SUBSET S : Folded(S, 0, pick, step, h, s)
  <2> HIDE DEF pick, step
  <2> QED
    BY <1>2, <1>3, <1>4, FoldExists
<1>6. ASSUME NEW s \in SUBSET S
      PROVE  h[s] = IF s = {} THEN 0 ELSE l[Chosen(s)] + h[s \ {Chosen(s)}]
  <2>1. CASE s = {}
    BY <1>5, <2>1 DEF Folded
  <2>2. CASE s # {}
    <3>1. Chosen(s) \in S /\ h[s \ {Chosen(s)}] \in Nat /\ pick[s] = Chosen(s)
      BY <1>1, <1>5, <2>2
    <3>2. h[s] = step[<<Chosen(s), h[s \ {Chosen(s)}]>>]
      BY <1>5, <2>2, <3>1 DEF Folded
    <3> QED
      BY <2>2, <3>1, <3>2
  <2> QED
    BY <2>1, <2>2
<1> QED
  BY <1>5, <1>6 DEF SumOver

LEMMA SumUnique ==
  ASSUME NEW S, IsFiniteSet(S), NEW R \in SUBSET S, NEW l, \A x \in S : l[x] \in Nat,
         NEW h, SumOver(l, S, h), NEW g, SumOver(l, R, g)
  PROVE  \A s \in SUBSET R : g[s] = h[s] /\ g[s] \in Nat
<1> DEFINE T == {n \in Nat : \A s \in SUBSET R :
                   Cardinality(s) = n => g[s] = h[s] /\ g[s] \in Nat}
<1>1. \A s \in SUBSET R : IsFiniteSet(s) /\ Cardinality(s) \in Nat /\ s \in SUBSET S
  BY FS_Subset, FS_CardinalityType
<1>2. 0 \in T
  BY <1>1, FS_EmptySet DEF SumOver
<1>3. ASSUME NEW n \in Nat, n \in T PROVE n + 1 \in T
  <2>1. SUFFICES ASSUME NEW s \in SUBSET R, Cardinality(s) = n + 1
                 PROVE  g[s] = h[s] /\ g[s] \in Nat
    OBVIOUS
  <2>2. s # {}
    BY <1>1, <2>1, FS_EmptySet
  <2> DEFINE r == s \ {Chosen(s)}
  <2>3. Chosen(s) \in s /\ l[Chosen(s)] \in Nat
    BY <2>2 DEF Chosen
  <2>4. r \in SUBSET R /\ Cardinality(r) = n
    <3>1. IsFiniteSet(s)
      BY <1>1
    <3>2. Cardinality(s \ {Chosen(s)}) = Cardinality(s) - 1
      BY <2>3, <3>1, FS_RemoveElement
    <3> QED
      BY <2>1, <3>2
  <2>5. g[r] = h[r] /\ g[r] \in Nat
    BY <1>3, <2>4
  <2>6. g[s] = l[Chosen(s)] + g[r] /\ h[s] = l[Chosen(s)] + h[r]
    BY <1>1, <2>2, <2>4 DEF SumOver
  <2> HIDE DEF r
  <2> QED
    BY <2>3, <2>5, <2>6
<1>4. \A n \in Nat : n \in T
  <2> HIDE DEF T
  <2> QED
    BY <1>2, <1>3, Induction
<1> QED
  BY <1>1, <1>4

LEMMA SumIs ==
  ASSUME NEW S, IsFiniteSet(S), NEW l, \A x \in S : l[x] \in Nat,
         NEW h, SumOver(l, S, h)
  PROVE  \A s \in SUBSET S : SumOf(l, s) = h[s] /\ SumOf(l, s) \in Nat
<1>1. SUFFICES ASSUME NEW s \in SUBSET S PROVE SumOf(l, s) = h[s] /\ SumOf(l, s) \in Nat
  OBVIOUS
<1>2. IsFiniteSet(s) /\ \A x \in s : l[x] \in Nat
  BY FS_Subset
<1> DEFINE g == CHOOSE it : SumOver(l, s, it)
<1>3. SumOver(l, s, g)
  <2>1. \E it : SumOver(l, s, it)
    BY <1>2, SumExists
  <2> QED
    BY <2>1
<1>4. SumOf(l, s) = g[s]
  BY DEF SumOf, MapThenSumSet, MapThenFoldSet, SumOver, Chosen
<1>5. s \in SUBSET s
  OBVIOUS
<1> HIDE DEF g
<1> QED
  BY <1>3, <1>4, <1>5, SumUnique

LEMMA SumOfNone == ASSUME NEW l PROVE SumOf(l, {}) = 0
<1> DEFINE g == CHOOSE it : SumOver(l, {}, it)
<1>1. SumOver(l, {}, g)
  <2>1. \E it : SumOver(l, {}, it)
    BY FS_EmptySet, SumExists
  <2> QED
    BY <2>1
<1>2. SumOf(l, {}) = g[{}]
  BY DEF SumOf, MapThenSumSet, MapThenFoldSet, SumOver, Chosen
<1> QED
  BY <1>1, <1>2 DEF SumOver

LEMMA Swapped ==
  ASSUME NEW a \in Nat, NEW b \in Nat, NEW c \in Nat PROVE a + (b + c) = b + (a + c)
  OBVIOUS

LEMMA SumRemoves ==
  ASSUME NEW S, IsFiniteSet(S), NEW l, \A x \in S : l[x] \in Nat
  PROVE  \A s \in SUBSET S : \A x \in s : SumOf(l, s) = l[x] + SumOf(l, s \ {x})
<1>1. PICK h \in [SUBSET S -> Nat] : SumOver(l, S, h)
  BY SumExists
<1>2. \A s \in SUBSET S : SumOf(l, s) = h[s] /\ h[s] \in Nat
  BY <1>1, SumIs
<1>3. \A s \in SUBSET S : IsFiniteSet(s) /\ Cardinality(s) \in Nat
  BY FS_Subset, FS_CardinalityType
<1>4. \A s \in SUBSET S : s # {} => h[s] = l[Chosen(s)] + h[s \ {Chosen(s)}]
  BY <1>1 DEF SumOver
<1> DEFINE T == {n \in Nat : \A s \in SUBSET S : Cardinality(s) = n =>
                   \A x \in s : h[s] = l[x] + h[s \ {x}]}
<1>5. 0 \in T
  BY <1>3, FS_EmptySet
<1>6. ASSUME NEW n \in Nat, n \in T PROVE n + 1 \in T
  <2>1. SUFFICES ASSUME NEW s \in SUBSET S, Cardinality(s) = n + 1, NEW x \in s
                 PROVE  h[s] = l[x] + h[s \ {x}]
    OBVIOUS
  <2> DEFINE y == Chosen(s)
  <2>2. y \in s /\ h[s] = l[y] + h[s \ {y}]
    BY <1>4, <2>1 DEF Chosen
  <2> HIDE DEF y
  <2>3. CASE y = x
    BY <2>2, <2>3
  <2>4. CASE y # x
    <3>1. ASSUME NEW z \in s PROVE Cardinality(s \ {z}) = n /\ s \ {z} \in SUBSET S
      <4>1. IsFiniteSet(s)
        BY <1>3
      <4>2. Cardinality(s \ {z}) = Cardinality(s) - 1
        BY <4>1, FS_RemoveElement
      <4> QED
        BY <2>1, <4>2
    <3>2. h[s \ {y}] = l[x] + h[(s \ {y}) \ {x}]
      BY <1>6, <2>2, <2>4, <3>1
    <3>3. h[s \ {x}] = l[y] + h[(s \ {x}) \ {y}]
      BY <1>6, <2>2, <2>4, <3>1
    <3>4. (s \ {x}) \ {y} = (s \ {y}) \ {x}
      OBVIOUS
    <3>5. l[x] \in Nat /\ l[y] \in Nat /\ h[(s \ {y}) \ {x}] \in Nat
      <4>1. (s \ {y}) \ {x} \in SUBSET S
        OBVIOUS
      <4> QED
        BY <2>2, <4>1
    <3>6. h[s] = l[y] + (l[x] + h[(s \ {y}) \ {x}])
      BY <2>2, <3>2
    <3>7. l[x] + h[s \ {x}] = l[x] + (l[y] + h[(s \ {y}) \ {x}])
      BY <3>3, <3>4
    <3> QED
      BY <3>5, <3>6, <3>7, Swapped
  <2> QED
    BY <2>3, <2>4
<1>7. \A n \in Nat : n \in T
  <2> HIDE DEF T
  <2> QED
    BY <1>5, <1>6, Induction
<1>8. ASSUME NEW s \in SUBSET S, NEW x \in s PROVE h[s] = l[x] + h[s \ {x}]
  BY <1>3, <1>7
<1> QED
  BY <1>2, <1>8

\* The sums of the beginnings of a sequence of numbers.
LEMMA SumPrefix ==
  ASSUME NEW n \in Nat, NEW l, \A x \in 1 .. n : l[x] \in Nat
  PROVE  /\ SumOf(l, 1 .. 0) = 0
         /\ \A i \in 0 .. n : SumOf(l, 1 .. i) \in Nat
         /\ \A i \in 1 .. n : SumOf(l, 1 .. i) = SumOf(l, 1 .. i - 1) + l[i]
<1>1. IsFiniteSet(1 .. n)
  BY FS_Interval
<1>2. \A i \in 0 .. n : 1 .. i \in SUBSET (1 .. n)
  OBVIOUS
<1>3. \A i \in 0 .. n : SumOf(l, 1 .. i) \in Nat
  <2>1. PICK h \in [SUBSET (1 .. n) -> Nat] : SumOver(l, 1 .. n, h)
    BY <1>1, SumExists
  <2>2. \A s \in SUBSET (1 .. n) : SumOf(l, s) \in Nat
    BY <1>1, <2>1, SumIs
  <2> QED
    BY <1>2, <2>2
<1>4. ASSUME NEW i \in 1 .. n PROVE SumOf(l, 1 .. i) = SumOf(l, 1 .. i - 1) + l[i]
  <2>1. i \in 1 .. i /\ (1 .. i) \ {i} = 1 .. i - 1 /\ 1 .. i \in SUBSET (1 .. n)
    OBVIOUS
  <2>2. SumOf(l, 1 .. i) = l[i] + SumOf(l, (1 .. i) \ {i})
    BY <1>1, <2>1, SumRemoves
  <2>3. SumOf(l, 1 .. i - 1) \in Nat /\ l[i] \in Nat
    BY <1>3
  <2>4. SumOf(l, 1 .. i) = l[i] + SumOf(l, 1 .. i - 1)
    BY <2>1, <2>2
  <2> QED
    BY <2>3, <2>4
<1>5. SumOf(l, 1 .. 0) = 0
  <2>1. 1 .. 0 = {}
    OBVIOUS
  <2> QED
    BY <2>1, SumOfNone
<1> QED
  BY <1>3, <1>4, <1>5

\* They grow.
LEMMA SumGrows ==
  ASSUME NEW n \in Nat, NEW l, \A x \in 1 .. n : l[x] \in Nat,
         NEW i \in 0 .. n, NEW j \in i .. n
  PROVE  SumOf(l, 1 .. i) <= SumOf(l, 1 .. j)
<1>1. /\ \A k \in 0 .. n : SumOf(l, 1 .. k) \in Nat
      /\ \A k \in 1 .. n : SumOf(l, 1 .. k) = SumOf(l, 1 .. k - 1) + l[k]
  BY SumPrefix
<1> DEFINE T == {k \in Nat : i + k <= n => SumOf(l, 1 .. i) <= SumOf(l, 1 .. i + k)}
<1>2. 0 \in T
  BY <1>1
<1>3. ASSUME NEW k \in Nat, k \in T PROVE k + 1 \in T
  <2>1. SUFFICES ASSUME i + (k + 1) <= n
                 PROVE  SumOf(l, 1 .. i) <= SumOf(l, 1 .. i + (k + 1))
    OBVIOUS
  <2>2. i + (k + 1) \in 1 .. n /\ i + k \in 0 .. n /\ (i + (k + 1)) - 1 = i + k
    BY <2>1
  <2>3. SumOf(l, 1 .. i + (k + 1)) = SumOf(l, 1 .. i + k) + l[i + (k + 1)]
    BY <1>1, <2>2
  <2>4. SumOf(l, 1 .. i) <= SumOf(l, 1 .. i + k)
    BY <1>3, <2>2
  <2>5. /\ SumOf(l, 1 .. i) \in Nat /\ SumOf(l, 1 .. i + k) \in Nat
        /\ l[i + (k + 1)] \in Nat
    BY <1>1, <2>2
  <2> QED
    BY <2>3, <2>4, <2>5
<1>4. \A k \in Nat : k \in T
  <2> HIDE DEF T
  <2> QED
    BY <1>2, <1>3, Induction
<1>5. j - i \in Nat /\ i + (j - i) = j /\ j <= n
  OBVIOUS
<1>6. i + (j - i) <= n => SumOf(l, 1 .. i) <= SumOf(l, 1 .. i + (j - i))
  BY <1>4, <1>5
<1> QED
  BY <1>5, <1>6

\* The sum of equal lengths.
Evenly(lens, n, l) == \A i \in 1 .. n : SumOf(lens, 1 .. i - 1) = (i - 1) * l

LEMMA SumOfEqual ==
  ASSUME NEW n \in Nat, NEW l \in Nat, NEW lens, \A i \in 1 .. n : lens[i] = l
  PROVE  Evenly(lens, n, l)
<1>1. /\ SumOf(lens, 1 .. 0) = 0
      /\ \A i \in 1 .. n : SumOf(lens, 1 .. i) = SumOf(lens, 1 .. i - 1) + lens[i]
  BY SumPrefix
<1> DEFINE T == {k \in Nat : k <= n => SumOf(lens, 1 .. k) = k * l}
<1>2. 0 \in T
  BY <1>1
<1>3. ASSUME NEW k \in Nat, k \in T PROVE k + 1 \in T
  <2> DEFINE m == k + 1
  <2>1. SUFFICES ASSUME m <= n PROVE SumOf(lens, 1 .. m) = m * l
    OBVIOUS
  <2>2. m \in 1 .. n /\ m - 1 = k /\ k <= n
    BY <2>1
  <2>3. SumOf(lens, 1 .. k) = k * l
    BY <1>3, <2>2
  <2>4. (k + 1) * l = k * l + l
    OBVIOUS
  <2> HIDE DEF m
  <2>5. SumOf(lens, 1 .. m) = SumOf(lens, 1 .. k) + l
    BY <1>1, <2>2
  <2> QED
    BY <2>3, <2>4, <2>5 DEF m
<1>4. \A k \in Nat : k \in T
  <2> HIDE DEF T
  <2> QED
    BY <1>2, <1>3, Induction
<1>5. ASSUME NEW i \in 1 .. n PROVE SumOf(lens, 1 .. i - 1) = (i - 1) * l
  <2>1. i - 1 \in Nat /\ i - 1 <= n
    OBVIOUS
  <2> QED
    BY <1>4, <2>1
<1> QED
  BY <1>5 DEF Evenly

\* Each place behind the beginning is in one of the parts.
InPart(k, l, n) == \E i \in 1 .. n : \E j \in 1 .. l[i] : k = SumOf(l, 1 .. i - 1) + j

\* Each of them is.
LEMMA SumCovers ==
  ASSUME NEW n \in Nat, NEW l, \A x \in 1 .. n : l[x] \in Nat, NEW k \in 1 .. SumOf(l, 1 .. n)
  PROVE  InPart(k, l, n)
<1> DEFINE at(i) == SumOf(l, 1 .. i)
           T == {i \in Nat : i <= n /\ k <= at(i) =>
                   \E q \in 1 .. n : \E j \in 1 .. l[q] : k = at(q - 1) + j}
<1>1. /\ at(0) = 0 /\ \A i \in 0 .. n : at(i) \in Nat
      /\ \A i \in 1 .. n : at(i) = at(i - 1) + l[i]
  BY SumPrefix
<1>2. k \in Nat /\ k > 0 /\ k <= at(n)
  <2>1. at(n) \in Nat
    <3> HIDE DEF at
    <3> QED
      BY <1>1
  <2> QED
    BY <2>1
<1> HIDE DEF at
<1>3. 0 \in T
  BY <1>1, <1>2
<1>4. ASSUME NEW i \in Nat, i \in T PROVE i + 1 \in T
  <2> DEFINE m == i + 1
  <2>1. SUFFICES ASSUME m <= n, k <= at(m)
                 PROVE  \E q \in 1 .. n : \E j \in 1 .. l[q] : k = at(q - 1) + j
    OBVIOUS
  <2>2. m \in 1 .. n /\ m - 1 = i /\ i <= n /\ i \in 0 .. n
    BY <2>1
  <2>3. CASE k <= at(i)
    BY <1>4, <2>2, <2>3
  <2>4. CASE ~(k <= at(i))
    <3> HIDE DEF m
    <3>1. at(m) = at(m - 1) + l[m] /\ at(m - 1) \in Nat /\ l[m] \in Nat
      BY <1>1, <2>2
    <3>2. ~(k <= at(m - 1))
      BY <2>2, <2>4
    <3>3. k - at(m - 1) \in 1 .. l[m] /\ k = at(m - 1) + (k - at(m - 1))
      <4> DEFINE a == at(m - 1)
                 b == l[m]
      <4>1. a \in Nat /\ b \in Nat /\ k <= a + b /\ ~(k <= a) /\ k \in Nat
        BY <1>2, <2>1, <3>1, <3>2
      <4> HIDE DEF a, b
      <4>2. k - a \in 1 .. b /\ k = a + (k - a)
        BY <4>1
      <4> QED
        BY <4>2 DEF a, b
    <3> QED
      BY <2>2, <3>3
  <2> QED
    BY <2>3, <2>4
<1>5. \A i \in Nat : i \in T
  <2> HIDE DEF T
  <2> QED
    BY <1>3, <1>4, Induction
<1>6. n \in T /\ n <= n
  <2> HIDE DEF T
  <2> QED
    BY <1>5
<1> QED
  BY <1>2, <1>6 DEF at, InPart

\* Some of the places of a sequence, in their order: pos[0] is before all of them.
Picks(pos, m, n) ==
  /\ pos \in [0 .. m -> 0 .. n] /\ pos[0] = 0
  /\ \A i, j \in 0 .. m : i < j => pos[i] < pos[j]

\* Zeros add nothing.
ZeroFrom(l, n, a, b) ==
  /\ n \in Nat /\ a \in 0 .. n /\ b \in a .. n
  /\ \A x \in 1 .. n : l[x] \in Nat
  /\ \A x \in a + 1 .. b : l[x] = 0

\* A stretch of zeros leaves the sum where it was.
LEMMA SumOfZeros ==
  ASSUME NEW l, NEW n, NEW a, NEW b, ZeroFrom(l, n, a, b)
  PROVE  SumOf(l, 1 .. b) = SumOf(l, 1 .. a)
<1>0. /\ n \in Nat /\ a \in 0 .. n /\ b \in a .. n
      /\ \A x \in 1 .. n : l[x] \in Nat
      /\ \A x \in a + 1 .. b : l[x] = 0
  BY DEF ZeroFrom
<1> DEFINE at(i) == SumOf(l, 1 .. i)
           T == {i \in Nat : a + i <= b => at(a + i) = at(a)}
<1>1. /\ \A i \in 0 .. n : at(i) \in Nat
      /\ \A i \in 1 .. n : at(i) = at(i - 1) + l[i]
  BY <1>0, SumPrefix
<1> HIDE DEF at
<1>2. 0 \in T
  BY <1>0
<1>3. ASSUME NEW i \in Nat, i \in T PROVE i + 1 \in T
  <2> DEFINE m == a + (i + 1)
  <2>1. SUFFICES ASSUME m <= b PROVE at(m) = at(a)
    OBVIOUS
  <2>2. m \in 1 .. n /\ m - 1 = a + i /\ a + i <= b /\ m \in a + 1 .. b /\ a + i \in 0 .. n
    BY <1>0, <2>1
  <2>3. at(a + i) = at(a) /\ at(a + i) \in Nat
    BY <1>1, <1>3, <2>2
  <2> HIDE DEF m
  <2>4. at(m) = at(m - 1) + l[m] /\ l[m] = 0
    BY <1>0, <1>1, <2>2
  <2> QED
    BY <2>2, <2>3, <2>4
<1>4. \A i \in Nat : i \in T
  <2> HIDE DEF T
  <2> QED
    BY <1>2, <1>3, Induction
<1>5. b - a \in T /\ a + (b - a) = b /\ b <= b
  <2> HIDE DEF T
  <2> QED
    BY <1>0, <1>4
<1> QED
  BY <1>5 DEF at

\* Where there is something to add, it is picked.
PickedOf(part, l, pos, m, n) ==
  /\ Picks(pos, m, n)
  /\ \A x \in 1 .. n : l[x] \in Nat
  /\ \A i \in 1 .. m : part[i] = l[pos[i]]
  /\ \A x \in 1 .. n : l[x] = 0 \/ \E i \in 1 .. m : pos[i] = x

\* The sum of all of them is the sum of the picked ones.
LEMMA SumPicked ==
  ASSUME NEW n \in Nat, NEW m \in Nat, NEW pos, NEW l, NEW part, PickedOf(part, l, pos, m, n)
  PROVE  SumOf(l, 1 .. n) = SumOf(part, 1 .. m)
<1>a. \A x \in 1 .. n : l[x] \in Nat
  BY DEF PickedOf
<1>0. /\ \A x \in 1 .. n : l[x] \in Nat
      /\ \A i \in 1 .. m : part[i] = l[pos[i]]
      /\ \A x \in 1 .. n : l[x] = 0 \/ \E i \in 1 .. m : pos[i] = x
  BY DEF PickedOf
<1>1. /\ pos \in [0 .. m -> 0 .. n] /\ pos[0] = 0
      /\ \A i, j \in 0 .. m : i < j => pos[i] < pos[j]
      /\ \A i \in 0 .. m : pos[i] \in 0 .. n
  BY DEF Picks, PickedOf
<1>2. \A i \in 1 .. m : pos[i] \in 1 .. n /\ part[i] \in Nat
  <2> SUFFICES ASSUME NEW i \in 1 .. m PROVE pos[i] \in 1 .. n /\ part[i] \in Nat
    OBVIOUS
  <2>1. i \in 0 .. m /\ 0 \in 0 .. m /\ 0 < i
    OBVIOUS
  <2>2. pos[i] > 0 /\ pos[i] \in 0 .. n
    BY <1>1, <2>1
  <2>3. pos[i] \in 1 .. n
    BY <2>2
  <2> QED
    BY <1>0, <2>3
<1>3. /\ SumOf(l, 1 .. 0) = 0
      /\ \A i \in 1 .. n : SumOf(l, 1 .. i) = SumOf(l, 1 .. i - 1) + l[i]
      /\ \A i \in 0 .. n : SumOf(l, 1 .. i) \in Nat
  BY <1>0, SumPrefix
<1>4. /\ SumOf(part, 1 .. 0) = 0
      /\ \A i \in 1 .. m : SumOf(part, 1 .. i) = SumOf(part, 1 .. i - 1) + part[i]
      /\ \A i \in 0 .. m : SumOf(part, 1 .. i) \in Nat
  <2>1. \A i \in 1 .. m : part[i] \in Nat
    BY <1>2
  <2> QED
    BY <2>1, SumPrefix
<1> DEFINE T == {i \in Nat : i <= m => SumOf(l, 1 .. pos[i]) = SumOf(part, 1 .. i)}
<1>5. 0 \in T
  BY <1>1, <1>3, <1>4
<1>6. ASSUME NEW i \in Nat, i \in T PROVE i + 1 \in T
  <2> DEFINE k == i + 1
             a == pos[i]
             b == pos[k]
  <2>1. SUFFICES ASSUME k <= m PROVE SumOf(l, 1 .. pos[k]) = SumOf(part, 1 .. k)
    OBVIOUS
  <2>2. k \in 1 .. m /\ k - 1 = i /\ i <= m /\ i \in 0 .. m /\ k \in 0 .. m /\ i < k
    BY <2>1
  <2>3. SumOf(l, 1 .. a) = SumOf(part, 1 .. i)
    BY <1>6, <2>2
  <2> HIDE DEF T
  <2>4. \A q \in 1 .. m : q = i \/ q = k \/ q < i \/ k < q
    BY <2>2
  <2> HIDE DEF k
  <2>5. a \in 0 .. n /\ b \in 1 .. n /\ a < b
    BY <1>1, <1>2, <2>2
  <2>6. ASSUME NEW x \in a + 1 .. b - 1 PROVE l[x] = 0
    <3>1. x \in 1 .. n /\ x > a /\ x < b
      BY <2>5
    <3>2. SUFFICES ASSUME NEW q \in 1 .. m, pos[q] = x PROVE FALSE
      BY <1>0, <3>1
    <3>3. q \in 0 .. m
      OBVIOUS
    <3>4. q < i => x < a
      BY <1>1, <2>2, <3>2, <3>3
    <3>5. k < q => b < x
      BY <1>1, <2>2, <3>2, <3>3
    <3>6. q # i /\ q # k
      BY <2>5, <3>1, <3>2
    <3>7. q < i \/ k < q
      BY <2>4, <3>6
    <3> QED
      BY <2>5, <3>1, <3>4, <3>5, <3>7
  <2> HIDE DEF a, b
  <2>7. SumOf(l, 1 .. b - 1) = SumOf(l, 1 .. a)
    <3> DEFINE c == b - 1
    <3>1. c \in a .. n
      BY <2>5
    <3>2. a \in 0 .. n
      BY <2>5
    <3>3. ZeroFrom(l, n, a, c)
      BY <1>a, <2>6, <3>1, <3>2 DEF ZeroFrom
    <3> HIDE DEF c
    <3>4. SumOf(l, 1 .. c) = SumOf(l, 1 .. a)
      BY <3>3, SumOfZeros
    <3> QED
      BY <3>4 DEF c
  <2>8. SumOf(l, 1 .. b) = SumOf(l, 1 .. b - 1) + l[b]
    BY <1>3, <2>5
  <2>9. SumOf(part, 1 .. k) = SumOf(part, 1 .. i) + part[k] /\ part[k] = l[b]
    BY <1>0, <1>4, <2>2 DEF b
  <2> QED
    BY <2>3, <2>7, <2>8, <2>9 DEF b
<1>7. \A i \in Nat : i \in T
  <2> HIDE DEF T
  <2> QED
    BY <1>5, <1>6, Induction
<1>8. SumOf(l, 1 .. pos[m]) = SumOf(part, 1 .. m)
  <2>1. m \in T /\ m <= m
    BY <1>7
  <2> QED
    BY <2>1
<1>9. SumOf(l, 1 .. n) = SumOf(l, 1 .. pos[m])
  <2> DEFINE a == pos[m]
  <2>1. m \in 0 .. m /\ a \in 0 .. n
    BY <1>1
  <2>2. ASSUME NEW x \in a + 1 .. n PROVE l[x] = 0
    <3>1. x \in 1 .. n /\ x > a
      BY <2>1
    <3>2. SUFFICES ASSUME NEW q \in 1 .. m, pos[q] = x PROVE FALSE
      BY <1>0, <3>1
    <3>3. q \in 0 .. m /\ (q = m \/ q < m)
      OBVIOUS
    <3>4. q < m => x < a
      BY <1>1, <2>1, <3>2, <3>3
    <3>5. a \in Nat /\ x \in Nat
      BY <2>1, <3>1
    <3> QED
      BY <3>1, <3>2, <3>3, <3>4, <3>5
  <2> HIDE DEF a
  <2>3. n \in a .. n
    BY <2>1
  <2>4. ZeroFrom(l, n, a, n)
    BY <1>a, <2>1, <2>2, <2>3 DEF ZeroFrom
  <2>5. SumOf(l, 1 .. n) = SumOf(l, 1 .. a)
    BY <2>4, SumOfZeros
  <2> QED
    BY <2>5 DEF a
<1> QED
  BY <1>8, <1>9

-----------------------------------------------------------------------------
(* Sequences. *)

\* What a concatenation has, and where.
JoinedOf(joined, a, b, n, m) ==
  /\ Len(joined) = n + m
  /\ \A i \in 1 .. n : joined[i] = a[i]
  /\ \A i \in 1 .. m : joined[n + i] = b[i]
  /\ \A k \in 1 .. n + m : k \in 1 .. n \/ \E i \in 1 .. m : k = n + i
  /\ ToSet(joined) = ToSet(a) \union ToSet(b)

LEMMA JoinedIs ==
  ASSUME NEW S, NEW a \in Seq(S), NEW b \in Seq(S)
  PROVE  a \o b \in Seq(S) /\ JoinedOf(a \o b, a, b, Len(a), Len(b))
<1> DEFINE n == Len(a)
           m == Len(b)
           joined == a \o b
<1>1. /\ joined \in Seq(S) /\ Len(joined) = n + m /\ n \in Nat /\ m \in Nat
      /\ DOMAIN a = 1 .. n /\ DOMAIN b = 1 .. m /\ DOMAIN joined = 1 .. n + m
  BY ConcatProperties
<1>2. \A i \in 1 .. n + m : joined[i] = IF i <= n THEN a[i] ELSE b[i - n]
  BY ConcatProperties
<1> HIDE DEF n, m, joined
<1>3. \A i \in 1 .. n : joined[i] = a[i]
  BY <1>1, <1>2
<1>4. ASSUME NEW i \in 1 .. m PROVE joined[n + i] = b[i]
  <2> DEFINE k == n + i
  <2>1. k \in 1 .. n + m /\ ~(k <= n) /\ k - n = i
    BY <1>1
  <2> HIDE DEF k
  <2>2. joined[k] = b[k - n]
    BY <1>2, <2>1
  <2> QED
    BY <2>1, <2>2 DEF k
<1>5. ASSUME NEW k \in 1 .. n + m, k \notin 1 .. n PROVE \E i \in 1 .. m : k = n + i
  <2>1. k - n \in 1 .. m /\ k = n + (k - n)
    BY <1>1, <1>5
  <2> QED
    BY <2>1
<1>6. ToSet(joined) = ToSet(a) \union ToSet(b)
  <2>1. ASSUME NEW x \in ToSet(joined) PROVE x \in ToSet(a) \union ToSet(b)
    <3>1. PICK k \in 1 .. n + m : joined[k] = x
      BY <1>1 DEF ToSet
    <3>2. CASE k \in 1 .. n
      BY <1>1, <1>3, <3>1, <3>2 DEF ToSet
    <3>3. CASE k \notin 1 .. n
      <4>1. PICK i \in 1 .. m : k = n + i
        BY <1>5, <3>3
      <4> QED
        BY <1>1, <1>4, <3>1, <4>1 DEF ToSet
    <3> QED
      BY <3>2, <3>3
  <2>2. ASSUME NEW x \in ToSet(a) PROVE x \in ToSet(joined)
    <3>1. PICK i \in 1 .. n : a[i] = x
      BY <1>1 DEF ToSet
    <3>2. i \in 1 .. n + m
      BY <1>1
    <3> QED
      BY <1>1, <1>3, <3>1, <3>2 DEF ToSet
  <2>3. ASSUME NEW x \in ToSet(b) PROVE x \in ToSet(joined)
    <3>1. PICK i \in 1 .. m : b[i] = x
      BY <1>1 DEF ToSet
    <3>2. n + i \in 1 .. n + m
      BY <1>1
    <3> QED
      BY <1>1, <1>4, <3>1, <3>2 DEF ToSet
  <2> QED
    BY <2>1, <2>2, <2>3
<1> QED
  BY <1>1, <1>3, <1>4, <1>5, <1>6 DEF JoinedOf, n, m, joined

LEMMA JoinedSet ==
  ASSUME NEW S, NEW a \in Seq(S), NEW b \in Seq(S)
  PROVE  ToSet(a \o b) = ToSet(a) \union ToSet(b)
<1>1. JoinedOf(a \o b, a, b, Len(a), Len(b))
  BY JoinedIs
<1> QED
  BY <1>1 DEF JoinedOf

\* Two sequences with the same elements are the same.
LEMMA SameSeq ==
  ASSUME NEW S, NEW T, NEW a \in Seq(S), NEW b \in Seq(T), Len(a) = Len(b),
         \A k \in 1 .. Len(a) : a[k] = b[k]
  PROVE  a = b
  OBVIOUS

\* A piece of a sequence, which begins after p elements.
HoldsAt(seq, p, piece) ==
  p + Len(piece) <= Len(seq) /\ \A k \in 1 .. Len(piece) : seq[p + k] = piece[k]

LEMMA PieceIs ==
  ASSUME NEW S, NEW seq \in Seq(S), NEW T, NEW piece \in Seq(T), NEW p \in Nat,
         HoldsAt(seq, p, piece)
  PROVE  SubSeq(seq, p + 1, p + Len(piece)) = piece
<1> DEFINE m == Len(piece)
           sub == SubSeq(seq, p + 1, p + m)
<1>1. m \in Nat /\ Len(seq) \in Nat /\ p + m <= Len(seq)
  BY DEF HoldsAt
<1> HIDE DEF m
<1>2. p + 1 \in 1 .. Len(seq) + 1 /\ p + m \in p .. Len(seq)
  BY <1>1
<1>3. \A i \in p + 1 .. p + m : seq[i] \in S
  BY <1>1
<1>4. sub \in Seq(S) /\ Len(sub) = IF p + 1 <= p + m THEN (p + m) - (p + 1) + 1 ELSE 0
  BY <1>1, <1>3, SubSeqProperties
<1>5. \A i \in 1 .. (p + m) - (p + 1) + 1 : sub[i] = seq[(p + 1) + i - 1]
  BY <1>1, <1>3, SubSeqProperties
<1> HIDE DEF sub
<1>6. Len(sub) = m
  BY <1>1, <1>4
<1>7. ASSUME NEW k \in 1 .. m PROVE sub[k] = piece[k]
  <2>1. k \in 1 .. (p + m) - (p + 1) + 1 /\ (p + 1) + k - 1 = p + k
    BY <1>1
  <2> QED
    BY <1>5, <2>1 DEF HoldsAt, m
<1> QED
  BY <1>4, <1>6, <1>7, SameSeq DEF m, sub

\* One element and a sequence behind it.
LEMMA Prepended ==
  ASSUME NEW S, NEW x \in S, NEW s \in Seq(S), NEW T, NEW r \in Seq(T), Len(r) = Len(s) + 1,
         r[1] = x, \A k \in 1 .. Len(s) : r[k + 1] = s[k]
  PROVE  <<x>> \o s = r
<1>1. <<x>> \in Seq(S) /\ Len(<<x>>) = 1 /\ <<x>>[1] = x
  OBVIOUS
<1>2. <<x>> \o s \in Seq(S) /\ JoinedOf(<<x>> \o s, <<x>>, s, Len(<<x>>), Len(s))
  BY <1>1, JoinedIs
<1> DEFINE joined == <<x>> \o s
           n == Len(s)
<1>3. /\ Len(joined) = 1 + n
      /\ joined[1] = x
      /\ \A k \in 1 .. n : joined[1 + k] = s[k]
  <2>1. 1 \in 1 .. 1
    OBVIOUS
  <2> HIDE DEF n, joined
  <2> QED
    BY <1>1, <1>2, <2>1 DEF JoinedOf, joined, n
<1>4. n \in Nat
  OBVIOUS
<1> HIDE DEF joined, n
<1>5. ASSUME NEW k \in 1 .. Len(joined) PROVE joined[k] = r[k]
  <2>1. CASE k = 1
    BY <1>3, <2>1
  <2>2. CASE k # 1
    <3>1. k - 1 \in 1 .. n /\ 1 + (k - 1) = k /\ (k - 1) + 1 = k
      BY <1>3, <1>4, <2>2
    <3>2. joined[1 + (k - 1)] = s[k - 1]
      BY <1>3, <3>1
    <3>3. r[(k - 1) + 1] = s[k - 1]
      BY <3>1 DEF n
    <3> QED
      BY <3>1, <3>2, <3>3
  <2> QED
    BY <2>1, <2>2
<1>6. joined \in Seq(S) /\ Len(joined) = Len(r)
  BY <1>2, <1>3, <1>4 DEF joined, n
<1> QED
  BY <1>5, <1>6, SameSeq DEF joined

\* A recursion over the numbers up to n can be carried out.
LEMMA UnrolledExists ==
  ASSUME NEW n \in Nat, NEW V, NEW base \in V, NEW step \in [(1 .. n) \X V -> V]
  PROVE  \E f \in [0 .. n -> V] : Unrolled(n, base, step, f)
<1>1. PICK h \in [SUBSET (1 .. n) -> V] : Recurses(n, base, step, h)
  BY LeftFoldExists
<1>2. \A s \in SUBSET (1 .. n) : s # {} => Max(s) \in s
  BY MaxOf
<1>3. RecursesIn(V, n, base, step, h)
  <2>1. h[{}] = base
    BY <1>1, {} \in SUBSET (1 .. n) DEF Recurses
  <2>2. \A s \in SUBSET (1 .. n) : s # {} => h[s] = step[<<Max(s), h[s \ {Max(s)}]>>]
    BY <1>1 DEF Recurses
  <2> QED
    BY <2>1, <2>2 DEF RecursesIn
<1> QED
  BY <1>3, LeftFold

\* A scan, which goes on further behind in every step.
Scanned(n, jump, base, step, h, p) ==
  h[p] = IF jump[p] > n THEN base ELSE step[<<p, h[jump[p]]>>]

LEMMA ScanExists ==
  ASSUME NEW n \in Nat, NEW V, NEW base \in V, NEW jump \in [0 .. n -> Nat],
         \A p \in 0 .. n : jump[p] > p, NEW step \in [(0 .. n) \X V -> V]
  PROVE  \E h \in [0 .. n -> V] : \A p \in 0 .. n : Scanned(n, jump, base, step, h, p)
<1> DEFINE T == {k \in Nat : \E h \in [0 .. n -> V] :
                   \A p \in 0 .. n : p + k > n => Scanned(n, jump, base, step, h, p)}
<1>1. 0 \in T
  <2>1. [p \in 0 .. n |-> base] \in [0 .. n -> V] /\ \A p \in 0 .. n : ~(p + 0 > n)
    OBVIOUS
  <2> QED
    BY <2>1
<1>2. ASSUME NEW k \in Nat, k \in T PROVE k + 1 \in T
  <2>1. PICK h \in [0 .. n -> V] :
          \A p \in 0 .. n : p + k > n => Scanned(n, jump, base, step, h, p)
    BY <1>2
  <2>2. SUFFICES \E g \in [0 .. n -> V] :
                   \A p \in 0 .. n : p + (k + 1) > n => Scanned(n, jump, base, step, g, p)
    OBVIOUS
  <2>3. CASE k > n
    <3>1. \A p \in 0 .. n : p + k > n
      BY <2>3
    <3> QED
      BY <2>1, <3>1
  <2>4. CASE k <= n
    <3> DEFINE q == n - k
               value == IF jump[q] > n THEN base ELSE step[<<q, h[jump[q]]>>]
               g == [h EXCEPT ![q] = value]
    <3>1. q \in 0 .. n /\ \A p \in 0 .. n : p + (k + 1) > n => p = q \/ p + k > n
      BY <2>4
    <3>2. \A p \in 0 .. n : p + k > n => p # q
      BY <2>4
    <3>3. q + (k + 1) > n /\ jump[q] \in Nat /\ (~(jump[q] > n) => jump[q] \in 0 .. n)
      BY <2>4, <3>1
    <3> HIDE DEF q
    <3>4. value \in V
      BY <2>1, <3>1, <3>3
    <3> HIDE DEF value
    <3>5. /\ g \in [0 .. n -> V] /\ g[q] = value
          /\ \A p \in 0 .. n : p # q => g[p] = h[p]
      BY <3>1, <3>4
    <3> HIDE DEF g
    <3>6. ASSUME NEW p \in 0 .. n, p + (k + 1) > n
          PROVE  Scanned(n, jump, base, step, g, p)
      <4>1. jump[p] # q /\ (~(jump[p] > n) => jump[p] \in 0 .. n)
        <5>1. jump[p] \in Nat /\ jump[p] > p
          OBVIOUS
        <5> QED
          BY <2>4, <3>6, <5>1 DEF q
      <4>2. ~(jump[p] > n) => g[jump[p]] = h[jump[p]]
        BY <3>5, <4>1
      <4>3. CASE p = q
        BY <3>5, <4>2, <4>3 DEF Scanned, value
      <4>4. CASE p # q
        <5>1. g[p] = h[p] /\ Scanned(n, jump, base, step, h, p)
          BY <2>1, <3>1, <3>5, <3>6, <4>4
        <5> QED
          BY <4>2, <5>1 DEF Scanned
      <4> QED
        BY <4>3, <4>4
    <3> QED
      BY <3>5, <3>6
  <2>5. k > n \/ k <= n
    OBVIOUS
  <2> HIDE DEF T
  <2> QED
    BY <2>3, <2>4, <2>5
<1>3. \A k \in Nat : k \in T
  <2> HIDE DEF T
  <2> QED
    BY <1>1, <1>2, Induction
<1>4. n + 1 \in T /\ \A p \in 0 .. n : p + (n + 1) > n
  <2> HIDE DEF T
  <2> QED
    BY <1>3
<1> QED
  BY <1>4

\* One sequence behind the other: `f' has the first i of them.
Flattened(f, seqs, n) ==
  f[1] = seqs[1] /\ \A i \in 2 .. n : f[i] = f[i - 1] \o seqs[i]

LEMMA FlattenIs ==
  ASSUME NEW S, NEW n \in Nat \ {0}, NEW seqs \in [1 .. n -> Seq(S)]
  PROVE  \E f \in [1 .. n -> Seq(S)] : Flattened(f, seqs, n) /\ f[n] = FlattenSeq(seqs)
<1> DEFINE step == [e \in (1 .. n) \X Seq(S) |->
                      IF e[1] = 1 THEN seqs[e[1]] ELSE e[2] \o seqs[e[1]]]
           Eq(h) == h = [i \in 1 .. n |-> IF i = 1 THEN seqs[i] ELSE h[i - 1] \o seqs[i]]
           it == CHOOSE h : Eq(h)
<1>1. Len(seqs) = n /\ \A i \in 1 .. n : seqs[i] \in Seq(S)
  OBVIOUS
<1>2. step \in [(1 .. n) \X Seq(S) -> Seq(S)]
  <2>1. ASSUME NEW i \in 1 .. n, NEW q \in Seq(S)
        PROVE  (IF i = 1 THEN seqs[i] ELSE q \o seqs[i]) \in Seq(S)
    BY <1>1, ConcatProperties
  <2> QED
    BY <2>1
<1>3. \A i \in 1 .. n, q \in Seq(S) : step[<<i, q>>] = IF i = 1 THEN seqs[i] ELSE q \o seqs[i]
  OBVIOUS
<1> HIDE DEF step
<1>4. \E h : Eq(h)
  <2>1. <<>> \in Seq(S) /\ n \in Nat
    OBVIOUS
  <2>2. PICK f \in [0 .. n -> Seq(S)] : Unrolled(n, <<>>, step, f)
    BY <1>2, <2>1, UnrolledExists
  <2> DEFINE h == [i \in 1 .. n |-> f[i]]
  <2>3. ASSUME NEW i \in 1 .. n
        PROVE  h[i] = IF i = 1 THEN seqs[i] ELSE h[i - 1] \o seqs[i]
    <3>1. h[i] = step[<<i, f[i - 1]>>] /\ i - 1 \in 0 .. n
      BY <2>2 DEF Unrolled
    <3>2. f[i - 1] \in Seq(S)
      BY <2>2, <3>1
    <3>3. h[i] = IF i = 1 THEN seqs[i] ELSE f[i - 1] \o seqs[i]
      BY <1>3, <3>1, <3>2
    <3>4. i # 1 => h[i - 1] = f[i - 1]
      OBVIOUS
    <3> HIDE DEF h
    <3> QED
      BY <3>3, <3>4
  <2>4. h = [i \in 1 .. n |-> h[i]]
    OBVIOUS
  <2> HIDE DEF h
  <2>5. Eq(h)
    BY <2>3, <2>4
  <2> HIDE DEF Eq
  <2> QED
    BY <2>5
<1>5. Eq(it)
  <2> HIDE DEF Eq
  <2> QED
    BY <1>4
<1>6. FlattenSeq(seqs) = it[n]
  BY <1>1 DEF FlattenSeq
<1> HIDE DEF it
<1>7. \A i \in 1 .. n : it[i] = IF i = 1 THEN seqs[i] ELSE it[i - 1] \o seqs[i]
  BY <1>5
<1>8. it = [i \in 1 .. n |-> it[i]]
  BY <1>5
<1> HIDE DEF Eq
<1> DEFINE T == {k \in Nat : k + 1 <= n => it[k + 1] \in Seq(S)}
<1>9. \A k \in Nat : k \in T
  <2>1. 0 \in T
    BY <1>1, <1>7, 1 \in 1 .. n
  <2>2. ASSUME NEW k \in Nat, k \in T PROVE k + 1 \in T
    <3> DEFINE m == k + 1 + 1
    <3>1. SUFFICES ASSUME m <= n PROVE it[m] \in Seq(S)
      OBVIOUS
    <3>2. m \in 1 .. n /\ m - 1 = k + 1 /\ m # 1 /\ k + 1 <= n
      BY <3>1
    <3> HIDE DEF m
    <3>3. it[m - 1] \in Seq(S)
      BY <2>2, <3>2
    <3>4. it[m] = it[m - 1] \o seqs[m] /\ seqs[m] \in Seq(S)
      BY <1>1, <1>7, <3>2
    <3> QED
      BY <3>3, <3>4, ConcatProperties
  <2> HIDE DEF T
  <2> QED
    BY <2>1, <2>2, Induction
<1>10. \A i \in 1 .. n : it[i] \in Seq(S)
  <2> SUFFICES ASSUME NEW i \in 1 .. n PROVE it[i] \in Seq(S)
    OBVIOUS
  <2>1. i - 1 \in Nat /\ i - 1 + 1 = i
    OBVIOUS
  <2>2. i - 1 \in T
    BY <1>9, <2>1
  <2> QED
    BY <2>1, <2>2
<1>11. it \in [1 .. n -> Seq(S)]
  BY <1>8, <1>10
<1>12. Flattened(it, seqs, n)
  <2>1. 1 \in 1 .. n /\ \A i \in 2 .. n : i \in 1 .. n /\ i # 1
    OBVIOUS
  <2>2. it[1] = seqs[1]
    BY <1>7, <2>1
  <2>3. \A i \in 2 .. n : it[i] = it[i - 1] \o seqs[i]
    BY <1>7, <2>1
  <2> QED
    BY <2>2, <2>3 DEF Flattened
<1> QED
  BY <1>6, <1>11, <1>12

\* Where each of the sequences is when they stand one behind the other.
FlatOf(flat, seqs, lens, n) ==
  /\ Len(flat) = SumOf(lens, 1 .. n)
  /\ \A i \in 1 .. n : HoldsAt(flat, SumOf(lens, 1 .. i - 1), seqs[i])

LEMMA FlatIs ==
  ASSUME NEW S, NEW n \in Nat \ {0}, NEW seqs \in [1 .. n -> Seq(S)], NEW lens,
         \A i \in 1 .. n : lens[i] = Len(seqs[i])
  PROVE  FlattenSeq(seqs) \in Seq(S) /\ FlatOf(FlattenSeq(seqs), seqs, lens, n)
<1>1. PICK f \in [1 .. n -> Seq(S)] : Flattened(f, seqs, n) /\ f[n] = FlattenSeq(seqs)
  BY FlattenIs
<1> DEFINE at(i) == SumOf(lens, 1 .. i)
           T == {j \in Nat : j + 1 <= n => FlatOf(f[j + 1], seqs, lens, j + 1)}
<1>2. /\ \A i \in 1 .. n : seqs[i] \in Seq(S) /\ lens[i] \in Nat /\ lens[i] = Len(seqs[i])
      /\ \A i \in 1 .. n : f[i] \in Seq(S) /\ Len(f[i]) \in Nat
  BY <1>1
<1>3. /\ at(0) = 0 /\ \A i \in 0 .. n : at(i) \in Nat
      /\ \A i \in 1 .. n : at(i) = at(i - 1) + lens[i]
  BY <1>2, SumPrefix
<1>4. 0 \in T
  <2>1. 1 \in 1 .. n /\ f[1] = seqs[1] /\ 1 - 1 = 0 /\ 0 + 1 = 1
    BY <1>1 DEF Flattened
  <2>2. at(1) = Len(seqs[1]) /\ Len(seqs[1]) \in Nat
    <3>1. at(1) = at(0) + lens[1] /\ at(0) = 0
      <4> HIDE DEF at
      <4> QED
        BY <1>3, <2>1
    <3>2. lens[1] = Len(seqs[1]) /\ lens[1] \in Nat
      BY <1>2, <2>1
    <3> HIDE DEF at
    <3> QED
      BY <3>1, <3>2
  <2>3. HoldsAt(f[1], 0, seqs[1])
    BY <1>2, <2>1, <2>2 DEF HoldsAt
  <2>4. HoldsAt(f[1], at(1 - 1), seqs[1])
    BY <1>3, <2>1, <2>3
  <2> HIDE DEF at
  <2>5. Len(f[1]) = at(1)
    BY <2>1, <2>2
  <2>6. FlatOf(f[1], seqs, lens, 1)
    BY <2>4, <2>5 DEF FlatOf, at
  <2> QED
    BY <2>1, <2>6
<1>5. ASSUME NEW j \in Nat, j \in T PROVE j + 1 \in T
  <2> DEFINE m == j + 1
             flat == f[m]
  <2>0. SUFFICES ASSUME m + 1 <= n PROVE FlatOf(f[m + 1], seqs, lens, m + 1)
    OBVIOUS
  <2>1. m \in 1 .. n /\ m + 1 \in 2 .. n /\ m + 1 \in 1 .. n /\ (m + 1) - 1 = m
    BY <2>0
  <2>2. FlatOf(flat, seqs, lens, m)
    BY <1>5, <2>1
  <2> HIDE DEF T, m
  <2>3. f[m + 1] = flat \o seqs[m + 1]
    BY <1>1, <2>1 DEF Flattened
  <2>4. /\ Len(f[m + 1]) = Len(flat) + lens[m + 1]
        /\ \A k \in 1 .. Len(flat) : f[m + 1][k] = flat[k]
        /\ \A k \in 1 .. lens[m + 1] : f[m + 1][Len(flat) + k] = seqs[m + 1][k]
    <3>1. JoinedOf(flat \o seqs[m + 1], flat, seqs[m + 1], Len(flat), Len(seqs[m + 1]))
      BY <1>2, <2>1, JoinedIs
    <3> QED
      BY <1>2, <2>1, <2>3, <3>1 DEF JoinedOf
  <2>5. Len(flat) = at(m) /\ at(m) \in Nat /\ at(m + 1) = at(m) + lens[m + 1]
        /\ lens[m + 1] \in Nat
    BY <1>2, <1>3, <2>1, <2>2 DEF FlatOf
  <2> HIDE DEF at
  <2>6. Len(f[m + 1]) = at(m + 1)
    BY <2>4, <2>5
  <2>7. ASSUME NEW i \in 1 .. m + 1 PROVE HoldsAt(f[m + 1], at(i - 1), seqs[i])
    <3>1. CASE i = m + 1
      <4>1. Len(seqs[i]) = lens[m + 1] /\ at(i - 1) = Len(flat)
        BY <1>2, <2>1, <2>5, <3>1
      <4>2. at(i - 1) + Len(seqs[i]) <= Len(f[m + 1])
        BY <2>4, <2>5, <4>1
      <4> QED
        BY <2>4, <3>1, <4>1, <4>2 DEF HoldsAt
    <3>2. CASE i # m + 1
      <4>1. i \in 1 .. m /\ i \in 1 .. n /\ i - 1 \in 0 .. n
        BY <2>1, <3>2
      <4>2. HoldsAt(flat, at(i - 1), seqs[i])
        BY <2>2, <4>1 DEF FlatOf, at
      <4>3. at(i - 1) \in Nat /\ Len(seqs[i]) \in Nat /\ Len(flat) \in Nat
            /\ at(i - 1) + Len(seqs[i]) <= Len(flat)
        BY <1>2, <1>3, <2>5, <4>1, <4>2 DEF HoldsAt, at
      <4>4. at(i - 1) + Len(seqs[i]) <= Len(f[m + 1])
        BY <2>4, <2>5, <4>3
      <4>5. ASSUME NEW k \in 1 .. Len(seqs[i])
            PROVE  f[m + 1][at(i - 1) + k] = seqs[i][k]
        <5>1. at(i - 1) + k \in 1 .. Len(flat)
          <6> DEFINE a == at(i - 1)
                     b == Len(seqs[i])
                     c == Len(flat)
          <6>1. a \in Nat /\ b \in Nat /\ c \in Nat /\ a + b <= c /\ k \in 1 .. b
            BY <4>3
          <6> HIDE DEF a, b, c
          <6>2. a + k \in 1 .. c
            BY <6>1
          <6> QED
            BY <6>2 DEF a, c
        <5> QED
          BY <2>4, <4>2, <5>1 DEF HoldsAt
      <4> QED
        BY <4>4, <4>5 DEF HoldsAt
    <3> QED
      BY <3>1, <3>2
  <2> QED
    BY <2>6, <2>7 DEF FlatOf, at
<1>6. \A j \in Nat : j \in T
  <2> HIDE DEF T
  <2> QED
    BY <1>4, <1>5, Induction
<1>7. n - 1 \in T /\ (n - 1) + 1 = n
  <2> HIDE DEF T
  <2> QED
    BY <1>6
<1>8. FlatOf(f[n], seqs, lens, n)
  BY <1>7
<1> QED
  BY <1>1, <1>2, <1>8
=============================================================================
