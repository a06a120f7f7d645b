---------------------------- MODULE DeviceProofs ----------------------------
(***************************************************************************)
(* Proofs about the parts of the configuration that keep no state: what    *)
(* the parser makes of a GSDML file, what the dialog makes of a rack, and  *)
(* what becomes of a rack in the frames, for files and racks of any size.  *)
(***************************************************************************)
EXTENDS ArRequest, SequenceProofs

-----------------------------------------------------------------------------
(* Lists. *)

\* Only keeps the elements that are in the set, in their order: `p' has where in the
\* sequence each of them stood.
OnlyOf(only, seq, n, good, p) ==
  /\ p \in [1 .. Len(only) -> 1 .. n]
  /\ \A k \in 1 .. Len(only) : only[k] = seq[p[k]] /\ seq[p[k]] \in good
  /\ \A j, k \in 1 .. Len(only) : j < k => p[j] < p[k]
  /\ \A i \in 1 .. n : seq[i] \in good => \E k \in 1 .. Len(only) : p[k] = i

OnlySteps(f, seq, good) ==
  /\ f[0] = <<>>
  /\ \A i \in 1 .. Len(seq) :
       f[i] = IF seq[i] \in good THEN Append(f[i - 1], seq[i]) ELSE f[i - 1]

LEMMA OnlyFold ==
  ASSUME NEW S, NEW seq \in Seq(S), NEW good
  PROVE  \E f \in [0 .. Len(seq) -> Seq(S)] :
           OnlySteps(f, seq, good) /\ f[Len(seq)] = Only(seq, good)
<1> DEFINE n == Len(seq)
           step == [e \in (1 .. n) \X Seq(S) |->
                      IF seq[e[1]] \in good THEN Append(e[2], seq[e[1]]) ELSE e[2]]
           Eq(h) == h = [s \in SUBSET DOMAIN seq |->
                           IF s = {} THEN <<>>
                           ELSE IF seq[Max(s)] \in good
                                THEN Append(h[s \ {Max(s)}], seq[Max(s)])
                                ELSE h[s \ {Max(s)}]]
           it == CHOOSE h : Eq(h)
<1>1. n \in Nat /\ DOMAIN seq = 1 .. n /\ \A i \in 1 .. n : seq[i] \in S
  OBVIOUS
<1>2. step \in [(1 .. n) \X Seq(S) -> Seq(S)]
  <2>1. ASSUME NEW i \in 1 .. n, NEW q \in Seq(S)
        PROVE  (IF seq[i] \in good THEN Append(q, seq[i]) ELSE q) \in Seq(S)
    BY <1>1
  <2> QED
    BY <2>1
<1>3. <<>> \in Seq(S)
  OBVIOUS
<1>4. \A s \in SUBSET (1 .. n) : s # {} => Max(s) \in s
  <2> HIDE DEF n
  <2> QED
    BY <1>1, MaxOf
<1>5. \A i \in 1 .. n, q \in Seq(S) :
        step[<<i, q>>] = IF seq[i] \in good THEN Append(q, seq[i]) ELSE q
  OBVIOUS
<1>6. \E h : Eq(h)
  <2>1. PICK h \in [SUBSET (1 .. n) -> Seq(S)] :
          Recurses(n, <<>>, step, h)
    <3>1. n \in Nat
      BY <1>1
    <3> HIDE DEF step, n, it, Eq
    <3> QED
      BY <1>2, <1>3, <3>1, LeftFoldExists
  <2>2. ASSUME NEW s \in SUBSET (1 .. n)
        PROVE  h[s] = IF s = {} THEN <<>>
                      ELSE IF seq[Max(s)] \in good
                           THEN Append(h[s \ {Max(s)}], seq[Max(s)])
                           ELSE h[s \ {Max(s)}]
    <3>1. CASE s = {}
      BY <2>1, <3>1 DEF Recurses
    <3>2. CASE s # {}
      <4>1. Max(s) \in 1 .. n /\ h[s \ {Max(s)}] \in Seq(S)
        BY <1>4, <2>1, <3>2
      <4>2. h[s] = step[<<Max(s), h[s \ {Max(s)}]>>]
        BY <2>1, <3>2 DEF Recurses
      <4> HIDE DEF step
      <4> QED
        BY <1>5, <3>2, <4>1, <4>2
    <3> QED
      BY <3>1, <3>2
  <2> HIDE DEF step, n, it
  <2>3. Eq(h)
    BY <1>1, <2>1, <2>2
  <2> QED
    BY <2>3
<1>7. Eq(it)
  BY <1>6
<1>8. Only(seq, good) = it[1 .. n]
  BY <1>1 DEF Only, FoldLeft, MapThenFoldSet
<1>9. RecursesIn(Seq(S), n, <<>>, step, it)
  <2>1. n \in Nat
    BY <1>1
  <2> HIDE DEF it, step, n
  <2>2. it[{}] = <<>>
    BY <1>7
  <2>3. ASSUME NEW s \in SUBSET (1 .. n), s # {}, it[s \ {Max(s)}] \in Seq(S)
        PROVE  it[s] = step[<<Max(s), it[s \ {Max(s)}]>>]
    <3>1. it[s] = IF seq[Max(s)] \in good THEN Append(it[s \ {Max(s)}], seq[Max(s)])
                  ELSE it[s \ {Max(s)}]
      BY <1>1, <1>7, <2>3
    <3>2. Max(s) \in 1 .. n
      BY <1>4, <2>3
    <3> QED
      BY <1>5, <2>3, <3>1, <3>2
  <2> QED
    BY <1>2, <1>3, <2>1, <2>2, <2>3 DEF RecursesIn
<1> HIDE DEF it, step, Eq
<1>10. PICK f \in [0 .. n -> Seq(S)] : Unrolled(n, <<>>, step, f) /\ f[n] = it[1 .. n]
  <2> HIDE DEF n
  <2> QED
    BY <1>9, LeftFold
<1>11. \A i \in 1 .. n : f[i - 1] \in Seq(S)
  BY <1>1, <1>10
<1>12. OnlySteps(f, seq, good)
  BY <1>5, <1>10, <1>11 DEF OnlySteps, Unrolled
<1> QED
  BY <1>8, <1>10, <1>12

LEMMA OnlyIs ==
  ASSUME NEW S, NEW seq \in Seq(S), NEW good
  PROVE  /\ Only(seq, good) \in Seq(S)
         /\ \E p : OnlyOf(Only(seq, good), seq, Len(seq), good, p)
<1>1. PICK f \in [0 .. Len(seq) -> Seq(S)] :
        OnlySteps(f, seq, good) /\ f[Len(seq)] = Only(seq, good)
  BY OnlyFold
<1> DEFINE n == Len(seq)
<1>2. /\ n \in Nat /\ \A i \in 1 .. n : seq[i] \in S
      /\ f \in [0 .. n -> Seq(S)] /\ f[0] = <<>> /\ f[n] = Only(seq, good)
      /\ \A i \in 1 .. n :
           f[i] = IF seq[i] \in good THEN Append(f[i - 1], seq[i]) ELSE f[i - 1]
  BY <1>1 DEF OnlySteps
<1> HIDE DEF n
<1> DEFINE T == {i \in Nat : i <= n => \E p : OnlyOf(f[i], seq, i, good, p)}
<1>3. 0 \in T
  <2>1. OnlyOf(f[0], seq, 0, good, <<>>)
    BY <1>2 DEF OnlyOf
  <2> QED
    BY <2>1
<1>4. ASSUME NEW i \in Nat, i \in T PROVE i + 1 \in T
  <2>1. SUFFICES ASSUME i + 1 <= n PROVE \E p : OnlyOf(f[i + 1], seq, i + 1, good, p)
    OBVIOUS
  <2>2. /\ i + 1 \in 1 .. n /\ (i + 1) - 1 = i /\ i \in 0 .. n
        /\ f[i] \in Seq(S) /\ seq[i + 1] \in S
    BY <1>2, <2>1
  <2>3. PICK p : OnlyOf(f[i], seq, i, good, p)
    BY <1>4, <2>2
  <2>4. f[i + 1] = IF seq[i + 1] \in good THEN Append(f[i], seq[i + 1]) ELSE f[i]
    BY <1>2, <2>2
  <2>5. CASE seq[i + 1] \notin good
    <3>1. OnlyOf(f[i], seq, i + 1, good, p)
      BY <2>2, <2>3, <2>5 DEF OnlyOf
    <3> QED
      BY <2>4, <2>5, <3>1
  <2>6. CASE seq[i + 1] \in good
    <3> DEFINE m == Len(f[i])
               q == [k \in 1 .. m + 1 |-> IF k = m + 1 THEN i + 1 ELSE p[k]]
    <3>1. /\ m \in Nat /\ Len(f[i + 1]) = m + 1
          /\ \A k \in 1 .. m : f[i + 1][k] = f[i][k]
          /\ f[i + 1][m + 1] = seq[i + 1]
      BY <2>2, <2>4, <2>6
    <3>2. /\ p \in [1 .. m -> 1 .. i]
          /\ \A k \in 1 .. m : f[i][k] = seq[p[k]] /\ seq[p[k]] \in good
          /\ \A j, k \in 1 .. m : j < k => p[j] < p[k]
          /\ \A j \in 1 .. i : seq[j] \in good => \E k \in 1 .. m : p[k] = j
      BY <2>3 DEF OnlyOf
    <3> HIDE DEF m, T
    <3>3. \A k \in 1 .. m : q[k] = p[k] /\ p[k] \in 1 .. i
      BY <3>1, <3>2
    <3>4. q[m + 1] = i + 1
      BY <3>1
    <3>5. q \in [1 .. m + 1 -> 1 .. i + 1]
      BY <3>1, <3>2
    <3> HIDE DEF q
    <3>0. \A k \in 1 .. m + 1 : k = m + 1 \/ k \in 1 .. m
      BY <3>1
    <3>6. ASSUME NEW k \in 1 .. m + 1
          PROVE  f[i + 1][k] = seq[q[k]] /\ seq[q[k]] \in good
      <4>1. CASE k = m + 1
        BY <2>6, <3>1, <3>4, <4>1
      <4>2. CASE k \in 1 .. m
        BY <3>1, <3>2, <3>3, <4>2
      <4> QED
        BY <3>0, <4>1, <4>2
    <3>7. ASSUME NEW j \in 1 .. m + 1, NEW k \in 1 .. m + 1, j < k PROVE q[j] < q[k]
      <4>1. j \in 1 .. m /\ q[j] = p[j] /\ p[j] \in 1 .. i
        BY <3>1, <3>3, <3>7
      <4>2. CASE k = m + 1
        BY <3>4, <4>1, <4>2
      <4>3. CASE k \in 1 .. m
        BY <3>2, <3>3, <3>7, <4>1, <4>3
      <4> QED
        BY <3>0, <4>2, <4>3
    <3>8. ASSUME NEW j \in 1 .. i + 1, seq[j] \in good PROVE \E k \in 1 .. m + 1 : q[k] = j
      <4>1. CASE j = i + 1
        BY <3>1, <3>4, <4>1
      <4>2. CASE j \in 1 .. i
        <5>1. PICK k \in 1 .. m : p[k] = j
          BY <3>2, <3>8, <4>2
        <5>2. k \in 1 .. m + 1 /\ q[k] = j
          BY <3>1, <3>3, <5>1
        <5> QED
          BY <5>2
      <4> QED
        BY <4>1, <4>2
    <3>9. OnlyOf(f[i + 1], seq, i + 1, good, q)
      BY <3>1, <3>5, <3>6, <3>7, <3>8 DEF OnlyOf
    <3> QED
      BY <3>9
  <2> QED
    BY <2>5, <2>6
<1>5. \A i \in Nat : i \in T
  <2> HIDE DEF T
  <2> QED
    BY <1>3, <1>4, Induction
<1>6. \E p : OnlyOf(f[n], seq, n, good, p)
  BY <1>2, <1>5
<1>7. f[n] \in Seq(S)
  BY <1>2
<1> QED
  BY <1>2, <1>6, <1>7 DEF n

LEMMA OnlyElements ==
  ASSUME NEW S, NEW seq \in Seq(S), NEW good
  PROVE  /\ Only(seq, good) \in Seq(S)
         /\ DOMAIN Only(seq, good) = 1 .. Len(Only(seq, good))
         /\ \A k \in DOMAIN Only(seq, good) :
              Only(seq, good)[k] \in good /\ Only(seq, good)[k] \in ToSet(seq)
         /\ IsInjective(seq) => IsInjective(Only(seq, good))
<1> DEFINE only == Only(seq, good)
<1>1. PICK p : OnlyOf(only, seq, Len(seq), good, p)
  BY OnlyIs
<1>2. only \in Seq(S)
  BY OnlyIs
<1> HIDE DEF only
<1>3. DOMAIN only = 1 .. Len(only) /\ DOMAIN seq = 1 .. Len(seq) /\ Len(only) \in Nat
  BY <1>2
<1>4. \A k \in 1 .. Len(only) : p[k] \in 1 .. Len(seq) /\ only[k] = seq[p[k]] /\ only[k] \in good
  BY <1>1 DEF OnlyOf
<1>5. \A k \in DOMAIN only : only[k] \in good /\ only[k] \in ToSet(seq)
  BY <1>3, <1>4 DEF ToSet
<1>6. ASSUME IsInjective(seq) PROVE IsInjective(only)
  <2>1. ASSUME NEW j \in 1 .. Len(only), NEW k \in 1 .. Len(only), only[j] = only[k]
        PROVE  j = k
    <3>1. p[j] = p[k] /\ p[j] \in Nat
      BY <1>3, <1>4, <1>6, <2>1 DEF IsInjective
    <3>2. ~(j < k) /\ ~(k < j)
      BY <1>1, <3>1 DEF OnlyOf
    <3> QED
      BY <1>3, <3>2
  <2> QED
    BY <1>3, <2>1 DEF IsInjective
<1> QED
  BY <1>2, <1>3, <1>5, <1>6 DEF only

\* The submodules of a module: each of those referred to, once.
Has(seen, sub) == \E i \in DOMAIN seen : seen[i].id = sub.id

OnceSteps(f, subs) ==
  /\ f[0] = <<>>
  /\ \A i \in 1 .. Len(subs) :
       f[i] = IF Has(f[i - 1], subs[i]) THEN f[i - 1] ELSE Append(f[i - 1], subs[i])

LEMMA OnceFold ==
  ASSUME NEW S, NEW subs \in Seq(S)
  PROVE  \E f \in [0 .. Len(subs) -> Seq(S)] : OnceSteps(f, subs) /\ f[Len(subs)] = Once(subs)
<1> DEFINE n == Len(subs)
           step == [e \in (1 .. n) \X Seq(S) |->
                      IF Has(e[2], subs[e[1]]) THEN e[2] ELSE Append(e[2], subs[e[1]])]
           Eq(h) == h = [s \in SUBSET DOMAIN subs |->
                           IF s = {} THEN <<>>
                           ELSE IF Has(h[s \ {Max(s)}], subs[Max(s)])
                                THEN h[s \ {Max(s)}]
                                ELSE Append(h[s \ {Max(s)}], subs[Max(s)])]
           it == CHOOSE h : Eq(h)
<1>1. n \in Nat /\ DOMAIN subs = 1 .. n /\ \A i \in 1 .. n : subs[i] \in S
  OBVIOUS
<1>2. step \in [(1 .. n) \X Seq(S) -> Seq(S)]
  <2>1. ASSUME NEW i \in 1 .. n, NEW q \in Seq(S)
        PROVE  (IF Has(q, subs[i]) THEN q ELSE Append(q, subs[i])) \in Seq(S)
    BY <1>1
  <2> QED
    BY <2>1
<1>3. <<>> \in Seq(S)
  OBVIOUS
<1>4. \A s \in SUBSET (1 .. n) : s # {} => Max(s) \in s
  <2> HIDE DEF n
  <2> QED
    BY <1>1, MaxOf
<1>5. \A i \in 1 .. n, q \in Seq(S) :
        step[<<i, q>>] = IF Has(q, subs[i]) THEN q ELSE Append(q, subs[i])
  OBVIOUS
<1>6. \E h : Eq(h)
  <2>1. PICK h \in [SUBSET (1 .. n) -> Seq(S)] : Recurses(n, <<>>, step, h)
    <3>1. n \in Nat
      BY <1>1
    <3> HIDE DEF step, n, it, Eq
    <3> QED
      BY <1>2, <1>3, <3>1, LeftFoldExists
  <2>2. ASSUME NEW s \in SUBSET (1 .. n)
        PROVE  h[s] = IF s = {} THEN <<>>
                      ELSE IF Has(h[s \ {Max(s)}], subs[Max(s)])
                           THEN h[s \ {Max(s)}]
                           ELSE Append(h[s \ {Max(s)}], subs[Max(s)])
    <3>1. CASE s = {}
      BY <2>1, <3>1 DEF Recurses
    <3>2. CASE s # {}
      <4>1. Max(s) \in 1 .. n /\ h[s \ {Max(s)}] \in Seq(S)
        BY <1>4, <2>1, <3>2
      <4>2. h[s] = step[<<Max(s), h[s \ {Max(s)}]>>]
        BY <2>1, <3>2 DEF Recurses
      <4> HIDE DEF step
      <4> QED
        BY <1>5, <3>2, <4>1, <4>2
    <3> QED
      BY <3>1, <3>2
  <2> HIDE DEF step, n, it
  <2>3. Eq(h)
    BY <1>1, <2>1, <2>2
  <2> QED
    BY <2>3
<1>7. Eq(it)
  BY <1>6
<1>8. Once(subs) = it[1 .. n]
  BY <1>1 DEF Once, FoldLeft, MapThenFoldSet, Has
<1>9. RecursesIn(Seq(S), n, <<>>, step, it)
  <2>1. n \in Nat
    BY <1>1
  <2> HIDE DEF it, step, n
  <2>2. it[{}] = <<>>
    BY <1>7
  <2>3. ASSUME NEW s \in SUBSET (1 .. n), s # {}, it[s \ {Max(s)}] \in Seq(S)
        PROVE  it[s] = step[<<Max(s), it[s \ {Max(s)}]>>]
    <3>1. it[s] = IF Has(it[s \ {Max(s)}], subs[Max(s)])
                  THEN it[s \ {Max(s)}]
                  ELSE Append(it[s \ {Max(s)}], subs[Max(s)])
      BY <1>1, <1>7, <2>3
    <3>2. Max(s) \in 1 .. n
      BY <1>4, <2>3
    <3> QED
      BY <1>5, <2>3, <3>1, <3>2
  <2> QED
    BY <1>2, <1>3, <2>1, <2>2, <2>3 DEF RecursesIn
<1> HIDE DEF it, step, Eq
<1>10. PICK f \in [0 .. n -> Seq(S)] : Unrolled(n, <<>>, step, f) /\ f[n] = it[1 .. n]
  <2> HIDE DEF n
  <2> QED
    BY <1>9, LeftFold
<1>11. \A i \in 1 .. n : f[i - 1] \in Seq(S)
  BY <1>1, <1>10
<1>12. OnceSteps(f, subs)
  BY <1>5, <1>10, <1>11 DEF OnceSteps, Unrolled
<1> QED
  BY <1>8, <1>10, <1>12

\* `once' has an element for each id in the first `n' of `subs', and one only.
OnceOf(once, subs, n) ==
  /\ \A k \in 1 .. Len(once) : \E i \in 1 .. n : once[k] = subs[i]
  /\ \A i \in 1 .. n : \E k \in 1 .. Len(once) : once[k].id = subs[i].id
  /\ \A j, k \in 1 .. Len(once) : once[j].id = once[k].id => j = k

LEMMA OnceIs ==
  ASSUME NEW S, NEW subs \in Seq(S)
  PROVE  Once(subs) \in Seq(S) /\ OnceOf(Once(subs), subs, Len(subs))
<1>1. PICK f \in [0 .. Len(subs) -> Seq(S)] :
        OnceSteps(f, subs) /\ f[Len(subs)] = Once(subs)
  BY OnceFold
<1> DEFINE n == Len(subs)
<1>2. /\ n \in Nat /\ \A i \in 1 .. n : subs[i] \in S
      /\ f \in [0 .. n -> Seq(S)] /\ f[0] = <<>> /\ f[n] = Once(subs)
      /\ \A i \in 1 .. n :
           f[i] = IF Has(f[i - 1], subs[i]) THEN f[i - 1] ELSE Append(f[i - 1], subs[i])
  BY <1>1 DEF OnceSteps
<1> HIDE DEF n
<1> DEFINE T == {i \in Nat : i <= n => OnceOf(f[i], subs, i)}
<1>3. 0 \in T
  BY <1>2 DEF OnceOf
<1>4. ASSUME NEW i \in Nat, i \in T PROVE i + 1 \in T
  <2>1. SUFFICES ASSUME i + 1 <= n PROVE OnceOf(f[i + 1], subs, i + 1)
    OBVIOUS
  <2>2. /\ i + 1 \in 1 .. n /\ (i + 1) - 1 = i /\ i \in 0 .. n
        /\ f[i] \in Seq(S) /\ subs[i + 1] \in S
    <3>1. n \in Nat
      BY <1>2
    <3>2. i + 1 \in 1 .. n /\ (i + 1) - 1 = i /\ i \in 0 .. n
      BY <2>1, <3>1
    <3> QED
      BY <1>2, <3>2
  <2>3. OnceOf(f[i], subs, i)
    BY <1>4, <2>2
  <2>4. f[i + 1] = IF Has(f[i], subs[i + 1]) THEN f[i] ELSE Append(f[i], subs[i + 1])
    BY <1>2, <2>2
  <2>5. CASE Has(f[i], subs[i + 1])
    <3> HIDE DEF T
    <3>1. f[i + 1] = f[i] /\ DOMAIN f[i] = 1 .. Len(f[i])
      BY <2>2, <2>4, <2>5
    <3>2. PICK k \in 1 .. Len(f[i]) : f[i][k].id = subs[i + 1].id
      BY <2>5, <3>1 DEF Has
    <3>3. \A j \in 1 .. i + 1 : j = i + 1 \/ j \in 1 .. i
      OBVIOUS
    <3>4. \A j \in 1 .. i : j \in 1 .. i + 1
      OBVIOUS
    <3>5. \A j \in 1 .. Len(f[i]) : \E l \in 1 .. i + 1 : f[i][j] = subs[l]
      BY <2>3, <3>4 DEF OnceOf
    <3>6. ASSUME NEW j \in 1 .. i + 1
          PROVE  \E l \in 1 .. Len(f[i]) : f[i][l].id = subs[j].id
      BY <2>3, <3>2, <3>3 DEF OnceOf
    <3>7. OnceOf(f[i], subs, i + 1)
      BY <2>3, <3>5, <3>6 DEF OnceOf
    <3> QED
      BY <3>1, <3>7
  <2>6. CASE ~Has(f[i], subs[i + 1])
    <3> DEFINE m == Len(f[i])
    <3>1. /\ m \in Nat /\ Len(f[i + 1]) = m + 1
          /\ \A k \in 1 .. m : f[i + 1][k] = f[i][k]
          /\ f[i + 1][m + 1] = subs[i + 1]
      BY <2>2, <2>4, <2>6
    <3>2. /\ \A k \in 1 .. m : \E j \in 1 .. i : f[i][k] = subs[j]
          /\ \A j \in 1 .. i : \E k \in 1 .. m : f[i][k].id = subs[j].id
          /\ \A j, k \in 1 .. m : f[i][j].id = f[i][k].id => j = k
      BY <2>3 DEF OnceOf
    <3>3. \A k \in 1 .. m : f[i][k].id # subs[i + 1].id
      BY <2>2, <2>6 DEF Has
    <3> HIDE DEF m, T
    <3>4. \A k \in 1 .. m + 1 : k = m + 1 \/ k \in 1 .. m
      BY <3>1
    <3>5. \A j \in 1 .. i + 1 : j = i + 1 \/ j \in 1 .. i
      OBVIOUS
    <3>6. ASSUME NEW k \in 1 .. m + 1 PROVE \E j \in 1 .. i + 1 : f[i + 1][k] = subs[j]
      <4>1. \A j \in 1 .. i : j \in 1 .. i + 1
        OBVIOUS
      <4>2. i + 1 \in 1 .. i + 1
        OBVIOUS
      <4>3. CASE k = m + 1
        BY <3>1, <4>2, <4>3
      <4>4. CASE k \in 1 .. m
        <5>1. PICK j \in 1 .. i : f[i][k] = subs[j]
          BY <3>2, <4>4
        <5> QED
          BY <3>1, <4>1, <4>4, <5>1
      <4> QED
        BY <3>4, <4>3, <4>4
    <3>7. ASSUME NEW j \in 1 .. i + 1 PROVE \E k \in 1 .. m + 1 : f[i + 1][k].id = subs[j].id
      <4>1. \A k \in 1 .. m : k \in 1 .. m + 1
        BY <3>1
      <4>2. m + 1 \in 1 .. m + 1
        BY <3>1
      <4>3. CASE j = i + 1
        BY <3>1, <4>2, <4>3
      <4>4. CASE j \in 1 .. i
        <5>1. PICK k \in 1 .. m : f[i][k].id = subs[j].id
          BY <3>2, <4>4
        <5> QED
          BY <3>1, <4>1, <5>1
      <4> QED
        BY <3>5, <4>3, <4>4
    <3>8. \A j, k \in 1 .. m + 1 : f[i + 1][j].id = f[i + 1][k].id => j = k
      BY <3>1, <3>2, <3>3, <3>4
    <3> QED
      BY <3>1, <3>6, <3>7, <3>8 DEF OnceOf
  <2> QED
    BY <2>5, <2>6
<1>5. \A i \in Nat : i \in T
  <2> HIDE DEF T
  <2> QED
    BY <1>3, <1>4, Induction
<1>6. OnceOf(f[n], subs, n) /\ f[n] \in Seq(S)
  BY <1>2, <1>5
<1> QED
  BY <1>2, <1>6 DEF n

-----------------------------------------------------------------------------
(* The parsed device. *)

Infos(file) == {SubInfo(file, sub) : sub \in SubmoduleItems} \union {StandardTelegram1}
ParsedModules(file) == [ident : Nat, submodules : Seq(Infos(file))]

LEMMA InfosTyped ==
  ASSUME NEW file, NEW s \in Infos(file)
  PROVE  s.ident \in Nat /\ s.in \in Nat /\ s.out \in Nat
BY DEF Infos, SubInfo, StandardTelegram1, SubmoduleItems

\* The submodule that is referred to is found.
WithId(catalog, id) == FirstThat(catalog, LAMBDA sub : sub.id = id)

LEMMA FoundIs ==
  ASSUME NEW catalog \in Seq(SubmoduleItems), NEW id,
         id \in {sub.id : sub \in ToSet(catalog)}
  PROVE  /\ WithId(catalog, id) \in ToSet(catalog)
         /\ WithId(catalog, id) \in SubmoduleItems
         /\ WithId(catalog, id).id = id
<1> DEFINE I == {i \in 1 .. Len(catalog) : catalog[i].id = id}
<1>1. I \in SUBSET Nat /\ I # {}
  <2>1. PICK i \in DOMAIN catalog : catalog[i].id = id
    BY DEF ToSet
  <2>2. i \in 1 .. Len(catalog)
    BY <2>1
  <2> QED
    BY <2>1, <2>2
<1>2. WithId(catalog, id) = catalog[Min(I)]
  BY <1>1 DEF WithId, FirstThat, SelectInSeq
<1>3. Min(I) \in I
  <2> HIDE DEF I
  <2> QED
    BY <1>1, MinIs
<1>4. Min(I) \in 1 .. Len(catalog) /\ catalog[Min(I)].id = id
  <2>1. \A i \in I : i \in 1 .. Len(catalog) /\ catalog[i].id = id
    OBVIOUS
  <2> HIDE DEF I
  <2> QED
    BY <1>3, <2>1
<1> HIDE DEF I
<1>5. catalog[Min(I)] \in SubmoduleItems /\ catalog[Min(I)] \in ToSet(catalog)
  BY <1>4 DEF ToSet
<1> QED
  BY <1>2, <1>4, <1>5

\* The submodules of a module are known, and differ in their ids unless they are the
\* whole catalog; there are some if the file has any.
LEMMA OfferedIs ==
  ASSUME NEW file \in Files, NEW module \in ModuleItems
  PROVE  LET subs == Offered(file, module) IN
         /\ subs \in Seq(SubmoduleItems)
         /\ subs # <<>> \/ file.catalog = <<>>
         /\ \/ subs = file.catalog
            \/ /\ \A i \in DOMAIN subs : subs[i] \in ToSet(module.inline) \union ToSet(file.catalog)
               /\ \A i, j \in DOMAIN subs : subs[i].id = subs[j].id => i = j
<1> DEFINE known == Only(module.useable, {sub.id : sub \in ToSet(file.catalog)})
           found == [i \in DOMAIN known |->
                       FirstThat(file.catalog, LAMBDA sub : sub.id = known[i])]
           all == module.inline \o found
           listed == Once(all)
<1>1. /\ file.catalog \in Seq(SubmoduleItems)
      /\ module.inline \in Seq(SubmoduleItems) /\ module.useable \in Seq(Nat)
  BY DEF Files, ModuleItems
<1>2. /\ known \in Seq(Nat) /\ DOMAIN known = 1 .. Len(known)
      /\ \A i \in DOMAIN known : known[i] \in {sub.id : sub \in ToSet(file.catalog)}
  BY <1>1, OnlyElements
<1>3. Offered(file, module) = IF listed = <<>> THEN file.catalog ELSE listed
  BY DEF Offered
<1> HIDE DEF known
<1>4. \A i \in 1 .. Len(known) :
        found[i] \in ToSet(file.catalog) /\ found[i] \in SubmoduleItems
  <2> SUFFICES ASSUME NEW i \in 1 .. Len(known)
               PROVE  found[i] \in ToSet(file.catalog) /\ found[i] \in SubmoduleItems
    OBVIOUS
  <2>1. known[i] \in {sub.id : sub \in ToSet(file.catalog)}
    BY <1>2
  <2>2. found[i] = WithId(file.catalog, known[i])
    BY <1>2 DEF WithId
  <2> HIDE DEF found
  <2> QED
    BY <1>1, <2>1, <2>2, FoundIs
<1>5. found \in Seq(SubmoduleItems) /\ Len(found) = Len(known) /\ Len(known) \in Nat
  <2>1. DOMAIN found = 1 .. Len(known) /\ Len(known) \in Nat
    BY <1>2
  <2>2. found \in [1 .. Len(known) -> SubmoduleItems]
    BY <1>4, <2>1
  <2> HIDE DEF found
  <2> QED
    BY <2>1, <2>2
<1> HIDE DEF found
<1>6. /\ all \in Seq(SubmoduleItems)
      /\ \A i \in 1 .. Len(all) : all[i] \in ToSet(module.inline) \union ToSet(file.catalog)
  <2>1. /\ all \in Seq(SubmoduleItems) /\ Len(all) = Len(module.inline) + Len(found)
        /\ \A i \in 1 .. Len(module.inline) + Len(found) :
             all[i] = IF i <= Len(module.inline) THEN module.inline[i]
                      ELSE found[i - Len(module.inline)]
    BY <1>1, <1>5, ConcatProperties
  <2> HIDE DEF all
  <2>2. ASSUME NEW i \in 1 .. Len(all)
        PROVE  all[i] \in ToSet(module.inline) \union ToSet(file.catalog)
    <3>1. Len(module.inline) \in Nat /\ DOMAIN module.inline = 1 .. Len(module.inline)
      BY <1>1
    <3>2. CASE i <= Len(module.inline)
      <4>1. i \in DOMAIN module.inline /\ all[i] = module.inline[i]
        BY <1>5, <2>1, <3>1, <3>2
      <4> QED
        BY <4>1 DEF ToSet
    <3>3. CASE ~(i <= Len(module.inline))
      <4>1. i - Len(module.inline) \in 1 .. Len(known)
        BY <1>5, <2>1, <3>1, <3>3
      <4>2. all[i] = found[i - Len(module.inline)]
        BY <1>5, <2>1, <3>1, <3>3
      <4> QED
        BY <1>4, <4>1, <4>2
    <3> QED
      BY <3>2, <3>3
  <2> QED
    BY <2>1, <2>2
<1> HIDE DEF all
<1>7. listed \in Seq(SubmoduleItems) /\ OnceOf(listed, all, Len(all))
  BY <1>6, OnceIs
<1> HIDE DEF listed
<1>8. DOMAIN listed = 1 .. Len(listed)
  BY <1>7
<1>9. \A i \in DOMAIN listed :
        listed[i] \in ToSet(module.inline) \union ToSet(file.catalog)
  BY <1>6, <1>7, <1>8 DEF OnceOf
<1>10. \A i, j \in DOMAIN listed : listed[i].id = listed[j].id => i = j
  BY <1>7, <1>8 DEF OnceOf
<1>11. CASE listed = <<>>
  BY <1>1, <1>3, <1>11
<1>12. CASE listed # <<>>
  <2>1. Offered(file, module) = listed
    BY <1>3, <1>12
  <2> QED
    BY <1>7, <1>9, <1>10, <1>12, <2>1
<1> QED
  BY <1>11, <1>12

\* What the rest of the program knows of a list of submodules.
InfosOf(file, subs) == [i \in DOMAIN subs |-> SubInfo(file, subs[i])]

LEMMA InfosOfTyped ==
  ASSUME NEW file, NEW subs \in Seq(SubmoduleItems)
  PROVE  InfosOf(file, subs) \in Seq(Infos(file)) /\ (subs # <<>> => InfosOf(file, subs) # <<>>)
<1>1. DOMAIN subs = 1 .. Len(subs) /\ Len(subs) \in Nat
  OBVIOUS
<1>2. \A i \in 1 .. Len(subs) : SubInfo(file, subs[i]) \in Infos(file)
  <2>1. \A i \in 1 .. Len(subs) : subs[i] \in SubmoduleItems
    OBVIOUS
  <2> QED
    BY <2>1 DEF Infos
<1>3. InfosOf(file, subs) \in [1 .. Len(subs) -> Infos(file)]
  BY <1>1, <1>2 DEF InfosOf
<1>4. DOMAIN InfosOf(file, subs) = DOMAIN subs
  BY DEF InfosOf
<1> HIDE DEF InfosOf
<1> QED
  BY <1>1, <1>3, <1>4

LEMMA ModulesTyped ==
  ASSUME NEW file \in Files
  PROVE  Modules(file) \in Seq(ParsedModules(file)) /\ Modules(file) # <<>>
<1>1. file.modules \in Seq(ModuleItems) /\ file.catalog \in Seq(SubmoduleItems)
  BY DEF Files
<1>2. CASE file.modules # <<>>
  <2>1. Modules(file) =
          [i \in DOMAIN file.modules |->
             [ident |-> file.modules[i].ident,
              submodules |-> InfosOf(file, Offered(file, file.modules[i]))]]
    BY <1>2 DEF Modules, InfosOf
  <2>2. ASSUME NEW i \in DOMAIN file.modules
        PROVE  [ident |-> file.modules[i].ident,
                submodules |-> InfosOf(file, Offered(file, file.modules[i]))]
                 \in ParsedModules(file)
    <3>1. file.modules[i] \in ModuleItems
      BY <1>1
    <3>2. Offered(file, file.modules[i]) \in Seq(SubmoduleItems)
      BY <3>1, OfferedIs
    <3>3. InfosOf(file, Offered(file, file.modules[i])) \in Seq(Infos(file))
      BY <3>2, InfosOfTyped
    <3>4. file.modules[i].ident \in Nat
      BY <3>1 DEF ModuleItems
    <3> QED
      BY <3>3, <3>4 DEF ParsedModules
  <2>3. DOMAIN file.modules = 1 .. Len(file.modules) /\ Len(file.modules) \in Nat \ {0}
    BY <1>1, <1>2
  <2>4. Modules(file) \in [1 .. Len(file.modules) -> ParsedModules(file)]
    BY <2>1, <2>2, <2>3
  <2> QED
    BY <2>3, <2>4
<1>3. CASE file.modules = <<>>
  <2> DEFINE subs == IF file.catalog = <<>> THEN <<StandardTelegram1>>
                     ELSE InfosOf(file, file.catalog)
  <2>1. Modules(file) = << [ident |-> 1, submodules |-> subs] >>
    BY <1>3 DEF Modules, InfosOf
  <2>2. subs \in Seq(Infos(file))
    <3>1. StandardTelegram1 \in Infos(file)
      BY DEF Infos
    <3>2. <<StandardTelegram1>> \in Seq(Infos(file))
      BY <3>1
    <3>3. InfosOf(file, file.catalog) \in Seq(Infos(file))
      BY <1>1, InfosOfTyped
    <3> QED
      BY <3>2, <3>3
  <2> HIDE DEF subs
  <2>3. [ident |-> 1, submodules |-> subs] \in ParsedModules(file)
    BY <2>2 DEF ParsedModules
  <2> QED
    BY <2>1, <2>3
<1> QED
  BY <1>2, <1>3

-----------------------------------------------------------------------------
(* The rack. *)

LEMMA RemoveAtIs ==
  ASSUME NEW S, NEW seq \in Seq(S), NEW i \in DOMAIN seq
  PROVE  /\ RemoveAt(seq, i) \in Seq(S)
         /\ Len(RemoveAt(seq, i)) = Len(seq) - 1
         /\ \A k \in 1 .. Len(seq) - 1 :
              RemoveAt(seq, i)[k] = IF k < i THEN seq[k] ELSE seq[k + 1]
<1> DEFINE n == Len(seq)
           a == SubSeq(seq, 1, i - 1)
           b == SubSeq(seq, i + 1, n)
<1>1. n \in Nat /\ i \in 1 .. n /\ \A k \in 1 .. n : seq[k] \in S
  OBVIOUS
<1>2. RemoveAt(seq, i) = a \o b
  BY DEF RemoveAt
<1> HIDE DEF n
<1>3. /\ a \in Seq(S) /\ Len(a) = IF 1 <= i - 1 THEN i - 1 - 1 + 1 ELSE 0
      /\ \A k \in 1 .. i - 1 - 1 + 1 : a[k] = seq[1 + k - 1]
  <2>1. 1 \in Int /\ i - 1 \in Int /\ \A k \in 1 .. i - 1 : seq[k] \in S
    BY <1>1
  <2> QED
    BY <2>1, SubSeqProperties
<1>4. /\ b \in Seq(S) /\ Len(b) = IF i + 1 <= n THEN n - (i + 1) + 1 ELSE 0
      /\ \A k \in 1 .. n - (i + 1) + 1 : b[k] = seq[i + 1 + k - 1]
  <2>1. i + 1 \in Int /\ n \in Int /\ \A k \in i + 1 .. n : seq[k] \in S
    BY <1>1
  <2> QED
    BY <2>1, SubSeqProperties
<1> HIDE DEF a, b
<1>5. Len(a) = i - 1 /\ Len(b) = n - i
  BY <1>1, <1>3, <1>4
<1>6. /\ a \o b \in Seq(S) /\ Len(a \o b) = Len(a) + Len(b)
      /\ \A k \in 1 .. Len(a) + Len(b) :
           (a \o b)[k] = IF k <= Len(a) THEN a[k] ELSE b[k - Len(a)]
  BY <1>3, <1>4, ConcatProperties
<1>7. Len(a) + Len(b) = n - 1
  BY <1>1, <1>5
<1>8. ASSUME NEW k \in 1 .. n - 1
      PROVE  (a \o b)[k] = IF k < i THEN seq[k] ELSE seq[k + 1]
  <2>1. (a \o b)[k] = IF k <= i - 1 THEN a[k] ELSE b[k - (i - 1)]
    BY <1>5, <1>6, <1>7
  <2>2. CASE k < i
    <3>1. k <= i - 1 /\ k \in 1 .. i - 1 - 1 + 1 /\ 1 + k - 1 = k
      BY <1>1, <2>2
    <3>2. a[k] = seq[k]
      BY <1>3, <3>1
    <3> QED
      BY <2>1, <2>2, <3>1, <3>2
  <2>3. CASE ~(k < i)
    <3> DEFINE l == k - (i - 1)
    <3>1. ~(k <= i - 1) /\ l \in 1 .. n - (i + 1) + 1 /\ i + 1 + l - 1 = k + 1
      BY <1>1, <2>3
    <3> HIDE DEF l
    <3>2. b[l] = seq[k + 1]
      BY <1>4, <3>1
    <3> QED
      BY <2>1, <2>3, <3>1, <3>2 DEF l
  <2> QED
    BY <2>2, <2>3
<1> QED
  BY <1>2, <1>6, <1>7, <1>8 DEF n

LEMMA RemoveAtInjective ==
  ASSUME NEW S, NEW seq \in Seq(S), NEW i \in DOMAIN seq, IsInjective(seq)
  PROVE  /\ IsInjective(RemoveAt(seq, i))
         /\ ToSet(RemoveAt(seq, i)) \subseteq ToSet(seq)
<1> DEFINE n == Len(seq)
           new == RemoveAt(seq, i)
<1>0. /\ RemoveAt(seq, i) \in Seq(S)
      /\ Len(RemoveAt(seq, i)) = Len(seq) - 1
      /\ \A k \in 1 .. Len(seq) - 1 :
           RemoveAt(seq, i)[k] = IF k < i THEN seq[k] ELSE seq[k + 1]
  BY RemoveAtIs
<1>1. /\ n \in Nat /\ DOMAIN seq = 1 .. n /\ i \in 1 .. n
      /\ new \in Seq(S) /\ Len(new) = n - 1
      /\ \A k \in 1 .. n - 1 : new[k] = IF k < i THEN seq[k] ELSE seq[k + 1]
  <2>1. n \in Nat /\ DOMAIN seq = 1 .. n /\ i \in 1 .. n
    OBVIOUS
  <2> HIDE DEF new
  <2> QED
    BY <1>0, <2>1 DEF n, new
<1>2. DOMAIN new = 1 .. n - 1
  <2> HIDE DEF n, new
  <2> QED
    BY <1>1
<1>3. \A j, k \in 1 .. n : seq[j] = seq[k] => j = k
  BY <1>1 DEF IsInjective
<1> HIDE DEF n, new
<1>4. ASSUME NEW j \in 1 .. n - 1, NEW k \in 1 .. n - 1, new[j] = new[k] PROVE j = k
  <2>1. j \in 1 .. n /\ j + 1 \in 1 .. n /\ k \in 1 .. n /\ k + 1 \in 1 .. n
    BY <1>1
  <2>2. new[j] = IF j < i THEN seq[j] ELSE seq[j + 1]
    BY <1>1
  <2>3. new[k] = IF k < i THEN seq[k] ELSE seq[k + 1]
    BY <1>1
  <2>4. CASE j < i /\ k < i
    BY <1>3, <1>4, <2>1, <2>2, <2>3, <2>4
  <2>5. CASE j < i /\ ~(k < i)
    <3>1. seq[j] = seq[k + 1]
      BY <1>4, <2>2, <2>3, <2>5
    <3>2. j = k + 1
      BY <1>3, <2>1, <3>1
    <3> QED
      BY <1>1, <2>5, <3>2
  <2>6. CASE ~(j < i) /\ k < i
    <3>1. seq[j + 1] = seq[k]
      BY <1>4, <2>2, <2>3, <2>6
    <3>2. j + 1 = k
      BY <1>3, <2>1, <3>1
    <3> QED
      BY <1>1, <2>6, <3>2
  <2>7. CASE ~(j < i) /\ ~(k < i)
    <3>1. seq[j + 1] = seq[k + 1]
      BY <1>4, <2>2, <2>3, <2>7
    <3>2. j + 1 = k + 1
      BY <1>3, <2>1, <3>1
    <3> QED
      BY <3>2
  <2> QED
    BY <2>4, <2>5, <2>6, <2>7
<1>5. ASSUME NEW k \in 1 .. n - 1 PROVE new[k] \in ToSet(seq)
  <2>1. k \in DOMAIN seq /\ k + 1 \in DOMAIN seq
    BY <1>1
  <2>2. new[k] = seq[k] \/ new[k] = seq[k + 1]
    BY <1>1
  <2> QED
    BY <2>1, <2>2 DEF ToSet
<1>6. IsInjective(new)
  BY <1>2, <1>4 DEF IsInjective
<1>7. ToSet(new) \subseteq ToSet(seq)
  <2>1. \A x \in ToSet(new) : \E k \in 1 .. n - 1 : x = new[k]
    BY <1>2 DEF ToSet
  <2> QED
    BY <1>5, <2>1
<1> QED
  BY <1>6, <1>7 DEF new

\* There is a free slot, and the next one is free.
LEMMA NextSlotIs ==
  ASSUME NEW rack \in Seq(DriveObjects)
  PROVE  /\ NextSlot(rack) \in Nat \ {0}
         /\ \A i \in DOMAIN rack : rack[i].slot # NextSlot(rack)
<1> DEFINE n == Len(rack)
           used == {rack[i].slot : i \in DOMAIN rack}
           free == (1 .. n + 1) \ used
<1>1. n \in Nat /\ DOMAIN rack = 1 .. n
  OBVIOUS
<1>2. NextSlot(rack) = Min(free)
  BY DEF NextSlot
<1>3. free # {}
  <2>1. SUFFICES ASSUME 1 .. n + 1 \subseteq used PROVE FALSE
    OBVIOUS
  <2> DEFINE at == [s \in 1 .. n + 1 |-> CHOOSE i \in 1 .. n : rack[i].slot = s]
  <2>2. ASSUME NEW s \in 1 .. n + 1
        PROVE  at[s] \in 1 .. n /\ rack[at[s]].slot = s
    <3>1. \E i \in 1 .. n : rack[i].slot = s
      BY <1>1, <2>1
    <3> QED
      BY <3>1
  <2>3. at \in [1 .. n + 1 -> 1 .. n]
    BY <2>2
  <2> HIDE DEF n, at
  <2>4. /\ IsFiniteSet(1 .. n) /\ Cardinality(1 .. n) = n
        /\ IsFiniteSet(1 .. n + 1) /\ Cardinality(1 .. n + 1) = n + 1
    BY <1>1, FS_Interval
  <2>5. \E s, t \in 1 .. n + 1 : s # t /\ at[s] = at[t]
    <3>1. Cardinality(1 .. n + 1) > Cardinality(1 .. n)
      BY <1>1, <2>4
    <3> QED
      BY <2>3, <2>4, <3>1, FS_PigeonHole
  <2> QED
    BY <2>2, <2>5
<1> HIDE DEF used, n
<1>4. NextSlot(rack) \in 1 .. n + 1 /\ NextSlot(rack) \notin used
  <2>1. free \in SUBSET Nat
    BY <1>1
  <2> HIDE DEF free
  <2>2. Min(free) \in free
    BY <1>3, <2>1, MinIs
  <2> QED
    BY <1>2, <2>2 DEF free
<1>5. NextSlot(rack) \in Nat \ {0}
  BY <1>1, <1>4
<1>6. \A i \in DOMAIN rack : rack[i].slot # NextSlot(rack)
  BY <1>4 DEF used
<1> QED
  BY <1>5, <1>6

\* The module or the submodule with an ident.
WithIdent(items, ident) == FirstThat(items, LAMBDA item : item.ident = ident)

LEMMA WithIdentIs ==
  ASSUME NEW S, NEW items \in Seq(S), NEW ident, ident \in Idents(items)
  PROVE  /\ WithIdent(items, ident) \in ToSet(items)
         /\ WithIdent(items, ident) \in S
         /\ WithIdent(items, ident).ident = ident
<1> DEFINE I == {i \in 1 .. Len(items) : items[i].ident = ident}
<1>1. I \in SUBSET Nat /\ I # {}
  <2>1. PICK i \in DOMAIN items : items[i].ident = ident
    BY DEF ToSet, Idents
  <2>2. i \in 1 .. Len(items)
    BY <2>1
  <2> QED
    BY <2>1, <2>2
<1>2. WithIdent(items, ident) = items[Min(I)]
  BY <1>1 DEF WithIdent, FirstThat, SelectInSeq
<1>3. Min(I) \in I
  <2> HIDE DEF I
  <2> QED
    BY <1>1, MinIs
<1>4. Min(I) \in 1 .. Len(items) /\ items[Min(I)].ident = ident
  <2>1. \A i \in I : i \in 1 .. Len(items) /\ items[i].ident = ident
    OBVIOUS
  <2> HIDE DEF I
  <2> QED
    BY <1>3, <2>1
<1> HIDE DEF I
<1>5. items[Min(I)] \in S /\ items[Min(I)] \in ToSet(items)
  BY <1>4 DEF ToSet
<1> QED
  BY <1>2, <1>4, <1>5

LEMMA ElementsOf ==
  ASSUME NEW S, NEW seq \in Seq(S), NEW x \in ToSet(seq)
  PROVE  x \in S /\ \E i \in 1 .. Len(seq) : seq[i] = x
<1>1. PICK i \in DOMAIN seq : seq[i] = x
  BY DEF ToSet
<1>2. i \in 1 .. Len(seq)
  BY <1>1
<1> QED
  BY <1>1, <1>2

LEMMA TelegramsOf ==
  ASSUME NEW file, NEW module \in ParsedModules(file)
  PROVE  /\ Telegrams(module) \in Seq(Infos(file))
         /\ \A s \in ToSet(Telegrams(module)) :
              s \in Infos(file) /\ s \in ToSet(module.submodules) /\ IsTelegram(s)
<1> DEFINE good == {s \in ToSet(module.submodules) : IsTelegram(s)}
           all == Telegrams(module)
<1>1. module.submodules \in Seq(Infos(file))
  BY DEF ParsedModules
<1>2. all = Only(module.submodules, good)
  BY DEF Telegrams
<1> HIDE DEF all
<1>3. all \in Seq(Infos(file)) /\ \A k \in DOMAIN all : all[k] \in good
  <2> HIDE DEF good
  <2> QED
    BY <1>1, <1>2, OnlyElements
<1>4. ASSUME NEW s \in ToSet(all)
      PROVE  s \in Infos(file) /\ s \in ToSet(module.submodules) /\ IsTelegram(s)
  <2>1. s \in Infos(file)
    BY <1>3, ElementsOf
  <2>2. s \in good
    BY <1>3 DEF ToSet
  <2> QED
    BY <2>1, <2>2
<1> QED
  BY <1>3, <1>4 DEF all

LEMMA ChoicesOf ==
  ASSUME NEW file, NEW module \in ParsedModules(file)
  PROVE  /\ TelegramChoices(module) \in Seq(Infos(file))
         /\ ToSet(TelegramChoices(module)) \subseteq ToSet(Telegrams(module))
<1> DEFINE all == Telegrams(module)
           good == {s \in ToSet(all) : "profisafe" \notin s.name}
           plain == Only(all, good)
<1>1. all \in Seq(Infos(file))
  BY TelegramsOf
<1>2. TelegramChoices(module) = IF plain # <<>> THEN plain ELSE all
  BY DEF TelegramChoices
<1> HIDE DEF all, good
<1>3. plain \in Seq(Infos(file)) /\ \A k \in DOMAIN plain : plain[k] \in ToSet(all)
  BY <1>1, OnlyElements
<1> HIDE DEF plain
<1>4. ToSet(plain) \subseteq ToSet(all)
  BY <1>3 DEF ToSet
<1> QED
  BY <1>1, <1>2, <1>3, <1>4 DEF all

LEMMA DriveObjectTyped ==
  ASSUME NEW slot \in Nat, NEW subslot \in Nat, NEW module \in Nat, NEW telegram \in Nat,
         NEW in \in Nat, NEW out \in Nat
  PROVE  DriveObject(slot, subslot, module, telegram, in, out) \in DriveObjects
BY DEF DriveObject, DriveObjects

\* What is put in a rack: a Drive Object of a module with one of its telegrams, or none.
Added(do, slot, module) ==
  /\ do \in DriveObjects
  /\ do.slot = slot /\ do.subslot = 3 /\ do.module = module.ident
  /\ \/ do.telegram = 0
     \/ \E s \in ToSet(Telegrams(module)) :
          do.telegram = s.ident /\ do.in = s.in /\ do.out = s.out

LEMMA AddModuleIs ==
  ASSUME NEW file, NEW module \in ParsedModules(file), NEW rack \in Seq(DriveObjects)
  PROVE  \E do \in DriveObjects :
           AddModule(rack, module) = Append(rack, do) /\ Added(do, NextSlot(rack), module)
<1> DEFINE choices == TelegramChoices(module)
           slot == NextSlot(rack)
           do == IF choices = <<>> THEN DriveObject(slot, 3, module.ident, 0, 4, 4)
                 ELSE DriveObject(slot, 3, module.ident, Head(choices).ident,
                                  Head(choices).in, Head(choices).out)
<1>1. AddModule(rack, module) = Append(rack, do)
  BY DEF AddModule
<1>2. module.ident \in Nat /\ slot \in Nat
  BY NextSlotIs DEF ParsedModules
<1>3. choices \in Seq(Infos(file)) /\ ToSet(choices) \subseteq ToSet(Telegrams(module))
  BY ChoicesOf
<1> HIDE DEF choices, slot
<1>4. CASE choices = <<>>
  <2>1. do = DriveObject(slot, 3, module.ident, 0, 4, 4)
    BY <1>4
  <2>2. do \in DriveObjects
    BY <1>2, <2>1, DriveObjectTyped
  <2>3. Added(do, slot, module)
    BY <2>1, <2>2 DEF Added, DriveObject
  <2> QED
    BY <1>1, <2>2, <2>3 DEF slot
<1>5. CASE choices # <<>>
  <2> DEFINE s == Head(choices)
  <2>1. s = choices[1] /\ 1 \in DOMAIN choices
    BY <1>3, <1>5
  <2>2. s \in ToSet(Telegrams(module)) /\ s \in Infos(file)
    BY <1>3, <2>1 DEF ToSet
  <2>3. s.ident \in Nat /\ s.in \in Nat /\ s.out \in Nat
    BY <2>2, InfosTyped
  <2>4. do = DriveObject(slot, 3, module.ident, s.ident, s.in, s.out)
    BY <1>5
  <2> HIDE DEF s, do
  <2>5. do \in DriveObjects
    BY <1>2, <2>3, <2>4, DriveObjectTyped
  <2>6. Added(do, slot, module)
    BY <2>2, <2>4, <2>5 DEF Added, DriveObject
  <2> QED
    BY <1>1, <2>5, <2>6 DEF slot
<1> QED
  BY <1>4, <1>5

LEMMA SettableIs ==
  ASSUME NEW file, NEW modules \in Seq(ParsedModules(file)), NEW rack, NEW i,
         NEW s \in Settable(rack, i, modules)
  PROVE  /\ rack[i].module \in Idents(modules)
         /\ s \in ToSet(Telegrams(ModuleWith(modules, rack[i].module)))
         /\ ModuleWith(modules, rack[i].module) \in ParsedModules(file)
         /\ ModuleWith(modules, rack[i].module) \in ToSet(modules)
         /\ s \in Infos(file)
<1>1. /\ rack[i].module \in Idents(modules)
      /\ s \in ToSet(Telegrams(ModuleWith(modules, rack[i].module)))
  BY DEF Settable
<1>2. ModuleWith(modules, rack[i].module) = WithIdent(modules, rack[i].module)
  BY DEF ModuleWith, WithIdent
<1>3. /\ ModuleWith(modules, rack[i].module) \in ParsedModules(file)
      /\ ModuleWith(modules, rack[i].module) \in ToSet(modules)
  BY <1>1, <1>2, WithIdentIs
<1> QED
  BY <1>1, <1>3, TelegramsOf

LEMMA SetTelegramIs ==
  ASSUME NEW rack \in Seq(DriveObjects), NEW i \in DOMAIN rack,
         NEW s, s.ident \in Nat, s.in \in Nat, s.out \in Nat
  PROVE  LET do == DriveObject(rack[i].slot, 3, rack[i].module, s.ident, s.in, s.out) IN
         /\ do \in DriveObjects
         /\ SetTelegram(rack, i, s) \in Seq(DriveObjects)
         /\ Len(SetTelegram(rack, i, s)) = Len(rack)
         /\ \A k \in 1 .. Len(rack) : SetTelegram(rack, i, s)[k] = IF k = i THEN do ELSE rack[k]
<1> DEFINE do == DriveObject(rack[i].slot, 3, rack[i].module, s.ident, s.in, s.out)
<1>1. i \in 1 .. Len(rack) /\ rack[i] \in DriveObjects
  OBVIOUS
<1>2. rack[i].slot \in Nat /\ rack[i].module \in Nat
  BY <1>1 DEF DriveObjects
<1>3. do \in DriveObjects
  BY <1>2, DriveObjectTyped
<1>4. SetTelegram(rack, i, s) = [rack EXCEPT ![i] = do]
  BY DEF SetTelegram
<1> HIDE DEF do
<1>5. /\ [rack EXCEPT ![i] = do] \in Seq(DriveObjects)
      /\ Len([rack EXCEPT ![i] = do]) = Len(rack)
      /\ \A k \in 1 .. Len(rack) : [rack EXCEPT ![i] = do][k] = IF k = i THEN do ELSE rack[k]
  BY <1>1, <1>3, ExceptSeq
<1> QED
  BY <1>3, <1>4, <1>5 DEF do

LEMMA EditsTyped ==
  ASSUME NEW file, NEW modules \in Seq(ParsedModules(file)), NEW rack \in Seq(DriveObjects),
         NEW new \in RackEdits(rack, modules)
  PROVE  /\ new \in Seq(DriveObjects)
         /\ \/ \E m \in ToSet(modules) : new = AddModule(rack, m)
            \/ \E i \in DOMAIN rack : \E s \in Settable(rack, i, modules) :
                 new = SetTelegram(rack, i, s)
            \/ \E i \in DOMAIN rack : new = RemoveAt(rack, i)
<1>1. \/ \E m \in ToSet(modules) : new = AddModule(rack, m)
      \/ \E i \in DOMAIN rack : \E s \in Settable(rack, i, modules) : new = SetTelegram(rack, i, s)
      \/ \E i \in DOMAIN rack : new = RemoveAt(rack, i)
  BY DEF RackEdits
<1>2. ASSUME NEW m \in ToSet(modules), new = AddModule(rack, m) PROVE new \in Seq(DriveObjects)
  <2>1. m \in ParsedModules(file)
    BY ElementsOf
  <2>2. PICK do \in DriveObjects : AddModule(rack, m) = Append(rack, do)
    BY <2>1, AddModuleIs
  <2> QED
    BY <1>2, <2>2
<1>3. ASSUME NEW i \in DOMAIN rack, NEW s \in Settable(rack, i, modules),
             new = SetTelegram(rack, i, s)
      PROVE  new \in Seq(DriveObjects)
  <2>1. s \in Infos(file)
    BY SettableIs
  <2>2. s.ident \in Nat /\ s.in \in Nat /\ s.out \in Nat
    BY <2>1, InfosTyped
  <2> QED
    BY <1>3, <2>2, SetTelegramIs
<1>4. ASSUME NEW i \in DOMAIN rack, new = RemoveAt(rack, i) PROVE new \in Seq(DriveObjects)
  BY <1>4, RemoveAtIs
<1> QED
  BY <1>1, <1>2, <1>3, <1>4

LEMMA NewDeviceTyped ==
  ASSUME NEW file, NEW modules \in Seq(ParsedModules(file)), modules # <<>>, NEW dap \in Nat
  PROVE  NewDevice(modules, dap) \in DeviceConfigs
<1> DEFINE module == Head(modules)
           sub == IF module.submodules = <<>> THEN [ident |-> 0, in |-> 4, out |-> 4]
                  ELSE Head(module.submodules)
           legacy == DriveObject(1, 1, module.ident, sub.ident, sub.in, sub.out)
<1>1. module \in ParsedModules(file)
  OBVIOUS
<1> HIDE DEF module
<1>2. module.ident \in Nat /\ module.submodules \in Seq(Infos(file))
  BY <1>1 DEF ParsedModules
<1>3. sub.ident \in Nat /\ sub.in \in Nat /\ sub.out \in Nat
  <2>1. CASE module.submodules = <<>>
    BY <2>1
  <2>2. CASE module.submodules # <<>>
    <3>1. Head(module.submodules) \in Infos(file)
      BY <1>2, <2>2
    <3> QED
      BY <2>2, <3>1, InfosTyped
  <2> QED
    BY <2>1, <2>2
<1> HIDE DEF sub
<1>4. legacy \in DriveObjects
  BY <1>2, <1>3, DriveObjectTyped
<1>5. NewDevice(modules, dap) = [dap |-> dap, rack |-> <<>>, legacy |-> legacy]
  BY DEF NewDevice, module, sub
<1> HIDE DEF legacy
<1> QED
  BY <1>4, <1>5 DEF DeviceConfigs

-----------------------------------------------------------------------------
(* Idents and names. *)

DistinctIdents(items) == \A j, k \in DOMAIN items : items[j].ident = items[k].ident => j = k

LEMMA KnownByIdent ==
  ASSUME NEW S, NEW items \in Seq(S), DistinctIdents(items), NEW x \in ToSet(items)
  PROVE  WithIdent(items, x.ident) = x
<1>1. x.ident \in Idents(items)
  BY DEF Idents
<1>2. /\ WithIdent(items, x.ident) \in ToSet(items)
      /\ WithIdent(items, x.ident).ident = x.ident
  BY <1>1, WithIdentIs
<1>3. \A y, z \in ToSet(items) : y.ident = z.ident => y = z
  BY DEF DistinctIdents, ToSet
<1> QED
  BY <1>2, <1>3

\* Where the modules of the parsed device come from.
LEMMA ModulesFrom ==
  ASSUME NEW file \in Files, NEW i \in DOMAIN Modules(file)
  PROVE  \/ /\ file.modules # <<>> /\ i \in DOMAIN file.modules
            /\ Modules(file)[i].ident = file.modules[i].ident
            /\ Modules(file)[i].submodules = InfosOf(file, Offered(file, file.modules[i]))
         \/ /\ file.modules = <<>> /\ i = 1
            /\ Modules(file)[i].submodules =
                 IF file.catalog = <<>> THEN <<StandardTelegram1>> ELSE InfosOf(file, file.catalog)
<1>1. CASE file.modules # <<>>
  BY <1>1 DEF Modules, InfosOf
<1>2. CASE file.modules = <<>>
  BY <1>2 DEF Modules, InfosOf
<1> QED
  BY <1>1, <1>2

LEMMA ParsedIdents ==
  ASSUME NEW file \in Files, IdentsDiffer(file)
  PROVE  /\ DistinctIdents(Modules(file))
         /\ \A i \in DOMAIN Modules(file) : DistinctIdents(Modules(file)[i].submodules)
<1>1. file.modules \in Seq(ModuleItems) /\ file.catalog \in Seq(SubmoduleItems)
  BY DEF Files
<1>2. /\ DistinctIdents(file.modules) /\ DistinctIdents(file.catalog)
      /\ \A m \in ToSet(file.modules) :
           \A s, t \in ToSet(m.inline) \union ToSet(file.catalog) : s.ident = t.ident => s.id = t.id
  BY DEF IdentsDiffer, DistinctIdents
<1>3. DistinctIdents(Modules(file))
  BY <1>2, ModulesFrom DEF DistinctIdents
<1>4. \A subs : DistinctIdents(subs) => DistinctIdents(InfosOf(file, subs))
  BY DEF DistinctIdents, InfosOf, SubInfo
<1>5. ASSUME NEW i \in DOMAIN file.modules
      PROVE  DistinctIdents(Offered(file, file.modules[i]))
  <2> DEFINE m == file.modules[i]
             subs == Offered(file, m)
  <2>1. m \in ModuleItems /\ m \in ToSet(file.modules)
    BY <1>1 DEF ToSet
  <2> HIDE DEF m
  <2>2. \/ subs = file.catalog
        \/ /\ \A k \in DOMAIN subs : subs[k] \in ToSet(m.inline) \union ToSet(file.catalog)
           /\ \A j, k \in DOMAIN subs : subs[j].id = subs[k].id => j = k
    BY <2>1, OfferedIs
  <2> HIDE DEF subs
  <2>3. DistinctIdents(subs)
    BY <1>2, <2>1, <2>2 DEF DistinctIdents
  <2> QED
    BY <2>3 DEF subs, m
<1>6. DistinctIdents(<<StandardTelegram1>>)
  BY DEF DistinctIdents
<1>7. ASSUME NEW i \in DOMAIN Modules(file)
      PROVE  DistinctIdents(Modules(file)[i].submodules)
  BY <1>2, <1>4, <1>5, <1>6, ModulesFrom
<1> QED
  BY <1>3, <1>7

LEMMA ParsedCatalogSound ==
  ASSUME NEW file \in Files, IdentsDiffer(file)
  PROVE  CatalogSound(file)
<1>1. \A i \in DOMAIN Modules(file) : DistinctIdents(Modules(file)[i].submodules)
  BY ParsedIdents
<1>2. ASSUME NEW i \in DOMAIN Modules(file), file.catalog # <<>>
      PROVE  Modules(file)[i].submodules # <<>>
  <2>1. file.modules \in Seq(ModuleItems) /\ file.catalog \in Seq(SubmoduleItems)
    BY DEF Files
  <2>2. CASE file.modules = <<>>
    BY <1>2, <2>1, <2>2, ModulesFrom, InfosOfTyped
  <2>3. CASE file.modules # <<>>
    <3>1. /\ i \in DOMAIN file.modules
          /\ Modules(file)[i].submodules = InfosOf(file, Offered(file, file.modules[i]))
      BY <2>3, ModulesFrom
    <3>2. file.modules[i] \in ModuleItems
      BY <2>1, <3>1
    <3>3. /\ Offered(file, file.modules[i]) \in Seq(SubmoduleItems)
          /\ Offered(file, file.modules[i]) # <<>>
      BY <1>2, <3>2, OfferedIs
    <3> QED
      BY <3>1, <3>3, InfosOfTyped
  <2> QED
    BY <2>2, <2>3
<1> QED
  BY <1>1, <1>2 DEF CatalogSound, DistinctIdents

\* The text map has for every id the first text of the language of the file.
LEMMA TextMapIs ==
  ASSUME NEW file \in Files
  PROVE  /\ \A id : id \in DOMAIN TextMap(file) <=> TextsFor(file, id) # {}
         /\ \A id \in DOMAIN TextMap(file) :
              TextMap(file)[id] = file.texts[Min(TextsFor(file, id))].text
<1> DEFINE Texts == [lang : STRING, id : Nat, text : SUBSET STRING]
           texts == file.texts
           n == Len(texts)
           good == {t \in ToSet(texts) : file.primary => t.lang = "primary"}
           scope == Only(texts, good)
           m == Len(scope)
<1>1. texts \in Seq(Texts) /\ DOMAIN texts = 1 .. n /\ n \in Nat
  BY DEF Files
<1>2. PICK p : OnlyOf(scope, texts, n, good, p)
  BY <1>1, OnlyIs
<1>3. scope \in Seq(Texts)
  BY <1>1, OnlyIs
<1>4. \A i \in 1 .. n : texts[i] \in good <=> (file.primary => texts[i].lang = "primary")
  BY <1>1 DEF ToSet
<1>5. TextMap(file) = [id \in {t.id : t \in ToSet(scope)} |->
                         FirstThat(scope, LAMBDA t : t.id = id).text]
  BY DEF TextMap
<1> HIDE DEF good, scope, Texts, texts, n
<1>6. DOMAIN scope = 1 .. m /\ m \in Nat
  BY <1>3
<1>7. /\ p \in [1 .. m -> 1 .. n]
      /\ \A k \in 1 .. m : scope[k] = texts[p[k]] /\ texts[p[k]] \in good
      /\ \A j, k \in 1 .. m : j < k => p[j] < p[k]
      /\ \A i \in 1 .. n : texts[i] \in good => \E k \in 1 .. m : p[k] = i
  BY <1>2 DEF OnlyOf
<1> HIDE DEF m
<1>8. \A id, i : i \in TextsFor(file, id) <=> i \in 1 .. n /\ texts[i].id = id /\ texts[i] \in good
  BY <1>1, <1>4 DEF TextsFor, texts
<1>9. \A id : id \in DOMAIN TextMap(file) <=> \E k \in 1 .. m : scope[k].id = id
  BY <1>5, <1>6 DEF ToSet
<1>10. \A id : id \in DOMAIN TextMap(file) <=> TextsFor(file, id) # {}
  <2>1. ASSUME NEW id, NEW k \in 1 .. m, scope[k].id = id PROVE p[k] \in TextsFor(file, id)
    BY <1>7, <1>8, <2>1
  <2>2. ASSUME NEW id, NEW i \in TextsFor(file, id) PROVE \E k \in 1 .. m : scope[k].id = id
    BY <1>7, <1>8, <2>2
  <2> QED
    BY <1>9, <2>1, <2>2
<1>11. ASSUME NEW id \in DOMAIN TextMap(file)
       PROVE  TextMap(file)[id] = texts[Min(TextsFor(file, id))].text
  <2> DEFINE K == {k \in 1 .. m : scope[k].id = id}
             I == TextsFor(file, id)
  <2>1. K \in SUBSET Nat /\ K # {} /\ \A k : k \in K <=> k \in 1 .. m /\ scope[k].id = id
    BY <1>6, <1>9
  <2>2. I \in SUBSET Nat /\ I # {}
    BY <1>1, <1>8, <1>10
  <2>3. TextMap(file)[id] = scope[Min(K)].text
    <3>1. TextMap(file)[id] = FirstThat(scope, LAMBDA t : t.id = id).text
      BY <1>5
    <3>2. K # {} /\ 1 .. m = 1 .. Len(scope)
      BY <2>1 DEF m
    <3> QED
      BY <3>1, <3>2 DEF FirstThat, SelectInSeq
  <2> HIDE DEF K, I
  <2>4. Min(K) \in K /\ \A k \in K : Min(K) <= k
    BY <2>1, MinIs
  <2>5. Min(I) \in I /\ \A i \in I : Min(I) <= i
    BY <2>2, MinIs
  <2> DEFINE k == Min(K)
             i == Min(I)
  <2> HIDE DEF k, i
  <2>6. k \in 1 .. m /\ scope[k].id = id /\ p[k] \in I /\ p[k] \in 1 .. n
    BY <1>7, <1>8, <2>1, <2>4 DEF k, I
  <2>7. PICK l \in 1 .. m : p[l] = i
    BY <1>7, <1>8, <2>5 DEF i, I
  <2>8. l \in K
    <3>1. scope[l] = texts[i]
      BY <1>7, <2>7
    <3>2. texts[i].id = id
      BY <1>8, <2>5 DEF i, I
    <3> QED
      BY <2>1, <3>1, <3>2
  <2>9. k <= l /\ i <= p[k] /\ i \in 1 .. n
    BY <1>8, <2>4, <2>5, <2>6, <2>8 DEF k, i, I
  <2>10. p[k] = i
    <3>1. CASE k = l
      BY <2>7, <3>1
    <3>2. CASE k # l
      <4>1. k < l
        BY <1>6, <2>6, <2>7, <2>9, <3>2
      <4>2. p[k] < p[l]
        BY <1>7, <2>6, <2>7, <4>1
      <4> QED
        BY <1>1, <2>6, <2>7, <2>9, <4>2
    <3> QED
      BY <3>1, <3>2
  <2> QED
    BY <1>7, <2>3, <2>6, <2>10 DEF k, i, I
<1> QED
  BY <1>10, <1>11 DEF texts

\* An item has the name that its first usable Name element says.
Says(file, name) == TextsFor(file, name.id) # {} \/ name.literal # {}

LEMMA ResolvedNameIs ==
  ASSUME NEW file \in Files, NEW item, item.names \in Seq(NameItems), NEW k \in DOMAIN item.names,
         Says(file, item.names[k]), \A j \in 1 .. k - 1 : ~Says(file, item.names[j])
  PROVE  ResolvedName(item, TextMap(file)) = Called(file, item.names[k])
<1> DEFINE names == item.names
           texts == TextMap(file)
           I == {i \in 1 .. Len(names) : names[i].id \in DOMAIN texts \/ names[i].literal # {}}
<1>1. \A name : Says(file, name) <=> name.id \in DOMAIN texts \/ name.literal # {}
  BY TextMapIs DEF Says
<1>2. DOMAIN names = 1 .. Len(names) /\ Len(names) \in Nat
  OBVIOUS
<1> HIDE DEF names, texts
<1>3. k \in I /\ I \in SUBSET Nat /\ \A i \in I : Says(file, names[i])
  BY <1>1, <1>2 DEF names
<1>4. Min(I) = k
  <2>1. Min(I) \in I /\ \A i \in I : Min(I) <= i
    <3> HIDE DEF I
    <3> QED
      BY <1>3, MinIs
  <2>2. Min(I) <= k /\ Min(I) \in Nat /\ k \in Nat /\ Min(I) >= 1
    <3>1. \A i \in I : i \in Nat /\ i >= 1
      BY <1>2
    <3> HIDE DEF I
    <3> QED
      BY <1>3, <2>1, <3>1
  <2>3. ~(Min(I) \in 1 .. k - 1)
    <3> HIDE DEF I
    <3> QED
      BY <1>3, <2>1 DEF names
  <2> HIDE DEF I
  <2> QED
    BY <2>2, <2>3
<1>5. FirstThat(names, LAMBDA name : name.id \in DOMAIN texts \/ name.literal # {}) = names[k]
  BY <1>3, <1>4 DEF FirstThat, SelectInSeq
<1>6. \E name \in ToSet(names) : name.id \in DOMAIN texts \/ name.literal # {}
  BY <1>1, <1>2 DEF ToSet, names
<1>7. ResolvedName(item, texts) =
        IF names[k].id \in DOMAIN texts THEN texts[names[k].id] ELSE names[k].literal
  BY <1>5, <1>6 DEF ResolvedName, names
<1> QED
  BY <1>7, TextMapIs DEF Called, names, texts

\* Whatever _is_telegram lets through carries data.
LEMMA TelegramsCarryData ==
  ASSUME NEW file \in Files, FillersNamed(file), NEW i \in DOMAIN Modules(file),
         NEW s \in ToSet(Modules(file)[i].submodules), IsTelegram(s)
  PROVE  s.in + s.out > 0
<1>1. file.modules \in Seq(ModuleItems) /\ file.catalog \in Seq(SubmoduleItems)
  BY DEF Files
<1> DEFINE all == ToSet(file.catalog) \union UNION {ToSet(m.inline) : m \in ToSet(file.modules)}
<1>2. \A subs : \A x \in ToSet(InfosOf(file, subs)) : \E sub \in ToSet(subs) : x = SubInfo(file, sub)
  BY DEF ToSet, InfosOf
<1>3. s = StandardTelegram1 \/ \E sub \in all : s = SubInfo(file, sub) /\ sub \in SubmoduleItems
  <2>1. CASE file.modules = <<>> /\ file.catalog = <<>>
    <3>1. Modules(file)[i].submodules = <<StandardTelegram1>>
      BY <2>1, ModulesFrom
    <3> QED
      BY <3>1 DEF ToSet
  <2>2. CASE file.modules = <<>> /\ file.catalog # <<>>
    <3>1. Modules(file)[i].submodules = InfosOf(file, file.catalog)
      BY <2>2, ModulesFrom
    <3>2. PICK sub \in ToSet(file.catalog) : s = SubInfo(file, sub)
      BY <1>2, <3>1
    <3>3. sub \in SubmoduleItems
      BY <1>1, ElementsOf
    <3> QED
      BY <3>2, <3>3
  <2>3. CASE file.modules # <<>>
    <3> DEFINE module == file.modules[i]
               subs == Offered(file, module)
    <3>1. i \in DOMAIN file.modules /\ Modules(file)[i].submodules = InfosOf(file, subs)
      BY <2>3, ModulesFrom
    <3>2. module \in ModuleItems /\ module \in ToSet(file.modules)
      BY <1>1, <3>1 DEF ToSet
    <3> HIDE DEF module
    <3>3. /\ subs \in Seq(SubmoduleItems)
          /\ \/ subs = file.catalog
             \/ \A k \in DOMAIN subs : subs[k] \in ToSet(module.inline) \union ToSet(file.catalog)
      BY <3>2, OfferedIs
    <3> HIDE DEF subs
    <3>4. PICK sub \in ToSet(subs) : s = SubInfo(file, sub)
      BY <1>2, <3>1
    <3>5. sub \in SubmoduleItems
      BY <3>3, ElementsOf
    <3>6. sub \in ToSet(module.inline) \union ToSet(file.catalog)
      BY <3>3 DEF ToSet
    <3>7. sub \in all
      BY <3>2, <3>6
    <3> QED
      BY <3>4, <3>5, <3>7
  <2> QED
    BY <2>1, <2>2, <2>3
<1>4. CASE s = StandardTelegram1
  BY <1>4 DEF StandardTelegram1
<1>5. ASSUME NEW sub \in all, s = SubInfo(file, sub), sub \in SubmoduleItems,
             ~(s.in + s.out > 0)
      PROVE  FALSE
  <2>1. /\ sub.in \in Nat /\ sub.out \in Nat /\ sub.names \in Seq(NameItems)
        /\ s.in = sub.in /\ s.out = sub.out /\ s.name = ResolvedName(sub, TextMap(file))
    BY <1>5 DEF SubmoduleItems, SubInfo, NameOf
  <2>2. sub.in + sub.out = 0
    BY <1>5, <2>1
  <2>3. PICK k \in DOMAIN sub.names :
          /\ Called(file, sub.names[k]) \cap Fillers # {}
          /\ \A j \in 1 .. k - 1 :
               TextsFor(file, sub.names[j].id) = {} /\ sub.names[j].literal = {}
    BY <2>2 DEF FillersNamed
  <2>4. Says(file, sub.names[k]) /\ \A j \in 1 .. k - 1 : ~Says(file, sub.names[j])
    BY <2>3 DEF Says, Called
  <2>5. s.name = Called(file, sub.names[k])
    BY <2>1, <2>4, ResolvedNameIs
  <2> QED
    BY <2>3, <2>5 DEF IsTelegram
<1> QED
  BY <1>3, <1>4, <1>5

-----------------------------------------------------------------------------
(* Sound racks. *)

\* The Drive Object has a telegram of its module, with the lengths it has there.
HasTelegram(do, modules) ==
  LET m == WithIdent(modules, do.module)
      s == WithIdent(m.submodules, do.telegram)
  IN /\ do.in + do.out > 0
     /\ do.module \in Idents(modules) /\ s \in ToSet(Telegrams(m))
     /\ s.ident = do.telegram /\ s.in = do.in /\ s.out = do.out

DriveSound(do, modules) == do.subslot = 3 /\ do.telegram # 0 => HasTelegram(do, modules)

LEMMA RackSoundIs ==
  ASSUME NEW rack, NEW modules
  PROVE  RackSound(rack, modules) <=>
           SlotsDiffer(rack) /\ \A i \in DOMAIN rack : DriveSound(rack[i], modules)
<1>1. ASSUME NEW i \in DOMAIN rack
      PROVE  TelegramSet(rack, i, modules) <=> HasTelegram(rack[i], modules)
  <2>1. /\ ModuleWith(modules, rack[i].module) = WithIdent(modules, rack[i].module)
        /\ Details(rack, i, modules) =
             WithIdent(WithIdent(modules, rack[i].module).submodules, rack[i].telegram)
    BY DEF Details, ModuleWith, SubmoduleWith, WithIdent
  <2> QED
    BY <2>1 DEF TelegramSet, HasTelegram, Settable
<1> QED
  BY <1>1 DEF RackSound, DriveSound

LEMMA TelegramHad ==
  ASSUME NEW file \in Files, IdentsDiffer(file), FillersNamed(file),
         NEW m \in ToSet(Modules(file)), NEW s \in ToSet(Telegrams(m)),
         NEW do, do.module = m.ident, do.telegram = s.ident, do.in = s.in, do.out = s.out
  PROVE  HasTelegram(do, Modules(file))
<1>1. /\ Modules(file) \in Seq(ParsedModules(file)) /\ m \in ParsedModules(file)
      /\ DistinctIdents(Modules(file))
  BY ModulesTyped, ParsedIdents, ElementsOf
<1>2. PICK i \in DOMAIN Modules(file) : m = Modules(file)[i]
  BY DEF ToSet
<1>3. s \in Infos(file) /\ s \in ToSet(m.submodules) /\ IsTelegram(s)
  BY <1>1, TelegramsOf
<1>4. WithIdent(Modules(file), m.ident) = m
  BY <1>1, KnownByIdent
<1>5. WithIdent(m.submodules, s.ident) = s
  <2>1. m.submodules \in Seq(Infos(file))
    BY <1>1 DEF ParsedModules
  <2>2. DistinctIdents(m.submodules)
    BY <1>2, ParsedIdents
  <2> QED
    BY <1>3, <2>1, <2>2, KnownByIdent
<1>6. s.in + s.out > 0
  BY <1>2, <1>3, TelegramsCarryData
<1>7. m.ident \in Idents(Modules(file))
  BY DEF Idents
<1> QED
  BY <1>4, <1>5, <1>6, <1>7 DEF HasTelegram

\* Every edit keeps the Drive Objects in slots of their own, from 1 on.
RackPlaced(rack) == SlotsDiffer(rack) /\ \A i \in DOMAIN rack : rack[i].slot > 0

LEMMA AppendPlaced ==
  ASSUME NEW rack \in Seq(DriveObjects), RackPlaced(rack),
         NEW do \in DriveObjects, do.slot = NextSlot(rack)
  PROVE  RackPlaced(Append(rack, do))
<1> DEFINE n == Len(rack)
           new == Append(rack, do)
<1>1. /\ n \in Nat /\ DOMAIN rack = 1 .. n /\ DOMAIN new = 1 .. n + 1 /\ new[n + 1] = do
      /\ \A k \in 1 .. n : new[k] = rack[k]
  OBVIOUS
<1>2. do.slot \in Nat \ {0} /\ \A k \in 1 .. n : rack[k].slot # do.slot
  BY <1>1, NextSlotIs
<1>3. /\ \A j, k \in 1 .. n : rack[j].slot = rack[k].slot => j = k
      /\ \A k \in 1 .. n : rack[k].slot > 0
  BY <1>1 DEF RackPlaced, SlotsDiffer
<1> HIDE DEF n, new
<1>4. \A k \in 1 .. n + 1 : k = n + 1 \/ k \in 1 .. n
  BY <1>1
<1>5. \A j, k \in 1 .. n + 1 : new[j].slot = new[k].slot => j = k
  BY <1>1, <1>2, <1>3, <1>4
<1>6. do.slot > 0
  BY <1>2
<1>7. \A k \in 1 .. n + 1 : new[k].slot > 0
  BY <1>1, <1>3, <1>4, <1>6
<1> QED
  BY <1>1, <1>5, <1>7 DEF RackPlaced, SlotsDiffer, new

LEMMA SetTelegramPlaced ==
  ASSUME NEW rack \in Seq(DriveObjects), RackPlaced(rack), NEW i \in DOMAIN rack,
         NEW s, s.ident \in Nat, s.in \in Nat, s.out \in Nat
  PROVE  RackPlaced(SetTelegram(rack, i, s))
<1> DEFINE n == Len(rack)
           new == SetTelegram(rack, i, s)
<1>1. new \in Seq(DriveObjects) /\ Len(new) = n /\ n \in Nat
      /\ \A k \in 1 .. n : new[k] = IF k = i THEN DriveObject(rack[i].slot, 3, rack[i].module,
                                                             s.ident, s.in, s.out)
                                    ELSE rack[k]
  BY SetTelegramIs
<1>2. DOMAIN new = 1 .. n /\ DOMAIN rack = 1 .. n
  BY <1>1
<1>3. \A k \in 1 .. n : new[k].slot = rack[k].slot
  BY <1>1 DEF DriveObject
<1> QED
  BY <1>2, <1>3 DEF RackPlaced, SlotsDiffer

LEMMA RemovePlaced ==
  ASSUME NEW rack \in Seq(DriveObjects), RackPlaced(rack), NEW i \in DOMAIN rack
  PROVE  RackPlaced(RemoveAt(rack, i))
<1> DEFINE n == Len(rack)
           new == RemoveAt(rack, i)
           at == [k \in 1 .. n - 1 |-> IF k < i THEN k ELSE k + 1]
<1>1. /\ new \in Seq(DriveObjects) /\ Len(new) = n - 1 /\ n \in Nat /\ i \in 1 .. n
      /\ DOMAIN rack = 1 .. n
      /\ \A k \in 1 .. n - 1 : new[k] = IF k < i THEN rack[k] ELSE rack[k + 1]
  BY RemoveAtIs
<1>2. DOMAIN new = 1 .. n - 1
  <2> HIDE DEF n, new
  <2> QED
    BY <1>1
<1> HIDE DEF n, new
<1>3. /\ \A k \in 1 .. n - 1 : at[k] \in 1 .. n
      /\ \A j, k \in 1 .. n - 1 : at[j] = at[k] => j = k
  BY <1>1
<1>4. \A k \in 1 .. n - 1 : new[k] = rack[at[k]]
  BY <1>1
<1> HIDE DEF at
<1>5. \A k \in 1 .. n - 1 : new[k].slot > 0
  BY <1>1, <1>3, <1>4 DEF RackPlaced
<1>6. ASSUME NEW j \in 1 .. n - 1, NEW k \in 1 .. n - 1, new[j].slot = new[k].slot
      PROVE  j = k
  <2>1. rack[at[j]].slot = rack[at[k]].slot /\ at[j] \in DOMAIN rack /\ at[k] \in DOMAIN rack
    BY <1>1, <1>3, <1>4, <1>6
  <2>2. at[j] = at[k]
    BY <2>1 DEF RackPlaced, SlotsDiffer
  <2> QED
    BY <1>3, <2>2
<1> QED
  BY <1>2, <1>5, <1>6 DEF RackPlaced, SlotsDiffer, new

LEMMA EditsPlaced ==
  ASSUME NEW file, NEW modules \in Seq(ParsedModules(file)), NEW rack \in Seq(DriveObjects),
         RackPlaced(rack), NEW new \in RackEdits(rack, modules)
  PROVE  RackPlaced(new)
<1>1. ASSUME NEW m \in ToSet(modules), new = AddModule(rack, m) PROVE RackPlaced(new)
  <2>1. m \in ParsedModules(file)
    BY ElementsOf
  <2>2. PICK do \in DriveObjects :
          AddModule(rack, m) = Append(rack, do) /\ Added(do, NextSlot(rack), m)
    BY <2>1, AddModuleIs
  <2> QED
    BY <1>1, <2>2, AppendPlaced DEF Added
<1>2. ASSUME NEW i \in DOMAIN rack, NEW s \in Settable(rack, i, modules),
             new = SetTelegram(rack, i, s)
      PROVE  RackPlaced(new)
  <2>1. s.ident \in Nat /\ s.in \in Nat /\ s.out \in Nat
    BY SettableIs, InfosTyped
  <2> QED
    BY <1>2, <2>1, SetTelegramPlaced
<1>3. ASSUME NEW i \in DOMAIN rack, new = RemoveAt(rack, i) PROVE RackPlaced(new)
  BY <1>3, RemovePlaced
<1> QED
  BY <1>1, <1>2, <1>3, EditsTyped

\* Every edit keeps a rack sound.
LEMMA EditsSound ==
  ASSUME NEW file \in Files, IdentsDiffer(file), FillersNamed(file),
         NEW rack \in Seq(DriveObjects), RackPlaced(rack), RackSound(rack, Modules(file)),
         NEW new \in RackEdits(rack, Modules(file))
  PROVE  RackSound(new, Modules(file)) /\ RackPlaced(new)
<1> DEFINE modules == Modules(file)
<1>1. modules \in Seq(ParsedModules(file))
  BY ModulesTyped
<1>2. RackPlaced(new)
  BY <1>1, EditsPlaced
<1>3. \A k \in 1 .. Len(rack) : DriveSound(rack[k], modules)
  BY RackSoundIs
<1> HIDE DEF modules
<1>4. ASSUME NEW m \in ToSet(modules), new = AddModule(rack, m), NEW k \in DOMAIN new
      PROVE  DriveSound(new[k], modules)
  <2>1. m \in ParsedModules(file)
    BY <1>1, ElementsOf
  <2>2. PICK do \in DriveObjects :
          AddModule(rack, m) = Append(rack, do) /\ Added(do, NextSlot(rack), m)
    BY <2>1, AddModuleIs
  <2>3. DriveSound(do, modules)
    <3>1. CASE do.telegram = 0
      BY <3>1 DEF DriveSound
    <3>2. ASSUME NEW s \in ToSet(Telegrams(m)),
                 do.telegram = s.ident, do.in = s.in, do.out = s.out
          PROVE  HasTelegram(do, modules)
      <4>1. do.module = m.ident
        BY <2>2 DEF Added
      <4> QED
        BY <3>2, <4>1, TelegramHad DEF modules
    <3> QED
      BY <2>2, <3>1, <3>2 DEF Added, DriveSound
  <2>4. \/ k = Len(rack) + 1 /\ new[k] = do
        \/ k \in 1 .. Len(rack) /\ new[k] = rack[k]
    BY <1>4, <2>2
  <2> QED
    BY <1>3, <2>3, <2>4
<1>5. ASSUME NEW i \in DOMAIN rack, NEW s \in Settable(rack, i, modules),
             new = SetTelegram(rack, i, s), NEW k \in DOMAIN new
      PROVE  DriveSound(new[k], modules)
  <2> DEFINE m == ModuleWith(modules, rack[i].module)
             do == DriveObject(rack[i].slot, 3, rack[i].module, s.ident, s.in, s.out)
  <2>1. /\ rack[i].module \in Idents(modules) /\ m \in ToSet(modules)
        /\ s \in ToSet(Telegrams(m)) /\ s \in Infos(file)
    BY <1>1, SettableIs
  <2>2. m.ident = rack[i].module
    BY <1>1, <2>1, WithIdentIs DEF ModuleWith, WithIdent
  <2>3. s.ident \in Nat /\ s.in \in Nat /\ s.out \in Nat
    BY <2>1, InfosTyped
  <2>4. /\ new \in Seq(DriveObjects) /\ Len(new) = Len(rack)
        /\ \A j \in 1 .. Len(rack) : new[j] = IF j = i THEN do ELSE rack[j]
    BY <1>5, <2>3, SetTelegramIs
  <2>5. /\ do.module = m.ident /\ do.telegram = s.ident /\ do.in = s.in /\ do.out = s.out
    BY <2>2 DEF DriveObject
  <2> HIDE DEF m, do
  <2>6. DriveSound(do, modules)
    BY <2>1, <2>5, TelegramHad DEF modules, DriveSound
  <2>7. k \in 1 .. Len(rack)
    BY <2>4
  <2> QED
    BY <1>3, <2>4, <2>6, <2>7
<1>6. ASSUME NEW i \in DOMAIN rack, new = RemoveAt(rack, i), NEW k \in DOMAIN new
      PROVE  DriveSound(new[k], modules)
  <2>1. /\ new \in Seq(DriveObjects) /\ Len(new) = Len(rack) - 1
        /\ \A j \in 1 .. Len(rack) - 1 : new[j] = IF j < i THEN rack[j] ELSE rack[j + 1]
    BY <1>6, RemoveAtIs
  <2>2. k \in 1 .. Len(rack) - 1 /\ Len(rack) \in Nat
    BY <2>1
  <2>3. k \in 1 .. Len(rack) /\ k + 1 \in 1 .. Len(rack)
    BY <2>2
  <2> QED
    BY <1>3, <2>1, <2>2, <2>3
<1>7. \A k \in DOMAIN new : DriveSound(new[k], modules)
  BY <1>1, <1>4, <1>5, <1>6, EditsTyped DEF modules
<1> QED
  BY <1>2, <1>7, RackSoundIs DEF RackPlaced, modules

-----------------------------------------------------------------------------
(* Lengths. *)

LEMMA EffectiveTyped ==
  ASSUME NEW config \in DeviceConfigs
  PROVE  EffectiveRack(config) \in Seq(DriveObjects) /\ EffectiveRack(config) # <<>>
<1>1. config.rack \in Seq(DriveObjects) /\ config.legacy \in DriveObjects
  BY DEF DeviceConfigs
<1> QED
  BY <1>1 DEF EffectiveRack

LEMMA LengthsTyped ==
  ASSUME NEW S, \A x \in S : x.in \in Nat /\ x.out \in Nat, NEW items \in Seq(S)
  PROVE  /\ Outs(items) \in Seq(Nat) /\ Len(Outs(items)) = Len(items)
         /\ Ins(items) \in Seq(Nat) /\ Len(Ins(items)) = Len(items)
         /\ \A i \in 1 .. Len(items) : Outs(items)[i] = items[i].out /\ Ins(items)[i] = items[i].in
<1>1. DOMAIN items = 1 .. Len(items) /\ Len(items) \in Nat
  OBVIOUS
<1>2. \A i \in 1 .. Len(items) : items[i].in \in Nat /\ items[i].out \in Nat
  <2>1. \A i \in 1 .. Len(items) : items[i] \in S
    OBVIOUS
  <2> QED
    BY <2>1
<1>3. /\ Outs(items) \in [1 .. Len(items) -> Nat] /\ Ins(items) \in [1 .. Len(items) -> Nat]
      /\ \A i \in 1 .. Len(items) : Outs(items)[i] = items[i].out /\ Ins(items)[i] = items[i].in
  BY <1>1, <1>2 DEF Outs, Ins
<1> HIDE DEF Outs, Ins
<1>4. Outs(items) \in Seq(Nat) /\ Len(Outs(items)) = Len(items)
  BY <1>1, <1>3
<1>5. Ins(items) \in Seq(Nat) /\ Len(Ins(items)) = Len(items)
  BY <1>1, <1>3
<1> QED
  BY <1>3, <1>4, <1>5

LEMMA DriveLengths ==
  /\ \A x \in DriveObjects : x.in \in Nat /\ x.out \in Nat
  /\ \A x \in DataParts : x.in \in Nat /\ x.out \in Nat
BY DEF DriveObjects, DataParts

LEMMA TotalIs ==
  ASSUME NEW l \in Seq(Nat)
  PROVE  Total(l) = SumOf(l, 1 .. Len(l)) /\ Total(l) \in Nat
<1>1. DOMAIN l = 1 .. Len(l) /\ Len(l) \in Nat /\ \A i \in 1 .. Len(l) : l[i] \in Nat
  OBVIOUS
<1>2. Total(l) = SumOf(l, 1 .. Len(l))
  BY <1>1 DEF Total, SumOf
<1> DEFINE n == Len(l)
<1> HIDE DEF n
<1>3. \A i \in 0 .. n : SumOf(l, 1 .. i) \in Nat
  BY <1>1, SumPrefix DEF n
<1>4. n \in 0 .. n
  BY <1>1 DEF n
<1> QED
  BY <1>2, <1>3, <1>4 DEF n

LEMMA TotalsTyped ==
  ASSUME NEW config \in DeviceConfigs
  PROVE  TotalOut(config) \in Nat /\ TotalIn(config) \in Nat
<1>1. EffectiveRack(config) \in Seq(DriveObjects)
  BY EffectiveTyped
<1>2. Outs(EffectiveRack(config)) \in Seq(Nat) /\ Ins(EffectiveRack(config)) \in Seq(Nat)
  BY <1>1, DriveLengths, LengthsTyped
<1> QED
  BY <1>2, TotalIs DEF TotalOut, TotalIn

\* The parts of the process data have the lengths of the Drive Objects, whether the GSDML
\* file was found or not.
LEMMA PartsOf ==
  ASSUME NEW file, NEW found \in BOOLEAN, NEW config \in DeviceConfigs, NEW env
  PROVE  LET dos == ExpectedSlots(file, found, config, env).dos IN
         /\ dos \in Seq(DataParts)
         /\ Outs(dos) = Outs(EffectiveRack(config)) /\ Ins(dos) = Ins(EffectiveRack(config))
<1> DEFINE rack == EffectiveRack(config)
           dos == ExpectedSlots(file, found, config, env).dos
<1>1. rack \in Seq(DriveObjects)
  BY EffectiveTyped
<1>2. \/ dos = [i \in DOMAIN rack |-> Data(i, 3, rack[i])]
      \/ dos = [i \in DOMAIN rack |-> Data(rack[i].slot, rack[i].subslot, rack[i])]
  BY DEF ExpectedSlots
<1> HIDE DEF rack, dos
<1>3. DOMAIN rack = 1 .. Len(rack) /\ Len(rack) \in Nat
  BY <1>1
<1>4. ASSUME NEW i \in 1 .. Len(rack)
      PROVE  /\ rack[i].slot \in Nat /\ rack[i].subslot \in Nat
             /\ rack[i].in \in Nat /\ rack[i].out \in Nat
  <2>1. rack[i] \in DriveObjects
    BY <1>1
  <2> QED
    BY <2>1 DEF DriveObjects
<1>5. /\ dos \in [1 .. Len(rack) -> DataParts]
      /\ \A i \in 1 .. Len(rack) : dos[i].in = rack[i].in /\ dos[i].out = rack[i].out
  <2>1. CASE dos = [i \in DOMAIN rack |-> Data(i, 3, rack[i])]
    <3>1. \A i \in 1 .. Len(rack) : Data(i, 3, rack[i]) \in DataParts
      BY <1>3, <1>4 DEF Data, DataParts
    <3> QED
      BY <1>3, <2>1, <3>1 DEF Data
  <2>2. CASE dos = [i \in DOMAIN rack |-> Data(rack[i].slot, rack[i].subslot, rack[i])]
    <3>1. \A i \in 1 .. Len(rack) :
            Data(rack[i].slot, rack[i].subslot, rack[i]) \in DataParts
      BY <1>3, <1>4 DEF Data, DataParts
    <3> QED
      BY <1>3, <2>2, <3>1 DEF Data
  <2> QED
    BY <1>2, <2>1, <2>2
<1>6. DOMAIN dos = DOMAIN rack
  BY <1>3, <1>5
<1>7. Outs(dos) = Outs(rack) /\ Ins(dos) = Ins(rack)
  BY <1>3, <1>5, <1>6 DEF Outs, Ins
<1>8. dos \in Seq(DataParts)
  BY <1>3, <1>5
<1> QED
  BY <1>7, <1>8 DEF rack, dos

LEMMA ApplyTyped ==
  ASSUME NEW config \in DeviceConfigs, NEW rack \in Seq(DriveObjects)
  PROVE  ApplyRack(config, rack) \in DeviceConfigs
<1> DEFINE edited == [config EXCEPT !.rack = rack]
<1>1. edited \in DeviceConfigs
  BY DEF DeviceConfigs
<1> HIDE DEF edited
<1>2. EffectiveRack(edited) \in Seq(DriveObjects) /\ EffectiveRack(edited) # <<>>
  BY <1>1, EffectiveTyped
<1>3. Head(EffectiveRack(edited)) \in DriveObjects
  BY <1>2
<1>4. ApplyRack(config, rack) = [edited EXCEPT !.legacy = Head(EffectiveRack(edited))]
  BY DEF ApplyRack, SyncLegacy, edited
<1> QED
  BY <1>1, <1>3, <1>4 DEF DeviceConfigs

-----------------------------------------------------------------------------
(* Layouts. *)

LEMMA OnlySet ==
  ASSUME NEW S, NEW seq \in Seq(S), NEW good
  PROVE  ToSet(Only(seq, good)) = ToSet(seq) \cap good
<1>1. /\ DOMAIN Only(seq, good) = 1 .. Len(Only(seq, good))
      /\ \A k \in DOMAIN Only(seq, good) :
           Only(seq, good)[k] \in good /\ Only(seq, good)[k] \in ToSet(seq)
  BY OnlyElements
<1>2. PICK p : OnlyOf(Only(seq, good), seq, Len(seq), good, p)
  BY OnlyIs
<1>3. ASSUME NEW x \in ToSet(seq), x \in good PROVE x \in ToSet(Only(seq, good))
  <2>1. PICK i \in 1 .. Len(seq) : seq[i] = x
    BY DEF ToSet
  <2>2. PICK k \in 1 .. Len(Only(seq, good)) : p[k] = i
    BY <1>2, <1>3, <2>1 DEF OnlyOf
  <2>3. Only(seq, good)[k] = x
    BY <1>2, <2>1, <2>2 DEF OnlyOf
  <2> QED
    BY <1>1, <2>3 DEF ToSet
<1>4. ASSUME NEW x \in ToSet(Only(seq, good)) PROVE x \in ToSet(seq) \cap good
  BY <1>1 DEF ToSet
<1> QED
  BY <1>3, <1>4

\* Two that have the name are the same element.
LEMMA OnceIsOne ==
  ASSUME NEW S, NEW seq \in Seq(S), OncePerName(seq),
         NEW x \in ToSet(seq), NEW y \in ToSet(seq), x.slot = y.slot, x.subslot = y.subslot
  PROVE  x = y
<1>1. PICK i \in DOMAIN seq : seq[i] = x
  BY DEF ToSet
<1>2. PICK j \in DOMAIN seq : seq[j] = y
  BY DEF ToSet
<1> QED
  BY <1>1, <1>2 DEF OncePerName

LEMMA OnlyOncePerName ==
  ASSUME NEW S, NEW seq \in Seq(S), NEW good, OncePerName(seq)
  PROVE  OncePerName(Only(seq, good))
<1> DEFINE only == Only(seq, good)
<1>1. /\ DOMAIN only = 1 .. Len(only) /\ Len(only) \in Nat
  BY OnlyElements, OnlyIs
<1>2. PICK p : OnlyOf(only, seq, Len(seq), good, p)
  BY OnlyIs
<1> HIDE DEF only
<1>3. SUFFICES ASSUME NEW i \in 1 .. Len(only), NEW j \in 1 .. Len(only),
                      only[i].slot = only[j].slot, only[i].subslot = only[j].subslot
               PROVE  i = j
  BY <1>1 DEF OncePerName, only
<1>4. p[i] \in DOMAIN seq /\ p[j] \in DOMAIN seq /\ seq[p[i]] = only[i] /\ seq[p[j]] = only[j]
  BY <1>2 DEF OnlyOf
<1>5. p[i] = p[j]
  BY <1>3, <1>4 DEF OncePerName
<1>6. p[i] \in Nat /\ p[j] \in Nat
  BY <1>4
<1>7. (i < j => p[i] < p[j]) /\ (j < i => p[j] < p[i])
  BY <1>2 DEF OnlyOf
<1> QED
  BY <1>1, <1>5, <1>6, <1>7

\* The elements are told apart by a key that they have.
DistinctBy(key, seq) == \A i, j \in DOMAIN seq : key[seq[i]] = key[seq[j]] => i = j

LEMMA JoinedDistinct ==
  ASSUME NEW S, NEW a \in Seq(S), NEW b \in Seq(S), NEW key, DistinctBy(key, a), DistinctBy(key, b),
         \A x \in ToSet(a) : \A y \in ToSet(b) : key[x] # key[y]
  PROVE  DistinctBy(key, a \o b)
<1> DEFINE n == Len(a)
           m == Len(b)
           joined == a \o b
<1>1. joined \in Seq(S) /\ JoinedOf(joined, a, b, n, m)
  BY JoinedIs
<1>2. n \in Nat /\ m \in Nat /\ DOMAIN a = 1 .. n /\ DOMAIN b = 1 .. m
  OBVIOUS
<1>3. DOMAIN joined = 1 .. n + m
  <2> HIDE DEF joined
  <2> QED
    BY <1>1 DEF JoinedOf
<1> HIDE DEF n, m, joined
<1>4. ASSUME NEW i \in 1 .. n, NEW j \in 1 .. m PROVE key[a[i]] # key[b[j]]
  <2>1. a[i] \in ToSet(a) /\ b[j] \in ToSet(b)
    BY <1>2 DEF ToSet
  <2> QED
    BY <2>1
<1>5. SUFFICES ASSUME NEW i \in 1 .. n + m, NEW j \in 1 .. n + m, key[joined[i]] = key[joined[j]]
               PROVE  i = j
  BY <1>3 DEF DistinctBy, joined
<1>6. CASE i \in 1 .. n /\ j \in 1 .. n
  <2>1. joined[i] = a[i] /\ joined[j] = a[j]
    BY <1>1, <1>6 DEF JoinedOf
  <2> QED
    BY <1>2, <1>5, <1>6, <2>1 DEF DistinctBy
<1>7. CASE i \in 1 .. n /\ j \notin 1 .. n
  <2>1. PICK k \in 1 .. m : j = n + k
    BY <1>1, <1>7 DEF JoinedOf
  <2>2. joined[i] = a[i] /\ joined[j] = b[k]
    BY <1>1, <1>7, <2>1 DEF JoinedOf
  <2> QED
    BY <1>4, <1>5, <1>7, <2>2
<1>8. CASE i \notin 1 .. n /\ j \in 1 .. n
  <2>1. PICK k \in 1 .. m : i = n + k
    BY <1>1, <1>8 DEF JoinedOf
  <2>2. joined[j] = a[j] /\ joined[i] = b[k]
    BY <1>1, <1>8, <2>1 DEF JoinedOf
  <2> QED
    BY <1>4, <1>5, <1>8, <2>2
<1>9. CASE i \notin 1 .. n /\ j \notin 1 .. n
  <2>1. PICK k \in 1 .. m : i = n + k
    BY <1>1, <1>9 DEF JoinedOf
  <2>2. PICK l \in 1 .. m : j = n + l
    BY <1>1, <1>9 DEF JoinedOf
  <2>3. joined[i] = b[k] /\ joined[j] = b[l]
    BY <1>1, <2>1, <2>2 DEF JoinedOf
  <2>4. k = l
    BY <1>2, <1>5, <2>3 DEF DistinctBy
  <2> QED
    BY <2>1, <2>2, <2>4
<1> QED
  BY <1>6, <1>7, <1>8, <1>9

LEMMA JoinedOncePerName ==
  ASSUME NEW S, NEW a \in Seq(S), NEW b \in Seq(S), OncePerName(a), OncePerName(b),
         Names(a) \cap Names(b) = {}
  PROVE  OncePerName(a \o b)
<1> DEFINE key == [x \in S |-> <<x.slot, x.subslot>>]
<1>1. \A seq \in Seq(S) : OncePerName(seq) <=> DistinctBy(key, seq)
  <2> SUFFICES ASSUME NEW seq \in Seq(S) PROVE OncePerName(seq) <=> DistinctBy(key, seq)
    OBVIOUS
  <2>1. \A i \in DOMAIN seq : key[seq[i]] = <<seq[i].slot, seq[i].subslot>>
    OBVIOUS
  <2> HIDE DEF key
  <2>2. \A i, j \in DOMAIN seq :
          key[seq[i]] = key[seq[j]] <=> seq[i].slot = seq[j].slot /\ seq[i].subslot = seq[j].subslot
    <3> TAKE i, j \in DOMAIN seq
    <3>1. <<seq[i].slot, seq[i].subslot>> = <<seq[j].slot, seq[j].subslot>>
            <=> seq[i].slot = seq[j].slot /\ seq[i].subslot = seq[j].subslot
      OBVIOUS
    <3>2. key[seq[i]] = <<seq[i].slot, seq[i].subslot>> /\ key[seq[j]] = <<seq[j].slot, seq[j].subslot>>
      BY <2>1
    <3> QED
      BY <3>1, <3>2
  <2> QED
    BY <2>2 DEF OncePerName, DistinctBy
<1>2. ASSUME NEW x \in ToSet(a), NEW y \in ToSet(b) PROVE key[x] # key[y]
  <2>1. x \in S /\ y \in S
    BY DEF ToSet
  <2>2. <<x.slot, x.subslot>> \in Names(a) /\ <<y.slot, y.subslot>> \in Names(b)
    BY DEF Names
  <2> QED
    BY <2>1, <2>2
<1>3. a \o b \in Seq(S)
  BY ConcatProperties
<1>4. DistinctBy(key, a) /\ DistinctBy(key, b)
  BY <1>1
<1> HIDE DEF key
<1>5. DistinctBy(key, a \o b)
  BY <1>2, <1>4, JoinedDistinct
<1> QED
  BY <1>1, <1>3, <1>5

LEMMA JoinedInjective ==
  ASSUME NEW S, NEW a \in Seq(S), NEW b \in Seq(S), IsInjective(a), IsInjective(b),
         ToSet(a) \cap ToSet(b) = {}
  PROVE  IsInjective(a \o b)
<1> DEFINE key == [x \in S |-> x]
<1>1. \A seq \in Seq(S) : IsInjective(seq) <=> DistinctBy(key, seq)
  <2> SUFFICES ASSUME NEW seq \in Seq(S) PROVE IsInjective(seq) <=> DistinctBy(key, seq)
    OBVIOUS
  <2>1. \A i \in DOMAIN seq : key[seq[i]] = seq[i]
    OBVIOUS
  <2> QED
    BY <2>1 DEF IsInjective, DistinctBy
<1>2. ASSUME NEW x \in ToSet(a), NEW y \in ToSet(b) PROVE key[x] # key[y]
  <2>1. x \in S /\ y \in S
    BY DEF ToSet
  <2> QED
    BY <2>1
<1>3. a \o b \in Seq(S)
  BY ConcatProperties
<1>4. DistinctBy(key, a) /\ DistinctBy(key, b)
  BY <1>1
<1> HIDE DEF key
<1>5. DistinctBy(key, a \o b)
  BY <1>2, <1>4, JoinedDistinct
<1> QED
  BY <1>1, <1>3, <1>5

\* A field: a row of them stands in its order, with something in between.
Fields == [slot : Nat, subslot : Nat, len : Nat, at : Nat]
Ordered(fields) ==
  \A i, j \in DOMAIN fields : i < j => fields[i].at + fields[i].len < fields[j].at

\* What a row of fields is like.
RowOf(row, subs, lengths, base, n) ==
  /\ Len(row) = n /\ Ordered(row)
  /\ \A i \in 1 .. n :
       /\ row[i].slot = subs[i].slot /\ row[i].subslot = subs[i].subslot
       /\ row[i].len = lengths[i] /\ row[i].at >= base
  /\ n > 0 => row[1].at = base
  /\ \A i \in 1 .. n - 1 : row[i + 1].at = row[i].at + row[i].len + 1

LEMMA RowIs ==
  ASSUME NEW subs \in Seq(DataParts), NEW lengths \in Seq(Nat), Len(lengths) = Len(subs),
         NEW base \in Nat
  PROVE  /\ InARow(subs, lengths, base) \in Seq(Fields)
         /\ RowOf(InARow(subs, lengths, base), subs, lengths, base, Len(subs))
<1> DEFINE n == Len(subs)
           row == InARow(subs, lengths, base)
           at(i) == base + SumOf(lengths, 1 .. i - 1) + i - 1
<1>1. n \in Nat /\ DOMAIN subs = 1 .. n /\ \A i \in 1 .. n : subs[i] \in DataParts /\ lengths[i] \in Nat
  OBVIOUS
<1>2. row = [i \in 1 .. n |-> [slot |-> subs[i].slot, subslot |-> subs[i].subslot,
                               len |-> lengths[i], at |-> at(i)]]
  BY <1>1 DEF InARow, PartStart, SumOf
<1> HIDE DEF n, row
<1>3. /\ SumOf(lengths, 1 .. 0) = 0
      /\ \A i \in 0 .. n : SumOf(lengths, 1 .. i) \in Nat
      /\ \A i \in 1 .. n : SumOf(lengths, 1 .. i) = SumOf(lengths, 1 .. i - 1) + lengths[i]
  BY <1>1, SumPrefix
<1>4. \A i \in 1 .. n : at(i) \in Nat /\ at(i) >= base
  <2> SUFFICES ASSUME NEW i \in 1 .. n PROVE at(i) \in Nat /\ at(i) >= base
    OBVIOUS
  <2>1. i - 1 \in 0 .. n
    BY <1>1
  <2>2. SumOf(lengths, 1 .. i - 1) \in Nat
    BY <1>3, <2>1
  <2> QED
    BY <2>2
<1>5. \A i \in 1 .. n - 1 : i \in 1 .. n /\ at(i + 1) = at(i) + lengths[i] + 1
  <2> SUFFICES ASSUME NEW i \in 1 .. n - 1 PROVE i \in 1 .. n /\ at(i + 1) = at(i) + lengths[i] + 1
    OBVIOUS
  <2>1. i \in 1 .. n /\ i - 1 \in 0 .. n /\ i + 1 - 1 = i
    BY <1>1
  <2>2. /\ SumOf(lengths, 1 .. i) = SumOf(lengths, 1 .. i - 1) + lengths[i]
        /\ SumOf(lengths, 1 .. i - 1) \in Nat /\ lengths[i] \in Nat
    BY <1>1, <1>3, <2>1
  <2>3. at(i + 1) = base + SumOf(lengths, 1 .. i) + i
    BY <2>1
  <2> QED
    BY <2>1, <2>2, <2>3
<1>6. ASSUME NEW i \in 1 .. n, NEW j \in 1 .. n, i < j PROVE at(i) + lengths[i] < at(j)
  <2>1. i \in 0 .. n /\ j - 1 \in i .. n /\ i - 1 \in 0 .. n
    BY <1>1, <1>6
  <2>2. SumOf(lengths, 1 .. i) <= SumOf(lengths, 1 .. j - 1)
    BY <1>1, <2>1, SumGrows
  <2>3. /\ SumOf(lengths, 1 .. i) = SumOf(lengths, 1 .. i - 1) + lengths[i]
        /\ SumOf(lengths, 1 .. i - 1) \in Nat /\ SumOf(lengths, 1 .. j - 1) \in Nat
        /\ lengths[i] \in Nat
    BY <1>1, <1>3, <2>1, j - 1 \in 0 .. n
  <2> DEFINE low == SumOf(lengths, 1 .. i - 1)
             high == SumOf(lengths, 1 .. j - 1)
  <2>4. low \in Nat /\ high \in Nat /\ lengths[i] \in Nat /\ low + lengths[i] <= high
    BY <2>2, <2>3
  <2>5. at(i) = base + low + (i - 1) /\ at(j) = base + high + (j - 1)
    OBVIOUS
  <2> HIDE DEF low, high, at
  <2> QED
    BY <1>6, <2>4, <2>5
<1>7. at(1) = base
  BY <1>3
<1> HIDE DEF at
<1>8. \A i \in 1 .. n :
        /\ row[i] \in Fields /\ row[i].slot = subs[i].slot /\ row[i].subslot = subs[i].subslot
        /\ row[i].len = lengths[i] /\ row[i].at = at(i)
  BY <1>1, <1>2, <1>4 DEF Fields, DataParts
<1>9. row \in [1 .. n -> Fields]
  <2>1. row = [i \in 1 .. n |-> row[i]]
    BY <1>2
  <2> QED
    BY <1>8, <2>1
<1>10. row \in Seq(Fields) /\ Len(row) = n /\ DOMAIN row = 1 .. n
  BY <1>1, <1>9
<1>11. Ordered(row)
  BY <1>6, <1>8, <1>10 DEF Ordered
<1>12. \A i \in 1 .. n - 1 : row[i + 1].at = row[i].at + row[i].len + 1
  <2> SUFFICES ASSUME NEW i \in 1 .. n - 1 PROVE row[i + 1].at = row[i].at + row[i].len + 1
    OBVIOUS
  <2>1. i \in 1 .. n /\ i + 1 \in 1 .. n
    BY <1>1
  <2> QED
    BY <1>5, <1>8, <2>1
<1>13. n > 0 => row[1].at = base
  BY <1>1, <1>7, <1>8
<1> QED
  BY <1>4, <1>8, <1>10, <1>11, <1>12, <1>13 DEF RowOf, n, row

\* Each field ends before the end.
LEMMA EndIs ==
  ASSUME NEW fields \in Seq(Fields), Ordered(fields)
  PROVE  /\ End(fields) \in Nat
         /\ \A f \in ToSet(fields) : f.at + f.len < End(fields)
<1> DEFINE n == Len(fields)
<1>1. n \in Nat /\ DOMAIN fields = 1 .. n /\ \A i \in 1 .. n : fields[i] \in Fields
  OBVIOUS
<1>2. CASE fields = <<>>
  BY <1>2 DEF End, ToSet
<1>3. CASE fields # <<>>
  <2>1. n > 0
    BY <1>1, <1>3
  <2>2. End(fields) = fields[n].at + fields[n].len + 1
    BY <1>3 DEF End, Last
  <2> HIDE DEF n
  <2>3. n \in 1 .. n /\ fields[n].at \in Nat /\ fields[n].len \in Nat
    BY <1>1, <2>1 DEF Fields
  <2>4. ASSUME NEW f \in ToSet(fields) PROVE f.at + f.len < End(fields)
    <3>1. PICK i \in 1 .. n : fields[i] = f
      BY <1>1 DEF ToSet
    <3>2. i = n \/ i < n
      BY <1>1
    <3>3. f.at \in Nat /\ f.len \in Nat
      BY <1>1, <3>1 DEF Fields
    <3>4. i < n => f.at + f.len < fields[n].at
      BY <1>1, <2>3, <3>1 DEF Ordered
    <3> QED
      BY <2>2, <2>3, <3>1, <3>2, <3>3, <3>4
  <2> QED
    BY <2>2, <2>3, <2>4
<1> QED
  BY <1>2, <1>3

\* Fields behind the end of others.
LEMMA OrderedJoined ==
  ASSUME NEW a \in Seq(Fields), NEW b \in Seq(Fields), Ordered(a), Ordered(b),
         \A f \in ToSet(b) : f.at >= End(a)
  PROVE  Ordered(a \o b)
<1> DEFINE n == Len(a)
           m == Len(b)
           joined == a \o b
<1>1. joined \in Seq(Fields) /\ JoinedOf(joined, a, b, n, m)
  BY JoinedIs
<1>2. /\ n \in Nat /\ m \in Nat /\ DOMAIN a = 1 .. n /\ DOMAIN b = 1 .. m
      /\ \A i \in 1 .. n : a[i] \in Fields
      /\ \A i \in 1 .. m : b[i] \in Fields
  OBVIOUS
<1>3. End(a) \in Nat /\ \A f \in ToSet(a) : f.at + f.len < End(a)
  BY EndIs
<1> HIDE DEF n, m, joined
<1>4. DOMAIN joined = 1 .. n + m
  BY <1>1 DEF JoinedOf
<1>5. SUFFICES ASSUME NEW i \in 1 .. n + m, NEW j \in 1 .. n + m, i < j
               PROVE  joined[i].at + joined[i].len < joined[j].at
  BY <1>4 DEF Ordered, joined
<1>6. CASE j \in 1 .. n
  <2>1. i \in 1 .. n
    BY <1>2, <1>5, <1>6
  <2>2. joined[i] = a[i] /\ joined[j] = a[j]
    BY <1>1, <1>6, <2>1 DEF JoinedOf
  <2> QED
    BY <1>2, <1>5, <1>6, <2>1, <2>2 DEF Ordered
<1>7. CASE j \notin 1 .. n
  <2>1. PICK l \in 1 .. m : j = n + l
    BY <1>1, <1>7 DEF JoinedOf
  <2>2. joined[j] = b[l] /\ b[l] \in ToSet(b) /\ b[l].at \in Nat
    BY <1>1, <1>2, <2>1 DEF JoinedOf, ToSet, Fields
  <2>3. CASE i \in 1 .. n
    <3>1. joined[i] = a[i] /\ a[i] \in ToSet(a) /\ a[i].at \in Nat /\ a[i].len \in Nat
      BY <1>1, <1>2, <2>3 DEF JoinedOf, ToSet, Fields
    <3>2. joined[i].at + joined[i].len < End(a)
      BY <1>3, <3>1
    <3>3. joined[j].at >= End(a) /\ joined[j].at \in Nat
      BY <2>2
    <3>4. joined[i].at \in Nat /\ joined[i].len \in Nat
      BY <3>1
    <3> QED
      BY <1>3, <3>2, <3>3, <3>4
  <2>4. CASE i \notin 1 .. n
    <3>1. PICK k \in 1 .. m : i = n + k
      BY <1>1, <2>4 DEF JoinedOf
    <3>2. joined[i] = b[k] /\ k < l
      BY <1>1, <1>2, <1>5, <2>1, <3>1 DEF JoinedOf
    <3> QED
      BY <1>2, <2>2, <3>2 DEF Ordered
  <2> QED
    BY <2>3, <2>4
<1> QED
  BY <1>6, <1>7

\* Some of the fields that stand in an order, each once, are apart.
LEMMA GapBetween ==
  ASSUME NEW p \in Fields, NEW q \in Fields, p.at + p.len < q.at
  PROVE  Bytes(p) \cap Bytes(q) = {}
<1>1. p.at \in Nat /\ p.len \in Nat /\ q.at \in Nat /\ q.len \in Nat
  BY DEF Fields
<1> DEFINE last == p.at + p.len
           top == q.at + q.len
<1>2. Bytes(p) = p.at .. last /\ Bytes(q) = q.at .. top
  BY DEF Bytes
<1>3. last \in Nat /\ top \in Nat /\ last < q.at
  BY <1>1
<1> HIDE DEF last, top
<1>4. (p.at .. last) \cap (q.at .. top) = {}
  BY <1>1, <1>3
<1> QED
  BY <1>2, <1>4

LEMMA ApartIs ==
  ASSUME NEW all \in Seq(Fields), Ordered(all),
         NEW fields \in Seq(Fields), ToSet(fields) \subseteq ToSet(all), IsInjective(fields)
  PROVE  Apart(fields)
<1>1. SUFFICES ASSUME NEW i \in DOMAIN fields, NEW j \in DOMAIN fields, i # j
               PROVE  Bytes(fields[i]) \cap Bytes(fields[j]) = {}
  BY DEF Apart
<1>2. fields[i] \in ToSet(fields) /\ fields[j] \in ToSet(fields) /\ fields[i] # fields[j]
  BY <1>1 DEF ToSet, IsInjective
<1>3. PICK k \in DOMAIN all : all[k] = fields[i]
  BY <1>2 DEF ToSet
<1>4. PICK l \in DOMAIN all : all[l] = fields[j]
  BY <1>2 DEF ToSet
<1>5. DOMAIN all = 1 .. Len(all) /\ \A x \in 1 .. Len(all) : all[x] \in Fields
  OBVIOUS
<1>6. k < l \/ l < k
  BY <1>2, <1>3, <1>4, <1>5
<1>7. all[k] \in Fields /\ all[l] \in Fields
  BY <1>5
<1>8. CASE k < l
  <2>1. all[k].at + all[k].len < all[l].at
    BY <1>8 DEF Ordered
  <2> QED
    BY <1>3, <1>4, <1>7, <2>1, GapBetween
<1>9. CASE l < k
  <2>1. all[l].at + all[l].len < all[k].at
    BY <1>9 DEF Ordered
  <2>2. Bytes(all[l]) \cap Bytes(all[k]) = {}
    BY <1>7, <2>1, GapBetween
  <2> QED
    BY <1>3, <1>4, <2>2
<1> QED
  BY <1>6, <1>8, <1>9

LEMMA OrderedInjective ==
  ASSUME NEW fields \in Seq(Fields), Ordered(fields)
  PROVE  IsInjective(fields)
<1>1. DOMAIN fields = 1 .. Len(fields) /\ \A i \in 1 .. Len(fields) : fields[i] \in Fields
  OBVIOUS
<1>2. SUFFICES ASSUME NEW i \in 1 .. Len(fields), NEW j \in 1 .. Len(fields), fields[i] = fields[j]
               PROVE  i = j
  BY <1>1 DEF IsInjective
<1>3. fields[i].at \in Nat /\ fields[i].len \in Nat
  BY <1>1 DEF Fields
<1>4. ~(i < j) /\ ~(j < i)
  BY <1>1, <1>2, <1>3 DEF Ordered
<1> QED
  BY <1>4

LEMMA MaxLen ==
  ASSUME NEW n \in Nat
  PROVE  Max({40, n}) \in Nat /\ Max({40, n}) >= n /\ Max({40, n}) >= 40 /\ Max({40, n}) \in {40, n}
<1>1. {40, n} \in SUBSET (0 .. 40 + n) /\ {40, n} # {} /\ 40 + n \in Nat
  OBVIOUS
<1>2. Max({40, n}) \in {40, n} /\ \A y \in {40, n} : Max({40, n}) >= y
  BY <1>1, MaxIs
<1> QED
  BY <1>2

\* The names in a row are those of its submodules.
LEMMA RowNames ==
  ASSUME NEW subs \in Seq(DataParts), NEW row \in Seq(Fields), NEW lengths, NEW base,
         RowOf(row, subs, lengths, base, Len(subs))
  PROVE  /\ Names(row) = Names(subs)
         /\ OncePerName(subs) => OncePerName(row)
<1> DEFINE n == Len(subs)
<1>1. DOMAIN subs = 1 .. n /\ DOMAIN row = 1 .. Len(row)
  OBVIOUS
<1> HIDE DEF n
<1>2. DOMAIN row = 1 .. n /\ \A i \in 1 .. n : row[i].slot = subs[i].slot /\ row[i].subslot = subs[i].subslot
  BY <1>1 DEF RowOf, n
<1>3. ToSet(row) = {row[i] : i \in 1 .. n} /\ ToSet(subs) = {subs[i] : i \in 1 .. n}
  BY <1>1, <1>2 DEF ToSet
<1>4. Names(row) = {<<row[i].slot, row[i].subslot>> : i \in 1 .. n}
  BY <1>3 DEF Names
<1>5. Names(subs) = {<<subs[i].slot, subs[i].subslot>> : i \in 1 .. n}
  BY <1>3 DEF Names
<1>6. Names(row) = Names(subs)
  <2>1. \A i \in 1 .. n : <<row[i].slot, row[i].subslot>> = <<subs[i].slot, subs[i].subslot>>
    BY <1>2
  <2>2. \A x \in Names(row) : \E i \in 1 .. n : x = <<row[i].slot, row[i].subslot>>
    BY <1>4
  <2>3. \A x \in Names(subs) : \E i \in 1 .. n : x = <<subs[i].slot, subs[i].subslot>>
    BY <1>5
  <2>4. \A x \in Names(row) : x \in Names(subs)
    BY <1>5, <2>1, <2>2
  <2>5. \A x \in Names(subs) : x \in Names(row)
    BY <1>4, <2>1, <2>3
  <2> QED
    BY <2>4, <2>5
<1>7. OncePerName(subs) => OncePerName(row)
  BY <1>1, <1>2 DEF OncePerName
<1> QED
  BY <1>6, <1>7

\* A status byte for each of the submodules.
Zeros(subs) == [i \in DOMAIN subs |-> 0]

LEMMA ZerosIs ==
  ASSUME NEW subs \in Seq(DataParts)
  PROVE  /\ Zeros(subs) \in Seq(Nat) /\ Len(Zeros(subs)) = Len(subs)
         /\ \A i \in 1 .. Len(subs) : Zeros(subs)[i] = 0
<1> DEFINE n == Len(subs)
<1>1. n \in Nat /\ Zeros(subs) = [i \in 1 .. n |-> 0]
  BY DEF Zeros
<1> HIDE DEF n
<1>2. Zeros(subs) \in [1 .. n -> Nat]
  BY <1>1
<1>3. Zeros(subs) \in Seq(Nat) /\ Len(Zeros(subs)) = n
  BY <1>1, <1>2
<1> QED
  BY <1>1, <1>3 DEF n

LEMMA StatusRow ==
  ASSUME NEW subs \in Seq(DataParts), NEW base \in Nat
  PROVE  /\ StatusInARow(subs, base) \in Seq(Fields)
         /\ RowOf(StatusInARow(subs, base), subs, Zeros(subs), base, Len(subs))
         /\ \A f \in ToSet(StatusInARow(subs, base)) : f.len = 0 /\ f.at >= base
<1>1. StatusInARow(subs, base) = InARow(subs, Zeros(subs), base)
  BY DEF StatusInARow, Zeros
<1>2. Zeros(subs) \in Seq(Nat) /\ Len(Zeros(subs)) = Len(subs) /\ \A i \in 1 .. Len(subs) : Zeros(subs)[i] = 0
  BY ZerosIs
<1>3. /\ StatusInARow(subs, base) \in Seq(Fields)
      /\ RowOf(StatusInARow(subs, base), subs, Zeros(subs), base, Len(subs))
  BY <1>1, <1>2, RowIs
<1>4. ASSUME NEW f \in ToSet(StatusInARow(subs, base)) PROVE f.len = 0 /\ f.at >= base
  <2>1. DOMAIN StatusInARow(subs, base) = 1 .. Len(subs)
    BY <1>3 DEF RowOf
  <2>2. PICK i \in 1 .. Len(subs) : StatusInARow(subs, base)[i] = f
    BY <2>1 DEF ToSet
  <2> QED
    BY <1>2, <1>3, <2>2 DEF RowOf
<1> QED
  BY <1>3, <1>4

LEMMA OutputsOf ==
  ASSUME NEW slots \in Seq(DataParts)
  PROVE  /\ WithOutputs(slots) \in Seq(DataParts)
         /\ ToSet(WithOutputs(slots)) = {s \in ToSet(slots) : s.out > 0}
         /\ OncePerName(slots) => OncePerName(WithOutputs(slots))
<1> DEFINE good == {s \in ToSet(slots) : s.out > 0}
<1>1. WithOutputs(slots) = Only(slots, good)
  BY DEF WithOutputs
<1> HIDE DEF good
<1>2. Only(slots, good) \in Seq(DataParts) /\ ToSet(Only(slots, good)) = ToSet(slots) \cap good
  BY OnlyIs, OnlySet
<1>3. OncePerName(slots) => OncePerName(Only(slots, good))
  BY OnlyOncePerName
<1> QED
  BY <1>1, <1>2, <1>3 DEF good

\* The rows that the input frame and the output frame are made of.
InObjs(slots) == InARow(slots, Ins(slots), 0)
InIocs(slots) == StatusInARow(WithOutputs(slots), End(InObjs(slots)))
Placed(slots) == InARow(slots, Outs(slots), 0)
Trailing(slots) == StatusInARow(WithOutputs(slots), End(Placed(slots)))
WithData(slots) == Only(Placed(slots), {f \in ToSet(Placed(slots)) : f.len > 0})
StatusOnly(slots) == Only(Placed(slots), {f \in ToSet(Placed(slots)) : f.len = 0})

LEMMA LayoutParts ==
  ASSUME NEW slots
  PROVE  IocrLayout(slots) =
           [inObjs  |-> InObjs(slots),
            inIocs  |-> InIocs(slots),
            inLen   |-> Max({40, End(InObjs(slots) \o InIocs(slots))}),
            outObjs |-> WithData(slots),
            outIocs |-> StatusOnly(slots) \o Trailing(slots),
            outLen  |-> Max({40, End(Placed(slots) \o Trailing(slots))})]
BY DEF IocrLayout, InObjs, InIocs, Placed, Trailing, WithData, StatusOnly

\* A row of data, and behind it the status bytes for the outputs.
FrameOf(slots, data, lengths, status) ==
  /\ data \in Seq(Fields) /\ RowOf(data, slots, lengths, 0, Len(slots))
  /\ status \in Seq(Fields)
  /\ RowOf(status, WithOutputs(slots), Zeros(WithOutputs(slots)), End(data), Len(WithOutputs(slots)))
  /\ \A f \in ToSet(status) : f.len = 0 /\ f.at >= End(data)
  /\ data \o status \in Seq(Fields) /\ Ordered(data \o status)
  /\ ToSet(data \o status) = ToSet(data) \union ToSet(status)

LEMMA FrameIs ==
  ASSUME NEW slots \in Seq(DataParts), NEW lengths \in Seq(Nat), Len(lengths) = Len(slots)
  PROVE  FrameOf(slots, InARow(slots, lengths, 0), lengths,
                 StatusInARow(WithOutputs(slots), End(InARow(slots, lengths, 0))))
<1> DEFINE data == InARow(slots, lengths, 0)
           outputs == WithOutputs(slots)
           status == StatusInARow(outputs, End(data))
<1>1. data \in Seq(Fields) /\ RowOf(data, slots, lengths, 0, Len(slots))
  BY RowIs
<1>2. outputs \in Seq(DataParts)
  BY OutputsOf
<1> HIDE DEF data, outputs
<1>3. Ordered(data) /\ End(data) \in Nat
  BY <1>1, EndIs DEF RowOf
<1>4. /\ status \in Seq(Fields)
      /\ RowOf(status, outputs, Zeros(outputs), End(data), Len(outputs))
      /\ \A f \in ToSet(status) : f.len = 0 /\ f.at >= End(data)
  BY <1>2, <1>3, StatusRow
<1> HIDE DEF status
<1>5. Ordered(status)
  BY <1>4 DEF RowOf
<1>6. Ordered(data \o status)
  BY <1>1, <1>3, <1>4, <1>5, OrderedJoined
<1>7. data \o status \in Seq(Fields) /\ ToSet(data \o status) = ToSet(data) \union ToSet(status)
  BY <1>1, <1>4, JoinedIs DEF JoinedOf
<1> QED
  BY <1>1, <1>4, <1>6, <1>7 DEF FrameOf, data, outputs, status

\* All fields are in the frame.
LEMMA InFrame ==
  ASSUME NEW all \in Seq(Fields), Ordered(all), NEW f \in ToSet(all)
  PROVE  Bytes(f) \subseteq 0 .. Max({40, End(all)}) - 1
<1>1. End(all) \in Nat /\ f.at + f.len < End(all)
  BY EndIs
<1>2. Max({40, End(all)}) \in Nat /\ Max({40, End(all)}) >= End(all)
  BY <1>1, MaxLen
<1>3. f \in Fields
  BY ElementsOf
<1>4. f.at \in Nat /\ f.len \in Nat
  BY <1>3 DEF Fields
<1> QED
  BY <1>1, <1>2, <1>4 DEF Bytes

\* The input frame.
LEMMA InputFrameSound ==
  ASSUME NEW slots \in Seq(DataParts), OncePerName(slots)
  PROVE  LET l == IocrLayout(slots) IN
         /\ Apart(l.inObjs \o l.inIocs)
         /\ \A f \in ToSet(l.inObjs \o l.inIocs) : Bytes(f) \subseteq 0 .. l.inLen - 1
         /\ Names(l.inObjs) = Names(slots) /\ OncePerName(l.inObjs)
         /\ Names(l.inIocs) = Names(WithOutputs(slots)) /\ OncePerName(l.inIocs)
<1> DEFINE data == InObjs(slots)
           outputs == WithOutputs(slots)
           status == InIocs(slots)
           all == data \o status
<1>1. Ins(slots) \in Seq(Nat) /\ Len(Ins(slots)) = Len(slots)
  BY LengthsTyped, DriveLengths
<1>2. FrameOf(slots, data, Ins(slots), status)
  BY <1>1, FrameIs DEF InObjs, InIocs
<1>3. outputs \in Seq(DataParts) /\ OncePerName(outputs)
  BY OutputsOf
<1>4. /\ IocrLayout(slots).inObjs = data /\ IocrLayout(slots).inIocs = status
      /\ IocrLayout(slots).inLen = Max({40, End(all)})
  BY LayoutParts
<1> HIDE DEF data, status, all
<1>5. all \in Seq(Fields) /\ Ordered(all)
  BY <1>2 DEF FrameOf, all
<1>6. Apart(all)
  BY <1>5, ApartIs, OrderedInjective
<1>7. \A f \in ToSet(all) : Bytes(f) \subseteq 0 .. Max({40, End(all)}) - 1
  BY <1>5, InFrame
<1>8. Names(data) = Names(slots) /\ OncePerName(data)
  BY <1>2, RowNames DEF FrameOf
<1> HIDE DEF outputs
<1>9. RowOf(status, outputs, Zeros(outputs), End(data), Len(outputs)) /\ status \in Seq(Fields)
  BY <1>2 DEF FrameOf, outputs
<1>10. Names(status) = Names(outputs) /\ OncePerName(status)
  BY <1>3, <1>9, RowNames
<1> QED
  BY <1>4, <1>6, <1>7, <1>8, <1>10 DEF all, outputs

\* The fields of the output frame: those with data, and those without.
OutputFields(slots, placed, data, empty) ==
  /\ data \in Seq(Fields) /\ empty \in Seq(Fields)
  /\ ToSet(data) = {f \in ToSet(placed) : f.len > 0}
  /\ ToSet(empty) = {f \in ToSet(placed) : f.len = 0}
  /\ IsInjective(data) /\ IsInjective(empty)
  /\ Names(data) = Names(WithOutputs(slots))
  /\ Names(empty) = Names(slots) \ Names(WithOutputs(slots))
  /\ OncePerName(data) /\ OncePerName(empty)

LEMMA OutputFieldsIs ==
  ASSUME NEW slots \in Seq(DataParts), OncePerName(slots)
  PROVE  OutputFields(slots, Placed(slots), WithData(slots), StatusOnly(slots))
<1> DEFINE n == Len(slots)
           placed == Placed(slots)
           outputs == WithOutputs(slots)
           data == WithData(slots)
           empty == StatusOnly(slots)
<1>1. /\ Outs(slots) \in Seq(Nat) /\ Len(Outs(slots)) = Len(slots)
      /\ \A i \in 1 .. n : Outs(slots)[i] = slots[i].out
  BY LengthsTyped, DriveLengths
<1>2. placed \in Seq(Fields) /\ RowOf(placed, slots, Outs(slots), 0, Len(slots))
  BY <1>1, RowIs DEF Placed
<1>3. OncePerName(placed)
  BY <1>2, RowNames
<1>4. IsInjective(placed)
  BY <1>2, OrderedInjective DEF RowOf
<1>5. /\ data = Only(placed, {f \in ToSet(placed) : f.len > 0})
      /\ empty = Only(placed, {f \in ToSet(placed) : f.len = 0})
  BY DEF WithData, StatusOnly
<1>6. ToSet(outputs) = {s \in ToSet(slots) : s.out > 0}
  BY OutputsOf
<1>7. n \in Nat /\ DOMAIN slots = 1 .. n /\ \A i \in 1 .. n : slots[i] \in DataParts
  OBVIOUS
<1> HIDE DEF placed, data, empty, outputs
<1>8. data \in Seq(Fields) /\ OncePerName(data) /\ IsInjective(data) /\ ToSet(data) = {f \in ToSet(placed) : f.len > 0}
  <2> DEFINE good == {f \in ToSet(placed) : f.len > 0}
  <2> HIDE DEF good
  <2>1. data = Only(placed, good)
    BY <1>5 DEF good
  <2>2. data \in Seq(Fields) /\ OncePerName(data) /\ IsInjective(data)
    BY <1>2, <1>3, <1>4, <2>1, OnlyElements, OnlyOncePerName
  <2>3. ToSet(data) = ToSet(placed) \cap good
    BY <1>2, <2>1, OnlySet
  <2> QED
    BY <2>2, <2>3 DEF good
<1>9. empty \in Seq(Fields) /\ OncePerName(empty) /\ IsInjective(empty) /\ ToSet(empty) = {f \in ToSet(placed) : f.len = 0}
  <2> DEFINE good == {f \in ToSet(placed) : f.len = 0}
  <2> HIDE DEF good
  <2>1. empty = Only(placed, good)
    BY <1>5 DEF good
  <2>2. empty \in Seq(Fields) /\ OncePerName(empty) /\ IsInjective(empty)
    BY <1>2, <1>3, <1>4, <2>1, OnlyElements, OnlyOncePerName
  <2>3. ToSet(empty) = ToSet(placed) \cap good
    BY <1>2, <2>1, OnlySet
  <2> QED
    BY <2>2, <2>3 DEF good
<1>10. DOMAIN placed = 1 .. n
  <2>1. DOMAIN placed = 1 .. Len(placed)
    BY <1>2
  <2> QED
    BY <1>2, <2>1 DEF RowOf
<1> HIDE DEF n
<1>11. \A i \in 1 .. n : /\ placed[i].slot = slots[i].slot /\ placed[i].subslot = slots[i].subslot
                         /\ placed[i].len = slots[i].out /\ slots[i].out \in Nat
  BY <1>1, <1>2, <1>7 DEF RowOf, DataParts, n
<1>12. ToSet(placed) = {placed[i] : i \in 1 .. n} /\ ToSet(slots) = {slots[i] : i \in 1 .. n}
  BY <1>7, <1>10 DEF ToSet
<1>13. Names(data) = Names(outputs)
  <2>1. Names(data) = {<<placed[i].slot, placed[i].subslot>> : i \in {j \in 1 .. n : placed[j].len > 0}}
    BY <1>8, <1>12 DEF Names
  <2>2. Names(outputs) = {<<slots[i].slot, slots[i].subslot>> : i \in {j \in 1 .. n : slots[j].out > 0}}
    BY <1>6, <1>12 DEF Names
  <2>3. {j \in 1 .. n : placed[j].len > 0} = {j \in 1 .. n : slots[j].out > 0}
    BY <1>11
  <2> QED
    BY <1>11, <2>1, <2>2, <2>3
<1>14. Names(empty) = Names(slots) \ Names(outputs)
  <2> DEFINE name == [i \in 1 .. n |-> <<slots[i].slot, slots[i].subslot>>]
             some == {j \in 1 .. n : slots[j].out > 0}
             none == {j \in 1 .. n : placed[j].len = 0}
  <2>1. Names(empty) = {name[i] : i \in none}
    <3>1. Names(empty) = {<<placed[i].slot, placed[i].subslot>> : i \in none}
      BY <1>9, <1>12 DEF Names
    <3> QED
      BY <1>11, <3>1
  <2>2. Names(outputs) = {name[i] : i \in some}
    BY <1>6, <1>12 DEF Names
  <2>3. Names(slots) = {name[i] : i \in 1 .. n}
    BY <1>12 DEF Names
  <2>4. none = (1 .. n) \ some
    BY <1>11
  <2>5. ASSUME NEW i \in 1 .. n, NEW j \in 1 .. n, name[i] = name[j] PROVE i = j
    <3>1. slots[i].slot = slots[j].slot /\ slots[i].subslot = slots[j].subslot
      BY <2>5
    <3> QED
      BY <1>7, <3>1 DEF OncePerName
  <2>6. some \subseteq 1 .. n
    OBVIOUS
  <2> HIDE DEF name, some, none
  <2> QED
    BY <2>1, <2>2, <2>3, <2>4, <2>5, <2>6
<1> QED
  BY <1>8, <1>9, <1>13, <1>14 DEF OutputFields, placed, data, empty, outputs

\* The output frame: its fields are those of a row and of the trailing status bytes, in
\* another order.
LEMMA OutputFrameSound ==
  ASSUME NEW slots \in Seq(DataParts), OncePerName(slots)
  PROVE  LET l == IocrLayout(slots) IN
         /\ Apart(l.outObjs \o l.outIocs)
         /\ \A f \in ToSet(l.outObjs \o l.outIocs) : Bytes(f) \subseteq 0 .. l.outLen - 1
         /\ Names(l.outObjs) = Names(WithOutputs(slots)) /\ OncePerName(l.outObjs)
         /\ Names(l.outIocs) = Names(slots) /\ OncePerName(l.outIocs)
<1> DEFINE placed == Placed(slots)
           outputs == WithOutputs(slots)
           trailing == Trailing(slots)
           all == placed \o trailing
           data == WithData(slots)
           empty == StatusOnly(slots)
           iocs == empty \o trailing
           fields == data \o iocs
<1>1. Outs(slots) \in Seq(Nat) /\ Len(Outs(slots)) = Len(slots)
  BY LengthsTyped, DriveLengths
<1>2. FrameOf(slots, placed, Outs(slots), trailing)
  BY <1>1, FrameIs DEF Placed, Trailing
<1>3. outputs \in Seq(DataParts) /\ OncePerName(outputs) /\ ToSet(outputs) \subseteq ToSet(slots)
  BY OutputsOf
<1>4. /\ IocrLayout(slots).outObjs = data /\ IocrLayout(slots).outIocs = iocs
      /\ IocrLayout(slots).outLen = Max({40, End(all)})
  BY LayoutParts
<1>5. OutputFields(slots, placed, data, empty)
  BY OutputFieldsIs
<1> HIDE DEF placed, outputs, trailing, all, data, empty, iocs, fields
<1>6. all \in Seq(Fields) /\ Ordered(all) /\ ToSet(all) = ToSet(placed) \union ToSet(trailing)
  BY <1>2 DEF FrameOf, all
<1>7. /\ trailing \in Seq(Fields) /\ RowOf(trailing, outputs, Zeros(outputs), End(placed), Len(outputs))
      /\ \A f \in ToSet(trailing) : f.len = 0 /\ f.at >= End(placed)
      /\ placed \in Seq(Fields) /\ Ordered(placed) /\ Ordered(trailing)
  BY <1>2 DEF FrameOf, RowOf, outputs
<1>8. Names(trailing) = Names(outputs) /\ OncePerName(trailing)
  BY <1>3, <1>7, RowNames
<1>9. Names(outputs) \subseteq Names(slots)
  BY <1>3 DEF Names
<1>10. /\ data \in Seq(Fields) /\ empty \in Seq(Fields)
       /\ ToSet(data) = {f \in ToSet(placed) : f.len > 0}
       /\ ToSet(empty) = {f \in ToSet(placed) : f.len = 0}
       /\ IsInjective(data) /\ IsInjective(empty)
       /\ Names(data) = Names(outputs) /\ Names(empty) = Names(slots) \ Names(outputs)
       /\ OncePerName(data) /\ OncePerName(empty)
  BY <1>5 DEF OutputFields, outputs
<1>11. /\ iocs \in Seq(Fields) /\ ToSet(iocs) = ToSet(empty) \union ToSet(trailing)
  BY <1>7, <1>10, JoinedIs DEF JoinedOf, iocs
<1>12. Names(iocs) = Names(slots) /\ OncePerName(iocs)
  <2>1. Names(iocs) = Names(empty) \union Names(trailing)
    BY <1>11 DEF Names
  <2>2. OncePerName(iocs)
    BY <1>7, <1>8, <1>10, JoinedOncePerName DEF iocs
  <2> QED
    BY <1>8, <1>9, <1>10, <2>1, <2>2
<1>13. ToSet(placed) \cap ToSet(trailing) = {}
  <2> SUFFICES ASSUME NEW f \in ToSet(placed), f \in ToSet(trailing) PROVE FALSE
    OBVIOUS
  <2>1. End(placed) \in Nat /\ f.at + f.len < End(placed)
    BY <1>7, EndIs
  <2>2. f.at >= End(placed) /\ f.len = 0
    BY <1>7
  <2>3. f \in Fields
    BY <1>7, ElementsOf
  <2>4. f.at \in Nat
    BY <2>3 DEF Fields
  <2> QED
    BY <2>1, <2>2, <2>4
<1>14. IsInjective(trailing)
  BY <1>7, OrderedInjective
<1>15. IsInjective(iocs)
  <2>1. ToSet(empty) \cap ToSet(trailing) = {}
    BY <1>10, <1>13
  <2> QED
    BY <1>7, <1>10, <1>14, <2>1, JoinedInjective DEF iocs
<1>16. ToSet(data) \cap ToSet(iocs) = {}
  BY <1>10, <1>11, <1>13
<1>17. /\ fields \in Seq(Fields) /\ IsInjective(fields)
       /\ ToSet(fields) = ToSet(data) \union ToSet(iocs)
  BY <1>10, <1>11, <1>15, <1>16, JoinedInjective, JoinedIs DEF JoinedOf, fields
<1>18. ToSet(fields) \subseteq ToSet(all)
  BY <1>6, <1>10, <1>11, <1>17
<1>19. Apart(fields)
  BY <1>6, <1>17, <1>18, ApartIs
<1>20. \A f \in ToSet(fields) : Bytes(f) \subseteq 0 .. Max({40, End(all)}) - 1
  BY <1>6, <1>18, InFrame
<1> QED
  BY <1>4, <1>10, <1>12, <1>19, <1>20 DEF fields, outputs

\* _iocr_layout is right for all submodules that are told apart by their names.
LEMMA LayoutIsSound ==
  ASSUME NEW slots \in Seq(DataParts), OncePerName(slots)
  PROVE  LayoutSound(slots)
BY InputFrameSound, OutputFrameSound DEF LayoutSound

LEMMA ConsumersAreTold ==
  ASSUME NEW slots \in Seq(DataParts), OncePerName(slots)
  PROVE  ConsumersTold(slots)
<1> DEFINE placed == Placed(slots)
           trailing == Trailing(slots)
           data == WithData(slots)
           empty == StatusOnly(slots)
           iocs == empty \o trailing
           fields == data \o iocs
<1>1. OutputFields(slots, placed, data, empty)
  BY OutputFieldsIs
<1>2. Outs(slots) \in Seq(Nat) /\ Len(Outs(slots)) = Len(slots)
  BY LengthsTyped, DriveLengths
<1>3. FrameOf(slots, placed, Outs(slots), trailing)
  BY <1>2, FrameIs DEF Placed, Trailing
<1>4. IocrLayout(slots).outIocs = iocs /\ CyclicObjects(slots).out = fields
  BY LayoutParts DEF CyclicObjects
<1> HIDE DEF placed, trailing, data, empty, iocs, fields
<1>5. /\ data \in Seq(Fields) /\ empty \in Seq(Fields) /\ trailing \in Seq(Fields)
      /\ \A f \in ToSet(data) : f.len > 0 /\ f \in Fields
      /\ \A f \in ToSet(empty) : f.len = 0
      /\ \A f \in ToSet(trailing) : f.len = 0
  BY <1>1, <1>3, ElementsOf DEF OutputFields, FrameOf
<1>6. iocs \in Seq(Fields) /\ ToSet(iocs) = ToSet(empty) \union ToSet(trailing)
  BY <1>5, JoinedIs DEF JoinedOf, iocs
<1>7. ToSet(fields) = ToSet(data) \union ToSet(iocs)
  BY <1>5, <1>6, JoinedIs DEF JoinedOf, fields
<1>8. {p \in ToSet(fields) : p.len = 0} = ToSet(iocs)
  BY <1>5, <1>6, <1>7
<1> QED
  BY <1>4, <1>8 DEF ConsumersTold, ConsumersGood

LEMMA LastOf ==
  ASSUME NEW seq, NEW n \in Nat, Len(seq) = n, n > 0
  PROVE  seq # <<>> /\ Last(seq) = seq[n]
<1>1. Len(<<>>) = 0
  OBVIOUS
<1>2. seq # <<>>
  BY <1>1
<1>3. Last(seq) = seq[n]
  BY DEF Last
<1> QED
  BY <1>2, <1>3

\* The commissioned drive.
Commissioned(slots) ==
  /\ Len(slots) = 7
  /\ \A i \in 1 .. 6 : slots[i].in = 0 /\ slots[i].out = 0
  /\ slots[7].in = 64 /\ slots[7].out = 64
SevenOf(lengths) == (\A i \in 1 .. 6 : lengths[i] = 0) /\ lengths[7] = 64

\* In a row of its data everything stands behind the status bytes of the first six, and
\* the status byte for its outputs comes at the end.
LEMMA CommissionedRow ==
  ASSUME NEW slots \in Seq(DataParts), Commissioned(slots),
         NEW lengths, NEW data, NEW status, FrameOf(slots, data, lengths, status),
         SevenOf(lengths)
  PROVE  /\ Len(data) = 7 /\ data[7].at = 6 /\ data[7].len = 64
         /\ \A i \in 1 .. 6 : data[i].len = 0
         /\ Max({40, End(data \o status)}) = 72
<1> DEFINE outputs == WithOutputs(slots)
           m == Len(outputs)
           all == data \o status
<1>1. Len(slots) = 7 /\ DOMAIN slots = 1 .. 7
  BY DEF Commissioned
<1>2. /\ data \in Seq(Fields) /\ Len(data) = 7
      /\ \A i \in 1 .. 7 : data[i].len = lengths[i]
      /\ data[1].at = 0
      /\ \A i \in 1 .. 6 : data[i + 1].at = data[i].at + data[i].len + 1
  <2>1. data \in Seq(Fields) /\ RowOf(data, slots, lengths, 0, 7)
    BY <1>1 DEF FrameOf
  <2> QED
    BY <2>1 DEF RowOf
<1>3. /\ data[1].at = 0 /\ data[2].at = 1 /\ data[3].at = 2 /\ data[4].at = 3 /\ data[5].at = 4
      /\ data[6].at = 5 /\ data[7].at = 6
  <2>1. \A i \in 1 .. 6 : data[i + 1].at = data[i].at + 0 + 1
    BY <1>2 DEF SevenOf
  <2>2. /\ data[1 + 1].at = data[1].at + 0 + 1 /\ data[2 + 1].at = data[2].at + 0 + 1
        /\ data[3 + 1].at = data[3].at + 0 + 1 /\ data[4 + 1].at = data[4].at + 0 + 1
        /\ data[5 + 1].at = data[5].at + 0 + 1 /\ data[6 + 1].at = data[6].at + 0 + 1
    BY <2>1
  <2> QED
    BY <1>2, <2>2
<1>4. End(data) = 71
  <2>1. data # <<>> /\ Last(data) = data[7]
    BY <1>2, LastOf, 7 \in Nat /\ 7 > 0
  <2>2. data[7].len = 64
    BY <1>2 DEF SevenOf
  <2> QED
    BY <1>3, <2>1, <2>2 DEF End
<1>5. outputs \in Seq(DataParts) /\ outputs = Only(slots, {s \in ToSet(slots) : s.out > 0})
  BY OutputsOf DEF WithOutputs
<1>6. \E p : OnlyOf(outputs, slots, 7, {s \in ToSet(slots) : s.out > 0}, p)
  <2> DEFINE good == {s \in ToSet(slots) : s.out > 0}
  <2> HIDE DEF good, outputs
  <2>1. \E p : OnlyOf(Only(slots, good), slots, Len(slots), good, p)
    BY OnlyIs
  <2>2. outputs = Only(slots, good)
    BY <1>5 DEF good
  <2>3. Len(slots) = 7
    BY <1>1
  <2> QED
    BY <2>1, <2>2, <2>3 DEF good
<1>7. m \in Nat
  BY <1>5
<1>20. PICK p : OnlyOf(outputs, slots, 7, {s \in ToSet(slots) : s.out > 0}, p)
  BY <1>6
<1> HIDE DEF outputs, m
<1>8. \A k \in 1 .. m : p[k] = 7
  <2> SUFFICES ASSUME NEW k \in 1 .. m PROVE p[k] = 7
    OBVIOUS
  <2>1. p[k] \in 1 .. 7 /\ slots[p[k]].out > 0
    BY <1>20 DEF OnlyOf, m
  <2>2. p[k] \notin 1 .. 6
    BY <2>1 DEF Commissioned
  <2> QED
    BY <2>1, <2>2
<1>9. \A j, k \in 1 .. m : j < k => p[j] < p[k]
  BY <1>20 DEF OnlyOf, m
<1>10. \E k \in 1 .. m : p[k] = 7
  <2>1. 7 \in 1 .. 7 /\ slots[7] \in ToSet(slots) /\ slots[7].out > 0
    BY <1>1 DEF Commissioned, ToSet
  <2> QED
    BY <1>20, <2>1 DEF OnlyOf, m
<1>11. m = 1
  <2>1. ~(m > 1)
    <3> SUFFICES ASSUME m > 1 PROVE FALSE
      OBVIOUS
    <3>1. 1 \in 1 .. m /\ 2 \in 1 .. m
      BY <1>7
    <3> QED
      BY <1>8, <1>9, <3>1
  <2> QED
    BY <1>7, <1>10, <2>1
<1>12. /\ status \in Seq(Fields) /\ Len(status) = 1
       /\ status[1].at = 71 /\ status[1].len = 0
  <2>1. status \in Seq(Fields) /\ RowOf(status, outputs, Zeros(outputs), 71, 1)
    BY <1>4, <1>11 DEF FrameOf, outputs, m
  <2>2. Zeros(outputs)[1] = 0
    BY <1>5, <1>11, ZerosIs DEF m
  <2> QED
    BY <2>1, <2>2 DEF RowOf
<1>13. /\ all \in Seq(Fields) /\ Len(all) = 8 /\ all[8] = status[1]
  <2>1. all \in Seq(Fields) /\ JoinedOf(all, data, status, 7, 1)
    <3>1. all \in Seq(Fields) /\ JoinedOf(all, data, status, Len(data), Len(status))
      BY <1>2, <1>12, JoinedIs
    <3>2. Len(data) = 7 /\ Len(status) = 1
      BY <1>2, <1>12
    <3> HIDE DEF all
    <3> QED
      BY <3>1, <3>2
  <2>2. Len(all) = 7 + 1 /\ all[7 + 1] = status[1]
    BY <2>1 DEF JoinedOf
  <2> QED
    BY <2>1, <2>2
<1> HIDE DEF all
<1>14. End(all) = 72
  <2>1. all # <<>> /\ Last(all) = all[8]
    BY <1>13, LastOf, 8 \in Nat /\ 8 > 0
  <2> QED
    BY <1>12, <1>13, <2>1 DEF End
<1>15. Max({40, End(all)}) = 72
  BY <1>14, MaxLen
<1> QED
  BY <1>2, <1>3, <1>15 DEF all, SevenOf

LEMMA CommissionedFrameIs ==
  ASSUME NEW slots \in Seq(DataParts)
  PROVE  CommissionedFrame(slots)
<1> SUFFICES ASSUME Commissioned(slots)
             PROVE  LET l == IocrLayout(slots) IN
                    /\ l.inObjs[7].at = 6 /\ l.inLen = 72
                    /\ l.outObjs[1].at = 6 /\ l.outLen = 72
  BY DEF CommissionedFrame, Commissioned
<1> DEFINE placed == Placed(slots)
           data == WithData(slots)
           good == {f \in ToSet(placed) : f.len > 0}
<1>1. /\ Outs(slots) \in Seq(Nat) /\ Len(Outs(slots)) = Len(slots)
      /\ Ins(slots) \in Seq(Nat) /\ Len(Ins(slots)) = Len(slots)
      /\ \A i \in 1 .. 7 : Outs(slots)[i] = slots[i].out /\ Ins(slots)[i] = slots[i].in
  <2>1. \A x \in DataParts : x.in \in Nat /\ x.out \in Nat
    BY DriveLengths
  <2>2. /\ Outs(slots) \in Seq(Nat) /\ Len(Outs(slots)) = Len(slots)
        /\ Ins(slots) \in Seq(Nat) /\ Len(Ins(slots)) = Len(slots)
        /\ \A i \in 1 .. Len(slots) : Outs(slots)[i] = slots[i].out /\ Ins(slots)[i] = slots[i].in
    BY <2>1, LengthsTyped
  <2>3. Len(slots) = 7
    BY DEF Commissioned
  <2> QED
    BY <2>2, <2>3
<1>2. FrameOf(slots, InObjs(slots), Ins(slots), InIocs(slots))
  BY <1>1, FrameIs DEF InObjs, InIocs
<1>3. FrameOf(slots, placed, Outs(slots), Trailing(slots))
  BY <1>1, FrameIs DEF Placed, Trailing
<1>20. SevenOf(Ins(slots)) /\ SevenOf(Outs(slots))
  BY <1>1, 7 \in 1 .. 7, \A i \in 1 .. 6 : i \in 1 .. 7 DEF Commissioned, SevenOf
<1>4. InObjs(slots)[7].at = 6 /\ Max({40, End(InObjs(slots) \o InIocs(slots))}) = 72
  BY <1>2, <1>20, CommissionedRow
<1>5. /\ Len(placed) = 7 /\ placed[7].at = 6 /\ placed[7].len = 64
      /\ \A i \in 1 .. 6 : placed[i].len = 0
      /\ Max({40, End(placed \o Trailing(slots))}) = 72
  BY <1>3, <1>20, CommissionedRow
<1>6. placed \in Seq(Fields)
  BY <1>3 DEF FrameOf
<1>7. data = Only(placed, good)
  BY DEF WithData
<1>8. DOMAIN placed = 1 .. 7
  BY <1>5, <1>6
<1> HIDE DEF placed, data
<1>9. data \in Seq(Fields) /\ DOMAIN data = 1 .. Len(data) /\ ToSet(data) = ToSet(placed) \cap good
  <2> HIDE DEF good
  <2> QED
    BY <1>6, <1>7, OnlySet, OnlyIs
<1>10. placed[7] \in ToSet(data)
  BY <1>5, <1>8, <1>9 DEF ToSet
<1>11. data[1] = placed[7]
  <2>1. 1 \in DOMAIN data
    BY <1>9, <1>10 DEF ToSet
  <2>2. data[1] \in ToSet(placed) /\ data[1].len > 0
    BY <1>9, <2>1 DEF ToSet
  <2>3. PICK i \in 1 .. 7 : data[1] = placed[i]
    BY <1>8, <2>2 DEF ToSet
  <2>4. i \notin 1 .. 6
    BY <1>5, <2>2, <2>3
  <2> QED
    BY <2>3, <2>4
<1> QED
  BY <1>4, <1>5, <1>11, LayoutParts DEF placed, data

-----------------------------------------------------------------------------
(* Topologies. *)

\* The submodules of the i-th Drive Object.
SlotsOf(slots, i) ==
  slots \in Seq(DataParts) /\ OncePerName(slots) /\ \A s \in ToSet(slots) : s.slot = i

LEMMA OneSlot ==
  ASSUME NEW slot \in Nat, NEW subslot \in Nat, NEW in \in Nat, NEW out \in Nat
  PROVE  /\ SlotsOf(<<Sub(slot, subslot, in, out)>>, slot)
         /\ Names(<<Sub(slot, subslot, in, out)>>) = {<<slot, subslot>>}
<1> DEFINE s == Sub(slot, subslot, in, out)
<1>1. s \in DataParts /\ s.slot = slot /\ s.subslot = subslot
  BY DEF Sub, DataParts
<1> HIDE DEF s
<1>2. <<s>> \in Seq(DataParts) /\ DOMAIN <<s>> = 1 .. 1 /\ <<s>>[1] = s
  BY <1>1
<1>3. ToSet(<<s>>) = {s}
  BY <1>2 DEF ToSet
<1>4. OncePerName(<<s>>)
  BY <1>2 DEF OncePerName
<1> QED
  BY <1>1, <1>2, <1>3, <1>4 DEF SlotsOf, Names, s

LEMMA MoreSlots ==
  ASSUME NEW slot, NEW a, NEW b, SlotsOf(a, slot), SlotsOf(b, slot), Names(a) \cap Names(b) = {}
  PROVE  SlotsOf(a \o b, slot) /\ Names(a \o b) = Names(a) \union Names(b)
<1>1. a \in Seq(DataParts) /\ b \in Seq(DataParts)
  BY DEF SlotsOf
<1>2. a \o b \in Seq(DataParts) /\ ToSet(a \o b) = ToSet(a) \union ToSet(b)
  BY <1>1, JoinedSet
<1>3. OncePerName(a \o b)
  BY <1>1, JoinedOncePerName DEF SlotsOf
<1> QED
  BY <1>2, <1>3 DEF SlotsOf, Names

LEMMA DriveSlotsIs ==
  ASSUME NEW env, NEW module, NEW telegram, telegram.in \in Nat, telegram.out \in Nat,
         NEW slot \in Nat
  PROVE  SlotsOf(DriveSlots(env, module, telegram, slot), slot)
<1> DEFINE a == <<Sub(slot, 1, 0, 0)>>
           b == IF env.empty /\ module.empty THEN <<Sub(slot, 2, 0, 0)>> ELSE <<>>
           c == <<Sub(slot, 3, telegram.in, telegram.out)>>
<1>1. SlotsOf(a, slot) /\ Names(a) = {<<slot, 1>>}
  BY OneSlot
<1>2. SlotsOf(b, slot) /\ Names(b) \subseteq {<<slot, 2>>}
  <2>1. CASE env.empty /\ module.empty
    BY <2>1, OneSlot
  <2>2. CASE ~(env.empty /\ module.empty)
    <3>1. b = <<>>
      BY <2>2
    <3>2. SlotsOf(<<>>, slot) /\ Names(<<>>) = {}
      BY DEF SlotsOf, Names, ToSet, OncePerName
    <3> QED
      BY <3>1, <3>2
  <2> QED
    BY <2>1, <2>2
<1>3. SlotsOf(c, slot) /\ Names(c) = {<<slot, 3>>}
  BY OneSlot
<1>4. DriveSlots(env, module, telegram, slot) = a \o b \o c
  BY DEF DriveSlots
<1> HIDE DEF a, b, c
<1>5. SlotsOf(a \o b, slot) /\ Names(a \o b) \subseteq {<<slot, 1>>, <<slot, 2>>}
  <2>1. Names(a) \cap Names(b) = {}
    BY <1>1, <1>2
  <2> QED
    BY <1>1, <1>2, <2>1, MoreSlots
<1>6. Names(a \o b) \cap Names(c) = {}
  BY <1>3, <1>5
<1> QED
  BY <1>3, <1>4, <1>5, <1>6, MoreSlots

\* The submodules of all Drive Objects, numbered from slot 1.
LEMMA NumberedSlots ==
  ASSUME NEW n \in Nat \ {0}, NEW drives, DOMAIN drives = 1 .. n,
         \A i \in 1 .. n : SlotsOf(drives[i], i), drives = [i \in 1 .. n |-> drives[i]]
  PROVE  /\ FlattenSeq(drives) \in Seq(DataParts) /\ OncePerName(FlattenSeq(drives))
         /\ \A s \in ToSet(FlattenSeq(drives)) : s.slot > 0
<1>1. drives \in [1 .. n -> Seq(DataParts)]
  BY DEF SlotsOf
<1>2. PICK f \in [1 .. n -> Seq(DataParts)] : Flattened(f, drives, n) /\ f[n] = FlattenSeq(drives)
  BY <1>1, FlattenIs
<1> DEFINE Good(k) == OncePerName(f[k]) /\ \A s \in ToSet(f[k]) : s.slot \in 1 .. k
           T == {k \in Nat : k + 1 <= n => Good(k + 1)}
<1>3. \A k \in 1 .. n : f[k] \in Seq(DataParts) /\ drives[k] \in Seq(DataParts)
  BY <1>1
<1>4. \A k \in Nat : k \in T
  <2>1. 0 \in T
    BY <1>2, 1 \in 1 .. n DEF Flattened, SlotsOf
  <2>2. ASSUME NEW k \in Nat, k \in T PROVE k + 1 \in T
    <3> DEFINE m == k + 1 + 1
    <3>1. SUFFICES ASSUME m <= n PROVE Good(m)
      OBVIOUS
    <3>2. m \in 2 .. n /\ m \in 1 .. n /\ m - 1 \in 1 .. n /\ m - 1 = k + 1 /\ k + 1 <= n
      BY <3>1
    <3>3. f[m] = f[m - 1] \o drives[m]
      BY <1>2, <3>2 DEF Flattened
    <3>4. OncePerName(f[m - 1]) /\ \A s \in ToSet(f[m - 1]) : s.slot \in 1 .. m - 1
      BY <2>2, <3>2
    <3>5. OncePerName(drives[m]) /\ \A s \in ToSet(drives[m]) : s.slot = m
      BY <3>2 DEF SlotsOf
    <3> HIDE DEF m
    <3>6. f[m - 1] \in Seq(DataParts) /\ drives[m] \in Seq(DataParts)
      BY <1>3, <3>2
    <3>7. Names(f[m - 1]) \cap Names(drives[m]) = {}
      <4>1. \A x \in ToSet(f[m - 1]) : \A y \in ToSet(drives[m]) : x.slot # y.slot
        BY <3>2, <3>4, <3>5
      <4> QED
        BY <4>1 DEF Names
    <3>8. OncePerName(f[m])
      BY <3>3, <3>4, <3>5, <3>6, <3>7, JoinedOncePerName
    <3>9. ToSet(f[m]) = ToSet(f[m - 1]) \union ToSet(drives[m])
      <4> DEFINE a == f[m - 1]
                 b == drives[m]
      <4>1. a \in Seq(DataParts) /\ b \in Seq(DataParts) /\ f[m] = a \o b
        BY <3>3, <3>6
      <4> HIDE DEF a, b
      <4>2. ToSet(a \o b) = ToSet(a) \union ToSet(b)
        BY <4>1, JoinedSet
      <4> QED
        BY <4>1, <4>2 DEF a, b
    <3>10. \A s \in ToSet(f[m]) : s.slot \in 1 .. m
      BY <3>2, <3>4, <3>5, <3>9
    <3> QED
      BY <3>8, <3>10
  <2> HIDE DEF T
  <2> QED
    BY <2>1, <2>2, Induction
<1>5. Good(n)
  <2>1. n - 1 \in Nat /\ n - 1 + 1 = n
    OBVIOUS
  <2>2. n - 1 \in T
    BY <1>4, <2>1
  <2> HIDE DEF Good
  <2> QED
    BY <2>1, <2>2
<1>6. FlattenSeq(drives) = f[n] /\ f[n] \in Seq(DataParts)
  BY <1>2, <1>3, n \in 1 .. n
<1>7. OncePerName(f[n]) /\ \A s \in ToSet(f[n]) : s.slot > 0
  BY <1>5
<1> QED
  BY <1>6, <1>7

LEMMA LastWithIs ==
  ASSUME NEW S, NEW items \in Seq(S), NEW ident, ident \in Idents(items)
  PROVE  LastWith(items, ident) \in S
<1> DEFINE I == {i \in 1 .. Len(items) : items[i].ident = ident}
           k == IF I # {} THEN Max(I) ELSE 0
<1>1. LastWith(items, ident) = items[k]
  BY DEF LastWith, SelectLastInSeq
<1>2. \A i \in 1 .. Len(items) : items[i] \in S
  OBVIOUS
<1>3. I # {}
  BY DEF Idents, ToSet
<1>4. I \in SUBSET (1 .. Len(items)) /\ Len(items) \in Nat
  OBVIOUS
<1> HIDE DEF I
<1>5. Max(I) \in I
  BY <1>3, <1>4, MaxOf
<1>6. k \in 1 .. Len(items)
  BY <1>3, <1>4, <1>5
<1> HIDE DEF k
<1> QED
  BY <1>1, <1>2, <1>6

LEMMA DapHeadIs ==
  ASSUME NEW file \in Files, IdentsDiffer(file), NEW found \in BOOLEAN
  PROVE  SlotsOf(DapHead(file, found), 0)
<1> DEFINE head == [i \in DOMAIN file.head |-> Sub(0, file.head[i], 0, 0)]
           n == Len(file.head)
<1>1. /\ n \in Nat /\ DOMAIN file.head = 1 .. n /\ \A i \in 1 .. n : file.head[i] \in Nat
      /\ IsInjective(file.head)
  BY DEF Files, IdentsDiffer
<1>2. head = [i \in 1 .. n |-> Sub(0, file.head[i], 0, 0)]
  BY <1>1
<1> HIDE DEF head, n
<1>3. \A i \in 1 .. n : head[i] \in DataParts /\ head[i].slot = 0 /\ head[i].subslot = file.head[i]
  BY <1>1, <1>2 DEF Sub, DataParts
<1>4. head \in [1 .. n -> DataParts]
  <2>1. head = [i \in 1 .. n |-> head[i]]
    BY <1>2
  <2> QED
    BY <1>3, <2>1
<1>5. head \in Seq(DataParts) /\ DOMAIN head = 1 .. n
  BY <1>1, <1>4
<1>6. OncePerName(head)
  BY <1>1, <1>3, <1>5 DEF OncePerName, IsInjective
<1>7. \A s \in ToSet(head) : s.slot = 0
  BY <1>3, <1>5 DEF ToSet
<1>8. SlotsOf(head, 0)
  BY <1>5, <1>6, <1>7 DEF SlotsOf
<1>9. SlotsOf(<<>>, 0)
  BY DEF SlotsOf, ToSet, OncePerName
<1> QED
  BY <1>8, <1>9 DEF DapHead, head

LEMMA SlotsSound ==
  ASSUME NEW file \in Files, IdentsDiffer(file), NEW found \in BOOLEAN,
         NEW config \in DeviceConfigs, RackPlaced(EffectiveRack(config)), NEW env
  PROVE  LET slots == ExpectedSlots(file, found, config, env).slots IN
         slots \in Seq(DataParts) /\ OncePerName(slots)
<1> DEFINE dos == EffectiveRack(config)
           n == Len(dos)
           head == DapHead(file, found)
           known == found /\ env.module \in Idents(file.modules) /\ env.telegram \in Idents(file.catalog)
           module == LastWith(file.modules, env.module)
           telegram == LastWith(file.catalog, env.telegram)
           drives == [i \in DOMAIN dos |-> DriveSlots(env, module, telegram, i)]
           parts == [i \in DOMAIN dos |-> Data(dos[i].slot, dos[i].subslot, dos[i])]
           slots == ExpectedSlots(file, found, config, env).slots
<1>1. dos \in Seq(DriveObjects) /\ dos # <<>> /\ RackPlaced(dos)
  BY EffectiveTyped
<1>2. slots = IF known THEN head \o FlattenSeq(drives) ELSE head \o parts
  BY DEF ExpectedSlots
<1>3. SlotsOf(head, 0)
  BY DapHeadIs
<1> HIDE DEF dos, head, slots
<1>4. n \in Nat \ {0} /\ DOMAIN dos = 1 .. n /\ \A i \in 1 .. n : dos[i] \in DriveObjects
  BY <1>1
<1> HIDE DEF n
<1>5. ASSUME NEW rest \in Seq(DataParts), OncePerName(rest), \A s \in ToSet(rest) : s.slot > 0
      PROVE  head \o rest \in Seq(DataParts) /\ OncePerName(head \o rest)
  <2>1. head \in Seq(DataParts) /\ OncePerName(head) /\ \A s \in ToSet(head) : s.slot = 0
    BY <1>3 DEF SlotsOf
  <2>2. Names(head) \cap Names(rest) = {}
    <3>1. \A x \in ToSet(head) : \A y \in ToSet(rest) : x.slot # y.slot
      BY <1>5, <2>1
    <3> QED
      BY <3>1 DEF Names
  <2> QED
    BY <1>5, <2>1, <2>2, JoinedOncePerName, ConcatProperties
<1>6. CASE known
  <2>1. file.catalog \in Seq(SubmoduleItems)
    BY DEF Files
  <2>2. telegram \in SubmoduleItems
    BY <1>6, <2>1, LastWithIs
  <2>3. telegram.in \in Nat /\ telegram.out \in Nat
    BY <2>2 DEF SubmoduleItems
  <2> HIDE DEF module, telegram
  <2>4. drives = [i \in 1 .. n |-> DriveSlots(env, module, telegram, i)]
    BY <1>4
  <2> HIDE DEF drives
  <2>5. \A i \in 1 .. n : drives[i] = DriveSlots(env, module, telegram, i) /\ i \in Nat
    BY <2>4
  <2>6. \A i \in 1 .. n : SlotsOf(drives[i], i)
    BY <2>3, <2>5, DriveSlotsIs
  <2>7. DOMAIN drives = 1 .. n /\ drives = [i \in 1 .. n |-> drives[i]]
    BY <2>4
  <2>8. /\ FlattenSeq(drives) \in Seq(DataParts) /\ OncePerName(FlattenSeq(drives))
        /\ \A s \in ToSet(FlattenSeq(drives)) : s.slot > 0
    BY <1>4, <2>6, <2>7, NumberedSlots
  <2>9. slots = head \o FlattenSeq(drives)
    BY <1>2, <1>6
  <2> HIDE DEF known
  <2> QED
    BY <1>5, <2>8, <2>9 DEF slots
<1>7. CASE ~known
  <2>1. parts = [i \in 1 .. n |-> Data(dos[i].slot, dos[i].subslot, dos[i])]
    BY <1>4
  <2> HIDE DEF parts
  <2>2. \A i \in 1 .. n : parts[i] \in DataParts /\ parts[i].slot = dos[i].slot
    BY <1>4, <2>1 DEF Data, DataParts, DriveObjects
  <2>3. parts \in [1 .. n -> DataParts]
    <3>1. parts = [i \in 1 .. n |-> parts[i]]
      BY <2>1
    <3> QED
      BY <2>2, <3>1
  <2>4. parts \in Seq(DataParts) /\ DOMAIN parts = 1 .. n
    BY <1>4, <2>3
  <2>5. /\ \A i, j \in 1 .. n : dos[i].slot = dos[j].slot => i = j
        /\ \A i \in 1 .. n : dos[i].slot > 0
    BY <1>1, <1>4 DEF RackPlaced, SlotsDiffer
  <2>6. OncePerName(parts)
    BY <2>2, <2>4, <2>5 DEF OncePerName
  <2>7. \A s \in ToSet(parts) : s.slot > 0
    BY <2>2, <2>4, <2>5 DEF ToSet
  <2>8. slots = head \o parts
    BY <1>2, <1>7
  <2> HIDE DEF known
  <2> QED
    BY <1>5, <2>4, <2>6, <2>7, <2>8 DEF slots
<1> HIDE DEF known
<1> QED
  BY <1>6, <1>7

\* Every rack that the dialog can make of one has its Drive Objects in slots of their own.
LEMMA RacksAfterPlaced ==
  ASSUME NEW file, NEW modules \in Seq(ParsedModules(file)), NEW n \in Nat, NEW max,
         NEW first \in Seq(DriveObjects), RackPlaced(first),
         NEW rack \in RacksAfter(n, first, modules, max)
  PROVE  rack \in Seq(DriveObjects) /\ RackPlaced(rack)
<1> DEFINE V == SUBSET Seq(DriveObjects)
           More(q) == q \union {r \in UNION {RackEdits(p, modules) : p \in q} : Len(r) <= max}
           step == [e \in (1 .. n) \X V |-> More(e[2])]
           Eq(h) == h = [k \in 0 .. n |-> IF k = 0 THEN {first} ELSE More(h[k - 1])]
           after == CHOOSE h : Eq(h)
<1>1. ASSUME NEW q \in V PROVE More(q) \in V
  <2>1. ASSUME NEW p \in q, NEW r \in RackEdits(p, modules) PROVE r \in Seq(DriveObjects)
    BY EditsTyped
  <2> QED
    BY <2>1
<1>2. ASSUME NEW q \in V, \A r \in q : RackPlaced(r) PROVE \A r \in More(q) : RackPlaced(r)
  <2>1. ASSUME NEW p \in q, NEW r \in RackEdits(p, modules) PROVE RackPlaced(r)
    BY <1>2, EditsPlaced
  <2> QED
    BY <1>2, <2>1
<1>3. RacksAfter(n, first, modules, max) = after[n]
  BY DEF RacksAfter
<1> HIDE DEF More
<1>4. \E h : Eq(h)
  <2>1. step \in [(1 .. n) \X V -> V]
    BY <1>1
  <2>2. {first} \in V
    OBVIOUS
  <2>3. \A k \in 1 .. n, q \in V : step[<<k, q>>] = More(q)
    OBVIOUS
  <2> HIDE DEF step, V
  <2>4. PICK h \in [0 .. n -> V] : Unrolled(n, {first}, step, h)
    BY <2>1, <2>2, UnrolledExists
  <2>5. ASSUME NEW k \in 0 .. n PROVE h[k] = IF k = 0 THEN {first} ELSE More(h[k - 1])
    <3>1. CASE k = 0
      BY <2>4, <3>1 DEF Unrolled
    <3>2. CASE k # 0
      <4>1. k \in 1 .. n /\ k - 1 \in 0 .. n
        BY <3>2
      <4>2. h[k - 1] \in V /\ h[k] = step[<<k, h[k - 1]>>]
        BY <2>4, <4>1 DEF Unrolled
      <4> QED
        BY <2>3, <3>2, <4>1, <4>2
    <3> QED
      BY <3>1, <3>2
  <2>6. h = [k \in 0 .. n |-> h[k]]
    BY <2>4
  <2>7. Eq(h)
    BY <2>5, <2>6
  <2> HIDE DEF Eq
  <2> QED
    BY <2>7
<1>5. Eq(after)
  <2> HIDE DEF Eq
  <2> QED
    BY <1>4
<1> HIDE DEF after
<1>6. \A k \in 0 .. n : after[k] = IF k = 0 THEN {first} ELSE More(after[k - 1])
  BY <1>5
<1> HIDE DEF Eq
<1> DEFINE Good(k) == after[k] \in V /\ \A r \in after[k] : RackPlaced(r)
           T == {k \in Nat : k <= n => Good(k)}
<1>7. \A k \in Nat : k \in T
  <2>1. 0 \in T
    BY <1>6, 0 \in 0 .. n
  <2>2. ASSUME NEW k \in Nat, k \in T PROVE k + 1 \in T
    <3> DEFINE m == k + 1
    <3>1. SUFFICES ASSUME m <= n PROVE Good(m)
      OBVIOUS
    <3>2. m \in 0 .. n /\ m # 0 /\ m - 1 = k /\ k <= n
      BY <3>1
    <3> HIDE DEF m
    <3>3. after[m] = More(after[k])
      BY <1>6, <3>2
    <3>4. after[k] \in V /\ \A r \in after[k] : RackPlaced(r)
      BY <2>2, <3>2
    <3> HIDE DEF V
    <3> QED
      BY <1>1, <1>2, <3>3, <3>4
  <2> HIDE DEF T
  <2> QED
    BY <2>1, <2>2, Induction
<1>8. Good(n)
  BY <1>7
<1> QED
  BY <1>3, <1>8

-----------------------------------------------------------------------------
(* Process data. *)

\* The Drive Objects are some of the submodules, in their order, and no others carry data:
\* `pos' has where each of them stands.
Carries(slots, dos, pos) ==
  /\ Picks(pos, Len(dos), Len(slots))
  /\ \A i \in 1 .. Len(dos) : dos[i] = slots[pos[i]]
  /\ \A x \in 1 .. Len(slots) :
       slots[x].in + slots[x].out = 0 \/ \E i \in 1 .. Len(dos) : pos[i] = x

\* What one of the two directions needs to know of it.
CarriedBy(row, parts, pos, m, n) ==
  /\ m \in Nat /\ n \in Nat /\ Picks(pos, m, n)
  /\ row \in Seq(Fields) /\ Len(row) = n /\ Ordered(row)
  /\ \A i \in 1 .. m : pos[i] \in 1 .. n /\ parts[i] = row[pos[i]].len
  /\ \A x \in 1 .. n : row[x].len = 0 \/ \E i \in 1 .. m : pos[i] = x

\* Both directions know it of the Drive Objects of a rack.
LEMMA CarriedIs ==
  ASSUME NEW slots \in Seq(DataParts), NEW dos \in Seq(DataParts), NEW pos,
         Carries(slots, dos, pos)
  PROVE  /\ CarriedBy(InObjs(slots), Ins(dos), pos, Len(dos), Len(slots))
         /\ CarriedBy(Placed(slots), Outs(dos), pos, Len(dos), Len(slots))
         /\ PickedOf(Ins(dos), Ins(slots), pos, Len(dos), Len(slots))
<1> DEFINE n == Len(slots)
           m == Len(dos)
           ins == InObjs(slots)
           outs == Placed(slots)
<1>1. /\ n \in Nat /\ m \in Nat
      /\ \A i \in 1 .. n : slots[i] \in DataParts /\ slots[i].in \in Nat /\ slots[i].out \in Nat
      /\ \A i \in 1 .. m : dos[i] \in DataParts
  <2>1. n \in Nat /\ m \in Nat /\ \A i \in 1 .. n : slots[i] \in DataParts
    OBVIOUS
  <2>2. \A i \in 1 .. m : dos[i] \in DataParts
    OBVIOUS
  <2> HIDE DEF n, m
  <2> QED
    BY <2>1, <2>2, DriveLengths
<1>2. /\ Ins(slots) \in Seq(Nat) /\ Len(Ins(slots)) = n
      /\ Outs(slots) \in Seq(Nat) /\ Len(Outs(slots)) = n
      /\ \A i \in 1 .. n : Outs(slots)[i] = slots[i].out /\ Ins(slots)[i] = slots[i].in
  BY LengthsTyped, DriveLengths
<1>3. \A i \in 1 .. m : Outs(dos)[i] = dos[i].out /\ Ins(dos)[i] = dos[i].in
  BY LengthsTyped, DriveLengths
<1>4. ins \in Seq(Fields) /\ RowOf(ins, slots, Ins(slots), 0, n)
  BY <1>2, RowIs DEF InObjs
<1>5. outs \in Seq(Fields) /\ RowOf(outs, slots, Outs(slots), 0, n)
  BY <1>2, RowIs DEF Placed
<1> HIDE DEF n, m, ins, outs
<1>6. /\ Picks(pos, m, n) /\ \A i \in 1 .. m : dos[i] = slots[pos[i]]
      /\ \A x \in 1 .. n : slots[x].in + slots[x].out = 0 \/ \E i \in 1 .. m : pos[i] = x
  BY DEF Carries, n, m
<1>7. \A i \in 1 .. m : pos[i] \in 1 .. n
  <2> SUFFICES ASSUME NEW i \in 1 .. m PROVE pos[i] \in 1 .. n
    OBVIOUS
  <2>1. i \in 0 .. m /\ 0 \in 0 .. m /\ 0 < i
    BY <1>1
  <2>2. pos[i] > 0 /\ pos[i] \in 0 .. n
    BY <1>6, <2>1 DEF Picks
  <2> QED
    BY <1>1, <2>2
<1>8. ASSUME NEW x \in 1 .. n PROVE (slots[x].in = 0 /\ slots[x].out = 0) \/ \E i \in 1 .. m : pos[i] = x
  <2>1. slots[x].in + slots[x].out = 0 => slots[x].in = 0 /\ slots[x].out = 0
    BY <1>1
  <2> QED
    BY <1>6, <2>1
<1>9. CarriedBy(ins, Ins(dos), pos, m, n)
  <2>1. Len(ins) = n /\ Ordered(ins) /\ \A i \in 1 .. n : ins[i].len = slots[i].in
    BY <1>2, <1>4 DEF RowOf
  <2>2. \A i \in 1 .. m : pos[i] \in 1 .. n /\ Ins(dos)[i] = ins[pos[i]].len
    BY <1>3, <1>6, <1>7, <2>1
  <2>3. \A x \in 1 .. n : ins[x].len = 0 \/ \E i \in 1 .. m : pos[i] = x
    BY <1>8, <2>1
  <2>4. m \in Nat /\ n \in Nat /\ Picks(pos, m, n) /\ ins \in Seq(Fields)
    BY <1>1, <1>4, <1>6
  <2> QED
    BY <2>1, <2>2, <2>3, <2>4 DEF CarriedBy
<1>10. CarriedBy(outs, Outs(dos), pos, m, n)
  <2>1. Len(outs) = n /\ Ordered(outs) /\ \A i \in 1 .. n : outs[i].len = slots[i].out
    BY <1>2, <1>5 DEF RowOf
  <2>2. \A i \in 1 .. m : pos[i] \in 1 .. n /\ Outs(dos)[i] = outs[pos[i]].len
    BY <1>3, <1>6, <1>7, <2>1
  <2>3. \A x \in 1 .. n : outs[x].len = 0 \/ \E i \in 1 .. m : pos[i] = x
    BY <1>8, <2>1
  <2>4. m \in Nat /\ n \in Nat /\ Picks(pos, m, n) /\ outs \in Seq(Fields)
    BY <1>1, <1>5, <1>6
  <2> QED
    BY <2>1, <2>2, <2>3, <2>4 DEF CarriedBy
<1>11. PickedOf(Ins(dos), Ins(slots), pos, m, n)
  <2>1. \A x \in 1 .. n : Ins(slots)[x] \in Nat
    BY <1>1, <1>2
  <2>2. \A i \in 1 .. m : Ins(dos)[i] = Ins(slots)[pos[i]]
    <3> SUFFICES ASSUME NEW i \in 1 .. m PROVE Ins(dos)[i] = Ins(slots)[pos[i]]
      OBVIOUS
    <3>1. pos[i] \in 1 .. n /\ dos[i] = slots[pos[i]]
      BY <1>6, <1>7
    <3>2. Ins(dos)[i] = dos[i].in /\ Ins(slots)[pos[i]] = slots[pos[i]].in
      BY <1>2, <1>3, <3>1
    <3> QED
      BY <3>1, <3>2
  <2>3. \A x \in 1 .. n : Ins(slots)[x] = 0 \/ \E i \in 1 .. m : pos[i] = x
    BY <1>2, <1>8
  <2> QED
    BY <1>6, <2>1, <2>2, <2>3 DEF PickedOf
<1> QED
  BY <1>9, <1>10, <1>11 DEF n, m, ins, outs

-----------------------------------------------------------------------------
(* Input. *)

\* The data of the Drive Objects one behind the other: chunk i has the offsets of the field
\* it stands in.
ChunksOf(chunks, row, parts, pos, m) ==
  /\ chunks \in [1 .. m -> Seq(Nat)]
  /\ \A i \in 1 .. m :
       /\ Len(chunks[i]) = parts[i]
       /\ \A j \in 1 .. parts[i] : chunks[i][j] = row[pos[i]].at + j - 1

\* Where a byte of it is from.
ByteOf(all, row, parts, pos, k, i, j) ==
  /\ k = SumOf(parts, 1 .. i - 1) + j
  /\ all[k] = row[pos[i]].at + j - 1

BytesOf(all, row, parts, pos, m) ==
  /\ \A i \in 1 .. m : \A j \in 1 .. parts[i] :
       \E k \in 1 .. SumOf(parts, 1 .. m) : ByteOf(all, row, parts, pos, k, i, j)
  /\ \A k \in 1 .. SumOf(parts, 1 .. m) :
       \E i \in 1 .. m : \E j \in 1 .. parts[i] : ByteOf(all, row, parts, pos, k, i, j)

\* The chunks behind each other are made of the bytes of each of them, and of no others.
LEMMA BytesAre ==
  ASSUME NEW row, NEW parts, NEW pos, NEW m \in Nat \ {0}, NEW n, CarriedBy(row, parts, pos, m, n),
         NEW chunks, ChunksOf(chunks, row, parts, pos, m)
  PROVE  /\ FlattenSeq(chunks) \in Seq(Nat)
         /\ Len(FlattenSeq(chunks)) = SumOf(parts, 1 .. m)
         /\ BytesOf(FlattenSeq(chunks), row, parts, pos, m)
<1> DEFINE all == FlattenSeq(chunks)
           at(i) == SumOf(parts, 1 .. i)
<1>1. chunks \in [1 .. m -> Seq(Nat)] /\ \A i \in 1 .. m : parts[i] = Len(chunks[i])
  BY DEF ChunksOf
<1>2. all \in Seq(Nat) /\ FlatOf(all, chunks, parts, m)
  BY <1>1, FlatIs
<1>3. \A i \in 1 .. m : parts[i] \in Nat /\ chunks[i] \in Seq(Nat)
  BY <1>1
<1>4. /\ at(0) = 0 /\ \A i \in 0 .. m : at(i) \in Nat
      /\ \A i \in 1 .. m : at(i) = at(i - 1) + parts[i]
  <2>1. \A i \in 1 .. m : parts[i] \in Nat
    BY <1>3
  <2> QED
    BY <2>1, SumPrefix
<1>5. Len(all) = at(m)
  BY <1>2 DEF FlatOf
<1>6. ASSUME NEW i \in 1 .. m, NEW j \in 1 .. parts[i]
      PROVE  /\ at(i - 1) + j \in 1 .. at(m)
             /\ all[at(i - 1) + j] = row[pos[i]].at + j - 1
  <2>1. HoldsAt(all, at(i - 1), chunks[i])
    BY <1>2 DEF FlatOf
  <2>2. at(i - 1) + parts[i] <= at(m) /\ all[at(i - 1) + j] = chunks[i][j]
    BY <1>1, <1>5, <2>1 DEF HoldsAt
  <2>3. chunks[i][j] = row[pos[i]].at + j - 1
    BY DEF ChunksOf
  <2>4. i - 1 \in 0 .. m /\ m \in 0 .. m
    OBVIOUS
  <2> HIDE DEF at
  <2>5. at(i - 1) \in Nat /\ at(m) \in Nat /\ parts[i] \in Nat
    BY <1>3, <1>4, <2>4
  <2> QED
    BY <2>2, <2>3, <2>5
<1>7. ASSUME NEW k \in 1 .. at(m)
      PROVE  \E i \in 1 .. m : \E j \in 1 .. parts[i] : ByteOf(all, row, parts, pos, k, i, j)
  <2>1. \A i \in 1 .. m : parts[i] \in Nat
    BY <1>3
  <2>2. PICK i \in 1 .. m : \E j \in 1 .. parts[i] : k = at(i - 1) + j
    <3>1. InPart(k, parts, m)
      BY <2>1, SumCovers
    <3> QED
      BY <3>1 DEF InPart
  <2>3. PICK j \in 1 .. parts[i] : k = at(i - 1) + j
    BY <2>2
  <2>4. all[k] = row[pos[i]].at + j - 1
    BY <1>6, <2>3
  <2>5. ByteOf(all, row, parts, pos, k, i, j)
    BY <2>3, <2>4 DEF ByteOf
  <2> QED
    BY <2>5
<1>8. ASSUME NEW i \in 1 .. m, NEW j \in 1 .. parts[i]
      PROVE  \E k \in 1 .. at(m) : ByteOf(all, row, parts, pos, k, i, j)
  <2>1. ByteOf(all, row, parts, pos, at(i - 1) + j, i, j)
    BY <1>6 DEF ByteOf
  <2> HIDE DEF at, all
  <2> QED
    BY <1>6, <2>1
<1> QED
  BY <1>2, <1>5, <1>7, <1>8 DEF BytesOf

\* What is found by a name that occurs once.
LEMMA NamedIs ==
  ASSUME NEW row \in Seq(Fields), OncePerName(row), NEW x \in 1 .. Len(row)
  PROVE  Last(Named(row, row[x].slot, row[x].subslot)) = row[x]
<1> DEFINE good == {o \in ToSet(row) : o.slot = row[x].slot /\ o.subslot = row[x].subslot}
           named == Named(row, row[x].slot, row[x].subslot)
           l == Len(named)
<1>1. named = Only(row, good)
  BY DEF Named
<1>2. row[x] \in ToSet(row)
  BY DEF ToSet
<1>3. row[x] \in good
  BY <1>2
<1> HIDE DEF good, named
<1>4. ToSet(named) = ToSet(row) \cap good /\ named \in Seq(Fields)
  BY <1>1, OnlySet, OnlyElements
<1>5. DOMAIN named = 1 .. l /\ l \in Nat
  BY <1>4
<1>6. l \in 1 .. l
  <2>1. row[x] \in ToSet(named)
    BY <1>2, <1>3, <1>4
  <2> HIDE DEF l
  <2>2. PICK i \in 1 .. l : named[i] = row[x]
    BY <1>5, <2>1 DEF ToSet
  <2> QED
    BY <1>5, <2>2
<1> HIDE DEF l
<1>7. named[l] \in ToSet(named)
  BY <1>5, <1>6 DEF ToSet
<1>8. named[l] \in ToSet(row) /\ named[l].slot = row[x].slot /\ named[l].subslot = row[x].subslot
  BY <1>4, <1>7 DEF good
<1>9. named[l] = row[x]
  BY <1>2, <1>8, OnceIsOne
<1>10. Last(named) = named[l]
  BY DEF Last, l
<1> QED
  BY <1>9, <1>10 DEF named

\* What reaches the client, for data of the length it is configured with.
ReceivedOf(data, slots, dos, pos, m) ==
  /\ CarriedBy(InObjs(slots), Ins(dos), pos, m, Len(slots))
  /\ BytesOf(data, InObjs(slots), Ins(dos), pos, m)

\* It is the bytes of the Drive Objects (read_raw_inputs).
LEMMA ReceivedIs ==
  ASSUME NEW slots \in Seq(DataParts), OncePerName(slots),
         NEW dos \in Seq(DataParts), dos # <<>>, NEW pos, Carries(slots, dos, pos)
  PROVE  LET data == InputsOfDevice(dos, InObjs(slots), Total(Ins(dos))) IN
         /\ data \in [1 .. SumOf(Ins(dos), 1 .. Len(dos)) -> Nat]
         /\ ReceivedOf(data, slots, dos, pos, Len(dos))
<1> DEFINE m == Len(dos)
           n == Len(slots)
           row == InObjs(slots)
           parts == Ins(dos)
           Chunk(do) ==
             LET o == Last(Named(row, do.slot, do.subslot))
             IN [k \in 1 .. do.in |-> IF k <= o.len THEN o.at + k - 1 ELSE 0]
           chunks == [i \in DOMAIN dos |-> Chunk(dos[i])]
           all == FlattenSeq(chunks)
           length == SumOf(parts, 1 .. m)
           data == InputsOfDevice(dos, row, length)
<1>1. /\ m \in Nat \ {0} /\ DOMAIN dos = 1 .. m /\ n \in Nat
      /\ parts \in Seq(Nat) /\ Len(parts) = m /\ \A i \in 1 .. m : parts[i] = dos[i].in
  <2>1. m \in Nat \ {0} /\ DOMAIN dos = 1 .. m /\ n \in Nat
    BY EmptySeq
  <2>2. parts \in Seq(Nat) /\ Len(parts) = m /\ \A i \in 1 .. m : parts[i] = dos[i].in
    BY LengthsTyped, DriveLengths
  <2> QED
    BY <2>1, <2>2
<1>2. CarriedBy(row, parts, pos, m, n)
  BY CarriedIs
<1>3. row \in Seq(Fields) /\ RowOf(row, slots, Ins(slots), 0, n) /\ OncePerName(row)
  <2>1. Ins(slots) \in Seq(Nat) /\ Len(Ins(slots)) = n
    BY LengthsTyped, DriveLengths
  <2>2. row \in Seq(Fields) /\ RowOf(row, slots, Ins(slots), 0, n)
    BY <2>1, RowIs DEF InObjs
  <2> HIDE DEF row
  <2>3. OncePerName(row)
    BY <2>2, RowNames
  <2> QED
    BY <2>2, <2>3
<1>4. Total(parts) = length
  <2> HIDE DEF parts
  <2>1. Total(parts) = SumOf(parts, 1 .. Len(parts))
    BY <1>1, TotalIs
  <2> QED
    BY <1>1, <2>1
<1>5. data = [k \in 1 .. length |-> IF k <= Len(all) THEN all[k] ELSE 0]
  BY DEF InputsOfDevice
<1> HIDE DEF m, n, row, parts
<1>6. ASSUME NEW i \in 1 .. m
      PROVE  /\ pos[i] \in 1 .. n /\ row[pos[i]] \in Fields /\ parts[i] \in Nat
             /\ Chunk(dos[i]) = [k \in 1 .. parts[i] |-> row[pos[i]].at + k - 1]
  <2>1. pos[i] \in 1 .. n /\ parts[i] = row[pos[i]].len /\ Len(row) = n
    BY <1>2 DEF CarriedBy
  <2>2. row[pos[i]] \in Fields
    BY <1>3, <2>1
  <2>3. dos[i] = slots[pos[i]]
    BY DEF Carries, m
  <2>4. dos[i].slot = row[pos[i]].slot /\ dos[i].subslot = row[pos[i]].subslot
    BY <1>3, <2>1, <2>3 DEF RowOf
  <2>5. Last(Named(row, dos[i].slot, dos[i].subslot)) = row[pos[i]]
    <3>1. pos[i] \in 1 .. Len(row)
      BY <2>1
    <3>2. Last(Named(row, row[pos[i]].slot, row[pos[i]].subslot)) = row[pos[i]]
      BY <1>3, <3>1, NamedIs
    <3> QED
      BY <2>4, <3>2
  <2>6. dos[i].in = parts[i] /\ parts[i] \in Nat
    BY <1>1
  <2>7. Chunk(dos[i]) = [k \in 1 .. parts[i] |-> IF k <= parts[i] THEN row[pos[i]].at + k - 1 ELSE 0]
    BY <2>1, <2>5, <2>6
  <2>8. \A k \in 1 .. parts[i] : k <= parts[i]
    BY <2>6
  <2> HIDE DEF Chunk
  <2> QED
    BY <2>1, <2>2, <2>6, <2>7, <2>8
<1> HIDE DEF Chunk
<1>7. chunks = [i \in 1 .. m |-> Chunk(dos[i])]
  BY <1>1
<1> HIDE DEF chunks
<1>8. ASSUME NEW i \in 1 .. m
      PROVE  /\ chunks[i] \in Seq(Nat) /\ Len(chunks[i]) = parts[i]
             /\ \A j \in 1 .. parts[i] : chunks[i][j] = row[pos[i]].at + j - 1
  <2> DEFINE a == row[pos[i]].at
             b == parts[i]
             c == chunks[i]
  <2>1. a \in Nat /\ b \in Nat /\ c = [k \in 1 .. b |-> a + k - 1]
    BY <1>6, <1>7 DEF Fields
  <2> HIDE DEF a, b, c
  <2>2. \A k \in 1 .. b : a + k - 1 \in Nat
    BY <2>1
  <2>3. c \in [1 .. b -> Nat]
    BY <2>1, <2>2
  <2>4. c \in Seq(Nat) /\ Len(c) = b /\ \A j \in 1 .. b : c[j] = a + j - 1
    BY <2>1, <2>3
  <2> QED
    BY <2>4 DEF a, b, c
<1>9. ChunksOf(chunks, row, parts, pos, m)
  <2>1. chunks \in [1 .. m -> Seq(Nat)]
    <3>1. chunks = [i \in 1 .. m |-> chunks[i]]
      BY <1>7
    <3> QED
      BY <1>8, <3>1
  <2> QED
    BY <1>8, <2>1 DEF ChunksOf
<1>10. all \in Seq(Nat) /\ Len(all) = length /\ BytesOf(all, row, parts, pos, m)
  BY <1>1, <1>2, <1>9, BytesAre
<1>11. data \in [1 .. length -> Nat] /\ \A k \in 1 .. length : data[k] = all[k]
  <2> HIDE DEF all, length
  <2>1. length \in Nat /\ \A k \in 1 .. length : k <= Len(all) /\ all[k] \in Nat
    BY <1>10
  <2> HIDE DEF data
  <2>2. data = [k \in 1 .. length |-> IF k <= Len(all) THEN all[k] ELSE 0]
    BY <1>5
  <2> QED
    BY <2>1, <2>2
<1>12. BytesOf(data, row, parts, pos, m)
  <2> HIDE DEF all, data
  <2>1. \A i, j : \A k \in 1 .. SumOf(parts, 1 .. m) :
          ByteOf(all, row, parts, pos, k, i, j) => ByteOf(data, row, parts, pos, k, i, j)
    BY <1>11 DEF ByteOf
  <2> QED
    BY <1>10, <2>1 DEF BytesOf
<1> HIDE DEF all, data, length
<1>13. ReceivedOf(data, slots, dos, pos, m)
  BY <1>2, <1>12 DEF ReceivedOf, row, parts, n
<1>14. InputsOfDevice(dos, row, Total(parts)) = data
  BY <1>4 DEF data
<1>15. data \in [1 .. SumOf(parts, 1 .. m) -> Nat]
  BY <1>11 DEF length
<1> QED
  BY <1>13, <1>14, <1>15 DEF m, row, parts

\* Later bytes are from later places in the frame.
LEMMA BytesAscend ==
  ASSUME NEW data, NEW row, NEW parts, NEW pos, NEW m, NEW n, CarriedBy(row, parts, pos, m, n),
         BytesOf(data, row, parts, pos, m),
         NEW k \in 2 .. SumOf(parts, 1 .. m), \A i \in 1 .. m : parts[i] \in Nat
  PROVE  data[k - 1] < data[k]
<1> DEFINE at(i) == SumOf(parts, 1 .. i)
<1>1. /\ m \in Nat /\ n \in Nat /\ row \in Seq(Fields) /\ Len(row) = n /\ Ordered(row)
      /\ \A i \in 1 .. m : pos[i] \in 1 .. n /\ parts[i] = row[pos[i]].len
      /\ \A i, j \in 0 .. m : i < j => pos[i] < pos[j]
  BY DEF CarriedBy, Picks
<1>2. /\ \A i \in 0 .. m : at(i) \in Nat
      /\ \A i \in 1 .. m : at(i) = at(i - 1) + parts[i]
  BY <1>1, SumPrefix
<1>3. at(m) \in Nat /\ k \in 1 .. at(m) /\ k - 1 \in 1 .. at(m)
  <2>1. m \in 0 .. m
    BY <1>1
  <2>2. at(m) \in Nat
    <3> HIDE DEF at
    <3> QED
      BY <1>2, <2>1
  <2> QED
    BY <2>2
<1>4. PICK i \in 1 .. m : \E j \in 1 .. parts[i] : ByteOf(data, row, parts, pos, k, i, j)
  BY <1>3 DEF BytesOf
<1>5. PICK j \in 1 .. parts[i] : ByteOf(data, row, parts, pos, k, i, j)
  BY <1>4
<1>6. PICK q \in 1 .. m : \E p \in 1 .. parts[q] : ByteOf(data, row, parts, pos, k - 1, q, p)
  BY <1>3 DEF BytesOf
<1>7. PICK p \in 1 .. parts[q] : ByteOf(data, row, parts, pos, k - 1, q, p)
  BY <1>6
<1>8. /\ k = at(i - 1) + j /\ data[k] = row[pos[i]].at + j - 1
      /\ k - 1 = at(q - 1) + p /\ data[k - 1] = row[pos[q]].at + p - 1
  BY <1>5, <1>7 DEF ByteOf
<1>9. /\ i \in Nat /\ q \in Nat /\ j \in Nat /\ p \in Nat /\ j >= 1 /\ p <= parts[q] /\ j <= parts[i]
      /\ i \in 0 .. m /\ q \in 0 .. m /\ i - 1 \in 0 .. m /\ q - 1 \in 0 .. m
  <2>1. parts[i] \in Nat /\ parts[q] \in Nat
    OBVIOUS
  <2>2. i \in Nat /\ q \in Nat /\ j \in Nat /\ p \in Nat /\ j >= 1 /\ p <= parts[q] /\ j <= parts[i]
    BY <2>1
  <2> QED
    BY <1>1, <2>2
<1>10. ~(i < q)
  <2>1. SUFFICES ASSUME i < q PROVE FALSE
    OBVIOUS
  <2>2. q - 1 \in i .. m
    BY <1>1, <1>9, <2>1
  <2>3. at(i) <= at(q - 1)
    BY <1>1, <1>9, <2>2, SumGrows
  <2> HIDE DEF at
  <2>4. at(i) = at(i - 1) + parts[i] /\ at(i) \in Nat /\ at(i - 1) \in Nat /\ at(q - 1) \in Nat
    BY <1>2, <1>9
  <2>5. parts[i] \in Nat
    OBVIOUS
  <2> DEFINE b == at(i - 1)
             e == at(q - 1)
             l == parts[i]
  <2>6. /\ b \in Nat /\ e \in Nat /\ l \in Nat /\ b + l <= e
        /\ k = b + j /\ k - 1 = e + p
        /\ j \in Nat /\ p \in Nat /\ j <= l
    BY <1>8, <1>9, <2>3, <2>4, <2>5
  <2> HIDE DEF b, e, l
  <2> QED
    BY <2>6
<1> HIDE DEF at
<1>11. /\ row[pos[i]].at \in Nat /\ row[pos[q]].at \in Nat /\ pos[i] \in 1 .. n /\ pos[q] \in 1 .. n
       /\ parts[q] = row[pos[q]].len /\ parts[q] \in Nat
  <2>1. pos[i] \in 1 .. n /\ pos[q] \in 1 .. n /\ parts[q] = row[pos[q]].len /\ parts[q] \in Nat
    BY <1>1
  <2>2. row[pos[i]] \in Fields /\ row[pos[q]] \in Fields
    BY <1>1, <2>1
  <2> QED
    BY <2>1, <2>2 DEF Fields
<1>12. CASE q = i
  <2>1. j = p + 1
    <3>1. at(i - 1) \in Nat
      BY <1>2, <1>9
    <3> QED
      BY <1>8, <1>9, <1>12, <3>1
  <2> QED
    BY <1>8, <1>9, <1>11, <1>12, <2>1
<1>13. CASE q < i
  <2>1. pos[q] < pos[i]
    BY <1>1, <1>9, <1>13
  <2>2. row[pos[q]].at + row[pos[q]].len < row[pos[i]].at
    <3>1. Ordered(row) /\ pos[q] \in DOMAIN row /\ pos[i] \in DOMAIN row
      BY <1>1, <1>11
    <3> QED
      BY <2>1, <3>1 DEF Ordered
  <2>3. row[pos[q]].at + parts[q] < row[pos[i]].at
    BY <1>11, <2>2
  <2> DEFINE a == row[pos[q]].at
             b == row[pos[i]].at
             c == parts[q]
  <2>4. a \in Nat /\ b \in Nat /\ c \in Nat /\ a + c < b /\ p <= c
    BY <1>9, <1>11, <2>3
  <2>5. data[k - 1] = a + p - 1 /\ data[k] = b + j - 1
    BY <1>8
  <2> HIDE DEF a, b, c
  <2>6. a + p - 1 < b + j - 1
    BY <1>9, <2>4
  <2> QED
    BY <2>5, <2>6
<1> QED
  BY <1>9, <1>10, <1>12, <1>13

\* They are all the bytes of data.
LEMMA BytesAreAll ==
  ASSUME NEW data, NEW row, NEW parts, NEW pos, NEW m, NEW n, CarriedBy(row, parts, pos, m, n),
         BytesOf(data, row, parts, pos, m)
  PROVE  {data[k] : k \in 1 .. SumOf(parts, 1 .. m)} =
           UNION {row[x].at .. row[x].at + row[x].len - 1 : x \in {y \in 1 .. n : row[y].len > 0}}
<1> DEFINE length == SumOf(parts, 1 .. m)
<1>1. /\ m \in Nat /\ n \in Nat /\ row \in Seq(Fields) /\ Len(row) = n
      /\ \A i \in 1 .. m : pos[i] \in 1 .. n /\ parts[i] = row[pos[i]].len
      /\ \A x \in 1 .. n : row[x].len = 0 \/ \E i \in 1 .. m : pos[i] = x
  BY DEF CarriedBy
<1>2. \A x \in 1 .. n : row[x].at \in Nat /\ row[x].len \in Nat
  <2>1. \A x \in 1 .. n : row[x] \in Fields
    BY <1>1
  <2> QED
    BY <2>1 DEF Fields
<1>3. ASSUME NEW k \in 1 .. length
      PROVE  \E x \in 1 .. n : row[x].len > 0 /\ data[k] \in row[x].at .. row[x].at + row[x].len - 1
  <2>1. PICK i \in 1 .. m : \E j \in 1 .. parts[i] : ByteOf(data, row, parts, pos, k, i, j)
    BY DEF BytesOf
  <2>2. PICK j \in 1 .. parts[i] : ByteOf(data, row, parts, pos, k, i, j)
    BY <2>1
  <2>3. data[k] = row[pos[i]].at + j - 1
    BY <2>2 DEF ByteOf
  <2> DEFINE a == row[pos[i]].at
             b == row[pos[i]].len
  <2>4. pos[i] \in 1 .. n /\ a \in Nat /\ b \in Nat /\ j \in 1 .. b
    BY <1>1, <1>2
  <2> HIDE DEF a, b
  <2>5. b > 0 /\ a + j - 1 \in a .. a + b - 1
    BY <2>4
  <2> QED
    BY <2>3, <2>4, <2>5 DEF a, b
<1>4. ASSUME NEW x \in 1 .. n, row[x].len > 0, NEW v \in row[x].at .. row[x].at + row[x].len - 1
      PROVE  \E k \in 1 .. length : data[k] = v
  <2>1. PICK i \in 1 .. m : pos[i] = x
    <3>1. row[x].len # 0
      BY <1>2, <1>4
    <3> QED
      BY <1>1, <3>1
  <2> DEFINE a == row[x].at
             b == row[x].len
             j == v - a + 1
  <2>2. a \in Nat /\ b \in Nat /\ v \in a .. a + b - 1
    BY <1>2
  <2> HIDE DEF a, b
  <2>3. j \in 1 .. b /\ a + j - 1 = v
    BY <2>2
  <2>4. parts[i] = b /\ row[pos[i]].at = a
    BY <1>1, <2>1 DEF a, b
  <2> HIDE DEF j
  <2>5. \E k \in 1 .. length : ByteOf(data, row, parts, pos, k, i, j)
    BY <2>3, <2>4 DEF BytesOf
  <2> QED
    BY <2>3, <2>4, <2>5 DEF ByteOf
<1> HIDE DEF length
<1> DEFINE sent == {y \in 1 .. n : row[y].len > 0}
           all == UNION {row[x].at .. row[x].at + row[x].len - 1 : x \in sent}
<1>5. ASSUME NEW k \in 1 .. length PROVE data[k] \in all
  BY <1>3
<1>6. ASSUME NEW v \in all PROVE \E k \in 1 .. length : data[k] = v
  <2>1. PICK x \in sent : v \in row[x].at .. row[x].at + row[x].len - 1
    OBVIOUS
  <2> QED
    BY <1>4, <2>1
<1> HIDE DEF sent, all
<1>7. {data[k] : k \in 1 .. length} = all
  BY <1>5, <1>6
<1> QED
  BY <1>7 DEF length, sent, all

\* read_raw_inputs gives the client what the drive has sent.
LEMMA InputsAreWhole ==
  ASSUME NEW topology, topology.slots \in Seq(DataParts), OncePerName(topology.slots),
         topology.dos \in Seq(DataParts), topology.dos # <<>>,
         NEW pos, Carries(topology.slots, topology.dos, pos)
  PROVE  InputsArrive(topology, Total(Ins(topology.dos)))
<1> DEFINE slots == topology.slots
           dos == topology.dos
           m == Len(dos)
           n == Len(slots)
           row == InObjs(slots)
           parts == Ins(dos)
           length == Total(parts)
           data == InputsOfDevice(dos, row, length)
           sent == {i \in DOMAIN slots : slots[i].in > 0}
<1>1. /\ m \in Nat /\ n \in Nat /\ DOMAIN slots = 1 .. n
      /\ parts \in Seq(Nat) /\ Len(parts) = m
      /\ Ins(slots) \in Seq(Nat) /\ Len(Ins(slots)) = n
      /\ \A i \in 1 .. n : Ins(slots)[i] = slots[i].in
  <2>1. m \in Nat /\ n \in Nat /\ DOMAIN slots = 1 .. n
    OBVIOUS
  <2>2. parts \in Seq(Nat) /\ Len(parts) = m
    BY LengthsTyped, DriveLengths
  <2>3. /\ Ins(slots) \in Seq(Nat) /\ Len(Ins(slots)) = n
        /\ \A i \in 1 .. n : Ins(slots)[i] = slots[i].in
    BY LengthsTyped, DriveLengths
  <2> QED
    BY <2>1, <2>2, <2>3
<1>2. data \in [1 .. SumOf(parts, 1 .. m) -> Nat] /\ ReceivedOf(data, slots, dos, pos, m)
  BY ReceivedIs
<1>3. PickedOf(parts, Ins(slots), pos, m, n)
  BY CarriedIs
<1>4. RowOf(row, slots, Ins(slots), 0, n)
  BY <1>1, RowIs DEF InObjs
<1>5. CyclicObjects(slots).in = row /\ IocrLayout(slots).inObjs = row
  BY LayoutParts DEF CyclicObjects
<1>6. InputsArrive(topology, length) <=>
        /\ length = Total(Ins(slots))
        /\ ToSet(data) = UNION {row[i].at .. row[i].at + row[i].len - 1 : i \in sent}
        /\ \A k \in 2 .. length : data[k - 1] < data[k]
  BY <1>5 DEF InputsArrive
<1> HIDE DEF slots, dos, m, n, row, parts, length, data
<1>7. length = SumOf(parts, 1 .. m)
  BY <1>1, TotalIs DEF length
<1>8. length = Total(Ins(slots))
  <2> DEFINE l == Ins(slots)
  <2> HIDE DEF l
  <2>1. Total(l) = SumOf(l, 1 .. n)
    BY <1>1, TotalIs DEF l
  <2>2. SumOf(l, 1 .. n) = SumOf(parts, 1 .. m)
    BY <1>1, <1>3, SumPicked DEF l
  <2> QED
    BY <1>7, <2>1, <2>2 DEF l
<1>9. CarriedBy(row, parts, pos, m, n) /\ BytesOf(data, row, parts, pos, m)
  BY <1>2 DEF ReceivedOf, row, parts, n
<1>10. ToSet(data) = UNION {row[i].at .. row[i].at + row[i].len - 1 : i \in sent}
  <2>1. sent = {y \in 1 .. n : row[y].len > 0}
    <3>1. \A y \in 1 .. n : row[y].len = slots[y].in
      BY <1>1, <1>4 DEF RowOf
    <3> QED
      BY <1>1, <3>1
  <2>2. DOMAIN data = 1 .. SumOf(parts, 1 .. m)
    BY <1>2
  <2>3. ToSet(data) = {data[k] : k \in 1 .. SumOf(parts, 1 .. m)}
    BY <2>2 DEF ToSet
  <2> HIDE DEF sent
  <2> QED
    BY <1>9, <2>1, <2>3, BytesAreAll
<1>11. ASSUME NEW k \in 2 .. length PROVE data[k - 1] < data[k]
  <2>1. \A i \in 1 .. m : parts[i] \in Nat
    BY <1>1
  <2>2. k \in 2 .. SumOf(parts, 1 .. m)
    BY <1>7
  <2> QED
    BY <1>9, <2>1, <2>2, BytesAscend
<1>12. InputsArrive(topology, length)
  BY <1>6, <1>8, <1>10, <1>11
<1> QED
  BY <1>12 DEF length, parts, dos

\* Functions that are laid over each other, those of a set S in any order.
Sheets == UNION {[D -> Int] : D \in SUBSET Int}
Overlay(c, S, h) ==
  h = [s \in SUBSET S |-> IF s = {} THEN <<>> ELSE WrittenOver(c[Chosen(s)], h[s \ {Chosen(s)}])]

\* What is written over a sheet stays, and so does the sheet beside it.
LEMMA OverSheets ==
  ASSUME NEW f \in Sheets, NEW g \in Sheets
  PROVE  /\ WrittenOver(f, g) \in Sheets
         /\ DOMAIN WrittenOver(f, g) = DOMAIN f \union DOMAIN g
         /\ \A x \in DOMAIN f : WrittenOver(f, g)[x] = f[x]
         /\ \A x \in DOMAIN g \ DOMAIN f : WrittenOver(f, g)[x] = g[x]
<1>1. PICK A \in SUBSET Int : f \in [A -> Int]
  BY DEF Sheets
<1>2. PICK B \in SUBSET Int : g \in [B -> Int]
  BY DEF Sheets
<1> DEFINE C == A \union B
<1>3. WrittenOver(f, g) = [x \in C |-> IF x \in A THEN f[x] ELSE g[x]]
  BY <1>1, <1>2 DEF WrittenOver
<1>4. WrittenOver(f, g) \in [C -> Int]
  BY <1>1, <1>2, <1>3
<1>5. C \in SUBSET Int
  OBVIOUS
<1> HIDE DEF C
<1>6. WrittenOver(f, g) \in Sheets
  BY <1>4, <1>5 DEF Sheets
<1> QED
  BY <1>1, <1>2, <1>3, <1>6 DEF C

\* There is an overlay of finitely many of them.
LEMMA OverlayExists ==
  ASSUME NEW S, IsFiniteSet(S), NEW c, \A i \in S : c[i] \in Sheets
  PROVE  \E h \in [SUBSET S -> Sheets] : Overlay(c, S, h)
<1> DEFINE pick == [s \in (SUBSET S) \ {{}} |-> Chosen(s)]
           step == [e \in S \X Sheets |-> WrittenOver(c[e[1]], e[2])]
<1>1. \A s \in (SUBSET S) \ {{}} : Chosen(s) \in s
  BY DEF Chosen
<1>2. pick \in [(SUBSET S) \ {{}} -> S]
  BY <1>1
<1>3. \A s \in (SUBSET S) \ {{}} : pick[s] \in s
  BY <1>1
<1>4. step \in [S \X Sheets -> Sheets]
  <2>1. \A i \in S, g \in Sheets : WrittenOver(c[i], g) \in Sheets
    BY OverSheets
  <2> QED
    BY <2>1
<1>5. <<>> \in Sheets
  <2>1. <<>> \in [{} -> Int]
    OBVIOUS
  <2> QED
    BY <2>1 DEF Sheets
<1>6. PICK h \in [SUBSET S -> Sheets] : \A s \in SUBSET S : Folded(S, <<>>, pick, step, h, s)
  <2> HIDE DEF pick, step
  <2> QED
    BY <1>2, <1>3, <1>4, <1>5, FoldExists
<1>7. ASSUME NEW s \in SUBSET S
      PROVE  h[s] = IF s = {} THEN <<>> ELSE WrittenOver(c[Chosen(s)], h[s \ {Chosen(s)}])
  <2>1. CASE s = {}
    BY <1>6, <2>1 DEF Folded
  <2>2. CASE s # {}
    <3>1. Chosen(s) \in S /\ h[s \ {Chosen(s)}] \in Sheets /\ pick[s] = Chosen(s)
      BY <1>1, <1>6, <2>2
    <3>2. h[s] = step[<<Chosen(s), h[s \ {Chosen(s)}]>>]
      BY <1>6, <2>2, <3>1 DEF Folded
    <3>3. h[s] = WrittenOver(c[Chosen(s)], h[s \ {Chosen(s)}])
      BY <3>1, <3>2
    <3> QED
      BY <2>2, <3>3
  <2> QED
    BY <2>1, <2>2
<1>8. h = [s \in SUBSET S |-> IF s = {} THEN <<>> ELSE WrittenOver(c[Chosen(s)], h[s \ {Chosen(s)}])]
  BY <1>6, <1>7
<1> QED
  BY <1>6, <1>8 DEF Overlay

\* When they are about different places, all of each of them is seen.
AllSeen(c, s, g) == \A i \in s : \A o \in DOMAIN c[i] : o \in DOMAIN g /\ g[o] = c[i][o]

\* It is.
LEMMA OverlaySeen ==
  ASSUME NEW S, IsFiniteSet(S), NEW c, \A i \in S : c[i] \in Sheets,
         \A i, j \in S : i # j => DOMAIN c[i] \cap DOMAIN c[j] = {},
         NEW h, Overlay(c, S, h)
  PROVE  AllSeen(c, S, h[S])
<1> DEFINE Good(s) == h[s] \in Sheets /\ DOMAIN h[s] \subseteq UNION {DOMAIN c[i] : i \in s} /\ AllSeen(c, s, h[s])
           T == {n \in Nat : \A s \in SUBSET S : Cardinality(s) = n => Good(s)}
<1>1. \A s \in SUBSET S : IsFiniteSet(s) /\ Cardinality(s) \in Nat
  BY FS_Subset, FS_CardinalityType
<1>2. \A s \in SUBSET S : h[s] = IF s = {} THEN <<>> ELSE WrittenOver(c[Chosen(s)], h[s \ {Chosen(s)}])
  BY DEF Overlay
<1>3. 0 \in T
  <2>1. <<>> \in [{} -> Int] /\ DOMAIN <<>> = {}
    OBVIOUS
  <2>2. <<>> \in Sheets
    BY <2>1 DEF Sheets
  <2>3. h[{}] = <<>>
    BY <1>2
  <2>4. Good({})
    BY <2>1, <2>2, <2>3 DEF AllSeen
  <2> HIDE DEF Good
  <2> QED
    BY <1>1, <2>4, FS_EmptySet
<1>4. ASSUME NEW n \in Nat, n \in T PROVE n + 1 \in T
  <2>1. SUFFICES ASSUME NEW s \in SUBSET S, Cardinality(s) = n + 1 PROVE Good(s)
    OBVIOUS
  <2>2. s # {}
    BY <1>1, <2>1, FS_EmptySet
  <2> DEFINE top == Chosen(s)
             r == s \ {top}
  <2>3. top \in s
    BY <2>2 DEF Chosen
  <2>4. r \in SUBSET S /\ Cardinality(r) = n
    <3>1. IsFiniteSet(s)
      BY <1>1
    <3>2. Cardinality(s \ {top}) = Cardinality(s) - 1
      BY <2>3, <3>1, FS_RemoveElement
    <3> QED
      BY <2>1, <3>2
  <2>5. h[s] = WrittenOver(c[top], h[r])
    BY <1>2, <2>2
  <2>6. Good(r)
    <3> HIDE DEF Good
    <3> QED
      BY <1>4, <2>4
  <2>7. s = r \union {top}
    BY <2>3
  <2> HIDE DEF top, r
  <2>8. c[top] \in Sheets /\ h[r] \in Sheets
    BY <2>3, <2>6
  <2>9. /\ h[s] \in Sheets /\ DOMAIN h[s] = DOMAIN c[top] \union DOMAIN h[r]
        /\ \A x \in DOMAIN c[top] : h[s][x] = c[top][x]
        /\ \A x \in DOMAIN h[r] \ DOMAIN c[top] : h[s][x] = h[r][x]
    <3> DEFINE f == c[top]
               g == h[r]
    <3>1. f \in Sheets /\ g \in Sheets /\ h[s] = WrittenOver(f, g)
      BY <2>5, <2>8
    <3> HIDE DEF f, g
    <3>2. /\ WrittenOver(f, g) \in Sheets
          /\ DOMAIN WrittenOver(f, g) = DOMAIN f \union DOMAIN g
          /\ \A x \in DOMAIN f : WrittenOver(f, g)[x] = f[x]
          /\ \A x \in DOMAIN g \ DOMAIN f : WrittenOver(f, g)[x] = g[x]
      BY <3>1, OverSheets
    <3> QED
      BY <3>1, <3>2 DEF f, g
  <2>10. AllSeen(c, s, h[s])
    <3>1. SUFFICES ASSUME NEW i \in s, NEW o \in DOMAIN c[i]
                   PROVE  o \in DOMAIN h[s] /\ h[s][o] = c[i][o]
      BY DEF AllSeen
    <3>2. CASE i = top
      BY <2>9, <3>2
    <3>3. CASE i # top
      <4>1. i \in r
        BY <2>7, <3>3
      <4>2. o \in DOMAIN h[r] /\ h[r][o] = c[i][o]
        BY <2>6, <4>1 DEF AllSeen
      <4>3. o \notin DOMAIN c[top]
        BY <2>3, <3>3
      <4> QED
        BY <2>9, <4>2, <4>3
    <3> QED
      BY <3>2, <3>3
  <2>11. DOMAIN h[s] \subseteq UNION {DOMAIN c[i] : i \in s}
    BY <2>6, <2>7, <2>9
  <2> QED
    BY <2>9, <2>10, <2>11
<1>5. \A n \in Nat : n \in T
  <2> HIDE DEF T
  <2> QED
    BY <1>3, <1>4, Induction
<1>6. Good(S)
  <2> HIDE DEF Good
  <2> QED
    BY <1>1, <1>5
<1> QED
  BY <1>6

\* What is found first by a name that occurs once in the first of two lists.
LEMMA FirstNamed ==
  ASSUME NEW data \in Seq(Fields), NEW rest \in Seq(Fields), OncePerName(data),
         NEW f \in ToSet(data)
  PROVE  /\ Head(Named(data \o rest, f.slot, f.subslot)) = f
         /\ f \in ToSet(data \o rest)
<1> DEFINE all == data \o rest
           good == {o \in ToSet(all) : o.slot = f.slot /\ o.subslot = f.subslot}
           named == Named(all, f.slot, f.subslot)
           d == Len(data)
<1>1. /\ all \in Seq(Fields) /\ ToSet(all) = ToSet(data) \union ToSet(rest)
      /\ \A i \in 1 .. d : all[i] = data[i]
  BY JoinedIs DEF JoinedOf
<1>2. named = Only(all, good)
  BY DEF Named
<1>3. f \in good
  BY <1>1
<1>4. d \in Nat /\ DOMAIN data = 1 .. d
  OBVIOUS
<1>5. Len(all) \in Nat /\ d <= Len(all)
  <2>1. Len(data \o rest) = d + Len(rest) /\ Len(rest) \in Nat
    BY ConcatProperties
  <2> HIDE DEF d
  <2> QED
    BY <1>4, <2>1
<1> HIDE DEF all, good, named, d
<1>6. PICK p : OnlyOf(named, all, Len(all), good, p)
  BY <1>1, <1>2, OnlyIs
<1>7. Len(named) \in Nat
  <2>1. named \in Seq(Fields)
    BY <1>1, <1>2, OnlyIs
  <2> QED
    BY <2>1
<1>8. PICK i \in 1 .. d : data[i] = f
  BY <1>4 DEF ToSet
<1>9. all[i] \in good /\ i \in 1 .. Len(all)
  BY <1>1, <1>3, <1>4, <1>5, <1>8
<1>10. PICK k \in 1 .. Len(named) : p[k] = i
  BY <1>6, <1>9 DEF OnlyOf
<1>11. /\ 1 \in 1 .. Len(named) /\ (k = 1 \/ 1 < k)
  BY <1>7
<1>12. p[1] \in 1 .. Len(all) /\ p[1] <= i
  BY <1>5, <1>6, <1>8, <1>10, <1>11 DEF OnlyOf
<1>13. p[1] \in 1 .. d
  BY <1>4, <1>5, <1>12
<1>14. named[1] = data[p[1]] /\ named[1] \in good
  BY <1>1, <1>6, <1>11, <1>13 DEF OnlyOf
<1>15. named[1] \in ToSet(data)
  BY <1>4, <1>13, <1>14 DEF ToSet
<1>16. named[1] = f
  <2>1. named[1].slot = f.slot /\ named[1].subslot = f.subslot
    BY <1>14 DEF good
  <2> QED
    BY <1>15, <2>1, OnceIsOne
<1>17. Head(named) = named[1]
  <2>1. named \in Seq(Fields) /\ named # <<>>
    BY <1>1, <1>2, <1>11, OnlyIs
  <2> QED
    BY <2>1
<1> QED
  BY <1>1, <1>16, <1>17 DEF all, named

\* write_raw_outputs puts what the client has sent where the drive looks for it.
OutputChunk(dos, row, pos) ==
  [i \in {j \in DOMAIN dos : dos[j].out > 0} |->
     [o \in row[pos[i]].at .. row[pos[i]].at + dos[i].out - 1 |->
        SumOf(Outs(dos), 1 .. i - 1) + o - row[pos[i]].at + 1]]

ChunksFit(c, row, dos, pos, I) ==
  /\ \A i \in I : c[i] \in Sheets
  /\ \A i, j \in I : i # j => DOMAIN c[i] \cap DOMAIN c[j] = {}
  /\ \A i \in I : \A k \in 0 .. dos[i].out - 1 :
       /\ row[pos[i]].at + k \in DOMAIN c[i]
       /\ c[i][row[pos[i]].at + k] = SumOf(Outs(dos), 1 .. i - 1) + k + 1

\* The chunks of the outputs have places of their own, and each byte its own value.
LEMMA OutputChunks ==
  ASSUME NEW row, NEW dos \in Seq(DataParts), NEW pos, NEW n,
         CarriedBy(row, Outs(dos), pos, Len(dos), n)
  PROVE  LET I == {j \in DOMAIN dos : dos[j].out > 0}
         IN IsFiniteSet(I) /\ ChunksFit(OutputChunk(dos, row, pos), row, dos, pos, I)
<1> DEFINE m == Len(dos)
           parts == Outs(dos)
           I == {j \in DOMAIN dos : dos[j].out > 0}
           c == OutputChunk(dos, row, pos)
           at(i) == row[pos[i]].at
           start(i) == SumOf(parts, 1 .. i - 1)
<1>1. /\ m \in Nat /\ DOMAIN dos = 1 .. m
      /\ \A i \in 1 .. m : parts[i] = dos[i].out /\ parts[i] \in Nat
  <2>1. m \in Nat /\ DOMAIN dos = 1 .. m
    OBVIOUS
  <2>2. parts \in Seq(Nat) /\ Len(parts) = m /\ \A i \in 1 .. m : parts[i] = dos[i].out
    BY LengthsTyped, DriveLengths
  <2> HIDE DEF parts, m
  <2>3. \A i \in 1 .. m : parts[i] \in Nat
    BY <2>2
  <2> QED
    BY <2>1, <2>2, <2>3
<1>2. /\ n \in Nat /\ row \in Seq(Fields) /\ Len(row) = n /\ Ordered(row)
      /\ \A i \in 1 .. m : pos[i] \in 1 .. n /\ parts[i] = row[pos[i]].len
      /\ \A i, j \in 0 .. m : i < j => pos[i] < pos[j]
  BY DEF CarriedBy, Picks
<1>3. c = [i \in I |-> [o \in at(i) .. at(i) + dos[i].out - 1 |-> start(i) + o - at(i) + 1]]
  BY DEF OutputChunk
<1>4. I \subseteq 1 .. m /\ IsFiniteSet(I)
  <2>1. I \subseteq 1 .. m
    BY <1>1
  <2>2. IsFiniteSet(1 .. m)
    BY <1>1, FS_Interval
  <2> HIDE DEF I, m
  <2> QED
    BY <2>1, <2>2, FS_Subset
<1> HIDE DEF m, parts, c
<1>5. ASSUME NEW i \in I
      PROVE  /\ i \in 1 .. m /\ at(i) \in Nat /\ start(i) \in Nat /\ dos[i].out \in Nat
             /\ dos[i].out > 0 /\ row[pos[i]].len = dos[i].out /\ pos[i] \in 1 .. n
  <2>1. i \in 1 .. m /\ dos[i].out > 0 /\ i - 1 \in 0 .. m
    BY <1>1
  <2>2. pos[i] \in 1 .. n /\ row[pos[i]].len = dos[i].out /\ dos[i].out \in Nat
    BY <1>1, <1>2, <2>1
  <2>3. row[pos[i]] \in Fields
    BY <1>2, <2>2
  <2>4. at(i) \in Nat
    BY <2>3 DEF Fields
  <2>5. start(i) \in Nat
    <3>1. \A q \in 1 .. m : parts[q] \in Nat
      BY <1>1
    <3>2. \A q \in 0 .. m : SumOf(parts, 1 .. q) \in Nat
      BY <1>1, <3>1, SumPrefix
    <3> QED
      BY <2>1, <3>2
  <2> QED
    BY <2>1, <2>2, <2>4, <2>5
<1> HIDE DEF start
<1>6. ASSUME NEW i \in I
      PROVE  /\ c[i] \in Sheets /\ DOMAIN c[i] = at(i) .. at(i) + dos[i].out - 1
             /\ \A k \in 0 .. dos[i].out - 1 :
                  at(i) + k \in DOMAIN c[i] /\ c[i][at(i) + k] = start(i) + k + 1
  <2> DEFINE a == at(i)
             b == dos[i].out
             s == start(i)
             D == a .. a + b - 1
  <2>1. a \in Nat /\ b \in Nat /\ s \in Nat /\ c[i] = [o \in D |-> s + o - a + 1]
    BY <1>3, <1>5
  <2> HIDE DEF a, b, s, c
  <2>2. c[i] \in [D -> Int] /\ D \in SUBSET Int
    BY <2>1
  <2>3. \A k \in 0 .. b - 1 : a + k \in D /\ s + (a + k) - a + 1 = s + k + 1
    BY <2>1
  <2> HIDE DEF D
  <2>4. c[i] \in Sheets /\ DOMAIN c[i] = D
    BY <2>2 DEF Sheets
  <2>5. \A k \in 0 .. b - 1 : a + k \in D /\ c[i][a + k] = s + k + 1
    BY <2>1, <2>3
  <2> QED
    BY <2>4, <2>5 DEF a, b, s, D
<1>7. ASSUME NEW i \in I, NEW j \in I, i < j PROVE DOMAIN c[i] \cap DOMAIN c[j] = {}
  <2>1. i \in 0 .. m /\ j \in 0 .. m
    BY <1>1, <1>5
  <2>2. pos[i] < pos[j]
    BY <1>2, <1>7, <2>1
  <2>3. pos[i] \in DOMAIN row /\ pos[j] \in DOMAIN row
    BY <1>2, <1>5
  <2>4. at(i) + row[pos[i]].len < at(j)
    <3> DEFINE x == pos[i]
               y == pos[j]
    <3>1. x \in DOMAIN row /\ y \in DOMAIN row /\ x < y
      BY <2>2, <2>3
    <3> HIDE DEF x, y
    <3>2. row[x].at + row[x].len < row[y].at
      BY <1>2, <3>1 DEF Ordered
    <3> QED
      BY <3>2 DEF x, y
  <2> DEFINE a == at(i)
             b == dos[i].out
             a2 == at(j)
             b2 == dos[j].out
  <2>5. a \in Nat /\ b \in Nat /\ a2 \in Nat /\ b2 \in Nat /\ a + b < a2
    BY <1>5, <2>4
  <2> HIDE DEF a, b, a2, b2
  <2>6. (a .. a + b - 1) \cap (a2 .. a2 + b2 - 1) = {}
    BY <2>5
  <2> QED
    BY <1>6, <2>6 DEF a, b, a2, b2
<1>8. \A i, j \in I : i # j => DOMAIN c[i] \cap DOMAIN c[j] = {}
  <2> SUFFICES ASSUME NEW i \in I, NEW j \in I, i # j PROVE DOMAIN c[i] \cap DOMAIN c[j] = {}
    OBVIOUS
  <2>1. i < j \/ j < i
    BY <1>5
  <2> QED
    BY <1>7, <2>1
<1> HIDE DEF I
<1> QED
  BY <1>4, <1>6, <1>8 DEF c, I, start, parts, ChunksFit

\* The bytes the client sends get to the telegrams they are for (write_raw_outputs).
LEMMA OutputsAreWhole ==
  ASSUME NEW topology, topology.slots \in Seq(DataParts), OncePerName(topology.slots),
         topology.dos \in Seq(DataParts), NEW pos, Carries(topology.slots, topology.dos, pos)
  PROVE  OutputsArrive(topology)
<1> DEFINE slots == topology.slots
           dos == topology.dos
           m == Len(dos)
           n == Len(slots)
           row == Placed(slots)
           data == WithData(slots)
           rest == StatusOnly(slots) \o Trailing(slots)
           objects == CyclicObjects(slots).out
           I == {i \in DOMAIN dos : dos[i].out > 0}
           Chunk(i) ==
             LET at == Head(Named(objects, dos[i].slot, dos[i].subslot)).at
             IN [o \in at .. at + dos[i].out - 1 |-> PartStart(Outs(dos), i) + o - at + 1]
           c == OutputChunk(dos, row, pos)
           Eq(h) == h = [s \in SUBSET I |-> IF s = {} THEN <<>>
                                            ELSE WrittenOver(Chunk(Chosen(s)), h[s \ {Chosen(s)}])]
           it == CHOOSE h : Eq(h)
           frame == OutputsInFrame(dos, objects)
<1>1. CarriedBy(row, Outs(dos), pos, m, n)
  BY CarriedIs
<1>2. /\ IsFiniteSet(I)
      /\ \A i \in I : c[i] \in Sheets
      /\ \A i, j \in I : i # j => DOMAIN c[i] \cap DOMAIN c[j] = {}
      /\ \A i \in I : \A k \in 0 .. dos[i].out - 1 :
           /\ row[pos[i]].at + k \in DOMAIN c[i]
           /\ c[i][row[pos[i]].at + k] = SumOf(Outs(dos), 1 .. i - 1) + k + 1
  <2>1. IsFiniteSet(I) /\ ChunksFit(c, row, dos, pos, I)
    <3> HIDE DEF slots, dos, m, n, row
    <3>1. dos \in Seq(DataParts)
      BY DEF dos
    <3> QED
      BY <1>1, <3>1, OutputChunks DEF m
  <2> HIDE DEF I, c, dos, row
  <2> QED
    BY <2>1 DEF ChunksFit
<1>3. c = [i \in I |-> [o \in row[pos[i]].at .. row[pos[i]].at + dos[i].out - 1 |->
                          SumOf(Outs(dos), 1 .. i - 1) + o - row[pos[i]].at + 1]]
  BY DEF OutputChunk
<1>4. objects = data \o rest
  BY LayoutParts, ConcatAssociative DEF CyclicObjects
<1>5. frame = it[I]
  BY DEF OutputsInFrame, FoldSet, MapThenFoldSet, Chosen
<1>6. /\ m \in Nat /\ DOMAIN dos = 1 .. m
      /\ \A i \in 1 .. m : dos[i] = slots[pos[i]]
  BY DEF Carries
<1>7. /\ data \in Seq(Fields) /\ OncePerName(data) /\ rest \in Seq(Fields)
      /\ ToSet(data) = {f \in ToSet(row) : f.len > 0}
      /\ RowOf(row, slots, Outs(slots), 0, n)
  <2>1. OutputFields(slots, row, data, StatusOnly(slots))
    BY OutputFieldsIs
  <2>2. Outs(slots) \in Seq(Nat) /\ Len(Outs(slots)) = n
    BY LengthsTyped, DriveLengths
  <2>3. FrameOf(slots, row, Outs(slots), Trailing(slots))
    BY <2>2, FrameIs DEF Placed, Trailing
  <2>4. Trailing(slots) \in Seq(Fields) /\ StatusOnly(slots) \in Seq(Fields)
    BY <2>1, <2>3 DEF FrameOf, OutputFields
  <2>5. rest \in Seq(Fields)
    BY <2>4, ConcatProperties
  <2> HIDE DEF rest
  <2> QED
    BY <2>1, <2>3, <2>5 DEF OutputFields, FrameOf
<1>8. OutputsArrive(topology) <=>
        \A i \in I :
          \E o \in ToSet(objects) :
            /\ o.slot = dos[i].slot /\ o.subslot = dos[i].subslot /\ o.len = dos[i].out
            /\ \A k \in 0 .. o.len - 1 :
                 o.at + k \in DOMAIN frame /\ frame[o.at + k] = PartStart(Outs(dos), i) + k + 1
  BY DEF OutputsArrive
<1> HIDE DEF slots, dos, m, n, row, data, rest, objects, c, frame
<1>9. ASSUME NEW i \in I
      PROVE  /\ Head(Named(objects, dos[i].slot, dos[i].subslot)) = row[pos[i]]
             /\ row[pos[i]] \in ToSet(objects)
             /\ row[pos[i]].slot = dos[i].slot /\ row[pos[i]].subslot = dos[i].subslot
             /\ row[pos[i]].len = dos[i].out
  <2> DEFINE f == row[pos[i]]
  <2>1. i \in 1 .. m /\ dos[i].out > 0
    BY <1>6
  <2>2. pos[i] \in 1 .. n /\ Outs(dos)[i] = f.len /\ Len(row) = n
    BY <1>1, <2>1 DEF CarriedBy
  <2>3. f.slot = dos[i].slot /\ f.subslot = dos[i].subslot
    BY <1>6, <1>7, <2>1, <2>2 DEF RowOf
  <2>4. f.len = dos[i].out
    BY <1>6, <2>1, <2>2 DEF Outs
  <2>5. f \in ToSet(row)
    <3>1. DOMAIN row = 1 .. Len(row)
      BY <1>1 DEF CarriedBy
    <3> QED
      BY <2>2, <3>1 DEF ToSet
  <2> HIDE DEF f
  <2>6. f \in ToSet(data)
    BY <1>7, <2>1, <2>4, <2>5
  <2>7. Head(Named(data \o rest, f.slot, f.subslot)) = f /\ f \in ToSet(data \o rest)
    BY <1>7, <2>6, FirstNamed
  <2> QED
    BY <1>4, <2>3, <2>4, <2>7 DEF f
<1>10. \A i : PartStart(Outs(dos), i) = SumOf(Outs(dos), 1 .. i - 1)
  BY DEF PartStart, SumOf
<1>11. ASSUME NEW i \in I PROVE Chunk(i) = c[i]
  BY <1>3, <1>9, <1>10
<1> HIDE DEF Chunk, I
<1>12. \A h : Overlay(c, I, h) <=> Eq(h)
  <2> SUFFICES ASSUME NEW h PROVE Overlay(c, I, h) <=> Eq(h)
    OBVIOUS
  <2>1. \A s \in SUBSET I : s # {} => Chosen(s) \in I
    BY DEF Chosen
  <2>2. ASSUME NEW s \in SUBSET I
        PROVE  (IF s = {} THEN <<>> ELSE WrittenOver(c[Chosen(s)], h[s \ {Chosen(s)}]))
                 = (IF s = {} THEN <<>> ELSE WrittenOver(Chunk(Chosen(s)), h[s \ {Chosen(s)}]))
    BY <1>11, <2>1
  <2> QED
    BY <2>2 DEF Overlay
<1>13. Eq(it)
  <2>1. \E h : Overlay(c, I, h)
    BY <1>2, OverlayExists
  <2>2. \E h : Eq(h)
    BY <1>12, <2>1
  <2> HIDE DEF Eq
  <2> QED
    BY <2>2
<1> HIDE DEF it, Eq
<1>14. AllSeen(c, I, frame)
  <2>1. Overlay(c, I, it)
    BY <1>12, <1>13
  <2>2. AllSeen(c, I, it[I])
    BY <1>2, <2>1, OverlaySeen
  <2> QED
    BY <1>5, <2>2
<1>15. ASSUME NEW i \in I
       PROVE  \E o \in ToSet(objects) :
                /\ o.slot = dos[i].slot /\ o.subslot = dos[i].subslot /\ o.len = dos[i].out
                /\ \A k \in 0 .. o.len - 1 :
                     o.at + k \in DOMAIN frame /\ frame[o.at + k] = PartStart(Outs(dos), i) + k + 1
  <2>1. \A k \in 0 .. dos[i].out - 1 :
          /\ row[pos[i]].at + k \in DOMAIN frame
          /\ frame[row[pos[i]].at + k] = SumOf(Outs(dos), 1 .. i - 1) + k + 1
    BY <1>2, <1>14 DEF AllSeen
  <2> QED
    BY <1>9, <1>10, <2>1
<1> QED
  BY <1>8, <1>15

\* The submodule with the telegram is the last of a Drive Object, and the others carry
\* nothing.
EndsWith(slots, last) ==
  /\ slots \in Seq(DataParts) /\ Len(slots) > 0 /\ slots[Len(slots)] = last
  /\ \A j \in 1 .. Len(slots) : j < Len(slots) => slots[j].in + slots[j].out = 0

\* So it is in the slots of each Drive Object (expected_slots).
LEMMA DriveSlotsEnd ==
  ASSUME NEW env, NEW module, NEW telegram, telegram.in \in Nat, telegram.out \in Nat,
         NEW slot \in Nat
  PROVE  EndsWith(DriveSlots(env, module, telegram, slot), Sub(slot, 3, telegram.in, telegram.out))
<1> DEFINE a == <<Sub(slot, 1, 0, 0)>>
           b == IF env.empty /\ module.empty THEN <<Sub(slot, 2, 0, 0)>> ELSE <<>>
           last == Sub(slot, 3, telegram.in, telegram.out)
           ab == a \o b
           Nothing(s) == \A j \in 1 .. Len(s) : s[j].in + s[j].out = 0
<1>1. DriveSlots(env, module, telegram, slot) = (a \o b) \o <<last>>
  BY DEF DriveSlots
<1>2. \A q \in Nat : Sub(slot, q, 0, 0) \in DataParts /\ Sub(slot, q, 0, 0).in + Sub(slot, q, 0, 0).out = 0
  BY DEF Sub, DataParts
<1>3. a \in Seq(DataParts) /\ Len(a) = 1 /\ Nothing(a)
  <2> DEFINE x == Sub(slot, 1, 0, 0)
  <2>1. x \in DataParts /\ x.in + x.out = 0
    BY <1>2
  <2> HIDE DEF x
  <2>2. <<x>> \in Seq(DataParts) /\ Len(<<x>>) = 1 /\ <<x>>[1] = x
    BY <2>1
  <2>3. Nothing(<<x>>)
    BY <2>1, <2>2
  <2> QED
    BY <2>2, <2>3 DEF x
<1>4. b \in Seq(DataParts) /\ Nothing(b)
  <2>1. CASE env.empty /\ module.empty
    <3> DEFINE x == Sub(slot, 2, 0, 0)
    <3>1. x \in DataParts /\ x.in + x.out = 0 /\ b = <<x>>
      BY <1>2, <2>1
    <3> HIDE DEF x, b
    <3>2. <<x>> \in Seq(DataParts) /\ Len(<<x>>) = 1 /\ <<x>>[1] = x
      BY <3>1
    <3> QED
      BY <3>1, <3>2
  <2>2. CASE ~(env.empty /\ module.empty)
    <3>1. b = <<>> /\ Len(<<>>) = 0 /\ <<>> \in Seq(DataParts)
      BY <2>2
    <3> HIDE DEF b
    <3> QED
      BY <3>1
  <2> QED
    BY <2>1, <2>2
<1>5. last \in DataParts
  BY DEF Sub, DataParts
<1> HIDE DEF a, b, last
<1>6. /\ ab \in Seq(DataParts) /\ Len(ab) = Len(a) + Len(b)
      /\ \A i \in 1 .. Len(a) : ab[i] = a[i]
      /\ \A i \in 1 .. Len(b) : ab[Len(a) + i] = b[i]
      /\ \A k \in 1 .. Len(a) + Len(b) : k \in 1 .. Len(a) \/ \E i \in 1 .. Len(b) : k = Len(a) + i
  BY <1>3, <1>4, JoinedIs DEF JoinedOf
<1>7. Len(ab) \in Nat /\ Len(ab) > 0 /\ Nothing(ab)
  <2>1. Len(b) \in Nat
    BY <1>4
  <2>2. Len(ab) \in Nat /\ Len(ab) > 0
    BY <1>3, <1>6, <2>1
  <2> HIDE DEF ab
  <2>3. ASSUME NEW k \in 1 .. Len(a) + Len(b) PROVE ab[k].in + ab[k].out = 0
    <3>1. CASE k \in 1 .. Len(a)
      BY <1>3, <1>6, <3>1
    <3>2. CASE k \notin 1 .. Len(a)
      <4>1. PICK i \in 1 .. Len(b) : k = Len(a) + i
        BY <1>6, <3>2
      <4>2. ab[k] = b[i]
        BY <1>6, <4>1
      <4> QED
        BY <1>4, <4>2
    <3> QED
      BY <3>1, <3>2
  <2> QED
    BY <1>6, <2>2, <2>3
<1> DEFINE all == ab \o <<last>>
           n == Len(ab)
<1>8. <<last>> \in Seq(DataParts) /\ Len(<<last>>) = 1 /\ <<last>>[1] = last
  BY <1>5
<1> HIDE DEF ab
<1>9. /\ all \in Seq(DataParts) /\ Len(all) = n + 1 /\ all[n + 1] = last
      /\ \A i \in 1 .. n : all[i] = ab[i]
  <2>1. all \in Seq(DataParts) /\ JoinedOf(all, ab, <<last>>, Len(ab), Len(<<last>>))
    BY <1>6, <1>8, JoinedIs
  <2> HIDE DEF all
  <2> QED
    BY <1>8, <2>1 DEF JoinedOf
<1> HIDE DEF all, n
<1>10. \A j \in 1 .. n + 1 : j < n + 1 => all[j].in + all[j].out = 0
  <2>1. n \in Nat /\ \A j \in 1 .. n : ab[j].in + ab[j].out = 0
    BY <1>7 DEF n
  <2> QED
    BY <1>9, <2>1
<1>11. EndsWith(all, last)
  <2>1. n \in Nat
    BY <1>7 DEF n
  <2> QED
    BY <1>9, <1>10, <2>1 DEF EndsWith
<1> QED
  BY <1>1, <1>11 DEF all, ab, last

\* Nothing is carried in front of the Drive Objects.
LEMMA DapCarriesNothing ==
  ASSUME NEW file \in Files, NEW found \in BOOLEAN
  PROVE  \A x \in 1 .. Len(DapHead(file, found)) :
           DapHead(file, found)[x].in + DapHead(file, found)[x].out = 0
<1> DEFINE head == [i \in DOMAIN file.head |-> Sub(0, file.head[i], 0, 0)]
<1>1. DOMAIN file.head = 1 .. Len(file.head) /\ Len(file.head) \in Nat
  BY DEF Files
<1>2. \A x \in 1 .. Len(file.head) : head[x].in + head[x].out = 0
  BY <1>1 DEF Sub
<1>3. Len(head) = Len(file.head)
  BY <1>1
<1>4. CASE found
  BY <1>2, <1>3, <1>4 DEF DapHead
<1>5. CASE ~found
  <2>1. DapHead(file, found) = <<>> /\ Len(<<>>) = 0
    BY <1>5 DEF DapHead
  <2> QED
    BY <2>1
<1> QED
  BY <1>4, <1>5

\* The i-th submodules behind a head, or the last ones of the i-th group.
LEMMA PlacesBehind ==
  ASSUME NEW h \in Nat, NEW m \in Nat, NEW lens, \A i \in 1 .. m : lens[i] \in Nat /\ lens[i] > 0
  PROVE  Picks([i \in 0 .. m |-> IF i = 0 THEN 0 ELSE h + SumOf(lens, 1 .. i)], m,
               h + SumOf(lens, 1 .. m))
<1> DEFINE at(i) == SumOf(lens, 1 .. i)
           pos == [i \in 0 .. m |-> IF i = 0 THEN 0 ELSE h + at(i)]
<1>1. /\ at(0) = 0 /\ \A i \in 0 .. m : at(i) \in Nat
      /\ \A i \in 1 .. m : at(i) = at(i - 1) + lens[i]
  <2>1. \A i \in 1 .. m : lens[i] \in Nat
    OBVIOUS
  <2> QED
    BY <2>1, SumPrefix
<1>2. \A i \in 0 .. m : \A j \in i .. m : at(i) <= at(j)
  <2>1. \A i \in 1 .. m : lens[i] \in Nat
    OBVIOUS
  <2> QED
    BY <2>1, SumGrows
<1> HIDE DEF at
<1>3. ASSUME NEW i \in 0 .. m, NEW j \in 0 .. m, i < j PROVE at(i) < at(j)
  <2>1. j \in 1 .. m /\ j - 1 \in 0 .. m /\ j - 1 \in i .. m
    BY <1>3
  <2>2. at(i) <= at(j - 1) /\ at(j) = at(j - 1) + lens[j] /\ lens[j] \in Nat /\ lens[j] > 0
    BY <1>1, <1>2, <2>1
  <2>3. at(i) \in Nat /\ at(j - 1) \in Nat
    BY <1>1, <2>1
  <2> QED
    BY <2>2, <2>3
<1>4. ASSUME NEW i \in 0 .. m PROVE pos[i] \in 0 .. h + at(m)
  <2>1. at(i) \in Nat /\ at(m) \in Nat /\ at(i) <= at(m)
    BY <1>1, <1>2, m \in i .. m
  <2> QED
    BY <2>1
<1>5. ASSUME NEW i \in 0 .. m, NEW j \in 0 .. m, i < j PROVE pos[i] < pos[j]
  <2>1. j \in 1 .. m /\ 0 \in 0 .. m
    BY <1>5
  <2>2. at(i) < at(j) /\ at(i) \in Nat /\ at(j) \in Nat /\ at(0) < at(j)
    BY <1>1, <1>3, <1>5, <2>1
  <2>3. CASE i = 0
    BY <1>1, <2>1, <2>2, <2>3
  <2>4. CASE i # 0
    BY <2>1, <2>2, <2>4
  <2> QED
    BY <2>3, <2>4
<1>6. pos \in [0 .. m -> 0 .. h + at(m)] /\ pos[0] = 0
  BY <1>4
<1> HIDE DEF pos
<1>7. Picks(pos, m, h + at(m))
  BY <1>5, <1>6 DEF Picks
<1> QED
  BY <1>7 DEF pos, at

\* Groups of submodules behind a head, each with its telegram at its end.
LEMMA GroupsCarry ==
  ASSUME NEW head \in Seq(DataParts), \A x \in 1 .. Len(head) : head[x].in + head[x].out = 0,
         NEW m \in Nat \ {0}, NEW drives \in [1 .. m -> Seq(DataParts)],
         NEW dos \in Seq(DataParts), Len(dos) = m,
         \A i \in 1 .. m : EndsWith(drives[i], dos[i])
  PROVE  \E pos : Carries(head \o FlattenSeq(drives), dos, pos)
<1> DEFINE h == Len(head)
           flat == FlattenSeq(drives)
           slots == head \o flat
           lens == [i \in 1 .. m |-> Len(drives[i])]
           at(i) == SumOf(lens, 1 .. i)
           pos == [i \in 0 .. m |-> IF i = 0 THEN 0 ELSE h + at(i)]
           n == Len(slots)
<1>1. /\ \A i \in 1 .. m : lens[i] = Len(drives[i]) /\ lens[i] \in Nat /\ lens[i] > 0
      /\ \A i \in 1 .. m : drives[i] \in Seq(DataParts) /\ drives[i][lens[i]] = dos[i]
      /\ \A i \in 1 .. m : \A j \in 1 .. lens[i] : j < lens[i] => drives[i][j].in + drives[i][j].out = 0
  <2>1. \A i \in 1 .. m : lens[i] = Len(drives[i]) /\ drives[i] \in Seq(DataParts)
    OBVIOUS
  <2>2. \A i \in 1 .. m : Len(drives[i]) \in Nat
    BY <2>1
  <2> HIDE DEF lens
  <2> QED
    BY <2>1, <2>2 DEF EndsWith
<1> HIDE DEF lens
<1>2. flat \in Seq(DataParts) /\ FlatOf(flat, drives, lens, m)
  <2>1. \A i \in 1 .. m : lens[i] = Len(drives[i])
    BY <1>1
  <2> QED
    BY <2>1, FlatIs
<1>3. /\ at(0) = 0 /\ \A i \in 0 .. m : at(i) \in Nat
      /\ \A i \in 1 .. m : at(i) = at(i - 1) + lens[i]
  <2>1. \A i \in 1 .. m : lens[i] \in Nat
    BY <1>1
  <2> QED
    BY <2>1, SumPrefix
<1>4. Picks(pos, m, h + at(m)) /\ h \in Nat
  <2>1. h \in Nat
    OBVIOUS
  <2> HIDE DEF h
  <2> QED
    BY <1>1, <2>1, PlacesBehind
<1>5. /\ n = h + Len(flat)
      /\ \A i \in 1 .. h : slots[i] = head[i]
      /\ \A i \in 1 .. Len(flat) : slots[h + i] = flat[i]
      /\ \A k \in 1 .. h + Len(flat) : k \in 1 .. h \/ \E i \in 1 .. Len(flat) : k = h + i
  <2>1. JoinedOf(slots, head, flat, Len(head), Len(flat))
    BY <1>2, JoinedIs
  <2> HIDE DEF slots, flat
  <2> QED
    BY <2>1 DEF JoinedOf
<1>6. Len(flat) = at(m)
  BY <1>2 DEF FlatOf
<1>7. \A i \in 1 .. m : pos[i] = h + at(i)
  OBVIOUS
<1> HIDE DEF flat, slots, h, n, pos
<1>8. ASSUME NEW i \in 1 .. m, NEW j \in 1 .. lens[i]
      PROVE  at(i - 1) + j \in 1 .. at(m) /\ flat[at(i - 1) + j] = drives[i][j]
  <2>1. HoldsAt(flat, at(i - 1), drives[i])
    BY <1>2 DEF FlatOf
  <2>2. at(i - 1) + lens[i] <= at(m) /\ flat[at(i - 1) + j] = drives[i][j]
    BY <1>1, <1>6, <2>1 DEF HoldsAt
  <2>3. i - 1 \in 0 .. m /\ m \in 0 .. m
    OBVIOUS
  <2> HIDE DEF at
  <2>4. at(i - 1) \in Nat /\ at(m) \in Nat /\ lens[i] \in Nat
    BY <1>1, <1>3, <2>3
  <2> QED
    BY <2>2, <2>4
<1>9. ASSUME NEW i \in 1 .. m PROVE dos[i] = slots[pos[i]]
  <2>1. lens[i] \in 1 .. lens[i] /\ i - 1 \in 0 .. m
    BY <1>1
  <2>2. at(i - 1) + lens[i] \in 1 .. at(m) /\ flat[at(i - 1) + lens[i]] = dos[i]
    BY <1>1, <1>8, <2>1
  <2> HIDE DEF at
  <2>3. at(i) \in 1 .. at(m) /\ flat[at(i)] = dos[i]
    BY <1>3, <2>2
  <2> QED
    BY <1>5, <1>6, <1>7, <2>3
<1>10. ASSUME NEW k \in 1 .. at(m)
       PROVE  flat[k].in + flat[k].out = 0 \/ \E i \in 1 .. m : k = at(i)
  <2>1. \A x \in 1 .. m : lens[x] \in Nat
    BY <1>1
  <2>2. PICK i \in 1 .. m : \E j \in 1 .. lens[i] : k = at(i - 1) + j
    <3>1. m \in Nat /\ k \in 1 .. SumOf(lens, 1 .. m)
      OBVIOUS
    <3>2. InPart(k, lens, m)
      BY <2>1, <3>1, SumCovers
    <3> QED
      BY <3>2 DEF InPart
  <2>3. PICK j \in 1 .. lens[i] : k = at(i - 1) + j
    BY <2>2
  <2>4. flat[k] = drives[i][j]
    BY <1>8, <2>3
  <2>5. j = lens[i] \/ j < lens[i]
    BY <1>1
  <2>6. j < lens[i] => flat[k].in + flat[k].out = 0
    BY <1>1, <2>4
  <2>7. j = lens[i] => k = at(i)
    BY <1>3, <2>3
  <2> HIDE DEF at
  <2> QED
    BY <2>5, <2>6, <2>7
<1>11. ASSUME NEW x \in 1 .. n
       PROVE  slots[x].in + slots[x].out = 0 \/ \E i \in 1 .. m : pos[i] = x
  <2> HIDE DEF at
  <2>1. CASE x \in 1 .. h
    <3>1. slots[x] = head[x] /\ head[x].in + head[x].out = 0
      BY <1>5, <2>1 DEF h
    <3> QED
      BY <3>1
  <2>2. CASE x \notin 1 .. h
    <3>1. PICK k \in 1 .. Len(flat) : x = h + k
      BY <1>5, <2>2
    <3>2. slots[x] = flat[k] /\ k \in 1 .. at(m)
      BY <1>5, <1>6, <3>1
    <3>3. CASE flat[k].in + flat[k].out = 0
      BY <3>2, <3>3
    <3>4. CASE flat[k].in + flat[k].out # 0
      <4>1. PICK i \in 1 .. m : k = at(i)
        BY <1>10, <3>2, <3>4
      <4>2. pos[i] = x
        BY <1>7, <3>1, <4>1
      <4> QED
        BY <4>2
    <3> QED
      BY <3>3, <3>4
  <2> QED
    BY <2>1, <2>2
<1>12. Picks(pos, Len(dos), n)
  BY <1>4, <1>5, <1>6
<1>13. Carries(slots, dos, pos)
  BY <1>9, <1>11, <1>12 DEF Carries, n
<1> QED
  BY <1>13 DEF slots, flat

\* The Drive Objects as they stand, each a group of one.
LEMMA PartsCarry ==
  ASSUME NEW head \in Seq(DataParts), \A x \in 1 .. Len(head) : head[x].in + head[x].out = 0,
         NEW parts \in Seq(DataParts)
  PROVE  \E pos : Carries(head \o parts, parts, pos)
<1> DEFINE h == Len(head)
           m == Len(parts)
           slots == head \o parts
           pos == [i \in 0 .. m |-> IF i = 0 THEN 0 ELSE h + i]
           n == Len(slots)
<1>1. /\ n = h + m
      /\ \A i \in 1 .. h : slots[i] = head[i]
      /\ \A i \in 1 .. m : slots[h + i] = parts[i]
      /\ \A k \in 1 .. h + m : k \in 1 .. h \/ \E i \in 1 .. m : k = h + i
  <2>1. JoinedOf(slots, head, parts, Len(head), Len(parts))
    BY JoinedIs
  <2> HIDE DEF slots
  <2> QED
    BY <2>1 DEF JoinedOf
<1>2. h \in Nat /\ m \in Nat /\ \A x \in 1 .. h : head[x].in + head[x].out = 0
  OBVIOUS
<1> HIDE DEF h, m, slots, n
<1>3. pos \in [0 .. m -> 0 .. h + m] /\ pos[0] = 0 /\ \A i \in 1 .. m : pos[i] = h + i
  BY <1>2
<1>4. ASSUME NEW i \in 0 .. m, NEW j \in 0 .. m, i < j PROVE pos[i] < pos[j]
  <2>1. j \in 1 .. m /\ (i = 0 \/ i \in 1 .. m)
    BY <1>4
  <2> HIDE DEF pos
  <2>2. pos[j] = h + j /\ (i = 0 => pos[i] = 0) /\ (i \in 1 .. m => pos[i] = h + i)
    BY <1>3, <2>1
  <2> QED
    BY <1>2, <1>4, <2>1, <2>2
<1> HIDE DEF pos
<1>5. Picks(pos, m, n)
  BY <1>1, <1>3, <1>4 DEF Picks
<1>6. \A i \in 1 .. m : parts[i] = slots[pos[i]]
  BY <1>1, <1>3
<1>7. ASSUME NEW x \in 1 .. n
      PROVE  slots[x].in + slots[x].out = 0 \/ \E i \in 1 .. m : pos[i] = x
  <2>1. x \in 1 .. h + m
    BY <1>1
  <2>2. CASE x \in 1 .. h
    BY <1>1, <1>2, <2>2
  <2>3. CASE \E i \in 1 .. m : x = h + i
    BY <1>3, <2>3
  <2> QED
    BY <1>1, <2>1, <2>2, <2>3
<1>8. Carries(slots, parts, pos)
  BY <1>5, <1>6, <1>7 DEF Carries, n, m
<1> QED
  BY <1>8 DEF slots

\* As long as the lengths are the same, the process data of a device is that of its
\* submodules, with the idents of the environment or with the rack as it stands.
LEMMA TopologyCarries ==
  ASSUME NEW file \in Files, IdentsDiffer(file), NEW found \in BOOLEAN,
         NEW config \in DeviceConfigs, RackPlaced(EffectiveRack(config)), NEW env,
         NEW t, t = ExpectedSlots(file, found, config, env), SameLengths(t)
  PROVE  /\ t.slots \in Seq(DataParts) /\ OncePerName(t.slots)
         /\ t.dos \in Seq(DataParts) /\ t.dos # <<>>
         /\ \E pos : Carries(t.slots, t.dos, pos)
<1> DEFINE rack == EffectiveRack(config)
           m == Len(rack)
           head == DapHead(file, found)
           known == found /\ env.module \in Idents(file.modules) /\ env.telegram \in Idents(file.catalog)
           module == LastWith(file.modules, env.module)
           telegram == LastWith(file.catalog, env.telegram)
           drives == [i \in DOMAIN rack |-> DriveSlots(env, module, telegram, i)]
           numbered == [i \in DOMAIN rack |-> Data(i, 3, rack[i])]
           parts == [i \in DOMAIN rack |-> Data(rack[i].slot, rack[i].subslot, rack[i])]
<1>1. rack \in Seq(DriveObjects) /\ rack # <<>>
  BY EffectiveTyped
<1>2. /\ t.slots = IF known THEN head \o FlattenSeq(drives) ELSE head \o parts
      /\ t.dos = IF known THEN numbered ELSE parts
  BY DEF ExpectedSlots
<1>3. t.slots \in Seq(DataParts) /\ OncePerName(t.slots)
  BY SlotsSound
<1>4. t.dos \in Seq(DataParts)
  BY PartsOf
<1>5. head \in Seq(DataParts) /\ \A x \in 1 .. Len(head) : head[x].in + head[x].out = 0
  BY DapHeadIs, DapCarriesNothing DEF SlotsOf
<1> HIDE DEF rack, head
<1>6. m \in Nat \ {0} /\ DOMAIN rack = 1 .. m /\ \A i \in 1 .. m : rack[i] \in DriveObjects
  BY <1>1, EmptySeq
<1> HIDE DEF m
<1>7. CASE known
  <2>1. file.catalog \in Seq(SubmoduleItems)
    BY DEF Files
  <2>2. telegram \in SubmoduleItems
    BY <1>7, <2>1, LastWithIs
  <2>3. telegram.in \in Nat /\ telegram.out \in Nat
    BY <2>2 DEF SubmoduleItems
  <2> HIDE DEF module, telegram
  <2> DEFINE tel == [i \in 1 .. m |-> Sub(i, 3, telegram.in, telegram.out)]
  <2>4. drives = [i \in 1 .. m |-> DriveSlots(env, module, telegram, i)]
    BY <1>6
  <2>5. numbered = [i \in 1 .. m |-> Data(i, 3, rack[i])]
    BY <1>6
  <2>6. t.slots = head \o FlattenSeq(drives) /\ t.dos = numbered
    BY <1>2, <1>7
  <2> HIDE DEF drives, numbered, known
  <2>7. \A i \in 1 .. m : drives[i] = DriveSlots(env, module, telegram, i) /\ i \in Nat
                          /\ tel[i] = Sub(i, 3, telegram.in, telegram.out)
    BY <2>4
  <2>8. \A i \in 1 .. m : tel[i] \in DataParts /\ tel[i].slot = i /\ tel[i].subslot = 3
    BY <2>3, <2>7 DEF Sub, DataParts
  <2>9. tel \in [1 .. m -> DataParts]
    BY <2>8
  <2>10. tel \in Seq(DataParts) /\ Len(tel) = m
    BY <1>6, <2>9
  <2> HIDE DEF tel
  <2>11. \A i \in 1 .. m : EndsWith(drives[i], tel[i])
    <3> SUFFICES ASSUME NEW i \in 1 .. m PROVE EndsWith(drives[i], tel[i])
      OBVIOUS
    <3>1. i \in Nat
      OBVIOUS
    <3>2. EndsWith(DriveSlots(env, module, telegram, i), Sub(i, 3, telegram.in, telegram.out))
      BY <2>3, <3>1, DriveSlotsEnd
    <3> QED
      BY <2>7, <3>2
  <2>12. drives \in [1 .. m -> Seq(DataParts)]
    <3>1. drives = [i \in 1 .. m |-> drives[i]]
      BY <2>4
    <3>2. \A i \in 1 .. m : drives[i] \in Seq(DataParts)
      BY <2>11 DEF EndsWith
    <3> QED
      BY <3>1, <3>2
  <2>13. PICK pos : Carries(head \o FlattenSeq(drives), tel, pos)
    BY <1>5, <1>6, <2>10, <2>11, <2>12, GroupsCarry
  <2>14. Carries(t.slots, tel, pos)
    BY <2>6, <2>13
  <2>15. \A i \in 1 .. m : tel[i] \in ToSet(t.slots)
    <3> DEFINE slots == t.slots
               n == Len(slots)
    <3>1. DOMAIN slots = 1 .. n /\ n \in Nat
      BY <1>3
    <3> SUFFICES ASSUME NEW i \in 1 .. m PROVE tel[i] \in ToSet(slots)
      OBVIOUS
    <3>2. Picks(pos, m, n) /\ tel[i] = slots[pos[i]]
      BY <2>10, <2>14 DEF Carries
    <3>3. i \in 0 .. m /\ 0 \in 0 .. m /\ 0 < i
      BY <1>6
    <3> HIDE DEF slots, n
    <3>4. pos[i] \in 1 .. n
      <4>1. pos[i] \in 0 .. n /\ pos[i] > 0
        BY <3>2, <3>3 DEF Picks
      <4> QED
        BY <3>1, <4>1
    <3> QED
      BY <3>1, <3>2, <3>4 DEF ToSet
  <2>16. \A i \in 1 .. m : tel[i] = numbered[i]
    <3> SUFFICES ASSUME NEW i \in 1 .. m PROVE tel[i] = numbered[i]
      OBVIOUS
    <3> DEFINE do == numbered[i]
    <3>1. do = Data(i, 3, rack[i]) /\ DOMAIN numbered = 1 .. m
      BY <2>5
    <3>2. do \in ToSet(t.dos)
      BY <2>6, <3>1 DEF ToSet
    <3> HIDE DEF do
    <3>3. PICK s \in ToSet(t.slots) :
            s.slot = do.slot /\ s.subslot = do.subslot /\ s.in = do.in /\ s.out = do.out
      BY <3>2 DEF SameLengths
    <3>4. do.slot = i /\ do.subslot = 3
      BY <3>1 DEF Data
    <3>5. s = tel[i]
      BY <1>3, <2>8, <2>15, <3>3, <3>4, OnceIsOne
    <3>6. do = [slot |-> do.slot, subslot |-> do.subslot, in |-> do.in, out |-> do.out]
      BY <3>1 DEF Data
    <3>7. tel[i] = [slot |-> tel[i].slot, subslot |-> tel[i].subslot, in |-> tel[i].in, out |-> tel[i].out]
      <4> DEFINE y == Sub(i, 3, telegram.in, telegram.out)
      <4>1. y = [slot |-> y.slot, subslot |-> y.subslot, in |-> y.in, out |-> y.out]
        BY DEF Sub
      <4>2. tel[i] = y
        BY <2>7
      <4> HIDE DEF y
      <4> QED
        BY <4>1, <4>2
    <3>8. tel[i] = do
      BY <3>3, <3>5, <3>6, <3>7
    <3> QED
      BY <3>8 DEF do
  <2>17. tel = t.dos
    BY <2>5, <2>6, <2>9, <2>16
  <2>18. Carries(t.slots, t.dos, pos) /\ t.dos # <<>>
    <3>1. Len(t.dos) # 0
      BY <1>6, <2>10, <2>17
    <3>2. t.dos # <<>>
      BY <3>1
    <3> QED
      BY <2>14, <2>17, <3>2
  <2> QED
    BY <1>3, <1>4, <2>18
<1>8. CASE ~known
  <2>1. t.slots = head \o parts /\ t.dos = parts
    BY <1>2, <1>8
  <2>2. DOMAIN parts = 1 .. m
    BY <1>6
  <2> HIDE DEF parts, known
  <2>3. parts \in Seq(DataParts)
    BY <1>4, <2>1
  <2>4. \E pos : Carries(head \o parts, parts, pos)
    BY <1>5, <2>3, PartsCarry
  <2>5. parts # <<>>
    BY <1>6, <2>2
  <2> QED
    BY <1>3, <1>4, <2>1, <2>4, <2>5
<1> QED
  BY <1>7, <1>8

-----------------------------------------------------------------------------
(* Requests. *)

\* A finite set of numbers has a bound.
LEMMA Bounded ==
  ASSUME NEW S \in SUBSET Nat, IsFiniteSet(S)
  PROVE  \E n \in Nat : S \subseteq 0 .. n
<1> DEFINE T == {k \in Nat : \A s \in SUBSET S : Cardinality(s) = k =>
                   \E n \in Nat : s \subseteq 0 .. n}
<1>1. \A s \in SUBSET S : IsFiniteSet(s) /\ Cardinality(s) \in Nat
  BY FS_Subset, FS_CardinalityType
<1>2. 0 \in T
  <2>1. ASSUME NEW s \in SUBSET S, Cardinality(s) = 0 PROVE s \subseteq 0 .. 0
    BY <1>1, <2>1, FS_EmptySet
  <2> QED
    BY <2>1
<1>3. ASSUME NEW k \in Nat, k \in T PROVE k + 1 \in T
  <2>1. SUFFICES ASSUME NEW s \in SUBSET S, Cardinality(s) = k + 1
                 PROVE  \E n \in Nat : s \subseteq 0 .. n
    OBVIOUS
  <2>2. s # {}
    BY <2>1, FS_EmptySet
  <2>3. PICK x \in s : TRUE
    BY <2>2
  <2>4. IsFiniteSet(s) /\ Cardinality(s \ {x}) = k
    BY <1>1, <2>1, <2>3, FS_RemoveElement
  <2>5. PICK n \in Nat : s \ {x} \subseteq 0 .. n
    BY <1>3, <2>4
  <2> DEFINE top == IF x > n THEN x ELSE n
  <2>6. x \in Nat
    BY <2>3
  <2>7. top \in Nat /\ x <= top /\ n <= top
    BY <2>6
  <2> HIDE DEF top
  <2>8. s \subseteq 0 .. top
    BY <2>5, <2>6, <2>7
  <2> QED
    BY <2>7, <2>8
<1>4. \A k \in Nat : k \in T
  <2> HIDE DEF T
  <2> QED
    BY <1>2, <1>3, Induction
<1>5. Cardinality(S) \in T
  <2> HIDE DEF T
  <2> QED
    BY <1>1, <1>4
<1> QED
  BY <1>5

\* Ascending has each number of the set, once.
LEMMA AscendingIs ==
  ASSUME NEW S \in SUBSET Nat, IsFiniteSet(S)
  PROVE  /\ Ascending(S) \in Seq(Nat) /\ ToSet(Ascending(S)) = S
         /\ IsInjective(Ascending(S))
<1> DEFINE top == Max(S \union {0})
           all == [k \in 1 .. top + 1 |-> k - 1]
<1>1. top \in Nat /\ \A x \in S : x <= top
  <2>1. PICK n \in Nat : S \subseteq 0 .. n
    BY Bounded
  <2>2. S \union {0} \in SUBSET (0 .. n) /\ S \union {0} # {}
    BY <2>1
  <2>3. top \in S \union {0} /\ \A y \in S \union {0} : top >= y
    BY <2>2, MaxIs
  <2> HIDE DEF top
  <2> QED
    BY <2>3
<1> HIDE DEF top
<1>2. all \in Seq(Nat) /\ DOMAIN all = 1 .. top + 1
  BY <1>1
<1>3. IsInjective(all)
  BY <1>1 DEF IsInjective
<1>4. \A x \in S : x + 1 \in DOMAIN all /\ all[x + 1] = x
  BY <1>1
<1>5. S \subseteq ToSet(all)
  <2> HIDE DEF all
  <2> SUFFICES ASSUME NEW x \in S PROVE x \in ToSet(all)
    OBVIOUS
  <2> QED
    BY <1>4 DEF ToSet
<1>6. Ascending(S) = Only(all, S)
  BY DEF Ascending, top
<1> HIDE DEF all
<1>7. ToSet(Only(all, S)) = S /\ Only(all, S) \in Seq(Nat) /\ IsInjective(Only(all, S))
  <2>1. ToSet(Only(all, S)) = ToSet(all) \cap S
    BY <1>2, OnlySet
  <2>2. Only(all, S) \in Seq(Nat) /\ IsInjective(Only(all, S))
    BY <1>2, <1>3, OnlyElements
  <2> QED
    BY <1>5, <2>1, <2>2
<1> QED
  BY <1>6, <1>7

\* What a set with a property of its own makes of a sequence: all that has the property.
LEMMA OnlyThat ==
  ASSUME NEW S, NEW seq \in Seq(S), NEW good, good \subseteq ToSet(seq)
  PROVE  Only(seq, good) \in Seq(S) /\ ToSet(Only(seq, good)) = good
<1>1. Only(seq, good) \in Seq(S)
  BY OnlyIs
<1>2. ToSet(Only(seq, good)) = ToSet(seq) \cap good
  BY OnlySet
<1> QED
  BY <1>1, <1>2

\* The numbers that are in a sequence are finitely many.
LEMMA SlotsFinite ==
  ASSUME NEW S, NEW seq \in Seq(S)
  PROVE  IsFiniteSet(ToSet(seq)) /\ IsFiniteSet({s.slot : s \in ToSet(seq)})
         /\ IsFiniteSet({ApiOf(f.slot) : f \in ToSet(seq)})
<1> DEFINE n == Len(seq)
           slots == {s.slot : s \in ToSet(seq)}
           apis == {ApiOf(f.slot) : f \in ToSet(seq)}
           f == [i \in 1 .. n |-> seq[i]]
           g == [i \in 1 .. n |-> seq[i].slot]
           h == [i \in 1 .. n |-> ApiOf(seq[i].slot)]
<1>1. n \in Nat /\ ToSet(seq) = {seq[i] : i \in 1 .. n}
  BY DEF ToSet
<1> HIDE DEF n
<1>2. f \in Surjection(1 .. n, ToSet(seq))
  BY <1>1 DEF Surjection
<1>3. g \in Surjection(1 .. n, slots)
  BY <1>1 DEF Surjection
<1>4. h \in Surjection(1 .. n, apis)
  BY <1>1 DEF Surjection
<1>5. IsFiniteSet(1 .. n)
  BY <1>1, FS_Interval
<1> HIDE DEF f, g, h, slots, apis
<1>6. IsFiniteSet(ToSet(seq)) /\ IsFiniteSet(slots) /\ IsFiniteSet(apis)
  BY <1>2, <1>3, <1>4, <1>5, FS_Surjection
<1> QED
  BY <1>6 DEF slots, apis

\* The API that a submodule is declared under, with its name.
Declared(names) == {<<ApiOf(p[1]), p[1], p[2]>> : p \in names}

\* Each module is expected with its submodules, under its API.
ExpectsAll(expected, slots) ==
  /\ \A b \in ToSet(expected) :
       /\ b.type = "ExpectedSubmodule" /\ b.api = ApiOf(b.slot)
       /\ ToSet(b.subs) = {s \in ToSet(slots) : s.slot = b.slot}
  /\ \A s \in ToSet(slots) : \E b \in ToSet(expected) : b.slot = s.slot

\* The blocks for the modules do.
LEMMA ExpectedIs ==
  ASSUME NEW slots \in Seq(DataParts)
  PROVE  /\ ExpectedBlocks(slots) \in Seq(ToSet(ExpectedBlocks(slots)))
         /\ ExpectsAll(ExpectedBlocks(slots), slots)
<1> DEFINE S == {s.slot : s \in ToSet(slots)}
           modules == Ascending(S)
           Subs(i) == {s \in ToSet(slots) : s.slot = modules[i]}
           Block(i) == [type |-> "ExpectedSubmodule", api |-> ExpectedApi(modules[i]),
                        slot |-> modules[i], subs |-> Only(slots, Subs(i))]
           expected == ExpectedBlocks(slots)
<1>1. \A s \in ToSet(slots) : s \in DataParts /\ s.slot \in Nat
  <2>1. \A s \in ToSet(slots) : s \in DataParts
    BY ElementsOf
  <2> QED
    BY <2>1 DEF DataParts
<1>2. modules \in Seq(Nat) /\ ToSet(modules) = S
  <2>1. S \in SUBSET Nat /\ IsFiniteSet(S)
    BY <1>1, SlotsFinite
  <2> HIDE DEF S
  <2> QED
    BY <2>1, AscendingIs
<1>3. expected = [i \in DOMAIN modules |-> Block(i)]
  BY DEF ExpectedBlocks
<1> DEFINE n == Len(modules)
<1>4. n \in Nat /\ DOMAIN modules = 1 .. n
  <2> HIDE DEF modules
  <2> QED
    BY <1>2
<1> HIDE DEF n, modules
<1>5. \A i \in 1 .. n : /\ Block(i).type = "ExpectedSubmodule" /\ Block(i).api = ApiOf(Block(i).slot)
                        /\ Block(i).slot = modules[i]
                        /\ ToSet(Block(i).subs) = {s \in ToSet(slots) : s.slot = Block(i).slot}
  <2> SUFFICES ASSUME NEW i \in 1 .. n
               PROVE  /\ Block(i).type = "ExpectedSubmodule" /\ Block(i).api = ApiOf(Block(i).slot)
                      /\ Block(i).slot = modules[i]
                      /\ ToSet(Block(i).subs) = {s \in ToSet(slots) : s.slot = Block(i).slot}
    OBVIOUS
  <2>1. ToSet(Only(slots, Subs(i))) = Subs(i)
    <3>1. Subs(i) \subseteq ToSet(slots)
      OBVIOUS
    <3> HIDE DEF Subs
    <3> QED
      BY <3>1, OnlyThat
  <2> QED
    BY <2>1 DEF ExpectedApi
<1> HIDE DEF Block
<1>6. /\ DOMAIN expected = 1 .. n /\ \A i \in 1 .. n : expected[i] = Block(i)
      /\ expected \in Seq(ToSet(expected))
  <2>1. /\ DOMAIN expected = 1 .. n /\ \A i \in 1 .. n : expected[i] = Block(i)
        /\ expected = [i \in 1 .. n |-> expected[i]]
    BY <1>3, <1>4
  <2> HIDE DEF expected
  <2>2. \A i \in 1 .. n : expected[i] \in ToSet(expected)
    BY <2>1 DEF ToSet
  <2>3. expected \in [1 .. n -> ToSet(expected)]
    BY <2>1, <2>2
  <2> QED
    BY <1>4, <2>1, <2>3
<1> HIDE DEF expected
<1>7. ASSUME NEW b \in ToSet(expected) PROVE \E i \in 1 .. n : b = Block(i)
  BY <1>6 DEF ToSet
<1>8. ASSUME NEW s \in ToSet(slots) PROVE \E b \in ToSet(expected) : b.slot = s.slot
  <2>1. s.slot \in ToSet(modules)
    BY <1>2
  <2>2. PICK i \in 1 .. n : modules[i] = s.slot
    BY <1>4, <2>1 DEF ToSet
  <2>3. Block(i) \in ToSet(expected)
    BY <1>6 DEF ToSet
  <2> QED
    BY <1>5, <2>2, <2>3
<1>9. ExpectsAll(expected, slots)
  BY <1>5, <1>7, <1>8 DEF ExpectsAll
<1> QED
  BY <1>6, <1>9 DEF expected

\* So the submodules are all expected, under their API.
LEMMA ExpectedNames ==
  ASSUME NEW slots, NEW expected, ExpectsAll(expected, slots)
  PROVE  UNION {{<<b.api, b.slot, s.subslot>> : s \in ToSet(b.subs)} : b \in ToSet(expected)}
           = Declared(Names(slots))
<1> DEFINE all == UNION {{<<b.api, b.slot, s.subslot>> : s \in ToSet(b.subs)} : b \in ToSet(expected)}
           names == {<<f.slot, f.subslot>> : f \in ToSet(slots)}
<1>1. ASSUME NEW x \in all PROVE x \in Declared(names)
  <2>1. PICK b \in ToSet(expected) : x \in {<<b.api, b.slot, s.subslot>> : s \in ToSet(b.subs)}
    BY <1>1
  <2>2. PICK s \in ToSet(b.subs) : x = <<b.api, b.slot, s.subslot>>
    BY <2>1
  <2>3. b.api = ApiOf(b.slot) /\ s \in ToSet(slots) /\ s.slot = b.slot
    BY DEF ExpectsAll
  <2> DEFINE p == <<s.slot, s.subslot>>
  <2>4. p \in names
    BY <2>3
  <2>5. x = <<ApiOf(p[1]), p[1], p[2]>>
    BY <2>2, <2>3
  <2> QED
    BY <2>4, <2>5 DEF Declared
<1>2. ASSUME NEW x \in Declared(names) PROVE x \in all
  <2>1. PICK p \in names : x = <<ApiOf(p[1]), p[1], p[2]>>
    BY <1>2 DEF Declared
  <2>2. PICK s \in ToSet(slots) : p = <<s.slot, s.subslot>>
    BY <2>1
  <2>3. PICK b \in ToSet(expected) : b.slot = s.slot
    BY DEF ExpectsAll
  <2>4. s \in ToSet(b.subs) /\ b.api = ApiOf(b.slot)
    BY <2>3 DEF ExpectsAll
  <2>5. x = <<b.api, b.slot, s.subslot>>
    BY <2>1, <2>2, <2>3, <2>4
  <2> QED
    BY <2>4, <2>5
<1> HIDE DEF all, names
<1>3. all = Declared(names)
  BY <1>1, <1>2
<1> QED
  BY <1>3 DEF all, names, Names

\* There are as many of them as submodules.
LEMMA DeclaredOnce ==
  ASSUME NEW slots \in Seq(DataParts), OncePerName(slots)
  PROVE  Cardinality(Declared(Names(slots))) = Len(slots)
<1> DEFINE n == Len(slots)
           f == [i \in 1 .. n |-> <<ApiOf(slots[i].slot), slots[i].slot, slots[i].subslot>>]
           all == Declared(Names(slots))
<1>1. n \in Nat /\ DOMAIN slots = 1 .. n
  OBVIOUS
<1> HIDE DEF n
<1>2. f \in [1 .. n -> all]
  <2> SUFFICES ASSUME NEW i \in 1 .. n
               PROVE  <<ApiOf(slots[i].slot), slots[i].slot, slots[i].subslot>> \in all
    OBVIOUS
  <2> DEFINE p == <<slots[i].slot, slots[i].subslot>>
  <2>1. p \in Names(slots)
    BY <1>1 DEF Names, ToSet
  <2>2. <<ApiOf(slots[i].slot), slots[i].slot, slots[i].subslot>> = <<ApiOf(p[1]), p[1], p[2]>>
    OBVIOUS
  <2> HIDE DEF p
  <2> QED
    BY <2>1, <2>2 DEF Declared
<1>3. IsInjective(f)
  <2> SUFFICES ASSUME NEW i \in 1 .. n, NEW j \in 1 .. n, f[i] = f[j] PROVE i = j
    BY DEF IsInjective
  <2>1. slots[i].slot = slots[j].slot /\ slots[i].subslot = slots[j].subslot
    OBVIOUS
  <2> QED
    BY <1>1, <2>1 DEF OncePerName
<1>4. ASSUME NEW x \in all PROVE \E i \in 1 .. n : f[i] = x
  <2>1. PICK p \in Names(slots) : x = <<ApiOf(p[1]), p[1], p[2]>>
    BY <1>4 DEF Declared
  <2>2. PICK i \in 1 .. n : p = <<slots[i].slot, slots[i].subslot>>
    BY <1>1, <2>1 DEF Names, ToSet
  <2> QED
    BY <2>1, <2>2
<1>5. f \in Bijection(1 .. n, all)
  <2> HIDE DEF f, all
  <2> QED
    BY <1>2, <1>3, <1>4 DEF Bijection, Injection, Surjection
<1>6. Cardinality(all) = n
  <2>1. IsFiniteSet(1 .. n) /\ Cardinality(1 .. n) = n
    BY <1>1, FS_Interval
  <2>2. ExistsBijection(1 .. n, all)
    BY <1>5 DEF ExistsBijection
  <2> HIDE DEF all
  <2> QED
    BY <2>1, <2>2, FS_Bijection
<1> QED
  BY <1>6 DEF n

\* An IOCR block has the fields of its direction, each under the API of its slot.
IocrOf(block, direction, objs, iocs) ==
  /\ block.type = "IOCR" /\ block.direction = direction
  /\ \A i, j \in DOMAIN block.apis : block.apis[i].api = block.apis[j].api => i = j
  /\ InIocr(block) = Declared(Names(objs) \union Names(iocs))
  /\ UNION {ToSet(a["objs"]) : a \in ToSet(block.apis)} = ToSet(objs)
  /\ UNION {ToSet(a["iocs"]) : a \in ToSet(block.apis)} = ToSet(iocs)

\* How the fields are grouped by API.
Grouped(apis, objs, iocs) ==
  /\ \A i, j \in DOMAIN apis : apis[i].api = apis[j].api => i = j
  /\ \A a \in ToSet(apis) :
       /\ ToSet(a.objs) = {f \in ToSet(objs) : ApiOf(f.slot) = a.api}
       /\ ToSet(a.iocs) = {f \in ToSet(iocs) : ApiOf(f.slot) = a.api}
  /\ \A f \in ToSet(objs) \union ToSet(iocs) : \E a \in ToSet(apis) : a.api = ApiOf(f.slot)

\* They are grouped that way (sorted, setdefault).
LEMMA GroupedIs ==
  ASSUME NEW objs \in Seq(Fields), NEW iocs \in Seq(Fields)
  PROVE  LET apis == Ascending({ApiOf(f.slot) : f \in ToSet(objs \o iocs)})
             Under(api, fields) == Only(fields, {f \in ToSet(fields) : ApiOf(f.slot) = api})
         IN Grouped([i \in DOMAIN apis |->
                       [api |-> apis[i], objs |-> Under(apis[i], objs), iocs |-> Under(apis[i], iocs)]],
                    objs, iocs)
<1> DEFINE S == {ApiOf(f.slot) : f \in ToSet(objs \o iocs)}
           apis == Ascending(S)
           Under(api, fields) == Only(fields, {f \in ToSet(fields) : ApiOf(f.slot) = api})
           Group(i) == [api |-> apis[i], objs |-> Under(apis[i], objs), iocs |-> Under(apis[i], iocs)]
           groups == [i \in DOMAIN apis |-> Group(i)]
           n == Len(apis)
<1>1. objs \o iocs \in Seq(Fields) /\ ToSet(objs \o iocs) = ToSet(objs) \union ToSet(iocs)
  BY JoinedIs DEF JoinedOf
<1>2. apis \in Seq(Nat) /\ ToSet(apis) = S /\ IsInjective(apis)
  <2>1. S \in SUBSET Nat
    BY DEF ApiOf, DriveApi
  <2>2. IsFiniteSet(S)
    BY <1>1, SlotsFinite
  <2> HIDE DEF S
  <2> QED
    BY <2>1, <2>2, AscendingIs
<1>3. n \in Nat /\ DOMAIN apis = 1 .. n
  <2> HIDE DEF apis
  <2> QED
    BY <1>2
<1> HIDE DEF n, apis
<1>4. ASSUME NEW api, NEW fields \in Seq(Fields)
      PROVE  ToSet(Under(api, fields)) = {f \in ToSet(fields) : ApiOf(f.slot) = api}
  <2> DEFINE good == {f \in ToSet(fields) : ApiOf(f.slot) = api}
  <2>1. good \subseteq ToSet(fields)
    OBVIOUS
  <2> HIDE DEF good
  <2>2. ToSet(Only(fields, good)) = good
    BY <2>1, OnlyThat
  <2> QED
    BY <2>2 DEF good
<1> HIDE DEF Under
<1>5. DOMAIN groups = 1 .. n /\ \A i \in 1 .. n : groups[i] = Group(i) /\ groups[i].api = apis[i]
  BY <1>3
<1>6. \A i \in 1 .. n : /\ ToSet(Group(i).objs) = {f \in ToSet(objs) : ApiOf(f.slot) = Group(i).api}
                        /\ ToSet(Group(i).iocs) = {f \in ToSet(iocs) : ApiOf(f.slot) = Group(i).api}
  BY <1>4
<1> HIDE DEF groups, Group
<1>7. \A i, j \in DOMAIN groups : groups[i].api = groups[j].api => i = j
  BY <1>2, <1>3, <1>5 DEF IsInjective
<1>8. ASSUME NEW a \in ToSet(groups)
      PROVE  /\ ToSet(a.objs) = {f \in ToSet(objs) : ApiOf(f.slot) = a.api}
             /\ ToSet(a.iocs) = {f \in ToSet(iocs) : ApiOf(f.slot) = a.api}
  <2>1. PICK i \in 1 .. n : a = Group(i)
    BY <1>5 DEF ToSet
  <2> QED
    BY <1>6, <2>1
<1>9. ASSUME NEW f \in ToSet(objs) \union ToSet(iocs)
      PROVE  \E a \in ToSet(groups) : a.api = ApiOf(f.slot)
  <2>1. ApiOf(f.slot) \in ToSet(apis)
    BY <1>1, <1>2
  <2>2. PICK i \in 1 .. n : apis[i] = ApiOf(f.slot)
    BY <1>3, <2>1 DEF ToSet
  <2>3. groups[i] \in ToSet(groups) /\ groups[i].api = apis[i]
    BY <1>5 DEF ToSet
  <2> QED
    BY <2>2, <2>3
<1>10. Grouped(groups, objs, iocs)
  BY <1>7, <1>8, <1>9 DEF Grouped
<1> QED
  BY <1>10 DEF groups, Group, Under, apis

\* So the groups are about the fields and no others.
LEMMA GroupsHave ==
  ASSUME NEW apis, NEW objs, NEW iocs, Grouped(apis, objs, iocs)
  PROVE  /\ UNION {ToSet(a["objs"]) : a \in ToSet(apis)} = ToSet(objs)
         /\ UNION {ToSet(a["iocs"]) : a \in ToSet(apis)} = ToSet(iocs)
         /\ UNION {{<<a.api, f.slot, f.subslot>> : f \in ToSet(a.objs) \union ToSet(a.iocs)} :
                     a \in ToSet(apis)} = Declared(Names(objs) \union Names(iocs))
<1> DEFINE all == UNION {{<<a.api, f.slot, f.subslot>> : f \in ToSet(a.objs) \union ToSet(a.iocs)} :
                           a \in ToSet(apis)}
           fields == ToSet(objs) \union ToSet(iocs)
           names == {<<f.slot, f.subslot>> : f \in fields}
<1>1. \A a \in ToSet(apis) :
        /\ ToSet(a.objs) = {f \in ToSet(objs) : ApiOf(f.slot) = a.api}
        /\ ToSet(a.iocs) = {f \in ToSet(iocs) : ApiOf(f.slot) = a.api}
  BY DEF Grouped
<1>2. \A f \in fields : \E a \in ToSet(apis) : a.api = ApiOf(f.slot)
  BY DEF Grouped
<1>3. UNION {ToSet(a["objs"]) : a \in ToSet(apis)} = ToSet(objs)
  BY <1>1, <1>2
<1>4. UNION {ToSet(a["iocs"]) : a \in ToSet(apis)} = ToSet(iocs)
  BY <1>1, <1>2
<1>5. ASSUME NEW x \in all PROVE x \in Declared(names)
  <2>1. PICK a \in ToSet(apis) : x \in {<<a.api, f.slot, f.subslot>> : f \in ToSet(a.objs) \union ToSet(a.iocs)}
    BY <1>5
  <2>2. PICK f \in ToSet(a.objs) \union ToSet(a.iocs) : x = <<a.api, f.slot, f.subslot>>
    BY <2>1
  <2>3. f \in fields /\ a.api = ApiOf(f.slot)
    BY <1>1
  <2> DEFINE p == <<f.slot, f.subslot>>
  <2>4. p \in names /\ x = <<ApiOf(p[1]), p[1], p[2]>>
    BY <2>2, <2>3
  <2> QED
    BY <2>4 DEF Declared
<1>6. ASSUME NEW x \in Declared(names) PROVE x \in all
  <2>1. PICK p \in names : x = <<ApiOf(p[1]), p[1], p[2]>>
    BY <1>6 DEF Declared
  <2>2. PICK f \in fields : p = <<f.slot, f.subslot>>
    BY <2>1
  <2>3. PICK a \in ToSet(apis) : a.api = ApiOf(f.slot)
    BY <1>2
  <2>4. f \in ToSet(a.objs) \union ToSet(a.iocs)
    BY <1>1, <2>3
  <2>5. x = <<a.api, f.slot, f.subslot>>
    BY <2>1, <2>2, <2>3
  <2> QED
    BY <2>4, <2>5
<1>7. names = Names(objs) \union Names(iocs)
  BY DEF Names
<1> HIDE DEF all, names
<1>8. all = Declared(names)
  BY <1>5, <1>6
<1> QED
  BY <1>3, <1>4, <1>7, <1>8 DEF all

\* The two blocks have what the layout says (_patch_iocr).
LEMMA IocrIs ==
  ASSUME NEW slots, NEW env,
         InObjs(slots) \in Seq(Fields), InIocs(slots) \in Seq(Fields),
         WithData(slots) \in Seq(Fields), StatusOnly(slots) \o Trailing(slots) \in Seq(Fields)
  PROVE  /\ IocrOf(IocrBlock("in", slots, env), "in", InObjs(slots), InIocs(slots))
         /\ IocrOf(IocrBlock("out", slots, env), "out", WithData(slots),
                   StatusOnly(slots) \o Trailing(slots))
<1> DEFINE Groups(objs, iocs) ==
             LET apis == Ascending({ApiOf(f.slot) : f \in ToSet(objs \o iocs)})
                 Under(api, fields) == Only(fields, {f \in ToSet(fields) : ApiOf(f.slot) = api})
             IN [i \in DOMAIN apis |->
                   [api |-> apis[i], objs |-> Under(apis[i], objs), iocs |-> Under(apis[i], iocs)]]
           in == IocrBlock("in", slots, env)
           out == IocrBlock("out", slots, env)
           iocs == StatusOnly(slots) \o Trailing(slots)
<1>1. /\ IocrLayout(slots).inObjs = InObjs(slots) /\ IocrLayout(slots).inIocs = InIocs(slots)
      /\ IocrLayout(slots).outObjs = WithData(slots) /\ IocrLayout(slots).outIocs = iocs
  BY LayoutParts
<1>2. in.type = "IOCR" /\ in.direction = "in" /\ in.apis = Groups(InObjs(slots), InIocs(slots))
  BY <1>1 DEF IocrBlock
<1>3. out.type = "IOCR" /\ out.direction = "out" /\ out.apis = Groups(WithData(slots), iocs)
  BY <1>1 DEF IocrBlock
<1>4. Grouped(Groups(InObjs(slots), InIocs(slots)), InObjs(slots), InIocs(slots))
  BY GroupedIs
<1>5. Grouped(Groups(WithData(slots), iocs), WithData(slots), iocs)
  BY GroupedIs
<1> HIDE DEF Groups, in, out, iocs
<1>6. ASSUME NEW b, NEW d, NEW objs, NEW status, b.type = "IOCR", b.direction = d,
             Grouped(b.apis, objs, status)
      PROVE  IocrOf(b, d, objs, status)
  <2>1. InIocr(b) = Declared(Names(objs) \union Names(status))
    BY <1>6, GroupsHave DEF InIocr
  <2>2. /\ UNION {ToSet(a["objs"]) : a \in ToSet(b.apis)} = ToSet(objs)
        /\ UNION {ToSet(a["iocs"]) : a \in ToSet(b.apis)} = ToSet(status)
    BY <1>6, GroupsHave
  <2>3. \A i, j \in DOMAIN b.apis : b.apis[i].api = b.apis[j].api => i = j
    BY <1>6 DEF Grouped
  <2> QED
    BY <1>6, <2>1, <2>2, <2>3 DEF IocrOf
<1> QED
  BY <1>2, <1>3, <1>4, <1>5, <1>6 DEF in, out, iocs

\* What the request says of FrameIDs, class and timing is what the controller is given.
LEMMA IocrSettings ==
  ASSUME NEW slots, NEW env, NEW d \in {"in", "out"}
  PROVE  LET block == IocrBlock(d, slots, env) IN
         block.direction = d /\ SettingsAgree(block, CyclicConfig(d, slots, env), env)
<1> DEFINE block == IocrBlock(d, slots, env)
           config == CyclicConfig(d, slots, env)
           profile == CyclicProfile(env)
           declared == env.declares[d]
           used == env.uses[d]
<1>1. /\ block.direction = d /\ block.class = Envint(env.class, profile.class)
      /\ block.frameId = Envint(declared, profile.declared[d])
      /\ block.timing = [t \in DOMAIN Timing |-> Envint(env.timing[t], Timing[t])]
  BY DEF IocrBlock
<1>2. config.frameId = Envint(used, profile.used[d]) /\ config.timing = Timing
  BY DEF CyclicConfig
<1>3. /\ profile.declared[d] \in {profile.used[d], ByDevice}
      /\ profile.class = ClassOf(profile.used[d])
  <2>1. CASE env.mode = "rtc1"
    BY <2>1 DEF CyclicProfile, ClassOf, FrameId1, FrameId2
  <2>2. CASE env.mode # "rtc1"
    BY <2>2 DEF CyclicProfile, ClassOf, FrameId1, FrameId2
  <2> QED
    BY <2>1, <2>2
<1> HIDE DEF block, config, profile, declared, used
<1>4. declared = used => block.frameId \in {config.frameId, ByDevice}
  BY <1>1, <1>2, <1>3 DEF Envint
<1>5. declared = Unset /\ used = Unset /\ env.class = Unset => block.class = ClassOf(config.frameId)
  BY <1>1, <1>2, <1>3 DEF Envint
<1>6. ASSUME NEW t \in DOMAIN Timing, env.timing[t] \in {Unset, Timing[t]}
      PROVE  block.timing[t] = config.timing[t]
  BY <1>1, <1>2, <1>6 DEF Envint
<1>7. SettingsAgree(block, config, env)
  BY <1>1, <1>4, <1>5, <1>6 DEF SettingsAgree, declared, used
<1> QED
  BY <1>1, <1>7 DEF block, config

\* The blocks of a request.
BlocksIn(blocks, ar, in, out, expected, alarm) ==
  /\ blocks \in Seq(ToSet(expected) \union {ar, in, out, alarm})
  /\ ToSet(blocks) = ToSet(expected) \union {ar, in, out, alarm}

\* A request is made of them (_patch_alarm_cr).
LEMMA RequestIs ==
  ASSUME NEW ar, NEW in, NEW out, NEW expected, expected \in Seq(ToSet(expected)), NEW alarm
  PROVE  BlocksIn(Request(ar, <<in, out>>, <<>>, Append(expected, alarm)), ar, in, out, expected, alarm)
<1> DEFINE S == ToSet(expected) \union {ar, in, out, alarm}
           head == <<ar>> \o <<in, out>> \o <<>>
           tail == Append(expected, alarm)
           blocks == head \o tail
           m == Len(expected)
<1>1. head = <<ar, in, out>>
  <2> DEFINE two == <<ar>> \o <<in, out>>
  <2>1. <<ar>> \in Seq(S) /\ <<in, out>> \in Seq(S)
    OBVIOUS
  <2>2. two \in Seq(S) /\ Len(two) = 3 /\ two[1] = ar /\ two[2] = in /\ two[3] = out
    <3> HIDE DEF S
    <3> QED
      BY <2>1
  <2> HIDE DEF two, S
  <2>3. two = <<ar, in, out>>
    BY <2>2
  <2>4. two \o <<>> = two
    BY <2>2, ConcatEmptySeq
  <2> QED
    BY <2>3, <2>4 DEF two
<1>2. /\ head \in Seq(S) /\ Len(head) = 3 /\ ToSet(head) = {ar, in, out}
      /\ head[1] = ar /\ head[2] = in /\ head[3] = out
  <2>1. /\ head \in Seq(S) /\ Len(head) = 3 /\ DOMAIN head = 1 .. 3
        /\ head[1] = ar /\ head[2] = in /\ head[3] = out
    BY <1>1
  <2>2. \A k : k \in 1 .. 3 <=> k = 1 \/ k = 2 \/ k = 3
    OBVIOUS
  <2> HIDE DEF head
  <2> QED
    BY <2>1, <2>2 DEF ToSet
<1>3. /\ tail \in Seq(S) /\ Len(tail) = m + 1 /\ m \in Nat
      /\ tail[m + 1] = alarm /\ \A k \in 1 .. m : tail[k] = expected[k]
      /\ DOMAIN tail = 1 .. m + 1 /\ DOMAIN expected = 1 .. m
  <2>1. expected \in Seq(S)
    <3>1. ToSet(expected) \subseteq S
      OBVIOUS
    <3> HIDE DEF S
    <3> QED
      BY <3>1
  <2>2. alarm \in S
    OBVIOUS
  <2> HIDE DEF S
  <2> QED
    BY <2>1, <2>2
<1>4. \A k \in 1 .. m : tail[k] \in ToSet(expected)
  BY <1>3 DEF ToSet
<1>5. ToSet(tail) = ToSet(expected) \union {alarm}
  <2> HIDE DEF tail, m
  <2>1. \A x \in ToSet(tail) : x \in ToSet(expected) \union {alarm}
    <3> SUFFICES ASSUME NEW k \in 1 .. m + 1 PROVE tail[k] \in ToSet(expected) \union {alarm}
      BY <1>3 DEF ToSet
    <3>1. k = m + 1 \/ k \in 1 .. m
      BY <1>3
    <3> QED
      BY <1>3, <1>4, <3>1
  <2>2. \A x \in ToSet(expected) : x \in ToSet(tail)
    <3> SUFFICES ASSUME NEW k \in 1 .. m PROVE expected[k] \in ToSet(tail)
      BY <1>3 DEF ToSet
    <3>1. k \in 1 .. m + 1 /\ tail[k] = expected[k]
      BY <1>3
    <3> QED
      BY <1>3, <3>1 DEF ToSet
  <2>3. alarm \in ToSet(tail)
    <3>1. m + 1 \in 1 .. m + 1
      BY <1>3
    <3> QED
      BY <1>3, <3>1 DEF ToSet
  <2> QED
    BY <2>1, <2>2, <2>3
<1> HIDE DEF S, head, tail
<1>6. blocks \in Seq(S) /\ JoinedOf(blocks, head, tail, 3, m + 1)
  <2>1. blocks \in Seq(S) /\ JoinedOf(blocks, head, tail, Len(head), Len(tail))
    BY <1>2, <1>3, JoinedIs
  <2> HIDE DEF blocks
  <2> QED
    BY <1>2, <1>3, <2>1
<1> HIDE DEF blocks, m
<1>7. /\ Len(blocks) = 3 + (m + 1)
      /\ \A i \in 1 .. 3 : blocks[i] = head[i]
      /\ \A i \in 1 .. m + 1 : blocks[3 + i] = tail[i]
      /\ \A k \in 1 .. 3 + (m + 1) : k \in 1 .. 3 \/ \E i \in 1 .. m + 1 : k = 3 + i
      /\ ToSet(blocks) = ToSet(head) \union ToSet(tail)
  BY <1>6 DEF JoinedOf
<1>8. ToSet(blocks) = S
  BY <1>2, <1>5, <1>7 DEF S
<1>9. Request(ar, <<in, out>>, <<>>, Append(expected, alarm)) = blocks
  BY DEF Request, blocks, head, tail
<1> QED
  BY <1>6, <1>8, <1>9 DEF BlocksIn, S

\* The blocks of a type.
LEMMA OfTypeIs ==
  ASSUME NEW S, NEW blocks \in Seq(S), NEW type
  PROVE  ToSet(OfType(blocks, type)) = {b \in ToSet(blocks) : b.type = type}
<1> DEFINE good == {b \in ToSet(blocks) : b.type = type}
<1>1. good \subseteq ToSet(blocks)
  OBVIOUS
<1>2. OfType(blocks, type) = Only(blocks, good)
  BY DEF OfType
<1> HIDE DEF good
<1>3. ToSet(Only(blocks, good)) = good
  BY <1>1, OnlyThat
<1> QED
  BY <1>2, <1>3 DEF good

\* What the cyclic controller works with are those fields.
LEMMA FieldsOf ==
  ASSUME NEW slots \in Seq(DataParts), OncePerName(slots)
  PROVE  LET iocs == StatusOnly(slots) \o Trailing(slots) IN
         /\ InObjs(slots) \in Seq(Fields) /\ InIocs(slots) \in Seq(Fields)
         /\ WithData(slots) \in Seq(Fields) /\ iocs \in Seq(Fields)
         /\ CyclicObjects(slots)["in"] = InObjs(slots)
         /\ ToSet(CyclicObjects(slots)["out"]) = ToSet(WithData(slots)) \union ToSet(iocs)
<1> DEFINE placed == Placed(slots)
           trailing == Trailing(slots)
           data == WithData(slots)
           empty == StatusOnly(slots)
           iocs == empty \o trailing
<1>1. OutputFields(slots, placed, data, empty)
  BY OutputFieldsIs
<1>2. /\ Outs(slots) \in Seq(Nat) /\ Len(Outs(slots)) = Len(slots)
      /\ Ins(slots) \in Seq(Nat) /\ Len(Ins(slots)) = Len(slots)
  BY LengthsTyped, DriveLengths
<1>3. FrameOf(slots, placed, Outs(slots), trailing)
  BY <1>2, FrameIs DEF Placed, Trailing
<1>4. FrameOf(slots, InObjs(slots), Ins(slots), InIocs(slots))
  BY <1>2, FrameIs DEF InObjs, InIocs
<1>5. /\ CyclicObjects(slots)["in"] = InObjs(slots)
      /\ CyclicObjects(slots)["out"] = data \o iocs
  BY LayoutParts DEF CyclicObjects
<1>6. InObjs(slots) \in Seq(Fields) /\ InIocs(slots) \in Seq(Fields)
  BY <1>4 DEF FrameOf
<1> HIDE DEF placed, trailing, data, empty, iocs
<1>7. data \in Seq(Fields) /\ empty \in Seq(Fields) /\ trailing \in Seq(Fields)
  BY <1>1, <1>3 DEF OutputFields, FrameOf
<1>8. iocs \in Seq(Fields)
  BY <1>7, JoinedIs DEF iocs
<1>9. ToSet(data \o iocs) = ToSet(data) \union ToSet(iocs)
  BY <1>7, <1>8, JoinedIs DEF JoinedOf
<1> QED
  BY <1>5, <1>6, <1>7, <1>8, <1>9 DEF data, iocs, empty, trailing

\* Each direction's fields are about all of the submodules and no others.
LEMMA FieldNames ==
  ASSUME NEW slots \in Seq(DataParts), OncePerName(slots)
  PROVE  /\ Names(InObjs(slots)) \union Names(InIocs(slots)) = Names(slots)
         /\ Names(WithData(slots)) \union Names(StatusOnly(slots) \o Trailing(slots)) = Names(slots)
<1>1. LayoutSound(slots)
  BY LayoutIsSound
<1>2. /\ Names(InObjs(slots)) = Names(slots) /\ Names(InIocs(slots)) = Names(WithOutputs(slots))
      /\ Names(WithData(slots)) = Names(WithOutputs(slots))
      /\ Names(StatusOnly(slots) \o Trailing(slots)) = Names(slots)
  BY <1>1, LayoutParts DEF LayoutSound
<1>3. Names(WithOutputs(slots)) \subseteq Names(slots)
  BY OutputsOf DEF Names
<1> QED
  BY <1>2, <1>3

\* The blocks of the request, and what its IOCR blocks have.
RequestOf(blocks, slots, in, out, expected) ==
  /\ \E ar, alarm : /\ BlocksIn(blocks, ar, in, out, expected, alarm)
                    /\ ar.type = "AR" /\ alarm.type = "AlarmCR"
  /\ IocrOf(in, "in", InObjs(slots), InIocs(slots))
  /\ IocrOf(out, "out", WithData(slots), StatusOnly(slots) \o Trailing(slots))
  /\ ExpectsAll(expected, slots)

\* A request has them.
LEMMA ConnectRequestIs ==
  ASSUME NEW slots \in Seq(DataParts), OncePerName(slots), NEW env
  PROVE  \E expected : RequestOf(ConnectRequest(slots, env), slots,
                                 IocrBlock("in", slots, env), IocrBlock("out", slots, env), expected)
<1> DEFINE ar == ArBlock(env)
           in == IocrBlock("in", slots, env)
           out == IocrBlock("out", slots, env)
           expected == ExpectedBlocks(slots)
           alarm == [type |-> "AlarmCR"]
           blocks == ConnectRequest(slots, env)
<1>1. ar.type = "AR" /\ alarm.type = "AlarmCR"
  BY DEF ArBlock
<1>2. expected \in Seq(ToSet(expected)) /\ ExpectsAll(expected, slots)
  BY ExpectedIs
<1>3. /\ IocrOf(in, "in", InObjs(slots), InIocs(slots))
      /\ IocrOf(out, "out", WithData(slots), StatusOnly(slots) \o Trailing(slots))
  BY FieldsOf, IocrIs
<1>4. blocks = Request(ar, <<in, out>>, <<>>, Append(expected, alarm))
  BY DEF ConnectRequest
<1> HIDE DEF ar, in, out, expected, alarm, blocks
<1>5. BlocksIn(blocks, ar, in, out, expected, alarm)
  BY <1>2, <1>4, RequestIs
<1>6. RequestOf(blocks, slots, in, out, expected)
  BY <1>1, <1>2, <1>3, <1>5 DEF RequestOf
<1> QED
  BY <1>6 DEF blocks, in, out

\* The parts of it that a type picks.
LEMMA RequestParts ==
  ASSUME NEW blocks, NEW slots, NEW in, NEW out, NEW expected,
         RequestOf(blocks, slots, in, out, expected)
  PROVE  /\ ToSet(OfType(blocks, "IOCR")) = {in, out}
         /\ ToSet(OfType(blocks, "ExpectedSubmodule")) = ToSet(expected)
<1>1. PICK ar, alarm : /\ BlocksIn(blocks, ar, in, out, expected, alarm)
                       /\ ar.type = "AR" /\ alarm.type = "AlarmCR"
  BY DEF RequestOf
<1>2. /\ in.type = "IOCR" /\ out.type = "IOCR"
      /\ \A b \in ToSet(expected) : b.type = "ExpectedSubmodule"
  BY DEF RequestOf, IocrOf, ExpectsAll
<1> DEFINE S == ToSet(expected) \union {ar, in, out, alarm}
<1>3. blocks \in Seq(S) /\ ToSet(blocks) = S
  BY <1>1 DEF BlocksIn
<1>4. \A type : ToSet(OfType(blocks, type)) = {b \in S : b.type = type}
  <2> HIDE DEF S
  <2> QED
    BY <1>3, OfTypeIs
<1>5. {b \in S : b.type = "IOCR"} = {in, out}
  BY <1>1, <1>2
<1>6. {b \in S : b.type = "ExpectedSubmodule"} = ToSet(expected)
  BY <1>1, <1>2
<1> HIDE DEF S
<1> QED
  BY <1>4, <1>5, <1>6

\* The blocks agree on what there is and under which API (_patch_expected_submodule,
\* _patch_iocr).
LEMMA RequestAgrees ==
  ASSUME NEW slots \in Seq(DataParts), OncePerName(slots), NEW env
  PROVE  RequestConsistent(ConnectRequest(slots, env), slots)
<1> DEFINE blocks == ConnectRequest(slots, env)
           in == IocrBlock("in", slots, env)
           out == IocrBlock("out", slots, env)
<1>1. PICK expected : RequestOf(blocks, slots, in, out, expected)
  BY ConnectRequestIs
<1> HIDE DEF blocks, in, out
<1> DEFINE picked == OfType(blocks, "ExpectedSubmodule")
           all == UNION {{<<b.api, b.slot, s.subslot>> : s \in ToSet(b.subs)} : b \in ToSet(picked)}
<1>2. /\ ToSet(OfType(blocks, "IOCR")) = {in, out} /\ ToSet(picked) = ToSet(expected)
  BY <1>1, RequestParts
<1>3. all = Declared(Names(slots))
  BY <1>1, <1>2, ExpectedNames DEF RequestOf
<1> HIDE DEF picked, all
<1>4. Cardinality(all) = Len(slots)
  BY <1>3, DeclaredOnce
<1>5. /\ InIocr(in) = Declared(Names(slots)) /\ InIocr(out) = Declared(Names(slots))
      /\ \A i, j \in DOMAIN in.apis : in.apis[i].api = in.apis[j].api => i = j
      /\ \A i, j \in DOMAIN out.apis : out.apis[i].api = out.apis[j].api => i = j
  BY <1>1, FieldNames DEF RequestOf, IocrOf
<1>6. \A b \in ToSet(OfType(blocks, "IOCR")) :
        /\ InIocr(b) = all
        /\ \A i, j \in DOMAIN b.apis : b.apis[i].api = b.apis[j].api => i = j
  BY <1>2, <1>3, <1>5
<1> QED
  BY <1>4, <1>6 DEF RequestConsistent, all, picked, blocks

\* They declare what the cyclic controller works with (_build_iocr_configs).
LEMMA RequestKept ==
  ASSUME NEW slots \in Seq(DataParts), OncePerName(slots), NEW env
  PROVE  RequestIsKept(ConnectRequest(slots, env), slots, env)
<1> DEFINE blocks == ConnectRequest(slots, env)
           in == IocrBlock("in", slots, env)
           out == IocrBlock("out", slots, env)
           iocs == StatusOnly(slots) \o Trailing(slots)
           config(d) == CyclicConfig(d, slots, env)
           Declares(b, kind) == UNION {ToSet(a[kind]) : a \in ToSet(b.apis)}
<1>1. PICK expected : RequestOf(blocks, slots, in, out, expected)
  BY ConnectRequestIs
<1>2. /\ config("in").objs = InObjs(slots)
      /\ ToSet(config("out").objs) = ToSet(WithData(slots)) \union ToSet(iocs)
  BY FieldsOf DEF CyclicConfig
<1>3. /\ in.direction = "in" /\ SettingsAgree(in, config("in"), env)
      /\ out.direction = "out" /\ SettingsAgree(out, config("out"), env)
  BY IocrSettings
<1> HIDE DEF blocks, in, out, iocs, config
<1>4. ToSet(OfType(blocks, "IOCR")) = {in, out}
  BY <1>1, RequestParts
<1>5. Declares(in, "objs") = ToSet(config("in").objs)
  BY <1>1, <1>2 DEF RequestOf, IocrOf
<1>6. Declares(out, "objs") \union Declares(out, "iocs") = ToSet(config("out").objs)
  BY <1>1, <1>2 DEF RequestOf, IocrOf, iocs
<1> HIDE DEF Declares
<1>7. \A b \in ToSet(OfType(blocks, "IOCR")) :
        /\ IF b.direction = "in" THEN Declares(b, "objs") = ToSet(config(b.direction).objs)
           ELSE Declares(b, "objs") \union Declares(b, "iocs") = ToSet(config(b.direction).objs)
        /\ SettingsAgree(b, config(b.direction), env)
  BY <1>3, <1>4, <1>5, <1>6
<1> QED
  BY <1>7 DEF RequestIsKept, Declares, blocks, config

\* One sequence behind another, of known lengths.
LEMMA JoinedAs ==
  ASSUME NEW S, NEW a \in Seq(S), NEW b \in Seq(S), NEW n, NEW m, Len(a) = n, Len(b) = m
  PROVE  a \o b \in Seq(S) /\ JoinedOf(a \o b, a, b, n, m)
BY JoinedIs

\* The cyclic frames of the drive are understood with their tag and without, its alarms
\* with one if the listener is patched (_patch_cyclic_vlan, _patch_alarm_listener_vlan).
LEMMA TagsAre ==
  ASSUME NEW env, NEW word
  PROVE  TagsUnderstood(env, <<word>>)
<1> DEFINE dst == "dst"
           src == "src"
           tag == "8100"
           tci == "tci"
           ether == "8892"
           S == {dst, src, tag, tci, ether, word}
           tagged == Frame(TRUE, <<word>>)
           plain == Frame(FALSE, <<word>>)
           payload == <<word>>
           type == <<ether>>
<1>0. /\ Addresses \in Seq(S) /\ TagHeader \in Seq(S) /\ type \in Seq(S) /\ payload \in Seq(S)
      /\ Len(Addresses) = 2 /\ Addresses[1] = dst /\ Addresses[2] = src
      /\ Len(TagHeader) = 2 /\ TagHeader[1] = tag /\ TagHeader[2] = tci
      /\ Len(type) = 1 /\ type[1] = ether
      /\ Len(payload) = 1 /\ payload[1] = word
  BY DEF Addresses, TagHeader
<1> HIDE DEF S, payload, type, dst, src, tag, tci, ether
<1>1. /\ tagged \in Seq(S) /\ Len(tagged) = 6
      /\ tagged[1] = dst /\ tagged[2] = src /\ tagged[3] = tag
      /\ tagged[5] = ether /\ tagged[6] = word
  <2> DEFINE four == Addresses \o TagHeader
             five == four \o type
             six == five \o payload
  <2>1. four \in Seq(S) /\ JoinedOf(four, Addresses, TagHeader, 2, 2)
    BY <1>0, JoinedAs
  <2>2. tagged = six
    BY DEF Frame, payload, type, ether
  <2> HIDE DEF four
  <2>3. Len(four) = 4 /\ four[1] = dst /\ four[2] = src /\ four[3] = tag
    BY <1>0, <2>1 DEF JoinedOf
  <2>4. five \in Seq(S) /\ JoinedOf(five, four, type, 4, 1)
    BY <1>0, <2>1, <2>3, JoinedAs
  <2> HIDE DEF five
  <2>5. Len(five) = 5 /\ five[1] = dst /\ five[2] = src /\ five[3] = tag /\ five[5] = ether
    BY <1>0, <2>3, <2>4 DEF JoinedOf
  <2>6. six \in Seq(S) /\ JoinedOf(six, five, payload, 5, 1)
    BY <1>0, <2>4, <2>5, JoinedAs
  <2> HIDE DEF six
  <2>7. /\ Len(six) = 6 /\ six[1] = dst /\ six[2] = src /\ six[3] = tag
        /\ six[5] = ether /\ six[6] = word
    BY <1>0, <2>5, <2>6 DEF JoinedOf
  <2> QED
    BY <2>2, <2>6, <2>7
<1>2. plain \in Seq(S) /\ Len(plain) = 4 /\ plain[3] = ether /\ plain[4] = word
  <2> DEFINE two == Addresses \o <<>>
             three == two \o type
             four == three \o payload
  <2>1. two = Addresses
    BY <1>0, ConcatEmptySeq
  <2>2. plain = four
    BY DEF Frame, payload, type, ether
  <2> HIDE DEF two
  <2>3. three \in Seq(S) /\ JoinedOf(three, two, type, 2, 1)
    BY <1>0, <2>1, JoinedAs
  <2> HIDE DEF three
  <2>4. Len(three) = 3 /\ three[3] = ether
    BY <1>0, <2>3 DEF JoinedOf
  <2>5. four \in Seq(S) /\ JoinedOf(four, three, payload, 3, 1)
    BY <1>0, <2>3, <2>4, JoinedAs
  <2> HIDE DEF four
  <2>6. Len(four) = 4 /\ four[3] = ether /\ four[4] = word
    BY <1>0, <2>4, <2>5 DEF JoinedOf
  <2> QED
    BY <2>2, <2>5, <2>6
<1> HIDE DEF tagged, plain
<1>3. ASSUME NEW frame \in Seq(S), Len(frame) = 4, frame[3] = ether, frame[4] = word
      PROVE  Parsed(frame) = payload
  <2>1. SubSeq(frame, 4, 4) = payload
    <3>1. /\ SubSeq(frame, 4, 4) \in Seq(S) /\ Len(SubSeq(frame, 4, 4)) = 1
          /\ SubSeq(frame, 4, 4)[1] = word
      <4>1. \A i \in 4 .. 4 : frame[i] \in S
        <5>1. 4 \in 1 .. Len(frame) /\ \A i \in 4 .. 4 : i = 4
          BY <1>3
        <5>2. frame[4] \in S
          BY <5>1
        <5> QED
          BY <5>1, <5>2
      <4>2. /\ SubSeq(frame, 4, 4) \in Seq(S) /\ Len(SubSeq(frame, 4, 4)) = 1
            /\ \A i \in 1 .. 1 : SubSeq(frame, 4, 4)[i] = frame[4 + i - 1]
        BY <4>1, SubSeqProperties
      <4>3. SubSeq(frame, 4, 4)[1] = frame[4]
        BY <4>2
      <4> QED
        BY <1>3, <4>2, <4>3
    <3> DEFINE got == SubSeq(frame, 4, 4)
    <3> HIDE DEF got
    <3> QED
      BY <1>0, <3>1, SeqEqual DEF got
  <2> QED
    BY <1>3, <2>1 DEF Parsed, ether
<1>4. Untagged(plain) = plain
  BY <1>2 DEF Untagged, ether
<1>5. Parsed(Untagged(tagged)) = payload
  <2> DEFINE a == SubSeq(tagged, 1, 2)
             b == SubSeq(tagged, 5, 6)
             frame == a \o b
  <2>1. a \in Seq(S) /\ Len(a) = 2
    <3>1. \A i \in 1 .. 2 : tagged[i] \in S
      <4>1. /\ 1 \in 1 .. Len(tagged) /\ 2 \in 1 .. Len(tagged)
            /\ \A i \in 1 .. 2 : i = 1 \/ i = 2
        BY <1>1
      <4>2. tagged \in Seq(S)
        BY <1>1
      <4>3. tagged[1] \in S /\ tagged[2] \in S
        BY <4>1, <4>2, ElementOfSeq
      <4> QED
        BY <4>1, <4>3
    <3> HIDE DEF S
    <3> QED
      BY <3>1, SubSeqProperties
  <2>2. b \in Seq(S) /\ Len(b) = 2 /\ b[1] = ether /\ b[2] = word
    <3>1. \A i \in 5 .. 6 : tagged[i] \in S
      <4>1. /\ 5 \in 1 .. Len(tagged) /\ 6 \in 1 .. Len(tagged)
            /\ \A i \in 5 .. 6 : i = 5 \/ i = 6
        BY <1>1
      <4>2. tagged \in Seq(S)
        BY <1>1
      <4>3. tagged[5] \in S /\ tagged[6] \in S
        BY <4>1, <4>2, ElementOfSeq
      <4> QED
        BY <4>1, <4>3
    <3>2. /\ b \in Seq(S) /\ Len(b) = 2
          /\ \A i \in 1 .. 2 : b[i] = tagged[5 + i - 1]
      BY <3>1, SubSeqProperties
    <3>3. b[1] = tagged[5] /\ b[2] = tagged[6]
      BY <3>2
    <3> QED
      BY <1>1, <3>2, <3>3
  <2> HIDE DEF a, b
  <2>3. frame \in Seq(S) /\ Len(frame) = 4 /\ frame[3] = ether /\ frame[4] = word
    <3>1. frame \in Seq(S) /\ JoinedOf(frame, a, b, 2, 2)
      BY <2>1, <2>2, JoinedAs
    <3> HIDE DEF frame
    <3> QED
      BY <2>2, <3>1 DEF JoinedOf
  <2>4. Untagged(tagged) = frame
    BY <1>1 DEF Untagged, a, b, tag
  <2> HIDE DEF frame
  <2> QED
    BY <1>3, <2>3, <2>4
<1>6. Parsed(plain) = payload
  BY <1>2, <1>3
<1>7. ASSUME NEW b \in BOOLEAN
      PROVE  /\ CyclicReceived(Frame(b, <<word>>)) = <<word>>
             /\ env.vlan \/ ~b => AlarmReceived(env, Frame(b, <<word>>)) = <<word>>
  <2>1. CASE b = TRUE
    BY <1>5, <2>1 DEF CyclicReceived, AlarmReceived, payload, tagged
  <2>2. CASE b = FALSE
    BY <1>4, <1>6, <2>2 DEF CyclicReceived, AlarmReceived, payload, plain
  <2> QED
    BY <2>1, <2>2
<1> QED
  BY <1>7 DEF TagsUnderstood
=============================================================================
