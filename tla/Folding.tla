------------------------------ MODULE Folding ------------------------------
(***************************************************************************)
(* What a fold over a sequence computes, for every sequence and every      *)
(* operator: the values it goes through are a base and then one step per   *)
(* element.  An operator is instantiated for Op by INSTANCE.               *)
(***************************************************************************)
EXTENDS Integers, Sequences, WellFoundedInduction, TLAPS

CONSTANT Op(_, _)

Greatest(S) == CHOOSE x \in S : \A y \in S : x >= y

\* Sets of naturals have a least element.
LEMMA LeastElement ==
    ASSUME NEW S \in SUBSET Nat, S # {}
    PROVE  \E x \in S : \A y \in S : x <= y
  <1> DEFINE R == {p \in Nat \X Nat : p[1] < p[2]}
  <1>1. IsWellFoundedOn(R, Nat)
    BY NatLessThanWellFounded DEF OpToRel
  <1>2. PICK x \in S : \A y \in S : ~ (<<y, x>> \in R)
    BY <1>1, WFMin
  <1>3. ASSUME NEW y \in S PROVE x <= y
    <2>1. x \in Nat /\ y \in Nat /\ ~ (<<y, x>> \in R)
      BY <1>2
    <2>2. ~ (y < x)
      BY <2>1
    <2> QED
      BY <2>1, <2>2
  <1> QED
    BY <1>3

\* Induction over the numbers, for a set in place of a predicate.
LEMMA Induction ==
    ASSUME NEW S, 0 \in S, \A n \in Nat : n \in S => n + 1 \in S
    PROVE  \A n \in Nat : n \in S
  <1> SUFFICES ASSUME NEW m \in Nat, m \notin S PROVE FALSE
    OBVIOUS
  <1> DEFINE Bad == {n \in Nat : n \notin S}
  <1>1. PICK n \in Bad : \A k \in Bad : n <= k
    <2>1. Bad \in SUBSET Nat /\ Bad # {}
      OBVIOUS
    <2> QED
      BY <2>1, LeastElement
  <1>2. n # 0 /\ n \in Nat
    OBVIOUS
  <1>3. n - 1 \in S /\ n - 1 \in Nat
    BY <1>1, <1>2
  <1> QED
    BY <1>2, <1>3

\* The subsets of 1 .. n are folded by a function that exists.
Iterates(g, base, seq, n) ==
    g = [s \in SUBSET (1 .. n) |->
            IF s = {} THEN base ELSE Op(g[s \ {Greatest(s)}], seq[Greatest(s)])]

LEMMA MaxFacts ==
    ASSUME NEW n \in Nat, NEW s \in SUBSET (1 .. n), s # {}
    PROVE  Greatest(s) \in s /\ \A x \in s : x <= Greatest(s)
  <1> DEFINE D == {d \in 0 .. n : n - d \in s}
  <1>1. D \in SUBSET Nat /\ D # {}
    <2>1. PICK x \in s : TRUE
      OBVIOUS
    <2>2. n - x \in 0 .. n /\ n - (n - x) = x
      OBVIOUS
    <2>3. n - x \in D
      BY <2>2
    <2>4. \A d \in D : d \in Nat
      OBVIOUS
    <2> HIDE DEF D
    <2> QED
      BY <2>3, <2>4
  <1>2. PICK d \in D : \A k \in D : d <= k
    <2> HIDE DEF D
    <2> QED
      BY <1>1, LeastElement
  <1>3. ASSUME NEW x \in s PROVE x <= n - d
    <2>1. n - x \in D
      OBVIOUS
    <2> QED
      BY <1>2, <2>1
  <1>4. n - d \in s
    OBVIOUS
  <1>5. \E y \in s : \A x \in s : y >= x
    BY <1>3, <1>4
  <1> QED
    BY <1>5 DEF Greatest

LEMMA IteratesExist ==
    ASSUME NEW base, NEW seq
    PROVE  \A n \in Nat : \E g : Iterates(g, base, seq, n)
  <1> DEFINE S == {n \in Nat : \E g : Iterates(g, base, seq, n)}
  <1>1. 0 \in S
    <2> DEFINE g == [s \in SUBSET (1 .. 0) |-> base]
    <2>1. Iterates(g, base, seq, 0)
      BY DEF Iterates
    <2> QED
      BY <2>1
  <1>2. ASSUME NEW n \in Nat, n \in S PROVE n + 1 \in S
    <2>1. PICK g : Iterates(g, base, seq, n)
      BY <1>2
    <2> DEFINE V(s) == IF n + 1 \in s THEN Op(g[s \ {n + 1}], seq[n + 1]) ELSE g[s]
               h == [s \in SUBSET (1 .. n + 1) |-> V(s)]
    <2>2. ASSUME NEW s \in SUBSET (1 .. n + 1)
          PROVE  h[s] = IF s = {} THEN base ELSE Op(h[s \ {Greatest(s)}], seq[Greatest(s)])
      <3>1. CASE n + 1 \in s
        <4>1. Greatest(s) = n + 1
          <5>1. n + 1 \in Nat /\ s # {}
            BY <3>1
          <5>2. Greatest(s) \in s /\ \A x \in s : x <= Greatest(s)
            BY <5>1, MaxFacts
          <5>3. Greatest(s) \in 1 .. n + 1 /\ n + 1 <= Greatest(s)
            BY <3>1, <5>2
          <5> QED
            BY <5>3
        <4>2. s \ {n + 1} \in SUBSET (1 .. n) /\ s \ {n + 1} \in SUBSET (1 .. n + 1)
          OBVIOUS
        <4>3. h[s \ {n + 1}] = g[s \ {n + 1}]
          BY <4>2
        <4> QED
          BY <3>1, <4>1, <4>3
      <3>2. CASE n + 1 \notin s
        <4>1. s \in SUBSET (1 .. n)
          BY <3>2
        <4>2. h[s] = g[s]
          BY <3>2
        <4>3. g[s] = IF s = {} THEN base ELSE Op(g[s \ {Greatest(s)}], seq[Greatest(s)])
          BY <2>1, <4>1 DEF Iterates
        <4>4. s \ {Greatest(s)} \in SUBSET (1 .. n + 1) /\ n + 1 \notin s \ {Greatest(s)}
          BY <3>2
        <4>5. h[s \ {Greatest(s)}] = g[s \ {Greatest(s)}]
          BY <4>4
        <4> QED
          BY <4>2, <4>3, <4>5
      <3> QED
        BY <3>1, <3>2
    <2>3. Iterates(h, base, seq, n + 1)
      <3> HIDE DEF V
      <3>1. h = [s \in SUBSET (1 .. n + 1) |->
                   IF s = {} THEN base ELSE Op(h[s \ {Greatest(s)}], seq[Greatest(s)])]
        BY <2>2
      <3> QED
        BY <3>1 DEF Iterates
    <2> QED
      BY <2>3
  <1> HIDE DEF S
  <1>3. \A n \in Nat : n \in S
    BY <1>1, <1>2, Induction
  <1> QED
    BY <1>3 DEF S

\* The fold of a sequence, and the values it goes through.
Fold(base, seq) ==
    LET iter[s \in SUBSET DOMAIN seq] ==
            IF s = {} THEN base ELSE Op(iter[s \ {Greatest(s)}], seq[Greatest(s)])
    IN  iter[DOMAIN seq]

Steps(h, base, seq, n) ==
    /\ h = [k \in 0 .. n |-> h[k]]
    /\ h[0] = base
    /\ \A k \in 1 .. n : h[k] = Op(h[k - 1], seq[k])

\* A fold is the last of its steps.
THEOREM FoldSteps ==
    ASSUME NEW base, NEW seq, NEW n \in Nat, DOMAIN seq = 1 .. n
    PROVE  \E h : Steps(h, base, seq, n) /\ Fold(base, seq) = h[n]
  <1> DEFINE g == CHOOSE g : Iterates(g, base, seq, n)
  <1>1. Iterates(g, base, seq, n)
    BY IteratesExist
  <1>2. Fold(base, seq) = g[1 .. n]
    BY DEF Fold, Iterates
  <1> HIDE DEF g
  <1> DEFINE h == [k \in 0 .. n |-> g[1 .. k]]
  <1>3. h[0] = base
    BY <1>1 DEF Iterates
  <1>4. ASSUME NEW k \in 1 .. n PROVE h[k] = Op(h[k - 1], seq[k])
    <2>1. Greatest(1 .. k) = k
      <3>1. k \in Nat /\ 1 .. k # {}
        OBVIOUS
      <3>2. Greatest(1 .. k) \in 1 .. k /\ \A x \in 1 .. k : x <= Greatest(1 .. k)
        BY <3>1, MaxFacts
      <3> QED
        BY <3>2
    <2>2. (1 .. k) \ {k} = 1 .. k - 1
      OBVIOUS
    <2>3. 1 .. k \in SUBSET (1 .. n) /\ 1 .. k # {}
      <3>1. \A x \in 1 .. k : x \in 1 .. n
        OBVIOUS
      <3>2. k \in 1 .. k
        OBVIOUS
      <3> QED
        BY <3>1, <3>2
    <2>4. g[1 .. k] = Op(g[(1 .. k) \ {k}], seq[k])
      BY <1>1, <2>1, <2>3 DEF Iterates
    <2>5. h[k] = g[1 .. k] /\ h[k - 1] = g[1 .. k - 1]
      OBVIOUS
    <2> QED
      BY <2>2, <2>4, <2>5
  <1>5. Steps(h, base, seq, n)
    BY <1>3, <1>4 DEF Steps
  <1>6. h[n] = g[1 .. n]
    OBVIOUS
  <1> QED
    BY <1>2, <1>5, <1>6

\* Two folds agree as long as their sequences do.
LEMMA StepsAgree ==
    ASSUME NEW base, NEW s, NEW t, NEW m \in Nat, NEW n \in Nat, NEW g, NEW h,
           Steps(g, base, s, m), Steps(h, base, t, n), m <= n,
           \A i \in 1 .. m : s[i] = t[i]
    PROVE  g[m] = h[m]
  <1> DEFINE S == {k \in Nat : k <= m => g[k] = h[k]}
  <1>1. 0 \in S
    BY DEF Steps
  <1>2. ASSUME NEW k \in Nat, k \in S PROVE k + 1 \in S
    <2> SUFFICES ASSUME k + 1 <= m PROVE g[k + 1] = h[k + 1]
      OBVIOUS
    <2>1. g[k] = h[k]
      BY <1>2
    <2>2. k + 1 \in 1 .. m /\ k + 1 \in 1 .. n /\ (k + 1) - 1 = k
      OBVIOUS
    <2>3. g[k + 1] = Op(g[k], s[k + 1]) /\ h[k + 1] = Op(h[k], t[k + 1])
      BY <2>2 DEF Steps
    <2> QED
      BY <2>1, <2>2, <2>3
  <1> HIDE DEF S
  <1>3. m \in S
    BY <1>1, <1>2, Induction
  <1> QED
    BY <1>3 DEF S

\* What holds of the base and is kept by every step, each in terms of how many
\* elements there were, holds of the fold.
THEOREM FoldInvariant ==
    ASSUME NEW base, NEW seq, NEW n \in Nat, DOMAIN seq = 1 .. n,
           NEW K, base \in K[0],
           \A k \in 1 .. n : \A v \in K[k - 1] : Op(v, seq[k]) \in K[k]
    PROVE  Fold(base, seq) \in K[n]
  <1>1. PICK h : Steps(h, base, seq, n) /\ Fold(base, seq) = h[n]
    BY FoldSteps
  <1> DEFINE S == {k \in Nat : k <= n => h[k] \in K[k]}
  <1>2. 0 \in S
    BY <1>1 DEF Steps
  <1>3. ASSUME NEW k \in Nat, k \in S PROVE k + 1 \in S
    <2> SUFFICES ASSUME k + 1 <= n PROVE h[k + 1] \in K[k + 1]
      OBVIOUS
    <2>1. k + 1 \in 1 .. n /\ (k + 1) - 1 = k /\ h[k] \in K[k]
      BY <1>3
    <2>2. h[k + 1] = Op(h[k], seq[k + 1])
      BY <1>1, <2>1 DEF Steps
    <2> QED
      BY <2>1, <2>2
  <1> HIDE DEF S
  <1>4. n \in S
    BY <1>2, <1>3, Induction
  <1> QED
    BY <1>1, <1>4 DEF S

\* The fold of nothing is the base.
THEOREM FoldEmpty == \A base : Fold(base, <<>>) = base
  <1> SUFFICES ASSUME NEW base PROVE Fold(base, <<>>) = base
    OBVIOUS
  <1>1. 0 \in Nat /\ DOMAIN <<>> = 1 .. 0
    OBVIOUS
  <1>2. PICK h : Steps(h, base, <<>>, 0) /\ Fold(base, <<>>) = h[0]
    BY <1>1, FoldSteps
  <1> QED
    BY <1>2 DEF Steps

\* A fold goes on where the fold of what was in front has ended.
THEOREM FoldConcat ==
    ASSUME NEW S, NEW s \in Seq(S), NEW t \in Seq(S), NEW base
    PROVE  Fold(base, s \o t) = Fold(Fold(base, s), t)
  <1>1. PICK n \in Nat : DOMAIN s = 1 .. n
    OBVIOUS
  <1>2. PICK m \in Nat : DOMAIN t = 1 .. m
    OBVIOUS
  <1>3. n + m \in Nat /\ DOMAIN (s \o t) = 1 .. n + m
    BY <1>1, <1>2
  <1>4. \A i \in 1 .. n : s[i] = (s \o t)[i]
    BY <1>1, <1>2
  <1>5. \A i \in 1 .. m : (s \o t)[n + i] = t[i]
    BY <1>1, <1>2
  <1>6. PICK g : Steps(g, base, s, n) /\ Fold(base, s) = g[n]
    BY <1>1, FoldSteps
  <1>7. PICK h : Steps(h, base, s \o t, n + m) /\ Fold(base, s \o t) = h[n + m]
    BY <1>3, FoldSteps
  <1>8. PICK f : Steps(f, g[n], t, m) /\ Fold(g[n], t) = f[m]
    BY <1>2, FoldSteps
  <1>9. g[n] = h[n]
    <2>1. n <= n + m
      OBVIOUS
    <2> DEFINE u == s \o t
               l == n + m
    <2>2. Steps(g, base, s, n) /\ Steps(h, base, u, l)
      BY <1>6, <1>7
    <2>3. l \in Nat /\ n <= l /\ \A i \in 1 .. n : s[i] = u[i]
      BY <1>3, <1>4, <2>1
    <2> HIDE DEF u, l
    <2> QED
      BY <2>2, <2>3, StepsAgree
  <1> DEFINE k == [i \in 0 .. m |-> h[n + i]]
  <1>10. Steps(k, g[n], t, m)
    <2>1. k[0] = g[n]
      BY <1>9
    <2>2. ASSUME NEW i \in 1 .. m PROVE k[i] = Op(k[i - 1], t[i])
      <3>1. n + i \in 1 .. n + m /\ (n + i) - 1 = n + (i - 1) /\ i - 1 \in 0 .. m /\ i \in 0 .. m
        OBVIOUS
      <3>2. h[n + i] = Op(h[(n + i) - 1], (s \o t)[n + i])
        BY <1>7, <3>1 DEF Steps
      <3>3. k[i] = h[n + i] /\ k[i - 1] = h[n + (i - 1)]
        BY <3>1
      <3> QED
        BY <1>5, <3>1, <3>2, <3>3
    <2>3. k = [i \in 0 .. m |-> k[i]]
      OBVIOUS
    <2> HIDE DEF k
    <2> QED
      BY <2>1, <2>2, <2>3 DEF Steps
  <1>11. k[m] = h[n + m]
    OBVIOUS
  <1>12. f[m] = k[m]
    <2>1. m <= m /\ \A i \in 1 .. m : t[i] = t[i]
      OBVIOUS
    <2> HIDE DEF k
    <2> QED
      BY <1>8, <1>10, <2>1, StepsAgree
  <1> QED
    BY <1>6, <1>7, <1>8, <1>11, <1>12

\* One more element is one more step.
THEOREM FoldAppend ==
    ASSUME NEW S, NEW s \in Seq(S), NEW x \in S, NEW base
    PROVE  Fold(base, Append(s, x)) = Op(Fold(base, s), x)
  <1>1. <<x>> \in Seq(S) /\ Append(s, x) = s \o <<x>>
    OBVIOUS
  <1>2. \A b : Fold(b, <<x>>) = Op(b, x)
    <2> SUFFICES ASSUME NEW b PROVE Fold(b, <<x>>) = Op(b, x)
      OBVIOUS
    <2>1. 1 \in Nat /\ DOMAIN <<x>> = 1 .. 1 /\ <<x>>[1] = x
      OBVIOUS
    <2>2. PICK h : Steps(h, b, <<x>>, 1) /\ Fold(b, <<x>>) = h[1]
      BY <2>1, FoldSteps
    <2>3. h[1] = Op(h[0], <<x>>[1]) /\ h[0] = b
      BY <2>2 DEF Steps
    <2> QED
      BY <2>1, <2>2, <2>3
  <1>3. Fold(base, s \o <<x>>) = Fold(Fold(base, s), <<x>>)
    BY <1>1, FoldConcat
  <1> QED
    BY <1>1, <1>2, <1>3

=============================================================================
