-------------------------- MODULE NaturalRecursion --------------------------
(***************************************************************************)
(* Induction over sets of numbers, and what it gives for functions that    *)
(* are recursive over numbers: that they exist, and that what holds of     *)
(* each step holds of their values.  The theorems about Xdebug's loops,    *)
(* the profiler's sums, the reader's text and the walks over lists, rest   *)
(* on these, and what is put together from many sequences on the last one.  *)
(***************************************************************************)
EXTENDS Integers, Sequences, SequencesExt, SequenceTheorems, WellFoundedInduction, TLAPS

\* A set of numbers that is not empty has a least one.
LEMMA Least ==
  ASSUME NEW S \in SUBSET Nat, S # {}
  PROVE  \E n \in S : \A m \in S : n <= m
<1>1. PICK x \in S : \A y \in S : ~(<<y, x>> \in OpToRel(<, Nat))
  BY NatLessThanWellFounded, WFMin
<1>2. ASSUME NEW y \in S PROVE x <= y
  <2>1. ~(<<y, x>> \in {p \in Nat \X Nat : p[1] < p[2]})
    BY <1>1, Zenon DEF OpToRel
  <2> QED BY <2>1
<1> QED BY <1>2

\* A set that holds 0 and with each number the next holds every number.
LEMMA Induction ==
  ASSUME NEW S, 0 \in S, \A n \in Nat : n \in S => n + 1 \in S
  PROVE  \A n \in Nat : n \in S
<1> SUFFICES ASSUME Nat \ S # {}
             PROVE  FALSE
  OBVIOUS
<1>1. PICK x \in Nat \ S : \A y \in Nat \ S : x <= y
  BY Least
<1>2. x # 0 /\ x - 1 \in Nat
  OBVIOUS
<1>3. x - 1 \in S
  BY <1>1, <1>2
<1>4. (x - 1) + 1 \in S
  BY <1>2, <1>3
<1> QED BY <1>4

\* The functions that begin with x0 and go on by the N steps of F.
Steps(X, N) == [1..N -> [X -> X]]
Iterations(X, x0, N, F) ==
  {g \in [0..N -> X] : g[0] = x0 /\ \A k \in 1..N : g[k] = F[k][g[k - 1]]}

\* There is such a function.
LEMMA Iterates ==
  ASSUME NEW X, NEW x0 \in X, NEW N \in Nat, NEW F \in Steps(X, N)
  PROVE  \E g : g \in Iterations(X, x0, N, F)
<1> DEFINE S == {n \in Nat : n <= N =>
                   \E g \in [0..n -> X] :
                     g[0] = x0 /\ \A k \in 1..n : g[k] = F[k][g[k - 1]]}
<1>1. 0 \in S
  <2> DEFINE g == [k \in 0..0 |-> x0]
  <2>1. g \in [0..0 -> X] /\ g[0] = x0 /\ \A k \in 1..0 : g[k] = F[k][g[k - 1]]
    OBVIOUS
  <2> QED BY <2>1
<1>2. ASSUME NEW n \in Nat, n \in S
      PROVE  n + 1 \in S
  <2>1. CASE ~(n + 1 <= N)
    BY <2>1
  <2>2. CASE n + 1 <= N
    <3>1. PICK g \in [0..n -> X] : g[0] = x0 /\ \A k \in 1..n : g[k] = F[k][g[k - 1]]
      BY <1>2, <2>2
    <3> DEFINE h == [k \in 0..(n + 1) |-> IF k <= n THEN g[k] ELSE F[n + 1][g[n]]]
    <3>2. F[n + 1][g[n]] \in X
      BY <2>2 DEF Steps
    <3>3. h \in [0..(n + 1) -> X]
      BY <3>2
    <3>4. h[0] = x0
      BY <3>1
    <3>5. \A k \in 1..(n + 1) : h[k] = F[k][h[k - 1]]
      <4> SUFFICES ASSUME NEW k \in 1..(n + 1)
                   PROVE  h[k] = F[k][h[k - 1]]
        OBVIOUS
      <4>1. h[k - 1] = g[k - 1]
        OBVIOUS
      <4>2. CASE k <= n
        BY <3>1, <4>1, <4>2
      <4>3. CASE k = n + 1
        BY <4>1, <4>3
      <4> QED BY <4>2, <4>3
    <3> HIDE DEF h
    <3> QED BY <3>3, <3>4, <3>5
  <2> QED BY <2>1, <2>2
<1> HIDE DEF S
<1>3. N \in S
  BY <1>1, <1>2, Induction
<1> QED BY <1>3 DEF S, Iterations
-----------------------------------------------------------------------------
\* The first n of the sequences seqs, one behind the other.
TextOf(seqs, n) == FlattenSeq([i \in 1..n |-> seqs[i]])

\* FlattenSeq puts one sequence after the other.
LEMMA Flattened ==
  ASSUME NEW C, NEW N \in Nat, NEW seqs \in [1..N -> Seq(C)]
  PROVE  /\ TextOf(seqs, 0) = <<>>
         /\ \A n \in 0..N : TextOf(seqs, n) \in Seq(C)
         /\ \A n \in 1..N : TextOf(seqs, n) = TextOf(seqs, n - 1) \o seqs[n]
<1> DEFINE F == [k \in 1..N |-> [x \in Seq(C) |-> x \o seqs[k]]]
<1>1. PICK g : g \in Iterations(Seq(C), <<>>, N, F)
  <2>1. <<>> \in Seq(C) /\ F \in Steps(Seq(C), N)
    BY DEF Steps
  <2> HIDE DEF F
  <2> QED BY <2>1, Iterates, Zenon
<1>2. g \in [0..N -> Seq(C)] /\ g[0] = <<>>
  BY <1>1, Zenon DEF Iterations
<1>3. \A k \in 1..N : g[k - 1] \in Seq(C) /\ g[k] = g[k - 1] \o seqs[k]
  <2> SUFFICES ASSUME NEW k \in 1..N
               PROVE  g[k - 1] \in Seq(C) /\ g[k] = g[k - 1] \o seqs[k]
    OBVIOUS
  <2>1. k - 1 \in 0..N
    OBVIOUS
  <2>2. g[k - 1] \in Seq(C)
    BY <1>2, <2>1, Zenon
  <2>3. g[k] = F[k][g[k - 1]]
    BY <1>1, Zenon DEF Iterations
  <2> QED BY <2>2, <2>3
<1> HIDE DEF F
<1>4. ASSUME NEW n \in 1..N
      PROVE  TextOf(seqs, n) = g[n]
  <2> DEFINE s == [i \in 1..n |-> seqs[i]]
             flatten == CHOOSE f : f = [i \in 1..n |-> IF i = 1 THEN s[i] ELSE f[i - 1] \o s[i]]
  <2>1. s \in Seq(Seq(C)) /\ Len(s) = n
    OBVIOUS
  <2>2. TextOf(seqs, n) = flatten[n]
    <3>1. Len(s) # 0
      BY <2>1
    <3>2. TextOf(seqs, n) = FlattenSeq(s)
      BY DEF TextOf
    <3> HIDE DEF s
    <3> QED BY <2>1, <3>1, <3>2 DEF FlattenSeq
  <2> DEFINE h == [i \in 1..n |-> g[i]]
  <2>3. \A i \in 1..n : h[i] = IF i = 1 THEN s[i] ELSE h[i - 1] \o s[i]
    <3> SUFFICES ASSUME NEW i \in 1..n
                 PROVE  h[i] = IF i = 1 THEN s[i] ELSE h[i - 1] \o s[i]
      BY Zenon
    <3>1. i \in 1..N /\ s[i] = seqs[i] /\ seqs[i] \in Seq(C) /\ h[i] = g[i]
      OBVIOUS
    <3>4. g[i] = g[i - 1] \o seqs[i]
      BY <1>3, <3>1, Zenon
    <3>2. CASE i = 1
      <4>1. g[i - 1] = <<>>
        BY <1>2, <3>2
      <4>2. <<>> \o seqs[i] = seqs[i]
        BY <3>1
      <4> QED BY <3>1, <3>2, <3>4, <4>1, <4>2, Zenon
    <3>3. CASE i # 1
      <4>1. i - 1 \in 1..n
        BY <3>3
      <4>2. h[i - 1] = g[i - 1]
        BY <4>1
      <4> QED BY <3>1, <3>3, <3>4, <4>2, Zenon
    <3> QED BY <3>2, <3>3
  <2>4. h = [i \in 1..n |-> IF i = 1 THEN s[i] ELSE h[i - 1] \o s[i]]
    <3>1. h = [i \in 1..n |-> h[i]]
      OBVIOUS
    <3> HIDE DEF h, s
    <3> QED BY <2>3, <3>1
  <2> HIDE DEF h, s
  <2>5. flatten = [i \in 1..n |-> IF i = 1 THEN s[i] ELSE flatten[i - 1] \o s[i]]
    BY <2>4, Zenon
  <2> HIDE DEF flatten
  <2>10. \A i \in 1..n : flatten[i] = IF i = 1 THEN s[i] ELSE flatten[i - 1] \o s[i]
    BY <2>5, Zenon
  <2> DEFINE S == {k \in Nat : k + 1 <= n => flatten[k + 1] = h[k + 1]}
  <2>6. 0 \in S
    BY <2>3, <2>5
  <2>7. ASSUME NEW k \in Nat, k \in S
        PROVE  k + 1 \in S
    <3>1. SUFFICES ASSUME (k + 1) + 1 <= n
                   PROVE  flatten[(k + 1) + 1] = h[(k + 1) + 1]
      OBVIOUS
    <3>2. flatten[k + 1] = h[k + 1]
      BY <2>7, <3>1
    <3> HIDE DEF S
    <3>3. (k + 1) + 1 \in 1..n /\ (k + 1) + 1 # 1 /\ ((k + 1) + 1) - 1 = k + 1
      BY <3>1
    <3>4. h[(k + 1) + 1] = h[k + 1] \o s[(k + 1) + 1]
      BY <2>3, <3>3, Zenon
    <3>5. flatten[(k + 1) + 1] = flatten[k + 1] \o s[(k + 1) + 1]
      BY <2>10, <3>3, Zenon
    <3> QED BY <3>2, <3>4, <3>5, Zenon
  <2> HIDE DEF S
  <2>11. \A k \in Nat : k \in S
    BY <2>6, <2>7, Induction
  <2>8. n - 1 \in S
    BY <2>11
  <2>9. flatten[(n - 1) + 1] = h[(n - 1) + 1]
    BY <2>8 DEF S
  <2> QED BY <2>2, <2>9 DEF h
<1>5. TextOf(seqs, 0) = <<>>
  BY DEF TextOf, FlattenSeq
<1>6. \A n \in 0..N : TextOf(seqs, n) = g[n]
  <2> SUFFICES ASSUME NEW n \in 0..N
               PROVE  TextOf(seqs, n) = g[n]
    BY Zenon
  <2>1. n = 0 \/ n \in 1..N
    OBVIOUS
  <2> QED BY <1>2, <1>4, <1>5, <2>1, Zenon
<1>7. ASSUME NEW n \in 1..N
      PROVE  TextOf(seqs, n) = TextOf(seqs, n - 1) \o seqs[n]
  <2>1. n \in 0..N /\ n - 1 \in 0..N
    OBVIOUS
  <2> QED BY <1>3, <1>6, <2>1, Zenon
<1> QED BY <1>2, <1>5, <1>6, <1>7, Zenon

\* More of them together begin with what fewer give.
Continues(C, seqs, r, k) == \E rest \in Seq(C) : TextOf(seqs, k) = TextOf(seqs, r) \o rest

LEMMA TextGoesOn ==
  ASSUME NEW C, NEW N \in Nat, NEW seqs \in [1..N -> Seq(C)]
  PROVE  \A r \in 0..N : \A k \in r..N : Continues(C, seqs, r, k)
<1> SUFFICES ASSUME NEW r \in 0..N, NEW k \in r..N
             PROVE  \E rest \in Seq(C) : TextOf(seqs, k) = TextOf(seqs, r) \o rest
  BY DEF Continues
<1> DEFINE t(n) == TextOf(seqs, n)
           P(n) == r + n <= N => \E rest \in Seq(C) : t(r + n) = t(r) \o rest
           S == {n \in Nat : P(n)}
<1>1. (\A n \in 0..N : t(n) \in Seq(C)) /\ \A n \in 1..N : t(n) = t(n - 1) \o seqs[n]
  BY Flattened, Zenon
<1> HIDE DEF t
<1>2. P(0)
  <2>1. t(r) \in Seq(C) /\ <<>> \in Seq(C)
    BY <1>1
  <2>2. t(r) = t(r) \o <<>>
    BY <2>1, ConcatEmptySeq
  <2>3. r + 0 = r
    OBVIOUS
  <2> QED BY <2>1, <2>2, <2>3
<1>3. ASSUME NEW n \in Nat, P(n)
      PROVE  P(n + 1)
  <2>1. SUFFICES ASSUME r + (n + 1) <= N
                 PROVE  \E rest \in Seq(C) : t(r + (n + 1)) = t(r) \o rest
    BY Zenon
  <2>2. PICK rest \in Seq(C) : t(r + n) = t(r) \o rest
    <3>1. r + n <= N
      BY <2>1
    <3> QED BY <1>3, <3>1, Zenon
  <2>3. r + (n + 1) \in 1..N /\ (r + (n + 1)) - 1 = r + n /\ r \in 0..N
    BY <2>1
  <2>4. t(r + (n + 1)) = t(r + n) \o seqs[r + (n + 1)]
    BY <1>1, <2>3, Zenon
  <2>5. seqs[r + (n + 1)] \in Seq(C) /\ t(r) \in Seq(C)
    BY <1>1, <2>3
  <2>6. t(r + (n + 1)) = t(r) \o (rest \o seqs[r + (n + 1)])
    <3>1. (t(r) \o rest) \o seqs[r + (n + 1)] = t(r) \o (rest \o seqs[r + (n + 1)])
      <4>1. \A x, y, z \in Seq(C) : (x \o y) \o z = x \o (y \o z)
        BY ONLY ConcatAssociative
      <4> QED BY <2>5, <4>1, Zenon
    <3> QED BY <2>2, <2>4, <3>1, Zenon
  <2>7. rest \o seqs[r + (n + 1)] \in Seq(C)
    BY <2>5
  <2> QED BY <2>6, <2>7
<1>4. \A n \in Nat : P(n)
  <2> HIDE DEF P
  <2>1. 0 \in S /\ \A n \in Nat : n \in S => n + 1 \in S
    BY <1>2, <1>3
  <2>2. \A n \in Nat : n \in S
    BY <2>1, Induction
  <2> QED BY <2>2
<1>5. k - r \in Nat /\ r + (k - r) = k /\ k <= N
  OBVIOUS
<1>6. \E rest \in Seq(C) : t(k) = t(r) \o rest
  BY <1>4, <1>5, Zenon
<1> QED BY <1>6 DEF t

\* Where each of them is in what they give together.
LaidOut(C, seqs, N) ==
  /\ TextOf(seqs, 0) = <<>>
  /\ \A k \in 0..N : TextOf(seqs, k) \in Seq(C)
  /\ \A k \in 1..N : Len(TextOf(seqs, k)) = Len(TextOf(seqs, k - 1)) + Len(seqs[k])
  /\ \A k \in 0..N : Len(TextOf(seqs, k)) <= Len(TextOf(seqs, N))
  /\ \A k \in 1..N : \A j \in 1..Len(seqs[k]) :
       TextOf(seqs, N)[Len(TextOf(seqs, k - 1)) + j] = seqs[k][j]

LEMMA Located ==
  ASSUME NEW C, NEW N \in Nat, NEW seqs \in [1..N -> Seq(C)]
  PROVE  LaidOut(C, seqs, N)
<1>1. /\ TextOf(seqs, 0) = <<>>
      /\ \A n \in 0..N : TextOf(seqs, n) \in Seq(C)
      /\ \A n \in 1..N : TextOf(seqs, n) = TextOf(seqs, n - 1) \o seqs[n]
  BY Flattened
<1>2. ASSUME NEW k \in 0..N
      PROVE  /\ Len(TextOf(seqs, k)) <= Len(TextOf(seqs, N))
             /\ \A i \in 1..Len(TextOf(seqs, k)) : TextOf(seqs, N)[i] = TextOf(seqs, k)[i]
  <2>1. PICK rest \in Seq(C) : TextOf(seqs, N) = TextOf(seqs, k) \o rest
    <3>1. \A r \in 0..N : \A m \in r..N : Continues(C, seqs, r, m)
      BY TextGoesOn
    <3>2. N \in k..N
      OBVIOUS
    <3> QED BY <3>1, <3>2 DEF Continues
  <2>2. TextOf(seqs, k) \in Seq(C)
    BY <1>1
  <2> QED BY <2>1, <2>2
<1>3. ASSUME NEW k \in 1..N
      PROVE  /\ Len(TextOf(seqs, k)) = Len(TextOf(seqs, k - 1)) + Len(seqs[k])
             /\ \A j \in 1..Len(seqs[k]) : TextOf(seqs, N)[Len(TextOf(seqs, k - 1)) + j] = seqs[k][j]
  <2> DEFINE before == TextOf(seqs, k - 1)
             up_to == TextOf(seqs, k)
             whole == TextOf(seqs, N)
  <2>1. before \in Seq(C) /\ seqs[k] \in Seq(C) /\ up_to = before \o seqs[k]
    <3>1. k - 1 \in 0..N
      OBVIOUS
    <3>2. seqs[k] \in Seq(C)
      OBVIOUS
    <3> QED BY <1>1, <3>1, <3>2, Zenon
  <2>2. \A i \in 1..Len(up_to) : whole[i] = up_to[i]
    BY <1>2
  <2> HIDE DEF before, up_to, whole
  <2>3. Len(up_to) = Len(before) + Len(seqs[k])
    BY <2>1
  <2>4. ASSUME NEW j \in 1..Len(seqs[k])
        PROVE  whole[Len(before) + j] = seqs[k][j]
    <3>1. Len(before) + j \in 1..Len(up_to)
      BY <2>1, <2>3
    <3>2. up_to[Len(before) + j] = seqs[k][j]
      BY <2>1
    <3> QED BY <2>2, <3>1, <3>2
  <2> QED BY <2>3, <2>4 DEF before, up_to, whole
<1> QED BY <1>1, <1>2, <1>3 DEF LaidOut
=============================================================================
