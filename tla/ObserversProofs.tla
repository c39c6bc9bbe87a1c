-------------------------- MODULE ObserversProofs --------------------------
(***************************************************************************)
(* The invariants of Observers, for every program, any number of fibers,   *)
(* every bound and every width of an int.  The sums of the profiler are    *)
(* recursive over the frames of a vector: what they add up to is proved by *)
(* the induction of NaturalRecursion.                                      *)
(***************************************************************************)
EXTENDS Observers, CallStackProofs, NaturalRecursion

-----------------------------------------------------------------------------
(* What the profiler's sums are.                                              *)

\* CalledUpTo adds up.
LEMMA SumsAdd ==
  ASSUME NEW s, Len(s) \in Nat, \A i \in 1..Len(s) : s[i].called \in Int
  PROVE  /\ CalledUpTo(s) \in [0..Len(s) -> Int] /\ CalledUpTo(s)[0] = 0
         /\ \A i \in 1..Len(s) : CalledUpTo(s)[i] = CalledUpTo(s)[i - 1] + s[i].called
<1> DEFINE F == [k \in 1..Len(s) |-> [x \in Int |-> x + s[k].called]]
           sum == CHOOSE g : g = [i \in 0..Len(s) |-> IF i = 0 THEN 0 ELSE g[i - 1] + s[i].called]
<1>1. F \in [1..Len(s) -> [Int -> Int]]
  OBVIOUS
<1>2. PICK g \in [0..Len(s) -> Int] : g[0] = 0 /\ \A k \in 1..Len(s) : g[k] = F[k][g[k - 1]]
  <2>1. 0 \in Int /\ Len(s) \in Nat /\ F \in Steps(Int, Len(s))
    BY <1>1 DEF Steps
  <2> HIDE DEF F
  <2>2. PICK g : g \in Iterations(Int, 0, Len(s), F)
    BY <2>1, Iterates, Zenon
  <2> QED BY <2>2 DEF Iterations
<1>3. \A k \in 0..Len(s) : g[k] = IF k = 0 THEN 0 ELSE g[k - 1] + s[k].called
  <2> SUFFICES ASSUME NEW k \in 1..Len(s)
               PROVE  g[k] = g[k - 1] + s[k].called
    BY <1>2
  <2>1. g[k - 1] \in Int
    OBVIOUS
  <2> QED BY <1>2, <2>1
<1>4. g = [i \in 0..Len(s) |-> IF i = 0 THEN 0 ELSE g[i - 1] + s[i].called]
  <2>1. g = [k \in 0..Len(s) |-> g[k]]
    OBVIOUS
  <2> HIDE DEF F
  <2> QED BY <2>1, <1>3
<1>5. sum = [i \in 0..Len(s) |-> IF i = 0 THEN 0 ELSE sum[i - 1] + s[i].called]
  BY <1>4, Zenon
<1>6. CalledUpTo(s) = sum
  BY DEF CalledUpTo
<1> DEFINE S == {n \in Nat : n <= Len(s) => sum[n] \in Int}
<1> HIDE DEF sum
<1>7. sum[0] = 0 /\ \A i \in 1..Len(s) : sum[i] = sum[i - 1] + s[i].called
  BY <1>5
<1>8. \A n \in Nat : n \in S
  <2>1. 0 \in S
    BY <1>7
  <2>2. ASSUME NEW n \in Nat, n \in S
        PROVE  n + 1 \in S
    <3>1. n + 1 <= Len(s) => sum[n + 1] = sum[n] + s[n + 1].called
      BY <1>7
    <3> QED BY <3>1, <2>2
  <2> HIDE DEF S
  <2> QED BY <2>1, <2>2, Induction
<1>9. \A i \in 0..Len(s) : sum[i] \in Int
  BY <1>8
<1>10. sum \in [0..Len(s) -> Int]
  <2>1. sum = [i \in 0..Len(s) |-> sum[i]]
    BY <1>5
  <2> QED BY <2>1, <1>9
<1> QED BY <1>6, <1>7, <1>10

\* It sees what its frames hold and no more.
LEMMA SumsAgree ==
  ASSUME NEW s, Len(s) \in Nat, \A i \in 1..Len(s) : s[i].called \in Int,
         NEW r, Len(r) \in Nat, \A i \in 1..Len(r) : r[i].called \in Int,
         NEW N \in Nat, N <= Len(s), N <= Len(r),
         \A i \in 1..N : s[i].called = r[i].called
  PROVE  CalledUpTo(s)[N] = CalledUpTo(r)[N]
<1> DEFINE S == {n \in Nat : n <= N => CalledUpTo(s)[n] = CalledUpTo(r)[n]}
<1>1. /\ CalledUpTo(s)[0] = 0
      /\ \A i \in 1..Len(s) : CalledUpTo(s)[i] = CalledUpTo(s)[i - 1] + s[i].called
  BY SumsAdd
<1>2. /\ CalledUpTo(r)[0] = 0
      /\ \A i \in 1..Len(r) : CalledUpTo(r)[i] = CalledUpTo(r)[i - 1] + r[i].called
  BY SumsAdd
<1>3. 0 \in S
  BY <1>1, <1>2
<1>4. ASSUME NEW n \in Nat, n \in S
      PROVE  n + 1 \in S
  <2> SUFFICES ASSUME n + 1 <= N
               PROVE  CalledUpTo(s)[n + 1] = CalledUpTo(r)[n + 1]
    OBVIOUS
  <2>1. CalledUpTo(s)[n] = CalledUpTo(r)[n] /\ s[n + 1].called = r[n + 1].called
    BY <1>4
  <2>2. /\ CalledUpTo(s)[n + 1] = CalledUpTo(s)[n] + s[n + 1].called
        /\ CalledUpTo(r)[n + 1] = CalledUpTo(r)[n] + r[n + 1].called
    BY <1>1, <1>2
  <2> QED BY <2>1, <2>2
<1> HIDE DEF S
<1>5. N \in S
  BY <1>3, <1>4, Induction
<1> QED BY <1>5 DEF S

\* What a frame holds.
LEMMA OfProfile ==
  ASSUME NEW p \in Profile
  PROVE  /\ p.nanotime \in Int /\ p.nanotime_mark \in Nat /\ p.named \in BOOLEAN
         /\ p.called \in Int /\ p.calls \in Nat /\ p.shown \in Int
BY DEF Profile

\* What is written of the calls of frames, and of what has ended.
RoundedLines(frames) ==
  \A i \in 1..Len(frames) : Rounded(frames[i].shown, frames[i].called, frames[i].calls)
RoundedIn(e) == RoundedLines(e.profiles) /\ Rounded(e.written, e.spent, e.blocks)

\* Rounding one more amount adds what rounding does to one.
LEMMA OneMoreRounded ==
  ASSUME NEW units \in Int, NEW amount \in Int, NEW n \in Nat, NEW more \in Int
  PROVE  /\ Scaled(more) \in Int /\ more - 4 <= 10 * Scaled(more)
         /\ units + Scaled(more) \in Int
         /\ Rounded(units, amount, n) => Rounded(units + Scaled(more), amount + more, n + 1)
<1>1. Scaled(more) \in Int /\ more - 4 <= 10 * Scaled(more) /\ 10 * Scaled(more) <= more + 5
  BY DEF Scaled
<1> DEFINE s == Scaled(more)
<1>2. s \in Int /\ more - 4 <= 10 * s /\ 10 * s <= more + 5
  BY <1>1
<1> HIDE DEF s
<1>3. Rounded(units, amount, n) => Rounded(units + s, amount + more, n + 1)
  BY <1>2 DEF Rounded
<1> QED BY <1>1, <1>3 DEF s

\* What a call that ended leaves with its caller.
LEMMA OneMoreCall ==
  ASSUME NEW p \in Profile, NEW taken \in Int
  PROVE  /\ Called(p, taken) \in Profile
         /\ Called(p, taken).named = p.named /\ Called(p, taken).nanotime = p.nanotime
         /\ Called(p, taken).nanotime_mark = p.nanotime_mark
         /\ Called(p, taken).called = p.called + taken /\ Called(p, taken).calls = p.calls + 1
         /\ Called(p, taken).shown = p.shown + Scaled(taken)
         /\ Rounded(p.shown, p.called, p.calls)
              => Rounded(Called(p, taken).shown, Called(p, taken).called, Called(p, taken).calls)
<1> DEFINE a == p.called + taken
           b == p.calls + 1
           c == p.shown + Scaled(taken)
<1>1. p.called \in Int /\ p.calls \in Nat /\ p.shown \in Int
  BY OfProfile
<1>2. a \in Int /\ b \in Nat /\ c \in Int /\ (Rounded(p.shown, p.called, p.calls) => Rounded(c, a, b))
  <2>1. a \in Int /\ b \in Nat
    BY <1>1
  <2>2. c \in Int /\ (Rounded(p.shown, p.called, p.calls) => Rounded(c, a, b))
    BY <1>1, OneMoreRounded, Zenon
  <2> QED BY <2>1, <2>2
<1>3. Called(p, taken) = [p EXCEPT !.called = a, !.calls = b, !.shown = c]
  BY DEF Called
<1> HIDE DEF a, b, c
<1>4. [p EXCEPT !.called = a, !.calls = b, !.shown = c] \in Profile
  BY <1>2 DEF Profile
<1>5. /\ Called(p, taken).named = p.named /\ Called(p, taken).nanotime = p.nanotime
      /\ Called(p, taken).nanotime_mark = p.nanotime_mark
      /\ Called(p, taken).called = a /\ Called(p, taken).calls = b /\ Called(p, taken).shown = c
  BY <1>3 DEF Profile
<1> QED BY <1>2, <1>3, <1>4, <1>5 DEF a, b, c

\* Ending call i of e changes it and the one that made it.
CallEnded(e, i, t) ==
  LET p == e.profiles[i]
      d == FunctionEnd(e, i, t)
  IN  /\ d \in Ending /\ Len(d.profiles) = Len(e.profiles)
      /\ Taken(p, t) \in Int
      /\ d.spent = e.spent + (Taken(p, t) - p.called)
      /\ d.crashed = (e.crashed \/ ~p.named)
      /\ \A j \in 1..Len(e.profiles) :
           /\ d.profiles[j].named = e.profiles[j].named
           /\ j # i => /\ d.profiles[j].nanotime = e.profiles[j].nanotime
                       /\ d.profiles[j].nanotime_mark = e.profiles[j].nanotime_mark
           /\ d.profiles[j].called = IF j = i - 1 THEN e.profiles[j].called + Taken(p, t)
                                     ELSE e.profiles[j].called
      /\ \A j \in 1..Len(e.profiles) : j \notin {i, i - 1} => d.profiles[j] = e.profiles[j]
      /\ RoundedIn(e) => RoundedIn(d)

\* It does so at any time.
LEMMA EndOfCall ==
  ASSUME NEW e \in Ending, NEW i \in 1..Len(e.profiles), NEW t \in Nat
  PROVE  CallEnded(e, i, t)
<1> DEFINE p == e.profiles[i]
           self == Taken(p, t) - p.called
           ended == [e.profiles EXCEPT ![i] = [@ EXCEPT !.nanotime = self, !.nanotime_mark = 0]]
           after == IF i = 1 THEN ended ELSE [ended EXCEPT ![i - 1] = Called(@, Taken(p, t))]
           cost == e.written + Scaled(self)
           d == FunctionEnd(e, i, t)
<1>1. /\ e.profiles \in Seq(Profile) /\ e.spent \in Int /\ e.crashed \in BOOLEAN
      /\ e.written \in Int /\ e.blocks \in Nat
  BY DEF Ending
<1>2. Len(e.profiles) \in Nat /\ \A j \in 1..Len(e.profiles) : e.profiles[j] \in Profile
  BY <1>1, ElementOfSeq, LenProperties
<1>3. p \in Profile
  BY <1>2
<1>4. p.called \in Int /\ Taken(p, t) \in Int /\ self \in Int /\ p.named \in BOOLEAN
  BY <1>3 DEF Profile, Taken
<1> HIDE DEF self, p
<1>8. /\ cost \in Int
      /\ Rounded(e.written, e.spent, e.blocks) => Rounded(cost, e.spent + self, e.blocks + 1)
  BY <1>1, <1>4, OneMoreRounded, Zenon
<1> USE DEF p
<1> HIDE DEF cost
<1>5. /\ ended \in Seq(Profile) /\ Len(ended) = Len(e.profiles)
      /\ \A j \in 1..Len(e.profiles) : j # i => ended[j] = e.profiles[j]
      /\ ended[i] = [p EXCEPT !.nanotime = self, !.nanotime_mark = 0]
      /\ ended[i] \in Profile
  <2>1. [p EXCEPT !.nanotime = self, !.nanotime_mark = 0] \in Profile
    BY <1>3, <1>4 DEF Profile
  <2>2. ended = [e.profiles EXCEPT ![i] = [p EXCEPT !.nanotime = self, !.nanotime_mark = 0]]
    OBVIOUS
  <2>3. DOMAIN e.profiles = 1..Len(e.profiles)
    BY <1>1, LenProperties
  <2> QED BY <2>1, <2>2, <2>3, <1>1, <1>2, ExceptSeq
<1> HIDE DEF ended
<1>6. CASE i = 1
  <2>1. after = ended
    BY <1>6
  <2>2. d = [profiles |-> ended, written |-> cost, blocks |-> e.blocks + 1, spent |-> e.spent + self,
             crashed |-> e.crashed \/ ~p.named]
    BY <1>6 DEF FunctionEnd, ended, self, cost
  <2>3. /\ d.profiles = ended /\ d.spent = e.spent + self /\ d.crashed = (e.crashed \/ ~p.named)
        /\ d.written = cost /\ d.blocks = e.blocks + 1
    BY <2>2
  <2>4. d \in Ending
    BY <2>2, <1>1, <1>4, <1>5, <1>8 DEF Ending
  <2>5. \A j \in 1..Len(e.profiles) :
          /\ ended[j].named = e.profiles[j].named
          /\ j # i => /\ ended[j].nanotime = e.profiles[j].nanotime
                      /\ ended[j].nanotime_mark = e.profiles[j].nanotime_mark
          /\ ended[j].called = e.profiles[j].called /\ j # i - 1
          /\ ended[j].shown = e.profiles[j].shown /\ ended[j].calls = e.profiles[j].calls
    <3>1. /\ ended[i].named = p.named /\ ended[i].called = p.called
          /\ ended[i].shown = p.shown /\ ended[i].calls = p.calls
      <4> HIDE DEF p
      <4> QED BY <1>3, <1>5 DEF Profile
    <3> SUFFICES ASSUME NEW j \in 1..Len(e.profiles)
                 PROVE  /\ ended[j].named = e.profiles[j].named
                        /\ j # i => /\ ended[j].nanotime = e.profiles[j].nanotime
                                    /\ ended[j].nanotime_mark = e.profiles[j].nanotime_mark
                        /\ ended[j].called = e.profiles[j].called /\ j # i - 1
                        /\ ended[j].shown = e.profiles[j].shown /\ ended[j].calls = e.profiles[j].calls
      OBVIOUS
    <3>2. CASE j = i
      BY <3>1, <3>2
    <3>3. CASE j # i
      <4>1. ended[j] = e.profiles[j] /\ j # i - 1
        BY <1>5, <1>6, <3>3
      <4> QED BY <4>1, <3>3
    <3> QED BY <3>2, <3>3
  <2> HIDE DEF d, p
  <2>6. RoundedIn(e) => RoundedIn(d)
    BY <2>3, <2>5, <1>5, <1>8 DEF RoundedIn, RoundedLines
  <2> QED BY <2>3, <2>4, <2>5, <2>6, <1>4, <1>5 DEF self, d, p, CallEnded
<1>7. CASE i # 1
  <2> DEFINE q == ended[i - 1]
             more == Called(q, Taken(p, t))
  <2>1. i - 1 \in 1..Len(e.profiles) /\ q = e.profiles[i - 1] /\ q \in Profile
    BY <1>2, <1>5, <1>7
  <2>2. /\ more \in Profile
        /\ more.named = q.named /\ more.nanotime = q.nanotime /\ more.nanotime_mark = q.nanotime_mark
        /\ more.called = q.called + Taken(p, t) /\ more.shown = q.shown + Scaled(Taken(p, t))
        /\ more.calls = q.calls + 1
    <3> HIDE DEF p, q
    <3> QED BY <2>1, <1>4, OneMoreCall
  <2>3. d = [profiles |-> [ended EXCEPT ![i - 1] = Called(@, Taken(p, t))],
             written |-> cost, blocks |-> e.blocks + 1, spent |-> e.spent + self,
             crashed |-> e.crashed \/ ~p.named]
    BY <1>7 DEF FunctionEnd, ended, self, cost
  <2>4. d.profiles = [ended EXCEPT ![i - 1] = more] /\ d.spent = e.spent + self
        /\ d.crashed = (e.crashed \/ ~p.named) /\ d.written = cost /\ d.blocks = e.blocks + 1
    BY <2>3
  <2>5. /\ d.profiles \in Seq(Profile) /\ Len(d.profiles) = Len(e.profiles)
        /\ \A j \in 1..Len(e.profiles) : j # i - 1 => d.profiles[j] = ended[j]
        /\ d.profiles[i - 1] = more
    BY <2>1, <2>2, <2>4, <1>5, ExceptSeq
  <2>6. d \in Ending
    BY <2>3, <2>4, <2>5, <1>1, <1>4, <1>8 DEF Ending
  <2>8. /\ ended[i].named = p.named /\ ended[i].called = p.called
        /\ ended[i].shown = p.shown /\ ended[i].calls = p.calls
    BY <1>3, <1>5 DEF Profile
  <2> HIDE DEF d, more, q
  <2>9. \A j \in 1..Len(e.profiles) :
          /\ d.profiles[j].named = e.profiles[j].named
          /\ j # i => /\ d.profiles[j].nanotime = e.profiles[j].nanotime
                      /\ d.profiles[j].nanotime_mark = e.profiles[j].nanotime_mark
          /\ d.profiles[j].called = IF j = i - 1 THEN e.profiles[j].called + Taken(p, t)
                                    ELSE e.profiles[j].called
    BY <2>1, <2>2, <2>5, <2>8, <1>5
  <2>10. \A j \in 1..Len(e.profiles) : j \notin {i, i - 1} => d.profiles[j] = e.profiles[j]
    BY <2>5, <1>5
  <2>11. RoundedIn(e) => RoundedIn(d)
    <3> SUFFICES ASSUME RoundedIn(e)
                 PROVE  RoundedIn(d)
      OBVIOUS
    <3>1. Rounded(q.shown, q.called, q.calls)
      BY <2>1 DEF RoundedIn, RoundedLines
    <3>2. Rounded(more.shown, more.called, more.calls)
      <4> HIDE DEF p
      <4> QED BY <2>1, <3>1, <1>4, OneMoreCall DEF more
    <3>3. RoundedLines(d.profiles)
      <4> SUFFICES ASSUME NEW j \in 1..Len(e.profiles)
                   PROVE  Rounded(d.profiles[j].shown, d.profiles[j].called, d.profiles[j].calls)
        BY <2>5 DEF RoundedLines
      <4>1. Rounded(e.profiles[j].shown, e.profiles[j].called, e.profiles[j].calls)
        BY DEF RoundedIn, RoundedLines
      <4>2. CASE j = i - 1
        BY <2>5, <3>2, <4>2
      <4>3. CASE j # i - 1 /\ j = i
        BY <2>5, <2>8, <4>1, <4>3 DEF p
      <4>4. CASE j # i - 1 /\ j # i
        BY <2>5, <1>5, <4>1, <4>4
      <4> QED BY <4>2, <4>3, <4>4
    <3> QED BY <2>4, <3>3, <1>8 DEF RoundedIn
  <2> HIDE DEF p
  <2> QED BY <2>4, <2>5, <2>6, <2>9, <2>10, <2>11, <1>4 DEF self, d, p, CallEnded
<1> QED BY <1>6, <1>7

\* What ending all the calls of the running vector leaves: the calls that have
\* no names are followed, and of the costs only the outermost one remains, but
\* for what the calls had already been charged with.
AllCallsEnded(t) ==
  LET s == profiles[fiber]
      n == Len(s)
      e == AllEnded(t)
  IN  /\ e \in Ending /\ Len(e.profiles) = n
      /\ e.crashed = (crashed \/ \E j \in 1..n : ~s[j].named)
      /\ e.spent = (spent - CalledUpTo(s)[n]) + IF n = 0 THEN 0 ELSE Taken(s[1], t)
      /\ RoundedIn(Now) => RoundedIn(e)

\* It does so at any time.
LEMMA EndOfAllCalls ==
  ASSUME NEW t \in Nat, Now \in Ending
  PROVE  AllCallsEnded(t)
<1> DEFINE s == profiles[fiber]
           n == Len(s)
           X == {e \in Ending : Len(e.profiles) = n /\ (RoundedIn(Now) => RoundedIn(e))}
           F == [k \in 1..n |-> [e \in X |-> FunctionEnd(e, n - k + 1, t)]]
           after == CHOOSE g : g = [k \in 0..n |-> IF k = 0 THEN Now
                                                   ELSE FunctionEnd(g[k - 1], n - k + 1, t)]
<1>1. /\ s \in Seq(Profile) /\ n \in Nat /\ spent \in Int /\ crashed \in BOOLEAN
      /\ Now.profiles = s /\ Now.spent = spent /\ Now.crashed = crashed
      /\ \A j \in 1..n : s[j] \in Profile
  <2>1. Now.profiles = s /\ Now.spent = spent /\ Now.crashed = crashed
    BY DEF Now
  <2>2. s \in Seq(Profile) /\ spent \in Int /\ crashed \in BOOLEAN
    <3> HIDE DEF s
    <3> QED BY <2>1 DEF Ending
  <2> QED BY <2>1, <2>2, LenProperties, ElementOfSeq
<1>2. Now \in X
  BY <1>1
<1>3. \A e \in X : \A k \in 1..n :
        /\ n - k + 1 \in 1..n
        /\ FunctionEnd(e, n - k + 1, t) \in X
  <2> SUFFICES ASSUME NEW e \in X, NEW k \in 1..n
               PROVE  n - k + 1 \in 1..n /\ FunctionEnd(e, n - k + 1, t) \in X
    OBVIOUS
  <2>1. n - k + 1 \in 1..n
    BY <1>1
  <2>2. e \in Ending /\ Len(e.profiles) = n /\ (RoundedIn(Now) => RoundedIn(e))
    OBVIOUS
  <2> HIDE DEF n
  <2> QED BY <2>1, <2>2, EndOfCall DEF CallEnded
<1>4. F \in Steps(X, n)
  <2> HIDE DEF X, n
  <2> QED BY <1>3 DEF Steps
<1>5. PICK g \in [0..n -> X] : g[0] = Now /\ \A k \in 1..n : g[k] = F[k][g[k - 1]]
  <2> HIDE DEF F, X, n
  <2>1. PICK g : g \in Iterations(X, Now, n, F)
    BY <1>1, <1>2, <1>4, Iterates, Zenon
  <2> QED BY <2>1 DEF Iterations
<1>6. \A k \in 0..n : g[k] = IF k = 0 THEN Now ELSE FunctionEnd(g[k - 1], n - k + 1, t)
  <2> SUFFICES ASSUME NEW k \in 1..n
               PROVE  g[k] = FunctionEnd(g[k - 1], n - k + 1, t)
    BY <1>5
  <2> HIDE DEF X, n
  <2>1. g[k - 1] \in X
    BY <1>1
  <2> QED BY <1>5, <2>1
<1>7. g = [k \in 0..n |-> IF k = 0 THEN Now ELSE FunctionEnd(g[k - 1], n - k + 1, t)]
  <2> HIDE DEF X, F, n
  <2>1. g = [k \in 0..n |-> g[k]]
    OBVIOUS
  <2> QED BY <2>1, <1>6
<1>8. after = [k \in 0..n |-> IF k = 0 THEN Now ELSE FunctionEnd(after[k - 1], n - k + 1, t)]
  BY <1>7, Zenon
<1>9. AllEnded(t) = after[n]
  BY DEF AllEnded
<1> HIDE DEF after, F
<1>10. after[0] = Now /\ \A k \in 1..n : after[k] = FunctionEnd(after[k - 1], n - k + 1, t)
  <2> HIDE DEF n
  <2> QED BY <1>1, <1>8
<1> DEFINE sum == CalledUpTo(s)
           T(j) == Taken(s[j], t)
           Charged(k) == IF k = 0 THEN 0 ELSE T(n - k + 1)
           Reached(k) ==
             /\ after[k] \in X
             /\ \A j \in 1..(n - k) :
                  /\ after[k].profiles[j].nanotime = s[j].nanotime
                  /\ after[k].profiles[j].nanotime_mark = s[j].nanotime_mark
                  /\ after[k].profiles[j].named = s[j].named
                  /\ after[k].profiles[j].called = s[j].called + IF j = n - k THEN Charged(k) ELSE 0
             /\ after[k].crashed = (crashed \/ \E j \in (n - k + 1)..n : ~s[j].named)
             /\ after[k].spent = (spent + Charged(k)) - (sum[n] - sum[n - k])
<1>11. /\ sum \in [0..n -> Int] /\ sum[0] = 0
       /\ \A j \in 1..n : sum[j] = sum[j - 1] + s[j].called
       /\ \A j \in 1..n : /\ T(j) \in Int /\ s[j].called \in Int /\ s[j].nanotime \in Int
                          /\ s[j].nanotime_mark \in Int
  <2>1. \A j \in 1..n : /\ T(j) \in Int /\ s[j].called \in Int /\ s[j].nanotime \in Int
                        /\ s[j].nanotime_mark \in Int
    <3> HIDE DEF s, n
    <3>1. \A j \in 1..n : s[j].called \in Int /\ s[j].nanotime \in Int /\ s[j].nanotime_mark \in Int
      BY <1>1, OfProfile
    <3> QED BY <3>1 DEF Taken
  <2> HIDE DEF s
  <2> QED BY <1>1, <2>1, SumsAdd
<1>12. Reached(0)
  <2> HIDE DEF s, sum, X
  <2>1. \A j \in 1..n : s[j].called + 0 = s[j].called
    BY <1>11
  <2>2. sum[n] \in Int
    BY <1>1, <1>11
  <2>3. after[0] \in X /\ after[0].profiles = s /\ after[0].spent = spent /\ after[0].crashed = crashed
    BY <1>1, <1>2, <1>10
  <2>4. Charged(0) = 0 /\ n - 0 = n
    BY <1>1
  <2>5. (n - 0 + 1)..n = {}
    BY <1>1
  <2>6. (spent + 0) - (sum[n] - sum[n]) = spent
    BY <1>1, <2>2
  <2> QED BY <1>1, <2>1, <2>3, <2>4, <2>5, <2>6
<1>13. ASSUME NEW k \in 1..n, Reached(k - 1)
       PROVE  Reached(k)
  <2> DEFINE i == n - k + 1
             c == after[k - 1]
             d == FunctionEnd(c, i, t)
             p == c.profiles[i]
  <2>1. i \in 1..n /\ n - (k - 1) = i /\ n - k = i - 1 /\ k \in Nat /\ k # 0
    BY <1>1
  <2>2. c \in Ending /\ Len(c.profiles) = n /\ after[k] = d /\ (RoundedIn(Now) => RoundedIn(c))
    BY <1>10, <1>13
  <2>3. /\ p.nanotime = s[i].nanotime /\ p.nanotime_mark = s[i].nanotime_mark /\ p.named = s[i].named
        /\ p.called = s[i].called + Charged(k - 1)
    <3> HIDE DEF s, n, Charged, X
    <3> QED BY <1>13, <2>1
  <2>4. Taken(p, t) = T(i) /\ Charged(k) = T(i)
    BY <2>1, <2>3 DEF Taken
  <2> HIDE DEF d, p, Charged, s, n, sum, T
  <2>5. /\ d \in Ending /\ Len(d.profiles) = Len(c.profiles)
        /\ d.spent = c.spent + (Taken(p, t) - p.called)
        /\ d.crashed = (c.crashed \/ ~p.named)
        /\ \A j \in 1..Len(c.profiles) :
             /\ d.profiles[j].named = c.profiles[j].named
             /\ j # i => /\ d.profiles[j].nanotime = c.profiles[j].nanotime
                         /\ d.profiles[j].nanotime_mark = c.profiles[j].nanotime_mark
             /\ d.profiles[j].called = IF j = i - 1 THEN c.profiles[j].called + Taken(p, t)
                                       ELSE c.profiles[j].called
        /\ RoundedIn(c) => RoundedIn(d)
    <3>1. i \in 1..Len(c.profiles)
      BY <2>1, <2>2
    <3> HIDE DEF c, i
    <3>2. CallEnded(c, i, t)
      BY <2>2, <3>1, EndOfCall
    <3> QED BY <3>2 DEF CallEnded, d, p
  <2>6. after[k] \in X
    BY <2>2, <2>5
  <2>7. \A j \in 1..(n - k) :
          /\ after[k].profiles[j].nanotime = s[j].nanotime
          /\ after[k].profiles[j].nanotime_mark = s[j].nanotime_mark
          /\ after[k].profiles[j].named = s[j].named
          /\ after[k].profiles[j].called = s[j].called + IF j = n - k THEN Charged(k) ELSE 0
    <3> SUFFICES ASSUME NEW j \in 1..(i - 1)
                 PROVE  /\ d.profiles[j].nanotime = s[j].nanotime
                        /\ d.profiles[j].nanotime_mark = s[j].nanotime_mark
                        /\ d.profiles[j].named = s[j].named
                        /\ d.profiles[j].called = s[j].called + IF j = i - 1 THEN Charged(k) ELSE 0
      BY <2>1, <2>2
    <3>1. j \in 1..(n - (k - 1)) /\ j \in 1..n /\ j # i
      BY <2>1, <1>1
    <3>2. /\ c.profiles[j].nanotime = s[j].nanotime
          /\ c.profiles[j].nanotime_mark = s[j].nanotime_mark
          /\ c.profiles[j].named = s[j].named
          /\ c.profiles[j].called = s[j].called + 0
      <4> HIDE DEF i, c, X
      <4> QED BY <1>13, <2>1, <3>1 DEF c
    <3> HIDE DEF c, i
    <3>3. s[j].called + 0 = s[j].called
      BY <1>11, <3>1
    <3>4. /\ d.profiles[j].named = c.profiles[j].named
          /\ d.profiles[j].nanotime = c.profiles[j].nanotime
          /\ d.profiles[j].nanotime_mark = c.profiles[j].nanotime_mark
          /\ d.profiles[j].called = IF j = i - 1 THEN c.profiles[j].called + T(i) ELSE c.profiles[j].called
      BY <2>2, <2>4, <2>5, <3>1
    <3> QED BY <2>4, <3>2, <3>3, <3>4
  <2>8. after[k].crashed = (crashed \/ \E j \in (n - k + 1)..n : ~s[j].named)
    <3>1. c.crashed = (crashed \/ \E j \in (i + 1)..n : ~s[j].named)
      BY <1>13, <2>1
    <3>2. (\E j \in i..n : ~s[j].named) <=> (~s[i].named \/ \E j \in (i + 1)..n : ~s[j].named)
      <4>1. i..n = {i} \cup ((i + 1)..n)
        BY <1>1, <2>1
      <4> HIDE DEF i
      <4> QED BY <4>1, Zenon
    <3>3. after[k].crashed = (c.crashed \/ ~s[i].named)
      BY <2>2, <2>3, <2>5
    <3> HIDE DEF c
    <3> QED BY <3>1, <3>2, <3>3
  <2>9. after[k].spent = (spent + Charged(k)) - (sum[n] - sum[n - k])
    <3>1. c.spent = (spent + Charged(k - 1)) - (sum[n] - sum[i])
      BY <1>13, <2>1
    <3>2. d.spent = c.spent + (T(i) - (s[i].called + Charged(k - 1)))
      BY <2>3, <2>4, <2>5
    <3>3. sum[i] = sum[i - 1] + s[i].called /\ sum[i - 1] \in Int /\ sum[n] \in Int
      <4>1. i \in 1..n /\ i - 1 \in 0..n /\ n \in 0..n
        BY <1>1, <2>1
      <4> HIDE DEF c, i
      <4> QED BY <1>11, <4>1
    <3>4. Charged(k - 1) \in Int /\ T(i) \in Int /\ s[i].called \in Int
      <4>1. k - 1 # 0 => n - (k - 1) + 1 \in 1..n
        BY <1>1
      <4> QED BY <4>1, <1>11, <2>1 DEF Charged
    <3> HIDE DEF c, i
    <3>5. d.spent = (spent + T(i)) - (sum[n] - sum[i - 1])
      <4> DEFINE ch == Charged(k - 1)
                 ti == T(i)
                 si == s[i].called
                 sn == sum[n]
                 su == sum[i - 1]
      <4>1. ch \in Int /\ ti \in Int /\ si \in Int /\ sn \in Int /\ su \in Int
        BY <3>3, <3>4
      <4>2. d.spent = ((spent + ch) - (sn - (su + si))) + (ti - (si + ch))
        BY <3>1, <3>2, <3>3
      <4> HIDE DEF ch, ti, si, sn, su
      <4>3. ((spent + ch) - (sn - (su + si))) + (ti - (si + ch)) = (spent + ti) - (sn - su)
        BY <4>1, <1>1
      <4> QED BY <4>2, <4>3 DEF ti, sn, su
    <3> QED BY <3>5, <2>1, <2>2, <2>4
  <2> HIDE DEF X
  <2> QED BY <2>6, <2>7, <2>8, <2>9
<1> DEFINE S == {k \in Nat : k <= n => Reached(k)}
<1>14. Reached(n)
  <2>1. 0 \in S
    BY <1>12
  <2>2. ASSUME NEW k \in Nat, k \in S
        PROVE  k + 1 \in S
    <3> SUFFICES ASSUME k + 1 <= n
                 PROVE  Reached(k + 1)
      OBVIOUS
    <3>1. Reached((k + 1) - 1) /\ k + 1 \in 1..n
      <4>1. k <= n /\ (k + 1) - 1 = k /\ k + 1 \in 1..n
        BY <1>1
      <4>2. Reached(k)
        BY <2>2, <4>1
      <4> HIDE DEF Reached
      <4> QED BY <4>1, <4>2
    <3> HIDE DEF Reached
    <3> QED BY <3>1, <1>13
  <2> HIDE DEF S
  <2>3. n \in S
    BY <1>1, <2>1, <2>2, Induction
  <2> HIDE DEF Reached
  <2> QED BY <1>1, <2>3 DEF S
<1> HIDE DEF T, s, sum
<1>15. (n - n + 1)..n = 1..n /\ n - n = 0 /\ sum[n] - 0 = sum[n] /\ n - n + 1 = 1
  BY <1>1, <1>11
<1>16. /\ after[n] \in X
       /\ after[n].crashed = (crashed \/ \E j \in 1..n : ~s[j].named)
       /\ after[n].spent = (spent + Charged(n)) - sum[n]
  <2> HIDE DEF X, Charged
  <2> QED BY <1>11, <1>14, <1>15
<1>17. (spent + Charged(n)) - sum[n] = (spent - sum[n]) + IF n = 0 THEN 0 ELSE T(1)
  <2>1. Charged(n) = IF n = 0 THEN 0 ELSE T(1)
    BY <1>15
  <2>2. (IF n = 0 THEN 0 ELSE T(1)) \in Int
    BY <1>1, <1>11
  <2>3. sum[n] \in Int
    BY <1>1, <1>11
  <2> DEFINE x == IF n = 0 THEN 0 ELSE T(1)
  <2> HIDE DEF n, x, Charged
  <2>4. Charged(n) = x /\ x \in Int
    BY <2>1, <2>2 DEF x
  <2>5. (spent + x) - sum[n] = (spent - sum[n]) + x
    BY <2>3, <2>4, <1>1
  <2> QED BY <2>4, <2>5 DEF x
<1> QED BY <1>9, <1>16, <1>17 DEF s, sum, T, AllCallsEnded

\* The calls of a call are charged to it one after the other while it runs, so
\* what the calls of a vector have cost was all taken by the outermost one.
LEMMA SumsBounded ==
  ASSUME NEW s \in Seq(Profile), NEW t \in Nat, Len(s) > 0,
         \A i \in 1..Len(s) :
           s[i].called <= (IF i < Len(s) THEN s[i + 1].nanotime_mark ELSE t) - s[i].nanotime_mark
  PROVE  CalledUpTo(s)[Len(s)] \in Int /\ CalledUpTo(s)[Len(s)] <= t - s[1].nanotime_mark
<1> DEFINE n == Len(s)
           sum == CalledUpTo(s)
           Mark(i) == IF i <= n THEN s[i].nanotime_mark ELSE t
           S == {i \in Nat : i <= n => sum[i] <= Mark(i + 1) - Mark(1)}
<1>1. n \in Nat /\ \A i \in 1..n : s[i] \in Profile
  BY ElementOfSeq, LenProperties
<1>2. \A i \in 1..n : s[i].called \in Int /\ s[i].nanotime_mark \in Int
  <2> HIDE DEF n
  <2> QED BY <1>1, OfProfile
<1>3. /\ sum \in [0..n -> Int] /\ sum[0] = 0
      /\ \A i \in 1..n : sum[i] = sum[i - 1] + s[i].called
  BY <1>1, <1>2, SumsAdd
<1> HIDE DEF sum
<1>4. \A i \in 1..(n + 1) : Mark(i) \in Int
  BY <1>1, <1>2
<1>5. 0 \in S
  BY <1>1, <1>3, <1>4
<1>6. ASSUME NEW i \in Nat, i \in S
      PROVE  i + 1 \in S
  <2> SUFFICES ASSUME i + 1 <= n
               PROVE  sum[i + 1] <= Mark((i + 1) + 1) - Mark(1)
    OBVIOUS
  <2>1. sum[i] <= Mark(i + 1) - Mark(1)
    BY <1>1, <1>6
  <2>2. i + 1 \in 1..n /\ (i + 1) - 1 = i /\ i \in 0..n /\ (i + 1) + 1 \in 1..(n + 1)
    BY <1>1
  <2>3. sum[i + 1] = sum[i] + s[i + 1].called /\ sum[i] \in Int
    BY <1>3, <2>2
  <2>4. s[i + 1].called <= Mark((i + 1) + 1) - Mark(i + 1)
    BY <1>1, <2>2
  <2>5. Mark((i + 1) + 1) \in Int /\ Mark(i + 1) \in Int /\ Mark(1) \in Int /\ s[i + 1].called \in Int
    BY <1>1, <1>2, <1>4, <2>2
  <2> HIDE DEF Mark
  <2> QED BY <2>1, <2>3, <2>4, <2>5
<1> HIDE DEF S
<1>7. n \in S
  BY <1>1, <1>5, <1>6, Induction
<1>8. sum[n] <= t - s[1].nanotime_mark
  BY <1>1, <1>7 DEF S
<1> QED BY <1>1, <1>3, <1>8 DEF sum
-----------------------------------------------------------------------------
(* The inductive invariant.                                                   *)

\* The frame a fiber starts with has no number of its own.
Uncounted ==
  \A g \in DOMAIN fiber_stacks : \A i \in 1..Len(fiber_stacks[g]) :
    fiber_stacks[g][i].function = FiberMain => fiber_stacks[g][i].function_nr = 0

StackInv == CallStackInv /\ CallsInv /\ Uncounted

\* What is not on has no state, and who has seen no fiber has one stack.
RequestInv ==
  /\ mode \in Modes /\ phase \in Phases /\ now \in 0..MaxTime /\ fibers_seen \in BOOLEAN
  /\ gc \in [active: BOOLEAN, file: BOOLEAN, filename: BOOLEAN] /\ collecting \in BOOLEAN
  /\ ReportIsOpen
  /\ mode # "profile" =>
       ~active /\ written = 0 /\ blocks = 0 /\ spent = 0 /\ summary = -1 /\ ~crashed
  /\ mode # "trace" => trace = NoTrace
  /\ ~fibers_seen => DOMAIN fiber_stacks = {MainFiber}

\* A call is charged with its calls up to the one above it, which has not ended,
\* and is measured from when it began.  The vectors of suspended fibers keep what
\* they hold while the profile is stopped and started; that of the main fiber
\* does not, but it is empty when another profile starts.
Until(f, i) ==
  IF i < Len(profiles[f]) /\ profiles[f][i + 1].named
  THEN profiles[f][i + 1].nanotime_mark ELSE now

Measured(f) ==
  \A i \in 1..Len(profiles[f]) : profiles[f][i].named =>
    /\ profiles[f][i].nanotime = 0 /\ profiles[f][i].nanotime_mark <= now
    /\ profiles[f][i].called \in 0..(Until(f, i) - profiles[f][i].nanotime_mark)

MeasuredInv ==
  ~crashed => \A f \in DOMAIN profiles :
    /\ (active \/ f # MainFiber) => Measured(f)
    /\ f # MainFiber => ~profiles[f][1].named

\* When the outermost call began that runs.
Begun == IF profiles[MainFiber] = <<>> THEN now ELSE profiles[MainFiber][1].nanotime_mark

SumInv ==
  ~fibers_seen =>
    /\ ~crashed /\ spent >= 0
    /\ active => /\ \A i \in 1..Len(profiles[MainFiber]) : profiles[MainFiber][i].named
                 /\ summary = -1 /\ OutermostTaken <= Begun - start_nanotime
    /\ summary >= 0 => spent <= 10 * summary + 4

\* What is written differs from what was measured by its rounding.
RoundedInv ==
  (\A f \in DOMAIN profiles : RoundedLines(profiles[f])) /\ Rounded(written, spent, blocks)

ProfileInv == mode = "profile" => ProfilerTypeOK /\ MeasuredInv /\ SumInv /\ RoundedInv

\* A call began before the one above it.
CallUntil(f, i) == IF i < Len(calls[f]) THEN calls[f][i + 1].nanotime ELSE now

CallTimes ==
  \A f \in DOMAIN calls : \A i \in 1..Len(calls[f]) : calls[f][i].nanotime <= CallUntil(f, i)

IsTrace(tr) ==
  /\ tr = [open |-> tr.open, format |-> tr.format, lines |-> tr.lines,
           functions |-> tr.functions, since |-> tr.since]
  /\ tr.open \in BOOLEAN /\ tr.format \in {"text", "flamegraph"}
  /\ tr.lines \in Seq(Line) /\ tr.since \in -1..MaxCalls
  /\ tr.functions \in [DOMAIN tr.functions -> Int] /\ DOMAIN tr.functions \subseteq 0..MaxCalls

\* LinesOf and TracedCalls, of any trace.
NumbersIn(lines, kind) ==
  {lines[i].function_nr : i \in {j \in 1..Len(lines) : lines[j].kind = kind}}

TracedAt(frame, data, since) ==
  frame.function # FiberMain /\ frame.function_nr > since /\ ~data.filtered_tracing

TracedNumbers(stacks, data, since) ==
  UNION {{stacks[f][i].function_nr :
            i \in {j \in 1..Len(stacks[f]) : TracedAt(stacks[f][j], data[f][j], since)}} :
         f \in DOMAIN stacks}

\* Calls yet to come are in no line, and a built-in function whose first line
\* was written is known to have one.
TextIs(tr) ==
  tr.open /\ tr.format = "text" =>
    /\ NumbersIn(tr.lines, "entry") \ NumbersIn(tr.lines, "exit")
         = TracedNumbers(fiber_stacks, calls, tr.since)
    /\ \A n \in NumbersIn(tr.lines, "exit") \ NumbersIn(tr.lines, "entry") : n <= tr.since
    /\ tr.since <= function_count
    /\ \A n \in NumbersIn(tr.lines, "entry") \cup NumbersIn(tr.lines, "exit") : n <= function_count
    /\ \A f \in DOMAIN calls : \A i \in 1..Len(calls[f]) :
         /\ fiber_stacks[f][i].function \in BuiltIn
         /\ TracedAt(fiber_stacks[f][i], calls[f][i], tr.since)
         => calls[f][i].function_call_traced

\* A call was charged with its calls up to the one above it, unless it is the
\* first, which has the number that those of fibers' frames are taken for.
FlameAt(tr, f, i) ==
  LET n == fiber_stacks[f][i].function_nr
      bound == CallUntil(f, i) - calls[f][i].nanotime
  IN  /\ fiber_stacks[f][i].function # FiberMain /\ n \in DOMAIN tr.functions
      /\ n # 0 \/ ~fibers_seen
      /\ bound < Half
      => tr.functions[n] \in 0..bound

FlameIs(tr) ==
  tr.open /\ tr.format = "flamegraph" =>
    /\ \A n \in DOMAIN tr.functions : n <= function_count
    /\ \A f \in DOMAIN calls : \A i \in 1..Len(calls[f]) : FlameAt(tr, f, i)

CostsAre(tr) ==
  \A i \in 1..Len(tr.lines) :
    tr.lines[i].cost < 0 =>
      tr.lines[i].lasted >= Half \/ (fibers_seen /\ tr.lines[i].function_nr = 0)

TraceIs(tr) == IsTrace(tr) /\ TextIs(tr) /\ FlameIs(tr) /\ CostsAre(tr)

CallDataOK ==
  /\ left_out \subseteq Functions
  /\ DOMAIN calls = DOMAIN fiber_stacks
  /\ \A f \in DOMAIN calls :
       /\ calls[f] \in Seq(CallData)
       /\ Len(calls[f]) = Len(fiber_stacks[f])

TraceInv == mode = "trace" => CallDataOK /\ CallTimes /\ TraceIs(trace)

ObserversInv == StackInv /\ RequestInv /\ ProfileInv /\ TraceInv
-----------------------------------------------------------------------------
(* The call stack.                                                            *)

\* What a switch makes of the frames.
FramesSwitched ==
  /\ \A g \in DOMAIN fiber_stacks' :
       \/ g \in DOMAIN fiber_stacks /\ fiber_stacks'[g] = fiber_stacks[g]
       \/ g \notin DOMAIN fiber_stacks /\ g # MainFiber /\ fiber_stacks'[g] = NewStack
  /\ \A g \in DOMAIN fiber_stacks \ DOMAIN fiber_stacks' :
       g # MainFiber /\ Len(fiber_stacks[g]) = 1
  /\ function_count' = function_count

\* A switch keeps the invariant of the call stack.
LEMMA SwitchedStack ==
  ASSUME StackInv, SwitchFiber
  PROVE  StackInv' /\ FramesSwitched
<1>1. CallStackInv /\ CallsInv /\ Uncounted /\ CallStackTypeOK
  BY DEF StackInv, CallStackInv
<1>2. CASE SuspendFiber
  <2>1. fiber_stacks' = fiber_stacks /\ function_count' = function_count
    BY <1>2 DEF SuspendFiber
  <2>2. CallsInv' /\ Uncounted'
    BY <1>1, <2>1 DEF CallsInv, FibersBegin, NumbersUnique, DepthBounded, Uncounted
  <2> QED BY <1>1, <1>2, <2>1, <2>2, SuspendedInv DEF StackInv, FramesSwitched
<1>3. CASE EndFiber
  <2>1. /\ CallStackInv' /\ CallsInv'
        /\ DOMAIN fiber_stacks' = DOMAIN fiber_stacks \ {fiber}
        /\ \A g \in DOMAIN fiber_stacks' : fiber_stacks'[g] = fiber_stacks[g]
    BY <1>1, <1>3, EndedInv, EndedCalls
  <2>2. MainFiber \in DOMAIN fiber_stacks'
    BY <2>1 DEF CallStackInv, CallStackTypeOK
  <2>3. function_count' = function_count /\ Len(fiber_stacks[fiber]) = 1
    BY <1>3 DEF EndFiber, stack
  <2>4. Uncounted'
    BY <1>1, <2>1 DEF Uncounted
  <2> QED BY <2>1, <2>2, <2>3, <2>4 DEF StackInv, FramesSwitched
<1>4. ASSUME NEW f \in Fibers, StartFiber(f)
      PROVE  StackInv' /\ FramesSwitched
  <2>1. CallStackInv' /\ CallsInv'
    BY <1>1, <1>4, StartedInv, StartedCalls
  <2>2. /\ f \notin DOMAIN fiber_stacks /\ f # MainFiber
        /\ DOMAIN fiber_stacks' = DOMAIN fiber_stacks \cup {f}
        /\ \A g \in DOMAIN fiber_stacks : fiber_stacks'[g] = fiber_stacks[g]
        /\ fiber_stacks'[f] = NewStack /\ function_count' = function_count
    BY <1>1, <1>4 DEF StartFiber, CallStackTypeOK
  <2>3. Len(NewStack) = 1 /\ NewStack[1].function_nr = 0
    BY DEF NewStack
  <2>4. Uncounted'
    BY <1>1, <2>2, <2>3 DEF Uncounted
  <2> QED BY <2>1, <2>2, <2>4 DEF StackInv, FramesSwitched
<1>5. ASSUME NEW f \in Fibers, ResumeFiber(f)
      PROVE  StackInv' /\ FramesSwitched
  <2>1. fiber_stacks' = fiber_stacks /\ function_count' = function_count
    BY <1>5 DEF ResumeFiber
  <2>2. CallsInv' /\ Uncounted'
    BY <1>1, <2>1 DEF CallsInv, FibersBegin, NumbersUnique, DepthBounded, Uncounted
  <2> QED BY <1>1, <1>5, <2>1, <2>2, ResumedInv DEF StackInv, FramesSwitched
<1>6. ASSUME NEW f \in Fibers, DestroyFiber(f)
      PROVE  StackInv' /\ FramesSwitched
  <2>1. fiber_stacks' = fiber_stacks /\ function_count' = function_count
    BY <1>6 DEF DestroyFiber
  <2>2. CallStackInv' /\ CallsInv'
    BY <1>1, <1>6, DestroyedInv
  <2>3. Uncounted'
    BY <1>1, <2>1 DEF Uncounted
  <2> QED BY <2>1, <2>2, <2>3 DEF StackInv, FramesSwitched
<1> QED BY <1>2, <1>3, <1>4, <1>5, <1>6 DEF SwitchFiber

\* So does the beginning of a call.
LEMMA PushedStack ==
  ASSUME StackInv, NEW f \in Functions, AddStackFrame(f)
  PROVE  StackInv'
<1>1. CallStackInv /\ CallsInv /\ Uncounted /\ CallStackTypeOK
  BY DEF StackInv, CallStackInv
<1>2. CallStackInv' /\ CallsInv'
  BY <1>1, PushedInv, PushedCalls
<1>3. /\ DOMAIN fiber_stacks' = DOMAIN fiber_stacks /\ fiber' = fiber
      /\ \A g \in DOMAIN fiber_stacks \ {fiber} : fiber_stacks'[g] = fiber_stacks[g]
      /\ stack' \in Seq(Frame) /\ Len(stack') = Len(stack) + 1
      /\ \A i \in 1..Len(stack) : stack'[i] = stack[i]
      /\ stack'[Len(stack')] = [function |-> f, level |-> Len(stack'),
                                function_nr |-> function_count']
  BY <1>1, Pushed
<1>4. stack'[Len(stack')].function # FiberMain /\ Len(stack) \in Nat
  <2>1. stack'[Len(stack')].function = f
    BY <1>3
  <2>2. Len(stack) \in Nat
    BY <1>1, LenProperties DEF CallStackTypeOK, stack
  <2> QED BY <2>1, <2>2, CallStackAssumption
<1>5. Uncounted'
  <2> SUFFICES ASSUME NEW g \in DOMAIN fiber_stacks', NEW i \in 1..Len(fiber_stacks'[g]),
                      fiber_stacks'[g][i].function = FiberMain
               PROVE  fiber_stacks'[g][i].function_nr = 0
    BY DEF Uncounted
  <2>1. CASE g = fiber
    <3>1. i \in 1..Len(stack) /\ fiber_stacks'[g][i] = stack[i]
      BY <1>3, <1>4, <2>1 DEF stack
    <3> QED BY <1>1, <1>3, <2>1, <3>1 DEF Uncounted, stack
  <2>2. CASE g # fiber
    BY <1>1, <1>3, <2>2 DEF Uncounted
  <2> QED BY <2>1, <2>2
<1> QED BY <1>2, <1>5 DEF StackInv

\* And its end.
LEMMA PoppedStack ==
  ASSUME StackInv, PopFrame
  PROVE  StackInv'
<1>1. CallStackInv /\ CallsInv /\ Uncounted /\ CallStackTypeOK
  BY DEF StackInv, CallStackInv
<1>2. CallStackInv' /\ CallsInv'
  BY <1>1, PoppedInv, PoppedCalls
<1>3. /\ DOMAIN fiber_stacks' = DOMAIN fiber_stacks /\ fiber' = fiber
      /\ \A g \in DOMAIN fiber_stacks \ {fiber} : fiber_stacks'[g] = fiber_stacks[g]
      /\ Len(stack') = Len(stack) - 1 /\ Len(stack) \in Nat
      /\ \A i \in 1..Len(stack') : stack'[i] = stack[i]
  <2>1. Len(stack) \in Nat
    BY <1>1, LenProperties DEF CallStackTypeOK, stack
  <2> QED BY <2>1, <1>1, Popped
<1>4. Uncounted'
  <2> SUFFICES ASSUME NEW g \in DOMAIN fiber_stacks', NEW i \in 1..Len(fiber_stacks'[g])
               PROVE  /\ g \in DOMAIN fiber_stacks /\ i \in 1..Len(fiber_stacks[g])
                      /\ fiber_stacks'[g][i] = fiber_stacks[g][i]
    BY <1>1 DEF Uncounted
  <2>1. CASE g = fiber
    BY <1>3, <2>1 DEF stack
  <2>2. CASE g # fiber
    BY <1>3, <2>2
  <2> QED BY <2>1, <2>2
<1> QED BY <1>2, <1>4 DEF StackInv

\* What leaves the frames as they are.
LEMMA SameStack ==
  ASSUME StackInv, UNCHANGED callStackVars
  PROVE  StackInv'
<1>1. /\ fiber_stacks' = fiber_stacks /\ fiber' = fiber /\ resumer' = resumer
      /\ function_count' = function_count
  BY DEF callStackVars
<1>2. CallStackTypeOK' /\ ResumersLive' /\ Chain'
  BY <1>1 DEF StackInv, CallStackInv, CallStackTypeOK, ResumersLive, Chain
<1>3. LevelsAndNumbers' /\ MainHasNoFiberMain'
  BY <1>1 DEF StackInv, CallStackInv, LevelsAndNumbers, MainHasNoFiberMain
<1>4. CallsInv' /\ Uncounted'
  BY <1>1 DEF StackInv, CallsInv, FibersBegin, NumbersUnique, DepthBounded, Uncounted
<1> QED BY <1>2, <1>3, <1>4 DEF StackInv, CallStackInv

\* The steps that neither push, pop nor switch.
OtherStep ==
  \/ Work \/ StopProfiling
  \/ xdebug_start_trace \/ xdebug_stop_trace \/ xdebug_set_filter
  \/ xdebug_start_gcstats \/ xdebug_stop_gcstats \/ CollectBegins \/ CollectEnds
  \/ ScriptsEnd \/ RequestEnds \/ UNCHANGED vars

\* They leave the call stack alone.
LEMMA OtherSteps ==
  ASSUME OtherStep
  PROVE  UNCHANGED <<callStackVars, mode, fibers_seen>>
BY DEF OtherStep, Work, StopProfiling, xdebug_start_trace, xdebug_stop_trace, xdebug_set_filter,
       xdebug_start_gcstats, xdebug_stop_gcstats, CollectBegins, CollectEnds, ScriptsEnd,
       RequestEnds, vars, requestVars

\* Every step keeps the invariant of the call stack.
LEMMA StackStep ==
  ASSUME StackInv, [Next]_vars
  PROVE  StackInv'
<1>1. ASSUME NEW f \in Functions, Enter(f)
      PROVE  StackInv'
  BY <1>1, PushedStack DEF Enter
<1>2. CASE Leave
  BY <1>2, PoppedStack DEF Leave
<1>3. CASE SwitchFiber
  BY <1>3, SwitchedStack
<1>4. CASE OtherStep
  BY <1>4, OtherSteps, SameStack
<1> QED BY <1>1, <1>2, <1>3, <1>4 DEF Next, OtherStep

GcOn == [active |-> TRUE, file |-> TRUE, filename |-> TRUE]

\* Statistics that start have a report.
LEMMA GcIsOn ==
  /\ GcOn \in [active: BOOLEAN, file: BOOLEAN, filename: BOOLEAN]
  /\ GcOn.active /\ GcOn.file /\ GcOn.filename
BY DEF GcOn

\* Every step keeps the parts of the request apart, and the report of the
\* collector is open while it is on.
LEMMA RequestStep ==
  ASSUME RequestInv, [Next]_vars
  PROVE  RequestInv'
<1> USE DEF RequestInv, ReportIsOpen, requestVars, gcVars, profilerVars, costVars, traceVars, callStackVars
<1>1. ASSUME NEW f \in Functions, Enter(f)
      PROVE  RequestInv'
  <2>1. /\ mode' = mode /\ phase' = phase /\ now' = now /\ fibers_seen' = fibers_seen
        /\ DOMAIN fiber_stacks' = DOMAIN fiber_stacks
    BY <1>1 DEF Enter, AddStackFrame
  <2>2. CASE mode = "profile" /\ ProfileEnter
    BY <2>1, <2>2 DEF ProfileEnter
  <2>3. CASE mode = "trace" /\ TraceEnter(f)
    BY <2>1, <2>3 DEF TraceEnter
  <2>4. CASE mode = "gcstats" /\ GcEnter
    <3>1. /\ gc' = gc \/ (~gc.active /\ phase = "scripts" /\ gc' = GcOn)
          /\ collecting' = collecting /\ UNCHANGED <<profilerVars, traceVars>>
      BY <2>4 DEF GcEnter, GcInit, AtStart, GcOn
    <3>2. CASE gc' = gc
      BY <2>1, <3>1, <3>2
    <3>3. CASE phase = "scripts" /\ gc' = GcOn
      BY <2>1, <3>1, <3>3, GcIsOn
    <3> QED BY <3>1, <3>2, <3>3
  <2> QED BY <1>1, <2>2, <2>3, <2>4 DEF Enter
<1>2. CASE Leave
  <2>1. /\ mode' = mode /\ phase' = phase /\ now' = now /\ fibers_seen' = fibers_seen
        /\ DOMAIN fiber_stacks' = DOMAIN fiber_stacks
    BY <1>2 DEF Leave, PopFrame
  <2>2. CASE mode = "profile" /\ EndTop(now) /\ UNCHANGED <<traceVars, gcVars>>
    BY <2>1, <2>2
  <2>3. CASE mode = "trace" /\ CallEnds(now) /\ UNCHANGED <<left_out, profilerVars, gcVars>>
    BY <2>1, <2>3
  <2>4. CASE mode = "gcstats" /\ UNCHANGED <<profilerVars, traceVars, gcVars>>
    BY <2>1, <2>4
  <2> QED BY <1>2, <2>2, <2>3, <2>4 DEF Leave
<1>3. CASE Work
  BY <1>3, ObserversAssumption DEF Work
<1>4. CASE SwitchFiber
  BY <1>4 DEF SwitchFiber
<1>5. CASE StopProfiling
  BY <1>5 DEF StopProfiling
<1>6. CASE xdebug_start_trace
  BY <1>6 DEF xdebug_start_trace
<1>7. CASE xdebug_stop_trace
  BY <1>7 DEF xdebug_stop_trace, Stopped
<1>8. CASE xdebug_set_filter
  BY <1>8 DEF xdebug_set_filter
<1>9. CASE xdebug_start_gcstats
  <2>1. /\ gc' = gc \/ gc' = GcOn
        /\ phase # "done" /\ collecting' = collecting
        /\ UNCHANGED <<profilerVars, traceVars, callStackVars, requestVars, now>>
    BY <1>9 DEF xdebug_start_gcstats, GcInit, Going, GcOn
  <2>2. CASE gc' = gc
    BY <2>1, <2>2
  <2>3. CASE gc' = GcOn
    BY <2>1, <2>3, GcIsOn
  <2> QED BY <2>1, <2>2, <2>3
<1>10. CASE xdebug_stop_gcstats
  BY <1>10 DEF xdebug_stop_gcstats, GcStopped, Going
<1>11. CASE CollectBegins
  BY <1>11 DEF CollectBegins
<1>12. CASE CollectEnds
  BY <1>12 DEF CollectEnds
<1>13. CASE ScriptsEnd
  BY <1>13 DEF ScriptsEnd, Phases
<1>14. CASE RequestEnds
  <2>1. /\ mode' = mode /\ phase' = "done" /\ now' = now /\ fibers_seen' = fibers_seen
        /\ fiber_stacks' = fiber_stacks /\ collecting' = collecting /\ trace' = NoTrace
    BY <1>14 DEF RequestEnds, Stopped
  <2>2. gc' = [IF gc.active THEN GcStopped ELSE gc EXCEPT !.filename = FALSE]
    BY <1>14 DEF RequestEnds
  <2>3. /\ gc' \in [active: BOOLEAN, file: BOOLEAN, filename: BOOLEAN]
        /\ ~gc'.active /\ ~gc'.file /\ ~gc'.filename
    BY <2>2 DEF GcStopped
  <2>4. mode # "profile" => UNCHANGED profilerVars
    BY <1>14 DEF RequestEnds, Deinit
  <2> QED BY <2>1, <2>3, <2>4 DEF Phases
<1>15. CASE UNCHANGED vars
  BY <1>15 DEF vars
<1> QED BY <1>1, <1>2, <1>3, <1>4, <1>5, <1>6, <1>7, <1>8, <1>9, <1>10, <1>11, <1>12, <1>13,
           <1>14, <1>15 DEF Next
-----------------------------------------------------------------------------
(* The profiler.                                                              *)

\* What is known of the frames.
LEMMA Profiles ==
  ASSUME CallStackTypeOK, ProfilerTypeOK
  PROVE  /\ fiber \in DOMAIN profiles /\ MainFiber \in DOMAIN profiles
         /\ DOMAIN profiles = DOMAIN fiber_stacks
         /\ \A g \in DOMAIN profiles :
              /\ profiles[g] \in Seq(Profile) /\ Len(profiles[g]) \in Nat
              /\ Len(profiles[g]) = Len(fiber_stacks[g])
              /\ \A i \in 1..Len(profiles[g]) :
                   /\ profiles[g][i] \in Profile
                   /\ profiles[g][i].nanotime \in Int /\ profiles[g][i].nanotime_mark \in Nat
                   /\ profiles[g][i].called \in Int /\ profiles[g][i].named \in BOOLEAN
         /\ Now \in Ending
         /\ Now.written = written /\ Now.blocks = blocks
         /\ Now.profiles = profiles[fiber] /\ Now.spent = spent /\ Now.crashed = crashed
<1>1. /\ fiber \in DOMAIN profiles /\ MainFiber \in DOMAIN profiles
      /\ DOMAIN profiles = DOMAIN fiber_stacks
  BY DEF CallStackTypeOK, ProfilerTypeOK
<1>2. \A g \in DOMAIN profiles : /\ profiles[g] \in Seq(Profile) /\ Len(profiles[g]) \in Nat
                                 /\ Len(profiles[g]) = Len(fiber_stacks[g])
  BY LenProperties DEF ProfilerTypeOK
<1>3. ASSUME NEW g \in DOMAIN profiles, NEW i \in 1..Len(profiles[g])
      PROVE  /\ profiles[g][i] \in Profile
             /\ profiles[g][i].nanotime \in Int /\ profiles[g][i].nanotime_mark \in Nat
             /\ profiles[g][i].called \in Int /\ profiles[g][i].named \in BOOLEAN
  <2>1. profiles[g][i] \in Profile
    BY <1>2, ElementOfSeq
  <2> QED BY <2>1 DEF Profile
<1>4. /\ Now.profiles = profiles[fiber] /\ Now.spent = spent /\ Now.crashed = crashed
      /\ Now.written = written /\ Now.blocks = blocks
  BY DEF Now
<1>5. Now \in Ending
  BY <1>1, <1>2 DEF Now, Ending, ProfilerTypeOK
<1> QED BY <1>1, <1>2, <1>3, <1>4, <1>5

\* What the frames' measures are, one number at a time.
LEMMA Measures ==
  ASSUME CallStackTypeOK, ProfilerTypeOK, now \in Nat,
         NEW g \in DOMAIN profiles, Measured(g), NEW i \in 1..Len(profiles[g]),
         profiles[g][i].named
  PROVE  /\ profiles[g][i].nanotime = 0 /\ profiles[g][i].nanotime_mark <= now
         /\ Taken(profiles[g][i], now) = now - profiles[g][i].nanotime_mark
         /\ Until(g, i) \in Nat /\ Until(g, i) <= now
         /\ 0 <= profiles[g][i].called
         /\ profiles[g][i].called <= Until(g, i) - profiles[g][i].nanotime_mark
<1>1. /\ Len(profiles[g]) \in Nat
      /\ \A j \in 1..Len(profiles[g]) :
           /\ profiles[g][j].nanotime \in Int /\ profiles[g][j].nanotime_mark \in Nat
           /\ profiles[g][j].called \in Int /\ profiles[g][j].named \in BOOLEAN
  BY Profiles
<1>2. \A j \in 1..Len(profiles[g]) : profiles[g][j].named =>
        /\ profiles[g][j].nanotime = 0 /\ profiles[g][j].nanotime_mark <= now
        /\ profiles[g][j].called \in 0..(Until(g, j) - profiles[g][j].nanotime_mark)
  BY DEF Measured
<1>3. Until(g, i) \in Nat /\ Until(g, i) <= now
  <2>1. i < Len(profiles[g]) => i + 1 \in 1..Len(profiles[g])
    BY <1>1
  <2> QED BY <1>1, <1>2, <2>1 DEF Until
<1>4. Taken(profiles[g][i], now) = now - profiles[g][i].nanotime_mark
  BY <1>1, <1>2 DEF Taken
<1> QED BY <1>1, <1>2, <1>3, <1>4

\* What is known of the main fiber's vector, whose calls are the outermost.
LEMMA Outermost ==
  ASSUME CallStackTypeOK, ProfilerTypeOK, now \in Nat
  PROVE  /\ OutermostTaken \in Int /\ Begun \in Nat
         /\ CalledUpTo(profiles[MainFiber])[Len(profiles[MainFiber])] \in Int
<1>1. /\ Len(profiles[MainFiber]) \in Nat /\ profiles[MainFiber] \in Seq(Profile)
      /\ \A i \in 1..Len(profiles[MainFiber]) :
           /\ profiles[MainFiber][i].called \in Int
           /\ profiles[MainFiber][i].nanotime_mark \in Nat
  BY Profiles
<1>2. CalledUpTo(profiles[MainFiber])[Len(profiles[MainFiber])] \in Int
  BY <1>1, SumsAdd
<1>3. profiles[MainFiber] # <<>> => 1 \in 1..Len(profiles[MainFiber])
  BY <1>1, EmptySeq
<1> QED BY <1>1, <1>2, <1>3 DEF OutermostTaken, Begun, ProfilerTypeOK

\* What changes neither the profile nor the frames.
LEMMA SameProfile ==
  ASSUME ProfileInv, UNCHANGED <<profilerVars, fiber_stacks, mode, now, fibers_seen>>
  PROVE  ProfileInv'
<1>1. /\ profiles' = profiles /\ active' = active /\ spent' = spent /\ summary' = summary
      /\ start_nanotime' = start_nanotime /\ crashed' = crashed
      /\ fiber_stacks' = fiber_stacks /\ mode' = mode /\ now' = now /\ fibers_seen' = fibers_seen
      /\ written' = written /\ blocks' = blocks
  BY DEF profilerVars, costVars
<1>2. CASE mode = "profile"
  <2>1. ProfilerTypeOK'
    BY <1>1, <1>2 DEF ProfileInv, ProfilerTypeOK
  <2>2. MeasuredInv'
    BY <1>1, <1>2 DEF ProfileInv, MeasuredInv, Measured, Until
  <2>3. OutermostTaken' = OutermostTaken /\ Begun' = Begun
    BY <1>1 DEF OutermostTaken, Begun
  <2>4. SumInv'
    BY <1>1, <1>2, <2>3 DEF ProfileInv, SumInv
  <2>5. RoundedInv'
    BY <1>1, <1>2 DEF ProfileInv, RoundedInv
  <2> QED BY <2>1, <2>2, <2>4, <2>5 DEF ProfileInv
<1>3. CASE mode # "profile"
  BY <1>1, <1>3 DEF ProfileInv
<1> QED BY <1>2, <1>3

\* While the program works, what its calls may have cost grows.
LEMMA WorkProfile ==
  ASSUME StackInv, RequestInv, ProfileInv, Work
  PROVE  ProfileInv'
<1> SUFFICES ASSUME mode = "profile"
             PROVE  ProfilerTypeOK' /\ MeasuredInv' /\ SumInv' /\ RoundedInv'
  BY DEF ProfileInv, Work, requestVars
<1>1. /\ profiles' = profiles /\ active' = active /\ spent' = spent /\ summary' = summary
      /\ start_nanotime' = start_nanotime /\ crashed' = crashed
      /\ fiber_stacks' = fiber_stacks /\ now' = now + WorkTakes /\ fibers_seen' = fibers_seen
      /\ now \in Nat /\ WorkTakes \in Nat /\ written' = written /\ blocks' = blocks
  BY ObserversAssumption DEF Work, profilerVars, costVars, callStackVars, requestVars, RequestInv
<1>2. CallStackTypeOK /\ ProfilerTypeOK /\ MeasuredInv /\ SumInv /\ RoundedInv
  BY DEF StackInv, CallStackInv, ProfileInv
<1>7. RoundedInv'
  BY <1>1, <1>2 DEF RoundedInv
<1>3. ProfilerTypeOK'
  BY <1>1, <1>2 DEF ProfilerTypeOK
<1>4. ASSUME NEW g \in DOMAIN profiles, Measured(g)
      PROVE  Measured(g)'
  <2> SUFFICES ASSUME NEW i \in 1..Len(profiles[g]), profiles[g][i].named
               PROVE  /\ profiles[g][i].nanotime = 0 /\ profiles[g][i].nanotime_mark <= now + WorkTakes
                      /\ profiles[g][i].called \in 0..(Until(g, i)' - profiles[g][i].nanotime_mark)
    BY <1>1 DEF Measured
  <2>1. /\ profiles[g][i].nanotime = 0 /\ profiles[g][i].nanotime_mark <= now
        /\ Until(g, i) \in Nat /\ 0 <= profiles[g][i].called
        /\ profiles[g][i].called <= Until(g, i) - profiles[g][i].nanotime_mark
        /\ profiles[g][i].nanotime_mark \in Nat /\ profiles[g][i].called \in Int
    BY <1>1, <1>2, <1>4, Measures, Profiles
  <2>2. Until(g, i)' = Until(g, i) \/ (Until(g, i)' = now + WorkTakes /\ Until(g, i) = now)
    BY <1>1 DEF Until
  <2> QED BY <1>1, <2>1, <2>2
<1>5. MeasuredInv'
  BY <1>1, <1>2, <1>4 DEF MeasuredInv
<1>6. SumInv'
  <2>1. OutermostTaken' = OutermostTaken
    BY <1>1 DEF OutermostTaken
  <2>2. Begun' = Begun \/ (Begun' = now + WorkTakes /\ Begun = now)
    BY <1>1 DEF Begun
  <2>3. start_nanotime \in Nat
    BY <1>2 DEF ProfilerTypeOK
  <2>4. CASE fibers_seen
    BY <1>1, <2>4 DEF SumInv
  <2>5. CASE ~active
    BY <1>1, <1>2, <2>5 DEF SumInv
  <2>6. CASE ~fibers_seen /\ active
    <3>1. OutermostTaken <= Begun - start_nanotime
      BY <1>2, <2>6 DEF SumInv
    <3>2. OutermostTaken \in Int
      BY <1>1, <1>2, Outermost
    <3>3. OutermostTaken' <= Begun' - start_nanotime
      BY <1>1, <2>1, <2>2, <2>3, <3>1, <3>2
    <3> QED BY <1>1, <1>2, <2>6, <3>3 DEF SumInv
  <2> QED BY <2>4, <2>5, <2>6
<1> QED BY <1>3, <1>5, <1>6, <1>7

\* A fiber that starts has a frame that is not measured.
LEMMA SwitchProfile ==
  ASSUME StackInv, ProfileInv, SwitchFiber
  PROVE  ProfileInv'
<1> SUFFICES ASSUME mode = "profile"
             PROVE  ProfilerTypeOK' /\ MeasuredInv' /\ SumInv' /\ RoundedInv'
  BY DEF ProfileInv, SwitchFiber
<1>1. /\ active' = active /\ spent' = spent /\ summary' = summary
      /\ start_nanotime' = start_nanotime /\ crashed' = crashed /\ now' = now /\ fibers_seen' = TRUE
      /\ profiles' = [g \in DOMAIN fiber_stacks' |->
                        IF g \in DOMAIN profiles THEN profiles[g] ELSE <<Cleared>>]
      /\ written' = written /\ blocks' = blocks
  BY DEF SwitchFiber, FrameData, costVars
<1>2. CallStackTypeOK /\ ProfilerTypeOK /\ MeasuredInv /\ FramesSwitched /\ RoundedInv
  BY SwitchedStack DEF StackInv, CallStackInv, ProfileInv
<1>3. ASSUME NEW g \in DOMAIN fiber_stacks'
      PROVE  \/ /\ g \in DOMAIN profiles /\ profiles'[g] = profiles[g]
                /\ fiber_stacks'[g] = fiber_stacks[g]
             \/ /\ g # MainFiber /\ profiles'[g] = <<Cleared>> /\ Len(fiber_stacks'[g]) = 1
  <2>1. DOMAIN profiles = DOMAIN fiber_stacks /\ Len(NewStack) = 1
    BY <1>2 DEF ProfilerTypeOK, NewStack
  <2> QED BY <1>1, <1>2, <2>1 DEF FramesSwitched
<1>4. /\ <<Cleared>> \in Seq(Profile) /\ Len(<<Cleared>>) = 1 /\ ~<<Cleared>>[1].named
  BY DEF Cleared, Profile
<1>5. ProfilerTypeOK'
  <2>1. DOMAIN profiles' = DOMAIN fiber_stacks'
    BY <1>1
  <2>2. \A g \in DOMAIN profiles' : profiles'[g] \in Seq(Profile) /\ Len(profiles'[g]) = Len(fiber_stacks'[g])
    <3> DEFINE one == <<Cleared>>
    <3>1. one \in Seq(Profile) /\ Len(one) = 1
      BY <1>4
    <3>2. \A g \in DOMAIN fiber_stacks' :
            \/ g \in DOMAIN profiles /\ profiles'[g] = profiles[g] /\ fiber_stacks'[g] = fiber_stacks[g]
            \/ profiles'[g] = one /\ Len(fiber_stacks'[g]) = 1
      BY <1>3
    <3> HIDE DEF one
    <3> QED BY <1>2, <2>1, <3>1, <3>2 DEF ProfilerTypeOK
  <2> QED BY <1>1, <1>2, <2>1, <2>2 DEF ProfilerTypeOK
<1>6. MeasuredInv'
  <2> SUFFICES ASSUME ~crashed, NEW g \in DOMAIN profiles'
               PROVE  /\ (active \/ g # MainFiber) => Measured(g)'
                      /\ g # MainFiber => ~profiles'[g][1].named
    BY <1>1 DEF MeasuredInv
  <2>1. g \in DOMAIN fiber_stacks'
    BY <1>1
  <2>2. CASE g \in DOMAIN profiles /\ profiles'[g] = profiles[g]
    BY <1>1, <1>2, <2>2 DEF MeasuredInv, Measured, Until
  <2>3. CASE g # MainFiber /\ profiles'[g] = <<Cleared>>
    BY <1>4, <2>3 DEF Measured
  <2> QED BY <1>3, <2>1, <2>2, <2>3
<1>7. RoundedInv'
  <2> DEFINE one == <<Cleared>>
  <2>1. Len(one) = 1 /\ one[1].shown = 0 /\ one[1].called = 0 /\ one[1].calls = 0
    BY DEF Cleared
  <2>2. RoundedLines(one)
    <3> HIDE DEF one
    <3>1. \A i \in 1..Len(one) : i = 1
      BY <2>1
    <3> QED BY <2>1, <3>1 DEF RoundedLines, Rounded
  <2>3. \A g \in DOMAIN profiles' : profiles'[g] = one \/ (g \in DOMAIN profiles /\ profiles'[g] = profiles[g])
    BY <1>1
  <2> HIDE DEF one
  <2>4. \A g \in DOMAIN profiles' : RoundedLines(profiles'[g])
    BY <1>2, <2>2, <2>3 DEF RoundedInv
  <2> QED BY <1>1, <1>2, <2>4 DEF RoundedInv
<1> QED BY <1>1, <1>5, <1>6, <1>7 DEF SumInv

\* Ending the profile follows the frame a fiber starts with, which has no names,
\* unless the main fiber runs: then the self costs add up to what the outermost
\* calls took, those that run up to now.
LEMMA DeinitProfile ==
  ASSUME StackInv, RequestInv, ProfileInv, Deinit(now),
         UNCHANGED <<callStackVars, mode, now, fibers_seen>>
  PROVE  ProfileInv'
<1> SUFFICES ASSUME mode = "profile"
             PROVE  ProfileInv'
  BY DEF ProfileInv
<1>1. CASE ~active
  BY <1>1, SameProfile DEF Deinit, callStackVars
<1> SUFFICES ASSUME active
             PROVE  ProfilerTypeOK' /\ MeasuredInv' /\ SumInv' /\ RoundedInv'
  BY <1>1 DEF ProfileInv
<1> DEFINE e == AllEnded(now)
           s == profiles[fiber]
           n == Len(s)
<1>2. /\ fiber_stacks' = fiber_stacks /\ fiber' = fiber /\ now' = now /\ fibers_seen' = fibers_seen
      /\ now \in Nat
  BY ObserversAssumption DEF callStackVars, RequestInv
<1>3. /\ profiles' = [profiles EXCEPT ![fiber] = e.profiles]
      /\ spent' = e.spent /\ crashed' = e.crashed
      /\ written' = e.written /\ blocks' = e.blocks
      /\ summary' = Scaled(now - start_nanotime)
      /\ active' = FALSE /\ start_nanotime' = start_nanotime
  BY DEF Deinit, CostsOf
<1>4. CallStackTypeOK /\ ProfilerTypeOK /\ MeasuredInv /\ SumInv /\ CallsInv /\ RoundedInv
  BY DEF StackInv, CallStackInv, ProfileInv
<1>5. /\ fiber \in DOMAIN profiles /\ MainFiber \in DOMAIN profiles
      /\ DOMAIN profiles = DOMAIN fiber_stacks
      /\ s \in Seq(Profile) /\ n \in Nat /\ n = Len(fiber_stacks[fiber])
      /\ \A i \in 1..n : /\ s[i].nanotime_mark \in Nat /\ s[i].called \in Int /\ s[i].nanotime \in Int
      /\ Now \in Ending /\ Now.profiles = s
      /\ Now.written = written /\ Now.spent = spent /\ Now.blocks = blocks
  BY <1>4, Profiles
<1>6. /\ e \in Ending /\ Len(e.profiles) = n
      /\ e.crashed = (crashed \/ \E j \in 1..n : ~s[j].named)
      /\ e.spent = (spent - CalledUpTo(s)[n]) + IF n = 0 THEN 0 ELSE Taken(s[1], now)
      /\ RoundedIn(Now) => RoundedIn(e)
  BY <1>2, <1>5, EndOfAllCalls DEF AllCallsEnded
<1>7. /\ e.profiles \in Seq(Profile) /\ e.spent \in Int /\ e.crashed \in BOOLEAN
      /\ e.written \in Int /\ e.blocks \in Nat
  <2> HIDE DEF e
  <2> QED BY <1>6 DEF Ending
<1> HIDE DEF e, s, n
<1>8. ProfilerTypeOK'
  <2>1. DOMAIN profiles' = DOMAIN fiber_stacks' /\ profiles'[fiber] = e.profiles
        /\ \A g \in DOMAIN profiles \ {fiber} : profiles'[g] = profiles[g]
    BY <1>2, <1>3, <1>5
  <2>2. summary' \in Int
    <3>1. now - start_nanotime \in Int
      BY <1>2, <1>4 DEF ProfilerTypeOK
    <3> QED BY <1>3, <3>1, OneMoreRounded
  <2> QED BY <1>2, <1>3, <1>4, <1>5, <1>6, <1>7, <2>1, <2>2 DEF ProfilerTypeOK
<1>11. RoundedInv'
  <2>1. RoundedIn(Now)
    BY <1>4, <1>5 DEF RoundedInv, RoundedIn, s
  <2>2. RoundedIn(e)
    BY <1>6, <2>1
  <2> QED BY <1>3, <1>4, <1>5, <2>2 DEF RoundedInv, RoundedIn
<1>9. CASE fiber # MainFiber
  <2>1. n > 0
    BY <1>4, <1>5, <1>9 DEF CallsInv, FibersBegin
  <2>2. crashed \/ ~s[1].named
    BY <1>4, <1>5, <1>9 DEF MeasuredInv, s
  <2>3. crashed'
    <3>1. 1 \in 1..n
      BY <1>5, <2>1
    <3> QED BY <1>3, <1>6, <2>2, <3>1, Zenon
  <2>4. fibers_seen
    BY <1>4, <1>5, <1>9 DEF RequestInv
  <2> QED BY <1>2, <1>8, <1>11, <2>3, <2>4 DEF MeasuredInv, SumInv
<1>10. CASE fiber = MainFiber
  <2>1. MeasuredInv'
    <3> SUFFICES ASSUME ~crashed', NEW g \in DOMAIN profiles', g # MainFiber
                 PROVE  Measured(g)' /\ ~profiles'[g][1].named
      BY <1>3 DEF MeasuredInv
    <3>1. ~crashed
      BY <1>3, <1>6
    <3>2. g \in DOMAIN profiles /\ profiles'[g] = profiles[g]
      BY <1>3, <1>10
    <3>3. Measured(g) /\ ~profiles[g][1].named
      BY <1>4, <3>1, <3>2 DEF MeasuredInv
    <3> QED BY <1>2, <3>2, <3>3 DEF Measured, Until
  <2>2. ASSUME ~fibers_seen
        PROVE  ~crashed' /\ spent' >= 0 /\ spent' <= 10 * summary' + 4
    <3>1. /\ ~crashed /\ spent >= 0 /\ \A i \in 1..n : s[i].named
          /\ OutermostTaken <= Begun - start_nanotime
      BY <1>4, <1>10, <2>2 DEF SumInv, n, s
    <3>2. Measured(MainFiber)
      BY <1>4, <1>5, <3>1 DEF MeasuredInv
    <3>3. ~crashed'
      BY <1>3, <1>6, <3>1
    <3>4. /\ CalledUpTo(s)[n] \in Int /\ OutermostTaken = spent - CalledUpTo(s)[n]
          /\ Begun \in Nat /\ spent \in Int /\ start_nanotime \in Nat
      BY <1>2, <1>4, <1>10, Outermost DEF s, n, OutermostTaken, ProfilerTypeOK
    <3>7. /\ now - start_nanotime \in Int /\ (now - start_nanotime) - 4 <= 10 * summary'
          /\ summary' \in Int
      <4>1. now - start_nanotime \in Int
        BY <1>2, <3>4
      <4> QED BY <1>3, <4>1, OneMoreRounded
    <3>5. CASE n = 0
      <4>1. s = <<>>
        BY <1>5, <3>5, EmptySeq DEF n
      <4>2. Begun = now
        BY <1>10, <4>1 DEF Begun, s
      <4>3. CalledUpTo(s)[n] = 0
        BY <1>5, <3>5, SumsAdd DEF n
      <4>4. spent' = spent
        BY <1>3, <1>6, <3>4, <3>5, <4>3
      <4>5. spent - 0 = spent /\ spent <= now - start_nanotime
        <5> HIDE DEF s
        <5> QED BY <1>2, <3>1, <3>4, <4>2, <4>3
      <4>6. spent <= 10 * summary' + 4
        <5> DEFINE el == now - start_nanotime
                   su == summary'
        <5>1. el \in Int /\ su \in Int /\ el - 4 <= 10 * su /\ spent <= el /\ spent \in Int
          BY <3>4, <3>7, <4>5
        <5> HIDE DEF el, su
        <5>2. spent <= 10 * su + 4
          BY <5>1
        <5> QED BY <5>2 DEF su
      <4> QED BY <3>1, <3>3, <4>4, <4>6
    <3>6. CASE n # 0
      <4>1. 1 \in 1..n
        BY <1>5, <3>6
      <4>2. Taken(s[1], now) = now - s[1].nanotime_mark
        BY <1>2, <1>4, <1>5, <1>10, <3>1, <3>2, <4>1, Measures DEF s, n
      <4>3. Begun = s[1].nanotime_mark
        <5>1. s # <<>>
          BY <1>5, <3>6, EmptySeq DEF n
        <5> QED BY <1>10, <5>1 DEF Begun, s
      <4>4. \A i \in 1..n :
              s[i].called <= (IF i < n THEN s[i + 1].nanotime_mark ELSE now) - s[i].nanotime_mark
        <5> SUFFICES ASSUME NEW i \in 1..n
                     PROVE  s[i].called <= (IF i < n THEN s[i + 1].nanotime_mark ELSE now)
                                             - s[i].nanotime_mark
          OBVIOUS
        <5>1. s[i].called <= Until(MainFiber, i) - s[i].nanotime_mark
          BY <1>2, <1>4, <1>5, <1>10, <3>1, <3>2, Measures DEF s, n
        <5>2. i < n => s[i + 1].named
          <6>1. i < n => i + 1 \in 1..n
            BY <1>5
          <6> QED BY <3>1, <6>1
        <5>3. Until(MainFiber, i) = IF i < n THEN s[i + 1].nanotime_mark ELSE now
          BY <1>10, <5>2 DEF Until, s, n
        <5> QED BY <5>1, <5>3
      <4>5. CalledUpTo(s)[n] <= now - s[1].nanotime_mark
        <5>1. Len(s) > 0
          BY <1>5, <3>6 DEF n
        <5> QED BY <1>2, <1>5, <4>4, <5>1, SumsBounded DEF n
      <4>6. spent' = (spent - CalledUpTo(s)[n]) + (now - s[1].nanotime_mark)
        BY <1>3, <1>6, <3>6, <4>2
      <4> DEFINE c == CalledUpTo(s)[n]
                 m == s[1].nanotime_mark
      <4>7. c \in Int /\ m \in Int /\ spent - c <= m - start_nanotime /\ c <= now - m
            /\ spent' = (spent - c) + (now - m)
        BY <1>5, <3>1, <3>4, <4>1, <4>3, <4>5, <4>6
      <4> HIDE DEF c, m
      <4>8. spent' >= 0 /\ spent' <= now - start_nanotime
        BY <1>2, <3>1, <3>4, <4>7
      <4>9. spent' \in Int
        BY <1>3, <1>7
      <4>10. spent' <= 10 * summary' + 4
        <5> DEFINE el == now - start_nanotime
                   su == summary'
                   sp == spent'
        <5>1. el \in Int /\ su \in Int /\ el - 4 <= 10 * su /\ sp <= el /\ sp \in Int
          BY <3>7, <4>8, <4>9
        <5> HIDE DEF el, su, sp
        <5>2. sp <= 10 * su + 4
          BY <5>1
        <5> QED BY <5>2 DEF su, sp
      <4> QED BY <3>3, <4>8, <4>10
    <3> QED BY <3>5, <3>6
  <2> QED BY <1>2, <1>3, <1>8, <1>11, <2>1, <2>2 DEF SumInv
<1> QED BY <1>9, <1>10

\* A call that begins is measured from now on, if the profile is on or starts
\* with it; it has cost nothing yet.
LEMMA EnterProfile ==
  ASSUME StackInv, RequestInv, ProfileInv, mode = "profile", ~crashed,
         NEW f \in Functions, AddStackFrame(f), ProfileEnter,
         UNCHANGED <<mode, now, fibers_seen>>
  PROVE  ProfileInv'
<1> DEFINE s == profiles[fiber]
           n == Len(s)
           c == IF active' THEN [Cleared EXCEPT !.nanotime_mark = now, !.named = TRUE] ELSE Cleared
<1>1. /\ CallStackTypeOK /\ ProfilerTypeOK /\ MeasuredInv /\ SumInv /\ CallsInv /\ CallsInv'
      /\ CallStackTypeOK' /\ RoundedInv
  BY PushedStack DEF StackInv, CallStackInv, ProfileInv
<1>2. /\ now' = now /\ fibers_seen' = fibers_seen /\ fiber' = fiber /\ crashed' = crashed
      /\ now \in Nat
  BY ObserversAssumption DEF RequestInv, ProfileEnter, AddStackFrame
<1>3. /\ fiber \in DOMAIN profiles /\ MainFiber \in DOMAIN profiles
      /\ DOMAIN profiles = DOMAIN fiber_stacks
      /\ s \in Seq(Profile) /\ n \in Nat /\ n = Len(stack)
      /\ \A i \in 1..n : s[i] \in Profile /\ s[i].called \in Int
  BY <1>1, Profiles DEF stack
<1>4. /\ c \in Profile /\ c.nanotime = 0 /\ c.called = 0 /\ (c.named <=> active')
      /\ c.calls = 0 /\ c.shown = 0
      /\ active' => c.nanotime_mark = now
      /\ active' \in BOOLEAN
  <2>1. active' \in BOOLEAN
    BY <1>1 DEF ProfileEnter, ProfilerInitIfRequested, ProfilerTypeOK
  <2>2. CASE active'
    <3>1. c = [nanotime |-> 0, nanotime_mark |-> now, called |-> 0, calls |-> 0, shown |-> 0,
               named |-> TRUE]
      BY <2>2 DEF Cleared
    <3> HIDE DEF c
    <3> QED BY <1>2, <2>2, <3>1 DEF Profile
  <2>3. CASE ~active'
    <3>1. c = [nanotime |-> 0, nanotime_mark |-> 0, called |-> 0, calls |-> 0, shown |-> 0,
               named |-> FALSE]
      BY <2>3 DEF Cleared
    <3> HIDE DEF c
    <3> QED BY <2>1, <2>3, <3>1 DEF Profile
  <2> QED BY <2>1, <2>2, <2>3
<1>5. profiles' = [profiles EXCEPT ![fiber] = Append(s, c)]
  BY DEF ProfileEnter, FunctionBegin
<1>6. \/ UNCHANGED <<start_nanotime, written, blocks, spent, summary>> /\ (active' <=> active)
      \/ /\ stack = <<>> /\ ~active /\ active' = TRUE
         /\ start_nanotime' = now /\ written' = 0 /\ blocks' = 0 /\ spent' = 0 /\ summary' = -1
  BY DEF ProfileEnter, ProfilerInitIfRequested, AtStart, costVars
<1> HIDE DEF s, n, c
<1>7. /\ DOMAIN profiles' = DOMAIN profiles
      /\ \A g \in DOMAIN profiles \ {fiber} : profiles'[g] = profiles[g]
      /\ profiles'[fiber] \in Seq(Profile) /\ Len(profiles'[fiber]) = n + 1
      /\ \A i \in 1..n : profiles'[fiber][i] = s[i]
      /\ profiles'[fiber][n + 1] = c
  <2>1. profiles'[fiber] = Append(s, c)
    BY <1>3, <1>5
  <2>2. /\ Append(s, c) \in Seq(Profile) /\ Len(Append(s, c)) = n + 1
        /\ \A i \in 1..n : Append(s, c)[i] = s[i]
        /\ Append(s, c)[n + 1] = c
    BY <1>3, <1>4, AppendProperties DEF n
  <2> QED BY <1>5, <2>1, <2>2
<1>8. /\ DOMAIN fiber_stacks' = DOMAIN fiber_stacks
      /\ \A g \in DOMAIN fiber_stacks \ {fiber} : fiber_stacks'[g] = fiber_stacks[g]
      /\ Len(fiber_stacks'[fiber]) = n + 1
  BY <1>1, <1>2, <1>3, Pushed DEF stack
<1>9. stack = <<>> => fiber = MainFiber /\ profiles[MainFiber] = <<>> /\ n = 0
  <2> SUFFICES ASSUME stack = <<>>
               PROVE  fiber = MainFiber /\ s = <<>> /\ n = 0
    BY DEF s
  <2>1. n = 0
    BY <1>3
  <2>2. fiber = MainFiber
    BY <1>1, <1>3, <2>1 DEF CallsInv, FibersBegin, stack
  <2> QED BY <1>3, <2>1, <2>2, EmptySeq DEF n
<1>10. ProfilerTypeOK'
  <2>1. \A g \in DOMAIN profiles' : profiles'[g] \in Seq(Profile) /\ Len(profiles'[g]) = Len(fiber_stacks'[g])
    BY <1>1, <1>3, <1>7, <1>8 DEF ProfilerTypeOK
  <2>2. /\ start_nanotime' \in Nat /\ spent' \in Int /\ summary' \in Int /\ crashed' \in BOOLEAN
        /\ written' \in Int /\ blocks' \in Nat
    BY <1>1, <1>2, <1>6 DEF ProfilerTypeOK
  <2> QED BY <1>3, <1>4, <1>7, <1>8, <2>1, <2>2 DEF ProfilerTypeOK
<1>11. MeasuredInv'
  <2> SUFFICES ASSUME NEW g \in DOMAIN profiles
               PROVE  /\ (active' \/ g # MainFiber) => Measured(g)'
                      /\ g # MainFiber => ~profiles'[g][1].named
    BY <1>7 DEF MeasuredInv
  <2>1. CASE g # fiber
    <3>1. profiles'[g] = profiles[g]
      BY <1>7, <2>1
    <3>2. active' \/ g # MainFiber => active \/ g # MainFiber
      BY <1>6, <1>9, <2>1
    <3>3. Measured(g) => Measured(g)'
      BY <1>2, <3>1 DEF Measured, Until
    <3> QED BY <1>1, <3>1, <3>2, <3>3 DEF MeasuredInv
  <2>2. CASE g = fiber
    <3>1. g # MainFiber => ~profiles'[g][1].named
      <4> SUFFICES ASSUME g # MainFiber
                   PROVE  ~profiles'[g][1].named
        OBVIOUS
      <4>1. 1 \in 1..n
        BY <1>1, <1>3, <2>2 DEF CallsInv, FibersBegin, stack
      <4>2. ~s[1].named
        BY <1>1, <1>3, <2>2 DEF MeasuredInv, s
      <4> QED BY <1>7, <2>2, <4>1, <4>2
    <3>2. ASSUME active' \/ g # MainFiber
          PROVE  Measured(g)'
      <4> SUFFICES ASSUME NEW i \in 1..(n + 1), profiles'[fiber][i].named
                   PROVE  /\ profiles'[fiber][i].nanotime = 0
                          /\ profiles'[fiber][i].nanotime_mark <= now
                          /\ profiles'[fiber][i].called \in 0..(Until(g, i)' - profiles'[fiber][i].nanotime_mark)
        BY <1>2, <1>7, <2>2 DEF Measured
      <4>1. CASE i = n + 1
        <5>1. Until(g, i)' = now
          BY <1>2, <1>3, <1>7, <2>2, <4>1 DEF Until
        <5>2. profiles'[fiber][i] = c
          BY <1>7, <4>1
        <5>3. c.nanotime = 0 /\ c.nanotime_mark = now /\ c.called = 0
          BY <1>4, <5>2
        <5> QED BY <1>2, <5>1, <5>2, <5>3
      <4>2. CASE i # n + 1
        <5>1. i \in 1..n /\ profiles'[fiber][i] = s[i]
          BY <1>3, <1>7, <4>2
        <5>2. Measured(g)
          <6>1. active \/ g # MainFiber
            BY <1>3, <1>6, <1>9, <2>2, <3>2, <5>1
          <6> QED BY <1>1, <1>3, <6>1 DEF MeasuredInv
        <5>3. Until(g, i)' = Until(g, i)
          <6>1. CASE i < n
            <7>1. i + 1 \in 1..n /\ i + 1 <= n + 1
              BY <1>3, <6>1
            <7>2. profiles'[fiber][i + 1] = s[i + 1] /\ i < n + 1
              BY <1>3, <1>7, <7>1, <6>1
            <7> QED BY <1>2, <1>7, <2>2, <6>1, <7>2 DEF Until, s, n
          <6>2. CASE i = n
            <7>1. Until(g, i) = now
              BY <2>2, <6>2 DEF Until, s, n
            <7>2. profiles'[fiber][i + 1] = c /\ i < Len(profiles'[fiber])
              BY <1>3, <1>7, <6>2
            <7>3. c.named => c.nanotime_mark = now
              BY <1>4
            <7>4. Until(g, i)' = IF c.named THEN c.nanotime_mark ELSE now
              BY <1>2, <2>2, <7>2 DEF Until
            <7> QED BY <7>1, <7>3, <7>4
          <6> QED BY <1>3, <5>1, <6>1, <6>2
        <5>4. /\ s[i].nanotime = 0 /\ s[i].nanotime_mark <= now
              /\ s[i].called \in 0..(Until(g, i) - s[i].nanotime_mark)
          BY <2>2, <5>1, <5>2 DEF Measured, s, n
        <5> QED BY <5>1, <5>3, <5>4
      <4> QED BY <4>1, <4>2
    <3> QED BY <2>2, <3>1, <3>2
  <2> QED BY <2>1, <2>2
<1>12. SumInv'
  <2> SUFFICES ASSUME ~fibers_seen
               PROVE  /\ spent' >= 0
                      /\ active' => /\ \A i \in 1..Len(profiles'[MainFiber]) : profiles'[MainFiber][i].named
                                    /\ summary' = -1 /\ OutermostTaken' <= Begun' - start_nanotime'
                      /\ summary' >= 0 => spent' <= 10 * summary' + 4
    BY <1>2 DEF SumInv
  <2>1. fiber = MainFiber
    BY <1>3 DEF RequestInv
  <2>2. /\ spent >= 0 /\ (summary >= 0 => spent <= 10 * summary + 4)
        /\ active => /\ \A i \in 1..n : s[i].named
                     /\ summary = -1 /\ OutermostTaken <= Begun - start_nanotime
    BY <1>1, <2>1 DEF SumInv, s, n
  <2>3. CASE ~active'
    BY <1>6, <2>2, <2>3
  <2>4. CASE active'
    <3>1. \A i \in 1..Len(profiles'[MainFiber]) : profiles'[MainFiber][i].named
      <4> SUFFICES ASSUME NEW i \in 1..(n + 1)
                   PROVE  profiles'[fiber][i].named
        BY <1>7, <2>1
      <4>1. CASE i = n + 1
        BY <1>4, <1>7, <2>4, <4>1
      <4>2. CASE i \in 1..n
        <5>1. active
          BY <1>3, <1>6, <1>9, <2>4, <4>2
        <5> QED BY <1>7, <2>2, <4>2, <5>1
      <4> QED BY <1>3, <4>1, <4>2
    <3>2. CalledUpTo(profiles'[MainFiber])[n + 1] = CalledUpTo(s)[n] /\ CalledUpTo(s)[n] \in Int
      <4> DEFINE r == profiles'[MainFiber]
      <4>1. /\ Len(r) = n + 1 /\ r[n + 1].called = 0
            /\ \A i \in 1..n : r[i] = s[i]
        BY <1>4, <1>7, <2>1
      <4> HIDE DEF r
      <4>2. \A i \in 1..Len(r) : r[i].called \in Int
        <5> SUFFICES ASSUME NEW i \in 1..(n + 1)
                     PROVE  r[i].called \in Int
          BY <4>1
        <5>1. i = n + 1 \/ i \in 1..n
          BY <1>3
        <5> QED BY <1>3, <4>1, <5>1
      <4>3. CalledUpTo(r)[n] = CalledUpTo(s)[n]
        <5>1. Len(s) \in Nat /\ Len(r) \in Nat /\ n \in Nat /\ n <= Len(s) /\ n <= Len(r)
          BY <1>3, <4>1 DEF n
        <5>2. \A i \in 1..Len(s) : s[i].called \in Int
          BY <1>3 DEF n
        <5>3. \A i \in 1..n : s[i].called = r[i].called
          BY <1>3, <4>1
        <5>4. CalledUpTo(s)[n] = CalledUpTo(r)[n]
          BY <4>2, <5>1, <5>2, <5>3, SumsAgree, Zenon
        <5> QED BY <5>4, Zenon
      <4>4. CalledUpTo(r)[n + 1] = CalledUpTo(r)[n] + r[n + 1].called
        <5>1. n + 1 \in 1..Len(r) /\ (n + 1) - 1 = n /\ Len(r) \in Nat
          BY <1>3, <4>1
        <5>2. \A i \in 1..Len(r) : CalledUpTo(r)[i] = CalledUpTo(r)[i - 1] + r[i].called
          BY <4>2, <5>1, SumsAdd
        <5> QED BY <5>1, <5>2
      <4>5. CalledUpTo(s)[n] \in Int
        BY <1>1, <1>2, <2>1, Outermost DEF s, n
      <4> QED BY <4>1, <4>3, <4>4, <4>5 DEF r
    <3>3. OutermostTaken' = spent' - CalledUpTo(s)[n]
      BY <1>7, <2>1, <3>2 DEF OutermostTaken
    <3>4. OutermostTaken = spent - CalledUpTo(s)[n]
      BY <2>1 DEF OutermostTaken, s, n
    <3>5. Begun' = IF n = 0 THEN now ELSE s[1].nanotime_mark
      <4>1. profiles'[MainFiber] # <<>>
        BY <1>3, <1>7, <2>1, EmptySeq
      <4>2. Begun' = profiles'[MainFiber][1].nanotime_mark
        BY <4>1 DEF Begun
      <4>3. CASE n = 0
        BY <1>4, <1>7, <2>1, <2>4, <4>2, <4>3
      <4>4. CASE n # 0
        <5>1. 1 \in 1..n
          BY <1>3, <4>4
        <5> QED BY <1>7, <2>1, <4>2, <4>4, <5>1
      <4> QED BY <4>3, <4>4
    <3>6. Begun = IF n = 0 THEN now ELSE s[1].nanotime_mark
      <4>1. n = 0 <=> s = <<>>
        BY <1>3, EmptySeq DEF n
      <4> QED BY <2>1, <4>1 DEF Begun, s
    <3>7. CASE UNCHANGED <<start_nanotime, written, blocks, spent, summary>> /\ (active' <=> active)
      BY <2>2, <2>4, <3>1, <3>3, <3>4, <3>5, <3>6, <3>7
    <3>8. CASE stack = <<>> /\ start_nanotime' = now /\ spent' = 0 /\ summary' = -1
      <4>1. n = 0 /\ CalledUpTo(s)[n] = 0
        BY <1>3, <1>9, <3>8, SumsAdd DEF n
      <4>2. OutermostTaken' = 0 /\ Begun' = now
        BY <3>3, <3>5, <3>8, <4>1
      <4> QED BY <1>2, <3>1, <3>8, <4>2
    <3> QED BY <1>6, <3>7, <3>8
  <2> QED BY <1>4, <2>3, <2>4
<1>13. RoundedInv'
  <2>1. RoundedLines(profiles'[fiber])
    <3> SUFFICES ASSUME NEW i \in 1..(n + 1)
                 PROVE  Rounded(profiles'[fiber][i].shown, profiles'[fiber][i].called,
                                profiles'[fiber][i].calls)
      BY <1>7 DEF RoundedLines
    <3>1. CASE i = n + 1
      BY <1>4, <1>7, <3>1 DEF Rounded
    <3>2. CASE i # n + 1
      <4>1. i \in 1..n
        BY <1>3, <3>2
      <4>2. Rounded(s[i].shown, s[i].called, s[i].calls)
        BY <1>1, <1>3, <4>1 DEF RoundedInv, RoundedLines, s, n
      <4> QED BY <1>7, <4>1, <4>2
    <3> QED BY <3>1, <3>2
  <2>2. Rounded(written', spent', blocks')
    BY <1>1, <1>6 DEF RoundedInv, Rounded
  <2> QED BY <1>1, <1>7, <2>1, <2>2 DEF RoundedInv
<1> QED BY <1>10, <1>11, <1>12, <1>13 DEF ProfileInv

\* A call that ends, if the profile is on, is charged to the call below it, which
\* was charged up to when this one began; without names it is followed.
LEMMA LeaveProfile ==
  ASSUME StackInv, RequestInv, ProfileInv, mode = "profile", ~crashed,
         PopFrame, EndTop(now), UNCHANGED <<mode, now, fibers_seen>>
  PROVE  ProfileInv'
<1> DEFINE s == profiles[fiber]
           n == Len(s)
           p == s[n]
           e == IF active THEN FunctionEnd(Now, n, now) ELSE Now
           r == e.profiles
           cost == Taken(p, now)
<1>1. /\ CallStackTypeOK /\ ProfilerTypeOK /\ MeasuredInv /\ SumInv /\ CallsInv /\ CallsInv'
      /\ RoundedInv
  BY PoppedStack DEF StackInv, CallStackInv, ProfileInv
<1>2. /\ now' = now /\ fibers_seen' = fibers_seen /\ fiber' = fiber /\ now \in Nat
  BY ObserversAssumption DEF RequestInv, PopFrame
<1>3. /\ fiber \in DOMAIN profiles /\ MainFiber \in DOMAIN profiles
      /\ DOMAIN profiles = DOMAIN fiber_stacks
      /\ s \in Seq(Profile) /\ n \in Nat /\ n = Len(stack)
      /\ \A i \in 1..n : /\ s[i] \in Profile /\ s[i].called \in Int /\ s[i].nanotime_mark \in Nat
                         /\ s[i].nanotime \in Int /\ s[i].named \in BOOLEAN
      /\ Now \in Ending /\ Now.profiles = s /\ Now.spent = spent /\ Now.crashed = crashed
      /\ Now.written = written /\ Now.blocks = blocks
  BY <1>1, Profiles DEF stack
<1>4. n \in 1..n
  BY <1>3 DEF PopFrame, MayLeave
<1>5. /\ profiles' = [profiles EXCEPT ![fiber] = SubSeq(r, 1, n - 1)]
      /\ spent' = e.spent /\ crashed' = e.crashed
      /\ written' = e.written /\ blocks' = e.blocks
      /\ active' = active /\ start_nanotime' = start_nanotime /\ summary' = summary
      /\ active' <=> active
  BY DEF EndTop, CostsOf
<1>6. /\ e \in Ending /\ Len(r) = n /\ cost \in Int
      /\ \A i \in 1..(n - 1) :
           /\ r[i].named = s[i].named /\ r[i].nanotime = s[i].nanotime
           /\ r[i].nanotime_mark = s[i].nanotime_mark
           /\ r[i].called = s[i].called + IF active /\ i = n - 1 THEN cost ELSE 0
      /\ spent' = IF active THEN spent + (cost - p.called) ELSE spent
      /\ crashed' <=> active /\ ~p.named
      /\ RoundedIn(Now) => RoundedIn(e)
  <2>1. CallEnded(Now, n, now)
    BY <1>2, <1>3, <1>4, EndOfCall
  <2> HIDE DEF n, s
  <2>2. cost \in Int
    BY <1>3, <2>1 DEF CallEnded, n
  <2>3. CASE ~active
    <3>1. e = Now
      BY <2>3
    <3>2. \A i \in 1..(n - 1) : s[i].called + 0 = s[i].called
      BY <1>3
    <3> HIDE DEF e, cost
    <3> QED BY <1>3, <1>5, <2>2, <2>3, <3>1, <3>2 DEF n
  <2>4. CASE active
    <3>1. e = FunctionEnd(Now, n, now)
      BY <2>4
    <3> HIDE DEF e
    <3>2. /\ e \in Ending /\ Len(e.profiles) = n
          /\ e.spent = spent + (cost - p.called)
          /\ e.crashed = (crashed \/ ~p.named)
          /\ \A j \in 1..n :
               /\ e.profiles[j].named = s[j].named
               /\ j # n => /\ e.profiles[j].nanotime = s[j].nanotime
                           /\ e.profiles[j].nanotime_mark = s[j].nanotime_mark
               /\ e.profiles[j].called = IF j = n - 1 THEN s[j].called + cost ELSE s[j].called
          /\ RoundedIn(Now) => RoundedIn(e)
      BY <1>3, <2>1, <3>1 DEF CallEnded, n
    <3> HIDE DEF cost, p
    <3>3. \A i \in 1..(n - 1) : i \in 1..n /\ i # n /\ s[i].called + 0 = s[i].called
      BY <1>3
    <3>4. \A i \in 1..(n - 1) :
            /\ r[i].named = s[i].named /\ r[i].nanotime = s[i].nanotime
            /\ r[i].nanotime_mark = s[i].nanotime_mark
            /\ r[i].called = s[i].called + IF active /\ i = n - 1 THEN cost ELSE 0
      BY <2>4, <3>2, <3>3
    <3>5. crashed' <=> ~p.named
      BY <1>5, <3>2
    <3> QED BY <1>5, <2>2, <2>4, <3>2, <3>4, <3>5
  <2> QED BY <2>3, <2>4
<1>7. /\ r \in Seq(Profile) /\ spent' \in Int /\ crashed' \in BOOLEAN
      /\ written' \in Int /\ blocks' \in Nat
  <2> HIDE DEF e
  <2> QED BY <1>5, <1>6 DEF Ending
<1>14. RoundedLines(r) /\ Rounded(written', spent', blocks')
  <2>1. RoundedIn(Now)
    BY <1>1, <1>3 DEF RoundedInv, RoundedIn
  <2> HIDE DEF e
  <2> QED BY <1>5, <1>6, <2>1 DEF RoundedIn
<1> HIDE DEF s, n, p, e, r, cost
<1>8. /\ DOMAIN profiles' = DOMAIN profiles
      /\ \A g \in DOMAIN profiles \ {fiber} : profiles'[g] = profiles[g]
      /\ profiles'[fiber] \in Seq(Profile) /\ Len(profiles'[fiber]) = n - 1
      /\ \A i \in 1..(n - 1) : profiles'[fiber][i] = r[i]
  <2>1. profiles'[fiber] = SubSeq(r, 1, n - 1)
    BY <1>3, <1>5
  <2>2. \A i \in 1..(n - 1) : r[i] \in Profile
    BY <1>3, <1>6, <1>7, ElementOfSeq
  <2>3. /\ SubSeq(r, 1, n - 1) \in Seq(Profile)
        /\ Len(SubSeq(r, 1, n - 1)) = IF 1 <= n - 1 THEN n - 1 - 1 + 1 ELSE 0
        /\ \A i \in 1..(n - 1 - 1 + 1) : SubSeq(r, 1, n - 1)[i] = r[1 + i - 1]
    BY <1>3, <2>2, SubSeqProperties
  <2> QED BY <1>3, <1>4, <1>5, <2>1, <2>3
<1>9. /\ DOMAIN fiber_stacks' = DOMAIN fiber_stacks
      /\ \A g \in DOMAIN fiber_stacks \ {fiber} : fiber_stacks'[g] = fiber_stacks[g]
      /\ Len(fiber_stacks'[fiber]) = n - 1
  BY <1>1, <1>2, <1>3, Popped DEF stack
<1>10. ProfilerTypeOK'
  <2>1. \A g \in DOMAIN profiles' : profiles'[g] \in Seq(Profile) /\ Len(profiles'[g]) = Len(fiber_stacks'[g])
    BY <1>1, <1>3, <1>8, <1>9 DEF ProfilerTypeOK
  <2> QED BY <1>1, <1>3, <1>5, <1>7, <1>8, <1>9, <2>1 DEF ProfilerTypeOK
<1>11. ASSUME p.named, active \/ fiber # MainFiber
       PROVE  /\ cost = now - p.nanotime_mark /\ cost >= 0
              /\ 0 <= p.called /\ p.called <= cost /\ p.called \in Int
              /\ p.nanotime_mark \in Nat /\ p.nanotime_mark <= now
  <2>1. Measured(fiber)
    BY <1>1, <1>3, <1>11 DEF MeasuredInv
  <2>2. /\ p.nanotime_mark <= now /\ cost = now - p.nanotime_mark
        /\ 0 <= p.called /\ p.called <= Until(fiber, n) - p.nanotime_mark
        /\ p.nanotime_mark \in Nat /\ p.called \in Int
    BY <1>1, <1>2, <1>3, <1>4, <1>11, <2>1, Measures DEF cost, p, n, s
  <2>3. Until(fiber, n) = now
    BY <1>3 DEF Until, n, s
  <2> QED BY <1>2, <2>2, <2>3
<1>12. MeasuredInv'
  <2> SUFFICES ASSUME ~crashed', NEW g \in DOMAIN profiles
               PROVE  /\ (active \/ g # MainFiber) => Measured(g)'
                      /\ g # MainFiber => ~profiles'[g][1].named
    BY <1>5, <1>8 DEF MeasuredInv
  <2>1. CASE g # fiber
    <3>1. profiles'[g] = profiles[g]
      BY <1>8, <2>1
    <3>2. Measured(g) => Measured(g)'
      BY <1>2, <3>1 DEF Measured, Until
    <3> QED BY <1>1, <3>1, <3>2 DEF MeasuredInv
  <2>2. CASE g = fiber
    <3>1. g # MainFiber => ~profiles'[g][1].named
      <4> SUFFICES ASSUME g # MainFiber
                   PROVE  ~profiles'[g][1].named
        OBVIOUS
      <4>1. 1 \in 1..(n - 1)
        BY <1>1, <1>2, <1>3, <1>9, <2>2 DEF CallsInv, FibersBegin
      <4>2. ~s[1].named
        BY <1>1, <1>3, <2>2 DEF MeasuredInv, s
      <4> QED BY <1>6, <1>8, <2>2, <4>1, <4>2
    <3>2. ASSUME active \/ g # MainFiber
          PROVE  Measured(g)'
      <4>1. Measured(g)
        BY <1>1, <1>3, <3>2 DEF MeasuredInv
      <4> SUFFICES ASSUME NEW i \in 1..(n - 1), profiles'[g][i].named
                   PROVE  /\ profiles'[g][i].nanotime = 0
                          /\ profiles'[g][i].nanotime_mark <= now
                          /\ profiles'[g][i].called \in 0..(Until(g, i)' - profiles'[g][i].nanotime_mark)
        BY <1>2, <1>8, <2>2 DEF Measured
      <4>2. /\ i \in 1..n /\ i < n /\ profiles'[g][i] = r[i] /\ s[i].named
            /\ r[i].nanotime = s[i].nanotime /\ r[i].nanotime_mark = s[i].nanotime_mark
            /\ r[i].called = s[i].called + IF active /\ i = n - 1 THEN cost ELSE 0
            /\ s[i].nanotime_mark \in Nat /\ s[i].called \in Int
        BY <1>3, <1>6, <1>8, <2>2
      <4>3. /\ s[i].nanotime = 0 /\ s[i].nanotime_mark <= now
            /\ Until(g, i) \in Nat /\ Until(g, i) <= now
            /\ 0 <= s[i].called /\ s[i].called <= Until(g, i) - s[i].nanotime_mark
        BY <1>1, <1>2, <1>3, <2>2, <4>1, <4>2, Measures DEF s, n
      <4>4. CASE i < n - 1
        <5>1. i + 1 \in 1..(n - 1)
          BY <1>3, <4>4
        <5>2. /\ profiles'[g][i + 1].named = s[i + 1].named
              /\ profiles'[g][i + 1].nanotime_mark = s[i + 1].nanotime_mark
          BY <1>6, <1>8, <2>2, <5>1
        <5>3. i < Len(profiles'[g]) /\ i < Len(profiles[g]) /\ profiles[g] = s
          BY <1>8, <2>2, <4>2, <4>4 DEF s, n
        <5>4. Until(g, i)' = Until(g, i)
          BY <1>2, <5>2, <5>3 DEF Until
        <5>5. r[i].called = s[i].called
          BY <4>2, <4>4
        <5> QED BY <4>2, <4>3, <5>4, <5>5
      <4>5. CASE i = n - 1
        <5>1. Until(g, i)' = now
          BY <1>2, <1>3, <1>8, <2>2, <4>5 DEF Until
        <5>2. CASE ~active
          <6>1. r[i].called = s[i].called
            BY <4>2, <5>2
          <6> QED BY <1>2, <4>2, <4>3, <5>1, <6>1
        <5>3. CASE active
          <6>1. p.named
            BY <1>6, <5>3
          <6>2. /\ cost = now - p.nanotime_mark /\ cost >= 0 /\ p.nanotime_mark \in Nat
            BY <1>11, <5>3, <6>1
          <6>3. Until(g, i) = p.nanotime_mark
            <7>1. i < Len(profiles[g]) /\ profiles[g][i + 1] = p
              BY <1>3, <2>2, <4>5 DEF p, s, n
            <7> QED BY <6>1, <7>1 DEF Until
          <6>4. r[i].called = s[i].called + cost
            BY <4>2, <4>5, <5>3
          <6> QED BY <1>2, <4>2, <4>3, <5>1, <6>2, <6>3, <6>4
        <5> QED BY <5>2, <5>3
      <4> QED BY <1>3, <4>4, <4>5
    <3> QED BY <3>1, <3>2
  <2> QED BY <2>1, <2>2
<1>13. SumInv'
  <2> SUFFICES ASSUME ~fibers_seen
               PROVE  /\ ~crashed' /\ spent' >= 0
                      /\ active' => /\ \A i \in 1..Len(profiles'[MainFiber]) : profiles'[MainFiber][i].named
                                    /\ summary' = -1 /\ OutermostTaken' <= Begun' - start_nanotime'
                      /\ summary' >= 0 => spent' <= 10 * summary' + 4
    BY <1>2 DEF SumInv
  <2>1. fiber = MainFiber
    BY <1>3 DEF RequestInv
  <2>2. /\ spent >= 0 /\ (summary >= 0 => spent <= 10 * summary + 4)
        /\ active => /\ \A i \in 1..n : s[i].named
                     /\ summary = -1 /\ OutermostTaken <= Begun - start_nanotime
    BY <1>1, <2>1 DEF SumInv, s, n
  <2>3. CASE ~active
    BY <1>5, <1>6, <2>2, <2>3
  <2>4. CASE active
    <3>1. p.named
      BY <1>4, <2>2, <2>4 DEF p
    <3>2. /\ cost = now - p.nanotime_mark /\ cost >= 0
          /\ 0 <= p.called /\ p.called <= cost /\ p.called \in Int
          /\ p.nanotime_mark \in Nat /\ p.nanotime_mark <= now
      BY <1>11, <2>4, <3>1
    <3>3. spent' = spent + (cost - p.called) /\ ~crashed' /\ spent \in Int /\ start_nanotime \in Nat
      BY <1>1, <1>6, <2>4, <3>1 DEF ProfilerTypeOK
    <3>4. spent' >= 0
      BY <1>6, <2>2, <3>2, <3>3
    <3>5. \A i \in 1..Len(profiles'[MainFiber]) : profiles'[MainFiber][i].named
      <4> SUFFICES ASSUME NEW i \in 1..(n - 1)
                   PROVE  r[i].named
        BY <1>8, <2>1
      <4>1. i \in 1..n
        BY <1>3
      <4> QED BY <1>6, <2>2, <2>4, <4>1
    <3> SUFFICES OutermostTaken' <= Begun' - start_nanotime
      <4>1. start_nanotime' = start_nanotime /\ summary' = -1
        BY <1>5, <2>2, <2>4
      <4>2. ~(summary' >= 0)
        BY <4>1
      <4> QED BY <3>3, <3>4, <3>5, <4>1, <4>2
    <3> DEFINE q == profiles'[MainFiber]
               sum == CalledUpTo(s)
               left == CalledUpTo(q)
    <3>6. /\ Len(q) = n - 1 /\ Len(q) \in Nat
          /\ \A i \in 1..(n - 1) : q[i].called = s[i].called + IF i = n - 1 THEN cost ELSE 0
      BY <1>3, <1>4, <1>6, <1>8, <2>1, <2>4
    <3> HIDE DEF q
    <3>7. \A i \in 1..Len(q) : q[i].called \in Int
      <4> SUFFICES ASSUME NEW i \in 1..(n - 1)
                   PROVE  q[i].called \in Int
        BY <3>6
      <4>1. s[i].called \in Int /\ q[i].called = s[i].called + IF i = n - 1 THEN cost ELSE 0
        BY <1>3, <3>6
      <4> QED BY <1>6, <4>1
    <3>8. /\ sum \in [0..n -> Int] /\ sum[0] = 0
          /\ \A i \in 1..n : sum[i] = sum[i - 1] + s[i].called
      BY <1>3, SumsAdd DEF n
    <3>9. /\ left \in [0..(n - 1) -> Int] /\ left[0] = 0
          /\ \A i \in 1..(n - 1) : left[i] = left[i - 1] + q[i].called
      BY <3>6, <3>7, SumsAdd
    <3>10. OutermostTaken = spent - sum[n] /\ OutermostTaken' = spent' - left[n - 1]
      <4>1. OutermostTaken' = spent' - left[Len(q)]
        BY DEF OutermostTaken, q
      <4> QED BY <2>1, <3>6, <4>1 DEF OutermostTaken, s, n
    <3> HIDE DEF sum, left
    <3>11. sum[n] = sum[n - 1] + p.called /\ sum[n - 1] \in Int
      <4>1. n \in 1..n /\ n - 1 \in 0..n
        BY <1>3, <1>4
      <4>2. p = s[n]
        BY DEF p
      <4> HIDE DEF n, s
      <4> QED BY <3>8, <4>1, <4>2
    <3>12. Begun = s[1].nanotime_mark /\ 1 \in 1..n
      <4>1. s # <<>> /\ 1 \in 1..n
        BY <1>3, <1>4, EmptySeq DEF n
      <4> QED BY <2>1, <4>1 DEF Begun, s
    <3>13. OutermostTaken <= Begun - start_nanotime
      BY <2>2, <2>4
    <3>14. CASE n = 1
      <4>1. left[n - 1] = 0 /\ sum[n - 1] = 0
        BY <3>8, <3>9, <3>14
      <4>2. Begun' = now
        <5>1. q = <<>>
          BY <1>8, <2>1, <3>6, <3>14, EmptySeq DEF q
        <5> QED BY <1>2, <5>1 DEF Begun, q
      <4>3. Begun = p.nanotime_mark
        BY <3>12, <3>14 DEF p
      <4>4. spent - p.called <= p.nanotime_mark - start_nanotime
        BY <3>2, <3>10, <3>11, <3>13, <4>1, <4>3
      <4>5. OutermostTaken' = spent'
        <5> DEFINE w == spent'
        <5>1. w \in Int /\ OutermostTaken' = w - 0
          BY <1>7, <3>10, <4>1
        <5> HIDE DEF w
        <5>2. OutermostTaken' = w
          BY <5>1
        <5> QED BY <5>2 DEF w
      <4>6. OutermostTaken' <= now - start_nanotime
        BY <1>2, <3>2, <3>3, <4>4, <4>5
      <4> QED BY <4>2, <4>6
    <3>15. CASE n # 1
      <4>1. n - 1 \in 1..(n - 1) /\ n - 1 \in 1..n /\ n - 2 \in 0..(n - 1) /\ n - 2 \in 0..n
            /\ (n - 1) - 1 = n - 2
        BY <1>3, <1>4, <3>15
      <4>2. left[n - 2] = sum[n - 2]
        <5>1. \A i \in 1..(n - 2) : s[i].called = q[i].called
          <6> SUFFICES ASSUME NEW i \in 1..(n - 2)
                       PROVE  s[i].called = q[i].called
            OBVIOUS
          <6>1. i \in 1..(n - 1) /\ i \in 1..n /\ i # n - 1
            BY <1>3
          <6>2. s[i].called \in Int /\ q[i].called = s[i].called + 0
            BY <1>3, <3>6, <6>1
          <6> QED BY <6>2
        <5>2. /\ n - 2 \in Nat /\ n - 2 <= Len(s) /\ n - 2 <= Len(q) /\ Len(s) \in Nat
              /\ \A i \in 1..Len(s) : s[i].called \in Int
          BY <1>3, <3>6, <4>1 DEF n
        <5> QED BY <3>6, <3>7, <5>1, <5>2, SumsAgree DEF left, sum
      <4>3. left[n - 1] = sum[n - 2] + (s[n - 1].called + cost) /\ sum[n - 1] = sum[n - 2] + s[n - 1].called
            /\ s[n - 1].called \in Int /\ sum[n - 2] \in Int
        BY <1>3, <3>6, <3>8, <3>9, <4>1, <4>2
      <4>4. left[n - 1] = sum[n - 1] + cost
        <5> DEFINE a == sum[n - 2]
                   b == s[n - 1].called
        <5>1. a \in Int /\ b \in Int /\ left[n - 1] = a + (b + cost) /\ sum[n - 1] = a + b
          BY <4>3
        <5> HIDE DEF a, b
        <5> QED BY <1>6, <5>1
      <4>5. OutermostTaken' = OutermostTaken
        <5> DEFINE a == sum[n - 1]
                   b == p.called
        <5>1. /\ a \in Int /\ b \in Int /\ OutermostTaken = spent - (a + b)
              /\ OutermostTaken' = (spent + (cost - b)) - (a + cost)
          BY <3>2, <3>3, <3>10, <3>11, <4>4
        <5> HIDE DEF a, b
        <5>2. (spent + (cost - b)) - (a + cost) = spent - (a + b)
          BY <1>6, <3>3, <5>1
        <5> QED BY <5>1, <5>2
      <4>6. Begun' = s[1].nanotime_mark
        <5>1. q # <<>> /\ 1 \in 1..(n - 1)
          BY <1>3, <1>4, <3>6, <3>15, EmptySeq
        <5>2. q[1].nanotime_mark = s[1].nanotime_mark
          BY <1>6, <1>8, <2>1, <5>1 DEF q
        <5> QED BY <5>1, <5>2 DEF Begun, q
      <4> QED BY <3>12, <3>13, <4>5, <4>6
    <3> QED BY <3>14, <3>15
  <2> QED BY <2>3, <2>4
<1>15. RoundedInv'
  <2>1. RoundedLines(profiles'[fiber])
    <3>1. \A i \in 1..(n - 1) : i \in 1..Len(r)
      BY <1>3, <1>6
    <3> QED BY <1>8, <1>14, <3>1 DEF RoundedLines
  <2> QED BY <1>1, <1>8, <1>14, <2>1 DEF RoundedInv
<1> QED BY <1>10, <1>12, <1>13, <1>15 DEF ProfileInv

\* Every step keeps the invariant of the profiler.
LEMMA ProfileStep ==
  ASSUME StackInv, RequestInv, ProfileInv, [Next]_vars
  PROVE  ProfileInv'
<1>1. ASSUME NEW f \in Functions, Enter(f)
      PROVE  ProfileInv'
  <2>1. UNCHANGED <<mode, now, fibers_seen>> /\ ~crashed /\ AddStackFrame(f)
    BY <1>1 DEF Enter, requestVars, Going
  <2>2. CASE mode = "profile"
    <3>1. ProfileEnter
      BY <1>1, <2>2 DEF Enter
    <3> QED BY <2>1, <2>2, <3>1, EnterProfile
  <2>3. CASE mode # "profile"
    BY <2>1, <2>3 DEF ProfileInv
  <2> QED BY <2>2, <2>3
<1>2. CASE Leave
  <2>1. UNCHANGED <<mode, now, fibers_seen>> /\ ~crashed /\ PopFrame
    BY <1>2 DEF Leave, requestVars, Going
  <2>2. CASE mode = "profile"
    <3>1. EndTop(now)
      BY <1>2, <2>2 DEF Leave
    <3> QED BY <2>1, <2>2, <3>1, LeaveProfile
  <2>3. CASE mode # "profile"
    BY <2>1, <2>3 DEF ProfileInv
  <2> QED BY <2>2, <2>3
<1>3. CASE SwitchFiber
  BY <1>3, SwitchProfile
<1>4. CASE Work
  BY <1>4, WorkProfile
<1>5. CASE StopProfiling
  <2>1. Deinit(now) /\ UNCHANGED <<callStackVars, mode, now, fibers_seen>>
    BY <1>5 DEF StopProfiling, requestVars
  <2> QED BY <2>1, DeinitProfile
<1>6. CASE RequestEnds
  <2>1. Deinit(now) /\ UNCHANGED <<callStackVars, mode, now, fibers_seen>>
    BY <1>6 DEF RequestEnds
  <2> QED BY <2>1, DeinitProfile
<1>7. CASE \/ xdebug_start_trace \/ xdebug_stop_trace \/ xdebug_set_filter
           \/ xdebug_start_gcstats \/ xdebug_stop_gcstats \/ CollectBegins \/ CollectEnds
           \/ ScriptsEnd \/ UNCHANGED vars
  <2>1. UNCHANGED <<profilerVars, fiber_stacks, mode, now, fibers_seen>>
    BY <1>7 DEF xdebug_start_trace, xdebug_stop_trace, xdebug_set_filter, xdebug_start_gcstats,
                xdebug_stop_gcstats, CollectBegins, CollectEnds, ScriptsEnd, vars, requestVars,
                callStackVars
  <2> QED BY <2>1, SameProfile
<1> QED BY <1>1, <1>2, <1>3, <1>4, <1>5, <1>6, <1>7 DEF Next

\* What the invariant says of the costs.
LEMMA ProfileIsRight ==
  ASSUME StackInv, RequestInv, ProfileInv
  PROVE  ProfileAddsUp /\ CrashNeedsFiber
<1>1. now \in Nat /\ CallStackTypeOK
  BY ObserversAssumption DEF RequestInv, StackInv, CallStackInv
<1>2. CASE mode # "profile"
  <2>1. ~active /\ written = 0 /\ blocks = 0 /\ spent = 0 /\ summary = -1 /\ ~crashed
    BY <1>2 DEF RequestInv
  <2> QED BY <2>1 DEF ProfileAddsUp, CrashNeedsFiber, Rounded
<1>3. CASE mode = "profile"
  <2>1. ProfilerTypeOK /\ MeasuredInv /\ SumInv /\ RoundedInv
    BY <1>3 DEF ProfileInv
  <2>2. CrashNeedsFiber
    BY <2>1 DEF SumInv, CrashNeedsFiber
  <2>3. ASSUME active, ~crashed, NEW f \in DOMAIN profiles, NEW i \in 1..Len(profiles[f]),
               profiles[f][i].named
        PROVE  profiles[f][i].called <= Taken(profiles[f][i], now)
    <3>1. Measured(f)
      BY <2>1, <2>3 DEF MeasuredInv
    <3>2. /\ Taken(profiles[f][i], now) = now - profiles[f][i].nanotime_mark
          /\ Until(f, i) \in Nat /\ Until(f, i) <= now
          /\ profiles[f][i].called <= Until(f, i) - profiles[f][i].nanotime_mark
      BY <1>1, <2>1, <2>3, <3>1, Measures
    <3>3. profiles[f][i].nanotime_mark \in Nat /\ profiles[f][i].called \in Int
      BY <1>1, <2>1, Profiles
    <3> QED BY <1>1, <3>2, <3>3
  <2>4. ASSUME ~fibers_seen
        PROVE  /\ spent >= 0
               /\ active => OutermostTaken <= now - start_nanotime
               /\ summary >= 0 => 10 * written <= 10 * summary + 4 + 5 * blocks
    <3>1. ASSUME active
          PROVE  OutermostTaken <= now - start_nanotime
      <4>1. /\ OutermostTaken <= Begun - start_nanotime
            /\ \A i \in 1..Len(profiles[MainFiber]) : profiles[MainFiber][i].named
            /\ ~crashed
        BY <2>1, <2>4, <3>1 DEF SumInv
      <4>2. Begun <= now
        <5>1. CASE profiles[MainFiber] = <<>>
          BY <1>1, <5>1 DEF Begun
        <5>2. CASE profiles[MainFiber] # <<>>
          <6>1. 1 \in 1..Len(profiles[MainFiber])
            BY <1>1, <2>1, <5>2, Profiles, EmptySeq
          <6>2. Measured(MainFiber) /\ MainFiber \in DOMAIN profiles
            BY <1>1, <2>1, <3>1, <4>1, Profiles DEF MeasuredInv
          <6>3. profiles[MainFiber][1].nanotime_mark <= now
            BY <4>1, <6>1, <6>2 DEF Measured
          <6> QED BY <5>2, <6>3 DEF Begun
        <5> QED BY <5>1, <5>2
      <4>3. OutermostTaken \in Int /\ Begun \in Nat /\ start_nanotime \in Nat
        BY <1>1, <2>1, Outermost DEF ProfilerTypeOK
      <4> QED BY <1>1, <4>1, <4>2, <4>3
    <3>2. ASSUME summary >= 0
          PROVE  10 * written <= 10 * summary + 4 + 5 * blocks
      <4>1. spent <= 10 * summary + 4 /\ 10 * written <= spent + 5 * blocks
        BY <2>1, <2>4, <3>2 DEF SumInv, RoundedInv, Rounded
      <4>2. spent \in Int /\ summary \in Int /\ written \in Int /\ blocks \in Nat
        BY <2>1 DEF ProfilerTypeOK
      <4> QED BY <4>1, <4>2
    <3> QED BY <2>1, <2>4, <3>1, <3>2 DEF SumInv
  <2>5. ProfileAddsUp
    BY <2>1, <2>3, <2>4 DEF ProfileAddsUp, RoundedInv, RoundedLines
  <2> QED BY <2>2, <2>5
<1> QED BY <1>2, <1>3
-----------------------------------------------------------------------------
(* Traces.                                                                    *)

\* A number that an int holds is kept.
LEMMA ToIntKeeps ==
  ASSUME NEW v \in Int
  PROVE  /\ ToInt(v) \in Int
         /\ 0 <= v /\ v < Half => ToInt(v) = v
BY TracesAssumption DEF ToInt

\* What a line adds to the numbers in a trace.
LEMMA LineAdded ==
  ASSUME NEW lines \in Seq(Line), NEW line \in Line, NEW kind
  PROVE  NumbersIn(Append(lines, line), kind)
           = NumbersIn(lines, kind) \cup (IF line.kind = kind THEN {line.function_nr} ELSE {})
<1> DEFINE n == Len(lines)
           all == Append(lines, line)
<1>1. /\ n \in Nat /\ Len(all) = n + 1
      /\ \A i \in 1..n : all[i] = lines[i]
      /\ all[n + 1] = line
  BY AppendProperties, LenProperties
<1> HIDE DEF n, all
<1>2. ASSUME NEW m
      PROVE  m \in NumbersIn(all, kind) <=>
               m \in NumbersIn(lines, kind) \/ (line.kind = kind /\ m = line.function_nr)
  <2>1. m \in NumbersIn(all, kind) <=>
          \E i \in 1..(n + 1) : all[i].kind = kind /\ m = all[i].function_nr
    BY <1>1 DEF NumbersIn
  <2>2. m \in NumbersIn(lines, kind) <=> \E i \in 1..n : lines[i].kind = kind /\ m = lines[i].function_nr
    BY DEF NumbersIn, n
  <2>3. \A i : i \in 1..(n + 1) <=> i \in 1..n \/ i = n + 1
    BY <1>1
  <2> QED BY <1>1, <2>1, <2>2, <2>3
<1> QED BY <1>2 DEF all

\* Which numbers are those of the calls a trace follows.
LEMMA TracedMembers ==
  ASSUME NEW stacks, NEW data, NEW since, NEW n
  PROVE  n \in TracedNumbers(stacks, data, since) <=>
           \E f \in DOMAIN stacks : \E i \in 1..Len(stacks[f]) :
             TracedAt(stacks[f][i], data[f][i], since) /\ n = stacks[f][i].function_nr
BY DEF TracedNumbers

\* The invariant's names for what the runs check.
LEMMA TraceNames ==
  /\ \A kind : LinesOf(kind) = NumbersIn(trace.lines, kind)
  /\ TracedCalls = TracedNumbers(fiber_stacks, calls, trace.since)
BY DEF LinesOf, NumbersIn, TracedCalls, TracedIn, TracedNumbers, TracedAt

\* A trace that starts, and none, are right whatever has been called.
LEMMA TraceStarts ==
  ASSUME StackInv, CallDataOK, NEW format \in {"text", "flamegraph"}
  PROVE  TraceIs(Started(format)) /\ TraceIs(NoTrace) /\ Started(format).open
<1> DEFINE st == Started(format)
<1>1. /\ NoTrace = [open |-> FALSE, format |-> "text", lines |-> <<>>, functions |-> <<>>, since |-> -1]
      /\ st = [open |-> TRUE, format |-> format, lines |-> <<>>, functions |-> <<>>,
               since |-> function_count]
  <2>1. NoTrace = [open |-> FALSE, format |-> "text", lines |-> <<>>, functions |-> <<>>, since |-> -1]
    BY DEF NoTrace
  <2>2. st = [[[NoTrace EXCEPT !.open = TRUE] EXCEPT !.format = format] EXCEPT !.since = function_count]
    BY DEF Started, NoTrace
  <2> QED BY <2>1, <2>2
<1>2. /\ st.open = TRUE /\ st.format = format /\ st.lines = <<>> /\ st.functions = <<>>
      /\ st.since = function_count
      /\ NoTrace.open = FALSE /\ NoTrace.format = "text" /\ NoTrace.lines = <<>>
      /\ NoTrace.functions = <<>> /\ NoTrace.since = -1
  BY <1>1
<1>3. /\ <<>> \in Seq(Line) /\ Len(<<>>) = 0 /\ DOMAIN <<>> = {}
      /\ <<>> \in [DOMAIN <<>> -> Int]
  OBVIOUS
<1>4. function_count \in -1..MaxCalls /\ MaxCalls \in Nat
  BY CallStackAssumption DEF StackInv, CallStackInv, CallStackTypeOK
<1> HIDE DEF st
<1>5. IsTrace(NoTrace) /\ IsTrace(st)
  BY <1>1, <1>2, <1>3, <1>4 DEF IsTrace
<1>6. CostsAre(NoTrace) /\ CostsAre(st)
  BY <1>2, <1>3 DEF CostsAre
<1>7. FlameIs(NoTrace) /\ FlameIs(st)
  BY <1>2, <1>3 DEF FlameIs, FlameAt
<1>8. \A kind : NumbersIn(<<>>, kind) = {}
  BY <1>3 DEF NumbersIn
<1>9. ASSUME NEW f \in DOMAIN fiber_stacks, NEW i \in 1..Len(fiber_stacks[f])
      PROVE  ~TracedAt(fiber_stacks[f][i], calls[f][i], function_count)
  <2>1. /\ fiber_stacks[f][i].function_nr \in Nat /\ function_count \in Int
        /\ fiber_stacks[f][i].function_nr <= function_count
    BY Frames DEF StackInv, CallStackInv
  <2> QED BY <2>1 DEF TracedAt
<1>10. TracedNumbers(fiber_stacks, calls, function_count) = {}
  BY <1>9, TracedMembers
<1>11. TextIs(NoTrace) /\ TextIs(st)
  <2>1. \A f \in DOMAIN calls : \A i \in 1..Len(calls[f]) :
          ~TracedAt(fiber_stacks[f][i], calls[f][i], function_count)
    BY <1>9 DEF CallDataOK
  <2> QED BY <1>2, <1>4, <1>8, <1>10, <2>1 DEF TextIs
<1> QED BY <1>2, <1>5, <1>6, <1>7, <1>11 DEF TraceIs, st

\* What the handlers make of a trace when a call begins.
LEMMA EntryIs ==
  ASSUME NEW tr, IsTrace(tr), NEW n \in 0..MaxCalls
  PROVE  /\ IsTrace(Entry(tr, n))
         /\ Entry(tr, n).open = tr.open /\ Entry(tr, n).format = tr.format
         /\ Entry(tr, n).since = tr.since
         /\ tr.format = "text" =>
              \E line \in Line : /\ line.kind = "entry" /\ line.function_nr = n /\ line.cost = 0
                                 /\ Entry(tr, n).lines = Append(tr.lines, line)
         /\ tr.format = "flamegraph" =>
              /\ Entry(tr, n).lines = tr.lines
              /\ DOMAIN Entry(tr, n).functions = DOMAIN tr.functions \cup {n}
              /\ Entry(tr, n).functions[n] = 0
              /\ \A m \in DOMAIN tr.functions \ {n} : Entry(tr, n).functions[m] = tr.functions[m]
<1> DEFINE w == Entry(tr, n)
<1>1. /\ tr = [open |-> tr.open, format |-> tr.format, lines |-> tr.lines,
               functions |-> tr.functions, since |-> tr.since]
      /\ tr.open \in BOOLEAN /\ tr.format \in {"text", "flamegraph"}
      /\ tr.lines \in Seq(Line) /\ tr.since \in -1..MaxCalls
      /\ tr.functions \in [DOMAIN tr.functions -> Int] /\ DOMAIN tr.functions \subseteq 0..MaxCalls
      /\ MaxCalls \in Nat
  BY CallStackAssumption DEF IsTrace
<1>2. CASE tr.format = "text"
  <2> DEFINE line == [kind |-> "entry", function_nr |-> n, cost |-> 0, lasted |-> 0]
             all == Append(tr.lines, line)
  <2>1. line \in Line
    BY <1>1 DEF Line
  <2>2. all \in Seq(Line)
    BY <1>1, <2>1, AppendProperties
  <2>3. w = [tr EXCEPT !.lines = all]
    BY <1>2 DEF Entry, Written
  <2>4. line.kind = "entry" /\ line.function_nr = n /\ line.cost = 0
    OBVIOUS
  <2> HIDE DEF line, all, w
  <2>5. w = [open |-> tr.open, format |-> tr.format, lines |-> all,
             functions |-> tr.functions, since |-> tr.since]
    BY <1>1, <2>3
  <2>6. /\ w.open = tr.open /\ w.format = tr.format /\ w.lines = all
        /\ w.functions = tr.functions /\ w.since = tr.since
    BY <2>5
  <2>7. IsTrace(w)
    BY <1>1, <2>2, <2>5, <2>6 DEF IsTrace
  <2> QED BY <1>2, <2>1, <2>4, <2>6, <2>7 DEF w, all
<1>3. CASE tr.format = "flamegraph"
  <2> DEFINE fs == [m \in DOMAIN tr.functions \cup {n} |-> IF m = n THEN 0 ELSE tr.functions[m]]
  <2>1. fs \in [DOMAIN fs -> Int] /\ DOMAIN fs = DOMAIN tr.functions \cup {n}
    BY <1>1
  <2>2. fs[n] = 0 /\ \A m \in DOMAIN tr.functions \ {n} : fs[m] = tr.functions[m]
    OBVIOUS
  <2>3. w = [tr EXCEPT !.functions = fs]
    BY <1>3 DEF Entry
  <2> HIDE DEF fs, w
  <2>5. w = [open |-> tr.open, format |-> tr.format, lines |-> tr.lines,
             functions |-> fs, since |-> tr.since]
    BY <1>1, <2>3
  <2>6. /\ w.open = tr.open /\ w.format = tr.format /\ w.lines = tr.lines
        /\ w.functions = fs /\ w.since = tr.since
    BY <2>5
  <2>7. IsTrace(w)
    BY <1>1, <2>1, <2>5, <2>6 DEF IsTrace
  <2> QED BY <1>3, <2>1, <2>2, <2>6, <2>7 DEF w
<1> QED BY <1>1, <1>2, <1>3

\* And when one ends that the trace follows.
LEMMA ExitIs ==
  ASSUME NEW tr, IsTrace(tr), NEW n \in Nat, NEW parents, NEW lasted \in Int
  PROVE  LET w == Exit(tr, n, parents, lasted)
             inclusive == ToInt(lasted)
         IN  /\ IsTrace(w)
             /\ w.open = tr.open /\ w.format = tr.format /\ w.since = tr.since
             /\ tr.format = "text" =>
                  \E line \in Line : /\ line.kind = "exit" /\ line.function_nr = n /\ line.cost = 0
                                     /\ w.lines = Append(tr.lines, line)
             /\ tr.format = "flamegraph" /\ n \notin DOMAIN tr.functions => w = tr
             /\ tr.format = "flamegraph" /\ n \in DOMAIN tr.functions =>
                  /\ \E line \in Line : /\ line.function_nr = n /\ line.lasted = lasted
                                        /\ line.cost = ToInt(inclusive - tr.functions[n])
                                        /\ w.lines = Append(tr.lines, line)
                  /\ DOMAIN w.functions = DOMAIN tr.functions \ {n}
                  /\ \A m \in DOMAIN w.functions :
                       w.functions[m] = IF m \in parents THEN ToInt(tr.functions[m] + inclusive)
                                        ELSE tr.functions[m]
<1> DEFINE w == Exit(tr, n, parents, lasted)
           inclusive == ToInt(lasted)
<1>1. /\ tr = [open |-> tr.open, format |-> tr.format, lines |-> tr.lines,
               functions |-> tr.functions, since |-> tr.since]
      /\ tr.open \in BOOLEAN /\ tr.format \in {"text", "flamegraph"}
      /\ tr.lines \in Seq(Line) /\ tr.since \in -1..MaxCalls
      /\ tr.functions \in [DOMAIN tr.functions -> Int] /\ DOMAIN tr.functions \subseteq 0..MaxCalls
  BY DEF IsTrace
<1>2. CASE tr.format = "text"
  <2> DEFINE line == [kind |-> "exit", function_nr |-> n, cost |-> 0, lasted |-> lasted]
             all == Append(tr.lines, line)
  <2>1. line \in Line
    BY DEF Line
  <2>2. all \in Seq(Line)
    BY <1>1, <2>1, AppendProperties
  <2>3. w = [tr EXCEPT !.lines = all]
    BY <1>2 DEF Exit, Written
  <2>4. line.kind = "exit" /\ line.function_nr = n /\ line.cost = 0
    OBVIOUS
  <2> HIDE DEF line, all, w, inclusive
  <2>5. w = [open |-> tr.open, format |-> tr.format, lines |-> all,
             functions |-> tr.functions, since |-> tr.since]
    BY <1>1, <2>3
  <2>6. /\ w.open = tr.open /\ w.format = tr.format /\ w.lines = all
        /\ w.functions = tr.functions /\ w.since = tr.since
    BY <2>5
  <2>7. IsTrace(w)
    BY <1>1, <2>2, <2>5, <2>6 DEF IsTrace
  <2> QED BY <1>2, <2>1, <2>4, <2>6, <2>7 DEF w, all
<1>3. CASE tr.format = "flamegraph" /\ n \notin DOMAIN tr.functions
  BY <1>3 DEF Exit, FlameExit
<1>4. CASE tr.format = "flamegraph" /\ n \in DOMAIN tr.functions
  <2> DEFINE cost == ToInt(inclusive - tr.functions[n])
             line == [kind |-> "exit", function_nr |-> n, cost |-> cost, lasted |-> lasted]
             all == Append(tr.lines, line)
             fs == [m \in DOMAIN tr.functions \ {n} |->
                      IF m \in parents THEN ToInt(tr.functions[m] + inclusive) ELSE tr.functions[m]]
  <2>1. inclusive \in Int /\ \A m \in DOMAIN tr.functions : tr.functions[m] \in Int
    BY <1>1, ToIntKeeps
  <2>2. w = [[tr EXCEPT !.lines = all] EXCEPT !.functions = fs]
    <3> DEFINE tl == [tr EXCEPT !.lines = all]
    <3>1. tl.functions = tr.functions
      BY <1>1
    <3>2. w = [tl EXCEPT !.functions = [m \in DOMAIN tl.functions \ {n} |->
                 IF m \in parents THEN ToInt(tl.functions[m] + inclusive) ELSE tl.functions[m]]]
      BY <1>4 DEF Exit, FlameExit, Written
    <3> HIDE DEF tl, inclusive
    <3> QED BY <3>1, <3>2 DEF tl
  <2> HIDE DEF inclusive, w
  <2>3. cost \in Int /\ \A m \in DOMAIN tr.functions : ToInt(tr.functions[m] + inclusive) \in Int
    <3>1. /\ inclusive - tr.functions[n] \in Int
          /\ \A m \in DOMAIN tr.functions : tr.functions[m] + inclusive \in Int
      BY <1>4, <2>1
    <3> QED BY <3>1, ToIntKeeps
  <2> HIDE DEF cost
  <2>4. line \in Line /\ line.function_nr = n /\ line.lasted = lasted /\ line.cost = cost
    BY <2>3 DEF Line
  <2>5. fs \in [DOMAIN fs -> Int] /\ DOMAIN fs = DOMAIN tr.functions \ {n}
    BY <2>1, <2>3
  <2>6. \A m \in DOMAIN fs :
          fs[m] = IF m \in parents THEN ToInt(tr.functions[m] + inclusive) ELSE tr.functions[m]
    OBVIOUS
  <2> HIDE DEF line, fs
  <2>7. all \in Seq(Line)
    BY <1>1, <2>4, AppendProperties
  <2> HIDE DEF all
  <2>8. w = [open |-> tr.open, format |-> tr.format, lines |-> all,
             functions |-> fs, since |-> tr.since]
    BY <1>1, <2>2
  <2>9. /\ w.open = tr.open /\ w.format = tr.format /\ w.lines = all
        /\ w.functions = fs /\ w.since = tr.since
    BY <2>8
  <2>10. IsTrace(w)
    BY <1>1, <2>5, <2>7, <2>8, <2>9 DEF IsTrace
  <2> QED BY <1>4, <2>4, <2>5, <2>6, <2>9, <2>10 DEF w, all, cost, inclusive
<1> QED BY <1>1, <1>2, <1>3, <1>4

\* An exit in a text trace adds one line, which says which call has ended.
LEMMA LineOfExit ==
  ASSUME NEW tr, IsTrace(tr), tr.format = "text", NEW n \in Nat, NEW parents, NEW lasted \in Int
  PROVE  \E line \in Line : /\ line.kind = "exit" /\ line.function_nr = n
                            /\ Exit(tr, n, parents, lasted).lines = Append(tr.lines, line)
<1> DEFINE line == [kind |-> "exit", function_nr |-> n, cost |-> 0, lasted |-> lasted]
<1>1. line \in Line /\ line.kind = "exit" /\ line.function_nr = n
  BY DEF Line
<1>2. Exit(tr, n, parents, lasted) = [tr EXCEPT !.lines = Append(tr.lines, line)]
  BY DEF Exit, Written
<1>3. tr = [open |-> tr.open, format |-> tr.format, lines |-> tr.lines,
            functions |-> tr.functions, since |-> tr.since]
  BY DEF IsTrace
<1> HIDE DEF line
<1>4. Exit(tr, n, parents, lasted).lines = Append(tr.lines, line)
  BY <1>2, <1>3
<1> QED BY <1>1, <1>4

\* What is known of the frames.
LEMMA CallFacts ==
  ASSUME CallStackTypeOK, CallDataOK
  PROVE  /\ fiber \in DOMAIN calls /\ MainFiber \in DOMAIN calls
         /\ DOMAIN calls = DOMAIN fiber_stacks
         /\ \A g \in DOMAIN calls :
              /\ calls[g] \in Seq(CallData) /\ Len(calls[g]) \in Nat
              /\ Len(calls[g]) = Len(fiber_stacks[g])
              /\ \A i \in 1..Len(calls[g]) :
                   calls[g][i] \in CallData /\ calls[g][i].nanotime \in Nat
<1>1. /\ fiber \in DOMAIN calls /\ MainFiber \in DOMAIN calls
      /\ DOMAIN calls = DOMAIN fiber_stacks
  BY DEF CallStackTypeOK, CallDataOK
<1>2. \A g \in DOMAIN calls : /\ calls[g] \in Seq(CallData) /\ Len(calls[g]) \in Nat
                              /\ Len(calls[g]) = Len(fiber_stacks[g])
  BY LenProperties DEF CallDataOK
<1>3. ASSUME NEW g \in DOMAIN calls, NEW i \in 1..Len(calls[g])
      PROVE  calls[g][i] \in CallData /\ calls[g][i].nanotime \in Nat
  <2>1. calls[g][i] \in CallData
    BY <1>2, ElementOfSeq
  <2> QED BY <2>1 DEF CallData
<1> QED BY <1>1, <1>2, <1>3

\* Nor do calls begin later than now.
LEMMA CallsBegan ==
  ASSUME CallStackTypeOK, CallDataOK, CallTimes, now \in Nat,
         NEW g \in DOMAIN calls, NEW i \in 1..Len(calls[g])
  PROVE  /\ calls[g][i].nanotime \in Nat /\ calls[g][i].nanotime <= CallUntil(g, i)
         /\ CallUntil(g, i) \in Nat
<1>1. /\ Len(calls[g]) \in Nat
      /\ \A j \in 1..Len(calls[g]) : calls[g][j].nanotime \in Nat
  BY CallFacts
<1>2. CallUntil(g, i) \in Nat
  <2>1. i < Len(calls[g]) => i + 1 \in 1..Len(calls[g])
    BY <1>1
  <2> QED BY <1>1, <2>1 DEF CallUntil
<1> QED BY <1>1, <1>2 DEF CallTimes

\* Steps in which no call begins or ends, but a trace may.
LEMMA SameCalls ==
  ASSUME StackInv, TraceInv,
         UNCHANGED <<callStackVars, calls, mode, now, fibers_seen>>,
         mode = "trace" => left_out' \subseteq Functions,
         \/ trace' = trace \/ trace' = NoTrace
         \/ \E format \in {"text", "flamegraph"} : trace' = Started(format)
  PROVE  TraceInv'
<1> SUFFICES ASSUME mode = "trace"
             PROVE  CallDataOK' /\ CallTimes' /\ TraceIs(trace)'
  BY DEF TraceInv
<1>1. CallDataOK /\ CallTimes /\ TraceIs(trace)
  BY DEF TraceInv
<1>2. /\ fiber_stacks' = fiber_stacks /\ fiber' = fiber /\ function_count' = function_count
      /\ calls' = calls /\ now' = now /\ fibers_seen' = fibers_seen
  BY DEF callStackVars
<1>3. CallDataOK'
  BY <1>1, <1>2 DEF CallDataOK
<1>4. CallTimes'
  BY <1>1, <1>2 DEF CallTimes, CallUntil
<1>5. TraceIs(trace')
  BY <1>1, TraceStarts
<1>6. TextIs(trace)'
  BY <1>2, <1>5 DEF TraceIs, TextIs
<1>7. FlameIs(trace)'
  BY <1>2, <1>5 DEF TraceIs, FlameIs, FlameAt, CallUntil
<1>8. IsTrace(trace)' /\ CostsAre(trace)'
  BY <1>2, <1>5 DEF TraceIs, IsTrace, CostsAre
<1> QED BY <1>3, <1>4, <1>6, <1>7, <1>8 DEF TraceIs

\* While the program works, its calls may have cost more.
LEMMA WorkTrace ==
  ASSUME StackInv, RequestInv, TraceInv, Work
  PROVE  TraceInv'
<1> SUFFICES ASSUME mode = "trace"
             PROVE  CallDataOK' /\ CallTimes' /\ TraceIs(trace)'
  BY DEF TraceInv, Work, requestVars
<1>1. CallDataOK /\ CallTimes /\ TraceIs(trace) /\ CallStackTypeOK
  BY DEF TraceInv, StackInv, CallStackInv
<1>2. /\ fiber_stacks' = fiber_stacks /\ fiber' = fiber /\ function_count' = function_count
      /\ calls' = calls /\ left_out' = left_out /\ trace' = trace
      /\ now' = now + WorkTakes /\ now \in Nat /\ WorkTakes \in Nat /\ fibers_seen' = fibers_seen
  BY ObserversAssumption DEF Work, callStackVars, traceVars, requestVars, RequestInv
<1>3. CallDataOK'
  BY <1>1, <1>2 DEF CallDataOK
<1>4. ASSUME NEW g \in DOMAIN calls, NEW i \in 1..Len(calls[g])
      PROVE  /\ CallUntil(g, i)' \in Nat /\ CallUntil(g, i) \in Nat /\ calls[g][i].nanotime \in Nat
             /\ calls[g][i].nanotime <= CallUntil(g, i) /\ CallUntil(g, i) <= CallUntil(g, i)'
  <2>1. /\ calls[g][i].nanotime \in Nat /\ calls[g][i].nanotime <= CallUntil(g, i)
        /\ CallUntil(g, i) \in Nat
    BY <1>1, <1>2, CallsBegan
  <2>2. CallUntil(g, i)' = CallUntil(g, i) \/ (CallUntil(g, i) = now /\ CallUntil(g, i)' = now + WorkTakes)
    BY <1>2 DEF CallUntil
  <2> QED BY <1>2, <2>1, <2>2
<1>5. CallTimes'
  <2> SUFFICES ASSUME NEW g \in DOMAIN calls, NEW i \in 1..Len(calls[g])
               PROVE  calls[g][i].nanotime <= CallUntil(g, i)'
    BY <1>2 DEF CallTimes
  <2> QED BY <1>4
<1>6. TextIs(trace)'
  BY <1>1, <1>2 DEF TraceIs, TextIs
<1>7. FlameIs(trace)'
  <2> SUFFICES ASSUME trace.open /\ trace.format = "flamegraph"
               PROVE  /\ \A n \in DOMAIN trace.functions : n <= function_count
                      /\ \A g \in DOMAIN calls : \A i \in 1..Len(calls[g]) : FlameAt(trace, g, i)'
    BY <1>2 DEF FlameIs
  <2>1. \A n \in DOMAIN trace.functions : n <= function_count
    BY <1>1 DEF TraceIs, FlameIs
  <2>2. ASSUME NEW g \in DOMAIN calls, NEW i \in 1..Len(calls[g])
        PROVE  FlameAt(trace, g, i)'
    <3> DEFINE n == fiber_stacks[g][i].function_nr
               b == CallUntil(g, i) - calls[g][i].nanotime
               c == CallUntil(g, i)' - calls[g][i].nanotime
    <3> SUFFICES ASSUME fiber_stacks[g][i].function # FiberMain, n \in DOMAIN trace.functions,
                        n # 0 \/ ~fibers_seen, c < Half
                 PROVE  trace.functions[n] \in 0..c
      BY <1>2 DEF FlameAt
    <3>1. b \in Nat /\ c \in Nat /\ b <= c /\ Half \in Nat
      BY <1>4, <2>2, TracesAssumption
    <3>2. b < Half
      <4> HIDE DEF b, c
      <4> QED BY <3>1
    <3>3. trace.functions[n] \in 0..b
      BY <1>1, <2>2, <3>2 DEF TraceIs, FlameIs, FlameAt
    <3> HIDE DEF b, c, n
    <3> QED BY <3>1, <3>3
  <2> QED BY <2>1, <2>2
<1>8. IsTrace(trace)' /\ CostsAre(trace)'
  BY <1>1, <1>2 DEF TraceIs, IsTrace, CostsAre
<1> QED BY <1>3, <1>5, <1>6, <1>7, <1>8 DEF TraceIs

\* A fiber that starts has a frame no trace follows, and one that ends no other.
LEMMA SwitchTrace ==
  ASSUME StackInv, RequestInv, TraceInv, SwitchFiber
  PROVE  TraceInv'
<1> SUFFICES ASSUME mode = "trace"
             PROVE  CallDataOK' /\ CallTimes' /\ TraceIs(trace)'
  BY DEF TraceInv, SwitchFiber
<1> DEFINE new == <<[nanotime |-> now, filtered_tracing |-> FALSE, function_call_traced |-> FALSE]>>
<1>1. /\ CallDataOK /\ CallTimes /\ TraceIs(trace) /\ CallStackTypeOK /\ FramesSwitched
      /\ CallsInv /\ StackInv'
  BY SwitchedStack DEF TraceInv, StackInv, CallStackInv
<1>2. /\ left_out' = left_out /\ trace' = trace /\ now' = now /\ now \in Nat /\ fibers_seen' = TRUE
      /\ calls' = [g \in DOMAIN fiber_stacks' |-> IF g \in DOMAIN calls THEN calls[g] ELSE new]
      /\ function_count' = function_count
  BY <1>1, ObserversAssumption DEF SwitchFiber, FrameData, RequestInv, FramesSwitched
<1>3. /\ new \in Seq(CallData) /\ Len(new) = 1 /\ new[1].nanotime = now
      /\ Len(NewStack) = 1 /\ NewStack[1].function = FiberMain
  BY <1>2 DEF CallData, NewStack
<1> HIDE DEF new
<1>10. 1..Len(new) = {1} /\ 1..Len(NewStack) = {1}
  <2>1. 1..1 = {1}
    OBVIOUS
  <2> QED BY <1>3, <2>1, Zenon
<1>11. new[1].nanotime = now /\ Len(new) = 1 /\ NewStack[1].function = FiberMain
  BY <1>3
<1>4. ASSUME NEW g \in DOMAIN fiber_stacks'
      PROVE  \/ /\ g \in DOMAIN calls /\ g \in DOMAIN fiber_stacks /\ calls'[g] = calls[g]
                /\ fiber_stacks'[g] = fiber_stacks[g]
             \/ /\ g \notin DOMAIN fiber_stacks
                /\ g # MainFiber /\ calls'[g] = new /\ fiber_stacks'[g] = NewStack
  <2>1. DOMAIN calls = DOMAIN fiber_stacks
    BY <1>1 DEF CallDataOK
  <2> QED BY <1>1, <1>2, <2>1 DEF FramesSwitched
<1>5. CallDataOK'
  <2>1. \A g \in DOMAIN calls' : calls'[g] \in Seq(CallData) /\ Len(calls'[g]) = Len(fiber_stacks'[g])
    BY <1>1, <1>2, <1>3, <1>4 DEF CallDataOK
  <2>2. DOMAIN calls' = DOMAIN fiber_stacks'
    BY <1>2
  <2> QED BY <1>1, <1>2, <2>1, <2>2 DEF CallDataOK
<1>6. CallTimes'
  <2> SUFFICES ASSUME NEW g \in DOMAIN calls', NEW i \in 1..Len(calls'[g])
               PROVE  calls'[g][i].nanotime <= CallUntil(g, i)'
    BY DEF CallTimes
  <2>1. g \in DOMAIN fiber_stacks'
    BY <1>2
  <2>2. CASE g \in DOMAIN calls /\ calls'[g] = calls[g]
    BY <1>1, <1>2, <2>2 DEF CallTimes, CallUntil
  <2>3. CASE calls'[g] = new
    <3>1. i = 1 /\ ~(i < Len(calls'[g]))
      <4>1. i \in 1..Len(new)
        BY <2>3
      <4>2. i = 1
        BY <1>10, <4>1
      <4>3. Len(calls'[g]) = 1
        BY <1>11, <2>3, Zenon
      <4> QED BY <4>2, <4>3
    <3>2. CallUntil(g, i)' = now /\ calls'[g][i].nanotime = now
      BY <1>2, <1>11, <2>3, <3>1 DEF CallUntil
    <3> QED BY <1>2, <3>2
  <2> QED BY <1>4, <2>1, <2>2, <2>3
<1>7. TextIs(trace)'
  <2>1. ASSUME NEW n
        PROVE  n \in TracedNumbers(fiber_stacks', calls', trace.since)
                 <=> n \in TracedNumbers(fiber_stacks, calls, trace.since)
    <3>1. ASSUME n \in TracedNumbers(fiber_stacks', calls', trace.since)
          PROVE  n \in TracedNumbers(fiber_stacks, calls, trace.since)
      <4>0. PICK g \in DOMAIN fiber_stacks' : \E i \in 1..Len(fiber_stacks'[g]) :
              /\ TracedAt(fiber_stacks'[g][i], calls'[g][i], trace.since)
              /\ n = fiber_stacks'[g][i].function_nr
        BY <3>1, TracedMembers
      <4>1. PICK i \in 1..Len(fiber_stacks'[g]) :
              TracedAt(fiber_stacks'[g][i], calls'[g][i], trace.since)
              /\ n = fiber_stacks'[g][i].function_nr
        BY <4>0
      <4>2. CASE fiber_stacks'[g] = NewStack
        <5>1. i \in 1..Len(NewStack)
          BY <4>1, <4>2
        <5> QED BY <1>10, <1>11, <4>1, <4>2, <5>1 DEF TracedAt
      <4>3. CASE /\ g \in DOMAIN fiber_stacks /\ calls'[g] = calls[g]
                 /\ fiber_stacks'[g] = fiber_stacks[g]
        BY <4>1, <4>3, TracedMembers
      <4> QED BY <1>4, <4>2, <4>3
    <3>2. ASSUME n \in TracedNumbers(fiber_stacks, calls, trace.since)
          PROVE  n \in TracedNumbers(fiber_stacks', calls', trace.since)
      <4>0. PICK g \in DOMAIN fiber_stacks : \E i \in 1..Len(fiber_stacks[g]) :
              /\ TracedAt(fiber_stacks[g][i], calls[g][i], trace.since)
              /\ n = fiber_stacks[g][i].function_nr
        BY <3>2, TracedMembers
      <4>1. PICK i \in 1..Len(fiber_stacks[g]) :
              TracedAt(fiber_stacks[g][i], calls[g][i], trace.since)
              /\ n = fiber_stacks[g][i].function_nr
        BY <4>0
      <4>2. g \in DOMAIN fiber_stacks'
        <5> SUFFICES ASSUME g \notin DOMAIN fiber_stacks'
                     PROVE  FALSE
          OBVIOUS
        <5>1. g # MainFiber /\ Len(fiber_stacks[g]) = 1
          BY <1>1 DEF FramesSwitched
        <5>2. fiber_stacks[g][1].function = FiberMain
          BY <1>1, <5>1 DEF CallsInv, FibersBegin
        <5> QED BY <4>1, <5>1, <5>2 DEF TracedAt
      <4>3. calls'[g] = calls[g] /\ fiber_stacks'[g] = fiber_stacks[g]
        BY <1>4, <4>2
      <4> QED BY <4>1, <4>2, <4>3, TracedMembers
    <3> QED BY <3>1, <3>2
  <2>2. TracedNumbers(fiber_stacks', calls', trace.since) = TracedNumbers(fiber_stacks, calls, trace.since)
    BY <2>1
  <2> SUFFICES ASSUME trace.open /\ trace.format = "text",
                      NEW g \in DOMAIN calls', NEW i \in 1..Len(calls'[g]),
                      fiber_stacks'[g][i].function \in BuiltIn,
                      TracedAt(fiber_stacks'[g][i], calls'[g][i], trace.since)
               PROVE  calls'[g][i].function_call_traced
    BY <1>1, <1>2, <2>2 DEF TraceIs, TextIs
  <2>3. g \in DOMAIN fiber_stacks'
    BY <1>2
  <2>4. CASE g \in DOMAIN calls /\ calls'[g] = calls[g] /\ fiber_stacks'[g] = fiber_stacks[g]
    BY <1>1, <2>4 DEF TraceIs, TextIs
  <2>5. CASE calls'[g] = new /\ fiber_stacks'[g] = NewStack
    <3>1. i \in 1..Len(new)
      BY <2>5
    <3> QED BY <1>10, <1>11, <2>5, <3>1 DEF TracedAt
  <2> QED BY <1>4, <2>3, <2>4, <2>5
<1>8. FlameIs(trace)'
  <2> SUFFICES ASSUME trace.open /\ trace.format = "flamegraph"
               PROVE  /\ \A n \in DOMAIN trace.functions : n <= function_count
                      /\ \A g \in DOMAIN calls' : \A i \in 1..Len(calls'[g]) : FlameAt(trace, g, i)'
    BY <1>2 DEF FlameIs
  <2>1. \A n \in DOMAIN trace.functions : n <= function_count
    BY <1>1 DEF TraceIs, FlameIs
  <2>2. ASSUME NEW g \in DOMAIN calls', NEW i \in 1..Len(calls'[g])
        PROVE  FlameAt(trace, g, i)'
    <3>1. g \in DOMAIN fiber_stacks'
      BY <1>2
    <3>2. CASE g \in DOMAIN calls /\ calls'[g] = calls[g] /\ fiber_stacks'[g] = fiber_stacks[g]
      <4>1. FlameAt(trace, g, i)
        BY <1>1, <2>2, <3>2 DEF TraceIs, FlameIs
      <4>2. CallUntil(g, i)' = CallUntil(g, i)
        BY <1>2, <3>2 DEF CallUntil
      <4> QED BY <1>2, <3>2, <4>1, <4>2 DEF FlameAt
    <3>3. CASE calls'[g] = new /\ fiber_stacks'[g] = NewStack
      <4>1. i \in 1..Len(new)
        BY <2>2, <3>3
      <4> QED BY <1>10, <1>11, <3>3, <4>1 DEF FlameAt
    <3> QED BY <1>4, <3>1, <3>2, <3>3
  <2> QED BY <2>1, <2>2
<1>9. IsTrace(trace)' /\ CostsAre(trace)'
  BY <1>1, <1>2 DEF TraceIs, IsTrace, CostsAre
<1> QED BY <1>5, <1>6, <1>7, <1>8, <1>9 DEF TraceIs

\* A call that begins: what runs below it is not disturbed, and has its numbers
\* and times; the trace it is entered in is the one that goes on or the one that
\* starts with it.
LEMMA EnterTrace ==
  ASSUME StackInv, RequestInv, TraceInv, mode = "trace", NEW f \in Functions, AddStackFrame(f),
         NEW tr, TraceIs(tr), CallBegins(f, tr, now),
         UNCHANGED <<left_out, mode, now, fibers_seen>>
  PROVE  TraceInv'
<1> DEFINE n == Len(stack)
           traced == tr.open /\ f \notin left_out
           number == function_count'
           d == [nanotime |-> now, filtered_tracing |-> f \in left_out,
                 function_call_traced |-> traced /\ f \in BuiltIn]
           w == Entry(tr, number)
<1> SUFFICES CallDataOK' /\ CallTimes' /\ TraceIs(trace)'
  BY DEF TraceInv
<1>1. CallDataOK /\ CallTimes /\ CallStackTypeOK /\ StackInv'
  BY PushedStack DEF TraceInv, StackInv, CallStackInv
<1>2. /\ left_out' = left_out /\ now' = now /\ now \in Nat /\ fibers_seen' = fibers_seen
      /\ trace' = (IF traced THEN w ELSE tr)
      /\ calls' = [calls EXCEPT ![fiber] = Append(calls[fiber], d)]
  BY ObserversAssumption DEF RequestInv, CallBegins
<1>3. /\ function_count \in Int /\ number = function_count + 1 /\ number \in 0..MaxCalls
      /\ fiber' = fiber /\ DOMAIN fiber_stacks' = DOMAIN fiber_stacks
      /\ \A g \in DOMAIN fiber_stacks \ {fiber} : fiber_stacks'[g] = fiber_stacks[g]
      /\ Len(fiber_stacks'[fiber]) = n + 1
      /\ \A i \in 1..n : fiber_stacks'[fiber][i] = fiber_stacks[fiber][i]
      /\ fiber_stacks'[fiber][n + 1] = [function |-> f, level |-> n + 1, function_nr |-> number]
  <2>1. function_count \in Int
    BY CallStackAssumption, <1>1 DEF CallStackTypeOK
  <2> QED BY <1>1, <2>1, Pushed DEF stack
<1>4. /\ fiber \in DOMAIN calls /\ DOMAIN calls = DOMAIN fiber_stacks
      /\ calls[fiber] \in Seq(CallData) /\ n \in Nat /\ Len(calls[fiber]) = n
      /\ \A g \in DOMAIN calls : Len(calls[g]) \in Nat /\ Len(calls[g]) = Len(fiber_stacks[g])
  BY <1>1, CallFacts DEF stack
<1>5. /\ d \in CallData /\ d.nanotime = now /\ (d.filtered_tracing <=> f \in left_out)
      /\ (d.function_call_traced <=> traced /\ f \in BuiltIn)
  <2> DEFINE a == f \in left_out
             b == traced /\ f \in BuiltIn
  <2>1. a \in BOOLEAN /\ b \in BOOLEAN /\ d = [nanotime |-> now, filtered_tracing |-> a,
                                               function_call_traced |-> b]
    OBVIOUS
  <2> HIDE DEF a, b, d
  <2>2. d \in CallData /\ d.nanotime = now /\ d.filtered_tracing = a /\ d.function_call_traced = b
    BY <1>2, <2>1 DEF CallData
  <2> QED BY <2>2 DEF a, b
<1> DEFINE new == [function |-> f, level |-> n + 1, function_nr |-> number]
<1>6. new.function = f /\ new.function_nr = number /\ f # FiberMain
  BY CallStackAssumption
<1> HIDE DEF n, d, new, number, w
<1>7. /\ DOMAIN calls' = DOMAIN calls
      /\ \A g \in DOMAIN calls \ {fiber} : calls'[g] = calls[g]
      /\ calls'[fiber] \in Seq(CallData) /\ Len(calls'[fiber]) = n + 1
      /\ \A i \in 1..n : calls'[fiber][i] = calls[fiber][i]
      /\ calls'[fiber][n + 1] = d
  <2>1. calls'[fiber] = Append(calls[fiber], d)
    BY <1>2, <1>4
  <2> QED BY <1>2, <1>4, <1>5, <2>1, AppendProperties
\* The frames there were, and the new one.
<1>8. ASSUME NEW g \in DOMAIN calls, NEW i \in 1..Len(calls[g])
      PROVE  /\ i \in 1..Len(calls'[g]) /\ calls'[g][i] = calls[g][i]
             /\ fiber_stacks'[g][i] = fiber_stacks[g][i] /\ CallUntil(g, i)' = CallUntil(g, i)
  <2>1. CASE g # fiber
    BY <1>2, <1>3, <1>4, <1>7, <2>1 DEF CallUntil
  <2>2. CASE g = fiber
    <3>1. /\ i \in 1..n /\ i \in 1..(n + 1) /\ i < n + 1
          /\ calls'[g][i] = calls[g][i] /\ fiber_stacks'[g][i] = fiber_stacks[g][i]
      BY <1>3, <1>4, <1>7, <2>2
    <3>2. CASE i = n
      <4>1. CallUntil(g, i) = now /\ calls'[g][i + 1] = d /\ i < Len(calls'[g])
        BY <1>4, <1>7, <2>2, <3>1, <3>2 DEF CallUntil
      <4>2. CallUntil(g, i)' = calls'[g][i + 1].nanotime
        BY <4>1 DEF CallUntil
      <4> QED BY <1>5, <1>7, <2>2, <3>1, <4>1, <4>2
    <3>3. CASE i # n
      <4>1. i + 1 \in 1..n /\ i < Len(calls[g]) /\ i < Len(calls'[g])
        BY <1>4, <1>7, <2>2, <3>1, <3>3
      <4>2. calls'[g][i + 1] = calls[g][i + 1]
        BY <1>7, <2>2, <4>1
      <4>3. CallUntil(g, i)' = CallUntil(g, i)
        BY <4>1, <4>2 DEF CallUntil
      <4> QED BY <1>7, <2>2, <3>1, <4>3
    <3> QED BY <3>2, <3>3
  <2> QED BY <2>1, <2>2
<1>9. /\ calls'[fiber][n + 1] = d /\ fiber_stacks'[fiber][n + 1] = new
      /\ n + 1 \in 1..Len(calls'[fiber])
  BY <1>3, <1>4, <1>7 DEF new
<1>10. ASSUME NEW g, NEW i, g = fiber, i = n + 1
       PROVE  CallUntil(g, i)' = now
  <2>1. ~(i < Len(calls'[g]))
    BY <1>4, <1>7, <1>10
  <2> QED BY <1>2, <2>1 DEF CallUntil
<1>11. ASSUME NEW g \in DOMAIN calls', NEW i \in 1..Len(calls'[g])
       PROVE  g \in DOMAIN calls /\ (i \in 1..Len(calls[g]) \/ (g = fiber /\ i = n + 1))
  BY <1>4, <1>7
<1>12. CallDataOK'
  <2>1. \A g \in DOMAIN calls' : calls'[g] \in Seq(CallData) /\ Len(calls'[g]) = Len(fiber_stacks'[g])
    BY <1>1, <1>3, <1>4, <1>7 DEF CallDataOK
  <2> QED BY <1>1, <1>2, <1>3, <1>4, <1>7, <2>1 DEF CallDataOK
<1>13. CallTimes'
  <2> SUFFICES ASSUME NEW g \in DOMAIN calls', NEW i \in 1..Len(calls'[g])
               PROVE  calls'[g][i].nanotime <= CallUntil(g, i)'
    BY DEF CallTimes
  <2>1. CASE i \in 1..Len(calls[g])
    BY <1>1, <1>8, <1>11, <2>1 DEF CallTimes
  <2>2. CASE g = fiber /\ i = n + 1
    BY <1>2, <1>5, <1>9, <1>10, <1>11, <2>2
  <2> QED BY <1>11, <2>1, <2>2
\* The trace, with the call in it if it is followed.
<1>14. TraceIs(tr) /\ IsTrace(tr)
  BY DEF TraceIs
<1>15. /\ IsTrace(trace') /\ trace'.open = tr.open /\ trace'.format = tr.format
       /\ trace'.since = tr.since
       /\ tr.format = "flamegraph" => trace'.lines = tr.lines
  BY <1>2, <1>3, <1>14, EntryIs DEF w
<1>16. TextIs(trace)'
  <2> SUFFICES ASSUME tr.open /\ tr.format = "text"
               PROVE  /\ NumbersIn(trace'.lines, "entry") \ NumbersIn(trace'.lines, "exit")
                            = TracedNumbers(fiber_stacks', calls', tr.since)
                      /\ \A m \in NumbersIn(trace'.lines, "exit") \ NumbersIn(trace'.lines, "entry") :
                           m <= tr.since
                      /\ tr.since <= number
                      /\ \A m \in NumbersIn(trace'.lines, "entry") \cup NumbersIn(trace'.lines, "exit") :
                           m <= number
                      /\ \A g \in DOMAIN calls' : \A i \in 1..Len(calls'[g]) :
                           /\ fiber_stacks'[g][i].function \in BuiltIn
                           /\ TracedAt(fiber_stacks'[g][i], calls'[g][i], tr.since)
                           => calls'[g][i].function_call_traced
    BY <1>15 DEF TextIs, number
  <2>1. /\ NumbersIn(tr.lines, "entry") \ NumbersIn(tr.lines, "exit")
              = TracedNumbers(fiber_stacks, calls, tr.since)
        /\ \A m \in NumbersIn(tr.lines, "exit") \ NumbersIn(tr.lines, "entry") : m <= tr.since
        /\ tr.since <= function_count /\ tr.since \in Int
        /\ \A m \in NumbersIn(tr.lines, "entry") \cup NumbersIn(tr.lines, "exit") : m <= function_count
        /\ \A g \in DOMAIN calls : \A i \in 1..Len(calls[g]) :
             /\ fiber_stacks[g][i].function \in BuiltIn
             /\ TracedAt(fiber_stacks[g][i], calls[g][i], tr.since)
             => calls[g][i].function_call_traced
    <3>1. tr.since \in Int
      BY <1>14, CallStackAssumption DEF IsTrace
    <3> QED BY <1>14, <3>1 DEF TraceIs, TextIs
  <2>2. /\ NumbersIn(trace'.lines, "entry")
              = NumbersIn(tr.lines, "entry") \cup (IF traced THEN {number} ELSE {})
        /\ NumbersIn(trace'.lines, "exit") = NumbersIn(tr.lines, "exit")
    <3>1. CASE traced
      <4>1. PICK line \in Line : /\ line.kind = "entry" /\ line.function_nr = number
                                 /\ w.lines = Append(tr.lines, line)
        BY <1>3, <1>14, EntryIs DEF w
      <4>2. tr.lines \in Seq(Line) /\ trace' = w
        BY <1>2, <1>14, <3>1 DEF IsTrace
      <4>0. \A kind : NumbersIn(Append(tr.lines, line), kind)
              = NumbersIn(tr.lines, kind) \cup (IF line.kind = kind THEN {line.function_nr} ELSE {})
        BY <4>2, LineAdded, Zenon
      <4>3. /\ NumbersIn(w.lines, "entry")
                  = NumbersIn(tr.lines, "entry") \cup (IF line.kind = "entry" THEN {line.function_nr} ELSE {})
            /\ NumbersIn(w.lines, "exit")
                  = NumbersIn(tr.lines, "exit") \cup (IF line.kind = "exit" THEN {line.function_nr} ELSE {})
        BY <4>0, <4>1, Zenon
      <4>4. /\ NumbersIn(w.lines, "entry") = NumbersIn(tr.lines, "entry") \cup {number}
            /\ NumbersIn(w.lines, "exit") = NumbersIn(tr.lines, "exit")
        BY <4>1, <4>3
      <4>5. (IF traced THEN {number} ELSE {}) = {number}
        BY <3>1
      <4> QED BY <4>2, <4>4, <4>5
    <3>2. CASE ~traced
      BY <1>2, <3>2
    <3> QED BY <3>1, <3>2
  <2>3. TracedAt(new, d, tr.since) <=> traced
    BY <1>3, <1>5, <1>6, <2>1 DEF TracedAt
  <2>4. ASSUME NEW m
        PROVE  m \in TracedNumbers(fiber_stacks', calls', tr.since) <=>
                 m \in TracedNumbers(fiber_stacks, calls, tr.since) \/ (traced /\ m = number)
    <3>1. ASSUME m \in TracedNumbers(fiber_stacks', calls', tr.since)
          PROVE  m \in TracedNumbers(fiber_stacks, calls, tr.since) \/ (traced /\ m = number)
      <4>1. PICK g \in DOMAIN fiber_stacks' : \E i \in 1..Len(fiber_stacks'[g]) :
              /\ TracedAt(fiber_stacks'[g][i], calls'[g][i], tr.since)
              /\ m = fiber_stacks'[g][i].function_nr
        BY <3>1, TracedMembers
      <4>2. PICK i \in 1..Len(fiber_stacks'[g]) :
              TracedAt(fiber_stacks'[g][i], calls'[g][i], tr.since)
              /\ m = fiber_stacks'[g][i].function_nr
        BY <4>1
      <4>3. g \in DOMAIN calls' /\ i \in 1..Len(calls'[g])
        BY <1>3, <1>4, <1>7, <1>12 DEF CallDataOK
      <4>4. CASE i \in 1..Len(calls[g])
        <5>1. /\ g \in DOMAIN fiber_stacks /\ i \in 1..Len(fiber_stacks[g])
              /\ calls'[g][i] = calls[g][i] /\ fiber_stacks'[g][i] = fiber_stacks[g][i]
          BY <1>4, <1>8, <1>11, <4>3, <4>4
        <5> QED BY <4>2, <5>1, TracedMembers
      <4>5. CASE g = fiber /\ i = n + 1
        BY <1>6, <1>9, <2>3, <4>2, <4>5
      <4> QED BY <1>11, <4>3, <4>4, <4>5
    <3>2. ASSUME m \in TracedNumbers(fiber_stacks, calls, tr.since)
          PROVE  m \in TracedNumbers(fiber_stacks', calls', tr.since)
      <4>1. PICK g \in DOMAIN fiber_stacks : \E i \in 1..Len(fiber_stacks[g]) :
              TracedAt(fiber_stacks[g][i], calls[g][i], tr.since) /\ m = fiber_stacks[g][i].function_nr
        BY <3>2, TracedMembers
      <4>2. PICK i \in 1..Len(fiber_stacks[g]) :
              TracedAt(fiber_stacks[g][i], calls[g][i], tr.since) /\ m = fiber_stacks[g][i].function_nr
        BY <4>1
      <4>3. /\ g \in DOMAIN fiber_stacks' /\ i \in 1..Len(calls'[g])
            /\ calls'[g][i] = calls[g][i] /\ fiber_stacks'[g][i] = fiber_stacks[g][i]
            /\ g \in DOMAIN calls'
        BY <1>3, <1>4, <1>7, <1>8, <4>2
      <4>4. i \in 1..Len(fiber_stacks'[g])
        BY <1>12, <4>3 DEF CallDataOK
      <4> QED BY <4>2, <4>3, <4>4, TracedMembers
    <3>3. ASSUME traced, m = number
          PROVE  m \in TracedNumbers(fiber_stacks', calls', tr.since)
      <4>1. fiber \in DOMAIN fiber_stacks' /\ n + 1 \in 1..Len(fiber_stacks'[fiber])
        BY <1>3, <1>4
      <4> QED BY <1>6, <1>9, <2>3, <3>3, <4>1, TracedMembers
    <3> QED BY <3>1, <3>2, <3>3
  <2>5. number \notin NumbersIn(tr.lines, "entry") /\ number \notin NumbersIn(tr.lines, "exit")
    BY <1>3, <2>1
  <2>6. NumbersIn(trace'.lines, "entry") \ NumbersIn(trace'.lines, "exit")
          = TracedNumbers(fiber_stacks', calls', tr.since)
    <3> HIDE DEF traced
    <3> QED BY <2>1, <2>2, <2>4, <2>5
  <2>7. \A m \in NumbersIn(trace'.lines, "exit") \ NumbersIn(trace'.lines, "entry") : m <= tr.since
    BY <2>1, <2>2
  <2>8. tr.since <= number
    BY <1>3, <2>1
  <2>9. ASSUME NEW m \in NumbersIn(trace'.lines, "entry") \cup NumbersIn(trace'.lines, "exit")
        PROVE  m <= number
    <3>1. m = number \/ m \in NumbersIn(tr.lines, "entry") \cup NumbersIn(tr.lines, "exit")
      BY <2>2
    <3>2. m \in Int
      <4>1. trace'.lines \in Seq(Line)
        BY <1>15 DEF IsTrace
      <4>2. \A j \in 1..Len(trace'.lines) : trace'.lines[j] \in Line
        BY <4>1, ElementOfSeq
      <4>3. \A j \in 1..Len(trace'.lines) : trace'.lines[j].function_nr \in Nat
        BY <4>2 DEF Line
      <4> QED BY <4>3 DEF NumbersIn
    <3> QED BY <1>3, <2>1, <3>1, <3>2
  <2>10. ASSUME NEW g \in DOMAIN calls', NEW i \in 1..Len(calls'[g]),
                fiber_stacks'[g][i].function \in BuiltIn,
                TracedAt(fiber_stacks'[g][i], calls'[g][i], tr.since)
         PROVE  calls'[g][i].function_call_traced
    <3>1. CASE i \in 1..Len(calls[g])
      BY <1>8, <1>11, <2>1, <2>10, <3>1
    <3>2. CASE g = fiber /\ i = n + 1
      BY <1>5, <1>6, <1>9, <2>3, <2>10, <3>2
    <3> QED BY <1>11, <3>1, <3>2
  <2> QED BY <2>6, <2>7, <2>8, <2>9, <2>10
<1>17. FlameIs(trace)'
  <2> SUFFICES ASSUME tr.open /\ tr.format = "flamegraph"
               PROVE  /\ \A m \in DOMAIN trace'.functions : m <= number
                      /\ \A g \in DOMAIN calls' : \A i \in 1..Len(calls'[g]) : FlameAt(trace, g, i)'
    BY <1>15 DEF FlameIs, number
  <2>1. /\ \A m \in DOMAIN tr.functions : m <= function_count /\ m \in Int
        /\ \A g \in DOMAIN calls : \A i \in 1..Len(calls[g]) : FlameAt(tr, g, i)
    <3>1. MaxCalls \in Nat /\ DOMAIN tr.functions \subseteq 0..MaxCalls
      BY <1>14, CallStackAssumption DEF IsTrace
    <3> QED BY <1>14, <3>1 DEF TraceIs, FlameIs
  <2>2. /\ \A m \in DOMAIN trace'.functions : m \in DOMAIN tr.functions \/ (m = number /\ traced)
        /\ traced => trace'.functions[number] = 0
        /\ \A m \in DOMAIN tr.functions \ {number} : trace'.functions[m] = tr.functions[m]
    <3>1. CASE traced
      BY <1>2, <1>3, <1>14, <3>1, EntryIs DEF w
    <3>2. CASE ~traced
      BY <1>2, <3>2
    <3> QED BY <3>1, <3>2
  <2>3. \A m \in DOMAIN trace'.functions : m <= number
    BY <1>3, <2>1, <2>2
  <2>4. ASSUME NEW g \in DOMAIN calls', NEW i \in 1..Len(calls'[g])
        PROVE  FlameAt(trace, g, i)'
    <3>1. CASE i \in 1..Len(calls[g])
      <4> DEFINE m == fiber_stacks[g][i].function_nr
                 b == CallUntil(g, i) - calls[g][i].nanotime
      <4>1. /\ g \in DOMAIN calls /\ calls'[g][i] = calls[g][i]
            /\ fiber_stacks'[g][i] = fiber_stacks[g][i] /\ CallUntil(g, i)' = CallUntil(g, i)
        BY <1>8, <1>11, <2>4, <3>1
      <4>2. m \in Nat /\ m <= function_count
        BY <1>1, <1>4, <3>1, <4>1, Frames DEF StackInv, CallStackInv
      <4>3. FlameAt(tr, g, i)
        BY <2>1, <3>1, <4>1
      <4>4. m # number
        <5> HIDE DEF m
        <5> QED BY <1>3, <4>2
      <4>5. m \in DOMAIN trace'.functions => m \in DOMAIN tr.functions /\ trace'.functions[m] = tr.functions[m]
        BY <2>2, <4>4
      <4> QED BY <1>2, <4>1, <4>3, <4>5 DEF FlameAt
    <3>2. CASE g = fiber /\ i = n + 1
      <4>1. /\ calls'[g][i].nanotime = now /\ fiber_stacks'[g][i].function_nr = number
            /\ CallUntil(g, i)' = now
        BY <1>5, <1>6, <1>9, <1>10, <3>2
      <4>2. CallUntil(g, i)' - calls'[g][i].nanotime = 0
        BY <1>2, <4>1
      <4>3. number \in DOMAIN trace'.functions => trace'.functions[number] = 0
        <5>1. number \notin DOMAIN tr.functions
          BY <1>3, <2>1
        <5> QED BY <2>2, <5>1
      <4> QED BY <4>1, <4>2, <4>3 DEF FlameAt
    <3> QED BY <1>11, <3>1, <3>2
  <2> QED BY <2>3, <2>4
<1>18. CostsAre(trace)'
  <2> SUFFICES ASSUME NEW i \in 1..Len(trace'.lines), trace'.lines[i].cost < 0
               PROVE  \/ trace'.lines[i].lasted >= Half
                      \/ fibers_seen /\ trace'.lines[i].function_nr = 0
    BY <1>2 DEF CostsAre
  <2>1. CASE trace'.lines = tr.lines
    BY <1>14, <2>1 DEF TraceIs, CostsAre
  <2>2. CASE traced /\ tr.format = "text"
    <3>1. PICK line \in Line : line.cost = 0 /\ w.lines = Append(tr.lines, line)
      BY <1>3, <1>14, <2>2, EntryIs DEF w
    <3>2. /\ tr.lines \in Seq(Line) /\ Len(tr.lines) \in Nat
          /\ trace'.lines = Append(tr.lines, line)
      BY <1>2, <1>14, <2>2, <3>1, LenProperties DEF IsTrace
    <3>3. CASE i = Len(tr.lines) + 1
      <4>1. trace'.lines[i] = line
        BY <3>2, <3>3, AppendProperties
      <4> QED BY <3>1, <4>1
    <3>4. CASE i # Len(tr.lines) + 1
      <4>1. i \in 1..Len(tr.lines) /\ trace'.lines[i] = tr.lines[i]
        BY <3>2, <3>4, AppendProperties
      <4> QED BY <1>14, <4>1 DEF TraceIs, CostsAre
    <3> QED BY <3>3, <3>4
  <2> QED BY <1>2, <1>14, <1>15, <2>1, <2>2 DEF IsTrace
<1>19. IsTrace(trace)'
  BY <1>15 DEF IsTrace
<1> QED BY <1>12, <1>13, <1>16, <1>17, <1>18, <1>19 DEF TraceIs

\* A call that ends: its frame is gone, and the one below runs until now.
LEMMA LeaveTrace ==
  ASSUME StackInv, RequestInv, TraceInv, mode = "trace", PopFrame, CallEnds(now),
         UNCHANGED <<left_out, mode, now, fibers_seen>>
  PROVE  TraceInv'
<1> DEFINE n == Len(stack)
           c == calls[fiber][n]
           m == Top.function_nr
           parents == IF n = 1 THEN {} ELSE {stack[n - 1].function_nr}
           lasted == now - c.nanotime
           traced == /\ trace.open /\ ~c.filtered_tracing
                     /\ IsUserDefined(Top.function) \/ c.function_call_traced
           w == Exit(trace, m, parents, lasted)
<1> SUFFICES CallDataOK' /\ CallTimes' /\ TraceIs(trace)'
  BY DEF TraceInv
<1>1. /\ CallDataOK /\ CallTimes /\ CallStackTypeOK /\ TraceIs(trace) /\ StackInv'
      /\ LevelsAndNumbers
  BY PoppedStack DEF TraceInv, StackInv, CallStackInv
<1>2. /\ left_out' = left_out /\ now' = now /\ now \in Nat /\ fibers_seen' = fibers_seen
      /\ trace' = (IF traced THEN w ELSE trace)
      /\ calls' = [calls EXCEPT ![fiber] = SubSeq(calls[fiber], 1, n - 1)]
  BY ObserversAssumption DEF RequestInv, CallEnds
<1>3. /\ fiber \in DOMAIN calls /\ DOMAIN calls = DOMAIN fiber_stacks
      /\ calls[fiber] \in Seq(CallData) /\ n \in Nat /\ n > 0 /\ Len(calls[fiber]) = n
      /\ Len(fiber_stacks[fiber]) = n
      /\ \A g \in DOMAIN calls : Len(calls[g]) \in Nat /\ Len(calls[g]) = Len(fiber_stacks[g])
  BY <1>1, CallFacts DEF stack, PopFrame, MayLeave
<1>4. /\ fiber' = fiber /\ DOMAIN fiber_stacks' = DOMAIN fiber_stacks
      /\ function_count' = function_count /\ function_count \in Int
      /\ \A g \in DOMAIN fiber_stacks \ {fiber} : fiber_stacks'[g] = fiber_stacks[g]
      /\ Len(fiber_stacks'[fiber]) = n - 1
      /\ \A i \in 1..(n - 1) : fiber_stacks'[fiber][i] = fiber_stacks[fiber][i]
      /\ fiber_stacks[fiber][n] = Top /\ Top.function \in Functions
      /\ Top.function # FiberMain /\ m \in Nat /\ m <= function_count
  <2>1. Top = fiber_stacks[fiber][n] /\ n \in 1..Len(fiber_stacks[fiber])
    BY <1>3 DEF Top, stack
  <2>2. /\ function_count \in Int /\ Top \in Frame /\ Top.function_nr \in Nat
        /\ Top.function_nr <= function_count
    BY <1>1, <1>3, <2>1, Frames
  <2>3. Top.function # FiberMain /\ Top.function \in Functions
    BY <2>2 DEF PopFrame, MayLeave, Frame
  <2> QED BY <1>1, <2>1, <2>2, <2>3, Popped DEF stack
<1> HIDE DEF n, m, c, lasted, w
<1>5. /\ c = calls[fiber][n] /\ c \in CallData /\ c.nanotime \in Nat /\ c.nanotime <= now
      /\ lasted \in Nat /\ lasted = now - c.nanotime /\ CallUntil(fiber, n) = now
  <2>1. CallUntil(fiber, n) = now /\ n \in 1..Len(calls[fiber])
    BY <1>3 DEF CallUntil
  <2>2. c = calls[fiber][n] /\ c \in CallData /\ c.nanotime \in Nat /\ c.nanotime <= now
    BY <1>1, <1>2, <1>3, <2>1, CallFacts, CallsBegan DEF c
  <2> QED BY <1>2, <2>1, <2>2 DEF lasted
<1>6. /\ DOMAIN calls' = DOMAIN calls
      /\ \A g \in DOMAIN calls \ {fiber} : calls'[g] = calls[g]
      /\ calls'[fiber] \in Seq(CallData) /\ Len(calls'[fiber]) = n - 1
      /\ \A i \in 1..(n - 1) : calls'[fiber][i] = calls[fiber][i]
  <2>1. calls'[fiber] = SubSeq(calls[fiber], 1, n - 1)
    BY <1>2, <1>3
  <2>2. /\ SubSeq(calls[fiber], 1, n - 1) \in Seq(CallData)
        /\ Len(SubSeq(calls[fiber], 1, n - 1)) = n - 1
        /\ \A i \in 1..(n - 1) : SubSeq(calls[fiber], 1, n - 1)[i] = calls[fiber][i]
    BY <1>3, SubSeqProperties
  <2> QED BY <1>2, <1>3, <2>1, <2>2
\* The frames that stay.
<1>7. ASSUME NEW g \in DOMAIN calls', NEW i \in 1..Len(calls'[g])
      PROVE  /\ g \in DOMAIN calls /\ i \in 1..Len(calls[g]) /\ i \in 1..Len(fiber_stacks[g])
             /\ calls'[g][i] = calls[g][i] /\ fiber_stacks'[g][i] = fiber_stacks[g][i]
             /\ ~(g = fiber /\ i = n)
  BY <1>3, <1>4, <1>6
<1>8. ASSUME NEW g \in DOMAIN calls', NEW i \in 1..Len(calls'[g])
      PROVE  IF g = fiber /\ i = n - 1
             THEN CallUntil(g, i)' = now /\ CallUntil(g, i) = c.nanotime
             ELSE CallUntil(g, i)' = CallUntil(g, i)
  <2>1. CASE g = fiber /\ i = n - 1
    <3>1. ~(i < Len(calls'[g])) /\ i < Len(calls[g]) /\ i + 1 = n
      BY <1>3, <1>6, <2>1
    <3> QED BY <1>2, <1>5, <2>1, <3>1 DEF CallUntil
  <2>2. CASE g = fiber /\ i # n - 1
    <3>1. i < Len(calls'[g]) /\ i < Len(calls[g]) /\ i + 1 \in 1..(n - 1)
      BY <1>3, <1>6, <2>2
    <3>2. calls'[g][i + 1] = calls[g][i + 1]
      BY <1>6, <2>2, <3>1
    <3> QED BY <2>2, <3>1, <3>2 DEF CallUntil
  <2>3. CASE g # fiber
    BY <1>2, <1>6, <2>3 DEF CallUntil
  <2> QED BY <2>1, <2>2, <2>3
<1>9. ASSUME NEW g \in DOMAIN calls, NEW i \in 1..Len(calls[g]), ~(g = fiber /\ i = n)
      PROVE  g \in DOMAIN calls' /\ i \in 1..Len(calls'[g]) /\ i \in 1..Len(fiber_stacks'[g])
  <2>1. CASE g = fiber
    BY <1>3, <1>4, <1>6, <1>9, <2>1
  <2>2. CASE g # fiber
    BY <1>3, <1>4, <1>6, <2>2
  <2> QED BY <2>1, <2>2
<1>10. ASSUME NEW g \in DOMAIN calls', NEW i \in 1..Len(calls'[g]),
              fiber_stacks[g][i].function # FiberMain
       PROVE  fiber_stacks[g][i].function_nr # m
  <2>1. NumbersUnique
    BY DEF StackInv, CallsInv
  <2>2. /\ g \in DOMAIN fiber_stacks /\ i \in 1..Len(fiber_stacks[g])
        /\ fiber \in DOMAIN fiber_stacks /\ n \in 1..Len(fiber_stacks[fiber])
        /\ ~(g = fiber /\ i = n)
    BY <1>3, <1>7
  <2>3. fiber_stacks[fiber][n].function # FiberMain /\ fiber_stacks[fiber][n].function_nr = m
    BY <1>4 DEF m
  <2> QED BY <1>10, <2>1, <2>2, <2>3 DEF NumbersUnique
<1>11. CallDataOK'
  <2>1. \A g \in DOMAIN calls' : calls'[g] \in Seq(CallData) /\ Len(calls'[g]) = Len(fiber_stacks'[g])
    BY <1>1, <1>3, <1>4, <1>6 DEF CallDataOK
  <2> QED BY <1>1, <1>2, <1>3, <1>4, <1>6, <2>1 DEF CallDataOK
<1>12. ASSUME NEW g \in DOMAIN calls', NEW i \in 1..Len(calls'[g])
       PROVE  /\ calls[g][i].nanotime \in Nat /\ CallUntil(g, i) \in Nat /\ CallUntil(g, i)' \in Nat
              /\ calls[g][i].nanotime <= CallUntil(g, i) /\ CallUntil(g, i) <= CallUntil(g, i)'
  <2>1. /\ calls[g][i].nanotime \in Nat /\ CallUntil(g, i) \in Nat
        /\ calls[g][i].nanotime <= CallUntil(g, i)
    BY <1>1, <1>2, <1>7, CallsBegan
  <2>2. (CallUntil(g, i)' = now /\ CallUntil(g, i) = c.nanotime) \/ CallUntil(g, i)' = CallUntil(g, i)
    BY <1>8
  <2> QED BY <1>2, <1>5, <2>1, <2>2
<1>13. CallTimes'
  <2> SUFFICES ASSUME NEW g \in DOMAIN calls', NEW i \in 1..Len(calls'[g])
               PROVE  calls'[g][i].nanotime <= CallUntil(g, i)'
    BY DEF CallTimes
  <2>1. calls'[g][i].nanotime = calls[g][i].nanotime
    BY <1>7
  <2> QED BY <1>12, <2>1
\* The trace, with the call's last line if it is followed.
<1>14. IsTrace(trace) /\ m \in Nat /\ lasted \in Int
  BY <1>1, <1>4, <1>5 DEF TraceIs
<1>15. /\ IsTrace(trace') /\ trace'.open = trace.open /\ trace'.format = trace.format
       /\ trace'.since = trace.since
  BY <1>2, <1>14, ExitIs DEF w
<1>16. TextIs(trace)'
  <2> DEFINE T == TracedNumbers(fiber_stacks, calls, trace.since)
             U == TracedNumbers(fiber_stacks', calls', trace.since)
  <2>2. trace.since \in Int
    <3>1. trace.since \in -1..MaxCalls
      BY <1>14 DEF IsTrace
    <3> QED BY <3>1, CallStackAssumption
  <2> SUFFICES ASSUME trace.open /\ trace.format = "text"
               PROVE  /\ NumbersIn(trace'.lines, "entry") \ NumbersIn(trace'.lines, "exit") = U
                      /\ \A x \in NumbersIn(trace'.lines, "exit") \ NumbersIn(trace'.lines, "entry") :
                           x <= trace.since
                      /\ trace.since <= function_count
                      /\ \A x \in NumbersIn(trace'.lines, "entry") \cup NumbersIn(trace'.lines, "exit") :
                           x <= function_count
                      /\ \A g \in DOMAIN calls' : \A i \in 1..Len(calls'[g]) :
                           /\ fiber_stacks'[g][i].function \in BuiltIn
                           /\ TracedAt(fiber_stacks'[g][i], calls'[g][i], trace.since)
                           => calls'[g][i].function_call_traced
    BY <1>4, <1>15 DEF TextIs
  <2>1. /\ NumbersIn(trace.lines, "entry") \ NumbersIn(trace.lines, "exit") = T
        /\ \A x \in NumbersIn(trace.lines, "exit") \ NumbersIn(trace.lines, "entry") : x <= trace.since
        /\ trace.since <= function_count
        /\ \A x \in NumbersIn(trace.lines, "entry") \cup NumbersIn(trace.lines, "exit") :
             x <= function_count
        /\ \A g \in DOMAIN calls : \A i \in 1..Len(calls[g]) :
             /\ fiber_stacks[g][i].function \in BuiltIn
             /\ TracedAt(fiber_stacks[g][i], calls[g][i], trace.since)
             => calls[g][i].function_call_traced
    <3>1. TextIs(trace)
      BY <1>1 DEF TraceIs
    <3> HIDE DEF parents, traced, w, U
    <3> QED BY <3>1, Zenon DEF TextIs
  <2>3. /\ NumbersIn(trace'.lines, "entry") = NumbersIn(trace.lines, "entry")
        /\ traced => NumbersIn(trace'.lines, "exit") = NumbersIn(trace.lines, "exit") \cup {m}
        /\ ~traced => NumbersIn(trace'.lines, "exit") = NumbersIn(trace.lines, "exit")
    <3>1. CASE traced
      <4>1. PICK line \in Line : /\ line.kind = "exit" /\ line.function_nr = m
                                 /\ w.lines = Append(trace.lines, line)
        <5> HIDE DEF parents, traced, T, U
        <5>1. \E line \in Line :
                /\ line.kind = "exit" /\ line.function_nr = m
                /\ Exit(trace, m, parents, lasted).lines = Append(trace.lines, line)
          <6>1. trace.format = "text"
            OBVIOUS
          <6> HIDE DEF w
          <6> QED BY ONLY <1>14, <6>1, LineOfExit
        <5> QED BY <5>1, Zenon DEF w
      <4>2. trace.lines \in Seq(Line) /\ trace' = w
        BY <1>2, <1>14, <3>1 DEF IsTrace
      <4>3. \A kind : NumbersIn(Append(trace.lines, line), kind)
              = NumbersIn(trace.lines, kind) \cup (IF line.kind = kind THEN {line.function_nr} ELSE {})
        BY <4>2, LineAdded, Zenon
      <4>4. /\ NumbersIn(w.lines, "entry")
                  = NumbersIn(trace.lines, "entry") \cup (IF line.kind = "entry" THEN {line.function_nr} ELSE {})
            /\ NumbersIn(w.lines, "exit")
                  = NumbersIn(trace.lines, "exit") \cup (IF line.kind = "exit" THEN {line.function_nr} ELSE {})
        BY <4>1, <4>3, Zenon
      <4>5. /\ NumbersIn(w.lines, "entry") = NumbersIn(trace.lines, "entry")
            /\ NumbersIn(w.lines, "exit") = NumbersIn(trace.lines, "exit") \cup {m}
        BY <4>1, <4>4
      <4> QED BY <3>1, <4>2, <4>5
    <3>2. CASE ~traced
      BY <1>2, <3>2
    <3> QED BY <3>1, <3>2
  <2> HIDE DEF traced
  <2>4. ASSUME NEW x
        PROVE  x \in U <=> x \in T /\ x # m
    <3>1. ASSUME x \in U
          PROVE  x \in T /\ x # m
      <4>1. PICK g \in DOMAIN fiber_stacks' : \E i \in 1..Len(fiber_stacks'[g]) :
              /\ TracedAt(fiber_stacks'[g][i], calls'[g][i], trace.since)
              /\ x = fiber_stacks'[g][i].function_nr
        BY <3>1, TracedMembers
      <4>2. PICK i \in 1..Len(fiber_stacks'[g]) :
              /\ TracedAt(fiber_stacks'[g][i], calls'[g][i], trace.since)
              /\ x = fiber_stacks'[g][i].function_nr
        BY <4>1
      <4>3. g \in DOMAIN calls' /\ i \in 1..Len(calls'[g])
        BY <1>3, <1>4, <1>6, <1>11 DEF CallDataOK
      <4>4. /\ g \in DOMAIN fiber_stacks /\ i \in 1..Len(fiber_stacks[g])
            /\ TracedAt(fiber_stacks[g][i], calls[g][i], trace.since)
            /\ x = fiber_stacks[g][i].function_nr
        BY <1>3, <1>7, <4>2, <4>3
      <4>5. x # m
        BY <1>10, <4>3, <4>4 DEF TracedAt
      <4> QED BY <4>4, <4>5, TracedMembers
    <3>2. ASSUME x \in T, x # m
          PROVE  x \in U
      <4>1. PICK g \in DOMAIN fiber_stacks : \E i \in 1..Len(fiber_stacks[g]) :
              TracedAt(fiber_stacks[g][i], calls[g][i], trace.since) /\ x = fiber_stacks[g][i].function_nr
        BY <3>2, TracedMembers
      <4>2. PICK i \in 1..Len(fiber_stacks[g]) :
              TracedAt(fiber_stacks[g][i], calls[g][i], trace.since) /\ x = fiber_stacks[g][i].function_nr
        BY <4>1
      <4>3. ~(g = fiber /\ i = n)
        BY <1>4, <3>2, <4>2 DEF m
      <4>4. g \in DOMAIN calls /\ i \in 1..Len(calls[g])
        BY <1>3
      <4>5. g \in DOMAIN calls' /\ i \in 1..Len(calls'[g]) /\ i \in 1..Len(fiber_stacks'[g])
        BY <1>9, <4>3, <4>4
      <4>6. calls'[g][i] = calls[g][i] /\ fiber_stacks'[g][i] = fiber_stacks[g][i]
        BY <1>7, <4>5
      <4>7. g \in DOMAIN fiber_stacks'
        BY <1>4
      <4> QED BY <4>2, <4>5, <4>6, <4>7, TracedMembers
    <3> QED BY <3>1, <3>2
  <2>5. m \in T <=> TracedAt(Top, c, trace.since)
    <3>1. ASSUME m \in T
          PROVE  TracedAt(Top, c, trace.since)
      <4>1. PICK g \in DOMAIN fiber_stacks : \E i \in 1..Len(fiber_stacks[g]) :
              TracedAt(fiber_stacks[g][i], calls[g][i], trace.since) /\ m = fiber_stacks[g][i].function_nr
        BY <3>1, TracedMembers
      <4>2. PICK i \in 1..Len(fiber_stacks[g]) :
              TracedAt(fiber_stacks[g][i], calls[g][i], trace.since) /\ m = fiber_stacks[g][i].function_nr
        BY <4>1
      <4>3. g \in DOMAIN calls /\ i \in 1..Len(calls[g])
        BY <1>3
      <4>4. fiber_stacks[g][i].function # FiberMain
        BY <4>2 DEF TracedAt
      <4>5. g = fiber /\ i = n
        BY <1>9, <1>10, <4>2, <4>3, <4>4
      <4> QED BY <1>4, <1>5, <4>2, <4>5
    <3>2. ASSUME TracedAt(Top, c, trace.since)
          PROVE  m \in T
      <4>1. /\ fiber \in DOMAIN fiber_stacks /\ n \in 1..Len(fiber_stacks[fiber])
            /\ TracedAt(fiber_stacks[fiber][n], calls[fiber][n], trace.since)
            /\ m = fiber_stacks[fiber][n].function_nr
        BY <1>3, <1>4, <1>5, <3>2 DEF m
      <4> QED BY <4>1, TracedMembers
    <3> QED BY <3>1, <3>2
  <2>6. /\ ~traced => m \notin T
        /\ traced => m \in T \/ m <= trace.since
    <3>1. CASE traced
      <4>1. ~c.filtered_tracing
        BY <3>1 DEF traced
      <4> QED BY <1>4, <2>2, <2>5, <3>1, <4>1 DEF TracedAt, m
    <3>2. ASSUME ~traced, m \in T
          PROVE  FALSE
      <4>1. TracedAt(Top, c, trace.since)
        BY <2>5, <3>2
      <4>2. ~c.filtered_tracing
        BY <4>1 DEF TracedAt
      <4>3. Top.function \in BuiltIn /\ ~c.function_call_traced
        BY <1>4, <3>2, <4>2 DEF traced, IsUserDefined
      <4> QED BY <1>3, <1>4, <1>5, <2>1, <4>1, <4>3
    <3> QED BY <3>1, <3>2
  <2> HIDE DEF T, U
  <2>7. NumbersIn(trace'.lines, "entry") \ NumbersIn(trace'.lines, "exit") = U
    <3>1. CASE traced
      BY <2>1, <2>3, <2>4, <3>1
    <3>2. CASE ~traced
      BY <2>1, <2>3, <2>4, <2>6, <3>2
    <3> QED BY <3>1, <3>2
  <2>8. \A x \in NumbersIn(trace'.lines, "exit") \ NumbersIn(trace'.lines, "entry") : x <= trace.since
    BY <2>1, <2>3, <2>6
  <2>9. \A x \in NumbersIn(trace'.lines, "entry") \cup NumbersIn(trace'.lines, "exit") :
          x <= function_count
    BY <1>4, <2>1, <2>3
  <2>10. ASSUME NEW g \in DOMAIN calls', NEW i \in 1..Len(calls'[g]),
                fiber_stacks'[g][i].function \in BuiltIn,
                TracedAt(fiber_stacks'[g][i], calls'[g][i], trace.since)
         PROVE  calls'[g][i].function_call_traced
    BY <1>7, <2>1, <2>10
  <2> QED BY <2>1, <2>7, <2>8, <2>9, <2>10
<1>17. FlameIs(trace)'
  <2> SUFFICES ASSUME trace.open /\ trace.format = "flamegraph"
               PROVE  /\ \A x \in DOMAIN trace'.functions : x <= function_count
                      /\ \A g \in DOMAIN calls' : \A i \in 1..Len(calls'[g]) : FlameAt(trace, g, i)'
    BY <1>4, <1>15 DEF FlameIs
  <2>1. /\ \A x \in DOMAIN trace.functions : x <= function_count
        /\ \A g \in DOMAIN calls : \A i \in 1..Len(calls[g]) : FlameAt(trace, g, i)
    BY <1>1 DEF TraceIs, FlameIs
  <2>2. \/ trace' = trace
        \/ /\ DOMAIN trace'.functions = DOMAIN trace.functions \ {m}
           /\ \A x \in DOMAIN trace'.functions :
                trace'.functions[x] = IF x \in parents THEN ToInt(trace.functions[x] + ToInt(lasted))
                                      ELSE trace.functions[x]
    <3> HIDE DEF parents
    <3> QED BY <1>2, <1>14, ExitIs DEF w
  <2>3. \A x \in DOMAIN trace'.functions : x \in DOMAIN trace.functions /\ x <= function_count
    BY <2>1, <2>2
  <2>4. ASSUME NEW g \in DOMAIN calls', NEW i \in 1..Len(calls'[g])
        PROVE  FlameAt(trace, g, i)'
    <3> DEFINE k == fiber_stacks[g][i].function_nr
               b == CallUntil(g, i) - calls[g][i].nanotime
               a == CallUntil(g, i)' - calls[g][i].nanotime
    <3> SUFFICES ASSUME fiber_stacks[g][i].function # FiberMain, k \in DOMAIN trace'.functions,
                        k # 0 \/ ~fibers_seen, a < Half
                 PROVE  trace'.functions[k] \in 0..a
      <4>1. calls'[g][i] = calls[g][i] /\ fiber_stacks'[g][i] = fiber_stacks[g][i]
        BY <1>7
      <4>2. fibers_seen' = fibers_seen
        BY <1>2
      <4> QED BY <4>1, <4>2 DEF FlameAt
    <3>1. b \in Nat /\ a \in Nat /\ b <= a /\ Half \in Nat
      <4>1. /\ calls[g][i].nanotime \in Nat /\ CallUntil(g, i) \in Nat /\ CallUntil(g, i)' \in Nat
            /\ calls[g][i].nanotime <= CallUntil(g, i) /\ CallUntil(g, i) <= CallUntil(g, i)'
        BY <1>12
      <4> DEFINE t == calls[g][i].nanotime
                 u == CallUntil(g, i)
                 v == CallUntil(g, i)'
      <4>2. t \in Nat /\ u \in Nat /\ v \in Nat /\ t <= u /\ u <= v
        BY <4>1
      <4>3. Half \in Nat
        BY TracesAssumption
      <4> HIDE DEF t, u, v
      <4>4. u - t \in Nat /\ v - t \in Nat /\ u - t <= v - t
        BY <4>2
      <4> QED BY <4>3, <4>4 DEF t, u, v
    <3>2. b < Half
      <4> HIDE DEF a, b
      <4> QED BY <3>1
    <3>3. trace.functions[k] \in 0..b
      BY <1>7, <2>1, <2>3, <3>2 DEF FlameAt
    <3>4. CASE trace'.functions[k] = trace.functions[k]
      <4> HIDE DEF a, b, k
      <4> QED BY <3>1, <3>3, <3>4
    <3>5. CASE k \in parents /\ trace'.functions[k] = ToInt(trace.functions[k] + ToInt(lasted))
      <4>1. n # 1 /\ k = stack[n - 1].function_nr
        BY <3>5
      <4>2. g = fiber /\ i = n - 1
        <5>1. /\ n - 1 \in 1..Len(fiber_stacks[fiber]) /\ stack[n - 1] = fiber_stacks[fiber][n - 1]
              /\ fiber \in DOMAIN fiber_stacks
          BY <1>3, <4>1 DEF stack
        <5>2. stack[n - 1].function # FiberMain
          <6> SUFFICES ASSUME stack[n - 1].function = FiberMain
                       PROVE  FALSE
            OBVIOUS
          <6>1. k = 0
            BY <4>1, <5>1 DEF StackInv, Uncounted
          <6>2. fiber # MainFiber
            BY <5>1 DEF StackInv, CallsInv, FibersBegin
          <6>3. MainFiber \in DOMAIN fiber_stacks /\ fibers_seen \in BOOLEAN
            BY <1>1 DEF CallStackTypeOK, RequestInv
          <6>4. fibers_seen
            BY <5>1, <6>2, <6>3 DEF RequestInv
          <6> QED BY <6>1, <6>4
        <5>3. g \in DOMAIN fiber_stacks /\ i \in 1..Len(fiber_stacks[g])
          BY <1>3, <1>7
        <5>4. NumbersUnique
          BY DEF StackInv, CallsInv
        <5> QED BY <4>1, <5>1, <5>2, <5>3, <5>4 DEF NumbersUnique
      <4>3. /\ b = c.nanotime - calls[g][i].nanotime /\ a = now - calls[g][i].nanotime
            /\ calls[g][i].nanotime \in Nat
        BY <1>8, <1>12, <4>2
      <4>4. b + lasted = a
        <5> HIDE DEF a, b
        <5> QED BY <1>2, <1>5, <4>3
      <4> DEFINE v == trace.functions[k]
      <4>5. v \in 0..b /\ trace'.functions[k] = ToInt(v + ToInt(lasted))
        BY <3>3, <3>5
      <4> HIDE DEF a, b, v
      <4>6. lasted \in Nat /\ lasted < Half /\ v + lasted \in Nat /\ v + lasted < Half /\ v + lasted <= a
        <5>1. v \in Nat /\ v <= b /\ lasted \in Nat /\ a < Half
          BY <1>5, <3>1, <4>5 DEF a
        <5> QED BY <3>1, <4>4, <5>1
      <4>7. ToInt(lasted) = lasted /\ ToInt(v + lasted) = v + lasted
        BY <4>6, ToIntKeeps
      <4> QED BY <3>1, <4>5, <4>6, <4>7
    <3> HIDE DEF a, b, k, parents
    <3> QED BY <2>2, <3>4, <3>5
  <2> QED BY <2>3, <2>4
<1>18. CostsAre(trace)'
  <2> SUFFICES ASSUME NEW i \in 1..Len(trace'.lines), trace'.lines[i].cost < 0
               PROVE  \/ trace'.lines[i].lasted >= Half
                      \/ fibers_seen /\ trace'.lines[i].function_nr = 0
    BY <1>2 DEF CostsAre
  <2>1. CASE trace'.lines = trace.lines
    BY <1>1, <2>1 DEF TraceIs, CostsAre
  <2>2. ASSUME traced, NEW line \in Line, w.lines = Append(trace.lines, line),
               line.cost < 0 => line.lasted >= Half \/ (fibers_seen /\ line.function_nr = 0)
        PROVE  \/ trace'.lines[i].lasted >= Half
               \/ fibers_seen /\ trace'.lines[i].function_nr = 0
    <3>1. /\ trace.lines \in Seq(Line) /\ Len(trace.lines) \in Nat
          /\ trace'.lines = Append(trace.lines, line)
      BY <1>2, <1>14, <2>2, LenProperties DEF IsTrace
    <3>2. CASE i = Len(trace.lines) + 1
      <4>1. trace'.lines[i] = line
        BY <3>1, <3>2, AppendProperties
      <4> QED BY <2>2, <4>1
    <3>3. CASE i # Len(trace.lines) + 1
      <4>1. i \in 1..Len(trace.lines) /\ trace'.lines[i] = trace.lines[i]
        BY <3>1, <3>3, AppendProperties
      <4> QED BY <1>1, <4>1 DEF TraceIs, CostsAre
    <3> QED BY <3>2, <3>3
  <2>3. CASE traced /\ trace.format = "text"
    <3>1. PICK line \in Line : line.cost = 0 /\ w.lines = Append(trace.lines, line)
      BY <1>14, <2>3, ExitIs DEF w
    <3> QED BY <2>2, <2>3, <3>1
  <2>4. CASE traced /\ trace.format = "flamegraph" /\ m \in DOMAIN trace.functions
    <3>1. PICK line \in Line : /\ line.function_nr = m /\ line.lasted = lasted
                               /\ line.cost = ToInt(ToInt(lasted) - trace.functions[m])
                               /\ w.lines = Append(trace.lines, line)
      <4> HIDE DEF parents
      <4> QED BY <1>14, <2>4, ExitIs DEF w
    <3>2. ASSUME lasted < Half, m # 0 \/ ~fibers_seen
          PROVE  line.cost >= 0
      <4> DEFINE v == trace.functions[m]
      <4>1. FlameAt(trace, fiber, n)
        <5>1. trace.open /\ n \in 1..Len(calls[fiber])
          BY <1>3, <2>4
        <5> QED BY <1>1, <1>3, <2>4, <5>1 DEF TraceIs, FlameIs
      <4>2. CallUntil(fiber, n) - calls[fiber][n].nanotime = lasted
        BY <1>5
      <4>3. v \in 0..lasted
        BY <1>4, <2>4, <3>2, <4>1, <4>2 DEF FlameAt, m
      <4>4. line.cost = ToInt(ToInt(lasted) - v)
        BY <3>1
      <4> HIDE DEF v
      <4>5. /\ lasted \in Nat /\ Half \in Nat /\ lasted - v \in Int
            /\ 0 <= lasted - v /\ lasted - v < Half
        BY <1>5, <3>2, <4>3, TracesAssumption
      <4>6. ToInt(lasted) = lasted /\ ToInt(lasted - v) = lasted - v
        BY <3>2, <4>5, ToIntKeeps
      <4> QED BY <4>4, <4>5, <4>6
    <3>3. line.cost \in Int /\ lasted \in Int /\ Half \in Int
      BY <1>14, TracesAssumption DEF Line
    <3>4. line.cost < 0 => line.lasted >= Half \/ (fibers_seen /\ line.function_nr = 0)
      BY <3>1, <3>2, <3>3
    <3> QED BY <2>2, <2>4, <3>1, <3>4
  <2>5. CASE trace.format = "flamegraph" /\ m \notin DOMAIN trace.functions
    <3>1. trace' = trace
      BY <1>2, <1>14, <2>5, ExitIs DEF w
    <3> QED BY <2>1, <3>1
  <2>6. CASE ~traced
    <3>1. trace' = trace
      BY <1>2, <2>6
    <3> QED BY <2>1, <3>1
  <2>7. trace.format \in {"text", "flamegraph"}
    BY <1>14 DEF IsTrace
  <2> HIDE DEF traced
  <2> QED BY <2>3, <2>4, <2>5, <2>6, <2>7
<1>19. IsTrace(trace)'
  BY <1>15 DEF IsTrace
<1> QED BY <1>11, <1>13, <1>16, <1>17, <1>18, <1>19 DEF TraceIs

\* Every step keeps the trace right.
LEMMA TraceStep ==
  ASSUME StackInv, RequestInv, TraceInv, [Next]_vars
  PROVE  TraceInv'
<1>1. ASSUME NEW f \in Functions, Enter(f)
      PROVE  TraceInv'
  <2>1. UNCHANGED <<mode, now, fibers_seen>> /\ AddStackFrame(f)
    BY <1>1 DEF Enter, requestVars
  <2>2. CASE mode = "trace"
    <3>1. TraceEnter(f)
      BY <1>1, <2>2 DEF Enter
    <3>2. PICK tr \in {trace, Started("text"), Started("flamegraph")} : CallBegins(f, tr, now)
      BY <3>1 DEF TraceEnter
    <3>3. CallDataOK /\ TraceIs(trace) /\ UNCHANGED left_out
      BY <2>2, <3>1 DEF TraceInv, TraceEnter
    <3>4. TraceIs(tr)
      BY <3>2, <3>3, TraceStarts
    <3> QED BY <2>1, <2>2, <3>2, <3>3, <3>4, EnterTrace
  <2>3. CASE mode # "trace"
    BY <2>1, <2>3 DEF TraceInv
  <2> QED BY <2>2, <2>3
<1>2. CASE Leave
  <2>1. UNCHANGED <<mode, now, fibers_seen>> /\ PopFrame
    BY <1>2 DEF Leave, requestVars
  <2>2. CASE mode = "trace"
    <3>1. CallEnds(now) /\ UNCHANGED left_out
      BY <1>2, <2>2 DEF Leave
    <3> QED BY <2>1, <2>2, <3>1, LeaveTrace
  <2>3. CASE mode # "trace"
    BY <2>1, <2>3 DEF TraceInv
  <2> QED BY <2>2, <2>3
<1>3. CASE SwitchFiber
  BY <1>3, SwitchTrace
<1>4. CASE Work
  BY <1>4, WorkTrace
<1>5. CASE xdebug_start_trace
  <2>1. /\ UNCHANGED <<callStackVars, calls, left_out, mode, now, fibers_seen>>
        /\ \E format \in {"text", "flamegraph"} : trace' = Started(format)
    BY <1>5 DEF xdebug_start_trace, requestVars
  <2>2. mode = "trace" => left_out' \subseteq Functions
    BY <2>1 DEF TraceInv, CallDataOK
  <2> QED BY <2>1, <2>2, SameCalls
<1>6. CASE xdebug_set_filter
  <2>1. /\ UNCHANGED <<callStackVars, trace, calls, mode, now, fibers_seen>>
        /\ left_out' \subseteq Functions
    BY <1>6 DEF xdebug_set_filter, LeftOut, requestVars
  <2> QED BY <2>1, SameCalls
<1>7. CASE xdebug_stop_trace \/ RequestEnds
  <2>1. /\ UNCHANGED <<callStackVars, calls, left_out, mode, now, fibers_seen>>
        /\ trace' = NoTrace
    BY <1>7 DEF xdebug_stop_trace, RequestEnds, Stopped, requestVars
  <2>2. mode = "trace" => left_out' \subseteq Functions
    BY <2>1 DEF TraceInv, CallDataOK
  <2> QED BY <2>1, <2>2, SameCalls
<1>8. CASE \/ StopProfiling \/ xdebug_start_gcstats \/ xdebug_stop_gcstats
           \/ CollectBegins \/ CollectEnds \/ ScriptsEnd \/ UNCHANGED vars
  <2>1. UNCHANGED <<callStackVars, traceVars, mode, now, fibers_seen>>
    BY <1>8 DEF StopProfiling, xdebug_start_gcstats, xdebug_stop_gcstats, CollectBegins,
                CollectEnds, ScriptsEnd, vars, requestVars
  <2>2. /\ UNCHANGED <<callStackVars, calls, mode, now, fibers_seen>> /\ trace' = trace
        /\ mode = "trace" => left_out' \subseteq Functions
    BY <2>1 DEF TraceInv, CallDataOK, traceVars
  <2> QED BY <2>2, SameCalls
<1> QED BY <1>1, <1>2, <1>3, <1>4, <1>5, <1>6, <1>7, <1>8 DEF Next

\* What the invariant says of the lines.
LEMMA TraceIsRight ==
  ASSUME RequestInv, TraceInv
  PROVE  TraceMatchesCalls /\ FlameCosts
<1>1. CASE mode = "trace"
  <2>1. TraceIs(trace)
    BY <1>1 DEF TraceInv
  <2>2. TraceMatchesCalls
    BY <2>1, TraceNames DEF TraceIs, TextIs, TraceMatchesCalls
  <2>3. FlameCosts
    BY <2>1 DEF TraceIs, CostsAre, FlameCosts
  <2> QED BY <2>2, <2>3
<1>2. CASE mode # "trace"
  <2>1. trace = NoTrace
    BY <1>2 DEF RequestInv
  <2>2. trace.open = FALSE /\ Len(trace.lines) = 0
    BY <2>1 DEF NoTrace
  <2> QED BY <2>2 DEF TraceMatchesCalls, FlameCosts
<1> QED BY <1>1, <1>2
-----------------------------------------------------------------------------
(* The theorems.                                                              *)

\* The initial states have the invariant.
LEMMA ObserversStart == Init => ObserversInv
<1> SUFFICES ASSUME Init
             PROVE  ObserversInv
  OBVIOUS
<1>1. /\ fiber_stacks = [f \in {MainFiber} |-> <<>>] /\ fiber = MainFiber
      /\ resumer = [f \in Fibers |-> None] /\ function_count = -1
      /\ active = FALSE /\ start_nanotime = 0 /\ spent = 0 /\ summary = -1 /\ crashed = FALSE
      /\ written = 0 /\ blocks = 0
      /\ profiles = [f \in {MainFiber} |-> <<>>]
      /\ trace = NoTrace /\ left_out = {} /\ calls = [f \in {MainFiber} |-> <<>>]
      /\ mode \in Modes /\ phase = "scripts" /\ now = 0
      /\ gc = NoGc /\ collecting = FALSE /\ fibers_seen = FALSE
  BY DEF Init, CallStackInit, ProfilerInitial, TracesInitial
<1>2. /\ DOMAIN fiber_stacks = {MainFiber} /\ fiber_stacks[MainFiber] = <<>>
      /\ DOMAIN profiles = {MainFiber} /\ profiles[MainFiber] = <<>>
      /\ DOMAIN calls = {MainFiber} /\ calls[MainFiber] = <<>>
      /\ <<>> \in Seq(Frame) /\ <<>> \in Seq(Profile) /\ <<>> \in Seq(CallData)
      /\ Len(<<>>) = 0
  BY <1>1
<1>3. CallStackTypeOK /\ ResumersLive /\ Chain
  BY <1>1, <1>2, CallStackAssumption DEF CallStackTypeOK, ResumersLive, Chain
<1>4. LevelsAndNumbers /\ MainHasNoFiberMain /\ CallsInv /\ Uncounted
  BY <1>1, <1>2, CallStackAssumption
     DEF LevelsAndNumbers, MainHasNoFiberMain, CallsInv, FibersBegin, NumbersUnique, DepthBounded,
         Uncounted
<1>5. StackInv
  BY <1>3, <1>4 DEF StackInv, CallStackInv
<1>6. RequestInv
  <2>1. /\ gc \in [active: BOOLEAN, file: BOOLEAN, filename: BOOLEAN]
        /\ ~gc.active /\ ~gc.file /\ ~gc.filename
    BY <1>1 DEF NoGc
  <2>2. now \in 0..MaxTime /\ phase \in Phases /\ phase # "done"
    BY <1>1, ObserversAssumption DEF Phases
  <2> QED BY <1>1, <1>2, <2>1, <2>2 DEF RequestInv, ReportIsOpen
<1>7. ProfileInv
  <2>1. ProfilerTypeOK
    <3>1. active \in BOOLEAN /\ crashed \in BOOLEAN
      BY <1>1
    <3>2. start_nanotime \in Nat /\ spent \in Int /\ summary \in Int /\ written \in Int /\ blocks \in Nat
      BY <1>1
    <3>3. \A f \in DOMAIN profiles :
            profiles[f] \in Seq(Profile) /\ Len(profiles[f]) = Len(fiber_stacks[f])
      BY <1>2
    <3> QED BY <1>2, <3>1, <3>2, <3>3 DEF ProfilerTypeOK
  <2>2. MeasuredInv
    BY <1>1, <1>2 DEF MeasuredInv, Measured
  <2>3. SumInv
    BY <1>1, <1>2 DEF SumInv
  <2>4. RoundedInv
    BY <1>1, <1>2 DEF RoundedInv, RoundedLines, Rounded
  <2> QED BY <2>1, <2>2, <2>3, <2>4 DEF ProfileInv
<1>8. TraceInv
  <2>1. CallDataOK /\ CallTimes
    BY <1>1, <1>2 DEF CallDataOK, CallTimes
  <2>2. TraceIs(trace)
    BY <1>1, <1>5, <2>1, TraceStarts
  <2> QED BY <2>1, <2>2 DEF TraceInv
<1> QED BY <1>5, <1>6, <1>7, <1>8 DEF ObserversInv

\* The invariant of the call stack and of what is recorded with it: every step
\* of the program, its fibers and the functions it calls keeps it.
THEOREM ObserversInvariant == Spec => []ObserversInv
<1>1. ObserversInv /\ [Next]_vars => ObserversInv'
  <2> SUFFICES ASSUME ObserversInv, [Next]_vars
               PROVE  ObserversInv'
    OBVIOUS
  <2>1. StackInv /\ RequestInv /\ ProfileInv /\ TraceInv
    BY DEF ObserversInv
  <2> QED BY <2>1, StackStep, RequestStep, ProfileStep, TraceStep DEF ObserversInv
<1> QED BY <1>1, ObserversStart, PTL DEF Spec

\* The variables stay in their types, whatever mode is on, and the report of the
\* collector is open while the statistics are on (gc_stats.c:119, 147).
THEOREM ObserversTypes == Spec => []TypeOK
<1>1. ObserversInv => TypeOK
  <2> SUFFICES ASSUME ObserversInv
               PROVE  TypeOK
    OBVIOUS
  <2>1. StackInv /\ RequestInv /\ ProfileInv /\ TraceInv
    BY DEF ObserversInv
  <2>2. CallStackTypeOK /\ LevelsAndNumbers /\ ResumersLive
    BY <2>1 DEF StackInv, CallStackInv
  <2>3. mode = "profile" => ProfilerTypeOK
    BY <2>1 DEF ProfileInv
  <2>4. mode = "trace" => TracesTypeOK
    BY <2>1 DEF TraceInv, CallDataOK, TraceIs, IsTrace, TracesTypeOK
  <2> QED BY <2>1, <2>2, <2>3, <2>4 DEF TypeOK, RequestInv
<1> QED BY <1>1, ObserversInvariant, PTL

\* Self costs are never negative in any fiber, each line differs from the time
\* it stands for by its own rounding only, and without fibers the lines exceed
\* the summary, rounded itself, by no more than half a unit each, however often
\* the profile is stopped and started and wherever the program ends
\* (profiler.c:183, 239, 404).
THEOREM CostsAddUp == Spec => []ProfileAddsUp
<1>1. ObserversInv => ProfileAddsUp
  BY ProfileIsRight DEF ObserversInv
<1> QED BY <1>1, ObserversInvariant, PTL

\* A program without fibers never makes the profiler follow a name that was not
\* taken (profiler.c:440).
THEOREM OnlyFibersCrash == Spec => []CrashNeedsFiber
<1>1. ObserversInv => CrashNeedsFiber
  BY ProfileIsRight DEF ObserversInv
<1> QED BY <1>1, ObserversInvariant, PTL

\* A text trace shows as running just the calls that run, were made since it was
\* started and are not filtered, however fibers interleave and whenever the trace
\* and the filter change (tracing.c:695-768).
THEOREM TracesMatch == Spec => []TraceMatchesCalls
<1>1. ObserversInv => TraceMatchesCalls
  BY TraceIsRight DEF ObserversInv
<1> QED BY <1>1, ObserversInvariant, PTL

\* A flame graph has a negative cost only where an int cannot tell the time, or
\* for the first call once there are fibers (trace_flamegraph.c:109).
THEOREM FlamesAreRight == Spec => []FlameCosts
<1>1. ObserversInv => FlameCosts
  BY TraceIsRight DEF ObserversInv
<1> QED BY <1>1, ObserversInvariant, PTL
=============================================================================
