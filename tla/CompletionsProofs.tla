------------------------- MODULE CompletionsProofs -------------------------
(* Every legal program, however large, completes as ECMAScript has it.     *)
EXTENDS MCCompletions, SequenceTheorems, WellFoundedInduction, TLAPS

---------------------------------------------------------------------------
(* Induction and recursion.                                                *)

\* Induction is by the least number for which a formula fails: the library's
\* own theorems take it as an operator.
LEMMA NatMin ==
  ASSUME NEW T, T \subseteq Nat, T # {}
  PROVE  \E x \in T : \A y \in T : x <= y
<1> DEFINE R == OpToRel(<, Nat)
<1>1. IsWellFoundedOn(R, Nat) BY NatLessThanWellFounded
<1>2. \A x, y \in Nat : x < y => <<x, y>> \in R BY DEF OpToRel
<1> HIDE DEF R
<1>3. PICK x \in T : \A y \in T : ~(<<y, x>> \in R) BY <1>1, WFMin
<1>4. ASSUME NEW y \in T PROVE x <= y
  <2>1. x \in Nat /\ y \in Nat OBVIOUS
  <2>2. ~(y < x) BY <1>2, <1>3, <2>1
  <2> QED BY <2>1, <2>2
<1> QED BY <1>4

\* Induction up to a length, with a set for the formula.
LEMMA UpTo ==
  ASSUME NEW n \in Nat, NEW I, 0 \in I,
         \A m \in 0..(n - 1) : m \in I => m + 1 \in I
  PROVE  0..n \subseteq I
<1> SUFFICES ASSUME (0..n) \ I # {} PROVE FALSE OBVIOUS
<1> DEFINE J == (0..n) \ I
<1>0. J \subseteq Nat /\ J # {} OBVIOUS
<1>1. PICK x \in J : \A y \in J : x <= y
  <2> HIDE DEF J
  <2> QED BY <1>0, NatMin
<1>2. x # 0 BY <1>1
<1>3. x - 1 \in 0..(n - 1) /\ (x - 1) + 1 = x /\ ~(x <= x - 1) BY <1>1, <1>2
<1>4. x - 1 \in I BY <1>1, <1>3
<1> QED BY <1>1, <1>3, <1>4

\* A function on 1..n is a sequence of length n.
LEMMA LenOf ==
  ASSUME NEW n \in Nat, NEW f, f = [i \in 1..n |-> f[i]]
  PROVE  f \in Seq({f[i] : i \in 1..n}) /\ Len(f) = n /\ DOMAIN f = 1..n
<1> DEFINE S == {f[i] : i \in 1..n}
<1>1. f \in [1..n -> S] OBVIOUS
<1> HIDE DEF S
<1>2. f \in Seq(S) BY <1>1, SeqDef
<1>3. DOMAIN f = 1..n BY <1>1
<1>4. DOMAIN f = 1..Len(f) /\ Len(f) \in Nat BY <1>2, LenProperties
<1>5. ASSUME NEW m \in Nat, 1..n = 1..m PROVE m = n
  <2>1. CASE m < n BY <1>5, <2>1
  <2>2. CASE n < m BY <1>5, <2>2
  <2> QED BY <2>1, <2>2
<1> QED BY <1>2, <1>3, <1>4, <1>5 DEF S

\* g is what Through goes through.
Passes(g, steps, c, n) ==
  /\ g = [i \in 0..n |-> g[i]] /\ g[0] = c
  /\ \A i \in 1..n : g[i] = steps[i][g[i - 1]]

LEMMA ThroughPasses ==
  ASSUME NEW steps, NEW c, Len(steps) \in Nat
  PROVE  \E g : Passes(g, steps, c, Len(steps)) /\ Through(steps, c) = g[Len(steps)]
<1> DEFINE N == Len(steps)
           I == {n \in 0..N : \E g : Passes(g, steps, c, n)}
<1>0. N \in Nat OBVIOUS
<1> HIDE DEF N
<1>1. 0 \in I
  <2> DEFINE g == [m \in 0..0 |-> c]
  <2>1. Passes(g, steps, c, 0) BY DEF Passes
  <2>2. 0 \in 0..N BY <1>0
  <2> HIDE DEF g
  <2> QED BY <2>1, <2>2
<1>2. ASSUME NEW m \in 0..(N - 1), m \in I PROVE m + 1 \in I
  <2>1. PICK g : Passes(g, steps, c, m) BY <1>2
  <2> DEFINE h == [k \in 0..(m + 1) |-> IF k = m + 1 THEN steps[m + 1][g[m]] ELSE g[k]]
  <2>2. h[m + 1] = steps[m + 1][g[m]] /\ \A k \in 0..m : h[k] = g[k] BY <1>0
  <2>3. h = [k \in 0..(m + 1) |-> h[k]] OBVIOUS
  <2> HIDE DEF h
  <2>4. ASSUME NEW k \in 1..(m + 1) PROVE h[k] = steps[k][h[k - 1]]
    <3>1. CASE k = m + 1
      <4>1. k - 1 = m /\ m \in 0..m BY <1>0, <3>1
      <4> QED BY <2>2, <3>1, <4>1
    <3>2. CASE k # m + 1
      <4>1. k \in 1..m /\ k \in 0..m /\ k - 1 \in 0..m BY <1>0, <3>2
      <4> QED BY <2>1, <2>2, <4>1 DEF Passes
    <3> QED BY <3>1, <3>2
  <2>5. 0 \in 0..m /\ m + 1 \in 0..N BY <1>0
  <2>6. Passes(h, steps, c, m + 1) BY <2>1, <2>2, <2>3, <2>4, <2>5 DEF Passes
  <2> QED BY <2>5, <2>6
<1>3. PICK g : Passes(g, steps, c, N)
  <2>1. 0..N \subseteq I
    <3> HIDE DEF I
    <3> QED BY <1>0, <1>1, <1>2, UpTo
  <2> QED BY <1>0, <2>1
<1> DEFINE step(f) == [i \in 0..Len(steps) |-> IF i = 0 THEN c ELSE steps[i][f[i - 1]]]
           after == CHOOSE f : f = step(f)
<1>4. g = step(g)
  <2>1. g = [n \in 0..N |-> g[n]] BY <1>3 DEF Passes
  <2>2. ASSUME NEW n \in 0..N PROVE g[n] = IF n = 0 THEN c ELSE steps[n][g[n - 1]]
    <3>1. CASE n = 0 BY <1>3, <3>1 DEF Passes
    <3>2. CASE n # 0
      <4>1. n \in 1..N BY <1>0, <3>2
      <4> QED BY <1>3, <3>2, <4>1 DEF Passes
    <3> QED BY <3>1, <3>2
  <2> QED BY <2>1, <2>2 DEF N
<1>5. after = step(after)
  <2> HIDE DEF step
  <2> QED BY <1>4
<1>6. Through(steps, c) = after[Len(steps)] BY DEF Through
<1> HIDE DEF after
<1>7. Passes(after, steps, c, N)
  <2>1. \A n \in 0..N : after[n] = IF n = 0 THEN c ELSE steps[n][after[n - 1]] BY <1>5 DEF N
  <2>2. after = [n \in 0..N |-> after[n]] BY <1>5 DEF N
  <2>3. 0 \in 0..N /\ \A n \in 1..N : n \in 0..N /\ n # 0 BY <1>0
  <2> QED BY <2>1, <2>2, <2>3 DEF Passes
<1> QED BY <1>6, <1>7 DEF N

\* What two sequences of functions, step by step, keep in a relation.
LEMMA InStep ==
  ASSUME NEW n \in Nat, NEW f, Len(f) = n, NEW h, Len(h) = n, NEW c, NEW d,
         NEW R, <<c, d>> \in R[0],
         \A i \in 1..n : \A x, y : <<x, y>> \in R[i - 1] => <<f[i][x], h[i][y]>> \in R[i]
  PROVE  <<Through(f, c), Through(h, d)>> \in R[n]
<1>1. PICK g : Passes(g, f, c, n) /\ Through(f, c) = g[n] BY ThroughPasses
<1>2. PICK k : Passes(k, h, d, n) /\ Through(h, d) = k[n] BY ThroughPasses
<1> DEFINE I == {m \in 0..n : <<g[m], k[m]>> \in R[m]}
<1>3. 0 \in I BY <1>1, <1>2 DEF Passes
<1>4. ASSUME NEW m \in 0..(n - 1), m \in I PROVE m + 1 \in I
  <2>1. m + 1 \in 1..n /\ m + 1 \in 0..n /\ (m + 1) - 1 = m OBVIOUS
  <2>2. g[m + 1] = f[m + 1][g[m]] /\ k[m + 1] = h[m + 1][k[m]] BY <1>1, <1>2, <2>1 DEF Passes
  <2>3. <<g[m], k[m]>> \in R[m] BY <1>4
  <2>4. <<f[m + 1][g[m]], h[m + 1][k[m]]>> \in R[m + 1] BY <2>1, <2>3
  <2> QED BY <2>1, <2>2, <2>4
<1>5. 0..n \subseteq I
  <2> HIDE DEF I
  <2> QED BY <1>3, <1>4, UpTo
<1> QED BY <1>1, <1>2, <1>5


---------------------------------------------------------------------------
(* What a program is made of.                                             *)

\* One more of what Compiled goes through.
CompiledNext(p, g, n) == Append(g, [r \in Reg |-> Exec(g, p[n], r)])

LEMMA CompiledSteps ==
  ASSUME NEW p, Len(p) \in Nat
  PROVE  \E g : /\ g[0] = <<>>
                /\ \A n \in 1..Len(p) : g[n] = CompiledNext(p, g[n - 1], n)
                /\ Compiled(p) = g[Len(p)]
<1> DEFINE N == Len(p)
           Steps(g, n) == /\ g = [m \in 0..n |-> g[m]] /\ g[0] = <<>>
                          /\ \A m \in 1..n : g[m] = CompiledNext(p, g[m - 1], m)
           I == {n \in 0..N : \E g : Steps(g, n)}
<1>0. N \in Nat OBVIOUS
<1> HIDE DEF N
<1>1. 0 \in I
  <2> DEFINE g == [m \in 0..0 |-> <<>>]
  <2>1. Steps(g, 0) OBVIOUS
  <2>2. 0 \in 0..N BY <1>0
  <2> HIDE DEF g
  <2> QED BY <2>1, <2>2
<1>2. ASSUME NEW m \in 0..(N - 1), m \in I PROVE m + 1 \in I
  <2>1. PICK g : Steps(g, m) BY <1>2
  <2> DEFINE h == [k \in 0..(m + 1) |-> IF k = m + 1 THEN CompiledNext(p, g[m], m + 1) ELSE g[k]]
  <2>2. h[m + 1] = CompiledNext(p, g[m], m + 1) /\ \A k \in 0..m : h[k] = g[k] BY <1>0
  <2>3. h = [k \in 0..(m + 1) |-> h[k]] OBVIOUS
  <2> HIDE DEF h
  <2>4. ASSUME NEW k \in 1..(m + 1) PROVE h[k] = CompiledNext(p, h[k - 1], k)
    <3>1. CASE k = m + 1
      <4>1. k - 1 = m /\ m \in 0..m BY <1>0, <3>1
      <4> QED BY <2>2, <3>1, <4>1
    <3>2. CASE k # m + 1
      <4>1. k \in 1..m /\ k \in 0..m /\ k - 1 \in 0..m BY <1>0, <3>2
      <4> QED BY <2>1, <2>2, <4>1
    <3> QED BY <3>1, <3>2
  <2>5. 0 \in 0..m /\ m + 1 \in 0..N BY <1>0
  <2>6. Steps(h, m + 1) BY <2>1, <2>2, <2>3, <2>4, <2>5
  <2> QED BY <2>5, <2>6
<1>3. PICK g : Steps(g, N)
  <2>1. 0..N \subseteq I
    <3> HIDE DEF I
    <3> QED BY <1>0, <1>1, <1>2, UpTo
  <2>2. N \in I
    <3> HIDE DEF I
    <3> QED BY <1>0, <2>1
  <2> QED BY <2>2
<1> DEFINE step(f) == [n \in 0..Len(p) |-> IF n = 0 THEN <<>> ELSE CompiledNext(p, f[n - 1], n)]
           upto == CHOOSE f : f = step(f)
<1>4. g = step(g)
  <2>1. g = [n \in 0..N |-> g[n]] BY <1>3
  <2>2. ASSUME NEW n \in 0..N PROVE g[n] = IF n = 0 THEN <<>> ELSE CompiledNext(p, g[n - 1], n)
    <3>1. CASE n = 0 BY <1>3, <3>1
    <3>2. CASE n # 0
      <4>1. n \in 1..N BY <1>0, <3>2
      <4> QED BY <1>3, <3>2, <4>1
    <3> QED BY <3>1, <3>2
  <2> QED BY <2>1, <2>2 DEF N
<1>5. upto = step(upto)
  <2> HIDE DEF step
  <2> QED BY <1>4
<1>6. Compiled(p) = upto[Len(p)] BY Zenon DEF Compiled, CompiledNext
<1> HIDE DEF upto
<1>7. Steps(upto, N)
  <2>1. \A n \in 0..N : upto[n] = IF n = 0 THEN <<>> ELSE CompiledNext(p, upto[n - 1], n)
    BY <1>5 DEF N
  <2>2. upto = [n \in 0..N |-> upto[n]] BY <1>5 DEF N
  <2>3. 0 \in 0..N /\ \A n \in 1..N : n \in 0..N /\ n # 0 BY <1>0
  <2> QED BY <2>1, <2>2, <2>3
<1> QED BY <1>6, <1>7 DEF N

\* One more of what Meanings goes through.
MeaningsNext(p, g, n) == Append(g, [c \in Completion |-> Eval(g, p[n], c)])

LEMMA MeaningsSteps ==
  ASSUME NEW p, Len(p) \in Nat
  PROVE  \E g : /\ g[0] = <<>>
                /\ \A n \in 1..Len(p) : g[n] = MeaningsNext(p, g[n - 1], n)
                /\ Meanings(p) = g[Len(p)]
<1> DEFINE N == Len(p)
           Steps(g, n) == /\ g = [m \in 0..n |-> g[m]] /\ g[0] = <<>>
                          /\ \A m \in 1..n : g[m] = MeaningsNext(p, g[m - 1], m)
           I == {n \in 0..N : \E g : Steps(g, n)}
<1>0. N \in Nat OBVIOUS
<1> HIDE DEF N
<1>1. 0 \in I
  <2> DEFINE g == [m \in 0..0 |-> <<>>]
  <2>1. Steps(g, 0) OBVIOUS
  <2>2. 0 \in 0..N BY <1>0
  <2> HIDE DEF g
  <2> QED BY <2>1, <2>2
<1>2. ASSUME NEW m \in 0..(N - 1), m \in I PROVE m + 1 \in I
  <2>1. PICK g : Steps(g, m) BY <1>2
  <2> DEFINE h == [k \in 0..(m + 1) |-> IF k = m + 1 THEN MeaningsNext(p, g[m], m + 1) ELSE g[k]]
  <2>2. h[m + 1] = MeaningsNext(p, g[m], m + 1) /\ \A k \in 0..m : h[k] = g[k] BY <1>0
  <2>3. h = [k \in 0..(m + 1) |-> h[k]] OBVIOUS
  <2> HIDE DEF h
  <2>4. ASSUME NEW k \in 1..(m + 1) PROVE h[k] = MeaningsNext(p, h[k - 1], k)
    <3>1. CASE k = m + 1
      <4>1. k - 1 = m /\ m \in 0..m BY <1>0, <3>1
      <4> QED BY <2>2, <3>1, <4>1
    <3>2. CASE k # m + 1
      <4>1. k \in 1..m /\ k \in 0..m /\ k - 1 \in 0..m BY <1>0, <3>2
      <4> QED BY <2>1, <2>2, <4>1
    <3> QED BY <3>1, <3>2
  <2>5. 0 \in 0..m /\ m + 1 \in 0..N BY <1>0
  <2>6. Steps(h, m + 1) BY <2>1, <2>2, <2>3, <2>4, <2>5
  <2> QED BY <2>5, <2>6
<1>3. PICK g : Steps(g, N)
  <2>1. 0..N \subseteq I
    <3> HIDE DEF I
    <3> QED BY <1>0, <1>1, <1>2, UpTo
  <2>2. N \in I
    <3> HIDE DEF I
    <3> QED BY <1>0, <2>1
  <2> QED BY <2>2
<1> DEFINE step(f) == [n \in 0..Len(p) |-> IF n = 0 THEN <<>> ELSE MeaningsNext(p, f[n - 1], n)]
           upto == CHOOSE f : f = step(f)
<1>4. g = step(g)
  <2>1. g = [n \in 0..N |-> g[n]] BY <1>3
  <2>2. ASSUME NEW n \in 0..N PROVE g[n] = IF n = 0 THEN <<>> ELSE MeaningsNext(p, g[n - 1], n)
    <3>1. CASE n = 0 BY <1>3, <3>1
    <3>2. CASE n # 0
      <4>1. n \in 1..N BY <1>0, <3>2
      <4> QED BY <1>3, <3>2, <4>1
    <3> QED BY <3>1, <3>2
  <2> QED BY <2>1, <2>2 DEF N
<1>5. upto = step(upto)
  <2> HIDE DEF step
  <2> QED BY <1>4
<1>6. Meanings(p) = upto[Len(p)] BY Zenon DEF Meanings, MeaningsNext
<1> HIDE DEF upto
<1>7. Steps(upto, N)
  <2>1. \A n \in 0..N : upto[n] = IF n = 0 THEN <<>> ELSE MeaningsNext(p, upto[n - 1], n)
    BY <1>5 DEF N
  <2>2. upto = [n \in 0..N |-> upto[n]] BY <1>5 DEF N
  <2>3. 0 \in 0..N /\ \A n \in 1..N : n \in 0..N /\ n # 0 BY <1>0
  <2> QED BY <2>1, <2>2, <2>3
<1> QED BY <1>6, <1>7 DEF N

\* One more of what Exits goes through.
ExitsNext(p, g, n) == Append(g, Leaving(g, p[n]))

LEMMA ExitsSteps ==
  ASSUME NEW p, Len(p) \in Nat
  PROVE  \E g : /\ g[0] = <<>>
                /\ \A n \in 1..Len(p) : g[n] = ExitsNext(p, g[n - 1], n)
                /\ Exits(p) = g[Len(p)]
<1> DEFINE N == Len(p)
           Steps(g, n) == /\ g = [m \in 0..n |-> g[m]] /\ g[0] = <<>>
                          /\ \A m \in 1..n : g[m] = ExitsNext(p, g[m - 1], m)
           I == {n \in 0..N : \E g : Steps(g, n)}
<1>0. N \in Nat OBVIOUS
<1> HIDE DEF N
<1>1. 0 \in I
  <2> DEFINE g == [m \in 0..0 |-> <<>>]
  <2>1. Steps(g, 0) OBVIOUS
  <2>2. 0 \in 0..N BY <1>0
  <2> HIDE DEF g
  <2> QED BY <2>1, <2>2
<1>2. ASSUME NEW m \in 0..(N - 1), m \in I PROVE m + 1 \in I
  <2>1. PICK g : Steps(g, m) BY <1>2
  <2> DEFINE h == [k \in 0..(m + 1) |-> IF k = m + 1 THEN ExitsNext(p, g[m], m + 1) ELSE g[k]]
  <2>2. h[m + 1] = ExitsNext(p, g[m], m + 1) /\ \A k \in 0..m : h[k] = g[k] BY <1>0
  <2>3. h = [k \in 0..(m + 1) |-> h[k]] OBVIOUS
  <2> HIDE DEF h
  <2>4. ASSUME NEW k \in 1..(m + 1) PROVE h[k] = ExitsNext(p, h[k - 1], k)
    <3>1. CASE k = m + 1
      <4>1. k - 1 = m /\ m \in 0..m BY <1>0, <3>1
      <4> QED BY <2>2, <3>1, <4>1
    <3>2. CASE k # m + 1
      <4>1. k \in 1..m /\ k \in 0..m /\ k - 1 \in 0..m BY <1>0, <3>2
      <4> QED BY <2>1, <2>2, <4>1
    <3> QED BY <3>1, <3>2
  <2>5. 0 \in 0..m /\ m + 1 \in 0..N BY <1>0
  <2>6. Steps(h, m + 1) BY <2>1, <2>2, <2>3, <2>4, <2>5
  <2> QED BY <2>5, <2>6
<1>3. PICK g : Steps(g, N)
  <2>1. 0..N \subseteq I
    <3> HIDE DEF I
    <3> QED BY <1>0, <1>1, <1>2, UpTo
  <2>2. N \in I
    <3> HIDE DEF I
    <3> QED BY <1>0, <2>1
  <2> QED BY <2>2
<1> DEFINE step(f) == [n \in 0..Len(p) |-> IF n = 0 THEN <<>> ELSE ExitsNext(p, f[n - 1], n)]
           upto == CHOOSE f : f = step(f)
<1>4. g = step(g)
  <2>1. g = [n \in 0..N |-> g[n]] BY <1>3
  <2>2. ASSUME NEW n \in 0..N PROVE g[n] = IF n = 0 THEN <<>> ELSE ExitsNext(p, g[n - 1], n)
    <3>1. CASE n = 0 BY <1>3, <3>1
    <3>2. CASE n # 0
      <4>1. n \in 1..N BY <1>0, <3>2
      <4> QED BY <1>3, <3>2, <4>1
    <3> QED BY <3>1, <3>2
  <2> QED BY <2>1, <2>2 DEF N
<1>5. upto = step(upto)
  <2> HIDE DEF step
  <2> QED BY <1>4
<1>6. Exits(p) = upto[Len(p)] BY Zenon DEF Exits, ExitsNext
<1> HIDE DEF upto
<1>7. Steps(upto, N)
  <2>1. \A n \in 0..N : upto[n] = IF n = 0 THEN <<>> ELSE ExitsNext(p, upto[n - 1], n)
    BY <1>5 DEF N
  <2>2. upto = [n \in 0..N |-> upto[n]] BY <1>5 DEF N
  <2>3. 0 \in 0..N /\ \A n \in 1..N : n \in 0..N /\ n # 0 BY <1>0
  <2> QED BY <2>1, <2>2, <2>3
<1> QED BY <1>6, <1>7 DEF N

\* One more of what Quiet goes through.
QuietNext(p, g, n) ==
  IF p[n][1] \notin Jumps \cup Loops \cup {"return", "throw", "fail"} /\ Parts(p[n]) \subseteq g
  THEN g \cup {n} ELSE g

LEMMA QuietSteps ==
  ASSUME NEW p, Len(p) \in Nat
  PROVE  \E g : /\ g[0] = {}
                /\ \A n \in 1..Len(p) : g[n] = QuietNext(p, g[n - 1], n)
                /\ Quiet(p) = g[Len(p)]
<1> DEFINE N == Len(p)
           Steps(g, n) == /\ g = [m \in 0..n |-> g[m]] /\ g[0] = {}
                          /\ \A m \in 1..n : g[m] = QuietNext(p, g[m - 1], m)
           I == {n \in 0..N : \E g : Steps(g, n)}
<1>0. N \in Nat OBVIOUS
<1> HIDE DEF N
<1>1. 0 \in I
  <2> DEFINE g == [m \in 0..0 |-> {}]
  <2>1. Steps(g, 0) OBVIOUS
  <2>2. 0 \in 0..N BY <1>0
  <2> HIDE DEF g
  <2> QED BY <2>1, <2>2
<1>2. ASSUME NEW m \in 0..(N - 1), m \in I PROVE m + 1 \in I
  <2>1. PICK g : Steps(g, m) BY <1>2
  <2> DEFINE h == [k \in 0..(m + 1) |-> IF k = m + 1 THEN QuietNext(p, g[m], m + 1) ELSE g[k]]
  <2>2. h[m + 1] = QuietNext(p, g[m], m + 1) /\ \A k \in 0..m : h[k] = g[k] BY <1>0
  <2>3. h = [k \in 0..(m + 1) |-> h[k]] OBVIOUS
  <2> HIDE DEF h
  <2>4. ASSUME NEW k \in 1..(m + 1) PROVE h[k] = QuietNext(p, h[k - 1], k)
    <3>1. CASE k = m + 1
      <4>1. k - 1 = m /\ m \in 0..m BY <1>0, <3>1
      <4> QED BY <2>2, <3>1, <4>1
    <3>2. CASE k # m + 1
      <4>1. k \in 1..m /\ k \in 0..m /\ k - 1 \in 0..m BY <1>0, <3>2
      <4> QED BY <2>1, <2>2, <4>1
    <3> QED BY <3>1, <3>2
  <2>5. 0 \in 0..m /\ m + 1 \in 0..N BY <1>0
  <2>6. Steps(h, m + 1) BY <2>1, <2>2, <2>3, <2>4, <2>5
  <2> QED BY <2>5, <2>6
<1>3. PICK g : Steps(g, N)
  <2>1. 0..N \subseteq I
    <3> HIDE DEF I
    <3> QED BY <1>0, <1>1, <1>2, UpTo
  <2>2. N \in I
    <3> HIDE DEF I
    <3> QED BY <1>0, <2>1
  <2> QED BY <2>2
<1> DEFINE step(f) == [n \in 0..Len(p) |-> IF n = 0 THEN {} ELSE QuietNext(p, f[n - 1], n)]
           upto == CHOOSE f : f = step(f)
<1>4. g = step(g)
  <2>1. g = [n \in 0..N |-> g[n]] BY <1>3
  <2>2. ASSUME NEW n \in 0..N PROVE g[n] = IF n = 0 THEN {} ELSE QuietNext(p, g[n - 1], n)
    <3>1. CASE n = 0 BY <1>3, <3>1
    <3>2. CASE n # 0
      <4>1. n \in 1..N BY <1>0, <3>2
      <4> QED BY <1>3, <3>2, <4>1
    <3> QED BY <3>1, <3>2
  <2> QED BY <2>1, <2>2 DEF N
<1>5. upto = step(upto)
  <2> HIDE DEF step
  <2> QED BY <1>4
<1>6. Quiet(p) = upto[Len(p)] BY Zenon DEF Quiet, QuietNext
<1> HIDE DEF upto
<1>7. Steps(upto, N)
  <2>1. \A n \in 0..N : upto[n] = IF n = 0 THEN {} ELSE QuietNext(p, upto[n - 1], n)
    BY <1>5 DEF N
  <2>2. upto = [n \in 0..N |-> upto[n]] BY <1>5 DEF N
  <2>3. 0 \in 0..N /\ \A n \in 1..N : n \in 0..N /\ n # 0 BY <1>0
  <2> QED BY <2>1, <2>2, <2>3
<1> QED BY <1>6, <1>7 DEF N

\* What only grows at its end is, at each length, what it becomes in the end.
Grows(g, a, n) == g[0] = <<>> /\ \A i \in 1..n : g[i] = Append(g[i - 1], a[i])

LEMMA Growth ==
  ASSUME NEW n \in Nat, NEW g, NEW a, Grows(g, a, n)
  PROVE  \A i \in 0..n : g[i] = [j \in 1..i |-> a[j]]
<1> DEFINE S == {a[i] : i \in 1..n}
           I == {m \in 0..n : g[m] = [j \in 1..m |-> a[j]]}
<1>1. 0 \in I
  <2>1. <<>> = [j \in 1..0 |-> a[j]] OBVIOUS
  <2> QED BY <2>1 DEF Grows
<1>2. ASSUME NEW m \in 0..(n - 1), m \in I PROVE m + 1 \in I
  <2> DEFINE q == [j \in 1..m |-> a[j]]
  <2>1. g[m] = q /\ m \in Nat /\ m + 1 \in 1..n /\ (m + 1) - 1 = m BY <1>2
  <2>2. q = [j \in 1..m |-> q[j]] /\ q \in [1..m -> S] OBVIOUS
  <2>3. \A j \in 1..m : q[j] = a[j] OBVIOUS
  <2> HIDE DEF q
  <2>4. q \in Seq({q[j] : j \in 1..m}) /\ Len(q) = m BY <2>1, <2>2, LenOf
  <2>5. a[m + 1] \in S BY <2>1
  <2>6. q \in Seq(S) BY <2>1, <2>2, SeqDef
  <2> HIDE DEF S
  <2>7. /\ Append(q, a[m + 1]) \in Seq(S) /\ Len(Append(q, a[m + 1])) = m + 1
        /\ \A j \in 1..m : Append(q, a[m + 1])[j] = a[j]
        /\ Append(q, a[m + 1])[m + 1] = a[m + 1]
    BY <2>3, <2>4, <2>5, <2>6, AppendProperties
  <2> DEFINE o == Append(q, a[m + 1])
  <2>8. o = [j \in 1..(m + 1) |-> o[j]]
    <3> HIDE DEF o
    <3>1. o \in Seq(S) /\ Len(o) = m + 1 BY <2>7 DEF o
    <3> QED BY <3>1
  <2>9. \A j \in 1..(m + 1) : o[j] = a[j] BY <2>1, <2>7
  <2> HIDE DEF o
  <2>10. o = [j \in 1..(m + 1) |-> a[j]] BY <2>8, <2>9
  <2>11. g[m + 1] = o BY <2>1 DEF o, Grows
  <2> QED BY <2>1, <2>10, <2>11
<1>3. 0..n \subseteq I
  <2> HIDE DEF I
  <2> QED BY <1>1, <1>2, UpTo
<1> QED BY <1>3

\* The part of a below n.
Before(a, n) == [j \in 1..(n - 1) |-> a[j]]

\* Each element of a was appended to those before it.
LEMMA GrownBefore ==
  ASSUME NEW n \in Nat, NEW g, NEW a, Grows(g, a, n)
  PROVE  /\ \A i \in 1..n : g[i - 1] = Before([j \in 1..n |-> a[j]], i)
         /\ g[n] = [j \in 1..n |-> a[j]]
<1>1. \A i \in 0..n : g[i] = [j \in 1..i |-> a[j]] BY Growth
<1>2. ASSUME NEW i \in 1..n PROVE g[i - 1] = Before([j \in 1..n |-> a[j]], i)
  <2>1. i - 1 \in 0..n OBVIOUS
  <2>2. g[i - 1] = [j \in 1..(i - 1) |-> a[j]] BY <1>1, <2>1
  <2>3. \A j \in 1..(i - 1) : j \in 1..n OBVIOUS
  <2> QED BY <2>2, <2>3 DEF Before
<1>3. n \in 0..n OBVIOUS
<1> QED BY <1>1, <1>2, <1>3

\* Each statement is a closure over those before it.
LEMMA CompiledIs ==
  ASSUME NEW p, Len(p) \in Nat
  PROVE  \E a : /\ Compiled(p) = a /\ a = [i \in 1..Len(p) |-> a[i]]
                /\ \A n \in 1..Len(p) : a[n] = [r \in Reg |-> Exec(Before(a, n), p[n], r)]
<1>1. PICK g : /\ g[0] = <<>>
               /\ \A n \in 1..Len(p) : g[n] = CompiledNext(p, g[n - 1], n)
               /\ Compiled(p) = g[Len(p)]
  BY CompiledSteps
<1> DEFINE new(n) == [r \in Reg |-> Exec(g[n - 1], p[n], r)]
           a == [n \in 1..Len(p) |-> new(n)]
<1>2. \A n \in 1..Len(p) : g[n] = Append(g[n - 1], new(n)) BY <1>1 DEF CompiledNext
<1>3. \A n \in 1..Len(p) : a[n] = new(n) OBVIOUS
<1>4. a = [n \in 1..Len(p) |-> a[n]] OBVIOUS
<1> HIDE DEF new, a
<1>5. Grows(g, a, Len(p)) BY <1>1, <1>2, <1>3 DEF Grows
<1>6. (\A n \in 1..Len(p) : g[n - 1] = Before(a, n)) /\ g[Len(p)] = a
  <2>1. /\ \A n \in 1..Len(p) : g[n - 1] = Before([j \in 1..Len(p) |-> a[j]], n)
        /\ g[Len(p)] = [j \in 1..Len(p) |-> a[j]]
    BY <1>5, GrownBefore
  <2> QED BY <1>4, <2>1
<1>7. \A n \in 1..Len(p) : a[n] = [r \in Reg |-> Exec(Before(a, n), p[n], r)] BY <1>3, <1>6 DEF new
<1> QED BY <1>1, <1>4, <1>6, <1>7

\* Each meaning is made of those before it.
LEMMA MeaningsAre ==
  ASSUME NEW p, Len(p) \in Nat
  PROVE  \E a : /\ Meanings(p) = a /\ a = [i \in 1..Len(p) |-> a[i]]
                /\ \A n \in 1..Len(p) : a[n] = [c \in Completion |-> Eval(Before(a, n), p[n], c)]
<1>1. PICK g : /\ g[0] = <<>>
               /\ \A n \in 1..Len(p) : g[n] = MeaningsNext(p, g[n - 1], n)
               /\ Meanings(p) = g[Len(p)]
  BY MeaningsSteps
<1> DEFINE new(n) == [c \in Completion |-> Eval(g[n - 1], p[n], c)]
           a == [n \in 1..Len(p) |-> new(n)]
<1>2. \A n \in 1..Len(p) : g[n] = Append(g[n - 1], new(n)) BY <1>1 DEF MeaningsNext
<1>3. \A n \in 1..Len(p) : a[n] = new(n) OBVIOUS
<1>4. a = [n \in 1..Len(p) |-> a[n]] OBVIOUS
<1> HIDE DEF new, a
<1>5. Grows(g, a, Len(p)) BY <1>1, <1>2, <1>3 DEF Grows
<1>6. (\A n \in 1..Len(p) : g[n - 1] = Before(a, n)) /\ g[Len(p)] = a
  <2>1. /\ \A n \in 1..Len(p) : g[n - 1] = Before([j \in 1..Len(p) |-> a[j]], n)
        /\ g[Len(p)] = [j \in 1..Len(p) |-> a[j]]
    BY <1>5, GrownBefore
  <2> QED BY <1>4, <2>1
<1>7. \A n \in 1..Len(p) : a[n] = [c \in Completion |-> Eval(Before(a, n), p[n], c)] BY <1>3, <1>6 DEF new
<1> QED BY <1>1, <1>4, <1>6, <1>7

\* The jumps out of a statement are made of those out of the ones before it.
LEMMA ExitsAre ==
  ASSUME NEW p, Len(p) \in Nat
  PROVE  \E a : /\ Exits(p) = a /\ a = [i \in 1..Len(p) |-> a[i]]
                /\ \A n \in 1..Len(p) : a[n] = Leaving(Before(a, n), p[n])
<1>1. PICK g : /\ g[0] = <<>>
               /\ \A n \in 1..Len(p) : g[n] = ExitsNext(p, g[n - 1], n)
               /\ Exits(p) = g[Len(p)]
  BY ExitsSteps
<1> DEFINE new(n) == Leaving(g[n - 1], p[n])
           a == [n \in 1..Len(p) |-> new(n)]
<1>2. \A n \in 1..Len(p) : g[n] = Append(g[n - 1], new(n)) BY <1>1 DEF ExitsNext
<1>3. \A n \in 1..Len(p) : a[n] = new(n) OBVIOUS
<1>4. a = [n \in 1..Len(p) |-> a[n]] OBVIOUS
<1> HIDE DEF new, a
<1>5. Grows(g, a, Len(p)) BY <1>1, <1>2, <1>3 DEF Grows
<1>6. (\A n \in 1..Len(p) : g[n - 1] = Before(a, n)) /\ g[Len(p)] = a
  <2>1. /\ \A n \in 1..Len(p) : g[n - 1] = Before([j \in 1..Len(p) |-> a[j]], n)
        /\ g[Len(p)] = [j \in 1..Len(p) |-> a[j]]
    BY <1>5, GrownBefore
  <2> QED BY <1>4, <2>1
<1>7. \A n \in 1..Len(p) : a[n] = Leaving(Before(a, n), p[n]) BY <1>3, <1>6 DEF new
<1> QED BY <1>1, <1>4, <1>6, <1>7

\* What is quiet has nothing abrupt in it, and no loop.
Calm(s) == s[1] \notin Jumps \cup Loops \cup {"return", "throw", "fail"}

LEMMA QuietIs ==
  ASSUME NEW p, Len(p) \in Nat
  PROVE  /\ Quiet(p) \subseteq 1..Len(p)
         /\ \A n \in Quiet(p) : Calm(p[n]) /\ Parts(p[n]) \subseteq Quiet(p)
<1>1. PICK g : /\ g[0] = {}
               /\ \A n \in 1..Len(p) : g[n] = QuietNext(p, g[n - 1], n)
               /\ Quiet(p) = g[Len(p)]
  BY QuietSteps
<1> DEFINE Good(m) == g[m] \subseteq 1..m /\ \A n \in g[m] : Calm(p[n]) /\ Parts(p[n]) \subseteq g[m]
           I == {m \in 0..Len(p) : Good(m)}
<1>2. 0 \in I BY <1>1
<1>3. ASSUME NEW m \in 0..(Len(p) - 1), m \in I PROVE m + 1 \in I
  <2>1. m + 1 \in 1..Len(p) /\ m + 1 \in 0..Len(p) /\ (m + 1) - 1 = m OBVIOUS
  <2>2. g[m + 1] = QuietNext(p, g[m], m + 1) BY <1>1, <2>1
  <2>3. Good(m) BY <1>3
  <2>4. CASE Calm(p[m + 1]) /\ Parts(p[m + 1]) \subseteq g[m]
    <3>1. g[m + 1] = g[m] \cup {m + 1} BY <2>2, <2>4, Zenon DEF QuietNext, Calm
    <3>2. 1..m \subseteq 1..(m + 1) /\ m + 1 \in 1..(m + 1) OBVIOUS
    <3>3. Good(m + 1) BY <2>3, <2>4, <3>1, <3>2, Zenon
    <3> QED BY <2>1, <3>3
  <2>5. CASE ~(Calm(p[m + 1]) /\ Parts(p[m + 1]) \subseteq g[m])
    <3>1. g[m + 1] = g[m] BY <2>2, <2>5, Zenon DEF QuietNext, Calm
    <3>2. 1..m \subseteq 1..(m + 1) OBVIOUS
    <3>3. Good(m + 1) BY <2>3, <3>1, <3>2, Zenon
    <3> QED BY <2>1, <3>3
  <2> QED BY <2>4, <2>5
<1>4. 0..Len(p) \subseteq I
  <2> HIDE DEF I
  <2> QED BY <1>2, <1>3, UpTo
<1>5. Good(Len(p))
  <2>1. Len(p) \in I
    <3> HIDE DEF I
    <3> QED BY <1>4
  <2> QED BY <2>1
<1> QED BY <1>1, <1>5

---------------------------------------------------------------------------
(* A register and a completion that agree.                                 *)

\* Where a statement is entered.
In(l, t) == [k |-> "normal", v |-> 0, err |-> "none", label |-> l, trace |-> t]
JsIn(t) == [type |-> "normal", target |-> NoLabel, v |-> 0, trace |-> t]

\* What a statement entered with l in the register leaves, if the jumps in x may
\* leave it: the same effects, value and kind, and the target of a jump in the
\* register, which otherwise still has l.  With a label in flight nothing but a
\* normal completion can be told apart from a jump to it.
Agree(l, x, r, c) ==
  /\ r \in Reg /\ c \in Completion
  /\ r.trace = c.trace /\ r.v = c.v
  /\ c.type \in {"throw", "fail"} => r.err = c.type /\ r.k = "normal"
  /\ c.type \notin {"throw", "fail"} => r.err = "none" /\ r.k = c.type
  /\ c.type \in Jumps => <<c.type, c.target>> \in x /\ r.label = c.target
  /\ c.type \notin Jumps => c.target = NoLabel /\ r.label = l
  /\ c.type # "return" => c.v = 0
  /\ l # NoLabel => c.type = "normal"

\* A closure has the meaning of its statement.
Faithful(f, g, l, x) == \A t \in Seq(Marks) : Agree(l, x, f[In(l, t)], g[JsIn(t)])

LEMMA AgreeIn ==
  ASSUME NEW l \in Targets, NEW x, NEW t \in Seq(Marks)
  PROVE  Agree(l, x, In(l, t), JsIn(t))
BY DEF Agree, In, JsIn, Reg, Completion, Jumps, Targets

LEMMA AgreeNormal ==
  ASSUME NEW l \in Targets, NEW x, NEW r, NEW c, Agree(l, x, r, c), c.type = "normal"
  PROVE  r = In(l, c.trace) /\ c = JsIn(c.trace) /\ c.trace \in Seq(Marks)
BY DEF Agree, In, JsIn, Reg, Completion, Jumps, Targets

LEMMA AgreeMore ==
  ASSUME NEW l, NEW x, NEW y, NEW r, NEW c, Agree(l, x, r, c), x \subseteq y
  PROVE  Agree(l, y, r, c)
BY DEF Agree

LEMMA AgreeAbrupt ==
  ASSUME NEW l, NEW x, NEW r, NEW c, Agree(l, x, r, c)
  PROVE  Abrupt(r) <=> IsAbrupt(c)
BY DEF Agree, Abrupt, IsAbrupt, Jumps

LEMMA InReg ==
  ASSUME NEW l \in Targets, NEW t \in Seq(Marks)
  PROVE  /\ In(l, t) \in Reg
         /\ In(l, t).k = "normal" /\ In(l, t).v = 0 /\ In(l, t).err = "none"
         /\ In(l, t).label = l /\ In(l, t).trace = t
BY DEF In, Reg

LEMMA JsInReg ==
  ASSUME NEW t \in Seq(Marks)
  PROVE  /\ JsIn(t) \in Completion
         /\ JsIn(t).type = "normal" /\ JsIn(t).target = NoLabel /\ JsIn(t).v = 0 /\ JsIn(t).trace = t
BY DEF JsIn, Completion, Targets

\* The helpers, field by field.
LEMMA RegHelpers ==
  ASSUME NEW r \in Reg
  PROVE  /\ Normal(r) = [k |-> "normal", v |-> 0, err |-> r.err, label |-> r.label, trace |-> r.trace]
         /\ \A e : Raise(e, r) = [k |-> "normal", v |-> 0, err |-> e, label |-> r.label, trace |-> r.trace]
         /\ \A w : Mark(r, w) = [k |-> r.k, v |-> r.v, err |-> r.err, label |-> r.label,
                                 trace |-> Append(r.trace, w)]
         /\ [Normal(r) EXCEPT !.err = "none"] = In(r.label, r.trace)
<1>1. PICK n : n = Normal(r) OBVIOUS
<1>2. n = [k |-> "normal", v |-> 0, err |-> r.err, label |-> r.label, trace |-> r.trace]
  BY <1>1 DEF Normal, Reg
<1>3. ASSUME NEW e, NEW o, o = [n EXCEPT !.err = e]
      PROVE  o = [k |-> "normal", v |-> 0, err |-> e, label |-> r.label, trace |-> r.trace]
  BY <1>2, <1>3
<1>4. ASSUME NEW w, NEW o, o = Mark(r, w)
      PROVE  o = [k |-> r.k, v |-> r.v, err |-> r.err, label |-> r.label, trace |-> Append(r.trace, w)]
  BY <1>4 DEF Mark, Reg
<1>5. \A e : [n EXCEPT !.err = e] =
               [k |-> "normal", v |-> 0, err |-> e, label |-> r.label, trace |-> r.trace]
  BY <1>3, Zenon
<1>6. \A w : Mark(r, w) = [k |-> r.k, v |-> r.v, err |-> r.err, label |-> r.label,
                           trace |-> Append(r.trace, w)]
  BY <1>4, Zenon
<1>7. \A e : Raise(e, r) = [k |-> "normal", v |-> 0, err |-> e, label |-> r.label, trace |-> r.trace]
  BY <1>1, <1>5, Zenon DEF Raise
<1>8. [Normal(r) EXCEPT !.err = "none"] = In(r.label, r.trace) BY <1>1, <1>5, Zenon DEF In
<1> QED BY <1>1, <1>2, <1>6, <1>7, <1>8, Zenon

LEMMA CompletionHelpers ==
  ASSUME NEW c \in Completion
  PROVE  /\ Done(c) = JsIn(c.trace)
         /\ \A e : Throwing(e, c) = [type |-> e, target |-> NoLabel, v |-> 0, trace |-> c.trace]
         /\ \A w : Note(c, w) = [type |-> c.type, target |-> c.target, v |-> c.v,
                                 trace |-> Append(c.trace, w)]
<1>1. PICK n : n = Done(c) OBVIOUS
<1>2. n = [type |-> "normal", target |-> NoLabel, v |-> 0, trace |-> c.trace]
  BY <1>1 DEF Done, Completion
<1>3. ASSUME NEW e, NEW o, o = [n EXCEPT !.type = e]
      PROVE  o = [type |-> e, target |-> NoLabel, v |-> 0, trace |-> c.trace]
  BY <1>2, <1>3
<1>4. ASSUME NEW w, NEW o, o = Note(c, w)
      PROVE  o = [type |-> c.type, target |-> c.target, v |-> c.v, trace |-> Append(c.trace, w)]
  BY <1>4 DEF Note, Completion
<1>5. \A w : Note(c, w) = [type |-> c.type, target |-> c.target, v |-> c.v,
                           trace |-> Append(c.trace, w)]
  BY <1>4, Zenon
<1>6. \A e : Throwing(e, c) = [type |-> e, target |-> NoLabel, v |-> 0, trace |-> c.trace]
  BY <1>1, <1>3, Zenon DEF Throwing
<1>7. Done(c) = JsIn(c.trace) BY <1>1, <1>2, Zenon DEF JsIn
<1> QED BY <1>5, <1>6, <1>7

LEMMA NormalIn ==
  ASSUME NEW l \in Targets, NEW t \in Seq(Marks)
  PROVE  /\ Normal(In(l, t)) = In(l, t) /\ Done(JsIn(t)) = JsIn(t)
         /\ ~Abrupt(In(l, t)) /\ ~IsAbrupt(JsIn(t))
         /\ \A w : Mark(In(l, t), w) = In(l, Append(t, w)) /\ Note(JsIn(t), w) = JsIn(Append(t, w))
<1> DEFINE r == In(l, t)
           c == JsIn(t)
<1>0. r \in Reg /\ r.k = "normal" /\ r.v = 0 /\ r.err = "none" /\ r.label = l /\ r.trace = t
  BY InReg
<1>1. /\ r \in Reg /\ c \in Completion
      /\ r.k = "normal" /\ r.v = 0 /\ r.err = "none" /\ r.label = l /\ r.trace = t
      /\ c.type = "normal" /\ c.target = NoLabel /\ c.v = 0 /\ c.trace = t
  BY <1>0, JsInReg
<1>2. /\ In(l, t) = [k |-> "normal", v |-> 0, err |-> "none", label |-> l, trace |-> t]
      /\ \A w : In(l, w) = [k |-> "normal", v |-> 0, err |-> "none", label |-> l, trace |-> w]
      /\ \A w : JsIn(w) = [type |-> "normal", target |-> NoLabel, v |-> 0, trace |-> w]
  BY DEF In, JsIn
<1> HIDE DEF r, c
<1>3. Normal(r) = In(l, t) BY <1>1, <1>2, RegHelpers
<1>4. Done(c) = JsIn(t) BY <1>1, <1>2, CompletionHelpers
<1>5. ~Abrupt(r) /\ ~IsAbrupt(c) BY <1>1 DEF Abrupt, IsAbrupt
<1>6. ASSUME NEW w PROVE Mark(r, w) = In(l, Append(t, w))
  <2>1. Mark(r, w) = [k |-> r.k, v |-> r.v, err |-> r.err, label |-> r.label, trace |-> Append(r.trace, w)]
    BY <1>1, RegHelpers, Zenon
  <2> QED BY <1>1, <2>1 DEF In
<1>7. \A w : Note(c, w) = JsIn(Append(t, w)) BY <1>1, <1>2, CompletionHelpers
<1> QED BY <1>3, <1>4, <1>5, <1>6, <1>7 DEF r, c

---------------------------------------------------------------------------
(* The forms of statements.  What is inside a statement does as it should: *)

Inside(run, js, x, quiet, s) ==
  \A j \in Parts(s) : \A l \in Targets :
    l = NoLabel \/ j \in quiet => Faithful(run[j], js[j], l, x[j])

\* and then the statement itself, entered with l.
Does(run, js, x, s, l) ==
  \A t \in Seq(Marks) : Agree(l, Leaving(x, s), Exec(run, s, In(l, t)), Eval(js, s, JsIn(t)))

\* The two evaluators, by the form of the statement.
LEMMA ExecForms ==
  ASSUME NEW run, NEW s, NEW r
  PROVE  /\ s[1] = "mark" => Exec(run, s, r) = Mark(Normal(r), s)
         /\ s[1] \in {"throw", "fail"} => Exec(run, s, r) = Raise(s[1], r)
         /\ s[1] = "block" => Exec(run, s, r) = RunList(run, s[2], r)
         /\ s[1] = "if" => Exec(run, s, r) = If(run, s[2], s[3], s[4], r)
         /\ s[1] = "switch" => Exec(run, s, r) = Switch(run, s[2], s[3], r)
         /\ s[1] = "label" => Exec(run, s, r) = Labelled(run, s[2], s[3], r)
         /\ s[1] \in Loops => Exec(run, s, r) = Loop(run, s, r)
         /\ s[1] = "try" => Exec(run, s, r) = Try(run, s[2], s[3], s[4], r)
         /\ s[1] = "call" => Exec(run, s, r) = Call(run, s[2], r)
BY DEF Exec, Loops, TestLoops, ItemLoops

LEMMA EvalForms ==
  ASSUME NEW js, NEW s, NEW c
  PROVE  /\ s[1] = "mark" => Eval(js, s, c) = Note(Done(c), s)
         /\ s[1] \in {"throw", "fail"} => Eval(js, s, c) = Throwing(s[1], c)
         /\ s[1] = "block" => Eval(js, s, c) = EvalList(js, s[2], c)
         /\ s[1] = "if" => Eval(js, s, c) = EvalIf(js, s[2], s[3], s[4], c)
         /\ s[1] = "switch" => Eval(js, s, c) = EvalSwitch(js, s[2], s[3], c)
         /\ s[1] = "label" => Eval(js, s, c) = EvalLabelled(js, s[2], s[3], c)
         /\ s[1] \in Loops => Eval(js, s, c) = EvalLoop(js, s, c)
         /\ s[1] = "try" => Eval(js, s, c) = EvalTry(js, s[2], s[3], s[4], c)
         /\ s[1] = "call" => Eval(js, s, c) = EvalCall(js, s[2], c)
BY DEF Eval, Jumps, Loops, TestLoops, ItemLoops

LEMMA ExecJump ==
  ASSUME NEW run, NEW s, s[1] \in Jumps, NEW r \in Reg
  PROVE  Exec(run, s, r) = [k |-> s[1], v |-> r.v, err |-> r.err,
                            label |-> IF s[2] = NoLabel THEN r.label ELSE s[2], trace |-> r.trace]
<1>1. PICK e : e = Exec(run, s, r) OBVIOUS
<1>2. e = Jump(s, r) BY <1>1 DEF Exec, Jumps, Loops, TestLoops, ItemLoops
<1>3. e = [k |-> s[1], v |-> r.v, err |-> r.err,
           label |-> IF s[2] = NoLabel THEN r.label ELSE s[2], trace |-> r.trace]
  BY <1>2 DEF Jump, Reg
<1> QED BY <1>1, <1>3

LEMMA EvalJump ==
  ASSUME NEW js, NEW s, s[1] \in Jumps, NEW c \in Completion
  PROVE  Eval(js, s, c) = [type |-> s[1], target |-> s[2], v |-> c.v, trace |-> c.trace]
<1>1. PICK e : e = Eval(js, s, c) OBVIOUS
<1>2. e = Jumping(s, c) BY <1>1 DEF Eval, Jumps, Loops, TestLoops, ItemLoops
<1>3. e = [type |-> s[1], target |-> s[2], v |-> c.v, trace |-> c.trace]
  BY <1>2 DEF Jumping, Completion
<1> QED BY <1>1, <1>3

LEMMA ExecReturn ==
  ASSUME NEW run, NEW s, s[1] = "return", NEW r \in Reg
  PROVE  Exec(run, s, r) = [k |-> "return", v |-> s[2], err |-> r.err,
                            label |-> r.label, trace |-> r.trace]
<1>1. PICK e : e = Exec(run, s, r) OBVIOUS
<1>2. e = GiveBack(s[2], r) BY <1>1 DEF Exec, Loops, TestLoops, ItemLoops
<1>3. e = [k |-> "return", v |-> s[2], err |-> r.err, label |-> r.label, trace |-> r.trace]
  BY <1>2 DEF GiveBack, Reg
<1> QED BY <1>1, <1>3

LEMMA EvalReturn ==
  ASSUME NEW js, NEW s, s[1] = "return", NEW c \in Completion
  PROVE  Eval(js, s, c) = [type |-> "return", target |-> c.target, v |-> s[2], trace |-> c.trace]
<1>1. PICK e : e = Eval(js, s, c) OBVIOUS
<1>2. e = Returning(s[2], c) BY <1>1 DEF Eval, Jumps, Loops, TestLoops, ItemLoops
<1>3. e = [type |-> "return", target |-> c.target, v |-> s[2], trace |-> c.trace]
  BY <1>2 DEF Returning, Completion
<1> QED BY <1>1, <1>3

Inner(x, s) == UNION {x[i] : i \in Parts(s)}

LEMMA LeavingForms ==
  ASSUME NEW x, NEW s
  PROVE  /\ s[1] \in Jumps => Leaving(x, s) = {s}
         /\ s[1] \in {"block", "if", "try"} => Leaving(x, s) = Inner(x, s)
         /\ s[1] = "switch" => Leaving(x, s) = Inner(x, s) \ {<<"break", NoLabel>>}
         /\ s[1] = "label" => Leaving(x, s) = Inner(x, s) \ ({"break"} \X s[2])
         /\ s[1] \in Loops => Leaving(x, s) = Inner(x, s) \ (Jumps \X (s[2] \cup {NoLabel}))
BY DEF Leaving, Inner, Jumps, Loops, TestLoops, ItemLoops

LEMMA MarkDoes ==
  ASSUME NEW run, NEW js, NEW x, NEW s, s \in {"mark"} \X Nat, NEW l \in Targets
  PROVE  Does(run, js, x, s, l)
<1>1. s[1] = "mark" OBVIOUS
<1> SUFFICES ASSUME NEW t \in Seq(Marks)
             PROVE  Agree(l, Leaving(x, s), Exec(run, s, In(l, t)), Eval(js, s, JsIn(t)))
  BY DEF Does
<1>2. Exec(run, s, In(l, t)) = In(l, Append(t, s)) BY <1>1, NormalIn, ExecForms
<1>3. Eval(js, s, JsIn(t)) = JsIn(Append(t, s)) BY <1>1, NormalIn, EvalForms
<1>4. Append(t, s) \in Seq(Marks)
  <2>1. s \in Marks BY DEF Marks
  <2> QED BY <2>1
<1> QED BY <1>2, <1>3, <1>4, AgreeIn

LEMMA JumpDoes ==
  ASSUME NEW run, NEW js, NEW x, NEW s, s \in Jumps \X Targets, NEW l \in Targets, l = NoLabel
  PROVE  Does(run, js, x, s, l)
<1>1. s[1] \in Jumps /\ s[2] \in Targets /\ s = <<s[1], s[2]>> BY DEF Jumps
<1> SUFFICES ASSUME NEW t \in Seq(Marks)
             PROVE  Agree(l, Leaving(x, s), Exec(run, s, In(l, t)), Eval(js, s, JsIn(t)))
  BY DEF Does
<1>a. /\ In(l, t) \in Reg /\ In(l, t).k = "normal" /\ In(l, t).v = 0 /\ In(l, t).err = "none"
      /\ In(l, t).label = l /\ In(l, t).trace = t
  BY InReg
<1>b. JsIn(t) \in Completion BY JsInReg
<1>c. JsIn(t).type = "normal" /\ JsIn(t).target = NoLabel /\ JsIn(t).v = 0 /\ JsIn(t).trace = t BY JsInReg
<1>2. Exec(run, s, In(l, t)) =
        [k |-> s[1], v |-> 0, err |-> "none", label |-> s[2], trace |-> t]
  <2>1. Exec(run, s, In(l, t)) =
          [k |-> s[1], v |-> In(l, t).v, err |-> In(l, t).err,
           label |-> IF s[2] = NoLabel THEN In(l, t).label ELSE s[2], trace |-> In(l, t).trace]
    BY <1>1, <1>a, ExecJump
  <2> QED BY <1>a, <2>1
<1>3. Eval(js, s, JsIn(t)) = [type |-> s[1], target |-> s[2], v |-> 0, trace |-> t]
  <2>1. Eval(js, s, JsIn(t)) =
          [type |-> s[1], target |-> s[2], v |-> JsIn(t).v, trace |-> JsIn(t).trace]
    BY <1>1, <1>b, EvalJump
  <2> QED BY <1>c, <2>1
<1>4. Leaving(x, s) = {s} BY <1>1, LeavingForms
<1> QED BY <1>1, <1>2, <1>3, <1>4 DEF Agree, Reg, Completion, Jumps

LEMMA ReturnDoes ==
  ASSUME NEW run, NEW js, NEW x, NEW s, s[1] = "return", s[2] \in Nat, NEW l \in Targets, l = NoLabel
  PROVE  Does(run, js, x, s, l)
<1> SUFFICES ASSUME NEW t \in Seq(Marks)
             PROVE  Agree(l, Leaving(x, s), Exec(run, s, In(l, t)), Eval(js, s, JsIn(t)))
  BY DEF Does
<1>a. /\ In(l, t) \in Reg /\ In(l, t).k = "normal" /\ In(l, t).v = 0 /\ In(l, t).err = "none"
      /\ In(l, t).label = l /\ In(l, t).trace = t
  BY InReg
<1>b. JsIn(t) \in Completion BY JsInReg
<1>c. JsIn(t).type = "normal" /\ JsIn(t).target = NoLabel /\ JsIn(t).v = 0 /\ JsIn(t).trace = t BY JsInReg
<1>2. Exec(run, s, In(l, t)) =
        [k |-> "return", v |-> s[2], err |-> "none", label |-> l, trace |-> t]
  <2>1. Exec(run, s, In(l, t)) = [k |-> "return", v |-> s[2], err |-> In(l, t).err,
                                  label |-> In(l, t).label, trace |-> In(l, t).trace]
    BY <1>a, ExecReturn
  <2> QED BY <1>a, <2>1
<1>3. Eval(js, s, JsIn(t)) = [type |-> "return", target |-> NoLabel, v |-> s[2], trace |-> t]
  <2>1. Eval(js, s, JsIn(t)) = [type |-> "return", target |-> JsIn(t).target, v |-> s[2],
                                trace |-> JsIn(t).trace]
    BY <1>b, EvalReturn
  <2> QED BY <1>c, <2>1
<1> QED BY <1>2, <1>3 DEF Agree, Reg, Completion, Jumps

LEMMA RaiseDoes ==
  ASSUME NEW run, NEW js, NEW x, NEW s, s[1] \in {"throw", "fail"}, NEW l \in Targets, l = NoLabel
  PROVE  Does(run, js, x, s, l)
<1> SUFFICES ASSUME NEW t \in Seq(Marks)
             PROVE  Agree(l, Leaving(x, s), Exec(run, s, In(l, t)), Eval(js, s, JsIn(t)))
  BY DEF Does
<1>a. /\ In(l, t) \in Reg /\ In(l, t).k = "normal" /\ In(l, t).v = 0 /\ In(l, t).err = "none"
      /\ In(l, t).label = l /\ In(l, t).trace = t
  BY InReg
<1>b. JsIn(t) \in Completion BY JsInReg
<1>c. JsIn(t).type = "normal" /\ JsIn(t).target = NoLabel /\ JsIn(t).v = 0 /\ JsIn(t).trace = t BY JsInReg
<1>2. Exec(run, s, In(l, t)) =
        [k |-> "normal", v |-> 0, err |-> s[1], label |-> l, trace |-> t]
  <2>1. Exec(run, s, In(l, t)) = Raise(s[1], In(l, t)) BY ExecForms, Zenon
  <2>2. Raise(s[1], In(l, t)) =
          [k |-> "normal", v |-> 0, err |-> s[1], label |-> In(l, t).label, trace |-> In(l, t).trace]
    BY <1>a, RegHelpers, Zenon
  <2> QED BY <1>a, <2>1, <2>2
<1>3. Eval(js, s, JsIn(t)) = [type |-> s[1], target |-> NoLabel, v |-> 0, trace |-> t]
  BY <1>b, <1>c, EvalForms, CompletionHelpers
<1> QED BY <1>2, <1>3 DEF Agree, Reg, Completion, Jumps

---------------------------------------------------------------------------
(* Lists, blocks, calls, conditions and labels.                            *)

LEMMA FaithfulMore ==
  ASSUME NEW f, NEW g, NEW l, NEW x, NEW y, x \subseteq y, Faithful(f, g, l, x)
  PROVE  Faithful(f, g, l, y)
BY AgreeMore DEF Faithful

\* One more statement of a list.
LEMMA StepAgrees ==
  ASSUME NEW l \in Targets, NEW y, NEW r, NEW c, Agree(l, y, r, c), NEW f, NEW g, Faithful(f, g, l, y)
  PROVE  Agree(l, y, IF Abrupt(r) THEN r ELSE f[r], IF IsAbrupt(c) THEN c ELSE g[c])
<1>1. Abrupt(r) <=> IsAbrupt(c) BY AgreeAbrupt
<1>2. CASE IsAbrupt(c) BY <1>1, <1>2
<1>3. CASE ~IsAbrupt(c)
  <2>1. r = In(l, c.trace) /\ c = JsIn(c.trace) /\ c.trace \in Seq(Marks)
    BY <1>3, AgreeNormal DEF IsAbrupt
  <2>2. Agree(l, y, f[r], g[c])
    <3>1. PICK t : t = c.trace OBVIOUS
    <3> QED BY <2>1, <3>1 DEF Faithful
  <2> QED BY <1>1, <1>3, <2>2
<1> QED BY <1>2, <1>3

LEMMA ListDoes ==
  ASSUME NEW run, NEW js, NEW y, NEW l \in Targets, NEW list, Len(list) \in Nat,
         \A i \in 1..Len(list) : Faithful(run[list[i]], js[list[i]], l, y),
         NEW t \in Seq(Marks)
  PROVE  Agree(l, y, RunList(run, list, In(l, t)), EvalList(js, list, JsIn(t)))
<1> DEFINE n == Len(list)
           f == [i \in 1..n |-> [s \in Reg |-> IF Abrupt(s) THEN s ELSE run[list[i]][s]]]
           h == [i \in 1..n |-> [d \in Completion |-> IF IsAbrupt(d) THEN d ELSE js[list[i]][d]]]
           P == {o \in Reg \X Completion : Agree(l, y, o[1], o[2])}
           R == [i \in 0..n |-> P]
<1>1. n \in Nat OBVIOUS
<1>2. RunList(run, list, In(l, t)) = Through(f, In(l, t)) BY NormalIn DEF RunList
<1>3. EvalList(js, list, JsIn(t)) = Through(h, JsIn(t)) BY NormalIn DEF EvalList
<1>4. Len(f) = n /\ Len(h) = n
  <2>1. f = [i \in 1..n |-> f[i]] /\ h = [i \in 1..n |-> h[i]] OBVIOUS
  <2> HIDE DEF f, h, n
  <2> QED BY <1>1, <2>1, LenOf
<1>5. ASSUME NEW r, NEW c PROVE <<r, c>> \in P <=> Agree(l, y, r, c)
  <2>1. Agree(l, y, r, c) => r \in Reg /\ c \in Completion BY DEF Agree
  <2> QED BY <2>1, Zenon
<1>6. <<In(l, t), JsIn(t)>> \in R[0]
  <2>1. R[0] = P BY <1>1
  <2> HIDE DEF P, R
  <2> QED BY <1>5, <2>1, AgreeIn
<1>7. ASSUME NEW i \in 1..n, NEW r, NEW c, <<r, c>> \in R[i - 1]
      PROVE  <<f[i][r], h[i][c]>> \in R[i]
  <2>1. R[i - 1] = P /\ R[i] = P BY <1>1
  <2>2. Agree(l, y, r, c) BY <1>5, <1>7, <2>1
  <2>3. f[i][r] = IF Abrupt(r) THEN r ELSE run[list[i]][r] BY <2>2 DEF Agree
  <2>4. h[i][c] = IF IsAbrupt(c) THEN c ELSE js[list[i]][c] BY <2>2 DEF Agree
  <2> HIDE DEF f, h, P, R
  <2>5. Agree(l, y, f[i][r], h[i][c]) BY <2>2, <2>3, <2>4, StepAgrees
  <2> QED BY <1>5, <2>1, <2>5
<1>8. <<Through(f, In(l, t)), Through(h, JsIn(t))>> \in R[n]
  <2> HIDE DEF f, h, R, n
  <2> QED BY <1>1, <1>4, <1>6, <1>7, InStep
<1>9. R[n] = P BY <1>1
<1> HIDE DEF f, h, P, R
<1> QED BY <1>2, <1>3, <1>5, <1>8, <1>9

\* What is inside s does as it should, entered with l.
All(run, js, x, s, l) == \A j \in Parts(s) : Faithful(run[j], js[j], l, x[j])

LEMMA AllInner ==
  ASSUME NEW run, NEW js, NEW x, NEW s, NEW l, All(run, js, x, s, l), NEW j \in Parts(s)
  PROVE  Faithful(run[j], js[j], l, Inner(x, s))
<1>1. x[j] \subseteq Inner(x, s) BY DEF Inner
<1>2. Faithful(run[j], js[j], l, x[j]) BY DEF All
<1> QED BY <1>1, <1>2, FaithfulMore

LEMMA PartsForms ==
  ASSUME NEW s
  PROVE  /\ s[1] \in {"block", "call"} => Parts(s) = {s[2][i] : i \in DOMAIN s[2]}
         /\ s[1] = "switch" =>
              Parts(s) = UNION {{s[3][i].list[j] : j \in DOMAIN s[3][i].list} : i \in DOMAIN s[3]}
         /\ s[1] = "if" => Parts(s) = {s[3], s[4]} \ {0}
         /\ s[1] \in Loops \cup {"label"} => Parts(s) = {s[3]}
         /\ s[1] = "try" => Parts(s) = {s[2], s[3], s[4]} \ {0}
BY DEF Parts, Loops, TestLoops, ItemLoops

LEMMA BlockDoes ==
  ASSUME NEW run, NEW js, NEW x, NEW s, NEW l \in Targets, All(run, js, x, s, l),
         s[1] = "block", NEW n, s[2] \in Seq(n)
  PROVE  Does(run, js, x, s, l)
<1>1. Len(s[2]) \in Nat /\ DOMAIN s[2] = 1..Len(s[2]) BY LenProperties
<1>2. Leaving(x, s) = Inner(x, s) BY LeavingForms
<1>3. ASSUME NEW i \in 1..Len(s[2]) PROVE Faithful(run[s[2][i]], js[s[2][i]], l, Inner(x, s))
  <2>1. s[2][i] \in Parts(s) BY <1>1, PartsForms
  <2> QED BY <2>1, AllInner
<1>4. ASSUME NEW t \in Seq(Marks)
      PROVE  Agree(l, Leaving(x, s), Exec(run, s, In(l, t)), Eval(js, s, JsIn(t)))
  <2>1. Agree(l, Inner(x, s), RunList(run, s[2], In(l, t)), EvalList(js, s[2], JsIn(t)))
    BY <1>1, <1>3, ListDoes
  <2>2. Exec(run, s, In(l, t)) = RunList(run, s[2], In(l, t)) BY ExecForms
  <2>3. Eval(js, s, JsIn(t)) = EvalList(js, s[2], JsIn(t)) BY EvalForms
  <2> QED BY <1>2, <2>1, <2>2, <2>3
<1> QED BY <1>4 DEF Does

\* A function's body, out of which no jump leads.
LEMMA BodyDoes ==
  ASSUME NEW run, NEW js, NEW l \in Targets, NEW list, Len(list) \in Nat,
         \A i \in 1..Len(list) : Faithful(run[list[i]], js[list[i]], l, {}),
         NEW t \in Seq(Marks)
  PROVE  Agree(l, {}, RunBody(run, list, In(l, t)), EvalBody(js, list, JsIn(t)))
<1> DEFINE r == RunList(run, list, In(l, t))
           c == EvalList(js, list, JsIn(t))
<1>1. Agree(l, {}, r, c) BY ListDoes
<1>2. RunBody(run, list, In(l, t)) = IF r.err # "none" \/ r.k = "return" THEN r ELSE Normal(r)
  BY DEF RunBody
<1>3. EvalBody(js, list, JsIn(t)) = IF c.type = "normal" THEN Done(c) ELSE c BY DEF EvalBody
<1> HIDE DEF r, c
<1>4. CASE c.type = "normal"
  <2>1. r = In(l, c.trace) /\ c = JsIn(c.trace) /\ c.trace \in Seq(Marks) BY <1>1, <1>4, AgreeNormal
  <2>2. Normal(r) = r /\ Done(c) = c
    <3>1. PICK u \in Seq(Marks) : u = c.trace BY <2>1
    <3> QED BY <2>1, <3>1, NormalIn
  <2> QED BY <1>1, <1>2, <1>3, <2>2
<1>5. CASE c.type # "normal"
  <2>1. r.err # "none" \/ r.k = "return" BY <1>1, <1>5 DEF Agree, Completion, Jumps
  <2> QED BY <1>1, <1>2, <1>3, <1>5, <2>1
<1> QED BY <1>4, <1>5

LEMMA CallDoes ==
  ASSUME NEW run, NEW js, NEW x, NEW s, NEW l \in Targets, All(run, js, x, s, l),
         s[1] = "call", NEW n, s[2] \in Seq(n), \A j \in Parts(s) : x[j] = {}
  PROVE  Does(run, js, x, s, l)
<1>1. Len(s[2]) \in Nat /\ DOMAIN s[2] = 1..Len(s[2]) BY LenProperties
<1>2. ASSUME NEW i \in 1..Len(s[2]) PROVE Faithful(run[s[2][i]], js[s[2][i]], l, {})
  <2>1. s[2][i] \in Parts(s) BY <1>1, PartsForms
  <2> QED BY <2>1 DEF All
<1>3. ASSUME NEW t \in Seq(Marks), NEW y
      PROVE  Agree(l, y, Exec(run, s, In(l, t)), Eval(js, s, JsIn(t)))
  <2> DEFINE r == RunBody(run, s[2], In(l, t))
             c == EvalBody(js, s[2], JsIn(t))
  <2>1. Agree(l, {}, r, c) BY <1>1, <1>2, BodyDoes
  <2>2. Exec(run, s, In(l, t)) = IF r.err # "none" THEN r ELSE Mark(Normal(r), <<"returned", r.v>>)
    <3>1. Exec(run, s, In(l, t)) = Call(run, s[2], In(l, t)) BY ExecForms
    <3> QED BY <3>1 DEF Call
  <2>3. Eval(js, s, JsIn(t)) = IF c.type \in {"throw", "fail"} THEN c ELSE Note(Done(c), <<"returned", c.v>>)
    <3>1. Eval(js, s, JsIn(t)) = EvalCall(js, s[2], JsIn(t)) BY EvalForms
    <3> QED BY <3>1 DEF EvalCall
  <2> HIDE DEF r, c
  <2>4. CASE c.type \in {"throw", "fail"}
    <3>1. r.err # "none" BY <2>1, <2>4 DEF Agree
    <3>2. Agree(l, y, r, c) BY <2>1, AgreeMore
    <3> QED BY <2>2, <2>3, <2>4, <3>1, <3>2
  <2>5. CASE c.type \notin {"throw", "fail"}
    <3>1. /\ r.err = "none" /\ r \in Reg /\ c \in Completion /\ r.label = l /\ r.trace = c.trace
          /\ r.v = c.v
      BY <2>1, <2>5 DEF Agree
    <3>2. c.v \in Nat /\ c.trace \in Seq(Marks) BY <3>1 DEF Completion
    <3>3. PICK m : m = <<"returned", c.v>> OBVIOUS
    <3>4. m \in Marks BY <3>2, <3>3 DEF Marks
    <3>5. PICK u \in Seq(Marks) : u = c.trace BY <3>2
    <3>6. Normal(r) = In(l, u)
      <4>1. Normal(r) = [k |-> "normal", v |-> 0, err |-> r.err, label |-> r.label, trace |-> r.trace]
        BY <3>1, RegHelpers
      <4> QED BY <3>1, <3>5, <4>1 DEF In
    <3>7. Done(c) = JsIn(u) BY <3>1, <3>5, CompletionHelpers
    <3>8. Mark(Normal(r), m) = In(l, Append(u, m)) BY <3>6, NormalIn
    <3>9. Note(Done(c), m) = JsIn(Append(u, m)) BY <3>7, NormalIn
    <3>10. Append(u, m) \in Seq(Marks) BY <3>4
    <3>11. Agree(l, y, In(l, Append(u, m)), JsIn(Append(u, m))) BY <3>10, AgreeIn
    <3>12. Exec(run, s, In(l, t)) = Mark(Normal(r), m) BY <2>2, <3>1, <3>3
    <3>13. Eval(js, s, JsIn(t)) = Note(Done(c), m) BY <2>3, <2>5, <3>3
    <3> QED BY <3>8, <3>9, <3>11, <3>12, <3>13
  <2> QED BY <2>4, <2>5
<1> QED BY <1>3 DEF Does

LEMMA IfDoes ==
  ASSUME NEW run, NEW js, NEW x, NEW s, NEW l \in Targets, All(run, js, x, s, l),
         s[1] = "if", s[3] # 0
  PROVE  Does(run, js, x, s, l)
<1>1. Leaving(x, s) = Inner(x, s) /\ Parts(s) = {s[3], s[4]} \ {0} BY LeavingForms, PartsForms
<1>2. ASSUME NEW t \in Seq(Marks)
      PROVE  Agree(l, Inner(x, s), Exec(run, s, In(l, t)), Eval(js, s, JsIn(t)))
  <2>1. Exec(run, s, In(l, t)) = IF ValueOf(s[2], t) = TRUE THEN run[s[3]][In(l, t)]
                                 ELSE IF s[4] # 0 THEN run[s[4]][In(l, t)] ELSE In(l, t)
    <3>1. Exec(run, s, In(l, t)) = If(run, s[2], s[3], s[4], In(l, t)) BY ExecForms
    <3>2. In(l, t).trace = t BY InReg
    <3>3. Normal(In(l, t)) = In(l, t) BY NormalIn
    <3> QED BY <3>1, <3>2, <3>3 DEF If, True
  <2>2. Eval(js, s, JsIn(t)) = IF ValueOf(s[2], t) = TRUE THEN js[s[3]][JsIn(t)]
                               ELSE IF s[4] # 0 THEN js[s[4]][JsIn(t)] ELSE JsIn(t)
    <3>1. Eval(js, s, JsIn(t)) = EvalIf(js, s[2], s[3], s[4], JsIn(t)) BY EvalForms
    <3>2. JsIn(t).trace = t BY JsInReg
    <3>3. Done(JsIn(t)) = JsIn(t) BY NormalIn
    <3> QED BY <3>1, <3>2, <3>3 DEF EvalIf
  <2>3. ASSUME NEW j \in Parts(s) PROVE Agree(l, Inner(x, s), run[j][In(l, t)], js[j][JsIn(t)])
    BY AllInner DEF Faithful
  <2>4. Agree(l, Inner(x, s), In(l, t), JsIn(t)) BY AgreeIn
  <2>5. s[3] \in Parts(s) /\ (s[4] # 0 => s[4] \in Parts(s)) BY <1>1
  <2> QED BY <2>1, <2>2, <2>3, <2>4, <2>5
<1> QED BY <1>1, <1>2 DEF Does

\* The register once its label has been taken out.
LEMMA Taken ==
  ASSUME NEW r \in Reg
  PROVE  /\ [Normal(r) EXCEPT !.label = NoLabel] =
              [k |-> "normal", v |-> 0, err |-> r.err, label |-> NoLabel, trace |-> r.trace]
         /\ [r EXCEPT !.label = NoLabel] =
              [k |-> r.k, v |-> r.v, err |-> r.err, label |-> NoLabel, trace |-> r.trace]
<1>1. PICK n : n = Normal(r) OBVIOUS
<1>2. n = [k |-> "normal", v |-> 0, err |-> r.err, label |-> r.label, trace |-> r.trace]
  BY <1>1, RegHelpers
<1>3. PICK e : e = [n EXCEPT !.label = NoLabel] OBVIOUS
<1>4. e = [k |-> "normal", v |-> 0, err |-> r.err, label |-> NoLabel, trace |-> r.trace]
  BY <1>2, <1>3
<1>5. PICK f : f = [r EXCEPT !.label = NoLabel] OBVIOUS
<1>6. f = [k |-> r.k, v |-> r.v, err |-> r.err, label |-> NoLabel, trace |-> r.trace]
  BY <1>5 DEF Reg
<1> QED BY <1>1, <1>3, <1>4, <1>5, <1>6, Zenon

\* A jump that ends here: the statement completes normally.
LEMMA TakenAgrees ==
  ASSUME NEW l \in Targets, NEW x, NEW y, NEW r, NEW c, Agree(l, x, r, c), c.type \in Jumps
  PROVE  /\ Agree(l, y, [Normal(r) EXCEPT !.label = NoLabel], Done(c))
         /\ c.target = NoLabel => Agree(l, y, Normal(r), Done(c))
<1>1. /\ r \in Reg /\ c \in Completion /\ r.trace = c.trace /\ r.err = "none" /\ r.label = c.target
      /\ l = NoLabel
  BY DEF Agree, Jumps
<1>2. PICK u \in Seq(Marks) : u = c.trace BY <1>1 DEF Completion
<1>3. Done(c) = JsIn(u) BY <1>1, <1>2, CompletionHelpers
<1>4. [Normal(r) EXCEPT !.label = NoLabel] = In(l, u)
  <2>1. [Normal(r) EXCEPT !.label = NoLabel] =
          [k |-> "normal", v |-> 0, err |-> r.err, label |-> NoLabel, trace |-> r.trace]
    BY <1>1, Taken, Zenon
  <2> QED BY <1>1, <1>2, <2>1, Zenon DEF In
<1>5. c.target = NoLabel => Normal(r) = In(l, u)
  <2>1. Normal(r) = [k |-> "normal", v |-> 0, err |-> r.err, label |-> r.label, trace |-> r.trace]
    BY <1>1, RegHelpers
  <2> QED BY <1>1, <1>2, <2>1 DEF In
<1> QED BY <1>3, <1>4, <1>5, AgreeIn

LEMMA LabelDoes ==
  ASSUME NEW run, NEW js, NEW x, NEW s, NEW l \in Targets, All(run, js, x, s, l), s[1] = "label"
  PROVE  Does(run, js, x, s, l)
<1>1. Leaving(x, s) = Inner(x, s) \ ({"break"} \X s[2]) /\ Parts(s) = {s[3]} BY LeavingForms, PartsForms
<1>2. ASSUME NEW t \in Seq(Marks)
      PROVE  Agree(l, Leaving(x, s), Exec(run, s, In(l, t)), Eval(js, s, JsIn(t)))
  <2> DEFINE r == run[s[3]][In(l, t)]
             c == js[s[3]][JsIn(t)]
  <2>1. Agree(l, Inner(x, s), r, c) BY <1>1, AllInner DEF Faithful
  <2>2. Exec(run, s, In(l, t)) = IF r.err = "none" /\ r.k = "break" /\ r.label \in s[2]
                                 THEN [Normal(r) EXCEPT !.label = NoLabel] ELSE r
    <3>1. Exec(run, s, In(l, t)) = Labelled(run, s[2], s[3], In(l, t)) BY ExecForms
    <3> QED BY <3>1, Zenon DEF Labelled, HasLabel
  <2>3. Eval(js, s, JsIn(t)) = IF c.type = "break" /\ c.target \in s[2] THEN Done(c) ELSE c
    <3>1. Eval(js, s, JsIn(t)) = EvalLabelled(js, s[2], s[3], JsIn(t)) BY EvalForms
    <3> QED BY <3>1 DEF EvalLabelled
  <2> HIDE DEF r, c
  <2>4. CASE c.type = "break" /\ c.target \in s[2]
    <3>1. r.err = "none" /\ r.k = "break" /\ r.label \in s[2] BY <2>1, <2>4 DEF Agree, Jumps
    <3>2. Agree(l, Leaving(x, s), [Normal(r) EXCEPT !.label = NoLabel], Done(c))
      <4>1. c.type \in Jumps BY <2>4 DEF Jumps
      <4> QED BY <2>1, <4>1, TakenAgrees
    <3>3. Exec(run, s, In(l, t)) = [Normal(r) EXCEPT !.label = NoLabel] BY <2>2, <3>1, Zenon
    <3>4. Eval(js, s, JsIn(t)) = Done(c) BY <2>3, <2>4
    <3> QED BY <3>2, <3>3, <3>4, Zenon
  <2>5. CASE ~(c.type = "break" /\ c.target \in s[2])
    <3>1. ~(r.err = "none" /\ r.k = "break" /\ r.label \in s[2])
      BY <2>1, <2>5 DEF Agree, Jumps, Completion
    <3>2. Exec(run, s, In(l, t)) = r BY <2>2, <3>1, Zenon
    <3>3. Eval(js, s, JsIn(t)) = c BY <2>3, <2>5
    <3>4. Agree(l, Leaving(x, s), r, c)
      <4>1. c.type \in Jumps => <<c.type, c.target>> \in Leaving(x, s)
        BY <1>1, <2>1, <2>5 DEF Agree, Jumps
      <4> QED BY <2>1, <4>1 DEF Agree
    <3> QED BY <3>2, <3>3, <3>4
  <2> QED BY <2>4, <2>5
<1> QED BY <1>2 DEF Does

---------------------------------------------------------------------------
(* Switches.                                                               *)

\* The clauses from Start on are those that are entered or fallen into.
LEMMA StartIs ==
  ASSUME NEW e, NEW clauses, Len(clauses) \in Nat, DOMAIN clauses = 1..Len(clauses), NEW t,
         NEW i \in 1..Len(clauses)
  PROVE  /\ Start(e, clauses, t) \in Nat \ {0}
         /\ Start(e, clauses, t) <= i <=> \E j \in 1..i : Entered(e, clauses, j, t)
<1> DEFINE n == Len(clauses)
           cases == {j \in DOMAIN clauses : /\ clauses[j].test # "default"
                                            /\ ValueOf(clauses[j].test, t) = ValueOf(e, t)}
           def == {j \in DOMAIN clauses : clauses[j].test = "default"}
           from == IF cases # {} THEN cases ELSE def
<1>1. from \subseteq 1..n /\ n \in Nat OBVIOUS
<1>2. \A j \in 1..n : Entered(e, clauses, j, t) <=> j \in from
  <2>1. (\E j \in DOMAIN clauses : Equal(e, clauses[j].test, t)) <=> cases # {} BY DEF Equal
  <2>2. \A j \in 1..n : Equal(e, clauses[j].test, t) <=> j \in cases BY DEF Equal
  <2>3. \A j \in 1..n : clauses[j].test = "default" <=> j \in def OBVIOUS
  <2> HIDE DEF cases, def, n
  <2> QED BY <2>1, <2>2, <2>3 DEF Entered
<1>3. Start(e, clauses, t) = IF from = {} THEN n + 1 ELSE CHOOSE j \in from : \A k \in from : j <= k
  BY Zenon DEF Start
<1> HIDE DEF from, n
<1>4. CASE from = {}
  <2>1. Start(e, clauses, t) = n + 1 BY <1>3, <1>4
  <2>2. i \in 1..n BY DEF n
  <2>3. \A j \in 1..i : j \in 1..n BY <1>1, <2>2
  <2> QED BY <1>1, <1>2, <1>4, <2>1, <2>2, <2>3
<1>5. CASE from # {}
  <2>1. from \subseteq Nat BY <1>1
  <2>2. \E j \in from : \A k \in from : j <= k BY <1>5, <2>1, NatMin
  <2>3. PICK j \in from : j = Start(e, clauses, t) /\ \A k \in from : j <= k BY <1>3, <1>5, <2>2
  <2>4. i \in 1..n BY DEF n
  <2>5. j \in 1..n BY <1>1, <2>3
  <2>6. j <= i => \E k \in 1..i : Entered(e, clauses, k, t)
    <3>1. j <= i => j \in 1..i BY <2>4, <2>5
    <3> QED BY <1>2, <2>3, <2>5, <3>1
  <2>7. ASSUME NEW k \in 1..i, Entered(e, clauses, k, t) PROVE j <= i
    <3>1. k \in 1..n BY <1>1, <2>4
    <3>2. k \in from BY <1>2, <2>7, <3>1
    <3>3. j <= k BY <2>3, <3>2
    <3> QED BY <1>1, <2>4, <2>5, <3>1, <3>3
  <2> QED BY <2>3, <2>5, <2>6, <2>7
<1> QED BY <1>4, <1>5

\* What an unlabelled break makes of a switch.
Settled(c) == IF c.type = "break" /\ c.target = NoLabel THEN Done(c) ELSE c

\* Between two clauses.
Switching(l, y, on, a, b) ==
  /\ a \in Going /\ b \in [running : BOOLEAN, c : Completion]
  /\ Agree(l, y, a.r, Settled(b.c))
  /\ a.stop <=> IsAbrupt(b.c)
  /\ b.running <=> on

LEMMA ClauseDoes ==
  ASSUME NEW run, NEW js, NEW l \in Targets, NEW x, NEW list, Len(list) \in Nat,
         \A i \in 1..Len(list) : Faithful(run[list[i]], js[list[i]], l, x),
         NEW u \in Seq(Marks)
  PROVE  Switching(l, x \ {<<"break", NoLabel>>}, TRUE, Clause(run, list, In(l, u)),
                   EvalClause(js, list, TRUE, JsIn(u)))
<1> DEFINE r == RunList(run, list, In(l, u))
           c == EvalList(js, list, JsIn(u))
           y == x \ {<<"break", NoLabel>>}
<1>1. Agree(l, x, r, c) BY ListDoes
<1>2. Clause(run, list, In(l, u)) =
        IF r.err = "none" /\ r.k = "break" /\ r.label = NoLabel
        THEN [stop |-> TRUE, r |-> Normal(r)] ELSE [stop |-> Abrupt(r), r |-> r]
  BY Zenon DEF Clause
<1>3. EvalClause(js, list, TRUE, JsIn(u)) = [running |-> TRUE, c |-> c]
  <2>1. ~IsAbrupt(JsIn(u)) BY NormalIn
  <2> QED BY <2>1, Zenon DEF EvalClause
<1> HIDE DEF r, c
<1>4. c \in Completion /\ r \in Reg BY <1>1 DEF Agree
<1>5. CASE c.type = "break" /\ c.target = NoLabel
  <2>1. c.type \in Jumps BY <1>5 DEF Jumps
  <2>2. r.err = "none" /\ r.k = "break" /\ r.label = NoLabel BY <1>1, <1>5 DEF Agree, Jumps
  <2>3. Agree(l, y, Normal(r), Done(c)) BY <1>1, <1>5, <2>1, TakenAgrees
  <2>4. Settled(c) = Done(c) BY <1>5 DEF Settled
  <2>5. IsAbrupt(c) BY <1>5 DEF IsAbrupt
  <2>6. Normal(r) \in Reg BY <2>3 DEF Agree
  <2> HIDE DEF y
  <2>7. Switching(l, y, TRUE, [stop |-> TRUE, r |-> Normal(r)], [running |-> TRUE, c |-> c])
    BY <1>4, <2>3, <2>4, <2>5, <2>6 DEF Switching, Going
  <2>8. Clause(run, list, In(l, u)) = [stop |-> TRUE, r |-> Normal(r)] BY <1>2, <2>2
  <2> QED BY <1>3, <2>7, <2>8 DEF y
<1>6. CASE ~(c.type = "break" /\ c.target = NoLabel)
  <2>1. ~(r.err = "none" /\ r.k = "break" /\ r.label = NoLabel)
    BY <1>1, <1>6 DEF Agree, Jumps, Completion
  <2>2. c.type \in Jumps => <<c.type, c.target>> \in y BY <1>1, <1>6 DEF Agree
  <2>3. Agree(l, y, r, c) BY <1>1, <2>2 DEF Agree
  <2>4. Settled(c) = c BY <1>6 DEF Settled
  <2>5. Abrupt(r) <=> IsAbrupt(c) BY <1>1, AgreeAbrupt
  <2>6. Abrupt(r) \in BOOLEAN BY DEF Abrupt
  <2> HIDE DEF y
  <2>7. Switching(l, y, TRUE, [stop |-> Abrupt(r), r |-> r], [running |-> TRUE, c |-> c])
    BY <1>4, <2>3, <2>4, <2>5, <2>6 DEF Switching, Going
  <2>8. Clause(run, list, In(l, u)) = [stop |-> Abrupt(r), r |-> r] BY <1>2, <2>1
  <2> QED BY <1>3, <2>7, <2>8 DEF y
<1> QED BY <1>5, <1>6

\* The statements of a list.
Listed(run, js, l, x, list) ==
  /\ Len(list) \in Nat
  /\ \A i \in 1..Len(list) : Faithful(run[list[i]], js[list[i]], l, x)

\* One more clause.
LEMMA ClauseSwitches ==
  ASSUME NEW run, NEW js, NEW l \in Targets, NEW x, NEW list, Listed(run, js, l, x, list),
         NEW on \in BOOLEAN, NEW then \in BOOLEAN, on => then, NEW a, NEW b,
         Switching(l, x \ {<<"break", NoLabel>>}, on, a, b)
  PROVE  Switching(l, x \ {<<"break", NoLabel>>}, then,
                   IF a.stop \/ ~then THEN a ELSE Clause(run, list, a.r),
                   EvalClause(js, list, then, b.c))
<1> DEFINE y == x \ {<<"break", NoLabel>>}
<1>1. /\ a \in Going /\ b \in [running : BOOLEAN, c : Completion]
      /\ Agree(l, y, a.r, Settled(b.c)) /\ (a.stop <=> IsAbrupt(b.c))
  BY DEF Switching
<1>2. b.c \in Completion BY <1>1
<1>3. CASE IsAbrupt(b.c) \/ ~then
  <2>1. EvalClause(js, list, then, b.c) = [running |-> then, c |-> b.c] BY <1>3 DEF EvalClause
  <2>2. a.stop \/ ~then BY <1>1, <1>3
  <2> HIDE DEF y
  <2>3. Switching(l, y, then, a, [running |-> then, c |-> b.c]) BY <1>1, <1>2 DEF Switching
  <2> QED BY <2>1, <2>2, <2>3 DEF y
<1>4. CASE ~IsAbrupt(b.c) /\ then
  <2>1. b.c.type = "normal" /\ Settled(b.c) = b.c BY <1>4 DEF IsAbrupt, Settled
  <2>2. PICK u \in Seq(Marks) : a.r = In(l, u) /\ b.c = JsIn(u)
    <3> HIDE DEF y
    <3> QED BY <1>1, <2>1, AgreeNormal
  <2>3. ~(a.stop \/ ~then) /\ then = TRUE BY <1>1, <1>4
  <2> HIDE DEF y
  <2>4. Switching(l, y, TRUE, Clause(run, list, In(l, u)), EvalClause(js, list, TRUE, JsIn(u)))
    BY ClauseDoes DEF Listed, y
  <2>5. (IF a.stop \/ ~then THEN a ELSE Clause(run, list, a.r)) = Clause(run, list, In(l, u))
    BY <2>2, <2>3
  <2>6. EvalClause(js, list, then, b.c) = EvalClause(js, list, TRUE, JsIn(u)) BY <2>2, <2>3
  <2> QED BY <2>3, <2>4, <2>5, <2>6, Zenon DEF y
<1> QED BY <1>3, <1>4

LEMMA SwitchDoes ==
  ASSUME NEW run, NEW js, NEW x, NEW s, NEW l \in Targets, All(run, js, x, s, l), s[1] = "switch",
         Len(s[3]) \in Nat, DOMAIN s[3] = 1..Len(s[3]),
         NEW m, \A i \in DOMAIN s[3] : s[3][i].list \in Seq(m)
  PROVE  Does(run, js, x, s, l)
<1> SUFFICES ASSUME NEW t \in Seq(Marks)
             PROVE  Agree(l, Leaving(x, s), Exec(run, s, In(l, t)), Eval(js, s, JsIn(t)))
  BY DEF Does
<1> DEFINE n == Len(s[3])
           e == s[2]
           w == Inner(x, s)
           y == w \ {<<"break", NoLabel>>}
           start == Start(e, s[3], t)
           f == [i \in 1..n |-> [a \in Going |-> IF a.stop \/ i < start THEN a
                                                ELSE Clause(run, s[3][i].list, a.r)]]
           h == [i \in 1..n |-> [b \in [running : BOOLEAN, c : Completion] |->
                    EvalClause(js, s[3][i].list, b.running \/ Entered(e, s[3], i, t), b.c)]]
           P(i) == {o \in Going \X [running : BOOLEAN, c : Completion] :
                      Switching(l, y, start <= i, o[1], o[2])}
           R == [i \in 0..n |-> P(i)]
           a0 == [stop |-> FALSE, r |-> In(l, t)]
           b0 == [running |-> FALSE, c |-> JsIn(t)]
<1>1. n \in Nat OBVIOUS
<1>2. Leaving(x, s) = y BY LeavingForms
<1>3. Exec(run, s, In(l, t)) = Through(f, a0).r
  <2>1. Exec(run, s, In(l, t)) = Switch(run, s[2], s[3], In(l, t)) BY ExecForms
  <2>2. Normal(In(l, t)) = In(l, t) BY NormalIn
  <2>3. In(l, t).trace = t BY InReg
  <2> QED BY <2>1, <2>2, <2>3, Zenon DEF Switch
<1>4. Eval(js, s, JsIn(t)) = Settled(Through(h, b0).c)
  <2>1. Eval(js, s, JsIn(t)) = EvalSwitch(js, s[2], s[3], JsIn(t)) BY EvalForms
  <2>2. Done(JsIn(t)) = JsIn(t) BY NormalIn
  <2>3. JsIn(t).trace = t BY JsInReg
  <2> QED BY <2>1, <2>2, <2>3, Zenon DEF EvalSwitch, Settled
<1>5. Len(f) = n /\ Len(h) = n
  <2>1. f = [i \in 1..n |-> f[i]] /\ h = [i \in 1..n |-> h[i]] OBVIOUS
  <2> HIDE DEF f, h, n
  <2> QED BY <1>1, <2>1, LenOf
<1>6. ASSUME NEW i, NEW a, NEW b PROVE <<a, b>> \in P(i) <=> Switching(l, y, start <= i, a, b)
  <2>1. Switching(l, y, start <= i, a, b) =>
          a \in Going /\ b \in [running : BOOLEAN, c : Completion]
    BY DEF Switching
  <2> HIDE DEF start, y
  <2> QED BY <2>1, Zenon
<1>7. <<a0, b0>> \in R[0]
  <2>1. R[0] = P(0) BY <1>1
  <2>2. ~(start <= 0)
    <3>1. start \in Nat \ {0}
      <4>1. CASE n = 0
        <5>1. DOMAIN s[3] = {} BY <4>1
        <5>2. start = n + 1 BY <5>1 DEF Start
        <5> QED BY <1>1, <5>2
      <4>2. CASE n # 0
        <5>1. 1 \in 1..n BY <1>1, <4>2
        <5> QED BY <5>1, StartIs
      <4> QED BY <4>1, <4>2
    <3> HIDE DEF start
    <3> QED BY <3>1
  <2>3. JsIn(t).type = "normal" /\ Settled(JsIn(t)) = JsIn(t) /\ ~IsAbrupt(JsIn(t))
    BY JsInReg DEF Settled, IsAbrupt
  <2>4. a0 \in Going /\ a0.r = In(l, t) /\ ~a0.stop
    <3>1. In(l, t) \in Reg BY InReg
    <3> QED BY <3>1 DEF Going
  <2>5. b0 \in [running : BOOLEAN, c : Completion] /\ b0.c = JsIn(t) /\ ~b0.running
    <3>1. JsIn(t) \in Completion BY JsInReg
    <3> QED BY <3>1
  <2>6. Agree(l, y, In(l, t), JsIn(t)) BY AgreeIn
  <2> HIDE DEF y, start, a0, b0, R, P
  <2>7. Switching(l, y, start <= 0, a0, b0) BY <2>2, <2>3, <2>4, <2>5, <2>6 DEF Switching
  <2> QED BY <1>6, <2>1, <2>7
<1>8. ASSUME NEW i \in 1..n, NEW a, NEW b, <<a, b>> \in R[i - 1]
      PROVE  <<f[i][a], h[i][b]>> \in R[i]
  <2>1. R[i - 1] = P(i - 1) /\ R[i] = P(i) BY <1>1
  <2>2. Switching(l, y, start <= i - 1, a, b) BY <1>6, <1>8, <2>1, Zenon
  <2>3. a \in Going /\ b \in [running : BOOLEAN, c : Completion] /\ (b.running <=> start <= i - 1)
    BY <2>2 DEF Switching
  <2> DEFINE list == s[3][i].list
             then == start <= i
  <2>4. b.running \/ Entered(e, s[3], i, t) <=> then
    <3>1. i \in 1..n /\ i \in Nat OBVIOUS
    <3>2. start \in Nat /\ (then <=> \E j \in 1..i : Entered(e, s[3], j, t)) BY StartIs
    <3>3. start <= i - 1 <=> \E j \in 1..(i - 1) : Entered(e, s[3], j, t)
      <4>1. CASE i = 1
        <5>1. start \in Nat \ {0} BY StartIs
        <5> HIDE DEF start
        <5> QED BY <4>1, <5>1
      <4>2. CASE i # 1
        <5>1. i - 1 \in 1..Len(s[3]) BY <1>1, <3>1, <4>2
        <5> QED BY <5>1, StartIs
      <4> QED BY <4>1, <4>2
    <3>4. \A j : j \in 1..i <=> j \in 1..(i - 1) \/ j = i BY <3>1
    <3> HIDE DEF start, n
    <3> QED BY <2>3, <3>2, <3>3, <3>4
  <2>5. f[i][a] = IF a.stop \/ ~then THEN a ELSE Clause(run, list, a.r)
    <3>1. start \in Nat BY StartIs
    <3>2. i < start <=> ~then
      <4> HIDE DEF start
      <4> QED BY <3>1
    <3>3. f[i][a] = IF a.stop \/ i < start THEN a ELSE Clause(run, s[3][i].list, a.r)
      BY <2>3, Zenon
    <3> HIDE DEF start, f, n
    <3> QED BY <3>2, <3>3
  <2>6. h[i][b] = EvalClause(js, list, then, b.c)
    <3>1. h[i][b] = EvalClause(js, list, b.running \/ Entered(e, s[3], i, t), b.c) BY <2>3, Zenon
    <3>2. (b.running \/ Entered(e, s[3], i, t)) = then
      <4>1. then \in BOOLEAN /\ (b.running \/ Entered(e, s[3], i, t)) \in BOOLEAN OBVIOUS
      <4> HIDE DEF then
      <4> QED BY <2>4, <4>1
    <3> QED BY <3>1, <3>2
  <2>7. Len(list) \in Nat /\ DOMAIN list = 1..Len(list) BY LenProperties
  <2>8. ASSUME NEW k \in 1..Len(list) PROVE Faithful(run[list[k]], js[list[k]], l, w)
    <3>1. list[k] \in Parts(s)
      <4>1. Parts(s) = UNION {{s[3][o].list[j] : j \in DOMAIN s[3][o].list} : o \in DOMAIN s[3]}
        BY PartsForms
      <4>2. k \in DOMAIN list BY <2>7
      <4> DEFINE of(o) == {s[3][o].list[j] : j \in DOMAIN s[3][o].list}
      <4>3. list[k] \in of(i) BY <4>2
      <4>4. i \in DOMAIN s[3] OBVIOUS
      <4>5. Parts(s) = UNION {of(o) : o \in DOMAIN s[3]} BY <4>1
      <4> HIDE DEF of
      <4>6. of(i) \in {of(o) : o \in DOMAIN s[3]} BY <4>4
      <4> QED BY <4>3, <4>5, <4>6
    <3> QED BY <3>1, AllInner
  <2>9. (start <= i - 1) \in BOOLEAN /\ then \in BOOLEAN /\ (start <= i - 1 => then)
    <3>1. start \in Nat BY StartIs
    <3> HIDE DEF start
    <3> QED BY <3>1
  <2> HIDE DEF f, h, P, R, list, then, w, start, n
  <2>10. Switching(l, y, then, IF a.stop \/ ~then THEN a ELSE Clause(run, list, a.r),
                   EvalClause(js, list, then, b.c))
    <3>1. PICK on \in BOOLEAN : on = (start <= i - 1) BY <2>9
    <3>2. PICK th \in BOOLEAN : th = then BY <2>9
    <3>3. (on => th) /\ Switching(l, w \ {<<"break", NoLabel>>}, on, a, b) BY <2>2, <2>9, <3>1, <3>2
    <3>4. Switching(l, w \ {<<"break", NoLabel>>}, th,
                    IF a.stop \/ ~th THEN a ELSE Clause(run, list, a.r),
                    EvalClause(js, list, th, b.c))
      <4>1. Listed(run, js, l, w, list) BY <2>7, <2>8 DEF Listed
      <4> QED BY <3>3, <4>1, ClauseSwitches
    <3> QED BY <3>2, <3>4
  <2>11. Switching(l, y, then, f[i][a], h[i][b]) BY <2>5, <2>6, <2>10
  <2>12. <<f[i][a], h[i][b]>> \in P(i) BY <1>6, <2>11 DEF then
  <2> QED BY <2>1, <2>12
<1>9. <<Through(f, a0), Through(h, b0)>> \in R[n]
  <2> HIDE DEF f, h, R, P, n, a0, b0
  <2> QED BY <1>1, <1>5, <1>7, <1>8, InStep
<1>10. R[n] = P(n) BY <1>1
<1> HIDE DEF f, h, R, P, n, a0, b0, start
<1>11. Switching(l, y, start <= n, Through(f, a0), Through(h, b0)) BY <1>6, <1>9, <1>10
<1>12. Agree(l, y, Through(f, a0).r, Settled(Through(h, b0).c)) BY <1>11 DEF Switching
<1> QED BY <1>2, <1>3, <1>4, <1>12

---------------------------------------------------------------------------
(* Loops.                                                                  *)

\* Between two rounds.
Looping(l, y, a, b) ==
  /\ a \in Going /\ b \in [over : BOOLEAN, c : Completion]
  /\ Agree(l, y, a.r, b.c)
  /\ a.stop <=> b.over
  /\ ~b.over => b.c.type = "normal"

LEMMA LoopingIs ==
  ASSUME NEW l, NEW y, NEW r, NEW c, Agree(l, y, r, c), NEW stop \in BOOLEAN,
         ~stop => c.type = "normal"
  PROVE  Looping(l, y, [stop |-> stop, r |-> r], [over |-> stop, c |-> c])
BY DEF Looping, Going, Agree

\* What a body's completion makes of the loop.
JsAfter(labels, d) ==
  IF d.type = "break" /\ Own(d, labels) THEN [over |-> TRUE, c |-> Done(d)]
  ELSE IF d.type = "continue" /\ Own(d, labels) THEN [over |-> FALSE, c |-> Done(d)]
  ELSE [over |-> IsAbrupt(d), c |-> d]

TestAfter(labels, b) == IF b.err # "none" THEN [stop |-> TRUE, r |-> b] ELSE LoopControl(b, labels)

ItemAfter(labels, e) ==
  LET b == StepResult(e, labels)
  IN  IF e.err # "none" THEN [stop |-> TRUE, r |-> e]
      ELSE IF b.k = "break" /\ b.label = NoLabel THEN [stop |-> TRUE, r |-> Normal(b)]
      ELSE [stop |-> b.k # "normal", r |-> b]

LEMMA TestAfterDoes ==
  ASSUME NEW l \in Targets, NEW x, NEW labels, NEW r, NEW c, Agree(l, x, r, c)
  PROVE  Looping(l, x \ (Jumps \X (labels \cup {NoLabel})), TestAfter(labels, r), JsAfter(labels, c))
<1> DEFINE y == x \ (Jumps \X (labels \cup {NoLabel}))
           mine == r.label = NoLabel \/ HasLabel(labels, r.label)
           own == [Normal(r) EXCEPT !.label = NoLabel]
<1>1. TestAfter(labels, r) =
        IF r.err # "none" THEN [stop |-> TRUE, r |-> r]
        ELSE IF r.k = "break" THEN [stop |-> TRUE, r |-> IF mine THEN own ELSE r]
        ELSE IF r.k = "continue" THEN [stop |-> ~mine, r |-> IF mine THEN own ELSE r]
        ELSE [stop |-> r.k = "return", r |-> r]
  <2> HIDE DEF own, mine
  <2>1. LoopControl(r, labels) =
          CASE r.k = "break" -> [stop |-> TRUE, r |-> IF mine THEN own ELSE r]
            [] r.k = "continue" -> [stop |-> ~mine, r |-> IF mine THEN own ELSE r]
            [] OTHER -> [stop |-> r.k = "return", r |-> r]
    BY Zenon DEF LoopControl, mine, own
  <2> QED BY <2>1 DEF TestAfter
<1>2. mine \in BOOLEAN BY DEF HasLabel
<1>3. c.type \in Jumps => (mine <=> Own(c, labels)) BY DEF Agree, Own, HasLabel
<1>4. CASE c.type \in Jumps /\ Own(c, labels)
  <2>1. Agree(l, y, own, Done(c)) BY <1>4, TakenAgrees
  <2>2. Done(c).type = "normal"
    <3>1. c \in Completion BY DEF Agree
    <3> QED BY <3>1, CompletionHelpers DEF JsIn
  <2>3. r.err = "none" /\ r.k = c.type /\ mine BY <1>3, <1>4 DEF Agree, Jumps
  <2> HIDE DEF y, own, mine
  <2>4. CASE c.type = "break"
    <3>1. TestAfter(labels, r) = [stop |-> TRUE, r |-> own] BY <1>1, <2>3, <2>4
    <3>2. JsAfter(labels, c) = [over |-> TRUE, c |-> Done(c)] BY <1>4, <2>4 DEF JsAfter
    <3>3. Looping(l, y, [stop |-> TRUE, r |-> own], [over |-> TRUE, c |-> Done(c)])
      BY <2>1, <2>2, LoopingIs
    <3> QED BY <3>1, <3>2, <3>3 DEF y
  <2>5. CASE c.type = "continue"
    <3>1. TestAfter(labels, r) = [stop |-> FALSE, r |-> own] BY <1>1, <2>3, <2>5
    <3>2. JsAfter(labels, c) = [over |-> FALSE, c |-> Done(c)] BY <1>4, <2>5 DEF JsAfter
    <3>3. Looping(l, y, [stop |-> FALSE, r |-> own], [over |-> FALSE, c |-> Done(c)])
      BY <2>1, <2>2, LoopingIs
    <3> QED BY <3>1, <3>2, <3>3 DEF y
  <2> QED BY <1>4, <2>4, <2>5 DEF Jumps
<1>5. CASE ~(c.type \in Jumps /\ Own(c, labels))
  <2>1. JsAfter(labels, c) = [over |-> IsAbrupt(c), c |-> c] BY <1>5 DEF JsAfter, Jumps
  <2>2. Agree(l, y, r, c)
    <3>1. c.type \in Jumps => <<c.type, c.target>> \in y BY <1>5 DEF Agree, Own
    <3> QED BY <3>1 DEF Agree
  <2>3. TestAfter(labels, r) = [stop |-> IsAbrupt(c), r |-> r]
    <3>1. CASE c.type \in Jumps
      <4>1. r.err = "none" /\ r.k = c.type /\ ~mine BY <1>3, <1>5, <3>1 DEF Agree, Jumps
      <4>2. IsAbrupt(c) = TRUE BY <3>1 DEF IsAbrupt, Jumps
      <4> HIDE DEF own, mine
      <4> QED BY <1>1, <1>2, <3>1, <4>1, <4>2 DEF Jumps
    <3>2. CASE c.type \in {"throw", "fail"}
      <4>1. r.err # "none" BY <3>2 DEF Agree
      <4>2. IsAbrupt(c) = TRUE BY <3>2 DEF IsAbrupt
      <4> HIDE DEF own, mine
      <4> QED BY <1>1, <4>1, <4>2
    <3>3. CASE c.type \in {"normal", "return"}
      <4>1. r.err = "none" /\ r.k = c.type BY <3>3 DEF Agree
      <4>2. IsAbrupt(c) = (c.type = "return") BY <3>3 DEF IsAbrupt
      <4> HIDE DEF own, mine
      <4> QED BY <1>1, <3>3, <4>1, <4>2
    <3> QED BY <3>1, <3>2, <3>3 DEF Agree, Completion, Jumps
  <2>4. IsAbrupt(c) \in BOOLEAN /\ (~IsAbrupt(c) => c.type = "normal") BY DEF IsAbrupt
  <2> HIDE DEF y
  <2>5. Looping(l, y, [stop |-> IsAbrupt(c), r |-> r], [over |-> IsAbrupt(c), c |-> c])
    <3>1. PICK stop \in BOOLEAN : stop = IsAbrupt(c) BY <2>4
    <3> QED BY <2>2, <2>4, <3>1, LoopingIs
  <2> QED BY <2>1, <2>3, <2>5 DEF y
<1> QED BY <1>4, <1>5

LEMMA ItemAfterDoes ==
  ASSUME NEW l \in Targets, NEW x, NEW labels, NEW r, NEW c, Agree(l, x, r, c)
  PROVE  Looping(l, x \ (Jumps \X (labels \cup {NoLabel})), ItemAfter(labels, r), JsAfter(labels, c))
<1> DEFINE y == x \ (Jumps \X (labels \cup {NoLabel}))
           z == StepResult(r, labels)
           taken == [r EXCEPT !.label = NoLabel]
           kept == IF r.k \in {"break", "continue"} /\ r.label # NoLabel /\ r.label \in labels
                   THEN taken ELSE r
<1>1. ItemAfter(labels, r) =
        IF r.err # "none" THEN [stop |-> TRUE, r |-> r]
        ELSE IF z.k = "break" /\ z.label = NoLabel THEN [stop |-> TRUE, r |-> Normal(z)]
        ELSE [stop |-> z.k # "normal", r |-> z]
  BY Zenon DEF ItemAfter
<1>2. z = IF kept.k = "continue" /\ kept.label = NoLabel THEN Normal(kept) ELSE kept
  BY Zenon DEF StepResult, HasLabel
<1>3. /\ r \in Reg /\ c \in Completion /\ r.trace = c.trace
      /\ taken = [k |-> r.k, v |-> r.v, err |-> r.err, label |-> NoLabel, trace |-> r.trace]
  <2>1. r \in Reg /\ c \in Completion /\ r.trace = c.trace BY DEF Agree
  <2> QED BY <2>1, Taken, Zenon
<1> HIDE DEF z, taken
<1>4. CASE c.type \in Jumps /\ Own(c, labels)
  <2>1. /\ r.err = "none" /\ r.k = c.type /\ r.label = c.target /\ l = NoLabel /\ r.v = 0
        /\ r.k \in {"break", "continue"}
    BY <1>4 DEF Agree, Jumps
  <2>2. kept = [k |-> c.type, v |-> 0, err |-> "none", label |-> NoLabel, trace |-> r.trace]
    <3>1. CASE r.label = NoLabel
      <4>1. kept = r BY <3>1
      <4>2. r = [k |-> c.type, v |-> 0, err |-> "none", label |-> NoLabel, trace |-> r.trace]
        BY <1>3, <2>1, <3>1 DEF Reg
      <4> QED BY <4>1, <4>2, Zenon
    <3>2. CASE r.label # NoLabel
      <4>1. r.label \in labels BY <1>4, <2>1, <3>2 DEF Own
      <4>2. kept = taken BY <2>1, <3>2, <4>1
      <4> HIDE DEF kept
      <4> QED BY <1>3, <2>1, <4>2
    <3> QED BY <3>1, <3>2
  <2> HIDE DEF kept
  <2>3. PICK u \in Seq(Marks) : u = c.trace BY <1>3 DEF Completion
  <2>4. kept \in Reg
    <3>1. NoLabel \in Targets BY DEF Targets
    <3> QED BY <1>3, <1>4, <2>2, <2>3, <3>1 DEF Reg, Jumps
  <2>5. Normal(kept) = In(l, u)
    <3>1. Normal(kept) = [k |-> "normal", v |-> 0, err |-> kept.err, label |-> kept.label, trace |-> kept.trace]
      BY <2>4, RegHelpers
    <3>2. kept.err = "none" /\ kept.label = l /\ kept.trace = u BY <1>3, <2>1, <2>2, <2>3
    <3> QED BY <3>1, <3>2 DEF In
  <2>6. Done(c) = JsIn(u) /\ JsIn(u).type = "normal" BY <1>3, <2>3, CompletionHelpers DEF JsIn
  <2>7. Agree(l, y, In(l, u), Done(c)) BY <2>6, AgreeIn
  <2> HIDE DEF y
  <2>8. CASE c.type = "break"
    <3>1. kept.k = "break" /\ kept.label = NoLabel BY <2>2, <2>8
    <3>2. z = kept BY <1>2, <3>1
    <3>3. ItemAfter(labels, r) = [stop |-> TRUE, r |-> In(l, u)] BY <1>1, <2>1, <2>5, <3>1, <3>2
    <3>4. JsAfter(labels, c) = [over |-> TRUE, c |-> Done(c)] BY <1>4, <2>8 DEF JsAfter
    <3>5. Looping(l, y, [stop |-> TRUE, r |-> In(l, u)], [over |-> TRUE, c |-> Done(c)])
      BY <2>6, <2>7, LoopingIs
    <3> QED BY <3>3, <3>4, <3>5 DEF y
  <2>9. CASE c.type = "continue"
    <3>1. kept.k = "continue" /\ kept.label = NoLabel BY <2>2, <2>9
    <3>2. z = In(l, u) BY <1>2, <2>5, <3>1
    <3>3. z.k = "normal" BY <3>2 DEF In
    <3>4. ItemAfter(labels, r) = [stop |-> FALSE, r |-> In(l, u)] BY <1>1, <2>1, <3>2, <3>3
    <3>5. JsAfter(labels, c) = [over |-> FALSE, c |-> Done(c)] BY <1>4, <2>9 DEF JsAfter
    <3>6. Looping(l, y, [stop |-> FALSE, r |-> In(l, u)], [over |-> FALSE, c |-> Done(c)])
      BY <2>6, <2>7, LoopingIs
    <3> QED BY <3>4, <3>5, <3>6 DEF y
  <2> QED BY <1>4, <2>8, <2>9 DEF Jumps
<1>5. CASE ~(c.type \in Jumps /\ Own(c, labels))
  <2>1. JsAfter(labels, c) = [over |-> IsAbrupt(c), c |-> c] BY <1>5 DEF JsAfter, Jumps
  <2>2. Agree(l, y, r, c)
    <3>1. c.type \in Jumps => <<c.type, c.target>> \in y BY <1>5 DEF Agree, Own
    <3> QED BY <3>1 DEF Agree
  <2>3. ItemAfter(labels, r) = [stop |-> IsAbrupt(c), r |-> r]
    <3>1. CASE c.type \in Jumps
      <4>1. r.err = "none" /\ r.k = c.type /\ r.label # NoLabel /\ r.label \notin labels
        BY <1>5, <3>1 DEF Agree, Jumps, Own
      <4>2. IsAbrupt(c) = TRUE BY <3>1 DEF IsAbrupt, Jumps
      <4>3. kept = r BY <4>1
      <4>4. z = r BY <1>2, <4>1, <4>3
      <4> QED BY <1>1, <3>1, <4>1, <4>2, <4>4 DEF Jumps
    <3>2. CASE c.type \in {"throw", "fail"}
      <4>1. r.err # "none" BY <3>2 DEF Agree
      <4>2. IsAbrupt(c) = TRUE BY <3>2 DEF IsAbrupt
      <4> QED BY <1>1, <4>1, <4>2
    <3>3. CASE c.type \in {"normal", "return"}
      <4>1. r.err = "none" /\ r.k = c.type BY <3>3 DEF Agree
      <4>2. IsAbrupt(c) = (c.type # "normal") BY <3>3 DEF IsAbrupt
      <4>3. kept = r BY <3>3, <4>1
      <4>4. z = r BY <1>2, <3>3, <4>1, <4>3
      <4> QED BY <1>1, <3>3, <4>1, <4>2, <4>4
    <3> QED BY <1>3, <3>1, <3>2, <3>3 DEF Completion, Jumps
  <2>4. IsAbrupt(c) \in BOOLEAN /\ (~IsAbrupt(c) => c.type = "normal") BY DEF IsAbrupt
  <2> HIDE DEF y
  <2>5. Looping(l, y, [stop |-> IsAbrupt(c), r |-> r], [over |-> IsAbrupt(c), c |-> c])
    <3>1. PICK stop \in BOOLEAN : stop = IsAbrupt(c) BY <2>4
    <3> QED BY <2>2, <2>4, <3>1, LoopingIs
  <2> QED BY <2>1, <2>3, <2>5 DEF y
<1> QED BY <1>4, <1>5

\* What is evaluated before the body in the nth round.
JsHead(form, e, n) == IF n = 1 THEN JsFirst(e)[form] ELSE JsNext(e)[form]
JsHeaded(c, head) == [c EXCEPT !.trace = @ \o head]

LEMMA HeadIs ==
  ASSUME NEW form \in Loops, NEW e \in STRING, NEW n \in Nat \ {0}
  PROVE  /\ form = "do" /\ n = 1 => JsHead(form, e, n) = <<>>
         /\ form = "for" /\ n # 1 => JsHead(form, e, n) = <<<<"update", e>>, <<"test", e>>>>
         /\ ~(form = "do" /\ n = 1) /\ ~(form = "for" /\ n # 1) => JsHead(form, e, n) = <<<<"test", e>>>>
         /\ (JsFirst(e)[form] # <<>> \/ n > 1) <=> ~(form = "do" /\ n = 1)
<1> DEFINE one == <<<<"test", e>>>>
           two == <<<<"update", e>>, <<"test", e>>>>
           first == [while |-> one, do |-> <<>>, for |-> one, forof |-> one, forin |-> one]
           next == [while |-> one, do |-> one, for |-> two, forof |-> one, forin |-> one]
<1>1. JsFirst(e) = first BY Zenon DEF JsFirst
<1>2. JsNext(e) = next
  <2>1. PICK o : o = first OBVIOUS
  <2>2. PICK q : q = [o EXCEPT !.do = one, !.for = two] OBVIOUS
  <2>3. q = next
    <3> HIDE DEF one, two
    <3> QED BY <2>1, <2>2
  <2> QED BY <1>1, <2>1, <2>2, <2>3, Zenon DEF JsNext
<1>3. one # <<>> OBVIOUS
<1>4. /\ first.while = one /\ first.do = <<>> /\ first.for = one /\ first.forof = one /\ first.forin = one
      /\ next.while = one /\ next.do = one /\ next.for = two /\ next.forof = one /\ next.forin = one
  BY Zenon
<1> HIDE DEF one, two, first, next
<1>5. form \in {"while", "do", "for", "forof", "forin"} BY DEF Loops, TestLoops, ItemLoops
<1>6. /\ form = "do" => first[form] = <<>> /\ next[form] = one
      /\ form = "for" => first[form] = one /\ next[form] = two
      /\ form \in {"while", "forof", "forin"} => first[form] = one /\ next[form] = one
  BY <1>4
<1>7. JsHead(form, e, n) = IF n = 1 THEN first[form] ELSE next[form] BY <1>1, <1>2 DEF JsHead
<1>8. (first[form] # <<>> \/ n > 1) <=> ~(form = "do" /\ n = 1) BY <1>3, <1>5, <1>6
<1>9. /\ form = "do" /\ n = 1 => JsHead(form, e, n) = <<>>
      /\ form = "for" /\ n # 1 => JsHead(form, e, n) = two
      /\ ~(form = "do" /\ n = 1) /\ ~(form = "for" /\ n # 1) => JsHead(form, e, n) = one
  BY <1>5, <1>6, <1>7
<1> QED BY <1>1, <1>8, <1>9 DEF one, two

LEMMA Appends ==
  ASSUME NEW S, NEW u \in Seq(S), NEW a \in S, NEW b \in S
  PROVE  u \o <<>> = u /\ u \o <<b>> = Append(u, b) /\ u \o <<a, b>> = Append(Append(u, a), b)
<1>1. u \o <<a, b>> = Append(Append(u, a), b) OBVIOUS
<1>2. u \o <<b>> = Append(u, b) OBVIOUS
<1>3. u \o <<>> = u OBVIOUS
<1> QED BY <1>1, <1>2, <1>3

LEMMA HeadsAgree ==
  ASSUME NEW form \in Loops, NEW e \in STRING, NEW n \in Nat \ {0}, NEW l \in Targets,
         NEW u \in Seq(Marks)
  PROVE  /\ u \o JsHead(form, e, n) \in Seq(Marks)
         /\ form \in TestLoops => LoopHead(form, e, n, In(l, u)) = In(l, u \o JsHead(form, e, n))
         /\ form \in ItemLoops => Mark(In(l, u), <<"test", e>>) = In(l, u \o JsHead(form, e, n))
         /\ JsHeaded(JsIn(u), JsHead(form, e, n)) = JsIn(u \o JsHead(form, e, n))
<1> DEFINE h == JsHead(form, e, n)
           up == <<"update", e>>
           ts == <<"test", e>>
<1>1. up \in Marks /\ ts \in Marks BY DEF Marks
<1>2. /\ form = "do" /\ n = 1 => h = <<>>
      /\ form = "for" /\ n # 1 => h = <<up, ts>>
      /\ ~(form = "do" /\ n = 1) /\ ~(form = "for" /\ n # 1) => h = <<ts>>
  BY HeadIs
<1>3. PICK j : j = JsIn(u) OBVIOUS
<1>4. JsHeaded(JsIn(u), h) = JsIn(u \o h)
  <2>1. PICK q : q = [j EXCEPT !.trace = j.trace \o h] OBVIOUS
  <2>2. j = [type |-> "normal", target |-> NoLabel, v |-> 0, trace |-> u] BY <1>3 DEF JsIn
  <2> HIDE DEF h
  <2>3. q = [type |-> "normal", target |-> NoLabel, v |-> 0, trace |-> u \o h] BY <2>1, <2>2
  <2> QED BY <1>3, <2>1, <2>3, Zenon DEF JsIn, JsHeaded
<1>5. \A w : Mark(In(l, u), w) = In(l, Append(u, w)) BY NormalIn
<1>6. Append(u, up) \in Seq(Marks) /\ Append(u, ts) \in Seq(Marks)
      /\ Append(Append(u, up), ts) \in Seq(Marks)
  <2> HIDE DEF up, ts
  <2> QED BY <1>1
<1>7. \A w : Mark(In(l, Append(u, up)), w) = In(l, Append(Append(u, up), w)) BY <1>6, NormalIn
<1>8. LoopHead(form, e, n, In(l, u)) =
        LET o == IF form = "for" /\ n # 1 THEN Mark(In(l, u), up) ELSE In(l, u)
        IN  IF form = "do" /\ n = 1 THEN o ELSE Mark(o, ts)
  BY Zenon DEF LoopHead
<1> HIDE DEF h, up, ts
<1>9. u \o <<>> = u /\ u \o <<ts>> = Append(u, ts) /\ u \o <<up, ts>> = Append(Append(u, up), ts)
  BY <1>1, Appends
<1>10. CASE form = "do" /\ n = 1
  <2>1. u \o h = u BY <1>2, <1>9, <1>10
  <2>2. LoopHead(form, e, n, In(l, u)) = In(l, u) BY <1>8, <1>10
  <2> QED BY <1>4, <1>10, <2>1, <2>2 DEF ItemLoops, h
<1>11. CASE form = "for" /\ n # 1
  <2>1. u \o h = Append(Append(u, up), ts) BY <1>2, <1>9, <1>11
  <2>2. LoopHead(form, e, n, In(l, u)) = In(l, u \o h) BY <1>5, <1>7, <1>8, <1>11, <2>1
  <2> QED BY <1>4, <1>6, <1>11, <2>1, <2>2 DEF ItemLoops, h
<1>12. CASE ~(form = "do" /\ n = 1) /\ ~(form = "for" /\ n # 1)
  <2>1. u \o h = Append(u, ts) BY <1>2, <1>9, <1>12
  <2>2. LoopHead(form, e, n, In(l, u)) = In(l, u \o h) BY <1>5, <1>8, <1>12, <2>1
  <2>3. Mark(In(l, u), ts) = In(l, u \o h) BY <1>5, <2>1
  <2> QED BY <1>4, <1>6, <2>1, <2>2, <2>3 DEF ts, h
<1> QED BY <1>10, <1>11, <1>12

\* The step limit.
LEMMA LimitAgrees ==
  ASSUME NEW l \in Targets, l = NoLabel, NEW y, NEW t \in Seq(Marks)
  PROVE  Looping(l, y, [stop |-> TRUE, r |-> Raise("fail", In(l, t))],
                       [over |-> TRUE, c |-> Throwing("fail", JsIn(t))])
<1>1. In(l, t) \in Reg /\ In(l, t).label = l /\ In(l, t).trace = t BY InReg
<1>2. JsIn(t) \in Completion /\ JsIn(t).trace = t BY JsInReg
<1>3. Raise("fail", In(l, t)) = [k |-> "normal", v |-> 0, err |-> "fail", label |-> l, trace |-> t]
  <2>1. Raise("fail", In(l, t)) =
          [k |-> "normal", v |-> 0, err |-> "fail", label |-> In(l, t).label, trace |-> In(l, t).trace]
    BY <1>1, RegHelpers, Zenon
  <2> QED BY <1>1, <2>1
<1>4. Throwing("fail", JsIn(t)) = [type |-> "fail", target |-> NoLabel, v |-> 0, trace |-> t]
  BY <1>2, CompletionHelpers
<1>5. Agree(l, y, Raise("fail", In(l, t)), Throwing("fail", JsIn(t)))
  BY <1>3, <1>4 DEF Agree, Reg, Completion, Jumps
<1> QED BY <1>5, LoopingIs

\* A round, once its head has been evaluated to h.
RoundFrom(js, form, labels, work, e, n, c, h) ==
  IF n > MaxRounds /\ form \notin {"forof", "forin"} THEN [over |-> TRUE, c |-> Throwing("fail", c)]
  ELSE IF Ended(form, e, n, h) THEN [over |-> TRUE, c |-> h]
  ELSE IF n > MaxRounds THEN [over |-> TRUE, c |-> Throwing("fail", h)]
  ELSE JsAfter(labels, js[work][h])

LEMMA EvalRoundIs ==
  ASSUME NEW js, NEW form, NEW labels, NEW work, NEW e, NEW n, NEW c
  PROVE  EvalRound(js, form, labels, work, e, n, c) =
           RoundFrom(js, form, labels, work, e, n, c, JsHeaded(c, JsHead(form, e, n)))
BY Zenon DEF EvalRound, JsHead, JsHeaded, JsAfter, RoundFrom

LEMMA EndedIs ==
  ASSUME NEW form \in Loops, NEW e \in STRING, NEW n \in Nat \ {0}, NEW w \in Seq(Marks)
  PROVE  Ended(form, e, n, JsIn(w)) <=>
           /\ ~(form = "do" /\ n = 1)
           /\ ValueOf(e, w) # TRUE
           /\ form \in ItemLoops \/ n <= MaxRounds
<1>1. (JsFirst(e)[form] # <<>> \/ n > 1) <=> ~(form = "do" /\ n = 1) BY HeadIs
<1>2. JsIn(w).trace = w BY JsInReg
<1>3. Ended(form, e, n, JsIn(w)) <=>
        /\ JsFirst(e)[form] # <<>> \/ n > 1
        /\ ValueOf(e, JsIn(w).trace) # TRUE
        /\ form \in {"forof", "forin"} \/ n <= MaxRounds
  BY Zenon DEF Ended
<1> QED BY <1>1, <1>2, <1>3 DEF ItemLoops

\* One round of the loop s, entered with l after the effects u.
Rounds(js, x, s, n, l, u, round) ==
  Looping(l, x \ (Jumps \X (s[2] \cup {NoLabel})), round,
          EvalRound(js, s[1], s[2], s[3], s[4], n, JsIn(u)))

LEMMA TestRoundDoes ==
  ASSUME NEW run, NEW js, NEW x, NEW s, s[1] \in TestLoops, s[4] \in STRING,
         NEW n \in 1..(MaxRounds + 1), NEW l \in Targets, l = NoLabel,
         Faithful(run[s[3]], js[s[3]], l, x), NEW u \in Seq(Marks)
  PROVE  Rounds(js, x, s, n, l, u, While(run, s, n, In(l, u)))
<1> DEFINE y == x \ (Jumps \X (s[2] \cup {NoLabel}))
           w == u \o JsHead(s[1], s[4], n)
<1>1. MaxRounds \in Nat /\ n \in Nat \ {0}
  <2>1. MaxRounds \in Nat BY RoundsAssumption
  <2> QED BY <2>1
<1>2. s[1] \in Loops /\ s[1] \notin ItemLoops BY DEF Loops, TestLoops, ItemLoops
<1>3. /\ w \in Seq(Marks) /\ LoopHead(s[1], s[4], n, In(l, u)) = In(l, w)
      /\ JsHeaded(JsIn(u), JsHead(s[1], s[4], n)) = JsIn(w)
  BY <1>1, <1>2, HeadsAgree
<1> HIDE DEF y, w
<1>4. While(run, s, n, In(l, u)) =
        IF n > MaxRounds THEN [stop |-> TRUE, r |-> Raise("fail", In(l, u))]
        ELSE IF ~(s[1] = "do" /\ n = 1) /\ ValueOf(s[4], w) # TRUE THEN [stop |-> TRUE, r |-> In(l, w)]
        ELSE TestAfter(s[2], run[s[3]][In(l, w)])
  <2>1. In(l, w).trace = w BY <1>3, InReg
  <2>2. Normal(In(l, w)) = In(l, w) BY <1>3, NormalIn
  <2>3. While(run, s, n, In(l, u)) =
          LET h == LoopHead(s[1], s[4], n, In(l, u))
          IN  IF n > MaxRounds THEN [stop |-> TRUE, r |-> Raise("fail", In(l, u))]
              ELSE IF ~(s[1] = "do" /\ n = 1) /\ ~True(s[4], h.trace)
              THEN [stop |-> TRUE, r |-> Normal(h)]
              ELSE TestAfter(s[2], run[s[3]][h])
    BY Zenon DEF While, TestAfter
  <2> QED BY <1>3, <2>1, <2>2, <2>3, Zenon DEF True
<1>5. EvalRound(js, s[1], s[2], s[3], s[4], n, JsIn(u)) =
        IF n > MaxRounds THEN [over |-> TRUE, c |-> Throwing("fail", JsIn(u))]
        ELSE IF ~(s[1] = "do" /\ n = 1) /\ ValueOf(s[4], w) # TRUE THEN [over |-> TRUE, c |-> JsIn(w)]
        ELSE JsAfter(s[2], js[s[3]][JsIn(w)])
  <2>1. EvalRound(js, s[1], s[2], s[3], s[4], n, JsIn(u)) =
          IF n > MaxRounds /\ s[1] \notin {"forof", "forin"}
          THEN [over |-> TRUE, c |-> Throwing("fail", JsIn(u))]
          ELSE IF Ended(s[1], s[4], n, JsIn(w)) THEN [over |-> TRUE, c |-> JsIn(w)]
          ELSE IF n > MaxRounds THEN [over |-> TRUE, c |-> Throwing("fail", JsIn(w))]
          ELSE JsAfter(s[2], js[s[3]][JsIn(w)])
    <3>1. EvalRound(js, s[1], s[2], s[3], s[4], n, JsIn(u)) =
            RoundFrom(js, s[1], s[2], s[3], s[4], n, JsIn(u), JsIn(w))
      BY <1>3, EvalRoundIs, Zenon
    <3> QED BY <3>1, Zenon DEF RoundFrom
  <2>2. s[1] \notin {"forof", "forin"} BY <1>2 DEF ItemLoops
  <2>3. Ended(s[1], s[4], n, JsIn(w)) <=>
          ~(s[1] = "do" /\ n = 1) /\ ValueOf(s[4], w) # TRUE /\ n <= MaxRounds
    BY <1>1, <1>2, <1>3, EndedIs
  <2>4. n <= MaxRounds <=> ~(n > MaxRounds) BY <1>1
  <2> QED BY <2>1, <2>2, <2>3, <2>4, Zenon
<1>6. CASE n > MaxRounds
  <2>1. Looping(l, y, [stop |-> TRUE, r |-> Raise("fail", In(l, u))],
                      [over |-> TRUE, c |-> Throwing("fail", JsIn(u))])
    BY LimitAgrees
  <2> QED BY <1>4, <1>5, <1>6, <2>1, Zenon DEF y, Rounds
<1>7. CASE ~(n > MaxRounds) /\ ~(s[1] = "do" /\ n = 1) /\ ValueOf(s[4], w) # TRUE
  <2>1. Agree(l, y, In(l, w), JsIn(w)) BY <1>3, AgreeIn
  <2>2. Looping(l, y, [stop |-> TRUE, r |-> In(l, w)], [over |-> TRUE, c |-> JsIn(w)])
    BY <2>1, LoopingIs
  <2> QED BY <1>4, <1>5, <1>7, <2>2, Zenon DEF y, Rounds
<1>8. CASE ~(n > MaxRounds) /\ ~(~(s[1] = "do" /\ n = 1) /\ ValueOf(s[4], w) # TRUE)
  <2>1. Agree(l, x, run[s[3]][In(l, w)], js[s[3]][JsIn(w)]) BY <1>3 DEF Faithful
  <2>2. Looping(l, y, TestAfter(s[2], run[s[3]][In(l, w)]), JsAfter(s[2], js[s[3]][JsIn(w)]))
    BY <2>1, TestAfterDoes DEF y
  <2> QED BY <1>4, <1>5, <1>8, <2>2, Zenon DEF y, Rounds
<1> QED BY <1>6, <1>7, <1>8, Zenon

LEMMA ItemRoundDoes ==
  ASSUME NEW run, NEW js, NEW x, NEW s, s[1] \in ItemLoops, s[4] \in STRING,
         NEW n \in 1..(MaxRounds + 1), NEW l \in Targets, l = NoLabel,
         Faithful(run[s[3]], js[s[3]], l, x), NEW u \in Seq(Marks)
  PROVE  Rounds(js, x, s, n, l, u, Iterate(run, s, n, In(l, u)))
<1> DEFINE y == x \ (Jumps \X (s[2] \cup {NoLabel}))
           w == u \o JsHead(s[1], s[4], n)
<1>1. MaxRounds \in Nat /\ n \in Nat \ {0}
  <2>1. MaxRounds \in Nat BY RoundsAssumption
  <2> QED BY <2>1
<1>2. s[1] \in Loops /\ s[1] # "do" BY DEF Loops, TestLoops, ItemLoops
<1>3. /\ w \in Seq(Marks) /\ Mark(In(l, u), <<"test", s[4]>>) = In(l, w)
      /\ JsHeaded(JsIn(u), JsHead(s[1], s[4], n)) = JsIn(w)
  BY <1>1, <1>2, HeadsAgree
<1> HIDE DEF y, w
<1>4. Iterate(run, s, n, In(l, u)) =
        IF ValueOf(s[4], w) # TRUE THEN [stop |-> TRUE, r |-> In(l, w)]
        ELSE IF n > MaxRounds THEN [stop |-> TRUE, r |-> Raise("fail", In(l, w))]
        ELSE ItemAfter(s[2], run[s[3]][In(l, w)])
  <2>1. In(l, w).trace = w BY <1>3, InReg
  <2>2. Normal(In(l, w)) = In(l, w) BY <1>3, NormalIn
  <2>3. Iterate(run, s, n, In(l, u)) =
          LET h == Mark(In(l, u), <<"test", s[4]>>)
          IN  IF ~True(s[4], h.trace) THEN [stop |-> TRUE, r |-> Normal(h)]
              ELSE IF n > MaxRounds THEN [stop |-> TRUE, r |-> Raise("fail", h)]
              ELSE ItemAfter(s[2], run[s[3]][h])
    BY Zenon DEF Iterate, ItemAfter
  <2> QED BY <1>3, <2>1, <2>2, <2>3, Zenon DEF True
<1>5. EvalRound(js, s[1], s[2], s[3], s[4], n, JsIn(u)) =
        IF ValueOf(s[4], w) # TRUE THEN [over |-> TRUE, c |-> JsIn(w)]
        ELSE IF n > MaxRounds THEN [over |-> TRUE, c |-> Throwing("fail", JsIn(w))]
        ELSE JsAfter(s[2], js[s[3]][JsIn(w)])
  <2>1. EvalRound(js, s[1], s[2], s[3], s[4], n, JsIn(u)) =
          IF n > MaxRounds /\ s[1] \notin {"forof", "forin"}
          THEN [over |-> TRUE, c |-> Throwing("fail", JsIn(u))]
          ELSE IF Ended(s[1], s[4], n, JsIn(w)) THEN [over |-> TRUE, c |-> JsIn(w)]
          ELSE IF n > MaxRounds THEN [over |-> TRUE, c |-> Throwing("fail", JsIn(w))]
          ELSE JsAfter(s[2], js[s[3]][JsIn(w)])
    <3>1. EvalRound(js, s[1], s[2], s[3], s[4], n, JsIn(u)) =
            RoundFrom(js, s[1], s[2], s[3], s[4], n, JsIn(u), JsIn(w))
      BY <1>3, EvalRoundIs, Zenon
    <3> QED BY <3>1, Zenon DEF RoundFrom
  <2>2. s[1] \in {"forof", "forin"} BY DEF ItemLoops
  <2>3. Ended(s[1], s[4], n, JsIn(w)) <=> ValueOf(s[4], w) # TRUE
    BY <1>1, <1>2, <1>3, EndedIs
  <2> QED BY <2>1, <2>2, <2>3, Zenon
<1>6. CASE ValueOf(s[4], w) # TRUE
  <2>1. Agree(l, y, In(l, w), JsIn(w)) BY <1>3, AgreeIn
  <2>2. Looping(l, y, [stop |-> TRUE, r |-> In(l, w)], [over |-> TRUE, c |-> JsIn(w)])
    BY <2>1, LoopingIs
  <2> QED BY <1>4, <1>5, <1>6, <2>2, Zenon DEF y, Rounds
<1>7. CASE ~(ValueOf(s[4], w) # TRUE) /\ n > MaxRounds
  <2>1. Looping(l, y, [stop |-> TRUE, r |-> Raise("fail", In(l, w))],
                      [over |-> TRUE, c |-> Throwing("fail", JsIn(w))])
    BY <1>3, LimitAgrees
  <2> QED BY <1>4, <1>5, <1>7, <2>1, Zenon DEF y, Rounds
<1>8. CASE ~(ValueOf(s[4], w) # TRUE) /\ ~(n > MaxRounds)
  <2>1. Agree(l, x, run[s[3]][In(l, w)], js[s[3]][JsIn(w)]) BY <1>3 DEF Faithful
  <2>2. Looping(l, y, ItemAfter(s[2], run[s[3]][In(l, w)]), JsAfter(s[2], js[s[3]][JsIn(w)]))
    BY <2>1, ItemAfterDoes DEF y
  <2> QED BY <1>4, <1>5, <1>8, <2>2, Zenon DEF y, Rounds
<1> QED BY <1>6, <1>7, <1>8, Zenon

LEMMA LoopDoes ==
  ASSUME NEW run, NEW js, NEW x, NEW s, NEW l \in Targets, l = NoLabel, All(run, js, x, s, l),
         s[1] \in Loops, s[4] \in STRING
  PROVE  Does(run, js, x, s, l)
<1> SUFFICES ASSUME NEW t \in Seq(Marks)
             PROVE  Agree(l, Leaving(x, s), Exec(run, s, In(l, t)), Eval(js, s, JsIn(t)))
  BY DEF Does
<1> DEFINE n == MaxRounds + 1
           w == Inner(x, s)
           y == w \ (Jumps \X (s[2] \cup {NoLabel}))
           f == [i \in 1..n |-> [a \in Going |-> IF a.stop THEN a ELSE Round(run, s, i, a.r)]]
           h == [i \in 1..n |-> [b \in [over : BOOLEAN, c : Completion] |->
                    IF b.over THEN b ELSE EvalRound(js, s[1], s[2], s[3], s[4], i, b.c)]]
           P == {o \in Going \X [over : BOOLEAN, c : Completion] : Looping(l, y, o[1], o[2])}
           R == [i \in 0..n |-> P]
           a0 == [stop |-> FALSE, r |-> In(l, t)]
           b0 == [over |-> FALSE, c |-> JsIn(t)]
<1>1. n \in Nat
  <2>1. MaxRounds \in Nat BY RoundsAssumption
  <2> QED BY <2>1
<1>2. Leaving(x, s) = y BY LeavingForms
<1>3. Exec(run, s, In(l, t)) = Through(f, a0).r
  <2>1. Exec(run, s, In(l, t)) = Loop(run, s, In(l, t)) BY ExecForms
  <2> QED BY <2>1, Zenon DEF Loop
<1>4. Eval(js, s, JsIn(t)) = Through(h, b0).c
  <2>1. Eval(js, s, JsIn(t)) = EvalLoop(js, s, JsIn(t)) BY EvalForms
  <2> QED BY <2>1, Zenon DEF EvalLoop
<1>5. Len(f) = n /\ Len(h) = n
  <2>1. f = [i \in 1..n |-> f[i]] /\ h = [i \in 1..n |-> h[i]] OBVIOUS
  <2> HIDE DEF f, h, n
  <2> QED BY <1>1, <2>1, LenOf
<1>6. ASSUME NEW a, NEW b PROVE <<a, b>> \in P <=> Looping(l, y, a, b)
  <2>1. Looping(l, y, a, b) => a \in Going /\ b \in [over : BOOLEAN, c : Completion]
    BY DEF Looping
  <2> HIDE DEF y
  <2> QED BY <2>1, Zenon
<1>7. <<a0, b0>> \in R[0]
  <2>1. R[0] = P BY <1>1
  <2>2. Agree(l, y, In(l, t), JsIn(t)) BY AgreeIn
  <2>3. JsIn(t).type = "normal" BY JsInReg
  <2> HIDE DEF y, P, R
  <2>4. Looping(l, y, a0, b0) BY <2>2, <2>3, LoopingIs
  <2> QED BY <1>6, <2>1, <2>4
<1>8. ASSUME NEW i \in 1..n, NEW a, NEW b, <<a, b>> \in R[i - 1]
      PROVE  <<f[i][a], h[i][b]>> \in R[i]
  <2>1. R[i - 1] = P /\ R[i] = P BY <1>1
  <2>2. Looping(l, y, a, b) BY <1>6, <1>8, <2>1
  <2>3. a \in Going /\ b \in [over : BOOLEAN, c : Completion] BY <2>2 DEF Looping
  <2>4. f[i][a] = IF a.stop THEN a ELSE Round(run, s, i, a.r) BY <2>3, Zenon
  <2>5. h[i][b] = IF b.over THEN b ELSE EvalRound(js, s[1], s[2], s[3], s[4], i, b.c) BY <2>3, Zenon
  <2>6. Looping(l, y, f[i][a], h[i][b])
    <3>1. CASE b.over
      <4>1. a.stop BY <2>2, <3>1 DEF Looping
      <4> HIDE DEF f, h, y
      <4> QED BY <2>2, <2>4, <2>5, <3>1, <4>1
    <3>2. CASE ~b.over
      <4>1. ~a.stop /\ b.c.type = "normal" /\ Agree(l, y, a.r, b.c) BY <2>2, <3>2 DEF Looping
      <4>2. PICK u \in Seq(Marks) : a.r = In(l, u) /\ b.c = JsIn(u)
        <5> HIDE DEF y
        <5> QED BY <4>1, AgreeNormal
      <4>3. Faithful(run[s[3]], js[s[3]], l, w)
        <5>1. s[3] \in Parts(s) BY PartsForms
        <5> QED BY <5>1, AllInner
      <4>4. Looping(l, y, Round(run, s, i, In(l, u)), EvalRound(js, s[1], s[2], s[3], s[4], i, JsIn(u)))
        <5>1. i \in 1..(MaxRounds + 1) OBVIOUS
        <5> HIDE DEF w
        <5>2. CASE s[1] \in TestLoops
          <6>1. Round(run, s, i, In(l, u)) = While(run, s, i, In(l, u)) BY <5>2 DEF Round
          <6>2. Rounds(js, w, s, i, l, u, While(run, s, i, In(l, u))) BY <4>3, <5>1, <5>2, TestRoundDoes
          <6> QED BY <6>1, <6>2, Zenon DEF Rounds
        <5>3. CASE s[1] \notin TestLoops
          <6>1. Round(run, s, i, In(l, u)) = Iterate(run, s, i, In(l, u)) BY <5>3 DEF Round
          <6>2. s[1] \in ItemLoops BY <5>3 DEF Loops
          <6>3. Rounds(js, w, s, i, l, u, Iterate(run, s, i, In(l, u))) BY <4>3, <5>1, <6>2, ItemRoundDoes
          <6> QED BY <6>1, <6>3, Zenon DEF Rounds
        <5> QED BY <5>2, <5>3
      <4> HIDE DEF f, h, y
      <4> QED BY <2>4, <2>5, <3>2, <4>1, <4>2, <4>4
    <3> QED BY <3>1, <3>2
  <2> HIDE DEF f, h, P, R
  <2> QED BY <1>6, <2>1, <2>6
<1>9. <<Through(f, a0), Through(h, b0)>> \in R[n]
  <2> HIDE DEF f, h, R, n, a0, b0
  <2> QED BY <1>1, <1>5, <1>7, <1>8, InStep
<1>10. R[n] = P BY <1>1
<1> HIDE DEF f, h, R, P, n, a0, b0
<1>11. Looping(l, y, Through(f, a0), Through(h, b0)) BY <1>6, <1>9, <1>10
<1>12. Agree(l, y, Through(f, a0).r, Through(h, b0).c) BY <1>11 DEF Looping
<1> QED BY <1>2, <1>3, <1>4, <1>12

---------------------------------------------------------------------------
(* Exceptions.                                                             *)

\* Where a catch, and a finally, is entered.
Back(r) == [Normal(r) EXCEPT !.err = "none"]

\* What a catch, and what a finally, makes of the completion before it.
AfterCatch(run, catch, b) ==
  IF Caught(b) /\ catch # 0 THEN run[catch][Back(b)] ELSE b

JsCatch(js, catch, b) == IF b.type = "throw" /\ catch # 0 THEN js[catch][Done(b)] ELSE b

JsFinish(js, finally, d) ==
  LET f == js[finally][Done(d)]
  IN  IF finally = 0 \/ d.type = "fail" THEN d
      ELSE IF IsAbrupt(f) THEN f
      ELSE [d EXCEPT !.trace = f.trace]

LEMMA TryForms ==
  ASSUME NEW run, NEW js, NEW s, s[1] = "try", NEW r, NEW c
  PROVE  /\ Exec(run, s, r) = Finish(run, s[4], AfterCatch(run, s[3], run[s[2]][r]))
         /\ Eval(js, s, c) = JsFinish(js, s[4], JsCatch(js, s[3], js[s[2]][c]))
<1>1. Exec(run, s, r) = Try(run, s[2], s[3], s[4], r) BY ExecForms
<1>2. Try(run, s[2], s[3], s[4], r) = Finish(run, s[4], AfterCatch(run, s[3], run[s[2]][r]))
  BY Zenon DEF Try, AfterCatch, Back
<1>3. Eval(js, s, c) = EvalTry(js, s[2], s[3], s[4], c) BY EvalForms
<1>4. EvalTry(js, s[2], s[3], s[4], c) = JsFinish(js, s[4], JsCatch(js, s[3], js[s[2]][c]))
  BY Zenon DEF EvalTry, JsCatch, JsFinish
<1> QED BY <1>1, <1>2, <1>3, <1>4

\* A catch and a finally are entered with the label that was left in the register.
LEMMA Reentered ==
  ASSUME NEW l \in Targets, NEW z, NEW r, NEW c, Agree(l, z, r, c)
  PROVE  /\ c.trace \in Seq(Marks) /\ r.label \in Targets
         /\ Back(r) = In(r.label, c.trace)
         /\ Done(c) = JsIn(c.trace)
<1>1. r \in Reg /\ c \in Completion /\ r.trace = c.trace BY DEF Agree
<1>2. c.trace \in Seq(Marks) /\ r.label \in Targets BY <1>1 DEF Reg, Completion
<1>3. Back(r) = In(r.label, r.trace) BY <1>1, RegHelpers, Zenon DEF Back
<1>4. Done(c) = JsIn(c.trace) BY <1>1, CompletionHelpers
<1> QED BY <1>1, <1>2, <1>3, <1>4, Zenon

LEMMA CatchDoes ==
  ASSUME NEW run, NEW js, NEW l \in Targets, NEW z, NEW b, NEW c, Agree(l, z, b, c),
         NEW catch, catch # 0 => Faithful(run[catch], js[catch], l, z)
  PROVE  Agree(l, z, AfterCatch(run, catch, b), JsCatch(js, catch, c))
<1>1. Caught(b) <=> c.type = "throw" BY DEF Agree, Caught
<1>2. CASE c.type = "throw" /\ catch # 0
  <2>1. b.label = l BY <1>2 DEF Agree, Jumps
  <2>2. AfterCatch(run, catch, b) = run[catch][In(l, c.trace)]
    <3>1. AfterCatch(run, catch, b) = run[catch][Back(b)]
      BY <1>1, <1>2, Zenon DEF AfterCatch
    <3>2. Back(b) = In(b.label, c.trace) BY Reentered
    <3> QED BY <2>1, <3>1, <3>2, Zenon
  <2>3. JsCatch(js, catch, c) = js[catch][JsIn(c.trace)]
    <3>1. JsCatch(js, catch, c) = js[catch][Done(c)] BY <1>2 DEF JsCatch
    <3> QED BY <3>1, Reentered, Zenon
  <2>4. PICK u \in Seq(Marks) : u = c.trace BY Reentered, Zenon
  <2>5. Agree(l, z, run[catch][In(l, u)], js[catch][JsIn(u)]) BY <1>2 DEF Faithful
  <2> QED BY <2>2, <2>3, <2>4, <2>5
<1>3. CASE ~(c.type = "throw" /\ catch # 0)
  <2>1. AfterCatch(run, catch, b) = b BY <1>1, <1>3, Zenon DEF AfterCatch
  <2>2. JsCatch(js, catch, c) = c BY <1>3 DEF JsCatch
  <2> QED BY <2>1, <2>2
<1> QED BY <1>2, <1>3

\* A completion that a finally lets through, with the effects up to its end.
LEMMA KeptAgrees ==
  ASSUME NEW l \in Targets, NEW z, NEW r, NEW c, Agree(l, z, r, c), NEW t \in Seq(Marks),
         NEW f, f.label = r.label, f.trace = t, NEW g, g.trace = t
  PROVE  Agree(l, z, [r EXCEPT !.label = f.label, !.trace = f.trace], [c EXCEPT !.trace = g.trace])
<1>1. r \in Reg /\ c \in Completion BY DEF Agree
<1>2. PICK o : o = [r EXCEPT !.label = f.label, !.trace = f.trace] OBVIOUS
<1>3. PICK d : d = [c EXCEPT !.trace = g.trace] OBVIOUS
<1>4. o = [k |-> r.k, v |-> r.v, err |-> r.err, label |-> r.label, trace |-> t] BY <1>1, <1>2 DEF Reg
<1>5. d = [type |-> c.type, target |-> c.target, v |-> c.v, trace |-> t] BY <1>1, <1>3 DEF Completion
<1>6. o \in Reg /\ d \in Completion BY <1>1, <1>4, <1>5 DEF Reg, Completion
<1>7. /\ o.k = r.k /\ o.v = r.v /\ o.err = r.err /\ o.label = r.label /\ o.trace = t
      /\ d.type = c.type /\ d.target = c.target /\ d.v = c.v /\ d.trace = t
  BY <1>4, <1>5
<1>8. Agree(l, z, o, d) BY <1>6, <1>7 DEF Agree
<1> QED BY <1>2, <1>3, <1>8, Zenon

LEMMA FinishDoes ==
  ASSUME NEW run, NEW js, NEW l \in Targets, NEW z, NEW y, z \subseteq y, NEW r, NEW d, Agree(l, z, r, d),
         NEW finally,
         finally # 0 => \A m \in Targets : m = r.label => Faithful(run[finally], js[finally], m, y)
  PROVE  Agree(l, y, Finish(run, finally, r), JsFinish(js, finally, d))
<1>1. r.err = "fail" <=> d.type = "fail" BY DEF Agree
<1>2. Agree(l, y, r, d) BY AgreeMore
<1>3. CASE finally = 0 \/ d.type = "fail"
  <2>1. Finish(run, finally, r) = r BY <1>1, <1>3, Zenon DEF Finish, Back
  <2>2. JsFinish(js, finally, d) = d BY <1>3, Zenon DEF JsFinish
  <2> QED BY <1>2, <2>1, <2>2
<1>4. CASE ~(finally = 0 \/ d.type = "fail")
  <2> DEFINE f == run[finally][Back(r)]
             g == js[finally][Done(d)]
  <2>1. Finish(run, finally, r) =
          IF Abrupt(f) THEN f ELSE [r EXCEPT !.label = f.label, !.trace = f.trace]
    BY <1>1, <1>4, Zenon DEF Finish, Back
  <2>2. JsFinish(js, finally, d) = IF IsAbrupt(g) THEN g ELSE [d EXCEPT !.trace = g.trace]
    BY <1>4, Zenon DEF JsFinish
  <2>3. PICK m \in Targets, u \in Seq(Marks) : m = r.label /\ u = d.trace BY Reentered, Zenon
  <2>4. f = run[finally][In(m, u)] /\ g = js[finally][JsIn(u)]
    <3>1. Back(r) = In(r.label, d.trace) /\ Done(d) = JsIn(d.trace)
      BY Reentered
    <3> QED BY <2>3, <3>1, Zenon
  <2>5. Agree(m, y, f, g)
    <3>1. Faithful(run[finally], js[finally], m, y) BY <1>4, <2>3
    <3>2. Agree(m, y, run[finally][In(m, u)], js[finally][JsIn(u)]) BY <3>1 DEF Faithful
    <3> QED BY <2>4, <3>2
  <2> HIDE DEF f, g
  <2>6. Abrupt(f) <=> IsAbrupt(g) BY <2>5, AgreeAbrupt
  <2>7. CASE IsAbrupt(g)
    <3>1. m = NoLabel BY <2>5, <2>7 DEF Agree, IsAbrupt
    <3>2. l = m
      <4>1. CASE d.type \in Jumps
        <5>1. l = NoLabel BY <4>1 DEF Agree, Jumps
        <5> QED BY <3>1, <5>1
      <4>2. CASE d.type \notin Jumps
        <5>1. r.label = l BY <4>2 DEF Agree
        <5> QED BY <2>3, <5>1
      <4> QED BY <4>1, <4>2
    <3>3. Finish(run, finally, r) = f BY <2>1, <2>6, <2>7, Zenon
    <3>4. JsFinish(js, finally, d) = g BY <2>2, <2>7, Zenon
    <3> QED BY <2>5, <3>2, <3>3, <3>4
  <2>8. CASE ~IsAbrupt(g)
    <3>1. g.type = "normal" BY <2>8 DEF IsAbrupt
    <3>2. PICK v \in Seq(Marks) : f = In(m, v) /\ g = JsIn(v) BY <2>5, <3>1, AgreeNormal
    <3>3. f.label = r.label /\ f.trace = v /\ g.trace = v BY <2>3, <3>2, InReg, JsInReg
    <3>4. Agree(l, y, [r EXCEPT !.label = f.label, !.trace = f.trace], [d EXCEPT !.trace = g.trace])
      BY <1>2, <3>3, KeptAgrees, Zenon
    <3>5. Finish(run, finally, r) = [r EXCEPT !.label = f.label, !.trace = f.trace]
      BY <2>1, <2>6, <2>8, Zenon
    <3>6. JsFinish(js, finally, d) = [d EXCEPT !.trace = g.trace] BY <2>2, <2>8, Zenon
    <3> QED BY <3>4, <3>5, <3>6, Zenon
  <2> QED BY <2>7, <2>8
<1> QED BY <1>3, <1>4

\* A finally that is not quiet is entered without a label.
LEMMA TryDoes ==
  ASSUME NEW run, NEW js, NEW x, NEW s, NEW quiet, NEW l \in Targets, Inside(run, js, x, quiet, s),
         s[1] = "try", s[2] # 0, l = NoLabel \/ Parts(s) \subseteq quiet,
         s[4] \notin quiet \cup {0} =>
           \A j \in {s[2], s[3]} \ {0} : x[j] \subseteq Jumps \X {NoLabel}
  PROVE  Does(run, js, x, s, l)
<1> DEFINE z == UNION {x[j] : j \in {s[2], s[3]} \ {0}}
           y == Inner(x, s)
<1>1. Parts(s) = {s[2], s[3], s[4]} \ {0} BY PartsForms
<1>2. Leaving(x, s) = y BY LeavingForms
<1>3. z \subseteq y BY <1>1 DEF Inner
<1>4. ASSUME NEW j \in Parts(s), NEW m \in Targets, m = NoLabel \/ j \in quiet
      PROVE  Faithful(run[j], js[j], m, x[j])
  BY <1>4 DEF Inside
<1>5. ASSUME NEW j \in {s[2], s[3]} \ {0} PROVE Faithful(run[j], js[j], l, z)
  <2>1. x[j] \subseteq z OBVIOUS
  <2>2. j \in Parts(s) BY <1>1
  <2>3. Faithful(run[j], js[j], l, x[j]) BY <1>4, <2>2
  <2> HIDE DEF z
  <2> QED BY <2>1, <2>3, FaithfulMore
<1>6. s[4] \notin quiet \cup {0} => z \subseteq Jumps \X {NoLabel} OBVIOUS
<1> HIDE DEF z, y
<1>7. ASSUME NEW t \in Seq(Marks)
      PROVE  Agree(l, y, Exec(run, s, In(l, t)), Eval(js, s, JsIn(t)))
  <2> DEFINE b == run[s[2]][In(l, t)]
             c == js[s[2]][JsIn(t)]
             r == AfterCatch(run, s[3], b)
             d == JsCatch(js, s[3], c)
  <2>1. Agree(l, z, b, c)
    <3>1. Faithful(run[s[2]], js[s[2]], l, z) BY <1>5
    <3> QED BY <3>1 DEF Faithful
  <2>2. Exec(run, s, In(l, t)) = Finish(run, s[4], r) /\ Eval(js, s, JsIn(t)) = JsFinish(js, s[4], d)
    BY TryForms, Zenon
  <2> HIDE DEF b, c
  <2>3. Agree(l, z, r, d)
    <3>1. s[3] # 0 => Faithful(run[s[3]], js[s[3]], l, z) BY <1>5
    <3> QED BY <2>1, <3>1, CatchDoes
  <2> HIDE DEF r, d
  <2>4. s[4] # 0 => r.label = NoLabel \/ s[4] \in quiet
    <3>1. SUFFICES ASSUME s[4] \notin quiet, s[4] # 0 PROVE r.label = NoLabel OBVIOUS
    <3>2. l = NoLabel BY <1>1, <3>1
    <3>3. CASE d.type \in Jumps
      <4>1. <<d.type, d.target>> \in z /\ r.label = d.target BY <2>3, <3>3 DEF Agree
      <4>2. d.target = NoLabel BY <1>6, <3>1, <4>1
      <4> QED BY <4>1, <4>2
    <3>4. CASE d.type \notin Jumps
      <4>1. r.label = l BY <2>3, <3>4 DEF Agree
      <4> QED BY <3>2, <4>1
    <3> QED BY <3>3, <3>4
  <2>5. ASSUME s[4] # 0, NEW m \in Targets, m = r.label
        PROVE  Faithful(run[s[4]], js[s[4]], m, y)
    <3>1. s[4] \in Parts(s) BY <1>1, <2>5
    <3>2. Faithful(run[s[4]], js[s[4]], m, x[s[4]]) BY <1>4, <2>4, <2>5, <3>1
    <3>3. x[s[4]] \subseteq y BY <3>1 DEF y, Inner
    <3> QED BY <3>2, <3>3, FaithfulMore
  <2>6. s[4] # 0 => \A m \in Targets : m = r.label => Faithful(run[s[4]], js[s[4]], m, y) BY <2>5
  <2>7. Agree(l, y, Finish(run, s[4], r), JsFinish(js, s[4], d)) BY <1>3, <2>3, <2>6, FinishDoes
  <2> QED BY <2>2, <2>7
<1> QED BY <1>2, <1>7 DEF Does

---------------------------------------------------------------------------
(* Whole programs.                                                         *)

\* What ProgramDoes assumes of a statement: no jump leads out of a call, and none with
\* a label out of a try whose finally may disturb the register.
Kept(x, quiet, s) ==
  /\ s[1] = "call" => \A j \in Parts(s) : x[j] = {}
  /\ s[1] = "try" /\ s[4] \notin quiet \cup {0} =>
       \A j \in {s[2], s[3]} \ {0} : x[j] \subseteq Jumps \X {NoLabel}

LEMMA PartsWithin ==
  ASSUME NEW n \in Nat, NEW s, IsStatement(s, n)
  PROVE  Parts(s) \subseteq 1..n
<1>1. CASE s[1] \in {"block", "call"}
  <2>1. s[2] \in Seq(1..n) BY <1>1 DEF IsStatement
  <2>2. Parts(s) = {s[2][i] : i \in DOMAIN s[2]} BY <1>1, PartsForms
  <2>3. DOMAIN s[2] = 1..Len(s[2]) /\ \A i \in 1..Len(s[2]) : s[2][i] \in 1..n BY <2>1
  <2> QED BY <2>2, <2>3
<1>2. CASE s[1] = "switch"
  <2>1. \A i \in DOMAIN s[3] : s[3][i].list \in Seq(1..n) BY <1>2 DEF IsStatement
  <2>2. Parts(s) = UNION {{s[3][i].list[j] : j \in DOMAIN s[3][i].list} : i \in DOMAIN s[3]}
    BY <1>2, PartsForms
  <2>3. ASSUME NEW i \in DOMAIN s[3] PROVE {s[3][i].list[j] : j \in DOMAIN s[3][i].list} \subseteq 1..n
    <3>1. PICK q : q = s[3][i].list OBVIOUS
    <3>2. q \in Seq(1..n) BY <2>1, <3>1
    <3>3. DOMAIN q = 1..Len(q) /\ \A j \in 1..Len(q) : q[j] \in 1..n BY <3>2
    <3> QED BY <3>1, <3>3
  <2> QED BY <2>2, <2>3, Zenon
<1>3. CASE s[1] = "if"
  <2>1. Parts(s) = {s[3], s[4]} \ {0} /\ s[3] \in 1..n /\ s[4] \in 0..n
    BY <1>3, PartsForms DEF IsStatement
  <2> QED BY <2>1
<1>4. CASE s[1] \in Loops \cup {"label"}
  <2>1. Parts(s) = {s[3]} /\ s[3] \in 1..n BY <1>4, PartsForms DEF IsStatement
  <2> QED BY <2>1
<1>5. CASE s[1] = "try"
  <2>1. Parts(s) = {s[2], s[3], s[4]} \ {0} /\ s[2] \in 1..n /\ s[3] \in 0..n /\ s[4] \in 0..n
    BY <1>5, PartsForms DEF IsStatement
  <2> QED BY <2>1
<1>6. CASE s[1] \notin Loops \cup {"block", "call", "switch", "if", "label", "try"}
  <2>1. Parts(s) = {} BY <1>6 DEF Parts
  <2> QED BY <2>1
<1> QED BY <1>1, <1>2, <1>3, <1>4, <1>5, <1>6

LEMMA StatementDoes ==
  ASSUME NEW run, NEW js, NEW x, NEW s, NEW quiet, NEW n \in Nat, IsStatement(s, n),
         NEW l \in Targets, Inside(run, js, x, quiet, s), Kept(x, quiet, s),
         l = NoLabel \/ (Calm(s) /\ Parts(s) \subseteq quiet)
  PROVE  Does(run, js, x, s, l)
<1>1. All(run, js, x, s, l) BY DEF All, Inside
<1>2. CASE s[1] = "mark"
  <2>1. s \in {"mark"} \X Nat BY <1>2 DEF IsStatement
  <2> QED BY <2>1, MarkDoes
<1>3. CASE s[1] \in Jumps
  <2>1. s \in {s[1]} \X Targets BY <1>3 DEF IsStatement, Jumps
  <2>2. l = NoLabel BY <1>3 DEF Calm
  <2>3. s \in Jumps \X Targets BY <1>3, <2>1
  <2> QED BY <2>2, <2>3, JumpDoes
<1>4. CASE s[1] = "return"
  <2>1. s[2] \in Nat /\ l = NoLabel BY <1>4 DEF IsStatement, Calm
  <2> QED BY <1>4, <2>1, ReturnDoes
<1>5. CASE s[1] \in {"throw", "fail"}
  <2>1. l = NoLabel BY <1>5 DEF Calm
  <2> QED BY <1>5, <2>1, RaiseDoes
<1>6. CASE s[1] = "block"
  <2>1. s[2] \in Seq(1..n) BY <1>6 DEF IsStatement
  <2> QED BY <1>1, <1>6, <2>1, BlockDoes
<1>7. CASE s[1] = "call"
  <2>1. s[2] \in Seq(1..n) BY <1>7 DEF IsStatement
  <2>2. \A j \in Parts(s) : x[j] = {} BY <1>7 DEF Kept
  <2> QED BY <1>1, <1>7, <2>1, <2>2, CallDoes
<1>8. CASE s[1] = "if"
  <2>1. s[3] \in 1..n BY <1>8 DEF IsStatement
  <2>2. s[3] # 0 BY <2>1
  <2> QED BY <1>1, <1>8, <2>2, IfDoes
<1>9. CASE s[1] = "switch"
  <2>1. /\ Len(s[3]) \in Nat /\ DOMAIN s[3] = 1..Len(s[3])
        /\ \A i \in DOMAIN s[3] : s[3][i].list \in Seq(1..n)
    BY <1>9 DEF IsStatement
  <2> QED BY <1>1, <1>9, <2>1, SwitchDoes
<1>10. CASE s[1] = "label" BY <1>1, <1>10, LabelDoes
<1>11. CASE s[1] \in Loops
  <2>1. s[4] \in STRING /\ l = NoLabel BY <1>11 DEF IsStatement, Calm
  <2> QED BY <1>1, <1>11, <2>1, LoopDoes
<1>12. CASE s[1] = "try"
  <2>1. s[2] \in 1..n BY <1>12 DEF IsStatement
  <2>2. s[2] # 0 BY <2>1
  <2>3. s[4] \notin quiet \cup {0} => \A j \in {s[2], s[3]} \ {0} : x[j] \subseteq Jumps \X {NoLabel}
    BY <1>12 DEF Kept
  <2> QED BY <1>12, <2>2, <2>3, TryDoes
<1> QED BY <1>2, <1>3, <1>4, <1>5, <1>6, <1>7, <1>8, <1>9, <1>10, <1>11, <1>12 DEF IsStatement, Jumps

\* The closure of each statement has the statement's meaning, entered without a label
\* or, if it is quiet, with any.
LEMMA ProgramDoes ==
  ASSUME NEW p, IsProgram(p), Apart(p)
  PROVE  \A i \in 1..Len(p) : \A l \in Targets :
           l = NoLabel \/ i \in Quiet(p) =>
             Faithful(Compiled(p)[i], Meanings(p)[i], l, Exits(p)[i])
<1>1. /\ DOMAIN p = 1..Len(p) /\ Len(p) \in Nat
      /\ \A i \in 1..Len(p) : IsStatement(p[i], i - 1)
      /\ Legal(p)
  BY DEF IsProgram
<1>2. PICK a : /\ Compiled(p) = a /\ a = [i \in 1..Len(p) |-> a[i]]
               /\ \A n \in 1..Len(p) : a[n] = [r \in Reg |-> Exec(Before(a, n), p[n], r)]
  BY <1>1, CompiledIs
<1>3. PICK b : /\ Meanings(p) = b /\ b = [i \in 1..Len(p) |-> b[i]]
               /\ \A n \in 1..Len(p) : b[n] = [c \in Completion |-> Eval(Before(b, n), p[n], c)]
  BY <1>1, MeaningsAre
<1>4. PICK e : /\ Exits(p) = e /\ e = [i \in 1..Len(p) |-> e[i]]
               /\ \A n \in 1..Len(p) : e[n] = Leaving(Before(e, n), p[n])
  BY <1>1, ExitsAre
<1>5. PICK quiet : quiet = Quiet(p) OBVIOUS
<1>6. \A n \in quiet : Calm(p[n]) /\ Parts(p[n]) \subseteq quiet BY <1>1, <1>5, QuietIs
<1> DEFINE Good(i) == \A l \in Targets : l = NoLabel \/ i \in quiet => Faithful(a[i], b[i], l, e[i])
           I == {m \in 0..Len(p) : \A i \in 1..m : Good(i)}
<1>7. 0 \in I
  <2>1. 0 \in 0..Len(p) /\ 1..0 = {} BY <1>1
  <2> HIDE DEF Good
  <2> QED BY <2>1
<1>8. ASSUME NEW m \in 0..(Len(p) - 1), m \in I PROVE m + 1 \in I
  <2>1. PICK n \in 1..Len(p) : n = m + 1 BY <1>1
  <2>2. m \in Nat /\ n \in Nat /\ n - 1 = m /\ m + 1 \in 0..Len(p) BY <1>1, <2>1
  <2>3. \A i \in 1..m : Good(i)
    <3> HIDE DEF Good
    <3> QED BY <1>8
  <2>4. IsStatement(p[n], m) BY <1>1, <2>2
  <2>5. Parts(p[n]) \subseteq 1..m BY <2>2, <2>4, PartsWithin
  <2>6. \A j \in 1..m : /\ Before(a, n)[j] = a[j] /\ Before(b, n)[j] = b[j]
                        /\ Before(e, n)[j] = e[j]
    BY <2>2 DEF Before
  <2>7. Inside(Before(a, n), Before(b, n), Before(e, n), quiet, p[n])
    BY <2>3, <2>5, <2>6 DEF Inside
  <2>8. Kept(Before(e, n), quiet, p[n])
    <3>1. p[n][1] = "call" => \A j \in Parts(p[n]) : e[j] = {} BY <1>1, <1>4 DEF Legal
    <3>2. p[n][1] = "try" /\ p[n][4] \notin quiet \cup {0} =>
            \A j \in {p[n][2], p[n][3]} \ {0} : e[j] \subseteq Jumps \X {NoLabel}
      BY <1>1, <1>4, <1>5 DEF Apart
    <3>3. p[n][1] = "try" => {p[n][2], p[n][3]} \ {0} \subseteq Parts(p[n]) BY PartsForms
    <3> QED BY <2>5, <2>6, <3>1, <3>2, <3>3 DEF Kept
  <2>9. Good(n)
    <3> SUFFICES ASSUME NEW l \in Targets, l = NoLabel \/ n \in quiet
                 PROVE  Faithful(a[n], b[n], l, e[n])
      OBVIOUS
    <3>1. l = NoLabel \/ (Calm(p[n]) /\ Parts(p[n]) \subseteq quiet) BY <1>6
    <3>2. Does(Before(a, n), Before(b, n), Before(e, n), p[n], l)
      BY <2>2, <2>4, <2>7, <2>8, <3>1, StatementDoes
    <3>3. ASSUME NEW t \in Seq(Marks) PROVE Agree(l, e[n], a[n][In(l, t)], b[n][JsIn(t)])
      <4>1. In(l, t) \in Reg /\ JsIn(t) \in Completion BY InReg, JsInReg
      <4>2. a[n][In(l, t)] = Exec(Before(a, n), p[n], In(l, t)) BY <1>2, <4>1
      <4>3. b[n][JsIn(t)] = Eval(Before(b, n), p[n], JsIn(t)) BY <1>3, <4>1
      <4>4. e[n] = Leaving(Before(e, n), p[n]) BY <1>4
      <4> QED BY <3>2, <4>2, <4>3, <4>4 DEF Does
    <3> QED BY <3>3 DEF Faithful
  <2> HIDE DEF Good
  <2>10. \A i \in 1..(m + 1) : i \in 1..m \/ i = n BY <2>1, <2>2
  <2> QED BY <2>1, <2>2, <2>3, <2>9, <2>10
<1>9. Len(p) \in I
  <2>1. 0..Len(p) \subseteq I
    <3> HIDE DEF I
    <3> QED BY <1>1, <1>7, <1>8, UpTo
  <2> HIDE DEF I
  <2> QED BY <1>1, <2>1
<1> QED BY <1>2, <1>3, <1>4, <1>5, <1>9

---------------------------------------------------------------------------
(* One rt.                                                                 *)

\* A body that is run with no label in flight does what it should, and leaves none.
LEMMA RunDoes ==
  ASSUME NEW p, IsProgram(p), Apart(p)
  PROVE  Agree(NoLabel, {}, RunBody(Compiled(p), <<Len(p)>>, Fresh(NoLabel)), JsRun(p))
<1>1. Len(p) \in Nat \ {0} /\ Exits(p)[Len(p)] = {} BY DEF IsProgram, Legal
<1>2. NoLabel \in Targets BY DEF Targets
<1>3. Len(p) \in 1..Len(p) BY <1>1
<1>4. Faithful(Compiled(p)[Len(p)], Meanings(p)[Len(p)], NoLabel, {})
  BY <1>1, <1>2, <1>3, ProgramDoes
<1>5. PICK list : list = <<Len(p)>> OBVIOUS
<1>6. Len(list) = 1 /\ list[1] = Len(p) BY <1>5
<1>7. \A i \in 1..Len(list) : Faithful(Compiled(p)[list[i]], Meanings(p)[list[i]], NoLabel, {})
  BY <1>4, <1>6
<1>8. PICK t \in Seq(Marks) : t = <<>> BY EmptySeq
<1>9. Agree(NoLabel, {}, RunBody(Compiled(p), list, In(NoLabel, t)), EvalBody(Meanings(p), list, JsIn(t)))
  <2>1. PICK run, js : run = Compiled(p) /\ js = Meanings(p) OBVIOUS
  <2>2. \A i \in 1..Len(list) : Faithful(run[list[i]], js[list[i]], NoLabel, {}) BY <1>7, <2>1
  <2>3. Len(list) \in Nat BY <1>6
  <2>4. Agree(NoLabel, {}, RunBody(run, list, In(NoLabel, t)), EvalBody(js, list, JsIn(t)))
    BY <1>2, <2>2, <2>3, BodyDoes
  <2> QED BY <2>1, <2>4
<1>10. Fresh(NoLabel) = In(NoLabel, t) BY <1>8 DEF Fresh, In
<1>11. JsRun(p) = EvalBody(Meanings(p), list, JsIn(t)) BY <1>5, <1>8, Zenon DEF JsRun, JsIn
<1> QED BY <1>5, <1>9, <1>10, <1>11

\* Whatever ran before: what a body does depends on the register it begins with.
LEMMA RunKeeps ==
  ASSUME NEW p \in Programs, Run(p), label = NoLabel, Apart(p)
  PROVE  MatchesJavaScript' /\ NoLabelInFlight'
<1>1. IsProgram(p) BY ProgramsAssumption
<1>2. body' = p /\ last' = RunBody(Compiled(p), <<Len(p)>>, Fresh(NoLabel)) /\ label' = last'.label
  BY DEF Run
<1>3. PICK js : js = JsRun(p) OBVIOUS
<1>4. Agree(NoLabel, {}, last', js) BY <1>1, <1>2, <1>3, RunDoes
<1>5. /\ last'.trace = js.trace
      /\ last'.err = IF js.type \in {"throw", "fail"} THEN js.type ELSE "none"
      /\ js.type = "return" <=> last'.k = "return"
      /\ last'.v = js.v
      /\ last'.label = NoLabel
  BY <1>4 DEF Agree, Jumps
<1>6. JsRun(body') = js BY <1>2, <1>3
<1>7. NoLabelInFlight' BY <1>2, <1>5 DEF NoLabelInFlight
<1>8. MatchesJavaScript' BY <1>5, <1>6, Zenon DEF MatchesJavaScript
<1> QED BY <1>7, <1>8

---------------------------------------------------------------------------

\* README: every accepted script matches JavaScript.  Every legal body, of any
\* size, that begins with the label register empty has the marks and the completion
\* that ECMAScript gives it and leaves the register empty, unless a labelled jump in
\* it leaves a try whose finally is not quiet.
THEOREM StatementsMatchJavaScript == Spec => []StatementsMatch
<1>1. Init => StatementsMatch BY DEF Init, StatementsMatch
<1>2. StatementsMatch /\ [Next]_vars => StatementsMatch'
  <2> SUFFICES ASSUME StatementsMatch, [Next]_vars PROVE StatementsMatch' OBVIOUS
  <2>1. ASSUME NEW p \in Programs, Run(p) PROVE StatementsMatch'
    <3>1. body' = p /\ entry' = label BY <2>1 DEF Run
    <3> QED BY <2>1, <3>1, RunKeeps DEF StatementsMatch
  <2>2. CASE Return
    <3>1. Idle' BY <2>2 DEF Return, Idle
    <3> QED BY <3>1 DEF StatementsMatch
  <2>3. CASE UNCHANGED vars
    <3>1. UNCHANGED <<label, body, last, entry>> BY <2>3 DEF vars
    <3> QED BY <3>1, Zenon DEF StatementsMatch, NoLabelInFlight, MatchesJavaScript, Idle
  <2> QED BY <2>1, <2>2, <2>3 DEF Next
<1> QED BY <1>1, <1>2, PTL DEF Spec

\* rt.label, which every body run by one rt shares, is empty between any two of them
\* if in none of the bodies that run a labelled jump leaves a try whose finally is
\* not quiet (compile.go; the others are finding 3).
THEOREM NoLabelStaysInFlight ==
  ASSUME \A p \in Programs : Apart(p)
  PROVE  Spec => []NoLabelInFlight
<1>1. Init => NoLabelInFlight BY DEF Init, NoLabelInFlight
<1>2. NoLabelInFlight /\ [Next]_vars => NoLabelInFlight'
  <2> SUFFICES ASSUME NoLabelInFlight, [Next]_vars PROVE NoLabelInFlight' OBVIOUS
  <2>1. ASSUME NEW p \in Programs, Run(p) PROVE NoLabelInFlight'
    BY <2>1, RunKeeps DEF NoLabelInFlight
  <2>2. Return \/ UNCHANGED vars => label' = label BY DEF Return, vars
  <2> QED BY <2>1, <2>2 DEF Next, NoLabelInFlight
<1> QED BY <1>1, <1>2, PTL DEF Spec
=============================================================================
