----------------------------- MODULE ListLemmas -----------------------------
(* Induction over the natural numbers, recursive functions on them, and     *)
(* what the operators on positions and sequences compute, for lists of      *)
(* every length.                                                            *)
EXTENDS Positions, SequencesExt, WellFoundedInduction, TLAPS

\* Induction, with the property as the set of the numbers that have it: the
\* least number without it would have a predecessor with it.
LEMMA NatSetInduction ==
    ASSUME NEW S, 0 \in S, \A n \in Nat : n \in S => n + 1 \in S
    PROVE  Nat \subseteq S
<1> DEFINE T == Nat \ S
           R == {ss \in Nat \X Nat : ss[1] < ss[2]}
<1>1. IsWellFoundedOn(R, Nat)
  <2>1. R = OpToRel(<, Nat)
    BY DEF OpToRel
  <2> QED
    BY <2>1, NatLessThanWellFounded
<1> SUFFICES ASSUME T # {} PROVE FALSE
  OBVIOUS
<1>2. T \subseteq Nat
  OBVIOUS
<1> HIDE DEF T, R
<1>3. PICK x \in T : \A y \in T : ~(<<y, x>> \in R)
  BY <1>1, <1>2, WFMin
<1>4. x \in Nat /\ x # 0
  BY DEF T
<1>5. x - 1 \in T /\ x - 1 < x
  BY <1>4 DEF T
<1>6. <<x - 1, x>> \in R
  BY <1>4, <1>5 DEF R, T
<1> QED
  BY <1>3, <1>5, <1>6

\* f and g are alike up to n, and alike after each step that starts alike.
Alike(f, g, n) == \A k \in 0..n : f[k] = g[k]
StepsAgree(f, g, n) ==
    \A k \in 0..(n - 1) : f[k] = g[k] => f[k + 1] = g[k + 1]

\* Two functions that start alike and whose steps agree are alike.
LEMMA RecursionAgrees ==
    ASSUME NEW n \in Nat, NEW f, NEW g, f[0] = g[0], StepsAgree(f, g, n)
    PROVE  Alike(f, g, n)
<1> USE DEF Alike, StepsAgree
<1> DEFINE S == {k \in Nat : k <= n => f[k] = g[k]}
<1>1. 0 \in S
  OBVIOUS
<1>2. ASSUME NEW k \in Nat, k \in S PROVE k + 1 \in S
  <2>1. CASE k + 1 <= n
    <3>1. k \in 0..(n - 1) /\ f[k] = g[k]
      BY <1>2, <2>1
    <3> QED
      BY <3>1
  <2> QED
    BY <2>1
<1>3. Nat \subseteq S
  <2> HIDE DEF S
  <2> QED
    BY <1>1, <1>2, NatSetInduction
<1> QED
  BY <1>3

\* f starts at base and goes on by step.
Follows(f, V, base, step) ==
    /\ f \in [Nat -> V]
    /\ f[0] = base
    /\ \A k \in Nat : f[k + 1] = step[<<k, f[k]>>]

\* A start and a step define a function on the natural numbers.
LEMMA RecursionDefines ==
    ASSUME NEW V, NEW base, NEW step, base \in V, step \in [Nat \X V -> V]
    PROVE  \E f : Follows(f, V, base, step)
<1> DEFINE Upto(n, f) == /\ f \in [0..n -> V] /\ f[0] = base
                         /\ \A k \in 0..(n - 1) : f[k + 1] = step[<<k, f[k]>>]
           S == {n \in Nat : \E f : Upto(n, f)}
<1>1. 0 \in S
  <2>1. Upto(0, [k \in 0..0 |-> base])
    OBVIOUS
  <2> QED
    BY <2>1
<1>2. ASSUME NEW n \in Nat, n \in S PROVE n + 1 \in S
  <2>1. PICK f : Upto(n, f)
    BY <1>2
  <2> DEFINE g == [k \in 0..(n + 1) |-> IF k = n + 1 THEN step[<<n, f[n]>>] ELSE f[k]]
  <2>2. f[n] \in V /\ step[<<n, f[n]>>] \in V
    BY <2>1
  <2>3. g \in [0..(n + 1) -> V] /\ g[0] = base
    BY <2>1, <2>2
  <2>4. ASSUME NEW k \in 0..n PROVE g[k + 1] = step[<<k, g[k]>>]
    <3>1. CASE k = n
      <4>1. g[n + 1] = step[<<n, f[n]>>] /\ g[n] = f[n]
        OBVIOUS
      <4> HIDE DEF g
      <4> QED
        BY <3>1, <4>1
    <3>2. CASE k \in 0..(n - 1)
      <4>1. k + 1 \in 0..n /\ k + 1 # n + 1 /\ k # n + 1
        BY <3>2
      <4>2. g[k + 1] = f[k + 1] /\ g[k] = f[k]
        BY <4>1
      <4>3. f[k + 1] = step[<<k, f[k]>>]
        BY <2>1, <3>2
      <4> HIDE DEF g
      <4> QED
        BY <4>2, <4>3
    <3> QED
      BY <3>1, <3>2
  <2>5. 0..((n + 1) - 1) = 0..n
    OBVIOUS
  <2> HIDE DEF g
  <2>6. Upto(n + 1, g)
    BY <2>3, <2>4, <2>5
  <2> HIDE DEF Upto
  <2> QED
    BY <2>6
<1>3. Nat \subseteq S
  <2> HIDE DEF S
  <2> QED
    BY <1>1, <1>2, NatSetInduction
<1> DEFINE upto == [n \in Nat |-> CHOOSE f : Upto(n, f)]
           F == [n \in Nat |-> upto[n][n]]
<1>4. \A n \in Nat : Upto(n, upto[n])
  BY <1>3
<1>5. ASSUME NEW n \in Nat, NEW p \in Nat, p >= n
      PROVE  upto[p][n] = upto[n][n]
  <2> DEFINE f == upto[n]
             g == upto[p]
  <2>1. Upto(n, f) /\ Upto(p, g)
    BY <1>4
  <2> HIDE DEF f, g
  <2>2. f[0] = g[0]
    BY <2>1
  <2>3. StepsAgree(f, g, n)
    <3>1. 0..(n - 1) \subseteq 0..(p - 1)
      BY <1>5
    <3> QED
      BY <2>1, <3>1 DEF StepsAgree
  <2>4. Alike(f, g, n)
    BY <2>2, <2>3, RecursionAgrees
  <2>5. f[n] = g[n]
    BY <2>4 DEF Alike
  <2> QED
    BY <2>5 DEF f, g
<1> HIDE DEF upto
<1>6. F \in [Nat -> V]
  BY <1>4
<1>7. F[0] = base
  BY <1>4
<1>8. ASSUME NEW k \in Nat PROVE F[k + 1] = step[<<k, F[k]>>]
  <2>1. F[k + 1] = step[<<k, upto[k + 1][k]>>]
    BY <1>4
  <2>2. upto[k + 1][k] = upto[k][k]
    BY <1>5
  <2> QED
    BY <2>1, <2>2
<1> QED
  BY <1>6, <1>7, <1>8 DEF Follows

-----------------------------------------------------------------------------
(* InOrder: the positions in a set, in order.                              *)

\* The recursion of InOrder is well defined.
LEMMA InOrderDef ==
    ASSUME NEW S
    PROVE  /\ InOrder(S, 0) = <<>>
           /\ \A n \in Nat :
                /\ InOrder(S, n) \in Seq(Nat)
                /\ InOrder(S, n + 1) = IF n + 1 \in S
                                       THEN Append(InOrder(S, n), n + 1)
                                       ELSE InOrder(S, n)
<1> DEFINE step == [p \in Nat \X Seq(Nat) |->
                      IF p[1] + 1 \in S THEN Append(p[2], p[1] + 1) ELSE p[2]]
           Def(f) == f = [k \in Nat |->
                            IF k = 0 THEN <<>>
                            ELSE IF k \in S THEN Append(f[k - 1], k) ELSE f[k - 1]]
           F == CHOOSE f : Def(f)
<1>1. step \in [Nat \X Seq(Nat) -> Seq(Nat)]
  OBVIOUS
<1>2. <<>> \in Seq(Nat)
  OBVIOUS
<1>3. PICK f \in [Nat -> Seq(Nat)] :
         f[0] = <<>> /\ \A k \in Nat : f[k + 1] = step[<<k, f[k]>>]
  <2>1. \E f : Follows(f, Seq(Nat), <<>>, step)
    <3> HIDE DEF step
    <3> QED
      BY <1>1, <1>2, RecursionDefines
  <2> QED
    BY <2>1 DEF Follows
<1>4. ASSUME NEW k \in Nat
      PROVE  f[k + 1] = IF k + 1 \in S THEN Append(f[k], k + 1) ELSE f[k]
  <2>1. <<k, f[k]>> \in Nat \X Seq(Nat)
    BY <1>3
  <2>2. step[<<k, f[k]>>] = IF k + 1 \in S THEN Append(f[k], k + 1) ELSE f[k]
    BY <2>1
  <2> QED
    BY <1>3, <2>2
<1>5. Def(f)
  <2>1. ASSUME NEW k \in Nat
        PROVE  f[k] = IF k = 0 THEN <<>>
                      ELSE IF k \in S THEN Append(f[k - 1], k) ELSE f[k - 1]
    <3>1. CASE k = 0
      BY <1>3, <3>1
    <3>2. CASE k # 0
      <4>1. k - 1 \in Nat /\ (k - 1) + 1 = k
        BY <3>2
      <4> QED
        BY <1>4, <3>2, <4>1
    <3> QED
      BY <3>1, <3>2
  <2> QED
    BY <1>3, <2>1
<1>6. Def(F)
  <2> HIDE DEF Def
  <2> QED
    BY <1>5
<1>7. \A n : InOrder(S, n) = F[n]
  BY DEF InOrder
<1> HIDE DEF F, step
<1>8. F[0] = <<>>
  BY <1>6
<1>9. \A n \in Nat : F[n + 1] = IF n + 1 \in S THEN Append(F[n], n + 1) ELSE F[n]
  <2> SUFFICES ASSUME NEW n \in Nat
               PROVE  F[n + 1] = IF n + 1 \in S THEN Append(F[n], n + 1) ELSE F[n]
    OBVIOUS
  <2>1. n + 1 \in Nat /\ n + 1 # 0 /\ (n + 1) - 1 = n
    OBVIOUS
  <2> QED
    BY <1>6, <2>1
<1> HIDE DEF Def
<1>10. \A n \in Nat : F[n] \in Seq(Nat)
  <2> DEFINE T == {n \in Nat : F[n] \in Seq(Nat)}
  <2>1. 0 \in T
    BY <1>2, <1>8
  <2>2. \A n \in Nat : n \in T => n + 1 \in T
    <3> SUFFICES ASSUME NEW n \in Nat, F[n] \in Seq(Nat)
                 PROVE  F[n + 1] \in Seq(Nat)
      OBVIOUS
    <3>1. Append(F[n], n + 1) \in Seq(Nat)
      OBVIOUS
    <3> QED
      BY <1>9, <3>1
  <2>3. Nat \subseteq T
    <3> HIDE DEF T
    <3> QED
      BY <2>1, <2>2, NatSetInduction
  <2> QED
    BY <2>3
<1> QED
  BY <1>7, <1>8, <1>9, <1>10

\* It holds exactly the members of the set up to n, in increasing order.
LEMMA InOrderMembers ==
    ASSUME NEW S, NEW n \in Nat
    PROVE  LET in == InOrder(S, n) IN
           /\ in \in Seq(Nat)
           /\ \A j \in 1..Len(in) : in[j] \in S \cap 1..n
           /\ \A k \in S \cap 1..n : \E j \in 1..Len(in) : in[j] = k
           /\ \A j, l \in 1..Len(in) : j < l => in[j] < in[l]
<1> DEFINE Good(m, in) ==
           /\ in \in Seq(Nat)
           /\ \A j \in 1..Len(in) : in[j] \in S \cap 1..m
           /\ \A k \in S \cap 1..m : \E j \in 1..Len(in) : in[j] = k
           /\ \A j, l \in 1..Len(in) : j < l => in[j] < in[l]
           T == {m \in Nat : Good(m, InOrder(S, m))}
<1>1. 0 \in T
  <2>1. InOrder(S, 0) = <<>>
    BY InOrderDef
  <2>2. Good(0, <<>>)
    OBVIOUS
  <2> QED
    BY <2>1, <2>2
<1>2. ASSUME NEW m \in Nat, m \in T PROVE m + 1 \in T
  <2> DEFINE in == InOrder(S, m)
             next == InOrder(S, m + 1)
  <2>1. Good(m, in)
    BY <1>2
  <2>2. CASE m + 1 \in S
    <3>1. next = Append(in, m + 1)
      BY <2>2, InOrderDef
    <3> HIDE DEF in, next
    <3>2. /\ next \in Seq(Nat) /\ Len(next) = Len(in) + 1 /\ Len(in) \in Nat
          /\ next[Len(in) + 1] = m + 1
          /\ \A j \in 1..Len(in) : next[j] = in[j]
      BY <2>1, <3>1
    <3>3. \A j \in 1..Len(next) : next[j] \in S \cap 1..(m + 1)
      <4>1. \A j \in 1..Len(next) : j = Len(in) + 1 \/ j \in 1..Len(in)
        BY <3>2
      <4>2. \A j \in 1..Len(in) : in[j] \in S \cap 1..(m + 1)
        BY <2>1
      <4> QED
        BY <2>2, <3>2, <4>1, <4>2, SMTT(30)
    <3>4. ASSUME NEW k \in S \cap 1..(m + 1)
          PROVE  \E j \in 1..Len(next) : next[j] = k
      <4>1. CASE k = m + 1
        BY <3>2, <4>1
      <4>2. CASE k # m + 1
        <5>1. k \in S \cap 1..m
          BY <4>2
        <5>2. PICK j \in 1..Len(in) : in[j] = k
          BY <2>1, <5>1
        <5> QED
          BY <3>2, <5>2
      <4> QED
        BY <4>1, <4>2
    <3>5. \A j, l \in 1..Len(next) : j < l => next[j] < next[l]
      <4> SUFFICES ASSUME NEW j \in 1..Len(next), NEW l \in 1..Len(next), j < l
                   PROVE  next[j] < next[l]
        OBVIOUS
      <4>1. j \in 1..Len(in) /\ (l = Len(in) + 1 \/ l \in 1..Len(in))
        BY <3>2, SMTT(30)
      <4>2. next[j] = in[j] /\ in[j] \in 1..m
        BY <2>1, <3>2, <4>1
      <4>3. CASE l = Len(in) + 1
        BY <3>2, <4>2, <4>3
      <4>4. CASE l \in 1..Len(in)
        BY <2>1, <3>2, <4>1, <4>4
      <4> QED
        BY <4>1, <4>3, <4>4
    <3>6. Good(m + 1, next)
      BY <3>2, <3>3, <3>4, <3>5
    <3> QED
      BY <3>6 DEF next
  <2>3. CASE m + 1 \notin S
    <3>1. next = in
      BY <2>3, InOrderDef
    <3>2. S \cap 1..(m + 1) = S \cap 1..m
      BY <2>3
    <3>3. Good(m + 1, next)
      <4> HIDE DEF in, next
      <4> QED
        BY <2>1, <3>1, <3>2
    <3> QED
      BY <3>3
  <2> QED
    BY <2>2, <2>3
<1>3. Nat \subseteq T
  <2> HIDE DEF T
  <2> QED
    BY <1>1, <1>2, NatSetInduction
<1> QED
  BY <1>3

\* It depends on the members up to n only.
LEMMA InOrderAgrees ==
    ASSUME NEW S, NEW T, NEW n \in Nat, \A k \in 1..n : k \in S <=> k \in T
    PROVE  InOrder(S, n) = InOrder(T, n)
<1> DEFINE f == [k \in Nat |-> InOrder(S, k)]
           g == [k \in Nat |-> InOrder(T, k)]
<1>1. f[0] = g[0]
  BY InOrderDef
<1>2. ASSUME NEW k \in 0..(n - 1), f[k] = g[k] PROVE f[k + 1] = g[k + 1]
  <2>1. k + 1 \in 1..n /\ k \in Nat
    OBVIOUS
  <2>2. InOrder(S, k) = InOrder(T, k)
    BY <1>2, <2>1
  <2>3. k + 1 \in S <=> k + 1 \in T
    BY <2>1
  <2>4. InOrder(S, k + 1) = InOrder(T, k + 1)
    BY <2>1, <2>2, <2>3, InOrderDef
  <2> QED
    BY <2>1, <2>4
<1>3. \A k \in 0..n : f[k] = g[k]
  <2> HIDE DEF f, g
  <2> QED
    BY <1>1, <1>2, RecursionAgrees DEF Alike, StepsAgree
<1>4. f[n] = g[n]
  BY <1>3
<1> QED
  BY <1>4

\* Numbers outside the set change nothing.
LEMMA InOrderSkips ==
    ASSUME NEW S, NEW m \in Nat, NEW n \in Nat, m <= n,
           \A k \in (m + 1)..n : k \notin S
    PROVE  InOrder(S, n) = InOrder(S, m)
<1> DEFINE T == {k \in Nat : m <= k /\ k <= n => InOrder(S, k) = InOrder(S, m)}
<1>1. 0 \in T
  OBVIOUS
<1>2. ASSUME NEW k \in Nat, k \in T PROVE k + 1 \in T
  <2>1. CASE m <= k /\ k + 1 <= n
    <3>1. InOrder(S, k) = InOrder(S, m)
      BY <1>2, <2>1
    <3>2. k + 1 \notin S
      BY <2>1
    <3>3. InOrder(S, k + 1) = InOrder(S, k)
      BY <3>2, InOrderDef
    <3> QED
      BY <3>1, <3>3
  <2>2. CASE m = k + 1
    BY <2>2
  <2>3. CASE ~(m <= k + 1 /\ k + 1 <= n)
    BY <2>3
  <2>4. m <= k \/ m = k + 1 \/ k + 1 < m
    OBVIOUS
  <2> QED
    BY <2>1, <2>2, <2>3, <2>4
<1>3. Nat \subseteq T
  <2> HIDE DEF T
  <2> QED
    BY <1>1, <1>2, NatSetInduction
<1> QED
  BY <1>3

-----------------------------------------------------------------------------
(* SumOf: the sum of a sequence of natural numbers.                        *)

\* f sums values up to each position.
Sums(f, values) ==
    /\ f[0] = 0
    /\ \A k \in 0..Len(values) : f[k] \in Nat
    /\ \A k \in 0..(Len(values) - 1) : f[k + 1] = f[k] + values[k + 1]

\* The recursion of SumOf is well defined.
LEMMA SumOfDef ==
    ASSUME NEW values \in Seq(Nat)
    PROVE  \E f : Sums(f, values) /\ SumOf(values) = f[Len(values)]
<1> DEFINE n == Len(values)
           step == [p \in Nat \X Nat |->
                      IF p[1] < n THEN p[2] + values[p[1] + 1] ELSE p[2]]
           Def(f) == f = [k \in 0..n |-> IF k = 0 THEN 0 ELSE f[k - 1] + values[k]]
           F == CHOOSE f : Def(f)
<1>0. n \in Nat /\ \A k \in 1..n : values[k] \in Nat
  OBVIOUS
<1> HIDE DEF n
<1>1. step \in [Nat \X Nat -> Nat]
  BY <1>0
<1>2. PICK f : Follows(f, Nat, 0, step)
  <2> HIDE DEF step
  <2> QED
    BY <1>1, RecursionDefines
<1>3. f \in [Nat -> Nat] /\ f[0] = 0
  BY <1>2 DEF Follows
<1>4. ASSUME NEW k \in 0..(n - 1) PROVE f[k + 1] = f[k] + values[k + 1]
  <2>1. k \in Nat /\ k < n
    BY <1>0
  <2>2. f[k + 1] = step[<<k, f[k]>>]
    <3> HIDE DEF step
    <3> QED
      BY <1>2, <2>1 DEF Follows
  <2> QED
    BY <1>3, <2>1, <2>2
<1>5. \E g : Def(g)
  <2> DEFINE g == [k \in 0..n |-> f[k]]
  <2>1. ASSUME NEW k \in 0..n
        PROVE  g[k] = IF k = 0 THEN 0 ELSE g[k - 1] + values[k]
    <3>1. CASE k = 0
      BY <1>3, <3>1
    <3>2. CASE k # 0
      <4>1. k - 1 \in 0..(n - 1) /\ k - 1 \in 0..n /\ (k - 1) + 1 = k
        BY <1>0, <3>2
      <4>2. f[k] = f[k - 1] + values[k]
        BY <1>4, <4>1
      <4> QED
        BY <3>2, <4>1, <4>2
    <3> QED
      BY <3>1, <3>2
  <2>2. Def(g)
    BY <2>1
  <2> HIDE DEF Def, g
  <2> QED
    BY <2>2
<1>6. Def(F)
  <2> HIDE DEF Def
  <2> QED
    BY <1>5
<1>7. SumOf(values) = F[n]
  BY DEF SumOf, n
<1> HIDE DEF F
<1>8. F[0] = 0
  BY <1>0, <1>6
<1>9. ASSUME NEW k \in 0..(n - 1) PROVE F[k + 1] = F[k] + values[k + 1]
  <2>1. k + 1 \in 0..n /\ k + 1 # 0 /\ (k + 1) - 1 = k
    BY <1>0
  <2> QED
    BY <1>6, <2>1
<1> HIDE DEF Def, step
<1>10. \A k \in 0..n : f[k] = F[k]
  <2>1. f[0] = F[0]
    BY <1>3, <1>8
  <2>2. StepsAgree(f, F, n)
    BY <1>4, <1>9 DEF StepsAgree
  <2> QED
    BY <1>0, <2>1, <2>2, RecursionAgrees DEF Alike
<1>11. Sums(f, values)
  BY <1>0, <1>3, <1>4 DEF Sums, n
<1> QED
  BY <1>0, <1>7, <1>10, <1>11 DEF n

\* The empty sum, and the sum with one more value
LEMMA SumOfAppend ==
    ASSUME NEW values \in Seq(Nat), NEW v \in Nat
    PROVE  /\ SumOf(<<>>) = 0
           /\ SumOf(values) \in Nat
           /\ SumOf(Append(values, v)) = SumOf(values) + v
<1> DEFINE n == Len(values)
           longer == Append(values, v)
<1>1. /\ n \in Nat /\ longer \in Seq(Nat) /\ Len(longer) = n + 1
      /\ longer[n + 1] = v /\ \A k \in 1..n : longer[k] = values[k]
  OBVIOUS
<1>2. SumOf(<<>>) = 0
  <2>1. <<>> \in Seq(Nat) /\ Len(<<>>) = 0
    OBVIOUS
  <2>2. PICK f : Sums(f, <<>>) /\ SumOf(<<>>) = f[0]
    BY <2>1, SumOfDef
  <2> QED
    BY <2>2 DEF Sums
<1>3. PICK f : Sums(f, values) /\ SumOf(values) = f[n]
  BY SumOfDef
<1> HIDE DEF longer
<1>4. PICK g : Sums(g, longer) /\ SumOf(longer) = g[n + 1]
  BY <1>1, SumOfDef
<1> HIDE DEF n
<1>5. f[n] \in Nat
  BY <1>1, <1>3 DEF Sums, n
<1>6. \A k \in 0..n : f[k] = g[k]
  <2>1. f[0] = g[0]
    BY <1>3, <1>4 DEF Sums
  <2>2. ASSUME NEW k \in 0..(n - 1), f[k] = g[k] PROVE f[k + 1] = g[k + 1]
    <3>1. k \in 0..(Len(longer) - 1) /\ k + 1 \in 1..n
      BY <1>1
    <3>2. f[k + 1] = f[k] + values[k + 1]
      BY <1>3 DEF Sums, n
    <3>3. g[k + 1] = g[k] + longer[k + 1]
      BY <1>4, <3>1 DEF Sums
    <3> QED
      BY <1>1, <2>2, <3>1, <3>2, <3>3
  <2>3. n \in Nat
    BY <1>1
  <2>4. StepsAgree(f, g, n)
    BY <2>2 DEF StepsAgree
  <2> QED
    BY <2>1, <2>3, <2>4, RecursionAgrees DEF Alike
<1>7. g[n + 1] = g[n] + longer[n + 1]
  <2>1. n \in 0..(Len(longer) - 1)
    BY <1>1
  <2> QED
    BY <1>4, <2>1 DEF Sums
<1>8. g[n] = f[n]
  BY <1>1, <1>6
<1> QED
  BY <1>1, <1>2, <1>3, <1>4, <1>5, <1>7, <1>8 DEF longer

-----------------------------------------------------------------------------
(* FlattenSeq, of the community modules: a sequence of sequences joined.   *)

\* f joins the sequences in s up to each position.
Joins(f, s) ==
    /\ f[1] = s[1]
    /\ \A k \in 1..(Len(s) - 1) : f[k + 1] = f[k] \o s[k + 1]

\* The recursion of FlattenSeq is well defined.
LEMMA FlattenDef ==
    ASSUME NEW S, NEW s \in Seq(Seq(S)), s # <<>>
    PROVE  \E f : /\ Joins(f, s)
                  /\ \A k \in 1..Len(s) : f[k] \in Seq(S)
                  /\ FlattenSeq(s) = f[Len(s)]
<1> DEFINE n == Len(s)
           V == Seq(S)
           step == [p \in Nat \X V |-> IF p[1] + 2 <= n THEN p[2] \o s[p[1] + 2] ELSE p[2]]
           Def(f) == f = [i \in 1..n |-> IF i = 1 THEN s[i] ELSE f[i - 1] \o s[i]]
           F == CHOOSE f : Def(f)
<1>0. n \in Nat /\ n >= 1 /\ \A k \in 1..n : s[k] \in V
  OBVIOUS
<1>1. \A x, y \in V : x \o y \in V
  OBVIOUS
<1>2. FlattenSeq(s) = F[n]
  BY <1>0 DEF FlattenSeq
<1> HIDE DEF V, n, F
<1>3. step \in [Nat \X V -> V]
  <2> SUFFICES ASSUME NEW p \in Nat \X V
               PROVE  (IF p[1] + 2 <= n THEN p[2] \o s[p[1] + 2] ELSE p[2]) \in V
    OBVIOUS
  <2>1. p[1] \in Nat /\ p[2] \in V
    OBVIOUS
  <2>2. CASE p[1] + 2 <= n
    <3>1. p[1] + 2 \in 1..n
      BY <1>0, <2>1, <2>2
    <3>2. s[p[1] + 2] \in V
      BY <1>0, <3>1
    <3> QED
      BY <1>1, <2>1, <2>2, <3>2
  <2> QED
    BY <2>1, <2>2
<1>4. s[1] \in V
  BY <1>0
<1>5. PICK h : Follows(h, V, s[1], step)
  <2> HIDE DEF step
  <2> QED
    BY <1>3, <1>4, RecursionDefines
<1>6. h \in [Nat -> V] /\ h[0] = s[1]
  BY <1>5 DEF Follows
<1>7. ASSUME NEW k \in 0..(n - 2) PROVE h[k + 1] = h[k] \o s[k + 2]
  <2>1. k \in Nat /\ k + 2 <= n /\ h[k] \in V
    BY <1>0, <1>6
  <2>2. h[k + 1] = step[<<k, h[k]>>]
    <3> HIDE DEF step
    <3> QED
      BY <1>5, <2>1 DEF Follows
  <2>3. step[<<k, h[k]>>] = h[k] \o s[k + 2]
    BY <2>1
  <2> QED
    BY <2>2, <2>3
<1> DEFINE f == [i \in 1..n |-> h[i - 1]]
<1>8. ASSUME NEW i \in 1..n PROVE i - 1 \in Nat /\ f[i] = h[i - 1] /\ f[i] \in V
  BY <1>0, <1>6
<1>9. f[1] = s[1]
  BY <1>0, <1>6
<1>10. ASSUME NEW k \in 1..(n - 1) PROVE f[k + 1] = f[k] \o s[k + 1]
  <2>1. k - 1 \in 0..(n - 2) /\ (k - 1) + 1 = k /\ (k - 1) + 2 = k + 1
        /\ k + 1 \in 1..n /\ k \in 1..n /\ (k + 1) - 1 = k
    BY <1>0
  <2>2. f[k + 1] = h[k] /\ f[k] = h[k - 1]
    BY <2>1
  <2>3. h[k] = h[k - 1] \o s[k + 1]
    BY <1>7, <2>1
  <2> QED
    BY <2>2, <2>3
<1>11. f = [i \in 1..n |-> f[i]]
  OBVIOUS
<1> HIDE DEF f, step
<1>12. Def(f)
  <2>1. ASSUME NEW i \in 1..n
        PROVE  f[i] = IF i = 1 THEN s[i] ELSE f[i - 1] \o s[i]
    <3>1. CASE i = 1
      BY <1>9, <3>1
    <3>2. CASE i # 1
      <4>1. i - 1 \in 1..(n - 1) /\ (i - 1) + 1 = i
        BY <1>0, <3>2
      <4> QED
        BY <1>10, <3>2, <4>1
    <3> QED
      BY <3>1, <3>2
  <2> QED
    BY <1>11, <2>1
<1>13. Def(F)
  <2> HIDE DEF Def
  <2> QED
    BY <1>12 DEF F
<1>14. F[1] = s[1]
  BY <1>0, <1>13
<1>15. ASSUME NEW k \in 1..(n - 1) PROVE F[k + 1] = F[k] \o s[k + 1]
  <2>1. k + 1 \in 1..n /\ k + 1 # 1 /\ (k + 1) - 1 = k
    BY <1>0
  <2> QED
    BY <1>13, <2>1
<1> HIDE DEF Def
<1>16. \A k \in 1..n : F[k] \in V
  <2> DEFINE T == {k \in Nat : k + 1 <= n => F[k + 1] \in V}
  <2>1. 0 \in T
    BY <1>4, <1>14
  <2>2. ASSUME NEW k \in Nat, k \in T PROVE k + 1 \in T
    <3> SUFFICES ASSUME k + 2 <= n PROVE F[k + 2] \in V
      BY <1>0
    <3>1. k + 1 \in 1..(n - 1) /\ k + 2 \in 1..n /\ (k + 1) + 1 = k + 2 /\ k + 1 <= n
      BY <1>0
    <3>2. F[k + 1] \in V /\ s[k + 2] \in V
      BY <1>0, <2>2, <3>1
    <3>3. F[k + 2] = F[k + 1] \o s[k + 2]
      BY <1>15, <3>1
    <3> QED
      BY <1>1, <3>2, <3>3
  <2>3. Nat \subseteq T
    <3> HIDE DEF T
    <3> QED
      BY <2>1, <2>2, NatSetInduction
  <2>4. ASSUME NEW k \in 1..n PROVE F[k] \in V
    <3>1. k - 1 \in Nat /\ (k - 1) + 1 = k /\ k <= n
      BY <1>0
    <3> QED
      BY <2>3, <3>1
  <2> QED
    BY <2>4
<1>17. Joins(F, s)
  BY <1>14, <1>15 DEF Joins, n
<1> QED
  BY <1>2, <1>16, <1>17 DEF n, V

\* Two joins of sequences that are alike up to n are alike up to n.
LEMMA JoinsAgree ==
    ASSUME NEW s, NEW t, NEW f, NEW g, Joins(f, s), Joins(g, t), NEW n \in Nat,
           Len(s) \in Nat, Len(t) \in Nat, n >= 1, n <= Len(s), n <= Len(t),
           \A k \in 1..n : s[k] = t[k]
    PROVE  \A k \in 1..n : f[k] = g[k]
<1> DEFINE u == [k \in Nat |-> f[k + 1]]
           v == [k \in Nat |-> g[k + 1]]
<1>1. u[0] = v[0]
  <2>1. f[1] = g[1]
    BY DEF Joins
  <2> QED
    BY <2>1
<1>2. ASSUME NEW k \in 0..((n - 1) - 1), u[k] = v[k] PROVE u[k + 1] = v[k + 1]
  <2>1. /\ k + 1 \in 1..(Len(s) - 1) /\ k + 1 \in 1..(Len(t) - 1)
        /\ (k + 1) + 1 \in 1..n /\ k \in Nat /\ k + 1 \in Nat
    OBVIOUS
  <2>2. f[k + 1] = g[k + 1]
    BY <1>2, <2>1
  <2>3. f[(k + 1) + 1] = f[k + 1] \o s[(k + 1) + 1]
    BY <2>1 DEF Joins
  <2>4. g[(k + 1) + 1] = g[k + 1] \o t[(k + 1) + 1]
    BY <2>1 DEF Joins
  <2>5. s[(k + 1) + 1] = t[(k + 1) + 1]
    BY <2>1
  <2> QED
    BY <2>1, <2>2, <2>3, <2>4, <2>5
<1>3. n - 1 \in Nat
  OBVIOUS
<1>4. \A k \in 0..(n - 1) : u[k] = v[k]
  <2> HIDE DEF u, v
  <2>1. StepsAgree(u, v, n - 1)
    BY <1>2 DEF StepsAgree
  <2> QED
    BY <1>1, <1>3, <2>1, RecursionAgrees DEF Alike
<1>5. ASSUME NEW k \in 1..n PROVE f[k] = g[k]
  <2>1. k - 1 \in 0..(n - 1) /\ (k - 1) + 1 = k /\ k - 1 \in Nat
    OBVIOUS
  <2>2. u[k - 1] = v[k - 1]
    BY <1>4, <2>1
  <2> QED
    BY <2>1, <2>2
<1> QED
  BY <1>5

\* One more sequence is joined at the end.
LEMMA FlattenAppend ==
    ASSUME NEW S, NEW s \in Seq(Seq(S)), NEW b \in Seq(S)
    PROVE  /\ FlattenSeq(s) \in Seq(S)
           /\ FlattenSeq(Append(s, b)) = FlattenSeq(s) \o b
<1> DEFINE n == Len(s)
           t == Append(s, b)
<1>1. /\ n \in Nat /\ t \in Seq(Seq(S)) /\ Len(t) = n + 1 /\ t # <<>>
      /\ t[n + 1] = b /\ \A k \in 1..n : t[k] = s[k]
  <2> DEFINE V == Seq(S)
  <2>1. s \in Seq(V) /\ b \in V
    OBVIOUS
  <2> HIDE DEF V
  <2>2. /\ n \in Nat /\ t \in Seq(V) /\ Len(t) = n + 1 /\ t # <<>>
        /\ t[n + 1] = b /\ \A k \in 1..n : t[k] = s[k]
    BY <2>1
  <2> QED
    BY <2>2 DEF V
<1> HIDE DEF t
<1>2. PICK g : /\ Joins(g, t) /\ \A k \in 1..Len(t) : g[k] \in Seq(S)
               /\ FlattenSeq(t) = g[Len(t)]
  BY <1>1, FlattenDef
<1>3. CASE s = <<>>
  <2>1. n = 0 /\ FlattenSeq(s) = <<>>
    BY <1>3 DEF FlattenSeq
  <2>2. FlattenSeq(t) = b
    BY <1>1, <1>2, <2>1 DEF Joins
  <2>3. <<>> \in Seq(S) /\ <<>> \o b = b
    OBVIOUS
  <2> QED
    BY <2>1, <2>2, <2>3 DEF t
<1>4. CASE s # <<>>
  <2>1. PICK f : /\ Joins(f, s) /\ \A k \in 1..n : f[k] \in Seq(S)
                 /\ FlattenSeq(s) = f[n]
    BY <1>4, FlattenDef
  <2>2. n >= 1
    BY <1>4
  <2> HIDE DEF n
  <2>3. n = Len(s)
    BY DEF n
  <2>4. \A k \in 1..n : f[k] = g[k]
    <3>1. Joins(f, s) /\ Joins(g, t)
      BY <1>2, <2>1
    <3>2. /\ n \in Nat /\ Len(s) \in Nat /\ Len(t) \in Nat
          /\ n <= Len(s) /\ n <= Len(t)
      BY <1>1, <2>3
    <3>3. \A k \in 1..n : s[k] = t[k]
      BY <1>1
    <3> QED
      BY <2>2, <3>1, <3>2, <3>3, JoinsAgree
  <2>5. f[n] = g[n] /\ n \in 1..n /\ n \in 1..(Len(t) - 1)
    BY <1>1, <2>2, <2>4
  <2>6. g[n + 1] = g[n] \o t[n + 1]
    BY <1>2, <2>5 DEF Joins
  <2>7. FlattenSeq(t) = FlattenSeq(s) \o b
    BY <1>1, <1>2, <2>1, <2>5, <2>6
  <2>8. FlattenSeq(s) \in Seq(S)
    BY <2>1, <2>5
  <2> QED
    BY <2>7, <2>8 DEF t
<1> QED
  BY <1>3, <1>4

-----------------------------------------------------------------------------
(* Facts about sequences over any set, in the form later proofs cite them. *)

LEMMA AppendFacts ==
    ASSUME NEW S, NEW s \in Seq(S), NEW e \in S
    PROVE  /\ Append(s, e) \in Seq(S)
           /\ Len(s) \in Nat /\ DOMAIN s = 1..Len(s)
           /\ Len(Append(s, e)) = Len(s) + 1
           /\ DOMAIN Append(s, e) = 1..(Len(s) + 1)
           /\ \A k \in 1..Len(s) : Append(s, e)[k] = s[k]
           /\ Append(s, e)[Len(s) + 1] = e
OBVIOUS

LEMMA ReplaceFacts ==
    ASSUME NEW S, NEW s \in Seq(S), NEW i \in 1..Len(s), NEW e \in S
    PROVE  LET t == [s EXCEPT ![i] = e] IN
           /\ t \in Seq(S)
           /\ Len(s) \in Nat /\ DOMAIN s = 1..Len(s)
           /\ Len(t) = Len(s) /\ DOMAIN t = 1..Len(s)
           /\ \A k \in 1..Len(s) : k # i => t[k] = s[k]
           /\ t[i] = e
OBVIOUS

LEMMA ConcatFacts ==
    ASSUME NEW S, NEW s \in Seq(S), NEW t \in Seq(S)
    PROVE  /\ s \o t \in Seq(S)
           /\ Len(s) \in Nat /\ DOMAIN s = 1..Len(s)
           /\ Len(t) \in Nat /\ DOMAIN t = 1..Len(t)
           /\ Len(s \o t) = Len(s) + Len(t)
           /\ DOMAIN (s \o t) = 1..(Len(s) + Len(t))
           /\ \A k \in 1..Len(s) : (s \o t)[k] = s[k]
           /\ \A k \in 1..Len(t) : (s \o t)[Len(s) + k] = t[k]
           /\ \A k \in 1..(Len(s) + Len(t)) :
                 k \in 1..Len(s) \/ (k - Len(s) \in 1..Len(t)
                                      /\ Len(s) + (k - Len(s)) = k)
OBVIOUS

\* A sequence over a set is known by its length and its elements.
LEMMA SameSequence ==
    ASSUME NEW S, NEW s \in Seq(S), NEW t \in Seq(S), Len(s) = Len(t),
           \A k \in 1..Len(s) : s[k] = t[k]
    PROVE  s = t
OBVIOUS

\* One more position: InOrder takes it at the end, if it is a member.
LEMMA InOrderGrows ==
    ASSUME NEW S, NEW T, NEW n \in Nat, \A k \in 1..n : k \in S <=> k \in T
    PROVE  /\ InOrder(S, n) \in Seq(Nat)
           /\ InOrder(T, n + 1) = IF n + 1 \in T THEN Append(InOrder(S, n), n + 1)
                                  ELSE InOrder(S, n)
<1>1. InOrder(S, n) = InOrder(T, n)
  BY InOrderAgrees
<1> QED
  BY <1>1, InOrderDef

LEMMA SameLength == ASSUME NEW a \in Nat, NEW b \in Nat, 1..a = 1..b PROVE a = b
<1>1. CASE a < b
  <2>1. b \in 1..b /\ b \notin 1..a
    BY <1>1
  <2> QED
    BY <2>1
<1>2. CASE b < a
  <2>1. a \in 1..a /\ a \notin 1..b
    BY <1>2
  <2> QED
    BY <2>1
<1> QED
  BY <1>1, <1>2

-----------------------------------------------------------------------------
(* Maxima.                                                                 *)

LEMMA MaxFacts ==
    ASSUME NEW n \in Nat, NEW S, S \subseteq 0..n, S # {}
    PROVE  Max(S) \in S /\ \A y \in S : y <= Max(S)
<1> DEFINE Has(m) == \A R : R \subseteq 0..m /\ R # {} =>
                        \E x \in R : \A y \in R : x >= y
           T == {m \in Nat : Has(m)}
<1>1. 0 \in T
  OBVIOUS
<1>2. ASSUME NEW m \in Nat, Has(m) PROVE Has(m + 1)
  <2> SUFFICES ASSUME NEW R, R \subseteq 0..(m + 1), R # {}
               PROVE  \E x \in R : \A y \in R : x >= y
    OBVIOUS
  <2>1. CASE m + 1 \in R
    <3>1. \A y \in R : m + 1 >= y
      OBVIOUS
    <3> QED
      BY <2>1, <3>1
  <2>2. CASE m + 1 \notin R
    <3>1. R \subseteq 0..m
      BY <2>2
    <3> QED
      BY <1>2, <3>1
  <2> QED
    BY <2>1, <2>2
<1>3. \A m \in Nat : m \in T => m + 1 \in T
  BY <1>2
<1> HIDE DEF T
<1>4. n \in T
  BY <1>1, <1>3, NatSetInduction
<1>5. Has(n)
  BY <1>4 DEF T
<1>6. \E x \in S : \A y \in S : x >= y
  BY <1>5
<1>7. Max(S) \in S /\ \A y \in S : Max(S) >= y
  BY <1>6, Zenon DEF Max
<1> QED
  BY <1>7

\* The last member of B before n, or 0.
Last0(n, B) == Max({0} \cup {k \in 1..(n - 1) : k \in B})

LEMMA LastBefore ==
    ASSUME NEW n \in Nat, n >= 1, NEW B, NEW C,
           \A k \in 1..(n - 1) : k \in B <=> k \in C
    PROVE  /\ Last0(n, B) \in 0..(n - 1)
           /\ Last0(n, B) = Last0(n, C)
           /\ Last0(n + 1, C) = IF n \in C THEN n ELSE Last0(n, B)
           /\ \A k \in 1..(n - 1) : k \in B => k <= Last0(n, B)
           /\ Last0(n, B) # 0 => Last0(n, B) \in B
<1> DEFINE S == {0} \cup {k \in 1..(n - 1) : k \in B}
           T == {0} \cup {k \in 1..n : k \in C}
<1>1. S \subseteq 0..(n - 1) /\ S # {} /\ n - 1 \in Nat
  OBVIOUS
<1>2. S = {0} \cup {k \in 1..(n - 1) : k \in C}
  OBVIOUS
<1>3. Max(S) \in S /\ \A y \in S : y <= Max(S)
  <2> HIDE DEF S
  <2> QED
    BY <1>1, MaxFacts
<1>4. n \notin C => T = S
  <2>1. 1..n = 1..(n - 1) \cup {n}
    OBVIOUS
  <2> QED
    BY <2>1
<1>5. n \in C => Max(T) = n
  <2> SUFFICES ASSUME n \in C PROVE Max(T) = n
    OBVIOUS
  <2>1. T \subseteq 0..n /\ n \in T
    OBVIOUS
  <2>2. Max(T) \in T /\ \A y \in T : y <= Max(T)
    <3> HIDE DEF T
    <3> QED
      BY <2>1, MaxFacts
  <2>3. Max(T) <= n /\ n <= Max(T) /\ Max(T) \in Nat
    BY <2>1, <2>2
  <2> QED
    BY <2>3
<1>6. (n + 1) - 1 = n
  OBVIOUS
<1>7. Last0(n, B) = Max(S) /\ Last0(n, C) = Max(S) /\ Last0(n + 1, C) = Max(T)
  BY <1>2, <1>6 DEF Last0
<1>8. Max(S) \in 0..(n - 1) /\ \A k \in 1..(n - 1) : k \in B => k <= Max(S)
  BY <1>1, <1>3
<1>9. Max(S) # 0 => Max(S) \in B
  BY <1>3
<1> HIDE DEF S, T
<1> QED
  BY <1>4, <1>5, <1>7, <1>8, <1>9

LEMMA LastGrows ==
    ASSUME NEW n \in Nat, n >= 1, NEW B, NEW C,
           \A k \in 1..(n - 1) : k \in B <=> k \in C
    PROVE  Last0(n + 1, C) = IF n \in C THEN n ELSE Last0(n, B)
BY LastBefore

\* What Chosen takes, and from where
LEMMA ChosenFacts ==
    ASSUME NEW V, NEW values \in Seq(V), NEW S
    PROVE  /\ Chosen(values, S) \in Seq(V)
           /\ Len(Chosen(values, S)) = Len(InOrder(S, Len(values)))
           /\ \A j \in 1..Len(Chosen(values, S)) :
                \E k \in S \cap 1..Len(values) : Chosen(values, S)[j] = values[k]
<1> DEFINE at == InOrder(S, Len(values))
<1>1. Len(values) \in Nat /\ \A k \in 1..Len(values) : values[k] \in V
  OBVIOUS
<1>2. at \in Seq(Nat) /\ \A j \in 1..Len(at) : at[j] \in S \cap 1..Len(values)
  BY <1>1, InOrderMembers
<1>3. Chosen(values, S) = [j \in DOMAIN at |-> values[at[j]]]
  BY DEF Chosen
<1> HIDE DEF at
<1>4. Len(at) \in Nat /\ DOMAIN at = 1..Len(at)
  BY <1>2
<1>5. Chosen(values, S) = [j \in 1..Len(at) |-> values[at[j]]]
  BY <1>3, <1>4
<1>6. \A j \in 1..Len(at) : values[at[j]] \in V
  BY <1>1, <1>2
<1>7. Chosen(values, S) \in Seq(V) /\ Len(Chosen(values, S)) = Len(at)
  BY <1>4, <1>5, <1>6
<1> QED
  BY <1>2, <1>5, <1>7 DEF at

\* One more element, taken or not
LEMMA ChosenGrows ==
    ASSUME NEW V, NEW values \in Seq(V), NEW v \in V, NEW S, NEW T,
           \A k \in 1..Len(values) : k \in S <=> k \in T
    PROVE  /\ Chosen(values, S) \in Seq(V)
           /\ Chosen(Append(values, v), T) =
                IF Len(values) + 1 \in T THEN Append(Chosen(values, S), v)
                ELSE Chosen(values, S)
<1> DEFINE longer == Append(values, v)
           n == Len(values)
           at == InOrder(S, n)
           chosen == Chosen(values, S)
<1>1. /\ n \in Nat /\ longer \in Seq(V) /\ Len(longer) = n + 1 /\ longer[n + 1] = v
      /\ \A k \in 1..n : longer[k] = values[k]
  BY AppendFacts
<1>2. InOrder(T, n + 1) = IF n + 1 \in T THEN Append(at, n + 1) ELSE at
  BY <1>1, InOrderGrows
<1>3. at \in Seq(Nat) /\ \A j \in 1..Len(at) : at[j] \in 1..n
  BY <1>1, InOrderMembers
<1>4. chosen \in Seq(V) /\ Len(chosen) = Len(at)
  BY ChosenFacts
<1>5. chosen = [j \in DOMAIN at |-> values[at[j]]]
  BY DEF Chosen
<1>6. Chosen(longer, T) = [j \in DOMAIN InOrder(T, n + 1) |-> longer[InOrder(T, n + 1)[j]]]
  BY <1>1 DEF Chosen
<1> HIDE DEF longer, n, at, chosen
<1>7. Len(at) \in Nat /\ DOMAIN at = 1..Len(at)
  BY <1>3
<1>8. CASE n + 1 \notin T
  <2>1. Chosen(longer, T) = [j \in DOMAIN at |-> longer[at[j]]]
    BY <1>2, <1>6, <1>8
  <2>2. \A j \in DOMAIN at : longer[at[j]] = values[at[j]]
    BY <1>1, <1>3, <1>7
  <2>3. Chosen(longer, T) = chosen
    BY <1>5, <2>1, <2>2
  <2> QED
    BY <1>4, <1>8, <2>3 DEF chosen, longer, n
<1>9. CASE n + 1 \in T
  <2>1. PICK to : to = Append(at, n + 1)
    OBVIOUS
  <2>2. Chosen(longer, T) = [j \in DOMAIN to |-> longer[to[j]]]
    BY <1>2, <1>6, <1>9, <2>1
  <2>3. PICK l \in Nat : l = Len(at)
    BY <1>7
  <2>4. /\ DOMAIN to = 1..(l + 1) /\ to[l + 1] = n + 1
        /\ \A j \in 1..l : to[j] = at[j]
    <3>1. n + 1 \in Nat
      BY <1>1
    <3> QED
      BY <1>3, <2>1, <2>3, <3>1, AppendFacts
  <2>5. PICK s : s = Append(chosen, v)
    OBVIOUS
  <2>6. /\ s \in Seq(V) /\ Len(s) = l + 1 /\ s[l + 1] = v
        /\ \A j \in 1..l : s[j] = chosen[j]
    BY <1>4, <2>3, <2>5, AppendFacts
  <2>7. ASSUME NEW j \in 1..(l + 1) PROVE longer[to[j]] = s[j]
    <3>1. CASE j \in 1..l
      <4>1. chosen[j] = values[at[j]] /\ at[j] \in 1..n
        BY <1>3, <1>5, <1>7, <2>3, <3>1
      <4> QED
        BY <1>1, <2>4, <2>6, <3>1, <4>1
    <3>2. CASE j = l + 1
      BY <1>1, <2>4, <2>6, <3>2
    <3> QED
      BY <2>3, <3>1, <3>2
  <2>8. Chosen(longer, T) = [j \in 1..(l + 1) |-> s[j]]
    BY <2>2, <2>4, <2>7
  <2>9. s = [j \in 1..(l + 1) |-> s[j]]
    BY <2>6
  <2> QED
    BY <1>4, <1>9, <2>5, <2>8, <2>9 DEF chosen, longer, n
<1> QED
  BY <1>8, <1>9
=============================================================================
