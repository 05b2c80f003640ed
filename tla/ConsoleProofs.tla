---------------------------- MODULE ConsoleProofs ----------------------------
(***************************************************************************)
(* Proofs about Console: that the numbers shown are right, and that the    *)
(* report of a panic is whole, for any screens, functions, stacks, system  *)
(* calls and exceptions.                                                   *)
(***************************************************************************)
EXTENDS Console, SequenceTheorems, WellFoundedInduction, TLAPS

-----------------------------------------------------------------------------
(* Induction and recursion.                                                *)

\* Induction, for the numbers in a set.
LEMMA NatSetInduction ==
  ASSUME NEW S \in SUBSET Nat, 0 \in S, \A n \in S : n + 1 \in S
  PROVE  \A n \in Nat : n \in S
PROOF
  <1> DEFINE R == {p \in Nat \X Nat : p[1] < p[2]}
             T == Nat \ S
  <1>1. IsWellFoundedOn(R, Nat)
    <2>1. R = OpToRel(<, Nat) BY DEF OpToRel
    <2> QED BY <2>1, NatLessThanWellFounded
  <1> SUFFICES ASSUME T # {} PROVE FALSE OBVIOUS
  <1>2. T \subseteq Nat OBVIOUS
  <1> HIDE DEF R
  <1>3. PICK m \in T : \A n \in T : ~ (<<n, m>> \in R) BY <1>1, <1>2, WFMin
  <1>4. m \in Nat /\ m # 0 /\ m - 1 \in Nat OBVIOUS
  <1>5. <<m - 1, m>> \in R BY <1>4 DEF R
  <1>6. m - 1 \in S BY <1>3, <1>4, <1>5
  <1> QED BY <1>4, <1>6

\* A recursion up to N in which each value follows from the one before.
Steps(A, N) == [A \X (1 .. N) -> A]
Follows(f, A, N, a, g) ==
  f \in [0 .. N -> A] /\ f[0] = a /\ \A n \in 1 .. N : f[n] = g[<<f[n - 1], n>>]

\* There is always a function that follows it.
LEMMA Recursion ==
  ASSUME NEW A, NEW N \in Nat, NEW a \in A, NEW g \in Steps(A, N)
  PROVE  \E f : Follows(f, A, N, a, g)
PROOF
  <1>0. g \in [A \X (1 .. N) -> A] BY DEF Steps
  <1> DEFINE Computes(f, n) == /\ f \in [0 .. n -> A] /\ f[0] = a
                               /\ \A k \in 1 .. n : f[k] = g[<<f[k - 1], k>>]
             S == {n \in Nat : n <= N => \E f : Computes(f, n)}
  <1>1. 0 \in S
    <2>1. Computes([k \in 0 .. 0 |-> a], 0) OBVIOUS
    <2> QED BY <2>1
  <1>2. ASSUME NEW n \in S PROVE n + 1 \in S
    <2> SUFFICES ASSUME n + 1 <= N PROVE \E f : Computes(f, n + 1)
      <3> HIDE DEF Computes
      <3> QED OBVIOUS
    <2>1. n \in Nat /\ n <= N /\ n + 1 \in 1 .. N OBVIOUS
    <2>2. PICK f : Computes(f, n) BY <2>1
    <2> DEFINE b == g[<<f[n], n + 1>>]
               h == [k \in 0 .. n + 1 |-> IF k <= n THEN f[k] ELSE b]
    <2>3. b \in A
      <3>1. f[n] \in A BY <2>1, <2>2
      <3> QED BY <1>0, <2>1, <3>1
    <2>4. h \in [0 .. n + 1 -> A]
      <3> HIDE DEF b
      <3> QED BY <2>1, <2>2, <2>3
    <2>5. h[0] = a BY <2>1, <2>2
    <2>6. ASSUME NEW k \in 1 .. n + 1 PROVE h[k] = g[<<h[k - 1], k>>]
      <3>1. CASE k <= n BY <2>1, <2>2, <3>1
      <3>2. CASE k = n + 1
        <4>1. h[n] = f[n] /\ h[n + 1] = b /\ (n + 1) - 1 = n BY <2>1
        <4> HIDE DEF h
        <4>2. h[n + 1] = g[<<h[n], n + 1>>] BY <4>1
        <4> QED BY <3>2, <4>1, <4>2
      <3> QED BY <2>1, <3>1, <3>2
    <2> QED BY <2>4, <2>5, <2>6
  <1>3. N \in S
    <2> HIDE DEF S
    <2> QED BY <1>1, <1>2, NatSetInduction DEF S
  <1>4. PICK f : Computes(f, N) BY <1>3
  <1>5. Follows(f, A, N, a, g) BY <1>4 DEF Follows
  <1> QED BY <1>5

\* A function on 1 .. n is a sequence.
LEMMA SequenceOf ==
  ASSUME NEW S, NEW n \in Nat, NEW f, f \in [1 .. n -> S]
  PROVE  f \in Seq(S) /\ Len(f) = n
PROOF
  OBVIOUS

\* A sequence of some elements is one of more.
LEMMA WiderSeq ==
  ASSUME NEW S, NEW T, S \subseteq T, NEW s, s \in Seq(S)
  PROVE  s \in Seq(T)
PROOF
  OBVIOUS

-----------------------------------------------------------------------------
(* Decimal numbers.                                                        *)

Digit == 0 .. 9

\* What is divided by ten gets smaller.
LEMMA Tens ==
  ASSUME NEW n \in Nat
  PROVE  /\ n \div 10 \in Nat /\ n % 10 \in Digit /\ n = 10 * (n \div 10) + (n % 10)
         /\ n > 0 => n \div 10 < n
PROOF
  BY DEF Digit

\* The loop of dec2str for n, by the digits of n \div 10 in f; up to n.
DecRule(f, n)  == IF n = 0 THEN f[0] = <<>> ELSE f[n] = <<n % 10>> \o f[n \div 10]
DecUpTo(f, n) == f \in [0 .. n -> Seq(Digit)] /\ \A k \in 0 .. n : DecRule(f, k)

\* Digits in front of digits.
LEMMA OneMoreDigit ==
  ASSUME NEW d \in Digit, NEW s \in Seq(Digit)
  PROVE  <<d>> \o s \in Seq(Digit)
PROOF
  <1>1. <<d>> \in Seq(Digit) OBVIOUS
  <1> QED BY <1>1, ConcatProperties

\* The digits of the numbers up to n give those of n + 1.
LEMMA DecNext ==
  ASSUME NEW n \in Nat, NEW f, DecUpTo(f, n)
  PROVE  \E h : DecUpTo(h, n + 1)
PROOF
  <1> DEFINE m == (n + 1) \div 10
             s == <<(n + 1) % 10>> \o f[m]
             h == [k \in 0 .. n + 1 |-> IF k <= n THEN f[k] ELSE s]
  <1>1. m \in 0 .. n /\ (n + 1) % 10 \in Digit /\ n + 1 \in Nat BY Tens
  <1>2. f \in [0 .. n -> Seq(Digit)] BY DEF DecUpTo
  <1>3. s \in Seq(Digit)
    <2>1. f[m] \in Seq(Digit) BY <1>1, <1>2
    <2> HIDE DEF m
    <2> QED BY <1>1, <2>1, OneMoreDigit
  <1>4. h \in [0 .. n + 1 -> Seq(Digit)]
    <2> HIDE DEF s
    <2> QED BY <1>2, <1>3
  <1>5. \A k \in 0 .. n : h[k] = f[k] OBVIOUS
  <1>6. h[n + 1] = s OBVIOUS
  <1>7. ASSUME NEW k \in 0 .. n + 1 PROVE DecRule(h, k)
    <2> HIDE DEF h
    <2>1. k \in Nat OBVIOUS
    <2>2. CASE k = n + 1
      <3>1. h[m] = f[m] BY <1>1, <1>5
      <3>2. h[k] = <<k % 10>> \o h[k \div 10] BY <1>6, <2>2, <3>1
      <3> QED BY <2>2, <3>2 DEF DecRule
    <2>3. CASE k = 0
      <3>1. k \in 0 .. n /\ h[0] = f[0] BY <1>5, <2>3
      <3>2. DecRule(f, 0) BY <2>3, <3>1 DEF DecUpTo
      <3> QED BY <2>3, <3>1, <3>2 DEF DecRule
    <2>4. CASE k <= n /\ k > 0
      <3>1. k \div 10 \in 0 .. n /\ k \in 0 .. n BY <2>1, <2>4, Tens
      <3>2. h[k \div 10] = f[k \div 10] /\ h[k] = f[k] BY <1>5, <3>1
      <3>3. DecRule(f, k) BY <3>1 DEF DecUpTo
      <3> QED BY <2>4, <3>2, <3>3 DEF DecRule
    <2> QED BY <2>1, <2>2, <2>3, <2>4
  <1> HIDE DEF h
  <1>8. DecUpTo(h, n + 1) BY <1>4, <1>7 DEF DecUpTo
  <1> QED BY <1>8

\* The loop ends for every number ...
LEMMA DecExists ==
  \A n \in Nat : \E f : DecUpTo(f, n)
PROOF
  <1> DEFINE S == {n \in Nat : \E f : DecUpTo(f, n)}
  <1>1. 0 \in S
    <2> DEFINE f == [k \in 0 .. 0 |-> <<>>]
    <2>1. f \in [0 .. 0 -> Seq(Digit)] OBVIOUS
    <2>2. f[0] = <<>> OBVIOUS
    <2> HIDE DEF f
    <2>3. \A k \in 0 .. 0 : DecRule(f, k) BY <2>2 DEF DecRule
    <2>4. DecUpTo(f, 0) BY <2>1, <2>3 DEF DecUpTo
    <2> QED BY <2>4
  <1>2. ASSUME NEW n \in S PROVE n + 1 \in S BY DecNext
  <1>3. S \in SUBSET Nat OBVIOUS
  <1> HIDE DEF S
  <1>4. \A n \in Nat : n \in S BY <1>1, <1>2, <1>3, NatSetInduction
  <1> QED BY <1>4 DEF S

\* ... with one outcome.
LEMMA DecUnique ==
  ASSUME NEW a \in Nat, NEW b \in Nat, NEW f, NEW h, DecUpTo(f, a), DecUpTo(h, b)
  PROVE  \A k \in Nat : k <= a /\ k <= b => f[k] = h[k]
PROOF
  <1> DEFINE T == {n \in Nat : \A k \in 0 .. n : k <= a /\ k <= b => f[k] = h[k]}
  <1>1. 0 \in T
    <2>1. DecRule(f, 0) /\ DecRule(h, 0) BY DEF DecUpTo
    <2>2. f[0] = h[0] BY <2>1 DEF DecRule
    <2> QED BY <2>2
  <1>2. ASSUME NEW n \in T PROVE n + 1 \in T
    <2>1. n \in Nat /\ n + 1 \in Nat /\ n + 1 # 0 OBVIOUS
    <2>2. \A k \in 0 .. n : k <= a /\ k <= b => f[k] = h[k] OBVIOUS
    <2>3. ASSUME n + 1 <= a, n + 1 <= b PROVE f[n + 1] = h[n + 1]
      <3> DEFINE m == (n + 1) \div 10
      <3>1. m \in 0 .. n BY <2>1, Tens
      <3>2. f[m] = h[m] BY <2>1, <2>2, <2>3, <3>1
      <3>3. DecRule(f, n + 1) /\ DecRule(h, n + 1) BY <2>1, <2>3 DEF DecUpTo
      <3>4. f[n + 1] = <<(n + 1) % 10>> \o f[m] /\ h[n + 1] = <<(n + 1) % 10>> \o h[m]
        BY <2>1, <3>3 DEF DecRule
      <3> QED BY <3>2, <3>4
    <2>4. \A k \in 0 .. n + 1 : k \in 0 .. n \/ k = n + 1 BY <2>1
    <2>5. ASSUME NEW k \in 0 .. n + 1, k <= a, k <= b PROVE f[k] = h[k]
      BY <2>2, <2>3, <2>4, <2>5
    <2> QED BY <2>1, <2>5
  <1>3. T \in SUBSET Nat OBVIOUS
  <1>4. \A n \in Nat : n \in T
    <2> HIDE DEF T
    <2> QED BY <1>1, <1>2, <1>3, NatSetInduction
  <1>5. ASSUME NEW k \in Nat, k <= a, k <= b PROVE f[k] = h[k]
    <2>1. k \in T /\ k \in 0 .. k BY <1>4
    <2> QED BY <1>5, <2>1
  <1> QED BY <1>5

\* The loop of dec2str: its digits are what its definition says.
LEMMA DecLoopRule ==
  /\ DecLoop \in [Nat -> Seq(Digit)]
  /\ DecLoop[0] = <<>>
  /\ \A n \in Nat \ {0} : DecLoop[n] = <<n % 10>> \o DecLoop[n \div 10]
PROOF
  <1> DEFINE F(n) == CHOOSE f : DecUpTo(f, n)
             g == [n \in Nat |-> F(n)[n]]
             Body(f) == [n \in Nat |-> IF n = 0 THEN <<>> ELSE <<n % 10>> \o f[n \div 10]]
  <1>1. ASSUME NEW n \in Nat PROVE DecUpTo(F(n), n) BY DecExists
  <1>2. \A n \in Nat : g[n] = F(n)[n] OBVIOUS
  <1>3. ASSUME NEW n \in Nat PROVE g[n] \in Seq(Digit) /\ DecRule(g, n)
    <2> HIDE DEF F, g
    <2>1. F(n) \in [0 .. n -> Seq(Digit)] /\ DecRule(F(n), n) /\ n \in 0 .. n
      BY <1>1 DEF DecUpTo
    <2>2. g[n] \in Seq(Digit) BY <1>2, <2>1
    <2>3. CASE n = 0 BY <1>2, <2>1, <2>3 DEF DecRule
    <2>4. CASE n > 0
      <3> DEFINE m == n \div 10
      <3>1. m \in Nat /\ m <= n /\ m <= m BY Tens
      <3> HIDE DEF m
      <3>2. F(m)[m] = F(n)[m] BY <1>1, <3>1, DecUnique
      <3>3. g[m] = F(n)[m] /\ g[n] = F(n)[n] BY <1>2, <3>1, <3>2
      <3>4. F(n)[n] = <<n % 10>> \o F(n)[m] BY <2>1, <2>4 DEF DecRule, m
      <3>5. g[n] = <<n % 10>> \o g[n \div 10] BY <3>3, <3>4 DEF m
      <3> QED BY <2>2, <2>4, <3>5 DEF DecRule
    <2> QED BY <2>2, <2>3, <2>4
  <1>4. g = Body(g)
    <2>1. g = [n \in Nat |-> g[n]] OBVIOUS
    <2> HIDE DEF g
    <2>2. ASSUME NEW n \in Nat
          PROVE  g[n] = IF n = 0 THEN <<>> ELSE <<n % 10>> \o g[n \div 10]
      BY <1>3 DEF DecRule
    <2> QED BY <2>1, <2>2
  <1>5. DecLoop = CHOOSE f : f = Body(f) BY DEF DecLoop
  <1>6. DecLoop = Body(DecLoop)
    <2> HIDE DEF Body, g
    <2> QED BY <1>4, <1>5
  <1>7. ASSUME NEW n \in Nat
        PROVE  DecLoop[n] = IF n = 0 THEN <<>> ELSE <<n % 10>> \o DecLoop[n \div 10]
    <2> DEFINE D == DecLoop
    <2>1. D = Body(D) BY <1>6
    <2> HIDE DEF D
    <2>2. D[n] = IF n = 0 THEN <<>> ELSE <<n % 10>> \o D[n \div 10] BY <2>1
    <2> QED BY <2>2 DEF D
  <1> DEFINE T == {n \in Nat : \A k \in 0 .. n : DecLoop[k] \in Seq(Digit)}
  <1>8. 0 \in T
    <2>1. DecLoop[0] = <<>> BY <1>7
    <2>2. DecLoop[0] \in Seq(Digit) BY <2>1
    <2> QED BY <2>2
  <1>9. ASSUME NEW n \in T PROVE n + 1 \in T
    <2>1. n \in Nat /\ n + 1 \in Nat /\ n + 1 # 0 OBVIOUS
    <2>2. (n + 1) \div 10 \in 0 .. n /\ (n + 1) % 10 \in Digit BY <2>1, Tens
    <2>3. DecLoop[(n + 1) \div 10] \in Seq(Digit) BY <2>2
    <2>4. DecLoop[n + 1] = <<(n + 1) % 10>> \o DecLoop[(n + 1) \div 10] BY <1>7, <2>1
    <2>5. DecLoop[n + 1] \in Seq(Digit) BY <2>2, <2>3, <2>4, OneMoreDigit
    <2>6. \A k \in 0 .. n + 1 : k \in 0 .. n \/ k = n + 1 BY <2>1
    <2>7. \A k \in 0 .. n : DecLoop[k] \in Seq(Digit) OBVIOUS
    <2> QED BY <2>1, <2>5, <2>6, <2>7
  <1>10. T \in SUBSET Nat OBVIOUS
  <1>11. \A n \in Nat : DecLoop[n] \in Seq(Digit)
    <2>1. \A n \in Nat : n \in T
      <3> HIDE DEF T
      <3> QED BY <1>8, <1>9, <1>10, NatSetInduction
    <2>2. ASSUME NEW n \in Nat PROVE DecLoop[n] \in Seq(Digit)
      <3>1. n \in T /\ n \in 0 .. n BY <2>1
      <3> QED BY <3>1
    <2> QED BY <2>2
  <1>12. DecLoop = [n \in Nat |-> DecLoop[n]]
    <2> DEFINE D == DecLoop
    <2>1. D = Body(D) BY <1>6
    <2> HIDE DEF D
    <2>2. D = [n \in Nat |-> D[n]] BY <2>1
    <2> QED BY <2>2 DEF D
  <1>13. DecLoop \in [Nat -> Seq(Digit)] BY <1>11, <1>12
  <1> QED BY <1>7, <1>13

\* The values of the first digits of a string, one by one.
LEMMA ValueRule ==
  ASSUME NEW s \in Seq(Digit)
  PROVE  /\ DecValues(s) \in [0 .. Len(s) -> Nat]
         /\ DecValues(s)[0] = 0
         /\ \A n \in 1 .. Len(s) : DecValues(s)[n] = 10 * DecValues(s)[n - 1] + s[n]
PROOF
  <1> DEFINE L == Len(s)
             Body(f) == [n \in 0 .. L |-> IF n = 0 THEN 0 ELSE 10 * f[n - 1] + s[n]]
             g == [p \in Nat \X (1 .. L) |-> 10 * p[1] + s[p[2]]]
  <1>1. L \in Nat /\ s \in [1 .. L -> Digit] OBVIOUS
  <1>2. g \in [Nat \X (1 .. L) -> Nat]
    <2>1. ASSUME NEW p \in Nat \X (1 .. L) PROVE 10 * p[1] + s[p[2]] \in Nat
      <3>1. p[1] \in Nat /\ s[p[2]] \in Digit BY <1>1
      <3> QED BY <3>1 DEF Digit
    <2> HIDE DEF L
    <2> QED BY <2>1
  <1> HIDE DEF L
  <1>3. \E f \in [0 .. L -> Nat] : f[0] = 0 /\ \A n \in 1 .. L : f[n] = g[<<f[n - 1], n>>]
    <2>1. 0 \in Nat /\ L \in Nat BY <1>1
    <2> HIDE DEF g, Body
    <2>2. g \in Steps(Nat, L) BY <1>2 DEF Steps
    <2>3. \E f : Follows(f, Nat, L, 0, g) BY <2>1, <2>2, Recursion
    <2> QED BY <2>3 DEF Follows
  <1>4. PICK f \in [0 .. L -> Nat] :
               f[0] = 0 /\ \A n \in 1 .. L : f[n] = 10 * f[n - 1] + s[n]
    <2>1. PICK f \in [0 .. L -> Nat] :
                 f[0] = 0 /\ \A n \in 1 .. L : f[n] = g[<<f[n - 1], n>>]
      BY <1>3
    <2>2. ASSUME NEW n \in 1 .. L PROVE f[n] = 10 * f[n - 1] + s[n]
      <3>1. f[n - 1] \in Nat BY <1>1
      <3>2. <<f[n - 1], n>> \in Nat \X (1 .. L) BY <3>1
      <3>3. g[<<f[n - 1], n>>] = 10 * f[n - 1] + s[n] BY <3>2
      <3> QED BY <2>1, <3>3
    <2> QED BY <2>1, <2>2
  <1>5. f = Body(f)
    <2>1. ASSUME NEW n \in 0 .. L PROVE f[n] = IF n = 0 THEN 0 ELSE 10 * f[n - 1] + s[n]
      BY <1>1, <1>4
    <2> QED BY <2>1
  <1> DEFINE D == DecValues(s)
  <1>6. D = CHOOSE h : h = Body(h) BY DEF DecValues, L
  <1>7. D = Body(D)
    <2> HIDE DEF Body, D
    <2> QED BY <1>5, <1>6
  <1> HIDE DEF D
  <1>8. D = [n \in 0 .. L |-> D[n]] /\ D[0] = 0 BY <1>1, <1>7
  <1>9. ASSUME NEW n \in 1 .. L PROVE D[n] = 10 * D[n - 1] + s[n]
    <2>1. n \in 0 .. L /\ n # 0 BY <1>1
    <2> QED BY <1>7, <2>1
  <1> DEFINE T == {n \in Nat : n <= L => D[n] \in Nat}
  <1>10. 0 \in T BY <1>8
  <1>11. ASSUME NEW n \in T PROVE n + 1 \in T
    <2>1. n \in Nat OBVIOUS
    <2>2. ASSUME n + 1 <= L PROVE D[n + 1] \in Nat
      <3>1. n + 1 \in 1 .. L /\ (n + 1) - 1 = n /\ D[n] \in Nat BY <1>1, <2>1, <2>2
      <3>2. s[n + 1] \in Digit BY <1>1, <3>1
      <3>3. D[n + 1] = 10 * D[n] + s[n + 1] BY <1>9, <3>1
      <3>4. s[n + 1] \in Nat BY <3>2 DEF Digit
      <3> QED BY <3>1, <3>3, <3>4
    <2> QED BY <2>1, <2>2
  <1>12. T \in SUBSET Nat OBVIOUS
  <1>13. \A n \in Nat : n \in T
    <2> HIDE DEF T
    <2> QED BY <1>10, <1>11, <1>12, NatSetInduction
  <1>14. \A n \in 0 .. L : D[n] \in Nat BY <1>1, <1>13
  <1>15. D \in [0 .. L -> Nat] BY <1>8, <1>14
  <1> QED BY <1>8, <1>9, <1>15 DEF D, L

\* A digit at the end.
LEMMA ValueAppend ==
  ASSUME NEW s \in Seq(Digit), NEW d \in Digit
  PROVE  DecValue(Append(s, d)) = 10 * DecValue(s) + d
PROOF
  <1> DEFINE t == Append(s, d)  L == Len(s)
  <1>1. L \in Nat /\ t \in Seq(Digit) /\ Len(t) = L + 1 /\ t[L + 1] = d OBVIOUS
  <1>2. \A n \in 1 .. L : t[n] = s[n] OBVIOUS
  <1> HIDE DEF t, L
  <1> DEFINE T == {n \in Nat : n <= L => DecValues(t)[n] = DecValues(s)[n]}
  <1>3. 0 \in T BY <1>1, ValueRule
  <1>4. ASSUME NEW n \in T PROVE n + 1 \in T
    <2>1. n \in Nat OBVIOUS
    <2>2. ASSUME n + 1 <= L PROVE DecValues(t)[n + 1] = DecValues(s)[n + 1]
      <3>1. n + 1 \in 1 .. L /\ n + 1 \in 1 .. Len(t) /\ (n + 1) - 1 = n
        BY <1>1, <2>1, <2>2
      <3>2. DecValues(t)[n + 1] = 10 * DecValues(t)[n] + t[n + 1]
        BY <1>1, <3>1, ValueRule
      <3>3. DecValues(s)[n + 1] = 10 * DecValues(s)[n] + s[n + 1]
        BY <3>1, ValueRule DEF L
      <3>4. DecValues(t)[n] = DecValues(s)[n] BY <1>1, <2>1, <2>2
      <3>5. t[n + 1] = s[n + 1] BY <1>2, <3>1
      <3> QED BY <3>2, <3>3, <3>4, <3>5
    <2> QED BY <2>1, <2>2
  <1>5. T \in SUBSET Nat OBVIOUS
  <1>6. \A n \in Nat : n \in T
    <2> HIDE DEF T
    <2> QED BY <1>3, <1>4, <1>5, NatSetInduction
  <1>7. DecValues(t)[L] = DecValues(s)[L] BY <1>1, <1>6
  <1>8. DecValues(t)[L + 1] = 10 * DecValues(t)[L] + t[L + 1]
    <2>1. L + 1 \in 1 .. Len(t) /\ (L + 1) - 1 = L BY <1>1
    <2> QED BY <1>1, <2>1, ValueRule
  <1>9. DecValue(t) = DecValues(t)[L + 1] /\ DecValue(s) = DecValues(s)[L]
    BY <1>1 DEF DecValue, L
  <1> QED BY <1>1, <1>7, <1>8, <1>9 DEF t

\* The digits backwards, without a zero in front, have the number as value.
LEMMA LoopValue ==
  ASSUME NEW n \in Nat
  PROVE  /\ Reverse(DecLoop[n]) \in Seq(Digit)
         /\ DecValue(Reverse(DecLoop[n])) = n
         /\ n > 0 => Len(DecLoop[n]) > 0 /\ DecLoop[n][Len(DecLoop[n])] # 0
PROOF
  <1> DEFINE Good(k) == /\ DecValue(Reverse(DecLoop[k])) = k
                        /\ k > 0 => /\ Len(DecLoop[k]) > 0
                                    /\ DecLoop[k][Len(DecLoop[k])] # 0
             T == {m \in Nat : \A k \in 0 .. m : Good(k)}
  <1>1. ASSUME NEW s \in Seq(Digit)
        PROVE  Reverse(s) \in Seq(Digit)
    <2>1. Len(s) \in Nat /\ s \in [1 .. Len(s) -> Digit] OBVIOUS
    <2>2. \A i \in 1 .. Len(s) : Len(s) - i + 1 \in 1 .. Len(s) BY <2>1
    <2>3. [i \in 1 .. Len(s) |-> s[Len(s) - i + 1]] \in [1 .. Len(s) -> Digit] BY <2>1, <2>2
    <2> QED BY <2>1, <2>3 DEF Reverse
  <1>2. ASSUME NEW s \in Seq(Digit), NEW d \in Digit
        PROVE  Reverse(<<d>> \o s) = Append(Reverse(s), d)
    <2> DEFINE t == <<d>> \o s  L == Len(s)
    <2>1. L \in Nat /\ t \in Seq(Digit) /\ Len(t) = L + 1 BY OneMoreDigit
    <2>2. t[1] = d /\ \A i \in 1 .. L : t[i + 1] = s[i] OBVIOUS
    <2>3. Reverse(t) \in Seq(Digit) /\ Len(Reverse(t)) = L + 1 BY <1>1, <2>1 DEF Reverse
    <2>4. Append(Reverse(s), d) \in Seq(Digit) /\ Len(Append(Reverse(s), d)) = L + 1
      BY <1>1 DEF Reverse
    <2>5. ASSUME NEW i \in 1 .. L + 1 PROVE Reverse(t)[i] = Append(Reverse(s), d)[i]
      <3>1. Reverse(t)[i] = t[L + 1 - i + 1]
        <4> HIDE DEF t
        <4> QED BY <2>1 DEF Reverse
      <3>2. CASE i = L + 1
        <4>1. Append(Reverse(s), d)[i] = d BY <1>1, <3>2 DEF Reverse
        <4>2. L + 1 - i + 1 = 1 BY <2>1, <3>2
        <4> QED BY <2>2, <3>1, <4>1, <4>2
      <3>3. CASE i \in 1 .. L
        <4>1. Append(Reverse(s), d)[i] = s[L - i + 1] BY <1>1, <3>3 DEF Reverse
        <4>2. L + 1 - i + 1 = (L - i + 1) + 1 /\ L - i + 1 \in 1 .. L BY <2>1, <3>3
        <4> QED BY <2>2, <3>1, <4>1, <4>2
      <3>4. i = L + 1 \/ i \in 1 .. L BY <2>1
      <3> HIDE DEF t, L
      <3> QED BY <3>2, <3>3, <3>4
    <2> HIDE DEF t, L
    <2>6. Reverse(t) = Append(Reverse(s), d) BY <2>1, <2>3, <2>4, <2>5, SeqEqual
    <2> QED BY <2>6 DEF t
  <1>3. Good(0)
    <2>1. Reverse(<<>>) \in Seq(Digit) /\ Len(Reverse(<<>>)) = 0
      <3>1. <<>> \in Seq(Digit) /\ Len(<<>>) = 0 OBVIOUS
      <3> QED BY <1>1, <3>1 DEF Reverse
    <2>2. DecValue(Reverse(<<>>)) = 0 BY <2>1, ValueRule DEF DecValue
    <2> QED BY <2>2, DecLoopRule
  <1>4. ASSUME NEW m \in T PROVE m + 1 \in T
    <2>1. m \in Nat /\ m + 1 \in Nat \ {0} /\ (\A k \in 0 .. m : Good(k)) OBVIOUS
    <2> DEFINE q == (m + 1) \div 10  d == (m + 1) % 10  s == DecLoop[q]
    <2>2. q \in 0 .. m /\ d \in Digit /\ m + 1 = 10 * q + d BY <2>1, Tens
    <2> HIDE DEF Good
    <2>3. Good(q) /\ q \in Nat BY <2>1, <2>2
    <2>4. s \in Seq(Digit) /\ DecLoop[m + 1] = <<d>> \o s BY <2>1, <2>3, DecLoopRule
    <2> HIDE DEF q, d, s
    <2>5. DecValue(Reverse(DecLoop[m + 1])) = m + 1
      <3>1. DecValue(Reverse(s)) = q BY <2>3 DEF Good, s
      <3>2. DecValue(Append(Reverse(s), d)) = 10 * q + d
        BY <1>1, <2>2, <2>4, <3>1, ValueAppend
      <3> QED BY <1>2, <2>2, <2>4, <3>2
    <2>6. Len(DecLoop[m + 1]) > 0 /\ DecLoop[m + 1][Len(DecLoop[m + 1])] # 0
      <3>1. CASE q = 0
        <4>1. s = <<>> BY <3>1, DecLoopRule DEF s
        <4>2. DecLoop[m + 1] = <<d>> BY <2>4, <4>1
        <4>3. d # 0 BY <2>1, <2>2, <3>1
        <4> QED BY <4>2, <4>3
      <3>2. CASE q > 0
        <4>1. Len(s) > 0 /\ s[Len(s)] # 0 BY <2>3, <3>2 DEF Good, s
        <4>2. Len(<<d>> \o s) = Len(s) + 1 /\ (<<d>> \o s)[Len(s) + 1] = s[Len(s)]
          BY <2>4, <4>1
        <4> QED BY <2>4, <4>1, <4>2
      <3> QED BY <2>3, <3>1, <3>2
    <2>7. Good(m + 1) BY <2>5, <2>6 DEF Good
    <2>8. \A k \in 0 .. m + 1 : k \in 0 .. m \/ k = m + 1 BY <2>1
    <2> QED BY <2>1, <2>7, <2>8
  <1>5. T \in SUBSET Nat OBVIOUS
  <1>6. 0 \in T
    <2> HIDE DEF Good
    <2> QED BY <1>3
  <1>7. n \in T
    <2> HIDE DEF T
    <2> QED BY <1>4, <1>5, <1>6, NatSetInduction
  <1>8. Good(n)
    <2> HIDE DEF Good
    <2>1. n \in 0 .. n OBVIOUS
    <2> QED BY <1>7, <2>1
  <1> QED BY <1>1, <1>8, DecLoopRule

\* What dec2str makes of a number that is not negative.
LEMMA DecString ==
  ASSUME NEW n \in Nat
  PROVE  /\ dec2str(n) \in Seq(Digit) /\ DecValue(dec2str(n)) = n
         /\ Len(dec2str(n)) > 1 => dec2str(n)[1] # 0
PROOF
  <1>1. CASE n = 0
    <2> DEFINE z == dec2str(n)
    <2>1. z = Reverse(<<0>>) BY <1>1 DEF dec2str
    <2>2. Reverse(<<0>>) = <<0>>
      <3>1. Len(<<0>>) = 1 /\ <<0>>[1] = 0 OBVIOUS
      <3>2. \A i \in 1 .. 1 : Len(<<0>>) - i + 1 = 1 BY <3>1
      <3> QED BY <3>1, <3>2 DEF Reverse
    <2>3. 0 \in Digit BY DEF Digit
    <2> HIDE DEF z
    <2>4. z = <<0>> BY <2>1, <2>2
    <2>5. z \in Seq(Digit) /\ Len(z) = 1 /\ z[1] = 0 BY <2>3, <2>4
    <2>6. DecValues(z)[0] = 0 BY <2>5, ValueRule
    <2>7. DecValues(z)[1] = 10 * DecValues(z)[1 - 1] + z[1]
      <3>1. 1 \in 1 .. Len(z) BY <2>5
      <3> QED BY <2>5, <3>1, ValueRule
    <2>8. DecValue(z) = 0 BY <2>5, <2>6, <2>7 DEF DecValue
    <2>9. ~(Len(z) > 1) BY <2>5
    <2> QED BY <1>1, <2>5, <2>8, <2>9 DEF z
  <1>2. CASE n > 0
    <2> DEFINE s == DecLoop[n]
    <2>1. dec2str(n) = Reverse(s) BY <1>2 DEF dec2str
    <2>2. s \in Seq(Digit) /\ Len(s) > 0 /\ s[Len(s)] # 0
      BY <1>2, LoopValue, DecLoopRule
    <2>3. Reverse(s)[1] = s[Len(s)]
      <3> HIDE DEF s
      <3>1. 1 \in 1 .. Len(s) /\ Len(s) - 1 + 1 = Len(s) BY <2>2
      <3> QED BY <3>1 DEF Reverse
    <2>4. Reverse(s) \in Seq(Digit) /\ DecValue(Reverse(s)) = n BY LoopValue
    <2> HIDE DEF s
    <2> QED BY <2>1, <2>2, <2>3, <2>4
  <1> QED BY <1>1, <1>2

-----------------------------------------------------------------------------
(* Hexadecimal numbers.                                                    *)

Nibble  == 0 .. 15
Integer == -INT_MAX - 1 .. INT_MAX

\* What an int is.
LEMMA IntegerBounds ==
  ASSUME NEW n \in Integer
  PROVE  n \in Int /\ INT_MAX \in Int /\ n <= INT_MAX /\ -n - 1 <= INT_MAX
PROOF
  <1>1. INT_MAX \in Int BY SMT DEF INT_MAX
  <1> QED BY <1>1, SMT DEF Integer

\* The nibbles of an int.
LEMMA WordParts ==
  ASSUME NEW n \in Integer
  PROVE  /\ \A k \in 1 .. 8 : Weight[k] \in Nat \ {0}
         /\ Word(n) \in [1 .. 8 -> Nibble]
         /\ n >= 0 => \A k \in 1 .. 8 : Word(n)[k] = (n \div Weight[k]) % 16
         /\ n < 0  => \A k \in 1 .. 8 : Word(n)[k] = 15 - (((-n - 1) \div Weight[k]) % 16)
PROOF
  <1>1. \A k \in 1 .. 8 : Weight[k] \in Nat \ {0} BY SMT DEF Weight
  <1>2. n \in Int BY IntegerBounds
  <1>3. ASSUME NEW m \in Nat, NEW k \in 1 .. 8 PROVE (m \div Weight[k]) % 16 \in Nibble
    <2> DEFINE u == Weight[k]
    <2>1. u \in Nat \ {0} BY <1>1
    <2> HIDE DEF u
    <2>2. m \div u \in Nat BY <2>1
    <2> DEFINE q == m \div u
    <2> HIDE DEF q
    <2>3. q % 16 \in Nibble BY <2>2 DEF Nibble, q
    <2> QED BY <2>3 DEF u, q
  <1>4. CASE n >= 0
    <2>1. Word(n) = [k \in 1 .. 8 |-> (n \div Weight[k]) % 16] BY <1>4 DEF Word
    <2>2. \A k \in 1 .. 8 : (n \div Weight[k]) % 16 \in Nibble BY <1>2, <1>3, <1>4
    <2>3. Word(n) \in [1 .. 8 -> Nibble] BY <2>1, <2>2
    <2> QED BY <1>1, <1>2, <1>4, <2>1, <2>3
  <1>5. CASE n < 0
    <2> DEFINE m == -n - 1
    <2>1. m \in Nat /\ ~(n >= 0) BY <1>2, <1>5
    <2>2. Word(n) = [k \in 1 .. 8 |-> 15 - ((m \div Weight[k]) % 16)]
      BY <2>1 DEF Word
    <2> HIDE DEF m
    <2>3. \A k \in 1 .. 8 : 15 - ((m \div Weight[k]) % 16) \in Nibble
      <3>1. \A k \in 1 .. 8 : (m \div Weight[k]) % 16 \in Nibble BY <1>3, <2>1
      <3> QED BY <3>1 DEF Nibble
    <2>4. Word(n) \in [1 .. 8 -> Nibble] BY <2>2, <2>3
    <2>5. \A k \in 1 .. 8 : Word(n)[k] = 15 - ((m \div Weight[k]) % 16) BY <2>2
    <2> QED BY <1>1, <2>1, <2>4, <2>5 DEF m
  <1> QED BY <1>2, <1>4, <1>5

\* Only zero has no nibble that is not zero.
LEMMA WordOfZero ==
  ASSUME NEW n \in Integer
  PROVE  (\A k \in 1 .. 8 : Word(n)[k] = 0) <=> n = 0
PROOF
  <1>0. n \in Int /\ INT_MAX \in Int /\ n <= INT_MAX /\ -n - 1 <= INT_MAX BY IntegerBounds
  <1>1. CASE n = 0
    <2>1. ASSUME NEW k \in 1 .. 8 PROVE Word(n)[k] = 0
      <3> DEFINE u == Weight[k]
      <3>1. u \in Nat \ {0} /\ Word(n)[k] = (0 \div u) % 16 BY <1>1, WordParts
      <3> HIDE DEF u
      <3>2. 0 \div u = 0 BY <3>1
      <3> QED BY <3>1, <3>2
    <2> QED BY <1>1, <2>1
  <1>2. CASE n < 0
    <2> DEFINE m == -n - 1
    <2>1. Word(n)[1] = 15 - ((m \div 268435456) % 16)
      <3>1. Weight[1] = 268435456 /\ 1 \in 1 .. 8 BY SMT DEF Weight
      <3> QED BY <1>2, <3>1, SMT, WordParts
    <2>2. m \in Nat /\ m <= INT_MAX BY SMT, <1>0, <1>2
    <2> HIDE DEF m
    <2>3. (m \div 268435456) % 16 < 8 /\ (m \div 268435456) % 16 \in Nat
      <3>1. m \div 268435456 \in Nat /\ m \div 268435456 < 8 BY SMT, <2>2 DEF INT_MAX
      <3> QED BY SMT, <3>1
    <2>4. Word(n)[1] # 0 /\ 1 \in 1 .. 8 BY SMT, <2>1, <2>3
    <2> QED BY <1>2, <2>4
  <1>3. CASE n > 0
    <2> SUFFICES ASSUME \A k \in 1 .. 8 : Word(n)[k] = 0 PROVE FALSE BY <1>3
    <2>1. ASSUME NEW k \in 1 .. 8 PROVE (n \div Weight[k]) % 16 = 0
      BY <1>0, <1>3, WordParts
    <2>2. /\ (n \div 268435456) % 16 = 0 /\ (n \div 16777216) % 16 = 0
          /\ (n \div 1048576) % 16 = 0 /\ (n \div 65536) % 16 = 0
          /\ (n \div 4096) % 16 = 0 /\ (n \div 256) % 16 = 0
          /\ (n \div 16) % 16 = 0 /\ (n \div 1) % 16 = 0
      <3>1. 1 \in 1 .. 8 /\ 2 \in 1 .. 8 /\ 3 \in 1 .. 8 /\ 4 \in 1 .. 8
            /\ 5 \in 1 .. 8 /\ 6 \in 1 .. 8 /\ 7 \in 1 .. 8 /\ 8 \in 1 .. 8 OBVIOUS
      <3>2. /\ Weight[1] = 268435456 /\ Weight[2] = 16777216 /\ Weight[3] = 1048576
            /\ Weight[4] = 65536 /\ Weight[5] = 4096 /\ Weight[6] = 256
            /\ Weight[7] = 16 /\ Weight[8] = 1 BY SMT, <3>1 DEF Weight
      <3> QED BY <2>1, <3>1, <3>2, SMT
    <2>3. n < 268435456 BY SMT, <1>0, <1>3, <2>2 DEF INT_MAX
    <2>4. n < 16777216 BY SMT, <1>0, <1>3, <2>2, <2>3
    <2>5. n < 1048576 BY SMT, <1>0, <1>3, <2>2, <2>4
    <2>6. n < 65536 BY SMT, <1>0, <1>3, <2>2, <2>5
    <2>7. n < 4096 BY SMT, <1>0, <1>3, <2>2, <2>6
    <2>8. n < 256 BY SMT, <1>0, <1>3, <2>2, <2>7
    <2>9. n < 16 BY SMT, <1>0, <1>3, <2>2, <2>8
    <2> QED BY SMT, <1>0, <1>3, <2>2, <2>9
  <1> QED BY <1>0, <1>1, <1>2, <1>3, SMT

\* z nibbles of w are zero and the next one is not.
Leads(w, z) == z \in 0 .. 7 /\ w[z + 1] # 0 /\ \A j \in 1 .. z : w[j] = 0

\* The loop of hex2str leaves off the nibbles that lead.
LEMMA HexLoopRule ==
  ASSUME NEW w \in [1 .. 8 -> Nibble], NEW z, Leads(w, z)
  PROVE  HexLoop(w) = [i \in 1 .. 8 - z |-> w[9 - i]]
PROOF
  <1> DEFINE Rest(k) == IF k >= 8 - z THEN <<>> ELSE [i \in 1 .. 8 - z - k |-> w[9 - k - i]]
             Zeros(k) == \A j \in 1 .. 8 - k : w[j] = 0
             Body(f) == [k \in 0 .. 8 |-> IF Zeros(k) THEN <<>>
                                          ELSE <<w[8 - k]>> \o f[k + 1]]
             g == [k \in 0 .. 8 |-> Rest(k)]
  <1>1. z \in 0 .. 7 /\ w[z + 1] # 0 /\ (\A j \in 1 .. z : w[j] = 0) BY DEF Leads
  <1>2. ASSUME NEW k \in 0 .. 8 PROVE Zeros(k) <=> k >= 8 - z
    <2>1. CASE k >= 8 - z
      <3>1. \A j \in 1 .. 8 - k : j \in 1 .. z BY <1>1, <2>1
      <3> QED BY <1>1, <2>1, <3>1
    <2>2. CASE k < 8 - z
      <3>1. z + 1 \in 1 .. 8 - k BY <1>1, <2>2
      <3> QED BY <1>1, <2>2, <3>1
    <2> QED BY <1>1, <2>1, <2>2
  <1>3. ASSUME NEW k \in 0 .. 8, k < 8 - z
        PROVE  Rest(k) = <<w[8 - k]>> \o Rest(k + 1)
    <2> DEFINE n == 8 - z - k
               s == [i \in 1 .. n |-> w[9 - k - i]]
               t == [i \in 1 .. n - 1 |-> w[9 - (k + 1) - i]]
    <2>1. n \in Nat /\ n > 0 /\ n <= 8 - k /\ k <= 7 BY <1>1, <1>3
    <2>2. \A i \in 1 .. n : 9 - k - i \in 1 .. 8 BY <2>1
    <2>3. \A i \in 1 .. n - 1 : 9 - (k + 1) - i \in 1 .. 8 BY <2>1
    <2>4. s \in Seq(Nibble) /\ Len(s) = n
      <3>1. s \in [1 .. n -> Nibble] BY <2>2
      <3> HIDE DEF n
      <3> QED BY <2>1, <3>1
    <2>5. t \in Seq(Nibble) /\ Len(t) = n - 1
      <3>1. t \in [1 .. n - 1 -> Nibble] /\ n - 1 \in Nat BY <2>1, <2>3
      <3> HIDE DEF n, t
      <3> QED BY <3>1
    <2>6. Rest(k + 1) = t
      <3>1. CASE k + 1 >= 8 - z
        <4>1. n = 1 BY <1>1, <1>3, <3>1
        <4>2. Rest(k + 1) = <<>> BY <3>1
        <4> HIDE DEF t, n
        <4>3. t = <<>> BY <2>5, <4>1
        <4> QED BY <4>2, <4>3
      <3>2. CASE ~(k + 1 >= 8 - z)
        <4>1. 8 - z - (k + 1) = n - 1 BY <1>1
        <4> QED BY <3>2, <4>1
      <3> QED BY <3>1, <3>2
    <2>7. w[8 - k] \in Nibble /\ 8 - k = 9 - k - 1
      <3>1. 8 - k \in 1 .. 8 /\ 8 - k = 9 - k - 1 BY <2>1
      <3> QED BY <3>1
    <2>8. Rest(k) = s BY <1>1, <1>3
    <2> DEFINE u == <<w[8 - k]>> \o t
    <2>9. u \in Seq(Nibble) /\ Len(u) = n
      <3>1. <<w[8 - k]>> \in Seq(Nibble) /\ Len(<<w[8 - k]>>) = 1 BY <2>7
      <3> HIDE DEF t, n
      <3> QED BY <2>1, <2>5, <3>1
    <2>10. ASSUME NEW i \in 1 .. n PROVE s[i] = u[i]
      <3>1. CASE i = 1
        <4>1. s[1] = w[8 - k] BY <2>1, <2>7
        <4> HIDE DEF t, s, n
        <4>2. u[1] = w[8 - k] BY <2>5
        <4> QED BY <3>1, <4>1, <4>2
      <3>2. CASE i > 1
        <4>1. i - 1 \in 1 .. n - 1 /\ i \in 1 .. n BY <2>1, <3>2
        <4>2. t[i - 1] = w[9 - (k + 1) - (i - 1)] BY <4>1
        <4>3. 9 - (k + 1) - (i - 1) = 9 - k - i BY <2>1, <4>1
        <4>4. s[i] = t[i - 1] BY <4>1, <4>2, <4>3
        <4>5. u[i] = t[i - 1]
          <5> HIDE DEF t, s, n
          <5> QED BY <2>1, <2>5, <4>1
        <4> QED BY <4>4, <4>5
      <3> QED BY <2>1, <3>1, <3>2
    <2> HIDE DEF s, t, u, n
    <2>11. s = u BY <2>1, <2>4, <2>9, <2>10, SeqEqual
    <2> HIDE DEF Rest
    <2> QED BY <2>6, <2>8, <2>11 DEF u
  <1>4. ASSUME NEW k \in 0 .. 8, k >= 8 - z PROVE Rest(k) = <<>> BY <1>4
  <1>5. g = Body(g)
    <2> HIDE DEF Rest, Zeros
    <2>1. ASSUME NEW k \in 0 .. 8
          PROVE  Rest(k) = IF Zeros(k) THEN <<>> ELSE <<w[8 - k]>> \o g[k + 1]
      <3>1. CASE k >= 8 - z BY <1>2, <1>4, <3>1
      <3>2. CASE k < 8 - z
        <4>1. k + 1 \in 0 .. 8 /\ ~(k >= 8 - z) BY <1>1, <3>2
        <4>2. g[k + 1] = Rest(k + 1) BY <4>1
        <4> QED BY <1>2, <1>3, <3>2, <4>1, <4>2
      <3> QED BY <1>1, <3>1, <3>2
    <2> QED BY <2>1
  <1> DEFINE D == CHOOSE f : f = Body(f)
  <1>6. HexLoop(w) = D[0] BY DEF HexLoop
  <1>7. D = Body(D)
    <2> HIDE DEF Body, g
    <2> QED BY <1>5
  <1> HIDE DEF D, g
  <1>8. ASSUME NEW k \in 0 .. 8
        PROVE  D[k] = IF k >= 8 - z THEN <<>> ELSE <<w[8 - k]>> \o D[k + 1]
    <2> HIDE DEF Rest, Zeros
    <2>1. D[k] = IF Zeros(k) THEN <<>> ELSE <<w[8 - k]>> \o D[k + 1] BY <1>7
    <2> QED BY <1>2, <2>1
  <1> HIDE DEF Body, Zeros, Rest
  <1> DEFINE T == {m \in Nat : m <= 8 => D[8 - m] = Rest(8 - m)}
  <1>9. 0 \in T
    <2>1. D[8] = <<>> /\ Rest(8) = <<>> BY <1>1, <1>4, <1>8
    <2> QED BY <2>1
  <1>10. ASSUME NEW m \in T PROVE m + 1 \in T
    <2>1. m \in Nat OBVIOUS
    <2>2. ASSUME m + 1 <= 8, NEW k, k = 8 - (m + 1) PROVE D[k] = Rest(k)
      <3>1. k \in 0 .. 8 /\ k + 1 = 8 - m BY <2>1, <2>2
      <3>2. D[k + 1] = Rest(k + 1) BY <2>1, <2>2, <3>1
      <3>3. CASE k >= 8 - z BY <1>4, <1>8, <3>1, <3>3
      <3>4. CASE k < 8 - z
        <4>1. ~(k >= 8 - z) BY <1>1, <3>1, <3>4
        <4> QED BY <1>3, <1>8, <3>1, <3>2, <3>4, <4>1
      <3> QED BY <1>1, <3>1, <3>3, <3>4
    <2>3. m + 1 <= 8 => D[8 - (m + 1)] = Rest(8 - (m + 1)) BY <2>2
    <2>4. m + 1 \in Nat BY <2>1
    <2> QED BY <2>3, <2>4
  <1>11. T \in SUBSET Nat OBVIOUS
  <1>12. 8 \in T
    <2> HIDE DEF T
    <2> QED BY <1>9, <1>10, <1>11, NatSetInduction
  <1>13. D[0] = Rest(0) BY <1>12
  <1>14. Rest(0) = [i \in 1 .. 8 - z |-> w[9 - i]]
    <2>1. ~(0 >= 8 - z) /\ 8 - z - 0 = 8 - z BY <1>1
    <2>2. Rest(0) = [i \in 1 .. 8 - z |-> w[9 - 0 - i]] BY <2>1 DEF Rest
    <2>3. \A i \in 1 .. 8 - z : 9 - 0 - i = 9 - i BY <1>1
    <2> QED BY <2>2, <2>3
  <1> QED BY <1>6, <1>13, <1>14

\* A word that is not 0 has a highest nibble.
LEMMA LeadsExists ==
  ASSUME NEW w \in [1 .. 8 -> Nibble], \E k \in 1 .. 8 : w[k] # 0
  PROVE  \E z : Leads(w, z)
PROOF
  <1> SUFFICES ASSUME \A z : ~Leads(w, z) PROVE FALSE OBVIOUS
  <1> DEFINE T == {n \in Nat : n <= 8 => \A j \in 1 .. n : w[j] = 0}
  <1>1. 0 \in T OBVIOUS
  <1>2. ASSUME NEW n \in T PROVE n + 1 \in T
    <2>1. n \in Nat OBVIOUS
    <2>2. ASSUME n + 1 <= 8 PROVE \A j \in 1 .. n + 1 : w[j] = 0
      <3>1. n \in 0 .. 7 /\ \A j \in 1 .. n : w[j] = 0 BY <2>1, <2>2
      <3>2. w[n + 1] = 0 BY <3>1 DEF Leads
      <3>3. \A j \in 1 .. n + 1 : j \in 1 .. n \/ j = n + 1 BY <2>1
      <3> QED BY <3>1, <3>2, <3>3
    <2> QED BY <2>1, <2>2
  <1>3. T \in SUBSET Nat OBVIOUS
  <1>4. 8 \in T
    <2> HIDE DEF T
    <2> QED BY <1>1, <1>2, <1>3, NatSetInduction
  <1> QED BY <1>4

\* The string t is 0x and the nibbles of w without c zeros in front.
Symbol == 0 .. Ex
HexShows(t, w, c) ==
  /\ c \in 0 .. 6
  /\ t \in Seq(Symbol) /\ Len(t) = 10 - c /\ t[1] = 0 /\ t[2] = Ex
  /\ \A i \in 1 .. 8 - c : t[i + 2] = w[c + i]
  /\ \A j \in 1 .. c : w[j] = 0
  /\ c < 6 => w[c + 1] # 0

\* The symbols of both conversions.
LEMMA Symbols == Ex \in Symbol /\ Nibble \subseteq Symbol /\ 0 \in Nibble /\ Digit \subseteq Symbol
PROOF
  BY DEF Symbol, Ex, Nibble, Digit

\* A string backwards.
LEMMA ReverseParts ==
  ASSUME NEW S, NEW s \in Seq(S)
  PROVE  /\ Reverse(s) \in Seq(S) /\ Len(Reverse(s)) = Len(s)
         /\ \A i \in 1 .. Len(s) : Reverse(s)[i] = s[Len(s) - i + 1]
PROOF
  <1> DEFINE n == Len(s)  r == [i \in 1 .. n |-> s[n - i + 1]]
  <1>1. n \in Nat /\ s \in [1 .. n -> S] OBVIOUS
  <1>2. Reverse(s) = r BY DEF Reverse
  <1> HIDE DEF n
  <1>3. \A i \in 1 .. n : n - i + 1 \in 1 .. n BY <1>1
  <1>4. r \in [1 .. n -> S] BY <1>1, <1>3
  <1>5. \A i \in 1 .. n : r[i] = s[n - i + 1] OBVIOUS
  <1> HIDE DEF r
  <1>6. r \in Seq(S) /\ Len(r) = n BY <1>1, <1>4, SequenceOf
  <1> QED BY <1>2, <1>5, <1>6 DEF n

\* The end of hex2str.
LEMMA HexReverse ==
  ASSUME NEW w \in [1 .. 8 -> Nibble], NEW c \in 0 .. 6,
         NEW p \in Seq(Nibble), Len(p) = 8 - c, \A i \in 1 .. 8 - c : p[i] = w[9 - i],
         \A j \in 1 .. c : w[j] = 0, c < 6 => w[c + 1] # 0
  PROVE  HexShows(Reverse(p \o <<Ex, 0>>), w, c)
PROOF
  <1> DEFINE e == <<Ex, 0>>  q == p \o e  t == Reverse(q)  n == 8 - c
  <1>1. n \in Nat /\ n <= 8 /\ n >= 2 /\ n + 2 = 10 - c OBVIOUS
  <1>2. p \in Seq(Symbol) /\ Len(p) = n BY Symbols
  <1>3. e \in Seq(Symbol) /\ Len(e) = 2 /\ e[1] = Ex /\ e[2] = 0
    <2>1. Ex \in Symbol /\ 0 \in Symbol BY Symbols
    <2> QED BY <2>1
  <1> HIDE DEF n, e
  <1>4. /\ q \in Seq(Symbol) /\ Len(q) = n + 2
        /\ \A i \in 1 .. n + 2 : q[i] = IF i <= n THEN p[i] ELSE e[i - n]
    <2>1. /\ q \in Seq(Symbol) /\ Len(q) = Len(p) + Len(e)
          /\ \A i \in 1 .. Len(p) + Len(e) : q[i] = IF i <= Len(p) THEN p[i] ELSE e[i - Len(p)]
      BY <1>2, <1>3, ConcatProperties
    <2> HIDE DEF q
    <2> QED BY <1>2, <1>3, <2>1
  <1> HIDE DEF q
  <1>5. t \in Seq(Symbol) /\ Len(t) = n + 2 /\ \A i \in 1 .. n + 2 : t[i] = q[n + 2 - i + 1]
    <2>1. /\ t \in Seq(Symbol) /\ Len(t) = Len(q)
          /\ \A i \in 1 .. Len(q) : t[i] = q[Len(q) - i + 1]
      BY <1>4, ReverseParts
    <2>2. Len(q) = n + 2 BY <1>4
    <2> HIDE DEF t
    <2>3. t \in Seq(Symbol) /\ Len(t) = n + 2 BY <2>1, <2>2
    <2>4. ASSUME NEW i \in 1 .. n + 2 PROVE t[i] = q[n + 2 - i + 1]
      <3>1. i \in 1 .. Len(q) BY <2>2
      <3>2. t[i] = q[Len(q) - i + 1] BY <2>1, <3>1
      <3> QED BY <1>1, <2>2, <3>2
    <2> QED BY <2>3, <2>4
  <1> HIDE DEF t
  <1>6. t[1] = 0 /\ t[2] = Ex
    <2>1. /\ 1 \in 1 .. n + 2 /\ 2 \in 1 .. n + 2
          /\ n + 2 - 1 + 1 = n + 2 /\ n + 2 - 2 + 1 = n + 1
      BY <1>1
    <2>2. q[n + 2] = e[2] /\ q[n + 1] = e[1]
      <3>1. n + 2 \in 1 .. n + 2 /\ ~(n + 2 <= n) /\ (n + 2) - n = 2 BY <1>1
      <3>2. n + 1 \in 1 .. n + 2 /\ ~(n + 1 <= n) /\ (n + 1) - n = 1 BY <1>1
      <3>3. q[n + 2] = e[2] BY <1>4, <3>1
      <3>4. q[n + 1] = e[1] BY <1>4, <3>2
      <3> QED BY <3>3, <3>4
    <2> QED BY <1>3, <1>5, <2>1, <2>2
  <1>7. ASSUME NEW i \in 1 .. n PROVE t[i + 2] = w[c + i]
    <2> DEFINE k == n + 1 - i
    <2>1. i + 2 \in 1 .. n + 2 /\ n + 2 - (i + 2) + 1 = k /\ k \in 1 .. n /\ k \in 1 .. n + 2
          /\ k <= n /\ 9 - k = c + i
      BY <1>1 DEF n
    <2> HIDE DEF k
    <2>2. t[i + 2] = q[k] BY <1>5, <2>1
    <2>3. q[k] = p[k] BY <1>4, <2>1
    <2>4. p[k] = w[9 - k] BY <2>1 DEF n
    <2> QED BY <2>1, <2>2, <2>3, <2>4
  <1>8. Len(t) = 10 - c /\ \A i \in 1 .. 8 - c : t[i + 2] = w[c + i]
    BY <1>1, <1>5, <1>7 DEF n
  <1> QED BY <1>5, <1>6, <1>8 DEF HexShows, t, q, e

\* What is appended comes last.
LEMMA AppendLast ==
  ASSUME NEW S, NEW s \in Seq(S), NEW e \in S
  PROVE  Append(s, e)[Len(s) + 1] = e
PROOF
  OBVIOUS

\* One element, and one more.
LEMMA AppendOne ==
  ASSUME NEW S, NEW s \in Seq(S), Len(s) = 1, NEW e \in S
  PROVE  /\ Append(s, e) \in Seq(S) /\ Len(Append(s, e)) = 2
         /\ Append(s, e)[1] = s[1] /\ Append(s, e)[2] = e
PROOF
  <1>1. Append(s, e) \in Seq(S) BY AppendProperties
  <1>2. Len(Append(s, e)) = 2 OBVIOUS
  <1>3. Append(s, e)[1] = s[1] OBVIOUS
  <1>4. Append(s, e)[2] = e
    <2>1. Append(s, e)[Len(s) + 1] = e BY AppendLast, Zenon
    <2>2. Len(s) + 1 = 2 OBVIOUS
    <2> QED BY <2>1, <2>2, Zenon
  <1> QED BY <1>1, <1>2, <1>3, <1>4

\* What hex2str makes of an int.
LEMMA HexString ==
  ASSUME NEW n \in Integer
  PROVE  \E c : HexShows(hex2str(n), Word(n), c)
PROOF
  <1> DEFINE w == Word(n)
             d == IF n = 0 THEN <<0>> ELSE HexLoop(w)
  <1>1. w \in [1 .. 8 -> Nibble] BY WordParts
  <1>2. hex2str(n) = Reverse(Padded(d) \o <<Ex, 0>>) BY DEF hex2str
  <1>3. CASE n = 0
    <2> DEFINE p == Append(<<0>>, 0)
    <2>1. \A k \in 1 .. 8 : w[k] = 0 BY <1>3, WordOfZero
    <2>2. d = <<0>> BY <1>3
    <2>3. Padded(d) = p
      <3> HIDE DEF d
      <3>1. Len(d) = 1 BY <2>2
      <3> QED BY <2>2, <3>1 DEF Padded
    <2>4. p \in Seq(Nibble) /\ Len(p) = 2 /\ p[1] = 0 /\ p[2] = 0
      <3>1. 0 \in Nibble BY Symbols
      <3>2. <<0>> \in Seq(Nibble) /\ Len(<<0>>) = 1 /\ <<0>>[1] = 0 BY <3>1
      <3> QED BY <3>1, <3>2, AppendOne
    <2> HIDE DEF w, d, p
    <2>5. /\ 6 \in 0 .. 6 /\ ~(6 < 6) /\ Len(p) = 8 - 6
          /\ \A j \in 1 .. 6 : w[j] = 0
          /\ \A i \in 1 .. 8 - 6 : p[i] = w[9 - i]
      <3>1. \A i \in 1 .. 8 - 6 : (i = 1 \/ i = 2) /\ 9 - i \in 1 .. 8 OBVIOUS
      <3>2. \A i \in 1 .. 8 - 6 : p[i] = w[9 - i] BY <2>1, <2>4, <3>1
      <3> QED BY <2>1, <2>4, <3>2
    <2>6. HexShows(Reverse(p \o <<Ex, 0>>), w, 6) BY <1>1, <2>4, <2>5, HexReverse
    <2> QED BY <1>2, <2>3, <2>6 DEF w
  <1>4. CASE n # 0
    <2>1. \E k \in 1 .. 8 : w[k] # 0 BY <1>4, WordOfZero
    <2>2. PICK z : Leads(w, z)
      <3> HIDE DEF w
      <3> QED BY <1>1, <2>1, LeadsExists
    <2>3. d = HexLoop(w) BY <1>4
    <2> HIDE DEF d, w
    <2> DEFINE r == [i \in 1 .. 8 - z |-> w[9 - i]]
    <2>4. d = r BY <1>1, <2>2, <2>3, HexLoopRule
    <2>5. z \in 0 .. 7 /\ w[z + 1] # 0 /\ (\A j \in 1 .. z : w[j] = 0) BY <2>2 DEF Leads
    <2>6. d \in Seq(Nibble) /\ Len(d) = 8 - z /\ \A i \in 1 .. 8 - z : d[i] = w[9 - i]
      <3>1. \A i \in 1 .. 8 - z : 9 - i \in 1 .. 8 BY <2>5
      <3>2. r \in [1 .. 8 - z -> Nibble] /\ 8 - z \in Nat BY <1>1, <2>5, <3>1
      <3>3. \A i \in 1 .. 8 - z : r[i] = w[9 - i] OBVIOUS
      <3> HIDE DEF r
      <3>4. r \in Seq(Nibble) /\ Len(r) = 8 - z BY <3>2, SequenceOf
      <3> QED BY <2>4, <3>3, <3>4
    <2> HIDE DEF r
    <2>7. CASE z \in 0 .. 6
      <3>1. Padded(d) = d BY <2>6, <2>7 DEF Padded
      <3>2. HexShows(Reverse(d \o <<Ex, 0>>), w, z)
        BY <1>1, <2>5, <2>6, <2>7, HexReverse
      <3> QED BY <1>2, <3>1, <3>2 DEF w
    <2>8. CASE z = 7
      <3> DEFINE p == Append(d, 0)
      <3>1. Padded(d) = p /\ Len(d) = 1 BY <2>6, <2>8 DEF Padded
      <3>2. w[7] = 0 /\ d[1] = w[8]
        <4>1. 7 \in 1 .. z /\ 1 \in 1 .. 8 - z BY <2>8
        <4> QED BY <2>5, <2>6, <4>1
      <3>3. p \in Seq(Nibble) /\ Len(p) = 2 /\ p[1] = w[8] /\ p[2] = w[7]
        <4>1. 0 \in Nibble BY Symbols
        <4> QED BY <2>6, <3>1, <3>2, <4>1, AppendOne
      <3> HIDE DEF p
      <3>4. /\ 6 \in 0 .. 6 /\ ~(6 < 6) /\ Len(p) = 8 - 6
            /\ \A j \in 1 .. 6 : w[j] = 0
            /\ \A i \in 1 .. 8 - 6 : p[i] = w[9 - i]
        <4>1. \A j \in 1 .. 6 : j \in 1 .. z BY <2>8
        <4>2. \A i \in 1 .. 8 - 6 : (i = 1 /\ 9 - i = 8) \/ (i = 2 /\ 9 - i = 7) OBVIOUS
        <4>3. \A i \in 1 .. 8 - 6 : p[i] = w[9 - i] BY <3>3, <4>2
        <4> QED BY <2>5, <3>3, <4>1, <4>3
      <3>5. HexShows(Reverse(p \o <<Ex, 0>>), w, 6) BY <1>1, <3>3, <3>4, HexReverse
      <3> QED BY <1>2, <3>1, <3>5 DEF w
    <2>9. z \in 0 .. 6 \/ z = 7 BY <2>5
    <2> QED BY <2>7, <2>8, <2>9
  <1> QED BY <1>3, <1>4

\* Such a string is what NumbersRight asks for.
HexGood(t, n) ==
  LET digits == SubSeq(t, 3, Len(t)) IN
    /\ SubSeq(t, 1, 2) = <<0, Ex>>
    /\ Len(digits) >= 2 /\ (Len(digits) > 2 => digits[1] # 0)
    /\ Word(n) = [k \in 1 .. 8 - Len(digits) |-> 0] \o digits

\* What hex2str returns is such a string, of ten symbols at most.
LEMMA HexRight ==
  ASSUME NEW n \in Integer
  PROVE  /\ hex2str(n) \in Seq(Symbol) /\ HexGood(hex2str(n), n)
         /\ Len(hex2str(n)) <= 10
PROOF
  <1> DEFINE t == hex2str(n)  w == Word(n)
             b == SubSeq(t, 1, 2)  digits == SubSeq(t, 3, Len(t))
  <1>1. PICK c : HexShows(t, w, c) BY HexString
  <1>2. w \in [1 .. 8 -> Nibble] BY WordParts
  <1> HIDE DEF w, t
  <1>3. /\ c \in 0 .. 6 /\ t \in Seq(Symbol) /\ Len(t) = 10 - c /\ t[1] = 0 /\ t[2] = Ex
        /\ \A i \in 1 .. 8 - c : t[i + 2] = w[c + i]
        /\ \A j \in 1 .. c : w[j] = 0
        /\ c < 6 => w[c + 1] # 0
    BY <1>1 DEF HexShows
  <1>4. \A i \in 1 .. Len(t) : t[i] \in Symbol BY <1>3
  <1>5. b = <<0, Ex>>
    <2>1. \A i \in 1 .. 2 : t[i] \in Symbol BY <1>3, <1>4
    <2>2. b \in Seq(Symbol) /\ Len(b) = 2 /\ \A i \in 1 .. 2 : b[i] = t[i]
      <3>1. /\ b \in Seq(Symbol) /\ Len(b) = IF 1 <= 2 THEN 2 - 1 + 1 ELSE 0
            /\ \A i \in 1 .. 2 - 1 + 1 : b[i] = t[1 + i - 1]
        BY <2>1, SubSeqProperties
      <3>2. \A i \in 1 .. 2 : 1 + i - 1 = i OBVIOUS
      <3> HIDE DEF b
      <3> QED BY <3>1, <3>2
    <2> HIDE DEF b
    <2>3. b[1] = 0 /\ b[2] = Ex BY <1>3, <2>2
    <2> QED BY <2>2, <2>3
  <1>6. /\ digits \in Seq(Symbol) /\ Len(digits) = 8 - c
        /\ \A i \in 1 .. 8 - c : digits[i] = w[c + i]
    <2> DEFINE l == Len(t)
    <2>1. l \in Int /\ l >= 3 /\ l = 10 - c BY <1>3
    <2>2. \A i \in 3 .. l : t[i] \in Symbol BY <1>4
    <2>3. /\ digits \in Seq(Symbol) /\ Len(digits) = IF 3 <= l THEN l - 3 + 1 ELSE 0
          /\ \A i \in 1 .. l - 3 + 1 : digits[i] = t[3 + i - 1]
      <3> HIDE DEF l
      <3>1. LET u == SubSeq(t, 3, l) IN
              /\ u \in Seq(Symbol) /\ Len(u) = IF 3 <= l THEN l - 3 + 1 ELSE 0
              /\ \A i \in 1 .. l - 3 + 1 : u[i] = t[3 + i - 1]
        BY <2>1, <2>2, SubSeqProperties
      <3> QED BY <3>1 DEF l
    <2> HIDE DEF l, digits
    <2>4. Len(digits) = 8 - c /\ l - 3 + 1 = 8 - c BY <1>3, <2>1, <2>3
    <2>5. ASSUME NEW i \in 1 .. 8 - c PROVE digits[i] = w[c + i]
      <3>1. digits[i] = t[3 + i - 1] /\ 3 + i - 1 = i + 2 BY <1>3, <2>3, <2>4
      <3> QED BY <1>3, <3>1
    <2> QED BY <2>3, <2>4, <2>5
  <1> HIDE DEF b, digits
  <1>7. Len(digits) >= 2 /\ (Len(digits) > 2 => digits[1] # 0)
    <2>1. Len(digits) > 2 => c < 6 /\ 1 \in 1 .. 8 - c BY <1>3, <1>6
    <2> QED BY <1>3, <1>6, <2>1
  <1>8. w = [k \in 1 .. 8 - Len(digits) |-> 0] \o digits
    <2> DEFINE o == [k \in 1 .. c |-> 0]  u == o \o digits
    <2>1. 8 - Len(digits) = c /\ c \in Nat BY <1>3, <1>6
    <2>2. o \in [1 .. c -> Symbol] /\ \A k \in 1 .. c : o[k] = 0 BY Symbols
    <2> HIDE DEF o
    <2>3. o \in Seq(Symbol) /\ Len(o) = c BY <2>1, <2>2, SequenceOf
    <2>4. /\ u \in Seq(Symbol) /\ Len(u) = c + (8 - c)
          /\ \A k \in 1 .. c + (8 - c) : u[k] = IF k <= c THEN o[k] ELSE digits[k - c]
      BY <1>6, <2>3, ConcatProperties
    <2>5. c + (8 - c) = 8 BY <2>1
    <2>6. ASSUME NEW k \in 1 .. 8 PROVE u[k] = w[k]
      <3>1. u[k] = IF k <= c THEN o[k] ELSE digits[k - c] BY <2>4, <2>5
      <3> HIDE DEF u
      <3>2. CASE k <= c
        <4>1. k \in 1 .. c BY <3>2, <2>1
        <4> QED BY <1>3, <2>2, <3>1, <3>2, <4>1
      <3>3. CASE ~(k <= c)
        <4>1. k - c \in 1 .. 8 - c /\ c + (k - c) = k BY <1>3, <3>3
        <4> QED BY <1>6, <3>1, <3>3, <4>1
      <3> QED BY <3>2, <3>3
    <2>7. w \in [1 .. 8 -> Symbol] BY <1>2, Symbols
    <2>8. w \in Seq(Symbol) /\ Len(w) = 8 BY <2>7, SequenceOf
    <2> HIDE DEF u
    <2>9. u = w BY <2>4, <2>5, <2>6, <2>8, SeqEqual
    <2> QED BY <2>1, <2>9 DEF u, o
  <1> QED BY <1>3, <1>5, <1>7, <1>8 DEF HexGood, w, b, digits, t

-----------------------------------------------------------------------------
(* Listings.                                                               *)

\* What a listing consists of, and what Convert may put at its front.
Numbers  == ({"dec"} \X Nat) \cup ({"hex"} \X Integer)
Drawing  == ({"text"} \X Nat) \cup Numbers
Plain    == {<<"newline">>, <<"clearScreen">>, <<"idt_install">>, <<"acpi_init">>,
             <<"pci_scan">>, <<"ui_start">>, <<"halt">>}
Squares  == {<<"draw_square", [x |-> 0, y |-> 0, w |-> 500, h |-> 30]>>}
Instr    == Drawing \cup Plain \cup Squares
Buffered == {"buffer"} \X Numbers

\* What an instruction is, by its name.
LEMMA Kinds ==
  ASSUME NEW o \in Instr \cup Buffered
  PROVE  /\ o[1] = "text" => o[2] \in Nat /\ o \in Instr /\ o = <<"text", o[2]>>
         /\ o[1] = "dec" => o[2] \in Nat /\ o \in Numbers
         /\ o[1] = "hex" => o[2] \in Integer /\ o \in Numbers
         /\ o[1] = "buffer" => o[2] \in Numbers
         /\ o[1] = "draw_square" => o \in Squares
         /\ o[1] # "buffer" => o \in Instr
         /\ o[1] \in {"text", "dec", "hex", "buffer", "draw_square"} \/ o \in Plain
PROOF
  BY DEF Instr, Buffered, Numbers, Drawing, Plain, Squares

\* A number to be converted.
LEMMA NumberKinds ==
  ASSUME NEW p \in Numbers
  PROVE  /\ p \in Instr /\ p[1] \in {"dec", "hex"}
         /\ p[1] = "dec" => p[2] \in Nat
         /\ p[1] = "hex" => p[2] \in Integer
PROOF
  BY DEF Instr, Drawing, Numbers

\* The functions that make instructions.
LEMMA Made ==
  /\ \A n \in Nat : Text(n) \in Instr
  /\ \A n \in Nat : Dec(n) \in Instr
  /\ \A n \in Integer : Hex(n) \in Instr
  /\ NL \in Instr /\ Clear \in Instr
  /\ <<"idt_install">> \in Instr /\ <<"acpi_init">> \in Instr /\ <<"pci_scan">> \in Instr
  /\ <<"ui_start">> \in Instr /\ <<"halt">> \in Instr
  /\ <<"draw_square", [x |-> 0, y |-> 0, w |-> 500, h |-> 30]>> \in Instr
PROOF
  BY DEF Text, Dec, Hex, NL, Clear, Instr, Drawing, Numbers, Plain, Squares

\* What the first instructions of a listing draw, one by one.
LEMMA DrawnRule ==
  ASSUME NEW s \in Seq(Instr)
  PROVE  /\ DrawnBy(s) \in [0 .. Len(s) -> Seq(Instr)]
         /\ DrawnBy(s)[0] = <<>>
         /\ \A n \in 1 .. Len(s) :
              DrawnBy(s)[n] = IF s[n][1] \in {"text", "dec", "hex"}
                              THEN Append(DrawnBy(s)[n - 1], s[n]) ELSE DrawnBy(s)[n - 1]
PROOF
  <1> DEFINE L == Len(s)
             Next1(a, n) == IF s[n][1] \in {"text", "dec", "hex"} THEN Append(a, s[n]) ELSE a
             Body(f) == [n \in 0 .. L |->
                           IF n = 0 THEN <<>>
                           ELSE IF s[n][1] \in {"text", "dec", "hex"}
                                THEN Append(f[n - 1], s[n]) ELSE f[n - 1]]
             g == [p \in Seq(Instr) \X (1 .. L) |-> Next1(p[1], p[2])]
  <1>1. L \in Nat /\ \A n \in 1 .. L : s[n] \in Instr OBVIOUS
  <1>2. ASSUME NEW a \in Seq(Instr), NEW n \in 1 .. L PROVE Next1(a, n) \in Seq(Instr)
    <2>1. Append(a, s[n]) \in Seq(Instr) BY <1>1, AppendProperties
    <2> QED BY <2>1
  <1> HIDE DEF L, Next1
  <1>3. g \in Steps(Seq(Instr), L) BY <1>2 DEF Steps
  <1>4. \A a \in Seq(Instr), n \in 1 .. L : g[<<a, n>>] = Next1(a, n) OBVIOUS
  <1>5. <<>> \in Seq(Instr) OBVIOUS
  <1> HIDE DEF g, Body
  <1>6. PICK f : Follows(f, Seq(Instr), L, <<>>, g) BY <1>1, <1>3, <1>5, Recursion
  <1>7. /\ f \in [0 .. L -> Seq(Instr)] /\ f[0] = <<>>
        /\ \A n \in 1 .. L : f[n] = g[<<f[n - 1], n>>]
    BY <1>6 DEF Follows
  <1>8. ASSUME NEW n \in 1 .. L PROVE f[n] = Next1(f[n - 1], n)
    <2>1. f[n - 1] \in Seq(Instr)
      <3>1. n - 1 \in 0 .. L BY <1>1
      <3> QED BY <1>7, <3>1
    <2> QED BY <1>4, <1>7, <2>1
  <1>9. f = Body(f)
    <2>1. ASSUME NEW n \in 0 .. L
          PROVE  f[n] = IF n = 0 THEN <<>>
                        ELSE IF s[n][1] \in {"text", "dec", "hex"}
                             THEN Append(f[n - 1], s[n]) ELSE f[n - 1]
      <3>1. CASE n = 0 BY <1>7, <3>1
      <3>2. CASE n # 0
        <4>1. n \in 1 .. L BY <1>1, <3>2
        <4> QED BY <1>8, <3>2, <4>1 DEF Next1
      <3> QED BY <3>1, <3>2
    <2>2. f = [n \in 0 .. L |-> f[n]] BY <1>7
    <2> QED BY <2>1, <2>2 DEF Body
  <1> DEFINE D == DrawnBy(s)
  <1>10. D = CHOOSE h : h = Body(h) BY DEF DrawnBy, L, Body
  <1> HIDE DEF D
  <1>11. D = Body(D) BY <1>9, <1>10
  <1>12. /\ D = [n \in 0 .. L |-> D[n]]
         /\ \A n \in 0 .. L : D[n] = IF n = 0 THEN <<>>
                        ELSE IF s[n][1] \in {"text", "dec", "hex"}
                             THEN Append(D[n - 1], s[n]) ELSE D[n - 1]
    <2> DEFINE E == D
    <2>1. E = Body(D) BY <1>11
    <2> HIDE DEF E
    <2>2. \A n \in 0 .. L : E[n] = IF n = 0 THEN <<>>
                        ELSE IF s[n][1] \in {"text", "dec", "hex"}
                             THEN Append(D[n - 1], s[n]) ELSE D[n - 1]
      BY <2>1 DEF Body
    <2>3. E = [n \in 0 .. L |-> E[n]] BY <2>1 DEF Body
    <2> QED BY <2>2, <2>3 DEF E
  <1>13. D[0] = <<>> BY <1>1, <1>12
  <1>14. ASSUME NEW n \in 1 .. L PROVE D[n] = Next1(D[n - 1], n)
    <2>1. n \in 0 .. L /\ n # 0 BY <1>1
    <2> QED BY <1>12, <2>1 DEF Next1
  <1> DEFINE T == {n \in Nat : n <= L => D[n] \in Seq(Instr)}
  <1>15. 0 \in T BY <1>5, <1>13
  <1>16. ASSUME NEW n \in T PROVE n + 1 \in T
    <2>1. n \in Nat OBVIOUS
    <2>2. ASSUME n + 1 <= L PROVE D[n + 1] \in Seq(Instr)
      <3>1. n + 1 \in 1 .. L /\ (n + 1) - 1 = n /\ D[n] \in Seq(Instr) BY <1>1, <2>1, <2>2
      <3>2. D[n + 1] = Next1(D[n], n + 1) BY <1>14, <3>1
      <3> QED BY <1>2, <3>1, <3>2
    <2> QED BY <2>1, <2>2
  <1>17. T \in SUBSET Nat OBVIOUS
  <1>18. \A n \in Nat : n \in T
    <2> HIDE DEF T
    <2> QED BY <1>15, <1>16, <1>17, NatSetInduction
  <1>19. \A n \in 0 .. L : D[n] \in Seq(Instr) BY <1>1, <1>18
  <1>20. D \in [0 .. L -> Seq(Instr)] BY <1>12, <1>19
  <1> QED BY <1>13, <1>14, <1>20 DEF D, L, Next1

\* The listings.
LEMMA LogTyped ==
  ASSUME NEW s \in Seq(Instr)
  PROVE  /\ log(s, S_INFO) \in Seq(Instr) /\ log(s, S_CRITICAL) \in Seq(Instr)
         /\ log(s, S_PANIC) \in Seq(Instr) /\ log(s, S_NONE) \in Seq(Instr)
PROOF
  <1>1. S_INFO \in Seq(Instr) BY Made DEF S_INFO
  <1>2. S_CRITICAL \in Seq(Instr) BY Made DEF S_CRITICAL
  <1>3. S_PANIC \in Seq(Instr) BY Made DEF S_PANIC
  <1>4. S_NONE \in Seq(Instr) BY DEF S_NONE
  <1> QED BY <1>1, <1>2, <1>3, <1>4, ConcatProperties DEF log

\* What _start has to do.
LEMMA MainTyped == Main \in Seq(Instr)
PROOF
  <1> DEFINE a == log(<<Text(23), NL>>, S_INFO)
             b == log(<<Text(39), NL>>, S_INFO)  c == << <<"idt_install">> >>
             d == log(<<Text(64), NL>>, S_INFO)  e == log(<<Text(17), NL>>, S_INFO)
             f == << <<"acpi_init">> >>          g == << <<"pci_scan">> >>
             h == <<Clear>>                      i == log(<<Text(27), NL>>, S_INFO)
             j == << <<"ui_start">> >>
  <1>1. \A n \in Nat : <<Text(n), NL>> \in Seq(Instr) BY Made
  <1>2. a \in Seq(Instr) /\ b \in Seq(Instr) /\ d \in Seq(Instr) BY <1>1, LogTyped
  <1>3. e \in Seq(Instr) /\ i \in Seq(Instr) BY <1>1, LogTyped
  <1>4. c \in Seq(Instr) /\ f \in Seq(Instr) /\ g \in Seq(Instr) BY Made
  <1>5. h \in Seq(Instr) /\ j \in Seq(Instr) BY Made
  <1>6. Main = ((((a \o b \o c) \o d \o e) \o f) \o g) \o h \o i \o j BY DEF Main, init
  <1> HIDE DEF a, b, c, d, e, f, g, h, i, j
  <1>7. a \o b \o c \in Seq(Instr) BY <1>2, <1>4, ConcatProperties
  <1> QED BY <1>2, <1>3, <1>4, <1>5, <1>6, <1>7, ConcatProperties

\* What the scan logs of a function.
LEMMA FoundTyped ==
  ASSUME NEW d \in Functions
  PROVE  found(d) \in Seq(Instr)
PROOF
  <1>1. /\ d.bus \in Nat /\ d.slot \in Nat /\ d.type \in Nat
        /\ d.id \in 0 .. INT_MAX
    BY FunctionsAssumption
  <1>2. d.id \in Integer
    <2>1. INT_MAX \in Nat BY SMT DEF INT_MAX
    <2> QED BY <1>1, <2>1 DEF Integer
  <1>3. /\ Text(22) \in Instr /\ Dec(d.bus) \in Instr /\ Text(7) \in Instr
        /\ Dec(d.slot) \in Instr /\ Text(12) \in Instr /\ Hex(d.id) \in Instr
        /\ Text(8) \in Instr /\ Text(d.type) \in Instr /\ NL \in Instr
    BY <1>1, <1>2, Made
  <1> DEFINE s == <<Text(22), Dec(d.bus), Text(7), Dec(d.slot), Text(12), Hex(d.id),
                    Text(8), Text(d.type), NL>>
  <1>4. s \in Seq(Instr) BY <1>3
  <1>5. found(d) = log(s, S_INFO) BY DEF found
  <1> HIDE DEF s
  <1> QED BY <1>4, <1>5, LogTyped

-----------------------------------------------------------------------------
(* The report of a panic.                                                  *)

\* The rows of glyphs above the cursor after each instruction of the report, and
\* a number of glyphs that the cursor has not passed in its row.
Rows == <<0, 0, 1, 2, 2, 3, 4, 4, 4, 5, 6, 6, 7, 8, 8, 9, 9, 10, 10, 10, 10,
          11, 11, 11, 11, 12, 12, 12, 12, 13, 13, 13, 13, 14, 14, 14, 14, 15,
          15, 16, 16>>
Cols == <<0, 18, 0, 0, 100, 0, 0, 14, 24, 0, 0, 28, 0, 0, 29, 0, 20, 0, 10, 14,
          24, 0, 10, 14, 24, 0, 10, 14, 24, 0, 10, 14, 24, 0, 10, 14, 24, 0,
          29, 0, 0>>

\* What the report consists of.
LEMMA PanicListing ==
  ASSUME NEW v, NEW data
  PROVE  LET p == panic(v, data) IN
           /\ Len(p) = 41
           /\ p[1] = Clear
           /\ p[2] = Text(18)
           /\ p[3] = NL
           /\ p[4] = NL
           /\ p[5] = Text(100)
           /\ p[6] = NL
           /\ p[7] = NL
           /\ p[8] = Text(14)
           /\ p[9] = Hex(v)
           /\ p[10] = NL
           /\ p[11] = NL
           /\ p[12] = Text(28)
           /\ p[13] = NL
           /\ p[14] = NL
           /\ p[15] = Text(29)
           /\ p[16] = NL
           /\ p[17] = Text(20)
           /\ p[18] = NL
           /\ p[19] = Hex(Address(1))
           /\ p[20] = Text(4)
           /\ p[21] = Hex(data[1])
           /\ p[22] = NL
           /\ p[23] = Hex(Address(2))
           /\ p[24] = Text(4)
           /\ p[25] = Hex(data[2])
           /\ p[26] = NL
           /\ p[27] = Hex(Address(3))
           /\ p[28] = Text(4)
           /\ p[29] = Hex(data[3])
           /\ p[30] = NL
           /\ p[31] = Hex(Address(4))
           /\ p[32] = Text(4)
           /\ p[33] = Hex(data[4])
           /\ p[34] = NL
           /\ p[35] = Hex(Address(5))
           /\ p[36] = Text(4)
           /\ p[37] = Hex(data[5])
           /\ p[38] = NL
           /\ p[39] = Text(29)
           /\ p[40] = NL
           /\ p[41] = <<"halt">>
PROOF
  BY DEF panic, PanicStarts, log, S_PANIC, S_NONE, dump_stack

\* The entries of the tables.
LEMMA Tables ==
  /\ Rows[1] = 0 /\ Cols[1] = 0
  /\ Rows[2] = 0 /\ Cols[2] = 18
  /\ Rows[3] = 1 /\ Cols[3] = 0
  /\ Rows[4] = 2 /\ Cols[4] = 0
  /\ Rows[5] = 2 /\ Cols[5] = 100
  /\ Rows[6] = 3 /\ Cols[6] = 0
  /\ Rows[7] = 4 /\ Cols[7] = 0
  /\ Rows[8] = 4 /\ Cols[8] = 14
  /\ Rows[9] = 4 /\ Cols[9] = 24
  /\ Rows[10] = 5 /\ Cols[10] = 0
  /\ Rows[11] = 6 /\ Cols[11] = 0
  /\ Rows[12] = 6 /\ Cols[12] = 28
  /\ Rows[13] = 7 /\ Cols[13] = 0
  /\ Rows[14] = 8 /\ Cols[14] = 0
  /\ Rows[15] = 8 /\ Cols[15] = 29
  /\ Rows[16] = 9 /\ Cols[16] = 0
  /\ Rows[17] = 9 /\ Cols[17] = 20
  /\ Rows[18] = 10 /\ Cols[18] = 0
  /\ Rows[19] = 10 /\ Cols[19] = 10
  /\ Rows[20] = 10 /\ Cols[20] = 14
  /\ Rows[21] = 10 /\ Cols[21] = 24
  /\ Rows[22] = 11 /\ Cols[22] = 0
  /\ Rows[23] = 11 /\ Cols[23] = 10
  /\ Rows[24] = 11 /\ Cols[24] = 14
  /\ Rows[25] = 11 /\ Cols[25] = 24
  /\ Rows[26] = 12 /\ Cols[26] = 0
  /\ Rows[27] = 12 /\ Cols[27] = 10
  /\ Rows[28] = 12 /\ Cols[28] = 14
  /\ Rows[29] = 12 /\ Cols[29] = 24
  /\ Rows[30] = 13 /\ Cols[30] = 0
  /\ Rows[31] = 13 /\ Cols[31] = 10
  /\ Rows[32] = 13 /\ Cols[32] = 14
  /\ Rows[33] = 13 /\ Cols[33] = 24
  /\ Rows[34] = 14 /\ Cols[34] = 0
  /\ Rows[35] = 14 /\ Cols[35] = 10
  /\ Rows[36] = 14 /\ Cols[36] = 14
  /\ Rows[37] = 14 /\ Cols[37] = 24
  /\ Rows[38] = 15 /\ Cols[38] = 0
  /\ Rows[39] = 15 /\ Cols[39] = 29
  /\ Rows[40] = 16 /\ Cols[40] = 0
  /\ Rows[41] = 16 /\ Cols[41] = 0
PROOF
  BY DEF Rows, Cols

\* The numbers that a report shows are ints.
LEMMA Ints ==
  /\ \A v \in 0 .. 31 : v \in Integer
  /\ \A b \in -128 .. 127 : b \in Integer
  /\ \A i \in 1 .. 5 : Address(i) \in Integer
PROOF
  <1>1. INT_MAX \in Nat /\ INT_MAX >= 128 BY SMT DEF INT_MAX
  <1>2. \A v \in 0 .. 31 : v \in Integer BY <1>1 DEF Integer
  <1>3. \A b \in -128 .. 127 : b \in Integer BY <1>1 DEF Integer
  <1>4. ASSUME NEW i \in 1 .. 5 PROVE Address(i) \in Integer
    <2> DEFINE a == Rsp + i - 1
    <2>1. Rsp \in Int /\ -INT_MAX - 1 <= Rsp /\ Rsp <= INT_MAX BY <1>1, RspAssumption
    <2>2. a \in Int /\ -INT_MAX - 1 <= a /\ a <= INT_MAX + 4 BY <1>1, <2>1
    <2> HIDE DEF a
    <2>3. CASE a <= INT_MAX
      <3>1. Address(i) = a BY <2>3 DEF Address, a
      <3> QED BY <1>1, <2>2, <2>3, <3>1 DEF Integer
    <2>4. CASE ~(a <= INT_MAX)
      <3>1. Address(i) = a - INT_MAX - INT_MAX - 2 BY <2>4 DEF Address, a
      <3>2. -INT_MAX - 1 <= a - INT_MAX - INT_MAX - 2 BY <1>1, <2>2, <2>4
      <3>3. a - INT_MAX - INT_MAX - 2 <= INT_MAX BY <1>1, <2>2
      <3>4. a - INT_MAX - INT_MAX - 2 \in Int BY <1>1, <2>2
      <3> QED BY <1>1, <3>1, <3>2, <3>3, <3>4 DEF Integer
    <2> QED BY <2>3, <2>4
  <1> QED BY <1>2, <1>3, <1>4

Dump == [1 .. 5 -> -128 .. 127]

\* The dump of the stack is a listing.
LEMMA DumpTyped ==
  ASSUME NEW data \in Dump
  PROVE  dump_stack(data) \in Seq(Instr)
PROOF
  <1> DEFINE line == <<Text(29), NL>>  title == <<Text(20), NL>>
             Byte(i) == <<Hex(Address(i)), Text(4), Hex(data[i]), NL>>
  <1>1. line \in Seq(Instr) /\ title \in Seq(Instr) BY Made
  <1>2. ASSUME NEW i \in 1 .. 5 PROVE Byte(i) \in Seq(Instr)
    <2>1. data[i] \in Integer BY Ints DEF Dump
    <2>2. Hex(Address(i)) \in Instr /\ Hex(data[i]) \in Instr BY <2>1, Ints, Made
    <2> QED BY <2>2, Made
  <1>3. dump_stack(data) = (line \o title)
                           \o Byte(1) \o Byte(2) \o Byte(3) \o Byte(4) \o Byte(5) \o line
    BY DEF dump_stack
  <1> HIDE DEF line, title, Byte
  <1>4. /\ Byte(1) \in Seq(Instr) /\ Byte(2) \in Seq(Instr) /\ Byte(3) \in Seq(Instr)
        /\ Byte(4) \in Seq(Instr) /\ Byte(5) \in Seq(Instr)
    BY <1>2
  <1> QED BY <1>1, <1>3, <1>4, ConcatProperties

\* So is the whole report.
LEMMA PanicTyped ==
  ASSUME NEW v \in 0 .. 31, NEW data \in Dump
  PROVE  panic(v, data) \in Seq(Instr)
PROOF
  <1> DEFINE a == <<Clear>>                           b == log(<<NL, Text(100), NL>>, S_PANIC)
             c == log(<<NL, Text(14)>>, S_NONE)       d == log(<<Hex(v)>>, S_NONE)
             e == log(<<NL>>, S_NONE)                 f == log(<<NL, Text(28), NL, NL>>, S_NONE)
             g == dump_stack(data)                    h == << <<"halt">> >>
  <1>1. a \in Seq(Instr) /\ h \in Seq(Instr) BY Made
  <1>2. b \in Seq(Instr)
    <2>1. <<NL, Text(100), NL>> \in Seq(Instr) BY Made
    <2> QED BY <2>1, LogTyped
  <1>3. c \in Seq(Instr) /\ d \in Seq(Instr)
    <2>1. <<NL, Text(14)>> \in Seq(Instr) /\ <<Hex(v)>> \in Seq(Instr) BY Made, Ints
    <2> QED BY <2>1, LogTyped
  <1>4. e \in Seq(Instr) /\ f \in Seq(Instr)
    <2>1. <<NL>> \in Seq(Instr) /\ <<NL, Text(28), NL, NL>> \in Seq(Instr) BY Made
    <2> QED BY <2>1, LogTyped
  <1>5. g \in Seq(Instr) BY DumpTyped
  <1>6. panic(v, data) = a \o b \o c \o d \o e \o f \o g \o h BY DEF panic, PanicStarts
  <1> HIDE DEF a, b, c, d, e, f, g, h
  <1> QED BY <1>1, <1>2, <1>3, <1>4, <1>5, <1>6, ConcatProperties

\* An instruction of the report, its k-th, and what it does to the cursor.
Advances(o, k) ==
  \/ /\ o[1] = "text" /\ Rows[k] = Rows[k - 1] /\ Rows[k] <= 15
     /\ Cols[k - 1] + o[2] <= Cols[k] /\ Cols[k] <= 100
  \/ /\ o[1] = "hex" /\ Rows[k] = Rows[k - 1] /\ Rows[k] <= 15
     /\ Cols[k - 1] + 10 <= Cols[k] /\ Cols[k] <= 100
  \/ /\ o[1] = "newline" /\ Rows[k] = Rows[k - 1] + 1 /\ Cols[k] = 0

\* Each instruction of the report advances the cursor as the tables say.
LEMMA PanicSteps ==
  ASSUME NEW v, NEW data
  PROVE  LET p == panic(v, data) IN
           /\ Len(p) = 41 /\ p[1] = <<"clearScreen">> /\ p[41] = <<"halt">>
           /\ p[2][1] = "text"
           /\ \A k \in 2 .. 40 : Advances(p[k], k)
PROOF
  <1> DEFINE p == panic(v, data)
  <1>1. p[1] = <<"clearScreen">> /\ p[41] = <<"halt">> /\ Len(p) = 41
    BY PanicListing DEF Clear
  <1>2. ASSUME NEW k \in 2 .. 14 PROVE Advances(p[k], k)
    BY PanicListing, Tables DEF Advances, Text, Hex, NL
  <1>3. ASSUME NEW k \in 15 .. 30 PROVE Advances(p[k], k)
    BY PanicListing, Tables DEF Advances, Text, Hex, NL
  <1>4. ASSUME NEW k \in 31 .. 40 PROVE Advances(p[k], k)
    BY PanicListing, Tables DEF Advances, Text, Hex, NL
  <1>5. p[2][1] = "text" BY PanicListing DEF Text
  <1> HIDE DEF p
  <1> QED BY <1>1, <1>2, <1>3, <1>4, <1>5 DEF p

-----------------------------------------------------------------------------
(* The inductive invariant, part by part.                                  *)

\* What is drawn for a piece of text is right.
Right(q) ==
  /\ q.piece[1] = "dec" => /\ DecValue(q.text) = q.piece[2]
                           /\ Len(q.text) > 1 => q.text[1] # 0
  /\ q.piece[1] = "hex" => HexGood(q.text, q.piece[2])
What  == {q \in [piece : Instr, text : Seq(Symbol)] : Right(q)}
Entry == [x : Nat, y : Nat, w : Nat, h : Nat, what : What]

\* What is left to do; only its first instruction may be a buffer to draw ...
JobInv ==
  /\ calls \in Seq(Nat)
  /\ job \in Seq(Instr \cup Buffered)
  /\ job # <<>> => Tail(job) \in Seq(Instr)

\* ... which no other conversion has touched since.
BufferInv ==
  Does("buffer") => IF Arg[1] = "dec" THEN dec_string = dec2str(Arg[2])
                    ELSE hex_string = hex2str(Arg[2])

ShownInv == shown \in Seq(Entry)

\* The first k instructions of the report have been carried out.
Roomy == screen.w >= 800 /\ screen.h >= 371
Reported(k) ==
  LET p == panic(vector, stack) IN
    /\ Len(job) = 41 - k
    /\ \A j \in 2 .. 41 - k : job[j] = p[k + j]
    /\ k < 41 => job[1] = p[k + 1] \/ job[1] = <<"buffer", p[k + 1]>>
    /\ k >= 1 => Pieces(shown) = DrawnBy(p)[k]
    /\ k >= 1 /\ Roomy =>
         /\ prevX = 0 /\ x <= 8 * Cols[k] /\ y = 55 + 20 * Rows[k]
         /\ \A j \in 1 .. Len(shown) : OnScreen(shown[j])
         /\ k = 1 => x = 0 /\ shown = <<>>
         /\ k > 1 => Len(shown) >= 1 /\ shown[1].x = 0 /\ shown[1].y = 55

\* Once an exception was raised, the machine is at some place of its report.
ReportInv == vector # NoVector => \E k \in 0 .. 41 : Reported(k)

IInv == TypeOK /\ JobInv /\ BufferInv /\ ShownInv /\ ReportInv

-----------------------------------------------------------------------------
(* The steps.                                                              *)

\* What TypeOK says of the variables, by the assumptions on the constants.
LEMMA Typed ==
  ASSUME TypeOK
  PROVE  /\ screen.w \in Nat /\ screen.h \in Nat /\ device \in Functions /\ stack \in Dump
         /\ x \in Nat /\ y \in Nat /\ prevX \in Nat
         /\ vector # NoVector => vector \in 0 .. 31
PROOF
  <1>1. screen.w \in Nat /\ screen.h \in Nat BY ScreensAssumption DEF TypeOK
  <1>2. stack \in Dump BY StacksAssumption DEF TypeOK, Dump
  <1>3. vector # NoVector => vector \in 0 .. 31 BY BoundsAssumption DEF TypeOK
  <1> QED BY <1>1, <1>2, <1>3 DEF TypeOK

\* The parts of what is left to do.
LEMMA JobParts ==
  ASSUME JobInv, job # <<>>
  PROVE  /\ Head(job) \in Instr \cup Buffered /\ Head(job) = job[1]
         /\ Tail(job) \in Seq(Instr) /\ Len(job) \in Nat \ {0}
         /\ Len(Tail(job)) = Len(job) - 1
         /\ \A i \in 1 .. Len(job) - 1 : Tail(job)[i] = job[i + 1]
PROOF
  BY DEF JobInv

\* A listing before what is left to do.
LEMMA JobOf ==
  ASSUME NEW s \in Seq(Instr)
  PROVE  s \in Seq(Instr \cup Buffered) /\ (s # <<>> => Tail(s) \in Seq(Instr))
PROOF
  OBVIOUS

\* A number that is converted goes to the front.
LEMMA JobOfNumber ==
  ASSUME NEW p \in Numbers, NEW s \in Seq(Instr)
  PROVE  LET t == << <<"buffer", p>> >> \o s IN
           /\ t \in Seq(Instr \cup Buffered) /\ t # <<>> /\ Tail(t) = s
           /\ Head(t) = <<"buffer", p>> /\ t[1] = <<"buffer", p>>
           /\ Len(t) = Len(s) + 1 /\ \A i \in 1 .. Len(s) : t[i + 1] = s[i]
PROOF
  <1> DEFINE b == <<"buffer", p>>  t == <<b>> \o s
  <1>1. b \in Instr \cup Buffered BY DEF Buffered
  <1> HIDE DEF b
  <1>2. <<b>> \in Seq(Instr \cup Buffered) /\ s \in Seq(Instr \cup Buffered) BY <1>1
  <1>3. t \in Seq(Instr \cup Buffered) BY <1>2, ConcatProperties
  <1>4. t # <<>> /\ Head(t) = b /\ t[1] = b OBVIOUS
  <1>5. Len(t) = Len(s) + 1 /\ \A i \in 1 .. Len(s) : t[i + 1] = s[i] OBVIOUS
  <1>6. Tail(t) = s
    <2>1. Tail(t) \in Seq(Instr \cup Buffered) /\ Len(Tail(t)) = Len(s) BY <1>3, <1>4, <1>5
    <2>2. \A i \in 1 .. Len(s) : Tail(t)[i] = s[i] BY <1>3, <1>4, <1>5
    <2> HIDE DEF t
    <2> QED BY <1>2, <2>1, <2>2, SeqEqual
  <1> QED BY <1>3, <1>4, <1>5, <1>6 DEF b

\* What Glyphs, Number and draw_square draw is right.
LEMMA GlyphsRight ==
  ASSUME TypeOK, JobInv, Does("text")
  PROVE  Arg \in Nat /\ Head(job) \in Instr /\ [piece |-> Head(job), text |-> <<>>] \in What
PROOF
  <1>1. job # <<>> /\ Head(job)[1] = "text" BY DEF Does
  <1>2. Arg \in Nat /\ Head(job) \in Instr BY <1>1, JobParts, Kinds DEF Arg
  <1>3. Right([piece |-> Head(job), text |-> <<>>]) BY <1>1 DEF Right
  <1>4. <<>> \in Seq(Symbol) OBVIOUS
  <1> QED BY <1>2, <1>3, <1>4 DEF What

\* A square of draw_square.
LEMMA SquareRight ==
  ASSUME JobInv, Does("draw_square")
  PROVE  /\ Arg.x \in Nat /\ Arg.y \in Nat /\ Arg.w \in Nat /\ Arg.h \in Nat
         /\ [piece |-> Head(job), text |-> <<>>] \in What
PROOF
  <1>1. job # <<>> /\ Head(job)[1] = "draw_square" BY DEF Does
  <1>2. Head(job) \in Squares BY <1>1, JobParts, Kinds
  <1>3. Arg = [x |-> 0, y |-> 0, w |-> 500, h |-> 30] BY <1>2 DEF Squares, Arg
  <1>4. Right([piece |-> Head(job), text |-> <<>>]) BY <1>1 DEF Right
  <1>5. Head(job) \in Instr BY <1>2 DEF Instr
  <1>6. <<>> \in Seq(Symbol) OBVIOUS
  <1> QED BY <1>3, <1>4, <1>5, <1>6 DEF What

\* A number that Number draws, from the buffer.
LEMMA NumberRight ==
  ASSUME JobInv, BufferInv, Does("buffer"), NEW t,
         t = IF Arg[1] = "dec" THEN dec_string ELSE hex_string
  PROVE  /\ Arg \in Numbers /\ t \in Seq(Symbol) /\ [piece |-> Arg, text |-> t] \in What
         /\ Arg[1] = "hex" => t = hex2str(Arg[2])
PROOF
  <1>1. job # <<>> /\ Head(job)[1] = "buffer" BY DEF Does
  <1>2. Arg \in Numbers BY <1>1, JobParts, Kinds DEF Arg
  <1>3. CASE Arg[1] = "dec"
    <2>1. Arg[2] \in Nat BY <1>2, <1>3, NumberKinds
    <2>2. t = dec2str(Arg[2]) BY <1>3 DEF BufferInv
    <2>3. /\ t \in Seq(Digit) /\ DecValue(t) = Arg[2]
          /\ Len(t) > 1 => t[1] # 0
      BY <2>1, <2>2, DecString
    <2>4. t \in Seq(Symbol) BY <2>3, Symbols
    <2>5. Right([piece |-> Arg, text |-> t]) BY <1>3, <2>3 DEF Right
    <2> QED BY <1>2, <1>3, <2>4, <2>5, NumberKinds DEF What
  <1>4. CASE Arg[1] = "hex"
    <2>1. Arg[2] \in Integer BY <1>2, <1>4, NumberKinds
    <2>2. t = hex2str(Arg[2]) BY <1>4 DEF BufferInv
    <2>3. t \in Seq(Symbol) /\ HexGood(t, Arg[2]) BY <2>1, <2>2, HexRight
    <2>4. Right([piece |-> Arg, text |-> t]) BY <1>4, <2>3 DEF Right
    <2> QED BY <1>2, <2>2, <2>3, <2>4, NumberKinds DEF What
  <1> QED BY <1>2, <1>3, <1>4, NumberKinds

\* kwrite adds an entry.
LEMMA Drawn1 ==
  ASSUME TypeOK, ShownInv, NEW n \in Nat, NEW q \in What, kwrite(n, q)
  PROVE  /\ x' \in Nat /\ y' \in Nat /\ prevX' \in Nat /\ shown' \in Seq(Entry)
PROOF
  <1> DEFINE row == IF Below THEN 10 ELSE y
             e == [x |-> x, y |-> row, w |-> 8 * n, h |-> 16, what |-> q]
  <1>1. x \in Nat /\ y \in Nat /\ prevX \in Nat BY DEF TypeOK
  <1>2. x' \in Nat /\ y' \in Nat /\ prevX' \in Nat BY <1>1 DEF kwrite
  <1>3. e \in Entry
    <2>1. 8 * n \in Nat /\ row \in Nat BY <1>1
    <2> QED BY <1>1, <2>1 DEF Entry
  <1>4. shown' = Append(shown, e) BY DEF kwrite
  <1> HIDE DEF e
  <1>5. shown' \in Seq(Entry) BY <1>3, <1>4, AppendProperties DEF ShownInv
  <1> QED BY <1>2, <1>5

\* Every step keeps the types, and adds only what is right to the screen.
LEMMA TypeStep ==
  ASSUME TypeOK, JobInv, BufferInv, ShownInv, [Next]_vars
  PROVE  TypeOK' /\ ShownInv'
PROOF
  <1>1. CASE Glyphs
    <2>1. Does("text") BY <1>1 DEF Glyphs
    <2> DEFINE q == [piece |-> Head(job), text |-> <<>>]
    <2>2. Arg \in Nat /\ q \in What BY <2>1, GlyphsRight
    <2>3. kwrite(Arg, q) BY <1>1 DEF Glyphs
    <2> HIDE DEF q
    <2>4. x' \in Nat /\ y' \in Nat /\ prevX' \in Nat /\ shown' \in Seq(Entry)
      BY <2>2, <2>3, Drawn1
    <2> QED BY <1>1, <2>4 DEF Glyphs, TypeOK, ShownInv, machine, buffers, scan, panics
  <1>2. CASE Number
    <2>1. Does("buffer") BY <1>2 DEF Number
    <2> DEFINE t == IF Arg[1] = "dec" THEN dec_string ELSE hex_string
               q == [piece |-> Arg, text |-> t]
    <2>2. t \in Seq(Symbol) /\ q \in What BY <2>1, NumberRight
    <2>3. kwrite(Len(t), q) BY <1>2 DEF Number
    <2>4. Len(t) \in Nat BY <2>2
    <2> HIDE DEF q, t
    <2>5. x' \in Nat /\ y' \in Nat /\ prevX' \in Nat /\ shown' \in Seq(Entry)
      BY <2>2, <2>3, <2>4, Drawn1
    <2> QED BY <1>2, <2>5 DEF Number, TypeOK, ShownInv, machine, buffers, scan, panics
  <1>3. CASE Newline
    <2>1. x' \in Nat /\ y' \in Nat BY <1>3 DEF Newline, TypeOK, LineHeight
    <2> QED BY <1>3, <2>1 DEF Newline, TypeOK, ShownInv, machine, buffers, scan, panics
  <1>4. CASE Convert
    <2>1. job # <<>> /\ (Head(job)[1] = "dec" \/ Head(job)[1] = "hex")
      BY <1>4 DEF Convert, Does
    <2>2. dec_string' \in Seq(0 .. Minus) /\ hex_string' \in Seq(0 .. Ex)
      <3>1. CASE Does("dec") /\ dec_string' = dec2str(Arg) /\ UNCHANGED hex_string
        <4>1. Arg \in Nat BY <2>1, <3>1, JobParts, Kinds DEF Arg, Does
        <4>2. dec_string' \in Seq(Digit) BY <3>1, <4>1, DecString
        <4>3. Digit \subseteq 0 .. Minus BY DEF Digit, Minus
        <4>4. dec_string' \in Seq(0 .. Minus) BY <4>2, <4>3, WiderSeq
        <4> QED BY <3>1, <4>4 DEF TypeOK
      <3>2. CASE Does("hex") /\ hex_string' = hex2str(Arg) /\ UNCHANGED dec_string
        <4>1. Arg \in Integer BY <2>1, <3>2, JobParts, Kinds DEF Arg, Does
        <4>2. hex_string' \in Seq(Symbol) BY <3>2, <4>1, HexRight
        <4> QED BY <3>2, <4>2 DEF TypeOK, Symbol
      <3> QED BY <1>4, <3>1, <3>2 DEF Convert
    <2> QED BY <1>4, <2>2 DEF Convert, TypeOK, ShownInv, machine, cursor, scan, panics
  <1>5. CASE clearScreen
    <2>1. shown' \in Seq(Entry) BY <1>5 DEF clearScreen
    <2> QED BY <1>5, <2>1
        DEF clearScreen, FirstColumn, TypeOK, ShownInv, machine, buffers, scan, panics
  <1>6. CASE idt_install
    BY <1>6 DEF idt_install, TypeOK, ShownInv, machine, cursor, buffers, scan
  <1>7. CASE acpi_init
    BY <1>7 DEF acpi_init, TypeOK, ShownInv, machine, cursor, buffers, scan, panics
  <1>8. CASE ScanClear
    BY <1>8 DEF ScanClear, TypeOK, ShownInv, machine, cursor, buffers, panics
  <1>9. CASE ScanFound
    <2>1. device_count' \in 0 .. MaxDevices /\ tmp' \in 0 .. 20
      BY <1>9, BoundsAssumption DEF ScanFound, Full, TypeOK
    <2> QED BY <1>9, <2>1 DEF ScanFound, TypeOK, ShownInv, machine, cursor, buffers, panics
  <1>10. CASE ScanEnd
    BY <1>10 DEF ScanEnd, TypeOK, ShownInv, machine, cursor, buffers, scan, panics
  <1>11. CASE syscall_dispatcher
    BY <1>11 DEF syscall_dispatcher, TypeOK, ShownInv, cursor, buffers, scan, panics
  <1>12. CASE draw_square
    <2> DEFINE q == [piece |-> Head(job), text |-> <<>>]
               e == [x |-> Arg.x, y |-> Arg.y, w |-> Arg.w, h |-> Arg.h, what |-> q]
    <2>1. Does("draw_square") BY <1>12 DEF draw_square
    <2>2. /\ Arg.x \in Nat /\ Arg.y \in Nat /\ Arg.w \in Nat /\ Arg.h \in Nat
          /\ q \in What
      BY <2>1, SquareRight
    <2> HIDE DEF q
    <2>3. e \in Entry BY <2>2 DEF Entry
    <2>4. shown' = Append(shown, e) BY <1>12 DEF draw_square, q
    <2> HIDE DEF e
    <2>5. shown' \in Seq(Entry) BY <2>3, <2>4, AppendProperties DEF ShownInv
    <2> QED BY <1>12, <2>5 DEF draw_square, TypeOK, ShownInv, machine, cursor, buffers, scan, panics
  <1>13. CASE halt
    BY <1>13 DEF halt, TypeOK, ShownInv, machine, cursor, buffers, scan, panics
  <1>14. ASSUME NEW v \in Faults, Fault(v) PROVE TypeOK' /\ ShownInv'
    <2>1. faults' \in 0 .. MaxFaults BY <1>14, BoundsAssumption DEF Fault, TypeOK
    <2> QED BY <1>14, <2>1 DEF Fault, TypeOK, ShownInv, machine, cursor, buffers, scan
  <1>15. CASE UNCHANGED vars
    BY <1>15 DEF vars, TypeOK, ShownInv, machine, cursor, buffers, scan, panics
  <1> QED
    BY <1>1, <1>2, <1>3, <1>4, <1>5, <1>6, <1>7, <1>8, <1>9, <1>10, <1>11, <1>12, <1>13,
       <1>14, <1>15 DEF Next, Stop

\* A system call is a listing.
LEMMA CallsTyped ==
  ASSUME NEW n \in {0, 1, 2}
  PROVE  syscall_table(n) \in Seq(Instr)
PROOF
  <1>1. CASE n = 0 BY <1>1, Made DEF syscall_table
  <1>2. CASE n = 1
    <2>1. <<Text(14), NL>> \in Seq(Instr) BY Made
    <2>2. syscall_table(n) = log(<<Text(14), NL>>, S_INFO) BY <1>2 DEF syscall_table
    <2>3. log(<<Text(14), NL>>, S_INFO) \in Seq(Instr) BY <2>1, LogTyped
    <2> QED BY <2>2, <2>3
  <1>3. CASE n = 2
    <2> DEFINE o == <<"draw_square", [x |-> 0, y |-> 0, w |-> 500, h |-> 30]>>
    <2>1. o \in Instr BY Made
    <2>2. syscall_table(n) = <<o>> BY <1>3 DEF syscall_table
    <2> HIDE DEF o
    <2> QED BY <2>1, <2>2
  <1> QED BY <1>1, <1>2, <1>3

\* Where no buffer is in front, nothing needs to be said about the buffers.
LEMMA NoBuffer ==
  ASSUME NEW s \in Seq(Instr), job' = s, calls' \in Seq(Nat)
  PROVE  JobInv' /\ BufferInv'
PROOF
  <1>1. JobInv' BY JobOf DEF JobInv
  <1>2. ~Does("buffer")'
    <2> SUFFICES ASSUME Does("buffer")' PROVE FALSE OBVIOUS
    <2>1. s # <<>> /\ Head(s)[1] = "buffer" BY DEF Does
    <2>2. Head(s) \in Instr BY <2>1
    <2> QED BY <2>1, <2>2 DEF Instr, Drawing, Numbers, Plain, Squares
  <1> QED BY <1>1, <1>2 DEF BufferInv

\* Every step leaves a listing behind, and the buffer of its front alone.
LEMMA JobStep ==
  ASSUME TypeOK, JobInv, BufferInv, [Next]_vars
  PROVE  JobInv' /\ BufferInv'
PROOF
  <1>0. calls \in Seq(Nat) BY DEF JobInv
  <1>1. CASE Glyphs \/ Number \/ Newline \/ clearScreen \/ idt_install \/ draw_square
    <2>1. job # <<>> /\ job' = Tail(job) /\ UNCHANGED machine
      BY <1>1 DEF Glyphs, Number, Newline, clearScreen, idt_install, draw_square, Does
    <2>2. Tail(job) \in Seq(Instr) BY <2>1, JobParts
    <2> QED BY <1>0, <2>1, <2>2, NoBuffer DEF machine
  <1>2. CASE Convert
    <2>1. job # <<>> /\ (Head(job)[1] = "dec" \/ Head(job)[1] = "hex")
      BY <1>2 DEF Convert, Does
    <2> DEFINE p == Head(job)  s == Tail(job)  t == << <<"buffer", p>> >> \o s
    <2>2. p \in Numbers /\ s \in Seq(Instr) BY <2>1, JobParts, Kinds
    <2>3. job' = t /\ UNCHANGED machine BY <1>2 DEF Convert
    <2>4. t \in Seq(Instr \cup Buffered) /\ t # <<>> /\ Tail(t) = s /\ Head(t) = <<"buffer", p>>
      BY <2>2, JobOfNumber
    <2> HIDE DEF t, p, s
    <2>5. JobInv' BY <1>0, <2>2, <2>3, <2>4 DEF JobInv, machine
    <2>6. Arg' = p BY <2>3, <2>4 DEF Arg
    <2>7. IF p[1] = "dec" THEN dec_string' = dec2str(p[2]) ELSE hex_string' = hex2str(p[2])
      BY <1>2, <2>1 DEF Convert, Does, Arg, p
    <2>8. BufferInv' BY <2>6, <2>7 DEF BufferInv
    <2> QED BY <2>5, <2>8
  <1>3. CASE acpi_init
    <2>1. UNCHANGED machine /\ job # <<>> BY <1>3 DEF acpi_init, Does
    <2>2. job' \in Seq(Instr)
      <3>1. CASE job' = Tail(job) BY <2>1, <3>1, JobParts
      <3>2. ASSUME NEW n \in {44, 104},
                   job' = log(<<Text(n), NL>>, S_CRITICAL) \o << <<"halt">> >>
            PROVE  job' \in Seq(Instr)
        <4>1. <<Text(n), NL>> \in Seq(Instr) BY Made
        <4>2. << <<"halt">> >> \in Seq(Instr) BY Made
        <4>3. log(<<Text(n), NL>>, S_CRITICAL) \in Seq(Instr) BY <4>1, LogTyped
        <4> QED BY <3>2, <4>2, <4>3, ConcatProperties
      <3> QED BY <1>3, <3>1, <3>2 DEF acpi_init
    <2> QED BY <1>0, <2>1, <2>2, NoBuffer DEF machine
  <1>4. CASE ScanClear \/ ScanFound
    <2>1. job # <<>> /\ Head(job)[1] = "pci_scan" /\ UNCHANGED machine
      BY <1>4 DEF ScanClear, ScanFound, Does
    <2>2. job \in Seq(Instr)
      <3>1. Head(job) \in Instr /\ Tail(job) \in Seq(Instr) BY <2>1, JobParts, Kinds
      <3>2. job = <<Head(job)>> \o Tail(job) BY <2>1 DEF JobInv
      <3>3. <<Head(job)>> \in Seq(Instr) BY <3>1
      <3> QED BY <3>1, <3>2, <3>3, ConcatProperties
    <2>3. <<Clear>> \in Seq(Instr) BY Made
    <2>4. found(device) \in Seq(Instr) BY FoundTyped DEF TypeOK
    <2>5. job' \in Seq(Instr)
      BY <1>4, <2>2, <2>3, <2>4, ConcatProperties DEF ScanClear, ScanFound
    <2> QED BY <1>0, <2>1, <2>5, NoBuffer DEF machine
  <1>5. CASE ScanEnd
    <2>1. job # <<>> /\ UNCHANGED machine BY <1>5 DEF ScanEnd, Does
    <2>2. Dec(device_count) \in Instr BY Made, BoundsAssumption DEF TypeOK
    <2>3. <<Dec(device_count), Text(15), NL>> \in Seq(Instr) BY <2>2, Made
    <2>4. log(<<Dec(device_count), Text(15), NL>>, S_INFO) \in Seq(Instr) BY <2>3, LogTyped
    <2>5. job' \in Seq(Instr) BY <1>5, <2>1, <2>4, JobParts, ConcatProperties DEF ScanEnd
    <2> QED BY <1>0, <2>1, <2>5, NoBuffer DEF machine
  <1>6. CASE syscall_dispatcher
    <2>1. job # <<>> /\ Head(job)[1] = "ui_start" /\ calls # <<>>
      BY <1>6 DEF syscall_dispatcher, Does
    <2>2. job \in Seq(Instr)
      <3>1. Head(job) \in Instr /\ Tail(job) \in Seq(Instr) BY <2>1, JobParts, Kinds
      <3>2. job = <<Head(job)>> \o Tail(job) BY <2>1 DEF JobInv
      <3>3. <<Head(job)>> \in Seq(Instr) BY <3>1
      <3> QED BY <3>1, <3>2, <3>3, ConcatProperties
    <2>3. Head(calls) \in Nat /\ Tail(calls) \in Seq(Nat) BY <1>0, <2>1
    <2>4. Head(calls) < 3 => syscall_table(Head(calls)) \in Seq(Instr)
      <3>1. Head(calls) < 3 => Head(calls) \in {0, 1, 2} BY <2>3
      <3> QED BY <3>1, CallsTyped
    <2>5. job' \in Seq(Instr) /\ calls' \in Seq(Nat)
      BY <1>6, <2>2, <2>3, <2>4, ConcatProperties DEF syscall_dispatcher
    <2> QED BY <2>5, NoBuffer
  <1>7. CASE halt
    <2>1. job' = <<>> /\ <<>> \in Seq(Instr) /\ UNCHANGED machine BY <1>7 DEF halt
    <2> QED BY <1>0, <2>1, NoBuffer DEF machine
  <1>8. ASSUME NEW v \in Faults, Fault(v) PROVE JobInv' /\ BufferInv'
    <2>1. v \in 0 .. 31 /\ stack \in Dump BY BoundsAssumption, Typed
    <2>2. job' \in Seq(Instr) /\ UNCHANGED machine BY <1>8, <2>1, PanicTyped DEF Fault
    <2> QED BY <1>0, <2>2, NoBuffer DEF machine
  <1>9. CASE UNCHANGED vars
    BY <1>9 DEF vars, machine, buffers, JobInv, BufferInv, Does, Arg
  <1> QED
    BY <1>1, <1>2, <1>3, <1>4, <1>5, <1>6, <1>7, <1>8, <1>9 DEF Next, Stop

\* What was drawn, and one entry more.
LEMMA PiecesParts ==
  ASSUME NEW s \in Seq(Entry), NEW e \in Entry
  PROVE  /\ Pieces(Append(s, e)) = Append(Pieces(s), e.what.piece)
         /\ Pieces(<<>>) = <<>>
PROOF
  <1> DEFINE t == Append(s, e)  n == Len(s)
  <1>1. n \in Nat /\ \A i \in 1 .. n : s[i].what.piece \in Instr
    <2>1. n \in Nat /\ \A i \in 1 .. n : s[i] \in Entry OBVIOUS
    <2>2. \A d \in Entry : d.what \in What BY DEF Entry
    <2>3. \A q \in What : q.piece \in Instr BY DEF What
    <2> QED BY <2>1, <2>2, <2>3
  <1>2. e.what.piece \in Instr BY DEF Entry, What
  <1>3. /\ Len(t) = n + 1 /\ t[n + 1] = e /\ \A i \in 1 .. n : t[i] = s[i]
    OBVIOUS
  <1> HIDE DEF t
  <1>4. Pieces(s) \in Seq(Instr) /\ Len(Pieces(s)) = n
    <2>1. Pieces(s) = [i \in 1 .. n |-> s[i].what.piece] BY DEF Pieces
    <2>2. Pieces(s) \in [1 .. n -> Instr] BY <1>1, <2>1
    <2> HIDE DEF n
    <2> QED BY <1>1, <2>2, SequenceOf
  <1>5. \A i \in 1 .. n : Pieces(s)[i] = s[i].what.piece BY DEF Pieces
  <1> HIDE DEF n
  <1> DEFINE a == Append(Pieces(s), e.what.piece)  b == Pieces(t)
  <1>6. /\ a \in Seq(Instr) /\ Len(a) = n + 1
        /\ \A i \in 1 .. n : a[i] = Pieces(s)[i]
    BY <1>2, <1>4, AppendProperties
  <1>7. a[n + 1] = e.what.piece BY <1>2, <1>4, AppendLast
  <1>8. b = [i \in 1 .. n + 1 |-> t[i].what.piece] BY <1>3 DEF Pieces
  <1>9. ASSUME NEW i \in 1 .. n + 1 PROVE t[i].what.piece = a[i] /\ a[i] \in Instr
    <2>1. CASE i = n + 1 BY <1>2, <1>3, <1>7, <2>1
    <2>2. CASE i # n + 1
      <3>1. i \in 1 .. n BY <1>1, <2>2
      <3>2. t[i] = s[i] /\ a[i] = s[i].what.piece BY <1>3, <1>5, <1>6, <3>1
      <3> QED BY <1>1, <3>1, <3>2
    <2> QED BY <2>1, <2>2
  <1> HIDE DEF a, b
  <1>10. b \in [1 .. n + 1 -> Instr] /\ n + 1 \in Nat BY <1>1, <1>8, <1>9
  <1>11. b \in Seq(Instr) /\ Len(b) = n + 1 BY <1>10, SequenceOf
  <1>12. \A i \in 1 .. n + 1 : b[i] = a[i] BY <1>8, <1>9
  <1>13. b = a BY <1>6, <1>11, <1>12, SeqEqual
  <1>14. Pieces(<<>>) = <<>> BY DEF Pieces
  <1> QED BY <1>13, <1>14 DEF a, b, t

\* The parts of Reported, for the report p.
Remains(p, s, k) ==
  /\ Len(s) = 41 - k
  /\ \A j \in 2 .. 41 - k : s[j] = p[k + j]
  /\ k < 41 => s[1] = p[k + 1] \/ s[1] = <<"buffer", p[k + 1]>>
Placed(k) ==
  /\ prevX = 0 /\ x <= 8 * Cols[k] /\ y = 55 + 20 * Rows[k]
  /\ \A j \in 1 .. Len(shown) : OnScreen(shown[j])
  /\ k = 1 => x = 0 /\ shown = <<>>
  /\ k > 1 => Len(shown) >= 1 /\ shown[1].x = 0 /\ shown[1].y = 55

\* Reported in parts.
LEMMA ReportedParts ==
  ASSUME NEW k
  PROVE  LET p == panic(vector, stack) IN
           Reported(k) <=> /\ Remains(p, job, k)
                           /\ k >= 1 => Pieces(shown) = DrawnBy(p)[k]
                           /\ k >= 1 /\ Roomy => Placed(k)
PROOF
  BY DEF Reported, Remains, Placed

\* The instruction at the front.
LEMMA FrontOfReport ==
  ASSUME TypeOK, JobInv, vector # NoVector, NEW k \in 0 .. 41, Reported(k), job # <<>>
  PROVE  LET p == panic(vector, stack)  o == Head(job) IN
           /\ k \in 0 .. 40
           /\ o = p[k + 1] \/ o = <<"buffer", p[k + 1]>>
           /\ k = 0 => o[1] = "clearScreen"
           /\ k = 40 => o[1] = "halt"
           /\ k \in 1 .. 39 => Advances(p[k + 1], k + 1)
           /\ o[1] \in {"clearScreen", "halt", "text", "hex", "newline", "buffer"}
           /\ o[1] = "clearScreen" => k = 0
           /\ o[1] = "halt" => k = 40
           /\ o[1] \in {"text", "hex", "newline"} => k \in 1 .. 39 /\ o = p[k + 1]
           /\ o[1] = "buffer" => k \in 1 .. 39 /\ Arg = p[k + 1] /\ p[k + 1][1] = "hex"
PROOF
  <1> DEFINE p == panic(vector, stack)  o == Head(job)  q == p[k + 1]
  <1>1. k \in 0 .. 40 /\ o \in Instr \cup Buffered /\ (o = q \/ o = <<"buffer", q>>)
    <2>1. Remains(p, job, k) BY ReportedParts
    <2>2. Len(job) \in Nat \ {0} /\ o = job[1] /\ o \in Instr \cup Buffered BY JobParts
    <2> HIDE DEF p, o
    <2>3. k \in 0 .. 40 BY <2>1, <2>2 DEF Remains
    <2> QED BY <2>1, <2>2, <2>3 DEF Remains
  <1>2. /\ k = 0 => q = <<"clearScreen">>
        /\ k = 40 => q = <<"halt">>
        /\ k \in 1 .. 39 => Advances(q, k + 1) /\ q[1] \in {"text", "hex", "newline"}
    <2>1. /\ p[1] = <<"clearScreen">> /\ p[41] = <<"halt">>
          /\ \A j \in 2 .. 40 : Advances(p[j], j)
      BY PanicSteps
    <2> HIDE DEF p
    <2>2. k \in 1 .. 39 => k + 1 \in 2 .. 40 OBVIOUS
    <2>3. k \in 1 .. 39 => Advances(q, k + 1) BY <2>1, <2>2
    <2>4. k \in 1 .. 39 => q[1] \in {"text", "hex", "newline"} BY <2>3 DEF Advances
    <2>5. k = 0 => q = p[1] OBVIOUS
    <2>6. k = 40 => q = p[41] OBVIOUS
    <2> HIDE DEF q
    <2> QED BY <2>1, <2>3, <2>4, <2>5, <2>6
  <1>3. k = 0 \/ k = 40 \/ k \in 1 .. 39 BY <1>1
  <1>4. Arg = o[2] BY DEF Arg
  <1> HIDE DEF p, o, q
  <1>5. CASE o = q
    <2>1. k = 0 => o[1] = "clearScreen" BY <1>2, <1>5
    <2>2. k = 40 => o[1] = "halt" BY <1>2, <1>5
    <2>3. k \in 1 .. 39 => o[1] \in {"text", "hex", "newline"} BY <1>2, <1>5
    <2> QED BY <1>1, <1>2, <1>3, <1>5, <2>1, <2>2, <2>3 DEF o, p, q
  <1>6. CASE o = <<"buffer", q>>
    <2>1. o[1] = "buffer" /\ o[2] = q BY <1>6
    <2>2. q \in Numbers BY <1>1, <2>1, Kinds
    <2>3. q[1] = "dec" \/ q[1] = "hex" BY <2>2, NumberKinds
    <2>4. k # 0 /\ k # 40 BY <1>2, <2>3
    <2>5. k \in 1 .. 39 /\ q[1] = "hex" BY <1>2, <1>3, <2>3, <2>4
    <2> QED BY <1>1, <1>2, <1>4, <1>6, <2>1, <2>4, <2>5 DEF o, p, q
  <1> QED BY <1>1, <1>5, <1>6

\* A step that takes the instruction at the front off the list.
LEMMA JobMoves ==
  ASSUME JobInv, NEW p, NEW k \in 0 .. 40, Remains(p, job, k), job' = Tail(job)
  PROVE  Remains(p, job', k + 1)
PROOF
  <1> DEFINE t == job'
  <1>1. Len(job) = 41 - k BY DEF Remains
  <1>2. job # <<>> /\ Len(t) = 40 - k /\ \A i \in 1 .. 40 - k : t[i] = job[i + 1]
    <2>1. job # <<>> BY <1>1
    <2>2. Len(t) = Len(job) - 1 /\ \A i \in 1 .. Len(job) - 1 : t[i] = job[i + 1]
      BY <2>1, JobParts
    <2>3. Len(job) - 1 = 40 - k BY <1>1
    <2> HIDE DEF t
    <2> QED BY <2>1, <2>2, <2>3
  <1> HIDE DEF t
  <1>3. ASSUME NEW i \in 1 .. 40 - k PROVE t[i] = p[k + 1 + i]
    <2>1. i + 1 \in 2 .. 41 - k /\ k + (i + 1) = k + 1 + i OBVIOUS
    <2> QED BY <1>2, <2>1 DEF Remains
  <1>4. Len(t) = 41 - (k + 1) BY <1>2
  <1>5. \A j \in 2 .. 41 - (k + 1) : t[j] = p[(k + 1) + j]
    <2>1. \A j \in 2 .. 41 - (k + 1) : j \in 1 .. 40 - k OBVIOUS
    <2> QED BY <1>3, <2>1
  <1>6. k + 1 < 41 => t[1] = p[(k + 1) + 1]
    <2>1. k + 1 < 41 => 1 \in 1 .. 40 - k OBVIOUS
    <2> QED BY <1>3, <2>1
  <1> QED BY <1>4, <1>5, <1>6 DEF Remains, t

\* The table of rows and columns.
LEMMA TableTypes ==
  \A k \in 1 .. 41 : Rows[k] \in Nat /\ Cols[k] \in Nat
PROOF
  <1>1. ASSUME NEW k \in 1 .. 20 PROVE Rows[k] \in Nat /\ Cols[k] \in Nat BY Tables
  <1>2. ASSUME NEW k \in 21 .. 41 PROVE Rows[k] \in Nat /\ Cols[k] \in Nat BY Tables
  <1> QED BY <1>1, <1>2

\* A step of kwrite, for a piece of the report.
LEMMA ReportDraws ==
  ASSUME TypeOK, ShownInv, NEW k \in 1 .. 39, Roomy, Placed(k), UNCHANGED machine,
         NEW n \in Nat, NEW q \in What, kwrite(n, q),
         Rows[k + 1] = Rows[k], Rows[k + 1] <= 15,
         Cols[k] + n <= Cols[k + 1], Cols[k + 1] <= 100
  PROVE  Placed(k + 1)'
PROOF
  <1> DEFINE e == [x |-> x, y |-> y, w |-> 8 * n, h |-> 16, what |-> q]  N == Len(shown)
             a == Cols[k]  b == Cols[k + 1]  r == Rows[k]
  <1>1. a \in Nat /\ b \in Nat /\ r \in Nat
    <2>1. k \in 1 .. 41 /\ k + 1 \in 1 .. 41 OBVIOUS
    <2> QED BY <2>1, TableTypes
  <1>2. /\ r <= 15 /\ a + n <= b /\ b <= 100 /\ Rows[k + 1] = r /\ Cols[k + 1] = b
    OBVIOUS
  <1>3. /\ x \in Nat /\ y \in Nat /\ screen.w \in Nat /\ screen.h \in Nat BY Typed
  <1>4. /\ prevX = 0 /\ x <= 8 * a /\ y = 55 + 20 * r
        /\ \A j \in 1 .. N : OnScreen(shown[j])
        /\ k = 1 => x = 0 /\ shown = <<>>
        /\ k > 1 => N >= 1 /\ shown[1].x = 0 /\ shown[1].y = 55
    BY DEF Placed
  <1>5. screen.w >= 800 /\ screen.h >= 371 /\ screen' = screen BY DEF Roomy, machine
  <1>6. k = 1 => r = 0 BY Tables
  <1> HIDE DEF a, b, r
  <1>7. ~Below BY <1>1, <1>2, <1>3, <1>4, <1>5 DEF Below
  <1>8. x' = x + 8 * n /\ y' = y /\ prevX' = 0 /\ shown' = Append(shown, e)
    BY <1>4, <1>7 DEF kwrite
  <1>9. x' <= 8 * b BY <1>1, <1>2, <1>3, <1>4, <1>8
  <1>10. e \in Entry BY <1>3 DEF Entry
  <1>11. OnScreen(e)
    <2>1. e.x = x /\ e.w = 8 * n /\ e.y = y /\ e.h = 16 OBVIOUS
    <2>2. x + 8 * n <= screen.w BY <1>1, <1>2, <1>3, <1>4, <1>5
    <2>3. y + 16 <= screen.h BY <1>1, <1>2, <1>3, <1>4, <1>5
    <2> HIDE DEF e
    <2> QED BY <2>1, <2>2, <2>3 DEF OnScreen
  <1>12. e.x = x /\ e.y = y OBVIOUS
  <1> HIDE DEF e
  <1>13. /\ N \in Nat /\ Len(shown') = N + 1 /\ shown'[N + 1] = e
         /\ \A j \in 1 .. N : shown'[j] = shown[j]
    BY <1>8, <1>10 DEF ShownInv
  <1>14. \A j \in 1 .. N + 1 : (OnScreen(shown[j]))'
    <2>1. \A j \in 1 .. N + 1 : j \in 1 .. N \/ j = N + 1 BY <1>13
    <2>2. \A j \in 1 .. N + 1 : OnScreen(shown'[j])
      <3> HIDE DEF N
      <3> QED BY <1>4, <1>11, <1>13, <2>1
    <2> QED BY <1>5, <2>2 DEF OnScreen
  <1>15. shown'[1].x = 0 /\ shown'[1].y = 55
    <2>1. CASE k = 1
      <3>1. N = 0 /\ shown'[1] = e BY <1>4, <1>13, <2>1
      <3>2. y = 55 BY <1>1, <1>4, <1>6, <2>1
      <3> QED BY <1>4, <1>12, <2>1, <3>1, <3>2
    <2>2. CASE k > 1
      <3>1. 1 \in 1 .. N BY <1>4, <1>13, <2>2
      <3> QED BY <1>4, <1>13, <2>2, <3>1
    <2> QED BY <2>1, <2>2
  <1>16. y' = 55 + 20 * Rows[k + 1] BY <1>2, <1>4, <1>8
  <1>17. x' <= 8 * Cols[k + 1] BY <1>2, <1>9
  <1>18. ~(k + 1 = 1) /\ Len(shown') >= 1 BY <1>13
  <1> HIDE DEF N
  <1> QED BY <1>8, <1>13, <1>14, <1>15, <1>16, <1>17, <1>18 DEF Placed

\* The places of the instructions between the first and the last.
LEMMA Places ==
  \A k \in 1 .. 39 :
    k >= 1 /\ k \in 1 .. 40 /\ k \in 1 .. 41 /\ k + 1 \in 1 .. 41 /\ (k # 1 => k > 1)
PROOF
  OBVIOUS

\* The parts of Reported in the next state.
LEMMA ReportedNext ==
  ASSUME NEW k, NEW p, p = panic(vector', stack'), Remains(p, job', k),
         k >= 1 => (Pieces(shown))' = DrawnBy(p)[k],
         k >= 1 /\ Roomy' => Placed(k)'
  PROVE  Reported(k)'
PROOF
  BY DEF Reported, Remains, Placed

\* The report as a listing.
LEMMA ReportTyped ==
  ASSUME TypeOK, vector # NoVector, NEW p, p = panic(vector, stack)
  PROVE  /\ p \in Seq(Instr) /\ Len(p) = 41
         /\ DrawnBy(p)[0] = <<>>
         /\ \A n \in 1 .. 41 :
              DrawnBy(p)[n] = IF p[n][1] \in {"text", "dec", "hex"}
                              THEN Append(DrawnBy(p)[n - 1], p[n]) ELSE DrawnBy(p)[n - 1]
PROOF
  <1>1. p \in Seq(Instr) BY Typed, PanicTyped
  <1>2. Len(p) = 41 BY PanicSteps
  <1>3. /\ DrawnBy(p)[0] = <<>>
        /\ \A n \in 1 .. Len(p) :
              DrawnBy(p)[n] = IF p[n][1] \in {"text", "dec", "hex"}
                              THEN Append(DrawnBy(p)[n - 1], p[n]) ELSE DrawnBy(p)[n - 1]
    BY <1>1, DrawnRule
  <1> QED BY <1>1, <1>2, <1>3

\* A step that draws a piece of the report.
LEMMA ReportWrites ==
  ASSUME TypeOK, JobInv, ShownInv, vector # NoVector, NEW k \in 1 .. 39, Reported(k),
         UNCHANGED <<machine, vector>>, job' = Tail(job),
         NEW p, p = panic(vector, stack), p[k + 1][1] \in {"text", "hex"},
         NEW n \in Nat, NEW q \in What, kwrite(n, q), q.piece = p[k + 1],
         Rows[k + 1] = Rows[k], Rows[k + 1] <= 15,
         Cols[k] + n <= Cols[k + 1], Cols[k + 1] <= 100
  PROVE  Reported(k + 1)'
PROOF
  <1>1. Remains(p, job, k) /\ Pieces(shown) = DrawnBy(p)[k] /\ (Roomy => Placed(k))
    <2>1. k >= 1 BY Places, Zenon
    <2>2. /\ Remains(p, job, k)
          /\ k >= 1 => Pieces(shown) = DrawnBy(p)[k]
          /\ k >= 1 /\ Roomy => Placed(k)
      BY ReportedParts
    <2> QED BY <2>1, <2>2
  <1>2. Remains(p, job', k + 1)
    <2>1. k \in 0 .. 40 OBVIOUS
    <2> QED BY <1>1, <2>1, JobMoves
  <1>3. (Pieces(shown))' = DrawnBy(p)[k + 1]
    <2> DEFINE e == [x |-> x, y |-> IF Below THEN 10 ELSE y, w |-> 8 * n, h |-> 16, what |-> q]
    <2>1. e \in Entry
      <3>1. x \in Nat /\ y \in Nat BY Typed
      <3>2. (IF Below THEN 10 ELSE y) \in Nat /\ 8 * n \in Nat BY <3>1
      <3> QED BY <3>1, <3>2 DEF Entry
    <2>2. shown' = Append(shown, e) BY DEF kwrite
    <2>3. e.what.piece = p[k + 1] OBVIOUS
    <2> HIDE DEF e
    <2>4. Pieces(shown') = Append(Pieces(shown), p[k + 1])
      BY <2>1, <2>2, <2>3, PiecesParts DEF ShownInv
    <2>5. DrawnBy(p)[k + 1] = Append(DrawnBy(p)[k], p[k + 1])
      <3>1. k + 1 \in 1 .. 41 /\ (k + 1) - 1 = k OBVIOUS
      <3>2. DrawnBy(p)[k + 1] = IF p[k + 1][1] \in {"text", "dec", "hex"}
                                THEN Append(DrawnBy(p)[(k + 1) - 1], p[k + 1])
                                ELSE DrawnBy(p)[(k + 1) - 1]
        BY <3>1, ReportTyped
      <3> QED BY <3>1, <3>2
    <2> QED BY <1>1, <2>4, <2>5
  <1>4. Roomy' => Placed(k + 1)'
    <2>1. UNCHANGED machine OBVIOUS
    <2>2. Roomy' => Roomy BY DEF machine, Roomy
    <2> QED BY <1>1, <2>1, <2>2, ReportDraws
  <1>5. p = panic(vector', stack') BY DEF machine
  <1> QED BY <1>2, <1>3, <1>4, <1>5, ReportedNext

\* A step that draws nothing, but moves on.
LEMMA ReportPasses ==
  ASSUME TypeOK, JobInv, vector # NoVector, NEW k \in 1 .. 40, Reported(k),
         UNCHANGED <<machine, vector, shown, prevX>>, job' = Tail(job),
         NEW p, p = panic(vector, stack), ~(p[k + 1][1] \in {"text", "dec", "hex"}),
         Roomy /\ Placed(k) => x' <= 8 * Cols[k + 1] /\ y' = 55 + 20 * Rows[k + 1],
         k > 1
  PROVE  Reported(k + 1)'
PROOF
  <1>1. Remains(p, job, k) /\ Pieces(shown) = DrawnBy(p)[k] /\ (Roomy => Placed(k))
    <2>1. k >= 1 OBVIOUS
    <2>2. /\ Remains(p, job, k)
          /\ k >= 1 => Pieces(shown) = DrawnBy(p)[k]
          /\ k >= 1 /\ Roomy => Placed(k)
      BY ReportedParts
    <2> QED BY <2>1, <2>2
  <1>2. Remains(p, job', k + 1)
    <2>1. k \in 0 .. 40 OBVIOUS
    <2> QED BY <1>1, <2>1, JobMoves
  <1>3. (Pieces(shown))' = DrawnBy(p)[k + 1]
    <2>1. k + 1 \in 1 .. 41 /\ (k + 1) - 1 = k OBVIOUS
    <2>2. DrawnBy(p)[k + 1] = DrawnBy(p)[(k + 1) - 1] BY <2>1, ReportTyped
    <2>3. Pieces(shown') = Pieces(shown) OBVIOUS
    <2> QED BY <1>1, <2>1, <2>2, <2>3
  <1>4. Roomy' => Placed(k + 1)'
    <2>1. Roomy' => Roomy BY DEF machine, Roomy
    <2>2. k + 1 > 1 /\ ~(k + 1 = 1) OBVIOUS
    <2>3. screen' = screen /\ shown' = shown /\ prevX' = prevX BY DEF machine
    <2> QED BY <1>1, <2>1, <2>2, <2>3 DEF Placed, OnScreen
  <1>5. p = panic(vector', stack') BY DEF machine
  <1> QED BY <1>2, <1>3, <1>4, <1>5, ReportedNext

\* A report starts.
LEMMA ReportStarts ==
  ASSUME NEW v \in Faults, Fault(v)
  PROVE  Reported(0)'
PROOF
  <1> DEFINE p == panic(v, stack)
  <1>1. job' = p /\ vector' = v /\ stack' = stack BY DEF Fault, machine
  <1>2. Len(p) = 41 BY PanicSteps
  <1> HIDE DEF p
  <1>3. Remains(p, job', 0) BY <1>1, <1>2 DEF Remains
  <1>4. p = panic(vector', stack') BY <1>1 DEF p
  <1>5. ~(0 >= 1) OBVIOUS
  <1> QED BY <1>3, <1>4, <1>5, ReportedNext

\* Its first instruction clears the screen.
LEMMA ReportClears ==
  ASSUME TypeOK, JobInv, vector # NoVector, Reported(0), clearScreen
  PROVE  Reported(1)'
PROOF
  <1> DEFINE p == panic(vector, stack)
  <1>1. Remains(p, job, 0) BY ReportedParts
  <1>2. /\ job' = Tail(job) /\ UNCHANGED <<machine, vector>>
        /\ prevX' = 0 /\ x' = 0 /\ y' = 55 /\ shown' = <<>>
    BY DEF clearScreen, FirstColumn, panics
  <1>3. p = panic(vector', stack') BY <1>2 DEF machine
  <1>4. p[1][1] = "clearScreen" BY PanicSteps
  <1>5. /\ DrawnBy(p)[0] = <<>>
        /\ \A n \in 1 .. 41 :
              DrawnBy(p)[n] = IF p[n][1] \in {"text", "dec", "hex"}
                              THEN Append(DrawnBy(p)[n - 1], p[n]) ELSE DrawnBy(p)[n - 1]
    BY ReportTyped
  <1> HIDE DEF p
  <1>6. Remains(p, job', 1)
    <2>1. 0 \in 0 .. 40 /\ 0 + 1 = 1 OBVIOUS
    <2>2. Remains(p, job', 0 + 1) BY <1>1, <1>2, <2>1, JobMoves
    <2> QED BY <2>1, <2>2
  <1>7. DrawnBy(p)[1] = <<>>
    <2>1. 1 \in 1 .. 41 /\ 1 - 1 = 0 OBVIOUS
    <2>2. DrawnBy(p)[1] = DrawnBy(p)[1 - 1] BY <1>4, <1>5, <2>1
    <2> QED BY <1>5, <2>1, <2>2
  <1>8. Pieces(shown') = <<>> BY <1>2 DEF Pieces
  <1>9. Placed(1)'
    <2>1. Cols[1] = 0 /\ Rows[1] = 0 BY Tables
    <2>2. Len(shown') = 0 BY <1>2
    <2> QED BY <1>2, <2>1, <2>2 DEF Placed
  <1> QED BY <1>3, <1>6, <1>7, <1>8, <1>9, ReportedNext

\* A number of the report is converted.
LEMMA ReportConverts ==
  ASSUME TypeOK, JobInv, vector # NoVector, NEW k \in 1 .. 39, Reported(k), Convert,
         NEW p, p = panic(vector, stack), Head(job) = p[k + 1]
  PROVE  Reported(k)'
PROOF
  <1> DEFINE o == Head(job)  s == Tail(job)  t == << <<"buffer", o>> >> \o s
  <1>1. /\ Remains(p, job, k)
        /\ k >= 1 => Pieces(shown) = DrawnBy(p)[k]
        /\ k >= 1 /\ Roomy => Placed(k)
    BY ReportedParts
  <1>2. Len(job) = 41 - k /\ \A j \in 2 .. 41 - k : job[j] = p[k + j] BY <1>1 DEF Remains
  <1>3. job # <<>> /\ (o[1] = "dec" \/ o[1] = "hex") BY DEF Convert, Does
  <1>4. /\ o \in Instr \cup Buffered /\ s \in Seq(Instr) /\ Len(s) = Len(job) - 1
        /\ \A i \in 1 .. Len(job) - 1 : s[i] = job[i + 1]
    BY <1>3, JobParts
  <1>5. o \in Numbers BY <1>3, <1>4, Kinds
  <1>6. job' = t /\ UNCHANGED <<machine, cursor, shown, vector>>
    BY DEF Convert, panics
  <1> HIDE DEF o, s
  <1>7. t[1] = <<"buffer", o>> /\ Len(t) = Len(s) + 1 /\ \A i \in 1 .. Len(s) : t[i + 1] = s[i]
    BY <1>4, <1>5, JobOfNumber
  <1> HIDE DEF t
  <1>8. Len(s) = 40 - k BY <1>2, <1>4
  <1>9. Len(t) = 41 - k BY <1>7, <1>8
  <1>10. ASSUME NEW j \in 2 .. 41 - k PROVE t[j] = p[k + j]
    <2> DEFINE i == j - 1
    <2>1. i \in 1 .. 40 - k /\ i + 1 = j OBVIOUS
    <2> HIDE DEF i
    <2>2. t[i + 1] = s[i] BY <1>7, <1>8, <2>1
    <2>3. s[i] = job[i + 1] BY <1>4, <1>8, <2>1
    <2>4. job[j] = p[k + j] BY <1>2
    <2> QED BY <2>1, <2>2, <2>3, <2>4
  <1>11. Remains(p, job', k) BY <1>6, <1>7, <1>9, <1>10 DEF Remains, o
  <1>12. p = panic(vector', stack') BY <1>6 DEF machine
  <1>13. (Pieces(shown))' = DrawnBy(p)[k] BY <1>1, <1>6
  <1>14. Roomy' => Placed(k)'
    BY <1>1, <1>6 DEF Placed, Roomy, OnScreen, machine, cursor
  <1> QED BY <1>11, <1>12, <1>13, <1>14, ReportedNext

\* Each step, from the k-th place of the report.
LEMMA ReportMoves ==
  ASSUME TypeOK, JobInv, BufferInv, ShownInv, vector # NoVector,
         NEW k \in 0 .. 41, Reported(k), job # <<>>, Next,
         ~ (\E v \in Faults : Fault(v)), ~ UNCHANGED vars
  PROVE  \E m \in 0 .. 41 : Reported(m)'
PROOF
  <1> DEFINE p == panic(vector, stack)  o == Head(job)
  <1>1. /\ k \in 0 .. 40
        /\ o[1] \in {"clearScreen", "halt", "text", "hex", "newline", "buffer"}
        /\ o[1] = "clearScreen" => k = 0
        /\ o[1] = "halt" => k = 40
        /\ o[1] \in {"text", "hex", "newline"} => k \in 1 .. 39 /\ o = p[k + 1]
        /\ o[1] = "buffer" => k \in 1 .. 39 /\ Arg = p[k + 1] /\ p[k + 1][1] = "hex"
        /\ k \in 1 .. 39 => Advances(p[k + 1], k + 1)
    BY FrontOfReport
  <1>2. p = panic(vector, stack) OBVIOUS
  <1> HIDE DEF p
  <1>3. k + 1 \in 0 .. 41 /\ (k + 1) - 1 = k BY <1>1
  <1>4. CASE Glyphs
    <2> DEFINE q == [piece |-> o, text |-> <<>>]
    <2>1. Does("text") /\ o[1] = "text" BY <1>4 DEF Glyphs, Does
    <2>2. k \in 1 .. 39 /\ o = p[k + 1] /\ p[k + 1][1] = "text" /\ Arg = p[k + 1][2]
      BY <1>1, <2>1 DEF Arg
    <2>3. Arg \in Nat /\ q \in What BY <2>1, GlyphsRight
    <2>4. kwrite(Arg, q) /\ job' = Tail(job) /\ UNCHANGED <<machine, vector>>
      BY <1>4 DEF Glyphs, panics
    <2>5. q.piece = p[k + 1] BY <2>2
    <2>6. /\ Rows[k + 1] = Rows[k] /\ Rows[k + 1] <= 15
          /\ Cols[k] + Arg <= Cols[k + 1] /\ Cols[k + 1] <= 100
      BY <1>1, <1>3, <2>2 DEF Advances
    <2> HIDE DEF q, o
    <2>7. Reported(k + 1)' BY <1>2, <2>2, <2>3, <2>4, <2>5, <2>6, ReportWrites
    <2> QED BY <1>3, <2>7
  <1>5. CASE Number
    <2> DEFINE t == IF Arg[1] = "dec" THEN dec_string ELSE hex_string
               q == [piece |-> Arg, text |-> t]
    <2>1. Does("buffer") /\ o[1] = "buffer" BY <1>5 DEF Number, Does
    <2>2. k \in 1 .. 39 /\ Arg = p[k + 1] /\ p[k + 1][1] = "hex"
      BY <1>1, <2>1
    <2>3. /\ Arg \in Numbers /\ t \in Seq(Symbol) /\ q \in What
          /\ Arg[1] = "hex" => t = hex2str(Arg[2])
      BY <2>1, NumberRight
    <2>4. kwrite(Len(t), q) /\ job' = Tail(job) /\ UNCHANGED <<machine, vector>>
      BY <1>5 DEF Number, panics
    <2>5. q.piece = p[k + 1] BY <2>2
    <2> HIDE DEF q, o, t
    <2>6. Len(t) \in Nat /\ Len(t) <= 10
      <3>1. Arg[2] \in Integer BY <2>2, <2>3, NumberKinds
      <3>2. Len(hex2str(Arg[2])) <= 10 BY <3>1, HexRight
      <3>3. t = hex2str(Arg[2]) BY <2>2, <2>3
      <3>4. Len(t) \in Nat BY <2>3
      <3> QED BY <3>2, <3>3, <3>4
    <2>7. /\ Rows[k + 1] = Rows[k] /\ Rows[k + 1] <= 15
          /\ Cols[k] + 10 <= Cols[k + 1] /\ Cols[k + 1] <= 100
      BY <1>1, <1>3, <2>2 DEF Advances
    <2>8. Cols[k] + Len(t) <= Cols[k + 1]
      <3>1. Cols[k] \in Nat /\ Cols[k + 1] \in Nat
        <4>1. k \in 1 .. 41 /\ k + 1 \in 1 .. 41 BY <2>2, Places, Zenon
        <4> QED BY <4>1, TableTypes
      <3> QED BY <2>6, <2>7, <3>1
    <2>9. Reported(k + 1)' BY <1>2, <2>2, <2>3, <2>4, <2>5, <2>6, <2>7, <2>8, ReportWrites
    <2> QED BY <1>3, <2>9
  <1>6. CASE Newline
    <2>1. o[1] = "newline" BY <1>6 DEF Newline, Does
    <2>2. k \in 1 .. 39 /\ o = p[k + 1] /\ p[k + 1][1] = "newline" BY <1>1, <2>1
    <2>3. /\ job' = Tail(job) /\ UNCHANGED <<machine, vector, shown, prevX>>
          /\ x' = prevX /\ y' = y + 20
      BY <1>6 DEF Newline, panics, LineHeight
    <2>4. Rows[k + 1] = Rows[k] + 1 /\ Cols[k + 1] = 0
      BY <1>1, <1>3, <2>2 DEF Advances
    <2>5. k > 1
      <3>1. p[2][1] = "text" BY <1>2, PanicSteps
      <3>2. k # 1 BY <2>2, <3>1
      <3> QED BY <2>2, <3>2, Places, Zenon
    <2>6. Rows[k] \in Nat
      <3>1. k \in 1 .. 41 BY <2>2
      <3> QED BY <3>1, TableTypes
    <2>7. Placed(k) => x' <= 8 * Cols[k + 1] /\ y' = 55 + 20 * Rows[k + 1]
      BY <2>3, <2>4, <2>6 DEF Placed
    <2>8. k \in 1 .. 40 /\ ~(p[k + 1][1] \in {"text", "dec", "hex"}) BY <2>2
    <2> HIDE DEF o
    <2>9. Reported(k + 1)' BY <1>2, <2>3, <2>5, <2>7, <2>8, ReportPasses
    <2> QED BY <1>3, <2>9
  <1>7. CASE Convert
    <2>1. o[1] = "dec" \/ o[1] = "hex" BY <1>7 DEF Convert, Does
    <2>2. k \in 1 .. 39 /\ o = p[k + 1] BY <1>1, <2>1
    <2>3. Reported(k)' BY <1>2, <1>7, <2>2, ReportConverts
    <2> QED BY <2>3
  <1>8. CASE clearScreen
    <2>1. k = 0 BY <1>1, <1>8 DEF clearScreen, Does
    <2>2. Reported(1)' BY <1>8, <2>1, ReportClears
    <2> QED BY <2>2
  <1>9. CASE halt
    <2>1. k = 40 /\ o[1] = "halt" BY <1>1, <1>9 DEF halt, Does
    <2>2. UNCHANGED <<machine, vector, shown, prevX>> /\ UNCHANGED cursor /\ job' = <<>>
      BY <1>9 DEF halt, panics, cursor
    <2>3. job' = Tail(job)
      <3>1. Remains(p, job, 40) BY <1>2, <2>1, ReportedParts
      <3>2. Len(job) = 1 BY <3>1 DEF Remains
      <3>3. Tail(job) \in Seq(Instr) /\ Len(Tail(job)) = 0 BY <3>2, JobParts
      <3>4. Tail(job) = <<>> BY <3>3, EmptySeq
      <3> QED BY <2>2, <3>4
    <2>4. p[40 + 1][1] = "halt" /\ ~(p[40 + 1][1] \in {"text", "dec", "hex"})
      <3>1. p[41] = <<"halt">> BY <1>2, PanicSteps
      <3>2. 40 + 1 = 41 OBVIOUS
      <3> QED BY <3>1, <3>2
    <2>5. Placed(40) => x' <= 8 * Cols[40 + 1] /\ y' = 55 + 20 * Rows[40 + 1]
      <3>1. /\ Cols[40] = 0 /\ Cols[40 + 1] = 0
            /\ Rows[40] = 16 /\ Rows[40 + 1] = 16
        <4>1. 40 + 1 = 41 OBVIOUS
        <4> QED BY <4>1, Tables
      <3> QED BY <2>2, <3>1 DEF Placed, cursor
    <2>6. Reported(40 + 1)'
      <3>1. 40 \in 1 .. 40 /\ 40 > 1 /\ Reported(40) BY <2>1
      <3> QED BY <1>2, <2>2, <2>3, <2>4, <2>5, <3>1, ReportPasses
    <2> QED BY <1>3, <2>1, <2>6
  <1>10. ~ idt_install /\ ~ acpi_init /\ ~ ScanClear /\ ~ ScanFound /\ ~ ScanEnd
         /\ ~ syscall_dispatcher /\ ~ draw_square
    BY <1>1 DEF idt_install, acpi_init, ScanClear, ScanFound, ScanEnd, syscall_dispatcher,
                draw_square, Does
  <1> QED BY <1>4, <1>5, <1>6, <1>7, <1>8, <1>9, <1>10 DEF Next, Stop

\* Every step keeps to the report.
LEMMA ReportStep ==
  ASSUME TypeOK, JobInv, BufferInv, ShownInv, ReportInv, [Next]_vars
  PROVE  ReportInv'
PROOF
  <1>1. ASSUME NEW v \in Faults, Fault(v) PROVE ReportInv'
    <2>1. Reported(0)' BY <1>1, ReportStarts
    <2> QED BY <2>1 DEF ReportInv
  <1>2. CASE UNCHANGED vars
    <2>1. UNCHANGED <<machine, job, cursor, shown, vector>> BY <1>2 DEF vars, panics
    <2>2. ASSUME NEW k \in 0 .. 41, Reported(k) PROVE Reported(k)'
      <3> DEFINE p == panic(vector, stack)
      <3>1. /\ Remains(p, job, k)
            /\ k >= 1 => Pieces(shown) = DrawnBy(p)[k]
            /\ k >= 1 /\ Roomy => Placed(k)
        BY <2>2, ReportedParts
      <3>2. p = panic(vector', stack') BY <2>1 DEF machine
      <3> HIDE DEF p
      <3>3. Roomy' /\ k >= 1 => Placed(k)'
        BY <2>1, <3>1 DEF Placed, Roomy, OnScreen, machine, cursor
      <3>4. (Pieces(shown))' = Pieces(shown) /\ job' = job BY <2>1
      <3> QED BY <3>1, <3>2, <3>3, <3>4, ReportedNext
    <2> QED BY <2>1, <2>2 DEF ReportInv
  <1>3. CASE Next /\ ~ (\E v \in Faults : Fault(v)) /\ ~ UNCHANGED vars
    <2> SUFFICES ASSUME vector' # NoVector PROVE \E k \in 0 .. 41 : Reported(k)'
      BY DEF ReportInv
    <2>1. vector' = vector /\ job # <<>>
      BY <1>3 DEF Next, Stop, Glyphs, Newline, Convert, Number, clearScreen, idt_install,
                  acpi_init, ScanClear, ScanFound, ScanEnd, syscall_dispatcher, draw_square,
                  halt, Does, panics
    <2>2. PICK k \in 0 .. 41 : Reported(k) BY <2>1 DEF ReportInv
    <2> QED BY <1>3, <2>1, <2>2, ReportMoves
  <1> QED BY <1>1, <1>2, <1>3

\* The invariant at the start ...
LEMMA InitialState == Init => IInv
PROOF
  <1> SUFFICES ASSUME Init PROVE IInv OBVIOUS
  <1>1. TypeOK
    <2>1. <<>> \in Seq(0 .. Minus) /\ <<>> \in Seq(0 .. Ex) OBVIOUS
    <2>2. MaxDevices \in Nat /\ MaxFaults \in Nat BY BoundsAssumption
    <2>3. /\ x \in Nat /\ y \in Nat /\ prevX \in Nat
          /\ device_count \in 0 .. MaxDevices /\ tmp \in 0 .. 20 /\ faults \in 0 .. MaxFaults
      BY <2>2 DEF Init
    <2>4. idtr \in BOOLEAN /\ vector \in Faults \cup {NoVector} BY DEF Init
    <2>5. screen \in Screens /\ device \in Functions /\ stack \in Stacks BY DEF Init
    <2>6. dec_string = <<>> /\ hex_string = <<>> BY DEF Init
    <2> QED BY <2>1, <2>3, <2>4, <2>5, <2>6 DEF TypeOK
  <1>2. JobInv
    <2>1. calls \in Seq(Nat) /\ job = Main BY CallsAssumption DEF Init
    <2> QED BY <2>1, MainTyped, JobOf DEF JobInv
  <1>3. BufferInv
    <2> SUFFICES ASSUME Does("buffer") PROVE FALSE BY DEF BufferInv
    <2>1. job \in Seq(Instr) BY MainTyped DEF Init
    <2>2. Head(job) \in Instr /\ Head(job)[1] = "buffer" BY <2>1 DEF Does
    <2> QED BY <2>2 DEF Instr, Drawing, Numbers, Plain, Squares
  <1>4. ShownInv BY DEF Init, ShownInv
  <1>5. ReportInv BY DEF Init, ReportInv
  <1> QED BY <1>1, <1>2, <1>3, <1>4, <1>5 DEF IInv

\* ... and in every step.
LEMMA InvariantStep == IInv /\ [Next]_vars => IInv'
PROOF
  <1> SUFFICES ASSUME IInv, [Next]_vars PROVE IInv' OBVIOUS
  <1>1. TypeOK /\ JobInv /\ BufferInv /\ ShownInv /\ ReportInv BY DEF IInv
  <1>2. TypeOK' /\ ShownInv' BY <1>1, TypeStep
  <1>3. JobInv' /\ BufferInv' BY <1>1, JobStep
  <1>4. ReportInv' BY <1>1, ReportStep
  <1> QED BY <1>2, <1>3, <1>4 DEF IInv

-----------------------------------------------------------------------------
(* The theorems.                                                           *)

\* The inductive invariant holds in every state: what is left to do is a list of
\* instructions of which only the first may have been converted already; that
\* conversion is still in its buffer; what is on the screen is right; and after an
\* exception the machine is at some place of its report.
THEOREM Invariant == Spec => []IInv
PROOF
  BY InitialState, InvariantStep, PTL DEF Spec

\* The variables have the types that TypeOK lists.
THEOREM TypeCorrect == Spec => []TypeOK
PROOF
  <1>1. IInv => TypeOK BY DEF IInv
  <1> QED BY <1>1, Invariant, PTL

\* Every number on the screen is the one that log was given, hexadecimals for every
\* int and decimals for every natural number (no negative one is logged), although
\* dec2str and hex2str each return the same static buffer to all their callers.
THEOREM NumbersAreRight == Spec => []NumbersRight
PROOF
  <1>1. IInv => NumbersRight
    <2> SUFFICES ASSUME IInv PROVE NumbersRight OBVIOUS
    <2>1. shown \in Seq(Entry) BY DEF IInv, ShownInv
    <2>2. ASSUME NEW r \in ToSet(shown) PROVE r \in Entry BY <2>1 DEF ToSet
    <2>3. ASSUME NEW r \in ToSet(shown) PROVE Right(r.what)
      <3>1. r.what \in What BY <2>2 DEF Entry
      <3> QED BY <3>1 DEF What
    <2> QED BY <2>3 DEF NumbersRight, Right, HexGood
  <1> QED BY <1>1, Invariant, PTL

\* A machine that halted after an exception shows the whole report of the last one and
\* nothing else, whatever the exception interrupted: log, a system call, the scan,
\* or the report of another exception.
THEOREM ReportIsWhole == Spec => []ReportWhole
PROOF
  <1>1. IInv => ReportWhole
    <2> SUFFICES ASSUME IInv, job = <<>>, vector # NoVector
                 PROVE  /\ Pieces(shown) = Drawn(panic(vector, stack))
                        /\ screen.w >= 800 /\ screen.h >= 371 =>
                             /\ shown[1].x = 0 /\ shown[1].y = 55
                             /\ \A r \in ToSet(shown) : OnScreen(r)
      BY DEF ReportWhole
    <2> DEFINE p == panic(vector, stack)
    <2>1. PICK k \in 0 .. 41 : Reported(k) BY DEF IInv, ReportInv
    <2>2. /\ Remains(p, job, k)
          /\ k >= 1 => Pieces(shown) = DrawnBy(p)[k]
          /\ k >= 1 /\ Roomy => Placed(k)
      BY <2>1, ReportedParts
    <2>3. Len(p) = 41 BY PanicSteps
    <2> HIDE DEF p
    <2>4. k = 41 BY <2>2 DEF Remains
    <2>5. Pieces(shown) = Drawn(p) BY <2>2, <2>3, <2>4 DEF Drawn
    <2>6. ASSUME screen.w >= 800, screen.h >= 371
          PROVE  /\ shown[1].x = 0 /\ shown[1].y = 55
                 /\ \A r \in ToSet(shown) : OnScreen(r)
      <3>1. Placed(41) BY <2>2, <2>4, <2>6 DEF Roomy
      <3>2. \A j \in 1 .. Len(shown) : OnScreen(shown[j]) BY <3>1 DEF Placed
      <3>3. \A r \in ToSet(shown) : OnScreen(r) BY <3>2 DEF ToSet
      <3> QED BY <3>1, <3>3 DEF Placed
    <2> QED BY <2>5, <2>6 DEF p
  <1> QED BY <1>1, Invariant, PTL
====
