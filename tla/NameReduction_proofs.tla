------------------------ MODULE NameReduction_proofs ------------------------
(***************************************************************************)
(* Proofs about NameReduction, for symbols of any length: the loop over    *)
(* the digits ends inside the symbol, and a C++ function whose identifier  *)
(* follows _Z is entered under it unless the length of it ends in 0.       *)
(***************************************************************************)
EXTENDS NameReduction, DataLemmas

----------------------------------------------------------------------------
(* Digits and the numbers they stand for.                                  *)

LEMMA DivMod ==
  ASSUME NEW n \in Nat
  PROVE  /\ n % 10 \in 0 .. 9 /\ n \div 10 \in Nat /\ n = 10 * (n \div 10) + (n % 10)
         /\ n < 10 => n % 10 = n
         /\ n >= 10 => n \div 10 < n /\ n \div 10 >= 1
  BY SMT

LEMMA DigitValue ==
  ASSUME NEW d \in 0 .. 9
  PROVE  /\ Digits[d + 1] \in Characters /\ IsDigit(Digits[d + 1])
         /\ Value(Digits[d + 1]) = d
<1>1. Len(Digits) = 10 /\ d + 1 \in 1 .. 10
  BY DEF Digits
<1>2. \A j, k \in 1 .. 10 : Digits[j] = Digits[k] => j = k
  BY DEF Digits
<1>3. \A j \in 1 .. 10 : Digits[j] \in Characters
  <2>1. DOMAIN Digits = 1 .. 10
    BY DEF Digits
  <2> QED BY <2>1, NameAssumption DEF Range
<1> DEFINE c == Digits[d + 1]
           x == CHOOSE j \in 1 .. 10 : Digits[j] = c
<1>4. x \in 1 .. 10 /\ Digits[x] = c
  BY <1>1
<1>5. x = d + 1
  BY <1>1, <1>2, <1>4
<1>6. Value(c) = x - 1
  BY DEF Value
<1> HIDE DEF x
<1>7. Value(c) = d
  BY <1>5, <1>6
<1> QED BY <1>1, <1>3, <1>7 DEF IsDigit, Contains

\* Only the character 0 has the value zero.
LEMMA ValueInRange ==
  ASSUME NEW c, IsDigit(c)
  PROVE  Value(c) \in 0 .. 9 /\ (Value(c) = 0 <=> c = "0")
<1>1. PICK j \in 1 .. 10 : Digits[j] = c
  BY DEF IsDigit, Contains, Digits
<1>2. j - 1 \in 0 .. 9 /\ (j - 1) + 1 = j
  BY <1>1
<1>3. Value(c) = j - 1
  BY <1>1, <1>2, DigitValue
<1>4. c = "0" <=> j = 1
  BY <1>1 DEF Digits
<1> QED BY <1>2, <1>3, <1>4

----------------------------------------------------------------------------
(* atoi: how many digits it reads, and when what it reads is zero.         *)

LEMMA DigitsAtProperties ==
  ASSUME NEW s \in Seq(Characters), NEW k \in 0 .. Len(s)
  PROVE  /\ DigitsAt(s, k) \in 0 .. Len(s) - k
         /\ \A j \in k + 1 .. k + DigitsAt(s, k) : IsDigit(s[j])
         /\ k + DigitsAt(s, k) < Len(s) => ~ IsDigit(s[k + DigitsAt(s, k) + 1])
<1> DEFINE Leading(n) == \A j \in k + 1 .. k + n : IsDigit(s[j])
           T == {n \in 0 .. Len(s) - k : Leading(n)}
<1>1. Len(s) \in Nat /\ Len(s) - k \in Nat
  OBVIOUS
<1>2. 0 \in T
  BY <1>1
<1>3. T \in SUBSET (0 .. Len(s) - k)
  OBVIOUS
<1> HIDE DEF T
<1>4. PICK n \in T : \A m \in T : n >= m
  BY <1>1, <1>2, <1>3, GreatestUpTo
<1>5. n \in 0 .. Len(s) - k /\ Leading(n)
  BY DEF T
<1>6. ASSUME k + n < Len(s), IsDigit(s[k + n + 1]) PROVE FALSE
  <2>1. n + 1 \in 0 .. Len(s) - k
    BY <1>1, <1>5, <1>6
  <2>2. \A j \in k + 1 .. k + (n + 1) : j \in k + 1 .. k + n \/ j = k + n + 1
    BY <1>1, <1>5
  <2>3. n + 1 \in T
    BY <1>5, <1>6, <2>1, <2>2 DEF T
  <2> QED BY <1>4, <1>5, <2>3
<1> QED BY <1>5, <1>6 DEF DigitsAt

LEMMA DigitsAtUnique ==
  ASSUME NEW s \in Seq(Characters), NEW k \in 0 .. Len(s), NEW n \in 0 .. Len(s) - k,
         \A j \in k + 1 .. k + n : IsDigit(s[j]),
         k + n < Len(s) => ~ IsDigit(s[k + n + 1])
  PROVE  DigitsAt(s, k) = n
<1> DEFINE m == DigitsAt(s, k)
<1>1. /\ m \in 0 .. Len(s) - k /\ Len(s) \in Nat
      /\ \A j \in k + 1 .. k + m : IsDigit(s[j])
      /\ k + m < Len(s) => ~ IsDigit(s[k + m + 1])
  BY DigitsAtProperties
<1> HIDE DEF m
<1>2. ~ (m < n)
  <2>1. m < n => k + m < Len(s) /\ k + m + 1 \in k + 1 .. k + n
    BY <1>1
  <2> QED BY <1>1, <2>1
<1>3. ~ (n < m)
  <2>1. n < m => k + n < Len(s) /\ k + n + 1 \in k + 1 .. k + m
    BY <1>1
  <2> QED BY <1>1, <2>1
<1> QED BY <1>1, <1>2, <1>3 DEF m

\* v[j] is the number that the first j characters behind position k of s
\* stand for.
Numbers(v, s, k, n) ==
    /\ v \in [0 .. n -> Nat] /\ v[0] = 0
    /\ \A j \in 1 .. n : v[j] = 10 * v[j - 1] + Value(s[k + j])

LEMMA NumbersExist ==
  ASSUME NEW s, NEW k \in Nat, NEW n \in Nat, \A j \in k + 1 .. k + n : IsDigit(s[j])
  PROVE  \E v : Numbers(v, s, k, n)
<1> DEFINE step == [j \in 1 .. n |-> [m \in Nat |-> 10 * m + Value(s[k + j])]]
<1>1. \A j \in 1 .. n : Value(s[k + j]) \in Nat
  <2>1. \A j \in 1 .. n : k + j \in k + 1 .. k + n
    OBVIOUS
  <2> QED BY <2>1, ValueInRange
<1>2. step \in [1 .. n -> [Nat -> Nat]]
  BY <1>1
<1>3. \A j \in 1 .. n, m \in Nat : step[j][m] = 10 * m + Value(s[k + j])
  OBVIOUS
<1> HIDE DEF step
<1>4. PICK v : PrimRec(v, n, Nat, 0, step)
  BY <1>2, RecursionExists
<1>5. ASSUME NEW j \in 1 .. n PROVE v[j] = 10 * v[j - 1] + Value(s[k + j])
  <2>1. j - 1 \in 0 .. n
    OBVIOUS
  <2>2. v[j - 1] \in Nat /\ v[j] = step[j][v[j - 1]]
    BY <1>4, <2>1 DEF PrimRec
  <2> QED BY <1>3, <2>2
<1> QED BY <1>4, <1>5 DEF PrimRec, Numbers

\* Atoi is the last of these numbers.
LEMMA AtoiIsNumber ==
  ASSUME NEW s \in Seq(Characters), NEW k \in 0 .. Len(s), NEW v,
         Numbers(v, s, k, DigitsAt(s, k))
  PROVE  Atoi(s, k) = v[DigitsAt(s, k)]
<1> DEFINE n == DigitsAt(s, k)
           Eq(g) == g = [j \in 0 .. n |->
                           IF j = 0 THEN 0 ELSE 10 * g[j - 1] + Value(s[k + j])]
           u == CHOOSE g : Eq(g)
<1>1. Atoi(s, k) = u[n]
  BY DEF Atoi
<1>2. n \in Nat
  BY DigitsAtProperties
<1> HIDE DEF n
<1>3. Numbers(v, s, k, n)
  BY DEF n
<1>4. Eq(v)
  <2>1. v = [j \in 0 .. n |-> v[j]]
    BY <1>3 DEF Numbers
  <2>2. \A j \in 0 .. n : j # 0 => j \in 1 .. n
    BY <1>2
  <2>3. \A j \in 0 .. n : v[j] = IF j = 0 THEN 0 ELSE 10 * v[j - 1] + Value(s[k + j])
    BY <1>3, <2>2 DEF Numbers
  <2> QED BY <2>1, <2>3
<1>5. Eq(u)
  BY <1>4
<1> HIDE DEF u
<1>6. \A j \in 0 .. n : u[j] = IF j = 0 THEN 0 ELSE 10 * u[j - 1] + Value(s[k + j])
  BY <1>5
<1> HIDE DEF Eq
<1> DEFINE P == {j \in 0 .. n : u[j] = v[j]}
<1>7. 0 \in P
  BY <1>2, <1>3, <1>6 DEF Numbers
<1>8. ASSUME NEW j \in 1 .. n, j - 1 \in P PROVE j \in P
  <2>1. j \in 0 .. n /\ j # 0 /\ u[j - 1] = v[j - 1]
    BY <1>2, <1>8
  <2> QED BY <1>3, <1>6, <2>1 DEF Numbers
<1> HIDE DEF P
<1>9. u[n] = v[n]
  <2>1. n \in 0 .. n
    BY <1>2
  <2>2. n \in P
    BY <1>2, <1>7, <1>8, <2>1, UpTo
  <2> QED BY <2>2 DEF P
<1> QED BY <1>1, <1>9 DEF n

\* What only has zeros is zero.
LEMMA NumbersZero ==
  ASSUME NEW s, NEW k \in Nat, NEW n \in Nat, NEW v, Numbers(v, s, k, n),
         \A j \in 1 .. n : s[k + j] = "0"
  PROVE  v[n] = 0
<1> DEFINE P == {j \in 0 .. n : v[j] = 0}
<1>1. 0 \in P
  BY DEF Numbers
<1>2. ASSUME NEW j \in 1 .. n, j - 1 \in P PROVE j \in P
  <2>1. Value("0") = 0
    <3>1. Digits[0 + 1] = "0"
      BY DEF Digits
    <3> QED BY <3>1, DigitValue
  <2>2. v[j] = 10 * 0 + Value("0")
    BY <1>2 DEF Numbers
  <2> QED BY <2>1, <2>2
<1> HIDE DEF P
<1>3. n \in 0 .. n
  OBVIOUS
<1>4. n \in P
  BY <1>1, <1>2, <1>3, UpTo
<1> QED BY <1>4 DEF P

\* The numbers never become smaller.
LEMMA NumbersGrow ==
  ASSUME NEW s, NEW k \in Nat, NEW n \in Nat, NEW v, Numbers(v, s, k, n),
         \A j \in k + 1 .. k + n : IsDigit(s[j]), NEW a \in 0 .. n
  PROVE  \A b \in a .. n : v[b] >= v[a]
<1> DEFINE P == {d \in 0 .. n - a : v[a + d] >= v[a]}
<1>1. 0 \in P
  <2>1. v[a] \in Nat
    BY DEF Numbers
  <2> QED BY <2>1
<1>2. ASSUME NEW d \in 1 .. n - a, d - 1 \in P PROVE d \in P
  <2>1. a + d \in 1 .. n /\ (a + d) - 1 = a + (d - 1) /\ a + (d - 1) \in 0 .. n
    OBVIOUS
  <2>2. v[a + d] = 10 * v[a + (d - 1)] + Value(s[k + (a + d)])
    BY <2>1 DEF Numbers
  <2>3. Value(s[k + (a + d)]) \in 0 .. 9
    <3>1. k + (a + d) \in k + 1 .. k + n
      BY <2>1
    <3> QED BY <3>1, ValueInRange
  <2>4. v[a] \in Nat /\ v[a + (d - 1)] \in Nat /\ v[a + (d - 1)] >= v[a]
    BY <1>2, <2>1 DEF Numbers
  <2> QED BY <2>2, <2>3, <2>4
<1>3. n - a \in Nat
  OBVIOUS
<1> HIDE DEF P
<1>4. \A d \in 0 .. n - a : d \in P
  BY <1>1, <1>2, <1>3, UpTo
<1>5. ASSUME NEW b \in a .. n PROVE v[b] >= v[a]
  <2>1. b - a \in 0 .. n - a /\ a + (b - a) = b
    OBVIOUS
  <2> QED BY <1>4, <2>1 DEF P
<1> QED BY <1>5

\* atoi is zero just where all the digits it reads are zeros.
LEMMA AtoiZero ==
  ASSUME NEW s \in Seq(Characters), NEW k \in 0 .. Len(s)
  PROVE  Atoi(s, k) = 0 <=> \A j \in 1 .. DigitsAt(s, k) : s[k + j] = "0"
<1> DEFINE n == DigitsAt(s, k)
<1>1. n \in Nat /\ k \in Nat /\ \A j \in k + 1 .. k + n : IsDigit(s[j])
  BY DigitsAtProperties
<1>2. PICK v : Numbers(v, s, k, n)
  BY <1>1, NumbersExist
<1>3. Atoi(s, k) = v[n]
  BY <1>2, AtoiIsNumber
<1> HIDE DEF n
<1>4. ASSUME \A j \in 1 .. n : s[k + j] = "0" PROVE v[n] = 0
  BY <1>1, <1>2, <1>4, NumbersZero
<1>5. ASSUME NEW j \in 1 .. n, s[k + j] # "0" PROVE v[n] # 0
  <2>1. j \in 0 .. n /\ n \in j .. n /\ j - 1 \in 0 .. n /\ k + j \in k + 1 .. k + n
    BY <1>1
  <2>2. Value(s[k + j]) \in 1 .. 9
    <3>1. IsDigit(s[k + j])
      BY <1>1, <2>1
    <3> QED BY <1>5, <3>1, ValueInRange
  <2>3. v[j] = 10 * v[j - 1] + Value(s[k + j]) /\ v[j - 1] \in Nat /\ v[j] \in Nat /\ v[n] \in Nat
    BY <1>1, <1>2, <2>1 DEF Numbers
  <2>4. v[n] >= v[j]
    BY <1>1, <1>2, <2>1, NumbersGrow
  <2>5. \A x \in Nat, y \in 1 .. 9 : 10 * x + y >= 1
    OBVIOUS
  <2>6. v[j] >= 1
    BY <2>2, <2>3, <2>5
  <2> QED BY <2>3, <2>4, <2>6
<1> QED BY <1>3, <1>4, <1>5 DEF n

----------------------------------------------------------------------------
(* The decimal numeral of a number.  Its function is defined by recursion  *)
(* on the tenth: f[n] is what n rounds of the rule have made of n, and no  *)
(* later round changes it.                                                 *)

LEMMA DecimalEq ==
  \A n \in Nat :
     Decimal[n] = IF n < 10 THEN <<Digits[n + 1]>>
                  ELSE Append(Decimal[n \div 10], Digits[(n % 10) + 1])
<1> DEFINE S == [Nat -> Seq(Characters)]
           base == [n \in Nat |-> <<Digits[(n % 10) + 1]>>]
           rule(F) == [n \in Nat |-> IF n < 10 THEN <<Digits[n + 1]>>
                                     ELSE Append(F[n \div 10], Digits[(n % 10) + 1])]
           step == [F \in S |-> rule(F)]
           Eq(F) == F = rule(F)
           d == CHOOSE F : Eq(F)
<1>1. base \in S
  <2>1. ASSUME NEW n \in Nat PROVE <<Digits[(n % 10) + 1]>> \in Seq(Characters)
    <3>1. Digits[(n % 10) + 1] \in Characters
      BY DivMod, DigitValue
    <3> QED BY <3>1
  <2> QED BY <2>1
<1>2. ASSUME NEW F \in S PROVE rule(F) \in S
  <2>1. ASSUME NEW n \in Nat, n < 10 PROVE <<Digits[n + 1]>> \in Seq(Characters)
    <3>1. n \in 0 .. 9
      BY <2>1
    <3>2. Digits[n + 1] \in Characters
      BY <3>1, DigitValue
    <3> QED BY <3>2
  <2>2. ASSUME NEW n \in Nat
        PROVE  Append(F[n \div 10], Digits[(n % 10) + 1]) \in Seq(Characters)
    <3>1. Digits[(n % 10) + 1] \in Characters
      BY DivMod, DigitValue
    <3>2. F[n \div 10] \in Seq(Characters)
      BY DivMod
    <3> QED BY <3>1, <3>2
  <2> QED BY <2>1, <2>2
<1>3. step \in [S -> S]
  BY <1>2
<1>4. \A F \in S : step[F] = rule(F)
  OBVIOUS
<1> HIDE DEF S, step, base
<1>5. PICK g \in [Nat -> S] : g[0] = base /\ \A k \in Nat \ {0} : g[k] = step[g[k - 1]]
  BY <1>1, <1>3, RecursionOnNat
<1>6. ASSUME NEW k \in Nat \ {0}, NEW n \in Nat
      PROVE  g[k][n] = IF n < 10 THEN <<Digits[n + 1]>>
                       ELSE Append(g[k - 1][n \div 10], Digits[(n % 10) + 1])
  <2>1. k - 1 \in Nat /\ g[k - 1] \in S
    BY <1>5
  <2>2. g[k] = rule(g[k - 1])
    BY <1>4, <1>5, <2>1
  <2> QED BY <2>2
<1> HIDE DEF rule
<1> DEFINE f == [n \in Nat |-> g[n][n]]
           Settled(k) == \A m \in 0 .. k : g[k + 1][m] = g[k][m] /\ g[k][m] = f[m]
           P(N) == {k \in 0 .. N : Settled(k)}
<1>7. Settled(0)
  <2>1. g[1][0] = <<Digits[1]>>
    <3>1. 0 < 10 /\ 1 \in Nat \ {0} /\ 0 \in Nat /\ 0 + 1 = 1
      OBVIOUS
    <3>2. g[1][0] = IF 0 < 10 THEN <<Digits[0 + 1]>>
                    ELSE Append(g[1 - 1][0 \div 10], Digits[(0 % 10) + 1])
      BY <1>6, <3>1
    <3> QED BY <3>1, <3>2
  <2>2. g[0][0] = <<Digits[1]>>
    <3>1. 0 % 10 = 0
      BY DivMod
    <3> QED BY <1>5, <3>1 DEF base
  <2> QED BY <2>1, <2>2
<1>8. ASSUME NEW k \in Nat \ {0}, Settled(k - 1) PROVE Settled(k)
  <2>1. ASSUME NEW m \in 0 .. k - 1 PROVE g[k][m] = g[k - 1][m] /\ g[k - 1][m] = f[m]
    BY <1>8
  <2> HIDE DEF Settled
  <2>2. ASSUME NEW m \in 0 .. k PROVE g[k][m] = f[m]
    <3>1. CASE m = k
      BY <3>1
    <3>2. CASE m # k
      <4>1. m \in 0 .. k - 1
        BY <3>2
      <4> QED BY <2>1, <4>1
    <3> QED BY <3>1, <3>2
  <2>3. ASSUME NEW m \in 0 .. k PROVE g[k + 1][m] = g[k][m]
    <3>1. m \in Nat /\ k + 1 \in Nat \ {0} /\ (k + 1) - 1 = k
      OBVIOUS
    <3>2. CASE m < 10
      <4>1. g[k + 1][m] = <<Digits[m + 1]>>
        BY <1>6, <3>1, <3>2
      <4>2. g[k][m] = <<Digits[m + 1]>>
        BY <1>6, <3>1, <3>2
      <4> QED BY <4>1, <4>2
    <3>3. CASE ~ (m < 10)
      <4>1. m \div 10 \in 0 .. k - 1
        BY <3>1, <3>3, DivMod
      <4>2. g[k][m \div 10] = g[k - 1][m \div 10]
        BY <2>1, <4>1
      <4>3. g[k + 1][m] = Append(g[k][m \div 10], Digits[(m % 10) + 1])
        BY <1>6, <3>1, <3>3
      <4>4. g[k][m] = Append(g[k - 1][m \div 10], Digits[(m % 10) + 1])
        BY <1>6, <3>1, <3>3
      <4> QED BY <4>2, <4>3, <4>4
    <3> QED BY <3>2, <3>3
  <2> QED BY <2>2, <2>3 DEF Settled
<1> HIDE DEF Settled
<1>9. ASSUME NEW N \in Nat PROVE Settled(N)
  <2>1. 0 \in P(N)
    BY <1>7
  <2>2. ASSUME NEW k \in 1 .. N, k - 1 \in P(N) PROVE k \in P(N)
    <3>1. k \in Nat \ {0} /\ k \in 0 .. N
      OBVIOUS
    <3> QED BY <1>8, <2>2, <3>1
  <2> HIDE DEF P
  <2>3. N \in 0 .. N
    OBVIOUS
  <2>4. N \in P(N)
    BY <2>1, <2>2, <2>3, UpTo
  <2> QED BY <2>4 DEF P
<1>10. Eq(f)
  <2>1. ASSUME NEW n \in Nat
        PROVE  f[n] = IF n < 10 THEN <<Digits[n + 1]>>
                      ELSE Append(f[n \div 10], Digits[(n % 10) + 1])
    <3>1. CASE n < 10
      <4>1. n % 10 = n
        BY <3>1, DivMod
      <4>2. n = 0 => f[n] = <<Digits[n + 1]>>
        BY <1>5, <4>1 DEF base
      <4>3. n # 0 => f[n] = <<Digits[n + 1]>>
        BY <1>6, <3>1
      <4> QED BY <3>1, <4>2, <4>3
    <3>2. CASE n >= 10
      <4>1. n - 1 \in Nat /\ n \in Nat \ {0} /\ n \div 10 \in 0 .. n - 1 /\ ~ (n < 10)
        BY <3>2, DivMod
      <4>2. f[n] = Append(g[n - 1][n \div 10], Digits[(n % 10) + 1])
        BY <1>6, <4>1
      <4>3. g[n - 1][n \div 10] = f[n \div 10]
        BY <1>9, <4>1 DEF Settled
      <4> QED BY <4>1, <4>2, <4>3
    <3> QED BY <3>1, <3>2
  <2> HIDE DEF f
  <2>2. f = [n \in Nat |-> f[n]]
    BY DEF f
  <2> QED BY <2>1, <2>2 DEF rule
<1>11. Decimal = d
  BY DEF Decimal, rule
<1> HIDE DEF f
<1>12. Eq(d)
  BY <1>10
<1> HIDE DEF d
<1> QED BY <1>11, <1>12 DEF rule

LEMMA DecimalType == \A n \in Nat : Decimal[n] \in Seq(Characters)
<1> DEFINE T == {n \in Nat : Decimal[n] \notin Seq(Characters)}
<1>1. ASSUME T # {} PROVE FALSE
  <2>1. T \in SUBSET Nat
    OBVIOUS
  <2> HIDE DEF T
  <2>2. PICK n \in T : \A m \in T : n <= m
    BY <1>1, <2>1, LeastNatural
  <2>3. n \in Nat /\ Decimal[n] \notin Seq(Characters)
    BY DEF T
  <2>4. CASE n < 10
    <3>1. n \in 0 .. 9
      BY <2>3, <2>4
    <3>2. Digits[n + 1] \in Characters
      BY <3>1, DigitValue
    <3>3. Decimal[n] = <<Digits[n + 1]>>
      BY <2>3, <2>4, DecimalEq
    <3> QED BY <2>3, <3>2, <3>3
  <2>5. CASE ~ (n < 10)
    <3>1. n \div 10 \in Nat /\ n \div 10 < n /\ n % 10 \in 0 .. 9
      BY <2>3, <2>5, DivMod
    <3>2. n \div 10 \notin T
      BY <2>2, <2>3, <3>1
    <3>3. Decimal[n \div 10] \in Seq(Characters) /\ Digits[(n % 10) + 1] \in Characters
      BY <3>1, <3>2, DigitValue DEF T
    <3>4. Decimal[n] = Append(Decimal[n \div 10], Digits[(n % 10) + 1])
      BY <2>3, <2>5, DecimalEq
    <3> QED BY <2>3, <3>3, <3>4
  <2> QED BY <2>4, <2>5
<1> QED BY <1>1

\* The numeral of n has digits only, the last one that of n % 10, and atoi
\* reads n from it.
Numeral(s, n) ==
    /\ Len(s) >= 1 /\ \A j \in 1 .. Len(s) : IsDigit(s[j])
    /\ s[Len(s)] = Digits[(n % 10) + 1]
    /\ \E v : Numbers(v, s, 0, Len(s)) /\ v[Len(s)] = n

\* The numeral of a digit
LEMMA NumeralOfDigit ==
  ASSUME NEW n \in 0 .. 9
  PROVE  Numeral(<<Digits[n + 1]>>, n)
<1> DEFINE s == <<Digits[n + 1]>>
           v == [j \in 0 .. 1 |-> IF j = 0 THEN 0 ELSE n]
<1>1. Len(s) = 1 /\ s[1] = Digits[n + 1] /\ s[0 + 1] = Digits[n + 1]
  OBVIOUS
<1>2. n % 10 = n
  BY DivMod
<1>3. IsDigit(Digits[n + 1]) /\ Value(Digits[n + 1]) = n
  BY DigitValue
<1> HIDE DEF s
<1>4. v \in [0 .. 1 -> Nat] /\ v[0] = 0 /\ v[1] = n
  OBVIOUS
<1> HIDE DEF v
<1>5. Numbers(v, s, 0, 1)
  <2>1. \A j \in 1 .. 1 : j = 1 /\ v[j - 1] = 0
    BY <1>4
  <2> QED BY <1>1, <1>3, <1>4, <2>1 DEF Numbers
<1>6. \A j \in 1 .. Len(s) : IsDigit(s[j])
  BY <1>1, <1>3
<1>7. s[Len(s)] = Digits[(n % 10) + 1]
  BY <1>1, <1>2
<1> QED BY <1>1, <1>4, <1>5, <1>6, <1>7 DEF Numeral, s

\* One more digit
LEMMA NumeralOfAppend ==
  ASSUME NEW n \in Nat, NEW s \in Seq(Characters), Numeral(s, n \div 10)
  PROVE  Numeral(Append(s, Digits[(n % 10) + 1]), n)
<1> DEFINE c == Digits[(n % 10) + 1]
           t == Append(s, c)
           L == Len(s)
<1>1. /\ n % 10 \in 0 .. 9 /\ n \div 10 \in Nat /\ n = 10 * (n \div 10) + (n % 10)
      /\ c \in Characters /\ IsDigit(c) /\ Value(c) = n % 10
  BY DivMod, DigitValue
<1> HIDE DEF c
<1>2. /\ L \in Nat /\ Len(t) = L + 1 /\ t[L + 1] = c
      /\ \A j \in 1 .. L : t[j] = s[j]
  BY <1>1
<1> HIDE DEF t
<1>3. PICK w : Numbers(w, s, 0, L) /\ w[L] = n \div 10
  BY DEF Numeral
<1> HIDE DEF L
<1> DEFINE v == [j \in 0 .. L + 1 |-> IF j = L + 1 THEN n ELSE w[j]]
<1>4. v \in [0 .. L + 1 -> Nat] /\ v[L + 1] = n /\ \A j \in 0 .. L : v[j] = w[j]
  <2>1. \A j \in 0 .. L + 1 : j = L + 1 \/ (j # L + 1 /\ j \in 0 .. L)
    BY <1>2
  <2>2. \A j \in 0 .. L : j # L + 1 /\ j \in 0 .. L + 1
    BY <1>2
  <2>3. L + 1 \in 0 .. L + 1
    BY <1>2
  <2> QED BY <1>3, <2>1, <2>2, <2>3 DEF Numbers
<1> HIDE DEF v
<1>5. Numbers(v, t, 0, L + 1)
  <2>1. ASSUME NEW j \in 1 .. L + 1 PROVE v[j] = 10 * v[j - 1] + Value(t[0 + j])
    <3>1. j \in Nat /\ 0 + j = j /\ j - 1 \in 0 .. L
      BY <1>2
    <3>2. CASE j = L + 1
      <4>1. v[j] = n /\ v[j - 1] = n \div 10 /\ t[0 + j] = c
        BY <1>2, <1>3, <1>4, <3>1, <3>2
      <4> QED BY <1>1, <4>1
    <3>3. CASE j # L + 1
      <4>1. j \in 1 .. L /\ j \in 0 .. L
        BY <1>2, <3>3
      <4>2. v[j] = w[j] /\ v[j - 1] = w[j - 1] /\ t[0 + j] = s[0 + j]
        BY <1>2, <1>4, <3>1, <4>1
      <4>3. w[j] = 10 * w[j - 1] + Value(s[0 + j])
        BY <1>3, <4>1 DEF Numbers
      <4> QED BY <4>2, <4>3
    <3> QED BY <3>2, <3>3
  <2>2. v[0] = 0
    <3>1. 0 \in 0 .. L
      BY <1>2
    <3> QED BY <1>3, <1>4, <3>1 DEF Numbers
  <2> QED BY <1>4, <2>1, <2>2 DEF Numbers
<1>6. ASSUME NEW j \in 1 .. Len(t) PROVE IsDigit(t[j])
  <2>1. j = L + 1 \/ j \in 1 .. L
    BY <1>2
  <2>2. \A k \in 1 .. L : IsDigit(s[k])
    BY DEF Numeral, L
  <2> QED BY <1>1, <1>2, <2>1, <2>2
<1>7. Len(t) >= 1 /\ t[Len(t)] = Digits[(n % 10) + 1]
  BY <1>2 DEF c
<1> QED BY <1>2, <1>4, <1>5, <1>6, <1>7 DEF Numeral, t, c

LEMMA DecimalIsNumeral == \A n \in Nat : Numeral(Decimal[n], n)
<1> DEFINE T == {n \in Nat : ~ Numeral(Decimal[n], n)}
<1>1. ASSUME T # {} PROVE FALSE
  <2>1. T \in SUBSET Nat
    OBVIOUS
  <2> HIDE DEF T
  <2>2. PICK n \in T : \A m \in T : n <= m
    BY <1>1, <2>1, LeastNatural
  <2>3. n \in Nat /\ ~ Numeral(Decimal[n], n)
    BY DEF T
  <2>4. CASE n < 10
    <3>1. n \in 0 .. 9
      BY <2>3, <2>4
    <3>2. Decimal[n] = <<Digits[n + 1]>>
      BY <2>3, <2>4, DecimalEq
    <3> QED BY <2>3, <3>1, <3>2, NumeralOfDigit
  <2>5. CASE ~ (n < 10)
    <3>1. n \div 10 \in Nat /\ n \div 10 < n
      BY <2>3, <2>5, DivMod
    <3>2. n \div 10 \notin T
      BY <2>2, <2>3, <3>1
    <3>3. Numeral(Decimal[n \div 10], n \div 10)
      BY <3>1, <3>2 DEF T
    <3>4. Decimal[n] = Append(Decimal[n \div 10], Digits[(n % 10) + 1])
      BY <2>3, <2>5, DecimalEq
    <3>5. Decimal[n \div 10] \in Seq(Characters)
      BY <3>1, DecimalType
    <3> QED BY <2>3, <3>3, <3>4, <3>5, NumeralOfAppend
  <2> QED BY <2>4, <2>5
<1> QED BY <1>1

----------------------------------------------------------------------------
(* The symbol of a C++ function behind its prefix: the numeral of the      *)
(* length of the identifier, the identifier and the rest.                  *)

Number(f) == Decimal[Len(f.id)]
Behind(f) == Number(f) \o f.id \o f.args

LEMMA BehindType ==
  ASSUME NEW f \in Functions
  PROVE  /\ Len(f.id) \in Nat \ {0} /\ Number(f) \in Seq(Characters)
         /\ f.id \in Seq(Characters) /\ f.args \in Seq(Characters)
         /\ Len(Number(f)) \in Nat \ {0}
         /\ \A j \in 1 .. Len(Number(f)) : IsDigit(Number(f)[j])
<1>1. f.id \in Seq(Characters) /\ f.id # <<>> /\ f.args \in Seq(Characters)
  BY NameAssumption
<1>2. Len(f.id) \in Nat \ {0}
  BY <1>1
<1>3. Number(f) \in Seq(Characters)
  BY <1>2, DecimalType DEF Number
<1>4. Numeral(Number(f), Len(f.id))
  BY <1>2, DecimalIsNumeral DEF Number
<1>5. Len(Number(f)) >= 1 /\ \A j \in 1 .. Len(Number(f)) : IsDigit(Number(f)[j])
  BY <1>4 DEF Numeral
<1>6. Len(Number(f)) \in Nat
  BY <1>3
<1> QED BY <1>1, <1>2, <1>3, <1>5, <1>6

LEMMA BehindShape ==
  ASSUME NEW f \in Functions
  PROVE  /\ Behind(f) \in Seq(Characters)
         /\ Len(Behind(f)) = Len(Number(f)) + Len(f.id) + Len(f.args)
         /\ \A j \in 1 .. Len(Number(f)) : Behind(f)[j] = Number(f)[j]
         /\ \A j \in 1 .. Len(f.id) : Behind(f)[Len(Number(f)) + j] = f.id[j]
         /\ ~ IsDigit(Behind(f)[Len(Number(f)) + 1])
<1> DEFINE D == Number(f)
           a == D \o f.id
<1>1. /\ D \in Seq(Characters) /\ f.id \in Seq(Characters) /\ f.args \in Seq(Characters)
      /\ Len(D) \in Nat /\ Len(f.id) \in Nat \ {0} /\ Len(f.args) \in Nat
  BY BehindType
<1>2. PICK n \in Nat \ {0}, m \in Nat : n = Len(f.id) /\ m = Len(f.args)
  BY <1>1
<1> HIDE DEF D
<1>3. /\ a \in Seq(Characters) /\ Len(a) = Len(D) + n
      /\ \A j \in 1 .. Len(D) + n : a[j] = IF j <= Len(D) THEN D[j] ELSE f.id[j - Len(D)]
  <2>1. /\ a \in Seq(Characters) /\ Len(a) = Len(D) + Len(f.id)
        /\ \A j \in 1 .. Len(D) + Len(f.id) :
              a[j] = IF j <= Len(D) THEN D[j] ELSE f.id[j - Len(D)]
    BY <1>1, ConcatProperties
  <2> QED BY <1>2, <2>1
<1> HIDE DEF a
<1>4. /\ a \o f.args \in Seq(Characters) /\ Len(a \o f.args) = Len(a) + m
      /\ \A j \in 1 .. Len(a) + m :
            (a \o f.args)[j] = IF j <= Len(a) THEN a[j] ELSE f.args[j - Len(a)]
  <2>1. /\ a \o f.args \in Seq(Characters) /\ Len(a \o f.args) = Len(a) + Len(f.args)
        /\ \A j \in 1 .. Len(a) + Len(f.args) :
              (a \o f.args)[j] = IF j <= Len(a) THEN a[j] ELSE f.args[j - Len(a)]
    BY <1>1, <1>3, ConcatProperties
  <2> QED BY <1>2, <2>1
<1>5. Behind(f) = a \o f.args
  BY DEF Behind, a, D
<1>6. Len(a \o f.args) = Len(D) + Len(f.id) + Len(f.args)
  BY <1>2, <1>3, <1>4
<1>7. ASSUME NEW j \in 1 .. Len(D) PROVE (a \o f.args)[j] = D[j]
  <2>1. /\ j \in 1 .. Len(a) + m /\ j <= Len(a)
        /\ j \in 1 .. Len(D) + n /\ j <= Len(D)
    BY <1>1, <1>3
  <2> QED BY <1>3, <1>4, <2>1
<1>8. ASSUME NEW j \in 1 .. n PROVE (a \o f.args)[Len(D) + j] = f.id[j]
  <2>1. /\ Len(D) + j \in 1 .. Len(a) + m /\ Len(D) + j <= Len(a)
        /\ Len(D) + j \in 1 .. Len(D) + n /\ ~ (Len(D) + j <= Len(D))
        /\ Len(D) + j - Len(D) = j
    BY <1>1, <1>3
  <2> QED BY <1>3, <1>4, <2>1
<1>9. ~ IsDigit((a \o f.args)[Len(D) + 1])
  <2>1. 1 \in 1 .. n /\ Head(f.id) = f.id[1]
    BY <1>1, <1>2
  <2> QED BY <1>8, <2>1, NameAssumption
<1> QED BY <1>2, <1>4, <1>5, <1>6, <1>7, <1>8, <1>9 DEF D

\* The symbol is at least as long as the numeral and the identifier.
LEMMA BehindLength ==
  ASSUME NEW f \in Functions
  PROVE  \E n, m \in Nat : /\ n = Len(f.id) /\ n >= 1
                           /\ Len(Behind(f)) = Len(Number(f)) + n + m
<1>1. Len(f.id) \in Nat \ {0} /\ Len(f.args) \in Nat
  BY BehindType
<1>2. PICK n \in Nat \ {0}, m \in Nat : n = Len(f.id) /\ m = Len(f.args)
  BY <1>1
<1>3. Len(Behind(f)) = Len(Number(f)) + n + m
  BY <1>2, BehindShape
<1>4. n >= 1 /\ n \in Nat
  OBVIOUS
<1> QED BY <1>2, <1>3, <1>4

LEMMA PlaceInBehind ==
  ASSUME NEW f \in Functions, NEW k \in 0 .. Len(Number(f))
  PROVE  k \in 0 .. Len(Behind(f))
<1>1. PICK n, m \in Nat : Len(Behind(f)) = Len(Number(f)) + n + m
  BY BehindLength
<1>2. Len(Number(f)) \in Nat
  BY BehindType
<1> QED BY <1>1, <1>2

\* From any place in the numeral atoi reads it to its end.
LEMMA BehindDigits ==
  ASSUME NEW f \in Functions, NEW k \in 0 .. Len(Number(f))
  PROVE  DigitsAt(Behind(f), k) = Len(Number(f)) - k
<1> DEFINE L == Len(Number(f))
           s == Behind(f)
<1>1. /\ s \in Seq(Characters) /\ L \in Nat
      /\ \A j \in 1 .. L : s[j] = Number(f)[j] /\ IsDigit(Number(f)[j])
      /\ ~ IsDigit(s[L + 1])
  BY BehindType, BehindShape
<1>2. PICK n, m \in Nat : Len(s) = L + n + m
  BY BehindLength
<1> HIDE DEF L, s
<1>3. k \in 0 .. L
  BY DEF L
<1>4. k \in 0 .. Len(s) /\ L - k \in 0 .. Len(s) - k /\ k + (L - k) = L
  BY <1>1, <1>2, <1>3
<1>5. \A j \in k + 1 .. k + (L - k) : IsDigit(s[j])
  <2>1. \A j \in k + 1 .. k + (L - k) : j \in 1 .. L
    BY <1>1, <1>3
  <2> QED BY <1>1, <2>1
<1>6. ~ IsDigit(s[k + (L - k) + 1])
  BY <1>1, <1>4
<1>7. DigitsAt(s, k) = L - k
  BY <1>1, <1>4, <1>5, <1>6, DigitsAtUnique
<1> QED BY <1>7 DEF L, s

\* The loop goes on in the numeral as long as a digit that is not 0 is ahead.
LEMMA BehindGoesOn ==
  ASSUME NEW f \in Functions, NEW k \in 0 .. Len(Number(f))
  PROVE  GoesOn(Behind(f), k) <=>
            \E j \in k + 1 .. Len(Number(f)) : Number(f)[j] # "0"
<1> DEFINE L == Len(Number(f))
           s == Behind(f)
<1>1. /\ s \in Seq(Characters) /\ k \in 0 .. Len(s) /\ L \in Nat
      /\ \A j \in 1 .. L : s[j] = Number(f)[j]
  BY BehindType, BehindShape, PlaceInBehind
<1>2. DigitsAt(s, k) = L - k
  BY BehindDigits
<1> HIDE DEF s
<1>3. Atoi(s, k) = 0 <=> \A j \in 1 .. L - k : s[k + j] = "0"
  BY <1>1, <1>2, AtoiZero
<1> HIDE DEF L
<1>4. k \in 0 .. L
  BY DEF L
<1>5. ASSUME NEW j \in 1 .. L - k, s[k + j] # "0"
      PROVE  \E m \in k + 1 .. L : Number(f)[m] # "0"
  <2>1. k + j \in k + 1 .. L /\ k + j \in 1 .. L
    BY <1>1, <1>4
  <2> QED BY <1>1, <1>5, <2>1
<1>6. ASSUME NEW m \in k + 1 .. L, Number(f)[m] # "0"
      PROVE  \E j \in 1 .. L - k : s[k + j] # "0"
  <2>1. m - k \in 1 .. L - k /\ k + (m - k) = m /\ m \in 1 .. L
    BY <1>1, <1>4
  <2>2. s[k + (m - k)] # "0"
    BY <1>1, <1>6, <2>1
  <2> QED BY <2>1, <2>2
<1> QED BY <1>3, <1>5, <1>6 DEF GoesOn, L, s

\* atoi of the digits collected is the number that so many digits stand for.
LEMMA PrefixNumber ==
  ASSUME NEW f \in Functions, NEW k \in 0 .. Len(Number(f)), NEW v,
         Numbers(v, Number(f), 0, Len(Number(f)))
  PROVE  Atoi(SubSeq(Behind(f), 1, k), 0) = v[k]
<1> DEFINE L == Len(Number(f))
           s == Behind(f)
           t == SubSeq(s, 1, k)
           w == [j \in 0 .. k |-> v[j]]
<1>1. /\ s \in Seq(Characters) /\ k \in 0 .. Len(s) /\ L \in Nat /\ Len(s) \in Nat
      /\ \A j \in 1 .. L : s[j] = Number(f)[j] /\ IsDigit(Number(f)[j])
  <2>1. s \in Seq(Characters)
    BY BehindShape
  <2>2. Len(s) \in Nat
    BY <2>1
  <2> QED BY <2>1, <2>2, BehindType, BehindShape, PlaceInBehind
<1> HIDE DEF s
<1>2. /\ t \in Seq(Characters) /\ Len(t) = k /\ \A j \in 1 .. k : t[j] = s[j]
  <2>1. \A j \in 1 .. Len(s) : s[j] \in Characters
    BY <1>1
  <2>2. /\ t \in Seq(Characters) /\ Len(t) = IF 1 <= k THEN k - 1 + 1 ELSE 0
        /\ \A j \in 1 .. k - 1 + 1 : t[j] = s[1 + j - 1]
    <3>1. \A j \in 1 .. k : s[j] \in Characters
      BY <1>1, <2>1
    <3> QED BY <1>1, <3>1, SubSeqProperties
  <2> QED BY <1>1, <2>2
<1> HIDE DEF t, L
<1>3. k \in 0 .. L /\ \A j \in 1 .. k : j \in 1 .. L /\ j \in 0 .. L /\ j - 1 \in 0 .. L
  BY <1>1 DEF L
<1>4. \A j \in 1 .. k : t[j] = Number(f)[j] /\ IsDigit(t[j])
  BY <1>1, <1>2, <1>3
<1>5. DigitsAt(t, 0) = k
  <2>1. 0 \in 0 .. Len(t) /\ k \in 0 .. Len(t) - 0 /\ ~ (0 + k < Len(t))
    BY <1>2, <1>3
  <2>2. \A j \in 0 + 1 .. 0 + k : IsDigit(t[j])
    BY <1>3, <1>4
  <2> QED BY <1>2, <2>1, <2>2, DigitsAtUnique
<1>6. Numbers(w, t, 0, k)
  <2>1. Numbers(v, Number(f), 0, L)
    BY DEF L
  <2>2. \A j \in 0 .. k : w[j] = v[j] /\ v[j] \in Nat
    BY <1>3, <2>1 DEF Numbers
  <2>3. w \in [0 .. k -> Nat] /\ w[0] = 0
    BY <1>3, <2>1, <2>2 DEF Numbers
  <2>4. ASSUME NEW j \in 1 .. k PROVE w[j] = 10 * w[j - 1] + Value(t[0 + j])
    <3>1. j \in 0 .. k /\ j - 1 \in 0 .. k /\ 0 + j = j
      BY <1>3
    <3>2. v[j] = 10 * v[j - 1] + Value(Number(f)[0 + j])
      BY <1>3, <2>1 DEF Numbers
    <3> QED BY <1>4, <2>2, <3>1, <3>2
  <2> QED BY <2>3, <2>4 DEF Numbers
<1>7. Atoi(t, 0) = w[k]
  <2>1. 0 \in 0 .. Len(t)
    BY <1>2, <1>3
  <2> HIDE DEF w
  <2> QED BY <1>2, <1>5, <1>6, <2>1, AtoiIsNumber
<1>8. w[k] = v[k]
  BY <1>3
<1> QED BY <1>7, <1>8 DEF t, s

----------------------------------------------------------------------------
(* Where the loop stops, and what is cut off there.                        *)

\* Part is the rest of a symbol from place k on, n characters at most.
LEMMA PartProperties ==
  ASSUME NEW s \in Seq(Characters), NEW k \in 0 .. Len(s), NEW n \in Nat
  PROVE  /\ Part(s, k, n) \in Seq(Characters)
         /\ Len(Part(s, k, n)) = IF k + n > Len(s) THEN Len(s) - k ELSE n
         /\ \A j \in 1 .. Len(Part(s, k, n)) : Part(s, k, n)[j] = s[k + j]
<1> DEFINE h == IF k + n > Len(s) THEN Len(s) ELSE k + n
           r == SubSeq(s, k + 1, h)
<1>1. Len(s) \in Nat /\ \A j \in 1 .. Len(s) : s[j] \in Characters
  OBVIOUS
<1>2. /\ h \in Nat /\ k <= h /\ h <= Len(s)
      /\ h - k = IF k + n > Len(s) THEN Len(s) - k ELSE n
  BY <1>1
<1> HIDE DEF h
<1>3. \A j \in k + 1 .. h : s[j] \in Characters
  <2>1. \A j \in k + 1 .. h : j \in 1 .. Len(s)
    BY <1>1, <1>2
  <2> QED BY <1>1, <2>1
<1>4. /\ r \in Seq(Characters) /\ Len(r) = IF k + 1 <= h THEN h - (k + 1) + 1 ELSE 0
      /\ \A j \in 1 .. h - (k + 1) + 1 : r[j] = s[k + 1 + j - 1]
  BY <1>1, <1>2, <1>3, SubSeqProperties
<1> HIDE DEF r
<1>5. Len(r) = h - k
  BY <1>1, <1>2, <1>4
<1>6. ASSUME NEW j \in 1 .. h - k PROVE r[j] = s[k + j]
  <2>1. j \in 1 .. h - (k + 1) + 1 /\ k + 1 + j - 1 = k + j
    BY <1>1, <1>2
  <2> QED BY <1>4, <2>1
<1>7. Part(s, k, n) = r
  BY DEF Part, r, h
<1> QED BY <1>2, <1>4, <1>5, <1>6, <1>7

\* The loop ends in the numeral: behind it all digits are zeros, and the one
\* before it is not.
LEMMA LoopEnd ==
  ASSUME NEW f \in Functions, NEW k \in 0 .. Len(Behind(f)),
         ~ GoesOn(Behind(f), k), \A j \in 0 .. k - 1 : GoesOn(Behind(f), j)
  PROVE  /\ k \in 0 .. Len(Number(f))
         /\ \A j \in k + 1 .. Len(Number(f)) : Number(f)[j] = "0"
         /\ k >= 1 => Number(f)[k] # "0"
<1> DEFINE L == Len(Number(f))
<1>1. L \in Nat /\ Len(Behind(f)) \in Nat
  <2>1. Behind(f) \in Seq(Characters)
    BY BehindShape
  <2> QED BY <2>1, BehindType
<1>2. k \in 0 .. L
  <2>1. ASSUME k > L PROVE FALSE
    <3>1. L \in 0 .. k - 1 /\ L \in 0 .. L
      BY <1>1, <2>1
    <3>2. GoesOn(Behind(f), L)
      BY <3>1
    <3>3. \E j \in L + 1 .. L : Number(f)[j] # "0"
      BY <3>1, <3>2, BehindGoesOn
    <3> QED BY <1>1, <3>3
  <2> QED BY <1>1, <2>1
<1>3. \A j \in k + 1 .. L : Number(f)[j] = "0"
  BY <1>2, BehindGoesOn
<1>4. ASSUME k >= 1 PROVE Number(f)[k] # "0"
  <2>1. k - 1 \in 0 .. k - 1 /\ k - 1 \in 0 .. L /\ (k - 1) + 1 = k
    BY <1>1, <1>2, <1>4
  <2>2. GoesOn(Behind(f), k - 1)
    BY <2>1
  <2>3. PICK j \in k .. L : Number(f)[j] # "0"
    BY <2>1, <2>2, BehindGoesOn
  <2>4. j = k \/ j \in k + 1 .. L
    BY <1>1, <1>2
  <2> QED BY <1>3, <2>3, <2>4
<1> QED BY <1>2, <1>3, <1>4

LEMMA NameCut ==
  ASSUME NEW f \in Functions, NEW k \in 0 .. Len(Behind(f)),
         ~ GoesOn(Behind(f), k), \A j \in 0 .. k - 1 : GoesOn(Behind(f), j)
  PROVE  LET r == Part(Behind(f), k, Atoi(SubSeq(Behind(f), 1, k), 0))
         IN  IF Len(f.id) % 10 # 0 THEN r = f.id
             ELSE Head(r) = "0" /\ Len(r) < Len(f.id)
<1> DEFINE s == Behind(f)
           D == Number(f)
           L == Len(D)
<1>1. PICK n, m \in Nat : n = Len(f.id) /\ n >= 1 /\ Len(s) = L + n + m
  BY BehindLength
<1>2. /\ s \in Seq(Characters) /\ L \in Nat \ {0} /\ f.id \in Seq(Characters)
      /\ \A j \in 1 .. L : s[j] = D[j] /\ IsDigit(D[j])
      /\ \A j \in 1 .. n : s[L + j] = f.id[j]
  BY <1>1, BehindType, BehindShape
<1>3. PICK v : Numbers(v, D, 0, L) /\ v[L] = n
  BY <1>1, DecimalIsNumeral DEF Numeral, Number
<1>4. D[L] = Digits[(n % 10) + 1]
  BY <1>1, DecimalIsNumeral DEF Numeral, Number
<1>5. D[L] = "0" <=> n % 10 = 0
  <2>1. n % 10 \in 0 .. 9
    BY DivMod
  <2>2. IsDigit(D[L]) /\ Value(D[L]) = n % 10
    BY <1>4, <2>1, DigitValue
  <2> QED BY <2>2, ValueInRange
<1>6. /\ k \in 0 .. L /\ \A j \in k + 1 .. L : D[j] = "0"
      /\ k >= 1 => D[k] # "0"
  BY LoopEnd
<1>7. Atoi(SubSeq(s, 1, k), 0) = v[k] /\ v[k] \in Nat
  BY <1>3, <1>6, PrefixNumber DEF Numbers
<1> DEFINE r == Part(s, k, v[k])
<1>8. /\ r \in Seq(Characters)
      /\ Len(r) = IF k + v[k] > Len(s) THEN Len(s) - k ELSE v[k]
      /\ \A j \in 1 .. Len(r) : r[j] = s[k + j]
  BY <1>2, <1>7, PartProperties
<1> HIDE DEF r, s, L, D
<1>9. CASE n % 10 # 0
  <2>1. k = L
    <3>1. k < L => L \in k + 1 .. L
      BY <1>2, <1>6
    <3> QED BY <1>2, <1>5, <1>6, <1>9, <3>1
  <2>2. Len(r) = n
    BY <1>1, <1>2, <1>3, <1>8, <2>1
  <2>3. \A j \in 1 .. Len(r) : r[j] = f.id[j]
    BY <1>2, <1>8, <2>1, <2>2
  <2>4. r = f.id
    <3>1. r \in Seq(Characters) /\ f.id \in Seq(Characters) /\ Len(r) = Len(f.id)
      BY <1>1, <1>2, <1>8, <2>2
    <3> QED BY <2>3, <3>1, SeqEqual
  <2> QED BY <1>1, <1>7, <1>9, <2>4 DEF r, s
<1>10. CASE n % 10 = 0
  <2>1. k < L
    <3>1. k = L => D[k] = "0" /\ k >= 1
      BY <1>2, <1>5, <1>10
    <3> QED BY <1>2, <1>6, <3>1
  <2>2. k >= 1
    <3>1. ASSUME k = 0 PROVE FALSE
      <4>1. \A j \in 1 .. L : D[0 + j] = "0"
        BY <1>2, <1>6, <3>1
      <4>2. v[L] = 0
        <5>1. L \in Nat /\ 0 \in Nat
          BY <1>2
        <5> QED BY <1>3, <4>1, <5>1, NumbersZero
      <4> QED BY <1>1, <1>3, <4>2
    <3> QED BY <1>6, <3>1
  <2>3. v[k] >= 1
    <3>1. k \in 1 .. L /\ k - 1 \in 0 .. L /\ 0 + k = k
      BY <1>2, <1>6, <2>2
    <3>2. v[k] = 10 * v[k - 1] + Value(D[k]) /\ v[k - 1] \in Nat
      BY <1>3, <3>1 DEF Numbers
    <3>3. Value(D[k]) \in 1 .. 9
      <4>1. IsDigit(D[k]) /\ D[k] # "0"
        BY <1>2, <1>6, <2>2, <3>1
      <4> QED BY <4>1, ValueInRange
    <3>4. \A x \in Nat, y \in 1 .. 9 : 10 * x + y >= 1
      OBVIOUS
    <3> QED BY <3>2, <3>3, <3>4
  <2>4. v[k] < n
    <3>1. k + 1 \in 1 .. L /\ k + 1 \in 0 .. L /\ (k + 1) - 1 = k /\ L \in k + 1 .. L
      BY <1>2, <1>6, <2>1
    <3>2. v[k + 1] = 10 * v[k] + Value(D[0 + (k + 1)]) /\ 0 + (k + 1) = k + 1
      BY <1>3, <3>1 DEF Numbers
    <3>3. Value(D[k + 1]) = 0
      <4>1. IsDigit(D[k + 1]) /\ D[k + 1] = "0"
        BY <1>2, <1>6, <3>1
      <4> QED BY <4>1, ValueInRange
    <3>4. v[L] >= v[k + 1]
      <4>1. \A j \in 0 + 1 .. 0 + L : IsDigit(D[j])
        BY <1>2
      <4>2. L \in Nat /\ 0 \in Nat
        BY <1>2
      <4> QED BY <1>3, <3>1, <4>1, <4>2, NumbersGrow
    <3>5. v[k + 1] = 10 * v[k]
      BY <1>7, <3>2, <3>3
    <3> QED BY <1>1, <1>3, <1>7, <2>3, <3>4, <3>5
  <2>5. Len(r) >= 1 /\ Len(r) <= v[k] /\ Len(r) \in Nat
    BY <1>1, <1>2, <1>6, <1>7, <1>8, <2>1, <2>3
  <2>6. r[1] = "0"
    <3>1. 1 \in 1 .. Len(r) /\ k + 1 \in k + 1 .. L /\ k + 1 \in 1 .. L
      BY <1>2, <1>6, <2>1, <2>5
    <3> QED BY <1>2, <1>6, <1>8, <3>1
  <2>7. Head(r) = "0"
    BY <1>8, <2>5, <2>6
  <2>8. Len(r) < n
    BY <1>1, <1>7, <2>4, <2>5
  <2> QED BY <1>1, <1>7, <1>10, <2>7, <2>8 DEF r, s
<1> QED BY <1>9, <1>10

----------------------------------------------------------------------------
(* The symbol of a C++ function with its prefix.                           *)

LEMMA PairLength == \A x, y : Len(<<x, y>>) = 2
  OBVIOUS

LEMMA MangledShape ==
  ASSUME NEW f \in Functions
  PROVE  /\ Mangled(f) \in Seq(Characters) /\ IsPrefix(MangledPrefix, Mangled(f))
         /\ Mangled(f) \notin DOMAIN Special
         /\ SubSeq(Mangled(f), 3, Len(Mangled(f))) = Behind(f)
<1> DEFINE p == MangledPrefix
           D == Number(f)
           s == Behind(f)
           c == p \o s
<1>1. p \in Seq(Characters) /\ Len(p) = 2
  <2>1. Len(p) = 2
    BY PairLength, Zenon DEF MangledPrefix
  <2> QED BY <2>1, NameAssumption
<1>2. /\ D \in Seq(Characters) /\ f.id \in Seq(Characters) /\ f.args \in Seq(Characters)
      /\ s \in Seq(Characters) /\ Len(s) \in Nat
  <2>1. s \in Seq(Characters)
    BY BehindShape
  <2> QED BY <2>1, BehindType
<1>3. Mangled(f) = c
  <2>1. Mangled(f) = ((p \o D) \o f.id) \o f.args
    BY DEF Mangled, Number
  <2>2. s = (D \o f.id) \o f.args
    BY DEF Behind
  <2> HIDE DEF p, D, s
  <2>3. PICK x, y : x = f.id /\ y = f.args
    OBVIOUS
  <2>4. PICK d : d = D
    OBVIOUS
  <2>5. PICK q : q = p
    OBVIOUS
  <2>6. /\ q \in Seq(Characters) /\ d \in Seq(Characters)
        /\ x \in Seq(Characters) /\ y \in Seq(Characters)
    BY <1>1, <1>2, <2>3, <2>4, <2>5
  <2>7. (q \o d) \o x = q \o (d \o x)
    BY <2>6, ConcatAssociative
  <2>8. PICK w : w = d \o x
    OBVIOUS
  <2>9. w \in Seq(Characters)
    BY <2>6, <2>8, ConcatProperties
  <2>10. (q \o w) \o y = q \o (w \o y)
    <3>1. q \in Seq(Characters) /\ w \in Seq(Characters) /\ y \in Seq(Characters)
      BY <2>6, <2>9
    <3> QED BY <3>1, ConcatAssociative
  <2>11. Mangled(f) = (q \o w) \o y
    BY <2>1, <2>3, <2>4, <2>5, <2>7, <2>8
  <2>12. s = w \o y
    BY <2>2, <2>3, <2>4, <2>8
  <2> QED BY <2>5, <2>10, <2>11, <2>12
<1> HIDE DEF p, D, s
<1>4. /\ c \in Seq(Characters) /\ Len(c) = 2 + Len(s)
      /\ \A j \in 1 .. 2 + Len(s) : c[j] = IF j <= 2 THEN p[j] ELSE s[j - 2]
  <2>1. p \in Seq(Characters) /\ s \in Seq(Characters)
    BY <1>1, <1>2
  <2>2. /\ c \in Seq(Characters) /\ Len(c) = Len(p) + Len(s)
        /\ \A j \in 1 .. Len(p) + Len(s) :
              c[j] = IF j <= Len(p) THEN p[j] ELSE s[j - Len(p)]
    BY <2>1, ConcatProperties
  <2> HIDE DEF c
  <2>3. Len(p) = 2
    BY <1>1
  <2> QED BY <2>2, <2>3
<1> HIDE DEF c
<1>5. \A j \in 1 .. 2 : c[j] = p[j]
  <2>1. \A j \in 1 .. 2 : j \in 1 .. 2 + Len(s) /\ j <= 2
    BY <1>2
  <2> QED BY <1>4, <2>1
<1>6. IsPrefix(p, c)
  <2>1. Len(p) <= Len(c)
    BY <1>1, <1>2, <1>4
  <2>2. /\ SubSeq(p, 1, 2) \in Seq(Characters) /\ Len(SubSeq(p, 1, 2)) = 2
        /\ \A j \in 1 .. 2 : SubSeq(p, 1, 2)[j] = p[j]
    <3>1. \A j \in 1 .. 2 : p[j] \in Characters
      BY <1>1
    <3> QED BY <3>1, SubSeqProperties
  <2>3. /\ SubSeq(c, 1, 2) \in Seq(Characters) /\ Len(SubSeq(c, 1, 2)) = 2
        /\ \A j \in 1 .. 2 : SubSeq(c, 1, 2)[j] = c[j]
    <3>1. \A j \in 1 .. 2 : p[j] \in Characters
      BY <1>1
    <3>2. \A j \in 1 .. 2 : c[j] \in Characters
      BY <1>5, <3>1
    <3> QED BY <3>2, SubSeqProperties
  <2>4. \A j \in 1 .. 2 : SubSeq(p, 1, 2)[j] = SubSeq(c, 1, 2)[j]
    BY <1>5, <2>2, <2>3
  <2>5. SubSeq(p, 1, 2) = SubSeq(c, 1, 2)
    BY <2>2, <2>3, <2>4, SeqEqual
  <2> QED BY <1>1, <2>1, <2>5 DEF IsPrefix
<1>7. c \notin DOMAIN Special
  <2>1. Len(c) >= 2
    BY <1>2, <1>4
  <2>2. \A x \in DOMAIN Special : Len(x) = 0 \/ Len(x) = 1
    <3>1. DOMAIN Special = {<<>>, <<".text">>, <<".plt">>}
      BY DEF Special
    <3>2. Len(<<>>) = 0 /\ \A y : Len(<<y>>) = 1
      OBVIOUS
    <3> QED BY <3>1, <3>2
  <2>3. \A x \in DOMAIN Special : Len(x) # Len(c)
    <3>1. Len(c) # 0 /\ Len(c) # 1
      BY <1>2, <1>4, <2>1
    <3> QED BY <2>2, <3>1
  <2> QED BY <2>3, Zenon
<1>8. SubSeq(c, 3, Len(c)) = s
  <2>1. \A j \in 3 .. Len(c) : c[j] \in Characters
    <3>1. \A j \in 3 .. Len(c) : j \in 1 .. Len(c)
      BY <1>2, <1>4
    <3> QED BY <1>4, <3>1
  <2>2. /\ SubSeq(c, 3, Len(c)) \in Seq(Characters)
        /\ Len(SubSeq(c, 3, Len(c))) = Len(s)
        /\ \A j \in 1 .. Len(c) - 3 + 1 : SubSeq(c, 3, Len(c))[j] = c[3 + j - 1]
    <3>1. Len(c) \in Int /\ 3 \in Int
      BY <1>2, <1>4
    <3> QED BY <1>2, <1>4, <2>1, <3>1, SubSeqProperties
  <2>3. ASSUME NEW j \in 1 .. Len(s) PROVE SubSeq(c, 3, Len(c))[j] = s[j]
    <3>1. /\ j \in 1 .. Len(c) - 3 + 1 /\ 3 + j - 1 = 2 + j /\ 2 + j \in 1 .. 2 + Len(s)
          /\ ~ (2 + j <= 2) /\ (2 + j) - 2 = j
      BY <1>2, <1>4
    <3> QED BY <1>4, <2>2, <3>1
  <2> QED BY <1>2, <2>2, <2>3, SeqEqual
<1> QED BY <1>3, <1>4, <1>6, <1>7, <1>8 DEF p, s

----------------------------------------------------------------------------
(* The states.                                                             *)

\* At the end of a symbol there is no number.
LEMMA GoesOnInside ==
  ASSUME NEW s \in Seq(Characters), NEW k \in 0 .. Len(s), GoesOn(s, k)
  PROVE  k < Len(s)
<1>1. ASSUME k = Len(s) PROVE FALSE
  <2>1. DigitsAt(s, k) = 0
    BY <1>1, DigitsAtProperties
  <2>2. Atoi(s, k) = 0
    BY <2>1, AtoiZero
  <2> QED BY <2>2 DEF GoesOn
<1> QED BY <1>1

\* In the loop, temp has the characters of the name up to i, and at each of
\* their places the loop went on.
Scanning ==
    /\ name = SubSeq(symbol, 3, Len(symbol)) /\ name \in Seq(Characters)
    /\ i \in 0 .. Len(name) /\ temp = SubSeq(name, 1, i)
    /\ \A j \in 0 .. i - 1 : GoesOn(name, j)

NameInv ==
    /\ symbol \in Seq(Characters) /\ pc \in {"start", "scan", "done"}
    /\ pc = "start" => name = symbol /\ i = 0 /\ temp = <<>>
    /\ pc = "scan" => Scanning
    /\ NameIsIdentifier

LEMMA NameInit == Init => NameInv
<1> SUFFICES ASSUME Init PROVE NameInv
  OBVIOUS
<1>1. symbol \in Seq(Characters)
  BY NameAssumption, MangledShape DEF Init
<1> QED BY <1>1 DEF Init, NameInv, NameIsIdentifier

LEMMA FormStep ==
  ASSUME NameInv, Form
  PROVE  NameInv'
<1>1. /\ name = symbol /\ i = 0 /\ temp = <<>> /\ symbol \in Seq(Characters)
      /\ symbol' = symbol /\ i' = i /\ temp' = temp
  BY DEF NameInv, Form
<1>2. ASSUME NEW f \in Functions, symbol = Mangled(f)
      PROVE  name \notin DOMAIN Special /\ IsMangled
  BY <1>1, <1>2, MangledShape DEF IsMangled
<1>3. CASE pc' = "done"
  <2>1. ~ (\E f \in Functions : symbol = Mangled(f))
    <3>1. name \in DOMAIN Special \/ ~ IsMangled
      BY <1>3 DEF Form
    <3> QED BY <1>2, <3>1
  <2>2. NameIsIdentifier'
    BY <1>1, <2>1 DEF NameIsIdentifier
  <2> QED BY <1>1, <1>3, <2>2 DEF NameInv
<1>4. CASE pc' = "scan"
  <2>1. name' = SubSeq(symbol, 3, Len(symbol))
    BY <1>1, <1>4 DEF Form
  <2>2. name' \in Seq(Characters)
    <3>1. Len(symbol) \in Int /\ \A j \in 1 .. Len(symbol) : symbol[j] \in Characters
      BY <1>1
    <3>2. \A j \in 3 .. Len(symbol) : symbol[j] \in Characters
      <4>1. \A j \in 3 .. Len(symbol) : j \in 1 .. Len(symbol)
        BY <3>1
      <4> QED BY <3>1, <4>1
    <3> QED BY <2>1, <3>1, <3>2, SubSeqProperties
  <2>3. i' \in 0 .. Len(name') /\ \A j \in 0 .. i' - 1 : GoesOn(name', j)
    <3>1. Len(name') \in Nat
      BY <2>2
    <3> QED BY <1>1, <3>1
  <2>4. temp' = SubSeq(name', 1, i')
    <3>1. SubSeq(name', 1, 0) = <<>>
      BY SubSeqEmpty
    <3> QED BY <1>1, <3>1
  <2>5. Scanning'
    BY <1>1, <2>1, <2>2, <2>3, <2>4 DEF Scanning
  <2>6. NameIsIdentifier'
    BY <1>4 DEF NameIsIdentifier
  <2> QED BY <1>1, <1>4, <2>5, <2>6 DEF NameInv
<1> QED BY <1>3, <1>4 DEF Form

LEMMA ScanStep ==
  ASSUME NameInv, Scan
  PROVE  NameInv'
<1>1. /\ Scanning /\ GoesOn(name, i) /\ symbol' = symbol /\ name' = name
      /\ pc = "scan" /\ pc' = pc /\ i' = i + 1 /\ temp' = Append(temp, CharAt(name, i))
      /\ symbol \in Seq(Characters)
  BY DEF NameInv, Scan
<1>2. name \in Seq(Characters) /\ i \in 0 .. Len(name) /\ temp = SubSeq(name, 1, i)
  BY <1>1 DEF Scanning
<1>3. i < Len(name) /\ Len(name) \in Nat
  BY <1>1, <1>2, GoesOnInside
<1>4. i' \in 0 .. Len(name)
  BY <1>1, <1>2, <1>3
<1>5. ASSUME NEW j \in 0 .. i' - 1 PROVE GoesOn(name, j)
  <2>1. j = i \/ j \in 0 .. i - 1
    BY <1>1, <1>2, <1>3
  <2> QED BY <1>1, <2>1 DEF Scanning
<1>6. temp' = SubSeq(name, 1, i + 1)
  <2> DEFINE a == SubSeq(name, 1, i)
             b == SubSeq(name, 1, i + 1)
             c == Append(a, name[i + 1])
  <2>1. \A j \in 1 .. i + 1 : j \in 1 .. Len(name) /\ name[j] \in Characters
    BY <1>2, <1>3
  <2>2. /\ a \in Seq(Characters) /\ Len(a) = i
        /\ \A j \in 1 .. i : a[j] = name[j]
    <3>1. \A j \in 1 .. i : j \in 1 .. i + 1
      BY <1>2, <1>3
    <3>2. /\ a \in Seq(Characters) /\ Len(a) = IF 1 <= i THEN i - 1 + 1 ELSE 0
          /\ \A j \in 1 .. i - 1 + 1 : a[j] = name[1 + j - 1]
      <4>1. \A j \in 1 .. i : name[j] \in Characters
        BY <2>1, <3>1
      <4> QED BY <1>2, <1>3, <4>1, SubSeqProperties
    <3> QED BY <1>2, <1>3, <3>2
  <2>3. /\ b \in Seq(Characters) /\ Len(b) = i + 1
        /\ \A j \in 1 .. i + 1 : b[j] = name[j]
    <3>1. /\ b \in Seq(Characters)
          /\ Len(b) = IF 1 <= i + 1 THEN (i + 1) - 1 + 1 ELSE 0
          /\ \A j \in 1 .. (i + 1) - 1 + 1 : b[j] = name[1 + j - 1]
      <4>1. \A j \in 1 .. i + 1 : name[j] \in Characters
        BY <2>1
      <4> QED BY <1>2, <1>3, <4>1, SubSeqProperties
    <3> QED BY <1>2, <1>3, <3>1
  <2> HIDE DEF a, b
  <2>4. /\ c \in Seq(Characters) /\ Len(c) = i + 1 /\ c[i + 1] = name[i + 1]
        /\ \A j \in 1 .. i : c[j] = a[j]
    <3>1. name[i + 1] \in Characters
      <4>1. i + 1 \in 1 .. i + 1
        BY <1>2, <1>3
      <4> QED BY <2>1, <4>1
    <3> QED BY <1>2, <2>2, <3>1
  <2> HIDE DEF c
  <2>5. \A j \in 1 .. i + 1 : c[j] = b[j]
    <3>1. \A j \in 1 .. i + 1 : j = i + 1 \/ j \in 1 .. i
      BY <1>2, <1>3
    <3> QED BY <2>2, <2>3, <2>4, <3>1
  <2>6. c = b
    BY <2>3, <2>4, <2>5, SeqEqual
  <2>7. temp' = c
    BY <1>1, <1>2, <1>3 DEF CharAt, a, c
  <2> QED BY <2>6, <2>7 DEF b
<1>7. Scanning'
  BY <1>1, <1>2, <1>4, <1>5, <1>6 DEF Scanning
<1>8. NameIsIdentifier'
  BY <1>1 DEF NameIsIdentifier
<1> QED BY <1>1, <1>7, <1>8 DEF NameInv

LEMMA CutStep ==
  ASSUME NameInv, Cut
  PROVE  NameInv'
<1>1. /\ Scanning /\ ~ GoesOn(name, i) /\ symbol' = symbol /\ pc' = "done"
      /\ name' = Part(name, i, Atoi(temp, 0)) /\ symbol \in Seq(Characters)
  BY DEF NameInv, Cut
<1>2. ASSUME NEW f \in Functions, symbol = Mangled(f)
      PROVE  IF Len(f.id) % 10 # 0 THEN name' = f.id
             ELSE Head(name') = "0" /\ Len(name') < Len(f.id)
  <2>1. name = Behind(f)
    BY <1>1, <1>2, MangledShape DEF Scanning
  <2>2. /\ i \in 0 .. Len(Behind(f)) /\ temp = SubSeq(Behind(f), 1, i)
        /\ \A j \in 0 .. i - 1 : GoesOn(Behind(f), j)
        /\ ~ GoesOn(Behind(f), i)
    BY <1>1, <2>1 DEF Scanning
  <2>3. name' = Part(Behind(f), i, Atoi(SubSeq(Behind(f), 1, i), 0))
    BY <1>1, <2>1, <2>2
  <2> QED BY <2>2, <2>3, NameCut
<1>3. NameIsIdentifier'
  BY <1>1, <1>2 DEF NameIsIdentifier
<1> QED BY <1>1, <1>3 DEF NameInv

LEMMA NameStep == NameInv /\ [Next]_vars => NameInv'
<1> SUFFICES ASSUME NameInv, [Next]_vars PROVE NameInv'
  OBVIOUS
<1>1. CASE Form
  BY <1>1, FormStep
<1>2. CASE Scan
  BY <1>2, ScanStep
<1>3. CASE Cut
  BY <1>3, CutStep
<1>4. CASE UNCHANGED vars
  BY <1>4 DEF NameInv, Scanning, NameIsIdentifier, vars
<1> QED BY <1>1, <1>2, <1>3, <1>4 DEF Next

\* In every state the loop of FormProperFunctionName has collected just the
\* characters before i, and went on at each of them.
THEOREM NameSafe == Spec => []NameInv
BY NameInit, NameStep, PTL DEF Spec

\* The loop reads no character behind the end of the symbol, however the
\* symbol looks (FormProperFunctionName).
THEOREM ScanStaysInside == Spec => []ScanInRange
<1>1. NameInv => ScanInRange
  BY DEF NameInv, Scanning, ScanInRange
<1> QED BY <1>1, NameSafe, PTL

\* A C++ function whose identifier follows _Z (no member, no operator, not
\* internal to its file) is entered under this identifier, of any length whose
\* last digit is not 0; otherwise the name begins with that 0 and is cut off
\* (FormProperFunctionName).
THEOREM NameIsProper == Spec => []NameIsIdentifier
<1>1. NameInv => NameIsIdentifier
  BY DEF NameInv
<1> QED BY <1>1, NameSafe, PTL
=============================================================================
