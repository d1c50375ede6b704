----------------------------- MODULE DataLemmas -----------------------------
(***************************************************************************)
(* Lemmas about numbers and sequences that the proofs of several           *)
(* components need.                                                        *)
(*                                                                         *)
(* The first ones take the place of induction: an induction theorem of the *)
(* library has an operator as its parameter, which the provers cannot      *)
(* instantiate, but the least element of the set of counterexamples serves *)
(* as well.                                                                *)
(***************************************************************************)
EXTENDS SequencesExt, SequenceTheorems, WellFoundedInduction, TLAPS

\* A nonempty set of natural numbers has a least element.
LEMMA LeastNatural ==
  ASSUME NEW T \in SUBSET Nat, T # {}
  PROVE  \E n \in T : \A m \in T : n <= m
<1>1. PICK n \in T : \A m \in T : ~ (<<m, n>> \in OpToRel(<, Nat))
  BY WFMin, NatLessThanWellFounded
<1>2. ASSUME NEW m \in T PROVE n <= m
  <2>1. m \in Nat /\ n \in Nat
    OBVIOUS
  <2>2. m < n => <<m, n>> \in OpToRel(<, Nat)
    BY <2>1 DEF OpToRel
  <2>3. ~ (<<m, n>> \in OpToRel(<, Nat))
    BY <1>1
  <2>4. ~ (m < n)
    BY <2>2, <2>3
  <2> QED BY <2>1, <2>4
<1> QED BY <1>2

\* A nonempty set of natural numbers up to N has a greatest element.
LEMMA GreatestUpTo ==
  ASSUME NEW N \in Nat, NEW T \in SUBSET (0 .. N), T # {}
  PROVE  \E n \in T : \A m \in T : n >= m
<1> DEFINE D == {N - n : n \in T}
<1>1. D \in SUBSET Nat /\ D # {}
  <2>1. \A n \in T : n \in 0 .. N
    OBVIOUS
  <2>2. \A n \in T : N - n \in Nat
    BY <2>1
  <2>3. PICK n \in T : TRUE
    OBVIOUS
  <2>4. N - n \in D
    BY <2>3
  <2> QED BY <2>2, <2>4
<1> HIDE DEF D
<1>2. PICK d \in D : \A k \in D : d <= k
  BY <1>1, LeastNatural
<1>3. PICK n \in T : d = N - n
  BY DEF D
<1>4. ASSUME NEW m \in T PROVE n >= m
  <2>1. N - m \in D
    BY DEF D
  <2>2. N - n <= N - m /\ n \in 0 .. N /\ m \in 0 .. N
    BY <1>2, <1>3, <2>1
  <2> QED BY <2>2
<1> QED BY <1>4

\* A set of natural numbers up to N that contains zero, and n whenever it
\* contains n - 1, contains them all.
LEMMA UpTo ==
  ASSUME NEW N \in Nat, NEW P, 0 \in P,
         \A n \in 1 .. N : n - 1 \in P => n \in P
  PROVE  \A n \in 0 .. N : n \in P
<1> DEFINE T == {n \in 0 .. N : n \notin P}
<1>1. ASSUME T # {} PROVE FALSE
  <2>1. T \in SUBSET Nat
    OBVIOUS
  <2> HIDE DEF T
  <2>2. PICK n \in T : \A m \in T : n <= m
    BY <1>1, <2>1, LeastNatural
  <2>3. n \in 0 .. N /\ n \notin P
    BY DEF T
  <2>4. n \in 1 .. N /\ n - 1 \in 0 .. N /\ n - 1 < n
    BY <2>3
  <2>5. n - 1 \notin T
    BY <2>2, <2>4
  <2>6. n - 1 \in P
    BY <2>4, <2>5 DEF T
  <2> QED BY <2>3, <2>4, <2>6
<1> QED BY <1>1

\* g is defined by primitive recursion up to N, with values in S.
PrimRec(g, N, S, base, step) ==
    /\ g \in [0 .. N -> S] /\ g[0] = base
    /\ \A n \in 1 .. N : g[n] = step[n][g[n - 1]]

\* Primitive recursion defines a function.
LEMMA RecursionExists ==
  ASSUME NEW N \in Nat, NEW S, NEW base \in S, NEW step \in [1 .. N -> [S -> S]]
  PROVE  \E g : PrimRec(g, N, S, base, step)
<1> DEFINE Upto(g, k) == PrimRec(g, k, S, base, step)
           P == {k \in 0 .. N : \E g : Upto(g, k)}
<1>1. 0 \in P
  <2>1. Upto([n \in 0 .. 0 |-> base], 0)
    BY DEF PrimRec
  <2>2. 0 \in 0 .. N
    OBVIOUS
  <2> HIDE DEF Upto
  <2> QED BY <2>1, <2>2
<1>2. ASSUME NEW k \in 1 .. N, k - 1 \in P PROVE k \in P
  <2>1. PICK g : Upto(g, k - 1)
    BY <1>2
  <2> DEFINE h == [n \in 0 .. k |-> IF n = k THEN step[k][g[k - 1]] ELSE g[n]]
  <2>2. /\ k \in 0 .. N /\ 0 \in 0 .. k /\ 0 # k
        /\ k - 1 \in 0 .. k - 1 /\ g \in [0 .. k - 1 -> S] /\ g[k - 1] \in S
        /\ step[k][g[k - 1]] \in S
    BY <2>1 DEF PrimRec
  <2>3. \A n \in 0 .. k : h[n] = IF n = k THEN step[k][g[k - 1]] ELSE g[n]
    OBVIOUS
  <2>4. h \in [0 .. k -> S]
    <3>1. \A n \in 0 .. k : n # k => n \in 0 .. k - 1
      OBVIOUS
    <3> QED BY <2>2, <3>1
  <2> HIDE DEF h
  <2>5. h[0] = base
    BY <2>1, <2>2, <2>3 DEF PrimRec
  <2>6. ASSUME NEW n \in 1 .. k PROVE h[n] = step[n][h[n - 1]]
    <3>1. n \in 0 .. k /\ n - 1 \in 0 .. k /\ n - 1 # k /\ (n # k => n \in 1 .. k - 1)
      OBVIOUS
    <3>2. h[n - 1] = g[n - 1]
      BY <2>3, <3>1
    <3>3. CASE n = k
      BY <2>3, <3>1, <3>2, <3>3
    <3>4. CASE n # k
      BY <2>1, <2>3, <3>1, <3>2, <3>4 DEF PrimRec
    <3> QED BY <3>3, <3>4
  <2>7. Upto(h, k)
    BY <2>4, <2>5, <2>6 DEF PrimRec
  <2> QED BY <2>2, <2>7
<1> HIDE DEF P
<1>3. \A k \in 0 .. N : k \in P
  BY <1>1, <1>2, UpTo
<1>4. PICK g : Upto(g, N)
  BY <1>3 DEF P
<1> QED BY <1>4

\* Two functions that start alike and go on alike are alike.
LEMMA RecursionUnique ==
  ASSUME NEW N \in Nat, NEW g, NEW h, g[0] = h[0],
         \A n \in 1 .. N : g[n - 1] = h[n - 1] => g[n] = h[n]
  PROVE  \A n \in 0 .. N : g[n] = h[n]
<1> DEFINE P == {n \in 0 .. N : g[n] = h[n]}
<1>1. 0 \in P
  OBVIOUS
<1>2. \A n \in 1 .. N : n - 1 \in P => n \in P
  OBVIOUS
<1> HIDE DEF P
<1>3. \A n \in 0 .. N : n \in P
  BY <1>1, <1>2, UpTo
<1> QED BY <1>3 DEF P

\* The same for all natural numbers, when each step is the same.
LEMMA RecursionOnNat ==
  ASSUME NEW S, NEW base \in S, NEW step \in [S -> S]
  PROVE  \E g \in [Nat -> S] : g[0] = base /\ \A n \in Nat \ {0} : g[n] = step[g[n - 1]]
<1> DEFINE Each(N) == [k \in 1 .. N |-> step]
           Upto(g, N) == PrimRec(g, N, S, base, Each(N))
           G(N) == CHOOSE g : Upto(g, N)
           f == [n \in Nat |-> G(n)[n]]
<1>1. ASSUME NEW N \in Nat PROVE Upto(G(N), N)
  <2>1. Each(N) \in [1 .. N -> [S -> S]]
    OBVIOUS
  <2> HIDE DEF Each
  <2>2. \E g : Upto(g, N)
    BY <2>1, RecursionExists
  <2> HIDE DEF Upto
  <2> QED BY <2>2
<1> HIDE DEF G
<1>2. ASSUME NEW N \in Nat
      PROVE  /\ G(N) \in [0 .. N -> S] /\ G(N)[0] = base
             /\ \A n \in 1 .. N : G(N)[n] = step[G(N)[n - 1]]
  BY <1>1 DEF PrimRec
<1>3. f \in [Nat -> S]
  <2>1. \A n \in Nat : n \in 0 .. n
    OBVIOUS
  <2> QED BY <1>2, <2>1
<1>4. f[0] = base
  BY <1>2
<1>5. ASSUME NEW n \in Nat \ {0} PROVE f[n] = step[f[n - 1]]
  <2>1. n - 1 \in Nat /\ n \in 1 .. n /\ n - 1 \in 0 .. n - 1
    OBVIOUS
  <2>2. G(n)[0] = G(n - 1)[0]
    BY <1>2, <2>1
  <2>3. \A k \in 1 .. n - 1 : G(n)[k - 1] = G(n - 1)[k - 1] => G(n)[k] = G(n - 1)[k]
    <3>1. \A k \in 1 .. n - 1 : k \in 1 .. n
      OBVIOUS
    <3> QED BY <1>2, <2>1, <3>1
  <2>4. G(n)[n - 1] = G(n - 1)[n - 1]
    BY <2>1, <2>2, <2>3, RecursionUnique
  <2>5. G(n)[n] = step[G(n)[n - 1]]
    BY <1>2, <2>1
  <2> QED BY <2>1, <2>4, <2>5
<1> QED BY <1>3, <1>4, <1>5

----------------------------------------------------------------------------
(* Removing an entry of a sequence.                                        *)

LEMMA RemoveAtProperties ==
  ASSUME NEW S, NEW s \in Seq(S), NEW k \in 1 .. Len(s)
  PROVE  /\ RemoveAt(s, k) \in Seq(S)
         /\ Len(RemoveAt(s, k)) = Len(s) - 1
         /\ \A i \in 1 .. Len(s) - 1 :
               RemoveAt(s, k)[i] = IF i < k THEN s[i] ELSE s[i + 1]
<1> DEFINE a == SubSeq(s, 1, k - 1)
           b == SubSeq(s, k + 1, Len(s))
<1>1. Len(s) \in Nat /\ \A i \in 1 .. Len(s) : s[i] \in S
  OBVIOUS
<1>2. /\ a \in Seq(S) /\ Len(a) = k - 1
      /\ \A i \in 1 .. k - 1 : a[i] = s[i]
  <2>1. /\ a \in Seq(S) /\ Len(a) = IF 1 <= k - 1 THEN k - 1 - 1 + 1 ELSE 0
        /\ \A i \in 1 .. k - 1 - 1 + 1 : a[i] = s[1 + i - 1]
    BY <1>1, SubSeqProperties
  <2> QED BY <1>1, <2>1
<1>3. /\ b \in Seq(S) /\ Len(b) = Len(s) - k
      /\ \A i \in 1 .. Len(s) - k : b[i] = s[k + i]
  <2>1. /\ b \in Seq(S) /\ Len(b) = IF k + 1 <= Len(s) THEN Len(s) - (k + 1) + 1 ELSE 0
        /\ \A i \in 1 .. Len(s) - (k + 1) + 1 : b[i] = s[k + 1 + i - 1]
    BY <1>1, SubSeqProperties
  <2> QED BY <1>1, <2>1
<1> HIDE DEF a, b
<1>4. /\ a \o b \in Seq(S) /\ Len(a \o b) = Len(a) + Len(b)
      /\ \A i \in 1 .. Len(a) + Len(b) :
            (a \o b)[i] = IF i <= Len(a) THEN a[i] ELSE b[i - Len(a)]
  BY <1>2, <1>3, ConcatProperties
<1>5. ASSUME NEW i \in 1 .. Len(s) - 1
      PROVE  (a \o b)[i] = IF i < k THEN s[i] ELSE s[i + 1]
  <2>1. (a \o b)[i] = IF i <= k - 1 THEN a[i] ELSE b[i - (k - 1)]
    BY <1>1, <1>2, <1>3, <1>4
  <2>2. CASE i < k
    BY <1>1, <1>2, <2>1, <2>2
  <2>3. CASE ~ (i < k)
    <3>1. i - (k - 1) \in 1 .. Len(s) - k /\ k + (i - (k - 1)) = i + 1
      BY <1>1, <2>3
    <3>2. b[i - (k - 1)] = s[i + 1]
      BY <1>3, <3>1
    <3> QED BY <2>1, <2>3, <3>2
  <2> QED BY <2>2, <2>3
<1>6. RemoveAt(s, k) = a \o b
  BY DEF RemoveAt, a, b
<1>7. Len(a \o b) = Len(s) - 1
  BY <1>1, <1>2, <1>3, <1>4
<1> QED BY <1>4, <1>5, <1>6, <1>7

\* RemoveFirst takes one entry of an element off, if there is one.
LEMMA RemoveFirstProperties ==
  ASSUME NEW S, NEW s \in Seq(S), NEW e
  PROVE  /\ RemoveFirst(s, e) \in Seq(S)
         /\ ~ Contains(s, e) => RemoveFirst(s, e) = s
         /\ Contains(s, e) => \E k \in 1 .. Len(s) :
               s[k] = e /\ RemoveFirst(s, e) = RemoveAt(s, k)
<1>1. CASE ~ Contains(s, e)
  BY <1>1 DEF RemoveFirst, Contains
<1>2. CASE Contains(s, e)
  <2> DEFINE I == {i \in 1 .. Len(s) : s[i] = e}
             k == CHOOSE x \in I : \A y \in I : x <= y
  <2>1. RemoveFirst(s, e) = RemoveAt(s, k)
    BY <1>2 DEF RemoveFirst, Contains, SelectInSeq, Min
  <2>2. I # {} /\ I \in SUBSET Nat
    BY <1>2 DEF Contains
  <2>3. k \in I
    <3> HIDE DEF I
    <3>1. \E x \in I : \A y \in I : x <= y
      BY <2>2, LeastNatural
    <3> QED BY <3>1
  <2> HIDE DEF k
  <2>4. k \in 1 .. Len(s) /\ s[k] = e
    BY <2>3
  <2> QED BY <1>2, <2>1, <2>4, RemoveAtProperties
<1> QED BY <1>1, <1>2

\* Another element stays in the sequence.
LEMMA RemoveAtKeeps ==
  ASSUME NEW S, NEW s \in Seq(S), NEW k \in 1 .. Len(s), NEW e, e # s[k],
         Contains(s, e)
  PROVE  Contains(RemoveAt(s, k), e)
<1>1. PICK i \in 1 .. Len(s) : s[i] = e
  BY DEF Contains
<1> DEFINE r == RemoveAt(s, k)
<1>2. /\ r \in Seq(S) /\ Len(r) = Len(s) - 1 /\ Len(s) \in Nat
      /\ \A j \in 1 .. Len(s) - 1 : r[j] = IF j < k THEN s[j] ELSE s[j + 1]
  <2>1. Len(s) \in Nat
    OBVIOUS
  <2> QED BY <2>1, RemoveAtProperties
<1> HIDE DEF r
<1>3. CASE i < k
  <2>1. i \in 1 .. Len(s) - 1 /\ r[i] = s[i]
    BY <1>2, <1>3
  <2> QED BY <1>1, <1>2, <2>1 DEF Contains, r
<1>4. CASE ~ (i < k)
  <2>1. i # k
    BY <1>1
  <2>2. i - 1 \in 1 .. Len(s) - 1 /\ ~ (i - 1 < k) /\ i - 1 + 1 = i
    BY <1>2, <1>4, <2>1
  <2>3. r[i - 1] = s[i]
    BY <1>2, <2>2
  <2> QED BY <1>1, <1>2, <2>2, <2>3 DEF Contains, r
<1> QED BY <1>3, <1>4

LEMMA RemoveFirstKeeps ==
  ASSUME NEW S, NEW s \in Seq(S), NEW a, NEW e, e # a, Contains(s, e)
  PROVE  Contains(RemoveFirst(s, a), e)
<1>1. CASE ~ Contains(s, a)
  BY <1>1, RemoveFirstProperties
<1>2. CASE Contains(s, a)
  <2>1. PICK k \in 1 .. Len(s) : s[k] = a /\ RemoveFirst(s, a) = RemoveAt(s, k)
    BY <1>2, RemoveFirstProperties
  <2> QED BY <2>1, RemoveAtKeeps
<1> QED BY <1>1, <1>2

\* Append puts its element at the end, and keeps the others.
LEMMA AppendContains ==
  ASSUME NEW S, NEW s \in Seq(S), NEW a \in S
  PROVE  /\ Append(s, a) \in Seq(S) /\ Contains(Append(s, a), a)
         /\ \A e : Contains(s, e) => Contains(Append(s, a), e)
<1>1. /\ Append(s, a) \in Seq(S) /\ Len(Append(s, a)) = Len(s) + 1
      /\ Append(s, a)[Len(s) + 1] = a /\ Len(s) \in Nat
      /\ \A i \in 1 .. Len(s) : Append(s, a)[i] = s[i]
  OBVIOUS
<1>2. Len(s) + 1 \in 1 .. Len(Append(s, a)) /\ \A i \in 1 .. Len(s) : i \in 1 .. Len(Append(s, a))
  BY <1>1
<1> QED BY <1>1, <1>2 DEF Contains

\* What is removed at a place of a list without repetitions is gone, and what
\* stays was there.
LEMMA InjectiveRemoveAt ==
  ASSUME NEW S, NEW s \in Seq(S), NEW k \in 1 .. Len(s), IsInjective(s)
  PROVE  /\ IsInjective(RemoveAt(s, k)) /\ ~ Contains(RemoveAt(s, k), s[k])
         /\ \A e : Contains(RemoveAt(s, k), e) => Contains(s, e)
<1> DEFINE r == RemoveAt(s, k)
<1>1. /\ r \in Seq(S) /\ Len(r) = Len(s) - 1 /\ Len(s) \in Nat
      /\ \A j \in 1 .. Len(s) - 1 : r[j] = IF j < k THEN s[j] ELSE s[j + 1]
  <2>1. Len(s) \in Nat
    OBVIOUS
  <2> QED BY <2>1, RemoveAtProperties
<1> HIDE DEF r
<1> DEFINE from(j) == IF j < k THEN j ELSE j + 1
<1>2. DOMAIN r = 1 .. Len(s) - 1 /\ DOMAIN s = 1 .. Len(s)
  BY <1>1
<1>3. \A j \in 1 .. Len(s) - 1 : from(j) \in 1 .. Len(s) /\ from(j) # k /\ r[j] = s[from(j)]
  BY <1>1
<1>4. \A i, j \in 1 .. Len(s) - 1 : from(i) = from(j) => i = j
  BY <1>1
<1>5. \A i, j \in 1 .. Len(s) : s[i] = s[j] => i = j
  BY <1>2 DEF IsInjective
<1> HIDE DEF from
<1>6. IsInjective(r)
  BY <1>2, <1>3, <1>4, <1>5 DEF IsInjective
<1>7. ~ Contains(r, s[k])
  BY <1>1, <1>3, <1>5 DEF Contains
<1>8. \A e : Contains(r, e) => Contains(s, e)
  BY <1>1, <1>3 DEF Contains
<1> QED BY <1>6, <1>7, <1>8 DEF r

LEMMA InjectiveRemoveFirst ==
  ASSUME NEW S, NEW s \in Seq(S), NEW a, IsInjective(s)
  PROVE  /\ IsInjective(RemoveFirst(s, a)) /\ ~ Contains(RemoveFirst(s, a), a)
         /\ \A e : Contains(RemoveFirst(s, a), e) => Contains(s, e)
<1>1. CASE ~ Contains(s, a)
  BY <1>1, RemoveFirstProperties
<1>2. CASE Contains(s, a)
  <2>1. PICK k \in 1 .. Len(s) : s[k] = a /\ RemoveFirst(s, a) = RemoveAt(s, k)
    BY <1>2, RemoveFirstProperties
  <2> QED BY <2>1, InjectiveRemoveAt
<1> QED BY <1>1, <1>2

LEMMA InjectiveAppend ==
  ASSUME NEW S, NEW s \in Seq(S), NEW a \in S, IsInjective(s), ~ Contains(s, a)
  PROVE  /\ IsInjective(Append(s, a))
         /\ \A e : Contains(Append(s, a), e) => e = a \/ Contains(s, e)
<1> DEFINE r == Append(s, a)
<1>1. /\ DOMAIN r = 1 .. Len(s) + 1 /\ r[Len(s) + 1] = a /\ Len(s) \in Nat
      /\ \A i \in 1 .. Len(s) : r[i] = s[i]
      /\ Len(r) = Len(s) + 1 /\ DOMAIN s = 1 .. Len(s)
  OBVIOUS
<1>2. \A i \in 1 .. Len(s) + 1 : i \in 1 .. Len(s) \/ i = Len(s) + 1
  BY <1>1
<1> HIDE DEF r
<1>3. IsInjective(r)
  BY <1>1, <1>2 DEF IsInjective, Contains
<1>4. \A e : Contains(r, e) => e = a \/ Contains(s, e)
  BY <1>1, <1>2 DEF Contains
<1> QED BY <1>3, <1>4 DEF r
=============================================================================
