---------------------------- MODULE Graph_proofs ----------------------------
(***************************************************************************)
(* Proofs about the graph and about the reader that makes it, where each   *)
(* edge has two ends unless it is just being added: the adjacency lists    *)
(* are those of the edges the graph knows, no tuple outlives its row, and  *)
(* what listeners are told of are the steps of a multigraph.  A spanning   *)
(* tree that was built to its end spans what is connected to its root, and *)
(* a document that is read makes the graph it describes.                   *)
(***************************************************************************)
EXTENDS GraphMLReader, DataLemmas, FiniteSetTheorems

----------------------------------------------------------------------------
(* Rows.                                                                   *)

LEMMA OpenIsFinite ==
  ASSUME NEW rm, RowManagerOK(rm)
  PROVE  IsFiniteSet(rm.open) /\ Cardinality(rm.open) \in Nat
<1>1. IsFiniteSet(rm.first .. rm.cur)
  <2>1. rm.first \in Int /\ rm.cur \in Int
    BY DEF RowManagerOK
  <2> QED BY <2>1, FS_Interval
<1> QED BY <1>1, FS_Subset, FS_CardinalityType DEF RowManagerOK

\* addRow takes a row that is free, and only that one.
LEMMA NewRowIsFree ==
  ASSUME NEW rm, RowManagerOK(rm)
  PROVE  /\ NewRow(rm) \in Nat /\ NewRow(rm) \notin Valid(rm)
         /\ RowManagerOK(AddRow(rm))
         /\ Valid(AddRow(rm)) = Valid(rm) \cup {NewRow(rm)}
<1> DEFINE r == NewRow(rm)
           Type == [first : Nat, cur : Nat \cup {-1}, open : SUBSET Nat]
<1>1. /\ rm \in Type
      /\ rm.first \in Nat /\ rm.cur \in Int /\ rm.cur >= -1 /\ rm.first <= rm.cur + 1
      /\ rm.open \subseteq rm.first .. rm.cur
  BY DEF RowManagerOK
<1>2. CASE rm.open # {}
  <2>1. r \in rm.open
    <3>1. \E n \in rm.open : \A m \in rm.open : n <= m
      <4>1. rm.open \in SUBSET Nat
        BY <1>1
      <4> QED BY <1>2, <4>1, LeastNatural
    <3> QED BY <1>2, <3>1 DEF NewRow, Min
  <2>2. AddRow(rm) = [rm EXCEPT !.open = @ \ {r}]
    BY <1>2 DEF AddRow
  <2> HIDE DEF r
  <2>3. /\ AddRow(rm).first = rm.first /\ AddRow(rm).cur = rm.cur
        /\ AddRow(rm).open = rm.open \ {r}
        /\ AddRow(rm) \in Type
    BY <1>1, <2>2
  <2>4. Valid(AddRow(rm)) = Valid(rm) \cup {r}
    BY <1>1, <2>1, <2>3 DEF Valid
  <2>5. RowManagerOK(AddRow(rm))
    BY <1>1, <2>3 DEF RowManagerOK
  <2>6. r \in Nat /\ r \notin Valid(rm)
    BY <1>1, <2>1 DEF Valid
  <2> QED BY <2>3, <2>4, <2>5, <2>6 DEF r
<1>3. CASE rm.open = {} /\ rm.first = 0
  <2>1. r = rm.cur + 1 /\ AddRow(rm) = [rm EXCEPT !.cur = r]
    BY <1>3 DEF NewRow, AddRow
  <2> HIDE DEF r
  <2>2. /\ AddRow(rm).first = 0 /\ AddRow(rm).cur = rm.cur + 1 /\ AddRow(rm).open = {}
        /\ AddRow(rm) \in Type
    BY <1>1, <1>3, <2>1
  <2>3. Valid(AddRow(rm)) = 0 .. rm.cur + 1 /\ Valid(rm) = 0 .. rm.cur
    BY <1>3, <2>2 DEF Valid
  <2>4. RowManagerOK(AddRow(rm))
    BY <1>1, <2>2 DEF RowManagerOK
  <2> QED BY <1>1, <2>1, <2>2, <2>3, <2>4 DEF r
<1>4. CASE rm.open = {} /\ rm.first # 0
  <2>1. r = rm.first - 1 /\ AddRow(rm) = [rm EXCEPT !.first = r]
    BY <1>4 DEF NewRow, AddRow
  <2> HIDE DEF r
  <2>2. /\ AddRow(rm).first = rm.first - 1 /\ AddRow(rm).cur = rm.cur
        /\ AddRow(rm).open = {} /\ r \in Nat
        /\ AddRow(rm) \in Type
    BY <1>1, <1>4, <2>1
  <2>3. Valid(AddRow(rm)) = rm.first - 1 .. rm.cur /\ Valid(rm) = rm.first .. rm.cur
    BY <1>4, <2>2 DEF Valid
  <2>4. RowManagerOK(AddRow(rm))
    BY <1>1, <1>4, <2>2 DEF RowManagerOK
  <2> QED BY <1>1, <2>1, <2>2, <2>3, <2>4 DEF r
<1> QED BY <1>2, <1>3, <1>4

\* A row that is released is free, and only that one.
LEMMA ReleasedRowIsFree ==
  ASSUME NEW rm, RowManagerOK(rm), NEW r \in Valid(rm)
  PROVE  /\ RowManagerOK(ReleaseRow(rm, r))
         /\ Valid(ReleaseRow(rm, r)) = Valid(rm) \ {r}
<1> DEFINE R == ReleaseRow(rm, r)
           Type == [first : Nat, cur : Nat \cup {-1}, open : SUBSET Nat]
<1>1. /\ rm \in Type
      /\ rm.first \in Nat /\ rm.cur \in Nat \cup {-1} /\ rm.first <= rm.cur + 1
      /\ rm.open \subseteq rm.first .. rm.cur
      /\ r \in rm.first .. rm.cur /\ r \notin rm.open
  BY DEF RowManagerOK, Valid
<1>2. CASE r = rm.cur
  <2>1. R = [rm EXCEPT !.cur = @ - 1]
    BY <1>2 DEF ReleaseRow
  <2> HIDE DEF R
  <2>2. R \in Type /\ R.first = rm.first /\ R.cur = rm.cur - 1 /\ R.open = rm.open
    BY <1>1, <1>2, <2>1
  <2>3. RowManagerOK(R) /\ Valid(R) = Valid(rm) \ {r}
    BY <1>1, <1>2, <2>2 DEF RowManagerOK, Valid
  <2> QED BY <2>3 DEF R
<1>3. CASE r # rm.cur /\ r = rm.first
  <2>1. R = [rm EXCEPT !.first = @ + 1]
    BY <1>3 DEF ReleaseRow
  <2> HIDE DEF R
  <2>2. R \in Type /\ R.first = rm.first + 1 /\ R.cur = rm.cur /\ R.open = rm.open
    BY <1>1, <1>3, <2>1
  <2>3. RowManagerOK(R) /\ Valid(R) = Valid(rm) \ {r}
    BY <1>1, <1>3, <2>2 DEF RowManagerOK, Valid
  <2> QED BY <2>3 DEF R
<1>4. CASE r # rm.cur /\ r # rm.first
  <2>1. R = [rm EXCEPT !.open = @ \cup {r}]
    BY <1>4 DEF ReleaseRow
  <2> HIDE DEF R
  <2>2. R \in Type /\ R.first = rm.first /\ R.cur = rm.cur /\ R.open = rm.open \cup {r}
    BY <1>1, <2>1
  <2>3. RowManagerOK(R) /\ Valid(R) = Valid(rm) \ {r}
    BY <1>1, <2>2 DEF RowManagerOK, Valid
  <2> QED BY <2>3 DEF R
<1> QED BY <1>2, <1>3, <1>4

\* The rows of a table that none was removed from.
LEMMA RowsAreValid ==
  ASSUME NEW n \in Nat
  PROVE  /\ RowManagerOK(Rows(n)) /\ Valid(Rows(n)) = 0 .. n - 1
         /\ NewRow(Rows(n)) = n /\ AddRow(Rows(n)) = Rows(n + 1)
<1>1. Rows(n) = [first |-> 0, cur |-> n - 1, open |-> {}]
  BY DEF Rows, NoRows
<1>2. Rows(n + 1) = [first |-> 0, cur |-> n, open |-> {}]
  <2>1. n + 1 - 1 = n
    OBVIOUS
  <2>2. Rows(n + 1) = [first |-> 0, cur |-> n + 1 - 1, open |-> {}]
    BY DEF Rows, NoRows
  <2> QED BY <2>1, <2>2
<1>3. NewRow(Rows(n)) = n /\ AddRow(Rows(n)) = [Rows(n) EXCEPT !.cur = n]
  <2>1. Rows(n).cur + 1 = n /\ Rows(n).open = {} /\ Rows(n).first = 0
    BY <1>1
  <2>2. NewRow(Rows(n)) = n
    BY <2>1 DEF NewRow
  <2>3. AddRow(Rows(n)) = [Rows(n) EXCEPT !.cur = NewRow(Rows(n))]
    BY <2>1 DEF AddRow
  <2> QED BY <2>2, <2>3
<1>4. RowManagerOK(Rows(n)) /\ Valid(Rows(n)) = 0 .. n - 1
  BY <1>1 DEF RowManagerOK, Valid
<1>5. [Rows(n) EXCEPT !.cur = n] = Rows(n + 1)
  <2>1. [[first |-> 0, cur |-> n - 1, open |-> {}] EXCEPT !.cur = n]
          = [first |-> 0, cur |-> n, open |-> {}]
    OBVIOUS
  <2> QED BY <1>1, <1>2, <2>1, Zenon
<1> QED BY <1>3, <1>4, <1>5

LEMMA EnsureTupleArrayType ==
  ASSUME NEW S, NEW tm \in [len : Nat, rows : SUBSET S], NEW rm, RowManagerOK(rm)
  PROVE  /\ EnsureTupleArray(tm, rm) \in [len : Nat, rows : SUBSET S]
         /\ EnsureTupleArray(tm, rm).rows = tm.rows
<1>1. RowCount(rm) \in Int
  BY OpenIsFinite DEF RowCount, RowManagerOK
<1>2. CASE tm.len >= RowCount(rm)
  BY <1>2 DEF EnsureTupleArray
<1>3. CASE ~ (tm.len >= RowCount(rm))
  <2> DEFINE a == (3 * tm.len) \div 2 + 1  b == RowCount(rm)
  <2>1. tm.len \in Nat /\ a \in Nat /\ b \in Nat
    BY <1>1, <1>3
  <2> HIDE DEF a, b
  <2>2. Max({a, b}) \in {a, b}
    <3>1. \E x \in {a, b} : \A y \in {a, b} : x >= y
      BY <2>1
    <3> QED BY <3>1 DEF Max
  <2>3. EnsureTupleArray(tm, rm) = [tm EXCEPT !.len = Max({a, b})]
    BY <1>3 DEF EnsureTupleArray, a, b
  <2> QED BY <2>1, <2>2, <2>3
<1> QED BY <1>2, <1>3

LEMMA GetTupleType ==
  ASSUME NEW S, NEW tm \in [len : Nat, rows : SUBSET S], NEW rm, RowManagerOK(rm),
         NEW r \in S
  PROVE  /\ GetTuple(tm, rm, r) \in [len : Nat, rows : SUBSET S]
         /\ GetTuple(tm, rm, r).rows \subseteq tm.rows \cup {r}
<1> DEFINE ensured == EnsureTupleArray(tm, rm)
<1>1. ensured \in [len : Nat, rows : SUBSET S] /\ ensured.rows = tm.rows
  BY EnsureTupleArrayType
<1>2. GetTuple(tm, rm, r)
        = IF r < ensured.len THEN [ensured EXCEPT !.rows = @ \cup {r}] ELSE ensured
  BY DEF GetTuple
<1> HIDE DEF ensured
<1> QED BY <1>1, <1>2

----------------------------------------------------------------------------
(* Adjacency lists.                                                        *)

LEMMA ListsAppend ==
  ASSUME NEW U, NEW list \in Seq(U), NEW S, Lists(list, S), NEW e \in U, e \notin S
  PROVE  Append(list, e) \in Seq(U) /\ Lists(Append(list, e), S \cup {e})
<1> DEFINE a == Append(list, e)  n == Len(list)
<1>1. /\ n \in Nat /\ DOMAIN list = 1 .. n
      /\ a \in Seq(U) /\ DOMAIN a = 1 .. n + 1
      /\ a[n + 1] = e /\ \A i \in 1 .. n : a[i] = list[i]
  OBVIOUS
<1>2. S = {list[i] : i \in 1 .. n} /\ \A i, j \in 1 .. n : list[i] = list[j] => i = j
  BY <1>1 DEF Lists, ToSet, IsInjective
<1> HIDE DEF a, n
<1>3. \A i \in 1 .. n + 1 : i = n + 1 \/ i \in 1 .. n
  BY <1>1
<1>4. \A i \in 1 .. n : i \in 1 .. n + 1 /\ n + 1 \in 1 .. n + 1
  BY <1>1
<1>5. {a[i] : i \in 1 .. n + 1} = S \cup {e}
  <2>1. ASSUME NEW x \in S PROVE \E i \in 1 .. n + 1 : a[i] = x
    <3>1. PICK i \in 1 .. n : list[i] = x
      BY <1>2
    <3> QED BY <1>1, <1>4, <3>1
  <2>2. n + 1 \in 1 .. n + 1
    BY <1>1
  <2>3. ASSUME NEW i \in 1 .. n + 1 PROVE a[i] \in S \cup {e}
    BY <1>1, <1>2, <1>3
  <2> QED BY <1>1, <2>1, <2>2, <2>3
<1>6. ASSUME NEW i \in 1 .. n + 1, NEW j \in 1 .. n + 1, a[i] = a[j] PROVE i = j
  <2>1. \A k \in 1 .. n : a[k] \in S
    BY <1>1, <1>2
  <2> QED BY <1>1, <1>2, <1>3, <1>6, <2>1
<1> QED BY <1>1, <1>5, <1>6 DEF Lists, ToSet, IsInjective, a

\* remLink of an edge that is in the list takes that edge out of it.
LEMMA ListsRemove ==
  ASSUME NEW U, NEW list \in Seq(U), NEW S, Lists(list, S), NEW e \in S
  PROVE  /\ RemLink(list, e) \in Seq(U)
         /\ Lists(RemLink(list, e), S \ {e})
         /\ Len(RemLink(list, e)) = Len(list) - 1
<1> DEFINE n == Len(list)  r == RemLink(list, e)
<1>1. n \in Nat /\ DOMAIN list = 1 .. n
  OBVIOUS
<1>2. S = {list[i] : i \in 1 .. n} /\ \A i, j \in 1 .. n : list[i] = list[j] => i = j
  BY <1>1 DEF Lists, ToSet, IsInjective
<1>3. Contains(list, e)
  BY <1>1, <1>2 DEF Contains
<1>4. r = RemoveFirst(list, e)
  BY <1>3 DEF RemLink
<1>5. PICK k \in 1 .. n : list[k] = e /\ r = RemoveAt(list, k)
  BY <1>3, <1>4, RemoveFirstProperties
<1>6. /\ r \in Seq(U) /\ Len(r) = n - 1
      /\ \A i \in 1 .. n - 1 : r[i] = IF i < k THEN list[i] ELSE list[i + 1]
  BY <1>5, RemoveAtProperties
<1> HIDE DEF n, r
<1>7. DOMAIN r = 1 .. n - 1
  BY <1>6
<1>8. ASSUME NEW i \in 1 .. n - 1 PROVE r[i] \in S \ {e}
  <2>1. i \in 1 .. n /\ i + 1 \in 1 .. n /\ k \in Nat
    BY <1>1
  <2>2. CASE i < k
    BY <1>2, <1>5, <1>6, <2>1, <2>2
  <2>3. CASE ~ (i < k)
    <3>1. i + 1 # k /\ r[i] = list[i + 1]
      BY <1>6, <2>1, <2>3
    <3> QED BY <1>2, <1>5, <2>1, <3>1
  <2> QED BY <2>2, <2>3
<1>9. ASSUME NEW x \in S \ {e} PROVE \E i \in 1 .. n - 1 : r[i] = x
  <2>1. PICK i \in 1 .. n : list[i] = x
    BY <1>2
  <2>2. i # k
    BY <1>5, <2>1
  <2>3. CASE i < k
    <3>1. i \in 1 .. n - 1 /\ r[i] = list[i]
      BY <1>1, <1>6, <2>3
    <3> QED BY <2>1, <3>1
  <2>4. CASE ~ (i < k)
    <3>1. i - 1 \in 1 .. n - 1 /\ ~ (i - 1 < k) /\ i - 1 + 1 = i
      BY <1>1, <2>2, <2>4
    <3>2. r[i - 1] = list[i]
      BY <1>6, <3>1
    <3> QED BY <2>1, <3>1, <3>2
  <2> QED BY <2>3, <2>4
<1>10. ASSUME NEW i \in 1 .. n - 1, NEW j \in 1 .. n - 1, r[i] = r[j] PROVE i = j
  <2>1. /\ i \in 1 .. n /\ i + 1 \in 1 .. n /\ j \in 1 .. n /\ j + 1 \in 1 .. n
        /\ k \in Nat /\ i \in Nat /\ j \in Nat
    BY <1>1
  <2>2. (IF i < k THEN i ELSE i + 1) = (IF j < k THEN j ELSE j + 1)
    <3>1. /\ r[i] = list[IF i < k THEN i ELSE i + 1]
          /\ r[j] = list[IF j < k THEN j ELSE j + 1]
      BY <1>6
    <3>2. /\ (IF i < k THEN i ELSE i + 1) \in 1 .. n
          /\ (IF j < k THEN j ELSE j + 1) \in 1 .. n
      BY <2>1
    <3> QED BY <1>2, <1>10, <3>1, <3>2
  <2> QED BY <2>1, <2>2
<1>11. ToSet(r) = S \ {e}
  BY <1>7, <1>8, <1>9 DEF ToSet
<1>12. IsInjective(r)
  BY <1>7, <1>10 DEF IsInjective
<1> QED BY <1>6, <1>11, <1>12 DEF Lists, n, r

\* A list is empty if it lists nothing, and has an entry for each element.
LEMMA ListsLength ==
  ASSUME NEW U, NEW list \in Seq(U), NEW S, Lists(list, S)
  PROVE  /\ S = {} => list = <<>>
         /\ \A i \in 1 .. Len(list) : list[i] \in S
         /\ \A e \in S : Contains(list, e)
         /\ \A e : Contains(list, e) => e \in S
<1>1. Len(list) \in Nat /\ DOMAIN list = 1 .. Len(list)
  OBVIOUS
<1>2. S = {list[i] : i \in 1 .. Len(list)}
  BY <1>1 DEF Lists, ToSet
<1>3. S = {} => list = <<>>
  <2> SUFFICES ASSUME S = {} PROVE list = <<>>
    OBVIOUS
  <2>1. ~ (1 \in 1 .. Len(list))
    BY <1>2
  <2>2. Len(list) = 0
    BY <1>1, <2>1
  <2> QED BY <2>2
<1> QED BY <1>1, <1>2, <1>3 DEF Contains

\* It is no longer than there are edges.
LEMMA ListsBounded ==
  ASSUME NEW list \in Seq(EdgeRows), NEW S, Lists(list, S)
  PROVE  Len(list) \in 0 .. MaxEdges
<1>1. Len(list) \in Nat /\ DOMAIN list = 1 .. Len(list) /\ MaxEdges \in Nat
  BY GraphAssumption
<1>2. list \in Injection(1 .. Len(list), EdgeRows)
  BY <1>1 DEF Lists, Injection
<1>3. IsFiniteSet(EdgeRows) /\ Cardinality(EdgeRows) = MaxEdges
  <2>1. 0 \in Int /\ MaxEdges - 1 \in Int
    BY <1>1
  <2>2. IsFiniteSet(0 .. MaxEdges - 1)
        /\ Cardinality(0 .. MaxEdges - 1) = IF 0 > MaxEdges - 1 THEN 0 ELSE MaxEdges - 1 - 0 + 1
    BY <2>1, FS_Interval
  <2> QED BY <1>1, <2>2 DEF EdgeRows
<1>4. Cardinality(1 .. Len(list)) = Len(list)
  <2>1. 1 \in Int /\ Len(list) \in Int
    BY <1>1
  <2>2. Cardinality(1 .. Len(list)) = IF 1 > Len(list) THEN 0 ELSE Len(list) - 1 + 1
    BY <2>1, FS_Interval
  <2> QED BY <1>1, <2>2
<1>5. Cardinality(1 .. Len(list)) <= Cardinality(EdgeRows)
  BY <1>2, <1>3, FS_Injection
<1> QED BY <1>1, <1>3, <1>4, <1>5

AllLinks == [NodeRows -> [in : Seq(EdgeRows), out : Seq(EdgeRows)]]

\* Link puts the edge at the end of one list of each of its ends, which are one
\* node for a loop, and Unlink takes it from there.
LEMMA LinkFields ==
  ASSUME NEW lk \in AllLinks, NEW e \in EdgeRows, NEW s \in NodeRows, NEW t \in NodeRows
  PROVE  /\ Link(lk, e, s, t) \in AllLinks
         /\ \A n \in NodeRows :
               /\ Link(lk, e, s, t)[n].in = IF n = t THEN Append(lk[n].in, e) ELSE lk[n].in
               /\ Link(lk, e, s, t)[n].out = IF n = s THEN Append(lk[n].out, e) ELSE lk[n].out
<1> DEFINE l1 == [lk EXCEPT ![s].out = Append(@, e)]
           l2 == [l1 EXCEPT ![t].in = Append(@, e)]
<1>1. \A n \in NodeRows : lk[n] \in [in : Seq(EdgeRows), out : Seq(EdgeRows)]
  BY DEF AllLinks
<1>2. Append(lk[s].out, e) \in Seq(EdgeRows)
  BY <1>1
<1>3. /\ l1 \in AllLinks
      /\ \A n \in NodeRows : /\ l1[n].in = lk[n].in
                             /\ l1[n].out = IF n = s THEN Append(lk[n].out, e) ELSE lk[n].out
  BY <1>1, <1>2 DEF AllLinks
<1> HIDE DEF l1
<1>4. \A n \in NodeRows : l1[n] \in [in : Seq(EdgeRows), out : Seq(EdgeRows)]
  BY <1>3 DEF AllLinks
<1>5. Append(l1[t].in, e) \in Seq(EdgeRows)
  BY <1>4
<1>6. /\ l2 \in AllLinks
      /\ \A n \in NodeRows : /\ l2[n].in = IF n = t THEN Append(l1[n].in, e) ELSE l1[n].in
                             /\ l2[n].out = l1[n].out
  BY <1>3, <1>4, <1>5 DEF AllLinks
<1>7. l2 = Link(lk, e, s, t)
  BY DEF Link, l1
<1> HIDE DEF l2
<1> QED BY <1>3, <1>6, <1>7

LEMMA UnlinkFields ==
  ASSUME NEW lk \in AllLinks, NEW e \in EdgeRows, NEW s \in NodeRows, NEW t \in NodeRows,
         RemLink(lk[s].out, e) \in Seq(EdgeRows), RemLink(lk[t].in, e) \in Seq(EdgeRows)
  PROVE  /\ Unlink(lk, e, s, t) \in AllLinks
         /\ \A n \in NodeRows :
               /\ Unlink(lk, e, s, t)[n].in = IF n = t THEN RemLink(lk[n].in, e) ELSE lk[n].in
               /\ Unlink(lk, e, s, t)[n].out = IF n = s THEN RemLink(lk[n].out, e) ELSE lk[n].out
<1> DEFINE l1 == [lk EXCEPT ![s].out = RemLink(@, e)]
           l2 == [l1 EXCEPT ![t].in = RemLink(@, e)]
<1>1. \A n \in NodeRows : lk[n] \in [in : Seq(EdgeRows), out : Seq(EdgeRows)]
  BY DEF AllLinks
<1>3. /\ l1 \in AllLinks
      /\ \A n \in NodeRows : /\ l1[n].in = lk[n].in
                             /\ l1[n].out = IF n = s THEN RemLink(lk[n].out, e) ELSE lk[n].out
  BY <1>1 DEF AllLinks
<1> HIDE DEF l1
<1>4. \A n \in NodeRows : l1[n] \in [in : Seq(EdgeRows), out : Seq(EdgeRows)]
  BY <1>3 DEF AllLinks
<1>5. RemLink(l1[t].in, e) \in Seq(EdgeRows)
  BY <1>3
<1>6. /\ l2 \in AllLinks
      /\ \A n \in NodeRows : /\ l2[n].in = IF n = t THEN RemLink(l1[n].in, e) ELSE l1[n].in
                             /\ l2[n].out = l1[n].out
  BY <1>3, <1>4, <1>5 DEF AllLinks
<1>7. l2 = Unlink(lk, e, s, t)
  BY DEF Unlink, l1
<1> HIDE DEF l2
<1> QED BY <1>3, <1>6, <1>7

\* Linking an edge that was not linked, with the ends es gives it, keeps the
\* lists those of the edges linked.
LEMMA LinkKeeps ==
  ASSUME NEW lk \in AllLinks, NEW E \in SUBSET EdgeRows, NEW e \in EdgeRows \ E,
         NEW old, NEW es, Linked(lk, E, old), \A d \in E : es[d] = old[d],
         es[e][1] \in NodeRows, es[e][2] \in NodeRows
  PROVE  /\ Link(lk, e, es[e][1], es[e][2]) \in AllLinks
         /\ Linked(Link(lk, e, es[e][1], es[e][2]), E \cup {e}, es)
<1> DEFINE s == es[e][1]  t == es[e][2]  new == Link(lk, e, s, t)
<1> HIDE DEF s, t
<1>1. s \in NodeRows /\ t \in NodeRows
  BY DEF s, t
<1>2. /\ new \in AllLinks
      /\ \A n \in NodeRows :
            /\ new[n].in = IF n = t THEN Append(lk[n].in, e) ELSE lk[n].in
            /\ new[n].out = IF n = s THEN Append(lk[n].out, e) ELSE lk[n].out
  BY <1>1, LinkFields
<1> HIDE DEF new
<1>3. ASSUME NEW n \in NodeRows PROVE Lists(new[n].in, {d \in E \cup {e} : es[d][2] = n})
  <2> DEFINE S == {d \in E : old[d][2] = n}
  <2>1. Lists(lk[n].in, S) /\ lk[n].in \in Seq(EdgeRows) /\ e \notin S
    BY DEF Linked, AllLinks
  <2>2. {d \in E \cup {e} : es[d][2] = n} = IF n = t THEN S \cup {e} ELSE S
    BY DEF t
  <2> HIDE DEF S
  <2>3. CASE n = t
    <3>1. Lists(Append(lk[n].in, e), S \cup {e})
      BY <2>1, ListsAppend
    <3> QED BY <1>2, <2>2, <2>3, <3>1
  <2>4. CASE n # t
    BY <1>2, <2>1, <2>2, <2>4
  <2> QED BY <2>3, <2>4
<1>4. ASSUME NEW n \in NodeRows PROVE Lists(new[n].out, {d \in E \cup {e} : es[d][1] = n})
  <2> DEFINE S == {d \in E : old[d][1] = n}
  <2>1. Lists(lk[n].out, S) /\ lk[n].out \in Seq(EdgeRows) /\ e \notin S
    BY DEF Linked, AllLinks
  <2>2. {d \in E \cup {e} : es[d][1] = n} = IF n = s THEN S \cup {e} ELSE S
    BY DEF s
  <2> HIDE DEF S
  <2>3. CASE n = s
    <3>1. Lists(Append(lk[n].out, e), S \cup {e})
      BY <2>1, ListsAppend
    <3> QED BY <1>2, <2>2, <2>3, <3>1
  <2>4. CASE n # s
    BY <1>2, <2>1, <2>2, <2>4
  <2> QED BY <2>3, <2>4
<1> QED BY <1>2, <1>3, <1>4 DEF Linked, new, s, t

\* Unlinking an edge that is linked keeps them those of the others.
LEMMA UnlinkKeeps ==
  ASSUME NEW lk \in AllLinks, NEW E \in SUBSET EdgeRows, NEW e \in E,
         NEW es, NEW old, Linked(lk, E, old), \A d \in E \ {e} : es[d] = old[d],
         old[e][1] \in NodeRows, old[e][2] \in NodeRows
  PROVE  /\ Unlink(lk, e, old[e][1], old[e][2]) \in AllLinks
         /\ Linked(Unlink(lk, e, old[e][1], old[e][2]), E \ {e}, es)
         /\ \A n \in NodeRows :
               /\ Unlink(lk, e, old[e][1], old[e][2])[n].in
                    = IF n = old[e][2] THEN RemLink(lk[n].in, e) ELSE lk[n].in
               /\ Unlink(lk, e, old[e][1], old[e][2])[n].out
                    = IF n = old[e][1] THEN RemLink(lk[n].out, e) ELSE lk[n].out
<1> DEFINE s == old[e][1]  t == old[e][2]  new == Unlink(lk, e, s, t)
           In(n) == {d \in E : old[d][2] = n}  Out(n) == {d \in E : old[d][1] = n}
<1>1. e \in In(t) /\ e \in Out(s)
  OBVIOUS
<1>2. /\ \A n \in NodeRows : {d \in E \ {e} : es[d][2] = n} = IF n = t THEN In(n) \ {e} ELSE In(n)
      /\ \A n \in NodeRows : {d \in E \ {e} : es[d][1] = n} = IF n = s THEN Out(n) \ {e} ELSE Out(n)
  OBVIOUS
<1>3. /\ \A n \in NodeRows : Lists(lk[n].in, In(n)) /\ lk[n].in \in Seq(EdgeRows)
      /\ \A n \in NodeRows : Lists(lk[n].out, Out(n)) /\ lk[n].out \in Seq(EdgeRows)
  BY DEF Linked, AllLinks
<1>4. s \in NodeRows /\ t \in NodeRows
  OBVIOUS
<1> HIDE DEF s, t, In, Out
<1>5. RemLink(lk[t].in, e) \in Seq(EdgeRows) /\ Lists(RemLink(lk[t].in, e), In(t) \ {e})
  <2>1. lk[t].in \in Seq(EdgeRows) /\ Lists(lk[t].in, In(t))
    BY <1>3, <1>4
  <2> QED BY <1>1, <2>1, ListsRemove
<1>6. RemLink(lk[s].out, e) \in Seq(EdgeRows) /\ Lists(RemLink(lk[s].out, e), Out(s) \ {e})
  <2>1. lk[s].out \in Seq(EdgeRows) /\ Lists(lk[s].out, Out(s))
    BY <1>3, <1>4
  <2> QED BY <1>1, <2>1, ListsRemove
<1>7. /\ new \in AllLinks
      /\ \A n \in NodeRows :
            /\ new[n].in = IF n = t THEN RemLink(lk[n].in, e) ELSE lk[n].in
            /\ new[n].out = IF n = s THEN RemLink(lk[n].out, e) ELSE lk[n].out
  BY <1>4, <1>5, <1>6, UnlinkFields
<1> HIDE DEF new
<1>8. ASSUME NEW n \in NodeRows PROVE Lists(new[n].in, {d \in E \ {e} : es[d][2] = n})
  BY <1>2, <1>3, <1>5, <1>7
<1>9. ASSUME NEW n \in NodeRows PROVE Lists(new[n].out, {d \in E \ {e} : es[d][1] = n})
  BY <1>2, <1>3, <1>6, <1>7
<1>10. Linked(new, E \ {e}, es)
  BY <1>8, <1>9 DEF Linked
<1> QED BY <1>7, <1>10 DEF new, s, t

----------------------------------------------------------------------------
(* The first link table.                                                   *)

Steps(L, rm, es) ==
    /\ L \in [0 .. MaxEdges -> AllLinks] /\ L[0] = [n \in NodeRows |-> NoLinks]
    /\ \A k \in 1 .. MaxEdges : L[k] = LinkRow(L[k - 1], rm, es, k - 1)

LEMMA StepsExist ==
  ASSUME NEW rm, NEW es, \A e \in Valid(rm) : es[e] \in NodeRows \X NodeRows
  PROVE  \E L : Steps(L, rm, es)
<1> DEFINE N == MaxEdges  S == AllLinks  base == [n \in NodeRows |-> NoLinks]
           step == [k \in 1 .. N |-> [lk \in S |-> LinkRow(lk, rm, es, k - 1)]]
<1>1. N \in Nat /\ \A k \in 1 .. N : k - 1 \in EdgeRows
  BY GraphAssumption DEF EdgeRows
<1>2. base \in S
  BY DEF AllLinks, NoLinks
<1>3. ASSUME NEW k \in 1 .. N, NEW lk \in S PROVE LinkRow(lk, rm, es, k - 1) \in S
  <2> DEFINE e == k - 1
  <2>1. e \in EdgeRows
    BY <1>1
  <2> HIDE DEF e
  <2>2. CASE e \in Valid(rm)
    <3>1. es[e][1] \in NodeRows /\ es[e][2] \in NodeRows
      BY <2>2
    <3>2. Link(lk, e, es[e][1], es[e][2]) \in AllLinks
      BY <2>1, <3>1, LinkFields
    <3> QED BY <3>2 DEF LinkRow, e
  <2>3. CASE e \notin Valid(rm)
    BY <2>3 DEF LinkRow, e
  <2> QED BY <2>2, <2>3
<1>4. step \in [1 .. N -> [S -> S]]
  BY <1>3
<1> HIDE DEF N, S, base, step
<1>5. PICK L : PrimRec(L, N, S, base, step)
  <2>1. \E L : PrimRec(L, N, S, base, step)
    BY <1>1, <1>2, <1>4, RecursionExists
  <2> QED BY <2>1
<1>6. ASSUME NEW k \in 1 .. N PROVE L[k] = LinkRow(L[k - 1], rm, es, k - 1)
  <2>1. L[k - 1] \in S /\ L[k] = step[k][L[k - 1]]
    <3>1. k - 1 \in 0 .. N
      BY <1>1
    <3> QED BY <1>5, <3>1 DEF PrimRec
  <2> QED BY <2>1 DEF step
<1>7. Steps(L, rm, es)
  BY <1>5, <1>6 DEF PrimRec, Steps, N, S, base
<1> QED BY <1>7

LEMMA InitIsLast ==
  ASSUME NEW rm, NEW es, NEW L, Steps(L, rm, es)
  PROVE  InitLinkTable(rm, es) = L[MaxEdges]
<1> DEFINE Eq(s) == s = [k \in 0 .. MaxEdges |->
                           IF k = 0 THEN [n \in NodeRows |-> NoLinks]
                           ELSE LinkRow(s[k - 1], rm, es, k - 1)]
           s == CHOOSE h : Eq(h)
<1>1. MaxEdges \in Nat /\ 0 \in 0 .. MaxEdges /\ MaxEdges \in 0 .. MaxEdges
  BY GraphAssumption
<1>2. InitLinkTable(rm, es) = s[MaxEdges]
  BY DEF InitLinkTable
<1>3. Eq(L)
  BY <1>1 DEF Steps
<1>4. Eq(s)
  BY <1>3
<1> HIDE DEF s
<1>5. s[0] = L[0]
  BY <1>1, <1>4 DEF Steps
<1>6. ASSUME NEW k \in 1 .. MaxEdges, s[k - 1] = L[k - 1] PROVE s[k] = L[k]
  BY <1>1, <1>4, <1>6 DEF Steps
<1>7. s[MaxEdges] = L[MaxEdges]
  BY <1>1, <1>5, <1>6, RecursionUnique
<1> QED BY <1>2, <1>7

\* initLinkTable makes the lists of the edge table.
LEMMA InitLinks ==
  ASSUME NEW rm, Valid(rm) \subseteq EdgeRows,
         NEW es, \A e \in Valid(rm) : es[e] \in NodeRows \X NodeRows
  PROVE  /\ InitLinkTable(rm, es) \in AllLinks
         /\ Linked(InitLinkTable(rm, es), Valid(rm), es)
<1>1. PICK L : Steps(L, rm, es)
  BY StepsExist
<1> DEFINE E(k) == {e \in Valid(rm) : e < k}
           P == {k \in 0 .. MaxEdges : Linked(L[k], E(k), es)}
<1>2. /\ MaxEdges \in Nat /\ Valid(rm) \subseteq 0 .. MaxEdges - 1
      /\ EdgeRows = 0 .. MaxEdges - 1
  BY GraphAssumption DEF EdgeRows
<1>3. 0 \in P
  <2>1. Lists(<<>>, {})
    BY DEF Lists, ToSet, IsInjective
  <2>2. E(0) = {}
    BY <1>2
  <2> HIDE DEF E
  <2>3. \A n \in NodeRows : L[0][n].in = <<>> /\ L[0][n].out = <<>>
    BY <1>1 DEF Steps, NoLinks
  <2>4. Linked(L[0], E(0), es)
    BY <2>1, <2>2, <2>3 DEF Linked
  <2> QED BY <1>2, <2>4
<1>4. ASSUME NEW k \in 1 .. MaxEdges, k - 1 \in P PROVE k \in P
  <2> DEFINE e == k - 1
  <2>1. /\ e \in EdgeRows /\ L[e] \in AllLinks /\ L[k] = LinkRow(L[e], rm, es, e)
        /\ Linked(L[e], E(e), es)
    BY <1>1, <1>2, <1>4 DEF Steps
  <2>2. /\ E(e) \in SUBSET EdgeRows /\ e \notin E(e)
        /\ E(k) = IF e \in Valid(rm) THEN E(e) \cup {e} ELSE E(e)
    BY <1>2
  <2> HIDE DEF e, E
  <2>3. CASE e \in Valid(rm)
    <3>1. es[e][1] \in NodeRows /\ es[e][2] \in NodeRows /\ IsAttached(es[e])
      BY <2>3 DEF IsAttached, NodeRows
    <3>2. L[k] = Link(L[e], e, es[e][1], es[e][2])
      BY <2>1, <2>3, <3>1 DEF LinkRow
    <3>3. Linked(Link(L[e], e, es[e][1], es[e][2]), E(e) \cup {e}, es)
      BY <2>1, <2>2, <3>1, LinkKeeps
    <3>4. Linked(L[k], E(k), es)
      BY <2>2, <2>3, <3>2, <3>3
    <3> QED BY <1>2, <3>4
  <2>4. CASE e \notin Valid(rm)
    <3>1. L[k] = L[e] /\ E(k) = E(e)
      BY <2>1, <2>2, <2>4 DEF LinkRow
    <3> QED BY <1>2, <2>1, <3>1
  <2> QED BY <2>3, <2>4
<1>5. E(MaxEdges) = Valid(rm)
  BY <1>2
<1> HIDE DEF P, E
<1>6. \A k \in 0 .. MaxEdges : k \in P
  BY <1>2, <1>3, <1>4, UpTo
<1>7. MaxEdges \in 0 .. MaxEdges
  BY <1>2
<1>8. Linked(L[MaxEdges], Valid(rm), es)
  BY <1>5, <1>6, <1>7 DEF P
<1>9. L[MaxEdges] \in AllLinks
  BY <1>1, <1>7 DEF Steps
<1> QED BY <1>1, <1>8, <1>9, InitIsLast

----------------------------------------------------------------------------
(* The invariant, part by part.                                            *)

Ends == (NodeRows \cup {-1}) \X (NodeRows \cup {-1})

TablesOK ==
    /\ RowManagerOK(nodes) /\ Valid(nodes) \subseteq NodeRows
    /\ RowManagerOK(edges) /\ Valid(edges) \subseteq EdgeRows
    /\ linkRows = knownRows /\ RowManagerOK(linkRows)
    /\ ends \in [EdgeRows -> Ends]
    /\ EndsLive
    /\ links \in AllLinks
    /\ Linked(links, knownEdges, knownEnds)

TuplesOK ==
    /\ nodeTuples \in [len : Nat, rows : SUBSET NodeRows]
    /\ edgeTuples \in [len : Nat, rows : SUBSET EdgeRows]
    /\ TuplesLive

TreeOK == spanning \in [root : NodeRows \cup {-1}, reached : SUBSET NodeRows,
                        whole : BOOLEAN]

TaskOK ==
    /\ task \in [op : {"idle", "in", "out", "edges", "search"},
                 node : NodeRows \cup {-1}, i : 0..2 * MaxEdges]
    /\ RemovalAtLast

SearchOK ==
    /\ search \in [queue : Seq(NodeRows), reached : SUBSET NodeRows]
    /\ SearchInGraph

LEMMA Parts ==
  GraphInv <=> /\ TablesOK /\ TuplesOK /\ TreeOK
               /\ ChangeTold /\ TaskOK /\ SearchOK
BY DEF GraphInv, GraphTypeOK, TablesOK, TuplesOK, TreeOK, TaskOK, SearchOK, AllLinks, Ends

LEMMA WholeNext ==
  ASSUME TablesOK', TuplesOK', TreeOK', ChangeTold', TaskOK', SearchOK'
  PROVE  GraphInv'
<1>1. GraphInv' <=> /\ TablesOK' /\ TuplesOK' /\ TreeOK'
                    /\ ChangeTold' /\ TaskOK' /\ SearchOK'
  BY Parts, PTL
<1> QED BY <1>1

\* Between two changes the lists are those of all edges, whose ends are nodes.
Sound ==
    /\ RowManagerOK(nodes) /\ Valid(nodes) \subseteq NodeRows
    /\ RowManagerOK(edges) /\ Valid(edges) \subseteq EdgeRows
    /\ linkRows = nodes
    /\ ends \in [EdgeRows -> Ends]
    /\ \A e \in Valid(edges) : ends[e] \in Valid(nodes) \X Valid(nodes)
    /\ \A e \in EdgeRows \ Valid(edges) : ends[e] = NoEnds
    /\ links \in AllLinks
    /\ Linked(links, Valid(edges), ends)

\* Such an edge is attached.
LEMMA Attached ==
  ASSUME NEW st \in NodeRows \X NodeRows
  PROVE  IsAttached(st) /\ st[1] \in NodeRows /\ st[2] \in NodeRows /\ st \in Ends
BY DEF IsAttached, NodeRows, Ends

LEMMA Settled ==
  ASSUME change = NoChange
  PROVE  /\ knownRows = nodes /\ knownEnds = ends
         /\ Leaving("node") = {} /\ Leaving("edge") = {}
         /\ \A e : ~ HalfMade(e)
         /\ TablesOK <=> Sound
         /\ Sound => knownEdges = Valid(edges)
<1>1. /\ knownRows = nodes /\ knownEnds = ends
      /\ Leaving("node") = {} /\ Leaving("edge") = {}
      /\ \A e : ~ HalfMade(e)
  BY DEF NoChange, knownRows, knownEnds, Leaving, HalfMade
<1>2. ASSUME Valid(nodes) \subseteq NodeRows,
             \A e \in Valid(edges) : ends[e] \in Valid(nodes) \X Valid(nodes)
      PROVE  knownEdges = Valid(edges)
  <2>1. \A e \in Valid(edges) : ends[e] \in NodeRows \X NodeRows
    BY <1>2
  <2>2. \A e \in Valid(edges) : IsAttached(ends[e])
    BY <2>1, Attached
  <2> QED BY <1>1, <2>2 DEF knownEdges
<1>3. TablesOK => Sound
  BY <1>1, <1>2 DEF TablesOK, Sound, EndsLive
<1>4. Sound => TablesOK
  BY <1>1, <1>2 DEF TablesOK, Sound, EndsLive
<1> QED BY <1>1, <1>2, <1>3, <1>4 DEF Sound

\* The same after a step.
SettledSays ==
    change = NoChange => /\ TablesOK <=> Sound
                         /\ Leaving("node") = {} /\ Leaving("edge") = {}
                         /\ ChangeTold

LEMMA SettledAlways == SettledSays
BY Settled DEF SettledSays, ChangeTold

LEMMA SettledNext ==
  ASSUME change' = NoChange
  PROVE  /\ Sound' => TablesOK'
         /\ Leaving("node")' = {} /\ Leaving("edge")' = {}
         /\ ChangeTold'
<1>1. SettledSays'
  BY SettledAlways, PTL
<1> QED BY <1>1 DEF SettledSays

\* What a graph relies on when no event is being delivered.
LEMMA SoundParts ==
  ASSUME GraphInv, change = NoChange
  PROVE  /\ Sound /\ TuplesOK /\ TreeOK /\ TaskOK /\ SearchOK
         /\ nodeTuples.rows \subseteq Valid(nodes) /\ edgeTuples.rows \subseteq Valid(edges)
BY Parts, Settled DEF TuplesOK, TuplesLive

\* No task and no search.
IdlingSays ==
    /\ task = Idle => TaskOK
    /\ search = NoSearch /\ task.op # "search" => SearchOK

LEMMA Idling == IdlingSays
<1>1. Idle.op = "idle" /\ Idle.node = -1 /\ Idle.i = 0 /\ 0 \in 0 .. 2 * MaxEdges
  BY GraphAssumption DEF Idle
<1>2. task = Idle => TaskOK
  <2>1. Idle \in [op : {"idle", "in", "out", "edges", "search"},
                  node : NodeRows \cup {-1}, i : 0..2 * MaxEdges]
    BY <1>1 DEF Idle
  <2> QED BY <1>1, <2>1 DEF TaskOK, RemovalAtLast
<1>3. search = NoSearch /\ task.op # "search" => SearchOK
  <2>1. NoSearch \in [queue : Seq(NodeRows), reached : SUBSET NodeRows]
    BY DEF NoSearch
  <2> QED BY <2>1 DEF SearchOK, SearchInGraph
<1> QED BY <1>2, <1>3 DEF IdlingSays

LEMMA IdlingNext ==
  /\ task' = Idle => TaskOK'
  /\ search' = NoSearch /\ task'.op # "search" => SearchOK'
<1>1. IdlingSays'
  BY Idling, PTL
<1> QED BY <1>1 DEF IdlingSays

LEMMA AtRest ==
  ASSUME GraphInv, Ready
  PROVE  /\ change = NoChange /\ task = Idle /\ search = NoSearch
         /\ task.op = "idle"
BY Parts DEF Ready, SearchOK, SearchInGraph, Idle

\* The ends of an edge are nodes.
LEMMA EdgeEnds ==
  ASSUME Sound, NEW e \in Valid(edges)
  PROVE  /\ e \in EdgeRows
         /\ ends[e] \in Valid(nodes) \X Valid(nodes)
         /\ ends[e][1] \in Valid(nodes) /\ ends[e][2] \in Valid(nodes)
         /\ ends[e][1] \in NodeRows /\ ends[e][2] \in NodeRows
         /\ IsAttached(ends[e])
<1>1. e \in EdgeRows /\ ends[e] \in Valid(nodes) \X Valid(nodes)
  BY DEF Sound
<1>2. ends[e] \in NodeRows \X NodeRows
  BY <1>1 DEF Sound
<1> QED BY <1>1, <1>2, Attached

\* A list that is empty means that no edge starts, or ends, there.
LEMMA NoList ==
  ASSUME Sound, NEW n \in NodeRows
  PROVE  /\ links[n].in = <<>> => \A e \in Valid(edges) : ends[e][2] # n
         /\ links[n].out = <<>> => \A e \in Valid(edges) : ends[e][1] # n
<1>1. /\ Lists(links[n].in, {e \in Valid(edges) : ends[e][2] = n})
      /\ Lists(links[n].out, {e \in Valid(edges) : ends[e][1] = n})
  BY DEF Sound, Linked
<1>2. ToSet(<<>>) = {}
  BY DEF ToSet
<1> QED BY <1>1, <1>2 DEF Lists

\* The lists of a node, and their lengths.
LEMMA ListsOf ==
  ASSUME Sound, NEW n \in NodeRows
  PROVE  /\ links[n].in \in Seq(EdgeRows) /\ links[n].out \in Seq(EdgeRows)
         /\ Lists(links[n].in, {e \in Valid(edges) : ends[e][2] = n})
         /\ Lists(links[n].out, {e \in Valid(edges) : ends[e][1] = n})
         /\ Len(links[n].in) \in 0 .. MaxEdges /\ Len(links[n].out) \in 0 .. MaxEdges
<1>1. /\ links[n].in \in Seq(EdgeRows) /\ links[n].out \in Seq(EdgeRows)
      /\ Lists(links[n].in, {e \in Valid(edges) : ends[e][2] = n})
      /\ Lists(links[n].out, {e \in Valid(edges) : ends[e][1] = n})
  BY DEF Sound, Linked, AllLinks
<1> QED BY <1>1, ListsBounded

\* Lists do not change with the ends of edges that are not in them.
LEMMA LinkedSame ==
  ASSUME NEW lk, NEW E, NEW old, NEW es, Linked(lk, E, old), \A e \in E : es[e] = old[e]
  PROVE  Linked(lk, E, es)
<1>1. \A n : /\ {e \in E : es[e][2] = n} = {e \in E : old[e][2] = n}
             /\ {e \in E : es[e][1] = n} = {e \in E : old[e][1] = n}
  OBVIOUS
<1> QED BY <1>1 DEF Linked

----------------------------------------------------------------------------
(* Steps that leave most of the graph as it is.                            *)

LEMMA SameKnown ==
  ASSUME UNCHANGED <<nodes, edges, ends, change>>
  PROVE  UNCHANGED <<knownRows, knownEnds, knownEdges, Leaving("node"), Leaving("edge")>>
BY DEF knownRows, knownEnds, knownEdges, Leaving

LEMMA TablesSame ==
  ASSUME TablesOK, UNCHANGED <<tables, adjacency, change>>
  PROVE  TablesOK'
<1>1. UNCHANGED <<nodes, edges, ends, linkRows, links, change>>
  BY DEF tables, adjacency
<1>2. knownRows' = knownRows /\ knownEnds' = knownEnds /\ knownEdges' = knownEdges
  BY <1>1, SameKnown
<1>3. EndsLive'
  BY <1>1 DEF TablesOK, EndsLive, HalfMade
<1>4. Linked(links, knownEdges, knownEnds)'
  BY <1>1, <1>2 DEF TablesOK, Linked
<1> QED BY <1>1, <1>2, <1>3, <1>4 DEF TablesOK, AllLinks, Ends

LEMMA TuplesSame ==
  ASSUME TuplesOK, UNCHANGED <<nodes, edges, ends, change, nodeTuples, edgeTuples>>
  PROVE  TuplesOK'
BY SameKnown DEF TuplesOK, TuplesLive

LEMMA TaskSame ==
  ASSUME TaskOK, UNCHANGED <<nodes, links, task>>
  PROVE  TaskOK'
BY DEF TaskOK, RemovalAtLast, LinksOf

LEMMA SearchSame ==
  ASSUME SearchOK, UNCHANGED <<nodes, task, search>>
  PROVE  SearchOK'
BY DEF SearchOK, SearchInGraph

LEMMA SameGraphInv ==
  ASSUME GraphInv, UNCHANGED graphVars
  PROVE  GraphInv'
<1>1. /\ UNCHANGED <<tables, adjacency, change>>
      /\ UNCHANGED <<nodes, edges, ends, links, nodeTuples, edgeTuples, spanning,
                     task, change, search>>
  BY DEF graphVars, tables, adjacency
<1>2. TablesOK' /\ TuplesOK' /\ TaskOK' /\ SearchOK'
  BY <1>1, Parts, TablesSame, TuplesSame, TaskSame, SearchSame
<1>3. TreeOK' /\ ChangeTold'
  BY <1>1, Parts DEF TreeOK, ChangeTold
<1> QED BY <1>2, <1>3, WholeNext

\* Steps that change neither the tables nor the lists.
LEMMA OnlyMemory ==
  ASSUME GraphInv, change = NoChange, UNCHANGED <<tables, adjacency, change>>,
         TuplesOK', TreeOK', TaskOK', SearchOK'
  PROVE  GraphInv'
<1>1. TablesOK'
  BY Parts, TablesSame
<1>2. ChangeTold'
  BY SettledNext
<1> QED BY <1>1, <1>2, WholeNext

LEMMA OnlyTaskInv ==
  ASSUME GraphInv, change = NoChange, OnlyTask, TaskOK', SearchOK'
  PROVE  GraphInv'
<1>1. /\ UNCHANGED <<tables, adjacency, change>>
      /\ UNCHANGED <<nodes, edges, ends, change, nodeTuples, edgeTuples, spanning>>
  BY DEF OnlyTask, tables, tuples
<1>2. TuplesOK' /\ TreeOK'
  BY <1>1, Parts, TuplesSame DEF TreeOK
<1> QED BY <1>1, <1>2, OnlyMemory

----------------------------------------------------------------------------
(* The first state.                                                        *)

LEMMA InitialInv == GraphInit => GraphInv
<1> SUFFICES ASSUME GraphInit PROVE GraphInv
  OBVIOUS
<1>1. PICK n \in 0 .. MaxNodes, m \in 0 .. MaxEdges : nodes = Rows(n) /\ edges = Rows(m)
  BY DEF GraphInit
<1>2. /\ RowManagerOK(nodes) /\ Valid(nodes) = 0 .. n - 1
      /\ RowManagerOK(edges) /\ Valid(edges) = 0 .. m - 1
  <2>1. n \in Nat /\ m \in Nat
    BY GraphAssumption
  <2> QED BY <1>1, <2>1, RowsAreValid
<1>3. Valid(nodes) \subseteq NodeRows /\ Valid(edges) \subseteq EdgeRows
  BY <1>2, GraphAssumption DEF NodeRows, EdgeRows
<1>4. ASSUME NEW e \in Valid(edges) PROVE ends[e] \in Valid(nodes) \X Valid(nodes)
  <2>1. e \in EdgeRows /\ ends[e][1] \in Valid(nodes) /\ ends[e][2] \in Valid(nodes)
    BY <1>3 DEF GraphInit
  <2>2. ends[e] \in (NodeRows \X NodeRows) \cup {NoEnds}
    BY <2>1 DEF GraphInit
  <2>3. ends[e] = <<ends[e][1], ends[e][2]>>
    BY <2>2 DEF NoEnds
  <2> QED BY <2>1, <2>3
<1>5. ends \in [EdgeRows -> Ends] /\ \A e \in EdgeRows \ Valid(edges) : ends[e] = NoEnds
  BY DEF GraphInit, Ends, NoEnds
<1>6. links \in AllLinks /\ Linked(links, Valid(edges), ends)
  <2>1. \A e \in Valid(edges) : ends[e] \in NodeRows \X NodeRows
    BY <1>3, <1>4
  <2> QED BY <1>3, <2>1, InitLinks DEF GraphInit
<1>7. Sound
  BY <1>2, <1>3, <1>4, <1>5, <1>6 DEF Sound, GraphInit
<1>8. change = NoChange /\ task = Idle /\ search = NoSearch /\ task.op # "search"
  BY DEF GraphInit, Idle
<1>9. TuplesOK /\ TreeOK
  BY <1>8, Settled DEF GraphInit, TuplesOK, TuplesLive, TreeOK, NoTuples, NoTree
<1>10. TaskOK /\ SearchOK
  BY <1>8, Idling DEF IdlingSays
<1> QED BY <1>7, <1>8, <1>9, <1>10, Settled, Parts DEF ChangeTold

----------------------------------------------------------------------------
(* Calls that add and change.                                              *)

LEMMA AddNodeInv ==
  ASSUME GraphInv, AddNode
  PROVE  GraphInv'
<1>1. /\ change = NoChange /\ task = Idle /\ search = NoSearch /\ task.op = "idle"
      /\ Sound /\ TuplesOK
      /\ nodeTuples.rows \subseteq Valid(nodes) /\ edgeTuples.rows \subseteq Valid(edges)
  BY AtRest, SoundParts DEF AddNode
<1>2. /\ NewRow(nodes) \in NodeRows
      /\ nodes' = AddRow(nodes) /\ linkRows' = AddRow(linkRows)
      /\ UNCHANGED <<edges, ends, links, nodeTuples, edgeTuples, task, change, search>>
      /\ spanning' = NoTree
  BY DEF AddNode, tuples
<1>3. RowManagerOK(nodes') /\ Valid(nodes') = Valid(nodes) \cup {NewRow(nodes)}
  BY <1>1, <1>2, NewRowIsFree DEF Sound
<1>4. Sound'
  BY <1>1, <1>2, <1>3 DEF Sound, AllLinks, Ends, Linked
<1>5. TablesOK' /\ ChangeTold' /\ Leaving("node")' = {} /\ Leaving("edge")' = {}
  BY <1>1, <1>2, <1>4, SettledNext
<1>6. TuplesOK'
  BY <1>1, <1>2, <1>3, <1>5 DEF TuplesOK, TuplesLive
<1>7. TreeOK'
  BY <1>2 DEF TreeOK, NoTree
<1>8. TaskOK' /\ SearchOK'
  BY <1>1, <1>2, IdlingNext
<1> QED BY <1>5, <1>6, <1>7, <1>8, WholeNext

\* The row that is new has no ends and is in no list.
LEMMA AddEdgeInv ==
  ASSUME GraphInv, AddEdge
  PROVE  GraphInv'
<1> DEFINE e == NewRow(edges)
<1>1. /\ change = NoChange /\ task = Idle /\ search = NoSearch /\ task.op = "idle"
      /\ Sound /\ TuplesOK
      /\ nodeTuples.rows \subseteq Valid(nodes) /\ edgeTuples.rows \subseteq Valid(edges)
  BY AtRest, SoundParts DEF AddEdge
<1>2. /\ e \in EdgeRows
      /\ edges' = AddRow(edges)
      /\ change' = [op |-> "insert", row |-> e, old |-> NoEnds]
      /\ UNCHANGED <<nodes, ends, linkRows, links, nodeTuples, edgeTuples, task, search>>
      /\ spanning' = NoTree
  BY DEF AddEdge, Tells, adjacency, tuples
<1>3. /\ RowManagerOK(edges') /\ Valid(edges') = Valid(edges) \cup {e} /\ e \notin Valid(edges)
  BY <1>1, <1>2, NewRowIsFree DEF Sound
<1> HIDE DEF e
<1>4. change'.op = "insert" /\ change'.row = e
  BY <1>2
<1>5. /\ knownRows' = nodes' /\ knownEnds' = ends'
      /\ Leaving("node")' = {} /\ Leaving("edge")' = {}
  BY <1>4 DEF knownRows, knownEnds, Leaving
<1>6. ends[e] = NoEnds
  BY <1>1, <1>2, <1>3 DEF Sound
<1>7. knownEdges' = Valid(edges)
  <2>1. knownEdges' = {d \in Valid(edges') \ Leaving("edge")' : IsAttached(knownEnds'[d])}
    BY DEF knownEdges
  <2>2. ~ IsAttached(ends[e])
    BY <1>6 DEF IsAttached, NoEnds
  <2>3. \A d \in Valid(edges) : IsAttached(ends[d])
    BY <1>1, EdgeEnds
  <2> QED BY <1>2, <1>3, <1>5, <2>1, <2>2, <2>3
<1>8. EndsLive'
  BY <1>1, <1>2, <1>3, <1>4 DEF EndsLive, HalfMade, Sound
<1>9. Linked(links, knownEdges, knownEnds)'
  BY <1>1, <1>2, <1>5, <1>7 DEF Sound, Linked
<1>10. Valid(edges') \subseteq EdgeRows
  BY <1>1, <1>2, <1>3 DEF Sound
<1>11. TablesOK'
  BY <1>1, <1>2, <1>3, <1>5, <1>8, <1>9, <1>10 DEF TablesOK, Sound, AllLinks, Ends
<1>12. TuplesOK'
  BY <1>1, <1>2, <1>3, <1>5 DEF TuplesOK, TuplesLive
<1>13. TreeOK' /\ ChangeTold'
  BY <1>1, <1>2, <1>3, <1>4, <1>6 DEF TreeOK, NoTree, ChangeTold
<1>14. TaskOK' /\ SearchOK'
  BY <1>1, <1>2, IdlingNext
<1> QED BY <1>11, <1>12, <1>13, <1>14, WholeNext

\* What is known while an edge gets its ends: all edges but that one.
LEMMA WhileAdding ==
  ASSUME GraphInv, change.op \in {"insert", "source"}
  PROVE  /\ change.row \in Valid(edges) /\ change.row \in EdgeRows
         /\ task = Idle /\ search = NoSearch /\ task.op = "idle" /\ spanning = NoTree
         /\ ends[change.row] = IF change.op = "insert" THEN NoEnds ELSE <<ends[change.row][1], -1>>
         /\ change.op = "source" => ends[change.row][1] \in Valid(nodes)
         /\ ~ IsAttached(ends[change.row])
         /\ linkRows = nodes
         /\ \A e \in Valid(edges) \ {change.row} : ends[e] \in Valid(nodes) \X Valid(nodes)
         /\ Linked(links, Valid(edges) \ {change.row}, ends)
         /\ nodeTuples.rows \subseteq Valid(nodes) /\ edgeTuples.rows \subseteq Valid(edges)
<1>1. TablesOK /\ TuplesOK /\ ChangeTold /\ SearchOK
  BY Parts
<1>2. /\ change.row \in Valid(edges) /\ task = Idle /\ spanning = NoTree
      /\ change.op = "insert" => ends[change.row] = NoEnds
      /\ change.op = "source" => ends[change.row] \in Valid(nodes) \X {-1}
  BY <1>1 DEF ChangeTold, NoChange
<1>3. task.op = "idle" /\ search = NoSearch
  BY <1>1, <1>2 DEF SearchOK, SearchInGraph, Idle
<1>4. ~ IsAttached(ends[change.row])
  <2>1. CASE change.op = "insert"
    BY <1>2, <2>1 DEF IsAttached, NoEnds
  <2>2. CASE change.op = "source"
    BY <1>2, <2>2 DEF IsAttached
  <2> QED BY <2>1, <2>2
<1>5. /\ knownRows = nodes /\ knownEnds = ends
      /\ Leaving("node") = {} /\ Leaving("edge") = {}
  BY DEF knownRows, knownEnds, Leaving
<1>6. \A e \in Valid(edges) \ {change.row} : ends[e] \in Valid(nodes) \X Valid(nodes)
  BY <1>1, <1>5 DEF TablesOK, EndsLive, HalfMade
<1>7. knownEdges = Valid(edges) \ {change.row}
  <2>1. \A e \in Valid(edges) \ {change.row} : ends[e] \in NodeRows \X NodeRows
    BY <1>1, <1>6 DEF TablesOK
  <2>2. \A e \in Valid(edges) \ {change.row} : IsAttached(ends[e])
    BY <2>1, Attached
  <2> QED BY <1>2, <1>4, <1>5, <2>2 DEF knownEdges
<1> QED BY <1>1, <1>2, <1>3, <1>4, <1>5, <1>6, <1>7 DEF TablesOK, TuplesOK, TuplesLive

LEMMA AddSourceInv ==
  ASSUME GraphInv, NEW s \in Valid(nodes), AddSource(s)
  PROVE  GraphInv'
<1> DEFINE e == change.row  others == Valid(edges) \ {e}
<1>1. TablesOK /\ TuplesOK /\ TreeOK /\ change.op = "insert"
  BY Parts DEF AddSource
<1>2. /\ e \in Valid(edges) /\ e \in EdgeRows
      /\ task = Idle /\ search = NoSearch /\ task.op = "idle" /\ spanning = NoTree
      /\ linkRows = nodes
      /\ \A d \in others : ends[d] \in Valid(nodes) \X Valid(nodes)
      /\ Linked(links, others, ends)
      /\ nodeTuples.rows \subseteq Valid(nodes) /\ edgeTuples.rows \subseteq Valid(edges)
  BY <1>1, WhileAdding
<1>3. /\ ends' = [ends EXCEPT ![e] = <<s, -1>>]
      /\ change' = [op |-> "source", row |-> e, old |-> NoEnds]
      /\ UNCHANGED <<nodes, edges, linkRows, links, nodeTuples, edgeTuples, spanning,
                     task, search>>
  BY DEF AddSource, Tells, adjacency, tuples
<1> HIDE DEF e
<1>4. change'.op = "source" /\ change'.row = e
  BY <1>3
<1>5. /\ knownRows' = nodes' /\ knownEnds' = ends'
      /\ Leaving("node")' = {} /\ Leaving("edge")' = {}
  BY <1>4 DEF knownRows, knownEnds, Leaving
<1>6. /\ ends' \in [EdgeRows -> Ends] /\ ends'[e] = <<s, -1>>
      /\ \A d \in EdgeRows \ {e} : ends'[d] = ends[d]
  <2>1. s \in NodeRows
    BY <1>1 DEF TablesOK
  <2> QED BY <1>1, <1>2, <1>3, <2>1 DEF TablesOK, Ends
<1>7. /\ \A d \in others : ends'[d] = ends[d]
      /\ \A d \in others : IsAttached(ends'[d])
  <2>1. others \subseteq EdgeRows \ {e}
    BY <1>1 DEF TablesOK
  <2>2. \A d \in others : ends'[d] = ends[d] /\ ends[d] \in NodeRows \X NodeRows
    BY <1>1, <1>2, <1>6, <2>1 DEF TablesOK
  <2> QED BY <2>2, Attached
<1>8. knownEdges' = others
  <2>1. knownEdges' = {d \in Valid(edges') \ Leaving("edge")' : IsAttached(knownEnds'[d])}
    BY DEF knownEdges
  <2>2. ~ IsAttached(ends'[e])
    BY <1>6 DEF IsAttached
  <2> QED BY <1>2, <1>3, <1>5, <1>7, <2>1, <2>2
<1>9. EndsLive'
  BY <1>1, <1>2, <1>3, <1>4, <1>6, <1>7 DEF EndsLive, HalfMade, TablesOK
<1>10. Linked(links, knownEdges, knownEnds)'
  <2>1. Linked(links, others, ends')
    BY <1>2, <1>7, LinkedSame
  <2> QED BY <1>3, <1>5, <1>8, <2>1 DEF Linked
<1>11. TablesOK'
  BY <1>1, <1>2, <1>3, <1>5, <1>6, <1>9, <1>10 DEF TablesOK, AllLinks, Ends
<1>12. TuplesOK'
  BY <1>1, <1>2, <1>3, <1>5 DEF TuplesOK, TuplesLive
<1>13. TreeOK' /\ ChangeTold'
  BY <1>1, <1>2, <1>3, <1>4, <1>6 DEF TreeOK, ChangeTold
<1>14. TaskOK' /\ SearchOK'
  BY <1>2, <1>3, IdlingNext
<1> QED BY <1>11, <1>12, <1>13, <1>14, WholeNext

LEMMA AddTargetInv ==
  ASSUME GraphInv, NEW t \in Valid(nodes), AddTarget(t)
  PROVE  GraphInv'
<1> DEFINE e == change.row  others == Valid(edges) \ {e}  old == ends[e]
<1>1. TablesOK /\ TuplesOK /\ TreeOK /\ change.op = "source"
  BY Parts DEF AddTarget
<1>2. /\ e \in Valid(edges) /\ e \in EdgeRows
      /\ task = Idle /\ search = NoSearch /\ task.op = "idle" /\ spanning = NoTree
      /\ old = <<old[1], -1>> /\ old[1] \in Valid(nodes) /\ ~ IsAttached(old)
      /\ linkRows = nodes
      /\ \A d \in others : ends[d] \in Valid(nodes) \X Valid(nodes)
      /\ Linked(links, others, ends)
      /\ nodeTuples.rows \subseteq Valid(nodes) /\ edgeTuples.rows \subseteq Valid(edges)
  BY <1>1, WhileAdding
<1>3. /\ ends' = [ends EXCEPT ![e] = <<old[1], t>>]
      /\ change' = [op |-> "update", row |-> e, old |-> old]
      /\ UNCHANGED <<nodes, edges, linkRows, links, nodeTuples, edgeTuples, spanning,
                     task, search>>
  BY DEF AddTarget, Tells, adjacency, tuples
<1> HIDE DEF e, old
<1>4. change'.op = "update" /\ change'.row = e /\ change'.old = old
  BY <1>3
<1>5. /\ ends' \in [EdgeRows -> Ends] /\ ends'[e] = <<old[1], t>>
      /\ \A d \in EdgeRows \ {e} : ends'[d] = ends[d]
  <2>1. t \in NodeRows /\ old[1] \in NodeRows
    BY <1>1, <1>2 DEF TablesOK
  <2> QED BY <1>1, <1>2, <1>3, <2>1 DEF TablesOK, Ends
<1>6. /\ knownRows' = nodes' /\ knownEnds' = ends
      /\ Leaving("node")' = {} /\ Leaving("edge")' = {}
  <2>1. [ends' EXCEPT ![e] = old] = ends
    BY <1>1, <1>2, <1>5 DEF TablesOK, old
  <2> QED BY <1>4, <2>1 DEF knownRows, knownEnds, Leaving
<1>7. knownEdges' = others
  <2>1. knownEdges' = {d \in Valid(edges') \ Leaving("edge")' : IsAttached(knownEnds'[d])}
    BY DEF knownEdges
  <2>2. \A d \in others : ends[d] \in NodeRows \X NodeRows
    BY <1>1, <1>2 DEF TablesOK
  <2>3. \A d \in others : IsAttached(ends[d])
    BY <2>2, Attached
  <2>4. ~ IsAttached(ends[e])
    BY <1>2 DEF old
  <2> QED BY <1>2, <1>3, <1>6, <2>1, <2>3, <2>4
<1>8. EndsLive'
  <2>1. \A d \in Valid(edges) : ends'[d] \in Valid(nodes) \X Valid(nodes)
    BY <1>1, <1>2, <1>5 DEF TablesOK
  <2> QED BY <1>1, <1>2, <1>3, <1>5, <2>1 DEF EndsLive, TablesOK
<1>9. Linked(links, knownEdges, knownEnds)'
  BY <1>2, <1>3, <1>6, <1>7 DEF Linked
<1>10. TablesOK'
  BY <1>1, <1>2, <1>3, <1>5, <1>6, <1>8, <1>9 DEF TablesOK, AllLinks, Ends
<1>11. TuplesOK'
  BY <1>1, <1>2, <1>3, <1>6 DEF TuplesOK, TuplesLive
<1>12. TreeOK' /\ ChangeTold'
  BY <1>1, <1>2, <1>3, <1>4 DEF TreeOK, ChangeTold
<1>13. TaskOK' /\ SearchOK'
  BY <1>2, <1>3, IdlingNext
<1> QED BY <1>10, <1>11, <1>12, <1>13, WholeNext

LEMMA SetEndsInv ==
  ASSUME GraphInv, NEW e \in Valid(edges), NEW st \in Valid(nodes) \X Valid(nodes),
         SetEnds(e, st)
  PROVE  /\ GraphInv'
         /\ UNCHANGED <<nodes, edges, spanning, knownEnds, knownEdges, task>>
         /\ task.op = "idle"
<1> DEFINE old == ends[e]
<1>1. /\ change = NoChange /\ task = Idle /\ search = NoSearch /\ task.op = "idle"
      /\ Sound /\ TuplesOK /\ TreeOK
      /\ nodeTuples.rows \subseteq Valid(nodes) /\ edgeTuples.rows \subseteq Valid(edges)
  BY AtRest, SoundParts DEF SetEnds
<1>2. /\ ends' = [ends EXCEPT ![e] = st]
      /\ change' = [op |-> "update", row |-> e, old |-> old]
      /\ UNCHANGED <<nodes, edges, linkRows, links, nodeTuples, edgeTuples, spanning,
                     task, search>>
  BY DEF SetEnds, Tells, adjacency, tuples
<1>3. e \in EdgeRows /\ old \in Valid(nodes) \X Valid(nodes)
  BY <1>1, EdgeEnds
<1> HIDE DEF old
<1>4. change'.op = "update" /\ change'.row = e /\ change'.old = old
  BY <1>2
<1>5. /\ ends' \in [EdgeRows -> Ends] /\ ends'[e] = st
      /\ \A d \in EdgeRows \ {e} : ends'[d] = ends[d]
  <2>1. st \in NodeRows \X NodeRows
    BY <1>1 DEF Sound
  <2>2. st \in Ends
    BY <2>1, Attached
  <2> QED BY <1>1, <1>2, <1>3, <2>2 DEF Sound
<1>6. /\ knownRows' = nodes' /\ knownEnds' = ends
      /\ Leaving("node")' = {} /\ Leaving("edge")' = {}
  <2>1. [ends' EXCEPT ![e] = old] = ends
    BY <1>1, <1>3, <1>5 DEF Sound, old
  <2> QED BY <1>4, <2>1 DEF knownRows, knownEnds, Leaving
<1>7. knownEdges' = Valid(edges)
  <2>1. knownEdges' = {d \in Valid(edges') \ Leaving("edge")' : IsAttached(knownEnds'[d])}
    BY DEF knownEdges
  <2>2. \A d \in Valid(edges) : IsAttached(ends[d])
    BY <1>1, EdgeEnds
  <2> QED BY <1>2, <1>6, <2>1, <2>2
<1>8. EndsLive'
  <2>1. \A d \in Valid(edges) : ends'[d] \in Valid(nodes) \X Valid(nodes)
    BY <1>1, <1>5 DEF Sound
  <2> QED BY <1>1, <1>2, <1>5, <2>1 DEF EndsLive, Sound
<1>9. Linked(links, knownEdges, knownEnds)'
  BY <1>1, <1>2, <1>6, <1>7 DEF Linked, Sound
<1>10. TablesOK'
  BY <1>1, <1>2, <1>5, <1>6, <1>8, <1>9 DEF TablesOK, Sound, AllLinks, Ends
<1>11. TuplesOK'
  BY <1>1, <1>2, <1>6 DEF TuplesOK, TuplesLive
<1>12. TreeOK' /\ ChangeTold'
  BY <1>1, <1>2, <1>3, <1>4 DEF TreeOK, ChangeTold
<1>13. TaskOK' /\ SearchOK'
  BY <1>1, <1>2, IdlingNext
<1>14. knownEnds = ends /\ knownEdges = Valid(edges)
  BY <1>1, Settled
<1> QED BY <1>1, <1>2, <1>6, <1>7, <1>10, <1>11, <1>12, <1>13, <1>14, WholeNext

\* What is known while listeners are told of a new end: the edge as it was.
LEMMA WhileUpdating ==
  ASSUME Detached = {}, GraphInv, change.op = "update"
  PROVE  /\ change.row \in Valid(edges) /\ change.row \in EdgeRows
         /\ task = Idle /\ search = NoSearch /\ task.op = "idle"
         /\ linkRows = nodes
         /\ \A e \in Valid(edges) : ends[e] \in Valid(nodes) \X Valid(nodes)
         /\ knownEnds \in [EdgeRows -> Ends] /\ knownEnds[change.row] = change.old
         /\ \A e \in EdgeRows \ {change.row} : knownEnds[e] = ends[e]
         /\ knownEdges = IF IsAttached(change.old) THEN Valid(edges)
                         ELSE Valid(edges) \ {change.row}
         /\ change.old \in NodeRows \X (NodeRows \cup {-1})
         /\ nodeTuples.rows \subseteq Valid(nodes) /\ edgeTuples.rows \subseteq Valid(edges)
<1>1. TablesOK /\ TuplesOK /\ ChangeTold /\ SearchOK
  BY Parts
<1>2. /\ change.row \in Valid(edges) /\ task = Idle
      /\ change.old \in Valid(nodes) \X (Valid(nodes) \cup {-1})
  BY <1>1 DEF ChangeTold, NoChange
<1>3. task.op = "idle" /\ search = NoSearch
  BY <1>1, <1>2 DEF SearchOK, SearchInGraph, Idle
<1>4. /\ knownRows = nodes /\ knownEnds = [ends EXCEPT ![change.row] = change.old]
      /\ Leaving("node") = {} /\ Leaving("edge") = {}
  BY DEF knownRows, knownEnds, Leaving
<1>5. \A e \in Valid(edges) : ends[e] \in Valid(nodes) \X Valid(nodes)
  BY <1>1, <1>4 DEF TablesOK, EndsLive, HalfMade
<1>6. change.row \in EdgeRows /\ change.old \in NodeRows \X (NodeRows \cup {-1})
  BY <1>1, <1>2 DEF TablesOK
<1>7. /\ knownEnds \in [EdgeRows -> Ends] /\ knownEnds[change.row] = change.old
      /\ \A e \in EdgeRows \ {change.row} : knownEnds[e] = ends[e]
  BY <1>1, <1>4, <1>6 DEF TablesOK, Ends
<1>8. \A e \in Valid(edges) \ {change.row} : e \in EdgeRows /\ IsAttached(knownEnds[e])
  <2>1. \A e \in Valid(edges) : e \in EdgeRows /\ ends[e] \in NodeRows \X NodeRows
    BY <1>1, <1>5 DEF TablesOK
  <2>2. \A e \in Valid(edges) : IsAttached(ends[e])
    BY <2>1, Attached
  <2> QED BY <1>7, <2>1, <2>2
<1>9. knownEdges = IF IsAttached(change.old) THEN Valid(edges)
                   ELSE Valid(edges) \ {change.row}
  BY <1>2, <1>4, <1>7, <1>8 DEF knownEdges
<1> QED BY <1>1, <1>2, <1>3, <1>4, <1>5, <1>6, <1>7, <1>9 DEF TablesOK, TuplesOK, TuplesLive

\* Then the edge moves to the lists of its ends.
LEMMA ColumnChangedInv ==
  ASSUME Detached = {}, GraphInv, ColumnChanged
  PROVE  GraphInv' /\ spanning' = NoTree
<1> DEFINE e == change.row  old == change.old  st == ends[e]
           others == Valid(edges) \ {e}
           unlinked == IF IsAttached(old) THEN Unlink(links, e, old[1], old[2]) ELSE links
<1>1. TablesOK /\ TuplesOK /\ change.op = "update"
  BY Parts DEF ColumnChanged
<1>2. /\ e \in Valid(edges) /\ e \in EdgeRows
      /\ task = Idle /\ search = NoSearch /\ task.op = "idle"
      /\ linkRows = nodes
      /\ \A d \in Valid(edges) : ends[d] \in Valid(nodes) \X Valid(nodes)
      /\ knownEnds \in [EdgeRows -> Ends] /\ knownEnds[e] = old
      /\ \A d \in EdgeRows \ {e} : knownEnds[d] = ends[d]
      /\ knownEdges = IF IsAttached(old) THEN Valid(edges) ELSE others
      /\ old \in NodeRows \X (NodeRows \cup {-1})
      /\ nodeTuples.rows \subseteq Valid(nodes) /\ edgeTuples.rows \subseteq Valid(edges)
  BY <1>1, WhileUpdating
<1>3. IsAttached(st) /\ st[1] \in NodeRows /\ st[2] \in NodeRows
  <2>1. st \in NodeRows \X NodeRows
    BY <1>1, <1>2 DEF TablesOK
  <2> QED BY <2>1, Attached
<1>4. /\ links' = Link(unlinked, e, st[1], st[2])
      /\ spanning' = NoTree /\ change' = NoChange
      /\ UNCHANGED <<nodes, edges, ends, linkRows, nodeTuples, edgeTuples, task, search>>
  BY <1>3 DEF ColumnChanged, Invalidated, tables, tuples
<1>5. links \in AllLinks /\ Linked(links, knownEdges, knownEnds) /\ others \subseteq EdgeRows
  BY <1>1 DEF TablesOK
<1>6. \A d \in others : knownEnds[d] = ends[d]
  BY <1>2, <1>5
<1> HIDE DEF e, old
<1>7. unlinked \in AllLinks /\ Linked(unlinked, others, ends)
  <2>1. CASE IsAttached(old)
    <3> DEFINE known == knownEnds
               new == Unlink(links, e, known[e][1], known[e][2])
    <3>1. /\ links \in AllLinks /\ Valid(edges) \in SUBSET EdgeRows /\ e \in Valid(edges)
          /\ Linked(links, Valid(edges), known)
          /\ \A d \in Valid(edges) \ {e} : ends[d] = known[d]
          /\ known[e][1] \in NodeRows /\ known[e][2] \in NodeRows
      BY <1>1, <1>2, <1>5, <1>6, <2>1 DEF TablesOK, IsAttached
    <3>2. unlinked = new
      BY <1>2, <2>1
    <3> HIDE DEF unlinked, known
    <3>3. /\ new \in AllLinks /\ Linked(new, Valid(edges) \ {e}, ends)
          /\ \A n \in NodeRows :
                /\ new[n].in = IF n = known[e][2] THEN RemLink(links[n].in, e) ELSE links[n].in
                /\ new[n].out = IF n = known[e][1] THEN RemLink(links[n].out, e) ELSE links[n].out
      BY ZenonT(30), <3>1, UnlinkKeeps
    <3> HIDE DEF new
    <3> QED BY <3>2, <3>3
  <2>2. CASE ~ IsAttached(old)
    <3>1. unlinked = links /\ knownEdges = others
      BY <1>2, <2>2
    <3> QED BY <1>5, <1>6, <3>1, LinkedSame
  <2> QED BY <2>1, <2>2
<1> HIDE DEF unlinked
<1>8. links' \in AllLinks /\ Linked(links', Valid(edges), ends)
  <2>1. others \in SUBSET EdgeRows /\ e \in EdgeRows \ others /\ others \cup {e} = Valid(edges)
    BY <1>2, <1>5
  <2> HIDE DEF others
  <2>2. /\ Link(unlinked, e, ends[e][1], ends[e][2]) \in AllLinks
        /\ Linked(Link(unlinked, e, ends[e][1], ends[e][2]), others \cup {e}, ends)
    BY <1>3, <1>7, <2>1, LinkKeeps
  <2> QED BY <1>4, <2>1, <2>2
<1>9. Sound'
  <2>1. \A d \in EdgeRows \ Valid(edges) : ends[d] = NoEnds
    BY <1>1 DEF TablesOK, EndsLive
  <2>2. Linked(links', Valid(edges'), ends')
    BY <1>4, <1>8
  <2> QED BY <1>1, <1>2, <1>4, <1>8, <2>1, <2>2 DEF Sound, TablesOK, Ends, AllLinks
<1>10. TablesOK' /\ ChangeTold' /\ Leaving("node")' = {} /\ Leaving("edge")' = {}
  BY <1>4, <1>9, SettledNext
<1>11. TuplesOK'
  BY <1>1, <1>2, <1>4, <1>10 DEF TuplesOK, TuplesLive
<1>12. TreeOK'
  BY <1>4 DEF TreeOK, NoTree
<1>13. TaskOK' /\ SearchOK'
  BY <1>2, <1>4, IdlingNext
<1> QED BY <1>4, <1>10, <1>11, <1>12, <1>13, WholeNext

----------------------------------------------------------------------------
(* Rows that go.                                                           *)

\* An edge about to go is out of the lists, which lose one entry each, and has
\* no tuple.
LEMMA DeleteEdgeKeeps ==
  ASSUME GraphInv, change = NoChange, NEW e \in Valid(edges), DeleteEdge(e)
  PROVE  /\ TablesOK' /\ TuplesOK' /\ TreeOK'
         /\ UNCHANGED <<nodes, edges, ends, search>>
         /\ change'.op = "edge" /\ change'.row = e /\ spanning' = NoTree
         /\ task'.op # "search" => ChangeTold'
         /\ \A n \in NodeRows :
               /\ links'[n].in = IF n = ends[e][2] THEN RemLink(links[n].in, e) ELSE links[n].in
               /\ links'[n].out = IF n = ends[e][1] THEN RemLink(links[n].out, e) ELSE links[n].out
<1> DEFINE old == ends[e]  others == Valid(edges) \ {e}
<1>1. /\ Sound /\ TuplesOK
      /\ nodeTuples.rows \subseteq Valid(nodes) /\ edgeTuples.rows \subseteq Valid(edges)
  BY SoundParts
<1>2. /\ e \in EdgeRows /\ IsAttached(old) /\ old[1] \in NodeRows /\ old[2] \in NodeRows
  BY <1>1, EdgeEnds
<1>3. /\ links' = Unlink(links, e, old[1], old[2])
      /\ edgeTuples' = Invalidate(edgeTuples, e)
      /\ spanning' = NoTree
      /\ change' = [op |-> "edge", row |-> e, old |-> NoEnds]
      /\ UNCHANGED <<nodes, edges, ends, linkRows, nodeTuples, search>>
  BY <1>2 DEF DeleteEdge, Tells, tables
<1>4. change'.op = "edge" /\ change'.row = e
  BY <1>3
<1>5. /\ knownRows' = nodes /\ knownEnds' = ends
      /\ Leaving("node")' = {} /\ Leaving("edge")' = {e}
  BY <1>3, <1>4 DEF knownRows, knownEnds, Leaving
<1>6. /\ links' \in AllLinks /\ Linked(links', others, ends)
      /\ \A n \in NodeRows :
            /\ links'[n].in = IF n = old[2] THEN RemLink(links[n].in, e) ELSE links[n].in
            /\ links'[n].out = IF n = old[1] THEN RemLink(links[n].out, e) ELSE links[n].out
  <2>1. /\ links \in AllLinks /\ Valid(edges) \in SUBSET EdgeRows
        /\ Linked(links, Valid(edges), ends)
    BY <1>1 DEF Sound
  <2> DEFINE new == Unlink(links, e, old[1], old[2])
  <2>2. /\ new \in AllLinks /\ Linked(new, Valid(edges) \ {e}, ends)
        /\ \A n \in NodeRows :
              /\ new[n].in = IF n = ends[e][2] THEN RemLink(links[n].in, e) ELSE links[n].in
              /\ new[n].out = IF n = ends[e][1] THEN RemLink(links[n].out, e) ELSE links[n].out
    BY ZenonT(30), <1>2, <2>1, UnlinkKeeps
  <2>3. links' = new
    BY <1>3
  <2> HIDE DEF new
  <2> QED BY <2>2, <2>3
<1>7. knownEdges' = others
  <2>1. knownEdges' = {d \in Valid(edges') \ Leaving("edge")' : IsAttached(knownEnds'[d])}
    BY DEF knownEdges
  <2>2. \A d \in Valid(edges) : IsAttached(ends[d])
    BY <1>1, EdgeEnds
  <2> QED BY <1>3, <1>5, <2>1, <2>2
<1> HIDE DEF old
<1>8. EndsLive'
  BY <1>1, <1>3, <1>4 DEF EndsLive, Sound
<1>9. TablesOK'
  <2>1. Linked(links', knownEdges', knownEnds')
    BY <1>5, <1>6, <1>7
  <2> QED BY <1>1, <1>3, <1>5, <1>6, <1>8, <2>1 DEF TablesOK, Sound, AllLinks, Ends
<1>10. TuplesOK'
  BY <1>1, <1>3, <1>5 DEF TuplesOK, TuplesLive, Invalidate
<1>11. TreeOK'
  BY <1>3 DEF TreeOK, NoTree
<1>12. task'.op # "search" => ChangeTold'
  BY <1>3, <1>4 DEF ChangeTold
<1> QED BY <1>3, <1>4, <1>6, <1>9, <1>10, <1>11, <1>12 DEF old

\* Then its row is free.
LEMMA ReleaseEdgeInv ==
  ASSUME GraphInv, ReleaseEdge
  PROVE  /\ GraphInv' /\ change.row \in Valid(edges)
         /\ Valid(edges') = Valid(edges) \ {change.row}
<1> DEFINE e == change.row  others == Valid(edges) \ {e}
<1>1. TablesOK /\ TuplesOK /\ ChangeTold /\ TaskOK /\ SearchOK /\ change.op = "edge"
  BY Parts DEF ReleaseEdge
<1>2. e \in Valid(edges) /\ e \in EdgeRows /\ task.op # "search" /\ spanning = NoTree
  BY <1>1 DEF ChangeTold, TablesOK, NoChange
<1>3. /\ edges' = ReleaseRow(edges, e)
      /\ ends' = [ends EXCEPT ![e] = NoEnds]
      /\ change' = NoChange
      /\ UNCHANGED <<nodes, linkRows, links, nodeTuples, edgeTuples, spanning, task, search>>
  BY DEF ReleaseEdge, adjacency, tuples
<1>4. RowManagerOK(edges') /\ Valid(edges') = others
  BY <1>1, <1>2, <1>3, ReleasedRowIsFree DEF TablesOK
<1>5. /\ knownRows = nodes /\ knownEnds = ends
      /\ Leaving("node") = {} /\ Leaving("edge") = {e}
  BY <1>1 DEF knownRows, knownEnds, Leaving
<1>6. \A d \in Valid(edges) : d \in EdgeRows /\ ends[d] \in Valid(nodes) \X Valid(nodes)
  BY <1>1, <1>5 DEF TablesOK, EndsLive, HalfMade
<1>7. knownEdges = others
  <2>1. \A d \in Valid(edges) : ends[d] \in NodeRows \X NodeRows
    BY <1>1, <1>6 DEF TablesOK
  <2>2. \A d \in Valid(edges) : IsAttached(ends[d])
    BY <2>1, Attached
  <2> QED BY <1>5, <2>2 DEF knownEdges
<1>8. /\ ends' \in [EdgeRows -> Ends] /\ ends'[e] = NoEnds
      /\ \A d \in EdgeRows \ {e} : ends'[d] = ends[d]
  BY <1>1, <1>2, <1>3 DEF TablesOK, Ends, NoEnds
<1>9. Linked(links', Valid(edges'), ends')
  <2>1. Linked(links, others, ends) /\ \A d \in others : ends'[d] = ends[d]
    BY <1>1, <1>5, <1>6, <1>7, <1>8 DEF TablesOK
  <2>2. Linked(links, others, ends')
    BY <2>1, LinkedSame
  <2> QED BY <1>3, <1>4, <2>2
<1>10. Sound'
  <2>1. \A d \in Valid(edges') : ends'[d] \in Valid(nodes') \X Valid(nodes')
    BY <1>3, <1>4, <1>6, <1>8
  <2>2. \A d \in EdgeRows \ Valid(edges') : ends'[d] = NoEnds
    BY <1>1, <1>4, <1>8 DEF TablesOK, EndsLive
  <2> QED BY <1>1, <1>3, <1>4, <1>5, <1>8, <1>9, <2>1, <2>2 DEF Sound, TablesOK, Ends, AllLinks
<1>11. TablesOK' /\ ChangeTold' /\ Leaving("node")' = {} /\ Leaving("edge")' = {}
  BY <1>3, <1>10, SettledNext
<1>12. TuplesOK'
  BY <1>1, <1>3, <1>4, <1>5, <1>11 DEF TuplesOK, TuplesLive
<1>13. TreeOK' /\ TaskOK' /\ SearchOK'
  BY <1>3, Parts, TaskSame, SearchSame DEF TreeOK
<1> QED BY <1>2, <1>4, <1>11, <1>12, <1>13, WholeNext

\* A node about to go has no edges, no row in the link table and no tuple.
LEMMA DeleteNodeKeeps ==
  ASSUME GraphInv, change = NoChange, NEW n \in Valid(nodes), DeleteNode(n),
         \A e \in Valid(edges) : ends[e][1] # n /\ ends[e][2] # n
  PROVE  /\ TablesOK' /\ TuplesOK' /\ TreeOK'
         /\ UNCHANGED <<nodes, edges, ends, search>> /\ spanning' = NoTree
         /\ task'.op \in {"idle", "edges"} => ChangeTold'
<1>1. /\ Sound /\ TuplesOK
      /\ nodeTuples.rows \subseteq Valid(nodes) /\ edgeTuples.rows \subseteq Valid(edges)
  BY SoundParts
<1>2. /\ linkRows' = ReleaseRow(linkRows, n)
      /\ links' = [links EXCEPT ![n] = NoLinks]
      /\ nodeTuples' = Invalidate(nodeTuples, n)
      /\ spanning' = NoTree
      /\ change' = [op |-> "node", row |-> n, old |-> NoEnds]
      /\ UNCHANGED <<nodes, edges, ends, edgeTuples, search>>
  BY <1>1 DEF DeleteNode, Tells, Sound, tables
<1>3. change'.op = "node" /\ change'.row = n
  BY <1>2
<1>4. /\ RowManagerOK(linkRows') /\ Valid(linkRows') = Valid(nodes) \ {n}
      /\ n \in NodeRows
  BY <1>1, <1>2, ReleasedRowIsFree DEF Sound
<1>5. /\ knownRows' = linkRows' /\ knownEnds' = ends
      /\ Leaving("node")' = {n} /\ Leaving("edge")' = {}
  BY <1>1, <1>2, <1>3 DEF knownRows, knownEnds, Leaving, Sound
<1>6. links' = links
  <2>1. /\ Lists(links[n].in, {e \in Valid(edges) : ends[e][2] = n})
        /\ Lists(links[n].out, {e \in Valid(edges) : ends[e][1] = n})
        /\ links[n] \in [in : Seq(EdgeRows), out : Seq(EdgeRows)]
    BY <1>1, <1>4 DEF Sound, Linked, AllLinks
  <2>2. /\ {e \in Valid(edges) : ends[e][2] = n} = {}
        /\ {e \in Valid(edges) : ends[e][1] = n} = {}
    OBVIOUS
  <2>3. links[n].in = <<>> /\ links[n].out = <<>>
    BY <2>1, <2>2, ListsLength
  <2>4. links[n] = NoLinks
    BY <2>1, <2>3 DEF NoLinks
  <2> QED BY <1>1, <1>2, <2>4 DEF Sound, AllLinks
<1>7. knownEdges' = Valid(edges)
  <2>1. knownEdges' = {d \in Valid(edges') \ Leaving("edge")' : IsAttached(knownEnds'[d])}
    BY DEF knownEdges
  <2>2. \A d \in Valid(edges) : IsAttached(ends[d])
    BY <1>1, EdgeEnds
  <2> QED BY <1>2, <1>5, <2>1, <2>2
<1>8. EndsLive'
  <2>1. ASSUME NEW e \in Valid(edges) PROVE ends[e] \in Valid(linkRows') \X Valid(linkRows')
    <3>1. ends[e] \in Valid(nodes) \X Valid(nodes) /\ ends[e][1] # n /\ ends[e][2] # n
      BY <1>1 DEF Sound
    <3> QED BY <1>4, <3>1
  <2> QED BY <1>1, <1>2, <2>1 DEF EndsLive, Sound
<1>9. TablesOK'
  <2>1. Linked(links', knownEdges', knownEnds')
    BY <1>1, <1>5, <1>6, <1>7 DEF Sound
  <2> QED BY <1>1, <1>2, <1>4, <1>5, <1>6, <1>8, <2>1 DEF TablesOK, Sound, AllLinks, Ends
<1>10. TuplesOK'
  BY <1>1, <1>2, <1>5 DEF TuplesOK, TuplesLive, Invalidate
<1>11. TreeOK'
  BY <1>2 DEF TreeOK, NoTree
<1>12. task'.op \in {"idle", "edges"} => ChangeTold'
  BY <1>2, <1>3 DEF ChangeTold
<1> QED BY <1>2, <1>9, <1>10, <1>11, <1>12

LEMMA ReleaseNodeInv ==
  ASSUME GraphInv, ReleaseNode
  PROVE  /\ GraphInv' /\ change.row \in Valid(nodes)
         /\ Valid(nodes') = Valid(nodes) \ {change.row}
         /\ \A e \in Valid(edges) : ends[e][1] # change.row /\ ends[e][2] # change.row
<1> DEFINE n == change.row
<1>1. TablesOK /\ TuplesOK /\ TreeOK /\ ChangeTold /\ TaskOK /\ SearchOK /\ change.op = "node"
  BY Parts DEF ReleaseNode
<1>2. n \in Valid(nodes) /\ n \in NodeRows /\ task.op \in {"idle", "edges"}
  BY <1>1 DEF ChangeTold, TablesOK, NoChange
<1>3. /\ nodes' = ReleaseRow(nodes, n) /\ change' = NoChange
      /\ UNCHANGED <<edges, ends, linkRows, links, nodeTuples, edgeTuples, spanning,
                     task, search>>
  BY DEF ReleaseNode, adjacency, tuples
<1>4. RowManagerOK(nodes') /\ Valid(nodes') = Valid(nodes) \ {n}
  BY <1>1, <1>2, <1>3, ReleasedRowIsFree DEF TablesOK
<1>5. /\ knownRows = nodes' /\ knownEnds = ends
      /\ Leaving("node") = {n} /\ Leaving("edge") = {}
  BY <1>1, <1>3 DEF knownRows, knownEnds, Leaving
<1>6. \A d \in Valid(edges) : d \in EdgeRows /\ ends[d] \in Valid(nodes') \X Valid(nodes')
  BY <1>1, <1>5 DEF TablesOK, EndsLive, HalfMade
<1>7. knownEdges = Valid(edges)
  <2>1. \A d \in Valid(edges) : ends[d] \in NodeRows \X NodeRows
    BY <1>1, <1>4, <1>6 DEF TablesOK
  <2>2. \A d \in Valid(edges) : IsAttached(ends[d])
    BY <2>1, Attached
  <2> QED BY <1>5, <2>2 DEF knownEdges
<1>8. Sound'
  <2>1. Linked(links', Valid(edges'), ends')
    BY <1>1, <1>3, <1>5, <1>7 DEF TablesOK
  <2>2. Valid(nodes') \subseteq NodeRows
    BY <1>1, <1>4 DEF TablesOK
  <2> QED BY <1>1, <1>3, <1>4, <1>5, <1>6, <2>1, <2>2
          DEF Sound, TablesOK, EndsLive, Ends, AllLinks
<1>9. TablesOK' /\ ChangeTold' /\ Leaving("node")' = {} /\ Leaving("edge")' = {}
  BY <1>3, <1>8, SettledNext
<1>10. TuplesOK'
  BY <1>1, <1>3, <1>4, <1>5, <1>9 DEF TuplesOK, TuplesLive
<1>11. TreeOK' /\ TaskOK'
  BY <1>1, <1>2, <1>3 DEF TreeOK, TaskOK, RemovalAtLast
<1>12. SearchOK'
  BY <1>1, <1>2, <1>3 DEF SearchOK, SearchInGraph
<1>13. \A e \in Valid(edges) : ends[e][1] # n /\ ends[e][2] # n
  BY <1>4, <1>6
<1> QED BY <1>2, <1>4, <1>9, <1>10, <1>11, <1>12, <1>13, WholeNext

LEMMA RemoveEdgeInv ==
  ASSUME GraphInv, NEW e \in Valid(edges), RemoveEdge(e)
  PROVE  GraphInv'
<1>1. /\ change = NoChange /\ task = Idle /\ search = NoSearch /\ task.op = "idle"
      /\ DeleteEdge(e) /\ task' = task
  BY AtRest DEF RemoveEdge
<1>2. TablesOK' /\ TuplesOK' /\ TreeOK' /\ ChangeTold' /\ search' = search
  BY <1>1, DeleteEdgeKeeps
<1>3. TaskOK' /\ SearchOK'
  BY <1>1, <1>2, IdlingNext
<1> QED BY <1>2, <1>3, WholeNext

LEMMA RemoveNodeInv ==
  ASSUME GraphInv, NEW n \in Valid(nodes), RemoveNode(n)
  PROVE  GraphInv'
<1>1. change = NoChange /\ search = NoSearch /\ Sound /\ n \in NodeRows
  BY AtRest, SoundParts DEF RemoveNode, Sound
<1>2. /\ task' = [op |-> "in", node |-> n, i |-> Len(links[n].in)]
      /\ nodes' = nodes /\ links' = links /\ search' = search /\ OnlyTask
  BY DEF RemoveNode, OnlyTask, tables, adjacency
<1>3. Len(links[n].in) \in 0 .. MaxEdges
  BY <1>1, ListsOf
<1>4. TaskOK'
  BY <1>1, <1>2, <1>3, GraphAssumption DEF TaskOK, RemovalAtLast, LinksOf
<1>5. SearchOK'
  BY <1>1, <1>2, IdlingNext
<1> QED BY <1>1, <1>2, <1>4, <1>5, OnlyTaskInv

LEMMA TurnToOutInv ==
  ASSUME GraphInv, TurnToOut
  PROVE  GraphInv'
<1> DEFINE n == task.node
<1>1. /\ change = NoChange /\ task.op = "in" /\ task.i = 0
      /\ Sound /\ TaskOK /\ SearchOK
  BY SoundParts DEF TurnToOut
<1>2. /\ task' = [task EXCEPT !.op = "out", !.i = Len(links[n].out)]
      /\ nodes' = nodes /\ links' = links /\ search' = search /\ OnlyTask
  BY DEF TurnToOut, OnlyTask, tables, adjacency
<1>3. n \in Valid(nodes) /\ n \in NodeRows /\ Len(links[n].in) = 0
  BY <1>1 DEF TaskOK, RemovalAtLast, LinksOf, Sound
<1>4. links[n].in = <<>> /\ Len(links[n].out) \in 0 .. MaxEdges
  <2>1. links[n].in \in Seq(EdgeRows) /\ Len(links[n].out) \in 0 .. MaxEdges
    BY <1>1, <1>3, ListsOf
  <2> QED BY <1>3, <2>1
<1>5. task' = [op |-> "out", node |-> n, i |-> Len(links[n].out)]
  BY <1>1, <1>2 DEF TaskOK
<1> HIDE DEF n
<1>6. task'.op = "out" /\ task'.node = n /\ task'.i = Len(links[n].out)
  BY <1>5
<1>7. TaskOK'
  <2>1. RemovalAtLast'
    BY <1>2, <1>3, <1>4, <1>6 DEF RemovalAtLast, LinksOf
  <2> QED BY <1>3, <1>4, <1>5, <2>1, GraphAssumption DEF TaskOK
<1>8. SearchOK'
  <2>1. search = NoSearch
    BY <1>1 DEF SearchOK, SearchInGraph
  <2> QED BY <1>2, <1>6, <2>1, IdlingNext
<1> QED BY <1>1, <1>2, <1>7, <1>8, OnlyTaskInv

\* The edge at the last place of the list goes, so that the next one to go is
\* the last again; a loop was in the list of in-links, and went with them.
LEMMA RemoveIncidentInv ==
  ASSUME GraphInv, RemoveIncident
  PROVE  GraphInv'
<1> DEFINE n == task.node  list == LinksOf(n, task.op)  e == list[task.i]
           In == {d \in Valid(edges) : ends[d][2] = n}
           Out == {d \in Valid(edges) : ends[d][1] = n}
<1>1. /\ change = NoChange /\ Sound /\ TaskOK /\ SearchOK
  BY SoundParts DEF RemoveIncident
<1>2. /\ n \in Valid(nodes) /\ n \in NodeRows /\ task.op \in {"in", "out"}
      /\ task.i = Len(list) /\ task.i > 0 /\ task.i \in 0 .. 2 * MaxEdges
      /\ task.op = "out" => links[n].in = <<>>
  BY <1>1 DEF RemoveIncident, TaskOK, RemovalAtLast, Sound
<1>3. /\ links[n].in \in Seq(EdgeRows) /\ links[n].out \in Seq(EdgeRows)
      /\ Lists(links[n].in, In) /\ Lists(links[n].out, Out)
  BY <1>1, <1>2, ListsOf
<1>4. e \in IF task.op = "in" THEN In ELSE Out
  <2>1. list \in Seq(EdgeRows) /\ Lists(list, IF task.op = "in" THEN In ELSE Out)
    BY <1>3 DEF LinksOf
  <2>2. task.i \in 1 .. Len(list)
    BY <1>2
  <2> HIDE DEF In, Out, list
  <2> QED BY <2>1, <2>2, ListsLength
<1>5. e \in Valid(edges)
  BY <1>4
<1>6. DeleteEdge(e) /\ task' = [task EXCEPT !.i = @ - 1]
  BY <1>5 DEF RemoveIncident
<1> HIDE DEF list, e
<1>7. /\ task'.op = task.op /\ task'.node = n /\ task'.i = task.i - 1
      /\ task' \in [op : {"idle", "in", "out", "edges", "search"},
                    node : NodeRows \cup {-1}, i : 0..2 * MaxEdges]
  BY <1>1, <1>2, <1>6, GraphAssumption DEF TaskOK
<1>8. /\ TablesOK' /\ TuplesOK' /\ TreeOK' /\ ChangeTold'
      /\ nodes' = nodes /\ search' = search
      /\ links'[n].in = IF n = ends[e][2] THEN RemLink(links[n].in, e) ELSE links[n].in
      /\ links'[n].out = IF n = ends[e][1] THEN RemLink(links[n].out, e) ELSE links[n].out
  BY <1>1, <1>2, <1>5, <1>6, <1>7, DeleteEdgeKeeps
<1> HIDE DEF n
<1>9. ASSUME task.op = "in" PROVE RemovalAtLast'
  <2>1. e \in In /\ ends[e][2] = n /\ list = links[n].in
    BY <1>4, <1>9 DEF LinksOf, list
  <2>2. Len(RemLink(links[n].in, e)) = Len(links[n].in) - 1
    <3> HIDE DEF In
    <3> QED BY <1>3, <2>1, ListsRemove
  <2> QED BY <1>2, <1>7, <1>8, <1>9, <2>1, <2>2 DEF RemovalAtLast, LinksOf
<1>10. ASSUME task.op = "out" PROVE RemovalAtLast'
  <2>1. e \in Out /\ ends[e][1] = n /\ list = links[n].out
    BY <1>4, <1>10 DEF LinksOf, list
  <2>2. Len(RemLink(links[n].out, e)) = Len(links[n].out) - 1
    <3> HIDE DEF Out
    <3> QED BY <1>3, <2>1, ListsRemove
  <2>3. links'[n].in = <<>>
    <3>1. ends[e][2] # n
      BY <1>1, <1>2, <1>5, <1>10, NoList
    <3> QED BY <1>2, <1>8, <1>10, <3>1
  <2> QED BY <1>2, <1>7, <1>8, <1>10, <2>1, <2>2, <2>3 DEF RemovalAtLast, LinksOf
<1>11. TaskOK'
  BY <1>2, <1>7, <1>9, <1>10 DEF TaskOK
<1>12. SearchOK'
  <2>1. search = NoSearch
    BY <1>1, <1>2 DEF SearchOK, SearchInGraph
  <2> QED BY <1>2, <1>7, <1>8, <2>1, IdlingNext
<1> QED BY <1>8, <1>11, <1>12, WholeNext

LEMMA RemoveNodeRowInv ==
  ASSUME GraphInv, RemoveNodeRow
  PROVE  GraphInv'
<1> DEFINE n == task.node
<1>1. change = NoChange /\ task.op = "out" /\ Sound /\ TaskOK /\ SearchOK
  BY SoundParts DEF RemoveNodeRow
<1>2. /\ DeleteNode(n) /\ task' = Idle
      /\ n \in Valid(nodes) /\ n \in NodeRows
      /\ Len(links[n].out) = 0 /\ links[n].in = <<>>
  BY <1>1 DEF RemoveNodeRow, TaskOK, RemovalAtLast, LinksOf, Sound
<1>3. links[n].out = <<>>
  <2>1. links[n].out \in Seq(EdgeRows)
    BY <1>1, <1>2, ListsOf
  <2> QED BY <1>2, <2>1
<1>4. search = NoSearch /\ task'.op = "idle"
  BY <1>1, <1>2 DEF SearchOK, SearchInGraph, Idle
<1> HIDE DEF n
<1>5. \A e \in Valid(edges) : ends[e][1] # n /\ ends[e][2] # n
  BY <1>1, <1>2, <1>3, NoList
<1>6. TablesOK' /\ TuplesOK' /\ TreeOK' /\ ChangeTold' /\ search' = search
  BY <1>1, <1>2, <1>4, <1>5, DeleteNodeKeeps
<1>7. TaskOK' /\ SearchOK'
  BY <1>2, <1>4, <1>6, IdlingNext
<1> QED BY <1>6, <1>7, WholeNext

----------------------------------------------------------------------------
(* Clearing the graph.                                                     *)

LEMMA GreatestRow ==
  ASSUME NEW N \in Nat, NEW S, S \subseteq 0 .. N - 1, S # {}
  PROVE  Max(S) \in S
<1>1. S \in SUBSET (0 .. N)
  OBVIOUS
<1>2. \E n \in S : \A m \in S : n >= m
  BY <1>1, GreatestUpTo
<1> QED BY <1>2 DEF Max

LEMMA ClearInv ==
  ASSUME GraphInv, Clear
  PROVE  GraphInv'
<1>1. /\ change = NoChange /\ search = NoSearch /\ Sound /\ TuplesOK /\ TreeOK
  BY AtRest, SoundParts DEF Clear
<1>2. /\ UNCHANGED <<nodes, edges, spanning, search>>
      /\ UNCHANGED <<tables, adjacency, change>>
      /\ nodeTuples' = InvalidateAll(nodeTuples) /\ edgeTuples' = InvalidateAll(edgeTuples)
      /\ task' = [Idle EXCEPT !.op = "edges"]
  BY DEF Clear, tables
<1>3. TuplesOK'
  <2>1. nodeTuples'.rows = {} /\ edgeTuples'.rows = {}
    BY <1>1, <1>2 DEF TuplesOK, InvalidateAll
  <2> QED BY <1>1, <1>2, <2>1 DEF TuplesOK, TuplesLive, InvalidateAll
<1>4. TreeOK'
  BY <1>1, <1>2 DEF TreeOK
<1>5. task' = [op |-> "edges", node |-> -1, i |-> 0]
  BY <1>2 DEF Idle
<1>6. TaskOK'
  BY <1>5, GraphAssumption DEF TaskOK, RemovalAtLast
<1>7. SearchOK'
  BY <1>1, <1>2, <1>5, IdlingNext
<1> QED BY <1>1, <1>2, <1>3, <1>4, <1>6, <1>7, OnlyMemory

LEMMA ClearEdgeInv ==
  ASSUME GraphInv, ClearEdge
  PROVE  GraphInv' /\ Max(Valid(edges)) \in Valid(edges)
<1>1. /\ change = NoChange /\ Sound /\ TaskOK /\ SearchOK
      /\ Valid(edges) # {} /\ DeleteEdge(Max(Valid(edges)))
      /\ task.op = "edges" /\ task' = task
  BY SoundParts DEF ClearEdge
<1>2. Max(Valid(edges)) \in Valid(edges)
  BY <1>1, GraphAssumption, GreatestRow DEF Sound, EdgeRows
<1>3. TablesOK' /\ TuplesOK' /\ TreeOK' /\ ChangeTold' /\ search' = search
  BY <1>1, <1>2, DeleteEdgeKeeps
<1>4. TaskOK'
  BY <1>1 DEF TaskOK, RemovalAtLast
<1>5. SearchOK'
  BY <1>1, <1>3, IdlingNext DEF SearchOK, SearchInGraph
<1> QED BY <1>2, <1>3, <1>4, <1>5, WholeNext

LEMMA ClearNodeInv ==
  ASSUME GraphInv, ClearNode
  PROVE  GraphInv' /\ Max(Valid(nodes)) \in Valid(nodes)
<1>1. /\ change = NoChange /\ Sound /\ TaskOK /\ SearchOK
      /\ Valid(edges) = {} /\ Valid(nodes) # {} /\ DeleteNode(Max(Valid(nodes)))
      /\ task.op = "edges" /\ task' = task
  BY SoundParts DEF ClearNode
<1>2. Max(Valid(nodes)) \in Valid(nodes)
  BY <1>1, GraphAssumption, GreatestRow DEF Sound, NodeRows
<1>3. TablesOK' /\ TuplesOK' /\ TreeOK' /\ ChangeTold' /\ search' = search
  <2>1. \A e \in Valid(edges) : /\ ends[e][1] # Max(Valid(nodes))
                                /\ ends[e][2] # Max(Valid(nodes))
    BY <1>1
  <2> QED BY <1>1, <1>2, <2>1, DeleteNodeKeeps
<1>4. TaskOK'
  BY <1>1 DEF TaskOK, RemovalAtLast
<1>5. SearchOK'
  BY <1>1, <1>3, IdlingNext DEF SearchOK, SearchInGraph
<1> QED BY <1>2, <1>3, <1>4, <1>5, WholeNext

LEMMA ClearedInv ==
  ASSUME GraphInv, Cleared
  PROVE  GraphInv'
<1>1. change = NoChange /\ task.op = "edges" /\ SearchOK /\ OnlyTask /\ task' = Idle
  BY SoundParts DEF Cleared
<1>2. search = NoSearch /\ search' = search /\ task'.op # "search"
  BY <1>1 DEF SearchOK, SearchInGraph, OnlyTask, Idle
<1> QED BY <1>1, <1>2, IdlingNext, OnlyTaskInv

----------------------------------------------------------------------------
(* Calls that read and remember.                                           *)

LEMMA GetNodeInv ==
  ASSUME GraphInv, NEW n \in Valid(nodes), GetNode(n)
  PROVE  GraphInv'
<1>1. /\ change = NoChange /\ task = Idle /\ search = NoSearch /\ task.op = "idle"
      /\ Sound /\ TuplesOK /\ TreeOK
      /\ nodeTuples.rows \subseteq Valid(nodes) /\ edgeTuples.rows \subseteq Valid(edges)
  BY AtRest, SoundParts DEF GetNode
<1>2. /\ nodeTuples' = GetTuple(nodeTuples, nodes, n)
      /\ UNCHANGED <<nodes, edges, edgeTuples, spanning, change, task, search>>
      /\ UNCHANGED <<tables, adjacency, change>>
  BY DEF GetNode, tables
<1>3. /\ GetTuple(nodeTuples, nodes, n) \in [len : Nat, rows : SUBSET NodeRows]
      /\ GetTuple(nodeTuples, nodes, n).rows \subseteq nodeTuples.rows \cup {n}
  <2>1. n \in NodeRows /\ RowManagerOK(nodes)
        /\ nodeTuples \in [len : Nat, rows : SUBSET NodeRows]
    BY <1>1 DEF Sound, TuplesOK
  <2> QED BY <2>1, GetTupleType
<1>4. Leaving("node")' = {} /\ Leaving("edge")' = {}
  BY <1>1, <1>2, SettledNext
<1>5. TuplesOK'
  BY <1>1, <1>2, <1>3, <1>4 DEF TuplesOK, TuplesLive
<1>6. TreeOK' /\ TaskOK' /\ SearchOK'
  BY <1>1, <1>2, IdlingNext DEF TreeOK
<1> QED BY <1>1, <1>2, <1>5, <1>6, OnlyMemory

LEMMA GetEdgeInv ==
  ASSUME GraphInv, NEW e \in Valid(edges), GetEdge(e)
  PROVE  GraphInv'
<1>1. /\ change = NoChange /\ task = Idle /\ search = NoSearch /\ task.op = "idle"
      /\ Sound /\ TuplesOK /\ TreeOK
      /\ nodeTuples.rows \subseteq Valid(nodes) /\ edgeTuples.rows \subseteq Valid(edges)
  BY AtRest, SoundParts DEF GetEdge
<1>2. /\ edgeTuples' = GetTuple(edgeTuples, edges, e)
      /\ UNCHANGED <<nodes, edges, nodeTuples, spanning, change, task, search>>
      /\ UNCHANGED <<tables, adjacency, change>>
  BY DEF GetEdge, tables
<1>3. /\ GetTuple(edgeTuples, edges, e) \in [len : Nat, rows : SUBSET EdgeRows]
      /\ GetTuple(edgeTuples, edges, e).rows \subseteq edgeTuples.rows \cup {e}
  <2>1. e \in EdgeRows /\ RowManagerOK(edges)
        /\ edgeTuples \in [len : Nat, rows : SUBSET EdgeRows]
    BY <1>1 DEF Sound, TuplesOK
  <2> QED BY <2>1, GetTupleType
<1>4. Leaving("node")' = {} /\ Leaving("edge")' = {}
  BY <1>1, <1>2, SettledNext
<1>5. TuplesOK'
  BY <1>1, <1>2, <1>3, <1>4 DEF TuplesOK, TuplesLive
<1>6. TreeOK' /\ TaskOK' /\ SearchOK'
  BY <1>1, <1>2, IdlingNext DEF TreeOK
<1> QED BY <1>1, <1>2, <1>5, <1>6, OnlyMemory

----------------------------------------------------------------------------
(* The search for a spanning tree.                                         *)

\* A queue and what it holds.
LEMMA QueueFacts ==
  ASSUME NEW U, NEW q \in Seq(U)
  PROVE  /\ q # <<>> => /\ Head(q) \in U /\ Tail(q) \in Seq(U)
                        /\ ToSet(q) = {Head(q)} \cup ToSet(Tail(q))
         /\ \A x \in U : /\ Append(q, x) \in Seq(U)
                         /\ ToSet(Append(q, x)) = ToSet(q) \cup {x}
                         /\ q # <<>> => Append(q, x) # <<>> /\ Head(Append(q, x)) = Head(q)
<1>1. ASSUME q # <<>>
      PROVE  /\ Head(q) \in U /\ Tail(q) \in Seq(U)
             /\ ToSet(q) = {Head(q)} \cup ToSet(Tail(q))
  <2>1. /\ Head(q) = q[1] /\ Head(q) \in U /\ Tail(q) \in Seq(U) /\ Len(q) \in Nat \ {0}
        /\ DOMAIN q = 1 .. Len(q) /\ DOMAIN Tail(q) = 1 .. Len(q) - 1
        /\ \A i \in 1 .. Len(q) - 1 : Tail(q)[i] = q[i + 1]
    BY <1>1
  <2>2. ASSUME NEW x \in ToSet(q) PROVE x \in {Head(q)} \cup ToSet(Tail(q))
    <3>1. PICK i \in 1 .. Len(q) : q[i] = x
      BY <2>1 DEF ToSet
    <3>2. CASE i = 1
      BY <2>1, <3>1, <3>2
    <3>3. CASE i # 1
      <4>1. i - 1 \in 1 .. Len(q) - 1 /\ Tail(q)[i - 1] = x
        BY <2>1, <3>1, <3>3
      <4> QED BY <2>1, <4>1 DEF ToSet
    <3> QED BY <3>2, <3>3
  <2>3. ASSUME NEW x \in {Head(q)} \cup ToSet(Tail(q)) PROVE x \in ToSet(q)
    <3>1. CASE x = Head(q)
      BY <2>1, <3>1 DEF ToSet
    <3>2. CASE x \in ToSet(Tail(q))
      <4>1. PICK i \in 1 .. Len(q) - 1 : Tail(q)[i] = x
        BY <2>1, <3>2 DEF ToSet
      <4>2. i + 1 \in 1 .. Len(q) /\ q[i + 1] = x
        BY <2>1, <4>1
      <4> QED BY <2>1, <4>2 DEF ToSet
    <3> QED BY <3>1, <3>2
  <2> QED BY <2>1, <2>2, <2>3
<1>2. ASSUME NEW x \in U
      PROVE  /\ Append(q, x) \in Seq(U)
             /\ ToSet(Append(q, x)) = ToSet(q) \cup {x}
             /\ q # <<>> => Append(q, x) # <<>> /\ Head(Append(q, x)) = Head(q)
  <2> DEFINE a == Append(q, x)
  <2>1. /\ a \in Seq(U) /\ Len(q) \in Nat
        /\ DOMAIN q = 1 .. Len(q) /\ DOMAIN a = 1 .. Len(q) + 1
        /\ \A i \in 1 .. Len(q) : a[i] = q[i]
        /\ a[Len(q) + 1] = x
    OBVIOUS
  <2>2. q # <<>> => a # <<>> /\ Head(a) = Head(q)
    OBVIOUS
  <2> HIDE DEF a
  <2>3. ASSUME NEW y \in ToSet(a) PROVE y \in ToSet(q) \cup {x}
    <3>1. PICK i \in 1 .. Len(q) + 1 : a[i] = y
      BY <2>1 DEF ToSet
    <3>2. i \in 1 .. Len(q) \/ i = Len(q) + 1
      BY <2>1
    <3> QED BY <2>1, <3>1, <3>2 DEF ToSet
  <2>4. ASSUME NEW y \in ToSet(q) \cup {x} PROVE y \in ToSet(a)
    <3>1. CASE y = x
      <4>1. Len(q) + 1 \in 1 .. Len(q) + 1
        BY <2>1
      <4> QED BY <2>1, <3>1, <4>1 DEF ToSet
    <3>2. CASE y \in ToSet(q)
      <4>1. PICK i \in 1 .. Len(q) : q[i] = y
        BY <2>1, <3>2 DEF ToSet
      <4>2. i \in 1 .. Len(q) + 1 /\ a[i] = y
        BY <2>1, <4>1
      <4> QED BY <2>1, <4>2 DEF ToSet
    <3> QED BY <3>1, <3>2
  <2> QED BY <2>1, <2>2, <2>3, <2>4 DEF a
<1> QED BY <1>1, <1>2

\* The edges of a node are those that start or end there.
LEMMA EdgesOfNode ==
  ASSUME Sound, NEW n \in Valid(nodes)
  PROVE  /\ Len(EdgesOf(n)) \in 0 .. 2 * MaxEdges
         /\ \A i \in 1 .. Len(EdgesOf(n)) :
               /\ EdgesOf(n)[i] \in Valid(edges)
               /\ ends[EdgesOf(n)[i]][1] = n \/ ends[EdgesOf(n)[i]][2] = n
         /\ \A e \in Valid(edges) : ends[e][1] = n \/ ends[e][2] = n =>
               \E i \in 1 .. Len(EdgesOf(n)) : EdgesOf(n)[i] = e
<1> DEFINE out == links[n].out  in == links[n].in  all == EdgesOf(n)
           Out == {e \in Valid(edges) : ends[e][1] = n}
           In == {e \in Valid(edges) : ends[e][2] = n}
<1>1. /\ in \in Seq(EdgeRows) /\ out \in Seq(EdgeRows)
      /\ Lists(in, In) /\ Lists(out, Out)
      /\ Len(in) \in 0 .. MaxEdges /\ Len(out) \in 0 .. MaxEdges
  <2>1. n \in NodeRows
    BY DEF Sound
  <2> QED BY <2>1, ListsOf
<1>2. all = out \o in
  BY DEF EdgesOf
<1> HIDE DEF out, in, all
<1>3. /\ Len(all) = Len(out) + Len(in)
      /\ \A i \in 1 .. Len(out) : all[i] = out[i]
      /\ \A i \in 1 .. Len(in) : all[Len(out) + i] = in[i]
  BY <1>1, <1>2
<1>4. /\ \A i \in 1 .. Len(out) : out[i] \in Out
      /\ \A i \in 1 .. Len(in) : in[i] \in In
      /\ \A e \in Out : \E i \in 1 .. Len(out) : out[i] = e
      /\ \A e \in In : \E i \in 1 .. Len(in) : in[i] = e
  <2>1. /\ DOMAIN out = 1 .. Len(out) /\ DOMAIN in = 1 .. Len(in)
        /\ {out[i] : i \in DOMAIN out} = Out /\ {in[i] : i \in DOMAIN in} = In
    BY <1>1 DEF Lists, ToSet
  <2> HIDE DEF Out, In
  <2> QED BY <2>1
<1>5. Len(all) \in 0 .. 2 * MaxEdges
  BY <1>1, <1>3, GraphAssumption
<1>6. ASSUME NEW i \in 1 .. Len(all) PROVE all[i] \in Out \cup In
  <2>1. CASE i <= Len(out)
    BY <1>1, <1>3, <1>4, <2>1
  <2>2. CASE ~ (i <= Len(out))
    <3>1. PICK j \in 1 .. Len(in) : i = Len(out) + j
      <4>1. i - Len(out) \in 1 .. Len(in) /\ i = Len(out) + (i - Len(out))
        BY <1>1, <1>3, <2>2
      <4> QED BY <4>1
    <3>2. all[i] = in[j] /\ in[j] \in In
      BY <1>3, <1>4, <3>1
    <3> QED BY <3>2
  <2> QED BY <2>1, <2>2
<1>7. ASSUME NEW e \in Out \cup In PROVE \E i \in 1 .. Len(all) : all[i] = e
  <2>1. CASE e \in Out
    <3>1. PICK i \in 1 .. Len(out) : out[i] = e
      BY <1>4, <2>1
    <3>2. i \in 1 .. Len(all) /\ all[i] = e
      BY <1>1, <1>3, <3>1
    <3> QED BY <3>2
  <2>2. CASE e \in In
    <3>1. PICK i \in 1 .. Len(in) : in[i] = e
      BY <1>4, <2>2
    <3>2. Len(out) + i \in 1 .. Len(all) /\ all[Len(out) + i] = e
      BY <1>1, <1>3, <3>1
    <3> QED BY <3>2
  <2> QED BY <2>1, <2>2
<1> QED BY <1>5, <1>6, <1>7 DEF all

\* The other end of such an edge is a node.
LEMMA OtherEnd ==
  ASSUME Sound, NEW n, NEW e \in Valid(edges), ends[e][1] = n \/ ends[e][2] = n
  PROVE  /\ AdjacentNode(e, n) \in Valid(nodes)
         /\ {ends[e][1], ends[e][2]} = {n, AdjacentNode(e, n)}
BY EdgeEnds DEF AdjacentNode

\* The head of the queue, the next of its edges and the node behind it.
LEMMA WhileSearching ==
  ASSUME GraphInv, task.op = "search"
  PROVE  /\ change = NoChange
         /\ Sound /\ TuplesOK /\ TreeOK /\ TaskOK /\ SearchOK
         /\ nodeTuples.rows \subseteq Valid(nodes) /\ edgeTuples.rows \subseteq Valid(edges)
         /\ task = [op |-> "search", node |-> task.node, i |-> task.i]
         /\ task.node \in search.reached /\ search.reached \subseteq Valid(nodes)
         /\ task.node \in NodeRows
         /\ search.queue \in Seq(NodeRows) /\ ToSet(search.queue) \subseteq search.reached
         /\ search = [queue |-> search.queue, reached |-> search.reached]
         /\ task.i \in 0 .. 2 * MaxEdges
         /\ search.queue # <<>> =>
               LET p == Head(search.queue)
                   e == EdgesOf(p)[task.i + 1]
               IN  /\ p \in search.reached
                   /\ Len(EdgesOf(p)) \in 0 .. 2 * MaxEdges
                   /\ task.i < Len(EdgesOf(p)) =>
                         /\ e \in Valid(edges)
                         /\ AdjacentNode(e, p) \in Valid(nodes)
                         /\ {ends[e][1], ends[e][2]} = {p, AdjacentNode(e, p)}
<1> DEFINE p == Head(search.queue)  e == EdgesOf(p)[task.i + 1]
<1>1. change = NoChange
  BY Parts DEF ChangeTold, Idle
<1>2. /\ Sound /\ TuplesOK /\ TreeOK /\ TaskOK /\ SearchOK
      /\ nodeTuples.rows \subseteq Valid(nodes) /\ edgeTuples.rows \subseteq Valid(edges)
  BY <1>1, SoundParts
<1>3. /\ task.node \in search.reached /\ search.reached \subseteq Valid(nodes)
      /\ search.queue \in Seq(NodeRows) /\ ToSet(search.queue) \subseteq search.reached
      /\ search = [queue |-> search.queue, reached |-> search.reached]
      /\ task = [op |-> "search", node |-> task.node, i |-> task.i]
      /\ task.i \in 0 .. 2 * MaxEdges
  BY <1>2 DEF SearchOK, SearchInGraph, TaskOK
<1>4. task.node \in NodeRows
  BY <1>2, <1>3 DEF Sound
<1>5. ASSUME search.queue # <<>>
      PROVE  /\ p \in search.reached
             /\ Len(EdgesOf(p)) \in 0 .. 2 * MaxEdges
             /\ task.i < Len(EdgesOf(p)) =>
                   /\ e \in Valid(edges)
                   /\ AdjacentNode(e, p) \in Valid(nodes)
                   /\ {ends[e][1], ends[e][2]} = {p, AdjacentNode(e, p)}
  <2>1. p \in search.reached /\ p \in Valid(nodes)
    BY <1>3, <1>5, QueueFacts
  <2> HIDE DEF p
  <2>2. /\ Len(EdgesOf(p)) \in 0 .. 2 * MaxEdges
        /\ \A i \in 1 .. Len(EdgesOf(p)) :
              /\ EdgesOf(p)[i] \in Valid(edges)
              /\ ends[EdgesOf(p)[i]][1] = p \/ ends[EdgesOf(p)[i]][2] = p
    BY <1>2, <2>1, EdgesOfNode
  <2>3. ASSUME task.i < Len(EdgesOf(p))
        PROVE  e \in Valid(edges) /\ (ends[e][1] = p \/ ends[e][2] = p)
    <3>1. task.i + 1 \in 1 .. Len(EdgesOf(p))
      BY <1>3, <2>2, <2>3
    <3> QED BY <2>2, <3>1
  <2> HIDE DEF e
  <2> QED BY <1>2, <2>1, <2>2, <2>3, OtherEnd
<1> QED BY <1>1, <1>2, <1>3, <1>4, <1>5

LEMMA GetSpanningTreeInv ==
  ASSUME GraphInv, NEW root \in Valid(nodes), GetSpanningTree(root)
  PROVE  GraphInv'
<1>1. /\ change = NoChange /\ task = Idle /\ search = NoSearch /\ task.op = "idle"
      /\ Sound /\ TuplesOK /\ TreeOK
      /\ nodeTuples.rows \subseteq Valid(nodes) /\ edgeTuples.rows \subseteq Valid(edges)
  BY AtRest, SoundParts DEF GetSpanningTree
<1>2. /\ nodeTuples' = IF spanning = NoTree THEN nodeTuples
                       ELSE EnsureTupleArray(nodeTuples, nodes)
      /\ UNCHANGED <<nodes, edges, edgeTuples, spanning, change>>
      /\ UNCHANGED <<tables, adjacency, change>>
      /\ \/ UNCHANGED <<task, search>>
         \/ /\ task' = [op |-> "search", node |-> root, i |-> 0]
            /\ search' = [queue |-> <<root>>, reached |-> {root}]
  BY DEF GetSpanningTree, tables
<1>3. nodeTuples' \in [len : Nat, rows : SUBSET NodeRows] /\ nodeTuples'.rows = nodeTuples.rows
  BY <1>1, <1>2, EnsureTupleArrayType DEF Sound, TuplesOK
<1>4. Leaving("node")' = {} /\ Leaving("edge")' = {}
  BY <1>1, <1>2, SettledNext
<1>5. TuplesOK' /\ TreeOK'
  BY <1>1, <1>2, <1>3, <1>4 DEF TuplesOK, TuplesLive, TreeOK
<1>6. CASE UNCHANGED <<task, search>>
  <2>1. TaskOK' /\ SearchOK'
    BY <1>1, <1>6, IdlingNext
  <2> QED BY <1>1, <1>2, <1>5, <2>1, OnlyMemory
<1>7. CASE /\ task' = [op |-> "search", node |-> root, i |-> 0]
           /\ search' = [queue |-> <<root>>, reached |-> {root}]
  <2>1. root \in NodeRows
    BY <1>1 DEF Sound
  <2>2. TaskOK'
    BY <1>7, <2>1, GraphAssumption DEF TaskOK, RemovalAtLast
  <2>3. <<root>> \in Seq(NodeRows) /\ ToSet(<<root>>) = {root}
    BY <2>1 DEF ToSet
  <2>4. SearchOK'
    BY <1>2, <1>7, <2>1, <2>3 DEF SearchOK, SearchInGraph
  <2> QED BY <1>1, <1>2, <1>5, <2>2, <2>4, OnlyMemory
<1> QED BY <1>2, <1>6, <1>7

\* getTuple makes a tuple of the row it is given, if any.
LEMMA TuplesOf ==
  ASSUME GraphInv, change = NoChange, NEW e \in Valid(edges), NEW n \in Valid(nodes),
         UNCHANGED <<nodes, edges, change>>,
         edgeTuples' = GetTuple(edgeTuples, edges, e),
         nodeTuples' \in {nodeTuples, GetTuple(nodeTuples, nodes, n)}
  PROVE  TuplesOK'
<1>1. /\ Sound /\ TuplesOK
      /\ nodeTuples.rows \subseteq Valid(nodes) /\ edgeTuples.rows \subseteq Valid(edges)
  BY SoundParts
<1>2. /\ n \in NodeRows /\ RowManagerOK(nodes) /\ e \in EdgeRows /\ RowManagerOK(edges)
      /\ nodeTuples \in [len : Nat, rows : SUBSET NodeRows]
      /\ edgeTuples \in [len : Nat, rows : SUBSET EdgeRows]
  BY <1>1 DEF Sound, TuplesOK
<1>3. /\ edgeTuples' \in [len : Nat, rows : SUBSET EdgeRows]
      /\ edgeTuples'.rows \subseteq edgeTuples.rows \cup {e}
  BY <1>2, GetTupleType
<1>4. /\ nodeTuples' \in [len : Nat, rows : SUBSET NodeRows]
      /\ nodeTuples'.rows \subseteq nodeTuples.rows \cup {n}
  BY <1>2, GetTupleType
<1>5. Leaving("node")' = {} /\ Leaving("edge")' = {}
  BY SettledNext
<1> QED BY <1>1, <1>3, <1>4, <1>5 DEF TuplesOK, TuplesLive

LEMMA SearchEdgeInv ==
  ASSUME GraphInv, SearchEdge
  PROVE  GraphInv'
<1> DEFINE p == Head(search.queue)  e == EdgesOf(p)[task.i + 1]  n == AdjacentNode(e, p)
<1>1. /\ task.op = "search" /\ search.queue # <<>> /\ task.i < Len(EdgesOf(p))
      /\ edgeTuples' = GetTuple(edgeTuples, edges, e)
      /\ nodeTuples' = GetTuple(nodeTuples, nodes, n)
      /\ search' = IF n \in search.reached THEN search
                   ELSE [queue |-> Append(search.queue, n),
                         reached |-> search.reached \cup {n}]
      /\ task' = [task EXCEPT !.i = @ + 1]
      /\ UNCHANGED <<nodes, edges, spanning, change>> /\ UNCHANGED <<tables, adjacency, change>>
  BY DEF SearchEdge, tables
<1>2. /\ change = NoChange /\ Sound /\ TreeOK /\ TaskOK /\ SearchOK
      /\ task = [op |-> "search", node |-> task.node, i |-> task.i]
      /\ task.node \in search.reached /\ search.reached \subseteq Valid(nodes)
      /\ task.node \in NodeRows
      /\ search.queue \in Seq(NodeRows) /\ ToSet(search.queue) \subseteq search.reached
      /\ task.i \in 0 .. 2 * MaxEdges
      /\ Len(EdgesOf(p)) \in 0 .. 2 * MaxEdges
      /\ e \in Valid(edges) /\ n \in Valid(nodes)
  BY <1>1, WhileSearching
<1> HIDE DEF p, e, n
<1>3. TuplesOK'
  BY <1>1, <1>2, TuplesOf
<1>4. TreeOK'
  BY <1>1, <1>2 DEF TreeOK
<1>5. /\ task'.op = "search" /\ task'.node = task.node
      /\ task' \in [op : {"idle", "in", "out", "edges", "search"},
                    node : NodeRows \cup {-1}, i : 0..2 * MaxEdges]
  BY <1>1, <1>2, GraphAssumption
<1>6. TaskOK'
  BY <1>5 DEF TaskOK, RemovalAtLast
<1>7. SearchOK'
  <2>1. n \in NodeRows
    BY <1>2 DEF Sound
  <2>2. CASE n \in search.reached
    BY <1>1, <1>2, <1>5, <2>2 DEF SearchOK, SearchInGraph
  <2>3. CASE n \notin search.reached
    <3>1. /\ search'.queue = Append(search.queue, n)
          /\ search'.reached = search.reached \cup {n}
          /\ search' = [queue |-> search'.queue, reached |-> search'.reached]
      BY <1>1, <2>3
    <3>2. /\ search'.queue \in Seq(NodeRows)
          /\ ToSet(search'.queue) = ToSet(search.queue) \cup {n}
      BY <1>2, <2>1, <3>1, QueueFacts
    <3>3. search.reached \subseteq NodeRows
      BY <1>2 DEF Sound
    <3> QED BY <1>1, <1>2, <1>5, <2>1, <3>1, <3>2, <3>3 DEF SearchOK, SearchInGraph
  <2> QED BY <2>2, <2>3
<1> QED BY <1>1, <1>2, <1>3, <1>4, <1>6, <1>7, OnlyMemory

LEMMA NextInQueueInv ==
  ASSUME GraphInv, NextInQueue
  PROVE  GraphInv'
<1>1. /\ task.op = "search" /\ search.queue # <<>>
      /\ search' = [search EXCEPT !.queue = Tail(@)]
      /\ task' = [task EXCEPT !.i = 0]
      /\ UNCHANGED <<nodes, edges, ends, nodeTuples, edgeTuples, spanning, change>>
      /\ UNCHANGED <<tables, adjacency, change>>
  BY DEF NextInQueue, tables, tuples
<1>2. /\ change = NoChange /\ TuplesOK /\ TreeOK /\ TaskOK /\ SearchOK
      /\ task = [op |-> "search", node |-> task.node, i |-> task.i]
      /\ search = [queue |-> search.queue, reached |-> search.reached]
      /\ task.node \in search.reached /\ search.reached \subseteq Valid(nodes)
      /\ task.node \in NodeRows
      /\ search.queue \in Seq(NodeRows) /\ ToSet(search.queue) \subseteq search.reached
  BY <1>1, WhileSearching
<1>3. TuplesOK' /\ TreeOK'
  BY <1>1, <1>2, TuplesSame DEF TreeOK
<1>4. task' = [op |-> "search", node |-> task.node, i |-> 0]
  BY <1>1, <1>2
<1>5. TaskOK'
  BY <1>2, <1>4, GraphAssumption DEF TaskOK, RemovalAtLast
<1>6. Tail(search.queue) \in Seq(NodeRows) /\ ToSet(Tail(search.queue)) \subseteq search.reached
  BY <1>1, <1>2, QueueFacts
<1>7. search' = [queue |-> Tail(search.queue), reached |-> search.reached]
  BY <1>1, <1>2
<1>8. SearchOK'
  BY <1>1, <1>2, <1>4, <1>6, <1>7 DEF SearchOK, SearchInGraph
<1> QED BY <1>1, <1>2, <1>3, <1>5, <1>8, OnlyMemory

\* The end of a search, however it ends.
LEMMA EndSearchInv ==
  ASSUME GraphInv, task.op = "search", NEW whole \in BOOLEAN, EndSearch(whole), TuplesOK'
  PROVE  GraphInv'
<1>1. /\ change = NoChange /\ TreeOK /\ SearchOK /\ task.node \in NodeRows
  BY WhileSearching
<1>2. /\ spanning' = IF spanning = NoTree /\ ~whole THEN NoTree
                     ELSE [root |-> task.node, reached |-> search.reached, whole |-> whole]
      /\ task' = Idle /\ search' = NoSearch
      /\ UNCHANGED <<tables, adjacency, change>>
  BY DEF EndSearch
<1>3. TreeOK'
  BY <1>1, <1>2 DEF TreeOK, NoTree, SearchOK
<1>4. TaskOK' /\ SearchOK'
  BY <1>2, IdlingNext DEF Idle
<1> QED BY <1>1, <1>2, <1>3, <1>4, OnlyMemory

LEMMA SearchFailsInv ==
  ASSUME GraphInv, SearchFails
  PROVE  GraphInv'
<1> DEFINE p == Head(search.queue)  e == EdgesOf(p)[task.i + 1]  n == AdjacentNode(e, p)
<1>1. /\ task.op = "search" /\ search.queue # <<>> /\ task.i < Len(EdgesOf(p))
      /\ edgeTuples' = GetTuple(edgeTuples, edges, e)
      /\ nodeTuples' \in {nodeTuples, GetTuple(nodeTuples, nodes, n)}
      /\ EndSearch(FALSE)
  BY DEF SearchFails
<1>2. change = NoChange /\ e \in Valid(edges) /\ n \in Valid(nodes)
  BY <1>1, WhileSearching
<1>3. UNCHANGED <<nodes, edges, change>>
  BY <1>1 DEF EndSearch, tables
<1> HIDE DEF e, n
<1>4. TuplesOK'
  BY <1>1, <1>2, <1>3, TuplesOf
<1> QED BY <1>1, <1>4, EndSearchInv

LEMMA SearchEndsInv ==
  ASSUME GraphInv, SearchEnds
  PROVE  GraphInv'
<1>1. task.op = "search" /\ EndSearch(TRUE) /\ UNCHANGED tuples
  BY DEF SearchEnds
<1>2. UNCHANGED <<nodes, edges, ends, change, nodeTuples, edgeTuples>>
  BY <1>1 DEF EndSearch, tables, tuples
<1>3. TuplesOK'
  BY <1>2, Parts, TuplesSame
<1> QED BY <1>1, <1>3, EndSearchInv

----------------------------------------------------------------------------
(* The graph.                                                              *)

\* The calls on one end of an edge give it two nodes as its ends.
LEMMA OneEnd ==
  ASSUME Sound, NEW e \in Valid(edges), NEW n \in Valid(nodes)
  PROVE  /\ <<n, ends[e][2]>> \in Valid(nodes) \X Valid(nodes)
         /\ <<ends[e][1], n>> \in Valid(nodes) \X Valid(nodes)
BY EdgeEnds

\* What the calls on one end of an edge are, on its two ends.
LEMMA SetOneEnd ==
  ASSUME GraphInv, NEW e \in Valid(edges), NEW n \in Valid(nodes),
         SetSource(e, n) \/ SetTarget(e, n)
  PROVE  \E st \in Valid(nodes) \X Valid(nodes) :
            SetEnds(e, st) /\ st \in {<<n, ends[e][2]>>, <<ends[e][1], n>>}
<1>1. Ready
  BY DEF SetSource, SetTarget, SetEnds
<1>2. Sound
  BY <1>1, AtRest, SoundParts
<1> QED BY <1>2, OneEnd DEF SetSource, SetTarget

LEMMA GraphStep ==
  ASSUME Detached = {}, GraphInv, [GraphNext]_graphVars
  PROVE  GraphInv'
<1>1. CASE AddNode \/ AddEdge \/ Clear
  BY <1>1, AddNodeInv, AddEdgeInv, ClearInv
<1>2. ASSUME NEW e \in Valid(edges), RemoveEdge(e) \/ GetEdge(e) PROVE GraphInv'
  BY <1>2, RemoveEdgeInv, GetEdgeInv
<1>3. ASSUME NEW e \in Valid(edges), NEW n \in Valid(nodes), SetSource(e, n) \/ SetTarget(e, n)
      PROVE  GraphInv'
  BY <1>3, SetOneEnd, SetEndsInv
<1>4. ASSUME NEW n \in Valid(nodes), RemoveNode(n) \/ GetNode(n) \/ GetSpanningTree(n)
      PROVE  GraphInv'
  BY <1>4, RemoveNodeInv, GetNodeInv, GetSpanningTreeInv
<1>5. CASE Call
  <2>1. CASE \E e \in Valid(edges), n \in Valid(nodes) \cup Detached :
               SetSource(e, n) \/ SetTarget(e, n)
    BY <1>3, <2>1
  <2> QED BY <1>1, <1>2, <1>4, <1>5, <2>1 DEF Call
<1>6. CASE Told
  BY <1>6, AddSourceInv, AddTargetInv, ColumnChangedInv, ReleaseEdgeInv, ReleaseNodeInv DEF Told
<1>7. CASE GoOn
  BY <1>6, <1>7, RemoveIncidentInv, TurnToOutInv, RemoveNodeRowInv, ClearEdgeInv,
     ClearNodeInv, ClearedInv, SearchEdgeInv, SearchFailsInv, NextInQueueInv,
     SearchEndsInv DEF GoOn
<1>8. CASE UNCHANGED graphVars
  BY <1>8, SameGraphInv
<1> QED BY <1>5, <1>7, <1>8 DEF GraphNext

\* At every moment of every use of a graph whose edges have ends, also while
\* its listeners are told of a change and between two events of a removal, the
\* adjacency lists are those of the edges the graph knows, the tuples are those
\* of rows in use that stay, and the removal is where its index says.
THEOREM GraphSafe ==
  ASSUME Detached = {}
  PROVE  GraphSpec => []GraphInv
<1>1. GraphInv /\ [GraphNext]_graphVars => GraphInv'
  BY GraphStep
<1> QED BY InitialInv, <1>1, PTL DEF GraphSpec

\* The edges the graph knows, and their ends.
LEMMA KnownFacts ==
  ASSUME GraphInv
  PROVE  /\ Valid(knownRows) \subseteq NodeRows /\ Valid(knownRows) \subseteq Valid(nodes)
         /\ knownEdges \subseteq Valid(edges)
<1>1. TablesOK /\ ChangeTold
  BY Parts
<1>2. Valid(knownRows) \subseteq Valid(nodes)
  <2>1. CASE change.op = "node"
    <3>1. change.row \in Valid(nodes) /\ RowManagerOK(nodes)
      BY <1>1, <2>1 DEF ChangeTold, NoChange, TablesOK
    <3> QED BY <2>1, <3>1, ReleasedRowIsFree DEF knownRows
  <2>2. CASE change.op # "node"
    BY <2>2 DEF knownRows
  <2> QED BY <2>1, <2>2
<1>3. knownEdges \subseteq Valid(edges)
  BY DEF knownEdges
<1> QED BY <1>1, <1>2, <1>3 DEF TablesOK

LEMMA LinksFromInv == GraphInv => LinksMatchEdges
<1> SUFFICES ASSUME GraphInv PROVE LinksMatchEdges
  OBVIOUS
<1>1. TablesOK
  BY Parts
<1> QED BY <1>1, KnownFacts DEF LinksMatchEdges, TablesOK, Linked

----------------------------------------------------------------------------
(* The spanning tree.                                                      *)

\* No edge the graph knows leaves the set.
Bounded(S) == \A e \in knownEdges : knownEnds[e][1] \in S <=> knownEnds[e][2] \in S

\* A tree that was built to the end has reached the nodes its root is connected
\* to: no edge leads out of them, nor out of less.
Spans(root, S) ==
    /\ root \in S /\ S \in SUBSET Valid(nodes) /\ Bounded(S)
    /\ \A T \in SUBSET S : root \in T /\ Bounded(T) => T = S
TreeSpans ==
    spanning # NoTree /\ spanning.whole => Spans(spanning.root, spanning.reached)

\* The edges of a node lead to nodes that were reached.
Behind(n) == \A e \in Valid(edges) :
    ends[e][1] = n \/ ends[e][2] = n => {ends[e][1], ends[e][2]} \subseteq search.reached

\* The search has reached nothing that is not connected to its root.  It is done
\* with the edges of a node that has left the queue, and with the first task.i
\* of the node at the head.
SearchSound ==
    task.op = "search" =>
        /\ \A T \in SUBSET Valid(nodes) : task.node \in T /\ Bounded(T) => search.reached \subseteq T
        /\ \A n \in search.reached \ ToSet(search.queue) : Behind(n)
        /\ search.queue # <<>> =>
              \A j \in 1 .. task.i :
                 AdjacentNode(EdgesOf(Head(search.queue))[j], Head(search.queue)) \in search.reached

\* Either the tree is dropped or neither it nor what is known changes.
LEMMA TreeKept ==
  ASSUME TreeSpans, \/ spanning' = NoTree
                    \/ UNCHANGED <<nodes, knownEdges, knownEnds, spanning>>
  PROVE  TreeSpans'
<1>1. CASE spanning' = NoTree
  BY <1>1 DEF TreeSpans
<1>2. CASE UNCHANGED <<nodes, knownEdges, knownEnds, spanning>>
  BY <1>2 DEF TreeSpans, Spans, Bounded
<1> QED BY <1>1, <1>2

LEMMA KnownKept ==
  ASSUME TreeSpans, UNCHANGED <<tables, spanning, change>>
  PROVE  TreeSpans'
<1>1. UNCHANGED <<nodes, edges, ends, spanning, change>>
  BY DEF tables
<1>2. UNCHANGED <<knownEdges, knownEnds>>
  BY <1>1, SameKnown
<1> QED BY <1>1, <1>2, TreeKept

\* Calls that are no search neither build a tree nor go on with one.
LEMMA NoSearchGoesOn ==
  ASSUME Detached = {}, GraphInv, TreeSpans,
         \/ AddNode \/ AddEdge \/ Clear
         \/ \E e \in Valid(edges) : RemoveEdge(e) \/ GetEdge(e)
         \/ \E e \in Valid(edges), n \in Valid(nodes) : SetSource(e, n) \/ SetTarget(e, n)
         \/ \E n \in Valid(nodes) : RemoveNode(n) \/ GetNode(n)
         \/ Told \/ RemoveIncident \/ TurnToOut \/ RemoveNodeRow
         \/ ClearEdge \/ ClearNode \/ Cleared
  PROVE  TreeSpans' /\ SearchSound'
<1> SUFFICES TreeSpans' /\ task'.op # "search"
  BY DEF SearchSound
<1>1. TaskOK /\ ChangeTold
  BY Parts
<1>2. CASE AddNode \/ AddEdge
  <2>1. spanning' = NoTree /\ task' = Idle
    BY <1>2 DEF AddNode, AddEdge, Ready
  <2> QED BY <2>1, TreeKept DEF Idle
<1>3. CASE Clear
  <2>1. UNCHANGED <<tables, spanning, change>> /\ task' = [op |-> "edges", node |-> -1, i |-> 0]
    BY <1>3 DEF Clear, Idle
  <2> QED BY <2>1, KnownKept
<1>4. ASSUME NEW e \in Valid(edges), RemoveEdge(e) \/ GetEdge(e)
      PROVE  TreeSpans' /\ task'.op # "search"
  <2>1. task' = Idle
    BY <1>4 DEF RemoveEdge, GetEdge, Ready
  <2>2. CASE RemoveEdge(e)
    BY <2>1, <2>2, TreeKept DEF RemoveEdge, DeleteEdge, Idle
  <2>3. CASE GetEdge(e)
    BY <2>1, <2>3, KnownKept DEF GetEdge, Idle
  <2> QED BY <1>4, <2>2, <2>3
<1>5. ASSUME NEW e \in Valid(edges), NEW n \in Valid(nodes), SetSource(e, n) \/ SetTarget(e, n)
      PROVE  TreeSpans' /\ task'.op # "search"
  <2>1. PICK st \in Valid(nodes) \X Valid(nodes) : SetEnds(e, st)
    BY <1>5, SetOneEnd
  <2>2. UNCHANGED <<nodes, edges, spanning, knownEnds, knownEdges, task>> /\ task.op = "idle"
    BY <2>1, SetEndsInv
  <2> QED BY <2>2, TreeKept
<1>6. ASSUME NEW n \in Valid(nodes), RemoveNode(n) \/ GetNode(n)
      PROVE  TreeSpans' /\ task'.op # "search"
  <2>1. UNCHANGED <<tables, spanning, change>> /\ task'.op # "search"
    BY <1>6 DEF RemoveNode, GetNode, OnlyTask, Ready, Idle
  <2> QED BY <2>1, KnownKept
<1>7. CASE Told
  <2>1. ASSUME NEW n \in Valid(nodes), AddSource(n) \/ AddTarget(n)
        PROVE  spanning' = NoTree /\ task' = Idle
    BY <2>1, WhileAdding DEF AddSource, AddTarget
  <2>2. CASE ColumnChanged
    <3>1. spanning' = NoTree /\ task' = task
      BY <2>2, ColumnChangedInv DEF ColumnChanged
    <3>2. task = Idle
      BY <1>1, <2>2 DEF ColumnChanged, ChangeTold, NoChange
    <3> QED BY <3>1, <3>2, TreeKept DEF Idle
  <2>3. CASE ReleaseEdge \/ ReleaseNode
    <3>1. spanning' = spanning /\ task' = task
      BY <2>3 DEF ReleaseEdge, ReleaseNode
    <3>2. spanning = NoTree /\ task.op # "search"
      BY <1>1, <2>3 DEF ReleaseEdge, ReleaseNode, ChangeTold, NoChange
    <3> QED BY <3>1, <3>2, TreeKept
  <2>4. CASE \E n \in Valid(nodes) : AddSource(n) \/ AddTarget(n)
    BY <2>1, <2>4, TreeKept DEF Idle
  <2> QED BY <1>7, <2>2, <2>3, <2>4 DEF Told
<1>8. CASE RemoveIncident
  <2>1. task' = [task EXCEPT !.i = @ - 1] /\ task.op \in {"in", "out"}
    BY <1>8 DEF RemoveIncident
  <2>2. task'.op # "search"
    BY <1>1, <2>1 DEF TaskOK
  <2>3. spanning' = NoTree \/ UNCHANGED <<tables, spanning, change>>
    BY <1>8 DEF RemoveIncident, DeleteEdge, OnlyTask
  <2> QED BY <2>2, <2>3, TreeKept, KnownKept
<1>9. CASE TurnToOut \/ Cleared
  <2>1. UNCHANGED <<tables, spanning, change>>
    BY <1>9 DEF TurnToOut, Cleared, OnlyTask
  <2>2. CASE TurnToOut
    <3>1. task'.op = "out"
      BY <1>1, <2>2 DEF TurnToOut, TaskOK
    <3> QED BY <2>1, <3>1, KnownKept
  <2>3. CASE Cleared
    <3>1. task' = Idle
      BY <2>3 DEF Cleared
    <3> QED BY <2>1, <3>1, KnownKept DEF Idle
  <2> QED BY <1>9, <2>2, <2>3
<1>10. CASE RemoveNodeRow \/ ClearEdge \/ ClearNode
  <2>1. spanning' = NoTree /\ task'.op # "search"
    BY <1>10 DEF RemoveNodeRow, ClearEdge, ClearNode, DeleteEdge, DeleteNode, Idle
  <2> QED BY <2>1, TreeKept
<1> QED BY <1>2, <1>3, <1>4, <1>5, <1>6, <1>7, <1>8, <1>9, <1>10

LEMMA GetSpanningTreeSpans ==
  ASSUME GraphInv, TreeSpans, NEW root \in Valid(nodes), GetSpanningTree(root)
  PROVE  TreeSpans' /\ SearchSound'
<1>1. UNCHANGED <<tables, spanning, change>> /\ task.op = "idle"
  BY DEF GetSpanningTree, Ready, Idle
<1>2. CASE UNCHANGED task
  BY <1>1, <1>2, KnownKept DEF SearchSound
<1>3. CASE /\ task' = [op |-> "search", node |-> root, i |-> 0]
           /\ search' = [queue |-> <<root>>, reached |-> {root}]
  <2>1. task'.node = root /\ search'.reached = {root} /\ search'.queue = <<root>>
    BY <1>3
  <2>2. ToSet(<<root>>) = {root}
    BY DEF ToSet
  <2>3. 1 .. task'.i = {}
    BY <1>3
  <2>4. SearchSound'
    BY <2>1, <2>2, <2>3 DEF SearchSound
  <2> QED BY <1>1, <2>4, KnownKept
<1> QED BY <1>2, <1>3 DEF GetSpanningTree

\* What does not change while a search goes on
LEMMA SearchFrame ==
  ASSUME GraphInv, task.op = "search", UNCHANGED <<tables, adjacency, change>>
  PROVE  /\ knownEdges = Valid(edges) /\ knownEnds = ends
         /\ UNCHANGED <<nodes, edges, ends, links, knownEdges, knownEnds>>
         /\ \A n : EdgesOf(n)' = EdgesOf(n)
         /\ \A e, n : AdjacentNode(e, n)' = AdjacentNode(e, n)
<1>1. UNCHANGED <<nodes, edges, ends, links, change>>
  BY DEF tables, adjacency
<1>2. change = NoChange /\ Sound
  BY WhileSearching
<1>3. UNCHANGED <<knownEdges, knownEnds>>
  BY <1>1, SameKnown
<1>4. /\ \A n : EdgesOf(n)' = EdgesOf(n)
      /\ \A e, n : AdjacentNode(e, n)' = AdjacentNode(e, n)
  BY <1>1 DEF EdgesOf, AdjacentNode
<1> QED BY <1>1, <1>2, <1>3, <1>4, Settled

LEMMA SearchEdgeSpans ==
  ASSUME GraphInv, TreeSpans, SearchSound, SearchEdge
  PROVE  TreeSpans' /\ SearchSound'
<1> DEFINE p == Head(search.queue)  e == EdgesOf(p)[task.i + 1]  n == AdjacentNode(e, p)
<1>1. /\ task.op = "search" /\ search.queue # <<>> /\ task.i < Len(EdgesOf(p))
      /\ search' = IF n \in search.reached THEN search
                   ELSE [queue |-> Append(search.queue, n),
                         reached |-> search.reached \cup {n}]
      /\ task' = [task EXCEPT !.i = @ + 1]
      /\ UNCHANGED <<tables, spanning, change>> /\ UNCHANGED <<tables, adjacency, change>>
  BY DEF SearchEdge
<1>2. /\ task = [op |-> "search", node |-> task.node, i |-> task.i]
      /\ search.reached \subseteq Valid(nodes) /\ Valid(nodes) \subseteq NodeRows
      /\ search.queue \in Seq(NodeRows)
      /\ task.i \in 0 .. 2 * MaxEdges /\ p \in search.reached
      /\ e \in Valid(edges) /\ n \in Valid(nodes)
      /\ {ends[e][1], ends[e][2]} = {p, n}
  BY <1>1, WhileSearching DEF Sound
<1>3. /\ knownEdges = Valid(edges) /\ knownEnds = ends
      /\ UNCHANGED <<nodes, edges, ends, links, knownEdges, knownEnds>>
      /\ \A m : EdgesOf(m)' = EdgesOf(m)
      /\ \A d, m : AdjacentNode(d, m)' = AdjacentNode(d, m)
  BY <1>1, SearchFrame
<1>4. task'.node = task.node /\ task'.i = task.i + 1
  BY <1>1, <1>2
<1>5. /\ search'.reached = search.reached \cup {n}
      /\ search'.queue # <<>> /\ Head(search'.queue) = p
      /\ search'.reached \ ToSet(search'.queue) = search.reached \ ToSet(search.queue)
  <2>1. n \in NodeRows
    BY <1>2
  <2>2. CASE n \in search.reached
    BY <1>1, <2>2
  <2>3. CASE n \notin search.reached
    <3>1. search'.queue = Append(search.queue, n) /\ search'.reached = search.reached \cup {n}
      BY <1>1, <2>3
    <3>2. /\ ToSet(search'.queue) = ToSet(search.queue) \cup {n}
          /\ search'.queue # <<>> /\ Head(search'.queue) = p
      <4>1. search.queue \in Seq(NodeRows) /\ search.queue # <<>> /\ Head(search.queue) = p
        BY <1>1, <1>2
      <4>2. /\ ToSet(Append(search.queue, n)) = ToSet(search.queue) \cup {n}
            /\ Append(search.queue, n) # <<>>
            /\ Head(Append(search.queue, n)) = Head(search.queue)
        BY <2>1, <4>1, QueueFacts
      <4> HIDE DEF p, n
      <4> QED BY <3>1, <4>1, <4>2
    <3> QED BY <2>3, <3>1, <3>2
  <2> QED BY <2>2, <2>3
<1>6. ASSUME NEW T \in SUBSET Valid(nodes'), task'.node \in T, Bounded(T)'
      PROVE  search'.reached \subseteq T
  <2>1. Bounded(T) /\ T \in SUBSET Valid(nodes)
    BY <1>3, <1>6 DEF Bounded
  <2>2. search.reached \subseteq T
    BY <1>1, <1>4, <1>6, <2>1 DEF SearchSound
  <2>3. ends[e][1] \in T <=> ends[e][2] \in T
    BY <1>2, <1>3, <2>1 DEF Bounded
  <2> HIDE DEF p, e, n
  <2>4. p \in T /\ {ends[e][1], ends[e][2]} = {p, n}
    BY <1>2, <2>2
  <2>5. \E a \in {ends[e][1], ends[e][2]} : a \in T
    BY <2>4
  <2>6. \A a \in {ends[e][1], ends[e][2]} : a \in T
    BY <2>3, <2>5
  <2>7. n \in T
    BY <2>4, <2>6
  <2> QED BY <1>5, <2>2, <2>7
<1>7. ASSUME NEW m \in search'.reached \ ToSet(search'.queue) PROVE Behind(m)'
  <2>1. Behind(m)
    BY <1>1, <1>5, <1>7 DEF SearchSound
  <2> HIDE DEF n
  <2> QED BY <1>3, <1>5, <2>1 DEF Behind
<1>8. ASSUME NEW j \in 1 .. task'.i
      PROVE  AdjacentNode(EdgesOf(p)[j], p) \in search'.reached
  <2>1. CASE j = task.i + 1
    BY <1>5, <2>1
  <2>2. CASE j # task.i + 1
    <3>1. j \in 1 .. task.i
      BY <1>2, <1>4, <2>2
    <3>2. AdjacentNode(EdgesOf(p)[j], p) \in search.reached
      BY <1>1, <3>1 DEF SearchSound
    <3> QED BY <1>5, <3>2
  <2> QED BY <2>1, <2>2
<1> HIDE DEF p, e, n
<1>9. SearchSound'
  BY <1>3, <1>5, <1>6, <1>7, <1>8 DEF SearchSound
<1> QED BY <1>1, <1>9, KnownKept

LEMMA NextInQueueSpans ==
  ASSUME GraphInv, TreeSpans, SearchSound, NextInQueue
  PROVE  TreeSpans' /\ SearchSound'
<1> DEFINE p == Head(search.queue)
<1>1. /\ task.op = "search" /\ search.queue # <<>> /\ task.i = Len(EdgesOf(p))
      /\ search' = [search EXCEPT !.queue = Tail(@)]
      /\ task' = [task EXCEPT !.i = 0]
      /\ UNCHANGED <<tables, spanning, change>> /\ UNCHANGED <<tables, adjacency, change>>
  BY DEF NextInQueue
<1>2. /\ Sound /\ task = [op |-> "search", node |-> task.node, i |-> task.i]
      /\ search = [queue |-> search.queue, reached |-> search.reached]
      /\ search.reached \subseteq Valid(nodes)
      /\ search.queue \in Seq(NodeRows) /\ p \in search.reached
  BY <1>1, WhileSearching
<1>3. /\ knownEdges = Valid(edges) /\ knownEnds = ends
      /\ UNCHANGED <<nodes, edges, ends, links, knownEdges, knownEnds>>
  BY <1>1, SearchFrame
<1>4. /\ task'.node = task.node /\ 1 .. task'.i = {}
      /\ search'.queue = Tail(search.queue) /\ search'.reached = search.reached
      /\ ToSet(search.queue) = {p} \cup ToSet(search'.queue)
  BY <1>1, <1>2, QueueFacts
<1>5. Behind(p)
  <2>1. p \in Valid(nodes)
    BY <1>2
  <2> HIDE DEF p
  <2> SUFFICES ASSUME NEW e \in Valid(edges), ends[e][1] = p \/ ends[e][2] = p
               PROVE  {ends[e][1], ends[e][2]} \subseteq search.reached
    BY DEF Behind
  <2>2. PICK i \in 1 .. Len(EdgesOf(p)) : EdgesOf(p)[i] = e
    BY <1>2, <2>1, EdgesOfNode
  <2>3. AdjacentNode(e, p) \in search.reached
    BY <1>1, <2>2 DEF SearchSound, p
  <2>4. {ends[e][1], ends[e][2]} = {p, AdjacentNode(e, p)}
    BY <1>2, OtherEnd
  <2> QED BY <1>2, <2>3, <2>4
<1> HIDE DEF p
<1>6. ASSUME NEW m \in search'.reached \ ToSet(search'.queue) PROVE Behind(m)'
  <2>1. Behind(m)
    BY <1>1, <1>4, <1>5, <1>6 DEF SearchSound
  <2> QED BY <1>3, <1>4, <2>1 DEF Behind
<1>7. ASSUME NEW T \in SUBSET Valid(nodes'), task'.node \in T, Bounded(T)'
      PROVE  search'.reached \subseteq T
  <2>1. Bounded(T) /\ T \in SUBSET Valid(nodes)
    BY <1>3, <1>7 DEF Bounded
  <2> QED BY <1>1, <1>4, <1>7, <2>1 DEF SearchSound
<1>8. SearchSound'
  BY <1>4, <1>6, <1>7 DEF SearchSound
<1> QED BY <1>1, <1>8, KnownKept

\* When the queue is empty no edge leaves what was reached.
LEMMA SearchEndsSpans ==
  ASSUME GraphInv, TreeSpans, SearchSound, SearchEnds
  PROVE  TreeSpans' /\ SearchSound'
<1> DEFINE S == search.reached
<1>1. /\ task.op = "search" /\ search.queue = <<>>
      /\ spanning' = [root |-> task.node, reached |-> S, whole |-> TRUE]
      /\ task' = Idle /\ UNCHANGED <<tables, adjacency, change>>
  BY DEF SearchEnds, EndSearch
<1>2. Sound /\ task.node \in S /\ S \subseteq Valid(nodes)
  BY <1>1, WhileSearching
<1>3. /\ knownEdges = Valid(edges) /\ knownEnds = ends
      /\ UNCHANGED <<nodes, knownEdges, knownEnds>>
  BY <1>1, SearchFrame
<1>4. ToSet(search.queue) = {}
  BY <1>1 DEF ToSet
<1>5. \A n \in S : Behind(n)
  BY <1>1, <1>4 DEF SearchSound
<1>6. Bounded(S)
  <2> SUFFICES ASSUME NEW e \in Valid(edges) PROVE ends[e][1] \in S <=> ends[e][2] \in S
    BY <1>3 DEF Bounded
  <2> QED BY <1>5 DEF Behind
<1>7. \A T \in SUBSET S : task.node \in T /\ Bounded(T) => T = S
  <2>1. \A T \in SUBSET S : T \in SUBSET Valid(nodes)
    BY <1>2
  <2> QED BY <1>1, <2>1 DEF SearchSound
<1> HIDE DEF S
<1>8. Spans(task.node, S)
  BY <1>2, <1>6, <1>7 DEF Spans
<1>9. spanning'.root = task.node /\ spanning'.reached = S
  BY <1>1
<1>10. TreeSpans'
  BY <1>3, <1>8, <1>9 DEF TreeSpans, Spans, Bounded
<1> QED BY <1>1, <1>10 DEF SearchSound, Idle

\* A search that fails leaves no tree, or one that is not whole.
LEMMA SearchFailsSpans ==
  ASSUME SearchFails
  PROVE  TreeSpans' /\ SearchSound'
<1>1. /\ task' = Idle
      /\ spanning' = NoTree \/ spanning'.whole = FALSE
  BY DEF SearchFails, EndSearch
<1> QED BY <1>1 DEF TreeSpans, SearchSound, Idle

LEMMA TreeStep ==
  ASSUME Detached = {}, GraphInv, TreeSpans, SearchSound, [GraphNext]_graphVars
  PROVE  TreeSpans' /\ SearchSound'
<1>1. CASE SearchEdge \/ SearchFails \/ NextInQueue \/ SearchEnds
  BY <1>1, SearchEdgeSpans, SearchFailsSpans, NextInQueueSpans, SearchEndsSpans
<1>2. CASE \E n \in Valid(nodes) : GetSpanningTree(n)
  BY <1>2, GetSpanningTreeSpans
<1>3. CASE UNCHANGED graphVars
  <2>1. /\ UNCHANGED <<tables, spanning, change>> /\ UNCHANGED <<tables, adjacency, change>>
        /\ UNCHANGED <<nodes, edges, ends, task, search>>
    BY <1>3 DEF graphVars, tables, adjacency
  <2>2. TreeSpans'
    BY <2>1, KnownKept
  <2>3. CASE task.op = "search"
    <3>1. /\ UNCHANGED <<nodes, edges, ends, links, knownEdges, knownEnds>>
          /\ \A n : EdgesOf(n)' = EdgesOf(n)
          /\ \A e, n : AdjacentNode(e, n)' = AdjacentNode(e, n)
      BY <2>1, <2>3, SearchFrame
    <3>2. /\ \A T : Bounded(T)' <=> Bounded(T)
          /\ \A n : Behind(n)' <=> Behind(n)
      BY <2>1, <3>1 DEF Bounded, Behind
    <3> QED BY <2>1, <2>2, <3>1, <3>2 DEF SearchSound
  <2>4. CASE task.op # "search"
    BY <2>1, <2>2, <2>4 DEF SearchSound
  <2> QED BY <2>3, <2>4
<1>4. CASE GraphNext /\ ~ (SearchEdge \/ SearchFails \/ NextInQueue \/ SearchEnds)
                     /\ ~ \E n \in Valid(nodes) : GetSpanningTree(n)
  <2>1. \/ AddNode \/ AddEdge \/ Clear
        \/ \E e \in Valid(edges) : RemoveEdge(e) \/ GetEdge(e)
        \/ \E e \in Valid(edges), n \in Valid(nodes) : SetSource(e, n) \/ SetTarget(e, n)
        \/ \E n \in Valid(nodes) : RemoveNode(n) \/ GetNode(n)
        \/ Told \/ RemoveIncident \/ TurnToOut \/ RemoveNodeRow
        \/ ClearEdge \/ ClearNode \/ Cleared
    <3>1. Valid(nodes) \cup Detached = Valid(nodes)
      OBVIOUS
    <3> QED BY <1>4, <3>1 DEF GraphNext, Call, GoOn
  <2> QED BY <2>1, NoSearchGoesOn
<1> QED BY <1>1, <1>2, <1>3, <1>4

\* The ends of the edges the graph knows are nodes.
LEMMA KnownEnds ==
  ASSUME GraphInv, NEW e \in knownEdges
  PROVE  knownEnds[e][1] \in Valid(nodes) /\ knownEnds[e][2] \in Valid(nodes)
<1>1. TablesOK /\ ChangeTold /\ e \in Valid(edges) /\ e \in EdgeRows /\ IsAttached(knownEnds[e])
  BY Parts DEF knownEdges, TablesOK
<1>2. CASE change.op = "update" /\ e = change.row
  <2>1. knownEnds[e] = change.old /\ change.old \in Valid(nodes) \X (Valid(nodes) \cup {-1})
    BY <1>1, <1>2 DEF knownEnds, TablesOK, ChangeTold, NoChange
  <2> QED BY <1>1, <2>1 DEF IsAttached
<1>3. CASE ~ (change.op = "update" /\ e = change.row)
  <2>1. knownEnds[e] = ends[e]
    BY <1>1, <1>3 DEF knownEnds, TablesOK
  <2>2. ~ HalfMade(e)
    <3> SUFFICES ASSUME HalfMade(e) PROVE ~ IsAttached(ends[e])
      BY <1>1, <2>1
    <3>1. change.op \in {"insert", "source"} /\ e = change.row
      BY DEF HalfMade
    <3> QED BY <3>1, WhileAdding
  <2>3. ends[e] \in Valid(knownRows) \X Valid(knownRows)
    BY <1>1, <2>2 DEF TablesOK, EndsLive
  <2> QED BY <2>1, <2>3, KnownFacts
<1> QED BY <1>2, <1>3

\* What is reached in as many rounds as there may be nodes, each of which adds
\* the other ends of all edges, is what the tree spans: a round adds a node or
\* no later one does.
LEMMA FreshIfSpans ==
  ASSUME GraphInv, Spans(spanning.root, spanning.reached)
  PROVE  SpanningFresh
<1> DEFINE V == Valid(nodes)
           root == spanning.root
           S == spanning.reached
           Grow(T) == T \cup {n \in V : \E e \in knownEdges :
                        \E i \in 1..2 : knownEnds[e][i] = n /\ knownEnds[e][3 - i] \in T}
           Eq(g) == g = [k \in Nat |-> IF k = 0 THEN {root} ELSE Grow(g[k - 1])]
           grown == CHOOSE g : Eq(g)
<1>1. TablesOK /\ Spans(root, S) /\ root \in V /\ S \in SUBSET V
  BY Parts DEF Spans
<1>2. S = grown[MaxNodes] => SpanningFresh
  BY DEF SpanningFresh
<1> HIDE DEF root, S
<1>3. ASSUME NEW T \in SUBSET V PROVE Grow(T) \in SUBSET V /\ T \subseteq Grow(T)
  OBVIOUS
<1>4. \A e \in knownEdges : knownEnds[e][1] \in V /\ knownEnds[e][2] \in V
  BY KnownEnds
<1>5. ASSUME NEW T \in SUBSET V
      PROVE  /\ Bounded(T) <=> Grow(T) = T
             /\ \A U \in SUBSET V : T \subseteq U /\ Bounded(U) => Grow(T) \subseteq U
  <2>1. \A n \in V : n \in Grow(T) <=>
           \/ n \in T
           \/ \E e \in knownEdges : \/ knownEnds[e][1] = n /\ knownEnds[e][2] \in T
                                    \/ knownEnds[e][2] = n /\ knownEnds[e][1] \in T
    <3>1. \A e, n : (\E i \in 1..2 : knownEnds[e][i] = n /\ knownEnds[e][3 - i] \in T) <=>
                       \/ knownEnds[e][1] = n /\ knownEnds[e][2] \in T
                       \/ knownEnds[e][2] = n /\ knownEnds[e][1] \in T
      <4>1. 1..2 = {1, 2} /\ 3 - 1 = 2 /\ 3 - 2 = 1
        OBVIOUS
      <4> QED BY <4>1
    <3> QED BY <3>1
  <2>2. Grow(T) \in SUBSET V /\ T \subseteq Grow(T)
    BY <1>3
  <2> HIDE DEF Grow
  <2> QED BY <1>4, <2>1, <2>2 DEF Bounded
<1> HIDE DEF Grow
<1>6. PICK h \in [Nat -> SUBSET V] :
         h[0] = {root} /\ \A k \in Nat \ {0} : h[k] = Grow(h[k - 1])
  <2> DEFINE step == [T \in SUBSET V |-> Grow(T)]
  <2>1. step \in [SUBSET V -> SUBSET V] /\ {root} \in SUBSET V
    BY <1>1, <1>3
  <2>2. \A T \in SUBSET V : step[T] = Grow(T)
    OBVIOUS
  <2> DEFINE W == SUBSET V
             first == {root}
  <2>3. PICK h \in [Nat -> W] :
           h[0] = first /\ \A k \in Nat \ {0} : h[k] = step[h[k - 1]]
    <3>1. first \in W /\ step \in [W -> W]
      BY <2>1
    <3> HIDE DEF step, W, first
    <3> QED BY <3>1, RecursionOnNat
  <2> HIDE DEF step
  <2>4. \A k \in Nat \ {0} : k - 1 \in Nat
    OBVIOUS
  <2> QED BY <2>2, <2>3, <2>4
<1>7. Eq(grown)
  <2>1. Eq(h)
    BY <1>6
  <2> HIDE DEF Eq
  <2> QED BY <2>1
<1> HIDE DEF grown
<1>8. grown[0] = {root} /\ \A k \in Nat \ {0} : grown[k] = Grow(grown[k - 1])
  BY <1>7
<1>9. MaxNodes \in Nat /\ IsFiniteSet(V) /\ Cardinality(V) <= MaxNodes
  <2>1. MaxNodes \in Nat /\ V \subseteq 0 .. MaxNodes - 1 /\ 0 .. MaxNodes - 1 = NodeRows
    BY <1>1, GraphAssumption DEF TablesOK, NodeRows
  <2>2. IsFiniteSet(0 .. MaxNodes - 1) /\ Cardinality(0 .. MaxNodes - 1) = MaxNodes
    BY <2>1, FS_Interval
  <2> QED BY <2>1, <2>2, FS_Subset
<1> HIDE DEF V
<1> DEFINE P == {k \in Nat : /\ grown[k] \in SUBSET S /\ root \in grown[k]
                             /\ Bounded(grown[k]) \/ Cardinality(grown[k]) > k}
<1>10. 0 \in P
  <2>1. Cardinality({root}) = 1
    BY FS_Singleton
  <2>2. 0 \in Nat /\ 1 > 0
    OBVIOUS
  <2>3. grown[0] = {root} /\ {root} \in SUBSET S /\ root \in {root}
    BY <1>1, <1>8 DEF Spans
  <2>4. Cardinality(grown[0]) > 0
    BY <2>1, <2>2, <2>3
  <2>5. grown[0] \in SUBSET S /\ root \in grown[0]
    BY <2>3
  <2> QED BY <2>2, <2>4, <2>5
<1>11. ASSUME NEW k \in 1 .. MaxNodes, k - 1 \in P PROVE k \in P
  <2> DEFINE T == grown[k - 1]
             U == grown[k]
  <2>1. T \in SUBSET S /\ root \in T /\ (Bounded(T) \/ Cardinality(T) > k - 1)
    BY <1>11
  <2>2. k \in Nat \ {0} /\ U = Grow(T)
    BY <1>8, <1>9
  <2> HIDE DEF T, U
  <2>3. T \in SUBSET V /\ T \subseteq U /\ U \in SUBSET V /\ Bounded(S)
    BY <1>1, <1>3, <2>1, <2>2 DEF Spans
  <2>4. U \in SUBSET S
    BY <1>1, <1>5, <2>1, <2>2, <2>3
  <2>5. CASE Bounded(T)
    <3>1. U = T
      BY <1>5, <2>2, <2>3, <2>5
    <3> QED BY <2>1, <2>2, <2>5, <3>1 DEF U
  <2>6. CASE ~ Bounded(T)
    <3>1. U # T
      BY <1>5, <2>2, <2>3, <2>6
    <3>2. IsFiniteSet(U) /\ IsFiniteSet(T)
      BY <1>9, <2>3, FS_Subset
    <3>3. Cardinality(T) <= Cardinality(U) /\ Cardinality(U) # Cardinality(T)
      <4>1. T \in SUBSET U
        BY <2>3
      <4> QED BY <3>1, <3>2, <4>1, FS_Subset
    <3>4. Cardinality(T) \in Nat /\ Cardinality(U) \in Nat
      BY <3>2, FS_CardinalityType
    <3>5. Cardinality(U) > k
      BY <2>1, <2>2, <2>6, <3>3, <3>4
    <3> QED BY <2>1, <2>2, <2>3, <2>4, <3>5 DEF U
  <2> QED BY <2>5, <2>6
<1> HIDE DEF P
<1>12. MaxNodes \in P
  <2>1. \A k \in 0 .. MaxNodes : k \in P
    BY <1>9, <1>10, <1>11, UpTo
  <2> QED BY <1>9, <2>1
<1>13. Bounded(grown[MaxNodes])
  <2> DEFINE T == grown[MaxNodes]
  <2>1. T \in SUBSET V /\ (Bounded(T) \/ Cardinality(T) > MaxNodes)
    BY <1>1, <1>12 DEF P
  <2> HIDE DEF T
  <2>2. Cardinality(T) <= Cardinality(V) /\ IsFiniteSet(T)
    BY <1>9, <2>1, FS_Subset
  <2>3. Cardinality(T) \in Nat /\ Cardinality(V) \in Nat
    BY <1>9, <2>2, FS_CardinalityType
  <2>4. Bounded(T)
    BY <1>9, <2>1, <2>2, <2>3
  <2> QED BY <2>4 DEF T
<1> QED BY <1>1, <1>2, <1>12, <1>13 DEF P, Spans

LEMMA FreshFromSpans == GraphInv /\ TreeSpans => SpanningFresh
<1>1. ~ (spanning # NoTree /\ spanning.whole) => SpanningFresh
  BY DEF SpanningFresh
<1> QED BY <1>1, FreshIfSpans DEF TreeSpans

\* A spanning tree that was built to the end and is kept spans what is connected
\* to its root now, at every moment of every use of a graph whose edges have
\* ends; "now" is the graph as it knows itself when it tells of a change.
THEOREM TreeFresh ==
  ASSUME Detached = {}
  PROVE  GraphSpec => []SpanningFresh
<1>1. GraphInit => TreeSpans /\ SearchSound
  BY DEF GraphInit, TreeSpans, SearchSound, Idle
<1>2. GraphInv /\ TreeSpans /\ SearchSound /\ [GraphNext]_graphVars
        => TreeSpans' /\ SearchSound'
  BY TreeStep
<1> QED BY GraphSafe, <1>1, <1>2, FreshFromSpans, PTL DEF GraphSpec

----------------------------------------------------------------------------
(* The multigraph.                                                         *)

LEMMA RefinementInit == GraphInit => M!Init
<1> SUFFICES ASSUME GraphInit PROVE M!Init
  OBVIOUS
<1>1. change = NoChange /\ Sound
  BY InitialInv, SoundParts DEF GraphInit
<1>2. /\ Valid(nodes) \in SUBSET (0 .. MaxNodes + MaxEdges)
      /\ Valid(edges) \in SUBSET (0 .. MaxNodes + MaxEdges)
  BY <1>1, GraphAssumption DEF Sound, NodeRows, EdgeRows
<1>3. edgeEnds \in [Valid(edges) -> Valid(nodes) \X Valid(nodes)]
  BY <1>1 DEF edgeEnds, Sound
<1> QED BY <1>2, <1>3 DEF M!Init

LEMMA SameGraph ==
  ASSUME UNCHANGED <<nodes, edges, ends>>
  PROVE  UNCHANGED multigraph
BY DEF multigraph, edgeEnds

\* Ids has room for the rows of both tables.
LEMMA RowsAreIds ==
  /\ NodeRows \subseteq 0 .. MaxNodes + MaxEdges
  /\ EdgeRows \subseteq 0 .. MaxNodes + MaxEdges
BY GraphAssumption DEF NodeRows, EdgeRows

\* The edges of the multigraph are the rows of the edge table.
LEMMA EdgesAreRows ==
  /\ DOMAIN edgeEnds = Valid(edges) /\ DOMAIN edgeEnds' = Valid(edges')
  /\ \A d \in Valid(edges) : edgeEnds[d] = ends[d]
  /\ \A d \in Valid(edges') : edgeEnds'[d] = ends'[d]
BY DEF edgeEnds

\* Unless an edge is being added, all edges have two nodes as their ends.
LEMMA AllSettled ==
  ASSUME GraphInv, change.op \notin {"insert", "source"}
  PROVE  M!Settled
<1>1. \A e \in Valid(edges) : ends[e] \in Valid(knownRows) \X Valid(knownRows)
  BY Parts DEF TablesOK, EndsLive, HalfMade
<1>2. \A e \in Valid(edges) : ends[e] \in Valid(nodes) \X Valid(nodes)
  BY <1>1, KnownFacts
<1> QED BY <1>2, EdgesAreRows DEF M!Settled

LEMMA AddNodeRefines ==
  ASSUME GraphInv, AddNode
  PROVE  M!AddNode
<1> DEFINE n == NewRow(nodes)
<1>1. change = NoChange /\ Sound
  BY AtRest, SoundParts DEF AddNode
<1>2. /\ Valid(nodes') = Valid(nodes) \cup {n} /\ n \notin Valid(nodes) /\ n \in NodeRows
      /\ UNCHANGED <<edges, ends>>
  BY <1>1, NewRowIsFree DEF AddNode, Sound
<1> HIDE DEF n
<1>3. edgeEnds' = edgeEnds
  BY <1>2 DEF edgeEnds
<1>4. n \in (0 .. MaxNodes + MaxEdges) \ Valid(nodes)
  BY <1>2, RowsAreIds
<1>5. M!Settled
  BY <1>1, AllSettled DEF NoChange
<1> QED BY <1>2, <1>3, <1>4, <1>5 DEF M!AddNode

LEMMA AddEdgeRefines ==
  ASSUME GraphInv, AddEdge
  PROVE  M!AddEdge
<1> DEFINE e == NewRow(edges)
<1>1. change = NoChange /\ Sound
  BY AtRest, SoundParts DEF AddEdge
<1>2. /\ Valid(edges') = Valid(edges) \cup {e} /\ e \notin Valid(edges) /\ e \in EdgeRows
      /\ ends[e] = NoEnds /\ nodes' = nodes /\ ends' = ends
  BY <1>1, NewRowIsFree DEF AddEdge, Sound
<1> HIDE DEF e
<1>3. edgeEnds'[e] = <<-1, -1>> /\ \A d \in Valid(edges) : edgeEnds'[d] = edgeEnds[d]
  BY <1>2, EdgesAreRows DEF NoEnds
<1>4. e \in (0 .. MaxNodes + MaxEdges) \ DOMAIN edgeEnds
  BY <1>2, EdgesAreRows, RowsAreIds
<1>5. M!Keeps(DOMAIN edgeEnds)
  BY <1>3, EdgesAreRows DEF M!Keeps
<1>6. M!Settled
  BY <1>1, AllSettled DEF NoChange
<1> QED BY <1>2, <1>3, <1>4, <1>5, <1>6, EdgesAreRows DEF M!AddEdge

\* The edge that is being added gets its ends one after the other.
LEMMA AttachRefines ==
  ASSUME GraphInv, NEW n \in Valid(nodes), AddSource(n) \/ AddTarget(n)
  PROVE  M!Attach
<1> DEFINE e == change.row
<1>1. change.op \in {"insert", "source"} /\ TablesOK
  BY Parts DEF AddSource, AddTarget
<1>2. /\ e \in Valid(edges) /\ e \in EdgeRows
      /\ ends[e] = IF change.op = "insert" THEN NoEnds ELSE <<ends[e][1], -1>>
      /\ change.op = "source" => ends[e][1] \in Valid(nodes)
  BY <1>1, WhileAdding
<1> HIDE DEF e
<1>3. /\ UNCHANGED <<nodes, edges>>
      /\ \/ ends[e] = <<-1, -1>> /\ ends' = [ends EXCEPT ![e] = <<n, -1>>]
         \/ ends[e] \in Valid(nodes) \X {-1} /\ ends' = [ends EXCEPT ![e] = <<ends[e][1], n>>]
  <2>1. CASE AddSource(n)
    BY <1>2, <2>1 DEF AddSource, NoEnds, e
  <2>2. CASE AddTarget(n)
    <3>1. change.op = "source" /\ ends' = [ends EXCEPT ![e] = <<ends[e][1], n>>]
          /\ UNCHANGED <<nodes, edges>>
      BY <2>2 DEF AddTarget, e
    <3>2. ends[e] = <<ends[e][1], -1>> /\ ends[e][1] \in Valid(nodes)
      BY <1>2, <3>1
    <3>3. ends[e] \in Valid(nodes) \X {-1}
      BY <3>2
    <3> QED BY <3>1, <3>3
  <2> QED BY <2>1, <2>2
<1>4. /\ \/ ends[e] = <<-1, -1>> /\ ends'[e] = <<n, -1>>
         \/ ends[e] \in Valid(nodes) \X {-1} /\ ends'[e] = <<ends[e][1], n>>
      /\ \A d \in Valid(edges) \ {e} : ends'[d] = ends[d]
  BY <1>1, <1>2, <1>3 DEF TablesOK
<1>5. M!Keeps(DOMAIN edgeEnds \ {e})
  BY <1>3, <1>4, EdgesAreRows DEF M!Keeps
<1>6. /\ e \in DOMAIN edgeEnds /\ DOMAIN edgeEnds' = DOMAIN edgeEnds
      /\ edgeEnds[e] = ends[e] /\ edgeEnds'[e] = ends'[e] /\ Valid(nodes') = Valid(nodes)
  BY <1>2, <1>3, EdgesAreRows
<1> QED BY <1>4, <1>5, <1>6 DEF M!Attach

\* Moving one end of an edge to a node.
LEMMA SetEndsRefines ==
  ASSUME GraphInv, NEW e \in Valid(edges), NEW n \in Valid(nodes),
         SetSource(e, n) \/ SetTarget(e, n)
  PROVE  M!Redirect
<1>1. PICK st \in Valid(nodes) \X Valid(nodes) :
         SetEnds(e, st) /\ st \in {<<n, ends[e][2]>>, <<ends[e][1], n>>}
  BY SetOneEnd
<1>2. /\ change = NoChange /\ Sound
      /\ nodes' = nodes /\ edges' = edges /\ ends' = [ends EXCEPT ![e] = st]
  BY <1>1, AtRest, SoundParts DEF SetEnds
<1>3. edgeEnds'[e] = st /\ edgeEnds[e] = ends[e]
      /\ \A d \in Valid(edges) \ {e} : edgeEnds'[d] = edgeEnds[d]
  BY <1>2, EdgesAreRows DEF Sound
<1>4. M!Keeps(DOMAIN edgeEnds \ {e})
  BY <1>3, EdgesAreRows DEF M!Keeps
<1>5. DOMAIN edgeEnds' = DOMAIN edgeEnds /\ e \in DOMAIN edgeEnds /\ Valid(nodes') = Valid(nodes)
  BY <1>2, EdgesAreRows
<1>6. M!Settled
  BY <1>2, AllSettled DEF NoChange
<1> QED BY <1>1, <1>3, <1>4, <1>5, <1>6 DEF M!Redirect

LEMMA ReleaseEdgeRefines ==
  ASSUME GraphInv, ReleaseEdge
  PROVE  M!RemoveEdge
<1> DEFINE e == change.row
<1>1. /\ change.op = "edge" /\ nodes' = nodes /\ TablesOK
      /\ ends' = [ends EXCEPT ![e] = NoEnds]
      /\ e \in Valid(edges) /\ Valid(edges') = Valid(edges) \ {e}
  BY Parts, ReleaseEdgeInv DEF ReleaseEdge
<1> HIDE DEF e
<1>2. \A d \in Valid(edges') : edgeEnds'[d] = edgeEnds[d]
  BY <1>1, EdgesAreRows DEF TablesOK
<1>3. M!Keeps(DOMAIN edgeEnds')
  BY <1>2, EdgesAreRows DEF M!Keeps
<1>4. DOMAIN edgeEnds' = DOMAIN edgeEnds \ {e} /\ e \in DOMAIN edgeEnds /\ Valid(nodes') = Valid(nodes)
  BY <1>1, EdgesAreRows
<1>5. M!Settled
  BY <1>1, AllSettled
<1> QED BY <1>3, <1>4, <1>5 DEF M!RemoveEdge

LEMMA ReleaseNodeRefines ==
  ASSUME GraphInv, ReleaseNode
  PROVE  M!RemoveNode
<1> DEFINE n == change.row
<1>1. /\ change.op = "node" /\ UNCHANGED <<edges, ends>>
      /\ n \in Valid(nodes) /\ Valid(nodes') = Valid(nodes) \ {n}
      /\ \A e \in Valid(edges) : ends[e][1] # n /\ ends[e][2] # n
  BY ReleaseNodeInv DEF ReleaseNode
<1> HIDE DEF n
<1>2. edgeEnds' = edgeEnds
  BY <1>1 DEF edgeEnds
<1>3. \A e \in DOMAIN edgeEnds : n \notin {edgeEnds[e][1], edgeEnds[e][2]}
  BY <1>1, EdgesAreRows
<1>4. M!Settled
  BY <1>1, AllSettled
<1> QED BY <1>1, <1>2, <1>3, <1>4 DEF M!RemoveNode

\* Every step of the graph is one of a multigraph, or changes nothing there.
LEMMA RefinementStep ==
  ASSUME Detached = {}, GraphInv, [GraphNext]_graphVars
  PROVE  M!Next \/ UNCHANGED multigraph
<1>1. CASE AddNode \/ AddEdge
  BY <1>1, AddNodeRefines, AddEdgeRefines DEF M!Next
<1>2. CASE \E e \in Valid(edges), n \in Valid(nodes) \cup Detached :
             SetSource(e, n) \/ SetTarget(e, n)
  BY <1>2, SetEndsRefines DEF M!Next
<1>3. CASE \E e \in Valid(edges) : RemoveEdge(e) \/ GetEdge(e)
  BY <1>3, SameGraph DEF RemoveEdge, DeleteEdge, GetEdge, tables
<1>4. CASE \E n \in Valid(nodes) : RemoveNode(n) \/ GetNode(n) \/ GetSpanningTree(n)
  BY <1>4, SameGraph DEF RemoveNode, GetNode, GetSpanningTree, OnlyTask, tables
<1>5. CASE Told
  <2>1. CASE \E n \in Valid(nodes) : AddSource(n) \/ AddTarget(n)
    BY <2>1, AttachRefines DEF M!Next
  <2>2. CASE ColumnChanged
    BY <2>2, SameGraph DEF ColumnChanged, tables
  <2> QED BY <1>5, <2>1, <2>2, ReleaseEdgeRefines, ReleaseNodeRefines DEF Told, M!Next
<1>6. CASE RemoveIncident \/ TurnToOut \/ RemoveNodeRow \/ ClearEdge \/ ClearNode \/ Cleared
  BY <1>6, SameGraph DEF RemoveIncident, TurnToOut, RemoveNodeRow, ClearEdge, ClearNode,
     Cleared, DeleteEdge, DeleteNode, OnlyTask, tables
<1>7. CASE SearchEdge \/ SearchFails \/ NextInQueue \/ SearchEnds
  BY <1>7, SameGraph DEF SearchEdge, SearchFails, NextInQueue, SearchEnds, EndSearch, tables
<1>8. CASE Clear \/ UNCHANGED graphVars
  BY <1>8, SameGraph DEF Clear, graphVars, tables
<1> QED BY <1>1, <1>2, <1>3, <1>4, <1>5, <1>6, <1>7, <1>8 DEF GraphNext, Call, GoOn

\* The tables of a graph whose edges have ends are those of a multigraph, at
\* every moment a listener sees them: nothing ends in a node that is gone, no new
\* row takes an old one's place, each event adds, moves or removes one element,
\* and an edge that is added gets its two ends before anything else happens.
THEOREM GraphIsMultigraph ==
  ASSUME Detached = {}
  PROVE  GraphSpec => M!Spec
<1>1. GraphInv /\ [GraphNext]_graphVars => [M!Next]_multigraph
  BY RefinementStep
<1>2. GraphSpec => []GraphInv
  BY GraphSafe
<1> QED BY RefinementInit, <1>1, <1>2, PTL DEF GraphSpec, M!Spec, multigraph

----------------------------------------------------------------------------
(* The reader.                                                             *)

LEMMA EmptyGraphInv == EmptyGraph => GraphInv
<1> SUFFICES ASSUME EmptyGraph PROVE GraphInv
  OBVIOUS
<1>1. NoRows = Rows(0) /\ 0 \in Nat
  BY DEF Rows, NoRows
<1>2. /\ RowManagerOK(nodes) /\ Valid(nodes) = {}
      /\ RowManagerOK(edges) /\ Valid(edges) = {}
  <2>1. RowManagerOK(NoRows) /\ Valid(NoRows) = {}
    BY <1>1, RowsAreValid
  <2> QED BY <2>1 DEF EmptyGraph
<1>3. Linked(links, {}, ends)
  <2>1. Lists(<<>>, {})
    BY DEF Lists, ToSet, IsInjective
  <2> QED BY <2>1 DEF Linked, EmptyGraph, NoLinks
<1>4. Sound
  BY <1>2, <1>3 DEF EmptyGraph, Sound, AllLinks, NoLinks, Ends, NoEnds
<1>5. change = NoChange /\ task = Idle /\ search = NoSearch /\ task.op # "search"
  BY DEF EmptyGraph, Idle
<1>6. TuplesOK /\ TreeOK
  BY <1>5, Settled DEF EmptyGraph, TuplesOK, TuplesLive, TreeOK, NoTuples, NoTree
<1>7. TaskOK /\ SearchOK
  BY <1>5, Idling DEF IdlingSays
<1> QED BY <1>4, <1>5, <1>6, <1>7, Settled, Parts DEF ChangeTold

\* What ReaderInv says while the document is read.
ReadingOK ==
    /\ Len(srcId) = Len(trgId)
    /\ srcId \in Seq(NodeIds) /\ trgId \in Seq(NodeIds)
    /\ phase \in {"schema", "body"} =>
          /\ \E n \in 0..MaxNodes : m_nodes = Rows(n)
          /\ Len(srcId) <= MaxEdges /\ m_edges = Rows(Len(srcId))
          /\ \A id \in DOMAIN nodeMap : nodeMap[id] \in Valid(m_nodes)

LEMMA ReaderInitial == Init => ReaderInv
<1> SUFFICES ASSUME Init PROVE ReaderInv
  OBVIOUS
<1>1. EmptyGraph /\ GraphInv
  BY EmptyGraphInv DEF Init
<1>2. /\ srcId = <<>> /\ trgId = <<>> /\ nodeMap = Nothing
      /\ m_nodes = NoRows /\ m_edges = NoRows
  BY DEF Init
<1>3. NoRows = Rows(0) /\ 0 \in 0 .. MaxNodes /\ 0 <= MaxEdges
  BY GraphAssumption DEF Rows, NoRows
<1>4. Len(srcId) = 0 /\ srcId \in Seq(NodeIds) /\ trgId \in Seq(NodeIds) /\ Len(trgId) = 0
  BY <1>2
<1>5. DOMAIN nodeMap = {}
  BY <1>2 DEF Nothing
<1> QED BY <1>1, <1>2, <1>3, <1>4, <1>5 DEF ReaderInv

\* A step of the reader that makes no graph.
LEMMA OnlyReading ==
  ASSUME ReaderInv, UNCHANGED graphVars, phase' = "graph" <=> phase = "graph", ReadingOK'
  PROVE  ReaderInv'
<1>1. GraphInv'
  BY SameGraphInv DEF ReaderInv
<1>2. EmptyGraph => EmptyGraph'
  BY DEF EmptyGraph, graphVars
<1>3. phase' # "graph" => EmptyGraph'
  BY <1>2 DEF ReaderInv
<1> QED BY <1>1, <1>3 DEF ReaderInv, ReadingOK

LEMMA StartNodeInv ==
  ASSUME ReaderInv, NEW id \in NodeIds, StartNode(id)
  PROVE  ReaderInv'
<1> DEFINE r == NewRow(m_nodes)
<1>1. /\ ReadingOK /\ phase \in {"schema", "body"} /\ phase' = "body"
      /\ UNCHANGED <<srcId, trgId, m_edges>> /\ UNCHANGED graphVars
      /\ m_nodes' = AddRow(m_nodes) /\ r \in NodeRows
      /\ nodeMap' = Put(nodeMap, id, r)
  BY DEF ReaderInv, ReadingOK, StartNode, Reading
<1>2. PICK n \in 0 .. MaxNodes : m_nodes = Rows(n)
  BY <1>1 DEF ReadingOK
<1>3. /\ n \in Nat /\ r = n /\ m_nodes' = Rows(n + 1)
      /\ Valid(m_nodes) = 0 .. n - 1 /\ Valid(m_nodes') = 0 .. n
  <2>1. n \in Nat /\ n + 1 \in Nat
    BY GraphAssumption
  <2>2. r = n /\ AddRow(Rows(n)) = Rows(n + 1) /\ Valid(Rows(n)) = 0 .. n - 1
    BY <1>2, <2>1, RowsAreValid
  <2>3. Valid(Rows(n + 1)) = 0 .. n + 1 - 1 /\ n + 1 - 1 = n
    BY <2>1, RowsAreValid
  <2> QED BY <1>1, <1>2, <2>1, <2>2, <2>3
<1>4. n + 1 \in 0 .. MaxNodes
  BY <1>1, <1>3, GraphAssumption DEF NodeRows
<1>5. \A x \in DOMAIN nodeMap' : nodeMap'[x] \in Valid(m_nodes')
  <2>1. /\ DOMAIN nodeMap' = DOMAIN nodeMap \cup {id}
        /\ \A x \in DOMAIN nodeMap' : nodeMap'[x] = IF x = id THEN r ELSE nodeMap[x]
    BY <1>1 DEF Put
  <2> HIDE DEF r
  <2>2. \A x \in DOMAIN nodeMap : nodeMap[x] \in Valid(m_nodes)
    BY <1>1 DEF ReadingOK
  <2>3. r \in Valid(m_nodes') /\ Valid(m_nodes) \subseteq Valid(m_nodes')
    BY <1>3
  <2> QED BY <2>1, <2>2, <2>3
<1>6. ReadingOK'
  BY <1>1, <1>3, <1>4, <1>5 DEF ReadingOK
<1> QED BY <1>1, <1>6, OnlyReading

LEMMA StartEdgeInv ==
  ASSUME ReaderInv, NEW s \in NodeIds, NEW t \in NodeIds, StartEdge(s, t)
  PROVE  ReaderInv'
<1> DEFINE m == Len(srcId)
<1>1. /\ ReadingOK /\ phase \in {"schema", "body"} /\ phase' = "body"
      /\ UNCHANGED <<nodeMap, m_nodes>> /\ UNCHANGED graphVars
      /\ m_edges' = AddRow(m_edges) /\ NewRow(m_edges) \in EdgeRows
      /\ srcId' = Append(srcId, s) /\ trgId' = Append(trgId, t)
  BY DEF ReaderInv, ReadingOK, StartEdge, Reading
<1>2. /\ srcId' \in Seq(NodeIds) /\ trgId' \in Seq(NodeIds)
      /\ Len(srcId') = m + 1 /\ Len(trgId') = m + 1 /\ m \in Nat
  BY <1>1 DEF ReadingOK
<1>3. m_edges = Rows(m)
  BY <1>1 DEF ReadingOK
<1> HIDE DEF m
<1>4. m_edges' = Rows(m + 1) /\ NewRow(m_edges) = m
  BY <1>1, <1>2, <1>3, RowsAreValid
<1>5. m + 1 <= MaxEdges
  BY <1>1, <1>2, <1>4, GraphAssumption DEF EdgeRows
<1>6. ReadingOK'
  BY <1>1, <1>2, <1>4, <1>5 DEF ReadingOK
<1> QED BY <1>1, <1>6, OnlyReading

\* A step that leaves the rows and the ids alone.
LEMMA SameRows ==
  ASSUME ReaderInv, UNCHANGED graphVars, UNCHANGED <<srcId, trgId, nodeMap, m_nodes, m_edges>>,
         phase' = phase \/ (phase' = "refused" /\ phase # "graph")
  PROVE  ReaderInv'
<1>1. ReadingOK'
  BY DEF ReaderInv, ReadingOK
<1> QED BY <1>1, OnlyReading

\* The graph that is read is one of two tables no row was removed from.
LEMMA EndDocumentInit ==
  ASSUME ReaderInv, EndDocument, phase' = "graph"
  PROVE  GraphInit'
<1> DEFINE es == [e \in EdgeRows |-> IF e \in Valid(m_edges) THEN EndsOf(e) ELSE NoEnds]
           m == Len(srcId)
<1>1. /\ ReadingOK /\ phase \in {"schema", "body"} /\ EmptyGraph
      /\ ToSet(srcId) \cup ToSet(trgId) \subseteq DOMAIN nodeMap
      /\ nodes' = m_nodes /\ edges' = m_edges /\ ends' = es
      /\ linkRows' = m_nodes /\ links' = InitLinkTable(m_edges, es)
      /\ UNCHANGED <<nodeTuples, edgeTuples, spanning, task, change, search>>
  BY DEF EndDocument, Refuse, ReaderInv, ReadingOK, tuples
<1>2. PICK n \in 0 .. MaxNodes : m_nodes = Rows(n)
  BY <1>1 DEF ReadingOK
<1>3. /\ m \in Nat /\ m \in 0 .. MaxEdges /\ m_edges = Rows(m)
      /\ DOMAIN srcId = 1 .. m /\ DOMAIN trgId = 1 .. m
  BY <1>1, GraphAssumption DEF ReadingOK
<1> HIDE DEF m
<1>4. Valid(m_nodes) = 0 .. n - 1 /\ Valid(m_edges) = 0 .. m - 1
  <2>1. n \in Nat
    BY GraphAssumption
  <2> QED BY <1>2, <1>3, <2>1, RowsAreValid
<1>5. Valid(m_nodes) \subseteq NodeRows /\ Valid(m_edges) \subseteq EdgeRows
  BY <1>3, <1>4, GraphAssumption DEF NodeRows, EdgeRows
<1>6. ASSUME NEW e \in Valid(m_edges) PROVE EndsOf(e) \in Valid(m_nodes) \X Valid(m_nodes)
  <2>1. e + 1 \in 1 .. m
    BY <1>3, <1>4
  <2>2. srcId[e + 1] \in DOMAIN nodeMap /\ trgId[e + 1] \in DOMAIN nodeMap
    BY <1>1, <1>3, <2>1 DEF ToSet
  <2>3. nodeMap[srcId[e + 1]] \in Valid(m_nodes) /\ nodeMap[trgId[e + 1]] \in Valid(m_nodes)
    BY <1>1, <2>2 DEF ReadingOK
  <2> QED BY <2>3 DEF EndsOf
<1>7. es \in [EdgeRows -> (NodeRows \X NodeRows) \cup {NoEnds}]
  BY <1>5, <1>6
<1>8. ASSUME NEW e \in EdgeRows
      PROVE  IF e \in Valid(m_edges) THEN \A i \in 1 .. 2 : es[e][i] \in Valid(m_nodes)
                                     ELSE es[e] = NoEnds
  <2>1. CASE e \in Valid(m_edges)
    <3>1. es[e] = EndsOf(e)
      BY <2>1
    <3>2. es[e][1] \in Valid(m_nodes) /\ es[e][2] \in Valid(m_nodes)
      BY <1>6, <2>1, <3>1
    <3>3. \A i \in 1 .. 2 : i = 1 \/ i = 2
      OBVIOUS
    <3> HIDE DEF es
    <3> QED BY <2>1, <3>2, <3>3
  <2>2. CASE e \notin Valid(m_edges)
    BY <2>2
  <2> QED BY <2>1, <2>2
<1> HIDE DEF es
<1>9. nodes' \in {Rows(k) : k \in 0 .. MaxNodes} /\ edges' \in {Rows(k) : k \in 0 .. MaxEdges}
  BY <1>1, <1>2, <1>3
<1> QED BY <1>1, <1>7, <1>8, <1>9 DEF GraphInit, EmptyGraph

LEMMA EndDocumentInv ==
  ASSUME ReaderInv, EndDocument
  PROVE  ReaderInv'
<1>1. CASE phase' = "graph"
  <2>1. GraphInit'
    BY <1>1, EndDocumentInit
  <2>2. GraphInit' => GraphInv'
    BY InitialInv, PTL
  <2>3. ReadingOK'
    BY <1>1 DEF EndDocument, Refuse, ReaderInv, ReadingOK, columns
  <2> QED BY <1>1, <2>1, <2>2, <2>3 DEF ReaderInv, ReadingOK
<1>2. CASE phase' # "graph"
  <2>1. Refuse /\ phase # "graph"
    BY <1>2 DEF EndDocument
  <2>2. /\ UNCHANGED graphVars /\ UNCHANGED <<srcId, trgId, nodeMap, m_nodes, m_edges>>
        /\ phase' = "refused"
    BY <2>1 DEF Refuse, rows, columns
  <2> QED BY <2>1, <2>2, SameRows
<1> QED BY <1>1, <1>2

LEMMA ReadStep ==
  ASSUME ReaderInv, Read \/ Refused \/ UNCHANGED <<readerVars, graphVars>>
  PROVE  ReaderInv'
<1>1. ASSUME NEW k, NEW d, Key(k, d) PROVE ReaderInv'
  <2>1. /\ UNCHANGED graphVars /\ UNCHANGED <<srcId, trgId, nodeMap, m_nodes, m_edges>>
        /\ phase' = phase \/ (phase' = "refused" /\ phase # "graph")
    BY <1>1 DEF Key, Reading, Refuse, rows, columns
  <2> QED BY <2>1, SameRows
<1>2. ASSUME NEW k, NEW v, Data(k, v) PROVE ReaderInv'
  <2>1. /\ UNCHANGED graphVars /\ UNCHANGED <<srcId, trgId, nodeMap, m_nodes, m_edges>>
        /\ phase' = phase \/ (phase' = "refused" /\ phase # "graph")
    BY <1>2 DEF Data, Reading, Refuse, rows, columns
  <2> QED BY <2>1, SameRows
<1>3. CASE EndElement \/ Refused \/ UNCHANGED <<readerVars, graphVars>>
  <2>1. /\ UNCHANGED graphVars /\ UNCHANGED <<srcId, trgId, nodeMap, m_nodes, m_edges>>
        /\ phase' = phase \/ (phase' = "refused" /\ phase # "graph")
    BY <1>3 DEF EndElement, Refused, readerVars, rows, columns
  <2> QED BY <2>1, SameRows
<1>4. CASE Read
  BY <1>1, <1>2, <1>3, <1>4, StartNodeInv, StartEdgeInv, EndDocumentInv DEF Read
<1> QED BY <1>3, <1>4

LEMMA ReaderStep ==
  ASSUME Detached = {}, ReaderInv, [Next]_<<readerVars, graphVars>>
  PROVE  ReaderInv'
<1>1. CASE Edit
  <2>1. GraphInv' /\ phase' = "graph"
    BY <1>1, GraphStep DEF Edit, place, ReaderInv
  <2>2. srcId' = <<>> /\ trgId' = <<>>
    BY <1>1 DEF Edit
  <2>3. ReadingOK'
    BY <2>1, <2>2 DEF ReadingOK
  <2> QED BY <2>1, <2>3 DEF ReaderInv, ReadingOK
<1> QED BY <1>1, ReadStep DEF Next

\* From the first element of a file to the last edit: the graph a document makes
\* is sound, and stays it.
THEOREM ReaderSafe ==
  ASSUME Detached = {}
  PROVE  Spec => []ReaderInv
<1>1. ReaderInv /\ [Next]_<<readerVars, graphVars>> => ReaderInv'
  BY ReaderStep
<1> QED BY ReaderInitial, <1>1, PTL DEF Spec

\* The adjacency lists of the graph read are those of its edges, whatever is
\* added, moved or removed, also between two events of a removal.  While
\* listeners are told of a change they are those of the edges the graph knows
\* then: not yet with the edge or the end that is new, no more with a row that
\* is about to be released.
THEOREM LinksMatch ==
  ASSUME Detached = {}
  PROVE  Spec => []LinksMatchEdges
<1>1. ReaderInv => LinksMatchEdges
  BY LinksFromInv DEF ReaderInv
<1> QED BY ReaderSafe, <1>1, PTL

\* No node or edge object is kept of a row that is free or about to be.
THEOREM TuplesAreLive ==
  ASSUME Detached = {}
  PROVE  Spec => []TuplesLive
<1>1. ReaderInv => TuplesLive
  BY DEF ReaderInv, GraphInv
<1> QED BY ReaderSafe, <1>1, PTL

\* A spanning tree of the graph read that was built to the end spans what is
\* connected to its root now.
THEOREM ReadTreeFresh ==
  ASSUME Detached = {}
  PROVE  Spec => []SpanningFresh
<1> DEFINE TreeOfGraph == TreeSpans /\ SearchSound
<1>1. EmptyGraph => TreeOfGraph
  BY DEF EmptyGraph, TreeSpans, SearchSound, Idle
<1>2. Init => TreeOfGraph
  BY <1>1 DEF Init
<1>3. ASSUME ReaderInv, TreeOfGraph, [Next]_<<readerVars, graphVars>> PROVE TreeOfGraph'
  <2>1. CASE Edit
    BY <1>3, <2>1, TreeStep DEF Edit, ReaderInv
  <2>2. CASE Read
    <3>1. phase # "graph" /\ EmptyGraph
      BY <1>3, <2>2 DEF Read, Key, StartNode, StartEdge, Data, EndElement, EndDocument, Reading,
                        ReaderInv
    <3>2. spanning' = spanning /\ task' = task
      BY <2>2 DEF Read, Key, StartNode, StartEdge, Data, EndElement, EndDocument, Refuse, graphVars
    <3> QED BY <3>1, <3>2 DEF EmptyGraph, TreeSpans, SearchSound, Idle
  <2>3. CASE Refused \/ UNCHANGED <<readerVars, graphVars>>
    <3>1. UNCHANGED graphVars
      BY <2>3 DEF Refused
    <3> QED BY <1>3, <3>1, TreeStep DEF ReaderInv
  <2> QED BY <1>3, <2>1, <2>2, <2>3 DEF Next
<1>4. ReaderInv /\ TreeOfGraph => SpanningFresh
  BY FreshFromSpans DEF ReaderInv
<1>5. ReaderInv /\ TreeOfGraph /\ [Next]_<<readerVars, graphVars>> => TreeOfGraph'
  BY <1>3
<1> QED BY ReaderSafe, <1>2, <1>4, <1>5, PTL DEF Spec

\* A document is turned into a graph that GraphSpec may start from: whatever it
\* says, its edges end in rows of its nodes, in both directions of the lists.
THEOREM ReadIsInitial ==
  ASSUME Detached = {}
  PROVE  Spec => [][phase # "graph" /\ phase' = "graph" => GraphInit']_<<readerVars, graphVars>>
<1>1. ASSUME ReaderInv, [Next]_<<readerVars, graphVars>>, phase # "graph", phase' = "graph"
      PROVE  GraphInit'
  <2>1. CASE Read
    <3>1. EndDocument
      BY <1>1, <2>1 DEF Read, Key, StartNode, StartEdge, Data, EndElement, Refuse, Reading
    <3> QED BY <1>1, <3>1, EndDocumentInit
  <2>2. CASE Edit \/ Refused \/ UNCHANGED <<readerVars, graphVars>>
    BY <1>1, <2>2 DEF Edit, Refused, readerVars
  <2> QED BY <1>1, <2>1, <2>2 DEF Next
<1>2. ReaderInv /\ [Next]_<<readerVars, graphVars>>
        => [phase # "graph" /\ phase' = "graph" => GraphInit']_<<readerVars, graphVars>>
  BY <1>1
<1> QED BY ReaderSafe, <1>2, PTL DEF Spec

\* And the tables of the graph read are those of a multigraph, from that moment
\* on and whenever a listener is told of a change.
THEOREM ReadIsMultigraph ==
  ASSUME Detached = {}
  PROVE  Spec => IsMultigraph
<1> DEFINE A == IF phase = "graph" THEN M!Next ELSE phase' = "graph" => M!Init'
<1>1. ASSUME ReaderInv, [Next]_<<readerVars, graphVars>> PROVE A \/ UNCHANGED multigraph
  <2>1. CASE phase = "graph"
    <3>1. CASE Edit
      <4>1. M!Next \/ UNCHANGED multigraph
        BY <1>1, <3>1, RefinementStep DEF Edit, ReaderInv
      <4> QED BY <2>1, <4>1
    <3>2. CASE UNCHANGED graphVars
      BY <3>2, SameGraph DEF graphVars
    <3>3. ~ Read \/ UNCHANGED graphVars
      BY <2>1 DEF Read, Key, StartNode, StartEdge, Data, EndElement, EndDocument, Reading
    <3> QED BY <1>1, <3>1, <3>2, <3>3 DEF Next, Refused
  <2>2. CASE phase # "graph" /\ phase' = "graph"
    <3>1. Read
      BY <1>1, <2>2 DEF Next, Edit, Refused, readerVars
    <3>2. EndDocument
      BY <2>2, <3>1 DEF Read, Key, StartNode, StartEdge, Data, EndElement, Refuse, Reading
    <3>3. GraphInit'
      BY <1>1, <2>2, <3>2, EndDocumentInit
    <3>4. GraphInit' => M!Init'
      BY RefinementInit, PTL
    <3> QED BY <2>2, <3>3, <3>4
  <2>3. CASE phase # "graph" /\ phase' # "graph"
    BY <2>3
  <2> QED BY <2>1, <2>2, <2>3
<1>2. ReaderInv /\ [Next]_<<readerVars, graphVars>> => [A]_multigraph
  BY <1>1
<1>3. Spec => [][A]_multigraph
  BY ReaderSafe, <1>2, PTL DEF Spec
<1> QED BY <1>3 DEF IsMultigraph

----------------------------------------------------------------------------
(* The document.                                                           *)

\* The elements of a file, but for its end.
Elements ==
    [tag : {"key"}, key : Keys, text : Texts \cup {NoText}]
    \cup [tag : {"node"}, id : NodeIds]
    \cup [tag : {"edge"}, source : NodeIds, target : NodeIds]
    \cup [tag : {"data"}, key : {k.id : k \in Keys}, text : Texts, inside : BOOLEAN]
Count(tag) == Cardinality(Tagged({tag}))

\* The elements read have no fault, and the schema ends with the first of the
\* body.
DocOK ==
    /\ doc \in Seq(Elements)
    /\ KeyFaults = {} /\ DataFaults = {}
    /\ phase = "schema" <=> Body = {}
    /\ \A i \in Tagged({"data"}) : Owner(i) \in Body /\ Owner(i) < i

\* There is a column for each key and table, with its default, and an id means
\* the last key that has it.
SchemaOK ==
    /\ \A t \in {"node", "edge"} :
          /\ \A x : x \in DOMAIN Schema(t) <=>
                \E k \in KeyElements : t \in Tables(doc[k].key) /\ doc[k].key.name = x
          /\ \A k \in KeyElements :
                t \in Tables(doc[k].key) => Schema(t)[doc[k].key.name] = doc[k].text
    /\ \A k \in KeyElements : doc[k].key.id \in DOMAIN idMap
    /\ \A id \in DOMAIN idMap : \E k \in KeyElements :
          /\ doc[k].key.id = id /\ idMap[id] = doc[k].key.name
          /\ \A j \in KeyElements : doc[j].key.id = id => j <= k

\* Elements of one kind have the rows from 0 on, one each.
NumberedOK ==
    \A t \in {"node", "edge"} :
        /\ \A i \in Tagged({t}) : Row(i) \in 0..Count(t) - 1
        /\ \A i, j \in Tagged({t}) : Row(i) = Row(j) => i = j
        /\ \A r \in 0..Count(t) - 1 : \E i \in Tagged({t}) : Row(i) = r

\* The tables have these rows, and data goes to that of the last element.
RowsOK ==
    /\ NumberedOK
    /\ m_nodes = Rows(Count("node"))
    /\ Len(srcId) = Count("edge") /\ Len(trgId) = Count("edge")
    /\ m_table # "none" => \E i \in Body : /\ m_table = doc[i].tag /\ m_row = Row(i)
                                           /\ \A j \in Body : j <= i

\* What the elements say of ids is in the columns of the edges and in m_nodeMap.
IdsOK ==
    /\ \A i \in Tagged({"edge"}) : /\ srcId[Row(i) + 1] = doc[i].source
                                   /\ trgId[Row(i) + 1] = doc[i].target
    /\ \A i \in Tagged({"node"}) : doc[i].id \in DOMAIN nodeMap
    /\ \A id \in DOMAIN nodeMap : \E i \in Tagged({"node"}) :
          nodeMap[id] = Row(i) /\ doc[i].id = id

\* The cells are those of the columns and rows there are, and each has the
\* value that was given, or the default.
CellsOK ==
    /\ \A c \in DOMAIN cells : \E i \in Body : c[1] = doc[i].tag /\ c[2] = Row(i)
    /\ \A i \in Body : \A k \in KeyElements :
          doc[i].tag \in Tables(doc[k].key) =>
             /\ <<doc[i].tag, Row(i), doc[k].key.name>> \in DOMAIN cells
             /\ cells[<<doc[i].tag, Row(i), doc[k].key.name>>] = ValueOf(i, k)

ReadOK == DocOK /\ SchemaOK /\ RowsOK /\ IdsOK /\ CellsOK

DocInv ==
    /\ phase \in {"schema", "body", "graph", "refused"}
    /\ m_table \in {"none", "node", "edge"}
    /\ phase \in {"schema", "body"} => ReadOK
    /\ RefusedForReason /\ GraphIsDocument

----------------------------------------------------------------------------
(* A document that gets one more element.                                  *)

\* Element e is number L + 1.
Extends(e, L) ==
    /\ L \in Nat /\ Len(doc) = L /\ DOMAIN doc = 1..L
    /\ DOMAIN doc' = 1..L + 1 /\ Len(doc') = L + 1
    /\ doc'[L + 1] = e
    /\ \A i \in 1..L : doc'[i] = doc[i]

LEMMA SawExtends ==
  ASSUME doc \in Seq(Elements), NEW e, Saw(e), NEW L, L = Len(doc)
  PROVE  Extends(e, L) /\ (e \in Elements => doc' \in Seq(Elements))
<1> DEFINE S == Elements \cup {e}
<1>1. doc \in Seq(S) /\ e \in S /\ (e \in Elements => S = Elements)
  <2>1. Len(doc) \in Nat /\ doc \in [1..Len(doc) -> Elements] /\ DOMAIN doc = 1..Len(doc)
    BY LenProperties
  <2>2. \A i \in 1..Len(doc) : doc[i] \in S
    BY <2>1
  <2>3. doc \in Seq(S)
    BY <2>1, <2>2
  <2> QED BY <2>3
<1> HIDE DEF S
<1>2. /\ Append(doc, e) \in Seq(S) /\ Len(Append(doc, e)) = Len(doc) + 1
      /\ \A i \in 1..Len(doc) : Append(doc, e)[i] = doc[i]
      /\ Append(doc, e)[Len(doc) + 1] = e
  BY <1>1, AppendProperties
<1>3. Len(doc) \in Nat /\ DOMAIN doc = 1..Len(doc)
  BY <1>1, LenProperties
<1>4. DOMAIN Append(doc, e) = 1..Len(Append(doc, e))
  BY <1>2, LenProperties
<1>5. doc' = Append(doc, e)
  BY DEF Saw
<1> QED BY <1>1, <1>2, <1>3, <1>4, <1>5 DEF Extends

LEMMA ElementFields ==
  ASSUME NEW e \in Elements
  PROVE  /\ e.tag \in {"key", "node", "edge", "data"}
         /\ e.tag = "key" => e.key \in Keys /\ e.text \in Texts \cup {NoText}
         /\ e.tag = "node" => e.id \in NodeIds
         /\ e.tag = "edge" => e.source \in NodeIds /\ e.target \in NodeIds
BY DEF Elements

LEMMA TaggedIn ==
  ASSUME NEW L \in Nat, DOMAIN doc = 1..L, NEW T
  PROVE  /\ Tagged(T) \in SUBSET (1..L)
         /\ IsFiniteSet(Tagged(T)) /\ Cardinality(Tagged(T)) \in Nat
<1>1. Tagged(T) \in SUBSET (1..L)
  BY DEF Tagged
<1>2. IsFiniteSet(1..L)
  BY FS_Interval
<1> QED BY <1>1, <1>2, FS_Subset, FS_CardinalityType

LEMMA TaggedNext ==
  ASSUME NEW e, NEW L, Extends(e, L), NEW T
  PROVE  Tagged(T)' = IF e.tag \in T THEN Tagged(T) \cup {L + 1} ELSE Tagged(T)
<1>1. 1..L + 1 = 1..L \cup {L + 1} /\ L + 1 \notin 1..L
  BY DEF Extends
<1> QED BY <1>1 DEF Extends, Tagged

LEMMA CountNext ==
  ASSUME NEW e, NEW L, Extends(e, L), NEW t
  PROVE  /\ Count(t) \in Nat
         /\ Count(t)' = IF e.tag = t THEN Count(t) + 1 ELSE Count(t)
<1>1. Tagged({t})' = IF e.tag = t THEN Tagged({t}) \cup {L + 1} ELSE Tagged({t})
  BY TaggedNext
<1>2. /\ Tagged({t}) \in SUBSET (1..L) /\ L \in Nat
      /\ IsFiniteSet(Tagged({t})) /\ Cardinality(Tagged({t})) \in Nat
  BY TaggedIn DEF Extends
<1>3. L + 1 \notin Tagged({t})
  BY <1>2
<1>4. Cardinality(Tagged({t}) \cup {L + 1}) = Cardinality(Tagged({t})) + 1
  BY <1>2, <1>3, FS_AddElement
<1>5. Count(t)' = Cardinality(Tagged({t})') /\ Count(t) = Cardinality(Tagged({t}))
  BY DEF Count
<1> QED BY <1>1, <1>2, <1>4, <1>5

LEMMA RowIs ==
  ASSUME NEW i, NEW t
  PROVE  /\ doc[i].tag = t => Row(i) = Cardinality({j \in Tagged({t}) : j < i})
         /\ doc'[i].tag = t => Row(i)' = Cardinality({j \in Tagged({t})' : j < i})
<1>1. ASSUME doc[i].tag = t PROVE Row(i) = Cardinality({j \in Tagged({t}) : j < i})
  BY <1>1 DEF Row
<1>2. ASSUME doc'[i].tag = t PROVE Row(i)' = Cardinality({j \in Tagged({t})' : j < i})
  <2>1. {j \in Tagged({doc[i].tag}) : j < i}' = {j \in Tagged({t})' : j < i}
    BY <1>2 DEF Tagged
  <2> QED BY <2>1 DEF Row
<1> QED BY <1>1, <1>2

LEMMA RowNext ==
  ASSUME NEW e, NEW L, Extends(e, L)
  PROVE  /\ \A i \in 1..L : Row(i)' = Row(i)
         /\ Row(L + 1)' = Count(e.tag)
<1>1. ASSUME NEW T
      PROVE  /\ \A i \in 1..L : {j \in Tagged(T)' : j < i} = {j \in Tagged(T) : j < i}
             /\ {j \in Tagged(T)' : j < L + 1} = Tagged(T)
  <2>1. Tagged(T) \in SUBSET (1..L) /\ L \in Nat
    BY TaggedIn DEF Extends
  <2>2. Tagged(T)' = Tagged(T) \/ Tagged(T)' = Tagged(T) \cup {L + 1}
    BY TaggedNext
  <2> QED BY <2>1, <2>2
<1>2. ASSUME NEW i \in 1..L PROVE Row(i)' = Row(i)
  <2>1. PICK t : t = doc[i].tag
    OBVIOUS
  <2>2. doc'[i].tag = t
    BY <2>1 DEF Extends
  <2>3. /\ Row(i) = Cardinality({j \in Tagged({t}) : j < i})
        /\ Row(i)' = Cardinality({j \in Tagged({t})' : j < i})
    BY <2>1, <2>2, RowIs
  <2>4. {j \in Tagged({t})' : j < i} = {j \in Tagged({t}) : j < i}
    BY <1>1
  <2> QED BY <2>3, <2>4
<1>3. Row(L + 1)' = Count(e.tag)
  <2>1. doc'[L + 1].tag = e.tag
    BY DEF Extends
  <2>2. Row(L + 1)' = Cardinality({j \in Tagged({e.tag})' : j < L + 1})
    BY <2>1, RowIs
  <2> QED BY <1>1, <2>2 DEF Count
<1> QED BY <1>2, <1>3

LEMMA OwnerNext ==
  ASSUME NEW e, NEW L, Extends(e, L)
  PROVE  /\ \A i \in 1..L : Owner(i)' = Owner(i)
         /\ Owner(L + 1)' = Max(Body)
<1>1. L \in Nat /\ Body \in SUBSET (1..L)
  BY TaggedIn DEF Extends, Body
<1>2. Body' = Body \/ Body' = Body \cup {L + 1}
  BY TaggedNext DEF Body
<1>3. \A i \in 1..L + 1 : {j \in Body' : j < i} = {j \in Body : j < i}
  BY <1>1, <1>2
<1>4. {j \in Body : j < L + 1} = Body
  <2>1. \A j \in 1..L : j < L + 1
    BY <1>1
  <2> QED BY <1>1, <2>1
<1>5. \A i : Owner(i)' = Max({j \in Body' : j < i}) /\ Owner(i) = Max({j \in Body : j < i})
  BY DEF Owner
<1>6. L + 1 \in 1..L + 1 /\ \A i \in 1..L : i \in 1..L + 1
  BY <1>1
<1> QED BY <1>3, <1>4, <1>5, <1>6

\* Nothing is found by another key when there is no other key.
LEMMA KeysNext ==
  ASSUME NEW e, NEW L, Extends(e, L), e.tag # "key"
  PROVE  /\ KeyElements' = KeyElements
         /\ \A i \in 1..L : KeyOf(i)' = KeyOf(i)
         /\ \A k \in 1..L : SameName(k)' = SameName(k)
         /\ KeyOf(L + 1)' = {k \in KeyElements :
               /\ doc[k].key.id = e.key
               /\ \A j \in KeyElements : doc[j].key.id = e.key => j <= k}
<1>1. KeyElements' = KeyElements /\ KeyElements \in SUBSET (1..L)
  BY TaggedNext, TaggedIn DEF KeyElements, Extends
<1>2. \A i \in 1..L : doc'[i] = doc[i]
  BY DEF Extends
<1>3. \A k \in KeyElements : doc'[k] = doc[k]
  BY <1>1, <1>2
<1>4. ASSUME NEW i, NEW d, doc'[i].key = d
      PROVE  KeyOf(i)' = {k \in KeyElements :
               /\ doc[k].key.id = d
               /\ \A j \in KeyElements : doc[j].key.id = d => j <= k}
  BY <1>1, <1>3, <1>4 DEF KeyOf
<1>5. ASSUME NEW i \in 1..L PROVE KeyOf(i)' = KeyOf(i)
  BY <1>2, <1>4 DEF KeyOf
<1>6. ASSUME NEW k \in 1..L PROVE SameName(k)' = SameName(k)
  BY <1>1, <1>2, <1>3 DEF SameName
<1>7. doc'[L + 1].key = e.key
  BY DEF Extends
<1> QED BY <1>1, <1>4, <1>5, <1>6, <1>7

\* Max of a set with a greatest element is that element.
LEMMA MaxIs ==
  ASSUME NEW S \in SUBSET Int, NEW x \in S, \A y \in S : y <= x
  PROVE  Max(S) = x
<1>1. \E z \in S : \A y \in S : z >= y
  OBVIOUS
<1>2. Max(S) \in S /\ \A y \in S : Max(S) >= y
  BY <1>1 DEF Max
<1>3. Max(S) \in Int /\ x \in Int /\ Max(S) <= x /\ Max(S) >= x
  BY <1>2
<1> QED BY <1>3

LEMMA MaxIn ==
  ASSUME NEW n \in Nat, NEW S \in SUBSET (1..n), S # {}
  PROVE  Max(S) \in S
<1>1. S \in SUBSET (0..n)
  OBVIOUS
<1>2. \E z \in S : \A y \in S : z >= y
  BY <1>1, GreatestUpTo
<1> QED BY <1>2 DEF Max

----------------------------------------------------------------------------
(* What another element leaves as it was.                                  *)

LEMMA TablesIn == \A k : Tables(k) \in SUBSET {"node", "edge"}
BY DEF Tables

LEMMA BodyIs ==
  \A i : i \in Body <=> \E t \in {"node", "edge"} : i \in Tagged({t}) /\ doc[i].tag = t
BY DEF Body, Tagged

LEMMA NumberedNext ==
  ASSUME NumberedOK, NEW e, NEW L, Extends(e, L)
  PROVE  NumberedOK'
<1> SUFFICES ASSUME NEW t \in {"node", "edge"}
             PROVE  /\ \A i \in Tagged({t})' : Row(i)' \in 0..Count(t)' - 1
                    /\ \A i, j \in Tagged({t})' : Row(i)' = Row(j)' => i = j
                    /\ \A r \in 0..Count(t)' - 1 : \E i \in Tagged({t})' : Row(i)' = r
  BY DEF NumberedOK
<1> DEFINE c == Count(t)
           S == Tagged({t})
<1>1. /\ \A i \in S : Row(i) \in 0..c - 1
      /\ \A i, j \in S : Row(i) = Row(j) => i = j
      /\ \A r \in 0..c - 1 : \E i \in S : Row(i) = r
  BY DEF NumberedOK
<1>2. /\ c \in Nat /\ c' = IF e.tag = t THEN c + 1 ELSE c
      /\ S' = IF e.tag = t THEN S \cup {L + 1} ELSE S
      /\ S \in SUBSET (1..L) /\ L \in Nat
      /\ \A i \in 1..L : Row(i)' = Row(i)
      /\ e.tag = t => Row(L + 1)' = c
  <2>1. Len(doc) = L /\ L \in Nat /\ DOMAIN doc = 1..L
    BY DEF Extends
  <2>2. S \in SUBSET (1..L)
    BY <2>1, TaggedIn
  <2>3. S' = IF e.tag = t THEN S \cup {L + 1} ELSE S
    BY TaggedNext
  <2> QED BY <2>1, <2>2, <2>3, CountNext, RowNext
<1> HIDE DEF c, S
<1>3. ASSUME e.tag = t
      PROVE  /\ \A i \in S' : Row(i)' \in 0..c' - 1
             /\ \A i, j \in S' : Row(i)' = Row(j)' => i = j
             /\ \A r \in 0..c' - 1 : \E i \in S' : Row(i)' = r
  <2>1. /\ S' = S \cup {L + 1} /\ c' = c + 1 /\ Row(L + 1)' = c
        /\ \A i \in S : Row(i)' = Row(i)
    BY <1>2, <1>3
  <2>2. \A i \in S : Row(i)' \in 0..c - 1
    BY <1>1, <2>1
  <2>3. /\ \A r \in 0..c - 1 : r \in 0..c + 1 - 1 /\ r # c
        /\ c \in 0..c + 1 - 1 /\ \A r \in 0..c + 1 - 1 : r \in 0..c - 1 \/ r = c
    BY <1>2
  <2>4. \A i \in S' : Row(i)' \in 0..c' - 1
    BY <2>1, <2>2, <2>3
  <2>5. \A i, j \in S' : Row(i)' = Row(j)' => i = j
    BY <1>1, <2>1, <2>2, <2>3
  <2>6. \A r \in 0..c' - 1 : \E i \in S' : Row(i)' = r
    BY <1>1, <2>1, <2>3
  <2> QED BY <2>4, <2>5, <2>6
<1>4. ASSUME e.tag # t
      PROVE  /\ \A i \in S' : Row(i)' \in 0..c' - 1
             /\ \A i, j \in S' : Row(i)' = Row(j)' => i = j
             /\ \A r \in 0..c' - 1 : \E i \in S' : Row(i)' = r
  <2>1. S' = S /\ c' = c /\ \A i \in S : Row(i)' = Row(i)
    BY <1>2, <1>4
  <2> QED BY <1>1, <2>1
<1>5. /\ \A i \in S' : Row(i)' \in 0..c' - 1
      /\ \A i, j \in S' : Row(i)' = Row(j)' => i = j
      /\ \A r \in 0..c' - 1 : \E i \in S' : Row(i)' = r
  BY <1>3, <1>4
<1> QED BY <1>5, Zenon DEF c, S

\* No column is added by an element that is no key.
LEMMA SchemaKept ==
  ASSUME SchemaOK, UNCHANGED schema, NEW e, NEW L, Extends(e, L), e.tag # "key"
  PROVE  SchemaOK'
<1>1. KeyElements' = KeyElements /\ \A k \in KeyElements : doc'[k] = doc[k]
  BY KeysNext, TaggedIn DEF KeyElements, Extends
<1>2. \A t : Schema(t)' = Schema(t)
  BY DEF Schema, schema
<1>3. idMap' = idMap
  BY DEF schema
<1>4. ASSUME NEW t \in {"node", "edge"}
      PROVE  /\ \A x : x \in DOMAIN Schema(t)' <=>
                    \E k \in KeyElements' : t \in Tables(doc'[k].key) /\ doc'[k].key.name = x
             /\ \A k \in KeyElements' :
                    t \in Tables(doc'[k].key) => Schema(t)'[doc'[k].key.name] = doc'[k].text
  BY <1>1, <1>2 DEF SchemaOK
<1>5. /\ \A k \in KeyElements' : doc'[k].key.id \in DOMAIN idMap'
      /\ \A id \in DOMAIN idMap' : \E k \in KeyElements' :
            /\ doc'[k].key.id = id /\ idMap'[id] = doc'[k].key.name
            /\ \A j \in KeyElements' : doc'[j].key.id = id => j <= k
  <2>1. \A k \in KeyElements' : doc'[k].key.id \in DOMAIN idMap'
    BY <1>1, <1>3 DEF SchemaOK
  <2>2. ASSUME NEW id \in DOMAIN idMap'
        PROVE  \E k \in KeyElements' :
                  /\ doc'[k].key.id = id /\ idMap'[id] = doc'[k].key.name
                  /\ \A j \in KeyElements' : doc'[j].key.id = id => j <= k
    <3>1. PICK k \in KeyElements :
             /\ doc[k].key.id = id /\ idMap[id] = doc[k].key.name
             /\ \A j \in KeyElements : doc[j].key.id = id => j <= k
      BY <1>3, <2>2 DEF SchemaOK
    <3> QED BY <1>1, <1>3, <3>1
  <2> QED BY <2>1, <2>2
<1> QED BY <1>4, <1>5 DEF SchemaOK

\* The owner of a data element, and the values given to an element, are the same.
LEMMA OwnersKept ==
  ASSUME DocOK, NEW e, NEW L, Extends(e, L)
  PROVE  /\ Body \in SUBSET (1..L) /\ Tagged({"data"}) \in SUBSET (1..L)
         /\ \A i \in Tagged({"data"}) : /\ Owner(i)' = Owner(i) /\ Owner(i) \in Body
                                        /\ Owner(i) < i /\ Owner(i) \in 1..L
         /\ \A i \in 1..L : i \in Body' <=> i \in Body
         /\ Body \subseteq Body'
<1>1. Body \in SUBSET (1..L) /\ Tagged({"data"}) \in SUBSET (1..L)
  BY TaggedIn DEF Extends, Body
<1>2. L \in Nat /\ \A i \in 1..L : i # L + 1
  BY DEF Extends
<1>3. Body' = Body \/ Body' = Body \cup {L + 1}
  BY TaggedNext DEF Body
<1> QED BY <1>1, <1>2, <1>3, OwnerNext DEF DocOK

\* Is key element i a fault?
KeyFault(i) ==
    \/ \E j \in Body : j < i
    \/ Tables(doc[i].key) = {}
    \/ doc[i].text \in Unreadable
    \/ \E j \in KeyElements : /\ j < i
                            /\ doc[j].key.name = doc[i].key.name
                            /\ Tables(doc[j].key) \cap Tables(doc[i].key) # {}

\* A key is at most a fault for what is before it.
LEMMA KeyFaultKept ==
  ASSUME DocOK, NEW e, NEW L, Extends(e, L), NEW i \in KeyElements
  PROVE  ~ KeyFault(i)'
<1>1. KeyElements \in SUBSET (1..L) /\ L \in Nat
  BY TaggedIn DEF KeyElements, Extends
<1>2. /\ KeyElements' = KeyElements \/ KeyElements' = KeyElements \cup {L + 1}
      /\ Body' = Body \/ Body' = Body \cup {L + 1}
  BY TaggedNext DEF Body, KeyElements
<1>3. \A j : j < i /\ j \in KeyElements' => j \in KeyElements
  BY <1>1, <1>2
<1>4. \A j : j < i /\ j \in Body' => j \in Body
  BY <1>1, <1>2
<1>5. \A j \in KeyElements : doc'[j] = doc[j]
  BY <1>1 DEF Extends
<1>6. ~ KeyFault(i)
  BY DEF KeyFault, DocOK, KeyFaults
<1> QED BY <1>3, <1>4, <1>5, <1>6 DEF KeyFault

LEMMA KeyFaultsKept ==
  ASSUME DocOK, NEW e, NEW L, Extends(e, L), e.tag # "key"
  PROVE  KeyFaults' = {}
<1>1. KeyElements' = KeyElements
  BY KeysNext
<1>2. \A i \in KeyElements' : ~ KeyFault(i)'
  BY <1>1, KeyFaultKept
<1> QED BY <1>2 DEF KeyFaults, KeyFault

\* Is data element i a fault?
DataFault(i) ==
    \/ ~doc[i].inside
    \/ doc[i].text \in Unreadable
    \/ \A k \in KeyOf(i) : \A j \in SameName(k) :
          doc[Owner(i)].tag \notin Tables(doc[j].key)

LEMMA DataFaultKept ==
  ASSUME DocOK, NEW e, NEW L, Extends(e, L), e.tag # "key", NEW i \in Tagged({"data"})
  PROVE  ~ DataFault(i)'
<1>1. ~ DataFault(i)
  BY DEF DataFault, DocOK, DataFaults
<1>2. /\ Owner(i)' = Owner(i) /\ Owner(i) \in 1..L /\ i \in 1..L
      /\ KeyOf(i)' = KeyOf(i) /\ KeyOf(i) \in SUBSET KeyElements
      /\ \A k \in 1..L : SameName(k)' = SameName(k) /\ SameName(k) \in SUBSET KeyElements
      /\ KeyElements \in SUBSET (1..L)
  <2>1. KeyElements \in SUBSET (1..L)
    BY TaggedIn DEF KeyElements, Extends
  <2>2. KeyOf(i) \in SUBSET KeyElements /\ \A k : SameName(k) \in SUBSET KeyElements
    BY DEF KeyOf, SameName
  <2> QED BY <2>1, <2>2, OwnersKept, KeysNext
<1>3. /\ doc'[i] = doc[i] /\ doc'[Owner(i)'] = doc[Owner(i)]
      /\ \A j \in KeyElements : doc'[j] = doc[j]
  BY <1>2 DEF Extends
<1>4. \A k \in KeyOf(i) : SameName(k)' = SameName(k) /\ SameName(k) \in SUBSET KeyElements
  BY <1>2
<1> QED BY <1>1, <1>2, <1>3, <1>4 DEF DataFault

LEMMA GivenNext ==
  ASSUME DocOK, NEW e, NEW L, Extends(e, L), e.tag # "key", NEW i, NEW k \in KeyElements
  PROVE  /\ Given(i, k) \in SUBSET (1..L)
         /\ Given(i, k)' = IF e.tag = "data" /\ Owner(L + 1)' = i /\ KeyOf(L + 1)' \subseteq SameName(k)
                           THEN Given(i, k) \cup {L + 1} ELSE Given(i, k)
         /\ Given(L + 1, k) = {}
<1> DEFINE D == Tagged({"data"})
<1>1. /\ D \in SUBSET (1..L) /\ L \in Nat
      /\ \A j \in D : Owner(j)' = Owner(j) /\ Owner(j) \in 1..L
      /\ \A j \in 1..L : KeyOf(j)' = KeyOf(j)
      /\ k \in 1..L /\ SameName(k)' = SameName(k)
  <2>1. k \in 1..L /\ L \in Nat
    BY TaggedIn DEF KeyElements, Extends
  <2> QED BY <2>1, OwnersKept, KeysNext
<1>2. D' = IF e.tag = "data" THEN D \cup {L + 1} ELSE D
  BY TaggedNext
<1>3. /\ Given(i, k) = {j \in D : Owner(j) = i /\ KeyOf(j) \subseteq SameName(k)}
      /\ Given(L + 1, k) = {j \in D : Owner(j) = L + 1 /\ KeyOf(j) \subseteq SameName(k)}
      /\ Given(i, k)' = {j \in D' : Owner(j)' = i /\ KeyOf(j)' \subseteq SameName(k)'}
  BY DEF Given
<1> HIDE DEF D
<1>4. \A j \in D : /\ Owner(j)' = i <=> Owner(j) = i
                   /\ KeyOf(j)' \subseteq SameName(k)' <=> KeyOf(j) \subseteq SameName(k)
  BY <1>1
<1>5. Given(L + 1, k) = {}
  <2>1. ASSUME NEW j \in D PROVE Owner(j) # L + 1
    <3>1. Owner(j) \in 1..L
      BY <1>1
    <3> QED BY <1>1, <3>1
  <2> QED BY <1>3, <2>1
<1>6. CASE e.tag = "data"
  <2>1. D' = D \cup {L + 1} /\ SameName(k)' = SameName(k)
    BY <1>1, <1>2, <1>6
  <2>2. CASE Owner(L + 1)' = i /\ KeyOf(L + 1)' \subseteq SameName(k)
    <3>1. Given(i, k)' = Given(i, k) \cup {L + 1}
      BY <1>3, <1>4, <2>1, <2>2
    <3> QED BY <1>1, <1>3, <1>5, <1>6, <2>2, <3>1
  <2>3. CASE ~ (Owner(L + 1)' = i /\ KeyOf(L + 1)' \subseteq SameName(k))
    <3>1. Given(i, k)' = Given(i, k)
      BY <1>3, <1>4, <2>1, <2>3
    <3> QED BY <1>1, <1>3, <1>5, <2>3, <3>1
  <2> QED BY <2>2, <2>3
<1>7. CASE e.tag # "data"
  BY <1>1, <1>2, <1>3, <1>4, <1>5, <1>7
<1> QED BY <1>6, <1>7

LEMMA ValueKept ==
  ASSUME NEW e, NEW L, Extends(e, L), NEW i, NEW k \in KeyElements,
         Given(i, k) \in SUBSET (1..L), Given(i, k)' = Given(i, k)
  PROVE  ValueOf(i, k)' = ValueOf(i, k)
<1>1. L \in Nat /\ k \in 1..L /\ \A j \in 1..L : doc'[j] = doc[j]
  BY TaggedIn DEF KeyElements, Extends
<1>2. CASE Given(i, k) = {}
  BY <1>1, <1>2 DEF ValueOf
<1>3. CASE Given(i, k) # {}
  <2>1. Max(Given(i, k)) \in 1..L
    BY <1>1, <1>3, MaxIn
  <2> QED BY <1>1, <1>3, <2>1 DEF ValueOf
<1> QED BY <1>2, <1>3

----------------------------------------------------------------------------
(* A node or an edge.                                                      *)

LEMMA StartDoc ==
  ASSUME DocOK, NEW e \in Elements, NEW L, L = Len(doc), Saw(e), e.tag \in {"node", "edge"},
         phase' = "body"
  PROVE  DocOK'
<1>1. Extends(e, L) /\ doc' \in Seq(Elements)
  BY SawExtends DEF DocOK
<1>2. L + 1 \in Body'
  BY <1>1, TaggedNext DEF Body
<1>3. Tagged({"data"})' = Tagged({"data"})
  BY <1>1, TaggedNext
<1>4. \A i \in Tagged({"data"})' : ~ DataFault(i)'
  BY <1>1, <1>3, DataFaultKept
<1>5. DataFaults' = {}
  BY <1>4 DEF DataFaults, DataFault
<1>6. \A i \in Tagged({"data"})' : Owner(i)' \in Body' /\ Owner(i)' < i
  BY <1>1, <1>3, OwnersKept
<1>7. KeyFaults' = {}
  BY <1>1, KeyFaultsKept
<1> QED BY <1>1, <1>2, <1>5, <1>6, <1>7 DEF DocOK

\* The new row has the defaults of its columns, the others what they had.
LEMMA StartCells ==
  ASSUME DocOK, SchemaOK, NumberedOK, CellsOK, NEW e, NEW L, Extends(e, L),
         NEW t \in {"node", "edge"}, e.tag = t, NEW r, r = Count(t), cells' = Defaults(t, r)
  PROVE  CellsOK'
<1>1. /\ KeyElements' = KeyElements /\ KeyElements \in SUBSET (1..L)
      /\ \A j \in 1..L : doc'[j] = doc[j] /\ Row(j)' = Row(j)
      /\ doc'[L + 1] = e /\ Row(L + 1)' = r
      /\ Body \in SUBSET (1..L) /\ Body' = Body \cup {L + 1}
  BY KeysNext, RowNext, TaggedIn, TaggedNext DEF Body, KeyElements, Extends
<1>2. \A c : c \in DOMAIN cells' <=>
          c \in DOMAIN cells \/ \E x \in DOMAIN Schema(t) : c = <<t, r, x>>
  BY DEF Defaults
<1>3. \A c \in DOMAIN cells' : cells'[c] = IF c \in DOMAIN cells THEN cells[c] ELSE Schema(t)[c[3]]
  BY DEF Defaults
<1>4. ASSUME NEW x PROVE <<t, r, x>> \notin DOMAIN cells
  <2> SUFFICES ASSUME <<t, r, x>> \in DOMAIN cells PROVE FALSE
    OBVIOUS
  <2>1. PICK i \in Body : t = doc[i].tag /\ r = Row(i)
    BY DEF CellsOK
  <2>2. i \in Tagged({t})
    BY <2>1, BodyIs
  <2>3. Row(i) \in 0..Count(t) - 1
    BY <2>2 DEF NumberedOK
  <2>4. Count(t) \in Nat
    BY CountNext
  <2> QED BY <2>1, <2>3, <2>4
<1>5. ASSUME NEW c \in DOMAIN cells' PROVE \E i \in Body' : c[1] = doc'[i].tag /\ c[2] = Row(i)'
  <2>1. CASE c \in DOMAIN cells
    <3>1. PICK i \in Body : c[1] = doc[i].tag /\ c[2] = Row(i)
      BY <2>1 DEF CellsOK
    <3> QED BY <1>1, <3>1
  <2>2. CASE \E x \in DOMAIN Schema(t) : c = <<t, r, x>>
    <3>1. c[1] = t /\ c[2] = r
      BY <2>2
    <3> QED BY <1>1, <3>1
  <2> QED BY <1>2, <2>1, <2>2
<1>6. ASSUME NEW i \in Body, NEW k \in KeyElements, doc[i].tag \in Tables(doc[k].key)
      PROVE  /\ <<doc[i].tag, Row(i), doc[k].key.name>> \in DOMAIN cells'
             /\ cells'[<<doc[i].tag, Row(i), doc[k].key.name>>] = ValueOf(i, k)'
  <2>1. Given(i, k) \in SUBSET (1..L) /\ Given(i, k)' = Given(i, k)
    BY GivenNext
  <2>2. ValueOf(i, k)' = ValueOf(i, k)
    BY <2>1, ValueKept
  <2>3. /\ <<doc[i].tag, Row(i), doc[k].key.name>> \in DOMAIN cells
        /\ cells[<<doc[i].tag, Row(i), doc[k].key.name>>] = ValueOf(i, k)
    BY <1>6 DEF CellsOK
  <2> QED BY <1>2, <1>3, <2>2, <2>3
<1>7. ASSUME NEW k \in KeyElements, t \in Tables(doc[k].key)
      PROVE  /\ <<t, r, doc[k].key.name>> \in DOMAIN cells'
             /\ cells'[<<t, r, doc[k].key.name>>] = ValueOf(L + 1, k)'
  <2> DEFINE x == doc[k].key.name
  <2>1. x \in DOMAIN Schema(t) /\ Schema(t)[x] = doc[k].text
    BY <1>7 DEF SchemaOK
  <2>2. Given(L + 1, k)' = {}
    BY GivenNext
  <2>3. ValueOf(L + 1, k)' = doc[k].text
    BY <1>1, <2>2 DEF ValueOf
  <2> HIDE DEF x
  <2>4. <<t, r, x>> \in DOMAIN cells' /\ <<t, r, x>> \notin DOMAIN cells /\ <<t, r, x>>[3] = x
    BY <1>2, <1>4, <2>1
  <2>5. cells'[<<t, r, x>>] = Schema(t)[x]
    BY <1>3, <2>4
  <2> QED BY <2>1, <2>3, <2>4, <2>5 DEF x
<1>8. ASSUME NEW i \in Body', NEW k \in KeyElements', doc'[i].tag \in Tables(doc'[k].key)
      PROVE  /\ <<doc'[i].tag, Row(i)', doc'[k].key.name>> \in DOMAIN cells'
             /\ cells'[<<doc'[i].tag, Row(i)', doc'[k].key.name>>] = ValueOf(i, k)'
  <2>1. k \in KeyElements /\ doc'[k] = doc[k]
    BY <1>1
  <2>2. CASE i \in Body
    <3>1. doc'[i] = doc[i] /\ Row(i)' = Row(i)
      BY <1>1, <2>2
    <3> QED BY <1>6, <1>8, <2>1, <2>2, <3>1
  <2>3. CASE i = L + 1
    BY <1>1, <1>7, <1>8, <2>1, <2>3
  <2> QED BY <1>1, <2>2, <2>3
<1> QED BY <1>5, <1>8 DEF CellsOK

\* As long as the document is read there is no more to say.
LEMMA StillReading ==
  ASSUME phase' \in {"schema", "body"}, m_table' \in {"none", "node", "edge"}, ReadOK'
  PROVE  DocInv'
BY DEF DocInv, RefusedForReason, GraphIsDocument

LEMMA StartNodeDoc ==
  ASSUME ReaderInv, DocInv, NEW id \in NodeIds, StartNode(id)
  PROVE  DocInv'
<1> DEFINE e == [tag |-> "node", id |-> id]
<1>1. PICK L : L = Len(doc)
  OBVIOUS
<1>2. PICK r : r = Count("node")
  OBVIOUS
<1>3. /\ DocOK /\ SchemaOK /\ NumberedOK /\ RowsOK /\ IdsOK /\ CellsOK
      /\ phase' = "body" /\ m_table' = "node" /\ m_row' = NewRow(m_nodes)
      /\ m_nodes' = AddRow(m_nodes) /\ nodeMap' = Put(nodeMap, id, NewRow(m_nodes))
      /\ cells' = Defaults("node", NewRow(m_nodes)) /\ Saw(e)
      /\ UNCHANGED schema /\ UNCHANGED <<srcId, trgId>>
  BY DEF StartNode, Reading, DocInv, ReadOK, RowsOK
<1>4. e \in Elements /\ e.tag = "node" /\ e.id = id
  BY DEF Elements
<1> HIDE DEF e
<1>5. Extends(e, L) /\ doc' \in Seq(Elements)
  BY <1>1, <1>3, <1>4, SawExtends DEF DocOK
<1>6. /\ r \in Nat /\ Count("node")' = r + 1 /\ Count("edge")' = Count("edge")
      /\ Row(L + 1)' = r /\ \A i \in 1..L : Row(i)' = Row(i)
  BY <1>2, <1>4, <1>5, CountNext, RowNext
<1>7. NewRow(m_nodes) = r /\ m_nodes' = Rows(r + 1)
  BY <1>2, <1>3, <1>6, RowsAreValid DEF RowsOK
<1>8. /\ L \in Nat /\ doc'[L + 1] = e /\ \A i \in 1..L : doc'[i] = doc[i]
      /\ Body' = Body \cup {L + 1} /\ Body \in SUBSET (1..L)
      /\ Tagged({"node"})' = Tagged({"node"}) \cup {L + 1}
      /\ Tagged({"edge"})' = Tagged({"edge"})
      /\ Tagged({"node"}) \in SUBSET (1..L) /\ Tagged({"edge"}) \in SUBSET (1..L)
  BY <1>4, <1>5, TaggedNext, TaggedIn DEF Extends, Body
<1>9. DocOK' /\ SchemaOK' /\ NumberedOK' /\ CellsOK'
  <2>1. DocOK'
    BY <1>1, <1>3, <1>4, StartDoc
  <2>2. SchemaOK' /\ NumberedOK'
    BY <1>3, <1>4, <1>5, SchemaKept, NumberedNext
  <2>3. CellsOK'
    BY <1>2, <1>3, <1>4, <1>5, <1>7, StartCells
  <2> QED BY <2>1, <2>2, <2>3
<1>10. RowsOK'
  <2>1. /\ L + 1 \in Body' /\ m_table' = doc'[L + 1].tag /\ m_row' = Row(L + 1)'
        /\ \A j \in Body' : j <= L + 1
    BY <1>3, <1>4, <1>6, <1>7, <1>8
  <2>2. m_nodes' = Rows(Count("node")') /\ Len(srcId') = Count("edge")' /\ Len(trgId') = Count("edge")'
    BY <1>3, <1>6, <1>7 DEF RowsOK
  <2> QED BY <1>9, <2>1, <2>2 DEF RowsOK
<1>11. IdsOK'
  <2>1. ASSUME NEW i \in Tagged({"edge"})'
        PROVE  srcId'[Row(i)' + 1] = doc'[i].source /\ trgId'[Row(i)' + 1] = doc'[i].target
    BY <1>3, <1>6, <1>8 DEF IdsOK
  <2>2. /\ DOMAIN nodeMap' = DOMAIN nodeMap \cup {id}
        /\ nodeMap'[id] = r /\ \A x \in DOMAIN nodeMap : x # id => nodeMap'[x] = nodeMap[x]
    BY <1>3, <1>7 DEF Put
  <2>3. \A i \in Tagged({"node"})' : doc'[i].id \in DOMAIN nodeMap'
    BY <1>3, <1>4, <1>8, <2>2 DEF IdsOK
  <2>4. ASSUME NEW x \in DOMAIN nodeMap'
        PROVE  \E i \in Tagged({"node"})' : nodeMap'[x] = Row(i)' /\ doc'[i].id = x
    <3>1. CASE x = id
      BY <1>4, <1>6, <1>8, <2>2, <3>1
    <3>2. CASE x # id
      <4>1. PICK i \in Tagged({"node"}) : nodeMap[x] = Row(i) /\ doc[i].id = x
        BY <1>3, <2>2, <3>2 DEF IdsOK
      <4> QED BY <1>6, <1>8, <2>2, <3>2, <4>1
    <3> QED BY <3>1, <3>2
  <2> QED BY <2>1, <2>3, <2>4 DEF IdsOK
<1> QED BY <1>3, <1>9, <1>10, <1>11, StillReading DEF ReadOK

LEMMA StartEdgeDoc ==
  ASSUME ReaderInv, DocInv, NEW s \in NodeIds, NEW t \in NodeIds, StartEdge(s, t)
  PROVE  DocInv'
<1> DEFINE e == [tag |-> "edge", source |-> s, target |-> t]
<1>1. PICK L : L = Len(doc)
  OBVIOUS
<1>2. PICK r : r = Count("edge")
  OBVIOUS
<1>3. /\ DocOK /\ SchemaOK /\ NumberedOK /\ RowsOK /\ IdsOK /\ CellsOK
      /\ phase \in {"schema", "body"}
      /\ phase' = "body" /\ m_table' = "edge" /\ m_row' = NewRow(m_edges)
      /\ srcId' = Append(srcId, s) /\ trgId' = Append(trgId, t)
      /\ cells' = Defaults("edge", NewRow(m_edges)) /\ Saw(e)
      /\ UNCHANGED schema /\ UNCHANGED <<nodeMap, m_nodes>>
  BY DEF StartEdge, Reading, DocInv, ReadOK, RowsOK
<1>4. e \in Elements /\ e.tag = "edge" /\ e.source = s /\ e.target = t
  BY DEF Elements
<1> HIDE DEF e
<1>5. Extends(e, L) /\ doc' \in Seq(Elements)
  BY <1>1, <1>3, <1>4, SawExtends DEF DocOK
<1>6. /\ r \in Nat /\ Count("edge")' = r + 1 /\ Count("node")' = Count("node")
      /\ Row(L + 1)' = r /\ \A i \in 1..L : Row(i)' = Row(i)
  BY <1>2, <1>4, <1>5, CountNext, RowNext
<1>7. NewRow(m_edges) = r
  <2>1. m_edges = Rows(r)
    BY <1>2, <1>3 DEF RowsOK, ReaderInv
  <2> QED BY <1>6, <2>1, RowsAreValid
<1>8. /\ L \in Nat /\ doc'[L + 1] = e /\ \A i \in 1..L : doc'[i] = doc[i]
      /\ Body' = Body \cup {L + 1} /\ Body \in SUBSET (1..L)
      /\ Tagged({"edge"})' = Tagged({"edge"}) \cup {L + 1}
      /\ Tagged({"node"})' = Tagged({"node"})
      /\ Tagged({"node"}) \in SUBSET (1..L) /\ Tagged({"edge"}) \in SUBSET (1..L)
  BY <1>4, <1>5, TaggedNext, TaggedIn DEF Extends, Body
<1>9. DocOK' /\ SchemaOK' /\ NumberedOK' /\ CellsOK'
  <2>1. DocOK'
    BY <1>1, <1>3, <1>4, StartDoc
  <2>2. SchemaOK' /\ NumberedOK'
    BY <1>3, <1>4, <1>5, SchemaKept, NumberedNext
  <2>3. CellsOK'
    BY <1>2, <1>3, <1>4, <1>5, <1>7, StartCells
  <2> QED BY <2>1, <2>2, <2>3
<1>10. /\ Len(srcId') = r + 1 /\ Len(trgId') = r + 1
       /\ srcId'[r + 1] = s /\ trgId'[r + 1] = t
       /\ \A p \in 1..r : srcId'[p] = srcId[p] /\ trgId'[p] = trgId[p]
  <2>1. /\ srcId \in Seq(NodeIds) /\ trgId \in Seq(NodeIds)
        /\ Len(srcId) = r /\ Len(trgId) = r
    BY <1>2, <1>3 DEF RowsOK, ReaderInv
  <2> QED BY <1>3, <2>1, AppendProperties
<1>11. RowsOK'
  <2>1. /\ L + 1 \in Body' /\ m_table' = doc'[L + 1].tag /\ m_row' = Row(L + 1)'
        /\ \A j \in Body' : j <= L + 1
    BY <1>3, <1>4, <1>6, <1>7, <1>8
  <2>2. m_nodes' = Rows(Count("node")') /\ Len(srcId') = Count("edge")' /\ Len(trgId') = Count("edge")'
    BY <1>3, <1>6, <1>10 DEF RowsOK
  <2> QED BY <1>9, <2>1, <2>2 DEF RowsOK
<1>12. IdsOK'
  <2>1. ASSUME NEW i \in Tagged({"edge"})'
        PROVE  srcId'[Row(i)' + 1] = doc'[i].source /\ trgId'[Row(i)' + 1] = doc'[i].target
    <3>1. CASE i \in Tagged({"edge"})
      <4>1. Row(i) \in 0..r - 1
        BY <1>2, <1>3, <3>1 DEF NumberedOK
      <4>2. Row(i) + 1 \in 1..r /\ Row(i)' = Row(i) /\ doc'[i] = doc[i]
        BY <1>6, <1>8, <3>1, <4>1
      <4>3. srcId[Row(i) + 1] = doc[i].source /\ trgId[Row(i) + 1] = doc[i].target
        BY <1>3, <3>1 DEF IdsOK
      <4>4. Row(i)' + 1 \in 1..r /\ Row(i)' + 1 = Row(i) + 1
        BY <4>2
      <4>5. srcId'[Row(i) + 1] = srcId[Row(i) + 1] /\ trgId'[Row(i) + 1] = trgId[Row(i) + 1]
        BY <1>10, <4>2
      <4> QED BY <4>2, <4>3, <4>4, <4>5
    <3>2. CASE i = L + 1
      BY <1>4, <1>6, <1>8, <1>10, <3>2
    <3> QED BY <1>8, <3>1, <3>2
  <2>2. \A i \in Tagged({"node"})' : doc'[i].id \in DOMAIN nodeMap'
    BY <1>3, <1>8 DEF IdsOK
  <2>3. \A x \in DOMAIN nodeMap' : \E i \in Tagged({"node"})' : nodeMap'[x] = Row(i)' /\ doc'[i].id = x
    BY <1>3, <1>6, <1>8 DEF IdsOK
  <2> QED BY <2>1, <2>2, <2>3 DEF IdsOK
<1> QED BY <1>3, <1>9, <1>11, <1>12, StillReading DEF ReadOK

----------------------------------------------------------------------------
(* A key.                                                                  *)

LEMMA KeyDoc ==
  ASSUME DocInv, NEW k \in Keys, NEW d \in Texts \cup {NoText}, Key(k, d), ~ KeyRefused(k, d)
  PROVE  DocInv'
<1> DEFINE e == [tag |-> "key", key |-> k, text |-> d]
<1>1. PICK L : L = Len(doc)
  OBVIOUS
<1>2. /\ DocOK /\ SchemaOK /\ NumberedOK /\ RowsOK /\ IdsOK /\ CellsOK
      /\ phase = "schema" /\ phase' = "schema" /\ m_table = "none" /\ m_table' = "none"
      /\ d \notin Unreadable /\ Tables(k) # {}
      /\ \A t \in Tables(k) : k.name \notin DOMAIN Schema(t)
      /\ Saw(e) /\ idMap' = Put(idMap, k.id, k.name)
      /\ nsch' = (IF "node" \in Tables(k) THEN Put(nsch, k.name, d) ELSE nsch)
      /\ esch' = (IF "edge" \in Tables(k) THEN Put(esch, k.name, d) ELSE esch)
      /\ UNCHANGED <<nodeMap, m_nodes, srcId, trgId, cells>>
  BY DEF Key, KeyRefused, Reading, DocInv, ReadOK, RowsOK, rows, columns, place
<1>3. e \in Elements /\ e.tag = "key" /\ e.key = k /\ e.text = d
  BY DEF Elements
<1> HIDE DEF e
<1>4. Extends(e, L) /\ doc' \in Seq(Elements)
  BY <1>1, <1>2, <1>3, SawExtends DEF DocOK
<1>5. /\ L \in Nat /\ doc'[L + 1] = e /\ KeyElements \in SUBSET (1..L)
      /\ \A i \in KeyElements : doc'[i] = doc[i]
      /\ KeyElements' = KeyElements \cup {L + 1}
      /\ Body = {} /\ Body' = {} /\ Tagged({"node"}) = {} /\ Tagged({"edge"}) = {}
      /\ Tagged({"node"})' = {} /\ Tagged({"edge"})' = {}
      /\ Tagged({"data"}) = {} /\ Tagged({"data"})' = {}
  <2>1. /\ KeyElements' = KeyElements \cup {L + 1} /\ Body' = Body
        /\ \A t \in {"node", "edge", "data"} : Tagged({t})' = Tagged({t})
        /\ KeyElements \in SUBSET (1..L)
    BY <1>3, <1>4, TaggedNext, TaggedIn DEF Body, KeyElements, Extends
  <2>2. Body = {} /\ Tagged({"data"}) = {}
    BY <1>2 DEF DocOK
  <2>3. Tagged({"node"}) = {} /\ Tagged({"edge"}) = {}
    BY <2>2 DEF Body, Tagged
  <2> QED BY <1>4, <2>1, <2>2, <2>3 DEF Extends
<1>6. ASSUME NEW t \in {"node", "edge"}
      PROVE  Schema(t)' = IF t \in Tables(k) THEN Put(Schema(t), k.name, d) ELSE Schema(t)
  BY <1>2 DEF Schema
<1>7. DocOK'
  <2>1. ~ KeyFault(L + 1)'
    <3> SUFFICES ASSUME NEW j \in KeyElements, doc[j].key.name = k.name,
                        NEW t \in Tables(doc[j].key) \cap Tables(k)
                 PROVE  FALSE
      <4>1. \A j \in KeyElements' : j < L + 1 => j \in KeyElements /\ doc'[j] = doc[j]
        <5>1. ~ (L + 1 < L + 1)
          BY <1>5
        <5> QED BY <1>5, <5>1
      <4>2. Body' = {} /\ doc'[L + 1].text \notin Unreadable /\ Tables(doc'[L + 1].key) # {}
        BY <1>2, <1>3, <1>5
      <4>3. doc'[L + 1].key = k
        BY <1>3, <1>5
      <4> QED BY <4>1, <4>2, <4>3 DEF KeyFault
    <3>1. t \in {"node", "edge"}
      BY TablesIn
    <3>2. k.name \in DOMAIN Schema(t)
      BY <1>2, <3>1 DEF SchemaOK
    <3> QED BY <1>2, <3>2
  <2>2. \A i \in KeyElements : ~ KeyFault(i)'
    BY <1>2, <1>4, KeyFaultKept
  <2>3. KeyFaults' = {}
    BY <1>5, <2>1, <2>2 DEF KeyFaults, KeyFault
  <2>4. DataFaults' = {}
    BY <1>5 DEF DataFaults
  <2> QED BY <1>2, <1>4, <1>5, <2>3, <2>4 DEF DocOK
<1>8. ASSUME NEW t \in {"node", "edge"}
      PROVE  /\ \A x : x \in DOMAIN Schema(t)' <=>
                    \E j \in KeyElements' : t \in Tables(doc'[j].key) /\ doc'[j].key.name = x
             /\ \A j \in KeyElements' :
                    t \in Tables(doc'[j].key) => Schema(t)'[doc'[j].key.name] = doc'[j].text
  <2>1. /\ \A x : x \in DOMAIN Schema(t) <=>
                    \E j \in KeyElements : t \in Tables(doc[j].key) /\ doc[j].key.name = x
        /\ \A j \in KeyElements :
                    t \in Tables(doc[j].key) => Schema(t)[doc[j].key.name] = doc[j].text
    BY <1>2 DEF SchemaOK
  <2>2. CASE t \in Tables(k)
    <3>1. /\ \A x : x \in DOMAIN Schema(t)' <=> x \in DOMAIN Schema(t) \/ x = k.name
          /\ Schema(t)'[k.name] = d /\ k.name \notin DOMAIN Schema(t)
          /\ \A x \in DOMAIN Schema(t) : Schema(t)'[x] = Schema(t)[x]
      BY <1>2, <1>6, <2>2 DEF Put
    <3>2. /\ \A j \in KeyElements' : j \in KeyElements \/ j = L + 1
          /\ \A j \in KeyElements : j \in KeyElements' /\ doc'[j] = doc[j]
          /\ L + 1 \in KeyElements' /\ doc'[L + 1].key = k /\ doc'[L + 1].text = d
      BY <1>3, <1>5
    <3> QED BY <2>1, <2>2, <3>1, <3>2
  <2>3. CASE t \notin Tables(k)
    <3>1. Schema(t)' = Schema(t)
      BY <1>6, <2>3
    <3>2. /\ \A j \in KeyElements' : j \in KeyElements \/ j = L + 1
          /\ \A j \in KeyElements : j \in KeyElements' /\ doc'[j] = doc[j]
          /\ doc'[L + 1].key = k
      BY <1>3, <1>5
    <3> QED BY <2>1, <2>3, <3>1, <3>2
  <2> QED BY <2>2, <2>3
<1>9. /\ \A j \in KeyElements' : doc'[j].key.id \in DOMAIN idMap'
      /\ \A id \in DOMAIN idMap' : \E j \in KeyElements' :
            /\ doc'[j].key.id = id /\ idMap'[id] = doc'[j].key.name
            /\ \A l \in KeyElements' : doc'[l].key.id = id => l <= j
  <2>1. /\ DOMAIN idMap' = DOMAIN idMap \cup {k.id} /\ idMap'[k.id] = k.name
        /\ \A id \in DOMAIN idMap : id # k.id => idMap'[id] = idMap[id]
    BY <1>2 DEF Put
  <2>2. \A j \in KeyElements' : doc'[j].key.id \in DOMAIN idMap'
    BY <1>2, <1>3, <1>5, <2>1 DEF SchemaOK
  <2>3. ASSUME NEW id \in DOMAIN idMap'
        PROVE  \E j \in KeyElements' :
                  /\ doc'[j].key.id = id /\ idMap'[id] = doc'[j].key.name
                  /\ \A l \in KeyElements' : doc'[l].key.id = id => l <= j
    <3>1. CASE id = k.id
      <4>1. \A l \in KeyElements' : l <= L + 1
        BY <1>5
      <4> QED BY <1>3, <1>5, <2>1, <3>1, <4>1
    <3>2. CASE id # k.id
      <4>1. PICK j \in KeyElements :
                  /\ doc[j].key.id = id /\ idMap[id] = doc[j].key.name
                  /\ \A l \in KeyElements : doc[l].key.id = id => l <= j
        BY <1>2, <2>1, <3>2 DEF SchemaOK
      <4>2. /\ \A l \in KeyElements' : l \in KeyElements \/ l = L + 1
            /\ doc'[L + 1].key.id # id
        BY <1>3, <1>5, <3>2
      <4> QED BY <1>5, <2>1, <3>2, <4>1, <4>2
    <3> QED BY <3>1, <3>2
  <2> QED BY <2>2, <2>3
<1>10. SchemaOK'
  BY <1>8, <1>9 DEF SchemaOK
<1>11. RowsOK'
  <2>1. NumberedOK'
    BY <1>2, <1>4, NumberedNext
  <2>2. Count("node")' = Count("node") /\ Count("edge")' = Count("edge")
    BY <1>3, <1>4, CountNext
  <2> QED BY <1>2, <2>1, <2>2 DEF RowsOK
<1>12. IdsOK' /\ CellsOK'
  BY <1>2, <1>5 DEF IdsOK, CellsOK
<1> QED BY <1>2, <1>7, <1>10, <1>11, <1>12, StillReading DEF ReadOK

\* A key that is refused is one of the faults.
LEMMA KeyRefusedDoc ==
  ASSUME DocInv, NEW k \in Keys, NEW d \in Texts \cup {NoText}, Key(k, d), KeyRefused(k, d)
  PROVE  DocInv'
<1> DEFINE e == [tag |-> "key", key |-> k, text |-> d]
<1>1. PICK L : L = Len(doc)
  OBVIOUS
<1>2. /\ DocOK /\ SchemaOK /\ phase \in {"schema", "body"} /\ phase' = "refused"
      /\ m_table' = m_table /\ m_table \in {"none", "node", "edge"} /\ Saw(e)
  BY DEF Key, Reading, DocInv, ReadOK, Refuse, place
<1>3. e.tag = "key" /\ e.key = k /\ e.text = d
  OBVIOUS
<1> HIDE DEF e
<1>4. Extends(e, L)
  BY <1>1, <1>2, SawExtends DEF DocOK
<1>5. /\ L \in Nat /\ doc'[L + 1] = e /\ KeyElements \in SUBSET (1..L)
      /\ \A i \in KeyElements : doc'[i] = doc[i] /\ i < L + 1
      /\ \A i \in Body : i < L + 1
      /\ KeyElements' = KeyElements \cup {L + 1} /\ Body' = Body
  BY <1>3, <1>4, TaggedNext, TaggedIn DEF Body, KeyElements, Extends
<1>6. KeyFault(L + 1)'
  <2>1. CASE phase # "schema"
    <3>1. Body' # {}
      BY <1>2, <1>5, <2>1 DEF DocOK
    <3> QED BY <1>5, <3>1 DEF KeyFault
  <2>2. CASE d \in Unreadable \/ Tables(k) = {}
    BY <1>3, <1>5, <2>2 DEF KeyFault
  <2>3. CASE \E t \in Tables(k) : k.name \in DOMAIN Schema(t)
    <3>1. PICK t \in Tables(k) : k.name \in DOMAIN Schema(t)
      BY <2>3
    <3>2. t \in {"node", "edge"}
      BY TablesIn
    <3>3. PICK j \in KeyElements : t \in Tables(doc[j].key) /\ doc[j].key.name = k.name
      BY <1>2, <3>1, <3>2 DEF SchemaOK
    <3>4. /\ j \in KeyElements' /\ j < L + 1 /\ doc'[j].key.name = doc'[L + 1].key.name
          /\ t \in Tables(doc'[j].key) \cap Tables(doc'[L + 1].key)
      BY <1>3, <1>5, <3>3
    <3> QED BY <3>4 DEF KeyFault
  <2> QED BY <2>1, <2>2, <2>3 DEF KeyRefused
<1>7. KeyFaults' # {}
  BY <1>5, <1>6 DEF KeyFaults, KeyFault
<1> QED BY <1>2, <1>7 DEF DocInv, RefusedForReason, Faulty, GraphIsDocument

----------------------------------------------------------------------------
(* A value.                                                                *)

\* An id that is known means one key.
LEMMA OneKey ==
  ASSUME DocOK, SchemaOK, NEW id \in DOMAIN idMap
  PROVE  \E k \in KeyElements :
            /\ idMap[id] = doc[k].key.name
            /\ {l \in KeyElements : /\ doc[l].key.id = id
                                    /\ \A j \in KeyElements : doc[j].key.id = id => j <= l} = {k}
<1>1. PICK k \in KeyElements :
         /\ doc[k].key.id = id /\ idMap[id] = doc[k].key.name
         /\ \A j \in KeyElements : doc[j].key.id = id => j <= k
  BY DEF SchemaOK
<1>2. \A i \in KeyElements : i \in Int
  <2> DEFINE L == Len(doc)  T == {"key"}
  <2>1. L \in Nat /\ DOMAIN doc = 1..L
    BY LenProperties DEF DocOK
  <2> HIDE DEF L, T
  <2>2. Tagged(T) \in SUBSET (1..L)
    BY <2>1, TaggedIn
  <2>3. KeyElements = Tagged(T)
    BY DEF KeyElements, T
  <2> QED BY <2>1, <2>2, <2>3
<1>3. \A l \in KeyElements : l <= k /\ k <= l => l = k
  BY <1>2
<1> QED BY <1>1, <1>3

\* The element whose data is read
LEMMA CurrentIs ==
  ASSUME DocOK, RowsOK, m_table # "none"
  PROVE  \E i \in Body : m_table = doc[i].tag /\ m_row = Row(i) /\ Max(Body) = i
<1>1. PICK i \in Body : m_table = doc[i].tag /\ m_row = Row(i) /\ \A j \in Body : j <= i
  BY DEF RowsOK
<1>2. Body \in SUBSET Int
  <2> DEFINE L == Len(doc)  T == {"node", "edge"}
  <2>1. L \in Nat /\ DOMAIN doc = 1..L
    BY LenProperties DEF DocOK
  <2> HIDE DEF L, T
  <2>2. Tagged(T) \in SUBSET (1..L)
    BY <2>1, TaggedIn
  <2>3. Body = Tagged(T)
    BY DEF Body, T
  <2> QED BY <2>1, <2>2, <2>3
<1> QED BY <1>1, <1>2, MaxIs

LEMMA DataDoc ==
  ASSUME DocInv, NEW id, NEW v \in Texts, id \in {k.id : k \in Keys},
         Data(id, v), ~ DataRefused(id, v)
  PROVE  DocInv'
<1> DEFINE e == [tag |-> "data", key |-> id, text |-> v, inside |-> TRUE]
<1>1. PICK L : L = Len(doc)
  OBVIOUS
<1>2. /\ DocOK /\ SchemaOK /\ NumberedOK /\ RowsOK /\ IdsOK /\ CellsOK
      /\ phase \in {"schema", "body"} /\ phase' = phase /\ m_table \in {"node", "edge"}
      /\ m_table' = m_table /\ m_row' = m_row
      /\ v \notin Unreadable /\ id \in DOMAIN idMap /\ idMap[id] \in DOMAIN Schema(m_table)
      /\ cells' = [cells EXCEPT ![<<m_table, m_row, idMap[id]>>] = v]
      /\ UNCHANGED schema /\ UNCHANGED <<nodeMap, m_nodes, srcId, trgId>>
  BY DEF Data, DataRefused, Reading, DocInv, ReadOK, RowsOK, rows, place
<1>3. Saw(e)
  <2>1. (m_table # "none") = TRUE
    BY <1>2
  <2> QED BY <2>1 DEF Data
<1>4. e \in Elements /\ e.tag = "data" /\ e.key = id /\ e.text = v /\ e.inside
  BY DEF Elements
<1> HIDE DEF e
<1>5. Extends(e, L) /\ doc' \in Seq(Elements)
  BY <1>1, <1>2, <1>3, <1>4, SawExtends DEF DocOK
<1>6. PICK i0 \in Body : m_table = doc[i0].tag /\ m_row = Row(i0) /\ Max(Body) = i0
  BY <1>2, CurrentIs
<1>7. PICK k0 \in KeyElements :
         /\ idMap[id] = doc[k0].key.name
         /\ {l \in KeyElements : /\ doc[l].key.id = id
                                 /\ \A j \in KeyElements : doc[j].key.id = id => j <= l} = {k0}
  BY <1>2, OneKey
<1>8. /\ L \in Nat /\ doc'[L + 1] = e /\ \A i \in 1..L : doc'[i] = doc[i] /\ Row(i)' = Row(i)
      /\ KeyElements \in SUBSET (1..L) /\ KeyElements' = KeyElements
      /\ Body \in SUBSET (1..L) /\ Body' = Body
      /\ Tagged({"data"})' = Tagged({"data"}) \cup {L + 1}
      /\ Tagged({"node"})' = Tagged({"node"}) /\ Tagged({"edge"})' = Tagged({"edge"})
      /\ Tagged({"node"}) \in SUBSET (1..L) /\ Tagged({"edge"}) \in SUBSET (1..L)
      /\ Count("node")' = Count("node") /\ Count("edge")' = Count("edge")
  <2>1. /\ L \in Nat /\ doc'[L + 1] = e /\ \A i \in 1..L : doc'[i] = doc[i] /\ Row(i)' = Row(i)
    BY <1>5, RowNext DEF Extends
  <2>2. \A T : Tagged(T) \in SUBSET (1..L)
    BY <1>5, TaggedIn DEF Extends
  <2>3. KeyElements' = KeyElements
    BY <1>4, <1>5, KeysNext
  <2>4. /\ Body' = Body /\ Tagged({"data"})' = Tagged({"data"}) \cup {L + 1}
        /\ Tagged({"node"})' = Tagged({"node"}) /\ Tagged({"edge"})' = Tagged({"edge"})
    BY <1>4, <1>5, TaggedNext DEF Body
  <2>5. Count("node")' = Count("node") /\ Count("edge")' = Count("edge")
    BY <1>4, <1>5, CountNext
  <2> QED BY <2>1, <2>2, <2>3, <2>4, <2>5 DEF Body, KeyElements
<1>9. /\ Owner(L + 1)' = i0 /\ KeyOf(L + 1)' = {k0}
      /\ \A k \in 1..L : SameName(k)' = SameName(k)
  BY <1>4, <1>5, <1>6, <1>7, OwnerNext, KeysNext
<1>10. DocOK'
  <2>1. ~ DataFault(L + 1)'
    <3>1. PICK j \in KeyElements : m_table \in Tables(doc[j].key) /\ doc[j].key.name = idMap[id]
      BY <1>2 DEF SchemaOK
    <3>2. j \in SameName(k0)
      BY <1>7, <3>1 DEF SameName
    <3>3. j \in SameName(k0)' /\ k0 \in KeyOf(L + 1)'
      BY <1>8, <1>9, <3>2
    <3>4. doc'[Owner(L + 1)'].tag = m_table /\ doc'[j] = doc[j]
      BY <1>6, <1>8, <1>9
    <3>5. doc'[L + 1].inside /\ doc'[L + 1].text \notin Unreadable
      BY <1>2, <1>4, <1>8
    <3> QED BY <3>1, <3>3, <3>4, <3>5 DEF DataFault
  <2>2. \A i \in Tagged({"data"}) : ~ DataFault(i)'
    BY <1>2, <1>4, <1>5, DataFaultKept
  <2>3. DataFaults' = {}
    BY <1>8, <2>1, <2>2 DEF DataFaults, DataFault
  <2>4. KeyFaults' = {}
    BY <1>2, <1>4, <1>5, KeyFaultsKept
  <2>5. \A i \in Tagged({"data"}) : Owner(i)' \in Body' /\ Owner(i)' < i
    BY <1>2, <1>5, OwnersKept
  <2>6. Owner(L + 1)' \in Body' /\ Owner(L + 1)' < L + 1
    BY <1>6, <1>8, <1>9
  <2>7. phase' = "schema" <=> Body' = {}
    BY <1>2, <1>8 DEF DocOK
  <2> QED BY <1>5, <1>8, <2>3, <2>4, <2>5, <2>6, <2>7 DEF DocOK
<1>11. SchemaOK' /\ NumberedOK'
  BY <1>2, <1>4, <1>5, SchemaKept, NumberedNext
<1>12. RowsOK'
  <2>1. i0 \in Body' /\ m_table' = doc'[i0].tag /\ m_row' = Row(i0)' /\ i0 \in 1..L
    BY <1>2, <1>6, <1>8
  <2>2. \A j \in Body' : j <= i0
    <3>1. \E i \in Body : m_table = doc[i].tag /\ m_row = Row(i) /\ \A j \in Body : j <= i
      BY <1>2 DEF RowsOK
    <3>2. PICK i \in Body : \A j \in Body : j <= i
      BY <3>1
    <3>3. Body \in SUBSET Int
      BY <1>8
    <3>4. Max(Body) = i
      BY <3>2, <3>3, MaxIs
    <3> QED BY <1>6, <1>8, <3>2, <3>4
  <2> QED BY <1>2, <1>8, <1>11, <2>1, <2>2 DEF RowsOK
<1>13. IdsOK'
  <2>1. \A i \in Tagged({"edge"})' :
            srcId'[Row(i)' + 1] = doc'[i].source /\ trgId'[Row(i)' + 1] = doc'[i].target
    BY <1>2, <1>8 DEF IdsOK
  <2>2. \A i \in Tagged({"node"})' : doc'[i].id \in DOMAIN nodeMap'
    BY <1>2, <1>8 DEF IdsOK
  <2>3. \A x \in DOMAIN nodeMap' : \E i \in Tagged({"node"})' : nodeMap'[x] = Row(i)' /\ doc'[i].id = x
    BY <1>2, <1>8 DEF IdsOK
  <2> QED BY <2>1, <2>2, <2>3 DEF IdsOK
<1>14. CellsOK'
  <2>1. DOMAIN cells' = DOMAIN cells
    BY <1>2
  <2>2. \A c \in DOMAIN cells' : \E i \in Body' : c[1] = doc'[i].tag /\ c[2] = Row(i)'
    <3>1. \A c \in DOMAIN cells : \E i \in Body : c[1] = doc[i].tag /\ c[2] = Row(i)
      BY <1>2 DEF CellsOK
    <3> SUFFICES ASSUME NEW c \in DOMAIN cells
                 PROVE  \E i \in Body' : c[1] = doc'[i].tag /\ c[2] = Row(i)'
      BY <2>1
    <3>2. PICK i \in Body : c[1] = doc[i].tag /\ c[2] = Row(i)
      BY <3>1
    <3>3. i \in Body' /\ doc'[i] = doc[i] /\ Row(i)' = Row(i)
      BY <1>8
    <3> QED BY <3>2, <3>3
  <2>3. ASSUME NEW i \in Body, NEW k \in KeyElements, doc[i].tag \in Tables(doc[k].key)
        PROVE  /\ <<doc[i].tag, Row(i), doc[k].key.name>> \in DOMAIN cells'
               /\ cells'[<<doc[i].tag, Row(i), doc[k].key.name>>] = ValueOf(i, k)'
    <3> DEFINE c == <<doc[i].tag, Row(i), doc[k].key.name>>
               c0 == <<m_table, m_row, idMap[id]>>
    <3>1. c \in DOMAIN cells /\ cells[c] = ValueOf(i, k)
      BY <1>2, <2>3 DEF CellsOK
    <3>2. /\ Given(i, k) \in SUBSET (1..L)
          /\ Given(i, k)' = IF i0 = i /\ k0 \in SameName(k)
                            THEN Given(i, k) \cup {L + 1} ELSE Given(i, k)
      <4>1. {k0} \subseteq SameName(k) <=> k0 \in SameName(k)
        OBVIOUS
      <4> QED BY <1>2, <1>4, <1>5, <1>9, <4>1, GivenNext
    <3>3. k0 \in SameName(k) <=> doc[k0].key.name = doc[k].key.name
      BY <1>7 DEF SameName
    <3>4. CASE i0 = i /\ k0 \in SameName(k)
      <4>1. c = c0
        BY <1>6, <1>7, <3>3, <3>4
      <4>2. cells'[c0] = v
        BY <1>2, <3>1, <4>1
      <4>3. Given(i, k)' = Given(i, k) \cup {L + 1}
        BY <3>2, <3>4
      <4>4. /\ Given(i, k)' \in SUBSET Int /\ L + 1 \in Given(i, k)'
            /\ \A y \in Given(i, k)' : y <= L + 1
        BY <1>8, <3>2, <4>3
      <4>5. Max(Given(i, k)') = L + 1
        BY <4>4, MaxIs
      <4>6. ValueOf(i, k)' = v
        BY <1>4, <1>8, <4>4, <4>5 DEF ValueOf
      <4> QED BY <2>1, <3>1, <4>1, <4>2, <4>6
    <3>5. CASE ~ (i0 = i /\ k0 \in SameName(k))
      <4>1. c # c0
        <5> SUFFICES ASSUME c = c0 PROVE FALSE
          OBVIOUS
        <5>1. doc[i].tag = m_table /\ Row(i) = m_row /\ doc[k].key.name = idMap[id]
          BY DEF c, c0
        <5>2. i \in Tagged({m_table}) /\ i0 \in Tagged({m_table})
          BY <1>6, <5>1 DEF Body, Tagged
        <5>3. \A j, l \in Tagged({m_table}) : Row(j) = Row(l) => j = l
          BY <1>2 DEF NumberedOK
        <5>4. i = i0
          BY <1>6, <5>1, <5>2, <5>3
        <5> QED BY <1>7, <3>3, <3>5, <5>1, <5>4
      <4>2. cells'[c] = cells[c]
        <5> HIDE DEF c, c0
        <5>1. cells' = [cells EXCEPT ![c0] = v]
          BY <1>2 DEF c0
        <5> QED BY <3>1, <4>1, <5>1
      <4>3. ValueOf(i, k)' = ValueOf(i, k)
        <5>1. Given(i, k)' = Given(i, k)
          BY <3>2, <3>5
        <5> QED BY <1>5, <3>2, <5>1, ValueKept
      <4> QED BY <2>1, <3>1, <4>2, <4>3
    <3> QED BY <3>4, <3>5
  <2>4. ASSUME NEW i \in Body', NEW k \in KeyElements', doc'[i].tag \in Tables(doc'[k].key)
        PROVE  /\ <<doc'[i].tag, Row(i)', doc'[k].key.name>> \in DOMAIN cells'
               /\ cells'[<<doc'[i].tag, Row(i)', doc'[k].key.name>>] = ValueOf(i, k)'
    <3>1. i \in Body /\ k \in KeyElements /\ doc'[i] = doc[i] /\ doc'[k] = doc[k] /\ Row(i)' = Row(i)
      BY <1>8
    <3> QED BY <2>3, <2>4, <3>1
  <2> QED BY <2>2, <2>4 DEF CellsOK
<1> QED BY <1>2, <1>10, <1>11, <1>12, <1>13, <1>14, StillReading DEF ReadOK

\* A value that is refused is one of the faults.
LEMMA DataRefusedDoc ==
  ASSUME DocInv, NEW id, NEW v \in Texts, id \in {k.id : k \in Keys},
         Data(id, v), DataRefused(id, v)
  PROVE  DocInv'
<1>1. PICK L : L = Len(doc)
  OBVIOUS
<1>2. PICK b \in BOOLEAN : b = (m_table # "none")
  OBVIOUS
<1> DEFINE e == [tag |-> "data", key |-> id, text |-> v, inside |-> b]
<1>3. /\ DocOK /\ SchemaOK /\ NumberedOK /\ RowsOK
      /\ phase' = "refused" /\ m_table' = m_table /\ m_table \in {"none", "node", "edge"}
  BY DEF Data, Reading, DocInv, ReadOK, RowsOK, Refuse, place
<1>4. Saw(e)
  BY <1>2 DEF Data
<1>5. e.tag = "data" /\ e.key = id /\ e.text = v /\ e.inside = b
  OBVIOUS
<1> HIDE DEF e
<1>6. Extends(e, L)
  BY <1>1, <1>3, <1>4, SawExtends DEF DocOK
<1>7. /\ L \in Nat /\ doc'[L + 1] = e /\ \A i \in 1..L : doc'[i] = doc[i]
      /\ KeyElements \in SUBSET (1..L) /\ Body \in SUBSET (1..L)
      /\ L + 1 \in Tagged({"data"})'
      /\ \A k \in 1..L : SameName(k)' = SameName(k)
      /\ KeyOf(L + 1)' = {k \in KeyElements :
               /\ doc[k].key.id = id
               /\ \A j \in KeyElements : doc[j].key.id = id => j <= k}
      /\ Owner(L + 1)' = Max(Body)
  BY <1>5, <1>6, TaggedNext, TaggedIn, KeysNext, OwnerNext DEF Body, KeyElements, Extends
<1>8. DataFault(L + 1)'
  <2>1. CASE m_table = "none"
    <3>1. ~ doc'[L + 1].inside
      BY <1>2, <1>5, <1>7, <2>1
    <3> QED BY <3>1 DEF DataFault
  <2>2. CASE id \notin DOMAIN idMap
    <3>1. \A k \in KeyElements : doc[k].key.id # id
      BY <1>3, <2>2 DEF SchemaOK
    <3>2. KeyOf(L + 1)' = {}
      BY <1>7, <3>1
    <3> QED BY <3>2 DEF DataFault
  <2>3. CASE m_table # "none" /\ id \in DOMAIN idMap /\ idMap[id] \notin DOMAIN Schema(m_table)
    <3>1. PICK k0 \in KeyElements : idMap[id] = doc[k0].key.name /\ KeyOf(L + 1)' = {k0}
      BY <1>3, <1>7, <2>3, OneKey
    <3>2. PICK i0 \in Body : m_table = doc[i0].tag /\ Max(Body) = i0
      BY <1>3, <2>3, CurrentIs
    <3>3. doc'[Owner(L + 1)'].tag = m_table
      BY <1>7, <3>2
    <3>4. \A j \in KeyElements : doc[j].key.name = idMap[id] => m_table \notin Tables(doc[j].key)
      BY <1>3, <2>3 DEF SchemaOK
    <3>5. \A j \in SameName(k0) : j \in KeyElements /\ doc[j].key.name = idMap[id]
      BY <3>1 DEF SameName
    <3>6. \A j \in SameName(k0)' : j \in SameName(k0) /\ doc'[j] = doc[j]
      BY <1>7, <3>1, <3>5
    <3> QED BY <3>1, <3>3, <3>4, <3>5, <3>6 DEF DataFault
  <2>4. CASE v \in Unreadable
    BY <1>5, <1>7, <2>4 DEF DataFault
  <2> QED BY <2>1, <2>2, <2>3, <2>4 DEF DataRefused
<1>9. DataFaults' # {}
  BY <1>7, <1>8 DEF DataFaults, DataFault
<1> QED BY <1>3, <1>9 DEF DocInv, RefusedForReason, Faulty, GraphIsDocument

----------------------------------------------------------------------------
(* The end.                                                                *)

LEMMA SameDoc ==
  ASSUME UNCHANGED doc
  PROVE  /\ \A T : Tagged(T)' = Tagged(T)
         /\ Body' = Body /\ KeyElements' = KeyElements
         /\ KeyFaults' = KeyFaults /\ DataFaults' = DataFaults /\ EdgeFaults' = EdgeFaults
         /\ \A t : Count(t)' = Count(t)
         /\ \A i : Row(i)' = Row(i) /\ Owner(i)' = Owner(i)
         /\ \A i, k : ValueOf(i, k)' = ValueOf(i, k)
<1>1. \A T : Tagged(T)' = Tagged(T)
  BY DEF Tagged
<1>2. Body' = Body /\ KeyElements' = KeyElements /\ \A t : Count(t)' = Count(t)
  BY <1>1 DEF Body, KeyElements, Count
<1>3. \A i : Row(i)' = Row(i) /\ Owner(i)' = Owner(i)
  <2>1. \A i : Row(i)' = Row(i)
    BY DEF Row, Tagged
  <2> QED BY <1>2, <2>1 DEF Owner
<1>4. \A i : KeyOf(i)' = KeyOf(i) /\ SameName(i)' = SameName(i)
  BY <1>2 DEF KeyOf, SameName
<1>5. KeyFaults' = KeyFaults /\ EdgeFaults' = EdgeFaults
  <2>1. KeyFaults' = KeyFaults
    BY <1>2 DEF KeyFaults
  <2>2. EdgeFaults' = EdgeFaults
    BY <1>1 DEF EdgeFaults
  <2> QED BY <2>1, <2>2
<1>6. DataFaults' = DataFaults
  <2>1. \A i : DataFault(i)' <=> DataFault(i)
    BY <1>3, <1>4 DEF DataFault
  <2> QED BY <1>1, <2>1 DEF DataFaults, DataFault
<1>7. \A i, k : Given(i, k)' = Given(i, k)
  BY <1>1, <1>3, <1>4 DEF Given
<1>8. \A i, k : ValueOf(i, k)' = ValueOf(i, k)
  BY <1>7 DEF ValueOf
<1> QED BY <1>1, <1>2, <1>3, <1>5, <1>6, <1>8

LEMMA EndElementDoc ==
  ASSUME DocInv, EndElement
  PROVE  DocInv'
<1>1. /\ DocOK /\ SchemaOK /\ RowsOK /\ IdsOK /\ CellsOK
      /\ phase = "body" /\ phase' = phase /\ m_table' = "none"
      /\ UNCHANGED doc /\ UNCHANGED schema
      /\ UNCHANGED <<nodeMap, m_nodes, srcId, trgId, cells>>
  BY DEF EndElement, DocInv, ReadOK, rows, columns
<1>2. DocOK' /\ IdsOK'
  BY <1>1, SameDoc DEF DocOK, IdsOK
<1>3. SchemaOK'
  <2>1. \A t : Schema(t)' = Schema(t)
    BY <1>1 DEF schema, Schema
  <2> QED BY <1>1, <2>1, SameDoc DEF SchemaOK, schema
<1>4. RowsOK'
  BY <1>1, SameDoc DEF RowsOK, NumberedOK
<1>5. CellsOK'
  BY <1>1, SameDoc DEF CellsOK
<1> QED BY <1>1, <1>2, <1>3, <1>4, <1>5, StillReading DEF ReadOK

\* The end of a document that is refused is a fault.
LEMMA EndRefusedDoc ==
  ASSUME ReaderInv, DocInv, EndDocument, phase' # "graph"
  PROVE  DocInv'
<1> DEFINE e == [tag |-> "end"]
<1>1. PICK L : L = Len(doc)
  OBVIOUS
<1>2. /\ DocOK /\ NumberedOK /\ RowsOK /\ IdsOK
      /\ phase' = "refused" /\ m_table' = "none" /\ Saw(e)
      /\ phase = "schema" \/ ~(ToSet(srcId) \cup ToSet(trgId) \subseteq DOMAIN nodeMap)
  BY DEF EndDocument, DocInv, ReadOK, RowsOK, Refuse, place
<1>3. e.tag = "end"
  OBVIOUS
<1> HIDE DEF e
<1>4. Extends(e, L)
  BY <1>1, <1>2, SawExtends DEF DocOK
<1>5. /\ L \in Nat /\ \A i \in 1..L : doc'[i] = doc[i]
      /\ L + 1 \in Tagged({"end"})' /\ Body' = Body
      /\ Tagged({"node"})' = Tagged({"node"}) /\ Tagged({"edge"})' = Tagged({"edge"})
  BY <1>3, <1>4, TaggedNext DEF Extends, Body
<1>6. \A T : Tagged(T) \in SUBSET (1..L)
  BY <1>4, TaggedIn DEF Extends
<1>7. EdgeFaults' # {} \/ Body' = {}
  <2>1. CASE phase = "schema"
    BY <1>2, <1>5, <2>1 DEF DocOK
  <2>2. CASE ~(ToSet(srcId) \cup ToSet(trgId) \subseteq DOMAIN nodeMap)
    <3> DEFINE m == Count("edge")
    <3>1. /\ m \in Nat /\ Len(srcId) = m /\ Len(trgId) = m
          /\ DOMAIN srcId = 1..m /\ DOMAIN trgId = 1..m
      <4>1. m \in Nat
        BY <1>4, CountNext
      <4> QED BY <1>2, <4>1 DEF RowsOK, ReaderInv
    <3> HIDE DEF m
    <3>2. PICK p \in 1..m : srcId[p] \notin DOMAIN nodeMap \/ trgId[p] \notin DOMAIN nodeMap
      BY <2>2, <3>1 DEF ToSet
    <3>3. p - 1 \in 0..m - 1 /\ p - 1 + 1 = p
      BY <3>1
    <3>4. PICK i \in Tagged({"edge"}) : Row(i) = p - 1
      BY <1>2, <3>3 DEF NumberedOK, m
    <3>5. doc[i].source \notin DOMAIN nodeMap \/ doc[i].target \notin DOMAIN nodeMap
      BY <1>2, <3>2, <3>3, <3>4 DEF IdsOK
    <3>6. PICK id \in {doc[i].source, doc[i].target} : id \notin DOMAIN nodeMap
      BY <3>5
    <3>7. \A j \in Tagged({"node"}) : doc[j].id # id
      BY <1>2, <3>6 DEF IdsOK
    <3>8. /\ i \in Tagged({"edge"})' /\ doc'[i] = doc[i]
          /\ \A j \in Tagged({"node"})' : doc'[j] = doc[j] /\ j \in Tagged({"node"})
      BY <1>5, <1>6
    <3> QED BY <3>7, <3>8 DEF EdgeFaults
  <2> QED BY <1>2, <2>1, <2>2
<1> QED BY <1>2, <1>5, <1>7 DEF DocInv, RefusedForReason, Faulty, GraphIsDocument

\* The id of a row is that of its element.
LEMMA IdOfRow ==
  ASSUME NumberedOK', NEW j \in Tagged({"node"})', doc'[j].id \in NodeIds,
         NEW r, r = Row(j)'
  PROVE  IdOf(r)' = doc'[j].id
<1>1. \A i \in Tagged({"node"})' : Row(i)' = r => i = j
  BY DEF NumberedOK
<1>2. \A id \in NodeIds :
         (\E i \in Tagged({"node"})' : Row(i)' = r /\ doc'[i].id = id) <=> id = doc'[j].id
  BY <1>1
<1> QED BY <1>2 DEF IdOf

LEMMA EndGraphDoc ==
  ASSUME ReaderInv, DocInv, EndDocument, phase' = "graph"
  PROVE  DocInv'
<1> DEFINE e == [tag |-> "end"]
           n == Count("node")
           m == Count("edge")
<1>1. PICK L : L = Len(doc)
  OBVIOUS
<1>2. /\ DocOK /\ NumberedOK /\ RowsOK /\ IdsOK /\ CellsOK
      /\ phase = "body" /\ m_table' = "none" /\ Saw(e)
      /\ ToSet(srcId) \cup ToSet(trgId) \subseteq DOMAIN nodeMap
      /\ nodes' = m_nodes /\ edges' = m_edges
      /\ ends' = [x \in EdgeRows |-> IF x \in Valid(m_edges) THEN EndsOf(x) ELSE NoEnds]
      /\ UNCHANGED <<nodeMap, srcId, trgId, cells>>
  BY DEF EndDocument, DocInv, ReadOK, RowsOK, Refuse, place, columns
<1>3. e.tag = "end"
  OBVIOUS
<1> HIDE DEF e
<1>4. Extends(e, L)
  BY <1>1, <1>2, SawExtends DEF DocOK
<1>5. /\ L \in Nat /\ \A i \in 1..L : doc'[i] = doc[i] /\ Row(i)' = Row(i)
      /\ Body' = Body /\ KeyElements' = KeyElements
      /\ \A t \in {"node", "edge", "data"} : Tagged({t})' = Tagged({t})
  <2>1. L \in Nat /\ \A i \in 1..L : doc'[i] = doc[i] /\ Row(i)' = Row(i)
    BY <1>4, RowNext DEF Extends
  <2>2. /\ Body' = Body /\ KeyElements' = KeyElements
        /\ \A t \in {"node", "edge", "data"} : Tagged({t})' = Tagged({t})
    BY <1>3, <1>4, TaggedNext DEF Body, KeyElements
  <2> QED BY <2>1, <2>2
<1>6. \A T : Tagged(T) \in SUBSET (1..L)
  BY <1>4, TaggedIn DEF Extends
<1>7. n \in Nat /\ m \in Nat
  BY <1>4, CountNext
<1>8. Valid(nodes') = 0..n - 1 /\ Valid(edges') = 0..m - 1 /\ Valid(m_edges) = 0..m - 1
  <2>1. nodes' = Rows(n) /\ edges' = Rows(m) /\ m_edges = Rows(m)
    BY <1>2 DEF RowsOK, ReaderInv
  <2> QED BY <1>7, <2>1, RowsAreValid
<1>9. /\ Valid(nodes') = {Row(i)' : i \in Tagged({"node"})'}
      /\ Valid(edges') = {Row(i)' : i \in Tagged({"edge"})'}
  <2>1. {Row(i) : i \in Tagged({"node"})} = 0..n - 1
    BY <1>2 DEF NumberedOK
  <2>2. {Row(i) : i \in Tagged({"edge"})} = 0..m - 1
    BY <1>2 DEF NumberedOK
  <2>3. \A i \in Tagged({"node"}) \cup Tagged({"edge"}) : Row(i)' = Row(i)
    BY <1>5, <1>6
  <2> HIDE DEF n, m
  <2> QED BY <1>5, <1>8, <2>1, <2>2, <2>3
<1>10. NumberedOK'
  BY <1>2, <1>4, NumberedNext
<1>11. ASSUME NEW i \in Tagged({"edge"})'
       PROVE  /\ i \in Tagged({"edge"}) /\ doc'[i] = doc[i] /\ Row(i)' = Row(i)
              /\ Row(i) \in 0..m - 1
              /\ srcId[Row(i) + 1] = doc[i].source /\ trgId[Row(i) + 1] = doc[i].target
              /\ doc[i].source \in DOMAIN nodeMap /\ doc[i].target \in DOMAIN nodeMap
  <2>1. i \in Tagged({"edge"}) /\ doc'[i] = doc[i] /\ Row(i)' = Row(i)
    BY <1>5, <1>6
  <2>2. Row(i) \in 0..m - 1
    BY <1>2, <2>1 DEF NumberedOK
  <2>3. srcId[Row(i) + 1] = doc[i].source /\ trgId[Row(i) + 1] = doc[i].target
    BY <1>2, <2>1 DEF IdsOK
  <2>4. Len(srcId) = m /\ Len(trgId) = m
    BY <1>2 DEF RowsOK
  <2>5. Row(i) + 1 \in DOMAIN srcId /\ Row(i) + 1 \in DOMAIN trgId
    <3>1. Row(i) + 1 \in 1..m
      BY <1>7, <2>2
    <3>2. DOMAIN srcId = 1..m /\ DOMAIN trgId = 1..m
      BY <2>4, LenProperties DEF ReaderInv
    <3> QED BY <3>1, <3>2
  <2> QED BY <1>2, <2>1, <2>2, <2>3, <2>5 DEF ToSet
<1>12. ASSUME NEW x \in DOMAIN nodeMap, NEW r, r = nodeMap[x]
       PROVE  IdOf(r)' = x
  <2>1. PICK j \in Tagged({"node"}) : nodeMap[x] = Row(j) /\ doc[j].id = x
    BY <1>2 DEF IdsOK
  <2>2. j \in Tagged({"node"})' /\ doc'[j] = doc[j] /\ Row(j)' = r
    BY <1>5, <1>6, <1>12, <2>1
  <2>3. doc[j].id \in NodeIds
    <3>1. doc[j] \in Elements /\ doc[j].tag = "node"
      BY <1>2, <2>1 DEF DocOK, Tagged
    <3> QED BY <3>1, ElementFields
  <2> QED BY <1>10, <2>1, <2>2, <2>3, IdOfRow
<1>13. ASSUME NEW i \in Tagged({"edge"})', NEW r1, NEW r2,
              r1 = ends'[Row(i)'][1], r2 = ends'[Row(i)'][2]
       PROVE  IdOf(r1)' = doc'[i].source /\ IdOf(r2)' = doc'[i].target
  <2>1. Row(i) \in Valid(m_edges) /\ Row(i) \in EdgeRows
    <3>1. m <= MaxEdges /\ MaxEdges \in Nat
      BY <1>2, GraphAssumption DEF RowsOK, ReaderInv
    <3> QED BY <1>7, <1>8, <1>11, <3>1 DEF EdgeRows
  <2>2. ends'[Row(i)] = EndsOf(Row(i))
    BY <1>2, <2>1
  <2>3. ends'[Row(i)] = <<nodeMap[doc[i].source], nodeMap[doc[i].target]>>
    BY <1>11, <2>2 DEF EndsOf
  <2>4. r1 = nodeMap[doc[i].source] /\ r2 = nodeMap[doc[i].target]
    BY <1>11, <1>13, <2>3
  <2>5. PICK s, t : s = doc[i].source /\ t = doc[i].target
    OBVIOUS
  <2>6. IdOf(r1)' = s /\ IdOf(r2)' = t
    BY <1>11, <1>12, <2>4, <2>5
  <2> QED BY <1>11, <2>5, <2>6
<1>14. ASSUME NEW i \in Body', NEW k \in KeyElements', doc'[i].tag \in Tables(doc'[k].key)
       PROVE  cells'[<<doc'[i].tag, Row(i)', doc'[k].key.name>>] = ValueOf(i, k)'
  <2>1. /\ i \in Body /\ k \in KeyElements /\ doc'[i] = doc[i] /\ doc'[k] = doc[k]
        /\ Row(i)' = Row(i)
    BY <1>5, <1>6, <1>14 DEF Body, KeyElements
  <2>2. Given(i, k) \in SUBSET (1..L) /\ Given(i, k)' = Given(i, k)
    BY <1>2, <1>3, <1>4, <2>1, GivenNext
  <2>3. ValueOf(i, k)' = ValueOf(i, k)
    BY <1>4, <2>1, <2>2, ValueKept
  <2> QED BY <1>2, <1>14, <2>1, <2>3 DEF CellsOK
<1>15. GraphIsDocument'
  <2>1. GraphInit'
    BY EndDocumentInit
  <2>2. \A i \in Tagged({"edge"})' :
            <<IdOf(ends[Row(i)][1])', IdOf(ends[Row(i)][2])'>> = <<doc'[i].source, doc'[i].target>>
    BY <1>13
  <2> QED BY <1>9, <1>14, <2>1, <2>2 DEF GraphIsDocument
<1>16. ~ Faulty'
  <2>1. KeyFaults' = {}
    BY <1>2, <1>3, <1>4, KeyFaultsKept
  <2>2. DataFaults' = {}
    <3>1. \A i \in Tagged({"data"})' : ~ DataFault(i)'
      BY <1>2, <1>3, <1>4, <1>5, DataFaultKept
    <3> QED BY <3>1 DEF DataFaults, DataFault
  <2>3. EdgeFaults' = {}
    <3>1. ASSUME NEW i \in Tagged({"edge"})', NEW id \in {doc'[i].source, doc'[i].target}
          PROVE  \E j \in Tagged({"node"})' : doc'[j].id = id
      <4>1. id \in DOMAIN nodeMap
        BY <1>11, <3>1
      <4>2. PICK j \in Tagged({"node"}) : doc[j].id = id
        BY <1>2, <4>1 DEF IdsOK
      <4> QED BY <1>5, <1>6, <4>2
    <3> QED BY <3>1 DEF EdgeFaults
  <2>4. Body' # {}
    BY <1>2, <1>5 DEF DocOK
  <2> QED BY <2>1, <2>2, <2>3, <2>4 DEF Faulty
<1> QED BY <1>2, <1>15, <1>16 DEF DocInv, RefusedForReason

----------------------------------------------------------------------------
(* What is read is the document.                                           *)

LEMMA DocInitial == Init => DocInv
<1> SUFFICES ASSUME Init PROVE DocInv
  OBVIOUS
<1>1. /\ phase = "schema" /\ doc = <<>> /\ m_table = "none" /\ m_nodes = NoRows
      /\ srcId = <<>> /\ trgId = <<>>
      /\ DOMAIN nsch = {} /\ DOMAIN esch = {} /\ DOMAIN idMap = {}
      /\ DOMAIN nodeMap = {} /\ DOMAIN cells = {}
  BY DEF Init, Nothing
<1>2. \A T : Tagged(T) = {}
  <2>1. DOMAIN doc = {}
    BY <1>1
  <2> QED BY <2>1 DEF Tagged
<1>3. Body = {} /\ KeyElements = {} /\ \A t : Count(t) = 0
  BY <1>2, FS_EmptySet DEF Body, KeyElements, Count
<1>4. DocOK
  BY <1>1, <1>2, <1>3 DEF DocOK, KeyFaults, DataFaults
<1>5. SchemaOK
  BY <1>1, <1>3 DEF SchemaOK, Schema
<1>6. RowsOK
  <2>1. NumberedOK
    BY <1>2, <1>3 DEF NumberedOK
  <2>2. NoRows = Rows(0)
    BY DEF Rows, NoRows
  <2> QED BY <1>1, <1>3, <2>1, <2>2 DEF RowsOK
<1>7. IdsOK /\ CellsOK
  BY <1>1, <1>2, <1>3 DEF IdsOK, CellsOK
<1> QED BY <1>1, <1>4, <1>5, <1>6, <1>7 DEF DocInv, ReadOK, RefusedForReason, GraphIsDocument

\* While a document is read there is no graph that was edited.
ReadingInv == phase # "graph" => ReaderInv

LEMMA ReadingStep ==
  ASSUME ReadingInv, [Next]_<<readerVars, graphVars>>
  PROVE  ReadingInv'
<1>1. CASE phase = "graph"
  <2>1. phase' = "graph"
    BY <1>1 DEF Next, Read, Key, StartNode, StartEdge, Data, EndElement, EndDocument, Reading,
                Edit, Refused, readerVars
  <2> QED BY <2>1 DEF ReadingInv
<1>2. CASE phase # "graph"
  BY <1>2, ReadStep DEF ReadingInv, Next, Edit
<1> QED BY <1>1, <1>2

LEMMA DocStep ==
  ASSUME ReadingInv, DocInv, [Next]_<<readerVars, graphVars>>
  PROVE  DocInv'
<1>1. CASE Read
  <2> ReaderInv
    BY <1>1 DEF ReadingInv, Read, Key, StartNode, StartEdge, Data, EndElement, EndDocument, Reading
  <2>1. ASSUME NEW k \in Keys, NEW d \in Texts \cup {NoText}, Key(k, d) PROVE DocInv'
    BY <2>1, KeyDoc, KeyRefusedDoc
  <2>2. ASSUME NEW id \in {k.id : k \in Keys}, NEW v \in Texts, Data(id, v) PROVE DocInv'
    BY <2>2, DataDoc, DataRefusedDoc
  <2>3. CASE EndDocument
    BY <2>3, EndRefusedDoc, EndGraphDoc
  <2> QED BY <1>1, <2>1, <2>2, <2>3, StartNodeDoc, StartEdgeDoc, EndElementDoc DEF Read
<1>2. CASE Edit
  <2>1. phase' = "graph" /\ m_table' = m_table /\ doc' = <<>>
    BY <1>2 DEF Edit, place
  <2>2. \A T : Tagged(T)' = {}
    <3>1. DOMAIN doc' = {}
      BY <2>1
    <3> QED BY <3>1 DEF Tagged
  <2>3. ~ Faulty'
    BY <2>2 DEF Faulty, KeyFaults, DataFaults, KeyElements
  <2> QED BY <2>1, <2>3 DEF DocInv, RefusedForReason, GraphIsDocument
<1>3. CASE Refused \/ UNCHANGED <<readerVars, graphVars>>
  <2>1. UNCHANGED <<phase, doc, nsch, esch, idMap, nodeMap, m_nodes, srcId, trgId, cells, m_table, m_row>>
    BY <1>3 DEF Refused, readerVars
  <2>2. CASE phase \in {"schema", "body"}
    <3>1. \A t : Schema(t)' = Schema(t)
      BY <2>1 DEF Schema
    <3>2. ReadOK
      BY <2>2 DEF DocInv
    <3>3. DocOK' /\ IdsOK'
      BY <2>1, <3>2, SameDoc DEF DocOK, IdsOK, ReadOK
    <3>4. SchemaOK'
      BY <2>1, <3>1, <3>2, SameDoc DEF SchemaOK, ReadOK
    <3>5. RowsOK'
      BY <2>1, <3>2, SameDoc DEF RowsOK, NumberedOK, ReadOK
    <3>6. CellsOK'
      BY <2>1, <3>2, SameDoc DEF CellsOK, ReadOK
    <3> QED BY <2>1, <2>2, <3>3, <3>4, <3>5, <3>6, StillReading DEF ReadOK, DocInv
  <2>3. CASE phase = "refused"
    <3>1. Faulty'
      BY <2>1, <2>3, SameDoc DEF DocInv, RefusedForReason, Faulty
    <3> QED BY <2>1, <2>3, <3>1 DEF DocInv, RefusedForReason, GraphIsDocument
  <2>4. CASE phase = "graph"
    <3>1. /\ UNCHANGED graphVars /\ UNCHANGED <<nodes, edges, ends>>
          /\ ~ Faulty /\ (doc = <<>> \/ GraphIsDocument)
      BY <1>3, <2>4 DEF Refused, graphVars, tables, DocInv, RefusedForReason
    <3>2. GraphInit' <=> GraphInit
      BY <3>1 DEF GraphInit, graphVars, tables, adjacency, tuples
    <3>3. ~ Faulty'
      BY <2>1, <3>1, SameDoc DEF Faulty
    <3>4. \A r : IdOf(r)' = IdOf(r)
      BY <2>1, SameDoc DEF IdOf
    <3>5. GraphIsDocument'
      BY <2>1, <2>4, <3>1, <3>2, <3>4, SameDoc DEF GraphIsDocument
    <3> QED BY <2>1, <2>4, <3>3, <3>5 DEF DocInv, RefusedForReason
  <2> QED BY <2>2, <2>3, <2>4 DEF DocInv
<1> QED BY <1>1, <1>2, <1>3 DEF Next

\* What was read, the schemas, the rows and the cells agree after every element.
THEOREM DocSafe == Spec => []DocInv
<1>1. Init => ReadingInv /\ DocInv
  BY ReaderInitial, DocInitial DEF ReadingInv
<1>2. ReadingInv /\ DocInv /\ [Next]_<<readerVars, graphVars>> => ReadingInv' /\ DocInv'
  BY ReadingStep, DocStep
<1> QED BY <1>1, <1>2, PTL DEF Spec

\* Only a file with a fault is refused, and one with a fault never gets a graph:
\* whatever the order of its elements and the point where the fault is seen.
THEOREM RefusalHasReason == Spec => []RefusedForReason
<1>1. DocInv => RefusedForReason
  BY DEF DocInv
<1> QED BY DocSafe, <1>1, PTL

\* The graph of a file of any length is what the file says: its nodes and edges
\* in their order, the ids at each edge's ends, and the values in their columns.
THEOREM GraphReadIsDocument == Spec => []GraphIsDocument
<1>1. DocInv => GraphIsDocument
  BY DEF DocInv
<1> QED BY DocSafe, <1>1, PTL

=============================================================================
