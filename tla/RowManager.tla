----------------------------- MODULE RowManager -----------------------------
(***************************************************************************)
(* The rows of a table (prefuse.data.util.RowManager) and the tuple        *)
(* objects handed out for them (prefuse.data.tuple.TupleManager), as       *)
(* records: rows first..cur are occupied but for the holes in open.        *)
(***************************************************************************)
EXTENDS Integers, FiniteSetsExt

NoRows == [first |-> 0, cur |-> -1, open |-> {}]
\* The rows of a table that n rows were added to.
Rows(n) == [NoRows EXCEPT !.cur = n - 1]

\* isValidRow
Valid(rm) == (rm.first .. rm.cur) \ rm.open
RowCount(rm) == 1 + rm.cur - rm.first - Cardinality(rm.open)

RowManagerOK(rm) ==
    /\ rm \in [first : Nat, cur : Nat \cup {-1}, open : SUBSET Nat]
    /\ rm.first <= rm.cur + 1
    /\ rm.open \subseteq rm.first .. rm.cur

\* The row addRow returns: the lowest hole, or one next to the others.
NewRow_Above(rm) == IF rm.open = {} THEN rm.cur + 1 ELSE Min(rm.open)
NewRow_Count(rm) == RowCount(rm)
NewRow(rm) ==
    CASE rm.open # {} -> Min(rm.open)
      [] rm.open = {} /\ rm.first = 0 -> rm.cur + 1
      [] OTHER -> rm.first - 1

AddRow(rm) ==
    CASE rm.open # {} -> [rm EXCEPT !.open = @ \ {NewRow(rm)}]
      [] rm.open = {} /\ rm.first = 0 -> [rm EXCEPT !.cur = NewRow(rm)]
      [] OTHER -> [rm EXCEPT !.first = NewRow(rm)]

\* releaseRow of an occupied row
ReleaseRow(rm, r) ==
    CASE r = rm.cur -> [rm EXCEPT !.cur = @ - 1]
      [] r # rm.cur /\ r = rm.first -> [rm EXCEPT !.first = @ + 1]
      [] OTHER -> [rm EXCEPT !.open = @ \cup {r}]

-----------------------------------------------------------------------------
\* A tuple manager: the length of its array and the rows with a tuple in it.

NoTuples == [len |-> 0, rows |-> {}]

\* ensureTupleArray: by the number of rows, although rows index the array.
EnsureTupleArray(tm, rm) ==
    IF tm.len >= RowCount(rm) THEN tm
    ELSE [tm EXCEPT !.len = Max({(3 * @) \div 2 + 1, RowCount(rm)})]

\* getTuple of a valid row; beyond the array it throws and returns nothing.
GetTuple(tm, rm, r) ==
    LET ensured == EnsureTupleArray(tm, rm) IN
    IF r < ensured.len THEN [ensured EXCEPT !.rows = @ \cup {r}] ELSE ensured

Invalidate_Kept(tm, r) == tm
Invalidate(tm, r) == [tm EXCEPT !.rows = @ \ {r}]
InvalidateAll(tm) == [tm EXCEPT !.rows = {}]
=============================================================================
