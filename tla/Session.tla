------------------------------ MODULE Session -------------------------------
(***************************************************************************)
(* The variables of the client being served, and the queries that bind     *)
(* them, on one table: positions found by a select, values fetched at      *)
(* them, positions narrowed by a second select, joins, aggregates.         *)
(*                                                                         *)
(* A binding carries, beside its vector, auxiliary components that no      *)
(* guard or value depends on: the rows that its positions stand for, or    *)
(* the terms that its values stand for, each a cell of the table with its  *)
(* sign; and the column its values are of and the positions they were      *)
(* fetched at.                                                             *)
(***************************************************************************)
EXTENDS Joins, Vectors

CONSTANTS
  MinData, MaxData, \* the range of an int, which null operands stand for
  Rows,             \* the rows that clients insert: the values of two columns
  Ranges,           \* the pairs of operands of a select, Null for null
  MaxRows, MaxVars, \* bounds on the table and on the variables of a session
  MaxSums,          \* bound on those of them that add and sub bind
  Null

ASSUME RangeAssumption == MinData \in Int /\ MaxData \in Int /\ MinData <= MaxData
ASSUME RowAssumption == Rows \subseteq [{1, 2} -> MinData .. MaxData]
ASSUME QueryAssumption == Ranges \subseteq (Int \cup {Null}) \X (Int \cup {Null})
ASSUME BoundAssumption == MaxRows \in Nat /\ MaxVars \in Nat /\ MaxSums \in Nat

VARIABLES
  tbl,     \* the rows in the order of their positions: number and values
  primary, \* is the first column the primary one, by which the rows are sorted?
  pool,    \* the bindings of the session, oldest first
  moved    \* has an insert moved rows since the first binding?

vars == <<tbl, primary, pool, moved>>

Columns == {1, 2}

Column(c) == [p \in DOMAIN tbl |-> tbl[p].vals[c]]

\* The number of the row at a position, 0 past the table.
RowAt(p) == IF p \in DOMAIN tbl THEN tbl[p].row ELSE 0

ValueOf(row, c) == LET p == CHOOSE q \in DOMAIN tbl : tbl[q].row = row IN tbl[p].vals[c]

\* A cell of the table, and what a sequence of terms stands for.
Cell(row, c) == [sign |-> 1, row |-> row, col |-> c]
Meaning(terms) ==
  FoldLeft(LAMBDA sum, t : sum + t.sign * ValueOf(t.row, t.col), 0, terms)

\* A binding as the handlers make it; Bind names it.
Positions(v, rows) ==
  [name |-> 0, kind |-> "positions", v |-> v, rows |-> rows, terms |-> <<>>, col |-> 0, from |-> 0]
Fetched(v, rows, c, p) ==
  [name |-> 0, kind |-> "values", v |-> v, rows |-> rows, col |-> c, from |-> p,
   terms |-> [i \in DOMAIN rows |-> <<Cell(rows[i], c)>>]]
Sum(v, terms) ==
  [name |-> 0, kind |-> "sum", v |-> v, rows |-> <<>>, terms |-> terms, col |-> 0, from |-> 0]
Number(kind, v, terms) ==
  [name |-> 0, kind |-> kind, v |-> v, rows |-> <<>>, terms |-> terms, col |-> 0, from |-> 0]

\* A name no binding has yet.  Names are numbers above those of the columns.
NewName == Len(pool) + Cardinality(Columns) + 1

\* get_var_by_name: the oldest binding of the name.
GetVarByName(name) == pool[Min({ k \in DOMAIN pool : pool[k].name = name })]

Names(kind) == { pool[k].name : k \in { j \in DOMAIN pool : pool[j].kind = kind } }
Numbers     == Names("min") \cup Names("max") \cup Names("avg")

\* An argument var_or_col: a column, as it is, or the vector of a variable.
VarOrCol(o) ==
  IF o \in Columns THEN Fetched(Column(o), [p \in DOMAIN tbl |-> RowAt(p)], o, 0)
                   ELSE GetVarByName(o)

\* The vectors of values that clients name in calculations.
Operands == Columns \cup Names("values") \cup Names("sum")

\* The values that were fetched at the positions p, as the scripts pair them.
FetchedAt(p) == { w \in Names("values") : GetVarByName(w).from = p }
---------------------------------------------------------------------------
(* Operands.                                                               *)

\* A number as the scanner reads it, into an int.
Atoi(n) == MinData + ((n - MinData) % (MaxData - MinData + 1))

Low(low)   == IF low = Null THEN MinData ELSE Atoi(low)
High(high) == IF high = Null THEN MaxData ELSE Atoi(high)

\* An upper bound that stays whatever it was read as.
HighAsRead(low, high) == High(high)

\* selectv drops an upper bound that is below the lower one: so it answers for
\* a bound that no int holds.  A null high is not there to be dropped; with a
\* null low the comparison reads an uninitialised number, and the scripts never
\* do that.
HighOfSelectv(low, high) ==
  IF high # Null /\ Atoi(high) < Atoi(low) THEN MaxData ELSE High(high)
---------------------------------------------------------------------------
(* The handlers.                                                           *)

\* add_vector_var, add_data_var, add_float_var: behind all other bindings.  To
\* bound it, a session binds nothing twice, and ends in its calculations: sums and
\* differences, and at last one number, which is no argument of any query.
Bind(bindings) ==
  /\ Len(pool) + Len(bindings) <= MaxVars
  /\ \A k \in DOMAIN pool : [pool[k] EXCEPT !.name = 0] # bindings[1]
  /\ Numbers = {}
  /\ Names("sum") # {} => bindings[1].kind \notin {"positions", "values"}
  /\ pool' = pool \o [k \in DOMAIN bindings |->
                        [bindings[k] EXCEPT !.name = NewName + k - 1]]
  /\ UNCHANGED <<tbl, primary, moved>>

Init ==
  /\ tbl = <<>>
  /\ primary \in BOOLEAN
  /\ pool = <<>>
  /\ moved = FALSE

\* relational_insert with its sort, as TableStore has it.
RelationalInsert(vals) ==
  /\ Len(tbl) < MaxRows
  /\ LET appended == Append(tbl, [row |-> Len(tbl) + 1, vals |-> vals])
     IN  IF primary
         THEN \E p \in SortedPositions([q \in DOMAIN appended |-> appended[q].vals[1]]) :
                tbl' = SortVectorFromPositions(appended, p)
         ELSE tbl' = appended
  /\ moved' = (moved \/ (pool # <<>> /\ \E p \in DOMAIN tbl : tbl'[p] # tbl[p]))
  /\ UNCHANGED <<primary, pool>>

\* <name>=select(...): by bisection on the primary column, by a scan otherwise.
Select(c, low, high) ==
  LET found == IF c = 1 /\ primary THEN SelectPrimary(Column(c), Low(low), High(high))
                                   ELSE SelectUnsorted(Column(c), Low(low), High(high))
      v == Ordered(found)
  IN  Bind(<<Positions(v, [k \in DOMAIN v |-> RowAt(v[k])])>>)

\* <name>=fetch(...).
Fetch(c, p) ==
  LET at == GetVarByName(p)
  IN  Bind(<<Fetched(FetchAt(Column(c), at.v), at.rows, c, p)>>)

\* <name>=selectv(...): select_two, of positions and the values fetched there.
SelectTwo(p, w, low, high) ==
  LET pos  == GetVarByName(p)
      val  == GetVarByName(w)
      hits == SelectTwoHits(val.v, Low(low), HighOfSelectv(low, high))
      InRange(row) == /\ low = Null \/ low <= ValueOf(row, val.col)
                      /\ high = Null \/ ValueOf(row, val.col) < high
      meant == Ordered({ i \in DOMAIN pos.rows : InRange(pos.rows[i]) })
  IN  /\ low # Null
      /\ Bind(<<Positions(FetchAt(pos.v, hits),
                          IF moved THEN FetchAt(pos.rows, hits)
                                   ELSE FetchAt(pos.rows, meant))>>)

\* The two variables that a join binds.
Joined(p1, p2, pairs) ==
  LET first == GetVarByName(p1)  second == GetVarByName(p2)
  IN  Bind(<<Positions([k \in DOMAIN pairs |-> first.v[pairs[k][1]]],
                       [k \in DOMAIN pairs |-> first.rows[pairs[k][1]]]),
             Positions([k \in DOMAIN pairs |-> second.v[pairs[k][2]]],
                       [k \in DOMAIN pairs |-> second.rows[pairs[k][2]]])>>)

\* <name>,<name>=nested_join(...) and hashjoin(...).  The remainder of a negative
\* value is negative, and hashjoin then writes before its table: the model has no
\* step for that.
Hashable(v) == \A x \in Range(v) : x >= 0
Nested(p1, w1, p2, w2) == Joined(p1, p2, NestedJoin(GetVarByName(w1).v, GetVarByName(w2).v))
Hashed(p1, w1, p2, w2) ==
  LET v1 == GetVarByName(w1).v  v2 == GetVarByName(w2).v
  IN  Hashable(v1) /\ Hashable(v2) /\ Joined(p1, p2, HashJoin(v1, v2))

\* A failed assertion: the server is gone with its session, and as nothing was
\* saved the next one starts with an empty table.
Die == tbl' = <<>> /\ pool' = <<>> /\ moved' = FALSE /\ UNCHANGED primary

\* <name>=min(...) and max(...): an assertion fails on no values.
Minimum(o) ==
  LET val == VarOrCol(o)
  IN  IF val.v = <<>> THEN Die ELSE Bind(<<Number("min", <<MinOf(val.v)>>, val.terms)>>)
Maximum(o) ==
  LET val == VarOrCol(o)
  IN  IF val.v = <<>> THEN Die ELSE Bind(<<Number("max", <<MaxOf(val.v)>>, val.terms)>>)

\* <name>=avg(...): of no values it is not a number, but no failure.
Average(o) == LET val == VarOrCol(o) IN Bind(<<Number("avg", AvgOf(val.v), val.terms)>>)

\* The bound on sums: one of two columns, as they are, comes first in its session,
\* and one of a column and a variable leaves room for its aggregate.
HasRoom(o1, o2) ==
  /\ Cardinality(Names("sum")) < MaxSums
  /\ {o1, o2} \cap Columns # {} => Len(pool) + 1 < MaxVars
  /\ {o1, o2} \subseteq Columns => pool = <<>>

\* <name>=add(...) and sub(...): an assertion fails on vectors that differ in length.
Add(o1, o2) ==
  LET v1 == VarOrCol(o1)  v2 == VarOrCol(o2)
  IN  /\ HasRoom(o1, o2)
      /\ IF Len(v1.v) # Len(v2.v) THEN Die
         ELSE Bind(<<Sum(AddVectors(v1.v, v2.v),
                         [i \in DOMAIN v1.terms |-> v1.terms[i] \o v2.terms[i]])>>)
Sub(o1, o2) ==
  LET v1 == VarOrCol(o1)  v2 == VarOrCol(o2)
      Negated(i) == [k \in DOMAIN v2.terms[i] |-> [v2.terms[i][k] EXCEPT !.sign = -@]]
  IN  /\ HasRoom(o1, o2)
      /\ IF Len(v1.v) # Len(v2.v) THEN Die
         ELSE Bind(<<Sum(SubVectors(v1.v, v2.v),
                         [i \in DOMAIN v1.terms |-> v1.terms[i] \o Negated(i)])>>)

\* The client goes: destroy_vars.
Disconnect == pool # <<>> /\ pool' = <<>> /\ moved' = FALSE /\ UNCHANGED <<tbl, primary>>

Pairs == { a \in Names("positions") \X Names("values") : a[2] \in FetchedAt(a[1]) }

Next ==
  \/ \E vals \in Rows : RelationalInsert(vals)
  \/ \E c \in Columns, r \in Ranges : Select(c, r[1], r[2])
  \/ \E c \in Columns, p \in Names("positions") : Fetch(c, p)
  \/ \E a \in Pairs, r \in Ranges : SelectTwo(a[1], a[2], r[1], r[2])
  \/ \E a, b \in Pairs : Nested(a[1], a[2], b[1], b[2])
  \/ \E a, b \in Pairs : Hashed(a[1], a[2], b[1], b[2])
  \/ \E o \in Operands : Minimum(o)
  \/ \E o \in Operands : Maximum(o)
  \/ \E o \in Operands : Average(o)
  \/ \E o1, o2 \in Operands : Add(o1, o2)
  \/ \E o1, o2 \in Operands : Sub(o1, o2)
  \/ Disconnect

Spec == Init /\ [][Next]_vars
---------------------------------------------------------------------------
(* The properties.                                                         *)

\* Types; a name is bound once, so that the oldest binding is the one meant; and
\* every position that a variable holds is one of the table, whatever inserts
\* came since, so that fetch, which checks nothing, reads inside the column.
TypeOK ==
  /\ tbl \in Seq([row : Nat, vals : Rows])
  /\ primary \in BOOLEAN /\ moved \in BOOLEAN
  /\ \A j, k \in DOMAIN pool : pool[j].name = pool[k].name => j = k
  /\ \A k \in DOMAIN pool :
       pool[k].kind = "positions" => Range(pool[k].v) \subseteq DOMAIN tbl

\* What ChainsExact and AggregatesExact need of the ranges: selectv reads them as
\* they are meant.  A lower bound is an int, and an upper bound is an int not below
\* it, or beyond an int and read as one that is below the lower bound, so that it is
\* dropped.  And select_two takes MAX_DATA for an upper bound that is null or
\* dropped, and its interval is half open: a row with that very value is lost, so
\* with such a bound no row may have it.
RangesMeant ==
  \A r \in Ranges :
    r[1] # Null =>
      /\ r[1] \in MinData .. MaxData
      /\ r[2] = Null \/ r[2] \in r[1] .. MaxData \/ (r[2] > MaxData /\ Atoi(r[2]) < r[1])
      /\ r[2] = Null \/ r[2] > MaxData => \A vals \in Rows, c \in Columns : vals[c] < MaxData

\* As long as no insert moved a row, a chain of queries means what it says: the
\* positions that selectv, fetch and the joins pass on are those of the rows that
\* the first select found and that satisfy every later range, in order, also for
\* an upper bound of selectv that no int holds.
ChainsExact ==
  ~moved =>
    \A k \in DOMAIN pool :
      pool[k].kind = "positions" =>
        pool[k].rows = [i \in DOMAIN pool[k].v |-> RowAt(pool[k].v[i])]

\* As long as no insert moved a row, fetched values, their sums and differences,
\* and what an aggregate makes of any of these, are computed from the cells that
\* the query means, all of them and each once, through however many variables.
AggregatesExact ==
  ~moved =>
    \A k \in DOMAIN pool :
      LET b     == pool[k]
          means == [i \in DOMAIN b.terms |-> Meaning(b.terms[i])]
      IN  CASE b.kind = "positions" -> TRUE
            [] b.kind = "min" -> b.v[1] = Min(Range(means))
            [] b.kind = "max" -> b.v[1] = Max(Range(means))
            [] b.kind = "avg" -> b.v = <<FoldLeft(+, 0, means), Len(means)>>
            [] OTHER -> b.v = means

\* The nested join of any two operands that a session can have emits every pair
\* of equal values once and no other pair, also where the blocks are clipped.
NestedJoinExact ==
  \A a, b \in Pairs :
    LET v1 == GetVarByName(a[2]).v
        v2 == GetVarByName(b[2]).v
        found == NestedJoin(v1, v2)
    IN  Range(found) = Equal(v1, v2) /\ IsInjective(found)

\* The hash join of values that are not negative emits every pair of equal values
\* once; and no other pair if no two different values of the operands share a
\* bucket, for the probe compares buckets only.
HashJoinExact ==
  \A a, b \in Pairs :
    LET v1 == GetVarByName(a[2]).v
        v2 == GetVarByName(b[2]).v
        found == HashJoin(v1, v2)
        collide == \E x, y \in Range(v1) \cup Range(v2) : x # y /\ Hash(x) = Hash(y)
    IN  Hashable(v1) /\ Hashable(v2) =>
          /\ Equal(v1, v2) \subseteq Range(found) /\ IsInjective(found)
          /\ collide \/ Range(found) = Equal(v1, v2)
=============================================================================
