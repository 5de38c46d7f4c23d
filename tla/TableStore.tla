---------------------------- MODULE TableStore ----------------------------
(***************************************************************************)
(* One table of the server, as the commands of a client change it: columns *)
(* are created, rows inserted or bulk-loaded, indexes built, ranges        *)
(* selected; a shutdown command persists the table and a new server loads  *)
(* it again; a failed assertion or a kill loses what was not persisted.    *)
(*                                                                         *)
(* The server is one thread that finishes a command before it reads the    *)
(* next one, so a handler with every call it makes is one action.          *)
(*                                                                         *)
(* A cell carries, beside its value, the number of the row it arrived in:  *)
(* an auxiliary component that the code does not have and that no guard or *)
(* value depends on.  It lets a property say which row a value belongs to. *)
(***************************************************************************)
EXTENDS Vectors

CONSTANTS
  MinData, MaxData, \* MIN_DATA and MAX_DATA, the bounds a null operand stands for
  MaxCols, MaxRows, \* bounds on the columns and on the rows of the table
  MaxBatch,         \* bound on the rows of one loaded file
  Usage             \* what clients do beyond the documented order of commands

\* The three orders of commands that the project's scripts never use: a column
\* created in a table with rows, a second primary column, a load into a table
\* that already has an index.
Usages == {"late_column", "second_primary", "load_after_index"}

ASSUME DataAssumption  == MinData \in Int /\ MaxData \in Int /\ MinData <= MaxData
ASSUME BoundAssumption == MaxCols \in Nat /\ MaxRows \in Nat /\ MaxBatch \in Nat
ASSUME UsageAssumption == Usage \subseteq Usages

VARIABLES
  tbl,   \* the table in the server's memory
  disk,  \* the table as the last shutdown persisted it
  up     \* is a server process running?

vars == <<tbl, disk, up>>

Val == MinData .. MaxData
ColumnType == {"PRIMARY", "UNSORTED"}
IndexKind == {"SORTED", "BTREE"}

NoIndex == [type |-> "NO_INDEX", entries |-> {}]

\* A table just made by create_table; primary = 0 is the code's -1.
EmptyTable == [cols |-> <<>>, primary |-> 0]

\* The length every command reads from the first column.
NumRows(t) == IF t.cols = <<>> THEN 0 ELSE Len(t.cols[1].data)

Vals(col) == [p \in 1 .. Len(col.data) |-> col.data[p].val]

Row(t) == [1 .. Len(t.cols) -> Val]
Batches(t) == UNION { [1 .. n -> Row(t)] : n \in 0 .. MaxBatch }
---------------------------------------------------------------------------
(* Helpers of the handlers.                                                *)

\* An append that stops after the first column.
AppendRowsToFirst(t, batch) ==
  [t EXCEPT !.cols[1].data = @ \o
     [k \in 1 .. Len(batch) |-> [row |-> NumRows(t) + k, val |-> batch[k][1]]]]

\* vector_insert or vector_cat on every column, for the rows of a batch.
AppendRows(t, batch) ==
  [t EXCEPT !.cols = [i \in 1 .. Len(t.cols) |->
     [t.cols[i] EXCEPT !.data =
        t.cols[i].data \o
          [k \in 1 .. Len(batch) |->
             [row |-> NumRows(t) + k, val |-> batch[k][i]]]]]]

\* A sort that reorders the primary column only.
PermutePrimaryOnly(t, positions) ==
  [t EXCEPT !.cols[t.primary].data = SortVectorFromPositions(@, positions)]

\* The same permutation applied to the vector of every column.
PermuteColumns(t, positions) ==
  [t EXCEPT !.cols = [i \in 1 .. Len(t.cols) |->
     [t.cols[i] EXCEPT !.data = SortVectorFromPositions(t.cols[i].data, positions)]]]

\* A handler that forgets to sort.
UnsortedTables(t) == {t}

\* sort_table_by_primary_column: the tables it may leave, one for each order
\* that qsort may give to equal keys; the table itself without a primary column.
SortedTables(t) ==
  IF t.primary = 0 THEN {t}
  ELSE { PermuteColumns(t, p) : p \in SortedPositions(Vals(t.cols[t.primary])) }

\* sort_vector_from_positions asserts that a column is as long as the primary one.
SortFails(t) ==
  /\ t.primary > 0
  /\ \E i \in 1 .. Len(t.cols) : Len(t.cols[i].data) # Len(t.cols[t.primary].data)

\* An insert that neither stops at an index nor maintains it.
InsertFailsIgnoringIndex(t) ==
  \E i \in 2 .. Len(t.cols) : Len(t.cols[i].data) # NumRows(t)

\* relational_insert fails when a column disagrees on the row count with those
\* before it (an assertion), or when a column has a sorted index (another) or a
\* B+ tree (bt_insert is handed the root in place of the root's address, takes
\* the root's null parent for the root and follows it).
InsertFails(t) ==
  \/ \E i \in 2 .. Len(t.cols) : Len(t.cols[i].data) # NumRows(t)
  \/ \E i \in 1 .. Len(t.cols) : t.cols[i].index.type # "NO_INDEX"

\* Positions one past those of the column.
IndexEntriesOffByOne(col) ==
  { [pos |-> p + 1, val |-> col.data[p].val] : p \in 1 .. Len(col.data) }

\* create_sorted_index or create_btree_index: the value at each position.  The
\* structures keep the entries in ascending order of value; a range of them is
\* all a select takes, so their order is left out.
IndexEntries(col) ==
  { [pos |-> p, val |-> col.data[p].val] : p \in 1 .. Len(col.data) }

\* The process is gone, and with it the table in memory.
Die == /\ up' = FALSE
       /\ tbl' = EmptyTable
       /\ UNCHANGED disk
---------------------------------------------------------------------------
(* The handlers.                                                           *)

Init == /\ tbl = EmptyTable
        /\ disk = EmptyTable
        /\ up = TRUE

\* create_column counting the new column twice.
PrimaryOffByOne(t, type) ==
  IF type = "PRIMARY" THEN Len(t.cols) + 2 ELSE t.primary

\* create_column: the last primary column created is the one the table sorts by.
PrimaryAfter(t, type) ==
  IF type = "PRIMARY" THEN Len(t.cols) + 1 ELSE t.primary

CreateColumn(type) ==
  /\ up
  /\ Len(tbl.cols) < MaxCols
  /\ NumRows(tbl) = 0 \/ "late_column" \in Usage
  /\ type = "UNSORTED" \/ tbl.primary = 0 \/ "second_primary" \in Usage
  /\ tbl' = [cols |-> Append(tbl.cols, [type |-> type, data |-> <<>>, index |-> NoIndex]),
             primary |-> PrimaryAfter(tbl, type)]
  /\ UNCHANGED <<disk, up>>

\* create(idx, ...): refused by the grammar when the column has an index.
CreateIndex(i, kind) ==
  /\ up
  /\ tbl.cols[i].index.type = "NO_INDEX"
  /\ tbl' = [tbl EXCEPT !.cols[i].index =
               [type |-> kind, entries |-> IndexEntries(tbl.cols[i])]]
  /\ UNCHANGED <<disk, up>>

\* relational_insert, and the sort it ends with.
RelationalInsert(row) ==
  /\ up
  /\ tbl.cols # <<>>
  /\ NumRows(tbl) < MaxRows
  /\ IF InsertFails(tbl) THEN Die
     ELSE /\ tbl' \in SortedTables(AppendRows(tbl, <<row>>))
          /\ UNCHANGED <<disk, up>>

\* load: every column gets the file's values for it, then the table is sorted.
\* No index is touched.  The file is well formed, its header naming each column
\* of the table once; a malformed one fails an assertion (Crash).
Load(batch) ==
  /\ up
  /\ tbl.cols # <<>>
  /\ NumRows(tbl) + Len(batch) <= MaxRows
  /\ (\A i \in 1 .. Len(tbl.cols) : tbl.cols[i].index.type = "NO_INDEX")
       \/ "load_after_index" \in Usage
  /\ IF SortFails(AppendRows(tbl, batch)) THEN Die
     ELSE /\ tbl' \in SortedTables(AppendRows(tbl, batch))
          /\ UNCHANGED <<disk, up>>

\* shutdown: persist the table, drop it from memory and exit.
Shutdown ==
  /\ up
  /\ disk' = tbl
  /\ tbl' = EmptyTable
  /\ up' = FALSE

\* A new server loads what was persisted.  Before the first shutdown nothing is
\* on disk, and the client creates the table again: EmptyTable stands for no
\* table as well as for a table without columns.
Restart ==
  /\ ~up
  /\ tbl' = disk
  /\ up' = TRUE
  /\ UNCHANGED disk

\* A kill, or an assertion that fails in any other handler.
Crash == up /\ Die

Next ==
  \/ \E type \in ColumnType : CreateColumn(type)
  \/ \E i \in 1 .. Len(tbl.cols), kind \in IndexKind : CreateIndex(i, kind)
  \/ \E row \in Row(tbl) : RelationalInsert(row)
  \/ \E batch \in Batches(tbl) : Load(batch)
  \/ Shutdown
  \/ Restart
  \/ Crash

Spec == Init /\ [][Next]_vars
---------------------------------------------------------------------------
(* select_one, the query whose answer depends on the state kept above.     *)

Null == MaxData + 1

Low(l)  == IF l = Null THEN MinData ELSE l
High(h) == IF h = Null THEN MaxData ELSE h

\* The access path is chosen by the column's type first, by its index second.
SelectOne(col, low, high) ==
  LET l == Low(low)
      h == High(high)
  IN  CASE col.type = "PRIMARY" -> SelectPrimary(Vals(col), l, h)
        [] col.type = "UNSORTED" /\ col.index.type = "NO_INDEX" ->
             SelectUnsorted(Vals(col), l, h)
        [] col.type = "UNSORTED" /\ col.index.type = "BTREE" ->
             { e.pos : e \in { x \in col.index.entries : l <= x.val /\ x.val < h } }
        [] col.type = "UNSORTED" /\ col.index.type = "SORTED" ->
             { e.pos : e \in { x \in col.index.entries : l <= x.val /\ x.val <= h } }
---------------------------------------------------------------------------
(* What a table promises, as predicates on an image of it.                 *)

Cell   == [row : Nat \ {0}, val : Val]
Index  == [type : IndexKind \cup {"NO_INDEX"}, entries : SUBSET [pos : Nat, val : Val]]
Column == [type : ColumnType, data : Seq(Cell), index : Index]

\* The fields have their types, and the primary column number is that of a
\* column declared PRIMARY, as load_table asserts of the table it reads.
ImageOK(t) ==
  /\ t \in [cols : Seq(Column), primary : Nat]
  /\ t.primary <= Len(t.cols)
  /\ t.primary > 0 => t.cols[t.primary].type = "PRIMARY"

ImageAligned(t) ==
  \A i, j \in 1 .. Len(t.cols) : Len(t.cols[i].data) = Len(t.cols[j].data)

ImageIntegral(t) ==
  \A i, j \in 1 .. Len(t.cols) :
    \A p \in DOMAIN t.cols[i].data :
      p \in DOMAIN t.cols[j].data => t.cols[i].data[p].row = t.cols[j].data[p].row

ImageShifted(t) ==
  \A i \in 1 .. Len(t.cols) :
    LET data == t.cols[i].data
        late == NumRows(t) - Len(data)
    IN  /\ late >= 0
        /\ \A p \in DOMAIN data : data[p].row = t.cols[1].data[late + p].row

ImageComplete(t) ==
  \A i \in 1 .. Len(t.cols) :
    LET data == t.cols[i].data
    IN  /\ \A p \in DOMAIN data : data[p].row \in 1 .. Len(data)
        /\ \A p, q \in DOMAIN data : data[p].row = data[q].row => p = q

ImageSorted(t) == t.primary > 0 => Ascending(Vals(t.cols[t.primary]))

ImageFresh(t) ==
  \A i \in 1 .. Len(t.cols) :
    t.cols[i].index.type # "NO_INDEX" => t.cols[i].index.entries = IndexEntries(t.cols[i])

ImageBounded(t) ==
  \A i \in 1 .. Len(t.cols) :
    \A e \in t.cols[i].index.entries : e.pos \in 1 .. Len(t.cols[i].data)
---------------------------------------------------------------------------
(* The properties.                                                         *)

TypeOK ==
  /\ ImageOK(tbl)
  /\ ImageOK(disk)
  /\ up \in BOOLEAN

\* All columns of a table have the same length, in memory and on disk, so that
\* no column struct need hold one (the note on struct column in cs165_api.h).
Aligned == ImageAligned(tbl) /\ ImageAligned(disk)

\* Whatever inserts, loads, sorts and restarts went before, the values at one
\* position of all columns came in with the same row: sort_table_by_primary_column
\* moves every column by the permutation of the primary one, not by its own.
RowIntegrity == ImageIntegral(tbl) /\ ImageIntegral(disk)

\* A column that was created when the table had rows is behind by just as many, and in
\* no other way: loads and inserts put a value that many positions too low in it, one
\* of a row for each row, and a sort, which would spread the wrong pairs over the
\* table, never moves it.  Columns created at one time pair the values of the same
\* rows.  The assertion in sort_vector_from_positions is what stops such a sort.
LateColumnsBehind == ImageShifted(tbl) /\ ImageShifted(disk)

\* No row is lost or doubled by an append or a sort: a column of n values holds
\* one value of each of the rows 1 .. n.
RowsComplete == ImageComplete(tbl) /\ ImageComplete(disk)

\* Between commands the primary column is ascending, which the binary searches
\* of select_one_primary rely on; after a restart too, since load_table does
\* not sort.
PrimarySorted == ImageSorted(tbl) /\ ImageSorted(disk)

\* An index holds exactly the values and positions of its column: select_one
\* answers from the index alone, though load sorts the table without a look at it.
IndexFresh == ImageFresh(tbl) /\ ImageFresh(disk)

\* Stale or not, an index points only to positions that its column has, so that
\* fetch, which checks no bounds, reads no value outside the column.
IndexInBounds == ImageBounded(tbl) /\ ImageBounded(disk)

\* The rows a fetch of column j reads at the positions that a select on column
\* i returned are the rows whose value in column i is in the interval: each of
\* those below the upper bound, none outside the closed interval (select_one's
\* access paths disagree on the bound itself).
Fetched(j, positions) == { tbl.cols[j].data[p].row : p \in positions }
RowsWhere(i, Test(_)) ==
  { c.row : c \in { tbl.cols[i].data[p] : p \in { q \in DOMAIN tbl.cols[i].data :
                                              Test(tbl.cols[i].data[q].val) } } }
QuerySound ==
  \A i, j \in 1 .. Len(tbl.cols), low, high \in Val \cup {Null} :
    LET found   == SelectOne(tbl.cols[i], low, high)
        Open(v) == Low(low) <= v /\ v < High(high)
        Shut(v) == Low(low) <= v /\ v <= High(high)
    IN  /\ found \subseteq DOMAIN tbl.cols[j].data
        /\ RowsWhere(i, Open) \subseteq Fetched(j, found)
        /\ Fetched(j, found) \subseteq RowsWhere(i, Shut)

\* A select with both bounds returns the half-open interval that the project's
\* scripts write in SQL beside it, on every access path.
SelectHalfOpen ==
  \A i \in 1 .. Len(tbl.cols), low, high \in Val :
    SelectOne(tbl.cols[i], low, high) = SelectUnsorted(Vals(tbl.cols[i]), low, high)

\* An insert keeps every secondary index up to date, and so at least leaves the
\* server running.
InsertKeepsServer == [][\A row \in Row(tbl) : RelationalInsert(row) => up']_vars

\* The table is a store of numbered rows that grows at its end: what stands at
\* the position where the first column has row n is the n-th row that arrived,
\* in every column; sorting, and building an index, move no value from one row
\* to another; a crash returns to the rows last persisted.
RowsOf(t) ==
  [n \in 1 .. NumRows(t) |->
     LET p == CHOOSE q \in 1 .. NumRows(t) : t.cols[1].data[q].row = n
     IN  [i \in 1 .. Len(t.cols) |-> t.cols[i].data[p].val]]
Store == INSTANCE RowStore
           WITH store <- [width |-> Len(tbl.cols), rows |-> RowsOf(tbl)],
                saved <- [width |-> Len(disk.cols), rows |-> RowsOf(disk)]
RefinesRowStore == Store!Spec
===========================================================================
