------------------------------ MODULE Catalog -------------------------------
(***************************************************************************)
(* The databases, tables and columns of a server, by name: what creates    *)
(* them, finds them and adds rows to them.  Each is found by its path, the *)
(* names from the database down; the empty path stands for the array of    *)
(* databases.  The names that a path's array lists are in the order of     *)
(* creation.                                                               *)
(***************************************************************************)
EXTENDS Integers, SequencesExt

CONSTANTS
  DbNames, TblNames, ColNames, \* the names that clients give
  Values,     \* the values of a row
  MaxRows,    \* bound on the rows of a table
  ToAllocate  \* TO_ALLOCATE, by how many elements a full array grows

ASSUME ArrayAssumption == ToAllocate \in Nat \ {0} /\ MaxRows \in Nat

VARIABLE mem \* what there is at each path: the names of the elements of its
             \* array, how many have memory allocated, the data of a column

Master   == <<>>
DbPath   == { <<d>> : d \in DbNames }
TblPath  == { <<d, t>> : d \in DbNames, t \in TblNames }
ColPath  == { <<d, t, c>> : d \in DbNames, t \in TblNames, c \in ColNames }
Path     == {Master} \cup DbPath \cup TblPath \cup ColPath
Name     == DbNames \cup TblNames \cup ColNames
Object   == [names : Seq(Name), max : Nat, data : Seq(Values)]

New(max) == [names |-> <<>>, max |-> max, data |-> <<>>]

\* No database.
NoDbs == [p \in {Master} |-> New(0)]

ElementsOf(objects, p) == { Append(p, name) : name \in Range(objects[p].names) }

\* The columns of a table.
Cols(p) == ElementsOf(mem, p)
---------------------------------------------------------------------------
(* Helpers of the handlers.                                                *)

\* An array that grows one element too late.
GrownTooLate(o) == IF Len(o.names) > o.max THEN o.max + ToAllocate ELSE o.max

\* get_next_allocated_element: what is allocated once one more is taken.
Grown(o) == IF Len(o.names) >= o.max THEN o.max + ToAllocate ELSE o.max

\* The objects after the array at p has taken a new element.
WithElement(p, name, new) ==
  LET q == Append(p, name)
  IN  [r \in DOMAIN mem \cup {q} |->
         CASE r = q -> new
           [] r = p -> [mem[p] EXCEPT !.names = Append(@, name), !.max = Grown(mem[p])]
           [] OTHER -> mem[r]]

\* A lookup that finds nothing.
NeverFound(p, name) == FALSE

\* get_db_by_name, get_table_from_db_by_name, get_column_from_table_by_name: a
\* search of one array, which is there if what owns it was found.
Found(p, name) == p \in DOMAIN mem /\ name \in Range(mem[p].names)

\* The arguments db and tbl of a command: a name is split at its dot, and each
\* part looked up, or the command is refused.
ArgDb(d)     == Found(Master, d)
ArgTbl(d, t) == Found(Master, d) /\ Found(<<d>>, t)
---------------------------------------------------------------------------
(* The handlers.  One that refuses its command changes nothing.            *)

CatalogInit == mem = NoDbs

\* create(db, ...).
CreateDb(d) ==
  /\ ~Found(Master, d)
  /\ mem' = WithElement(Master, d, New(0))

\* create(tbl, ...), with room for n columns.
CreateTable(d, t, n) ==
  /\ ArgDb(d)
  /\ ~Found(<<d>>, t)
  /\ mem' = WithElement(<<d>>, t, New(n))

\* create(col, ...), in a table that has no rows yet: the documented order.
CreateColumn(d, t, c) ==
  /\ ArgTbl(d, t)
  /\ ~Found(<<d, t>>, c)
  /\ \A p \in Cols(<<d, t>>) : mem[p].data = <<>>
  /\ mem' = WithElement(<<d, t>>, c, New(0))

\* relational_insert of a row with one value in all columns (see TableStore for
\* rows in general, sorting and indexes).
Insert(d, t, v) ==
  /\ ArgTbl(d, t)
  /\ \E p \in Cols(<<d, t>>) : Len(mem[p].data) < MaxRows
  /\ mem' = [p \in DOMAIN mem |->
               IF p \in Cols(<<d, t>>) THEN [mem[p] EXCEPT !.data = Append(@, v)]
                                       ELSE mem[p]]

Command ==
  \/ \E d \in DbNames : CreateDb(d)
  \/ \E d \in DbNames, t \in TblNames, n \in {0, 1} : CreateTable(d, t, n)
  \/ \E d \in DbNames, t \in TblNames, c \in ColNames : CreateColumn(d, t, c)
  \/ \E d \in DbNames, t \in TblNames, v \in Values : Insert(d, t, v)
=============================================================================
