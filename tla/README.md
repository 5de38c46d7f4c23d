# Specifications of columnDB

columnDB is a column store with one server process and clients that speak a small query language to
it over a Unix socket. This directory holds TLA+ modules translated from its source (`src/src/`), TLC
configurations that check them on small instances, and TLAPS proofs of their main invariants for every
value of the constants. `PROJECT.json` lists which definition stands for which lines of the source,
which runs there are, which property each part of the code can break, and the findings.

## 1. Inventory of the system

| Component | Source | State it keeps | Operations | Correct when |
|---|---|---|---|---|
| Tables | `cs165_api.c`, `vector.c` | per table an array of columns, each a vector and an optional index; the number of the primary column | `create_column`, `create_index`, `relational_insert`, `load`, `sort_table_by_primary_column` | columns stay aligned, no row is mixed, lost or doubled, the primary column is ascending |
| Selects | `cs165_api.c`, `utils.c`, `sorted.c`, `btree.c` | none | `select_one` by four access paths, `select_two`, `fetch`, aggregates | each path finds the rows of the range; positions stay inside the columns |
| Sorted index, B+ tree | `sorted.c`, `btree.c` | values with positions, in order | creation, range select, insert | the index is its column |
| Scheduler | `scheduler.c` | list of scheduled selects, one thread per select and block | `schedule_select`, `execute_scheduled`, `execute_scheduled_sequentially` | as if each select ran alone; no two threads write one vector |
| Session variables | `variables.c`, `agnostic_vector.c` | pools of named vectors and numbers of the client being served | add, look up, destroy at disconnect | a name stands for its latest binding; every binding has a value |
| Persistence | `persist.c`, `dbs.c` | files: a master file, one per database, table and column | `persist_dbs` at shutdown, `load_dbs` at start | a server finds what the last shutdown saw |
| Catalog | `dbs.c`, `cs165_api.c` | arrays of databases, tables, columns, by name | create, look up, drop | names are unique, pointers stay valid |
| Server loop | `server.c`, `message.c` | the connection being served, its receive and reply buffers | accept, receive, parse, execute, reply, persist at the end | in step with the client; every command is answered; what is acknowledged lasts |
| Client | `client.c` | the command at hand, an open load file | header, command, load stream, wait for status and text | reads the reply to its own command |
| Parser | `parser/grammar.y`, `rules.l` | the operator and the reply of the command being parsed | runs most commands while it parses | at most one reply per command |
| Joins | `hashjoin.c`, `cs165_api.c` | none | `nested_join`, `hashjoin` | pairs exactly the equal values |

**Interaction.** A client sends a header, a command and, for `load`, the file and an end token, and waits.
The server, one thread, serves one connection at a time. It parses the command; most are carried out by
the parser's actions, `load` and inserts after it. Every handler ends before the next command is read. Only
`execute_scheduled` starts threads, and it joins them before it returns. Memory is saved by the `shutdown`
command only; any failed assertion, `exit(1)` or signal loses what came after the last one.

**What is hard.** The order of legal commands (indexes, late columns and second primary columns against
loads and inserts); the threads of the shared scan, which share nodes without a lock; two programs that
must agree on what the next bytes of a stream are while either may vanish; crashes between shutdowns;
boundaries (upper bound of a range, empty column, last block, equal keys). The list with lines is
`hazards` in `PROJECT.json`.

## 2. Plan

Order of work; all modules are written, and of the theorems those of section 6.

1. `Vectors`, `TableStore`, `RowStore`: tables, access paths, crash and restart, and the store of rows they promise.
2. `Scheduler`, `BatchSelect`: the shared scan with its threads, and the batch of queries it promises.
3. `Protocol`: clients and server over the socket.
4. `BTree`, `OrderedIndex`: the nodes of a B+ tree from creation to restart, and the set of entries it promises.
5. `Catalog`, `Persist`, `Archive`: names and growing arrays, the files in the order of their writing with a kill
   between any two steps, and the all-or-nothing archive that a save is.
6. `Joins`, `Session`: the algorithms on vectors, and the queries of a session that use each other's results.

Every safety property and every refinement that a passing run checks is now also a theorem. What may still be modelled:
columns of different lengths in one shared scan; a load that only one side of the protocol takes for one.

## 3. Modules

| Module | Stands for | Uses |
|---|---|---|
| `Vectors` | sorting by positions (`vector.c`), both binary searches (`utils.c`), the scan and the primary select as sets of positions | |
| `TableStore` | a table, its handlers, shutdown, restart, crash | `Vectors`, instance of `RowStore` |
| `RowStore` | abstract: numbered rows that only grow, saved and recovered whole | |
| `Scheduler` | `scheduler.c` and the part of `select_one_unsorted` that its threads run | `Vectors`, instance of `BatchSelect` |
| `BatchSelect` | abstract: queued queries all answered in one step | `Vectors` |
| `Protocol` | `client.c`, `server.c`, the receiving side of `load` | |
| `BTree` | `btree.c`, and of `persist.c` what concerns a tree | instance of `OrderedIndex` |
| `OrderedIndex` | abstract: entries that come one by one, saved and recovered | |
| `Catalog` | `create_db`, `create_table`, `create_column`, the lookups of `dbs.c`, the arrays of `utils.c` | |
| `Persist` | `persist_dbs` and `load_dbs` with all they call, at the level of files | extends `Catalog`, instance of `Archive` |
| `Archive` | abstract: a save keeps everything, or, unfinished, nothing | |
| `Joins` | `nested_join`, `hashjoin`, `fetch`, `select_two`, aggregates, as operators on vectors | |
| `Session` | the queries of `grammar.y` that bind variables, `variables.c` | extends `Joins`, `Vectors` |
| `Vectors_proofs` | induction on naturals and functions defined by descent; what the scans and binary searches of `Vectors` compute | extends `Vectors` |
| `TableStore_proofs` | the invariants of `TableStore`, its answers, and that it implements `RowStore` | extends `TableStore`, `Vectors_proofs` |
| `Scheduler_proofs` | the invariants of `Scheduler`, and that it implements `BatchSelect` | extends `Scheduler`, `Vectors_proofs` |
| `Protocol_proofs` | the invariants of `Protocol` | extends `Protocol` |
| `Persist_proofs` | the invariants of `Persist`, and that it implements `Archive` | extends `Persist` |
| `BTreeGrowth_proofs` | what a sound tree is, and that splits, new roots and insertions keep it one | extends `BTree`, `Vectors_proofs` |
| `BTree_proofs` | that its file gives it back, the invariants of `BTree`, its answers, and that it implements `OrderedIndex` | extends `BTreeGrowth_proofs` |
| `Session_proofs` | what the joins and the aggregates of `Joins` compute, and the invariants of `Session` | extends `Session`, `Vectors_proofs` |
| `MCTableStore`, `MCScheduler`, `MCProtocol`, `MCBTree`, `MCPersist`, `MCSession` | instances for TLC | |

### TableStore

`tbl` is the table in memory, `disk` what the last `shutdown` saved, `up` whether a server runs. A column is
its type, its vector and its index. Each vector element carries, beside its value, the number of the row it
arrived with; the code has no such field and no guard reads it. It is what lets `RowIntegrity` say that a
value still belongs to its row. Because the server finishes one command before it reads the next, a handler
with all its calls is one action: `RelationalInsert` and `Load` include the closing sort, with every order
`qsort` may give to equal keys, and end in `Die` where the code's assertions fail. An index is the set of its
entries. `Usage` names what clients do beyond the order the repository's scripts keep to: a column created in
a table with rows, a second primary column, a load after an index. A late column is filled from its own
beginning: `LateColumnsBehind` says that its values are those of the right rows, all shifted by one number of
positions, and that no sort moves them about, as `sort_vector_from_positions` asserts equal lengths. `select_one` is an operator (`SelectOne`)
on the state, since it changes none.

`RowStore` says what a client is promised: rows keep number and value, a restart finds the last save. The
mapping reads row *n* of the table at the position where the first column has it.

### Scheduler

`root` is the linked list, head first; `pool` the client's vector variables; `pc`, `cur`, `block` the server's
thread in `execute_scheduled`; `live` the threads between `pthread_create` and `pthread_exit`. Each step on
shared memory is an action: creating a thread (which overwrites the node's bounds), a join, a thread's entry
(which makes the result vector if there is none), one turn of its loop, its exit. Inserts and loads may change
the columns between executions (`Change`). `index[c]` is the index of a column: the vector it was made of and the
positions of its entries in the order of their values, with any order of equal ones (`CreateIndex`). `Change` leaves
it as it is, so it may be stale. A shared scan does not look at it. `execute_scheduled_sequentially` calls `select_one`, and
`SelectOne` has all its access paths: a scan, the bisection of a primary column, and for a column with an index the
entries between two bounds, in their order, with the upper bound in for `SORTED` and out for `BTREE`. The tree itself is
in `BTree`, whose `SelectExact` says what this assumes of it. A disconnect destroys the pool and leaves the list, as the code does.
All columns have one length, which the comment at `scheduler.c:89` presumes, and `pthread_create` succeeds.

`BatchSelect` answers all queued queries at once: by the shared scan with exactly the positions of the range that the
column has at that moment, in ascending order. Executed sequentially (`ByAccessPath`), a column with an index answers
with what it had when the index was created, each position once and in the order of values, another one with what it
has; either with the upper bound or without. So a later load changes the answer of the shared scan and not that of the
index.

### Protocol

`cl[c]` is where client *c* is in its loop, `up[c]` and `down[c]` what is on the way between it and the server,
`backlog` the connections not yet accepted, `srv` where the server is and with which command. An item is what
one send puts on the stream; of a load file each line is one. `hung` and `reset` are connections closed by the
server and connections a client closed with data unread, on which the server's `recv` fails. A send to a peer
that is gone is SIGPIPE and ends the sender, for neither program handles it. The server's `recv` of the
command is not checked: after a client killed behind its header it parses what its buffer holds, nothing known
or the previous command. Of the tables only the number of rows that each command added is kept (`db`, `disk`).
`ledger` is a history variable: commands whose status a client received, less those a crash has lost.
`Usage` adds kills, a command with text after its end (its reply is then added twice, a failed assertion), and
load files without a newline at the end.

### BTree

`node` is the heap, `root` the index's pointer, `at` the node that `bt_insert_non_full` was called on: each call is
one action, so that a split on the way down and the insert below it are different steps, and `Held`, the records
in the leaves, changes only in the step that reaches a leaf. That is what the refinement of `OrderedIndex` says.
The arrays of a node are sequences, and what `bt_make_room` and the copying of halves do to them is inserting and
taking subsequences. `PersistBtreeIndex` writes the nodes with the children before what follows them, next
pointers and all. `LoadNodes` reads the images in their order, each being the next child that is still to be read: the
children of the node just read come before those that were pending. `PlaceBtreeNexts` sets every next anew from
the shape. In the code that loop first reads one element past the
children of a full node, and overwrites what it made of it. Once created, a tree is not inserted into: that call
ends the server (finding `insert_indexed`).

### Catalog and Persist

`mem` maps the path of each object to the names in its array, the room allocated there, and its data; `disk` maps
each path to its file. A save is a walk: `at` is the file opened last, `next` has for each open file the number of
its next element. Opening truncates; the content is there when the file is closed, for stdio may hold it back
until then, and the objects of the tests are that small. So the master file is empty during the whole save, and
`Archive` has no step in which a start could find a part. A path in `Unwritable` is one that `snprintf` or `fopen`
refuses: the assertion then ends the server in mid-save. From an empty master file `fgets` reads nothing and the
number of databases is that of an uninitialised buffer: there are none, or the start fails. `LoadFails` is a step
that changes nothing. Names have no dot and no database is called `dbs`; otherwise two objects share a file.

### Joins and Session

`pool` holds the bindings, oldest first, and `tbl` the rows by position, with the numbers that let the properties
speak of rows. Each binding also has what it means: for positions the rows, for values the cells of the table, and
their signs, that they are computed from. No guard reads these. Queries are enumerated as the scripts pair them:
values are used with the positions they were fetched at. A number is read into an int (`Atoi` wraps it), and
`selectv` drops an upper bound below the lower one, which is what lets a script ask for a bound that no int holds.
`moved` records that an insert moved a row since the first binding: positions then stand for other rows, and the
two properties on meaning do not speak of that session any more, `TypeOK` does. The values of rows are any ints. The
remainder that `hash` takes of a negative value is negative, and `hashjoin` then writes before its table: `Hashed` has
no step for that. The joins are operators from two
vectors to a sequence of pairs, in the code's order of emission.

## 4. Runs

| Run | Instance | Result |
|---|---|---|
| `table_documented` | 2 columns, 3 rows, loads of up to 2, values 0..1, documented usage | type, `Aligned`, `RowIntegrity`, `RowsComplete`, `PrimarySorted`, `IndexFresh`, `QuerySound` and the refinement of `RowStore` hold |
| `table_any_usage` | 2 columns, 3 rows, loads of up to 2, all usages | `PrimarySorted`, `LateColumnsBehind`, `IndexInBounds` hold |
| `shared_scan` | 2 columns (one primary), 2 selects, blocks of 2, 1 to 3 rows, indexes of 1 or 2 | one writer per result, no orphan thread, exact blocks, results never null, executions return, refinement of `BatchSelect` |
| `protocol` | 2 clients, 3 commands between them, loads of 2 rows, kills of either side | both ends in step, nothing partial or double is saved, acknowledged work survives shutdowns, a served client is answered or told |
| `btree` | nodes of 4, up to 10 values out of 0..2 in every order, restarts | balanced search tree, chain of leaves and exact ranges at every step; refinement of `OrderedIndex` |
| `persist` | 2 databases, 1 table name, 2 column names, one path unwritable, 7 commands, arrays that grow by 2 | arrays have room; a finished save is whole; what cannot be started from is known; saves end; refinement of `Archive` |
| `session` | 3 rows of 2 columns, 4 variables, blocks of 2, 2 buckets, ints -1..3 | positions inside the table; chains and calculations mean what they say; joins are exact |
| `stale_index` | as documented, and a load after an index | `IndexFresh` violated (finding) |
| `select_bound` | documented usage | `SelectHalfOpen` violated (finding) |
| `insert_indexed` | documented usage | `InsertKeepsServer` violated (finding) |
| `empty_scan` | one empty column | `ResultsAreVectors` violated (finding) |
| `load_hangs` | one client, a file without newline at its end | `Answered` violated (finding) |

**Why the bounds are enough.** Two columns are the least in which a sort can separate values of a row, and a
primary column can differ from the others; three rows over two values give equal keys beside different ones
and a binary search with an element on either side; loads of two rows are unsorted batches behind sorted
data. One to three rows in blocks of two give a column shorter than a block, a full block, and a last block
that is clipped; two selects are the least for a race of two threads and for the join order. Two clients are
the least for a second session after the first, with what the first left in the server's buffers; three
commands allow an insert, a shutdown, a new server and one more command. Ten values in nodes of four make trees of
three levels, with splits of leaves and of inner nodes, leaves under different parents, and equal keys over
several of them. Four is the least size of a node that the code's way of splitting can bear (section 5); the code's own
is 169. An index of one row is stale after a load of one more; `MaxIndexed` keeps the columns of `shared_scan` at two rows once one
has an index, which is enough for an index in another order than its column. Three rows in `table_any_usage` let a late
column have values beside a longer one. Seven commands create a database, a table and two columns, insert, and leave one for a second
database or a row after a restart; the files of an earlier save are then those of more or fewer objects. Four
variables are two positions with their values, or a join with its result; three rows in blocks of two clip the
last block, and two buckets make the values 0 and 2 collide, and not 0 and 1; -1 is a value that is not hashed. A sum of two
columns comes first in its session, and one of a column and a variable leaves room for its aggregate (`HasRoom`). Columns are never longer than the
bound `MaxRows`, nor, with an index, than `MaxIndexed`, lists than `MaxNodes`, pools than `MaxPool`, sessions than `MaxCommands`: those bounds are in
the guards and only cut behaviours short. So do `MaxRecords`, `MaxVars`, `MaxSums` (sums and differences per session)
and, in `Persist`, its own `MaxCommands`; a session binds nothing twice and ends in its calculations.

**Deadlock** is checked everywhere but in `protocol` and `load_hangs`. There all clients may have ended for good, so
a behaviour may stop; that a served client does not wait for ever is `Answered`.

**Fairness.** `Scheduler`: weak fairness of the server's thread and of each scan thread, as the operating system
runs a thread that can run; none of the client's commands. `Protocol`: weak fairness of the server's and of each
client's own steps, for the same reason; users owe nothing, they need neither type, quit, kill, connect nor
start a server. `Persist`: weak fairness of the steps of a save, once begun; nobody has to ask for one, nor start a
server. The others are checked for safety only: their handlers are single steps or, in `BTree`, recursion that
ends in a leaf, and all else is up to clients.

## 5. Findings

- **A load leaves indexes stale** (`stale_index`): `load` touches no index. `test14.dsl:21` says that a load populates
  all secondary indexes; that script itself loads before it creates its index, so it does not show the difference.
- **A range's upper bound depends on the access path** (`select_bound`): inclusive on primary columns and sorted
  indexes, exclusive on scans and B+ trees; the scripts' SQL says exclusive.
- **An insert into a table with an index ends the server** (`insert_indexed`).
- **A shared scan of an empty column binds a null vector** (`empty_scan`), on which the next use, or the
  disconnect, fails.
- **A load file without a final newline blocks client and server** (`load_hangs`).

Seen and not given a run: with a second primary column the first one is searched by bisection but no longer
sorted; a select without an upper bound on a scan, and a `selectv` without one, misses values equal to `MAX_DATA`, on a primary column it
does not; the list of scheduled selects survives the client that filled it. The comment at `btree.c:95` says that
a record of an inner node is the first of its child: after a split of the root followed by an insert of a smaller
value it is not, on the left edge of the tree, where no search depends on it (`SearchTree` therefore takes no first
record for a bound). It could do harm one level up: when an inner node is split, its first record may one day be copied
beside others, and with three records to a node twelve values suffice to put it above the record behind it. The proof
of `SearchTree` found this, and TLC the twelve values. A first record is above no more values than its node is high,
as each new root adds at most one; with four records to a node or more, a subtree of that height holds more values
than that, so the order is safe, and `NodeAssumption` is `NodeSize >= 4`. A table without columns that was declared for none, or a database without tables, is saved
in a form that no start accepts (`Startable`). A save that fails in the middle, for a path too long, loses the
previous store as well. The hash join pairs different values whose difference is a multiple of 128000.

## 6. What is proved

The proof modules are checked by TLAPS to the last leaf. They assume only what the modules' named assumptions say
of the constants: bounds are natural numbers and a block, a load and the growth of an array are not empty
(`BoundAssumption`, `RowsAssumption`, `ArrayAssumption`, `CommandAssumption`, `SizeAssumption`), a node of a B+ tree
has room for four records (`NodeAssumption`), the range of an int is not empty (`DataAssumption`, `RangeAssumption`), `Usage`, `Primary` and `Unwritable` are of their kinds (`UsageAssumption`, `ColsAssumption`,
`PathAssumption`), there are finitely many clients and none is the server's `None` (`ClientsAssumption`), and in
`Session` that values are ints, any of `MinData .. MaxData`, and operands numbers or null (`RowAssumption`,
`QueryAssumption`). A
theorem that holds for some usage only says so in its own hypothesis.

**Algorithms** (`Vectors_proofs`). The binary searches are recursive functions on the intervals that are
left. That such a function exists at all, and induction over it, come from its first lemmas: the library knows that
the strict subsets of a finite set are well-founded, hence that a set of naturals has a least element, hence strong
induction stated on sets, hence the existence of a function whose value depends on smaller arguments. On this,
`SearchLeftCounts` and `SearchRightCounts` say how many elements of an ascending vector are below, or not above, a
value; `SelectPrimaryIsClosed` that a select on a primary column has the upper bound in its answer; and
`SelectsDifferAtBound` that this is all that tells it from a scan: finding `select_bound` is exactly as large
as that.

**Tables** (`TableStore_proofs`). `TypeCorrect`, `PrimaryStaysSorted`, `IndexesStayInBounds` and `LateColumnsStayBehind` hold for every usage;
`ColumnsStayAligned`, `RowsStayWhole` and `RowsStayComplete` if no column is created in a table with rows;
`IndexesStayFresh` if no load follows an index. None of these is inductive alone. `PrimarySorted` needs that the
sort's positions are a permutation and that the primary number is that of a column; `RowIntegrity` after
an append needs that all columns have one length, `RowsComplete` that the rows present are numbered from 1 to
that length; a late column keeps its distance since an append gives each column the same rows, and since a sort with
a late column in the table fails its assertion; an index is in bounds after a sort since a sort keeps lengths. Memory and disk need the same
facts, as a restart copies one to the other. So the invariant `IInv` joins the parts on an image of a table,
each under the usage it needs. The proof goes in layers: what `AppendRows` and `PermuteColumns` do to each
column; which image predicates they keep; one case per action.

**Answers and rows** (`TableStore_proofs`, second part). With the documented usage every access path answers from the rows that are
there (`QueriesStaySound`): this joins the invariants above, sorted primary, fresh indexes, aligned columns, with
what the searches compute. `ImplementsRowStore` reads row *n* at the one position where the first column has its
number; a sort moves the position and not the row, an append adds the row behind all others, and a restart finds
the rows of the last save because the same reading is applied to the image on disk.

**Shared scan** (`Scheduler_proofs`). `OneWriterAlways`, `NoThreadIsOrphaned`, `EveryBlockIsExact`, `TypeCorrect`, and
for columns that are not empty `NoResultIsNull`, for any numbers of selects, columns, rows, and any block size. That a
block is exact when the joins are done depends on what its threads did before, so the invariant says of each live
thread that its node's result holds exactly the matches below the thread's position, of each node without a
thread that it has those up to the end of this block or of the last, according to whether the server's thread
has created or joined it, and of the bounds in the nodes that they are those of the block. Lemmas say how the
set of matches grows with one element and with one block. `ImplementsBatchSelect` follows the queue: the steps of
threads and of the server's thread change no query and stutter, until `Publish` answers all of them, exactly, as
every block has then been scanned. Executed sequentially, a column without an index gives the answers of the scan, the
upper bound in or out, by `SelectsDifferAtBound`. One with an index gives those of the vector it was made of: the entries
between both searches are, by `SearchLeftCounts` and `SearchRightCounts`, the positions of the values in the range
(`EntriesBetween`, `IndexAnswers`), and as no command but `create` changes an index, the abstract one is of the same
moment. It is stated for `MinLen > 0`, that is, for columns with elements: an empty column is the
finding `empty_scan`.

**Protocol** (`Protocol_proofs`). `EndsStayInStep`, `SavedStaysWhole`, `LedgerStaysKept` and `TypeCorrect` hold for any
number of clients, length of a load, kills at any moment and garbled commands. What the server takes next is as
expected only because of what the client has sent, so the invariant relates, for one connection at a time, four
things (`Connection`): the stage of the client, the items under way to the server, which are what the client has sent
of its command less what the server has taken; the replies under way, none, a status, or a status with its text; and
the stage of the server. A step touches the connection of one client, and lemmas say that the others stand as they
were. An effect in memory is whole and there once (`Effects`), with one exception that the first attempt at the proof
left out: a server that has just executed the previous command again, for a client killed behind its
header, holds a double effect. It is `Doomed`: its next step sends a reply to a client that is gone, which ends it,
and nothing of this is saved. `Acknowledged` says that a status a client received stands in memory, in the file, or
was struck from the ledger by a crash.

**Files** (`Persist_proofs`). `TypeCorrect`, `ArraysHaveRoom`, `FinishedSaveIsWhole`, `FinishedSaveStarts` and
`ImplementsArchive` hold for any names, values and unwritable paths, with a kill between any two steps. Memory is a
`Tree`: every name in an array has its object, every object its name, names in one array are distinct, the columns of
one table are as long as each other. `Walk` says what a save in progress has done: everything that the walk has
`Passed` is whole on disk as it is in memory, and nothing open is. It stays so because opening a file never truncates
one the walk has passed, which needs the names to be distinct, and because the master file is closed last. So when it is
whole, all is (`Stored`), and loading gives back the tree. In the refinement only closing the master file is a step of
`Archive`, the end of the save; all steps before it lose nothing but the previous save, which was lost when the
master file was truncated.

**Joins and aggregates** (`Session_proofs`, first part). `NestedJoinIsExact`, `HashJoinIsExact` and `AggregatesAreExtremes` are about
any vectors. A join emits lists one behind the other, in the order of its loops; so the lemmas say first that a
loop over a set of numbers emits what its turns emit, each once if the turns have nothing in common, by induction
on the number of lists. The nested join then needs that the blocks are a partition of the indexes, the last
one clipped; the hash join that each index is in one bucket's list. The hash join is exact up to the hash: it pairs
what shares a hash, which is more than equality, and the theorem says so. `min`, `max` and sums are folds: that
`FoldLeft` computes a sum is proved for every length, by a function that adds up over sets of indexes.

**Sessions** (`Session_proofs`, second part). Two layers. `Base` holds whatever clients do, inserts that move rows included: names are
the numbers from 3 in the order of binding, positions lie in the table, values are ints and as many as the positions
they were fetched at. It gives `TypeCorrect`, `NestedJoinStaysExact` and `HashJoinStaysExact` without a hypothesis; the last is about values that are
not negative, as `HashJoinExact` says. `Exact`
adds what each binding stands for: positions for the rows at them, values for the cells they are computed from, so that
each value is the sum of its cells with their signs. An insert keeps it when it moves no row, as it only makes the
table longer; each query keeps it because it takes rows, or terms, at the same indexes as positions, or values. It
gives `ChainsStayExact` and `AggregatesStayExact` for chains of any length. Their hypothesis is `RangesMeant`: a lower
bound of `selectv` is an int, and an upper bound is one not below it, or beyond an int and read as one below the lower
bound, which `selectv` drops. It cannot go: the number 2^32 + 5 is read as 5, so a range up to it, from 0, means
another than the one written, and a range whose upper bound is below the lower is taken to have none. And `select_two`
takes `MAX_DATA` for a bound that is null or dropped, exclusive (`cs165_api.c:529-535`): a row with the value `MAX_DATA` is in
the range that was meant and not in the answer. So, if such a range is used, `RangesMeant` excludes that value from the
rows, and both theorems fail without it. With upper bounds that an int holds, rows may have it. The run's
ranges and rows satisfy it, a bound beyond an int among them, and TLC evaluates it.

**B+ tree, growing** (`BTreeGrowth_proofs`). A tree is hard to reason about node by node, as nothing in a node says where
it stands, and the prover has no induction over trees. So the invariant is about a tree and a *description* of it
(`Description`): the sequence of its leaves from left to right and, of each node, its height and the first and last of the
leaves below it. `Tree` says, without recursion, that nodes and description agree: the leaves below an inner node are
those below its children, one after the other, and nodes of one height have no leaf in common. `Linked`, `Filled` and
`Ordered` say of each node, by the description, where its next leads, how full it is, and that one value separates the
leaves before each place from those behind it. `Stored` says that each value inserted is in one leaf, once. `OnPath`
says of the node at which an insert has arrived that the value belongs below it. `EdgeBounded` bounds how many values
may be below the first record of an inner node at the left edge. The lemmas give for each step of the code the new
description: a split leaf makes one place more in the chain (`FirstMoved` and `LastMoved` say where the others go), a
split inner node none, a new root one node more. `SplitSound`, `RootedSound`, `DescendOn` and `DescendLowest` and
`InsertGrows` then say that a sound tree stays sound.

**B+ tree, saved, read and searched** (`BTree_proofs`). `Invariant`: the tree in memory is sound for the values read so
far, and the file holds the nodes of a sound tree for all of them in the order written (`Kept`). The order of writing
and what is read back are functions defined by descent, on heights or on the number of images read, for which
existence and uniqueness are proved first (`OneWalk`). The walk meets each node once, and what is pending when a
node has been read is what the walk has yet to meet: so the children found for an image are the images of its
children, and the next pointers that `PlaceBtreeNexts` sets, found again from the shape, are those the chain had. Then
`TypeCorrect`, `SearchTreeHolds`, `BalancedHolds` and `ChainedHolds` follow, for all capacities from four, all values
and columns of any length. `SelectExactHolds`: the descent reaches the leaf before which nothing is in the range
(`NodeReached`), the walk along the chain gathers what is in the range, in ascending order, and stops in time
(`AlongGathers`); equal keys may stand on both sides of a separating value, which is why both use values not above or
not below it. `ImplementsOrderedIndex`: the records in the leaves are the entries for the values inserted, so only the step
that reaches a leaf adds one, all other steps of an insert stutter, and a restart finds what was saved.

**Only model-checked.** The liveness properties `ExecuteReturns`, `SaveEnds` and `Answered`: the prover does not
reason about fairness or ENABLED. And the five runs that find a violation, whose properties do not hold.

## 7. What is not modelled

- Text and tokens of the query language, formatting of replies (`tuple`, `tuple_vectors`), logging; the linked list
  and the reply buffer, which only manage memory.
- Memory addresses: arrays moved by `realloc` under pointers to them (`cs165_api.c:65`, `cs165_api.c:236`).
- In a session: a name bound again (the oldest binding stays the one found), a null lower bound of `selectv` (an
  uninitialised number is compared), values used with positions they were not fetched at, and vectors of other
  kinds where positions are expected (the code checks neither). Negative values in a hash join, which index outside of its table.
- Answers that mixed rows or an unsorted column lead to: a client that reads a late column gets values of other
  rows, and one that selects on the first of two primary columns gets wrong positions. The properties of
  `table_any_usage` say what the state is then, and what still holds; none of them is about those answers.
- A negative number of columns in a `create`, which becomes a size that `malloc` cannot give.
- A kill of the server while it persists, in `Protocol`, where persisting is one step; in `Persist` it may come
  between any two steps.
- Names with a dot, a database called `dbs`, names of 64 characters or more, a missing directory `data`; a master
  file so long that stdio writes part of it before the end.
- Malformed load files, beyond the missing newline: a wrong header or a row of another length fails an
  assertion, which is the action `Crash`. Columns of different lengths in one shared scan.
- In the stream: a receive that returns part of a message or of a line; a client killed within a line; a load
  that one side takes for one and the other does not; failures of `socket`, `bind`, `listen`, `accept`.
- A server started while the last one still writes its files.

## 8. Running

    tlc -config MCTableDocumented.cfg MCTableStore
    tlapm TableStore_proofs.tla
    tlapm Protocol_proofs.tla

`shared_scan` and `session` take about two minutes, `table_any_usage` one and a half, `btree` one, `protocol` and `persist` half of one each, the others a few
seconds. `BTreeGrowth_proofs` and `BTree_proofs` take about nine minutes each, `Session_proofs` and `Protocol_proofs`
four, `TableStore_proofs` three, `Persist_proofs` two, `Scheduler_proofs` a minute and a half, the other proofs less.
