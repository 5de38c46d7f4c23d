----------------------------- MODULE Scheduler -----------------------------
(***************************************************************************)
(* The shared scan of scheduler.c: selects are put on a linked list and    *)
(* executed together, block by block of the column, with one POSIX thread  *)
(* per select and block, so that all threads of a block read the same      *)
(* pages.  The server's own thread creates the threads of a block, joins   *)
(* them in the order of the list, and only then goes on to the next block. *)
(*                                                                         *)
(* The creating and joining thread is `pc`, `cur`, `block`; a scan thread  *)
(* is a member of `live` from its pthread_create to its pthread_exit.      *)
(* Every step on memory that threads share is an action of its own.        *)
(***************************************************************************)
EXTENDS Vectors

CONSTANTS
  Cols, Primary,    \* the columns of a table; those declared PRIMARY
  Names,            \* names of client variables
  MinData, MaxData, \* the bounds a null operand stands for
  Ranges,           \* the operands l, h that clients pass, as pairs
  MinLen, MaxLen,   \* bounds on the length of the columns
  Block,            \* n_pages * PAGESIZE, the elements of a block
  MaxIndexed,       \* bound on the length of the columns once one has an index
  MaxNodes, MaxPool \* bounds on the scheduled selects and on the variables

ASSUME DataAssumption == MinData \in Int /\ MaxData \in Int /\ MinData <= MaxData
ASSUME ColsAssumption == Primary \subseteq Cols /\ Ranges \subseteq Int \X Int
ASSUME BoundAssumption == /\ MinLen \in Nat /\ MaxLen \in Nat /\ Block \in Nat \ {0}
                          /\ MaxIndexed \in Nat /\ MaxNodes \in Nat /\ MaxPool \in Nat

VARIABLES
  data,  \* data[c]: the vector of column c
  index, \* index[c]: its index
  root,  \* the linked list of scheduled selects, head first
  pool,  \* the client's variables, in the order they were added
  pc,    \* where the server's thread is in execute_scheduled
  cur,   \* the node it is at
  block, \* the loop variable i: the first element of the block
  live   \* the scan threads that have not exited

vars == <<data, index, root, pool, pc, cur, block, live>>

Val  == MinData .. MaxData
NULL == <<0>> \* a null vector pointer; no position is 0, so no vector is equal to it

\* Columns of a table have one length, and a primary one is ascending.
Contents(n) ==
  { d \in [Cols -> [1 .. n -> Val]] : \A c \in Primary : Ascending(d[c]) }
Length(d) == CHOOSE n \in MinLen .. MaxLen : \A c \in Cols : Len(d[c]) = n

\* An index: the vector `of` that it was made of, and the positions of its entries
\* in the order in which the structure has them, by value.
IndexType == {"SORTED", "BTREE"}
NoIndex   == [type |-> "NO_INDEX", of |-> <<>>, order |-> <<>>]
HasIndex(c) == index[c].type # "NO_INDEX"
---------------------------------------------------------------------------
Init == /\ data \in UNION { Contents(n) : n \in MinLen .. MaxLen }
        /\ index = [c \in Cols |-> NoIndex]
        /\ root = <<>>
        /\ pool = <<>>
        /\ pc = "idle"
        /\ cur = 0
        /\ block = 0
        /\ live = {}

\* An insert or a load between two commands: rows come, and may be sorted in.  With
\* an index it is a load, for an insert ends the server; and a load touches no index.
Change ==
  /\ pc = "idle"
  /\ \E n \in Length(data) + 1 .. MaxLen :
       /\ (\A c \in Cols : ~HasIndex(c)) \/ n <= MaxIndexed
       /\ data' \in Contents(n)
  /\ UNCHANGED <<index, root, pool, pc, cur, block, live>>

\* create(idx, ...), refused if there is one.  Of a primary column nothing here
\* would read it.  In which order equal values stand is up to qsort or to the tree.
CreateIndex(c, type) ==
  /\ pc = "idle"
  /\ c \notin Primary /\ ~HasIndex(c)
  /\ Len(data[c]) <= MaxIndexed
  /\ \E p \in SortedPositions(data[c]) :
       index' = [index EXCEPT ![c] = [type |-> type, of |-> data[c], order |-> p]]
  /\ UNCHANGED <<data, root, pool, pc, cur, block, live>>

\* schedule_select: a node with a null result becomes the new root.
ScheduleSelect(name, c, r) ==
  /\ pc = "idle"
  /\ Len(root) < MaxNodes
  /\ root' = << [name |-> name, col |-> c, l |-> r[1], h |-> r[2],
                 start |-> -1, end |-> -1, result |-> NULL] >> \o root
  /\ UNCHANGED <<data, index, pool, pc, cur, block, live>>

\* execute_scheduled, up to its loop; without scheduled selects it returns.
ExecuteScheduled ==
  /\ pc = "idle"
  /\ root # <<>>
  /\ Len(pool) + Len(root) <= MaxPool
  /\ pc' = "block"
  /\ block' = 0
  /\ UNCHANGED <<data, index, root, pool, cur, live>>

\* The head of the loop over the blocks of the root's column.
EnterBlock ==
  /\ pc = "block"
  /\ block < Len(data[root[1].col])
  /\ pc' = "create"
  /\ cur' = 1
  /\ UNCHANGED <<data, index, root, pool, block, live>>

\* A loop over the nodes that goes on past the last one.
CreateThreadPastEnd ==
  /\ pc = "create"
  /\ root' = [root EXCEPT ![cur].start = block, ![cur].end = block + Block]
  /\ live' = live \cup
       {[node |-> cur, block |-> block, at |-> "entry", pos |-> 0, stop |-> 0]}
  /\ IF cur <= Len(root) THEN pc' = "create" /\ cur' = cur + 1
                         ELSE pc' = "join" /\ cur' = 1
  /\ UNCHANGED <<data, index, pool, block>>

\* pthread_create for one node, with the bounds of the block left in the node.
CreateThread ==
  /\ pc = "create"
  /\ root' = [root EXCEPT ![cur].start = block, ![cur].end = block + Block]
  /\ live' = live \cup
       {[node |-> cur, block |-> block, at |-> "entry", pos |-> 0, stop |-> 0]}
  /\ IF cur < Len(root) THEN pc' = "create" /\ cur' = cur + 1
                        ELSE pc' = "join" /\ cur' = 1
  /\ UNCHANGED <<data, index, pool, block>>

\* A main thread that joins nobody.
JoinNothing ==
  /\ pc = "join"
  /\ IF cur < Len(root) THEN pc' = "join" /\ cur' = cur + 1 /\ block' = block
                        ELSE pc' = "block" /\ cur' = 0 /\ block' = block + Block
  /\ UNCHANGED <<data, index, root, pool, live>>

\* pthread_join of the node's latest thread, and the end of the loop's body.
JoinThread ==
  /\ pc = "join"
  /\ \A t \in live : ~(t.node = cur /\ t.block = block)
  /\ IF cur < Len(root) THEN pc' = "join" /\ cur' = cur + 1 /\ block' = block
                        ELSE pc' = "block" /\ cur' = 0 /\ block' = block + Block
  /\ UNCHANGED <<data, index, root, pool, live>>

\* Every variable bound to the result of the first node.
ResultsOfFirst ==
  [k \in 1 .. Len(root) |-> [name |-> root[k].name, result |-> root[1].result]]

\* The variables that add_vector_var binds after the last block.
Results ==
  [k \in 1 .. Len(root) |-> [name |-> root[k].name, result |-> root[k].result]]

\* After the last block: publish all results, and unschedule_all.
Publish ==
  /\ pc = "block"
  /\ block >= Len(data[root[1].col])
  /\ pool' = pool \o Results
  /\ root' = <<>>
  /\ pc' = "idle"
  /\ block' = 0
  /\ UNCHANGED <<data, index, cur, live>>

\* What select_one finds for a node in the vector of its column.
Found(node) ==
  IF node.col \in Primary THEN SelectPrimary(data[node.col], node.l, node.h)
                          ELSE SelectUnsorted(data[node.col], node.l, node.h)

\* The bounds of the entries in a range, among values that ascend: both searches of
\* select_one_sorted, and what select_one_btree walks through.
EndInIndex(type, values, h) ==
  IF type = "SORTED" THEN BinarySearchRight(values, h) ELSE BinarySearchLeft(values, h)

\* What select_one finds for a node in the index of its column, in its order.
FoundInIndex(node) ==
  LET idx    == index[node.col]
      values == SortVectorFromPositions(idx.of, idx.order)
  IN  SubSeq(idx.order, BinarySearchLeft(values, node.l) + 1,
                        EndInIndex(idx.type, values, node.h))

\* The vectors of positions in the column that a node scans.
Lists(node) == UNION { [1 .. m -> DOMAIN data[node.col]] : m \in 0 .. Len(data[node.col]) }

\* select_one: the access path is chosen by the type of the column, then by its index.
SelectOne(node) ==
  IF node.col \notin Primary /\ HasIndex(node.col)
  THEN {FoundInIndex(node)}
  ELSE { v \in Lists(node) : IsListOf(v, Found(node)) }

\* execute_scheduled_sequentially: a select_one for each node, then the same.
ExecuteSequentially ==
  /\ pc = "idle"
  /\ root # <<>>
  /\ Len(pool) + Len(root) <= MaxPool
  /\ \E answer \in [1 .. Len(root) -> UNION { SelectOne(root[k]) : k \in DOMAIN root }] :
       /\ \A k \in DOMAIN root : answer[k] \in SelectOne(root[k])
       /\ pool' = pool \o
            [k \in 1 .. Len(root) |-> [name |-> root[k].name, result |-> answer[k]]]
  /\ root' = <<>>
  /\ UNCHANGED <<data, index, pc, cur, block, live>>

\* The client disconnects: destroy_vars, which asserts of every vector variable
\* that it has a vector.  The list of scheduled selects stays.
Disconnect ==
  /\ pc = "idle"
  /\ pool # <<>>
  /\ \A k \in DOMAIN pool : pool[k].result # NULL
  /\ pool' = <<>>
  /\ UNCHANGED <<data, index, root, pc, cur, block, live>>

\* A block that ends one element early.
ClipShort(end, n) == IF end > n THEN n ELSE end - 1

\* The end of the scan: that of the block, or of the vector if it is shorter.
Clip(end, n) == IF end > n THEN n ELSE end

\* A thread that leaves a null result alone.
ThreadEntryMakesNothing(t) ==
  /\ t.at = "entry"
  /\ LET node == root[t.node]
     IN  live' = (live \ {t}) \cup
           {[t EXCEPT !.at = "scan", !.pos = node.start,
                      !.stop = Clip(node.end, Len(data[node.col]))]}
  /\ UNCHANGED <<data, index, root, pool, pc, cur, block>>

\* select_one_unsorted up to its loop: it makes the result vector if it is null.
ThreadEntry(t) ==
  /\ t.at = "entry"
  /\ LET node == root[t.node]
     IN  /\ root' = [root EXCEPT ![t.node].result = IF @ = NULL THEN <<>> ELSE @]
         /\ live' = (live \ {t}) \cup
              {[t EXCEPT !.at = "scan", !.pos = node.start,
                         !.stop = Clip(node.end, Len(data[node.col]))]}
  /\ UNCHANGED <<data, index, pool, pc, cur, block>>

\* The test of the loop: the upper bound is exclusive.
Matches(v, p, node) == node.l <= v[p] /\ v[p] < node.h

\* A scan that goes on only when it has found something.
StepIfFound(t, found) == IF found THEN [t EXCEPT !.pos = @ + 1] ELSE t

\* The loop variable after one turn.
Step(t, found) == [t EXCEPT !.pos = @ + 1]

\* One turn of the loop: the element at pos, appended to the result if it matches.
ThreadScan(t) ==
  /\ t.at = "scan"
  /\ t.pos < t.stop
  /\ LET node  == root[t.node]
         found == Matches(data[node.col], t.pos + 1, node)
     IN  /\ root' = [root EXCEPT ![t.node].result =
                       IF found THEN Append(@, t.pos + 1) ELSE @]
         /\ live' = (live \ {t}) \cup {Step(t, found)}
  /\ UNCHANGED <<data, index, pool, pc, cur, block>>

\* pthread_exit.
ThreadExit(t) ==
  /\ t.at = "scan"
  /\ t.pos >= t.stop
  /\ live' = live \ {t}
  /\ UNCHANGED <<data, index, root, pool, pc, cur, block>>

Main == EnterBlock \/ CreateThread \/ JoinThread \/ Publish
Thread(k) == \E t \in live : t.node = k /\ (ThreadEntry(t) \/ ThreadScan(t) \/ ThreadExit(t))

Next ==
  \/ Change
  \/ \E c \in Cols, type \in IndexType : CreateIndex(c, type)
  \/ \E name \in Names, c \in Cols, r \in Ranges : ScheduleSelect(name, c, r)
  \/ ExecuteScheduled
  \/ EnterBlock
  \/ CreateThread
  \/ JoinThread
  \/ Publish
  \/ ExecuteSequentially
  \/ Disconnect
  \/ \E t \in live : ThreadEntry(t)
  \/ \E t \in live : ThreadScan(t)
  \/ \E t \in live : ThreadExit(t)

\* The operating system goes on running a thread that can run.
Spec == Init /\ [][Next]_vars /\ WF_vars(Main) /\ \A k \in 1 .. MaxNodes : WF_vars(Thread(k))
---------------------------------------------------------------------------
(* The properties.                                                         *)

Node == [name : Names, col : Cols, l : Int, h : Int,
         start : Int, end : Int, result : {NULL} \cup Seq(Nat \ {0})]
ThreadState == [node : 1 .. MaxNodes, block : Nat, at : {"entry", "scan"}, pos : Nat, stop : Nat]

\* An index has all positions of a vector that the column was, by value, and none
\* that the column has not now.
IndexOK(c) ==
  HasIndex(c) =>
    /\ c \notin Primary
    /\ index[c].type \in IndexType
    /\ index[c].of \in Seq(Val) /\ Len(index[c].of) <= Length(data)
    /\ index[c].order \in SortedPositions(index[c].of)

TypeOK ==
  /\ \E n \in MinLen .. MaxLen : data \in Contents(n)
  /\ DOMAIN index = Cols /\ \A c \in Cols : IndexOK(c)
  /\ root \in Seq(Node) /\ Len(root) <= MaxNodes
  /\ pool \in Seq([name : Names, result : {NULL} \cup Seq(Nat \ {0})])
  /\ pc \in {"idle", "block", "create", "join"}
  /\ cur \in 0 .. MaxNodes /\ (pc \in {"create", "join"} => cur \in 1 .. Len(root))
  /\ block \in Nat
  /\ live \subseteq ThreadState

\* No two threads append to the result vector of one node, and none reads the
\* bounds of a node that the server's thread is about to overwrite for the next
\* block: threads share nodes without a lock, the joins are all they have.
OneWriter ==
  \A t \in live :
    /\ \A u \in live : t.node = u.node => t = u
    /\ t.block = block
    /\ pc = "create" => t.node < cur
    /\ pc = "join" => t.node >= cur

\* No thread outlives its node, which unschedule_all frees.
NoOrphanThread == live # {} => pc \in {"create", "join"}

\* When a block is done every result holds, in order and once each, the matching
\* positions of the column up to there: no block is skipped or scanned twice.
Scanned(v, node, m) ==
  IsListOf(node.result, { p \in DOMAIN v : p <= m /\ Matches(v, p, node) })
BlocksExact ==
  pc = "block" /\ block > 0 =>
    \A k \in DOMAIN root : Scanned(data[root[k].col], root[k], block)

\* Every variable bound to a scheduled select has a vector, since select is left
\* to make it.
ResultsAreVectors == \A k \in DOMAIN pool : pool[k].result # NULL

\* An execution, once begun, returns to the client.
ExecuteReturns == (pc # "idle") ~> (pc = "idle")

\* Blocks, threads and their order show in no answer: each query of the list
\* gets under its own name, all in one step, the positions of its column, or if it
\* is answered without a scan those that an index of the column has had from the
\* time of its creation.
Batch == INSTANCE BatchSelect
           WITH index <- [c \in { d \in Cols : HasIndex(d) } |-> index[c].of],
                queue <- [k \in 1 .. Len(root) |->
                            [name |-> root[k].name, col |-> root[k].col,
                             l |-> root[k].l, h |-> root[k].h]]
RefinesBatchSelect == Batch!Spec
=============================================================================
