------------------------------- MODULE BTree --------------------------------
(***************************************************************************)
(* The B+ tree of a column: its nodes in the heap, built by inserting the  *)
(* column's values one by one, searched by range selects, written to the   *)
(* column's file by a shutdown and rebuilt from it by the next server.     *)
(*                                                                         *)
(* A node is numbered by the order of its allocation; 0 is the null        *)
(* pointer.  Indexes are those of the C arrays plus one.  A call of        *)
(* bt_insert_non_full on one node is one action: the recursion on a child  *)
(* is the next action.  The fields parent and total_length, which are      *)
(* never read, are left out.  Once created the index is never inserted     *)
(* into: an insert into its table fails (see TableStore).                  *)
(***************************************************************************)
EXTENDS Integers, SequencesExt

CONSTANTS
  NodeSize,         \* NODE_SIZE, the capacity of a node
  MinData, MaxData, \* MIN_DATA and MAX_DATA
  MaxRecords        \* bound on the length of the indexed column

\* With three records or fewer to a node, a first record that is no longer the
\* least of its subtree could come to stand above the record after it.
ASSUME NodeAssumption == NodeSize \in Nat /\ NodeSize >= 4
ASSUME DataAssumption == MinData \in Int /\ MaxData \in Int /\ MinData <= MaxData
ASSUME SizeAssumption == MaxRecords \in Nat

VARIABLES
  node,  \* the nodes of the tree in memory
  root,  \* the node the index points to, 0 when no server runs
  buf,   \* the values of the column that were inserted so far
  at,    \* the node that bt_insert_non_full was called on, 0 between inserts
  built, \* has create_btree_index returned?
  file   \* the images of the nodes in the column's file, in the order written

vars == <<node, root, buf, at, built, file>>

Val == MinData .. MaxData

NewLeaf == [leaf |-> TRUE, records |-> <<>>, children |-> <<>>, next |-> 0]

\* The record that is being inserted: the last value and its position.
Pending == [pos |-> Len(buf), val |-> buf[Len(buf)]]
---------------------------------------------------------------------------
(* Helpers of an insert.                                                   *)

\* A node counted as full one record too late.
FullTooLate(n) == Len(n.records) > NodeSize

\* bt_is_full.
BtIsFull(n) == Len(n.records) >= NodeSize

\* bt_search_inner: how many records come before the first one above d.
BtSearchInner(n, d) ==
  LET above == { i \in DOMAIN n.records : n.records[i].val > d }
  IN  IF above = {} THEN Len(n.records) ELSE Min(above) - 1

\* A search for the place of an equal key past all of them.
SearchLeftPastEqual(n, d) ==
  LET above == { i \in DOMAIN n.records : n.records[i].val > d }
  IN  IF above = {} THEN Len(n.records) ELSE Min(above) - 1

\* bt_search_left: how many records come before the first one not below d.
BtSearchLeft(n, d) ==
  LET notBelow == { i \in DOMAIN n.records : n.records[i].val >= d }
  IN  IF notBelow = {} THEN Len(n.records) ELSE Min(notBelow) - 1

\* The number of the last record before the middle.
MedianOffByOne(n) == (Len(n.records) \div 2) - 1

\* How many records stay in the left node of a split.
Median(n) == Len(n.records) \div 2

\* The right node of a tree that keeps the median in the parent only.
RightHalfWithoutMedian(n) ==
  [n EXCEPT !.records  = SubSeq(@, Median(n) + 2, Len(@)),
            !.children = SubSeq(@, Median(n) + 2, Len(@))]

\* The left node of a split, but for its next, and the right one, which has
\* the median and takes over next.
LeftHalf(n) ==
  [n EXCEPT !.records  = SubSeq(@, 1, Median(n)),
            !.children = IF n.leaf THEN <<>> ELSE SubSeq(@, 1, Median(n))]
RightHalf(n) ==
  [n EXCEPT !.records  = SubSeq(@, Median(n) + 1, Len(@)),
            !.children = SubSeq(@, Median(n) + 1, Len(@))]

\* bt_split_child: the i-th child of parent is split, and its right half put
\* beside it in the parent (bt_make_room) and in the chain.
BtSplitChild(nodes, parent, i) ==
  LET y     == nodes[parent].children[i]
      fresh == Len(nodes) + 1
      left  == [LeftHalf(nodes[y]) EXCEPT !.next = fresh]
      right == RightHalf(nodes[y])
      above == [nodes[parent] EXCEPT !.children = InsertAt(@, i + 1, fresh),
                                     !.records = InsertAt(@, i + 1, right.records[1])]
  IN  Append([nodes EXCEPT ![y] = left, ![parent] = above], right)

\* The left half whatever the record.
AlwaysLeftHalf(nodes, parent, i, d) == nodes[parent].children[i]

\* Of the halves of the split i-th child, the one that gets the value d.
HalfFor(nodes, parent, i, d) ==
  IF nodes[parent].records[i + 1].val < d THEN nodes[parent].children[i + 1]
                                          ELSE nodes[parent].children[i]
---------------------------------------------------------------------------
(* Creating the index.                                                     *)

Init ==
  /\ node = <<NewLeaf>>
  /\ root = 1
  /\ buf = <<>>
  /\ at = 0
  /\ built = FALSE
  /\ file = <<>>

\* The next turn of bt_insert_bulk's loop calls bt_insert.  A full root is split
\* under a new one; nothing reads the caller's root pointer before the call
\* returns, so it may change here.  As in the code, the first record of the new
\* root is taken from its first child before the insert.
BtInsert(val) ==
  /\ ~built /\ at = 0
  /\ Len(buf) < MaxRecords
  /\ buf' = Append(buf, val)
  /\ IF BtIsFull(node[root])
     THEN LET newRoot == [leaf |-> FALSE, records |-> <<node[root].records[1]>>,
                          children |-> <<root>>, next |-> 0]
              nodes   == BtSplitChild(Append(node, newRoot), Len(node) + 1, 1)
          IN  /\ node' = nodes
              /\ root' = Len(node) + 1
              /\ at' = HalfFor(nodes, Len(node) + 1, 1, val)
     ELSE at' = root /\ UNCHANGED <<node, root>>
  /\ UNCHANGED <<built, file>>

\* bt_insert_non_full on a leaf: the record goes behind those equal to it.
BtInsertIntoLeaf ==
  /\ at # 0 /\ node[at].leaf
  /\ node' = [node EXCEPT ![at].records =
                InsertAt(@, BtSearchInner(node[at], Pending.val) + 1, Pending)]
  /\ at' = 0
  /\ UNCHANGED <<root, buf, built, file>>

\* bt_insert_non_full on an inner node: below all its records the first one
\* becomes the new record; a full child is split before the descent.
BtInsertIntoInner ==
  /\ at # 0 /\ ~node[at].leaf
  /\ LET i     == BtSearchInner(node[at], Pending.val)
         child == IF i = 0 THEN 1 ELSE i
         nodes == IF i = 0 THEN [node EXCEPT ![at].records[1] = Pending] ELSE node
         y     == node[at].children[child]
     IN  IF BtIsFull(node[y])
         THEN /\ node' = BtSplitChild(nodes, at, child)
              /\ at' = HalfFor(node', at, child, Pending.val)
         ELSE node' = nodes /\ at' = y
  /\ UNCHANGED <<root, buf, built, file>>

\* The column has no more values: create_btree_index returns.
CreateBtreeIndex ==
  /\ ~built /\ at = 0
  /\ built' = TRUE
  /\ UNCHANGED <<node, root, buf, at, file>>
---------------------------------------------------------------------------
(* The column's file.                                                      *)

\* persist_btree_index: a node before its children, the children in order.
Preorder ==
  LET below[x \in DOMAIN node] ==
        IF node[x].leaf THEN <<x>>
        ELSE <<x>> \o FlattenSeq([i \in DOMAIN node[x].children |-> below[node[x].children[i]]])
  IN  below[root]

\* shutdown: the nodes as they are in memory, pointers and all.
PersistBtreeIndex ==
  /\ built /\ root # 0
  /\ LET order == Preorder
     IN  file' = [k \in DOMAIN order |-> node[order[k]]]
  /\ node' = <<>>
  /\ root' = 0
  /\ UNCHANGED <<buf, at, built>>

\* load_btree_node: every image becomes a node; an inner one gets as children
\* the nodes read next, as many as it has records.
LoadNodes(images) ==
  LET Fanout(k) == IF images[k].leaf THEN 0 ELSE Len(images[k].records)
      \* The children yet to be read after k images: the i-th one of which image.
      pending[k \in 0 .. Len(images)] ==
        IF k = 0 THEN << <<0, 1>> >>
        ELSE [i \in 1 .. Fanout(k) |-> <<k, i>>] \o Tail(pending[k - 1])
      Child(k, i) == CHOOSE j \in DOMAIN images : Head(pending[j - 1]) = <<k, i>>
  IN  [k \in DOMAIN images |->
         [images[k] EXCEPT !.children = [i \in 1 .. Fanout(k) |-> Child(k, i)]]]

\* A chain that ends with the last child of every inner node.
NoNextOfLast(nodes, p) == 0

\* The next of a last child: the first child of the next of its parent, p.
NextOfLast(nodes, p) == IF p = 0 THEN 0 ELSE nodes[p].children[1]

\* place_btree_nexts, from the root down: the next of a child but the last is its
\* right sibling.
PlaceBtreeNexts(nodes) ==
  LET next[x \in DOMAIN nodes] ==
        LET isParent(p) == \E j \in DOMAIN nodes[p].children : nodes[p].children[j] = x
            p == CHOOSE y \in DOMAIN nodes : isParent(y)
            i == CHOOSE j \in DOMAIN nodes[p].children : nodes[p].children[j] = x
        IN  IF x = 1 THEN nodes[1].next
            ELSE IF i < Len(nodes[p].children) THEN nodes[p].children[i + 1]
            ELSE NextOfLast(nodes, next[p])
  IN  [x \in DOMAIN nodes |-> [nodes[x] EXCEPT !.next = next[x]]]

\* load_btree_index, by the next server.
LoadBtreeIndex ==
  /\ root = 0
  /\ node' = PlaceBtreeNexts(LoadNodes(file))
  /\ root' = 1
  /\ UNCHANGED <<buf, at, built, file>>

Next ==
  \/ \E val \in Val : BtInsert(val)
  \/ BtInsertIntoLeaf
  \/ BtInsertIntoInner
  \/ CreateBtreeIndex
  \/ PersistBtreeIndex
  \/ LoadBtreeIndex

Spec == Init /\ [][Next]_vars
---------------------------------------------------------------------------
(* A range select.                                                         *)

\* bt_search_node: the leaf where the first record not below d is, or the one
\* before it.
BtSearchNode(d) ==
  LET below[x \in DOMAIN node] ==
        IF node[x].leaf THEN x
        ELSE LET i == BtSearchLeft(node[x], d)
             IN  below[node[x].children[IF i > 0 THEN i ELSE 1]]
  IN  below[root]

\* select_one_btree: along the chain from the leaf of low, to the first record
\* not below high or to the end of the leaf of high.
SelectOneBtree(low, high) ==
  LET last == BtSearchNode(high)
      from[x \in DOMAIN node] ==
        LET n   == node[x]
            end == BtSearchLeft(n, high)
            taken[i \in 0 .. end] ==
              IF i = 0 THEN <<>>
              ELSE IF n.records[i].val >= low THEN Append(taken[i - 1], n.records[i])
              ELSE taken[i - 1]
        IN  IF end < Len(n.records) \/ x = last \/ n.next = 0
            THEN taken[end]
            ELSE taken[end] \o from[n.next]
  IN  from[BtSearchNode(low)]
---------------------------------------------------------------------------
(* The properties.                                                         *)

\* The leaves of the tree below x from left to right, and their records.
Leaves(x) ==
  LET below[y \in DOMAIN node] ==
        IF node[y].leaf THEN <<y>>
        ELSE FlattenSeq([i \in DOMAIN node[y].children |-> below[node[y].children[i]]])
  IN  below[x]
RecordsUnder(x) == UNION { Range(node[y].records) : y \in Range(Leaves(x)) }
Held == IF root = 0 THEN {} ELSE RecordsUnder(root)

\* Types; no node holds more than its arrays can, and an insert arrives at a
\* node with room left (the assertion of bt_insert_non_full).
TypeOK ==
  /\ root \in 0 .. Len(node)
  /\ at \in 0 .. Len(node)
  /\ at # 0 => ~BtIsFull(node[at])
  /\ buf \in Seq(Val)
  /\ built \in BOOLEAN
  /\ \A n \in Range(node) : n.next \in 0 .. Len(node)
  /\ \A n \in Range(node) \cup Range(file) :
       /\ n.leaf \in BOOLEAN
       /\ n.next \in Nat
       /\ Len(n.records) <= NodeSize
       /\ n.leaf \/ Len(n.children) = Len(n.records)

\* Splits, whichever half the insert goes on in, leave a search tree: what is
\* left of a child's record in its parent is not above it, what is in the child
\* or right of it not below.  A first record is no bound and may be wrong: that
\* of a new root is set before the insert that split the old one.
SearchTree ==
  \A x \in DOMAIN node :
    /\ node[x].leaf => \A i, j \in DOMAIN node[x].records :
         i < j => node[x].records[i].val <= node[x].records[j].val
    /\ \A j \in DOMAIN node[x].children :
         \A r \in RecordsUnder(node[x].children[j]), i \in DOMAIN node[x].records :
           /\ 1 < i /\ i <= j => node[x].records[i].val <= r.val
           /\ j < i => r.val <= node[x].records[i].val

\* The leaves are all equally deep, and no node but an empty root is left with
\* fewer records than half its capacity: a select that starts in the leaf found
\* for its lower bound never meets an empty one.
Balanced ==
  LET depth[x \in DOMAIN node] ==
        IF node[x].leaf THEN 0 ELSE depth[node[x].children[1]] + 1
  IN  \A x \in DOMAIN node :
        /\ x # root => Len(node[x].records) >= NodeSize \div 2
        /\ \A i \in DOMAIN node[x].children :
             depth[node[x].children[i]] = depth[node[x].children[1]]

\* Following next from the first leaf visits the leaves of the tree from left to
\* right: splits keep the chain, and a restart rebuilds it from the shape alone,
\* across the nodes of different parents.
Chained ==
  root # 0 =>
    LET leaves == Leaves(root)
    IN  \A k \in DOMAIN leaves :
          node[leaves[k]].next = IF k < Len(leaves) THEN leaves[k + 1] ELSE 0

\* Once the index is created, and after any restart, every range finds exactly
\* the positions of the column's values in the half-open interval, each once and
\* in order of value, though equal keys may be spread over several leaves of
\* different parents.
SelectExact ==
  (built /\ root # 0) =>
    \A low, high \in Val :
      LET found == SelectOneBtree(low, high)
          wanted == { p \in DOMAIN buf : low <= buf[p] /\ buf[p] < high }
      IN  /\ { r.pos : r \in Range(found) } = wanted
          /\ Len(found) = Cardinality(wanted)
          /\ \A i, j \in DOMAIN found : i < j => buf[found[i].pos] <= buf[found[j].pos]

\* The tree is an index of its column: only the step that reaches a leaf adds an
\* entry, splits lose and double none, a restart finds those that were written.
Abstract == INSTANCE OrderedIndex
              WITH entries <- Held,
                   saved <- UNION { Range(n.records) : n \in { m \in Range(file) : m.leaf } },
                   up <- root # 0
RefinesOrderedIndex == Abstract!Spec
=============================================================================
