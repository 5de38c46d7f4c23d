-------------------------- MODULE Scheduler_proofs --------------------------
(***************************************************************************)
(* Invariants of Scheduler, for every number of selects, every length of   *)
(* the columns and every size of a block.                                  *)
(*                                                                         *)
(* First, what a scan does to the result of its node, as lemmas on vectors *)
(* and nodes alone.  Then the inductive invariant: which threads may be    *)
(* alive at each place of the server's thread, which bounds they go by,    *)
(* and how far the result of each node has come.  Last, that a batch of    *)
(* queries is answered in one step.                                        *)
(***************************************************************************)
EXTENDS Scheduler, SequenceTheorems, Vectors_proofs

---------------------------------------------------------------------------
(* Layer 1: scans.                                                         *)

Vector == Seq(Val)

\* A function on 1 .. n with values in S is a sequence over S.
LEMMA FunctionIsSeq ==
  ASSUME NEW S, NEW n \in Nat, NEW f \in [1 .. n -> S]
  PROVE  f \in Seq(S) /\ Len(f) = n
  OBVIOUS

\* A position above those of a list goes at its end.
LEMMA ListAppend ==
  ASSUME NEW P, P \subseteq Int, NEW x \in Int, \A p \in P : p < x,
         NEW r, IsListOf(r, P)
  PROVE  IsListOf(Append(r, x), P \cup {x})
  <1> DEFINE s == Append(r, x)
  <1>1. r \in Seq(P)
    BY DEF IsListOf
  <1>2. /\ s \in Seq(P \cup {x})
        /\ Len(s) = Len(r) + 1
        /\ Len(r) \in Nat
        /\ s[Len(r) + 1] = x
        /\ \A k \in 1 .. Len(r) : s[k] = r[k]
        /\ DOMAIN s = 1 .. Len(r) + 1
        /\ DOMAIN r = 1 .. Len(r)
    BY <1>1
  <1>3. \A k \in 1 .. Len(r) : r[k] \in P
    BY <1>1
  <1> HIDE DEF s
  <1>4. ASSUME NEW j \in DOMAIN s, NEW k \in DOMAIN s, j < k
        PROVE  s[j] < s[k]
    <2>1. j \in 1 .. Len(r)
      BY <1>2, <1>4
    <2>2. CASE k \in 1 .. Len(r)
      BY <1>2, <1>4, <2>1, <2>2 DEF IsListOf
    <2>3. CASE k = Len(r) + 1
      BY <1>2, <1>3, <2>1, <2>3
    <2> QED
      BY <1>2, <2>2, <2>3
  <1>5. ASSUME NEW p \in P \cup {x}
        PROVE  \E k \in DOMAIN s : s[k] = p
    <2>1. CASE p \in P
      <3>1. PICK k \in DOMAIN r : r[k] = p
        BY <2>1 DEF IsListOf
      <3> QED
        BY <1>2, <3>1
    <2>2. CASE p = x
      BY <1>2, <2>2
    <2> QED
      BY <2>1, <2>2
  <1> QED
    BY <1>2, <1>4, <1>5 DEF IsListOf, s

\* A fresh result holds what lies before the first element.
LEMMA ScannedNone ==
  ASSUME NEW v \in Vector, NEW node, node.result = <<>>
  PROVE  Scanned(v, node, 0)
  <1>1. { p \in DOMAIN v : p <= 0 /\ Matches(v, p, node) } = {}
    BY DEF Vector
  <1>2. IsListOf(<<>>, {})
    BY DEF IsListOf
  <1> QED
    BY <1>1, <1>2 DEF Scanned

\* One turn of the loop.
LEMMA ScannedNext ==
  ASSUME NEW v \in Vector, NEW node \in Node, NEW m \in Nat, m < Len(v),
         Scanned(v, node, m)
  PROVE  Scanned(v, [node EXCEPT !.result =
                       IF Matches(v, m + 1, node) THEN Append(@, m + 1) ELSE @], m + 1)
  <1> DEFINE P == { p \in DOMAIN v : p <= m /\ Matches(v, p, node) }
             next == [node EXCEPT !.result =
                        IF Matches(v, m + 1, node) THEN Append(@, m + 1) ELSE @]
             Q == { p \in DOMAIN v : p <= m + 1 /\ Matches(v, p, next) }
  <1>1. DOMAIN v = 1 .. Len(v) /\ Len(v) \in Nat
    BY DEF Vector
  <1>2. /\ next.l = node.l /\ next.h = node.h
        /\ next.result = IF Matches(v, m + 1, node) THEN Append(node.result, m + 1)
                                                     ELSE node.result
    BY DEF Node
  <1>3. \A p : Matches(v, p, next) = Matches(v, p, node)
    BY <1>2 DEF Matches
  <1>4. IsListOf(node.result, P)
    BY DEF Scanned
  <1> HIDE DEF next
  <1>5. CASE Matches(v, m + 1, node)
    <2>1. Q = P \cup {m + 1}
      BY <1>1, <1>3, <1>5
    <2>2. IsListOf(Append(node.result, m + 1), P \cup {m + 1})
      <3>1. m + 1 \in Int /\ P \subseteq Int /\ \A p \in P : p < m + 1
        BY <1>1
      <3> HIDE DEF P, Q
      <3> QED
        BY <1>4, <3>1, ListAppend
    <2> QED
      BY <1>2, <1>5, <2>1, <2>2 DEF Scanned, next
  <1>6. CASE ~Matches(v, m + 1, node)
    <2>1. Q = P
      BY <1>1, <1>3, <1>6
    <2> QED
      BY <1>2, <1>4, <1>6, <2>1 DEF Scanned, next
  <1> QED
    BY <1>5, <1>6

\* A scan that has come to the clipped end has done its block.
LEMMA ScannedBlock ==
  ASSUME NEW v \in Vector, NEW node, NEW m \in Nat, NEW end \in Nat,
         m <= end, m >= Clip(end, Len(v)), Scanned(v, node, m)
  PROVE  Scanned(v, node, end)
  <1>1. DOMAIN v = 1 .. Len(v) /\ Len(v) \in Nat
    BY DEF Vector
  <1>2. \A p \in DOMAIN v : p <= m <=> p <= end
    BY <1>1 DEF Clip
  <1>3. { p \in DOMAIN v : p <= m /\ Matches(v, p, node) }
          = { p \in DOMAIN v : p <= end /\ Matches(v, p, node) }
    BY <1>2
  <1> QED
    BY <1>3 DEF Scanned

\* How far a result has come has nothing to do with the bounds of a block.
LEMMA ScannedSame ==
  ASSUME NEW v, NEW node, NEW other, NEW m, Scanned(v, node, m),
         other.result = node.result, other.l = node.l, other.h = node.h
  PROVE  Scanned(v, other, m)
  <1>1. \A p : Matches(v, p, other) = Matches(v, p, node)
    BY DEF Matches
  <1> QED
    BY <1>1 DEF Scanned

\* The null pointer is no vector of positions.
LEMMA NullIsNoVector == NULL \notin Seq(Nat \ {0})
  <1>1. Len(NULL) = 1 /\ NULL[1] = 0
    BY DEF NULL
  <1> QED
    BY <1>1

\* The result of a scan is a vector.
LEMMA ScannedIsVector ==
  ASSUME NEW v \in Vector, NEW node, NEW m, Scanned(v, node, m)
  PROVE  node.result # NULL /\ node.result \in Seq(Nat \ {0})
  <1> DEFINE P == { p \in DOMAIN v : p <= m /\ Matches(v, p, node) }
  <1>1. DOMAIN v = 1 .. Len(v) /\ Len(v) \in Nat
    BY DEF Vector
  <1>2. P \subseteq Nat \ {0}
    BY <1>1
  <1>3. node.result \in Seq(P)
    BY DEF Scanned, IsListOf
  <1> HIDE DEF P
  <1>4. node.result \in Seq(Nat \ {0})
    BY <1>2, <1>3, SeqMonotonic
  <1> QED
    BY <1>4, NullIsNoVector
---------------------------------------------------------------------------
(* Layer 2: the list of nodes.                                             *)

\* The nodes of two lists ask for the same.
SameQuery(node, other) ==
  /\ node.name = other.name
  /\ node.col = other.col
  /\ node.l = other.l
  /\ node.h = other.h

\* The bounds of a block are put into one node of the list.
WithBounds(nodes, k, b, e) == [nodes EXCEPT ![k].start = b, ![k].end = e]
OnlyBounds(new, nodes, k, b, e) ==
  /\ new \in Seq(Node)
  /\ Len(new) = Len(nodes)
  /\ new[k].start = b /\ new[k].end = e
  /\ \A j \in 1 .. Len(nodes) :
       /\ SameQuery(new[j], nodes[j])
       /\ new[j].result = nodes[j].result
       /\ j # k => new[j] = nodes[j]
LEMMA BoundsSet ==
  ASSUME NEW nodes \in Seq(Node), NEW k \in 1 .. Len(nodes), NEW b \in Int, NEW e \in Int
  PROVE  OnlyBounds(WithBounds(nodes, k, b, e), nodes, k, b, e)
  <1> DEFINE one == [nodes EXCEPT ![k] = [nodes[k] EXCEPT !.start = b, !.end = e]]
             new == WithBounds(nodes, k, b, e)
             node == [nodes[k] EXCEPT !.start = b, !.end = e]
  <1>1. nodes[k] \in Node
    BY ElementOfSeq
  <1>2. /\ node \in Node
        /\ node.start = b /\ node.end = e
        /\ SameQuery(node, nodes[k])
        /\ node.result = nodes[k].result
    BY <1>1 DEF Node, SameQuery
  <1>3. new = one
    BY DEF WithBounds
  <1> HIDE DEF node
  <1>4. /\ one \in Seq(Node)
        /\ Len(one) = Len(nodes)
        /\ \A j \in 1 .. Len(nodes) : one[j] = IF j = k THEN node ELSE nodes[j]
    BY <1>2, ExceptSeq DEF node
  <1> HIDE DEF one
  <1>5. \A j \in 1 .. Len(nodes) : SameQuery(nodes[j], nodes[j])
    BY DEF SameQuery
  <1> HIDE DEF new
  <1>6. /\ new \in Seq(Node)
        /\ Len(new) = Len(nodes)
        /\ new[k].start = b /\ new[k].end = e
        /\ \A j \in 1 .. Len(nodes) :
             /\ SameQuery(new[j], nodes[j])
             /\ new[j].result = nodes[j].result
             /\ j # k => new[j] = nodes[j]
    BY <1>2, <1>3, <1>4, <1>5
  <1>7. OnlyBounds(new, nodes, k, b, e)
    BY <1>6 DEF OnlyBounds
  <1> QED
    BY <1>7 DEF new

\* A scan thread changes the result of its own node.
WithResult(nodes, k, r) == [nodes EXCEPT ![k].result = r]
LEMMA ResultSet ==
  ASSUME NEW nodes \in Seq(Node), NEW k \in 1 .. Len(nodes),
         NEW r \in {NULL} \cup Seq(Nat \ {0})
  PROVE  LET new == WithResult(nodes, k, r)
         IN  /\ new \in Seq(Node)
             /\ Len(new) = Len(nodes)
             /\ new[k] = [nodes[k] EXCEPT !.result = r]
             /\ new[k].result = r
             /\ \A j \in 1 .. Len(nodes) :
                  /\ SameQuery(new[j], nodes[j])
                  /\ new[j].start = nodes[j].start /\ new[j].end = nodes[j].end
                  /\ j # k => new[j] = nodes[j]
  <1> DEFINE one == [nodes EXCEPT ![k] = [nodes[k] EXCEPT !.result = r]]
             new == WithResult(nodes, k, r)
             node == [nodes[k] EXCEPT !.result = r]
  <1>1. nodes[k] \in Node
    BY ElementOfSeq
  <1>2. /\ node \in Node
        /\ node.start = nodes[k].start /\ node.end = nodes[k].end
        /\ SameQuery(node, nodes[k])
        /\ node.result = r
    BY <1>1 DEF Node, SameQuery
  <1>3. new = one
    BY DEF WithResult
  <1> HIDE DEF node
  <1>4. /\ one \in Seq(Node)
        /\ Len(one) = Len(nodes)
        /\ \A j \in 1 .. Len(nodes) : one[j] = IF j = k THEN node ELSE nodes[j]
    BY <1>2, ExceptSeq DEF node
  <1> HIDE DEF one
  <1>5. \A j \in 1 .. Len(nodes) : SameQuery(nodes[j], nodes[j])
    BY DEF SameQuery
  <1> HIDE DEF new
  <1>6. /\ new \in Seq(Node)
        /\ Len(new) = Len(nodes)
        /\ new[k] = node
        /\ new[k].result = r
        /\ \A j \in 1 .. Len(nodes) :
             /\ SameQuery(new[j], nodes[j])
             /\ new[j].start = nodes[j].start /\ new[j].end = nodes[j].end
             /\ j # k => new[j] = nodes[j]
    BY <1>2, <1>3, <1>4, <1>5
  <1> QED
    BY <1>6 DEF new, node
---------------------------------------------------------------------------
(* Layer 3: the inductive invariant.                                       *)

\* Has the thread of the current block been created for the k-th node?
Started(k) == pc = "join" \/ (pc = "create" /\ k < cur)

\* The result of a node before the block at b is scanned.
Prior(v, node, b) ==
  IF b = 0 THEN node.result = NULL ELSE Scanned(v, node, b)

\* The threads there may be, and the elements they may be at.
Threads ==
  /\ OneWriter
  /\ NoOrphanThread
  /\ pc # "idle" => root # <<>>
  /\ \A t \in live :
       /\ t.node \in 1 .. Len(root)
       /\ t.at = "scan" =>
            /\ block <= t.pos /\ t.pos <= block + Block
            /\ t.stop = Clip(block + Block, Len(data[root[t.node].col]))

\* The bounds that threads of the current block read.
Bounds ==
  \A k \in 1 .. Len(root) :
    Started(k) => root[k].start = block /\ root[k].end = block + Block

\* How far the result of the k-th node has come.
Reached(k) ==
  LET node == root[k]
      v == data[node.col]
  IN  /\ pc = "idle" => node.result = NULL
      /\ pc # "idle" /\ ~Started(k) => Prior(v, node, block)
      /\ Started(k) /\ (\A t \in live : t.node # k) => Scanned(v, node, block + Block)
      /\ \A t \in live :
           t.node = k => IF t.at = "entry" THEN Prior(v, node, block)
                                           ELSE Scanned(v, node, t.pos)

Progress == \A k \in 1 .. Len(root) : Reached(k)

IInv ==
  /\ TypeOK
  /\ Threads
  /\ Bounds
  /\ Progress
  /\ MinLen > 0 => ResultsAreVectors

\* Columns are vectors of one length.
LEMMA DataShape ==
  ASSUME TypeOK
  PROVE  /\ \A c \in Cols : data[c] \in Vector
         /\ \E n \in MinLen .. MaxLen : \A c \in Cols : Len(data[c]) = n
  <1>1. PICK n \in MinLen .. MaxLen : data \in Contents(n)
    BY DEF TypeOK
  <1>2. n \in Nat
    BY BoundAssumption
  <1>3. ASSUME NEW c \in Cols
        PROVE  data[c] \in Vector /\ Len(data[c]) = n
    <2>1. data[c] \in [1 .. n -> Val]
      BY <1>1 DEF Contents
    <2> QED
      BY <1>2, <2>1, FunctionIsSeq DEF Vector
  <1> QED
    BY <1>3

\* The nodes of the list, one by one.
LEMMA NodeShape ==
  ASSUME TypeOK, NEW k \in 1 .. Len(root)
  PROVE  /\ root[k] \in Node
         /\ root[k].col \in Cols
         /\ root[k].result \in {NULL} \cup Seq(Nat \ {0})
         /\ data[root[k].col] \in Vector
         /\ Len(data[root[k].col]) \in Nat
  <1>1. root[k] \in Node
    BY ElementOfSeq DEF TypeOK
  <1>2. root[k].col \in Cols
    BY <1>1 DEF Node
  <1>3. data[root[k].col] \in Vector
    BY <1>2, DataShape
  <1>4. Len(data[root[k].col]) \in Nat
    BY <1>3 DEF Vector
  <1> QED
    BY <1>1, <1>2, <1>3, <1>4 DEF Node

LEMMA InvInit == Init => IInv
  <1> SUFFICES ASSUME Init
               PROVE  IInv
    OBVIOUS
  <1>1. root = <<>> /\ pool = <<>> /\ pc = "idle" /\ cur = 0 /\ block = 0 /\ live = {}
    BY DEF Init
  <1>2. \E n \in MinLen .. MaxLen : data \in Contents(n)
    BY DEF Init
  <1>3. Len(root) = 0 /\ Len(root) <= MaxNodes /\ 0 \in 0 .. MaxNodes
    BY <1>1, BoundAssumption
  <1>4. TypeOK
    BY <1>1, <1>2, <1>3 DEF Init, TypeOK, IndexOK, HasIndex, NoIndex
  <1>5. Threads /\ Bounds /\ Progress
    BY <1>1, <1>3 DEF Threads, Bounds, Progress, OneWriter, NoOrphanThread
  <1>6. ResultsAreVectors
    BY <1>1 DEF ResultsAreVectors
  <1> QED
    BY <1>4, <1>5, <1>6 DEF IInv
---------------------------------------------------------------------------
(* Layer 4: one lemma per action.                                          *)

\* Between executions no scan thread is alive.
LEMMA IdleHasNoThread ==
  ASSUME IInv, pc \in {"idle", "block"}
  PROVE  live = {}
  BY DEF IInv, Threads, NoOrphanThread

\* A variable of the pool.
Binding == [name : Names, result : {NULL} \cup Seq(Nat \ {0})]

\* Variables are bound at the end of the pool.
LEMMA PoolGrows ==
  ASSUME IInv, NEW bound \in Seq(Binding), pool' = pool \o bound,
         MinLen > 0 => \A k \in 1 .. Len(bound) : bound[k].result # NULL
  PROVE  /\ pool' \in Seq(Binding)
         /\ (MinLen > 0 => ResultsAreVectors)'
  <1>1. pool \in Seq(Binding) /\ Len(pool) \in Nat /\ Len(bound) \in Nat
    BY DEF IInv, TypeOK, Binding
  <1>2. /\ pool \o bound \in Seq(Binding)
        /\ Len(pool \o bound) = Len(pool) + Len(bound)
        /\ \A k \in 1 .. Len(pool) + Len(bound) :
             (pool \o bound)[k] = IF k <= Len(pool) THEN pool[k] ELSE bound[k - Len(pool)]
    BY <1>1, ConcatProperties
  <1>3. ASSUME MinLen > 0, NEW k \in 1 .. Len(pool')
        PROVE  pool'[k].result # NULL
    <2>1. CASE k <= Len(pool)
      <3>1. k \in DOMAIN pool /\ pool'[k] = pool[k]
        BY <1>1, <1>2, <2>1
      <3> QED
        BY <1>3, <3>1 DEF IInv, ResultsAreVectors
    <2>2. CASE ~(k <= Len(pool))
      <3>1. k - Len(pool) \in 1 .. Len(bound) /\ pool'[k] = bound[k - Len(pool)]
        BY <1>1, <1>2, <2>2
      <3> QED
        BY <1>3, <3>1
    <2> QED
      BY <2>1, <2>2
  <1>4. pool' \in Seq(Binding) /\ DOMAIN pool' = 1 .. Len(pool')
    BY <1>2
  <1> QED
    BY <1>3, <1>4 DEF ResultsAreVectors

\* Columns of a length have that length.
LEMMA LengthOfContents ==
  ASSUME NEW n \in MinLen .. MaxLen, NEW d \in Contents(n), NEW c \in Cols
  PROVE  Length(d) = n /\ Len(d[c]) = n
  <1>1. n \in Nat
    BY BoundAssumption
  <1>2. \A e \in Cols : Len(d[e]) = n
    <2>1. \A e \in Cols : d[e] \in [1 .. n -> Val]
      BY DEF Contents
    <2> QED
      BY <1>1, <2>1
  <1>3. \A m \in MinLen .. MaxLen : (\A e \in Cols : Len(d[e]) = m) <=> m = n
    BY <1>2
  <1> QED
    BY <1>2, <1>3 DEF Length

LEMMA LengthOfData ==
  ASSUME TypeOK, NEW c \in Cols
  PROVE  Length(data) \in Nat /\ Len(data[c]) = Length(data)
  <1>1. PICK n \in MinLen .. MaxLen : data \in Contents(n)
    BY DEF TypeOK
  <1> QED
    BY <1>1, LengthOfContents, BoundAssumption

LEMMA ChangeKeeps ==
  ASSUME IInv, Change
  PROVE  IInv'
  <1>1. /\ pc = "idle" /\ live = {}
        /\ UNCHANGED <<index, root, pool, pc, cur, block, live>>
    BY IdleHasNoThread DEF Change
  <1>2. \E n \in MinLen .. MaxLen : data' \in Contents(n) /\ n > Length(data)
    <2>1. PICK n \in Length(data) + 1 .. MaxLen : data' \in Contents(n)
      BY DEF Change
    <2>2. \E m \in MinLen .. MaxLen : \A c \in Cols : Len(data[c]) = m
      BY DataShape DEF IInv
    <2>3. Length(data) \in MinLen .. MaxLen
      BY <2>2 DEF Length
    <2>4. n \in MinLen .. MaxLen /\ n > Length(data)
      BY <2>1, <2>3, BoundAssumption
    <2> QED
      BY <2>1, <2>4
  <1>3. TypeOK'
    <2>1. PICK n \in MinLen .. MaxLen : data' \in Contents(n) /\ n > Length(data)
      BY <1>2
    <2>2. ASSUME NEW c \in Cols
          PROVE  IndexOK(c)'
      <3>1. Length(data') = n
        BY <2>1, LengthOfContents
      <3>2. Length(data) \in Nat /\ n \in Nat
        BY LengthOfData, BoundAssumption DEF IInv
      <3>3. index' = index /\ IndexOK(c)
        BY <1>1 DEF IInv, TypeOK
      <3> QED
        BY <2>1, <3>1, <3>2, <3>3 DEF IndexOK, HasIndex
    <2> QED
      BY <1>1, <1>2, <2>2 DEF IInv, TypeOK
  <1>4. Threads' /\ Bounds' /\ Progress'
    BY <1>1 DEF IInv, Threads, Bounds, Progress, Reached, Started, OneWriter, NoOrphanThread
  <1>5. (MinLen > 0 => ResultsAreVectors)'
    BY <1>1 DEF IInv, ResultsAreVectors
  <1> QED
    BY <1>3, <1>4, <1>5 DEF IInv

\* An index is made of the column as it is.
LEMMA CreateIndexKeeps ==
  ASSUME IInv, NEW c \in Cols, NEW type \in IndexType, CreateIndex(c, type)
  PROVE  IInv'
  <1>1. /\ pc = "idle" /\ live = {} /\ c \notin Primary
        /\ UNCHANGED <<data, root, pool, pc, cur, block, live>>
    BY IdleHasNoThread DEF CreateIndex
  <1>2. PICK p \in SortedPositions(data[c]) :
          index' = [index EXCEPT ![c] = [type |-> type, of |-> data[c], order |-> p]]
    BY DEF CreateIndex
  <1>3. DOMAIN index = Cols /\ \A d \in Cols : IndexOK(d)
    BY DEF IInv, TypeOK
  <1>4. data[c] \in Seq(Val) /\ Length(data) \in Nat /\ Len(data[c]) <= Length(data)
    BY DataShape, LengthOfData DEF IInv, Vector
  <1>5. ASSUME NEW d \in Cols
        PROVE  IndexOK(d)'
    <2>1. CASE d = c
      <3>1. index'[d] = [type |-> type, of |-> data[c], order |-> p]
        BY <1>2, <1>3, <2>1
      <3> QED
        BY <1>1, <1>2, <1>4, <2>1, <3>1 DEF IndexOK
    <2>2. CASE d # c
      <3>1. index'[d] = index[d]
        BY <1>2, <1>3, <2>2
      <3> QED
        BY <1>1, <1>3, <3>1 DEF IndexOK, HasIndex
    <2> QED
      BY <2>1, <2>2
  <1>6. DOMAIN index' = Cols
    BY <1>2, <1>3
  <1>7. TypeOK'
    BY <1>1, <1>5, <1>6 DEF IInv, TypeOK
  <1>8. Threads' /\ Bounds' /\ Progress'
    BY <1>1 DEF IInv, Threads, Bounds, Progress, Reached, Started, OneWriter, NoOrphanThread
  <1>9. (MinLen > 0 => ResultsAreVectors)'
    BY <1>1 DEF IInv, ResultsAreVectors
  <1> QED
    BY <1>7, <1>8, <1>9 DEF IInv

LEMMA ScheduleSelectKeeps ==
  ASSUME IInv, NEW name \in Names, NEW c \in Cols, NEW r \in Ranges,
         ScheduleSelect(name, c, r)
  PROVE  IInv'
  <1> DEFINE node == [name |-> name, col |-> c, l |-> r[1], h |-> r[2],
                      start |-> -1, end |-> -1, result |-> NULL]
             first == <<node>>
  <1>1. /\ pc = "idle" /\ live = {}
        /\ Len(root) < MaxNodes
        /\ root' = first \o root
        /\ UNCHANGED <<data, index, pool, pc, cur, block, live>>
    BY IdleHasNoThread DEF ScheduleSelect
  <1>2. node \in Node /\ node.result = NULL
    BY ColsAssumption DEF Node
  <1> HIDE DEF node
  <1>3. /\ first \in Seq(Node) /\ Len(first) = 1 /\ first[1] = node
        /\ root \in Seq(Node) /\ Len(root) \in Nat
    BY <1>2 DEF IInv, TypeOK
  <1> HIDE DEF first
  <1>4. /\ root' \in Seq(Node)
        /\ Len(root') = Len(root) + 1
        /\ \A k \in 1 .. Len(root) + 1 :
             root'[k] = IF k <= 1 THEN first[k] ELSE root[k - 1]
    <2>1. /\ first \o root \in Seq(Node)
          /\ Len(first \o root) = Len(first) + Len(root)
          /\ \A k \in 1 .. Len(first) + Len(root) :
               (first \o root)[k] = IF k <= Len(first) THEN first[k] ELSE root[k - Len(first)]
      BY <1>3, ConcatProperties
    <2> QED
      BY <1>1, <1>3, <2>1
  <1>5. ASSUME NEW k \in 1 .. Len(root')
        PROVE  root'[k].result = NULL
    <2>1. CASE k = 1
      BY <1>2, <1>3, <1>4, <2>1
    <2>2. CASE k # 1
      <3>1. k - 1 \in 1 .. Len(root) /\ root'[k] = root[k - 1]
        BY <1>3, <1>4, <2>2
      <3> QED
        BY <1>1, <3>1 DEF IInv, Progress, Reached
    <2> QED
      BY <2>1, <2>2
  <1>6. TypeOK'
    BY <1>1, <1>3, <1>4, BoundAssumption DEF IInv, TypeOK, IndexOK, HasIndex
  <1>7. Threads' /\ Bounds'
    BY <1>1 DEF IInv, Threads, Bounds, Started, OneWriter, NoOrphanThread
  <1>8. Progress'
    BY <1>1, <1>5 DEF Progress, Reached, Started
  <1>9. (MinLen > 0 => ResultsAreVectors)'
    BY <1>1 DEF IInv, ResultsAreVectors
  <1> QED
    BY <1>6, <1>7, <1>8, <1>9 DEF IInv

LEMMA ExecuteScheduledKeeps ==
  ASSUME IInv, ExecuteScheduled
  PROVE  IInv'
  <1>1. /\ pc = "idle" /\ live = {} /\ root # <<>>
        /\ pc' = "block" /\ block' = 0
        /\ UNCHANGED <<data, index, root, pool, cur, live>>
    BY IdleHasNoThread DEF ExecuteScheduled
  <1>2. TypeOK'
    BY <1>1 DEF IInv, TypeOK, IndexOK, HasIndex
  <1>3. Threads' /\ Bounds'
    BY <1>1 DEF IInv, Threads, Bounds, Started, OneWriter, NoOrphanThread
  <1>4. Progress'
    BY <1>1 DEF IInv, Progress, Reached, Started, Prior
  <1>5. (MinLen > 0 => ResultsAreVectors)'
    BY <1>1 DEF IInv, ResultsAreVectors
  <1> QED
    BY <1>2, <1>3, <1>4, <1>5 DEF IInv

LEMMA EnterBlockKeeps ==
  ASSUME IInv, EnterBlock
  PROVE  IInv'
  <1>1. /\ pc = "block" /\ live = {} /\ root # <<>>
        /\ pc' = "create" /\ cur' = 1
        /\ UNCHANGED <<data, index, root, pool, block, live>>
    BY IdleHasNoThread DEF EnterBlock, IInv, Threads
  <1>2. root \in Seq(Node) /\ Len(root) \in Nat \ {0} /\ Len(root) <= MaxNodes
    BY <1>1 DEF IInv, TypeOK
  <1>3. cur' \in 0 .. MaxNodes /\ cur' \in 1 .. Len(root')
    BY <1>1, <1>2, BoundAssumption
  <1>4. TypeOK'
    BY <1>1, <1>3 DEF IInv, TypeOK, IndexOK, HasIndex
  <1>5. \A k \in 1 .. Len(root) : ~Started(k) /\ ~Started(k)'
    BY <1>1, <1>2 DEF Started
  <1>6. Threads' /\ Bounds'
    BY <1>1, <1>5 DEF IInv, Threads, Bounds, OneWriter, NoOrphanThread
  <1>7. Progress'
    BY <1>1, <1>5 DEF IInv, Progress, Reached
  <1>8. (MinLen > 0 => ResultsAreVectors)'
    BY <1>1 DEF IInv, ResultsAreVectors
  <1> QED
    BY <1>4, <1>6, <1>7, <1>8 DEF IInv

LEMMA PublishKeeps ==
  ASSUME IInv, Publish
  PROVE  IInv'
  <1>1. /\ pc = "block" /\ live = {} /\ root # <<>>
        /\ block >= Len(data[root[1].col])
        /\ pool' = pool \o Results
        /\ root' = <<>> /\ pc' = "idle" /\ block' = 0
        /\ UNCHANGED <<data, index, cur, live>>
    BY IdleHasNoThread DEF Publish, IInv, Threads
  <1>2. Len(root) \in Nat \ {0}
    BY <1>1 DEF IInv, TypeOK
  <1>3. Results \in Seq(Binding) /\ Len(Results) = Len(root)
    <2>1. \A k \in 1 .. Len(root) : [name |-> root[k].name, result |-> root[k].result] \in Binding
      BY NodeShape DEF IInv, Node, Binding
    <2>2. Results \in [1 .. Len(root) -> Binding]
      BY <2>1 DEF Results
    <2> QED
      BY <1>2, <2>2, FunctionIsSeq
  <1>4. ASSUME MinLen > 0, NEW k \in 1 .. Len(root)
        PROVE  Results[k].result # NULL
    <2>1. block # 0
      <3>1. root[1].col \in Cols
        BY <1>2, NodeShape DEF IInv
      <3>2. Len(data[root[1].col]) \in MinLen .. MaxLen
        BY <3>1, DataShape DEF IInv
      <3> QED
        BY <1>1, <1>4, <3>2, BoundAssumption
    <2>2. Scanned(data[root[k].col], root[k], block)
      BY <1>1, <2>1 DEF IInv, Progress, Reached, Started, Prior
    <2>3. root[k].result # NULL
      BY <2>2, NodeShape, ScannedIsVector DEF IInv
    <2> QED
      BY <2>3 DEF Results
  <1>5. pool' \in Seq(Binding) /\ (MinLen > 0 => ResultsAreVectors)'
    BY <1>1, <1>3, <1>4, PoolGrows
  <1>6. TypeOK'
    <2>1. <<>> \in Seq(Node) /\ Len(<<>>) = 0
      OBVIOUS
    <2> QED
      BY <1>1, <1>5, <2>1, BoundAssumption DEF IInv, TypeOK, IndexOK, HasIndex, Binding
  <1>7. Threads' /\ Bounds' /\ Progress'
    BY <1>1 DEF Threads, Bounds, Progress, OneWriter, NoOrphanThread
  <1> QED
    BY <1>5, <1>6, <1>7 DEF IInv

\* A thread that is alive is one of those started for the current block.
LEMMA LiveThread ==
  ASSUME IInv, NEW t \in live
  PROVE  /\ t \in ThreadState /\ t.node \in 1 .. Len(root) /\ t.block = block
         /\ pc \in {"create", "join"} /\ Started(t.node)
         /\ root[t.node].start = block /\ root[t.node].end = block + Block
         /\ block \in Nat /\ block + Block \in Nat
  <1>1. t \in ThreadState /\ block \in Nat
    BY DEF IInv, TypeOK
  <1>2. /\ t.node \in 1 .. Len(root) /\ t.block = block
        /\ pc \in {"create", "join"} /\ Started(t.node)
    BY DEF IInv, Threads, OneWriter, NoOrphanThread, Started
  <1> QED
    BY <1>1, <1>2, BoundAssumption DEF IInv, Bounds

LEMMA CreateThreadKeeps ==
  ASSUME IInv, CreateThread
  PROVE  IInv'
  <1> DEFINE thread == [node |-> cur, block |-> block, at |-> "entry", pos |-> 0, stop |-> 0]
  <1>1. /\ pc = "create" /\ cur \in 1 .. Len(root)
        /\ root' = [root EXCEPT ![cur].start = block, ![cur].end = block + Block]
        /\ live' = live \cup {thread}
        /\ IF cur < Len(root) THEN pc' = "create" /\ cur' = cur + 1
                              ELSE pc' = "join" /\ cur' = 1
        /\ UNCHANGED <<data, index, pool, block>>
    BY DEF CreateThread, IInv, TypeOK
  <1>2. /\ root \in Seq(Node) /\ Len(root) \in Nat /\ Len(root) <= MaxNodes
        /\ block \in Nat /\ block + Block \in Nat
    BY BoundAssumption DEF IInv, TypeOK
  <1>3. /\ root' \in Seq(Node)
        /\ Len(root') = Len(root)
        /\ root'[cur].start = block /\ root'[cur].end = block + Block
        /\ \A j \in 1 .. Len(root) :
             /\ SameQuery(root'[j], root[j])
             /\ root'[j].result = root[j].result
             /\ j # cur => root'[j] = root[j]
    <2>1. root' = WithBounds(root, cur, block, block + Block)
      BY <1>1 DEF WithBounds
    <2>2. block \in Int /\ block + Block \in Int /\ cur \in 1 .. Len(root) /\ root \in Seq(Node)
      BY <1>1, <1>2
    <2> DEFINE end == block + Block
    <2>3. end \in Int /\ root' = WithBounds(root, cur, block, end)
      BY <2>1, <2>2
    <2> HIDE DEF end
    <2>4. OnlyBounds(WithBounds(root, cur, block, end), root, cur, block, end)
      BY <2>2, <2>3, BoundsSet
    <2>5. OnlyBounds(root', root, cur, block, end)
      BY <2>3, <2>4
    <2> QED
      BY <2>5 DEF end, OnlyBounds
  <1>4. \A k \in 1 .. Len(root) : (Started(k) <=> k < cur) /\ (Started(k)' <=> k <= cur)
    BY <1>1, <1>2 DEF Started
  <1>5. /\ thread \in ThreadState /\ thread.node = cur
        /\ thread.block = block /\ thread.at = "entry"
    <2>1. cur \in 1 .. MaxNodes
      BY <1>1, <1>2, BoundAssumption
    <2> QED
      BY <1>2, <2>1 DEF ThreadState
  <1> HIDE DEF thread
  <1>6. \A t \in live : t.node < cur /\ t.block = block /\ t.node \in 1 .. Len(root)
    BY <1>1 DEF IInv, Threads, OneWriter
  <1>7. TypeOK'
    <2>1. pc' \in {"create", "join"} /\ cur' \in 1 .. Len(root') /\ cur' \in 0 .. MaxNodes
      BY <1>1, <1>2, <1>3, BoundAssumption
    <2>2. live' \subseteq ThreadState
      BY <1>1, <1>5 DEF IInv, TypeOK
    <2> QED
      BY <1>1, <1>2, <1>3, <2>1, <2>2 DEF IInv, TypeOK, IndexOK, HasIndex
  <1>8. Threads'
    <2>1. OneWriter'
      <3>1. \A t, u \in live' : t.node = u.node => t = u
        BY <1>1, <1>2, <1>5, <1>6 DEF IInv, Threads, OneWriter
      <3>2. \A t \in live' : t.block = block' /\ t.node <= cur /\ t.node \in 1 .. Len(root)
        BY <1>1, <1>2, <1>5, <1>6
      <3>3. \A t \in live' : (pc' = "create" => t.node < cur') /\ (pc' = "join" => t.node >= cur')
        BY <1>1, <1>2, <3>2
      <3> QED
        BY <3>1, <3>2, <3>3 DEF OneWriter
    <2>2. NoOrphanThread'
      BY <1>1 DEF NoOrphanThread
    <2>3. root' # <<>>
      BY <1>1, <1>2, <1>3
    <2>4. ASSUME NEW t \in live'
          PROVE  /\ t.node \in 1 .. Len(root')
                 /\ t.at = "scan" =>
                      /\ block' <= t.pos /\ t.pos <= block' + Block
                      /\ t.stop = Clip(block' + Block, Len(data'[root'[t.node].col]))
      <3>1. CASE t = thread
        BY <1>1, <1>3, <1>5, <3>1
      <3>2. CASE t \in live
        <4>1. root'[t.node] = root[t.node]
          BY <1>1, <1>2, <1>3, <1>6, <3>2
        <4> QED
          BY <1>1, <1>3, <3>2, <4>1 DEF IInv, Threads
      <3> QED
        BY <1>1, <3>1, <3>2
    <2> QED
      BY <2>1, <2>2, <2>3, <2>4 DEF Threads
  <1>9. Bounds'
    <2>1. ASSUME NEW k \in 1 .. Len(root), k <= cur
          PROVE  root'[k].start = block /\ root'[k].end = block + Block
      <3>1. CASE k = cur
        BY <1>3, <3>1
      <3>2. CASE k # cur
        BY <1>1, <1>2, <1>3, <1>4, <2>1, <3>2 DEF IInv, Bounds
      <3> QED
        BY <3>1, <3>2
    <2> QED
      BY <1>1, <1>3, <1>4, <2>1 DEF Bounds
  <1>10. ASSUME NEW k \in 1 .. Len(root)
         PROVE  Reached(k)'
    <2>1. Reached(k)
      BY DEF IInv, Progress
    <2>2. CASE k = cur
      <3>1. Prior(data[root[k].col], root[k], block)
        BY <1>1, <1>2, <1>4, <2>1, <2>2 DEF Reached
      <3>2. Prior(data'[root'[k].col], root'[k], block')
        <4>1. /\ data'[root'[k].col] = data[root[k].col] /\ block' = block
              /\ root'[k].result = root[k].result
              /\ root'[k].l = root[k].l /\ root'[k].h = root[k].h
          BY <1>1, <1>3 DEF SameQuery
        <4> QED
          BY <3>1, <4>1, ScannedSame DEF Prior
      <3>3. thread \in live' /\ \A t \in live' : t.node = k => t = thread
        BY <1>1, <1>2, <1>5, <1>6, <2>2
      <3> QED
        BY <1>1, <1>2, <1>4, <1>5, <2>2, <3>2, <3>3 DEF Reached
    <2>3. CASE k # cur
      <3>1. root'[k] = root[k] /\ (Started(k)' <=> Started(k))
        BY <1>1, <1>2, <1>3, <1>4, <2>3
      <3>2. \A t \in live' : t.node = k => t \in live
        BY <1>1, <1>5, <2>3
      <3>3. \A t \in live : t \in live'
        BY <1>1
      <3>4. pc # "idle" /\ pc' # "idle"
        BY <1>1
      <3> QED
        BY <1>1, <2>1, <3>1, <3>2, <3>3, <3>4 DEF Reached
    <2> QED
      BY <2>2, <2>3
  <1>11. (MinLen > 0 => ResultsAreVectors)'
    BY <1>1 DEF IInv, ResultsAreVectors
  <1> QED
    BY <1>3, <1>7, <1>8, <1>9, <1>10, <1>11 DEF IInv, Progress

LEMMA JoinThreadKeeps ==
  ASSUME IInv, JoinThread
  PROVE  IInv'
  <1>1. /\ pc = "join" /\ cur \in 1 .. Len(root)
        /\ \A t \in live : ~(t.node = cur /\ t.block = block)
        /\ IF cur < Len(root) THEN pc' = "join" /\ cur' = cur + 1 /\ block' = block
                              ELSE pc' = "block" /\ cur' = 0 /\ block' = block + Block
        /\ UNCHANGED <<data, index, root, pool, live>>
    BY DEF JoinThread, IInv, TypeOK
  <1>2. /\ root \in Seq(Node) /\ Len(root) \in Nat \ {0} /\ Len(root) <= MaxNodes
        /\ block \in Nat /\ Block \in Nat \ {0}
    BY <1>1, BoundAssumption DEF IInv, TypeOK
  <1>3. \A t \in live : t.node > cur /\ t.node \in 1 .. Len(root)
    BY <1>1, <1>2 DEF IInv, Threads, OneWriter
  <1>4. TypeOK'
    <2>1. /\ pc' \in {"block", "join"} /\ cur' \in 0 .. MaxNodes /\ block' \in Nat
          /\ pc' = "join" => cur' \in 1 .. Len(root)
      BY <1>1, <1>2, BoundAssumption
    <2> QED
      BY <1>1, <2>1 DEF IInv, TypeOK, IndexOK, HasIndex
  <1>5. \A k \in 1 .. Len(root) : Started(k)
    BY <1>1 DEF Started
  <1>6. (MinLen > 0 => ResultsAreVectors)'
    BY <1>1 DEF IInv, ResultsAreVectors
  <1>7. CASE cur < Len(root)
    <2>1. pc' = "join" /\ cur' = cur + 1 /\ block' = block
      BY <1>1, <1>7
    <2>2. \A k \in 1 .. Len(root) : Started(k)'
      BY <2>1 DEF Started
    <2>3. \A t \in live : t.node >= cur'
      BY <1>1, <1>2, <1>3, <2>1
    <2>4. Threads'
      BY <1>1, <2>1, <2>3 DEF IInv, Threads, OneWriter, NoOrphanThread
    <2>5. Bounds'
      BY <1>1, <1>5, <2>1 DEF IInv, Bounds
    <2>6. Progress'
      BY <1>1, <1>5, <2>1, <2>2 DEF IInv, Progress, Reached
    <2> QED
      BY <1>4, <1>6, <2>4, <2>5, <2>6 DEF IInv
  <1>8. CASE ~(cur < Len(root))
    <2>1. pc' = "block" /\ block' = block + Block /\ block' # 0
      BY <1>1, <1>2, <1>8
    <2>2. live = {} /\ live' = {}
      BY <1>1, <1>2, <1>3, <1>8
    <2>3. \A k \in 1 .. Len(root) : ~Started(k)'
      BY <2>1 DEF Started
    <2>4. Threads' /\ Bounds'
      BY <1>1, <2>1, <2>2, <2>3 DEF IInv, Threads, Bounds, OneWriter, NoOrphanThread
    <2>5. ASSUME NEW k \in 1 .. Len(root)
          PROVE  Reached(k)'
      <3>1. Scanned(data[root[k].col], root[k], block + Block)
        BY <1>5, <2>2 DEF IInv, Progress, Reached
      <3>2. Prior(data'[root'[k].col], root'[k], block')
        BY <1>1, <2>1, <3>1 DEF Prior
      <3> QED
        BY <2>1, <2>2, <2>3, <3>2 DEF Reached
    <2> QED
      BY <1>1, <1>4, <1>6, <2>4, <2>5 DEF IInv, Progress
  <1> QED
    BY <1>7, <1>8

\* The entries of an index between two bounds, each the number of values below
\* some value: the positions of the values in between, each once and by value.
LEMMA EntriesBetween ==
  ASSUME NEW v \in Seq(Int), NEW p \in SortedPositions(v),
         NEW l \in Int, NEW h \in Int, NEW a \in 0 .. Len(v), NEW b \in 0 .. Len(v),
         \A k \in DOMAIN v : k <= a <=> v[p[k]] < l,
         \A k \in DOMAIN v : k <= b <=> v[p[k]] < h
  PROVE  Batch!ListedByValue(v, SubSeq(p, a + 1, b), l, h)
  <1> DEFINE r == SubSeq(p, a + 1, b)
             S == SelectUnsorted(v, l, h)
  <1>1. Len(v) \in Nat /\ DOMAIN v = 1 .. Len(v) /\ \A k \in DOMAIN v : v[k] \in Int
    OBVIOUS
  <1>2. /\ p \in [DOMAIN v -> DOMAIN v]
        /\ \A j, k \in DOMAIN v : p[j] = p[k] => j = k
        /\ \A m \in DOMAIN v : \E k \in DOMAIN v : p[k] = m
        /\ \A j, k \in DOMAIN v : j <= k => v[p[j]] <= v[p[k]]
    BY DEF SortedPositions, Ascending
  <1>3. \A k \in a + 1 .. b : k \in DOMAIN v /\ p[k] \in S
    <2> TAKE k \in a + 1 .. b
    <2>1. k \in DOMAIN v /\ ~(k <= a) /\ k <= b
      BY <1>1
    <2>2. p[k] \in DOMAIN v /\ v[p[k]] \in Int
      BY <1>1, <1>2, <2>1
    <2>3. l <= v[p[k]] /\ v[p[k]] < h
      BY <2>1, <2>2
    <2> QED
      BY <2>1, <2>2, <2>3 DEF SelectUnsorted
  <1> HIDE DEF S
  <1>4. /\ r \in Seq(S)
        /\ Len(r) = IF a + 1 <= b THEN b - (a + 1) + 1 ELSE 0
        /\ \A i \in 1 .. b - (a + 1) + 1 : r[i] = p[a + 1 + i - 1]
    <2>1. a + 1 \in Int /\ b \in Int
      BY <1>1
    <2> QED
      BY <1>3, <2>1, SubSeqProperties
  <1> HIDE DEF r
  <1>5. DOMAIN r = 1 .. Len(r) /\ Len(r) \in Nat
    BY <1>4
  <1>6. \A i \in DOMAIN r : a + i \in a + 1 .. b /\ a + i \in DOMAIN v /\ r[i] = p[a + i]
    <2> TAKE i \in DOMAIN r
    <2>1. a \in Int /\ b \in Int /\ i \in 1 .. Len(r) /\ i \in Int
      BY <1>1, <1>5
    <2>2. i \in 1 .. b - (a + 1) + 1
      BY <1>4, <2>1
    <2>3. 1 <= i /\ i <= b - a
      BY <2>1, <2>2
    <2>4. a + 1 + i - 1 = a + i /\ a + i \in a + 1 .. b
      <3>1. a + 1 <= a + i
        BY <2>1, <2>3
      <3>2. a + i <= b
        BY <2>1, <2>3
      <3>3. a + i \in Int /\ a + 1 \in Int
        BY <2>1
      <3>4. a + 1 + i - 1 = a + i
        BY <2>1
      <3> QED
        BY <2>1, <3>1, <3>2, <3>3, <3>4
    <2>5. r[i] = p[a + 1 + i - 1]
      BY <1>4, <2>2
    <2> QED
      BY <1>3, <2>4, <2>5
  <1>7. ASSUME NEW j \in DOMAIN r, NEW k \in DOMAIN r
        PROVE  (r[j] = r[k] => j = k) /\ (j <= k => v[r[j]] <= v[r[k]])
    <2>1. j \in Int /\ k \in Int /\ a \in Int
      BY <1>1, <1>5
    <2>2. /\ a + j \in DOMAIN v /\ r[j] = p[a + j]
          /\ a + k \in DOMAIN v /\ r[k] = p[a + k]
      BY <1>6
    <2>3. r[j] = r[k] => a + j = a + k
      BY <1>2, <2>2
    <2>4. a + j <= a + k => v[r[j]] <= v[r[k]]
      BY <1>2, <2>2
    <2> QED
      BY <2>1, <2>3, <2>4
  <1>8. ASSUME NEW x \in S
        PROVE  \E k \in DOMAIN r : r[k] = x
    <2>1. x \in DOMAIN v /\ l <= v[x] /\ v[x] < h
      BY DEF S, SelectUnsorted
    <2>2. PICK k \in DOMAIN v : p[k] = x
      BY <1>2, <2>1
    <2>3. ~(k <= a) /\ k <= b
      BY <1>1, <2>1, <2>2
    <2>4. k - a \in DOMAIN r /\ a + (k - a) = k
      BY <1>1, <1>4, <1>5, <2>3
    <2> QED
      BY <1>6, <2>2, <2>4
  <1>9. \A t, lo, hi : Batch!SelectUnsorted(t, lo, hi) = SelectUnsorted(t, lo, hi)
    BY DEF Batch!SelectUnsorted, SelectUnsorted
  <1> QED
    BY <1>4, <1>7, <1>8, <1>9 DEF Batch!ListedByValue, r, S

\* What the index of a column answers: the range of the vector it was made of, or
\* with a sorted index the range with its upper bound.
LEMMA IndexAnswers ==
  ASSUME IInv, NEW k \in 1 .. Len(root), HasIndex(root[k].col)
  PROVE  LET v == index[root[k].col].of
         IN  \/ Batch!ListedByValue(v, FoundInIndex(root[k]), root[k].l, root[k].h)
             \/ Batch!ListedByValue(v, FoundInIndex(root[k]), root[k].l, root[k].h + 1)
  <1> DEFINE idx == index[root[k].col]
             v == idx.of
             p == idx.order
             l == root[k].l
             h == root[k].h
             values == SortVectorFromPositions(v, p)
             a == BinarySearchLeft(values, l)
             b == EndInIndex(idx.type, values, h)
  <1>1. root[k].col \in Cols /\ l \in Int /\ h \in Int
    BY NodeShape DEF IInv, Node
  <1>2. idx.type \in IndexType /\ v \in Seq(Val) /\ p \in SortedPositions(v)
    BY <1>1 DEF IInv, TypeOK, IndexOK
  <1>3. v \in Seq(Int)
    BY <1>2, DataAssumption DEF Val
  <1>4. FoundInIndex(root[k]) = SubSeq(p, a + 1, b)
    BY DEF FoundInIndex
  <1> HIDE DEF idx
  <1>5. /\ values \in Seq(Int) /\ Ascending(values) /\ Len(values) = Len(v)
        /\ DOMAIN values = DOMAIN v
        /\ \A i \in DOMAIN v : values[i] = v[p[i]]
    <2>1. Len(v) \in Nat /\ DOMAIN v = 1 .. Len(v) /\ \A i \in DOMAIN v : v[i] \in Int
      BY <1>3
    <2>2. p \in [DOMAIN v -> DOMAIN v] /\ Ascending([i \in DOMAIN v |-> v[p[i]]])
      BY <1>2 DEF SortedPositions
    <2>3. values = [i \in DOMAIN v |-> v[p[i]]]
      BY <2>1 DEF SortVectorFromPositions
    <2>4. values \in [1 .. Len(v) -> Int]
      BY <2>1, <2>2, <2>3
    <2> HIDE DEF values
    <2>5. values \in Seq(Int) /\ Len(values) = Len(v)
      BY <2>1, <2>4, FunctionIsSeq
    <2> QED
      BY <2>1, <2>2, <2>3, <2>5
  <1> HIDE DEF values
  <1>6. /\ a \in 0 .. Len(v)
        /\ \A i \in DOMAIN v : i <= a <=> v[p[i]] < l
    <2>1. /\ BinarySearchLeft(values, l) \in 0 .. Len(values)
          /\ \A i \in DOMAIN values : i <= BinarySearchLeft(values, l) <=> values[i] < l
      <3> HIDE DEF l, h
      <3> QED
        BY <1>1, <1>5, SearchLeftCounts
    <2> QED
      BY <1>5, <2>1
  <1>7. CASE idx.type # "SORTED"
    <2>1. b = BinarySearchLeft(values, h)
      BY <1>7 DEF EndInIndex
    <2>2. /\ BinarySearchLeft(values, h) \in 0 .. Len(values)
          /\ \A i \in DOMAIN values : i <= BinarySearchLeft(values, h) <=> values[i] < h
      <3> HIDE DEF l, h
      <3> QED
        BY <1>1, <1>5, SearchLeftCounts
    <2>3. b \in 0 .. Len(v) /\ \A i \in DOMAIN v : i <= b <=> v[p[i]] < h
      BY <1>5, <2>1, <2>2
    <2> HIDE DEF a, b, l, h, v, p
    <2>4. Batch!ListedByValue(v, SubSeq(p, a + 1, b), l, h)
      BY <1>1, <1>2, <1>3, <1>6, <2>3, EntriesBetween
    <2> QED
      BY <1>4, <2>4 DEF a, b, l, h, v, p, idx
  <1>8. CASE idx.type = "SORTED"
    <2>1. b = BinarySearchRight(values, h)
      BY <1>8 DEF EndInIndex
    <2>2. /\ BinarySearchRight(values, h) \in 0 .. Len(values)
          /\ \A i \in DOMAIN values : i <= BinarySearchRight(values, h) <=> values[i] <= h
      <3> HIDE DEF l, h
      <3> QED
        BY <1>1, <1>5, SearchRightCounts
    <2> DEFINE top == h + 1
    <2>3. \A i \in DOMAIN values : values[i] <= h <=> values[i] < top
      <3>1. \A i \in DOMAIN values : values[i] \in Int
        BY <1>5
      <3> QED
        BY <1>1, <3>1
    <2>4. top \in Int
      BY <1>1
    <2> HIDE DEF top
    <2>5. b \in 0 .. Len(v) /\ \A i \in DOMAIN v : i <= b <=> v[p[i]] < top
      BY <1>5, <2>1, <2>2, <2>3
    <2> HIDE DEF a, b, l, h, v, p
    <2>6. Batch!ListedByValue(v, SubSeq(p, a + 1, b), l, top)
      BY <1>1, <1>2, <1>3, <1>6, <2>4, <2>5, EntriesBetween
    <2> QED
      BY <1>4, <2>6 DEF a, b, l, h, v, p, idx, top
  <1> QED
    BY <1>7, <1>8

\* What a select may answer is a vector.
LEMMA AnswersAreVectors ==
  ASSUME IInv, NEW k \in 1 .. Len(root)
  PROVE  SelectOne(root[k]) \subseteq Seq(Nat \ {0})
  <1> DEFINE v == data[root[k].col]
  <1>1. v \in Vector
    BY NodeShape DEF IInv
  <1>2. Len(v) \in Nat /\ DOMAIN v = 1 .. Len(v)
    BY <1>1 DEF Vector
  <1> HIDE DEF v
  <1>3. ASSUME NEW m \in 0 .. Len(v), NEW f \in [1 .. m -> DOMAIN v]
        PROVE  f \in Seq(Nat \ {0})
    <2>1. m \in Nat /\ f \in [1 .. m -> Nat \ {0}]
      BY <1>2
    <2> QED
      BY <2>1, FunctionIsSeq
  <1>4. Lists(root[k]) \subseteq Seq(Nat \ {0})
    BY <1>3 DEF Lists, v
  <1>5. ASSUME HasIndex(root[k].col)
        PROVE  FoundInIndex(root[k]) \in Seq(Nat \ {0})
    <2> DEFINE w == index[root[k].col].of
               r == FoundInIndex(root[k])
    <2>1. root[k].col \in Cols
      BY NodeShape DEF IInv
    <2>2. w \in Seq(Val)
      BY <1>5, <2>1 DEF IInv, TypeOK, IndexOK
    <2>3. \E l, h : Batch!ListedByValue(w, r, l, h)
      BY <1>5, IndexAnswers
    <2> HIDE DEF w, r
    <2>4. PICK l, h : r \in Seq(Batch!SelectUnsorted(w, l, h))
      BY <2>3 DEF Batch!ListedByValue
    <2>5. Batch!SelectUnsorted(w, l, h) \subseteq Nat \ {0}
      BY <2>2 DEF Batch!SelectUnsorted
    <2>6. r \in Seq(Nat \ {0})
      BY <2>4, <2>5
    <2> QED
      BY <2>6 DEF r
  <1> QED
    BY <1>4, <1>5 DEF SelectOne

LEMMA ExecuteSequentiallyKeeps ==
  ASSUME IInv, ExecuteSequentially
  PROVE  IInv'
  <1> DEFINE Answers == UNION { SelectOne(root[k]) : k \in DOMAIN root }
             Bound(f) == [k \in 1 .. Len(root) |-> [name |-> root[k].name, result |-> f[k]]]
  <1>1. /\ pc = "idle" /\ live = {}
        /\ root' = <<>>
        /\ UNCHANGED <<data, index, pc, cur, block, live>>
    BY IdleHasNoThread DEF ExecuteSequentially
  <1>2. PICK answer \in [1 .. Len(root) -> Answers] : pool' = pool \o Bound(answer)
    BY DEF ExecuteSequentially
  <1>3. root \in Seq(Node) /\ Len(root) \in Nat
    BY DEF IInv, TypeOK
  <1>4. \A k \in 1 .. Len(root) : SelectOne(root[k]) \subseteq Seq(Nat \ {0})
    BY AnswersAreVectors
  <1>5. Answers \subseteq Seq(Nat \ {0})
    BY <1>3, <1>4
  <1>6. \A k \in 1 .. Len(root) : answer[k] \in Seq(Nat \ {0}) /\ answer[k] # NULL
    <2>1. \A k \in 1 .. Len(root) : answer[k] \in Seq(Nat \ {0})
      BY <1>5
    <2> QED
      BY <2>1, NullIsNoVector
  <1>7. /\ Bound(answer) \in Seq(Binding)
        /\ Len(Bound(answer)) = Len(root)
        /\ \A k \in 1 .. Len(root) : Bound(answer)[k].result # NULL
    <2>1. ASSUME NEW k \in 1 .. Len(root)
          PROVE  [name |-> root[k].name, result |-> answer[k]] \in Binding
      <3>1. root[k].name \in Names
        BY NodeShape DEF IInv, Node
      <3> QED
        BY <1>6, <3>1 DEF Binding
    <2>2. Bound(answer) \in [1 .. Len(root) -> Binding]
      BY <2>1
    <2>3. \A k \in 1 .. Len(root) : Bound(answer)[k].result # NULL
      BY <1>6
    <2> HIDE DEF Bound
    <2> QED
      BY <1>3, <2>2, <2>3, FunctionIsSeq
  <1> HIDE DEF Bound, Answers
  <1>8. pool' \in Seq(Binding) /\ (MinLen > 0 => ResultsAreVectors)'
    BY <1>2, <1>7, PoolGrows
  <1>9. TypeOK'
    <2>1. <<>> \in Seq(Node) /\ Len(<<>>) = 0
      OBVIOUS
    <2> QED
      BY <1>1, <1>8, <2>1, BoundAssumption DEF IInv, TypeOK, IndexOK, HasIndex, Binding
  <1>10. Threads' /\ Bounds' /\ Progress'
    BY <1>1 DEF Threads, Bounds, Progress, OneWriter, NoOrphanThread
  <1> QED
    BY <1>8, <1>9, <1>10 DEF IInv

LEMMA DisconnectKeeps ==
  ASSUME IInv, Disconnect
  PROVE  IInv'
  <1>1. /\ pc = "idle" /\ pool' = <<>>
        /\ UNCHANGED <<data, index, root, pc, cur, block, live>>
    BY DEF Disconnect
  <1>2. TypeOK'
    BY <1>1 DEF IInv, TypeOK, IndexOK, HasIndex
  <1>3. Threads' /\ Bounds' /\ Progress'
    BY <1>1 DEF IInv, Threads, Bounds, Progress, Reached, Started, OneWriter, NoOrphanThread
  <1>4. ResultsAreVectors'
    BY <1>1 DEF ResultsAreVectors
  <1> QED
    BY <1>2, <1>3, <1>4 DEF IInv

\* A step of a scan thread that leaves it alive, on the same node, upsets none
\* of the others.
LEMMA ThreadSteps ==
  ASSUME IInv, NEW t \in live, NEW u \in ThreadState,
         u.node = t.node, u.block = t.block,
         live' = (live \ {t}) \cup {u}, UNCHANGED <<pc, cur, block>>
  PROVE  /\ OneWriter' /\ NoOrphanThread' /\ live' \subseteq ThreadState
         /\ \A w \in live' : w = u \/ (w \in live /\ w.node # t.node)
         /\ \A k : (\A w \in live' : w.node # k) => (\A w \in live : w.node # k)
         /\ \A k : Started(k)' = Started(k)
  <1>1. OneWriter /\ NoOrphanThread /\ live \subseteq ThreadState
    BY DEF IInv, Threads, TypeOK
  <1>2. \A w \in live' : w = u \/ (w \in live /\ w.node # t.node)
    BY <1>1 DEF OneWriter
  <1>3. OneWriter'
    BY <1>1, <1>2 DEF OneWriter
  <1>4. NoOrphanThread'
    BY <1>1 DEF NoOrphanThread
  <1>5. \A k : (\A w \in live' : w.node # k) => (\A w \in live : w.node # k)
    OBVIOUS
  <1>6. \A k : Started(k)' = Started(k)
    BY DEF Started
  <1> QED
    BY <1>1, <1>2, <1>3, <1>4, <1>5, <1>6

\* If such a step moves the result of the thread's node from where the thread
\* was to where it is now, the invariant stays.
LEMMA ScanKeeps ==
  ASSUME IInv, NEW t \in live, NEW u \in ThreadState,
         u.node = t.node, u.block = t.block, u.at = "scan",
         block <= u.pos, u.pos <= block + Block,
         u.stop = Clip(block + Block, Len(data[root[t.node].col])),
         live' = (live \ {t}) \cup {u},
         NEW r \in {NULL} \cup Seq(Nat \ {0}),
         root' = WithResult(root, t.node, r),
         Scanned(data[root[t.node].col], [root[t.node] EXCEPT !.result = r], u.pos),
         UNCHANGED <<data, index, pool, pc, cur, block>>
  PROVE  IInv'
  <1>1. t.node \in 1 .. Len(root) /\ pc # "idle" /\ Started(t.node)
    BY LiveThread
  <1>2. root \in Seq(Node)
    BY DEF IInv, TypeOK
  <1>3. /\ root' \in Seq(Node)
        /\ Len(root') = Len(root)
        /\ root'[t.node] = [root[t.node] EXCEPT !.result = r]
        /\ \A j \in 1 .. Len(root) :
             /\ SameQuery(root'[j], root[j])
             /\ root'[j].start = root[j].start /\ root'[j].end = root[j].end
             /\ j # t.node => root'[j] = root[j]
    BY <1>1, <1>2, ResultSet
  <1>4. /\ OneWriter' /\ NoOrphanThread' /\ live' \subseteq ThreadState
        /\ \A w \in live' : w = u \/ (w \in live /\ w.node # t.node)
        /\ \A k : (\A w \in live' : w.node # k) => (\A w \in live : w.node # k)
        /\ \A k : Started(k)' = Started(k)
    BY ThreadSteps
  <1>5. \A j \in 1 .. Len(root) : data[root'[j].col] = data[root[j].col]
    BY <1>3 DEF SameQuery
  <1>6. TypeOK'
    BY <1>3, <1>4 DEF IInv, TypeOK, IndexOK, HasIndex
  <1>7. Threads'
    <2>1. root' # <<>>
      BY <1>1, <1>2, <1>3
    <2>2. ASSUME NEW w \in live'
          PROVE  /\ w.node \in 1 .. Len(root)
                 /\ w.at = "scan" =>
                      /\ block <= w.pos /\ w.pos <= block + Block
                      /\ w.stop = Clip(block + Block, Len(data[root[w.node].col]))
      <3>1. CASE w = u
        BY <1>1, <3>1
      <3>2. CASE w \in live
        BY <3>2 DEF IInv, Threads
      <3> QED
        BY <1>4, <3>1, <3>2
    <2> QED
      BY <1>3, <1>4, <1>5, <2>1, <2>2 DEF Threads
  <1>8. Bounds'
    BY <1>3, <1>4 DEF IInv, Bounds
  <1>9. ASSUME NEW k \in 1 .. Len(root)
        PROVE  Reached(k)'
    <2>1. Reached(k)
      BY DEF IInv, Progress
    <2>2. CASE k = t.node
      <3>1. u \in live' /\ \A w \in live' : w.node = k => w = u
        BY <1>4, <2>2
      <3>2. Scanned(data'[root'[k].col], root'[k], u.pos)
        BY <1>3, <1>5, <2>2
      <3> QED
        BY <1>1, <1>4, <2>2, <3>1, <3>2 DEF Reached
    <2>3. CASE k # t.node
      <3>1. root'[k] = root[k]
        BY <1>3, <2>3
      <3>2. \A w \in live' : w.node = k => w \in live
        BY <1>4, <2>3
      <3> QED
        BY <1>4, <2>1, <3>1, <3>2 DEF Reached
    <2> QED
      BY <2>2, <2>3
  <1>10. (MinLen > 0 => ResultsAreVectors)'
    BY DEF IInv, ResultsAreVectors
  <1> QED
    BY <1>3, <1>6, <1>7, <1>8, <1>9, <1>10 DEF IInv, Progress

LEMMA ThreadEntryKeeps ==
  ASSUME IInv, NEW t \in live, ThreadEntry(t)
  PROVE  IInv'
  <1> DEFINE k == t.node
             v == data[root[k].col]
             r == IF root[k].result = NULL THEN <<>> ELSE root[k].result
             u == [t EXCEPT !.at = "scan", !.pos = root[k].start,
                            !.stop = Clip(root[k].end, Len(v))]
  <1>1. /\ t.at = "entry"
        /\ root' = WithResult(root, k, r)
        /\ live' = (live \ {t}) \cup {u}
        /\ UNCHANGED <<data, index, pool, pc, cur, block>>
    BY DEF ThreadEntry, WithResult
  <1>2. /\ t \in ThreadState /\ k \in 1 .. Len(root)
        /\ root[k].start = block /\ root[k].end = block + Block
        /\ block \in Nat /\ block + Block \in Nat
    BY LiveThread
  <1>3. /\ root[k] \in Node /\ root[k].result \in {NULL} \cup Seq(Nat \ {0})
        /\ v \in Vector /\ Len(v) \in Nat
    BY <1>2, NodeShape DEF IInv
  <1>4. /\ u \in ThreadState /\ u.node = k /\ u.block = t.block /\ u.at = "scan"
        /\ u.pos = block /\ u.stop = Clip(block + Block, Len(v))
    <2>1. Clip(block + Block, Len(v)) \in Nat
      BY <1>2, <1>3 DEF Clip
    <2> QED
      BY <1>2, <2>1 DEF ThreadState
  <1>5. r \in {NULL} \cup Seq(Nat \ {0})
    <2>1. <<>> \in Seq(Nat \ {0})
      OBVIOUS
    <2> QED
      BY <1>3, <2>1
  <1>6. Scanned(v, [root[k] EXCEPT !.result = r], block)
    <2> DEFINE node == [root[k] EXCEPT !.result = r]
    <2>1. Prior(v, root[k], block)
      BY <1>1, <1>2 DEF IInv, Progress, Reached
    <2>2. node.result = r /\ node.l = root[k].l /\ node.h = root[k].h
      BY <1>3 DEF Node
    <2> HIDE DEF node
    <2>3. CASE block = 0
      <3>1. node.result = <<>>
        BY <2>1, <2>2, <2>3 DEF Prior
      <3> QED
        BY <1>3, <2>3, <3>1, ScannedNone DEF node
    <2>4. CASE block # 0
      <3>1. Scanned(v, root[k], block)
        BY <2>1, <2>4 DEF Prior
      <3>2. node.result = root[k].result
        BY <1>3, <2>2, <3>1, ScannedIsVector
      <3> QED
        BY <2>2, <3>1, <3>2, ScannedSame DEF node
    <2> QED
      BY <2>3, <2>4
  <1>7. block <= u.pos /\ u.pos <= block + Block
    BY <1>2, <1>4, BoundAssumption
  <1> HIDE DEF u, r
  <1> QED
    BY <1>1, <1>4, <1>5, <1>6, <1>7, ScanKeeps

LEMMA ThreadScanKeeps ==
  ASSUME IInv, NEW t \in live, ThreadScan(t)
  PROVE  IInv'
  <1> DEFINE k == t.node
             v == data[root[k].col]
             found == Matches(v, t.pos + 1, root[k])
             r == IF found THEN Append(root[k].result, t.pos + 1) ELSE root[k].result
             u == [t EXCEPT !.pos = t.pos + 1]
  <1>1. /\ t.at = "scan" /\ t.pos < t.stop
        /\ root' = WithResult(root, k, r)
        /\ live' = (live \ {t}) \cup {u}
        /\ UNCHANGED <<data, index, pool, pc, cur, block>>
    BY DEF ThreadScan, WithResult, Step
  <1>2. /\ t \in ThreadState /\ k \in 1 .. Len(root)
        /\ block \in Nat /\ block + Block \in Nat
    BY LiveThread
  <1>3. /\ root[k] \in Node /\ v \in Vector /\ Len(v) \in Nat
    BY <1>2, NodeShape DEF IInv
  <1>4. block <= t.pos /\ t.pos <= block + Block /\ t.stop = Clip(block + Block, Len(v))
    BY <1>1 DEF IInv, Threads
  <1>5. t.pos \in Nat /\ t.stop \in Nat
    BY <1>2 DEF ThreadState
  <1>6. t.pos < Len(v) /\ t.pos + 1 <= block + Block
    BY <1>1, <1>2, <1>3, <1>4, <1>5 DEF Clip
  <1>7. /\ u \in ThreadState /\ u.node = k /\ u.block = t.block /\ u.at = "scan"
        /\ u.pos = t.pos + 1 /\ u.stop = t.stop
    BY <1>1, <1>2, <1>5 DEF ThreadState
  <1>8. Scanned(v, root[k], t.pos)
    BY <1>1, <1>2 DEF IInv, Progress, Reached
  <1>9. Scanned(v, [root[k] EXCEPT !.result = r], t.pos + 1)
    BY <1>3, <1>5, <1>6, <1>8, ScannedNext
  <1>10. r \in Seq(Nat \ {0})
    <2>1. root[k].result \in Seq(Nat \ {0})
      BY <1>3, <1>8, ScannedIsVector
    <2> QED
      BY <1>5, <2>1
  <1>11. block <= u.pos
    BY <1>2, <1>4, <1>5, <1>7
  <1> HIDE DEF u, r
  <1> QED
    BY <1>1, <1>4, <1>6, <1>7, <1>9, <1>10, <1>11, ScanKeeps

LEMMA ThreadExitKeeps ==
  ASSUME IInv, NEW t \in live, ThreadExit(t)
  PROVE  IInv'
  <1>1. /\ t.at = "scan" /\ t.pos >= t.stop
        /\ live' = live \ {t}
        /\ UNCHANGED <<data, index, root, pool, pc, cur, block>>
    BY DEF ThreadExit
  <1>2. /\ t \in ThreadState /\ t.node \in 1 .. Len(root)
        /\ block \in Nat /\ block + Block \in Nat
    BY LiveThread
  <1>3. \A w \in live : w.node = t.node => w = t
    BY DEF IInv, Threads, OneWriter
  <1>4. \A k : Started(k)' = Started(k)
    BY <1>1 DEF Started
  <1>5. TypeOK'
    BY <1>1 DEF IInv, TypeOK, IndexOK, HasIndex
  <1>6. Threads' /\ Bounds'
    BY <1>1, <1>4 DEF IInv, Threads, Bounds, OneWriter, NoOrphanThread
  <1>7. ASSUME NEW k \in 1 .. Len(root)
        PROVE  Reached(k)'
    <2>1. Reached(k)
      BY DEF IInv, Progress
    <2>2. CASE k = t.node
      <3> DEFINE v == data[root[k].col]
      <3>1. Scanned(v, root[k], t.pos)
        BY <1>1, <2>1, <2>2 DEF Reached
      <3>2. t.pos \in Nat /\ t.pos <= block + Block /\ t.pos >= Clip(block + Block, Len(v))
        BY <1>1, <1>2, <2>2 DEF IInv, Threads, ThreadState
      <3>3. v \in Vector
        BY NodeShape DEF IInv
      <3>4. Scanned(v, root[k], block + Block)
        BY <1>2, <3>1, <3>2, <3>3, ScannedBlock
      <3>5. pc # "idle" /\ Started(k)
        BY <2>2, LiveThread
      <3>6. \A w \in live' : w.node # k
        BY <1>1, <1>3, <2>2
      <3> QED
        BY <1>1, <1>4, <3>4, <3>5, <3>6 DEF Reached
    <2>3. CASE k # t.node
      <3>1. (\A w \in live' : w.node # k) => (\A w \in live : w.node # k)
        BY <1>1, <2>3
      <3> QED
        BY <1>1, <1>4, <2>1, <3>1 DEF Reached
    <2> QED
      BY <2>2, <2>3
  <1>8. (MinLen > 0 => ResultsAreVectors)'
    BY <1>1 DEF IInv, ResultsAreVectors
  <1> QED
    BY <1>1, <1>5, <1>6, <1>7, <1>8 DEF IInv, Progress

LEMMA InvStep == IInv /\ [Next]_vars => IInv'
  <1> SUFFICES ASSUME IInv, [Next]_vars
               PROVE  IInv'
    OBVIOUS
  <1>1. CASE Change
    BY <1>1, ChangeKeeps
  <1>2. ASSUME NEW name \in Names, NEW c \in Cols, NEW r \in Ranges, ScheduleSelect(name, c, r)
        PROVE  IInv'
    BY <1>2, ScheduleSelectKeeps
  <1>3. CASE ExecuteScheduled
    BY <1>3, ExecuteScheduledKeeps
  <1>4. CASE EnterBlock
    BY <1>4, EnterBlockKeeps
  <1>5. CASE CreateThread
    BY <1>5, CreateThreadKeeps
  <1>6. CASE JoinThread
    BY <1>6, JoinThreadKeeps
  <1>7. CASE Publish
    BY <1>7, PublishKeeps
  <1>8. CASE ExecuteSequentially
    BY <1>8, ExecuteSequentiallyKeeps
  <1>9. CASE Disconnect
    BY <1>9, DisconnectKeeps
  <1>10. ASSUME NEW t \in live, ThreadEntry(t)
         PROVE  IInv'
    BY <1>10, ThreadEntryKeeps
  <1>11. ASSUME NEW t \in live, ThreadScan(t)
         PROVE  IInv'
    BY <1>11, ThreadScanKeeps
  <1>12. ASSUME NEW t \in live, ThreadExit(t)
         PROVE  IInv'
    BY <1>12, ThreadExitKeeps
  <1>13. ASSUME NEW c \in Cols, NEW type \in IndexType, CreateIndex(c, type)
         PROVE  IInv'
    BY <1>13, CreateIndexKeeps
  <1>14. CASE UNCHANGED vars
    BY <1>14 DEF vars, IInv, TypeOK, IndexOK, HasIndex, Threads, Bounds, Progress, Reached, Started,
                 OneWriter, NoOrphanThread, ResultsAreVectors
  <1> QED
    BY <1>1, <1>2, <1>3, <1>4, <1>5, <1>6, <1>7, <1>8, <1>9, <1>10, <1>11, <1>12, <1>13, <1>14
    DEF Next
---------------------------------------------------------------------------
(* The theorems.                                                           *)

\* The invariant holds in every reachable state.
THEOREM Invariance == Spec => []IInv
  BY InvInit, InvStep, PTL DEF Spec

\* Type correctness.
THEOREM TypeCorrect == Spec => []TypeOK
  <1>1. IInv => TypeOK
    BY DEF IInv
  <1> QED
    BY <1>1, Invariance, PTL

\* However many selects are scheduled and however their threads interleave, no
\* two threads ever share a node, and the bounds a thread reads are its own.
THEOREM OneWriterAlways == Spec => []OneWriter
  <1>1. IInv => OneWriter
    BY DEF IInv, Threads
  <1> QED
    BY <1>1, Invariance, PTL

\* No scan thread is alive when the nodes are freed or columns change.
THEOREM NoThreadIsOrphaned == Spec => []NoOrphanThread
  <1>1. IInv => NoOrphanThread
    BY DEF IInv, Threads
  <1> QED
    BY <1>1, Invariance, PTL

\* For every size of a block and every length of the columns, each result is
\* exact up to the end of the last block that was joined.
THEOREM EveryBlockIsExact == Spec => []BlocksExact
  <1>1. IInv => BlocksExact
    <2>1. \A k \in 1 .. Len(root) : pc = "block" /\ IInv => ~Started(k)
      BY DEF Started
    <2>2. IInv => DOMAIN root = 1 .. Len(root)
      BY DEF IInv, TypeOK
    <2> QED
      BY <2>1, <2>2 DEF IInv, Progress, Reached, Prior, BlocksExact
  <1> QED
    BY <1>1, Invariance, PTL

\* If columns have elements, every scheduled select gets a vector.
THEOREM NoResultIsNull ==
  ASSUME MinLen > 0
  PROVE  Spec => []ResultsAreVectors
  <1>1. IInv => ResultsAreVectors
    BY DEF IInv
  <1> QED
    BY <1>1, Invariance, PTL
---------------------------------------------------------------------------
(* What the scheduler promises.                                            *)

\* The queries of a list of nodes; WITH replaces the variable queue by those of root.
Query == [name : Names, col : Cols, l : Int, h : Int]
Queries(nodes) == [k \in 1 .. Len(nodes) |-> [name |-> nodes[k].name, col |-> nodes[k].col,
                                              l |-> nodes[k].l, h |-> nodes[k].h]]
Queue == Queries(root)

LEMMA QueriesShape ==
  ASSUME NEW nodes \in Seq(Node)
  PROVE  /\ Queries(nodes) \in Seq(Query) /\ Len(Queries(nodes)) = Len(nodes)
         /\ DOMAIN Queries(nodes) = 1 .. Len(nodes)
         /\ \A k \in 1 .. Len(nodes) :
              /\ Queries(nodes)[k].name = nodes[k].name /\ Queries(nodes)[k].col = nodes[k].col
              /\ Queries(nodes)[k].l = nodes[k].l /\ Queries(nodes)[k].h = nodes[k].h
         /\ nodes # <<>> => Queries(nodes) # <<>>
  <1>1. Len(nodes) \in Nat
    OBVIOUS
  <1>2. ASSUME NEW k \in 1 .. Len(nodes)
        PROVE  [name |-> nodes[k].name, col |-> nodes[k].col,
                l |-> nodes[k].l, h |-> nodes[k].h] \in Query
    <2>1. nodes[k] \in Node
      BY ElementOfSeq
    <2> QED
      BY <2>1 DEF Node, Query
  <1>3. Queries(nodes) \in [1 .. Len(nodes) -> Query]
    BY <1>2 DEF Queries
  <1>4. Queries(nodes) \in Seq(Query) /\ Len(Queries(nodes)) = Len(nodes)
    BY <1>1, <1>3, FunctionIsSeq
  <1>5. \A k \in 1 .. Len(nodes) :
          /\ Queries(nodes)[k].name = nodes[k].name /\ Queries(nodes)[k].col = nodes[k].col
          /\ Queries(nodes)[k].l = nodes[k].l /\ Queries(nodes)[k].h = nodes[k].h
    BY DEF Queries
  <1>6. nodes # <<>> => Len(Queries(nodes)) # 0
    BY <1>1, <1>4
  <1>7. nodes # <<>> => Queries(nodes) # <<>>
    BY <1>6
  <1> QED
    BY <1>3, <1>4, <1>5, <1>7

LEMMA QueueShape ==
  ASSUME IInv
  PROVE  /\ Queue \in Seq(Query) /\ Len(Queue) = Len(root) /\ Len(root) \in Nat
         /\ DOMAIN Queue = 1 .. Len(root)
         /\ \A k \in 1 .. Len(root) : /\ Queue[k].name = root[k].name /\ Queue[k].col = root[k].col
                                      /\ Queue[k].l = root[k].l /\ Queue[k].h = root[k].h
         /\ root # <<>> => Queue # <<>>
  BY QueriesShape DEF IInv, TypeOK, Queue

\* Threads change nothing of what a node asks for.
LEMMA SameQueue ==
  ASSUME Len(root') = Len(root), \A k \in 1 .. Len(root) : SameQuery(root'[k], root[k])
  PROVE  Queue' = Queue
  BY DEF Queue, Queries, SameQuery

LEMMA EmptyQueue ==
  ASSUME root = <<>>
  PROVE  Queue = <<>>
  <1>1. Len(root) = 0
    OBVIOUS
  <1>2. 1 .. Len(root) = {}
    BY <1>1
  <1>3. DOMAIN Queue = {}
    BY <1>2 DEF Queue, Queries
  <1> QED
    BY <1>2 DEF Queue, Queries

\* One sequence behind another.
LEMMA Behind ==
  ASSUME NEW S, NEW a \in Seq(S), NEW b \in Seq(S)
  PROVE  /\ Len(a \o b) = Len(a) + Len(b)
         /\ SubSeq(a \o b, 1, Len(a)) = a
         /\ \A k \in 1 .. Len(b) : (a \o b)[Len(a) + k] = b[k]
  <1> DEFINE c == a \o b
  <1>1. Len(a) \in Nat /\ Len(b) \in Nat
    OBVIOUS
  <1>2. /\ c \in Seq(S) /\ Len(c) = Len(a) + Len(b)
        /\ \A k \in 1 .. Len(a) + Len(b) : c[k] = IF k <= Len(a) THEN a[k] ELSE b[k - Len(a)]
    BY ConcatProperties
  <1> HIDE DEF c
  <1>3. SubSeq(c, 1, Len(a)) = a
    BY <1>1, <1>2
  <1>4. ASSUME NEW k \in 1 .. Len(b)
        PROVE  c[Len(a) + k] = b[k]
    <2>1. /\ Len(a) + k \in 1 .. Len(a) + Len(b) /\ ~(Len(a) + k <= Len(a))
          /\ Len(a) + k - Len(a) = k
      BY <1>1
    <2> QED
      BY <1>2, <2>1
  <1> QED
    BY <1>2, <1>3, <1>4 DEF c

LEMMA BoundBehind ==
  ASSUME IInv, NEW bound \in Seq(Binding)
  PROVE  /\ Len(pool \o bound) = Len(pool) + Len(bound)
         /\ SubSeq(pool \o bound, 1, Len(pool)) = pool
         /\ \A k \in 1 .. Len(bound) : (pool \o bound)[Len(pool) + k] = bound[k]
  <1>1. pool \in Seq(Binding)
    BY DEF IInv, TypeOK, Binding
  <1> QED
    BY <1>1, Behind

\* All results are bound at once, each under the name of its query, and the list
\* is freed.
LEMMA AllBound ==
  ASSUME IInv, root # <<>>, root' = <<>>,
         NEW bound \in Seq(Binding), Len(bound) = Len(root), pool' = pool \o bound,
         \A k \in 1 .. Len(root) : bound[k].name = root[k].name
  PROVE  /\ Queue # <<>> /\ Queue' = <<>>
         /\ Len(pool') = Len(pool) + Len(Queue)
         /\ SubSeq(pool', 1, Len(pool)) = pool
         /\ DOMAIN Queue = 1 .. Len(root)
         /\ \A k \in DOMAIN Queue : /\ pool'[Len(pool) + k] = bound[k]
                                    /\ bound[k].name = Queue[k].name
  <1>1. /\ Queue # <<>> /\ Len(Queue) = Len(root) /\ Len(root) \in Nat
        /\ DOMAIN Queue = 1 .. Len(root)
        /\ \A k \in 1 .. Len(root) : Queue[k].name = root[k].name
    BY QueueShape
  <1>2. Queue' = <<>>
    BY EmptyQueue DEF Queue, Queries
  <1>3. /\ Len(pool') = Len(pool) + Len(bound)
        /\ SubSeq(pool', 1, Len(pool)) = pool
        /\ \A k \in 1 .. Len(bound) : pool'[Len(pool) + k] = bound[k]
    BY BoundBehind
  <1> QED
    BY <1>1, <1>2, <1>3

\* A select that has come to the end of its column has found what a scan finds.
LEMMA ScannedAll ==
  ASSUME NEW v \in Vector, NEW node, NEW m \in Nat, m >= Len(v), Scanned(v, node, m)
  PROVE  IsListOf(node.result, SelectUnsorted(v, node.l, node.h))
  <1>1. \A p \in DOMAIN v : p <= m
    BY DEF Vector
  <1>2. { p \in DOMAIN v : p <= m /\ Matches(v, p, node) } = SelectUnsorted(v, node.l, node.h)
    BY <1>1 DEF Matches, SelectUnsorted
  <1> QED
    BY <1>2 DEF Scanned

\* The definitions that BatchSelect takes from Vectors.
LEMMA SameVectors ==
  /\ \A r, P : Batch!IsListOf(r, P) <=> IsListOf(r, P)
  /\ \A v, l, h : Batch!SelectUnsorted(v, l, h) = SelectUnsorted(v, l, h)
  <1>1. \A r, P : Batch!IsListOf(r, P) <=> IsListOf(r, P)
    BY DEF Batch!IsListOf, IsListOf
  <1>2. \A v, l, h : Batch!SelectUnsorted(v, l, h) = SelectUnsorted(v, l, h)
    BY DEF Batch!SelectUnsorted, SelectUnsorted
  <1> QED
    BY <1>1, <1>2

\* The shared scan answers exactly.
LEMMA PublishAnswers ==
  ASSUME IInv, MinLen > 0, Publish
  PROVE  Batch!Answer(Batch!Exact)
  <1>1. /\ pc = "block" /\ root # <<>>
        /\ block >= Len(data[root[1].col])
        /\ pool' = pool \o Results
        /\ root' = <<>> /\ UNCHANGED <<data, index>>
    BY DEF Publish, IInv, Threads
  <1>2. Len(root) \in Nat \ {0} /\ block \in Nat
    BY <1>1 DEF IInv, TypeOK
  <1>3. Results \in Seq(Binding) /\ Len(Results) = Len(root)
    <2>1. \A k \in 1 .. Len(root) : [name |-> root[k].name, result |-> root[k].result] \in Binding
      BY NodeShape DEF IInv, Node, Binding
    <2>2. Results \in [1 .. Len(root) -> Binding]
      BY <2>1 DEF Results
    <2> QED
      BY <1>2, <2>2, FunctionIsSeq
  <1>4. \A k \in 1 .. Len(root) : Results[k].name = root[k].name /\ Results[k].result = root[k].result
    BY DEF Results
  <1>5. ASSUME NEW k \in 1 .. Len(root)
        PROVE  IsListOf(root[k].result, SelectUnsorted(data[root[k].col], root[k].l, root[k].h))
    <2>1. root[1].col \in Cols /\ root[k].col \in Cols /\ data[root[k].col] \in Vector
      BY <1>2, NodeShape DEF IInv
    <2>2. PICK n \in MinLen .. MaxLen : \A c \in Cols : Len(data[c]) = n
      BY DataShape DEF IInv
    <2>3. block # 0 /\ block >= Len(data[root[k].col])
      BY <1>1, <2>1, <2>2, BoundAssumption
    <2>4. Scanned(data[root[k].col], root[k], block)
      BY <1>1, <2>3 DEF IInv, Progress, Reached, Started, Prior
    <2> QED
      BY <1>2, <2>1, <2>3, <2>4, ScannedAll
  <1>6. /\ Queue # <<>> /\ Queue' = <<>>
        /\ Len(pool') = Len(pool) + Len(Queue)
        /\ SubSeq(pool', 1, Len(pool)) = pool
        /\ DOMAIN Queue = 1 .. Len(root)
        /\ \A k \in DOMAIN Queue : /\ pool'[Len(pool) + k] = Results[k]
                                   /\ Results[k].name = Queue[k].name
    BY <1>1, <1>3, <1>4, AllBound
  <1>7. ASSUME NEW k \in DOMAIN Queue
        PROVE  Batch!Exact(Queue[k], pool'[Len(pool) + k].result)
    <2>1. k \in 1 .. Len(root)
      BY <1>6
    <2>2. Queue[k].col = root[k].col /\ Queue[k].l = root[k].l /\ Queue[k].h = root[k].h
      BY <2>1, QueueShape
    <2>3. pool'[Len(pool) + k].result = root[k].result
      BY <1>4, <1>6, <2>1
    <2> QED
      BY <1>5, <2>1, <2>2, <2>3, SameVectors DEF Batch!Exact
  <1> QED
    BY <1>1, <1>6, <1>7 DEF Batch!Answer, HasIndex, Queue, Queries

\* What bisection finds in a primary column is the range, or the range with its
\* upper bound, of a scan.
LEMMA FoundIsRange ==
  ASSUME IInv, NEW k \in 1 .. Len(root)
  PROVE  LET v == data[root[k].col]
         IN  \/ Found(root[k]) = SelectUnsorted(v, root[k].l, root[k].h)
             \/ Found(root[k]) = SelectUnsorted(v, root[k].l, root[k].h + 1)
  <1> DEFINE v == data[root[k].col]
  <1>1. v \in Vector /\ root[k] \in Node /\ root[k].col \in Cols
    BY NodeShape DEF IInv
  <1>2. CASE root[k].col \notin Primary
    BY <1>2 DEF Found
  <1>3. CASE root[k].col \in Primary
    <2>1. Ascending(v)
      BY <1>3 DEF IInv, TypeOK, Contents
    <2>2. v \in Seq(Int) /\ root[k].l \in Int /\ root[k].h \in Int
      BY <1>1, DataAssumption DEF Vector, Val, Node
    <2>3. Found(root[k]) = SelectPrimary(v, root[k].l, root[k].h)
      BY <1>3 DEF Found
    <2> HIDE DEF v
    <2>4. Found(root[k]) = { p \in DOMAIN v : root[k].l <= v[p] /\ v[p] <= root[k].h }
      BY <2>1, <2>2, <2>3, SelectPrimaryIsClosed
    <2>5. \A p \in DOMAIN v : v[p] <= root[k].h <=> v[p] < root[k].h + 1
      BY <2>2
    <2>6. Found(root[k]) = SelectUnsorted(v, root[k].l, root[k].h + 1)
      BY <2>4, <2>5 DEF SelectUnsorted
    <2> QED
      BY <2>6 DEF v
  <1> QED
    BY <1>2, <1>3

\* The index of the abstraction, as WITH gives it.
Indexed == [c \in { d \in Cols : HasIndex(d) } |-> index[c].of]

\* Creating an index builds one of the column as it is.
LEMMA CreatedIsBuilt ==
  ASSUME IInv, NEW c \in Cols, NEW type \in IndexType, CreateIndex(c, type)
  PROVE  Batch!Build
  <1>1. ~HasIndex(c) /\ UNCHANGED <<data, root, pool>>
    BY DEF CreateIndex
  <1>2. PICK p : index' = [index EXCEPT ![c] = [type |-> type, of |-> data[c], order |-> p]]
    BY DEF CreateIndex
  <1>3. DOMAIN index = Cols
    BY DEF IInv, TypeOK
  <1>4. index'[c] = [type |-> type, of |-> data[c], order |-> p]
    BY <1>2, <1>3
  <1>5. \A d \in Cols : d # c => index'[d] = index[d]
    BY <1>2, <1>3
  <1>6. HasIndex(c)'
    BY <1>4 DEF HasIndex, IndexType
  <1>7. { d \in Cols : HasIndex(d)' } = { d \in Cols : HasIndex(d) } \cup {c}
    BY <1>5, <1>6 DEF HasIndex
  <1>8. /\ DOMAIN Indexed = { d \in Cols : HasIndex(d) }
        /\ \A d \in Cols : HasIndex(d) => Indexed[d] = index[d].of
    BY DEF Indexed
  <1>9. Indexed' = [d \in DOMAIN Indexed \cup {c} |-> IF d = c THEN data[c] ELSE Indexed[d]]
    <2>1. Indexed' = [d \in { e \in Cols : HasIndex(e)' } |-> index'[d].of]
      BY DEF Indexed
    <2>2. \A d \in DOMAIN Indexed \cup {c} :
            index'[d].of = IF d = c THEN data[c] ELSE Indexed[d]
      BY <1>4, <1>5, <1>8
    <2> HIDE DEF Indexed
    <2> QED
      BY <1>7, <1>8, <2>1, <2>2
  <1>10. c \notin DOMAIN Indexed
    BY <1>1, <1>8
  <1>11. Queue' = Queue
    BY <1>1 DEF Queue, Queries
  <1> QED
    BY <1>1, <1>9, <1>10, <1>11 DEF Batch!Build, Batch!HasIndex, Indexed, Queue, Queries

\* A select_one answers by its access path.
LEMMA SelectOneAnswers ==
  ASSUME IInv, NEW k \in 1 .. Len(root), NEW result \in SelectOne(root[k])
  PROVE  Batch!ByAccessPath(root[k], result)
  <1> DEFINE node == root[k]
             c == node.col
  <1>1. c \in Cols
    BY NodeShape DEF IInv
  <1>2. DOMAIN Indexed = { d \in Cols : HasIndex(d) } /\ (HasIndex(c) => Indexed[c] = index[c].of)
    BY <1>1 DEF Indexed
  <1>3. Batch!HasIndex(c) <=> HasIndex(c)
    BY <1>1, <1>2 DEF Batch!HasIndex, Indexed
  <1>4. CASE HasIndex(c)
    <2>1. c \notin Primary
      BY <1>1, <1>4 DEF IInv, TypeOK, IndexOK
    <2>2. result = FoundInIndex(node)
      BY <1>4, <2>1 DEF SelectOne
    <2>3. \E h \in {node.h, node.h + 1} :
            Batch!ListedByValue(index[c].of, result, node.l, h)
      BY <1>4, <2>2, IndexAnswers
    <2>4. \E h \in {node.h, node.h + 1} :
            Batch!ListedByValue(Indexed[c], result, node.l, h)
      BY <1>2, <1>4, <2>3
    <2> HIDE DEF node, c
    <2> QED
      BY <1>3, <1>4, <2>4 DEF Batch!ByAccessPath, Indexed, node, c
  <1>5. CASE ~HasIndex(c)
    <2>1. IsListOf(result, Found(node))
      BY <1>5 DEF SelectOne
    <2>2. \E h \in {node.h, node.h + 1} : Found(node) = SelectUnsorted(data[c], node.l, h)
      BY FoundIsRange
    <2>3. \E h \in {node.h, node.h + 1} :
            Batch!IsListOf(result, Batch!SelectUnsorted(data[c], node.l, h))
      BY <2>1, <2>2, SameVectors
    <2> QED
      BY <1>3, <1>5, <2>3 DEF Batch!ByAccessPath
  <1> QED
    BY <1>4, <1>5

\* The execution one after the other answers by way of select_one.
LEMMA SequentialAnswers ==
  ASSUME IInv, ExecuteSequentially
  PROVE  Batch!Answer(Batch!ByAccessPath)
  <1> DEFINE Answers == UNION { SelectOne(root[k]) : k \in DOMAIN root }
             Bound(f) == [k \in 1 .. Len(root) |-> [name |-> root[k].name, result |-> f[k]]]
  <1>1. root # <<>> /\ root' = <<>> /\ UNCHANGED <<data, index>> /\ root \in Seq(Node) /\ Len(root) \in Nat
    BY DEF ExecuteSequentially, IInv, TypeOK
  <1>2. PICK answer \in [1 .. Len(root) -> Answers] :
          /\ \A k \in DOMAIN root : answer[k] \in SelectOne(root[k])
          /\ pool' = pool \o Bound(answer)
    BY DEF ExecuteSequentially
  <1>3. \A k \in 1 .. Len(root) : answer[k] \in Seq(Nat \ {0})
    <2>1. ASSUME NEW k \in 1 .. Len(root)
          PROVE  SelectOne(root[k]) \subseteq Seq(Nat \ {0})
      BY AnswersAreVectors
    <2>2. Answers \subseteq Seq(Nat \ {0})
      BY <1>1, <2>1
    <2> QED
      BY <2>2
  <1>4. /\ Bound(answer) \in Seq(Binding)
        /\ Len(Bound(answer)) = Len(root)
        /\ \A k \in 1 .. Len(root) : /\ Bound(answer)[k].result = answer[k]
                                     /\ Bound(answer)[k].name = root[k].name
    <2>1. ASSUME NEW k \in 1 .. Len(root)
          PROVE  [name |-> root[k].name, result |-> answer[k]] \in Binding
      <3>1. root[k].name \in Names
        BY NodeShape DEF IInv, Node
      <3> QED
        BY <1>3, <3>1 DEF Binding
    <2>2. Bound(answer) \in [1 .. Len(root) -> Binding]
      BY <2>1
    <2>3. \A k \in 1 .. Len(root) : /\ Bound(answer)[k].result = answer[k]
                                    /\ Bound(answer)[k].name = root[k].name
      OBVIOUS
    <2> HIDE DEF Bound
    <2> QED
      BY <1>1, <2>2, <2>3, FunctionIsSeq
  <1> HIDE DEF Bound, Answers
  <1>5. /\ Queue # <<>> /\ Queue' = <<>>
        /\ Len(pool') = Len(pool) + Len(Queue)
        /\ SubSeq(pool', 1, Len(pool)) = pool
        /\ DOMAIN Queue = 1 .. Len(root)
        /\ \A k \in DOMAIN Queue : /\ pool'[Len(pool) + k] = Bound(answer)[k]
                                   /\ Bound(answer)[k].name = Queue[k].name
    BY <1>1, <1>2, <1>4, AllBound
  <1>6. ASSUME NEW k \in DOMAIN Queue
        PROVE  Batch!ByAccessPath(Queue[k], pool'[Len(pool) + k].result)
    <2>1. k \in 1 .. Len(root) /\ pool'[Len(pool) + k].result = answer[k]
      BY <1>4, <1>5
    <2>2. Queue[k].col = root[k].col /\ Queue[k].l = root[k].l /\ Queue[k].h = root[k].h
      BY <2>1, QueueShape
    <2>3. answer[k] \in SelectOne(root[k])
      BY <1>1, <1>2, <2>1
    <2>4. Batch!ByAccessPath(root[k], answer[k])
      BY <2>1, <2>3, SelectOneAnswers
    <2> QED
      BY <2>1, <2>2, <2>4 DEF Batch!ByAccessPath, Batch!HasIndex
  <1> QED
    BY <1>1, <1>5, <1>6 DEF Batch!Answer, HasIndex, Queue, Queries

\* Steps of threads and of the server's thread change no query.
LEMMA ThreadsAskNothing ==
  ASSUME IInv, IInv', \/ CreateThread
                      \/ \E t \in live : ThreadEntry(t) \/ ThreadScan(t) \/ ThreadExit(t)
  PROVE  Queue' = Queue /\ UNCHANGED <<data, index, pool>>
  <1>1. /\ root \in Seq(Node) /\ root' \in Seq(Node)
        /\ \A k \in 1 .. Len(root) : root[k] \in Node
    BY NodeShape DEF IInv, TypeOK
  <1>2. ASSUME DOMAIN root' = DOMAIN root, \A k \in 1 .. Len(root) : SameQuery(root'[k], root[k])
        PROVE  Queue' = Queue
    <2>1. Len(root') = Len(root)
      BY <1>1, <1>2
    <2> QED
      BY <1>2, <2>1, SameQueue
  <1>3. CASE CreateThread
    <2>1. root' = [root EXCEPT ![cur].start = block, ![cur].end = block + Block]
          /\ UNCHANGED <<data, index, pool>>
      BY <1>3 DEF CreateThread
    <2>2. \A k \in 1 .. Len(root) : SameQuery(root'[k], root[k])
      <3> TAKE k \in 1 .. Len(root)
      <3>1. root[k] \in Node /\ k \in DOMAIN root
        BY <1>1
      <3>2. root'[k] = root[k] \/ root'[k] = [root[k] EXCEPT !.start = block, !.end = block + Block]
        BY <2>1, <3>1
      <3> QED
        BY <3>1, <3>2 DEF SameQuery, Node
    <2>3. DOMAIN root' = DOMAIN root
      BY <2>1
    <2> QED
      BY <1>2, <2>1, <2>2, <2>3
  <1>4. ASSUME NEW k, NEW r, root' = [root EXCEPT ![k].result = r]
         PROVE  Queue' = Queue
    <2>1. DOMAIN root' = DOMAIN root
      BY <1>4
    <2>2. \A j \in 1 .. Len(root) : SameQuery(root'[j], root[j])
      <3> TAKE j \in 1 .. Len(root)
      <3>1. root[j] \in Node /\ j \in DOMAIN root
        BY <1>1
      <3>2. root'[j] = root[j] \/ root'[j] = [root[j] EXCEPT !.result = r]
        BY <1>4, <3>1
      <3> QED
        BY <3>1, <3>2 DEF SameQuery, Node
    <2> QED
      BY <1>2, <2>1, <2>2
  <1>5. ASSUME NEW t \in live, ThreadEntry(t) \/ ThreadScan(t) \/ ThreadExit(t)
        PROVE  Queue' = Queue /\ UNCHANGED <<data, index, pool>>
    <2>2. CASE ThreadEntry(t)
      BY <1>4, <2>2 DEF ThreadEntry
    <2>3. CASE ThreadScan(t)
      BY <1>4, <2>3 DEF ThreadScan
    <2>4. CASE ThreadExit(t)
      BY <2>4 DEF ThreadExit, Queue, Queries
    <2> QED
      BY <1>5, <2>2, <2>3, <2>4
  <1> QED
    BY <1>3, <1>5

\* A scheduled select is one query more.
LEMMA ScheduledAsks ==
  ASSUME IInv, NEW name \in Names, NEW c \in Cols, NEW r \in Ranges, ScheduleSelect(name, c, r)
  PROVE  Batch!Ask
  <1> DEFINE node == [name |-> name, col |-> c, l |-> r[1], h |-> r[2],
                      start |-> -1, end |-> -1, result |-> NULL]
  <1>1. root' = <<node>> \o root /\ UNCHANGED <<data, index, pool>>
    BY DEF ScheduleSelect
  <1>2. node \in Node
    BY ColsAssumption DEF Node
  <1> HIDE DEF node
  <1>3. root \in Seq(Node) /\ Len(root) \in Nat
    BY DEF IInv, TypeOK
  <1>4. /\ Len(root') = Len(root) + 1
        /\ \A k \in 1 .. Len(root) : root'[k + 1] = root[k]
    BY <1>1, <1>2, <1>3
  <1>5. root' \in Seq(Node)
    BY <1>1, <1>2, <1>3
  <1>6. Queue' \in Seq(Query) /\ Len(Queue') = Len(root') /\ Queue \in Seq(Query) /\ Len(Queue) = Len(root)
    BY <1>3, <1>5, QueriesShape DEF Queue
  <1>7. \A k \in 1 .. Len(root) : Queue'[k + 1] = Queue[k]
    BY <1>3, <1>4 DEF Queue, Queries
  <1>8. Len(Queue') = Len(Queue) + 1 /\ Tail(Queue') = Queue
    <2>1. Len(Queue') = Len(Queue) + 1
      BY <1>4, <1>6
    <2>2. Tail(Queue') = Queue
      BY <1>3, <1>4, <1>6, <1>7, <2>1
    <2> QED
      BY <2>1, <2>2
  <1> QED
    BY <1>1, <1>8 DEF Batch!Ask, HasIndex, Queue, Queries

\* However the threads of a batch interleave, its queries are answered at once, by
\* the shared scan with exactly the positions of the range in the column.  Executed one
\* after the other they are answered by the column's access path: in the order of
\* values from what an index had when it was created, or else from the column, and
\* possibly with the upper bound.  On an empty column no thread makes a result.
THEOREM ImplementsBatchSelect ==
  ASSUME MinLen > 0
  PROVE  Spec => RefinesBatchSelect
  <1>1. Init => Batch!Init
    BY EmptyQueue DEF Init, Batch!Init, HasIndex, NoIndex, Queue, Queries
  <1>2. IInv /\ IInv' /\ [Next]_vars => [Batch!Next]_Batch!vars
    <2> SUFFICES ASSUME IInv, IInv', [Next]_vars
                 PROVE  [Batch!Next]_Batch!vars
      OBVIOUS
    <2>1. ASSUME Queue' = Queue, UNCHANGED <<data, index, pool>>
          PROVE  UNCHANGED Batch!vars
      BY <2>1 DEF Batch!vars, HasIndex, Queue, Queries
    <2>2. CASE Change
      <3>1. Queue' = Queue /\ UNCHANGED <<index, pool>>
        BY <2>2 DEF Change, Queue, Queries
      <3>2. Batch!Change \/ data' = data
        BY <3>1 DEF Batch!Change, HasIndex, Queue, Queries
      <3> QED
        BY <2>1, <3>1, <3>2 DEF Batch!Next
    <2>3. ASSUME NEW name \in Names, NEW c \in Cols, NEW r \in Ranges, ScheduleSelect(name, c, r)
          PROVE  Batch!Next
      BY <2>3, ScheduledAsks DEF Batch!Next
    <2>4. CASE ExecuteScheduled \/ EnterBlock \/ JoinThread \/ UNCHANGED vars
      <3>1. Queue' = Queue /\ UNCHANGED <<data, index, pool>>
        BY <2>4 DEF ExecuteScheduled, EnterBlock, JoinThread, vars, Queue, Queries
      <3> QED
        BY <2>1, <3>1
    <2>5. CASE \/ CreateThread
               \/ \E t \in live : ThreadEntry(t) \/ ThreadScan(t) \/ ThreadExit(t)
      BY <2>1, <2>5, ThreadsAskNothing
    <2>6. CASE Publish
      BY <2>6, PublishAnswers DEF Batch!Next
    <2>7. CASE ExecuteSequentially
      BY <2>7, SequentialAnswers DEF Batch!Next
    <2>8. CASE Disconnect
      <3>1. Batch!Forget
        BY <2>8 DEF Disconnect, Batch!Forget, HasIndex, Queue, Queries
      <3> QED
        BY <3>1 DEF Batch!Next
    <2>9. ASSUME NEW c \in Cols, NEW type \in IndexType, CreateIndex(c, type)
          PROVE  Batch!Next
      BY <2>9, CreatedIsBuilt DEF Batch!Next
    <2> QED
      BY <2>2, <2>3, <2>4, <2>5, <2>6, <2>7, <2>8, <2>9 DEF Next
  <1> QED
    BY <1>1, <1>2, Invariance, PTL DEF Spec, RefinesBatchSelect, Batch!Spec
=============================================================================
