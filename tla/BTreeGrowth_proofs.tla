------------------------- MODULE BTreeGrowth_proofs -------------------------
EXTENDS BTree, Vectors_proofs, SequenceTheorems
(***************************************************************************)
(* What one insertion does to a sound B+ tree: the description of a tree and*)
(* the lemmas by which a split, a new root and an insertion keep it.       *)
(***************************************************************************)

---------------------------------------------------------------------------
(* The invariant.                                                          *)

\* What BtRecord and BtNode hold, a pointer being the place of a node in the sequence.
Record == [pos : Nat, val : Val]
Node == [leaf : BOOLEAN, records : Seq(Record), children : Seq(Nat), next : Nat]

\* What t says of a tree: its leaves from left to right and, of every node, its
\* height and the first and the last of the leaves below it, by their place in
\* the chain; sep[b] is the value that separates the leaves before b from the
\* others.
Description(ns, t) ==
  /\ t.chain \in Seq(DOMAIN ns)
  /\ t.hgt \in [DOMAIN ns -> Nat]
  /\ t.lo \in [DOMAIN ns -> Nat]
  /\ t.hi \in [DOMAIN ns -> Nat]
  /\ t.sep \in [Nat -> Int]

At(t, p) == t.chain[p]
Width(t) == Len(t.chain)
Hgt(t, x) == t.hgt[x]
Lo(t, x) == t.lo[x]
Hi(t, x) == t.hi[x]
Sep(t, b) == t.sep[b]

\* The leaves below an inner node are those below its children, one after the other.
Parent(ns, t, x) ==
  LET c == ns[x].children
  IN  /\ Len(c) = Len(ns[x].records) /\ Len(c) >= 1 /\ Hgt(t, x) >= 1
      /\ \A i \in 1 .. Len(c) : c[i] \in DOMAIN ns /\ Hgt(t, c[i]) = Hgt(t, x) - 1
      /\ Lo(t, c[1]) = Lo(t, x) /\ Hi(t, c[Len(c)]) = Hi(t, x)
      /\ \A i \in 1 .. Len(c) - 1 : Lo(t, c[i + 1]) = Hi(t, c[i]) + 1

\* A leaf has its place in the chain.
InChain(ns, t, x) ==
  /\ Hgt(t, x) = 0 /\ Hi(t, x) = Lo(t, x) /\ At(t, Lo(t, x)) = x
  /\ ns[x].children = <<>>

\* The nodes ns are a tree with the root r, described by t.  No two nodes of one
\* height have a leaf in common.
Tree(ns, r, t) ==
  /\ ns \in Seq(Node) /\ r \in DOMAIN ns /\ Description(ns, t)
  /\ \A x \in DOMAIN ns : 1 <= Lo(t, x) /\ Lo(t, x) <= Hi(t, x) /\ Hi(t, x) <= Width(t)
  /\ \A x \in DOMAIN ns : IF ns[x].leaf THEN InChain(ns, t, x) ELSE Parent(ns, t, x)
  /\ \A p \in 1 .. Width(t) : ns[At(t, p)].leaf /\ Lo(t, At(t, p)) = p
  /\ Lo(t, r) = 1 /\ Hi(t, r) = Width(t)
  /\ \A x \in DOMAIN ns : Hgt(t, x) <= Hgt(t, r)
  /\ \A x, y \in DOMAIN ns :
       Hgt(t, x) = Hgt(t, y) /\ Lo(t, x) <= Hi(t, y) /\ Lo(t, y) <= Hi(t, x) => x = y

\* next leads to the node of the same height to the right.
Linked(ns, t) ==
  \A x \in DOMAIN ns :
    IF Hi(t, x) = Width(t) THEN ns[x].next = 0
    ELSE /\ ns[x].next \in DOMAIN ns
         /\ Hgt(t, ns[x].next) = Hgt(t, x) /\ Lo(t, ns[x].next) = Hi(t, x) + 1

\* No node but the root is less than half full.
Filled(ns, r) ==
  \A x \in DOMAIN ns :
    /\ Len(ns[x].records) <= NodeSize
    /\ x # r => Len(ns[x].records) >= NodeSize \div 2

\* The records of a leaf ascend; sep separates, and is what the parents say.
Ordered(ns, t) ==
  /\ \A x \in DOMAIN ns : ns[x].leaf => \A i, j \in DOMAIN ns[x].records :
       i < j => ns[x].records[i].val <= ns[x].records[j].val
  /\ \A b \in 2 .. Width(t), x \in DOMAIN ns : ns[x].leaf =>
       \A k \in DOMAIN ns[x].records :
         /\ Lo(t, x) < b => ns[x].records[k].val <= Sep(t, b)
         /\ Lo(t, x) >= b => Sep(t, b) <= ns[x].records[k].val
  /\ \A x \in DOMAIN ns : ~ns[x].leaf => \A i \in DOMAIN ns[x].records :
       LET b == Lo(t, ns[x].children[i])
       IN  b > 1 => ns[x].records[i].val = Sep(t, b)

\* The leaves hold one record for each of the first n values of b.
Stored(ns, b, n) ==
  /\ \A x \in DOMAIN ns : ns[x].leaf => \A k \in DOMAIN ns[x].records :
       ns[x].records[k].pos \in 1 .. n /\ ns[x].records[k].val = b[ns[x].records[k].pos]
  /\ \A q \in 1 .. n : \E x \in DOMAIN ns : ns[x].leaf
       /\ \E k \in DOMAIN ns[x].records : ns[x].records[k].pos = q
  /\ \A x, y \in DOMAIN ns : ns[x].leaf /\ ns[y].leaf =>
       \A j \in DOMAIN ns[x].records, k \in DOMAIN ns[y].records :
         ns[x].records[j].pos = ns[y].records[k].pos => x = y /\ j = k

\* The first n values of b that are below v.
Under(b, n, v) == { q \in 1 .. n : b[q] < v }

\* How many values an insert that has arrived at a has brought to the leaves, or
\* to the nodes as high as x.
Done(b, a) == IF a = 0 THEN Len(b) ELSE Len(b) - 1
Passed(t, b, a, x) == IF a # 0 /\ Hgt(t, x) <= Hgt(t, a) THEN Len(b) - 1 ELSE Len(b)

\* The first record of an inner node at the left edge may be above values below it,
\* but above no more of them than the node is high: each new root adds at most one.
EdgeBounded(ns, t, b, a) ==
  \A x \in DOMAIN ns : ~ns[x].leaf /\ Lo(t, x) = 1 =>
    Cardinality(Under(b, Passed(t, b, a, x), ns[x].records[1].val)) <= Hgt(t, x)

\* The last value of b belongs below a.
OnPath(ns, t, b, a) ==
  a # 0 => /\ a \in DOMAIN ns /\ Len(b) >= 1
           /\ \A s \in 2 .. Width(t) :
                /\ s <= Lo(t, a) => Sep(t, s) <= b[Len(b)]
                /\ s > Hi(t, a) => b[Len(b)] <= Sep(t, s)

Sound(ns, r, t, b, a) ==
  /\ Tree(ns, r, t) /\ Linked(ns, t) /\ Filled(ns, r) /\ Ordered(ns, t)
  /\ Stored(ns, b, Done(b, a)) /\ EdgeBounded(ns, t, b, a) /\ OnPath(ns, t, b, a)

---------------------------------------------------------------------------
(* Sequences.                                                              *)

\* A part of a sequence.
LEMMA Part ==
  ASSUME NEW T, NEW s \in Seq(T), NEW m \in 1 .. Len(s) + 1, NEW n \in m - 1 .. Len(s)
  PROVE  /\ SubSeq(s, m, n) \in Seq(T) /\ Len(SubSeq(s, m, n)) = n - m + 1
         /\ \A k \in 1 .. n - m + 1 : SubSeq(s, m, n)[k] = s[m + k - 1]
  <1>1. \A k \in m .. n : s[k] \in T
    OBVIOUS
  <1> QED
    BY <1>1, SubSeqProperties

\* InsertAt makes room for an element and puts it there.
LEMMA Inserting ==
  ASSUME NEW T, NEW s \in Seq(T), NEW i \in 1 .. Len(s) + 1, NEW e \in T
  PROVE  /\ InsertAt(s, i, e) \in Seq(T) /\ Len(InsertAt(s, i, e)) = Len(s) + 1
         /\ \A k \in 1 .. Len(s) + 1 :
              InsertAt(s, i, e)[k] = IF k < i THEN s[k] ELSE IF k = i THEN e ELSE s[k - 1]
  <1> DEFINE a == SubSeq(s, 1, i - 1)  b == SubSeq(s, i, Len(s))  c == a \o <<e>>
  <1>1. Len(s) \in Nat /\ i \in Nat /\ 1 <= i /\ i <= Len(s) + 1
    OBVIOUS
  <1>a. \A k \in 1 .. Len(s) : s[k] \in T
    OBVIOUS
  <1>2. /\ a \in Seq(T) /\ Len(a) = i - 1 /\ \A k \in 1 .. i - 1 : a[k] = s[k]
        /\ b \in Seq(T) /\ Len(b) = Len(s) - i + 1
        /\ \A k \in 1 .. Len(s) - i + 1 : b[k] = s[k + i - 1]
    <2>1. /\ a \in Seq(T) /\ Len(a) = (i - 1) - 1 + 1
          /\ \A k \in 1 .. (i - 1) - 1 + 1 : a[k] = s[1 + k - 1]
      BY <1>1, Part
    <2>2. /\ b \in Seq(T) /\ Len(b) = Len(s) - i + 1
          /\ \A k \in 1 .. Len(s) - i + 1 : b[k] = s[i + k - 1]
      BY <1>1, Part
    <2> HIDE DEF a, b
    <2> QED
      BY <1>1, <2>1, <2>2
  <1> HIDE DEF a, b
  <1>3. /\ c \in Seq(T) /\ Len(c) = i /\ c[i] = e
        /\ \A k \in 1 .. i - 1 : c[k] = s[k]
    <2>1. <<e>> \in Seq(T) /\ Len(<<e>>) = 1 /\ <<e>>[1] = e
      OBVIOUS
    <2>2. /\ c \in Seq(T) /\ Len(c) = (i - 1) + 1
          /\ \A k \in 1 .. (i - 1) + 1 : c[k] = IF k <= i - 1 THEN a[k] ELSE <<e>>[k - (i - 1)]
      BY <1>2, <2>1, ConcatProperties
    <2>3. i - (i - 1) = 1 /\ (i - 1) + 1 = i /\ i \in 1 .. i /\ ~(i <= i - 1)
      BY <1>1
    <2> HIDE DEF c
    <2> QED
      BY <1>1, <1>2, <2>1, <2>2, <2>3
  <1> HIDE DEF c
  <1>4. /\ c \o b \in Seq(T) /\ Len(c \o b) = Len(s) + 1
        /\ \A k \in 1 .. Len(s) + 1 : (c \o b)[k] = IF k <= i THEN c[k] ELSE b[k - i]
    <2>1. i + (Len(s) - i + 1) = Len(s) + 1
      BY <1>1
    <2>2. /\ c \o b \in Seq(T) /\ Len(c \o b) = Len(c) + Len(b)
          /\ \A k \in 1 .. Len(c) + Len(b) : (c \o b)[k] = IF k <= Len(c) THEN c[k] ELSE b[k - Len(c)]
      <3>1. c \in Seq(T) /\ b \in Seq(T)
        BY <1>2, <1>3
      <3> QED
        BY <3>1, ConcatProperties
    <2>3. Len(c) = i /\ Len(c) + Len(b) = Len(s) + 1
      BY <1>2, <1>3, <2>1
    <2> QED
      BY <2>2, <2>3
  <1>5. InsertAt(s, i, e) = c \o b
    BY DEF InsertAt, a, b, c
  <1>6. \A k \in 1 .. Len(s) + 1 : k > i => b[k - i] = s[k - 1]
    <2> SUFFICES ASSUME NEW k \in 1 .. Len(s) + 1, k > i
                 PROVE  b[k - i] = s[k - 1]
      OBVIOUS
    <2>1. k - i \in 1 .. Len(s) - i + 1 /\ (k - i) + i - 1 = k - 1
      BY <1>1
    <2> QED
      BY <1>2, <2>1
  <1> QED
    BY <1>1, <1>3, <1>4, <1>5, <1>6

\* Two parts, the second behind the first, are one.
LEMMA Adjacent ==
  ASSUME NEW T, NEW s \in Seq(T), NEW l \in 1 .. Len(s) + 1, NEW m \in l .. Len(s) + 1,
         NEW n \in m - 1 .. Len(s)
  PROVE  SubSeq(s, l, m - 1) \o SubSeq(s, m, n) = SubSeq(s, l, n)
  <1> DEFINE a == SubSeq(s, l, m - 1)  b == SubSeq(s, m, n)  c == SubSeq(s, l, n)
  <1>0. l \in Int /\ m \in Int /\ n \in Int /\ l <= m /\ m - 1 <= n
    OBVIOUS
  <1>1. /\ a \in Seq(T) /\ Len(a) = m - l /\ \A k \in 1 .. m - l : a[k] = s[l + k - 1]
        /\ b \in Seq(T) /\ Len(b) = n - m + 1 /\ \A k \in 1 .. n - m + 1 : b[k] = s[m + k - 1]
        /\ c \in Seq(T) /\ Len(c) = n - l + 1 /\ \A k \in 1 .. n - l + 1 : c[k] = s[l + k - 1]
    <2>1. m - 1 \in l - 1 .. Len(s) /\ m \in 1 .. Len(s) + 1 /\ n \in l - 1 .. Len(s)
      OBVIOUS
    <2>2. (m - 1) - l + 1 = m - l
      OBVIOUS
    <2> QED
      BY <2>1, <2>2, Part
  <1> HIDE DEF a, b, c
  <1>2. /\ a \o b \in Seq(T) /\ Len(a \o b) = n - l + 1
        /\ \A k \in 1 .. n - l + 1 : (a \o b)[k] = IF k <= m - l THEN a[k] ELSE b[k - (m - l)]
    <2>1. (m - l) + (n - m + 1) = n - l + 1
      BY <1>0
    <2>2. /\ a \o b \in Seq(T) /\ Len(a \o b) = Len(a) + Len(b)
          /\ \A k \in 1 .. Len(a) + Len(b) : (a \o b)[k] = IF k <= Len(a) THEN a[k] ELSE b[k - Len(a)]
      BY <1>1, ConcatProperties
    <2>3. Len(a) = m - l /\ Len(a) + Len(b) = n - l + 1
      BY <1>1, <2>1
    <2> QED
      BY <2>2, <2>3
  <1>3. ASSUME NEW k \in 1 .. n - l + 1
        PROVE  (a \o b)[k] = c[k]
    <2>1. CASE k <= m - l
      <3>1. k \in 1 .. m - l
        BY <1>0, <2>1
      <3> QED
        BY <1>1, <1>2, <2>1, <3>1
    <2>2. CASE k > m - l
      <3>1. k - (m - l) \in 1 .. n - m + 1 /\ m + (k - (m - l)) - 1 = l + k - 1
        BY <1>0, <2>2
      <3>2. (a \o b)[k] = b[k - (m - l)] /\ c[k] = s[l + k - 1]
        <4>1. k \in Int /\ ~(k <= m - l)
          BY <1>0, <2>2
        <4> QED
          BY <1>1, <1>2, <4>1
      <3> QED
        BY <1>1, <3>1, <3>2
    <2>3. k <= m - l \/ k > m - l
      BY <1>0
    <2> QED
      BY <2>1, <2>2, <2>3
  <1>4. a \o b = c
    BY <1>1, <1>2, <1>3, SeqEqual
  <1> QED
    BY <1>4 DEF a, b, c

---------------------------------------------------------------------------
(* What a split does to the nodes.                                         *)

\* l is the first half of n, the f-th node is the next of it; u the second half.
Left(n, l, m, f) ==
  /\ l.leaf = n.leaf /\ l.next = f
  /\ Len(l.records) = m /\ \A k \in 1 .. m : l.records[k] = n.records[k]
  /\ IF n.leaf THEN l.children = <<>>
     ELSE Len(l.children) = m /\ \A k \in 1 .. m : l.children[k] = n.children[k]
Right(n, u, m) ==
  /\ u.leaf = n.leaf /\ u.next = n.next
  /\ Len(u.records) = Len(n.records) - m
  /\ \A k \in 1 .. Len(n.records) - m : u.records[k] = n.records[m + k]
  /\ IF n.leaf THEN u.children = <<>>
     ELSE /\ Len(u.children) = Len(n.records) - m
          /\ \A k \in 1 .. Len(n.records) - m : u.children[k] = n.children[m + k]

\* p is n with the child f, and its record, behind the i-th child.
Above(n, p, i, f, record) ==
  /\ p.leaf = n.leaf /\ p.next = n.next
  /\ Len(p.records) = Len(n.records) + 1 /\ Len(p.children) = Len(n.records) + 1
  /\ \A k \in 1 .. Len(n.records) + 1 :
       /\ p.records[k] = IF k <= i THEN n.records[k] ELSE IF k = i + 1 THEN record ELSE n.records[k - 1]
       /\ p.children[k] = IF k <= i THEN n.children[k] ELSE IF k = i + 1 THEN f ELSE n.children[k - 1]

\* ms is ns with y, the i-th child of x, split behind its m-th record.
IsSplit(ns, ms, x, i, y, f, m) ==
  /\ ms \in Seq(Node) /\ f = Len(ns) + 1 /\ Len(ms) = f
  /\ \A z \in 1 .. Len(ns) : z # x /\ z # y => ms[z] = ns[z]
  /\ Left(ns[y], ms[y], m, f) /\ Right(ns[y], ms[f], m)
  /\ Above(ns[x], ms[x], i, f, ms[f].records[1])

\* A node whose children go with its records, or a leaf without any.
Regular(n) ==
  n \in Node /\ IF n.leaf THEN n.children = <<>> ELSE Len(n.children) = Len(n.records)

\* Half of a number.
LEMMA Halving ==
  ASSUME NEW n \in Nat, n >= 2
  PROVE  n \div 2 \in 1 .. n - 1 /\ 2 * (n \div 2) <= n /\ n <= 2 * (n \div 2) + 1
  OBVIOUS

\* A sequence in two parts.
LEMMA TwoParts ==
  ASSUME NEW T, NEW s \in Seq(T), NEW m \in 0 .. Len(s)
  PROVE  /\ SubSeq(s, 1, m) \in Seq(T) /\ Len(SubSeq(s, 1, m)) = m
         /\ \A k \in 1 .. m : SubSeq(s, 1, m)[k] = s[k]
         /\ SubSeq(s, m + 1, Len(s)) \in Seq(T) /\ Len(SubSeq(s, m + 1, Len(s))) = Len(s) - m
         /\ \A k \in 1 .. Len(s) - m : SubSeq(s, m + 1, Len(s))[k] = s[m + k]
  OBVIOUS

\* A node with new records and children.
Renew(n, r, c) == [n EXCEPT !.records = r, !.children = c]
Made(q, leaf, r, c, f) ==
  q \in Node /\ q.leaf = leaf /\ q.records = r /\ q.children = c /\ q.next = f

\* It is a node, and its other fields are the old ones.
LEMMA Renewed ==
  ASSUME NEW n \in Node, NEW r \in Seq(Record), NEW c \in Seq(Nat), NEW f \in Nat
  PROVE  /\ Made(Renew(n, r, c), n.leaf, r, c, n.next)
         /\ Made([Renew(n, r, c) EXCEPT !.next = f], n.leaf, r, c, f)
  <1> DEFINE p == Renew(n, r, c)
  <1>1. p \in Node /\ p.leaf = n.leaf /\ p.records = r /\ p.children = c /\ p.next = n.next
    BY DEF Node, Renew
  <1> HIDE DEF p
  <1>2. LET q == [p EXCEPT !.next = f]
        IN  q \in Node /\ q.leaf = p.leaf /\ q.records = p.records /\ q.children = p.children /\ q.next = f
    BY <1>1 DEF Node
  <1>3. LET q == [p EXCEPT !.next = f]
        IN  q \in Node /\ q.leaf = n.leaf /\ q.records = r /\ q.children = c /\ q.next = f
    BY <1>1, <1>2
  <1> QED
    BY <1>1, <1>3 DEF p, Made

\* The halves of a node with two records or more.
LEMMA NodeHalves ==
  ASSUME NEW n, Regular(n), Len(n.records) >= 2, NEW f \in Nat
  PROVE  /\ Median(n) \in 1 .. Len(n.records) - 1
         /\ 2 * Median(n) <= Len(n.records) /\ Len(n.records) <= 2 * Median(n) + 1
         /\ [LeftHalf(n) EXCEPT !.next = f] \in Node /\ RightHalf(n) \in Node
         /\ Left(n, [LeftHalf(n) EXCEPT !.next = f], Median(n), f)
         /\ Right(n, RightHalf(n), Median(n))
  <1> DEFINE m == Median(n)  len == Len(n.records)
             a == SubSeq(n.records, 1, m)  b == SubSeq(n.records, m + 1, len)
             c == IF n.leaf THEN <<>> ELSE SubSeq(n.children, 1, m)
             d == SubSeq(n.children, m + 1, Len(n.children))
  <1>1. /\ n \in Node /\ n.leaf \in BOOLEAN /\ n.records \in Seq(Record)
        /\ n.children \in Seq(Nat) /\ n.next \in Nat
    BY DEF Regular, Node
  <1>2. len \in Nat /\ len >= 2
    BY <1>1
  <1>3. m \in 1 .. len - 1 /\ 2 * m <= len /\ len <= 2 * m + 1
    BY <1>2, Halving DEF Median
  <1>4. m \in 0 .. len
    BY <1>2, <1>3
  <1> HIDE DEF m
  <1>5. /\ a \in Seq(Record) /\ Len(a) = m /\ \A k \in 1 .. m : a[k] = n.records[k]
        /\ b \in Seq(Record) /\ Len(b) = len - m /\ \A k \in 1 .. len - m : b[k] = n.records[m + k]
    BY <1>1, <1>4, TwoParts
  <1>6. /\ c \in Seq(Nat) /\ d \in Seq(Nat)
        /\ IF n.leaf THEN c = <<>> /\ d = <<>>
           ELSE /\ Len(c) = m /\ \A k \in 1 .. m : c[k] = n.children[k]
                /\ Len(d) = len - m /\ \A k \in 1 .. len - m : d[k] = n.children[m + k]
    <2>1. CASE n.leaf
      <3>1. n.children = <<>>
        BY <2>1 DEF Regular
      <3>2. d = <<>>
        <4>1. d = SubSeq(<<>>, m + 1, 0)
          BY <3>1
        <4> QED
          BY <1>2, <1>3, <4>1, SubSeqEmpty
      <3>3. c = <<>>
        BY <2>1
      <3> HIDE DEF c, d
      <3> QED
        BY <2>1, <3>2, <3>3
    <2>2. CASE ~n.leaf
      <3>1. Len(n.children) = len
        BY <2>2 DEF Regular
      <3>2. m \in 0 .. Len(n.children)
        BY <1>4, <3>1
      <3> DEFINE e == SubSeq(n.children, 1, m)
      <3>3. /\ e \in Seq(Nat) /\ Len(e) = m /\ \A k \in 1 .. m : e[k] = n.children[k]
            /\ d \in Seq(Nat) /\ Len(d) = len - m /\ \A k \in 1 .. len - m : d[k] = n.children[m + k]
        <4> DEFINE s == n.children
        <4>1. s \in Seq(Nat) /\ m \in 0 .. Len(s) /\ Len(s) = len
          BY <1>1, <3>1, <3>2
        <4> HIDE DEF s, len
        <4>2. /\ SubSeq(s, 1, m) \in Seq(Nat) /\ Len(SubSeq(s, 1, m)) = m
              /\ \A k \in 1 .. m : SubSeq(s, 1, m)[k] = s[k]
              /\ SubSeq(s, m + 1, Len(s)) \in Seq(Nat) /\ Len(SubSeq(s, m + 1, Len(s))) = len - m
              /\ \A k \in 1 .. len - m : SubSeq(s, m + 1, Len(s))[k] = s[m + k]
          BY <4>1, TwoParts, SMTT(30)
        <4> QED
          BY <4>2 DEF s
      <3>4. c = e
        BY <2>2
      <3> HIDE DEF c, d, e
      <3> QED
        BY <2>2, <3>3, <3>4
    <2> QED
      BY <2>1, <2>2
  <1> HIDE DEF a, b, c, d
  <1> DEFINE l == [LeftHalf(n) EXCEPT !.next = f]  u == RightHalf(n)
  <1>7. l = [Renew(n, a, c) EXCEPT !.next = f]
    BY DEF LeftHalf, Renew, a, c, m
  <1>8. u = Renew(n, b, d)
    BY DEF RightHalf, Renew, b, d, m
  <1> HIDE DEF l, u
  <1>9. l \in Node /\ l.leaf = n.leaf /\ l.records = a /\ l.children = c /\ l.next = f
    <2>1. Made([Renew(n, a, c) EXCEPT !.next = f], n.leaf, a, c, f)
      BY <1>1, <1>5, <1>6, Renewed
    <2> QED
      BY <1>7, <2>1 DEF Made
  <1>10. u \in Node /\ u.leaf = n.leaf /\ u.records = b /\ u.children = d /\ u.next = n.next
    <2>1. Made(Renew(n, b, d), n.leaf, b, d, n.next)
      BY <1>1, <1>5, <1>6, Renewed
    <2> QED
      BY <1>8, <2>1 DEF Made
  <1>11. Left(n, l, m, f)
    BY <1>5, <1>6, <1>9 DEF Left
  <1>12. Right(n, u, m)
    BY <1>5, <1>6, <1>10 DEF Right
  <1> QED
    BY <1>3, <1>9, <1>10, <1>11, <1>12 DEF l, u, m

\* bt_split_child halves the child, hangs the new half beside it, and leaves the
\* other nodes as they are.
LEMMA Splitting ==
  ASSUME NEW ns \in Seq(Node), NEW x \in DOMAIN ns, NEW i \in 1 .. Len(ns[x].records),
         ~ns[x].leaf, Regular(ns[x]), NEW y \in DOMAIN ns, y = ns[x].children[i], y # x,
         Regular(ns[y]), Len(ns[y].records) >= 2
  PROVE  IsSplit(ns, BtSplitChild(ns, x, i), x, i, y, Len(ns) + 1, Median(ns[y]))
  <1> DEFINE n == ns[y]  f == Len(ns) + 1  m == Median(n)
             right == RightHalf(n)
             left == [LeftHalf(n) EXCEPT !.next = f]
             first == right.records[1]
             j == i + 1
             cs == InsertAt(ns[x].children, j, f)
             rs == InsertAt(ns[x].records, j, first)
             p == [ns[x] EXCEPT !.children = cs, !.records = rs]
             mid == [ns EXCEPT ![y] = left, ![x] = p]
  <1>1. Len(ns) \in Nat /\ DOMAIN ns = 1 .. Len(ns) /\ \A z \in DOMAIN ns : ns[z] \in Node
    OBVIOUS
  <1>2. f \in Nat
    BY <1>1
  <1>3. /\ m \in 1 .. Len(n.records) - 1
        /\ left \in Node /\ right \in Node /\ Left(n, left, m, f) /\ Right(n, right, m)
    BY <1>2, NodeHalves
  <1> HIDE DEF m, left, right
  <1>4. /\ ns[x] \in Node /\ ns[x].leaf \in BOOLEAN /\ ns[x].next \in Nat
        /\ ns[x].records \in Seq(Record) /\ ns[x].children \in Seq(Nat)
        /\ n.records \in Seq(Record)
    BY <1>1 DEF Node
  <1>a. Len(ns[x].records) \in Nat /\ Len(ns[x].children) = Len(ns[x].records) /\ Len(n.records) \in Nat
    BY <1>4, SMTT(30) DEF Regular
  <1>5. first \in Record
    <2>1. right.records \in Seq(Record) /\ Len(right.records) = Len(n.records) - m
      BY <1>3 DEF Right, Node
    <2>2. 1 \in 1 .. Len(right.records)
      BY <1>3, <1>a, <2>1
    <2> QED
      BY <2>1, <2>2
  <1> HIDE DEF first
  <1>6. /\ rs \in Seq(Record) /\ Len(rs) = Len(ns[x].records) + 1
        /\ \A k \in 1 .. Len(ns[x].records) + 1 :
             rs[k] = IF k < j THEN ns[x].records[k] ELSE IF k = j THEN first ELSE ns[x].records[k - 1]
        /\ cs \in Seq(Nat) /\ Len(cs) = Len(ns[x].records) + 1
        /\ \A k \in 1 .. Len(ns[x].records) + 1 :
             cs[k] = IF k < j THEN ns[x].children[k] ELSE IF k = j THEN f ELSE ns[x].children[k - 1]
    <2> DEFINE s == ns[x].records  c == ns[x].children
    <2>1. j \in 1 .. Len(s) + 1 /\ j \in 1 .. Len(c) + 1 /\ s \in Seq(Record) /\ c \in Seq(Nat)
      BY <1>4, <1>a
    <2> HIDE DEF f, j, s, c
    <2>2. /\ rs \in Seq(Record) /\ Len(rs) = Len(s) + 1
          /\ \A k \in 1 .. Len(s) + 1 :
               rs[k] = IF k < j THEN s[k] ELSE IF k = j THEN first ELSE s[k - 1]
      <3>1. rs = InsertAt(s, j, first)
        BY DEF s
      <3>2. /\ InsertAt(s, j, first) \in Seq(Record) /\ Len(InsertAt(s, j, first)) = Len(s) + 1
            /\ \A k \in 1 .. Len(s) + 1 :
                 InsertAt(s, j, first)[k] = IF k < j THEN s[k] ELSE IF k = j THEN first ELSE s[k - 1]
        BY <1>5, <2>1, Inserting
      <3> HIDE DEF rs
      <3> QED
        BY <3>1, <3>2
    <2>3. /\ cs \in Seq(Nat) /\ Len(cs) = Len(c) + 1
          /\ \A k \in 1 .. Len(c) + 1 :
               cs[k] = IF k < j THEN c[k] ELSE IF k = j THEN f ELSE c[k - 1]
      <3>1. cs = InsertAt(c, j, f)
        BY DEF c
      <3>2. /\ InsertAt(c, j, f) \in Seq(Nat) /\ Len(InsertAt(c, j, f)) = Len(c) + 1
            /\ \A k \in 1 .. Len(c) + 1 :
                 InsertAt(c, j, f)[k] = IF k < j THEN c[k] ELSE IF k = j THEN f ELSE c[k - 1]
        <4> DEFINE T == Nat
        <4>1. c \in Seq(T) /\ j \in 1 .. Len(c) + 1 /\ f \in T
          BY <1>2, <2>1
        <4> HIDE DEF T
        <4>2. /\ InsertAt(c, j, f) \in Seq(T) /\ Len(InsertAt(c, j, f)) = Len(c) + 1
              /\ \A k \in 1 .. Len(c) + 1 :
                   InsertAt(c, j, f)[k] = IF k < j THEN c[k] ELSE IF k = j THEN f ELSE c[k - 1]
          BY <4>1, Inserting
        <4> QED
          BY <4>2 DEF T
      <3> HIDE DEF cs
      <3> QED
        BY <3>1, <3>2
    <2> HIDE DEF rs, cs
    <2> QED
      BY <1>a, <2>2, <2>3 DEF s, c
  <1> HIDE DEF rs, cs, f
  <1>7. p \in Node /\ Above(ns[x], p, i, f, first)
    <2>1. p \in Node /\ p.leaf = ns[x].leaf /\ p.records = rs /\ p.children = cs /\ p.next = ns[x].next
      BY <1>4, <1>6 DEF Node
    <2> HIDE DEF p
    <2>2. \A k \in 1 .. Len(ns[x].records) + 1 : k < j <=> k <= i
      BY <1>a
    <2> QED
      BY <1>6, <2>1, <2>2 DEF Above
  <1>8. BtSplitChild(ns, x, i) = Append(mid, right)
    <2>1. p = [ns[x] EXCEPT !.children = InsertAt(@, i + 1, f), !.records = InsertAt(@, i + 1, first)]
      BY DEF cs, rs
    <2> HIDE DEF p
    <2> QED
      BY <2>1 DEF BtSplitChild, f, right, left, first
  <1> HIDE DEF p
  <1>9. /\ mid \in Seq(Node) /\ Len(mid) = Len(ns) /\ mid[x] = p /\ mid[y] = left
        /\ \A z \in 1 .. Len(ns) : z # x /\ z # y => mid[z] = ns[z]
    BY <1>1, <1>3, <1>7
  <1> HIDE DEF mid
  <1>b. f = Len(mid) + 1
    BY <1>9 DEF f
  <1>10. /\ Append(mid, right) \in Seq(Node) /\ Len(Append(mid, right)) = f
         /\ Append(mid, right)[f] = right
         /\ \A z \in 1 .. Len(ns) : Append(mid, right)[z] = mid[z]
    <2>1. /\ Append(mid, right) \in Seq(Node) /\ Len(Append(mid, right)) = Len(mid) + 1
          /\ Append(mid, right)[Len(mid) + 1] = right
          /\ \A z \in 1 .. Len(mid) : Append(mid, right)[z] = mid[z]
      <3>1. mid \in Seq(Node) /\ right \in Node
        BY <1>3, <1>9
      <3> QED
        BY <3>1, AppendProperties
    <2> QED
      BY <1>9, <1>b, <2>1
  <1>11. x \in 1 .. Len(ns) /\ y \in 1 .. Len(ns)
    BY <1>1
  <1> DEFINE ms == BtSplitChild(ns, x, i)
  <1>12. /\ ms \in Seq(Node) /\ Len(ms) = f /\ ms[f] = right /\ ms[x] = p /\ ms[y] = left
         /\ \A z \in 1 .. Len(ns) : z # x /\ z # y => ms[z] = ns[z]
    BY <1>8, <1>9, <1>10, <1>11
  <1> HIDE DEF ms
  <1>13. IsSplit(ns, ms, x, i, y, f, m)
    BY <1>3, <1>7, <1>12 DEF IsSplit, f, first
  <1> QED
    BY <1>13 DEF ms, f, m

---------------------------------------------------------------------------
(* The geometry of a tree.                                                 *)

\* What a tree's description says of every node.
LEMMA Described ==
  ASSUME NEW ns, NEW r, NEW t, Tree(ns, r, t)
  PROVE  /\ Len(ns) \in Nat /\ DOMAIN ns = 1 .. Len(ns) /\ r \in 1 .. Len(ns)
         /\ Width(t) \in Nat
         /\ \A z \in 1 .. Len(ns) :
              /\ ns[z] \in Node /\ ns[z].leaf \in BOOLEAN
              /\ Hgt(t, z) \in Nat /\ Lo(t, z) \in Nat /\ Hi(t, z) \in Nat
              /\ 1 <= Lo(t, z) /\ Lo(t, z) <= Hi(t, z) /\ Hi(t, z) <= Width(t)
              /\ Len(ns[z].records) \in Nat
         /\ \A q \in 1 .. Width(t) : At(t, q) \in 1 .. Len(ns)
  <1>1. /\ ns \in Seq(Node) /\ Len(ns) \in Nat /\ DOMAIN ns = 1 .. Len(ns)
        /\ t.chain \in Seq(DOMAIN ns) /\ r \in DOMAIN ns
        /\ t.hgt \in [DOMAIN ns -> Nat] /\ t.lo \in [DOMAIN ns -> Nat] /\ t.hi \in [DOMAIN ns -> Nat]
    <2>1. ns \in Seq(Node) /\ r \in DOMAIN ns /\ Description(ns, t)
      BY DEF Tree
    <2>2. Len(ns) \in Nat /\ DOMAIN ns = 1 .. Len(ns)
      BY <2>1, LenProperties
    <2> QED
      BY <2>1, <2>2, Zenon DEF Description
  <1>2. /\ Width(t) \in Nat
        /\ \A q \in 1 .. Width(t) : At(t, q) \in DOMAIN ns
    BY <1>1, LenProperties, ElementOfSeq DEF Width, At
  <1>3. ASSUME NEW z \in 1 .. Len(ns)
        PROVE  ns[z] \in Node /\ ns[z].leaf \in BOOLEAN /\ Len(ns[z].records) \in Nat
    <2>1. ns[z] \in Node
      BY <1>1
    <2>2. ns[z].leaf \in BOOLEAN /\ ns[z].records \in Seq(Record)
      BY <2>1 DEF Node
    <2> QED
      BY <2>1, <2>2, LenProperties
  <1>4. \A z \in 1 .. Len(ns) : Hgt(t, z) \in Nat /\ Lo(t, z) \in Nat /\ Hi(t, z) \in Nat
    BY <1>1 DEF Hgt, Lo, Hi
  <1>5. \A z \in 1 .. Len(ns) : 1 <= Lo(t, z) /\ Lo(t, z) <= Hi(t, z) /\ Hi(t, z) <= Width(t)
    BY <1>1 DEF Tree
  <1> QED
    BY <1>1, <1>2, <1>3, <1>4, <1>5

\* The same of one node.
LEMMA Placed ==
  ASSUME NEW ns, NEW r, NEW t, Tree(ns, r, t), NEW z \in DOMAIN ns
  PROVE  /\ Hgt(t, z) \in Nat /\ Lo(t, z) \in Nat /\ Hi(t, z) \in Nat
         /\ 1 <= Lo(t, z) /\ Lo(t, z) <= Hi(t, z) /\ Hi(t, z) <= Width(t)
         /\ z \in 1 .. Len(ns)
  BY Described

\* What it says of an inner node and its children.
LEMMA Family ==
  ASSUME NEW ns, NEW r, NEW t, Tree(ns, r, t), NEW x \in DOMAIN ns, ~ns[x].leaf
  PROVE  LET c == ns[x].children
         IN  /\ Len(ns[x].records) \in Nat /\ Len(c) = Len(ns[x].records) /\ Len(c) >= 1
             /\ Hgt(t, x) >= 1
             /\ \A i \in 1 .. Len(c) : c[i] \in DOMAIN ns /\ Hgt(t, c[i]) = Hgt(t, x) - 1
             /\ Lo(t, c[1]) = Lo(t, x) /\ Hi(t, c[Len(c)]) = Hi(t, x)
             /\ \A i \in 1 .. Len(c) - 1 : Lo(t, c[i + 1]) = Hi(t, c[i]) + 1
  <1>1. Parent(ns, t, x)
    BY DEF Tree
  <1>2. Len(ns[x].records) \in Nat
    BY Described
  <1> QED
    BY <1>1, <1>2 DEF Parent

\* The children of a node stand from left to right, within it.
LEMMA ChildOrder ==
  ASSUME NEW ns, NEW r, NEW t, Tree(ns, r, t), NEW x \in DOMAIN ns, ~ns[x].leaf
  PROVE  LET c == ns[x].children
         IN  /\ \A j, k \in 1 .. Len(c) : j < k => Hi(t, c[j]) < Lo(t, c[k])
             /\ \A j \in 1 .. Len(c) : Lo(t, x) <= Lo(t, c[j]) /\ Hi(t, c[j]) <= Hi(t, x)
  <1> DEFINE c == ns[x].children  n == Len(c)
             S == { d \in Nat : \A j, k \in 1 .. n : k = j + d + 1 => Hi(t, c[j]) < Lo(t, c[k]) }
  <1>1. /\ n \in Nat /\ n >= 1
        /\ Lo(t, c[1]) = Lo(t, x) /\ Hi(t, c[n]) = Hi(t, x)
        /\ \A i \in 1 .. n - 1 : Lo(t, c[i + 1]) = Hi(t, c[i]) + 1
    BY Family
  <1>2. \A i \in 1 .. n : Lo(t, c[i]) \in Nat /\ Hi(t, c[i]) \in Nat /\ Lo(t, c[i]) <= Hi(t, c[i])
    <2>1. \A i \in 1 .. n : c[i] \in DOMAIN ns
      BY Family
    <2> HIDE DEF c, n
    <2> QED
      BY <2>1, Described
  <1>3. Lo(t, x) \in Nat /\ Hi(t, x) \in Nat
    BY Described
  <1> HIDE DEF c, n
  <1>4. 0 \in S
    <2>1. ASSUME NEW j \in 1 .. n, NEW k \in 1 .. n, k = j + 0 + 1
          PROVE  Hi(t, c[j]) < Lo(t, c[k])
      <3>1. j \in 1 .. n - 1 /\ k = j + 1
        BY <1>1, <2>1
      <3> QED
        BY <1>1, <1>2, <3>1
    <2> QED
      BY <2>1
  <1>5. ASSUME NEW d \in Nat, d \in S
        PROVE  d + 1 \in S
    <2>1. ASSUME NEW j \in 1 .. n, NEW k \in 1 .. n, k = j + (d + 1) + 1
          PROVE  Hi(t, c[j]) < Lo(t, c[k])
      <3>1. k - 1 \in 1 .. n - 1 /\ k - 1 \in 1 .. n /\ (k - 1) + 1 = k /\ k - 1 = j + d + 1
        BY <1>1, <2>1
      <3>2. Hi(t, c[j]) < Lo(t, c[k - 1])
        BY <1>5, <3>1
      <3>3. Lo(t, c[k]) = Hi(t, c[k - 1]) + 1
        BY <1>1, <3>1
      <3> QED
        BY <1>2, <3>1, <3>2, <3>3
    <2> QED
      BY <2>1
  <1>6. Nat \subseteq S
    <2> HIDE DEF S
    <2> QED
      BY <1>4, <1>5, SetInduction
  <1>7. ASSUME NEW j \in 1 .. n, NEW k \in 1 .. n, j < k
        PROVE  Hi(t, c[j]) < Lo(t, c[k])
    <2>1. k - j - 1 \in Nat /\ k = j + (k - j - 1) + 1
      BY <1>1, <1>7
    <2>2. k - j - 1 \in S
      BY <1>6, <2>1
    <2> QED
      BY <2>1, <2>2
  <1>8. ASSUME NEW j \in 1 .. n
        PROVE  Lo(t, x) <= Lo(t, c[j]) /\ Hi(t, c[j]) <= Hi(t, x)
    <2>1. 1 \in 1 .. n /\ n \in 1 .. n
      BY <1>1
    <2>2. j = 1 \/ Hi(t, c[1]) < Lo(t, c[j])
      BY <1>1, <1>7, <2>1
    <2>3. j = n \/ Hi(t, c[j]) < Lo(t, c[n])
      BY <1>1, <1>7, <2>1
    <2> QED
      BY <1>1, <1>2, <1>3, <2>1, <2>2, <2>3
  <1> QED
    BY <1>7, <1>8 DEF c, n

\* Every leaf below an inner node is below one of its children.
LEMMA ChildCover ==
  ASSUME NEW ns, NEW r, NEW t, Tree(ns, r, t), NEW x \in DOMAIN ns, ~ns[x].leaf,
         NEW p \in Lo(t, x) .. Hi(t, x)
  PROVE  \E j \in 1 .. Len(ns[x].children) :
           Lo(t, ns[x].children[j]) <= p /\ p <= Hi(t, ns[x].children[j])
  <1> DEFINE c == ns[x].children  n == Len(c)
             Covered == \E j \in 1 .. n : Lo(t, c[j]) <= p /\ p <= Hi(t, c[j])
             S == { d \in Nat : d + 1 <= n /\ p <= Hi(t, c[d + 1]) => Covered }
  <1>1. /\ n \in Nat /\ n >= 1
        /\ Lo(t, c[1]) = Lo(t, x) /\ Hi(t, c[n]) = Hi(t, x)
        /\ \A i \in 1 .. n - 1 : Lo(t, c[i + 1]) = Hi(t, c[i]) + 1
    BY Family
  <1>2. \A i \in 1 .. n : Lo(t, c[i]) \in Nat /\ Hi(t, c[i]) \in Nat
    <2>1. \A i \in 1 .. n : c[i] \in DOMAIN ns
      BY Family
    <2> HIDE DEF c, n
    <2> QED
      BY <2>1, Described
  <1>3. Lo(t, x) \in Nat /\ Hi(t, x) \in Nat /\ p \in Nat /\ Lo(t, x) <= p /\ p <= Hi(t, x)
    BY Described
  <1> HIDE DEF c, n
  <1>4. 0 \in S
    <2>1. 0 + 1 = 1 /\ 1 \in 1 .. n
      BY <1>1
    <2> QED
      BY <1>1, <1>3, <2>1
  <1>5. ASSUME NEW d \in Nat, d \in S
        PROVE  d + 1 \in S
    <2> SUFFICES ASSUME (d + 1) + 1 <= n, p <= Hi(t, c[(d + 1) + 1])
                 PROVE  Covered
      OBVIOUS
    <2>1. d + 1 \in 1 .. n - 1 /\ d + 1 \in 1 .. n /\ (d + 1) + 1 \in 1 .. n
      BY <1>1
    <2>2. Lo(t, c[(d + 1) + 1]) = Hi(t, c[d + 1]) + 1
      BY <1>1, <2>1
    <2>3. CASE p <= Hi(t, c[d + 1])
      BY <1>1, <1>5, <2>1, <2>3
    <2>4. CASE ~(p <= Hi(t, c[d + 1]))
      <3>1. Lo(t, c[(d + 1) + 1]) <= p
        BY <1>2, <1>3, <2>1, <2>2, <2>4
      <3> QED
        BY <2>1, <3>1
    <2> QED
      BY <2>3, <2>4
  <1>6. Nat \subseteq S
    <2> HIDE DEF S
    <2> QED
      BY <1>4, <1>5, SetInduction
  <1>7. n - 1 \in Nat /\ (n - 1) + 1 = n
    BY <1>1
  <1>8. n - 1 \in S
    BY <1>6, <1>7
  <1>9. Covered
    BY <1>1, <1>3, <1>7, <1>8
  <1> QED
    BY <1>9 DEF c, n

\* A node has no more than one parent, and is but one of its children.
LEMMA OneParent ==
  ASSUME NEW ns, NEW r, NEW t, Tree(ns, r, t), NEW x \in DOMAIN ns, ~ns[x].leaf,
         NEW z \in DOMAIN ns, ~ns[z].leaf,
         NEW i \in 1 .. Len(ns[x].children), NEW j \in 1 .. Len(ns[z].children),
         ns[x].children[i] = ns[z].children[j]
  PROVE  x = z /\ i = j
  <1> DEFINE y == ns[x].children[i]
  <1>1. /\ Lo(t, x) <= Lo(t, y) /\ Hi(t, y) <= Hi(t, x) /\ Lo(t, z) <= Lo(t, y) /\ Hi(t, y) <= Hi(t, z)
    BY ChildOrder
  <1>2. y \in DOMAIN ns /\ Hgt(t, y) = Hgt(t, x) - 1 /\ Hgt(t, y) = Hgt(t, z) - 1
    BY Family
  <1>3. /\ Lo(t, y) <= Hi(t, y) /\ Lo(t, y) \in Nat /\ Hi(t, y) \in Nat
        /\ Lo(t, x) \in Nat /\ Hi(t, x) \in Nat /\ Lo(t, z) \in Nat /\ Hi(t, z) \in Nat
        /\ Hgt(t, x) \in Nat /\ Hgt(t, z) \in Nat /\ Hgt(t, y) \in Nat
    <2>1. y \in DOMAIN ns
      BY <1>2
    <2> HIDE DEF y
    <2> QED
      BY <2>1, Placed
  <1> HIDE DEF y
  <1>4. Hgt(t, x) = Hgt(t, z) /\ Lo(t, x) <= Hi(t, z) /\ Lo(t, z) <= Hi(t, x)
    <2>1. Hgt(t, x) = Hgt(t, z)
      BY <1>2, <1>3
    <2>2. Lo(t, x) <= Hi(t, z)
      BY <1>1, <1>3
    <2>3. Lo(t, z) <= Hi(t, x)
      BY <1>1, <1>3
    <2> QED
      BY <2>1, <2>2, <2>3
  <1>5. x = z
    BY <1>4 DEF Tree
  <1>6. Len(ns[x].children) \in Nat
    BY Family
  <1>7. i = j
    <2>1. \A k, l \in 1 .. Len(ns[x].children) : k < l => Hi(t, ns[x].children[k]) < Lo(t, ns[x].children[l])
      BY ChildOrder
    <2>2. j \in 1 .. Len(ns[x].children) /\ ns[x].children[j] = y /\ ns[x].children[i] = y
      BY <1>5 DEF y
    <2>3. ~(i < j)
      <3>1. i < j => Hi(t, y) < Lo(t, y)
        BY <2>1, <2>2
      <3> QED
        BY <1>3, <3>1
    <2>4. ~(j < i)
      <3>1. j < i => Hi(t, y) < Lo(t, y)
        BY <2>1, <2>2
      <3> QED
        BY <1>3, <3>1
    <2> QED
      BY <1>6, <2>2, <2>3, <2>4
  <1> QED
    BY <1>5, <1>7

---------------------------------------------------------------------------
(* The tree after a split.                                                 *)

\* ms is the tree ns with y, the i-th child of x, split behind its m-th record.
Parting(ns, ms, r, t, x, i, y, m) ==
  /\ Tree(ns, r, t) /\ x \in DOMAIN ns /\ ~ns[x].leaf
  /\ i \in 1 .. Len(ns[x].records) /\ y = ns[x].children[i]
  /\ m \in 1 .. Len(ns[y].records) - 1
  /\ IsSplit(ns, ms, x, i, y, Len(ns) + 1, m)

\* A place before and after a leaf is put behind the p-th.
FirstMoved(p, v) == IF v > p THEN v + 1 ELSE v
LastMoved(p, v) == IF v >= p THEN v + 1 ELSE v

\* u describes the tree after the split: of the leaves below y, the left half keeps
\* those up to c.  A split leaf moves those behind it by one; an inner node none, as
\* if the new leaf came behind them all.
Cut(ns, t, u, y, m, p, c, s) ==
  LET f == Len(ns) + 1
  IN  /\ u.chain \in Seq(1 .. f) /\ u.sep \in [Nat -> Int]
      /\ u.hgt \in [1 .. f -> Nat] /\ u.lo \in [1 .. f -> Nat] /\ u.hi \in [1 .. f -> Nat]
      /\ \A z \in 1 .. Len(ns) : Hgt(u, z) = Hgt(t, z) /\ Lo(u, z) = FirstMoved(p, Lo(t, z))
      /\ \A z \in 1 .. Len(ns) : z # y => Hi(u, z) = LastMoved(p, Hi(t, z))
      /\ Hi(u, y) = c
      /\ Hgt(u, f) = Hgt(t, y) /\ Lo(u, f) = c + 1 /\ Hi(u, f) = LastMoved(p, Hi(t, y))
      /\ p \in Nat /\ p >= 1 /\ c \in Nat
      /\ IF ns[y].leaf
         THEN /\ p = Lo(t, y) /\ c = p /\ Width(u) = Width(t) + 1
              /\ \A q \in 1 .. Width(u) :
                   At(u, q) = IF q <= p THEN At(t, q) ELSE IF q = p + 1 THEN f ELSE At(t, q - 1)
              /\ \A b \in 2 .. Width(u) :
                   Sep(u, b) = IF b <= p THEN Sep(t, b) ELSE IF b = p + 1 THEN s ELSE Sep(t, b - 1)
         ELSE /\ p = Width(t) + 1 /\ c = Hi(t, ns[y].children[m]) /\ Width(u) = Width(t)
              /\ \A q \in 1 .. Width(u) : At(u, q) = At(t, q)
              /\ \A b \in 2 .. Width(u) : Sep(u, b) = Sep(t, b)

\* What a split is about.
LEMMA PartingOf ==
  ASSUME NEW ns, NEW ms, NEW r, NEW t, NEW x, NEW i, NEW y, NEW m,
         Parting(ns, ms, r, t, x, i, y, m)
  PROVE  /\ Len(ns) \in Nat /\ DOMAIN ns = 1 .. Len(ns) /\ DOMAIN ms = 1 .. Len(ns) + 1
         /\ x \in DOMAIN ns /\ y \in DOMAIN ns /\ x # y /\ r # y /\ r \in DOMAIN ns
         /\ Hgt(t, x) = Hgt(t, y) + 1
         /\ Len(ns[x].records) \in Nat /\ i \in 1 .. Len(ns[x].records)
         /\ Len(ns[x].children) = Len(ns[x].records)
         /\ Len(ns[y].records) \in Nat /\ m \in 1 .. Len(ns[y].records) - 1
         /\ Len(ms) = Len(ns) + 1
         /\ \A z \in 1 .. Len(ns) : ms[z].leaf = ns[z].leaf
         /\ ms[Len(ns) + 1].leaf = ns[y].leaf
  <1>1. Tree(ns, r, t) /\ x \in DOMAIN ns /\ ~ns[x].leaf
    BY DEF Parting
  <1>2. i \in 1 .. Len(ns[x].records) /\ y = ns[x].children[i] /\ m \in 1 .. Len(ns[y].records) - 1
    BY DEF Parting
  <1>3. Len(ns) \in Nat /\ DOMAIN ns = 1 .. Len(ns) /\ r \in DOMAIN ns
    BY <1>1, Described
  <1>4. /\ Len(ns[x].records) \in Nat /\ Len(ns[x].children) = Len(ns[x].records)
        /\ \A j \in 1 .. Len(ns[x].children) :
             ns[x].children[j] \in DOMAIN ns /\ Hgt(t, ns[x].children[j]) = Hgt(t, x) - 1
    BY <1>1, Family
  <1>5. y \in DOMAIN ns /\ Hgt(t, y) = Hgt(t, x) - 1
    BY <1>2, <1>4
  <1>6. Hgt(t, x) \in Nat /\ Hgt(t, y) \in Nat /\ Hgt(t, x) <= Hgt(t, r) /\ Hgt(t, r) \in Nat
    BY <1>1, <1>3, <1>5, Placed DEF Tree
  <1>7. x # y /\ r # y /\ Hgt(t, x) = Hgt(t, y) + 1
    BY <1>5, <1>6
  <1>8. Len(ns[y].records) \in Nat
    BY <1>1, <1>3, <1>5, Described
  <1>9. /\ Len(ms) = Len(ns) + 1 /\ DOMAIN ms = 1 .. Len(ns) + 1
        /\ ms[Len(ns) + 1].leaf = ns[y].leaf
        /\ \A z \in 1 .. Len(ns) : ms[z].leaf = ns[z].leaf
    <2>1. IsSplit(ns, ms, x, i, y, Len(ns) + 1, m)
      BY DEF Parting
    <2>2. ms \in Seq(Node) /\ Len(ms) = Len(ns) + 1
      BY <2>1 DEF IsSplit
    <2>3. /\ \A z \in 1 .. Len(ns) : z # x /\ z # y => ms[z] = ns[z]
          /\ ms[x].leaf = ns[x].leaf /\ ms[y].leaf = ns[y].leaf /\ ms[Len(ns) + 1].leaf = ns[y].leaf
      BY <2>1 DEF IsSplit, Left, Right, Above
    <2>4. DOMAIN ms = 1 .. Len(ms)
      BY <2>2, LenProperties
    <2> QED
      BY <2>2, <2>3, <2>4
  <1> QED
    BY <1>1, <1>2, <1>3, <1>4, <1>5, <1>7, <1>8, <1>9

\* In the tree after a split every node has its leaves, and no node is empty.
LEMMA CutPlaces ==
  ASSUME NEW ns, NEW ms, NEW r, NEW t, NEW x, NEW i, NEW y, NEW m,
         Parting(ns, ms, r, t, x, i, y, m),
         NEW u, NEW p, NEW c, NEW s, Cut(ns, t, u, y, m, p, c, s)
  PROVE  /\ Description(ms, u)
         /\ \A z \in DOMAIN ms : 1 <= Lo(u, z) /\ Lo(u, z) <= Hi(u, z) /\ Hi(u, z) <= Width(u)
         /\ Lo(u, y) <= c /\ c + 1 <= LastMoved(p, Hi(t, y))
         /\ Lo(u, r) = 1 /\ Hi(u, r) = Width(u)
         /\ \A z \in DOMAIN ms : Hgt(u, z) <= Hgt(u, r)
  <1> DEFINE f == Len(ns) + 1
  <1>1. /\ Len(ns) \in Nat /\ DOMAIN ns = 1 .. Len(ns) /\ DOMAIN ms = 1 .. f
        /\ x \in DOMAIN ns /\ y \in DOMAIN ns /\ x # y /\ r # y /\ r \in DOMAIN ns
        /\ m \in 1 .. Len(ns[y].records) - 1 /\ Len(ns[y].records) \in Nat
    BY PartingOf
  <1>2. Tree(ns, r, t)
    BY DEF Parting
  <1>3. Width(t) \in Nat /\ Lo(t, r) = 1 /\ Hi(t, r) = Width(t)
    BY <1>2, Described DEF Tree
  <1>4. \A z \in 1 .. Len(ns) : /\ Hgt(t, z) \in Nat /\ Lo(t, z) \in Nat /\ Hi(t, z) \in Nat
                                /\ 1 <= Lo(t, z) /\ Lo(t, z) <= Hi(t, z) /\ Hi(t, z) <= Width(t)
                                /\ Hgt(t, z) <= Hgt(t, r)
    BY <1>1, <1>2, Placed DEF Tree
  <1>a. /\ y \in 1 .. Len(ns) /\ r \in 1 .. Len(ns)
        /\ Hgt(t, y) \in Nat /\ Lo(t, y) \in Nat /\ Hi(t, y) \in Nat
        /\ 1 <= Lo(t, y) /\ Lo(t, y) <= Hi(t, y) /\ Hi(t, y) <= Width(t)
    BY <1>1, <1>4
  <1>5. Description(ms, u)
    BY <1>1 DEF Cut, Description
  <1>6. /\ \A z \in 1 .. Len(ns) : Hgt(u, z) = Hgt(t, z) /\ Lo(u, z) = FirstMoved(p, Lo(t, z))
        /\ \A z \in 1 .. Len(ns) : z # y => Hi(u, z) = LastMoved(p, Hi(t, z))
        /\ Hi(u, y) = c /\ Hgt(u, f) = Hgt(t, y) /\ Lo(u, f) = c + 1 /\ Hi(u, f) = LastMoved(p, Hi(t, y))
        /\ p \in Nat /\ p >= 1 /\ c \in Nat
    BY DEF Cut
  <1>b. /\ Lo(u, y) = FirstMoved(p, Lo(t, y)) /\ Lo(u, r) = FirstMoved(p, Lo(t, r))
        /\ Hi(u, r) = LastMoved(p, Hi(t, r))
    BY <1>1, <1>a, <1>6
  <1>c. /\ \A z \in 1 .. Len(ns) : Hgt(u, z) <= Hgt(u, r)
        /\ Hgt(u, f) <= Hgt(u, r)
    BY <1>4, <1>6, <1>a
  <1>d. \A z \in DOMAIN ms : z \in 1 .. Len(ns) \/ z = f
    BY <1>1
  <1>7. CASE ns[y].leaf
    <2>1. p = Lo(t, y) /\ c = p /\ Width(u) = Width(t) + 1
      BY <1>7 DEF Cut
    <2>2. Hi(t, y) = Lo(t, y)
      BY <1>1, <1>2, <1>7 DEF Tree, InChain
    <2>3. Lo(u, y) <= c /\ c + 1 <= LastMoved(p, Hi(t, y)) /\ LastMoved(p, Hi(t, y)) <= Width(u)
      BY <1>a, <1>b, <1>3, <2>1, <2>2 DEF FirstMoved, LastMoved
    <2>4. \A z \in 1 .. Len(ns) : 1 <= Lo(u, z) /\ Lo(u, z) <= Hi(u, z) /\ Hi(u, z) <= Width(u)
      <3> SUFFICES ASSUME NEW z \in 1 .. Len(ns)
                   PROVE  1 <= Lo(u, z) /\ Lo(u, z) <= Hi(u, z) /\ Hi(u, z) <= Width(u)
        OBVIOUS
      <3>1. CASE z = y
        BY <1>a, <1>b, <1>3, <1>6, <2>1, <2>2, <3>1 DEF FirstMoved, LastMoved
      <3>2. CASE z # y
        BY <1>3, <1>4, <1>6, <2>1, <3>2, SMTT(30) DEF FirstMoved, LastMoved
      <3> QED
        BY <3>1, <3>2
    <2>5. Lo(u, r) = 1 /\ Hi(u, r) = Width(u)
      BY <1>a, <1>b, <1>3, <2>1 DEF FirstMoved, LastMoved
    <2>6. 1 <= Lo(u, f) /\ Lo(u, f) <= Hi(u, f) /\ Hi(u, f) <= Width(u)
      BY <1>6, <2>3
    <2> QED
      BY <1>5, <1>c, <1>d, <2>3, <2>4, <2>5, <2>6
  <1>8. CASE ~ns[y].leaf
    <2> DEFINE e == ns[y].children[m]  g == ns[y].children[m + 1]
    <2>1. p = Width(t) + 1 /\ c = Hi(t, e) /\ Width(u) = Width(t)
      BY <1>8 DEF Cut
    <2>2. /\ Lo(t, g) = Hi(t, e) + 1 /\ e \in DOMAIN ns /\ g \in DOMAIN ns
          /\ Lo(t, y) <= Lo(t, e) /\ Hi(t, g) <= Hi(t, y)
      <3>1. Len(ns[y].children) = Len(ns[y].records)
        BY <1>1, <1>2, <1>8, Family
      <3>2. m \in 1 .. Len(ns[y].children) - 1 /\ m \in 1 .. Len(ns[y].children) /\ m + 1 \in 1 .. Len(ns[y].children)
        BY <1>1, <3>1
      <3>3. /\ Lo(t, g) = Hi(t, e) + 1 /\ e \in DOMAIN ns /\ g \in DOMAIN ns
        <4> DEFINE h == ns[y].children
        <4>1. /\ \A j \in 1 .. Len(h) : h[j] \in DOMAIN ns
              /\ \A j \in 1 .. Len(h) - 1 : Lo(t, h[j + 1]) = Hi(t, h[j]) + 1
          <5>1. y \in DOMAIN ns
            BY <1>1
          <5> QED
            BY <5>1, <1>2, <1>8, Family
        <4> QED
          BY <3>2, <4>1
      <3>4. Lo(t, y) <= Lo(t, e) /\ Hi(t, g) <= Hi(t, y)
        BY <1>1, <1>2, <1>8, <3>2, ChildOrder
      <3> QED
        BY <3>3, <3>4
    <2> HIDE DEF e, g
    <2>3. Lo(t, y) <= c /\ c + 1 <= Hi(t, y)
      <3>1. /\ Lo(t, e) \in Nat /\ Hi(t, e) \in Nat /\ Lo(t, e) <= Hi(t, e)
            /\ Lo(t, g) \in Nat /\ Hi(t, g) \in Nat /\ Lo(t, g) <= Hi(t, g)
        BY <1>2, <2>2, Placed
      <3> QED
        BY <1>a, <2>1, <2>2, <3>1
    <2>4. \A z \in 1 .. Len(ns) : LastMoved(p, Hi(t, z)) = Hi(t, z) /\ FirstMoved(p, Lo(t, z)) = Lo(t, z)
      BY <1>3, <1>4, <2>1 DEF FirstMoved, LastMoved
    <2>5. \A z \in 1 .. Len(ns) : 1 <= Lo(u, z) /\ Lo(u, z) <= Hi(u, z) /\ Hi(u, z) <= Width(u)
      <3> SUFFICES ASSUME NEW z \in 1 .. Len(ns)
                   PROVE  1 <= Lo(u, z) /\ Lo(u, z) <= Hi(u, z) /\ Hi(u, z) <= Width(u)
        OBVIOUS
      <3>1. CASE z = y
        BY <1>a, <1>b, <1>3, <1>6, <2>1, <2>3, <2>4, <3>1
      <3>2. CASE z # y
        BY <1>3, <1>4, <1>6, <2>1, <2>4, <3>2
      <3> QED
        BY <3>1, <3>2
    <2>6. Lo(u, r) = 1 /\ Hi(u, r) = Width(u)
      BY <1>a, <1>b, <1>3, <2>1, <2>4
    <2>7. 1 <= Lo(u, f) /\ Lo(u, f) <= Hi(u, f) /\ Hi(u, f) <= Width(u)
      BY <1>a, <1>3, <1>6, <2>1, <2>3, <2>4
    <2>8. Lo(u, y) <= c /\ c + 1 <= LastMoved(p, Hi(t, y))
      BY <1>a, <1>b, <2>3, <2>4
    <2> QED
      BY <1>5, <1>c, <1>d, <2>5, <2>6, <2>7, <2>8
  <1> QED
    BY <1>7, <1>8

\* Moving keeps apart what is apart and together what is together.
LEMMA Moving ==
  ASSUME NEW p \in Nat, NEW v \in Nat, NEW w \in Nat
  PROVE  /\ FirstMoved(p, v) <= LastMoved(p, w) => v <= w
         /\ FirstMoved(p, v + 1) = LastMoved(p, v) + 1
         /\ v # p => FirstMoved(p, v) = LastMoved(p, v)
         /\ FirstMoved(p, v) \in Nat /\ LastMoved(p, w) \in Nat
  BY DEF FirstMoved, LastMoved

\* After a split, no two nodes of one height have a leaf in common.
LEMMA CutApart ==
  ASSUME NEW ns, NEW ms, NEW r, NEW t, NEW x, NEW i, NEW y, NEW m,
         Parting(ns, ms, r, t, x, i, y, m),
         NEW u, NEW p, NEW c, NEW s, Cut(ns, t, u, y, m, p, c, s),
         NEW a \in DOMAIN ms, NEW b \in DOMAIN ms,
         Hgt(u, a) = Hgt(u, b), Lo(u, a) <= Hi(u, b), Lo(u, b) <= Hi(u, a)
  PROVE  a = b
  <1> DEFINE f == Len(ns) + 1
             Old(z) == IF z = f THEN y ELSE z
  <1>1. /\ Len(ns) \in Nat /\ DOMAIN ns = 1 .. Len(ns) /\ DOMAIN ms = 1 .. f
        /\ y \in 1 .. Len(ns)
    BY PartingOf
  <1>2. Tree(ns, r, t)
    BY DEF Parting
  <1>3. \A z \in 1 .. Len(ns) : /\ Hgt(t, z) \in Nat /\ Lo(t, z) \in Nat /\ Hi(t, z) \in Nat
    BY <1>1, <1>2, Placed
  <1>4. /\ \A z \in 1 .. Len(ns) : Hgt(u, z) = Hgt(t, z) /\ Lo(u, z) = FirstMoved(p, Lo(t, z))
        /\ \A z \in 1 .. Len(ns) : z # y => Hi(u, z) = LastMoved(p, Hi(t, z))
        /\ Hi(u, y) = c /\ Hgt(u, f) = Hgt(t, y) /\ Lo(u, f) = c + 1 /\ Hi(u, f) = LastMoved(p, Hi(t, y))
        /\ p \in Nat /\ p >= 1 /\ c \in Nat
    BY DEF Cut
  <1>5. Lo(u, y) <= c /\ c + 1 <= LastMoved(p, Hi(t, y))
    BY CutPlaces
  <1>6. ASSUME NEW z \in DOMAIN ms
        PROVE  /\ Old(z) \in 1 .. Len(ns) /\ Hgt(u, z) = Hgt(t, Old(z))
               /\ FirstMoved(p, Lo(t, Old(z))) <= Lo(u, z) /\ Hi(u, z) <= LastMoved(p, Hi(t, Old(z)))
               /\ Lo(u, z) \in Nat /\ Hi(u, z) \in Nat
               /\ FirstMoved(p, Lo(t, Old(z))) \in Nat /\ LastMoved(p, Hi(t, Old(z))) \in Nat
    <2>1. CASE z = f
      <3>1. Old(z) = y
        BY <2>1
      <3>2. /\ FirstMoved(p, Lo(t, y)) \in Nat /\ LastMoved(p, Hi(t, y)) \in Nat
            /\ Lo(u, y) = FirstMoved(p, Lo(t, y))
        BY <1>1, <1>3, <1>4, Moving
      <3> HIDE DEF Old, f
      <3> QED
        BY <1>1, <1>4, <1>5, <2>1, <3>1, <3>2
    <2>2. CASE z # f
      <3>1. Old(z) = z /\ z \in 1 .. Len(ns)
        BY <1>1, <2>2
      <3>2. FirstMoved(p, Lo(t, z)) \in Nat /\ LastMoved(p, Hi(t, z)) \in Nat
        BY <1>3, <1>4, <3>1, Moving
      <3> HIDE DEF Old, f
      <3>3. CASE z = y
        BY <1>4, <1>5, <3>1, <3>2, <3>3
      <3>4. CASE z # y
        BY <1>4, <3>1, <3>2, <3>4
      <3> QED
        BY <3>3, <3>4
    <2> QED
      BY <2>1, <2>2
  <1> DEFINE d == Old(a)  e == Old(b)
  <1>7. d \in 1 .. Len(ns) /\ e \in 1 .. Len(ns) /\ Hgt(t, d) = Hgt(t, e)
    BY <1>6
  <1>8. /\ FirstMoved(p, Lo(t, d)) <= LastMoved(p, Hi(t, e))
        /\ FirstMoved(p, Lo(t, e)) <= LastMoved(p, Hi(t, d))
    <2>1. /\ FirstMoved(p, Lo(t, d)) <= Lo(u, a) /\ Hi(u, a) <= LastMoved(p, Hi(t, d))
          /\ Lo(u, a) \in Nat /\ Hi(u, a) \in Nat
          /\ FirstMoved(p, Lo(t, d)) \in Nat /\ LastMoved(p, Hi(t, d)) \in Nat
      BY <1>6
    <2>2. /\ FirstMoved(p, Lo(t, e)) <= Lo(u, b) /\ Hi(u, b) <= LastMoved(p, Hi(t, e))
          /\ Lo(u, b) \in Nat /\ Hi(u, b) \in Nat
          /\ FirstMoved(p, Lo(t, e)) \in Nat /\ LastMoved(p, Hi(t, e)) \in Nat
      BY <1>6
    <2> HIDE DEF d, e
    <2> QED
      BY <2>1, <2>2
  <1> HIDE DEF d, e
  <1>9. Lo(t, d) <= Hi(t, e) /\ Lo(t, e) <= Hi(t, d)
    BY <1>3, <1>4, <1>7, <1>8, Moving
  <1>10. d = e
    BY <1>1, <1>2, <1>7, <1>9 DEF Tree
  <1>11. ~(a = f /\ b = y) /\ ~(a = y /\ b = f)
    BY <1>4
  <1> QED
    BY <1>10, <1>11 DEF d, e

\* The chain of leaves after a split.
LEMMA CutChain ==
  ASSUME NEW ns, NEW ms, NEW r, NEW t, NEW x, NEW i, NEW y, NEW m,
         Parting(ns, ms, r, t, x, i, y, m),
         NEW u, NEW p, NEW c, NEW s, Cut(ns, t, u, y, m, p, c, s)
  PROVE  /\ \A z \in DOMAIN ms : ms[z].leaf => InChain(ms, u, z)
         /\ \A q \in 1 .. Width(u) : ms[At(u, q)].leaf /\ Lo(u, At(u, q)) = q
  <1> DEFINE f == Len(ns) + 1
  <1>1. /\ Len(ns) \in Nat /\ DOMAIN ns = 1 .. Len(ns) /\ DOMAIN ms = 1 .. f
        /\ x \in 1 .. Len(ns) /\ y \in 1 .. Len(ns)
        /\ \A z \in 1 .. Len(ns) : ms[z].leaf = ns[z].leaf
        /\ ms[f].leaf = ns[y].leaf
    BY PartingOf
  <1>2. Tree(ns, r, t) /\ ~ns[x].leaf
    BY DEF Parting
  <1>3. /\ Width(t) \in Nat /\ \A q \in 1 .. Width(t) : At(t, q) \in 1 .. Len(ns)
        /\ \A z \in 1 .. Len(ns) : /\ Hgt(t, z) \in Nat /\ Lo(t, z) \in Nat /\ Hi(t, z) \in Nat
                                   /\ 1 <= Lo(t, z) /\ Lo(t, z) <= Hi(t, z) /\ Hi(t, z) <= Width(t)
    BY <1>2, Described
  <1>4. /\ \A z \in 1 .. Len(ns) : Hgt(u, z) = Hgt(t, z) /\ Lo(u, z) = FirstMoved(p, Lo(t, z))
        /\ \A z \in 1 .. Len(ns) : z # y => Hi(u, z) = LastMoved(p, Hi(t, z))
        /\ Hi(u, y) = c /\ Hgt(u, f) = Hgt(t, y) /\ Lo(u, f) = c + 1 /\ Hi(u, f) = LastMoved(p, Hi(t, y))
        /\ p \in Nat /\ p >= 1 /\ c \in Nat
    BY DEF Cut
  <1>5. /\ \A z \in 1 .. Len(ns) : ns[z].leaf =>
             Hgt(t, z) = 0 /\ Hi(t, z) = Lo(t, z) /\ At(t, Lo(t, z)) = z /\ ns[z].children = <<>>
        /\ \A q \in 1 .. Width(t) : ns[At(t, q)].leaf /\ Lo(t, At(t, q)) = q
    BY <1>1, <1>2 DEF Tree, InChain
  <1>6. /\ \A z \in 1 .. Len(ns) : z # x /\ z # y => ms[z] = ns[z]
        /\ ns[y].leaf => ms[y].children = <<>> /\ ms[f].children = <<>>
    BY DEF Parting, IsSplit, Left, Right
  <1> HIDE DEF f
  <1>7. CASE ns[y].leaf
    <2>1. /\ p = Lo(t, y) /\ c = p /\ Width(u) = Width(t) + 1
          /\ \A q \in 1 .. Width(u) :
               At(u, q) = IF q <= p THEN At(t, q) ELSE IF q = p + 1 THEN f ELSE At(t, q - 1)
      BY <1>7 DEF Cut, f
    <2>2. p <= Width(t) /\ At(t, p) = y /\ Hi(t, y) = p
      BY <1>1, <1>3, <1>5, <1>7, <2>1
    <2>a. p \in 1 .. Width(u) /\ p + 1 \in 1 .. Width(u) /\ ~(p + 1 <= p)
      BY <1>3, <1>4, <2>1, <2>2
    <2>b. Width(t) \in Nat /\ p \in Nat /\ p >= 1 /\ p <= Width(t) /\ Width(u) = Width(t) + 1
      BY <1>3, <1>4, <2>1, <2>2
    <2>3. At(u, p) = y /\ At(u, p + 1) = f
      BY <1>4, <2>1, <2>2, <2>a
    <2>4. LastMoved(p, p) = p + 1 /\ FirstMoved(p, p) = p
      BY <1>4 DEF LastMoved, FirstMoved
    <2>5. InChain(ms, u, y) /\ InChain(ms, u, f)
      BY <1>1, <1>4, <1>5, <1>6, <1>7, <2>1, <2>2, <2>3, <2>4 DEF InChain
    <2>6. ASSUME NEW z \in 1 .. Len(ns), ns[z].leaf, z # y
          PROVE  InChain(ms, u, z)
      <3>1. ms[z] = ns[z]
        BY <1>2, <1>6, <2>6
      <3>2. Hgt(t, z) = 0 /\ Hi(t, z) = Lo(t, z) /\ At(t, Lo(t, z)) = z /\ ns[z].children = <<>>
        BY <1>5, <2>6
      <3>3. Lo(t, z) # p
        BY <2>2, <2>6, <3>2
      <3>4. Lo(t, z) \in Nat /\ 1 <= Lo(t, z) /\ Lo(t, z) <= Width(t)
        BY <1>3
      <3>5. At(u, FirstMoved(p, Lo(t, z))) = At(t, Lo(t, z))
        <4>1. CASE Lo(t, z) > p
          <5>1. FirstMoved(p, Lo(t, z)) = Lo(t, z) + 1
            BY <4>1 DEF FirstMoved
          <5>2. Lo(t, z) + 1 \in 1 .. Width(u) /\ ~(Lo(t, z) + 1 <= p) /\ Lo(t, z) + 1 # p + 1 /\ (Lo(t, z) + 1) - 1 = Lo(t, z)
            BY <2>b, <3>4, <4>1
          <5> QED
            BY <2>1, <5>1, <5>2
        <4>2. CASE ~(Lo(t, z) > p)
          <5>1. FirstMoved(p, Lo(t, z)) = Lo(t, z)
            BY <4>2 DEF FirstMoved
          <5>2. Lo(t, z) \in 1 .. Width(u) /\ Lo(t, z) <= p
            BY <2>b, <3>4, <4>2
          <5> QED
            BY <2>1, <5>1, <5>2
        <4> QED
          BY <4>1, <4>2
      <3>6. FirstMoved(p, Lo(t, z)) = LastMoved(p, Lo(t, z))
        BY <1>4, <3>3, <3>4, Moving
      <3> QED
        BY <1>4, <2>6, <3>1, <3>2, <3>5, <3>6 DEF InChain
    <2>7. ASSUME NEW q \in 1 .. Width(u)
          PROVE  ms[At(u, q)].leaf /\ Lo(u, At(u, q)) = q
      <3>1. CASE q <= p
        <4>1. q \in 1 .. Width(t) /\ At(u, q) = At(t, q) /\ q \in Nat
          BY <1>3, <1>4, <2>1, <2>2, <2>7, <3>1
        <4>2. At(t, q) \in 1 .. Len(ns) /\ ns[At(t, q)].leaf /\ Lo(t, At(t, q)) = q
          BY <1>3, <1>5, <4>1
        <4>3. FirstMoved(p, q) = q
          BY <1>4, <3>1, <4>1 DEF FirstMoved
        <4> QED
          BY <1>1, <1>4, <4>1, <4>2, <4>3
      <3>2. CASE q = p + 1
        BY <1>1, <1>4, <1>7, <2>1, <2>3, <3>2
      <3>3. CASE q > p + 1
        <4>1. q - 1 \in 1 .. Width(t) /\ At(u, q) = At(t, q - 1) /\ q - 1 \in Nat
          BY <1>3, <1>4, <2>1, <2>2, <2>7, <3>3
        <4>2. At(t, q - 1) \in 1 .. Len(ns) /\ ns[At(t, q - 1)].leaf /\ Lo(t, At(t, q - 1)) = q - 1
          BY <1>3, <1>5, <4>1
        <4>3. FirstMoved(p, q - 1) = q
          BY <1>4, <3>3, <4>1 DEF FirstMoved
        <4> QED
          BY <1>1, <1>4, <4>1, <4>2, <4>3
      <3> QED
        BY <1>4, <3>1, <3>2, <3>3
    <2>8. \A z \in DOMAIN ms : z \in 1 .. Len(ns) \/ z = f
      BY <1>1 DEF f
    <2> QED
      BY <1>1, <2>5, <2>6, <2>7, <2>8
  <1>8. CASE ~ns[y].leaf
    <2>1. /\ p = Width(t) + 1 /\ Width(u) = Width(t)
          /\ \A q \in 1 .. Width(u) : At(u, q) = At(t, q)
      BY <1>8 DEF Cut
    <2>2. \A z \in 1 .. Len(ns) : LastMoved(p, Hi(t, z)) = Hi(t, z) /\ FirstMoved(p, Lo(t, z)) = Lo(t, z)
      BY <1>3, <2>1 DEF FirstMoved, LastMoved
    <2>3. ASSUME NEW z \in DOMAIN ms, ms[z].leaf
          PROVE  InChain(ms, u, z)
      <3>1. z \in 1 .. Len(ns) /\ z # x /\ z # y /\ ns[z].leaf
        BY <1>1, <1>2, <1>8, <2>3 DEF f
      <3>2. ms[z] = ns[z]
        BY <1>6, <3>1
      <3>3. Hgt(t, z) = 0 /\ Hi(t, z) = Lo(t, z) /\ At(t, Lo(t, z)) = z /\ ns[z].children = <<>>
        BY <1>5, <3>1
      <3>4. Lo(t, z) \in 1 .. Width(u)
        BY <1>3, <2>1, <3>1
      <3> QED
        BY <1>4, <2>1, <2>2, <3>1, <3>2, <3>3, <3>4 DEF InChain
    <2>4. ASSUME NEW q \in 1 .. Width(u)
          PROVE  ms[At(u, q)].leaf /\ Lo(u, At(u, q)) = q
      BY <1>1, <1>3, <1>4, <1>5, <2>1, <2>2, <2>4
    <2> QED
      BY <2>3, <2>4
  <1> QED
    BY <1>7, <1>8

\* What the description of the tree after a split says of the old nodes.
LEMMA CutSays ==
  ASSUME NEW ns, NEW ms, NEW r, NEW t, NEW x, NEW i, NEW y, NEW m,
         Parting(ns, ms, r, t, x, i, y, m),
         NEW u, NEW p, NEW c, NEW s, Cut(ns, t, u, y, m, p, c, s)
  PROVE  LET f == Len(ns) + 1
         IN  /\ \A z \in 1 .. Len(ns) : /\ Hgt(u, z) = Hgt(t, z) /\ Hgt(u, z) \in Nat
                                        /\ Lo(u, z) = FirstMoved(p, Lo(t, z)) /\ Lo(u, z) \in Nat
             /\ \A z \in 1 .. Len(ns) : z # y => Hi(u, z) = LastMoved(p, Hi(t, z)) /\ Hi(u, z) \in Nat
             /\ Hi(u, y) = c /\ Hgt(u, f) = Hgt(t, y) /\ Lo(u, f) = c + 1
             /\ Hi(u, f) = LastMoved(p, Hi(t, y)) /\ Hi(u, f) \in Nat
             /\ p \in Nat /\ p >= 1 /\ c \in Nat /\ f \in Nat
             /\ \A a, b \in 1 .. Len(ns) :
                  Lo(t, b) = Hi(t, a) + 1 => /\ a # y => Lo(u, b) = Hi(u, a) + 1
                                             /\ a = y => Lo(u, b) = Hi(u, f) + 1
  <1> DEFINE f == Len(ns) + 1
  <1>1. Len(ns) \in Nat /\ DOMAIN ns = 1 .. Len(ns) /\ y \in 1 .. Len(ns)
    BY PartingOf
  <1>2. Tree(ns, r, t)
    BY DEF Parting
  <1>3. \A z \in 1 .. Len(ns) : Hgt(t, z) \in Nat /\ Lo(t, z) \in Nat /\ Hi(t, z) \in Nat
    BY <1>1, <1>2, Placed
  <1>4. /\ \A z \in 1 .. Len(ns) : Hgt(u, z) = Hgt(t, z) /\ Lo(u, z) = FirstMoved(p, Lo(t, z))
        /\ \A z \in 1 .. Len(ns) : z # y => Hi(u, z) = LastMoved(p, Hi(t, z))
        /\ Hi(u, y) = c /\ Hgt(u, f) = Hgt(t, y) /\ Lo(u, f) = c + 1 /\ Hi(u, f) = LastMoved(p, Hi(t, y))
        /\ p \in Nat /\ p >= 1 /\ c \in Nat
    BY DEF Cut
  <1> HIDE DEF f
  <1>5. \A z \in 1 .. Len(ns) : FirstMoved(p, Lo(t, z)) \in Nat /\ LastMoved(p, Hi(t, z)) \in Nat
    BY <1>3, <1>4, Moving
  <1>6. ASSUME NEW a \in 1 .. Len(ns), NEW b \in 1 .. Len(ns), Lo(t, b) = Hi(t, a) + 1
        PROVE  /\ a # y => Lo(u, b) = Hi(u, a) + 1
               /\ a = y => Lo(u, b) = Hi(u, f) + 1
    <2>1. Hi(t, a) \in Nat
      BY <1>3
    <2>2. FirstMoved(p, Hi(t, a) + 1) = LastMoved(p, Hi(t, a)) + 1
      BY <1>4, <2>1, Moving
    <2> QED
      BY <1>4, <1>6, <2>2
  <1>7. f \in Nat
    BY <1>1 DEF f
  <1> QED
    BY <1>1, <1>3, <1>4, <1>5, <1>6, <1>7 DEF f

\* After a split, the leaves below a node are those below its children: a node that
\* the split does not touch.
LEMMA CutParentOther ==
  ASSUME NEW ns, NEW ms, NEW r, NEW t, NEW x, NEW i, NEW y, NEW m,
         Parting(ns, ms, r, t, x, i, y, m),
         NEW u, NEW p, NEW c, NEW s, Cut(ns, t, u, y, m, p, c, s),
         NEW z \in 1 .. Len(ns), ~ns[z].leaf, z # x, z # y
  PROVE  Parent(ms, u, z)
  <1>1. /\ Len(ns) \in Nat /\ DOMAIN ns = 1 .. Len(ns) /\ DOMAIN ms = 1 .. Len(ns) + 1
        /\ x \in 1 .. Len(ns) /\ i \in 1 .. Len(ns[x].records) /\ Len(ns[x].children) = Len(ns[x].records)
    BY PartingOf
  <1>2. Tree(ns, r, t) /\ ~ns[x].leaf /\ y = ns[x].children[i] /\ ms[z] = ns[z]
    BY DEF Parting, IsSplit
  <1> DEFINE d == ns[z].children
  <1>3. /\ Len(d) = Len(ns[z].records) /\ Len(d) >= 1 /\ Hgt(t, z) >= 1 /\ Len(ns[z].records) \in Nat
        /\ \A j \in 1 .. Len(d) : d[j] \in 1 .. Len(ns) /\ Hgt(t, d[j]) = Hgt(t, z) - 1
        /\ Lo(t, d[1]) = Lo(t, z) /\ Hi(t, d[Len(d)]) = Hi(t, z)
        /\ \A j \in 1 .. Len(d) - 1 : Lo(t, d[j + 1]) = Hi(t, d[j]) + 1
    BY <1>1, <1>2, Family, SMTT(30)
  <1>4. \A j \in 1 .. Len(d) : d[j] # y
    BY <1>1, <1>2, OneParent
  <1> HIDE DEF d
  <1>5. /\ \A w \in 1 .. Len(ns) : Hgt(u, w) = Hgt(t, w) /\ Lo(u, w) = FirstMoved(p, Lo(t, w))
        /\ \A w \in 1 .. Len(ns) : w # y => Hi(u, w) = LastMoved(p, Hi(t, w))
        /\ \A a, b \in 1 .. Len(ns) : Lo(t, b) = Hi(t, a) + 1 => (a # y => Lo(u, b) = Hi(u, a) + 1)
    BY CutSays
  <1>6. 1 \in 1 .. Len(d) /\ Len(d) \in 1 .. Len(d) /\ \A j \in 1 .. Len(d) - 1 : j \in 1 .. Len(d) /\ j + 1 \in 1 .. Len(d)
    BY <1>3
  <1>7. Lo(u, d[1]) = Lo(u, z) /\ Hi(u, d[Len(d)]) = Hi(u, z)
    BY <1>3, <1>4, <1>5, <1>6
  <1>8. \A j \in 1 .. Len(d) - 1 : Lo(u, d[j + 1]) = Hi(u, d[j]) + 1
    BY <1>3, <1>4, <1>5, <1>6
  <1>9. \A j \in 1 .. Len(d) : d[j] \in DOMAIN ms /\ Hgt(u, d[j]) = Hgt(u, z) - 1
    BY <1>1, <1>3, <1>5
  <1> QED
    BY <1>2, <1>3, <1>5, <1>7, <1>8, <1>9 DEF Parent, d

\* The node that was split and its other half.
LEMMA CutParentHalves ==
  ASSUME NEW ns, NEW ms, NEW r, NEW t, NEW x, NEW i, NEW y, NEW m,
         Parting(ns, ms, r, t, x, i, y, m),
         NEW u, NEW p, NEW c, NEW s, Cut(ns, t, u, y, m, p, c, s), ~ns[y].leaf
  PROVE  Parent(ms, u, y) /\ Parent(ms, u, Len(ns) + 1)
  <1> DEFINE f == Len(ns) + 1  d == ns[y].children  n == Len(ns[y].records)
  <1>1. /\ Len(ns) \in Nat /\ DOMAIN ns = 1 .. Len(ns) /\ DOMAIN ms = 1 .. f
        /\ y \in 1 .. Len(ns) /\ n \in Nat /\ m \in 1 .. n - 1
    BY PartingOf
  <1>2. Tree(ns, r, t) /\ Left(ns[y], ms[y], m, f) /\ Right(ns[y], ms[f], m)
    BY DEF Parting, IsSplit
  <1>3. /\ Len(d) = n /\ Hgt(t, y) >= 1
        /\ \A j \in 1 .. n : d[j] \in 1 .. Len(ns) /\ Hgt(t, d[j]) = Hgt(t, y) - 1
        /\ Lo(t, d[1]) = Lo(t, y) /\ Hi(t, d[n]) = Hi(t, y)
        /\ \A j \in 1 .. n - 1 : Lo(t, d[j + 1]) = Hi(t, d[j]) + 1
    <2>1. y \in DOMAIN ns
      BY <1>1
    <2>2. LET e == ns[y].children
          IN  /\ Len(ns[y].records) \in Nat /\ Len(e) = Len(ns[y].records) /\ Len(e) >= 1
              /\ Hgt(t, y) >= 1
              /\ \A j \in 1 .. Len(e) : e[j] \in DOMAIN ns /\ Hgt(t, e[j]) = Hgt(t, y) - 1
              /\ Lo(t, e[1]) = Lo(t, y) /\ Hi(t, e[Len(e)]) = Hi(t, y)
              /\ \A j \in 1 .. Len(e) - 1 : Lo(t, e[j + 1]) = Hi(t, e[j]) + 1
      BY <1>2, <2>1, Family
    <2> QED
      BY <1>1, <2>2
  <1>4. /\ Len(ms[y].records) = m /\ Len(ms[y].children) = m
        /\ \A k \in 1 .. m : ms[y].children[k] = d[k]
        /\ Len(ms[f].records) = n - m /\ Len(ms[f].children) = n - m
        /\ \A k \in 1 .. n - m : ms[f].children[k] = d[m + k]
    BY <1>2 DEF Left, Right
  <1>5. /\ \A w \in 1 .. Len(ns) : Hgt(u, w) = Hgt(t, w) /\ Hgt(u, w) \in Nat /\ Lo(u, w) = FirstMoved(p, Lo(t, w))
        /\ \A w \in 1 .. Len(ns) : w # y => Hi(u, w) = LastMoved(p, Hi(t, w))
        /\ \A a, b \in 1 .. Len(ns) : Lo(t, b) = Hi(t, a) + 1 => (a # y => Lo(u, b) = Hi(u, a) + 1)
        /\ Hi(u, y) = c /\ Hgt(u, f) = Hgt(t, y) /\ Lo(u, f) = c + 1 /\ Hi(u, f) = LastMoved(p, Hi(t, y))
        /\ c \in Nat
    BY CutSays
  <1>6. p = Width(t) + 1 /\ c = Hi(t, d[m])
    BY DEF Cut
  <1>7. /\ Width(t) \in Nat
        /\ \A w \in 1 .. Len(ns) : /\ Lo(t, w) \in Nat /\ Hi(t, w) \in Nat /\ Lo(t, w) <= Width(t) /\ Hi(t, w) <= Width(t)
                                   /\ Hgt(t, w) \in Nat
    BY <1>2, Described
  <1> HIDE DEF f, d, n
  <1>8. \A w \in 1 .. Len(ns) : FirstMoved(p, Lo(t, w)) = Lo(t, w) /\ LastMoved(p, Hi(t, w)) = Hi(t, w)
    BY <1>6, <1>7 DEF FirstMoved, LastMoved
  <1>9. \A j \in 1 .. n : d[j] # y
    BY <1>1, <1>3, <1>7
  <1>10. \A j \in 1 .. n : /\ d[j] \in DOMAIN ms /\ Hgt(u, d[j]) = Hgt(u, y) - 1
                           /\ Lo(u, d[j]) = Lo(t, d[j]) /\ Hi(u, d[j]) = Hi(t, d[j])
    <2> SUFFICES ASSUME NEW j \in 1 .. n
                 PROVE  /\ d[j] \in DOMAIN ms /\ Hgt(u, d[j]) = Hgt(u, y) - 1
                        /\ Lo(u, d[j]) = Lo(t, d[j]) /\ Hi(u, d[j]) = Hi(t, d[j])
      OBVIOUS
    <2>1. DOMAIN ms = 1 .. Len(ns) + 1
      BY <1>1 DEF f
    <2>2. d[j] \in 1 .. Len(ns) /\ Hgt(t, d[j]) = Hgt(t, y) - 1 /\ d[j] # y
      BY <1>3, <1>9
    <2>a. \A w \in 1 .. Len(ns) : w \in 1 .. Len(ns) + 1
      BY <1>1
    <2>3. d[j] \in DOMAIN ms
      BY <2>1, <2>2, <2>a
    <2> QED
      BY <1>1, <1>5, <1>8, <2>2, <2>3
  <1>a. \A j \in 1 .. n - 1 : j \in 1 .. n /\ j + 1 \in 1 .. n
    BY <1>1
  <1>11. \A j \in 1 .. n - 1 : Lo(u, d[j + 1]) = Hi(u, d[j]) + 1
    BY <1>3, <1>10, <1>a
  <1>12. 1 \in 1 .. n /\ m \in 1 .. n /\ m + 1 \in 1 .. n /\ n \in 1 .. n /\ m \in 1 .. n - 1
    BY <1>1
  <1>13. Parent(ms, u, y)
    <2> DEFINE g == ms[y].children
    <2>1. Len(g) = Len(ms[y].records) /\ Len(g) >= 1 /\ Hgt(u, y) >= 1
      BY <1>1, <1>3, <1>4, <1>5
    <2>2. \A k \in 1 .. m : k \in 1 .. n /\ g[k] = d[k]
      BY <1>1, <1>4
    <2>3. \A k \in 1 .. m - 1 : k \in 1 .. n - 1 /\ g[k] = d[k] /\ g[k + 1] = d[k + 1]
      BY <1>1, <1>4
    <2>4. g[1] = d[1] /\ g[m] = d[m]
      BY <1>1, <1>4
    <2>5. Lo(u, g[1]) = Lo(u, y) /\ Hi(u, g[m]) = Hi(u, y)
      <3>1. Lo(u, d[1]) = Lo(t, y) /\ Lo(u, y) = Lo(t, y)
        BY <1>1, <1>3, <1>5, <1>8, <1>10, <1>12
      <3>2. Hi(u, d[m]) = c
        BY <1>6, <1>10, <1>12
      <3> QED
        BY <1>5, <2>4, <3>1, <3>2
    <2>6. \A k \in 1 .. m : g[k] \in DOMAIN ms /\ Hgt(u, g[k]) = Hgt(u, y) - 1
      BY <1>10, <2>2
    <2>7. \A k \in 1 .. m - 1 : Lo(u, g[k + 1]) = Hi(u, g[k]) + 1
      BY <1>11, <2>3
    <2> QED
      BY <1>4, <2>1, <2>5, <2>6, <2>7 DEF Parent
  <1>14. Parent(ms, u, f)
    <2> DEFINE g == ms[f].children  l == n - m
    <2>1. Len(g) = Len(ms[f].records) /\ Len(g) >= 1 /\ Hgt(u, f) >= 1
      BY <1>1, <1>3, <1>4, <1>5
    <2>2. \A k \in 1 .. l : m + k \in 1 .. n /\ g[k] = d[m + k]
      BY <1>1, <1>4
    <2>3. \A k \in 1 .. l - 1 : m + k \in 1 .. n - 1 /\ g[k] = d[m + k] /\ g[k + 1] = d[(m + k) + 1]
      BY <1>1, <1>4
    <2>4. g[1] = d[m + 1] /\ g[l] = d[n]
      BY <1>1, <1>4
    <2>5. Lo(u, g[1]) = Lo(u, f) /\ Hi(u, g[l]) = Hi(u, f)
      <3>1. Lo(u, d[m + 1]) = Hi(u, d[m]) + 1 /\ Hi(u, d[m]) = c
        BY <1>6, <1>10, <1>11, <1>12
      <3>2. Hi(u, d[n]) = Hi(t, y) /\ Hi(u, f) = Hi(t, y)
        BY <1>1, <1>3, <1>5, <1>8, <1>10, <1>12
      <3> QED
        BY <1>5, <2>4, <3>1, <3>2
    <2>6. \A k \in 1 .. l : g[k] \in DOMAIN ms /\ Hgt(u, g[k]) = Hgt(u, f) - 1
      <3>1. Hgt(u, f) = Hgt(u, y)
        BY <1>1, <1>5
      <3> QED
        BY <1>10, <2>2, <3>1
    <2>7. \A k \in 1 .. l - 1 : Lo(u, g[k + 1]) = Hi(u, g[k]) + 1
      BY <1>11, <2>3
    <2>8. Len(g) = l
      BY <1>4
    <2> HIDE DEF g, l
    <2> QED
      BY <2>1, <2>5, <2>6, <2>7, <2>8 DEF Parent, g
  <1> QED
    BY <1>13, <1>14 DEF f

\* The node above both.
LEMMA CutParentAbove ==
  ASSUME NEW ns, NEW ms, NEW r, NEW t, NEW x, NEW i, NEW y, NEW m,
         Parting(ns, ms, r, t, x, i, y, m),
         NEW u, NEW p, NEW c, NEW s, Cut(ns, t, u, y, m, p, c, s)
  PROVE  Parent(ms, u, x)
  <1> DEFINE f == Len(ns) + 1  d == ns[x].children  n == Len(ns[x].records)  g == ms[x].children
  <1>1. /\ Len(ns) \in Nat /\ DOMAIN ns = 1 .. Len(ns) /\ DOMAIN ms = 1 .. f
        /\ x \in 1 .. Len(ns) /\ n \in Nat /\ i \in 1 .. n /\ x # y
        /\ y \in 1 .. Len(ns) /\ Len(ns[x].children) = n
    BY PartingOf
  <1>2. Tree(ns, r, t) /\ ~ns[x].leaf /\ y = d[i] /\ Above(ns[x], ms[x], i, f, ms[f].records[1])
    BY DEF Parting, IsSplit
  <1>3. /\ Len(d) = n /\ Hgt(t, x) >= 1
        /\ \A j \in 1 .. n : d[j] \in 1 .. Len(ns) /\ Hgt(t, d[j]) = Hgt(t, x) - 1
        /\ Lo(t, d[1]) = Lo(t, x) /\ Hi(t, d[n]) = Hi(t, x)
        /\ \A j \in 1 .. n - 1 : Lo(t, d[j + 1]) = Hi(t, d[j]) + 1
    BY <1>1, <1>2, Family, SMTT(30)
  <1>4. /\ Len(ms[x].records) = n + 1 /\ Len(g) = n + 1
        /\ \A k \in 1 .. n + 1 : g[k] = IF k <= i THEN d[k] ELSE IF k = i + 1 THEN f ELSE d[k - 1]
    BY <1>2 DEF Above
  <1>5. /\ \A w \in 1 .. Len(ns) : Hgt(u, w) = Hgt(t, w) /\ Lo(u, w) = FirstMoved(p, Lo(t, w))
        /\ \A w \in 1 .. Len(ns) : w # y => Hi(u, w) = LastMoved(p, Hi(t, w))
        /\ \A a, b \in 1 .. Len(ns) : Lo(t, b) = Hi(t, a) + 1 => /\ a # y => Lo(u, b) = Hi(u, a) + 1
                                                                 /\ a = y => Lo(u, b) = Hi(u, f) + 1
        /\ Hi(u, y) = c /\ Hgt(u, f) = Hgt(t, y) /\ Lo(u, f) = c + 1 /\ Hi(u, f) = LastMoved(p, Hi(t, y))
        /\ c \in Nat
    BY CutSays
  <1>6. \A j \in 1 .. n : d[j] = y => j = i
    BY <1>1, <1>2, <1>3, OneParent
  <1> HIDE DEF f, d, n, g
  <1>7. ASSUME NEW k \in 1 .. n + 1
        PROVE  g[k] \in DOMAIN ms /\ Hgt(u, g[k]) = Hgt(u, x) - 1
    <2>1. f \in DOMAIN ms /\ \A w \in 1 .. Len(ns) : w \in DOMAIN ms
      BY <1>1 DEF f
    <2>2. Hgt(u, f) = Hgt(u, x) - 1
      BY <1>1, <1>2, <1>3, <1>5
    <2>3. CASE k <= i
      <3>1. k \in 1 .. n /\ g[k] = d[k]
        BY <1>1, <1>4, <2>3
      <3> QED
        BY <1>1, <1>3, <1>5, <2>1, <3>1
    <2>4. CASE k = i + 1
      <3>1. g[k] = f
        BY <1>1, <1>4, <2>4
      <3> QED
        BY <2>1, <2>2, <3>1
    <2>5. CASE k > i + 1
      <3>1. k - 1 \in 1 .. n /\ g[k] = d[k - 1]
        BY <1>1, <1>4, <2>5
      <3> QED
        BY <1>1, <1>3, <1>5, <2>1, <3>1
    <2>6. k <= i \/ k = i + 1 \/ k > i + 1
      BY <1>1
    <2> QED
      BY <2>3, <2>4, <2>5, <2>6
  <1>8. ASSUME NEW k \in 1 .. n
        PROVE  Lo(u, g[k + 1]) = Hi(u, g[k]) + 1
    <2>1. CASE k < i
      <3>1. /\ k \in 1 .. n - 1 /\ k \in 1 .. n /\ k + 1 \in 1 .. n /\ k # i
            /\ g[k] = d[k] /\ g[k + 1] = d[k + 1]
        BY <1>1, <1>4, <2>1
      <3>2. d[k] # y /\ d[k] \in 1 .. Len(ns) /\ d[k + 1] \in 1 .. Len(ns) /\ Lo(t, d[k + 1]) = Hi(t, d[k]) + 1
        BY <1>3, <1>6, <3>1
      <3> QED
        BY <1>5, <3>1, <3>2
    <2>2. CASE k = i
      <3>1. g[k] = y /\ g[k + 1] = f
        BY <1>1, <1>2, <1>4, <2>2
      <3> QED
        BY <1>5, <3>1
    <2>3. CASE k = i + 1
      <3>1. /\ k - 1 \in 1 .. n - 1 /\ k \in 1 .. n
            /\ g[k] = f /\ g[k + 1] = d[k] /\ d[k - 1] = y /\ (k - 1) + 1 = k
        BY <1>1, <1>2, <1>4, <2>3
      <3>2. d[k] \in 1 .. Len(ns) /\ Lo(t, d[k]) = Hi(t, y) + 1
        BY <1>3, <3>1
      <3> QED
        BY <1>1, <1>5, <3>1, <3>2
    <2>4. CASE k > i + 1
      <3>a. /\ k - 1 \in 1 .. n - 1 /\ k \in 1 .. n /\ k - 1 \in 1 .. n /\ k - 1 # i /\ (k - 1) + 1 = k
            /\ k \in 1 .. n + 1 /\ k + 1 \in 1 .. n + 1 /\ (k + 1) - 1 = k
            /\ ~(k <= i) /\ k # i + 1 /\ ~(k + 1 <= i) /\ k + 1 # i + 1
        BY <1>1, <2>4
      <3>1. /\ k - 1 \in 1 .. n - 1 /\ k \in 1 .. n /\ k - 1 \in 1 .. n /\ k - 1 # i /\ (k - 1) + 1 = k
            /\ g[k] = d[k - 1] /\ g[k + 1] = d[k]
        BY <1>4, <3>a
      <3>2. d[k - 1] # y /\ d[k - 1] \in 1 .. Len(ns) /\ d[k] \in 1 .. Len(ns) /\ Lo(t, d[k]) = Hi(t, d[k - 1]) + 1
        BY <1>3, <1>6, <3>1
      <3> QED
        BY <1>5, <3>1, <3>2
    <2>5. k < i \/ k = i \/ k = i + 1 \/ k > i + 1
      BY <1>1
    <2> QED
      BY <2>1, <2>2, <2>3, <2>4, <2>5
  <1>9. Lo(u, g[1]) = Lo(u, x)
    <2>1. g[1] = d[1] /\ d[1] \in 1 .. Len(ns)
      BY <1>1, <1>3, <1>4
    <2> QED
      BY <1>1, <1>3, <1>5, <2>1
  <1>10. Hi(u, g[n + 1]) = Hi(u, x)
    <2>1. CASE i = n
      <3>1. g[n + 1] = f /\ d[n] = y
        BY <1>1, <1>2, <1>4, <2>1
      <3> QED
        BY <1>1, <1>3, <1>5, <3>1
    <2>2. CASE i < n
      <3>1. g[n + 1] = d[n] /\ n \in 1 .. n /\ n # i
        BY <1>1, <1>4, <2>2
      <3> QED
        BY <1>1, <1>3, <1>5, <1>6, <3>1
    <2> QED
      BY <1>1, <2>1, <2>2
  <1>11. Len(g) >= 1 /\ Hgt(u, x) >= 1 /\ Len(g) - 1 = n
    BY <1>1, <1>3, <1>4, <1>5
  <1> QED
    BY <1>4, <1>7, <1>8, <1>9, <1>10, <1>11 DEF Parent, g

\* A tree with a node split is a tree.
LEMMA CutTree ==
  ASSUME NEW ns, NEW ms, NEW r, NEW t, NEW x, NEW i, NEW y, NEW m,
         Parting(ns, ms, r, t, x, i, y, m),
         NEW u, NEW p, NEW c, NEW s, Cut(ns, t, u, y, m, p, c, s)
  PROVE  Tree(ms, r, u)
  <1>1. /\ DOMAIN ns = 1 .. Len(ns) /\ DOMAIN ms = 1 .. Len(ns) + 1 /\ r \in 1 .. Len(ns) /\ Len(ns) \in Nat
        /\ \A z \in 1 .. Len(ns) : ms[z].leaf = ns[z].leaf
        /\ ms[Len(ns) + 1].leaf = ns[y].leaf
    BY PartingOf
  <1>2. ms \in Seq(Node)
    BY DEF Parting, IsSplit
  <1>3. ASSUME NEW z \in DOMAIN ms, ~ms[z].leaf
        PROVE  Parent(ms, u, z)
    <2>1. CASE z = Len(ns) + 1
      BY <1>1, <1>3, <2>1, CutParentHalves
    <2>2. CASE z # Len(ns) + 1
      <3>1. z \in 1 .. Len(ns) /\ ~ns[z].leaf
        BY <1>1, <1>3, <2>2
      <3> QED
        BY <3>1, CutParentHalves, CutParentAbove, CutParentOther
    <2> QED
      BY <2>1, <2>2
  <1>4. r \in DOMAIN ms
    BY <1>1
  <1>5. \A a, b \in DOMAIN ms :
          Hgt(u, a) = Hgt(u, b) /\ Lo(u, a) <= Hi(u, b) /\ Lo(u, b) <= Hi(u, a) => a = b
    BY CutApart
  <1>6. /\ Description(ms, u)
        /\ \A z \in DOMAIN ms : 1 <= Lo(u, z) /\ Lo(u, z) <= Hi(u, z) /\ Hi(u, z) <= Width(u)
        /\ Lo(u, r) = 1 /\ Hi(u, r) = Width(u)
        /\ \A z \in DOMAIN ms : Hgt(u, z) <= Hgt(u, r)
    BY CutPlaces
  <1>7. /\ \A z \in DOMAIN ms : ms[z].leaf => InChain(ms, u, z)
        /\ \A q \in 1 .. Width(u) : ms[At(u, q)].leaf /\ Lo(u, At(u, q)) = q
    BY CutChain
  <1> QED
    BY <1>2, <1>3, <1>4, <1>5, <1>6, <1>7 DEF Tree

\* There is such a description.
LEMMA CutExists ==
  ASSUME NEW ns, NEW ms, NEW r, NEW t, NEW x, NEW i, NEW y, NEW m,
         Parting(ns, ms, r, t, x, i, y, m), NEW s \in Int
  PROVE  \E u, p, c : Cut(ns, t, u, y, m, p, c, s)
  <1> DEFINE f == Len(ns) + 1  w == Width(t)
             p == IF ns[y].leaf THEN Lo(t, y) ELSE w + 1
             c == IF ns[y].leaf THEN p ELSE Hi(t, ns[y].children[m])
             l == IF ns[y].leaf THEN w + 1 ELSE w
             chain == [q \in 1 .. l |-> IF q <= p THEN At(t, q) ELSE IF q = p + 1 THEN f ELSE At(t, q - 1)]
             hgt == [z \in 1 .. f |-> IF z = f THEN Hgt(t, y) ELSE Hgt(t, z)]
             lo == [z \in 1 .. f |-> IF z = f THEN c + 1 ELSE FirstMoved(p, Lo(t, z))]
             hi == [z \in 1 .. f |-> IF z = f THEN LastMoved(p, Hi(t, y)) ELSE IF z = y THEN c
                                     ELSE LastMoved(p, Hi(t, z))]
             sep == [b \in Nat |-> IF b <= p THEN Sep(t, b) ELSE IF b = p + 1 THEN s ELSE Sep(t, b - 1)]
             u == [chain |-> chain, hgt |-> hgt, lo |-> lo, hi |-> hi, sep |-> sep]
  <1>1. /\ Len(ns) \in Nat /\ DOMAIN ns = 1 .. Len(ns) /\ y \in 1 .. Len(ns)
        /\ m \in 1 .. Len(ns[y].records) - 1 /\ Len(ns[y].records) \in Nat
    BY PartingOf
  <1>2. Tree(ns, r, t)
    BY DEF Parting
  <1>3. /\ w \in Nat /\ \A q \in 1 .. w : At(t, q) \in 1 .. Len(ns)
        /\ \A z \in 1 .. Len(ns) : /\ Hgt(t, z) \in Nat /\ Lo(t, z) \in Nat /\ Hi(t, z) \in Nat
                                   /\ 1 <= Lo(t, z) /\ Lo(t, z) <= w
    BY <1>2, Described
  <1>4. \A b \in Nat : Sep(t, b) \in Int
    BY <1>2 DEF Tree, Description, Sep
  <1>5. p \in Nat /\ p >= 1
    BY <1>1, <1>3, SMTT(30)
  <1>6. c \in Nat
    <2>1. CASE ns[y].leaf
      BY <1>5, <2>1
    <2>2. CASE ~ns[y].leaf
      <3>1. Len(ns[y].children) = Len(ns[y].records) /\ \A j \in 1 .. Len(ns[y].children) : ns[y].children[j] \in DOMAIN ns
        BY <1>1, <1>2, <2>2, Family
      <3>2. ns[y].children[m] \in 1 .. Len(ns)
        BY <1>1, <3>1
      <3> QED
        BY <1>3, <2>2, <3>2
    <2> QED
      BY <2>1, <2>2
  <1>7. f \in Nat /\ (\A z \in 1 .. f : z # f => z \in 1 .. Len(ns)) /\ \A z \in 1 .. Len(ns) : z \in 1 .. f /\ z # f
    BY <1>1
  <1>8. chain \in Seq(1 .. f) /\ Len(chain) = l
    <2>1. l \in Nat
      BY <1>3
    <2>2. \A q \in 1 .. l : chain[q] \in 1 .. f
      <3> SUFFICES ASSUME NEW q \in 1 .. l
                   PROVE  chain[q] \in 1 .. f
        OBVIOUS
      <3>1. CASE ns[y].leaf
        <4>1. q <= p => q \in 1 .. w
          BY <1>1, <1>3, <3>1
        <4>2. ~(q <= p) /\ q # p + 1 => q - 1 \in 1 .. w
          BY <1>3, <1>5, <3>1
        <4>3. f \in 1 .. f
          BY <1>1
        <4> HIDE DEF f, p, l
        <4> QED
          BY <1>3, <1>7, <4>1, <4>2, <4>3
      <3>2. CASE ~ns[y].leaf
        <4>1. q \in 1 .. w /\ q <= p
          BY <1>3, <3>2
        <4> HIDE DEF f, p, l
        <4> QED
          BY <1>3, <1>7, <4>1
      <3> QED
        BY <3>1, <3>2
    <2> HIDE DEF f, p, l
    <2> QED
      BY <2>1, <2>2
  <1> HIDE DEF f, p, c, l
  <1>a. \A z \in 1 .. Len(ns) : FirstMoved(p, Lo(t, z)) \in Nat /\ LastMoved(p, Hi(t, z)) \in Nat
    BY <1>3, <1>5, Moving
  <1>9. hgt \in [1 .. f -> Nat] /\ lo \in [1 .. f -> Nat] /\ hi \in [1 .. f -> Nat]
    <2>1. ASSUME NEW z \in 1 .. f
          PROVE  hgt[z] \in Nat /\ lo[z] \in Nat /\ hi[z] \in Nat
      <3>1. CASE z = f
        BY <1>1, <1>3, <1>6, <1>a, <3>1
      <3>2. CASE z # f
        <4>1. z \in 1 .. Len(ns)
          BY <1>7, <3>2
        <4> QED
          BY <1>3, <1>6, <1>a, <3>2, <4>1
      <3> QED
        BY <3>1, <3>2
    <2> QED
      BY <2>1
  <1>10. sep \in [Nat -> Int]
    <2>1. ASSUME NEW b \in Nat
          PROVE  sep[b] \in Int
      <3>1. ~(b <= p) => b - 1 \in Nat
        BY <1>5
      <3> QED
        BY <1>4, <3>1
    <2> QED
      BY <2>1
  <1>11. f \in 1 .. f
    BY <1>1 DEF f
  <1>12. /\ \A z \in 1 .. Len(ns) : hgt[z] = Hgt(t, z) /\ lo[z] = FirstMoved(p, Lo(t, z))
         /\ \A z \in 1 .. Len(ns) : z # y => hi[z] = LastMoved(p, Hi(t, z))
         /\ hi[y] = c /\ hgt[f] = Hgt(t, y) /\ lo[f] = c + 1 /\ hi[f] = LastMoved(p, Hi(t, y))
    BY <1>1, <1>7, <1>11
  <1>13. /\ \A q \in 1 .. l : chain[q] = IF q <= p THEN At(t, q) ELSE IF q = p + 1 THEN f ELSE At(t, q - 1)
         /\ \A b \in 2 .. l : sep[b] = IF b <= p THEN Sep(t, b) ELSE IF b = p + 1 THEN s ELSE Sep(t, b - 1)
    <2>1. \A b \in 2 .. l : b \in Nat
      BY <1>3 DEF l
    <2> QED
      BY <2>1
  <1>14. ns[y].leaf => p = Lo(t, y) /\ c = p /\ l = w + 1
    BY DEF p, c, l
  <1>15. ~ns[y].leaf => /\ p = w + 1 /\ c = Hi(t, ns[y].children[m]) /\ l = w
                        /\ \A q \in 1 .. l : q <= p
                        /\ \A b \in 2 .. l : b <= p
    BY <1>3 DEF p, c, l
  <1> HIDE DEF chain, hgt, lo, hi, sep, w
  <1>16. u.chain = chain /\ u.hgt = hgt /\ u.lo = lo /\ u.hi = hi /\ u.sep = sep
    OBVIOUS
  <1> HIDE DEF u
  <1>17. /\ \A z : Hgt(u, z) = hgt[z] /\ Lo(u, z) = lo[z] /\ Hi(u, z) = hi[z] /\ Sep(u, z) = sep[z] /\ At(u, z) = chain[z]
         /\ Width(u) = l
    BY <1>8, <1>16 DEF Hgt, Lo, Hi, Sep, At, Width
  <1>18. /\ \A z \in 1 .. Len(ns) : Hgt(u, z) = Hgt(t, z) /\ Lo(u, z) = FirstMoved(p, Lo(t, z))
         /\ \A z \in 1 .. Len(ns) : z # y => Hi(u, z) = LastMoved(p, Hi(t, z))
         /\ Hi(u, y) = c /\ Hgt(u, f) = Hgt(t, y) /\ Lo(u, f) = c + 1 /\ Hi(u, f) = LastMoved(p, Hi(t, y))
    BY <1>12, <1>17
  <1>19. Cut(ns, t, u, y, m, p, c, s)
    <2>1. CASE ns[y].leaf
      <3>1. p = Lo(t, y) /\ c = p /\ Width(u) = Width(t) + 1
        BY <1>14, <1>17, <2>1 DEF w
      <3>2. \A q \in 1 .. Width(u) :
              At(u, q) = IF q <= p THEN At(t, q) ELSE IF q = p + 1 THEN Len(ns) + 1 ELSE At(t, q - 1)
        BY <1>13, <1>17 DEF f
      <3>3. \A b \in 2 .. Width(u) :
              Sep(u, b) = IF b <= p THEN Sep(t, b) ELSE IF b = p + 1 THEN s ELSE Sep(t, b - 1)
        BY <1>13, <1>17
      <3> QED
        BY <1>5, <1>6, <1>8, <1>9, <1>10, <1>16, <1>18, <2>1, <3>1, <3>2, <3>3 DEF Cut, f
    <2>2. CASE ~ns[y].leaf
      BY <1>5, <1>6, <1>8, <1>9, <1>10, <1>13, <1>15, <1>16, <1>17, <1>18, <2>2 DEF Cut, f, w
    <2> QED
      BY <2>1, <2>2
  <1> QED
    BY <1>19

\* The places a split moves, and what separates the leaves there.
LEMMA CutMoves ==
  ASSUME NEW ns, NEW ms, NEW r, NEW t, NEW x, NEW i, NEW y, NEW m,
         Parting(ns, ms, r, t, x, i, y, m),
         NEW u, NEW p, NEW c, NEW s, Cut(ns, t, u, y, m, p, c, s)
  PROVE  /\ \A v \in 1 .. Width(t) : LastMoved(p, v) = Width(u) <=> v = Width(t)
         /\ \A v \in 2 .. Width(t) : /\ FirstMoved(p, v) \in 2 .. Width(u)
                                     /\ Sep(u, FirstMoved(p, v)) = Sep(t, v)
         /\ \A v \in Nat : FirstMoved(p, v) > 1 <=> v > 1
         /\ \A b \in 2 .. Width(u) :
              \/ ns[y].leaf /\ b = p + 1 /\ Sep(u, b) = s
              \/ \E v \in 2 .. Width(t) : b = FirstMoved(p, v)
         /\ \A v, w \in Nat : FirstMoved(p, v) < FirstMoved(p, w) <=> v < w
         /\ Width(u) \in Nat /\ Width(t) \in Nat /\ p \in Nat /\ p >= 1
         /\ c + 1 \in 2 .. Width(u) /\ c \in Nat
  <1>1. Tree(ns, r, t)
    BY DEF Parting
  <1>2. Len(ns) \in Nat /\ DOMAIN ns = 1 .. Len(ns) /\ y \in 1 .. Len(ns) /\ Len(ns) + 1 \in DOMAIN ms
    BY PartingOf
  <1>3. /\ Width(t) \in Nat /\ Lo(t, y) \in Nat /\ 1 <= Lo(t, y) /\ Lo(t, y) <= Width(t)
    BY <1>1, <1>2, Described
  <1>4. p \in Nat /\ p >= 1 /\ c \in Nat /\ Lo(u, Len(ns) + 1) = c + 1
    BY DEF Cut
  <1>5. Width(u) \in Nat
    BY <1>3 DEF Cut
  <1>6. c + 1 \in 2 .. Width(u)
    <2>1. Tree(ms, r, u)
      BY CutTree
    <2>2. Lo(u, Len(ns) + 1) <= Width(u) /\ Lo(u, y) >= 1 /\ Lo(u, y) <= c /\ Lo(u, y) \in Nat /\ Lo(u, Len(ns) + 1) \in Nat
      <3>1. y \in DOMAIN ms
        BY <1>2, PartingOf
      <3>2. Hi(u, y) = c
        BY DEF Cut
      <3>3. /\ Lo(u, y) \in Nat /\ Hi(u, y) \in Nat /\ 1 <= Lo(u, y) /\ Lo(u, y) <= Hi(u, y)
        BY <2>1, <3>1, Placed
      <3>4. LET z == Len(ns) + 1
            IN Lo(u, z) \in Nat /\ Hi(u, z) \in Nat /\ Lo(u, z) <= Hi(u, z) /\ Hi(u, z) <= Width(u)
        BY <1>2, <2>1, Placed
      <3> QED
        BY <1>5, <3>2, <3>3, <3>4
    <2> QED
      BY <1>4, <1>5, <2>2
  <1>7. CASE ns[y].leaf
    <2>1. /\ p = Lo(t, y) /\ Width(u) = Width(t) + 1
          /\ \A b \in 2 .. Width(u) :
               Sep(u, b) = IF b <= p THEN Sep(t, b) ELSE IF b = p + 1 THEN s ELSE Sep(t, b - 1)
      BY <1>7 DEF Cut
    <2>2. p <= Width(t)
      BY <1>3, <2>1
    <2>3. ASSUME NEW v \in 1 .. Width(t)
          PROVE  LastMoved(p, v) = Width(u) <=> v = Width(t)
      BY <1>3, <1>4, <2>1, <2>2 DEF LastMoved
    <2>4. ASSUME NEW v \in 2 .. Width(t)
          PROVE  /\ FirstMoved(p, v) \in 2 .. Width(u)
                 /\ Sep(u, FirstMoved(p, v)) = Sep(t, v)
      <3>1. CASE v > p
        <4>1. FirstMoved(p, v) = v + 1
          BY <3>1 DEF FirstMoved
        <4>2. v + 1 \in 2 .. Width(u) /\ ~(v + 1 <= p) /\ v + 1 # p + 1 /\ (v + 1) - 1 = v
          BY <1>3, <1>4, <2>1, <3>1
        <4> QED
          BY <2>1, <4>1, <4>2
      <3>2. CASE ~(v > p)
        <4>1. FirstMoved(p, v) = v
          BY <3>2 DEF FirstMoved
        <4>2. v \in 2 .. Width(u) /\ v <= p
          BY <1>3, <1>4, <2>1, <3>2
        <4> QED
          BY <2>1, <4>1, <4>2
      <3> QED
        BY <3>1, <3>2
    <2>5. ASSUME NEW b \in 2 .. Width(u)
          PROVE  \/ ns[y].leaf /\ b = p + 1 /\ Sep(u, b) = s
                 \/ \E v \in 2 .. Width(t) : b = FirstMoved(p, v)
      <3>1. CASE b <= p
        <4>1. b \in 2 .. Width(t) /\ FirstMoved(p, b) = b
          BY <1>3, <1>4, <2>2, <3>1 DEF FirstMoved
        <4> QED
          BY <4>1
      <3>2. CASE b = p + 1
        BY <1>4, <1>7, <2>1, <3>2
      <3>3. CASE b > p + 1
        <4>1. b - 1 \in 2 .. Width(t) /\ FirstMoved(p, b - 1) = b
          BY <1>3, <1>4, <2>1, <3>3 DEF FirstMoved
        <4> QED
          BY <4>1
      <3> QED
        BY <1>4, <1>5, <3>1, <3>2, <3>3
    <2>6. /\ \A v \in Nat : FirstMoved(p, v) > 1 <=> v > 1
          /\ \A v, w \in Nat : FirstMoved(p, v) < FirstMoved(p, w) <=> v < w
      BY <1>4 DEF FirstMoved
    <2> QED
      BY <1>3, <1>4, <1>5, <1>6, <2>3, <2>4, <2>5, <2>6
  <1>8. CASE ~ns[y].leaf
    <2>1. /\ p = Width(t) + 1 /\ Width(u) = Width(t)
          /\ \A b \in 2 .. Width(u) : Sep(u, b) = Sep(t, b)
      BY <1>8 DEF Cut
    <2>2. \A v \in 1 .. Width(t) : LastMoved(p, v) = v /\ FirstMoved(p, v) = v
      BY <1>3, <2>1 DEF LastMoved, FirstMoved
    <2>3. \A v \in 2 .. Width(t) : v \in 1 .. Width(t)
      BY <1>3
    <2>6. /\ \A v \in Nat : FirstMoved(p, v) > 1 <=> v > 1
          /\ \A v, w \in Nat : FirstMoved(p, v) < FirstMoved(p, w) <=> v < w
      BY <1>4 DEF FirstMoved
    <2> QED
      BY <1>3, <1>4, <1>5, <1>6, <2>1, <2>2, <2>3, <2>6
  <1> QED
    BY <1>7, <1>8

\* A split keeps the nodes of each height chained.
LEMMA CutLinked ==
  ASSUME NEW ns, NEW ms, NEW r, NEW t, NEW x, NEW i, NEW y, NEW m,
         Parting(ns, ms, r, t, x, i, y, m), Linked(ns, t),
         NEW u, NEW p, NEW c, NEW s, Cut(ns, t, u, y, m, p, c, s)
  PROVE  Linked(ms, u)
  <1> DEFINE f == Len(ns) + 1
  <1>1. /\ Len(ns) \in Nat /\ DOMAIN ns = 1 .. Len(ns) /\ DOMAIN ms = 1 .. f
        /\ x \in 1 .. Len(ns) /\ y \in 1 .. Len(ns) /\ x # y
    BY PartingOf
  <1>2. Tree(ns, r, t)
    BY DEF Parting
  <1>3. /\ \A z \in 1 .. Len(ns) : z # y => ms[z].next = ns[z].next
        /\ ms[y].next = f /\ ms[f].next = ns[y].next
    BY DEF Parting, IsSplit, Left, Right, Above
  <1>4. /\ \A z \in 1 .. Len(ns) : Hgt(u, z) = Hgt(t, z)
        /\ \A z \in 1 .. Len(ns) : z # y => Hi(u, z) = LastMoved(p, Hi(t, z))
        /\ Hi(u, y) = c /\ Hgt(u, f) = Hgt(t, y) /\ Lo(u, f) = c + 1
        /\ Hi(u, f) = LastMoved(p, Hi(t, y))
        /\ \A a, b \in 1 .. Len(ns) :
             Lo(t, b) = Hi(t, a) + 1 => /\ a # y => Lo(u, b) = Hi(u, a) + 1
                                        /\ a = y => Lo(u, b) = Hi(u, f) + 1
    BY CutSays
  <1>5. /\ \A v \in 1 .. Width(t) : LastMoved(p, v) = Width(u) <=> v = Width(t)
        /\ c + 1 \in 2 .. Width(u) /\ c \in Nat /\ Width(u) \in Nat
    BY CutMoves
  <1>6. \A z \in 1 .. Len(ns) : Hi(t, z) \in 1 .. Width(t)
    <2> SUFFICES ASSUME NEW z \in 1 .. Len(ns)
                 PROVE  Hi(t, z) \in 1 .. Width(t)
      OBVIOUS
    <2>1. z \in DOMAIN ns
      BY <1>1
    <2>2. Lo(t, z) \in Nat /\ Hi(t, z) \in Nat /\ 1 <= Lo(t, z) /\ Lo(t, z) <= Hi(t, z) /\ Hi(t, z) <= Width(t)
      BY <1>2, <2>1, Placed
    <2>3. Width(t) \in Nat
      BY CutMoves
    <2> QED
      BY <2>2, <2>3
  <1>7. \A z \in 1 .. Len(ns) :
          IF Hi(t, z) = Width(t) THEN ns[z].next = 0
          ELSE /\ ns[z].next \in 1 .. Len(ns)
               /\ Hgt(t, ns[z].next) = Hgt(t, z) /\ Lo(t, ns[z].next) = Hi(t, z) + 1
    BY <1>1 DEF Linked
  <1>8. f \in DOMAIN ms /\ (\A z \in 1 .. Len(ns) : z \in DOMAIN ms) /\ \A z \in DOMAIN ms : z = f \/ z \in 1 .. Len(ns)
    BY <1>1
  <1> HIDE DEF f
  <1>9. ASSUME NEW z \in DOMAIN ms
        PROVE  IF Hi(u, z) = Width(u) THEN ms[z].next = 0
               ELSE /\ ms[z].next \in DOMAIN ms
                    /\ Hgt(u, ms[z].next) = Hgt(u, z) /\ Lo(u, ms[z].next) = Hi(u, z) + 1
    <2>1. CASE z = y
      <3>1. Hi(u, y) # Width(u)
        BY <1>4, <1>5
      <3> QED
        BY <1>1, <1>3, <1>4, <1>8, <2>1, <3>1
    <2>2. CASE z = f
      BY <1>1, <1>3, <1>4, <1>5, <1>6, <1>7, <1>8, <2>2
    <2>3. CASE z # y /\ z \in 1 .. Len(ns)
      BY <1>3, <1>4, <1>5, <1>6, <1>7, <1>8, <2>3
    <2> QED
      BY <1>8, <2>1, <2>2, <2>3
  <1> QED
    BY <1>9 DEF Linked

\* The number of the node that a split adds.
Fresh(ns) == Len(ns) + 1

\* A full node is split in two that are half full.
LEMMA CutFilled ==
  ASSUME NEW ns, NEW ms, NEW r, NEW t, NEW x, NEW i, NEW y, NEW m,
         Parting(ns, ms, r, t, x, i, y, m), m = Median(ns[y]), Filled(ns, r),
         BtIsFull(ns[y]), ~BtIsFull(ns[x])
  PROVE  Filled(ms, r) /\ ~BtIsFull(ms[y]) /\ ~BtIsFull(ms[Fresh(ns)])
  <1> DEFINE f == Len(ns) + 1
  <1>1. /\ Len(ns) \in Nat /\ DOMAIN ns = 1 .. Len(ns) /\ DOMAIN ms = 1 .. f
        /\ x \in 1 .. Len(ns) /\ y \in 1 .. Len(ns) /\ x # y /\ r # y
        /\ Len(ns[x].records) \in Nat /\ Len(ns[y].records) \in Nat
    BY PartingOf
  <1>2. /\ \A z \in 1 .. Len(ns) : z # x /\ z # y => ms[z] = ns[z]
        /\ Len(ms[x].records) = Len(ns[x].records) + 1
        /\ Len(ms[y].records) = m /\ Len(ms[f].records) = Len(ns[y].records) - m
    BY DEF Parting, IsSplit, Left, Right, Above
  <1>3. \A z \in 1 .. Len(ns) : /\ Len(ns[z].records) <= NodeSize
                                /\ z # r => Len(ns[z].records) >= NodeSize \div 2
    BY <1>1 DEF Filled
  <1>4. NodeSize \in Nat /\ NodeSize >= 4
    BY NodeAssumption
  <1>5. Len(ns[y].records) = NodeSize /\ Len(ns[x].records) < NodeSize
    BY <1>1, <1>3, <1>4 DEF BtIsFull
  <1>6. m = NodeSize \div 2
    BY <1>5 DEF Median
  <1>7. /\ NodeSize \div 2 \in 1 .. NodeSize - 1 /\ 2 * (NodeSize \div 2) <= NodeSize
    BY <1>4, Halving
  <1>8. \A z \in DOMAIN ms : z = f \/ z \in 1 .. Len(ns)
    BY <1>1
  <1> HIDE DEF f
  <1>9. ASSUME NEW z \in DOMAIN ms
        PROVE  /\ Len(ms[z].records) <= NodeSize
               /\ z # r => Len(ms[z].records) >= NodeSize \div 2
    <2> DEFINE h == NodeSize \div 2
    <2>a. h \in Nat /\ h <= NodeSize /\ NodeSize - h <= NodeSize /\ NodeSize - h >= h
      BY <1>4, <1>7
    <2>1. CASE z = y \/ z = f
      <3>1. Len(ms[z].records) = h \/ Len(ms[z].records) = NodeSize - h
        BY <1>2, <1>5, <1>6, <2>1
      <3> HIDE DEF h
      <3>2. Len(ms[z].records) <= NodeSize /\ Len(ms[z].records) >= h
        BY <1>4, <2>a, <3>1
      <3> QED
        BY <3>2 DEF h
    <2>2. CASE z = x
      BY <1>1, <1>2, <1>3, <1>4, <1>5, <1>7, <2>2
    <2>3. CASE z # x /\ z # y /\ z \in 1 .. Len(ns)
      BY <1>2, <1>3, <2>3
    <2> QED
      BY <1>8, <2>1, <2>2, <2>3
  <1> QED
    BY <1>2, <1>4, <1>5, <1>6, <1>7, <1>9 DEF Filled, BtIsFull, Fresh, f

\* The types of a record.
LEMMA RecordOf ==
  ASSUME NEW ns, ns \in Seq(Node), NEW z \in DOMAIN ns
  PROVE  /\ Len(ns[z].records) \in Nat /\ DOMAIN ns[z].records = 1 .. Len(ns[z].records)
         /\ \A k \in DOMAIN ns[z].records :
              /\ ns[z].records[k] \in Record
              /\ ns[z].records[k].val \in Val /\ ns[z].records[k].val \in Int
              /\ ns[z].records[k].pos \in Nat
  <1>1. ns[z] \in Node
    OBVIOUS
  <1>2. ns[z].records \in Seq(Record)
    BY <1>1 DEF Node
  <1>3. \A k \in DOMAIN ns[z].records : ns[z].records[k] \in Record
    BY <1>2
  <1>4. Val \subseteq Int
    BY DataAssumption DEF Val
  <1>5. \A q \in Record : q.val \in Val /\ q.pos \in Nat
    BY DEF Record
  <1>6. Len(ns[z].records) \in Nat /\ DOMAIN ns[z].records = 1 .. Len(ns[z].records)
    BY <1>2, LenProperties
  <1> QED
    BY <1>3, <1>4, <1>5, <1>6

\* Where a record of a leaf was before the split.
Source(y, f, z) == IF z = f THEN y ELSE z
SourceAt(m, f, z, k) == IF z = f THEN m + k ELSE k

\* A split loses no record of a leaf and adds none.
LEMMA CutRecords ==
  ASSUME NEW ns, NEW ms, NEW r, NEW t, NEW x, NEW i, NEW y, NEW m,
         Parting(ns, ms, r, t, x, i, y, m)
  PROVE  LET f == Len(ns) + 1
         IN  /\ \A z \in DOMAIN ms : ms[z].leaf => \A k \in DOMAIN ms[z].records :
                  /\ Source(y, f, z) \in DOMAIN ns /\ ns[Source(y, f, z)].leaf
                  /\ SourceAt(m, f, z, k) \in DOMAIN ns[Source(y, f, z)].records
                  /\ ms[z].records[k] = ns[Source(y, f, z)].records[SourceAt(m, f, z, k)]
                  /\ k \in Nat /\ (z = f => SourceAt(m, f, z, k) > m) /\ (z = y => k <= m)
             /\ \A z \in DOMAIN ns : ns[z].leaf => \A k \in DOMAIN ns[z].records :
                  \E w \in DOMAIN ms : ms[w].leaf /\
                    \E j \in DOMAIN ms[w].records : ms[w].records[j] = ns[z].records[k]
  <1> DEFINE f == Len(ns) + 1
  <1>1. /\ Len(ns) \in Nat /\ DOMAIN ns = 1 .. Len(ns) /\ DOMAIN ms = 1 .. f
        /\ x \in 1 .. Len(ns) /\ y \in 1 .. Len(ns) /\ x # y
        /\ \A z \in 1 .. Len(ns) : ms[z].leaf = ns[z].leaf
        /\ ms[f].leaf = ns[y].leaf
        /\ Len(ns[y].records) \in Nat /\ m \in 1 .. Len(ns[y].records) - 1
    BY PartingOf
  <1>2. /\ Tree(ns, r, t) /\ ~ns[x].leaf /\ ms \in Seq(Node) /\ ns \in Seq(Node)
        /\ \A z \in 1 .. Len(ns) : z # x /\ z # y => ms[z] = ns[z]
        /\ Len(ms[y].records) = m /\ \A k \in 1 .. m : ms[y].records[k] = ns[y].records[k]
        /\ Len(ms[f].records) = Len(ns[y].records) - m
        /\ \A k \in 1 .. Len(ns[y].records) - m : ms[f].records[k] = ns[y].records[m + k]
    BY DEF Parting, IsSplit, Left, Right, Tree
  <1>3. /\ \A z \in DOMAIN ms : DOMAIN ms[z].records = 1 .. Len(ms[z].records) /\ Len(ms[z].records) \in Nat
        /\ \A z \in DOMAIN ns : DOMAIN ns[z].records = 1 .. Len(ns[z].records) /\ Len(ns[z].records) \in Nat
    BY <1>2, RecordOf
  <1>4. f \in DOMAIN ms /\ y \in DOMAIN ms /\ f # y /\ (\A z \in DOMAIN ms : z # f => z \in DOMAIN ns)
        /\ (\A z \in DOMAIN ns : z \in DOMAIN ms /\ z # f) /\ y \in DOMAIN ns
    BY <1>1, SMTT(30)
  <1> HIDE DEF f
  <1>5. ASSUME NEW z \in DOMAIN ms, ms[z].leaf, NEW k \in DOMAIN ms[z].records
        PROVE  /\ Source(y, f, z) \in DOMAIN ns /\ ns[Source(y, f, z)].leaf
               /\ SourceAt(m, f, z, k) \in DOMAIN ns[Source(y, f, z)].records
               /\ ms[z].records[k] = ns[Source(y, f, z)].records[SourceAt(m, f, z, k)]
               /\ k \in Nat /\ (z = f => SourceAt(m, f, z, k) > m) /\ (z = y => k <= m)
    <2>1. CASE z = f
      <3>1. k \in 1 .. Len(ns[y].records) - m
        BY <1>2, <1>3, <1>4, <1>5, <2>1
      <3>2. m + k \in 1 .. Len(ns[y].records) /\ k \in Nat /\ m + k > m
        BY <1>1, <3>1
      <3>3. Source(y, f, z) = y /\ SourceAt(m, f, z, k) = m + k /\ z # y
        BY <1>4, <2>1 DEF Source, SourceAt
      <3> QED
        BY <1>1, <1>2, <1>3, <1>4, <1>5, <2>1, <3>1, <3>2, <3>3
    <2>2. CASE z = y
      <3>1. k \in 1 .. m
        BY <1>2, <1>3, <1>4, <1>5, <2>2
      <3>2. k \in 1 .. Len(ns[y].records) /\ k \in Nat /\ k <= m
        BY <1>1, <3>1
      <3>3. Source(y, f, z) = y /\ SourceAt(m, f, z, k) = k /\ z # f
        BY <1>4, <2>2 DEF Source, SourceAt
      <3> QED
        BY <1>1, <1>2, <1>3, <1>4, <1>5, <2>2, <3>1, <3>2, <3>3
    <2>3. CASE z # f /\ z # y
      <3>1. z \in DOMAIN ns /\ z # x /\ ms[z] = ns[z]
        BY <1>1, <1>2, <1>4, <1>5, <2>3
      <3>2. Source(y, f, z) = z /\ SourceAt(m, f, z, k) = k
        BY <2>3 DEF Source, SourceAt
      <3>3. k \in Nat
        BY <1>3, <1>5
      <3> QED
        BY <1>5, <2>3, <3>1, <3>2, <3>3
    <2> QED
      BY <2>1, <2>2, <2>3
  <1>6. ASSUME NEW z \in DOMAIN ns, ns[z].leaf, NEW k \in DOMAIN ns[z].records
        PROVE  \E w \in DOMAIN ms : ms[w].leaf /\
                 \E j \in DOMAIN ms[w].records : ms[w].records[j] = ns[z].records[k]
    <2>1. k \in 1 .. Len(ns[z].records)
      BY <1>3
    <2>2. CASE z = y /\ k <= m
      <3>1. k \in 1 .. m
        BY <1>1, <2>1, <2>2
      <3> QED
        BY <1>1, <1>2, <1>3, <1>4, <1>6, <2>2, <3>1
    <2>3. CASE z = y /\ k > m
      <3>1. k - m \in 1 .. Len(ns[y].records) - m /\ m + (k - m) = k
        BY <1>1, <2>1, <2>3
      <3>2. ms[f].records[k - m] = ns[z].records[k] /\ ms[f].leaf /\ k - m \in DOMAIN ms[f].records
        BY <1>1, <1>2, <1>3, <1>4, <1>6, <2>3, <3>1
      <3> QED
        BY <1>4, <3>2
    <2>4. CASE z # y
      BY <1>1, <1>2, <1>4, <1>6, <2>4
    <2>5. k <= m \/ k > m
      BY <1>1, <2>1
    <2> QED
      BY <2>2, <2>3, <2>4, <2>5
  <1> QED
    BY <1>5, <1>6 DEF f

\* The first record of the second half.
FirstOf(n) == n.records[1].val

\* What separates the leaves still does after a split.
LEMMA CutOrdered ==
  ASSUME NEW ns, NEW ms, NEW r, NEW t, NEW x, NEW i, NEW y, NEW m,
         Parting(ns, ms, r, t, x, i, y, m), Ordered(ns, t),
         NEW u, NEW p, NEW c, Cut(ns, t, u, y, m, p, c, FirstOf(ms[Len(ns) + 1]))
  PROVE  Ordered(ms, u)
  <1> DEFINE f == Len(ns) + 1  s == FirstOf(ms[f])  n == Len(ns[y].records)
  <1>1. /\ Len(ns) \in Nat /\ DOMAIN ns = 1 .. Len(ns) /\ DOMAIN ms = 1 .. f
        /\ x \in 1 .. Len(ns) /\ y \in 1 .. Len(ns) /\ x # y
        /\ \A z \in 1 .. Len(ns) : ms[z].leaf = ns[z].leaf
        /\ ms[f].leaf = ns[y].leaf
        /\ n \in Nat /\ m \in 1 .. n - 1
    BY PartingOf
  <1>2. Tree(ns, r, t) /\ ns \in Seq(Node) /\ ~ns[x].leaf /\ ms \in Seq(Node)
    BY DEF Parting, Tree, IsSplit
  <1>3. \A z \in DOMAIN ms : ms[z].leaf => \A k \in DOMAIN ms[z].records :
          /\ Source(y, f, z) \in DOMAIN ns /\ ns[Source(y, f, z)].leaf
          /\ SourceAt(m, f, z, k) \in DOMAIN ns[Source(y, f, z)].records
          /\ ms[z].records[k] = ns[Source(y, f, z)].records[SourceAt(m, f, z, k)]
          /\ k \in Nat /\ (z = f => SourceAt(m, f, z, k) > m) /\ (z = y => k <= m)
    BY CutRecords
  <1>4. /\ \A z \in 1 .. Len(ns) : Lo(u, z) = FirstMoved(p, Lo(t, z))
        /\ Lo(u, f) = c + 1 /\ c \in Nat
    BY CutSays
  <1>5. /\ \A v \in 2 .. Width(t) : /\ FirstMoved(p, v) \in 2 .. Width(u)
                                    /\ Sep(u, FirstMoved(p, v)) = Sep(t, v)
        /\ \A v \in Nat : FirstMoved(p, v) > 1 <=> v > 1
        /\ \A b \in 2 .. Width(u) :
             \/ ns[y].leaf /\ b = p + 1 /\ Sep(u, b) = s
             \/ \E v \in 2 .. Width(t) : b = FirstMoved(p, v)
        /\ \A v, w \in Nat : FirstMoved(p, v) < FirstMoved(p, w) <=> v < w
        /\ Width(u) \in Nat /\ Width(t) \in Nat /\ p \in Nat /\ p >= 1
        /\ c + 1 \in 2 .. Width(u)
    BY CutMoves
  <1>6. \A z \in 1 .. Len(ns) : /\ Lo(t, z) \in Nat /\ Hi(t, z) \in Nat
                                /\ 1 <= Lo(t, z) /\ Lo(t, z) <= Hi(t, z) /\ Hi(t, z) <= Width(t)
    BY <1>2, Described
  <1>7. /\ \A z \in DOMAIN ns : /\ DOMAIN ns[z].records = 1 .. Len(ns[z].records)
                                /\ \A k \in DOMAIN ns[z].records : ns[z].records[k].val \in Int
        /\ \A z \in DOMAIN ms : DOMAIN ms[z].records = 1 .. Len(ms[z].records) /\ Len(ms[z].records) \in Nat
    BY <1>2, RecordOf
  <1>8. /\ \A z \in DOMAIN ns : ns[z].leaf => \A j, k \in DOMAIN ns[z].records :
             j < k => ns[z].records[j].val <= ns[z].records[k].val
        /\ \A b \in 2 .. Width(t), z \in DOMAIN ns : ns[z].leaf =>
             \A k \in DOMAIN ns[z].records :
               /\ Lo(t, z) < b => ns[z].records[k].val <= Sep(t, b)
               /\ Lo(t, z) >= b => Sep(t, b) <= ns[z].records[k].val
        /\ \A z \in DOMAIN ns : ~ns[z].leaf => \A j \in DOMAIN ns[z].records :
             Lo(t, ns[z].children[j]) > 1 => ns[z].records[j].val = Sep(t, Lo(t, ns[z].children[j]))
    BY DEF Ordered
  <1>9. /\ Len(ms[f].records) = n - m /\ \A k \in 1 .. n - m : ms[f].records[k] = ns[y].records[m + k]
        /\ Len(ms[y].records) = m /\ \A k \in 1 .. m : ms[y].records[k] = ns[y].records[k]
    BY DEF Parting, IsSplit, Left, Right
  <1>10. s = ns[y].records[m + 1].val /\ m + 1 \in DOMAIN ns[y].records
    <2>1. 1 \in 1 .. n - m /\ m + 1 \in 1 .. n /\ y \in DOMAIN ns
      BY <1>1
    <2> QED
      BY <1>7, <1>9, <2>1 DEF FirstOf
  <1>11. y \in DOMAIN ns /\ f \in DOMAIN ms /\ (\A z \in DOMAIN ms : z # f => z \in 1 .. Len(ns)) /\ f # y
         /\ f \notin 1 .. Len(ns)
    BY <1>1
  <1>12. ns[y].leaf => p = Lo(t, y) /\ c = p
    BY DEF Cut
  <1>13. \A b \in 2 .. Width(t) : Sep(t, b) \in Int
    <2>1. t.sep \in [Nat -> Int]
      BY <1>2 DEF Tree, Description
    <2>2. \A b \in 2 .. Width(t) : b \in Nat
      BY <1>5
    <2> QED
      BY <2>1, <2>2 DEF Sep
  <1> HIDE DEF s, n, f
  <1>14. ASSUME NEW z \in DOMAIN ms, ms[z].leaf, NEW j \in DOMAIN ms[z].records, NEW k \in DOMAIN ms[z].records, j < k
         PROVE  ms[z].records[j].val <= ms[z].records[k].val
    <2> DEFINE q == Source(y, f, z)
    <2>1. /\ q \in DOMAIN ns /\ ns[q].leaf
          /\ SourceAt(m, f, z, j) \in DOMAIN ns[q].records /\ ms[z].records[j] = ns[q].records[SourceAt(m, f, z, j)]
          /\ SourceAt(m, f, z, k) \in DOMAIN ns[q].records /\ ms[z].records[k] = ns[q].records[SourceAt(m, f, z, k)]
          /\ j \in Nat /\ k \in Nat
      BY <1>3, <1>14
    <2>2. SourceAt(m, f, z, j) < SourceAt(m, f, z, k)
      BY <1>1, <1>14, <2>1 DEF SourceAt
    <2> HIDE DEF q
    <2> QED
      BY <1>8, <2>1, <2>2
  <1>15. ASSUME NEW b \in 2 .. Width(u), NEW z \in DOMAIN ms, ms[z].leaf, NEW k \in DOMAIN ms[z].records
         PROVE  /\ Lo(u, z) < b => ms[z].records[k].val <= Sep(u, b)
                /\ Lo(u, z) >= b => Sep(u, b) <= ms[z].records[k].val
    <2> DEFINE q == Source(y, f, z)  l == SourceAt(m, f, z, k)
    <2>1. /\ q \in DOMAIN ns /\ ns[q].leaf /\ l \in DOMAIN ns[q].records /\ ms[z].records[k] = ns[q].records[l]
          /\ (z = f => l > m) /\ (z = y => l <= m) /\ (z # f => q = z) /\ (z = f => q = y)
          /\ l \in Nat /\ q \in 1 .. Len(ns)
      <3>1. /\ q \in DOMAIN ns /\ ns[q].leaf /\ l \in DOMAIN ns[q].records /\ ms[z].records[k] = ns[q].records[l]
            /\ (z = f => l > m) /\ (z = y => k <= m) /\ k \in Nat
        BY <1>3, <1>15
      <3>2. (z # f => q = z) /\ (z = f => q = y) /\ (z # f => l = k) /\ (z = f => l = m + k)
        BY DEF Source, SourceAt
      <3> HIDE DEF q, l
      <3> QED
        BY <1>1, <1>11, <3>1, <3>2
    <2> HIDE DEF q, l
    <2>2. /\ Lo(t, q) \in Nat /\ ns[q].records[l].val \in Int
          /\ Lo(t, q) >= 1 /\ Lo(t, q) <= Width(t)
      <3>1. Lo(t, q) \in Nat /\ Hi(t, q) \in Nat /\ 1 <= Lo(t, q) /\ Lo(t, q) <= Hi(t, q) /\ Hi(t, q) <= Width(t)
        BY <1>6, <2>1
      <3> QED
        BY <1>5, <1>7, <2>1, <3>1
    <2>3. /\ z # f => Lo(u, z) = FirstMoved(p, Lo(t, q))
          /\ z = f => Lo(u, z) = p + 1 /\ Lo(t, q) = p
      BY <1>4, <1>11, <1>12, <2>1
    <2>4. CASE \E v \in 2 .. Width(t) : b = FirstMoved(p, v)
      <3>1. PICK v \in 2 .. Width(t) : b = FirstMoved(p, v)
        BY <2>4
      <3>2. v \in Nat
        BY <1>5
      <3>3. Lo(u, z) < b <=> Lo(t, q) < v
        <4>1. CASE z # f
          BY <1>5, <2>2, <2>3, <3>1, <3>2, <4>1
        <4>2. CASE z = f
          BY <1>5, <2>3, <3>1, <3>2, <4>2 DEF FirstMoved
        <4> QED
          BY <4>1, <4>2
      <3>4. Lo(u, z) \in Nat /\ b \in Nat
        <4>1. FirstMoved(p, Lo(t, q)) \in Nat
          BY <1>5, <2>2, Moving
        <4> QED
          BY <1>5, <2>3, <4>1
      <3>5. Sep(u, b) = Sep(t, v)
        BY <1>5, <3>1
      <3>6. /\ Lo(t, q) < v => ns[q].records[l].val <= Sep(t, v)
            /\ Lo(t, q) >= v => Sep(t, v) <= ns[q].records[l].val
        BY <1>8, <2>1
      <3> QED
        BY <2>1, <2>2, <3>2, <3>3, <3>4, <3>5, <3>6
    <2>5. CASE ns[y].leaf /\ b = p + 1 /\ Sep(u, b) = s
      <3>1. p = Lo(t, y) /\ s \in Int
        BY <1>7, <1>10, <1>11, <1>12, <2>5
      <3>2. CASE z = f
        <4>1. l = m + 1 \/ m + 1 < l
          BY <1>1, <2>1, <3>2
        <4>2. ns[y].records[m + 1].val <= ns[y].records[l].val
          BY <1>7, <1>8, <1>10, <1>11, <2>1, <2>2, <2>5, <3>2, <4>1
        <4>3. Lo(u, z) = b
          BY <2>3, <2>5, <3>2
        <4> QED
          BY <1>5, <1>10, <2>1, <2>5, <3>2, <4>2, <4>3
      <3>3. CASE z = y
        <4>1. l < m + 1 /\ q = y
          BY <1>1, <1>11, <2>1, <3>3
        <4>2. ns[y].records[l].val <= ns[y].records[m + 1].val
          BY <1>8, <1>10, <1>11, <2>1, <2>5, <3>3, <4>1
        <4>3. Lo(u, z) = p
          BY <1>5, <1>11, <2>3, <3>1, <3>3, <4>1 DEF FirstMoved
        <4> QED
          BY <1>5, <1>10, <2>1, <2>5, <4>1, <4>2, <4>3
      <3>4. CASE z # f /\ z # y
        <4>1. q = z /\ Lo(t, z) # p
          <5>1. Hgt(t, z) = 0 /\ Hgt(t, y) = 0 /\ Lo(t, z) = Hi(t, z) /\ Lo(t, y) = Hi(t, y)
            BY <1>2, <1>11, <2>1, <2>5, <3>4 DEF Tree, InChain
          <5>2. Lo(t, z) = Lo(t, y) => z = y
            <6>1. \A a, d \in DOMAIN ns :
                    Hgt(t, a) = Hgt(t, d) /\ Lo(t, a) <= Hi(t, d) /\ Lo(t, d) <= Hi(t, a) => a = d
              BY <1>2 DEF Tree
            <6>2. Lo(t, z) = Lo(t, y) => Lo(t, z) <= Hi(t, y) /\ Lo(t, y) <= Hi(t, z)
              BY <2>1, <2>2, <3>4, <5>1
            <6>3. z \in DOMAIN ns /\ y \in DOMAIN ns /\ Hgt(t, z) = Hgt(t, y)
              BY <1>11, <2>1, <3>4, <5>1
            <6> QED
              BY <6>1, <6>2, <6>3
          <5> QED
            BY <2>1, <3>1, <3>4, <5>2
        <4>2. CASE Lo(t, z) < p
          <5>1. p \in 2 .. Width(t) /\ Lo(u, z) = Lo(t, z) /\ ~(Lo(t, y) < p) /\ Lo(t, y) >= p
            <6>1. Lo(t, y) \in Nat /\ Hi(t, y) \in Nat /\ Lo(t, y) <= Hi(t, y) /\ Hi(t, y) <= Width(t)
              BY <1>1, <1>6
            <6>2. Lo(t, z) \in Nat /\ 1 <= Lo(t, z)
              BY <2>2, <4>1
            <6>3. p \in 2 .. Width(t)
              BY <1>5, <3>1, <4>2, <6>1, <6>2
            <6>4. Lo(u, z) = Lo(t, z)
              BY <1>5, <2>3, <3>4, <4>1, <4>2, <6>2 DEF FirstMoved
            <6> QED
              BY <3>1, <6>1, <6>3, <6>4
          <5>2. ns[z].records[l].val <= Sep(t, p) /\ Sep(t, p) <= ns[y].records[m + 1].val
            BY <1>8, <1>10, <1>11, <2>1, <2>5, <4>1, <4>2, <5>1
          <5>3. ns[z].records[l].val <= ns[y].records[m + 1].val
            <6>1. Sep(t, p) \in Int
              BY <1>13, <5>1
            <6> QED
              BY <1>7, <1>10, <1>11, <2>1, <2>2, <4>1, <5>2, <6>1, SMTT(30)
          <5>4. Lo(u, z) < b /\ ~(Lo(u, z) >= b)
            BY <1>5, <2>2, <2>5, <4>1, <4>2, <5>1
          <5> QED
            BY <1>10, <2>1, <2>5, <4>1, <5>3, <5>4
        <4>3. CASE Lo(t, z) > p
          <5>1. /\ p + 1 \in 2 .. Width(t) /\ Lo(u, z) = Lo(t, z) + 1 /\ Lo(t, y) < p + 1 /\ Lo(t, z) >= p + 1
            BY <1>5, <1>6, <1>11, <2>2, <2>3, <3>1, <3>4, <4>1, <4>3, SMTT(30) DEF FirstMoved
          <5>2. Sep(t, p + 1) <= ns[z].records[l].val /\ ns[y].records[m + 1].val <= Sep(t, p + 1)
            BY <1>8, <1>10, <1>11, <2>1, <2>5, <4>1, <4>3, <5>1
          <5>3. ns[y].records[m + 1].val <= ns[z].records[l].val
            <6>1. Sep(t, p + 1) \in Int
              BY <1>13, <5>1
            <6> QED
              BY <1>7, <1>10, <1>11, <2>1, <2>2, <4>1, <5>2, <6>1, SMTT(30)
          <5>4. Lo(u, z) >= b /\ ~(Lo(u, z) < b)
            BY <1>5, <2>2, <2>5, <4>1, <4>3, <5>1
          <5> QED
            BY <1>10, <2>1, <2>5, <4>1, <5>3, <5>4
        <4> QED
          BY <1>5, <2>2, <4>1, <4>2, <4>3
      <3> QED
        BY <3>2, <3>3, <3>4
    <2> QED
      BY <1>5, <2>4, <2>5
  <1>16. ASSUME NEW a \in 1 .. Len(ns), NEW v \in Int, Lo(t, a) > 1 => v = Sep(t, Lo(t, a)), Lo(u, a) > 1
         PROVE  v = Sep(u, Lo(u, a))
    <2>1. Lo(u, a) = FirstMoved(p, Lo(t, a)) /\ Lo(t, a) \in Nat
      BY <1>4, <1>6
    <2>2. Lo(t, a) > 1 /\ Lo(t, a) <= Width(t)
      BY <1>5, <1>6, <1>16, <2>1
    <2>3. Lo(t, a) \in 2 .. Width(t)
      BY <1>5, <2>1, <2>2
    <2> QED
      BY <1>5, <1>16, <2>1, <2>2, <2>3
  <1>17. ASSUME NEW z \in 1 .. Len(ns), ~ns[z].leaf, NEW j \in 1 .. Len(ns[z].records)
         PROVE  /\ ns[z].children[j] \in 1 .. Len(ns)
                /\ Lo(u, ns[z].children[j]) > 1 => ns[z].records[j].val = Sep(u, Lo(u, ns[z].children[j]))
    <2>1. z \in DOMAIN ns
      BY <1>1
    <2>2. Len(ns[z].children) = Len(ns[z].records) /\ \A k \in 1 .. Len(ns[z].children) : ns[z].children[k] \in DOMAIN ns
      BY <1>2, <1>17, <2>1, Family
    <2>3. ns[z].children[j] \in 1 .. Len(ns) /\ j \in DOMAIN ns[z].records
      BY <1>1, <1>7, <2>1, <2>2
    <2>4. ns[z].records[j].val \in Int
          /\ (Lo(t, ns[z].children[j]) > 1 => ns[z].records[j].val = Sep(t, Lo(t, ns[z].children[j])))
      BY <1>7, <1>8, <1>17, <2>1, <2>3
    <2> QED
      BY <1>16, <2>3, <2>4
  <1>18. ASSUME NEW z \in DOMAIN ms, ~ms[z].leaf, NEW j \in DOMAIN ms[z].records, Lo(u, ms[z].children[j]) > 1
         PROVE  ms[z].records[j].val = Sep(u, Lo(u, ms[z].children[j]))
    <2>1. j \in 1 .. Len(ms[z].records)
      BY <1>7
    <2>2. CASE z = f
      <3>1. ~ns[y].leaf
        BY <1>1, <1>18, <2>2
      <3>2. \A k \in 1 .. n - m : ms[f].children[k] = ns[y].children[m + k]
        BY <3>1 DEF Parting, IsSplit, Right, f, n
      <3>3. j \in 1 .. n - m /\ m + j \in 1 .. n
        BY <1>1, <1>9, <2>1, <2>2
      <3> QED
        BY <1>1, <1>9, <1>17, <1>18, <2>2, <3>1, <3>2, <3>3 DEF n
    <2>3. CASE z = y
      <3>1. ~ns[y].leaf
        BY <1>1, <1>18, <2>3
      <3>2. \A k \in 1 .. m : ms[y].children[k] = ns[y].children[k]
        BY <3>1 DEF Parting, IsSplit, Left
      <3>3. j \in 1 .. m /\ j \in 1 .. n
        BY <1>1, <1>9, <2>1, <2>3
      <3> QED
        BY <1>1, <1>9, <1>17, <1>18, <2>3, <3>1, <3>2, <3>3 DEF n
    <2>4. CASE z = x
      <3> DEFINE h == Len(ns[x].records)
      <3>1. /\ Len(ms[x].records) = h + 1 /\ h \in Nat /\ i \in 1 .. h
            /\ \A k \in 1 .. h + 1 :
                 /\ ms[x].records[k] = IF k <= i THEN ns[x].records[k]
                                       ELSE IF k = i + 1 THEN ms[f].records[1] ELSE ns[x].records[k - 1]
                 /\ ms[x].children[k] = IF k <= i THEN ns[x].children[k]
                                        ELSE IF k = i + 1 THEN f ELSE ns[x].children[k - 1]
        <4>1. Above(ns[x], ms[x], i, f, ms[f].records[1])
          BY DEF Parting, IsSplit, f
        <4> QED
          BY <4>1, PartingOf DEF Above
      <3>2. j \in 1 .. h + 1
        BY <2>1, <2>4, <3>1
      <3> HIDE DEF h
      <3>3. CASE j <= i
        <4>1. j \in 1 .. h /\ ms[x].records[j] = ns[x].records[j] /\ ms[x].children[j] = ns[x].children[j]
          BY <3>1, <3>2, <3>3
        <4> QED
          BY <1>1, <1>2, <1>17, <1>18, <2>4, <4>1 DEF h
      <3>4. CASE j > i + 1
        <4>a. j - 1 \in 1 .. h /\ ~(j <= i) /\ j # i + 1
          BY <3>1, <3>2, <3>4
        <4>1. j - 1 \in 1 .. h /\ ms[x].records[j] = ns[x].records[j - 1] /\ ms[x].children[j] = ns[x].children[j - 1]
          BY <3>1, <3>2, <4>a
        <4> QED
          BY <1>1, <1>2, <1>17, <1>18, <2>4, <4>1 DEF h
      <3>5. CASE j = i + 1
        <4>a. ~(i + 1 <= i)
          BY <3>1
        <4>1. ms[x].records[j] = ms[f].records[1] /\ ms[x].children[j] = f
          BY <3>1, <3>2, <3>5, <4>a
        <4>2. ms[x].records[j].val = s /\ Lo(u, ms[x].children[j]) = c + 1
          BY <1>4, <4>1 DEF s, FirstOf
        <4>3. CASE ns[y].leaf
          <5>1. \A b \in 2 .. Width(u) :
                  Sep(u, b) = IF b <= p THEN Sep(t, b) ELSE IF b = p + 1 THEN s ELSE Sep(t, b - 1)
            BY <4>3 DEF Cut, s, f
          <5>2. c + 1 = p + 1 /\ ~(p + 1 <= p) /\ p + 1 \in 2 .. Width(u)
            BY <1>5, <1>12, <4>3
          <5>3. Sep(u, p + 1) = s
            BY <5>1, <5>2
          <5> QED
            BY <2>4, <4>2, <5>2, <5>3
        <4>4. CASE ~ns[y].leaf
          <5> DEFINE e == ns[y].children[m]  g == ns[y].children[m + 1]
          <5>1. c = Hi(t, e)
            BY <4>4 DEF Cut
          <5>2. /\ m \in 1 .. n - 1 /\ m + 1 \in 1 .. n
                /\ \A k \in 1 .. n - 1 : Lo(t, ns[y].children[k + 1]) = Hi(t, ns[y].children[k]) + 1
            <6>1. LET w == ns[y].children
                  IN  Len(w) = Len(ns[y].records) /\ \A k \in 1 .. Len(w) - 1 : Lo(t, w[k + 1]) = Hi(t, w[k]) + 1
              BY <1>2, <1>11, <4>4, Family
            <6> QED
              BY <1>1, <6>1 DEF n
          <5>3. Lo(t, g) = c + 1
            BY <5>1, <5>2
          <5>4. \A b \in 2 .. Width(u) : Sep(u, b) = Sep(t, b)
            BY <4>4 DEF Cut
          <5>5. ns[y].records[m + 1].val = Sep(t, c + 1)
            <6>1. Lo(t, g) > 1
              BY <1>5, <5>3
            <6> QED
              BY <1>8, <1>10, <1>11, <4>4, <5>3, <6>1
          <5> QED
            BY <1>5, <1>10, <2>4, <4>2, <5>4, <5>5
        <4> QED
          BY <4>3, <4>4
      <3> QED
        BY <3>1, <3>2, <3>3, <3>4, <3>5
    <2>5. CASE z # f /\ z # x /\ z # y
      <3>1. z \in 1 .. Len(ns) /\ ms[z] = ns[z]
        <4>1. z \in 1 .. Len(ns)
          BY <1>11, <2>5
        <4> QED
          BY <2>5, <4>1 DEF Parting, IsSplit
      <3> QED
        BY <1>17, <1>18, <2>1, <3>1
    <2> QED
      BY <2>2, <2>3, <2>4, <2>5
  <1> QED
    BY <1>14, <1>15, <1>18 DEF Ordered

\* The records of the leaves are those of before the split.
LEMMA CutStored ==
  ASSUME NEW ns, NEW ms, NEW r, NEW t, NEW x, NEW i, NEW y, NEW m,
         Parting(ns, ms, r, t, x, i, y, m), NEW b, NEW n, Stored(ns, b, n)
  PROVE  Stored(ms, b, n)
  <1> DEFINE f == Len(ns) + 1
  <1>1. \A z \in DOMAIN ms : ms[z].leaf => \A k \in DOMAIN ms[z].records :
          /\ Source(y, f, z) \in DOMAIN ns /\ ns[Source(y, f, z)].leaf
          /\ SourceAt(m, f, z, k) \in DOMAIN ns[Source(y, f, z)].records
          /\ ms[z].records[k] = ns[Source(y, f, z)].records[SourceAt(m, f, z, k)]
          /\ k \in Nat /\ (z = f => SourceAt(m, f, z, k) > m) /\ (z = y => k <= m)
    BY CutRecords
  <1>2. \A z \in DOMAIN ns : ns[z].leaf => \A k \in DOMAIN ns[z].records :
          \E w \in DOMAIN ms : ms[w].leaf /\
            \E j \in DOMAIN ms[w].records : ms[w].records[j] = ns[z].records[k]
    BY CutRecords
  <1>3. m \in Nat
    <2>1. m \in 1 .. Len(ns[y].records) - 1 /\ Len(ns[y].records) \in Nat
      BY PartingOf
    <2> QED
      BY <2>1
  <1>4. /\ \A z \in DOMAIN ns : ns[z].leaf => \A k \in DOMAIN ns[z].records :
             ns[z].records[k].pos \in 1 .. n /\ ns[z].records[k].val = b[ns[z].records[k].pos]
        /\ \A q \in 1 .. n : \E z \in DOMAIN ns : ns[z].leaf
             /\ \E k \in DOMAIN ns[z].records : ns[z].records[k].pos = q
        /\ \A z, w \in DOMAIN ns : ns[z].leaf /\ ns[w].leaf =>
             \A j \in DOMAIN ns[z].records, k \in DOMAIN ns[w].records :
               ns[z].records[j].pos = ns[w].records[k].pos => z = w /\ j = k
    BY DEF Stored
  <1> HIDE DEF f
  <1>5. ASSUME NEW z \in DOMAIN ms, ms[z].leaf, NEW k \in DOMAIN ms[z].records
        PROVE  ms[z].records[k].pos \in 1 .. n /\ ms[z].records[k].val = b[ms[z].records[k].pos]
    BY <1>1, <1>4, <1>5
  <1>6. ASSUME NEW q \in 1 .. n
        PROVE  \E z \in DOMAIN ms : ms[z].leaf
                 /\ \E k \in DOMAIN ms[z].records : ms[z].records[k].pos = q
    <2>1. PICK z \in DOMAIN ns : ns[z].leaf /\ \E k \in DOMAIN ns[z].records : ns[z].records[k].pos = q
      BY <1>4
    <2>2. PICK k \in DOMAIN ns[z].records : ns[z].records[k].pos = q
      BY <2>1
    <2>3. PICK w \in DOMAIN ms : ms[w].leaf /\ \E j \in DOMAIN ms[w].records : ms[w].records[j] = ns[z].records[k]
      BY <1>2, <2>1
    <2> QED
      BY <2>2, <2>3
  <1>7. ASSUME NEW z \in DOMAIN ms, NEW w \in DOMAIN ms, ms[z].leaf, ms[w].leaf,
               NEW j \in DOMAIN ms[z].records, NEW k \in DOMAIN ms[w].records,
               ms[z].records[j].pos = ms[w].records[k].pos
        PROVE  z = w /\ j = k
    <2>1. Source(y, f, z) = Source(y, f, w) /\ SourceAt(m, f, z, j) = SourceAt(m, f, w, k)
      <3>1. /\ Source(y, f, z) \in DOMAIN ns /\ ns[Source(y, f, z)].leaf
            /\ SourceAt(m, f, z, j) \in DOMAIN ns[Source(y, f, z)].records
            /\ ms[z].records[j] = ns[Source(y, f, z)].records[SourceAt(m, f, z, j)]
        BY <1>1, <1>7
      <3>2. /\ Source(y, f, w) \in DOMAIN ns /\ ns[Source(y, f, w)].leaf
            /\ SourceAt(m, f, w, k) \in DOMAIN ns[Source(y, f, w)].records
            /\ ms[w].records[k] = ns[Source(y, f, w)].records[SourceAt(m, f, w, k)]
        BY <1>1, <1>7
      <3> QED
        BY <1>4, <1>7, <3>1, <3>2
    <2>2. /\ j \in Nat /\ (z = f => SourceAt(m, f, z, j) > m) /\ (z = y => j <= m)
          /\ k \in Nat /\ (w = f => SourceAt(m, f, w, k) > m) /\ (w = y => k <= m)
      BY <1>1, <1>7
    <2> QED
      BY <1>3, <2>1, <2>2 DEF Source, SourceAt
  <1> QED
    BY <1>5, <1>6, <1>7 DEF Stored

\* Nor does a split change a first record at the left edge.
LEMMA CutEdge ==
  ASSUME NEW ns, NEW ms, NEW r, NEW t, NEW x, NEW i, NEW y, NEW m,
         Parting(ns, ms, r, t, x, i, y, m), NEW b, EdgeBounded(ns, t, b, y),
         NEW u, NEW p, NEW c, NEW s, Cut(ns, t, u, y, m, p, c, s),
         NEW a \in {y, Len(ns) + 1}
  PROVE  EdgeBounded(ms, u, b, a)
  <1> DEFINE f == Len(ns) + 1
  <1>1. /\ Len(ns) \in Nat /\ DOMAIN ns = 1 .. Len(ns) /\ DOMAIN ms = 1 .. f
        /\ x \in 1 .. Len(ns) /\ y \in 1 .. Len(ns) /\ x # y
        /\ \A z \in 1 .. Len(ns) : ms[z].leaf = ns[z].leaf
        /\ Len(ns[y].records) \in Nat /\ m \in 1 .. Len(ns[y].records) - 1
        /\ Len(ns[x].records) \in Nat /\ i \in 1 .. Len(ns[x].records)
    BY PartingOf
  <1>2. /\ \A z \in 1 .. Len(ns) : Hgt(u, z) = Hgt(t, z) /\ Lo(u, z) = FirstMoved(p, Lo(t, z))
        /\ Lo(u, f) = c + 1 /\ Hgt(u, f) = Hgt(t, y)
    BY CutSays
  <1>3. c + 1 \in 2 .. Width(u) /\ c \in Nat /\ \A v \in Nat : FirstMoved(p, v) > 1 <=> v > 1
    BY CutMoves
  <1>4. \A z \in 1 .. Len(ns) : ms[z].records[1] = ns[z].records[1]
    <2>1. /\ \A z \in 1 .. Len(ns) : z # x /\ z # y => ms[z] = ns[z]
          /\ \A k \in 1 .. m : ms[y].records[k] = ns[y].records[k]
          /\ \A k \in 1 .. Len(ns[x].records) + 1 :
               ms[x].records[k] = IF k <= i THEN ns[x].records[k]
                                  ELSE IF k = i + 1 THEN ms[f].records[1] ELSE ns[x].records[k - 1]
      BY DEF Parting, IsSplit, Left, Above
    <2>2. 1 \in 1 .. m /\ 1 \in 1 .. Len(ns[x].records) + 1 /\ 1 <= i
      BY <1>1
    <2> QED
      BY <2>1, <2>2
  <1>5. a = y \/ a = f
    OBVIOUS
  <1>6. \A z \in DOMAIN ms : z # f => z \in 1 .. Len(ns)
    BY <1>1
  <1> HIDE DEF f
  <1>7. y # 0 /\ a # 0
    BY <1>1, <1>5 DEF f
  <1>8. Hgt(u, a) = Hgt(t, y)
    BY <1>1, <1>2, <1>5
  <1> SUFFICES ASSUME NEW z \in DOMAIN ms, ~ms[z].leaf, Lo(u, z) = 1
               PROVE  Cardinality(Under(b, Passed(u, b, a, z), ms[z].records[1].val)) <= Hgt(u, z)
    BY DEF EdgeBounded
  <1>9. z # f
    BY <1>2, <1>3
  <1>10. z \in 1 .. Len(ns) /\ z \in DOMAIN ns /\ ~ns[z].leaf
    BY <1>1, <1>6, <1>9
  <1>11. Lo(t, z) = 1
    <2>1. Lo(t, z) \in Nat /\ 1 <= Lo(t, z)
      BY <1>10, Placed DEF Parting
    <2> QED
      BY <1>2, <1>3, <1>10, <2>1
  <1>12. Passed(u, b, a, z) = Passed(t, b, y, z)
    BY <1>2, <1>7, <1>8, <1>10 DEF Passed
  <1>13. Cardinality(Under(b, Passed(t, b, y, z), ns[z].records[1].val)) <= Hgt(t, z)
    BY <1>10, <1>11 DEF EdgeBounded
  <1> QED
    BY <1>2, <1>4, <1>10, <1>12, <1>13

\* What separates the leaves ascends.
LEMMA SepMonotone ==
  ASSUME NEW ns, NEW r, NEW t, Tree(ns, r, t), Filled(ns, r), Ordered(ns, t),
         NEW b \in 2 .. Width(t), NEW d \in 2 .. Width(t), b <= d
  PROVE  Sep(t, b) <= Sep(t, d)
  <1>1. Width(t) \in Nat /\ DOMAIN ns = 1 .. Len(ns) /\ ns \in Seq(Node)
    BY Described DEF Tree
  <1>2. Sep(t, b) \in Int /\ Sep(t, d) \in Int
    <2>1. t.sep \in [Nat -> Int]
      BY DEF Tree, Description
    <2>2. b \in Nat /\ d \in Nat
      BY <1>1
    <2> QED
      BY <2>1, <2>2 DEF Sep
  <1>3. CASE b = d
    BY <1>2, <1>3
  <1>4. CASE b < d
    <2> DEFINE z == At(t, b)
    <2>1. b \in 1 .. Width(t)
      BY <1>1
    <2>2. z \in DOMAIN ns /\ ns[z].leaf /\ Lo(t, z) = b
      BY <1>1, <2>1, Described DEF Tree
    <2>3. z # r
      BY <2>2 DEF Tree
    <2> HIDE DEF z
    <2>4. Len(ns[z].records) >= NodeSize \div 2 /\ Len(ns[z].records) \in Nat /\ DOMAIN ns[z].records = 1 .. Len(ns[z].records)
      BY <1>1, <2>2, <2>3, RecordOf DEF Filled
    <2>5. NodeSize \div 2 >= 1
      BY NodeAssumption
    <2>6. 1 \in DOMAIN ns[z].records
      BY <2>4, <2>5, NodeAssumption
    <2>7. ns[z].records[1].val \in Int
      BY <1>1, <2>2, <2>6, RecordOf
    <2>8. Sep(t, b) <= ns[z].records[1].val /\ ns[z].records[1].val <= Sep(t, d)
      <3>1. Lo(t, z) >= b /\ Lo(t, z) < d
        BY <1>1, <1>4, <2>2
      <3> QED
        BY <2>2, <2>6, <3>1 DEF Ordered
    <2> QED
      BY <1>2, <2>7, <2>8
  <1> QED
    BY <1>1, <1>3, <1>4

\* The first record of the node that a split adds.
Boundary(ns, ms) == FirstOf(ms[Len(ns) + 1])

\* The last value.
Newest(b) == b[Len(b)]

\* The last value goes to the half that bt_insert_non_full goes to.
LEMMA CutPath ==
  ASSUME NEW ns, NEW ms, NEW r, NEW t, NEW x, NEW i, NEW y, NEW m,
         Parting(ns, ms, r, t, x, i, y, m), Ordered(ns, t),
         NEW u, NEW p, NEW c, Cut(ns, t, u, y, m, p, c, Boundary(ns, ms)),
         Filled(ms, r), NEW b, OnPath(ns, t, b, y),
         Newest(b) \in Int, NEW a, a = HalfFor(ms, x, i, Newest(b))
  PROVE  a \in {y, Fresh(ns)} /\ OnPath(ms, u, b, a)
  <1> USE DEF Fresh, Newest
  <1> DEFINE f == Len(ns) + 1  s == FirstOf(ms[f])  h == Len(ns[x].records)  d == Newest(b)
  <1>0. s = Boundary(ns, ms) /\ Cut(ns, t, u, y, m, p, c, s) /\ Cut(ns, t, u, y, m, p, c, FirstOf(ms[f])) /\ f = Fresh(ns)
    BY DEF Boundary
  <1>1. /\ Len(ns) \in Nat /\ DOMAIN ns = 1 .. Len(ns) /\ DOMAIN ms = 1 .. f
        /\ x \in 1 .. Len(ns) /\ y \in 1 .. Len(ns)
        /\ h \in Nat /\ i \in 1 .. h
    BY PartingOf
  <1>2. Tree(ns, r, t) /\ Tree(ms, r, u) /\ Ordered(ms, u) /\ ~ns[x].leaf
    BY <1>0, CutTree, CutOrdered DEF Parting
  <1>3. /\ \A k \in 1 .. h + 1 :
             /\ ms[x].records[k] = IF k <= i THEN ns[x].records[k]
                                   ELSE IF k = i + 1 THEN ms[f].records[1] ELSE ns[x].records[k - 1]
             /\ ms[x].children[k] = IF k <= i THEN ns[x].children[k]
                                    ELSE IF k = i + 1 THEN f ELSE ns[x].children[k - 1]
        /\ Len(ms[x].records) = h + 1 /\ y = ns[x].children[i] /\ ~ms[x].leaf
    BY <1>2 DEF Parting, IsSplit, Above
  <1>4. /\ Lo(u, f) = c + 1 /\ c \in Nat /\ Hi(u, y) = c
        /\ Lo(u, y) = FirstMoved(p, Lo(t, y)) /\ Hi(u, f) = LastMoved(p, Hi(t, y))
        /\ Lo(u, y) \in Nat /\ Hi(u, f) \in Nat
    BY <1>0, <1>1, CutSays
  <1>5. /\ \A v \in 2 .. Width(t) : Sep(u, FirstMoved(p, v)) = Sep(t, v)
        /\ \A z \in 2 .. Width(u) :
             \/ ns[y].leaf /\ z = p + 1 /\ Sep(u, z) = s
             \/ \E v \in 2 .. Width(t) : z = FirstMoved(p, v)
        /\ Width(u) \in Nat /\ Width(t) \in Nat /\ p \in Nat /\ p >= 1
        /\ c + 1 \in 2 .. Width(u)
    BY <1>0, CutMoves
  <1>6. ms[x].records[i + 1] = ms[f].records[1] /\ ms[x].children[i + 1] = f /\ ms[x].children[i] = y
    <2>1. i \in 1 .. h + 1 /\ i + 1 \in 1 .. h + 1 /\ i <= i /\ ~(i + 1 <= i)
      BY <1>1
    <2> QED
      BY <1>3, <2>1
  <1>7. a = IF s < d THEN f ELSE y
    BY <1>6 DEF HalfFor, FirstOf
  <1>8. s = Sep(u, c + 1)
    <2>1. x \in DOMAIN ms /\ i + 1 \in DOMAIN ms[x].records
      <3>1. x \in DOMAIN ms /\ ms \in Seq(Node)
        BY <1>1, <1>2 DEF Tree
      <3>2. i + 1 \in 1 .. h + 1
        BY <1>1
      <3> QED
        BY <1>3, <3>1, <3>2, RecordOf
    <2>2. Lo(u, ms[x].children[i + 1]) > 1
      BY <1>4, <1>5, <1>6
    <2>3. ms[x].records[i + 1].val = Sep(u, c + 1)
      <3>1. LET z == Lo(u, ms[x].children[i + 1])
            IN  z > 1 => ms[x].records[i + 1].val = Sep(u, z)
        BY <1>2, <1>3, <2>1 DEF Ordered
      <3> QED
        BY <1>4, <1>6, <2>2, <3>1
    <2> QED
      BY <1>6, <2>3 DEF FirstOf
  <1>9. /\ y # 0 /\ f # 0 /\ y \in DOMAIN ms /\ f \in DOMAIN ms /\ Len(b) >= 1
        /\ \A v \in 2 .. Width(t) : /\ v <= Lo(t, y) => Sep(t, v) <= d
                                    /\ v > Hi(t, y) => d <= Sep(t, v)
    BY <1>1 DEF OnPath
  <1>10. \A z \in 2 .. Width(u) : Sep(u, z) \in Int
    <2>1. u.sep \in [Nat -> Int]
      BY <1>2 DEF Tree, Description
    <2>2. \A z \in 2 .. Width(u) : z \in Nat
      BY <1>5
    <2> QED
      BY <2>1, <2>2 DEF Sep
  <1>11. \A z, w \in 2 .. Width(u) : z <= w => Sep(u, z) <= Sep(u, w)
    BY <1>2, SepMonotone
  <1>12. /\ Lo(t, y) \in Nat /\ Hi(t, y) \in Nat /\ Lo(t, y) <= Hi(t, y) /\ 1 <= Lo(t, y)
         /\ (ns[y].leaf => p = Lo(t, y) /\ p = Hi(t, y) /\ c = p)
         /\ (~ns[y].leaf => p = Width(t) + 1)
    <2>1. ns[y].leaf => p = Lo(t, y) /\ c = p
      BY <1>0 DEF Cut
    <2>2. ns[y].leaf => Lo(t, y) = Hi(t, y)
      BY <1>1, <1>2 DEF Tree, InChain
    <2>3. ~ns[y].leaf => p = Width(t) + 1
      BY <1>0 DEF Cut
    <2> QED
      BY <1>1, <1>2, <2>1, <2>2, <2>3, Described
  <1> HIDE DEF f, s, h, d
  <1>13. ASSUME NEW z \in 2 .. Width(u), z <= Lo(u, y)
         PROVE  Sep(u, z) <= d
    <2>1. CASE ns[y].leaf /\ z = p + 1 /\ Sep(u, z) = s
      BY <1>4, <1>5, <1>12, <1>13, <2>1 DEF FirstMoved
    <2>2. CASE \E v \in 2 .. Width(t) : z = FirstMoved(p, v)
      <3>1. PICK v \in 2 .. Width(t) : z = FirstMoved(p, v)
        BY <2>2
      <3>2. v <= Lo(t, y) /\ v \in Nat
        BY <1>4, <1>5, <1>12, <1>13, <3>1 DEF FirstMoved
      <3> QED
        BY <1>5, <1>9, <3>1, <3>2
    <2> QED
      BY <1>5, <2>1, <2>2
  <1>14. ASSUME NEW z \in 2 .. Width(u), z > Hi(u, f)
         PROVE  d <= Sep(u, z)
    <2>1. CASE ns[y].leaf /\ z = p + 1 /\ Sep(u, z) = s
      BY <1>4, <1>5, <1>12, <1>14, <2>1 DEF LastMoved
    <2>2. CASE \E v \in 2 .. Width(t) : z = FirstMoved(p, v)
      <3>1. PICK v \in 2 .. Width(t) : z = FirstMoved(p, v)
        BY <2>2
      <3>2. v > Hi(t, y) /\ v \in Nat
        <4>1. v \in Nat /\ v <= Width(t)
          BY <1>5
        <4>2. CASE ns[y].leaf
          BY <1>4, <1>5, <1>12, <1>14, <3>1, <4>1, <4>2 DEF FirstMoved, LastMoved
        <4>3. CASE ~ns[y].leaf
          BY <1>4, <1>5, <1>12, <1>14, <3>1, <4>1, <4>3 DEF FirstMoved, LastMoved
        <4> QED
          BY <4>2, <4>3
      <3> QED
        BY <1>5, <1>9, <3>1, <3>2
    <2> QED
      BY <1>5, <2>1, <2>2
  <1>15. d \in Int /\ s \in Int
    BY <1>5, <1>8, <1>10 DEF d
  <1>16. CASE s < d
    <2>1. a = f
      BY <1>7, <1>16
    <2>2. ASSUME NEW z \in 2 .. Width(u), z <= Lo(u, f)
          PROVE  Sep(u, z) <= d
      <3>1. Sep(u, z) <= s
        BY <1>4, <1>5, <1>8, <1>11, <2>2
      <3> QED
        BY <1>10, <1>15, <1>16, <3>1
    <2>3. f \in DOMAIN ms /\ Len(b) >= 1 /\ b[Len(b)] = d
      BY <1>9 DEF d
    <2>4. OnPath(ms, u, b, f)
      BY <1>14, <2>2, <2>3 DEF OnPath
    <2> QED
      BY <1>0, <2>1, <2>4
  <1>17. CASE ~(s < d)
    <2>1. a = y
      BY <1>7, <1>17
    <2>2. ASSUME NEW z \in 2 .. Width(u), z > Hi(u, y)
          PROVE  d <= Sep(u, z)
      <3>1. s <= Sep(u, z)
        <4>1. c + 1 <= z
          BY <1>4, <1>5, <2>2
        <4> QED
          BY <1>5, <1>8, <1>11, <4>1
      <3> QED
        BY <1>10, <1>15, <1>17, <3>1
    <2> QED
      BY <1>9, <1>13, <2>1, <2>2 DEF OnPath, d
  <1> QED
    BY <1>0, <1>16, <1>17

\* The nodes of a tree are regular.
LEMMA TreeRegular ==
  ASSUME NEW ns, NEW r, NEW t, Tree(ns, r, t), NEW z \in DOMAIN ns
  PROVE  Regular(ns[z])
  <1>1. ns[z] \in Node
    BY DEF Tree
  <1>2. IF ns[z].leaf THEN InChain(ns, t, z) ELSE Parent(ns, t, z)
    BY DEF Tree
  <1> QED
    BY <1>1, <1>2 DEF Regular, InChain, Parent

\* A split keeps the tree sound, and leaves room in the half it goes on in.
LEMMA PartingSound ==
  ASSUME NEW ns, NEW ms, NEW r, NEW t, NEW x, NEW i, NEW y, NEW m,
         Parting(ns, ms, r, t, x, i, y, m), m = Median(ns[y]),
         NEW b \in Seq(Val), Sound(ns, r, t, b, y), BtIsFull(ns[y]), ~BtIsFull(ns[x]),
         NEW a, a = HalfFor(ms, x, i, Newest(b))
  PROVE  (\E u : Sound(ms, r, u, b, a)) /\ a \in DOMAIN ms /\ ~BtIsFull(ms[a])
  <1> DEFINE f == Fresh(ns)  s == FirstOf(ms[f])
  <1>1. /\ Tree(ns, r, t) /\ Linked(ns, t) /\ Filled(ns, r) /\ Ordered(ns, t)
        /\ Stored(ns, b, Done(b, y)) /\ EdgeBounded(ns, t, b, y) /\ OnPath(ns, t, b, y)
    BY DEF Sound
  <1>2. /\ Len(ns) \in Nat /\ DOMAIN ns = 1 .. Len(ns) /\ DOMAIN ms = 1 .. Len(ns) + 1
        /\ y \in DOMAIN ns /\ Len(ns[y].records) \in Nat /\ m \in 1 .. Len(ns[y].records) - 1
    BY PartingOf
  <1>3. f \in DOMAIN ms /\ y \in DOMAIN ms /\ f # 0 /\ y # 0
    BY <1>2 DEF Fresh
  <1>4. s \in Int
    <2>1. /\ Len(ms[f].records) = Len(ns[y].records) - m /\ ms \in Seq(Node)
      BY DEF Parting, IsSplit, Right, Fresh
    <2>2. 1 \in 1 .. Len(ms[f].records)
      BY <1>2, <2>1
    <2> HIDE DEF f
    <2> QED
      BY <1>3, <2>1, <2>2, RecordOf DEF FirstOf
  <1>5. Newest(b) \in Int
    <2>1. Len(b) \in 1 .. Len(b)
      BY <1>1, <1>3 DEF OnPath
    <2>2. Newest(b) \in Val
      BY <2>1 DEF Newest
    <2> QED
      BY <2>2, DataAssumption DEF Val
  <1>6. f = Fresh(ns) /\ s = FirstOf(ms[f])
    OBVIOUS
  <1>7. \E u, p, c : Cut(ns, t, u, y, m, p, c, s)
    <2> HIDE DEF s
    <2> QED
      BY <1>4, CutExists
  <1> HIDE DEF f, s
  <1>8. PICK u, p, c : Cut(ns, t, u, y, m, p, c, s)
    BY <1>7
  <1>9. Filled(ms, r) /\ ~BtIsFull(ms[y]) /\ ~BtIsFull(ms[f])
    BY <1>1, <1>6, CutFilled
  <1>10. a \in {y, f} /\ OnPath(ms, u, b, a)
    <2>1. Cut(ns, t, u, y, m, p, c, Boundary(ns, ms))
      BY <1>6, <1>8 DEF Boundary, Fresh
    <2>2. a \in {y, Fresh(ns)} /\ OnPath(ms, u, b, a)
      BY <1>1, <1>5, <1>9, <2>1, CutPath
    <2> QED
      BY <1>6, <2>2
  <1>11. a \in DOMAIN ms /\ a # 0 /\ ~BtIsFull(ms[a])
    BY <1>3, <1>9, <1>10
  <1>12. Cut(ns, t, u, y, m, p, c, FirstOf(ms[Len(ns) + 1]))
    BY <1>6, <1>8 DEF Fresh
  <1>13. Tree(ms, r, u) /\ Linked(ms, u) /\ Ordered(ms, u)
    BY <1>1, <1>8, <1>12, CutTree, CutLinked, CutOrdered
  <1>14. Stored(ms, b, Done(b, a))
    <2>1. Stored(ms, b, Done(b, y))
      BY <1>1, CutStored
    <2> QED
      BY <1>3, <1>11, <2>1 DEF Done
  <1>15. EdgeBounded(ms, u, b, a)
    <2>1. a \in {y, Len(ns) + 1}
      BY <1>6, <1>10 DEF Fresh
    <2> QED
      BY <1>1, <1>8, <2>1, CutEdge
  <1> QED
    BY <1>9, <1>10, <1>11, <1>13, <1>14, <1>15 DEF Sound

\* When bt_insert_non_full splits the child it is to descend to, the tree stays
\* sound, and the half it descends to has room.
LEMMA SplitSound ==
  ASSUME NEW ns, NEW r, NEW t, NEW b \in Seq(Val), NEW x \in DOMAIN ns, ~ns[x].leaf,
         NEW i \in 1 .. Len(ns[x].records), Sound(ns, r, t, b, ns[x].children[i]),
         BtIsFull(ns[ns[x].children[i]]), ~BtIsFull(ns[x])
  PROVE  LET ms == BtSplitChild(ns, x, i)
             a  == HalfFor(ms, x, i, b[Len(b)])
         IN  (\E u : Sound(ms, r, u, b, a)) /\ a \in DOMAIN ms /\ ~BtIsFull(ms[a])
  <1> DEFINE ms == BtSplitChild(ns, x, i)  y == ns[x].children[i]  m == Median(ns[y])
             a == HalfFor(ms, x, i, Newest(b))
  <1>0. y = ns[x].children[i] /\ Sound(ns, r, t, b, y) /\ BtIsFull(ns[y])
    OBVIOUS
  <1> HIDE DEF y
  <1>1. Tree(ns, r, t)
    BY DEF Sound
  <1>2. ns \in Seq(Node) /\ Len(ns) \in Nat /\ DOMAIN ns = 1 .. Len(ns)
    BY <1>1, Described DEF Tree
  <1>3. /\ Len(ns[x].children) = Len(ns[x].records) /\ Len(ns[x].records) \in Nat
        /\ \A j \in 1 .. Len(ns[x].children) : ns[x].children[j] \in DOMAIN ns /\ Hgt(t, ns[x].children[j]) = Hgt(t, x) - 1
    BY <1>1, Family
  <1>4. y \in DOMAIN ns /\ y # x
    <2>1. y \in DOMAIN ns /\ Hgt(t, y) = Hgt(t, x) - 1
      BY <1>0, <1>3
    <2>2. Hgt(t, x) \in Nat
      BY <1>1, Placed
    <2> QED
      BY <2>1, <2>2
  <1>5. Regular(ns[x]) /\ Regular(ns[y])
    BY <1>1, <1>4, TreeRegular
  <1>6. Len(ns[y].records) \in Nat /\ Len(ns[y].records) >= 2
    BY <1>0, <1>2, <1>4, RecordOf, NodeAssumption, SMTT(30) DEF BtIsFull
  <1>7. IsSplit(ns, ms, x, i, y, Len(ns) + 1, m)
    BY <1>0, <1>2, <1>4, <1>5, <1>6, Splitting
  <1>8. m \in 1 .. Len(ns[y].records) - 1
    BY <1>6, Halving DEF Median
  <1>9. Parting(ns, ms, r, t, x, i, y, m)
    BY <1>0, <1>1, <1>7, <1>8 DEF Parting
  <1>10. m = Median(ns[y]) /\ a = HalfFor(ms, x, i, Newest(b))
    OBVIOUS
  <1> HIDE DEF ms, a, m
  <1>11. (\E u : Sound(ms, r, u, b, a)) /\ a \in DOMAIN ms /\ ~BtIsFull(ms[a])
    BY <1>0, <1>9, <1>10, PartingSound
  <1> QED
    BY <1>11 DEF ms, a, Newest

---------------------------------------------------------------------------
(* The records of a node.                                                  *)

\* bt_search_inner counts the records that are not above d, if they ascend.
LEMMA InnerSearch ==
  ASSUME NEW n, NEW l \in Nat, DOMAIN n.records = 1 .. l, Len(n.records) = l, NEW d \in Int,
         \A k \in 1 .. l : n.records[k].val \in Int,
         \A j, k \in 1 .. l : j < k => n.records[j].val <= n.records[k].val
  PROVE  /\ BtSearchInner(n, d) \in 0 .. l
         /\ \A k \in 1 .. l : k <= BtSearchInner(n, d) <=> n.records[k].val <= d
  <1> DEFINE S == { k \in DOMAIN n.records : n.records[k].val > d }
  <1>1. CASE S = {}
    <2>1. BtSearchInner(n, d) = l
      BY <1>1 DEF BtSearchInner
    <2>2. \A k \in 1 .. l : ~(n.records[k].val > d)
      BY <1>1
    <2> QED
      BY <2>1, <2>2
  <1>2. CASE S # {}
    <2>1. S \subseteq Nat
      OBVIOUS
    <2>2. PICK a \in S : \A k \in S : a <= k
      <3> HIDE DEF S
      <3> QED
        BY <1>2, <2>1, LeastNatural
    <2>3. Min(S) \in S /\ \A k \in S : Min(S) <= k
      <3> HIDE DEF S
      <3> QED
        BY <2>2 DEF Min
    <2>4. BtSearchInner(n, d) = Min(S) - 1
      BY <1>2 DEF BtSearchInner
    <2>5. Min(S) \in 1 .. l /\ n.records[Min(S)].val > d /\ n.records[Min(S)].val \in Int
      BY <2>3
    <2> DEFINE e == Min(S)
    <2>6. ASSUME NEW k \in 1 .. l
          PROVE  k < e <=> n.records[k].val <= d
      <3>0. e \in 1 .. l /\ e \in Int /\ k \in Int /\ (k \in S => e <= k) /\ n.records[k].val \in Int
            /\ n.records[e].val \in Int /\ n.records[e].val > d
        BY <2>3, <2>5, SMTT(30)
      <3>0a. k \in S <=> n.records[k].val > d
        OBVIOUS
      <3> HIDE DEF e, S
      <3>1. CASE k < e
        BY <3>0, <3>0a, <3>1
      <3>2. CASE k = e
        BY <3>0, <3>2
      <3>3. CASE e < k
        <4>1. n.records[e].val <= n.records[k].val
          BY <3>0, <3>3
        <4> QED
          BY <3>0, <3>3, <4>1
      <3> QED
        BY <3>0, <3>1, <3>2, <3>3
    <2> HIDE DEF e, S
    <2> QED
      BY <2>4, <2>5, <2>6 DEF e
  <1> QED
    BY <1>1, <1>2

\* bt_search_left counts those below d.
LEMMA LeftSearch ==
  ASSUME NEW n, NEW l \in Nat, DOMAIN n.records = 1 .. l, Len(n.records) = l, NEW d \in Int,
         \A k \in 1 .. l : n.records[k].val \in Int,
         \A j, k \in 1 .. l : j < k => n.records[j].val <= n.records[k].val
  PROVE  /\ BtSearchLeft(n, d) \in 0 .. l
         /\ \A k \in 1 .. l : k <= BtSearchLeft(n, d) <=> n.records[k].val < d
  <1> DEFINE S == { k \in DOMAIN n.records : n.records[k].val >= d }
  <1>1. CASE S = {}
    <2>1. BtSearchLeft(n, d) = l
      BY <1>1 DEF BtSearchLeft
    <2>2. \A k \in 1 .. l : ~(n.records[k].val >= d)
      BY <1>1
    <2> QED
      BY <2>1, <2>2
  <1>2. CASE S # {}
    <2>1. S \subseteq Nat
      OBVIOUS
    <2>2. PICK a \in S : \A k \in S : a <= k
      <3> HIDE DEF S
      <3> QED
        BY <1>2, <2>1, LeastNatural
    <2>3. Min(S) \in S /\ \A k \in S : Min(S) <= k
      <3> HIDE DEF S
      <3> QED
        BY <2>2 DEF Min
    <2>4. BtSearchLeft(n, d) = Min(S) - 1
      BY <1>2 DEF BtSearchLeft
    <2>5. Min(S) \in 1 .. l /\ n.records[Min(S)].val >= d /\ n.records[Min(S)].val \in Int
      BY <2>3
    <2> DEFINE e == Min(S)
    <2>6. ASSUME NEW k \in 1 .. l
          PROVE  k < e <=> n.records[k].val < d
      <3>0. e \in 1 .. l /\ e \in Int /\ k \in Int /\ (k \in S => e <= k) /\ n.records[k].val \in Int
            /\ n.records[e].val \in Int /\ n.records[e].val >= d
        BY <2>3, <2>5
      <3>0a. k \in S <=> n.records[k].val >= d
        OBVIOUS
      <3> HIDE DEF e, S
      <3>1. CASE k < e
        BY <3>0, <3>0a, <3>1
      <3>2. CASE k = e
        BY <3>0, <3>2
      <3>3. CASE e < k
        <4>1. n.records[e].val <= n.records[k].val
          BY <3>0, <3>3
        <4> QED
          BY <3>0, <3>3, <4>1
      <3> QED
        BY <3>0, <3>1, <3>2, <3>3
    <2> HIDE DEF e, S
    <2> QED
      BY <2>4, <2>5, <2>6 DEF e
  <1> QED
    BY <1>1, <1>2

\* Half of the capacity is two records or more.
LEMMA HalfCapacity ==
  NodeSize \in Nat /\ NodeSize >= 4 /\ NodeSize \div 2 \in Nat /\ NodeSize \div 2 >= 2
  BY NodeAssumption

\* A node that is not as high as the root is not the root; it holds two records.
LEMMA NotRoot ==
  ASSUME NEW ns, NEW r, NEW t, Tree(ns, r, t), Filled(ns, r), NEW z \in DOMAIN ns,
         z # r
  PROVE  Len(ns[z].records) \in Nat /\ Len(ns[z].records) >= 2
  <1>1. Len(ns[z].records) >= NodeSize \div 2
    BY DEF Filled
  <1>2. Len(ns[z].records) \in Nat
    BY RecordOf DEF Tree
  <1> QED
    BY <1>1, <1>2, HalfCapacity

\* A node that is not the root stands above as many leaves as it is high, and more.
LEMMA Wide ==
  ASSUME NEW ns, NEW r, NEW t, Tree(ns, r, t), Filled(ns, r)
  PROVE  \A z \in DOMAIN ns : z # r => Lo(t, z) + Hgt(t, z) <= Hi(t, z)
  <1> DEFINE S == { h \in Nat : \A z \in DOMAIN ns : z # r /\ Hgt(t, z) = h => Lo(t, z) + Hgt(t, z) <= Hi(t, z) }
  <1>1. 0 \in S
    <2>1. ASSUME NEW z \in DOMAIN ns, Hgt(t, z) = 0
          PROVE  Lo(t, z) + Hgt(t, z) <= Hi(t, z)
      BY <2>1, Placed
    <2> QED
      BY <2>1
  <1>2. ASSUME NEW h \in Nat, h \in S
        PROVE  h + 1 \in S
    <2>1. ASSUME NEW z \in DOMAIN ns, z # r, Hgt(t, z) = h + 1
          PROVE  Lo(t, z) + Hgt(t, z) <= Hi(t, z)
      <3>1. ~ns[z].leaf
        <4>1. ns[z].leaf => Hgt(t, z) = 0
          BY DEF Tree, InChain
        <4> QED
          BY <1>2, <2>1, <4>1
      <3> DEFINE c == ns[z].children  x == c[1]  y == c[2]
      <3>2. /\ Len(c) = Len(ns[z].records)
            /\ \A i \in 1 .. Len(c) : c[i] \in DOMAIN ns /\ Hgt(t, c[i]) = Hgt(t, z) - 1
            /\ Lo(t, c[1]) = Lo(t, z)
            /\ \A i \in 1 .. Len(c) - 1 : Lo(t, c[i + 1]) = Hi(t, c[i]) + 1
        BY <3>1, Family
      <3>3. \A i \in 1 .. Len(c) : Lo(t, z) <= Lo(t, c[i]) /\ Hi(t, c[i]) <= Hi(t, z)
        BY <3>1, ChildOrder
      <3>4. Len(ns[z].records) \in Nat /\ Len(ns[z].records) >= 2
        BY <2>1, NotRoot
      <3> HIDE DEF c
      <3>5. 1 \in 1 .. Len(c) /\ 2 \in 1 .. Len(c) /\ 1 \in 1 .. Len(c) - 1 /\ 1 + 1 = 2
        BY <3>2, <3>4
      <3>6. /\ x \in DOMAIN ns /\ Hgt(t, x) = Hgt(t, z) - 1 /\ Lo(t, x) = Lo(t, z)
            /\ y \in DOMAIN ns /\ Lo(t, y) = Hi(t, x) + 1 /\ Hi(t, y) <= Hi(t, z)
        BY <3>2, <3>3, <3>5
      <3> HIDE DEF x, y
      <3>7. /\ Hgt(t, x) \in Nat /\ Lo(t, x) \in Nat /\ Hi(t, x) \in Nat
            /\ Lo(t, y) \in Nat /\ Hi(t, y) \in Nat /\ Lo(t, y) <= Hi(t, y)
            /\ Hi(t, z) \in Nat /\ Lo(t, z) \in Nat
        BY <3>6, Placed
      <3>8. x # r
        <4>1. Hgt(t, z) <= Hgt(t, r)
          BY DEF Tree
        <4> QED
          BY <1>2, <2>1, <3>6, <3>7, <4>1
      <3>9. Lo(t, x) + Hgt(t, x) <= Hi(t, x)
        BY <1>2, <2>1, <3>6, <3>7, <3>8
      <3> QED
        BY <1>2, <2>1, <3>6, <3>7, <3>9
    <2> QED
      BY <1>2, <2>1
  <1>3. Nat \subseteq S
    <2> HIDE DEF S
    <2> QED
      BY <1>1, <1>2, SetInduction
  <1>4. \A z \in DOMAIN ns : Hgt(t, z) \in Nat
    BY Placed
  <1> QED
    BY <1>3, <1>4

\* The values below one, up to a position, are finitely many.
LEMMA UnderFinite ==
  ASSUME NEW b, NEW n \in Nat, NEW v
  PROVE  IsFiniteSet(Under(b, n, v)) /\ Cardinality(Under(b, n, v)) \in Nat
  <1>1. IsFiniteSet(1 .. n)
    BY FS_Interval
  <1>2. Under(b, n, v) \in SUBSET (1 .. n)
    BY DEF Under
  <1>3. IsFiniteSet(Under(b, n, v))
    BY <1>1, <1>2, FS_Subset
  <1> QED
    BY <1>3, FS_CardinalityType

\* The first record of an inner node is not above the second: at the left edge, more
\* values would be below it than the node is high.
LEMMA FirstRecordLow ==
  ASSUME NEW ns, NEW r, NEW t, NEW b \in Seq(Val), NEW a, a # 0 => Len(b) >= 1, Tree(ns, r, t), Filled(ns, r), Ordered(ns, t),
         Stored(ns, b, Done(b, a)), EdgeBounded(ns, t, b, a),
         NEW x \in DOMAIN ns, ~ns[x].leaf, 2 \in DOMAIN ns[x].records
  PROVE  ns[x].records[1].val <= ns[x].records[2].val
  <1> DEFINE c == ns[x].children  g == Lo(t, c[2])  v == ns[x].records[1].val  h == Hgt(t, x)
             n == Passed(t, b, a, x)
  <1>1. /\ Len(c) = Len(ns[x].records) /\ Hgt(t, x) >= 1
        /\ \A i \in 1 .. Len(c) : c[i] \in DOMAIN ns /\ Hgt(t, c[i]) = Hgt(t, x) - 1
        /\ Lo(t, c[1]) = Lo(t, x)
        /\ \A i \in 1 .. Len(c) - 1 : Lo(t, c[i + 1]) = Hi(t, c[i]) + 1
    BY Family
  <1>2. /\ Len(ns[x].records) \in Nat /\ DOMAIN ns[x].records = 1 .. Len(ns[x].records)
        /\ \A k \in DOMAIN ns[x].records : ns[x].records[k].val \in Int
    BY RecordOf DEF Tree
  <1>3. /\ 1 \in 1 .. Len(c) /\ 2 \in 1 .. Len(c) /\ 1 \in 1 .. Len(c) - 1 /\ 1 + 1 = 2
        /\ 1 \in DOMAIN ns[x].records
    BY <1>1, <1>2
  <1>4. /\ c[1] \in DOMAIN ns /\ c[2] \in DOMAIN ns /\ Hgt(t, c[1]) = h - 1
        /\ g = Hi(t, c[1]) + 1 /\ Lo(t, c[1]) = Lo(t, x)
    BY <1>1, <1>3
  <1>5. /\ h \in Nat /\ Lo(t, x) \in Nat /\ Hi(t, c[1]) \in Nat /\ Lo(t, x) >= 1
        /\ Lo(t, c[1]) <= Hi(t, c[1]) /\ g \in Nat /\ g <= Width(t)
        /\ Hgt(t, c[1]) \in Nat /\ h <= Hgt(t, r) /\ Hgt(t, r) \in Nat
    <2>1. Hgt(t, x) \in Nat /\ Lo(t, x) \in Nat /\ 1 <= Lo(t, x)
      BY Placed
    <2>2. LET z == c[1] IN Hgt(t, z) \in Nat /\ Hi(t, z) \in Nat /\ Lo(t, z) <= Hi(t, z)
      BY <1>4, Placed
    <2>3. LET z == c[2] IN Lo(t, z) \in Nat /\ Hi(t, z) \in Nat /\ Lo(t, z) <= Hi(t, z) /\ Hi(t, z) <= Width(t)
      BY <1>4, Placed
    <2>4. r \in DOMAIN ns /\ Hgt(t, x) <= Hgt(t, r)
      BY DEF Tree
    <2>5. Hgt(t, r) \in Nat
      BY <2>4, Placed
    <2>6. Width(t) \in Nat
      BY Described
    <2> HIDE DEF c
    <2> QED
      BY <2>1, <2>2, <2>3, <2>4, <2>5, <2>6
  <1>6. Width(t) \in Nat /\ DOMAIN ns = 1 .. Len(ns) /\ ns \in Seq(Node)
    BY Described DEF Tree
  <1>7. g \in 2 .. Width(t)
    BY <1>4, <1>5, <1>6
  <1>8. ns[x].records[2].val = Sep(t, g)
    <2>1. Lo(t, ns[x].children[2]) > 1
      BY <1>4, <1>5
    <2> QED
      BY <2>1 DEF Ordered
  <1>9. CASE Lo(t, x) > 1
    <2>1. Lo(t, x) \in 2 .. Width(t) /\ Lo(t, x) <= g
      BY <1>4, <1>5, <1>6, <1>9
    <2>2. v = Sep(t, Lo(t, x))
      <3>1. Lo(t, ns[x].children[1]) > 1 /\ Lo(t, ns[x].children[1]) = Lo(t, x)
        BY <1>4, <1>9
      <3> QED
        BY <1>3, <3>1 DEF Ordered
    <2> HIDE DEF g
    <2>3. Sep(t, Lo(t, x)) <= Sep(t, g)
      BY <1>7, <2>1, SepMonotone
    <2> QED
      BY <1>8, <2>2, <2>3
  <1>10. CASE Lo(t, x) = 1
    <2> SUFFICES ASSUME ~(v <= Sep(t, g))
                 PROVE  FALSE
      BY <1>8
    <2>1. n \in Nat /\ Done(b, a) <= n
      <3>1. Len(b) \in Nat
        OBVIOUS
      <3> QED
        BY <3>1 DEF Passed, Done
    <2>2. Cardinality(Under(b, n, v)) <= h
      BY <1>10 DEF EdgeBounded
    <2>3. h <= Hi(t, c[1])
      <3>1. c[1] # r
        BY <1>4, <1>5
      <3>2. Lo(t, c[1]) + Hgt(t, c[1]) <= Hi(t, c[1])
        BY <1>4, <3>1, Wide
      <3> QED
        BY <1>4, <1>5, <1>10, <3>2
    <2> DEFINE Leaf(q) == At(t, q)
               Place(q, k) == ns[Leaf(q)].records[k].pos
    <2>4. ASSUME NEW q \in 1 .. h, NEW k \in 1 .. 2
          PROVE  /\ Leaf(q) \in DOMAIN ns /\ ns[Leaf(q)].leaf /\ Lo(t, Leaf(q)) = q
                 /\ k \in DOMAIN ns[Leaf(q)].records /\ Place(q, k) \in Under(b, n, v)
      <3> DEFINE z == Leaf(q)
      <3>1. q \in 1 .. Width(t) /\ q < g
        BY <1>4, <1>5, <1>6, <2>3
      <3>2. z \in DOMAIN ns /\ ns[z].leaf /\ Lo(t, z) = q
        BY <1>6, <3>1, Described DEF Tree
      <3>3. z # r
        <4>1. Hgt(t, z) = 0
          BY <3>2 DEF Tree, InChain
        <4> QED
          BY <1>1, <1>5, <4>1
      <3> HIDE DEF z
      <3>4. Len(ns[z].records) >= 2 /\ Len(ns[z].records) \in Nat
        BY <3>2, <3>3, NotRoot
      <3>5. /\ k \in DOMAIN ns[z].records /\ ns[z].records[k].val \in Int
        BY <1>6, <3>2, <3>4, RecordOf, SMTT(30)
      <3>6. ns[z].records[k].val <= Sep(t, g)
        BY <1>7, <3>1, <3>2, <3>5 DEF Ordered
      <3>7. /\ ns[z].records[k].pos \in 1 .. Done(b, a) /\ ns[z].records[k].val = b[ns[z].records[k].pos]
        BY <3>2, <3>5 DEF Stored
      <3>8. Sep(t, g) \in Int /\ v \in Int
        BY <1>2, <1>3, <1>8
      <3>9. b[ns[z].records[k].pos] < v
        BY <3>5, <3>6, <3>7, <3>8
      <3>10. ns[z].records[k].pos \in 1 .. n
        <4>1. Done(b, a) \in Int
          BY DEF Done
        <4> QED
          BY <2>1, <3>7, <4>1
      <3> QED
        BY <3>2, <3>5, <3>9, <3>10 DEF Under, z
    <2>5. ASSUME NEW p \in 1 .. h, NEW q \in 1 .. h, NEW j \in 1 .. 2, NEW k \in 1 .. 2, Place(p, j) = Place(q, k)
          PROVE  p = q /\ j = k
      <3>1. /\ Leaf(p) \in DOMAIN ns /\ ns[Leaf(p)].leaf /\ Lo(t, Leaf(p)) = p /\ j \in DOMAIN ns[Leaf(p)].records
            /\ Leaf(q) \in DOMAIN ns /\ ns[Leaf(q)].leaf /\ Lo(t, Leaf(q)) = q /\ k \in DOMAIN ns[Leaf(q)].records
        BY <2>4
      <3>2. Leaf(p) = Leaf(q) /\ j = k
        BY <2>5, <3>1 DEF Stored
      <3> QED
        BY <3>1, <3>2
    <2> HIDE DEF Place, Leaf
    <2> DEFINE S == 0 .. h  T == Under(b, n, v)
               f == [q \in S |-> IF q = 0 THEN Place(1, 2) ELSE Place(q, 1)]
    <2>6. f \in [S -> T]
      <3>1. 1 \in 1 .. h /\ 2 \in 1 .. 2 /\ 1 \in 1 .. 2 /\ \A q \in S : q # 0 => q \in 1 .. h
        BY <1>1, <1>5
      <3> HIDE DEF T, S
      <3> QED
        BY <2>4, <3>1 DEF T
    <2>7. \A p, q \in S : p # q => f[p] # f[q]
      <3>1. 1 \in 1 .. h /\ 2 \in 1 .. 2 /\ 1 \in 1 .. 2 /\ \A q \in S : q # 0 => q \in 1 .. h
        BY <1>1, <1>5
      <3> HIDE DEF T, S
      <3> QED
        BY <2>5, <3>1
    <2>8. IsFiniteSet(S) /\ Cardinality(S) = h + 1
      BY <1>5, FS_Interval
    <2>9. IsFiniteSet(T) /\ Cardinality(T) \in Nat
      BY <2>1, UnderFinite
    <2>10. Cardinality(T) < Cardinality(S)
      BY <1>5, <2>2, <2>8, <2>9
    <2> HIDE DEF f, S, T
    <2>11. \E p, q \in S : p # q /\ f[p] = f[q]
      BY <2>6, <2>8, <2>9, <2>10, FS_PigeonHole
    <2> QED
      BY <2>7, <2>11
  <1> QED
    BY <1>5, <1>9, <1>10

\* The records of every node ascend.
LEMMA Ascend ==
  ASSUME NEW ns, NEW r, NEW t, NEW b \in Seq(Val), NEW a, a # 0 => Len(b) >= 1, Tree(ns, r, t), Filled(ns, r), Ordered(ns, t),
         Stored(ns, b, Done(b, a)), EdgeBounded(ns, t, b, a),
         NEW x \in DOMAIN ns, NEW j \in DOMAIN ns[x].records, NEW k \in DOMAIN ns[x].records, j < k
  PROVE  ns[x].records[j].val <= ns[x].records[k].val
  <1>1. /\ Len(ns[x].records) \in Nat /\ DOMAIN ns[x].records = 1 .. Len(ns[x].records)
        /\ \A l \in DOMAIN ns[x].records : ns[x].records[l].val \in Int
    BY RecordOf DEF Tree
  <1>2. CASE ns[x].leaf
    BY <1>2 DEF Ordered
  <1>3. CASE ~ns[x].leaf
    <2> DEFINE c == ns[x].children
    <2>1. /\ Len(c) = Len(ns[x].records)
          /\ \A i \in 1 .. Len(c) : c[i] \in DOMAIN ns
      BY <1>3, Family
    <2>2. /\ \A i, l \in 1 .. Len(c) : i < l => Hi(t, c[i]) < Lo(t, c[l])
      BY <1>3, ChildOrder
    <2>3. Width(t) \in Nat /\ \A i \in 1 .. Len(c) : /\ Lo(t, c[i]) \in Nat /\ Hi(t, c[i]) \in Nat /\ 1 <= Lo(t, c[i])
                                /\ Lo(t, c[i]) <= Hi(t, c[i]) /\ Hi(t, c[i]) <= Width(t)
      <3>1. Width(t) \in Nat
        BY Described
      <3> QED
        BY <2>1, <3>1, Placed
    <2>4. \A i \in DOMAIN ns[x].records : Lo(t, c[i]) > 1 => ns[x].records[i].val = Sep(t, Lo(t, c[i]))
      BY <1>3 DEF Ordered
    <2> HIDE DEF c
    <2>5. ASSUME NEW i \in DOMAIN ns[x].records, NEW l \in DOMAIN ns[x].records, 1 < i, i <= l
          PROVE  ns[x].records[i].val <= ns[x].records[l].val
      <3>1. i \in 1 .. Len(c) /\ l \in 1 .. Len(c) /\ 1 \in 1 .. Len(c) /\ 1 < l
        BY <1>1, <2>1, <2>5
      <3>2. Lo(t, c[i]) > 1 /\ Lo(t, c[l]) > 1
        BY <2>2, <2>3, <2>5, <3>1
      <3>3. Lo(t, c[i]) <= Lo(t, c[l])
        <4>1. i = l \/ i < l
          BY <1>1, <2>5
        <4>2. i < l => Hi(t, c[i]) < Lo(t, c[l])
          BY <2>2, <3>1
        <4>3. Lo(t, c[i]) \in Nat /\ Hi(t, c[i]) \in Nat /\ Lo(t, c[l]) \in Nat /\ Lo(t, c[i]) <= Hi(t, c[i])
          BY <2>3, <3>1
        <4> QED
          BY <4>1, <4>2, <4>3
      <3> DEFINE p == Lo(t, c[i])  q == Lo(t, c[l])
      <3>4. p \in 2 .. Width(t) /\ q \in 2 .. Width(t) /\ p <= q
        BY <2>3, <3>1, <3>2, <3>3
      <3>5. ns[x].records[i].val = Sep(t, p) /\ ns[x].records[l].val = Sep(t, q)
        BY <2>4, <3>2
      <3> HIDE DEF p, q
      <3>6. Sep(t, p) <= Sep(t, q)
        BY <3>4, SepMonotone
      <3> QED
        BY <3>5, <3>6
    <2>6. CASE 1 < j
      BY <1>1, <2>5, <2>6
    <2>7. CASE j = 1
      <3>1. 2 \in DOMAIN ns[x].records /\ 1 < 2 /\ 2 <= k
        BY <1>1, <2>7
      <3>2. ns[x].records[1].val <= ns[x].records[2].val
        BY <1>3, <3>1, FirstRecordLow
      <3>3. ns[x].records[2].val <= ns[x].records[k].val
        BY <2>5, <3>1
      <3> QED
        BY <1>1, <2>7, <3>1, <3>2, <3>3
    <2> QED
      BY <1>1, <2>6, <2>7
  <1> QED
    BY <1>2, <1>3

---------------------------------------------------------------------------
(* The steps of an insert.                                                 *)

\* ms has the nodes of ns where ns has them, with other records at most.
Alike(ns, ms) ==
  /\ ms \in Seq(Node) /\ DOMAIN ms = DOMAIN ns
  /\ \A z \in DOMAIN ns :
       /\ ms[z].leaf = ns[z].leaf /\ ms[z].children = ns[z].children /\ ms[z].next = ns[z].next
       /\ ~ns[z].leaf => Len(ms[z].records) = Len(ns[z].records)

\* It is the same tree, linked in the same way.
LEMMA AlikeTree ==
  ASSUME NEW ns, NEW ms, NEW r, NEW t, Alike(ns, ms), Tree(ns, r, t), Linked(ns, t)
  PROVE  Tree(ms, r, t) /\ Linked(ms, t)
  <1>1. /\ ms \in Seq(Node) /\ DOMAIN ms = DOMAIN ns
        /\ \A z \in DOMAIN ns :
             /\ ms[z].leaf = ns[z].leaf /\ ms[z].children = ns[z].children /\ ms[z].next = ns[z].next
             /\ ~ns[z].leaf => Len(ms[z].records) = Len(ns[z].records)
    BY DEF Alike
  <1>2. Linked(ms, t)
    BY <1>1 DEF Linked
  <1>3. r \in DOMAIN ms /\ Description(ms, t)
    BY <1>1 DEF Tree, Description
  <1>4. \A x \in DOMAIN ms : 1 <= Lo(t, x) /\ Lo(t, x) <= Hi(t, x) /\ Hi(t, x) <= Width(t)
    BY <1>1 DEF Tree
  <1>5. ASSUME NEW x \in DOMAIN ms
        PROVE  IF ms[x].leaf THEN InChain(ms, t, x) ELSE Parent(ms, t, x)
    <2>1. IF ns[x].leaf THEN InChain(ns, t, x) ELSE Parent(ns, t, x)
      BY <1>1 DEF Tree
    <2>2. /\ ms[x].leaf = ns[x].leaf /\ ms[x].children = ns[x].children
          /\ ~ns[x].leaf => Len(ms[x].records) = Len(ns[x].records)
      BY <1>1
    <2>3. CASE ns[x].leaf
      BY <2>1, <2>2, <2>3 DEF InChain
    <2>4. CASE ~ns[x].leaf
      BY <1>1, <2>1, <2>2, <2>4 DEF Parent
    <2> QED
      BY <2>2, <2>3, <2>4
  <1>6. \A p \in 1 .. Width(t) : ms[At(t, p)].leaf /\ Lo(t, At(t, p)) = p
    <2>a. \A p \in 1 .. Width(t) : At(t, p) \in DOMAIN ns
      <3>1. DOMAIN ns = 1 .. Len(ns) /\ \A p \in 1 .. Width(t) : At(t, p) \in 1 .. Len(ns)
        BY Described
      <3> QED
        BY <3>1
    <2>b. \A p \in 1 .. Width(t) : ns[At(t, p)].leaf /\ Lo(t, At(t, p)) = p
      BY DEF Tree
    <2>1. \A p \in 1 .. Width(t) : ns[At(t, p)].leaf /\ Lo(t, At(t, p)) = p /\ At(t, p) \in DOMAIN ns
      BY <2>a, <2>b
    <2> QED
      BY <1>1, <2>1
  <1>7. Lo(t, r) = 1 /\ Hi(t, r) = Width(t) /\ \A x \in DOMAIN ms : Hgt(t, x) <= Hgt(t, r)
    BY <1>1 DEF Tree
  <1>8. \A x, y \in DOMAIN ms :
          Hgt(t, x) = Hgt(t, y) /\ Lo(t, x) <= Hi(t, y) /\ Lo(t, y) <= Hi(t, x) => x = y
    BY <1>1 DEF Tree
  <1> QED
    BY <1>1, <1>2, <1>3, <1>4, <1>5, <1>6, <1>7, <1>8 DEF Tree

\* Only the root is as high as the root.
LEMMA HighestIsRoot ==
  ASSUME NEW ns, NEW r, NEW t, Tree(ns, r, t), NEW z \in DOMAIN ns, Hgt(t, z) = Hgt(t, r)
  PROVE  z = r
  <1>1. r \in DOMAIN ns /\ Lo(t, r) = 1 /\ Hi(t, r) = Width(t)
    BY DEF Tree
  <1>2. Lo(t, z) \in Nat /\ Hi(t, z) \in Nat /\ 1 <= Lo(t, z) /\ Lo(t, z) <= Hi(t, z) /\ Hi(t, z) <= Width(t)
    BY Placed
  <1>3. Width(t) \in Nat
    BY Described
  <1>4. Lo(t, z) <= Hi(t, r) /\ Lo(t, r) <= Hi(t, z)
    BY <1>1, <1>2, <1>3
  <1> QED
    BY <1>1, <1>4 DEF Tree

\* The last value belongs below the k-th child of x, if it is between the records of
\* that child and the next.
LEMMA DescendPath ==
  ASSUME NEW ns, NEW r, NEW t, NEW b, Tree(ns, r, t), Filled(ns, r), Ordered(ns, t),
         NEW x \in DOMAIN ns, ~ns[x].leaf, OnPath(ns, t, b, x), Newest(b) \in Int,
         NEW k \in 1 .. Len(ns[x].records),
         k > 1 => ns[x].records[k].val <= Newest(b),
         k < Len(ns[x].records) => Newest(b) <= ns[x].records[k + 1].val
  PROVE  OnPath(ns, t, b, ns[x].children[k])
  <1> DEFINE c == ns[x].children  h == Len(ns[x].records)  d == Newest(b)  y == c[k]
  <1>1. /\ h \in Nat /\ Len(c) = h
        /\ \A i \in 1 .. Len(c) : c[i] \in DOMAIN ns
        /\ Lo(t, c[1]) = Lo(t, x) /\ Hi(t, c[Len(c)]) = Hi(t, x)
        /\ \A i \in 1 .. Len(c) - 1 : Lo(t, c[i + 1]) = Hi(t, c[i]) + 1
    BY Family
  <1>2. /\ \A i, j \in 1 .. Len(c) : i < j => Hi(t, c[i]) < Lo(t, c[j])
        /\ \A j \in 1 .. Len(c) : Lo(t, x) <= Lo(t, c[j]) /\ Hi(t, c[j]) <= Hi(t, x)
    BY ChildOrder
  <1>3. /\ Len(b) >= 1 /\ x # 0
        /\ \A s \in 2 .. Width(t) : /\ s <= Lo(t, x) => Sep(t, s) <= d
                                    /\ s > Hi(t, x) => d <= Sep(t, s)
    <2>1. x # 0
      BY Described
    <2> QED
      BY <2>1 DEF OnPath, Newest
  <1>4. \A i \in 1 .. h : Lo(t, c[i]) > 1 => ns[x].records[i].val = Sep(t, Lo(t, c[i]))
    <2>1. DOMAIN ns[x].records = 1 .. h
      BY RecordOf DEF Tree
    <2> QED
      BY <2>1 DEF Ordered
  <1>5. y \in DOMAIN ns
    BY <1>1
  <1>6. /\ Lo(t, y) \in Nat /\ Hi(t, y) \in Nat /\ 1 <= Lo(t, y) /\ Lo(t, y) <= Hi(t, y)
        /\ Hi(t, y) <= Width(t) /\ y \in 1 .. Len(ns)
    <2> HIDE DEF y
    <2> QED
      BY <1>5, Placed
  <1>7. Lo(t, x) \in Nat /\ 1 <= Lo(t, x) /\ Hi(t, x) \in Nat /\ Width(t) \in Nat
    BY Placed, Described
  <1>8. \A s \in 2 .. Width(t) : Sep(t, s) \in Int
    <2>1. t.sep \in [Nat -> Int]
      BY DEF Tree, Description
    <2>2. \A s \in 2 .. Width(t) : s \in Nat
      BY <1>7
    <2> QED
      BY <2>1, <2>2 DEF Sep
  <1>9. ASSUME NEW s \in 2 .. Width(t), s <= Lo(t, y)
        PROVE  Sep(t, s) <= d
    <2>1. CASE k = 1
      BY <1>1, <1>3, <1>9, <2>1
    <2>2. CASE k > 1
      <3> DEFINE l == Lo(t, y)
      <3>1. l \in 2 .. Width(t) /\ l > 1
        BY <1>6, <1>7, <1>9
      <3>2. ns[x].records[k].val = Sep(t, l)
        BY <1>4, <3>1
      <3>3. s <= l
        BY <1>9
      <3> HIDE DEF l
      <3>4. Sep(t, s) <= Sep(t, l)
        BY <3>1, <3>3, SepMonotone
      <3>5. Sep(t, l) <= d
        BY <2>2, <3>2
      <3> QED
        BY <1>8, <3>1, <3>4, <3>5
    <2>3. k = 1 \/ k > 1
      BY <1>1
    <2> QED
      BY <2>1, <2>2, <2>3
  <1>10. ASSUME NEW s \in 2 .. Width(t), s > Hi(t, y)
         PROVE  d <= Sep(t, s)
    <2>1. CASE k = h
      BY <1>1, <1>3, <1>10, <2>1
    <2>2. CASE k < h
      <3> DEFINE l == Lo(t, c[k + 1])
      <3>0. k \in 1 .. Len(c) - 1 /\ k + 1 \in 1 .. h
        BY <1>1, <2>2
      <3>1. l = Hi(t, y) + 1 /\ l <= s
        <4>1. l = Hi(t, y) + 1
          BY <1>1, <3>0
        <4> QED
          BY <1>6, <1>10, <4>1
      <3>2. l \in 2 .. Width(t) /\ l > 1
        <4> DEFINE h1 == Hi(t, y)  w == Width(t)
        <4>1. h1 \in Nat /\ h1 >= 1 /\ w \in Nat /\ l = h1 + 1 /\ l <= s /\ s <= w /\ s \in Nat
          BY <1>6, <1>7, <3>1
        <4> HIDE DEF h1, w, l
        <4>2. l \in 2 .. w /\ l > 1
          BY <4>1
        <4> QED
          BY <4>2 DEF w
      <3>3. ns[x].records[k + 1].val = Sep(t, l)
        BY <1>4, <3>0, <3>2
      <3>4. l <= s
        BY <3>1
      <3> HIDE DEF l
      <3>5. Sep(t, l) <= Sep(t, s)
        BY <3>2, <3>4, SepMonotone
      <3>6. d <= Sep(t, l)
        BY <2>2, <3>3
      <3> QED
        BY <1>8, <3>2, <3>5, <3>6
    <2>3. k = h \/ k < h
      BY <1>1
    <2> QED
      BY <2>1, <2>2, <2>3
  <1> QED
    BY <1>3, <1>5, <1>9, <1>10 DEF OnPath, Newest

\* Of the nodes at the left edge, those as high as x are x itself or no higher than
\* what an insert below x brings.
LEMMA EdgeBeside ==
  ASSUME NEW ns, NEW r, NEW t, NEW b \in Seq(Val), NEW x \in DOMAIN ns, x # 0, Len(b) >= 1,
         Tree(ns, r, t), Filled(ns, r), Ordered(ns, t), Stored(ns, b, Done(b, x)), EdgeBounded(ns, t, b, x),
         OnPath(ns, t, b, x), Newest(b) \in Int, ~ns[x].leaf,
         NEW z \in DOMAIN ns, ~ns[z].leaf, Lo(t, z) = 1, Hgt(t, z) = Hgt(t, x), z # x
  PROVE  Lo(t, x) > 1 /\ ns[z].records[1].val <= Newest(b)
  <1> DEFINE c == ns[z].children  g == Lo(t, c[2])
  <1>1. z # r
    <2>1. z = r => x = r
      BY HighestIsRoot
    <2> QED
      BY <2>1
  <1>2. Len(ns[z].records) \in Nat /\ Len(ns[z].records) >= 2
    BY <1>1, NotRoot
  <1>3. /\ Len(c) = Len(ns[z].records)
        /\ \A i \in 1 .. Len(c) : c[i] \in DOMAIN ns
        /\ \A i \in 1 .. Len(c) - 1 : Lo(t, c[i + 1]) = Hi(t, c[i]) + 1
    BY Family
  <1>4. \A j \in 1 .. Len(c) : Lo(t, z) <= Lo(t, c[j]) /\ Hi(t, c[j]) <= Hi(t, z)
    BY ChildOrder
  <1>5. 1 \in 1 .. Len(c) /\ 2 \in 1 .. Len(c) /\ 1 \in 1 .. Len(c) - 1 /\ 1 + 1 = 2
    BY <1>2, <1>3
  <1>6. DOMAIN ns[z].records = 1 .. Len(ns[z].records) /\ \A k \in DOMAIN ns[z].records : ns[z].records[k].val \in Int
    BY RecordOf DEF Tree
  <1>7. 1 \in DOMAIN ns[z].records /\ 2 \in DOMAIN ns[z].records
    BY <1>3, <1>5, <1>6
  <1>8. ns[z].records[1].val <= ns[z].records[2].val
    BY <1>7, FirstRecordLow
  <1>9. /\ Lo(t, x) \in Nat /\ Hi(t, x) \in Nat /\ Lo(t, x) <= Hi(t, x) /\ Hi(t, x) <= Width(t)
        /\ Lo(t, z) \in Nat /\ Hi(t, z) \in Nat /\ Lo(t, z) <= Hi(t, z) /\ 1 <= Lo(t, x) /\ Width(t) \in Nat
    BY Placed, Described
  <1>10. Hi(t, z) < Lo(t, x)
    <2>1. ~(Lo(t, z) <= Hi(t, x) /\ Lo(t, x) <= Hi(t, z))
      BY DEF Tree
    <2> QED
      BY <1>9, <2>1
  <1>11. /\ c[1] \in DOMAIN ns /\ c[2] \in DOMAIN ns /\ g = Hi(t, c[1]) + 1 /\ Hi(t, c[2]) <= Hi(t, z)
    BY <1>3, <1>4, <1>5
  <1>12. Hi(t, c[1]) \in Nat /\ Hi(t, c[1]) >= 1 /\ g \in Nat /\ g <= Hi(t, c[2]) /\ Hi(t, c[2]) \in Nat
    <2>1. LET a == c[1] IN Hi(t, a) \in Nat /\ Lo(t, a) \in Nat /\ 1 <= Lo(t, a) /\ Lo(t, a) <= Hi(t, a)
      BY <1>11, Placed
    <2>2. LET a == c[2] IN Lo(t, a) \in Nat /\ Hi(t, a) \in Nat /\ Lo(t, a) <= Hi(t, a)
      BY <1>11, Placed
    <2> HIDE DEF c
    <2> QED
      BY <2>1, <2>2
  <1>13. g \in 2 .. Width(t) /\ g <= Lo(t, x) /\ g > 1 /\ Lo(t, x) > 1
    BY <1>9, <1>10, <1>11, <1>12
  <1>14. ns[z].records[2].val = Sep(t, g)
    BY <1>7, <1>13 DEF Ordered
  <1>15. Sep(t, g) <= Newest(b)
    BY <1>13 DEF OnPath, Newest
  <1> QED
    BY <1>6, <1>7, <1>8, <1>13, <1>14, <1>15

---------------------------------------------------------------------------
\* The last value is below none that it is not less than.
LEMMA UnderLast ==
  ASSUME NEW b \in Seq(Val), Len(b) >= 1, NEW v, ~(Newest(b) < v)
  PROVE  Under(b, Len(b), v) = Under(b, Len(b) - 1, v)
  <1>1. Len(b) \in Nat
    OBVIOUS
  <1>2. ASSUME NEW q \in 1 .. Len(b), b[q] < v
        PROVE  q \in 1 .. Len(b) - 1
    <2>1. q # Len(b)
      BY <1>2 DEF Newest
    <2> QED
      BY <1>1, <2>1
  <1>3. 1 .. Len(b) - 1 \subseteq 1 .. Len(b)
    BY <1>1
  <1> QED
    BY <1>2, <1>3 DEF Under

\* What an insert at x passes on to the nodes as high as x: all the values.
LEMMA PassedBelow ==
  ASSUME NEW t, NEW b, NEW x, NEW y, NEW z, x # 0, y # 0,
         Hgt(t, x) \in Nat, Hgt(t, z) \in Nat, Hgt(t, y) = Hgt(t, x) - 1
  PROVE  /\ Hgt(t, z) # Hgt(t, x) => Passed(t, b, y, z) = Passed(t, b, x, z)
         /\ Hgt(t, z) = Hgt(t, x) => Passed(t, b, y, z) = Len(b) /\ Passed(t, b, x, z) = Len(b) - 1
  BY DEF Passed

\* The records of an inner node and the place of a value among them.
LEMMA InnerPlace ==
  ASSUME NEW ns, NEW r, NEW t, NEW b \in Seq(Val), NEW a, a # 0 => Len(b) >= 1, Tree(ns, r, t), Filled(ns, r), Ordered(ns, t),
         Stored(ns, b, Done(b, a)), EdgeBounded(ns, t, b, a), NEW x \in DOMAIN ns, NEW d, d \in Int
  PROVE  /\ BtSearchInner(ns[x], d) \in 0 .. Len(ns[x].records)
         /\ \A k \in 1 .. Len(ns[x].records) : k <= BtSearchInner(ns[x], d) <=> ns[x].records[k].val <= d
  <1> DEFINE n == ns[x]  l == Len(n.records)
  <1>1. /\ l \in Nat /\ DOMAIN n.records = 1 .. l /\ Len(n.records) = l
        /\ \A k \in 1 .. l : n.records[k].val \in Int
    BY RecordOf DEF Tree
  <1>2. \A j, k \in 1 .. l : j < k => n.records[j].val <= n.records[k].val
    BY <1>1, Ascend
  <1> HIDE DEF n, l
  <1>3. /\ BtSearchInner(n, d) \in 0 .. l
        /\ \A k \in 1 .. l : k <= BtSearchInner(n, d) <=> n.records[k].val <= d
    BY <1>1, <1>2, InnerSearch
  <1> QED
    BY <1>3 DEF n, l

\* bt_insert_non_full descends to the last child whose record is not above the value.
LEMMA DescendOn ==
  ASSUME NEW ns, NEW r, NEW t, NEW b \in Seq(Val), NEW x \in DOMAIN ns, ~ns[x].leaf,
         Sound(ns, r, t, b, x), Newest(b) \in Int, BtSearchInner(ns[x], Newest(b)) # 0
  PROVE  /\ BtSearchInner(ns[x], Newest(b)) \in 1 .. Len(ns[x].records)
         /\ Sound(ns, r, t, b, ns[x].children[BtSearchInner(ns[x], Newest(b))])
  <1> DEFINE h == Len(ns[x].records)  d == Newest(b)  i == BtSearchInner(ns[x], d)
             y == ns[x].children[i]
  <1>1. /\ Tree(ns, r, t) /\ Linked(ns, t) /\ Filled(ns, r) /\ Ordered(ns, t)
        /\ Stored(ns, b, Done(b, x)) /\ EdgeBounded(ns, t, b, x) /\ OnPath(ns, t, b, x)
    BY DEF Sound
  <1>2. x # 0 /\ Len(b) >= 1 /\ Len(b) \in Nat
    <2>1. x # 0
      BY <1>1, Described
    <2> QED
      BY <1>1, <2>1 DEF OnPath
  <1>3. /\ i \in 0 .. h
        /\ \A k \in 1 .. h : k <= i <=> ns[x].records[k].val <= d
    BY <1>1, <1>2, InnerPlace
  <1>4. /\ h \in Nat /\ Len(ns[x].children) = h /\ Hgt(t, x) >= 1
        /\ \A k \in 1 .. h : ns[x].children[k] \in DOMAIN ns /\ Hgt(t, ns[x].children[k]) = Hgt(t, x) - 1
    BY <1>1, Family
  <1>5. DOMAIN ns[x].records = 1 .. h /\ \A k \in 1 .. h : ns[x].records[k].val \in Int
    BY <1>1, RecordOf DEF Tree
  <1>6. i \in 1 .. h
    BY <1>3
  <1>7. y \in DOMAIN ns /\ Hgt(t, y) = Hgt(t, x) - 1
    BY <1>4, <1>6
  <1>8. y # 0
    BY <1>1, <1>7, Described
  <1> HIDE DEF y
  <1>9. OnPath(ns, t, b, y)
    <2>1. ns[x].records[i].val <= d
      BY <1>3, <1>6
    <2>2. i < h => d <= ns[x].records[i + 1].val
      <3> SUFFICES ASSUME i < h
                   PROVE  d <= ns[x].records[i + 1].val
        OBVIOUS
      <3>1. i + 1 \in 1 .. h /\ ~(i + 1 <= i)
        BY <1>4, <1>6
      <3>2. ~(ns[x].records[i + 1].val <= d)
        BY <1>3, <3>1
      <3> QED
        BY <1>5, <3>1, <3>2
    <2> HIDE DEF i
    <2>3. OnPath(ns, t, b, ns[x].children[i])
      BY <1>1, <1>6, <2>1, <2>2, DescendPath
    <2> QED
      BY <2>3 DEF y
  <1>10. Stored(ns, b, Done(b, y))
    BY <1>1, <1>2, <1>8 DEF Done
  <1>11. EdgeBounded(ns, t, b, y)
    <2> SUFFICES ASSUME NEW z \in DOMAIN ns, ~ns[z].leaf, Lo(t, z) = 1
                 PROVE  Cardinality(Under(b, Passed(t, b, y, z), ns[z].records[1].val)) <= Hgt(t, z)
      BY DEF EdgeBounded
    <2>1. Cardinality(Under(b, Passed(t, b, x, z), ns[z].records[1].val)) <= Hgt(t, z)
      BY <1>1 DEF EdgeBounded
    <2>2. /\ Hgt(t, z) # Hgt(t, x) => Passed(t, b, y, z) = Passed(t, b, x, z)
          /\ Hgt(t, z) = Hgt(t, x) => Passed(t, b, y, z) = Len(b) /\ Passed(t, b, x, z) = Len(b) - 1
      <3>1. Hgt(t, x) \in Nat /\ Hgt(t, z) \in Nat
        BY <1>1, Placed
      <3> QED
        BY <1>2, <1>7, <1>8, <3>1, PassedBelow
    <2>3. CASE Hgt(t, z) # Hgt(t, x)
      BY <2>1, <2>2, <2>3
    <2>4. CASE Hgt(t, z) = Hgt(t, x)
      <3>1. ns[z].records[1].val <= d
        <4>1. CASE z = x
          <5>1. 1 \in 1 .. h /\ 1 <= i
            BY <1>4, <1>6
          <5> QED
            BY <1>3, <4>1, <5>1
        <4>2. CASE z # x
          BY <1>1, <1>2, <2>4, <4>2, EdgeBeside
        <4> QED
          BY <4>1, <4>2
      <3>2. ns[z].records[1].val \in Int
        <4>1. 1 \in DOMAIN ns[z].records
          <5>1. Len(ns[z].children) = Len(ns[z].records) /\ Len(ns[z].children) >= 1
            BY <1>1, Family
          <5>2. DOMAIN ns[z].records = 1 .. Len(ns[z].records) /\ Len(ns[z].records) \in Nat
            BY <1>1, RecordOf DEF Tree
          <5> QED
            BY <5>1, <5>2
        <4> QED
          BY <1>1, <4>1, RecordOf DEF Tree
      <3>3. ~(d < ns[z].records[1].val)
        BY <3>1, <3>2
      <3> DEFINE v == ns[z].records[1].val
      <3> HIDE DEF v
      <3>4. Under(b, Len(b), v) = Under(b, Len(b) - 1, v)
        BY <1>2, <3>3, UnderLast DEF v
      <3> QED
        BY <2>1, <2>2, <2>4, <3>4 DEF v
    <2> QED
      BY <2>3, <2>4
  <1>12. Sound(ns, r, t, b, y)
    BY <1>1, <1>9, <1>10, <1>11 DEF Sound
  <1> QED
    BY <1>6, <1>12 DEF y

---------------------------------------------------------------------------
\* ns with e as the first record of x.
LowerFirst(ns, x, e) == [ns EXCEPT ![x].records[1] = e]

\* What that changes.
LEMMA LoweredNodes ==
  ASSUME NEW ns, ns \in Seq(Node), NEW x \in DOMAIN ns, NEW e \in Record,
         Len(ns[x].records) >= 1
  PROVE  LET ms == LowerFirst(ns, x, e)
         IN  /\ ms \in Seq(Node) /\ DOMAIN ms = DOMAIN ns /\ Len(ms) = Len(ns)
             /\ \A z \in DOMAIN ns : z # x => ms[z] = ns[z]
             /\ ms[x].leaf = ns[x].leaf /\ ms[x].children = ns[x].children /\ ms[x].next = ns[x].next
             /\ Len(ms[x].records) = Len(ns[x].records) /\ ms[x].records[1] = e
             /\ \A k \in DOMAIN ns[x].records : k # 1 => ms[x].records[k] = ns[x].records[k]
  <1> DEFINE rs == [ns[x].records EXCEPT ![1] = e]  n == [ns[x] EXCEPT !.records = rs]
             ms == [ns EXCEPT ![x] = n]
  <1>1. LowerFirst(ns, x, e) = ms
    BY DEF LowerFirst
  <1>2. ns[x] \in Node /\ ns[x].records \in Seq(Record) /\ Len(ns[x].records) \in Nat
    <2>1. ns[x] \in Node
      OBVIOUS
    <2>2. ns[x].records \in Seq(Record)
      BY <2>1 DEF Node
    <2> QED
      BY <2>1, <2>2
  <1>3. /\ rs \in Seq(Record) /\ Len(rs) = Len(ns[x].records) /\ rs[1] = e
        /\ \A k \in DOMAIN ns[x].records : k # 1 => rs[k] = ns[x].records[k]
    <2> DEFINE s == ns[x].records
    <2>1. s \in Seq(Record)
      BY <1>2
    <2>2. 1 \in DOMAIN s
      BY <1>2
    <2> HIDE DEF s
    <2>3. [s EXCEPT ![1] = e] \in Seq(Record) /\ Len([s EXCEPT ![1] = e]) = Len(s)
      BY <2>1, <2>2
    <2>4. [s EXCEPT ![1] = e][1] = e /\ \A k \in DOMAIN s : k # 1 => [s EXCEPT ![1] = e][k] = s[k]
      BY <2>1, <2>2
    <2> QED
      BY <2>3, <2>4 DEF s
  <1> HIDE DEF rs
  <1>4. /\ n \in Node /\ n.leaf = ns[x].leaf /\ n.children = ns[x].children /\ n.next = ns[x].next
        /\ n.records = rs
    BY <1>2, <1>3 DEF Node
  <1> HIDE DEF n
  <1>5. /\ ms \in Seq(Node) /\ DOMAIN ms = DOMAIN ns /\ Len(ms) = Len(ns)
        /\ \A z \in DOMAIN ns : z # x => ms[z] = ns[z]
        /\ ms[x] = n
    BY <1>4
  <1> HIDE DEF ms
  <1> QED
    BY <1>1, <1>3, <1>4, <1>5

\* Trees with the same leaves store the same.
LEMMA StoredAlike ==
  ASSUME NEW ns, NEW ms, NEW b, NEW n, Stored(ns, b, n),
         \A z \in DOMAIN ms : ms[z].leaf => z \in DOMAIN ns /\ ns[z].leaf /\ ms[z] = ns[z],
         \A z \in DOMAIN ns : ns[z].leaf => z \in DOMAIN ms /\ ms[z].leaf /\ ms[z] = ns[z]
  PROVE  Stored(ms, b, n)
  <1>1. \A x \in DOMAIN ms : ms[x].leaf => \A k \in DOMAIN ms[x].records :
          ms[x].records[k].pos \in 1 .. n /\ ms[x].records[k].val = b[ms[x].records[k].pos]
    BY DEF Stored
  <1>2. \A q \in 1 .. n : \E x \in DOMAIN ms : ms[x].leaf
          /\ \E k \in DOMAIN ms[x].records : ms[x].records[k].pos = q
    <2> TAKE q \in 1 .. n
    <2>1. PICK x \in DOMAIN ns : ns[x].leaf /\ \E k \in DOMAIN ns[x].records : ns[x].records[k].pos = q
      BY DEF Stored
    <2> QED
      BY <2>1
  <1>3. \A x, y \in DOMAIN ms : ms[x].leaf /\ ms[y].leaf =>
          \A j \in DOMAIN ms[x].records, k \in DOMAIN ms[y].records :
            ms[x].records[j].pos = ms[y].records[k].pos => x = y /\ j = k
    BY DEF Stored
  <1> QED
    BY <1>1, <1>2, <1>3 DEF Stored

\* A value below all the records of a node makes a new first record of it, at the left
\* edge only, and goes to the first child.
LEMMA DescendLowest ==
  ASSUME NEW ns, NEW r, NEW t, NEW b \in Seq(Val), NEW x \in DOMAIN ns, ~ns[x].leaf,
         Sound(ns, r, t, b, x), Newest(b) \in Int, BtSearchInner(ns[x], Newest(b)) = 0,
         NEW e \in Record, Newest(b) = e.val
  PROVE  Sound(LowerFirst(ns, x, e), r, t, b, ns[x].children[1])
  <1> DEFINE h == Len(ns[x].records)  d == Newest(b)  y == ns[x].children[1]
             ms == LowerFirst(ns, x, e)
  <1>1. /\ Tree(ns, r, t) /\ Linked(ns, t) /\ Filled(ns, r) /\ Ordered(ns, t)
        /\ Stored(ns, b, Done(b, x)) /\ EdgeBounded(ns, t, b, x) /\ OnPath(ns, t, b, x)
    BY DEF Sound
  <1>2. x # 0 /\ Len(b) >= 1 /\ Len(b) \in Nat
    <2>1. x # 0
      BY <1>1, Described
    <2> QED
      BY <1>1, <2>1 DEF OnPath
  <1>3. \A k \in 1 .. h : ~(ns[x].records[k].val <= d)
    <2>1. \A k \in 1 .. h : k <= BtSearchInner(ns[x], d) <=> ns[x].records[k].val <= d
      BY <1>1, <1>2, InnerPlace
    <2> QED
      BY <2>1
  <1>4. /\ h \in Nat /\ Len(ns[x].children) = h /\ h >= 1
        /\ \A k \in 1 .. h : ns[x].children[k] \in DOMAIN ns /\ Hgt(t, ns[x].children[k]) = Hgt(t, x) - 1
        /\ Lo(t, y) = Lo(t, x)
    BY <1>1, Family
  <1>5. DOMAIN ns[x].records = 1 .. h /\ \A k \in 1 .. h : ns[x].records[k].val \in Int
    BY <1>1, RecordOf DEF Tree
  <1>6. 1 \in 1 .. h /\ y \in DOMAIN ns /\ Hgt(t, y) = Hgt(t, x) - 1
    BY <1>4
  <1>7. y # 0
    BY <1>1, <1>6, Described
  <1>8. Lo(t, x) = 1
    <2> SUFFICES ASSUME Lo(t, x) # 1
                 PROVE  FALSE
      OBVIOUS
    <2>1. Lo(t, x) \in 2 .. Width(t) /\ Lo(t, x) > 1 /\ Lo(t, x) \in Nat
      <3>1. Lo(t, x) \in Nat /\ 1 <= Lo(t, x) /\ Hi(t, x) \in Nat /\ Lo(t, x) <= Hi(t, x) /\ Hi(t, x) <= Width(t) /\ Width(t) \in Nat
        BY <1>1, Placed, Described
      <3> QED
        BY <3>1
    <2>2. ns[x].records[1].val = Sep(t, Lo(t, x))
      <3>1. 1 \in DOMAIN ns[x].records /\ Lo(t, ns[x].children[1]) = Lo(t, x)
        BY <1>4, <1>5, <1>6
      <3> QED
        BY <1>1, <2>1, <3>1 DEF Ordered
    <2>3. Lo(t, x) <= Lo(t, x)
      BY <2>1
    <2>4. Sep(t, Lo(t, x)) <= d
      BY <1>1, <1>2, <2>1, <2>3 DEF OnPath, Newest
    <2> QED
      BY <1>3, <1>6, <2>2, <2>4
  <1>9. OnPath(ns, t, b, y)
    <2>1. 1 < h => d <= ns[x].records[1 + 1].val
      <3> SUFFICES ASSUME 1 < h
                   PROVE  d <= ns[x].records[1 + 1].val
        OBVIOUS
      <3>1. 1 + 1 \in 1 .. h
        BY <1>4
      <3>2. ~(ns[x].records[1 + 1].val <= d) /\ ns[x].records[1 + 1].val \in Int
        BY <1>3, <1>5, <3>1
      <3> QED
        BY <3>2
    <2>2. ~(1 > 1)
      OBVIOUS
    <2>3. OnPath(ns, t, b, ns[x].children[1])
      BY <1>1, <1>6, <2>1, <2>2, DescendPath
    <2> QED
      BY <2>3 DEF y
  <1> HIDE DEF y
  <1>10. /\ ms \in Seq(Node) /\ DOMAIN ms = DOMAIN ns /\ Len(ms) = Len(ns)
         /\ \A z \in DOMAIN ns : z # x => ms[z] = ns[z]
         /\ ms[x].leaf = ns[x].leaf /\ ms[x].children = ns[x].children /\ ms[x].next = ns[x].next
         /\ Len(ms[x].records) = Len(ns[x].records) /\ ms[x].records[1] = e
         /\ \A k \in DOMAIN ns[x].records : k # 1 => ms[x].records[k] = ns[x].records[k]
    <2>1. ns \in Seq(Node)
      BY <1>1 DEF Tree
    <2> QED
      BY <1>4, <2>1, LoweredNodes
  <1> HIDE DEF ms
  <1>11. \A z \in DOMAIN ns : ms[z].leaf = ns[z].leaf
    BY <1>10
  <1>12. \A z \in DOMAIN ns : ns[z].leaf => ms[z] = ns[z]
    BY <1>10
  <1>13. Tree(ms, r, t) /\ Linked(ms, t)
    <2>1. Alike(ns, ms)
      BY <1>10 DEF Alike
    <2> QED
      BY <1>1, <2>1, AlikeTree
  <1>14. Filled(ms, r)
    <2>1. \A z \in DOMAIN ns : Len(ms[z].records) = Len(ns[z].records)
      BY <1>10
    <2> QED
      BY <1>1, <1>10, <2>1 DEF Filled
  <1>15. Ordered(ms, t)
    <2>1. \A z \in DOMAIN ms : ms[z].leaf => \A j, k \in DOMAIN ms[z].records :
            j < k => ms[z].records[j].val <= ms[z].records[k].val
      BY <1>1, <1>10, <1>11, <1>12 DEF Ordered
    <2>2. \A s \in 2 .. Width(t), z \in DOMAIN ms : ms[z].leaf =>
            \A k \in DOMAIN ms[z].records :
              /\ Lo(t, z) < s => ms[z].records[k].val <= Sep(t, s)
              /\ Lo(t, z) >= s => Sep(t, s) <= ms[z].records[k].val
      BY <1>1, <1>10, <1>11, <1>12 DEF Ordered
    <2>3. ASSUME NEW z \in DOMAIN ms, ~ms[z].leaf, NEW i \in DOMAIN ms[z].records,
                 Lo(t, ms[z].children[i]) > 1
          PROVE  ms[z].records[i].val = Sep(t, Lo(t, ms[z].children[i]))
      <3>1. z \in DOMAIN ns /\ ~ns[z].leaf /\ ms[z].children = ns[z].children
        BY <1>10, <1>11, <2>3
      <3>2. i \in DOMAIN ns[z].records
        <4>1. DOMAIN ns[z].records = 1 .. Len(ns[z].records)
          BY <1>1, <3>1, RecordOf DEF Tree
        <4>2. DOMAIN ms[z].records = 1 .. Len(ms[z].records)
          BY <1>10, RecordOf
        <4> QED
          BY <1>10, <3>1, <4>1, <4>2
      <3>3. ms[z].records[i] = ns[z].records[i]
        <4>1. CASE z # x
          BY <1>10, <3>1, <4>1
        <4>2. CASE z = x
          <5>1. i # 1
            BY <1>4, <1>8, <2>3, <3>1, <4>2 DEF y
          <5> QED
            BY <1>10, <3>2, <4>2, <5>1
        <4> QED
          BY <4>1, <4>2
      <3>4. Lo(t, ns[z].children[i]) > 1
        BY <2>3, <3>1
      <3>5. ns[z].records[i].val = Sep(t, Lo(t, ns[z].children[i]))
        BY <1>1, <3>1, <3>2, <3>4 DEF Ordered
      <3> QED
        BY <3>1, <3>3, <3>5
    <2> QED
      BY <2>1, <2>2, <2>3 DEF Ordered
  <1>16. Stored(ms, b, Done(b, y))
    <2>1. Stored(ns, b, Done(b, y))
      BY <1>1, <1>2, <1>7 DEF Done
    <2> DEFINE n == Done(b, y)
    <2>2. Stored(ns, b, n)
      BY <2>1
    <2> HIDE DEF n
    <2>3. Stored(ms, b, n)
      <3>1. \A z \in DOMAIN ms : ms[z].leaf => z \in DOMAIN ns /\ ns[z].leaf /\ ms[z] = ns[z]
        BY <1>10, <1>11, <1>12
      <3>2. \A z \in DOMAIN ns : ns[z].leaf => z \in DOMAIN ms /\ ms[z].leaf /\ ms[z] = ns[z]
        BY <1>10, <1>11, <1>12
      <3> QED
        BY <2>2, <3>1, <3>2, StoredAlike
    <2> QED
      BY <2>3 DEF n
  <1>17. EdgeBounded(ms, t, b, y)
    <2> SUFFICES ASSUME NEW z \in DOMAIN ns, ~ns[z].leaf, Lo(t, z) = 1
                 PROVE  Cardinality(Under(b, Passed(t, b, y, z), ms[z].records[1].val)) <= Hgt(t, z)
      BY <1>10, <1>11 DEF EdgeBounded
    <2>1. Cardinality(Under(b, Passed(t, b, x, z), ns[z].records[1].val)) <= Hgt(t, z)
      BY <1>1 DEF EdgeBounded
    <2>2. /\ Hgt(t, z) # Hgt(t, x) => Passed(t, b, y, z) = Passed(t, b, x, z)
          /\ Hgt(t, z) = Hgt(t, x) => Passed(t, b, y, z) = Len(b) /\ Passed(t, b, x, z) = Len(b) - 1
      <3>1. Hgt(t, x) \in Nat /\ Hgt(t, z) \in Nat
        BY <1>1, Placed
      <3> QED
        BY <1>2, <1>6, <1>7, <3>1, PassedBelow
    <2>3. CASE z # x
      <3>1. Hgt(t, z) # Hgt(t, x)
        <4>1. Hgt(t, z) = Hgt(t, x) => Lo(t, x) > 1
          BY <1>1, <1>2, <2>3, EdgeBeside
        <4> QED
          BY <1>8, <4>1
      <3>2. ms[z].records[1] = ns[z].records[1]
        BY <1>10, <2>3
      <3> QED
        BY <2>1, <2>2, <3>1, <3>2
    <2>4. CASE z = x
      <3> DEFINE v == ns[x].records[1].val  S == Under(b, Len(b), d)  T == Under(b, Len(b) - 1, v)
      <3>1. ~(d < d) /\ v \in Int /\ d < v
        BY <1>3, <1>5, <1>6
      <3>2. S = Under(b, Len(b) - 1, d)
        <4> HIDE DEF d
        <4>1. ~(Newest(b) < d)
          BY <3>1 DEF d
        <4> QED
          BY <1>2, <4>1, UnderLast
      <3>3. S \subseteq T
        <4>1. \A q \in 1 .. Len(b) - 1 : b[q] \in Int
          <5>1. \A q \in 1 .. Len(b) - 1 : b[q] \in Val
            BY <1>2
          <5> QED
            BY <5>1, DataAssumption DEF Val
        <4>2. \A q \in 1 .. Len(b) - 1 : b[q] < d => b[q] < v
          BY <3>1, <4>1
        <4> QED
          BY <3>2, <4>2 DEF Under
      <3>4. IsFiniteSet(T) /\ Cardinality(T) \in Nat
        <4>1. Len(b) - 1 \in Nat
          BY <1>2
        <4> HIDE DEF v
        <4> QED
          BY <4>1, UnderFinite
      <3> HIDE DEF S, T
      <3>5. Cardinality(S) <= Cardinality(T) /\ Cardinality(S) \in Nat
        <4>1. IsFiniteSet(S) /\ Cardinality(S) <= Cardinality(T)
          BY <3>3, <3>4, FS_Subset
        <4> QED
          BY <4>1, FS_CardinalityType
      <3>6. Cardinality(T) <= Hgt(t, z)
        BY <2>1, <2>2, <2>4 DEF T
      <3>7. Hgt(t, z) \in Nat
        BY <1>1, Placed
      <3>8. Cardinality(S) <= Hgt(t, z)
        BY <3>4, <3>5, <3>6, <3>7
      <3>9. ms[z].records[1].val = d
        BY <1>10, <2>4
      <3>10. Passed(t, b, y, z) = Len(b)
        BY <2>2, <2>4
      <3> QED
        BY <3>8, <3>9, <3>10 DEF S
    <2> QED
      BY <2>3, <2>4
  <1>18. OnPath(ms, t, b, y)
    BY <1>9, <1>10 DEF OnPath
  <1> QED
    BY <1>13, <1>14, <1>15, <1>16, <1>17, <1>18 DEF Sound, ms, y

---------------------------------------------------------------------------
\* ns with e as the p-th record of the leaf a.
WithRecord(ns, a, p, e) == [ns EXCEPT ![a].records = InsertAt(@, p, e)]

\* Where the k-th record of the leaf a was before.
Before(p, k) == IF k < p THEN k ELSE k - 1

\* ms has e there, and nothing else has changed.
Added(ns, ms, a, p, e) ==
  LET l == Len(ns[a].records)
  IN  /\ ms \in Seq(Node) /\ DOMAIN ms = DOMAIN ns /\ Len(ms) = Len(ns)
      /\ \A z \in DOMAIN ns : z # a => ms[z] = ns[z]
      /\ ms[a].leaf = ns[a].leaf /\ ms[a].children = ns[a].children /\ ms[a].next = ns[a].next
      /\ l \in Nat /\ Len(ms[a].records) = l + 1 /\ DOMAIN ms[a].records = 1 .. l + 1
      /\ DOMAIN ns[a].records = 1 .. l /\ ms[a].records[p] = e
      /\ \A k \in 1 .. l + 1 : k # p => /\ Before(p, k) \in 1 .. l
                                        /\ ms[a].records[k] = ns[a].records[Before(p, k)]

\* That is so.
LEMMA RecordAdded ==
  ASSUME NEW ns, ns \in Seq(Node), NEW a \in DOMAIN ns, NEW e \in Record,
         NEW p \in 1 .. Len(ns[a].records) + 1
  PROVE  Added(ns, WithRecord(ns, a, p, e), a, p, e)
  <1> DEFINE rs == InsertAt(ns[a].records, p, e)  n == [ns[a] EXCEPT !.records = rs]
             ms == [ns EXCEPT ![a] = n]  l == Len(ns[a].records)
  <1>1. WithRecord(ns, a, p, e) = ms
    BY DEF WithRecord
  <1>2. ns[a] \in Node /\ ns[a].records \in Seq(Record) /\ l \in Nat /\ DOMAIN ns[a].records = 1 .. l
    <2>1. ns[a] \in Node
      OBVIOUS
    <2>2. ns[a].records \in Seq(Record)
      BY <2>1 DEF Node
    <2> QED
      BY <2>1, <2>2
  <1>3. /\ rs \in Seq(Record) /\ Len(rs) = l + 1
        /\ \A k \in 1 .. l + 1 :
             rs[k] = IF k < p THEN ns[a].records[k] ELSE IF k = p THEN e ELSE ns[a].records[k - 1]
    BY <1>2, Inserting, SMTT(30)
  <1> HIDE DEF rs
  <1>4. /\ n \in Node /\ n.leaf = ns[a].leaf /\ n.children = ns[a].children /\ n.next = ns[a].next
        /\ n.records = rs
    BY <1>2, <1>3 DEF Node
  <1> HIDE DEF n
  <1>5. /\ ms \in Seq(Node) /\ DOMAIN ms = DOMAIN ns /\ Len(ms) = Len(ns)
        /\ \A z \in DOMAIN ns : z # a => ms[z] = ns[z]
        /\ ms[a] = n
    BY <1>4
  <1>6. DOMAIN rs = 1 .. l + 1
    BY <1>3
  <1> HIDE DEF ms
  <1>7. p \in 1 .. l + 1
    OBVIOUS
  <1> HIDE DEF l
  <1>8. \A k \in 1 .. l + 1 : k # p => /\ Before(p, k) \in 1 .. l
                                       /\ rs[k] = ns[a].records[Before(p, k)]
    <2> TAKE k \in 1 .. l + 1
    <2>1. CASE k < p
      BY <1>2, <1>3, <1>7, <2>1 DEF Before
    <2>2. CASE ~(k < p)
      BY <1>2, <1>3, <1>7, <2>2 DEF Before
    <2> QED
      BY <2>1, <2>2
  <1>9. rs[p] = e
    BY <1>2, <1>3, <1>7
  <1> QED
    BY <1>1, <1>2, <1>3, <1>4, <1>5, <1>6, <1>8, <1>9 DEF l, Added

\* A record of the leaf is the new one or an old one; the old ones keep their order.
LEMMA OldOrder ==
  ASSUME NEW l \in Nat, NEW p \in 1 .. l + 1, NEW j \in 1 .. l + 1, NEW k \in 1 .. l + 1
  PROVE  /\ j < k /\ j # p /\ k # p => Before(p, j) < Before(p, k)
         /\ j < p => Before(p, j) = j
         /\ k > p => Before(p, k) = k - 1
         /\ j # p /\ k # p /\ Before(p, j) = Before(p, k) => j = k
  BY DEF Before

\* bt_insert_non_full on a leaf with room ends the insert.
LEMMA LeafInsert ==
  ASSUME NEW ns, NEW r, NEW t, NEW b \in Seq(Val), NEW a \in DOMAIN ns, ns[a].leaf,
         Sound(ns, r, t, b, a), ~BtIsFull(ns[a]), Newest(b) \in Int,
         NEW e \in Record, Newest(b) = e.val, Len(b) = e.pos
  PROVE  Sound(WithRecord(ns, a, BtSearchInner(ns[a], Newest(b)) + 1, e), r, t, b, 0)
  <1> DEFINE d == Newest(b)  i == BtSearchInner(ns[a], d)  p == i + 1
             l == Len(ns[a].records)  ms == WithRecord(ns, a, p, e)
  <1>1. /\ Tree(ns, r, t) /\ Linked(ns, t) /\ Filled(ns, r) /\ Ordered(ns, t)
        /\ Stored(ns, b, Done(b, a)) /\ EdgeBounded(ns, t, b, a) /\ OnPath(ns, t, b, a)
    BY DEF Sound
  <1>2. a # 0 /\ Len(b) >= 1 /\ Len(b) \in Nat
    <2>1. a # 0
      BY <1>1, Described
    <2> QED
      BY <1>1, <2>1 DEF OnPath
  <1>3. /\ i \in 0 .. l
        /\ \A k \in 1 .. l : k <= i <=> ns[a].records[k].val <= d
    BY <1>1, <1>2, InnerPlace
  <1>4. ns \in Seq(Node)
    BY <1>1 DEF Tree
  <1>5. l \in Nat /\ DOMAIN ns[a].records = 1 .. l /\ \A k \in 1 .. l : ns[a].records[k].val \in Int
    BY <1>4, RecordOf
  <1>6. p \in 1 .. l + 1
    BY <1>3, <1>5
  <1>7. \A k \in 1 .. l : k < p <=> ns[a].records[k].val <= d
    BY <1>3, <1>5
  <1> HIDE DEF i, p
  <1>8. /\ ms \in Seq(Node) /\ DOMAIN ms = DOMAIN ns /\ Len(ms) = Len(ns)
        /\ \A z \in DOMAIN ns : z # a => ms[z] = ns[z]
        /\ ms[a].leaf = ns[a].leaf /\ ms[a].children = ns[a].children /\ ms[a].next = ns[a].next
        /\ Len(ms[a].records) = l + 1 /\ DOMAIN ms[a].records = 1 .. l + 1
        /\ ms[a].records[p] = e
        /\ \A k \in 1 .. l + 1 : k # p => /\ Before(p, k) \in 1 .. l
                                          /\ ms[a].records[k] = ns[a].records[Before(p, k)]
    <2>1. p \in 1 .. Len(ns[a].records) + 1
      BY <1>6
    <2> HIDE DEF l
    <2>2. Added(ns, ms, a, p, e)
      BY <1>4, <2>1, RecordAdded
    <2> HIDE DEF ms
    <2> QED
      BY <2>2 DEF l, Added
  <1> HIDE DEF ms
  <1>9. \A z \in DOMAIN ns : ms[z].leaf = ns[z].leaf
    BY <1>8
  <1>10. \A z \in DOMAIN ns : ~ns[z].leaf => ms[z] = ns[z]
    BY <1>8
  <1>11. Tree(ms, r, t) /\ Linked(ms, t)
    <2>1. Alike(ns, ms)
      BY <1>8 DEF Alike
    <2> QED
      BY <1>1, <2>1, AlikeTree
  <1>12. Filled(ms, r)
    <2> SUFFICES ASSUME NEW z \in DOMAIN ms
                 PROVE  /\ Len(ms[z].records) <= NodeSize
                        /\ z # r => Len(ms[z].records) >= NodeSize \div 2
      BY DEF Filled
    <2>1. /\ Len(ns[z].records) <= NodeSize
          /\ z # r => Len(ns[z].records) >= NodeSize \div 2
      BY <1>1, <1>8 DEF Filled
    <2>2. CASE z # a
      BY <1>8, <2>1, <2>2
    <2>3. CASE z = a
      <3>1. l < NodeSize
        BY <1>5, HalfCapacity DEF BtIsFull
      <3> QED
        BY <1>5, <1>8, <2>1, <2>3, <3>1, HalfCapacity
    <2> QED
      BY <2>2, <2>3
  <1>13. \A k \in 1 .. l + 1 : ms[a].records[k].val \in Int
    BY <1>8, RecordOf
  <1>14. Ordered(ms, t)
    <2>1. ASSUME NEW j \in 1 .. l + 1, NEW k \in 1 .. l + 1, j < k
          PROVE  ms[a].records[j].val <= ms[a].records[k].val
      <3>1. \A g, h \in 1 .. l : g < h => ns[a].records[g].val <= ns[a].records[h].val
        BY <1>1, <1>5 DEF Ordered
      <3>2. CASE j # p /\ k # p
        <4>1. Before(p, j) \in 1 .. l /\ Before(p, k) \in 1 .. l /\ Before(p, j) < Before(p, k)
          BY <1>5, <1>6, <1>8, <2>1, <3>2, OldOrder
        <4>2. ns[a].records[Before(p, j)].val <= ns[a].records[Before(p, k)].val
          BY <3>1, <4>1
        <4> QED
          BY <1>8, <3>2, <4>2
      <3>3. CASE k = p
        <4>0. j # p /\ j < p
          BY <1>5, <2>1, <3>3
        <4>1. j # p /\ Before(p, j) = j /\ Before(p, j) \in 1 .. l
          BY <1>8, <4>0 DEF Before
        <4>2. ns[a].records[j].val <= d
          BY <1>7, <2>1, <3>3, <4>1
        <4> QED
          BY <1>8, <3>3, <4>1, <4>2
      <3>4. CASE j = p
        <4>0. k # p /\ ~(k < p) /\ ~(k - 1 < p)
          BY <1>5, <1>6, <2>1, <3>4
        <4>1. k # p /\ Before(p, k) = k - 1 /\ Before(p, k) \in 1 .. l /\ ~(k - 1 < p)
          BY <1>8, <4>0 DEF Before
        <4>2. ~(ns[a].records[k - 1].val <= d) /\ ns[a].records[k - 1].val \in Int
          BY <1>5, <1>7, <4>1
        <4>3. d <= ns[a].records[k - 1].val
          BY <4>2
        <4> QED
          BY <1>8, <3>4, <4>1, <4>3
      <3> QED
        BY <3>2, <3>3, <3>4
    <2>2. \A z \in DOMAIN ms : ms[z].leaf => \A j, k \in DOMAIN ms[z].records :
            j < k => ms[z].records[j].val <= ms[z].records[k].val
      <3> SUFFICES ASSUME NEW z \in DOMAIN ms, ms[z].leaf, NEW j \in DOMAIN ms[z].records,
                          NEW k \in DOMAIN ms[z].records, j < k
                   PROVE  ms[z].records[j].val <= ms[z].records[k].val
        OBVIOUS
      <3>1. CASE z = a
        BY <1>8, <2>1, <3>1
      <3>2. CASE z # a
        BY <1>1, <1>8, <3>2 DEF Ordered
      <3> QED
        BY <3>1, <3>2
    <2>3. ASSUME NEW s \in 2 .. Width(t), NEW k \in 1 .. l + 1
          PROVE  /\ Lo(t, a) < s => ms[a].records[k].val <= Sep(t, s)
                 /\ Lo(t, a) >= s => Sep(t, s) <= ms[a].records[k].val
      <3>1. CASE k # p
        <4>1. Before(p, k) \in 1 .. l /\ ms[a].records[k] = ns[a].records[Before(p, k)]
          BY <1>8, <3>1
        <4>2. LET g == Before(p, k)
              IN /\ Lo(t, a) < s => ns[a].records[g].val <= Sep(t, s)
                 /\ Lo(t, a) >= s => Sep(t, s) <= ns[a].records[g].val
          BY <1>1, <1>5, <4>1 DEF Ordered
        <4> QED
          BY <4>1, <4>2
      <3>2. CASE k = p
        <4>1. Hi(t, a) = Lo(t, a)
          BY <1>1 DEF Tree, InChain
        <4>2. /\ s <= Lo(t, a) => Sep(t, s) <= d
              /\ s > Hi(t, a) => d <= Sep(t, s)
          BY <1>1, <1>2 DEF OnPath, Newest
        <4>3. s \in Int /\ Lo(t, a) \in Int
          BY <1>1, Placed
        <4> QED
          BY <1>8, <3>2, <4>1, <4>2, <4>3
      <3> QED
        BY <3>1, <3>2
    <2>4. \A s \in 2 .. Width(t), z \in DOMAIN ms : ms[z].leaf =>
            \A k \in DOMAIN ms[z].records :
              /\ Lo(t, z) < s => ms[z].records[k].val <= Sep(t, s)
              /\ Lo(t, z) >= s => Sep(t, s) <= ms[z].records[k].val
      <3> SUFFICES ASSUME NEW s \in 2 .. Width(t), NEW z \in DOMAIN ms, ms[z].leaf,
                          NEW k \in DOMAIN ms[z].records
                   PROVE  /\ Lo(t, z) < s => ms[z].records[k].val <= Sep(t, s)
                          /\ Lo(t, z) >= s => Sep(t, s) <= ms[z].records[k].val
        OBVIOUS
      <3>1. CASE z = a
        BY <1>8, <2>3, <3>1
      <3>2. CASE z # a
        BY <1>1, <1>8, <3>2 DEF Ordered
      <3> QED
        BY <3>1, <3>2
    <2>5. \A z \in DOMAIN ms : ~ms[z].leaf => \A k \in DOMAIN ms[z].records :
            LET s == Lo(t, ms[z].children[k])
            IN  s > 1 => ms[z].records[k].val = Sep(t, s)
      <3> TAKE z \in DOMAIN ms
      <3>1. ~ms[z].leaf => z \in DOMAIN ns /\ ~ns[z].leaf /\ ms[z] = ns[z]
        BY <1>8, <1>9, <1>10
      <3> QED
        BY <1>1, <3>1 DEF Ordered
    <2> QED
      BY <2>2, <2>4, <2>5 DEF Ordered
  <1>15. Stored(ms, b, Done(b, 0))
    <2>0. Done(b, 0) = Len(b) /\ Done(b, a) = Len(b) - 1
      BY <1>2 DEF Done
    <2> DEFINE n == Len(b)  Was(z, k) == IF z = a THEN Before(p, k) ELSE k
    <2>1. ASSUME NEW z \in DOMAIN ms, ms[z].leaf, NEW k \in DOMAIN ms[z].records
          PROVE  \/ z = a /\ k = p /\ ms[z].records[k] = e
                 \/ /\ ~(z = a /\ k = p) /\ z \in DOMAIN ns /\ ns[z].leaf
                    /\ Was(z, k) \in DOMAIN ns[z].records
                    /\ ms[z].records[k] = ns[z].records[Was(z, k)]
      <3>1. CASE z = a
        BY <1>5, <1>8, <2>1, <3>1
      <3>2. CASE z # a
        BY <1>8, <2>1, <3>2
      <3> QED
        BY <3>1, <3>2
    <2>2. ASSUME NEW z \in DOMAIN ns, ns[z].leaf, NEW k \in DOMAIN ns[z].records
          PROVE  /\ ns[z].records[k].pos \in 1 .. n - 1 /\ ns[z].records[k].val = b[ns[z].records[k].pos]
                 /\ ns[z].records[k].pos # n
      <3>1. ns[z].records[k].pos \in 1 .. n - 1 /\ ns[z].records[k].val = b[ns[z].records[k].pos]
        BY <1>1, <2>0, <2>2 DEF Stored
      <3>2. \A q \in 1 .. n - 1 : q # n
        BY <1>2
      <3> QED
        BY <3>1, <3>2
    <2>3. e.val = b[n] /\ e.pos = n
      BY DEF Newest
    <2>4. ASSUME NEW z \in DOMAIN ms, ms[z].leaf, NEW k \in DOMAIN ms[z].records
          PROVE  ms[z].records[k].pos \in 1 .. n /\ ms[z].records[k].val = b[ms[z].records[k].pos]
      <3>1. CASE ms[z].records[k] = e
        BY <1>2, <2>3, <3>1
      <3>2. CASE z \in DOMAIN ns /\ ns[z].leaf /\ Was(z, k) \in DOMAIN ns[z].records
                    /\ ms[z].records[k] = ns[z].records[Was(z, k)]
        <4> HIDE DEF Was
        <4>1. /\ ms[z].records[k].pos \in 1 .. n - 1 /\ ms[z].records[k].val = b[ms[z].records[k].pos]
          BY <2>2, <3>2
        <4>2. \A q \in 1 .. n - 1 : q \in 1 .. n
          BY <1>2
        <4> QED
          BY <4>1, <4>2
      <3> QED
        BY <2>1, <2>4, <3>1, <3>2
    <2>5. ASSUME NEW q \in 1 .. n
          PROVE  \E z \in DOMAIN ms : ms[z].leaf /\ \E k \in DOMAIN ms[z].records : ms[z].records[k].pos = q
      <3>1. CASE q = n
        BY <1>6, <1>8, <2>3, <3>1
      <3>2. CASE q # n
        <4>1. q \in 1 .. n - 1
          BY <1>2, <3>2
        <4>2. PICK z \in DOMAIN ns : ns[z].leaf /\ \E k \in DOMAIN ns[z].records : ns[z].records[k].pos = q
          BY <1>1, <2>0, <4>1 DEF Stored
        <4>3. PICK k \in DOMAIN ns[z].records : ns[z].records[k].pos = q
          BY <4>2
        <4>4. CASE z # a
          <5>1. z \in DOMAIN ms /\ ms[z].leaf /\ k \in DOMAIN ms[z].records /\ ms[z].records[k].pos = q
            BY <1>8, <4>2, <4>3, <4>4
          <5> QED
            BY <5>1
        <4>5. CASE z = a
          <5> DEFINE j == IF k < p THEN k ELSE k + 1
          <5>1. k \in 1 .. l
            BY <1>5, <4>5
          <5>2. j \in 1 .. l + 1 /\ j # p /\ Before(p, j) = k
            BY <1>5, <1>6, <5>1 DEF Before
          <5> HIDE DEF j
          <5>3. a \in DOMAIN ms /\ ms[a].leaf /\ j \in DOMAIN ms[a].records /\ ms[a].records[j].pos = q
            BY <1>8, <4>3, <4>5, <5>2
          <5> QED
            BY <5>3
        <4> QED
          BY <4>4, <4>5
      <3> QED
        BY <3>1, <3>2
    <2>6. ASSUME NEW z \in DOMAIN ms, NEW w \in DOMAIN ms, ms[z].leaf, ms[w].leaf,
                 NEW j \in DOMAIN ms[z].records, NEW k \in DOMAIN ms[w].records,
                 ms[z].records[j].pos = ms[w].records[k].pos
          PROVE  z = w /\ j = k
      <3>1. CASE z = a /\ j = p /\ w = a /\ k = p
        BY <3>1
      <3>2. CASE z = a /\ j = p /\ ~(w = a /\ k = p)
        <4>1. ms[z].records[j] = e
          BY <1>8, <3>2
        <4>2. ms[w].records[k].pos # n
          <5> HIDE DEF Was
          <5> QED
            BY <2>1, <2>2, <2>6, <3>2
        <4> QED
          BY <2>3, <2>6, <4>1, <4>2
      <3>3. CASE ~(z = a /\ j = p) /\ w = a /\ k = p
        <4>1. ms[w].records[k] = e
          BY <1>8, <3>3
        <4>2. ms[z].records[j].pos # n
          <5> HIDE DEF Was
          <5> QED
            BY <2>1, <2>2, <2>6, <3>3
        <4> QED
          BY <2>3, <2>6, <4>1, <4>2
      <3>4. CASE ~(z = a /\ j = p) /\ ~(w = a /\ k = p)
        <4>1. /\ z \in DOMAIN ns /\ ns[z].leaf /\ Was(z, j) \in DOMAIN ns[z].records
              /\ ms[z].records[j] = ns[z].records[Was(z, j)]
              /\ w \in DOMAIN ns /\ ns[w].leaf /\ Was(w, k) \in DOMAIN ns[w].records
              /\ ms[w].records[k] = ns[w].records[Was(w, k)]
          <5> HIDE DEF Was
          <5> QED
            BY <2>1, <2>6, <3>4
        <4>2. z = w /\ Was(z, j) = Was(w, k)
          <5> HIDE DEF Was
          <5>1. ns[z].records[Was(z, j)].pos = ns[w].records[Was(w, k)].pos
            BY <2>6, <4>1
          <5> QED
            BY <1>1, <4>1, <5>1 DEF Stored
        <4>3. CASE z = a
          <5>1. j \in 1 .. l + 1 /\ k \in 1 .. l + 1 /\ j # p /\ k # p /\ Before(p, j) = Before(p, k)
            BY <1>8, <2>6, <3>4, <4>2, <4>3
          <5> QED
            BY <1>5, <1>6, <4>2, <5>1, OldOrder
        <4>4. CASE z # a
          BY <4>2, <4>4
        <4> QED
          BY <4>3, <4>4
      <3> QED
        BY <3>1, <3>2, <3>3, <3>4
    <2>7. Stored(ms, b, n)
      BY <2>4, <2>5, <2>6 DEF Stored
    <2> QED
      BY <2>0, <2>7
  <1>16. EdgeBounded(ms, t, b, 0)
    <2> SUFFICES ASSUME NEW z \in DOMAIN ns, ~ns[z].leaf, Lo(t, z) = 1
                 PROVE  Cardinality(Under(b, Passed(t, b, 0, z), ns[z].records[1].val)) <= Hgt(t, z)
      BY <1>8, <1>9, <1>10 DEF EdgeBounded
    <2>1. Cardinality(Under(b, Passed(t, b, a, z), ns[z].records[1].val)) <= Hgt(t, z)
      BY <1>1 DEF EdgeBounded
    <2>2. Passed(t, b, 0, z) = Len(b) /\ Passed(t, b, a, z) = Len(b)
      <3>1. Hgt(t, a) = 0
        BY <1>1 DEF Tree, InChain
      <3>2. Hgt(t, z) >= 1 /\ Hgt(t, z) \in Nat
        BY <1>1, Family, Placed
      <3> QED
        BY <3>1, <3>2 DEF Passed
    <2> QED
      BY <2>1, <2>2
  <1>17. OnPath(ms, t, b, 0)
    BY DEF OnPath
  <1> QED
    BY <1>11, <1>12, <1>14, <1>15, <1>16, <1>17 DEF Sound, ms, p, i

---------------------------------------------------------------------------
(* The next value.                                                         *)

\* The values below v of a longer column, up to where it is longer.
LEMMA UnderAppend ==
  ASSUME NEW b \in Seq(Val), NEW v \in Val, NEW w
  PROVE  /\ Append(b, v) \in Seq(Val) /\ Len(Append(b, v)) = Len(b) + 1 /\ Len(b) \in Nat
         /\ \A q \in 1 .. Len(b) : Append(b, v)[q] = b[q]
         /\ Under(Append(b, v), Len(b), w) = Under(b, Len(b), w)
         /\ Newest(Append(b, v)) = v
  <1>1. /\ Append(b, v) \in Seq(Val) /\ Len(Append(b, v)) = Len(b) + 1 /\ Len(b) \in Nat
        /\ \A q \in 1 .. Len(b) : Append(b, v)[q] = b[q]
        /\ Append(b, v)[Len(b) + 1] = v
    OBVIOUS
  <1>2. Under(Append(b, v), Len(b), w) = Under(b, Len(b), w)
    BY <1>1 DEF Under
  <1> QED
    BY <1>1, <1>2 DEF Newest

\* A longer column is stored as far as it was.
LEMMA StoredAppend ==
  ASSUME NEW ns, NEW b \in Seq(Val), NEW v \in Val, Stored(ns, b, Len(b))
  PROVE  Stored(ns, Append(b, v), Len(b))
  <1>1. \A q \in 1 .. Len(b) : Append(b, v)[q] = b[q]
    BY UnderAppend
  <1> QED
    BY <1>1 DEF Stored

\* An insert that starts at a root with room.
LEMMA InsertRoomy ==
  ASSUME NEW ns, NEW r, NEW t, NEW b \in Seq(Val), NEW v \in Val, Sound(ns, r, t, b, 0)
  PROVE  Sound(ns, r, t, Append(b, v), r)
  <1> DEFINE bb == Append(b, v)
  <1>1. /\ Tree(ns, r, t) /\ Linked(ns, t) /\ Filled(ns, r) /\ Ordered(ns, t)
        /\ Stored(ns, b, Done(b, 0)) /\ EdgeBounded(ns, t, b, 0)
    BY DEF Sound
  <1>2. /\ bb \in Seq(Val) /\ Len(bb) = Len(b) + 1 /\ Len(b) \in Nat
    BY UnderAppend
  <1>3. \A w : Under(bb, Len(b), w) = Under(b, Len(b), w)
    BY UnderAppend
  <1>4. r \in DOMAIN ns /\ r # 0 /\ Hgt(t, r) \in Nat /\ Lo(t, r) = 1 /\ Hi(t, r) = Width(t) /\ Width(t) \in Nat
    <2>1. r \in DOMAIN ns /\ Lo(t, r) = 1 /\ Hi(t, r) = Width(t)
      BY <1>1 DEF Tree
    <2> QED
      BY <1>1, <2>1, Placed, Described
  <1>5. Stored(ns, b, Len(b))
    BY <1>1 DEF Done
  <1>6. Stored(ns, bb, Len(b))
    BY <1>5, StoredAppend
  <1> HIDE DEF bb
  <1>7. Len(bb) - 1 = Len(b)
    BY <1>2
  <1>8. Stored(ns, bb, Done(bb, r))
    BY <1>4, <1>6, <1>7 DEF Done
  <1>9. EdgeBounded(ns, t, bb, r)
    <2> SUFFICES ASSUME NEW z \in DOMAIN ns, ~ns[z].leaf, Lo(t, z) = 1
                 PROVE  Cardinality(Under(bb, Passed(t, bb, r, z), ns[z].records[1].val)) <= Hgt(t, z)
      BY DEF EdgeBounded
    <2>1. Cardinality(Under(b, Passed(t, b, 0, z), ns[z].records[1].val)) <= Hgt(t, z)
      BY <1>1 DEF EdgeBounded
    <2>2. Passed(t, b, 0, z) = Len(b)
      BY DEF Passed
    <2>3. Hgt(t, z) <= Hgt(t, r)
      BY <1>1 DEF Tree
    <2>4. Passed(t, bb, r, z) = Len(b)
      BY <1>4, <1>7, <2>3 DEF Passed
    <2> QED
      BY <1>3, <2>1, <2>2, <2>4
  <1>10. OnPath(ns, t, bb, r)
    <2>1. Len(bb) >= 1
      BY <1>2
    <2>2. \A s \in 2 .. Width(t) : ~(s <= Lo(t, r)) /\ ~(s > Hi(t, r))
      BY <1>4
    <2> QED
      BY <1>4, <2>1, <2>2 DEF OnPath
  <1> QED
    BY <1>1, <1>8, <1>9, <1>10 DEF Sound, bb

\* The tree under a new root.
Raised(ns, r, t) ==
  LET N == Len(ns) + 1
  IN  [chain |-> t.chain,
       hgt |-> [z \in 1 .. N |-> IF z = N THEN Hgt(t, r) + 1 ELSE Hgt(t, z)],
       lo  |-> [z \in 1 .. N |-> IF z = N THEN 1 ELSE Lo(t, z)],
       hi  |-> [z \in 1 .. N |-> IF z = N THEN Width(t) ELSE Hi(t, z)],
       sep |-> t.sep]

\* What it says.
LEMMA RaisedSays ==
  ASSUME NEW ns, NEW r, NEW t, Tree(ns, r, t), NEW u, u = Raised(ns, r, t)
  PROVE  LET N == Len(ns) + 1
         IN  /\ Width(u) = Width(t) /\ \A p : At(u, p) = At(t, p) /\ Sep(u, p) = Sep(t, p)
             /\ \A z \in 1 .. Len(ns) : Hgt(u, z) = Hgt(t, z) /\ Lo(u, z) = Lo(t, z) /\ Hi(u, z) = Hi(t, z)
             /\ Hgt(u, N) = Hgt(t, r) + 1 /\ Lo(u, N) = 1 /\ Hi(u, N) = Width(t)
             /\ u.chain \in Seq(1 .. N) /\ u.sep \in [Nat -> Int]
             /\ u.hgt \in [1 .. N -> Nat] /\ u.lo \in [1 .. N -> Nat] /\ u.hi \in [1 .. N -> Nat]
  <1> DEFINE N == Len(ns) + 1
  <1>1. /\ Len(ns) \in Nat /\ DOMAIN ns = 1 .. Len(ns) /\ r \in 1 .. Len(ns) /\ Width(t) \in Nat
        /\ \A z \in 1 .. Len(ns) : Hgt(t, z) \in Nat /\ Lo(t, z) \in Nat /\ Hi(t, z) \in Nat
    BY Described
  <1>2. \A z \in 1 .. N : z = N \/ z \in 1 .. Len(ns)
    BY <1>1, SMTT(30)
  <1>3. \A z \in 1 .. Len(ns) : z \in 1 .. N /\ z # N
    BY <1>1
  <1>4. N \in 1 .. N
    BY <1>1
  <1>5. t.chain \in Seq(1 .. Len(ns)) /\ t.sep \in [Nat -> Int]
    BY <1>1 DEF Tree, Description
  <1>6. t.chain \in Seq(1 .. N)
    BY <1>3, <1>5
  <1> HIDE DEF N
  <1>7. /\ u.chain = t.chain /\ u.sep = t.sep
        /\ u.hgt = [z \in 1 .. N |-> IF z = N THEN Hgt(t, r) + 1 ELSE Hgt(t, z)]
        /\ u.lo = [z \in 1 .. N |-> IF z = N THEN 1 ELSE Lo(t, z)]
        /\ u.hi = [z \in 1 .. N |-> IF z = N THEN Width(t) ELSE Hi(t, z)]
    BY DEF Raised, N
  <1>8. Width(u) = Width(t) /\ \A p : At(u, p) = At(t, p) /\ Sep(u, p) = Sep(t, p)
    BY <1>7 DEF Width, At, Sep
  <1>9. \A z \in 1 .. Len(ns) : Hgt(u, z) = Hgt(t, z) /\ Lo(u, z) = Lo(t, z) /\ Hi(u, z) = Hi(t, z)
    BY <1>3, <1>7 DEF Hgt, Lo, Hi
  <1>10. Hgt(u, N) = Hgt(t, r) + 1 /\ Lo(u, N) = 1 /\ Hi(u, N) = Width(t)
    BY <1>4, <1>7 DEF Hgt, Lo, Hi
  <1>11. u.hgt \in [1 .. N -> Nat]
    <2>1. \A z \in 1 .. N : (IF z = N THEN Hgt(t, r) + 1 ELSE Hgt(t, z)) \in Nat
      BY <1>1, <1>2
    <2> QED
      BY <1>7, <2>1
  <1>12. u.lo \in [1 .. N -> Nat]
    BY <1>1, <1>2, <1>7
  <1>13. u.hi \in [1 .. N -> Nat]
    BY <1>1, <1>2, <1>7
  <1> QED
    BY <1>5, <1>6, <1>7, <1>8, <1>9, <1>10, <1>11, <1>12, <1>13 DEF N

\* The new root above a full one.
NewRoot(ns, r) ==
  [leaf |-> FALSE, records |-> <<ns[r].records[1]>>, children |-> <<r>>, next |-> 0]

\* The nodes with it.
LEMMA NewRootNodes ==
  ASSUME NEW ns, ns \in Seq(Node), NEW r \in DOMAIN ns, Len(ns[r].records) >= 1
  PROVE  LET N  == Len(ns) + 1
             ms == Append(ns, NewRoot(ns, r))
         IN  /\ ms \in Seq(Node) /\ Len(ms) = N /\ DOMAIN ms = 1 .. N /\ Len(ns) \in Nat
             /\ \A z \in 1 .. Len(ns) : ms[z] = ns[z] /\ z # N /\ z \in DOMAIN ms
             /\ \A z \in DOMAIN ms : z = N \/ z \in 1 .. Len(ns)
             /\ ms[N].leaf = FALSE /\ Len(ms[N].records) = 1 /\ ms[N].records[1] = ns[r].records[1]
             /\ Len(ms[N].children) = 1 /\ ms[N].children[1] = r /\ ms[N].next = 0
  <1> DEFINE N == Len(ns) + 1  ms == Append(ns, NewRoot(ns, r))  e == ns[r].records[1]
  <1>1. Len(ns) \in Nat /\ DOMAIN ns = 1 .. Len(ns) /\ r \in Nat
    OBVIOUS
  <1>2. e \in Record
    <2>1. 1 \in DOMAIN ns[r].records
      BY RecordOf
    <2> QED
      BY <2>1, RecordOf
  <1> HIDE DEF e
  <1>3. /\ NewRoot(ns, r).leaf = FALSE /\ NewRoot(ns, r).records = <<e>>
        /\ NewRoot(ns, r).children = <<r>> /\ NewRoot(ns, r).next = 0
    BY DEF NewRoot, e
  <1>4. NewRoot(ns, r) \in Node
    <2>1. <<e>> \in Seq(Record) /\ <<r>> \in Seq(Nat)
      BY <1>1, <1>2
    <2> QED
      BY <2>1 DEF NewRoot, Node, e
  <1>5. /\ ms \in Seq(Node) /\ Len(ms) = N /\ DOMAIN ms = 1 .. N
        /\ \A z \in 1 .. Len(ns) : ms[z] = ns[z] /\ z # N /\ z \in DOMAIN ms
        /\ \A z \in DOMAIN ms : z = N \/ z \in 1 .. Len(ns)
        /\ ms[N] = NewRoot(ns, r)
    BY <1>1, <1>4
  <1> HIDE DEF ms, N
  <1>6. /\ ms[N].leaf = FALSE /\ ms[N].records = <<e>>
        /\ ms[N].children = <<r>> /\ ms[N].next = 0
    BY <1>3, <1>5
  <1>7. Len(<<e>>) = 1 /\ <<e>>[1] = e /\ Len(<<r>>) = 1 /\ <<r>>[1] = r
    OBVIOUS
  <1>8. /\ ms[N].leaf = FALSE /\ Len(ms[N].records) = 1 /\ ms[N].records[1] = e
        /\ Len(ms[N].children) = 1 /\ ms[N].children[1] = r /\ ms[N].next = 0
    BY <1>6, <1>7
  <1> QED
    BY <1>1, <1>5, <1>8 DEF e, ms, N

---------------------------------------------------------------------------
\* ms is the tree ns under the new root N, u its description.
Rooted(ns, ms, r, t, u, N) ==
  /\ Tree(ns, r, t) /\ Len(ns) \in Nat /\ DOMAIN ns = 1 .. Len(ns) /\ N = Len(ns) + 1 /\ N \in Nat
  /\ ms \in Seq(Node) /\ Len(ms) = N /\ DOMAIN ms = 1 .. N
  /\ \A z \in 1 .. Len(ns) : ms[z] = ns[z] /\ z # N /\ z \in DOMAIN ms
  /\ \A z \in DOMAIN ms : z = N \/ z \in 1 .. Len(ns)
  /\ ms[N].leaf = FALSE /\ Len(ms[N].records) = 1 /\ ms[N].records[1] = ns[r].records[1]
  /\ Len(ms[N].children) = 1 /\ ms[N].children[1] = r /\ ms[N].next = 0
  /\ Width(u) = Width(t) /\ \A p : At(u, p) = At(t, p) /\ Sep(u, p) = Sep(t, p)
  /\ \A z \in 1 .. Len(ns) : Hgt(u, z) = Hgt(t, z) /\ Lo(u, z) = Lo(t, z) /\ Hi(u, z) = Hi(t, z)
  /\ Hgt(u, N) = Hgt(t, r) + 1 /\ Lo(u, N) = 1 /\ Hi(u, N) = Width(t)
  /\ Description(ms, u)

\* There is one.
LEMMA RootedExists ==
  ASSUME NEW ns, NEW r, NEW t, Tree(ns, r, t), Len(ns[r].records) >= 1
  PROVE  \E u : Rooted(ns, Append(ns, NewRoot(ns, r)), r, t, u, Fresh(ns))
  <1> DEFINE u == Raised(ns, r, t)  ms == Append(ns, NewRoot(ns, r))  N == Len(ns) + 1
  <1>0. u = Raised(ns, r, t) /\ ns \in Seq(Node) /\ r \in DOMAIN ns
    BY DEF Tree
  <1> HIDE DEF u
  <1>1. /\ Width(u) = Width(t) /\ \A p : At(u, p) = At(t, p) /\ Sep(u, p) = Sep(t, p)
        /\ \A z \in 1 .. Len(ns) : Hgt(u, z) = Hgt(t, z) /\ Lo(u, z) = Lo(t, z) /\ Hi(u, z) = Hi(t, z)
        /\ Hgt(u, N) = Hgt(t, r) + 1 /\ Lo(u, N) = 1 /\ Hi(u, N) = Width(t)
        /\ u.chain \in Seq(1 .. N) /\ u.sep \in [Nat -> Int]
        /\ u.hgt \in [1 .. N -> Nat] /\ u.lo \in [1 .. N -> Nat] /\ u.hi \in [1 .. N -> Nat]
    BY <1>0, RaisedSays
  <1>2. /\ ms \in Seq(Node) /\ Len(ms) = N /\ DOMAIN ms = 1 .. N /\ Len(ns) \in Nat
        /\ \A z \in 1 .. Len(ns) : ms[z] = ns[z] /\ z # N /\ z \in DOMAIN ms
        /\ \A z \in DOMAIN ms : z = N \/ z \in 1 .. Len(ns)
        /\ ms[N].leaf = FALSE /\ Len(ms[N].records) = 1 /\ ms[N].records[1] = ns[r].records[1]
        /\ Len(ms[N].children) = 1 /\ ms[N].children[1] = r /\ ms[N].next = 0
    BY <1>0, NewRootNodes
  <1> HIDE DEF ms
  <1>3. DOMAIN ns = 1 .. Len(ns) /\ N \in Nat
    BY <1>0, <1>2
  <1> HIDE DEF N
  <1>4. Description(ms, u)
    BY <1>1, <1>2 DEF Description
  <1>5. N = Len(ns) + 1
    BY DEF N
  <1>6. Rooted(ns, ms, r, t, u, N)
    BY <1>1, <1>2, <1>3, <1>4, <1>5 DEF Rooted
  <1> QED
    BY <1>6 DEF ms, N, Fresh

\* It is a tree.
LEMMA RootedTree ==
  ASSUME NEW ns, NEW ms, NEW r, NEW t, NEW u, NEW N, Rooted(ns, ms, r, t, u, N)
  PROVE  Tree(ms, N, u)
  <1>1. /\ Tree(ns, r, t) /\ Len(ns) \in Nat /\ DOMAIN ns = 1 .. Len(ns) /\ N = Len(ns) + 1 /\ N \in Nat
        /\ ms \in Seq(Node) /\ Len(ms) = N /\ DOMAIN ms = 1 .. N
        /\ \A z \in 1 .. Len(ns) : ms[z] = ns[z] /\ z # N /\ z \in DOMAIN ms
        /\ \A z \in DOMAIN ms : z = N \/ z \in 1 .. Len(ns)
        /\ ms[N].leaf = FALSE /\ Len(ms[N].records) = 1 /\ ms[N].records[1] = ns[r].records[1]
        /\ Len(ms[N].children) = 1 /\ ms[N].children[1] = r /\ ms[N].next = 0
    BY DEF Rooted
  <1>2. /\ Width(u) = Width(t) /\ \A p : At(u, p) = At(t, p) /\ Sep(u, p) = Sep(t, p)
        /\ \A z \in 1 .. Len(ns) : Hgt(u, z) = Hgt(t, z) /\ Lo(u, z) = Lo(t, z) /\ Hi(u, z) = Hi(t, z)
        /\ Hgt(u, N) = Hgt(t, r) + 1 /\ Lo(u, N) = 1 /\ Hi(u, N) = Width(t)
        /\ Description(ms, u)
    BY DEF Rooted
  <1>3. /\ r \in 1 .. Len(ns) /\ Width(t) \in Nat
        /\ \A z \in 1 .. Len(ns) :
             /\ Hgt(t, z) \in Nat /\ Lo(t, z) \in Nat /\ Hi(t, z) \in Nat
             /\ 1 <= Lo(t, z) /\ Lo(t, z) <= Hi(t, z) /\ Hi(t, z) <= Width(t)
        /\ \A q \in 1 .. Width(t) : At(t, q) \in 1 .. Len(ns)
    BY <1>1, Described
  <1>4. Lo(t, r) = 1 /\ Hi(t, r) = Width(t) /\ \A z \in 1 .. Len(ns) : Hgt(t, z) <= Hgt(t, r)
    BY <1>1 DEF Tree
  <1>5. Width(t) >= 1
    BY <1>3, <1>4
  <1>6. N \in DOMAIN ms
    BY <1>1
  <1>7. \A x \in DOMAIN ms : 1 <= Lo(u, x) /\ Lo(u, x) <= Hi(u, x) /\ Hi(u, x) <= Width(u)
    <2> TAKE x \in DOMAIN ms
    <2>1. CASE x = N
      BY <1>2, <1>3, <1>5, <2>1
    <2>2. CASE x \in 1 .. Len(ns)
      BY <1>2, <1>3, <2>2
    <2> QED
      BY <1>1, <2>1, <2>2
  <1>8. ASSUME NEW x \in DOMAIN ms
        PROVE  IF ms[x].leaf THEN InChain(ms, u, x) ELSE Parent(ms, u, x)
    <2>1. CASE x = N
      <3>1. Parent(ms, u, N)
        <4>1. Hgt(u, N) >= 1
          BY <1>2, <1>3
        <4>2. ms[N].children[1] \in DOMAIN ms /\ Hgt(u, ms[N].children[1]) = Hgt(u, N) - 1
          BY <1>1, <1>2, <1>3
        <4>3. \A i \in 1 .. 1 : i = 1
          OBVIOUS
        <4>4. \A i \in 1 .. 1 - 1 : FALSE
          OBVIOUS
        <4>5. Lo(u, r) = Lo(u, N) /\ Hi(u, r) = Hi(u, N)
          BY <1>2, <1>3, <1>4
        <4> QED
          BY <1>1, <4>1, <4>2, <4>3, <4>4, <4>5 DEF Parent
      <3> QED
        BY <1>1, <2>1, <3>1
    <2>2. CASE x \in 1 .. Len(ns)
      <3>1. ms[x] = ns[x] /\ (IF ns[x].leaf THEN InChain(ns, t, x) ELSE Parent(ns, t, x))
        BY <1>1, <2>2 DEF Tree
      <3>2. CASE ns[x].leaf
        BY <1>2, <2>2, <3>1, <3>2 DEF InChain
      <3>3. CASE ~ns[x].leaf
        <4>1. Parent(ns, t, x)
          BY <3>1, <3>3
        <4>2. \A i \in 1 .. Len(ns[x].children) : ns[x].children[i] \in 1 .. Len(ns) /\ ns[x].children[i] \in DOMAIN ms
          BY <1>1, <4>1 DEF Parent
        <4>3. /\ Len(ns[x].children) \in Nat /\ Len(ns[x].children) >= 1
          <5>1. Len(ns[x].records) \in Nat /\ Len(ns[x].children) = Len(ns[x].records)
            BY <1>1, <2>2, <3>3, Family
          <5> QED
            BY <4>1, <5>1 DEF Parent
        <4> DEFINE c == ns[x].children
        <4>4. 1 \in 1 .. Len(c) /\ Len(c) \in 1 .. Len(c)
              /\ \A i \in 1 .. Len(c) - 1 : i \in 1 .. Len(c) /\ i + 1 \in 1 .. Len(c)
          BY <4>3
        <4>5. \A i \in 1 .. Len(c) : /\ c[i] \in 1 .. Len(ns) /\ c[i] \in DOMAIN ms
                                     /\ Hgt(u, c[i]) = Hgt(t, c[i]) /\ Lo(u, c[i]) = Lo(t, c[i])
                                     /\ Hi(u, c[i]) = Hi(t, c[i])
          BY <1>2, <4>2
        <4>6. Hgt(u, x) = Hgt(t, x) /\ Lo(u, x) = Lo(t, x) /\ Hi(u, x) = Hi(t, x)
          BY <1>2, <2>2
        <4>7. /\ Len(c) = Len(ns[x].records) /\ Len(c) >= 1 /\ Hgt(t, x) >= 1
              /\ \A i \in 1 .. Len(c) : Hgt(t, c[i]) = Hgt(t, x) - 1
              /\ Lo(t, c[1]) = Lo(t, x) /\ Hi(t, c[Len(c)]) = Hi(t, x)
              /\ \A i \in 1 .. Len(c) - 1 : Lo(t, c[i + 1]) = Hi(t, c[i]) + 1
          BY <4>1 DEF Parent
        <4> HIDE DEF c
        <4>8. /\ Len(c) = Len(ns[x].records) /\ Len(c) >= 1 /\ Hgt(u, x) >= 1
              /\ \A i \in 1 .. Len(c) : c[i] \in DOMAIN ms /\ Hgt(u, c[i]) = Hgt(u, x) - 1
              /\ Lo(u, c[1]) = Lo(u, x) /\ Hi(u, c[Len(c)]) = Hi(u, x)
              /\ \A i \in 1 .. Len(c) - 1 : Lo(u, c[i + 1]) = Hi(u, c[i]) + 1
          BY <4>4, <4>5, <4>6, <4>7
        <4>9. Parent(ms, u, x)
          BY <3>1, <4>8 DEF Parent, c
        <4> QED
          BY <3>1, <3>3, <4>9
      <3> QED
        BY <3>2, <3>3
    <2> QED
      BY <1>1, <2>1, <2>2
  <1>9. \A p \in 1 .. Width(u) : ms[At(u, p)].leaf /\ Lo(u, At(u, p)) = p
    <2>1. \A p \in 1 .. Width(t) : ns[At(t, p)].leaf /\ Lo(t, At(t, p)) = p
      BY <1>1 DEF Tree
    <2> QED
      BY <1>1, <1>2, <1>3, <2>1, SMTT(30)
  <1>10. Lo(u, N) = 1 /\ Hi(u, N) = Width(u)
    BY <1>2
  <1>11. \A z \in 1 .. Len(ns) : Hgt(u, z) < Hgt(u, N)
    BY <1>2, <1>3, <1>4
  <1>12. Hgt(u, N) \in Nat /\ \A z \in 1 .. Len(ns) : Hgt(u, z) \in Nat
    BY <1>2, <1>3
  <1>13. \A x \in DOMAIN ms : Hgt(u, x) <= Hgt(u, N)
    BY <1>1, <1>11, <1>12
  <1>14. ASSUME NEW x \in DOMAIN ms, NEW y \in DOMAIN ms,
                Hgt(u, x) = Hgt(u, y), Lo(u, x) <= Hi(u, y), Lo(u, y) <= Hi(u, x)
         PROVE  x = y
    <2>1. CASE x \in 1 .. Len(ns) /\ y \in 1 .. Len(ns)
      <3>1. Hgt(t, x) = Hgt(t, y) /\ Lo(t, x) <= Hi(t, y) /\ Lo(t, y) <= Hi(t, x)
        BY <1>2, <1>14, <2>1
      <3> QED
        BY <1>1, <2>1, <3>1 DEF Tree
    <2>2. CASE x = N /\ y \in 1 .. Len(ns)
      BY <1>11, <1>12, <1>14, <2>2
    <2>3. CASE y = N /\ x \in 1 .. Len(ns)
      BY <1>11, <1>12, <1>14, <2>3
    <2> QED
      BY <1>1, <2>1, <2>2, <2>3
  <1> QED
    BY <1>1, <1>2, <1>6, <1>7, <1>8, <1>9, <1>10, <1>13, <1>14 DEF Tree

---------------------------------------------------------------------------
\* No more values are below the first record of the root than it is high.
LEMMA RootEdge ==
  ASSUME NEW ns, NEW r, NEW t, NEW b \in Seq(Val), Sound(ns, r, t, b, 0), Len(ns[r].records) >= 1
  PROVE  Cardinality(Under(b, Len(b), ns[r].records[1].val)) <= Hgt(t, r)
  <1> DEFINE v == ns[r].records[1].val
  <1>1. /\ Tree(ns, r, t) /\ Ordered(ns, t) /\ Stored(ns, b, Done(b, 0)) /\ EdgeBounded(ns, t, b, 0)
    BY DEF Sound
  <1>2. r \in DOMAIN ns /\ Lo(t, r) = 1 /\ Hi(t, r) = Width(t) /\ Width(t) \in Nat
    BY <1>1, Described DEF Tree
  <1>3. CASE ~ns[r].leaf
    <2>1. Cardinality(Under(b, Passed(t, b, 0, r), v)) <= Hgt(t, r)
      BY <1>1, <1>2, <1>3 DEF EdgeBounded
    <2>2. Passed(t, b, 0, r) = Len(b)
      BY DEF Passed
    <2> QED
      BY <2>1, <2>2
  <1>4. CASE ns[r].leaf
    <2>1. Hgt(t, r) = 0 /\ Hi(t, r) = Lo(t, r)
      BY <1>1, <1>2, <1>4 DEF Tree, InChain
    <2>2. ASSUME NEW x \in DOMAIN ns, ns[x].leaf
          PROVE  x = r
      <3>1. Hgt(t, x) = 0
        BY <1>1, <2>2 DEF Tree, InChain
      <3> QED
        BY <1>1, <2>1, <3>1, HighestIsRoot
    <2>3. /\ Len(ns[r].records) \in Nat /\ DOMAIN ns[r].records = 1 .. Len(ns[r].records)
          /\ \A k \in DOMAIN ns[r].records : ns[r].records[k].val \in Int
      BY <1>1, <1>2, RecordOf DEF Tree
    <2>4. 1 \in DOMAIN ns[r].records
      BY <2>3
    <2>5. \A k \in DOMAIN ns[r].records : v <= ns[r].records[k].val
      <3> TAKE k \in DOMAIN ns[r].records
      <3>1. k = 1 \/ 1 < k
        BY <2>3
      <3>2. 1 < k => v <= ns[r].records[k].val
        BY <1>1, <1>2, <1>4, <2>4 DEF Ordered
      <3>3. v <= v
        BY <2>3, <2>4
      <3> QED
        BY <3>1, <3>2, <3>3
    <2>6. \A q \in 1 .. Len(b) : ~(b[q] < v)
      <3> TAKE q \in 1 .. Len(b)
      <3>1. Stored(ns, b, Len(b))
        BY <1>1 DEF Done
      <3>2. PICK x \in DOMAIN ns : ns[x].leaf /\ \E k \in DOMAIN ns[x].records : ns[x].records[k].pos = q
        BY <3>1 DEF Stored
      <3>3. PICK k \in DOMAIN ns[r].records : ns[r].records[k].pos = q
        BY <2>2, <3>2
      <3>4. ns[r].records[k].val = b[q]
        BY <1>2, <1>4, <3>1, <3>3 DEF Stored
      <3>5. v <= ns[r].records[k].val /\ ns[r].records[k].val \in Int /\ v \in Int
        BY <2>3, <2>4, <2>5
      <3> QED
        BY <3>4, <3>5
    <2>7. Under(b, Len(b), v) = {}
      BY <2>6 DEF Under
    <2> QED
      BY <2>1, <2>7, FS_EmptySet
  <1> QED
    BY <1>3, <1>4

\* At most one more value is below v in a column that is one longer.
LEMMA UnderOneMore ==
  ASSUME NEW b \in Seq(Val), NEW v \in Val, NEW w, NEW h \in Nat,
         Cardinality(Under(b, Len(b), w)) <= h
  PROVE  Cardinality(Under(Append(b, v), Len(Append(b, v)), w)) <= h + 1
  <1> DEFINE bb == Append(b, v)  S == Under(b, Len(b), w)  l == Len(b) + 1  T == Under(bb, Len(bb), w)
  <1>1. /\ bb \in Seq(Val) /\ Len(bb) = l /\ Len(b) \in Nat
        /\ \A q \in 1 .. Len(b) : bb[q] = b[q]
    BY UnderAppend
  <1>2. IsFiniteSet(S) /\ Cardinality(S) \in Nat
    BY <1>1, UnderFinite
  <1>3. T \subseteq S \cup {l}
    <2> SUFFICES ASSUME NEW q \in 1 .. Len(bb), bb[q] < w, q # l
                 PROVE  q \in S
      BY DEF Under
    <2>1. q \in 1 .. Len(b)
      BY <1>1
    <2> QED
      BY <1>1, <2>1 DEF Under
  <1>4. IsFiniteSet(S \cup {l}) /\ Cardinality(S \cup {l}) <= Cardinality(S) + 1 /\ Cardinality(S \cup {l}) \in Nat
    <2> HIDE DEF S, l
    <2>1. IsFiniteSet(S \cup {l}) /\ Cardinality(S \cup {l}) = (IF l \in S THEN Cardinality(S) ELSE Cardinality(S) + 1)
      BY <1>2, FS_AddElement
    <2> QED
      BY <1>2, <2>1
  <1> HIDE DEF T, S, l
  <1>5. Cardinality(T) <= Cardinality(S \cup {l}) /\ Cardinality(T) \in Nat
    <2>1. IsFiniteSet(T) /\ Cardinality(T) <= Cardinality(S \cup {l})
      BY <1>3, <1>4, FS_Subset
    <2> QED
      BY <2>1, FS_CardinalityType
  <1>6. Cardinality(S) <= h
    BY DEF S
  <1>7. Cardinality(T) <= h + 1
    BY <1>2, <1>4, <1>5, <1>6
  <1> QED
    BY <1>7 DEF T

\* The next insert starts at a full root, under a new one.
LEMMA RootedSound ==
  ASSUME NEW ns, NEW ms, NEW r, NEW t, NEW u, NEW N, Rooted(ns, ms, r, t, u, N),
         NEW b \in Seq(Val), NEW v \in Val, Sound(ns, r, t, b, 0), BtIsFull(ns[r])
  PROVE  Sound(ms, N, u, Append(b, v), r)
  <1> DEFINE bb == Append(b, v)
  <1>1. /\ Tree(ns, r, t) /\ Linked(ns, t) /\ Filled(ns, r) /\ Ordered(ns, t)
        /\ Stored(ns, b, Done(b, 0)) /\ EdgeBounded(ns, t, b, 0)
    BY DEF Sound
  <1>2. /\ Len(ns) \in Nat /\ DOMAIN ns = 1 .. Len(ns) /\ N = Len(ns) + 1 /\ N \in Nat
        /\ ms \in Seq(Node) /\ Len(ms) = N /\ DOMAIN ms = 1 .. N
        /\ \A z \in 1 .. Len(ns) : ms[z] = ns[z] /\ z # N /\ z \in DOMAIN ms
        /\ \A z \in DOMAIN ms : z = N \/ z \in 1 .. Len(ns)
        /\ ms[N].leaf = FALSE /\ Len(ms[N].records) = 1 /\ ms[N].records[1] = ns[r].records[1]
        /\ Len(ms[N].children) = 1 /\ ms[N].children[1] = r /\ ms[N].next = 0
    BY DEF Rooted
  <1>3. /\ Width(u) = Width(t) /\ \A p : At(u, p) = At(t, p) /\ Sep(u, p) = Sep(t, p)
        /\ \A z \in 1 .. Len(ns) : Hgt(u, z) = Hgt(t, z) /\ Lo(u, z) = Lo(t, z) /\ Hi(u, z) = Hi(t, z)
        /\ Hgt(u, N) = Hgt(t, r) + 1 /\ Lo(u, N) = 1 /\ Hi(u, N) = Width(t)
        /\ Description(ms, u)
    BY DEF Rooted
  <1>4. Tree(ms, N, u)
    BY RootedTree
  <1>5. /\ r \in 1 .. Len(ns) /\ r # 0 /\ Width(t) \in Nat
        /\ \A z \in 1 .. Len(ns) : Hgt(t, z) \in Nat
    BY <1>1, Described
  <1>6. Lo(t, r) = 1 /\ Hi(t, r) = Width(t) /\ \A z \in 1 .. Len(ns) : Hgt(t, z) <= Hgt(t, r)
    BY <1>1, <1>2 DEF Tree
  <1>7. /\ bb \in Seq(Val) /\ Len(bb) = Len(b) + 1 /\ Len(b) \in Nat /\ Len(bb) - 1 = Len(b)
        /\ \A w : Under(bb, Len(b), w) = Under(b, Len(b), w)
    <2>1. bb \in Seq(Val) /\ Len(bb) = Len(b) + 1 /\ Len(b) \in Nat
      BY UnderAppend
    <2>2. \A w : Under(bb, Len(b), w) = Under(b, Len(b), w)
      BY UnderAppend
    <2> QED
      BY <2>1, <2>2
  <1>8. Len(ns[r].records) \in Nat /\ Len(ns[r].records) >= NodeSize /\ Len(ns[r].records) >= 1
    BY <1>1, <1>2, <1>5, RecordOf, HalfCapacity DEF BtIsFull, Tree
  <1>9. Linked(ms, u)
    <2> SUFFICES ASSUME NEW x \in DOMAIN ms
                 PROVE  IF Hi(u, x) = Width(u) THEN ms[x].next = 0
                        ELSE /\ ms[x].next \in DOMAIN ms
                             /\ Hgt(u, ms[x].next) = Hgt(u, x) /\ Lo(u, ms[x].next) = Hi(u, x) + 1
      BY DEF Linked
    <2>1. CASE x = N
      BY <1>2, <1>3, <2>1
    <2>2. CASE x \in 1 .. Len(ns)
      <3>1. IF Hi(t, x) = Width(t) THEN ns[x].next = 0
            ELSE /\ ns[x].next \in 1 .. Len(ns)
                 /\ Hgt(t, ns[x].next) = Hgt(t, x) /\ Lo(t, ns[x].next) = Hi(t, x) + 1
        BY <1>1, <1>2, <2>2 DEF Linked
      <3> QED
        BY <1>2, <1>3, <2>2, <3>1
    <2> QED
      BY <1>2, <2>1, <2>2
  <1>10. Filled(ms, N)
    <2> SUFFICES ASSUME NEW x \in DOMAIN ms
                 PROVE  /\ Len(ms[x].records) <= NodeSize
                        /\ x # N => Len(ms[x].records) >= NodeSize \div 2
      BY DEF Filled
    <2>1. CASE x = N
      <3>1. Len(ms[x].records) = 1
        BY <1>2, <2>1
      <3>2. 1 <= NodeSize
        BY HalfCapacity
      <3> QED
        BY <2>1, <3>1, <3>2
    <2>2. CASE x \in 1 .. Len(ns)
      <3>1. /\ Len(ns[x].records) <= NodeSize
            /\ x # r => Len(ns[x].records) >= NodeSize \div 2
        BY <1>1, <1>2, <2>2 DEF Filled
      <3>2. NodeSize >= NodeSize \div 2
        BY HalfCapacity
      <3>3. x = r => Len(ns[x].records) >= NodeSize \div 2
        BY <1>8, <3>2, HalfCapacity
      <3>4. ms[x] = ns[x]
        BY <1>2, <2>2
      <3> QED
        BY <3>1, <3>3, <3>4
    <2> QED
      BY <1>2, <2>1, <2>2
  <1>11. \A x \in DOMAIN ms : ms[x].leaf => x \in DOMAIN ns /\ ns[x].leaf /\ ms[x] = ns[x]
    BY <1>2
  <1>12. \A x \in DOMAIN ns : ns[x].leaf => x \in DOMAIN ms /\ ms[x].leaf /\ ms[x] = ns[x]
    BY <1>2
  <1>13. Ordered(ms, u)
    <2>1. \A x \in DOMAIN ms : ms[x].leaf => \A i, j \in DOMAIN ms[x].records :
            i < j => ms[x].records[i].val <= ms[x].records[j].val
      BY <1>1, <1>11 DEF Ordered
    <2>2. \A s \in 2 .. Width(u), x \in DOMAIN ms : ms[x].leaf =>
            \A k \in DOMAIN ms[x].records :
              /\ Lo(u, x) < s => ms[x].records[k].val <= Sep(u, s)
              /\ Lo(u, x) >= s => Sep(u, s) <= ms[x].records[k].val
      BY <1>1, <1>2, <1>3, <1>11 DEF Ordered
    <2>3. ASSUME NEW x \in DOMAIN ms, ~ms[x].leaf, NEW i \in DOMAIN ms[x].records,
                 Lo(u, ms[x].children[i]) > 1
          PROVE  ms[x].records[i].val = Sep(u, Lo(u, ms[x].children[i]))
      <3>1. CASE x = N
        <4>1. DOMAIN ms[N].records = 1 .. 1
          BY <1>2, RecordOf
        <4>2. i = 1
          BY <2>3, <3>1, <4>1
        <4>3. Lo(u, ms[x].children[i]) = 1
          BY <1>2, <1>3, <1>5, <1>6, <3>1, <4>2
        <4> QED
          BY <2>3, <4>3
      <3>2. CASE x \in 1 .. Len(ns)
        <4>1. ms[x] = ns[x] /\ ~ns[x].leaf /\ i \in DOMAIN ns[x].records
          BY <1>2, <2>3, <3>2
        <4>2. ns[x].children[i] \in 1 .. Len(ns)
          <5>1. Len(ns[x].children) = Len(ns[x].records) /\ \A j \in 1 .. Len(ns[x].children) : ns[x].children[j] \in DOMAIN ns
            BY <1>1, <1>2, <3>2, <4>1, Family
          <5>2. DOMAIN ns[x].records = 1 .. Len(ns[x].records)
            BY <1>1, <1>2, <3>2, RecordOf DEF Tree
          <5> QED
            BY <1>2, <4>1, <5>1, <5>2
        <4>3. Lo(t, ns[x].children[i]) > 1 /\ Lo(u, ns[x].children[i]) = Lo(t, ns[x].children[i])
          BY <1>3, <2>3, <4>1, <4>2
        <4>4. ns[x].records[i].val = Sep(t, Lo(t, ns[x].children[i]))
          BY <1>1, <1>2, <3>2, <4>1, <4>3 DEF Ordered
        <4> QED
          BY <1>3, <4>1, <4>3, <4>4
      <3> QED
        BY <1>2, <3>1, <3>2
    <2> QED
      BY <2>1, <2>2, <2>3 DEF Ordered
  <1>14. Stored(ms, bb, Done(bb, r))
    <2>1. Stored(ns, b, Len(b))
      BY <1>1 DEF Done
    <2>2. Stored(ns, bb, Len(b))
      BY <2>1, StoredAppend
    <2> HIDE DEF bb
    <2>3. Stored(ms, bb, Len(b))
      BY <1>11, <1>12, <2>2, StoredAlike
    <2> QED
      BY <1>5, <1>7, <2>3 DEF Done
  <1>15. EdgeBounded(ms, u, bb, r)
    <2> SUFFICES ASSUME NEW z \in DOMAIN ms, ~ms[z].leaf, Lo(u, z) = 1
                 PROVE  Cardinality(Under(bb, Passed(u, bb, r, z), ms[z].records[1].val)) <= Hgt(u, z)
      BY DEF EdgeBounded
    <2>1. Hgt(u, r) = Hgt(t, r)
      BY <1>3, <1>5
    <2>2. CASE z = N
      <3>1. Passed(u, bb, r, z) = Len(bb)
        <4>1. ~(Hgt(u, z) <= Hgt(u, r))
          BY <1>3, <1>5, <2>1, <2>2
        <4> QED
          BY <4>1 DEF Passed
      <3>2. Cardinality(Under(b, Len(b), ns[r].records[1].val)) <= Hgt(t, r)
        BY <1>8, RootEdge
      <3> DEFINE w == ns[r].records[1].val  h == Hgt(t, r)
      <3>3. h \in Nat /\ Cardinality(Under(b, Len(b), w)) <= h
        BY <1>5, <3>2
      <3> HIDE DEF w, h
      <3>4. Cardinality(Under(bb, Len(bb), w)) <= h + 1
        BY <3>3, UnderOneMore
      <3> QED
        BY <1>2, <1>3, <2>2, <3>1, <3>4 DEF w, h
    <2>3. CASE z \in 1 .. Len(ns)
      <3>1. Passed(u, bb, r, z) = Len(b)
        <4>1. Hgt(u, z) <= Hgt(u, r)
          BY <1>3, <1>6, <2>1, <2>3
        <4> HIDE DEF bb
        <4> QED
          BY <1>5, <1>7, <4>1 DEF Passed
      <3>2. ms[z] = ns[z] /\ ~ns[z].leaf /\ Lo(t, z) = 1 /\ z \in DOMAIN ns /\ Hgt(u, z) = Hgt(t, z)
        BY <1>2, <1>3, <2>3
      <3>3. Cardinality(Under(b, Passed(t, b, 0, z), ns[z].records[1].val)) <= Hgt(t, z)
        BY <1>1, <3>2 DEF EdgeBounded
      <3>4. Passed(t, b, 0, z) = Len(b)
        BY DEF Passed
      <3> HIDE DEF bb
      <3>5. Under(bb, Len(b), ns[z].records[1].val) = Under(b, Len(b), ns[z].records[1].val)
        BY <1>7
      <3> QED
        BY <3>1, <3>2, <3>3, <3>4, <3>5
    <2> QED
      BY <1>2, <2>2, <2>3
  <1>16. OnPath(ms, u, bb, r)
    <2>1. Len(bb) >= 1
      <3> HIDE DEF bb
      <3> QED
        BY <1>7
    <2>2. \A s \in 2 .. Width(u) : ~(s <= Lo(u, r)) /\ ~(s > Hi(u, r))
      BY <1>3, <1>5, <1>6
    <2>3. r \in DOMAIN ms
      BY <1>2, <1>5
    <2> QED
      BY <2>1, <2>2, <2>3 DEF OnPath
  <1> QED
    BY <1>4, <1>9, <1>10, <1>13, <1>14, <1>15, <1>16 DEF Sound

---------------------------------------------------------------------------
(* The actions of an insert.                                               *)

\* The tree is sound, and the node an insert has arrived at has room.
Growing(ns, r, b, a) ==
  /\ b \in Seq(Val)
  /\ \E t : Sound(ns, r, t, b, a)
  /\ a # 0 => a \in DOMAIN ns /\ ~BtIsFull(ns[a])

\* An insert is on its way in such a tree.
Arriving(ns, r, b, a) == a # 0 /\ Growing(ns, r, b, a)

\* The nodes of a sound tree.
LEMMA GrowingNodes ==
  ASSUME NEW ns, NEW r, NEW b, NEW a, Growing(ns, r, b, a)
  PROVE  /\ ns \in Seq(Node) /\ Len(ns) \in Nat /\ DOMAIN ns = 1 .. Len(ns)
         /\ r \in DOMAIN ns /\ r # 0 /\ b \in Seq(Val)
         /\ a # 0 => a \in DOMAIN ns /\ Len(b) \in Nat /\ Len(b) >= 1 /\ Newest(b) \in Val /\ Newest(b) \in Int
  <1>1. PICK t : Sound(ns, r, t, b, a)
    BY DEF Growing
  <1>2. Tree(ns, r, t) /\ OnPath(ns, t, b, a)
    BY <1>1 DEF Sound
  <1>3. ns \in Seq(Node) /\ Len(ns) \in Nat /\ DOMAIN ns = 1 .. Len(ns) /\ r \in DOMAIN ns /\ r # 0
    <2>1. ns \in Seq(Node) /\ r \in DOMAIN ns
      BY <1>2 DEF Tree
    <2> QED
      BY <2>1
  <1>4. b \in Seq(Val)
    BY DEF Growing
  <1>5. a # 0 => a \in DOMAIN ns /\ Len(b) >= 1
    BY <1>2 DEF OnPath
  <1>6. Len(b) >= 1 => Newest(b) \in Val /\ Newest(b) \in Int
    <2>1. Len(b) >= 1 => b[Len(b)] \in Val
      BY <1>4
    <2> QED
      BY <2>1, DataAssumption DEF Newest, Val
  <1> QED
    BY <1>3, <1>4, <1>5, <1>6

\* A record that is not an equation in the way of the provers.
LEMMA PendingRecord ==
  ASSUME buf \in Seq(Val), Len(buf) >= 1
  PROVE  Pending \in Record /\ Newest(buf) = Pending.val /\ Len(buf) = Pending.pos
  <1>1. Len(buf) \in Nat /\ buf[Len(buf)] \in Val
    OBVIOUS
  <1> QED
    BY <1>1 DEF Pending, Record, Newest

\* bt_insert.
LEMMA InsertGrows ==
  ASSUME Growing(node, root, buf, at), NEW val \in Val, BtInsert(val)
  PROVE  Arriving(node', root', buf', at')
  <1>1. PICK t : Sound(node, root, t, buf, at)
    BY DEF Growing
  <1>2. /\ node \in Seq(Node) /\ Len(node) \in Nat /\ DOMAIN node = 1 .. Len(node)
        /\ root \in DOMAIN node /\ root # 0 /\ buf \in Seq(Val)
    BY GrowingNodes
  <1>3. at = 0 /\ buf' = Append(buf, val)
    BY DEF BtInsert
  <1>4. Sound(node, root, t, buf, 0)
    BY <1>1, <1>3
  <1>5. buf' \in Seq(Val) /\ Newest(buf') = val
    BY <1>2, <1>3, UnderAppend
  <1>6. CASE ~BtIsFull(node[root])
    <2>1. at' = root /\ node' = node /\ root' = root
      BY <1>6 DEF BtInsert
    <2>2. Sound(node, root, t, Append(buf, val), root)
      BY <1>2, <1>4, InsertRoomy
    <2>3. Growing(node', root', buf', at')
      BY <1>2, <1>3, <1>5, <1>6, <2>1, <2>2 DEF Growing
    <2> QED
      BY <1>2, <2>1, <2>3 DEF Arriving
  <1>7. CASE BtIsFull(node[root])
    <2> DEFINE ns == Append(node, NewRoot(node, root))  N == Fresh(node)  b == Append(buf, val)
    <2>1. /\ node' = BtSplitChild(ns, N, 1) /\ root' = N /\ at' = HalfFor(node', N, 1, val)
      BY <1>7 DEF BtInsert, NewRoot, Fresh
    <2>2. Tree(node, root, t)
      BY <1>4 DEF Sound
    <2>3. Len(node[root].records) >= 1
      BY <1>2, <1>7, RecordOf, HalfCapacity DEF BtIsFull
    <2>4. PICK u : Rooted(node, ns, root, t, u, N)
      BY <2>2, <2>3, RootedExists
    <2>5. /\ N \in DOMAIN ns /\ ns[N].leaf = FALSE /\ Len(ns[N].records) = 1 /\ ns[N].children[1] = root
          /\ ns[root] = node[root]
      <3> HIDE DEF ns, N
      <3>1. /\ DOMAIN node = 1 .. Len(node) /\ N = Len(node) + 1 /\ N \in Nat /\ DOMAIN ns = 1 .. N
            /\ \A z \in 1 .. Len(node) : ns[z] = node[z]
            /\ ns[N].leaf = FALSE /\ Len(ns[N].records) = 1 /\ ns[N].children[1] = root
        BY <2>4 DEF Rooted
      <3> QED
        BY <1>2, <3>1
    <2> HIDE DEF ns, N
    <2>6. Sound(ns, N, u, Append(buf, val), root)
      BY <1>2, <1>4, <1>7, <2>4, RootedSound
    <2>7. b \in Seq(Val) /\ Sound(ns, N, u, b, ns[N].children[1]) /\ BtIsFull(ns[ns[N].children[1]])
      BY <1>3, <1>5, <1>7, <2>5, <2>6
    <2>8. ~BtIsFull(ns[N]) /\ 1 \in 1 .. Len(ns[N].records) /\ ~ns[N].leaf
      BY <2>5, HalfCapacity DEF BtIsFull
    <2>9. b[Len(b)] = val
      BY <1>3, <1>5 DEF Newest
    <2> HIDE DEF b
    <2>10. LET ms == BtSplitChild(ns, N, 1)
               a  == HalfFor(ms, N, 1, b[Len(b)])
           IN  (\E w : Sound(ms, N, w, b, a)) /\ a \in DOMAIN ms /\ ~BtIsFull(ms[a])
      BY <2>5, <2>7, <2>8, SplitSound
    <2>11. buf' = b
      BY <1>3 DEF b
    <2>12. (\E w : Sound(node', root', w, buf', at')) /\ at' \in DOMAIN node' /\ ~BtIsFull(node'[at'])
      BY <2>1, <2>9, <2>10, <2>11
    <2>13. Growing(node', root', buf', at')
      BY <1>5, <2>12 DEF Growing
    <2>14. at' # 0
      <3>1. DOMAIN node' = 1 .. Len(node') /\ Len(node') \in Nat
        BY <2>13, GrowingNodes
      <3> QED
        BY <2>12, <3>1
    <2> QED
      BY <2>13, <2>14 DEF Arriving
  <1> QED
    BY <1>6, <1>7

\* bt_insert_non_full on a leaf.
LEMMA LeafGrows ==
  ASSUME Growing(node, root, buf, at), BtInsertIntoLeaf
  PROVE  Growing(node', root', buf', at')
  <1>1. PICK t : Sound(node, root, t, buf, at)
    BY DEF Growing
  <1>2. at # 0 /\ node[at].leaf /\ root' = root /\ buf' = buf /\ at' = 0
    BY DEF BtInsertIntoLeaf
  <1>3. at \in DOMAIN node /\ Len(buf) >= 1 /\ Newest(buf) \in Int /\ buf \in Seq(Val)
    BY <1>2, GrowingNodes
  <1>4. ~BtIsFull(node[at])
    BY <1>2 DEF Growing
  <1>5. Pending \in Record /\ Newest(buf) = Pending.val /\ Len(buf) = Pending.pos
    BY <1>3, PendingRecord
  <1>6. node' = WithRecord(node, at, BtSearchInner(node[at], Newest(buf)) + 1, Pending)
    BY <1>5 DEF BtInsertIntoLeaf, WithRecord
  <1>7. Sound(WithRecord(node, at, BtSearchInner(node[at], Newest(buf)) + 1, Pending), root, t, buf, 0)
    BY <1>1, <1>2, <1>3, <1>4, <1>5, LeafInsert
  <1> QED
    BY <1>2, <1>3, <1>6, <1>7 DEF Growing

---------------------------------------------------------------------------
\* bt_insert_non_full descends, in the nodes ns, to the k-th child of x, and splits it
\* first if it is full.
LEMMA DescendGrows ==
  ASSUME NEW ns, NEW r, NEW t, NEW b, b \in Seq(Val), NEW x \in DOMAIN ns, ~ns[x].leaf, ~BtIsFull(ns[x]),
         NEW k \in 1 .. Len(ns[x].records), Sound(ns, r, t, b, ns[x].children[k])
  PROVE  /\ ns[x].children[k] \in DOMAIN ns
         /\ BtIsFull(ns[ns[x].children[k]]) =>
              LET ms == BtSplitChild(ns, x, k) IN Arriving(ms, r, b, HalfFor(ms, x, k, Newest(b)))
         /\ ~BtIsFull(ns[ns[x].children[k]]) => Arriving(ns, r, b, ns[x].children[k])
  <1> DEFINE y == ns[x].children[k]
  <1>1. Tree(ns, r, t)
    BY DEF Sound
  <1>2. y \in DOMAIN ns
    <2>1. Len(ns[x].children) = Len(ns[x].records) /\ \A i \in 1 .. Len(ns[x].children) : ns[x].children[i] \in DOMAIN ns
      BY <1>1, Family
    <2> QED
      BY <2>1
  <1>3. ASSUME BtIsFull(ns[y])
        PROVE  LET ms == BtSplitChild(ns, x, k) IN Arriving(ms, r, b, HalfFor(ms, x, k, Newest(b)))
    <2>1. LET ms == BtSplitChild(ns, x, k)
              a  == HalfFor(ms, x, k, b[Len(b)])
          IN  (\E u : Sound(ms, r, u, b, a)) /\ a \in DOMAIN ms /\ ~BtIsFull(ms[a])
      BY <1>3, SplitSound
    <2> DEFINE ms == BtSplitChild(ns, x, k)  a == HalfFor(ms, x, k, Newest(b))
    <2>2. Growing(ms, r, b, a) /\ a \in DOMAIN ms
      BY <2>1 DEF Growing, Newest
    <2> HIDE DEF ms, a
    <2>3. DOMAIN ms = 1 .. Len(ms) /\ Len(ms) \in Nat
      BY <2>2, GrowingNodes
    <2>4. Arriving(ms, r, b, a)
      BY <2>2, <2>3 DEF Arriving
    <2> QED
      BY <2>4 DEF ms, a
  <1>4. ~BtIsFull(ns[y]) => Arriving(ns, r, b, y)
    <2>1. y # 0
      BY <1>1, <1>2, Described
    <2> QED
      BY <1>2, <2>1 DEF Growing, Arriving
  <1> QED
    BY <1>2, <1>3, <1>4

\* bt_insert_non_full on an inner node.
LEMMA InnerGrows ==
  ASSUME Growing(node, root, buf, at), BtInsertIntoInner
  PROVE  Arriving(node', root', buf', at')
  <1> DEFINE d == Newest(buf)  i == BtSearchInner(node[at], d)
  <1>1. PICK t : Sound(node, root, t, buf, at)
    BY DEF Growing
  <1>2. at # 0 /\ ~node[at].leaf /\ root' = root /\ buf' = buf
    BY DEF BtInsertIntoInner
  <1>3. /\ node \in Seq(Node) /\ at \in DOMAIN node /\ Len(buf) >= 1 /\ d \in Int /\ buf \in Seq(Val)
    BY <1>2, GrowingNodes
  <1>4. ~BtIsFull(node[at]) /\ Tree(node, root, t)
    BY <1>1, <1>2 DEF Growing, Sound
  <1>5. Pending \in Record /\ d = Pending.val
    BY <1>3, PendingRecord
  <1>6. CASE i # 0
    <2>1. i \in 1 .. Len(node[at].records) /\ Sound(node, root, t, buf, node[at].children[i])
      BY <1>1, <1>2, <1>3, <1>6, DescendOn
    <2> DEFINE y == node[at].children[i]
    <2>2. IF BtIsFull(node[y])
          THEN node' = BtSplitChild(node, at, i) /\ at' = HalfFor(node', at, i, d)
          ELSE node' = node /\ at' = y
      BY <1>5, <1>6 DEF BtInsertIntoInner
    <2> HIDE DEF d, i, y
    <2>3. /\ BtIsFull(node[y]) =>
               LET ms == BtSplitChild(node, at, i) IN Arriving(ms, root, buf, HalfFor(ms, at, i, Newest(buf)))
          /\ ~BtIsFull(node[y]) => Arriving(node, root, buf, y)
      BY <1>2, <1>3, <1>4, <2>1, DescendGrows DEF y
    <2> QED
      BY <1>2, <2>2, <2>3 DEF d
  <1>7. CASE i = 0
    <2> DEFINE ns == LowerFirst(node, at, Pending)  y == node[at].children[1]
    <2>1. Sound(ns, root, t, buf, y)
      BY <1>1, <1>2, <1>3, <1>5, <1>7, DescendLowest
    <2>2. /\ Len(node[at].records) \in Nat /\ Len(node[at].records) >= 1
          /\ Hgt(t, y) = Hgt(t, at) - 1 /\ y \in DOMAIN node
      <3>1. /\ Len(node[at].children) = Len(node[at].records) /\ Len(node[at].children) >= 1
            /\ Len(node[at].records) \in Nat
            /\ \A k \in 1 .. Len(node[at].children) :
                 node[at].children[k] \in DOMAIN node /\ Hgt(t, node[at].children[k]) = Hgt(t, at) - 1
        BY <1>2, <1>3, <1>4, Family
      <3>2. 1 \in 1 .. Len(node[at].children)
        BY <3>1
      <3> QED
        BY <3>1, <3>2
    <2>3. y # at
      <3>1. Hgt(t, at) \in Nat
        BY <1>3, <1>4, Placed
      <3> QED
        BY <2>2, <3>1
    <2>4. /\ ns \in Seq(Node) /\ DOMAIN ns = DOMAIN node
          /\ \A z \in DOMAIN node : z # at => ns[z] = node[z]
          /\ ns[at].leaf = node[at].leaf /\ ns[at].children = node[at].children
          /\ Len(ns[at].records) = Len(node[at].records)
      BY <1>3, <1>5, <2>2, LoweredNodes
    <2>5. IF BtIsFull(node[y])
          THEN node' = BtSplitChild(ns, at, 1) /\ at' = HalfFor(node', at, 1, d)
          ELSE node' = ns /\ at' = y
      BY <1>5, <1>7 DEF BtInsertIntoInner, LowerFirst
    <2> HIDE DEF ns, y, d, i
    <2>6. at \in DOMAIN ns /\ ~ns[at].leaf /\ ~BtIsFull(ns[at]) /\ 1 \in 1 .. Len(ns[at].records) /\ ns[y] = node[y]
      BY <1>2, <1>3, <1>4, <2>2, <2>3, <2>4 DEF BtIsFull
    <2>7. y = ns[at].children[1]
      BY <2>4 DEF y
    <2>8. Sound(ns, root, t, buf, ns[at].children[1])
      BY <2>1, <2>7
    <2>9. /\ BtIsFull(ns[ns[at].children[1]]) =>
               LET ms == BtSplitChild(ns, at, 1) IN Arriving(ms, root, buf, HalfFor(ms, at, 1, Newest(buf)))
          /\ ~BtIsFull(ns[ns[at].children[1]]) => Arriving(ns, root, buf, ns[at].children[1])
      BY <1>3, <2>6, <2>8, DescendGrows
    <2> QED
      BY <1>2, <2>5, <2>6, <2>7, <2>9 DEF d
  <1> QED
    BY <1>6, <1>7

\* The index starts as an empty leaf.
LEMMA StartGrows ==
  Init => Growing(node, root, buf, at)
  <1> SUFFICES ASSUME Init
               PROVE  Growing(node, root, buf, at)
    OBVIOUS
  <1> DEFINE t == [chain |-> <<1>>, hgt |-> [z \in 1 .. 1 |-> 0], lo |-> [z \in 1 .. 1 |-> 1],
                   hi |-> [z \in 1 .. 1 |-> 1], sep |-> [z \in Nat |-> 0]]
  <1>1. /\ node = <<NewLeaf>> /\ root = 1 /\ buf = <<>> /\ at = 0
    BY DEF Init
  <1>2. NewLeaf \in Node /\ NewLeaf.leaf = TRUE /\ NewLeaf.records = <<>> /\ NewLeaf.children = <<>> /\ NewLeaf.next = 0
    BY DEF NewLeaf, Node
  <1>3. /\ node \in Seq(Node) /\ DOMAIN node = 1 .. 1 /\ Len(node) = 1 /\ node[1] = NewLeaf
    BY <1>1, <1>2
  <1>4. \A z \in 1 .. 1 : z = 1
    OBVIOUS
  <1>5. 1 \in 1 .. 1
    OBVIOUS
  <1>6. /\ Width(t) = 1 /\ At(t, 1) = 1 /\ Hgt(t, 1) = 0 /\ Lo(t, 1) = 1 /\ Hi(t, 1) = 1
    BY <1>5 DEF Width, At, Hgt, Lo, Hi
  <1>7. Description(node, t)
    BY <1>3 DEF Description
  <1> HIDE DEF t
  <1>8. InChain(node, t, 1)
    BY <1>2, <1>3, <1>6 DEF InChain
  <1>9. Tree(node, root, t)
    BY <1>1, <1>2, <1>3, <1>4, <1>5, <1>6, <1>7, <1>8 DEF Tree
  <1>10. Linked(node, t)
    BY <1>2, <1>3, <1>4, <1>6 DEF Linked
  <1>11. Filled(node, root)
    BY <1>1, <1>2, <1>3, <1>4, HalfCapacity DEF Filled
  <1>12. DOMAIN node[1].records = {}
    BY <1>2, <1>3
  <1>13. Ordered(node, t)
    <2>1. \A x \in DOMAIN node : node[x].leaf /\ DOMAIN node[x].records = {}
      BY <1>2, <1>3, <1>4, <1>12
    <2> QED
      BY <2>1 DEF Ordered
  <1>14. Stored(node, buf, Done(buf, at))
    <2>1. \A x \in DOMAIN node : node[x].leaf /\ DOMAIN node[x].records = {}
      BY <1>2, <1>3, <1>4, <1>12
    <2>2. Done(buf, at) = 0
      BY <1>1 DEF Done
    <2>3. 1 .. 0 = {}
      OBVIOUS
    <2> QED
      BY <2>1, <2>2, <2>3 DEF Stored
  <1>15. EdgeBounded(node, t, buf, at)
    <2>1. \A x \in DOMAIN node : node[x].leaf
      BY <1>2, <1>3, <1>4
    <2> QED
      BY <2>1 DEF EdgeBounded
  <1>16. OnPath(node, t, buf, at)
    BY <1>1 DEF OnPath
  <1>17. buf \in Seq(Val)
    BY <1>1
  <1> QED
    BY <1>1, <1>9, <1>10, <1>11, <1>13, <1>14, <1>15, <1>16, <1>17 DEF Sound, Growing
=============================================================================
