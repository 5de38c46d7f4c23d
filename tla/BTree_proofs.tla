---------------------------- MODULE BTree_proofs ----------------------------
EXTENDS BTreeGrowth_proofs
(***************************************************************************)
(* The file of a tree, what is read back from it, the invariant of the     *)
(* specification, what a select by index returns, and the refinement.      *)
(***************************************************************************)

---------------------------------------------------------------------------
(* Lists one after the other.                                              *)

\* What two lists make.
LEMMA Concatenation ==
  ASSUME NEW T, NEW x \in Seq(T), NEW z \in Seq(T)
  PROVE  /\ x \o z \in Seq(T) /\ Len(x \o z) = Len(x) + Len(z)
         /\ \A k \in 1 .. Len(x) : (x \o z)[k] = x[k]
         /\ \A k \in 1 .. Len(z) : (x \o z)[Len(x) + k] = z[k]
  OBVIOUS

\* A function on the first naturals is a list.
LEMMA FunctionIsList ==
  ASSUME NEW A, NEW n \in Nat, NEW f \in [1 .. n -> A]
  PROVE  f \in Seq(A) /\ Len(f) = n
  OBVIOUS

\* How FlattenSeq goes through the lists.
Flattened(ss, f) ==
  \A i \in 1 .. Len(ss) : f[i] = IF i = 1 THEN ss[i] ELSE f[i - 1] \o ss[i]

\* It does, whatever the lists.
LEMMA FlattenSteps ==
  ASSUME NEW T, NEW ss \in Seq(Seq(T)), Len(ss) # 0
  PROVE  \E f \in [1 .. Len(ss) -> Seq(T)] : Flattened(ss, f) /\ FlattenSeq(ss) = f[Len(ss)]
  <1>1. DOMAIN ss = 1 .. Len(ss) /\ Len(ss) \in Nat /\ \A k \in 1 .. Len(ss) : ss[k] \in Seq(T)
    OBVIOUS
  <1> DEFINE S == 1 .. Len(ss)
             Body(f) == [i \in S |-> IF i = 1 THEN ss[i] ELSE f[i - 1] \o ss[i]]
             G == [f \in [S -> Seq(T)] |-> Body(f)]
             m == [i \in S |-> i]
  <1>2. \E f \in [S -> Seq(T)] : f = Body(f)
    <2>1. ASSUME NEW f \in [S -> Seq(T)]
          PROVE  Body(f) \in [S -> Seq(T)]
      <3> SUFFICES ASSUME NEW i \in S
                   PROVE  (IF i = 1 THEN ss[i] ELSE f[i - 1] \o ss[i]) \in Seq(T)
        OBVIOUS
      <3>1. CASE i = 1
        BY <1>1, <3>1
      <3>2. CASE i # 1
        <4>1. i - 1 \in S
          BY <1>1, <3>2
        <4>2. f[i - 1] \in Seq(T) /\ ss[i] \in Seq(T)
          BY <1>1, <4>1
        <4>3. f[i - 1] \o ss[i] \in Seq(T)
          BY <4>2, ConcatProperties
        <4> QED
          BY <3>2, <4>3
      <3> QED
        BY <3>1, <3>2
    <2>2. Measured(S, m, Len(ss) + 1)
      BY <1>1 DEF Measured
    <2>3. Descends(S, Seq(T), m, G)
      <3>1. Seq(T) # {}
        BY <1>1
      <3>2. G \in [[S -> Seq(T)] -> [S -> Seq(T)]]
        BY <2>1
      <3>3. ASSUME NEW g \in [S -> Seq(T)], NEW h \in [S -> Seq(T)], NEW i \in S,
                   \A j \in S : m[j] < m[i] => g[j] = h[j]
            PROVE  G[g][i] = G[h][i]
        <4>1. i # 1 => i - 1 \in S /\ m[i - 1] < m[i]
          BY <1>1
        <4>2. i # 1 => g[i - 1] = h[i - 1]
          BY <3>3, <4>1
        <4>3. G[g] = Body(g) /\ G[h] = Body(h)
          OBVIOUS
        <4> QED
          BY <4>2, <4>3
      <3> QED
        BY <3>1, <3>2, <3>3 DEF Descends
    <2>4. PICK f \in [S -> Seq(T)] : f = G[f]
      <3> HIDE DEF S, G, m
      <3> QED
        BY <2>2, <2>3, RecursiveFunction
    <2> QED
      BY <2>4
  <1> DEFINE f == CHOOSE g : g = Body(g)
  <1>3. f = Body(f)
    <2> HIDE DEF Body
    <2> QED
      BY <1>2
  <1>4. FlattenSeq(ss) = f[Len(ss)]
    BY DEF FlattenSeq
  <1> HIDE DEF f
  <1>5. f \in [S -> Seq(T)]
    <2> DEFINE N == { n \in Nat : n + 1 \in S => f[n + 1] \in Seq(T) }
    <2>1. 0 \in N
      BY <1>1, <1>3
    <2>2. ASSUME NEW n \in Nat, n \in N
          PROVE  n + 1 \in N
      <3> SUFFICES ASSUME n + 2 \in S
                   PROVE  f[n + 2] \in Seq(T)
        OBVIOUS
      <3>1. n + 1 \in S /\ n + 2 # 1 /\ (n + 2) - 1 = n + 1
        BY <1>1
      <3>2. f[n + 1] \in Seq(T)
        BY <2>2, <3>1
      <3>3. f[n + 2] = f[n + 1] \o ss[n + 2]
        BY <1>3, <3>1
      <3>4. f[n + 1] \o ss[n + 2] \in Seq(T)
        BY <1>1, <3>2, ConcatProperties
      <3> QED
        BY <3>3, <3>4
    <2>3. Nat \subseteq N
      <3> HIDE DEF N
      <3> QED
        BY <2>1, <2>2, SetInduction
    <2>4. \A i \in S : f[i] \in Seq(T)
      <3> TAKE i \in S
      <3>1. i - 1 \in Nat /\ (i - 1) + 1 = i
        BY <1>1
      <3> QED
        BY <2>3, <3>1
    <2> QED
      BY <1>3, <2>4
  <1>6. Flattened(ss, f)
    BY <1>3 DEF Flattened
  <1> QED
    BY <1>4, <1>5, <1>6

\* Where each list begins in all of them one after the other.
Offsets(ss, off) ==
  /\ off \in [0 .. Len(ss) -> Nat] /\ off[0] = 0
  /\ \A i \in 1 .. Len(ss) : off[i] = off[i - 1] + Len(ss[i])

\* The elements of the lists, each in its place.
Laid(ss, off, s) ==
  /\ Offsets(ss, off) /\ Len(s) = off[Len(ss)]
  /\ \A i \in 1 .. Len(ss) : off[i] <= off[Len(ss)] /\ \A j \in 1 .. Len(ss[i]) : s[off[i - 1] + j] = ss[i][j]

\* FlattenSeq lays them out.
LEMMA Layout ==
  ASSUME NEW T, NEW ss \in Seq(Seq(T))
  PROVE  FlattenSeq(ss) \in Seq(T) /\ \E off : Laid(ss, off, FlattenSeq(ss))
  <1>1. DOMAIN ss = 1 .. Len(ss) /\ Len(ss) \in Nat /\ \A k \in 1 .. Len(ss) : ss[k] \in Seq(T) /\ Len(ss[k]) \in Nat
    <2>1. \A k \in 1 .. Len(ss) : ss[k] \in Seq(T)
      OBVIOUS
    <2> QED
      BY <2>1
  <1>2. CASE Len(ss) = 0
    <2>1. FlattenSeq(ss) = ss /\ ss = <<>>
      BY <1>2 DEF FlattenSeq
    <2> DEFINE off == [i \in 0 .. 0 |-> 0]
    <2>2. off \in [0 .. 0 -> Nat] /\ off[0] = 0
      OBVIOUS
    <2> HIDE DEF off
    <2>3. Laid(ss, off, FlattenSeq(ss))
      BY <1>2, <2>1, <2>2 DEF Laid, Offsets
    <2> QED
      BY <2>1, <2>3
  <1>3. CASE Len(ss) # 0
    <2> DEFINE n == Len(ss)
    <2>1. PICK f \in [1 .. n -> Seq(T)] : Flattened(ss, f) /\ FlattenSeq(ss) = f[n]
      BY <1>3, FlattenSteps
    <2> DEFINE off == [i \in 0 .. n |-> IF i = 0 THEN 0 ELSE Len(f[i])]
    <2>2. \A i \in 1 .. n : f[i] \in Seq(T) /\ Len(f[i]) \in Nat
      <3>1. \A i \in 1 .. n : f[i] \in Seq(T)
        OBVIOUS
      <3> QED
        BY <3>1
    <2>3. off \in [0 .. n -> Nat] /\ off[0] = 0 /\ \A i \in 1 .. n : off[i] = Len(f[i])
      BY <1>1, <2>2
    <2> HIDE DEF off
    <2>4. ASSUME NEW i \in 1 .. n, i # 1
          PROVE  /\ i - 1 \in 1 .. n /\ f[i] = f[i - 1] \o ss[i]
                 /\ Len(f[i]) = Len(f[i - 1]) + Len(ss[i])
                 /\ \A k \in 1 .. Len(f[i - 1]) : f[i][k] = f[i - 1][k]
                 /\ \A k \in 1 .. Len(ss[i]) : f[i][Len(f[i - 1]) + k] = ss[i][k]
      <3>1. i - 1 \in 1 .. n
        BY <1>1, <2>4
      <3>2. f[i] = f[i - 1] \o ss[i]
        BY <2>1, <2>4 DEF Flattened
      <3> DEFINE x == f[i - 1]  z == ss[i]
      <3>3. x \in Seq(T) /\ z \in Seq(T)
        BY <1>1, <2>2, <3>1
      <3> HIDE DEF x, z
      <3>4. /\ Len(x \o z) = Len(x) + Len(z)
            /\ \A k \in 1 .. Len(x) : (x \o z)[k] = x[k]
            /\ \A k \in 1 .. Len(z) : (x \o z)[Len(x) + k] = z[k]
        BY <3>3, Concatenation
      <3> QED
        BY <3>1, <3>2, <3>4 DEF x, z
    <2>5. f[1] = ss[1] /\ 1 \in 1 .. n
      BY <1>1, <1>3, <2>1 DEF Flattened
    <2>6. ASSUME NEW i \in 1 .. n
          PROVE  off[i] = off[i - 1] + Len(ss[i])
      <3>1. CASE i = 1
        <4>1. Len(ss[1]) \in Nat /\ i - 1 = 0
          BY <1>1, <2>5, <3>1
        <4> QED
          BY <2>3, <2>5, <3>1, <4>1
      <3>2. CASE i # 1
        BY <2>3, <2>4, <3>2
      <3> QED
        BY <3>1, <3>2
    <2> DEFINE Good(l) == \A i \in 1 .. l : off[i] <= off[l] /\ \A j \in 1 .. Len(ss[i]) : f[l][off[i - 1] + j] = ss[i][j]
               N == { m \in Nat : m + 1 \in 1 .. n => Good(m + 1) }
    <2>7. 0 \in N
      <3>1. \A i \in 1 .. 1 : i = 1 /\ i - 1 = 0
        OBVIOUS
      <3>2. \A j \in 1 .. Len(ss[1]) : 0 + j = j
        BY <1>1, <2>5
      <3>3. off[1] \in Nat
        BY <2>3, <2>5, <2>2
      <3>4. Good(1)
        BY <2>3, <2>5, <3>1, <3>2, <3>3
      <3> HIDE DEF Good
      <3> QED
        BY <3>4
    <2>8. ASSUME NEW m \in Nat, m \in N
          PROVE  m + 1 \in N
      <3> SUFFICES ASSUME m + 2 \in 1 .. n
                   PROVE  Good(m + 2)
        BY DEF Good
      <3> DEFINE l == m + 1  p == m + 2
      <3>1. l \in 1 .. n /\ p \in 1 .. n /\ p # 1 /\ p - 1 = l /\ l \in Nat /\ l >= 1 /\ p = l + 1
        BY <1>1
      <3>2. Good(l)
        BY <2>8, <3>1
      <3>3. /\ Len(f[p]) = Len(f[l]) + Len(ss[p])
            /\ \A k \in 1 .. Len(f[l]) : f[p][k] = f[l][k]
            /\ \A k \in 1 .. Len(ss[p]) : f[p][Len(f[l]) + k] = ss[p][k]
        <4> HIDE DEF l, p
        <4>1. /\ Len(f[p]) = Len(f[p - 1]) + Len(ss[p])
              /\ \A k \in 1 .. Len(f[p - 1]) : f[p][k] = f[p - 1][k]
              /\ \A k \in 1 .. Len(ss[p]) : f[p][Len(f[p - 1]) + k] = ss[p][k]
          BY <2>4, <3>1
        <4> QED
          BY <3>1, <4>1
      <3> HIDE DEF l, p
      <3>4. off[l] = Len(f[l]) /\ off[p] = Len(f[p]) /\ Len(ss[p]) \in Nat /\ off[l] \in Nat /\ off[p] \in Nat
        BY <1>1, <2>2, <2>3, <3>1
      <3>5. ASSUME NEW i \in 1 .. p
            PROVE  off[i] <= off[p] /\ \A j \in 1 .. Len(ss[i]) : f[p][off[i - 1] + j] = ss[i][j]
        <4>1. CASE i = p
          <5>1. off[p] <= off[p]
            BY <3>4
          <5>2. \A j \in 1 .. Len(ss[p]) : f[p][off[p - 1] + j] = ss[p][j]
            BY <3>1, <3>3, <3>4
          <5> QED
            BY <4>1, <5>1, <5>2
        <4>2. CASE i # p
          <5>1. i \in 1 .. l /\ i \in 1 .. n /\ i - 1 \in 0 .. n
            BY <1>1, <3>1, <4>2
          <5>2. off[i] <= off[l] /\ \A j \in 1 .. Len(ss[i]) : f[l][off[i - 1] + j] = ss[i][j]
            BY <3>2, <5>1
          <5>3. off[i] = off[i - 1] + Len(ss[i]) /\ off[i - 1] \in Nat /\ Len(ss[i]) \in Nat
            BY <1>1, <2>3, <2>6, <5>1
          <5>4. \A j \in 1 .. Len(ss[i]) : off[i - 1] + j \in 1 .. Len(f[l])
            <6> TAKE j \in 1 .. Len(ss[i])
            <6>1. j \in Nat /\ j >= 1 /\ j <= Len(ss[i])
              BY <5>3
            <6> DEFINE a == off[i - 1]  b == Len(ss[i])  c == Len(f[l])
            <6>2. a \in Nat /\ b \in Nat /\ c \in Nat /\ a + b <= c /\ j <= b
              BY <3>4, <5>2, <5>3, <6>1
            <6> HIDE DEF a, b, c
            <6>3. a + j \in 1 .. c
              BY <6>1, <6>2
            <6> QED
              BY <6>3 DEF a, c
          <5>5. \A j \in 1 .. Len(ss[i]) : f[p][off[i - 1] + j] = ss[i][j]
            BY <3>3, <5>2, <5>4
          <5>6. off[i] <= off[p]
            <6>1. off[l] <= off[p]
              <7>1. Len(f[p]) = Len(f[l]) + Len(ss[p])
                BY <3>3
              <7>2. off[p] = off[l] + Len(ss[p])
                BY <3>4, <7>1
              <7> DEFINE a == off[l]  c == off[p]  e == Len(ss[p])
              <7>3. a \in Nat /\ e \in Nat /\ c = a + e
                BY <3>4, <7>2
              <7> HIDE DEF a, c, e, N, n, Good
              <7>4. a <= c
                BY <7>3
              <7> QED
                BY <7>4 DEF a, c
            <6>2. off[i] \in Nat
              BY <5>3
            <6> QED
              BY <3>4, <5>2, <6>1, <6>2
          <5> QED
            BY <5>5, <5>6
        <4> QED
          BY <4>1, <4>2
      <3> QED
        BY <3>5 DEF p
    <2>9. n - 1 \in N /\ (n - 1) + 1 = n /\ n \in 1 .. n
      <3>1. Nat \subseteq N
        <4> HIDE DEF N
        <4> QED
          BY <2>7, <2>8, SetInduction
      <3>2. n - 1 \in Nat /\ (n - 1) + 1 = n /\ n \in 1 .. n
        BY <1>1, <1>3
      <3> HIDE DEF N, n
      <3> QED
        BY <3>1, <3>2
    <2>10. Good(n)
      <3> HIDE DEF Good
      <3> QED
        BY <2>9
    <2>11. Laid(ss, off, f[n])
      BY <2>3, <2>6, <2>9, <2>10 DEF Laid, Offsets
    <2> QED
      BY <2>1, <2>2, <2>9, <2>11
  <1> QED
    BY <1>2, <1>3

---------------------------------------------------------------------------
(* Walks through a tree.                                                   *)

\* The lists below the children of x.
Parts(ns, f, x) == [i \in DOMAIN ns[x].children |-> f[ns[x].children[i]]]

\* The leaves below every node from left to right, with the inner nodes, each before
\* its children, if w says so.
Walk(ns, w, f) ==
  [x \in DOMAIN ns |-> IF ns[x].leaf THEN <<x>>
                       ELSE IF w THEN <<x>> \o FlattenSeq(Parts(ns, f, x)) ELSE FlattenSeq(Parts(ns, f, x))]

\* The lists of the children of x are lists of nodes.
LEMMA PartsLists ==
  ASSUME NEW ns, NEW r, NEW t, Tree(ns, r, t), NEW x \in DOMAIN ns, ~ns[x].leaf,
         NEW f \in [DOMAIN ns -> Seq(DOMAIN ns)]
  PROVE  /\ Parts(ns, f, x) \in Seq(Seq(DOMAIN ns)) /\ Len(Parts(ns, f, x)) = Len(ns[x].children)
         /\ \A i \in 1 .. Len(ns[x].children) : Parts(ns, f, x)[i] = f[ns[x].children[i]]
  <1> DEFINE c == ns[x].children
  <1>1. c \in Seq(Nat)
    <2>1. ns[x] \in Node
      BY DEF Tree
    <2> QED
      BY <2>1 DEF Node
  <1>2. Len(c) \in Nat /\ DOMAIN c = 1 .. Len(c)
    <2> HIDE DEF c
    <2> QED
      BY <1>1
  <1>3. \A i \in 1 .. Len(c) : c[i] \in DOMAIN ns
    BY Family
  <1> HIDE DEF c
  <1>4. Parts(ns, f, x) = [i \in 1 .. Len(c) |-> f[c[i]]]
    BY <1>2 DEF Parts, c
  <1>5. [i \in 1 .. Len(c) |-> f[c[i]]] \in [1 .. Len(c) -> Seq(DOMAIN ns)]
    BY <1>3
  <1> DEFINE T == Seq(DOMAIN ns)  n == Len(c)  g == Parts(ns, f, x)
  <1>6. n \in Nat /\ g \in [1 .. n -> T]
    BY <1>2, <1>4, <1>5
  <1>7. \A i \in 1 .. n : g[i] = f[c[i]]
    BY <1>4
  <1> HIDE DEF T, n, g
  <1>8. g \in Seq(T) /\ Len(g) = n
    BY <1>6, FunctionIsList
  <1> QED
    BY <1>7, <1>8 DEF T, n, g, c

\* There are such walks.
LEMMA WalkExists ==
  ASSUME NEW ns, NEW r, NEW t, Tree(ns, r, t), NEW w \in BOOLEAN
  PROVE  \E f \in [DOMAIN ns -> Seq(DOMAIN ns)] : f = Walk(ns, w, f)
  <1> DEFINE S == DOMAIN ns  V == Seq(DOMAIN ns)  m == [x \in S |-> Hgt(t, x)]
             G == [f \in [S -> V] |-> Walk(ns, w, f)]
  <1>1. r \in S /\ \A x \in S : Hgt(t, x) \in Nat /\ Hgt(t, x) <= Hgt(t, r)
    BY Placed DEF Tree
  <1>2. Measured(S, m, Hgt(t, r) + 1)
    <2>1. m \in [S -> Nat]
      BY <1>1
    <2>2. \A x \in S : m[x] < Hgt(t, r) + 1
      BY <1>1
    <2> QED
      BY <1>1, <2>1, <2>2 DEF Measured
  <1>3. ASSUME NEW f \in [S -> V], NEW x \in S
        PROVE  /\ <<x>> \in V
               /\ ~ns[x].leaf => FlattenSeq(Parts(ns, f, x)) \in V /\ <<x>> \o FlattenSeq(Parts(ns, f, x)) \in V
    <2>1. <<x>> \in V
      OBVIOUS
    <2>2. ASSUME ~ns[x].leaf
          PROVE  FlattenSeq(Parts(ns, f, x)) \in V
      <3> DEFINE ss == Parts(ns, f, x)
      <3>1. ss \in Seq(Seq(S))
        BY <2>2, PartsLists
      <3> HIDE DEF ss, S
      <3>2. FlattenSeq(ss) \in Seq(S)
        BY <3>1, Layout
      <3> QED
        BY <3>2 DEF S, ss
    <2>3. FlattenSeq(Parts(ns, f, x)) \in V => <<x>> \o FlattenSeq(Parts(ns, f, x)) \in V
      BY <2>1, ConcatProperties
    <2> QED
      BY <2>1, <2>2, <2>3
  <1>4. Descends(S, V, m, G)
    <2>1. V # {}
      <3>1. <<r>> \in V
        BY <1>1
      <3> QED
        BY <3>1
    <2>2. G \in [[S -> V] -> [S -> V]]
      <3> SUFFICES ASSUME NEW f \in [S -> V]
                   PROVE  Walk(ns, w, f) \in [S -> V]
        OBVIOUS
      <3> HIDE DEF V
      <3> QED
        BY <1>3 DEF Walk
    <2>3. ASSUME NEW g \in [S -> V], NEW h \in [S -> V], NEW x \in S,
                 \A z \in S : m[z] < m[x] => g[z] = h[z]
          PROVE  G[g][x] = G[h][x]
      <3>1. G[g] = Walk(ns, w, g) /\ G[h] = Walk(ns, w, h)
        OBVIOUS
      <3>2. ~ns[x].leaf => Parts(ns, g, x) = Parts(ns, h, x)
        <4> SUFFICES ASSUME ~ns[x].leaf
                     PROVE  Parts(ns, g, x) = Parts(ns, h, x)
          OBVIOUS
        <4>1. /\ \A i \in 1 .. Len(ns[x].children) :
                   ns[x].children[i] \in S /\ Hgt(t, ns[x].children[i]) = Hgt(t, x) - 1
          BY Family
        <4>2. DOMAIN ns[x].children = 1 .. Len(ns[x].children)
          <5>1. ns[x] \in Node
            BY DEF Tree
          <5>2. ns[x].children \in Seq(Nat)
            BY <5>1 DEF Node
          <5> QED
            BY <5>2
        <4>3. \A i \in DOMAIN ns[x].children : g[ns[x].children[i]] = h[ns[x].children[i]]
          BY <1>1, <2>3, <4>1, <4>2, SMTT(30)
        <4> QED
          BY <4>3 DEF Parts
      <3> QED
        BY <3>1, <3>2 DEF Walk
    <2> HIDE DEF G, m, S, V
    <2> QED
      BY <2>1, <2>2, <2>3 DEF Descends
  <1>5. PICK f \in [S -> V] : f = G[f]
    <2> HIDE DEF S, V, m, G
    <2> QED
      BY <1>2, <1>4, RecursiveFunction
  <1> QED
    BY <1>5

\* What a walk lists below an inner node.
LEMMA WalkBelow ==
  ASSUME NEW ns, NEW r, NEW t, Tree(ns, r, t), NEW w \in BOOLEAN,
         NEW f \in [DOMAIN ns -> Seq(DOMAIN ns)], f = Walk(ns, w, f), NEW x \in DOMAIN ns, ~ns[x].leaf
  PROVE  \E off, s : /\ Laid(Parts(ns, f, x), off, s) /\ s \in Seq(DOMAIN ns)
                     /\ f[x] = IF w THEN <<x>> \o s ELSE s
  <1> DEFINE ss == Parts(ns, f, x)  S == DOMAIN ns
  <1>1. ss \in Seq(Seq(S))
    BY PartsLists
  <1>2. f[x] = IF w THEN <<x>> \o FlattenSeq(ss) ELSE FlattenSeq(ss)
    BY DEF Walk
  <1> HIDE DEF ss, S
  <1>3. FlattenSeq(ss) \in Seq(S) /\ \E off : Laid(ss, off, FlattenSeq(ss))
    BY <1>1, Layout
  <1> QED
    BY <1>2, <1>3 DEF ss, S

---------------------------------------------------------------------------
\* The k-th element of lists one after the other is one of theirs.
Somewhere(ss, off, k) == \E i \in 1 .. Len(ss) : \E j \in 1 .. Len(ss[i]) : k = off[i - 1] + j
HaveLengths(ss) == Len(ss) \in Nat /\ \A i \in 1 .. Len(ss) : Len(ss[i]) \in Nat

\* Every element is.
LEMMA LaidWhere ==
  ASSUME NEW ss, HaveLengths(ss), NEW off, NEW s, Laid(ss, off, s), NEW k \in 1 .. Len(s)
  PROVE  Somewhere(ss, off, k)
  <1> USE DEF Somewhere, HaveLengths
  <1> DEFINE n == Len(ss)
             N == { m \in Nat : m <= n => \A q \in 1 .. off[m] :
                                 \E i \in 1 .. n : \E j \in 1 .. Len(ss[i]) : q = off[i - 1] + j }
  <1>1. /\ off \in [0 .. n -> Nat] /\ off[0] = 0 /\ Len(s) = off[n]
        /\ \A i \in 1 .. n : off[i] = off[i - 1] + Len(ss[i])
    BY DEF Laid, Offsets
  <1>2. 0 \in N
    <2>1. 1 .. off[0] = {}
      BY <1>1
    <2> QED
      BY <2>1
  <1>3. ASSUME NEW m \in Nat, m \in N
        PROVE  m + 1 \in N
    <2> SUFFICES ASSUME m + 1 <= n, NEW q \in 1 .. off[m + 1]
                 PROVE  \E i \in 1 .. n : \E j \in 1 .. Len(ss[i]) : q = off[i - 1] + j
      OBVIOUS
    <2>1. m <= n /\ m + 1 \in 1 .. n /\ (m + 1) - 1 = m /\ m \in 0 .. n
      OBVIOUS
    <2>2. off[m + 1] = off[m] + Len(ss[m + 1]) /\ off[m] \in Nat /\ Len(ss[m + 1]) \in Nat
      BY <1>1, <2>1
    <2>3. CASE q <= off[m]
      <3>1. q \in 1 .. off[m]
        BY <2>2, <2>3
      <3> QED
        BY <1>3, <2>1, <3>1
    <2>4. CASE ~(q <= off[m])
      <3>1. q - off[m] \in 1 .. Len(ss[m + 1]) /\ q = off[m] + (q - off[m])
        BY <2>2, <2>4
      <3> QED
        BY <2>1, <3>1
    <2> QED
      BY <2>3, <2>4
  <1>4. n \in N
    <2>1. Nat \subseteq N
      <3> HIDE DEF N
      <3> QED
        BY <1>2, <1>3, SetInduction
    <2> HIDE DEF N
    <2> QED
      BY <2>1
  <1>5. n <= n /\ k \in 1 .. off[n]
    BY <1>1
  <1> QED
    BY <1>4, <1>5

\* f lists the leaves below each node.
LeafWalked(ns, f) == f \in [DOMAIN ns -> Seq(DOMAIN ns)] /\ f = Walk(ns, FALSE, f)

\* The leaves below a node, from left to right, are a part of the chain.
LEMMA LeavesWalk ==
  ASSUME NEW ns, NEW r, NEW t, Tree(ns, r, t), NEW f, LeafWalked(ns, f)
  PROVE  \A x \in DOMAIN ns : /\ Len(f[x]) = Hi(t, x) - Lo(t, x) + 1
                              /\ \A j \in 1 .. Len(f[x]) : f[x][j] = At(t, Lo(t, x) + j - 1)
  <1> DEFINE Good(x) == /\ Len(f[x]) = Hi(t, x) - Lo(t, x) + 1
                        /\ \A j \in 1 .. Len(f[x]) : f[x][j] = At(t, Lo(t, x) + j - 1)
             H == { h \in Nat : \A x \in DOMAIN ns : Hgt(t, x) = h => Good(x) }
  <1>0. f \in [DOMAIN ns -> Seq(DOMAIN ns)] /\ f = Walk(ns, FALSE, f)
    BY DEF LeafWalked
  <1>1. ASSUME NEW x \in DOMAIN ns, ns[x].leaf
        PROVE  Good(x)
    <2>1. f[x] = <<x>>
      BY <1>0, <1>1 DEF Walk
    <2>2. Hi(t, x) = Lo(t, x) /\ At(t, Lo(t, x)) = x /\ Lo(t, x) \in Nat
      BY <1>1, Placed DEF Tree, InChain
    <2>3. \A j \in 1 .. 1 : j = 1
      OBVIOUS
    <2> HIDE DEF Good
    <2>4. Len(f[x]) = 1 /\ f[x][1] = x
      BY <2>1
    <2>5. Len(f[x]) = Hi(t, x) - Lo(t, x) + 1 /\ Lo(t, x) + 1 - 1 = Lo(t, x)
      BY <2>2, <2>4
    <2> QED
      BY <2>2, <2>3, <2>4, <2>5 DEF Good
  <1>2. ASSUME NEW x \in DOMAIN ns, ~ns[x].leaf,
               \A i \in 1 .. Len(ns[x].children) : Good(ns[x].children[i])
        PROVE  Good(x)
    <2> DEFINE c == ns[x].children  n == Len(c)  ss == Parts(ns, f, x)
    <2>1. PICK off, s : Laid(ss, off, s) /\ f[x] = s
      BY <1>0, <1>2, WalkBelow
    <2>2. /\ n \in Nat /\ n >= 1
          /\ \A i \in 1 .. n : c[i] \in DOMAIN ns
          /\ Lo(t, c[1]) = Lo(t, x) /\ Hi(t, c[n]) = Hi(t, x)
          /\ \A i \in 1 .. n - 1 : Lo(t, c[i + 1]) = Hi(t, c[i]) + 1
      BY <1>2, Family
    <2>3. Len(ss) = n /\ \A i \in 1 .. n : ss[i] = f[c[i]]
      BY <1>0, <1>2, PartsLists
    <2>4. \A i \in 1 .. n : /\ Lo(t, c[i]) \in Nat /\ Hi(t, c[i]) \in Nat /\ Lo(t, c[i]) <= Hi(t, c[i])
                            /\ Len(ss[i]) = Hi(t, c[i]) - Lo(t, c[i]) + 1
                            /\ \A j \in 1 .. Len(ss[i]) : ss[i][j] = At(t, Lo(t, c[i]) + j - 1)
      <3> TAKE i \in 1 .. n
      <3>1. Good(c[i]) /\ c[i] \in DOMAIN ns /\ ss[i] = f[c[i]]
        BY <1>2, <2>2, <2>3
      <3>2. Lo(t, c[i]) \in Nat /\ Hi(t, c[i]) \in Nat /\ Lo(t, c[i]) <= Hi(t, c[i])
        BY <3>1, Placed
      <3> QED
        BY <3>1, <3>2
    <2>5. /\ off \in [0 .. n -> Nat] /\ off[0] = 0 /\ Len(s) = off[n]
          /\ \A i \in 1 .. n : off[i] = off[i - 1] + Len(ss[i])
          /\ \A i \in 1 .. n : \A j \in 1 .. Len(ss[i]) : s[off[i - 1] + j] = ss[i][j]
      BY <2>1, <2>3 DEF Laid, Offsets
    <2> HIDE DEF c, n, ss, Good
    <2> DEFINE l == Lo(t, x)
    <2>6. l \in Nat
      BY Placed
    <2> HIDE DEF l
    <2> DEFINE N == { m \in Nat : m + 1 \in 1 .. n => off[m] = Lo(t, c[m + 1]) - l }
    <2>7. 0 \in N
      BY <2>2, <2>5, <2>6 DEF l
    <2>8. ASSUME NEW m \in Nat, m \in N
          PROVE  m + 1 \in N
      <3> SUFFICES ASSUME m + 2 \in 1 .. n
                   PROVE  off[m + 1] = Lo(t, c[m + 2]) - l
        OBVIOUS
      <3>1. m + 1 \in 1 .. n /\ m + 1 \in 1 .. n - 1 /\ (m + 1) + 1 = m + 2 /\ (m + 1) - 1 = m
        BY <2>2
      <3>2. off[m] = Lo(t, c[m + 1]) - l
        BY <2>8, <3>1
      <3>3. off[m + 1] = off[m] + Len(ss[m + 1]) /\ Len(ss[m + 1]) = Hi(t, c[m + 1]) - Lo(t, c[m + 1]) + 1
        BY <2>4, <2>5, <3>1
      <3>4. Lo(t, c[m + 2]) = Hi(t, c[m + 1]) + 1
        BY <2>2, <3>1
      <3>5. Hi(t, c[m + 1]) \in Nat /\ Lo(t, c[m + 1]) \in Nat
        BY <2>4, <3>1
      <3> QED
        BY <2>6, <3>2, <3>3, <3>4, <3>5
    <2>9. \A i \in 1 .. n : off[i - 1] = Lo(t, c[i]) - l /\ i - 1 \in 0 .. n
      <3>1. Nat \subseteq N
        <4> HIDE DEF N
        <4> QED
          BY <2>7, <2>8, SetInduction
      <3> TAKE i \in 1 .. n
      <3>2. i - 1 \in Nat /\ (i - 1) + 1 = i /\ i - 1 \in 0 .. n
        BY <2>2
      <3> QED
        BY <3>1, <3>2
    <2>10. off[n] = Hi(t, x) - l + 1
      <3>1. n \in 1 .. n
        BY <2>2
      <3>2. off[n] = off[n - 1] + Len(ss[n]) /\ off[n - 1] = Lo(t, c[n]) - l
        BY <2>5, <2>9, <3>1
      <3>3. Len(ss[n]) = Hi(t, c[n]) - Lo(t, c[n]) + 1 /\ Hi(t, c[n]) \in Nat /\ Lo(t, c[n]) \in Nat
        BY <2>4, <3>1
      <3> QED
        BY <2>2, <2>6, <3>2, <3>3
    <2>11. ASSUME NEW k \in 1 .. Len(s)
           PROVE  s[k] = At(t, l + k - 1)
      <3>1. Len(ss) \in Nat /\ \A i \in 1 .. Len(ss) : Len(ss[i]) \in Nat
        <4>1. \A i \in 1 .. n : Len(ss[i]) \in Nat
          BY <2>4
        <4> QED
          BY <2>2, <2>3, <4>1
      <3>1a. HaveLengths(ss) /\ Laid(ss, off, s)
        BY <2>1, <3>1 DEF HaveLengths
      <3>1b. Somewhere(ss, off, k)
        BY <3>1a, LaidWhere
      <3>2. PICK i \in 1 .. Len(ss) : \E j \in 1 .. Len(ss[i]) : k = off[i - 1] + j
        BY <3>1b DEF Somewhere
      <3>3. PICK j \in 1 .. Len(ss[i]) : k = off[i - 1] + j
        BY <3>2
      <3>4. i \in 1 .. n /\ Len(ss[i]) \in Nat
        BY <2>3, <3>1
      <3>5. s[k] = ss[i][j]
        BY <2>5, <3>3, <3>4
      <3>6. ss[i][j] = At(t, Lo(t, c[i]) + j - 1)
        BY <2>4, <3>4
      <3>7. l + k - 1 = Lo(t, c[i]) + j - 1
        <4>1. off[i - 1] = Lo(t, c[i]) - l /\ Lo(t, c[i]) \in Nat /\ j \in Nat
          BY <2>4, <2>9, <3>4
        <4> QED
          BY <2>6, <3>3, <4>1, SMTT(30)
      <3> QED
        BY <3>5, <3>6, <3>7
    <2> QED
      BY <2>1, <2>5, <2>10, <2>11 DEF Good, l
  <1>3. ASSUME NEW h \in Nat, \A k \in Nat : k < h => k \in H
        PROVE  h \in H
    <2> SUFFICES ASSUME NEW x \in DOMAIN ns, Hgt(t, x) = h
                 PROVE  Good(x)
      BY DEF H
    <2>1. CASE ns[x].leaf
      BY <1>1, <2>1
    <2>2. CASE ~ns[x].leaf
      <3>1. \A i \in 1 .. Len(ns[x].children) :
              ns[x].children[i] \in DOMAIN ns /\ Hgt(t, ns[x].children[i]) = h - 1
        BY <2>2, Family
      <3>2. h >= 1
        BY <2>2, Family
      <3>3. h - 1 \in H
        BY <1>3, <3>2
      <3> HIDE DEF Good
      <3>4. \A i \in 1 .. Len(ns[x].children) : Good(ns[x].children[i])
        BY <3>1, <3>3
      <3> QED
        BY <1>2, <2>2, <3>4
    <2> QED
      BY <2>1, <2>2
  <1>4. Nat \subseteq H
    <2> HIDE DEF H
    <2> QED
      BY <1>3, StrongInduction
  <1> HIDE DEF Good
  <1>5. \A x \in DOMAIN ns : Hgt(t, x) \in Nat
    BY Placed
  <1>6. \A x \in DOMAIN ns : Good(x)
    BY <1>4, <1>5
  <1> QED
    BY <1>6 DEF Good

---------------------------------------------------------------------------
\* z is not outside the tree below x.
Within(t, z, x) == Hgt(t, z) <= Hgt(t, x) /\ Lo(t, x) <= Lo(t, z) /\ Hi(t, z) <= Hi(t, x)

\* l lists x and then nodes below it, none of them twice.
Preorders(t, l, x) ==
  /\ Len(l) \in Nat /\ Len(l) >= 1 /\ l[1] = x
  /\ \A j \in 1 .. Len(l) : Within(t, l[j], x)
  /\ \A j, k \in 1 .. Len(l) : l[j] = l[k] => j = k

\* l lists x and then, laid out at off, the lists ss.
ListsBelow(l, x, ss, off, s) ==
  /\ Laid(ss, off, s)
  /\ Len(l) = 1 + Len(s) /\ Len(s) \in Nat /\ l[1] = x
  /\ \A k \in 1 .. Len(s) : l[1 + k] = s[k]

\* What the walk lists below an inner node, in its place.
LEMMA WalkPlaces ==
  ASSUME NEW ns, NEW r, NEW t, Tree(ns, r, t),
         NEW f \in [DOMAIN ns -> Seq(DOMAIN ns)], f = Walk(ns, TRUE, f), NEW x \in DOMAIN ns, ~ns[x].leaf
  PROVE  \E off, s : ListsBelow(f[x], x, Parts(ns, f, x), off, s)
  <1> DEFINE w == TRUE
  <1>a. w \in BOOLEAN /\ f = Walk(ns, w, f)
    OBVIOUS
  <1> HIDE DEF w
  <1>b. \E off, s : /\ Laid(Parts(ns, f, x), off, s) /\ s \in Seq(DOMAIN ns)
                    /\ f[x] = IF w THEN <<x>> \o s ELSE s
    BY <1>a, WalkBelow
  <1>1. PICK off, s : Laid(Parts(ns, f, x), off, s) /\ s \in Seq(DOMAIN ns) /\ f[x] = <<x>> \o s
    BY <1>b DEF w
  <1>2. <<x>> \in Seq(DOMAIN ns) /\ Len(<<x>>) = 1 /\ <<x>>[1] = x
    OBVIOUS
  <1> DEFINE a == <<x>>
  <1> HIDE DEF a
  <1>3. /\ Len(a \o s) = Len(a) + Len(s)
        /\ \A k \in 1 .. Len(a) : (a \o s)[k] = a[k]
        /\ \A k \in 1 .. Len(s) : (a \o s)[Len(a) + k] = s[k]
    BY <1>1, <1>2, Concatenation DEF a
  <1>4. Len(a) = 1 /\ a[1] = x /\ f[x] = a \o s
    BY <1>1, <1>2 DEF a
  <1>5. Len(s) \in Nat
    BY <1>1
  <1>6. ListsBelow(f[x], x, Parts(ns, f, x), off, s)
    BY <1>1, <1>3, <1>4, <1>5 DEF ListsBelow
  <1> QED
    BY <1>6

\* The walk of persist_btree_index below every node.
LEMMA PreorderWalk ==
  ASSUME NEW ns, NEW r, NEW t, Tree(ns, r, t),
         NEW f \in [DOMAIN ns -> Seq(DOMAIN ns)], f = Walk(ns, TRUE, f)
  PROVE  \A x \in DOMAIN ns : Preorders(t, f[x], x)
  <1> DEFINE H == { h \in Nat : \A x \in DOMAIN ns : Hgt(t, x) = h => Preorders(t, f[x], x) }
  <1>1. ASSUME NEW x \in DOMAIN ns, ns[x].leaf
        PROVE  Preorders(t, f[x], x)
    <2>1. f[x] = <<x>>
      BY <1>1 DEF Walk
    <2>2. Len(f[x]) = 1 /\ f[x][1] = x
      BY <2>1
    <2>3. \A j \in 1 .. 1 : j = 1
      OBVIOUS
    <2>4. Within(t, x, x)
      BY Placed DEF Within
    <2> QED
      BY <2>2, <2>3, <2>4 DEF Preorders
  <1>2. ASSUME NEW x \in DOMAIN ns, ~ns[x].leaf,
               \A i \in 1 .. Len(ns[x].children) : LET y == ns[x].children[i] IN Preorders(t, f[y], y)
        PROVE  Preorders(t, f[x], x)
    <2> DEFINE c == ns[x].children  n == Len(c)  ss == Parts(ns, f, x)
    <2>0. \E off, s : ListsBelow(f[x], x, Parts(ns, f, x), off, s)
      BY <1>2, WalkPlaces
    <2>b. PICK off, s : ListsBelow(f[x], x, ss, off, s)
      BY <2>0
    <2>1. /\ Laid(ss, off, s)
          /\ Len(f[x]) = 1 + Len(s) /\ Len(s) \in Nat /\ f[x][1] = x
          /\ \A k \in 1 .. Len(s) : f[x][1 + k] = s[k]
      BY <2>b DEF ListsBelow
    <2>2. /\ n \in Nat /\ n >= 1
          /\ \A i \in 1 .. n : c[i] \in DOMAIN ns /\ Hgt(t, c[i]) = Hgt(t, x) - 1
      BY <1>2, Family
    <2>2a. /\ \A j, k \in 1 .. n : j < k => Hi(t, c[j]) < Lo(t, c[k])
           /\ \A j \in 1 .. n : Lo(t, x) <= Lo(t, c[j]) /\ Hi(t, c[j]) <= Hi(t, x)
      BY <1>2, ChildOrder
    <2>3. Len(ss) = n /\ \A i \in 1 .. n : ss[i] = f[c[i]]
      BY <1>2, PartsLists
    <2>4. \A i \in 1 .. n : /\ Len(ss[i]) \in Nat
                            /\ \A j \in 1 .. Len(ss[i]) : ss[i][j] \in DOMAIN ns /\ Within(t, ss[i][j], c[i])
                            /\ \A j, k \in 1 .. Len(ss[i]) : ss[i][j] = ss[i][k] => j = k
      <3> TAKE i \in 1 .. n
      <3>1. Preorders(t, ss[i], c[i])
        BY <1>2, <2>3
      <3>2. ss[i] \in Seq(DOMAIN ns)
        BY <2>2, <2>3
      <3> QED
        BY <3>1, <3>2 DEF Preorders
    <2>5. \A i \in 1 .. n : \A j \in 1 .. Len(ss[i]) : s[off[i - 1] + j] = ss[i][j]
      BY <2>1, <2>3 DEF Laid, Offsets
    <2> HIDE DEF c, n, ss
    <2>6. ASSUME NEW k \in 1 .. Len(s)
          PROVE  \E i \in 1 .. n : \E j \in 1 .. Len(ss[i]) : k = off[i - 1] + j /\ s[k] = ss[i][j]
      <3>1. HaveLengths(ss) /\ Laid(ss, off, s)
        BY <2>1, <2>2, <2>3, <2>4 DEF HaveLengths
      <3>2. Somewhere(ss, off, k)
        BY <3>1, LaidWhere
      <3>3. PICK i \in 1 .. n : \E j \in 1 .. Len(ss[i]) : k = off[i - 1] + j
        BY <2>3, <3>2 DEF Somewhere
      <3>4. PICK j \in 1 .. Len(ss[i]) : k = off[i - 1] + j
        BY <3>3
      <3> QED
        BY <2>5, <3>4
    <2>7. Hgt(t, x) \in Nat /\ Lo(t, x) \in Nat /\ Hi(t, x) \in Nat /\ Lo(t, x) <= Hi(t, x)
      BY Placed
    <2>8. ASSUME NEW i \in 1 .. n, NEW j \in 1 .. Len(ss[i])
          PROVE  LET z == ss[i][j]
                 IN  /\ Hgt(t, z) \in Nat /\ Lo(t, z) \in Nat /\ Hi(t, z) \in Nat /\ Lo(t, z) <= Hi(t, z)
                     /\ Hgt(t, z) < Hgt(t, x) /\ Lo(t, c[i]) <= Lo(t, z) /\ Hi(t, z) <= Hi(t, c[i])
                     /\ Lo(t, c[i]) \in Nat /\ Hi(t, c[i]) \in Nat
                     /\ Lo(t, x) <= Lo(t, c[i]) /\ Hi(t, c[i]) <= Hi(t, x)
      <3> DEFINE z == ss[i][j]
      <3>1. z \in DOMAIN ns /\ Within(t, z, c[i]) /\ c[i] \in DOMAIN ns
        BY <2>2, <2>4
      <3> HIDE DEF z
      <3>2. Hgt(t, z) \in Nat /\ Lo(t, z) \in Nat /\ Hi(t, z) \in Nat /\ Lo(t, z) <= Hi(t, z)
        BY <3>1, Placed
      <3>3. Lo(t, c[i]) \in Nat /\ Hi(t, c[i]) \in Nat /\ Hgt(t, c[i]) = Hgt(t, x) - 1
        BY <2>2, <3>1, Placed
      <3>4. Lo(t, x) <= Lo(t, c[i]) /\ Hi(t, c[i]) <= Hi(t, x)
        BY <2>2a
      <3>5. Hgt(t, z) <= Hgt(t, c[i]) /\ Lo(t, c[i]) <= Lo(t, z) /\ Hi(t, z) <= Hi(t, c[i])
        BY <3>1 DEF Within
      <3>6. Hgt(t, z) < Hgt(t, x)
        BY <2>7, <3>2, <3>3, <3>5
      <3> QED
        BY <3>2, <3>3, <3>4, <3>5, <3>6 DEF z
    <2>9. ASSUME NEW k \in 1 .. Len(s)
          PROVE  Within(t, s[k], x) /\ s[k] # x
      <3>1. PICK i \in 1 .. n : \E j \in 1 .. Len(ss[i]) : k = off[i - 1] + j /\ s[k] = ss[i][j]
        BY <2>6
      <3>2. PICK j \in 1 .. Len(ss[i]) : s[k] = ss[i][j]
        BY <3>1
      <3> DEFINE z == ss[i][j]
      <3>3. /\ Hgt(t, z) \in Nat /\ Lo(t, z) \in Nat /\ Hi(t, z) \in Nat /\ Lo(t, z) <= Hi(t, z)
            /\ Hgt(t, z) < Hgt(t, x) /\ Lo(t, c[i]) <= Lo(t, z) /\ Hi(t, z) <= Hi(t, c[i])
            /\ Lo(t, c[i]) \in Nat /\ Hi(t, c[i]) \in Nat
            /\ Lo(t, x) <= Lo(t, c[i]) /\ Hi(t, c[i]) <= Hi(t, x)
        BY <2>8
      <3> HIDE DEF z
      <3>4. Within(t, z, x) /\ z # x
        BY <2>7, <3>3 DEF Within
      <3> QED
        BY <3>2, <3>4 DEF z
    <2>10. ASSUME NEW k \in 1 .. Len(s), NEW l \in 1 .. Len(s), s[k] = s[l]
           PROVE  k = l
      <3>1. PICK i \in 1 .. n : \E j \in 1 .. Len(ss[i]) : k = off[i - 1] + j /\ s[k] = ss[i][j]
        BY <2>6
      <3>2. PICK j \in 1 .. Len(ss[i]) : k = off[i - 1] + j /\ s[k] = ss[i][j]
        BY <3>1
      <3>3. PICK p \in 1 .. n : \E q \in 1 .. Len(ss[p]) : l = off[p - 1] + q /\ s[l] = ss[p][q]
        BY <2>6
      <3>4. PICK q \in 1 .. Len(ss[p]) : l = off[p - 1] + q /\ s[l] = ss[p][q]
        BY <3>3
      <3>5. LET z == ss[i][j]
            IN  /\ Lo(t, z) \in Nat /\ Hi(t, z) \in Nat /\ Lo(t, z) <= Hi(t, z)
                /\ Lo(t, c[i]) <= Lo(t, z) /\ Hi(t, z) <= Hi(t, c[i])
                /\ Lo(t, c[i]) \in Nat /\ Hi(t, c[i]) \in Nat
        BY <2>8
      <3>6. LET z == ss[p][q]
            IN  /\ Lo(t, z) \in Nat /\ Hi(t, z) \in Nat /\ Lo(t, z) <= Hi(t, z)
                /\ Lo(t, c[p]) <= Lo(t, z) /\ Hi(t, z) <= Hi(t, c[p])
                /\ Lo(t, c[p]) \in Nat /\ Hi(t, c[p]) \in Nat
        BY <2>8
      <3>7. ss[i][j] = ss[p][q]
        BY <2>10, <3>2, <3>4
      <3>8. ~(i < p) /\ ~(p < i)
        <4> DEFINE z == ss[i][j]  y == c[i]  v == c[p]
        <4>0. /\ Lo(t, z) \in Nat /\ Hi(t, z) \in Nat /\ Lo(t, z) <= Hi(t, z)
              /\ Lo(t, y) <= Lo(t, z) /\ Hi(t, z) <= Hi(t, y) /\ Lo(t, y) \in Nat /\ Hi(t, y) \in Nat
              /\ Lo(t, v) <= Lo(t, z) /\ Hi(t, z) <= Hi(t, v) /\ Lo(t, v) \in Nat /\ Hi(t, v) \in Nat
          BY <3>5, <3>6, <3>7
        <4>1. ~(Hi(t, y) < Lo(t, v)) /\ ~(Hi(t, v) < Lo(t, y))
          <5> HIDE DEF z, y, v
          <5> QED
            BY <4>0, SMTT(30)
        <4> QED
          BY <2>2a, <4>1
      <3>9. i = p
        BY <2>2, <3>8
      <3>10. j = q
        BY <2>4, <3>7, <3>9
      <3> QED
        BY <3>2, <3>4, <3>9, <3>10
    <2>11. \A j \in 1 .. Len(f[x]) : j = 1 \/ (j - 1 \in 1 .. Len(s) /\ f[x][j] = s[j - 1])
      <3> TAKE j \in 1 .. Len(f[x])
      <3>1. j # 1 => j - 1 \in 1 .. Len(s) /\ 1 + (j - 1) = j
        BY <2>1
      <3> QED
        BY <2>1, <3>1
    <2>12. Within(t, x, x)
      BY <2>7 DEF Within
    <2>13. \A j \in 1 .. Len(f[x]) : Within(t, f[x][j], x)
      BY <2>1, <2>9, <2>11, <2>12
    <2>14. ASSUME NEW j \in 1 .. Len(f[x]), NEW k \in 1 .. Len(f[x]), f[x][j] = f[x][k]
           PROVE  j = k
      <3>a. \A i \in 1 .. Len(f[x]) : i # 1 => f[x][i] # x
        BY <2>9, <2>11
      <3>1. CASE j = 1 \/ k = 1
        <4>1. f[x][1] = x
          BY <2>1
        <4> QED
          BY <2>14, <3>a, <3>1, <4>1
      <3>2. CASE j # 1 /\ k # 1
        <4>1. j - 1 \in 1 .. Len(s) /\ k - 1 \in 1 .. Len(s) /\ s[j - 1] = s[k - 1]
          BY <2>11, <2>14, <3>2
        <4>2. j - 1 = k - 1
          BY <2>10, <4>1
        <4> QED
          BY <2>1, <4>2
      <3> QED
        BY <3>1, <3>2
    <2>15. Len(f[x]) \in Nat /\ Len(f[x]) >= 1
      BY <2>1
    <2> QED
      BY <2>1, <2>13, <2>14, <2>15 DEF Preorders
  <1>3. ASSUME NEW h \in Nat, \A k \in Nat : k < h => k \in H
        PROVE  h \in H
    <2> SUFFICES ASSUME NEW x \in DOMAIN ns, Hgt(t, x) = h
                 PROVE  Preorders(t, f[x], x)
      BY DEF H
    <2>1. CASE ns[x].leaf
      BY <1>1, <2>1
    <2>2. CASE ~ns[x].leaf
      <3>1. \A i \in 1 .. Len(ns[x].children) :
              ns[x].children[i] \in DOMAIN ns /\ Hgt(t, ns[x].children[i]) = h - 1
        BY <2>2, Family
      <3>2. h >= 1
        BY <2>2, Family
      <3>3. h - 1 \in H
        BY <1>3, <3>2
      <3>4. \A i \in 1 .. Len(ns[x].children) : LET y == ns[x].children[i] IN Preorders(t, f[y], y)
        BY <3>1, <3>3
      <3> QED
        BY <1>2, <2>2, <3>4
    <2> QED
      BY <2>1, <2>2
  <1>4. Nat \subseteq H
    <2> HIDE DEF H
    <2> QED
      BY <1>3, StrongInduction
  <1>5. \A x \in DOMAIN ns : Hgt(t, x) \in Nat
    BY Placed
  <1> QED
    BY <1>4, <1>5

\* Of any height no more than its own, a node has one below it for each of its leaves.
LEMMA Descent ==
  ASSUME NEW ns, NEW r, NEW t, Tree(ns, r, t)
  PROVE  \A x \in DOMAIN ns : \A h \in 0 .. Hgt(t, x) : \A p \in Lo(t, x) .. Hi(t, x) :
           \E w \in DOMAIN ns : Hgt(t, w) = h /\ Lo(t, w) <= p /\ p <= Hi(t, w)
  <1> DEFINE Good(x) == \A h \in 0 .. Hgt(t, x) : \A p \in Lo(t, x) .. Hi(t, x) :
                          \E w \in DOMAIN ns : Hgt(t, w) = h /\ Lo(t, w) <= p /\ p <= Hi(t, w)
             K == { k \in Nat : \A x \in DOMAIN ns : Hgt(t, x) = k => Good(x) }
  <1>1. ASSUME NEW k \in Nat, \A l \in Nat : l < k => l \in K
        PROVE  k \in K
    <2> SUFFICES ASSUME NEW x \in DOMAIN ns, Hgt(t, x) = k, NEW h \in 0 .. Hgt(t, x), NEW p \in Lo(t, x) .. Hi(t, x)
                 PROVE  \E w \in DOMAIN ns : Hgt(t, w) = h /\ Lo(t, w) <= p /\ p <= Hi(t, w)
      BY DEF K
    <2>1. CASE h = k
      <3>1. Lo(t, x) <= p /\ p <= Hi(t, x)
        BY Placed
      <3> QED
        BY <2>1, <3>1
    <2>2. CASE h # k
      <3>1. ~ns[x].leaf
        <4>1. ns[x].leaf => Hgt(t, x) = 0
          BY DEF Tree, InChain
        <4> QED
          BY <2>2, <4>1
      <3>2. PICK j \in 1 .. Len(ns[x].children) :
              Lo(t, ns[x].children[j]) <= p /\ p <= Hi(t, ns[x].children[j])
        BY <3>1, ChildCover
      <3>3. ns[x].children[j] \in DOMAIN ns /\ Hgt(t, ns[x].children[j]) = k - 1
        BY <3>1, Family
      <3> DEFINE y == ns[x].children[j]
      <3>4. y \in DOMAIN ns /\ Hgt(t, y) = k - 1 /\ Lo(t, y) <= p /\ p <= Hi(t, y)
        BY <3>2, <3>3
      <3> HIDE DEF y
      <3>5. k - 1 \in K /\ h \in 0 .. k - 1
        <4>1. k - 1 \in Nat /\ k - 1 < k /\ h \in 0 .. k - 1
          BY <2>2
        <4> QED
          BY <1>1, <4>1
      <3>6. Good(y)
        BY <3>4, <3>5
      <3>7. p \in Lo(t, y) .. Hi(t, y)
        <4>1. Lo(t, y) \in Nat /\ Hi(t, y) \in Nat /\ Lo(t, x) \in Nat /\ Hi(t, x) \in Nat
          BY <3>4, Placed
        <4> QED
          BY <3>4, <4>1
      <3> QED
        BY <3>4, <3>5, <3>6, <3>7
    <2> QED
      BY <2>1, <2>2
  <1>2. Nat \subseteq K
    <2> HIDE DEF K
    <2> QED
      BY <1>1, StrongInduction
  <1>3. \A x \in DOMAIN ns : Hgt(t, x) \in Nat
    BY Placed
  <1> HIDE DEF Good
  <1>4. \A x \in DOMAIN ns : Good(x)
    BY <1>2, <1>3
  <1> QED
    BY <1>4 DEF Good

\* The root apart, every node is a child.
IsChild(ns, z, x, i) == ~ns[x].leaf /\ i \in 1 .. Len(ns[x].children) /\ ns[x].children[i] = z

\* It is a child of a node one level higher.
LEMMA ParentExists ==
  ASSUME NEW ns, NEW r, NEW t, Tree(ns, r, t), NEW z \in DOMAIN ns, z # r
  PROVE  \E x \in DOMAIN ns : \E i : IsChild(ns, z, x, i) /\ Hgt(t, x) = Hgt(t, z) + 1
  <1> DEFINE p == Lo(t, z)  h == Hgt(t, z) + 1
  <1>1. /\ Hgt(t, z) \in Nat /\ Lo(t, z) \in Nat /\ Hi(t, z) \in Nat
        /\ 1 <= Lo(t, z) /\ Lo(t, z) <= Hi(t, z) /\ Hi(t, z) <= Width(t) /\ Width(t) \in Nat
    BY Placed, Described
  <1>2. r \in DOMAIN ns /\ Lo(t, r) = 1 /\ Hi(t, r) = Width(t) /\ Hgt(t, z) <= Hgt(t, r)
    BY DEF Tree
  <1>3. Hgt(t, r) \in Nat
    BY <1>2, Placed
  <1>4. Hgt(t, z) # Hgt(t, r)
    BY HighestIsRoot
  <1>5. h \in 0 .. Hgt(t, r) /\ p \in Lo(t, r) .. Hi(t, r)
    BY <1>1, <1>2, <1>3, <1>4
  <1> HIDE DEF h, p
  <1>6. PICK x \in DOMAIN ns : Hgt(t, x) = h /\ Lo(t, x) <= p /\ p <= Hi(t, x)
    BY <1>2, <1>5, Descent
  <1>7. ~ns[x].leaf
    <2>1. ns[x].leaf => Hgt(t, x) = 0
      BY DEF Tree, InChain
    <2> QED
      BY <1>1, <1>6, <2>1 DEF h
  <1>8. p \in Lo(t, x) .. Hi(t, x)
    <2>1. Lo(t, x) \in Nat /\ Hi(t, x) \in Nat /\ p \in Nat
      BY <1>1, Placed DEF p
    <2> QED
      BY <1>6, <2>1
  <1>9. PICK j \in 1 .. Len(ns[x].children) :
          Lo(t, ns[x].children[j]) <= p /\ p <= Hi(t, ns[x].children[j])
    BY <1>7, <1>8, ChildCover
  <1> DEFINE y == ns[x].children[j]
  <1>10. y \in DOMAIN ns /\ Hgt(t, y) = Hgt(t, x) - 1 /\ Lo(t, y) <= p /\ p <= Hi(t, y)
    BY <1>7, <1>9, Family
  <1> HIDE DEF y
  <1>11. Hgt(t, y) = Hgt(t, z) /\ Lo(t, y) <= Hi(t, z) /\ Lo(t, z) <= Hi(t, y)
    <2>1. Lo(t, y) \in Nat /\ Hi(t, y) \in Nat
      BY <1>10, Placed
    <2> QED
      BY <1>1, <1>6, <1>10, <2>1 DEF h, p
  <1>12. y = z
    BY <1>10, <1>11 DEF Tree
  <1> QED
    BY <1>6, <1>7, <1>12 DEF y, IsChild, h

---------------------------------------------------------------------------
(* The images read back: where each node is in the order written, and what *)
(* is pending when it is read.                                             *)

\* The list b is in o, behind the first k elements.
Block(o, k, b) == /\ k \in Nat /\ k + Len(b) <= Len(o)
                  /\ \A j \in 1 .. Len(b) : o[k + j] = b[j]

\* Where the list of a node is, its children's are behind the node.
LEMMA BlockParts ==
  ASSUME NEW o, Len(o) \in Nat, NEW k, NEW l, NEW x, NEW ss, HaveLengths(ss), NEW off, NEW s,
         ListsBelow(l, x, ss, off, s), Block(o, k, l)
  PROVE  /\ k + 1 \in 1 .. Len(o) /\ o[k + 1] = x
         /\ \A i \in 1 .. Len(ss) : Block(o, k + 1 + off[i - 1], ss[i])
  <1>1. k \in Nat /\ k + Len(l) <= Len(o) /\ \A j \in 1 .. Len(l) : o[k + j] = l[j]
    BY DEF Block
  <1>2. /\ Len(l) = 1 + Len(s) /\ Len(s) \in Nat /\ l[1] = x
        /\ \A j \in 1 .. Len(s) : l[1 + j] = s[j]
    BY DEF ListsBelow
  <1>3. /\ off \in [0 .. Len(ss) -> Nat] /\ Len(s) = off[Len(ss)]
        /\ \A i \in 1 .. Len(ss) : off[i] = off[i - 1] + Len(ss[i])
        /\ \A i \in 1 .. Len(ss) : off[i] <= off[Len(ss)]
        /\ \A i \in 1 .. Len(ss) : \A j \in 1 .. Len(ss[i]) : s[off[i - 1] + j] = ss[i][j]
    BY DEF ListsBelow, Laid, Offsets
  <1>4. 1 \in 1 .. Len(l) /\ k + 1 \in 1 .. Len(o)
    BY <1>1, <1>2
  <1>5. o[k + 1] = x
    BY <1>1, <1>2, <1>4
  <1>6. ASSUME NEW i \in 1 .. Len(ss)
        PROVE  Block(o, k + 1 + off[i - 1], ss[i])
    <2> DEFINE a == off[i - 1]  m == Len(ss[i])  z == Len(s)
    <2>1. i - 1 \in 0 .. Len(ss) /\ i \in 0 .. Len(ss)
      BY DEF HaveLengths
    <2>2. a \in Nat /\ m \in Nat /\ z \in Nat /\ a + m <= z
      <3>1. a \in Nat /\ m \in Nat
        BY <1>3, <2>1 DEF HaveLengths
      <3>2. off[i] = a + m /\ off[i] <= z
        BY <1>3
      <3> QED
        BY <1>2, <3>1, <3>2
    <2>3. \A j \in 1 .. m : s[a + j] = ss[i][j]
      BY <1>3
    <2> HIDE DEF a, m, z
    <2>4. ASSUME NEW j \in 1 .. m
          PROVE  o[k + 1 + a + j] = ss[i][j]
      <3>1. a + j \in 1 .. z /\ 1 + (a + j) \in 1 .. 1 + z /\ k + (1 + (a + j)) = k + 1 + a + j
        BY <1>1, <2>2
      <3>2. o[k + (1 + (a + j))] = l[1 + (a + j)]
        BY <1>1, <1>2, <3>1 DEF z
      <3>3. l[1 + (a + j)] = s[a + j]
        BY <1>2, <3>1 DEF z
      <3> QED
        BY <2>3, <3>1, <3>2, <3>3
    <2>5. k + 1 + a \in Nat /\ k + 1 + a + m <= Len(o)
      <3>1. k + (1 + z) <= Len(o)
        BY <1>1, <1>2 DEF z
      <3> QED
        BY <1>1, <2>2, <3>1
    <2> QED
      BY <2>4, <2>5 DEF Block, a, m
  <1> QED
    BY <1>4, <1>5, <1>6

\* What is left of s without its first i elements.
Rest(s, i) == SubSeq(s, i + 1, Len(s))

\* It is as much shorter, and its elements are those of s, i places on.
LEMMA RestOf ==
  ASSUME NEW T, NEW s \in Seq(T)
  PROVE  /\ Rest(s, 0) = s
         /\ \A i \in 0 .. Len(s) : Rest(s, i) \in Seq(T) /\ Len(Rest(s, i)) = Len(s) - i
         /\ \A i \in 0 .. Len(s) - 1 :
              /\ Tail(Rest(s, i)) = Rest(s, i + 1) /\ Head(Rest(s, i)) = s[i + 1]
              /\ Rest(s, i) # <<>>
  <1>1. Rest(s, 0) = s
    BY DEF Rest
  <1>2. ASSUME NEW i \in 0 .. Len(s)
        PROVE  Rest(s, i) \in Seq(T) /\ Len(Rest(s, i)) = Len(s) - i
    BY DEF Rest
  <1>3. ASSUME NEW i \in 0 .. Len(s) - 1
        PROVE  /\ Tail(Rest(s, i)) = Rest(s, i + 1) /\ Head(Rest(s, i)) = s[i + 1]
               /\ Rest(s, i) # <<>>
    <2>1. Tail(Rest(s, i)) = Rest(s, i + 1)
      BY DEF Rest
    <2>2. Head(Rest(s, i)) = s[i + 1]
      BY DEF Rest
    <2>3. Rest(s, i) # <<>>
      <3>1. i \in 0 .. Len(s) /\ Len(s) - i # 0
        OBVIOUS
      <3>2. Len(Rest(s, i)) # 0
        BY <1>2, <3>1
      <3> QED
        BY <3>2
    <2> QED
      BY <2>1, <2>2, <2>3
  <1> QED
    BY <1>1, <1>2, <1>3

\* Of two lists one after the other, the second is left.
LEMMA RestOfBoth ==
  ASSUME NEW T, NEW a \in Seq(T), NEW b \in Seq(T)
  PROVE  Rest(a \o b, Len(a)) = b
  BY DEF Rest

\* Without its first element a list is a list.
LEMMA TailIsList ==
  ASSUME NEW T, NEW s \in Seq(T)
  PROVE  Tail(s) \in Seq(T)
  <1>1. CASE s = <<>>
    BY <1>1
  <1>2. CASE s # <<>>
    BY <1>2
  <1> QED
    BY <1>1, <1>2

\* How many children the image of a node has, and what is pending after each image:
\* the children yet to be read.
Fan(n) == IF n.leaf THEN 0 ELSE Len(n.records)
Due(k, m) == [i \in 1 .. m |-> <<k, i>>]
Pends(images, p) ==
  /\ p \in [0 .. Len(images) -> Seq(Nat \X Nat)] /\ p[0] = << <<0, 1>> >>
  /\ \A k \in 1 .. Len(images) : p[k] = Due(k, Fan(images[k])) \o Tail(p[k - 1])

\* The places of the m children of the k-th image, in their order.
LEMMA DueList ==
  ASSUME NEW k \in Nat, NEW m \in Nat
  PROVE  /\ Due(k, m) \in Seq(Nat \X Nat) /\ Len(Due(k, m)) = m
         /\ \A i \in 1 .. m : Due(k, m)[i] = <<k, i>>
  <1> DEFINE T == Nat \X Nat  d == Due(k, m)
  <1>1. \A i \in 1 .. m : <<k, i>> \in T
    OBVIOUS
  <1>2. d \in [1 .. m -> T]
    BY <1>1 DEF Due
  <1>3. \A i \in 1 .. m : d[i] = <<k, i>>
    BY DEF Due
  <1> HIDE DEF T, d
  <1>4. d \in Seq(T) /\ Len(d) = m
    BY <1>2, FunctionIsList
  <1> QED
    BY <1>3, <1>4 DEF T, d

\* What is pending after the image of a node: its children, then the rest.
LEMMA PendsNext ==
  ASSUME NEW images, Len(images) \in Nat, NEW p, Pends(images, p), NEW k \in 1 .. Len(images),
         NEW m \in Nat, Fan(images[k]) = m
  PROVE  /\ p[k] \in Seq(Nat \X Nat) /\ Len(p[k]) >= m /\ Len(p[k]) \in Nat
         /\ \A i \in 1 .. m : p[k][i] = <<k, i>>
         /\ Rest(p[k], m) = Tail(p[k - 1])
  <1> DEFINE T == Nat \X Nat  a == Due(k, m)  b == Tail(p[k - 1])
  <1>1. k \in Nat /\ k - 1 \in 0 .. Len(images) /\ k \in 0 .. Len(images)
    OBVIOUS
  <1>2. p[k] = a \o b
    BY DEF Pends
  <1>3. a \in Seq(T) /\ Len(a) = m /\ \A i \in 1 .. m : a[i] = <<k, i>>
    BY <1>1, DueList
  <1>4. p[k - 1] \in Seq(T)
    BY <1>1 DEF Pends
  <1>5. b \in Seq(T)
    <2> DEFINE s == p[k - 1]
    <2>1. s \in Seq(T)
      BY <1>4
    <2> HIDE DEF s, T
    <2>2. Tail(s) \in Seq(T)
      BY <2>1, TailIsList
    <2> QED
      BY <2>2 DEF s
  <1> HIDE DEF a, b, T
  <1>6. /\ a \o b \in Seq(T) /\ Len(a \o b) = Len(a) + Len(b)
        /\ \A i \in 1 .. Len(a) : (a \o b)[i] = a[i]
    BY <1>3, <1>5, Concatenation
  <1>7. Rest(a \o b, Len(a)) = b
    BY <1>3, <1>5, RestOfBoth
  <1>8. Len(b) \in Nat
    BY <1>5
  <1>9. Len(p[k]) >= m /\ Len(p[k]) \in Nat
    BY <1>2, <1>3, <1>6, <1>8
  <1> QED
    BY <1>2, <1>3, <1>6, <1>7, <1>9 DEF b, T

---------------------------------------------------------------------------
\* When the nodes of the list b have been read, the first pending child has been.
Over(o, p, b) == \A q \in Nat : Block(o, q, b) => p[q + Len(b)] = Tail(p[q])

\* The list l of an inner node x is about to be read behind the first k images; ss are
\* the lists of its children.
Reading(o, images, p, k, l, x, ss, off, s) ==
  /\ Len(o) \in Nat /\ Len(images) = Len(o) /\ Pends(images, p)
  /\ HaveLengths(ss) /\ ListsBelow(l, x, ss, off, s) /\ Block(o, k, l)
  /\ Fan(images[k + 1]) = Len(ss)
  /\ \A i \in 1 .. Len(ss) : Over(o, p, ss[i])

\* What is pending when the lists of the children begin, if that is so of each of them.
LEMMA PartsPend ==
  ASSUME NEW o, NEW images, NEW p, NEW k, NEW l, NEW x, NEW ss, NEW off, NEW s,
         Reading(o, images, p, k, l, x, ss, off, s)
  PROVE  \A i \in 0 .. Len(ss) : p[k + 1 + off[i]] = Rest(p[k + 1], i)
  <1>a. /\ Len(o) \in Nat /\ Len(images) = Len(o) /\ Pends(images, p)
        /\ HaveLengths(ss) /\ ListsBelow(l, x, ss, off, s) /\ Block(o, k, l)
        /\ Fan(images[k + 1]) = Len(ss)
        /\ \A i \in 1 .. Len(ss) : Over(o, p, ss[i])
    BY DEF Reading
  <1>b. /\ k + 1 \in 1 .. Len(o) /\ o[k + 1] = x
        /\ \A i \in 1 .. Len(ss) : Block(o, k + 1 + off[i - 1], ss[i])
    BY <1>a, BlockParts
  <1> DEFINE m == Len(ss)  a == k + 1  u == p[k + 1]
  <1>1. m \in Nat /\ \A i \in 1 .. m : Len(ss[i]) \in Nat
    BY <1>a DEF HaveLengths
  <1>2. a \in 1 .. Len(images) /\ k \in Nat
    BY <1>a, <1>b DEF Block
  <1>3. \A i \in 1 .. m : Block(o, a + off[i - 1], ss[i])
    BY <1>b
  <1>4. Fan(images[a]) = m
    BY <1>a
  <1>5. /\ off \in [0 .. m -> Nat] /\ off[0] = 0
        /\ \A i \in 1 .. m : off[i] = off[i - 1] + Len(ss[i])
    BY <1>a DEF ListsBelow, Laid, Offsets
  <1> HIDE DEF m, a
  <1>6. u \in Seq(Nat \X Nat) /\ Len(u) >= m /\ Len(u) \in Nat
    <2>1. Len(images) \in Nat /\ Pends(images, p)
      BY <1>a
    <2> QED
      BY <1>1, <1>2, <1>4, <2>1, PendsNext DEF a
  <1> HIDE DEF u
  <1> DEFINE N == { i \in Nat : i <= m => p[a + off[i]] = Rest(u, i) }
  <1>7. 0 \in N
    <2>1. Rest(u, 0) = u
      BY <1>6, RestOf
    <2>2. a + off[0] = a
      BY <1>2, <1>5
    <2> QED
      BY <2>1, <2>2 DEF u, a
  <1>8. ASSUME NEW i \in Nat, i \in N
        PROVE  i + 1 \in N
    <2> SUFFICES ASSUME i + 1 <= m
                 PROVE  p[a + off[i + 1]] = Rest(u, i + 1)
      OBVIOUS
    <2>1. i + 1 \in 1 .. m /\ (i + 1) - 1 = i /\ i <= m /\ i \in 0 .. m
      BY <1>1
    <2> DEFINE q == a + off[i]  b == ss[i + 1]
    <2>2. Block(o, q, b)
      BY <1>3, <2>1
    <2>3. q \in Nat
      BY <2>2 DEF Block
    <2>4. Over(o, p, b)
      BY <1>a, <2>1 DEF m
    <2>5. q + Len(b) = a + off[i + 1]
      <3>1. off[i + 1] = off[i] + Len(b) /\ off[i] \in Nat /\ Len(b) \in Nat /\ a \in Nat
        BY <1>1, <1>2, <1>5, <2>1
      <3> QED
        BY <3>1
    <2>6. p[q] = Rest(u, i)
      BY <1>8, <2>1
    <2> HIDE DEF q, b
    <2>7. p[q + Len(b)] = Tail(p[q])
      BY <2>2, <2>3, <2>4 DEF Over
    <2>8. Tail(Rest(u, i)) = Rest(u, i + 1)
      <3>1. i \in 0 .. Len(u) - 1
        BY <1>1, <1>6, <2>1
      <3> QED
        BY <1>6, <3>1, RestOf
    <2> QED
      BY <2>5, <2>6, <2>7, <2>8
  <1>9. Nat \subseteq N
    <2> HIDE DEF N
    <2> QED
      BY <1>7, <1>8, SetInduction
  <1>10. \A i \in 0 .. m : i \in Nat /\ i <= m
    BY <1>1
  <1> QED
    BY <1>9, <1>10 DEF m, a, u

\* Then it is so of the list of the node, too.
LEMMA PartsOver ==
  ASSUME NEW o, NEW images, NEW p, NEW k, NEW l, NEW x, NEW ss, NEW off, NEW s,
         Reading(o, images, p, k, l, x, ss, off, s)
  PROVE  p[k + Len(l)] = Tail(p[k])
  <1>a. /\ Len(o) \in Nat /\ Len(images) = Len(o) /\ Pends(images, p)
        /\ HaveLengths(ss) /\ ListsBelow(l, x, ss, off, s) /\ Block(o, k, l)
        /\ Fan(images[k + 1]) = Len(ss)
    BY DEF Reading
  <1>b. k + 1 \in 1 .. Len(o) /\ k \in Nat
    BY <1>a, BlockParts DEF Block
  <1>c. \A i \in 0 .. Len(ss) : p[k + 1 + off[i]] = Rest(p[k + 1], i)
    BY PartsPend
  <1> DEFINE m == Len(ss)  a == k + 1
  <1>1. m \in Nat /\ m \in 0 .. m
    BY <1>a DEF HaveLengths
  <1>2. a \in 1 .. Len(images) /\ k \in Nat /\ a - 1 = k
    BY <1>a, <1>b
  <1>3. p[a + off[m]] = Rest(p[a], m)
    BY <1>1, <1>c
  <1>4. Rest(p[a], m) = Tail(p[k])
    <2>1. Len(images) \in Nat /\ Fan(images[a]) = m /\ Pends(images, p)
      BY <1>a
    <2> HIDE DEF m, a
    <2>2. Rest(p[a], m) = Tail(p[a - 1])
      BY <1>1, <1>2, <2>1, PendsNext
    <2> QED
      BY <1>2, <2>2
  <1>5. k + Len(l) = a + off[m]
    <2>1. Len(l) = 1 + Len(s) /\ Len(s) \in Nat /\ Len(s) = off[m]
      BY <1>a DEF ListsBelow, Laid
    <2> QED
      BY <1>2, <2>1
  <1> QED
    BY <1>3, <1>4, <1>5

\* f lists the nodes below each one as persist_btree_index goes through them, o those
\* of the tree; images are what it writes.
Walked(ns, f) == f \in [DOMAIN ns -> Seq(DOMAIN ns)] /\ f = Walk(ns, TRUE, f)
Written(ns, o, images) ==
  /\ Len(o) \in Nat /\ Len(images) = Len(o)
  /\ \A k \in 1 .. Len(o) : images[k] = ns[o[k]]

\* What is below a node, in the terms of the list o.
LEMMA WalkedParts ==
  ASSUME NEW ns, NEW r, NEW t, Tree(ns, r, t), NEW f, Walked(ns, f), NEW x \in DOMAIN ns, ~ns[x].leaf
  PROVE  /\ HaveLengths(Parts(ns, f, x)) /\ Len(Parts(ns, f, x)) = Len(ns[x].children)
         /\ Len(Parts(ns, f, x)) = Fan(ns[x])
         /\ \A i \in 1 .. Len(ns[x].children) : Parts(ns, f, x)[i] = f[ns[x].children[i]]
         /\ \E off, s : ListsBelow(f[x], x, Parts(ns, f, x), off, s)
  <1>1. f \in [DOMAIN ns -> Seq(DOMAIN ns)] /\ f = Walk(ns, TRUE, f)
    BY DEF Walked
  <1>2. /\ Len(Parts(ns, f, x)) = Len(ns[x].children)
        /\ \A i \in 1 .. Len(ns[x].children) : Parts(ns, f, x)[i] = f[ns[x].children[i]]
    BY <1>1, PartsLists
  <1>3. \E off, s : ListsBelow(f[x], x, Parts(ns, f, x), off, s)
    BY <1>1, WalkPlaces
  <1>4. /\ Len(ns[x].children) \in Nat /\ Len(ns[x].children) = Len(ns[x].records)
        /\ \A i \in 1 .. Len(ns[x].children) : ns[x].children[i] \in DOMAIN ns
    BY Family
  <1>5. Len(ns[x].children) = Fan(ns[x])
    BY <1>4 DEF Fan
  <1>6. \A i \in 1 .. Len(ns[x].children) : Len(Parts(ns, f, x)[i]) \in Nat
    <2> TAKE i \in 1 .. Len(ns[x].children)
    <2>1. f[ns[x].children[i]] \in Seq(DOMAIN ns)
      BY <1>1, <1>4
    <2>2. Len(f[ns[x].children[i]]) \in Nat
      BY <2>1
    <2> QED
      BY <1>2, <2>2
  <1> QED
    BY <1>2, <1>3, <1>4, <1>5, <1>6 DEF HaveLengths

\* So it is of every node.
LEMMA NodesOver ==
  ASSUME NEW ns, NEW r, NEW t, Tree(ns, r, t), NEW f, Walked(ns, f),
         NEW o, NEW images, Written(ns, o, images), NEW p, Pends(images, p)
  PROVE  \A x \in DOMAIN ns : Over(o, p, f[x])
  <1> DEFINE H == { h \in Nat : \A x \in DOMAIN ns : Hgt(t, x) = h => Over(o, p, f[x]) }
  <1>1. Len(o) \in Nat /\ Len(images) = Len(o)
    BY DEF Written
  <1>2. ASSUME NEW x \in DOMAIN ns, ns[x].leaf
        PROVE  Over(o, p, f[x])
    <2> SUFFICES ASSUME NEW q \in Nat, Block(o, q, f[x])
                 PROVE  p[q + Len(f[x])] = Tail(p[q])
      BY DEF Over
    <2>1. f[x] = <<x>>
      BY <1>2 DEF Walked, Walk
    <2>2. Len(f[x]) = 1 /\ f[x][1] = x
      BY <2>1
    <2>3. q + 1 \in 1 .. Len(images) /\ o[q + 1] = x
      <3>1. q + 1 <= Len(o) /\ 1 \in 1 .. 1
        BY <2>2 DEF Block
      <3>2. o[q + 1] = f[x][1]
        BY <2>2, <3>1 DEF Block
      <3> QED
        BY <1>1, <2>2, <3>1, <3>2
    <2>4. Fan(images[q + 1]) = 0
      <3>1. images[q + 1] = ns[x]
        BY <1>1, <2>3 DEF Written
      <3> QED
        BY <1>2, <3>1 DEF Fan
    <2> DEFINE k == q + 1  z == 0
    <2>5. k \in 1 .. Len(images) /\ k - 1 = q /\ z \in Nat /\ Fan(images[k]) = z /\ Len(images) \in Nat
      BY <1>1, <2>3, <2>4
    <2> HIDE DEF k, z
    <2>6. p[k] \in Seq(Nat \X Nat) /\ Rest(p[k], z) = Tail(p[k - 1])
      BY <2>5, PendsNext
    <2>7. Rest(p[k], 0) = p[k]
      <3> DEFINE u == p[k]
      <3>1. u \in Seq(Nat \X Nat)
        BY <2>6
      <3> HIDE DEF u
      <3>2. Rest(u, 0) = u
        BY <3>1, RestOf
      <3> QED
        BY <3>2 DEF u
    <2> QED
      BY <2>2, <2>5, <2>6, <2>7 DEF k, z
  <1>3. ASSUME NEW x \in DOMAIN ns, ~ns[x].leaf,
               \A i \in 1 .. Len(ns[x].children) : Over(o, p, f[ns[x].children[i]])
        PROVE  Over(o, p, f[x])
    <2> SUFFICES ASSUME NEW q \in Nat, Block(o, q, f[x])
                 PROVE  p[q + Len(f[x])] = Tail(p[q])
      BY DEF Over
    <2> DEFINE ss == Parts(ns, f, x)  l == f[x]
    <2>1. /\ HaveLengths(ss) /\ Len(ss) = Len(ns[x].children) /\ Len(ss) = Fan(ns[x])
          /\ \A i \in 1 .. Len(ns[x].children) : ss[i] = f[ns[x].children[i]]
          /\ \E off, s : ListsBelow(l, x, ss, off, s)
      BY <1>3, WalkedParts
    <2>2. PICK off, s : ListsBelow(l, x, ss, off, s)
      BY <2>1
    <2>3. \A i \in 1 .. Len(ss) : Over(o, p, ss[i])
      BY <1>3, <2>1
    <2>4. q + 1 \in 1 .. Len(o) /\ o[q + 1] = x
      <3>1. Block(o, q, l)
        OBVIOUS
      <3> HIDE DEF l, ss
      <3> QED
        BY <1>1, <2>1, <2>2, <3>1, BlockParts
    <2>5. Fan(images[q + 1]) = Len(ss)
      <3>1. images[q + 1] = ns[x]
        BY <2>4 DEF Written
      <3> QED
        BY <2>1, <3>1
    <2>6. Block(o, q, l) /\ HaveLengths(ss)
      BY <2>1
    <2> HIDE DEF l, ss
    <2>7. p[q + Len(l)] = Tail(p[q])
      <3>1. Reading(o, images, p, q, l, x, ss, off, s)
        BY <1>1, <2>2, <2>3, <2>5, <2>6 DEF Reading
      <3> QED
        BY <3>1, PartsOver
    <2> QED
      BY <2>7 DEF l
  <1>4. ASSUME NEW h \in Nat, \A k \in Nat : k < h => k \in H
        PROVE  h \in H
    <2> SUFFICES ASSUME NEW x \in DOMAIN ns, Hgt(t, x) = h
                 PROVE  Over(o, p, f[x])
      BY DEF H
    <2>1. CASE ns[x].leaf
      BY <1>2, <2>1
    <2>2. CASE ~ns[x].leaf
      <3>1. \A i \in 1 .. Len(ns[x].children) :
              ns[x].children[i] \in DOMAIN ns /\ Hgt(t, ns[x].children[i]) = h - 1
        BY <2>2, Family
      <3>2. h >= 1
        BY <2>2, Family
      <3>3. h - 1 \in H
        BY <1>4, <3>2
      <3>4. \A i \in 1 .. Len(ns[x].children) : Over(o, p, f[ns[x].children[i]])
        BY <3>1, <3>3
      <3> QED
        BY <1>3, <2>2, <3>4
    <2> QED
      BY <2>1, <2>2
  <1>5. Nat \subseteq H
    <2> HIDE DEF H
    <2> QED
      BY <1>4, StrongInduction
  <1>6. \A x \in DOMAIN ns : Hgt(t, x) \in Nat
    BY Placed
  <1> QED
    BY <1>5, <1>6

---------------------------------------------------------------------------
\* o lists the nodes of the tree as they are written.
Ordering(ns, r, t, f, o) == Tree(ns, r, t) /\ Walked(ns, f) /\ o = f[r]

\* It has every node once.
LEMMA OrderOnce ==
  ASSUME NEW ns, NEW r, NEW t, NEW f, NEW o, Ordering(ns, r, t, f, o)
  PROVE  /\ Len(o) \in Nat /\ Len(o) >= 1 /\ o[1] = r
         /\ \A k \in 1 .. Len(o) : o[k] \in DOMAIN ns
         /\ \A j, k \in 1 .. Len(o) : o[j] = o[k] => j = k
  <1>1. Tree(ns, r, t) /\ o = f[r] /\ f \in [DOMAIN ns -> Seq(DOMAIN ns)] /\ f = Walk(ns, TRUE, f)
    BY DEF Ordering, Walked
  <1>2. r \in DOMAIN ns
    BY <1>1 DEF Tree
  <1>3. \A x \in DOMAIN ns : Preorders(t, f[x], x)
    BY <1>1, PreorderWalk
  <1>4. Preorders(t, o, r)
    BY <1>1, <1>2, <1>3
  <1>5. o \in Seq(DOMAIN ns)
    BY <1>1, <1>2
  <1>6. \A k \in 1 .. Len(o) : o[k] \in DOMAIN ns
    BY <1>5
  <1> QED
    BY <1>4, <1>6 DEF Preorders

\* The list of a child is in that of its parent.
LEMMA ChildBlock ==
  ASSUME NEW ns, NEW r, NEW t, Tree(ns, r, t), NEW f, Walked(ns, f), NEW o, Len(o) \in Nat,
         NEW x \in DOMAIN ns, ~ns[x].leaf, NEW k, Block(o, k, f[x])
  PROVE  \A i \in 1 .. Len(ns[x].children) : \E q \in Nat : Block(o, q, f[ns[x].children[i]])
  <1> DEFINE ss == Parts(ns, f, x)  l == f[x]
  <1>1. /\ HaveLengths(ss) /\ Len(ss) = Len(ns[x].children) /\ Len(ss) = Fan(ns[x])
        /\ \A i \in 1 .. Len(ns[x].children) : ss[i] = f[ns[x].children[i]]
        /\ \E off, s : ListsBelow(l, x, ss, off, s)
    BY WalkedParts
  <1>2. PICK off, s : ListsBelow(l, x, ss, off, s)
    BY <1>1
  <1>3. Block(o, k, l)
    OBVIOUS
  <1> HIDE DEF ss, l
  <1>4. \A i \in 1 .. Len(ss) : Block(o, k + 1 + off[i - 1], ss[i])
    BY <1>1, <1>2, <1>3, BlockParts
  <1>5. ASSUME NEW i \in 1 .. Len(ns[x].children)
        PROVE  \E q \in Nat : Block(o, q, f[ns[x].children[i]])
    <2> DEFINE q == k + 1 + off[i - 1]
    <2>1. Block(o, q, f[ns[x].children[i]])
      BY <1>1, <1>4
    <2>2. q \in Nat
      BY <2>1 DEF Block
    <2> QED
      BY <2>1, <2>2
  <1> QED
    BY <1>5

\* Every node has its list in that of the tree.
LEMMA NodeBlock ==
  ASSUME NEW ns, NEW r, NEW t, NEW f, NEW o, Ordering(ns, r, t, f, o)
  PROVE  \A x \in DOMAIN ns : \E k \in Nat : Block(o, k, f[x])
  <1>1. Tree(ns, r, t) /\ Walked(ns, f) /\ o = f[r] /\ r \in DOMAIN ns
    BY DEF Ordering, Tree
  <1>2. Len(o) \in Nat
    BY OrderOnce
  <1>3. \A x \in DOMAIN ns : Hgt(t, x) \in Nat /\ Hgt(t, x) <= Hgt(t, r)
    BY <1>1, Placed DEF Tree
  <1> DEFINE H == { d \in Nat : \A x \in DOMAIN ns :
                      Hgt(t, r) - Hgt(t, x) = d => \E k \in Nat : Block(o, k, f[x]) }
  <1>4. ASSUME NEW d \in Nat, \A e \in Nat : e < d => e \in H
        PROVE  d \in H
    <2> SUFFICES ASSUME NEW x \in DOMAIN ns, Hgt(t, r) - Hgt(t, x) = d
                 PROVE  \E k \in Nat : Block(o, k, f[x])
      OBVIOUS
    <2>1. CASE x = r
      <3>1. 0 + Len(f[r]) <= Len(o) /\ \A j \in 1 .. Len(f[r]) : o[0 + j] = f[r][j]
        BY <1>1, <1>2
      <3> QED
        BY <2>1, <3>1 DEF Block
    <2>2. CASE x # r
      <3>1. PICK z \in DOMAIN ns : \E i : IsChild(ns, x, z, i) /\ Hgt(t, z) = Hgt(t, x) + 1
        BY <1>1, <2>2, ParentExists
      <3>2. PICK i : ~ns[z].leaf /\ i \in 1 .. Len(ns[z].children) /\ ns[z].children[i] = x
        BY <3>1 DEF IsChild
      <3>3. Hgt(t, r) - Hgt(t, z) \in Nat /\ Hgt(t, r) - Hgt(t, z) < d
        <4>1. /\ Hgt(t, r) \in Nat /\ Hgt(t, z) \in Nat /\ Hgt(t, x) \in Nat
              /\ Hgt(t, z) <= Hgt(t, r) /\ Hgt(t, z) = Hgt(t, x) + 1
          BY <1>1, <1>3, <3>1
        <4> QED
          BY <4>1
      <3>4. PICK k \in Nat : Block(o, k, f[z])
        BY <1>4, <3>3
      <3>5. \A j \in 1 .. Len(ns[z].children) : \E q \in Nat : Block(o, q, f[ns[z].children[j]])
        BY <1>1, <1>2, <3>2, <3>4, ChildBlock
      <3> QED
        BY <3>2, <3>5
    <2> QED
      BY <2>1, <2>2
  <1>5. Nat \subseteq H
    <2> HIDE DEF H
    <2> QED
      BY <1>4, StrongInduction
  <1>6. \A x \in DOMAIN ns : Hgt(t, r) - Hgt(t, x) \in Nat
    BY <1>1, <1>3
  <1> QED
    BY <1>5, <1>6

\* The number that a node is read as.
Spot(o, x) == CHOOSE k \in 1 .. Len(o) : o[k] = x

\* A node's own place is the first of its list.
LEMMA SpotOf ==
  ASSUME NEW ns, NEW r, NEW t, NEW f, NEW o, Ordering(ns, r, t, f, o)
  PROVE  /\ \A x \in DOMAIN ns : /\ Spot(o, x) \in 1 .. Len(o) /\ o[Spot(o, x)] = x
                                 /\ \A k \in Nat : Block(o, k, f[x]) => Spot(o, x) = k + 1
         /\ \A k \in 1 .. Len(o) : Spot(o, o[k]) = k
         /\ Spot(o, r) = 1
  <1>1. Tree(ns, r, t) /\ f \in [DOMAIN ns -> Seq(DOMAIN ns)] /\ f = Walk(ns, TRUE, f)
    BY DEF Ordering, Walked
  <1>2. /\ Len(o) \in Nat /\ Len(o) >= 1 /\ o[1] = r
        /\ \A k \in 1 .. Len(o) : o[k] \in DOMAIN ns
        /\ \A j, k \in 1 .. Len(o) : o[j] = o[k] => j = k
    BY OrderOnce
  <1>3. ASSUME NEW k \in 1 .. Len(o)
        PROVE  Spot(o, o[k]) = k
    BY <1>2 DEF Spot
  <1>4. ASSUME NEW x \in DOMAIN ns, NEW k \in Nat, Block(o, k, f[x])
        PROVE  k + 1 \in 1 .. Len(o) /\ o[k + 1] = x
    <2>1. Preorders(t, f[x], x)
      BY <1>1, PreorderWalk
    <2>2. Len(f[x]) \in Nat /\ Len(f[x]) >= 1 /\ f[x][1] = x
      BY <2>1 DEF Preorders
    <2>3. k + Len(f[x]) <= Len(o) /\ \A j \in 1 .. Len(f[x]) : o[k + j] = f[x][j]
      BY <1>4 DEF Block
    <2> QED
      BY <1>2, <2>2, <2>3
  <1>5. ASSUME NEW x \in DOMAIN ns
        PROVE  /\ Spot(o, x) \in 1 .. Len(o) /\ o[Spot(o, x)] = x
               /\ \A k \in Nat : Block(o, k, f[x]) => Spot(o, x) = k + 1
    <2>1. PICK k \in Nat : Block(o, k, f[x])
      BY NodeBlock
    <2>2. k + 1 \in 1 .. Len(o) /\ o[k + 1] = x
      BY <1>4, <2>1
    <2>3. Spot(o, x) = k + 1
      BY <1>3, <2>2
    <2>4. ASSUME NEW q \in Nat, Block(o, q, f[x])
          PROVE  Spot(o, x) = q + 1
      <3>1. q + 1 \in 1 .. Len(o) /\ o[q + 1] = x
        BY <1>4, <2>4
      <3> QED
        BY <1>3, <3>1
    <2> QED
      BY <2>2, <2>3, <2>4
  <1>6. Spot(o, r) = 1
    <2>1. 1 \in 1 .. Len(o)
      BY <1>2
    <2> QED
      BY <1>2, <1>3, <2>1
  <1> QED
    BY <1>3, <1>5, <1>6

---------------------------------------------------------------------------
\* images are the nodes in that order, p what is pending after each of them.
Restoring(ns, r, t, f, o, images, p) ==
  Ordering(ns, r, t, f, o) /\ Written(ns, o, images) /\ Pends(images, p)

\* When the j-th image is read, the first pending child is the i-th one of x.
DueAt(o, p, j, x, i) == Head(p[j - 1]) = <<Spot(o, x), i>>

\* The first pending child, when a child is read, is that child.
LEMMA ChildDue ==
  ASSUME NEW ns, NEW r, NEW t, NEW f, NEW o, NEW images, NEW p, Restoring(ns, r, t, f, o, images, p),
         NEW x \in DOMAIN ns, ~ns[x].leaf, NEW i \in 1 .. Len(ns[x].children)
  PROVE  /\ DueAt(o, p, Spot(o, ns[x].children[i]), x, i)
         /\ Spot(o, x) < Spot(o, ns[x].children[i])
  <1>1. /\ Ordering(ns, r, t, f, o) /\ Written(ns, o, images) /\ Pends(images, p)
        /\ Tree(ns, r, t) /\ Walked(ns, f)
    BY DEF Restoring, Ordering
  <1>2. Len(o) \in Nat /\ Len(images) = Len(o) /\ \A k \in 1 .. Len(o) : images[k] = ns[o[k]]
    BY <1>1 DEF Written
  <1> DEFINE c == ns[x].children  ss == Parts(ns, f, x)  l == f[x]  y == c[i]
  <1>3. y \in DOMAIN ns
    BY <1>1, Family
  <1>4. PICK k \in Nat : Block(o, k, l)
    BY <1>1, NodeBlock
  <1>5. Spot(o, x) = k + 1 /\ Spot(o, x) \in 1 .. Len(o) /\ o[Spot(o, x)] = x
    BY <1>1, <1>4, SpotOf
  <1>6. /\ HaveLengths(ss) /\ Len(ss) = Len(c) /\ Len(ss) = Fan(ns[x])
        /\ \A j \in 1 .. Len(c) : ss[j] = f[c[j]]
        /\ \E off, s : ListsBelow(l, x, ss, off, s)
    BY <1>1, WalkedParts
  <1>7. PICK off, s : ListsBelow(l, x, ss, off, s)
    BY <1>6
  <1>8. Fan(images[k + 1]) = Len(ss)
    BY <1>2, <1>5, <1>6
  <1>9. \A j \in 1 .. Len(ss) : Over(o, p, ss[j])
    <2>1. \A z \in DOMAIN ns : Over(o, p, f[z])
      BY <1>1, NodesOver
    <2>2. \A j \in 1 .. Len(c) : c[j] \in DOMAIN ns
      BY <1>1, Family
    <2> QED
      BY <1>6, <2>1, <2>2
  <1> HIDE DEF ss, l, c, y
  <1>10. Reading(o, images, p, k, l, x, ss, off, s)
    BY <1>1, <1>2, <1>4, <1>6, <1>7, <1>8, <1>9 DEF Reading
  <1>11. \A j \in 0 .. Len(ss) : p[k + 1 + off[j]] = Rest(p[k + 1], j)
    BY <1>10, PartsPend
  <1>12. /\ k + 1 \in 1 .. Len(o)
         /\ \A j \in 1 .. Len(ss) : Block(o, k + 1 + off[j - 1], ss[j])
    BY <1>2, <1>4, <1>6, <1>7, BlockParts
  <1>13. i \in 1 .. Len(ss) /\ ss[i] = f[y] /\ Len(ss) \in Nat
    BY <1>6 DEF c, y, HaveLengths
  <1> DEFINE q == k + 1 + off[i - 1]  u == p[k + 1]  m == Len(ss)
  <1>14. Block(o, q, f[y]) /\ q \in Nat
    <2>1. Block(o, q, ss[i])
      BY <1>12, <1>13
    <2> QED
      BY <1>13, <2>1 DEF Block
  <1>15. Spot(o, y) = q + 1
    <2> HIDE DEF q
    <2> QED
      BY <1>1, <1>3, <1>14, SpotOf
  <1>16. off[i - 1] \in Nat
    <2>1. off \in [0 .. Len(ss) -> Nat]
      BY <1>7 DEF ListsBelow, Laid, Offsets
    <2> QED
      BY <1>13, <2>1
  <1>17. p[q] = Rest(u, i - 1)
    <2>1. i - 1 \in 0 .. Len(ss)
      BY <1>13
    <2> QED
      BY <1>11, <2>1
  <1>18. u \in Seq(Nat \X Nat) /\ Len(u) >= m /\ Len(u) \in Nat /\ \A j \in 1 .. m : u[j] = <<k + 1, j>>
    <2> DEFINE a == k + 1
    <2>1. Len(images) \in Nat /\ a \in 1 .. Len(images) /\ m \in Nat /\ Fan(images[a]) = m /\ Pends(images, p)
      BY <1>1, <1>2, <1>8, <1>12, <1>13
    <2> HIDE DEF a, m, u
    <2>2. p[a] \in Seq(Nat \X Nat) /\ Len(p[a]) >= m /\ Len(p[a]) \in Nat /\ \A j \in 1 .. m : p[a][j] = <<a, j>>
      BY <2>1, PendsNext
    <2> QED
      BY <2>2 DEF a, u
  <1> HIDE DEF u
  <1>19. Head(Rest(u, i - 1)) = u[i]
    <2> DEFINE j == i - 1
    <2>1. j \in 0 .. Len(u) - 1 /\ j + 1 = i
      BY <1>13, <1>18
    <2> HIDE DEF j
    <2>2. Head(Rest(u, j)) = u[j + 1]
      BY <1>18, <2>1, RestOf
    <2> QED
      BY <2>1, <2>2 DEF j
  <1>20. (q + 1) - 1 = q /\ k + 1 < q + 1
    BY <1>14, <1>16
  <1>21. u[i] = <<k + 1, i>>
    BY <1>13, <1>18
  <1> HIDE DEF q
  <1>22. Head(p[Spot(o, y) - 1]) = <<Spot(o, x), i>> /\ Spot(o, x) < Spot(o, y)
    BY <1>5, <1>15, <1>17, <1>19, <1>20, <1>21
  <1> QED
    BY <1>22 DEF y, c, DueAt

\* No other is.
LEMMA ChildFound ==
  ASSUME NEW ns, NEW r, NEW t, NEW f, NEW o, NEW images, NEW p, Restoring(ns, r, t, f, o, images, p),
         NEW x \in DOMAIN ns, ~ns[x].leaf, NEW i \in 1 .. Len(ns[x].children),
         NEW j \in 1 .. Len(o), DueAt(o, p, j, x, i)
  PROVE  j = Spot(o, ns[x].children[i])
  <1>1. Ordering(ns, r, t, f, o) /\ Pends(images, p) /\ Tree(ns, r, t)
    BY DEF Restoring, Ordering
  <1>2. /\ Len(o) \in Nat /\ Len(o) >= 1 /\ o[1] = r
        /\ \A k \in 1 .. Len(o) : o[k] \in DOMAIN ns
        /\ \A k, m \in 1 .. Len(o) : o[k] = o[m] => k = m
    BY <1>1, OrderOnce
  <1>3. /\ \A z \in DOMAIN ns : Spot(o, z) \in 1 .. Len(o) /\ o[Spot(o, z)] = z
        /\ \A k \in 1 .. Len(o) : Spot(o, o[k]) = k
    BY <1>1, SpotOf
  <1> DEFINE z == o[j]  s == Spot(o, x)
  <1>4. z # r
    <2> SUFFICES ASSUME z = r
                 PROVE  FALSE
      OBVIOUS
    <2>1. j = 1
      BY <1>2
    <2>2. p[0] = << <<0, 1>> >>
      BY <1>1 DEF Pends
    <2>3. Head(p[0]) = <<0, 1>>
      BY <2>2
    <2>4. <<0, 1>> = <<s, i>>
      BY <2>1, <2>3 DEF DueAt
    <2>5. s = 0
      BY <2>4
    <2> QED
      BY <1>3, <2>5
  <1>5. z \in DOMAIN ns
    BY <1>2
  <1> HIDE DEF z
  <1>6. PICK w \in DOMAIN ns : \E k : IsChild(ns, z, w, k) /\ Hgt(t, w) = Hgt(t, z) + 1
    BY <1>1, <1>4, <1>5, ParentExists
  <1>7. PICK k : ~ns[w].leaf /\ k \in 1 .. Len(ns[w].children) /\ ns[w].children[k] = z
    BY <1>6 DEF IsChild
  <1>8. DueAt(o, p, Spot(o, ns[w].children[k]), w, k)
    BY <1>7, ChildDue
  <1>9. Spot(o, z) = j
    BY <1>3 DEF z
  <1>10. <<Spot(o, w), k>> = <<s, i>>
    BY <1>7, <1>8, <1>9 DEF DueAt
  <1>11. Spot(o, w) = s /\ k = i
    BY <1>10
  <1>12. w = x
    BY <1>3, <1>11
  <1> QED
    BY <1>7, <1>9, <1>11, <1>12

\* How load_btree_node goes through the images.
PendStep(images, p) ==
  [k \in 0 .. Len(images) |-> IF k = 0 THEN << <<0, 1>> >>
                              ELSE Due(k, Fan(images[k])) \o Tail(p[k - 1])]

\* It can.
LEMMA PendsExist ==
  ASSUME NEW images, Len(images) \in Nat, \A k \in 1 .. Len(images) : Fan(images[k]) \in Nat
  PROVE  \E p : p = PendStep(images, p)
  <1> DEFINE S == 0 .. Len(images)  V == Seq(Nat \X Nat)  m == [k \in S |-> k]
             Body(p) == [k \in S |-> IF k = 0 THEN << <<0, 1>> >> ELSE Due(k, Fan(images[k])) \o Tail(p[k - 1])]
             G == [p \in [S -> V] |-> Body(p)]
  <1>1. ASSUME NEW p \in [S -> V]
        PROVE  Body(p) \in [S -> V]
    <2> SUFFICES ASSUME NEW k \in S
                 PROVE  (IF k = 0 THEN << <<0, 1>> >> ELSE Due(k, Fan(images[k])) \o Tail(p[k - 1])) \in V
      OBVIOUS
    <2>1. << <<0, 1>> >> \in V
      OBVIOUS
    <2>2. ASSUME k # 0
          PROVE  Due(k, Fan(images[k])) \o Tail(p[k - 1]) \in V
      <3> DEFINE a == Due(k, Fan(images[k]))  s == p[k - 1]  T == Nat \X Nat
      <3>1. a \in Seq(T)
        <4>1. k \in Nat /\ Fan(images[k]) \in Nat
          BY <2>2
        <4> QED
          BY <4>1, DueList
      <3>2. s \in Seq(T)
        <4>1. k - 1 \in S
          BY <2>2
        <4> QED
          BY <4>1
      <3> HIDE DEF a, s, T
      <3>3. Tail(s) \in Seq(T)
        BY <3>2, TailIsList
      <3>4. a \o Tail(s) \in Seq(T)
        BY <3>1, <3>3, ConcatProperties
      <3> QED
        BY <3>4 DEF a, s, T
    <2> QED
      BY <2>1, <2>2
  <1>2. Measured(S, m, Len(images) + 1)
    BY DEF Measured
  <1>3. Descends(S, V, m, G)
    <2>1. V # {}
      <3>1. <<>> \in V
        OBVIOUS
      <3> QED
        BY <3>1
    <2>2. G \in [[S -> V] -> [S -> V]]
      BY <1>1
    <2>3. ASSUME NEW g \in [S -> V], NEW h \in [S -> V], NEW k \in S,
                 \A j \in S : m[j] < m[k] => g[j] = h[j]
          PROVE  G[g][k] = G[h][k]
      <3>1. k # 0 => k - 1 \in S /\ m[k - 1] < m[k]
        OBVIOUS
      <3>2. k # 0 => g[k - 1] = h[k - 1]
        BY <2>3, <3>1
      <3>3. G[g] = Body(g) /\ G[h] = Body(h)
        OBVIOUS
      <3> QED
        BY <3>2, <3>3
    <2> HIDE DEF S, V, m, G
    <2> QED
      BY <2>1, <2>2, <2>3 DEF Descends
  <1>4. PICK p \in [S -> V] : p = G[p]
    <2> HIDE DEF S, V, m, G
    <2> QED
      BY <1>2, <1>3, RecursiveFunction
  <1>5. p = Body(p)
    BY <1>4
  <1> QED
    BY <1>5 DEF PendStep

\* What it meets is what is pending.
LEMMA PendsMet ==
  ASSUME NEW images, Len(images) \in Nat, \A k \in 1 .. Len(images) : Fan(images[k]) \in Nat,
         NEW p, p = PendStep(images, p)
  PROVE  Pends(images, p)
  <1> DEFINE S == 0 .. Len(images)  T == Nat \X Nat
             N == { k \in Nat : k \in S => p[k] \in Seq(T) }
  <1>1. p[0] = << <<0, 1>> >>
    BY DEF PendStep
  <1>2. ASSUME NEW k \in 1 .. Len(images)
        PROVE  p[k] = Due(k, Fan(images[k])) \o Tail(p[k - 1])
    <2>1. k \in S /\ k # 0
      OBVIOUS
    <2> QED
      BY <2>1 DEF PendStep
  <1>3. 0 \in N
    <2>1. << <<0, 1>> >> \in Seq(T)
      OBVIOUS
    <2> QED
      BY <1>1, <2>1
  <1>4. ASSUME NEW k \in Nat, k \in N
        PROVE  k + 1 \in N
    <2> SUFFICES ASSUME k + 1 \in S
                 PROVE  p[k + 1] \in Seq(T)
      OBVIOUS
    <2> DEFINE l == k + 1  a == Due(l, Fan(images[l]))  s == p[k]
    <2>1. l \in 1 .. Len(images) /\ l - 1 = k /\ k \in S /\ l \in Nat
      OBVIOUS
    <2>2. s \in Seq(T)
      BY <1>4, <2>1
    <2>3. a \in Seq(T)
      <3>1. Fan(images[l]) \in Nat
        BY <2>1
      <3> HIDE DEF l
      <3> QED
        BY <2>1, <3>1, DueList
    <2>4. p[l] = a \o Tail(s)
      <3> HIDE DEF l
      <3> QED
        BY <1>2, <2>1
    <2> HIDE DEF a, s, T
    <2>5. Tail(s) \in Seq(T)
      BY <2>2, TailIsList
    <2>6. a \o Tail(s) \in Seq(T)
      BY <2>3, <2>5, ConcatProperties
    <2> QED
      BY <2>4, <2>6
  <1>5. Nat \subseteq N
    <2> HIDE DEF N
    <2> QED
      BY <1>3, <1>4, SetInduction
  <1>6. \A k \in S : p[k] \in Seq(T)
    BY <1>5
  <1>7. p \in [S -> Seq(T)]
    <2>1. p = [k \in S |-> p[k]]
      BY DEF PendStep
    <2> QED
      BY <1>6, <2>1
  <1> QED
    BY <1>1, <1>2, <1>7 DEF Pends

---------------------------------------------------------------------------
\* ms are the nodes ns in the order o, a node's children under their new numbers, which
\* are above its own.
Renumbered(ns, o, ms) ==
  /\ ms \in Seq(Node) /\ Len(ms) = Len(o)
  /\ \A k \in 1 .. Len(o) :
       LET n == ns[o[k]]
       IN  /\ ms[k].leaf = n.leaf /\ ms[k].records = n.records
           /\ Len(ms[k].children) = Len(n.children)
           /\ \A i \in 1 .. Len(n.children) : ms[k].children[i] = Spot(o, n.children[i])
           /\ \A i \in 1 .. Len(n.children) : k < ms[k].children[i]

\* load_btree_node gives every image its children.
LEMMA LoadRenumbers ==
  ASSUME NEW ns, NEW r, NEW t, NEW f, NEW o, Ordering(ns, r, t, f, o),
         NEW images, Written(ns, o, images), images \in Seq(Node)
  PROVE  /\ Renumbered(ns, o, LoadNodes(images))
         /\ LoadNodes(images)[1].next = ns[r].next
  <1>1. Tree(ns, r, t) /\ ns \in Seq(Node) /\ r \in DOMAIN ns
    BY DEF Ordering, Tree
  <1>2. /\ Len(o) \in Nat /\ Len(images) = Len(o) /\ DOMAIN images = 1 .. Len(o)
        /\ \A k \in 1 .. Len(o) : images[k] = ns[o[k]] /\ o[k] \in DOMAIN ns
    BY OrderOnce DEF Written
  <1>3. ASSUME NEW k \in 1 .. Len(o)
        PROVE  /\ Fan(images[k]) = Len(ns[o[k]].children) /\ Fan(images[k]) \in Nat
               /\ images[k] \in Node
    <2> DEFINE x == o[k]
    <2>1. x \in DOMAIN ns /\ images[k] = ns[x]
      BY <1>2
    <2> HIDE DEF x
    <2>2. ns[x] \in Node
      BY <1>1, <2>1
    <2>3. CASE ns[x].leaf
      <3>1. ns[x].children = <<>>
        BY <1>1, <2>1, <2>3 DEF Tree, InChain
      <3> QED
        BY <2>1, <2>2, <2>3, <3>1 DEF Fan, x
    <2>4. CASE ~ns[x].leaf
      <3>1. Len(ns[x].children) = Len(ns[x].records) /\ Len(ns[x].records) \in Nat
        BY <1>1, <2>1, <2>4, Family
      <3> QED
        BY <2>1, <2>2, <2>4, <3>1 DEF Fan, x
    <2> QED
      BY <2>3, <2>4
  <1> DEFINE p == CHOOSE q : q = PendStep(images, q)
             Child(k, i) == CHOOSE j \in DOMAIN images : Head(p[j - 1]) = <<k, i>>
             ms == [k \in 1 .. Len(o) |->
                      [images[k] EXCEPT !.children = [i \in 1 .. Fan(images[k]) |-> Child(k, i)]]]
  <1>4. LoadNodes(images) = ms
    BY <1>2 DEF LoadNodes, PendStep, Due, Fan
  <1>5. Pends(images, p)
    <2>1. \E q : q = PendStep(images, q)
      BY <1>2, <1>3, PendsExist
    <2>2. p = PendStep(images, p)
      BY <2>1
    <2> HIDE DEF p
    <2> QED
      BY <1>2, <1>3, <2>2, PendsMet
  <1> HIDE DEF p
  <1>6. Restoring(ns, r, t, f, o, images, p)
    BY <1>5 DEF Restoring
  <1>7. \A z \in DOMAIN ns : Spot(o, z) \in 1 .. Len(o)
    BY SpotOf
  <1>8. \A k \in 1 .. Len(o) : Spot(o, o[k]) = k
    BY SpotOf
  <1>9. ASSUME NEW k \in 1 .. Len(o), NEW i \in 1 .. Len(ns[o[k]].children)
        PROVE  /\ Child(k, i) = Spot(o, ns[o[k]].children[i]) /\ Child(k, i) \in 1 .. Len(o)
               /\ k < Child(k, i)
    <2> DEFINE x == o[k]  s == Spot(o, ns[o[k]].children[i])
    <2>1. x \in DOMAIN ns /\ Spot(o, x) = k
      BY <1>2, <1>8
    <2>2. ~ns[x].leaf
      <3> SUFFICES ASSUME ns[x].leaf
                   PROVE  FALSE
        OBVIOUS
      <3>1. ns[x].children = <<>>
        BY <1>1, <2>1 DEF Tree, InChain
      <3>2. Len(ns[x].children) = 0
        BY <3>1
      <3> QED
        BY <3>2
    <2>3. ns[x].children[i] \in DOMAIN ns
      BY <1>1, <2>1, <2>2, Family
    <2>4. s \in DOMAIN images
      BY <1>2, <1>7, <2>3
    <2> HIDE DEF x
    <2>5. DueAt(o, p, Spot(o, ns[x].children[i]), x, i) /\ Spot(o, x) < Spot(o, ns[x].children[i])
      BY <1>6, <2>1, <2>2, ChildDue DEF x
    <2>6. Head(p[s - 1]) = <<k, i>>
      BY <2>1, <2>5 DEF DueAt, x, s
    <2>7. ASSUME NEW j \in DOMAIN images, Head(p[j - 1]) = <<k, i>>
          PROVE  j = s
      <3>1. DueAt(o, p, j, x, i) /\ j \in 1 .. Len(o)
        BY <1>2, <2>1, <2>7 DEF DueAt
      <3>2. j = Spot(o, ns[x].children[i])
        BY <1>6, <2>1, <2>2, <3>1, ChildFound DEF x
      <3> QED
        BY <3>2 DEF x, s
    <2> HIDE DEF s
    <2>8. Child(k, i) = s
      BY <2>4, <2>6, <2>7
    <2>9. k < s
      BY <2>1, <2>5 DEF s, x
    <2> QED
      BY <1>2, <2>4, <2>8, <2>9 DEF s
  <1> HIDE DEF Child
  <1>10. ASSUME NEW k \in 1 .. Len(o)
         PROVE  /\ ms[k] \in Node
                /\ ms[k].leaf = ns[o[k]].leaf /\ ms[k].records = ns[o[k]].records /\ ms[k].next = ns[o[k]].next
                /\ Len(ms[k].children) = Len(ns[o[k]].children)
                /\ \A i \in 1 .. Len(ns[o[k]].children) : ms[k].children[i] = Spot(o, ns[o[k]].children[i])
                /\ \A i \in 1 .. Len(ns[o[k]].children) : k < ms[k].children[i]
    <2> DEFINE n == images[k]  m == Fan(images[k])  c == [i \in 1 .. m |-> Child(k, i)]
    <2>1. n \in Node /\ n = ns[o[k]] /\ m \in Nat /\ m = Len(n.children)
      BY <1>2, <1>3
    <2>2. \A i \in 1 .. m : Child(k, i) = Spot(o, n.children[i]) /\ Child(k, i) \in Nat /\ k < Child(k, i)
      BY <1>2, <1>9, <2>1
    <2>3. c \in [1 .. m -> Nat]
      BY <2>2
    <2>4. \A i \in 1 .. m : c[i] = Spot(o, n.children[i]) /\ k < c[i]
      BY <2>2
    <2>5. ms[k] = [n EXCEPT !.children = c]
      OBVIOUS
    <2> DEFINE A == Nat
    <2> HIDE DEF n, m, c, ms, A
    <2>6. c \in Seq(A) /\ Len(c) = m
      <3>1. c \in [1 .. m -> A]
        BY <2>3 DEF A
      <3> QED
        BY <2>1, <3>1, FunctionIsList
    <2>7. /\ ms[k] \in Node /\ ms[k].children = c
          /\ ms[k].leaf = n.leaf /\ ms[k].records = n.records /\ ms[k].next = n.next
      BY <2>1, <2>5, <2>6 DEF Node, A
    <2> QED
      BY <2>1, <2>4, <2>6, <2>7
  <1>11. ms \in Seq(Node) /\ Len(ms) = Len(o)
    <2> DEFINE n == Len(o)
    <2>1. n \in Nat /\ ms \in [1 .. n -> Node]
      BY <1>2, <1>10
    <2> HIDE DEF n, ms
    <2>2. ms \in Seq(Node) /\ Len(ms) = n
      BY <2>1, FunctionIsList
    <2> QED
      BY <2>2 DEF n
  <1>12a. ms[1].next = ns[r].next
    <2>1. 1 \in 1 .. Len(o) /\ o[1] = r
      BY OrderOnce
    <2> HIDE DEF ms
    <2> QED
      BY <1>10, <2>1
  <1> HIDE DEF ms
  <1>12. Renumbered(ns, o, ms)
    BY <1>10, <1>11 DEF Renumbered
  <1> QED
    BY <1>4, <1>12, <1>12a

---------------------------------------------------------------------------
\* The description of the tree under the new numbers.
Renumber(o, t) ==
  [chain |-> [q \in 1 .. Width(t) |-> Spot(o, At(t, q))],
   hgt |-> [k \in 1 .. Len(o) |-> Hgt(t, o[k])],
   lo |-> [k \in 1 .. Len(o) |-> Lo(t, o[k])],
   hi |-> [k \in 1 .. Len(o) |-> Hi(t, o[k])],
   sep |-> t.sep]

\* What it says.
LEMMA RenumberSays ==
  ASSUME NEW ns, NEW r, NEW t, NEW f, NEW o, Ordering(ns, r, t, f, o), NEW u, u = Renumber(o, t)
  PROVE  /\ \A k \in 1 .. Len(o) : /\ Hgt(u, k) = Hgt(t, o[k]) /\ Lo(u, k) = Lo(t, o[k])
                                   /\ Hi(u, k) = Hi(t, o[k])
         /\ Width(u) = Width(t) /\ \A q \in 1 .. Width(t) : At(u, q) = Spot(o, At(t, q))
         /\ \A s : Sep(u, s) = Sep(t, s)
         /\ Description(o, u)
  <1>1. Tree(ns, r, t) /\ Description(ns, t)
    BY DEF Ordering, Tree
  <1>2. Len(o) \in Nat /\ \A k \in 1 .. Len(o) : o[k] \in DOMAIN ns
    BY OrderOnce
  <1>3. /\ u.hgt = [k \in 1 .. Len(o) |-> Hgt(t, o[k])]
        /\ u.lo = [k \in 1 .. Len(o) |-> Lo(t, o[k])]
        /\ u.hi = [k \in 1 .. Len(o) |-> Hi(t, o[k])]
        /\ u.chain = [q \in 1 .. Width(t) |-> Spot(o, At(t, q))]
        /\ u.sep = t.sep
    BY DEF Renumber
  <1>4. \A k \in 1 .. Len(o) : /\ Hgt(u, k) = Hgt(t, o[k]) /\ Lo(u, k) = Lo(t, o[k])
                               /\ Hi(u, k) = Hi(t, o[k])
    BY <1>3 DEF Hgt, Lo, Hi
  <1>5. \A k \in 1 .. Len(o) : Hgt(t, o[k]) \in Nat /\ Lo(t, o[k]) \in Nat /\ Hi(t, o[k]) \in Nat
    <2>1. \A z \in DOMAIN ns : Hgt(t, z) \in Nat /\ Lo(t, z) \in Nat /\ Hi(t, z) \in Nat
      BY <1>1, Placed
    <2> QED
      BY <1>2, <2>1
  <1>6. Width(t) \in Nat /\ \A q \in 1 .. Width(t) : At(t, q) \in DOMAIN ns
    <2>1. DOMAIN ns = 1 .. Len(ns) /\ Width(t) \in Nat /\ \A q \in 1 .. Width(t) : At(t, q) \in 1 .. Len(ns)
      BY <1>1, Described
    <2> QED
      BY <2>1
  <1>7. \A q \in 1 .. Width(t) : Spot(o, At(t, q)) \in 1 .. Len(o)
    <2>1. \A z \in DOMAIN ns : Spot(o, z) \in 1 .. Len(o)
      BY SpotOf
    <2> QED
      BY <1>6, <2>1
  <1>8. u.chain \in Seq(1 .. Len(o)) /\ Len(u.chain) = Width(t)
    <2> DEFINE A == 1 .. Len(o)  m == Width(t)  c == u.chain
    <2>1. c \in [1 .. m -> A] /\ m \in Nat
      BY <1>3, <1>6, <1>7
    <2> HIDE DEF A, m, c
    <2>2. c \in Seq(A) /\ Len(c) = m
      BY <2>1, FunctionIsList
    <2> QED
      BY <2>2 DEF A, m, c
  <1>9. DOMAIN o = 1 .. Len(o)
    <2>1. f \in [DOMAIN ns -> Seq(DOMAIN ns)] /\ o = f[r] /\ r \in DOMAIN ns
      BY <1>1 DEF Ordering, Walked, Tree
    <2>2. o \in Seq(DOMAIN ns)
      BY <2>1
    <2> QED
      BY <2>2
  <1>10. Description(o, u)
    <2>1. u.sep \in [Nat -> Int]
      BY <1>1, <1>3 DEF Description
    <2>2. u.hgt \in [1 .. Len(o) -> Nat] /\ u.lo \in [1 .. Len(o) -> Nat] /\ u.hi \in [1 .. Len(o) -> Nat]
      BY <1>3, <1>5
    <2> QED
      BY <1>8, <1>9, <2>1, <2>2 DEF Description
  <1>11. Width(u) = Width(t)
    BY <1>8 DEF Width
  <1>12. \A q \in 1 .. Width(t) : At(u, q) = Spot(o, At(t, q))
    BY <1>3 DEF At
  <1>13. \A s : Sep(u, s) = Sep(t, s)
    BY <1>3 DEF Sep
  <1> QED
    BY <1>4, <1>10, <1>11, <1>12, <1>13

\* The renumbered nodes are the same tree.
LEMMA RenumberedTree ==
  ASSUME NEW ns, NEW r, NEW t, NEW f, NEW o, Ordering(ns, r, t, f, o),
         NEW ms, Renumbered(ns, o, ms)
  PROVE  Tree(ms, 1, Renumber(o, t))
  <1> DEFINE u == Renumber(o, t)  N == Len(o)
  <1>1. Tree(ns, r, t)
    BY DEF Ordering
  <1>2. /\ Len(o) \in Nat /\ Len(o) >= 1 /\ o[1] = r
        /\ \A k \in 1 .. Len(o) : o[k] \in DOMAIN ns
        /\ \A j, k \in 1 .. Len(o) : o[j] = o[k] => j = k
    BY OrderOnce
  <1>3. /\ \A z \in DOMAIN ns : Spot(o, z) \in 1 .. Len(o) /\ o[Spot(o, z)] = z
        /\ \A k \in 1 .. Len(o) : Spot(o, o[k]) = k
    BY SpotOf
  <1>4. u = Renumber(o, t)
    OBVIOUS
  <1> HIDE DEF u
  <1>5. /\ \A k \in 1 .. Len(o) : /\ Hgt(u, k) = Hgt(t, o[k]) /\ Lo(u, k) = Lo(t, o[k])
                                  /\ Hi(u, k) = Hi(t, o[k])
        /\ Width(u) = Width(t) /\ \A q \in 1 .. Width(t) : At(u, q) = Spot(o, At(t, q))
        /\ Description(o, u)
    BY <1>4, RenumberSays
  <1>6. ms \in Seq(Node) /\ Len(ms) = N /\ DOMAIN ms = 1 .. N /\ DOMAIN o = DOMAIN ms
    <2>1. ms \in Seq(Node) /\ Len(ms) = N
      BY DEF Renumbered
    <2>2. u.hgt \in [DOMAIN o -> Nat]
      BY <1>5 DEF Description
    <2>3. o \in Seq(DOMAIN ns)
      <3>1. f \in [DOMAIN ns -> Seq(DOMAIN ns)] /\ o = f[r] /\ r \in DOMAIN ns
        BY DEF Ordering, Walked, Tree
      <3> QED
        BY <3>1
    <2>4. DOMAIN o = 1 .. Len(o)
      BY <2>3
    <2> QED
      BY <2>1, <2>4
  <1>7. ASSUME NEW k \in 1 .. N
        PROVE  /\ o[k] \in DOMAIN ns /\ ms[k].leaf = ns[o[k]].leaf /\ ms[k].records = ns[o[k]].records
               /\ Len(ms[k].children) = Len(ns[o[k]].children)
               /\ \A i \in 1 .. Len(ns[o[k]].children) : ms[k].children[i] = Spot(o, ns[o[k]].children[i])
    BY <1>2 DEF Renumbered
  <1>8. \A k \in 1 .. N : 1 <= Lo(u, k) /\ Lo(u, k) <= Hi(u, k) /\ Hi(u, k) <= Width(u)
    <2>1. \A z \in DOMAIN ns : 1 <= Lo(t, z) /\ Lo(t, z) <= Hi(t, z) /\ Hi(t, z) <= Width(t)
      BY <1>1 DEF Tree
    <2> QED
      BY <1>2, <1>5, <2>1
  <1>9. ASSUME NEW k \in 1 .. N, ns[o[k]].leaf
        PROVE  InChain(ms, u, k)
    <2> DEFINE x == o[k]
    <2>1. x \in DOMAIN ns /\ Hgt(u, k) = Hgt(t, x) /\ Lo(u, k) = Lo(t, x) /\ Hi(u, k) = Hi(t, x) /\ Spot(o, x) = k
      BY <1>2, <1>3, <1>5
    <2>2. /\ ms[k] \in Node /\ Len(ms[k].children) = Len(ns[x].children) /\ ns[x].leaf
      BY <1>6, <1>7, <1>9
    <2> HIDE DEF x
    <2>3. Hgt(t, x) = 0 /\ Hi(t, x) = Lo(t, x) /\ At(t, Lo(t, x)) = x /\ ns[x].children = <<>>
      BY <1>1, <2>1, <2>2 DEF Tree, InChain
    <2>4. Lo(t, x) \in 1 .. Width(t)
      <3>1. Lo(t, x) \in Nat /\ 1 <= Lo(t, x) /\ Lo(t, x) <= Hi(t, x) /\ Hi(t, x) <= Width(t)
        BY <1>1, <2>1, Placed
      <3>2. Width(t) \in Nat
        BY <1>1, Described
      <3> QED
        BY <2>3, <3>1, <3>2
    <2>5. At(u, Lo(u, k)) = k
      BY <1>5, <2>1, <2>3, <2>4
    <2>6. ms[k].children = <<>>
      <3>1. ms[k].children \in Seq(Nat)
        BY <2>2 DEF Node
      <3>2. Len(ms[k].children) = 0
        BY <2>2, <2>3
      <3> DEFINE c == ms[k].children
      <3> HIDE DEF c
      <3>3. c \in Seq(Nat) /\ Len(c) = 0
        BY <3>1, <3>2 DEF c
      <3>4. c = <<>>
        BY <3>3
      <3> QED
        BY <3>4 DEF c
    <2> QED
      BY <2>1, <2>3, <2>5, <2>6 DEF InChain
  <1>10. ASSUME NEW k \in 1 .. N, ~ns[o[k]].leaf
         PROVE  Parent(ms, u, k)
    <2> DEFINE x == o[k]  c == ns[x].children  d == ms[k].children  n == Len(c)
    <2>1. x \in DOMAIN ns /\ Hgt(u, k) = Hgt(t, x) /\ Lo(u, k) = Lo(t, x) /\ Hi(u, k) = Hi(t, x)
      BY <1>2, <1>5
    <2>2. /\ ms[k].records = ns[x].records /\ Len(d) = n
          /\ \A i \in 1 .. n : d[i] = Spot(o, c[i])
      BY <1>7
    <2>3. ~ns[x].leaf
      BY <1>10
    <2> HIDE DEF x
    <2>4. /\ Len(ns[x].records) = n /\ n \in Nat /\ n >= 1 /\ Hgt(t, x) >= 1
          /\ \A i \in 1 .. n : c[i] \in DOMAIN ns /\ Hgt(t, c[i]) = Hgt(t, x) - 1
          /\ Lo(t, c[1]) = Lo(t, x) /\ Hi(t, c[n]) = Hi(t, x)
          /\ \A i \in 1 .. n - 1 : Lo(t, c[i + 1]) = Hi(t, c[i]) + 1
      BY <1>1, <2>1, <2>3, Family
    <2> HIDE DEF c, n
    <2>5. \A i \in 1 .. n : /\ d[i] \in 1 .. N /\ Hgt(u, d[i]) = Hgt(t, c[i])
                            /\ Lo(u, d[i]) = Lo(t, c[i]) /\ Hi(u, d[i]) = Hi(t, c[i])
      <3> TAKE i \in 1 .. n
      <3>1. c[i] \in DOMAIN ns /\ d[i] = Spot(o, c[i])
        BY <2>2, <2>4
      <3>2. d[i] \in 1 .. Len(o) /\ o[d[i]] = c[i]
        BY <1>3, <3>1
      <3> HIDE DEF d
      <3> QED
        BY <1>5, <3>2
    <2>6. 1 \in 1 .. n /\ n \in 1 .. n /\ \A i \in 1 .. n - 1 : i \in 1 .. n /\ i + 1 \in 1 .. n
      BY <2>4
    <2>7. \A i \in 1 .. n - 1 : Lo(u, d[i + 1]) = Hi(u, d[i]) + 1
      BY <2>4, <2>5, <2>6
    <2>8. Lo(u, d[1]) = Lo(u, k) /\ Hi(u, d[n]) = Hi(u, k)
      BY <2>1, <2>4, <2>5, <2>6
    <2>9. \A i \in 1 .. n : d[i] \in 1 .. N /\ Hgt(u, d[i]) = Hgt(u, k) - 1
      BY <2>1, <2>4, <2>5
    <2>10. Len(d) = n /\ Len(ms[k].records) = n /\ n >= 1 /\ Hgt(u, k) >= 1
      BY <2>1, <2>2, <2>4
    <2> HIDE DEF N
    <2> QED
      BY <1>6, <2>7, <2>8, <2>9, <2>10 DEF Parent
  <1>11. \A k \in 1 .. N : IF ms[k].leaf THEN InChain(ms, u, k) ELSE Parent(ms, u, k)
    BY <1>7, <1>9, <1>10
  <1>12. \A q \in 1 .. Width(u) : ms[At(u, q)].leaf /\ Lo(u, At(u, q)) = q
    <2> TAKE q \in 1 .. Width(u)
    <2>1. DOMAIN ns = 1 .. Len(ns) /\ At(t, q) \in 1 .. Len(ns)
      BY <1>1, <1>5, Described
    <2>2. ns[At(t, q)].leaf /\ Lo(t, At(t, q)) = q
      BY <1>1, <1>5 DEF Tree
    <2> DEFINE z == At(t, q)  k == At(u, q)
    <2>3. k = Spot(o, z) /\ z \in DOMAIN ns /\ ns[z].leaf /\ Lo(t, z) = q
      BY <1>5, <2>1, <2>2
    <2> HIDE DEF z, k
    <2>4. k \in 1 .. N /\ o[k] = z
      BY <1>3, <2>3
    <2>5. ms[k].leaf /\ Lo(u, k) = q
      BY <1>5, <1>7, <2>3, <2>4
    <2> QED
      BY <2>5 DEF k
  <1>13. 1 \in 1 .. N /\ Lo(u, 1) = 1 /\ Hi(u, 1) = Width(u)
    BY <1>1, <1>2, <1>5 DEF Tree
  <1>14. \A k \in 1 .. N : Hgt(u, k) <= Hgt(u, 1)
    BY <1>1, <1>2, <1>5 DEF Tree
  <1>15. ASSUME NEW j \in 1 .. N, NEW k \in 1 .. N,
                Hgt(u, j) = Hgt(u, k) /\ Lo(u, j) <= Hi(u, k) /\ Lo(u, k) <= Hi(u, j)
         PROVE  j = k
    <2>1. o[j] = o[k]
      BY <1>1, <1>2, <1>5, <1>15 DEF Tree
    <2> QED
      BY <1>2, <2>1
  <1>16. Description(ms, u)
    BY <1>5, <1>6 DEF Description
  <1> QED
    BY <1>6, <1>8, <1>11, <1>12, <1>13, <1>14, <1>15, <1>16 DEF Tree, u

---------------------------------------------------------------------------
\* What the records of the nodes say holds of the renumbered ones.
LEMMA RenumberedRecords ==
  ASSUME NEW ns, NEW r, NEW t, NEW f, NEW o, Ordering(ns, r, t, f, o),
         NEW ms, Renumbered(ns, o, ms), NEW b, Sound(ns, r, t, b, 0)
  PROVE  /\ Filled(ms, 1) /\ Ordered(ms, Renumber(o, t)) /\ Stored(ms, b, Done(b, 0))
         /\ EdgeBounded(ms, Renumber(o, t), b, 0) /\ OnPath(ms, Renumber(o, t), b, 0)
  <1> DEFINE u == Renumber(o, t)  N == Len(o)
  <1>1. Tree(ns, r, t)
    BY DEF Ordering
  <1>2. /\ Len(o) \in Nat /\ Len(o) >= 1 /\ o[1] = r
        /\ \A k \in 1 .. Len(o) : o[k] \in DOMAIN ns
        /\ \A j, k \in 1 .. Len(o) : o[j] = o[k] => j = k
    BY OrderOnce
  <1>3. /\ \A z \in DOMAIN ns : Spot(o, z) \in 1 .. Len(o) /\ o[Spot(o, z)] = z
        /\ \A k \in 1 .. Len(o) : Spot(o, o[k]) = k
    BY SpotOf
  <1>4. u = Renumber(o, t)
    OBVIOUS
  <1>4a. Tree(ms, 1, u)
    BY RenumberedTree
  <1> HIDE DEF u
  <1>5. /\ \A k \in 1 .. Len(o) : /\ Hgt(u, k) = Hgt(t, o[k]) /\ Lo(u, k) = Lo(t, o[k])
                                  /\ Hi(u, k) = Hi(t, o[k])
        /\ Width(u) = Width(t) /\ \A s : Sep(u, s) = Sep(t, s)
    BY <1>4, RenumberSays
  <1>6. ms \in Seq(Node) /\ DOMAIN ms = 1 .. N /\ 1 \in 1 .. N
    <2>1. ms \in Seq(Node) /\ Len(ms) = N
      BY DEF Renumbered
    <2> QED
      BY <1>2, <2>1
  <1>7. \A k \in 1 .. N :
          /\ o[k] \in DOMAIN ns /\ ms[k].leaf = ns[o[k]].leaf /\ ms[k].records = ns[o[k]].records
          /\ Len(ms[k].children) = Len(ns[o[k]].children)
          /\ \A i \in 1 .. Len(ns[o[k]].children) : ms[k].children[i] = Spot(o, ns[o[k]].children[i])
    BY <1>2 DEF Renumbered
  <1>8. Filled(ms, 1)
    <2>1. Filled(ns, r)
      BY DEF Sound
    <2>2. \A k \in 1 .. N : k # 1 => o[k] # r
      BY <1>2, <1>6
    <2> QED
      BY <1>6, <1>7, <2>1, <2>2 DEF Filled
  <1>9. Ordered(ms, u)
    <2>0. Ordered(ns, t)
      BY DEF Sound
    <2>1. \A k \in 1 .. N : ms[k].leaf => \A i, j \in DOMAIN ms[k].records :
            i < j => ms[k].records[i].val <= ms[k].records[j].val
      BY <1>7, <2>0 DEF Ordered
    <2>2. \A s \in 2 .. Width(u), k \in 1 .. N : ms[k].leaf =>
            \A i \in DOMAIN ms[k].records :
              /\ Lo(u, k) < s => ms[k].records[i].val <= Sep(u, s)
              /\ Lo(u, k) >= s => Sep(u, s) <= ms[k].records[i].val
      BY <1>5, <1>7, <2>0 DEF Ordered
    <2>3. ASSUME NEW k \in 1 .. N, ~ms[k].leaf, NEW i \in DOMAIN ms[k].records,
                 Lo(u, ms[k].children[i]) > 1
          PROVE  ms[k].records[i].val = Sep(u, Lo(u, ms[k].children[i]))
      <3> DEFINE x == o[k]  y == ns[x].children[i]
      <3>1. x \in DOMAIN ns /\ ~ns[x].leaf /\ ms[k].records = ns[x].records
        BY <1>7, <2>3
      <3>2. i \in 1 .. Len(ns[x].children) /\ i \in DOMAIN ns[x].records
        <4> HIDE DEF x
        <4>1. ns[x] \in Node
          BY <1>1, <3>1 DEF Tree
        <4>2. DOMAIN ns[x].records = 1 .. Len(ns[x].records)
          BY <4>1 DEF Node
        <4>3. Len(ns[x].children) = Len(ns[x].records)
          BY <1>1, <3>1, Family
        <4> QED
          BY <2>3, <3>1, <4>2, <4>3
      <3>3. ms[k].children[i] = Spot(o, y)
        BY <1>7, <3>2
      <3>4. y \in DOMAIN ns
        <4> HIDE DEF x
        <4> QED
          BY <1>1, <3>1, <3>2, Family
      <3>5. Lo(u, ms[k].children[i]) = Lo(t, y)
        <4> HIDE DEF y
        <4>1. Spot(o, y) \in 1 .. Len(o) /\ o[Spot(o, y)] = y
          BY <1>3, <3>4
        <4> QED
          BY <1>5, <3>3, <4>1
      <3>6. ns[x].records[i].val = Sep(t, Lo(t, y))
        <4>1. Lo(t, y) > 1
          BY <2>3, <3>5
        <4> HIDE DEF x
        <4> QED
          BY <2>0, <3>1, <3>2, <4>1 DEF Ordered
      <3> QED
        BY <1>5, <3>1, <3>5, <3>6
    <2> QED
      BY <1>6, <2>1, <2>2, <2>3 DEF Ordered
  <1>10. Stored(ms, b, Done(b, 0))
    <2> DEFINE n == Done(b, 0)
    <2>0. Stored(ns, b, n)
      BY DEF Sound
    <2> HIDE DEF n
    <2>1. \A k \in 1 .. N : ms[k].leaf => \A i \in DOMAIN ms[k].records :
            ms[k].records[i].pos \in 1 .. n /\ ms[k].records[i].val = b[ms[k].records[i].pos]
      BY <1>7, <2>0 DEF Stored
    <2>2. ASSUME NEW q \in 1 .. n
          PROVE  \E k \in 1 .. N : ms[k].leaf /\ \E i \in DOMAIN ms[k].records : ms[k].records[i].pos = q
      <3>1. PICK x \in DOMAIN ns : ns[x].leaf /\ \E i \in DOMAIN ns[x].records : ns[x].records[i].pos = q
        BY <2>0 DEF Stored
      <3> DEFINE k == Spot(o, x)
      <3>2. k \in 1 .. N /\ o[k] = x
        BY <1>3
      <3> HIDE DEF k
      <3>3. ms[k].leaf /\ ms[k].records = ns[x].records
        BY <1>7, <3>1, <3>2
      <3> QED
        BY <3>1, <3>2, <3>3
    <2>3. ASSUME NEW x \in 1 .. N, NEW y \in 1 .. N, ms[x].leaf /\ ms[y].leaf,
                 NEW j \in DOMAIN ms[x].records, NEW k \in DOMAIN ms[y].records,
                 ms[x].records[j].pos = ms[y].records[k].pos
          PROVE  x = y /\ j = k
      <3>1. o[x] = o[y] /\ j = k
        <4> DEFINE v == o[x]  w == o[y]
        <4>1. v \in DOMAIN ns /\ w \in DOMAIN ns /\ ns[v].leaf /\ ns[w].leaf
              /\ ms[x].records = ns[v].records /\ ms[y].records = ns[w].records
          BY <1>7, <2>3
        <4> HIDE DEF v, w
        <4>2. v = w /\ j = k
          BY <2>0, <2>3, <4>1 DEF Stored
        <4> QED
          BY <4>2 DEF v, w
      <3> QED
        BY <1>2, <3>1
    <2> QED
      BY <1>6, <2>1, <2>2, <2>3 DEF Stored, n
  <1>11. EdgeBounded(ms, u, b, 0)
    <2>0. EdgeBounded(ns, t, b, 0)
      BY DEF Sound
    <2>1. \A x \in DOMAIN ns : ~ns[x].leaf /\ Lo(t, x) = 1 =>
            Cardinality(Under(b, Len(b), ns[x].records[1].val)) <= Hgt(t, x)
      BY <2>0 DEF EdgeBounded, Passed
    <2>2. \A k \in 1 .. N : ~ms[k].leaf /\ Lo(u, k) = 1 =>
            Cardinality(Under(b, Len(b), ms[k].records[1].val)) <= Hgt(u, k)
      BY <1>5, <1>7, <2>1
    <2> QED
      BY <1>6, <2>2 DEF EdgeBounded, Passed
  <1>12. OnPath(ms, u, b, 0)
    BY DEF OnPath
  <1> QED
    BY <1>8, <1>9, <1>10, <1>11, <1>12 DEF u

\* y is the node to the right of x, as high as x; 0 if x is the last.
RightOf(ns, t, x, y) ==
  IF Hi(t, x) = Width(t) THEN y = 0
  ELSE y \in DOMAIN ns /\ Hgt(t, y) = Hgt(t, x) /\ Lo(t, y) = Hi(t, x) + 1

\* There is one such node and no other.
LEMMA RightOfOne ==
  ASSUME NEW ns, NEW r, NEW t, Tree(ns, r, t), NEW x \in DOMAIN ns
  PROVE  /\ \E y : RightOf(ns, t, x, y)
         /\ \A y, z : RightOf(ns, t, x, y) /\ RightOf(ns, t, x, z) => y = z
  <1>1. /\ Hgt(t, x) \in Nat /\ Lo(t, x) \in Nat /\ Hi(t, x) \in Nat
        /\ 1 <= Lo(t, x) /\ Lo(t, x) <= Hi(t, x) /\ Hi(t, x) <= Width(t) /\ Width(t) \in Nat
    BY Placed, Described
  <1>2. \E y : RightOf(ns, t, x, y)
    <2>1. CASE Hi(t, x) = Width(t)
      BY <2>1 DEF RightOf
    <2>2. CASE Hi(t, x) # Width(t)
      <3> DEFINE p == Hi(t, x) + 1  h == Hgt(t, x)
      <3>1. r \in DOMAIN ns /\ Lo(t, r) = 1 /\ Hi(t, r) = Width(t) /\ h <= Hgt(t, r)
        BY DEF Tree
      <3>2. Hgt(t, r) \in Nat
        BY <3>1, Placed
      <3>3. h \in 0 .. Hgt(t, r)
        BY <1>1, <3>1, <3>2
      <3>4. p \in Lo(t, r) .. Hi(t, r)
        BY <1>1, <2>2, <3>1
      <3> HIDE DEF h, p
      <3>5. PICK w \in DOMAIN ns : Hgt(t, w) = h /\ Lo(t, w) <= p /\ p <= Hi(t, w)
        BY <3>1, <3>3, <3>4, Descent
      <3>6. Lo(t, w) \in Nat /\ Hi(t, w) \in Nat
        BY Placed
      <3>7. ~(Lo(t, w) <= Hi(t, x))
        <4> SUFFICES ASSUME Lo(t, w) <= Hi(t, x)
                     PROVE  FALSE
          OBVIOUS
        <4>1. Lo(t, x) <= Hi(t, w)
          BY <1>1, <3>5, <3>6 DEF p
        <4>2. w = x
          BY <3>5, <4>1 DEF Tree, h
        <4> QED
          BY <1>1, <3>5, <4>2 DEF p
      <3>8. Lo(t, w) = Hi(t, x) + 1
        BY <1>1, <3>5, <3>6, <3>7 DEF p
      <3> QED
        BY <2>2, <3>5, <3>8 DEF RightOf, h
    <2> QED
      BY <2>1, <2>2
  <1>3. ASSUME NEW y, NEW z, RightOf(ns, t, x, y), RightOf(ns, t, x, z)
        PROVE  y = z
    <2>1. CASE Hi(t, x) = Width(t)
      BY <1>3, <2>1 DEF RightOf
    <2>2. CASE Hi(t, x) # Width(t)
      <3>1. /\ y \in DOMAIN ns /\ Hgt(t, y) = Hgt(t, x) /\ Lo(t, y) = Hi(t, x) + 1
            /\ z \in DOMAIN ns /\ Hgt(t, z) = Hgt(t, x) /\ Lo(t, z) = Hi(t, x) + 1
        BY <1>3, <2>2 DEF RightOf
      <3>2. Lo(t, y) \in Nat /\ Hi(t, y) \in Nat /\ Lo(t, y) <= Hi(t, y)
            /\ Lo(t, z) \in Nat /\ Hi(t, z) \in Nat /\ Lo(t, z) <= Hi(t, z)
        BY <3>1, Placed
      <3>3. Hgt(t, y) = Hgt(t, z) /\ Lo(t, y) <= Hi(t, z) /\ Lo(t, z) <= Hi(t, y)
        BY <3>1, <3>2
      <3> QED
        BY <3>1, <3>3 DEF Tree
    <2> QED
      BY <2>1, <2>2
  <1> QED
    BY <1>2, <1>3

---------------------------------------------------------------------------
\* What place_btree_nexts sets for the i-th child of p, where v is right of p.
SetNext(ns, p, i, v) ==
  IF i < Len(ns[p].children) THEN ns[p].children[i + 1] ELSE NextOfLast(ns, v)

\* It is the node to the right of the child.
LEMMA SetNextRight ==
  ASSUME NEW ns, NEW r, NEW t, Tree(ns, r, t), NEW p \in DOMAIN ns, ~ns[p].leaf,
         NEW i \in 1 .. Len(ns[p].children), NEW v, RightOf(ns, t, p, v)
  PROVE  RightOf(ns, t, ns[p].children[i], SetNext(ns, p, i, v))
  <1> DEFINE c == ns[p].children  x == c[i]  n == Len(c)
  <1>1. /\ n \in Nat /\ n >= 1 /\ Hgt(t, p) >= 1
        /\ \A k \in 1 .. n : c[k] \in DOMAIN ns /\ Hgt(t, c[k]) = Hgt(t, p) - 1
        /\ Hi(t, c[n]) = Hi(t, p)
        /\ \A k \in 1 .. n - 1 : Lo(t, c[k + 1]) = Hi(t, c[k]) + 1
    BY Family
  <1>2. CASE i < n
    <2> DEFINE y == c[i + 1]
    <2>1. SetNext(ns, p, i, v) = y
      BY <1>2 DEF SetNext
    <2>2. i + 1 \in 1 .. n /\ i \in 1 .. n - 1 /\ i \in 1 .. n
      BY <1>1, <1>2
    <2>3. y \in DOMAIN ns /\ Hgt(t, y) = Hgt(t, x) /\ Lo(t, y) = Hi(t, x) + 1 /\ x \in DOMAIN ns
      BY <1>1, <2>2
    <2> HIDE DEF y, x
    <2>4. Hi(t, x) # Width(t)
      <3>1. Lo(t, y) <= Hi(t, y) /\ Hi(t, y) <= Width(t) /\ Lo(t, y) \in Nat /\ Hi(t, y) \in Nat
        BY <2>3, Placed
      <3>2. Hi(t, x) \in Nat
        BY <2>3, Placed
      <3>3. Width(t) \in Nat
        BY Described
      <3> QED
        BY <2>3, <3>1, <3>2, <3>3
    <2>5. RightOf(ns, t, x, y)
      BY <2>3, <2>4 DEF RightOf
    <2> QED
      BY <2>1, <2>5 DEF x
  <1>3. CASE ~(i < n)
    <2>1. i = n
      BY <1>1, <1>3
    <2>2. SetNext(ns, p, i, v) = NextOfLast(ns, v)
      BY <1>3 DEF SetNext
    <2>3. x \in DOMAIN ns /\ Hgt(t, x) = Hgt(t, p) - 1 /\ Hi(t, x) = Hi(t, p)
      <3>1. n \in 1 .. n
        BY <1>1
      <3> QED
        BY <1>1, <2>1, <3>1
    <2> HIDE DEF x
    <2>4. CASE Hi(t, p) = Width(t)
      <3>1. v = 0
        BY <2>4 DEF RightOf
      <3>2. NextOfLast(ns, v) = 0
        BY <3>1 DEF NextOfLast
      <3>3. RightOf(ns, t, x, 0)
        BY <2>3, <2>4 DEF RightOf
      <3> QED
        BY <2>2, <3>2, <3>3 DEF x
    <2>5. CASE Hi(t, p) # Width(t)
      <3>1. v \in DOMAIN ns /\ Hgt(t, v) = Hgt(t, p) /\ Lo(t, v) = Hi(t, p) + 1
        BY <2>5 DEF RightOf
      <3>2. v # 0
        <4>1. DOMAIN ns = 1 .. Len(ns)
          BY Described
        <4> QED
          BY <3>1, <4>1
      <3>3. ~ns[v].leaf
        <4>1. ns[v].leaf => Hgt(t, v) = 0
          BY <3>1 DEF Tree, InChain
        <4> QED
          BY <1>1, <3>1, <4>1
      <3> DEFINE d == ns[v].children  y == d[1]
      <3>4. Len(d) \in Nat /\ Len(d) >= 1 /\ Lo(t, d[1]) = Lo(t, v)
            /\ \A k \in 1 .. Len(d) : d[k] \in DOMAIN ns /\ Hgt(t, d[k]) = Hgt(t, v) - 1
        BY <3>1, <3>3, Family
      <3>5. y \in DOMAIN ns /\ Hgt(t, y) = Hgt(t, v) - 1 /\ Lo(t, y) = Lo(t, v)
        <4>1. 1 \in 1 .. Len(d)
          BY <3>4
        <4> QED
          BY <3>4, <4>1
      <3>6. NextOfLast(ns, v) = y
        BY <3>2 DEF NextOfLast
      <3> HIDE DEF y
      <3>7. RightOf(ns, t, x, y)
        BY <2>3, <2>5, <3>1, <3>5 DEF RightOf
      <3> QED
        BY <2>2, <3>6, <3>7 DEF x
    <2> QED
      BY <2>4, <2>5
  <1> QED
    BY <1>2, <1>3

\* What place_btree_nexts does to the nodes, given a function of the nexts it sets.
IsParentOf(ns, y, x) == \E j \in DOMAIN ns[y].children : ns[y].children[j] = x
ParentOf(ns, x) == CHOOSE y \in DOMAIN ns : IsParentOf(ns, y, x)
PlaceOf(ns, x) == CHOOSE j \in DOMAIN ns[ParentOf(ns, x)].children : ns[ParentOf(ns, x)].children[j] = x
Placing(ns, g) ==
  [x \in DOMAIN ns |-> IF x = 1 THEN ns[1].next
                       ELSE SetNext(ns, ParentOf(ns, x), PlaceOf(ns, x), g[ParentOf(ns, x)])]

\* A node but the root is the child of the node taken for its parent.
LEMMA ParentFound ==
  ASSUME NEW ns, NEW t, Tree(ns, 1, t), NEW x \in DOMAIN ns, x # 1
  PROVE  /\ ParentOf(ns, x) \in DOMAIN ns /\ ~ns[ParentOf(ns, x)].leaf
         /\ PlaceOf(ns, x) \in 1 .. Len(ns[ParentOf(ns, x)].children)
         /\ ns[ParentOf(ns, x)].children[PlaceOf(ns, x)] = x
  <1>1. PICK y \in DOMAIN ns : \E i : IsChild(ns, x, y, i) /\ Hgt(t, y) = Hgt(t, x) + 1
    BY ParentExists
  <1>2. PICK i : ~ns[y].leaf /\ i \in 1 .. Len(ns[y].children) /\ ns[y].children[i] = x
    BY <1>1 DEF IsChild
  <1>3. ns \in Seq(Node)
    BY DEF Tree
  <1>4. \A z \in DOMAIN ns : DOMAIN ns[z].children = 1 .. Len(ns[z].children)
    <2> TAKE z \in DOMAIN ns
    <2>1. ns[z] \in Node
      BY <1>3
    <2>2. ns[z].children \in Seq(Nat)
      BY <2>1 DEF Node
    <2> QED
      BY <2>2
  <1>5. IsParentOf(ns, y, x)
    BY <1>2, <1>4 DEF IsParentOf
  <1> DEFINE p == ParentOf(ns, x)
  <1>6. p \in DOMAIN ns /\ IsParentOf(ns, p, x)
    BY <1>5 DEF ParentOf
  <1>7. PlaceOf(ns, x) \in DOMAIN ns[p].children /\ ns[p].children[PlaceOf(ns, x)] = x
    BY <1>6 DEF IsParentOf, PlaceOf
  <1> HIDE DEF p
  <1>8. ~ns[p].leaf
    <2> SUFFICES ASSUME ns[p].leaf
                 PROVE  FALSE
      OBVIOUS
    <2>1. ns[p].children = <<>>
      BY <1>6 DEF Tree, InChain
    <2>2. DOMAIN ns[p].children = {}
      BY <2>1
    <2> QED
      BY <1>7, <2>2
  <1> QED
    BY <1>4, <1>6, <1>7, <1>8 DEF p

\* The nexts that place_btree_nexts sets are the nodes to the right.
LEMMA PlacingRight ==
  ASSUME NEW ns, NEW t, Tree(ns, 1, t), ns[1].next = 0, NEW g, NEW x \in DOMAIN ns,
         x # 1 => RightOf(ns, t, ParentOf(ns, x), g[ParentOf(ns, x)])
  PROVE  RightOf(ns, t, x, Placing(ns, g)[x])
  <1>1. CASE x = 1
    <2>1. Placing(ns, g)[x] = 0
      BY <1>1 DEF Placing
    <2>2. Hi(t, 1) = Width(t)
      BY DEF Tree
    <2> QED
      BY <1>1, <2>1, <2>2 DEF RightOf
  <1>2. CASE x # 1
    <2> DEFINE p == ParentOf(ns, x)  i == PlaceOf(ns, x)  v == g[p]
    <2>1. Placing(ns, g)[x] = SetNext(ns, p, i, v)
      BY <1>2 DEF Placing
    <2>2. /\ p \in DOMAIN ns /\ ~ns[p].leaf /\ i \in 1 .. Len(ns[p].children)
          /\ ns[p].children[i] = x
      BY <1>2, ParentFound
    <2>3. RightOf(ns, t, p, v)
      BY <1>2
    <2> HIDE DEF p, i, v
    <2>4. RightOf(ns, t, ns[p].children[i], SetNext(ns, p, i, v))
      BY <2>2, <2>3, SetNextRight
    <2> QED
      BY <2>1, <2>2, <2>4
  <1> QED
    BY <1>1, <1>2

\* There are such nexts: the nodes to the right.
LEMMA PlacingExists ==
  ASSUME NEW ns, NEW t, Tree(ns, 1, t), ns[1].next = 0
  PROVE  \E g : g = Placing(ns, g)
  <1> DEFINE g == [x \in DOMAIN ns |-> CHOOSE y : RightOf(ns, t, x, y)]
  <1>1. \A x \in DOMAIN ns : RightOf(ns, t, x, g[x])
    <2> TAKE x \in DOMAIN ns
    <2>1. \E y : RightOf(ns, t, x, y)
      BY RightOfOne
    <2> QED
      BY <2>1
  <1>2. g = [x \in DOMAIN ns |-> g[x]]
    OBVIOUS
  <1> HIDE DEF g
  <1>3. \A x \in DOMAIN ns : g[x] = Placing(ns, g)[x]
    <2> TAKE x \in DOMAIN ns
    <2>1. x # 1 => RightOf(ns, t, ParentOf(ns, x), g[ParentOf(ns, x)])
      BY <1>1, ParentFound
    <2> DEFINE v == Placing(ns, g)[x]  w == g[x]
    <2>2. RightOf(ns, t, x, v)
      BY <2>1, PlacingRight
    <2>3. RightOf(ns, t, x, w)
      BY <1>1
    <2> HIDE DEF v, w
    <2>4. v = w
      BY <2>2, <2>3, RightOfOne
    <2> QED
      BY <2>4 DEF v, w
  <1>4. g = Placing(ns, g)
    BY <1>2, <1>3 DEF Placing
  <1> QED
    BY <1>4

---------------------------------------------------------------------------
\* ms are the nodes ns but for their nexts.
Relinked(ns, ms) ==
  /\ ms \in Seq(Node) /\ Len(ms) = Len(ns)
  /\ \A x \in DOMAIN ns : /\ ms[x].leaf = ns[x].leaf /\ ms[x].records = ns[x].records
                          /\ ms[x].children = ns[x].children

\* place_btree_nexts sets every next and nothing else.
LEMMA PlaceLinks ==
  ASSUME NEW ns, NEW t, Tree(ns, 1, t), ns[1].next = 0,
         \A x \in DOMAIN ns : \A i \in 1 .. Len(ns[x].children) : x < ns[x].children[i]
  PROVE  /\ Relinked(ns, PlaceBtreeNexts(ns))
         /\ \A x \in DOMAIN ns : RightOf(ns, t, x, PlaceBtreeNexts(ns)[x].next)
  <1> DEFINE g == CHOOSE h : h = Placing(ns, h)
             ms == [x \in DOMAIN ns |-> [ns[x] EXCEPT !.next = g[x]]]
  <1>1. PlaceBtreeNexts(ns) = ms
    BY DEF PlaceBtreeNexts, Placing, SetNext, ParentOf, PlaceOf, IsParentOf
  <1>2. g = Placing(ns, g)
    <2>1. \E h : h = Placing(ns, h)
      BY PlacingExists
    <2> QED
      BY <2>1
  <1> HIDE DEF g
  <1>3. /\ ns \in Seq(Node) /\ DOMAIN ns = 1 .. Len(ns) /\ Len(ns) \in Nat
        /\ \A x \in DOMAIN ns : x \in Nat
    <2>1. ns \in Seq(Node)
      BY DEF Tree
    <2> QED
      BY <2>1
  <1> DEFINE Good(x) == RightOf(ns, t, x, g[x])
             K == { k \in Nat : k \in DOMAIN ns => Good(k) }
  <1>4. ASSUME NEW k \in Nat, \A l \in Nat : l < k => l \in K
        PROVE  k \in K
    <2> SUFFICES ASSUME k \in DOMAIN ns
                 PROVE  Good(k)
      OBVIOUS
    <2>1. k # 1 => RightOf(ns, t, ParentOf(ns, k), g[ParentOf(ns, k)])
      <3> SUFFICES ASSUME k # 1
                   PROVE  RightOf(ns, t, ParentOf(ns, k), g[ParentOf(ns, k)])
        OBVIOUS
      <3> DEFINE p == ParentOf(ns, k)  i == PlaceOf(ns, k)
      <3>1. p \in DOMAIN ns /\ i \in 1 .. Len(ns[p].children) /\ ns[p].children[i] = k
        BY ParentFound
      <3> HIDE DEF p, i
      <3>2. p \in Nat /\ p < k
        BY <1>3, <3>1
      <3>3. p \in K
        BY <1>4, <3>2
      <3>4. Good(p)
        BY <3>1, <3>3
      <3> QED
        BY <3>4 DEF p
    <2>2. RightOf(ns, t, k, Placing(ns, g)[k])
      BY <2>1, PlacingRight
    <2> DEFINE h == Placing(ns, g)
    <2>3. g = h /\ RightOf(ns, t, k, h[k])
      BY <1>2, <2>2
    <2> HIDE DEF h
    <2> QED
      BY <2>3
  <1>5. Nat \subseteq K
    <2> HIDE DEF K
    <2> QED
      BY <1>4, StrongInduction
  <1> HIDE DEF Good
  <1>6. \A x \in DOMAIN ns : Good(x)
    BY <1>3, <1>5
  <1>7. ASSUME NEW x \in DOMAIN ns
        PROVE  g[x] \in Nat
    <2>1. RightOf(ns, t, x, g[x])
      BY <1>6 DEF Good
    <2> DEFINE v == g[x]
    <2> HIDE DEF v
    <2>2. RightOf(ns, t, x, v)
      BY <2>1 DEF v
    <2>3. v = 0 \/ v \in DOMAIN ns
      BY <2>2 DEF RightOf
    <2>4. v \in Nat
      BY <1>3, <2>3
    <2> QED
      BY <2>4 DEF v
  <1>8. ASSUME NEW x \in DOMAIN ns
        PROVE  /\ ms[x] \in Node /\ ms[x].next = g[x] /\ ms[x].leaf = ns[x].leaf
               /\ ms[x].records = ns[x].records /\ ms[x].children = ns[x].children
    <2> DEFINE n == ns[x]  v == g[x]
    <2>1. n \in Node /\ v \in Nat /\ ms[x] = [n EXCEPT !.next = v]
      BY <1>3, <1>7
    <2> HIDE DEF n, v, ms
    <2>2. /\ ms[x] \in Node /\ ms[x].next = v /\ ms[x].leaf = n.leaf
          /\ ms[x].records = n.records /\ ms[x].children = n.children
      BY <2>1 DEF Node
    <2> QED
      BY <2>2 DEF n, v
  <1>9. ms \in Seq(Node) /\ Len(ms) = Len(ns)
    <2> DEFINE n == Len(ns)
    <2>1. n \in Nat /\ ms \in [1 .. n -> Node]
      BY <1>3, <1>8
    <2> HIDE DEF n, ms
    <2>2. ms \in Seq(Node) /\ Len(ms) = n
      BY <2>1, FunctionIsList
    <2> QED
      BY <2>2 DEF n
  <1> HIDE DEF ms
  <1>10. Relinked(ns, ms)
    BY <1>8, <1>9 DEF Relinked
  <1>11. \A x \in DOMAIN ns : RightOf(ns, t, x, ms[x].next)
    <2> TAKE x \in DOMAIN ns
    <2>1. ms[x].next = g[x] /\ RightOf(ns, t, x, g[x])
      BY <1>6, <1>8 DEF Good
    <2> QED
      BY <2>1
  <1> QED
    BY <1>1, <1>10, <1>11

\* What is written and read again is sound, and has the same records.
LEMMA ReadBack ==
  ASSUME NEW ns, NEW r, NEW t, NEW b, Sound(ns, r, t, b, 0), NEW f, NEW o, Ordering(ns, r, t, f, o),
         NEW images, Written(ns, o, images), images \in Seq(Node)
  PROVE  \E u : Sound(PlaceBtreeNexts(LoadNodes(images)), 1, u, b, 0)
  <1> DEFINE ms == LoadNodes(images)  vs == PlaceBtreeNexts(ms)  u == Renumber(o, t)
  <1>1. Tree(ns, r, t) /\ Linked(ns, t) /\ r \in DOMAIN ns /\ Hi(t, r) = Width(t)
    BY DEF Sound, Tree
  <1>2. Renumbered(ns, o, ms) /\ ms[1].next = 0
    <2>1. Renumbered(ns, o, ms) /\ ms[1].next = ns[r].next
      BY LoadRenumbers
    <2>2. ns[r].next = 0
      BY <1>1 DEF Linked
    <2> QED
      BY <2>1, <2>2
  <1> HIDE DEF ms
  <1>3. Tree(ms, 1, u)
    BY <1>2, RenumberedTree
  <1>4. \A x \in DOMAIN ms : \A i \in 1 .. Len(ms[x].children) : x < ms[x].children[i]
    <2>1. DOMAIN ms = 1 .. Len(o)
      <3>1. ms \in Seq(Node) /\ Len(ms) = Len(o)
        BY <1>2 DEF Renumbered
      <3> QED
        BY <3>1
    <2> QED
      BY <1>2, <2>1 DEF Renumbered
  <1> HIDE DEF u
  <1>5. Relinked(ms, vs) /\ \A x \in DOMAIN ms : RightOf(ms, u, x, vs[x].next)
    BY <1>2, <1>3, <1>4, PlaceLinks
  <1> HIDE DEF vs
  <1>6. DOMAIN vs = DOMAIN ms /\ DOMAIN ms = 1 .. Len(o) /\ vs \in Seq(Node) /\ Len(vs) = Len(o)
    <2>1. ms \in Seq(Node) /\ vs \in Seq(Node) /\ Len(ms) = Len(o) /\ Len(vs) = Len(ms)
      BY <1>2, <1>5 DEF Renumbered, Relinked
    <2> QED
      BY <2>1
  <1>7. Renumbered(ns, o, vs)
    <2>1. \A k \in 1 .. Len(o) : /\ vs[k].leaf = ms[k].leaf /\ vs[k].records = ms[k].records
                                 /\ vs[k].children = ms[k].children
      BY <1>5, <1>6 DEF Relinked
    <2> QED
      BY <1>2, <1>6, <2>1 DEF Renumbered
  <1>8. Tree(vs, 1, u)
    BY <1>7, RenumberedTree DEF u
  <1>9. Linked(vs, u)
    <2>1. \A x \in DOMAIN vs : RightOf(ms, u, x, vs[x].next)
      BY <1>5, <1>6
    <2> QED
      BY <1>6, <2>1 DEF Linked, RightOf
  <1>10. /\ Filled(vs, 1) /\ Ordered(vs, u) /\ Stored(vs, b, Done(b, 0))
         /\ EdgeBounded(vs, u, b, 0) /\ OnPath(vs, u, b, 0)
    BY <1>7, RenumberedRecords DEF u
  <1>11. Sound(vs, 1, u, b, 0)
    BY <1>8, <1>9, <1>10 DEF Sound
  <1> QED
    BY <1>11 DEF vs, ms

---------------------------------------------------------------------------
(* The invariant of the specification.                                     *)

\* The file holds the nodes of a sound tree for the values b, in the order written.
Kept(images, b) ==
  \E ns, r, t, f, o :
    Sound(ns, r, t, b, 0) /\ Ordering(ns, r, t, f, o) /\ Written(ns, o, images) /\ images \in Seq(Node)

\* While there is a tree, what it stands for is a sound tree of the values read so
\* far; the index is built when no value is under way; and the file, once there is
\* one, is the image of a sound tree of the whole column.
IInv ==
  /\ buf \in Seq(Val) /\ built \in BOOLEAN
  /\ root # 0 => Growing(node, root, buf, at)
  /\ root = 0 => node = <<>> /\ built /\ file # <<>>
  /\ built => at = 0
  /\ file # <<>> => built /\ Kept(file, buf)

\* There is but one walk.
LEMMA OneWalk ==
  ASSUME NEW ns, NEW r, NEW t, Tree(ns, r, t), NEW w \in BOOLEAN,
         NEW f, f = Walk(ns, w, f), NEW g, g = Walk(ns, w, g)
  PROVE  \A x \in DOMAIN ns : f[x] = g[x]
  <1> DEFINE H == { h \in Nat : \A x \in DOMAIN ns : Hgt(t, x) = h => f[x] = g[x] }
  <1>1. ASSUME NEW h \in Nat, \A k \in Nat : k < h => k \in H
        PROVE  h \in H
    <2> SUFFICES ASSUME NEW x \in DOMAIN ns, Hgt(t, x) = h
                 PROVE  f[x] = g[x]
      OBVIOUS
    <2>1. CASE ns[x].leaf
      BY <2>1 DEF Walk
    <2>2. CASE ~ns[x].leaf
      <3>1. /\ \A i \in 1 .. Len(ns[x].children) :
                 ns[x].children[i] \in DOMAIN ns /\ Hgt(t, ns[x].children[i]) = h - 1
            /\ h >= 1
        BY <2>2, Family
      <3>2. h - 1 \in H
        BY <1>1, <3>1
      <3>3. DOMAIN ns[x].children = 1 .. Len(ns[x].children)
        <4>1. ns[x] \in Node
          BY DEF Tree
        <4>2. ns[x].children \in Seq(Nat)
          BY <4>1 DEF Node
        <4> QED
          BY <4>2
      <3>4. \A i \in DOMAIN ns[x].children : f[ns[x].children[i]] = g[ns[x].children[i]]
        BY <3>1, <3>2, <3>3
      <3>5. Parts(ns, f, x) = Parts(ns, g, x)
        BY <3>4 DEF Parts
      <3> QED
        BY <2>2, <3>5 DEF Walk
    <2> QED
      BY <2>1, <2>2
  <1>2. Nat \subseteq H
    <2> HIDE DEF H
    <2> QED
      BY <1>1, StrongInduction
  <1>3. \A x \in DOMAIN ns : Hgt(t, x) \in Nat
    BY Placed
  <1> QED
    BY <1>2, <1>3

\* persist_btree_index goes through the nodes in such an order.
LEMMA PreorderOrders ==
  ASSUME NEW t, Tree(node, root, t)
  PROVE  \E f : Ordering(node, root, t, f, Preorder)
  <1> DEFINE Below(g) == [x \in DOMAIN node |->
                            IF node[x].leaf THEN <<x>>
                            ELSE <<x>> \o FlattenSeq([i \in DOMAIN node[x].children |-> g[node[x].children[i]]])]
             h == CHOOSE g : g = Below(g)
  <1>1. \A g : Below(g) = Walk(node, TRUE, g)
    BY DEF Walk, Parts
  <1>2. PICK f \in [DOMAIN node -> Seq(DOMAIN node)] : f = Walk(node, TRUE, f)
    <2> DEFINE w == TRUE
    <2>1. w \in BOOLEAN
      OBVIOUS
    <2> HIDE DEF w
    <2>2. \E f \in [DOMAIN node -> Seq(DOMAIN node)] : f = Walk(node, w, f)
      BY <2>1, WalkExists
    <2> QED
      BY <2>2 DEF w
  <1>3. Preorder = h[root]
    BY DEF Preorder
  <1> HIDE DEF Below
  <1>4. h = Below(h)
    <2>1. f = Below(f)
      BY <1>1, <1>2
    <2> QED
      BY <2>1
  <1> HIDE DEF h
  <1>5. \A x \in DOMAIN node : h[x] = f[x]
    <2> DEFINE w == TRUE
    <2>1. w \in BOOLEAN /\ h = Walk(node, w, h) /\ f = Walk(node, w, f)
      BY <1>1, <1>2, <1>4
    <2> HIDE DEF w
    <2> QED
      BY <2>1, OneWalk
  <1>6. root \in DOMAIN node
    BY DEF Tree
  <1>7. Ordering(node, root, t, f, Preorder)
    BY <1>2, <1>3, <1>5, <1>6 DEF Ordering, Walked
  <1> QED
    BY <1>7

\* shutdown writes the tree.
LEMMA PersistKeeps ==
  ASSUME IInv, PersistBtreeIndex
  PROVE  IInv'
  <1>1. /\ built /\ root # 0 /\ node' = <<>> /\ root' = 0 /\ buf' = buf /\ at' = at /\ built' = built
        /\ file' = [k \in DOMAIN Preorder |-> node[Preorder[k]]]
    BY DEF PersistBtreeIndex
  <1>2. buf \in Seq(Val) /\ at = 0 /\ Growing(node, root, buf, at)
    BY <1>1 DEF IInv
  <1>3. PICK t : Sound(node, root, t, buf, 0)
    BY <1>2 DEF Growing
  <1>4. Tree(node, root, t)
    BY <1>3 DEF Sound
  <1>5. PICK f : Ordering(node, root, t, f, Preorder)
    BY <1>4, PreorderOrders
  <1> DEFINE o == Preorder
  <1> HIDE DEF o
  <1>6. /\ Ordering(node, root, t, f, o)
        /\ file' = [k \in DOMAIN o |-> node[o[k]]]
    BY <1>1, <1>5 DEF o
  <1>7. Len(o) \in Nat /\ Len(o) >= 1 /\ \A k \in 1 .. Len(o) : o[k] \in DOMAIN node
    BY <1>6, OrderOnce
  <1>8. DOMAIN o = 1 .. Len(o)
    <2>1. f \in [DOMAIN node -> Seq(DOMAIN node)] /\ o = f[root] /\ root \in DOMAIN node
      BY <1>6 DEF Ordering, Walked, Tree
    <2>2. o \in Seq(DOMAIN node)
      BY <2>1
    <2> QED
      BY <2>2
  <1> DEFINE im == [k \in 1 .. Len(o) |-> node[o[k]]]
  <1>9. file' = im
    BY <1>6, <1>8
  <1>10. im \in Seq(Node) /\ Len(im) = Len(o)
    <2>1. node \in Seq(Node)
      BY <1>4 DEF Tree
    <2> DEFINE n == Len(o)
    <2>2. n \in Nat /\ im \in [1 .. n -> Node]
      BY <1>7, <2>1
    <2> HIDE DEF n, im
    <2>3. im \in Seq(Node) /\ Len(im) = n
      BY <2>2, FunctionIsList
    <2> QED
      BY <2>3 DEF n
  <1>11. Written(node, o, im)
    BY <1>7, <1>10 DEF Written
  <1>12. im # <<>>
    <2> HIDE DEF im
    <2>1. Len(im) # 0
      BY <1>7, <1>10
    <2> QED
      BY <2>1
  <1> HIDE DEF im
  <1>13. Kept(im, buf)
    BY <1>3, <1>6, <1>10, <1>11 DEF Kept
  <1>14. Kept(file', buf') /\ file' # <<>>
    BY <1>1, <1>9, <1>12, <1>13
  <1>15. built' /\ built' \in BOOLEAN /\ at' = 0 /\ root' = 0 /\ node' = <<>> /\ buf' \in Seq(Val)
    BY <1>1, <1>2 DEF IInv
  <1> QED
    BY <1>14, <1>15 DEF IInv

\* The next server reads it back.
LEMMA LoadSound ==
  ASSUME IInv, LoadBtreeIndex
  PROVE  IInv'
  <1>1. /\ root = 0 /\ node' = PlaceBtreeNexts(LoadNodes(file)) /\ root' = 1
        /\ buf' = buf /\ at' = at /\ built' = built /\ file' = file
    BY DEF LoadBtreeIndex
  <1>2. buf \in Seq(Val) /\ at = 0 /\ file # <<>> /\ Kept(file, buf) /\ built /\ built \in BOOLEAN
    BY <1>1 DEF IInv
  <1>3. PICK ns, r, t, f, o :
          Sound(ns, r, t, buf, 0) /\ Ordering(ns, r, t, f, o) /\ Written(ns, o, file) /\ file \in Seq(Node)
    BY <1>2 DEF Kept
  <1>4. PICK u : Sound(PlaceBtreeNexts(LoadNodes(file)), 1, u, buf, 0)
    BY <1>3, ReadBack
  <1>5. Growing(node', root', buf', at')
    BY <1>1, <1>2, <1>4 DEF Growing
  <1>6. root' # 0 /\ built' /\ at' = 0 /\ Kept(file', buf')
    BY <1>1, <1>2
  <1> QED
    BY <1>1, <1>2, <1>5, <1>6 DEF IInv

\* Every action preserves the invariant.
LEMMA IInvInductive ==
  /\ Init => IInv
  /\ IInv /\ [Next]_vars => IInv'
  <1>1. ASSUME Init
        PROVE  IInv
    <2>1. Growing(node, root, buf, at)
      BY <1>1, StartGrows
    <2>2. root = 1 /\ buf = <<>> /\ built = FALSE /\ file = <<>>
      BY <1>1 DEF Init
    <2>3. buf \in Seq(Val)
      BY <2>2
    <2>4. built \in BOOLEAN /\ ~built
      BY <2>2
    <2>5. root # 0 /\ ~(file # <<>>)
      BY <2>2
    <2> QED
      BY <2>1, <2>3, <2>4, <2>5 DEF IInv
  <1>2. ASSUME IInv, [Next]_vars
        PROVE  IInv'
    <2>1. /\ buf \in Seq(Val) /\ built \in BOOLEAN
          /\ root # 0 => Growing(node, root, buf, at)
          /\ root = 0 => node = <<>> /\ built /\ file # <<>>
          /\ built => at = 0
          /\ file # <<>> => built /\ Kept(file, buf)
      BY <1>2 DEF IInv
    <2>2. ASSUME NEW val \in Val, BtInsert(val)
          PROVE  IInv'
      <3>1. ~built /\ built' = built /\ file' = file
        BY <2>2 DEF BtInsert
      <3>2. Growing(node, root, buf, at)
        BY <2>1, <3>1
      <3>3. Growing(node', root', buf', at')
        BY <2>2, <3>2, InsertGrows DEF Arriving
      <3>4. root' # 0 /\ buf' \in Seq(Val)
        BY <3>3, GrowingNodes
      <3> QED
        BY <2>1, <3>1, <3>3, <3>4 DEF IInv
    <2>3. ASSUME BtInsertIntoLeaf
          PROVE  IInv'
      <3>1. at # 0 /\ built' = built /\ file' = file
        BY <2>3 DEF BtInsertIntoLeaf
      <3>2. ~built /\ Growing(node, root, buf, at)
        BY <2>1, <3>1
      <3>3. Growing(node', root', buf', at')
        BY <2>3, <3>2, LeafGrows
      <3>4. root' # 0 /\ buf' \in Seq(Val)
        BY <3>3, GrowingNodes
      <3> QED
        BY <2>1, <3>1, <3>2, <3>3, <3>4 DEF IInv
    <2>4. ASSUME BtInsertIntoInner
          PROVE  IInv'
      <3>1. at # 0 /\ built' = built /\ file' = file
        BY <2>4 DEF BtInsertIntoInner
      <3>2. ~built /\ Growing(node, root, buf, at)
        BY <2>1, <3>1
      <3>3. Growing(node', root', buf', at')
        BY <2>4, <3>2, InnerGrows DEF Arriving
      <3>4. root' # 0 /\ buf' \in Seq(Val)
        BY <3>3, GrowingNodes
      <3> QED
        BY <2>1, <3>1, <3>2, <3>3, <3>4 DEF IInv
    <2>5. ASSUME CreateBtreeIndex
          PROVE  IInv'
      <3>1. /\ ~built /\ at = 0 /\ built' = TRUE
            /\ node' = node /\ root' = root /\ buf' = buf /\ at' = at /\ file' = file
        BY <2>5 DEF CreateBtreeIndex
      <3> QED
        BY <2>1, <3>1 DEF IInv
    <2>6. ASSUME PersistBtreeIndex
          PROVE  IInv'
      BY <1>2, <2>6, PersistKeeps
    <2>7. ASSUME LoadBtreeIndex
          PROVE  IInv'
      BY <1>2, <2>7, LoadSound
    <2>8. CASE UNCHANGED vars
      BY <2>1, <2>8 DEF IInv, vars
    <2> QED
      BY <1>2, <2>2, <2>3, <2>4, <2>5, <2>6, <2>7, <2>8 DEF Next
  <1> QED
    BY <1>1, <1>2

\* The invariant holds of every behaviour.
THEOREM Invariant == Spec => []IInv
  <1>1. Init => IInv
    BY IInvInductive
  <1>2. IInv /\ [Next]_vars => IInv'
    BY IInvInductive
  <1> QED
    BY <1>1, <1>2, PTL DEF Spec

---------------------------------------------------------------------------
(* What the invariant says of the tree in memory.                          *)

\* The tree is sound while a server runs.
LEMMA SoundTree ==
  ASSUME IInv, root # 0
  PROVE  \E t : Sound(node, root, t, buf, at) /\ Tree(node, root, t)
  <1>1. PICK t : Sound(node, root, t, buf, at)
    BY DEF IInv, Growing
  <1>2. Tree(node, root, t)
    BY <1>1 DEF Sound
  <1> QED
    BY <1>1, <1>2

\* The types of its nodes.
LEMMA SoundTypes ==
  ASSUME NEW ns, NEW r, NEW t, NEW b, NEW a, Sound(ns, r, t, b, a), NEW x \in DOMAIN ns
  PROVE  /\ ns[x].leaf \in BOOLEAN /\ ns[x].next \in 0 .. Len(ns) /\ ns[x].next \in Nat
         /\ Len(ns[x].records) <= NodeSize
         /\ ns[x].leaf \/ Len(ns[x].children) = Len(ns[x].records)
  <1>1. Tree(ns, r, t) /\ Linked(ns, t) /\ Filled(ns, r)
    BY DEF Sound
  <1>2. DOMAIN ns = 1 .. Len(ns) /\ Len(ns) \in Nat
    BY <1>1, Described
  <1>3. ns[x] \in Node
    BY <1>1 DEF Tree
  <1>4. ns[x].leaf \in BOOLEAN /\ ns[x].next \in Nat
    BY <1>3 DEF Node
  <1>5. ns[x].next \in 0 .. Len(ns)
    <2>1. ns[x].next = 0 \/ ns[x].next \in DOMAIN ns
      BY <1>1 DEF Linked
    <2> QED
      BY <1>2, <2>1
  <1>6. Len(ns[x].records) <= NodeSize
    BY <1>1 DEF Filled
  <1>7. ~ns[x].leaf => Len(ns[x].children) = Len(ns[x].records)
    BY <1>1, Family
  <1> QED
    BY <1>4, <1>5, <1>6, <1>7

\* The images in the file are nodes with these types, too.
LEMMA KeptTypes ==
  ASSUME NEW b, NEW images, Kept(images, b), NEW k \in DOMAIN images
  PROVE  /\ images[k].leaf \in BOOLEAN /\ images[k].next \in Nat
         /\ Len(images[k].records) <= NodeSize
         /\ images[k].leaf \/ Len(images[k].children) = Len(images[k].records)
  <1>1. PICK ns, r, t, f, o :
          Sound(ns, r, t, b, 0) /\ Ordering(ns, r, t, f, o) /\ Written(ns, o, images) /\ images \in Seq(Node)
    BY DEF Kept
  <1> DEFINE x == o[k]
  <1>2. images[k] = ns[x] /\ x \in DOMAIN ns
    <2>1. k \in 1 .. Len(images)
      BY <1>1
    <2>2. k \in 1 .. Len(o)
      BY <1>1, <2>1 DEF Written
    <2> QED
      BY <1>1, <2>2, OrderOnce DEF Written
  <1> HIDE DEF x
  <1>3. /\ ns[x].leaf \in BOOLEAN /\ ns[x].next \in Nat /\ Len(ns[x].records) <= NodeSize
        /\ ns[x].leaf \/ Len(ns[x].children) = Len(ns[x].records)
    BY <1>1, <1>2, SoundTypes
  <1> QED
    BY <1>2, <1>3

\* The type invariant.
LEMMA InvariantTypes ==
  ASSUME IInv
  PROVE  TypeOK
  <1>1. /\ buf \in Seq(Val) /\ built \in BOOLEAN
        /\ root = 0 => node = <<>> /\ at = 0
        /\ file = <<>> \/ Kept(file, buf)
    BY DEF IInv
  <1>2. ASSUME root # 0
        PROVE  /\ root \in 0 .. Len(node) /\ at \in 0 .. Len(node) /\ (at # 0 => ~BtIsFull(node[at]))
               /\ \A x \in DOMAIN node :
                    /\ node[x].leaf \in BOOLEAN /\ node[x].next \in 0 .. Len(node) /\ node[x].next \in Nat
                    /\ Len(node[x].records) <= NodeSize
                    /\ node[x].leaf \/ Len(node[x].children) = Len(node[x].records)
    <2>1. Growing(node, root, buf, at)
      BY <1>2 DEF IInv
    <2>2. /\ Len(node) \in Nat /\ DOMAIN node = 1 .. Len(node) /\ root \in DOMAIN node
      BY <2>1, GrowingNodes
    <2>3. at # 0 => at \in DOMAIN node /\ ~BtIsFull(node[at])
      BY <2>1 DEF Growing
    <2>4. PICK t : Sound(node, root, t, buf, at)
      BY <2>1 DEF Growing
    <2>5. \A x \in DOMAIN node :
            /\ node[x].leaf \in BOOLEAN /\ node[x].next \in 0 .. Len(node) /\ node[x].next \in Nat
            /\ Len(node[x].records) <= NodeSize
            /\ node[x].leaf \/ Len(node[x].children) = Len(node[x].records)
      BY <2>4, SoundTypes
    <2> QED
      BY <2>2, <2>3, <2>5
  <1>3. /\ root \in 0 .. Len(node) /\ at \in 0 .. Len(node) /\ (at # 0 => ~BtIsFull(node[at]))
        /\ \A x \in DOMAIN node :
             /\ node[x].leaf \in BOOLEAN /\ node[x].next \in 0 .. Len(node) /\ node[x].next \in Nat
             /\ Len(node[x].records) <= NodeSize
             /\ node[x].leaf \/ Len(node[x].children) = Len(node[x].records)
    <2>1. CASE root = 0
      <3>1. DOMAIN node = {} /\ Len(node) = 0
        BY <1>1, <2>1
      <3> QED
        BY <1>1, <2>1, <3>1
    <2>2. CASE root # 0
      BY <1>2, <2>2
    <2> QED
      BY <2>1, <2>2
  <1>4. \A k \in DOMAIN file :
          /\ file[k].leaf \in BOOLEAN /\ file[k].next \in Nat
          /\ Len(file[k].records) <= NodeSize
          /\ file[k].leaf \/ Len(file[k].children) = Len(file[k].records)
    <2>1. CASE file = <<>>
      BY <2>1
    <2>2. CASE Kept(file, buf)
      BY <2>2, KeptTypes
    <2> QED
      BY <1>1, <2>1, <2>2
  <1>5. \A n \in Range(node) : n.next \in 0 .. Len(node)
    BY <1>3 DEF Range
  <1>6. \A n \in Range(node) \cup Range(file) :
          /\ n.leaf \in BOOLEAN /\ n.next \in Nat
          /\ Len(n.records) <= NodeSize
          /\ n.leaf \/ Len(n.children) = Len(n.records)
    BY <1>3, <1>4 DEF Range
  <1>7. root \in 0 .. Len(node) /\ at \in 0 .. Len(node) /\ (at # 0 => ~BtIsFull(node[at]))
    BY <1>3
  <1>8. buf \in Seq(Val) /\ built \in BOOLEAN
    BY <1>1
  <1> QED
    BY <1>5, <1>6, <1>7, <1>8 DEF TypeOK

\* TypeOK: types hold of every behaviour, no node overflows, and every insert finds room.
THEOREM TypeCorrect == Spec => []TypeOK
  <1>1. IInv => TypeOK
    BY InvariantTypes
  <1> QED
    BY <1>1, Invariant, PTL

\* The leaves below a node, from left to right, are those in the chain from its first
\* to its last.
LEMMA LeavesAre ==
  ASSUME NEW t, Tree(node, root, t), NEW x \in DOMAIN node
  PROVE  /\ Len(Leaves(x)) = Hi(t, x) - Lo(t, x) + 1 /\ DOMAIN Leaves(x) = 1 .. Len(Leaves(x))
         /\ \A j \in 1 .. Len(Leaves(x)) : Leaves(x)[j] = At(t, Lo(t, x) + j - 1)
  <1> DEFINE Below(g) == [y \in DOMAIN node |->
                            IF node[y].leaf THEN <<y>>
                            ELSE FlattenSeq([i \in DOMAIN node[y].children |-> g[node[y].children[i]]])]
             h == CHOOSE g : g = Below(g)
             w == FALSE
  <1>1. w \in BOOLEAN /\ \A g : Below(g) = Walk(node, w, g)
    BY DEF Walk, Parts
  <1> HIDE DEF w
  <1>2. PICK f \in [DOMAIN node -> Seq(DOMAIN node)] : f = Walk(node, w, f)
    BY <1>1, WalkExists
  <1>3. Leaves(x) = h[x]
    BY DEF Leaves
  <1> HIDE DEF Below
  <1>4. h = Below(h)
    <2>1. f = Below(f)
      BY <1>1, <1>2
    <2> QED
      BY <2>1
  <1> HIDE DEF h
  <1>5. h[x] = f[x]
    <2>1. h = Walk(node, w, h)
      BY <1>1, <1>4
    <2> QED
      BY <1>1, <1>2, <2>1, OneWalk
  <1>6. f[x] \in Seq(DOMAIN node)
    BY <1>2
  <1>7. DOMAIN f[x] = 1 .. Len(f[x])
    BY <1>6
  <1>8. LeafWalked(node, f)
    BY <1>2 DEF LeafWalked, w
  <1>9. \A z \in DOMAIN node : /\ Len(f[z]) = Hi(t, z) - Lo(t, z) + 1
                               /\ \A j \in 1 .. Len(f[z]) : f[z][j] = At(t, Lo(t, z) + j - 1)
    BY <1>8, LeavesWalk
  <1> QED
    BY <1>3, <1>5, <1>7, <1>9

\* y is a leaf below x.
LeafBelow(t, x, y) == y \in DOMAIN node /\ node[y].leaf /\ Lo(t, x) <= Lo(t, y) /\ Lo(t, y) <= Hi(t, x)

\* These are the leaves listed.
LEMMA LeavesBelow ==
  ASSUME NEW t, Tree(node, root, t), NEW x \in DOMAIN node
  PROVE  \A y : y \in Range(Leaves(x)) <=> LeafBelow(t, x, y)
  <1>1. /\ Len(Leaves(x)) = Hi(t, x) - Lo(t, x) + 1 /\ DOMAIN Leaves(x) = 1 .. Len(Leaves(x))
        /\ \A j \in 1 .. Len(Leaves(x)) : Leaves(x)[j] = At(t, Lo(t, x) + j - 1)
    BY LeavesAre
  <1>2. /\ Lo(t, x) \in Nat /\ Hi(t, x) \in Nat /\ 1 <= Lo(t, x) /\ Lo(t, x) <= Hi(t, x)
        /\ Hi(t, x) <= Width(t) /\ Width(t) \in Nat
    BY Placed, Described
  <1> DEFINE l == Leaves(x)  a == Lo(t, x)  z == Hi(t, x)
  <1>3. Len(l) = z - a + 1 /\ DOMAIN l = 1 .. Len(l) /\ \A j \in 1 .. Len(l) : l[j] = At(t, a + j - 1)
    BY <1>1
  <1>4. a \in Nat /\ z \in Nat /\ 1 <= a /\ a <= z /\ z <= Width(t) /\ Width(t) \in Nat
    BY <1>2
  <1> HIDE DEF l, a, z
  <1>5. ASSUME NEW j \in DOMAIN l
        PROVE  LeafBelow(t, x, l[j])
    <2> DEFINE q == a + j - 1
    <2>1. q \in 1 .. Width(t) /\ a <= q /\ q <= z
      <3> DEFINE w == Width(t)  n == Len(l)
      <3>1. w \in Nat /\ n = z - a + 1 /\ j \in 1 .. n
        BY <1>3, <1>4
      <3>2. 1 <= a /\ a <= z /\ z <= w /\ a \in Nat /\ z \in Nat
        BY <1>4
      <3> HIDE DEF w, n
      <3>3. q \in 1 .. w /\ a <= q /\ q <= z
        BY <3>1, <3>2
      <3> QED
        BY <3>3 DEF w
    <2>2. l[j] = At(t, q)
      BY <1>3
    <2> HIDE DEF q
    <2>3. node[At(t, q)].leaf /\ Lo(t, At(t, q)) = q
      BY <2>1 DEF Tree
    <2>4. At(t, q) \in DOMAIN node
      <3>1. DOMAIN node = 1 .. Len(node) /\ At(t, q) \in 1 .. Len(node)
        BY <2>1, Described
      <3> QED
        BY <3>1
    <2> QED
      BY <2>1, <2>2, <2>3, <2>4 DEF LeafBelow, a, z
  <1>6. ASSUME NEW y, LeafBelow(t, x, y)
        PROVE  y \in Range(l)
    <2>1. y \in DOMAIN node /\ At(t, Lo(t, y)) = y /\ a <= Lo(t, y) /\ Lo(t, y) <= z
      BY <1>6 DEF LeafBelow, Tree, InChain, a, z
    <2>2. Lo(t, y) \in Nat
      BY <2>1, Placed
    <2> DEFINE j == Lo(t, y) - a + 1
    <2>3. j \in 1 .. Len(l) /\ a + j - 1 = Lo(t, y)
      <3> DEFINE n == Len(l)  q == Lo(t, y)
      <3>1. n = z - a + 1 /\ q \in Nat /\ a <= q /\ q <= z /\ a \in Nat /\ z \in Nat /\ j = q - a + 1
        BY <1>3, <1>4, <2>1, <2>2
      <3> HIDE DEF n, q, j
      <3>2. j \in 1 .. n /\ a + j - 1 = q
        BY <3>1
      <3> QED
        BY <3>2 DEF n, q
    <2>4. l[j] = y
      BY <1>3, <2>1, <2>3
    <2> QED
      BY <1>3, <2>3, <2>4 DEF Range
  <1>7. \A y \in Range(l) : LeafBelow(t, x, y)
    BY <1>5 DEF Range
  <1> QED
    BY <1>6, <1>7 DEF l

\* The records below a node are those of the leaves below it.
LEMMA RecordsAre ==
  ASSUME NEW t, Tree(node, root, t), NEW x \in DOMAIN node
  PROVE  \A e : e \in RecordsUnder(x) <=>
           \E y : LeafBelow(t, x, y) /\ \E k \in DOMAIN node[y].records : e = node[y].records[k]
  <1>1. \A y : y \in Range(Leaves(x)) <=> LeafBelow(t, x, y)
    BY LeavesBelow
  <1> DEFINE L == Range(Leaves(x))
             R(y) == Range(node[y].records)
  <1>2. RecordsUnder(x) = UNION { R(y) : y \in L }
    BY DEF RecordsUnder
  <1>3. \A y, e : e \in R(y) <=> \E k \in DOMAIN node[y].records : e = node[y].records[k]
    BY DEF Range
  <1>4. \A y : y \in L <=> LeafBelow(t, x, y)
    BY <1>1
  <1> HIDE DEF L, R
  <1>5. \A e : e \in UNION { R(y) : y \in L } <=> \E y \in L : e \in R(y)
    OBVIOUS
  <1> QED
    BY <1>2, <1>3, <1>4, <1>5

---------------------------------------------------------------------------
\* Between the records of a node are its children's.
LEMMA InvariantSearches ==
  ASSUME IInv
  PROVE  SearchTree
  <1>1. CASE root = 0
    <2>1. DOMAIN node = {}
      BY <1>1 DEF IInv
    <2> QED
      BY <2>1 DEF SearchTree
  <1>2. CASE root # 0
    <2>1. PICK t : Sound(node, root, t, buf, at) /\ Tree(node, root, t)
      BY <1>2, SoundTree
    <2>2. Ordered(node, t) /\ node \in Seq(Node)
      BY <2>1 DEF Sound, Tree
    <2>3. \A x \in DOMAIN node : node[x].leaf => \A i, j \in DOMAIN node[x].records :
            i < j => node[x].records[i].val <= node[x].records[j].val
      BY <2>2 DEF Ordered
    <2>4. ASSUME NEW x \in DOMAIN node, NEW j \in DOMAIN node[x].children,
                 NEW e \in RecordsUnder(node[x].children[j]), NEW i \in DOMAIN node[x].records
          PROVE  /\ 1 < i /\ i <= j => node[x].records[i].val <= e.val
                 /\ j < i => e.val <= node[x].records[i].val
      <3> DEFINE c == node[x].children  n == Len(c)
      <3>1. ~node[x].leaf
        <4> SUFFICES ASSUME node[x].leaf
                     PROVE  FALSE
          OBVIOUS
        <4>1. c = <<>>
          BY <2>1 DEF Tree, InChain
        <4>2. DOMAIN c = {}
          BY <4>1
        <4> QED
          BY <4>2
      <3>2. n \in Nat /\ Len(node[x].records) = n /\ \A k \in 1 .. n : c[k] \in DOMAIN node
        BY <2>1, <3>1, Family
      <3>3. /\ \A k, l \in 1 .. n : k < l => Hi(t, c[k]) < Lo(t, c[l])
        BY <2>1, <3>1, ChildOrder
      <3>4. j \in 1 .. n /\ i \in 1 .. n
        <4>1. node[x] \in Node
          BY <2>2
        <4>2. DOMAIN node[x].children = 1 .. Len(node[x].children) /\ DOMAIN node[x].records = 1 .. Len(node[x].records)
          BY <4>1 DEF Node
        <4> QED
          BY <3>2, <4>2
      <3>5. c[j] \in DOMAIN node /\ c[i] \in DOMAIN node
        BY <3>2, <3>4
      <3> DEFINE y == c[j]  z == c[i]
      <3>6. PICK l : LeafBelow(t, y, l) /\ \E k \in DOMAIN node[l].records : e = node[l].records[k]
        <4>1. e \in RecordsUnder(y)
          OBVIOUS
        <4>2. y \in DOMAIN node
          BY <3>5
        <4> HIDE DEF y
        <4> QED
          BY <2>1, <4>1, <4>2, RecordsAre
      <3>7. l \in DOMAIN node /\ node[l].leaf /\ Lo(t, y) <= Lo(t, l) /\ Lo(t, l) <= Hi(t, y)
        BY <3>6 DEF LeafBelow
      <3>8. /\ Lo(t, y) \in Nat /\ Hi(t, y) \in Nat /\ Lo(t, y) <= Hi(t, y) /\ 1 <= Lo(t, y)
            /\ Lo(t, z) \in Nat /\ Hi(t, z) \in Nat /\ 1 <= Lo(t, z) /\ Lo(t, z) <= Hi(t, z) /\ Hi(t, z) <= Width(t)
            /\ Lo(t, l) \in Nat
        <4>1. y \in DOMAIN node /\ z \in DOMAIN node
          BY <3>5
        <4> HIDE DEF y, z
        <4> QED
          BY <2>1, <3>7, <4>1, Placed
      <3>9. Width(t) \in Nat
        BY <2>1, Described
      <3> DEFINE s == Lo(t, z)
      <3>10. s > 1 => /\ node[x].records[i].val = Sep(t, s)
                      /\ s \in 2 .. Width(t)
                      /\ Lo(t, l) < s => e.val <= Sep(t, s)
                      /\ Lo(t, l) >= s => Sep(t, s) <= e.val
        <4> SUFFICES ASSUME s > 1
                     PROVE  /\ node[x].records[i].val = Sep(t, s)
                            /\ s \in 2 .. Width(t)
                            /\ Lo(t, l) < s => e.val <= Sep(t, s)
                            /\ Lo(t, l) >= s => Sep(t, s) <= e.val
          OBVIOUS
        <4>1. node[x].records[i].val = Sep(t, s)
          BY <2>2, <3>1 DEF Ordered
        <4>2. s \in 2 .. Width(t)
          BY <3>8, <3>9
        <4> HIDE DEF s
        <4>3. PICK k \in DOMAIN node[l].records : e = node[l].records[k]
          BY <3>6
        <4>4. /\ Lo(t, l) < s => node[l].records[k].val <= Sep(t, s)
              /\ Lo(t, l) >= s => Sep(t, s) <= node[l].records[k].val
          BY <2>2, <3>7, <4>2 DEF Ordered
        <4> QED
          BY <4>1, <4>2, <4>3, <4>4
      <3>11. ASSUME 1 < i /\ i <= j
             PROVE  node[x].records[i].val <= e.val
        <4>1. s > 1
          <5>1. 1 \in 1 .. n /\ Hi(t, c[1]) < Lo(t, z) /\ c[1] \in DOMAIN node
            BY <3>2, <3>3, <3>4, <3>11
          <5>2. Hi(t, c[1]) \in Nat /\ 1 <= Hi(t, c[1])
            <6> DEFINE v == c[1]
            <6>1. v \in DOMAIN node
              BY <5>1
            <6> HIDE DEF v
            <6>2. Hi(t, v) \in Nat /\ Lo(t, v) \in Nat /\ 1 <= Lo(t, v) /\ Lo(t, v) <= Hi(t, v)
              BY <2>1, <6>1, Placed
            <6>3. 1 <= Hi(t, v)
              BY <6>2
            <6> QED
              BY <6>2, <6>3 DEF v
          <5> QED
            BY <3>8, <5>1, <5>2
        <4>2. Lo(t, l) >= s
          <5>1. CASE i = j
            BY <3>7, <3>8, <5>1
          <5>2. CASE i # j
            <6>1. Hi(t, z) < Lo(t, y)
              <7>1. i < j
                BY <3>2, <3>4, <3>11, <5>2
              <7> QED
                BY <3>3, <3>4, <7>1
            <6> QED
              BY <3>7, <3>8, <6>1
          <5> QED
            BY <5>1, <5>2
        <4> HIDE DEF s
        <4> QED
          BY <3>10, <4>1, <4>2
      <3>12. ASSUME j < i
             PROVE  e.val <= node[x].records[i].val
        <4>1. Hi(t, y) < s
          BY <3>3, <3>4, <3>12
        <4>2. s > 1 /\ Lo(t, l) < s
          BY <3>7, <3>8, <4>1
        <4> HIDE DEF s
        <4> QED
          BY <3>10, <4>2
      <3> QED
        BY <3>11, <3>12
    <2> QED
      BY <2>3, <2>4 DEF SearchTree
  <1> QED
    BY <1>1, <1>2

\* SearchTree: however inserts split the nodes, and after any restart, the records of a
\* node separate those below its children.
THEOREM SearchTreeHolds == Spec => []SearchTree
  <1>1. IInv => SearchTree
    BY InvariantSearches
  <1> QED
    BY <1>1, Invariant, PTL

\* The leaves are equally deep, the nodes half full.
LEMMA InvariantBalances ==
  ASSUME IInv
  PROVE  Balanced
  <1>1. CASE root = 0
    <2>1. DOMAIN node = {}
      BY <1>1 DEF IInv
    <2> QED
      BY <2>1 DEF Balanced
  <1>2. CASE root # 0
    <2>1. PICK t : Sound(node, root, t, buf, at) /\ Tree(node, root, t)
      BY <1>2, SoundTree
    <2>2. Filled(node, root) /\ node \in Seq(Node)
      BY <2>1 DEF Sound, Tree
    <2> DEFINE Depth(d) == [x \in DOMAIN node |-> IF node[x].leaf THEN 0 ELSE d[node[x].children[1]] + 1]
               depth == CHOOSE d : d = Depth(d)
               e == [x \in DOMAIN node |-> Hgt(t, x)]
    <2>3. \A x \in DOMAIN node :
            /\ Hgt(t, x) \in Nat
            /\ node[x].leaf => Hgt(t, x) = 0 /\ DOMAIN node[x].children = {}
            /\ ~node[x].leaf => /\ node[x].children[1] \in DOMAIN node
                                /\ Hgt(t, x) = Hgt(t, node[x].children[1]) + 1
      <3> TAKE x \in DOMAIN node
      <3>1. Hgt(t, x) \in Nat
        BY <2>1, Placed
      <3>2. node[x].leaf => Hgt(t, x) = 0 /\ node[x].children = <<>>
        BY <2>1 DEF Tree, InChain
      <3>3. ASSUME ~node[x].leaf
            PROVE  /\ node[x].children[1] \in DOMAIN node
                   /\ Hgt(t, x) = Hgt(t, node[x].children[1]) + 1
        <4>1. /\ Len(node[x].children) >= 1 /\ Len(node[x].children) \in Nat
              /\ \A i \in 1 .. Len(node[x].children) :
                   node[x].children[i] \in DOMAIN node /\ Hgt(t, node[x].children[i]) = Hgt(t, x) - 1
          BY <2>1, <3>3, Family
        <4>2. 1 \in 1 .. Len(node[x].children)
          BY <4>1
        <4>3. node[x].children[1] \in DOMAIN node /\ Hgt(t, node[x].children[1]) = Hgt(t, x) - 1
          BY <4>1, <4>2
        <4> QED
          BY <3>1, <4>3
      <3> QED
        BY <3>1, <3>2, <3>3
    <2>4. e = Depth(e)
      BY <2>3
    <2>5. depth = Depth(depth)
      <3> HIDE DEF Depth, e
      <3> QED
        BY <2>4
    <2> HIDE DEF depth
    <2> DEFINE H == { h \in Nat : \A x \in DOMAIN node : Hgt(t, x) = h => depth[x] = h }
    <2>6. 0 \in H
      <3> SUFFICES ASSUME NEW x \in DOMAIN node, Hgt(t, x) = 0
                   PROVE  depth[x] = 0
        OBVIOUS
      <3>1. node[x].leaf
        <4> SUFFICES ASSUME ~node[x].leaf
                     PROVE  FALSE
          OBVIOUS
        <4>1. Hgt(t, x) >= 1
          BY <2>1, Family
        <4> QED
          BY <4>1
      <3> QED
        BY <2>5, <3>1
    <2>7. ASSUME NEW h \in Nat, h \in H
          PROVE  h + 1 \in H
      <3> SUFFICES ASSUME NEW x \in DOMAIN node, Hgt(t, x) = h + 1
                   PROVE  depth[x] = h + 1
        OBVIOUS
      <3>1. ~node[x].leaf
        BY <2>3
      <3>2. node[x].children[1] \in DOMAIN node /\ Hgt(t, node[x].children[1]) = h
        BY <2>3, <3>1
      <3>3. depth[node[x].children[1]] = h
        BY <2>7, <3>2
      <3> QED
        BY <2>5, <3>1, <3>3
    <2>8. Nat \subseteq H
      <3> HIDE DEF H
      <3> QED
        BY <2>6, <2>7, SetInduction
    <2>9. \A x \in DOMAIN node : depth[x] = Hgt(t, x)
      BY <2>3, <2>8
    <2>10. \A x \in DOMAIN node : \A i \in DOMAIN node[x].children :
             depth[node[x].children[i]] = depth[node[x].children[1]]
      <3> TAKE x \in DOMAIN node
      <3> TAKE i \in DOMAIN node[x].children
      <3>1. ~node[x].leaf
        BY <2>3
      <3>2. /\ \A k \in 1 .. Len(node[x].children) :
                 node[x].children[k] \in DOMAIN node /\ Hgt(t, node[x].children[k]) = Hgt(t, x) - 1
            /\ Len(node[x].children) >= 1 /\ Len(node[x].children) \in Nat
        BY <2>1, <3>1, Family
      <3>3. i \in 1 .. Len(node[x].children) /\ 1 \in 1 .. Len(node[x].children)
        <4>1. node[x] \in Node
          BY <2>2
        <4>2. DOMAIN node[x].children = 1 .. Len(node[x].children)
          BY <4>1 DEF Node
        <4> QED
          BY <3>2, <4>2
      <3> QED
        BY <2>9, <3>2, <3>3
    <2>11. \A x \in DOMAIN node : x # root => Len(node[x].records) >= NodeSize \div 2
      BY <2>2 DEF Filled
    <2> QED
      BY <2>10, <2>11 DEF Balanced, depth
  <1> QED
    BY <1>1, <1>2

\* Balanced: the leaves are equally deep and no node but the root less than half full,
\* whatever is inserted.
THEOREM BalancedHolds == Spec => []Balanced
  <1>1. IInv => Balanced
    BY InvariantBalances
  <1> QED
    BY <1>1, Invariant, PTL

\* next goes along the leaves.
LEMMA InvariantChains ==
  ASSUME IInv
  PROVE  Chained
  <1> SUFFICES ASSUME root # 0
               PROVE  LET leaves == Leaves(root)
                      IN  \A k \in DOMAIN leaves :
                            node[leaves[k]].next = IF k < Len(leaves) THEN leaves[k + 1] ELSE 0
    BY DEF Chained
  <1>1. PICK t : Sound(node, root, t, buf, at) /\ Tree(node, root, t)
    BY SoundTree
  <1>2. /\ Linked(node, t) /\ root \in DOMAIN node /\ Lo(t, root) = 1 /\ Hi(t, root) = Width(t)
        /\ Width(t) \in Nat
    BY <1>1, Described DEF Sound, Tree
  <1> DEFINE l == Leaves(root)
  <1>3. /\ Len(l) = Hi(t, root) - Lo(t, root) + 1 /\ DOMAIN l = 1 .. Len(l)
        /\ \A j \in 1 .. Len(l) : l[j] = At(t, Lo(t, root) + j - 1)
    BY <1>1, <1>2, LeavesAre
  <1> HIDE DEF l
  <1>4. Len(l) = Width(t) /\ DOMAIN l = 1 .. Width(t) /\ \A j \in 1 .. Width(t) : l[j] = At(t, j)
    <2>1. Len(l) = Width(t)
      BY <1>2, <1>3
    <2>2. \A j \in 1 .. Width(t) : Lo(t, root) + j - 1 = j
      BY <1>2
    <2> QED
      BY <1>3, <2>1, <2>2
  <1>5. ASSUME NEW k \in DOMAIN l
        PROVE  node[l[k]].next = IF k < Len(l) THEN l[k + 1] ELSE 0
    <2> DEFINE x == At(t, k)
    <2>1. k \in 1 .. Width(t) /\ l[k] = x /\ k \in Nat
      BY <1>2, <1>4
    <2>2. x \in DOMAIN node
      <3>1. DOMAIN node = 1 .. Len(node) /\ At(t, k) \in 1 .. Len(node)
        BY <1>1, <2>1, Described
      <3> QED
        BY <3>1
    <2>3. node[x].leaf /\ Lo(t, x) = k
      BY <1>1, <2>1 DEF Tree
    <2> HIDE DEF x
    <2>4. Hi(t, x) = k /\ Hgt(t, x) = 0
      BY <1>1, <2>2, <2>3 DEF Tree, InChain
    <2>5. CASE k = Width(t)
      <3>1. node[x].next = 0
        BY <1>2, <2>2, <2>4, <2>5 DEF Linked
      <3> QED
        BY <1>2, <1>4, <2>1, <2>5, <3>1
    <2>6. CASE k # Width(t)
      <3> DEFINE y == node[x].next
      <3>1. y \in DOMAIN node /\ Hgt(t, y) = 0 /\ Lo(t, y) = k + 1
        BY <1>2, <2>2, <2>4, <2>6 DEF Linked
      <3> HIDE DEF y
      <3>2. node[y].leaf
        <4> SUFFICES ASSUME ~node[y].leaf
                     PROVE  FALSE
          OBVIOUS
        <4>1. Hgt(t, y) >= 1
          BY <1>1, <3>1, Family
        <4> QED
          BY <3>1, <4>1
      <3>3. At(t, k + 1) = y
        BY <1>1, <3>1, <3>2 DEF Tree, InChain
      <3>4. k < Len(l) /\ k + 1 \in 1 .. Width(t)
        BY <1>2, <1>4, <2>1, <2>6
      <3>5. l[k + 1] = y
        BY <1>4, <3>3, <3>4
      <3> QED
        BY <2>1, <3>4, <3>5 DEF y
    <2> QED
      BY <2>5, <2>6
  <1> QED
    BY <1>5 DEF l

\* Chained: after splits and after a restart, the leaves are linked from left to right.
THEOREM ChainedHolds == Spec => []Chained
  <1>1. IInv => Chained
    BY InvariantChains
  <1> QED
    BY <1>1, Invariant, PTL

---------------------------------------------------------------------------
(* The search for a leaf.                                                  *)

\* The child a search for d goes on in, and the nodes it comes to.
Turn(ns, d, x) == IF BtSearchLeft(ns[x], d) > 0 THEN BtSearchLeft(ns[x], d) ELSE 1
Sink(ns, d, f) == [x \in DOMAIN ns |-> IF ns[x].leaf THEN x ELSE f[ns[x].children[Turn(ns, d, x)]]]

\* Between the leaves below x and those below y, values are below d to the left and
\* not below it to the right.
Narrow(t, d, x, y) ==
  /\ Lo(t, x) <= Lo(t, y) /\ Hi(t, y) <= Hi(t, x)
  /\ \A s \in 2 .. Width(t) : /\ (Lo(t, x) < s /\ s <= Lo(t, y)) => Sep(t, s) < d
                              /\ (Hi(t, y) < s /\ s <= Hi(t, x)) => Sep(t, s) >= d

\* bt_search_left counts the records below d in every node.
LEMMA NodeSearch ==
  ASSUME NEW ns, NEW r, NEW t, NEW b \in Seq(Val), Sound(ns, r, t, b, 0), NEW x \in DOMAIN ns, NEW d \in Int
  PROVE  /\ Len(ns[x].records) \in Nat /\ DOMAIN ns[x].records = 1 .. Len(ns[x].records)
         /\ BtSearchLeft(ns[x], d) \in 0 .. Len(ns[x].records)
         /\ \A k \in 1 .. Len(ns[x].records) : /\ k <= BtSearchLeft(ns[x], d) <=> ns[x].records[k].val < d
                                               /\ ns[x].records[k] \in Record
                                               /\ ns[x].records[k].val \in Int
  <1> DEFINE n == ns[x]  l == Len(ns[x].records)
  <1>1. Tree(ns, r, t) /\ Filled(ns, r) /\ Ordered(ns, t) /\ Stored(ns, b, Done(b, 0)) /\ EdgeBounded(ns, t, b, 0)
    BY DEF Sound
  <1>2. /\ l \in Nat /\ DOMAIN n.records = 1 .. l
        /\ \A k \in 1 .. l : n.records[k] \in Record /\ n.records[k].val \in Int
    <2>1. ns \in Seq(Node)
      BY <1>1 DEF Tree
    <2> QED
      BY <2>1, RecordOf
  <1>3. \A j, k \in 1 .. l : j < k => n.records[j].val <= n.records[k].val
    <2> TAKE j, k \in 1 .. l
    <2> HAVE j < k
    <2> DEFINE a == 0
    <2>1. /\ a # 0 => Len(b) >= 1
          /\ Stored(ns, b, Done(b, a)) /\ EdgeBounded(ns, t, b, a)
      BY <1>1
    <2> HIDE DEF a
    <2>2. j \in DOMAIN ns[x].records /\ k \in DOMAIN ns[x].records
      BY <1>2
    <2> QED
      BY <1>1, <2>1, <2>2, Ascend
  <1>4. Len(n.records) = l
    OBVIOUS
  <1> HIDE DEF n, l
  <1>5. BtSearchLeft(n, d) \in 0 .. l /\ \A k \in 1 .. l : k <= BtSearchLeft(n, d) <=> n.records[k].val < d
    BY <1>2, <1>3, <1>4, LeftSearch
  <1>6. /\ l \in Nat /\ DOMAIN n.records = 1 .. l
        /\ \A k \in 1 .. l : n.records[k] \in Record /\ n.records[k].val \in Int
    BY <1>2
  <1> QED
    BY <1>5, <1>6 DEF n, l

\* The right turn.
LEMMA TurnNarrows ==
  ASSUME NEW ns, NEW r, NEW t, NEW b \in Seq(Val), Sound(ns, r, t, b, 0), NEW x \in DOMAIN ns, ~ns[x].leaf,
         NEW d \in Int
  PROVE  /\ Turn(ns, d, x) \in 1 .. Len(ns[x].children)
         /\ ns[x].children[Turn(ns, d, x)] \in DOMAIN ns
         /\ Hgt(t, ns[x].children[Turn(ns, d, x)]) = Hgt(t, x) - 1
         /\ Narrow(t, d, x, ns[x].children[Turn(ns, d, x)])
  <1> DEFINE c == ns[x].children  n == Len(c)  i == Turn(ns, d, x)  y == c[i]  v(k) == ns[x].records[k].val
  <1>1. Tree(ns, r, t) /\ Filled(ns, r) /\ Ordered(ns, t)
    BY DEF Sound
  <1>2. /\ n \in Nat /\ n >= 1 /\ Len(ns[x].records) = n
        /\ \A k \in 1 .. n : c[k] \in DOMAIN ns /\ Hgt(t, c[k]) = Hgt(t, x) - 1
        /\ Lo(t, c[1]) = Lo(t, x) /\ Hi(t, c[n]) = Hi(t, x)
        /\ \A k \in 1 .. n - 1 : Lo(t, c[k + 1]) = Hi(t, c[k]) + 1
    BY <1>1, Family
  <1>3. /\ \A k \in 1 .. n : Lo(t, x) <= Lo(t, c[k]) /\ Hi(t, c[k]) <= Hi(t, x)
    BY <1>1, ChildOrder
  <1>4. /\ DOMAIN ns[x].records = 1 .. n
        /\ BtSearchLeft(ns[x], d) \in 0 .. n
        /\ \A k \in 1 .. n : (k <= BtSearchLeft(ns[x], d) <=> v(k) < d) /\ v(k) \in Int
    BY <1>2, NodeSearch
  <1>5. i \in 1 .. n /\ (i > 1 => v(i) < d) /\ (i < n => v(i + 1) >= d)
    <2> DEFINE e == BtSearchLeft(ns[x], d)
    <2>1. i = IF e > 0 THEN e ELSE 1
      BY DEF Turn
    <2>2. e \in 0 .. n /\ n \in Nat /\ n >= 1 /\ \A k \in 1 .. n : (k <= e <=> v(k) < d) /\ v(k) \in Int
      BY <1>2, <1>4
    <2> HIDE DEF e, i, n, v
    <2>3. i \in 1 .. n
      BY <2>1, <2>2
    <2>4. i > 1 => v(i) < d
      BY <2>1, <2>2, <2>3
    <2>5. i < n => v(i + 1) >= d
      <3> SUFFICES ASSUME i < n
                   PROVE  v(i + 1) >= d
        OBVIOUS
      <3>1. i + 1 \in 1 .. n /\ ~(i + 1 <= e)
        BY <2>1, <2>2, <2>3
      <3> QED
        BY <2>2, <3>1
    <2> QED
      BY <2>3, <2>4, <2>5
  <1>6. \A k \in 1 .. n : Lo(t, c[k]) > 1 => v(k) = Sep(t, Lo(t, c[k]))
    BY <1>1, <1>4 DEF Ordered
  <1>7. /\ y \in DOMAIN ns /\ Hgt(t, y) = Hgt(t, x) - 1
        /\ Lo(t, x) <= Lo(t, y) /\ Hi(t, y) <= Hi(t, x)
    BY <1>2, <1>3, <1>5
  <1>8. /\ Lo(t, x) \in Nat /\ Hi(t, x) \in Nat /\ Lo(t, y) \in Nat /\ Hi(t, y) \in Nat /\ 1 <= Lo(t, x)
        /\ Hi(t, x) <= Width(t) /\ Lo(t, y) <= Hi(t, y) /\ Width(t) \in Nat
    <2> HIDE DEF y
    <2> QED
      BY <1>1, <1>7, Placed, Described
  <1>9. \A s \in 2 .. Width(t) : Sep(t, s) \in Int
    <2>1. t.sep \in [Nat -> Int]
      BY <1>1 DEF Tree, Description
    <2> QED
      BY <1>8, <2>1 DEF Sep
  <1>10. ASSUME NEW s \in 2 .. Width(t), Lo(t, x) < s, s <= Lo(t, y)
         PROVE  Sep(t, s) < d
    <2>1. i > 1
      <3> SUFFICES ASSUME i = 1
                   PROVE  FALSE
        BY <1>5
      <3>1. c[i] = c[1]
        OBVIOUS
      <3>2. Lo(t, c[1]) = Lo(t, x)
        BY <1>2
      <3>3. Lo(t, y) = Lo(t, x)
        BY <3>1, <3>2
      <3> HIDE DEF y
      <3> QED
        BY <1>8, <1>10, <3>3
    <2>2. Lo(t, y) \in 2 .. Width(t) /\ Lo(t, y) > 1
      <3> HIDE DEF y
      <3> QED
        BY <1>7, <1>8, <1>10
    <2>3. v(i) = Sep(t, Lo(t, y)) /\ v(i) < d
      BY <1>5, <1>6, <2>1, <2>2
    <2> DEFINE q == Lo(t, y)
    <2>4. q \in 2 .. Width(t) /\ s <= q /\ Sep(t, q) < d
      BY <1>10, <2>2, <2>3
    <2> HIDE DEF q
    <2>5. Sep(t, s) <= Sep(t, q)
      BY <1>1, <1>10, <2>4, SepMonotone
    <2>6. Sep(t, s) \in Int /\ Sep(t, q) \in Int
      BY <1>9, <1>10, <2>4
    <2> QED
      BY <2>4, <2>5, <2>6
  <1>11. ASSUME NEW s \in 2 .. Width(t), Hi(t, y) < s, s <= Hi(t, x)
         PROVE  Sep(t, s) >= d
    <2>1. i < n
      <3> SUFFICES ASSUME i = n
                   PROVE  FALSE
        BY <1>2, <1>5
      <3>1. Hi(t, y) = Hi(t, x)
        BY <1>2
      <3> QED
        BY <1>8, <1>11, <3>1
    <2>2. i \in 1 .. n - 1 /\ i + 1 \in 1 .. n
      BY <1>2, <1>5, <2>1
    <2> DEFINE q == Lo(t, c[i + 1])
    <2>3. q = Hi(t, y) + 1
      BY <1>2, <2>2
    <2>4. q \in 2 .. Width(t) /\ q > 1 /\ q <= s
      <3> HIDE DEF y, q
      <3> QED
        BY <1>7, <1>8, <1>11, <2>3
    <2>5. v(i + 1) = Sep(t, q) /\ v(i + 1) >= d
      BY <1>5, <1>6, <2>1, <2>2, <2>4
    <2>6. q \in 2 .. Width(t) /\ q <= s /\ Sep(t, q) >= d
      BY <2>4, <2>5
    <2> HIDE DEF q
    <2>7. Sep(t, q) <= Sep(t, s)
      BY <1>1, <1>11, <2>6, SepMonotone
    <2>8. Sep(t, s) \in Int /\ Sep(t, q) \in Int
      BY <1>9, <1>11, <2>6
    <2> QED
      BY <2>6, <2>7, <2>8
  <1>12. Narrow(t, d, x, y)
    BY <1>7, <1>10, <1>11 DEF Narrow
  <1> QED
    BY <1>5, <1>7, <1>12

\* There is a search.
LEMMA SinkExists ==
  ASSUME NEW ns, NEW r, NEW t, NEW b \in Seq(Val), Sound(ns, r, t, b, 0), NEW d \in Int
  PROVE  \E f \in [DOMAIN ns -> DOMAIN ns] : f = Sink(ns, d, f)
  <1> DEFINE S == DOMAIN ns  m == [x \in S |-> Hgt(t, x)]
             G == [f \in [S -> S] |-> Sink(ns, d, f)]
  <1>0. Tree(ns, r, t)
    BY DEF Sound
  <1>1. r \in S /\ \A x \in S : Hgt(t, x) \in Nat /\ Hgt(t, x) <= Hgt(t, r)
    BY <1>0, Placed DEF Tree
  <1>2. Measured(S, m, Hgt(t, r) + 1)
    <2>1. m \in [S -> Nat]
      BY <1>1
    <2>2. \A x \in S : m[x] < Hgt(t, r) + 1
      BY <1>1
    <2> QED
      BY <1>1, <2>1, <2>2 DEF Measured
  <1>3. \A x \in S : ~ns[x].leaf => /\ ns[x].children[Turn(ns, d, x)] \in S
                                    /\ m[ns[x].children[Turn(ns, d, x)]] < m[x]
    <2> SUFFICES ASSUME NEW x \in S, ~ns[x].leaf
                 PROVE  /\ ns[x].children[Turn(ns, d, x)] \in S
                        /\ m[ns[x].children[Turn(ns, d, x)]] < m[x]
      OBVIOUS
    <2>1. /\ ns[x].children[Turn(ns, d, x)] \in S
          /\ Hgt(t, ns[x].children[Turn(ns, d, x)]) = Hgt(t, x) - 1
      BY TurnNarrows
    <2> QED
      BY <1>1, <2>1
  <1>4. Descends(S, S, m, G)
    <2>1. S # {}
      BY <1>1
    <2> HIDE DEF S, m
    <2>2. G \in [[S -> S] -> [S -> S]]
      <3> SUFFICES ASSUME NEW f \in [S -> S]
                   PROVE  Sink(ns, d, f) \in [S -> S]
        OBVIOUS
      <3> QED
        BY <1>3 DEF Sink, S
    <2>3. ASSUME NEW g \in [S -> S], NEW h \in [S -> S], NEW x \in S,
                 \A z \in S : m[z] < m[x] => g[z] = h[z]
          PROVE  G[g][x] = G[h][x]
      <3>1. G[g] = Sink(ns, d, g) /\ G[h] = Sink(ns, d, h)
        OBVIOUS
      <3>2. ~ns[x].leaf => g[ns[x].children[Turn(ns, d, x)]] = h[ns[x].children[Turn(ns, d, x)]]
        BY <1>3, <2>3
      <3> QED
        BY <3>1, <3>2 DEF Sink, S
    <2> HIDE DEF G
    <2> QED
      BY <2>1, <2>2, <2>3 DEF Descends
  <1>5. PICK f \in [S -> S] : f = G[f]
    <2> HIDE DEF S, m, G
    <2> QED
      BY <1>2, <1>4, RecursiveFunction
  <1> QED
    BY <1>5

\* From x, y is the leaf of d.
Reached(ns, t, d, x, y) == y \in DOMAIN ns /\ ns[y].leaf /\ Narrow(t, d, x, y)

\* A search finds it.
LEMMA SinkReaches ==
  ASSUME NEW ns, NEW r, NEW t, NEW b \in Seq(Val), Sound(ns, r, t, b, 0), NEW d \in Int,
         NEW f, f = Sink(ns, d, f)
  PROVE  \A x \in DOMAIN ns : Reached(ns, t, d, x, f[x])
  <1> DEFINE S == DOMAIN ns
             H == { h \in Nat : \A x \in S : Hgt(t, x) = h => Reached(ns, t, d, x, f[x]) }
  <1>1. Tree(ns, r, t)
    BY DEF Sound
  <1>2. \A x \in S : /\ Hgt(t, x) \in Nat /\ Lo(t, x) \in Nat /\ Hi(t, x) \in Nat
    BY <1>1, Placed
  <1>3. Width(t) \in Nat
    BY <1>1, Described
  <1>4. \A x \in S : f[x] = IF ns[x].leaf THEN x ELSE f[ns[x].children[Turn(ns, d, x)]]
    BY DEF Sink
  <1>5. ASSUME NEW h \in Nat, \A k \in Nat : k < h => k \in H
        PROVE  h \in H
    <2> SUFFICES ASSUME NEW x \in S, Hgt(t, x) = h
                 PROVE  Reached(ns, t, d, x, f[x])
      OBVIOUS
    <2>1. CASE ns[x].leaf
      <3>1. Narrow(t, d, x, x)
        BY <1>2, <1>3 DEF Narrow
      <3>2. f[x] = x
        BY <1>4, <2>1
      <3> QED
        BY <2>1, <3>1, <3>2 DEF Reached
    <2>2. CASE ~ns[x].leaf
      <3> DEFINE y == ns[x].children[Turn(ns, d, x)]
      <3>1. y \in S /\ Hgt(t, y) = Hgt(t, x) - 1 /\ Narrow(t, d, x, y)
        BY <2>2, TurnNarrows
      <3>2. f[x] = f[y]
        BY <1>4, <2>2
      <3> HIDE DEF y
      <3>3. h - 1 \in Nat /\ Hgt(t, y) = h - 1
        BY <1>2, <3>1
      <3>4. Reached(ns, t, d, y, f[y])
        BY <1>5, <3>1, <3>3
      <3> DEFINE z == f[y]
      <3>5. z \in S /\ ns[z].leaf /\ Narrow(t, d, y, z)
        BY <3>4 DEF Reached
      <3> HIDE DEF z
      <3>6. Narrow(t, d, x, z)
        BY <1>2, <1>3, <3>1, <3>5 DEF Narrow
      <3>7. Reached(ns, t, d, x, z)
        BY <3>5, <3>6 DEF Reached
      <3> QED
        BY <3>2, <3>7 DEF z
    <2> QED
      BY <2>1, <2>2
  <1>6. Nat \subseteq H
    <2> HIDE DEF H
    <2> QED
      BY <1>5, StrongInduction
  <1> QED
    BY <1>2, <1>6

\* bt_search_node finds the leaf of d.
LEMMA NodeReached ==
  ASSUME NEW t, buf \in Seq(Val), Sound(node, root, t, buf, 0), NEW d \in Int
  PROVE  Reached(node, t, d, root, BtSearchNode(d))
  <1> DEFINE Below(g) == [x \in DOMAIN node |->
                            IF node[x].leaf THEN x
                            ELSE LET i == BtSearchLeft(node[x], d)
                                 IN  g[node[x].children[IF i > 0 THEN i ELSE 1]]]
             h == CHOOSE g : g = Below(g)
  <1>1. \A g : Below(g) = Sink(node, d, g)
    BY DEF Sink, Turn
  <1>2. PICK f \in [DOMAIN node -> DOMAIN node] : f = Sink(node, d, f)
    BY SinkExists
  <1>3. BtSearchNode(d) = h[root]
    BY DEF BtSearchNode
  <1> HIDE DEF Below
  <1>4. h = Below(h)
    <2>1. f = Below(f)
      BY <1>1, <1>2
    <2> QED
      BY <2>1
  <1> HIDE DEF h
  <1>5. h = Sink(node, d, h)
    BY <1>1, <1>4
  <1>6. \A x \in DOMAIN node : Reached(node, t, d, x, h[x])
    BY <1>5, SinkReaches
  <1>7. root \in DOMAIN node
    BY DEF Sound, Tree
  <1> QED
    BY <1>3, <1>6, <1>7
---------------------------------------------------------------------------
(* The records a select takes.                                             *)

\* No record twice, and in the order of their values.
Sorted(l) ==
  \A i, j \in 1 .. Len(l) : i < j => l[i].val <= l[j].val /\ l[i].pos # l[j].pos

\* Every record of k comes after those of l.
Precedes(l, k) ==
  \A i \in 1 .. Len(l), j \in 1 .. Len(k) : l[i].val <= k[j].val /\ l[i].pos # k[j].pos

\* Sorted lists one after the other.
LEMMA SortedJoin ==
  ASSUME NEW l \in Seq(Record), NEW k \in Seq(Record), Sorted(l), Sorted(k), Precedes(l, k)
  PROVE  /\ l \o k \in Seq(Record) /\ Sorted(l \o k)
         /\ \A e : e \in Range(l \o k) <=> e \in Range(l) \/ e \in Range(k)
  <1> DEFINE m == l \o k  a == Len(l)  c == Len(k)
  <1>1. /\ m \in Seq(Record) /\ Len(m) = a + c
        /\ \A i \in 1 .. a : m[i] = l[i]
        /\ \A i \in 1 .. c : m[a + i] = k[i]
    BY Concatenation
  <1>2. a \in Nat /\ c \in Nat /\ DOMAIN l = 1 .. a /\ DOMAIN k = 1 .. c
    OBVIOUS
  <1>3. DOMAIN m = 1 .. Len(m)
    <2> HIDE DEF m
    <2> QED
      BY <1>1
  <1> HIDE DEF m, a, c
  <1>4. ASSUME NEW i \in 1 .. a + c
        PROVE  \/ i \in 1 .. a /\ m[i] = l[i]
               \/ i - a \in 1 .. c /\ m[i] = k[i - a] /\ i > a
    <2>1. CASE i <= a
      BY <1>1, <1>2, <2>1
    <2>2. CASE i > a
      <3>1. i - a \in 1 .. c /\ a + (i - a) = i
        BY <1>2, <2>2
      <3> QED
        BY <1>1, <2>2, <3>1
    <2> QED
      BY <1>2, <2>1, <2>2
  <1>5. ASSUME NEW i \in 1 .. a + c, NEW j \in 1 .. a + c, i < j
        PROVE  m[i].val <= m[j].val /\ m[i].pos # m[j].pos
    <2>1. CASE j \in 1 .. a /\ m[j] = l[j]
      <3>1. i \in 1 .. a
        BY <1>2, <1>5, <2>1
      <3>2. m[i] = l[i]
        BY <1>1, <3>1
      <3> QED
        BY <1>5, <2>1, <3>1, <3>2 DEF Sorted, a
    <2>2. CASE j - a \in 1 .. c /\ m[j] = k[j - a] /\ j > a
      <3>1. CASE i \in 1 .. a /\ m[i] = l[i]
        BY <2>2, <3>1 DEF Precedes, a, c
      <3>2. CASE i - a \in 1 .. c /\ m[i] = k[i - a] /\ i > a
        <4>1. i - a < j - a
          BY <1>2, <1>5
        <4> QED
          BY <2>2, <3>2, <4>1 DEF Sorted, c
      <3> QED
        BY <1>4, <3>1, <3>2
    <2> QED
      BY <1>4, <2>1, <2>2
  <1>6. Sorted(m)
    BY <1>1, <1>5 DEF Sorted
  <1>7. ASSUME NEW e
        PROVE  e \in Range(m) <=> e \in Range(l) \/ e \in Range(k)
    <2>1. e \in Range(m) => e \in Range(l) \/ e \in Range(k)
      <3> SUFFICES ASSUME NEW i \in 1 .. a + c, e = m[i]
                   PROVE  e \in Range(l) \/ e \in Range(k)
        BY <1>1, <1>3 DEF Range
      <3> QED
        BY <1>2, <1>4 DEF Range
    <2>2. ASSUME NEW i \in 1 .. a
          PROVE  l[i] \in Range(m)
      <3>1. i \in 1 .. a + c /\ m[i] = l[i]
        BY <1>1, <1>2
      <3> QED
        BY <1>1, <1>3, <3>1 DEF Range
    <2>3. ASSUME NEW i \in 1 .. c
          PROVE  k[i] \in Range(m)
      <3>1. a + i \in 1 .. a + c /\ m[a + i] = k[i]
        BY <1>1, <1>2
      <3> QED
        BY <1>1, <1>3, <3>1 DEF Range
    <2>4. e \in Range(l) => e \in Range(m)
      BY <1>2, <2>2 DEF Range
    <2>5. e \in Range(k) => e \in Range(m)
      BY <1>2, <2>3 DEF Range
    <2> QED
      BY <2>1, <2>4, <2>5
  <1> QED
    BY <1>1, <1>6, <1>7 DEF m

\* Of the first records of n, as many as end, those not below low.
Sift(n, low, end, f) ==
  [i \in 0 .. end |-> IF i = 0 THEN <<>>
                      ELSE IF n.records[i].val >= low THEN Append(f[i - 1], n.records[i])
                      ELSE f[i - 1]]
Taken(n, low, end) == LET f == CHOOSE g : g = Sift(n, low, end, g) IN f[end]

\* The first records of n are sorted.
Sifted(n, end) ==
  /\ \A k \in 1 .. end : n.records[k] \in Record
  /\ \A j, k \in 1 .. end : j < k => /\ n.records[j].val <= n.records[k].val
                                     /\ n.records[j].pos # n.records[k].pos

\* There is such a list.
LEMMA SiftExists ==
  ASSUME NEW n, NEW low, NEW end \in Nat, \A k \in 1 .. end : n.records[k] \in Record
  PROVE  \E f \in [0 .. end -> Seq(Record)] : f = Sift(n, low, end, f)
  <1> DEFINE S == 0 .. end  V == Seq(Record)  m == [i \in S |-> i]
             G == [f \in [S -> V] |-> Sift(n, low, end, f)]
  <1>1. Measured(S, m, end + 1)
    BY DEF Measured
  <1>2. \A i \in S : i # 0 => i - 1 \in S /\ m[i - 1] < m[i] /\ n.records[i] \in Record
    OBVIOUS
  <1>3. \A l \in V, e \in Record : Append(l, e) \in V
    OBVIOUS
  <1>4. <<>> \in V
    OBVIOUS
  <1>5. ASSUME NEW f \in [S -> V]
        PROVE  Sift(n, low, end, f) \in [S -> V]
    <2> HIDE DEF V, m
    <2>1. ASSUME NEW i \in S
          PROVE  (IF i = 0 THEN <<>> ELSE IF n.records[i].val >= low THEN Append(f[i - 1], n.records[i])
                                     ELSE f[i - 1]) \in V
      <3>1. CASE i = 0
        BY <1>4, <3>1
      <3>2. CASE i # 0
        <4>1. f[i - 1] \in V /\ n.records[i] \in Record
          BY <1>2, <3>2
        <4>2. Append(f[i - 1], n.records[i]) \in V
          BY <1>3, <4>1
        <4> QED
          BY <3>2, <4>1, <4>2
      <3> QED
        BY <3>1, <3>2
    <2> QED
      BY <2>1 DEF Sift
  <1>6. Descends(S, V, m, G)
    <2>1. V # {}
      BY <1>4
    <2>2. G \in [[S -> V] -> [S -> V]]
      BY <1>5
    <2>3. ASSUME NEW g \in [S -> V], NEW h \in [S -> V], NEW i \in S,
                 \A j \in S : m[j] < m[i] => g[j] = h[j]
          PROVE  G[g][i] = G[h][i]
      <3>1. G[g] = Sift(n, low, end, g) /\ G[h] = Sift(n, low, end, h)
        OBVIOUS
      <3>2. i # 0 => g[i - 1] = h[i - 1]
        BY <1>2, <2>3
      <3> QED
        BY <3>1, <3>2 DEF Sift
    <2> HIDE DEF S, V, m, G
    <2> QED
      BY <2>1, <2>2, <2>3 DEF Descends
  <1>7. PICK f \in [S -> V] : f = G[f]
    <2> HIDE DEF S, V, m, G
    <2> QED
      BY <1>1, <1>6, RecursiveFunction
  <1> QED
    BY <1>7

\* The list as it grows, record by record.
TakenBy(n, low, end, f) ==
  /\ f[0] = <<>>
  /\ \A i \in Nat : i + 1 <= end =>
       f[i + 1] = IF n.records[i + 1].val >= low THEN Append(f[i], n.records[i + 1]) ELSE f[i]

\* It is the list taken in the end.
LEMMA TakenSteps ==
  ASSUME NEW n, NEW low, NEW end \in Nat, \A k \in 1 .. end : n.records[k] \in Record
  PROVE  \E f : Taken(n, low, end) = f[end] /\ TakenBy(n, low, end, f)
  <1> DEFINE f == CHOOSE g : g = Sift(n, low, end, g)
  <1>1. f = Sift(n, low, end, f)
    <2>1. \E g : g = Sift(n, low, end, g)
      BY SiftExists
    <2> QED
      BY <2>1
  <1>2. Taken(n, low, end) = f[end]
    BY DEF Taken
  <1> HIDE DEF f
  <1>3. f[0] = <<>>
    BY <1>1 DEF Sift
  <1>4. ASSUME NEW i \in Nat, i + 1 <= end
        PROVE  f[i + 1] = IF n.records[i + 1].val >= low THEN Append(f[i], n.records[i + 1]) ELSE f[i]
    <2>1. i + 1 \in 0 .. end /\ i + 1 # 0 /\ (i + 1) - 1 = i
      BY <1>4
    <2> QED
      BY <1>1, <2>1 DEF Sift
  <1>5. TakenBy(n, low, end, f)
    BY <1>3, <1>4 DEF TakenBy
  <1> QED
    BY <1>2, <1>5

\* It is a list of records.
LEMMA TakenList ==
  ASSUME NEW n, NEW low, NEW end \in Nat, \A k \in 1 .. end : n.records[k] \in Record
  PROVE  Taken(n, low, end) \in Seq(Record)
  <1>1. PICK f : Taken(n, low, end) = f[end] /\ TakenBy(n, low, end, f)
    BY TakenSteps
  <1> DEFINE N == { i \in Nat : i <= end => f[i] \in Seq(Record) }
  <1>2. 0 \in N
    <2>1. <<>> \in Seq(Record)
      OBVIOUS
    <2>2. f[0] \in Seq(Record)
      BY <1>1, <2>1 DEF TakenBy
    <2> QED
      BY <2>2
  <1>3. ASSUME NEW i \in Nat, i \in N
        PROVE  i + 1 \in N
    <2> SUFFICES ASSUME i + 1 <= end
                 PROVE  f[i + 1] \in Seq(Record)
      OBVIOUS
    <2>1. f[i] \in Seq(Record)
      BY <1>3
    <2>2. n.records[i + 1] \in Record
      OBVIOUS
    <2>3. Append(f[i], n.records[i + 1]) \in Seq(Record)
      BY <2>1, <2>2
    <2>4. f[i + 1] = Append(f[i], n.records[i + 1]) \/ f[i + 1] = f[i]
      BY <1>1 DEF TakenBy
    <2> QED
      BY <2>1, <2>3, <2>4
  <1>4. Nat \subseteq N
    <2> HIDE DEF N
    <2> QED
      BY <1>2, <1>3, SetInduction
  <1>5. f[end] \in Seq(Record)
    BY <1>4
  <1> QED
    BY <1>1, <1>5

\* The list is sorted, and has just these records.
LEMMA TakenRight ==
  ASSUME NEW n, NEW low \in Int, NEW end \in Nat, Sifted(n, end)
  PROVE  /\ Taken(n, low, end) \in Seq(Record) /\ Sorted(Taken(n, low, end))
         /\ \A e : e \in Range(Taken(n, low, end)) <=>
              \E k \in 1 .. end : e = n.records[k] /\ e.val >= low
  <1>0. \A k \in 1 .. end : n.records[k] \in Record
    BY DEF Sifted
  <1>2. PICK f : Taken(n, low, end) = f[end] /\ TakenBy(n, low, end, f)
    BY <1>0, TakenSteps
  <1> DEFINE TakenBelow(i, l) == /\ l \in Seq(Record) /\ Sorted(l)
                            /\ \A e : e \in Range(l) <=> \E k \in 1 .. i : e = n.records[k] /\ e.val >= low
             N == { i \in Nat : i <= end => TakenBelow(i, f[i]) }
  <1>3. /\ f[0] = <<>>
        /\ \A i \in Nat : i + 1 <= end =>
             f[i + 1] = IF n.records[i + 1].val >= low THEN Append(f[i], n.records[i + 1]) ELSE f[i]
    BY <1>2 DEF TakenBy
  <1>4. 0 \in N
    <2>1. <<>> \in Seq(Record) /\ Len(<<>>) = 0 /\ Range(<<>>) = {}
      BY DEF Range
    <2>2. Sorted(<<>>)
      BY <2>1 DEF Sorted
    <2>3. TakenBelow(0, <<>>)
      BY <2>1, <2>2
    <2> HIDE DEF TakenBelow
    <2> QED
      BY <1>3, <2>3
  <1>5. ASSUME NEW i \in Nat, i \in N
        PROVE  i + 1 \in N
    <2> SUFFICES ASSUME i + 1 <= end
                 PROVE  TakenBelow(i + 1, f[i + 1])
      OBVIOUS
    <2> DEFINE l == f[i]  e == n.records[i + 1]
    <2>1. TakenBelow(i, l)
      BY <1>5
    <2>2. e \in Record /\ i + 1 \in 1 .. end
      BY DEF Sifted
    <2>3. \A k \in 1 .. i : k \in 1 .. end /\ n.records[k].val <= e.val /\ n.records[k].pos # e.pos
      BY <2>2 DEF Sifted
    <2>4. f[i + 1] = IF e.val >= low THEN Append(l, e) ELSE l
      BY <1>3
    <2>5. l \in Seq(Record) /\ Sorted(l)
          /\ \A a : a \in Range(l) <=> \E k \in 1 .. i : a = n.records[k] /\ a.val >= low
      BY <2>1
    <2> HIDE DEF l, e
    <2>6. \A k : k \in 1 .. i + 1 <=> k \in 1 .. i \/ k = i + 1
      OBVIOUS
    <2>7. e = n.records[i + 1]
      BY DEF e
    <2>8. CASE e.val >= low
      <3> DEFINE q == <<e>>
      <3>1. q \in Seq(Record) /\ Len(q) = 1 /\ q[1] = e /\ Range(q) = {e}
        BY <2>2 DEF Range
      <3>2. Append(l, e) = l \o q
        BY <2>2, <2>5
      <3> HIDE DEF q
      <3>3. Sorted(q)
        BY <3>1 DEF Sorted
      <3>4. Precedes(l, q)
        <4>1. \A j \in 1 .. Len(l) : l[j] \in Range(l)
          BY <2>5 DEF Range
        <4>2. \A j \in 1 .. Len(l) : l[j].val <= e.val /\ l[j].pos # e.pos
          BY <2>3, <2>5, <4>1
        <4>3. \A j \in 1 .. Len(q) : q[j] = e
          BY <3>1
        <4> QED
          BY <4>2, <4>3 DEF Precedes
      <3>5. /\ l \o q \in Seq(Record) /\ Sorted(l \o q)
            /\ \A a : a \in Range(l \o q) <=> a \in Range(l) \/ a \in Range(q)
        BY <2>5, <3>1, <3>3, <3>4, SortedJoin
      <3> DEFINE z == l \o q
      <3>6. f[i + 1] = z
        BY <2>4, <2>8, <3>2
      <3>7. z \in Seq(Record) /\ Sorted(z) /\ \A a : a \in Range(z) <=> a \in Range(l) \/ a = e
        BY <3>1, <3>5
      <3> HIDE DEF z
      <3>8. \A a : a \in Range(z) <=> \E k \in 1 .. i + 1 : a = n.records[k] /\ a.val >= low
        BY <2>5, <2>6, <2>7, <2>8, <3>7
      <3>9. TakenBelow(i + 1, z)
        BY <3>7, <3>8
      <3> HIDE DEF TakenBelow
      <3> QED
        BY <3>6, <3>9
    <2>9. CASE ~(e.val >= low)
      <3>1. f[i + 1] = l
        BY <2>4, <2>9
      <3>2. \A a : a \in Range(l) <=> \E k \in 1 .. i + 1 : a = n.records[k] /\ a.val >= low
        BY <2>5, <2>6, <2>7, <2>9
      <3>3. TakenBelow(i + 1, l)
        BY <2>5, <3>2
      <3> HIDE DEF TakenBelow
      <3> QED
        BY <3>1, <3>3
    <2> QED
      BY <2>8, <2>9
  <1>6. Nat \subseteq N
    <2> HIDE DEF N
    <2> QED
      BY <1>4, <1>5, SetInduction
  <1>7. TakenBelow(end, f[end])
    <2> HIDE DEF TakenBelow
    <2>1. end \in N
      BY <1>6
    <2> QED
      BY <2>1
  <1> QED
    BY <1>2, <1>7

---------------------------------------------------------------------------
(* Along the chain.                                                        *)

\* Where select_one_btree ends, and what it takes from the node x on.
Stops(ns, high, last, x) ==
  BtSearchLeft(ns[x], high) < Len(ns[x].records) \/ x = last \/ ns[x].next = 0
Share(ns, low, high, x) == Taken(ns[x], low, BtSearchLeft(ns[x], high))
Along(ns, low, high, last, f) ==
  [x \in DOMAIN ns |-> IF Stops(ns, high, last, x) THEN Share(ns, low, high, x)
                       ELSE Share(ns, low, high, x) \o f[ns[x].next]]

\* There is such a walk.
LEMMA AlongExists ==
  ASSUME NEW ns, NEW r, NEW t, NEW b \in Seq(Val), Sound(ns, r, t, b, 0),
         NEW low \in Int, NEW high \in Int, NEW last
  PROVE  \E f \in [DOMAIN ns -> Seq(Record)] : f = Along(ns, low, high, last, f)
  <1> DEFINE S == DOMAIN ns  V == Seq(Record)  m == [x \in S |-> Width(t) - Lo(t, x)]
             G == [f \in [S -> V] |-> Along(ns, low, high, last, f)]
             Full(x) == Share(ns, low, high, x)
             Ends(x) == Stops(ns, high, last, x)
  <1>1. Tree(ns, r, t) /\ Linked(ns, t)
    BY DEF Sound
  <1>2. /\ Width(t) \in Nat
        /\ \A x \in S : Lo(t, x) \in Nat /\ Hi(t, x) \in Nat /\ Lo(t, x) <= Hi(t, x) /\ Hi(t, x) <= Width(t)
    BY <1>1, Placed, Described
  <1>3. Measured(S, m, Width(t) + 1)
    <2>1. m \in [S -> Nat]
      BY <1>2
    <2>2. \A x \in S : m[x] < Width(t) + 1
      BY <1>2
    <2> QED
      BY <1>2, <2>1, <2>2 DEF Measured
  <1>4. \A x \in S : Full(x) \in V
    <2> TAKE x \in S
    <2> DEFINE n == ns[x]  end == BtSearchLeft(ns[x], high)
    <2>1. end \in Nat /\ \A k \in 1 .. end : n.records[k] \in Record
      <3> DEFINE l == Len(ns[x].records)
      <3>1. /\ l \in Nat /\ end \in 0 .. l
            /\ \A k \in 1 .. l : n.records[k] \in Record
        BY NodeSearch
      <3> HIDE DEF l, end, n
      <3> QED
        BY <3>1
    <2> HIDE DEF n, end
    <2>2. Taken(n, low, end) \in Seq(Record)
      BY <2>1, TakenList
    <2> QED
      BY <2>2 DEF Share, n, end
  <1>5. \A x \in S : ~Ends(x) => ns[x].next \in S /\ m[ns[x].next] < m[x]
    <2> SUFFICES ASSUME NEW x \in S, ~Ends(x)
                 PROVE  ns[x].next \in S /\ m[ns[x].next] < m[x]
      OBVIOUS
    <2>1. ns[x].next # 0
      BY DEF Stops
    <2>2. ns[x].next \in S /\ Lo(t, ns[x].next) = Hi(t, x) + 1
      BY <1>1, <2>1 DEF Linked
    <2> QED
      BY <1>2, <2>2
  <1>6. \A f : Along(ns, low, high, last, f) =
                 [x \in S |-> IF Ends(x) THEN Full(x) ELSE Full(x) \o f[ns[x].next]]
    BY DEF Along
  <1>7. \A k, l \in V : k \o l \in V
    BY ConcatProperties
  <1> HIDE DEF V, Full, Ends, m
  <1>8. ASSUME NEW f \in [S -> V]
        PROVE  Along(ns, low, high, last, f) \in [S -> V]
    <2>1. ASSUME NEW x \in S
          PROVE  (IF Ends(x) THEN Full(x) ELSE Full(x) \o f[ns[x].next]) \in V
      BY <1>4, <1>5, <1>7
    <2> HIDE DEF S
    <2>2. [x \in S |-> IF Ends(x) THEN Full(x) ELSE Full(x) \o f[ns[x].next]] \in [S -> V]
      BY <2>1
    <2>3. Along(ns, low, high, last, f) = [x \in S |-> IF Ends(x) THEN Full(x) ELSE Full(x) \o f[ns[x].next]]
      BY <1>6
    <2> QED
      BY <2>2, <2>3
  <1>9. Descends(S, V, m, G)
    <2>1. V # {}
      <3>1. r \in S
        BY <1>1 DEF Tree
      <3> QED
        BY <1>4, <3>1
    <2> HIDE DEF S
    <2>2. G \in [[S -> V] -> [S -> V]]
      BY <1>8
    <2>3. ASSUME NEW g \in [S -> V], NEW h \in [S -> V], NEW x \in S,
                 \A z \in S : m[z] < m[x] => g[z] = h[z]
          PROVE  G[g][x] = G[h][x]
      <3>1. G[g] = Along(ns, low, high, last, g) /\ G[h] = Along(ns, low, high, last, h)
        OBVIOUS
      <3>2. ~Ends(x) => g[ns[x].next] = h[ns[x].next]
        BY <1>5, <2>3
      <3>3. /\ Along(ns, low, high, last, g)[x] = IF Ends(x) THEN Full(x) ELSE Full(x) \o g[ns[x].next]
            /\ Along(ns, low, high, last, h)[x] = IF Ends(x) THEN Full(x) ELSE Full(x) \o h[ns[x].next]
        BY <1>6
      <3> QED
        BY <3>1, <3>2, <3>3
    <2> HIDE DEF G
    <2> QED
      BY <2>1, <2>2, <2>3 DEF Descends
  <1>10. PICK f \in [S -> V] : f = G[f]
    <2> HIDE DEF S, G
    <2> QED
      BY <1>3, <1>9, RecursiveFunction
  <1> QED
    BY <1>10 DEF V

\* What a select has from a leaf.
LEMMA ShareRight ==
  ASSUME NEW ns, NEW r, NEW t, NEW b \in Seq(Val), Sound(ns, r, t, b, 0),
         NEW low \in Int, NEW high \in Int, NEW x \in DOMAIN ns, ns[x].leaf
  PROVE  /\ Share(ns, low, high, x) \in Seq(Record) /\ Sorted(Share(ns, low, high, x))
         /\ \A e : e \in Range(Share(ns, low, high, x)) <=>
              \E k \in DOMAIN ns[x].records : e = ns[x].records[k] /\ low <= e.val /\ e.val < high
  <1> DEFINE n == ns[x]  end == BtSearchLeft(ns[x], high)  l == Len(ns[x].records)
  <1>1. Ordered(ns, t) /\ Stored(ns, b, Done(b, 0))
    BY DEF Sound
  <1>2. /\ l \in Nat /\ DOMAIN n.records = 1 .. l /\ end \in 0 .. l
        /\ \A k \in 1 .. l : (k <= end <=> n.records[k].val < high) /\ n.records[k] \in Record /\ n.records[k].val \in Int
    BY NodeSearch
  <1>3. \A j, k \in DOMAIN n.records : j < k => /\ n.records[j].val <= n.records[k].val
                                                /\ n.records[j].pos # n.records[k].pos
    <2>1. \A j, k \in DOMAIN n.records : j < k => n.records[j].val <= n.records[k].val
      BY <1>1 DEF Ordered
    <2>2. \A j, k \in DOMAIN n.records : n.records[j].pos = n.records[k].pos => j = k
      BY <1>1 DEF Stored
    <2>3. \A j, k \in DOMAIN n.records : j < k => j # k
      BY <1>2
    <2> QED
      BY <2>1, <2>2, <2>3
  <1> HIDE DEF n, end, l
  <1>4. end \in Nat /\ Sifted(n, end)
    <2>1. end \in Nat /\ \A k \in 1 .. end : k \in 1 .. l /\ k \in DOMAIN n.records
      BY <1>2
    <2>2. \A k \in 1 .. end : n.records[k] \in Record
      BY <1>2, <2>1
    <2>3. \A j, k \in 1 .. end : j < k => /\ n.records[j].val <= n.records[k].val
                                           /\ n.records[j].pos # n.records[k].pos
      BY <1>3, <2>1
    <2> QED
      BY <2>1, <2>2, <2>3 DEF Sifted
  <1> DEFINE k0 == Taken(n, low, end)
  <1>5. /\ k0 \in Seq(Record) /\ Sorted(k0)
        /\ \A e : e \in Range(k0) <=> \E k \in 1 .. end : e = n.records[k] /\ e.val >= low
    BY <1>4, TakenRight
  <1> HIDE DEF k0
  <1>6. \A k : k \in 1 .. end <=> k \in 1 .. l /\ n.records[k].val < high
    BY <1>2
  <1>7. \A e : e \in Range(k0) <=>
          \E k \in DOMAIN n.records : e = n.records[k] /\ low <= e.val /\ e.val < high
    <2> TAKE e
    <2>1. ASSUME NEW k \in 1 .. end, e = n.records[k], e.val >= low
          PROVE  k \in DOMAIN n.records /\ low <= e.val /\ e.val < high
      BY <1>2, <1>6, <2>1
    <2>2. ASSUME NEW k \in DOMAIN n.records, e = n.records[k], low <= e.val, e.val < high
          PROVE  k \in 1 .. end /\ e.val >= low
      BY <1>2, <1>6, <2>2
    <2> QED
      BY <1>5, <2>1, <2>2
  <1>8. Share(ns, low, high, x) = k0
    BY DEF Share, k0, n, end
  <1> QED
    BY <1>5, <1>7, <1>8 DEF n

\* The record e is in the leaf y, and a select has to find it.
Wanted(ns, low, high, y, e) ==
  /\ y \in DOMAIN ns /\ ns[y].leaf /\ low <= e.val /\ e.val < high
  /\ \E k \in DOMAIN ns[y].records : e = ns[y].records[k]

\* The list l is what a select has to find in x and in the leaves right of it.
Gathers(ns, t, low, high, x, l) ==
  /\ l \in Seq(Record) /\ Sorted(l)
  /\ \A e : e \in Range(l) <=> \E y : Wanted(ns, low, high, y, e) /\ Lo(t, x) <= Lo(t, y)

\* Between two leaves is what separates them.
LEMMA LeafApart ==
  ASSUME NEW ns, NEW r, NEW t, NEW b \in Seq(Val), Sound(ns, r, t, b, 0),
         NEW x \in DOMAIN ns, ns[x].leaf, NEW y \in DOMAIN ns, ns[y].leaf, Lo(t, x) < Lo(t, y)
  PROVE  /\ Lo(t, y) \in 2 .. Width(t) /\ Sep(t, Lo(t, y)) \in Int
         /\ \A j \in DOMAIN ns[x].records : /\ ns[x].records[j].val \in Int
                                            /\ ns[x].records[j].val <= Sep(t, Lo(t, y))
         /\ \A k \in DOMAIN ns[y].records : /\ ns[y].records[k].val \in Int
                                            /\ Sep(t, Lo(t, y)) <= ns[y].records[k].val
         /\ \A j \in DOMAIN ns[x].records, k \in DOMAIN ns[y].records : ns[x].records[j].pos # ns[y].records[k].pos
  <1>1. Tree(ns, r, t) /\ Ordered(ns, t) /\ Stored(ns, b, Done(b, 0))
    BY DEF Sound
  <1>2. /\ Lo(t, x) \in Nat /\ Lo(t, y) \in Nat /\ 1 <= Lo(t, x) /\ Lo(t, y) <= Hi(t, y) /\ Hi(t, y) <= Width(t)
        /\ Hi(t, y) \in Nat /\ Width(t) \in Nat
    BY <1>1, Placed, Described
  <1> DEFINE s == Lo(t, y)
  <1>3. s \in 2 .. Width(t)
    BY <1>2
  <1>4. Lo(t, x) < s /\ Lo(t, y) >= s
    BY <1>2
  <1>5. Sep(t, s) \in Int
    <2>1. t.sep \in [Nat -> Int]
      BY <1>1 DEF Tree, Description
    <2>2. s \in Nat
      BY <1>2
    <2> QED
      BY <2>1, <2>2 DEF Sep
  <1> HIDE DEF s
  <1>6. /\ \A j \in DOMAIN ns[x].records : ns[x].records[j].val <= Sep(t, s)
        /\ \A k \in DOMAIN ns[y].records : Sep(t, s) <= ns[y].records[k].val
    BY <1>1, <1>3, <1>4 DEF Ordered
  <1>7. /\ \A j \in DOMAIN ns[x].records : ns[x].records[j].val \in Int
        /\ \A k \in DOMAIN ns[y].records : ns[y].records[k].val \in Int
    <2>1. ns \in Seq(Node)
      BY <1>1 DEF Tree
    <2> QED
      BY <2>1, RecordOf
  <1>8. \A j \in DOMAIN ns[x].records, k \in DOMAIN ns[y].records : ns[x].records[j].pos # ns[y].records[k].pos
    <2>1. x # y
      BY <1>2
    <2> QED
      BY <1>1, <2>1 DEF Stored
  <1> QED
    BY <1>3, <1>5, <1>6, <1>7, <1>8 DEF s

\* A select that stops at a leaf misses nothing.
LEMMA StopsInTime ==
  ASSUME NEW ns, NEW r, NEW t, NEW b \in Seq(Val), Sound(ns, r, t, b, 0),
         NEW high \in Int, NEW last, Reached(ns, t, high, r, last),
         NEW x \in DOMAIN ns, ns[x].leaf, Stops(ns, high, last, x),
         NEW y \in DOMAIN ns, ns[y].leaf, Lo(t, x) < Lo(t, y), NEW k \in DOMAIN ns[y].records
  PROVE  ns[y].records[k].val >= high
  <1> DEFINE l == Len(ns[x].records)  e == BtSearchLeft(ns[x], high)  s == Sep(t, Lo(t, y))
             v == ns[y].records[k].val
  <1>1. /\ Lo(t, y) \in 2 .. Width(t) /\ s \in Int
        /\ \A j \in DOMAIN ns[x].records : ns[x].records[j].val \in Int /\ ns[x].records[j].val <= s
        /\ v \in Int /\ s <= v
    BY LeafApart
  <1>2. /\ l \in Nat /\ DOMAIN ns[x].records = 1 .. l /\ e \in 0 .. l
        /\ \A j \in 1 .. l : j <= e <=> ns[x].records[j].val < high
    BY NodeSearch
  <1>3. Tree(ns, r, t) /\ Linked(ns, t)
    BY DEF Sound
  <1> HIDE DEF l, e, s, v
  <1>4. CASE e < l
    <2>1. e + 1 \in 1 .. l /\ ~(e + 1 <= e)
      BY <1>2, <1>4
    <2>2. ~(ns[x].records[e + 1].val < high) /\ ns[x].records[e + 1].val \in Int /\ ns[x].records[e + 1].val <= s
      BY <1>1, <1>2, <2>1
    <2>3. v >= high
      BY <1>1, <2>2
    <2> QED
      BY <2>3 DEF v
  <1>5. CASE x = last
    <2>1. Narrow(t, high, r, x)
      BY <1>5 DEF Reached
    <2>2. Lo(t, x) = Hi(t, x) /\ Hi(t, r) = Width(t)
      BY <1>3 DEF Tree, InChain
    <2>3. Lo(t, x) \in Nat /\ Width(t) \in Nat /\ Hi(t, x) \in Nat
      BY <1>3, Placed, Described
    <2> DEFINE p == Lo(t, y)
    <2>4. p \in 2 .. Width(t) /\ Hi(t, x) < p /\ p <= Hi(t, r)
      BY <1>1, <2>2, <2>3
    <2> HIDE DEF p
    <2>5. Sep(t, p) >= high
      BY <2>1, <2>4 DEF Narrow
    <2>6. s >= high
      BY <2>5 DEF s, p
    <2>7. v >= high
      BY <1>1, <2>6
    <2> QED
      BY <2>7 DEF v
  <1>6. CASE ns[x].next = 0
    <2>1. Hi(t, x) = Width(t)
      <3>1. ~(0 \in DOMAIN ns)
        BY <1>3, Described
      <3> QED
        BY <1>3, <1>6, <3>1 DEF Linked
    <2>2. Lo(t, x) = Hi(t, x)
      BY <1>3 DEF Tree, InChain
    <2>3. FALSE
      BY <1>1, <1>3, <2>1, <2>2, Described
    <2> QED
      BY <2>3
  <1> QED
    BY <1>4, <1>5, <1>6 DEF Stops, e, l

\* The leaf a select goes on to.
LEMMA GoesOn ==
  ASSUME NEW ns, NEW r, NEW t, NEW b \in Seq(Val), Sound(ns, r, t, b, 0), NEW high, NEW last,
         NEW x \in DOMAIN ns, ns[x].leaf, ~Stops(ns, high, last, x)
  PROVE  /\ ns[x].next \in DOMAIN ns /\ ns[ns[x].next].leaf
         /\ Lo(t, ns[x].next) = Lo(t, x) + 1
  <1> DEFINE y == ns[x].next
  <1>1. Tree(ns, r, t) /\ Linked(ns, t)
    BY DEF Sound
  <1>2. y # 0
    BY DEF Stops
  <1>3. y \in DOMAIN ns /\ Hgt(t, y) = Hgt(t, x) /\ Lo(t, y) = Hi(t, x) + 1
    BY <1>1, <1>2 DEF Linked
  <1>4. Hgt(t, x) = 0 /\ Hi(t, x) = Lo(t, x)
    BY <1>1 DEF Tree, InChain
  <1> HIDE DEF y
  <1>5. ns[y].leaf
    <2> SUFFICES ASSUME ~ns[y].leaf
                 PROVE  FALSE
      OBVIOUS
    <2>1. Hgt(t, y) >= 1
      BY <1>1, <1>3, Family
    <2> QED
      BY <1>3, <1>4, <2>1
  <1>6. y \in DOMAIN ns /\ ns[y].leaf /\ Lo(t, y) = Lo(t, x) + 1
    BY <1>3, <1>4, <1>5
  <1> QED
    BY <1>6 DEF y

\* What a select has to find from a leaf on is in it, or right of it.
LEMMA WantedHere ==
  ASSUME NEW ns, NEW r, NEW t, Tree(ns, r, t), NEW low, NEW high,
         NEW x \in DOMAIN ns, ns[x].leaf, NEW y, NEW e, Wanted(ns, low, high, y, e), Lo(t, x) <= Lo(t, y)
  PROVE  y = x \/ Lo(t, x) + 1 <= Lo(t, y)
  <1>1. y \in DOMAIN ns /\ ns[y].leaf
    BY DEF Wanted
  <1>2. At(t, Lo(t, x)) = x /\ At(t, Lo(t, y)) = y
    BY <1>1 DEF Tree, InChain
  <1>3. Lo(t, x) \in Nat /\ Lo(t, y) \in Nat
    BY <1>1, Placed
  <1> QED
    BY <1>2, <1>3

\* Where it stops, a select has all there is.
LEMMA StopGathers ==
  ASSUME NEW ns, NEW r, NEW t, NEW b \in Seq(Val), Sound(ns, r, t, b, 0),
         NEW low \in Int, NEW high \in Int, NEW last, Reached(ns, t, high, r, last),
         NEW x \in DOMAIN ns, ns[x].leaf, Stops(ns, high, last, x)
  PROVE  Gathers(ns, t, low, high, x, Share(ns, low, high, x))
  <1> DEFINE l == Share(ns, low, high, x)
  <1>1. /\ l \in Seq(Record) /\ Sorted(l)
        /\ \A e : e \in Range(l) <=> \E k \in DOMAIN ns[x].records : e = ns[x].records[k] /\ low <= e.val /\ e.val < high
    BY ShareRight
  <1> HIDE DEF l
  <1>2. Tree(ns, r, t)
    BY DEF Sound
  <1>3. Lo(t, x) \in Nat
    BY <1>2, Placed
  <1>4. ASSUME NEW e, NEW y, Wanted(ns, low, high, y, e), Lo(t, x) <= Lo(t, y)
        PROVE  e \in Range(l)
    <2>1. y = x
      <3> SUFFICES ASSUME Lo(t, x) + 1 <= Lo(t, y)
                   PROVE  FALSE
        BY <1>2, <1>4, WantedHere
      <3>1. y \in DOMAIN ns /\ ns[y].leaf /\ e.val < high
        BY <1>4 DEF Wanted
      <3>2. PICK k \in DOMAIN ns[y].records : e = ns[y].records[k]
        BY <1>4 DEF Wanted
      <3>3. Lo(t, y) \in Nat
        BY <1>2, <3>1, Placed
      <3>4. Lo(t, x) < Lo(t, y)
        BY <1>3, <3>3
      <3>5. ns[y].records[k].val >= high
        BY <3>1, <3>4, StopsInTime
      <3>6. ns[y].records[k].val \in Int
        <4>1. ns \in Seq(Node)
          BY <1>2 DEF Tree
        <4> QED
          BY <3>1, <4>1, RecordOf
      <3> QED
        BY <3>1, <3>2, <3>5, <3>6
    <2>2. \E k \in DOMAIN ns[x].records : e = ns[x].records[k] /\ low <= e.val /\ e.val < high
      BY <1>4, <2>1 DEF Wanted
    <2> QED
      BY <1>1, <2>2
  <1>5. ASSUME NEW e, e \in Range(l)
        PROVE  \E y : Wanted(ns, low, high, y, e) /\ Lo(t, x) <= Lo(t, y)
    <2>1. Wanted(ns, low, high, x, e)
      BY <1>1, <1>5 DEF Wanted
    <2> QED
      BY <1>3, <2>1
  <1>6. Gathers(ns, t, low, high, x, l)
    BY <1>1, <1>4, <1>5 DEF Gathers
  <1> QED
    BY <1>6 DEF l

\* Where it goes on, it adds its share to what the leaves to the right have.
LEMMA GoOnGathers ==
  ASSUME NEW ns, NEW r, NEW t, NEW b \in Seq(Val), Sound(ns, r, t, b, 0),
         NEW low \in Int, NEW high \in Int,
         NEW x \in DOMAIN ns, ns[x].leaf, NEW y \in DOMAIN ns, ns[y].leaf, Lo(t, y) = Lo(t, x) + 1,
         NEW k, Gathers(ns, t, low, high, y, k)
  PROVE  Gathers(ns, t, low, high, x, Share(ns, low, high, x) \o k)
  <1> DEFINE l == Share(ns, low, high, x)
  <1>1. /\ l \in Seq(Record) /\ Sorted(l)
        /\ \A e : e \in Range(l) <=> \E j \in DOMAIN ns[x].records : e = ns[x].records[j] /\ low <= e.val /\ e.val < high
    BY ShareRight
  <1> HIDE DEF l
  <1>2. Tree(ns, r, t)
    BY DEF Sound
  <1>3. Lo(t, x) \in Nat /\ Lo(t, y) \in Nat
    BY <1>2, Placed
  <1>4. /\ k \in Seq(Record) /\ Sorted(k)
        /\ \A e : e \in Range(k) <=> \E z : Wanted(ns, low, high, z, e) /\ Lo(t, y) <= Lo(t, z)
    BY DEF Gathers
  <1>5. ASSUME NEW e, e \in Range(l), NEW a, a \in Range(k)
        PROVE  e.val <= a.val /\ e.pos # a.pos
    <2>1. PICK i \in DOMAIN ns[x].records : e = ns[x].records[i]
      BY <1>1, <1>5
    <2>2. PICK z : Wanted(ns, low, high, z, a) /\ Lo(t, y) <= Lo(t, z)
      BY <1>4, <1>5
    <2>3. z \in DOMAIN ns /\ ns[z].leaf
      BY <2>2 DEF Wanted
    <2>4. PICK j \in DOMAIN ns[z].records : a = ns[z].records[j]
      BY <2>2 DEF Wanted
    <2>5. Lo(t, x) < Lo(t, z)
      <3>1. Lo(t, z) \in Nat
        BY <1>2, <2>3, Placed
      <3> QED
        BY <1>3, <2>2, <3>1
    <2> DEFINE s == Sep(t, Lo(t, z))
    <2>6. /\ s \in Int
          /\ ns[x].records[i].val \in Int /\ ns[x].records[i].val <= s
          /\ ns[z].records[j].val \in Int /\ s <= ns[z].records[j].val
          /\ ns[x].records[i].pos # ns[z].records[j].pos
      BY <2>3, <2>5, LeafApart
    <2> HIDE DEF s
    <2>7. ns[x].records[i].val <= ns[z].records[j].val
      BY <2>6
    <2> QED
      BY <2>1, <2>4, <2>6, <2>7
  <1>6. Precedes(l, k)
    <2>1. \A i \in 1 .. Len(l) : l[i] \in Range(l)
      BY <1>1 DEF Range
    <2>2. \A i \in 1 .. Len(k) : k[i] \in Range(k)
      BY <1>4 DEF Range
    <2> QED
      BY <1>5, <2>1, <2>2 DEF Precedes
  <1> DEFINE m == l \o k
  <1>7. m \in Seq(Record) /\ Sorted(m) /\ \A e : e \in Range(m) <=> e \in Range(l) \/ e \in Range(k)
    BY <1>1, <1>4, <1>6, SortedJoin
  <1> HIDE DEF m
  <1>8. ASSUME NEW e, e \in Range(l)
        PROVE  \E z : Wanted(ns, low, high, z, e) /\ Lo(t, x) <= Lo(t, z)
    <2>1. Wanted(ns, low, high, x, e)
      BY <1>1, <1>8 DEF Wanted
    <2> QED
      BY <1>3, <2>1
  <1>9. ASSUME NEW e, e \in Range(k)
        PROVE  \E z : Wanted(ns, low, high, z, e) /\ Lo(t, x) <= Lo(t, z)
    <2>1. PICK z : Wanted(ns, low, high, z, e) /\ Lo(t, y) <= Lo(t, z)
      BY <1>4, <1>9
    <2>2. Lo(t, z) \in Nat
      <3>1. z \in DOMAIN ns
        BY <2>1 DEF Wanted
      <3> QED
        BY <1>2, <3>1, Placed
    <2>3. Lo(t, x) <= Lo(t, z)
      BY <1>3, <2>1, <2>2
    <2> QED
      BY <2>1, <2>3
  <1>10. ASSUME NEW e, NEW z, Wanted(ns, low, high, z, e), Lo(t, x) <= Lo(t, z)
         PROVE  e \in Range(l) \/ e \in Range(k)
    <2>1. CASE z = x
      <3>1. \E j \in DOMAIN ns[x].records : e = ns[x].records[j] /\ low <= e.val /\ e.val < high
        BY <1>10, <2>1 DEF Wanted
      <3> QED
        BY <1>1, <3>1
    <2>2. CASE Lo(t, x) + 1 <= Lo(t, z)
      <3>1. Lo(t, y) <= Lo(t, z)
        BY <2>2
      <3> QED
        BY <1>4, <1>10, <3>1
    <2> QED
      BY <1>2, <1>10, <2>1, <2>2, WantedHere
  <1>11. Gathers(ns, t, low, high, x, m)
    BY <1>7, <1>8, <1>9, <1>10 DEF Gathers
  <1> QED
    BY <1>11 DEF l, m

\* From every leaf a select has what it has to find from there on.
LEMMA AlongGathers ==
  ASSUME NEW ns, NEW r, NEW t, NEW b \in Seq(Val), Sound(ns, r, t, b, 0),
         NEW low \in Int, NEW high \in Int, NEW last, Reached(ns, t, high, r, last),
         NEW f, f = Along(ns, low, high, last, f)
  PROVE  \A x \in DOMAIN ns : ns[x].leaf => Gathers(ns, t, low, high, x, f[x])
  <1> DEFINE H == { h \in Nat : \A x \in DOMAIN ns :
                      ns[x].leaf /\ Width(t) - Lo(t, x) = h => Gathers(ns, t, low, high, x, f[x]) }
  <1>1. Tree(ns, r, t)
    BY DEF Sound
  <1>2. /\ Width(t) \in Nat
        /\ \A x \in DOMAIN ns : Lo(t, x) \in Nat /\ Hi(t, x) \in Nat /\ Lo(t, x) <= Hi(t, x) /\ Hi(t, x) <= Width(t)
    BY <1>1, Placed, Described
  <1>3. \A x \in DOMAIN ns : f[x] = IF Stops(ns, high, last, x) THEN Share(ns, low, high, x)
                                    ELSE Share(ns, low, high, x) \o f[ns[x].next]
    BY DEF Along
  <1>4. ASSUME NEW h \in Nat, \A k \in Nat : k < h => k \in H
        PROVE  h \in H
    <2> SUFFICES ASSUME NEW x \in DOMAIN ns, ns[x].leaf, Width(t) - Lo(t, x) = h
                 PROVE  Gathers(ns, t, low, high, x, f[x])
      OBVIOUS
    <2>1. CASE Stops(ns, high, last, x)
      <3>1. Gathers(ns, t, low, high, x, Share(ns, low, high, x))
        BY <2>1, StopGathers
      <3>2. f[x] = Share(ns, low, high, x)
        BY <1>3, <2>1
      <3> QED
        BY <3>1, <3>2
    <2>2. CASE ~Stops(ns, high, last, x)
      <3> DEFINE y == ns[x].next
      <3>1. y \in DOMAIN ns /\ ns[y].leaf /\ Lo(t, y) = Lo(t, x) + 1
        BY <2>2, GoesOn
      <3>2. f[x] = Share(ns, low, high, x) \o f[y]
        BY <1>3, <2>2
      <3> HIDE DEF y
      <3>3. h - 1 \in Nat /\ h - 1 < h /\ Width(t) - Lo(t, y) = h - 1
        <4> DEFINE w == Width(t)  a == Lo(t, x)  c == Lo(t, y)  z == Hi(t, y)
        <4>1. w \in Nat /\ a \in Nat /\ c \in Nat /\ z \in Nat /\ c <= z /\ z <= w
          BY <1>2, <3>1
        <4>2. c = a + 1 /\ w - a = h
          BY <3>1
        <4> HIDE DEF w, a, c, z
        <4>3. h - 1 \in Nat /\ h - 1 < h /\ w - c = h - 1
          BY <4>1, <4>2
        <4> QED
          BY <4>3 DEF w, c
      <3> DEFINE k == f[y]
      <3>4. Gathers(ns, t, low, high, y, k)
        BY <1>4, <3>1, <3>3
      <3> HIDE DEF k
      <3>5. Gathers(ns, t, low, high, x, Share(ns, low, high, x) \o k)
        BY <3>1, <3>4, GoOnGathers
      <3> QED
        BY <3>2, <3>5 DEF k
    <2> QED
      BY <2>1, <2>2
  <1>5. Nat \subseteq H
    <2> HIDE DEF H
    <2> QED
      BY <1>4, StrongInduction
  <1>6. \A x \in DOMAIN ns : Width(t) - Lo(t, x) \in Nat
    BY <1>2
  <1> QED
    BY <1>5, <1>6

\* What select_one_btree does at the node x.
LEMMA SelectSteps ==
  ASSUME NEW low, NEW high, NEW last, NEW g
  PROVE  [x \in DOMAIN node |->
            LET n   == node[x]
                end == BtSearchLeft(n, high)
                taken[i \in 0 .. end] ==
                  IF i = 0 THEN <<>>
                  ELSE IF n.records[i].val >= low THEN Append(taken[i - 1], n.records[i])
                  ELSE taken[i - 1]
            IN  IF end < Len(n.records) \/ x = last \/ n.next = 0
                THEN taken[end]
                ELSE taken[end] \o g[n.next]]
         = Along(node, low, high, last, g)
  BY DEF Along, Share, Stops, Taken, Sift

\* A select finds the records in its range.
LEMMA SelectGathers ==
  ASSUME NEW t, buf \in Seq(Val), Sound(node, root, t, buf, 0), NEW low \in Int, NEW high \in Int
  PROVE  /\ SelectOneBtree(low, high) \in Seq(Record) /\ Sorted(SelectOneBtree(low, high))
         /\ \A e : e \in Range(SelectOneBtree(low, high)) <=> \E y : Wanted(node, low, high, y, e)
  <1> DEFINE last == BtSearchNode(high)
             first == BtSearchNode(low)
             Body(g) == [x \in DOMAIN node |->
                           LET n   == node[x]
                               end == BtSearchLeft(n, high)
                               taken[i \in 0 .. end] ==
                                 IF i = 0 THEN <<>>
                                 ELSE IF n.records[i].val >= low THEN Append(taken[i - 1], n.records[i])
                                 ELSE taken[i - 1]
                           IN  IF end < Len(n.records) \/ x = last \/ n.next = 0
                               THEN taken[end]
                               ELSE taken[end] \o g[n.next]]
             h == CHOOSE g : g = Body(g)
  <1>1. SelectOneBtree(low, high) = h[first]
    BY DEF SelectOneBtree
  <1>2. Reached(node, t, high, root, last) /\ Reached(node, t, low, root, first)
    BY NodeReached
  <1> HIDE DEF last, first
  <1>3. \A g : Body(g) = Along(node, low, high, last, g)
    BY SelectSteps
  <1> HIDE DEF Body
  <1>4. PICK f \in [DOMAIN node -> Seq(Record)] : f = Along(node, low, high, last, f)
    BY AlongExists
  <1>5. h = Body(h)
    <2>1. f = Body(f)
      BY <1>3, <1>4
    <2> QED
      BY <2>1
  <1> HIDE DEF h
  <1>6. h = Along(node, low, high, last, h)
    BY <1>3, <1>5
  <1>7. \A x \in DOMAIN node : node[x].leaf => Gathers(node, t, low, high, x, h[x])
    BY <1>2, <1>6, AlongGathers
  <1>8. first \in DOMAIN node /\ node[first].leaf /\ Narrow(t, low, root, first)
    BY <1>2 DEF Reached
  <1> DEFINE l == h[first]
  <1>9. Gathers(node, t, low, high, first, l)
    BY <1>7, <1>8
  <1> HIDE DEF l
  <1>10. ASSUME NEW e, NEW y, Wanted(node, low, high, y, e)
         PROVE  Lo(t, first) <= Lo(t, y)
    <2>1. Tree(node, root, t)
      BY DEF Sound
    <2>2. y \in DOMAIN node /\ node[y].leaf /\ low <= e.val
      BY <1>10 DEF Wanted
    <2>3. PICK k \in DOMAIN node[y].records : e = node[y].records[k]
      BY <1>10 DEF Wanted
    <2>4. /\ Lo(t, first) \in Nat /\ Lo(t, y) \in Nat
      BY <1>8, <2>1, <2>2, Placed
    <2> SUFFICES ASSUME Lo(t, y) < Lo(t, first)
                 PROVE  FALSE
      BY <2>4
    <2> DEFINE s == Lo(t, first)
    <2>5. /\ s \in 2 .. Width(t) /\ Sep(t, s) \in Int
          /\ node[y].records[k].val \in Int /\ node[y].records[k].val <= Sep(t, s)
      BY <1>8, <2>2, LeafApart
    <2>6. Lo(t, root) = 1
      BY <2>1 DEF Tree
    <2>7. Lo(t, root) < s /\ s <= Lo(t, first)
      BY <2>4, <2>5, <2>6
    <2> HIDE DEF s
    <2>8. Sep(t, s) < low
      BY <1>8, <2>5, <2>7 DEF Narrow
    <2> QED
      BY <2>2, <2>3, <2>5, <2>8
  <1>11. \A e : e \in Range(l) <=> \E y : Wanted(node, low, high, y, e)
    BY <1>9, <1>10 DEF Gathers
  <1>12. l \in Seq(Record) /\ Sorted(l)
    BY <1>9 DEF Gathers
  <1> QED
    BY <1>1, <1>11, <1>12 DEF l

\* The positions it finds are those of the values in the range, each once and in the
\* order of the values.
LEMMA InvariantSelects ==
  ASSUME IInv
  PROVE  SelectExact
  <1> SUFFICES ASSUME built, root # 0, NEW low \in Val, NEW high \in Val
               PROVE  LET found == SelectOneBtree(low, high)
                          wanted == { p \in DOMAIN buf : low <= buf[p] /\ buf[p] < high }
                      IN  /\ { e.pos : e \in Range(found) } = wanted
                          /\ Len(found) = Cardinality(wanted)
                          /\ \A i, j \in DOMAIN found : i < j => buf[found[i].pos] <= buf[found[j].pos]
    BY DEF SelectExact
  <1>1. buf \in Seq(Val) /\ at = 0
    BY DEF IInv
  <1>2. PICK t : Sound(node, root, t, buf, at)
    BY SoundTree
  <1>3. low \in Int /\ high \in Int
    BY DataAssumption DEF Val
  <1> DEFINE found == SelectOneBtree(low, high)
             wanted == { p \in DOMAIN buf : low <= buf[p] /\ buf[p] < high }
             n == Len(found)
  <1>4. /\ found \in Seq(Record) /\ Sorted(found)
        /\ \A e : e \in Range(found) <=> \E y : Wanted(node, low, high, y, e)
    <2>1. Sound(node, root, t, buf, 0)
      BY <1>1, <1>2
    <2> QED
      BY <1>1, <1>3, <2>1, SelectGathers
  <1>5. Stored(node, buf, Len(buf)) /\ DOMAIN buf = 1 .. Len(buf)
    <2>1. Stored(node, buf, Done(buf, at))
      BY <1>2 DEF Sound
    <2>2. Done(buf, at) = Len(buf)
      BY <1>1 DEF Done
    <2> QED
      BY <1>1, <2>1, <2>2
  <1> HIDE DEF found
  <1>6. \A e \in Range(found) : e.pos \in wanted /\ e.val = buf[e.pos]
    <2> SUFFICES ASSUME NEW e, NEW y, Wanted(node, low, high, y, e)
                 PROVE  e.pos \in wanted /\ e.val = buf[e.pos]
      BY <1>4
    <2>1. y \in DOMAIN node /\ node[y].leaf /\ low <= e.val /\ e.val < high
      BY DEF Wanted
    <2>2. PICK k \in DOMAIN node[y].records : e = node[y].records[k]
      BY DEF Wanted
    <2>3. e.pos \in 1 .. Len(buf) /\ e.val = buf[e.pos]
      BY <1>5, <2>1, <2>2 DEF Stored
    <2> QED
      BY <1>5, <2>1, <2>3
  <1>7. \A p \in wanted : \E e \in Range(found) : e.pos = p
    <2> SUFFICES ASSUME NEW p \in wanted
                 PROVE  \E e \in Range(found) : e.pos = p
      OBVIOUS
    <2>1. p \in 1 .. Len(buf) /\ low <= buf[p] /\ buf[p] < high
      BY <1>5
    <2>2. PICK y \in DOMAIN node : node[y].leaf /\ \E k \in DOMAIN node[y].records : node[y].records[k].pos = p
      BY <1>5, <2>1 DEF Stored
    <2>3. PICK k \in DOMAIN node[y].records : node[y].records[k].pos = p
      BY <2>2
    <2> DEFINE e == node[y].records[k]
    <2>4. e.pos = p /\ e.val = buf[p]
      BY <1>5, <2>2, <2>3 DEF Stored
    <2>5. Wanted(node, low, high, y, e)
      BY <2>1, <2>2, <2>4 DEF Wanted
    <2> HIDE DEF e
    <2> QED
      BY <1>4, <2>4, <2>5
  <1> HIDE DEF wanted
  <1>8. { e.pos : e \in Range(found) } = wanted
    BY <1>6, <1>7
  <1>9. n \in Nat /\ DOMAIN found = 1 .. n /\ \A i \in 1 .. n : found[i] \in Range(found)
    BY <1>4 DEF Range
  <1>10. \A i, j \in 1 .. n : i < j => found[i].val <= found[j].val /\ found[i].pos # found[j].pos
    BY <1>4 DEF Sorted
  <1>11. \A i, j \in DOMAIN found : i < j => buf[found[i].pos] <= buf[found[j].pos]
    BY <1>6, <1>9, <1>10
  <1>12. n = Cardinality(wanted)
    <2> DEFINE f == [i \in 1 .. n |-> found[i].pos]
    <2>1. f \in [1 .. n -> wanted]
      BY <1>6, <1>9
    <2>2. \A i, j \in 1 .. n : f[i] = f[j] => i = j
      <3> SUFFICES ASSUME NEW i \in 1 .. n, NEW j \in 1 .. n, found[i].pos = found[j].pos
                   PROVE  i = j
        OBVIOUS
      <3>1. ~(i < j) /\ ~(j < i)
        BY <1>10
      <3> QED
        BY <1>9, <3>1
    <2>3. \A p \in wanted : \E i \in 1 .. n : f[i] = p
      <3>1. \A p \in wanted : \E i \in 1 .. n : found[i].pos = p
        BY <1>7, <1>9 DEF Range
      <3> QED
        BY <3>1
    <2> HIDE DEF f, n
    <2>4. f \in Bijection(1 .. n, wanted)
      BY <2>1, <2>2, <2>3 DEF Bijection, Injection, Surjection, IsInjective
    <2>5. ExistsBijection(1 .. n, wanted)
      BY <2>4 DEF ExistsBijection
    <2>6. n \in Nat
      BY <1>9
    <2> QED
      BY <2>5, <2>6, FS_CountingElements
  <1> QED
    BY <1>8, <1>11, <1>12 DEF found, wanted

\* SelectExact: once the index is created, and after any restart, every select finds
\* exactly the positions of the values in its range.
THEOREM SelectExactHolds == Spec => []SelectExact
  <1>1. IInv => SelectExact
    BY InvariantSelects
  <1> QED
    BY <1>1, Invariant, PTL

---------------------------------------------------------------------------
(* The index that the tree is.                                             *)

\* The entries of the first n values of b.
Entries(b, n) == { [pos |-> q, val |-> b[q]] : q \in 1 .. n }

\* e is a record in the leaf y.
InLeaf(ns, y, e) ==
  y \in DOMAIN ns /\ ns[y].leaf /\ \E k \in DOMAIN ns[y].records : e = ns[y].records[k]

\* The leaves have these entries.
LEMMA LeavesHave ==
  ASSUME NEW ns, ns \in Seq(Node), NEW b, NEW n, Stored(ns, b, n)
  PROVE  \A e : e \in Entries(b, n) <=> \E y : InLeaf(ns, y, e)
  <1>1. ASSUME NEW e, NEW y, InLeaf(ns, y, e)
        PROVE  e \in Entries(b, n)
    <2>1. y \in DOMAIN ns /\ ns[y].leaf
      BY <1>1 DEF InLeaf
    <2>2. PICK k \in DOMAIN ns[y].records : e = ns[y].records[k]
      BY <1>1 DEF InLeaf
    <2>3. e \in Record
      BY <2>1, <2>2, RecordOf
    <2>4. e.pos \in 1 .. n /\ e.val = b[e.pos]
      BY <2>1, <2>2 DEF Stored
    <2>5. e = [pos |-> e.pos, val |-> b[e.pos]]
      BY <2>3, <2>4 DEF Record
    <2> QED
      BY <2>4, <2>5 DEF Entries
  <1>2. ASSUME NEW q \in 1 .. n
        PROVE  \E y : InLeaf(ns, y, [pos |-> q, val |-> b[q]])
    <2>1. PICK y \in DOMAIN ns : ns[y].leaf /\ \E k \in DOMAIN ns[y].records : ns[y].records[k].pos = q
      BY DEF Stored
    <2>2. PICK k \in DOMAIN ns[y].records : ns[y].records[k].pos = q
      BY <2>1
    <2> DEFINE e == ns[y].records[k]
    <2>3. e \in Record
      BY <2>1, RecordOf
    <2>4. e.pos = q /\ e.val = b[q]
      BY <2>1, <2>2 DEF Stored
    <2>5. InLeaf(ns, y, e)
      BY <2>1 DEF InLeaf
    <2> HIDE DEF e
    <2>6. e = [pos |-> q, val |-> b[q]]
      BY <2>3, <2>4 DEF Record
    <2> QED
      BY <2>5, <2>6
  <1>3. \A e : e \in Entries(b, n) <=> \E q \in 1 .. n : e = [pos |-> q, val |-> b[q]]
    BY DEF Entries
  <1> QED
    BY <1>1, <1>2, <1>3

\* What the tree holds.
LEMMA HeldIs ==
  ASSUME IInv, root # 0
  PROVE  Held = Entries(buf, Done(buf, at))
  <1>1. PICK t : Sound(node, root, t, buf, at) /\ Tree(node, root, t)
    BY SoundTree
  <1>2. Stored(node, buf, Done(buf, at))
    BY <1>1 DEF Sound
  <1>3. node \in Seq(Node) /\ root \in DOMAIN node /\ Lo(t, root) = 1 /\ Hi(t, root) = Width(t)
    BY <1>1 DEF Tree
  <1>4. \A e : e \in Entries(buf, Done(buf, at)) <=> \E y : InLeaf(node, y, e)
    BY <1>2, <1>3, LeavesHave
  <1>5. \A e : e \in RecordsUnder(root) <=>
          \E y : LeafBelow(t, root, y) /\ \E k \in DOMAIN node[y].records : e = node[y].records[k]
    BY <1>1, <1>3, RecordsAre
  <1>6. ASSUME NEW y \in DOMAIN node
        PROVE  Lo(t, root) <= Lo(t, y) /\ Lo(t, y) <= Hi(t, root)
    <2>1. /\ Lo(t, y) \in Nat /\ Hi(t, y) \in Nat /\ 1 <= Lo(t, y) /\ Lo(t, y) <= Hi(t, y) /\ Hi(t, y) <= Width(t)
      BY <1>1, Placed
    <2>2. Width(t) \in Nat
      BY <1>1, Described
    <2> QED
      BY <1>3, <2>1, <2>2
  <1>7. \A y : LeafBelow(t, root, y) <=> y \in DOMAIN node /\ node[y].leaf
    BY <1>6 DEF LeafBelow
  <1>8. \A e : e \in RecordsUnder(root) <=> \E y : InLeaf(node, y, e)
    BY <1>5, <1>7 DEF InLeaf
  <1>9. RecordsUnder(root) = Entries(buf, Done(buf, at))
    BY <1>4, <1>8
  <1> QED
    BY <1>9 DEF Held

\* What the file holds.
Stock(images) == UNION { Range(n.records) : n \in { m \in Range(images) : m.leaf } }

\* A file written from a sound tree holds one entry for each value of the column.
LEMMA StockIs ==
  ASSUME NEW images, NEW b, Kept(images, b)
  PROVE  Stock(images) = Entries(b, Len(b))
  <1>1. PICK ns, r, t, f, o :
          Sound(ns, r, t, b, 0) /\ Ordering(ns, r, t, f, o) /\ Written(ns, o, images) /\ images \in Seq(Node)
    BY DEF Kept
  <1>2. Stored(ns, b, Len(b)) /\ ns \in Seq(Node)
    <2>1. Stored(ns, b, Done(b, 0)) /\ Tree(ns, r, t)
      BY <1>1 DEF Sound
    <2>2. Done(b, 0) = Len(b)
      BY DEF Done
    <2>3. ns \in Seq(Node)
      BY <2>1 DEF Tree
    <2> QED
      BY <2>1, <2>2, <2>3
  <1>3. \A e : e \in Entries(b, Len(b)) <=> \E y : InLeaf(ns, y, e)
    BY <1>2, LeavesHave
  <1>4. /\ \A k \in 1 .. Len(o) : o[k] \in DOMAIN ns
        /\ \A x \in DOMAIN ns : Spot(o, x) \in 1 .. Len(o) /\ o[Spot(o, x)] = x
    BY <1>1, OrderOnce, SpotOf
  <1>5. DOMAIN images = 1 .. Len(o) /\ \A k \in 1 .. Len(o) : images[k] = ns[o[k]]
    <2>1. DOMAIN images = 1 .. Len(images)
      BY <1>1
    <2> QED
      BY <1>1, <2>1 DEF Written
  <1>6. ASSUME NEW e, e \in Stock(images)
        PROVE  \E y : InLeaf(ns, y, e)
    <2>1. PICK k \in 1 .. Len(o) : images[k].leaf /\ e \in Range(images[k].records)
      BY <1>5, <1>6 DEF Stock, Range
    <2> DEFINE y == o[k]
    <2>2. images[k] = ns[y] /\ y \in DOMAIN ns
      BY <1>4, <1>5
    <2>3. InLeaf(ns, y, e)
      BY <2>1, <2>2 DEF InLeaf, Range
    <2> QED
      BY <2>3
  <1>7. ASSUME NEW e, NEW y, InLeaf(ns, y, e)
        PROVE  e \in Stock(images)
    <2>1. y \in DOMAIN ns /\ ns[y].leaf /\ e \in Range(ns[y].records)
      BY <1>7 DEF InLeaf, Range
    <2> DEFINE k == Spot(o, y)
    <2>2. k \in DOMAIN images /\ images[k] = ns[y]
      BY <1>4, <1>5, <2>1
    <2> HIDE DEF k
    <2>3. images[k] \in Range(images)
      BY <2>2 DEF Range
    <2> DEFINE n == images[k]
    <2>4. n \in { m \in Range(images) : m.leaf } /\ e \in Range(n.records)
      BY <2>1, <2>2, <2>3
    <2> HIDE DEF n
    <2> QED
      BY <2>4 DEF Stock
  <1> QED
    BY <1>3, <1>6, <1>7

\* The two, of every state.
Says ==
  /\ root # 0 => Held = Entries(buf, Done(buf, at))
  /\ root = 0 => Held = {}
  /\ Stock(file) = IF file = <<>> THEN {} ELSE Entries(buf, Len(buf))

\* The tree in memory and the file say what the abstract index has and what it saved.
LEMMA InvariantSays == IInv => Says
  <1> SUFFICES ASSUME IInv
               PROVE  Says
    OBVIOUS
  <1>1. root # 0 => Held = Entries(buf, Done(buf, at))
    BY HeldIs
  <1>2. root = 0 => Held = {}
    BY DEF Held
  <1>3. CASE file = <<>>
    <2>1. Range(file) = {}
      BY <1>3 DEF Range
    <2>2. Stock(file) = {}
      BY <2>1 DEF Stock
    <2> QED
      BY <1>1, <1>2, <1>3, <2>2 DEF Says
  <1>4. CASE file # <<>>
    <2>1. Kept(file, buf)
      BY <1>4 DEF IInv
    <2>2. Stock(file) = Entries(buf, Len(buf))
      BY <2>1, StockIs
    <2> QED
      BY <1>1, <1>2, <1>4, <2>2 DEF Says
  <1> QED
    BY <1>3, <1>4

\* The first entries of a longer list, and one more.
LEMMA EntriesOf ==
  ASSUME NEW b \in Seq(Val), NEW n \in 0 .. Len(b)
  PROVE  /\ Cardinality(Entries(b, n)) = n
         /\ \A v : Entries(Append(b, v), n) = Entries(b, n)
         /\ n >= 1 => Entries(b, n) = Entries(b, n - 1) \cup {[pos |-> n, val |-> b[n]]}
  <1>1. Cardinality(Entries(b, n)) = n
    <2> DEFINE f == [q \in 1 .. n |-> [pos |-> q, val |-> b[q]]]
               T == Entries(b, n)
    <2>1. f \in [1 .. n -> T]
      BY DEF Entries
    <2>2. \A i, j \in 1 .. n : f[i] = f[j] => i = j
      <3> TAKE i, j \in 1 .. n
      <3>1. f[i].pos = i /\ f[j].pos = j
        OBVIOUS
      <3> HIDE DEF f
      <3> QED
        BY <3>1
    <2>3. \A e \in T : \E i \in 1 .. n : f[i] = e
      BY DEF Entries
    <2>4. n \in Nat
      OBVIOUS
    <2> HIDE DEF f, T
    <2>5. f \in Bijection(1 .. n, T)
      BY <2>1, <2>2, <2>3 DEF Bijection, Injection, Surjection, IsInjective
    <2>6. ExistsBijection(1 .. n, T)
      BY <2>5 DEF ExistsBijection
    <2>7. Cardinality(T) = n
      BY <2>4, <2>6, FS_CountingElements
    <2> QED
      BY <2>7 DEF T
  <1>2. ASSUME NEW v
        PROVE  Entries(Append(b, v), n) = Entries(b, n)
    <2>1. \A q \in 1 .. n : Append(b, v)[q] = b[q]
      OBVIOUS
    <2> QED
      BY <2>1 DEF Entries
  <1>3. ASSUME n >= 1
        PROVE  Entries(b, n) = Entries(b, n - 1) \cup {[pos |-> n, val |-> b[n]]}
    <2>1. \A q : q \in 1 .. n <=> q \in 1 .. n - 1 \/ q = n
      BY <1>3
    <2> QED
      BY <2>1 DEF Entries
  <1> QED
    BY <1>1, <1>2, <1>3

\* An insert that is on its way changes no entry.
LEMMA OnTheWay ==
  ASSUME IInv, IInv', Says, Says', root # 0, root' # 0, ~built, ~built',
         \/ buf' = buf /\ at # 0 /\ at' # 0
         \/ at = 0 /\ at' # 0 /\ \E val : buf' = Append(buf, val)
  PROVE  Held' = Held
  <1>1. Held = Entries(buf, Done(buf, at)) /\ Held' = Entries(buf', Done(buf', at'))
    BY DEF Says
  <1>2. buf \in Seq(Val) /\ Len(buf) \in Nat
    BY DEF IInv
  <1>3. CASE buf' = buf /\ at # 0 /\ at' # 0
    BY <1>1, <1>3 DEF Done
  <1>4. CASE at = 0 /\ at' # 0 /\ \E val : buf' = Append(buf, val)
    <2>1. PICK val : buf' = Append(buf, val)
      BY <1>4
    <2>2. Len(buf') = Len(buf) + 1
      BY <1>2, <2>1
    <2>3. Done(buf, at) = Len(buf) /\ Done(buf', at') = Len(buf)
      BY <1>2, <1>4, <2>2 DEF Done
    <2>4. Entries(Append(buf, val), Len(buf)) = Entries(buf, Len(buf))
      BY <1>2, EntriesOf
    <2> QED
      BY <1>1, <2>1, <2>3, <2>4
  <1> QED
    BY <1>3, <1>4

\* RefinesOrderedIndex: the tree is an index of its column, through inserts, shutdowns
\* and starts.
THEOREM ImplementsOrderedIndex == Spec => RefinesOrderedIndex
  <1>1. IInv => Says
    BY InvariantSays
  <1>2. Init /\ IInv /\ Says => Abstract!Init
    <2> SUFFICES ASSUME Init, IInv, Says
                 PROVE  Abstract!Init
      OBVIOUS
    <2>1. root = 1 /\ buf = <<>> /\ at = 0 /\ file = <<>>
      BY DEF Init
    <2>2. root # 0 /\ Len(buf) = 0 /\ buf \in Seq(Val)
      BY <2>1
    <2>3. Done(buf, at) = 0
      BY <2>1, <2>2 DEF Done
    <2>4. Entries(buf, 0) = {}
      BY DEF Entries
    <2>5. Held = {} /\ Stock(file) = {}
      BY <2>1, <2>2, <2>3, <2>4 DEF Says
    <2> QED
      BY <2>2, <2>5 DEF Abstract!Init, Stock
  <1>3. IInv /\ IInv' /\ Says /\ Says' /\ [Next]_vars => [Abstract!Next]_Abstract!vars
    <2> SUFFICES ASSUME IInv, IInv', Says, Says', [Next]_vars
                 PROVE  [Abstract!Next]_Abstract!vars
      OBVIOUS
    <2>1. ASSUME Held' = Held, file' = file, root # 0, root' # 0
          PROVE  UNCHANGED Abstract!vars
      BY <2>1 DEF Abstract!vars
    <2>2. /\ buf \in Seq(Val) /\ Len(buf) \in Nat /\ built \in BOOLEAN
          /\ root # 0 => Growing(node, root, buf, at)
          /\ built => at = 0
          /\ root = 0 => built /\ file # <<>>
          /\ file # <<>> => built
      BY DEF IInv
    <2>3. ASSUME NEW val \in Val, BtInsert(val)
          PROVE  UNCHANGED Abstract!vars
      <3>1. ~built /\ at = 0 /\ built' = built /\ file' = file /\ buf' = Append(buf, val)
        BY <2>3 DEF BtInsert
      <3>2. root # 0
        BY <2>2, <3>1
      <3>3. Arriving(node', root', buf', at')
        BY <2>2, <2>3, <3>2, InsertGrows
      <3>4. at' # 0 /\ root' # 0
        BY <3>3, GrowingNodes DEF Arriving
      <3>5. Held' = Held
        BY <3>1, <3>2, <3>4, OnTheWay
      <3> QED
        BY <2>1, <3>1, <3>2, <3>4, <3>5
    <2>4. ASSUME BtInsertIntoInner
          PROVE  UNCHANGED Abstract!vars
      <3>1. at # 0 /\ built' = built /\ file' = file /\ buf' = buf
        BY <2>4 DEF BtInsertIntoInner
      <3>2. root # 0 /\ ~built
        BY <2>2, <3>1
      <3>3. Arriving(node', root', buf', at')
        BY <2>2, <2>4, <3>2, InnerGrows
      <3>4. at' # 0 /\ root' # 0
        BY <3>3, GrowingNodes DEF Arriving
      <3>5. Held' = Held
        BY <3>1, <3>2, <3>4, OnTheWay
      <3> QED
        BY <2>1, <3>1, <3>2, <3>4, <3>5
    <2>5. ASSUME BtInsertIntoLeaf
          PROVE  Abstract!Next
      <3>1. at # 0 /\ built' = built /\ file' = file /\ buf' = buf /\ at' = 0 /\ root' = root
        BY <2>5 DEF BtInsertIntoLeaf
      <3>2. root # 0 /\ ~built /\ root' # 0
        BY <2>2, <3>1
      <3> DEFINE n == Len(buf)  e == [pos |-> n, val |-> buf[n]]
      <3>3. n \in Nat /\ n >= 1
        BY <2>2, <3>1, <3>2, GrowingNodes
      <3>4. Held = Entries(buf, n - 1) /\ Held' = Entries(buf, n)
        BY <3>1, <3>2 DEF Says, Done
      <3>5. /\ Cardinality(Entries(buf, n - 1)) = n - 1
            /\ Entries(buf, n) = Entries(buf, n - 1) \cup {e}
        <4> HIDE DEF n
        <4>1. n - 1 \in 0 .. Len(buf) /\ n \in 0 .. Len(buf)
          BY <3>3 DEF n
        <4>2. Cardinality(Entries(buf, n - 1)) = n - 1
          BY <2>2, <4>1, EntriesOf
        <4>3. Entries(buf, n) = Entries(buf, n - 1) \cup {[pos |-> n, val |-> buf[n]]}
          BY <2>2, <3>3, <4>1, EntriesOf
        <4> QED
          BY <4>2, <4>3
      <3>6. Held' = Held \cup {e} /\ Cardinality(Held) + 1 = n
        BY <3>3, <3>4, <3>5
      <3>7. buf[n] \in MinData .. MaxData
        <4>1. n \in 1 .. Len(buf)
          BY <3>3
        <4> HIDE DEF n
        <4>2. buf[n] \in Val
          BY <2>2, <4>1
        <4> QED
          BY <4>2 DEF Val
      <3> HIDE DEF n
      <3>8. e \in [pos : {n}, val : MinData .. MaxData]
        BY <3>7
      <3>9. e \in Abstract!Entry(Abstract!Cardinality(Held) + 1)
        <4>1. Abstract!Cardinality(Held) = Cardinality(Held)
          BY DEF Abstract!Cardinality, Cardinality
        <4> QED
          BY <3>6, <3>8, <4>1 DEF Abstract!Entry
      <3> HIDE DEF e
      <3>10. Abstract!Add
        BY <3>1, <3>2, <3>6, <3>9 DEF Abstract!Add
      <3> QED
        BY <3>10 DEF Abstract!Next
    <2>6. ASSUME CreateBtreeIndex
          PROVE  UNCHANGED Abstract!vars
      <3>1. ~built /\ at' = at /\ root' = root /\ buf' = buf /\ file' = file
        BY <2>6 DEF CreateBtreeIndex
      <3>2. root # 0
        BY <2>2, <3>1
      <3>3. Held = Entries(buf, Done(buf, at)) /\ Held' = Entries(buf', Done(buf', at'))
        BY <3>1, <3>2 DEF Says
      <3>4. Held' = Held
        BY <3>1, <3>3 DEF Done
      <3> QED
        BY <2>1, <3>1, <3>2, <3>4
    <2>7. ASSUME PersistBtreeIndex
          PROVE  Abstract!Next
      <3>1. built /\ root # 0 /\ root' = 0 /\ buf' = buf
        BY <2>7 DEF PersistBtreeIndex
      <3>2. at = 0 /\ file' # <<>>
        BY <2>2, <3>1 DEF IInv
      <3>3. Held = Entries(buf, Len(buf)) /\ Held' = {} /\ Stock(file') = Entries(buf, Len(buf))
        BY <3>1, <3>2 DEF Says, Done
      <3>4. Abstract!Save
        BY <3>1, <3>3 DEF Abstract!Save, Stock
      <3> QED
        BY <3>4 DEF Abstract!Next
    <2>8. ASSUME LoadBtreeIndex
          PROVE  Abstract!Next
      <3>1. root = 0 /\ root' = 1 /\ file' = file /\ buf' = buf /\ at' = at
        BY <2>8 DEF LoadBtreeIndex
      <3>2. built /\ at = 0 /\ file # <<>>
        BY <2>2, <3>1
      <3>3. Held' = Entries(buf, Len(buf)) /\ Stock(file) = Entries(buf, Len(buf))
        BY <3>1, <3>2 DEF Says, Done
      <3>4. Abstract!Recover
        BY <3>1, <3>3 DEF Abstract!Recover, Stock
      <3> QED
        BY <3>4 DEF Abstract!Next
    <2>9. CASE UNCHANGED vars
      <3>1. at' = at /\ root' = root /\ buf' = buf /\ file' = file
        BY <2>9 DEF vars
      <3>2. Held' = Held
        <4>1. CASE root = 0
          BY <3>1, <4>1 DEF Says
        <4>2. CASE root # 0
          <5>1. Held = Entries(buf, Done(buf, at)) /\ Held' = Entries(buf', Done(buf', at'))
            BY <3>1, <4>2 DEF Says
          <5> QED
            BY <3>1, <5>1 DEF Done
        <4> QED
          BY <4>1, <4>2
      <3> QED
        BY <3>1, <3>2 DEF Abstract!vars
    <2> QED
      BY <2>3, <2>4, <2>5, <2>6, <2>7, <2>8, <2>9 DEF Next
  <1> QED
    BY <1>1, <1>2, <1>3, Invariant, PTL DEF Spec, RefinesOrderedIndex, Abstract!Spec
=============================================================================
