--------------------------- MODULE Session_proofs ---------------------------
(***************************************************************************)
(* The joins and the aggregates, and the invariants of the session that    *)
(* uses them: first the algorithms, then the state machine.                *)
(***************************************************************************)
EXTENDS Session, Vectors_proofs, SequenceTheorems

-----------------------------------------------------------------------------
(***************************************************************************)
(* What the joins and the aggregates compute, for vectors of every length, *)
(* blocks of every size and hash tables of every number of buckets.        *)
(*                                                                         *)
(* The joins are loops that put lists one after the other: so first what   *)
(* becomes of lists, and how the blocks divide a vector.                   *)
(***************************************************************************)

---------------------------------------------------------------------------
(* Lists.                                                                  *)

\* The elements of a finite set of numbers have different ranks, and have them all.
LEMMA Ranks ==
  ASSUME NEW S, S \subseteq Int, IsFiniteSet(S)
  PROVE  /\ Cardinality(S) \in Nat
         /\ \A x \in S : Cardinality(Below(S, x)) \in 0 .. Cardinality(S) - 1
         /\ \A x, y \in S : x < y => Cardinality(Below(S, x)) < Cardinality(Below(S, y))
         /\ \A k \in 0 .. Cardinality(S) - 1 : \E x \in S : Cardinality(Below(S, x)) = k
  <1> DEFINE n == Cardinality(S)
             rank == [x \in S |-> Cardinality(Below(S, x))]
  <1>1. n \in Nat
    BY FS_CardinalityType
  <1>2. ASSUME NEW x \in S
        PROVE  /\ IsFiniteSet(Below(S, x)) /\ Cardinality(Below(S, x)) \in Nat
               /\ Cardinality(Below(S, x)) < n
    <2>1. Below(S, x) \in SUBSET S /\ x \notin Below(S, x)
      BY DEF Below
    <2>2. IsFiniteSet(Below(S, x)) /\ Cardinality(Below(S, x)) <= n /\ n # Cardinality(Below(S, x))
      BY <2>1, FS_Subset
    <2>3. Cardinality(Below(S, x)) \in Nat
      BY <2>2, FS_CardinalityType
    <2> QED
      BY <1>1, <2>2, <2>3
  <1>3. ASSUME NEW x \in S, NEW y \in S, x < y
        PROVE  Cardinality(Below(S, x)) < Cardinality(Below(S, y))
    <2>1. Below(S, x) \in SUBSET Below(S, y) /\ x \in Below(S, y) /\ x \notin Below(S, x)
      <3>1. ASSUME NEW z \in S, z < x
            PROVE  z < y
        <4>1. x \in Int /\ y \in Int /\ z \in Int
          OBVIOUS
        <4> QED
          BY <1>3, <3>1, <4>1
      <3>2. ~(x < x)
        <4>1. x \in Int
          OBVIOUS
        <4> QED
          BY <4>1
      <3>3. Below(S, x) \subseteq Below(S, y)
        BY <3>1 DEF Below
      <3> QED
        BY <1>3, <3>2, <3>3 DEF Below
    <2>2. /\ Cardinality(Below(S, x)) <= Cardinality(Below(S, y))
          /\ Cardinality(Below(S, y)) # Cardinality(Below(S, x))
      BY <1>2, <2>1, FS_Subset
    <2> QED
      BY <1>2, <2>2
  <1>4. \A k \in 0 .. n - 1 : \E x \in S : Cardinality(Below(S, x)) = k
    <2>1. rank \in [S -> 0 .. n - 1]
      BY <1>1, <1>2
    <2>2. \A x, y \in S : rank[x] = rank[y] => x = y
      <3> SUFFICES ASSUME NEW x \in S, NEW y \in S, x # y
                   PROVE  rank[x] # rank[y]
        OBVIOUS
      <3>1. x < y \/ y < x
        OBVIOUS
      <3> QED
        BY <1>2, <1>3, <3>1
    <2>3. rank \in Injection(S, 0 .. n - 1)
      BY <2>1, <2>2 DEF Injection, IsInjective
    <2>4. IsFiniteSet(0 .. n - 1) /\ Cardinality(0 .. n - 1) = n
      BY SMTT(30), <1>1, FS_Interval
    <2>5. rank \in Surjection(S, 0 .. n - 1)
      BY <2>3, <2>4, FS_Injection
    <2> QED
      BY <2>5 DEF Surjection
  <1> QED
    BY <1>1, <1>2, <1>3, <1>4

\* Ordered lists each element of a set once, in ascending order.
LEMMA OrderedLists ==
  ASSUME NEW S, S \subseteq Int, IsFiniteSet(S)
  PROVE  /\ Ordered(S) \in Seq(S)
         /\ Range(Ordered(S)) = S
         /\ \A j, k \in DOMAIN Ordered(S) : j < k => Ordered(S)[j] < Ordered(S)[k]
         /\ IsInjective(Ordered(S))
  <1> DEFINE n == Cardinality(S)
             s == Ordered(S)
             Rank(x) == Cardinality(Below(S, x))
  <1>1. /\ n \in Nat
        /\ \A x \in S : Rank(x) \in 0 .. n - 1
        /\ \A x, y \in S : x < y => Rank(x) < Rank(y)
        /\ \A k \in 0 .. n - 1 : \E x \in S : Rank(x) = k
    BY Ranks
  <1>2. s = [k \in 1 .. n |-> CHOOSE x \in S : Rank(x) = k - 1]
    BY DEF Ordered
  <1> HIDE DEF n, s, Rank
  <1>3. \A k \in 1 .. n : s[k] \in S /\ Rank(s[k]) = k - 1
    <2> TAKE k \in 1 .. n
    <2>1. k - 1 \in 0 .. n - 1
      BY <1>1
    <2>2. \E x \in S : Rank(x) = k - 1
      BY <1>1, <2>1
    <2> QED
      BY <1>2, <2>2
  <1>4. DOMAIN s = 1 .. n /\ s \in [1 .. n -> S]
    BY <1>2, <1>3
  <1>5. s \in Seq(S)
    BY <1>1, <1>4
  <1>6. S \subseteq Range(s)
    <2> SUFFICES ASSUME NEW x \in S
                 PROVE  x \in Range(s)
      OBVIOUS
    <2>1. Rank(x) \in 0 .. n - 1
      BY <1>1
    <2>2. Rank(x) + 1 \in 1 .. n /\ (Rank(x) + 1) - 1 = Rank(x)
      BY <1>1, <2>1
    <2> DEFINE y == s[Rank(x) + 1]
    <2>3. y \in S /\ Rank(y) = Rank(x)
      BY <1>3, <2>2
    <2>4. y = x
      <3>1. y \in S /\ Rank(y) = Rank(x) /\ Rank(x) \in Int
        BY <2>1, <2>3
      <3> HIDE DEF y
      <3>2. x \in Int /\ y \in Int
        BY <3>1
      <3>3. y < x \/ x < y \/ x = y
        BY <3>2
      <3>4. ~(y < x) /\ ~(x < y)
        BY <1>1, <3>1
      <3> QED
        BY <3>3, <3>4
    <2> QED
      BY <1>4, <2>2, <2>4 DEF Range
  <1>7. Range(s) = S
    BY <1>4, <1>6 DEF Range
  <1>8. ASSUME NEW j \in DOMAIN s, NEW k \in DOMAIN s, j < k
        PROVE  s[j] < s[k]
    <2>1. s[j] \in S /\ s[k] \in S /\ Rank(s[j]) = j - 1 /\ Rank(s[k]) = k - 1
      BY <1>3, <1>4
    <2>2. j \in Int /\ k \in Int
      BY <1>1, <1>4
    <2>3. Rank(s[j]) < Rank(s[k])
      BY <1>8, <2>1, <2>2
    <2>4. s[j] \in Int /\ s[k] \in Int
      BY <2>1
    <2>5. Rank(s[j]) \in Int /\ Rank(s[k]) \in Int
      BY <2>1, <2>2
    <2>6. ~(s[k] < s[j])
      <3>1. s[k] < s[j] => Rank(s[k]) < Rank(s[j])
        BY <1>1, <2>1
      <3> QED
        BY <2>3, <2>5, <3>1
    <2>7. s[k] # s[j]
      BY <2>3, <2>5
    <2> QED
      BY <2>4, <2>6, <2>7
  <1>9. IsInjective(s)
    <2> SUFFICES ASSUME NEW j \in DOMAIN s, NEW k \in DOMAIN s, j # k
                 PROVE  s[j] # s[k]
      BY DEF IsInjective
    <2>1. j < k \/ k < j
      BY <1>4
    <2>2. s[j] \in Int /\ s[k] \in Int
      BY <1>3, <1>4
    <2> QED
      BY <1>8, <2>1, <2>2
  <1> QED
    BY <1>5, <1>7, <1>8, <1>9 DEF s

\* Two lists in a row hold what each of them holds, and nothing twice if neither
\* does and they have nothing in common.
LEMMA Joining ==
  ASSUME NEW T, NEW s \in Seq(T), NEW t \in Seq(T)
  PROVE  /\ s \o t \in Seq(T)
         /\ Range(s \o t) = Range(s) \cup Range(t)
         /\ IsInjective(s) /\ IsInjective(t) /\ Range(s) \cap Range(t) = {} => IsInjective(s \o t)
  <1> DEFINE u == s \o t
  <1>1. u \in Seq(T)
    BY ConcatProperties
  <1>2. Len(u) = Len(s) + Len(t) /\ Len(s) \in Nat /\ Len(t) \in Nat
    BY ConcatProperties
  <1>3. \A i \in 1 .. Len(s) : u[i] = s[i]
    OBVIOUS
  <1>4. \A i \in 1 .. Len(t) : u[Len(s) + i] = t[i]
    OBVIOUS
  <1>5. DOMAIN s = 1 .. Len(s) /\ DOMAIN t = 1 .. Len(t) /\ DOMAIN u = 1 .. Len(u)
    BY <1>1
  <1> HIDE DEF u
  <1>6. \A i \in DOMAIN u : i \in DOMAIN s \/ \E j \in DOMAIN t : i = Len(s) + j
    <2> SUFFICES ASSUME NEW i \in DOMAIN u, i \notin DOMAIN s
                 PROVE  \E j \in DOMAIN t : i = Len(s) + j
      OBVIOUS
    <2>1. i - Len(s) \in DOMAIN t /\ i = Len(s) + (i - Len(s))
      BY <1>2, <1>5
    <2> QED
      BY <2>1
  <1>7. Range(u) \subseteq Range(s) \cup Range(t)
    BY <1>3, <1>4, <1>5, <1>6 DEF Range
  <1>8. DOMAIN s \subseteq DOMAIN u /\ \A j \in DOMAIN t : Len(s) + j \in DOMAIN u
    BY <1>2, <1>5
  <1>9. Range(s) \subseteq Range(u)
    BY <1>3, <1>5, <1>8 DEF Range
  <1>10. Range(t) \subseteq Range(u)
    BY <1>4, <1>5, <1>8 DEF Range
  <1>11. ASSUME IsInjective(s), IsInjective(t), Range(s) \cap Range(t) = {},
                NEW i \in DOMAIN u, NEW j \in DOMAIN u, u[i] = u[j]
         PROVE  i = j
    <2>1. CASE i \in DOMAIN s /\ j \in DOMAIN s
      BY <1>3, <1>5, <1>11, <2>1 DEF IsInjective
    <2>2. CASE i \in DOMAIN s /\ j \notin DOMAIN s
      <3>1. u[i] \in Range(s) /\ u[j] \in Range(t)
        BY <1>3, <1>4, <1>5, <1>6, <2>2 DEF Range
      <3> QED
        BY <1>11, <3>1
    <2>3. CASE i \notin DOMAIN s /\ j \in DOMAIN s
      <3>1. u[i] \in Range(t) /\ u[j] \in Range(s)
        BY <1>3, <1>4, <1>5, <1>6, <2>3 DEF Range
      <3> QED
        BY <1>11, <3>1
    <2>4. CASE i \notin DOMAIN s /\ j \notin DOMAIN s
      <3>1. PICK a \in DOMAIN t : i = Len(s) + a
        BY <1>6, <2>4
      <3>2. PICK b \in DOMAIN t : j = Len(s) + b
        BY <1>6, <2>4
      <3>3. t[a] = t[b]
        BY <1>4, <1>5, <1>11, <3>1, <3>2
      <3> QED
        BY <1>11, <3>1, <3>2, <3>3 DEF IsInjective
    <2> QED
      BY <2>1, <2>2, <2>3, <2>4
  <1> QED
    BY <1>1, <1>7, <1>9, <1>10, <1>11 DEF IsInjective, u

\* Lists one after the other hold what each of them holds, and nothing twice if none
\* does and no two have anything in common.
LEMMA Flattening ==
  ASSUME NEW T, NEW ss \in Seq(Seq(T))
  PROVE  /\ FlattenSeq(ss) \in Seq(T)
         /\ Range(FlattenSeq(ss)) = UNION { Range(ss[k]) : k \in DOMAIN ss }
         /\ (/\ \A k \in DOMAIN ss : IsInjective(ss[k])
             /\ \A j, k \in DOMAIN ss : j < k => Range(ss[j]) \cap Range(ss[k]) = {})
            => IsInjective(FlattenSeq(ss))
  <1>1. DOMAIN ss = 1 .. Len(ss) /\ Len(ss) \in Nat /\ \A k \in 1 .. Len(ss) : ss[k] \in Seq(T)
    OBVIOUS
  <1>2. CASE Len(ss) = 0
    <2>1. FlattenSeq(ss) = ss /\ ss = <<>>
      BY <1>2 DEF FlattenSeq
    <2>2. DOMAIN ss = {}
      BY <1>1, <1>2
    <2> QED
      BY <2>1, <2>2 DEF Range, IsInjective
  <1>3. CASE Len(ss) # 0
    <2> DEFINE S == 1 .. Len(ss)
               Body(f) == [i \in S |-> IF i = 1 THEN ss[i] ELSE f[i - 1] \o ss[i]]
               G == [f \in [S -> Seq(T)] |-> Body(f)]
               m == [i \in S |-> i]
    <2>1. \E f \in [S -> Seq(T)] : f = Body(f)
      <3>1. ASSUME NEW f \in [S -> Seq(T)]
            PROVE  Body(f) \in [S -> Seq(T)]
        <4> SUFFICES ASSUME NEW i \in S
                     PROVE  (IF i = 1 THEN ss[i] ELSE f[i - 1] \o ss[i]) \in Seq(T)
          OBVIOUS
        <4>1. CASE i = 1
          BY <1>1, <4>1
        <4>2. CASE i # 1
          <5>1. i - 1 \in S
            BY <1>1, <4>2
          <5>2. f[i - 1] \in Seq(T) /\ ss[i] \in Seq(T)
            BY <1>1, <5>1
          <5>3. f[i - 1] \o ss[i] \in Seq(T)
            BY <5>2, ConcatProperties
          <5> QED
            BY <4>2, <5>3
        <4> QED
          BY <4>1, <4>2
      <3>2. Measured(S, m, Len(ss) + 1)
        BY <1>1 DEF Measured
      <3>3. Descends(S, Seq(T), m, G)
        <4>1. Seq(T) # {}
          BY <1>1, <1>3
        <4>2. G \in [[S -> Seq(T)] -> [S -> Seq(T)]]
          BY <3>1
        <4>3. ASSUME NEW g \in [S -> Seq(T)], NEW h \in [S -> Seq(T)], NEW i \in S,
                     \A j \in S : m[j] < m[i] => g[j] = h[j]
              PROVE  G[g][i] = G[h][i]
          <5>1. i # 1 => i - 1 \in S /\ m[i - 1] < m[i]
            BY <1>1
          <5>2. i # 1 => g[i - 1] = h[i - 1]
            BY <4>3, <5>1
          <5>3. G[g] = Body(g) /\ G[h] = Body(h)
            OBVIOUS
          <5> QED
            BY <5>2, <5>3
        <4> QED
          BY <4>1, <4>2, <4>3 DEF Descends
      <3>4. PICK f \in [S -> Seq(T)] : f = G[f]
        <4> HIDE DEF S, G, m
        <4> QED
          BY <3>2, <3>3, RecursiveFunction
      <3> QED
        BY <3>4
    <2> DEFINE f == CHOOSE g : g = Body(g)
    <2>2. f = Body(f)
      <3> HIDE DEF Body
      <3> QED
        BY <2>1
    <2>3. FlattenSeq(ss) = f[Len(ss)]
      BY <1>3 DEF FlattenSeq
    <2> DEFINE Upto(i) == { Range(ss[k]) : k \in 1 .. i }
               Apart(i) == /\ \A k \in 1 .. i : IsInjective(ss[k])
                           /\ \A j, k \in 1 .. i : j < k => Range(ss[j]) \cap Range(ss[k]) = {}
               Good(i) == /\ f[i] \in Seq(T)
                          /\ Range(f[i]) = UNION Upto(i)
                          /\ Apart(i) => IsInjective(f[i])
               N == { n \in Nat : n + 1 \in S => Good(n + 1) }
    <2> HIDE DEF f
    <2>4. 0 \in N
      <3>1. 1 \in S /\ f[1] = ss[1]
        BY <1>1, <1>3, <2>2
      <3>2. Upto(1) = {Range(ss[1])}
        OBVIOUS
      <3>3. Range(f[1]) = UNION Upto(1)
        BY <3>1, <3>2
      <3>4. f[1] \in Seq(T)
        BY <1>1, <3>1
      <3>5. Apart(1) => IsInjective(f[1])
        BY <3>1
      <3>6. Good(1)
        BY <3>3, <3>4, <3>5
      <3> HIDE DEF Good
      <3> QED
        BY <3>6
    <2>5. ASSUME NEW n \in Nat, n \in N
          PROVE  n + 1 \in N
      <3> SUFFICES ASSUME n + 1 + 1 \in S
                   PROVE  Good(n + 1 + 1)
        <4> HIDE DEF Good, S
        <4> QED
          OBVIOUS
      <3>1. n + 1 \in S /\ n + 1 + 1 # 1 /\ n + 1 + 1 - 1 = n + 1
        BY <1>1
      <3>2. Good(n + 1)
        <4> HIDE DEF Good
        <4> QED
          BY <2>5, <3>1
      <3>3. f[n + 1 + 1] = f[n + 1] \o ss[n + 1 + 1]
        <4>1. \A i \in S, h \in Nat : i # 1 /\ h = i - 1 => f[i] = f[h] \o ss[i]
          BY <2>2
        <4> DEFINE k == n + 1 + 1
        <4>2. k \in S /\ n + 1 \in Nat /\ k # 1 /\ n + 1 = k - 1
          BY <3>1
        <4>3. f[k] = f[n + 1] \o ss[k]
          <5> HIDE DEF k, S
          <5> QED
            BY <4>1, <4>2
        <4> QED
          BY <4>3
      <3> DEFINE i == n + 1
                 j == n + 1 + 1
      <3>4. ss[j] \in Seq(T)
        BY <1>1
      <3>5. 1 .. j = (1 .. i) \cup {j}
        OBVIOUS
      <3>6. i < j /\ \A k \in 1 .. i : k < j
        OBVIOUS
      <3> HIDE DEF i, j, f
      <3>7. f[i] \in Seq(T) /\ Range(f[i]) = UNION Upto(i) /\ (Apart(i) => IsInjective(f[i]))
        BY <3>2 DEF i
      <3>8. f[j] = f[i] \o ss[j]
        BY <3>3 DEF i, j
      <3>9. /\ f[j] \in Seq(T) /\ Range(f[j]) = Range(f[i]) \cup Range(ss[j])
            /\ IsInjective(f[i]) /\ IsInjective(ss[j]) /\ Range(f[i]) \cap Range(ss[j]) = {}
                 => IsInjective(f[j])
        <4>1. /\ f[i] \o ss[j] \in Seq(T)
              /\ Range(f[i] \o ss[j]) = Range(f[i]) \cup Range(ss[j])
              /\ IsInjective(f[i]) /\ IsInjective(ss[j]) /\ Range(f[i]) \cap Range(ss[j]) = {}
                   => IsInjective(f[i] \o ss[j])
          BY <3>4, <3>7, Joining
        <4> QED
          BY <3>8, <4>1
      <3>10. UNION Upto(j) = (UNION Upto(i)) \cup Range(ss[j])
        BY <3>5
      <3>11. ASSUME Apart(j)
             PROVE  IsInjective(f[j])
        <4>1. Apart(i) /\ IsInjective(ss[j]) /\ \A k \in 1 .. i : Range(ss[k]) \cap Range(ss[j]) = {}
          BY <3>5, <3>6, <3>11
        <4>2. (UNION Upto(i)) \cap Range(ss[j]) = {}
          BY <4>1
        <4> QED
          BY <3>7, <3>9, <4>1, <4>2
      <3>12. Good(j)
        BY <3>7, <3>9, <3>10, <3>11
      <3> QED
        BY <3>12 DEF j
    <2>6. Good(Len(ss))
      <3> HIDE DEF N
      <3>1. Nat \subseteq N
        BY <2>4, <2>5, SetInduction
      <3>2. Len(ss) - 1 \in Nat /\ Len(ss) - 1 + 1 = Len(ss)
        BY <1>1, <1>3
      <3>3. Len(ss) - 1 \in N
        BY <3>1, <3>2
      <3> HIDE DEF Good
      <3> QED
        BY <1>1, <1>3, <3>2, <3>3 DEF N
    <2> QED
      BY <1>1, <2>3, <2>6
  <1> QED
    BY <1>2, <1>3

\* The lists L[x], for the elements x of S in ascending order, one after the other.
InOrder(S, L) == FlattenSeq([k \in DOMAIN Ordered(S) |-> L[Ordered(S)[k]]])

\* A loop over a set of numbers, in ascending order, that emits a list for each.
LEMMA Loops ==
  ASSUME NEW T, NEW S, S \subseteq Int, IsFiniteSet(S), NEW L \in [S -> Seq(T)]
  PROVE  /\ InOrder(S, L) \in Seq(T)
         /\ Range(InOrder(S, L)) = UNION { Range(L[x]) : x \in S }
         /\ (/\ \A x \in S : IsInjective(L[x])
             /\ \A x, y \in S : x # y => Range(L[x]) \cap Range(L[y]) = {})
            => IsInjective(InOrder(S, L))
  <1> DEFINE order == Ordered(S)
             ss == [k \in DOMAIN order |-> L[order[k]]]
  <1>1. order \in Seq(S) /\ Range(order) = S /\ IsInjective(order)
    BY OrderedLists
  <1> HIDE DEF order
  <1>2. DOMAIN order = 1 .. Len(order) /\ Len(order) \in Nat /\ \A k \in DOMAIN order : order[k] \in S
    BY <1>1
  <1>3. DOMAIN ss = DOMAIN order /\ \A k \in DOMAIN order : ss[k] = L[order[k]] /\ ss[k] \in Seq(T)
    BY <1>2
  <1>4. ss \in Seq(Seq(T))
    BY <1>2, <1>3
  <1>5. /\ FlattenSeq(ss) \in Seq(T)
        /\ Range(FlattenSeq(ss)) = UNION { Range(ss[k]) : k \in DOMAIN ss }
        /\ (/\ \A k \in DOMAIN ss : IsInjective(ss[k])
            /\ \A j, k \in DOMAIN ss : j < k => Range(ss[j]) \cap Range(ss[k]) = {})
           => IsInjective(FlattenSeq(ss))
    BY <1>4, Flattening
  <1> HIDE DEF ss
  <1>6. { Range(ss[k]) : k \in DOMAIN ss } = { Range(L[x]) : x \in S }
    <2>1. \A x \in S : \E k \in DOMAIN order : order[k] = x
      BY <1>1 DEF Range
    <2>2. ASSUME NEW k \in DOMAIN ss
          PROVE  Range(ss[k]) \in { Range(L[x]) : x \in S }
      <3>1. order[k] \in S /\ ss[k] = L[order[k]]
        BY <1>2, <1>3
      <3> QED
        BY <3>1
    <2>3. ASSUME NEW x \in S
          PROVE  Range(L[x]) \in { Range(ss[k]) : k \in DOMAIN ss }
      <3>1. PICK k \in DOMAIN order : order[k] = x
        BY <2>1
      <3>2. k \in DOMAIN ss /\ ss[k] = L[x]
        BY <1>3, <3>1
      <3> QED
        BY <3>2
    <2> QED
      BY <2>2, <2>3
  <1>7. ASSUME \A x \in S : IsInjective(L[x]),
               \A x, y \in S : x # y => Range(L[x]) \cap Range(L[y]) = {}
        PROVE  IsInjective(FlattenSeq(ss))
    <2>1. \A k \in DOMAIN ss : IsInjective(ss[k])
      BY <1>2, <1>3, <1>7
    <2>2. ASSUME NEW j \in DOMAIN ss, NEW k \in DOMAIN ss, j < k
          PROVE  Range(ss[j]) \cap Range(ss[k]) = {}
      <3>1. j \in DOMAIN order /\ k \in DOMAIN order /\ j # k
        BY <1>2, <1>3, <2>2
      <3>2. order[j] # order[k]
        BY <1>1, <3>1 DEF IsInjective
      <3> QED
        <4> DEFINE x == order[j]  y == order[k]
        <4>1. x \in S /\ y \in S /\ x # y /\ ss[j] = L[x] /\ ss[k] = L[y]
          BY <1>2, <1>3, <3>1, <3>2
        <4> HIDE DEF x, y
        <4> QED
          BY <1>7, <4>1
    <2> QED
      BY <1>5, <2>1, <2>2
  <1> QED
    BY <1>5, <1>6, <1>7 DEF ss, order, InOrder

\* One element paired with each of a list, on either side.
PairsWith(a, s) == [k \in DOMAIN s |-> <<a, s[k]>>]
PairsTo(s, a) == [k \in DOMAIN s |-> <<s[k], a>>]

\* A list of pairs of one thing with each element of a list.
LEMMA Pairing ==
  ASSUME NEW A, NEW B, NEW a \in A, NEW s \in Seq(B), IsInjective(s)
  PROVE  /\ PairsWith(a, s) \in Seq(A \X B) /\ PairsTo(s, a) \in Seq(B \X A)
         /\ IsInjective(PairsWith(a, s)) /\ IsInjective(PairsTo(s, a))
  <1>1. DOMAIN s = 1 .. Len(s) /\ Len(s) \in Nat /\ \A k \in 1 .. Len(s) : s[k] \in B
    OBVIOUS
  <1>2. PairsWith(a, s) \in Seq(A \X B)
    BY <1>1 DEF PairsWith
  <1>3. PairsTo(s, a) \in Seq(B \X A)
    BY <1>1 DEF PairsTo
  <1> QED
    BY <1>2, <1>3 DEF IsInjective, PairsWith, PairsTo

\* The reverse of a list holds the same.
LEMMA Reversing ==
  ASSUME NEW B, NEW s \in Seq(B)
  PROVE  /\ Reverse(s) \in Seq(B)
         /\ Range(Reverse(s)) = Range(s)
         /\ IsInjective(s) => IsInjective(Reverse(s))
  <1> DEFINE t == Reverse(s)
             n == Len(s)
  <1>1. n \in Nat /\ DOMAIN s = 1 .. n /\ \A k \in 1 .. n : s[k] \in B
    OBVIOUS
  <1>2. t = [k \in 1 .. n |-> s[(n - k) + 1]]
    BY DEF Reverse
  <1> HIDE DEF t, n
  <1>3. \A k \in 1 .. n : (n - k) + 1 \in 1 .. n /\ (n - ((n - k) + 1)) + 1 = k
    BY <1>1
  <1>4. t \in Seq(B) /\ DOMAIN t = 1 .. n
    BY <1>1, <1>2, <1>3
  <1>5. Range(t) \subseteq Range(s)
    BY <1>1, <1>2, <1>3, <1>4 DEF Range
  <1>6. ASSUME NEW k \in 1 .. n
        PROVE  s[k] = t[(n - k) + 1]
    BY <1>2, <1>3
  <1>7. Range(s) \subseteq Range(t)
    BY <1>1, <1>3, <1>4, <1>6 DEF Range
  <1>8. ASSUME IsInjective(s), NEW j \in 1 .. n, NEW k \in 1 .. n, t[j] = t[k]
        PROVE  j = k
    <2>1. s[(n - j) + 1] = s[(n - k) + 1]
      BY <1>2, <1>8
    <2>2. (n - j) + 1 = (n - k) + 1
      BY <1>1, <1>3, <1>8, <2>1 DEF IsInjective
    <2> QED
      BY <1>1, <2>2
  <1> QED
    BY <1>4, <1>5, <1>7, <1>8 DEF IsInjective, t

---------------------------------------------------------------------------
(* Joins.                                                                  *)

\* Every number is in one of the blocks from multiples of the block's size.
LEMMA Multiples ==
  ASSUME NEW n \in Nat
  PROVE  \E b \in Nat : b * PageSize <= n /\ n < b * PageSize + PageSize
  <1> DEFINE T == { m \in Nat : \E b \in Nat : b * PageSize <= m /\ m < b * PageSize + PageSize }
  <1>1. PageSize \in Nat \ {0}
    BY JoinAssumption
  <1>2. 0 \in T
    <2>1. 0 * PageSize = 0
      BY <1>1
    <2>2. 0 * PageSize <= 0 /\ 0 < 0 * PageSize + PageSize
      BY <1>1, <2>1
    <2> QED
      BY <2>2
  <1>3. ASSUME NEW m \in Nat, m \in T
        PROVE  m + 1 \in T
    <2>1. PICK b \in Nat : b * PageSize <= m /\ m < b * PageSize + PageSize
      BY <1>3
    <2>2. b * PageSize \in Nat /\ (b + 1) * PageSize = b * PageSize + PageSize
      BY <1>1
    <2>3. CASE m + 1 < b * PageSize + PageSize
      BY <2>1, <2>2, <2>3
    <2>4. CASE ~(m + 1 < b * PageSize + PageSize)
      <3>1. (b + 1) * PageSize <= m + 1 /\ m + 1 < (b + 1) * PageSize + PageSize
        BY <1>1, <2>1, <2>2, <2>4
      <3> QED
        BY <3>1
    <2> QED
      BY <2>3, <2>4
  <1>4. Nat \subseteq T
    <2> HIDE DEF T
    <2> QED
      BY <1>2, <1>3, SetInduction
  <1> QED
    BY <1>4

\* The blocks are a partition of the indexes of a vector.
LEMMA BlocksPartition ==
  ASSUME NEW length \in Nat
  PROVE  /\ Starts(length) \subseteq Int /\ IsFiniteSet(Starts(length))
         /\ \A i \in Starts(length) :
              Block(i, length) \subseteq 1 .. length /\ IsFiniteSet(Block(i, length))
         /\ \A r \in 1 .. length : \E i \in Starts(length) : r \in Block(i, length)
         /\ \A i, j \in Starts(length) : i # j => Block(i, length) \cap Block(j, length) = {}
  <1>1. PageSize \in Nat \ {0}
    BY JoinAssumption
  <1>2. Starts(length) \in SUBSET (0 .. length - 1) /\ IsFiniteSet(0 .. length - 1)
    BY FS_Interval DEF Starts
  <1>3. Starts(length) \subseteq Int /\ IsFiniteSet(Starts(length))
    BY <1>2, FS_Subset
  <1>4. ASSUME NEW i \in Starts(length)
        PROVE  /\ i \in Nat
               /\ \A r : r \in Block(i, length) <=> r \in Nat /\ i < r /\ r <= i + PageSize /\ r <= length
    <2>1. i \in Nat
      BY <1>2
    <2> QED
      BY <1>1, <2>1 DEF Block
  <1>5. ASSUME NEW i \in Starts(length)
        PROVE  Block(i, length) \subseteq 1 .. length /\ IsFiniteSet(Block(i, length))
    <2>1. Block(i, length) \in SUBSET (1 .. length) /\ IsFiniteSet(1 .. length)
      BY <1>4, FS_Interval
    <2> QED
      BY <2>1, FS_Subset
  <1>6. ASSUME NEW r \in 1 .. length
        PROVE  \E i \in Starts(length) : r \in Block(i, length)
    <2>1. r - 1 \in Nat /\ r - 1 < length /\ r \in Nat
      OBVIOUS
    <2>2. PICK b \in Nat : b * PageSize <= r - 1 /\ r - 1 < b * PageSize + PageSize
      BY <2>1, Multiples
    <2>3. b * PageSize \in Nat /\ b <= b * PageSize
      BY <1>1
    <2>4. b * PageSize \in 0 .. length - 1 /\ b \in 0 .. length
      BY <2>1, <2>2, <2>3
    <2>5. b * PageSize \in Starts(length)
      BY <2>4 DEF Starts
    <2>6. b * PageSize < r /\ r <= b * PageSize + PageSize /\ r <= length
      BY <1>1, <2>1, <2>2, <2>3
    <2>7. r \in Block(b * PageSize, length)
      BY <1>4, <2>1, <2>5, <2>6
    <2> QED
      BY <2>5, <2>7
  <1>7. ASSUME NEW i \in Starts(length), NEW j \in Starts(length), i # j,
               NEW r \in Block(i, length) \cap Block(j, length)
        PROVE  FALSE
    <2>1. /\ i \in Nat /\ j \in Nat /\ r \in Nat
          /\ i < r /\ r <= i + PageSize /\ j < r /\ r <= j + PageSize
      BY <1>4, <1>7
    <2>2. PICK b \in Nat : i = b * PageSize
      BY DEF Starts
    <2>3. PICK c \in Nat : j = c * PageSize
      BY DEF Starts
    <2>4. CASE b < c
      <3>1. b * PageSize + PageSize <= c * PageSize
        BY <1>1, <2>4
      <3> QED
        BY <1>1, <2>1, <2>2, <2>3, <3>1
    <2>5. CASE c < b
      <3>1. c * PageSize + PageSize <= b * PageSize
        BY <1>1, <2>5
      <3> QED
        BY <1>1, <2>1, <2>2, <2>3, <3>1
    <2> QED
      BY <1>7, <2>2, <2>3, <2>4, <2>5
  <1> QED
    BY <1>3, <1>5, <1>6, <1>7

\* nested_join emits every pair of equal values once and no other pair, for any two
\* vectors and any size of a block: the blocks miss no pair and visit none twice.
THEOREM NestedJoinIsExact ==
  ASSUME NEW T, NEW v1 \in Seq(T), NEW v2 \in Seq(T)
  PROVE  /\ NestedJoin(v1, v2) \in Seq((DOMAIN v1) \X (DOMAIN v2))
         /\ Range(NestedJoin(v1, v2)) = Equal(v1, v2)
         /\ IsInjective(NestedJoin(v1, v2))
  <1> DEFINE n1 == Len(v1)
             n2 == Len(v2)
             P == (DOMAIN v1) \X (DOMAIN v2)
             Hits(r, j) == { m \in Block(j, n2) : v1[r] = v2[m] }
             OfElement(r, j) ==
               LET equal == Ordered(Hits(r, j)) IN [k \in DOMAIN equal |-> <<r, equal[k]>>]
             OfBlocks(i, j) ==
               LET order == Ordered(Block(i, n1))
               IN  FlattenSeq([k \in DOMAIN order |-> OfElement(order[k], j)])
             OfBlock(i) ==
               LET order == Ordered(Starts(n2))
               IN  FlattenSeq([k \in DOMAIN order |-> OfBlocks(i, order[k])])
             All ==
               LET order == Ordered(Starts(n1))
               IN  FlattenSeq([k \in DOMAIN order |-> OfBlock(order[k])])
  <1>1. NestedJoin(v1, v2) = All
    BY DEF NestedJoin, ForEach
  <1>2. n1 \in Nat /\ n2 \in Nat /\ DOMAIN v1 = 1 .. n1 /\ DOMAIN v2 = 1 .. n2
    OBVIOUS
  <1>3. /\ Starts(n1) \subseteq Int /\ IsFiniteSet(Starts(n1))
        /\ \A i \in Starts(n1) : Block(i, n1) \subseteq 1 .. n1 /\ IsFiniteSet(Block(i, n1))
        /\ \A r \in 1 .. n1 : \E i \in Starts(n1) : r \in Block(i, n1)
        /\ \A i, j \in Starts(n1) : i # j => Block(i, n1) \cap Block(j, n1) = {}
    BY <1>2, BlocksPartition
  <1>4. /\ Starts(n2) \subseteq Int /\ IsFiniteSet(Starts(n2))
        /\ \A i \in Starts(n2) : Block(i, n2) \subseteq 1 .. n2 /\ IsFiniteSet(Block(i, n2))
        /\ \A r \in 1 .. n2 : \E i \in Starts(n2) : r \in Block(i, n2)
        /\ \A i, j \in Starts(n2) : i # j => Block(i, n2) \cap Block(j, n2) = {}
    BY <1>2, BlocksPartition
  <1> HIDE DEF n1, n2
  <1>5. ASSUME NEW r \in DOMAIN v1, NEW j \in Starts(n2)
        PROVE  /\ OfElement(r, j) \in Seq(P)
               /\ Range(OfElement(r, j)) = { <<r, m>> : m \in Hits(r, j) }
               /\ IsInjective(OfElement(r, j))
    <2>1. Hits(r, j) \in SUBSET Block(j, n2)
      OBVIOUS
    <2>2. IsFiniteSet(Hits(r, j)) /\ Hits(r, j) \subseteq DOMAIN v2 /\ Hits(r, j) \subseteq Int
      BY <1>2, <1>4, <2>1, FS_Subset
    <2> DEFINE equal == Ordered(Hits(r, j))
    <2>3. equal \in Seq(Hits(r, j)) /\ Range(equal) = Hits(r, j) /\ IsInjective(equal)
      <3> HIDE DEF Hits
      <3> QED
        BY <2>2, OrderedLists
    <2> HIDE DEF equal, Hits
    <2>4. equal \in Seq(DOMAIN v2)
      BY <2>2, <2>3
    <2>5. /\ PairsWith(r, equal) \in Seq((DOMAIN v1) \X (DOMAIN v2))
          /\ Range(PairsWith(r, equal)) = { <<r, m>> : m \in Range(equal) }
          /\ IsInjective(PairsWith(r, equal))
      <3> DEFINE A == DOMAIN v1  B == DOMAIN v2
      <3>1. r \in A /\ equal \in Seq(B) /\ IsInjective(equal)
        BY <2>3, <2>4
      <3> HIDE DEF A, B
      <3>2. PairsWith(r, equal) \in Seq(A \X B)
        BY <3>1, Pairing
      <3>3. Range(PairsWith(r, equal)) = { <<r, m>> : m \in Range(equal) }
        BY DEF PairsWith, Range
      <3>4. IsInjective(PairsWith(r, equal))
        BY <3>1, Pairing
      <3> QED
        BY <3>2, <3>3, <3>4 DEF A, B
    <2> QED
      BY <2>3, <2>5 DEF equal, PairsWith
  <1> HIDE DEF OfElement, P
  <1>6. ASSUME NEW i \in Starts(n1), NEW j \in Starts(n2)
        PROVE  /\ OfBlocks(i, j) \in Seq(P)
               /\ Range(OfBlocks(i, j)) =
                    UNION { Range(OfElement(r, j)) : r \in Block(i, n1) }
               /\ IsInjective(OfBlocks(i, j))
    <2> DEFINE S == Block(i, n1)
               L == [r \in S |-> OfElement(r, j)]
               order == Ordered(S)
               all == InOrder(S, L)
    <2>1. S \subseteq Int /\ IsFiniteSet(S) /\ S \subseteq DOMAIN v1
      BY <1>2, <1>3
    <2>2. L \in [S -> Seq(P)] /\ \A r \in S : L[r] = OfElement(r, j)
      BY <1>5, <2>1
    <2>3. /\ all \in Seq(P)
          /\ Range(all) = UNION { Range(L[x]) : x \in S }
          /\ (/\ \A x \in S : IsInjective(L[x])
              /\ \A x, y \in S : x # y => Range(L[x]) \cap Range(L[y]) = {})
             => IsInjective(all)
      <3> HIDE DEF S, L
      <3> QED
        BY <2>1, <2>2, Loops
    <2>4. order \in Seq(S)
      <3> HIDE DEF S
      <3> QED
        BY <2>1, OrderedLists
    <2>5. all = OfBlocks(i, j)
      <3>1. \A k \in DOMAIN order : order[k] \in S
        <4> HIDE DEF order, S
        <4> QED
          BY <2>4
      <3>2. [k \in DOMAIN order |-> L[order[k]]] = [k \in DOMAIN order |-> OfElement(order[k], j)]
        <4> HIDE DEF order, S, L
        <4> QED
          BY <2>2, <3>1
      <3> QED
        BY <3>2 DEF InOrder
    <2>6. { Range(L[x]) : x \in S } = { Range(OfElement(r, j)) : r \in Block(i, n1) }
      BY <2>2
    <2>7. \A x \in S : IsInjective(L[x])
      BY <1>5, <2>1, <2>2
    <2>8. \A x, y \in S : x # y => Range(L[x]) \cap Range(L[y]) = {}
      <3> SUFFICES ASSUME NEW x \in S, NEW y \in S, x # y
                   PROVE  Range(L[x]) \cap Range(L[y]) = {}
        OBVIOUS
      <3>1. Range(L[x]) = { <<x, m>> : m \in Hits(x, j) } /\ Range(L[y]) = { <<y, m>> : m \in Hits(y, j) }
        BY <1>5, <2>1, <2>2
      <3> HIDE DEF L, Hits
      <3> QED
        BY <3>1
    <2> QED
      BY <2>3, <2>5, <2>6, <2>7, <2>8
  <1>7. ASSUME NEW i \in Starts(n1), NEW j \in Starts(n2)
        PROVE  \A r, m : <<r, m>> \in Range(OfBlocks(i, j))
                           <=> r \in Block(i, n1) /\ m \in Block(j, n2) /\ v1[r] = v2[m]
    <2>1. Block(i, n1) \subseteq DOMAIN v1
      BY <1>2, <1>3
    <2>2. \A r \in Block(i, n1) : Range(OfElement(r, j)) = { <<r, m>> : m \in Hits(r, j) }
      BY <1>5, <2>1
    <2> HIDE DEF OfBlocks, Hits
    <2>3. \A r, m : <<r, m>> \in Range(OfBlocks(i, j)) <=> r \in Block(i, n1) /\ m \in Hits(r, j)
      <3> TAKE r, m
      <3>1. ASSUME <<r, m>> \in Range(OfBlocks(i, j))
            PROVE  r \in Block(i, n1) /\ m \in Hits(r, j)
        <4>1. PICK a \in Block(i, n1) : <<r, m>> \in Range(OfElement(a, j))
          BY <1>6, <3>1
        <4>2. PICK b \in Hits(a, j) : <<r, m>> = <<a, b>>
          BY <2>2, <4>1
        <4> QED
          BY <4>1, <4>2
      <3>2. ASSUME r \in Block(i, n1), m \in Hits(r, j)
            PROVE  <<r, m>> \in Range(OfBlocks(i, j))
        <4>1. <<r, m>> \in Range(OfElement(r, j))
          BY <2>2, <3>2
        <4> QED
          BY <1>6, <3>2, <4>1
      <3> QED
        BY <3>1, <3>2
    <2> QED
      BY <2>3 DEF Hits
  <1> HIDE DEF OfBlocks, Hits
  <1>8. ASSUME NEW i \in Starts(n1), NEW j \in Starts(n2), NEW z \in Range(OfBlocks(i, j))
        PROVE  z \in P /\ z = <<z[1], z[2]>>
    <2>1. OfBlocks(i, j) \in Seq(P)
      BY <1>6
    <2>2. z \in P
      BY <2>1 DEF Range
    <2> QED
      BY <2>2 DEF P
  <1>9. ASSUME NEW i \in Starts(n1)
        PROVE  /\ OfBlock(i) \in Seq(P)
               /\ Range(OfBlock(i)) = UNION { Range(OfBlocks(i, j)) : j \in Starts(n2) }
               /\ IsInjective(OfBlock(i))
    <2> DEFINE S == Starts(n2)
               L == [j \in S |-> OfBlocks(i, j)]
               order == Ordered(S)
               all == InOrder(S, L)
    <2>1. S \subseteq Int /\ IsFiniteSet(S)
      BY <1>4
    <2>2. L \in [S -> Seq(P)] /\ \A j \in S : L[j] = OfBlocks(i, j)
      BY <1>6
    <2>3. /\ all \in Seq(P)
          /\ Range(all) = UNION { Range(L[x]) : x \in S }
          /\ (/\ \A x \in S : IsInjective(L[x])
              /\ \A x, y \in S : x # y => Range(L[x]) \cap Range(L[y]) = {})
             => IsInjective(all)
      <3> HIDE DEF S, L
      <3> QED
        BY <2>1, <2>2, Loops
    <2>4. order \in Seq(S)
      <3> HIDE DEF S
      <3> QED
        BY <2>1, OrderedLists
    <2>5. all = OfBlock(i)
      <3>1. \A k \in DOMAIN order : order[k] \in S
        <4> HIDE DEF order, S
        <4> QED
          BY <2>4
      <3>2. [k \in DOMAIN order |-> L[order[k]]] = [k \in DOMAIN order |-> OfBlocks(i, order[k])]
        <4> HIDE DEF order, S, L
        <4> QED
          BY <2>2, <3>1
      <3> QED
        BY <3>2 DEF InOrder
    <2>6. { Range(L[x]) : x \in S } = { Range(OfBlocks(i, j)) : j \in Starts(n2) }
      BY <2>2
    <2>7. \A x \in S : IsInjective(L[x])
      BY <1>6, <2>2
    <2>8. \A x, y \in S : x # y => Range(L[x]) \cap Range(L[y]) = {}
      <3> SUFFICES ASSUME NEW x \in S, NEW y \in S, x # y, NEW z \in Range(L[x]), z \in Range(L[y])
                   PROVE  FALSE
        OBVIOUS
      <3>1. z \in Range(OfBlocks(i, x)) /\ z \in Range(OfBlocks(i, y))
        BY <2>2
      <3>2. z = <<z[1], z[2]>>
        BY <1>8, <3>1
      <3>3. z[2] \in Block(x, n2) /\ z[2] \in Block(y, n2)
        BY <1>7, <3>1, <3>2
      <3> QED
        BY <1>4, <3>3
    <2> QED
      BY <2>3, <2>5, <2>6, <2>7, <2>8
  <1> HIDE DEF OfBlock
  <1>10. ASSUME NEW i \in Starts(n1)
         PROVE  \A z : z \in Range(OfBlock(i)) =>
                         z \in P /\ z = <<z[1], z[2]>> /\ z[1] \in Block(i, n1) /\ v1[z[1]] = v2[z[2]]
    <2> TAKE z
    <2> HAVE z \in Range(OfBlock(i))
    <2>1. PICK j \in Starts(n2) : z \in Range(OfBlocks(i, j))
      BY <1>9
    <2>2. z \in P /\ z = <<z[1], z[2]>>
      BY <1>8, <2>1
    <2>3. z[1] \in Block(i, n1) /\ v1[z[1]] = v2[z[2]]
      BY <1>7, <2>1, <2>2
    <2> QED
      BY <2>2, <2>3
  <1>11. /\ All \in Seq(P)
         /\ Range(All) = UNION { Range(OfBlock(i)) : i \in Starts(n1) }
         /\ IsInjective(All)
    <2> DEFINE S == Starts(n1)
               L == [i \in S |-> OfBlock(i)]
               order == Ordered(S)
               all == InOrder(S, L)
    <2>1. S \subseteq Int /\ IsFiniteSet(S)
      BY <1>3
    <2>2. L \in [S -> Seq(P)] /\ \A i \in S : L[i] = OfBlock(i)
      BY <1>9
    <2>3. /\ all \in Seq(P)
          /\ Range(all) = UNION { Range(L[x]) : x \in S }
          /\ (/\ \A x \in S : IsInjective(L[x])
              /\ \A x, y \in S : x # y => Range(L[x]) \cap Range(L[y]) = {})
             => IsInjective(all)
      <3> HIDE DEF S, L
      <3> QED
        BY <2>1, <2>2, Loops
    <2>4. order \in Seq(S)
      <3> HIDE DEF S
      <3> QED
        BY <2>1, OrderedLists
    <2>5. all = All
      <3>1. \A k \in DOMAIN order : order[k] \in S
        <4> HIDE DEF order, S
        <4> QED
          BY <2>4
      <3>2. [k \in DOMAIN order |-> L[order[k]]] = [k \in DOMAIN order |-> OfBlock(order[k])]
        <4> HIDE DEF order, S, L
        <4> QED
          BY <2>2, <3>1
      <3> QED
        BY <3>2 DEF InOrder
    <2>6. { Range(L[x]) : x \in S } = { Range(OfBlock(i)) : i \in Starts(n1) }
      BY <2>2
    <2>7. \A x \in S : IsInjective(L[x])
      BY <1>9, <2>2
    <2>8. \A x, y \in S : x # y => Range(L[x]) \cap Range(L[y]) = {}
      <3> SUFFICES ASSUME NEW x \in S, NEW y \in S, x # y, NEW z \in Range(L[x]), z \in Range(L[y])
                   PROVE  FALSE
        OBVIOUS
      <3>1. z[1] \in Block(x, n1) /\ z[1] \in Block(y, n1)
        BY <1>10, <2>2
      <3> QED
        BY <1>3, <3>1
    <2> QED
      BY <2>3, <2>5, <2>6, <2>7, <2>8
  <1> HIDE DEF All
  <1>12. Range(All) \subseteq Equal(v1, v2)
    <2> SUFFICES ASSUME NEW z \in Range(All)
                 PROVE  z \in Equal(v1, v2)
      OBVIOUS
    <2>1. PICK i \in Starts(n1) : z \in Range(OfBlock(i))
      BY <1>11
    <2>2. z \in P /\ v1[z[1]] = v2[z[2]]
      BY <1>10, <2>1
    <2> QED
      BY <2>2 DEF Equal, P
  <1>13. Equal(v1, v2) \subseteq Range(All)
    <2> SUFFICES ASSUME NEW z \in Equal(v1, v2)
                 PROVE  z \in Range(All)
      OBVIOUS
    <2>1. z[1] \in 1 .. n1 /\ z[2] \in 1 .. n2 /\ v1[z[1]] = v2[z[2]] /\ z = <<z[1], z[2]>>
      BY <1>2 DEF Equal
    <2>2. PICK i \in Starts(n1) : z[1] \in Block(i, n1)
      BY <1>3, <2>1
    <2>3. PICK j \in Starts(n2) : z[2] \in Block(j, n2)
      BY <1>4, <2>1
    <2>4. <<z[1], z[2]>> \in Range(OfBlocks(i, j))
      BY <1>7, <2>1, <2>2, <2>3
    <2>5. z \in Range(OfBlock(i))
      BY <1>9, <2>1, <2>4
    <2> QED
      BY <1>11, <2>5
  <1> QED
    BY <1>1, <1>11, <1>12, <1>13 DEF P

\* The pairs of indexes whose values have one hash.
Colliding(v1, v2) == { ij \in (DOMAIN v1) \X (DOMAIN v2) : Hash(v1[ij[1]]) = Hash(v2[ij[2]]) }

\* hashjoin emits, once each, the pairs whose values share a bucket, for any two vectors
\* and any number of buckets: all pairs of equal values, and no others but for different
\* values that collide.
THEOREM HashJoinIsExact ==
  ASSUME NEW T, NEW v1 \in Seq(T), NEW v2 \in Seq(T)
  PROVE  /\ HashJoin(v1, v2) \in Seq((DOMAIN v1) \X (DOMAIN v2))
         /\ Range(HashJoin(v1, v2)) = Colliding(v1, v2)
         /\ IsInjective(HashJoin(v1, v2))
  <1> DEFINE S == DOMAIN v2
             P == (DOMAIN v1) \X (DOMAIN v2)
             Mates(i) == { k \in DOMAIN v1 : Hash(v1[k]) = Hash(v2[i]) }
             Probe(i) == LET bucket == Bucket(v1, Hash(v2[i]))
                         IN  [k \in DOMAIN bucket |-> <<bucket[k], i>>]
             L == [i \in S |-> Probe(i)]
  <1>1. S = 1 .. Len(v2) /\ DOMAIN v1 = 1 .. Len(v1) /\ Len(v1) \in Nat /\ Len(v2) \in Nat
    OBVIOUS
  <1>2. S \subseteq Int /\ IsFiniteSet(S) /\ DOMAIN v1 \subseteq Int /\ IsFiniteSet(DOMAIN v1)
    BY <1>1, FS_Interval
  <1>3. ASSUME NEW i \in S
        PROVE  /\ Probe(i) \in Seq(P)
               /\ Range(Probe(i)) = { <<k, i>> : k \in Mates(i) }
               /\ IsInjective(Probe(i))
    <2> DEFINE bucket == Reverse(Ordered(Mates(i)))
    <2>1. Mates(i) \in SUBSET (DOMAIN v1)
      OBVIOUS
    <2>2. IsFiniteSet(Mates(i)) /\ Mates(i) \subseteq DOMAIN v1 /\ Mates(i) \subseteq Int
      BY <1>2, <2>1, FS_Subset
    <2>3. Bucket(v1, Hash(v2[i])) = bucket
      BY DEF Bucket
    <2> HIDE DEF Mates
    <2> DEFINE ups == Ordered(Mates(i))
    <2>4. ups \in Seq(Mates(i)) /\ Range(ups) = Mates(i) /\ IsInjective(ups)
      BY <2>2, OrderedLists
    <2>5. bucket \in Seq(Mates(i)) /\ Range(bucket) = Mates(i) /\ IsInjective(bucket)
      <3> HIDE DEF ups
      <3>1. Reverse(ups) \in Seq(Mates(i)) /\ Range(Reverse(ups)) = Range(ups) /\ IsInjective(Reverse(ups))
        BY <2>4, Reversing
      <3> QED
        BY <2>4, <3>1 DEF ups
    <2>6. Probe(i) = PairsTo(bucket, i)
      BY <2>3 DEF PairsTo
    <2> HIDE DEF bucket, Probe
    <2>7. bucket \in Seq(DOMAIN v1)
      BY <2>2, <2>5
    <2>8. /\ PairsTo(bucket, i) \in Seq(P)
          /\ Range(PairsTo(bucket, i)) = { <<k, i>> : k \in Range(bucket) }
          /\ IsInjective(PairsTo(bucket, i))
      <3> DEFINE A == DOMAIN v1  B == DOMAIN v2
      <3>1. i \in B /\ bucket \in Seq(A) /\ IsInjective(bucket)
        BY <2>5, <2>7
      <3> HIDE DEF A, B
      <3>2. PairsTo(bucket, i) \in Seq(A \X B)
        BY <3>1, Pairing
      <3>3. Range(PairsTo(bucket, i)) = { <<k, i>> : k \in Range(bucket) }
        BY DEF PairsTo, Range
      <3>4. IsInjective(PairsTo(bucket, i))
        BY <3>1, Pairing
      <3> QED
        BY <3>2, <3>3, <3>4 DEF A, B
    <2> QED
      BY <2>5, <2>6, <2>8
  <1>4. L \in [S -> Seq(P)] /\ \A i \in S : L[i] = Probe(i)
    BY <1>3
  <1>5. HashJoin(v1, v2) = InOrder(S, L)
    <2> DEFINE order == Ordered(S)
    <2>1. order \in Seq(S)
      <3> HIDE DEF S
      <3> QED
        BY <1>2, OrderedLists
    <2>2. \A k \in DOMAIN order : order[k] \in S
      <3> HIDE DEF order, S
      <3> QED
        BY <2>1
    <2>3. [k \in DOMAIN order |-> L[order[k]]] = [k \in DOMAIN order |-> Probe(order[k])]
      <3> HIDE DEF order, S, L
      <3> QED
        BY <1>4, <2>2
    <2>4. HashJoin(v1, v2) = FlattenSeq([k \in DOMAIN order |-> Probe(order[k])])
      BY DEF HashJoin, ForEach
    <2> QED
      BY <2>3, <2>4 DEF InOrder
  <1> HIDE DEF Probe, Mates
  <1>6. \A x \in S : IsInjective(L[x])
    BY <1>3, <1>4
  <1>7. \A x, y \in S : x # y => Range(L[x]) \cap Range(L[y]) = {}
    <2> SUFFICES ASSUME NEW x \in S, NEW y \in S, x # y
                 PROVE  Range(L[x]) \cap Range(L[y]) = {}
      OBVIOUS
    <2>1. Range(L[x]) = { <<k, x>> : k \in Mates(x) } /\ Range(L[y]) = { <<k, y>> : k \in Mates(y) }
      BY <1>3, <1>4
    <2> HIDE DEF L, S
    <2> QED
      BY <2>1
  <1>8. /\ InOrder(S, L) \in Seq(P)
        /\ Range(InOrder(S, L)) = UNION { Range(L[x]) : x \in S }
        /\ IsInjective(InOrder(S, L))
    <2> HIDE DEF S, L, P
    <2> QED
      BY <1>2, <1>4, <1>6, <1>7, Loops
  <1>9. ASSUME NEW z
        PROVE  z \in Range(InOrder(S, L)) <=> z \in P /\ Hash(v1[z[1]]) = Hash(v2[z[2]])
    <2>1. ASSUME z \in Range(InOrder(S, L))
          PROVE  z \in P /\ Hash(v1[z[1]]) = Hash(v2[z[2]])
      <3>1. PICK i \in S : z \in Range(L[i])
        BY <1>8, <2>1
      <3>2. PICK k \in Mates(i) : z = <<k, i>>
        BY <1>3, <1>4, <3>1
      <3> QED
        BY <3>2 DEF Mates
    <2>2. ASSUME z \in P, Hash(v1[z[1]]) = Hash(v2[z[2]])
          PROVE  z \in Range(InOrder(S, L))
      <3>1. z[2] \in S /\ z[1] \in Mates(z[2]) /\ z = <<z[1], z[2]>>
        BY <2>2 DEF Mates
      <3>2. z \in Range(L[z[2]])
        <4>1. Range(L[z[2]]) = { <<k, z[2]>> : k \in Mates(z[2]) }
          BY <1>3, <1>4, <3>1
        <4> QED
          BY <3>1, <4>1
      <3> QED
        BY <1>8, <3>1, <3>2
    <2> QED
      BY <2>1, <2>2
  <1>10. Range(InOrder(S, L)) = Colliding(v1, v2)
    BY <1>9 DEF Colliding
  <1> QED
    BY <1>5, <1>8, <1>10

---------------------------------------------------------------------------
(* Aggregates.                                                             *)

\* The sum of the first n values of g.
UpTo(g, n, f) == [k \in 0 .. n |-> IF k = 0 THEN 0 ELSE f[k - 1] + g[k]]
Total(g, n) == (CHOOSE f : f = UpTo(g, n, f))[n]

\* There is a function that adds up g from the left.
LEMMA UpToExists ==
  ASSUME NEW n \in Nat, NEW g, \A k \in 1 .. n : g[k] \in Int
  PROVE  \E f \in [0 .. n -> Int] : f = UpTo(g, n, f)
  <1> DEFINE S == 0 .. n
             G == [f \in [S -> Int] |-> UpTo(g, n, f)]
             m == [k \in S |-> k]
  <1>1. ASSUME NEW f \in [S -> Int]
        PROVE  UpTo(g, n, f) \in [S -> Int]
    <2> SUFFICES ASSUME NEW k \in S
                 PROVE  (IF k = 0 THEN 0 ELSE f[k - 1] + g[k]) \in Int
      BY DEF UpTo
    <2>1. k # 0 => k - 1 \in S /\ k \in 1 .. n
      OBVIOUS
    <2>2. k # 0 => f[k - 1] \in Int /\ g[k] \in Int
      BY <2>1
    <2> QED
      BY <2>2
  <1>2. Measured(S, m, n + 1)
    BY DEF Measured
  <1>3. Descends(S, Int, m, G)
    <2>1. Int # {}
      OBVIOUS
    <2>2. G \in [[S -> Int] -> [S -> Int]]
      BY <1>1
    <2>3. ASSUME NEW e \in [S -> Int], NEW h \in [S -> Int], NEW k \in S,
                 \A j \in S : m[j] < m[k] => e[j] = h[j]
          PROVE  G[e][k] = G[h][k]
      <3>1. k # 0 => k - 1 \in S /\ m[k - 1] < m[k]
        OBVIOUS
      <3>2. k # 0 => e[k - 1] = h[k - 1]
        BY <2>3, <3>1
      <3> QED
        BY <3>2 DEF UpTo
    <2> QED
      BY <2>1, <2>2, <2>3 DEF Descends
  <1>4. PICK f \in [S -> Int] : f = G[f]
    <2> HIDE DEF S, G, m
    <2> QED
      BY <1>2, <1>3, RecursiveFunction
  <1> QED
    BY <1>4

\* A function that adds up g from the left, on whatever interval, is the sum.
LEMMA UpToUnique ==
  ASSUME NEW n \in Nat, NEW l \in Nat, NEW g, \A k \in 1 .. n : g[k] \in Int,
         NEW f, f = UpTo(g, n, f), NEW h, h = UpTo(g, l, h)
  PROVE  \A k \in Nat : k <= n /\ k <= l => f[k] = h[k] /\ f[k] \in Int
  <1> DEFINE T == { k \in Nat : k <= n /\ k <= l => f[k] = h[k] /\ f[k] \in Int }
  <1>1. 0 \in T
    <2>1. f[0] = 0
      <3>1. 0 \in 0 .. n
        OBVIOUS
      <3> QED
        BY <3>1 DEF UpTo
    <2>2. h[0] = 0
      <3>1. 0 \in 0 .. l
        OBVIOUS
      <3> QED
        BY <3>1 DEF UpTo
    <2> QED
      BY <2>1, <2>2
  <1>2. ASSUME NEW k \in Nat, k \in T
        PROVE  k + 1 \in T
    <2> SUFFICES ASSUME k + 1 <= n, k + 1 <= l
                 PROVE  f[k + 1] = h[k + 1] /\ f[k + 1] \in Int
      OBVIOUS
    <2>1. f[k] = h[k] /\ f[k] \in Int
      BY <1>2
    <2> DEFINE j == k + 1
    <2>2. j \in 0 .. n /\ j \in 0 .. l /\ j # 0 /\ j - 1 = k /\ j \in 1 .. n
      OBVIOUS
    <2> HIDE DEF j
    <2>3. f[j] = f[j - 1] + g[j]
      BY <2>2 DEF UpTo
    <2>4. h[j] = h[j - 1] + g[j]
      BY <2>2 DEF UpTo
    <2>5. f[j] = f[k] + g[j] /\ h[j] = h[k] + g[j]
      BY <2>2, <2>3, <2>4
    <2>6. f[j] = h[j] /\ f[j] \in Int
      BY <2>1, <2>2, <2>5
    <2> QED
      BY <2>6 DEF j
  <1>3. Nat \subseteq T
    <2> HIDE DEF T
    <2> QED
      BY <1>1, <1>2, SetInduction
  <1> QED
    BY <1>3

\* The recursion that a sum satisfies.
LEMMA Totals ==
  ASSUME NEW n \in Nat, NEW g, \A k \in 1 .. n : g[k] \in Int
  PROVE  /\ Total(g, n) \in Int
         /\ n = 0 => Total(g, n) = 0
         /\ n > 0 => Total(g, n) = Total(g, n - 1) + g[n]
         /\ \A f : f = UpTo(g, n, f) => f[n] = Total(g, n)
  <1> DEFINE F(k) == CHOOSE f : f = UpTo(g, k, f)
  <1>1. F(n) = UpTo(g, n, F(n))
    BY UpToExists
  <1>2. Total(g, n) = F(n)[n]
    BY DEF Total
  <1> HIDE DEF F
  <1>3. F(n)[n] \in Int
    BY <1>1, UpToUnique
  <1>4. n = 0 => F(n)[n] = 0
    <2>1. n \in 0 .. n
      OBVIOUS
    <2> QED
      BY <1>1, <2>1 DEF UpTo
  <1>5. ASSUME n > 0
        PROVE  Total(g, n) = Total(g, n - 1) + g[n]
    <2>1. n - 1 \in Nat /\ n \in 0 .. n /\ n # 0 /\ n - 1 <= n /\ \A k \in 1 .. n - 1 : g[k] \in Int
      BY <1>5
    <2>2. F(n)[n] = F(n)[n - 1] + g[n]
      BY <1>1, <2>1 DEF UpTo
    <2>3. F(n - 1) = UpTo(g, n - 1, F(n - 1))
      <3> DEFINE l == n - 1
      <3>1. l \in Nat /\ \A k \in 1 .. l : g[k] \in Int
        BY <2>1
      <3> HIDE DEF l
      <3>2. \E f : f = UpTo(g, l, f)
        BY <3>1, UpToExists
      <3>3. F(l) = UpTo(g, l, F(l))
        BY <3>2 DEF F
      <3> QED
        BY <3>3 DEF l
    <2>4. F(n)[n - 1] = F(n - 1)[n - 1]
      <3> DEFINE l == n - 1
      <3>1. l \in Nat /\ l <= n /\ l <= l /\ F(l) = UpTo(g, l, F(l))
        BY <2>1, <2>3
      <3> HIDE DEF l
      <3>2. F(n)[l] = F(l)[l]
        BY <1>1, <3>1, UpToUnique
      <3> QED
        BY <3>2 DEF l
    <2>5. Total(g, n - 1) = F(n - 1)[n - 1]
      BY DEF Total, F
    <2> QED
      BY <1>2, <2>2, <2>4, <2>5
  <1>6. ASSUME NEW f, f = UpTo(g, n, f)
        PROVE  f[n] = Total(g, n)
    <2>1. f[n] = F(n)[n]
      BY <1>1, <1>6, UpToUnique
    <2> QED
      BY <1>2, <2>1
  <1> QED
    BY <1>2, <1>3, <1>4, <1>5, <1>6

\* A sum depends on what is added up only.
LEMMA SameTotal ==
  ASSUME NEW n \in Nat, NEW g, \A k \in 1 .. n : g[k] \in Int, NEW h, \A k \in 1 .. n : h[k] = g[k]
  PROVE  Total(h, n) = Total(g, n)
  <1> DEFINE T == { k \in Nat : k <= n => Total(h, k) = Total(g, k) }
  <1>1. 0 \in T
    <2>1. Total(h, 0) = 0 /\ Total(g, 0) = 0
      BY Totals
    <2> QED
      BY <2>1
  <1>2. ASSUME NEW k \in Nat, k \in T
        PROVE  k + 1 \in T
    <2> SUFFICES ASSUME k + 1 <= n
                 PROVE  Total(h, k + 1) = Total(g, k + 1)
      OBVIOUS
    <2> DEFINE j == k + 1
    <2>1. j \in Nat /\ j > 0 /\ j - 1 = k /\ j \in 1 .. n /\ \A i \in 1 .. j : i \in 1 .. n
      OBVIOUS
    <2>2. Total(h, k) = Total(g, k)
      BY <1>2
    <2> HIDE DEF j
    <2>3. (\A i \in 1 .. j : g[i] \in Int) /\ (\A i \in 1 .. j : h[i] \in Int)
      BY <2>1
    <2>4. Total(g, j) = Total(g, j - 1) + g[j]
      BY <2>1, <2>3, Totals
    <2>5. Total(h, j) = Total(h, j - 1) + h[j]
      BY <2>1, <2>3, Totals
    <2>6. Total(h, j) = Total(g, j)
      BY <2>1, <2>2, <2>4, <2>5
    <2> QED
      BY <2>6 DEF j
  <1>3. Nat \subseteq T
    <2> HIDE DEF T
    <2> QED
      BY <1>1, <1>2, SetInduction
  <1> QED
    BY <1>3

\* In g there are the a values of h, and behind them the b values of e or their negations.
InParts(g, h, a, e, b, s) ==
  /\ \A k \in 1 .. a : h[k] \in Int /\ g[k] = h[k]
  /\ \A k \in 1 .. b : e[k] \in Int /\ g[a + k] = s * e[k]

\* The sum of two parts.
LEMMA TotalOfParts ==
  ASSUME NEW a \in Nat, NEW b \in Nat, NEW s \in {1, -1},
         NEW h, NEW e, NEW g, InParts(g, h, a, e, b, s)
  PROVE  Total(g, a + b) = Total(h, a) + s * Total(e, b)
  <1> USE DEF InParts
  <1> DEFINE T == { k \in Nat : k <= b => Total(g, a + k) = Total(h, a) + s * Total(e, k) }
  <1>1. 0 \in T
    <2>1. Total(g, a) = Total(h, a) /\ Total(h, a) \in Int
      BY SameTotal, Totals
    <2>2. Total(e, 0) = 0
      BY Totals
    <2>3. a + 0 = a /\ s * 0 = 0
      OBVIOUS
    <2> QED
      BY <2>1, <2>2, <2>3
  <1>2. ASSUME NEW k \in Nat, k \in T
        PROVE  k + 1 \in T
    <2> SUFFICES ASSUME k + 1 <= b
                 PROVE  Total(g, a + (k + 1)) = Total(h, a) + s * Total(e, k + 1)
      OBVIOUS
    <2>1. Total(g, a + k) = Total(h, a) + s * Total(e, k)
      BY <1>2
    <2> DEFINE j == k + 1
               i == a + j
    <2>2. /\ j \in Nat /\ j > 0 /\ j - 1 = k /\ j \in 1 .. b /\ j <= b
          /\ i \in Nat /\ i > 0 /\ i - 1 = a + k /\ i = a + j
      OBVIOUS
    <2> HIDE DEF j, i
    <2>3. \A x \in 1 .. j : e[x] \in Int
      BY <2>2
    <2>4. \A x \in 1 .. i : g[x] \in Int
      <3> TAKE x \in 1 .. i
      <3>1. CASE x <= a
        BY <2>2, <3>1
      <3>2. CASE ~(x <= a)
        <4> DEFINE y == x - a
        <4>1. y \in 1 .. b /\ x = a + y
          BY <2>2, <3>2
        <4> HIDE DEF y
        <4>2. g[x] = s * e[y] /\ e[y] \in Int
          BY <4>1
        <4> QED
          BY <4>2
      <3> QED
        BY <3>1, <3>2
    <2>5. Total(e, j) = Total(e, k) + e[j]
      BY <2>2, <2>3, Totals
    <2>6. Total(g, i) = Total(g, a + k) + g[i]
      BY <2>2, <2>4, Totals
    <2>7. g[i] = s * e[j]
      BY <2>2
    <2>8. e[j] \in Int /\ Total(h, a) \in Int /\ Total(e, k) \in Int
      <3>1. k \in Nat /\ \A x \in 1 .. k : e[x] \in Int
        BY <2>2
      <3> QED
        BY <2>2, <2>3, <3>1, Totals
    <2>9. Total(g, i) = Total(h, a) + s * Total(e, j)
      BY <2>1, <2>5, <2>6, <2>7, <2>8
    <2> QED
      BY <2>9 DEF i, j
  <1>3. Nat \subseteq T
    <2> HIDE DEF T
    <2> QED
      BY <1>1, <1>2, SetInduction
  <1> QED
    BY <1>3

\* Max of indexes is one of them, and none is greater.
LEMMA Greatest ==
  ASSUME NEW n \in Nat, NEW S, S \subseteq 1 .. n, S # {}
  PROVE  Max(S) \in S /\ \A y \in S : Max(S) >= y
  <1> DEFINE T == { n - y : y \in S }
  <1>1. T \subseteq Nat /\ T # {}
    <2>1. \A y \in S : n - y \in Nat
      <3> TAKE y \in S
      <3>1. y \in 1 .. n
        OBVIOUS
      <3> QED
        BY <3>1
    <2> QED
      BY <2>1
  <1>2. PICK d \in T : \A e \in T : d <= e
    <2> HIDE DEF T
    <2> QED
      BY <1>1, LeastNatural
  <1>3. PICK x \in S : d = n - x
    OBVIOUS
  <1>4. \A y \in S : x >= y
    <2> TAKE y \in S
    <2>1. n - y \in T
      OBVIOUS
    <2>2. n - x <= n - y
      BY <1>2, <1>3, <2>1
    <2>3. x \in Nat /\ y \in Nat
      OBVIOUS
    <2> QED
      BY <2>2, <2>3
  <1> QED
    BY <1>4 DEF Max

\* How FoldLeft adds up g: it takes the greatest of a set of indexes, and then the rest.
Folding(g, n, f) ==
  [s \in SUBSET (1 .. n) |-> IF s = {} THEN 0 ELSE f[s \ {Max(s)}] + g[Max(s)]]

\* There is a function that adds up g over every set of indexes, the last index last.
LEMMA FoldingExists ==
  ASSUME NEW n \in Nat, NEW g, \A k \in 1 .. n : g[k] \in Int
  PROVE  \E f : f = Folding(g, n, f)
  <1> DEFINE S == SUBSET (1 .. n)
             G == [f \in [S -> Int] |-> Folding(g, n, f)]
             m == [s \in S |-> Cardinality(s)]
  <1>1. IsFiniteSet(1 .. n) /\ Cardinality(1 .. n) = n
    BY FS_Interval
  <1>2. ASSUME NEW s \in S
        PROVE  IsFiniteSet(s) /\ Cardinality(s) \in Nat /\ Cardinality(s) <= n
    <2>1. IsFiniteSet(s) /\ Cardinality(s) <= n
      BY <1>1, FS_Subset
    <2> QED
      BY <2>1, FS_CardinalityType
  <1>3. ASSUME NEW s \in S, s # {}
        PROVE  /\ Max(s) \in 1 .. n /\ s \ {Max(s)} \in S
               /\ Cardinality(s \ {Max(s)}) < Cardinality(s)
    <2>1. Max(s) \in s
      BY <1>3, Greatest
    <2>2. Cardinality(s \ {Max(s)}) = Cardinality(s) - 1
      BY <1>2, <2>1, FS_RemoveElement
    <2>3. Max(s) \in 1 .. n /\ s \ {Max(s)} \in S
      BY <2>1
    <2>4. Cardinality(s) \in Nat
      BY <1>2
    <2> QED
      BY <2>2, <2>3, <2>4
  <1>4. ASSUME NEW f \in [S -> Int]
        PROVE  Folding(g, n, f) \in [S -> Int]
    <2> SUFFICES ASSUME NEW s \in S
                 PROVE  (IF s = {} THEN 0 ELSE f[s \ {Max(s)}] + g[Max(s)]) \in Int
      BY DEF Folding
    <2>1. s # {} => f[s \ {Max(s)}] \in Int /\ g[Max(s)] \in Int
      BY <1>3
    <2> QED
      BY <2>1
  <1>5. Measured(S, m, n + 1)
    <2>1. m \in [S -> Nat] /\ \A s \in S : m[s] < n + 1
      BY <1>2
    <2> HIDE DEF m, S
    <2> QED
      BY <2>1 DEF Measured
  <1>6. Descends(S, Int, m, G)
    <2>1. Int # {}
      OBVIOUS
    <2>2. G \in [[S -> Int] -> [S -> Int]]
      BY <1>4
    <2>3. ASSUME NEW e \in [S -> Int], NEW h \in [S -> Int], NEW s \in S,
                 \A r \in S : m[r] < m[s] => e[r] = h[r]
          PROVE  G[e][s] = G[h][s]
      <3>1. s # {} => s \ {Max(s)} \in S /\ m[s \ {Max(s)}] < m[s]
        BY <1>3
      <3>2. s # {} => e[s \ {Max(s)}] = h[s \ {Max(s)}]
        BY <2>3, <3>1
      <3> QED
        BY <3>2 DEF Folding
    <2> QED
      BY <2>1, <2>2, <2>3 DEF Descends
  <1>7. PICK f \in [S -> Int] : f = G[f]
    <2> HIDE DEF S, G, m
    <2> QED
      BY <1>5, <1>6, RecursiveFunction
  <1> QED
    BY <1>7

\* Such a function adds up all of g to its sum: what FoldLeft computes.
LEMMA FoldingIsTotal ==
  ASSUME NEW n \in Nat, NEW g, \A k \in 1 .. n : g[k] \in Int, NEW f, f = Folding(g, n, f)
  PROVE  f[1 .. n] = Total(g, n)
  <1> DEFINE h == [k \in 0 .. n |-> f[1 .. k]]
  <1>1. h = UpTo(g, n, h)
    <2> SUFFICES ASSUME NEW k \in 0 .. n
                 PROVE  f[1 .. k] = IF k = 0 THEN 0 ELSE h[k - 1] + g[k]
      BY DEF UpTo
    <2>1. 1 .. k \in SUBSET (1 .. n)
      OBVIOUS
    <2>2. CASE k = 0
      <3>1. 1 .. k = {}
        BY <2>2
      <3>2. f[1 .. k] = 0
        BY <2>1, <3>1 DEF Folding
      <3> QED
        BY <2>2, <3>2
    <2>3. CASE k # 0
      <3>1. 1 .. k # {} /\ k \in 1 .. k /\ 1 .. k \subseteq 1 .. n
        BY <2>3
      <3> DEFINE s == 1 .. k
      <3>2. Max(s) \in s /\ \A y \in s : Max(s) >= y
        <4>1. s \subseteq 1 .. n /\ s # {}
          BY <3>1
        <4> HIDE DEF s
        <4> QED
          BY <4>1, Greatest
      <3>3. Max(s) = k
        BY <3>1, <3>2
      <3>4. s \ {k} = 1 .. k - 1
        BY <2>3
      <3>5. f[s] = f[s \ {Max(s)}] + g[Max(s)]
        BY <2>1, <3>1 DEF Folding
      <3>6. h[k - 1] = f[1 .. k - 1]
        BY <2>3
      <3>7. f[1 .. k] = h[k - 1] + g[k]
        BY <3>3, <3>4, <3>5, <3>6
      <3> QED
        BY <2>3, <3>7
    <2> QED
      BY <2>2, <2>3
  <1>2. h[n] = Total(g, n)
    <2> HIDE DEF h
    <2> QED
      BY <1>1, Totals
  <1> QED
    BY <1>2


\* A pass over v that keeps a value until there is one further down (s = 1) or further
\* up (s = -1), and what makes f such a pass.
Pass(v, n, s, f) ==
  [i \in 1 .. n |-> IF i = 1 THEN v[1]
                    ELSE IF s * f[i - 1] > s * v[i] THEN v[i] ELSE f[i - 1]]
Passes(v, n, s, f) ==
  /\ f[1] = v[1]
  /\ \A i \in 2 .. n :
       f[i - 1] \in Int => f[i] = IF s * f[i - 1] > s * v[i] THEN v[i] ELSE f[i - 1]

\* There is a function that keeps the values of a pass.
LEMMA PassExists ==
  ASSUME NEW n \in Nat, NEW v, \A i \in 1 .. n : v[i] \in Int, NEW s \in {1, -1}
  PROVE  \E f \in [1 .. n -> Int] : f = Pass(v, n, s, f)
  <1> DEFINE S == 1 .. n
             m == [i \in S |-> i]
             G == [f \in [S -> Int] |-> Pass(v, n, s, f)]
  <1>1. Measured(S, m, n + 1)
    BY DEF Measured
  <1>2. Int # {}
    OBVIOUS
  <1>3. \A i \in S : i # 1 => i - 1 \in S /\ m[i - 1] < m[i]
    OBVIOUS
  <1>4. ASSUME NEW f \in [S -> Int]
        PROVE  Pass(v, n, s, f) \in [S -> Int]
    <2>1. \A i \in S : i # 1 => f[i - 1] \in Int
      BY <1>3
    <2> QED
      BY <2>1 DEF Pass
  <1>5. G \in [[S -> Int] -> [S -> Int]]
    BY <1>4
  <1>6. ASSUME NEW e \in [S -> Int], NEW h \in [S -> Int], NEW i \in S,
               \A j \in S : m[j] < m[i] => e[j] = h[j]
        PROVE  G[e][i] = G[h][i]
    <2>1. i # 1 => e[i - 1] = h[i - 1]
      BY <1>3, <1>6
    <2> QED
      BY <2>1 DEF Pass
  <1>7. Descends(S, Int, m, G)
    <2> HIDE DEF G, S, m
    <2> QED
      BY <1>2, <1>5, <1>6 DEF Descends
  <1>8. PICK f \in [S -> Int] : f = G[f]
    <2> HIDE DEF G, S, m
    <2> QED
      BY <1>1, <1>7, RecursiveFunction
  <1> QED
    BY <1>8

\* A pass ends with an element that no other is further down or up than.
LEMMA PassFinds ==
  ASSUME NEW n \in Nat \ {0}, NEW v, \A i \in 1 .. n : v[i] \in Int, NEW s \in {1, -1},
         NEW f, Passes(v, n, s, f)
  PROVE  /\ f[n] \in Int
         /\ \E k \in 1 .. n : f[n] = v[k]
         /\ \A k \in 1 .. n : s * f[n] <= s * v[k]
  <1> DEFINE Found(i) == /\ f[i] \in Int
                         /\ \E k \in 1 .. i : f[i] = v[k]
                         /\ \A k \in 1 .. i : s * f[i] <= s * v[k]
             T == { i \in Nat : i + 1 <= n => Found(i + 1) }
  <1>1. 0 \in T
    <2>1. f[1] = v[1] /\ v[1] \in Int /\ \A k \in 1 .. 1 : k = 1
      BY DEF Passes
    <2>2. Found(1)
      BY <2>1
    <2> QED
      BY <2>2
  <1>2. ASSUME NEW i \in Nat, i \in T
        PROVE  i + 1 \in T
    <2> SUFFICES ASSUME i + 1 + 1 <= n
                 PROVE  Found(i + 1 + 1)
      OBVIOUS
    <2> DEFINE j == i + 1
               l == i + 1 + 1
    <2>1. j \in Nat /\ l \in 2 .. n /\ l - 1 = j /\ Found(j) /\ v[l] \in Int
      BY <1>2
    <2>2. \A k \in 1 .. l : k \in 1 .. j \/ k = l
      OBVIOUS
    <2>3. \A k \in 1 .. j : k \in 1 .. l /\ v[k] \in Int
      BY <2>1
    <2>4. l \in 1 .. l
      BY <2>1
    <2> HIDE DEF j, l
    <2>5. f[l] = IF s * f[j] > s * v[l] THEN v[l] ELSE f[j]
      BY <2>1 DEF Passes
    <2>6. CASE s * f[j] > s * v[l]
      <3>1. f[l] = v[l]
        BY <2>5, <2>6
      <3>2. \A k \in 1 .. j : s * v[l] <= s * v[k]
        <4> TAKE k \in 1 .. j
        <4>1. s * f[j] <= s * v[k] /\ v[k] \in Int /\ f[j] \in Int
          BY <2>1, <2>3
        <4> QED
          BY <2>1, <2>6, <4>1
      <3>3. s * v[l] <= s * v[l]
        BY <2>1
      <3> QED
        BY <2>1, <2>2, <2>4, <3>1, <3>2, <3>3 DEF l
    <2>7. CASE ~(s * f[j] > s * v[l])
      <3>1. f[l] = f[j]
        BY <2>5, <2>7
      <3>2. s * f[j] <= s * v[l]
        BY <2>1, <2>7
      <3> QED
        BY <2>1, <2>2, <2>3, <3>1, <3>2 DEF l
    <2> QED
      BY <2>6, <2>7
  <1>3. Nat \subseteq T
    <2> HIDE DEF T
    <2> QED
      BY <1>1, <1>2, SetInduction
  <1>4. n - 1 \in T /\ n - 1 + 1 = n
    BY <1>3
  <1> HIDE DEF Found
  <1>5. Found(n)
    BY <1>4
  <1> QED
    BY <1>5 DEF Found

\* min and max return the least and the greatest element of a vector that is not empty.
THEOREM AggregatesAreExtremes ==
  ASSUME NEW v \in Seq(Int), v # <<>>
  PROVE  MinOf(v) = Min(Range(v)) /\ MaxOf(v) = Max(Range(v))
  <1> DEFINE n == Len(v)
             S == 1 .. n
             FirstLow(f) == [i \in S |-> IF i = 1 THEN v[1] ELSE IF f[i - 1] > v[i] THEN v[i] ELSE f[i - 1]]
             LastHigh(f) == [i \in S |-> IF i = 1 THEN v[1] ELSE IF f[i - 1] < v[i] THEN v[i] ELSE f[i - 1]]
             low == CHOOSE f : f = FirstLow(f)
             up == CHOOSE f : f = LastHigh(f)
  <1>1. n \in Nat \ {0} /\ DOMAIN v = S /\ \A i \in S : v[i] \in Int
    OBVIOUS
  <1>2. MinOf(v) = low[n] /\ MaxOf(v) = up[n]
    BY <1>1 DEF MinOf, MaxOf
  <1>3. \A i \in S : i # 1 => i - 1 \in S
    BY <1>1
  <1>4. 1 \in S /\ 2 .. n \subseteq S /\ \A i \in 2 .. n : i # 1
    BY <1>1
  <1>5. Range(v) = { v[i] : i \in S }
    BY <1>1 DEF Range
  <1> HIDE DEF n
  <1>6. low[n] = Min(Range(v))
    <2>1. PICK f \in [S -> Int] : f = Pass(v, n, 1, f)
      BY <1>1, PassExists
    <2>2. f = FirstLow(f)
      <3>1. \A i \in S : i # 1 => f[i - 1] \in Int
        BY <1>3
      <3>2. \A i \in S : i # 1 => (1 * f[i - 1] > 1 * v[i] <=> f[i - 1] > v[i])
        BY <1>1, <3>1
      <3> QED
        BY <2>1, <3>2 DEF Pass
    <2>3. low = FirstLow(low)
      <3> HIDE DEF FirstLow
      <3> QED
        BY <2>2
    <2> HIDE DEF low
    <2>4. ASSUME NEW i \in 2 .. n, low[i - 1] \in Int
          PROVE  low[i] = IF 1 * low[i - 1] > 1 * v[i] THEN v[i] ELSE low[i - 1]
      <3>1. low[i] = IF low[i - 1] > v[i] THEN v[i] ELSE low[i - 1]
        BY <1>4, <2>3
      <3>2. 1 * low[i - 1] = low[i - 1] /\ 1 * v[i] = v[i]
        BY <1>1, <1>4, <2>4
      <3> QED
        BY <3>1, <3>2
    <2>5. low[1] = v[1]
      BY <1>4, <2>3
    <2>6. Passes(v, n, 1, low)
      BY <2>4, <2>5 DEF Passes
    <2>7. /\ low[n] \in Int
          /\ \E k \in S : low[n] = v[k]
          /\ \A k \in S : 1 * low[n] <= 1 * v[k]
      BY <1>1, <2>6, PassFinds
    <2>8. \A k \in S : low[n] <= v[k]
      BY <1>1, <2>7
    <2>9. low[n] \in Range(v) /\ \A y \in Range(v) : low[n] <= y /\ y \in Int
      BY <1>1, <1>5, <2>7, <2>8
    <2> QED
      BY <2>7, <2>9 DEF Min
  <1>7. up[n] = Max(Range(v))
    <2>1. PICK f \in [S -> Int] : f = Pass(v, n, -1, f)
      BY <1>1, PassExists
    <2>2. f = LastHigh(f)
      <3>1. \A i \in S : i # 1 => f[i - 1] \in Int
        BY <1>3
      <3>2. \A i \in S : i # 1 => ((-1) * f[i - 1] > (-1) * v[i] <=> f[i - 1] < v[i])
        BY <1>1, <3>1
      <3> QED
        BY <2>1, <3>2 DEF Pass
    <2>3. up = LastHigh(up)
      <3> HIDE DEF LastHigh
      <3> QED
        BY <2>2
    <2> HIDE DEF up
    <2>4. ASSUME NEW i \in 2 .. n, up[i - 1] \in Int
          PROVE  up[i] = IF (-1) * up[i - 1] > (-1) * v[i] THEN v[i] ELSE up[i - 1]
      <3>1. up[i] = IF up[i - 1] < v[i] THEN v[i] ELSE up[i - 1]
        BY <1>4, <2>3
      <3> DEFINE x == up[i - 1]  y == v[i]
      <3>2. x \in Int /\ y \in Int
        BY <1>1, <1>4, <2>4
      <3> HIDE DEF x, y
      <3>3. (-1) * x > (-1) * y <=> x < y
        BY <3>2
      <3> QED
        BY <3>1, <3>3 DEF x, y
    <2>5. up[1] = v[1]
      BY <1>4, <2>3
    <2>6. Passes(v, n, -1, up)
      BY <2>4, <2>5 DEF Passes
    <2>7. /\ up[n] \in Int
          /\ \E k \in S : up[n] = v[k]
          /\ \A k \in S : (-1) * up[n] <= (-1) * v[k]
      BY <1>1, <2>6, PassFinds
    <2>8. \A k \in S : up[n] >= v[k]
      BY <1>1, <2>7
    <2>9. up[n] \in Range(v) /\ \A y \in Range(v) : up[n] >= y /\ y \in Int
      BY <1>1, <1>5, <2>7, <2>8
    <2> QED
      BY <2>7, <2>9 DEF Max
  <1> QED
    BY <1>2, <1>6, <1>7

-----------------------------------------------------------------------------
(***************************************************************************)
(* Invariants of Session, for tables, chains of queries and operands of    *)
(* any size.                                                               *)
(*                                                                         *)
(* The argument has two layers.  Base is kept by every handler, whatever   *)
(* the operands are read as: the table, the names, and that positions lie  *)
(* in the table.  Exact, which says of each binding which cells it stands  *)
(* for, is kept as long as no insert moves a row, if the ranges of selectv *)
(* are read as they are meant.                                             *)
(***************************************************************************)

---------------------------------------------------------------------------
(* What is so whatever the clients do.                                     *)

\* A table as relational_insert leaves it: its rows are numbered in the order in
\* which they came.
RowsOK(t) ==
  /\ t \in Seq([row : Nat, vals : Rows])
  /\ \A p \in DOMAIN t : t[p].row \in 1 .. Len(t)
  /\ \A p, q \in DOMAIN t : t[p].row = t[q].row => p = q
RowsAscend(t) == \A p, q \in DOMAIN t : p <= q => t[p].vals[1] <= t[q].vals[1]

\* A binding of the pool p, on a table of n rows: positions lie in the table, and
\* fetched values are as many as the positions that they were fetched at.
BindingOK(b, p, n) ==
  /\ b.kind = "positions" => b.v \in Seq(1 .. n)
  /\ b.kind \in {"values", "sum"} => b.v \in Seq(Int)
  /\ b.kind = "values" =>
       \E j \in DOMAIN p : /\ b.from = j + 2
                           /\ p[j].kind = "positions" /\ Len(p[j].v) = Len(b.v)
PoolOK(p, n) ==
  /\ p \in Seq(Range(p))
  /\ \A k \in DOMAIN p : p[k].name = k + 2 /\ BindingOK(p[k], p, n)

Base ==
  /\ RowsOK(tbl)
  /\ primary \in BOOLEAN /\ moved \in BOOLEAN
  /\ primary => RowsAscend(tbl)
  /\ PoolOK(pool, Len(tbl))

\* There are two columns, so that the names of variables begin at 3.
LEMMA TwoColumns == Cardinality(Columns) = 2
  <1>1. Cardinality(1 .. 2) = 2
    <2> DEFINE a == 1  b == 2
    <2>1. a \in Int /\ b \in Int /\ ~(a > b) /\ b - a + 1 = 2
      OBVIOUS
    <2> HIDE DEF a, b
    <2>2. Cardinality(a .. b) = 2
      BY <2>1, FS_Interval
    <2> QED
      BY <2>2 DEF a, b
  <1>2. Columns = 1 .. 2
    BY DEF Columns
  <1> QED
    BY <1>1, <1>2

\* get_var_by_name finds the one binding of a name.
LEMMA Getting ==
  ASSUME PoolOK(pool, Len(tbl)), NEW kind, NEW o \in Names(kind)
  PROVE  \E k \in DOMAIN pool :
           o = k + 2 /\ o \notin Columns /\ pool[k].kind = kind /\ GetVarByName(o) = pool[k]
  <1>1. PICK k \in DOMAIN pool : pool[k].kind = kind /\ o = pool[k].name
    BY DEF Names
  <1>2. \A j \in DOMAIN pool : j \in Nat \ {0} /\ pool[j].name = j + 2
    BY DEF PoolOK
  <1>3. o = k + 2 /\ o \notin Columns
    BY <1>1, <1>2 DEF Columns
  <1>4. { j \in DOMAIN pool : pool[j].name = o } = {k}
    BY <1>2, <1>3
  <1>5. Min({k}) = k
    BY <1>2 DEF Min
  <1> QED
    BY <1>1, <1>3, <1>4, <1>5 DEF GetVarByName

\* The operands of a join, or of selectv: as many values as positions.
LEMMA PairGetting ==
  ASSUME Base, NEW a \in Pairs
  PROVE  /\ GetVarByName(a[1]).v \in Seq(1 .. Len(tbl))
         /\ GetVarByName(a[2]).v \in Seq(Int)
         /\ Len(GetVarByName(a[1]).v) = Len(GetVarByName(a[2]).v)
         /\ \E j, k \in DOMAIN pool :
              /\ GetVarByName(a[1]) = pool[j] /\ pool[j].kind = "positions"
              /\ GetVarByName(a[2]) = pool[k] /\ pool[k].kind = "values"
              /\ pool[k].from = j + 2
  <1>1. /\ PoolOK(pool, Len(tbl))
        /\ a[1] \in Names("positions") /\ a[2] \in Names("values")
        /\ GetVarByName(a[2]).from = a[1]
    BY DEF Base, Pairs, FetchedAt
  <1>2. PICK j \in DOMAIN pool :
          a[1] = j + 2 /\ pool[j].kind = "positions" /\ GetVarByName(a[1]) = pool[j]
    BY <1>1, Getting
  <1>3. PICK k \in DOMAIN pool : pool[k].kind = "values" /\ GetVarByName(a[2]) = pool[k]
    BY <1>1, Getting
  <1>4. /\ BindingOK(pool[j], pool, Len(tbl)) /\ BindingOK(pool[k], pool, Len(tbl))
        /\ \A i \in DOMAIN pool : i \in Nat
    BY <1>1 DEF PoolOK
  <1>5. pool[j].v \in Seq(1 .. Len(tbl)) /\ pool[k].v \in Seq(Int) /\ pool[k].from = j + 2
    BY <1>1, <1>2, <1>3, <1>4 DEF BindingOK
  <1>6. PICK i \in DOMAIN pool : pool[k].from = i + 2 /\ Len(pool[i].v) = Len(pool[k].v)
    BY <1>3, <1>4 DEF BindingOK
  <1>7. i = j
    BY <1>4, <1>5, <1>6
  <1> QED
    BY <1>2, <1>3, <1>5, <1>6, <1>7

\* One element, and two.
LEMMA OneAndTwo ==
  ASSUME NEW x, NEW y
  PROVE  /\ <<x>> \in Seq(Range(<<x>>)) /\ DOMAIN <<x>> = {1} /\ <<x>>[1] = x
         /\ <<x, y>> \in Seq(Range(<<x, y>>)) /\ DOMAIN <<x, y>> = {1, 2}
         /\ <<x, y>>[1] = x /\ <<x, y>>[2] = y
  <1>1. /\ <<x>> \in Seq({x}) /\ Range(<<x>>) = {x} /\ DOMAIN <<x>> = {1}
        /\ <<x>>[1] = x
    BY DEF Range
  <1>2. DOMAIN <<x, y>> = {1, 2} /\ <<x, y>>[1] = x /\ <<x, y>>[2] = y
    OBVIOUS
  <1>3. Range(<<x, y>>) = {x, y}
    BY <1>2 DEF Range
  <1>4. <<x, y>> \in Seq({x, y})
    OBVIOUS
  <1> QED
    BY <1>1, <1>2, <1>3, <1>4

\* What the handlers that bind variables do to the pool.
LEMMA BindingAppends ==
  ASSUME pool \in Seq(Range(pool)), NEW bs, bs \in Seq(Range(bs)), Bind(bs)
  PROVE  /\ UNCHANGED <<tbl, primary, moved>>
         /\ pool' \in Seq(Range(pool')) /\ Len(pool') = Len(pool) + Len(bs)
         /\ \A k \in 1 .. Len(pool) : pool'[k] = pool[k]
         /\ \A k \in 1 .. Len(bs) :
              pool'[Len(pool) + k] = [bs[k] EXCEPT !.name = Len(pool) + k + 2]
  <1> DEFINE named == [k \in DOMAIN bs |-> [bs[k] EXCEPT !.name = NewName + k - 1]]
             n == Len(pool)
             l == Len(bs)
  <1>1. UNCHANGED <<tbl, primary, moved>> /\ pool' = pool \o named
    BY DEF Bind
  <1>2. n \in Nat /\ DOMAIN pool = 1 .. n /\ l \in Nat /\ DOMAIN bs = 1 .. l
    OBVIOUS
  <1>3. named \in Seq(Range(named)) /\ Len(named) = l
    <2>1. DOMAIN named = 1 .. l /\ named = [k \in 1 .. l |-> named[k]]
      BY <1>2
    <2> HIDE DEF named
    <2>2. named \in [1 .. l -> Range(named)]
      BY <2>1 DEF Range
    <2> QED
      BY <1>2, <2>2
  <1>4. \A k \in 1 .. l : named[k] = [bs[k] EXCEPT !.name = n + k + 2]
    <2> TAKE k \in 1 .. l
    <2>1. NewName + k - 1 = n + k + 2
      BY <1>2, TwoColumns DEF NewName
    <2> QED
      BY <1>2, <2>1
  <1> DEFINE T == Range(pool) \cup Range(named)
  <1>5. pool \in Seq(T) /\ named \in Seq(T)
    <2> DEFINE A == Range(pool)  B == Range(named)
    <2> HIDE DEF A, B, named
    <2>1. pool \in Seq(A) /\ named \in Seq(B)
      BY <1>3 DEF A, B
    <2>2. pool \in Seq(A \cup B) /\ named \in Seq(A \cup B)
      BY <2>1
    <2> QED
      BY <2>2 DEF A, B
  <1> HIDE DEF named, T
  <1>6. /\ pool \o named \in Seq(T) /\ Len(pool \o named) = n + l
        /\ \A k \in 1 .. n : (pool \o named)[k] = pool[k]
        /\ \A k \in 1 .. l : (pool \o named)[n + k] = named[k]
    BY <1>2, <1>3, <1>5
  <1>7. pool' \in Seq(Range(pool'))
    <2>1. pool' \in Seq(T)
      BY <1>1, <1>6
    <2> QED
      BY <2>1 DEF Range
  <1> QED
    BY <1>1, <1>4, <1>6, <1>7

\* What the handlers bind, and the same with its name.
Fields == {"name", "kind", "v", "rows", "terms", "col", "from"}
Fresh(b) == b = [f \in Fields |-> b[f]] /\ BindingOK(b, pool, Len(tbl))

\* Bind sets the name of a binding, and nothing else of it.
LEMMA Naming ==
  ASSUME NEW b, b = [f \in Fields |-> b[f]], NEW x
  PROVE  LET c == [b EXCEPT !.name = x]
         IN  /\ c.name = x /\ c.kind = b.kind /\ c.v = b.v /\ c.rows = b.rows
             /\ c.terms = b.terms /\ c.col = b.col /\ c.from = b.from
  BY DEF Fields

\* So what was so of the pool still is, if it is so of the new bindings.
LEMMA BindingKeepsBase ==
  ASSUME Base, NEW bs, bs \in Seq(Range(bs)), Bind(bs), \A k \in DOMAIN bs : Fresh(bs[k])
  PROVE  Base'
  <1> DEFINE n == Len(pool)
             l == Len(bs)
             m == Len(tbl)
  <1>1. /\ UNCHANGED <<tbl, primary, moved>>
        /\ pool' \in Seq(Range(pool')) /\ Len(pool') = n + l
        /\ \A k \in 1 .. n : pool'[k] = pool[k]
        /\ \A k \in 1 .. l : pool'[n + k] = [bs[k] EXCEPT !.name = n + k + 2]
    BY BindingAppends DEF Base, PoolOK
  <1>2. /\ n \in Nat /\ l \in Nat /\ DOMAIN pool = 1 .. n /\ DOMAIN bs = 1 .. l
        /\ DOMAIN pool' = 1 .. n + l
    BY <1>1 DEF Base, PoolOK
  <1>3. \A k \in 1 .. n : pool[k].name = k + 2 /\ BindingOK(pool[k], pool, m)
    BY <1>2 DEF Base, PoolOK
  <1>4. \A k \in 1 .. l : LET c == [bs[k] EXCEPT !.name = n + k + 2]
                          IN  c.name = n + k + 2 /\ BindingOK(c, pool, m)
    <2> TAKE k \in 1 .. l
    <2> DEFINE b == bs[k]
               c == [b EXCEPT !.name = n + k + 2]
    <2>1. b = [f \in Fields |-> b[f]] /\ BindingOK(b, pool, m)
      BY <1>2 DEF Fresh
    <2>2. c.name = n + k + 2 /\ c.kind = b.kind /\ c.v = b.v /\ c.from = b.from
      BY <2>1, Naming
    <2>3. BindingOK(c, pool, m)
      <3> HIDE DEF b, c
      <3> QED
        BY <2>1, <2>2 DEF BindingOK
    <2> QED
      BY <2>2, <2>3
  <1> HIDE DEF n, l, m
  <1>5. ASSUME NEW b, BindingOK(b, pool, m)
        PROVE  BindingOK(b, pool', m)
    <2>1. \A j \in DOMAIN pool : j \in DOMAIN pool' /\ pool'[j] = pool[j]
      BY <1>1, <1>2
    <2> QED
      BY <1>5, <2>1 DEF BindingOK
  <1>6. ASSUME NEW k \in DOMAIN pool'
        PROVE  pool'[k].name = k + 2 /\ BindingOK(pool'[k], pool', m)
    <2>1. CASE k \in 1 .. n
      BY <1>1, <1>3, <1>5, <2>1
    <2>2. CASE k \notin 1 .. n
      <3> DEFINE i == k - n
      <3>1. i \in 1 .. l /\ n + i = k
        BY <1>2, <2>2
      <3> HIDE DEF i
      <3>2. pool'[k] = [bs[i] EXCEPT !.name = k + 2]
        BY <1>1, <3>1
      <3>3. pool'[k].name = k + 2
        BY <1>4, <3>1, <3>2
      <3>4. BindingOK(pool'[k], pool, m)
        BY <1>4, <3>1, <3>2
      <3> QED
        BY <1>5, <3>3, <3>4
    <2> QED
      BY <2>1, <2>2
  <1>7. PoolOK(pool', m)
    BY <1>1, <1>6 DEF PoolOK
  <1> QED
    BY <1>1, <1>7 DEF Base, m

\* One binding, and two.
LEMMA OneKeepsBase ==
  ASSUME Base, NEW b, Bind(<<b>>), Fresh(b)
  PROVE  Base'
  <1> DEFINE bs == <<b>>
  <1>1. bs \in Seq(Range(bs)) /\ DOMAIN bs = {1} /\ bs[1] = b /\ Bind(bs)
    BY OneAndTwo
  <1> HIDE DEF bs
  <1>2. \A k \in DOMAIN bs : Fresh(bs[k])
    BY <1>1
  <1> QED
    BY <1>1, <1>2, BindingKeepsBase

\* And two, as a join binds.
LEMMA TwoKeepBase ==
  ASSUME Base, NEW b, NEW c, Bind(<<b, c>>), Fresh(b), Fresh(c)
  PROVE  Base'
  <1> DEFINE bs == <<b, c>>
  <1>1. bs \in Seq(Range(bs)) /\ DOMAIN bs = {1, 2} /\ bs[1] = b /\ bs[2] = c /\ Bind(bs)
    BY OneAndTwo
  <1> HIDE DEF bs
  <1>2. \A k \in DOMAIN bs : Fresh(bs[k])
    BY <1>1
  <1> QED
    BY <1>1, <1>2, BindingKeepsBase

\* What a number of the scanner is as an int.
LEMMA Reading ==
  ASSUME NEW n \in Int
  PROVE  Atoi(n) \in MinData .. MaxData /\ (n \in MinData .. MaxData => Atoi(n) = n)
  <1> DEFINE P == MaxData - MinData + 1
             d == n - MinData
  <1>1. MinData \in Int /\ MaxData \in Int /\ P \in Nat \ {0} /\ d \in Int
    BY RangeAssumption
  <1> HIDE DEF P
  <1>2. d % P \in 0 .. P - 1 /\ (d \in 0 .. P - 1 => d % P = d)
    <2> HIDE DEF d
    <2> QED
      BY <1>1
  <1> QED
    BY <1>1, <1>2 DEF Atoi, P

\* A column of the table, and where its rows are.
LEMMA ColumnShape ==
  ASSUME RowsOK(tbl), NEW c \in Columns
  PROVE  /\ Len(tbl) \in Nat /\ DOMAIN tbl = 1 .. Len(tbl)
         /\ Column(c) \in Seq(Int) /\ Len(Column(c)) = Len(tbl)
         /\ DOMAIN Column(c) = 1 .. Len(tbl)
         /\ \A p \in 1 .. Len(tbl) :
              /\ Column(c)[p] = tbl[p].vals[c] /\ tbl[p].vals[c] \in MinData .. MaxData
              /\ tbl[p].vals \in Rows /\ RowAt(p) = tbl[p].row /\ tbl[p].row \in 1 .. Len(tbl)
  <1> DEFINE n == Len(tbl)
  <1>1. n \in Nat /\ DOMAIN tbl = 1 .. n /\ \A p \in 1 .. n : tbl[p] \in [row : Nat, vals : Rows]
    <2> DEFINE R == [row : Nat, vals : Rows]
    <2>1. tbl \in Seq(R)
      BY DEF RowsOK
    <2> HIDE DEF R
    <2>2. n \in Nat /\ DOMAIN tbl = 1 .. n /\ \A p \in 1 .. n : tbl[p] \in R
      BY <2>1
    <2> QED
      BY <2>2 DEF R
  <1>2. ASSUME NEW p \in 1 .. n
        PROVE  tbl[p].vals[c] \in MinData .. MaxData /\ tbl[p].vals \in Rows
    <2>1. tbl[p].vals \in Rows
      BY <1>1
    <2>2. tbl[p].vals \in [{1, 2} -> MinData .. MaxData]
      BY <2>1, RowAssumption
    <2> QED
      BY <2>1, <2>2 DEF Columns
  <1>3. Column(c) \in [1 .. n -> Int] /\ \A p \in 1 .. n : Column(c)[p] = tbl[p].vals[c]
    <2>1. \A p \in 1 .. n : tbl[p].vals[c] \in Int
      BY <1>2
    <2> QED
      BY <1>1, <2>1 DEF Column
  <1>4. Column(c) \in Seq(Int) /\ Len(Column(c)) = n /\ DOMAIN Column(c) = 1 .. n
    BY <1>1, <1>3
  <1>5. \A p \in 1 .. n : RowAt(p) = tbl[p].row /\ tbl[p].row \in 1 .. n
    BY <1>1 DEF RowsOK, RowAt
  <1> QED
    BY <1>1, <1>2, <1>3, <1>4, <1>5

\* fetch of valid positions.
LEMMA Fetching ==
  ASSUME NEW A, NEW B, NEW values \in Seq(A), NEW p \in Seq(B), B \subseteq DOMAIN values
  PROVE  /\ FetchAt(values, p) \in Seq(A) /\ Len(FetchAt(values, p)) = Len(p)
         /\ DOMAIN FetchAt(values, p) = DOMAIN p
         /\ \A k \in DOMAIN p : FetchAt(values, p)[k] = values[p[k]]
  <1>1. \A k \in DOMAIN p : p[k] \in B /\ values[p[k]] \in A
    <2> TAKE k \in DOMAIN p
    <2>1. p[k] \in DOMAIN values
      OBVIOUS
    <2> QED
      BY <2>1
  <1>2. FetchAt(values, p) \in [1 .. Len(p) -> A]
    BY <1>1 DEF FetchAt
  <1> QED
    BY <1>2 DEF FetchAt

\* The indexes that select_two returns.
LEMMA Hitting ==
  ASSUME NEW values \in Seq(Int), NEW l, NEW h
  PROVE  SelectTwoHits(values, l, h) \in Seq(DOMAIN values)
  <1> DEFINE S == { i \in DOMAIN values : l <= values[i] /\ values[i] < h }
  <1>1. S \in SUBSET DOMAIN values /\ DOMAIN values = 1 .. Len(values) /\ Len(values) \in Nat
    OBVIOUS
  <1>2. IsFiniteSet(1 .. Len(values))
    BY <1>1, FS_Interval
  <1>3. IsFiniteSet(S) /\ S \subseteq Int
    BY <1>1, <1>2, FS_Subset
  <1>4. Ordered(S) \in Seq(S)
    <2> HIDE DEF S
    <2> QED
      BY <1>3, OrderedLists
  <1>5. Ordered(S) \in Seq(DOMAIN values)
    <2> HIDE DEF S
    <2> QED
      BY <1>1, <1>4
  <1> QED
    BY <1>5 DEF SelectTwoHits

\* Every handler that is not an insert, and takes its arguments from the scripts, keeps
\* the bindings valid.
LEMMA SelectKeepsBase ==
  ASSUME Base, NEW c \in Columns, NEW r \in Ranges, Select(c, r[1], r[2])
  PROVE  Base'
  <1> DEFINE l == Low(r[1])
             h == High(r[2])
             found == IF c = 1 /\ primary THEN SelectPrimary(Column(c), l, h)
                                          ELSE SelectUnsorted(Column(c), l, h)
             v == Ordered(found)
             b == Positions(v, [k \in DOMAIN v |-> RowAt(v[k])])
  <1>1. Bind(<<b>>)
    BY DEF Select
  <1>2. l \in Int /\ h \in Int
    <2>1. (r[1] = Null \/ r[1] \in Int) /\ (r[2] = Null \/ r[2] \in Int)
      BY QueryAssumption
    <2> QED
      BY <2>1, Reading, RangeAssumption DEF Low, High
  <1>3. /\ Column(c) \in Seq(Int) /\ DOMAIN Column(c) = 1 .. Len(tbl)
        /\ DOMAIN tbl = 1 .. Len(tbl) /\ Len(tbl) \in Nat
        /\ \A p \in 1 .. Len(tbl) : Column(c)[p] = tbl[p].vals[c]
    BY ColumnShape DEF Base
  <1> HIDE DEF l, h
  <1>4. found \in SUBSET (1 .. Len(tbl))
    <2>1. CASE c = 1 /\ primary
      <3>1. Ascending(Column(c))
        BY <1>3, <2>1 DEF Ascending, Base, RowsAscend
      <3>2. SelectPrimary(Column(c), l, h) = { p \in DOMAIN Column(c) : l <= Column(c)[p] /\ Column(c)[p] <= h }
        BY <1>2, <1>3, <3>1, SelectPrimaryIsClosed
      <3> QED
        BY <1>3, <2>1, <3>2
    <2>2. CASE ~(c = 1 /\ primary)
      BY <1>3, <2>2 DEF SelectUnsorted
    <2> QED
      BY <2>1, <2>2
  <1>5. IsFiniteSet(1 .. Len(tbl))
    BY <1>3, FS_Interval
  <1> HIDE DEF found
  <1>6. found \subseteq Int
    BY <1>3, <1>4
  <1>7. v \in Seq(1 .. Len(tbl))
    <2> DEFINE A == 1 .. Len(tbl)
    <2>1. v \in Seq(found)
      <3>1. IsFiniteSet(found)
        <4> HIDE DEF A
        <4>1. found \in SUBSET A /\ IsFiniteSet(A)
          BY <1>4, <1>5 DEF A
        <4> QED
          BY <4>1, FS_Subset
      <3> QED
        BY <1>6, <3>1, OrderedLists
    <2>2. found \subseteq A
      BY <1>4
    <2> HIDE DEF A, v
    <2>3. v \in Seq(A)
      BY <2>1, <2>2
    <2> QED
      BY <2>3 DEF A
  <1> HIDE DEF v
  <1>8. Fresh(b)
    BY <1>7 DEF Fresh, Fields, BindingOK, Positions
  <1> HIDE DEF b
  <1> QED
    BY <1>1, <1>8, OneKeepsBase

\* fetch binds ints of a column, as many as there are positions.
LEMMA FetchKeepsBase ==
  ASSUME Base, NEW c \in Columns, NEW p \in Names("positions"), Fetch(c, p)
  PROVE  Base'
  <1> DEFINE at == GetVarByName(p)
             v == FetchAt(Column(c), at.v)
             b == Fetched(v, at.rows, c, p)
  <1>1. Bind(<<b>>)
    BY DEF Fetch
  <1>2. PICK j \in DOMAIN pool : p = j + 2 /\ pool[j].kind = "positions" /\ at = pool[j]
    BY Getting DEF Base
  <1>3. at.v \in Seq(1 .. Len(tbl))
    BY <1>2 DEF Base, PoolOK, BindingOK
  <1>4. Column(c) \in Seq(Int) /\ DOMAIN Column(c) = 1 .. Len(tbl)
    BY ColumnShape DEF Base
  <1>5. v \in Seq(Int) /\ Len(v) = Len(at.v)
    BY <1>3, <1>4, Fetching
  <1> HIDE DEF v, at
  <1>6. Fresh(b)
    BY <1>2, <1>5 DEF Fresh, Fields, BindingOK, Fetched
  <1> HIDE DEF b
  <1> QED
    BY <1>1, <1>6, OneKeepsBase

\* selectv binds some of the positions that it is given.
LEMMA SelectTwoKeepsBase ==
  ASSUME Base, NEW a \in Pairs, NEW r \in Ranges, SelectTwo(a[1], a[2], r[1], r[2])
  PROVE  Base'
  <1> DEFINE pos == GetVarByName(a[1])
             val == GetVarByName(a[2])
             hits == SelectTwoHits(val.v, Low(r[1]), HighOfSelectv(r[1], r[2]))
             v == FetchAt(pos.v, hits)
  <1>1. PICK rows : Bind(<<Positions(v, rows)>>)
    BY DEF SelectTwo
  <1>2. /\ pos.v \in Seq(1 .. Len(tbl)) /\ val.v \in Seq(Int)
        /\ Len(pos.v) = Len(val.v)
    BY PairGetting
  <1> HIDE DEF pos, val
  <1>3. DOMAIN pos.v = DOMAIN val.v
    BY <1>2
  <1>4. hits \in Seq(DOMAIN val.v)
    BY <1>2, Hitting
  <1> HIDE DEF hits
  <1>5. v \in Seq(1 .. Len(tbl))
    BY <1>2, <1>3, <1>4, Fetching
  <1> HIDE DEF v
  <1> DEFINE b == Positions(v, rows)
  <1>6. Fresh(b)
    BY <1>5 DEF Fresh, Fields, BindingOK, Positions
  <1>7. Bind(<<b>>)
    BY <1>1
  <1> HIDE DEF b
  <1> QED
    BY <1>6, <1>7, OneKeepsBase

\* A join binds positions only, whichever pairs of indexes it finds.
LEMMA JoinedKeepsBase ==
  ASSUME Base, NEW a \in Pairs, NEW b \in Pairs,
         NEW pairs \in Seq((DOMAIN GetVarByName(a[2]).v) \X (DOMAIN GetVarByName(b[2]).v)),
         Joined(a[1], b[1], pairs)
  PROVE  Base'
  <1> DEFINE first == GetVarByName(a[1])
             second == GetVarByName(b[1])
             v1 == [k \in DOMAIN pairs |-> first.v[pairs[k][1]]]
             v2 == [k \in DOMAIN pairs |-> second.v[pairs[k][2]]]
             b1 == Positions(v1, [k \in DOMAIN pairs |-> first.rows[pairs[k][1]]])
             b2 == Positions(v2, [k \in DOMAIN pairs |-> second.rows[pairs[k][2]]])
  <1>1. Bind(<<b1, b2>>)
    BY DEF Joined
  <1>2. /\ first.v \in Seq(1 .. Len(tbl)) /\ second.v \in Seq(1 .. Len(tbl))
        /\ DOMAIN GetVarByName(a[2]).v = DOMAIN first.v
        /\ DOMAIN GetVarByName(b[2]).v = DOMAIN second.v
    <2>1. /\ first.v \in Seq(1 .. Len(tbl)) /\ GetVarByName(a[2]).v \in Seq(Int)
          /\ Len(first.v) = Len(GetVarByName(a[2]).v)
      BY PairGetting
    <2>2. /\ second.v \in Seq(1 .. Len(tbl)) /\ GetVarByName(b[2]).v \in Seq(Int)
          /\ Len(second.v) = Len(GetVarByName(b[2]).v)
      BY PairGetting
    <2> HIDE DEF first, second
    <2> QED
      BY <2>1, <2>2
  <1>3. pairs \in Seq((DOMAIN first.v) \X (DOMAIN second.v))
    BY <1>2
  <1> HIDE DEF first, second
  <1>4. v1 \in Seq(1 .. Len(tbl)) /\ v2 \in Seq(1 .. Len(tbl))
    <2>1. \A k \in DOMAIN pairs : first.v[pairs[k][1]] \in 1 .. Len(tbl)
                                  /\ second.v[pairs[k][2]] \in 1 .. Len(tbl)
      <3> TAKE k \in DOMAIN pairs
      <3>1. pairs[k][1] \in DOMAIN first.v /\ pairs[k][2] \in DOMAIN second.v
        BY <1>3
      <3> DEFINE x == pairs[k][1]  y == pairs[k][2]  A == 1 .. Len(tbl)
      <3>2. x \in DOMAIN first.v /\ y \in DOMAIN second.v /\ first.v \in Seq(A) /\ second.v \in Seq(A)
        BY <1>2, <3>1
      <3> HIDE DEF x, y, A
      <3>3. first.v[x] \in A /\ second.v[y] \in A
        BY <3>2
      <3> QED
        BY <3>3 DEF x, y, A
    <2>2. DOMAIN pairs = 1 .. Len(pairs) /\ Len(pairs) \in Nat
      BY <1>3
    <2>3. v1 \in [1 .. Len(pairs) -> 1 .. Len(tbl)] /\ v2 \in [1 .. Len(pairs) -> 1 .. Len(tbl)]
      BY <2>1, <2>2
    <2> QED
      BY <2>2, <2>3
  <1> HIDE DEF v1, v2
  <1>5. Fresh(b1) /\ Fresh(b2)
    BY <1>4 DEF Fresh, Fields, BindingOK, Positions
  <1> HIDE DEF b1, b2
  <1> QED
    BY <1>1, <1>5, TwoKeepBase

\* The next server has no session, and its table is empty.
LEMMA DieKeepsBase ==
  ASSUME Base, Die
  PROVE  Base'
  <1>1. tbl' = <<>> /\ pool' = <<>> /\ moved' = FALSE /\ primary' = primary
    BY DEF Die
  <1>2. /\ tbl' \in Seq([row : Nat, vals : Rows]) /\ DOMAIN tbl' = {} /\ Len(tbl') = 0
        /\ pool' \in Seq(Range(pool')) /\ DOMAIN pool' = {}
    BY <1>1
  <1>3. RowsOK(tbl') /\ RowsAscend(tbl')
    BY <1>2 DEF RowsOK, RowsAscend
  <1>4. PoolOK(pool', Len(tbl'))
    BY <1>2 DEF PoolOK
  <1> QED
    BY <1>1, <1>3, <1>4 DEF Base

\* min, max and avg bind one number.
LEMMA NumberKeepsBase ==
  ASSUME Base, NEW kind \in {"min", "max", "avg"}, NEW v, NEW terms,
         Bind(<<Number(kind, v, terms)>>)
  PROVE  Base'
  <1>1. Fresh(Number(kind, v, terms))
    BY DEF Fresh, Fields, BindingOK, Number
  <1> QED
    BY <1>1, OneKeepsBase

\* The operands of a calculation are vectors of ints.
LEMMA OperandShape ==
  ASSUME Base, NEW o \in Operands
  PROVE  VarOrCol(o).v \in Seq(Int)
  <1>1. CASE o \in Columns
    <2>1. Column(o) \in Seq(Int)
      BY <1>1, ColumnShape DEF Base
    <2> QED
      BY <1>1, <2>1 DEF VarOrCol, Fetched
  <1>2. CASE o \notin Columns
    <2>1. PICK kind \in {"values", "sum"} : o \in Names(kind)
      BY <1>2 DEF Operands
    <2>2. PICK k \in DOMAIN pool : pool[k].kind = kind /\ GetVarByName(o) = pool[k]
      BY <2>1, Getting DEF Base
    <2>3. pool[k].v \in Seq(Int)
      BY <2>2 DEF Base, PoolOK, BindingOK
    <2> QED
      BY <1>2, <2>2, <2>3 DEF VarOrCol
  <1> QED
    BY <1>1, <1>2

\* An aggregate binds a number, or the server dies of an empty vector.
LEMMA AggregateKeepsBase ==
  ASSUME Base, NEW o \in Operands, Minimum(o) \/ Maximum(o) \/ Average(o)
  PROVE  Base'
  BY DieKeepsBase, NumberKeepsBase DEF Minimum, Maximum, Average

\* add and sub bind a vector of ints.
LEMMA SumKeepsBase ==
  ASSUME Base, NEW v \in Seq(Int), NEW terms, Bind(<<Sum(v, terms)>>)
  PROVE  Base'
  <1>1. Fresh(Sum(v, terms))
    BY DEF Fresh, Fields, BindingOK, Sum
  <1> QED
    BY <1>1, OneKeepsBase

\* A calculation binds a vector of ints, or the server dies of operands of two lengths.
LEMMA CalculationKeepsBase ==
  ASSUME Base, NEW o1 \in Operands, NEW o2 \in Operands, Add(o1, o2) \/ Sub(o1, o2)
  PROVE  Base'
  <1> DEFINE v1 == VarOrCol(o1).v
             v2 == VarOrCol(o2).v
  <1>1. v1 \in Seq(Int) /\ v2 \in Seq(Int)
    BY OperandShape
  <1>2. Len(v1) = Len(v2) => AddVectors(v1, v2) \in Seq(Int) /\ SubVectors(v1, v2) \in Seq(Int)
    <2> HIDE DEF v1, v2
    <2> SUFFICES ASSUME Len(v1) = Len(v2)
                 PROVE  AddVectors(v1, v2) \in Seq(Int) /\ SubVectors(v1, v2) \in Seq(Int)
      OBVIOUS
    <2>1. Len(v1) \in Nat /\ DOMAIN v1 = 1 .. Len(v1) /\ \A i \in 1 .. Len(v1) : v1[i] \in Int /\ v2[i] \in Int
      BY <1>1
    <2>2. AddVectors(v1, v2) \in [1 .. Len(v1) -> Int] /\ SubVectors(v1, v2) \in [1 .. Len(v1) -> Int]
      BY <2>1 DEF AddVectors, SubVectors
    <2>3. ASSUME NEW n \in Nat, NEW f \in [1 .. n -> Int]
          PROVE  f \in Seq(Int)
      OBVIOUS
    <2> QED
      BY <2>1, <2>2, <2>3
  <1>3. \/ Die
        \/ Len(v1) = Len(v2) /\ \E terms : Bind(<<Sum(AddVectors(v1, v2), terms)>>)
        \/ Len(v1) = Len(v2) /\ \E terms : Bind(<<Sum(SubVectors(v1, v2), terms)>>)
    BY DEF Add, Sub
  <1> HIDE DEF v1, v2
  <1> QED
    BY <1>2, <1>3, DieKeepsBase, SumKeepsBase

\* The new table of relational_insert: with every row there was, and one more, in the
\* order of the first column if that is the primary one.
LEMMA InsertedRows ==
  ASSUME Base, NEW vals \in Rows, RelationalInsert(vals)
  PROVE  /\ RowsOK(tbl') /\ Len(tbl') = Len(tbl) + 1
         /\ primary' = primary /\ pool' = pool
         /\ primary => RowsAscend(tbl')
  <1> DEFINE n == Len(tbl)
             R == [row : Nat, vals : Rows]
             new == [row |-> n + 1, vals |-> vals]
             appended == Append(tbl, new)
             keys == [q \in DOMAIN appended |-> appended[q].vals[1]]
  <1>1. /\ n \in Nat /\ tbl \in Seq(R) /\ DOMAIN tbl = 1 .. n
        /\ \A p \in 1 .. n : tbl[p].row \in 1 .. n
        /\ \A p, q \in 1 .. n : tbl[p].row = tbl[q].row => p = q
    <2>1. tbl \in Seq(R)
      BY DEF Base, RowsOK
    <2> HIDE DEF R
    <2>2. n \in Nat /\ DOMAIN tbl = 1 .. n
      BY <2>1
    <2> QED
      BY <2>1, <2>2 DEF Base, RowsOK
  <1>2. /\ appended \in Seq(R) /\ Len(appended) = n + 1 /\ DOMAIN appended = 1 .. n + 1
        /\ \A p \in 1 .. n : appended[p] = tbl[p]
        /\ appended[n + 1] = new /\ new.row = n + 1
    <2>1. new \in R /\ new.row = n + 1
      BY <1>1
    <2> HIDE DEF new, R
    <2> QED
      BY <1>1, <2>1
  <1>3. /\ \A p \in 1 .. n + 1 : appended[p].row \in 1 .. n + 1
        /\ \A p, q \in 1 .. n + 1 : appended[p].row = appended[q].row => p = q
    <2> HIDE DEF appended, new
    <2>1. \A p \in 1 .. n + 1 : p \in 1 .. n \/ p = n + 1
      BY <1>1
    <2>2. \A p \in 1 .. n : appended[p].row \in 1 .. n /\ appended[p].row # n + 1
      BY <1>1, <1>2
    <2>3. n + 1 \in 1 .. n + 1 /\ \A k \in 1 .. n : k \in 1 .. n + 1
      BY <1>1
    <2>4. \A p \in 1 .. n + 1 : appended[p].row \in 1 .. n + 1
      BY <1>2, <2>1, <2>2, <2>3
    <2>5. ASSUME NEW p \in 1 .. n + 1, NEW q \in 1 .. n + 1, appended[p].row = appended[q].row
          PROVE  p = q
      <3>1. CASE p \in 1 .. n /\ q \in 1 .. n
        BY <1>1, <1>2, <2>5, <3>1
      <3>2. CASE p = n + 1 \/ q = n + 1
        BY <1>2, <2>1, <2>2, <2>5, <3>2
      <3> QED
        BY <2>1, <3>1, <3>2
    <2> QED
      BY <2>4, <2>5
  <1>4. RowsOK(appended)
    <2> HIDE DEF appended
    <2> QED
      BY <1>2, <1>3 DEF RowsOK
  <1>5. primary' = primary /\ pool' = pool
    BY DEF RelationalInsert
  <1>6. CASE ~primary
    <2>1. tbl' = appended
      BY <1>6 DEF RelationalInsert
    <2> HIDE DEF appended
    <2> QED
      BY <1>2, <1>4, <1>5, <1>6, <2>1
  <1>7. CASE primary
    <2>1. PICK q \in SortedPositions(keys) : tbl' = SortVectorFromPositions(appended, q)
      BY <1>7 DEF RelationalInsert
    <2> HIDE DEF appended
    <2>2. DOMAIN keys = 1 .. n + 1
      BY <1>2
    <2>3. /\ q \in [1 .. n + 1 -> 1 .. n + 1]
          /\ \A j, k \in 1 .. n + 1 : q[j] = q[k] => j = k
          /\ Ascending([k \in 1 .. n + 1 |-> keys[q[k]]])
      BY <2>1, <2>2 DEF SortedPositions
    <2>4. tbl' = [k \in 1 .. n + 1 |-> appended[q[k]]]
      BY <1>2, <2>1 DEF SortVectorFromPositions
    <2> DEFINE l == n + 1
    <2>5. l \in Nat
      BY <1>1
    <2> HIDE DEF l
    <2>6. tbl' \in [1 .. l -> R] /\ \A k \in 1 .. l : tbl'[k] = appended[q[k]] /\ q[k] \in 1 .. l
      <3>1. \A k \in 1 .. l : q[k] \in 1 .. l /\ appended[q[k]] \in R
        <4>1. appended \in Seq(R) /\ DOMAIN appended = 1 .. l /\ q \in [1 .. l -> 1 .. l]
          BY <1>2, <2>3 DEF l
        <4> HIDE DEF R, l
        <4>2. \A x \in 1 .. l : appended[x] \in R
          <5>1. appended \in [1 .. Len(appended) -> R] /\ DOMAIN appended = 1 .. Len(appended)
            BY <4>1, SeqDef, LenProperties
          <5> QED
            BY <4>1, <5>1
        <4> QED
          BY <4>1, <4>2
      <3> QED
        BY <2>4, <3>1 DEF l
    <2>7. tbl' \in Seq(R) /\ Len(tbl') = l /\ DOMAIN tbl' = 1 .. l
      <3> HIDE DEF R
      <3> QED
        BY <2>5, <2>6
    <2>8. RowsOK(tbl')
      <3>1. \A k \in 1 .. l : tbl'[k].row \in 1 .. l
        BY <1>3, <2>6 DEF l
      <3>2. \A j, k \in 1 .. l : tbl'[j].row = tbl'[k].row => j = k
        <4> SUFFICES ASSUME NEW j \in 1 .. l, NEW k \in 1 .. l, tbl'[j].row = tbl'[k].row
                     PROVE  j = k
          OBVIOUS
        <4> DEFINE x == q[j]  y == q[k]
        <4>1. /\ x \in 1 .. n + 1 /\ y \in 1 .. n + 1
              /\ tbl'[j] = appended[x] /\ tbl'[k] = appended[y]
              /\ tbl'[j].row = tbl'[k].row
          BY <2>6 DEF l
        <4> HIDE DEF x, y
        <4>2. x = y
          BY <1>3, <4>1
        <4> QED
          BY <2>3, <4>2 DEF l, x, y
      <3> QED
        BY <2>7, <3>1, <3>2 DEF RowsOK
    <2>9. RowsAscend(tbl')
      <3>1. \A k \in 1 .. l : keys[q[k]] = tbl'[k].vals[1]
        BY <1>2, <2>6 DEF l
      <3> HIDE DEF keys
      <3>2. \A j, k \in 1 .. l : j <= k => keys[q[j]] <= keys[q[k]]
        BY <2>3 DEF Ascending, l
      <3>3. \A j, k \in 1 .. l : j <= k => tbl'[j].vals[1] <= tbl'[k].vals[1]
        BY <3>1, <3>2, Zenon
      <3> QED
        BY <2>7, <3>3, Zenon DEF RowsAscend
    <2> QED
      BY <1>5, <2>7, <2>8, <2>9 DEF l
  <1> QED
    BY <1>6, <1>7

\* An insert makes the table longer, so that positions stay in it, whichever row they name.
LEMMA InsertKeepsBase ==
  ASSUME Base, NEW vals \in Rows, RelationalInsert(vals)
  PROVE  Base'
  <1> DEFINE n == Len(tbl)
  <1>1. /\ RowsOK(tbl') /\ Len(tbl') = n + 1
        /\ primary' = primary /\ pool' = pool
        /\ primary => RowsAscend(tbl')
    BY InsertedRows
  <1>2. moved' \in BOOLEAN
    BY DEF Base, RelationalInsert
  <1>3. n \in Nat
    BY TwoColumns, ColumnShape DEF Base, Columns
  <1> HIDE DEF n
  <1>4. ASSUME NEW b, BindingOK(b, pool, n)
        PROVE  BindingOK(b, pool, n + 1)
    <2>1. 1 .. n \subseteq 1 .. n + 1
      BY <1>3
    <2>2. b.v \in Seq(1 .. n) => b.v \in Seq(1 .. n + 1)
      <3> DEFINE A == 1 .. n  B == 1 .. n + 1
      <3>1. A \subseteq B
        BY <2>1
      <3> HIDE DEF A, B
      <3>2. b.v \in Seq(A) => b.v \in Seq(B)
        BY <3>1
      <3> QED
        BY <3>2 DEF A, B
    <2> QED
      BY <1>4, <2>2 DEF BindingOK
  <1>5. PoolOK(pool, n) => PoolOK(pool, n + 1)
    BY <1>4 DEF PoolOK
  <1> QED
    BY <1>1, <1>2, <1>5 DEF Base, n

\* A client that leaves takes its variables along.
LEMMA DisconnectKeepsBase ==
  ASSUME Base, Disconnect
  PROVE  Base'
  <1>1. pool' = <<>> /\ moved' = FALSE /\ UNCHANGED <<tbl, primary>>
    BY DEF Disconnect
  <1>2. pool' \in Seq(Range(pool')) /\ DOMAIN pool' = {}
    BY <1>1
  <1>3. PoolOK(pool', Len(tbl))
    BY <1>2 DEF PoolOK
  <1> QED
    BY <1>1, <1>3 DEF Base

\* What the two joins find.
LEMMA JoinKeepsBase ==
  ASSUME Base, NEW a \in Pairs, NEW b \in Pairs,
         Nested(a[1], a[2], b[1], b[2]) \/ Hashed(a[1], a[2], b[1], b[2])
  PROVE  Base'
  <1> DEFINE v1 == GetVarByName(a[2]).v
             v2 == GetVarByName(b[2]).v
  <1>1. v1 \in Seq(Int) /\ v2 \in Seq(Int)
    BY PairGetting
  <1>2. /\ NestedJoin(v1, v2) \in Seq((DOMAIN v1) \X (DOMAIN v2))
        /\ HashJoin(v1, v2) \in Seq((DOMAIN v1) \X (DOMAIN v2))
    <2> HIDE DEF v1, v2
    <2> QED
      BY <1>1, NestedJoinIsExact, HashJoinIsExact
  <1>3. CASE Nested(a[1], a[2], b[1], b[2])
    BY <1>2, <1>3, JoinedKeepsBase DEF Nested
  <1>4. CASE Hashed(a[1], a[2], b[1], b[2])
    BY <1>2, <1>4, JoinedKeepsBase DEF Hashed
  <1> QED
    BY <1>3, <1>4

---------------------------------------------------------------------------
(* The invariants that no client can break.                                *)

\* The server starts with an empty table and no session.
LEMMA InitBase == Init => Base
  <1> SUFFICES ASSUME Init
               PROVE  Base
    OBVIOUS
  <1>1. tbl = <<>> /\ primary \in BOOLEAN /\ pool = <<>> /\ moved = FALSE
    BY DEF Init
  <1>2. /\ tbl \in Seq([row : Nat, vals : Rows]) /\ DOMAIN tbl = {}
        /\ pool \in Seq(Range(pool)) /\ DOMAIN pool = {}
    BY <1>1
  <1> QED
    BY <1>1, <1>2 DEF Base, RowsOK, RowsAscend, PoolOK

\* No handler breaks what holds whatever the clients do.
LEMMA NextKeepsBase == Base /\ [Next]_vars => Base'
  <1> SUFFICES ASSUME Base, [Next]_vars
               PROVE  Base'
    OBVIOUS
  <1>1. ASSUME NEW vals \in Rows, RelationalInsert(vals)
        PROVE  Base'
    BY <1>1, InsertKeepsBase
  <1>2. ASSUME NEW c \in Columns, NEW r \in Ranges, Select(c, r[1], r[2])
        PROVE  Base'
    BY <1>2, SelectKeepsBase
  <1>3. ASSUME NEW c \in Columns, NEW p \in Names("positions"), Fetch(c, p)
        PROVE  Base'
    BY <1>3, FetchKeepsBase
  <1>4. ASSUME NEW a \in Pairs, NEW r \in Ranges, SelectTwo(a[1], a[2], r[1], r[2])
        PROVE  Base'
    BY <1>4, SelectTwoKeepsBase
  <1>5. ASSUME NEW a \in Pairs, NEW b \in Pairs,
               Nested(a[1], a[2], b[1], b[2]) \/ Hashed(a[1], a[2], b[1], b[2])
        PROVE  Base'
    BY <1>5, JoinKeepsBase
  <1>6. ASSUME NEW o \in Operands, Minimum(o) \/ Maximum(o) \/ Average(o)
        PROVE  Base'
    BY <1>6, AggregateKeepsBase
  <1>7. ASSUME NEW o1 \in Operands, NEW o2 \in Operands, Add(o1, o2) \/ Sub(o1, o2)
        PROVE  Base'
    BY <1>7, CalculationKeepsBase
  <1>8. CASE Disconnect
    BY <1>8, DisconnectKeepsBase
  <1>9. CASE UNCHANGED vars
    BY <1>9 DEF vars, Base
  <1> QED
    BY <1>1, <1>2, <1>3, <1>4, <1>5, <1>6, <1>7, <1>8, <1>9 DEF Next

\* So it holds of every session.
LEMMA BaseHolds == Spec => []Base
  BY InitBase, NextKeepsBase, PTL DEF Spec

\* Names are bound once, and the positions of every variable are in the table, whatever
\* was inserted since and however the operands of the queries were read.
THEOREM TypeCorrect == Spec => []TypeOK
  <1>1. Base => TypeOK
    <2> SUFFICES ASSUME Base
                 PROVE  TypeOK
      OBVIOUS
    <2>1. DOMAIN tbl = 1 .. Len(tbl)
      BY DEF Base, RowsOK
    <2>2. \A k \in DOMAIN pool : k \in Nat /\ pool[k].name = k + 2
      BY DEF Base, PoolOK
    <2>3. \A j, k \in DOMAIN pool : pool[j].name = pool[k].name => j = k
      BY <2>2
    <2>4. ASSUME NEW k \in DOMAIN pool, pool[k].kind = "positions"
          PROVE  Range(pool[k].v) \subseteq DOMAIN tbl
      <3>1. pool[k].v \in Seq(1 .. Len(tbl))
        BY <2>4 DEF Base, PoolOK, BindingOK
      <3> QED
        BY <2>1, <3>1 DEF Range
    <2> QED
      BY <2>3, <2>4 DEF TypeOK, Base, RowsOK
  <1> QED
    BY <1>1, BaseHolds, PTL

\* The nested join of any two variables that pair is the join of their values.
THEOREM NestedJoinStaysExact == Spec => []NestedJoinExact
  <1>1. Base => NestedJoinExact
    <2> SUFFICES ASSUME Base, NEW a \in Pairs, NEW b \in Pairs
                 PROVE  LET found == NestedJoin(GetVarByName(a[2]).v, GetVarByName(b[2]).v)
                        IN  /\ Range(found) = Equal(GetVarByName(a[2]).v, GetVarByName(b[2]).v)
                            /\ IsInjective(found)
      BY DEF NestedJoinExact
    <2>1. GetVarByName(a[2]).v \in Seq(Int) /\ GetVarByName(b[2]).v \in Seq(Int)
      BY PairGetting
    <2> QED
      BY <2>1, NestedJoinIsExact
  <1> QED
    BY <1>1, BaseHolds, PTL

\* The hash join of values that are not negative finds all pairs of equal values, and
\* only those if no bucket is shared.
THEOREM HashJoinStaysExact == Spec => []HashJoinExact
  <1>1. Base => HashJoinExact
    <2> SUFFICES ASSUME Base, NEW a \in Pairs, NEW b \in Pairs
                 PROVE  LET v1 == GetVarByName(a[2]).v
                            v2 == GetVarByName(b[2]).v
                            found == HashJoin(v1, v2)
                            collide == \E x, y \in Range(v1) \cup Range(v2) :
                                         x # y /\ Hash(x) = Hash(y)
                        IN  /\ Equal(v1, v2) \subseteq Range(found) /\ IsInjective(found)
                            /\ collide \/ Range(found) = Equal(v1, v2)
      BY DEF HashJoinExact
    <2> DEFINE v1 == GetVarByName(a[2]).v
               v2 == GetVarByName(b[2]).v
               found == HashJoin(v1, v2)
    <2>1. v1 \in Seq(Int) /\ v2 \in Seq(Int)
      BY PairGetting
    <2> HIDE DEF v1, v2
    <2>2. Range(found) = Colliding(v1, v2) /\ IsInjective(found)
      BY <2>1, HashJoinIsExact
    <2> HIDE DEF found
    <2>3. Equal(v1, v2) \subseteq Range(found)
      BY <2>2 DEF Equal, Colliding
    <2>4. ASSUME ~\E x, y \in Range(v1) \cup Range(v2) : x # y /\ Hash(x) = Hash(y)
          PROVE  Range(found) \subseteq Equal(v1, v2)
      <3> SUFFICES ASSUME NEW z \in Range(found)
                   PROVE  z \in Equal(v1, v2)
        OBVIOUS
      <3> DEFINE x == v1[z[1]]  y == v2[z[2]]
      <3>1. z \in (DOMAIN v1) \X (DOMAIN v2) /\ Hash(x) = Hash(y)
        BY <2>2 DEF Colliding
      <3>2. x \in Range(v1) /\ y \in Range(v2)
        BY <3>1 DEF Range
      <3>3. x = y
        BY <2>4, <3>1, <3>2
      <3> QED
        BY <3>1, <3>3 DEF Equal
    <2> QED
      BY <2>2, <2>3, <2>4 DEF found, v1, v2
  <1> QED
    BY <1>1, BaseHolds, PTL

---------------------------------------------------------------------------
(* What chains and calculations are worth while no row has moved.          *)

RowNumber(t, p) == IF p \in DOMAIN t THEN t[p].row ELSE 0
RowNumbers(t)   == { t[p].row : p \in DOMAIN t }
ValueIn(t, row, c) == LET p == CHOOSE q \in DOMAIN t : t[q].row = row IN t[p].vals[c]

\* The cells of a table, and what a list of them adds up to.
Terms(t) == [sign : {1, -1}, row : RowNumbers(t), col : Columns]
Summands(t, terms) ==
  [i \in 1 .. Len(terms) |-> terms[i].sign * ValueIn(t, terms[i].row, terms[i].col)]
Worth(t, terms)  == Total(Summands(t, terms), Len(terms))
Worths(t, lists) == [i \in DOMAIN lists |-> Worth(t, lists[i])]

\* A row has one position.
LEMMA ValueIs ==
  ASSUME NEW t, RowsOK(t), NEW p \in DOMAIN t, NEW c
  PROVE  ValueIn(t, t[p].row, c) = t[p].vals[c]
  <1> DEFINE q == CHOOSE q \in DOMAIN t : t[q].row = t[p].row
  <1>1. q \in DOMAIN t /\ t[q].row = t[p].row
    OBVIOUS
  <1>2. q = p
    <2> HIDE DEF q
    <2> QED
      BY <1>1 DEF RowsOK
  <1> QED
    BY <1>2 DEF ValueIn

\* The cells hold ints.
LEMMA CellsAreInts ==
  ASSUME NEW t, RowsOK(t)
  PROVE  /\ Len(t) \in Nat /\ DOMAIN t = 1 .. Len(t)
         /\ \A p \in DOMAIN t : t[p].vals \in Rows
         /\ \A p \in DOMAIN t, c \in Columns : t[p].vals[c] \in MinData .. MaxData
         /\ \A row \in RowNumbers(t), c \in Columns : ValueIn(t, row, c) \in Int
  <1> DEFINE R == [row : Nat, vals : Rows]
  <1>1. t \in Seq(R)
    BY DEF RowsOK
  <1>2. Len(t) \in Nat /\ DOMAIN t = 1 .. Len(t) /\ \A p \in DOMAIN t : t[p] \in R
    <2> HIDE DEF R
    <2> QED
      BY <1>1, LenProperties
  <1>3. \A p \in DOMAIN t : t[p].vals \in Rows
    BY <1>2
  <1>4. ASSUME NEW p \in DOMAIN t, NEW c \in Columns
        PROVE  t[p].vals[c] \in MinData .. MaxData
    <2>1. t[p].vals \in [{1, 2} -> MinData .. MaxData]
      BY <1>2, RowAssumption
    <2> QED
      BY <2>1 DEF Columns
  <1>5. ASSUME NEW row \in RowNumbers(t), NEW c \in Columns
        PROVE  ValueIn(t, row, c) \in Int
    <2>1. PICK p \in DOMAIN t : row = t[p].row
      BY DEF RowNumbers
    <2>2. t[p].vals[c] \in Int
      BY <1>4
    <2> QED
      BY <2>1, <2>2, ValueIs
  <1> QED
    BY <1>2, <1>3, <1>4, <1>5

\* What is summed up for a list of terms is an int for each.
LEMMA SummandsAreInts ==
  ASSUME NEW t, RowsOK(t), NEW terms \in Seq(Terms(t))
  PROVE  /\ Len(terms) \in Nat
         /\ \A k \in 1 .. Len(terms) :
              /\ terms[k] \in Terms(t)
              /\ Summands(t, terms)[k] = terms[k].sign * ValueIn(t, terms[k].row, terms[k].col)
              /\ Summands(t, terms)[k] \in Int
         /\ Worth(t, terms) \in Int
  <1>1. Len(terms) \in Nat /\ \A k \in 1 .. Len(terms) : terms[k] \in Terms(t)
    <2> DEFINE T == Terms(t)
    <2>1. terms \in Seq(T)
      OBVIOUS
    <2> HIDE DEF T
    <2>2. Len(terms) \in Nat /\ \A k \in 1 .. Len(terms) : terms[k] \in T
      BY <2>1, LenProperties
    <2> QED
      BY <2>2 DEF T
  <1>2. ASSUME NEW k \in 1 .. Len(terms)
        PROVE  /\ Summands(t, terms)[k] = terms[k].sign * ValueIn(t, terms[k].row, terms[k].col)
               /\ Summands(t, terms)[k] \in Int
    <2>1. /\ terms[k].sign \in {1, -1} /\ terms[k].row \in RowNumbers(t)
          /\ terms[k].col \in Columns
      BY <1>1 DEF Terms
    <2> DEFINE x == ValueIn(t, terms[k].row, terms[k].col)  s == terms[k].sign
    <2>2. x \in Int /\ s \in {1, -1}
      BY <2>1, CellsAreInts
    <2>3. s * x \in Int
      <3> HIDE DEF x, s
      <3> QED
        BY <2>2
    <2> QED
      BY <2>3 DEF Summands
  <1>3. Worth(t, terms) \in Int
    <2> DEFINE g == Summands(t, terms)
    <2>1. \A k \in 1 .. Len(terms) : g[k] \in Int
      BY <1>2
    <2> HIDE DEF g
    <2>2. Total(g, Len(terms)) \in Int
      BY <1>1, <2>1, Totals
    <2> QED
      BY <2>2 DEF g, Worth
  <1> QED
    BY <1>1, <1>2, <1>3

\* One cell is worth its value.
LEMMA WorthOfCell ==
  ASSUME NEW t, RowsOK(t), NEW p \in DOMAIN t, NEW c \in Columns
  PROVE  /\ <<Cell(t[p].row, c)>> \in Seq(Terms(t))
         /\ Worth(t, <<Cell(t[p].row, c)>>) = t[p].vals[c]
  <1> DEFINE x == Cell(t[p].row, c)
             terms == <<x>>
             g == Summands(t, terms)
  <1>1. x \in Terms(t) /\ x.sign = 1 /\ x.row = t[p].row /\ x.col = c
    BY DEF Cell, Terms, RowNumbers
  <1>2. t[p].vals[c] \in Int
    BY CellsAreInts
  <1>3. terms \in Seq(Terms(t)) /\ Len(terms) = 1 /\ terms[1] = x
    <2> HIDE DEF x
    <2> QED
      BY <1>1
  <1>4. 1 \in 1 .. 1 /\ \A k \in 1 .. 1 : k = 1
    OBVIOUS
  <1> HIDE DEF x, terms
  <1>5. g[1] = t[p].vals[c]
    BY <1>1, <1>2, <1>3, <1>4, ValueIs DEF Summands
  <1>6. \A k \in 1 .. 1 : g[k] \in Int
    BY <1>2, <1>4, <1>5
  <1> HIDE DEF g
  <1>7. Total(g, 1) = g[1]
    <2> DEFINE m == 1
    <2>1. m \in Nat /\ m > 0 /\ m - 1 = 0 /\ 0 \in Nat /\ \A k \in 1 .. 0 : g[k] \in Int
      OBVIOUS
    <2>2. Total(g, 0) = 0
      BY <2>1, Totals
    <2> HIDE DEF m
    <2>3. Total(g, m) = Total(g, m - 1) + g[m]
      BY <1>6, <2>1, Totals DEF m
    <2> QED
      BY <1>2, <1>5, <2>1, <2>2, <2>3 DEF m
  <1>8. Worth(t, terms) = t[p].vals[c]
    BY <1>3, <1>5, <1>7 DEF Worth, g
  <1> QED
    BY <1>3, <1>8 DEF terms, x

\* A function on the first naturals is a list.
LEMMA FunctionIsList ==
  ASSUME NEW A, NEW n \in Nat, NEW f \in [1 .. n -> A]
  PROVE  f \in Seq(A)
  OBVIOUS

\* One list after the other: the elements of the first, then those of the second.
LEMMA Concatenation ==
  ASSUME NEW T, NEW x \in Seq(T), NEW z \in Seq(T)
  PROVE  /\ x \o z \in Seq(T) /\ Len(x \o z) = Len(x) + Len(z)
         /\ \A k \in 1 .. Len(x) : (x \o z)[k] = x[k]
         /\ \A k \in 1 .. Len(z) : (x \o z)[Len(x) + k] = z[k]
  OBVIOUS

\* z has the terms of y, with their signs or the opposite ones.
Signed(z, y, s) ==
  /\ Len(z) = Len(y)
  /\ \A k \in 1 .. Len(y) :
       z[k].sign = s * y[k].sign /\ z[k].row = y[k].row /\ z[k].col = y[k].col

\* Two lists, the second with its signs or against them.
LEMMA WorthOfParts ==
  ASSUME NEW t, RowsOK(t), NEW x \in Seq(Terms(t)), NEW y \in Seq(Terms(t)), NEW s \in {1, -1},
         NEW z \in Seq(Terms(t)), Signed(z, y, s)
  PROVE  /\ x \o z \in Seq(Terms(t))
         /\ Worth(t, x \o z) = Worth(t, x) + s * Worth(t, y)
  <1> DEFINE a == Len(x)  b == Len(y)  w == x \o z  T == Terms(t)
             g == Summands(t, w)  h == Summands(t, x)  e == Summands(t, y)
  <1>1. /\ a \in Nat /\ b \in Nat
        /\ \A k \in 1 .. a : h[k] = x[k].sign * ValueIn(t, x[k].row, x[k].col) /\ h[k] \in Int
        /\ \A k \in 1 .. b : /\ e[k] = y[k].sign * ValueIn(t, y[k].row, y[k].col) /\ e[k] \in Int
                             /\ y[k] \in Terms(t)
    BY SummandsAreInts
  <1>2. /\ w \in Seq(T) /\ Len(w) = a + b
        /\ \A k \in 1 .. a : w[k] = x[k]
        /\ \A k \in 1 .. b : w[a + k] = z[k]
    <2>1. x \in Seq(T) /\ z \in Seq(T) /\ Len(z) = b
      BY DEF Signed
    <2> HIDE DEF T
    <2>2. x \o z \in Seq(T)
      BY <2>1, Concatenation
    <2>3. Len(x \o z) = Len(x) + Len(z)
      BY <2>1, Concatenation
    <2>4. \A k \in 1 .. Len(x) : (x \o z)[k] = x[k]
      BY <2>1, Concatenation
    <2>5. \A k \in 1 .. Len(z) : (x \o z)[Len(x) + k] = z[k]
      BY <2>1, Concatenation
    <2> QED
      BY <2>1, <2>2, <2>3, <2>4, <2>5
  <1> HIDE DEF w, T, a, b
  <1>3. \A k \in 1 .. a + b : g[k] = w[k].sign * ValueIn(t, w[k].row, w[k].col)
    <2>1. w \in Seq(Terms(t)) /\ Len(w) = a + b
      BY <1>2 DEF T
    <2>2. \A k \in 1 .. Len(w) : g[k] = w[k].sign * ValueIn(t, w[k].row, w[k].col)
      BY <2>1, SummandsAreInts
    <2> HIDE DEF g
    <2> QED
      BY <2>1, <2>2
  <1>4. \A k \in 1 .. a : g[k] = h[k]
    <2> TAKE k \in 1 .. a
    <2>1. k \in 1 .. a + b
      BY <1>1
    <2> QED
      BY <1>1, <1>2, <1>3, <2>1
  <1>5. \A k \in 1 .. b : g[a + k] = s * e[k]
    <2> TAKE k \in 1 .. b
    <2> DEFINE v == ValueIn(t, y[k].row, y[k].col)
    <2>1. a + k \in 1 .. a + b
      BY <1>1
    <2>2. w[a + k] = z[k] /\ z[k].sign = s * y[k].sign /\ z[k].row = y[k].row /\ z[k].col = y[k].col
      BY <1>2 DEF b, Signed
    <2>3. y[k].sign \in {1, -1} /\ v \in Int
      <3>1. y[k].sign \in {1, -1} /\ y[k].row \in RowNumbers(t) /\ y[k].col \in Columns
        BY <1>1 DEF Terms
      <3> QED
        BY <3>1, CellsAreInts
    <2>4. g[a + k] = (s * y[k].sign) * v
      BY <1>3, <2>1, <2>2
    <2>5. e[k] = y[k].sign * v
      BY <1>1
    <2> HIDE DEF v
    <2>6. (s * y[k].sign) * v = s * (y[k].sign * v)
      <3> DEFINE r == y[k].sign
      <3>1. r \in {1, -1} /\ v \in Int /\ s \in {1, -1}
        BY <2>3
      <3> HIDE DEF r
      <3>2. (s * r) * v = s * (r * v)
        BY <3>1
      <3> QED
        BY <3>2 DEF r
    <2> QED
      BY <2>4, <2>5, <2>6
  <1> HIDE DEF g, h, e
  <1>6. Total(g, a + b) = Total(h, a) + s * Total(e, b)
    <2>1. InParts(g, h, a, e, b, s)
      BY <1>1, <1>4, <1>5 DEF InParts
    <2> QED
      BY <1>1, <2>1, TotalOfParts
  <1>7. Worth(t, w) = Worth(t, x) + s * Worth(t, y)
    BY <1>2, <1>6 DEF Worth, g, h, e, a, b
  <1> QED
    BY <1>2, <1>7 DEF w, T

\* A table that has more rows behind another one, which are new.
Extends(t, u) == Len(t) <= Len(u) /\ \A p \in DOMAIN t : u[p] = t[p]

\* Its cells are worth what they were.
LEMMA WorthLasts ==
  ASSUME NEW t, RowsOK(t), NEW u, RowsOK(u), Extends(t, u)
  PROVE  /\ DOMAIN t \subseteq DOMAIN u
         /\ \A p \in DOMAIN t : RowNumber(u, p) = RowNumber(t, p)
         /\ Terms(t) \subseteq Terms(u)
         /\ \A terms \in Seq(Terms(t)) : Worth(u, terms) = Worth(t, terms)
  <1>1. DOMAIN t \subseteq DOMAIN u /\ \A p \in DOMAIN t : u[p] = t[p]
    <2>1. /\ DOMAIN t = 1 .. Len(t) /\ Len(t) \in Nat
          /\ DOMAIN u = 1 .. Len(u) /\ Len(u) \in Nat
      BY CellsAreInts
    <2> QED
      BY <2>1 DEF Extends
  <1>2. \A p \in DOMAIN t : RowNumber(u, p) = RowNumber(t, p)
    BY <1>1 DEF RowNumber
  <1>3. RowNumbers(t) \subseteq RowNumbers(u)
    BY <1>1 DEF RowNumbers
  <1>4. Terms(t) \subseteq Terms(u)
    BY <1>3 DEF Terms
  <1>5. ASSUME NEW row \in RowNumbers(t), NEW c
        PROVE  ValueIn(u, row, c) = ValueIn(t, row, c)
    <2>1. PICK p \in DOMAIN t : row = t[p].row
      BY DEF RowNumbers
    <2>2. p \in DOMAIN u /\ u[p] = t[p] /\ row = u[p].row
      BY <1>1, <2>1
    <2>3. ValueIn(u, row, c) = u[p].vals[c]
      BY <2>2, ValueIs
    <2>4. ValueIn(t, row, c) = t[p].vals[c]
      BY <2>1, ValueIs
    <2> QED
      BY <2>2, <2>3, <2>4
  <1>6. ASSUME NEW terms \in Seq(Terms(t))
        PROVE  Worth(u, terms) = Worth(t, terms)
    <2> DEFINE n == Len(terms)  g == Summands(t, terms)  h == Summands(u, terms)
    <2>1. n \in Nat /\ \A k \in 1 .. n : terms[k] \in Terms(t) /\ g[k] \in Int
      BY SummandsAreInts
    <2>2. \A k \in 1 .. n : h[k] = g[k]
      <3> TAKE k \in 1 .. n
      <3>1. terms[k].row \in RowNumbers(t)
        BY <2>1 DEF Terms
      <3> QED
        BY <1>5, <3>1 DEF Summands
    <2>3. \A k \in 1 .. n : g[k] \in Int
      BY <2>1
    <2> HIDE DEF n, g, h
    <2>4. Total(h, n) = Total(g, n)
      BY <2>1, <2>2, <2>3, SameTotal
    <2> QED
      BY <2>4 DEF Worth, n, g, h
  <1> QED
    BY <1>1, <1>2, <1>4, <1>6

\* A binding of the pool p stands for cells of the table t: positions for the rows that
\* are there, values for what their terms are worth.
Lists(b, t) == b.terms \in Seq(Seq(Terms(t)))
BindingExact(b, p, t) ==
  /\ b.kind = "positions" => b.rows = [i \in DOMAIN b.v |-> RowNumber(t, b.v[i])]
  /\ b.kind # "positions" => Lists(b, t)
  /\ b.kind \in {"values", "sum"} => b.v = Worths(t, b.terms)
  /\ b.kind = "values" =>
       /\ b.col \in Columns
       /\ \E j \in DOMAIN p :
            b.from = j + 2 /\ b.v = [i \in DOMAIN p[j].v |-> t[p[j].v[i]].vals[b.col]]
  /\ b.kind = "min" => b.v[1] = Min(Range(Worths(t, b.terms)))
  /\ b.kind = "max" => b.v[1] = Max(Range(Worths(t, b.terms)))
  /\ b.kind = "avg" => b.v = AvgOf(Worths(t, b.terms))
  /\ b.kind \in {"positions", "values", "sum", "min", "max", "avg"}

PoolExact(p, t) == \A k \in DOMAIN p : BindingExact(p[k], p, t)
Exact == ~moved => PoolExact(pool, tbl)

\* It does so as long as the table only grows.
LEMMA ExactLasts ==
  ASSUME NEW p, NEW t, RowsOK(t), PoolOK(p, Len(t)), PoolExact(p, t),
         NEW u, RowsOK(u), Extends(t, u)
  PROVE  PoolExact(p, u)
  <1> SUFFICES ASSUME NEW k \in DOMAIN p
               PROVE  BindingExact(p[k], p, u)
    BY DEF PoolExact
  <1> DEFINE b == p[k]
  <1>1. BindingExact(b, p, t) /\ BindingOK(b, p, Len(t))
    BY DEF PoolExact, PoolOK
  <1>2. /\ DOMAIN t \subseteq DOMAIN u
        /\ \A q \in DOMAIN t : RowNumber(u, q) = RowNumber(t, q) /\ u[q] = t[q]
        /\ Terms(t) \subseteq Terms(u)
        /\ \A terms \in Seq(Terms(t)) : Worth(u, terms) = Worth(t, terms)
    BY WorthLasts DEF Extends
  <1>3. DOMAIN t = 1 .. Len(t) /\ Len(t) \in Nat
    BY CellsAreInts
  <1> HIDE DEF b
  <1>4. ASSUME Lists(b, t)
        PROVE  Lists(b, u) /\ Worths(u, b.terms) = Worths(t, b.terms)
    <2> DEFINE A == Terms(t)  B == Terms(u)
    <2>1. A \subseteq B /\ b.terms \in Seq(Seq(A))
      BY <1>2, <1>4 DEF Lists
    <2>2. \A i \in DOMAIN b.terms : b.terms[i] \in Seq(A)
      <3> HIDE DEF A
      <3> QED
        BY <2>1
    <2>3. b.terms \in Seq(Seq(B))
      <3> HIDE DEF A, B
      <3>1. Seq(A) \subseteq Seq(B)
        BY <2>1
      <3> DEFINE SA == Seq(A)  SB == Seq(B)
      <3>2. SA \subseteq SB /\ b.terms \in Seq(SA)
        BY <2>1, <3>1
      <3> HIDE DEF SA, SB
      <3>3. b.terms \in Seq(SB)
        BY <3>2
      <3> QED
        BY <3>3 DEF SB
    <2> QED
      BY <1>2, <2>2, <2>3 DEF Lists, Worths
  <1>5. ASSUME b.kind = "positions"
        PROVE  b.rows = [i \in DOMAIN b.v |-> RowNumber(u, b.v[i])]
    <2>1. b.v \in Seq(1 .. Len(t)) /\ b.rows = [i \in DOMAIN b.v |-> RowNumber(t, b.v[i])]
      BY <1>1, <1>5 DEF BindingOK, BindingExact
    <2>2. \A i \in DOMAIN b.v : b.v[i] \in DOMAIN t
      BY <1>3, <2>1
    <2> QED
      BY <1>2, <2>1, <2>2
  <1>6. ASSUME b.kind = "values"
        PROVE  \E j \in DOMAIN p :
                 b.from = j + 2 /\ b.v = [i \in DOMAIN p[j].v |-> u[p[j].v[i]].vals[b.col]]
    <2>1. PICK j \in DOMAIN p :
            b.from = j + 2 /\ b.v = [i \in DOMAIN p[j].v |-> t[p[j].v[i]].vals[b.col]]
      BY <1>1, <1>6 DEF BindingExact
    <2>2. PICK i \in DOMAIN p : b.from = i + 2 /\ p[i].kind = "positions"
      BY <1>1, <1>6 DEF BindingOK
    <2>3. i = j
      <3>1. \A x \in DOMAIN p : x \in Nat
        BY DEF PoolOK
      <3> QED
        BY <2>1, <2>2, <3>1
    <2>4. p[j].v \in Seq(1 .. Len(t))
      BY <2>2, <2>3 DEF PoolOK, BindingOK
    <2>5. \A x \in DOMAIN p[j].v : p[j].v[x] \in DOMAIN t
      BY <1>3, <2>4
    <2>6. b.v = [x \in DOMAIN p[j].v |-> u[p[j].v[x]].vals[b.col]]
      BY <1>2, <2>1, <2>5
    <2> QED
      BY <2>1, <2>6
  <1>7. b.kind # "positions" => Lists(b, t)
    BY <1>1 DEF BindingExact
  <1>8. BindingExact(b, p, u)
    BY <1>1, <1>4, <1>5, <1>6, <1>7 DEF BindingExact
  <1> QED
    BY <1>8 DEF b

\* The name of a binding makes no difference.
LEMMA RenamedExact ==
  ASSUME NEW b, NEW c, NEW p, NEW t, BindingExact(b, p, t),
         c.kind = b.kind, c.v = b.v, c.rows = b.rows,
         c.terms = b.terms, c.col = b.col, c.from = b.from
  PROVE  BindingExact(c, p, t)
  BY DEF BindingExact, Lists

\* A binding stays exact when others are bound after it.
LEMMA LongerPoolExact ==
  ASSUME NEW b, NEW p, NEW t, BindingExact(b, p, t),
         NEW q, \A j \in DOMAIN p : j \in DOMAIN q /\ q[j] = p[j]
  PROVE  BindingExact(b, q, t)
  <1>1. ASSUME b.kind = "values"
        PROVE  \E j \in DOMAIN q :
                 b.from = j + 2 /\ b.v = [i \in DOMAIN q[j].v |-> t[q[j].v[i]].vals[b.col]]
    <2>1. PICK j \in DOMAIN p :
            b.from = j + 2 /\ b.v = [i \in DOMAIN p[j].v |-> t[p[j].v[i]].vals[b.col]]
      BY <1>1 DEF BindingExact
    <2>2. j \in DOMAIN q /\ q[j] = p[j]
      OBVIOUS
    <2>3. b.v = [i \in DOMAIN q[j].v |-> t[q[j].v[i]].vals[b.col]]
      BY <2>1, <2>2
    <2> QED
      BY <2>1, <2>2, <2>3
  <1> QED
    BY <1>1 DEF BindingExact

\* What a handler may bind.
FreshExact(b) == b = [f \in Fields |-> b[f]] /\ (~moved => BindingExact(b, pool, tbl))

\* So do the bindings behind others, if those do that a handler makes.
LEMMA BindingKeepsExact ==
  ASSUME Base, Exact, NEW bs, bs \in Seq(Range(bs)), Bind(bs), \A k \in DOMAIN bs : FreshExact(bs[k])
  PROVE  Exact'
  <1> SUFFICES ASSUME ~moved'
               PROVE  PoolExact(pool', tbl')
    BY DEF Exact
  <1> DEFINE n == Len(pool)
             l == Len(bs)
  <1>1. /\ UNCHANGED <<tbl, primary, moved>>
        /\ pool' \in Seq(Range(pool')) /\ Len(pool') = n + l
        /\ \A k \in 1 .. n : pool'[k] = pool[k]
        /\ \A k \in 1 .. l : pool'[n + k] = [bs[k] EXCEPT !.name = n + k + 2]
    BY BindingAppends DEF Base, PoolOK
  <1>2. /\ n \in Nat /\ l \in Nat /\ DOMAIN pool = 1 .. n /\ DOMAIN bs = 1 .. l
        /\ DOMAIN pool' = 1 .. n + l
    BY <1>1 DEF Base, PoolOK
  <1>3. ~moved /\ PoolExact(pool, tbl)
    BY <1>1 DEF Exact
  <1>4. \A k \in 1 .. l : bs[k] = [f \in Fields |-> bs[k][f]] /\ BindingExact(bs[k], pool, tbl)
    BY <1>2, <1>3 DEF FreshExact
  <1> HIDE DEF n, l
  <1>5. ASSUME NEW b, BindingExact(b, pool, tbl)
        PROVE  BindingExact(b, pool', tbl)
    <2>1. \A j \in DOMAIN pool : j \in DOMAIN pool' /\ pool'[j] = pool[j]
      BY <1>1, <1>2
    <2> QED
      BY <1>5, <2>1, LongerPoolExact
  <1>6. ASSUME NEW k \in DOMAIN pool'
        PROVE  BindingExact(pool'[k], pool', tbl)
    <2>1. CASE k \in 1 .. n
      BY <1>1, <1>2, <1>3, <1>5, <2>1 DEF PoolExact
    <2>2. CASE k \notin 1 .. n
      <3> DEFINE i == k - n
                 b == bs[i]
                 c == [b EXCEPT !.name = k + 2]
      <3>1. i \in 1 .. l /\ n + i = k
        BY <1>2, <2>2
      <3> HIDE DEF i
      <3>2. pool'[k] = c
        BY <1>1, <3>1
      <3>3. b = [f \in Fields |-> b[f]] /\ BindingExact(b, pool, tbl)
        BY <1>4, <3>1
      <3>4. /\ c.kind = b.kind /\ c.v = b.v /\ c.rows = b.rows
            /\ c.terms = b.terms /\ c.col = b.col /\ c.from = b.from
        BY <3>3, Naming
      <3> HIDE DEF b, c
      <3>5. BindingExact(c, pool, tbl)
        BY <3>3, <3>4, RenamedExact
      <3> QED
        BY <1>5, <3>2, <3>5
    <2> QED
      BY <2>1, <2>2
  <1> QED
    BY <1>1, <1>6 DEF PoolExact

\* One binding.
LEMMA OneKeepsExact ==
  ASSUME Base, Exact, NEW b, Bind(<<b>>), FreshExact(b)
  PROVE  Exact'
  <1> DEFINE bs == <<b>>
  <1>1. bs \in Seq(Range(bs)) /\ DOMAIN bs = {1} /\ bs[1] = b /\ Bind(bs)
    BY OneAndTwo
  <1> HIDE DEF bs
  <1>2. \A k \in DOMAIN bs : FreshExact(bs[k])
    BY <1>1
  <1> QED
    BY <1>1, <1>2, BindingKeepsExact

\* Two bindings, of a join.
LEMMA TwoKeepExact ==
  ASSUME Base, Exact, NEW b, NEW c, Bind(<<b, c>>), FreshExact(b), FreshExact(c)
  PROVE  Exact'
  <1> DEFINE bs == <<b, c>>
  <1>1. bs \in Seq(Range(bs)) /\ DOMAIN bs = {1, 2} /\ bs[1] = b /\ bs[2] = c /\ Bind(bs)
    BY OneAndTwo
  <1> HIDE DEF bs
  <1>2. \A k \in DOMAIN bs : FreshExact(bs[k])
    BY <1>1
  <1> QED
    BY <1>1, <1>2, BindingKeepsExact

\* select binds the positions it found, with the rows that are there.
LEMMA SelectKeepsExact ==
  ASSUME Base, Exact, NEW c \in Columns, NEW r \in Ranges, Select(c, r[1], r[2])
  PROVE  Exact'
  <1>1. PICK v : Bind(<<Positions(v, [k \in DOMAIN v |-> RowAt(v[k])])>>)
    BY DEF Select
  <1> DEFINE b == Positions(v, [k \in DOMAIN v |-> RowAt(v[k])])
  <1>2. FreshExact(b)
    BY DEF FreshExact, Fields, BindingExact, Positions, RowAt, RowNumber
  <1>3. Bind(<<b>>)
    BY <1>1
  <1> HIDE DEF b
  <1> QED
    BY <1>2, <1>3, OneKeepsExact

\* The rows and the values of a column at the positions q, and the terms of rows.
RowsAt(q)      == [i \in DOMAIN q |-> RowNumber(tbl, q[i])]
ValuesAt(q, c) == [i \in DOMAIN q |-> tbl[q[i]].vals[c]]
CellsOf(rows, c) == [i \in DOMAIN rows |-> <<Cell(rows[i], c)>>]

\* Values that were fetched are worth the cells of the rows at the positions.
LEMMA FetchedCounts ==
  ASSUME RowsOK(tbl), NEW c \in Columns, NEW q \in Seq(1 .. Len(tbl))
  PROVE  /\ CellsOf(RowsAt(q), c) \in Seq(Seq(Terms(tbl)))
         /\ ValuesAt(q, c) = Worths(tbl, CellsOf(RowsAt(q), c))
  <1> DEFINE rows == RowsAt(q)  v == ValuesAt(q, c)  terms == CellsOf(rows, c)
  <1> USE DEF RowsAt, ValuesAt, CellsOf
  <1> DEFINE n == Len(q)  T == Seq(Terms(tbl))
  <1>1. n \in Nat /\ DOMAIN q = 1 .. n /\ \A i \in 1 .. n : q[i] \in DOMAIN tbl
    BY CellsAreInts
  <1>2. DOMAIN rows = 1 .. n /\ \A i \in 1 .. n : rows[i] = tbl[q[i]].row
    BY <1>1 DEF RowNumber
  <1>3. \A i \in 1 .. n : terms[i] \in T /\ Worth(tbl, terms[i]) = tbl[q[i]].vals[c]
    <2> TAKE i \in 1 .. n
    <2> DEFINE p == q[i]
    <2>1. p \in DOMAIN tbl /\ terms[i] = <<Cell(tbl[p].row, c)>>
      BY <1>1, <1>2
    <2> HIDE DEF p
    <2>2. /\ <<Cell(tbl[p].row, c)>> \in Seq(Terms(tbl))
          /\ Worth(tbl, <<Cell(tbl[p].row, c)>>) = tbl[p].vals[c]
      BY <2>1, WorthOfCell
    <2> QED
      BY <2>1, <2>2 DEF p
  <1>4. terms = [i \in 1 .. n |-> terms[i]]
    BY <1>2
  <1> HIDE DEF n, T
  <1>5. terms \in Seq(T)
    <2>1. terms \in [1 .. n -> T]
      BY <1>3, <1>4
    <2> QED
      BY <1>1, <2>1
  <1>6. v = Worths(tbl, terms)
    BY <1>1, <1>3, <1>4 DEF Worths
  <1> QED
    BY <1>5, <1>6 DEF T

\* fetch binds values that are worth the cells at the positions.
LEMMA FetchKeepsExact ==
  ASSUME Base, Exact, NEW c \in Columns, NEW p \in Names("positions"), Fetch(c, p)
  PROVE  Exact'
  <1> DEFINE at == GetVarByName(p)
             v == FetchAt(Column(c), at.v)
             b == Fetched(v, at.rows, c, p)
  <1>1. Bind(<<b>>)
    BY DEF Fetch
  <1>2. PICK j \in DOMAIN pool : p = j + 2 /\ pool[j].kind = "positions" /\ at = pool[j]
    BY Getting DEF Base
  <1>3. at.v \in Seq(1 .. Len(tbl))
    BY <1>2 DEF Base, PoolOK, BindingOK
  <1>4. v = [i \in DOMAIN at.v |-> tbl[at.v[i]].vals[c]]
    <2>1. \A x \in 1 .. Len(tbl) : Column(c)[x] = tbl[x].vals[c]
      BY ColumnShape DEF Base
    <2>2. \A i \in DOMAIN at.v : at.v[i] \in 1 .. Len(tbl)
      BY <1>3
    <2> QED
      BY <2>1, <2>2 DEF FetchAt
  <1> HIDE DEF v
  <1>5. ASSUME ~moved
        PROVE  BindingExact(b, pool, tbl)
    <2>1. at.rows = [i \in DOMAIN at.v |-> RowNumber(tbl, at.v[i])]
      BY <1>2, <1>5 DEF Exact, PoolExact, BindingExact
    <2> DEFINE terms == CellsOf(at.rows, c)
    <2>2. terms \in Seq(Seq(Terms(tbl))) /\ v = Worths(tbl, terms)
      <3>1. at.rows = RowsAt(at.v) /\ v = ValuesAt(at.v, c)
        BY <1>4, <2>1 DEF RowsAt, ValuesAt
      <3>2. RowsOK(tbl) /\ at.v \in Seq(1 .. Len(tbl))
        BY <1>3 DEF Base
      <3> DEFINE q == at.v
      <3> HIDE DEF q
      <3>3. /\ CellsOf(RowsAt(q), c) \in Seq(Seq(Terms(tbl)))
            /\ ValuesAt(q, c) = Worths(tbl, CellsOf(RowsAt(q), c))
        BY <3>2, FetchedCounts DEF q
      <3> QED
        BY <3>1, <3>3 DEF q
    <2>3. /\ b.kind = "values" /\ b.v = v /\ b.terms = terms /\ b.col = c /\ b.from = p
      BY DEF Fetched, CellsOf
    <2>4. b.from = j + 2 /\ b.v = [i \in DOMAIN pool[j].v |-> tbl[pool[j].v[i]].vals[b.col]]
      BY <1>2, <1>4, <2>3
    <2> HIDE DEF b, terms
    <2> QED
      BY <2>2, <2>3, <2>4 DEF BindingExact, Lists
  <1>6. b = [f \in Fields |-> b[f]]
    BY DEF Fetched, Fields
  <1> HIDE DEF b
  <1>7. FreshExact(b)
    BY <1>5, <1>6 DEF FreshExact
  <1> QED
    BY <1>1, <1>7, OneKeepsExact

\* What selectv selects is what is meant.
LEMMA SelectTwoMeant ==
  ASSUME RangesMeant, Base, Exact, ~moved, NEW a \in Pairs, NEW r \in Ranges, r[1] # Null
  PROVE  LET pos == GetVarByName(a[1])
             val == GetVarByName(a[2])
             InRange(row) == /\ r[1] = Null \/ r[1] <= ValueOf(row, val.col)
                             /\ r[2] = Null \/ ValueOf(row, val.col) < r[2]
         IN  SelectTwoHits(val.v, Low(r[1]), HighOfSelectv(r[1], r[2]))
               = Ordered({ i \in DOMAIN pos.rows : InRange(pos.rows[i]) })
  <1> DEFINE pos == GetVarByName(a[1])
             val == GetVarByName(a[2])
             l == r[1]
             h == r[2]
             InRange(row) == /\ l = Null \/ l <= ValueOf(row, val.col)
                             /\ h = Null \/ ValueOf(row, val.col) < h
             Hit(x) == Low(l) <= x /\ x < HighOfSelectv(l, h)
  <1>1. PICK j \in DOMAIN pool, k \in DOMAIN pool :
          /\ pos = pool[j] /\ pool[j].kind = "positions" /\ pos.v \in Seq(1 .. Len(tbl))
          /\ val = pool[k] /\ pool[k].kind = "values" /\ pool[k].from = j + 2
          /\ val.v \in Seq(Int) /\ Len(pos.v) = Len(val.v)
    BY PairGetting
  <1> HIDE DEF pos, val
  <1>2. PoolExact(pool, tbl) /\ RowsOK(tbl) /\ \A x \in DOMAIN pool : x \in Nat
    BY DEF Exact, Base, PoolOK
  <1>3. pos.rows = [i \in DOMAIN pos.v |-> RowNumber(tbl, pos.v[i])]
    BY <1>1, <1>2 DEF PoolExact, BindingExact
  <1>4. /\ val.col \in Columns
        /\ val.v = [i \in DOMAIN pos.v |-> tbl[pos.v[i]].vals[val.col]]
    <2>0. BindingExact(val, pool, tbl) /\ val.kind = "values"
      BY <1>1, <1>2 DEF PoolExact
    <2>1. val.col \in Columns
      BY <2>0 DEF BindingExact
    <2>2. PICK m \in DOMAIN pool :
            val.from = m + 2 /\ val.v = [i \in DOMAIN pool[m].v |-> tbl[pool[m].v[i]].vals[val.col]]
      BY <2>0 DEF BindingExact
    <2>3. m = j
      BY <1>1, <1>2, <2>2
    <2> QED
      BY <1>1, <2>1, <2>2, <2>3
  <1>5. DOMAIN pos.rows = DOMAIN pos.v /\ DOMAIN val.v = DOMAIN pos.v
    BY <1>3, <1>4
  <1>6. ASSUME NEW i \in DOMAIN pos.v
        PROVE  /\ ValueOf(pos.rows[i], val.col) = val.v[i] /\ val.v[i] \in MinData .. MaxData
               /\ (h = Null \/ h > MaxData) => val.v[i] < MaxData
    <2> DEFINE p == pos.v[i]
    <2>1. p \in DOMAIN tbl
      BY <1>1, <1>2, CellsAreInts
    <2>2. pos.rows[i] = tbl[p].row /\ val.v[i] = tbl[p].vals[val.col]
      BY <1>3, <1>4, <2>1 DEF RowNumber
    <2> HIDE DEF p
    <2>3. ValueIn(tbl, tbl[p].row, val.col) = tbl[p].vals[val.col]
      BY <1>2, <2>1, ValueIs
    <2>4. tbl[p].vals[val.col] \in MinData .. MaxData
      BY <1>2, <1>4, <2>1, CellsAreInts
    <2>5. ValueOf(tbl[p].row, val.col) = ValueIn(tbl, tbl[p].row, val.col)
      BY DEF ValueOf, ValueIn
    <2>6. ASSUME h = Null \/ h > MaxData
          PROVE  tbl[p].vals[val.col] < MaxData
      <3>1. \A vals \in Rows, c \in Columns : vals[c] < MaxData
        BY <2>6 DEF RangesMeant
      <3>2. tbl[p].vals \in Rows
        BY <1>2, <2>1, CellsAreInts
      <3> QED
        BY <1>4, <3>1, <3>2
    <2> QED
      BY <2>2, <2>3, <2>4, <2>5, <2>6
  <1>7. ASSUME NEW x \in MinData .. MaxData, (h = Null \/ h > MaxData) => x < MaxData
        PROVE  Hit(x) <=> l <= x /\ (h = Null \/ x < h)
    <2>1. /\ l \in MinData .. MaxData /\ l # Null
          /\ h = Null \/ h \in l .. MaxData \/ (h > MaxData /\ Atoi(h) < l)
      BY DEF RangesMeant
    <2>2. h # Null => h \in Int
      BY QueryAssumption
    <2> HIDE DEF l, h
    <2>3. MinData \in Int /\ MaxData \in Int
      BY RangeAssumption
    <2>4. Low(l) = l /\ Atoi(l) = l
      BY <2>1, <2>3, Reading DEF Low
    <2>5. CASE h = Null
      BY <1>7, <2>1, <2>3, <2>4, <2>5 DEF HighOfSelectv, High
    <2>6. CASE h # Null /\ h \in l .. MaxData
      <3>1. h \in MinData .. MaxData /\ h \in Int /\ ~(h < l)
        BY <2>1, <2>3, <2>6
      <3>2. Atoi(h) = h
        BY <3>1, Reading
      <3>3. HighOfSelectv(l, h) = h
        BY <2>4, <2>6, <3>1, <3>2 DEF HighOfSelectv, High
      <3> QED
        BY <2>4, <2>6, <3>3
    <2>7. CASE h # Null /\ h > MaxData /\ Atoi(h) < l
      <3>1. HighOfSelectv(l, h) = MaxData
        BY <2>4, <2>7 DEF HighOfSelectv
      <3>2. x < MaxData /\ x < h
        BY <1>7, <2>2, <2>3, <2>7
      <3> QED
        BY <2>4, <2>7, <3>1, <3>2
    <2> QED
      BY <2>1, <2>5, <2>6, <2>7
  <1> DEFINE A == { i \in DOMAIN val.v : Hit(val.v[i]) }
             B == { i \in DOMAIN pos.rows : InRange(pos.rows[i]) }
  <1>8. A = B
    <2>1. \A i \in DOMAIN pos.v : Hit(val.v[i]) <=> InRange(pos.rows[i])
      <3> TAKE i \in DOMAIN pos.v
      <3> DEFINE x == val.v[i]
      <3>1. /\ x \in MinData .. MaxData /\ ValueOf(pos.rows[i], val.col) = x
            /\ (h = Null \/ h > MaxData) => x < MaxData
        BY <1>6
      <3> HIDE DEF x, Hit
      <3>2. Hit(x) <=> l <= x /\ (h = Null \/ x < h)
        BY <1>7, <3>1
      <3> QED
        BY <3>1, <3>2 DEF x
    <2> HIDE DEF Hit, InRange
    <2> QED
      BY <1>5, <2>1
  <1>9. SelectTwoHits(val.v, Low(l), HighOfSelectv(l, h)) = Ordered(A)
    BY DEF SelectTwoHits
  <1> HIDE DEF A
  <1> QED
    BY <1>8, <1>9 DEF pos, val

\* The rows of a variable of positions.
LEMMA PositionsExact ==
  ASSUME Base, Exact, ~moved, NEW a \in Pairs
  PROVE  LET pos == GetVarByName(a[1])
         IN  /\ pos.v \in Seq(1 .. Len(tbl))
             /\ DOMAIN GetVarByName(a[2]).v = DOMAIN pos.v
             /\ pos.rows = [i \in DOMAIN pos.v |-> RowNumber(tbl, pos.v[i])]
  <1> DEFINE pos == GetVarByName(a[1])  val == GetVarByName(a[2])
  <1>1. PICK j \in DOMAIN pool :
          /\ pos = pool[j] /\ pool[j].kind = "positions" /\ pos.v \in Seq(1 .. Len(tbl))
          /\ val.v \in Seq(Int) /\ Len(pos.v) = Len(val.v)
    BY PairGetting
  <1> HIDE DEF pos, val
  <1>2. BindingExact(pos, pool, tbl) /\ pos.kind = "positions"
    BY <1>1 DEF Exact, PoolExact
  <1>3. pos.rows = [i \in DOMAIN pos.v |-> RowNumber(tbl, pos.v[i])]
    BY <1>2 DEF BindingExact
  <1>4. DOMAIN val.v = DOMAIN pos.v
    BY <1>1
  <1> QED
    BY <1>1, <1>3, <1>4 DEF pos, val

\* selectv narrows the rows as its range means it.
LEMMA SelectTwoKeepsExact ==
  ASSUME RangesMeant, Base, Exact,
         NEW a \in Pairs, NEW r \in Ranges, SelectTwo(a[1], a[2], r[1], r[2])
  PROVE  Exact'
  <1> DEFINE pos == GetVarByName(a[1])
             val == GetVarByName(a[2])
             hits == SelectTwoHits(val.v, Low(r[1]), HighOfSelectv(r[1], r[2]))
             InRange(row) == /\ r[1] = Null \/ r[1] <= ValueOf(row, val.col)
                             /\ r[2] = Null \/ ValueOf(row, val.col) < r[2]
             meant == Ordered({ i \in DOMAIN pos.rows : InRange(pos.rows[i]) })
             b == Positions(FetchAt(pos.v, hits),
                            IF moved THEN FetchAt(pos.rows, hits) ELSE FetchAt(pos.rows, meant))
  <1>1. Bind(<<b>>) /\ r[1] # Null
    BY DEF SelectTwo
  <1>2. b = [f \in Fields |-> b[f]]
    BY DEF Positions, Fields
  <1>3. ASSUME ~moved
        PROVE  BindingExact(b, pool, tbl)
    <2>1. hits = meant
      BY <1>1, <1>3, SelectTwoMeant
    <2>2. b = Positions(FetchAt(pos.v, hits), FetchAt(pos.rows, hits))
      BY <1>3, <2>1
    <2>3. /\ DOMAIN val.v = DOMAIN pos.v
          /\ pos.rows = [i \in DOMAIN pos.v |-> RowNumber(tbl, pos.v[i])]
      BY <1>3, PositionsExact
    <2>4. hits \in Seq(DOMAIN val.v)
      <3>1. val.v \in Seq(Int)
        BY PairGetting
      <3> HIDE DEF val
      <3> QED
        BY <3>1, Hitting
    <2> HIDE DEF pos, val, b, hits
    <2>5. \A k \in DOMAIN hits : hits[k] \in DOMAIN pos.v
      BY <2>3, <2>4
    <2> DEFINE v == FetchAt(pos.v, hits)  rows == FetchAt(pos.rows, hits)
    <2>6. rows = [i \in DOMAIN v |-> RowNumber(tbl, v[i])]
      BY <2>3, <2>5 DEF FetchAt
    <2>7. b.kind = "positions" /\ b.v = v /\ b.rows = rows
      BY <2>2 DEF Positions
    <2> HIDE DEF v, rows
    <2> QED
      BY <2>6, <2>7 DEF BindingExact
  <1> HIDE DEF b
  <1>4. FreshExact(b)
    BY <1>2, <1>3 DEF FreshExact
  <1> QED
    BY <1>1, <1>4, OneKeepsExact

\* A join takes positions and their rows at the same indexes.
LEMMA JoinedKeepsExact ==
  ASSUME Base, Exact, NEW a \in Pairs, NEW b \in Pairs,
         NEW pairs \in Seq((DOMAIN GetVarByName(a[2]).v) \X (DOMAIN GetVarByName(b[2]).v)),
         Joined(a[1], b[1], pairs)
  PROVE  Exact'
  <1> DEFINE first == GetVarByName(a[1])
             second == GetVarByName(b[1])
             v1 == [k \in DOMAIN pairs |-> first.v[pairs[k][1]]]
             v2 == [k \in DOMAIN pairs |-> second.v[pairs[k][2]]]
             rows1 == [k \in DOMAIN pairs |-> first.rows[pairs[k][1]]]
             rows2 == [k \in DOMAIN pairs |-> second.rows[pairs[k][2]]]
             b1 == Positions(v1, rows1)
             b2 == Positions(v2, rows2)
  <1>1. Bind(<<b1, b2>>)
    BY DEF Joined
  <1>2. b1 = [f \in Fields |-> b1[f]] /\ b2 = [f \in Fields |-> b2[f]]
    BY DEF Positions, Fields
  <1>3. ASSUME ~moved
        PROVE  BindingExact(b1, pool, tbl) /\ BindingExact(b2, pool, tbl)
    <2>1. /\ DOMAIN GetVarByName(a[2]).v = DOMAIN first.v
          /\ first.rows = [i \in DOMAIN first.v |-> RowNumber(tbl, first.v[i])]
      BY <1>3, PositionsExact
    <2>2. /\ DOMAIN GetVarByName(b[2]).v = DOMAIN second.v
          /\ second.rows = [i \in DOMAIN second.v |-> RowNumber(tbl, second.v[i])]
      BY <1>3, PositionsExact
    <2>3. \A k \in DOMAIN pairs : pairs[k][1] \in DOMAIN first.v /\ pairs[k][2] \in DOMAIN second.v
      BY <2>1, <2>2
    <2> HIDE DEF first, second
    <2>4. rows1 = [k \in DOMAIN v1 |-> RowNumber(tbl, v1[k])]
      BY <2>1, <2>3
    <2>5. rows2 = [k \in DOMAIN v2 |-> RowNumber(tbl, v2[k])]
      BY <2>2, <2>3
    <2>6. /\ b1.kind = "positions" /\ b1.v = v1 /\ b1.rows = rows1
          /\ b2.kind = "positions" /\ b2.v = v2 /\ b2.rows = rows2
      BY DEF Positions
    <2> HIDE DEF v1, v2, rows1, rows2, b1, b2
    <2> QED
      BY <2>4, <2>5, <2>6 DEF BindingExact
  <1> HIDE DEF b1, b2
  <1>4. FreshExact(b1) /\ FreshExact(b2)
    BY <1>2, <1>3 DEF FreshExact
  <1> QED
    BY <1>1, <1>4, TwoKeepExact

\* So do the nested and the hash join, which both find pairs of indexes.
LEMMA JoinKeepsExact ==
  ASSUME Base, Exact, NEW a \in Pairs, NEW b \in Pairs,
         Nested(a[1], a[2], b[1], b[2]) \/ Hashed(a[1], a[2], b[1], b[2])
  PROVE  Exact'
  <1> DEFINE v1 == GetVarByName(a[2]).v
             v2 == GetVarByName(b[2]).v
  <1>1. v1 \in Seq(Int) /\ v2 \in Seq(Int)
    BY PairGetting
  <1>2. /\ NestedJoin(v1, v2) \in Seq((DOMAIN v1) \X (DOMAIN v2))
        /\ HashJoin(v1, v2) \in Seq((DOMAIN v1) \X (DOMAIN v2))
    <2> HIDE DEF v1, v2
    <2> QED
      BY <1>1, NestedJoinIsExact, HashJoinIsExact
  <1>3. CASE Nested(a[1], a[2], b[1], b[2])
    BY <1>2, <1>3, JoinedKeepsExact DEF Nested
  <1>4. CASE Hashed(a[1], a[2], b[1], b[2])
    BY <1>2, <1>4, JoinedKeepsExact DEF Hashed
  <1> QED
    BY <1>3, <1>4

\* An operand of a calculation, be it a column or a variable, is worth its terms.
LEMMA OperandCounts ==
  ASSUME Base, Exact, ~moved, NEW o \in Operands
  PROVE  /\ VarOrCol(o).terms \in Seq(Seq(Terms(tbl)))
         /\ VarOrCol(o).v = Worths(tbl, VarOrCol(o).terms)
  <1>1. CASE o \in Columns
    <2> DEFINE n == Len(tbl)
               q == [p \in 1 .. n |-> p]
    <2>1. RowsOK(tbl) /\ n \in Nat /\ DOMAIN tbl = 1 .. n
      BY CellsAreInts DEF Base
    <2>2. q \in Seq(1 .. n) /\ DOMAIN q = 1 .. n /\ \A p \in 1 .. n : q[p] = p
      <3>1. q \in [1 .. n -> 1 .. n]
        OBVIOUS
      <3> HIDE DEF n
      <3> QED
        BY <2>1, <3>1
    <2> HIDE DEF q
    <2>3. /\ CellsOf(RowsAt(q), o) \in Seq(Seq(Terms(tbl)))
          /\ ValuesAt(q, o) = Worths(tbl, CellsOf(RowsAt(q), o))
      BY <1>1, <2>1, <2>2, FetchedCounts
    <2>4. ValuesAt(q, o) = Column(o)
      BY <2>1, <2>2 DEF ValuesAt, Column
    <2>5. RowsAt(q) = [p \in DOMAIN tbl |-> RowAt(p)]
      BY <2>1, <2>2 DEF RowsAt, RowNumber, RowAt
    <2>6. VarOrCol(o) = Fetched(Column(o), RowsAt(q), o, 0)
      BY <1>1, <2>5 DEF VarOrCol
    <2>7. VarOrCol(o).v = Column(o) /\ VarOrCol(o).terms = CellsOf(RowsAt(q), o)
      BY <2>6 DEF Fetched, CellsOf
    <2> QED
      BY <2>3, <2>4, <2>7
  <1>2. CASE o \notin Columns
    <2>1. PICK kind \in {"values", "sum"} : o \in Names(kind)
      BY <1>2 DEF Operands
    <2>2. PICK k \in DOMAIN pool : pool[k].kind = kind /\ GetVarByName(o) = pool[k]
      BY <2>1, Getting DEF Base
    <2> DEFINE b == pool[k]
    <2>3. BindingExact(b, pool, tbl) /\ b.kind \in {"values", "sum"} /\ VarOrCol(o) = b
      BY <1>2, <2>2 DEF Exact, PoolExact, VarOrCol
    <2> HIDE DEF b
    <2> QED
      BY <2>3 DEF BindingExact, Lists
  <1> QED
    BY <1>1, <1>2

\* No binding outlives the server.
LEMMA DieKeepsExact ==
  ASSUME Die
  PROVE  Exact'
  <1>1. pool' = <<>>
    BY DEF Die
  <1>2. DOMAIN pool' = {}
    BY <1>1
  <1> QED
    BY <1>2 DEF Exact, PoolExact

\* An aggregate of a vector is the aggregate of what its terms are worth.
LEMMA AggregateKeepsExact ==
  ASSUME Base, Exact, NEW o \in Operands, Minimum(o) \/ Maximum(o) \/ Average(o)
  PROVE  Exact'
  <1> DEFINE v == VarOrCol(o).v
             terms == VarOrCol(o).terms
  <1>1. v \in Seq(Int)
    BY OperandShape
  <1>2. ~moved => terms \in Seq(Seq(Terms(tbl))) /\ v = Worths(tbl, terms)
    BY OperandCounts
  <1>3. \/ Die
        \/ v # <<>> /\ Bind(<<Number("min", <<MinOf(v)>>, terms)>>)
        \/ v # <<>> /\ Bind(<<Number("max", <<MaxOf(v)>>, terms)>>)
        \/ Bind(<<Number("avg", AvgOf(v), terms)>>)
    BY DEF Minimum, Maximum, Average
  <1> HIDE DEF v, terms
  <1>4. v # <<>> => MinOf(v) = Min(Range(v)) /\ MaxOf(v) = Max(Range(v))
    BY <1>1, AggregatesAreExtremes
  <1>5. ASSUME v # <<>>, Bind(<<Number("min", <<MinOf(v)>>, terms)>>)
        PROVE  Exact'
    <2>1. FreshExact(Number("min", <<MinOf(v)>>, terms))
      BY <1>2, <1>4, <1>5 DEF FreshExact, Fields, Number, BindingExact, Lists
    <2> QED
      BY <1>5, <2>1, OneKeepsExact
  <1>6. ASSUME v # <<>>, Bind(<<Number("max", <<MaxOf(v)>>, terms)>>)
        PROVE  Exact'
    <2>1. FreshExact(Number("max", <<MaxOf(v)>>, terms))
      BY <1>2, <1>4, <1>6 DEF FreshExact, Fields, Number, BindingExact, Lists
    <2> QED
      BY <1>6, <2>1, OneKeepsExact
  <1>7. ASSUME Bind(<<Number("avg", AvgOf(v), terms)>>)
        PROVE  Exact'
    <2>1. FreshExact(Number("avg", AvgOf(v), terms))
      BY <1>2 DEF FreshExact, Fields, Number, BindingExact, Lists
    <2> QED
      BY <1>7, <2>1, OneKeepsExact
  <1> QED
    BY <1>3, <1>5, <1>6, <1>7, DieKeepsExact

\* Vectors of the same indexes have the same length.
LEMMA SameInterval ==
  ASSUME NEW m \in Nat, NEW n \in Nat, 1 .. m = 1 .. n
  PROVE  m = n
  <1>1. (m > 0 => m \in 1 .. m) /\ (n > 0 => n \in 1 .. n)
    OBVIOUS
  <1>2. (m > 0 => m \in 1 .. n) /\ (n > 0 => n \in 1 .. m)
    BY <1>1
  <1> QED
    BY <1>2

\* Sums and differences of vectors are worth the terms of both.
LEMMA SumCounts ==
  ASSUME RowsOK(tbl), NEW l1 \in Seq(Seq(Terms(tbl))), NEW l2 \in Seq(Seq(Terms(tbl))),
         Len(l1) = Len(l2), NEW s \in {1, -1}, NEW zs,
         \A i \in DOMAIN l2 : zs[i] \in Seq(Terms(tbl)) /\ Signed(zs[i], l2[i], s)
  PROVE  LET terms == [i \in DOMAIN l1 |-> l1[i] \o zs[i]]
         IN  /\ terms \in Seq(Seq(Terms(tbl)))
             /\ Worths(tbl, terms) =
                  [i \in DOMAIN l1 |-> Worths(tbl, l1)[i] + s * Worths(tbl, l2)[i]]
             /\ \A i \in DOMAIN l1 : Worths(tbl, l1)[i] \in Int /\ Worths(tbl, l2)[i] \in Int
  <1> DEFINE n == Len(l1)  T == Terms(tbl)  ST == Seq(T)
             terms == [i \in DOMAIN l1 |-> l1[i] \o zs[i]]
  <1>1. /\ n \in Nat /\ DOMAIN l1 = 1 .. n /\ DOMAIN l2 = 1 .. n
        /\ \A i \in 1 .. n : l1[i] \in ST /\ l2[i] \in ST
    <2>1. l1 \in Seq(ST) /\ l2 \in Seq(ST) /\ Len(l2) = n
      OBVIOUS
    <2> HIDE DEF ST
    <2>2. n \in Nat /\ DOMAIN l1 = 1 .. n /\ \A i \in 1 .. n : l1[i] \in ST
      BY <2>1, LenProperties
    <2>3. DOMAIN l2 = 1 .. n /\ \A i \in 1 .. n : l2[i] \in ST
      BY <2>1, LenProperties
    <2> QED
      BY <2>2, <2>3
  <1>2. ASSUME NEW i \in 1 .. n
        PROVE  /\ l1[i] \o zs[i] \in ST
               /\ Worth(tbl, l1[i] \o zs[i]) = Worth(tbl, l1[i]) + s * Worth(tbl, l2[i])
               /\ Worth(tbl, l1[i]) \in Int /\ Worth(tbl, l2[i]) \in Int
    <2> DEFINE x == l1[i]  y == l2[i]  z == zs[i]
    <2>1. x \in Seq(Terms(tbl)) /\ y \in Seq(Terms(tbl)) /\ z \in Seq(Terms(tbl)) /\ Signed(z, y, s)
      BY <1>1
    <2> HIDE DEF x, y, z
    <2>2. Worth(tbl, x) \in Int /\ Worth(tbl, y) \in Int
      BY <2>1, SummandsAreInts
    <2>3. x \o z \in Seq(Terms(tbl)) /\ Worth(tbl, x \o z) = Worth(tbl, x) + s * Worth(tbl, y)
      BY <2>1, WorthOfParts
    <2> QED
      BY <2>2, <2>3 DEF x, y, z
  <1>3. DOMAIN terms = 1 .. n /\ \A i \in 1 .. n : terms[i] = l1[i] \o zs[i]
    BY <1>1
  <1>4. terms \in Seq(ST)
    <2>1. terms = [i \in 1 .. n |-> terms[i]]
      BY <1>1
    <2> HIDE DEF terms, ST, n
    <2>2. \A i \in 1 .. n : terms[i] \in ST
      BY <1>2, <1>3
    <2>3. terms \in [1 .. n -> ST] /\ n \in Nat
      BY <1>1, <2>1, <2>2
    <2> QED
      BY <2>3, FunctionIsList, Zenon
  <1>5. \A i \in 1 .. n : Worths(tbl, l1)[i] = Worth(tbl, l1[i]) /\ Worths(tbl, l2)[i] = Worth(tbl, l2[i])
    BY <1>1 DEF Worths
  <1>6. Worths(tbl, terms) = [i \in DOMAIN l1 |-> Worths(tbl, l1)[i] + s * Worths(tbl, l2)[i]]
    <2>1. Worths(tbl, terms) = [i \in 1 .. n |-> Worth(tbl, l1[i] \o zs[i])]
      BY <1>3 DEF Worths
    <2>2. \A i \in 1 .. n : Worth(tbl, l1[i] \o zs[i]) = Worths(tbl, l1)[i] + s * Worths(tbl, l2)[i]
      BY <1>2, <1>5
    <2> QED
      BY <1>1, <2>1, <2>2
  <1> QED
    BY <1>1, <1>2, <1>4, <1>5, <1>6

\* A calculation binds what the terms of both operands are worth together.
LEMMA CalculationKeepsExact ==
  ASSUME Base, Exact, NEW o1 \in Operands, NEW o2 \in Operands, Add(o1, o2) \/ Sub(o1, o2)
  PROVE  Exact'
  <1> DEFINE v1 == VarOrCol(o1).v      v2 == VarOrCol(o2).v
             l1 == VarOrCol(o1).terms  l2 == VarOrCol(o2).terms
             Negated(i) == [k \in DOMAIN l2[i] |-> [l2[i][k] EXCEPT !.sign = -@]]
             added == [i \in DOMAIN l1 |-> l1[i] \o l2[i]]
             subtracted == [i \in DOMAIN l1 |-> l1[i] \o Negated(i)]
  <1>1. v1 \in Seq(Int) /\ v2 \in Seq(Int)
    BY OperandShape
  <1>2. \/ Die
        \/ Len(v1) = Len(v2) /\ Bind(<<Sum(AddVectors(v1, v2), added)>>)
        \/ Len(v1) = Len(v2) /\ Bind(<<Sum(SubVectors(v1, v2), subtracted)>>)
    BY DEF Add, Sub
  <1>3. ~moved => /\ l1 \in Seq(Seq(Terms(tbl))) /\ l2 \in Seq(Seq(Terms(tbl)))
                  /\ v1 = Worths(tbl, l1) /\ v2 = Worths(tbl, l2)
    BY OperandCounts
  <1>4. RowsOK(tbl)
    BY DEF Base
  <1> HIDE DEF v1, v2, l1, l2
  <1>5. ASSUME ~moved, Len(v1) = Len(v2)
        PROVE  Len(l1) = Len(l2) /\ DOMAIN v1 = DOMAIN l1
    <2>1. DOMAIN v1 = DOMAIN l1 /\ DOMAIN v2 = DOMAIN l2
      BY <1>3, <1>5 DEF Worths
    <2> DEFINE ST == Seq(Terms(tbl))
    <2>2. l1 \in Seq(ST) /\ l2 \in Seq(ST)
      BY <1>3, <1>5
    <2> HIDE DEF ST
    <2>3. /\ Len(l1) \in Nat /\ DOMAIN l1 = 1 .. Len(l1)
          /\ Len(l2) \in Nat /\ DOMAIN l2 = 1 .. Len(l2)
      BY <2>2, LenProperties
    <2>4. DOMAIN v1 = DOMAIN v2
      BY <1>1, <1>5
    <2> DEFINE m == Len(l1)  n == Len(l2)
    <2>5. m \in Nat /\ n \in Nat /\ 1 .. m = 1 .. n
      BY <2>1, <2>3, <2>4
    <2> HIDE DEF m, n
    <2>6. m = n
      BY <2>5, SameInterval
    <2> QED
      BY <2>1, <2>6 DEF m, n
  <1>6. ASSUME ~moved, NEW i \in DOMAIN l2
        PROVE  /\ l2[i] \in Seq(Terms(tbl)) /\ Signed(l2[i], l2[i], 1)
               /\ Negated(i) \in Seq(Terms(tbl)) /\ Signed(Negated(i), l2[i], -1)
    <2> DEFINE T == Terms(tbl)  ST == Seq(T)  y == l2[i]
               z == [k \in DOMAIN y |-> [y[k] EXCEPT !.sign = -@]]
    <2>1. y \in Seq(T)
      <3>1. l2 \in Seq(ST)
        BY <1>3, <1>6
      <3> HIDE DEF ST
      <3>2. l2[i] \in ST
        BY <3>1
      <3> QED
        BY <3>2 DEF ST
    <2> HIDE DEF y
    <2>2. Len(y) \in Nat /\ DOMAIN y = 1 .. Len(y) /\ \A k \in 1 .. Len(y) : y[k] \in T
      <3> HIDE DEF T
      <3> QED
        BY <2>1, LenProperties
    <2>3. \A k \in 1 .. Len(y) :
            /\ y[k].sign \in {1, -1} /\ 1 * y[k].sign = y[k].sign
            /\ -(y[k].sign) = (-1) * y[k].sign /\ -(y[k].sign) \in {1, -1}
      <3> TAKE k \in 1 .. Len(y)
      <3> DEFINE r == y[k].sign
      <3>1. r \in {1, -1}
        BY <2>2 DEF Terms
      <3> HIDE DEF r
      <3>2. 1 * r = r /\ -r = (-1) * r /\ -r \in {1, -1}
        BY <3>1
      <3> QED
        BY <3>1, <3>2 DEF r
    <2>4. \A k \in 1 .. Len(y) :
            /\ z[k] \in T /\ z[k].sign = -(y[k].sign)
            /\ z[k].row = y[k].row /\ z[k].col = y[k].col
      <3> TAKE k \in 1 .. Len(y)
      <3>1. z[k] = [y[k] EXCEPT !.sign = -@] /\ y[k] \in T /\ -(y[k].sign) \in {1, -1}
        BY <2>2, <2>3
      <3> QED
        BY <3>1 DEF Terms
    <2>5. z \in [1 .. Len(y) -> T] /\ Len(z) = Len(y)
      <3>1. z = [k \in 1 .. Len(y) |-> z[k]]
        BY <2>2
      <3> HIDE DEF z, T
      <3>2. z \in [1 .. Len(y) -> T]
        BY <2>4, <3>1
      <3> QED
        BY <2>2, <3>2
    <2>6. z \in Seq(T)
      <3> HIDE DEF z, T
      <3> QED
        BY <2>2, <2>5
    <2>7. Signed(y, y, 1) /\ Signed(z, y, -1)
      <3> HIDE DEF z
      <3> QED
        BY <2>3, <2>4, <2>5 DEF Signed
    <2> QED
      BY <2>1, <2>6, <2>7 DEF y
  <1>7. ASSUME Len(v1) = Len(v2), Bind(<<Sum(AddVectors(v1, v2), added)>>)
        PROVE  Exact'
    <2>1. ASSUME ~moved
          PROVE  added \in Seq(Seq(Terms(tbl))) /\ AddVectors(v1, v2) = Worths(tbl, added)
      <3>1. /\ added \in Seq(Seq(Terms(tbl)))
            /\ Worths(tbl, added) = [i \in DOMAIN l1 |-> Worths(tbl, l1)[i] + 1 * Worths(tbl, l2)[i]]
            /\ \A i \in DOMAIN l1 : Worths(tbl, l1)[i] \in Int /\ Worths(tbl, l2)[i] \in Int
        <4>1. l1 \in Seq(Seq(Terms(tbl))) /\ l2 \in Seq(Seq(Terms(tbl))) /\ Len(l1) = Len(l2)
          BY <1>3, <1>5, <1>7, <2>1
        <4>2. \A i \in DOMAIN l2 : l2[i] \in Seq(Terms(tbl)) /\ Signed(l2[i], l2[i], 1)
          BY <1>6, <2>1
        <4> QED
          BY <1>4, <4>1, <4>2, SumCounts
      <3>2. v1 = Worths(tbl, l1) /\ v2 = Worths(tbl, l2) /\ DOMAIN v1 = DOMAIN l1
        BY <1>3, <1>5, <1>7, <2>1
      <3>3. \A i \in DOMAIN l1 : v1[i] + v2[i] = v1[i] + 1 * v2[i]
        BY <3>1, <3>2
      <3> HIDE DEF added
      <3> QED
        BY <3>1, <3>2, <3>3 DEF AddVectors
    <2> HIDE DEF added
    <2>2. FreshExact(Sum(AddVectors(v1, v2), added))
      BY <2>1 DEF FreshExact, Fields, Sum, BindingExact, Lists
    <2> QED
      BY <1>7, <2>2, OneKeepsExact
  <1>8. ASSUME Len(v1) = Len(v2), Bind(<<Sum(SubVectors(v1, v2), subtracted)>>)
        PROVE  Exact'
    <2>1. ASSUME ~moved
          PROVE  subtracted \in Seq(Seq(Terms(tbl))) /\ SubVectors(v1, v2) = Worths(tbl, subtracted)
      <3> DEFINE zs == [i \in DOMAIN l2 |-> Negated(i)]
      <3>1. l1 \in Seq(Seq(Terms(tbl))) /\ l2 \in Seq(Seq(Terms(tbl))) /\ Len(l1) = Len(l2)
        BY <1>3, <1>5, <1>8, <2>1
      <3>2. DOMAIN l1 = DOMAIN l2
        <4> DEFINE ST == Seq(Terms(tbl))
        <4>1. l1 \in Seq(ST) /\ l2 \in Seq(ST)
          BY <3>1
        <4> HIDE DEF ST
        <4> QED
          BY <3>1, <4>1, LenProperties
      <3>3. \A i \in DOMAIN l2 : zs[i] = Negated(i)
        OBVIOUS
      <3>4. subtracted = [i \in DOMAIN l1 |-> l1[i] \o zs[i]]
        BY <3>2, <3>3
      <3>5. \A i \in DOMAIN l2 : zs[i] \in Seq(Terms(tbl)) /\ Signed(zs[i], l2[i], -1)
        BY <1>6, <2>1, <3>3
      <3> HIDE DEF subtracted, zs
      <3>6. /\ subtracted \in Seq(Seq(Terms(tbl)))
            /\ Worths(tbl, subtracted) =
                 [i \in DOMAIN l1 |-> Worths(tbl, l1)[i] + (-1) * Worths(tbl, l2)[i]]
            /\ \A i \in DOMAIN l1 : Worths(tbl, l1)[i] \in Int /\ Worths(tbl, l2)[i] \in Int
        <4> DEFINE s == -1
        <4>1. s \in {1, -1} /\ \A i \in DOMAIN l2 : zs[i] \in Seq(Terms(tbl)) /\ Signed(zs[i], l2[i], s)
          BY <3>5
        <4> HIDE DEF s
        <4> DEFINE sums == [i \in DOMAIN l1 |-> l1[i] \o zs[i]]
        <4>2. /\ sums \in Seq(Seq(Terms(tbl)))
              /\ Worths(tbl, sums) = [i \in DOMAIN l1 |-> Worths(tbl, l1)[i] + s * Worths(tbl, l2)[i]]
              /\ \A i \in DOMAIN l1 : Worths(tbl, l1)[i] \in Int /\ Worths(tbl, l2)[i] \in Int
          BY <1>4, <3>1, <4>1, SumCounts
        <4>3. sums = subtracted
          BY <3>4
        <4> HIDE DEF sums
        <4> QED
          BY <4>2, <4>3 DEF s
      <3>7. v1 = Worths(tbl, l1) /\ v2 = Worths(tbl, l2) /\ DOMAIN v1 = DOMAIN l1
        BY <1>3, <1>5, <1>8, <2>1
      <3>8. \A i \in DOMAIN l1 : v1[i] - v2[i] = v1[i] + (-1) * v2[i]
        BY <3>6, <3>7
      <3> QED
        BY <3>6, <3>7, <3>8 DEF SubVectors
    <2> HIDE DEF subtracted
    <2>2. FreshExact(Sum(SubVectors(v1, v2), subtracted))
      BY <2>1 DEF FreshExact, Fields, Sum, BindingExact, Lists
    <2> QED
      BY <1>8, <2>2, OneKeepsExact
  <1> HIDE DEF added, subtracted
  <1> QED
    BY <1>2, <1>7, <1>8, DieKeepsExact

\* An insert that moves no row extends the table.
LEMMA InsertKeepsExact ==
  ASSUME Base, Exact, NEW vals \in Rows, RelationalInsert(vals)
  PROVE  Exact'
  <1> SUFFICES ASSUME ~moved'
               PROVE  PoolExact(pool', tbl')
    BY DEF Exact
  <1>1. RowsOK(tbl') /\ Len(tbl') = Len(tbl) + 1 /\ pool' = pool
    BY InsertedRows
  <1>2. ~moved /\ (pool = <<>> \/ \A p \in DOMAIN tbl : tbl'[p] = tbl[p])
    BY DEF RelationalInsert
  <1>3. RowsOK(tbl) /\ PoolOK(pool, Len(tbl)) /\ PoolExact(pool, tbl)
    BY <1>2 DEF Base, Exact
  <1>4. CASE pool = <<>>
    <2>1. DOMAIN pool = {}
      BY <1>4
    <2> QED
      BY <1>1, <2>1 DEF PoolExact
  <1>5. CASE \A p \in DOMAIN tbl : tbl'[p] = tbl[p]
    <2>1. Extends(tbl, tbl')
      <3>1. Len(tbl) \in Nat
        BY <1>3, CellsAreInts
      <3> QED
        BY <1>1, <1>5, <3>1 DEF Extends
    <2>2. PoolExact(pool, tbl')
      BY <1>1, <1>3, <2>1, ExactLasts
    <2> QED
      BY <1>1, <2>2
  <1> QED
    BY <1>2, <1>4, <1>5

\* What a list of terms means is what it is worth.
LEMMA MeaningIsWorth ==
  ASSUME RowsOK(tbl), NEW terms \in Seq(Terms(tbl))
  PROVE  Meaning(terms) = Worth(tbl, terms)
  <1> DEFINE n == Len(terms)
             g == Summands(tbl, terms)
             Body(f) ==
               [s \in SUBSET (DOMAIN terms) |->
                  IF s = {} THEN 0
                  ELSE f[s \ {Max(s)}] + terms[Max(s)].sign * ValueOf(terms[Max(s)].row, terms[Max(s)].col)]
             iter == CHOOSE f : f = Body(f)
  <1>1. Meaning(terms) = iter[DOMAIN terms]
    BY DEF Meaning, FoldLeft, MapThenFoldSet
  <1>2. /\ n \in Nat
        /\ \A k \in 1 .. n : g[k] = terms[k].sign * ValueIn(tbl, terms[k].row, terms[k].col)
        /\ \A k \in 1 .. n : g[k] \in Int
    BY SummandsAreInts
  <1>3. DOMAIN terms = 1 .. n
    OBVIOUS
  <1>4. ASSUME NEW f
        PROVE  Body(f) = Folding(g, n, f)
    <2> DEFINE S == SUBSET (1 .. n)
    <2>1. ASSUME NEW s \in S, s # {}
          PROVE  terms[Max(s)].sign * ValueOf(terms[Max(s)].row, terms[Max(s)].col) = g[Max(s)]
      <3> DEFINE k == Max(s)
      <3>1. k \in 1 .. n
        <4>1. s \subseteq 1 .. n
          OBVIOUS
        <4>2. k \in s
          BY <1>2, <2>1, <4>1, Greatest
        <4> QED
          BY <4>1, <4>2
      <3> HIDE DEF k
      <3>2. ValueOf(terms[k].row, terms[k].col) = ValueIn(tbl, terms[k].row, terms[k].col)
        BY DEF ValueOf, ValueIn
      <3> QED
        BY <1>2, <3>1, <3>2 DEF k
    <2> HIDE DEF g
    <2> QED
      BY <1>3, <2>1 DEF Folding
  <1>5. iter = Folding(g, n, iter)
    <2> HIDE DEF Body
    <2>1. PICK f : f = Folding(g, n, f)
      <3> HIDE DEF g, n
      <3> QED
        BY <1>2, FoldingExists
    <2>2. f = Body(f)
      BY <1>4, <2>1
    <2>3. iter = Body(iter)
      BY <2>2
    <2> HIDE DEF iter
    <2> QED
      BY <1>4, <2>3
  <1> HIDE DEF iter, g, n
  <1>6. iter[1 .. n] = Total(g, n)
    BY <1>2, <1>5, FoldingIsTotal
  <1> QED
    BY <1>1, <1>3, <1>6 DEF Worth, g, n

---------------------------------------------------------------------------
(* The invariants of sessions whose ranges are read as they are meant.     *)

\* Every handler keeps the bindings exact, until an insert moves a row.
LEMMA NextKeepsExact ==
  ASSUME RangesMeant
  PROVE  Base /\ Exact /\ [Next]_vars => Exact'
  <1> SUFFICES ASSUME Base, Exact, [Next]_vars
               PROVE  Exact'
    OBVIOUS
  <1>1. ASSUME NEW vals \in Rows, RelationalInsert(vals)
        PROVE  Exact'
    BY <1>1, InsertKeepsExact
  <1>2. ASSUME NEW c \in Columns, NEW r \in Ranges, Select(c, r[1], r[2])
        PROVE  Exact'
    BY <1>2, SelectKeepsExact
  <1>3. ASSUME NEW c \in Columns, NEW p \in Names("positions"), Fetch(c, p)
        PROVE  Exact'
    BY <1>3, FetchKeepsExact
  <1>4. ASSUME NEW a \in Pairs, NEW r \in Ranges, SelectTwo(a[1], a[2], r[1], r[2])
        PROVE  Exact'
    BY <1>4, SelectTwoKeepsExact
  <1>5. ASSUME NEW a \in Pairs, NEW b \in Pairs,
               Nested(a[1], a[2], b[1], b[2]) \/ Hashed(a[1], a[2], b[1], b[2])
        PROVE  Exact'
    BY <1>5, JoinKeepsExact
  <1>6. ASSUME NEW o \in Operands, Minimum(o) \/ Maximum(o) \/ Average(o)
        PROVE  Exact'
    BY <1>6, AggregateKeepsExact
  <1>7. ASSUME NEW o1 \in Operands, NEW o2 \in Operands, Add(o1, o2) \/ Sub(o1, o2)
        PROVE  Exact'
    BY <1>7, CalculationKeepsExact
  <1>8. CASE Disconnect
    <2>1. pool' = <<>>
      BY <1>8 DEF Disconnect
    <2>2. DOMAIN pool' = {}
      BY <2>1
    <2> QED
      BY <2>2 DEF Exact, PoolExact
  <1>9. CASE UNCHANGED vars
    BY <1>9 DEF vars, Exact
  <1> QED
    BY <1>1, <1>2, <1>3, <1>4, <1>5, <1>6, <1>7, <1>8, <1>9 DEF Next

\* So both layers hold of every session whose ranges are read as they are meant.
LEMMA ExactHolds ==
  ASSUME RangesMeant
  PROVE  Spec => [](Base /\ Exact)
  <1>1. Init => Base /\ Exact
    <2> SUFFICES ASSUME Init
                 PROVE  Exact
      BY InitBase
    <2>1. pool = <<>>
      BY DEF Init
    <2>2. DOMAIN pool = {}
      BY <2>1
    <2> QED
      BY <2>2 DEF Exact, PoolExact
  <1>2. Base /\ Exact /\ [Next]_vars => (Base /\ Exact)'
    BY NextKeepsBase, NextKeepsExact
  <1> QED
    BY <1>1, <1>2, PTL DEF Spec

\* While no row has moved, every variable of positions has the rows that its chain of
\* queries is about, for tables and chains of any size and all ints in the rows: by
\* RangesMeant, if the ranges of selectv are read as they are meant, and, with one of no
\* upper bound or of one that is dropped among them, if no row has the value MAX_DATA.
THEOREM ChainsStayExact ==
  ASSUME RangesMeant
  PROVE  Spec => []ChainsExact
  <1>1. Base /\ Exact => ChainsExact
    <2> SUFFICES ASSUME Exact, ~moved, NEW k \in DOMAIN pool, pool[k].kind = "positions"
                 PROVE  pool[k].rows = [i \in DOMAIN pool[k].v |-> RowAt(pool[k].v[i])]
      BY DEF ChainsExact
    <2> DEFINE b == pool[k]
    <2>1. BindingExact(b, pool, tbl) /\ b.kind = "positions"
      BY DEF Exact, PoolExact
    <2> HIDE DEF b
    <2>2. b.rows = [i \in DOMAIN b.v |-> RowNumber(tbl, b.v[i])]
      BY <2>1 DEF BindingExact
    <2>3. b.rows = [i \in DOMAIN b.v |-> RowAt(b.v[i])]
      BY <2>2 DEF RowNumber, RowAt
    <2> QED
      BY <2>3 DEF b
  <1> QED
    BY <1>1, ExactHolds, PTL

\* While no row has moved, fetched values, sums, differences and aggregates are computed
\* from the cells that the queries mean, through however many variables.  What the chains
\* below them mean rests on RangesMeant, as in ChainsStayExact.
THEOREM AggregatesStayExact ==
  ASSUME RangesMeant
  PROVE  Spec => []AggregatesExact
  <1>1. Base /\ Exact => AggregatesExact
    <2> SUFFICES ASSUME Base, Exact, ~moved, NEW k \in DOMAIN pool
                 PROVE  LET b     == pool[k]
                            means == [i \in DOMAIN b.terms |-> Meaning(b.terms[i])]
                        IN  CASE b.kind = "positions" -> TRUE
                              [] b.kind = "min" -> b.v[1] = Min(Range(means))
                              [] b.kind = "max" -> b.v[1] = Max(Range(means))
                              [] b.kind = "avg" -> b.v = <<FoldLeft(+, 0, means), Len(means)>>
                              [] OTHER -> b.v = means
      BY DEF AggregatesExact
    <2> DEFINE b == pool[k]
               means == [i \in DOMAIN b.terms |-> Meaning(b.terms[i])]
    <2>1. BindingExact(b, pool, tbl) /\ RowsOK(tbl)
      BY DEF Exact, PoolExact, Base
    <2> HIDE DEF b
    <2>2. CASE b.kind = "positions"
      BY <2>2 DEF b
    <2>3. CASE b.kind # "positions"
      <3>1. means = Worths(tbl, b.terms)
        <4> DEFINE ST == Seq(Terms(tbl))
        <4>1. b.terms \in Seq(ST)
          BY <2>1, <2>3 DEF BindingExact, Lists
        <4> HIDE DEF ST
        <4>2. \A i \in DOMAIN b.terms : b.terms[i] \in ST
          BY <4>1
        <4>3. \A i \in DOMAIN b.terms : Meaning(b.terms[i]) = Worth(tbl, b.terms[i])
          BY <2>1, <4>2, MeaningIsWorth DEF ST
        <4> QED
          BY <4>3 DEF Worths
      <3> HIDE DEF means
      <3>2. /\ b.kind \in {"values", "sum", "min", "max", "avg"}
            /\ b.kind \in {"values", "sum"} => b.v = means
            /\ b.kind = "min" => b.v[1] = Min(Range(means))
            /\ b.kind = "max" => b.v[1] = Max(Range(means))
            /\ b.kind = "avg" => b.v = AvgOf(means)
        BY <2>1, <2>3, <3>1 DEF BindingExact
      <3>3. AvgOf(means) = <<FoldLeft(+, 0, means), Len(means)>>
        BY DEF AvgOf
      <3>4. CASE b.kind = "min"
        BY <3>2, <3>4 DEF b, means
      <3>5. CASE b.kind = "max"
        BY <3>2, <3>5 DEF b, means
      <3>6. CASE b.kind = "avg"
        BY <3>2, <3>3, <3>6 DEF b, means
      <3>7. CASE b.kind \in {"values", "sum"}
        BY <3>2, <3>7 DEF b, means
      <3> QED
        BY <3>2, <3>4, <3>5, <3>6, <3>7
    <2> QED
      BY <2>2, <2>3
  <1> QED
    BY <1>1, ExactHolds, PTL
=============================================================================
