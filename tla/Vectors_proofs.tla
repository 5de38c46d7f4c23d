--------------------------- MODULE Vectors_proofs ---------------------------
(***************************************************************************)
(* What the binary searches return, for vectors of every length, and that  *)
(* the two ways to select from an ascending vector agree.  Before it comes *)
(* induction, for all proofs about recursive functions: the principles of  *)
(* the library quantify over operators; these speak of sets and functions  *)
(* only, so that first-order provers can use them.                         *)
(***************************************************************************)
EXTENDS Vectors, FiniteSetTheorems, WellFoundedInduction, TLAPS

---------------------------------------------------------------------------
(* Induction and recursion.                                                *)

\* A set of natural numbers has a least element: as an interval 0 .. n has no
\* more than finitely many subsets below it.
LEMMA LeastNatural ==
  ASSUME NEW T, T \subseteq Nat, T # {}
  PROVE  \E x \in T : \A y \in T : x <= y
  <1> DEFINE R == StrictSubsetOrdering(Nat)
             F == { 0 .. n : n \in T }
  <1>1. IsWellFoundedOn(R, FiniteSubsetsOf(Nat))
    BY FS_StrictSubsetOrderingWellFounded
  <1>2. F \subseteq FiniteSubsetsOf(Nat)
    <2> SUFFICES ASSUME NEW n \in T
                 PROVE  0 .. n \in FiniteSubsetsOf(Nat)
      OBVIOUS
    <2>1. IsFiniteSet(0 .. n)
      BY FS_Interval
    <2> QED
      BY <2>1 DEF FiniteSubsetsOf
  <1>3. F # {}
    OBVIOUS
  <1>4. \E f \in F : \A g \in F : <<g, f>> \notin R
    <2> HIDE DEF R, F
    <2> QED
      BY <1>1, <1>2, <1>3, WFMin
  <1>5. PICK x \in T : \A y \in T : <<0 .. y, 0 .. x>> \notin R
    BY <1>4
  <1>6. ASSUME NEW y \in T, y < x
        PROVE  FALSE
    <2>1. 0 .. y \subseteq 0 .. x
      BY <1>6
    <2>2. x \in 0 .. x /\ x \notin 0 .. y
      BY <1>6
    <2>3. 0 .. y \in SUBSET Nat /\ 0 .. x \in SUBSET Nat
      BY <1>6
    <2> QED
      BY <1>5, <1>6, <2>1, <2>2, <2>3 DEF StrictSubsetOrdering
  <1> QED
    BY <1>5, <1>6

\* Induction: a set that has 0, and n + 1 whenever it has n, has them all.
LEMMA SetInduction ==
  ASSUME NEW T, 0 \in T, \A n \in Nat : n \in T => n + 1 \in T
  PROVE  Nat \subseteq T
  <1> SUFFICES ASSUME Nat \ T # {}
               PROVE  FALSE
    OBVIOUS
  <1>1. PICK x \in Nat \ T : \A y \in Nat \ T : x <= y
    BY LeastNatural
  <1>2. x - 1 \in Nat
    BY <1>1
  <1>3. x - 1 \in T
    BY <1>1, <1>2
  <1>4. (x - 1) + 1 \in T
    BY <1>2, <1>3
  <1>5. (x - 1) + 1 = x
    BY <1>1
  <1> QED
    BY <1>1, <1>4, <1>5

\* Induction from below: a set that has n whenever it has all numbers below n.
LEMMA StrongInduction ==
  ASSUME NEW T, \A n \in Nat : (\A k \in Nat : k < n => k \in T) => n \in T
  PROVE  Nat \subseteq T
  <1> SUFFICES ASSUME Nat \ T # {}
               PROVE  FALSE
    OBVIOUS
  <1>1. PICK x \in Nat \ T : \A y \in Nat \ T : x <= y
    BY LeastNatural
  <1>2. \A k \in Nat : k < x => k \in T
    BY <1>1
  <1> QED
    BY <1>1, <1>2

\* The arguments S of a recursive function have a measure m below b.
Measured(S, m, b) == b \in Nat /\ m \in [S -> Nat] /\ \A s \in S : m[s] < b

\* The value that G computes at s depends on those at smaller arguments only.
Descends(S, V, m, G) ==
  /\ V # {}
  /\ G \in [[S -> V] -> [S -> V]]
  /\ \A g, h \in [S -> V], s \in S :
       (\A t \in S : m[t] < m[s] => g[t] = h[t]) => G[g][s] = G[h][s]

\* The equation of a recursive function has a solution, if its value at s depends
\* on its values at arguments of a smaller measure only, and measures are bounded.
LEMMA RecursiveFunction ==
  ASSUME NEW S, NEW V, NEW m, NEW b, NEW G, Measured(S, m, b), Descends(S, V, m, G)
  PROVE  \E f \in [S -> V] : f = G[f]
  <1> USE DEF Measured, Descends
  <1> DEFINE Solves(g, n) == \A s \in S : m[s] < n => g[s] = G[g][s]
             T == { n \in Nat : \E g \in [S -> V] : Solves(g, n) }
  <1>1. 0 \in T
    <2>1. PICK v : v \in V
      OBVIOUS
    <2>2. [s \in S |-> v] \in [S -> V]
      BY <2>1
    <2>3. Solves([s \in S |-> v], 0)
      OBVIOUS
    <2> QED
      BY <2>2, <2>3
  <1>2. ASSUME NEW n \in Nat, n \in T
        PROVE  n + 1 \in T
    <2>1. PICK g \in [S -> V] : Solves(g, n)
      BY <1>2
    <2>2. G[g] \in [S -> V]
      OBVIOUS
    <2>3. Solves(G[g], n + 1)
      <3> SUFFICES ASSUME NEW s \in S, m[s] < n + 1
                   PROVE  G[g][s] = G[G[g]][s]
        OBVIOUS
      <3>1. \A t \in S : m[t] < m[s] => g[t] = G[g][t]
        BY <2>1
      <3> QED
        BY <2>2, <3>1
    <2> QED
      BY <2>2, <2>3
  <1>3. Nat \subseteq T
    <2> HIDE DEF T
    <2> QED
      BY <1>1, <1>2, SetInduction
  <1>4. PICK g \in [S -> V] : Solves(g, b)
    BY <1>3
  <1>5. \A s \in S : g[s] = G[g][s]
    BY <1>4
  <1> QED
    BY <1>5

---------------------------------------------------------------------------
(* A bisection that goes left where down says so.                          *)

Mid(w) == (w.first + w.last) \div 2

Lower(w) == [w EXCEPT !.last = Mid(w) - 1]
Upper(w) == [w EXCEPT !.first = Mid(w) + 1]

Narrowed(buf, down, f) ==
  [w \in Windows(buf) |-> IF w.first > w.last THEN w.first
                          ELSE IF down[Mid(w) + 1] THEN f[Lower(w)] ELSE f[Upper(w)]]

Size(w) == IF w.first > w.last THEN 0 ELSE w.last - w.first + 1

\* Both halves of a window are windows, and smaller.
LEMMA Halves ==
  ASSUME NEW buf, Len(buf) \in Nat, NEW w \in Windows(buf), w.first <= w.last
  PROVE  /\ Mid(w) \in w.first .. w.last
         /\ Lower(w) \in Windows(buf) /\ Size(Lower(w)) < Size(w)
         /\ Lower(w).first = w.first /\ Lower(w).last = Mid(w) - 1
         /\ Upper(w) \in Windows(buf) /\ Size(Upper(w)) < Size(w)
         /\ Upper(w).first = Mid(w) + 1 /\ Upper(w).last = w.last
  <1>1. w.first \in 0 .. Len(buf) /\ w.last \in -1 .. Len(buf) - 1
    BY DEF Windows
  <1>2. Mid(w) \in w.first .. w.last
    BY <1>1 DEF Mid
  <1>3. Lower(w) = [first |-> w.first, last |-> Mid(w) - 1]
    BY DEF Lower, Windows
  <1>4. Upper(w) = [first |-> Mid(w) + 1, last |-> w.last]
    BY DEF Upper, Windows
  <1> QED
    BY SMTT(30), <1>1, <1>2, <1>3, <1>4 DEF Windows, Size

\* There is a function that bisects.
LEMMA BisectionExists ==
  ASSUME NEW buf, Len(buf) \in Nat, NEW down
  PROVE  \E f \in [Windows(buf) -> Nat] : f = Narrowed(buf, down, f)
  <1> DEFINE S == Windows(buf)
             m == [w \in S |-> Size(w)]
             G == [f \in [S -> Nat] |-> Narrowed(buf, down, f)]
  <1>1. \A w \in S : w.first \in Nat /\ w.last \in Int /\ w.last < Len(buf)
    BY DEF Windows
  <1>2. m \in [S -> Nat] /\ \A w \in S : m[w] < Len(buf) + 1
    BY <1>1 DEF Size
  <1>3. \A f \in [S -> Nat] : G[f] \in [S -> Nat]
    BY <1>1, Halves DEF Narrowed
  <1>4. ASSUME NEW g \in [S -> Nat], NEW h \in [S -> Nat], NEW w \in S,
               \A t \in S : m[t] < m[w] => g[t] = h[t]
        PROVE  G[g][w] = G[h][w]
    <2>1. CASE w.first > w.last
      BY <2>1 DEF Narrowed
    <2>2. CASE w.first <= w.last
      <3>1. g[Lower(w)] = h[Lower(w)] /\ g[Upper(w)] = h[Upper(w)]
        BY <1>4, <2>2, Halves
      <3> QED
        BY <3>1 DEF Narrowed
    <2> QED
      BY <1>1, <2>1, <2>2
  <1>5. G \in [[S -> Nat] -> [S -> Nat]]
    BY <1>3
  <1>6. \E f \in [S -> Nat] : f = G[f]
    <2>1. Measured(S, m, Len(buf) + 1)
      BY <1>2 DEF Measured
    <2>2. Descends(S, Nat, m, G)
      BY <1>4, <1>5 DEF Descends
    <2> HIDE DEF S, m, G
    <2> QED
      BY <2>1, <2>2, RecursiveFunction
  <1> QED
    BY <1>6

\* It ends where down begins, if down goes on to the end once it begins.
LEMMA BisectionFinds ==
  ASSUME NEW buf, Len(buf) \in Nat,
         NEW down, \A k \in 1 .. Len(buf) : down[k] \in BOOLEAN,
         \A j, k \in 1 .. Len(buf) : j <= k /\ down[j] => down[k],
         NEW f, f = Narrowed(buf, down, f)
  PROVE  LET found == f[[first |-> 0, last |-> Len(buf) - 1]]
         IN  /\ found \in 0 .. Len(buf)
             /\ \A k \in 1 .. Len(buf) : k <= found <=> ~down[k]
  <1> DEFINE Framed(w) == /\ w.first <= w.last + 1
                          /\ \A k \in 1 .. Len(buf) : /\ k <= w.first => ~down[k]
                                                      /\ k > w.last + 1 => down[k]
             Found(w) == /\ f[w] \in 0 .. Len(buf)
                         /\ \A k \in 1 .. Len(buf) : k <= f[w] <=> ~down[k]
             T == { n \in Nat : \A w \in Windows(buf) : Size(w) = n /\ Framed(w) => Found(w) }
  <1>1. ASSUME NEW n \in Nat, \A k \in Nat : k < n => k \in T
        PROVE  n \in T
    <2> SUFFICES ASSUME NEW w \in Windows(buf), Size(w) = n, Framed(w)
                 PROVE  Found(w)
      OBVIOUS
    <2>1. w.first \in 0 .. Len(buf) /\ w.last \in -1 .. Len(buf) - 1
      BY DEF Windows
    <2>2. CASE w.first > w.last
      <3>1. f[w] = w.first
        BY <2>2 DEF Narrowed
      <3>2. w.first = w.last + 1
        BY <2>1, <2>2
      <3> QED
        BY <2>1, <3>1, <3>2
    <2>3. CASE w.first <= w.last
      <3>1. Mid(w) + 1 \in 1 .. Len(buf) /\ Mid(w) \in w.first .. w.last
        BY <2>1, <2>3, Halves
      <3>2. CASE down[Mid(w) + 1]
        <4>1. f[w] = f[Lower(w)]
          BY <2>1, <2>3, <3>2 DEF Narrowed
        <4>2. Lower(w) \in Windows(buf) /\ Size(Lower(w)) < n
          BY <2>3, Halves
        <4>3. Framed(Lower(w))
          BY <2>1, <2>3, <3>1, <3>2, Halves
        <4>4. Size(Lower(w)) \in Nat
          BY <4>2 DEF Windows, Size
        <4>5. Found(Lower(w))
          BY <1>1, <4>2, <4>3, <4>4
        <4> QED
          BY <4>1, <4>5
      <3>3. CASE ~down[Mid(w) + 1]
        <4>1. f[w] = f[Upper(w)]
          BY <2>1, <2>3, <3>3 DEF Narrowed
        <4>2. Upper(w) \in Windows(buf) /\ Size(Upper(w)) < n
          BY <2>3, Halves
        <4>3. Framed(Upper(w))
          BY <2>1, <2>3, <3>1, <3>3, Halves
        <4>4. Size(Upper(w)) \in Nat
          BY <4>2 DEF Windows, Size
        <4>5. Found(Upper(w))
          BY <1>1, <4>2, <4>3, <4>4
        <4> QED
          BY <4>1, <4>5
      <3> QED
        BY <3>2, <3>3
    <2> QED
      BY <2>1, <2>2, <2>3
  <1>2. Nat \subseteq T
    <2> HIDE DEF T
    <2> QED
      BY <1>1, StrongInduction
  <1> DEFINE all == [first |-> 0, last |-> Len(buf) - 1]
  <1>3. all \in Windows(buf) /\ Size(all) \in Nat /\ Framed(all)
    BY DEF Windows, Size
  <1> QED
    BY <1>2, <1>3
---------------------------------------------------------------------------
(* The searches of the program.                                            *)

\* binary_search_left returns, for an ascending vector of any length, how many of
\* its elements are below n: all of them and none other come before the boundary.
THEOREM SearchLeftCounts ==
  ASSUME NEW v \in Seq(Int), Ascending(v), NEW n \in Int
  PROVE  /\ BinarySearchLeft(v, n) \in 0 .. Len(v)
         /\ \A k \in DOMAIN v : k <= BinarySearchLeft(v, n) <=> v[k] < n
  <1> DEFINE down == [k \in 1 .. Len(v) |-> v[k] >= n]
             all == [first |-> 0, last |-> Len(v) - 1]
             Body(f) == [w \in Windows(v) |->
                          LET mid == (w.first + w.last) \div 2
                          IN  IF w.first > w.last THEN w.first
                              ELSE IF v[mid + 1] >= n THEN f[[w EXCEPT !.last = mid - 1]]
                              ELSE f[[w EXCEPT !.first = mid + 1]]]
             narrow == CHOOSE f : f = Body(f)
  <1>1. Len(v) \in Nat /\ DOMAIN v = 1 .. Len(v) /\ \A k \in 1 .. Len(v) : v[k] \in Int
    OBVIOUS
  <1>2. ASSUME NEW f
        PROVE  Body(f) = Narrowed(v, down, f)
    <2> SUFFICES ASSUME NEW w \in Windows(v)
                 PROVE  Body(f)[w] = Narrowed(v, down, f)[w]
      BY DEF Narrowed
    <2>1. CASE w.first > w.last
      BY <2>1 DEF Narrowed
    <2>2. CASE ~(w.first > w.last)
      <3>1. Mid(w) + 1 \in 1 .. Len(v)
        BY SMTT(30), <1>1, <2>2, Halves DEF Windows
      <3>2. down[Mid(w) + 1] = (v[Mid(w) + 1] >= n)
        BY <3>1
      <3> HIDE DEF down
      <3> QED
        BY <2>2, <3>2 DEF Narrowed, Lower, Upper, Mid
    <2> QED
      BY <2>1, <2>2
  <1>3. narrow = Body(narrow)
    <2>1. \E f : f = Narrowed(v, down, f)
      BY <1>1, BisectionExists
    <2>2. \E f : f = Body(f)
      BY <1>2, <2>1
    <2> HIDE DEF Body
    <2> QED
      BY <2>2
  <1>4. BinarySearchLeft(v, n) = narrow[all]
    BY DEF BinarySearchLeft
  <1>5. narrow = Narrowed(v, down, narrow)
    BY <1>2, <1>3
  <1>6. \A k \in 1 .. Len(v) : down[k] <=> v[k] >= n
    OBVIOUS
  <1>7. /\ narrow[all] \in 0 .. Len(v)
        /\ \A k \in 1 .. Len(v) : k <= narrow[all] <=> ~down[k]
    <2>1. \A k \in 1 .. Len(v) : down[k] \in BOOLEAN
      OBVIOUS
    <2>2. \A j, k \in 1 .. Len(v) : j <= k /\ down[j] => down[k]
      <3>1. \A j, k \in 1 .. Len(v) : j <= k => v[j] <= v[k]
        BY <1>1 DEF Ascending
      <3> QED
        BY <1>1, <1>6, <3>1
    <2> HIDE DEF down, narrow
    <2> QED
      BY <1>1, <1>5, <2>1, <2>2, BisectionFinds
  <1>8. \A k \in 1 .. Len(v) : ~(v[k] >= n) <=> v[k] < n
    BY <1>1
  <1> HIDE DEF narrow, all, down, Body
  <1> QED
    BY <1>1, <1>4, <1>7, <1>6, <1>8

\* binary_search_right returns how many elements of an ascending vector are n or
\* below it, however many equal ones there are.
THEOREM SearchRightCounts ==
  ASSUME NEW v \in Seq(Int), Ascending(v), NEW n \in Int
  PROVE  /\ BinarySearchRight(v, n) \in 0 .. Len(v)
         /\ \A k \in DOMAIN v : k <= BinarySearchRight(v, n) <=> v[k] <= n
  <1> DEFINE down == [k \in 1 .. Len(v) |-> v[k] > n]
             all == [first |-> 0, last |-> Len(v) - 1]
             Body(f) == [w \in Windows(v) |->
                          LET mid == (w.first + w.last) \div 2
                          IN  IF w.first > w.last THEN w.first
                              ELSE IF v[mid + 1] > n THEN f[[w EXCEPT !.last = mid - 1]]
                              ELSE f[[w EXCEPT !.first = mid + 1]]]
             narrow == CHOOSE f : f = Body(f)
  <1>1. Len(v) \in Nat /\ DOMAIN v = 1 .. Len(v) /\ \A k \in 1 .. Len(v) : v[k] \in Int
    OBVIOUS
  <1>2. ASSUME NEW f
        PROVE  Body(f) = Narrowed(v, down, f)
    <2> SUFFICES ASSUME NEW w \in Windows(v)
                 PROVE  Body(f)[w] = Narrowed(v, down, f)[w]
      BY DEF Narrowed
    <2>1. CASE w.first > w.last
      BY <2>1 DEF Narrowed
    <2>2. CASE ~(w.first > w.last)
      <3>1. Mid(w) + 1 \in 1 .. Len(v)
        BY SMTT(30), <1>1, <2>2, Halves DEF Windows
      <3>2. down[Mid(w) + 1] = (v[Mid(w) + 1] > n)
        BY <3>1
      <3> HIDE DEF down
      <3> QED
        BY <2>2, <3>2 DEF Narrowed, Lower, Upper, Mid
    <2> QED
      BY <2>1, <2>2
  <1>3. narrow = Body(narrow)
    <2>1. \E f : f = Narrowed(v, down, f)
      BY <1>1, BisectionExists
    <2>2. \E f : f = Body(f)
      BY <1>2, <2>1
    <2> HIDE DEF Body
    <2> QED
      BY <2>2
  <1>4. BinarySearchRight(v, n) = narrow[all]
    BY DEF BinarySearchRight
  <1>5. narrow = Narrowed(v, down, narrow)
    BY <1>2, <1>3
  <1>6. \A k \in 1 .. Len(v) : down[k] <=> v[k] > n
    OBVIOUS
  <1>7. /\ narrow[all] \in 0 .. Len(v)
        /\ \A k \in 1 .. Len(v) : k <= narrow[all] <=> ~down[k]
    <2>1. \A k \in 1 .. Len(v) : down[k] \in BOOLEAN
      OBVIOUS
    <2>2. \A j, k \in 1 .. Len(v) : j <= k /\ down[j] => down[k]
      <3>1. \A j, k \in 1 .. Len(v) : j <= k => v[j] <= v[k]
        BY <1>1 DEF Ascending
      <3> QED
        BY <1>1, <1>6, <3>1
    <2> HIDE DEF down, narrow
    <2> QED
      BY <1>1, <1>5, <2>1, <2>2, BisectionFinds
  <1>8. \A k \in 1 .. Len(v) : ~(v[k] > n) <=> v[k] <= n
    BY <1>1
  <1> HIDE DEF narrow, all, down, Body
  <1> QED
    BY <1>1, <1>4, <1>7, <1>6, <1>8

\* select_one_primary finds by two searches the positions of the values in the
\* closed interval, all of them and no other.
THEOREM SelectPrimaryIsClosed ==
  ASSUME NEW v \in Seq(Int), Ascending(v), NEW l \in Int, NEW h \in Int
  PROVE  SelectPrimary(v, l, h) = { p \in DOMAIN v : l <= v[p] /\ v[p] <= h }
  <1>1. DOMAIN v = 1 .. Len(v) /\ Len(v) \in Nat /\ \A p \in DOMAIN v : v[p] \in Int
    OBVIOUS
  <1>2. /\ BinarySearchLeft(v, l) \in 0 .. Len(v)
        /\ \A k \in DOMAIN v : k <= BinarySearchLeft(v, l) <=> v[k] < l
    BY SearchLeftCounts
  <1>3. /\ BinarySearchRight(v, h) \in 0 .. Len(v)
        /\ \A k \in DOMAIN v : k <= BinarySearchRight(v, h) <=> v[k] <= h
    BY SearchRightCounts
  <1> QED
    BY <1>1, <1>2, <1>3 DEF SelectPrimary

\* The bisection and the scan of one ascending vector agree but for the values that
\* equal the upper bound, which only the bisection returns.
THEOREM SelectsDifferAtBound ==
  ASSUME NEW v \in Seq(Int), Ascending(v), NEW l \in Int, NEW h \in Int, l <= h
  PROVE  SelectPrimary(v, l, h) = SelectUnsorted(v, l, h) \cup { p \in DOMAIN v : v[p] = h }
  BY SelectPrimaryIsClosed DEF SelectUnsorted
=============================================================================
