------------------------- MODULE TableStore_proofs -------------------------
(***************************************************************************)
(* Invariants of TableStore, for every value of its constants.             *)
(*                                                                         *)
(* The argument has three layers: what each helper of the handlers does to *)
(* the parts of a table image, which image predicates it therefore keeps,  *)
(* and, from one case per action, the invariance theorems.                 *)
(***************************************************************************)
EXTENDS TableStore, Vectors_proofs, SequenceTheorems

---------------------------------------------------------------------------
(* Layer 1: the parts of the images that the helpers build.                *)

\* A function on 1 .. n with values in S is a sequence over S.
LEMMA FunctionIsSeq ==
  ASSUME NEW S, NEW n \in Nat, NEW f \in [1 .. n -> S]
  PROVE  f \in Seq(S) /\ Len(f) = n
  OBVIOUS

\* The row count is a natural number, also for a table without columns.
LEMMA NumRowsNat ==
  ASSUME NEW t, ImageOK(t)
  PROVE  NumRows(t) \in Nat
  BY DEF NumRows, ImageOK, Column

\* The values of a column, without the row numbers.
LEMMA ValsShape ==
  ASSUME NEW col \in Column
  PROVE  /\ Vals(col) \in Seq(Val)
         /\ Len(Vals(col)) = Len(col.data)
         /\ \A p \in 1 .. Len(col.data) : Vals(col)[p] = col.data[p].val
  <1>1. Vals(col) \in [1 .. Len(col.data) -> Val]
    <2>1. ASSUME NEW p \in 1 .. Len(col.data)
          PROVE  col.data[p].val \in Val
      <3>1. col.data \in Seq(Cell)
        BY DEF Column
      <3>2. col.data[p] \in Cell
        BY <3>1, ElementOfSeq
      <3> QED
        BY <3>2 DEF Cell
    <2> QED
      BY <2>1 DEF Vals
  <1>2. Len(col.data) \in Nat
    BY DEF Column
  <1> QED
    BY <1>1, <1>2, FunctionIsSeq DEF Vals

\* What AppendRows does to each column: the type and the index stay, the rows
\* of the batch follow those there were, numbered from NumRows on.
Added(t, batch, i) ==
  [k \in 1 .. Len(batch) |-> [row |-> NumRows(t) + k, val |-> batch[k][i]]]

LEMMA AppendShape ==
  ASSUME NEW t, ImageOK(t), NEW batch \in Seq(Row(t))
  PROVE  LET u == AppendRows(t, batch)
         IN  /\ ImageOK(u)
             /\ Len(u.cols) = Len(t.cols)
             /\ u.primary = t.primary
             /\ \A i \in 1 .. Len(t.cols) :
                  /\ u.cols[i].type = t.cols[i].type
                  /\ u.cols[i].index = t.cols[i].index
                  /\ Added(t, batch, i) \in Seq(Cell)
                  /\ Len(Added(t, batch, i)) = Len(batch)
                  /\ u.cols[i].data = t.cols[i].data \o Added(t, batch, i)
  <1> DEFINE n == Len(t.cols)
             u == AppendRows(t, batch)
             grown == [i \in 1 .. n |->
                        [t.cols[i] EXCEPT !.data = t.cols[i].data \o Added(t, batch, i)]]
  <1>1. /\ t \in [cols : Seq(Column), primary : Nat]
        /\ n \in Nat
        /\ \A i \in 1 .. n : t.cols[i] \in Column
    BY DEF ImageOK
  <1>2. ASSUME NEW i \in 1 .. n
        PROVE  Added(t, batch, i) \in Seq(Cell) /\ Len(Added(t, batch, i)) = Len(batch)
    <2>1. Added(t, batch, i) \in [1 .. Len(batch) -> Cell]
      <3>1. ASSUME NEW k \in 1 .. Len(batch)
            PROVE  [row |-> NumRows(t) + k, val |-> batch[k][i]] \in Cell
        <4>1. batch[k] \in Row(t)
          OBVIOUS
        <4>2. batch[k][i] \in Val
          BY <4>1 DEF Row
        <4> QED
          BY <4>2, NumRowsNat DEF Cell
      <3> QED
        BY <3>1 DEF Added
    <2> QED
      BY <2>1, FunctionIsSeq
  <1>3. u = [t EXCEPT !.cols = grown]
    BY DEF AppendRows, Added
  <1>4. ASSUME NEW i \in 1 .. n
        PROVE  /\ grown[i] \in Column
               /\ grown[i].type = t.cols[i].type
               /\ grown[i].index = t.cols[i].index
               /\ grown[i].data = t.cols[i].data \o Added(t, batch, i)
    <2>1. t.cols[i].data \o Added(t, batch, i) \in Seq(Cell)
      BY <1>1, <1>2, ConcatProperties DEF Column
    <2> QED
      BY <1>1, <2>1 DEF Column
  <1>5. grown \in Seq(Column) /\ Len(grown) = n
    <2>1. grown \in [1 .. n -> Column]
      BY <1>4
    <2> QED
      BY <2>1, <1>1, FunctionIsSeq
  <1>6. u.cols = grown /\ u.primary = t.primary /\ u \in [cols : Seq(Column), primary : Nat]
    BY <1>1, <1>3, <1>5
  <1>7. ImageOK(u)
    BY <1>4, <1>5, <1>6 DEF ImageOK
  <1> QED
    BY <1>2, <1>4, <1>5, <1>6, <1>7

\* What the sort by positions does to each column: it moves the cells within
\* the column, all columns by the same positions, and changes nothing else.
Rearranged(t, u, q) ==
  \A i \in 1 .. Len(t.cols) :
    /\ u.cols[i].type = t.cols[i].type
    /\ u.cols[i].index = t.cols[i].index
    /\ Len(u.cols[i].data) = Len(t.cols[i].data)
    /\ \A p \in 1 .. Len(t.cols[i].data) :
         /\ q[p] \in 1 .. Len(t.cols[i].data)
         /\ u.cols[i].data[p] = t.cols[i].data[q[p]]

LEMMA PermuteShape ==
  ASSUME NEW t, ImageOK(t), t.primary > 0, ~SortFails(t),
         NEW q \in SortedPositions(Vals(t.cols[t.primary]))
  PROVE  LET u == PermuteColumns(t, q)
         IN  /\ ImageOK(u)
             /\ Len(u.cols) = Len(t.cols)
             /\ u.primary = t.primary
             /\ Rearranged(t, u, q)
  <1> DEFINE n == Len(t.cols)
             m == Len(t.cols[t.primary].data)
             u == PermuteColumns(t, q)
             moved(i) == SortVectorFromPositions(t.cols[i].data, q)
             sorted == [i \in 1 .. n |-> [t.cols[i] EXCEPT !.data = moved(i)]]
  <1>1. /\ t \in [cols : Seq(Column), primary : Nat]
        /\ n \in Nat
        /\ t.primary \in 1 .. n
        /\ \A i \in 1 .. n : t.cols[i] \in Column
    BY DEF ImageOK
  <1>2. /\ m \in Nat
        /\ q \in [1 .. m -> 1 .. m]
    <2>1. t.cols[t.primary] \in Column
      BY <1>1
    <2>2. m \in Nat
      BY <2>1 DEF Column
    <2>3. DOMAIN Vals(t.cols[t.primary]) = 1 .. m
      BY DEF Vals
    <2> QED
      BY <2>2, <2>3 DEF SortedPositions
  <1>3. \A i \in 1 .. n : Len(t.cols[i].data) = m
    BY <1>1 DEF SortFails
  <1>4. ASSUME NEW i \in 1 .. n
        PROVE  /\ moved(i) \in Seq(Cell)
               /\ Len(moved(i)) = m
               /\ \A p \in 1 .. m : moved(i)[p] = t.cols[i].data[q[p]]
    <2>1. t.cols[i].data \in Seq(Cell) /\ Len(t.cols[i].data) = m
      BY <1>1, <1>3 DEF Column
    <2>2. ASSUME NEW p \in 1 .. m
          PROVE  t.cols[i].data[q[p]] \in Cell
      <3>1. q[p] \in 1 .. m
        BY <1>2
      <3> QED
        BY <2>1, <3>1, ElementOfSeq
    <2>3. moved(i) = [p \in 1 .. m |-> t.cols[i].data[q[p]]]
      BY <2>1 DEF SortVectorFromPositions
    <2>4. moved(i) \in [1 .. m -> Cell]
      BY <2>2, <2>3
    <2>5. moved(i) \in Seq(Cell) /\ Len(moved(i)) = m
      <3> HIDE DEF moved, m
      <3> QED
        BY <1>2, <2>4, FunctionIsSeq
    <2> QED
      BY <2>3, <2>5
  <1>5. u = [t EXCEPT !.cols = sorted]
    BY DEF PermuteColumns
  <1>6. ASSUME NEW i \in 1 .. n
        PROVE  /\ sorted[i] \in Column
               /\ sorted[i].type = t.cols[i].type
               /\ sorted[i].index = t.cols[i].index
               /\ sorted[i].data = moved(i)
    BY <1>1, <1>4 DEF Column
  <1>7. sorted \in Seq(Column) /\ Len(sorted) = n
    <2>1. sorted \in [1 .. n -> Column]
      BY <1>6
    <2> QED
      BY <2>1, <1>1, FunctionIsSeq
  <1>8. u.cols = sorted /\ u.primary = t.primary /\ u \in [cols : Seq(Column), primary : Nat]
    BY <1>1, <1>5, <1>7
  <1>9. ImageOK(u)
    BY <1>6, <1>7, <1>8 DEF ImageOK
  <1> HIDE DEF u, sorted, moved, m
  <1>10. ASSUME NEW i \in 1 .. n
         PROVE  /\ u.cols[i].type = t.cols[i].type
                /\ u.cols[i].index = t.cols[i].index
                /\ Len(u.cols[i].data) = Len(t.cols[i].data)
                /\ \A p \in 1 .. Len(t.cols[i].data) :
                     /\ q[p] \in 1 .. Len(t.cols[i].data)
                     /\ u.cols[i].data[p] = t.cols[i].data[q[p]]
    BY <1>2, <1>3, <1>4, <1>6, <1>8
  <1> QED
    BY <1>7, <1>8, <1>9, <1>10 DEF u, Rearranged

---------------------------------------------------------------------------
(* Layer 2: what the two halves of an insert or a load keep.               *)

\* Appending a batch keeps the bounds of the indexes and, when the columns are
\* of one length, that length, the integrity and the completeness of the rows.
LEMMA AppendKeeps ==
  ASSUME NEW t, ImageOK(t), NEW batch \in Seq(Row(t))
  PROVE  LET u == AppendRows(t, batch)
         IN  /\ ImageBounded(t) => ImageBounded(u)
             /\ ImageAligned(t) => ImageAligned(u)
             /\ ImageAligned(t) /\ ImageIntegral(t) => ImageIntegral(u)
             /\ ImageAligned(t) /\ ImageComplete(t) => ImageComplete(u)
             /\ ImageShifted(t) => ImageShifted(u)
  <1> DEFINE n == Len(t.cols)
             k == Len(batch)
             m == NumRows(t)
             u == AppendRows(t, batch)
             d(i) == t.cols[i].data
             e(i) == u.cols[i].data
  <1>1. n \in Nat /\ k \in Nat /\ m \in Nat /\ Len(u.cols) = n
    <2>1. n \in Nat
      BY DEF ImageOK
    <2>2. k \in Nat
      BY LenProperties
    <2> QED
      BY <2>1, <2>2, NumRowsNat, AppendShape
  <1>2. ASSUME NEW i \in 1 .. n
        PROVE  /\ d(i) \in Seq(Cell)
               /\ Len(d(i)) \in Nat
               /\ DOMAIN d(i) = 1 .. Len(d(i))
    <2>1. t.cols[i] \in Column
      BY DEF ImageOK
    <2>2. d(i) \in Seq(Cell)
      BY <2>1 DEF Column
    <2> QED
      BY <2>2, LenProperties
  <1>3. ASSUME NEW i \in 1 .. n
        PROVE  /\ u.cols[i].index = t.cols[i].index
               /\ Added(t, batch, i) \in Seq(Cell)
               /\ Len(Added(t, batch, i)) = k
               /\ e(i) = d(i) \o Added(t, batch, i)
    BY AppendShape
  <1>4. ASSUME NEW i \in 1 .. n, NEW j \in 1 .. k
        PROVE  Added(t, batch, i)[j].row = m + j
    BY DEF Added
  <1> HIDE DEF n, k, m, u, d, e
  <1>5. ASSUME NEW i \in 1 .. n
        PROVE  /\ Len(e(i)) = Len(d(i)) + k
               /\ DOMAIN e(i) = 1 .. Len(d(i)) + k
               /\ \A p \in 1 .. Len(d(i)) : e(i)[p] = d(i)[p]
               /\ \A p \in Len(d(i)) + 1 .. Len(d(i)) + k :
                    e(i)[p].row = m + (p - Len(d(i)))
    <2>1. /\ e(i) \in Seq(Cell)
          /\ Len(e(i)) = Len(d(i)) + k
          /\ \A p \in 1 .. Len(d(i)) + k :
               e(i)[p] = IF p <= Len(d(i)) THEN d(i)[p]
                                           ELSE Added(t, batch, i)[p - Len(d(i))]
      <3>1. d(i) \in Seq(Cell) /\ Added(t, batch, i) \in Seq(Cell)
        BY <1>2, <1>3
      <3>2. e(i) = d(i) \o Added(t, batch, i) /\ Len(Added(t, batch, i)) = k
        BY <1>3
      <3> DEFINE s1 == d(i)
                 s2 == Added(t, batch, i)
      <3>3. /\ s1 \o s2 \in Seq(Cell)
            /\ Len(s1 \o s2) = Len(s1) + Len(s2)
            /\ \A p \in 1 .. Len(s1) + Len(s2) :
                 (s1 \o s2)[p] = IF p <= Len(s1) THEN s1[p] ELSE s2[p - Len(s1)]
        <4> HIDE DEF s1, s2
        <4>1. s1 \in Seq(Cell) /\ s2 \in Seq(Cell)
          BY <3>1 DEF s1, s2
        <4> QED
          BY <4>1, ConcatProperties
      <3> QED
        BY <3>2, <3>3
    <2>2. Len(d(i)) \in Nat
      BY <1>2
    <2>3. ASSUME NEW p \in Len(d(i)) + 1 .. Len(d(i)) + k
          PROVE  e(i)[p].row = m + (p - Len(d(i)))
      <3>1. p - Len(d(i)) \in 1 .. k /\ p \in 1 .. Len(d(i)) + k /\ ~(p <= Len(d(i)))
        BY <1>1, <2>2
      <3>2. e(i)[p] = Added(t, batch, i)[p - Len(d(i))]
        BY <2>1, <3>1
      <3> QED
        BY <1>4, <3>1, <3>2
    <2>4. ASSUME NEW p \in 1 .. Len(d(i))
          PROVE  e(i)[p] = d(i)[p]
      BY <1>1, <2>1, <2>2
    <2>5. DOMAIN e(i) = 1 .. Len(d(i)) + k
      BY <2>1, LenProperties
    <2> QED
      BY <2>1, <2>3, <2>4, <2>5
  <1>6. ImageBounded(t) => ImageBounded(u)
    <2> SUFFICES ASSUME ImageBounded(t), NEW i \in 1 .. n, NEW x \in u.cols[i].index.entries
                 PROVE  x.pos \in 1 .. Len(e(i))
      BY <1>1 DEF ImageBounded, e
    <2>1. x.pos \in 1 .. Len(d(i))
      BY <1>3 DEF ImageBounded, d, n
    <2> QED
      BY <1>1, <1>2, <1>5, <2>1
  <1>7. ASSUME ImageAligned(t), NEW i \in 1 .. n
        PROVE  Len(d(i)) = m
    <2>1. 1 \in 1 .. n /\ t.cols # <<>>
      BY <1>1 DEF n
    <2>2. m = Len(d(1))
      BY <2>1 DEF NumRows, m, d
    <2> QED
      BY <1>7, <2>1, <2>2 DEF ImageAligned, d, n
  <1>8. ImageAligned(t) => ImageAligned(u)
    <2> SUFFICES ASSUME ImageAligned(t), NEW i \in 1 .. n, NEW j \in 1 .. n
                 PROVE  Len(e(i)) = Len(e(j))
      BY <1>1 DEF ImageAligned, e
    <2> QED
      BY <1>5, <1>7
  <1>9. ASSUME ImageAligned(t), ImageIntegral(t)
        PROVE  ImageIntegral(u)
    <2> SUFFICES ASSUME NEW i \in 1 .. n, NEW j \in 1 .. n, NEW p \in DOMAIN e(i)
                 PROVE  e(i)[p].row = e(j)[p].row
      BY <1>1 DEF ImageIntegral, e
    <2>1. Len(d(i)) = m /\ Len(d(j)) = m
      BY <1>7, <1>9
    <2>2. p \in 1 .. m + k
      BY <1>5, <2>1
    <2>3. CASE p \in 1 .. m
      <3>1. p \in DOMAIN d(i) /\ p \in DOMAIN d(j)
        BY <1>2, <2>1, <2>3
      <3>2. d(i)[p].row = d(j)[p].row
        BY <1>9, <3>1 DEF ImageIntegral, d, n
      <3> QED
        BY <1>5, <2>1, <2>3, <3>2
    <2>4. CASE p \in m + 1 .. m + k
      <3>1. e(i)[p].row = m + (p - m)
        BY <1>5, <2>1, <2>4
      <3>2. e(j)[p].row = m + (p - m)
        BY <1>5, <2>1, <2>4
      <3> QED
        BY <3>1, <3>2
    <2> QED
      BY <1>1, <2>2, <2>3, <2>4
  <1>10. ASSUME ImageAligned(t), ImageComplete(t)
         PROVE  ImageComplete(u)
    <2> SUFFICES ASSUME NEW i \in 1 .. n
                 PROVE  /\ \A p \in DOMAIN e(i) : e(i)[p].row \in 1 .. Len(e(i))
                        /\ \A p, r \in DOMAIN e(i) : e(i)[p].row = e(i)[r].row => p = r
      BY <1>1 DEF ImageComplete, e
    <2>1. Len(d(i)) = m /\ DOMAIN d(i) = 1 .. m
      BY <1>2, <1>7, <1>10
    <2>2. DOMAIN e(i) = 1 .. m + k /\ Len(e(i)) = m + k
      BY <1>5, <2>1
    <2>3. /\ \A p \in 1 .. m : d(i)[p].row \in 1 .. m
          /\ \A p, r \in 1 .. m : d(i)[p].row = d(i)[r].row => p = r
      BY <1>10, <2>1 DEF ImageComplete, d, n
    <2>4. \A p \in 1 .. m : e(i)[p].row = d(i)[p].row
      BY <1>5, <2>1
    <2>5. ASSUME NEW p \in m + 1 .. m + k
          PROVE  e(i)[p].row = p
      <3>1. e(i)[p].row = m + (p - m)
        BY <1>5, <2>1
      <3> QED
        BY <1>1, <3>1
    <2>6. \A p \in 1 .. m + k : e(i)[p].row \in 1 .. m + k
      BY <1>1, <2>3, <2>4, <2>5
    <2>7. ASSUME NEW p \in 1 .. m + k, NEW r \in 1 .. m + k, e(i)[p].row = e(i)[r].row
          PROVE  p = r
      <3>1. CASE p \in 1 .. m /\ r \in 1 .. m
        BY <2>3, <2>4, <2>7, <3>1
      <3>2. CASE p \in 1 .. m /\ r \in m + 1 .. m + k
        BY <1>1, <2>3, <2>4, <2>5, <2>7, <3>2
      <3>3. CASE p \in m + 1 .. m + k /\ r \in 1 .. m
        BY <1>1, <2>3, <2>4, <2>5, <2>7, <3>3
      <3>4. CASE p \in m + 1 .. m + k /\ r \in m + 1 .. m + k
        BY <2>5, <2>7, <3>4
      <3> QED
        BY <1>1, <3>1, <3>2, <3>3, <3>4
    <2> QED
      BY <2>2, <2>6, <2>7
  <1>11. ASSUME ImageShifted(t)
         PROVE  ImageShifted(u)
    <2> SUFFICES ASSUME NEW i \in 1 .. n
                 PROVE  /\ NumRows(u) - Len(e(i)) >= 0
                        /\ \A p \in DOMAIN e(i) :
                             e(i)[p].row = e(1)[NumRows(u) - Len(e(i)) + p].row
      BY <1>1 DEF ImageShifted, e
    <2> DEFINE s == Len(d(i))
               late == m - s
    <2>1. 1 \in 1 .. n /\ t.cols # <<>> /\ u.cols # <<>>
      BY <1>1 DEF n
    <2>2. m = Len(d(1)) /\ NumRows(u) = Len(e(1))
      BY <2>1 DEF NumRows, m, d, e
    <2>3. /\ s \in Nat /\ m \in Nat /\ k \in Nat
          /\ DOMAIN d(i) = 1 .. s /\ DOMAIN d(1) = 1 .. m
      BY <1>1, <1>2, <2>1, <2>2
    <2>4. late >= 0 /\ \A p \in DOMAIN d(i) : d(i)[p].row = d(1)[late + p].row
      BY <1>11 DEF ImageShifted, d, n, m
    <2>5. Len(e(i)) = s + k /\ DOMAIN e(i) = 1 .. s + k /\ NumRows(u) = m + k
      BY <1>5, <2>1, <2>2
    <2>6. /\ \A p \in 1 .. s : e(i)[p] = d(i)[p]
          /\ \A p \in s + 1 .. s + k : e(i)[p].row = m + (p - s)
          /\ \A p \in 1 .. m : e(1)[p] = d(1)[p]
          /\ \A p \in m + 1 .. m + k : e(1)[p].row = m + (p - m)
      BY <1>5, <2>1, <2>2
    <2> HIDE DEF s
    <2>7. NumRows(u) - Len(e(i)) = late /\ late \in Nat /\ late + s = m
      BY <2>3, <2>4, <2>5
    <2> HIDE DEF late
    <2>8. ASSUME NEW p \in 1 .. s + k
          PROVE  e(i)[p].row = e(1)[late + p].row
      <3>1. CASE p \in 1 .. s
        <4>1. late + p \in 1 .. m
          BY <2>3, <2>7, <3>1
        <4> QED
          BY <2>3, <2>4, <2>6, <3>1, <4>1
      <3>2. CASE p \in s + 1 .. s + k
        <4>1. late + p \in m + 1 .. m + k /\ m + (p - s) = m + ((late + p) - m)
          BY <2>3, <2>7, <3>2
        <4> QED
          BY <2>6, <3>2, <4>1
      <3> QED
        BY <2>3, <3>1, <3>2
    <2> QED
      BY <2>5, <2>7, <2>8
  <1> QED
    BY <1>6, <1>8, <1>9, <1>10, <1>11 DEF u

\* Sorting by the primary column leaves that column ascending and keeps all
\* that holds of the positions and the rows of the image.
LEMMA SortKeeps ==
  ASSUME NEW t, ImageOK(t), ~SortFails(t), NEW u \in SortedTables(t)
  PROVE  /\ ImageOK(u)
         /\ ImageSorted(u)
         /\ Len(u.cols) = Len(t.cols)
         /\ \A i \in 1 .. Len(t.cols) : u.cols[i].index = t.cols[i].index
         /\ ImageBounded(t) => ImageBounded(u)
         /\ ImageAligned(t) => ImageAligned(u)
         /\ ImageIntegral(t) => ImageIntegral(u)
         /\ ImageComplete(t) => ImageComplete(u)
         /\ ImageShifted(t) => ImageShifted(u)
  <1>1. CASE t.primary = 0
    <2>1. u = t
      BY <1>1 DEF SortedTables
    <2> QED
      BY <1>1, <2>1 DEF ImageSorted
  <1>2. CASE t.primary # 0
    <2> DEFINE n == Len(t.cols)
               v == Vals(t.cols[t.primary])
               d(i) == t.cols[i].data
               e(i) == u.cols[i].data
    <2>1. t.primary > 0 /\ t.primary \in 1 .. n /\ n \in Nat
      BY <1>2 DEF ImageOK
    <2>2. PICK q \in SortedPositions(v) : u = PermuteColumns(t, q)
      BY <1>2 DEF SortedTables
    <2>3. /\ ImageOK(u)
          /\ Len(u.cols) = n
          /\ u.primary = t.primary
      BY <2>1, <2>2, PermuteShape
    <2>4. \A i \in 1 .. n :
            /\ u.cols[i].index = t.cols[i].index
            /\ Len(e(i)) = Len(d(i))
            /\ \A p \in 1 .. Len(d(i)) :
                 q[p] \in 1 .. Len(d(i)) /\ e(i)[p] = d(i)[q[p]]
      <3>1. Rearranged(t, u, q)
        BY <2>1, <2>2, PermuteShape
      <3> QED
        BY <3>1 DEF Rearranged
    <2>5. ASSUME NEW i \in 1 .. n
          PROVE  /\ t.cols[i] \in Column /\ u.cols[i] \in Column
                 /\ Len(d(i)) \in Nat
                 /\ DOMAIN d(i) = 1 .. Len(d(i))
                 /\ DOMAIN e(i) = 1 .. Len(d(i))
                 /\ Len(d(i)) = Len(d(t.primary))
      <3>1. t.cols[i] \in Column /\ u.cols[i] \in Column
        BY <2>3 DEF ImageOK
      <3>2. d(i) \in Seq(Cell) /\ e(i) \in Seq(Cell)
        BY <3>1 DEF Column
      <3>3. Len(d(i)) = Len(d(t.primary))
        BY <2>1 DEF SortFails
      <3> QED
        BY <2>4, <3>1, <3>2, <3>3, LenProperties
    <2>6. /\ DOMAIN v = 1 .. Len(d(t.primary))
          /\ \A p \in 1 .. Len(d(t.primary)) : v[p] = d(t.primary)[p].val
      BY DEF Vals
    <2>7. /\ \A p, r \in DOMAIN v : q[p] = q[r] => p = r
          /\ Ascending([k \in DOMAIN v |-> v[q[k]]])
      BY <2>2 DEF SortedPositions
    <2>8. ImageSorted(u)
      <3>1. DOMAIN Vals(u.cols[t.primary]) = DOMAIN v
        BY <2>1, <2>4, <2>6 DEF Vals
      <3>2. ASSUME NEW p \in DOMAIN v
            PROVE  Vals(u.cols[t.primary])[p] = v[q[p]]
        <4>1. p \in 1 .. Len(d(t.primary)) /\ q[p] \in 1 .. Len(d(t.primary))
          BY <2>1, <2>4, <2>6
        <4>2. e(t.primary)[p] = d(t.primary)[q[p]] /\ Len(e(t.primary)) = Len(d(t.primary))
          BY <2>1, <2>4, <4>1
        <4>3. Vals(u.cols[t.primary])[p] = e(t.primary)[p].val
          BY <4>1, <4>2 DEF Vals
        <4> QED
          BY <2>6, <4>1, <4>2, <4>3
      <3>3. \A j, k \in DOMAIN v : j <= k => v[q[j]] <= v[q[k]]
        BY <2>7 DEF Ascending
      <3> HIDE DEF v
      <3> QED
        BY <2>3, <3>1, <3>2, <3>3 DEF ImageSorted, Ascending
    <2> HIDE DEF v, d, e
    <2>9. ImageBounded(t) => ImageBounded(u)
      BY <2>3, <2>4 DEF ImageBounded, d, e
    <2>10. ImageAligned(t) => ImageAligned(u)
      BY <2>3, <2>4 DEF ImageAligned, d, e
    <2>11. ASSUME ImageIntegral(t)
           PROVE  ImageIntegral(u)
      <3> SUFFICES ASSUME NEW i \in 1 .. n, NEW j \in 1 .. n, NEW p \in DOMAIN e(i)
                   PROVE  e(i)[p].row = e(j)[p].row
        BY <2>3 DEF ImageIntegral, e
      <3>1. /\ p \in 1 .. Len(d(i)) /\ p \in 1 .. Len(d(j))
            /\ q[p] \in DOMAIN d(i) /\ q[p] \in DOMAIN d(j)
        BY <2>1, <2>4, <2>5
      <3>2. d(i)[q[p]].row = d(j)[q[p]].row
        BY <2>11, <3>1 DEF ImageIntegral, d
      <3> QED
        BY <2>4, <3>1, <3>2
    <2>12. ASSUME ImageComplete(t)
           PROVE  ImageComplete(u)
      <3> SUFFICES ASSUME NEW i \in 1 .. n
                   PROVE  /\ \A p \in DOMAIN e(i) : e(i)[p].row \in 1 .. Len(e(i))
                          /\ \A p, r \in DOMAIN e(i) : e(i)[p].row = e(i)[r].row => p = r
        BY <2>3 DEF ImageComplete, e
      <3>1. /\ \A p \in DOMAIN d(i) : d(i)[p].row \in 1 .. Len(d(i))
            /\ \A p, r \in DOMAIN d(i) : d(i)[p].row = d(i)[r].row => p = r
        BY <2>12 DEF ImageComplete, d
      <3>2. DOMAIN e(i) = DOMAIN d(i) /\ DOMAIN d(i) = DOMAIN v /\ Len(e(i)) = Len(d(i))
        BY <2>1, <2>4, <2>5, <2>6
      <3>3. \A p \in DOMAIN d(i) : q[p] \in DOMAIN d(i) /\ e(i)[p] = d(i)[q[p]]
        BY <2>4, <2>5
      <3> QED
        BY <2>7, <3>1, <3>2, <3>3
    <2>13. ASSUME ImageShifted(t)
           PROVE  ImageShifted(u)
      <3> SUFFICES ASSUME NEW i \in 1 .. n
                   PROVE  /\ NumRows(u) - Len(e(i)) >= 0
                          /\ \A p \in DOMAIN e(i) :
                               e(i)[p].row = e(1)[NumRows(u) - Len(e(i)) + p].row
        BY <2>3 DEF ImageShifted, e
      <3>1. 1 \in 1 .. n /\ t.cols # <<>> /\ u.cols # <<>>
        BY <2>1, <2>3
      <3>2. NumRows(t) = Len(d(1)) /\ NumRows(u) = Len(e(1))
        BY <3>1 DEF NumRows, d, e
      <3>3. Len(d(i)) = Len(d(1)) /\ Len(e(i)) = Len(d(i)) /\ Len(e(1)) = Len(d(1))
        BY <2>4, <2>5, <3>1
      <3>4. Len(d(1)) \in Nat /\ DOMAIN e(i) = 1 .. Len(d(1)) /\ DOMAIN d(i) = 1 .. Len(d(1))
        BY <2>5, <3>1, <3>3
      <3>5. NumRows(t) - Len(d(i)) = 0 /\ NumRows(u) - Len(e(i)) = 0
        BY <3>2, <3>3, <3>4
      <3>6. \A p \in DOMAIN d(i) : d(i)[p].row = d(1)[NumRows(t) - Len(d(i)) + p].row
        BY <2>13 DEF ImageShifted, d
      <3>7. \A p \in 1 .. Len(d(1)) : d(i)[p].row = d(1)[p].row
        BY <3>4, <3>5, <3>6
      <3>8. \A p \in 1 .. Len(d(1)) : e(i)[p].row = e(1)[p].row
        BY <2>4, <3>1, <3>3, <3>7
      <3> QED
        BY <3>4, <3>5, <3>8
    <2> QED
      BY <2>3, <2>4, <2>8, <2>9, <2>10, <2>11, <2>12, <2>13
  <1> QED
    BY <1>1, <1>2

---------------------------------------------------------------------------
(* Layer 2, continued: the other handlers.                                 *)

\* ImageShifted, column by column.
ShiftedBy(data, first, rows) ==
  /\ rows - Len(data) >= 0
  /\ \A p \in DOMAIN data : data[p].row = first[rows - Len(data) + p].row

LEMMA EachShifted ==
  ASSUME NEW t
  PROVE  ImageShifted(t) <=>
           \A i \in 1 .. Len(t.cols) : ShiftedBy(t.cols[i].data, t.cols[1].data, NumRows(t))
  BY DEF ImageShifted, ShiftedBy

\* A column without values is behind by all rows.
LEMMA EmptyShifted ==
  ASSUME NEW first, NEW rows \in Nat
  PROVE  ShiftedBy(<<>>, first, rows)
  <1>1. Len(<<>>) = 0 /\ DOMAIN <<>> = {}
    OBVIOUS
  <1> QED
    BY <1>1 DEF ShiftedBy

\* Every predicate holds of a table without columns.
LEMMA EmptyTableOK ==
  /\ ImageOK(EmptyTable)
  /\ ImageSorted(EmptyTable)
  /\ ImageBounded(EmptyTable)
  /\ ImageAligned(EmptyTable)
  /\ ImageIntegral(EmptyTable)
  /\ ImageComplete(EmptyTable)
  /\ ImageFresh(EmptyTable)
  /\ ImageShifted(EmptyTable)
  BY DEF EmptyTable, ImageOK, ImageSorted, ImageBounded, ImageAligned, ImageIntegral,
         ImageComplete, ImageFresh, ImageShifted

\* A new column is empty and has no index, so that it needs nothing of the rows
\* that are there; only alignment does, and then there must be none.
LEMMA NewColumnKeeps ==
  ASSUME NEW t, ImageOK(t), NEW type \in ColumnType,
         NEW u, u = [cols |-> Append(t.cols, [type |-> type, data |-> <<>>, index |-> NoIndex]),
                     primary |-> PrimaryAfter(t, type)]
  PROVE  /\ ImageOK(u)
         /\ ImageSorted(t) => ImageSorted(u)
         /\ ImageBounded(t) => ImageBounded(u)
         /\ ImageAligned(t) /\ NumRows(t) = 0 => ImageAligned(u)
         /\ ImageIntegral(t) => ImageIntegral(u)
         /\ ImageComplete(t) => ImageComplete(u)
         /\ ImageFresh(t) => ImageFresh(u)
         /\ ImageShifted(t) => ImageShifted(u)
  <1> DEFINE n == Len(t.cols)
             new == [type |-> type, data |-> <<>>, index |-> NoIndex]
  <1>1. n \in Nat /\ t.cols \in Seq(Column) /\ t.primary \in 0 .. n
    BY DEF ImageOK
  <1>2. new \in Column
    BY DEF Column, Index, NoIndex
  <1>3. /\ u.cols \in Seq(Column)
        /\ Len(u.cols) = n + 1
        /\ \A i \in 1 .. n : u.cols[i] = t.cols[i]
        /\ u.cols[n + 1] = new
    BY <1>1, <1>2
  <1>4. u.primary = IF type = "PRIMARY" THEN n + 1 ELSE t.primary
    BY DEF PrimaryAfter
  <1>5. ImageOK(u)
    BY <1>1, <1>2, <1>3, <1>4 DEF ImageOK
  <1>6. /\ new.data = <<>> /\ Len(new.data) = 0 /\ DOMAIN new.data = {}
        /\ new.index.type = "NO_INDEX" /\ new.index.entries = {}
        /\ new.type = type
    BY DEF NoIndex
  <1> HIDE DEF new
  <1>7. ImageSorted(t) => ImageSorted(u)
    <2>1. CASE type = "PRIMARY"
      <3>1. u.cols[u.primary] = new
        BY <1>3, <1>4, <2>1
      <3>2. DOMAIN Vals(new) = {}
        <4>1. DOMAIN Vals(new) = 1 .. Len(new.data)
          BY DEF Vals
        <4> QED
          BY <1>6, <4>1
      <3> QED
        BY <3>1, <3>2 DEF ImageSorted, Ascending
    <2>2. CASE type # "PRIMARY"
      BY <1>1, <1>3, <1>4, <2>2 DEF ImageSorted
    <2> QED
      BY <2>1, <2>2
  <1>8. ImageBounded(t) => ImageBounded(u)
    BY <1>1, <1>3, <1>6 DEF ImageBounded
  <1>9. ASSUME ImageAligned(t), NumRows(t) = 0
        PROVE  ImageAligned(u)
    <2>1. ASSUME NEW i \in 1 .. n
          PROVE  Len(t.cols[i].data) = 0
      BY <1>1, <1>9 DEF ImageAligned, NumRows
    <2> QED
      BY <1>1, <1>3, <1>6, <2>1 DEF ImageAligned
  <1>10. ImageIntegral(t) => ImageIntegral(u)
    BY <1>1, <1>3, <1>6 DEF ImageIntegral
  <1>11. ImageComplete(t) => ImageComplete(u)
    BY <1>1, <1>3, <1>6 DEF ImageComplete
  <1>12. ImageFresh(t) => ImageFresh(u)
    BY <1>1, <1>3, <1>6 DEF ImageFresh
  <1>13. ASSUME ImageShifted(t)
         PROVE  ImageShifted(u)
    <2>1. CASE n = 0
      <3>1. Len(u.cols) = 1 /\ u.cols[1] = new
        BY <1>3, <2>1
      <3>2. u.cols # <<>>
        BY <3>1
      <3>3. NumRows(u) = 0
        BY <1>6, <3>1, <3>2 DEF NumRows
      <3>4. ShiftedBy(u.cols[1].data, u.cols[1].data, NumRows(u))
        BY <1>6, <3>1, <3>3, EmptyShifted
      <3>5. \A i \in 1 .. Len(u.cols) : ShiftedBy(u.cols[i].data, u.cols[1].data, NumRows(u))
        <4>1. \A i \in 1 .. Len(u.cols) : i = 1
          BY <3>1
        <4> QED
          BY <3>4, <4>1
      <3> QED
        BY <3>5, EachShifted
    <2>2. CASE n # 0
      <3>1. u.cols # <<>> /\ t.cols # <<>> /\ 1 \in 1 .. n
        BY <1>1, <1>3, <2>2
      <3>2. u.cols[1] = t.cols[1] /\ NumRows(u) = NumRows(t) /\ NumRows(t) \in Nat
        BY <1>3, <3>1, NumRowsNat DEF NumRows
      <3>3. ASSUME NEW i \in 1 .. n
            PROVE  ShiftedBy(u.cols[i].data, u.cols[1].data, NumRows(u))
        <4>1. ShiftedBy(t.cols[i].data, t.cols[1].data, NumRows(t))
          BY <1>13, EachShifted
        <4>2. u.cols[i] = t.cols[i]
          BY <1>3
        <4> QED
          BY <3>2, <4>1, <4>2
      <3>4. ShiftedBy(u.cols[n + 1].data, u.cols[1].data, NumRows(u))
        <4>1. u.cols[n + 1].data = <<>>
          BY <1>3, <1>6
        <4>2. NumRows(u) \in Nat
          BY <3>2
        <4> QED
          BY <4>1, <4>2, EmptyShifted
      <3>5. \A i \in 1 .. n + 1 : i \in 1 .. n \/ i = n + 1
        BY <1>1
      <3> QED
        BY <1>3, <3>3, <3>4, <3>5, EachShifted
    <2> QED
      BY <2>1, <2>2
  <1> QED
    BY <1>5, <1>7, <1>8, <1>9, <1>10, <1>11, <1>12, <1>13

\* Building an index touches that index only, and builds it from its column.
LEMMA NewIndexKeeps ==
  ASSUME NEW t, ImageOK(t), NEW i \in 1 .. Len(t.cols), NEW kind \in IndexKind,
         NEW u, u = [t EXCEPT !.cols[i].index =
                       [type |-> kind, entries |-> IndexEntries(t.cols[i])]]
  PROVE  /\ ImageOK(u)
         /\ ImageSorted(t) => ImageSorted(u)
         /\ ImageBounded(t) => ImageBounded(u)
         /\ ImageAligned(t) => ImageAligned(u)
         /\ ImageIntegral(t) => ImageIntegral(u)
         /\ ImageComplete(t) => ImageComplete(u)
         /\ ImageFresh(t) => ImageFresh(u)
         /\ ImageShifted(t) => ImageShifted(u)
  <1> DEFINE n == Len(t.cols)
             new == [type |-> kind, entries |-> IndexEntries(t.cols[i])]
             col == [t.cols[i] EXCEPT !.index = new]
  <1>1. n \in Nat /\ t.cols \in Seq(Column) /\ t.cols[i] \in Column
        /\ t \in [cols : Seq(Column), primary : Nat]
    BY DEF ImageOK
  <1>2. /\ IndexEntries(t.cols[i]) \subseteq [pos : Nat, val : Val]
        /\ \A x \in IndexEntries(t.cols[i]) : x.pos \in 1 .. Len(t.cols[i].data)
    <2>1. t.cols[i].data \in Seq(Cell)
      BY <1>1 DEF Column
    <2>2. ASSUME NEW p \in 1 .. Len(t.cols[i].data)
          PROVE  t.cols[i].data[p].val \in Val /\ p \in Nat
      <3>1. t.cols[i].data[p] \in Cell
        BY <2>1, ElementOfSeq
      <3> QED
        BY <2>1, <3>1 DEF Cell
    <2> QED
      BY <2>2 DEF IndexEntries
  <1>3. new \in Index
    BY <1>2 DEF Index
  <1>4. col \in Column /\ col.type = t.cols[i].type /\ col.data = t.cols[i].data /\ col.index = new
    BY <1>1, <1>3 DEF Column
  <1>5. u = [t EXCEPT !.cols = [t.cols EXCEPT ![i] = col]]
    OBVIOUS
  <1> HIDE DEF col
  <1>6. /\ u.cols = [t.cols EXCEPT ![i] = col]
        /\ u.primary = t.primary
        /\ u \in [cols : Seq(Column), primary : Nat]
        /\ Len(u.cols) = n
        /\ \A j \in 1 .. n : u.cols[j] = IF j = i THEN col ELSE t.cols[j]
    <2>1. /\ [t.cols EXCEPT ![i] = col] \in Seq(Column)
          /\ Len([t.cols EXCEPT ![i] = col]) = n
          /\ \A j \in 1 .. n :
               [t.cols EXCEPT ![i] = col][j] = IF j = i THEN col ELSE t.cols[j]
      BY <1>1, <1>4, ExceptSeq
    <2>2. u.cols = [t.cols EXCEPT ![i] = col] /\ u.primary = t.primary
      BY <1>1, <1>5
    <2>3. u = [cols |-> [t.cols EXCEPT ![i] = col], primary |-> t.primary]
      BY <1>1, <1>5
    <2> QED
      BY <1>1, <2>1, <2>2, <2>3
  <1>7. /\ \A j \in 1 .. n : u.cols[j].data = t.cols[j].data /\ u.cols[j].type = t.cols[j].type
        /\ \A j \in 1 .. n : j # i => u.cols[j].index = t.cols[j].index
        /\ u.cols[i].index.type = kind
        /\ u.cols[i].index.entries = IndexEntries(t.cols[i])
    BY <1>4, <1>6
  <1>8. ImageOK(u)
    BY <1>1, <1>6, <1>7 DEF ImageOK
  <1>9. ImageSorted(t) => ImageSorted(u)
    <2> SUFFICES ASSUME ImageSorted(t), t.primary > 0
                 PROVE  Ascending(Vals(u.cols[t.primary]))
      BY <1>6 DEF ImageSorted
    <2>1. t.primary \in 1 .. n
      BY <1>1 DEF ImageOK
    <2>2. Vals(u.cols[t.primary]) = Vals(t.cols[t.primary])
      BY <1>7, <2>1 DEF Vals
    <2> QED
      BY <2>2 DEF ImageSorted
  <1>10. ImageBounded(t) => ImageBounded(u)
    BY <1>2, <1>6, <1>7 DEF ImageBounded
  <1>11. ImageAligned(t) => ImageAligned(u)
    BY <1>6, <1>7 DEF ImageAligned
  <1>12. ImageIntegral(t) => ImageIntegral(u)
    BY <1>6, <1>7 DEF ImageIntegral
  <1>13. ImageComplete(t) => ImageComplete(u)
    <2> SUFFICES ASSUME ImageComplete(t), NEW j \in 1 .. n
                 PROVE  LET data == u.cols[j].data
                        IN  /\ \A p \in DOMAIN data : data[p].row \in 1 .. Len(data)
                            /\ \A p, q \in DOMAIN data : data[p].row = data[q].row => p = q
      BY <1>6 DEF ImageComplete
    <2>1. u.cols[j].data = t.cols[j].data
      BY <1>7
    <2> QED
      BY SMTT(30), <2>1 DEF ImageComplete
  <1>14. ImageFresh(t) => ImageFresh(u)
    <2> SUFFICES ASSUME ImageFresh(t), NEW j \in 1 .. n, u.cols[j].index.type # "NO_INDEX"
                 PROVE  u.cols[j].index.entries = IndexEntries(u.cols[j])
      BY <1>6 DEF ImageFresh
    <2>1. IndexEntries(u.cols[j]) = IndexEntries(t.cols[j])
      BY <1>7 DEF IndexEntries
    <2>2. CASE j = i
      BY <1>7, <2>1, <2>2
    <2>3. CASE j # i
      BY <1>7, <2>1, <2>3 DEF ImageFresh
    <2> QED
      BY <2>2, <2>3
  <1>15. ASSUME ImageShifted(t)
         PROVE  ImageShifted(u)
    <2>1. NumRows(u) = NumRows(t)
      <3>1. CASE n = 0
        BY <1>1, <1>6, <3>1 DEF NumRows
      <3>2. CASE n # 0
        <4>1. u.cols # <<>> /\ t.cols # <<>> /\ 1 \in 1 .. n
          BY <1>1, <1>6, <3>2
        <4> QED
          BY <1>7, <4>1 DEF NumRows
      <3> QED
        BY <3>1, <3>2
    <2>2. ASSUME NEW j \in 1 .. n
          PROVE  ShiftedBy(u.cols[j].data, u.cols[1].data, NumRows(u))
      <3>1. u.cols[j].data = t.cols[j].data /\ u.cols[1].data = t.cols[1].data
        BY <1>1, <1>7
      <3>2. ShiftedBy(t.cols[j].data, t.cols[1].data, NumRows(t))
        BY <1>15, EachShifted
      <3> QED
        BY <2>1, <3>1, <3>2
    <2> QED
      BY <1>6, <2>2, EachShifted
  <1> QED
    BY <1>8, <1>9, <1>10, <1>11, <1>12, <1>13, <1>14, <1>15

---------------------------------------------------------------------------
(* Layer 3: the inductive invariant, one case per action, the theorems.    *)

\* Sortedness needs the types and the alignment of what is sorted; alignment,
\* integrity and completeness need one another at an append.  What a promise
\* owes to the documented order of commands it has as a hypothesis.
ImageInv(t) ==
  /\ ImageOK(t) /\ ImageSorted(t) /\ ImageBounded(t) /\ ImageShifted(t)
  /\ "late_column" \notin Usage => ImageAligned(t) /\ ImageIntegral(t) /\ ImageComplete(t)
  /\ "load_after_index" \notin Usage => ImageFresh(t)

IInv == ImageInv(tbl) /\ ImageInv(disk) /\ up \in BOOLEAN

\* An append and the sort after it keep the invariant of the image, unless the
\* sort fails, if no column has an index or clients load after building one.
LEMMA GrowKeeps ==
  ASSUME NEW t, ImageInv(t), NEW batch \in Seq(Row(t)),
         ~SortFails(AppendRows(t, batch)), NEW u \in SortedTables(AppendRows(t, batch)),
         \/ \A i \in 1 .. Len(t.cols) : t.cols[i].index.type = "NO_INDEX"
         \/ "load_after_index" \in Usage
  PROVE  ImageInv(u)
  <1> DEFINE w == AppendRows(t, batch)
  <1>1. ImageOK(w) /\ Len(w.cols) = Len(t.cols)
        /\ \A i \in 1 .. Len(t.cols) : w.cols[i].index = t.cols[i].index
    BY AppendShape DEF ImageInv
  <1>2. /\ ImageBounded(w)
        /\ ImageAligned(t) => ImageAligned(w)
        /\ ImageAligned(t) /\ ImageIntegral(t) => ImageIntegral(w)
        /\ ImageAligned(t) /\ ImageComplete(t) => ImageComplete(w)
        /\ ImageShifted(w)
    BY AppendKeeps DEF ImageInv
  <1> HIDE DEF w
  <1>3. /\ ImageOK(u) /\ ImageSorted(u)
        /\ Len(u.cols) = Len(w.cols)
        /\ \A i \in 1 .. Len(w.cols) : u.cols[i].index = w.cols[i].index
        /\ ImageBounded(w) => ImageBounded(u)
        /\ ImageAligned(w) => ImageAligned(u)
        /\ ImageIntegral(w) => ImageIntegral(u)
        /\ ImageComplete(w) => ImageComplete(u)
        /\ ImageShifted(w) => ImageShifted(u)
    <2>1. ~SortFails(w) /\ u \in SortedTables(w)
      BY DEF w
    <2> QED
      BY <1>1, <2>1, SortKeeps
  <1>4. "load_after_index" \notin Usage => ImageFresh(u)
    BY <1>1, <1>3 DEF ImageFresh
  <1> QED
    BY <1>2, <1>3, <1>4 DEF ImageInv

\* The invariant holds at the start.
LEMMA InvInit == Init => IInv
  BY EmptyTableOK DEF Init, IInv, ImageInv

\* A process that dies leaves an empty memory image and the persisted one.
LEMMA DieKeeps == IInv /\ Die => IInv'
  BY EmptyTableOK DEF IInv, ImageInv, Die

\* A step of a client that adds rows: unless the server dies of it, it appends a
\* batch and sorts, all columns being of one length, and either no column has an
\* index or clients load after building one.
Grows(batch) ==
  /\ ~SortFails(AppendRows(tbl, batch))
  /\ tbl' \in SortedTables(AppendRows(tbl, batch))
  /\ \/ \A i \in 1 .. Len(tbl.cols) : tbl.cols[i].index.type = "NO_INDEX"
     \/ "load_after_index" \in Usage
  /\ UNCHANGED <<disk, up>>

LEMMA InsertGrows ==
  ASSUME ImageInv(tbl), NEW row \in Row(tbl), RelationalInsert(row)
  PROVE  Die \/ \E batch \in Seq(Row(tbl)) : Grows(batch)
  <1>1. CASE InsertFails(tbl)
    BY <1>1 DEF RelationalInsert
  <1>2. CASE ~InsertFails(tbl)
    <2> DEFINE w == AppendRows(tbl, <<row>>)
    <2>1. <<row>> \in Seq(Row(tbl))
      OBVIOUS
    <2>2. /\ Len(w.cols) = Len(tbl.cols)
          /\ w.primary = tbl.primary
          /\ \A i \in 1 .. Len(tbl.cols) :
               /\ Len(Added(tbl, <<row>>, i)) = 1
               /\ Added(tbl, <<row>>, i) \in Seq(Cell)
               /\ w.cols[i].data = tbl.cols[i].data \o Added(tbl, <<row>>, i)
      BY <2>1, AppendShape DEF ImageInv
    <2>3. ASSUME NEW i \in 1 .. Len(tbl.cols)
          PROVE  Len(tbl.cols[i].data) = NumRows(tbl)
      <3>1. CASE i = 1
        BY <3>1 DEF NumRows, ImageInv, ImageOK
      <3>2. CASE i # 1
        <4>1. i \in 2 .. Len(tbl.cols)
          BY <3>2 DEF ImageInv, ImageOK
        <4> QED
          BY <1>2, <4>1 DEF InsertFails
      <3> QED
        BY <3>1, <3>2
    <2>4. ASSUME NEW i \in 1 .. Len(tbl.cols)
          PROVE  Len(w.cols[i].data) = NumRows(tbl) + 1
      <3>1. tbl.cols \in Seq(Column)
        BY DEF ImageInv, ImageOK
      <3>2. tbl.cols[i] \in Column
        BY <3>1, ElementOfSeq
      <3>3. tbl.cols[i].data \in Seq(Cell)
        BY <3>2 DEF Column
      <3>4. Len(tbl.cols[i].data \o Added(tbl, <<row>>, i)) = Len(tbl.cols[i].data) + 1
        <4> DEFINE s1 == tbl.cols[i].data
                   s2 == Added(tbl, <<row>>, i)
        <4>1. s1 \in Seq(Cell) /\ s2 \in Seq(Cell) /\ Len(s2) = 1
          BY <2>2, <3>3
        <4> HIDE DEF s1, s2
        <4>2. Len(s1 \o s2) = Len(s1) + Len(s2)
          BY <4>1, ConcatProperties
        <4> QED
          BY <4>1, <4>2 DEF s1, s2
      <3> QED
        BY <2>2, <2>3, <3>4
    <2>5. ~SortFails(w)
      <3>1. tbl.primary > 0 => tbl.primary \in 1 .. Len(tbl.cols)
        BY DEF ImageInv, ImageOK
      <3> HIDE DEF w
      <3> QED
        BY <2>2, <2>4, <3>1 DEF SortFails
    <2>6. tbl' \in SortedTables(w) /\ UNCHANGED <<disk, up>>
      BY <1>2 DEF RelationalInsert
    <2>7. \A i \in 1 .. Len(tbl.cols) : tbl.cols[i].index.type = "NO_INDEX"
      BY <1>2 DEF InsertFails
    <2> QED
      BY <2>1, <2>5, <2>6, <2>7 DEF Grows
  <1> QED
    BY <1>1, <1>2

LEMMA LoadGrows ==
  ASSUME NEW batch \in Batches(tbl), Load(batch)
  PROVE  Die \/ (batch \in Seq(Row(tbl)) /\ Grows(batch))
  <1>1. CASE SortFails(AppendRows(tbl, batch))
    BY <1>1 DEF Load
  <1>2. CASE ~SortFails(AppendRows(tbl, batch))
    <2>1. batch \in Seq(Row(tbl))
      <3>1. PICK n \in 0 .. MaxBatch : batch \in [1 .. n -> Row(tbl)]
        BY DEF Batches
      <3> QED
        BY <3>1, BoundAssumption, FunctionIsSeq
    <2> QED
      BY <1>2, <2>1 DEF Load, Grows
  <1> QED
    BY <1>1, <1>2

\* Every action keeps the invariant.
LEMMA InvStep == IInv /\ [Next]_vars => IInv'
  <1> SUFFICES ASSUME IInv, [Next]_vars
               PROVE  IInv'
    OBVIOUS
  <1> USE DEF IInv
  <1>1. ASSUME NEW type \in ColumnType, CreateColumn(type)
        PROVE  IInv'
    <2>1. ImageOK(tbl')
          /\ (ImageSorted(tbl) => ImageSorted(tbl'))
          /\ (ImageBounded(tbl) => ImageBounded(tbl'))
          /\ (ImageAligned(tbl) /\ NumRows(tbl) = 0 => ImageAligned(tbl'))
          /\ (ImageIntegral(tbl) => ImageIntegral(tbl'))
          /\ (ImageComplete(tbl) => ImageComplete(tbl'))
          /\ (ImageFresh(tbl) => ImageFresh(tbl'))
          /\ (ImageShifted(tbl) => ImageShifted(tbl'))
      <3>1. ImageOK(tbl)
            /\ tbl' = [cols |-> Append(tbl.cols, [type |-> type, data |-> <<>>, index |-> NoIndex]),
                       primary |-> PrimaryAfter(tbl, type)]
        BY <1>1 DEF CreateColumn, ImageInv
      <3> QED
        BY <3>1, NewColumnKeeps
    <2>2. NumRows(tbl) = 0 \/ "late_column" \in Usage
      BY <1>1 DEF CreateColumn
    <2>3. ImageInv(tbl')
      BY <2>1, <2>2 DEF ImageInv
    <2> QED
      BY <1>1, <2>3 DEF CreateColumn
  <1>2. ASSUME NEW i \in 1 .. Len(tbl.cols), NEW kind \in IndexKind, CreateIndex(i, kind)
        PROVE  IInv'
    <2>1. ImageOK(tbl')
          /\ (ImageSorted(tbl) => ImageSorted(tbl'))
          /\ (ImageBounded(tbl) => ImageBounded(tbl'))
          /\ (ImageAligned(tbl) => ImageAligned(tbl'))
          /\ (ImageIntegral(tbl) => ImageIntegral(tbl'))
          /\ (ImageComplete(tbl) => ImageComplete(tbl'))
          /\ (ImageFresh(tbl) => ImageFresh(tbl'))
          /\ (ImageShifted(tbl) => ImageShifted(tbl'))
      <3>1. ImageOK(tbl)
            /\ tbl' = [tbl EXCEPT !.cols[i].index =
                         [type |-> kind, entries |-> IndexEntries(tbl.cols[i])]]
        BY <1>2 DEF CreateIndex, ImageInv
      <3> QED
        BY <3>1, NewIndexKeeps
    <2>2. ImageInv(tbl')
      BY <2>1 DEF ImageInv
    <2> QED
      BY <1>2, <2>2 DEF CreateIndex
  <1>3. ASSUME NEW batch \in Seq(Row(tbl)), Grows(batch)
        PROVE  IInv'
    <2>1. ImageInv(tbl')
      BY <1>3, GrowKeeps DEF Grows
    <2> QED
      BY <1>3, <2>1 DEF Grows
  <1>4. ASSUME NEW row \in Row(tbl), RelationalInsert(row)
        PROVE  IInv'
    BY <1>3, <1>4, InsertGrows, DieKeeps
  <1>5. ASSUME NEW batch \in Batches(tbl), Load(batch)
        PROVE  IInv'
    BY <1>3, <1>5, LoadGrows, DieKeeps
  <1>6. CASE Shutdown
    <2>1. ImageInv(EmptyTable)
      BY EmptyTableOK DEF ImageInv
    <2> QED
      BY <1>6, <2>1 DEF Shutdown
  <1>7. CASE Restart
    BY <1>7 DEF Restart
  <1>8. CASE Crash
    BY <1>8, DieKeeps DEF Crash
  <1>9. CASE UNCHANGED vars
    BY <1>9 DEF vars
  <1> QED
    BY <1>1, <1>2, <1>4, <1>5, <1>6, <1>7, <1>8, <1>9 DEF Next

\* The invariant holds in every reachable state.
THEOREM Invariance == Spec => []IInv
  BY InvInit, InvStep, PTL DEF Spec

\* Type correctness, for every order of commands.
THEOREM TypeCorrect == Spec => []TypeOK
  <1>1. IInv => TypeOK
    BY DEF IInv, ImageInv, TypeOK
  <1> QED
    BY <1>1, Invariance, PTL

\* The primary column that the table sorts by is ascending after every insert,
\* load and restart, whatever order of commands the client chose.
THEOREM PrimaryStaysSorted == Spec => []PrimarySorted
  <1>1. IInv => PrimarySorted
    BY DEF IInv, ImageInv, PrimarySorted
  <1> QED
    BY <1>1, Invariance, PTL

\* No index ever points past its column, whatever order of commands the client
\* chose, so stale indexes included.
THEOREM IndexesStayInBounds == Spec => []IndexInBounds
  <1>1. IInv => IndexInBounds
    BY DEF IInv, ImageInv, IndexInBounds
  <1> QED
    BY <1>1, Invariance, PTL

\* Whatever order of commands the client chose, a late column is behind by the rows
\* that were there when it was created and paired wrongly in no other way.
THEOREM LateColumnsStayBehind == Spec => []LateColumnsBehind
  <1>1. IInv => LateColumnsBehind
    BY DEF IInv, ImageInv, LateColumnsBehind
  <1> QED
    BY <1>1, Invariance, PTL

\* If clients create columns only before rows, the columns keep one length.
THEOREM ColumnsStayAligned ==
  ASSUME "late_column" \notin Usage
  PROVE  Spec => []Aligned
  <1>1. IInv => Aligned
    BY DEF IInv, ImageInv, Aligned
  <1> QED
    BY <1>1, Invariance, PTL

\* If clients create columns only before rows, no insert, load, sort or restart
\* mixes the values of two rows.
THEOREM RowsStayWhole ==
  ASSUME "late_column" \notin Usage
  PROVE  Spec => []RowIntegrity
  <1>1. IInv => RowIntegrity
    BY DEF IInv, ImageInv, RowIntegrity
  <1> QED
    BY <1>1, Invariance, PTL

\* If clients create columns only before rows, no column loses a row or has it
\* twice.
THEOREM RowsStayComplete ==
  ASSUME "late_column" \notin Usage
  PROVE  Spec => []RowsComplete
  <1>1. IInv => RowsComplete
    BY DEF IInv, ImageInv, RowsComplete
  <1> QED
    BY <1>1, Invariance, PTL

\* If clients load only into tables without an index, every index is up to date.
THEOREM IndexesStayFresh ==
  ASSUME "load_after_index" \notin Usage
  PROVE  Spec => []IndexFresh
  <1>1. IInv => IndexFresh
    BY DEF IInv, ImageInv, IndexFresh
  <1> QED
    BY <1>1, Invariance, PTL

-----------------------------------------------------------------------------
(***************************************************************************)
(* What TableStore promises a client, for every value of its constants:    *)
(* selects that are sound, and the rows of RowStore.  Both rest on the     *)
(* invariant proved above.                                                 *)
(***************************************************************************)

---------------------------------------------------------------------------
(* Selects.  Their answers rest on one thing more: the column that a select *)
(* bisects, one of type PRIMARY, is the one that the table is sorted by.    *)

OnlyPrimary(t) == \A i \in 1 .. Len(t.cols) : t.cols[i].type = "PRIMARY" => t.primary = i

\* Nothing but create_column changes a type or the primary column.
LEMMA GrowKeepsTypes ==
  ASSUME NEW t, ImageOK(t), NEW batch \in Seq(Row(t)),
         ~SortFails(AppendRows(t, batch)), NEW u \in SortedTables(AppendRows(t, batch))
  PROVE  /\ Len(u.cols) = Len(t.cols) /\ u.primary = t.primary
         /\ \A i \in 1 .. Len(t.cols) : u.cols[i].type = t.cols[i].type
  <1> DEFINE w == AppendRows(t, batch)
  <1>1. /\ ImageOK(w) /\ Len(w.cols) = Len(t.cols) /\ w.primary = t.primary
        /\ \A i \in 1 .. Len(t.cols) : w.cols[i].type = t.cols[i].type
    BY AppendShape
  <1>2. CASE w.primary = 0
    BY <1>1, <1>2 DEF SortedTables
  <1>3. CASE w.primary # 0
    <2>1. w.primary > 0
      BY <1>1, <1>3 DEF ImageOK
    <2>2. PICK q \in SortedPositions(Vals(w.cols[w.primary])) : u = PermuteColumns(w, q)
      BY <1>3 DEF SortedTables
    <2>3. Len(u.cols) = Len(w.cols) /\ u.primary = w.primary /\ Rearranged(w, u, q)
      BY <1>1, <2>1, <2>2, PermuteShape
    <2> HIDE DEF w
    <2> QED
      BY <1>1, <2>3 DEF Rearranged
  <1> QED
    BY <1>2, <1>3

LEMMA OnlyPrimaryStep ==
  ASSUME "second_primary" \notin Usage, IInv, OnlyPrimary(tbl), OnlyPrimary(disk), [Next]_vars
  PROVE  OnlyPrimary(tbl') /\ OnlyPrimary(disk')
  <1>1. OnlyPrimary(EmptyTable)
    BY DEF OnlyPrimary, EmptyTable
  <1> USE DEF IInv, ImageInv
  <1>2. ASSUME Die
        PROVE  OnlyPrimary(tbl') /\ OnlyPrimary(disk')
    BY <1>1, <1>2 DEF Die
  <1>3. ASSUME NEW type \in ColumnType, CreateColumn(type)
        PROVE  OnlyPrimary(tbl') /\ OnlyPrimary(disk')
    <2> DEFINE new == [type |-> type, data |-> <<>>, index |-> NoIndex]
               n == Len(tbl.cols)
    <2>1. tbl.cols \in Seq(Column) /\ n \in Nat /\ tbl.primary \in 0 .. n
      BY DEF ImageOK
    <2>2. tbl'.cols = Append(tbl.cols, new) /\ tbl'.primary = PrimaryAfter(tbl, type) /\ disk' = disk
      BY <1>3 DEF CreateColumn
    <2>3. Len(tbl'.cols) = n + 1 /\ tbl'.cols[n + 1] = new
          /\ \A i \in 1 .. n : tbl'.cols[i] = tbl.cols[i]
      BY <2>1, <2>2, AppendProperties
    <2>4. ASSUME NEW i \in 1 .. n + 1, tbl'.cols[i].type = "PRIMARY"
          PROVE  tbl'.primary = i
      <3>1. CASE i = n + 1
        BY <2>2, <2>3, <2>4, <3>1 DEF PrimaryAfter
      <3>2. CASE i \in 1 .. n
        <4>1. tbl.primary = i
          BY <2>3, <2>4, <3>2 DEF OnlyPrimary
        <4>2. type = "UNSORTED"
          BY <1>3, <3>2, <4>1 DEF CreateColumn
        <4> QED
          BY <2>2, <4>1, <4>2 DEF PrimaryAfter
      <3> QED
        BY <2>1, <3>1, <3>2
    <2> QED
      BY <2>2, <2>3, <2>4 DEF OnlyPrimary
  <1>4. ASSUME NEW i \in 1 .. Len(tbl.cols), NEW kind \in IndexKind, CreateIndex(i, kind)
        PROVE  OnlyPrimary(tbl') /\ OnlyPrimary(disk')
    <2>1. /\ Len(tbl'.cols) = Len(tbl.cols) /\ tbl'.primary = tbl.primary /\ disk' = disk
          /\ \A k \in 1 .. Len(tbl.cols) : tbl'.cols[k].type = tbl.cols[k].type
      BY <1>4 DEF CreateIndex, ImageOK, Column
    <2> QED
      BY <2>1 DEF OnlyPrimary
  <1>5. ASSUME NEW batch \in Seq(Row(tbl)), Grows(batch)
        PROVE  OnlyPrimary(tbl') /\ OnlyPrimary(disk')
    <2>1. /\ Len(tbl'.cols) = Len(tbl.cols) /\ tbl'.primary = tbl.primary
          /\ \A i \in 1 .. Len(tbl.cols) : tbl'.cols[i].type = tbl.cols[i].type
      BY <1>5, GrowKeepsTypes DEF Grows
    <2> QED
      BY <1>5, <2>1 DEF OnlyPrimary, Grows
  <1>6. ASSUME NEW row \in Row(tbl), RelationalInsert(row)
        PROVE  OnlyPrimary(tbl') /\ OnlyPrimary(disk')
    BY <1>5, <1>6, <1>2, InsertGrows
  <1>7. ASSUME NEW batch \in Batches(tbl), Load(batch)
        PROVE  OnlyPrimary(tbl') /\ OnlyPrimary(disk')
    BY <1>5, <1>7, <1>2, LoadGrows
  <1>8. CASE Shutdown
    BY <1>1, <1>8 DEF Shutdown
  <1>9. CASE Restart
    BY <1>9 DEF Restart
  <1>10. CASE Crash
    BY <1>10, <1>2 DEF Crash
  <1>11. CASE UNCHANGED vars
    BY <1>11 DEF vars
  <1> QED
    BY <1>3, <1>4, <1>6, <1>7, <1>8, <1>9, <1>10, <1>11 DEF Next

\* Every access path finds positions of the column only: all whose value lies in
\* the half-open interval, and none whose value is outside the closed one.
LEMMA SelectOneBetween ==
  ASSUME NEW t, ImageOK(t), ImageSorted(t), ImageFresh(t), OnlyPrimary(t),
         NEW i \in 1 .. Len(t.cols), NEW low \in Val \cup {Null}, NEW high \in Val \cup {Null}
  PROVE  LET col   == t.cols[i]
             found == SelectOne(col, low, high)
         IN  /\ found \subseteq 1 .. Len(col.data)
             /\ \A p \in 1 .. Len(col.data) :
                  /\ Low(low) <= col.data[p].val /\ col.data[p].val < High(high) => p \in found
                  /\ p \in found => Low(low) <= col.data[p].val /\ col.data[p].val <= High(high)
  <1> DEFINE col == t.cols[i]
             v == Vals(col)
             l == Low(low)
             h == High(high)
             n == Len(col.data)
             found == SelectOne(col, low, high)
  <1>1. col \in Column
    BY ElementOfSeq DEF ImageOK
  <1>2. l \in Int /\ h \in Int
    BY DataAssumption DEF Low, High, Val, Null
  <1>3. v \in Seq(Val) /\ Len(v) = n /\ \A p \in 1 .. n : v[p] = col.data[p].val
    BY <1>1, ValsShape
  <1>4. v \in Seq(Int) /\ DOMAIN v = 1 .. n /\ \A p \in 1 .. n : v[p] \in Int
    BY SMTT(30), <1>3, DataAssumption DEF Val
  <1>5. col.type \in ColumnType /\ col.index.type \in IndexKind \cup {"NO_INDEX"}
    BY <1>1 DEF Column, Index
  <1> HIDE DEF col, v, l, h, n
  <1>6. CASE col.type = "PRIMARY"
    <2>1. Ascending(v)
      BY <1>6 DEF col, v, OnlyPrimary, ImageSorted
    <2>2. SelectPrimary(v, l, h) = { p \in DOMAIN v : l <= v[p] /\ v[p] <= h }
      BY <1>2, <1>4, <2>1, SelectPrimaryIsClosed
    <2>3. found = SelectPrimary(v, l, h)
      BY <1>6 DEF SelectOne, col, v, l, h
    <2>4. /\ found \subseteq 1 .. n
          /\ \A p \in 1 .. n : p \in found <=> l <= v[p] /\ v[p] <= h
      BY <1>4, <2>2, <2>3
    <2> QED
      BY SMTT(30), <1>2, <1>3, <1>4, <2>4 DEF l, h, n, col
  <1>7. CASE col.type = "UNSORTED" /\ col.index.type = "NO_INDEX"
    <2>1. found = SelectUnsorted(v, l, h)
      BY <1>7 DEF SelectOne, col, v, l, h
    <2>2. /\ found \subseteq 1 .. n
          /\ \A p \in 1 .. n : p \in found <=> l <= v[p] /\ v[p] < h
      BY <1>4, <2>1 DEF SelectUnsorted
    <2> QED
      BY SMTT(30), <1>2, <1>3, <1>4, <2>2 DEF l, h, n, col
  <1>8. CASE col.type = "UNSORTED" /\ col.index.type # "NO_INDEX"
    <2>1. col.index.entries = IndexEntries(col)
      BY <1>8 DEF ImageFresh, col
    <2>2. /\ \A e \in col.index.entries : e.pos \in 1 .. n /\ e.val = v[e.pos]
          /\ \A p \in 1 .. n : \E e \in col.index.entries : e.pos = p /\ e.val = v[p]
      <3>1. IndexEntries(col) = { [pos |-> p, val |-> v[p]] : p \in 1 .. n }
        BY <1>3 DEF IndexEntries, n
      <3> DEFINE entries == col.index.entries
      <3>2. entries = { [pos |-> p, val |-> v[p]] : p \in 1 .. n }
        BY <2>1, <3>1
      <3> HIDE DEF entries
      <3>3. \A e \in entries : e.pos \in 1 .. n /\ e.val = v[e.pos]
        BY <3>2
      <3>4. ASSUME NEW p \in 1 .. n
            PROVE  \E e \in entries : e.pos = p /\ e.val = v[p]
        <4>1. [pos |-> p, val |-> v[p]] \in entries
          BY <3>2
        <4> QED
          BY <4>1
      <3> QED
        BY <3>3, <3>4 DEF entries
    <2>3. \/ found = { e.pos : e \in { x \in col.index.entries : l <= x.val /\ x.val < h } }
          \/ found = { e.pos : e \in { x \in col.index.entries : l <= x.val /\ x.val <= h } }
      BY <1>5, <1>8 DEF SelectOne, IndexKind, col, l, h
    <2>4. /\ found \subseteq 1 .. n
          /\ \A p \in 1 .. n : /\ l <= v[p] /\ v[p] < h => p \in found
                               /\ p \in found => l <= v[p] /\ v[p] <= h
      BY SMTT(30), <1>2, <1>4, <2>2, <2>3
    <2> QED
      BY <1>3, <2>4 DEF l, h, n, col
  <1> QED
    BY <1>5, <1>6, <1>7, <1>8 DEF ColumnType, col

\* If clients keep to the documented order of commands, the rows that a client
\* fetches from any column at the positions that a select on another returned are
\* those that the range asks for, on every access path and after any inserts,
\* loads, sorts and restarts.
THEOREM QueriesStaySound ==
  ASSUME Usage = {}
  PROVE  Spec => []QuerySound
  <1>1. IInv /\ OnlyPrimary(tbl) => QuerySound
    <2> SUFFICES ASSUME IInv, OnlyPrimary(tbl),
                        NEW i \in 1 .. Len(tbl.cols), NEW j \in 1 .. Len(tbl.cols),
                        NEW low \in Val \cup {Null}, NEW high \in Val \cup {Null}
                 PROVE  LET found   == SelectOne(tbl.cols[i], low, high)
                            Open(v) == Low(low) <= v /\ v < High(high)
                            Shut(v) == Low(low) <= v /\ v <= High(high)
                        IN  /\ found \subseteq DOMAIN tbl.cols[j].data
                            /\ RowsWhere(i, Open) \subseteq Fetched(j, found)
                            /\ Fetched(j, found) \subseteq RowsWhere(i, Shut)
      BY DEF QuerySound
    <2> DEFINE di == tbl.cols[i].data
               dj == tbl.cols[j].data
               found == SelectOne(tbl.cols[i], low, high)
    <2>1. /\ ImageOK(tbl) /\ ImageSorted(tbl) /\ ImageFresh(tbl)
          /\ ImageAligned(tbl) /\ ImageIntegral(tbl)
      BY DEF IInv, ImageInv
    <2>2. di \in Seq(Cell) /\ dj \in Seq(Cell)
      <3>1. tbl.cols[i] \in Column /\ tbl.cols[j] \in Column
        BY <2>1, ElementOfSeq DEF ImageOK
      <3> QED
        BY <3>1 DEF Column
    <2>3. DOMAIN di = 1 .. Len(di) /\ DOMAIN dj = 1 .. Len(di)
      BY <2>1, <2>2 DEF ImageAligned
    <2>4. \A p \in 1 .. Len(di) : di[p].row = dj[p].row
      BY <2>1, <2>3 DEF ImageIntegral
    <2>5. /\ found \subseteq 1 .. Len(di)
          /\ \A p \in 1 .. Len(di) :
               /\ Low(low) <= di[p].val /\ di[p].val < High(high) => p \in found
               /\ p \in found => Low(low) <= di[p].val /\ di[p].val <= High(high)
      BY <2>1, SelectOneBetween
    <2> HIDE DEF di, dj, found
    <2>6. { dj[p].row : p \in found } = { di[p].row : p \in found }
      BY <2>4, <2>5
    <2>7. /\ { c.row : c \in { di[p] : p \in { q \in DOMAIN di :
                     Low(low) <= di[q].val /\ di[q].val < High(high) } } }
               \subseteq { di[p].row : p \in found }
          /\ { di[p].row : p \in found } \subseteq
               { c.row : c \in { di[p] : p \in { q \in DOMAIN di :
                     Low(low) <= di[q].val /\ di[q].val <= High(high) } } }
      BY <2>3, <2>5
    <2> QED
      BY <2>3, <2>5, <2>6, <2>7 DEF RowsWhere, Fetched, di, dj, found
  <1>2. Init => OnlyPrimary(tbl) /\ OnlyPrimary(disk)
    BY DEF Init, OnlyPrimary, EmptyTable
  <1>3. /\ IInv /\ OnlyPrimary(tbl) /\ OnlyPrimary(disk) /\ [Next]_vars
        => (OnlyPrimary(tbl) /\ OnlyPrimary(disk))'
    BY OnlyPrimaryStep
  <1> QED
    BY <1>1, <1>2, <1>3, Invariance, PTL DEF Spec

---------------------------------------------------------------------------
(* Refinement.  The rows that RowStore speaks of are read off the image by  *)
(* their numbers; each number stands at one position, in every column.      *)

RowSound(t) == ImageOK(t) /\ ImageAligned(t) /\ ImageIntegral(t) /\ ImageComplete(t)

\* A column of n values has a value of each of the rows 1 .. n: as many distinct
\* numbers as there are leave none out.
LEMMA EveryRowHeld ==
  ASSUME NEW t, RowSound(t), NEW n \in 1 .. NumRows(t)
  PROVE  \E p \in 1 .. NumRows(t) : t.cols[1].data[p].row = n
  <1> DEFINE m == NumRows(t)
             d == t.cols[1].data
             f == [p \in 1 .. m |-> d[p].row]
  <1>1. m \in Nat
    BY NumRowsNat DEF RowSound
  <1>2. t.cols # <<>> /\ m = Len(d)
    BY <1>1 DEF NumRows
  <1>3. 1 \in 1 .. Len(t.cols)
    BY <1>2 DEF RowSound, ImageOK
  <1>4. /\ \A p \in 1 .. m : d[p].row \in 1 .. m
        /\ \A p, q \in 1 .. m : d[p].row = d[q].row => p = q
    <2>1. d \in Seq(Cell)
      <3>1. t.cols[1] \in Column
        BY <1>3, ElementOfSeq DEF RowSound, ImageOK
      <3> QED
        BY <3>1 DEF Column
    <2>2. DOMAIN d = 1 .. m
      BY <1>2, <2>1
    <2> QED
      BY <1>2, <1>3, <2>2 DEF RowSound, ImageComplete
  <1>5. f \in Injection(1 .. m, 1 .. m)
    BY <1>4 DEF Injection, IsInjective
  <1>6. IsFiniteSet(1 .. m)
    BY <1>1, FS_Interval
  <1>7. f \in Surjection(1 .. m, 1 .. m)
    <2> HIDE DEF f, m
    <2> QED
      BY <1>5, <1>6, FS_Injection
  <1> QED
    BY <1>7 DEF Surjection

\* The row of a number, wherever it stands.
LEMMA RowAt ==
  ASSUME NEW t, RowSound(t), NEW p \in 1 .. NumRows(t)
  PROVE  LET n == t.cols[1].data[p].row
         IN  /\ n \in 1 .. NumRows(t)
             /\ RowsOf(t)[n] = [i \in 1 .. Len(t.cols) |-> t.cols[i].data[p].val]
             /\ RowsOf(t)[n] \in Row(t)
  <1> DEFINE m == NumRows(t)
             d == t.cols[1].data
             n == d[p].row
  <1>1. m \in Nat
    BY NumRowsNat DEF RowSound
  <1>2. t.cols # <<>> /\ m = Len(d)
    BY <1>1 DEF NumRows
  <1>3. 1 \in 1 .. Len(t.cols) /\ Len(t.cols) \in Nat
    BY <1>2 DEF RowSound, ImageOK
  <1>4. ASSUME NEW i \in 1 .. Len(t.cols)
        PROVE  /\ t.cols[i].data \in Seq(Cell)
               /\ DOMAIN t.cols[i].data = 1 .. m
               /\ t.cols[i].data[p].val \in Val
    <2>1. t.cols[i] \in Column
      BY ElementOfSeq DEF RowSound, ImageOK
    <2>2. t.cols[i].data \in Seq(Cell)
      BY <2>1 DEF Column
    <2>3. Len(t.cols[i].data) = m
      BY <1>2, <1>3 DEF RowSound, ImageAligned
    <2>4. t.cols[i].data[p] \in Cell
      BY <2>2, <2>3, ElementOfSeq
    <2> QED
      BY <2>2, <2>3, <2>4 DEF Cell
  <1>5. /\ n \in 1 .. m
        /\ \A q \in 1 .. m : d[q].row = n => q = p
    BY <1>2, <1>3, <1>4 DEF RowSound, ImageComplete
  <1>6. (CHOOSE q \in 1 .. m : d[q].row = n) = p
    BY <1>5
  <1>7. RowsOf(t)[n] = [i \in 1 .. Len(t.cols) |-> t.cols[i].data[p].val]
    BY <1>5, <1>6 DEF RowsOf
  <1> QED
    BY <1>4, <1>5, <1>7 DEF Row

\* The rows of a sound image are a sequence of rows.
LEMMA RowsShape ==
  ASSUME NEW t, RowSound(t)
  PROVE  /\ RowsOf(t) \in Seq(Row(t)) /\ Len(RowsOf(t)) = NumRows(t)
         /\ DOMAIN RowsOf(t) = 1 .. NumRows(t)
  <1>1. NumRows(t) \in Nat
    BY NumRowsNat DEF RowSound
  <1>2. ASSUME NEW n \in 1 .. NumRows(t)
        PROVE  RowsOf(t)[n] \in Row(t)
    <2>1. PICK p \in 1 .. NumRows(t) : t.cols[1].data[p].row = n
      BY EveryRowHeld
    <2> QED
      BY <2>1, RowAt
  <1>3. RowsOf(t) \in [1 .. NumRows(t) -> Row(t)]
    BY <1>2 DEF RowsOf
  <1> QED
    BY <1>1, <1>3, FunctionIsSeq

\* Images that hold, for each position of t, the same cells at one position of u.
Carries(t, u) ==
  \A p \in 1 .. NumRows(t) : \E q \in 1 .. NumRows(u) :
    \A i \in 1 .. Len(t.cols) : u.cols[i].data[q] = t.cols[i].data[p]

LEMMA CarriedRows ==
  ASSUME NEW t, RowSound(t), NEW u, RowSound(u), Len(u.cols) = Len(t.cols), Carries(t, u)
  PROVE  \A n \in 1 .. NumRows(t) : n \in 1 .. NumRows(u) /\ RowsOf(u)[n] = RowsOf(t)[n]
  <1> SUFFICES ASSUME NEW n \in 1 .. NumRows(t)
               PROVE  n \in 1 .. NumRows(u) /\ RowsOf(u)[n] = RowsOf(t)[n]
    OBVIOUS
  <1>1. PICK p \in 1 .. NumRows(t) : t.cols[1].data[p].row = n
    BY EveryRowHeld
  <1>2. PICK q \in 1 .. NumRows(u) :
          \A i \in 1 .. Len(t.cols) : u.cols[i].data[q] = t.cols[i].data[p]
    BY DEF Carries
  <1>3. 1 \in 1 .. Len(t.cols)
    BY DEF NumRows, RowSound, ImageOK
  <1>4. u.cols[1].data[q].row = n
    BY <1>1, <1>2, <1>3
  <1>5. /\ n \in 1 .. NumRows(u)
        /\ RowsOf(u)[n] = [i \in 1 .. Len(u.cols) |-> u.cols[i].data[q].val]
    BY <1>4, RowAt
  <1>6. RowsOf(t)[n] = [i \in 1 .. Len(t.cols) |-> t.cols[i].data[p].val]
    BY <1>1, RowAt
  <1> QED
    BY <1>2, <1>5, <1>6

\* The first column has as many values as the others.
LEMMA RowCount ==
  ASSUME NEW t, ImageOK(t), ImageAligned(t), NEW i \in 1 .. Len(t.cols)
  PROVE  /\ t.cols[i].data \in Seq(Cell) /\ Len(t.cols[i].data) = NumRows(t)
         /\ DOMAIN t.cols[i].data = 1 .. NumRows(t)
  <1>1. t.cols[i] \in Column
    BY ElementOfSeq DEF ImageOK
  <1>2. t.cols[i].data \in Seq(Cell)
    BY <1>1 DEF Column
  <1>3. t.cols # <<>> /\ 1 \in 1 .. Len(t.cols)
    BY DEF ImageOK
  <1>4. Len(t.cols[i].data) = NumRows(t)
    BY <1>3 DEF ImageAligned, NumRows
  <1> QED
    BY <1>2, <1>4

\* An append carries the rows there were, and so does the sort after it.
LEMMA GrowCarries ==
  ASSUME NEW t, RowSound(t), NEW batch \in Seq(Row(t)), t.cols # <<>>,
         ~SortFails(AppendRows(t, batch)), NEW u \in SortedTables(AppendRows(t, batch))
  PROVE  /\ RowSound(u) /\ Len(u.cols) = Len(t.cols)
         /\ NumRows(u) >= NumRows(t)
         /\ Carries(t, u)
  <1> DEFINE w == AppendRows(t, batch)
  <1>1. /\ ImageOK(w) /\ Len(w.cols) = Len(t.cols) /\ w.primary = t.primary
        /\ \A i \in 1 .. Len(t.cols) :
             /\ Added(t, batch, i) \in Seq(Cell)
             /\ w.cols[i].data = t.cols[i].data \o Added(t, batch, i)
    BY AppendShape DEF RowSound
  <1>2. RowSound(w)
    BY <1>1, AppendKeeps DEF RowSound
  <1> HIDE DEF w
  <1>3. RowSound(u) /\ Len(u.cols) = Len(w.cols)
    <2>1. ~SortFails(w) /\ u \in SortedTables(w)
      BY DEF w
    <2> QED
      BY <1>2, <2>1, SortKeeps DEF RowSound
  <1>4. 1 \in 1 .. Len(t.cols) /\ NumRows(t) \in Nat /\ NumRows(w) \in Nat
    BY <1>2, NumRowsNat DEF RowSound, ImageOK
  <1>5. ASSUME NEW i \in 1 .. Len(t.cols), NEW p \in 1 .. NumRows(t)
        PROVE  w.cols[i].data[p] = t.cols[i].data[p] /\ NumRows(w) >= NumRows(t)
    <2> DEFINE s == t.cols[i].data
               a == Added(t, batch, i)
    <2>1. s \in Seq(Cell) /\ Len(s) = NumRows(t)
      BY RowCount DEF RowSound
    <2>2. a \in Seq(Cell)
      BY <1>1
    <2>3. Len(w.cols[i].data) = NumRows(w)
      BY <1>1, <1>2, RowCount DEF RowSound
    <2>4. w.cols[i].data = s \o a
      BY <1>1
    <2> HIDE DEF s, a
    <2>5. Len(s \o a) = Len(s) + Len(a) /\ Len(a) \in Nat /\ (s \o a)[p] = s[p]
      <3>1. p \in 1 .. Len(s) /\ Len(s) \in Nat /\ Len(a) \in Nat
        BY <2>1, <2>2, LenProperties
      <3>2. /\ Len(s \o a) = Len(s) + Len(a)
            /\ \A k \in 1 .. Len(s) + Len(a) :
                 (s \o a)[k] = IF k <= Len(s) THEN s[k] ELSE a[k - Len(s)]
        BY <2>1, <2>2, ConcatProperties
      <3> QED
        BY <3>1, <3>2
    <2> QED
      BY <1>4, <2>1, <2>3, <2>4, <2>5 DEF s
  <1>6. NumRows(w) >= NumRows(t)
    <2>1. CASE NumRows(t) = 0
      BY <1>4, <2>1
    <2>2. CASE NumRows(t) # 0
      <3>1. 1 \in 1 .. NumRows(t)
        BY <1>4, <2>2
      <3> QED
        BY <1>4, <1>5, <3>1
    <2> QED
      BY <2>1, <2>2
  <1>7. NumRows(u) = NumRows(w) /\ Carries(w, u)
    <2>1. CASE w.primary = 0
      <3>1. u = w
        BY <2>1 DEF SortedTables, w
      <3> QED
        BY <3>1 DEF Carries
    <2>2. CASE w.primary # 0
      <3>1. w.primary \in 1 .. Len(w.cols) /\ w.primary > 0
        BY <1>1, <2>2 DEF ImageOK
      <3>2. PICK q \in SortedPositions(Vals(w.cols[w.primary])) : u = PermuteColumns(w, q)
        BY <2>2 DEF SortedTables, w
      <3>3. Rearranged(w, u, q)
        <4>1. ~SortFails(w)
          BY DEF w
        <4> QED
          BY <1>1, <3>1, <3>2, <4>1, PermuteShape
      <3>4. \A i \in 1 .. Len(w.cols) : Len(w.cols[i].data) = NumRows(w)
        BY <1>2, RowCount DEF RowSound
      <3>5. NumRows(u) = NumRows(w)
        <4>1. 1 \in 1 .. Len(w.cols) /\ 1 \in 1 .. Len(u.cols)
          BY <1>1, <1>3, <1>4
        <4>2. Len(u.cols[1].data) = NumRows(u)
          BY <1>3, <4>1, RowCount DEF RowSound
        <4>3. Len(u.cols[1].data) = Len(w.cols[1].data)
          BY <3>3, <4>1 DEF Rearranged
        <4> QED
          BY <3>4, <4>1, <4>2, <4>3
      <3>6. DOMAIN Vals(w.cols[w.primary]) = 1 .. NumRows(w)
        BY <3>1, <3>4 DEF Vals
      <3>7. \A p \in 1 .. NumRows(w) : \E k \in 1 .. NumRows(w) : q[k] = p
        BY <3>2, <3>6 DEF SortedPositions
      <3>8. ASSUME NEW p \in 1 .. NumRows(w)
            PROVE  \E k \in 1 .. NumRows(u) :
                     \A i \in 1 .. Len(w.cols) : u.cols[i].data[k] = w.cols[i].data[p]
        <4>1. PICK k \in 1 .. NumRows(w) : q[k] = p
          BY <3>7
        <4>2. \A i \in 1 .. Len(w.cols) : u.cols[i].data[k] = w.cols[i].data[q[k]]
          BY <3>3, <3>4 DEF Rearranged
        <4> QED
          BY <3>5, <4>1, <4>2
      <3> QED
        BY <3>5, <3>8 DEF Carries
    <2> QED
      BY <2>1, <2>2
  <1>8. Carries(t, u)
    <2> SUFFICES ASSUME NEW p \in 1 .. NumRows(t)
                 PROVE  \E q \in 1 .. NumRows(u) :
                          \A i \in 1 .. Len(t.cols) : u.cols[i].data[q] = t.cols[i].data[p]
      BY DEF Carries
    <2>1. p \in 1 .. NumRows(w)
      BY <1>4, <1>6
    <2>2. PICK q \in 1 .. NumRows(u) :
            \A i \in 1 .. Len(w.cols) : u.cols[i].data[q] = w.cols[i].data[p]
      BY <1>7, <2>1 DEF Carries
    <2>3. ASSUME NEW i \in 1 .. Len(t.cols)
          PROVE  u.cols[i].data[q] = t.cols[i].data[p]
      <3>1. i \in 1 .. Len(w.cols)
        BY <1>1
      <3>2. w.cols[i].data[p] = t.cols[i].data[p]
        BY <1>5
      <3> QED
        BY <2>2, <3>1, <3>2
    <2> QED
      BY <2>3
  <1> QED
    BY <1>1, <1>3, <1>6, <1>7, <1>8

\* Building an index moves no row.
LEMMA IndexCarries ==
  ASSUME NEW t, RowSound(t), NEW i \in 1 .. Len(t.cols), NEW kind \in IndexKind,
         NEW u, u = [t EXCEPT !.cols[i].index =
                       [type |-> kind, entries |-> IndexEntries(t.cols[i])]]
  PROVE  RowSound(u) /\ Len(u.cols) = Len(t.cols) /\ RowsOf(u) = RowsOf(t)
  <1>1. RowSound(u)
    BY NewIndexKeeps DEF RowSound
  <1>2. Len(u.cols) = Len(t.cols) /\ \A k \in 1 .. Len(t.cols) : u.cols[k].data = t.cols[k].data
    <2>1. t.cols \in Seq(Column) /\ t.cols[i] \in Column /\ t \in [cols : Seq(Column), primary : Nat]
      BY ElementOfSeq DEF RowSound, ImageOK
    <2> DEFINE new == [type |-> kind, entries |-> IndexEntries(t.cols[i])]
               col == [t.cols[i] EXCEPT !.index = new]
    <2>2. u.cols = [t.cols EXCEPT ![i] = col]
      BY <2>1
    <2>3. col.data = t.cols[i].data
      BY <2>1 DEF Column
    <2> HIDE DEF col
    <2> QED
      BY <2>1, <2>2, <2>3
  <1>3. t.cols # <<>> /\ u.cols # <<>> /\ 1 \in 1 .. Len(t.cols)
    BY <1>2 DEF RowSound, ImageOK
  <1>4. NumRows(u) = NumRows(t) /\ u.cols[1].data = t.cols[1].data
    BY <1>2, <1>3 DEF NumRows
  <1>5. NumRows(t) \in Nat
    BY NumRowsNat DEF RowSound
  <1>6. Carries(t, u)
    BY <1>2, <1>4 DEF Carries
  <1>7. \A n \in 1 .. NumRows(t) : RowsOf(u)[n] = RowsOf(t)[n]
    BY <1>1, <1>2, <1>6, CarriedRows
  <1>8. /\ RowsOf(u) \in Seq(Row(t)) /\ Len(RowsOf(u)) = NumRows(t)
        /\ RowsOf(t) \in Seq(Row(t)) /\ Len(RowsOf(t)) = NumRows(t)
    <2>1. Row(u) = Row(t)
      BY <1>2 DEF Row
    <2> QED
      BY <1>1, <1>4, <2>1, RowsShape
  <1>9. RowsOf(u) = RowsOf(t)
    <2> DEFINE r == RowsOf(u)
               s == RowsOf(t)
    <2>1. r \in Seq(Row(t)) /\ s \in Seq(Row(t)) /\ Len(r) = Len(s)
          /\ \A n \in 1 .. Len(r) : r[n] = s[n]
      BY <1>7, <1>8
    <2> HIDE DEF r, s
    <2>2. r = s
      BY <2>1, SeqEqual
    <2> QED
      BY <2>2 DEF r, s
  <1> QED
    BY <1>1, <1>2, <1>9

LEMMA NoRows ==
  ASSUME NEW t, NumRows(t) = 0
  PROVE  RowsOf(t) = <<>>
  BY DEF RowsOf

\* If clients keep to the documented order of commands, the table implements the
\* store of rows: every handler, whatever it sorts or indexes, appends to the rows
\* or leaves them as they are, and every end of the server saves them or loses
\* what came since they were saved.
THEOREM ImplementsRowStore ==
  ASSUME "late_column" \notin Usage
  PROVE  Spec => RefinesRowStore
  <1>0. RowsOf(EmptyTable) = <<>> /\ Len(EmptyTable.cols) = 0
    BY DEF RowsOf, EmptyTable, NumRows
  <1>1. Init => Store!Init
    BY <1>0 DEF Init, Store!Init, Store!Empty
  <1>2. IInv /\ [Next]_vars => [Store!Next]_Store!vars
    <2> SUFFICES ASSUME IInv, [Next]_vars
                 PROVE  [Store!Next]_Store!vars
      OBVIOUS
    <2>1. RowSound(tbl) /\ RowSound(disk)
      BY DEF IInv, ImageInv, RowSound
    <2>2. ASSUME up, Die
          PROVE  Store!Next
      <3>1. Store!Lose
        BY <1>0, <2>2 DEF Store!Lose, Store!Empty, Die
      <3> QED
        BY <3>1 DEF Store!Next
    <2>3. ASSUME NEW type \in ColumnType, CreateColumn(type)
          PROVE  Store!Next
      <3> DEFINE new == [type |-> type, data |-> <<>>, index |-> NoIndex]
      <3>1. NumRows(tbl) = 0 /\ up /\ Len(tbl.cols) < MaxCols /\ UNCHANGED <<disk, up>>
            /\ tbl' = [cols |-> Append(tbl.cols, new), primary |-> PrimaryAfter(tbl, type)]
        BY <2>3 DEF CreateColumn
      <3>2. ImageOK(tbl') /\ ImageAligned(tbl')
        BY <2>1, <3>1, NewColumnKeeps DEF RowSound
      <3>3. Len(tbl'.cols) = Len(tbl.cols) + 1 /\ tbl'.cols[Len(tbl.cols) + 1] = new
            /\ Len(tbl.cols) \in Nat
        BY <2>1, <3>1, AppendProperties DEF RowSound, ImageOK
      <3>4. NumRows(tbl') = 0
        <4>1. Len(tbl.cols) + 1 \in 1 .. Len(tbl'.cols)
          BY <3>3
        <4>2. Len(tbl'.cols[Len(tbl.cols) + 1].data) = NumRows(tbl')
          BY <3>2, <4>1, RowCount
        <4> QED
          BY <3>3, <4>2
      <3>5. RowsOf(tbl) = <<>> /\ RowsOf(tbl)' = <<>>
        <4>1. RowsOf(tbl) = <<>> /\ RowsOf(tbl') = <<>>
          BY <3>1, <3>4, NoRows
        <4> QED
          BY <4>1 DEF RowsOf, NumRows
      <3>6. Store!AddColumn
        BY <3>1, <3>3, <3>5 DEF Store!AddColumn
      <3> QED
        BY <3>6 DEF Store!Next
    <2>4. ASSUME NEW i \in 1 .. Len(tbl.cols), NEW kind \in IndexKind, CreateIndex(i, kind)
          PROVE  UNCHANGED Store!vars
      <3>1. Len(tbl'.cols) = Len(tbl.cols) /\ RowsOf(tbl)' = RowsOf(tbl)
        BY <2>1, <2>4, IndexCarries DEF CreateIndex
      <3> QED
        BY <2>4, <3>1 DEF CreateIndex, Store!vars
    <2>5. ASSUME up, tbl.cols # <<>>, NEW batch \in Seq(Row(tbl)), Grows(batch)
          PROVE  Store!Next
      <3>1. /\ RowSound(tbl') /\ Len(tbl'.cols) = Len(tbl.cols)
            /\ NumRows(tbl') >= NumRows(tbl)
            /\ Carries(tbl, tbl')
        BY <2>1, <2>5, GrowCarries DEF Grows
      <3>2. \A n \in 1 .. NumRows(tbl) : RowsOf(tbl')[n] = RowsOf(tbl)[n]
        BY <2>1, <3>1, CarriedRows
      <3>3. /\ Len(RowsOf(tbl)) = NumRows(tbl) /\ DOMAIN RowsOf(tbl) = 1 .. NumRows(tbl)
            /\ Len(RowsOf(tbl')) = NumRows(tbl')
            /\ RowsOf(tbl') \in Seq(Row(tbl'))
        BY <2>1, <3>1, RowsShape
      <3>4. Row(tbl') = [1 .. Len(tbl.cols) -> Val]
        BY <3>1 DEF Row
      <3>5. RowsOf(tbl)' = RowsOf(tbl')
        BY DEF RowsOf, NumRows
      <3>6. Len(tbl.cols) > 0
        BY <2>1, <2>5 DEF RowSound, ImageOK
      <3>7. Store!AppendRows
        BY <2>5, <3>1, <3>2, <3>3, <3>4, <3>5, <3>6 DEF Store!AppendRows, Store!Val, Val, Grows
      <3> QED
        BY <3>7 DEF Store!Next
    <2>6. ASSUME NEW row \in Row(tbl), RelationalInsert(row)
          PROVE  Store!Next
      <3>1. up /\ tbl.cols # <<>>
        BY <2>6 DEF RelationalInsert
      <3>2. Die \/ \E batch \in Seq(Row(tbl)) : Grows(batch)
        BY <2>6, InsertGrows DEF IInv
      <3> QED
        BY <2>2, <2>5, <3>1, <3>2
    <2>7. ASSUME NEW batch \in Batches(tbl), Load(batch)
          PROVE  Store!Next
      <3>1. up /\ tbl.cols # <<>>
        BY <2>7 DEF Load
      <3>2. Die \/ (batch \in Seq(Row(tbl)) /\ Grows(batch))
        BY <2>7, LoadGrows
      <3> QED
        BY <2>2, <2>5, <3>1, <3>2
    <2>8. CASE Shutdown
      <3>1. RowsOf(tbl)' = RowsOf(tbl') /\ RowsOf(disk)' = RowsOf(disk')
        BY DEF RowsOf, NumRows
      <3>2. tbl' = EmptyTable /\ disk' = tbl /\ up /\ up' = FALSE
        BY <2>8 DEF Shutdown
      <3>3. RowsOf(tbl)' = <<>> /\ Len(tbl'.cols) = 0 /\ RowsOf(disk)' = RowsOf(tbl)
            /\ Len(disk'.cols) = Len(tbl.cols)
        BY <1>0, <3>1, <3>2
      <3>4. Store!Save
        BY <3>2, <3>3 DEF Store!Save, Store!Empty
      <3> QED
        BY <3>4 DEF Store!Next
    <2>9. CASE Restart
      <3>1. Store!Recover
        BY <2>9 DEF Restart, Store!Recover, RowsOf, NumRows
      <3> QED
        BY <3>1 DEF Store!Next
    <2>10. CASE Crash
      BY <2>2, <2>10 DEF Crash
    <2>11. CASE UNCHANGED vars
      BY <2>11 DEF vars, Store!vars, RowsOf, NumRows
    <2> QED
      BY <2>3, <2>4, <2>6, <2>7, <2>8, <2>9, <2>10, <2>11 DEF Next
  <1> QED
    BY <1>1, <1>2, Invariance, PTL DEF Spec, RefinesRowStore, Store!Spec
=============================================================================
