--------------------------- MODULE Persist_proofs ---------------------------
(***************************************************************************)
(* Invariants of Persist and its refinement of Archive, for every set of   *)
(* names, of values and of paths that cannot be opened.                    *)
(*                                                                         *)
(* That a finished save is whole rests on what a save in progress has done *)
(* so far: the walk over the tree of names has written all that it passed. *)
(* It stays so since opening a file truncates one that the walk has not    *)
(* passed: the names in an array are unique.                               *)
(***************************************************************************)
EXTENDS Persist, SequenceTheorems, TLAPS

---------------------------------------------------------------------------
(* The invariant.                                                          *)

\* The objects m are a tree of names with no name twice in an array, no array without
\* room for what it lists, and no table with columns of different rows.
Tree(m) ==
  /\ DOMAIN m \subseteq Path /\ Master \in DOMAIN m
  /\ \A p \in DOMAIN m :
       /\ m[p] \in Object /\ IsInjective(m[p].names)
       /\ Len(p) < 3 => Len(m[p].names) <= m[p].max
       /\ \A i \in 1 .. Len(m[p].names) : Append(p, m[p].names[i]) \in DOMAIN m
       /\ p # Master => /\ Front(p) \in DOMAIN m
                        /\ \E i \in 1 .. Len(m[Front(p)].names) : m[Front(p)].names[i] = Last(p)
  /\ \A p, q \in DOMAIN m :
       Len(p) = 3 /\ Len(q) = 3 /\ Front(p) = Front(q) => m[p].data = m[q].data

File == [state : {"absent", "torn", "whole"}, object : Object]

Files ==
  /\ disk \in [Path -> File]
  /\ \A p \in Path : IsInjective(disk[p].object.names)

\* What a start finds is a tree again.
Stored ==
  disk[Master].state = "whole" => Tree(Loaded) /\ \A p \in Listed : disk[p].state = "whole"

\* p is r or below it.
Under(p, r) == Len(r) <= Len(p) /\ \A i \in 1 .. Len(r) : p[i] = r[i]

\* The objects whose files are open.
Open == { p \in DOMAIN mem : Under(at, p) }

\* The walk of a save has begun an element of an open file's object and finished it,
\* and p is that element or below it.
Passed(p) ==
  \E q \in Open : \E i \in 1 .. Len(mem[q].names) :
    LET r == Append(q, mem[q].names[i])
    IN  i < next[Len(q) + 1] /\ r \notin Open /\ Under(p, r)

Walk ==
  /\ at \in DOMAIN mem
  /\ next \in Seq(Nat \ {0}) /\ Len(next) = Len(at) + 1
  /\ disk[Master].state = "torn"
  /\ \A p \in DOMAIN mem : Passed(p) => disk[p] = Whole(mem[p])

IInv ==
  /\ Tree(mem)
  /\ Files
  /\ Stored
  /\ at \in Path
  /\ up \in {"serving", "saving", "saved", "down"}
  /\ IF up = "saving" THEN Walk ELSE at = Master

---------------------------------------------------------------------------
(* Sequences and paths.                                                    *)

LEMMA NonEmpty ==
  ASSUME NEW s, Len(s) > 0
  PROVE  s # <<>>
  OBVIOUS

LEMMA FrontAndLast ==
  ASSUME NEW S, NEW s \in Seq(S), s # <<>>
  PROVE  /\ Front(s) \in Seq(S) /\ Len(Front(s)) = Len(s) - 1
         /\ \A i \in 1 .. Len(Front(s)) : Front(s)[i] = s[i]
         /\ Last(s) = s[Len(s)] /\ Last(s) \in S
         /\ s = Append(Front(s), Last(s))
  <1>1. Len(s) \in Nat /\ Len(s) >= 1
    BY EmptySeq
  <1>2. \A i \in 1 .. Len(s) - 1 : s[i] \in S
    BY <1>1, ElementOfSeq
  <1>3. /\ SubSeq(s, 1, Len(s) - 1) \in Seq(S)
        /\ Len(SubSeq(s, 1, Len(s) - 1)) = IF 1 <= Len(s) - 1 THEN Len(s) - 1 - 1 + 1 ELSE 0
        /\ \A i \in 1 .. Len(s) - 1 - 1 + 1 : SubSeq(s, 1, Len(s) - 1)[i] = s[1 + i - 1]
    BY <1>1, <1>2, SubSeqProperties
  <1>4. Front(s) = SubSeq(s, 1, Len(s) - 1)
    BY DEF Front
  <1> DEFINE f == Front(s)
  <1>5. f \in Seq(S) /\ Len(f) = Len(s) - 1
    <2>1. Len(f) = IF 1 <= Len(s) - 1 THEN Len(s) - 1 - 1 + 1 ELSE 0
      BY <1>3, <1>4
    <2>2. f \in Seq(S)
      BY <1>3, <1>4
    <2> HIDE DEF f
    <2> DEFINE n == Len(s)
    <2>3. n \in Nat /\ n >= 1 /\ Len(f) = IF 1 <= n - 1 THEN n - 1 - 1 + 1 ELSE 0
      BY <1>1, <2>1
    <2> HIDE DEF n
    <2>4. Len(f) = n - 1
      BY <2>3
    <2> QED
      BY <2>2, <2>4 DEF n
  <1>6. \A i \in 1 .. Len(f) : f[i] = s[i]
    BY <1>1, <1>3, <1>4, <1>5
  <1>7. Last(s) = s[Len(s)] /\ Last(s) \in S
    BY <1>1, ElementOfSeq DEF Last
  <1> HIDE DEF f
  <1>8. /\ Append(f, Last(s)) \in Seq(S) /\ Len(Append(f, Last(s))) = Len(f) + 1
        /\ \A i \in 1 .. Len(f) : Append(f, Last(s))[i] = f[i]
        /\ Append(f, Last(s))[Len(f) + 1] = Last(s)
    BY <1>5, <1>7, AppendProperties
  <1>9. \A i \in 1 .. Len(s) : s[i] = Append(f, Last(s))[i]
    BY <1>1, <1>5, <1>6, <1>7, <1>8
  <1>10. s = Append(f, Last(s))
    BY <1>1, <1>5, <1>8, <1>9, SeqEqual
  <1> QED
    BY <1>5, <1>6, <1>7, <1>10 DEF f

LEMMA Appended ==
  ASSUME NEW S, NEW s \in Seq(S), NEW e \in S
  PROVE  /\ Append(s, e) \in Seq(S) /\ Len(Append(s, e)) = Len(s) + 1 /\ Append(s, e) # <<>>
         /\ \A i \in 1 .. Len(s) : Append(s, e)[i] = s[i]
         /\ Append(s, e)[Len(s) + 1] = e
         /\ Front(Append(s, e)) = s /\ Last(Append(s, e)) = e
  <1> DEFINE t == Append(s, e)
  <1>1. /\ t \in Seq(S) /\ Len(t) = Len(s) + 1 /\ Len(s) \in Nat
        /\ \A i \in 1 .. Len(s) : t[i] = s[i]
        /\ t[Len(s) + 1] = e
    BY AppendProperties
  <1> HIDE DEF t
  <1>2. t # <<>>
    BY <1>1, EmptySeq
  <1>3. /\ Front(t) \in Seq(S) /\ Len(Front(t)) = Len(t) - 1
        /\ \A i \in 1 .. Len(Front(t)) : Front(t)[i] = t[i]
        /\ Last(t) = t[Len(t)]
    BY <1>1, <1>2, FrontAndLast
  <1>4. Len(Front(t)) = Len(s)
    BY <1>1, <1>3
  <1>5. \A i \in 1 .. Len(Front(t)) : Front(t)[i] = s[i]
    BY <1>1, <1>3, <1>4
  <1>6. Front(t) = s
    BY <1>3, <1>4, <1>5, SeqEqual
  <1> QED
    BY <1>1, <1>2, <1>3, <1>6 DEF t

\* A path is one to three names, or none.
LEMMA PathShape ==
  ASSUME NEW p \in Path
  PROVE  /\ p \in Seq(Name) /\ Len(p) \in 0 .. 3
         /\ p = Master <=> Len(p) = 0
         /\ \/ p = Master
            \/ Len(p) = 1 /\ p[1] \in DbNames
            \/ Len(p) = 2 /\ p[1] \in DbNames /\ p[2] \in TblNames
            \/ Len(p) = 3 /\ p[1] \in DbNames /\ p[2] \in TblNames /\ p[3] \in ColNames
  <1>1. CASE p = Master
    BY <1>1, EmptySeq DEF Master
  <1>2. CASE p \in DbPath
    <2>1. PICK d \in DbNames : p = <<d>>
      BY <1>2 DEF DbPath
    <2>2. d \in Name
      BY DEF Name
    <2>3. p \in Seq(Name) /\ Len(p) = 1 /\ p[1] = d
      BY <2>1, <2>2
    <2>4. p # <<>>
      BY <2>3, NonEmpty
    <2> QED
      BY <2>3, <2>4 DEF Master
  <1>3. CASE p \in TblPath
    <2>1. PICK d \in DbNames, t \in TblNames : p = <<d, t>>
      BY <1>3 DEF TblPath
    <2>2. d \in Name /\ t \in Name
      BY DEF Name
    <2>3. p \in Seq(Name) /\ Len(p) = 2 /\ p[1] = d /\ p[2] = t
      BY <2>1, <2>2
    <2>4. p # <<>>
      BY <2>3, NonEmpty
    <2> QED
      BY <2>3, <2>4 DEF Master
  <1>4. CASE p \in ColPath
    <2>1. PICK d \in DbNames, t \in TblNames, c \in ColNames : p = <<d, t, c>>
      BY <1>4 DEF ColPath
    <2>2. d \in Name /\ t \in Name /\ c \in Name
      BY DEF Name
    <2>3. p \in Seq(Name) /\ Len(p) = 3 /\ p[1] = d /\ p[2] = t /\ p[3] = c
      BY <2>1, <2>2
    <2>4. p # <<>>
      BY SMTT(30), <2>3, NonEmpty
    <2> QED
      BY <2>3, <2>4 DEF Master
  <1> QED
    BY <1>1, <1>2, <1>3, <1>4 DEF Path

\* And such names are a path.
LEMMA ShapeIsPath ==
  ASSUME NEW s \in Seq(Name),
         \/ Len(s) = 0
         \/ Len(s) = 1 /\ s[1] \in DbNames
         \/ Len(s) = 2 /\ s[1] \in DbNames /\ s[2] \in TblNames
         \/ Len(s) = 3 /\ s[1] \in DbNames /\ s[2] \in TblNames /\ s[3] \in ColNames
  PROVE  s \in Path
  <1>1. CASE Len(s) = 0
    <2>1. s = <<>>
      BY <1>1, EmptySeq
    <2> QED
      BY <2>1 DEF Path, Master
  <1>2. CASE Len(s) = 1 /\ s[1] \in DbNames
    <2> DEFINE t == <<s[1]>>
    <2>1. s[1] \in Name
      BY <1>2 DEF Name
    <2>2. t \in Seq(Name) /\ Len(t) = 1 /\ t[1] = s[1]
      BY <2>1
    <2>3. \A i \in 1 .. Len(s) : s[i] = t[i]
      BY <1>2, <2>2
    <2>4. s = t
      BY <1>2, <2>2, <2>3, SeqEqual
    <2> QED
      BY <1>2, <2>4 DEF Path, DbPath
  <1>3. CASE Len(s) = 2 /\ s[1] \in DbNames /\ s[2] \in TblNames
    <2> DEFINE t == <<s[1], s[2]>>
    <2>1. s[1] \in Name /\ s[2] \in Name
      BY <1>3 DEF Name
    <2>2. t \in Seq(Name) /\ Len(t) = 2 /\ t[1] = s[1] /\ t[2] = s[2]
      BY <2>1
    <2>3. \A i \in 1 .. Len(s) : s[i] = t[i]
      BY <1>3, <2>2
    <2>4. s = t
      BY <1>3, <2>2, <2>3, SeqEqual
    <2> QED
      BY <1>3, <2>4 DEF Path, TblPath
  <1>4. CASE Len(s) = 3 /\ s[1] \in DbNames /\ s[2] \in TblNames /\ s[3] \in ColNames
    <2> DEFINE t == <<s[1], s[2], s[3]>>
    <2>1. s[1] \in Name /\ s[2] \in Name /\ s[3] \in Name
      BY <1>4 DEF Name
    <2>2. t \in Seq(Name) /\ Len(t) = 3 /\ t[1] = s[1] /\ t[2] = s[2] /\ t[3] = s[3]
      BY <2>1
    <2>3. \A i \in 1 .. Len(s) : s[i] = t[i]
      BY <1>4, <2>2
    <2>4. s = t
      BY <1>4, <2>2, <2>3, SeqEqual
    <2> QED
      BY <1>4, <2>4 DEF Path, ColPath
  <1> QED
    BY <1>1, <1>2, <1>3, <1>4

\* A path but the empty one is one behind its front.
LEMMA Parent ==
  ASSUME NEW p \in Path, p # Master
  PROVE  /\ Front(p) \in Path /\ Len(Front(p)) = Len(p) - 1
         /\ \A i \in 1 .. Len(Front(p)) : Front(p)[i] = p[i]
         /\ p = Append(Front(p), Last(p)) /\ Last(p) \in Name
         /\ p[Len(p)] = Last(p)
  <1> DEFINE f == Front(p)
  <1>1. /\ p \in Seq(Name) /\ Len(p) \in 0 .. 3 /\ p # <<>>
        /\ \/ Len(p) = 1 /\ p[1] \in DbNames
           \/ Len(p) = 2 /\ p[1] \in DbNames /\ p[2] \in TblNames
           \/ Len(p) = 3 /\ p[1] \in DbNames /\ p[2] \in TblNames /\ p[3] \in ColNames
    BY PathShape DEF Master
  <1>2. /\ f \in Seq(Name) /\ Len(f) = Len(p) - 1
        /\ \A i \in 1 .. Len(f) : f[i] = p[i]
        /\ p = Append(f, Last(p)) /\ Last(p) \in Name
        /\ Last(p) = p[Len(p)]
    BY <1>1, FrontAndLast
  <1> HIDE DEF f
  <1>3. \/ Len(f) = 0
        \/ Len(f) = 1 /\ f[1] \in DbNames
        \/ Len(f) = 2 /\ f[1] \in DbNames /\ f[2] \in TblNames
    BY <1>1, <1>2
  <1>4. f \in Path
    BY <1>2, <1>3, ShapeIsPath
  <1> QED
    BY <1>2, <1>4 DEF f

\* A path with one name more.
LEMMA Child ==
  ASSUME NEW p \in Path, NEW n, Append(p, n) \in Path
  PROVE  /\ Front(Append(p, n)) = p /\ Last(Append(p, n)) = n /\ n \in Name
         /\ Append(p, n) # Master /\ Append(p, n) # p
         /\ Len(p) \in 0 .. 2 /\ Len(Append(p, n)) = Len(p) + 1
         /\ \A i \in 1 .. Len(p) : Append(p, n)[i] = p[i]
         /\ Append(p, n)[Len(p) + 1] = n
  <1> DEFINE q == Append(p, n)
             S == Name \cup {n}
  <1>1. p \in Seq(S) /\ Len(p) \in 0 .. 3
    BY PathShape, SeqMonotonic
  <1>2. /\ Len(q) = Len(p) + 1 /\ q # <<>>
        /\ \A i \in 1 .. Len(p) : q[i] = p[i]
        /\ q[Len(p) + 1] = n
        /\ Front(q) = p /\ Last(q) = n
    BY <1>1, Appended
  <1>3. q \in Path
    OBVIOUS
  <1> HIDE DEF q, S
  <1>4. Len(q) \in 0 .. 3 /\ q # Master
    BY <1>2, <1>3, PathShape DEF Master
  <1>5. n \in Name
    BY <1>2, <1>3, <1>4, Parent
  <1>6. q # p /\ Len(p) \in 0 .. 2
    BY <1>1, <1>2, <1>4
  <1> QED
    BY <1>2, <1>4, <1>5, <1>6 DEF q

LEMMA SamePath ==
  ASSUME NEW p \in Path, NEW q \in Path, Len(p) = Len(q), \A i \in 1 .. Len(p) : p[i] = q[i]
  PROVE  p = q
  BY PathShape, SeqEqual

---------------------------------------------------------------------------
(* Trees.                                                                  *)

LEMMA OfTree ==
  ASSUME NEW m, Tree(m), NEW p \in DOMAIN m
  PROVE  /\ p \in Path /\ m[p] \in Object /\ m[p].names \in Seq(Name) /\ m[p].max \in Nat
         /\ Len(m[p].names) \in Nat /\ DOMAIN m[p].names = 1 .. Len(m[p].names)
         /\ \A i, j \in 1 .. Len(m[p].names) : m[p].names[i] = m[p].names[j] => i = j
         /\ Master \in DOMAIN m
  <1>1. p \in Path /\ m[p] \in Object /\ IsInjective(m[p].names) /\ Master \in DOMAIN m
    BY DEF Tree
  <1>2. m[p].names \in Seq(Name) /\ m[p].max \in Nat
    BY <1>1 DEF Object
  <1>3. Len(m[p].names) \in Nat /\ DOMAIN m[p].names = 1 .. Len(m[p].names)
    BY <1>2
  <1> QED
    BY <1>1, <1>2, <1>3 DEF IsInjective

LEMMA ChildOfTree ==
  ASSUME NEW m, Tree(m), NEW p \in DOMAIN m, NEW i \in 1 .. Len(m[p].names)
  PROVE  LET q == Append(p, m[p].names[i])
         IN  /\ q \in DOMAIN m /\ q \in Path
             /\ Len(p) \in 0 .. 2 /\ Len(q) = Len(p) + 1 /\ q # Master
             /\ \A j \in 1 .. Len(p) : q[j] = p[j]
             /\ q[Len(p) + 1] = m[p].names[i]
  <1>1. Append(p, m[p].names[i]) \in DOMAIN m /\ DOMAIN m \subseteq Path
    BY DEF Tree
  <1> QED
    BY <1>1, Child

\* The object one level above p is the parent of p.
LEMMA ParentInTree ==
  ASSUME NEW m, Tree(m), NEW p \in DOMAIN m, NEW r \in Path, Under(p, r), Len(p) = Len(r) + 1
  PROVE  r \in DOMAIN m /\ r = Front(p) /\ \E i \in 1 .. Len(m[r].names) : Append(r, m[r].names[i]) = p
  <1>1. p \in Path /\ Len(r) \in 0 .. 3
    BY OfTree, PathShape
  <1>2. p # Master
    BY <1>1, PathShape
  <1>3. /\ Front(p) \in Path /\ Len(Front(p)) = Len(p) - 1
        /\ \A i \in 1 .. Len(Front(p)) : Front(p)[i] = p[i]
        /\ p = Append(Front(p), Last(p))
    BY <1>1, <1>2, Parent
  <1>4. r = Front(p)
    <2>1. Len(Front(p)) = Len(r)
      BY <1>1, <1>3
    <2>2. \A i \in 1 .. Len(r) : r[i] = Front(p)[i]
      BY <1>3, <2>1 DEF Under
    <2> QED
      BY <1>3, <2>1, <2>2, SamePath
  <1>5. Front(p) \in DOMAIN m /\ \E i \in 1 .. Len(m[Front(p)].names) : m[Front(p)].names[i] = Last(p)
    BY <1>2 DEF Tree
  <1> QED
    BY <1>3, <1>4, <1>5

\* The way from r to an object below it goes through an element of r.
LEMMA Way ==
  ASSUME NEW m, Tree(m), NEW p \in DOMAIN m, NEW r \in Path, Under(p, r), p # r
  PROVE  r \in DOMAIN m /\ \E i \in 1 .. Len(m[r].names) : Under(p, Append(r, m[r].names[i]))
  <1>1. p \in Path /\ Len(p) \in 0 .. 3 /\ Len(r) \in 0 .. 3
    BY OfTree, PathShape
  <1>2. Len(r) < Len(p)
    <2>1. Len(r) <= Len(p) /\ \A i \in 1 .. Len(r) : p[i] = r[i]
      BY DEF Under
    <2>2. Len(r) # Len(p)
      BY <1>1, <2>1, SamePath
    <2> QED
      BY <1>1, <2>1, <2>2
  <1>3. ASSUME NEW q \in DOMAIN m, Under(p, q), Under(q, r), Len(q) = Len(r) + 1
        PROVE  r \in DOMAIN m /\ \E i \in 1 .. Len(m[r].names) : Under(p, Append(r, m[r].names[i]))
    <2>1. r \in DOMAIN m
      BY <1>3, ParentInTree
    <2>2. PICK i \in 1 .. Len(m[r].names) : Append(r, m[r].names[i]) = q
      BY <1>3, ParentInTree
    <2> QED
      BY <1>3, <2>1, <2>2
  <1>4. ASSUME NEW q \in DOMAIN m, Under(p, q), Under(q, r), Len(q) > Len(r)
        PROVE  /\ Front(q) \in DOMAIN m /\ Front(q) \in Path /\ Len(Front(q)) = Len(q) - 1
               /\ Under(p, Front(q)) /\ Under(Front(q), r)
    <2>1. q \in Path /\ Len(q) \in 0 .. 3
      BY OfTree, PathShape
    <2>2. q # Master
      BY <1>1, <1>4, <2>1, PathShape
    <2>3. /\ Front(q) \in Path /\ Len(Front(q)) = Len(q) - 1
          /\ \A i \in 1 .. Len(Front(q)) : Front(q)[i] = q[i]
      BY <2>1, <2>2, Parent
    <2>4. Front(q) \in DOMAIN m
      BY <2>2 DEF Tree
    <2>5. Under(p, Front(q))
      BY <1>1, <1>4, <2>1, <2>3 DEF Under
    <2>6. Under(Front(q), r)
      BY <1>1, <1>4, <2>1, <2>3 DEF Under
    <2> QED
      BY <2>3, <2>4, <2>5, <2>6
  <1>5. Under(p, p)
    BY <1>1 DEF Under
  <1>6. CASE Len(p) = Len(r) + 1
    <2>1. p \in DOMAIN m /\ Under(p, r)
      OBVIOUS
    <2> QED
      BY <1>3, <1>5, <1>6, <2>1
  <1>7. CASE Len(p) = Len(r) + 2
    <2>1. /\ Front(p) \in DOMAIN m /\ Len(Front(p)) = Len(r) + 1
          /\ Under(p, Front(p)) /\ Under(Front(p), r)
      BY <1>1, <1>2, <1>4, <1>5, <1>7
    <2> QED
      BY <1>3, <2>1
  <1>8. CASE Len(p) = Len(r) + 3
    <2> DEFINE q == Front(p)
    <2>1. /\ q \in DOMAIN m /\ Len(q) = Len(r) + 2
          /\ Under(p, q) /\ Under(q, r)
      BY <1>1, <1>2, <1>4, <1>5, <1>8
    <2>2. Len(q) > Len(r) /\ Len(q) - 1 = Len(r) + 1
      BY <1>1, <2>1
    <2> HIDE DEF q
    <2>3. /\ Front(q) \in DOMAIN m /\ Len(Front(q)) = Len(r) + 1
          /\ Under(p, Front(q)) /\ Under(Front(q), r)
      BY <1>4, <2>1, <2>2
    <2> QED
      BY <1>3, <2>3
  <1>9. Len(p) = Len(r) + 1 \/ Len(p) = Len(r) + 2 \/ Len(p) = Len(r) + 3
    <2> DEFINE a == Len(p)
               b == Len(r)
    <2>1. a \in 0 .. 3 /\ b \in 0 .. 3 /\ b < a
      BY <1>1, <1>2
    <2> HIDE DEF a, b
    <2>2. a = b + 1 \/ a = b + 2 \/ a = b + 3
      BY <2>1
    <2> QED
      BY <2>2 DEF a, b
  <1> QED
    BY <1>6, <1>7, <1>8, <1>9

LEMMA FirstTree == Tree(NoDbs)
  <1>1. DOMAIN NoDbs = {Master} /\ NoDbs[Master] = [names |-> <<>>, max |-> 0, data |-> <<>>]
    BY DEF NoDbs, New
  <1>2. Master \in Path
    BY DEF Path
  <1>3. <<>> \in Seq(Name) /\ <<>> \in Seq(Values) /\ Len(<<>>) = 0 /\ IsInjective(<<>>) /\ 1 .. 0 = {}
    BY DEF IsInjective
  <1>4. NoDbs[Master] \in Object
    BY <1>1, <1>3 DEF Object
  <1>5. Len(Master) = 0
    BY DEF Master
  <1> QED
    BY <1>1, <1>2, <1>3, <1>4, <1>5 DEF Tree

\* Objects with the names of a tree, with room for them, are one.
LEMMA SameNames ==
  ASSUME NEW m, Tree(m), NEW n, DOMAIN n = DOMAIN m,
         \A p \in DOMAIN m : /\ n[p] \in Object /\ n[p].names = m[p].names
                             /\ Len(p) < 3 => Len(m[p].names) <= n[p].max,
         \A p, q \in DOMAIN m :
           Len(p) = 3 /\ Len(q) = 3 /\ Front(p) = Front(q) => n[p].data = n[q].data
  PROVE  Tree(n)
  <1>1. DOMAIN n \subseteq Path /\ Master \in DOMAIN n
    BY DEF Tree
  <1>2. ASSUME NEW p \in DOMAIN n
        PROVE  /\ n[p] \in Object /\ IsInjective(n[p].names)
               /\ Len(p) < 3 => Len(n[p].names) <= n[p].max
               /\ \A i \in 1 .. Len(n[p].names) : Append(p, n[p].names[i]) \in DOMAIN n
               /\ p # Master => /\ Front(p) \in DOMAIN n
                                /\ \E i \in 1 .. Len(n[Front(p)].names) : n[Front(p)].names[i] = Last(p)
    <2>1. n[p] \in Object /\ n[p].names = m[p].names /\ (Len(p) < 3 => Len(n[p].names) <= n[p].max)
      OBVIOUS
    <2>2. IsInjective(n[p].names)
      BY <2>1 DEF Tree
    <2>3. \A i \in 1 .. Len(n[p].names) : Append(p, n[p].names[i]) \in DOMAIN n
      BY <2>1 DEF Tree
    <2>4. ASSUME p # Master
          PROVE  /\ Front(p) \in DOMAIN n
                 /\ \E i \in 1 .. Len(n[Front(p)].names) : n[Front(p)].names[i] = Last(p)
      <3>1. /\ Front(p) \in DOMAIN m
            /\ \E i \in 1 .. Len(m[Front(p)].names) : m[Front(p)].names[i] = Last(p)
        BY <2>4 DEF Tree
      <3>2. n[Front(p)].names = m[Front(p)].names
        BY <3>1
      <3> QED
        BY <3>1, <3>2
    <2> QED
      BY <2>1, <2>2, <2>3, <2>4
  <1>3. \A p, q \in DOMAIN n :
          Len(p) = 3 /\ Len(q) = 3 /\ Front(p) = Front(q) => n[p].data = n[q].data
    OBVIOUS
  <1> QED
    BY <1>1, <1>2, <1>3 DEF Tree

\* The elements of an object are the objects whose parent it is.
LEMMA ElementsAre ==
  ASSUME NEW m, Tree(m), NEW t \in DOMAIN m, NEW o, o[t].names = m[t].names, NEW p
  PROVE  p \in ElementsOf(o, t) <=> p \in DOMAIN m /\ p # Master /\ Front(p) = t
  <1>1. /\ m[t].names \in Seq(Name) /\ DOMAIN m[t].names = 1 .. Len(m[t].names) /\ t \in Path
        /\ DOMAIN m \subseteq Path
    BY OfTree DEF Tree
  <1>2. ASSUME p \in ElementsOf(o, t)
        PROVE  p \in DOMAIN m /\ p # Master /\ Front(p) = t
    <2>1. PICK name \in Range(m[t].names) : p = Append(t, name)
      BY <1>2 DEF ElementsOf
    <2>2. PICK i \in 1 .. Len(m[t].names) : m[t].names[i] = name
      BY <1>1, <2>1 DEF Range
    <2>3. p \in DOMAIN m
      BY <2>1, <2>2 DEF Tree
    <2> QED
      BY <1>1, <2>1, <2>3, Child
  <1>3. ASSUME p \in DOMAIN m, p # Master, Front(p) = t
        PROVE  p \in ElementsOf(o, t)
    <2>1. \E i \in 1 .. Len(m[t].names) : m[t].names[i] = Last(p)
      BY <1>3 DEF Tree
    <2>2. Last(p) \in Range(o[t].names)
      BY <1>1, <2>1 DEF Range
    <2>3. p = Append(t, Last(p))
      BY <1>1, <1>3, Parent
    <2> QED
      BY <2>2, <2>3 DEF ElementsOf
  <1> QED
    BY <1>2, <1>3

LEMMA ColsAre ==
  ASSUME Tree(mem), NEW t \in DOMAIN mem, NEW p \in DOMAIN mem
  PROVE  p \in Cols(t) <=> p # Master /\ Front(p) = t
  BY ElementsAre DEF Cols

\* Creating an element, for a table without rows if it is a column.
LEMMA NewElement ==
  ASSUME Tree(mem), NEW p \in DOMAIN mem, NEW name, Append(p, name) \in Path,
         name \notin Range(mem[p].names),
         NEW max \in Nat, NEW m, m = WithElement(p, name, New(max)),
         Len(p) = 2 => \A q \in Cols(p) : mem[q].data = <<>>
  PROVE  Tree(m)
  <1> DEFINE q == Append(p, name)
             ns == mem[p].names
             old == mem[p]
             grown == [old EXCEPT !.names = Append(@, name), !.max = Grown(old)]
  <1>1. /\ p \in Path /\ old \in Object /\ ns \in Seq(Name) /\ old.max \in Nat
        /\ Len(ns) \in Nat /\ DOMAIN ns = 1 .. Len(ns)
        /\ \A i, j \in 1 .. Len(ns) : ns[i] = ns[j] => i = j
        /\ Master \in DOMAIN mem
    BY OfTree
  <1>2. /\ q \in Path /\ Front(q) = p /\ Last(q) = name /\ name \in Name /\ q # Master /\ q # p
        /\ Len(p) \in 0 .. 2 /\ Len(q) = Len(p) + 1
    BY <1>1, Child
  <1>2a. Len(p) < 3 /\ (Len(q) = 3 => Len(p) = 2)
    <2> DEFINE a == Len(p)
               b == Len(q)
    <2>1. a \in 0 .. 2 /\ b = a + 1
      BY <1>2
    <2> HIDE DEF a, b
    <2>2. a < 3 /\ (b = 3 => a = 2)
      BY <2>1
    <2> QED
      BY <2>2 DEF a, b
  <1>3. name \notin Range(ns)
    OBVIOUS
  <1>4. \A i \in 1 .. Len(ns) : ns[i] # name
    BY <1>1, <1>3 DEF Range
  <1>5. q \notin DOMAIN mem
    <2> SUFFICES ASSUME q \in DOMAIN mem PROVE FALSE
      OBVIOUS
    <2>1. \E i \in 1 .. Len(mem[Front(q)].names) : mem[Front(q)].names[i] = Last(q)
      BY <1>2 DEF Tree
    <2> QED
      BY <1>2, <1>4, <2>1
  <1>6. /\ Append(ns, name) \in Seq(Name) /\ Len(Append(ns, name)) = Len(ns) + 1
        /\ \A i \in 1 .. Len(ns) : Append(ns, name)[i] = ns[i]
        /\ Append(ns, name)[Len(ns) + 1] = name
    BY <1>1, <1>2, Appended
  <1>7. Grown(old) \in Nat /\ Len(ns) + 1 <= Grown(old)
    <2> DEFINE a == Len(ns)
               b == old.max
    <2>1. Grown(old) = IF a >= b THEN b + ToAllocate ELSE b
      BY DEF Grown
    <2>2. a <= b
      BY <1>2a DEF Tree
    <2>3. a \in Nat /\ b \in Nat
      BY <1>1
    <2> HIDE DEF ns, old, a, b
    <2>4. Grown(old) \in Nat /\ a + 1 <= Grown(old)
      BY <2>1, <2>2, <2>3, ArrayAssumption
    <2> QED
      BY <2>4 DEF a
  <1>8. /\ grown \in Object /\ grown.names = Append(ns, name) /\ grown.max = Grown(old)
        /\ grown.data = old.data
    BY <1>1, <1>6, <1>7 DEF Object
  <1>9. /\ DOMAIN m = DOMAIN mem \cup {q}
        /\ m[q] = New(max) /\ m[p] = grown
        /\ \A r \in DOMAIN mem \ {p} : m[r] = mem[r]
    BY <1>2, <1>5 DEF WithElement
  <1>10. /\ New(max) \in Object /\ New(max).names = <<>> /\ New(max).data = <<>> /\ New(max).max = max
         /\ IsInjective(<<>>) /\ Len(<<>>) = 0
    BY DEF New, Object, IsInjective
  <1>11. \A r \in DOMAIN mem : Len(m[r].names) >= Len(mem[r].names)
                               /\ \A i \in 1 .. Len(mem[r].names) : m[r].names[i] = mem[r].names[i]
    <2> TAKE r \in DOMAIN mem
    <2>1. Len(mem[r].names) \in Nat
      BY OfTree
    <2>2. CASE r = p
      <3>1. m[r].names = Append(ns, name)
        BY <1>8, <1>9, <2>2
      <3>2. Len(m[r].names) = Len(ns) + 1 /\ \A i \in 1 .. Len(ns) : m[r].names[i] = ns[i]
        BY <1>6, <3>1
      <3>3. Len(ns) \in Nat /\ ns = mem[r].names
        BY <1>1, <2>2
      <3> HIDE DEF ns
      <3>4. Len(ns) + 1 >= Len(ns)
        BY <3>3
      <3> QED
        BY <3>2, <3>3, <3>4
    <2>3. CASE r # p
      BY <1>9, <2>1, <2>3
    <2> QED
      BY <2>2, <2>3
  <1> HIDE DEF grown, q, ns, old
  <1>12. DOMAIN m \subseteq Path /\ Master \in DOMAIN m
    BY <1>2, <1>9 DEF Tree
  <1>13. ASSUME NEW r \in DOMAIN m
         PROVE  m[r] \in Object /\ IsInjective(m[r].names) /\ (Len(r) < 3 => Len(m[r].names) <= m[r].max)
    <2>1. CASE r = q
      BY <1>9, <1>10, <2>1
    <2>2. CASE r = p
      <3>1. \A i, j \in 1 .. Len(ns) + 1 : Append(ns, name)[i] = Append(ns, name)[j] => i = j
        BY <1>1, <1>4, <1>6
      <3>2. DOMAIN Append(ns, name) = 1 .. Len(ns) + 1
        BY <1>6
      <3>3. IsInjective(m[r].names)
        BY SMTT(30), <1>8, <1>9, <2>2, <3>1, <3>2 DEF IsInjective
      <3> QED
        BY <1>6, <1>7, <1>8, <1>9, <2>2, <3>3
    <2>3. CASE r # p /\ r # q
      BY <1>9, <2>3 DEF Tree
    <2> QED
      BY <2>1, <2>2, <2>3
  <1>14. ASSUME NEW r \in DOMAIN m, NEW i \in 1 .. Len(m[r].names)
         PROVE  Append(r, m[r].names[i]) \in DOMAIN m
    <2>1. CASE r = q
      BY <1>9, <1>10, <1>14, <2>1
    <2>2. CASE r = p
      <3>1. i \in 1 .. Len(ns) + 1 /\ m[p].names = Append(ns, name)
        BY <1>6, <1>8, <1>9, <1>14, <2>2
      <3>2. CASE i = Len(ns) + 1
        BY <1>6, <1>9, <2>2, <3>1, <3>2 DEF q
      <3>3. CASE i \in 1 .. Len(ns)
        <4>1. m[p].names[i] = mem[p].names[i] /\ i \in 1 .. Len(mem[p].names)
          BY <1>6, <3>1, <3>3 DEF ns
        <4>2. Append(p, mem[p].names[i]) \in DOMAIN mem
          BY <4>1 DEF Tree
        <4> QED
          BY <1>9, <2>2, <4>1, <4>2
      <3>4. i = Len(ns) + 1 \/ i \in 1 .. Len(ns)
        BY <1>1, <3>1
      <3> QED
        BY <3>2, <3>3, <3>4
    <2>3. CASE r # p /\ r # q
      BY <1>9, <1>14, <2>3 DEF Tree
    <2> QED
      BY <2>1, <2>2, <2>3
  <1>15. ASSUME NEW r \in DOMAIN m, r # Master
         PROVE  /\ Front(r) \in DOMAIN m
                /\ \E i \in 1 .. Len(m[Front(r)].names) : m[Front(r)].names[i] = Last(r)
    <2>1. CASE r = q
      <3>1. m[p].names[Len(ns) + 1] = name /\ Len(ns) + 1 \in 1 .. Len(m[p].names)
        BY <1>1, <1>6, <1>8, <1>9
      <3> QED
        BY <1>2, <1>9, <2>1, <3>1
    <2>2. CASE r # q
      <3>1. r \in DOMAIN mem
        BY <1>9, <2>2
      <3>2. Front(r) \in DOMAIN mem
        BY <1>15, <3>1 DEF Tree
      <3>3. PICK i \in 1 .. Len(mem[Front(r)].names) : mem[Front(r)].names[i] = Last(r)
        BY <1>15, <3>1 DEF Tree
      <3>4. /\ Len(m[Front(r)].names) >= Len(mem[Front(r)].names)
            /\ m[Front(r)].names[i] = Last(r)
        BY <1>11, <3>2, <3>3
      <3>5. Len(mem[Front(r)].names) \in Nat /\ Front(r) \in DOMAIN m
        BY <1>9, <3>2, OfTree
      <3>6. Len(m[Front(r)].names) \in Nat
        <4>1. m[Front(r)] \in Object
          BY <1>13, <3>5
        <4> QED
          BY <4>1 DEF Object
      <3>7. i \in 1 .. Len(m[Front(r)].names)
        BY <3>4, <3>5, <3>6
      <3> QED
        BY <3>4, <3>5, <3>7
    <2> QED
      BY <2>1, <2>2
  <1>16. ASSUME NEW r \in DOMAIN mem
         PROVE  m[r].data = mem[r].data
    BY <1>8, <1>9 DEF old
  <1>17. ASSUME NEW r \in DOMAIN mem, Len(r) = 3, Len(q) = 3, Front(r) = Front(q)
         PROVE  m[r].data = m[q].data
    <2>1. r # Master
      BY <1>17 DEF Master
    <2>2. r \in Cols(p)
      BY <1>2, <1>17, <2>1, ColsAre
    <2>3. Len(p) = 2
      BY <1>17, <1>2a
    <2> QED
      BY <1>9, <1>10, <1>16, <2>2, <2>3
  <1>18. ASSUME NEW r \in DOMAIN m, NEW s \in DOMAIN m, Len(r) = 3, Len(s) = 3, Front(r) = Front(s)
         PROVE  m[r].data = m[s].data
    <2>1. CASE r \in DOMAIN mem /\ s \in DOMAIN mem
      BY <1>16, <1>18, <2>1 DEF Tree
    <2>2. CASE r = q \/ s = q
      BY <1>9, <1>17, <1>18, <2>2
    <2> QED
      BY <1>9, <2>1, <2>2
  <1> QED
    BY <1>12, <1>13, <1>14, <1>15, <1>18 DEF Tree

\* The paths that the handlers put together.
LEMMA DbPaths ==
  ASSUME NEW d \in DbNames
  PROVE  Append(Master, d) = <<d>> /\ Append(Master, d) \in Path /\ Len(Master) = 0 /\ Len(<<d>>) = 1
  <1>1. d \in Name /\ Master \in Seq(Name) /\ Len(Master) = 0
    BY DEF Name, Master
  <1>2. <<d>> \in Seq(Name) /\ Len(<<d>>) = 1 /\ <<d>>[1] = d
    BY <1>1
  <1>3. LET s == Append(Master, d) IN s \in Seq(Name) /\ Len(s) = 1 /\ s[1] = d
    BY <1>1, Appended
  <1>4. \A i \in 1 .. 1 : Append(Master, d)[i] = <<d>>[i]
    BY <1>2, <1>3
  <1>5. Append(Master, d) = <<d>>
    BY <1>2, <1>3, <1>4, SeqEqual
  <1> QED
    BY <1>1, <1>2, <1>3, <1>5, ShapeIsPath

LEMMA TblPaths ==
  ASSUME NEW d \in DbNames, NEW t \in TblNames
  PROVE  Append(<<d>>, t) = <<d, t>> /\ Append(<<d>>, t) \in Path /\ Len(<<d, t>>) = 2
  <1>1. d \in Name /\ t \in Name
    BY DEF Name
  <1>2. <<d>> \in Seq(Name) /\ Len(<<d>>) = 1 /\ <<d>>[1] = d
    BY <1>1
  <1>3. <<d, t>> \in Seq(Name) /\ Len(<<d, t>>) = 2 /\ <<d, t>>[1] = d /\ <<d, t>>[2] = t
    BY <1>1
  <1>4. LET s == Append(<<d>>, t) IN s \in Seq(Name) /\ Len(s) = 2 /\ s[1] = d /\ s[2] = t
    BY <1>1, <1>2, Appended
  <1>5. \A i \in 1 .. 2 : Append(<<d>>, t)[i] = <<d, t>>[i]
    BY <1>3, <1>4
  <1>6. Append(<<d>>, t) = <<d, t>>
    BY <1>3, <1>4, <1>5, SeqEqual
  <1> QED
    BY <1>3, <1>4, <1>6, ShapeIsPath

LEMMA ColPaths ==
  ASSUME NEW d \in DbNames, NEW t \in TblNames, NEW c \in ColNames
  PROVE  Append(<<d, t>>, c) \in Path
  <1>1. d \in Name /\ t \in Name /\ c \in Name
    BY DEF Name
  <1>2. <<d, t>> \in Seq(Name) /\ Len(<<d, t>>) = 2 /\ <<d, t>>[1] = d /\ <<d, t>>[2] = t
    BY <1>1
  <1>3. LET s == Append(<<d, t>>, c)
        IN  s \in Seq(Name) /\ Len(s) = 3 /\ s[1] = d /\ s[2] = t /\ s[3] = c
    BY <1>1, <1>2, Appended
  <1> QED
    BY <1>3, ShapeIsPath

\* What is found is there.
LEMMA FoundIsThere ==
  ASSUME Tree(mem), NEW p, NEW name, Found(p, name)
  PROVE  p \in DOMAIN mem /\ Append(p, name) \in DOMAIN mem
  <1>1. p \in DOMAIN mem /\ name \in Range(mem[p].names)
    BY DEF Found
  <1>2. DOMAIN mem[p].names = 1 .. Len(mem[p].names)
    BY <1>1, OfTree
  <1>3. PICK i \in 1 .. Len(mem[p].names) : mem[p].names[i] = name
    BY <1>1, <1>2 DEF Range
  <1> QED
    BY <1>1, <1>3 DEF Tree

LEMMA RowAdded ==
  ASSUME Tree(mem), NEW t \in DOMAIN mem, NEW v \in Values,
         mem' = [p \in DOMAIN mem |->
                   IF p \in Cols(t) THEN [mem[p] EXCEPT !.data = Append(@, v)] ELSE mem[p]]
  PROVE  Tree(mem')
  <1> DEFINE m == [p \in DOMAIN mem |->
                     IF p \in Cols(t) THEN [mem[p] EXCEPT !.data = Append(@, v)] ELSE mem[p]]
  <1>1. ASSUME NEW p \in DOMAIN mem
        PROVE  /\ m[p] \in Object /\ m[p].names = mem[p].names /\ m[p].max = mem[p].max
               /\ m[p].data = IF p \in Cols(t) THEN Append(mem[p].data, v) ELSE mem[p].data
    <2>1. mem[p] \in Object
      BY OfTree
    <2>2. Append(mem[p].data, v) \in Seq(Values)
      BY <2>1, AppendProperties DEF Object
    <2> QED
      BY <2>1, <2>2 DEF Object
  <1>2. ASSUME NEW p \in DOMAIN mem, NEW q \in DOMAIN mem,
               Len(p) = 3, Len(q) = 3, Front(p) = Front(q)
        PROVE  m[p].data = m[q].data
    <2>1. p # Master /\ q # Master
      BY <1>2 DEF Master
    <2>2. p \in Cols(t) <=> q \in Cols(t)
      BY <1>2, <2>1, ColsAre
    <2>3. mem[p].data = mem[q].data
      BY <1>2 DEF Tree
    <2> QED
      BY <1>1, <2>2, <2>3
  <1>3. \A p \in DOMAIN mem : Len(p) < 3 => Len(mem[p].names) <= m[p].max
    BY <1>1 DEF Tree
  <1>4. DOMAIN m = DOMAIN mem
    OBVIOUS
  <1> HIDE DEF m
  <1>5. Tree(m)
    BY <1>1, <1>2, <1>3, <1>4, SameNames
  <1> QED
    BY <1>5 DEF m

LEMMA CommandKeepsTree ==
  ASSUME Tree(mem), Command
  PROVE  Tree(mem')
  <1>1. Master \in DOMAIN mem
    BY DEF Tree
  <1>2. ASSUME NEW d \in DbNames, CreateDb(d)
        PROVE  Tree(mem')
    <2>1. d \notin Range(mem[Master].names) /\ mem' = WithElement(Master, d, New(0))
      BY <1>1, <1>2 DEF CreateDb, Found
    <2>2. Append(Master, d) \in Path /\ Len(Master) # 2 /\ 0 \in Nat
      BY DbPaths
    <2> QED
      BY <1>1, <2>1, <2>2, NewElement
  <1>3. ASSUME NEW d \in DbNames, NEW t \in TblNames, NEW n \in {0, 1}, CreateTable(d, t, n)
        PROVE  Tree(mem')
    <2>1. /\ Found(Master, d) /\ ~Found(<<d>>, t)
          /\ mem' = WithElement(<<d>>, t, New(n))
      BY <1>3 DEF CreateTable, ArgDb
    <2>2. <<d>> \in DOMAIN mem
      BY <2>1, FoundIsThere, DbPaths
    <2>3. t \notin Range(mem[<<d>>].names)
      BY <2>1, <2>2 DEF Found
    <2>4. Append(<<d>>, t) \in Path /\ Len(<<d>>) # 2
      BY DbPaths, TblPaths
    <2> QED
      BY <2>1, <2>2, <2>3, <2>4, NewElement
  <1>4. ASSUME NEW d \in DbNames, NEW t \in TblNames, NEW c \in ColNames, CreateColumn(d, t, c)
        PROVE  Tree(mem')
    <2>1. /\ Found(<<d>>, t) /\ ~Found(<<d, t>>, c)
          /\ \A p \in Cols(<<d, t>>) : mem[p].data = <<>>
          /\ mem' = WithElement(<<d, t>>, c, New(0))
      BY <1>4 DEF CreateColumn, ArgTbl
    <2>2. <<d, t>> \in DOMAIN mem
      BY <2>1, FoundIsThere, TblPaths
    <2>3. c \notin Range(mem[<<d, t>>].names)
      BY <2>1, <2>2 DEF Found
    <2>4. Append(<<d, t>>, c) \in Path
      BY ColPaths
    <2> QED
      BY <2>1, <2>2, <2>3, <2>4, NewElement
  <1>5. ASSUME NEW d \in DbNames, NEW t \in TblNames, NEW v \in Values, Insert(d, t, v)
        PROVE  Tree(mem')
    <2>1. /\ Found(<<d>>, t)
          /\ mem' = [p \in DOMAIN mem |->
                       IF p \in Cols(<<d, t>>) THEN [mem[p] EXCEPT !.data = Append(@, v)] ELSE mem[p]]
      BY <1>5 DEF Insert, ArgTbl
    <2>2. <<d, t>> \in DOMAIN mem
      BY <2>1, FoundIsThere, TblPaths
    <2> QED
      BY <2>1, <2>2, RowAdded
  <1> QED
    BY <1>2, <1>3, <1>4, <1>5 DEF Command

---------------------------------------------------------------------------
(* Files.                                                                  *)

\* Listed, of any objects.
Reached(o) ==
  LET dbs  == ElementsOf(o, Master)
      tbls == UNION { ElementsOf(o, p) : p \in dbs }
      cols == UNION { ElementsOf(o, p) : p \in tbls }
  IN  {Master} \cup dbs \cup tbls \cup cols

\* A start reaches all objects of a tree whose names the files hold.
LEMMA TreeIsReached ==
  ASSUME NEW m, Tree(m), NEW o, \A p \in DOMAIN m : o[p].names = m[p].names
  PROVE  Reached(o) = DOMAIN m
  <1> DEFINE dbs  == ElementsOf(o, Master)
             tbls == UNION { ElementsOf(o, p) : p \in dbs }
             cols == UNION { ElementsOf(o, p) : p \in tbls }
  <1>1. Master \in DOMAIN m /\ DOMAIN m \subseteq Path
    BY DEF Tree
  <1>2. \A t \in DOMAIN m : \A p : p \in ElementsOf(o, t) <=> p \in DOMAIN m /\ p # Master /\ Front(p) = t
    BY ElementsAre
  <1>3. ASSUME NEW p \in DOMAIN m
        PROVE  /\ p = Master \/ Len(p) = 1 \/ Len(p) = 2 \/ Len(p) = 3
               /\ p # Master => Front(p) \in DOMAIN m
               /\ Len(p) = 1 => Len(Front(p)) = 0
               /\ Len(p) = 2 => Len(Front(p)) = 1
               /\ Len(p) = 3 => Len(Front(p)) = 2
    <2>1. p \in Path /\ Len(p) \in 0 .. 3 /\ (p = Master <=> Len(p) = 0)
      BY <1>1, PathShape
    <2>3. p # Master => Front(p) \in DOMAIN m
      BY DEF Tree
    <2>4. p # Master => Len(Front(p)) = Len(p) - 1
      BY <2>1, Parent
    <2>5. Len(p) # 0 => p # Master
      BY <2>1
    <2> DEFINE k == Len(p)
               f == Len(Front(p))
    <2>6. k \in 0 .. 3 /\ (k # 0 => f = k - 1) /\ (p = Master <=> k = 0)
      BY <2>1, <2>4, <2>5
    <2> HIDE DEF k, f
    <2>2. p = Master \/ k = 1 \/ k = 2 \/ k = 3
      BY <2>6
    <2>7. (k = 1 => f = 0) /\ (k = 2 => f = 1) /\ (k = 3 => f = 2)
      BY <2>6
    <2> QED
      BY <2>2, <2>3, <2>7 DEF k, f
  <1>4. Len(Master) = 0 /\ \A p \in DOMAIN m : Len(p) = 0 => p = Master
    BY <1>1, PathShape
  <1> HIDE DEF dbs, tbls, cols
  <1>5. dbs \subseteq DOMAIN m /\ \A p \in DOMAIN m : Len(p) = 1 => p \in dbs
    <2>1. dbs \subseteq DOMAIN m
      BY <1>1, <1>2 DEF dbs
    <2>2. ASSUME NEW p \in DOMAIN m, Len(p) = 1
          PROVE  p \in dbs
      <3>1. p # Master
        BY <1>4, <2>2
      <3>2. Front(p) \in DOMAIN m /\ Len(Front(p)) = 0
        BY <1>3, <2>2, <3>1
      <3>3. Front(p) = Master
        BY <1>4, <3>2
      <3> QED
        BY <1>1, <1>2, <3>1, <3>3 DEF dbs
    <2> QED
      BY <2>1, <2>2
  <1>6. tbls \subseteq DOMAIN m /\ \A p \in DOMAIN m : Len(p) = 2 => p \in tbls
    <2>1. tbls \subseteq DOMAIN m
      BY <1>2, <1>5 DEF tbls
    <2>2. ASSUME NEW p \in DOMAIN m, Len(p) = 2
          PROVE  p \in tbls
      <3>1. p # Master
        BY <1>4, <2>2
      <3>2. Front(p) \in DOMAIN m /\ Len(Front(p)) = 1
        BY <1>3, <2>2, <3>1
      <3>3. Front(p) \in dbs /\ p \in ElementsOf(o, Front(p))
        BY <1>2, <1>5, <3>1, <3>2
      <3> QED
        BY <3>3 DEF tbls
    <2> QED
      BY <2>1, <2>2
  <1>7. cols \subseteq DOMAIN m /\ \A p \in DOMAIN m : Len(p) = 3 => p \in cols
    <2>1. cols \subseteq DOMAIN m
      BY <1>2, <1>6 DEF cols
    <2>2. ASSUME NEW p \in DOMAIN m, Len(p) = 3
          PROVE  p \in cols
      <3>1. p # Master
        BY <1>4, <2>2
      <3>2. Front(p) \in DOMAIN m /\ Len(Front(p)) = 2
        BY <1>3, <2>2, <3>1
      <3>3. Front(p) \in tbls /\ p \in ElementsOf(o, Front(p))
        BY <1>2, <1>6, <3>1, <3>2
      <3> QED
        BY <3>3 DEF cols
    <2> QED
      BY <2>1, <2>2
  <1>8. \A p \in DOMAIN m : p = Master \/ Len(p) = 1 \/ Len(p) = 2 \/ Len(p) = 3
    BY <1>3
  <1>9. Reached(o) = {Master} \cup dbs \cup tbls \cup cols
    BY DEF Reached, dbs, tbls, cols
  <1> QED
    BY <1>1, <1>5, <1>6, <1>7, <1>8, <1>9

\* A file for each object of a tree and a start finds just this tree.
LEMMA SavedIsLoaded ==
  ASSUME Tree(mem), \A p \in DOMAIN mem : disk'[p] = Whole(mem[p])
  PROVE  /\ Listed' = DOMAIN mem
         /\ Stored'
         /\ \A p \in DOMAIN mem : Loaded'[p].names = mem[p].names /\ Loaded'[p].data = mem[p].data
  <1>1. DOMAIN mem \subseteq Path /\ Master \in DOMAIN mem
    BY DEF Tree
  <1>2. \A p \in DOMAIN mem : disk'[p].object = mem[p] /\ disk'[p].state = "whole"
    <2> TAKE p \in DOMAIN mem
    <2>1. disk'[p] = [state |-> "whole", object |-> mem[p]]
      BY DEF Whole
    <2> QED
      BY <2>1
  <1>3. Listed' = DOMAIN mem
    <2> DEFINE o == [p \in Path |-> disk'[p].object]
    <2>1. \A p \in DOMAIN mem : o[p].names = mem[p].names
      BY <1>1, <1>2
    <2> HIDE DEF o
    <2>2. Reached(o) = DOMAIN mem
      BY <2>1, TreeIsReached
    <2>3. Listed' = Reached(o)
      BY DEF Listed, Objects, Reached, o
    <2> QED
      BY <2>2, <2>3
  <1>4. Loaded' = [p \in DOMAIN mem |-> IF p = Master THEN RoomForNames(mem[p]) ELSE mem[p]]
    BY <1>2, <1>3 DEF Loaded
  <1> DEFINE n == [p \in DOMAIN mem |-> IF p = Master THEN RoomForNames(mem[p]) ELSE mem[p]]
  <1>5. ASSUME NEW p \in DOMAIN mem
        PROVE  /\ n[p] \in Object /\ n[p].names = mem[p].names /\ n[p].data = mem[p].data
               /\ Len(p) < 3 => Len(mem[p].names) <= n[p].max
    <2>1. mem[p] \in Object /\ Len(mem[p].names) \in Nat
      BY OfTree
    <2>2. CASE p = Master
      <3>1. n[p] = [mem[p] EXCEPT !.max = Len(mem[p].names)]
        BY <2>2 DEF RoomForNames
      <3>2. n[p] \in Object /\ n[p].names = mem[p].names /\ n[p].data = mem[p].data
        BY <2>1, <3>1 DEF Object
      <3>3. n[p].max = Len(mem[p].names)
        BY <2>1, <3>1 DEF Object
      <3> QED
        BY <2>1, <3>2, <3>3
    <2>3. CASE p # Master
      BY <2>1, <2>3 DEF Tree
    <2> QED
      BY <2>2, <2>3
  <1>6. DOMAIN n = DOMAIN mem
    OBVIOUS
  <1>7. Loaded' = n
    BY <1>4
  <1> HIDE DEF n
  <1>8. \A p, q \in DOMAIN mem :
          Len(p) = 3 /\ Len(q) = 3 /\ Front(p) = Front(q) => n[p].data = n[q].data
    BY <1>5 DEF Tree
  <1>9. Tree(n)
    BY <1>5, <1>6, <1>8, SameNames
  <1>10. Stored'
    BY <1>2, <1>3, <1>7, <1>9 DEF Stored
  <1> QED
    BY <1>3, <1>5, <1>7, <1>10

---------------------------------------------------------------------------
(* The walk.                                                               *)

LEMMA OfWalk ==
  ASSUME Tree(mem), Walk
  PROVE  /\ at \in DOMAIN mem /\ at \in Path /\ at \in Open
         /\ Len(at) \in Nat
         /\ next \in Seq(Nat \ {0}) /\ Len(next) = Len(at) + 1 /\ Last(next) = next[Len(at) + 1]
         /\ Last(next) \in Nat \ {0} /\ next # <<>>
         /\ mem[at].names \in Seq(Name) /\ Len(mem[at].names) \in Nat
         /\ \A q \in Open : q \in DOMAIN mem /\ q \in Path /\ Len(q) \in Nat /\ Len(q) <= Len(at)
         /\ \A q \in Open : Len(q) = Len(at) => q = at
  <1>1. at \in DOMAIN mem /\ at \in Path /\ Len(at) \in Nat /\ mem[at].names \in Seq(Name)
        /\ Len(mem[at].names) \in Nat
    <2>1. at \in DOMAIN mem
      BY DEF Walk
    <2>2. at \in Path /\ mem[at].names \in Seq(Name) /\ Len(mem[at].names) \in Nat
      BY <2>1, OfTree
    <2>3. Len(at) \in Nat
      BY <2>2, PathShape
    <2> QED
      BY <2>1, <2>2, <2>3
  <1>2. at \in Open
    BY <1>1 DEF Open, Under
  <1>3. next \in Seq(Nat \ {0}) /\ Len(next) = Len(at) + 1
    BY DEF Walk
  <1>4. next # <<>>
    BY <1>1, <1>3, NonEmpty
  <1>5. Last(next) = next[Len(at) + 1] /\ Last(next) \in Nat \ {0}
    BY <1>3, <1>4, FrontAndLast
  <1>6. \A q \in Open : q \in DOMAIN mem /\ q \in Path /\ Len(q) \in Nat /\ Len(q) <= Len(at)
    <2> TAKE q \in Open
    <2>1. q \in DOMAIN mem /\ Len(q) <= Len(at)
      BY DEF Open, Under
    <2>2. q \in Path
      BY <2>1 DEF Tree
    <2>3. Len(q) \in Nat
      BY <2>2, PathShape
    <2> QED
      BY <2>1, <2>2, <2>3
  <1>7. ASSUME NEW q \in Open, Len(q) = Len(at)
        PROVE  q = at
    <2>1. \A i \in 1 .. Len(q) : q[i] = at[i]
      BY DEF Open, Under
    <2> QED
      BY <1>1, <1>6, <1>7, <2>1, SamePath
  <1> QED
    BY <1>1, <1>2, <1>3, <1>4, <1>5, <1>6, <1>7

\* The file of the next element is opened: it is not one that was passed.
LEMMA OpeningKeepsWalk ==
  ASSUME Tree(mem), disk \in [Path -> File], Walk, Remaining,
         mem' = mem, disk' = [disk EXCEPT ![Element] = Torn], at' = Element, next' = NextIndex
  PROVE  Walk'
  <1> DEFINE n == Len(at)
             k == Last(next)
             e == Element
  <1>1. /\ at \in DOMAIN mem /\ at \in Path /\ at \in Open /\ n \in Nat
        /\ next \in Seq(Nat \ {0}) /\ Len(next) = n + 1 /\ k = next[n + 1] /\ k \in Nat \ {0}
        /\ mem[at].names \in Seq(Name) /\ Len(mem[at].names) \in Nat
        /\ \A q \in Open : q \in DOMAIN mem /\ q \in Path /\ Len(q) \in Nat /\ Len(q) <= n
        /\ \A q \in Open : Len(q) = n => q = at
    BY OfWalk
  <1>2. k \in 1 .. Len(mem[at].names) /\ e = Append(at, mem[at].names[k])
    BY <1>1 DEF Remaining, Element
  <1>2a. mem' = mem /\ at' = e /\ disk' = [disk EXCEPT ![e] = Torn]
    OBVIOUS
  <1> HIDE DEF e, n, k
  <1>3. /\ e \in DOMAIN mem /\ e \in Path /\ Len(e) = n + 1 /\ e # Master
        /\ \A j \in 1 .. n : e[j] = at[j]
    <2>1. at \in DOMAIN mem /\ k \in 1 .. Len(mem[at].names) /\ e = Append(at, mem[at].names[k])
      BY <1>1, <1>2
    <2>2. LET q == Append(at, mem[at].names[k])
          IN  /\ q \in DOMAIN mem /\ q \in Path
              /\ Len(at) \in 0 .. 2 /\ Len(q) = Len(at) + 1 /\ q # Master
              /\ \A j \in 1 .. Len(at) : q[j] = at[j]
              /\ q[Len(at) + 1] = mem[at].names[k]
      BY <2>1, ChildOfTree
    <2> QED
      BY <2>1, <2>2 DEF n
  <1>4. /\ next' \in Seq(Nat \ {0}) /\ Len(next') = n + 2
        /\ \A j \in 1 .. n : next'[j] = next[j]
        /\ next'[n + 1] = k + 1 /\ next'[n + 2] = 1
    <2> DEFINE s == [next EXCEPT ![Len(next)] = @ + 1]
    <2>1. Len(next) = n + 1 /\ Len(next) \in 1 .. Len(next) /\ next[Len(next)] + 1 = k + 1
          /\ k + 1 \in Nat \ {0}
      BY <1>1 DEF n, k
    <2>2. /\ s \in Seq(Nat \ {0}) /\ Len(s) = Len(next)
          /\ \A j \in 1 .. Len(next) : s[j] = IF j = Len(next) THEN k + 1 ELSE next[j]
      BY <1>1, <2>1, ExceptSeq
    <2>3. next' = Append(s, 1) /\ 1 \in Nat \ {0}
      BY DEF NextIndex
    <2> HIDE DEF s
    <2>4. /\ Append(s, 1) \in Seq(Nat \ {0}) /\ Len(Append(s, 1)) = Len(s) + 1
          /\ \A j \in 1 .. Len(s) : Append(s, 1)[j] = s[j]
          /\ Append(s, 1)[Len(s) + 1] = 1
      BY <2>2, <2>3, Appended
    <2>5. next' \in Seq(Nat \ {0}) /\ Len(next') = n + 2 /\ next'[n + 2] = 1
      <3>1. n + 1 + 1 = n + 2
        BY <1>1
      <3> QED
        BY <2>1, <2>2, <2>3, <2>4, <3>1
    <2>6. \A j \in 1 .. n + 1 : next'[j] = IF j = n + 1 THEN k + 1 ELSE next[j]
      BY <2>1, <2>2, <2>3, <2>4
    <2>7. n + 1 \in 1 .. n + 1 /\ \A j \in 1 .. n : j \in 1 .. n + 1 /\ j # n + 1
      BY <1>1
    <2> QED
      BY <2>5, <2>6, <2>7
  <1>5a. Open' = { q \in DOMAIN mem : Len(q) <= n + 1 /\ \A i \in 1 .. Len(q) : e[i] = q[i] }
    BY <1>2a, <1>3 DEF Open, Under
  <1>5b. Open = { q \in DOMAIN mem : Len(q) <= n /\ \A i \in 1 .. Len(q) : at[i] = q[i] }
    BY DEF Open, Under, n
  <1>5. Open \subseteq Open' /\ e \in Open'
    <2>1. e \in Open'
      BY <1>1, <1>3, <1>5a
    <2>2. ASSUME NEW q \in Open
          PROVE  q \in Open'
      <3>1. Len(q) \in Nat /\ Len(q) <= n /\ q \in DOMAIN mem /\ \A i \in 1 .. Len(q) : at[i] = q[i]
        BY <1>1, <1>5b
      <3>2. Len(q) <= n + 1 /\ \A i \in 1 .. Len(q) : i \in 1 .. n
        BY <1>1, <3>1
      <3> QED
        BY <1>3, <1>5a, <3>1, <3>2
    <2> QED
      BY <2>1, <2>2
  <1>6. ASSUME NEW q \in Open', q # e
        PROVE  q \in Open
    <2>1. q \in DOMAIN mem /\ Len(q) <= n + 1 /\ \A i \in 1 .. Len(q) : e[i] = q[i]
      BY <1>5a
    <2>2. q \in Path /\ Len(q) \in Nat
      <3>1. q \in Path
        BY <2>1 DEF Tree
      <3> QED
        BY <3>1, PathShape
    <2>3. Len(q) # n + 1
      BY <1>3, <1>6, <2>1, <2>2, SamePath
    <2>4. Len(q) <= n
      BY <1>1, <2>1, <2>2, <2>3
    <2>5. \A i \in 1 .. Len(q) : at[i] = q[i]
      <3>1. \A i \in 1 .. Len(q) : i \in 1 .. n
        BY <1>1, <2>2, <2>4
      <3> QED
        BY <1>3, <2>1, <3>1
    <2> QED
      BY <1>5b, <2>1, <2>4, <2>5
  <1>7. ~Passed(e)
    <2> SUFFICES ASSUME NEW q \in Open, NEW i \in 1 .. Len(mem[q].names), NEW r,
                        r = Append(q, mem[q].names[i]),
                        i < next[Len(q) + 1], r \notin Open, Under(e, r)
                 PROVE  FALSE
      BY DEF Passed
    <2>1. q \in DOMAIN mem /\ Len(q) \in Nat /\ Len(q) <= n
      BY <1>1
    <2>2. r \in DOMAIN mem /\ r \in Path /\ Len(r) = Len(q) + 1 /\ r[Len(q) + 1] = mem[q].names[i]
      <3>1. q \in DOMAIN mem /\ i \in 1 .. Len(mem[q].names) /\ r = Append(q, mem[q].names[i])
        BY <2>1
      <3>2. LET s == Append(q, mem[q].names[i])
            IN  /\ s \in DOMAIN mem /\ s \in Path
                /\ Len(q) \in 0 .. 2 /\ Len(s) = Len(q) + 1 /\ s # Master
                /\ \A j \in 1 .. Len(q) : s[j] = q[j]
                /\ s[Len(q) + 1] = mem[q].names[i]
        BY <3>1, ChildOfTree
      <3> QED
        BY <3>1, <3>2
    <2>3. Len(r) <= n + 1 /\ \A j \in 1 .. Len(r) : e[j] = r[j]
      BY <1>3 DEF Under
    <2>4. CASE Len(q) < n
      <3>1. Len(r) <= n /\ \A j \in 1 .. Len(r) : j \in 1 .. n
        BY SMTT(30), <1>1, <2>1, <2>2, <2>4
      <3>2. \A j \in 1 .. Len(r) : at[j] = r[j]
        BY <1>3, <2>3, <3>1
      <3> QED
        BY <1>5b, <2>2, <3>1, <3>2
    <2>5. CASE Len(q) = n
      <3>1. q = at
        BY <1>1, <2>5
      <3>2. e = r
        BY <1>3, <2>2, <2>3, <2>5, SamePath
      <3>3. e[n + 1] = mem[at].names[k]
        BY <1>1, <1>2, ChildOfTree DEF n
      <3>4. mem[at].names[i] = mem[at].names[k] /\ i \in 1 .. Len(mem[at].names)
        BY <2>2, <2>5, <3>1, <3>2, <3>3
      <3>5. i = k
        BY <1>1, <1>2, <3>4, OfTree
      <3>6. i < k
        BY <1>1, <2>5
      <3> QED
        BY <1>1, <3>5, <3>6
    <2> QED
      BY <1>1, <2>1, <2>4, <2>5
  <1>8. ASSUME NEW p \in DOMAIN mem, Passed(p)'
        PROVE  Passed(p)
    <2>1. PICK q \in Open' : \E i \in 1 .. Len(mem[q].names) :
            LET r == Append(q, mem[q].names[i])
            IN  i < next'[Len(q) + 1] /\ r \notin Open' /\ Under(p, r)
      BY <1>8 DEF Passed
    <2>2. PICK i \in 1 .. Len(mem[q].names) :
            LET r == Append(q, mem[q].names[i])
            IN  i < next'[Len(q) + 1] /\ r \notin Open' /\ Under(p, r)
      BY <2>1
    <2> DEFINE r == Append(q, mem[q].names[i])
    <2>3. i < next'[Len(q) + 1] /\ r \notin Open' /\ Under(p, r) /\ r \notin Open
      BY <1>5, <2>2
    <2>4. q # e
      <3>1. n + 1 + 1 = n + 2 /\ ~(i < 1)
        BY <1>1
      <3> QED
        BY <1>3, <1>4, <2>3, <3>1
    <2>5. q \in Open /\ Len(q) \in Nat /\ Len(q) <= n
      BY <1>1, <1>6, <2>4
    <2>6. i < next[Len(q) + 1]
      <3>1. CASE Len(q) < n
        <4>1. Len(q) + 1 \in 1 .. n
          BY <1>1, <2>5, <3>1
        <4> QED
          BY <1>4, <2>3, <4>1
      <3>2. CASE Len(q) = n
        <4>1. q = at /\ i < k + 1
          BY <1>1, <1>4, <2>3, <2>5, <3>2
        <4>2. i # k
          BY <1>2, <1>5, <2>3, <4>1
        <4>3. i < k
          BY <1>1, <4>1, <4>2
        <4> QED
          BY <1>1, <3>2, <4>3
      <3> QED
        BY <1>1, <2>5, <3>1, <3>2
    <2> QED
      BY <2>3, <2>5, <2>6 DEF Passed
  <1>9. \A p \in DOMAIN mem : Passed(p)' => disk'[p] = Whole(mem[p])
    <2> TAKE p \in DOMAIN mem
    <2> HAVE Passed(p)'
    <2>1. Passed(p) /\ p # e
      BY <1>7, <1>8
    <2>2. disk[p] = Whole(mem[p]) /\ p \in Path
      BY <2>1 DEF Walk, Tree
    <2> QED
      BY <1>2a, <1>3, <2>1, <2>2
  <1>10. disk'[Master].state = "torn"
    BY <1>2a, <1>3 DEF Walk, Tree
  <1>11. Len(next') = Len(at') + 1 /\ at' = e
    BY <1>1, <1>2a, <1>3, <1>4
  <1> QED
    BY <1>2a, <1>3, <1>4, <1>9, <1>10, <1>11 DEF Walk

\* The file of an object is closed, whose elements have all been passed.
LEMMA ClosingKeepsWalk ==
  ASSUME Tree(mem), disk \in [Path -> File], Walk, at # Master, ~Remaining,
         mem' = mem, disk' = [disk EXCEPT ![at] = Whole(mem[at])],
         at' = Front(at), next' = Front(next)
  PROVE  Walk'
  <1> DEFINE n == Len(at)
             f == Front(at)
             k == Last(next)
  <1>1. /\ at \in DOMAIN mem /\ at \in Path /\ at \in Open /\ n \in Nat
        /\ next \in Seq(Nat \ {0}) /\ Len(next) = n + 1 /\ k = next[n + 1] /\ k \in Nat \ {0}
        /\ next # <<>>
        /\ Len(mem[at].names) \in Nat
        /\ \A q \in Open : q \in DOMAIN mem /\ q \in Path /\ Len(q) \in Nat /\ Len(q) <= n
        /\ \A q \in Open : Len(q) = n => q = at
    BY OfWalk
  <1>2. ~(k <= Len(mem[at].names))
    BY DEF Remaining
  <1>2a. mem' = mem /\ at' = f /\ disk' = [disk EXCEPT ![at] = Whole(mem[at])]
    OBVIOUS
  <1>3. f \in DOMAIN mem /\ Len(f) = n - 1 /\ \A j \in 1 .. Len(f) : f[j] = at[j]
    BY <1>1, Parent DEF Tree
  <1>4. next' \in Seq(Nat \ {0}) /\ Len(next') = n /\ \A j \in 1 .. n : next'[j] = next[j]
    <2>1. Front(next) \in Seq(Nat \ {0}) /\ Len(Front(next)) = Len(next) - 1
          /\ \A j \in 1 .. Len(Front(next)) : Front(next)[j] = next[j]
      BY <1>1, FrontAndLast
    <2>2. n + 1 - 1 = n
      BY <1>1
    <2> QED
      BY <1>1, <2>1, <2>2
  <1> HIDE DEF f, n, k
  <1>5a. Open' = { q \in DOMAIN mem : Len(q) <= n - 1 /\ \A i \in 1 .. Len(q) : f[i] = q[i] }
    BY <1>2a, <1>3 DEF Open, Under
  <1>5b. Open = { q \in DOMAIN mem : Len(q) <= n /\ \A i \in 1 .. Len(q) : at[i] = q[i] }
    BY DEF Open, Under, n
  <1>5. Open' \subseteq Open
    <2> SUFFICES ASSUME NEW q \in Open' PROVE q \in Open
      OBVIOUS
    <2>1. q \in DOMAIN mem /\ Len(q) <= n - 1 /\ \A i \in 1 .. Len(q) : f[i] = q[i]
      BY <1>5a
    <2>2. Len(q) \in Nat
      BY <2>1, OfTree, PathShape
    <2>3. Len(q) <= n /\ \A i \in 1 .. Len(q) : i \in 1 .. n - 1
      BY <1>1, <2>1, <2>2
    <2> QED
      BY <1>3, <1>5b, <2>1, <2>3
  <1>6. ASSUME NEW q \in Open, q # at
        PROVE  q \in Open'
    <2>1. q \in DOMAIN mem /\ Len(q) \in Nat /\ Len(q) <= n /\ Len(q) # n
          /\ \A i \in 1 .. Len(q) : at[i] = q[i]
      BY <1>1, <1>5b, <1>6
    <2>2. Len(q) <= n - 1 /\ \A i \in 1 .. Len(q) : i \in 1 .. n - 1
      BY <1>1, <2>1
    <2> QED
      BY <1>3, <1>5a, <2>1, <2>2
  <1>7. ASSUME NEW p \in DOMAIN mem, Under(p, at), p # at
        PROVE  Passed(p)
    <2>1. PICK i \in 1 .. Len(mem[at].names) : Under(p, Append(at, mem[at].names[i]))
      BY <1>1, <1>7, Way
    <2>2. Len(Append(at, mem[at].names[i])) = n + 1
      BY <1>1, ChildOfTree DEF n
    <2>3. ~(n + 1 <= n)
      BY <1>1
    <2>4. Append(at, mem[at].names[i]) \notin Open
      BY <1>1, <2>2, <2>3
    <2>5. i < next[Len(at) + 1]
      BY <1>1, <1>2 DEF n
    <2> QED
      BY <1>1, <2>1, <2>4, <2>5 DEF Passed
  <1>8. ASSUME NEW p \in DOMAIN mem, Passed(p)'
        PROVE  p = at \/ Passed(p)
    <2>1. PICK q \in Open' : \E i \in 1 .. Len(mem[q].names) :
            LET r == Append(q, mem[q].names[i])
            IN  i < next'[Len(q) + 1] /\ r \notin Open' /\ Under(p, r)
      BY <1>8 DEF Passed
    <2>2. PICK i \in 1 .. Len(mem[q].names) :
            LET r == Append(q, mem[q].names[i])
            IN  i < next'[Len(q) + 1] /\ r \notin Open' /\ Under(p, r)
      BY <2>1
    <2> DEFINE r == Append(q, mem[q].names[i])
    <2>3. i < next'[Len(q) + 1] /\ r \notin Open' /\ Under(p, r)
      BY <2>2
    <2>4. q \in Open /\ i < next[Len(q) + 1]
      <3>1. q \in Open /\ Len(q) \in Nat /\ Len(q) <= n - 1
        BY <1>1, <1>5, <1>5a
      <3>2. Len(q) + 1 \in 1 .. n
        BY <1>1, <3>1
      <3> QED
        BY <1>4, <2>3, <3>1, <3>2
    <2>5. CASE r \notin Open
      BY <2>3, <2>4, <2>5 DEF Passed
    <2>6. CASE r \in Open
      <3>1. r = at
        BY <1>6, <2>3, <2>6
      <3> QED
        BY <1>7, <2>3, <3>1
    <2> QED
      BY <2>5, <2>6
  <1>9. \A p \in DOMAIN mem : Passed(p)' => disk'[p] = Whole(mem[p])
    <2> TAKE p \in DOMAIN mem
    <2> HAVE Passed(p)'
    <2>1. p \in Path
      BY DEF Tree
    <2>2. CASE p = at
      BY <1>1, <1>2a, <2>1, <2>2
    <2>3. CASE p # at
      <3>1. disk[p] = Whole(mem[p])
        BY <1>8, <2>3 DEF Walk
      <3> QED
        BY <1>2a, <2>1, <2>3, <3>1
    <2> QED
      BY <2>2, <2>3
  <1>10. disk'[Master].state = "torn"
    BY <1>2a DEF Walk, Tree
  <1>11. Len(next') = Len(at') + 1 /\ at' = f
    BY <1>1, <1>2a, <1>3, <1>4
  <1> QED
    BY <1>2a, <1>3, <1>4, <1>9, <1>10, <1>11 DEF Walk

\* At the end of persist_dbs all files but the master file have been written.
LEMMA AllWritten ==
  ASSUME Tree(mem), Walk, at = Master, ~Remaining
  PROVE  \A p \in DOMAIN mem : p # Master => disk[p] = Whole(mem[p])
  <1> SUFFICES ASSUME NEW p \in DOMAIN mem, p # Master
               PROVE  disk[p] = Whole(mem[p])
    OBVIOUS
  <1>1. /\ Master \in DOMAIN mem /\ Master \in Path /\ Master \in Open /\ Len(Master) = 0
        /\ Len(mem[Master].names) \in Nat
        /\ Last(next) = next[Len(Master) + 1] /\ Last(next) \in Nat
        /\ \A q \in Open : Len(q) \in Nat /\ Len(q) <= 0
    BY OfWalk DEF Master
  <1>2. ~(Last(next) <= Len(mem[Master].names))
    BY DEF Remaining
  <1>3. Under(p, Master)
    <2>1. Len(p) \in Nat
      BY OfTree, PathShape
    <2>2. 0 <= Len(p) /\ 1 .. 0 = {}
      BY <2>1
    <2> QED
      BY <1>1, <2>2 DEF Under
  <1>4. PICK i \in 1 .. Len(mem[Master].names) : Under(p, Append(Master, mem[Master].names[i]))
    BY <1>1, <1>3, Way
  <1>5. Len(Append(Master, mem[Master].names[i])) = 1
    BY <1>1, ChildOfTree
  <1> DEFINE r == Append(Master, mem[Master].names[i])
  <1>5a. Len(r) = 1
    BY <1>5
  <1>5b. \A q \in Open : Len(q) # 1
    BY SMTT(30), <1>1
  <1> HIDE DEF r
  <1>6a. r \notin Open
    BY <1>5a, <1>5b
  <1>6. Append(Master, mem[Master].names[i]) \notin Open
    BY <1>6a DEF r
  <1>7. i < next[Len(Master) + 1]
    BY <1>1, <1>2
  <1>8. Passed(p)
    BY <1>1, <1>4, <1>6, <1>7 DEF Passed
  <1> QED
    BY <1>8 DEF Walk

---------------------------------------------------------------------------
(* The steps.                                                              *)

\* What is written to a file.
LEMMA FilesAre ==
  /\ Torn \in File /\ IsInjective(Torn.object.names) /\ Torn.state = "torn"
  /\ Absent \in File /\ IsInjective(Absent.object.names) /\ Absent.state = "absent"
  /\ \A o \in Object : Whole(o) \in File /\ Whole(o).object = o /\ Whole(o).state = "whole"
  <1>3. New(0) \in Object /\ IsInjective(New(0).names)
    <2>1. NoDbs[Master] = New(0) /\ Master \in DOMAIN NoDbs
      BY DEF NoDbs
    <2> HIDE DEF NoDbs, New
    <2>2. NoDbs[Master] \in Object /\ IsInjective(NoDbs[Master].names)
      BY <2>1, FirstTree DEF Tree
    <2> QED
      BY <2>1, <2>2
  <1>4. Torn = [state |-> "torn", object |-> New(0)] /\ Absent = [state |-> "absent", object |-> New(0)]
    BY DEF Torn, Absent
  <1> QED
    BY <1>3, <1>4 DEF File, Whole

LEMMA WritingKeepsFiles ==
  ASSUME Files, NEW p \in Path, NEW f \in File, IsInjective(f.object.names),
         disk' = [disk EXCEPT ![p] = f]
  PROVE  Files'
  <1>1. disk' \in [Path -> File]
    BY DEF Files
  <1>2. \A q \in Path : disk'[q] = IF q = p THEN f ELSE disk[q]
    BY DEF Files
  <1> QED
    BY <1>1, <1>2 DEF Files

\* What a start finds depends on the files only.
LEMMA SameFiles ==
  ASSUME UNCHANGED disk
  PROVE  /\ Listed' = Listed /\ Loaded' = Loaded
         /\ Files => Files'
         /\ Stored => Stored'
  <1>1. Objects' = Objects
    BY DEF Objects
  <1>2. Listed' = Listed
    BY <1>1 DEF Listed
  <1>3. Loaded' = Loaded
    BY <1>2 DEF Loaded
  <1>4. Files => Files'
    BY DEF Files
  <1>5. Stored => Stored'
    BY <1>2, <1>3 DEF Stored
  <1> QED
    BY <1>2, <1>3, <1>4, <1>5

LEMMA MasterIsPath == Master \in Path
  BY DEF Path

LEMMA ExitKeeps ==
  ASSUME IInv, Exit, UNCHANGED disk
  PROVE  IInv'
  <1>1. Tree(mem')
    BY FirstTree DEF Exit
  <1>2. Files' /\ Stored'
    BY SameFiles DEF IInv
  <1>3. up' = "down" /\ at' = Master
    BY DEF Exit
  <1> QED
    BY <1>1, <1>2, <1>3, MasterIsPath DEF IInv

LEMMA ServeKeeps ==
  ASSUME IInv, Serve
  PROVE  IInv'
  <1>1. Tree(mem')
    BY CommandKeepsTree DEF IInv, Serve
  <1>2. Files' /\ Stored'
    BY SameFiles DEF IInv, Serve
  <1>3. up = "serving" /\ up' = up /\ at' = at
    BY DEF Serve
  <1> QED
    BY <1>1, <1>2, <1>3 DEF IInv

LEMMA PersistDbsKeeps ==
  ASSUME IInv, PersistDbs
  PROVE  IInv'
  <1>1. /\ up' = "saving" /\ disk' = [disk EXCEPT ![Master] = Torn]
        /\ at' = Master /\ next' = <<1>> /\ mem' = mem
    BY DEF PersistDbs, MasterWhileSaving
  <1>2. Tree(mem) /\ Files
    BY DEF IInv
  <1>3. Files'
    BY <1>1, <1>2, FilesAre, MasterIsPath, WritingKeepsFiles
  <1>4. disk'[Master].state = "torn"
    BY <1>1, <1>2, FilesAre, MasterIsPath DEF Files
  <1>5. Stored'
    BY <1>4 DEF Stored
  <1>6. Len(Master) = 0
    BY DEF Master
  <1>7. ASSUME NEW p \in DOMAIN mem
        PROVE  ~Passed(p)'
    <2> SUFFICES ASSUME NEW q \in Open', NEW i \in 1 .. Len(mem[q].names), i < next'[Len(q) + 1]
                 PROVE  FALSE
      BY <1>1 DEF Passed
    <2>1. q \in DOMAIN mem /\ Len(q) <= 0
      BY <1>1, <1>6 DEF Open, Under
    <2>2. Len(q) \in Nat
      BY <1>2, <2>1, OfTree, PathShape
    <2>3. Len(q) + 1 = 1 /\ next'[1] = 1
      BY <1>1, <2>1, <2>2
    <2>4. i < 1
      BY <2>3
    <2> QED
      BY <2>4
  <1>8. Walk'
    <2>1. next' \in Seq(Nat \ {0}) /\ Len(next') = 1
      BY <1>1
    <2>2. Master \in DOMAIN mem
      BY <1>2 DEF Tree
    <2> QED
      BY <1>1, <1>4, <1>6, <1>7, <2>1, <2>2 DEF Walk
  <1> QED
    BY <1>1, <1>2, <1>3, <1>5, <1>8, MasterIsPath DEF IInv

LEMMA OpenElementKeeps ==
  ASSUME IInv, up = "saving", Remaining, OpenElement
  PROVE  IInv'
  <1>1. CASE Element \in Unwritable
    BY <1>1, ExitKeeps DEF OpenElement
  <1>2. CASE Element \notin Unwritable
    <2>1. /\ disk' = [disk EXCEPT ![Element] = Torn]
          /\ at' = Element /\ next' = NextIndex /\ mem' = mem /\ up' = up
      BY <1>2 DEF OpenElement
    <2>2. Tree(mem) /\ Files /\ disk \in [Path -> File] /\ Walk
      BY DEF IInv, Files
    <2>3. Walk'
      BY <2>1, <2>2, OpeningKeepsWalk
    <2>4. at' \in DOMAIN mem
      BY <2>1, <2>3 DEF Walk
    <2>5. Element \in Path /\ at' \in Path
      BY <2>1, <2>2, <2>4 DEF Tree
    <2>6. Files'
      BY <2>1, <2>2, <2>5, FilesAre, WritingKeepsFiles
    <2>7. Stored'
      BY <2>3 DEF Walk, Stored
    <2> QED
      BY <2>1, <2>2, <2>3, <2>5, <2>6, <2>7 DEF IInv
  <1> QED
    BY <1>1, <1>2

LEMMA CloseFileKeeps ==
  ASSUME IInv, CloseFile
  PROVE  IInv'
  <1>1. /\ up = "saving" /\ at # Master /\ ~Remaining
        /\ disk' = [disk EXCEPT ![at] = Whole(mem[at])]
        /\ at' = Front(at) /\ next' = Front(next) /\ mem' = mem /\ up' = up
    BY DEF CloseFile
  <1>2. Tree(mem) /\ Files /\ disk \in [Path -> File] /\ Walk
    BY <1>1 DEF IInv, Files
  <1>3. Walk'
    BY <1>1, <1>2, ClosingKeepsWalk
  <1>4. at' \in DOMAIN mem /\ at' \in Path
    BY <1>1, <1>2, <1>3 DEF Walk, Tree
  <1>5. Files'
    <2>1. at \in DOMAIN mem
      BY <1>2 DEF Walk
    <2>2. at \in Path /\ mem[at] \in Object /\ IsInjective(mem[at].names)
      BY <1>2, <2>1 DEF Tree
    <2>3. Whole(mem[at]) \in File /\ Whole(mem[at]).object = mem[at]
      BY <2>2, FilesAre
    <2> QED
      BY <1>1, <1>2, <2>2, <2>3, WritingKeepsFiles
  <1>6. Stored'
    BY <1>3 DEF Walk, Stored
  <1> QED
    BY <1>1, <1>2, <1>3, <1>4, <1>5, <1>6 DEF IInv

\* When the master file is closed, all files are as the objects in memory.
LEMMA ClosingMaster ==
  ASSUME IInv, CloseMaster
  PROVE  /\ Tree(mem) /\ mem' = mem /\ at = Master /\ at' = Master
         /\ up = "saving" /\ up' = "saved" /\ Files'
         /\ \A p \in DOMAIN mem : disk'[p] = Whole(mem[p])
  <1>1. /\ up = "saving" /\ at = Master /\ ~Remaining /\ up' = "saved"
        /\ disk' = [disk EXCEPT ![Master] = Whole(mem[Master])] /\ mem' = mem /\ at' = at
    BY DEF CloseMaster
  <1>2. Tree(mem) /\ Files /\ Walk
    BY <1>1 DEF IInv
  <1>3. Master \in DOMAIN mem /\ Master \in Path
    BY <1>2, MasterIsPath DEF Tree
  <1>4. Files'
    <2>1. mem[Master] \in Object /\ IsInjective(mem[Master].names)
      BY <1>2, <1>3 DEF Tree
    <2>2. Whole(mem[Master]) \in File /\ Whole(mem[Master]).object = mem[Master]
      BY <2>1, FilesAre
    <2> QED
      BY <1>1, <1>2, <1>3, <2>1, <2>2, WritingKeepsFiles
  <1>5. \A p \in DOMAIN mem : p # Master => disk[p] = Whole(mem[p])
    BY <1>1, <1>2, AllWritten
  <1>6. \A p \in DOMAIN mem : p \in Path
    BY <1>2 DEF Tree
  <1>7. \A p \in DOMAIN mem : disk'[p] = Whole(mem[p])
    BY <1>1, <1>2, <1>3, <1>5, <1>6 DEF Files
  <1> QED
    BY <1>1, <1>2, <1>4, <1>7

LEMMA CloseMasterKeeps ==
  ASSUME IInv, CloseMaster
  PROVE  IInv'
  <1>1. /\ Tree(mem) /\ mem' = mem /\ at' = Master /\ up' = "saved" /\ Files'
        /\ \A p \in DOMAIN mem : disk'[p] = Whole(mem[p])
    BY ClosingMaster
  <1>2. Stored'
    BY <1>1, SavedIsLoaded
  <1> QED
    BY <1>1, <1>2, MasterIsPath DEF IInv

LEMMA LoadDbsKeeps ==
  ASSUME IInv, LoadDbs
  PROVE  IInv'
  <1>1. disk' = disk /\ at' = at /\ up = "down" /\ up' = "serving"
    BY DEF LoadDbs
  <1>2. Files' /\ Stored'
    BY <1>1, SameFiles DEF IInv
  <1>3. mem' = NoDbs \/ (disk[Master].state = "whole" /\ mem' = Loaded)
    BY DEF LoadDbs
  <1>4. Tree(mem')
    BY <1>3, FirstTree DEF IInv, Stored
  <1> QED
    BY <1>1, <1>2, <1>4 DEF IInv

LEMMA StutterKeeps ==
  ASSUME IInv, UNCHANGED vars
  PROVE  IInv'
  <1>1. mem' = mem /\ disk' = disk /\ up' = up /\ at' = at /\ next' = next
    BY DEF vars
  <1>2. Files' /\ Stored'
    BY <1>1, SameFiles DEF IInv
  <1>3. Walk => Walk'
    BY <1>1 DEF Walk, Passed, Open
  <1> QED
    BY <1>1, <1>2, <1>3 DEF IInv

LEMMA InitIsInv ==
  ASSUME Init
  PROVE  IInv
  <1>1. mem = NoDbs /\ disk = [p \in Path |-> Absent] /\ up = "serving" /\ at = Master
    BY DEF Init, CatalogInit
  <1>2. Files
    BY <1>1, FilesAre DEF Files
  <1>3. Stored
    <2>1. disk[Master].state = "absent"
      BY <1>1, FilesAre, MasterIsPath
    <2> QED
      BY <2>1 DEF Stored
  <1> QED
    BY <1>1, <1>2, <1>3, FirstTree, MasterIsPath DEF IInv

LEMMA StepKeeps ==
  ASSUME IInv, [Next]_vars
  PROVE  IInv'
  <1>1. CASE Serve
    BY <1>1, ServeKeeps
  <1>2. CASE PersistDbs
    BY <1>2, PersistDbsKeeps
  <1>3. CASE PersistDb
    BY <1>3, OpenElementKeeps DEF PersistDb
  <1>4. CASE PersistTable
    BY <1>4, OpenElementKeeps DEF PersistTable
  <1>5. CASE PersistColumn
    BY <1>5, OpenElementKeeps DEF PersistColumn
  <1>6. CASE CloseFile
    BY <1>6, CloseFileKeeps
  <1>7. CASE CloseMaster
    BY <1>7, CloseMasterKeeps
  <1>8. CASE DropDbs
    BY <1>8, ExitKeeps DEF DropDbs
  <1>9. CASE Crash
    BY <1>9, ExitKeeps DEF Crash
  <1>10. CASE LoadDbs
    BY <1>10, LoadDbsKeeps
  <1>11. CASE LoadFails \/ UNCHANGED vars
    BY <1>11, StutterKeeps DEF LoadFails
  <1> QED
    BY <1>1, <1>2, <1>3, <1>4, <1>5, <1>6, <1>7, <1>8, <1>9, <1>10, <1>11 DEF Next

\* All reachable states satisfy the invariant.
THEOREM Invariance == Spec => []IInv
  BY InitIsInv, StepKeeps, PTL DEF Spec

---------------------------------------------------------------------------
(* What the invariant says.                                                *)

\* Names are unique in each array that a lookup searches, in memory and in the
\* files; an object is in memory if and only if an array lists its name.
THEOREM TypeCorrect == Spec => []TypeOK
  <1>1. IInv => TypeOK
    <2> SUFFICES ASSUME IInv
                 PROVE  TypeOK
      OBVIOUS
    <2>1. Tree(mem) /\ Files /\ at \in Path
      BY DEF IInv
    <2>2. DOMAIN mem \subseteq Path /\ Master \in DOMAIN mem
          /\ \A p \in DOMAIN mem : mem[p] \in Object /\ IsInjective(mem[p].names)
      BY <2>1 DEF Tree
    <2>3. Range(mem) \subseteq Object
      BY <2>2 DEF Range
    <2>4. \A p \in Path : disk[p].object \in Object /\ IsInjective(disk[p].object.names)
      BY <2>1 DEF Files, File
    <2>5. DOMAIN mem = {Master} \cup UNION { ElementsOf(mem, p) : p \in DOMAIN mem }
      <3>1. \A t \in DOMAIN mem : \A p :
              p \in ElementsOf(mem, t) <=> p \in DOMAIN mem /\ p # Master /\ Front(p) = t
        BY <2>1, ElementsAre
      <3>2. \A p \in DOMAIN mem : p # Master => Front(p) \in DOMAIN mem
        BY <2>1 DEF Tree
      <3>3. \A p \in DOMAIN mem : p # Master => p \in ElementsOf(mem, Front(p))
        BY <3>1, <3>2
      <3> HIDE DEF ElementsOf
      <3> QED
        BY <2>2, <3>1, <3>2, <3>3
    <2>6. up = "saving" => at \in DOMAIN mem /\ Len(next) = Len(at) + 1
      BY DEF IInv, Walk
    <2> QED
      BY <2>1, <2>2, <2>3, <2>4, <2>5, <2>6 DEF TypeOK
  <1> QED
    BY <1>1, Invariance, PTL

\* No array lists more elements than memory was allocated for, before or after a
\* restart, which allocates the databases without reserve.
THEOREM ArraysHaveRoom == Spec => []Allocated
  <1>1. IInv => Allocated
    BY DEF IInv, Tree, Allocated
  <1> QED
    BY <1>1, Invariance, PTL

\* What a start reads when the master file is whole.
LEMMA OfStore ==
  ASSUME IInv, disk[Master].state = "whole"
  PROVE  /\ Tree(Loaded) /\ DOMAIN Loaded = Listed /\ Readable
         /\ \A p \in Listed : /\ disk[p].object \in Object
                              /\ Loaded[p].data = disk[p].object.data
                              /\ p # Master => Loaded[p] = disk[p].object
  <1>1. Tree(Loaded) /\ Readable /\ Files
    BY DEF IInv, Stored, Readable
  <1>2. DOMAIN Loaded = Listed
    BY DEF Loaded
  <1>3. \A p \in Listed : Loaded[p] = IF p = Master THEN RoomForNames(disk[p].object)
                                                    ELSE disk[p].object
    BY DEF Loaded
  <1>4. ASSUME NEW p \in Listed
        PROVE  disk[p].object \in Object
    <2>1. p \in Path
      BY <1>1, <1>2 DEF Tree
    <2> QED
      BY <1>1, <2>1 DEF Files, File
  <1>5. \A o \in Object : RoomForNames(o).data = o.data
    BY DEF RoomForNames, Object
  <1> QED
    BY <1>1, <1>2, <1>3, <1>4, <1>5

\* When the master file is whole, so is every file that a start will read, and
\* the columns of each table have the same rows: a save closes the master file
\* last, and no later save leaves it whole while the others are written.
THEOREM FinishedSaveIsWhole == Spec => []WholeStore
  <1>1. IInv => WholeStore
    <2> SUFFICES ASSUME IInv, disk[Master].state = "whole"
                 PROVE  WholeStore
      BY DEF WholeStore
    <2>1. /\ Tree(Loaded) /\ DOMAIN Loaded = Listed /\ Readable
          /\ \A p \in Listed : Loaded[p].data = disk[p].object.data
      BY OfStore
    <2>2. \A p, q \in Listed : Len(p) = 3 /\ Len(q) = 3 /\ Front(p) = Front(q)
                                 => Loaded[p].data = Loaded[q].data
      BY <2>1 DEF Tree
    <2> QED
      BY <2>1, <2>2 DEF WholeStore, Readable
  <1> QED
    BY <1>1, Invariance, PTL

\* A server can start from every finished save, but for those with a database or
\* a table that lists nothing.
THEOREM FinishedSaveStarts == Spec => []Startable
  <1>1. IInv => Startable
    <2> SUFFICES ASSUME IInv, disk[Master].state = "whole", ~RoomAsserted
                 PROVE  \E p \in Listed : Len(p) \in {1, 2} /\ disk[p].object.names = <<>>
      BY OfStore DEF Startable
    <2>1. PICK p \in Listed : Len(p) \in {1, 2} /\ ~(disk[p].object.max > 0)
      BY DEF RoomAsserted
    <2>2. /\ Tree(Loaded) /\ DOMAIN Loaded = Listed
          /\ disk[p].object \in Object /\ (p # Master => Loaded[p] = disk[p].object)
      BY OfStore
    <2>3. p # Master
      BY SMTT(30), <2>1 DEF Master
    <2>4. disk[p].object.max \in Nat /\ disk[p].object.names \in Seq(Name)
      BY <2>2 DEF Object
    <2>5. Len(p) < 3
      <3>1. \A k \in {1, 2} : k < 3
        OBVIOUS
      <3> QED
        BY <2>1, <3>1
    <2>6. Len(disk[p].object.names) <= disk[p].object.max
      BY <2>2, <2>3, <2>5 DEF Tree
    <2>7. Len(disk[p].object.names) = 0
      BY <2>1, <2>4, <2>6
    <2>8. disk[p].object.names = <<>>
      BY <2>4, <2>7, EmptySeq
    <2> QED
      BY <2>1, <2>8
  <1> QED
    BY <1>1, Invariance, PTL

---------------------------------------------------------------------------
(* What saving promises.                                                   *)

\* What a start would find; WITH replaces the variable kept by it.
Kept == Contents(IF disk[Master].state = "whole" THEN Loaded ELSE NoDbs)

LEMMA KeptIsKept ==
  ASSUME UNCHANGED disk
  PROVE  Kept' = Kept
  <1>1. Loaded' = Loaded
    BY SameFiles
  <1> QED
    BY <1>1 DEF Kept, Contents, NoDbs

LEMMA TornKeepsNothing ==
  ASSUME disk[Master].state # "whole"
  PROVE  Kept = Contents(NoDbs)
  BY DEF Kept

\* Opening and closing files changes nothing that a start would find, and the
\* last file that is closed, the master file, changes it to what is in memory.
THEOREM ImplementsArchive == Spec => RefinesArchive
  <1>1. Init => Saved!Init
    <2> SUFFICES ASSUME Init
                 PROVE  Saved!Init
      OBVIOUS
    <2>1. mem = NoDbs /\ disk = [p \in Path |-> Absent] /\ up = "serving"
      BY DEF Init, CatalogInit
    <2>2. disk[Master].state # "whole"
      BY <2>1, FilesAre, MasterIsPath
    <2>3. Kept = Contents(NoDbs)
      BY <2>2, TornKeepsNothing
    <2> QED
      BY <2>1, <2>3 DEF Saved!Init, Kept
  <1>2. IInv /\ IInv' /\ [Next]_vars => [Saved!Next]_Saved!vars
    <2> SUFFICES ASSUME IInv, IInv', [Next]_vars
                 PROVE  [Saved!Next]_Saved!vars
      OBVIOUS
    <2>1. ASSUME Exit, UNCHANGED disk, up # "down"
          PROVE  Saved!Next
      <3>1. mem' = NoDbs /\ up' = "down"
        BY <2>1 DEF Exit
      <3>2. Contents(mem)' = Contents(NoDbs)
        BY <3>1 DEF Contents
      <3>3. Saved!End
        BY <2>1, <3>1, <3>2, KeptIsKept DEF Saved!End, Kept
      <3> QED
        BY <3>3 DEF Saved!Next
    <2>2. CASE Serve
      <3>1. up = "serving" /\ up' = up /\ Kept' = Kept
        BY <2>2, KeptIsKept DEF Serve
      <3>2. Saved!Change
        BY <3>1 DEF Saved!Change, Kept
      <3> QED
        BY <3>2 DEF Saved!Next
    <2>3. CASE PersistDbs
      <3>1. up = "serving" /\ up' = "saving" /\ mem' = mem
        BY <2>3 DEF PersistDbs
      <3>2. disk'[Master].state # "whole"
        BY <3>1 DEF IInv, Walk
      <3>3. Kept' = Contents(NoDbs)
        BY <3>2, TornKeepsNothing DEF Kept, Contents, NoDbs
      <3>4. Saved!BeginSave
        BY <3>1, <3>3 DEF Saved!BeginSave, Kept, Contents
      <3> QED
        BY <3>4 DEF Saved!Next
    <2>4. ASSUME up = "saving", mem' = mem, up' = up
          PROVE  UNCHANGED Saved!vars
      <3>1. disk[Master].state # "whole" /\ disk'[Master].state # "whole"
        BY <2>4 DEF IInv, Walk
      <3>2. Kept = Contents(NoDbs) /\ Kept' = Contents(NoDbs)
        BY <3>1 DEF Kept, Contents, NoDbs
      <3>3. Contents(mem)' = Contents(mem)
        BY <2>4 DEF Contents
      <3> QED
        BY <2>4, <3>2, <3>3 DEF Saved!vars, Kept
    <2>5. ASSUME up = "saving", OpenElement
          PROVE  Saved!Next \/ UNCHANGED Saved!vars
      BY <2>1, <2>4, <2>5 DEF OpenElement
    <2>6. CASE PersistDb \/ PersistTable \/ PersistColumn
      BY <2>5, <2>6 DEF PersistDb, PersistTable, PersistColumn
    <2>7. CASE CloseFile
      BY <2>4, <2>7 DEF CloseFile
    <2>8. CASE CloseMaster
      <3>1. /\ Tree(mem) /\ mem' = mem /\ up = "saving" /\ up' = "saved"
            /\ \A p \in DOMAIN mem : disk'[p] = Whole(mem[p])
        BY <2>8, ClosingMaster
      <3>2. /\ Listed' = DOMAIN mem
            /\ \A p \in DOMAIN mem : /\ Loaded'[p].names = mem[p].names
                                     /\ Loaded'[p].data = mem[p].data
        BY <3>1, SavedIsLoaded
      <3>3. DOMAIN Loaded' = DOMAIN mem
        BY <3>2 DEF Loaded
      <3>4. disk'[Master].state = "whole"
        <4>1. Master \in DOMAIN mem
          BY <3>1 DEF Tree
        <4>2. disk'[Master] = [state |-> "whole", object |-> mem[Master]]
          BY <3>1, <4>1 DEF Whole
        <4> QED
          BY <4>2
      <3>5. Kept' = Contents(Loaded')
        BY <3>4 DEF Kept, Contents
      <3>6. Contents(Loaded') = Contents(mem)
        BY <3>2, <3>3 DEF Contents
      <3>7. Contents(mem)' = Contents(mem)
        BY <3>1 DEF Contents
      <3>8. Saved!EndSave
        BY <3>1, <3>5, <3>6, <3>7 DEF Saved!EndSave, Kept
      <3> QED
        BY <3>8 DEF Saved!Next
    <2>9. CASE DropDbs
      BY <2>1, <2>9 DEF DropDbs
    <2>10. CASE Crash
      BY <2>1, <2>10 DEF Crash
    <2>11. CASE LoadDbs
      <3>1. up = "down" /\ up' = "serving" /\ disk' = disk
        BY <2>11 DEF LoadDbs
      <3>2. mem' = IF disk[Master].state = "whole" THEN Loaded ELSE NoDbs
        BY <2>11 DEF LoadDbs
      <3>3. Contents(mem)' = Kept
        BY <3>2 DEF Kept, Contents
      <3>4. Kept' = Kept
        BY <3>1, KeptIsKept
      <3>5. Saved!Recover
        BY <3>1, <3>3, <3>4 DEF Saved!Recover, Kept
      <3> QED
        BY <3>5 DEF Saved!Next
    <2>12. CASE LoadFails \/ UNCHANGED vars
      <3>1. mem' = mem /\ disk' = disk /\ up' = up
        BY <2>12 DEF LoadFails, vars
      <3>2. Kept' = Kept /\ Contents(mem)' = Contents(mem)
        BY <3>1, KeptIsKept DEF Contents
      <3> QED
        BY <3>1, <3>2 DEF Saved!vars, Kept
    <2> QED
      BY <2>2, <2>3, <2>6, <2>7, <2>8, <2>9, <2>10, <2>11, <2>12 DEF Next
  <1> QED
    BY <1>1, <1>2, Invariance, PTL DEF Spec, RefinesArchive, Saved!Spec
=============================================================================
