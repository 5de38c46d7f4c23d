------------------------------- MODULE Joins --------------------------------
(***************************************************************************)
(* The pure algorithms on the vectors of a session: the select on fetched  *)
(* values, the blocked nested join, aggregates and vector arithmetic       *)
(* (cs165_api.c), and the hash join (hashjoin.c).  A join of positions p1  *)
(* with values v1 and positions p2 with values v2 returns the pairs        *)
(* <<i, j>> of indexes whose positions it emits, in the order in which it  *)
(* emits them.                                                             *)
(***************************************************************************)
EXTENDS Integers, SequencesExt

CONSTANTS
  PageSize,     \* PAGESIZE, the elements of a block of the nested join
  HashTableSize \* HASH_TABLE_SIZE, the number of buckets

ASSUME JoinAssumption == PageSize \in Nat \ {0} /\ HashTableSize \in Nat \ {0}

\* A last block that ends before the last element.
BlockShort(start, length) ==
  start + 1 .. (IF start + PageSize > length THEN length - 1 ELSE start + PageSize)

\* The indexes of the block behind start, clipped to the vector.
Block(start, length) ==
  start + 1 .. (IF start + PageSize > length THEN length ELSE start + PageSize)

\* Where the blocks of a vector start.
Starts(length) == { i \in 0 .. length - 1 : \E b \in 0 .. length : i = b * PageSize }

\* The elements of a finite set of numbers, ascending: the k-th has k - 1 below it.
Below(S, x) == { y \in S : y < x }
Ordered(S) ==
  [k \in 1 .. Cardinality(S) |-> CHOOSE x \in S : Cardinality(Below(S, x)) = k - 1]

\* One sequence after the other, for the elements of S in ascending order.
ForEach(S, Loop(_)) ==
  LET order == Ordered(S) IN FlattenSeq([k \in DOMAIN order |-> Loop(order[k])])

\* fetch: the values at the positions, which it does not check.
FetchAt(values, positions) == [k \in DOMAIN positions |-> values[positions[k]]]

\* select_two: the indexes of the values in the half-open interval; the positions
\* at these indexes are its result.
SelectTwoHits(values, l, h) == Ordered({ i \in DOMAIN values : l <= values[i] /\ values[i] < h })

\* nested_join: every block of the first vector against every block of the
\* second, and within two blocks every element against every other.
NestedJoin(v1, v2) ==
  LET OfElement(r, j) ==
        LET equal == Ordered({ m \in Block(j, Len(v2)) : v1[r] = v2[m] })
        IN  [k \in DOMAIN equal |-> <<r, equal[k]>>]
      OfBlocks(i, j) == ForEach(Block(i, Len(v1)), LAMBDA r : OfElement(r, j))
      OfBlock(i) == ForEach(Starts(Len(v2)), LAMBDA j : OfBlocks(i, j))
  IN  ForEach(Starts(Len(v1)), OfBlock)

\* What a join is of: the pairs of indexes of equal values.
Equal(v1, v2) == { ij \in (DOMAIN v1) \X (DOMAIN v2) : v1[ij[1]] = v2[ij[2]] }

\* hash, of a value that is not negative.
Hash(n) == n % HashTableSize

\* A bucket that loses all but its first element.
BucketFirstOnly(v1, bucket) ==
  LET inBucket == { k \in DOMAIN v1 : Hash(v1[k]) = bucket }
  IN  IF inBucket = {} THEN <<>> ELSE <<Min(inBucket)>>

\* What add_to_ht leaves in a bucket: the indexes hashed there, the last first.
Bucket(v1, bucket) == Reverse(Ordered({ k \in DOMAIN v1 : Hash(v1[k]) = bucket }))

\* hashjoin: for each element of the second vector all of its bucket.
HashJoin(v1, v2) ==
  ForEach(DOMAIN v2,
          LAMBDA i : LET bucket == Bucket(v1, Hash(v2[i]))
                     IN  [k \in DOMAIN bucket |-> <<bucket[k], i>>])

\* A minimum that never looks at the last element.
MinButLast(v) ==
  LET upTo[i \in DOMAIN v] ==
        IF i = 1 THEN v[1]
        ELSE IF upTo[i - 1] > v[i] THEN v[i] ELSE upTo[i - 1]
  IN  upTo[IF Len(v) = 1 THEN 1 ELSE Len(v) - 1]

\* min, max: a pass over a vector that is not empty.
MinOf(v) ==
  LET upTo[i \in DOMAIN v] ==
        IF i = 1 THEN v[1]
        ELSE IF upTo[i - 1] > v[i] THEN v[i] ELSE upTo[i - 1]
  IN  upTo[Len(v)]
MaxOf(v) ==
  LET upTo[i \in DOMAIN v] ==
        IF i = 1 THEN v[1]
        ELSE IF upTo[i - 1] < v[i] THEN v[i] ELSE upTo[i - 1]
  IN  upTo[Len(v)]

\* avg, as the fraction that the division rounds: sum and length.
AvgOf(v) == <<FoldLeft(+, 0, v), Len(v)>>

\* add and sub, of vectors of one length.
AddVectors(v1, v2) == [i \in DOMAIN v1 |-> v1[i] + v2[i]]
SubVectors(v1, v2) == [i \in DOMAIN v1 |-> v1[i] - v2[i]]
=============================================================================
