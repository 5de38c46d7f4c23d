------------------------------ MODULE Vectors ------------------------------
(***************************************************************************)
(* The pure algorithms on data vectors: binary search (utils.c), sorting   *)
(* by positions (vector.c) and the unsorted scan (cs165_api.c).            *)
(*                                                                         *)
(* A vector is a sequence of integers.  Position p of the model is index   *)
(* p - 1 of the C buffer; a search result is the C result itself, that is, *)
(* the number of elements to the left of the boundary it found.            *)
(***************************************************************************)
EXTENDS Integers, Sequences

\* What a search may be left with: the indexes first .. last.
Windows(buf) == [first : 0 .. Len(buf), last : -1 .. Len(buf) - 1]

\* A left search that goes past the elements equal to n.
BinarySearchLeftPastEqual(buf, n) ==
  LET narrow[w \in Windows(buf)] ==
        LET mid == (w.first + w.last) \div 2
        IN  IF w.first > w.last THEN w.first
            ELSE IF buf[mid + 1] > n THEN narrow[[w EXCEPT !.last = mid - 1]]
            ELSE narrow[[w EXCEPT !.first = mid + 1]]
  IN  narrow[[first |-> 0, last |-> Len(buf) - 1]]

\* binary_search_left: how many elements of the ascending buf are below n.
BinarySearchLeft(buf, n) ==
  LET narrow[w \in Windows(buf)] ==
        LET mid == (w.first + w.last) \div 2
        IN  IF w.first > w.last THEN w.first
            ELSE IF buf[mid + 1] >= n THEN narrow[[w EXCEPT !.last = mid - 1]]
            ELSE narrow[[w EXCEPT !.first = mid + 1]]
  IN  narrow[[first |-> 0, last |-> Len(buf) - 1]]

\* binary_search_right: how many elements of the ascending buf are n or below.
BinarySearchRight(buf, n) ==
  LET narrow[w \in Windows(buf)] ==
        LET mid == (w.first + w.last) \div 2
        IN  IF w.first > w.last THEN w.first
            ELSE IF buf[mid + 1] > n THEN narrow[[w EXCEPT !.last = mid - 1]]
            ELSE narrow[[w EXCEPT !.first = mid + 1]]
  IN  narrow[[first |-> 0, last |-> Len(buf) - 1]]

Ascending(v) == \A j, k \in DOMAIN v : j <= k => v[j] <= v[k]

\* get_sorted_positions: the maps "sorted position -> unsorted position" that
\* qsort with compare_pos may return.  qsort leaves the order of equal
\* elements unspecified, so there is one for each way to order them.
SortedPositions(v) ==
  { p \in [DOMAIN v -> DOMAIN v] :
      /\ \A j, k \in DOMAIN v : p[j] = p[k] => j = k
      /\ \A m \in DOMAIN v : \E k \in DOMAIN v : p[k] = m
      /\ Ascending([k \in DOMAIN v |-> v[p[k]]]) }

\* Permuting in place, without the temporary copy of the buffer.
PermuteInPlace(v, positions) ==
  LET upTo[k \in 0 .. Len(v)] ==
        IF k = 0 THEN v
        ELSE [upTo[k - 1] EXCEPT ![k] = upTo[k - 1][positions[k]]]
  IN  upTo[Len(v)]

\* sort_vector_from_positions: every element taken from a copy of the buffer.
SortVectorFromPositions(v, positions) ==
  [k \in 1 .. Len(v) |-> v[positions[k]]]

\* select_one_unsorted over the whole vector: a half-open interval of values.
SelectUnsorted(v, l, h) == { p \in DOMAIN v : l <= v[p] /\ v[p] < h }

\* The positions one further than they are.
SelectPrimaryOnePast(v, l, h) ==
  BinarySearchLeft(v, l) + 2 .. BinarySearchRight(v, h) + 1

\* select_one_primary: the positions between the two searches.
SelectPrimary(v, l, h) ==
  BinarySearchLeft(v, l) + 1 .. BinarySearchRight(v, h)

\* A result as a select fills it: the positions of a set in ascending order.
IsListOf(result, positions) ==
  /\ result \in Seq(positions)
  /\ \A j, k \in DOMAIN result : j < k => result[j] < result[k]
  /\ \A p \in positions : \E k \in DOMAIN result : result[k] = p
============================================================================
