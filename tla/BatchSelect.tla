---------------------------- MODULE BatchSelect ----------------------------
(***************************************************************************)
(* What the scheduler of shared scans promises: selects are queued and,    *)
(* when the client asks for it, all answered at once: by the scan of rows  *)
(* with the positions that the column holds at that moment, one by one     *)
(* with those that the column's index holds, which are of the moment it    *)
(* was created, if the column has one.                                     *)
(***************************************************************************)
EXTENDS Vectors

CONSTANTS Cols, MinData, MaxData

VARIABLES
  data,  \* the vector of each column
  index, \* of each column that has an index, the vector it was created from
  queue, \* the selects waiting, the latest first: [name, col, l, h]
  pool   \* the client's variables in the order they were bound: [name, result]

vars == <<data, index, queue, pool>>

HasIndex(c) == c \in DOMAIN index

\* The answer of a scan: the matching positions in their order.
Exact(q, result) ==
  IsListOf(result, SelectUnsorted(data[q.col], q.l, q.h))

\* The matching positions of v, each once, in the order of their values.
ListedByValue(v, result, l, h) ==
  /\ result \in Seq(SelectUnsorted(v, l, h))
  /\ \A j, k \in DOMAIN result :
       /\ result[j] = result[k] => j = k
       /\ j <= k => v[result[j]] <= v[result[k]]
  /\ \A p \in SelectUnsorted(v, l, h) : \E k \in DOMAIN result : result[k] = p

\* The answer of select_one, which goes to the index if there is one and may take in
\* the positions of the upper bound itself.
ByAccessPath(q, result) ==
  \E h \in {q.h, q.h + 1} :
    IF HasIndex(q.col)
    THEN ListedByValue(index[q.col], result, q.l, h)
    ELSE IsListOf(result, SelectUnsorted(data[q.col], q.l, h))

Init == queue = <<>> /\ pool = <<>> /\ DOMAIN index = {}

\* Inserts and loads change the columns, never while a batch is executed.
Change == data' # data /\ UNCHANGED <<index, queue, pool>>

\* An index is of the column as it is; no later change of the column reaches it.
Build == \E c \in Cols :
  /\ ~HasIndex(c)
  /\ index' = [d \in DOMAIN index \cup {c} |-> IF d = c THEN data[c] ELSE index[d]]
  /\ UNCHANGED <<data, queue, pool>>

Ask == /\ Len(queue') = Len(queue) + 1
       /\ Tail(queue') = queue
       /\ UNCHANGED <<data, index, pool>>

\* All queries are answered, each under its own name.
Answer(Right(_, _)) ==
  /\ queue # <<>>
  /\ queue' = <<>>
  /\ Len(pool') = Len(pool) + Len(queue)
  /\ SubSeq(pool', 1, Len(pool)) = pool
  /\ \A k \in DOMAIN queue :
       LET v == pool'[Len(pool) + k]
       IN  v.name = queue[k].name /\ Right(queue[k], v.result)
  /\ UNCHANGED <<data, index>>

\* The client disconnects: its variables go, the queue stays.
Forget == pool' = <<>> /\ UNCHANGED <<data, index, queue>>

Next == Change \/ Build \/ Ask \/ Answer(Exact) \/ Answer(ByAccessPath) \/ Forget

Spec == Init /\ [][Next]_vars
=============================================================================
