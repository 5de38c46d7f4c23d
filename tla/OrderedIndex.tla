---------------------------- MODULE OrderedIndex ----------------------------
(***************************************************************************)
(* What an index of a column promises: one entry for each value of the     *)
(* column, saying where the value stands; the entries come one by one      *)
(* while the index is created, and are the same after a restart.           *)
(***************************************************************************)
EXTENDS Integers, FiniteSets

CONSTANTS MinData, MaxData

VARIABLES
  entries, \* what the index of the running server holds
  saved,   \* what the last shutdown wrote
  up       \* is a server running?

vars == <<entries, saved, up>>

Entry(n) == [pos : {n}, val : MinData .. MaxData]

Init == entries = {} /\ saved = {} /\ up = TRUE

\* The next value of the column.
Add ==
  /\ up
  /\ \E e \in Entry(Cardinality(entries) + 1) : entries' = entries \cup {e}
  /\ UNCHANGED <<saved, up>>

Save == up /\ saved' = entries /\ entries' = {} /\ up' = FALSE

Recover == ~up /\ entries' = saved /\ up' = TRUE /\ UNCHANGED saved

Next == Add \/ Save \/ Recover

Spec == Init /\ [][Next]_vars
=============================================================================
