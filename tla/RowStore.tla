------------------------------ MODULE RowStore ------------------------------
(***************************************************************************)
(* What a table promises to its clients: a store of rows, numbered in the  *)
(* order they came in, that only grows while a server runs, and of which a *)
(* server that starts finds what the last shutdown saved.  Where a value   *)
(* is kept, in which order, and how it is found is not part of it.         *)
(***************************************************************************)
EXTENDS Integers, Sequences

CONSTANTS MinData, MaxData, MaxCols

VARIABLES
  store, \* the rows the server answers from, and the number of their columns
  saved, \* the rows of the last shutdown
  up     \* is a server running?

vars == <<store, saved, up>>

Val   == MinData .. MaxData
Empty == [width |-> 0, rows |-> <<>>]

Init == store = Empty /\ saved = Empty /\ up = TRUE

AddColumn ==
  /\ up
  /\ store.rows = <<>>
  /\ store.width < MaxCols
  /\ store' = [store EXCEPT !.width = @ + 1]
  /\ UNCHANGED <<saved, up>>

\* The rows there were stay, under their numbers and with their values.
AppendRows ==
  /\ up
  /\ store.width > 0
  /\ store'.width = store.width
  /\ store'.rows \in Seq([1 .. store.width -> Val])
  /\ Len(store'.rows) >= Len(store.rows)
  /\ \A n \in DOMAIN store.rows : store'.rows[n] = store.rows[n]
  /\ UNCHANGED <<saved, up>>

Save ==
  /\ up
  /\ saved' = store
  /\ store' = Empty
  /\ up' = FALSE

Lose ==
  /\ up
  /\ store' = Empty
  /\ up' = FALSE
  /\ UNCHANGED saved

Recover ==
  /\ ~up
  /\ store' = saved
  /\ up' = TRUE
  /\ UNCHANGED saved

Next == AddColumn \/ AppendRows \/ Save \/ Lose \/ Recover

Spec == Init /\ [][Next]_vars
=============================================================================
