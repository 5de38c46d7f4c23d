------------------------------ MODULE MCBTree -------------------------------
(* An instance of BTree small enough for TLC.                              *)
EXTENDS BTree
=============================================================================
