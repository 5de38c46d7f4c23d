----------------------------- MODULE MCPersist ------------------------------
(* An instance of Persist small enough for TLC.                            *)
EXTENDS Persist

\* Let d be so long a name that, behind those of the second database and of its
\* table, it makes a path that does not fit into a file name.
LongPaths == {<<"inventory", "t", "d">>}
=============================================================================
