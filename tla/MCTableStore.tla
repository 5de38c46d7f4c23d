---------------------------- MODULE MCTableStore ----------------------------
(* Instances of TableStore small enough for TLC.                           *)
EXTENDS TableStore

Documented == {}
AnyUsage   == Usages
LoadsAfterIndex == {"load_after_index"}
=============================================================================
