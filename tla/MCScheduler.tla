---------------------------- MODULE MCScheduler ----------------------------
(* Instances of Scheduler small enough for TLC.                            *)
EXTENDS Scheduler

\* A range that no upper bound cuts, and one that is empty but for its bound.
SomeRanges == { <<MinData, MaxData>>, <<MaxData, MaxData>> }
=============================================================================
