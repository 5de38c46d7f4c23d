----------------------------- MODULE MCSession ------------------------------
(* An instance of Session small enough for TLC.                            *)
EXTENDS Session

LeastInt == -1

\* Of 0 and 2, which share a bucket, and 1 and -1, which is not hashed.
QueryRows == {<<0, 2>>, <<1, -1>>}

\* Those below 2, and those of at least 1 in two ways: with no upper bound, and
\* with one that is beyond an int.
QueryRanges == {<<Null, 2>>, <<1, Null>>, <<1, 4>>}

ASSUME RangesMeant
=============================================================================
