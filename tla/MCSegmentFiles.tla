--------------------------- MODULE MCSegmentFiles ---------------------------
(* Model-checking instance of SegmentFiles: two base offsets (so a later  *)
(* segment can be rolled, deleted and rolled again), enough segment       *)
(* objects for a sibling, a retry and a restart, and up to two faults.    *)
EXTENDS SegmentFiles
====
