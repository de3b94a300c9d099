---------------------------- MODULE MCCommitLog ----------------------------
EXTENDS CommitLog

CONSTANTS w1, w2, w3

MCWaiters == {w1, w2}

(* Three readers, for the runs without truncation: two may wait on one   *)
(* segment while a third holds or observes another.                       *)
MCWaiters3 == {w1, w2, w3}

(* Readers are interchangeable: every property quantifies over all.      *)
ReaderSymmetry == Permutations(MCWaiters)

ReaderSymmetry3 == Permutations(MCWaiters3)
====
