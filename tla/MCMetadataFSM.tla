--------------------------- MODULE MCMetadataFSM ---------------------------
(* Model-checking instance of MetadataFSM: one stream with one partition, *)
(* two replicas, PauseStream requests that may name a partition that      *)
(* does not exist, a Raft log of up to MaxLog entries and one restart.    *)
EXTENDS MetadataFSM

CONSTANTS s1, r1, r2

MCStreams == {s1}
MCReplicas == {r1, r2}
====
