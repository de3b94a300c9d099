---------------------------- MODULE MetadataFSM ----------------------------
(***************************************************************************)
(* The controller FSM of src/server/fsm.go on one server.                 *)
(*                                                                         *)
(* The consensus layer (Raft) is the environment: it appends entries to   *)
(* raftLog, learns a commit index, hands committed Command entries to     *)
(* Apply one at a time, calls Snapshot between two Applies and runs       *)
(* Persist concurrently with later Applies, and on a restart calls        *)
(* Restore with the last persisted snapshot and replays the log after it. *)
(*                                                                         *)
(* A partition is an object (the *partition with its proto.Partition) in  *)
(* `partitions`, named by <<creation index, key>>; `metadata` maps each   *)
(* (stream, id) key to its object.  Snapshot keeps the objects, not their *)
(* values (fsm.go:290 appends partition.Partition pointers), so Persist   *)
(* reads whatever the objects hold when it runs.                          *)
(***************************************************************************)
EXTENDS Integers, Sequences, FiniteSets, Functions, TLC

CONSTANTS
    Streams,        \* stream names
    PartitionIds,   \* ids of the partitions a stream may have
    PauseIds,       \* partition ids a PauseStream request may name
    Replicas,       \* servers that replicate every partition
    InitialLeader,  \* leader chosen by the controller on CreatePartition
    LogRecovery,    \* config.LogRecovery: keep logging while replaying
    MaxLog,         \* bound on the length of the Raft log
    MaxRestarts,    \* bound on server restarts
    NoSnapshot,     \* model value: no snapshot / no fsmSnapshot
    NoApply         \* model value: no Apply in progress

ASSUME /\ InitialLeader \in Replicas
       /\ PartitionIds \subseteq PauseIds
       /\ LogRecovery \in BOOLEAN
       /\ MaxLog \in Nat \ {0} /\ MaxRestarts \in Nat

Keys == Streams \X PartitionIds
StreamOf(k) == k[1]

(* A partition object is named by the Raft index of the CreatePartition   *)
(* that made it (0 for one made by Restore) and its key.                  *)
ObjIds == (0..MaxLog) \X Keys

(* The fields of proto.Partition the FSM reads and writes.                 *)
ProtoRec == [leader: Replicas, isr: SUBSET Replicas, epoch: 0..MaxLog,
             leaderEpoch: 0..MaxLog, paused: BOOLEAN]
(* A live partition: its proto plus whether its leader/follower role has  *)
(* been started (StartRecovered).                                          *)
PartitionRec == [leader: Replicas, isr: SUBSET Replicas, epoch: 0..MaxLog,
                 leaderEpoch: 0..MaxLog, paused: BOOLEAN, started: BOOLEAN]

Ops ==
         [op: {"CREATE_PARTITION"}, key: Keys]
    \cup [op: {"SHRINK_ISR", "EXPAND_ISR", "CHANGE_LEADER"}, key: Keys,
          replica: Replicas]
    \cup [op: {"DELETE_STREAM"}, stream: Streams]
    \cup [op: {"PAUSE_STREAM"}, stream: Streams,
          partitions: SUBSET PauseIds \ {{}}]

Entries == [type: {"Command"}, op: Ops] \cup [type: {"Noop"}]

VARIABLES
    raftLog,            \* the Raft log: entries in index order
    commitIndex,        \* this server's Raft commit index (Stats()["commit_index"])
    lastApplied,        \* index of the last entry Raft handed to the FSM
    metadata,           \* the metadata store: key -> partition object
    partitions,         \* partition objects
    recoveryStarted,    \* s.recoveryStarted
    latestRecoveredLog, \* index of s.latestRecoveredLog, 0 for nil
    logDiscarded,       \* logger output set to ioutil.Discard
    applying,           \* Apply between a partition mutation and SetEpoch
    aborted,            \* Apply panicked: the process is dead
    fsmSnapshot,        \* snapshot taken by Snapshot, not yet persisted
    snapshot,           \* last snapshot persisted to the sink
    restoredAsOf,       \* index whose effects the restored snapshot holds
    restarts            \* number of restarts so far

vars == <<raftLog, commitIndex, lastApplied, metadata, partitions,
          recoveryStarted, latestRecoveredLog, logDiscarded, applying,
          aborted, fsmSnapshot, snapshot, restoredAsOf, restarts>>

-----------------------------------------------------------------------------
(* The metadata store and partition operations (server/metadata.go and     *)
(* server/partition.go, not under src/; modelled from the spec, 4.4-4.5). *)

Proto(p) == [leader |-> p.leader, isr |-> p.isr, epoch |-> p.epoch,
             leaderEpoch |-> p.leaderEpoch, paused |-> p.paused]

PartitionsOf(s) == {k \in DOMAIN metadata : StreamOf(k) = s}

(* AddPartition(p, recovered): the partition made for proto p; its role   *)
(* is started at once unless it is recovered (then StartRecovered does).  *)
NewPartition(proto, recovered) ==
    [leader |-> proto.leader, isr |-> proto.isr, epoch |-> proto.epoch,
     leaderEpoch |-> proto.leaderEpoch, paused |-> proto.paused,
     started |-> ~recovered]

RemoveFromISR(p, r) == [p EXCEPT !.isr = @ \ {r}]
AddToISR(p, r)      == [p EXCEPT !.isr = @ \cup {r}]
SetLeader(p, r, e)  == [p EXCEPT !.leader = r, !.leaderEpoch = e]
SetEpoch(p, e)      == [p EXCEPT !.epoch = e]
StartRecovered(p)   == [p EXCEPT !.started = TRUE]
Pause(p)            == [p EXCEPT !.paused = TRUE]

(* CloseAndDeleteStream: the store without the stream's partitions.       *)
CloseAndDeleteStream(meta, s) ==
    [k \in {k \in DOMAIN meta : StreamOf(k) # s} |-> meta[k]]

(* Partition objects nothing refers to any more are garbage: keep those   *)
(* reachable from the store or from a snapshot Persist has yet to write.  *)
Collect(meta, fsnap, parts) ==
    Restrict(parts, DOMAIN parts \cap
                    (Range(meta) \cup
                     (IF fsnap = NoSnapshot THEN {} ELSE Range(fsnap.objs))))

-----------------------------------------------------------------------------
(* fsm.go                                                                  *)

(* Variant: the backward scan stops at the newest entry of any type, not *)
(* only at a LogCommand entry.                                            *)
RecoverLatestAnyType(applyIndex) ==
    LET firstIndex == IF raftLog = <<>> THEN 0 ELSE 1
    IN IF firstIndex = 0 \/ applyIndex = commitIndex THEN 0 ELSE commitIndex

(* recoverLatestCommittedFSMLog: the index of the newest Command entry at  *)
(* or below the commit index, scanning down from it; 0 (nil) when the log *)
(* is empty or the entry being applied is the commit index itself.        *)
RecoverLatestCommittedFSMLog(applyIndex) ==
    LET firstIndex == IF raftLog = <<>> THEN 0 ELSE 1
        commands == {i \in firstIndex..commitIndex :
                        raftLog[i].type = "Command"}
    IN IF firstIndex = 0 \/ applyIndex = commitIndex \/ commands = {}
       THEN 0
       ELSE CHOOSE i \in commands : \A j \in commands : j <= i


(* The Apply prologue (fsm.go:66-99) for entry i: the recovery barrier,   *)
(* computed on the first Apply since the process started, and whether     *)
(* entry i is a recovered one or the one that ends recovery.              *)
Barrier(i) ==
    IF recoveryStarted THEN latestRecoveredLog
    ELSE RecoverLatestCommittedFSMLog(i)
(* Variant: the barrier entry itself is not counted as recovered.         *)
RecoveredStrict(i) == Barrier(i) # 0 /\ i < Barrier(i)
Recovered(i) == Barrier(i) # 0 /\ i <= Barrier(i)
FinishesRecovery(i) == Recovered(i) /\ i = Barrier(i)

Prologue(i) ==
    /\ recoveryStarted' = TRUE
    /\ latestRecoveredLog' = IF FinishesRecovery(i) THEN 0 ELSE Barrier(i)

(* startedRecovery: on the first Apply that finds a barrier, log output   *)
(* is discarded unless LogRecovery is set.                                 *)
StartedRecovery(i) ==
    IF ~recoveryStarted /\ Barrier(i) # 0 /\ ~LogRecovery
    THEN TRUE ELSE logDiscarded

(* finishedRecovery: restore log output and StartRecovered every          *)
(* partition of the store.                                                 *)
FinishedRecovery(meta, parts) ==
    [o \in DOMAIN parts |->
        IF o \in Range(meta) THEN StartRecovered(parts[o]) ELSE parts[o]]

(* Apply returns for entry i: Raft counts the entry applied and the        *)
(* deferred finishedRecovery runs when the entry ended recovery.          *)
Returned(i, finish, discarded, meta, parts) ==
    /\ lastApplied' = i
    /\ applying' = NoApply
    /\ metadata' = meta
    /\ partitions' = Collect(meta, fsmSnapshot,
                        IF finish THEN FinishedRecovery(meta, parts) ELSE parts)
    /\ logDiscarded' = IF finish THEN FALSE ELSE discarded

(* apply(CREATE_PARTITION) with applyCreatePartition: the partition's     *)
(* epoch and leader epoch are the entry's index; ErrPartitionExists is    *)
(* returned to the proposer and changes nothing.                           *)
ApplyCreatePartition(i, k) ==
    LET proto == [leader |-> InitialLeader, isr |-> Replicas, epoch |-> i,
                  leaderEpoch |-> i, paused |-> FALSE]
        obj   == <<i, k>>
    IN /\ UNCHANGED aborted
       /\ Prologue(i)
       /\ IF k \in DOMAIN metadata
          THEN Returned(i, FinishesRecovery(i), StartedRecovery(i),
                        metadata, partitions)
          ELSE Returned(i, FinishesRecovery(i), StartedRecovery(i),
                        (k :> obj) @@ metadata,
                        (obj :> NewPartition(proto, Recovered(i))) @@ partitions)

(* The partition change each of the three handlers makes.                *)
EpochOpMutation(p, op, i) ==
    CASE op.op = "SHRINK_ISR"    -> RemoveFromISR(p, op.replica)
      [] op.op = "EXPAND_ISR"    -> AddToISR(p, op.replica)
      [] op.op = "CHANGE_LEADER" -> SetLeader(p, op.replica, i)

(* A missing partition: the handler's plain error makes Apply panic.      *)
Panicked ==
    /\ aborted' = TRUE
    /\ UNCHANGED <<lastApplied, metadata, partitions, recoveryStarted,
                   latestRecoveredLog, logDiscarded, applying>>

(* The partition is changed; its SetEpoch is still to come.               *)
Mutated(i, op, obj) ==
    /\ partitions' = [partitions EXCEPT ![obj] = EpochOpMutation(@, op, i)]
    /\ applying' = [index |-> i, obj |-> obj, finish |-> FinishesRecovery(i)]
    /\ logDiscarded' = StartedRecovery(i)
    /\ UNCHANGED <<lastApplied, metadata>>

(* Variants of ApplyEpochOp: without the idempotency check, and with the  *)
(* check off by one.                                                      *)
ApplyEpochOpUnguarded(i, op) ==
    IF op.key \notin DOMAIN metadata THEN Panicked
    ELSE /\ UNCHANGED aborted
         /\ Prologue(i)
         /\ Mutated(i, op, metadata[op.key])

ApplyEpochOpOffByOne(i, op) ==
    IF op.key \notin DOMAIN metadata THEN Panicked
    ELSE /\ UNCHANGED aborted
         /\ Prologue(i)
         /\ IF partitions[metadata[op.key]].epoch + 1 >= i
            THEN Returned(i, FinishesRecovery(i), StartedRecovery(i),
                          metadata, partitions)
            ELSE Mutated(i, op, metadata[op.key])

(* applyShrinkISR, applyExpandISR, applyChangeStreamLeader: a missing     *)
(* partition is a plain error, so Apply panics; a partition whose epoch   *)
(* is at least the entry's index is left alone; otherwise the partition   *)
(* is mutated, and SetEpoch follows as a separate step (ApplySetEpoch).   *)
ApplyEpochOp(i, op) ==
    IF op.key \notin DOMAIN metadata THEN Panicked
    ELSE /\ UNCHANGED aborted
         /\ Prologue(i)
         /\ IF partitions[metadata[op.key]].epoch >= i
            THEN Returned(i, FinishesRecovery(i), StartedRecovery(i),
                          metadata, partitions)
            ELSE Mutated(i, op, metadata[op.key])

(* The rest of the three handlers: partition.SetEpoch(epoch), then Apply  *)
(* returns.                                                                *)
ApplySetEpoch ==
    /\ applying # NoApply
    /\ Returned(applying.index, applying.finish, logDiscarded, metadata,
                [partitions EXCEPT ![applying.obj] = SetEpoch(@, applying.index)])
    /\ UNCHANGED <<raftLog, commitIndex, recoveryStarted, latestRecoveredLog,
                   aborted, fsmSnapshot, snapshot, restoredAsOf, restarts>>

(* Variant: the stream's partitions are closed and dropped, but the      *)
(* stream's entries stay in the store.                                     *)
ApplyDeleteStreamKeepsKeys(i, s) ==
    /\ UNCHANGED aborted
    /\ Prologue(i)
    /\ Returned(i, FinishesRecovery(i), StartedRecovery(i), metadata,
                Restrict(partitions, DOMAIN partitions \
                                     {metadata[k] : k \in PartitionsOf(s)}))

(* applyDeleteStream: ErrStreamNotFound is returned to the proposer.      *)
ApplyDeleteStream(i, s) ==
    /\ UNCHANGED aborted
    /\ Prologue(i)
    /\ Returned(i, FinishesRecovery(i), StartedRecovery(i),
                IF PartitionsOf(s) = {} THEN metadata
                ELSE CloseAndDeleteStream(metadata, s),
                partitions)

(* applyPauseStream: ErrStreamNotFound and ErrPartitionNotFound are       *)
(* returned to the proposer; otherwise the named partitions are paused.   *)
ApplyPauseStream(i, s, ids) ==
    LET keys == {s} \X ids
        found == PartitionsOf(s) # {} /\ keys \subseteq DOMAIN metadata
        paused == [o \in DOMAIN partitions |->
                      IF o \in {metadata[k] : k \in keys}
                      THEN Pause(partitions[o]) ELSE partitions[o]]
    IN /\ UNCHANGED aborted
       /\ Prologue(i)
       /\ Returned(i, FinishesRecovery(i), StartedRecovery(i), metadata,
                   IF found THEN paused ELSE partitions)

(* Apply(l) with apply(log, index, recovered) for the next committed      *)
(* Command entry.                                                          *)
Apply ==
    LET i == lastApplied + 1
        op == raftLog[i].op
    IN /\ ~aborted
       /\ applying = NoApply
       /\ i <= commitIndex
       /\ raftLog[i].type = "Command"
       /\ \/ /\ op.op = "CREATE_PARTITION"
             /\ ApplyCreatePartition(i, op.key)
          \/ /\ op.op = "SHRINK_ISR"
             /\ ApplyEpochOp(i, op)
          \/ /\ op.op = "EXPAND_ISR"
             /\ ApplyEpochOp(i, op)
          \/ /\ op.op = "CHANGE_LEADER"
             /\ ApplyEpochOp(i, op)
          \/ /\ op.op = "DELETE_STREAM"
             /\ ApplyDeleteStream(i, op.stream)
          \/ /\ op.op = "PAUSE_STREAM"
             /\ ApplyPauseStream(i, op.stream, op.partitions)
       /\ UNCHANGED <<raftLog, commitIndex, fsmSnapshot, snapshot,
                      restoredAsOf, restarts>>

SnapshotIndex == IF snapshot = NoSnapshot THEN 0 ELSE snapshot.index

(* The index whose effects the store holds: the entry being applied, or   *)
(* past it a restored snapshot that was persisted later than its index.   *)
InProgress == IF applying = NoApply THEN lastApplied ELSE applying.index
HeldAsOf == IF restoredAsOf > InProgress THEN restoredAsOf ELSE InProgress

(* Snapshot: called by Raft between two Applies; it keeps the store's     *)
(* partition objects (pointers), not copies of them.                      *)
Snapshot ==
    /\ ~aborted
    /\ applying = NoApply
    /\ fsmSnapshot = NoSnapshot
    /\ lastApplied > SnapshotIndex
    /\ fsmSnapshot' = [index |-> lastApplied, objs |-> metadata]
    /\ UNCHANGED <<raftLog, commitIndex, lastApplied, metadata, partitions,
                   recoveryStarted, latestRecoveredLog, logDiscarded,
                   applying, aborted, snapshot, restoredAsOf, restarts>>

(* fsmSnapshot.Persist, concurrent with Apply: marshals the partitions as *)
(* they are now and writes size and bytes to the sink; a failed write or  *)
(* Close cancels the sink and the previous snapshot stays the latest.     *)
Persist ==
    /\ ~aborted
    /\ fsmSnapshot # NoSnapshot
    /\ \/ snapshot' =
            [index |-> fsmSnapshot.index,
             partitions |-> [k \in DOMAIN fsmSnapshot.objs |->
                                Proto(partitions[fsmSnapshot.objs[k]])],
             asOf |-> HeldAsOf]
       \/ UNCHANGED snapshot
    /\ fsmSnapshot' = NoSnapshot
    /\ partitions' = Collect(metadata, NoSnapshot, partitions)
    /\ UNCHANGED <<raftLog, commitIndex, lastApplied, metadata,
                   recoveryStarted, latestRecoveredLog, logDiscarded,
                   applying, aborted, restoredAsOf, restarts>>

EmptyFn == [k \in {} |-> 0]

(* Restore: Reset the store, then applyCreatePartition(p, false) for      *)
(* every partition of the decoded snapshot.                                *)
RestoredMetadata(snap) == [k \in DOMAIN snap.partitions |-> <<0, k>>]
RestoredPartitions(snap) ==
    [o \in {<<0, k>> : k \in DOMAIN snap.partitions} |->
        NewPartition(snap.partitions[o[2]], FALSE)]

(* The process stops (crash, panic or shutdown) and starts again: the     *)
(* store is empty, Raft restores the last persisted snapshot, if any, and *)
(* will hand the FSM the entries after it; a snapshot not yet persisted   *)
(* is lost.                                                                *)
Restart ==
    /\ restarts < MaxRestarts
    /\ restarts' = restarts + 1
    /\ IF snapshot = NoSnapshot
       THEN /\ metadata' = EmptyFn
            /\ partitions' = EmptyFn
            /\ restoredAsOf' = 0
       ELSE /\ metadata' = RestoredMetadata(snapshot)
            /\ partitions' = RestoredPartitions(snapshot)
            /\ restoredAsOf' = snapshot.asOf
    /\ lastApplied' = SnapshotIndex
    /\ commitIndex' = SnapshotIndex
    /\ recoveryStarted' = FALSE
    /\ latestRecoveredLog' = 0
    /\ logDiscarded' = FALSE
    /\ applying' = NoApply
    /\ aborted' = FALSE
    /\ fsmSnapshot' = NoSnapshot
    /\ UNCHANGED <<raftLog, snapshot>>

-----------------------------------------------------------------------------
(* The metadata a log prefix stands for: every Command entry of it        *)
(* applied exactly once, in order (the table of spec 4.6).  This is the   *)
(* reference the FSM is checked against; it is written independently of  *)
(* the handlers above.                                                     *)

ReplayStep(v, i) ==
    LET op == raftLog[i].op
        k  == IF "key" \in DOMAIN op THEN op.key ELSE <<>>
    IN CASE raftLog[i].type # "Command" -> v
         [] op.op = "CREATE_PARTITION" /\ k \notin DOMAIN v ->
                (k :> [leader |-> InitialLeader, isr |-> Replicas, epoch |-> i,
                       leaderEpoch |-> i, paused |-> FALSE]) @@ v
         [] op.op = "SHRINK_ISR" /\ k \in DOMAIN v ->
                [v EXCEPT ![k].isr = @ \ {op.replica}, ![k].epoch = i]
         [] op.op = "EXPAND_ISR" /\ k \in DOMAIN v ->
                [v EXCEPT ![k].isr = @ \cup {op.replica}, ![k].epoch = i]
         [] op.op = "CHANGE_LEADER" /\ k \in DOMAIN v ->
                [v EXCEPT ![k].leader = op.replica, ![k].leaderEpoch = i,
                          ![k].epoch = i]
         [] op.op = "DELETE_STREAM" ->
                [j \in {j \in DOMAIN v : j[1] # op.stream} |-> v[j]]
         [] op.op = "PAUSE_STREAM" /\ {op.stream} \X op.partitions \subseteq DOMAIN v ->
                [j \in DOMAIN v |-> IF j \in {op.stream} \X op.partitions
                                    THEN [v[j] EXCEPT !.paused = TRUE]
                                    ELSE v[j]]
         [] OTHER -> v

RECURSIVE Replay(_)
Replay(n) == IF n = 0 THEN EmptyFn ELSE ReplayStep(Replay(n - 1), n)

(* What the store holds, as protos.                                        *)
View == [k \in DOMAIN metadata |-> Proto(partitions[metadata[k]])]

-----------------------------------------------------------------------------
(* The environment: the controller proposes operations it has validated   *)
(* against the metadata it has applied, some prefix of the log; Raft      *)
(* appends election no-ops, commits, and skips non-Command entries.       *)

Proposable(v) ==
    LET partitionOps(k) ==
             {[op |-> "SHRINK_ISR", key |-> k, replica |-> r] :
                 r \in v[k].isr \ {v[k].leader}}
        \cup {[op |-> "EXPAND_ISR", key |-> k, replica |-> r] :
                 r \in Replicas \ v[k].isr}
        \cup {[op |-> "CHANGE_LEADER", key |-> k, replica |-> r] :
                 r \in v[k].isr \ {v[k].leader}}
    IN   {[op |-> "CREATE_PARTITION", key |-> k] : k \in Keys}
    \cup UNION {partitionOps(k) : k \in DOMAIN v}
    \cup {[op |-> "DELETE_STREAM", stream |-> s] : s \in Streams}
    \cup {[op |-> "PAUSE_STREAM", stream |-> s, partitions |-> ids] :
            s \in Streams, ids \in SUBSET PauseIds \ {{}}}

Propose ==
    /\ Len(raftLog) < MaxLog
    /\ \E n \in 0..Len(raftLog), op \in Ops :
          /\ op \in Proposable(Replay(n))
          /\ raftLog' = Append(raftLog, [type |-> "Command", op |-> op])
    /\ UNCHANGED <<commitIndex, lastApplied, metadata, partitions,
                   recoveryStarted, latestRecoveredLog, logDiscarded,
                   applying, aborted, fsmSnapshot, snapshot, restoredAsOf,
                   restarts>>

ProposeNoop ==
    /\ Len(raftLog) < MaxLog
    /\ raftLog' = Append(raftLog, [type |-> "Noop"])
    /\ UNCHANGED <<commitIndex, lastApplied, metadata, partitions,
                   recoveryStarted, latestRecoveredLog, logDiscarded,
                   applying, aborted, fsmSnapshot, snapshot, restoredAsOf,
                   restarts>>

Commit ==
    /\ ~aborted
    /\ \E c \in commitIndex + 1..Len(raftLog) : commitIndex' = c
    /\ UNCHANGED <<raftLog, lastApplied, metadata, partitions,
                   recoveryStarted, latestRecoveredLog, logDiscarded,
                   applying, aborted, fsmSnapshot, snapshot, restoredAsOf,
                   restarts>>

SkipNonCommand ==
    /\ ~aborted
    /\ applying = NoApply
    /\ lastApplied < commitIndex
    /\ raftLog[lastApplied + 1].type # "Command"
    /\ lastApplied' = lastApplied + 1
    /\ UNCHANGED <<raftLog, commitIndex, metadata, partitions,
                   recoveryStarted, latestRecoveredLog, logDiscarded,
                   applying, aborted, fsmSnapshot, snapshot, restoredAsOf,
                   restarts>>

Init ==
    /\ raftLog = <<>>
    /\ commitIndex = 0
    /\ lastApplied = 0
    /\ metadata = EmptyFn
    /\ partitions = EmptyFn
    /\ recoveryStarted = FALSE
    /\ latestRecoveredLog = 0
    /\ logDiscarded = FALSE
    /\ applying = NoApply
    /\ aborted = FALSE
    /\ fsmSnapshot = NoSnapshot
    /\ snapshot = NoSnapshot
    /\ restoredAsOf = 0
    /\ restarts = 0

Next ==
    \/ Propose \/ ProposeNoop \/ Commit \/ SkipNonCommand
    \/ Apply \/ ApplySetEpoch
    \/ Snapshot \/ Persist
    \/ Restart

(* Raft's FSM goroutine hands every committed entry to Apply and Apply    *)
(* runs to completion: weak fairness on the apply loop.                    *)
Fairness ==
    /\ WF_vars(Apply) /\ WF_vars(ApplySetEpoch) /\ WF_vars(SkipNonCommand)

Spec == Init /\ [][Next]_vars /\ Fairness
-----------------------------------------------------------------------------
(* Properties                                                              *)

TypeOK ==
    /\ raftLog \in Seq(Entries) /\ Len(raftLog) <= MaxLog
    /\ commitIndex \in 0..Len(raftLog)
    /\ lastApplied \in 0..commitIndex
    /\ DOMAIN metadata \subseteq Keys
    /\ \A k \in DOMAIN metadata : metadata[k] \in DOMAIN partitions
    /\ DOMAIN partitions \subseteq ObjIds
    /\ \A o \in DOMAIN partitions : partitions[o] \in PartitionRec
    /\ recoveryStarted \in BOOLEAN /\ logDiscarded \in BOOLEAN
    /\ latestRecoveredLog \in 0..MaxLog
    /\ applying \in {NoApply} \cup
          [index: 1..MaxLog, obj: ObjIds, finish: BOOLEAN]
    /\ aborted \in BOOLEAN
    /\ fsmSnapshot = NoSnapshot \/ fsmSnapshot.index \in 1..MaxLog
    /\ snapshot = NoSnapshot \/
          /\ snapshot.index \in 1..MaxLog
          /\ \A k \in DOMAIN snapshot.partitions :
                snapshot.partitions[k] \in ProtoRec
    /\ restarts \in 0..MaxRestarts

(* Snapshot keeps pointers and Persist runs concurrently with Apply, so a *)
(* persisted snapshot may hold effects of entries after its index, even   *)
(* half of one (a mutation without its SetEpoch).  After a restart from   *)
(* it, replaying the entries after its index must still bring the store   *)
(* back to exactly the metadata of the log prefix applied, once the       *)
(* replay has passed what the snapshot already held: the epoch checks of  *)
(* applyShrinkISR, applyExpandISR and applyChangeStreamLeader must skip    *)
(* exactly the entries whose effects the snapshot holds.                  *)
ReplayConverges ==
    (~aborted /\ applying = NoApply /\ lastApplied >= restoredAsOf)
        => View = Replay(lastApplied)

(* The recovery barrier of Apply: a partition created by a replayed       *)
(* (recovered) entry is not started before the barrier entry has been     *)
(* applied, and once it has (finishedRecovery), every partition is        *)
(* started and log output is no longer discarded.                         *)
RecoveryBarrier ==
    applying = NoApply =>
        /\ \A o \in Range(metadata) :
              o[1] > 0 =>
                 (partitions[o].started <=>
                     ~(latestRecoveredLog # 0 /\ o[1] <= latestRecoveredLog))
        /\ logDiscarded => latestRecoveredLog # 0

(* Within one run of the process a partition's epoch never goes down: a   *)
(* replayed entry older than what a restored snapshot holds is skipped,   *)
(* not applied over newer state.                                           *)
EpochNeverDecreases ==
    [][restarts' = restarts =>
         \A o \in DOMAIN partitions \cap DOMAIN partitions' :
            partitions'[o].epoch >= partitions[o].epoch]_vars

(* Replay of the log after a restart ends: unless Apply panics, the       *)
(* barrier entry is applied and recovered partitions are started.         *)
RecoveryFinishes ==
    latestRecoveredLog # 0 ~> (latestRecoveredLog = 0 \/ aborted)

(* Every committed entry the controller validated before proposing is     *)
(* applied without Apply panicking (spec 7: only unrecognised errors are  *)
(* fatal, and PartitionNotFound is a recognised one).                      *)
ApplyNeverAborts == ~aborted

(* Snapshot is a point-in-time view (spec 4.6 and 9): the persisted       *)
(* partitions are the metadata of the log prefix up to its index.         *)
SnapshotPointInTime ==
    snapshot # NoSnapshot => snapshot.partitions = Replay(snapshot.index)
====
