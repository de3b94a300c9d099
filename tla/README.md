# TLA+ models of liftbridge's metadata FSM and log segments

This directory models the two source files of this repository:
- `src/server/fsm.go`: the Raft finite-state machine that applies metadata operations.
- `src/server/commitlog/segment.go`: one segment of a partition's commit log.

The modules are checked with TLC. `PROJECT.json` lists:
- every component, modelled or not;
- every run and what it shows;
- the mutants that show each property can fail;
- the source lines each definition translates (`map`);
- the findings and the hazards.

## The system and its parts

| Part | Source | State | Operations |
|---|---|---|---|
| Raft FSM | `fsm.go` | `recoveryStarted`, `latestRecoveredLog`, the metadata store | `Apply` (prologue, `apply`, six handlers, deferred `finishedRecovery`), `Snapshot`, `fsmSnapshot.Persist`, `Restore` |
| Metadata store, partitions | not in this repository (spec 4.4, 4.5) | streams → partitions (leader, ISR, epoch, leader epoch, paused, started) | `AddPartition`, `RemoveFromISR`, `AddToISR`, `SetLeader`, `SetEpoch`, `StartRecovered`, `Pause`, `CloseAndDeleteStream` |
| Segment | `segment.go` | position, first/last offset, first write time, index entries, waiters map, sealed/closed/replaced | `newSegment`, `setupIndex`, `CheckSplit`, `Seal`, `WriteMessageSet`, `ReadAt`, `WaitForData`, `WaitForLEO`, `removeWaiter`, `Close`, `Replace`, `Delete`, `findEntry`, `findEntryByTimestamp` |
| Segment files | `segment.go` | the directory's names and the inodes they name; each segment's open handles and the names it opened them under | `newSegment`'s opens, `Truncated`, `Cleaned`, `close`, `Replace`'s six steps, `Delete`'s three steps, `logPath`, `indexPath` |
| CommitLog, Reader | not in this repository (spec 4.3) | list of segments (last is active) | `Append` with roll, `Truncate`, `NotifyLEO`, reader wait / read / retry |

How the parts interact:
- **Raft and the FSM.** Raft calls `Apply` for committed entries, one at a time.
  - `Snapshot` is called between two Applies.
  - `Persist` runs concurrently with later Applies.
  - `Restore` runs when the process starts from a snapshot.
- **Recovery.** On the first `Apply` after a start, the FSM scans the Raft log backwards for the newest committed command. That command is the recovery barrier.
  - Partitions created up to and including the barrier are not started.
  - When the barrier entry is applied, `finishedRecovery` starts them.
- **The commit log and its segments.** The commit log appends to its active segment.
  - When `CheckSplit` says so (the segment is full, or `logRollTime` has passed since its first write), the log seals the active segment and opens a new one.
  - `Truncate` writes a `.truncated` sibling and calls `Replace`.
- **Readers.** A reader at the log end calls `WaitForData`/`NotifyLEO` and is woken by `notifyWaiters`. A reader holding a segment that was replaced gets `ErrSegmentReplaced` and re-resolves.

## Modules

### `MetadataFSM.tla` (with `MCMetadataFSM.tla`)

The FSM, with Raft as its environment.

**Variables:**
- Raft's state: `raftLog`, `commitIndex`, `lastApplied`.
- The store:
  - `metadata` maps each (stream, partition id) key to a partition object;
  - `partitions` maps each object to its record.
  - Objects are named `<<creation index, key>>`; restored objects use index 0.
- The recovery fields of `Server`: `recoveryStarted`, `latestRecoveredLog` (0 is nil), `logDiscarded`.
- `applying`: a handler that mutated a partition but has not yet called `SetEpoch`.
- `aborted`: Apply panicked.
- `fsmSnapshot`: what `Snapshot` returned (pointers to the live objects). `snapshot`: the last persisted one.
- `restarts`, and `restoredAsOf` (see `ReplayConverges`).

**Actions:**
- **`Apply`** is the whole of `Apply` and `apply` for the next committed command. The prologue (`Barrier`, `Prologue`, `StartedRecovery`) is conjoined with one handler:
  - `ApplyCreatePartition`, `ApplyEpochOp` (ShrinkISR / ExpandISR / ChangeLeader), `ApplyDeleteStream`, `ApplyPauseStream`;
  - each ends in `Returned`, which also runs the deferred `finishedRecovery`.
- **`ApplySetEpoch`.** A handler of `ApplyEpochOp` that mutates a partition does so in one step. Its `SetEpoch` and return are the separate step `ApplySetEpoch`. This is the only split of a handler. It exists because `Persist` really runs between the two lines (`fsm.go:371-375`).
- **Error paths:**
  - sentinel errors leave the state unchanged;
  - a missing partition in the three epoch handlers is a plain error, so Apply panics (`aborted`).
- **`Snapshot`, `Persist`, `Restart`.**
  - `Persist` either writes the live objects' current protos, or fails and cancels the sink.
  - `Restart` crashes the process and restores the last persisted snapshot. After it, Raft replays from the snapshot index.
- **Environment (Raft):**
  - `Propose` is any operation a controller would validate against any applied prefix of the log, so proposals race each other.
  - `ProposeNoop`, `Commit`, and `SkipNonCommand` (Raft applies non-command entries without calling the FSM).

`Replay(n)` is the reference: the store a log prefix stands for. It is written independently from the table of spec 4.6, as a RECURSIVE fold.

### `Segment.tla`

The segment's fields (`SegmentRec`) and each method as a function from the segment's state before the call to its state after. The segment's lock makes each call atomic.

Abstractions:
- A message is one byte and one index entry.
- Time is 0 (never written) or positive.
- A waiter's channel is open exactly while the waiter is in the `waiters` set:
  - `notifyWaiters` empties the set;
  - `removeWaiter` drops one waiter.
- `CheckSplit` returns the set of answers it may give: with time-based rolling, whether the roll time has passed depends on the clock.
- The module also defines the mutant variants (e.g. `WaitForDataNoRecheck`).

### `CommitLog.tla` (with `MCCommitLog.tla`)

The commit log around the segments, modelled from spec 4.3 because that code is not in this repository. It calls the segment methods.

**Variables:**
- `segs`: segment objects;
- `segments`: the log's list;
- `readers`: each reader's state;
- `nextSeg`, `truncates`.

**Actions:**
- `AppendMessages`: CheckSplit; on a roll, Seal the active segment and open a new one at LEO; then WriteMessageSet.
- `Truncate`: build the sibling and call `Replace`, which returns one of its outcomes (`Segment.Replace`: success, or an error after any of its early returns, with the segments left as the code leaves them). On success the sibling takes the old segment's place and the later segments are `Delete`d; on an error the list is unchanged and the sibling is dropped.
- Readers:
  - `ObserveEnd`, then `Wait` (WaitForData on the observed segment, or NotifyLEO on the active one);
  - `Woken` when the channel is closed;
  - `Cancel` (`removeWaiter` on timeout);
  - `Resolve` an offset, then `Read` (ReadAt, retrying on `ErrSegmentReplaced`).

The reader's look at the log end and its call to WaitForData are separate steps, as they are in any caller: the segment lock is not held between them.

### `SegmentIndex.tla`

`findEntry` and `findEntryByTimestamp`. The `sort.Search` loop runs one halving per step (`SearchStep`, `Found`) over every index of up to `MaxEntries` entries and every target. The answer is compared with `FirstAtLeast`, a linear scan.

### `SegmentFiles.tla` (with `MCSegmentFiles.tla`)

The files behind the segments, and what a failure or a crash leaves on disk.

**State:**
- `dir` maps every name `<<base, ".log" or ".index", suffix>>` to an inode. `%020d` is injective, so the name triple stands for the formatted path.
- `segs[s]` holds a segment's base and suffix, the inodes it has open, the names it opened them under (`log.Name()`, `Index.Name()`), and `closed`/`replaced`.
- `creator[i]` is the segment that created inode `i`; it stands for the data in the file.
- `listed[b]` is the segment the log serves at base `b`, `up` says whether the process runs, and `faults` counts failures and crashes.

**Actions:**
- `Roll(b)` is `newSegment(..., isNew = true, "")`. When the `.log` exists it returns `ErrSegmentExists` and nothing changes.
- `Sibling(b, suffix)` is `Truncated()`/`Cleaned()`: `newSegment` with `isNew = false`, so existing files are reopened.
- `ReplaceSegment(new, old)` performs the first `k` steps of `Replace` (`ReplaceSteps`):
  1. `old.close()`;
  2. `s.close()`;
  3. rename the `.log`;
  4. rename the index and clear the suffix;
  5. reopen by path;
  6. mark `old.replaced`, then `setupIndex`.

  When `k < 6`, step `k + 1` failed and Replace returned its error. A setupIndex failure (`k = 5`) comes after `old.replaced = true` (line 361), so the old segment is already marked replaced and the sibling is reopened under the old names. The log serves the sibling only if Replace returned nil.
- `DeleteSegment(b)` performs the first `k` steps of `Delete`: `Close`, remove the `.log` by its open name, remove the index by its name.
- `Crash` closes everything and forgets the list. `Reopen(b)` and `Started` are the log's open: reopen every base whose unsuffixed `.log` exists (spec-modelled).

A crash in the middle of `Replace` or `Delete` leaves the same files as a failure at that step followed by `Crash`, so both are covered.

### `AbstractLog.tla`

What the commit log promises, without segments:
- the log is the dense offsets `0..leo-1`;
- an append adds at most a batch;
- a truncation lowers `leo`;
- a reader resolves an offset of the log, and its read returns data only for an offset below `leo` at that moment;
- a read may end at any time (the segment it held was closed under it).

`CommitLog` instantiates it with `leo <- LEO` and maps each reader: `holding` stays `holding` at its offset, every other state is `idle` with the result of the last read. A re-resolve after `ErrSegmentReplaced` is a stutter. `ImplementsAbstractLog == Abs!Spec` is checked as a property.

## Runs

| Run | Checks | Result |
|---|---|---|
| `fsm_safety` | `TypeOK`, `ReplayConverges`, `RecoveryBarrier`, `EpochNeverDecreases`, `RecoveryFinishes` | pass, about 1.2M states, 2 to 3 min |
| `fsm_apply_abort` | `ApplyNeverAborts` | violated |
| `fsm_snapshot_point_in_time` | `SnapshotPointInTime` | violated |
| `log_wakeup` | `TypeOK`, `NoLostWakeup`, `SegmentsContiguous`, `WakeMeansProgress` (size-based rolling, three readers) | pass, about 220k states |
| `log_truncate` | `SegmentsContiguous`, `ImplementsAbstractLog` (time-based rolling, one Truncate that may fail at any step of Replace) | pass, about 550k states, 40 s |
| `log_sealed_waiter` | `NoLostWakeup` with time-based rolling | violated |
| `log_truncate_waiter` | `NoLostWakeup` with Truncate | violated |
| `log_leo_after_truncate` | `LEOWaitBlocks` with Truncate | violated |
| `index_lookup` | `TypeOK`, `FindsFirstAtLeast` (clock-ordered timestamps) | pass |
| `index_producer_timestamps` | `FindsFirstAtLeast` (timestamps in any order) | violated |
| `files_faults` | `TypeOK`, `ServesWhatRestartLoads` (failures and crashes) | pass, about 330k states |
| `files_replace_atomic` | `ReplaceAllOrNothing` | violated |

### What the properties say

- **`ReplayConverges`.** Whenever the FSM is idle, has not panicked, and has applied past the point its restored snapshot was really taken at, the store equals `Replay(lastApplied)`. This covers:
  - racing proposals;
  - a snapshot persisted mid-handler;
  - a restart from it.

  Every modelled operation overwrites the fields it sets, so re-applying it leaves the same store: `ReplayConverges` does not depend on the idempotency checks (`epoch >= index`). `EpochNeverDecreases` is the property that catches their removal.
- **`RecoveryBarrier`.** A partition created by an entry at or before the barrier is unstarted until the barrier entry has been applied, and every other partition is started. Log output is discarded only while a barrier is pending.
- **`RecoveryFinishes`** (liveness). A pending barrier is eventually cleared, unless Apply panicked.
- **`EpochNeverDecreases`** (action property). Within one process lifetime, no step lowers a partition's epoch.
- **`NoLostWakeup`.** A registered waiter sits only on the active, unsealed, open segment, with no bytes past the position it waits at.
- **`SegmentsContiguous`.** Within every segment, offsets are dense from its base, and each segment starts where the previous one ends. First and last offsets agree with the index.
- **`LEOWaitBlocks`** (action property, expected violated). NotifyLEO with the current newest offset on a non-full active segment registers the waiter. Without truncation `WakeMeansProgress` implies it, so it is checked only in `log_leo_after_truncate`.
- **`WakeMeansProgress`** (action property). A reader whose channel was closed has something to do when it resumes: bytes past the position it waited at, a sealed or full segment, or (NotifyLEO) a log end other than the one it passed. Otherwise callers spin. With truncation it fails in the same way as finding 5, so it is checked in `log_wakeup` only.
- **`ImplementsAbstractLog`** (refinement). `CommitLog` implements `AbstractLog`: in particular, no read returns data for an offset that Truncate has cut, whatever segment the reader held and whichever step of Replace failed. The abstract log does not promise that a read of an offset it still holds returns data: a failed Replace leaves readers of such offsets with `ErrSegmentClosed` (finding 7).
- **`ServesWhatRestartLoads`.** Every segment the running log serves has open exactly the unsuffixed `.log` and `.index` of its base, the files a restart would load.
- **`ReplaceAllOrNothing`** (expected violated). Whichever step of Replace fails, the log serves only open segments, and every base's `.log` and `.index` were created by one segment.
- **`FindsFirstAtLeast`.** The lookup returns the first entry whose key is at least the target, or `ErrEntryNotFound` exactly when there is none.

Every property of a passing run has a mutant in `PROJECT.json`, a plausible bug of the mapped code that TLC finds. For example:
- dropping the idempotency check breaks `EpochNeverDecreases`;
- dropping waitForData's position re-check breaks `NoLostWakeup`;
- answering waitForData at once when `position >= pos` breaks `WakeMeansProgress`;
- a Replace that does not close the old segment breaks `ImplementsAbstractLog`: a reader holding it reads an offset the truncation cut;
- a Replace that keeps the sibling's suffix when reopening breaks `ServesWhatRestartLoads`;
- dropping the empty-segment case of `NextOffset` breaks `SegmentsContiguous`.

### Findings

1. **Apply panics on a stale ISR or leader op** (`fsm.go:362`, `387`, `412`). A ShrinkISR, ExpandISR or ChangeLeader can be validated before a DeleteStream and committed after it. The missing partition is then a `fmt.Errorf`, not `ErrPartitionNotFound`. So every replica panics, and panics again when it replays the log. Spec section 7 treats PartitionNotFound as a result returned to the proposer.
2. **A snapshot is not point-in-time** (`fsm.go:290`). `Snapshot` keeps pointers that `Persist` marshals later, so the snapshot can include state from after its index, even a mutation without its new epoch. `ReplayConverges` shows that a restored node still converges, because every operation overwrites the fields it sets. The spec (4.6, 9) promises a point-in-time view.
3. **Waiter on a sealed segment** (`segment.go:288`). With `logRollTime > 0`, a reader that looked at the active segment just before a time-based roll registers on the sealed segment. Nothing writes to it again.
4. **Waiters stranded by Truncate** (`segment.go:340`, `407`). `Replace` and `Delete` close a segment without notifying its waiters.
5. **NotifyLEO on an empty active segment** (`segment.go:266`). After a truncation to a segment's base offset, `lastOffset` is -1. NotifyLEO then returns at once for the current newest offset, so the caller spins.
6. **Timestamp lookup assumes sorted timestamps** (`segment.go:392`). Producer- or leader-assigned timestamps break spec 8.8.
7. **Replace is not all-or-nothing** (`segment.go:343`, `346`). Replace closes the old segment first and returns at the first failing step. A failed `s.close`, rename or reopen leaves the old segment closed but not replaced, while the log still serves it: reads get `ErrSegmentClosed` and writes fail. A failure or crash between the two renames leaves the sibling's `.log` beside the old `.index`. A `setupIndex` failure (362) comes after `old.replaced = true` (361): Replace returns an error, the log keeps listing the old segment, and a reader holding it gets `ErrSegmentReplaced` and re-resolves to the same segment, forever. TLC finds that loop when `readers[w].pc = "holding" ~> readers[w].pc = "idle"` is added to `MCCommitLog_Truncate.cfg` with weak fairness on `Read`. Whether `commitLog.Truncate` does something else on this error is code not in this repository, so the loop is listed as a hazard, not as a run. Spec 4.2 calls Replace an atomic rename ceremony.

The model also differs from the spec's words in ways that are not violations:
- The code uses the Raft index as the epoch of every operation.
- The barrier is the newest command at or below `commitIndex`, not "below the entry being applied".
- The barrier also engages on a fresh start when the first applied index is below the commit index.

## Bounds

**`MCMetadataFSM.cfg`:**
- one stream with partition 0 (`PauseIds = {0, 1}`, so pausing a missing partition id happens);
- two replicas;
- at most 4 log entries and one restart.

These are the smallest bounds in which each case happens:
- a stale op racing a delete;
- an op re-applied after a restore;
- a barrier with a no-op beyond it;
- Persist between a mutation and its SetEpoch.

**`MCCommitLog*.cfg`:**
- `log_wakeup`: `maxBytes = 3`, offsets up to 7, three readers (symmetric), so two readers wait on one segment while a third is elsewhere, and three segments are rolled;
- the other runs: `maxBytes = 2`, offsets up to 4, two readers (symmetric);
- message sets of 1 or 2;
- at most one Truncate.

Rolls, a full segment, a set crossing `maxBytes`, and a truncation both inside a segment and at its base all occur.

**`MCSegmentFiles*.cfg`:**
- two bases, so a later segment can be rolled, deleted and rolled again;
- up to 5 segment objects: the first, a roll, a sibling, a retried sibling and a reopen;
- up to 2 faults, enough for a failed Replace followed by a crash, or a failed Delete followed by a roll.

**`MCSegmentIndex.cfg`:** every index of up to 4 entries with timestamps 1..3, and every target. This covers empty indexes, hits at either end, and misses.

## Fairness and deadlock

`Spec` of MetadataFSM assumes weak fairness of `Apply`, `ApplySetEpoch` and `SkipNonCommand`:
- Raft's FSM goroutine applies every committed entry;
- a started handler finishes.

Proposals, commits, snapshots and restarts get no fairness.

CommitLog has no liveness properties and no fairness: appends, truncation, and starting, waiting for, reading or cancelling a read are the callers' choice.

SegmentIndex and SegmentFiles have no liveness properties and no fairness.

Deadlock checking is off:
- **MetadataFSM:** the FSM is passive. With no proposal left (the log is bounded) it idles, and after a panic it stops.
- **CommitLog:** the log may stop at its offset bound.
- **SegmentIndex:** a lookup ends.
- **SegmentFiles:** the bounds on segment objects and faults end every behaviour.

## Not modelled

- The partition role goroutines (leader, follower, fetching) are not modelled. "Started" is a flag.
- The commit log's high watermark, leader-epoch map, readonly mode, retention and compaction (`Clean`, `Cleaned`) are not modelled.
- File contents are not modelled: an inode stands for what its creator wrote. So it is not checked that a sibling reopened from a failed attempt's leftover files starts with that attempt's entries (`segment.go:331`). Whether the log removes those leftovers is code not in this repository.
- `WriteMessageSet`'s two writes (log bytes, then index entries) are one unit. The index file is not in this repository.
- `segmentScanner.Scan` only reads.
- A Restore while a recovery replay is in progress (a snapshot installed from the leader) is not modelled: it needs a second replica's log and snapshot, and MetadataFSM models one replica's FSM over one log. In the code Restore leaves `latestRecoveredLog` set, so after a snapshot at or past the barrier the barrier entry is never applied and `finishedRecovery` never runs.
- `PauseStream`'s `resumeAll` flag is passed to `stream.Pause`, which is not in this repository; the spec only says Pause toggles the paused flag. The model pauses the named partitions and ignores `resumeAll`.
- The `isShutdown` path of Apply, which returns an error instead of panicking, is not modelled.
- The data race between `Persist`'s marshal and Apply's field writes is not modelled at field level. A snapshot sees each partition as before or after a whole handler step.

## Plan for further work

1. The CommitLog's high watermark, `SetReadonly` (it wakes committed readers) and the leader-epoch map, with `LastOffsetForLeaderEpoch` as a RECURSIVE operator against spec 8.6.
2. Compose `SegmentFiles` with `CommitLog`, so the file names readers reopen after a crash are tied to the segments they held. `CommitLog` already sees every outcome of Replace through `Segment.Replace`.
3. An abstract metadata specification (a log of operations applied exactly once), with `MetadataFSM` shown to refine it by a refinement mapping.
4. Restore during replay.
