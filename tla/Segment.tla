------------------------------ MODULE Segment ------------------------------
(***************************************************************************)
(* One log segment of src/server/commitlog/segment.go: its fields and its *)
(* methods, each a function from the segment's state before the call      *)
(* (made under the segment's lock) to its state after.  CommitLog holds   *)
(* the segments and composes these calls into its operations.             *)
(*                                                                         *)
(* A message is one byte of the log file and one index entry, so         *)
(* `position` counts messages and `entries` lists the offsets the index   *)
(* holds in file order.  Timestamps are positive (the writer stamps      *)
(* messages with the clock); 0 is the "never written" value of            *)
(* firstWriteTime.  A waiter's channel is open exactly while the waiter   *)
(* is in `waiters`: notifyWaiters closes and removes every channel, and   *)
(* removeWaiter drops one the reader stopped waiting on.                  *)
(***************************************************************************)
EXTENDS Integers, Sequences

CONSTANTS
    MaxBytes,     \* maxBytes of every segment
    LogRollTime   \* TRUE when logRollTime > 0 (time-based rolling enabled)

ASSUME MaxBytes \in Nat \ {0} /\ LogRollTime \in BOOLEAN

SegmentRec(Offsets, Waiters) ==
    [base: Offsets, position: Nat, firstOffset: Offsets \cup {-1},
     lastOffset: Offsets \cup {-1}, firstWriteTime: {0, 1},
     entries: Seq(Offsets), waiters: SUBSET Waiters,
     sealed: BOOLEAN, closed: BOOLEAN, replaced: BOOLEAN]

(* newSegment for a file that does not exist yet: empty log and index.    *)
NewSegment(baseOffset) ==
    [base |-> baseOffset, position |-> 0, firstOffset |-> -1,
     lastOffset |-> -1, firstWriteTime |-> 0, entries |-> <<>>,
     waiters |-> {}, sealed |-> FALSE, closed |-> FALSE, replaced |-> FALSE]

(* setupIndex: first/last offset and write time from the index entries;   *)
(* an empty index leaves them as they are.                                 *)
SetupIndex(s) ==
    IF s.entries = <<>> THEN s
    ELSE [s EXCEPT !.firstOffset = s.entries[1],
                   !.lastOffset = s.entries[Len(s.entries)],
                   !.firstWriteTime = 1]

(* Variant: a full segment is only rolled once it is past maxBytes.      *)
CheckSplitStrict(s) ==
    IF s.position > MaxBytes THEN {TRUE}
    ELSE IF ~LogRollTime \/ s.firstWriteTime = 0 THEN {FALSE}
    ELSE {TRUE, FALSE}

(* CheckSplit: the outcomes it may return.  With time-based rolling the   *)
(* answer for a written, non-full segment depends on the clock.           *)
CheckSplit(s) ==
    IF s.position >= MaxBytes THEN {TRUE}
    ELSE IF ~LogRollTime \/ s.firstWriteTime = 0 THEN {FALSE}
    ELSE {TRUE, FALSE}

(* notifyWaiters: close every waiter's channel and drop it from the map. *)
NotifyWaiters(s) == [s EXCEPT !.waiters = {}]

(* Seal: a no-op on a sealed segment; otherwise mark it sealed and notify *)
(* the waiters (Index.Shrink only resizes the index file).               *)
Seal(s) == IF s.sealed THEN s ELSE NotifyWaiters([s EXCEPT !.sealed = TRUE])

(* Variant: NextOffset without the empty-segment case.                   *)
NextOffsetNoSentinel(s) == s.lastOffset + 1

NextOffset(s) == IF s.lastOffset = -1 THEN s.base ELSE s.lastOffset + 1

(* Variant: write sets firstOffset on every write.                        *)
WriteMessageSetEveryFirst(s, offs) ==
    IF s.closed THEN s
    ELSE NotifyWaiters(
            [s EXCEPT !.position = @ + Len(offs), !.firstOffset = offs[1],
                      !.firstWriteTime = 1, !.lastOffset = offs[Len(offs)],
                      !.entries = @ \o offs])

(* WriteMessageSet with write: a closed segment refuses the write         *)
(* (ErrSegmentClosed); otherwise the bytes and index entries are appended *)
(* for the message offsets `offs`, first offset and time are set on the  *)
(* first write, the last offset always, and the waiters are notified.    *)
WriteMessageSet(s, offs) ==
    IF s.closed THEN s
    ELSE NotifyWaiters(
            [s EXCEPT !.position = @ + Len(offs),
                      !.firstOffset = IF s.firstWriteTime = 0 THEN offs[1] ELSE @,
                      !.firstWriteTime = 1,
                      !.lastOffset = offs[Len(offs)],
                      !.entries = @ \o offs])

(* The outcome of ReadAt on a segment.                                     *)
ReadAt(s) ==
    IF ~s.closed THEN "ok"
    ELSE IF s.replaced THEN "ErrSegmentReplaced" ELSE "ErrSegmentClosed"

(* Variant: waitForData registers without re-checking the position.     *)
WaitForDataNoRecheck(s, w, pos) ==
    IF w \in s.waiters \/ s.position >= MaxBytes THEN s
    ELSE [s EXCEPT !.waiters = @ \cup {w}]

(* Variant: waitForData answers at once when no byte is past pos yet.    *)
WaitForDataEager(s, w, pos) ==
    IF w \in s.waiters THEN s
    ELSE IF s.position >= pos \/ s.position >= MaxBytes THEN s
    ELSE [s EXCEPT !.waiters = @ \cup {w}]

(* waitForData: keep an existing registration; a closed channel if data  *)
(* was written past pos or the segment is full; else register waiter w.  *)
WaitForData(s, w, pos) ==
    IF w \in s.waiters THEN s
    ELSE IF s.position > pos \/ s.position >= MaxBytes THEN s
    ELSE [s EXCEPT !.waiters = @ \cup {w}]

(* WaitForLEO: a closed channel if the segment's last offset is no longer *)
(* leo, else waitForData at the current position.                        *)
WaitForLEO(s, w, leo) ==
    IF s.lastOffset # leo THEN s ELSE WaitForData(s, w, s.position)

RemoveWaiter(s, w) == [s EXCEPT !.waiters = @ \ {w}]

(* Close (and close): idempotent; the segment can no longer be read or    *)
(* written.                                                                *)
Close(s) == [s EXCEPT !.closed = TRUE]

(* Delete: Close, then remove the files.                                   *)
Delete(s) == Close(s)

(* Replace's early returns, as <<"err", new, old>>: old.close fails (340, *)
(* nothing marked; a half-closed file is not modelled); s.close fails     *)
(* (343: old closed); a rename or the reopen fails (346-356: both         *)
(* closed); setupIndex fails (362: new reopened, old already marked       *)
(* replaced at 361).                                                      *)
ReplaceFailed(new, old) ==
    { <<"err", new, old>>,
      <<"err", new, Close(old)>>,
      <<"err", Close(new), Close(old)>>,
      <<"err", [new EXCEPT !.closed = FALSE], [Close(old) EXCEPT !.replaced = TRUE]>> }

(* Variant: Replace marks old replaced without closing it.               *)
ReplaceNoClose(new, old) ==
    {<<"ok", SetupIndex([new EXCEPT !.closed = FALSE]), [old EXCEPT !.replaced = TRUE]>>}
        \cup ReplaceFailed(new, old)

(* Replace(old) called on the sibling `new`: with both locks held, close  *)
(* old and new, rename new's files over old's, reopen new, mark old       *)
(* replaced and reload new's index; or one of its early returns.  Old's   *)
(* waiters are left as they are.  The outcomes <<result, new, old>>.      *)
Replace(new, old) ==
    {<<"ok", SetupIndex([new EXCEPT !.closed = FALSE]),
             [Close(old) EXCEPT !.replaced = TRUE]>>}
        \cup ReplaceFailed(new, old)
====
