----------------------------- MODULE CommitLog -----------------------------
(***************************************************************************)
(* The commit log around the segments of Segment: an ordered list of      *)
(* segments, the last of them active, a writer appending message sets    *)
(* (rolling a new segment when CheckSplit says so), Truncate on leader    *)
(* change, and readers that wait at the log end or read a resolved       *)
(* segment concurrently with the writer.  The log's own code is not in   *)
(* this repository: its operations follow spec section 4.3 and call the  *)
(* segment methods of src/server/commitlog/segment.go.                    *)
(*                                                                         *)
(* Segments are objects named by creation number; `segments` is the      *)
(* log's list of them.  A reader is in one of these states:               *)
(*   idle      - not waiting, holding no segment;                         *)
(*   observed  - found itself at the end of segment `seg` at byte `pos`   *)
(*               (mode "data") or found the log end offset `leo` (mode    *)
(*               "leo"), and has not yet called WaitForData/NotifyLEO;    *)
(*   waiting   - called it; blocked while it is in the segment's waiters, *)
(*               its channel closed once it is not;                       *)
(*   holding   - resolved offset `off` to segment `seg` and will ReadAt.  *)
(***************************************************************************)
EXTENDS Segment, FiniteSets, TLC

CONSTANTS
    Waiters,       \* reader identities (the opaque waiter tokens)
    MaxOffset,     \* appends stop when the log end offset reaches it
    MaxBatch,      \* most messages in one appended message set
    MaxTruncates   \* most Truncate calls in a behaviour

ASSUME MaxOffset \in Nat \ {0} /\ MaxBatch \in Nat \ {0} /\ MaxTruncates \in Nat

Offsets == 0..MaxOffset
NoSeg == 0

VARIABLES
    segs,       \* segment object -> its state
    segments,   \* the log's ordered list of segment objects
    nextSeg,    \* the next unused segment object
    readers,    \* reader -> its state
    truncates   \* Truncate calls made so far

vars == <<segs, segments, nextSeg, readers, truncates>>

Active == segments[Len(segments)]
Listed == {segments[i] : i \in 1..Len(segments)}
LEO == NextOffset(segs[Active])
OldestOffset == segs[segments[1]].base

(* The listed segment whose offsets include o (findSegmentContains).      *)
Containing(o) ==
    CHOOSE s \in Listed : segs[s].base <= o /\ o < NextOffset(segs[s])

IdleReader == [pc |-> "idle", mode |-> "data", seg |-> NoSeg, pos |-> 0,
               leo |-> -1, off |-> 0, got |-> "none"]

(* Types; a segment takes writes only while below maxBytes, so it ends at *)
(* most one message set past it.                                           *)
TypeOK ==
    /\ segs \in [1..(nextSeg - 1) -> SegmentRec(Offsets, Waiters)]
    /\ \A s \in DOMAIN segs : segs[s].position <= MaxBytes + MaxBatch - 1
    /\ segments \in Seq(DOMAIN segs) /\ segments # <<>>
    /\ readers \in [Waiters -> [pc: {"idle", "observed", "waiting", "holding"},
                                mode: {"data", "leo"}, seg: {NoSeg} \cup DOMAIN segs,
                                pos: Nat, leo: Offsets \cup {-1}, off: Offsets,
                                got: {"none", "data", "end"}]]
    /\ truncates \in 0..MaxTruncates

Init ==
    /\ segs = (1 :> NewSegment(0))
    /\ segments = <<1>>
    /\ nextSeg = 2
    /\ readers = [w \in Waiters |-> IdleReader]
    /\ truncates = 0

(* The offsets of a message set of n messages written at offset o.        *)
Batch(o, n) == [j \in 1..n |-> o + j - 1]

(* Append: if CheckSplit on the active segment, seal it and open a new    *)
(* segment at the log end; then write the message set to the active one. *)
AppendMessages ==
    \E n \in 1..MaxBatch, split \in CheckSplit(segs[Active]) :
        /\ LEO + n <= MaxOffset
        /\ IF split
             THEN /\ segs' = (nextSeg :> WriteMessageSet(NewSegment(LEO), Batch(LEO, n)))
                             @@ [segs EXCEPT ![Active] = Seal(@)]
                  /\ segments' = Append(segments, nextSeg)
                  /\ nextSeg' = nextSeg + 1
             ELSE /\ segs' = [segs EXCEPT ![Active] = WriteMessageSet(@, Batch(LEO, n))]
                  /\ UNCHANGED <<segments, nextSeg>>
        /\ UNCHANGED <<readers, truncates>>

(* Truncate(o): build the .truncated sibling of the segment containing o  *)
(* with its entries below o and Replace that segment by it; if Replace    *)
(* returned nil, Delete every later segment and make the sibling the last *)
(* segment of the log, else return its error with the list unchanged and  *)
(* the sibling dropped (spec 4.3, 7).                                     *)
Truncate ==
    \E o \in OldestOffset..(LEO - 1) :
        LET old == Containing(o)
            idx == CHOOSE i \in 1..Len(segments) : segments[i] = old
            base == segs[old].base
            sibling == IF o = base THEN NewSegment(base)
                       ELSE WriteMessageSet(NewSegment(base), Batch(base, o - base))
            later == {segments[i] : i \in (idx + 1)..Len(segments)}
        IN /\ truncates < MaxTruncates
           /\ truncates' = truncates + 1
           /\ UNCHANGED readers
           /\ \E r \in Replace(sibling, segs[old]) :
                IF r[1] = "ok"
                THEN /\ segs' = (nextSeg :> r[2])
                               @@ [s \in DOMAIN segs |->
                                     IF s = old THEN r[3]
                                     ELSE IF s \in later THEN Delete(segs[s])
                                     ELSE segs[s]]
                     /\ segments' = Append(SubSeq(segments, 1, idx - 1), nextSeg)
                     /\ nextSeg' = nextSeg + 1
                ELSE /\ segs' = [segs EXCEPT ![old] = r[3]]
                     /\ UNCHANGED <<segments, nextSeg>>

(* A reader at the log end notes the active segment and its position     *)
(* (to call WaitForData), or the log end offset (to call NotifyLEO).     *)
ObserveEnd(w) ==
    /\ readers[w].pc = "idle"
    /\ \/ readers' = [readers EXCEPT ![w] = [IdleReader EXCEPT
                         !.pc = "observed", !.seg = Active, !.pos = segs[Active].position]]
       \/ readers' = [readers EXCEPT ![w] = [IdleReader EXCEPT
                         !.pc = "observed", !.mode = "leo", !.leo = LEO - 1]]
    /\ UNCHANGED <<segs, segments, nextSeg, truncates>>

(* WaitForData on the segment it observed, or NotifyLEO: WaitForLEO on   *)
(* the segment active at the call.                                       *)
Wait(w) ==
    LET r == readers[w]
        s == IF r.mode = "data" THEN r.seg ELSE Active
    IN /\ r.pc = "observed"
       /\ segs' = [segs EXCEPT ![s] = IF r.mode = "data" THEN WaitForData(@, w, r.pos)
                                                       ELSE WaitForLEO(@, w, r.leo)]
       /\ readers' = [readers EXCEPT ![w].pc = "waiting", ![w].seg = s,
                        ![w].pos = IF r.mode = "data" THEN r.pos ELSE segs[s].position]
       /\ UNCHANGED <<segments, nextSeg, truncates>>

(* The reader's channel is closed: it stops waiting and reads on.        *)
Woken(w) ==
    /\ readers[w].pc = "waiting"
    /\ w \notin segs[readers[w].seg].waiters
    /\ readers' = [readers EXCEPT ![w] = IdleReader]
    /\ UNCHANGED <<segs, segments, nextSeg, truncates>>

(* The caller's timeout or cancellation: removeWaiter, stop waiting.     *)
Cancel(w) ==
    /\ readers[w].pc = "waiting"
    /\ w \in segs[readers[w].seg].waiters
    /\ segs' = [segs EXCEPT ![readers[w].seg] = RemoveWaiter(@, w)]
    /\ readers' = [readers EXCEPT ![w] = IdleReader]
    /\ UNCHANGED <<segments, nextSeg, truncates>>

(* A reader resolves an offset below the log end to its segment.         *)
Resolve(w) ==
    \E o \in OldestOffset..(LEO - 1) :
        /\ readers[w].pc = "idle"
        /\ readers' = [readers EXCEPT ![w] = [IdleReader EXCEPT
                         !.pc = "holding", !.seg = Containing(o), !.off = o]]
        /\ UNCHANGED <<segs, segments, nextSeg, truncates>>

(* ReadAt on the held segment: data, or on ErrSegmentReplaced re-resolve *)
(* the offset if it is still below the log end, or on ErrSegmentClosed   *)
(* give up; `got` is what the read returned to its caller.              *)
Read(w) ==
    LET r == readers[w]
        res == ReadAt(segs[r.seg])
    IN /\ r.pc = "holding"
       /\ readers' = [readers EXCEPT ![w] =
             IF res = "ErrSegmentReplaced" /\ r.off < LEO
               THEN [r EXCEPT !.seg = Containing(r.off)]
               ELSE [IdleReader EXCEPT !.got = IF res = "ok" THEN "data" ELSE "end"]]
       /\ UNCHANGED <<segs, segments, nextSeg, truncates>>

Next ==
    \/ AppendMessages
    \/ Truncate
    \/ \E w \in Waiters :
          ObserveEnd(w) \/ Wait(w) \/ Woken(w) \/ Cancel(w) \/ Resolve(w) \/ Read(w)

Spec == Init /\ [][Next]_vars
-----------------------------------------------------------------------------
(* Properties *)

(* A waiter is only ever parked on a segment that will still wake it and *)
(* has nothing for it yet: the active segment, open for writes, with no   *)
(* byte past the position the reader waits at.  Every segment method that *)
(* leaves a waiter registered (waitForData after re-checking position,    *)
(* Seal and write notifying, Replace and Delete closing) must keep this,  *)
(* or a reader blocked in WaitForData/NotifyLEO misses data or the next   *)
(* append.                                                                 *)
NoLostWakeup ==
    \A s \in DOMAIN segs : \A w \in segs[s].waiters :
        /\ s = Active /\ ~segs[s].sealed /\ ~segs[s].closed
        /\ segs[s].position <= readers[w].pos

(* Offsets are dense from the first segment's base across all listed     *)
(* segments (spec section 3): every segment's index holds exactly the     *)
(* offsets from its base up to its last offset, its first and last       *)
(* offsets agree with them, and the next segment starts right after.     *)
(* Kept by write's first-write bookkeeping, the roll at NextOffset, and   *)
(* Truncate's sibling and Replace's setupIndex.                           *)
SegmentsContiguous ==
    /\ OldestOffset = 0
    /\ \A i \in 1..Len(segments) :
          LET sg == segs[segments[i]] IN
          /\ sg.entries = Batch(sg.base, Len(sg.entries))
          /\ sg.position = Len(sg.entries)
          /\ sg.firstOffset = IF sg.entries = <<>> THEN -1 ELSE sg.base
          /\ sg.lastOffset = IF sg.entries = <<>> THEN -1 ELSE sg.base + Len(sg.entries) - 1
          /\ i < Len(segments) => NextOffset(sg) = segs[segments[i + 1]].base

(* NotifyLEO called with the log's current newest offset parks the       *)
(* reader until the log grows (spec 4.3: an already-closed channel only   *)
(* when leo no longer equals the current one).  WaitForLEO compares leo  *)
(* with the active segment's lastOffset.  A full active segment may      *)
(* answer at once (it rolls on the next append).                         *)
LEOWaitBlocks ==
    [][\A w \in Waiters :
          (/\ readers[w].pc = "observed" /\ readers[w].mode = "leo"
           /\ readers[w].leo = LEO - 1 /\ segs[Active].position < MaxBytes
           /\ readers'[w].pc = "waiting")
          => w \in segs'[Active].waiters]_vars

(* A wakeup is never spurious: when a waiting reader's channel is closed *)
(* (at once by WaitForData or WaitForLEO, or later by notifyWaiters) it    *)
(* has something to do: bytes past the position it waits at, a sealed or  *)
(* full segment (the log rolls on), or, for NotifyLEO, a log end other    *)
(* than the leo it passed.  A spurious wakeup makes ReadMessage and       *)
(* NotifyLEO callers spin.                                                 *)
ChannelClosed(w) ==
    readers[w].pc = "waiting" /\ w \notin segs[readers[w].seg].waiters

Progressed(r) ==
    LET s == segs[r.seg] IN
    \/ s.sealed \/ s.position >= MaxBytes
    \/ r.mode = "data" /\ s.position > r.pos
    \/ r.mode = "leo" /\ LEO - 1 # r.leo

WakeMeansProgress ==
    [][\A w \in Waiters :
          ~ChannelClosed(w) /\ ChannelClosed(w)' => Progressed(readers[w])']_vars

(* The log implements AbstractLog: its end offset moves only by appends  *)
(* of at most a batch and by truncation to a lower offset, and a read    *)
(* that returns data (ReadAt on a segment not closed) is always of an     *)
(* offset below the log end at that moment, whatever Truncate replaced or *)
(* deleted under the reader, and whichever step of Replace failed.       *)
(* Waiting readers are idle to the abstraction and a re-resolve after     *)
(* ErrSegmentReplaced is a stutter.                                       *)
AbstractReader(r) ==
    IF r.pc = "holding" THEN [pc |-> "holding", off |-> r.off, got |-> "none"]
    ELSE [pc |-> "idle", off |-> 0, got |-> r.got]

Abs == INSTANCE AbstractLog WITH leo <- LEO,
                                 rd <- [w \in Waiters |-> AbstractReader(readers[w])]

ImplementsAbstractLog == Abs!Spec

====
