---------------------------- MODULE SegmentFiles ----------------------------
(***************************************************************************)
(* The files of the segments of one partition directory, as the methods   *)
(* of src/server/commitlog/segment.go create, rename and remove them:     *)
(* newSegment (and Truncated/Cleaned, which call it with a suffix),       *)
(* close, Replace's close-rename-reopen ceremony, and Delete.  Any step   *)
(* of Replace and Delete that does I/O may fail, and the process may      *)
(* crash between any two steps; on a restart the log reopens the segment  *)
(* of every base offset whose unsuffixed .log file is there.              *)
(*                                                                         *)
(* A file is an inode: `dir` maps every name to the inode it names, a     *)
(* segment holds its open log and index inodes, and a rename moves a name *)
(* without touching an open handle (POSIX).  logPath/indexPath format the *)
(* base offset with %020d, which is injective, so a name is the triple    *)
(* <<base, kind, suffix>>.  Data is not modelled: an inode stands for the *)
(* bytes the segment that created it wrote.                                *)
(*                                                                         *)
(* The log around the segments (commitlog.go, not in this repository)     *)
(* keeps `listed`, the segment it serves for each base; it rolls new      *)
(* segments, builds siblings and calls Replace and Delete under its       *)
(* mutex, so these calls do not interleave with one another.              *)
(***************************************************************************)
EXTENDS Integers, FiniteSets, TLC

CONSTANTS
    Bases,       \* base offsets segments may have; the least is never deleted
    MaxSegs,     \* most segment objects created in a behaviour
    MaxFaults    \* most failed I/O steps plus crashes in a behaviour

ASSUME Bases \subseteq Nat /\ Bases # {} /\ MaxSegs \in Nat /\ MaxFaults \in Nat

Suffixes == {"", ".truncated", ".cleaned"}
Names == Bases \X {".log", ".index"} \X Suffixes
NoFile == 0
NoSeg == 0
FirstBase == CHOOSE b \in Bases : \A c \in Bases : b <= c

VARIABLES
    dir,       \* name -> inode, NoFile when there is no such file
    nextIno,   \* the next unused inode number
    creator,   \* inode -> the segment whose newSegment/reopen created it
    segs,      \* segment object -> its fields
    nextSeg,   \* the next unused segment object
    listed,    \* base -> the segment the log serves for it, or NoSeg
    up,        \* the process is running
    faults     \* failed I/O steps and crashes so far

vars == <<dir, nextIno, creator, segs, nextSeg, listed, up, faults>>

(* logPath and indexPath: fileFormat over the base offset and the         *)
(* extension with the segment's suffix.                                   *)
LogPath(s) == <<s.base, ".log", s.suffix>>
IndexPath(s) == <<s.base, ".index", s.suffix>>
Unsuffixed(b, kind) == <<b, kind, "">>

Exists(d, name) == d[name] # NoFile

SegRec == [base: Bases, suffix: Suffixes, log: Nat, index: Nat,
           logName: Names, indexName: Names, closed: BOOLEAN, replaced: BOOLEAN]

(* Inode numbers stay bounded because objects are: each segment creates  *)
(* at most two files.                                                     *)
TypeOK ==
    /\ dir \in [Names -> 0..(nextIno - 1)]
    /\ creator \in [1..(nextIno - 1) -> 1..(nextSeg - 1)]
    /\ segs \in [1..(nextSeg - 1) -> SegRec]
    /\ \A s \in DOMAIN segs :
          ~segs[s].closed => segs[s].log # NoFile /\ segs[s].index # NoFile
    /\ listed \in [Bases -> {NoSeg} \cup DOMAIN segs]
    /\ up \in BOOLEAN
    /\ faults \in 0..MaxFaults

Init ==
    /\ dir = [n \in Names |-> IF n = Unsuffixed(FirstBase, ".log") THEN 1
                              ELSE IF n = Unsuffixed(FirstBase, ".index") THEN 2
                              ELSE NoFile]
    /\ nextIno = 3
    /\ creator = (1 :> 1) @@ (2 :> 1)
    /\ segs = (1 :> [base |-> FirstBase, suffix |-> "", log |-> 1, index |-> 2,
                     logName |-> Unsuffixed(FirstBase, ".log"),
                     indexName |-> Unsuffixed(FirstBase, ".index"),
                     closed |-> FALSE, replaced |-> FALSE])
    /\ nextSeg = 2
    /\ listed = [b \in Bases |-> IF b = FirstBase THEN 1 ELSE NoSeg]
    /\ up = TRUE
    /\ faults = 0

-----------------------------------------------------------------------------
(* File system calls.                                                      *)

(* Variant: open without O_CREATE, so a missing file is not created.     *)
OpenNoCreate(d, name, ino) == d

(* os.OpenFile(name, O_RDWR|O_CREATE|O_APPEND) (and newIndex): a missing  *)
(* file is created as inode ino; the handle is then d'[name].              *)
OpenOrCreate(d, name, ino) ==
    IF Exists(d, name) THEN d ELSE [d EXCEPT ![name] = ino]

(* The inodes numbered from ino that opening `name` in d consumed.        *)
Created(d, name, ino) == IF Exists(d, name) THEN ino ELSE ino + 1

(* os.Rename(from, to): `to` names from's inode, replacing what it named. *)
Rename(d, from, to) == [d EXCEPT ![to] = d[from], ![from] = NoFile]

(* os.Remove(name), guarded by exists(name) as Delete does.               *)
Remove(d, name) == [d EXCEPT ![name] = NoFile]

(* The creator map after inodes ino0..ino1-1 were created by segment id.  *)
CreatedBy(ino0, ino1, id) ==
    [i \in 1..(ino1 - 1) |-> IF i < ino0 THEN creator[i] ELSE id]

-----------------------------------------------------------------------------
(* segment.go                                                              *)

(* close: idempotent; closes the log and index files.                      *)
CloseSeg(s) == [s EXCEPT !.closed = TRUE]

(* newSegment(path, b, maxBytes, isNew, suffix) after its isNew check:    *)
(* open (creating) the .log, then setupIndex opens (creating) the index.  *)
(* The new object is `nextSeg`; `list` says whether the log serves it.    *)
NewSegment(b, suffix, list) ==
    LET ln == <<b, ".log", suffix>>
        xn == <<b, ".index", suffix>>
        d1 == OpenOrCreate(dir, ln, nextIno)
        i1 == Created(dir, ln, nextIno)
        d2 == OpenOrCreate(d1, xn, i1)
        i2 == Created(d1, xn, i1)
    IN /\ nextSeg < MaxSegs
       /\ dir' = d2
       /\ nextIno' = i2
       /\ creator' = CreatedBy(nextIno, i2, nextSeg)
       /\ segs' = segs @@ (nextSeg :> [base |-> b, suffix |-> suffix,
                             log |-> d2[ln], index |-> d2[xn],
                             logName |-> ln, indexName |-> xn,
                             closed |-> FALSE, replaced |-> FALSE])
       /\ nextSeg' = nextSeg + 1
       /\ listed' = IF list THEN [listed EXCEPT ![b] = nextSeg] ELSE listed

(* The suffix Replace gives the sibling before reopening it.              *)
(* Variant: the suffix is kept.                                           *)
ReopenSuffixKept(s) == s.suffix
ReopenSuffix(s) == ""

(* Replace(old) called on the sibling `new`, with both locks held, after  *)
(* its first k steps (k = 6: it returned nil): 1 old.close(), 2 s.close(), *)
(* 3 rename s's .log over old's, 4 rename s's index over old's and clear  *)
(* s.suffix, 5 reopen s's log by path and mark s open and old replaced,   *)
(* 6 setupIndex reopens s's index by path.  A Replace that stopped after  *)
(* k < 6 steps returned the error of step k + 1; when setupIndex fails    *)
(* old is already marked replaced and s keeps its previous index handle. *)
ReplaceSteps(new, old, k) ==
    LET s1 == IF k >= 1 THEN [segs EXCEPT ![old] = CloseSeg(@)] ELSE segs
        s2 == IF k >= 2 THEN [s1 EXCEPT ![new] = CloseSeg(@)] ELSE s1
        d3 == IF k >= 3 THEN Rename(dir, LogPath(segs[new]), LogPath(segs[old]))
              ELSE dir
        d4 == IF k >= 4 THEN Rename(d3, IndexPath(segs[new]), IndexPath(segs[old]))
              ELSE d3
        s4 == IF k >= 4 THEN [s2 EXCEPT ![new].suffix = ReopenSuffix(segs[new])]
              ELSE s2
        re == s4[new]
        d5 == OpenOrCreate(d4, LogPath(re), nextIno)
        i5 == Created(d4, LogPath(re), nextIno)
        d6 == OpenOrCreate(d5, IndexPath(re), i5)
        i6 == Created(d5, IndexPath(re), i5)
        reopened == [re EXCEPT !.log = d5[LogPath(re)], !.logName = LogPath(re),
                               !.closed = FALSE]
        ino == IF k = 5 THEN i5 ELSE i6
    IN IF k < 5
       THEN /\ dir' = d4
            /\ segs' = s4
            /\ UNCHANGED <<nextIno, creator>>
       ELSE /\ dir' = IF k = 5 THEN d5 ELSE d6
            /\ nextIno' = ino
            /\ creator' = CreatedBy(nextIno, ino, new)
            /\ segs' = [s4 EXCEPT
                          ![new] = IF k = 5 THEN reopened
                                   ELSE [reopened EXCEPT !.index = d6[IndexPath(re)],
                                                         !.indexName = IndexPath(re)],
                          ![old].replaced = TRUE]

(* Delete after its first k steps (k = 3: it returned nil): 1 Close,      *)
(* 2 remove the file named by log.Name() if it exists, 3 the same for the *)
(* index.  The names are those the files were opened under.              *)
DeleteSteps(s, k) ==
    LET d2 == IF k >= 2 THEN Remove(dir, segs[s].logName) ELSE dir
        d3 == IF k >= 3 THEN Remove(d2, segs[s].indexName) ELSE d2
    IN /\ dir' = d3
       /\ segs' = IF k >= 1 THEN [segs EXCEPT ![s] = CloseSeg(@)] ELSE segs

-----------------------------------------------------------------------------
(* The log's calls (commitlog.go, spec 4.3) and the process's life.       *)

(* The log rolls a new segment at base b, past every listed one:          *)
(* newSegment(path, b, maxBytes, true, "").  When b's .log already exists *)
(* it returns ErrSegmentExists and nothing changes, so only the case     *)
(* where it does not is a step.                                           *)
Roll(b) ==
    /\ up
    /\ listed[b] = NoSeg
    /\ \A c \in Bases : listed[c] # NoSeg => c < b
    /\ ~Exists(dir, Unsuffixed(b, ".log"))
    /\ NewSegment(b, "", TRUE)
    /\ UNCHANGED <<up, faults>>

(* Truncate or Clean builds the sibling of the segment listed at b:       *)
(* Truncated() or Cleaned(), newSegment with isNew false.                 *)
Sibling(b, suffix) ==
    /\ up
    /\ listed[b] # NoSeg
    /\ NewSegment(b, suffix, FALSE)
    /\ UNCHANGED <<up, faults>>

(* The log calls sibling.Replace(old) on the segment it lists at the      *)
(* sibling's base, and serves the sibling once Replace returns nil.      *)
(* Closing an already closed segment cannot fail.                        *)
ReplaceSegment(new, old) ==
    LET b == segs[old].base IN
    /\ up
    /\ segs[new].suffix # "" /\ ~segs[new].closed
    /\ listed[b] = old /\ segs[new].base = b
    /\ \E k \in 0..6 :
          /\ k < 6 => faults < MaxFaults
          /\ k = 0 => ~segs[old].closed
          /\ ReplaceSteps(new, old, k)
          /\ faults' = IF k < 6 THEN faults + 1 ELSE faults
          /\ listed' = IF k = 6 THEN [listed EXCEPT ![b] = new] ELSE listed
    /\ UNCHANGED <<nextSeg, up>>

(* Truncate deletes a later segment, or retention an old one: the log     *)
(* drops it from its list and calls Delete.  The first segment is kept.  *)
DeleteSegment(b) ==
    LET s == listed[b] IN
    /\ up
    /\ b # FirstBase /\ s # NoSeg
    /\ \E k \in 0..3 :
          /\ k < 3 => faults < MaxFaults
          /\ k = 0 => ~segs[s].closed
          /\ DeleteSteps(s, k)
          /\ faults' = IF k < 3 THEN faults + 1 ELSE faults
    /\ listed' = [listed EXCEPT ![b] = NoSeg]
    /\ UNCHANGED <<nextIno, creator, nextSeg, up>>

(* The process crashes: every open file is closed and memory is lost.     *)
Crash ==
    /\ up /\ faults < MaxFaults
    /\ up' = FALSE
    /\ segs' = [s \in DOMAIN segs |-> CloseSeg(segs[s])]
    /\ listed' = [b \in Bases |-> NoSeg]
    /\ faults' = faults + 1
    /\ UNCHANGED <<dir, nextIno, creator, nextSeg>>

(* On start the log opens the segment of every base whose unsuffixed     *)
(* .log file exists, newSegment(path, b, maxBytes, false, ""), one at a  *)
(* time, and is up when all are open.                                    *)
Reopen(b) ==
    /\ ~up
    /\ listed[b] = NoSeg
    /\ Exists(dir, Unsuffixed(b, ".log"))
    /\ NewSegment(b, "", TRUE)
    /\ UNCHANGED <<up, faults>>

Started ==
    /\ ~up
    /\ \A b \in Bases : Exists(dir, Unsuffixed(b, ".log")) => listed[b] # NoSeg
    /\ up' = TRUE
    /\ UNCHANGED <<dir, nextIno, creator, segs, nextSeg, listed, faults>>

Next ==
    \/ \E b \in Bases : Roll(b) \/ DeleteSegment(b) \/ Reopen(b)
    \/ \E b \in Bases, x \in Suffixes \ {""} : Sibling(b, x)
    \/ \E n, o \in DOMAIN segs : ReplaceSegment(n, o)
    \/ Crash
    \/ Started

Spec == Init /\ [][Next]_vars

-----------------------------------------------------------------------------
(* Properties *)

(* Every segment the running log serves reads the very files a restart   *)
(* would load for its base, the unsuffixed .log and .index: after Replace *)
(* the sibling reopened itself under the old names (clearing its suffix  *)
(* first), and no other step moves a name a served segment uses.  If it *)
(* failed, a restart would silently bring back different data than the   *)
(* log served before the crash.                                           *)
ServesWhatRestartLoads ==
    up => \A b \in Bases :
             LET s == listed[b] IN
             s # NoSeg /\ ~segs[s].closed =>
                 /\ segs[s].log = dir[Unsuffixed(b, ".log")]
                 /\ segs[s].index = dir[Unsuffixed(b, ".index")]

(* Replace is the "atomic rename ceremony" of spec 4.2: whichever of its *)
(* steps fails, the running log still serves an open segment for every   *)
(* base it lists, and on disk the .log and .index of every base belong    *)
(* together (were created by one segment), so a restart loads a          *)
(* consistent segment.                                                    *)
ReplaceAllOrNothing ==
    /\ up => \A b \in Bases : listed[b] # NoSeg => ~segs[listed[b]].closed
    /\ \A b \in Bases :
          Exists(dir, Unsuffixed(b, ".log")) =>
              /\ Exists(dir, Unsuffixed(b, ".index"))
              /\ creator[dir[Unsuffixed(b, ".log")]]
                     = creator[dir[Unsuffixed(b, ".index")]]

====
