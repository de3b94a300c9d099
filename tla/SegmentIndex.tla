---------------------------- MODULE SegmentIndex ----------------------------
(***************************************************************************)
(* The index lookups of src/server/commitlog/segment.go: findEntry (the   *)
(* first entry whose offset is at least a target) and                      *)
(* findEntryByTimestamp (the first entry whose timestamp is at least a    *)
(* target), both a sort.Search over the n = Position/entryWidth entries   *)
(* of the segment's index.  The search loop is modelled step by step and  *)
(* its answer compared with a linear scan of the same index.             *)
(*                                                                         *)
(* Offsets in an index are dense from the segment's base (taken as 0).    *)
(* Timestamps are whatever the message carried: stamped by the log's      *)
(* clock when the producer gave none, else the producer's or leader's.   *)
(***************************************************************************)
EXTENDS Integers, Sequences, FiniteSetsExt

CONSTANTS
    MaxEntries,     \* most entries in an index
    Timestamps,     \* the message timestamps that occur
    ClockStamped    \* TRUE: every timestamp came from the log's clock

ASSUME MaxEntries \in Nat /\ Timestamps \subseteq Nat \ {0} /\ ClockStamped \in BOOLEAN

(* The indexes a segment can hold: entry k has offset k - 1; timestamps   *)
(* are non-decreasing in file order when the clock stamped them.          *)
Indexes ==
    UNION {{idx \in [1..n -> [offset: {0}, timestamp: Timestamps]] :
               ClockStamped => \A k \in 1..(n - 1) :
                                  idx[k].timestamp <= idx[k + 1].timestamp}
           : n \in 0..MaxEntries}
IndexOf(idx) == [k \in DOMAIN idx |-> [idx[k] EXCEPT !.offset = k - 1]]

Targets == [offset: 0..MaxEntries, timestamp: 0..(Max(Timestamps) + 1)]

VARIABLES
    index,    \* the index entries, in file order
    by,       \* "offset" (findEntry) or "timestamp" (findEntryByTimestamp)
    target,   \* the offset or timestamp looked for
    lo, hi,   \* sort.Search's i and j
    pc        \* "search", then "found" or "notFound" (ErrEntryNotFound)

vars == <<index, by, target, lo, hi, pc>>

TypeOK ==
    /\ index \in Seq([offset: Nat, timestamp: Timestamps])
    /\ by \in {"offset", "timestamp"}
    /\ lo \in 0..Len(index) /\ hi \in 0..Len(index)
    /\ pc \in {"search", "found", "notFound"}

(* n: the number of entries, the index's write position over the entry  *)
(* width.                                                                  *)
(* Variant: the count includes the slot past the last entry.            *)
EntryCountPastEnd == Len(index) + 1
EntryCount == Len(index)

Init ==
    /\ \E idx \in Indexes : index = IndexOf(idx)
    /\ by \in {"offset", "timestamp"}
    /\ \E t \in Targets : target = t[by]
    /\ lo = 0
    /\ hi = EntryCount
    /\ pc = "search"

(* The predicates the two lookups hand to sort.Search: read entry h and   *)
(* compare its offset, or its timestamp, with the target.                 *)
(* Variant: findEntry's comparison made strict.                          *)
FindEntryPredStrict(h) == index[h + 1].offset > target
FindEntryPred(h) == index[h + 1].offset >= target
FindEntryByTimestampPred(h) == index[h + 1].timestamp >= target

Pred(h) == IF by = "offset" THEN FindEntryPred(h) ELSE FindEntryByTimestampPred(h)

(* One round of sort.Search: h = (i + j) / 2; i = h + 1 if the predicate  *)
(* is false at h, else j = h.                                              *)
SearchStep ==
    LET h == (lo + hi) \div 2 IN
    /\ pc = "search"
    /\ lo < hi
    /\ IF Pred(h) THEN /\ hi' = h /\ UNCHANGED lo
                  ELSE /\ lo' = h + 1 /\ UNCHANGED hi
    /\ UNCHANGED <<index, by, target, pc>>

(* The loop ends: idx == n is ErrEntryNotFound, else entry idx is read    *)
(* and returned.                                                           *)
Found ==
    /\ pc = "search"
    /\ lo >= hi
    /\ pc' = IF lo = EntryCount THEN "notFound" ELSE "found"
    /\ UNCHANGED <<index, by, target, lo, hi>>

Next == SearchStep \/ Found

Spec == Init /\ [][Next]_vars

-----------------------------------------------------------------------------
(* The reference: a linear scan for the first entry (0-based) whose key   *)
(* is at least the target, Len(index) when there is none.                 *)
Key(k) == IF by = "offset" THEN index[k + 1].offset ELSE index[k + 1].timestamp
FirstAtLeast ==
    LET hits == {k \in 0..(Len(index) - 1) : Key(k) >= target}
    IN IF hits = {} THEN Len(index) ELSE Min(hits)

(* The lookup returns the first entry whose offset (findEntry) or         *)
(* timestamp (findEntryByTimestamp) is at least the target, and           *)
(* ErrEntryNotFound exactly when no entry is (spec 8.8 for timestamps).   *)
FindsFirstAtLeast ==
    pc # "search" =>
        /\ lo = FirstAtLeast
        /\ (pc = "notFound") <=> (FirstAtLeast = Len(index))

====
