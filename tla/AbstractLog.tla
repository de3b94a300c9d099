---------------------------- MODULE AbstractLog ----------------------------
(***************************************************************************)
(* What the commit log promises its writer and its readers, without       *)
(* segments: the log is the dense offsets 0..leo-1 (spec section 3); an   *)
(* append adds at most a batch of offsets, a Truncate cuts the log back   *)
(* to a lower end; a reader resolves an offset of the log and its read    *)
(* either returns data, which it can only do for an offset the log holds *)
(* at that moment, or ends (the segment was closed under it).             *)
(***************************************************************************)
EXTENDS Integers

CONSTANTS Waiters, MaxOffset, MaxBatch

VARIABLES
    leo,   \* the log end offset
    rd     \* reader -> [pc: "idle" or "holding", off, got: last read's result]

vars == <<leo, rd>>

Idle == [pc |-> "idle", off |-> 0, got |-> "none"]

Init ==
    /\ leo = 0
    /\ rd = [w \in Waiters |-> Idle]

Append ==
    /\ leo' \in (leo + 1)..(leo + MaxBatch)
    /\ leo' <= MaxOffset
    /\ UNCHANGED rd

Truncate ==
    /\ leo' \in 0..(leo - 1)
    /\ UNCHANGED rd

(* A reader starts something new: it forgets its last read's result.     *)
Begin(w) ==
    /\ rd[w].pc = "idle"
    /\ rd' = [rd EXCEPT ![w] = Idle]
    /\ UNCHANGED leo

Resolve(w) ==
    /\ rd[w].pc = "idle"
    /\ \E o \in 0..(leo - 1) :
          rd' = [rd EXCEPT ![w] = [Idle EXCEPT !.pc = "holding", !.off = o]]
    /\ UNCHANGED leo

ReadData(w) ==
    /\ rd[w].pc = "holding"
    /\ rd[w].off < leo
    /\ rd' = [rd EXCEPT ![w] = [Idle EXCEPT !.got = "data"]]
    /\ UNCHANGED leo

ReadEnd(w) ==
    /\ rd[w].pc = "holding"
    /\ rd' = [rd EXCEPT ![w] = [Idle EXCEPT !.got = "end"]]
    /\ UNCHANGED leo

Next ==
    \/ Append \/ Truncate
    \/ \E w \in Waiters : Begin(w) \/ Resolve(w) \/ ReadData(w) \/ ReadEnd(w)

Spec == Init /\ [][Next]_vars
====
