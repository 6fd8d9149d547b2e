--------------------------- MODULE SCD2Timeline ---------------------------
(***************************************************************************)
(* What the history service promises (smarthr360_integration/history,      *)
(* README "SCD2 history"): each owner has a timeline, a sequence of        *)
(* snapshots with the time from which each was valid.  A record either     *)
(* repeats the last snapshot, and changes nothing, or appends a version;   *)
(* nothing that was recorded ever changes or goes away.                    *)
(***************************************************************************)
EXTENDS Integers, Sequences

CONSTANTS
    Owners,     \* who has a timeline
    Snapshots,  \* what is recorded of them
    Times       \* times, numbers

VARIABLE timeline

Version == [snapshot : Snapshots, from : Times]

Init == timeline = [o \in Owners |-> <<>>]

\* A snapshot of the owner, taken at the given time: a version unless it repeats the
\* last one.  Versions are in the order of their times.
Record(o, s, at) ==
    LET last == timeline[o][Len(timeline[o])] IN
    /\ timeline[o] # <<>> => s # last.snapshot /\ last.from <= at
    /\ timeline' = [timeline EXCEPT ![o] = Append(@, [snapshot |-> s, from |-> at])]

Next == \E o \in Owners, s \in Snapshots, at \in Times : Record(o, s, at)

Spec == Init /\ [][Next]_timeline
=============================================================================
