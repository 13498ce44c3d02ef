------------------------------ MODULE LogScan ------------------------------
(***************************************************************************)
(* What a replay promises about the logs it reads: within each partition   *)
(* it hands records over in offset order, none twice, passes over none     *)
(* that could still be read, and is complete only once it has met the end  *)
(* of every partition it was to read.                                      *)
(***************************************************************************)
EXTENDS Naturals

CONSTANTS
    Partitions,
    Unreadable   \* offsets whose record the broker cannot read

VARIABLES
    oldest, next,  \* partition -> the bounds of its log; next is not yet written
    scope,         \* the partitions to read
    state,         \* "idle", "scanning", "complete" or "stopped"
    pos,           \* partition -> the offset to be read next
    handed,        \* partition -> the offsets handed over
    sealed         \* the partitions whose end was met

logs == <<oldest, next>>
vars == <<logs, scope, state, pos, handed, sealed>>

\* A read of a log starts where it is told to, a replay before it knows where.
Init ==
    /\ oldest \in [Partitions -> Nat] /\ next \in [Partitions -> Nat]
    /\ scope \subseteq Partitions
    /\ state \in {"idle", "scanning"}
    /\ pos \in [Partitions -> Nat]
    /\ handed = [p \in Partitions |-> {}]
    /\ sealed = {}

\* A replay starts at or before the oldest record of every partition.
Begin ==
    /\ state = "idle" /\ state' = "scanning"
    /\ pos' \in [Partitions -> Nat]
    /\ \A p \in scope : pos'[p] <= oldest[p]
    /\ UNCHANGED <<logs, scope, handed, sealed>>

Advance(p) ==
    /\ state = "scanning" /\ p \in scope \ sealed
    /\ pos[p] < next[p]
    /\ pos' = [pos EXCEPT ![p] = @ + 1]
    /\ UNCHANGED <<logs, scope, state, sealed>>

Hand(p) ==
    /\ pos[p] >= oldest[p]
    /\ handed' = [handed EXCEPT ![p] = @ \cup {pos[p]}]
    /\ Advance(p)

\* Only what aged out or cannot be read is passed over.
Skip(p) ==
    /\ pos[p] < oldest[p] \/ pos[p] \in Unreadable
    /\ Advance(p)
    /\ UNCHANGED handed

Seal(p) ==
    /\ state = "scanning" /\ p \in scope \ sealed
    /\ pos[p] >= next[p]
    /\ sealed' = sealed \cup {p}
    /\ state' = IF sealed' = scope THEN "complete" ELSE "scanning"
    /\ UNCHANGED <<logs, scope, pos, handed>>

Stop ==
    /\ state \in {"idle", "scanning"} /\ state' = "stopped"
    /\ UNCHANGED <<logs, scope, pos, handed, sealed>>

\* The logs grow and age out by themselves.
LogsMove ==
    /\ oldest' \in [Partitions -> Nat] /\ next' \in [Partitions -> Nat]
    /\ \A p \in Partitions : oldest[p] <= oldest'[p] /\ next[p] <= next'[p]
    /\ UNCHANGED <<scope, state, pos, handed, sealed>>

Next ==
    \/ Begin \/ Stop \/ LogsMove
    \/ \E p \in Partitions : Hand(p) \/ Skip(p) \/ Seal(p)

Spec == Init /\ [][Next]_vars

=============================================================================
