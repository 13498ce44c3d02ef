------------------------------ MODULE IdClock -------------------------------
(***************************************************************************)
(* Message ids (envelope.go: idClock, nextTick, newID).                    *)
(*                                                                         *)
(* Goroutines make ids concurrently; nextTick runs under one mutex, which  *)
(* it keeps while it sleeps.  External: the wall clock, which may stand    *)
(* still, jump ahead or go backwards.  The random tail of an id is left    *)
(* out: ids are compared by timestamp and sequence, which come first.      *)
(***************************************************************************)
EXTENDS Integers

CONSTANTS
    Threads,  \* goroutines that make ids
    Times,    \* what the wall clock may read, in milliseconds
    MaxSeq,   \* 0xfff: the last sequence number of a millisecond
    Width,    \* 2^48: an id keeps the timestamp modulo Width
    NoOne     \* the mutex is free

\* The clock is after 1970, and its reading fits in 48 bits.
ASSUME IdClockAssumption ==
    /\ Width \in Nat \ {0}
    /\ Times \subseteq 1..(Width - 1)
    /\ MaxSeq \in Nat
    /\ NoOne \notin Threads

VARIABLES
    now,     \* the wall clock
    milli,   \* idClock.milli
    seq,     \* idClock.seq
    holder,  \* who holds idClock.Mutex
    pc,      \* thread -> idle, or waiting for the mutex, or inside nextTick
    id,      \* thread -> the last id it made
    floor    \* ghost, thread -> the last id made by anyone when its call began

vars == <<now, milli, seq, holder, pc, id, floor>>

\* The part of an id that orders it, and the order of the encoded ids.
Id(m, s) == [stamp |-> m % Width, seq |-> s]
Ids == [stamp : 0..(Width - 1), seq : 0..MaxSeq]
Before(a, b) == a.stamp < b.stamp \/ (a.stamp = b.stamp /\ a.seq < b.seq)

Init ==
    /\ now \in Times
    /\ milli = 0 /\ seq = 0
    /\ holder = NoOne
    /\ pc = [t \in Threads |-> "idle"]
    /\ id = [t \in Threads |-> Id(0, 0)]
    /\ floor = [t \in Threads |-> Id(0, 0)]

\* newID is called.
Call(t) ==
    /\ pc[t] = "idle"
    /\ pc' = [pc EXCEPT ![t] = "lock"]
    /\ floor' = [floor EXCEPT ![t] = Id(milli, seq)]
    /\ UNCHANGED <<now, milli, seq, holder, id>>

Lock(t) ==
    /\ pc[t] = "lock" /\ holder = NoOne
    /\ holder' = t
    /\ pc' = [pc EXCEPT ![t] = "loop"]
    /\ UNCHANGED <<now, milli, seq, id, floor>>

\* nextTick returns (m, s): idClock holds it, and newID lays it out.
Issue(t, m, s) ==
    /\ milli' = m /\ seq' = s
    /\ id' = [id EXCEPT ![t] = Id(m, s)]
    /\ holder' = NoOne
    /\ pc' = [pc EXCEPT ![t] = "idle"]
    /\ UNCHANGED <<now, floor>>

\* A millisecond not seen before.
NewMilli(t) == pc[t] = "loop" /\ now > milli /\ Issue(t, now, 0)

\* Mutant: the clock's reading is used even when it went backwards.
SameMilliBackwards(t) == pc[t] = "loop" /\ now <= milli /\ seq < MaxSeq /\ Issue(t, now, seq + 1)

\* Mutant: one sequence number too many.
SameMilliOverflow(t) == pc[t] = "loop" /\ now <= milli /\ seq <= MaxSeq /\ Issue(t, milli, seq + 1)

\* The same millisecond, or a clock that went backwards: the last millisecond
\* seen, while it has sequence numbers left.
SameMilli(t) == pc[t] = "loop" /\ now <= milli /\ seq < MaxSeq /\ Issue(t, milli, seq + 1)

\* Out of sequence numbers: sleep, with the mutex held, and look again.
Exhausted(t) == pc[t] = "loop" /\ now <= milli /\ seq = MaxSeq /\ UNCHANGED vars

\* The wall clock moves (external).
Clock(n) == now' = n /\ UNCHANGED <<milli, seq, holder, pc, id, floor>>

Next ==
    \/ \E t \in Threads : Call(t) \/ Lock(t) \/ NewMilli(t) \/ SameMilli(t) \/ Exhausted(t)
    \/ \E n \in Times : Clock(n)

Spec == Init /\ [][Next]_vars

-----------------------------------------------------------------------------
\* Properties

TypeOK ==
    /\ now \in Times
    /\ milli \in Times \cup {0} /\ seq \in 0..MaxSeq
    /\ holder \in Threads \cup {NoOne}
    /\ pc \in [Threads -> {"idle", "lock", "loop"}]
    /\ id \in [Threads -> Ids] /\ floor \in [Threads -> Ids]

\* Ids sort by creation order: an id is later than every id made before its
\* call began, whichever goroutine made it and whatever the clock did (newID).
SortedByCreation ==
    [][\A t \in Threads :
          pc[t] = "loop" /\ pc'[t] = "idle" => Before(floor[t], id'[t])]_vars

\* No two goroutines hold the same id, once each has made one.
IdsDistinct ==
    \A t, u \in Threads : t # u /\ id[t] = id[u] => id[t] = Id(0, 0)

=============================================================================
