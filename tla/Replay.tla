------------------------------- MODULE Replay -------------------------------
(***************************************************************************)
(* Reading logs back (consume.go: ReadAt, ReadFrom, readFrom, Replay and   *)
(* patience), against partitions that grow, age out, and lose their owner. *)
(*                                                                         *)
(* Replay describes the topic until every partition can be read, then runs *)
(* readFrom for one partition after another, waiting out failures under a  *)
(* patience of its own for each; ReadFrom is one readFrom without any.     *)
(*                                                                         *)
(* External: the broker, the handler, the end of the context, and time,    *)
(* which passes in ticks during calls and waits.  A delay is at least one  *)
(* tick, the floor patience.wait puts under it.                            *)
(***************************************************************************)
EXTENDS Integers

CONSTANTS
    P,           \* len(info.PartitionStats), info.Partitions
    Unreadable,  \* offsets whose record the broker cannot read
    Patience,    \* config.replayPatience
    MaxNext,     \* bound: no log grows past this offset
    MaxDelay,    \* bound: the longest delay, a Retry-After included
    MaxCall      \* bound: the longest a call takes, its retries included

ASSUME ReplayAssumption ==
    /\ P \in Nat \ {0}
    /\ Unreadable \subseteq Nat
    /\ Patience \in Nat /\ MaxNext \in Nat /\ MaxDelay \in Nat /\ MaxCall \in Nat

Partitions == 1..P

VARIABLES
    oldest, next,  \* broker: partition -> bounds of its log, next not yet written
    owner,         \* broker: partition -> "unassigned", "up" or "down"
    ended,         \* ctx.Err() != nil
    patient,       \* Replay, as opposed to ReadFrom
    stats,         \* the broker sends partition stats
    pc,            \* where the call is
    part,          \* the partition being read
    offset,        \* partition -> offset in its readFrom
    failing,       \* patience.start is set
    elapsed,       \* time.Since(patience.start), once it is
    result,        \* what the call returned
    handed,        \* ghost, partition -> offsets handed to the handler
    existed,       \* ghost, partition -> next when the call began
    dark           \* ghost: time spent since the log was last heard of

broker == <<oldest, next, owner>>
given == <<ended, patient, stats, existed>>
clock == <<failing, elapsed, dark>>
vars == <<broker, given, pc, part, offset, clock, result, handed>>

PCs == {"describe", "describeWait", "head", "read", "readWait", "handle", "done"}

Init ==
    /\ oldest = [p \in Partitions |-> 0] /\ next \in [Partitions -> 0..MaxNext]
    /\ existed = next
    /\ ended = FALSE
    /\ stats \in BOOLEAN
    \* Only a topic just created has unassigned partitions, and a broker that
    \* sends no stats does not tell.
    /\ \/ /\ patient = TRUE /\ pc = "describe" /\ part = 1
          /\ offset = [p \in Partitions |-> 0]
          /\ owner \in [Partitions -> IF stats THEN {"up", "unassigned"} ELSE {"up"}]
       \/ /\ patient = FALSE /\ pc = "head" /\ part \in Partitions
          /\ \E o \in 0..MaxNext : offset = [p \in Partitions |-> o]
          /\ owner = [p \in Partitions |-> "up"]
    /\ failing = FALSE /\ elapsed = 0 /\ dark = 0
    /\ result = "none"
    /\ handed = [p \in Partitions |-> {}]

-----------------------------------------------------------------------------
\* The broker and the caller (external).

Append == \E p \in Partitions :
    /\ next[p] < MaxNext
    /\ next' = [next EXCEPT ![p] = @ + 1]
    /\ UNCHANGED <<oldest, owner, given, pc, part, offset, clock, result, handed>>

AgeOut == \E p \in Partitions :
    /\ oldest[p] < next[p]
    /\ oldest' = [oldest EXCEPT ![p] = @ + 1]
    /\ UNCHANGED <<next, owner, given, pc, part, offset, clock, result, handed>>

OwnerMoves == \E p \in Partitions :
    /\ owner' = [owner EXCEPT ![p] = IF @ = "up" THEN "down" ELSE "up"]
    /\ UNCHANGED <<oldest, next, given, pc, part, offset, clock, result, handed>>

Cancel ==
    /\ ~ended /\ ended' = TRUE
    /\ UNCHANGED <<broker, patient, stats, existed, pc, part, offset, clock, result, handed>>

\* What the owner answers about offset o.
gone(p, o)     == o < oldest[p] \/ (o < next[p] /\ o \in Unreadable)
readable(p, o) == oldest[p] <= o /\ o < next[p] /\ o \notin Unreadable

-----------------------------------------------------------------------------
\* patience

Return(r) ==
    /\ pc' = "done"
    /\ result' = r

\* reset, and a new patience.
freshPatience == failing' = FALSE /\ elapsed' = 0 /\ dark' = 0

\* Mutant: start is set at every failure, not at the first of a run.
sinceLast(t) == t

\* time.Since(p.start) after a failed call that took t; a first failure sets start.
since(t) == IF failing THEN elapsed + t ELSE 0

\* Mutant: no floor under the delay.
SleepsUnfloored(t, sleep) == \E d \in 0..MaxDelay :
    /\ patient /\ ~ended
    /\ since(t) + d <= Patience
    /\ failing' = TRUE
    /\ elapsed' = since(t) + d
    /\ dark' = dark + t + d
    /\ pc' = sleep
    /\ UNCHANGED result

\* wait, after a failed call that took t: sleep and then go back.
Sleeps(t, sleep) == \E d \in 1..MaxDelay :
    /\ patient /\ ~ended
    /\ since(t) + d <= Patience
    /\ failing' = TRUE
    /\ elapsed' = since(t) + d
    /\ dark' = dark + t + d
    /\ pc' = sleep
    /\ UNCHANGED result

\* giveUp: err itself, unless the context ended while waiting on it.
GivesUp(t, err) ==
    /\ Return(IF patient /\ ended THEN "ctx" ELSE err)
    /\ dark' = dark + t
    /\ UNCHANGED <<failing, elapsed>>

\* A call failed: waited out, too late to, not worth it, or no patience at all.
Failed(sleep) == \E t \in 0..MaxCall :
    \/ Sleeps(t, sleep)
    \/ /\ patient /\ ~ended => \E d \in 1..MaxDelay : since(t) + d > Patience
       /\ GivesUp(t, "failed")
    \/ GivesUp(t, "final")

\* wait returns: the timer fired, or the context ended first.
WaitOver(sleep, back) ==
    /\ pc = sleep
    /\ \/ pc' = back /\ UNCHANGED result
       \/ ended /\ Return("ctx")
    /\ UNCHANGED <<broker, given, part, offset, clock, handed>>

-----------------------------------------------------------------------------
\* Replay: describe, until every partition can be read.

\* Mutant: the placeholders of a partition that cannot be read are taken for it.
unavailableNever == FALSE

\* unavailablePartitions
unavailable == stats /\ \E p \in Partitions : owner[p] # "up"

Described ==
    /\ pc = "describe" /\ ~unavailable
    /\ offset' = [p \in Partitions |-> IF stats /\ owner[p] = "up" THEN oldest[p] ELSE 0]
    /\ pc' = "head"
    /\ freshPatience
    /\ UNCHANGED <<broker, given, part, result, handed>>

\* Topic failed, or a partition is unavailable (which is Retryable).
NotDescribed ==
    /\ pc = "describe"
    /\ Failed("describeWait")
    /\ UNCHANGED <<broker, given, part, offset, handed>>

-----------------------------------------------------------------------------
\* readFrom

\* The head of the loop.
Head ==
    /\ pc = "head"
    /\ IF ended THEN Return("ctx") ELSE pc' = "read" /\ UNCHANGED result
    /\ UNCHANGED <<broker, given, part, offset, clock, handed>>

\* ErrOffsetGone: passed over.
ReadGone ==
    /\ pc = "read" /\ owner[part] = "up" /\ gone(part, offset[part])
    /\ offset' = [offset EXCEPT ![part] = @ + 1]
    /\ pc' = "head"
    /\ freshPatience
    /\ UNCHANGED <<broker, given, part, result, handed>>

\* Mutant: a retried read starts over from the next offset.
ReadFailedSkipping ==
    /\ pc = "read"
    /\ Failed("readWait")
    /\ offset' = [offset EXCEPT ![part] = @ + 1]
    /\ UNCHANGED <<broker, given, part, handed>>

\* ReadAt failed: no answer, one that is an error, an owner that is down, a
\* context that ended.
ReadFailed ==
    /\ pc = "read"
    /\ Failed("readWait")
    /\ UNCHANGED <<broker, given, part, offset, handed>>

\* A record, which is handed over.
ReadRecord ==
    /\ pc = "read" /\ owner[part] = "up" /\ readable(part, offset[part])
    /\ handed' = [handed EXCEPT ![part] = @ \cup {offset[part]}]
    /\ pc' = "handle"
    /\ freshPatience
    /\ UNCHANGED <<broker, given, part, offset, result>>

\* Mutant: the partitions are counted from 0.
lastPast == P + 1

\* The partition a replay ends with.
last == P

\* The end of this log (204), which is also what a partition nobody owns yet
\* looks like.  The next partition has a patience of its own.
ReadEnd ==
    /\ pc = "read"
    /\ (owner[part] = "up" /\ offset[part] >= next[part]) \/ owner[part] = "unassigned"
    /\ \/ /\ patient /\ part < last
          /\ part' = part + 1 /\ pc' = "head"
          /\ UNCHANGED result
       \/ /\ patient => part = last
          /\ Return("nil")
          /\ UNCHANGED part
    /\ freshPatience
    /\ UNCHANGED <<broker, given, offset, handed>>

Handled ==
    /\ pc = "handle" /\ pc' = "head"
    /\ offset' = [offset EXCEPT ![part] = @ + 1]
    /\ UNCHANGED <<broker, given, part, clock, result, handed>>

\* A handler error stops the read.
HandlerFailed ==
    /\ pc = "handle"
    /\ Return("handler")
    /\ UNCHANGED <<broker, given, part, offset, clock, handed>>

-----------------------------------------------------------------------------

Step ==
    \/ Described \/ NotDescribed \/ WaitOver("describeWait", "describe")
    \/ Head \/ ReadGone \/ ReadFailed \/ ReadRecord \/ ReadEnd
    \/ WaitOver("readWait", "head") \/ Handled \/ HandlerFailed

Outside == pc # "done" /\ (Append \/ AgeOut \/ OwnerMoves \/ Cancel)

Returned == pc = "done" /\ UNCHANGED vars

Next == Step \/ Outside \/ Returned

Spec == Init /\ [][Next]_vars

\* Calls end, timers fire, and the handler returns.
FairSpec == Spec /\ WF_vars(Step)

-----------------------------------------------------------------------------
\* Properties

TypeOK ==
    /\ oldest \in [Partitions -> Nat] /\ next \in [Partitions -> Nat]
    /\ owner \in [Partitions -> {"unassigned", "up", "down"}]
    /\ ended \in BOOLEAN /\ patient \in BOOLEAN /\ stats \in BOOLEAN
    /\ pc \in PCs
    /\ part \in Partitions
    /\ offset \in [Partitions -> Nat]
    /\ failing \in BOOLEAN /\ elapsed \in Nat /\ dark \in Nat
    /\ result \in {"none", "nil", "ctx", "failed", "final", "handler"}
    /\ handed \in [Partitions -> SUBSET Nat]
    /\ existed \in [Partitions -> Nat]

\* A replay that returns nil has handed over every record that was there when
\* it was called, unless it is gone by now; that also of a partition which could
\* not be read at first (Replay's doc).
NilIsComplete ==
    patient /\ result = "nil" =>
        \A p \in Partitions : \A o \in 0..(existed[p] - 1) :
            o \in handed[p] \/ gone(p, o)

\* A replay stops within its patience of failures in a row, plus the two calls
\* patience does not count: the first that failed and the last (patience.wait;
\* README.md:282).
PatienceBounds == patient => dark <= Patience + 2 * MaxCall

\* What LogScan calls its state, read off a replay.
Scope == IF patient THEN Partitions ELSE {part}
State ==
    IF pc \in {"describe", "describeWait"} THEN "idle"
    ELSE IF pc # "done" THEN "scanning"
    ELSE IF result = "nil" THEN "complete" ELSE "stopped"
Pos == [p \in Partitions |->
    IF p = part /\ (pc = "handle" \/ result = "handler") THEN offset[p] + 1 ELSE offset[p]]
Sealed == {p \in Partitions : patient /\ p < part} \cup IF result = "nil" THEN {part} ELSE {}

Promise == INSTANCE LogScan WITH scope <- Scope, state <- State, pos <- Pos, sealed <- Sealed

\* Records come in offset order, none twice, and none that could be read is
\* passed over; nil means the end of every partition was met.
ScansAsPromised == Promise!Spec

\* A replay ends, although logs grow, age out and lose their owners under it,
\* once producers pause for long enough (here: at MaxNext).
ReplayEnds == <>(pc = "done")

=============================================================================
