--------------------------- MODULE IdClockProofs ----------------------------
(***************************************************************************)
(* Theorems about IdClock, for any number of goroutines, any behaviour of  *)
(* the clock and any number of sequence numbers.                           *)
(***************************************************************************)
EXTENDS IdClock, TLAPS

\* The id idClock stands at.
Current == Id(milli, seq)

AtMost(a, b) == Before(a, b) \/ a = b

\* No id handed out, or noted when a call began, is later than idClock.
Inv ==
    /\ TypeOK
    /\ \A t \in Threads : AtMost(id[t], Current) /\ AtMost(floor[t], Current)

\* A timestamp survives its encoding in 48 bits.
LEMMA Encoded ==
    ASSUME NEW m \in Times \cup {0}, NEW s \in 0..MaxSeq
    PROVE  /\ m \in Nat /\ m < Width
           /\ Id(m, s) = [stamp |-> m, seq |-> s]
           /\ Id(m, s) \in Ids
BY IdClockAssumption DEF Id, Ids

\* Before is a strict order on ids.
LEMMA Order ==
    ASSUME NEW a \in Ids, NEW b \in Ids, NEW c \in Ids
    PROVE  /\ ~Before(a, a)
           /\ AtMost(a, b) /\ Before(b, c) => Before(a, c)
BY IdClockAssumption DEF Ids, Before, AtMost

\* What issuing an id does, whichever case of nextTick issues it.
LEMMA Issued ==
    ASSUME Inv, NEW t \in Threads, NewMilli(t) \/ SameMilli(t)
    PROVE  /\ milli' \in Times \cup {0} /\ seq' \in 0..MaxSeq
           /\ Current' \in Ids /\ Before(Current, Current')
           /\ id' = [id EXCEPT ![t] = Current']
           /\ UNCHANGED <<now, floor>>
           /\ holder' = NoOne /\ pc' = [pc EXCEPT ![t] = "idle"]
<1> USE DEF Inv, TypeOK, Current
<1>1. CASE NewMilli(t)
    <2>1. now \in Times /\ now > milli /\ 0 \in 0..MaxSeq
        BY <1>1, IdClockAssumption DEF NewMilli
    <2>2. milli' = now /\ seq' = 0
        BY <1>1 DEF NewMilli, Issue
    <2>3. Before(Id(milli, seq), Id(now, 0)) /\ Id(now, 0) \in Ids
        BY <2>1, Encoded DEF Before
    <2> QED BY <1>1, <2>1, <2>2, <2>3 DEF NewMilli, Issue
<1>2. CASE SameMilli(t)
    <2>1. seq + 1 \in 0..MaxSeq
        BY <1>2, IdClockAssumption DEF SameMilli
    <2>2. milli' = milli /\ seq' = seq + 1
        BY <1>2 DEF SameMilli, Issue
    <2>3. Before(Id(milli, seq), Id(milli, seq + 1)) /\ Id(milli, seq + 1) \in Ids
        BY <2>1, Encoded, IdClockAssumption DEF Before
    <2> QED BY <1>2, <2>1, <2>2, <2>3 DEF SameMilli, Issue
<1> QED BY <1>1, <1>2

LEMMA InvInit == Init => Inv
<1> SUFFICES ASSUME Init PROVE Inv
    OBVIOUS
<1>1. Id(0, 0) \in Ids /\ 0 \in 0..MaxSeq
    BY Encoded, IdClockAssumption
<1> QED BY <1>1 DEF Init, Inv, TypeOK, Current, AtMost

LEMMA InvStep == Inv /\ [Next]_vars => Inv'
<1> SUFFICES ASSUME Inv, [Next]_vars PROVE Inv'
    OBVIOUS
<1> USE DEF Inv, TypeOK
<1>1. Current \in Ids
    BY Encoded DEF Current
<1>2. ASSUME NEW t \in Threads, Call(t) PROVE Inv'
    BY <1>1, <1>2 DEF Call, Current, AtMost
<1>3. ASSUME NEW t \in Threads, Lock(t) PROVE Inv'
    BY <1>3 DEF Lock, Current
<1>4. ASSUME NEW t \in Threads, NewMilli(t) \/ SameMilli(t) PROVE Inv'
    <2>1. \A u \in Threads : Before(id[u], Current') /\ Before(floor[u], Current')
        BY <1>1, <1>4, Issued, Order
    <2>2. \A u \in Threads : AtMost(id'[u], Current') /\ AtMost(floor'[u], Current')
        BY <1>4, <2>1, Issued DEF AtMost
    <2>3. TypeOK'
        BY <1>4, Issued
    <2> QED BY <2>2, <2>3
<1>5. ASSUME NEW n \in Times, Clock(n) PROVE Inv'
    BY <1>5 DEF Clock, Current
<1>6. CASE UNCHANGED vars
    BY <1>6 DEF vars, Current
<1> HIDE DEF Inv
<1> QED BY <1>2, <1>3, <1>4, <1>5, <1>6 DEF Next, Exhausted

LEMMA InvHolds == Spec => []Inv
BY InvInit, InvStep, PTL DEF Spec

\* idClock stays within the readings of the clock and the 12 bits of the
\* sequence, however many ids one millisecond asks for.
THEOREM TypeCorrect == Spec => []TypeOK
<1>1. Inv => TypeOK
    BY DEF Inv
<1> QED BY <1>1, InvHolds, PTL

\* Ids sort by creation order even when the clock goes backwards (nextTick).
THEOREM Sorted == Spec => SortedByCreation
<1>1. Inv /\ [Next]_vars =>
        [\A t \in Threads : pc[t] = "loop" /\ pc'[t] = "idle" => Before(floor[t], id'[t])]_vars
    <2> SUFFICES ASSUME Inv, Next, NEW t \in Threads, pc[t] = "loop", pc'[t] = "idle"
                 PROVE  Before(floor[t], id'[t])
        OBVIOUS
    <2>1. NewMilli(t) \/ SameMilli(t)
        BY DEF Next, Call, Lock, NewMilli, SameMilli, Issue, Exhausted, Clock, vars, Inv, TypeOK
    <2>2. Current \in Ids /\ Current' \in Ids /\ Before(Current, Current')
        BY <2>1, Issued, Encoded DEF Inv, TypeOK, Current
    <2>3. id'[t] = Current'
        BY <2>1, Issued DEF Inv, TypeOK
    <2> QED BY <2>2, <2>3, Order DEF Inv, TypeOK
<1> QED BY <1>1, InvHolds, PTL DEF Spec, SortedByCreation

\* Distinct goroutines hold distinct ids, an invariant of every step because a
\* new id is later than all the ones before it.
THEOREM Distinct == Spec => []IdsDistinct
<1>1. Init => IdsDistinct
    BY DEF Init, IdsDistinct
<1>2. Inv /\ IdsDistinct /\ [Next]_vars => IdsDistinct'
    <2> SUFFICES ASSUME Inv, IdsDistinct, [Next]_vars PROVE IdsDistinct'
        OBVIOUS
    <2>1. ASSUME NEW t \in Threads, NewMilli(t) \/ SameMilli(t) PROVE IdsDistinct'
        <3>1. \A u \in Threads : Before(id[u], Current')
            BY <2>1, Issued, Order, Encoded DEF Inv, TypeOK, Current
        <3>2. \A u \in Threads : id[u] # Current'
            BY <2>1, <3>1, Issued, Order DEF Inv, TypeOK
        <3> QED BY <2>1, <3>2, Issued DEF IdsDistinct, Inv, TypeOK
    <2>2. CASE id' = id
        BY <2>2 DEF IdsDistinct
    <2> QED BY <2>1, <2>2 DEF Next, Call, Lock, Exhausted, Clock, vars
<1> QED BY <1>1, <1>2, InvHolds, PTL DEF Spec

=============================================================================
