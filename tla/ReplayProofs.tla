---------------------------- MODULE ReplayProofs ----------------------------
(***************************************************************************)
(* Theorems about Replay, for any number of partitions and any bounds.     *)
(***************************************************************************)
EXTENDS Replay, TLAPS

reading == pc \in {"head", "read", "readWait", "handle"}

\* A call has a result once it is done.
Results == (result = "none") <=> (pc # "done")

\* How long a run of failures has lasted while there is patience for it.
Counted == patient /\ pc # "done" =>
    /\ elapsed <= Patience
    /\ dark <= elapsed + MaxCall
    /\ ~failing => elapsed = 0 /\ dark = 0

\* Once the topic is described every partition has been assigned an owner, and
\* where the broker sends no stats it has one from the start.
Assigned == reading \/ ~stats => \A p \in Partitions : owner[p] # "unassigned"

\* What the read has come past was handed over or is gone.
Covered == patient /\ reading =>
    \A p \in Partitions : \A o \in Nat : o < offset[p] => o \in handed[p] \/ gone(p, o)

\* The record the handler has is the one at the offset.
InHand == pc = "handle" => offset[part] \in handed[part]

\* A partition that was left was read to where it ended.
Finished == patient /\ reading =>
    \A p \in Partitions : p < part => existed[p] <= offset[p]

\* A log only grows, and ages no further than its end.
Grows == \A p \in Partitions : existed[p] <= next[p] /\ oldest[p] <= next[p]

Describes == pc \in {"describe", "describeWait"} => patient /\ part = 1

Inv ==
    /\ TypeOK /\ Results /\ Counted /\ PatienceBounds /\ Assigned /\ Covered
    /\ InHand /\ Finished /\ Grows /\ Describes /\ NilIsComplete

-----------------------------------------------------------------------------

LEMMA InitInv == Init => Inv
<1> SUFFICES ASSUME Init PROVE Inv
    OBVIOUS
<1> USE ReplayAssumption DEF Init
<1>1. TypeOK
    <2>1. part \in Partitions /\ pc \in PCs
        BY DEF Partitions, PCs
    <2>5. patient \in BOOLEAN /\ failing \in BOOLEAN /\ ended \in BOOLEAN
        OBVIOUS
    <2>2. offset \in [Partitions -> Nat]
        OBVIOUS
    <2>3. owner \in [Partitions -> {"unassigned", "up", "down"}]
        OBVIOUS
    <2>4. next \in [Partitions -> Nat] /\ oldest \in [Partitions -> Nat]
        OBVIOUS
    <2> QED BY <2>1, <2>2, <2>3, <2>4, <2>5 DEF TypeOK
<1>2. Results /\ InHand /\ Describes /\ NilIsComplete
    BY DEF Results, InHand, Describes, NilIsComplete
<1>3. Counted /\ PatienceBounds
    BY DEF Counted, PatienceBounds
<1>4. Assigned
    BY DEF Assigned, reading
<1>5. Covered /\ Finished
    BY DEF Covered, Finished, reading
<1>6. Grows
    BY <1>1 DEF Grows, TypeOK
<1> QED BY <1>1, <1>2, <1>3, <1>4, <1>5, <1>6 DEF Inv

\* Logs that only grow and age leave what was gone gone.
LEMMA GoneStays ==
    ASSUME TypeOK, TypeOK',
           \A p \in Partitions : oldest[p] <= oldest'[p] /\ next[p] <= next'[p],
           NEW p \in Partitions, NEW o \in Nat, gone(p, o)
    PROVE  gone(p, o)'
BY DEF gone, TypeOK

LEMMA OutsideInv == ASSUME Inv, Outside PROVE Inv'
<1> USE DEF Inv, Outside
<1>0. UNCHANGED <<patient, stats, existed, pc, part, offset, clock, result, handed>>
    BY DEF Append, AgeOut, OwnerMoves, Cancel, given
<1>1. TypeOK'
    <2>1. CASE Append
        BY <2>1 DEF Append, TypeOK, given, clock
    <2>2. CASE AgeOut
        BY <2>2 DEF AgeOut, TypeOK, given, clock
    <2>3. CASE OwnerMoves
        BY <2>3 DEF OwnerMoves, TypeOK, given, clock
    <2>4. CASE Cancel
        BY <2>4 DEF Cancel, TypeOK, broker, clock
    <2> QED BY <2>1, <2>2, <2>3, <2>4
<1>3. /\ \A p \in Partitions : oldest[p] <= oldest'[p] /\ next[p] <= next'[p]
      /\ \A p \in Partitions : owner'[p] = "unassigned" => owner[p] = "unassigned"
    <2>1. CASE Append
        BY <2>1 DEF Append, TypeOK
    <2>2. CASE AgeOut
        BY <2>2 DEF AgeOut, TypeOK
    <2>3. CASE OwnerMoves
        BY <2>3 DEF OwnerMoves, TypeOK
    <2>4. CASE Cancel
        BY <2>4 DEF Cancel, TypeOK, broker
    <2> QED BY <2>1, <2>2, <2>3, <2>4
<1>2. /\ UNCHANGED <<patient, stats, existed, pc, part, offset, clock, result, handed>>
      /\ \A p \in Partitions : oldest[p] <= oldest'[p] /\ next[p] <= next'[p]
      /\ \A p \in Partitions : owner'[p] = "unassigned" => owner[p] = "unassigned"
    BY <1>0, <1>3
<1>8. Results' /\ Counted' /\ PatienceBounds' /\ InHand' /\ Describes' /\ Finished'
    BY <1>2 DEF Results, Counted, PatienceBounds, InHand, Describes, Finished, reading, clock
<1>4. Assigned'
    BY <1>2 DEF Assigned, reading
<1>5. Covered'
    BY <1>1, <1>2, GoneStays DEF Covered, reading, TypeOK
<1>6. Grows'
    <2>1. \A p \in Partitions : oldest'[p] <= next'[p]
        <3>1. CASE Append
            BY <3>1 DEF Append, TypeOK, Grows
        <3>2. CASE AgeOut
            BY <3>2 DEF AgeOut, TypeOK, Grows
        <3>3. CASE OwnerMoves \/ Cancel
            BY <3>3 DEF OwnerMoves, Cancel, broker, TypeOK, Grows
        <3> QED BY <3>1, <3>2, <3>3
    <2> QED BY <1>1, <1>2, <2>1 DEF Grows, TypeOK
<1>7. NilIsComplete'
    BY <1>2 DEF NilIsComplete, Results
<1> QED BY <1>1, <1>4, <1>5, <1>6, <1>7, <1>8

\* A failed call: what it leaves of the clock and the control state.
LEMMA FailedClock ==
    ASSUME Inv, pc # "done", NEW sleep \in {"describeWait", "readWait"}, Failed(sleep),
           patient' = patient
    PROVE  /\ pc' \in {sleep, "done"} /\ result' \in {"none", "ctx", "failed", "final"}
           /\ Results' /\ Counted' /\ PatienceBounds'
           /\ failing' \in BOOLEAN /\ elapsed' \in Nat /\ dark' \in Nat
           /\ pc' = sleep => patient
<1>1. PICK t \in 0..MaxCall :
        \/ Sleeps(t, sleep) \/ GivesUp(t, "failed") \/ GivesUp(t, "final")
    BY DEF Failed
<1>0. Patience \in Nat /\ MaxCall \in Nat /\ MaxDelay \in Nat
    BY ReplayAssumption
<1>2. CASE Sleeps(t, sleep)
    <2>1. PICK d \in 1..MaxDelay :
            /\ patient
            /\ since(t) + d <= Patience /\ failing' = TRUE /\ elapsed' = since(t) + d
            /\ dark' = dark + t + d /\ pc' = sleep /\ result' = result
        BY <1>2 DEF Sleeps
    <2>2. since(t) \in Nat /\ dark' <= elapsed' + MaxCall
        <3>1. CASE failing
            BY <1>0, <2>1, <3>1 DEF Inv, Counted, TypeOK, since
        <3>2. CASE ~failing
            BY <1>0, <2>1, <3>2 DEF Inv, Counted, TypeOK, since
        <3> QED BY <3>1, <3>2
    <2>3. elapsed' \in Nat /\ dark' \in Nat /\ elapsed' <= Patience
          /\ dark' <= Patience + 2 * MaxCall
        BY <1>0, <2>1, <2>2 DEF Inv, TypeOK
    <2> QED BY <2>1, <2>2, <2>3 DEF Inv, Results, Counted, PatienceBounds
<1>3. CASE GivesUp(t, "failed") \/ GivesUp(t, "final")
    <2>1. /\ pc' = "done" /\ result' \in {"ctx", "failed", "final"}
          /\ dark' = dark + t /\ failing' = failing /\ elapsed' = elapsed
        BY <1>3 DEF GivesUp, Return
    <2>2. dark' \in Nat /\ PatienceBounds'
        BY <1>0, <2>1 DEF Inv, Counted, TypeOK, PatienceBounds
    <2> QED BY <2>1, <2>2 DEF Inv, TypeOK, Results, Counted
<1> QED BY <1>1, <1>2, <1>3

\* A log that was heard of ends a run of failures.
LEMMA FreshClock ==
    ASSUME freshPatience
    PROVE  /\ failing' \in BOOLEAN /\ elapsed' \in Nat /\ dark' \in Nat
           /\ Counted' /\ PatienceBounds'
<1>1. 0 <= Patience /\ 0 <= 0 + MaxCall /\ 0 <= Patience + 2 * MaxCall
    BY ReplayAssumption
<1>2. failing' = FALSE /\ elapsed' = 0 /\ dark' = 0
    BY DEF freshPatience
<1> QED BY <1>1, <1>2 DEF Counted, PatienceBounds

LEMMA DescribeInv ==
    ASSUME Inv, Described \/ NotDescribed \/ WaitOver("describeWait", "describe")
    PROVE  Inv'
<1> USE DEF Inv
<1>1. CASE Described
    <2>1. pc = "describe" /\ pc' = "head" /\ patient /\ part = 1 /\ result = "none"
        BY <1>1 DEF Described, Describes, Results
    <2>2. UNCHANGED <<oldest, next, owner, ended, patient, stats, existed, part, result, handed>>
        BY <1>1 DEF Described, broker, given
    <2>3. \A p \in Partitions : offset'[p] \in {0, oldest[p]}
        BY <1>1 DEF Described
    <2>4. offset' \in [Partitions -> Nat]
        BY <1>1 DEF Described, TypeOK
    <2>5. TypeOK'
        BY <1>1, <2>1, <2>2, <2>4, FreshClock DEF Described, TypeOK, PCs
    <2>6. Results' /\ InHand' /\ Describes' /\ Grows' /\ NilIsComplete'
        BY <2>1, <2>2 DEF Results, InHand, Describes, Grows, NilIsComplete
    <2>7. Assigned'
        BY <1>1, <2>2 DEF Described, unavailable, Assigned
    <2>8. Covered'
        <3> SUFFICES ASSUME NEW p \in Partitions, NEW o \in Nat, o < offset'[p]
                     PROVE  gone(p, o)'
            BY DEF Covered
        <3> QED BY <2>2, <2>3, <2>5 DEF gone, TypeOK
    <2>9. Finished'
        BY <2>1, <2>2 DEF Finished, Partitions
    <2> QED BY <1>1, <2>5, <2>6, <2>7, <2>8, <2>9, FreshClock DEF Described
<1>2. CASE NotDescribed
    <2>1. /\ pc = "describe"
          /\ UNCHANGED <<oldest, next, owner, ended, patient, stats, existed, part, offset, handed>>
        BY <1>2 DEF NotDescribed, broker, given
    <2>2. /\ pc' \in {"describeWait", "done"} /\ result' \in {"none", "ctx", "failed", "final"}
          /\ Results' /\ Counted' /\ PatienceBounds'
          /\ failing' \in BOOLEAN /\ elapsed' \in Nat /\ dark' \in Nat
        BY <1>2, <2>1, FailedClock DEF NotDescribed
    <2>3. TypeOK'
        BY <2>1, <2>2 DEF TypeOK, PCs
    <2>4. Assigned' /\ Covered' /\ InHand' /\ Finished' /\ Grows' /\ Describes'
        BY <2>1, <2>2 DEF Assigned, Covered, InHand, Finished, Grows, Describes, reading
    <2> QED BY <2>2, <2>3, <2>4 DEF NilIsComplete
<1>3. CASE WaitOver("describeWait", "describe")
    <2>1. /\ pc = "describeWait"
          /\ UNCHANGED <<oldest, next, owner, ended, patient, stats, existed, part, offset,
                         failing, elapsed, dark, handed>>
          /\ \/ pc' = "describe" /\ result' = result
             \/ pc' = "done" /\ result' = "ctx"
        BY <1>3 DEF WaitOver, Return, broker, given, clock
    <2>2. TypeOK'
        BY <2>1 DEF TypeOK, PCs
    <2> QED BY <2>1, <2>2 DEF Results, Counted, PatienceBounds, Assigned, Covered, InHand,
            Finished, Grows, Describes, NilIsComplete, reading
<1> QED BY <1>1, <1>2, <1>3

\* Waits and failures leave what was read alone.
LEMMA ReadStays ==
    ASSUME Inv, reading' => reading, pc' # "handle",
           UNCHANGED <<oldest, next, owner, patient, stats, existed, part, offset, handed>>
    PROVE  Assigned' /\ Covered' /\ InHand' /\ Finished' /\ Grows'
<1> USE DEF Inv
<1>1. Assigned'
    BY DEF Assigned
<1>2. Covered'
    BY DEF Covered, gone
<1>3. Finished'
    BY DEF Finished
<1> QED BY <1>1, <1>2, <1>3 DEF InHand, Grows

LEMMA ReadInv ==
    ASSUME Inv, Head \/ ReadGone \/ ReadFailed \/ ReadRecord \/ WaitOver("readWait", "head")
    PROVE  Inv'
<1> USE DEF Inv
<1>1. CASE Head
    <2>1. /\ pc = "head"
          /\ UNCHANGED <<oldest, next, owner, ended, patient, stats, existed, part, offset,
                         failing, elapsed, dark, handed>>
          /\ \/ pc' = "read" /\ result' = result
             \/ pc' = "done" /\ result' = "ctx"
        BY <1>1 DEF Head, Return, broker, given, clock
    <2>2. TypeOK'
        BY <2>1 DEF TypeOK, PCs
    <2>3. Assigned' /\ Covered' /\ InHand' /\ Finished' /\ Grows'
        BY <2>1, ReadStays DEF reading
    <2>4. Results' /\ Counted' /\ PatienceBounds' /\ Describes' /\ NilIsComplete'
        BY <2>1 DEF Results, Counted, PatienceBounds, Describes, NilIsComplete
    <2> QED BY <2>2, <2>3, <2>4
<1>2. CASE WaitOver("readWait", "head")
    <2>1. /\ pc = "readWait"
          /\ UNCHANGED <<oldest, next, owner, ended, patient, stats, existed, part, offset,
                         failing, elapsed, dark, handed>>
          /\ \/ pc' = "head" /\ result' = result
             \/ pc' = "done" /\ result' = "ctx"
        BY <1>2 DEF WaitOver, Return, broker, given, clock
    <2>2. TypeOK'
        BY <2>1 DEF TypeOK, PCs
    <2>3. Assigned' /\ Covered' /\ InHand' /\ Finished' /\ Grows'
        BY <2>1, ReadStays DEF reading
    <2>4. Results' /\ Counted' /\ PatienceBounds' /\ Describes' /\ NilIsComplete'
        BY <2>1 DEF Results, Counted, PatienceBounds, Describes, NilIsComplete
    <2> QED BY <2>2, <2>3, <2>4
<1>3. CASE ReadFailed
    <2>1. /\ pc = "read"
          /\ UNCHANGED <<oldest, next, owner, ended, patient, stats, existed, part, offset, handed>>
        BY <1>3 DEF ReadFailed, broker, given
    <2>2. /\ pc' \in {"readWait", "done"} /\ result' \in {"none", "ctx", "failed", "final"}
          /\ Results' /\ Counted' /\ PatienceBounds'
          /\ failing' \in BOOLEAN /\ elapsed' \in Nat /\ dark' \in Nat
        BY <1>3, <2>1, FailedClock DEF ReadFailed
    <2>3. TypeOK'
        BY <2>1, <2>2 DEF TypeOK, PCs
    <2>4. Assigned' /\ Covered' /\ InHand' /\ Finished' /\ Grows'
        BY <2>1, <2>2, ReadStays DEF reading
    <2>5. Describes' /\ NilIsComplete'
        BY <2>1, <2>2 DEF Describes, NilIsComplete
    <2> QED BY <2>2, <2>3, <2>4, <2>5
<1>4. CASE ReadGone
    <2>1. /\ pc = "read" /\ pc' = "head" /\ gone(part, offset[part])
          /\ UNCHANGED <<oldest, next, owner, ended, patient, stats, existed, part, result, handed>>
          /\ offset' = [offset EXCEPT ![part] = @ + 1]
        BY <1>4 DEF ReadGone, broker, given
    <2>2. TypeOK'
        BY <1>4, <2>1, FreshClock DEF ReadGone, TypeOK, PCs
    <2>3. Results' /\ Assigned' /\ InHand' /\ Grows' /\ Describes' /\ NilIsComplete'
        BY <2>1 DEF Results, Assigned, InHand, Grows, Describes, NilIsComplete, reading
    <2>4. Covered'
        <3> SUFFICES ASSUME patient, NEW p \in Partitions, NEW o \in Nat, o < offset'[p]
                     PROVE  o \in handed[p] \/ gone(p, o)
            BY <2>1 DEF Covered, gone
        <3>1. o < offset[p] \/ (p = part /\ o = offset[p])
            BY <2>1 DEF TypeOK
        <3> QED BY <2>1, <3>1 DEF Covered, reading
    <2>5. Finished'
        BY <2>1 DEF Finished, reading, TypeOK, Partitions
    <2> QED BY <1>4, <2>2, <2>3, <2>4, <2>5, FreshClock DEF ReadGone
<1>5. CASE ReadRecord
    <2>1. /\ pc = "read" /\ pc' = "handle"
          /\ UNCHANGED <<oldest, next, owner, ended, patient, stats, existed, part, offset, result>>
          /\ handed' = [handed EXCEPT ![part] = @ \cup {offset[part]}]
        BY <1>5 DEF ReadRecord, broker, given
    <2>2. TypeOK'
        <3>1. handed' \in [Partitions -> SUBSET Nat]
            BY <2>1 DEF TypeOK
        <3> QED BY <1>5, <2>1, <3>1, FreshClock DEF ReadRecord, TypeOK, PCs
    <2>3. Results' /\ Assigned' /\ Grows' /\ Describes' /\ NilIsComplete'
        BY <2>1 DEF Results, Assigned, Grows, Describes, NilIsComplete, reading
    <2>4. InHand' /\ \A p \in Partitions : handed[p] \subseteq handed'[p]
        BY <2>1 DEF InHand, TypeOK
    <2>5. Covered'
        BY <2>1, <2>4 DEF Covered, reading, gone
    <2>6. Finished'
        BY <2>1 DEF Finished, reading
    <2> QED BY <1>5, <2>2, <2>3, <2>4, <2>5, <2>6, FreshClock DEF ReadRecord
<1> QED BY <1>1, <1>2, <1>3, <1>4, <1>5

LEMMA ReadEndInv == ASSUME Inv, ReadEnd PROVE Inv'
<1> USE DEF Inv
<1>1. /\ pc = "read" /\ result = "none"
      /\ UNCHANGED <<oldest, next, owner, ended, patient, stats, existed, offset, handed>>
      /\ \/ patient /\ part < P /\ part' = part + 1 /\ pc' = "head" /\ result' = result
         \/ (patient => part = P) /\ pc' = "done" /\ result' = "nil" /\ part' = part
    BY DEF ReadEnd, last, Return, broker, given, Results
<1>2. next[part] <= offset[part]
    BY <1>1 DEF ReadEnd, Assigned, reading, TypeOK
<1>3. existed[part] <= offset[part]
    BY <1>2 DEF Grows, TypeOK
<1>4. part' \in Partitions
    <2>1. P \in Nat /\ part \in 1..P
        BY ReplayAssumption DEF TypeOK, Partitions
    <2>2. part' = part \/ (part < P /\ part' = part + 1)
        BY <1>1
    <2> QED BY <2>1, <2>2 DEF Partitions
<1>5. TypeOK'
    BY <1>1, <1>4, FreshClock DEF ReadEnd, TypeOK, PCs
<1>6. Results' /\ Assigned' /\ InHand' /\ Grows' /\ Describes'
    BY <1>1 DEF Results, Assigned, InHand, Grows, Describes, reading
<1>7. Covered'
    BY <1>1 DEF Covered, reading, gone
<1>8. patient => \A p \in Partitions : p <= part => existed[p] <= offset[p]
    BY <1>1, <1>3 DEF Finished, reading, TypeOK, Partitions
<1>9. Finished'
    BY <1>1, <1>8 DEF Finished, reading, TypeOK, Partitions
<1>10. NilIsComplete'
    <2> SUFFICES ASSUME patient, result' = "nil", NEW p \in Partitions, NEW o \in 0..(existed[p] - 1)
                 PROVE  o \in handed[p] \/ gone(p, o)
        BY <1>1 DEF NilIsComplete, gone
    <2>1. part = P /\ p <= part
        BY <1>1 DEF Partitions
    <2>2. o \in Nat /\ o < offset[p]
        BY <1>8, <2>1 DEF TypeOK
    <2> QED BY <1>1, <2>2 DEF Covered, reading
<1> QED BY <1>5, <1>6, <1>7, <1>9, <1>10, FreshClock DEF ReadEnd

LEMMA HandlerInv == ASSUME Inv, Handled \/ HandlerFailed PROVE Inv'
<1> USE DEF Inv
<1>1. CASE Handled
    <2>1. /\ pc = "handle" /\ pc' = "head" /\ offset' = [offset EXCEPT ![part] = @ + 1]
          /\ UNCHANGED <<oldest, next, owner, ended, patient, stats, existed, part, failing,
                         elapsed, dark, result, handed>>
        BY <1>1 DEF Handled, broker, given, clock
    <2>2. TypeOK'
        BY <2>1 DEF TypeOK, PCs
    <2>3. Results' /\ Counted' /\ PatienceBounds' /\ Assigned' /\ InHand' /\ Grows' /\ Describes'
          /\ NilIsComplete'
        BY <2>1 DEF Results, Counted, PatienceBounds, Assigned, InHand, Grows, Describes,
                    NilIsComplete, reading
    <2>4. Covered'
        <3> SUFFICES ASSUME patient, NEW p \in Partitions, NEW o \in Nat, o < offset'[p]
                     PROVE  o \in handed[p] \/ gone(p, o)
            BY <2>1 DEF Covered, gone
        <3>1. o < offset[p] \/ (p = part /\ o = offset[p])
            BY <2>1 DEF TypeOK
        <3> QED BY <2>1, <3>1 DEF Covered, InHand, reading
    <2>5. Finished'
        BY <2>1 DEF Finished, reading, TypeOK, Partitions
    <2> QED BY <2>2, <2>3, <2>4, <2>5
<1>2. CASE HandlerFailed
    <2>1. /\ pc = "handle" /\ pc' = "done" /\ result' = "handler"
          /\ UNCHANGED <<oldest, next, owner, ended, patient, stats, existed, part, offset, failing,
                         elapsed, dark, handed>>
        BY <1>2 DEF HandlerFailed, Return, broker, given, clock
    <2>2. TypeOK'
        BY <2>1 DEF TypeOK, PCs
    <2> QED BY <2>1, <2>2 DEF Results, Counted, PatienceBounds, Assigned, Covered, InHand,
            Finished, Grows, Describes, NilIsComplete, reading
<1> QED BY <1>1, <1>2

LEMMA StepInv == ASSUME Inv, [Next]_vars PROVE Inv'
<1>1. CASE UNCHANGED vars
    BY <1>1 DEF Inv, vars, broker, given, clock, TypeOK, Results, Counted, PatienceBounds,
                Assigned, Covered, InHand, Finished, Grows, Describes, NilIsComplete, reading, gone
<1>2. CASE Next
    BY <1>1, <1>2, OutsideInv, DescribeInv, ReadInv, ReadEndInv, HandlerInv DEF Next, Step, Returned
<1> QED BY <1>1, <1>2

LEMMA InvHolds == Spec => []Inv
BY InitInv, StepInv, PTL DEF Spec

\* The type invariant, for any number of partitions.
THEOREM TypeCorrect == Spec => []TypeOK
BY InvHolds, PTL DEF Inv

\* A replay that returns nil has handed over every record that was there when it
\* was called and is not gone, whatever failed on the way (consume.go, Replay).
THEOREM NilMeansComplete == Spec => []NilIsComplete
BY InvHolds, PTL DEF Inv

\* Failures in a row cost a replay no more than its patience and two calls
\* (patience.wait).
THEOREM PatienceIsBounded == Spec => []PatienceBounds
BY InvHolds, PTL DEF Inv

-----------------------------------------------------------------------------

LEMMA InitIsPromised == Init => Promise!Init
<1> SUFFICES ASSUME Init PROVE Promise!Init
    OBVIOUS
<1>1. TypeOK
    BY InitInv DEF Inv
<1>2. /\ pc \in {"describe", "head"} /\ result = "none"
      /\ handed = [p \in Partitions |-> {}]
      /\ patient => part = 1
    BY DEF Init
<1>3. Sealed = {}
    BY <1>2 DEF Sealed, Partitions
<1>4. Pos \in [Partitions -> Nat] /\ State \in {"idle", "scanning"} /\ Scope \subseteq Partitions
    BY <1>1, <1>2 DEF TypeOK, Pos, State, Scope
<1> QED BY <1>1, <1>2, <1>3, <1>4 DEF TypeOK, Promise!Init

LEMMA PosIsNat == ASSUME Inv PROVE Pos \in [Partitions -> Nat]
BY DEF Inv, TypeOK, Pos

LEMMA OutsideIsPromised ==
    ASSUME Inv, Inv', Outside PROVE [Promise!Next]_(Promise!vars)
<1>1. /\ UNCHANGED <<Scope, State, Pos, Sealed, handed>>
      /\ \A p \in Partitions : oldest[p] <= oldest'[p] /\ next[p] <= next'[p]
    <2>1. UNCHANGED <<patient, pc, part, offset, result, handed>>
        BY DEF Outside, Append, AgeOut, OwnerMoves, Cancel, given
    <2>2. UNCHANGED <<Scope, State, Pos, Sealed>>
        BY <2>1 DEF Scope, State, Pos, Sealed
    <2>3. CASE Append
        BY <2>1, <2>2, <2>3 DEF Append, Inv, TypeOK
    <2>4. CASE AgeOut
        BY <2>1, <2>2, <2>4 DEF AgeOut, Inv, TypeOK
    <2>5. CASE OwnerMoves \/ Cancel
        BY <2>1, <2>2, <2>5 DEF OwnerMoves, Cancel, broker, Inv, TypeOK
    <2> QED BY <2>3, <2>4, <2>5 DEF Outside
<1>2. oldest' \in [Partitions -> Nat] /\ next' \in [Partitions -> Nat]
    BY DEF Inv, TypeOK
<1> QED BY <1>1, <1>2 DEF Promise!LogsMove, Promise!Next

\* The call ends without an answer, or goes on waiting for one.
LEMMA StopIsPromised ==
    ASSUME Inv, UNCHANGED <<oldest, next, patient, part, offset, handed>>,
           pc \notin {"handle", "done"},
           \/ pc' = "done" /\ result' \in {"ctx", "failed", "final"}
           \/ pc' = "describeWait" /\ pc = "describe" /\ result' = result
           \/ pc' = "describe" /\ pc = "describeWait" /\ result' = result
           \/ pc' \in {"head", "read", "readWait"} /\ pc \in {"head", "read", "readWait"}
              /\ result' = result
    PROVE  [Promise!Next]_(Promise!vars)
<1>1. result = "none"
    BY DEF Inv, Results
<1>2. UNCHANGED <<Scope, Pos, Sealed, oldest, next, handed>>
    BY <1>1 DEF Scope, Pos, Sealed
<1>3. State \in {"idle", "scanning"} /\ (State' = "stopped" \/ State' = State)
    BY <1>1 DEF State, Inv, TypeOK, PCs
<1> QED BY <1>2, <1>3 DEF Promise!Stop, Promise!Next, Promise!vars, Promise!logs

LEMMA DescribedIsPromised ==
    ASSUME Inv, Inv', Described PROVE Promise!Next
<1>1. /\ pc = "describe" /\ pc' = "head" /\ patient /\ result = "none"
      /\ UNCHANGED <<oldest, next, patient, part, result, handed>>
      /\ \A p \in Partitions : offset'[p] \in {0, oldest[p]}
    BY DEF Described, Inv, Describes, Results, broker, given
<1>2. State = "idle" /\ State' = "scanning" /\ UNCHANGED <<Scope, Sealed>>
    BY <1>1 DEF State, Scope, Sealed
<1>3. Pos' \in [Partitions -> Nat]
    BY <1>1 DEF Inv, TypeOK, Pos
<1>4. \A p \in Partitions : Pos'[p] <= oldest[p]
    BY <1>1 DEF Pos, Inv, TypeOK
<1>5. Promise!Begin
    BY <1>1, <1>2, <1>3, <1>4 DEF Promise!Begin, Promise!logs, Scope
<1> QED BY <1>5 DEF Promise!Next

\* Where a read stands: at its offset, in a log it has not met the end of.
LEMMA Standing ==
    ASSUME Inv, pc = "read"
    PROVE  /\ State = "scanning" /\ part \in Scope \ Sealed /\ result = "none"
           /\ Pos[part] = offset[part] /\ Pos = offset
<1>1. result = "none" /\ State = "scanning" /\ part \in Partitions
    BY DEF Inv, Results, State, TypeOK
<1>2. part \in Scope
    BY <1>1 DEF Scope
<1>3. part \notin Sealed
    BY <1>1 DEF Sealed, Partitions
<1>4. Pos = offset
    BY <1>1 DEF Pos, Inv, TypeOK
<1> QED BY <1>1, <1>2, <1>3, <1>4

LEMMA ReadIsPromised ==
    ASSUME Inv, Inv', ReadGone \/ ReadRecord PROVE Promise!Next
<1>0. pc = "read" /\ part \in Partitions
    BY DEF ReadGone, ReadRecord, Inv, TypeOK
<1>1. /\ State = "scanning" /\ part \in Scope \ Sealed /\ result = "none"
      /\ Pos[part] = offset[part] /\ Pos = offset
    BY <1>0, Standing
<1>2. /\ UNCHANGED <<oldest, next, patient, part, result>> /\ pc' \in {"head", "handle"}
    BY DEF ReadGone, ReadRecord, broker, given
<1>3. UNCHANGED <<Scope, State, Sealed>>
    BY <1>1, <1>2 DEF Scope, State, Sealed
<1>4. CASE ReadGone
    <2>1. /\ pc' = "head" /\ gone(part, offset[part]) /\ handed' = handed
          /\ offset' = [offset EXCEPT ![part] = @ + 1]
        BY <1>4 DEF ReadGone
    <2>2. Pos' = [Pos EXCEPT ![part] = @ + 1]
        BY <1>1, <1>2, <2>1 DEF Pos, Inv, TypeOK
    <2>3. offset[part] < next[part] /\ (offset[part] < oldest[part] \/ offset[part] \in Unreadable)
        BY <1>0, <2>1 DEF gone, Inv, TypeOK, Grows
    <2>4. Promise!Advance(part)
        BY <1>1, <1>2, <1>3, <2>1, <2>2, <2>3 DEF Promise!Advance, Promise!logs
    <2>5. Promise!Skip(part)
        BY <1>1, <2>1, <2>3, <2>4 DEF Promise!Skip
    <2> QED BY <1>0, <2>5 DEF Promise!Next
<1>5. CASE ReadRecord
    <2>1. /\ pc' = "handle" /\ readable(part, offset[part]) /\ offset' = offset
          /\ handed' = [handed EXCEPT ![part] = @ \cup {offset[part]}]
        BY <1>5 DEF ReadRecord
    <2>2. Pos' = [Pos EXCEPT ![part] = @ + 1]
        BY <1>1, <1>2, <2>1 DEF Pos, Inv, TypeOK
    <2>3. Promise!Advance(part)
        BY <1>1, <1>2, <1>3, <2>1, <2>2 DEF Promise!Advance, Promise!logs, readable
    <2>4. Promise!Hand(part)
        BY <1>1, <2>1, <2>3 DEF Promise!Hand, readable, Inv, TypeOK
    <2> QED BY <1>0, <2>4 DEF Promise!Next
<1> QED BY <1>4, <1>5

LEMMA ReadEndIsPromised ==
    ASSUME Inv, Inv', ReadEnd PROVE Promise!Next
<1>0. pc = "read" /\ part \in Partitions
    BY DEF ReadEnd, Inv, TypeOK
<1>1. /\ State = "scanning" /\ part \in Scope \ Sealed /\ result = "none"
      /\ Pos[part] = offset[part] /\ Pos = offset
    BY <1>0, Standing
<1>2. /\ UNCHANGED <<oldest, next, patient, offset, handed>>
      /\ \/ patient /\ part < P /\ part' = part + 1 /\ pc' = "head" /\ result' = result
         \/ (patient => part = P) /\ pc' = "done" /\ result' = "nil" /\ part' = part
    BY <1>0 DEF ReadEnd, last, Return, broker, given
<1>3. UNCHANGED Scope
    BY <1>2 DEF Scope
<1>4. UNCHANGED Pos
    <2>1. pc' # "handle" /\ result' # "handler"
        BY <1>1, <1>2
    <2> QED BY <1>1, <1>2, <2>1 DEF Pos, Inv, TypeOK
<1>5. next[part] <= offset[part]
    BY <1>0 DEF ReadEnd, Inv, Assigned, reading, TypeOK
<1>6. P \in Nat /\ Sealed = {p \in Partitions : patient /\ p < part}
    BY <1>1, ReplayAssumption DEF Sealed
<1>7. Sealed' = Sealed \cup {part} /\ State' = IF Sealed' = Scope THEN "complete" ELSE "scanning"
    <2>1. CASE patient /\ part < P /\ part' = part + 1 /\ pc' = "head" /\ result' = result
        <3>1. Sealed' = {p \in Partitions : p < part + 1}
            BY <1>1, <1>2, <2>1 DEF Sealed
        <3>2. Sealed' = Sealed \cup {part}
            BY <1>0, <1>6, <2>1, <3>1 DEF Partitions
        <3>3. P \in Scope /\ P \notin Sealed'
            BY <1>0, <1>6, <2>1, <3>1 DEF Partitions, Scope
        <3>4. State' = "scanning"
            BY <2>1 DEF State
        <3> QED BY <3>2, <3>3, <3>4
    <2>2. CASE (patient => part = P) /\ pc' = "done" /\ result' = "nil" /\ part' = part
        <3>1. Sealed' = Sealed \cup {part}
            BY <1>2, <1>6, <2>2 DEF Sealed
        <3>2. Sealed' = Scope
            <4>1. CASE patient
                BY <1>0, <1>6, <2>2, <3>1, <4>1 DEF Partitions, Scope
            <4>2. CASE ~patient
                BY <1>6, <3>1, <4>2 DEF Scope
            <4> QED BY <4>1, <4>2
        <3>3. State' = "complete"
            BY <2>2 DEF State
        <3> QED BY <3>1, <3>2, <3>3
    <2> QED BY <1>2, <2>1, <2>2
<1>8. Promise!Seal(part)
    BY <1>1, <1>2, <1>3, <1>4, <1>5, <1>7 DEF Promise!Seal, Promise!logs
<1> QED BY <1>0, <1>8 DEF Promise!Next

\* The record was handed over when it was read: only the offset moves now.
LEMMA HandlerIsPromised ==
    ASSUME Inv, Handled \/ HandlerFailed PROVE [Promise!Next]_(Promise!vars)
<1>1. /\ pc = "handle" /\ result = "none" /\ State = "scanning"
      /\ UNCHANGED <<oldest, next, patient, part, handed>>
    BY DEF Handled, HandlerFailed, broker, given, Inv, Results, State
<1>2. UNCHANGED Scope
    BY <1>1 DEF Scope
<1>3. CASE Handled
    <2>1. pc' = "head" /\ result' = result /\ offset' = [offset EXCEPT ![part] = @ + 1]
        BY <1>3 DEF Handled
    <2>2. UNCHANGED <<Pos, State, Sealed>>
        BY <1>1, <2>1 DEF Pos, State, Sealed, Inv, TypeOK
    <2> QED BY <1>1, <1>2, <2>2 DEF Promise!vars, Promise!logs
<1>4. CASE HandlerFailed
    <2>1. pc' = "done" /\ result' = "handler" /\ offset' = offset
        BY <1>4 DEF HandlerFailed, Return
    <2>2. UNCHANGED <<Pos, Sealed>> /\ State' = "stopped"
        BY <1>1, <2>1 DEF Pos, State, Sealed
    <2> QED BY <1>1, <1>2, <2>2 DEF Promise!Stop, Promise!Next, Promise!logs
<1> QED BY <1>3, <1>4

LEMMA StepIsPromised ==
    ASSUME Inv, Inv', [Next]_vars PROVE [Promise!Next]_(Promise!vars)
<1>0. CASE UNCHANGED vars
    BY <1>0 DEF vars, broker, given, clock, Scope, State, Pos, Sealed, Promise!vars, Promise!logs
<1>1. CASE Outside
    BY <1>1, OutsideIsPromised
<1>2. CASE Described
    BY <1>2, DescribedIsPromised
<1>3. CASE NotDescribed
    <2>1. pc = "describe" /\ UNCHANGED <<oldest, next, patient, part, offset, handed>>
        BY <1>3 DEF NotDescribed, broker, given
    <2>2. \/ pc' = "done" /\ result' \in {"ctx", "failed", "final"}
          \/ pc' = "describeWait" /\ result' = result
        BY <1>3 DEF NotDescribed, Failed, Sleeps, GivesUp, Return
    <2> QED BY <2>1, <2>2, StopIsPromised
<1>4. CASE WaitOver("describeWait", "describe") \/ WaitOver("readWait", "head") \/ Head
    <2>1. UNCHANGED <<oldest, next, patient, part, offset, handed>>
        BY <1>4 DEF WaitOver, Head, broker, given
    <2> QED BY <1>4, <2>1, StopIsPromised DEF WaitOver, Head, Return
<1>5. CASE ReadFailed
    <2>1. pc = "read" /\ UNCHANGED <<oldest, next, patient, part, offset, handed>>
        BY <1>5 DEF ReadFailed, broker, given
    <2>2. \/ pc' = "done" /\ result' \in {"ctx", "failed", "final"}
          \/ pc' = "readWait" /\ result' = result
        BY <1>5 DEF ReadFailed, Failed, Sleeps, GivesUp, Return
    <2> QED BY <2>1, <2>2, StopIsPromised
<1>6. CASE ReadGone \/ ReadRecord
    BY <1>6, ReadIsPromised
<1>7. CASE ReadEnd
    BY <1>7, ReadEndIsPromised
<1>8. CASE Handled \/ HandlerFailed
    BY <1>8, HandlerIsPromised
<1> QED BY <1>0, <1>1, <1>2, <1>3, <1>4, <1>5, <1>6, <1>7, <1>8 DEF Next, Step, Returned

\* Replay and ReadFrom, with their waits, failures, moving logs and moving owners,
\* do what LogScan promises (consume.go, readFrom).
THEOREM ReplayScans == Spec => ScansAsPromised
BY InvHolds, InitIsPromised, StepIsPromised, PTL DEF Spec, ScansAsPromised, Promise!Spec

=============================================================================
