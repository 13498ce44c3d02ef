-------------------------- MODULE SettleManyProofs --------------------------
(***************************************************************************)
(* Theorems about SettleMany, for any number of messages and attempts.     *)
(***************************************************************************)
EXTENDS SettleMany, FiniteSetTheorems, TLAPS

\* An attempt is left wherever another may be made.
AttemptsLeft == pc # "done" => attempt < Attempts

\* A lease ends as the operation asks, or lapses.
LeasesOf == \A m \in Messages :
    lease[m] \in {"held", "lapsed"} \/ (op # "extend" /\ lease[m] = spent)

\* As long as a message is pending, an ack of it that was or may yet be carried
\* out is known to be possible.
Doubted == op = "ack" =>
    \A m \in pending : lease[m] = "acked" \/ m \in late => m \in may

\* What an error or nil says about the lease.
Reasons ==
    /\ \A m \in Messages : errs[m] = "gone" => lease[m] \notin {"held", "acked"}
    /\ \A m \in Messages : errs[m] = "ok" /\ op # "extend" =>
          /\ lease[m] # "held"
          /\ lease[m] = spent \/ (op = "ack" /\ m \in may)

Inv == TypeOK /\ AttemptsLeft /\ LeasesOf /\ Doubted /\ Reasons /\ SendsOnlyUnsettled

-----------------------------------------------------------------------------

\* The broker's processing of handles leaves a lease alone or ends it as asked.
LEMMA ProcessedLease ==
    ASSUME NEW D, lease \in [Messages -> {"held", "acked", "requeued", "lapsed"}], op \in Ops,
           lease' = processed(D)
    PROVE  /\ lease' \in [Messages -> {"held", "acked", "requeued", "lapsed"}]
           /\ \A m \in Messages :
                 \/ lease'[m] = lease[m]
                 \/ /\ m \in D /\ op # "extend"
                    /\ lease[m] = "held" /\ lease'[m] = spent
           /\ \A m \in D \cap Messages : op # "extend" => lease'[m] # "held"
BY DEF processed, spent, Ops

LEMMA InitInv == Init => Inv
<1> SUFFICES ASSUME Init PROVE Inv
    OBVIOUS
<1>1. Attempts \in Nat \ {0} /\ N \in Nat \ {0}
    BY SettleManyAssumption
<1> QED
    BY <1>1 DEF Init, Inv, TypeOK, AttemptsLeft, LeasesOf, Doubted, Reasons,
                SendsOnlyUnsettled, Errs, Statuses, Ops

\* The head of the loop lets a round begin only with an attempt left.
LEMMA RoundEnds ==
    ASSUME Inv, pc = "round", NEW M, pc' = roundEnds(M), attempt' = attempt + 1
    PROVE  /\ pc' \in {"wait", "done"}
           /\ attempt' \in 0..Attempts
           /\ pc' # "done" => attempt' < Attempts
BY SettleManyAssumption DEF Inv, TypeOK, AttemptsLeft, roundEnds

LEMMA ResultsInv == ASSUME Inv, Results PROVE Inv'
<1> USE DEF Inv
<1>1. PICK s \in [pending -> Statuses] :
        /\ \A m \in pending : possible(m, s[m])
        /\ Processing({m \in pending : s[m] = "ok"}, {m \in pending : s[m] = "unsure"})
        /\ settled' = marked({m \in pending : accepted(m, s[m])})
        /\ errs' = [m \in Messages |-> IF m \notin pending THEN errs[m]
                      ELSE IF m \in {n \in pending : accepted(n, s[n])} THEN "ok" ELSE s[m]]
        /\ may' = may \cup {m \in pending : s[m] = "unsure"}
        /\ pending' = stillPending(s)
        /\ pc' = roundEnds(pending')
    BY DEF Results
<1>0. PICK E \in SUBSET {m \in pending : s[m] = "unsure"},
           L \in SUBSET {m \in pending : s[m] = "unsure"} :
        /\ lease' = processed({m \in pending : s[m] = "ok"} \cup E)
        /\ late' = late \cup L
    BY <1>1 DEF Processing
<1>2. pc = "round" /\ op' = op /\ attempt' = attempt + 1
    BY DEF Results
<1>3. /\ lease' \in [Messages -> {"held", "acked", "requeued", "lapsed"}]
      /\ \A m \in Messages :
            \/ lease'[m] = lease[m]
            \/ /\ m \in {n \in pending : s[n] = "ok"} \cup E /\ op # "extend"
               /\ lease[m] = "held" /\ lease'[m] = spent
      /\ \A m \in {n \in pending : s[n] = "ok"} : op # "extend" => lease'[m] # "held"
    BY <1>0, ProcessedLease DEF TypeOK
<1>4. pc' \in {"wait", "done"} /\ attempt' \in 0..Attempts /\ AttemptsLeft'
    BY <1>1, <1>2, RoundEnds DEF AttemptsLeft
<1>5. pending' \subseteq pending /\ \A m \in pending' : s[m] \in {"unsure", "refused"}
    BY <1>1 DEF stillPending, retryable, Statuses
<1>6. TypeOK'
    <2>1. op' \in Ops /\ pc' \in {"round", "wait", "single", "done"} /\ late' \subseteq Messages
          /\ pending' \subseteq Messages /\ may' \subseteq Messages
        BY <1>0, <1>1, <1>2, <1>4, <1>5 DEF TypeOK
    <2>2. errs' \in [Messages -> Errs]
        <3>1. \A m \in Messages : m \in pending => s[m] \in Statuses
            OBVIOUS
        <3>2. Statuses \subseteq Errs /\ "ok" \in Errs
            BY DEF Errs, Statuses
        <3> QED BY <1>1, <3>1, <3>2 DEF TypeOK
    <2>3. settled' \subseteq Messages
        BY <1>1 DEF TypeOK, marked
    <2> QED BY <1>3, <1>4, <2>1, <2>2, <2>3 DEF TypeOK
<1>7. LeasesOf'
    BY <1>2, <1>3 DEF LeasesOf, spent
<1>8. Doubted'
    BY <1>0, <1>1, <1>2, <1>3, <1>5 DEF Doubted, TypeOK, spent, Ops
<1>9. Reasons'
    <2>1. ASSUME NEW m \in Messages, errs'[m] = "gone"
          PROVE  lease'[m] \notin {"held", "acked"}
        <3>1. CASE m \notin pending
            BY <1>1, <1>3, <2>1, <3>1 DEF Reasons, TypeOK
        <3>2. CASE m \in pending
            <4>1. s[m] = "gone" /\ ~accepted(m, "gone")
                BY <1>1, <2>1, <3>2
            <4>2. lease[m] # "held" /\ ~(op = "ack" /\ m \in may)
                BY <1>1, <3>2, <4>1 DEF possible, accepted
            <4>3. lease[m] # "acked"
                BY <3>2, <4>2 DEF Doubted, LeasesOf, spent, TypeOK, Ops
            <4> QED BY <1>3, <4>2, <4>3
        <3> QED BY <3>1, <3>2
    <2>2. ASSUME NEW m \in Messages, errs'[m] = "ok", op # "extend"
          PROVE  lease'[m] # "held" /\ (lease'[m] = spent \/ (op = "ack" /\ m \in may'))
        <3>1. CASE m \notin pending
            BY <1>1, <1>3, <2>2, <3>1 DEF Reasons, TypeOK
        <3>2. CASE m \in pending /\ s[m] = "ok"
            BY <1>1, <1>3, <2>2, <3>2 DEF possible
        <3>3. CASE m \in pending /\ s[m] # "ok"
            <4>1. op = "ack" /\ m \in may /\ s[m] = "gone"
                BY <1>1, <2>2, <3>3 DEF accepted
            <4>2. lease[m] # "held"
                BY <1>1, <3>3, <4>1 DEF possible
            <4> QED BY <1>1, <1>3, <4>1, <4>2
        <3> QED BY <3>1, <3>2, <3>3
    <2> QED BY <1>2, <2>1, <2>2 DEF Reasons, spent
<1>10. SendsOnlyUnsettled'
    BY <1>1, <1>5 DEF SendsOnlyUnsettled, marked, stillPending
<1> QED BY <1>4, <1>6, <1>7, <1>8, <1>9, <1>10

\* A round that fails as a whole, whatever the broker did of it.
LEMMA RoundFailed ==
    ASSUME Inv, pc = "round", NEW D \in SUBSET pending, NEW e \in Errs \ {"ok", "gone"},
           lease' = processed(D) \/ lease' = lease, errs' = setErr(pending, e),
           late' \in SUBSET (late \cup pending),
           UNCHANGED <<op, pending, settled>>,
           \/ may' = may \cup pending
           \/ lease' = lease /\ late' = late /\ may' = may,
           \/ pc' = roundEnds(pending) /\ attempt' = attempt + 1
           \/ pc' = "done" /\ attempt' = attempt
    PROVE  Inv'
<1> USE DEF Inv
<1>1. /\ lease' \in [Messages -> {"held", "acked", "requeued", "lapsed"}]
      /\ \A m \in Messages :
            \/ lease'[m] = lease[m]
            \/ /\ m \in D /\ op # "extend"
               /\ lease[m] = "held" /\ lease'[m] = spent
    BY ProcessedLease DEF TypeOK
<1>2. pc' \in {"wait", "done"} /\ attempt' \in 0..Attempts /\ AttemptsLeft'
    BY RoundEnds DEF AttemptsLeft, TypeOK
<1>3. TypeOK'
    BY <1>1, <1>2 DEF TypeOK, setErr, Errs
<1>4. LeasesOf'
    BY <1>1 DEF LeasesOf, spent
<1>5. Doubted'
    BY <1>1 DEF Doubted, TypeOK
<1>6. Reasons'
    <2>1. \A m \in Messages : errs'[m] \in {"ok", "gone"} => m \notin pending /\ errs'[m] = errs[m]
        BY DEF setErr
    <2>2. \A m \in Messages : m \notin pending => lease'[m] = lease[m]
        BY <1>1
    <2>3. may \subseteq may'
        OBVIOUS
    <2> QED BY <2>1, <2>2, <2>3 DEF Reasons, spent
<1>7. SendsOnlyUnsettled'
    BY DEF SendsOnlyUnsettled
<1> QED BY <1>2, <1>3, <1>4, <1>5, <1>6, <1>7

LEMMA RoundInv == ASSUME Inv, Round PROVE Inv'
<1>1. CASE Results
    BY <1>1, ResultsInv
<1>2. CASE Unreadable
    <2>1. PICK D \in SUBSET pending : lease' = processed(D)
        BY <1>2 DEF Unreadable
    <2> QED BY <1>2, <2>1, RoundFailed DEF Unreadable, Errs
<1>3. CASE RoundUnsure
    <2>1. PICK D \in SUBSET pending, L \in SUBSET pending :
            lease' = processed({} \cup D) /\ late' = late \cup L
        BY <1>3 DEF RoundUnsure, Processing
    <2>2. {} \cup D = D
        OBVIOUS
    <2> QED BY <1>3, <2>1, <2>2, RoundFailed DEF RoundUnsure, Errs, Statuses
<1>4. CASE RoundRefused
    BY <1>4, RoundFailed DEF RoundRefused, Errs, Statuses
<1>5. CASE RoundRejected
    BY <1>5, RoundFailed DEF RoundRejected, Errs, Statuses
<1> QED BY <1>1, <1>2, <1>3, <1>4, <1>5 DEF Round

-----------------------------------------------------------------------------

\* One answer to one message, whether or not another attempt follows.
LEMMA SingleInv == ASSUME Inv, Single PROVE Inv'
<1> USE DEF Inv
<1>1. PICK m \in Messages, s \in Statuses :
        /\ first(m) /\ possible(m, s)
        /\ SingleAccepted(m, s) \/ SingleFailed(m, s) \/ SingleRetried(m, s)
    BY DEF Single
<1>2. pc = "single" /\ op' = op /\ m \in pending
    BY <1>1 DEF Single, first
<1>3. attempt \in 0..Attempts /\ attempt < Attempts /\ Attempts \in Nat \ {0}
    BY <1>2, SettleManyAssumption DEF TypeOK, AttemptsLeft
<1>4. CASE SingleAccepted(m, s)
    <2>1. PICK E \in SUBSET {}, L \in SUBSET {} :
            lease' = processed((IF s = "ok" THEN {m} ELSE {}) \cup E) /\ late' = late \cup L
        BY <1>4 DEF SingleAccepted, Processing
    <2>2. /\ lease' \in [Messages -> {"held", "acked", "requeued", "lapsed"}]
          /\ \A n \in Messages :
                \/ lease'[n] = lease[n]
                \/ /\ n = m /\ op # "extend" /\ s = "ok"
                   /\ lease[n] = "held" /\ lease'[n] = spent
          /\ s = "ok" /\ op # "extend" => lease'[m] # "held"
        BY <2>1, ProcessedLease DEF TypeOK
    <2>3. /\ errs' = [errs EXCEPT ![m] = "ok"] /\ pending' = pending \ {m} /\ attempt' = 0
          /\ pc' \in {"done", "single"} /\ settled' = marked({m}) /\ may' = may /\ late' = late
        BY <1>4, <2>1 DEF SingleAccepted, Concluded
    <2>4. TypeOK'
        BY <1>2, <1>3, <2>2, <2>3 DEF TypeOK, marked, Errs, Statuses
    <2>5. AttemptsLeft' /\ LeasesOf' /\ Doubted' /\ SendsOnlyUnsettled'
        BY <1>2, <1>3, <2>2, <2>3 DEF AttemptsLeft, LeasesOf, Doubted, SendsOnlyUnsettled,
                                      marked, spent, TypeOK
    <2>6. op # "extend" => lease'[m] # "held" /\ (lease'[m] = spent \/ (op = "ack" /\ m \in may))
        BY <1>1, <1>4, <2>2 DEF SingleAccepted, accepted, possible
    <2>7. Reasons'
        BY <1>2, <2>2, <2>3, <2>6 DEF Reasons, TypeOK, spent
    <2> QED BY <2>4, <2>5, <2>7
<1>5. CASE SingleFailed(m, s) \/ SingleRetried(m, s)
    <2>1. PICK E \in SUBSET (IF s = "unsure" THEN {m} ELSE {}),
               L \in SUBSET (IF s = "unsure" THEN {m} ELSE {}) :
            lease' = processed({} \cup E) /\ late' = late \cup L
        BY <1>5 DEF SingleFailed, SingleRetried, Processing
    <2>2. /\ lease' \in [Messages -> {"held", "acked", "requeued", "lapsed"}]
          /\ \A n \in Messages :
                \/ lease'[n] = lease[n]
                \/ /\ n = m /\ op # "extend" /\ s = "unsure"
                   /\ lease[n] = "held" /\ lease'[n] = spent
        BY <2>1, ProcessedLease DEF TypeOK
    <2>3. /\ settled' = settled /\ may \subseteq may' /\ may' \subseteq may \cup {m}
          /\ pending' \subseteq pending /\ (m \in pending' /\ s = "unsure" => m \in may')
        BY <1>5 DEF SingleFailed, SingleRetried, Concluded
    <2>4. \/ errs' = errs
          \/ errs' = [errs EXCEPT ![m] = s] \/ errs' = [errs EXCEPT ![m] = "ctx"]
        BY <1>5 DEF SingleFailed, SingleRetried, Concluded
    <2>5. pc' \in {"done", "single"} /\ attempt' \in 0..Attempts /\ attempt' < Attempts
        BY <1>2, <1>3, <1>5 DEF SingleFailed, SingleRetried, Concluded
    <2>6. TypeOK'
        <3>1. late' \subseteq Messages /\ may' \subseteq Messages
            BY <2>1, <2>3 DEF TypeOK
        <3>2. errs' \in [Messages -> Errs]
            BY <2>4 DEF TypeOK, Errs
        <3> QED BY <1>2, <2>2, <2>3, <2>5, <3>1, <3>2 DEF TypeOK
    <2>7. AttemptsLeft' /\ LeasesOf' /\ SendsOnlyUnsettled'
        BY <1>2, <2>2, <2>3, <2>5 DEF AttemptsLeft, LeasesOf, SendsOnlyUnsettled, spent
    <2>8. Doubted'
        BY <1>2, <2>1, <2>2, <2>3 DEF Doubted, TypeOK
    <2>9. s # "ok" /\ (s = "gone" => lease[m] \notin {"held", "acked"})
        BY <1>1, <1>2, <1>5 DEF SingleFailed, SingleRetried, accepted, possible, Doubted,
                                LeasesOf, spent, TypeOK, Ops
    <2>10. Reasons'
        BY <1>2, <2>2, <2>3, <2>4, <2>9 DEF Reasons, TypeOK, spent
    <2> QED BY <2>6, <2>7, <2>8, <2>10
<1> QED BY <1>1, <1>4, <1>5

\* What happens between requests.
LEMMA BetweenInv ==
    ASSUME Inv, FallBack \/ WaitOver \/ WaitEnded \/ Lapse \/ Land \/ Returned \/ UNCHANGED vars
    PROVE  Inv'
<1> USE DEF Inv
<1>1. CASE FallBack
    BY <1>1, SettleManyAssumption DEF FallBack, TypeOK, AttemptsLeft, LeasesOf, Doubted,
        Reasons, SendsOnlyUnsettled, spent
<1>2. CASE WaitOver
    BY <1>2 DEF WaitOver, TypeOK, AttemptsLeft, LeasesOf, Doubted, Reasons,
        SendsOnlyUnsettled, spent
<1>3. CASE WaitEnded
    BY <1>3 DEF WaitEnded, setErr, Errs, TypeOK, AttemptsLeft, LeasesOf, Doubted, Reasons,
        SendsOnlyUnsettled, spent
<1>4. CASE Lapse
    <2>1. UNCHANGED <<op, late, pc, pending, may, attempt, errs, settled>>
        BY <1>4 DEF Lapse
    <2>2. /\ lease' \in [Messages -> {"held", "acked", "requeued", "lapsed"}]
          /\ \A n \in Messages :
                lease'[n] = lease[n] \/ (lease[n] = "held" /\ lease'[n] = "lapsed")
        BY <1>4 DEF Lapse, TypeOK
    <2>3. TypeOK' /\ AttemptsLeft' /\ SendsOnlyUnsettled'
        BY <2>1, <2>2 DEF TypeOK, AttemptsLeft, SendsOnlyUnsettled
    <2>4. LeasesOf' /\ Doubted'
        BY <2>1, <2>2 DEF LeasesOf, Doubted, TypeOK, spent
    <2>5. Reasons'
        BY <2>1, <2>2 DEF Reasons, spent, TypeOK, Ops
    <2> QED BY <2>3, <2>4, <2>5
<1>5. CASE Land
    <2>1. PICK m \in late : lease' = processed({m}) /\ late' = late \ {m}
        BY <1>5 DEF Land
    <2>2. /\ lease' \in [Messages -> {"held", "acked", "requeued", "lapsed"}]
          /\ \A n \in Messages :
                \/ lease'[n] = lease[n]
                \/ n = m /\ op # "extend" /\ lease[n] = "held" /\ lease'[n] = spent
        BY <2>1, ProcessedLease DEF TypeOK
    <2>3. UNCHANGED <<op, pc, pending, may, attempt, errs, settled>>
        BY <1>5 DEF Land
    <2>4. TypeOK' /\ AttemptsLeft' /\ SendsOnlyUnsettled'
        BY <2>1, <2>2, <2>3 DEF TypeOK, AttemptsLeft, SendsOnlyUnsettled
    <2>5. LeasesOf'
        BY <2>2, <2>3 DEF LeasesOf, spent
    <2>6. Doubted'
        BY <2>1, <2>2, <2>3 DEF Doubted, TypeOK
    <2>7. Reasons'
        BY <2>2, <2>3 DEF Reasons, spent
    <2> QED BY <2>4, <2>5, <2>6, <2>7
<1>6. CASE Returned \/ UNCHANGED vars
    BY <1>6 DEF Returned, vars, TypeOK, AttemptsLeft, LeasesOf, Doubted, Reasons,
        SendsOnlyUnsettled, spent
<1> QED BY <1>1, <1>2, <1>3, <1>4, <1>5, <1>6

\* Inv is an invariant of every instance of SettleMany.
THEOREM InvHolds == Spec => []Inv
<1>1. Inv /\ [Next]_vars => Inv'
    BY RoundInv, SingleInv, BetweenInv DEF Next
<1> QED BY <1>1, InitInv, PTL DEF Spec

\* The types of SettleMany's variables.
THEOREM TypeCorrect == Spec => []TypeOK
<1>1. Inv => TypeOK
    BY DEF Inv
<1> QED BY <1>1, InvHolds, PTL

\* A message settled is never sent again, by a round or by the fallback
\* (consume_batch.go, settleMany).
THEOREM SendsUnsettled == Spec => []SendsOnlyUnsettled
<1>1. Inv => SendsOnlyUnsettled
    BY DEF Inv
<1> QED BY <1>1, InvHolds, PTL

\* An ack that was carried out, by whichever attempt, is not reported as a lost
\* lease (consume_batch.go, settleMany).
THEOREM AckedNotLost == Spec => []AckedIsNotLost
<1>1. Inv => AckedIsNotLost
    BY DEF Inv, Reasons, AckedIsNotLost, outcome
<1> QED BY <1>1, InvHolds, PTL

\* nil for an ack or nack means that it was carried out or, for an ack, that an
\* attempt before may have been (consume_batch.go, settleMany).
THEOREM NilHonest == Spec => []NilIsHonest
<1>1. Inv => NilIsHonest
    BY DEF Inv, Reasons, NilIsHonest, outcome
<1> QED BY <1>1, InvHolds, PTL

-----------------------------------------------------------------------------
\* The refinement.

LEMMA ProcessedMoves ==
    ASSUME Inv, NEW D, lease' = processed(D)
    PROVE  DOMAIN lease' = Messages /\ \A m \in Messages : Promise!LeaseStep(m)
BY ProcessedLease DEF Inv, TypeOK, Ops, spent, Promise!LeaseStep

\* Every step moves each lease as the abstract settle may.
LEMMA LeaseMoves ==
    ASSUME Inv, Next
    PROVE  DOMAIN lease' = Messages /\ \A m \in Messages : Promise!LeaseStep(m)
<1>1. ASSUME NEW C, NEW D, Processing(C, D)
      PROVE  DOMAIN lease' = Messages /\ \A m \in Messages : Promise!LeaseStep(m)
    BY <1>1, ProcessedMoves DEF Processing
<1>2. CASE Results \/ RoundUnsure \/ Single
    BY <1>1, <1>2 DEF Results, RoundUnsure, Single, SingleAccepted, SingleFailed, SingleRetried
<1>3. CASE Unreadable
    BY <1>3, ProcessedMoves DEF Unreadable
<1>4. CASE Land
    BY <1>4, ProcessedMoves DEF Land
<1>5. CASE Lapse
    BY <1>5 DEF Lapse, Inv, TypeOK, Promise!LeaseStep
<1>6. CASE RoundRefused \/ RoundRejected \/ FallBack \/ WaitOver \/ WaitEnded \/ Returned
    BY <1>6 DEF RoundRefused, RoundRejected, FallBack, WaitOver, WaitEnded, Returned, vars,
                Inv, TypeOK, Promise!LeaseStep
<1> QED BY <1>2, <1>3, <1>4, <1>5, <1>6 DEF Next, Round

\* A message's outcome, once it has one, stays.
LEMMA OutcomeStays ==
    ASSUME Inv, Next, NEW m \in Messages, outcome[m] # "pending"
    PROVE  outcome'[m] = outcome[m]
<1>1. pc = "done" \/ m \notin pending
    BY DEF outcome
<1>2. SUFFICES errs'[m] = errs[m] /\ (pc' = "done" \/ m \notin pending')
    BY <1>1 DEF outcome
<1>3. CASE Results
    BY <1>1, <1>3 DEF Results, stillPending
<1>4. CASE Unreadable \/ RoundUnsure \/ RoundRefused \/ RoundRejected
    BY <1>1, <1>4 DEF Unreadable, RoundUnsure, RoundRefused, RoundRejected, setErr
<1>5. CASE FallBack \/ WaitOver \/ WaitEnded
    BY <1>1, <1>5 DEF FallBack, WaitOver, WaitEnded, setErr
<1>6. CASE Single
    BY <1>1, <1>6 DEF Single, first, SingleAccepted, SingleFailed, SingleRetried, Concluded,
                      Inv, TypeOK
<1>7. CASE Lapse \/ Land \/ Returned
    BY <1>1, <1>7 DEF Lapse, Land, Returned, vars
<1> QED BY <1>3, <1>4, <1>5, <1>6, <1>7 DEF Next, Round

LEMMA StepIsPromised ==
    ASSUME Inv, Inv', [Next]_vars
    PROVE  [Promise!Next]_(Promise!vars)
<1>1. CASE UNCHANGED vars
    BY <1>1 DEF vars, Promise!vars, outcome
<1>2. CASE Next
    <2>1. op' = op
        BY <1>2 DEF Next, Round, Results, Unreadable, RoundUnsure, RoundRefused, RoundRejected,
            FallBack, WaitOver, WaitEnded, Single, Lapse, Land, Returned, vars
    <2>2. ASSUME NEW m \in Messages PROVE Promise!OutcomeStep(m)
        <3>1. CASE outcome[m] # "pending"
            BY <1>2, <3>1, OutcomeStays DEF Promise!OutcomeStep
        <3>2. CASE outcome[m] = "pending"
            <4>1. outcome'[m] \in {"pending", "ok", "gone", "failed"}
                BY DEF outcome
            <4>2. outcome'[m] \in {"ok", "gone"} => errs'[m] = outcome'[m]
                BY DEF outcome
            <4>3. outcome'[m] = "ok" /\ op # "extend" => lease'[m] # "held"
                BY <2>1, <4>2 DEF Inv, Reasons
            <4>4. outcome'[m] = "gone" => lease'[m] \notin {"held", "acked"}
                BY <4>2 DEF Inv, Reasons
            <4> QED BY <3>2, <4>1, <4>3, <4>4 DEF Promise!OutcomeStep
        <3> QED BY <3>1, <3>2
    <2>3. DOMAIN outcome' = Messages
        BY DEF outcome
    <2> QED BY <1>2, <2>1, <2>2, <2>3, LeaseMoves DEF Promise!Next
<1> QED BY <1>1, <1>2

\* settleMany keeps, for each message, the promise of one settle: its outcome is
\* decided once, nil only when the broker is done with the handle, a lost lease
\* only when it was lost (consume_batch.go, settleMany).
THEOREM SettleManySettles == Spec => SettlesAsPromised
<1>1. Init => Promise!Init
    BY SettleManyAssumption DEF Init, Promise!Init, Ops, outcome
<1>2. Inv /\ Inv' /\ [Next]_vars => [Promise!Next]_(Promise!vars)
    BY StepIsPromised
<1> QED BY <1>1, <1>2, InvHolds, PTL DEF Spec, SettlesAsPromised, Promise!Spec

-----------------------------------------------------------------------------
\* What settleMany can still do, in requests and waits between rounds: its
\* rounds, and then the attempts of each single settle.

budget ==
    CASE pc = "round"  -> N * Attempts + 2 * (Attempts - attempt) - 1
      [] pc = "wait"   -> N * Attempts + 2 * (Attempts - attempt)
      [] pc = "single" -> Cardinality(pending) * Attempts - attempt
      [] pc = "done"   -> 0

Settling == Round \/ FallBack \/ WaitOver \/ WaitEnded \/ Single

\* Every step settleMany takes uses some of it up; nothing gives any back.
BudgetShrinks ==
    [][/\ Settling => budget' < budget
       /\ ~Settling => budget' = budget]_vars

BudgetBounded == budget \in 0..(N * Attempts + 2 * Attempts)

\* The messages, and those pending, can be counted.
LEMMA PendingCounts ==
    ASSUME TypeOK
    PROVE  /\ IsFiniteSet(pending) /\ Cardinality(pending) \in 0..N
           /\ \A m \in pending : Cardinality(pending \ {m}) = Cardinality(pending) - 1
<1>1. IsFiniteSet(Messages) /\ Cardinality(Messages) = N
    BY FS_Interval, SettleManyAssumption DEF Messages
<1>2. IsFiniteSet(pending) /\ Cardinality(pending) <= N
    BY <1>1, FS_Subset DEF TypeOK
<1>3. Cardinality(pending) \in Nat
    BY <1>2, FS_CardinalityType
<1> QED BY <1>2, <1>3, FS_RemoveElement, SettleManyAssumption

\* What settling k messages one at a time may take.
LEMMA Shares ==
    ASSUME NEW k \in 0..N
    PROVE  /\ k * Attempts \in 0..(N * Attempts) /\ N * Attempts \in Nat
           /\ k > 0 => (k - 1) * Attempts + Attempts = k * Attempts
                      /\ (k - 1) * Attempts \in Nat
<1>1. \A x, y, z \in Nat : x <= y => x * z <= y * z /\ x * z \in Nat /\ y * z \in Nat
    OBVIOUS
<1>2. \A x \in Nat : \A z \in Nat : (x + 1) * z = x * z + z
    OBVIOUS
<1>3. N \in Nat /\ Attempts \in Nat /\ k \in Nat /\ k <= N
    BY SettleManyAssumption
<1>4. k * Attempts \in Nat /\ N * Attempts \in Nat /\ k * Attempts <= N * Attempts
    BY <1>1, <1>3
<1>5. ASSUME k > 0
      PROVE  (k - 1) * Attempts + Attempts = k * Attempts /\ (k - 1) * Attempts \in Nat
    <2>1. k - 1 \in Nat /\ (k - 1) + 1 = k
        BY <1>3, <1>5
    <2> QED BY <1>1, <1>2, <1>3, <2>1
<1> QED BY <1>4, <1>5

\* It goes on only for the sake of some message.
PendingLeft == pc # "done" => pending # {}

LEMMA PendingLeftInit == Init => PendingLeft
BY SettleManyAssumption DEF Init, PendingLeft, Messages

LEMMA PendingLeftStep == TypeOK /\ PendingLeft /\ [Next]_vars => PendingLeft'
<1> SUFFICES ASSUME TypeOK, PendingLeft, [Next]_vars PROVE PendingLeft'
    OBVIOUS
<1> USE DEF PendingLeft
<1>1. CASE Round
    BY <1>1 DEF Round, Results, Unreadable, RoundUnsure, RoundRefused, RoundRejected,
                roundEnds
<1>2. CASE Single
    <2>1. PICK m \in Messages, s \in Statuses :
            SingleAccepted(m, s) \/ SingleFailed(m, s) \/ SingleRetried(m, s)
        BY <1>2 DEF Single
    <2> QED BY <1>2, <2>1
        DEF Single, SingleAccepted, SingleFailed, SingleRetried, Concluded
<1>3. CASE FallBack \/ WaitOver \/ WaitEnded \/ Lapse \/ Land \/ Returned \/ UNCHANGED vars
    BY <1>3 DEF FallBack, WaitOver, WaitEnded, Lapse, Land, Returned, vars
<1> QED BY <1>1, <1>2, <1>3 DEF Next

LEMMA BudgetTypes ==
    ASSUME Inv, PendingLeft
    PROVE  BudgetBounded /\ (pc # "done" => budget > 0)
<1>1. /\ Cardinality(pending) \in 0..N /\ (pc # "done" => Cardinality(pending) > 0)
      /\ Cardinality(pending) * Attempts \in 0..(N * Attempts) /\ N * Attempts \in Nat
      /\ Cardinality(pending) > 0 => Cardinality(pending) * Attempts >= Attempts
    <2>1. Cardinality(pending) \in 0..N /\ (pc # "done" => Cardinality(pending) > 0)
        BY PendingCounts, FS_EmptySet DEF Inv, PendingLeft
    <2> QED BY <2>1, Shares, SettleManyAssumption
<1>2. Attempts \in Nat \ {0} /\ attempt \in Nat /\ (pc # "done" => attempt < Attempts)
    BY SettleManyAssumption DEF Inv, TypeOK, AttemptsLeft
<1>3. CASE pc = "single"
    BY <1>1, <1>2, <1>3 DEF BudgetBounded, budget
<1>4. CASE pc # "single"
    BY <1>1, <1>2, <1>4 DEF BudgetBounded, budget, Inv, TypeOK
<1> QED BY <1>3, <1>4

LEMMA RoundShrinks ==
    ASSUME Inv, PendingLeft, Round PROVE budget' < budget
<1>1. pc = "round" /\ budget = N * Attempts + 2 * (Attempts - attempt) - 1
    BY DEF Round, Results, Unreadable, RoundUnsure, RoundRefused, RoundRejected, budget
<1>2. \/ pc' = "done"
      \/ pc' = "wait" /\ attempt' = attempt + 1
    BY DEF Round, Results, Unreadable, RoundUnsure, RoundRefused, RoundRejected, roundEnds
<1>3. budget > 0 /\ Attempts \in Nat /\ attempt \in Nat /\ N * Attempts \in Nat
    BY <1>1, BudgetTypes, SettleManyAssumption DEF Inv, TypeOK
<1>4. CASE pc' = "done"
    BY <1>3, <1>4 DEF budget
<1>5. CASE pc' = "wait" /\ attempt' = attempt + 1
    <2>1. budget' = N * Attempts + 2 * (Attempts - (attempt + 1))
        BY <1>5 DEF budget
    <2> QED BY <1>1, <1>3, <2>1
<1> QED BY <1>2, <1>4, <1>5

LEMMA SingleShrinks ==
    ASSUME Inv, PendingLeft, Single PROVE budget' < budget
<1>1. PICK m \in Messages, s \in Statuses :
        /\ first(m)
        /\ SingleAccepted(m, s) \/ SingleFailed(m, s) \/ SingleRetried(m, s)
    BY DEF Single
<1> DEFINE c == Cardinality(pending)
<1>2. /\ pc = "single" /\ budget = c * Attempts - attempt
      /\ c \in 0..N /\ c > 0 /\ Cardinality(pending \ {m}) = c - 1
    BY <1>1, PendingCounts, FS_EmptySet DEF Single, budget, first, Inv
<1>3. /\ Attempts \in Nat /\ attempt \in Nat /\ attempt < Attempts
      /\ (c - 1) * Attempts + Attempts = c * Attempts /\ (c - 1) * Attempts \in Nat
    BY <1>2, Shares, SettleManyAssumption DEF Inv, TypeOK, AttemptsLeft
<1>4. CASE SingleRetried(m, s)
    <2>1. pc' = pc /\ pending' = pending /\ attempt' = attempt + 1
        BY <1>4 DEF SingleRetried
    <2>2. budget' = c * Attempts - (attempt + 1)
        BY <1>2, <2>1 DEF budget
    <2> HIDE DEF c
    <2> QED BY <1>2, <1>3, <2>2
<1>5. CASE SingleAccepted(m, s) \/ SingleFailed(m, s)
    <2>1. /\ pending' = pending \ {m} /\ attempt' = 0
          /\ pc' = IF pending' = {} THEN "done" ELSE "single"
        BY <1>5 DEF SingleAccepted, SingleFailed, Concluded
    <2>2. budget' = (c - 1) * Attempts \/ budget' = 0
        BY <1>2, <1>3, <2>1 DEF budget
    <2> HIDE DEF c
    <2> QED BY <1>2, <1>3, <2>2
<1> QED BY <1>1, <1>4, <1>5

LEMMA BetweenShrinks ==
    ASSUME Inv, PendingLeft, FallBack \/ WaitOver \/ WaitEnded PROVE budget' < budget
<1>1. /\ budget > 0 /\ Attempts \in Nat /\ attempt \in Nat /\ N * Attempts \in Nat
      /\ pc # "done" => attempt < Attempts
      /\ Cardinality(pending) * Attempts \in 0..(N * Attempts)
    <2>1. pc # "done"
        BY DEF FallBack, WaitOver, WaitEnded
    <2> QED BY <2>1, BudgetTypes, PendingCounts, Shares, SettleManyAssumption
            DEF Inv, TypeOK, AttemptsLeft
<1>2. CASE FallBack
    <2>1. /\ budget = N * Attempts + 2 * (Attempts - attempt) - 1
          /\ budget' = Cardinality(pending) * Attempts - 0 /\ attempt < Attempts
        BY <1>1, <1>2 DEF FallBack, budget
    <2> QED BY <1>1, <2>1
<1>3. CASE WaitOver
    <2>1. /\ budget = N * Attempts + 2 * (Attempts - attempt)
          /\ budget' = N * Attempts + 2 * (Attempts - attempt) - 1
        BY <1>3 DEF WaitOver, budget
    <2> QED BY <1>1, <2>1
<1>4. CASE WaitEnded
    BY <1>1, <1>4 DEF WaitEnded, budget
<1> QED BY <1>2, <1>3, <1>4

\* Whatever a broker answers, settling N messages takes at most as many rounds
\* as there are attempts and then, message by message, as many again for each:
\* no failure starts the count anew, and the fallback is never left for another
\* round (settleMany; settleFrom).
THEOREM SettlingIsBounded == Spec => BudgetShrinks /\ []BudgetBounded
<1>1. Inv /\ PendingLeft /\ [Next]_vars =>
        [/\ Settling => budget' < budget
         /\ ~Settling => budget' = budget]_vars
    <2> SUFFICES ASSUME Inv, PendingLeft, [Next]_vars
                 PROVE  /\ Settling => budget' < budget
                        /\ ~Settling => budget' = budget
        OBVIOUS
    <2>1. CASE Settling
        BY <2>1, RoundShrinks, SingleShrinks, BetweenShrinks DEF Settling
    <2>2. CASE ~Settling
        <3>1. UNCHANGED <<pc, pending, attempt>>
            BY <2>2 DEF Next, Settling, Lapse, Land, Returned, vars
        <3>2. budget' = budget
            BY <3>1 DEF budget, Inv, TypeOK
        <3> QED BY <2>2, <3>2
    <2> QED BY <2>1, <2>2
<1>2. Inv /\ PendingLeft => BudgetBounded
    BY BudgetTypes
<1>3. Inv => TypeOK
    BY DEF Inv
<1>4. Inv /\ [Next]_vars => Inv'
    BY RoundInv, SingleInv, BetweenInv DEF Next
<1> QED BY <1>1, <1>2, <1>3, <1>4, InitInv, PendingLeftInit, PendingLeftStep, PTL
        DEF Spec, BudgetShrinks

=============================================================================
