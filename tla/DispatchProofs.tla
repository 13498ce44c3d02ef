--------------------------- MODULE DispatchProofs ---------------------------
(***************************************************************************)
(* Theorems about Dispatch, for either setting of its options, any number  *)
(* of attempts per settle and any number of settles by the handler.        *)
(***************************************************************************)
EXTENDS Dispatch, TLAPS

w == req["worker"]
k == req["keeper"]

\* The consumer or its handler may have the broker do o: the handler asked for
\* it, or it is what dispatch does with the handler's verdict.
Allowed(o) ==
    \/ o \in asked
    \/ o = "ack" /\ verdict = "ok"
    \/ o = "nack" /\ Requeue /\ verdict = "err"

\* Which goroutine is where.  A request runs only where its goroutine waits for
\* it; the keeper only ever extends, and is gone when the worker settles.
Control ==
    /\ verdict = "running" <=> wpc = "handler"
    /\ wpc # "handler" => done
    /\ wpc \in {"settle", "done"} => kpc = "finished"
    /\ w.at # "none" => wpc \in {"handler", "settle"}
    /\ wpc = "settle" => w.op \in Final
    /\ k.op = "extend"
    /\ k.at # "none" => kpc = "extend"
    /\ \A p \in Procs : req[p].at = "mark" => req[p].op \in Final /\ req[p].ans = "ok"

\* settling counts the worker's ack or nack in flight.
Counted ==
    settling = IF w.at # "none" /\ w.op \in Final THEN 1 ELSE 0

\* Whatever can still reach the broker is allowed there.
Permitted ==
    /\ \A o \in late \cap Final : Allowed(o)
    /\ w.at # "none" /\ w.op \in Final => Allowed(w.op)

\* What the answers and the flags say about the lease.
Knowledge ==
    /\ \A p \in Procs : req[p].ans = "gone" => lease # "held"
    /\ \A p \in Procs : req[p].ans = "ok" /\ req[p].op \in Final => lease # "held"
    /\ kpc \in {"readSettled", "readSettling"} => lease # "held"
    /\ gone => lease # "held"
    /\ settled => lease # "held"

\* Why a message counts as acked.
Reasons ==
    /\ w.op = "ack" /\ (w.may \/ w.ans = "unsure") => doubt
    /\ w.op = "ack" /\ w.ans = "ok" => lease = "acked" \/ doubt
    /\ w.op \in Final /\ w.ans = "ok" /\ w.at \in {"leave", "none"} => settled
    /\ settled => lease = "acked" \/ doubt \/ Allowed("nack")
    /\ wpc = "settle" /\ w.op = "nack" => reported
    /\ wpc = "done" /\ Leased => settled \/ reported

Inv == TypeOK /\ Control /\ Counted /\ Permitted /\ Knowledge /\ Reasons

\* A fresh run of settleFrom, and one that has returned, in full.
LEMMA Entered ==
    ASSUME TypeOK, NEW p \in Procs, NEW o \in SettleOps, Begin(p, o)
    PROVE  /\ req' \in [Procs -> Req]
           /\ req'[p].at = "send" /\ req'[p].op = o /\ req'[p].ans = "none"
           /\ req'[p].may = FALSE
           /\ \A q \in Procs \ {p} : req'[q] = req[q]
<1>1. 0 \in 0..(Attempts - 1)
    BY DispatchAssumption
<1> QED BY <1>1 DEF Begin, NoReq, TypeOK, Req, Answers

LEMMA Left ==
    ASSUME TypeOK, NEW p \in Procs, Leave(p)
    PROVE  /\ req' \in [Procs -> Req]
           /\ req'[p].at = "none" /\ req'[p].op = req[p].op /\ req'[p].ans = req[p].ans
           /\ req'[p].may = FALSE
           /\ \A q \in Procs \ {p} : req'[q] = req[q]
<1>1. 0 \in 0..(Attempts - 1)
    BY DispatchAssumption
<1> QED BY <1>1 DEF Leave, NoReq, TypeOK, Req, Answers

LEMMA InvStep == Inv /\ [Next]_vars => Inv'
<1> SUFFICES ASSUME Inv, [Next]_vars PROVE Inv'
    OBVIOUS
<1> USE DispatchAssumption
    DEF Inv, TypeOK, Control, Counted, Permitted, Knowledge, Reasons, Allowed, w, k,
        Procs, SettleOps, Final, Answers, Req, NoReq, msgVars, keepVars, workVars
<1>1. ASSUME NEW p \in Procs, Answered(p), UNCHANGED <<msgVars, keepVars, workVars, cancelled>> PROVE Inv'
    BY <1>1 DEF Answered, applied
<1>2. ASSUME NEW p \in Procs, Unsure(p), UNCHANGED <<msgVars, keepVars, workVars, cancelled>> PROVE Inv'
    BY <1>2 DEF Unsure, applied
<1>3. ASSUME NEW p \in Procs, NEW a \in {"refused", "rejected"}, TurnedDown(p, a),
             UNCHANGED <<msgVars, keepVars, workVars, cancelled>> PROVE Inv'
    BY <1>3 DEF TurnedDown
<1>4. ASSUME NEW p \in Procs, SettleStep(p), Accept(p) PROVE Inv'
    BY <1>4 DEF SettleStep, Accept, accepted
<1>5. ASSUME NEW p \in Procs, SettleStep(p), Mark(p) PROVE Inv'
    BY <1>5 DEF SettleStep, Mark
<1>6. ASSUME NEW p \in Procs, SettleStep(p), Reject(p) PROVE Inv'
    BY <1>6 DEF SettleStep, Reject, accepted
<1>7. ASSUME NEW p \in Procs, SettleStep(p), Resend(p) PROVE Inv'
    BY <1>7 DEF SettleStep, Resend, accepted, retryable
<1>8. ASSUME NEW p \in Procs, SettleStep(p), Leave(p) PROVE Inv'
    <2>1. CASE p = "worker"
        <3>1. settling' = 0 /\ settling' \in 0..1
            BY <1>8, <2>1 DEF Leave
        <3>2. /\ UNCHANGED <<lease, late, settled, kpc, done, gone, cancelled, doubt>>
              /\ UNCHANGED <<wpc, verdict, asked, calls, reported>>
            BY <1>8 DEF SettleStep, Leave
        <3>3. /\ req' \in [Procs -> Req] /\ k' = k /\ w.at = "leave"
              /\ w'.at = "none" /\ w'.op = w.op /\ w'.ans = w.ans /\ w'.may = FALSE
            BY <1>8, <2>1, Left DEF Leave
        <3> HIDE DEF Req, NoReq, Answers
        <3>11. TypeOK'
            BY <1>8, <2>1, <3>1, <3>2, <3>3
        <3>12. Control'
            BY <1>8, <2>1, <3>1, <3>2, <3>3
        <3>13. Counted'
            BY <1>8, <2>1, <3>1, <3>2, <3>3
        <3>14. Permitted'
            BY <1>8, <2>1, <3>1, <3>2, <3>3
        <3>15. Knowledge'
            BY <1>8, <2>1, <3>1, <3>2, <3>3
        <3>16. Reasons'
            BY <1>8, <2>1, <3>1, <3>2, <3>3
        <3> QED BY <3>11, <3>12, <3>13, <3>14, <3>15, <3>16
    <2>2. CASE p = "keeper"
        <3>1. settling' = settling
            BY <1>8, <2>2 DEF Leave
        <3> HIDE DEF Req, NoReq, Answers
        <3>11. TypeOK'
            BY <1>8, <2>2, <3>1, Left DEF SettleStep, Leave
        <3>12. Control'
            BY <1>8, <2>2, <3>1, Left DEF SettleStep, Leave
        <3>13. Counted'
            BY <1>8, <2>2, <3>1, Left DEF SettleStep, Leave
        <3>14. Permitted'
            BY <1>8, <2>2, <3>1, Left DEF SettleStep, Leave
        <3>15. Knowledge'
            BY <1>8, <2>2, <3>1, Left DEF SettleStep, Leave
        <3>16. Reasons'
            BY <1>8, <2>2, <3>1, Left DEF SettleStep, Leave
        <3> QED BY <3>11, <3>12, <3>13, <3>14, <3>15, <3>16
    <2> QED BY <2>1, <2>2
<1>9. ASSUME NEW o \in SettleOps, Land(o) PROVE Inv'
    BY <1>9 DEF Land, applied
<1>10. ASSUME NEW o \in SettleOps, HandlerCalls(o) PROVE Inv'
    <2>1. Begin("worker", o)
        BY <1>10 DEF HandlerCalls
    <2>2. settling' = IF o \in Final THEN 1 ELSE 0
        BY <1>10, <2>1 DEF Begin, HandlerCalls
    <2>3. calls' \in 0..MaxCalls /\ asked' \subseteq SettleOps
          /\ settling' \in 0..1
        BY <1>10, <2>2 DEF HandlerCalls
    <2> HIDE DEF Req, NoReq, Answers
    <2>4. req' \in [Procs -> Req]
        BY <2>1, Entered
    <2>11. TypeOK'
        BY <1>10, <2>3, <2>4 DEF HandlerCalls
    <2>12. Control'
        BY <1>10, <2>1, <2>2, <2>3, Entered DEF HandlerCalls
    <2>13. Counted'
        BY <1>10, <2>1, <2>2, <2>3, Entered DEF HandlerCalls
    <2>14. Permitted'
        BY <1>10, <2>1, <2>2, <2>3, Entered DEF HandlerCalls
    <2>15. Knowledge'
        BY <1>10, <2>1, <2>2, <2>3, Entered DEF HandlerCalls
    <2>16. Reasons'
        BY <1>10, <2>1, <2>2, <2>3, Entered DEF HandlerCalls
    <2> QED BY <2>11, <2>12, <2>13, <2>14, <2>15, <2>16
<1>11. ASSUME NEW v \in {"ok", "err"}, HandlerReturns(v) PROVE Inv'
    BY <1>11 DEF HandlerReturns
<1>12. ASSUME Lapse PROVE Inv'
    BY <1>12 DEF Lapse
<1>13. ASSUME StopWork PROVE Inv'
    BY <1>13 DEF StopWork
<1>14. ASSUME LostMidHandler PROVE Inv'
    BY <1>14 DEF LostMidHandler, stopped
<1>15. ASSUME HandlerFailed PROVE Inv'
    <2>1. CASE Begin("worker", "nack")
        <3>1. settling' = 1 /\ settling' \in 0..1
            BY <1>15, <2>1 DEF Begin, HandlerFailed, stopped
        <3> HIDE DEF Req, NoReq, Answers
        <3>11. TypeOK'
            BY <1>15, <2>1, <3>1, Entered DEF HandlerFailed, stopped
        <3>12. Control'
            BY <1>15, <2>1, <3>1, Entered DEF HandlerFailed, stopped
        <3>13. Counted'
            BY <1>15, <2>1, <3>1, Entered DEF HandlerFailed, stopped
        <3>14. Permitted'
            BY <1>15, <2>1, <3>1, Entered DEF HandlerFailed, stopped
        <3>15. Knowledge'
            BY <1>15, <2>1, <3>1, Entered DEF HandlerFailed, stopped
        <3>16. Reasons'
            BY <1>15, <2>1, <3>1, Entered DEF HandlerFailed, stopped
        <3> QED BY <3>11, <3>12, <3>13, <3>14, <3>15, <3>16
    <2>2. CASE ~(Requeue /\ ~settled)
        BY <1>15, <2>2 DEF HandlerFailed, stopped
    <2> QED BY <1>15, <2>1, <2>2 DEF HandlerFailed
<1>16. ASSUME AckIt PROVE Inv'
    <2>1. Begin("worker", "ack") /\ settling' = 1 /\ settling' \in 0..1
        BY <1>16 DEF AckIt, Begin, stopped
    <2> HIDE DEF Req, NoReq, Answers
    <2>11. TypeOK'
        BY <1>16, <2>1, Entered DEF AckIt, stopped
    <2>12. Control'
        BY <1>16, <2>1, Entered DEF AckIt, stopped
    <2>13. Counted'
        BY <1>16, <2>1, Entered DEF AckIt, stopped
    <2>14. Permitted'
        BY <1>16, <2>1, Entered DEF AckIt, stopped
    <2>15. Knowledge'
        BY <1>16, <2>1, Entered DEF AckIt, stopped
    <2>16. Reasons'
        BY <1>16, <2>1, Entered DEF AckIt, stopped
    <2> QED BY <2>11, <2>12, <2>13, <2>14, <2>15, <2>16
<1>17. ASSUME NothingToSettle PROVE Inv'
    BY <1>17 DEF NothingToSettle, stopped
<1>18. ASSUME SettleReturned PROVE Inv'
    BY <1>18 DEF SettleReturned
<1>19. ASSUME KeeperStops PROVE Inv'
    BY <1>19 DEF KeeperStops
<1>20. ASSUME KeeperTicks PROVE Inv'
    <2>1. CASE settled
        BY <1>20, <2>1 DEF KeeperTicks
    <2>2. CASE ~settled
        <3>1. Begin("keeper", "extend") /\ settling' = settling
            BY <1>20, <2>2 DEF KeeperTicks, Begin
        <3> HIDE DEF Req, NoReq, Answers
        <3>11. TypeOK'
            BY <1>20, <2>2, <3>1, Entered DEF KeeperTicks
        <3>12. Control'
            BY <1>20, <2>2, <3>1, Entered DEF KeeperTicks
        <3>13. Counted'
            BY <1>20, <2>2, <3>1, Entered DEF KeeperTicks
        <3>14. Permitted'
            BY <1>20, <2>2, <3>1, Entered DEF KeeperTicks
        <3>15. Knowledge'
            BY <1>20, <2>2, <3>1, Entered DEF KeeperTicks
        <3>16. Reasons'
            BY <1>20, <2>2, <3>1, Entered DEF KeeperTicks
        <3> QED BY <3>11, <3>12, <3>13, <3>14, <3>15, <3>16
    <2> QED BY <2>1, <2>2
<1>21. ASSUME KeeperRenewed PROVE Inv'
    BY <1>21 DEF KeeperRenewed
<1>22. ASSUME KeeperReadsSettled PROVE Inv'
    BY <1>22 DEF KeeperReadsSettled
<1>23. ASSUME KeeperReadsSettling PROVE Inv'
    BY <1>23 DEF KeeperReadsSettling
<1>24. ASSUME UNCHANGED vars PROVE Inv'
    BY <1>24 DEF vars
<1> QED
    BY <1>1, <1>2, <1>3, <1>4, <1>5, <1>6, <1>7, <1>8, <1>9, <1>10, <1>11, <1>12, <1>13, <1>14, <1>15, <1>16, <1>17, <1>18, <1>19, <1>20, <1>21, <1>22, <1>23, <1>24
    DEF Next, Respond, SettleStep, Dispatching, Keeping, Returned

LEMMA InvInit == Init => Inv
<1> SUFFICES ASSUME Init PROVE Inv
    OBVIOUS
<1>1. NoReq \in Req
    BY DispatchAssumption DEF NoReq, Req, SettleOps, Answers
<1>2. TypeOK
    <2>1. lease \in {"held", "none"} /\ kpc \in {"select", "finished"}
        BY DEF Init
    <2>2. settling \in 0..1 /\ calls \in 0..MaxCalls
        BY DispatchAssumption DEF Init
    <2>3. req \in [Procs -> Req]
        BY <1>1 DEF Init
    <2> QED BY <2>1, <2>2, <2>3 DEF Init, TypeOK
<1>3. Control /\ Counted /\ Permitted /\ Knowledge /\ Reasons
    BY DEF Init, Control, Counted, Permitted, Knowledge, Reasons, w, k, NoReq, Procs, Final
<1> QED BY <1>2, <1>3 DEF Inv

\* Every reachable state of dispatch satisfies the inductive invariant.
LEMMA InvHolds == Spec => []Inv
BY InvInit, InvStep, PTL DEF Spec

-----------------------------------------------------------------------------

\* dispatch, settleFrom and keepLease keep every value within its type; in
\* particular an ack or nack never leaves settling above one or below zero.
THEOREM TypeCorrect == Spec => []TypeOK
<1>1. Inv => TypeOK
    BY DEF Inv
<1> QED BY <1>1, InvHolds, PTL

\* No renewal runs while the consumer settles the message, nor after it
\* (consume.go, dispatch and stop).
THEOREM SettlesAlone == Spec => []QuietAtSettle
<1>1. Inv => QuietAtSettle
    BY DEF Inv, Control, QuietAtSettle
<1> QED BY <1>1, InvHolds, PTL

\* The keeper cancels a handler only over a lease the broker no longer holds
\* (consume.go, keepLease).
THEOREM CancelsTruthfully == Spec => []CancelsOnlyLostLeases
<1>1. Inv => CancelsOnlyLostLeases
    BY DEF Inv, Knowledge, CancelsOnlyLostLeases
<1> QED BY <1>1, InvHolds, PTL

\* A message the client calls settled has no lease left at the broker
\* (message.go, settleFrom).
THEOREM SettledSpent == Spec => []SettledIsSpent
<1>1. Inv => SettledIsSpent
    BY DEF Inv, Knowledge, SettledIsSpent
<1> QED BY <1>1, InvHolds, PTL

\* A message whose handler succeeded is acked, or its redelivery is reported,
\* or an ack of it may have landed (consume.go, dispatch; message.go, Ack).
THEOREM NeverSilent == Spec => []NoSilentRedelivery
<1>1. Inv => NoSilentRedelivery
    BY DEF Inv, Reasons, Control, Allowed, NoSilentRedelivery
<1> QED BY <1>1, InvHolds, PTL

-----------------------------------------------------------------------------

\* A request the broker processes, now or late, ends the lease only as the
\* abstract delivery allows.
LEMMA AppliedIsPromised ==
    ASSUME NEW o \in SettleOps, o \in Final => Allowed(o), lease' = applied(o),
           UNCHANGED <<verdict, asked>>
    PROVE  [Promise!Next]_(Promise!vars)
BY DEF applied, Allowed, SettleOps, Final, Promise!Next, Promise!vars, Promise!Acked,
       Promise!Requeued

LEMMA StepIsPromised ==
    ASSUME Inv, [Next]_vars
    PROVE  [Promise!Next]_(Promise!vars)
<1> USE DEF Promise!vars
<1>1. ASSUME NEW p \in Procs, Respond(p) PROVE [Promise!Next]_(Promise!vars)
    <2>1. req[p].op \in SettleOps /\ (req[p].op \in Final => Allowed(req[p].op))
        <3>1. CASE p = "worker"
            BY <1>1, <3>1 DEF Inv, TypeOK, Req, Procs, Permitted, w, Respond,
                              Answered, Unsure, TurnedDown
        <3>2. CASE p = "keeper"
            BY <3>2 DEF Inv, Control, k, SettleOps, Final
        <3> QED BY <3>1, <3>2 DEF Procs
    <2>2. UNCHANGED <<verdict, asked>>
        BY <1>1 DEF Respond, workVars
    <2>3. lease' = applied(req[p].op) \/ lease' = lease
        BY <1>1 DEF Respond, Answered, Unsure, TurnedDown
    <2> QED BY <2>1, <2>2, <2>3, AppliedIsPromised
<1>2. ASSUME NEW o \in SettleOps, Land(o) PROVE [Promise!Next]_(Promise!vars)
    <2>1. o \in Final => Allowed(o)
        BY <1>2 DEF Inv, Permitted, Land
    <2> QED BY <1>2, <2>1, AppliedIsPromised DEF Land, workVars
<1>3. ASSUME NEW p \in Procs, SettleStep(p) PROVE [Promise!Next]_(Promise!vars)
    BY <1>3 DEF SettleStep, workVars
<1>4. ASSUME NEW o \in SettleOps, HandlerCalls(o) PROVE [Promise!Next]_(Promise!vars)
    BY <1>4 DEF HandlerCalls, Inv, Control, SettleOps, Promise!Next, Promise!Ask
<1>5. ASSUME NEW v \in {"ok", "err"}, HandlerReturns(v)
      PROVE  [Promise!Next]_(Promise!vars)
    BY <1>5 DEF HandlerReturns, Inv, Control, Promise!Next, Promise!HandlerReturns
<1>6. CASE Lapse
    BY <1>6 DEF Lapse, workVars, Promise!Next, Promise!Lapsed
<1>7. CASE StopWork \/ Dispatching \/ KeeperStops \/ Keeping \/ Returned \/ UNCHANGED vars
    BY <1>7 DEF StopWork, Dispatching, LostMidHandler, HandlerFailed, AckIt,
                NothingToSettle, SettleReturned, KeeperStops, Keeping, KeeperTicks,
                KeeperRenewed, KeeperReadsSettled, KeeperReadsSettling, Returned,
                vars, workVars
<1> QED BY <1>1, <1>2, <1>3, <1>4, <1>5, <1>6, <1>7 DEF Next

\* dispatch delivers as Consume promises: whatever the network loses, delays or
\* repeats, the broker acks a message only after its handler succeeded or asked
\* for it, and takes it back early only if the handler asked for it, or failed
\* and WithoutRequeue was not given.
THEOREM DispatchDelivers == Spec => DeliversAsPromised
<1>1. Init => Promise!Init
    BY DEF Init, Promise!Init
<1>2. Inv /\ [Next]_vars => [Promise!Next]_(Promise!vars)
    BY StepIsPromised
<1> QED BY <1>1, <1>2, InvHolds, PTL DEF Spec, DeliversAsPromised, Promise!Spec

-----------------------------------------------------------------------------
\* How far the run of settleFrom by p, the keeper, and dispatch itself once the
\* handler has returned, are from their end.

ahead(p) ==
    CASE req[p].at = "none"   -> 0
      [] req[p].at = "leave"  -> 1
      [] req[p].at = "mark"   -> 2
      [] req[p].at = "answer" -> 2 * (Attempts - req[p].attempt) + 1
      [] req[p].at = "send"   -> 2 * (Attempts - req[p].attempt) + 2

keeperAhead ==
    CASE kpc = "finished"     -> 0
      [] kpc = "select"       -> 1
      [] kpc = "readSettling" -> 2
      [] kpc = "readSettled"  -> 3
      [] kpc = "extend"       -> 4 + ahead("keeper")

dispatchAhead ==
    CASE wpc = "handler"  -> 0
      [] wpc = "stopping" -> 2 * Attempts + 4 + keeperAhead
      [] wpc = "settle"   -> 1 + ahead("worker")
      [] wpc = "done"     -> 0

\* What worker and keeper do by themselves once the handler has returned, a tick
\* excepted, and what the broker answers them.
Finishing ==
    \/ \E p \in Procs : Respond(p) \/ SettleStep(p)
    \/ Dispatching \/ KeeperStops \/ KeeperRenewed \/ KeeperReadsSettled \/ KeeperReadsSettling

\* Each of these steps brings the end nearer, and only a select that prefers a
\* tick to the closed done takes it farther away.
WindsDown ==
    [][wpc # "handler" =>
          /\ Finishing => dispatchAhead' < dispatchAhead
          /\ dispatchAhead' > dispatchAhead => kpc = "select" /\ done]_vars

WindDownBounded == dispatchAhead \in 0..(4 * Attempts + 10)

LEMMA AheadBounds ==
    ASSUME TypeOK, NEW p \in Procs
    PROVE  ahead(p) \in 0..(2 * Attempts + 2) /\ (req[p].at # "none" => ahead(p) > 0)
<1>1. /\ req[p].at \in {"none", "send", "answer", "mark", "leave"}
      /\ req[p].attempt \in 0..(Attempts - 1)
    BY DEF TypeOK, Req
<1>2. Attempts \in Nat \ {0}
    BY DispatchAssumption
<1> QED BY <1>1, <1>2 DEF ahead

\* A step of a settle brings its return nearer.
LEMMA RequestAdvances ==
    ASSUME Inv, NEW p \in Procs, Respond(p) \/ SettleStep(p)
    PROVE  /\ req[p].at # "none" /\ ahead(p)' < ahead(p) /\ ahead(p)' \in Nat
           /\ UNCHANGED <<wpc, kpc>>
<1>1. /\ req \in [Procs -> Req] /\ Attempts \in Nat \ {0}
      /\ req[p] \in Req /\ req[p].attempt \in 0..(Attempts - 1)
    BY DispatchAssumption DEF Inv, TypeOK, Req
<1>2. UNCHANGED <<wpc, kpc>>
    BY DEF Respond, SettleStep, keepVars, workVars
<1>3. CASE Respond(p)
    <2>1. req[p].at = "send" /\ req'[p].at = "answer" /\ req'[p].attempt = req[p].attempt
        BY <1>1, <1>3 DEF Respond, Answered, Unsure, TurnedDown, Req
    <2>2. /\ ahead(p) = 2 * (Attempts - req[p].attempt) + 2
          /\ ahead(p)' = 2 * (Attempts - req[p].attempt) + 1
        BY <2>1 DEF ahead
    <2> QED BY <1>1, <1>2, <2>1, <2>2
<1>4. CASE SettleStep(p) /\ Resend(p)
    <2>1. /\ req[p].at = "answer" /\ req'[p].at = "send"
          /\ req'[p].attempt = req[p].attempt + 1 /\ req[p].attempt < Attempts - 1
        BY <1>1, <1>4 DEF Resend, retryable, Req
    <2>2. /\ ahead(p) = 2 * (Attempts - req[p].attempt) + 1
          /\ ahead(p)' = 2 * (Attempts - (req[p].attempt + 1)) + 2
        BY <2>1 DEF ahead
    <2> QED BY <1>1, <1>2, <2>1, <2>2
<1>5. CASE SettleStep(p) /\ (Accept(p) \/ Reject(p))
    <2>1. req[p].at = "answer" /\ req'[p].at \in {"mark", "leave"}
        BY <1>1, <1>5 DEF Accept, Reject, Req
    <2>2. /\ ahead(p) = 2 * (Attempts - req[p].attempt) + 1
          /\ ahead(p)' \in {1, 2}
        BY <2>1 DEF ahead
    <2> QED BY <1>1, <1>2, <2>1, <2>2
<1>6. CASE SettleStep(p) /\ Mark(p)
    <2>1. req[p].at = "mark" /\ req'[p].at = "leave"
        BY <1>1, <1>6 DEF Mark, Req
    <2> QED BY <1>2, <2>1 DEF ahead
<1>7. CASE SettleStep(p) /\ Leave(p)
    <2>1. req[p].at = "leave" /\ req'[p].at = "none"
        BY <1>7, Left DEF Leave, Inv
    <2> QED BY <1>2, <2>1 DEF ahead
<1> QED BY <1>3, <1>4, <1>5, <1>6, <1>7 DEF SettleStep

\* And so does a step of the keeper's, a tick excepted.
LEMMA KeeperAdvances ==
    ASSUME Inv, KeeperStops \/ KeeperRenewed \/ KeeperReadsSettled \/ KeeperReadsSettling
    PROVE  keeperAhead' < keeperAhead /\ keeperAhead' \in Nat /\ wpc' = wpc
<1>1. ahead("keeper") \in Nat
    BY AheadBounds, DispatchAssumption DEF Inv, Procs
<1> QED BY <1>1 DEF KeeperStops, KeeperRenewed, KeeperReadsSettled, KeeperReadsSettling,
                    keeperAhead, workVars

\* The worker waits for nobody but the keeper and the broker.
LEMMA WorkerAdvances ==
    ASSUME Inv, Dispatching
    PROVE  dispatchAhead' < dispatchAhead /\ dispatchAhead' \in Nat
<1>1. /\ ahead("worker") \in Nat /\ Attempts \in Nat \ {0}
      /\ req \in [Procs -> Req] /\ "worker" \in Procs
    BY AheadBounds, DispatchAssumption DEF Inv, TypeOK, Procs
<1>2. CASE wpc = "stopping" /\ kpc = "finished" /\ wpc' = "done"
    BY <1>1, <1>2 DEF dispatchAhead, keeperAhead
<1>3. CASE wpc = "settle" /\ wpc' = "done"
    BY <1>1, <1>3 DEF dispatchAhead
<1>4. CASE /\ wpc = "stopping" /\ kpc = "finished" /\ wpc' = "settle"
           /\ \E o \in Final : Begin("worker", o)
    <2>1. req'["worker"].at = "send" /\ req'["worker"].attempt = 0
        BY <1>1, <1>4 DEF Begin, NoReq
    <2> QED BY <1>1, <1>4, <2>1 DEF dispatchAhead, keeperAhead, ahead
<1> QED BY <1>2, <1>3, <1>4
        DEF Dispatching, LostMidHandler, HandlerFailed, AckIt, NothingToSettle,
            SettleReturned, stopped, Final

LEMMA AheadTypes ==
    ASSUME Inv
    PROVE  /\ dispatchAhead \in 0..(4 * Attempts + 10)
           /\ keeperAhead \in Nat /\ Attempts \in Nat
           /\ \A p \in Procs : ahead(p) \in Nat
BY AheadBounds, DispatchAssumption DEF Inv, TypeOK, dispatchAhead, keeperAhead, Procs

LEMMA FinishingAdvances ==
    ASSUME Inv, wpc # "handler", Finishing
    PROVE  dispatchAhead' < dispatchAhead
<1>1. CASE \E p \in Procs : Respond(p) \/ SettleStep(p)
    <2>1. PICK p \in Procs : Respond(p) \/ SettleStep(p)
        BY <1>1
    <2>2. /\ req[p].at # "none" /\ ahead(p)' < ahead(p) /\ ahead(p)' \in Nat
          /\ UNCHANGED <<wpc, kpc>>
        BY <2>1, RequestAdvances
    <2>3. \/ p = "worker" /\ wpc = "settle"
          \/ p = "keeper" /\ wpc = "stopping" /\ kpc = "extend"
        BY <2>2 DEF Inv, TypeOK, Control, w, k, Procs
    <2> QED BY <2>2, <2>3, AheadTypes DEF dispatchAhead, keeperAhead
<1>2. CASE KeeperStops \/ KeeperRenewed \/ KeeperReadsSettled \/ KeeperReadsSettling
    <2>1. keeperAhead' < keeperAhead /\ keeperAhead' \in Nat /\ wpc' = wpc
        BY <1>2, KeeperAdvances
    <2>2. wpc = "stopping"
        BY <1>2 DEF Inv, TypeOK, Control, KeeperStops, KeeperRenewed,
                    KeeperReadsSettled, KeeperReadsSettling
    <2> QED BY <2>1, <2>2, AheadTypes DEF dispatchAhead
<1>3. CASE Dispatching
    BY <1>3, WorkerAdvances
<1> QED BY <1>1, <1>2, <1>3 DEF Finishing

\* Once the handler has returned, dispatch is at most 4 * Attempts + 10 steps
\* from its end, and nothing but ticks that win against a closed done sends it
\* back: the worker, which waits for the keeper, and the keeper, which waits
\* for the broker, never wait for each other (dispatch, keepLease and stop).
THEOREM DispatchWindsDown == Spec => WindsDown /\ []WindDownBounded
<1>1. Inv /\ WindDownBounded' /\ [Next]_vars =>
        [wpc # "handler" =>
            /\ Finishing => dispatchAhead' < dispatchAhead
            /\ dispatchAhead' > dispatchAhead => kpc = "select" /\ done]_vars
    <2> SUFFICES ASSUME Inv, [Next]_vars, wpc # "handler", WindDownBounded'
                 PROVE  /\ Finishing => dispatchAhead' < dispatchAhead
                        /\ dispatchAhead' > dispatchAhead => kpc = "select" /\ done
        OBVIOUS
    <2>1. dispatchAhead \in Int /\ dispatchAhead' \in Int
        BY AheadTypes DEF WindDownBounded
    <2>2. CASE Finishing
        BY <2>1, <2>2, FinishingAdvances
    <2>3. CASE ~Finishing /\ KeeperTicks
        <3>1. kpc = "select" /\ done
            BY <2>3 DEF KeeperTicks, Inv, Control
        <3> QED BY <2>3, <3>1
    <2>4. CASE ~Finishing /\ ~KeeperTicks
        <3>1. (\E o \in SettleOps : Land(o)) \/ Lapse \/ StopWork \/ UNCHANGED vars
            BY <2>4 DEF Next, Finishing, Keeping, HandlerCalls, HandlerReturns, Returned
        <3>2. UNCHANGED <<wpc, kpc, req>>
            BY <3>1 DEF Land, Lapse, StopWork, vars, keepVars, workVars
        <3>3. dispatchAhead' = dispatchAhead
            BY <3>2 DEF dispatchAhead, keeperAhead, ahead
        <3> QED BY <2>1, <2>4, <3>3
    <2> QED BY <2>2, <2>3, <2>4
<1>2. Inv => WindDownBounded
    BY AheadTypes DEF WindDownBounded
<1> QED BY <1>1, <1>2, InvInit, InvStep, PTL DEF Spec, WindsDown

=============================================================================
