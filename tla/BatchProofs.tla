---------------------------- MODULE BatchProofs ----------------------------
(***************************************************************************)
(* Theorems about Batch, for any number of messages.                       *)
(*                                                                         *)
(* Inv follows each message through the hands it passes: not yet claimed,  *)
(* in the loop's hand, succeeded, taken by a sweep, and sent.  Delivered   *)
(* adds what its verdict was on the way.                                   *)
(***************************************************************************)
EXTENDS Batch, FiniteSetTheorems, TLAPS

Holding  == {"check", "handler", "judge", "handBack"}
Working  == {"check", "handler", "judge"}
Sweeping == {"sweep", "stopping", "done"}

\* Where a sweep has nothing in its hands, and where it has flushed.
Empty   == {"waiting", "flush", "unstarted", "over"}
Flushed == {"acks", "unstarted", "nacks", "over"}

isSent(m) == \E t \in sent : t[3] = m
work(s)   == sweep[s].todo \cup sweep[s].batch
all(c)    == c.left \cup c.ok \cup c.gone \cup c.failed
renewing  == call["renewer"].left \cup call["renewer"].gone \cup look
inHand(m) == lpc \in Holding /\ m = hand

\* Callback and loop never sweep at once.
Control ==
    /\ lpc \in Holding => next > 1
    /\ lpc \in Sweeping <=> sweep["loop"].at # "waiting"
    /\ lpc \in Sweeping => sweep["callback"].at = "over"
    /\ lpc \in {"stopping", "done"} => sweep["loop"].at = "over"
    /\ sweep["callback"].at # "waiting" => pollDone \/ lpc \in Sweeping
    /\ \A s \in Sweepers : sweep[s].at \in Empty => work(s) = {}

\* What a sweep has done once it is past it.
Swept ==
    /\ sweep["loop"].at \in {"nacks", "over"} => handedBack
    /\ sweep["callback"].at \in {"nacks", "over"} => handedBack \/ lpc \in Sweeping
    /\ sweep["loop"].at \in Flushed => succeeded = {}
    /\ sweep["callback"].at \in Flushed /\ lpc \in Holding => succeeded = {}

Rounds ==
    /\ rpc # "extending" => call["renewer"] = NoCall
    /\ call["renewer"] = NoCall \/ call["renewer"].op = "extend"
    /\ roundOver => look = {}

\* The settles in progress: a sweep's, the handler's, the loop's hand-back.
ofSweep(s) ==
    /\ sweep[s].at \in {"acks", "nacks"} /\ work(s) = {}
    /\ call[s].op = opOf(s)
    /\ \A m \in all(call[s]) : <<s, opOf(s), m>> \in sent
ofHandler ==
    /\ lpc = "handler"
    /\ call["loop"].op \in Final \cap asked[hand]
    /\ all(call["loop"]) \subseteq {hand}
ofHandBack ==
    /\ lpc = "handBack"
    /\ call["loop"].op = "nack"
    /\ \A m \in all(call["loop"]) : <<"loop", "nack", m>> \in sent
Calls ==
    /\ call["callback"] = NoCall \/ ofSweep("callback")
    /\ call["loop"] = NoCall \/ ofSweep("loop") \/ ofHandler \/ ofHandBack

\* A message is in one pair of hands at a time.
Apart ==
    /\ \A m \in succeeded : m < next /\ ~inHand(m) /\ ~isSent(m)
    /\ \A s \in Sweepers : \A m \in work(s) :
          (m < next \/ handedBack) /\ ~inHand(m) /\ ~isSent(m) /\ m \notin succeeded
    /\ \A m \in Messages : m >= next /\ ~handedBack => ~isSent(m)
    /\ lpc \in Working => ~isSent(hand)
    /\ \A t, u \in sent : t[3] = u[3] => t = u

\* What is about to be settled, or has been, is out of the renewer's reach.
Released == \A m \in Messages :
    (isSent(m) \/ \E s \in Sweepers : m \in sweep[s].batch) => m \notin held \cup renewing

\* No message falls between two hands.
accounted(m) ==
    \/ m \in settled \cup reported \cup gone \/ isSent(m)
    \/ m >= next /\ ~handedBack
    \/ lpc \in Working /\ m = hand
    \/ m \in succeeded
    \/ \E s \in Sweepers : m \in work(s)

Inv ==
    /\ TypeOK /\ Control /\ Swept /\ Rounds /\ Calls /\ Apart /\ Released
    /\ \A m \in Messages : accounted(m)

-----------------------------------------------------------------------------

LEMMA InitInv == Init => Inv
<1> SUFFICES ASSUME Init PROVE Inv
    OBVIOUS
<1> USE BatchAssumption DEF Init, NoSweep, NoCall, Sweepers
<1>1. TypeOK
    <2>1. NoCall \in Call /\ NoSweep \in Sweep
        BY DEF Call, Sweep
    <2>2. call \in [Procs -> Call] /\ sweep \in [Sweepers -> Sweep]
        BY <2>1
    <2>3. 1 \in 1..(N + 1) /\ 0 \in 0..MaxCalls
        OBVIOUS
    <2> QED BY <2>2, <2>3 DEF TypeOK
<1>2. Control /\ Swept /\ Rounds /\ Calls
    BY DEF Control, Swept, Rounds, Calls, Holding, Sweeping, Flushed, work, Procs
<1>3. Apart /\ Released
    BY DEF Apart, Released, isSent, inHand, Holding, Working, work
<1>4. \A m \in Messages : accounted(m)
    BY DEF accounted, Messages
<1> QED BY <1>1, <1>2, <1>3, <1>4 DEF Inv

LEMMA HandIsMessage == ASSUME TypeOK, Control, lpc \in Holding PROVE hand \in Messages
BY BatchAssumption DEF TypeOK, Control, hand, Messages

\* One answer of a settle.
LEMMA AnswerCall ==
    ASSUME TypeOK, NEW p \in Procs, NEW m \in Messages, NEW a \in Answers, answer(p, m, a)
    PROVE  /\ call' \in [Procs -> Call]
           /\ \A q \in Procs \ {p} : call'[q] = call[q]
           /\ call'[p].op = call[p].op
           /\ call'[p].left = call[p].left \ {m}
           /\ call'[p].ok = IF a = "ok" THEN call[p].ok \cup {m} ELSE call[p].ok
           /\ call'[p].gone = IF a = "gone" THEN call[p].gone \cup {m} ELSE call[p].gone
           /\ call'[p].failed = IF a = "failed" THEN call[p].failed \cup {m} ELSE call[p].failed
<1> DEFINE c == [call[p] EXCEPT !.left = @ \ {m},
        !.ok = IF a = "ok" THEN @ \cup {m} ELSE @,
        !.gone = IF a = "gone" THEN @ \cup {m} ELSE @,
        !.failed = IF a = "failed" THEN @ \cup {m} ELSE @]
<1>1. call \in [Procs -> Call] /\ call[p] \in Call
    BY DEF TypeOK
<1>2. /\ c \in Call
      /\ c.op = call[p].op /\ c.left = call[p].left \ {m}
      /\ c.ok = IF a = "ok" THEN call[p].ok \cup {m} ELSE call[p].ok
      /\ c.gone = IF a = "gone" THEN call[p].gone \cup {m} ELSE call[p].gone
      /\ c.failed = IF a = "failed" THEN call[p].failed \cup {m} ELSE call[p].failed
    BY <1>1 DEF Call
<1>3. call' = [call EXCEPT ![p] = c]
    BY DEF answer
<1> HIDE DEF c
<1> QED BY <1>1, <1>2, <1>3

\* Steps of the broker, the contexts and the handler that leave every message in
\* the hands it is in.
LEMMA OutsideInv ==
    ASSUME Inv,
           Land \/ Lapse \/ Shutdown \/ StopWork \/ RenewerStops \/ HandlerSettled \/ Returned
    PROVE  Inv'
<1> USE DEF Inv
<1>1. UNCHANGED <<call, held, gone, look, done, succeeded, next, handedBack, lpc, verdict, asked,
                  calls, sweep, reported, sent>>
    BY DEF Land, Lapse, Shutdown, StopWork, RenewerStops, HandlerSettled, Returned, brokerVars,
           settleVars, renewVars, muVars, workVars, ctxVars, vars
<1>2. /\ pollDone => pollDone'
      /\ pollDone' \in BOOLEAN
      /\ rpc' = rpc \/ (rpc = "select" /\ rpc' = "finished")
    BY DEF Land, Lapse, Shutdown, StopWork, RenewerStops, HandlerSettled, Returned, brokerVars,
           settleVars, renewVars, muVars, workVars, ctxVars, vars, TypeOK
<1>3. settled \subseteq settled' /\ settled' \subseteq Messages
    BY HandIsMessage DEF Land, Lapse, Shutdown, StopWork, RenewerStops, HandlerSettled, Returned,
           brokerVars, settleVars, vars, TypeOK, Holding
<1>4. /\ lease' \in [Messages -> {"held", "acked", "requeued", "lapsed"}]
      /\ late' \subseteq Final \X Messages
    BY DEF Land, Lapse, Shutdown, StopWork, RenewerStops, HandlerSettled, Returned, brokerVars,
           settleVars, renewVars, muVars, workVars, ctxVars, vars, TypeOK, applied
<1>5. UNCHANGED <<doubt, settling>> /\ workDone' \in BOOLEAN
    BY DEF Land, Lapse, Shutdown, StopWork, RenewerStops, HandlerSettled, Returned, brokerVars,
           settleVars, renewVars, muVars, workVars, ctxVars, vars, TypeOK
<1>6. TypeOK'
    BY <1>1, <1>2, <1>3, <1>4, <1>5 DEF TypeOK
<1>7. Control' /\ Swept' /\ Rounds'
    BY <1>1, <1>2 DEF Control, Swept, Rounds, roundOver, work
<1>8. Calls'
    BY <1>1 DEF Calls, ofSweep, ofHandler, ofHandBack, hand, work, all, opOf
<1>9. Apart' /\ Released'
    BY <1>1 DEF Apart, Released, isSent, inHand, hand, work, renewing
<1>10. \A m \in Messages : accounted(m)'
    BY <1>1, <1>3 DEF accounted, isSent, work, hand
<1> QED BY <1>6, <1>7, <1>8, <1>9, <1>10

LEMMA RespondInv == ASSUME Inv, NEW p \in Procs, Respond(p) PROVE Inv'
<1> USE DEF Inv
<1>1. UNCHANGED <<settled, settling, held, gone, rpc, look, done, pollDone, workDone, succeeded,
                  next, handedBack, lpc, verdict, asked, calls, sweep, reported, sent>>
    BY DEF Respond, settleVars, renewVars, ctxVars, muVars, workVars
<1>2. PICK m \in call[p].left : Answered(p, m) \/ BenefitOfDoubt(p, m) \/ Errored(p, m)
    BY DEF Respond
<1>3. m \in Messages /\ call[p].op \in SettleOps \cup {"none"}
    BY DEF TypeOK, Call
<1>4. PICK a \in Answers : answer(p, m, a)
    BY <1>2 DEF Answered, BenefitOfDoubt, Errored, Answers
<1>5. /\ call' \in [Procs -> Call]
      /\ \A q \in Procs \ {p} : call'[q] = call[q]
      /\ call'[p].op = call[p].op
      /\ all(call'[p]) \subseteq all(call[p])
      /\ call'[p].left \cup call'[p].gone \subseteq call[p].left \cup call[p].gone
    <2>1. /\ call'[p].left = call[p].left \ {m}
          /\ call'[p].ok = IF a = "ok" THEN call[p].ok \cup {m} ELSE call[p].ok
          /\ call'[p].gone = IF a = "gone" THEN call[p].gone \cup {m} ELSE call[p].gone
          /\ call'[p].failed = IF a = "failed" THEN call[p].failed \cup {m} ELSE call[p].failed
        BY <1>3, <1>4, AnswerCall
    <2>2. m \in call[p].left
        OBVIOUS
    <2>3. all(call'[p]) \subseteq all(call[p])
        BY <2>1, <2>2, Zenon DEF all
    <2>4. call'[p].left \cup call'[p].gone \subseteq call[p].left \cup call[p].gone
        BY <2>1, <2>2
    <2> QED BY <1>3, <1>4, <2>3, <2>4, AnswerCall
<1>6. call[p] # NoCall
    BY <1>2 DEF NoCall
<1>7. TypeOK'
    <2>1. lease' \in [Messages -> {"held", "acked", "requeued", "lapsed"}]
        BY <1>2, <1>3 DEF Answered, BenefitOfDoubt, Errored, applied, TypeOK
    <2>2. late' \subseteq Final \X Messages /\ doubt' \subseteq Messages
        BY <1>2, <1>3 DEF Answered, BenefitOfDoubt, Errored, TypeOK
    <2> QED BY <1>1, <1>5, <2>1, <2>2 DEF TypeOK
<1>8. Control' /\ Swept'
    BY <1>1 DEF Control, Swept, work
<1>9. Rounds'
    BY <1>1, <1>5, <1>6 DEF Rounds, roundOver, Procs
<1>10. Calls'
    <2>1. CASE p = "callback"
        <3>1. ofSweep("callback")'
            BY <1>1, <1>5, <1>6, <2>1 DEF Calls, ofSweep, work, opOf
        <3>2. call'["loop"] = call["loop"]
            BY <1>5, <2>1 DEF Procs, Sweepers
        <3> QED BY <1>1, <3>1, <3>2 DEF Calls, ofSweep, ofHandler, ofHandBack, hand, work, opOf
    <2>2. CASE p = "loop"
        <3>1. call'["callback"] = call["callback"]
            BY <1>5, <2>2 DEF Procs, Sweepers
        <3> QED BY <1>1, <1>5, <1>6, <2>2, <3>1
                DEF Calls, ofSweep, ofHandler, ofHandBack, hand, work, opOf
    <2>3. CASE p = "renewer"
        <3>1. call'["callback"] = call["callback"] /\ call'["loop"] = call["loop"]
            BY <1>5, <2>3 DEF Procs, Sweepers
        <3> QED BY <1>1, <3>1 DEF Calls, ofSweep, ofHandler, ofHandBack, hand, work, opOf
    <2> QED BY <2>1, <2>2, <2>3 DEF Procs, Sweepers
<1>11. Apart'
    BY <1>1 DEF Apart, isSent, inHand, hand, work
<1>12. Released'
    <2>1. renewing' \subseteq renewing
        BY <1>1, <1>5 DEF renewing, Procs
    <2> QED BY <1>1, <2>1 DEF Released, isSent
<1>13. \A k \in Messages : accounted(k)'
    BY <1>1 DEF accounted, isSent, work, hand
<1> QED BY <1>7, <1>8, <1>9, <1>10, <1>11, <1>12, <1>13

LEMMA RenewerInv == ASSUME Inv, Renew \/ RenewerStep PROVE Inv'
<1> USE DEF Inv
<1>1. UNCHANGED <<lease, late, doubt, settled, settling, done, pollDone, workDone, succeeded,
                  next, handedBack, lpc, verdict, asked, calls, sweep, reported, sent>>
    BY DEF Renew, RenewerStep, Renewed, ReadSettled, ReadSettling, brokerVars, settleVars,
           ctxVars, muVars, workVars
<1>2. /\ call' \in [Procs -> Call]
      /\ call'["callback"] = call["callback"] /\ call'["loop"] = call["loop"]
    <2>1. call \in [Procs -> Call] /\ NoCall \in Call /\ Settle("extend", renewable) \in Call
        BY DEF TypeOK, Call, NoCall, Settle, SettleOps, renewable
    <2>2. UNCHANGED call \/ \E c \in Call : call' = [call EXCEPT !["renewer"] = c]
        BY <2>1 DEF Renew, RenewerStep, Renewed, ReadSettled, ReadSettling
    <2> QED BY <2>1, <2>2 DEF Procs, Sweepers
<1>3. /\ held' \subseteq held /\ gone \subseteq gone' /\ gone' \subseteq Messages
      /\ look' \subseteq Messages
      /\ rpc' \in {"select", "extending", "readSettled", "readSettling", "finished"}
    <2>1. CASE Renew
        BY <2>1 DEF Renew, TypeOK
    <2>2. CASE Renewed
        BY <2>2 DEF Renewed, TypeOK, lapsedOf, Call, Procs
    <2>3. CASE ReadSettled \/ ReadSettling
        BY <2>3 DEF ReadSettled, ReadSettling, LookOn, TypeOK
    <2> QED BY <2>1, <2>2, <2>3 DEF RenewerStep
<1>4. Rounds' /\ renewing' \subseteq renewing \cup held
    <2>1. CASE Renew
        <3>1. /\ call'["renewer"] = Settle("extend", renewable)
              /\ rpc' = "extending" /\ look' = look
            BY <2>1 DEF Renew, TypeOK, Procs
        <3>2. /\ call'["renewer"].op = "extend" /\ call'["renewer"].left = renewable
              /\ call'["renewer"].gone = {}
            BY <3>1 DEF Settle, NoCall
        <3> QED BY <3>1, <3>2 DEF Rounds, roundOver, renewing, renewable
    <2>2. CASE Renewed
        <3>1. call'["renewer"] = NoCall /\ look' = call["renewer"].gone
            BY <2>2 DEF Renewed, TypeOK, Procs, lapsedOf
        <3>2. call'["renewer"].op = "none" /\ call'["renewer"].left = {} /\ call'["renewer"].gone = {}
            BY <3>1 DEF NoCall
        <3> QED BY <2>2, <3>1, <3>2 DEF Renewed, Rounds, roundOver, renewing
    <2>3. CASE ReadSettled \/ ReadSettling
        BY <2>3 DEF ReadSettled, ReadSettling, LookOn, Rounds, roundOver, renewing
    <2> QED BY <2>1, <2>2, <2>3 DEF RenewerStep
<1>5. TypeOK'
    BY <1>1, <1>2, <1>3 DEF TypeOK
<1>6. Control' /\ Swept' /\ Calls'
    BY <1>1, <1>2 DEF Control, Swept, Calls, ofSweep, ofHandler, ofHandBack, hand, work, opOf
<1>7. Apart'
    BY <1>1 DEF Apart, isSent, inHand, hand, work
<1>8. Released'
    BY <1>1, <1>3, <1>4 DEF Released, isSent
<1>9. \A m \in Messages : accounted(m)'
    BY <1>1, <1>3 DEF accounted, isSent, work, hand
<1> QED BY <1>4, <1>5, <1>6, <1>7, <1>8, <1>9

-----------------------------------------------------------------------------
\* The loop.

\* A call of p is replaced by another.
LEMMA NewCall ==
    ASSUME TypeOK, NEW p \in Procs, NEW c \in Call, call' = [call EXCEPT ![p] = c]
    PROVE  /\ call' \in [Procs -> Call]
           /\ call'[p] = c
           /\ \A q \in Procs \ {p} : call'[q] = call[q]
BY DEF TypeOK

LEMMA NewLoopCall ==
    ASSUME TypeOK
    PROVE  /\ call \in [Procs -> Call]
           /\ \A c \in Call : call' = [call EXCEPT !["loop"] = c] =>
                  /\ call' \in [Procs -> Call] /\ call'["loop"] = c
                  /\ call'["callback"] = call["callback"] /\ call'["renewer"] = call["renewer"]
<1>1. call \in [Procs -> Call]
    BY DEF TypeOK
<1>2. "loop" \in Procs /\ {"callback", "renewer"} \subseteq Procs \ {"loop"}
    BY DEF Procs, Sweepers
<1> QED BY <1>1, <1>2

LEMMA SettleIsCall ==
    ASSUME NEW o \in SettleOps, NEW M \in SUBSET Messages
    PROVE  /\ NoCall \in Call /\ Settle(o, M) \in Call
           /\ Settle(o, M).op = o /\ Settle(o, M).left = M /\ all(Settle(o, M)) = M
BY DEF Call, NoCall, Settle, all

LEMMA ClaimInv == ASSUME Inv, Claim PROVE Inv'
<1> USE DEF Inv
<1>1. /\ UNCHANGED <<lease, late, doubt, settled, settling, call, held, gone, rpc, look, done,
                     pollDone, workDone, succeeded, handedBack, verdict, asked, calls, sweep,
                     reported, sent>>
      /\ lpc = "top"
    BY DEF Claim, brokerVars, settleVars, renewVars, ctxVars
<1>2. \/ next \in 1..N /\ ~handedBack /\ ~pollDone /\ next' = next + 1 /\ lpc' = "check"
      \/ next' = next /\ lpc' = "ended"
    BY DEF Claim, stopping, TypeOK
<1>3. TypeOK'
    BY <1>1, <1>2, BatchAssumption DEF TypeOK
<1>4. Control' /\ Swept' /\ Rounds'
    BY <1>1, <1>2 DEF Control, Swept, Rounds, roundOver, Holding, Sweeping, Flushed, work, TypeOK
<1>5. Calls'
    BY <1>1, <1>2 DEF Calls, ofSweep, ofHandler, ofHandBack, work, opOf
<1>6. Apart' /\ Released'
    <2>1. /\ \A m : isSent(m)' <=> isSent(m)
          /\ \A t : work(t)' = work(t)
          /\ renewing' = renewing
        BY <1>1 DEF isSent, work, renewing
    <2>2. next \in Nat /\ next' \in Nat /\ succeeded \subseteq Messages
        BY <1>2 DEF TypeOK
    <2>3. /\ lpc' \in Holding => hand' = next /\ ~handedBack /\ next \in Messages
          /\ \A m : inHand(m)' => m = next /\ ~handedBack
        <3>1. CASE next' = next + 1 /\ lpc' = "check" /\ ~handedBack /\ next \in 1..N
            <4>1. hand' = next
                BY <2>2, <3>1 DEF hand
            <4> QED BY <3>1, <4>1 DEF inHand, Messages
        <3>2. CASE lpc' = "ended"
            BY <3>2 DEF inHand, Holding
        <3> QED BY <1>2, <3>1, <3>2
    <2>4. \A s \in Sweepers : \A m \in work(s) : m \in Messages
        BY DEF TypeOK, Sweep, work
    <2>5. \A m \in Messages : m < next => m < next'
        BY <1>2, <2>2 DEF Messages
    <2>6. \A m \in Messages : m >= next' => m >= next
        BY <1>2, <2>2 DEF Messages
    <2>7. \A m \in succeeded : m < next /\ m < next' /\ ~inHand(m)' /\ ~isSent(m)'
        BY <2>1, <2>2, <2>3, <2>5 DEF Apart, Messages
    <2>8. \A s \in Sweepers : \A m \in work(s) :
              (m < next' \/ handedBack) /\ ~inHand(m)' /\ ~isSent(m)' /\ m \notin succeeded
        BY <2>1, <2>2, <2>3, <2>4, <2>5 DEF Apart, Messages
    <2>9. (lpc \in Working)' => ~isSent(hand)'
        BY <2>1, <2>2, <2>3 DEF Apart, Working, Holding
    <2> QED BY <1>1, <2>1, <2>6, <2>7, <2>8, <2>9 DEF Apart, Released
<1>7. \A m \in Messages : accounted(m)'
    BY <1>1, <1>2 DEF accounted, isSent, work, hand, Working, TypeOK, Messages
<1> QED BY <1>3, <1>4, <1>5, <1>6, <1>7

LEMMA HandlerStepInv ==
    ASSUME Inv,
           \/ LostBeforeStart \/ StartHandler \/ Succeeded
           \/ \E v \in {"ok", "err"} : HandlerReturns(v)
    PROVE  Inv'
<1> USE DEF Inv
<1>1. /\ UNCHANGED <<lease, late, doubt, settled, settling, call, held, gone, rpc, look, done,
                     pollDone, workDone, next, handedBack, asked, calls, sweep, sent>>
      /\ lpc \in Working
    BY DEF LostBeforeStart, StartHandler, Succeeded, HandlerReturns, brokerVars, settleVars,
       renewVars, ctxVars, muVars, Working
<1>2. hand \in Messages
    BY <1>1, HandIsMessage DEF Working, Holding
<1>3. call["loop"] = NoCall
    BY <1>1 DEF LostBeforeStart, StartHandler, Succeeded, HandlerReturns, idle, Calls, ofSweep,
       ofHandler, ofHandBack, Control, Sweeping, Final
<1>4. \/ lpc' = "top" /\ reported' = reported \cup {hand} /\ succeeded' = succeeded
      \/ lpc' = "top" /\ reported' = reported /\ succeeded' = succeeded \cup {hand}
      \/ lpc' \in {"handler", "judge"} /\ reported' = reported /\ succeeded' = succeeded
    BY DEF LostBeforeStart, StartHandler, Succeeded, HandlerReturns, muVars
<1>5. verdict' \in [Messages -> {"unstarted", "running", "ok", "err"}]
    BY <1>2 DEF LostBeforeStart, StartHandler, Succeeded, HandlerReturns, TypeOK
<1>6. TypeOK'
    BY <1>1, <1>2, <1>4, <1>5 DEF TypeOK
<1>7. Control' /\ Swept' /\ Rounds'
    BY <1>1, <1>4 DEF Control, Swept, Rounds, roundOver, Holding, Working, Sweeping, Flushed, work
<1>8. Calls'
    BY <1>1, <1>3 DEF Calls, ofSweep, work, opOf
<1>9. Apart' /\ Released'
    <2>1. /\ \A m : isSent(m)' <=> isSent(m)
          /\ \A t : work(t)' = work(t)
          /\ renewing' = renewing /\ hand' = hand
        BY <1>1 DEF isSent, work, renewing, hand
    <2>2. /\ \A m : inHand(m)' => inHand(m) /\ lpc' \in Working
          /\ lpc' \in Working => succeeded' = succeeded
          /\ hand < next
        BY <1>1, <1>4, <2>1 DEF inHand, Holding, Working, hand, TypeOK
    <2>3. \A s \in Sweepers : hand \notin work(s)
        BY <1>1 DEF Apart, inHand, Holding, Working
    <2>4. \A m \in succeeded' : m < next /\ ~inHand(m)' /\ ~isSent(m)
        BY <1>1, <1>4, <2>1, <2>2 DEF Apart, inHand, Working, Holding
    <2> QED BY <1>1, <1>4, <2>1, <2>2, <2>3, <2>4 DEF Apart, Released
<1>10. \A m \in Messages : accounted(m)'
    BY <1>1, <1>4 DEF accounted, isSent, work, hand, Working
<1> QED BY <1>6, <1>7, <1>8, <1>9, <1>10

LEMMA HandlerCallInv ==
    ASSUME Inv, HandlerCallEnds \/ \E o \in Final : HandlerCalls(o)
    PROVE  Inv'
<1> USE DEF Inv
<1>1. /\ UNCHANGED <<lease, late, doubt, settled, held, gone, rpc, look, done, pollDone, workDone,
                     succeeded, next, handedBack, lpc, verdict, sweep, reported, sent>>
      /\ lpc = "handler"
    BY DEF HandlerCallEnds, HandlerCalls, brokerVars, settleVars, renewVars, ctxVars, muVars,
       workVars
<1>2. hand \in Messages
    BY <1>1, HandIsMessage DEF Holding
<1>3. \A o \in Final : Settle(o, {hand}) \in Call /\ Settle(o, {hand}).op = o
                       /\ all(Settle(o, {hand})) = {hand}
    BY <1>2, SettleIsCall DEF Final, SettleOps
<1>4. /\ \/ call' = [call EXCEPT !["loop"] = NoCall] /\ UNCHANGED <<asked, calls>>
         \/ \E o \in Final :
               /\ call' = [call EXCEPT !["loop"] = Settle(o, {hand})]
               /\ asked' = [asked EXCEPT ![hand] = @ \cup {o}]
               /\ calls < MaxCalls /\ calls' = calls + 1
      /\ settling' \subseteq settling \cup {hand}
    BY <1>1 DEF HandlerCallEnds, HandlerCalls, workVars, Final
<1>5. /\ call' \in [Procs -> Call]
      /\ call'["callback"] = call["callback"] /\ call'["renewer"] = call["renewer"]
      /\ call'["loop"] = NoCall
         \/ \E o \in Final : call'["loop"] = Settle(o, {hand}) /\ o \in asked'[hand]
    <2>1. NoCall \in Call
        BY DEF NoCall, Call
    <2>2. asked \in [Messages -> SUBSET SettleOps]
        BY DEF TypeOK
    <2>3. CASE call' = [call EXCEPT !["loop"] = NoCall]
        BY <2>1, <2>3, NewLoopCall
    <2>4. ASSUME NEW o \in Final, call' = [call EXCEPT !["loop"] = Settle(o, {hand})],
                 asked' = [asked EXCEPT ![hand] = @ \cup {o}]
          PROVE  /\ call' \in [Procs -> Call]
                 /\ call'["callback"] = call["callback"] /\ call'["renewer"] = call["renewer"]
                 /\ \E q \in Final : call'["loop"] = Settle(q, {hand}) /\ q \in asked'[hand]
        <3>1. o \in asked'[hand]
            BY <1>2, <2>2, <2>4
        <3> QED BY <1>3, <2>4, <3>1, NewLoopCall
    <2> QED BY <1>4, <2>3, <2>4
<1>6. asked' \in [Messages -> SUBSET SettleOps] /\ calls' \in 0..MaxCalls
    BY <1>2, <1>4, BatchAssumption DEF TypeOK, Final, SettleOps
<1>7. TypeOK'
    BY <1>1, <1>2, <1>4, <1>5, <1>6 DEF TypeOK
<1>8. Control' /\ Swept' /\ Rounds'
    BY <1>1, <1>5 DEF Control, Swept, Rounds, roundOver, work
<1>9. Calls'
    <2>1. hand' = hand
        BY <1>1 DEF hand
    <2>2. call'["loop"] = NoCall \/ ofHandler'
        BY <1>1, <1>3, <1>5, <2>1 DEF ofHandler, all
    <2>3. call'["callback"] = NoCall \/ ofSweep("callback")'
        BY <1>1, <1>5 DEF Calls, ofSweep, work, opOf
    <2> QED BY <2>2, <2>3 DEF Calls
<1>10. Apart' /\ Released'
    BY <1>1, <1>5 DEF Apart, Released, isSent, inHand, hand, work, renewing
<1>11. \A m \in Messages : accounted(m)'
    BY <1>1 DEF accounted, isSent, work, hand
<1> QED BY <1>7, <1>8, <1>9, <1>10, <1>11

\* release waits for the round in progress: nothing is being renewed.
LEMMA RoundOver == ASSUME Inv, roundOver PROVE renewing = {}
BY DEF Inv, Rounds, roundOver, renewing, NoCall

LEMMA ReleaseHandInv == ASSUME Inv, SettledByHandler \/ HandlerFailed PROVE Inv'
<1> USE DEF Inv
<1>1. /\ UNCHANGED <<lease, late, doubt, settled, settling, gone, rpc, look, done, pollDone,
                     workDone, succeeded, next, handedBack, verdict, asked, calls, sweep>>
      /\ lpc = "judge" /\ roundOver /\ held' = held \ {hand}
    BY DEF SettledByHandler, HandlerFailed, releaseHand, brokerVars, settleVars, ctxVars, muVars
<1>2. hand \in Messages /\ hand < next /\ hand' = hand
    BY <1>1, HandIsMessage DEF Holding, hand, TypeOK
<1>3. call["loop"] = NoCall
    BY <1>1 DEF Calls, ofSweep, ofHandler, ofHandBack, Control, Sweeping
<1>4. renewing = {}
    BY <1>1, RoundOver
<1>5. \/ /\ lpc' = "top" /\ UNCHANGED <<call, sent>>
         /\ \/ reported' = reported /\ hand \in settled
            \/ reported' = reported \cup {hand}
      \/ /\ lpc' = "handBack" /\ reported' = reported \cup {hand}
         /\ call' = [call EXCEPT !["loop"] = Settle("nack", {hand})]
         /\ sent' = sent \cup {<<"loop", "nack", hand>>}
    BY DEF SettledByHandler, HandlerFailed
<1>6. /\ call' \in [Procs -> Call]
      /\ call'["callback"] = call["callback"] /\ call'["renewer"] = call["renewer"]
      /\ \/ call'["loop"] = NoCall
         \/ /\ call'["loop"] = Settle("nack", {hand}) /\ lpc' = "handBack"
            /\ <<"loop", "nack", hand>> \in sent'
    <2>1. Settle("nack", {hand}) \in Call
        BY <1>2, SettleIsCall DEF SettleOps
    <2> QED BY <1>3, <1>5, <2>1, NewLoopCall
<1>7. /\ sent \subseteq sent'
      /\ sent' \subseteq Sweepers \X Final \X Messages
      /\ \A m : isSent(m)' => isSent(m) \/ (m = hand /\ lpc' = "handBack")
      /\ \A m : isSent(m) => isSent(m)'
    BY <1>2, <1>5 DEF TypeOK, Sweepers, Final, isSent
<1>8. TypeOK'
    BY <1>1, <1>2, <1>5, <1>6, <1>7 DEF TypeOK
<1>9. Control' /\ Swept' /\ Rounds'
    BY <1>1, <1>5, <1>6 DEF Control, Swept, Rounds, roundOver, Holding, Sweeping, Flushed, work
<1>10. Calls'
    <2>1. call'["loop"] = NoCall \/ ofHandBack'
        BY <1>2, <1>6, SettleIsCall DEF ofHandBack, SettleOps
    <2>2. call'["callback"] = NoCall \/ ofSweep("callback")'
        BY <1>1, <1>6, <1>7 DEF Calls, ofSweep, work, opOf
    <2> QED BY <2>1, <2>2 DEF Calls
<1>11. ~isSent(hand) /\ hand \notin succeeded /\ \A s \in Sweepers : hand \notin work(s)
    BY <1>1 DEF Apart, Working, Holding, inHand
<1>12. Apart'
    <2>1. \A t, u \in sent' : t[3] = u[3] => t = u
        BY <1>5, <1>11 DEF Apart, isSent
    <2>2. \A s : work(s)' = work(s)
        BY <1>1 DEF work
    <2>3. /\ \A m : inHand(m)' => inHand(m)
          /\ lpc' \notin Working
        BY <1>1, <1>2, <1>5 DEF inHand, Holding, Working
    <2>4. hand < next'
        BY <1>1, <1>2
    <2>5. \A m \in Messages : m >= next' /\ ~handedBack' => ~isSent(m)'
        BY <1>1, <1>2, <1>7 DEF Apart, Messages, TypeOK
    <2> QED BY <1>1, <1>7, <1>11, <2>1, <2>2, <2>3, <2>5 DEF Apart
<1>13. Released'
    <2>1. renewing' = {}
        BY <1>1, <1>4, <1>6 DEF renewing
    <2> QED BY <1>1, <1>7, <2>1 DEF Released
<1>14. \A m \in Messages : accounted(m)'
    BY <1>1, <1>2, <1>5, <1>7 DEF accounted, work
<1> QED BY <1>8, <1>9, <1>10, <1>12, <1>13, <1>14

LEMMA LoopEndsInv ==
    ASSUME Inv, HandedBack \/ EndLoop \/ StopLeases \/ Return PROVE Inv'
<1> USE DEF Inv
<1>1. UNCHANGED <<lease, late, doubt, settling, held, gone, rpc, look, pollDone, workDone,
                  succeeded, next, handedBack, verdict, asked, calls, reported, sent>>
    BY DEF HandedBack, EndLoop, StopLeases, Return, brokerVars, settleVars, renewVars, ctxVars,
       muVars
<1>2. settled \subseteq settled' /\ settled' \subseteq Messages /\ done' \in BOOLEAN
    BY DEF HandedBack, EndLoop, StopLeases, Return, settleVars, renewVars, TypeOK, Call, Procs,
       Sweepers
<1>3. \/ /\ lpc = "handBack" /\ lpc' = "top" /\ sweep' = sweep
         /\ call' = [call EXCEPT !["loop"] = NoCall]
      \/ /\ lpc = "ended" /\ lpc' = "sweep" /\ call' = call
         /\ sweep["callback"].at \in {"waiting", "over"}
         /\ sweep' = [sweep EXCEPT !["callback"].at = "over", !["loop"].at = "flush"]
      \/ /\ lpc = "sweep" /\ sweep["loop"].at = "over" /\ lpc' = "stopping" /\ sweep' = sweep
         /\ call' = call
      \/ lpc = "stopping" /\ lpc' = "done" /\ sweep' = sweep /\ call' = call
    BY DEF HandedBack, EndLoop, StopLeases, Return
<1>4. /\ call' \in [Procs -> Call]
      /\ call'["callback"] = call["callback"] /\ call'["renewer"] = call["renewer"]
      /\ call'["loop"] = NoCall \/ (call' = call /\ lpc # "handBack")
    <2>1. NoCall \in Call
        BY DEF NoCall, Call
    <2> QED BY <1>3, <2>1, NewLoopCall
<1>5. /\ sweep' \in [Sweepers -> Sweep]
      /\ \A s \in Sweepers : work(s)' = work(s) /\ sweep'[s].batch = sweep[s].batch
      /\ \/ sweep' = sweep /\ lpc' # "sweep"
         \/ /\ lpc' = "sweep" /\ sweep'["loop"].at = "flush" /\ sweep'["callback"].at = "over"
            /\ sweep["loop"].at = "waiting" /\ sweep["callback"].at \in {"waiting", "over"}
    <2>1. sweep \in [Sweepers -> Sweep]
        BY DEF TypeOK
    <2>2. CASE sweep' = sweep /\ lpc' # "sweep"
        BY <2>1, <2>2 DEF work
    <2>3. CASE lpc = "ended" /\ lpc' = "sweep" /\ sweep["callback"].at \in {"waiting", "over"}
               /\ sweep' = [sweep EXCEPT !["callback"].at = "over", !["loop"].at = "flush"]
        <3>1. sweep' \in [Sweepers -> Sweep]
            BY <2>1, <2>3 DEF Sweep, Sweepers
        <3>2. \A s \in Sweepers : sweep'[s].todo = sweep[s].todo /\ sweep'[s].batch = sweep[s].batch
            BY <2>1, <2>3 DEF Sweep, Sweepers
        <3>3. sweep'["loop"].at = "flush" /\ sweep'["callback"].at = "over"
            BY <2>1, <2>3 DEF Sweep, Sweepers
        <3>4. sweep["loop"].at = "waiting"
            BY <2>3 DEF Control, Sweeping
        <3> QED BY <2>3, <3>1, <3>2, <3>3, <3>4 DEF work
    <2> QED BY <1>3, <2>2, <2>3
<1>6. TypeOK'
    BY <1>1, <1>2, <1>3, <1>4, <1>5 DEF TypeOK
<1>7. Control' /\ Swept'
    <2>1. CASE lpc' # "sweep"
        <3>1. /\ sweep' = sweep
              /\ lpc' \in Sweeping <=> lpc \in Sweeping
              /\ lpc' \notin Holding
              /\ lpc' \in {"stopping", "done"} => sweep["loop"].at = "over"
            BY <1>3, <1>5, <2>1 DEF Sweeping, Holding, Control
        <3> QED BY <1>1, <2>1, <3>1 DEF Control, Swept, work
    <2>2. CASE lpc' = "sweep"
        <3>1. \A s \in Sweepers : sweep[s].at \in Empty /\ work(s) = {}
            BY <1>3, <1>5, <2>2 DEF Control, Empty, Sweepers, Sweeping
        <3>2. Control'
            BY <1>5, <2>2, <3>1 DEF Control, Holding, Sweeping
        <3>3. Swept'
            BY <1>5, <2>2 DEF Swept, Holding, Sweeping, Flushed
        <3> QED BY <3>2, <3>3
    <2> QED BY <2>1, <2>2
<1>8. Rounds'
    BY <1>1, <1>4 DEF Rounds, roundOver
<1>9. Calls'
    BY <1>1, <1>3, <1>4, <1>5 DEF Calls, ofSweep, ofHandler, ofHandBack, Sweepers, opOf, hand,
       Control, Sweeping
<1>10. Apart'
    <2>1. \A m : inHand(m)' => inHand(m)
        BY <1>1, <1>3 DEF inHand, Holding, hand
    <2>2. lpc' \notin Working
        BY <1>3 DEF Working
    <2> QED BY <1>1, <1>5, <2>1, <2>2 DEF Apart, isSent
<1>11. Released'
    BY <1>1, <1>4, <1>5 DEF Released, isSent, renewing
<1>12. \A m \in Messages : accounted(m)'
    BY <1>1, <1>2, <1>3, <1>5 DEF accounted, isSent, Working
<1> QED BY <1>6, <1>7, <1>8, <1>9, <1>10, <1>11, <1>12

-----------------------------------------------------------------------------
\* The sweeps.

LEMMA CallbackStartsInv == ASSUME Inv, CallbackStarts PROVE Inv'
<1> USE DEF Inv
<1>1. /\ UNCHANGED <<lease, late, doubt, settled, settling, call, held, gone, rpc, look, done,
                     pollDone, workDone, succeeded, next, handedBack, lpc, verdict, asked, calls,
                     reported, sent>>
      /\ pollDone /\ sweep["callback"].at = "waiting"
      /\ sweep' = [sweep EXCEPT !["callback"].at = "flush"]
    BY DEF CallbackStarts, brokerVars, settleVars, renewVars, ctxVars, muVars, workVars
<1>2. /\ sweep' \in [Sweepers -> Sweep]
      /\ \A s \in Sweepers : work(s)' = work(s) /\ sweep'[s].batch = sweep[s].batch
      /\ sweep'["callback"].at = "flush" /\ sweep'["loop"] = sweep["loop"]
    BY <1>1 DEF TypeOK, Sweep, Sweepers, work
<1>3. TypeOK'
    BY <1>1, <1>2 DEF TypeOK
<1>4. Control' /\ Swept' /\ Rounds'
    BY <1>1, <1>2 DEF Control, Swept, Rounds, roundOver, Sweepers, Sweeping, Flushed, Empty
<1>5. Calls'
    BY <1>1, <1>2 DEF Calls, ofSweep, ofHandler, ofHandBack, Sweepers, opOf, hand
<1>6. Apart' /\ Released'
    BY <1>1, <1>2 DEF Apart, Released, isSent, inHand, hand, renewing
<1>7. \A m \in Messages : accounted(m)'
    BY <1>1, <1>2 DEF accounted, isSent, hand
<1> QED BY <1>3, <1>4, <1>5, <1>6, <1>7

\* A step of s's sweep leaves the other's alone.
LEMMA SweepApart ==
    ASSUME Inv, NEW s \in Sweepers, sweep[s].at \notin {"waiting", "over"}
    PROVE  /\ s = "callback" => sweep["loop"].at = "waiting" /\ lpc \notin Sweeping /\ pollDone
           /\ s = "loop" => sweep["callback"].at = "over" /\ lpc = "sweep"
           /\ \A r \in Sweepers \ {s} : work(r) = {}
BY DEF Inv, Control, Sweepers, Sweeping, Empty, TypeOK

LEMMA TakeInv == ASSUME Inv, NEW s \in Sweepers, Take(s) PROVE Inv'
<1> USE DEF Inv
<1>1. UNCHANGED <<lease, late, doubt, settled, settling, call, held, gone, rpc, look, done,
                  pollDone, workDone, next, lpc, verdict, asked, calls, reported, sent>>
    BY DEF Take, TakeSucceeded, TakeUnstarted, brokerVars, settleVars, renewVars, ctxVars, workVars
<1> DEFINE taken == IF sweep[s].at = "flush" THEN succeeded
                    ELSE IF handedBack THEN {} ELSE next..N
           then  == IF sweep[s].at = "flush" THEN "acks" ELSE "nacks"
<1>2. /\ sweep[s].at \in {"flush", "unstarted"} /\ work(s) = {}
      /\ sweep' = [sweep EXCEPT ![s].at = then, ![s].todo = taken]
      /\ sweep[s].at = "flush" => succeeded' = {} /\ handedBack' = handedBack
      /\ sweep[s].at = "unstarted" => succeeded' = succeeded /\ handedBack'
      /\ handedBack => handedBack'
      /\ handedBack' \in BOOLEAN
    BY DEF Take, TakeSucceeded, TakeUnstarted, Control, Empty, TypeOK
<1>3. /\ s = "callback" => sweep["loop"].at = "waiting" /\ lpc \notin Sweeping /\ pollDone
      /\ s = "loop" => sweep["callback"].at = "over" /\ lpc = "sweep"
      /\ \A r \in Sweepers \ {s} : work(r) = {}
    BY <1>2, SweepApart
<1>4. taken \subseteq Messages
    BY BatchAssumption DEF TypeOK, Messages
<1>5. /\ sweep' \in [Sweepers -> Sweep]
      /\ sweep'[s].at = then
      /\ sweep'[s].todo = taken /\ sweep'[s].batch = {}
      /\ \A r \in Sweepers \ {s} : sweep'[r] = sweep[r]
    <2> HIDE DEF taken
    <2> QED BY <1>2, <1>4 DEF TypeOK, Sweep, work
<1>6. /\ work(s)' = taken
      /\ \A r \in Sweepers \ {s} : work(r)' = {}
    BY <1>3, <1>5 DEF work
<1>7. TypeOK'
    BY <1>1, <1>2, <1>5 DEF TypeOK
<1>8. Control'
    BY <1>1, <1>2, <1>3, <1>5, <1>6 DEF Control, Sweepers, Sweeping, Empty
<1>9. Swept' /\ Rounds'
    BY <1>1, <1>2, <1>3, <1>5 DEF Swept, Rounds, roundOver, Sweepers, Sweeping, Flushed
<1>10. call[s] = NoCall
    BY <1>2, <1>3 DEF Calls, ofSweep, ofHandler, ofHandBack, Sweepers
<1>11. Calls'
    BY <1>1, <1>2, <1>3, <1>5, <1>10 DEF Calls, ofSweep, ofHandler, ofHandBack, Sweepers, hand,
       opOf, work
<1>12. \A m \in taken :
          (m < next \/ handedBack') /\ ~inHand(m) /\ ~isSent(m) /\ m \notin succeeded'
    <2>1. CASE sweep[s].at = "flush"
        BY <1>2, <2>1 DEF Apart
    <2>2. CASE sweep[s].at = "unstarted"
        <3>1. SUFFICES ASSUME NEW m \in next..N, ~handedBack
                       PROVE  ~inHand(m) /\ ~isSent(m) /\ m \notin succeeded
            BY <1>2, <2>2
        <3>2. m \in Messages /\ m >= next /\ ~(m < next) /\ m # hand
            BY BatchAssumption DEF TypeOK, Messages, hand
        <3> QED BY <3>1, <3>2 DEF Apart, inHand
    <2> QED BY <1>2, <2>1, <2>2
<1>13. Apart'
    <2>1. /\ succeeded' \subseteq succeeded
          /\ \A m : isSent(m)' <=> isSent(m)
          /\ \A m : inHand(m)' <=> inHand(m)
          /\ hand' = hand
        BY <1>1, <1>2 DEF isSent, inHand, hand
    <2> HIDE DEF taken
    <2> QED BY <1>1, <1>2, <1>6, <1>12, <2>1 DEF Apart
<1>14. Released'
    <2> HIDE DEF taken
    <2> QED BY <1>1, <1>5 DEF Released, isSent, renewing
<1>15. \A m \in Messages : accounted(m)'
    <2>1. \A m \in Messages : m \in succeeded => m \in succeeded' \/ m \in taken
        BY <1>2
    <2>2. \A m \in Messages : m >= next /\ ~handedBack => (m >= next /\ ~handedBack') \/ m \in taken
        BY <1>2, BatchAssumption DEF Messages, TypeOK
    <2>3. \A r \in Sweepers : work(r) = {}
        BY <1>2, <1>3
    <2> HIDE DEF taken
    <2> QED BY <1>1, <1>6, <2>1, <2>2, <2>3 DEF accounted, isSent, hand
<1> QED BY <1>7, <1>8, <1>9, <1>11, <1>13, <1>14, <1>15

LEMMA ReleaseInv == ASSUME Inv, NEW s \in Sweepers, Release(s) PROVE Inv'
<1> USE DEF Inv
<1>1. UNCHANGED <<lease, late, doubt, settled, settling, call, gone, rpc, look, done, pollDone,
                  workDone, succeeded, next, handedBack, lpc, verdict, asked, calls, sent>>
    BY DEF Release, brokerVars, settleVars, ctxVars, muVars, workVars
<1>2. PICK m \in Messages :
          /\ m \in sweep[s].todo
          /\ held' = held \ {m}
          /\ sweep' = [sweep EXCEPT ![s].todo = @ \ {m},
                                    ![s].batch = IF m \in gone THEN @ ELSE @ \cup {m}]
          /\ reported' = reported \/ reported' = reported \cup {m}
    BY DEF Release, first, reportedLost
<1>3. renewing = {} /\ roundOver
    BY RoundOver DEF Release
<1>4. /\ sweep' \in [Sweepers -> Sweep]
      /\ sweep'[s].at = sweep[s].at
      /\ sweep'[s].todo = sweep[s].todo \ {m}
      /\ sweep'[s].batch = IF m \in gone THEN sweep[s].batch ELSE sweep[s].batch \cup {m}
      /\ \A r \in Sweepers \ {s} : sweep'[r] = sweep[r]
    BY <1>2 DEF TypeOK, Sweep
<1>5. /\ \A r \in Sweepers : work(r)' \subseteq work(r) /\ sweep'[r].at = sweep[r].at
      /\ \A r \in Sweepers : \A k \in work(r) : k \in work(r)' \/ (k = m /\ m \in gone)
    <2>1. work(s)' \subseteq work(s)
        BY <1>2, <1>4 DEF work
    <2>2. \A k \in work(s) : k \in work(s)' \/ (k = m /\ m \in gone)
        BY <1>2, <1>4 DEF work
    <2> QED BY <1>4, <2>1, <2>2 DEF work
<1>6. TypeOK'
    BY <1>1, <1>2, <1>4 DEF TypeOK
<1>7. Control' /\ Swept' /\ Rounds'
    BY <1>1, <1>5 DEF Control, Swept, Rounds, roundOver, Sweepers
<1>8. Calls'
    BY <1>1, <1>5 DEF Calls, ofSweep, ofHandler, ofHandBack, Sweepers, hand, opOf
<1>9. Apart'
    BY <1>1, <1>5 DEF Apart, isSent, inHand, hand
<1>10. Released'
    <2>1. renewing' = {}
        BY <1>1, <1>3 DEF renewing
    <2>2. \A r \in Sweepers : \A k \in sweep'[r].batch : k \in sweep[r].batch \/ k = m
        BY <1>4
    <2> QED BY <1>1, <1>2, <2>1, <2>2 DEF Released, isSent
<1>11. \A k \in Messages : accounted(k)'
    BY <1>1, <1>2, <1>5 DEF accounted, isSent, hand
<1> QED BY <1>6, <1>7, <1>8, <1>9, <1>10, <1>11

LEMMA SettleBatchInv == ASSUME Inv, NEW s \in Sweepers, SettleBatch(s) PROVE Inv'
<1> USE DEF Inv
<1>1. UNCHANGED <<lease, late, doubt, settled, settling, held, gone, rpc, look, done, pollDone,
                  workDone, succeeded, next, handedBack, lpc, verdict, asked, calls, reported>>
    BY DEF SettleBatch, brokerVars, settleVars, renewVars, ctxVars, muVars, workVars
<1> DEFINE M == sweep[s].batch
           o == opOf(s)
<1>2. /\ M # {} /\ work(s) = M /\ M \subseteq Messages /\ o \in Final
      /\ call' = [call EXCEPT ![s] = Settle(o, M)]
      /\ sent' = sent \cup ({s} \X {o} \X M)
      /\ sweep' = [sweep EXCEPT ![s].batch = {}]
      /\ sweep[s].todo = {}
    BY DEF SettleBatch, work, opOf, Final, TypeOK, Sweep
<1>3. sweep[s].at \in {"acks", "nacks"}
    BY <1>2 DEF Control, Empty, TypeOK, Sweep
<1>4. /\ s = "callback" => sweep["loop"].at = "waiting" /\ lpc \notin Sweeping /\ pollDone
      /\ s = "loop" => sweep["callback"].at = "over" /\ lpc = "sweep"
      /\ \A r \in Sweepers \ {s} : work(r) = {}
    BY <1>3, SweepApart
<1>5. /\ sweep' \in [Sweepers -> Sweep]
      /\ sweep'[s].at = sweep[s].at /\ sweep'[s].batch = {} /\ work(s)' = {}
      /\ \A r \in Sweepers \ {s} : sweep'[r] = sweep[r]
      /\ opOf(s)' = o
    BY <1>2 DEF TypeOK, Sweep, work, opOf
<1>6. /\ call' \in [Procs -> Call]
      /\ call'[s].op = o /\ all(call'[s]) = M
      /\ \A q \in Procs \ {s} : call'[q] = call[q]
    <2>1. s \in Procs /\ o \in SettleOps
        BY <1>2 DEF Procs, Final, SettleOps
    <2>2. /\ Settle(o, M) \in Call
          /\ Settle(o, M).op = o /\ all(Settle(o, M)) = M
        BY <1>2, <2>1, SettleIsCall
    <2> HIDE DEF o, M
    <2> QED BY <1>2, <2>1, <2>2, NewCall
<1> HIDE DEF o, M
<1>7. /\ \A m : isSent(m)' <=> isSent(m) \/ m \in M
      /\ \A m \in M : <<s, o, m>> \in sent'
      /\ sent' \subseteq Sweepers \X Final \X Messages
    <2>1. \A t : t \in sent' <=> t \in sent \/ \E m \in M : t = <<s, o, m>>
        BY <1>2
    <2>2. \A m \in M : <<s, o, m>> \in sent' /\ <<s, o, m>>[3] = m
        BY <2>1
    <2>3. ASSUME NEW m PROVE isSent(m)' <=> isSent(m) \/ m \in M
        BY <2>1, <2>2 DEF isSent
    <2>4. sent' \subseteq Sweepers \X Final \X Messages
        BY <1>2, <2>1 DEF TypeOK
    <2> QED BY <2>2, <2>3, <2>4
<1>8. TypeOK'
    BY <1>1, <1>5, <1>6, <1>7 DEF TypeOK
<1>9. Control' /\ Swept'
    <2>1. \A r \in Sweepers : sweep'[r].at = sweep[r].at /\ (work(r) = {} => work(r)' = {})
        BY <1>5 DEF work
    <2> QED BY <1>1, <2>1 DEF Control, Swept, Sweepers
<1>10. Rounds'
    BY <1>1, <1>6 DEF Rounds, roundOver, Procs, Sweepers
<1>11. Calls'
    <2>1. ofSweep(s)'
        BY <1>3, <1>5, <1>6, <1>7 DEF ofSweep
    <2>2. CASE s = "callback"
        <3>1. call'["loop"] = call["loop"] /\ sweep'["loop"] = sweep["loop"]
            BY <1>5, <1>6, <2>2 DEF Procs, Sweepers
        <3> QED BY <1>1, <1>2, <2>1, <2>2, <3>1
                DEF Calls, ofSweep, ofHandler, ofHandBack, hand, work, opOf
    <2>3. CASE s = "loop"
        <3>1. call'["callback"] = call["callback"] /\ sweep["callback"].at = "over"
            BY <1>4, <1>6, <2>3 DEF Procs, Sweepers
        <3>2. call["callback"] = NoCall
            BY <3>1 DEF Calls, ofSweep
        <3> QED BY <2>1, <2>3, <3>1, <3>2 DEF Calls
    <2> QED BY <2>2, <2>3 DEF Sweepers
<1>12. \A m \in M : /\ m < next \/ handedBack
                    /\ ~inHand(m) /\ ~isSent(m) /\ m \notin succeeded /\ m \in Messages
    BY <1>2 DEF Apart
<1>13. Apart'
    <2>1. hand' = hand /\ \A m : inHand(m)' <=> inHand(m)
        BY <1>1 DEF inHand, hand
    <2>2. \A r \in Sweepers : work(r)' = {}
        BY <1>4, <1>5 DEF work
    <2>3. \A t, u \in sent' : t[3] = u[3] => t = u
        BY <1>2, <1>12 DEF Apart, isSent
    <2>4. lpc \in Working => hand \notin M
        BY <1>12 DEF inHand, Working, Holding
    <2>5. \A m \in Messages : m >= next /\ ~handedBack => m \notin M
        BY <1>12 DEF Messages, TypeOK
    <2> QED BY <1>1, <1>7, <1>12, <2>1, <2>2, <2>3, <2>4, <2>5 DEF Apart
<1>14. Released'
    <2>1. renewing' = renewing
        BY <1>1, <1>6 DEF renewing, Procs, Sweepers
    <2>2. \A r \in Sweepers : sweep'[r].batch \subseteq sweep[r].batch
        BY <1>5
    <2>3. \A m \in M : \E r \in Sweepers : m \in sweep[r].batch
        BY DEF M
    <2> QED BY <1>1, <1>7, <2>1, <2>2, <2>3 DEF Released
<1>15. \A m \in Messages : accounted(m)'
    BY <1>1, <1>2, <1>4, <1>7 DEF accounted, hand
<1> QED BY <1>8, <1>9, <1>10, <1>11, <1>13, <1>14, <1>15

LEMMA BatchSettledInv == ASSUME Inv, NEW s \in Sweepers, BatchSettled(s) PROVE Inv'
<1> USE DEF Inv
<1>1. /\ UNCHANGED <<lease, late, doubt, settling, held, gone, rpc, look, done, pollDone,
                     workDone, succeeded, next, handedBack, lpc, verdict, asked, calls, sent>>
      /\ sweep[s].at \in {"acks", "nacks"} /\ work(s) = {}
    BY DEF BatchSettled, renewVars, ctxVars, brokerVars, muVars, workVars, work
<1>2. /\ settled \subseteq settled' /\ settled' \subseteq Messages
      /\ reported \subseteq reported' /\ reported' \subseteq Messages
    BY DEF BatchSettled, TypeOK, Call, Procs
<1>3. /\ s = "callback" => sweep["loop"].at = "waiting" /\ lpc \notin Sweeping /\ pollDone
      /\ s = "loop" => sweep["callback"].at = "over" /\ lpc = "sweep"
      /\ \A r \in Sweepers \ {s} : work(r) = {}
    BY <1>1, SweepApart
<1>4. /\ sweep' \in [Sweepers -> Sweep]
      /\ sweep'[s].at = IF sweep[s].at = "acks" THEN "unstarted" ELSE "over"
      /\ sweep'[s].todo = sweep[s].todo /\ sweep'[s].batch = sweep[s].batch
      /\ \A r \in Sweepers \ {s} : sweep'[r] = sweep[r]
    BY DEF BatchSettled, TypeOK, Sweep
<1>5. /\ call' \in [Procs -> Call]
      /\ call'[s] = NoCall
      /\ \A q \in Procs \ {s} : call'[q] = call[q]
    <2>1. NoCall \in Call /\ s \in Procs
        BY DEF NoCall, Call, Procs
    <2> QED BY <2>1, NewCall DEF BatchSettled
<1>6. \A r \in Sweepers : work(r)' = {} /\ work(r) = {} /\ sweep'[r].batch = {}
    BY <1>1, <1>3, <1>4 DEF work
<1>7. TypeOK'
    BY <1>1, <1>2, <1>4, <1>5 DEF TypeOK
<1>8. Control'
    BY <1>1, <1>3, <1>4, <1>6 DEF Control, Sweepers, Sweeping, Empty
<1>9. Swept' /\ Rounds'
    BY <1>1, <1>3, <1>4, <1>5 DEF Swept, Rounds, roundOver, Sweepers, Sweeping, Flushed, Procs
<1>10. Calls'
    <2>1. CASE s = "callback"
        <3>1. call'["loop"] = call["loop"] /\ sweep'["loop"] = sweep["loop"]
            BY <1>4, <1>5, <2>1 DEF Procs, Sweepers
        <3> QED BY <1>1, <1>5, <2>1, <3>1
                DEF Calls, ofSweep, ofHandler, ofHandBack, hand, work, opOf
    <2>2. CASE s = "loop"
        <3>1. call'["callback"] = call["callback"] /\ sweep["callback"].at = "over"
            BY <1>3, <1>5, <2>2 DEF Procs, Sweepers
        <3>2. call["callback"] = NoCall
            BY <3>1 DEF Calls, ofSweep
        <3> QED BY <1>5, <2>2, <3>1, <3>2 DEF Calls
    <2> QED BY <2>1, <2>2 DEF Sweepers
<1>11. Apart'
    BY <1>1, <1>6 DEF Apart, isSent, inHand, hand
<1>12. Released'
    <2>1. renewing' = renewing
        BY <1>1, <1>5 DEF renewing, Procs, Sweepers
    <2> QED BY <1>1, <1>6, <2>1 DEF Released, isSent
<1>13. \A m \in Messages : accounted(m)'
    BY <1>1, <1>2, <1>6 DEF accounted, isSent, hand
<1> QED BY <1>7, <1>8, <1>9, <1>10, <1>11, <1>12, <1>13

-----------------------------------------------------------------------------

LEMMA StepInv == Inv /\ [Next]_vars => Inv'
<1> SUFFICES ASSUME Inv, [Next]_vars PROVE Inv'
    OBVIOUS
<1>1. CASE \E p \in Procs : Respond(p)
    BY <1>1, RespondInv
<1>2. CASE \E s \in Sweepers : SweepStep(s)
    BY <1>2, TakeInv, ReleaseInv, SettleBatchInv, BatchSettledInv DEF SweepStep
<1>3. CASE HandlerCallEnds \/ \E o \in Final : HandlerCalls(o)
    BY <1>3, HandlerCallInv
<1>4. CASE (\E v \in {"ok", "err"} : HandlerReturns(v)) \/ LostBeforeStart \/ StartHandler
           \/ Succeeded
    BY <1>4, HandlerStepInv
<1>5. CASE Claim \/ SettledByHandler \/ HandlerFailed \/ HandedBack \/ EndLoop \/ StopLeases
           \/ Return
    BY <1>5, ClaimInv, ReleaseHandInv, LoopEndsInv
<1>6. CASE Renew \/ RenewerStep
    BY <1>6, RenewerInv
<1>7. CASE Land \/ Lapse \/ Shutdown \/ StopWork \/ RenewerStops \/ HandlerSettled \/ Returned
    BY <1>7, OutsideInv
<1>8. CASE CallbackStarts
    BY <1>8, CallbackStartsInv
<1>9. CASE UNCHANGED vars
    <2>1. UNCHANGED <<lease, late, doubt, settled, settling, call, held, gone, rpc, look, done,
                      pollDone, workDone, succeeded, next, handedBack, lpc, verdict, asked, calls,
                      sweep, reported, sent>>
        BY <1>9 DEF vars, brokerVars, settleVars, renewVars, ctxVars, muVars, workVars
    <2>2. TypeOK' /\ Control' /\ Swept' /\ Rounds'
        BY <2>1 DEF Inv, TypeOK, Control, Swept, Rounds, roundOver, work
    <2>3. Calls'
        BY <2>1 DEF Inv, Calls, ofSweep, ofHandler, ofHandBack, hand, work, all, opOf
    <2>4. Apart' /\ Released'
        BY <2>1 DEF Inv, Apart, Released, isSent, inHand, hand, work, renewing
    <2>5. \A m \in Messages : accounted(m)'
        BY <2>1 DEF Inv, accounted, isSent, work, hand
    <2> QED BY <2>2, <2>3, <2>4, <2>5 DEF Inv
<1> QED BY <1>1, <1>2, <1>3, <1>4, <1>5, <1>6, <1>7, <1>8, <1>9 DEF Next, LoopStep

LEMMA InvHolds == Spec => []Inv
BY InitInv, StepInv, PTL DEF Spec

\* Type correctness (consume_batch.go, dispatchBatch and batchLeases): every
\* variable keeps its range, whatever the number of messages.
THEOREM TypeCorrect == Spec => []TypeOK
<1>1. Inv => TypeOK
    BY DEF Inv
<1> QED BY <1>1, InvHolds, PTL

\* The consumer settles a message at most once, whichever goroutine gets to it
\* (dispatchBatch, flush and handBackUnstarted).
THEOREM OnceSettled == Spec => []SettlesOnce
<1>1. ASSUME Inv, NEW m \in Messages PROVE Cardinality({t \in sent : t[3] = m}) <= 1
    <2>1. CASE {t \in sent : t[3] = m} = {}
        BY <2>1, FS_EmptySet
    <2>2. CASE \E u \in sent : u[3] = m
        <3>1. PICK u \in sent : u[3] = m
            BY <2>2
        <3>2. {t \in sent : t[3] = m} = {u}
            BY <1>1, <3>1 DEF Inv, Apart
        <3> QED BY <3>2, FS_Singleton
    <2> QED BY <2>1, <2>2
<1>2. Inv => \A s \in Sweepers : \A m \in sweep[s].batch : \A t \in sent : t[3] # m
    BY DEF Inv, Apart, isSent, work
<1>3. Inv => SettlesOnce
    BY <1>1, <1>2 DEF SettlesOnce
<1> QED BY <1>3, InvHolds, PTL

\* A message being settled by the consumer is not being renewed (release).
THEOREM RenewalQuiet == Spec => []QuietAtSettle
<1>1. ASSUME Inv, NEW s \in Sweepers, NEW m \in Messages, m \in call[s].left,
             s = "loop" => lpc # "handler"
      PROVE  m \notin held \cup call["renewer"].left \cup look
    <2>1. m \in all(call[s]) /\ call[s] # NoCall
        BY <1>1 DEF all, NoCall
    <2>2. isSent(m)
        <3>1. ofSweep(s) \/ (s = "loop" /\ ofHandBack)
            BY <1>1, <2>1 DEF Inv, Calls, ofHandler, Sweepers
        <3>2. \E p, o : <<p, o, m>> \in sent
            BY <2>1, <3>1 DEF ofSweep, ofHandBack
        <3> QED BY <3>2 DEF isSent
    <2> QED BY <1>1, <2>2 DEF Inv, Released, renewing
<1>2. Inv => QuietAtSettle
    BY <1>1 DEF QuietAtSettle
<1> QED BY <1>2, InvHolds, PTL

\* When dispatchBatch returns, no message of the batch has been forgotten.
THEOREM EveryMessageAccounted == Spec => []NothingForgotten
<1>1. ASSUME Inv, lpc = "done"
      PROVE  settled \cup {t[3] : t \in sent} \cup reported \cup gone = Messages
    <2>1. succeeded = {} /\ handedBack /\ \A s \in Sweepers : work(s) = {}
        BY <1>1 DEF Inv, Control, Swept, Sweeping, Flushed, Empty, Sweepers
    <2>2. \A m \in Messages : m \in settled \cup reported \cup gone \/ isSent(m)
        BY <1>1, <2>1 DEF Inv, accounted, Working
    <2>3. settled \cup {t[3] : t \in sent} \cup reported \cup gone \subseteq Messages
        BY <1>1 DEF Inv, TypeOK
    <2> QED BY <2>2, <2>3 DEF isSent
<1>2. Inv => NothingForgotten
    BY <1>1 DEF NothingForgotten
<1> QED BY <1>2, InvHolds, PTL

\* A handler abandoned at the end of the grace period costs only its own
\* message, once the callback is over (WithBatch).
THEOREM AbandonmentContained == Spec => []AbandonedCostsItsOwn
<1>1. ASSUME Inv, sweep["callback"].at = "over", lpc \in Holding
      PROVE  Messages \ {hand} \subseteq settled \cup {t[3] : t \in sent} \cup reported \cup gone
    <2>1. lpc \notin Sweeping /\ sweep["loop"].at = "waiting"
        BY <1>1 DEF Inv, Control, Holding, Sweeping, TypeOK, Sweep, Sweepers
    <2>2. succeeded = {} /\ handedBack /\ \A s \in Sweepers : work(s) = {}
        BY <1>1, <2>1 DEF Inv, Control, Swept, Flushed, Empty, Sweepers
    <2>3. \A m \in Messages \ {hand} : m \in settled \cup reported \cup gone \/ isSent(m)
        BY <1>1, <2>2 DEF Inv, accounted
    <2> QED BY <2>3 DEF isSent
<1>2. Inv => AbandonedCostsItsOwn
    BY <1>1 DEF AbandonedCostsItsOwn, Holding
<1> QED BY <1>2, InvHolds, PTL

-----------------------------------------------------------------------------
\* The second layer: what the verdicts were on the way.

\* Where a message is tells its verdict, and so does what was sent for it.
Judged ==
    /\ \A m \in Messages : m >= next => verdict[m] = "unstarted"
    /\ \A m \in Messages : verdict[m] = "unstarted" => asked[m] = {}
    /\ lpc = "check" => verdict[hand] = "unstarted"
    /\ lpc = "handler" => verdict[hand] = "running"
    /\ \A m \in succeeded : verdict[m] = "ok"
    /\ \A s \in Sweepers : \A m \in work(s) :
          verdict[m] = IF sweep[s].at = "acks" THEN "ok" ELSE "unstarted"
    /\ \A t \in sent : t[2] = "ack" => verdict[t[3]] = "ok"
    /\ \A t \in sent : t[2] = "nack" =>
          verdict[t[3]] = "unstarted" \/ (Requeue /\ verdict[t[3]] = "err")

\* The broker carries out what somebody asked of it.
requested(o, m) == o \in asked[m] \/ \E s \in Sweepers : <<s, o, m>> \in sent
Wanted ==
    /\ \A o \in Final, m \in Messages : <<o, m>> \in late => requested(o, m)
    /\ \A m \in Messages : lease[m] = "requeued" => requested("nack", m)

\* An ack that was answered is at the broker, or is in doubt.
acked(m) == lease[m] = "acked" \/ m \in doubt
Acked ==
    /\ \A m \in settled : requested("nack", m) \/ acked(m)
    /\ \A p \in Procs : call[p].op = "ack" => \A m \in call[p].ok : acked(m)

\* A success waits for its ack until it is settled or reported.
acking(s, m) == sweep[s].at = "acks" /\ m \in work(s) \cup all(call[s])
Pending == \A m \in Messages : verdict[m] = "ok" =>
    \/ m \in settled \cup reported \cup succeeded
    \/ lpc = "judge" /\ m = hand
    \/ \E s \in Sweepers : acking(s, m)

LEMMA InitJudged == Init => Judged /\ Wanted /\ Acked /\ Pending
<1> SUFFICES ASSUME Init PROVE Judged /\ Wanted /\ Acked /\ Pending
    OBVIOUS
<1> USE DEF Init
<1>1. \A s \in Sweepers : work(s) = {}
    BY DEF work, NoSweep
<1>2. Judged
    BY <1>1 DEF Judged
<1>3. Wanted /\ Pending
    BY DEF Wanted, Pending
<1>4. Acked
    BY DEF Acked, NoCall
<1> QED BY <1>2, <1>3, <1>4

LEMMA JudgedLoop ==
    ASSUME Inv, Judged,
           \/ LoopStep \/ \E o \in Final : HandlerCalls(o)
           \/ \E v \in {"ok", "err"} : HandlerReturns(v)
    PROVE  Judged'
<1> USE DEF Inv
<1>1. CASE Claim
    <2>1. UNCHANGED <<succeeded, verdict, asked, sweep, sent>>
        BY <1>1 DEF Claim, workVars
    <2>2. /\ \A m \in Messages : m >= next' => m >= next
          /\ lpc' = "check" => hand' = next /\ next \in Messages
          /\ lpc' # "handler"
        BY <1>1 DEF Claim, TypeOK, Messages, hand
    <2>3. \A s : work(s)' = work(s)
        BY <2>1 DEF work
    <2>4. lpc' = "check" => verdict'[hand'] = "unstarted"
        BY <2>1, <2>2, BatchAssumption DEF Judged, TypeOK, Messages
    <2> QED BY <2>1, <2>2, <2>3, <2>4 DEF Judged
<1>2. CASE LostBeforeStart \/ SettledByHandler \/ HandedBack \/ StopLeases \/ Return
    <2>1. /\ UNCHANGED <<next, succeeded, verdict, asked, sweep, sent>>
          /\ lpc' \notin {"check", "handler"}
        BY <1>2 DEF LostBeforeStart, SettledByHandler, HandedBack, StopLeases, Return, muVars
    <2> QED BY <2>1 DEF Judged, work
<1>3. CASE EndLoop
    <2>1. /\ UNCHANGED <<next, succeeded, verdict, asked, sent>>
          /\ lpc' \notin {"check", "handler"}
          /\ \A s \in Sweepers : work(s) = {}
          /\ sweep' = [sweep EXCEPT !["callback"].at = "over", !["loop"].at = "flush"]
        BY <1>3 DEF EndLoop, muVars, Control, Sweeping, Empty, Sweepers
    <2>2. \A s \in Sweepers : work(s)' = {}
        BY <2>1 DEF work, TypeOK, Sweep, Sweepers
    <2> QED BY <2>1, <2>2 DEF Judged
<1>4. CASE HandlerFailed
    <2>1. /\ UNCHANGED <<next, succeeded, verdict, asked, sweep>>
          /\ lpc' \notin {"check", "handler"}
          /\ verdict[hand] = "err"
          /\ sent' = sent \/ (Requeue /\ sent' = sent \cup {<<"loop", "nack", hand>>})
        BY <1>4 DEF HandlerFailed, muVars
    <2>2. \A t \in sent' : t \in sent \/ (t[2] = "nack" /\ verdict[t[3]] = "err" /\ Requeue)
        BY <2>1
    <2> QED BY <2>1, <2>2 DEF Judged, work
<1>5. CASE Succeeded
    <2>1. /\ UNCHANGED <<next, verdict, asked, sweep, sent>>
          /\ lpc' \notin {"check", "handler"}
          /\ verdict[hand] = "ok" /\ succeeded' = succeeded \cup {hand}
        BY <1>5 DEF Succeeded
    <2> QED BY <2>1 DEF Judged, work
<1>6. CASE \E o \in Final : HandlerCalls(o)
    <2>1. /\ UNCHANGED <<next, lpc, succeeded, verdict, sweep, sent>>
          /\ lpc = "handler"
        BY <1>6 DEF HandlerCalls, muVars
    <2>2. \A m \in Messages : verdict[m] = "unstarted" => asked'[m] = asked[m]
        BY <1>6, <2>1 DEF HandlerCalls, Judged, TypeOK
    <2> QED BY <2>1, <2>2 DEF Judged, work, hand
<1>7. CASE StartHandler \/ \E v \in {"ok", "err"} : HandlerReturns(v)
    <2>1. /\ UNCHANGED <<next, succeeded, asked, sweep, sent>>
          /\ lpc \in Working /\ lpc' \in {"handler", "judge"}
          /\ \E v \in {"running", "ok", "err"} :
                verdict' = [verdict EXCEPT ![hand] = v] /\ (lpc' = "handler" => v = "running")
        BY <1>7 DEF StartHandler, HandlerReturns, muVars, Working
    <2>2. hand \in Messages /\ ~(hand >= next) /\ hand' = hand
        BY <2>1, HandIsMessage DEF Working, Holding, hand, TypeOK
    <2>3. /\ \A m \in Messages : m # hand => verdict'[m] = verdict[m]
          /\ verdict'[hand] # "unstarted"
          /\ lpc' = "handler" => verdict'[hand] = "running"
        BY <2>1, <2>2 DEF TypeOK
    <2>4. /\ \A m \in succeeded : m # hand /\ m \in Messages
          /\ \A s \in Sweepers : \A m \in work(s) : m # hand /\ m \in Messages
          /\ \A t \in sent : t[3] # hand /\ t[3] \in Messages
        BY <2>1 DEF Apart, inHand, isSent, Working, Holding, TypeOK, work, Sweep
    <2> QED BY <2>1, <2>2, <2>3, <2>4 DEF Judged, work
<1> QED BY <1>1, <1>2, <1>3, <1>4, <1>5, <1>6, <1>7 DEF LoopStep

LEMMA JudgedSweep ==
    ASSUME Inv, Judged, CallbackStarts \/ \E s \in Sweepers : SweepStep(s)
    PROVE  Judged'
<1> USE DEF Inv
<1>1. UNCHANGED <<lpc, next, verdict, asked>>
    BY DEF CallbackStarts, SweepStep, Take, TakeSucceeded, TakeUnstarted, Release, SettleBatch,
       BatchSettled, muVars, workVars
<1>2. CASE CallbackStarts
    <2>1. UNCHANGED <<succeeded, sent>> /\ \A s \in Sweepers : work(s)' = work(s)
        BY <1>2 DEF CallbackStarts, muVars, work, TypeOK, Sweep
    <2>2. \A s \in Sweepers : work(s) # {} => sweep'[s].at = sweep[s].at
        BY <1>2 DEF CallbackStarts, Control, Empty, TypeOK, Sweep
    <2> QED BY <1>1, <2>1, <2>2 DEF Judged, hand
<1>3. ASSUME NEW s \in Sweepers, Take(s) PROVE Judged'
    <2>1. UNCHANGED sent /\ succeeded' \subseteq succeeded
        BY <1>3 DEF Take, TakeSucceeded, TakeUnstarted
    <2>2. \A r \in Sweepers \ {s} : work(r)' = work(r) /\ sweep'[r].at = sweep[r].at
        BY <1>3 DEF Take, TakeSucceeded, TakeUnstarted, work, TypeOK
    <2>3. \A m \in work(s)' : verdict[m] = IF sweep'[s].at = "acks" THEN "ok" ELSE "unstarted"
        <3>1. CASE TakeSucceeded(s)
            <4>1. sweep'[s].at = "acks" /\ work(s)' = succeeded
                BY <3>1 DEF TakeSucceeded, TypeOK, Sweep, work, Control, Empty
            <4> QED BY <4>1 DEF Judged
        <3>2. CASE TakeUnstarted(s)
            <4>1. sweep'[s].at = "nacks" /\ work(s)' \subseteq next..N
                BY <3>2 DEF TakeUnstarted, TypeOK, Sweep, work, Control, Empty
            <4>2. \A m \in next..N : m \in Messages /\ m >= next
                BY BatchAssumption DEF TypeOK, Messages
            <4> QED BY <4>1, <4>2 DEF Judged
        <3> QED BY <1>3, <3>1, <3>2 DEF Take
    <2> QED BY <1>1, <2>1, <2>2, <2>3 DEF Judged, hand
<1>4. ASSUME NEW s \in Sweepers, Release(s) PROVE Judged'
    <2>1. UNCHANGED <<sent, succeeded>>
        BY <1>4 DEF Release, muVars
    <2>2. \A r \in Sweepers : work(r)' \subseteq work(r) /\ sweep'[r].at = sweep[r].at
        BY <1>4 DEF Release, first, TypeOK, Sweep, work
    <2> QED BY <1>1, <2>1, <2>2 DEF Judged, hand
<1>5. ASSUME NEW s \in Sweepers, SettleBatch(s) PROVE Judged'
    <2>1. UNCHANGED succeeded
        BY <1>5 DEF SettleBatch, muVars
    <2>2. \A r \in Sweepers : work(r)' \subseteq work(r) /\ sweep'[r].at = sweep[r].at
        BY <1>5 DEF SettleBatch, TypeOK, Sweep, work
    <2>3. \A t \in sent' : \/ t \in sent
                           \/ t[2] = "ack" /\ verdict[t[3]] = "ok"
                           \/ t[2] = "nack" /\ verdict[t[3]] = "unstarted"
        <3>1. \A t \in sent' : t \in sent \/ (t[2] = opOf(s) /\ t[3] \in work(s))
            BY <1>5 DEF SettleBatch, work
        <3> QED BY <3>1 DEF Judged, opOf
    <2> QED BY <1>1, <2>1, <2>2, <2>3 DEF Judged, hand
<1>6. ASSUME NEW s \in Sweepers, BatchSettled(s) PROVE Judged'
    <2>1. UNCHANGED <<sent, succeeded>>
        BY <1>6 DEF BatchSettled, muVars
    <2>2. \A r \in Sweepers \ {s} : work(r)' = work(r) /\ sweep'[r].at = sweep[r].at
        BY <1>6 DEF BatchSettled, TypeOK, Sweep, work
    <2>3. work(s)' = {}
        BY <1>6 DEF BatchSettled, TypeOK, Sweep, work
    <2> QED BY <1>1, <2>1, <2>2, <2>3 DEF Judged, hand
<1> QED BY <1>2, <1>3, <1>4, <1>5, <1>6 DEF SweepStep

\* The steps that touch neither the loop's nor a sweep's part of the state.
Elsewhere ==
    \/ \E p \in Procs : Respond(p)
    \/ HandlerSettled \/ HandlerCallEnds \/ Renew \/ RenewerStep \/ RenewerStops
    \/ Land \/ Lapse \/ Shutdown \/ StopWork \/ Returned \/ UNCHANGED vars

LEMMA ElsewhereKeeps ==
    ASSUME Elsewhere
    PROVE  UNCHANGED <<succeeded, next, lpc, verdict, asked, sweep, reported, sent>>
BY DEF Elsewhere, Respond, HandlerSettled, HandlerCallEnds, Renew, RenewerStep, Renewed,
       ReadSettled, ReadSettling, RenewerStops, Land, Lapse, Shutdown, StopWork, Returned,
       muVars, workVars, vars

LEMMA NextSplits ==
    ASSUME [Next]_vars
    PROVE  \/ Elsewhere \/ LoopStep \/ CallbackStarts
           \/ \E s \in Sweepers : SweepStep(s)
           \/ \E o \in Final : HandlerCalls(o)
           \/ \E v \in {"ok", "err"} : HandlerReturns(v)
BY DEF Next, Elsewhere

LEMMA JudgedStep == ASSUME Inv, Judged, [Next]_vars PROVE Judged'
<1>1. CASE Elsewhere
    BY <1>1, ElsewhereKeeps DEF Judged, work, hand
<1> QED BY <1>1, NextSplits, JudgedLoop, JudgedSweep

\* Nothing sent, asked for or settled is taken back, and an ack stands.
LEMMA Grows ==
    ASSUME Inv, [Next]_vars
    PROVE  /\ sent \subseteq sent' /\ settled \subseteq settled' /\ reported \subseteq reported'
           /\ doubt \subseteq doubt'
           /\ \A m \in Messages : asked[m] \subseteq asked'[m]
           /\ \A m \in Messages : lease[m] = "acked" => lease'[m] = "acked"
<1> USE DEF Inv
<1>1. CASE Elsewhere
    <2>1. UNCHANGED <<sent, reported, asked>>
        BY <1>1, ElsewhereKeeps
    <2>2. settled \subseteq settled'
        BY <1>1 DEF Elsewhere, Respond, HandlerSettled, HandlerCallEnds, Renew, RenewerStep,
           Renewed, ReadSettled, ReadSettling, RenewerStops, Land, Lapse, Shutdown, StopWork,
           Returned, settleVars, vars
    <2>3. CASE \E p \in Procs : Respond(p)
        BY <2>1, <2>2, <2>3 DEF Respond, Answered, BenefitOfDoubt, Errored, applied, TypeOK
    <2>4. CASE Land \/ Lapse
        BY <2>1, <2>2, <2>4 DEF Land, Lapse, applied, TypeOK
    <2>5. CASE UNCHANGED brokerVars
        BY <2>1, <2>2, <2>5 DEF brokerVars
    <2>6. \/ \E p \in Procs : Respond(p)
          \/ Land \/ Lapse \/ UNCHANGED brokerVars
        BY <1>1 DEF Elsewhere, HandlerSettled, HandlerCallEnds, Renew, RenewerStep, Renewed,
           ReadSettled, ReadSettling, RenewerStops, Shutdown, StopWork, Returned, vars
    <2> QED BY <2>3, <2>4, <2>5, <2>6
<1>2. CASE LoopStep \/ \E v \in {"ok", "err"} : HandlerReturns(v)
    <2>1. UNCHANGED <<lease, doubt, asked>>
        BY <1>2 DEF LoopStep, Claim, LostBeforeStart, StartHandler, Succeeded, SettledByHandler,
           HandlerFailed, HandedBack, EndLoop, StopLeases, Return, HandlerReturns, brokerVars
    <2>2. sent \subseteq sent' /\ settled \subseteq settled' /\ reported \subseteq reported'
        BY <1>2 DEF LoopStep, Claim, LostBeforeStart, StartHandler, Succeeded, SettledByHandler,
           HandlerFailed, HandedBack, EndLoop, StopLeases, Return, HandlerReturns, settleVars
    <2> QED BY <2>1, <2>2
<1>3. CASE \E o \in Final : HandlerCalls(o)
    <2>1. UNCHANGED <<lease, doubt, sent, settled, reported>>
        BY <1>3 DEF HandlerCalls, brokerVars
    <2>2. \A m \in Messages : asked[m] \subseteq asked'[m]
        BY <1>3 DEF HandlerCalls, TypeOK
    <2> QED BY <2>1, <2>2
<1>4. CASE CallbackStarts \/ \E s \in Sweepers : SweepStep(s)
    <2>1. UNCHANGED <<lease, doubt, asked>>
        BY <1>4 DEF CallbackStarts, SweepStep, Take, TakeSucceeded, TakeUnstarted, Release,
           SettleBatch, BatchSettled, brokerVars, workVars
    <2>2. sent \subseteq sent' /\ settled \subseteq settled' /\ reported \subseteq reported'
        BY <1>4 DEF CallbackStarts, SweepStep, Take, TakeSucceeded, TakeUnstarted, Release,
           SettleBatch, BatchSettled, settleVars, reportedLost
    <2> QED BY <2>1, <2>2
<1> QED BY <1>1, <1>2, <1>3, <1>4, NextSplits

\* A settle in progress was asked for.
LEMMA CallRequested ==
    ASSUME Inv, NEW p \in Procs, call[p].op \in Final, NEW m \in all(call[p])
    PROVE  requested(call[p].op, m)
<1> USE DEF Inv
<1>1. p \in Sweepers /\ call[p] # NoCall
    BY DEF Rounds, Procs, Final, NoCall, all
<1>2. CASE ofSweep(p)
    BY <1>1, <1>2 DEF ofSweep, requested
<1>3. CASE p = "loop" /\ ofHandBack
    BY <1>3 DEF ofHandBack, requested, Sweepers
<1>4. CASE p = "loop" /\ ofHandler
    BY <1>4 DEF ofHandler, requested
<1> QED BY <1>1, <1>2, <1>3, <1>4 DEF Calls, Sweepers

\* What a step does to the broker's side of a message.
LEMMA BrokerStep ==
    ASSUME Inv, [Next]_vars
    PROVE  /\ \A m \in Messages :
                 \/ lease'[m] = lease[m]
                 \/ lease[m] = "held" /\ lease'[m] = "lapsed"
                 \/ lease[m] = "held" /\ \E o \in Final :
                       /\ lease'[m] = IF o = "ack" THEN "acked" ELSE "requeued"
                       /\ requested(o, m) \/ <<o, m>> \in late
           /\ \A o \in Final, m \in Messages : <<o, m>> \in late' =>
                 <<o, m>> \in late \/ requested(o, m)
<1> USE DEF Inv
<1>1. ASSUME NEW p \in Procs, NEW k \in call[p].left,
             Answered(p, k) \/ BenefitOfDoubt(p, k) \/ Errored(p, k)
      PROVE  /\ \A m \in Messages :
                 \/ lease'[m] = lease[m]
                 \/ lease[m] = "held" /\ \E o \in Final :
                       /\ lease'[m] = IF o = "ack" THEN "acked" ELSE "requeued"
                       /\ requested(o, m)
             /\ late' = late \/ (call[p].op \in Final /\ late' = late \cup {<<call[p].op, k>>})
             /\ call[p].op \in Final => requested(call[p].op, k)
    <2>1. call[p].op \in Final => requested(call[p].op, k)
        BY CallRequested DEF all
    <2>2. lease' = lease \/ lease' = applied(call[p].op, k)
        BY <1>1 DEF Answered, BenefitOfDoubt, Errored
    <2>3. call[p].op \in SettleOps
        <3>1. call[p] # NoCall
            BY DEF NoCall
        <3>2. call[p].op # "none"
            BY <3>1 DEF Calls, ofSweep, ofHandler, ofHandBack, Rounds, Procs, Sweepers, opOf, Final
        <3> QED BY <3>2 DEF TypeOK, Call
    <2>4. k \in Messages
        BY DEF TypeOK, Call
    <2> QED BY <1>1, <2>1, <2>2, <2>3, <2>4
            DEF Answered, BenefitOfDoubt, Errored, applied, TypeOK, SettleOps, Final
<1>2. CASE \E p \in Procs : Respond(p)
    BY <1>1, <1>2 DEF Respond
<1>3. CASE Land
    BY <1>3 DEF Land, applied, TypeOK
<1>4. CASE Lapse
    BY <1>4 DEF Lapse, TypeOK
<1>5. CASE UNCHANGED <<lease, late>>
    BY <1>5
<1>6. \/ \E p \in Procs : Respond(p)
      \/ Land \/ Lapse \/ UNCHANGED <<lease, late>>
    BY DEF Next, HandlerSettled, HandlerCallEnds, Renew, RenewerStep, Renewed, ReadSettled,
       ReadSettling, RenewerStops, Shutdown, StopWork, Returned, vars, CallbackStarts, SweepStep,
       Take, Release, SettleBatch, BatchSettled, HandlerCalls, HandlerReturns, LoopStep, Claim,
       LostBeforeStart, StartHandler, Succeeded, SettledByHandler, HandlerFailed, HandedBack,
       EndLoop, StopLeases, Return, brokerVars
<1> QED BY <1>2, <1>3, <1>4, <1>5, <1>6

LEMMA StillRequested ==
    ASSUME Inv, [Next]_vars, NEW o, NEW m \in Messages, requested(o, m)
    PROVE  requested(o, m)'
BY Grows DEF requested

LEMMA WantedStep == ASSUME Inv, Wanted, [Next]_vars PROVE Wanted'
<1>1. \A o \in Final, m \in Messages : <<o, m>> \in late' => requested(o, m)'
    BY BrokerStep, StillRequested DEF Wanted
<1>2. \A m \in Messages : lease'[m] = "requeued" => requested("nack", m)'
    BY BrokerStep, StillRequested DEF Wanted, Final
<1> QED BY <1>1, <1>2 DEF Wanted

LEMMA StillAcked ==
    ASSUME Inv, [Next]_vars, NEW m \in Messages, acked(m) PROVE acked(m)'
BY Grows DEF acked

\* An answer moves a message within its call; a settle answered with success is
\* at the broker, or in doubt.
LEMMA RespondKeeps ==
    ASSUME Inv, NEW q \in Procs, Respond(q), NEW p \in Procs
    PROVE  /\ call'[p].op = call[p].op
           /\ all(call'[p]) = all(call[p])
           /\ call[p].op = "ack" => \A m \in call'[p].ok : m \in call[p].ok \/ acked(m)'
<1> USE DEF Inv
<1>1. PICK m \in call[q].left : Answered(q, m) \/ BenefitOfDoubt(q, m) \/ Errored(q, m)
    BY DEF Respond
<1>2. m \in Messages
    BY DEF TypeOK, Call
<1>3. \E a \in Answers : answer(q, m, a) /\ (a = "ok" /\ call[q].op = "ack" => acked(m)')
    <2>1. CASE Answered(q, m) /\ lease[m] = "held"
        <3>1. call[q].op = "ack" => acked(m)'
            BY <1>2, <2>1 DEF Answered, applied, acked, TypeOK
        <3> QED BY <2>1, <3>1 DEF Answered, Answers
    <2>2. CASE Answered(q, m) /\ lease[m] # "held"
        BY <2>2 DEF Answered, Answers
    <2>3. CASE BenefitOfDoubt(q, m)
        BY <2>3 DEF BenefitOfDoubt, acked, Answers
    <2>4. CASE Errored(q, m)
        BY <2>4 DEF Errored, Answers
    <2> QED BY <1>1, <2>1, <2>2, <2>3, <2>4
<1>4. PICK a \in Answers : answer(q, m, a) /\ (a = "ok" /\ call[q].op = "ack" => acked(m)')
    BY <1>3
<1>5. CASE p # q
    BY <1>2, <1>4, <1>5, AnswerCall
<1>6. CASE p = q
    <2>1. /\ call'[p].op = call[p].op
          /\ call'[p].left = call[p].left \ {m}
          /\ call'[p].ok = IF a = "ok" THEN call[p].ok \cup {m} ELSE call[p].ok
          /\ call'[p].gone = IF a = "gone" THEN call[p].gone \cup {m} ELSE call[p].gone
          /\ call'[p].failed = IF a = "failed" THEN call[p].failed \cup {m} ELSE call[p].failed
        BY <1>2, <1>4, <1>6, AnswerCall
    <2>2. all(call'[p]) = all(call[p])
        <3>1. CASE a = "ok"
            BY <1>6, <2>1, <3>1 DEF all
        <3>2. CASE a = "gone"
            BY <1>6, <2>1, <3>2 DEF all
        <3>3. CASE a = "failed"
            BY <1>6, <2>1, <3>3 DEF all
        <3> QED BY <3>1, <3>2, <3>3 DEF Answers
    <2> QED BY <1>4, <1>6, <2>1, <2>2
<1> QED BY <1>5, <1>6

\* Any other step leaves a call as it is, ends it or starts one.
LEMMA CallStep ==
    ASSUME Inv, [Next]_vars, ~ \E q \in Procs : Respond(q), NEW p \in Procs
    PROVE  call'[p] = call[p] \/ call'[p].ok = {}
<1> USE DEF Inv
<1>1. \/ UNCHANGED call
      \/ \E q \in Procs : call' = [call EXCEPT ![q] = NoCall]
      \/ \E q \in Procs, o \in SettleOps : \E M :
            call' = [call EXCEPT ![q] = Settle(o, M)]
    <2>1. CASE HandlerFailed \/ HandedBack \/ HandlerCallEnds \/ Renew \/ Renewed
               \/ \E o \in Final : HandlerCalls(o)
        BY <2>1 DEF HandlerFailed, HandedBack, HandlerCallEnds, Renew, Renewed, HandlerCalls, Procs,
           Sweepers, SettleOps, Final
    <2>2. CASE \E s \in Sweepers : SettleBatch(s) \/ BatchSettled(s)
        BY <2>2 DEF SettleBatch, BatchSettled, opOf, Procs, SettleOps
    <2>3. CASE UNCHANGED call
        BY <2>3
    <2>4. \/ HandlerFailed \/ HandedBack \/ HandlerCallEnds \/ Renew \/ Renewed
          \/ \E o \in Final : HandlerCalls(o)
          \/ \E s \in Sweepers : SettleBatch(s) \/ BatchSettled(s)
          \/ UNCHANGED call
        BY DEF Next, HandlerSettled, RenewerStep, ReadSettled, ReadSettling, RenewerStops, Land,
           Lapse, Shutdown, StopWork, Returned, vars, CallbackStarts, SweepStep, Take, Release,
           HandlerReturns, LoopStep, Claim, LostBeforeStart, StartHandler, Succeeded,
           SettledByHandler, EndLoop, StopLeases, Return
    <2> QED BY <2>1, <2>2, <2>3, <2>4
<1>2. NoCall.ok = {} /\ \A o, M : Settle(o, M).ok = {}
    BY DEF NoCall, Settle
<1>3. call \in [Procs -> Call]
    BY DEF TypeOK
<1> QED BY <1>1, <1>2, <1>3

\* What becomes settled was nacked, or acked and answered.
LEMMA SettledStep ==
    ASSUME Inv, Acked, [Next]_vars, NEW m \in settled', m \notin settled
    PROVE  requested("nack", m) \/ acked(m)
<1> USE DEF Inv
<1>1. CASE HandlerSettled
    <2>1. m = hand /\ m \in call["loop"].ok /\ call["loop"].op \in Final
        BY <1>1 DEF HandlerSettled
    <2> QED BY <2>1, CallRequested DEF Acked, Final, all, Procs, Sweepers
<1>2. CASE HandedBack
    <2>1. m \in call["loop"].ok /\ call["loop"] # NoCall /\ lpc = "handBack"
        BY <1>2 DEF HandedBack, NoCall
    <2>2. call["loop"].op = "nack"
        BY <2>1 DEF Calls, ofSweep, ofHandler, ofHandBack, Control, Sweeping
    <2> QED BY <2>1, <2>2, CallRequested DEF Final, all, Procs, Sweepers
<1>3. ASSUME NEW s \in Sweepers, BatchSettled(s) PROVE requested("nack", m) \/ acked(m)
    <2>1. m \in call[s].ok /\ call[s] # NoCall /\ sweep[s].at \in {"acks", "nacks"}
        BY <1>3 DEF BatchSettled, NoCall
    <2>2. call[s].op \in Final
        BY <2>1 DEF Calls, ofSweep, ofHandler, ofHandBack, opOf, Final, Sweepers
    <2> QED BY <2>1, <2>2, CallRequested DEF Acked, Final, all, Procs
<1>4. HandlerSettled \/ HandedBack \/ \E s \in Sweepers : BatchSettled(s)
    BY DEF Next, Respond, HandlerCallEnds, Renew, RenewerStep, Renewed, ReadSettled, ReadSettling,
       RenewerStops, Land, Lapse, Shutdown, StopWork, Returned, vars, settleVars, CallbackStarts,
       SweepStep, Take, Release, SettleBatch, HandlerCalls, HandlerReturns, LoopStep, Claim,
       LostBeforeStart, StartHandler, Succeeded, SettledByHandler, HandlerFailed, EndLoop,
       StopLeases, Return
<1> QED BY <1>1, <1>2, <1>3, <1>4

LEMMA AckedStep == ASSUME Inv, Acked, [Next]_vars PROVE Acked'
<1>1. \A m \in settled' : requested("nack", m)' \/ acked(m)'
    <2>1. \A m \in settled' : m \in Messages
        BY StepInv DEF Inv, TypeOK
    <2>2. \A m \in settled' : requested("nack", m) \/ acked(m)
        BY SettledStep DEF Acked
    <2> QED BY <2>1, <2>2, StillRequested, StillAcked
<1>2. ASSUME NEW p \in Procs, call'[p].op = "ack", NEW m \in call'[p].ok PROVE acked(m)'
    <2>1. \A k \in call[p].ok : k \in Messages
        BY DEF Inv, TypeOK, Call
    <2>2. CASE \E q \in Procs : Respond(q)
        <3>1. call[p].op = "ack" /\ (m \in call[p].ok \/ acked(m)')
            BY <1>2, <2>2, RespondKeeps
        <3> QED BY <2>1, <3>1, StillAcked DEF Acked
    <2>3. CASE ~ \E q \in Procs : Respond(q)
        <3>1. call'[p] = call[p]
            BY <1>2, <2>3, CallStep
        <3> QED BY <1>2, <2>1, <3>1, StillAcked DEF Acked
    <2> QED BY <2>2, <2>3
<1> QED BY <1>1, <1>2 DEF Acked

\* Acks on their way are a sweep's business only.
LEMMA AckingStays ==
    ASSUME Inv, NEW s \in Sweepers, sweep[s].at = "acks",
           \/ Elsewhere \/ LoopStep \/ CallbackStarts
           \/ \E o \in Final : HandlerCalls(o)
           \/ \E v \in {"ok", "err"} : HandlerReturns(v)
    PROVE  sweep'[s] = sweep[s] /\ all(call'[s]) = all(call[s])
<1> USE DEF Inv
<1>1. s = "loop" => lpc = "sweep"
    BY DEF Control, Sweeping, TypeOK
<1>2. sweep'[s] = sweep[s]
    <2>1. CASE EndLoop
        BY <1>1, <2>1 DEF EndLoop, Sweepers, TypeOK
    <2>2. CASE CallbackStarts
        BY <2>2 DEF CallbackStarts, Sweepers, TypeOK
    <2>3. CASE Elsewhere
        BY <2>3, ElsewhereKeeps
    <2>4. CASE UNCHANGED sweep
        BY <2>4
    <2>5. EndLoop \/ CallbackStarts \/ Elsewhere \/ UNCHANGED sweep
        BY DEF LoopStep, Claim, LostBeforeStart, StartHandler, Succeeded, SettledByHandler,
           HandlerFailed, HandedBack, StopLeases, Return, HandlerCalls, HandlerReturns
    <2> QED BY <2>1, <2>2, <2>3, <2>4, <2>5
<1>3. all(call'[s]) = all(call[s])
    <2>1. CASE \E q \in Procs : Respond(q)
        BY <2>1, RespondKeeps DEF Procs
    <2>2. CASE HandlerCallEnds \/ HandlerFailed \/ HandedBack \/ \E o \in Final : HandlerCalls(o)
        <3>1. s = "callback"
            BY <1>1, <2>2 DEF HandlerCallEnds, HandlerFailed, HandedBack, HandlerCalls, Sweepers
        <3> QED BY <2>2, <3>1 DEF HandlerCallEnds, HandlerFailed, HandedBack, HandlerCalls, TypeOK,
                Procs, Sweepers
    <2>3. CASE Renew \/ Renewed
        BY <2>3 DEF Renew, Renewed, TypeOK, Procs, Sweepers
    <2>4. CASE UNCHANGED call
        BY <2>4
    <2>5. \/ \E q \in Procs : Respond(q)
          \/ HandlerCallEnds \/ HandlerFailed \/ HandedBack \/ Renew \/ Renewed
          \/ \E o \in Final : HandlerCalls(o)
          \/ UNCHANGED call
        BY DEF Elsewhere, HandlerSettled, RenewerStep, ReadSettled, ReadSettling, RenewerStops,
           Land, Lapse, Shutdown, StopWork, Returned, vars, CallbackStarts, HandlerReturns,
           LoopStep, Claim, LostBeforeStart, StartHandler, Succeeded, SettledByHandler, EndLoop,
           StopLeases, Return
    <2> QED BY <2>1, <2>2, <2>3, <2>4, <2>5
<1> QED BY <1>2, <1>3

LEMMA PendingStep == ASSUME Inv, Pending, [Next]_vars PROVE Pending'
<1> USE DEF Inv
<1> DEFINE waits(m) == \/ m \in settled' \cup reported' \cup succeeded'
                       \/ lpc' = "judge" /\ m = hand'
                       \/ \E s \in Sweepers : acking(s, m)'
<1> SUFFICES ASSUME NEW m \in Messages, verdict'[m] = "ok" PROVE waits(m)
    BY DEF Pending
<1>1. settled \cup reported \subseteq settled' \cup reported'
    BY Grows
<1>2. CASE \/ Elsewhere \/ LoopStep \/ CallbackStarts
           \/ \E o \in Final : HandlerCalls(o)
           \/ \E v \in {"ok", "err"} : HandlerReturns(v)
    <2>1. \A s \in Sweepers : acking(s, m) => acking(s, m)'
        BY <1>2, AckingStays DEF acking, work
    <2>2. CASE \E v \in {"ok", "err"} : HandlerReturns(v)
        <3>1. /\ lpc' = "judge" /\ hand' = hand /\ UNCHANGED succeeded
              /\ lpc = "handler"
              /\ m # hand => verdict[m] = "ok"
            BY <2>2 DEF HandlerReturns, muVars, TypeOK, hand
        <3> QED BY <1>1, <2>1, <3>1 DEF Pending
    <2>3. CASE StartHandler
        <3>1. /\ UNCHANGED succeeded /\ lpc = "check"
              /\ verdict[m] = "ok"
            BY <2>3, HandIsMessage DEF StartHandler, muVars, TypeOK, Holding
        <3> QED BY <1>1, <2>1, <3>1 DEF Pending
    <2>4. CASE Succeeded \/ SettledByHandler \/ HandlerFailed
        <3>1. /\ verdict[m] = "ok" /\ succeeded \subseteq succeeded'
              /\ m = hand => m \in succeeded' \cup settled'
            BY <2>4 DEF Succeeded, SettledByHandler, HandlerFailed, muVars, settleVars
        <3> QED BY <1>1, <2>1, <3>1 DEF Pending
    <2>5. CASE Elsewhere
        <3>1. UNCHANGED <<succeeded, lpc, next, verdict>>
            BY <2>5, ElsewhereKeeps
        <3> QED BY <1>1, <2>1, <3>1 DEF Pending, hand
    <2>6. CASE Claim \/ LostBeforeStart \/ HandedBack \/ EndLoop \/ StopLeases \/ Return
               \/ CallbackStarts \/ \E o \in Final : HandlerCalls(o)
        <3>1. /\ UNCHANGED <<succeeded, verdict>>
              /\ lpc = "judge" => lpc' = lpc /\ next' = next
            BY <2>6 DEF Claim, LostBeforeStart, HandedBack, EndLoop, StopLeases, Return,
               CallbackStarts, HandlerCalls, muVars, workVars
        <3> QED BY <1>1, <2>1, <3>1 DEF Pending, hand
    <2> QED BY <1>2, <2>2, <2>3, <2>4, <2>5, <2>6 DEF LoopStep
<1>3. ASSUME NEW s \in Sweepers, SweepStep(s) PROVE waits(m)
    <2>1. /\ UNCHANGED <<lpc, next, verdict>>
          /\ sweep[s].at \in {"flush", "unstarted", "acks", "nacks"}
        BY <1>3 DEF SweepStep, Take, TakeSucceeded, TakeUnstarted, Release, SettleBatch, first,
           BatchSettled, muVars, workVars, Control, Empty, work, TypeOK, Sweep
    <2>2. \A r \in Sweepers : acking(r, m) => r = s
        BY <2>1, SweepApart DEF acking, Sweepers
    <2>3. \/ m \in settled \cup reported \cup succeeded
          \/ lpc = "judge" /\ m = hand
          \/ acking(s, m)
        BY <2>1, <2>2 DEF Pending
    <2>4. succeeded \subseteq succeeded' \/ TakeSucceeded(s)
        BY <1>3 DEF SweepStep, Take, TakeUnstarted, Release, SettleBatch, BatchSettled, muVars
    <2>5. CASE lpc = "judge" /\ m = hand
        BY <2>1, <2>5 DEF hand
    <2>6. CASE m \in settled \cup reported
        BY <1>1, <2>6
    <2>7. CASE m \in succeeded
        <3>1. CASE TakeSucceeded(s)
            <4>1. acking(s, m)'
                BY <2>7, <3>1 DEF TakeSucceeded, acking, work, TypeOK, Sweep
            <4> QED BY <4>1
        <3> QED BY <2>4, <2>7, <3>1
    <2>8. CASE acking(s, m)
        <3>1. CASE Take(s)
            BY <2>8, <3>1 DEF Take, TakeSucceeded, TakeUnstarted, acking
        <3>2. CASE Release(s)
            <4>1. sweep'[s].at = "acks" /\ call' = call
                BY <2>8, <3>2 DEF Release, acking, TypeOK, Sweep
            <4>2. m \in work(s) => m \in work(s)' \/ m \in reported'
                BY <2>8, <3>2 DEF Release, first, acking, reportedLost, work, TypeOK, Sweep
            <4>3. acking(s, m)' \/ m \in reported'
                BY <2>8, <4>1, <4>2 DEF acking
            <4> QED BY <4>3
        <3>3. CASE SettleBatch(s)
            <4>1. /\ sweep'[s].at = "acks" /\ m \in sweep[s].batch \cup all(call[s])
                  /\ sweep[s].batch \in SUBSET Messages
                BY <2>8, <3>3 DEF SettleBatch, acking, TypeOK, Sweep, work
            <4>2. call[s] = NoCall
                BY <2>8, <3>3, SweepApart
                   DEF SettleBatch, acking, Calls, ofSweep, ofHandler, ofHandBack, work, Sweepers
            <4>3. call'[s] = Settle("ack", sweep[s].batch)
                BY <2>8, <3>3 DEF SettleBatch, acking, opOf, TypeOK, Procs
            <4>4. m \in all(call'[s])
                <5>1. all(NoCall) = {}
                    BY DEF NoCall, all
                <5>2. all(call'[s]) = sweep[s].batch
                    BY <4>1, <4>3, SettleIsCall DEF SettleOps
                <5> QED BY <4>1, <4>2, <5>1, <5>2
            <4>5. acking(s, m)'
                BY <4>1, <4>4 DEF acking
            <4> QED BY <4>5
        <3>4. CASE BatchSettled(s)
            <4>1. m \in call[s].ok \cup call[s].gone \cup call[s].failed
                BY <2>8, <3>4 DEF BatchSettled, acking, work, all
            <4>2. m \in settled' \cup reported'
                BY <2>8, <3>4, <4>1 DEF BatchSettled, acking
            <4> QED BY <4>2
        <3> QED BY <1>3, <3>1, <3>2, <3>3, <3>4 DEF SweepStep
    <2>9. m \in settled \cup reported \/ m \in succeeded \/ (lpc = "judge" /\ m = hand)
          \/ acking(s, m)
        BY <2>3
    <2> HIDE DEF waits
    <2> QED BY <2>5, <2>6, <2>7, <2>8, <2>9
<1> QED BY <1>2, <1>3, NextSplits

-----------------------------------------------------------------------------

Delivered == Inv /\ Judged /\ Wanted /\ Acked /\ Pending

LEMMA DeliveredHolds == Spec => []Delivered
<1>1. Init => Delivered
    BY InitInv, InitJudged DEF Delivered
<1>2. Delivered /\ [Next]_vars => Delivered'
    BY StepInv, JudgedStep, WantedStep, AckedStep, PendingStep DEF Delivered
<1> QED BY <1>1, <1>2, PTL DEF Spec

\* A handler's success is not redelivered in silence: when dispatchBatch
\* returns, its message is acked, or reported, or a 410 was taken for the ack an
\* earlier request may have carried out (flush, settleMany).
THEOREM SuccessNotLost == Spec => []NoSilentRedelivery
<1>1. ASSUME Delivered, lpc = "done", NEW m \in Messages,
             verdict[m] = "ok", "nack" \notin asked[m], lease[m] # "acked"
      PROVE  m \in reported \cup doubt
    <2>1. succeeded = {} /\ \A s \in Sweepers : sweep[s].at = "over"
        BY <1>1 DEF Delivered, Inv, Control, Swept, Sweeping, Flushed, Sweepers
    <2>2. m \in settled \cup reported
        BY <1>1, <2>1 DEF Delivered, Pending, acking
    <2>3. \A s \in Sweepers : <<s, "nack", m>> \notin sent
        BY <1>1 DEF Delivered, Judged
    <2> QED BY <1>1, <2>2, <2>3 DEF Delivered, Acked, acked, requested
<1>2. Delivered => NoSilentRedelivery
    BY <1>1 DEF NoSilentRedelivery
<1> QED BY <1>2, DeliveredHolds, PTL

\* Each step of the batch does to its messages what Deliveries allows, one at a
\* time, or nothing.
LEMMA PromisedStep ==
    ASSUME Delivered, [Next]_vars PROVE [Promise!Next]_(Promise!vars)
<1> USE DEF Delivered, Inv
<1>1. CASE UNCHANGED <<lease, verdict, asked>>
    BY <1>1 DEF Promise!vars
<1>2. CASE Land \/ Lapse \/ \E p \in Procs : Respond(p)
    <2>1. UNCHANGED <<verdict, asked>>
        BY <1>2 DEF Land, Lapse, Respond, workVars
    <2>2. \A m \in Messages : lease'[m] = lease[m]
          \/ (lease[m] = "held"
              /\ \/ lease'[m] = "lapsed"
                 \/ lease'[m] = "acked" /\ Promise!MayAck(m)
                 \/ lease'[m] = "requeued" /\ Promise!MayNack(m))
        <3>1. \A m \in Messages : requested("ack", m) => Promise!MayAck(m)
            BY DEF Judged, requested, Promise!MayAck
        <3>2. \A m \in Messages : requested("nack", m) => Promise!MayNack(m)
            BY DEF Judged, requested, Promise!MayNack
        <3>3. \A o \in Final, m \in Messages : <<o, m>> \in late => requested(o, m)
            BY DEF Wanted
        <3> QED BY <3>1, <3>2, <3>3, BrokerStep DEF Final
    <2>3. lease' = lease \/ \E m \in Messages : \E a : lease' = [lease EXCEPT ![m] = a]
        <3>1. lease' = lease \/ (\E m \in Messages : lease' = [lease EXCEPT ![m] = "lapsed"])
              \/ \E o, m : m \in Messages /\ lease' = applied(o, m)
            <4>1. CASE Land \/ Lapse
                BY <4>1 DEF Land, Lapse
            <4>2. ASSUME NEW p \in Procs, Respond(p)
                  PROVE  lease' = lease \/ \E o, m : m \in Messages /\ lease' = applied(o, m)
                <5>1. PICK m \in call[p].left :
                          Answered(p, m) \/ BenefitOfDoubt(p, m) \/ Errored(p, m)
                    BY <4>2 DEF Respond
                <5>2. m \in Messages
                    BY DEF TypeOK, Call
                <5>3. lease' = lease \/ lease' = applied(call[p].op, m)
                    BY <5>1 DEF Answered, BenefitOfDoubt, Errored
                <5> QED BY <5>2, <5>3
            <4> QED BY <1>2, <4>1, <4>2
        <3>2. \A o, m : applied(o, m) = lease \/ \E a : applied(o, m) = [lease EXCEPT ![m] = a]
            BY DEF applied
        <3> QED BY <3>1, <3>2
    <2>4. CASE lease' = lease
        BY <2>1, <2>4 DEF Promise!vars
    <2>5. ASSUME NEW m \in Messages, NEW a, lease' = [lease EXCEPT ![m] = a], lease' # lease
          PROVE  Promise!Next
        <3>1. lease'[m] = a /\ a # lease[m]
            BY <2>5 DEF TypeOK
        <3>2. Promise!LeaseEnds(m)
            BY <2>1, <2>2, <2>5, <3>1 DEF Promise!LeaseEnds
        <3> QED BY <3>2 DEF Promise!Next
    <2> QED BY <2>3, <2>4, <2>5
<1>3. CASE StartHandler
    <2>1. hand \in Messages /\ lpc = "check"
        BY <1>3, HandIsMessage DEF StartHandler, Holding
    <2>2. verdict[hand] = "unstarted" /\ asked[hand] = {} /\ ~isSent(hand)
        BY <2>1 DEF Judged, Apart, Working
    <2>3. lease[hand] # "requeued"
        BY <2>1, <2>2 DEF Wanted, requested, isSent
    <2>4. Promise!Start(hand)
        BY <1>3, <2>2, <2>3 DEF StartHandler, Promise!Start, brokerVars
    <2> QED BY <2>1, <2>4 DEF Promise!Next
<1>4. ASSUME NEW o \in Final, HandlerCalls(o) PROVE Promise!Next
    <2>1. hand \in Messages /\ verdict[hand] = "running"
        BY <1>4, HandIsMessage DEF HandlerCalls, Holding, Judged
    <2>2. Promise!Ask(hand, o)
        BY <1>4, <2>1 DEF HandlerCalls, Promise!Ask, brokerVars
    <2> QED BY <2>1, <2>2 DEF Promise!Next, Final
<1>5. ASSUME NEW v \in {"ok", "err"}, HandlerReturns(v) PROVE Promise!Next
    <2>1. hand \in Messages /\ verdict[hand] = "running"
        BY <1>5, HandIsMessage DEF HandlerReturns, Holding, Judged
    <2>2. Promise!HandlerReturns(hand, v)
        BY <1>5, <2>1 DEF HandlerReturns, Promise!HandlerReturns, brokerVars
    <2> QED BY <2>1, <2>2 DEF Promise!Next
<1>6. \/ UNCHANGED <<lease, verdict, asked>>
      \/ Land \/ Lapse \/ StartHandler
      \/ \E p \in Procs : Respond(p)
      \/ \E o \in Final : HandlerCalls(o)
      \/ \E v \in {"ok", "err"} : HandlerReturns(v)
    BY DEF Next, HandlerSettled, HandlerCallEnds, Renew, RenewerStep, Renewed, ReadSettled,
       ReadSettling, RenewerStops, Shutdown, StopWork, Returned, vars, CallbackStarts, SweepStep,
       Take, Release, SettleBatch, BatchSettled, LoopStep, Claim, LostBeforeStart, Succeeded,
       SettledByHandler, HandlerFailed, HandedBack, EndLoop, StopLeases, Return, brokerVars,
       workVars
<1> QED BY <1>1, <1>2, <1>3, <1>4, <1>5, <1>6

\* The batch implements Deliveries: a message goes its own way, whichever of the
\* three goroutines moves it (dispatchBatch, batchLeases).
THEOREM BatchImplementsDeliveries == Spec => DeliversAsPromised
<1>1. Init => Promise!Init
    BY DEF Init, Promise!Init
<1>2. Delivered /\ [Next]_vars => [Promise!Next]_(Promise!vars)
    BY PromisedStep
<1> QED BY <1>1, <1>2, DeliveredHolds, PTL DEF Spec, DeliversAsPromised, Promise!Spec

-----------------------------------------------------------------------------
\* How long the goroutines of a batch may keep each other waiting.

\* A round, once begun, up to its end.
roundAhead ==
    CASE rpc = "extending"    -> 2 * N + 1 + Cardinality(call["renewer"].left)
      [] rpc = "readSettled"  -> 2 * Cardinality(look)
      [] rpc = "readSettling" -> 2 * Cardinality(look) - 1
      [] OTHER                -> 0

\* Messages that s is yet to release, to send, and to hear about.
settlesAhead(s) ==
    3 * Cardinality(sweep[s].todo) + 2 * Cardinality(sweep[s].batch) + Cardinality(call[s].left)

\* flush and handBackUnstarted of s, up to their end.
sweepAhead(s) ==
    CASE sweep[s].at = "flush"     -> 6 * N + 4
      [] sweep[s].at = "acks"      -> 3 * N + 3 + settlesAhead(s)
      [] sweep[s].at = "unstarted" -> 3 * N + 2
      [] sweep[s].at = "nacks"     -> 1 + settlesAhead(s)
      [] OTHER                     -> 0

\* dispatchBatch, once its loop is over.
endAhead ==
    CASE lpc = "ended"    -> 6 * N + 7
      [] lpc = "sweep"    -> 2 + sweepAhead("loop")
      [] lpc = "stopping" -> 1
      [] OTHER            -> 0

sweeps(s) == sweep[s].at \notin {"waiting", "over"}
ending    == lpc \in {"ended", "sweep", "stopping"}

\* Each step of a round, of a sweep, of the loop's end brings it nearer to its
\* end, and no step of anybody else takes it farther away.
RoundsShrink ==
    [][~roundOver =>
          /\ Respond("renewer") \/ RenewerStep => roundAhead' < roundAhead
          /\ roundAhead' <= roundAhead]_vars
SweepsShrink ==
    [][\A s \in Sweepers : sweeps(s) =>
          /\ SweepStep(s) \/ Respond(s) => sweepAhead(s)' < sweepAhead(s)
          /\ sweepAhead(s)' <= sweepAhead(s)]_vars
EndShrinks ==
    [][ending =>
          /\ LoopStep \/ SweepStep("loop") \/ Respond("loop") => endAhead' < endAhead
          /\ endAhead' <= endAhead]_vars

LEMMA SetCounts ==
    ASSUME NEW M \in SUBSET Messages
    PROVE  /\ Cardinality(M) \in 0..N /\ (Cardinality(M) = 0 <=> M = {})
           /\ \A m \in M : Cardinality(M \ {m}) = Cardinality(M) - 1
           /\ \A m \in Messages \ M : Cardinality(M \cup {m}) = Cardinality(M) + 1
<1>1. IsFiniteSet(Messages) /\ Cardinality(Messages) = N
    BY FS_Interval, BatchAssumption DEF Messages
<1>2. IsFiniteSet(M) /\ Cardinality(M) <= N
    BY <1>1, FS_Subset
<1>3. Cardinality(M) \in Nat
    BY <1>2, FS_CardinalityType
<1>4. Cardinality(M) = 0 <=> M = {}
    BY <1>2, FS_EmptySet
<1>5. \A m \in M : Cardinality(M \ {m}) = Cardinality(M) - 1
    BY <1>2, FS_RemoveElement
<1>6. \A m \in Messages \ M : Cardinality(M \cup {m}) = Cardinality(M) + 1
    BY <1>2, FS_AddElement
<1> QED BY <1>2, <1>3, <1>4, <1>5, <1>6, BatchAssumption

\* An answer is one message less to hear about.
LEMMA AnswerCounts ==
    ASSUME TypeOK, NEW p \in Procs, Respond(p)
    PROVE  /\ call'[p].left \subseteq Messages
           /\ Cardinality(call'[p].left) = Cardinality(call[p].left) - 1
           /\ \A q \in Procs \ {p} : call'[q] = call[q]
           /\ UNCHANGED <<rpc, look, sweep, lpc>>
<1>1. PICK m \in call[p].left : Answered(p, m) \/ BenefitOfDoubt(p, m) \/ Errored(p, m)
    BY DEF Respond
<1>2. call[p].left \in SUBSET Messages /\ m \in Messages
    BY DEF TypeOK, Call
<1>3. PICK a \in Answers : answer(p, m, a)
    BY <1>1 DEF Answered, BenefitOfDoubt, Errored, Answers
<1>4. call'[p].left = call[p].left \ {m} /\ \A q \in Procs \ {p} : call'[q] = call[q]
    BY <1>2, <1>3, AnswerCall
<1>5. UNCHANGED <<rpc, look, sweep, lpc>>
    BY DEF Respond, renewVars, workVars
<1> QED BY <1>2, <1>4, <1>5, SetCounts

-----------------------------------------------------------------------------
\* A round.

LEMMA RoundAdvances ==
    ASSUME Inv, ~roundOver, Respond("renewer") \/ RenewerStep
    PROVE  roundAhead' < roundAhead
<1>1. /\ N \in Nat /\ "renewer" \in Procs /\ look \in SUBSET Messages
      /\ call["renewer"].left \in SUBSET Messages /\ call["renewer"].gone \in SUBSET Messages
      /\ rpc \in {"extending", "readSettled", "readSettling"}
    BY BatchAssumption DEF Inv, TypeOK, Call, Procs, roundOver
<1>2. /\ Cardinality(look) \in 0..N /\ Cardinality(call["renewer"].left) \in 0..N
      /\ \A m \in look : Cardinality(look \ {m}) = Cardinality(look) - 1
      /\ Cardinality({}) = 0
    BY <1>1, SetCounts
<1>3. CASE Respond("renewer")
    <2>1. rpc = "extending"
        BY <1>3, <1>1 DEF Respond, Inv, Rounds, NoCall
    <2>2. /\ Cardinality(call'["renewer"].left) = Cardinality(call["renewer"].left) - 1
          /\ rpc' = rpc
        BY <1>1, <1>3, AnswerCounts DEF Inv
    <2> QED BY <1>1, <1>2, <2>1, <2>2 DEF roundAhead
<1>4. CASE Renewed
    <2>1. rpc = "extending" /\ look' = call["renewer"].gone /\ rpc' \in {"select", "readSettled"}
        BY <1>4 DEF Renewed, lapsedOf
    <2>2. Cardinality(look') \in 0..N
        BY <1>1, <2>1, SetCounts
    <2> QED BY <1>1, <1>2, <2>1, <2>2 DEF roundAhead
<1>5. CASE ReadSettled
    <2>1. PICK m \in look :
            \/ look' = look \ {m} /\ rpc' = IF look' = {} THEN "select" ELSE "readSettled"
            \/ rpc' = "readSettling" /\ look' = look
        BY <1>5 DEF ReadSettled, LookOn, first
    <2>2. rpc = "readSettled" /\ Cardinality(look \ {m}) = Cardinality(look) - 1
        BY <1>2, <1>5 DEF ReadSettled
    <2>3. Cardinality(look) > 0
        BY <1>1, <1>2, SetCounts
    <2> QED BY <1>1, <1>2, <2>1, <2>2, <2>3 DEF roundAhead
<1>6. CASE ReadSettling
    <2>1. PICK m \in look :
            look' = look \ {m} /\ rpc' = IF look' = {} THEN "select" ELSE "readSettled"
        BY <1>6 DEF ReadSettling, LookOn, first
    <2>2. rpc = "readSettling" /\ Cardinality(look \ {m}) = Cardinality(look) - 1
        BY <1>2, <1>6 DEF ReadSettling
    <2>3. Cardinality(look) > 0
        BY <1>1, <1>2, SetCounts
    <2> QED BY <1>1, <1>2, <2>1, <2>2, <2>3 DEF roundAhead
<1> QED BY <1>3, <1>4, <1>5, <1>6 DEF RenewerStep

\* Nobody else touches it.
LEMMA RoundUndisturbed ==
    ASSUME Inv, [Next]_vars, ~roundOver, ~Respond("renewer"), ~RenewerStep
    PROVE  UNCHANGED <<rpc, look, roundAhead>>
<1>1. call \in [Procs -> Call]
    BY DEF Inv, TypeOK
<1>2. UNCHANGED <<rpc, look>> /\ call'["renewer"] = call["renewer"]
    <2>1. CASE \E p \in Procs : Respond(p)
        <3>1. PICK p \in Procs \ {"renewer"} : Respond(p)
            BY <2>1
        <3> QED BY <3>1, AnswerCounts DEF Inv, Procs
    <2>2. CASE LoopStep
        BY <1>1, <2>2 DEF LoopStep, Claim, LostBeforeStart, StartHandler, Succeeded,
            SettledByHandler, HandlerFailed, HandedBack, EndLoop, StopLeases, Return, releaseHand,
            renewVars, Procs, Sweepers
    <2>3. CASE \E s \in Sweepers : SweepStep(s)
        BY <1>1, <2>3 DEF SweepStep, Take, TakeSucceeded, TakeUnstarted, Release,
            SettleBatch, BatchSettled, renewVars, Procs, Sweepers
    <2>4. CASE HandlerSettled \/ HandlerCallEnds \/ (\E o \in Final : HandlerCalls(o))
               \/ \E v \in {"ok", "err"} : HandlerReturns(v)
        BY <1>1, <2>4 DEF HandlerSettled, HandlerCallEnds, HandlerCalls, HandlerReturns,
            renewVars, Procs, Sweepers
    <2>5. CASE Land \/ Lapse \/ Shutdown \/ StopWork \/ CallbackStarts \/ Returned
               \/ UNCHANGED vars
        BY <2>5 DEF Land, Lapse, Shutdown, StopWork, CallbackStarts, Returned, renewVars, vars
    <2>6. CASE Renew \/ RenewerStops
        BY <2>6 DEF Renew, RenewerStops, roundOver
    <2> QED BY <2>1, <2>2, <2>3, <2>4, <2>5, <2>6 DEF Next
<1> QED BY <1>2 DEF roundAhead

\* A round looks at messages as long as there are some.
LookLeft == rpc \in {"readSettled", "readSettling"} => look # {}

LEMMA LookLeftStep == ASSUME Inv, LookLeft, [Next]_vars PROVE LookLeft'
<1>1. CASE ~roundOver /\ RenewerStep
    BY <1>1 DEF RenewerStep, Renewed, ReadSettled, ReadSettling, LookOn, LookLeft
<1>2. CASE ~roundOver /\ ~RenewerStep /\ Respond("renewer")
    <2>1. UNCHANGED <<rpc, look>>
        BY <1>2, AnswerCounts DEF Inv, Procs
    <2> QED BY <2>1 DEF LookLeft
<1>3. CASE ~roundOver /\ ~RenewerStep /\ ~Respond("renewer")
    <2>1. UNCHANGED <<rpc, look>>
        BY <1>3, RoundUndisturbed
    <2> QED BY <2>1 DEF LookLeft
<1>4. CASE roundOver
    <2>1. rpc' \in {"select", "finished", "extending"}
        BY <1>4, NextSplits DEF roundOver, Elsewhere, Respond, HandlerSettled, HandlerCallEnds,
           Renew, RenewerStep, Renewed, ReadSettled, ReadSettling, RenewerStops, Land, Lapse,
           Shutdown, StopWork, Returned, LoopStep, Claim, LostBeforeStart, StartHandler,
           Succeeded, SettledByHandler, HandlerFailed, HandedBack, EndLoop, StopLeases, Return,
           releaseHand, CallbackStarts, SweepStep, Take, TakeSucceeded, TakeUnstarted, Release,
           SettleBatch, BatchSettled, HandlerCalls, HandlerReturns, renewVars, vars
    <2> QED BY <2>1 DEF LookLeft
<1> QED BY <1>1, <1>2, <1>3, <1>4

RoundBounded == roundAhead \in 0..(3 * N + 1)

LEMMA RoundTypes == ASSUME Inv, LookLeft PROVE RoundBounded
<1>1. /\ N \in Nat \ {0} /\ Cardinality(look) \in 0..N
      /\ Cardinality(call["renewer"].left) \in 0..N
      /\ LookLeft => (rpc = "readSettling" => Cardinality(look) > 0)
    <2>1. look \in SUBSET Messages /\ call["renewer"].left \in SUBSET Messages
        BY DEF Inv, TypeOK, Call, Procs
    <2> QED BY <2>1, SetCounts, BatchAssumption DEF LookLeft
<1> QED BY <1>1 DEF RoundBounded, roundAhead

\* A round of renewals ends within 3N + 1 steps of its own, none of which waits
\* for the loop, the handler or the callback: whoever waits for the round mutex
\* to release a message waits for the broker at most (batchLeases: renew
\* and release).
THEOREM RoundsEnd == Spec => RoundsShrink /\ []RoundBounded
<1>1. Inv /\ RoundBounded /\ RoundBounded' /\ [Next]_vars =>
        [~roundOver =>
            /\ Respond("renewer") \/ RenewerStep => roundAhead' < roundAhead
            /\ roundAhead' <= roundAhead]_vars
    <2> SUFFICES ASSUME Inv, RoundBounded, RoundBounded', [Next]_vars, ~roundOver
                 PROVE  /\ Respond("renewer") \/ RenewerStep => roundAhead' < roundAhead
                        /\ roundAhead' <= roundAhead
        OBVIOUS
    <2>1. roundAhead \in Int /\ roundAhead' \in Int
        BY DEF RoundBounded
    <2> QED BY <2>1, RoundAdvances, RoundUndisturbed
<1>2. Init => LookLeft
    BY DEF Init, LookLeft
<1>3. Inv /\ LookLeft /\ [Next]_vars => LookLeft'
    BY LookLeftStep
<1>4. Inv /\ LookLeft => RoundBounded
    BY RoundTypes
<1> QED BY <1>1, <1>2, <1>3, <1>4, InvHolds, PTL DEF Spec, RoundsShrink

-----------------------------------------------------------------------------
\* A sweep.

\* The settles of a sweep, in numbers.
LEMMA SweepCounts ==
    ASSUME Inv, NEW s \in Sweepers
    PROVE  /\ N \in Nat
           /\ sweep[s].at \in {"waiting", "flush", "acks", "unstarted", "nacks", "over"}
           /\ Cardinality(sweep[s].todo) \in 0..N /\ Cardinality(sweep[s].batch) \in 0..N
           /\ Cardinality(call[s].left) \in 0..N /\ settlesAhead(s) \in Nat
           /\ sweep[s].todo \in SUBSET Messages /\ sweep[s].batch \in SUBSET Messages
           /\ sweep \in [Sweepers -> Sweep] /\ call \in [Procs -> Call] /\ s \in Procs
<1>1. /\ sweep[s] \in Sweep /\ call[s] \in Call /\ N \in Nat /\ s \in Procs
      /\ sweep \in [Sweepers -> Sweep] /\ call \in [Procs -> Call]
    BY BatchAssumption DEF Inv, TypeOK, Procs
<1>2. /\ sweep[s].todo \in SUBSET Messages /\ sweep[s].batch \in SUBSET Messages
      /\ call[s].left \in SUBSET Messages
      /\ sweep[s].at \in {"waiting", "flush", "acks", "unstarted", "nacks", "over"}
    BY <1>1 DEF Sweep, Call
<1>3. /\ Cardinality(sweep[s].todo) \in 0..N /\ Cardinality(sweep[s].batch) \in 0..N
      /\ Cardinality(call[s].left) \in 0..N
    BY <1>2, SetCounts
<1> QED BY <1>1, <1>2, <1>3 DEF settlesAhead

\* A sweep has no settle in progress while it has messages in its hands, nor
\* where there are none to take.
LEMMA NoSettle ==
    ASSUME Inv, NEW s \in Sweepers, sweeps(s),
           work(s) # {} \/ sweep[s].at \in {"flush", "unstarted"}
    PROVE  call[s] = NoCall /\ call[s].left = {}
<1>1. ~ofSweep(s)
    BY DEF ofSweep
<1>2. s = "loop" => lpc = "sweep"
    BY SweepApart DEF sweeps
<1>3. call[s] = NoCall
    BY <1>1, <1>2 DEF Inv, Calls, ofHandler, ofHandBack, Sweepers
<1> QED BY <1>3 DEF NoCall

LEMMA TakeAdvances ==
    ASSUME Inv, NEW s \in Sweepers, Take(s)
    PROVE  sweepAhead(s)' < sweepAhead(s) /\ sweepAhead(s)' \in Nat
<1>1. /\ sweep[s].at \in {"flush", "unstarted"} /\ sweeps(s) /\ call' = call
      /\ sweep'[s].at = IF sweep[s].at = "flush" THEN "acks" ELSE "nacks"
      /\ sweep'[s].todo \in SUBSET Messages /\ sweep'[s].batch = sweep[s].batch
    <2>1. succeeded \in SUBSET Messages /\ next..N \subseteq Messages
        BY DEF Inv, TypeOK, Messages
    <2>2. sweep \in [Sweepers -> Sweep] /\ call' = call /\ {} \subseteq Messages
        BY SweepCounts DEF Take
    <2>3. CASE TakeSucceeded(s)
        BY <2>1, <2>2, <2>3 DEF TakeSucceeded, sweeps
    <2>4. CASE TakeUnstarted(s)
        BY <2>1, <2>2, <2>4 DEF TakeUnstarted, sweeps
    <2> QED BY <2>3, <2>4 DEF Take
<1>2. sweep[s].batch = {} /\ call[s].left = {}
    BY <1>1, NoSettle DEF Inv, Control, work, Empty
<1>3. settlesAhead(s)' \in 0..(3 * N)
    <2>1. Cardinality(sweep'[s].todo) \in 0..N /\ Cardinality({}) = 0
        BY <1>1, SetCounts
    <2> QED BY <1>1, <1>2, <2>1, SweepCounts DEF settlesAhead
<1> QED BY <1>1, <1>3, SweepCounts DEF sweepAhead

LEMMA ReleaseAdvances ==
    ASSUME Inv, NEW s \in Sweepers, Release(s)
    PROVE  sweepAhead(s)' < sweepAhead(s) /\ sweepAhead(s)' \in Nat
<1>1. PICK m \in sweep[s].todo :
        sweep' = [sweep EXCEPT ![s].todo = @ \ {m},
                               ![s].batch = IF m \in gone THEN @ ELSE @ \cup {m}]
    BY DEF Release, first
<1>2. /\ sweep'[s].at = sweep[s].at /\ sweep'[s].todo = sweep[s].todo \ {m}
      /\ sweep'[s].batch = sweep[s].batch \/ sweep'[s].batch = sweep[s].batch \cup {m}
      /\ call' = call
    BY <1>1, SweepCounts DEF Release, Sweep
<1>3. sweep[s].at \in {"acks", "nacks"}
    BY <1>1, SweepCounts DEF Inv, Control, work, Empty
<1>4. /\ Cardinality(sweep'[s].todo) = Cardinality(sweep[s].todo) - 1
      /\ Cardinality(sweep[s].todo) > 0
      /\ \/ Cardinality(sweep'[s].batch) = Cardinality(sweep[s].batch)
         \/ Cardinality(sweep'[s].batch) = Cardinality(sweep[s].batch) + 1
    <2>1. sweep[s].todo \in SUBSET Messages /\ sweep[s].batch \in SUBSET Messages /\ m \in Messages
        BY SweepCounts
    <2>2. /\ Cardinality(sweep[s].todo \ {m}) = Cardinality(sweep[s].todo) - 1
          /\ Cardinality(sweep[s].todo) # 0
        BY <2>1, SetCounts
    <2>3. Cardinality(sweep[s].todo) > 0
        BY <2>2, SweepCounts
    <2>4. CASE m \in sweep[s].batch
        <3>1. sweep'[s].batch = sweep[s].batch
            BY <1>2, <2>4
        <3> QED BY <1>2, <2>2, <2>3, <3>1
    <2>5. CASE m \notin sweep[s].batch
        <3>1. Cardinality(sweep[s].batch \cup {m}) = Cardinality(sweep[s].batch) + 1
            BY <2>1, <2>5, SetCounts
        <3> QED BY <1>2, <2>2, <2>3, <3>1
    <2> QED BY <2>4, <2>5
<1>5. settlesAhead(s)' < settlesAhead(s) /\ settlesAhead(s)' \in Nat
    BY <1>2, <1>4, SweepCounts DEF settlesAhead
<1> QED BY <1>2, <1>3, <1>5, SweepCounts DEF sweepAhead

LEMMA SettleBatchAdvances ==
    ASSUME Inv, NEW s \in Sweepers, SettleBatch(s)
    PROVE  sweepAhead(s)' < sweepAhead(s) /\ sweepAhead(s)' \in Nat
<1>1. /\ sweep[s].batch # {} /\ sweep[s].at \in {"acks", "nacks"} /\ sweeps(s)
    BY SweepCounts DEF SettleBatch, Inv, Control, work, Empty, sweeps
<1>2. call[s].left = {}
    BY <1>1, NoSettle DEF work
<1>3. /\ sweep'[s].at = sweep[s].at /\ sweep'[s].todo = sweep[s].todo
      /\ sweep'[s].batch = {} /\ call'[s].left = sweep[s].batch
    BY SweepCounts DEF SettleBatch, Settle, NoCall, Sweep
<1>4. Cardinality({}) = 0 /\ Cardinality(sweep[s].batch) > 0
    BY <1>1, SweepCounts, SetCounts
<1>5. settlesAhead(s)' < settlesAhead(s) /\ settlesAhead(s)' \in Nat
    BY <1>2, <1>3, <1>4, SweepCounts DEF settlesAhead
<1> QED BY <1>1, <1>3, <1>5, SweepCounts DEF sweepAhead

LEMMA BatchSettledAdvances ==
    ASSUME Inv, NEW s \in Sweepers, BatchSettled(s)
    PROVE  sweepAhead(s)' < sweepAhead(s) /\ sweepAhead(s)' \in Nat
<1>1. /\ sweep[s].at \in {"acks", "nacks"}
      /\ sweep'[s].at = IF sweep[s].at = "acks" THEN "unstarted" ELSE "over"
    BY SweepCounts DEF BatchSettled, Sweep
<1> QED BY <1>1, SweepCounts DEF sweepAhead

LEMMA SweepAdvances ==
    ASSUME Inv, NEW s \in Sweepers, sweeps(s), SweepStep(s) \/ Respond(s)
    PROVE  sweepAhead(s)' < sweepAhead(s) /\ sweepAhead(s)' \in Nat
<1>1. CASE Respond(s)
    <2>1. ofSweep(s)
        <3>1. call[s] # NoCall
            BY <1>1 DEF Respond, NoCall
        <3>2. s = "loop" => lpc = "sweep"
            BY SweepApart DEF sweeps
        <3> QED BY <3>1, <3>2 DEF Inv, Calls, ofHandler, ofHandBack, Sweepers
    <2>2. /\ Cardinality(call'[s].left) = Cardinality(call[s].left) - 1 /\ sweep' = sweep
          /\ call'[s].left \in SUBSET Messages
        BY <1>1, AnswerCounts DEF Inv, Procs
    <2>3. Cardinality(call'[s].left) \in Nat
        BY <2>2, SetCounts
    <2>4. settlesAhead(s)' < settlesAhead(s) /\ settlesAhead(s)' \in Nat
        BY <2>2, <2>3, SweepCounts DEF settlesAhead
    <2> QED BY <2>1, <2>2, <2>4, SweepCounts DEF sweepAhead, ofSweep
<1> QED BY <1>1, TakeAdvances, ReleaseAdvances, SettleBatchAdvances, BatchSettledAdvances
        DEF SweepStep

\* Nobody else touches it.
LEMMA SweepUndisturbed ==
    ASSUME Inv, [Next]_vars, NEW s \in Sweepers, sweeps(s), ~SweepStep(s), ~Respond(s)
    PROVE  sweepAhead(s)' = sweepAhead(s) /\ sweep'[s] = sweep[s]
<1>1. /\ sweep \in [Sweepers -> Sweep] /\ call \in [Procs -> Call]
      /\ s = "callback" => lpc \notin Sweeping
      /\ s = "loop" => sweep["callback"].at = "over" /\ lpc = "sweep"
    BY SweepApart DEF Inv, TypeOK, sweeps
<1>2. sweep'[s] = sweep[s] /\ call'[s] = call[s]
    <2>1. CASE \E p \in Procs : Respond(p)
        <3>1. PICK p \in Procs \ {s} : Respond(p)
            BY <2>1
        <3> QED BY <3>1, AnswerCounts DEF Inv, Procs
    <2>2. CASE \E r \in Sweepers : SweepStep(r)
        <3>1. PICK r \in Sweepers \ {s} : SweepStep(r)
            BY <2>2
        <3> QED BY <1>1, <3>1 DEF SweepStep, Take, TakeSucceeded, TakeUnstarted, Release,
                SettleBatch, BatchSettled, Procs
    <2>3. CASE LoopStep
        <3>1. CASE s = "loop"
            BY <1>1, <2>3, <3>1 DEF LoopStep, Claim, LostBeforeStart, StartHandler, Succeeded,
                SettledByHandler, HandlerFailed, HandedBack, EndLoop, StopLeases, Return, sweeps
        <3>2. CASE s = "callback"
            BY <1>1, <2>3, <3>2 DEF LoopStep, Claim, LostBeforeStart, StartHandler, Succeeded,
                SettledByHandler, HandlerFailed, HandedBack, EndLoop, StopLeases, Return, sweeps,
                Procs
        <3> QED BY <3>1, <3>2 DEF Sweepers
    <2>4. CASE HandlerSettled \/ HandlerCallEnds \/ (\E o \in Final : HandlerCalls(o))
               \/ \E v \in {"ok", "err"} : HandlerReturns(v)
        <3>1. lpc = "handler"
            BY <2>4 DEF HandlerSettled, HandlerCallEnds, HandlerCalls, HandlerReturns
        <3>2. s = "callback"
            BY <1>1, <3>1 DEF Sweepers
        <3> QED BY <1>1, <2>4, <3>2
                DEF HandlerSettled, HandlerCallEnds, HandlerCalls, HandlerReturns, Procs
    <2>5. CASE Renew \/ RenewerStep
        BY <1>1, <2>5 DEF Renew, RenewerStep, Renewed, ReadSettled, ReadSettling, Sweepers, Procs
    <2>6. CASE RenewerStops \/ Land \/ Lapse \/ Shutdown \/ StopWork \/ Returned \/ UNCHANGED vars
        BY <2>6 DEF RenewerStops, Land, Lapse, Shutdown, StopWork, Returned, vars
    <2>7. CASE CallbackStarts
        BY <1>1, <2>7 DEF CallbackStarts, sweeps, Sweepers
    <2> QED BY <2>1, <2>2, <2>3, <2>4, <2>5, <2>6, <2>7 DEF Next
<1> QED BY <1>2 DEF sweepAhead, settlesAhead

SweepsBounded == \A s \in Sweepers : sweepAhead(s) \in 0..(6 * N + 4)

LEMMA SweepBoundStep ==
    ASSUME Inv, SweepsBounded, [Next]_vars PROVE SweepsBounded'
<1> SUFFICES ASSUME NEW s \in Sweepers PROVE sweepAhead(s)' \in 0..(6 * N + 4)
    BY DEF SweepsBounded
<1>1. N \in Nat /\ sweepAhead(s) \in 0..(6 * N + 4)
    BY SweepCounts DEF SweepsBounded
<1>2. CASE sweeps(s)
    BY <1>1, <1>2, SweepAdvances, SweepUndisturbed
<1>3. CASE ~sweeps(s)
    <2>1. sweep'[s].at \in {"waiting", "over", "flush"}
        <3>1. sweep \in [Sweepers -> Sweep] /\ sweep[s].at \in {"waiting", "over"}
            BY <1>3 DEF sweeps, Inv, TypeOK
        <3>2. CASE \E r \in Sweepers : SweepStep(r)
            <4>1. ~SweepStep(s)
                BY <3>1 DEF SweepStep, Take, TakeSucceeded, TakeUnstarted, Release, SettleBatch,
                        BatchSettled, Inv, Control, Empty, work, first
            <4>2. PICK r \in Sweepers \ {s} : SweepStep(r)
                BY <3>2, <4>1
            <4> QED BY <3>1, <4>2 DEF SweepStep, Take, TakeSucceeded, TakeUnstarted, Release,
                    SettleBatch, BatchSettled
        <3>3. CASE CallbackStarts \/ LoopStep
            BY <3>1, <3>3 DEF CallbackStarts, LoopStep, Claim, LostBeforeStart, StartHandler,
                Succeeded, SettledByHandler, HandlerFailed, HandedBack, EndLoop, StopLeases,
                Return, Sweep
        <3>4. CASE UNCHANGED sweep
            BY <3>1, <3>4
        <3> QED BY <3>2, <3>3, <3>4, NextSplits, ElsewhereKeeps DEF HandlerCalls, HandlerReturns
    <2> QED BY <1>1, <2>1 DEF sweepAhead
<1> QED BY <1>2, <1>3

\* flush and handBackUnstarted are over within 6N + 4 steps of the sweeper's
\* own, whoever runs them.  What the handler in hand does is not among the
\* things they wait for, only rounds and the broker are (dispatchBatch,
\* context.AfterFunc).
THEOREM SweepsEnd == Spec => SweepsShrink /\ []SweepsBounded
<1>1. Inv /\ SweepsBounded /\ SweepsBounded' /\ [Next]_vars =>
        [\A s \in Sweepers : sweeps(s) =>
            /\ SweepStep(s) \/ Respond(s) => sweepAhead(s)' < sweepAhead(s)
            /\ sweepAhead(s)' <= sweepAhead(s)]_vars
    <2> SUFFICES ASSUME Inv, SweepsBounded, SweepsBounded', [Next]_vars,
                        NEW s \in Sweepers, sweeps(s)
                 PROVE  /\ SweepStep(s) \/ Respond(s) => sweepAhead(s)' < sweepAhead(s)
                        /\ sweepAhead(s)' <= sweepAhead(s)
        OBVIOUS
    <2>1. sweepAhead(s) \in Int /\ sweepAhead(s)' \in Int
        BY DEF SweepsBounded
    <2> QED BY <2>1, SweepAdvances, SweepUndisturbed
<1>2. Init => SweepsBounded
    BY BatchAssumption DEF Init, NoSweep, SweepsBounded, sweepAhead
<1>3. Inv /\ SweepsBounded /\ [Next]_vars => SweepsBounded'
    BY SweepBoundStep
<1> QED BY <1>1, <1>2, <1>3, InvHolds, PTL DEF Spec, SweepsShrink

-----------------------------------------------------------------------------
\* The end of dispatchBatch.

LEMMA EndAdvances ==
    ASSUME Inv, SweepsBounded, ending, LoopStep \/ SweepStep("loop") \/ Respond("loop")
    PROVE  endAhead' < endAhead
<1>1. /\ N \in Nat /\ sweep["loop"].at \in {"waiting", "flush", "acks", "unstarted", "nacks", "over"}
      /\ sweep \in [Sweepers -> Sweep] /\ sweepAhead("loop") \in 0..(6 * N + 4)
      /\ "loop" \in Sweepers /\ "loop" \in Procs
    BY SweepCounts DEF SweepsBounded, Sweepers
<1>2. CASE SweepStep("loop") \/ Respond("loop")
    <2>1. lpc' = lpc
        BY <1>2 DEF SweepStep, Take, TakeSucceeded, TakeUnstarted, Release, SettleBatch,
            BatchSettled, Respond, workVars
    <2>2. sweeps("loop")
        <3>1. CASE SweepStep("loop")
            BY <1>1, <3>1 DEF SweepStep, Take, TakeSucceeded, TakeUnstarted, Release,
                SettleBatch, BatchSettled, Inv, Control, Empty, work, first, sweeps
        <3>2. CASE Respond("loop")
            <4>1. call["loop"] # NoCall
                BY <3>2 DEF Respond, NoCall
            <4> QED BY <4>1 DEF Inv, Calls, ofSweep, ofHandler, ofHandBack, ending, sweeps
        <3> QED BY <1>2, <3>1, <3>2
    <2>3. lpc = "sweep"
        BY <1>1, <2>2, SweepApart DEF sweeps
    <2>4. sweepAhead("loop")' < sweepAhead("loop") /\ sweepAhead("loop")' \in Nat
        BY <1>1, <1>2, <2>2, SweepAdvances
    <2> QED BY <1>1, <2>1, <2>3, <2>4 DEF endAhead
<1>3. CASE EndLoop
    <2>1. lpc = "ended" /\ lpc' = "sweep" /\ sweep'["loop"].at = "flush"
        BY <1>1, <1>3 DEF EndLoop, Sweep
    <2> QED BY <1>1, <2>1 DEF endAhead, sweepAhead
<1>4. CASE StopLeases
    <2>1. lpc = "sweep" /\ lpc' = "stopping"
        BY <1>4 DEF StopLeases
    <2> QED BY <1>1, <2>1 DEF endAhead
<1>5. CASE Return
    <2>1. lpc = "stopping" /\ lpc' = "done"
        BY <1>5 DEF Return
    <2> QED BY <2>1 DEF endAhead
<1>6. CASE LoopStep /\ ~EndLoop /\ ~StopLeases /\ ~Return
    BY <1>6 DEF LoopStep, Claim, LostBeforeStart, StartHandler, Succeeded, SettledByHandler,
        HandlerFailed, HandedBack, ending
<1> QED BY <1>2, <1>3, <1>4, <1>5, <1>6

LEMMA EndUndisturbed ==
    ASSUME Inv, [Next]_vars, ending, ~LoopStep, ~SweepStep("loop"), ~Respond("loop")
    PROVE  endAhead' = endAhead
<1>1. lpc' = lpc
    <2>1. CASE \E r \in Sweepers : SweepStep(r)
        BY <2>1 DEF SweepStep, Take, TakeSucceeded, TakeUnstarted, Release, SettleBatch,
            BatchSettled, workVars
    <2>2. CASE (\E o \in Final : HandlerCalls(o)) \/ \E v \in {"ok", "err"} : HandlerReturns(v)
        BY <2>2 DEF HandlerCalls, HandlerReturns, ending
    <2>3. CASE CallbackStarts
        BY <2>3 DEF CallbackStarts, workVars
    <2> QED BY <2>1, <2>2, <2>3, NextSplits, ElsewhereKeeps
<1>2. CASE lpc = "sweep" /\ sweeps("loop")
    <2>1. sweepAhead("loop")' = sweepAhead("loop")
        BY <1>2, SweepUndisturbed DEF Sweepers
    <2> QED BY <1>1, <1>2, <2>1 DEF endAhead
<1>3. CASE lpc = "sweep" /\ ~sweeps("loop")
    <2>1. sweep["loop"].at = "over"
        BY <1>3 DEF Inv, Control, Sweeping, sweeps
    <2>2. sweep'["loop"] = sweep["loop"]
        <3>1. sweep \in [Sweepers -> Sweep]
            BY DEF Inv, TypeOK
        <3>2. CASE \E r \in Sweepers : SweepStep(r)
            <4>1. PICK r \in Sweepers : r # "loop" /\ SweepStep(r)
                BY <3>2
            <4>2. "loop" \in Sweepers
                BY DEF Sweepers
            <4> QED BY <3>1, <4>1, <4>2 DEF SweepStep, Take, TakeSucceeded, TakeUnstarted,
                    Release, SettleBatch, BatchSettled
        <3>3. CASE CallbackStarts
            BY <3>1, <3>3 DEF CallbackStarts, Sweepers
        <3>4. CASE UNCHANGED sweep
            BY <3>4
        <3> QED BY <3>2, <3>3, <3>4, NextSplits, ElsewhereKeeps DEF HandlerCalls, HandlerReturns
    <2> QED BY <1>1, <1>3, <2>1, <2>2 DEF endAhead, sweepAhead
<1>4. CASE lpc \in {"ended", "stopping"}
    BY <1>1, <1>4 DEF endAhead
<1> QED BY <1>2, <1>3, <1>4 DEF ending

EndBounded == endAhead \in 0..(6 * N + 7)

\* Once its loop has ended, dispatchBatch is 6N + 7 steps of its own from its
\* return.  On the way it waits for a callback that has started, for rounds and
\* for the renewer, of which SweepsEnd and RoundsEnd say that they wait for
\* nothing of the loop's: none of the three waits in a circle (dispatchBatch,
\* stopFlush and leases.stop).
THEOREM BatchWindsDown == Spec => EndShrinks /\ []EndBounded
<1>1. Inv /\ SweepsBounded /\ EndBounded /\ EndBounded' /\ [Next]_vars =>
        [ending =>
            /\ LoopStep \/ SweepStep("loop") \/ Respond("loop") => endAhead' < endAhead
            /\ endAhead' <= endAhead]_vars
    <2> SUFFICES ASSUME Inv, SweepsBounded, EndBounded, EndBounded', [Next]_vars, ending
                 PROVE  /\ LoopStep \/ SweepStep("loop") \/ Respond("loop") =>
                                endAhead' < endAhead
                        /\ endAhead' <= endAhead
        OBVIOUS
    <2>1. endAhead \in Int /\ endAhead' \in Int
        BY DEF EndBounded
    <2> QED BY <2>1, EndAdvances, EndUndisturbed
<1>2. SweepsBounded => EndBounded
    BY BatchAssumption DEF SweepsBounded, EndBounded, endAhead, Sweepers
<1> QED BY <1>1, <1>2, SweepsEnd, InvHolds, PTL DEF Spec, EndShrinks

=============================================================================
