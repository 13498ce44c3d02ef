------------------------------ MODULE Dispatch ------------------------------
(***************************************************************************)
(* One delivered message, from the handler's start to the end of dispatch  *)
(* (consume.go: dispatch, keepLease; message.go: Ack, Nack, Extend).       *)
(*                                                                         *)
(* Two goroutines share the message: the worker, which runs the handler    *)
(* and then settles, and the lease keeper, which renews on a ticker.  They *)
(* meet in the message's atomics (settled, settling), in the channels done *)
(* and gone and in the handler's context, and at the broker, which holds   *)
(* the lease.  Each read or write of an atomic is a step of its own.       *)
(*                                                                         *)
(* External: the broker (lease), the network (a request may be answered,   *)
(* refused, applied with its reply lost, or arrive after the client gave   *)
(* it up), the handler, and time: a lease may lapse at any moment, a tick  *)
(* may come and a context's deadline may pass whenever the code looks.     *)
(***************************************************************************)
EXTENDS Integers

CONSTANTS
    AutoExtend,  \* consumeConfig.autoExtend
    Requeue,     \* consumeConfig.requeue
    Leased,      \* Message.Leased(): the message has a receipt
    Attempts,    \* config.attempts, for one settle
    MaxCalls     \* bound: settle calls the handler makes itself

ASSUME DispatchAssumption ==
    /\ AutoExtend \in BOOLEAN /\ Requeue \in BOOLEAN /\ Leased \in BOOLEAN
    /\ Attempts \in Nat \ {0}
    /\ MaxCalls \in Nat

VARIABLES
    lease,      \* broker: the state of the receipt handle
    late,       \* requests given up by the client that may still reach the broker
    settled,    \* Message.settled
    settling,   \* Message.settling
    req,        \* goroutine -> its run of settleFrom
    wpc,        \* where the worker is in dispatch
    kpc,        \* where the keeper goroutine is
    done,       \* leaseKeeper.done is closed
    gone,       \* leaseKeeper.gone is closed
    cancelled,  \* the handler's context has ended
    verdict,    \* what the handler returned
    asked,      \* what the handler itself called
    calls,      \* how many times it did
    reported,   \* onError was called
    doubt       \* ghost: an ack failed in a way that may have landed

msgVars  == <<settled, settling>>
keepVars == <<kpc, done, gone>>
workVars == <<wpc, verdict, asked, calls, reported>>
vars == <<lease, late, msgVars, req, keepVars, workVars, cancelled, doubt>>

Procs     == {"worker", "keeper"}
SettleOps == {"ack", "nack", "extend"}
\* Settling the message, as opposed to keeping its lease.
Final     == {"ack", "nack"}

\* What one request (do with once set) comes back with: 204, 410, an Uncertain
\* error, a certain error worth retrying, any other error.
Answers == {"ok", "gone", "unsure", "refused", "rejected"}

\* settleFrom's locals: where it is, op, attempt, mayHaveLanded, and the last
\* answer ("none" before the first).
Req == [at : {"none", "send", "answer", "mark", "leave"}, op : SettleOps,
        attempt : 0..(Attempts - 1), may : BOOLEAN, ans : Answers \cup {"none"}]

NoReq == [at |-> "none", op |-> "extend", attempt |-> 0, may |-> FALSE, ans |-> "none"]

Init ==
    /\ lease = IF Leased THEN "held" ELSE "none"
    /\ late = {}
    /\ settled = FALSE
    /\ settling = 0
    /\ req = [p \in Procs |-> NoReq]
    /\ wpc = "handler"
    /\ kpc = IF AutoExtend /\ Leased THEN "select" ELSE "finished"
    /\ done = FALSE
    /\ gone = FALSE
    /\ cancelled = FALSE
    /\ verdict = "running"
    /\ asked = {}
    /\ calls = 0
    /\ reported = FALSE
    /\ doubt = FALSE

-----------------------------------------------------------------------------
\* The broker and the network (external).

\* The lease after the broker has processed o.
applied(o) ==
    IF lease # "held" THEN lease
    ELSE CASE o = "ack" -> "acked" [] o = "nack" -> "requeued" [] OTHER -> "held"

\* The broker answered: 204 for a handle it holds, 410 for one it does not.
Answered(p) ==
    /\ req[p].at = "send"
    /\ lease' = applied(req[p].op)
    /\ req' = [req EXCEPT ![p].at = "answer",
                          ![p].ans = IF lease = "held" THEN "ok" ELSE "gone"]
    /\ UNCHANGED <<late, doubt>>

\* The client cannot tell: the request was applied, may be later, or never is.
Unsure(p) ==
    /\ req[p].at = "send"
    /\ req' = [req EXCEPT ![p].at = "answer", ![p].ans = "unsure"]
    /\ doubt' = (doubt \/ req[p].op = "ack")
    /\ \/ lease' = applied(req[p].op) /\ UNCHANGED late
       \/ late' = late \cup {req[p].op} /\ UNCHANGED lease
       \/ UNCHANGED <<lease, late>>

\* Turned down before anything acted on it.
TurnedDown(p, a) ==
    /\ req[p].at = "send"
    /\ req' = [req EXCEPT ![p].at = "answer", ![p].ans = a]
    /\ UNCHANGED <<lease, late, doubt>>

Respond(p) ==
    /\ Answered(p) \/ Unsure(p) \/ \E a \in {"refused", "rejected"} : TurnedDown(p, a)
    /\ UNCHANGED <<msgVars, keepVars, workVars, cancelled>>

\* A request the client gave up on arrives.
Land(o) ==
    /\ o \in late
    /\ lease' = applied(o)
    /\ late' = late \ {o}
    /\ UNCHANGED <<msgVars, req, keepVars, workVars, cancelled, doubt>>

\* The visibility timeout passes.
Lapse ==
    /\ lease = "held"
    /\ lease' = "lapsed"
    /\ UNCHANGED <<late, msgVars, req, keepVars, workVars, cancelled, doubt>>

-----------------------------------------------------------------------------
\* settleFrom, run by p.

\* settleFrom is entered: an ack or nack is in flight until it returns.
Begin(p, o) ==
    /\ req' = [req EXCEPT ![p] = [NoReq EXCEPT !.at = "send", !.op = o]]
    /\ settling' = IF o \in Final THEN settling + 1 ELSE settling

\* Mutant: any 410 of an ack is taken for a lost reply.
acceptedGone(r) == r.ans = "ok" \/ (r.op = "ack" /\ r.ans = "gone")

\* A 204; or, for an ack only, a 410 after an attempt that may have landed.
accepted(r) == r.ans = "ok" \/ (r.op = "ack" /\ r.may /\ r.ans = "gone")

retryable(r) == r.ans \in {"unsure", "refused"} /\ r.attempt < Attempts - 1

Accept(p) ==
    /\ req[p].at = "answer" /\ accepted(req[p])
    /\ req' = [req EXCEPT ![p].at = IF req[p].op \in Final THEN "mark" ELSE "leave",
                          ![p].ans = "ok"]
    /\ UNCHANGED <<settled, settling>>

\* settledBy
Mark(p) ==
    /\ req[p].at = "mark"
    /\ settled' = TRUE
    /\ req' = [req EXCEPT ![p].at = "leave"]
    /\ UNCHANGED settling

\* The error is final, or the context ended before the retry.
Reject(p) ==
    /\ req[p].at = "answer" /\ ~accepted(req[p])
    /\ req' = [req EXCEPT ![p].at = "leave"]
    /\ UNCHANGED <<settled, settling>>

Resend(p) ==
    /\ req[p].at = "answer" /\ ~accepted(req[p]) /\ retryable(req[p])
    /\ req' = [req EXCEPT ![p].at = "send", ![p].attempt = @ + 1,
                          ![p].may = @ \/ req[p].ans = "unsure"]
    /\ UNCHANGED <<settled, settling>>

\* Mutant: the decrement is forgotten.
LeaveCounted(p) ==
    /\ req[p].at = "leave"
    /\ req' = [req EXCEPT ![p] = [NoReq EXCEPT !.op = req[p].op, !.ans = req[p].ans]]
    /\ UNCHANGED <<settled, settling>>

\* The deferred decrement, and the return.
Leave(p) ==
    /\ req[p].at = "leave"
    /\ settling' = IF req[p].op \in Final THEN settling - 1 ELSE settling
    /\ req' = [req EXCEPT ![p] = [NoReq EXCEPT !.op = req[p].op, !.ans = req[p].ans]]
    /\ UNCHANGED settled

SettleStep(p) ==
    /\ Accept(p) \/ Mark(p) \/ Reject(p) \/ Resend(p) \/ Leave(p)
    /\ UNCHANGED <<lease, late, keepVars, workVars, cancelled, doubt>>

-----------------------------------------------------------------------------
\* The worker: dispatch.

\* The handler calls Ack, Nack or Extend on its message.
HandlerCalls(o) ==
    /\ wpc = "handler" /\ req["worker"].at = "none"
    /\ Leased /\ calls < MaxCalls
    /\ asked' = asked \cup {o}
    /\ calls' = calls + 1
    /\ Begin("worker", o)
    /\ UNCHANGED <<lease, late, settled, keepVars, wpc, verdict, reported, cancelled, doubt>>

\* The handler returns (a panic is an error), and dispatch stops the keeper.
HandlerReturns(v) ==
    /\ wpc = "handler" /\ req["worker"].at = "none"
    /\ verdict' = v
    /\ done' = TRUE
    /\ wpc' = "stopping"
    /\ UNCHANGED <<lease, late, msgVars, req, kpc, gone, asked, calls, reported, cancelled, doubt>>

\* Mutant: stop does not wait for the goroutine.
stoppedAtOnce == wpc = "stopping"

\* keeper.stop() has returned.
stopped == wpc = "stopping" /\ kpc = "finished"

\* keeper.lost(), on a message nobody settled: report it and leave it alone.
LostMidHandler ==
    /\ stopped /\ Leased /\ ~settled /\ gone
    /\ reported' = TRUE
    /\ wpc' = "done"
    /\ cancelled' = TRUE
    /\ UNCHANGED <<lease, late, msgVars, req, keepVars, verdict, asked, calls, doubt>>

lostLease == ~settled /\ gone

\* The handler failed: report it, and hand the message back if it may be.
HandlerFailed ==
    /\ stopped /\ Leased /\ ~lostLease /\ verdict = "err"
    /\ reported' = TRUE
    /\ \/ /\ Requeue /\ ~settled
          /\ Begin("worker", "nack") /\ wpc' = "settle" /\ UNCHANGED cancelled
       \/ /\ ~(Requeue /\ ~settled)
          /\ wpc' = "done" /\ cancelled' = TRUE /\ UNCHANGED <<req, settling>>
    /\ UNCHANGED <<lease, late, settled, keepVars, verdict, asked, calls, doubt>>

\* Mutant: the failure is reported, but dispatch goes on to the ack.
AckAnyway ==
    /\ stopped /\ Leased /\ ~lostLease /\ ~settled
    /\ Begin("worker", "ack")
    /\ wpc' = "settle"
    /\ UNCHANGED <<lease, late, settled, keepVars, verdict, asked, calls, reported, cancelled, doubt>>

\* The handler succeeded on a message it has not settled itself.
AckIt ==
    /\ stopped /\ Leased /\ ~lostLease /\ verdict = "ok" /\ ~settled
    /\ Begin("worker", "ack")
    /\ wpc' = "settle"
    /\ UNCHANGED <<lease, late, settled, keepVars, verdict, asked, calls, reported, cancelled, doubt>>

\* Nothing left to settle.
NothingToSettle ==
    /\ stopped
    /\ ~Leased \/ (settled /\ verdict = "ok")
    /\ wpc' = "done"
    /\ cancelled' = TRUE
    /\ UNCHANGED <<lease, late, msgVars, req, keepVars, verdict, asked, calls, reported, doubt>>

\* The consumer's own Ack or Nack returned; only a failed ack is reported.
SettleReturned ==
    /\ wpc = "settle" /\ req["worker"].at = "none"
    /\ reported' = (reported \/ (req["worker"].op = "ack" /\ req["worker"].ans # "ok"))
    /\ wpc' = "done"
    /\ cancelled' = TRUE
    /\ UNCHANGED <<lease, late, msgVars, req, keepVars, verdict, asked, calls, doubt>>

\* Consume's shutdown grace ran out: stopWork ends the handler's context.
StopWork ==
    /\ ~cancelled
    /\ cancelled' = TRUE
    /\ UNCHANGED <<lease, late, msgVars, req, keepVars, workVars, doubt>>

-----------------------------------------------------------------------------
\* The keeper: keepLease's goroutine.

\* Mutant: only the context ends the goroutine.
KeeperStopsOnContext ==
    /\ kpc = "select" /\ cancelled
    /\ kpc' = "finished"
    /\ UNCHANGED <<lease, late, msgVars, req, done, gone, workVars, cancelled, doubt>>

\* select: done or the context.
KeeperStops ==
    /\ kpc = "select" /\ (done \/ cancelled)
    /\ kpc' = "finished"
    /\ UNCHANGED <<lease, late, msgVars, req, done, gone, workVars, cancelled, doubt>>

\* select: a tick.  A settled message has no lease to renew.
KeeperTicks ==
    /\ kpc = "select"
    /\ \/ settled /\ kpc' = "finished" /\ UNCHANGED <<req, settling>>
       \/ ~settled /\ kpc' = "extend" /\ Begin("keeper", "extend")
    /\ UNCHANGED <<lease, late, settled, done, gone, workVars, cancelled, doubt>>

\* Mutant: any failure of a renewal raises it.
KeeperDoubts ==
    /\ kpc = "extend" /\ req["keeper"].at = "none"
    /\ kpc' = IF req["keeper"].ans # "ok" THEN "readSettled" ELSE "select"
    /\ UNCHANGED <<lease, late, msgVars, req, done, gone, workVars, cancelled, doubt>>

\* Extend returned: only a 410 raises the question whether the lease is lost.
KeeperRenewed ==
    /\ kpc = "extend" /\ req["keeper"].at = "none"
    /\ kpc' = IF req["keeper"].ans = "gone" THEN "readSettled" ELSE "select"
    /\ UNCHANGED <<lease, late, msgVars, req, done, gone, workVars, cancelled, doubt>>

\* !msg.isSettled() && ...
KeeperReadsSettled ==
    /\ kpc = "readSettled"
    /\ kpc' = IF settled THEN "select" ELSE "readSettling"
    /\ UNCHANGED <<lease, late, msgVars, req, done, gone, workVars, cancelled, doubt>>

\* ... !msg.isSettling(): then the lease is lost and the handler is cancelled.
KeeperReadsSettling ==
    /\ kpc = "readSettling"
    /\ kpc' = IF settling > 0 THEN "select" ELSE "finished"
    /\ gone' = (settling = 0)
    /\ cancelled' = (cancelled \/ settling = 0)
    /\ UNCHANGED <<lease, late, msgVars, req, done, workVars, doubt>>

-----------------------------------------------------------------------------

Dispatching ==
    LostMidHandler \/ HandlerFailed \/ AckIt \/ NothingToSettle \/ SettleReturned

Keeping == KeeperTicks \/ KeeperRenewed \/ KeeperReadsSettled \/ KeeperReadsSettling

\* dispatch has returned; what the broker does goes on.
Returned == wpc = "done" /\ UNCHANGED vars

Next ==
    \/ \E p \in Procs : Respond(p) \/ SettleStep(p)
    \/ \E o \in SettleOps : Land(o) \/ HandlerCalls(o)
    \/ \E v \in {"ok", "err"} : HandlerReturns(v)
    \/ Lapse \/ StopWork \/ Dispatching \/ KeeperStops \/ Keeping \/ Returned

\* Goroutines run, and requests end by their timeout.  select chooses at random
\* among ready channels, so a closed done is not passed over for ever.  Nothing
\* is assumed of the handler.
Fairness ==
    /\ \A p \in Procs : WF_vars(Respond(p)) /\ WF_vars(SettleStep(p))
    /\ WF_vars(Dispatching)
    /\ WF_vars(KeeperRenewed \/ KeeperReadsSettled \/ KeeperReadsSettling)
    /\ SF_vars(KeeperStops)

Spec == Init /\ [][Next]_vars

FairSpec == Spec /\ Fairness

-----------------------------------------------------------------------------
\* Properties

TypeOK ==
    /\ lease \in {"held", "acked", "requeued", "lapsed", "none"}
    /\ late \subseteq SettleOps
    /\ settled \in BOOLEAN
    /\ settling \in 0..1
    /\ req \in [Procs -> Req]
    /\ wpc \in {"handler", "stopping", "settle", "done"}
    /\ kpc \in {"select", "extend", "readSettled", "readSettling", "finished"}
    /\ done \in BOOLEAN /\ gone \in BOOLEAN /\ cancelled \in BOOLEAN
    /\ verdict \in {"running", "ok", "err"}
    /\ asked \subseteq SettleOps
    /\ calls \in 0..MaxCalls
    /\ reported \in BOOLEAN /\ doubt \in BOOLEAN

\* While the consumer settles a message, and after it, no renewal of it is
\* running or can start: stop() waits for the keeper (consume.go, stop).
QuietAtSettle == wpc \in {"settle", "done"} => kpc = "finished"

\* The keeper cancels the handler only over a lease the broker no longer holds:
\* a transient failure of a renewal is not proof that it is gone.
CancelsOnlyLostLeases == gone => lease # "held"

\* A handler that succeeded does not have its message redelivered in silence:
\* the failure is reported, or the ack was given the benefit of the doubt after
\* an attempt that may have landed (Message.Ack).
NoSilentRedelivery ==
    /\ wpc = "done" /\ Leased /\ verdict = "ok" /\ "nack" \notin asked
    /\ lease # "acked"
    => reported \/ doubt

\* A message is settled only once the broker is done with its handle, so
\* dispatch never leaves a held lease behind for a message it calls settled.
SettledIsSpent == settled => lease # "held"

\* Every step is one the abstract delivery allows: acked only after success or
\* at the handler's request, handed back only at its request or, unless
\* WithoutRequeue was given, after failure, and never taken back.
Promise == INSTANCE Delivery WITH lease <- lease, verdict <- verdict, asked <- asked
DeliversAsPromised == Promise!Spec

\* Once the handler has returned, dispatch returns: the worker, waiting for the
\* keeper, and the keeper, waiting for the broker, do not wait for ever.
DispatchEnds == wpc = "stopping" ~> wpc = "done"

=============================================================================
