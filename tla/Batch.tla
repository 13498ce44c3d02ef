------------------------------- MODULE Batch --------------------------------
(***************************************************************************)
(* A batch of delivered messages, from the poll's reply to the end of      *)
(* dispatchBatch (consume_batch.go: dispatchBatch, batchLeases).           *)
(*                                                                         *)
(* Three goroutines share the batch: the loop, which runs the handler over *)
(* the messages in order; the renewer, which extends every lease still     *)
(* held, in rounds under the round mutex; and the callback shutdown sets   *)
(* off, which acks what has succeeded and hands back what has not started  *)
(* while the loop may still be in a handler.  A critical section of mu is  *)
(* one step.                                                               *)
(*                                                                         *)
(* A settle, of one message or of many, is a call with an outcome for each *)
(* message: what may come of it is what module SettleMany shows of its     *)
(* rounds and retries.  External: the broker, the handler, shutdown, and   *)
(* time: a lease may lapse, and a tick may come, at any moment.            *)
(***************************************************************************)
EXTENDS Integers, FiniteSets

CONSTANTS
    N,        \* len(msgs), all of them leased
    Requeue,  \* consumeConfig.requeue
    MaxCalls  \* bound: settle calls the handler makes itself, over the batch

ASSUME BatchAssumption ==
    /\ N \in Nat \ {0} /\ Requeue \in BOOLEAN /\ MaxCalls \in Nat

Messages == 1..N

VARIABLES
    lease,      \* broker: message -> the state of its receipt handle
    late,       \* <<op, m>> given up by the client that may still reach the broker
    doubt,      \* ghost: messages a 410 was taken for an ack of: one that an
                \* earlier request may have carried out
    settled,    \* the messages marked settled
    settling,   \* the messages with an ack or nack of the handler's in flight
    call,       \* goroutine -> its settle in progress
    held, gone, \* the batchLeases flags
    rpc, look,  \* where the renewer is; the messages of the round to look at
    done,       \* batchLeases.done is closed
    pollDone,   \* pollCtx has ended: shutdown has begun
    workDone,   \* workCtx has ended: the grace period is over
    succeeded, next, handedBack,  \* dispatchBatch's, guarded by mu
    lpc,        \* where the loop is
    sweep,      \* loop and callback -> their flush and handBackUnstarted
    verdict,    \* message -> how far the handler got
    asked,      \* message -> what the handler itself called
    calls,      \* how many times it did
    reported,   \* the messages reported to onError
    sent        \* ghost: the settles of the consumer's own, <<who, op, m>>

brokerVars == <<lease, late, doubt>>
settleVars == <<settled, settling>>
renewVars  == <<held, gone, rpc, look, done>>
muVars     == <<succeeded, next, handedBack>>
workVars   == <<lpc, verdict, asked, calls>>
ctxVars    == <<pollDone, workDone>>
vars == <<brokerVars, settleVars, call, renewVars, ctxVars, muVars, workVars,
          sweep, reported, sent>>

Sweepers  == {"loop", "callback"}
Procs     == Sweepers \cup {"renewer"}
SettleOps == {"ack", "nack", "extend"}
Final     == {"ack", "nack"}
Answers   == {"ok", "gone", "failed"}

\* A settle: its operation, the messages still unanswered, and the messages by
\* the answer they got: done (nil), ErrLeaseLost, or any other error.
Call == [op : SettleOps \cup {"none"}, left : SUBSET Messages,
         ok : SUBSET Messages, gone : SUBSET Messages, failed : SUBSET Messages]

NoCall == [op |-> "none", left |-> {}, ok |-> {}, gone |-> {}, failed |-> {}]

Settle(o, M) == [NoCall EXCEPT !.op = o, !.left = M]

\* flush and handBackUnstarted: the messages still to release, and those to
\* settle.
Sweep == [at : {"waiting", "flush", "acks", "unstarted", "nacks", "over"},
          todo : SUBSET Messages, batch : SUBSET Messages]

NoSweep == [at |-> "waiting", todo |-> {}, batch |-> {}]

Init ==
    /\ lease = [m \in Messages |-> "held"]
    /\ late = {} /\ doubt = {}
    /\ settled = {} /\ settling = {}
    /\ call = [p \in Procs |-> NoCall]
    /\ held = Messages /\ gone = {}
    /\ rpc = "select" /\ look = {} /\ done = FALSE
    /\ pollDone = FALSE /\ workDone = FALSE
    /\ succeeded = {} /\ next = 1 /\ handedBack = FALSE
    /\ lpc = "top"
    /\ sweep = [s \in Sweepers |-> NoSweep]
    /\ verdict = [m \in Messages |-> "unstarted"]
    /\ asked = [m \in Messages |-> {}]
    /\ calls = 0
    /\ reported = {} /\ sent = {}

\* The message the loop is at.
hand == next - 1

-----------------------------------------------------------------------------
\* The broker and the network (external), for message m of p's settle.

applied(o, m) ==
    IF lease[m] # "held" \/ o = "extend" THEN lease
    ELSE [lease EXCEPT ![m] = IF o = "ack" THEN "acked" ELSE "requeued"]

answer(p, m, a) ==
    call' = [call EXCEPT ![p] = [call[p] EXCEPT !.left = @ \ {m},
        !.ok = IF a = "ok" THEN @ \cup {m} ELSE @,
        !.gone = IF a = "gone" THEN @ \cup {m} ELSE @,
        !.failed = IF a = "failed" THEN @ \cup {m} ELSE @]]

\* 204 for a handle the broker holds, 410 for one it does not.
Answered(p, m) ==
    /\ lease' = applied(call[p].op, m)
    /\ answer(p, m, IF lease[m] = "held" THEN "ok" ELSE "gone")
    /\ UNCHANGED <<late, doubt>>

\* A 410 for an ack that an earlier round may have carried out: success.
BenefitOfDoubt(p, m) ==
    /\ call[p].op = "ack" /\ lease[m] # "held"
    /\ doubt' = doubt \cup {m}
    /\ answer(p, m, "ok")
    /\ UNCHANGED <<lease, late>>

\* An error: the settle was carried out, may be later, or never is.
Errored(p, m) ==
    /\ answer(p, m, "failed")
    /\ UNCHANGED doubt
    /\ \/ UNCHANGED <<lease, late>>
       \/ call[p].op \in Final /\ lease' = applied(call[p].op, m) /\ UNCHANGED late
       \/ call[p].op \in Final /\ late' = late \cup {<<call[p].op, m>>} /\ UNCHANGED lease

Respond(p) ==
    /\ \E m \in call[p].left : Answered(p, m) \/ BenefitOfDoubt(p, m) \/ Errored(p, m)
    /\ UNCHANGED <<settleVars, renewVars, ctxVars, muVars, workVars, sweep, reported, sent>>

\* A settle the client gave up on arrives.
Land ==
    /\ \E o \in Final, m \in Messages : <<o, m>> \in late /\
          lease' = applied(o, m) /\ late' = late \ {<<o, m>>}
    /\ UNCHANGED <<doubt, settleVars, call, renewVars, ctxVars, muVars, workVars,
                   sweep, reported, sent>>

\* A visibility timeout passes.
Lapse ==
    /\ \E m \in Messages :
          lease[m] = "held" /\ lease' = [lease EXCEPT ![m] = "lapsed"]
    /\ UNCHANGED <<late, doubt, settleVars, call, renewVars, ctxVars, muVars, workVars,
                   sweep, reported, sent>>

\* The caller cancels Consume; later the grace period ends.
Shutdown ==
    /\ ~pollDone
    /\ pollDone' = TRUE
    /\ UNCHANGED <<brokerVars, settleVars, call, renewVars, workDone, muVars, workVars,
                   sweep, reported, sent>>

StopWork ==
    /\ pollDone /\ ~workDone
    /\ workDone' = TRUE
    /\ UNCHANGED <<brokerVars, settleVars, call, renewVars, pollDone, muVars, workVars,
                   sweep, reported, sent>>

-----------------------------------------------------------------------------
\* The renewer.

\* Mutant: release does not wait for the round.
anyTime == TRUE

\* Mutant: release also waits for the handler in hand.
handlerOver == rpc \in {"select", "finished"} /\ lpc # "handler"

\* release takes the round mutex, which a round holds to its end.
roundOver == rpc \in {"select", "finished"}

RenewerStops ==
    /\ rpc = "select" /\ (done \/ workDone)
    /\ rpc' = "finished"
    /\ UNCHANGED <<brokerVars, settleVars, call, held, gone, look, done, ctxVars, muVars,
                   workVars, sweep, reported, sent>>

\* The leases a round extends.
renewable == held \ settled

\* A tick: one request extends them all.
Renew ==
    /\ rpc = "select" /\ renewable # {}
    /\ call' = [call EXCEPT !["renewer"] = Settle("extend", renewable)]
    /\ rpc' = "extending"
    /\ UNCHANGED <<brokerVars, settleVars, held, gone, look, done, ctxVars, muVars, workVars,
                   sweep, reported, sent>>

\* The outcomes that may mean a lost lease.
lapsedOf(c) == c.gone

\* settleMany has returned.
Renewed ==
    /\ rpc = "extending" /\ call["renewer"].left = {}
    /\ look' = lapsedOf(call["renewer"])
    /\ rpc' = IF look' = {} THEN "select" ELSE "readSettled"
    /\ call' = [call EXCEPT !["renewer"] = NoCall]
    /\ UNCHANGED <<brokerVars, settleVars, held, gone, done, ctxVars, muVars, workVars,
                   sweep, reported, sent>>

first(m, M) == m \in M /\ \A k \in M : m <= k

\* The round goes on to the next message, or ends.
LookOn(m) ==
    /\ look' = look \ {m}
    /\ rpc' = IF look' = {} THEN "select" ELSE "readSettled"

\* || msgs[j].isSettled() ...
ReadSettled ==
    /\ rpc = "readSettled"
    /\ \E m \in Messages : first(m, look) /\
          \/ m \in settled /\ LookOn(m)
          \/ m \notin settled /\ rpc' = "readSettling" /\ UNCHANGED look
    /\ UNCHANGED <<brokerVars, settleVars, call, held, gone, done, ctxVars, muVars, workVars,
                   sweep, reported, sent>>

\* ... || msgs[j].isSettling(): otherwise the lease is lost.
ReadSettling ==
    /\ rpc = "readSettling"
    /\ \E m \in Messages : first(m, look) /\ LookOn(m) /\
          \/ m \in settling /\ UNCHANGED <<held, gone>>
          \/ m \notin settling /\ held' = held \ {m} /\ gone' = gone \cup {m}
    /\ UNCHANGED <<brokerVars, settleVars, call, done, ctxVars, muVars, workVars,
                   sweep, reported, sent>>

-----------------------------------------------------------------------------
\* The loop.

\* Mutant: only the callback's handing back stops the loop.
stoppingLate == handedBack

stopping == handedBack \/ pollDone

\* Mutant: past the last message.
ClaimPastLast ==
    /\ lpc = "top"
    /\ \/ ~stopping /\ next' = next + 1 /\ lpc' = "check"
       \/ stopping /\ lpc' = "ended" /\ UNCHANGED next
    /\ UNCHANGED <<brokerVars, settleVars, call, renewVars, ctxVars, succeeded, handedBack,
                   verdict, asked, calls, sweep, reported, sent>>

\* The next message is claimed, unless shutdown has begun or none is left.
Claim ==
    /\ lpc = "top"
    /\ \/ next <= N /\ ~stopping /\ next' = next + 1 /\ lpc' = "check"
       \/ (next > N \/ stopping) /\ lpc' = "ended" /\ UNCHANGED next
    /\ UNCHANGED <<brokerVars, settleVars, call, renewVars, ctxVars, succeeded, handedBack,
                   verdict, asked, calls, sweep, reported, sent>>

\* A lease lost while the message waited: it is not handled.
LostBeforeStart ==
    /\ lpc = "check" /\ hand \in gone /\ roundOver
    /\ reported' = reported \cup {hand}
    /\ lpc' = "top"
    /\ UNCHANGED <<brokerVars, settleVars, call, renewVars, ctxVars, muVars, verdict, asked,
                   calls, sweep, sent>>

StartHandler ==
    /\ lpc = "check" /\ hand \notin gone
    /\ lpc' = "handler"
    /\ verdict' = [verdict EXCEPT ![hand] = "running"]
    /\ UNCHANGED <<brokerVars, settleVars, call, renewVars, ctxVars, muVars, asked, calls,
                   sweep, reported, sent>>

idle(p) == call[p].op = "none"

\* The handler calls Ack or Nack; its Extend would change nothing here.
HandlerCalls(o) ==
    /\ lpc = "handler" /\ idle("loop") /\ calls < MaxCalls
    /\ call' = [call EXCEPT !["loop"] = Settle(o, {hand})]
    /\ settling' = IF o \in Final THEN settling \cup {hand} ELSE settling
    /\ asked' = [asked EXCEPT ![hand] = @ \cup {o}]
    /\ calls' = calls + 1
    /\ UNCHANGED <<brokerVars, settled, renewVars, ctxVars, muVars, lpc, verdict, sweep,
                   reported, sent>>

\* settledBy, in the handler's call.
HandlerSettled ==
    /\ lpc = "handler" /\ call["loop"].op \in Final /\ hand \in call["loop"].ok \ settled
    /\ settled' = settled \cup {hand}
    /\ UNCHANGED <<brokerVars, settling, call, renewVars, ctxVars, muVars, workVars, sweep,
                   reported, sent>>

\* The call returns: an ack or nack is no longer in flight.
HandlerCallEnds ==
    /\ lpc = "handler" /\ ~idle("loop") /\ call["loop"].left = {}
    /\ call["loop"].op \in Final => hand \notin call["loop"].ok \ settled
    /\ settling' = settling \ {hand}
    /\ call' = [call EXCEPT !["loop"] = NoCall]
    /\ UNCHANGED <<brokerVars, settled, renewVars, ctxVars, muVars, workVars, sweep,
                   reported, sent>>

HandlerReturns(v) ==
    /\ lpc = "handler" /\ idle("loop")
    /\ verdict' = [verdict EXCEPT ![hand] = v]
    /\ lpc' = "judge"
    /\ UNCHANGED <<brokerVars, settleVars, call, renewVars, ctxVars, muVars, asked, calls,
                   sweep, reported, sent>>

\* Success: its lease stays renewed until the ack goes out with the others'.
Succeeded ==
    /\ lpc = "judge" /\ verdict[hand] = "ok" /\ hand \notin settled
    /\ succeeded' = succeeded \cup {hand}
    /\ lpc' = "top"
    /\ UNCHANGED <<brokerVars, settleVars, call, renewVars, ctxVars, next, handedBack, verdict,
                   asked, calls, sweep, reported, sent>>

\* release(hand), for a message that is not to wait for the ack.
releaseHand == roundOver /\ held' = held \ {hand} /\ UNCHANGED <<gone, rpc, look, done>>

lostLease == hand \in gone \ settled

\* The handler settled the message itself and returned nil.
SettledByHandler ==
    /\ lpc = "judge" /\ verdict[hand] = "ok" /\ hand \in settled
    /\ releaseHand
    /\ lpc' = "top"
    /\ UNCHANGED <<brokerVars, settleVars, call, ctxVars, muVars, verdict, asked, calls, sweep,
                   reported, sent>>

\* (The consumer's own single settles raise settling too.  Nobody can see it:
\* only a round reads it, for messages it holds, and these are released.)
\*
\* The handler failed: lost, or only reported, or reported and handed back.
HandlerFailed ==
    /\ lpc = "judge" /\ verdict[hand] = "err"
    /\ releaseHand
    /\ reported' = reported \cup {hand}
    /\ \/ /\ ~lostLease /\ Requeue /\ hand \notin settled
          /\ call' = [call EXCEPT !["loop"] = Settle("nack", {hand})]
          /\ sent' = sent \cup {<<"loop", "nack", hand>>}
          /\ lpc' = "handBack"
       \/ /\ lostLease \/ ~Requeue \/ hand \in settled
          /\ lpc' = "top" /\ UNCHANGED <<call, sent>>
    /\ UNCHANGED <<brokerVars, settleVars, ctxVars, muVars, verdict, asked, calls, sweep>>

HandedBack ==
    /\ lpc = "handBack" /\ call["loop"].left = {}
    /\ settled' = settled \cup call["loop"].ok
    /\ call' = [call EXCEPT !["loop"] = NoCall]
    /\ lpc' = "top"
    /\ UNCHANGED <<brokerVars, settling, renewVars, ctxVars, muVars, verdict, asked, calls,
                   sweep, reported, sent>>

\* Mutant: the loop leaves the flush to a callback that ran.
EndLoopTrusting ==
    /\ lpc = "ended"
    /\ sweep["callback"].at \in {"waiting", "over"}
    /\ sweep' = [sweep EXCEPT !["callback"].at = "over",
                     !["loop"].at = IF sweep["callback"].at = "over" THEN "over" ELSE "flush"]
    /\ lpc' = "sweep"
    /\ UNCHANGED <<brokerVars, settleVars, call, renewVars, ctxVars, muVars, verdict, asked,
                   calls, reported, sent>>

\* stopFlush() takes the callback off, or the loop waits for it to finish;
\* then it sweeps up itself.
EndLoop ==
    /\ lpc = "ended"
    /\ sweep["callback"].at \in {"waiting", "over"}
    /\ sweep' = [sweep EXCEPT !["callback"].at = "over", !["loop"].at = "flush"]
    /\ lpc' = "sweep"
    /\ UNCHANGED <<brokerVars, settleVars, call, renewVars, ctxVars, muVars, verdict, asked,
                   calls, reported, sent>>

\* Mutant: done is not closed.
StopLeasesOnContext ==
    /\ lpc = "sweep" /\ sweep["loop"].at = "over"
    /\ lpc' = "stopping"
    /\ UNCHANGED <<brokerVars, settleVars, call, renewVars, ctxVars, muVars, verdict,
                   asked, calls, sweep, reported, sent>>

\* leases.stop(): done is closed, and the renewer waited for.
StopLeases ==
    /\ lpc = "sweep" /\ sweep["loop"].at = "over"
    /\ done' = TRUE
    /\ lpc' = "stopping"
    /\ UNCHANGED <<brokerVars, settleVars, call, held, gone, rpc, look, ctxVars, muVars, verdict,
                   asked, calls, sweep, reported, sent>>

Return ==
    /\ lpc = "stopping" /\ rpc = "finished"
    /\ lpc' = "done"
    /\ UNCHANGED <<brokerVars, settleVars, call, renewVars, ctxVars, muVars, verdict, asked,
                   calls, sweep, reported, sent>>

-----------------------------------------------------------------------------
\* flush and handBackUnstarted, run by sweeper s: the callback, then the loop.

\* context.AfterFunc: shutdown starts the callback in its own goroutine.
CallbackStarts ==
    /\ pollDone /\ sweep["callback"].at = "waiting"
    /\ sweep' = [sweep EXCEPT !["callback"].at = "flush"]
    /\ UNCHANGED <<brokerVars, settleVars, call, renewVars, ctxVars, muVars, workVars,
                   reported, sent>>

\* Mutant: what is taken is not removed.
TakeSucceededAndKeep(s) ==
    /\ sweep[s].at = "flush"
    /\ sweep' = [sweep EXCEPT ![s].at = "acks", ![s].todo = succeeded]
    /\ UNCHANGED <<succeeded, next, handedBack>>

TakeSucceeded(s) ==
    /\ sweep[s].at = "flush"
    /\ sweep' = [sweep EXCEPT ![s].at = "acks", ![s].todo = succeeded]
    /\ succeeded' = {}
    /\ UNCHANGED <<next, handedBack>>

\* Mutant: off by one, the message in hand goes back too.
TakeFromHand(s) ==
    /\ sweep[s].at = "unstarted"
    /\ sweep' = [sweep EXCEPT ![s].at = "nacks",
                              ![s].todo = IF handedBack THEN {} ELSE Messages \ 1..(hand - 1)]
    /\ handedBack' = TRUE
    /\ UNCHANGED <<succeeded, next>>

TakeUnstarted(s) ==
    /\ sweep[s].at = "unstarted"
    /\ sweep' = [sweep EXCEPT ![s].at = "nacks",
                              ![s].todo = IF handedBack THEN {} ELSE next..N]
    /\ handedBack' = TRUE
    /\ UNCHANGED <<succeeded, next>>

Take(s) ==
    /\ TakeSucceeded(s) \/ TakeUnstarted(s)
    /\ UNCHANGED <<brokerVars, settleVars, call, renewVars, ctxVars, workVars, reported, sent>>

\* A success that can no longer be acked is reported; an unstarted message not.
reportedLost(s, m) == IF sweep[s].at = "acks" THEN reported \cup {m} ELSE reported

\* release(i), of the first left.  A lost lease is not settled.
Release(s) ==
    /\ roundOver
    /\ \E m \in Messages :
          /\ first(m, sweep[s].todo)
          /\ held' = held \ {m}
          /\ sweep' = [sweep EXCEPT ![s].todo = @ \ {m},
                                    ![s].batch = IF m \in gone THEN @ ELSE @ \cup {m}]
          /\ reported' = IF m \in gone THEN reportedLost(s, m) ELSE reported
    /\ UNCHANGED <<brokerVars, settleVars, call, gone, rpc, look, done, ctxVars, muVars,
                   workVars, sent>>

opOf(s) == IF sweep[s].at = "acks" THEN "ack" ELSE "nack"

\* settleMany is called.
SettleBatch(s) ==
    /\ sweep[s].todo = {} /\ sweep[s].batch # {}
    /\ call' = [call EXCEPT ![s] = Settle(opOf(s), sweep[s].batch)]
    /\ sent' = sent \cup ({s} \X {opOf(s)} \X sweep[s].batch)
    /\ sweep' = [sweep EXCEPT ![s].batch = {}]
    /\ UNCHANGED <<brokerVars, settleVars, renewVars, ctxVars, muVars, workVars, reported>>

\* Mutant: only an ack refused for good is reported.
BatchSettledInSilence(s) ==
    /\ sweep[s].at \in {"acks", "nacks"}
    /\ sweep[s].todo = {} /\ sweep[s].batch = {} /\ call[s].left = {}
    /\ settled' = settled \cup call[s].ok
    /\ reported' = IF sweep[s].at = "acks" THEN reported \cup call[s].gone ELSE reported
    /\ call' = [call EXCEPT ![s] = NoCall]
    /\ sweep' = [sweep EXCEPT ![s].at = IF @ = "acks" THEN "unstarted" ELSE "over"]
    /\ UNCHANGED <<brokerVars, settling, renewVars, ctxVars, muVars, workVars, sent>>

\* It has returned, or had nothing to settle: a failed ack is reported.
BatchSettled(s) ==
    /\ sweep[s].at \in {"acks", "nacks"}
    /\ sweep[s].todo = {} /\ sweep[s].batch = {} /\ call[s].left = {}
    /\ settled' = settled \cup call[s].ok
    /\ reported' = IF sweep[s].at = "acks" THEN reported \cup call[s].gone \cup call[s].failed
                                            ELSE reported
    /\ call' = [call EXCEPT ![s] = NoCall]
    /\ sweep' = [sweep EXCEPT ![s].at = IF @ = "acks" THEN "unstarted" ELSE "over"]
    /\ UNCHANGED <<brokerVars, settling, renewVars, ctxVars, muVars, workVars, sent>>

SweepStep(s) == Take(s) \/ Release(s) \/ SettleBatch(s) \/ BatchSettled(s)

-----------------------------------------------------------------------------

LoopStep ==
    \/ Claim \/ LostBeforeStart \/ StartHandler
    \/ Succeeded \/ SettledByHandler \/ HandlerFailed \/ HandedBack
    \/ EndLoop \/ StopLeases \/ Return

RenewerStep == Renewed \/ ReadSettled \/ ReadSettling

\* dispatchBatch has returned; what the broker does goes on.
Returned == lpc = "done" /\ UNCHANGED vars

Next ==
    \/ \E p \in Procs : Respond(p)
    \/ \E s \in Sweepers : SweepStep(s)
    \/ \E o \in Final : HandlerCalls(o)
    \/ \E v \in {"ok", "err"} : HandlerReturns(v)
    \/ HandlerSettled \/ HandlerCallEnds \/ LoopStep
    \/ Renew \/ RenewerStep \/ RenewerStops
    \/ Land \/ Lapse \/ Shutdown \/ StopWork \/ CallbackStarts \/ Returned

Spec == Init /\ [][Next]_vars

\* Goroutines run and requests end.  The round mutex is fair to those who wait,
\* and rounds are at least a second apart, so a release is not passed over for
\* ever; nor is a closed done, by a select that chooses at random.  Nothing is
\* assumed of the handler, nor that anything shuts down.
Fairness ==
    /\ \A p \in Procs : WF_vars(Respond(p))
    /\ \A s \in Sweepers : SF_vars(SweepStep(s))
    /\ SF_vars(LoopStep)
    /\ WF_vars(RenewerStep) /\ SF_vars(RenewerStops)
    /\ WF_vars(CallbackStarts)

FairSpec == Spec /\ Fairness

-----------------------------------------------------------------------------
\* Properties

TypeOK ==
    /\ lease \in [Messages -> {"held", "acked", "requeued", "lapsed"}]
    /\ late \subseteq Final \X Messages /\ doubt \subseteq Messages
    /\ settled \subseteq Messages /\ settling \subseteq Messages
    /\ call \in [Procs -> Call]
    /\ held \subseteq Messages /\ gone \subseteq Messages
    /\ rpc \in {"select", "extending", "readSettled", "readSettling", "finished"}
    /\ look \subseteq Messages
    /\ done \in BOOLEAN /\ pollDone \in BOOLEAN /\ workDone \in BOOLEAN
    /\ succeeded \subseteq Messages /\ next \in 1..(N + 1) /\ handedBack \in BOOLEAN
    /\ lpc \in {"top", "check", "handler", "judge", "handBack", "ended", "sweep", "stopping",
                "done"}
    /\ sweep \in [Sweepers -> Sweep]
    /\ verdict \in [Messages -> {"unstarted", "running", "ok", "err"}]
    /\ asked \in [Messages -> SUBSET SettleOps]
    /\ calls \in 0..MaxCalls
    /\ reported \subseteq Messages
    /\ sent \subseteq Sweepers \X Final \X Messages

\* The consumer settles a message at most once, whichever goroutine gets to it:
\* never both acked and handed back, never by callback and loop both, and what
\* a goroutine is about to settle nobody has settled, itself included
\* (dispatchBatch, flush and handBackUnstarted).
SettlesOnce ==
    /\ \A m \in Messages : Cardinality({t \in sent : t[3] = m}) <= 1
    /\ \A s \in Sweepers : \A m \in sweep[s].batch : \A t \in sent : t[3] # m

\* A message being settled by the consumer is not being renewed: release waits
\* out the round that may be renewing it (consume_batch.go, release).
QuietAtSettle ==
    \A s \in Sweepers, m \in Messages :
        m \in call[s].left /\ (s = "loop" => lpc # "handler")
        => m \notin held \cup call["renewer"].left \cup look

\* When dispatchBatch returns nothing has been forgotten: every message was
\* settled by its handler, settled by the consumer, reported, or lost.
NothingForgotten ==
    lpc = "done" => settled \cup {t[3] : t \in sent} \cup reported \cup gone = Messages

\* A handler's success is not redelivered in silence: an ack that failed, or
\* could not be sent, is reported to onError, and only a 410 that an earlier
\* request explains is taken for an ack (flush, settleMany).
NoSilentRedelivery ==
    lpc = "done" => \A m \in Messages :
        verdict[m] = "ok" /\ "nack" \notin asked[m] /\ lease[m] # "acked"
        => m \in reported \cup doubt

\* Once the callback is over, a handler abandoned at the end of the grace
\* period costs only its own message: every other is settled or accounted for
\* (WithBatch's doc, consume_batch.go:42-45).
AbandonedCostsItsOwn ==
    sweep["callback"].at = "over" /\ lpc \in {"check", "handler", "judge", "handBack"} =>
        Messages \ {hand} \subseteq settled \cup {t[3] : t \in sent} \cup reported \cup gone

\* Each message goes the way the abstract delivery allows.
Promise == INSTANCE Deliveries WITH lease <- lease, verdict <- verdict, asked <- asked
DeliversAsPromised == Promise!Spec

\* Shutdown's callback acks what has succeeded and hands back the rest although
\* the handler in hand never returns.
CallbackEnds == sweep["callback"].at = "flush" ~> sweep["callback"].at = "over"

\* Once the loop has ended, dispatchBatch returns: loop, callback and renewer,
\* which wait for each other, do not wait for ever.
BatchEnds == lpc = "ended" ~> lpc = "done"

=============================================================================
