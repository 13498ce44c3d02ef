------------------------------- MODULE Client -------------------------------
(***************************************************************************)
(* Client.do: one logical call, retried across the nodes of a cluster, by  *)
(* any number of goroutines that share the client (client.go, nodes.go).   *)
(*                                                                         *)
(* Each caller runs do as the steps between which another goroutine can    *)
(* act: the atomic add of pick, one ready() under one node's mutex per     *)
(* candidate, the request in flight, the decision after it, and the wait   *)
(* before a retry.  Callers make one call after another, so a step taken   *)
(* for an old request meets the breaker as later requests left it.         *)
(*                                                                         *)
(* External: the brokers and the network (a reply is any member of         *)
(* Replies for the operation), the clock (Tick), the caller's context.     *)
(* Left out: how long a wait is, and logging.                              *)
(***************************************************************************)
EXTENDS Breaker

CONSTANTS
    Callers,    \* goroutines that share the client
    N,          \* len(nodes.all)
    Attempts,   \* config.attempts
    Cautious,   \* config.cautious
    CallOps,    \* the operations the callers perform
    OnceOps,    \* the operations whose call sets once
    Replies     \* [op, err, applied]: what a request of op may come back with

ASSUME ClientAssumption ==
    /\ N \in Nat \ {0}
    /\ Attempts \in Int
    /\ Cautious \in BOOLEAN
    /\ CallOps \subseteq Ops /\ OnceOps \subseteq Ops
    /\ Replies \subseteq [op : Ops, err : Error, applied : BOOLEAN]
    /\ \A r \in Replies : r.err.op = r.op /\ r.err.kind \in {"nil", "api", "conn"}

Nodes == 0..(N - 1)

VARIABLES
    brk,      \* node -> its circuit breaker
    next,     \* nodeSet.next, modulo N
    closed,   \* Client.closed
    pc,       \* caller -> where in do it is
    op,       \* caller -> call.op
    ctxDone,  \* caller -> ctx.Err() != nil
    attempt,  \* caller -> the loop variable of do
    tried,    \* caller -> the nodes tried
    start,    \* caller -> start of pick
    i,        \* caller -> loop variable of pick and untried
    at,       \* caller -> the node the request was sent to
    last,     \* caller -> last, and what do returned once the caller is idle
    warned,   \* caller -> an EventRetry with Uncertain set was emitted
    applied   \* ghost, caller -> how often a server carried the call out

nodeVars == <<brk, next, closed>>
locals == <<ctxDone, attempt, tried, start, i, at>>
ghosts == <<warned, applied>>
callVars == <<pc, op, last, locals, ghosts>>
vars == <<nodeVars, callVars>>

PCs == {"idle", "pick", "fresh", "any", "flight", "judge", "untried", "wait"}

\* The attempts a call gets: once means one.
attempts(o) == IF Attempts < 1 \/ o \in OnceOps THEN 1 ELSE Attempts

-----------------------------------------------------------------------------

Init ==
    /\ brk = [n \in Nodes |-> newNode]
    /\ next = 0
    /\ closed = FALSE
    /\ pc = [c \in Callers |-> "idle"]
    /\ op \in [Callers -> CallOps]
    /\ ctxDone = [c \in Callers |-> FALSE]
    /\ attempt = [c \in Callers |-> 0]
    /\ tried = [c \in Callers |-> {}]
    /\ start = [c \in Callers |-> 0]
    /\ i = [c \in Callers |-> 0]
    /\ at = [c \in Callers |-> 0]
    /\ last = [c \in Callers |-> Plain("nil", op[c])]
    /\ warned = [c \in Callers |-> FALSE]
    /\ applied = [c \in Callers |-> 0]

\* do is called on an open client.
Start(c, o) ==
    /\ pc[c] = "idle" /\ ~closed
    /\ op' = [op EXCEPT ![c] = o]
    /\ pc' = [pc EXCEPT ![c] = "pick"]
    /\ last' = [last EXCEPT ![c] = Plain("nil", o)]
    /\ warned' = [warned EXCEPT ![c] = FALSE]
    /\ applied' = [applied EXCEPT ![c] = 0]
    /\ UNCHANGED <<nodeVars, locals>>

\* do is called on a closed client: ErrClosed, and nothing is sent.
Refuse(c, o) ==
    /\ pc[c] = "idle" /\ closed
    /\ op' = [op EXCEPT ![c] = o]
    /\ last' = [last EXCEPT ![c] = Plain("closed", o)]
    /\ warned' = [warned EXCEPT ![c] = FALSE]
    /\ applied' = [applied EXCEPT ![c] = 0]
    /\ UNCHANGED <<nodeVars, pc, locals>>

\* do returns: its locals go out of scope.
Return(c, e) ==
    /\ pc' = [pc EXCEPT ![c] = "idle"]
    /\ last' = [last EXCEPT ![c] = e]
    /\ ctxDone' = [ctxDone EXCEPT ![c] = FALSE]
    /\ attempt' = [attempt EXCEPT ![c] = 0]
    /\ tried' = [tried EXCEPT ![c] = {}]
    /\ start' = [start EXCEPT ![c] = 0]
    /\ i' = [i EXCEPT ![c] = 0]
    /\ at' = [at EXCEPT ![c] = 0]
    /\ UNCHANGED op

\* pick: take the next round-robin position.
Pick(c) ==
    /\ pc[c] = "pick"
    /\ start' = [start EXCEPT ![c] = next]
    /\ next' = (next + 1) % N
    /\ pc' = [pc EXCEPT ![c] = "fresh"]
    /\ UNCHANGED <<brk, closed, op, ctxDone, attempt, tried, i, at, last, ghosts>>

candidate(c) == (start[c] + i[c]) % N

\* pick returns n, which ready() has just admitted, and the request leaves
\* for it; start and i are pick's locals.
Send(c, n) ==
    /\ brk' = [brk EXCEPT ![n] = afterReady(@)]
    /\ tried' = [tried EXCEPT ![c] = @ \cup {n}]
    /\ at' = [at EXCEPT ![c] = n]
    /\ start' = [start EXCEPT ![c] = 0]
    /\ i' = [i EXCEPT ![c] = 0]
    /\ pc' = [pc EXCEPT ![c] = "flight"]
    /\ UNCHANGED <<next, closed, op, ctxDone, attempt, last, warned, applied>>

isFresh(c, n) == n \notin tried[c] /\ ready(brk[n])

\* pick, first loop: a ready node this call has not tried, ...
TakeFresh(c) ==
    /\ pc[c] = "fresh" /\ isFresh(c, candidate(c))
    /\ Send(c, candidate(c))

\* ... or the next candidate, and after the last one the second loop.
SkipFresh(c) ==
    /\ pc[c] = "fresh" /\ ~isFresh(c, candidate(c))
    /\ i' = [i EXCEPT ![c] = IF @ = N - 1 THEN 0 ELSE @ + 1]
    /\ pc' = [pc EXCEPT ![c] = IF i[c] = N - 1 THEN "any" ELSE "fresh"]
    /\ UNCHANGED <<nodeVars, op, ctxDone, attempt, tried, start, at, last, ghosts>>

\* pick, second loop: any ready node, ...
TakeAny(c) ==
    /\ pc[c] = "any" /\ ready(brk[candidate(c)])
    /\ Send(c, candidate(c))

\* ... or the next candidate, ...
SkipAny(c) ==
    /\ pc[c] = "any" /\ ~ready(brk[candidate(c)]) /\ i[c] < N - 1
    /\ i' = [i EXCEPT ![c] = @ + 1]
    /\ UNCHANGED <<nodeVars, pc, op, ctxDone, attempt, tried, start, at, last, ghosts>>

\* Mutant: whatever happened before.
noNodeAlways(c) == Plain("noNodes", op[c])

\* The error of a call no node would take.
noNode(c) == IF last[c].kind = "nil" THEN Plain("noNodes", op[c]) ELSE last[c]

\* ... or no node at all, and the call ends.
NoNode(c) ==
    /\ pc[c] = "any" /\ ~ready(brk[candidate(c)]) /\ i[c] = N - 1
    /\ Return(c, noNode(c))
    /\ UNCHANGED <<nodeVars, ghosts>>

\* What the node's breaker makes of the reply: a caller whose context has
\* ended says nothing about the node.
heard(b, c, e) ==
    IF e.kind # "nil" /\ ctxDone[c] THEN abandon(b) ELSE observe(b, e)

\* attempt returned r: the breaker hears of it, and a success ends the call.
Reply(c, r) ==
    /\ pc[c] = "flight" /\ r.op = op[c]
    /\ brk' = [brk EXCEPT ![at[c]] = heard(@, c, r.err)]
    /\ applied' = [applied EXCEPT ![c] = IF r.applied THEN @ + 1 ELSE @]
    /\ \/ r.err.kind = "nil" /\ Return(c, r.err)
       \/ /\ r.err.kind # "nil"
          /\ last' = [last EXCEPT ![c] = r.err]
          /\ pc' = [pc EXCEPT ![c] = "judge"]
          /\ at' = [at EXCEPT ![c] = 0]
          /\ UNCHANGED <<op, ctxDone, attempt, tried, start, i>>
    /\ UNCHANGED <<next, closed, warned>>

\* Mutant: one attempt too many.
stopsLate(c) ==
    \/ attempt[c] = attempts(op[c])
    \/ ~Retryable(last[c])
    \/ Cautious /\ Uncertain(last[c])
    \/ ctxDone[c]

\* Mutant: WithCautiousRetries is not asked.
stopsReckless(c) ==
    \/ attempt[c] = attempts(op[c]) - 1
    \/ ~Retryable(last[c])
    \/ ctxDone[c]

\* The four reasons do gives up after a failed attempt.
stops(c) ==
    \/ attempt[c] = attempts(op[c]) - 1
    \/ ~Retryable(last[c])
    \/ Cautious /\ Uncertain(last[c])
    \/ ctxDone[c]

GiveUp(c) ==
    /\ pc[c] = "judge" /\ stops(c)
    /\ Return(c, last[c])
    /\ UNCHANGED <<nodeVars, ghosts>>

\* Mutant: the event does not say that the failure was uncertain.
RetryInSilence(c) ==
    /\ warned' = warned
    /\ pc' = [pc EXCEPT ![c] = "wait"]
    /\ i' = [i EXCEPT ![c] = 0]
    /\ UNCHANGED <<next, closed, op, ctxDone, attempt, tried, start, at, last, applied>>

\* EventRetry carries Uncertain(err); then do waits.
RetryAfterWait(c) ==
    /\ warned' = [warned EXCEPT ![c] = @ \/ Uncertain(last[c])]
    /\ pc' = [pc EXCEPT ![c] = "wait"]
    /\ i' = [i EXCEPT ![c] = 0]
    /\ UNCHANGED <<next, closed, op, ctxDone, attempt, tried, start, at, last, applied>>

Retry(c) ==
    /\ pc[c] = "judge" /\ ~stops(c) /\ ~movesOn(last[c])
    /\ RetryAfterWait(c)
    /\ UNCHANGED brk

\* The node cannot serve this: whether another could decides the delay.
MoveOn(c) ==
    /\ pc[c] = "judge" /\ ~stops(c) /\ movesOn(last[c])
    /\ pc' = [pc EXCEPT ![c] = "untried"]
    /\ UNCHANGED <<nodeVars, locals, op, last, ghosts>>

\* untried: a ready node not tried yet ends the search.  It asks ready(),
\* which may move that node to half-open; nothing is sent to it.
FoundUntried(c) ==
    /\ pc[c] = "untried" /\ isFresh(c, i[c])
    /\ brk' = [brk EXCEPT ![i[c]] = afterReady(@)]
    /\ RetryAfterWait(c)

SkipUntried(c) ==
    /\ pc[c] = "untried" /\ ~isFresh(c, i[c])
    /\ \/ i[c] = N - 1 /\ RetryAfterWait(c) /\ UNCHANGED brk
       \/ /\ i[c] < N - 1
          /\ i' = [i EXCEPT ![c] = @ + 1]
          /\ UNCHANGED <<nodeVars, pc, op, ctxDone, attempt, tried, start, at, last, ghosts>>

\* Mutant: the attempt is not counted.
WaitOverUncounted(c) ==
    /\ pc[c] = "wait"
    /\ pc' = [pc EXCEPT ![c] = "pick"]
    /\ UNCHANGED <<nodeVars, op, ctxDone, attempt, tried, start, i, at, last, ghosts>>

\* wait: the timer fired.  It may beat a context that ended meanwhile.
WaitOver(c) ==
    /\ pc[c] = "wait"
    /\ attempt' = [attempt EXCEPT ![c] = @ + 1]
    /\ pc' = [pc EXCEPT ![c] = "pick"]
    /\ UNCHANGED <<nodeVars, op, ctxDone, tried, start, i, at, last, ghosts>>

\* wait: the context ended first, and do returns the context's error.
WaitEnded(c) ==
    /\ pc[c] = "wait" /\ ctxDone[c]
    /\ Return(c, Plain("ctx", op[c]))
    /\ UNCHANGED <<nodeVars, ghosts>>

\* The caller's context ends (external).
Cancel(c) ==
    /\ pc[c] # "idle" /\ ~ctxDone[c]
    /\ ctxDone' = [ctxDone EXCEPT ![c] = TRUE]
    /\ UNCHANGED <<nodeVars, pc, op, attempt, tried, start, i, at, last, ghosts>>

Close ==
    /\ ~closed
    /\ closed' = TRUE
    /\ UNCHANGED <<brk, next, callVars>>

\* Time passes for every cooldown (external).
Tick ==
    /\ \E n \in Nodes : brk[n].cool > 0
    /\ brk' = [n \in Nodes |-> cooler(brk[n])]
    /\ UNCHANGED <<next, closed, callVars>>

\* What a caller inside do does by itself.
Step(c) ==
    \/ Pick(c) \/ TakeFresh(c) \/ SkipFresh(c) \/ TakeAny(c) \/ SkipAny(c) \/ NoNode(c)
    \/ \E r \in Replies : Reply(c, r)
    \/ GiveUp(c) \/ Retry(c) \/ MoveOn(c) \/ FoundUntried(c) \/ SkipUntried(c)
    \/ WaitOver(c) \/ WaitEnded(c)

Next ==
    \/ \E c \in Callers : Step(c) \/ Cancel(c)
    \/ \E c \in Callers, o \in CallOps : Start(c, o) \/ Refuse(c, o)
    \/ Close
    \/ Tick

\* A goroutine runs, a request comes back (attempt bounds it by its timeout),
\* a timer fires, and time passes.
Fairness == WF_vars(Tick) /\ \A c \in Callers : WF_vars(Step(c))

Spec == Init /\ [][Next]_vars

FairSpec == Spec /\ Fairness

-----------------------------------------------------------------------------
\* Properties

TypeOK ==
    /\ brk \in [Nodes -> BreakerType]
    /\ next \in Nodes
    /\ closed \in BOOLEAN
    /\ pc \in [Callers -> PCs]
    /\ op \in [Callers -> Ops]
    /\ ctxDone \in [Callers -> BOOLEAN]
    /\ attempt \in [Callers -> Nat]
    /\ \A c \in Callers : attempt[c] < attempts(op[c])
    /\ tried \in [Callers -> SUBSET Nodes]
    /\ start \in [Callers -> Nodes]
    /\ i \in [Callers -> Nodes]
    /\ at \in [Callers -> Nodes]
    /\ last \in [Callers -> Error]
    /\ warned \in [Callers -> BOOLEAN]
    /\ applied \in [Callers -> Nat]

\* A caller is waiting for node n to answer a request.
InFlight(c, n) == pc[c] = "flight" /\ at[c] = n

\* A node that went half-open to be asked a question is being asked it: some
\* request to it is in flight.  Otherwise no answer will ever move it on and
\* ready() refuses it for good (nodes.go, ready and abandon;
\* breaker_cancel_test.go:51).
HalfOpenHasProbe ==
    \A n \in Nodes : brk[n].state = "halfOpen" => \E c \in Callers : InFlight(c, n)

\* The same as progress: a half-open node gets its answer.
ProbeIsAnswered ==
    \A n \in Nodes : brk[n].state = "halfOpen" ~> brk[n].state # "halfOpen"

\* The external assumption the next properties rest on: a server that carried
\* a request out and a reply that is an error go together only where Uncertain
\* says they may.
SoundReplies ==
    \A r \in Replies : r.applied /\ r.err.kind # "nil" => Uncertain(r.err)

\* And a reply that is a success means that the request was carried out.
SuccessIsDone == \A r \in Replies : r.err.kind = "nil" => r.applied

\* With WithCautiousRetries no call is carried out twice, however its requests
\* fail within SoundReplies (options.go:87): a gateway that passes a request on
\* and answers 504, which is Retryable and not Uncertain, breaks both.
CautiousAtMostOnce == Cautious => \A c \in Callers : applied[c] <= 1

\* An error from do tells the truth about the call: when a server carried it
\* out, Uncertain says so (errors.go:198).
UncertainIsHonest ==
    \A c \in Callers :
        pc[c] = "idle" /\ applied[c] > 0 /\ last[c].kind # "nil" => Uncertain(last[c])

\* No silent damage in any mode: a call that was carried out twice, or that
\* was carried out and then failed with an error that denies it, has emitted
\* a retry event marked Uncertain.
DoubtIsReported ==
    \A c \in Callers :
        /\ applied[c] >= 2 => warned[c]
        /\ pc[c] = "idle" /\ applied[c] = 1 /\ last[c].kind # "nil"
              => warned[c] \/ Uncertain(last[c])

\* ErrNoNodes is the answer of a call that sent nothing; a call that did send
\* something returns that request's error instead.
NoNodesSentNothing ==
    [][\A c \in Callers :
          pc[c] # "idle" /\ pc'[c] = "idle" /\ last'[c].kind = "noNodes"
            => tried[c] = {} /\ applied'[c] = 0]_vars

\* What a call returned, as its caller can tell results apart.
Verdict(e) ==
    CASE e.kind = "nil"     -> "ok"
      [] e.kind = "noNodes" -> "noNodes"
      [] OTHER              -> IF Uncertain(e) THEN "unsure" ELSE "error"

Phase == [c \in Callers |->
    IF pc[c] = "idle" THEN "idle" ELSE IF tried[c] = {} THEN "unsent" ELSE "sent"]
Result == [c \in Callers |-> IF pc[c] = "idle" THEN Verdict(last[c]) ELSE "none"]

\* do keeps its promise to every caller, whatever the others do to the nodes it
\* meets: see Calls.
Promise == INSTANCE Calls WITH phase <- Phase, done <- applied, result <- Result
CallsAsPromised == Promise!Spec

\* Nothing of a call outlives it: with no call in progress, no node is left
\* half-open, where ready() would refuse it for good (nodes.go:135).
NoNodeStranded ==
    (\A c \in Callers : pc[c] = "idle") => \A n \in Nodes : brk[n].state # "halfOpen"

\* Every call returns, whatever the nodes do and whoever else uses them.
CallsReturn == \A c \in Callers : pc[c] # "idle" ~> pc[c] = "idle"

=============================================================================
