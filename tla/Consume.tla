------------------------------ MODULE Consume ------------------------------
(***************************************************************************)
(* Consume: its pool of workers, the handlers they run, its shutdown, and  *)
(* Retry called by a handler (consume.go: Consume, worker, pollMany;       *)
(* envelope.go: Retry), over the queue of one topic.                       *)
(*                                                                         *)
(* Dispatch and Batch show how one delivery is settled; here a settle is a *)
(* request that reaches the broker now, later or never.  The broker drops  *)
(* it once the lease it was sent under is over.                            *)
(*                                                                         *)
(* External: the broker (Lapse, Land and what it does in a reply), the     *)
(* handler's verdicts, and the program around Consume (Cancel, Close,      *)
(* Crash).                                                                 *)
(***************************************************************************)
EXTENDS FiniteSets, Naturals

CONSTANTS
    Workers,   \* cfg.workers goroutines
    Roots,     \* messages in the queue from the start
    Copies,    \* bound: what Retry can publish
    Batch,     \* cfg.batch
    None

Msgs == Roots \cup Copies
Idle == {"unused", "ready", "nobody", "acked"}

ASSUME ConsumeAssumption ==
    /\ Roots \cap Copies = {} /\ None \notin Msgs
    /\ Workers \cap Idle = {}
    /\ Batch \in Nat \ {0}

VARIABLES
    lease,      \* broker: message -> its worker, or unused, ready, acked, or
                \* leased to nobody: the reply that brought it was lost
    root,       \* message -> the message it is a copy of
    pending,    \* settles on their way to the broker
    ended,      \* the caller's context
    closed,     \* Client.Close was called
    cpc,        \* where Consume is
    wpc,        \* worker -> where it is
    mode,       \* worker -> "single" in dispatch, "batch" in dispatchBatch, and
                \* "swept" there once the shutdown callback has run
    todo,       \* worker -> messages of its batch not yet started
    good,       \* worker -> succeeded
    cur,        \* worker -> message its handler has
    published,  \* worker -> Retry's copy is stored
    handled     \* ghost: roots a handler has had success with

queue == <<lease, root, pending>>
caller == <<ended, closed, cpc>>
worker == <<wpc, mode, todo, good, cur, published>>
vars == <<queue, caller, worker, handled>>

Init ==
    /\ lease = [m \in Msgs |-> IF m \in Roots THEN "ready" ELSE "unused"]
    /\ root = [m \in Msgs |-> m]
    /\ pending = {}
    /\ ended = FALSE /\ closed = FALSE /\ cpc = "consuming"
    /\ wpc = [w \in Workers |-> "top"]
    /\ mode = [w \in Workers |-> "single"]
    /\ todo = [w \in Workers |-> {}] /\ good = [w \in Workers |-> {}]
    /\ cur = [w \in Workers |-> None]
    /\ published = [w \in Workers |-> FALSE]
    /\ handled = {}

-----------------------------------------------------------------------------
\* The broker and the program around Consume (external).

leased(m) == lease[m] \in Workers \cup {"nobody"}

\* A lease that is over takes its settles with it.
spent(m) == {"ack", "nack"} \X {m}

Lapse == \E m \in Msgs :
    /\ leased(m)
    /\ lease' = [lease EXCEPT ![m] = "ready"]
    /\ pending' = pending \ spent(m)
    /\ UNCHANGED <<root, caller, worker, handled>>

Land == \E m \in Msgs, op \in {"ack", "nack"} :
    /\ <<op, m>> \in pending
    /\ lease' = [lease EXCEPT ![m] = IF op = "ack" THEN "acked" ELSE "ready"]
    /\ pending' = pending \ spent(m)
    /\ UNCHANGED <<root, caller, worker, handled>>

Cancel ==
    /\ cpc # "crashed"
    /\ ~ended /\ ended' = TRUE
    /\ UNCHANGED <<queue, closed, cpc, worker, handled>>

Close ==
    /\ cpc # "crashed"
    /\ ~closed /\ closed' = TRUE
    /\ UNCHANGED <<queue, ended, cpc, worker, handled>>

Crash ==
    /\ cpc # "crashed" /\ cpc' = "crashed"
    /\ wpc' = [w \in Workers |-> "gone"]
    /\ todo' = [w \in Workers |-> {}] /\ good' = [w \in Workers |-> {}]
    /\ cur' = [w \in Workers |-> None]
    /\ published' = [w \in Workers |-> FALSE]
    /\ UNCHANGED <<queue, ended, closed, mode, handled>>

-----------------------------------------------------------------------------
\* Consume

CtxDone ==
    /\ cpc = "consuming" /\ ended
    /\ cpc' = "grace"
    /\ UNCHANGED <<queue, ended, closed, worker, handled>>

\* wg.Wait is over.
AllDone ==
    /\ cpc \in {"grace", "second"}
    /\ \A w \in Workers : wpc[w] = "gone"
    /\ cpc' = "returned"
    /\ UNCHANGED <<queue, ended, closed, worker, handled>>

\* stopWork: a handler may see it, and take one of the ways it has anyway.
GraceOver ==
    /\ cpc = "grace" /\ cpc' = "second"
    /\ UNCHANGED <<queue, ended, closed, worker, handled>>

\* Mutant: the handlers are waited for.
SecondOverWaits ==
    /\ cpc = "second"
    /\ \A w \in Workers : wpc[w] = "gone"
    /\ cpc' = "returned"
    /\ UNCHANGED <<queue, ended, closed, worker, handled>>

\* The last second is long enough for all that waits for no handler.
SecondOver ==
    /\ cpc = "second"
    /\ \A w \in Workers : wpc[w] \in {"handler", "publish", "retryAck", "gone"}
    /\ cpc' = "returned"
    /\ UNCHANGED <<queue, ended, closed, worker, handled>>

-----------------------------------------------------------------------------
\* worker: poll

goTo(w, where) == wpc' = [wpc EXCEPT ![w] = where]

\* Mutant: the loop watches the work context.
TopUnwatched(w) ==
    /\ wpc[w] = "top"
    /\ goTo(w, IF closed THEN "gone" ELSE "poll")
    /\ UNCHANGED <<queue, caller, mode, todo, good, cur, published, handled>>

\* The head of the loop.  A closed client refuses the poll (ErrClosed).
Top(w) ==
    /\ wpc[w] = "top"
    /\ goTo(w, IF ended \/ closed THEN "gone" ELSE "poll")
    /\ UNCHANGED <<queue, caller, mode, todo, good, cur, published, handled>>

\* The messages a poll takes off the queue.
taken(S) == S # {} /\ Cardinality(S) <= Batch /\ \A m \in S : lease[m] = "ready"

\* One message is dispatched as it is, context ended or not; several are a batch.
PollAnswered(w) == \E S \in SUBSET Msgs :
    /\ wpc[w] = "poll" /\ taken(S)
    /\ lease' = [m \in Msgs |-> IF m \in S THEN w ELSE lease[m]]
    /\ \/ \E m \in S :
            /\ S = {m}
            /\ cur' = [cur EXCEPT ![w] = m]
            /\ mode' = [mode EXCEPT ![w] = "single"]
            /\ goTo(w, "handler")
            /\ UNCHANGED todo
       \/ /\ Cardinality(S) > 1
          /\ todo' = [todo EXCEPT ![w] = S]
          /\ mode' = [mode EXCEPT ![w] = "batch"]
          /\ goTo(w, "loop")
          /\ UNCHANGED cur
    /\ UNCHANGED <<root, pending, caller, good, published, handled>>

\* The reply is lost, and client.do asks again or the poll fails; or it brings a
\* message this client cannot decode, which is left to its lease.
PollDropped(w) == \E S \in SUBSET Msgs :
    /\ wpc[w] = "poll" /\ taken(S)
    /\ lease' = [m \in Msgs |-> IF m \in S THEN "nobody" ELSE lease[m]]
    /\ UNCHANGED <<root, pending, caller, worker, handled>>

PollEmpty(w) ==
    /\ wpc[w] = "poll"
    /\ goTo(w, "top")
    /\ UNCHANGED <<queue, caller, mode, todo, good, cur, published, handled>>

\* Mutant: a poll that fails ends its worker.
PollFailedForGood(w) ==
    /\ wpc[w] = "poll"
    /\ goTo(w, "gone")
    /\ UNCHANGED <<queue, caller, mode, todo, good, cur, published, handled>>

PollFailed(w) ==
    /\ wpc[w] = "poll"
    /\ goTo(w, IF ended THEN "gone" ELSE "backoff")
    /\ UNCHANGED <<queue, caller, mode, todo, good, cur, published, handled>>

BackedOff(w) ==
    /\ wpc[w] = "backoff"
    /\ \/ goTo(w, "top")
       \/ ended /\ goTo(w, "gone")
    /\ UNCHANGED <<queue, caller, mode, todo, good, cur, published, handled>>

-----------------------------------------------------------------------------
\* worker: dispatch and dispatchBatch, up to the settles they send

\* What w can still settle of S: an ended lease refuses, and so does a closed
\* client.
sent(w, op, S) == {op} \X {m \in S : lease[m] = w /\ ~closed}

\* After a message: the next one of the batch, or the next poll.
back(w) ==
    /\ cur' = [cur EXCEPT ![w] = None]
    /\ published' = [published EXCEPT ![w] = FALSE]
    /\ goTo(w, IF mode[w] = "single" THEN "top" ELSE "loop")

Start(w) == \E m \in todo[w] :
    /\ wpc[w] = "loop" /\ ~ended
    /\ todo' = [todo EXCEPT ![w] = @ \ {m}]
    /\ cur' = [cur EXCEPT ![w] = m]
    /\ goTo(w, "handler")
    /\ UNCHANGED <<queue, caller, mode, good, published, handled>>

\* A renewal said that this lease is over.
SkipLost(w) == \E m \in todo[w] :
    /\ wpc[w] = "loop" /\ ~ended /\ lease[m] # w
    /\ todo' = [todo EXCEPT ![w] = @ \ {m}]
    /\ UNCHANGED <<queue, caller, wpc, mode, good, cur, published, handled>>

\* flush and handBackUnstarted
settleRest(w) ==
    /\ pending' = pending \cup sent(w, "ack", good[w]) \cup sent(w, "nack", todo[w])
    /\ good' = [good EXCEPT ![w] = {}] /\ todo' = [todo EXCEPT ![w] = {}]

\* The shutdown callback of a batch, while its loop is anywhere.
Sweep(w) ==
    /\ ended /\ mode[w] = "batch" /\ wpc[w] \in {"loop", "handler", "publish", "retryAck"}
    /\ mode' = [mode EXCEPT ![w] = "swept"]
    /\ settleRest(w)
    /\ UNCHANGED <<lease, root, caller, wpc, cur, published, handled>>

\* The loop waits for a callback that has started (stopFlush).
LoopEnds(w) ==
    /\ wpc[w] = "loop" /\ (todo[w] = {} \/ ended)
    /\ ended => mode[w] = "swept"
    /\ settleRest(w)
    /\ goTo(w, "top")
    /\ UNCHANGED <<lease, root, caller, mode, cur, published, handled>>

HandlerSucceeds(w) ==
    /\ wpc[w] = "handler"
    /\ handled' = handled \cup {root[cur[w]]}
    /\ IF mode[w] = "single"
       THEN pending' = pending \cup sent(w, "ack", {cur[w]}) /\ UNCHANGED good
       ELSE good' = [good EXCEPT ![w] = @ \cup {cur[w]}] /\ UNCHANGED pending
    /\ back(w)
    /\ UNCHANGED <<lease, root, caller, mode, todo>>

\* The handler returned an error: handed back.
failed(w) ==
    /\ pending' = pending \cup sent(w, "nack", {cur[w]})
    /\ back(w)

HandlerFails(w) ==
    /\ wpc[w] = "handler"
    /\ failed(w)
    /\ UNCHANGED <<lease, root, caller, mode, todo, good, handled>>

-----------------------------------------------------------------------------
\* Retry, as the last thing a handler does: its error is the handler's.

HandlerRetries(w) ==
    /\ wpc[w] = "handler" /\ ~closed
    /\ goTo(w, "publish")
    /\ UNCHANGED <<queue, caller, mode, todo, good, cur, published, handled>>

\* Mutant: the copy gets an id of its own.
copiedAnew(w, c) == c

\* WithID(env.ID): copy c is the message it was made from.
copied(w, c) == root[cur[w]]

\* A produce reaches the broker, perhaps not for the first time.
PublishLands(w) == \E c \in Copies :
    /\ wpc[w] = "publish" /\ lease[c] = "unused"
    /\ lease' = [lease EXCEPT ![c] = "ready"]
    /\ root' = [root EXCEPT ![c] = copied(w, c)]
    /\ published' = [published EXCEPT ![w] = TRUE]
    /\ UNCHANGED <<pending, caller, wpc, mode, todo, good, cur, handled>>

\* Mutant: the original is acked whether or not the copy is known to be stored.
PublishedPerhaps(w) ==
    /\ wpc[w] = "publish"
    /\ goTo(w, "retryAck")
    /\ UNCHANGED <<queue, caller, mode, todo, good, cur, published, handled>>

Published(w) ==
    /\ wpc[w] = "publish" /\ published[w]
    /\ goTo(w, "retryAck")
    /\ UNCHANGED <<queue, caller, mode, todo, good, cur, published, handled>>

\* An error, although a copy may be stored.
PublishFailed(w) ==
    /\ wpc[w] = "publish"
    /\ failed(w)
    /\ UNCHANGED <<lease, root, caller, mode, todo, good, handled>>

\* The original is acked; or the ack fails, perhaps to land after all, and the
\* handler with it.
RetryAcks(w) ==
    /\ wpc[w] = "retryAck"
    /\ \/ /\ lease[cur[w]] = w /\ ~closed
          /\ lease' = [lease EXCEPT ![cur[w]] = "acked"]
          /\ pending' = pending \ spent(cur[w])
       \/ /\ pending' = pending \cup sent(w, "ack", {cur[w]}) \cup sent(w, "nack", {cur[w]})
          /\ UNCHANGED lease
    /\ back(w)
    /\ UNCHANGED <<root, caller, mode, todo, good, handled>>

-----------------------------------------------------------------------------

Outside == Lapse \/ Land \/ Cancel \/ Close \/ Crash

Shutdown == CtxDone \/ AllDone \/ GraceOver \/ SecondOver

\* What a worker does by itself, and what needs no handler to end.
Prompt(w) ==
    \/ Top(w) \/ PollFailed(w) \/ BackedOff(w)
    \/ Start(w) \/ SkipLost(w) \/ Sweep(w) \/ LoopEnds(w)

Handling(w) ==
    \/ HandlerSucceeds(w) \/ HandlerFails(w) \/ HandlerRetries(w)
    \/ PublishLands(w) \/ Published(w) \/ PublishFailed(w) \/ RetryAcks(w)

Worker(w) == Prompt(w) \/ PollAnswered(w) \/ PollDropped(w) \/ PollEmpty(w) \/ Handling(w)

Next == Outside \/ Shutdown \/ \E w \in Workers : Worker(w)

Spec == Init /\ [][Next]_vars

\* Timers fire, cancelled polls come back, and a worker that waits for nobody
\* goes on.  No handler has to return.
FairSpec == Spec /\ WF_vars(Shutdown) /\ \A w \in Workers : WF_vars(Prompt(w))

-----------------------------------------------------------------------------
\* Properties

TypeOK ==
    /\ lease \in [Msgs -> Idle \cup Workers]
    /\ root \in [Msgs -> Msgs]
    /\ pending \subseteq {"ack", "nack"} \X Msgs
    /\ ended \in BOOLEAN /\ closed \in BOOLEAN
    /\ cpc \in {"consuming", "grace", "second", "returned", "crashed"}
    /\ wpc \in [Workers -> {"top", "poll", "backoff", "loop", "handler", "publish",
                            "retryAck", "gone"}]
    /\ mode \in [Workers -> {"single", "batch", "swept"}]
    /\ todo \in [Workers -> SUBSET Msgs] /\ good \in [Workers -> SUBSET Msgs]
    /\ cur \in [Workers -> Msgs \cup {None}]
    /\ published \in [Workers -> BOOLEAN]
    /\ handled \subseteq Roots

\* A message no handler has had success with is still in the queue, itself or a
\* copy of it, whatever was lost, sent twice, retried or abandoned (Retry's
\* "publish before settling", envelope.go:254).
NeverLost == \A r \in Roots \ handled :
    \E m \in Msgs : root[m] = r /\ (lease[m] = "ready" \/ leased(m))

\* No failure costs a worker: only the end of the context, of the client or of
\* the process does (worker, consume.go:312).
PoolStaysWhole ==
    (\E w \in Workers : wpc[w] = "gone") => ended \/ closed \/ cpc = "crashed"

\* No handler is started once Consume has returned, although goroutines it gave
\* up on still run (consume.go:274).
NothingStartsAfterReturn ==
    [][cpc = "returned" =>
        \A w \in Workers : wpc[w] # "handler" => wpc'[w] # "handler"]_vars

\* Consume returns once its context ends, although handlers may never do
\* (WithShutdownGrace).
ConsumeReturns == ended ~> cpc \in {"returned", "crashed"}

=============================================================================
