# A TLA+ model of narad-go

narad-go is the Go client of the Narad message broker. This directory models
the parts of it in which order matters: what a call does to the nodes'
circuit breakers while other goroutines do the same, what a retry may do
twice, who settles a delivered message and when, how a consumer and its
workers start and stop, how a log is read back, how clients race over a
topic, and how ids are made. TLC checks the models on small instances; TLAPS
proves their safety properties, the refinements between them, and how far each
goroutine is from its end, for every value of the constants. `PROJECT.json` lists the runs, the
theorems, the lines each definition stands for, and the hazards.

## The system

| Component | State it keeps | Operations | Talks to |
| --- | --- | --- | --- |
| Client (`client.go`) | `closed`, config, HTTP client | `New`, `Close`, `do`, `Ping`, `Health` | every API call goes through `do` |
| Nodes (`nodes.go`) | `nodeSet.next`; per node: state, failures, openedAt, lastError under a mutex | `pick`, `untried`; `ready`, `observe`, `abandon` | called by `do` from any goroutine |
| Errors (`errors.go`) | none | `Retryable`, `Uncertain`, `errorKind`, ... | decide what `do`, the breakers and the settles do |
| Message (`message.go`) | atomics `settled`, `settling`; the receipt | `Ack`, `Nack`, `Extend` (`settleFrom`) | own retry loop over `do` with `once` |
| Consumer (`consume.go`) | per worker: one message, its lease keeper | `Consume`, `worker`, `dispatch`, `keepLease` | handler, keeper and worker share the message and its context |
| Batch consumer (`consume_batch.go`) | `succeeded`, `next`, `handedBack`; per lease `held`, `gone` | `dispatchBatch`, `batchLeases`, `settleMany` | loop, renewal rounds and the shutdown callback run side by side |
| Replay (`consume.go`) | an offset; `patience` | `ReadAt`, `ReadFrom`, `Replay` | `do` |
| Ids and envelopes (`envelope.go`) | global `idClock` under a mutex | `newID`, `wrap`, `Retry` | `Produce`, then `Ack` |
| Topics (`topics.go`) | none beyond the call; the broker keeps the topic | `CreateTopic`, `EnsureTopic`, `DeleteTopic`, `SetSchema` | `do`, whose resends meet their own changes |
| Produce and produce batches (`produce*.go`) | the batch being filled | one `do` each | brokers |
| Metrics, logger, options | collectors; hooks; values | callbacks from `do` and the breakers | Prometheus |

What is hard here:

- *Shared breakers.* `pick` asks one node after another, each under its own
  mutex, and asking changes the node: past its cooldown it becomes half-open
  and then refuses everybody until a request to it is answered. Requests end
  long after the breaker they started under has moved on.
- *Retries without knowing.* A failed request may have been carried out. Each
  error is classified by operation, status and message text, and retry,
  report and benefit of the doubt hang on it.
- *One message, three parties.* The handler may settle its own message while
  the keeper renews it and the worker waits to settle it; the broker can lose
  the lease at any time, and a request given up by the client can still
  arrive.
- *One batch, three goroutines.* The loop works through the messages, the
  renewer extends all of them in rounds, and shutdown's callback acks and
  hands back beside a handler that may never return.
- *Partial results.* One batch ack settles some messages, refuses others and
  loses the rest.
- *A pool that outlives its caller.* Consume gives up on handlers that
  outlast its grace; their goroutines go on, and settle, after it returned.
- *Two writes that are one.* Retry publishes and then acks, and either may
  fail, be lost, or be done twice.
- *A log that moves.* While a replay reads, records are appended in front of
  it and age out behind it, and partitions change owners.
- *Resends that meet themselves.* A create, delete or schema change sent again
  finds what its first sending left, or what somebody else made of it.
- *Clocks.* Ids must sort although the wall clock goes backwards.

What makes each part correct: a half-open node is always being asked
something, and gets its answer; calls end; nothing is done twice in cautious
mode, and no doubt is lost in silence in the other; a message is acked only
for a success, handed back only for a failure or if it is never started, and
never settled and renewed at once; every message of a batch is settled once or
accounted for; a message no handler has dealt with stays in the queue, itself
or as a copy; Consume returns, and starts nothing afterwards; a replay hands
over each record that can be read once, in order, and nil means all of them;
replicas that ensure a topic get the same one; ids sort by creation.

## The modules

| Module | Models | Kind |
| --- | --- | --- |
| `Errors` | `errors.go` and the two predicates `movesOn`, `nodeFault` | operators |
| `Breaker` | one node's circuit breaker, one operator per critical section | operators |
| `Calls` | what `do` promises the goroutines that call it | abstract specification |
| `Client` | `do`, `pick`, `untried`, `wait`, `Close` by concurrent callers | specification, refines `Calls` |
| `MCClient` | what a broker, a proxy and the network may answer, per instance | instances |
| `ClientProofs` | theorems about `Client`, the refinement included | proofs |
| `Delivery` | what `Consume` promises of one message | abstract specification |
| `Dispatch` | `dispatch`, `keepLease`, `settleFrom` for one message | specification, refines `Delivery` |
| `DispatchProofs` | theorems about `Dispatch`, the refinement included | proofs |
| `Deliveries` | the same of the messages of a batch | abstract specification |
| `Batch` | `dispatchBatch`, `batchLeases`, the shutdown callback | specification, refines `Deliveries` |
| `BatchProofs` | theorems about `Batch`, the refinement included | proofs |
| `Outcomes` | what a settle of several messages promises for each | abstract specification |
| `SettleMany` | `settleMany`, `ackBatch`, the fallback to `settleFrom` | specification, refines `Outcomes` |
| `SettleManyProofs` | theorems about `SettleMany`, the refinement included | proofs |
| `LogScan` | what reading logs back promises | abstract specification |
| `Replay` | `ReadAt`, `ReadFrom`, `readFrom`, `Replay`, `patience` | specification, refines `LogScan` |
| `ReplayProofs` | theorems about `Replay`, the refinement included | proofs |
| `Consume` | `Consume`, `worker`, `pollMany`, `Retry` over a queue | specification |
| `ConsumeProofs` | theorems about `Consume` | proofs |
| `Topics` | `CreateTopic`, `EnsureTopic`, `DeleteTopic`, `SetSchema` over `do`'s resends | specification |
| `MCTopics` | clients that are interchangeable | instance |
| `TopicsProofs` | theorems about `Topics` | proofs |
| `IdClock` | `idClock`, `nextTick`, the ordered part of `newID` | specification |
| `IdClockProofs` | theorems about `IdClock` | proofs |

`Client` extends `Breaker`, which extends `Errors`. Definitions keep the names
of the source. An operator named in a comment as a *mutant* is a plausible
bug in the definition that follows it and is used by no specification: put in
that definition's place, it must make TLC report the property it is paired
with.

### Client

A caller is a goroutine inside `do`; `pc` says where. A step is what happens
between two points at which another goroutine can interfere: the atomic add
of `pick` (`Pick`), one `ready()` (`TakeFresh`, `SkipFresh` in the first loop,
`TakeAny`, `SkipAny`, `NoNode` in the second), the end of a request together
with its `observe` or `abandon` (`Reply`), the decision (`GiveUp`, `Retry`,
`MoveOn`), each `ready()` of the `untried` lookahead (`FoundUntried`,
`SkipUntried`), and the end of the wait (`WaitOver`, `WaitEnded`). A caller
that returns may call again, so one caller's requests follow one another.

The reply to a request is any member of `Replies` for its operation. A reply
carries a ghost, `applied`: whether a server carries the request out. The
assumption about the outside is `SoundReplies`: a request that was carried
out and came back as an error came back as one `Uncertain` covers. It is a
hypothesis of the theorems that need it, and the reply sets of all runs
satisfy it. A gateway that passes a request on and then answers 504 does not
(see below).

Time is `Tick`, which moves every cooldown down. `next` is kept modulo the
number of nodes, `failures` up to the threshold, `openedAt` as the cooldown
left. How long a wait lasts, logging, `Health` and the HTTP of `attempt` are
left out.

`Calls` knows no nodes, breakers or waits. A call is begun, sent, carried out,
warned about by a retry event, and returned, with success, an error that leaves
open what happened, one that denies it, or `ErrNoNodes`. A second time of being
carried out needs a warning first, and there is none in cautious mode. In the
mapping (`Phase`, `Result`) a call is sent once it has tried a node, and its
result is what `Uncertain` makes of the error it returned.

### Dispatch and Delivery

The worker (`wpc`), the keeper (`kpc`) and the broker (`lease`) share one
message. `req` holds each goroutine's run of `settleFrom`. Reads and writes of
`settled` and `settling` are separate steps. A request is answered (204 while
the broker holds the handle, 410 after), or ends in an error that says
nothing (`Unsure`), in which case it was applied, will be later (`late`,
`Land`) or never is; or it is turned down, retryable or not. The lease lapses
whenever it likes, the handler calls what it likes up to `MaxCalls` times,
and the shutdown ends its context whenever it likes (`StopWork`).

`Delivery` has the lease, the handler's verdict and what the handler asked
for, and says which ends of the lease are allowed. `Dispatch` implements it
with the identity as refinement mapping (`DeliversAsPromised`).

### Batch and Deliveries

`lpc` says where the loop is, `rpc` where the renewer is, and `sweep` how far
loop and callback are with their `flush` and `handBackUnstarted`, the same
code run by both: `flush` and `acks`, then `unstarted` and `nacks`. A critical
section of `mu` is one step (`Claim`, `TakeSucceeded`, `TakeUnstarted`).
`release` needs the round mutex, so it is enabled only between rounds
(`roundOver`). `context.AfterFunc` and `stopFlush` race for the callback:
`CallbackStarts` takes it from `waiting` to `flush`, `EndLoop` takes it off.
Source indices start at 0, here at 1; `hand` is the message the loop is at.

A settle is a `call`: the messages still unanswered and those answered by
outcome. Each answer is a step of its own, so other goroutines act between
them. What an answer may be (`Respond`) follows `Outcomes`, which `SettleMany`
is shown to implement: nil over a lease that was held, nil for an ack in doubt
over one that no longer is, a lost lease only when it is one, or an error that
says nothing, with the settle applied, late or never. For a nack `Outcomes`
also allows a lost lease that the nack itself ended; nothing in `dispatchBatch`
tells that from another error.

`Deliveries` is `Delivery` for a set of messages which may also be handed back
before they are started, and then are not.

### SettleMany and Outcomes

A round is one step: the broker processes each pending handle, and the reply
is a status for each (`Results`), a 200 that cannot be read (`Unreadable`), an
error that may hide that it was carried out, for any of the messages
(`RoundUnsure`), or one that says it was not (`RoundRefused`,
`RoundRejected`), or a 400 (`FallBack`). In between leases lapse and late
requests arrive. As in `Dispatch`, "unsure" is what `Uncertain` covers; a
failure it does not cover is taken for one that did nothing. A 504 is not
covered: behind a gateway that passes an ack on and then answers 504, the
resend's 410 would be reported as a lost lease. The same holds for a produce:
`Retryable` includes 504 and `Uncertain` does not (`errors.go:186`, `:231`), so
cautious mode resends it; the theorems' hypothesis `SoundReplies` excludes it.

### Replay and LogScan

`pc` says where the call is: describing the topic, at the head of
`readFrom`'s loop, in a read, in the handler, or in one of the two waits. Both
calls share it: a `patient` call is `Replay`, which walks all partitions with
a new patience for each, the other is one `ReadFrom` with none. Each partition
has its log's bounds, `oldest` and `next`, which producers and retention move
at any moment, and an `owner` that is up, down or not assigned yet. `Described`
reads `oldest` once; by the time it is read from it may be stale.

Time passes in ticks: a failed call takes up to `MaxCall`, a wait up to
`MaxDelay` and at least one, which is the floor `patience.wait` puts under a
delay. `elapsed` is what `patience` counts, `dark` (a ghost) what really
passed since the log was last heard of. `existed` (a ghost) is where each log
ended when the call began.

About the broker it is assumed that a partition nobody owns yet looks like an
empty one (`consume.go:695`), and that a read of one whose owner is down
fails (`consume_test.go:1217`). `ReadFrom` starts on assigned partitions only:
it has no stats to look at, and its doc says nothing about others.

`LogScan` has, per partition, the position, what was handed over and whether
its end was met. It allows a record to be passed over only when it is gone or
unreadable, and completion only when every end was met. In the mapping a read
that is in the handler has already moved past its record (`Pos`), a replay is
past the ends of the partitions before `part` (`Sealed`), and describing is
`idle` (`State`).

### Consume

Each worker is in the head of its loop, a poll, the pause after a failed one,
a batch's loop, a handler, or one of `Retry`'s two calls within a handler. How
a delivery is settled is the subject of `Dispatch` and `Batch`; here a settle
is a request in `pending`, which lands, or does not, before the lease it was
sent under is over (`Lapse` takes it along: the broker refuses a spent
handle). `lease` says who holds a message; `nobody` is one taken by a poll
whose reply was lost. `Sweep` is the shutdown callback of a batch and may run
beside a handler, as in `Batch`.

`Retry` publishes copies, each of which keeps the `root` it was made from
(`WithID(env.ID)`). The produce may reach the broker several times
(`PublishLands`) and return nil only after it has (`Published`). The ack that
follows may fail, and the handler then fails with it. `Retry` into another
topic is left out: the copy would leave the queue the model has. Also left out
is a handler that settles its message itself otherwise, which is `Dispatch`'s.

`Cancel` ends the caller's context, `Close` the client, `Crash` the process.
`SecondOver` returns from Consume while handlers still run, but only once every
worker that waits for no handler has come to its end: the last second is taken
to be long enough for a poll that was cancelled.

### Topics

Clients make one call each, all on one name. `topic` is the generation that
exists under it, so a topic deleted and created again is another. A request is
carried out and answered (`Answered`), carried out with the reply lost
(`ReplyLost`), given up on while still on its way (`Astray`, then `Straggler`
at any later moment), or lost (`NotSent`). `again` is `do`'s decision what to
do next; breakers and waits are `Client`'s. Whatever became of an attempt, its
error may be one `Uncertain` covers or not: unlike `Client`, `Topics` assumes
nothing about a gateway's 504. The ghost `denied` records that `Uncertain`
denied an attempt that was, or may yet be, carried out. `taken` is the name in another
letter case. The broker is external: its answers are modelled from what
`topics.go` says of them. Reading calls (`Topic`, `Topics`, `Children`) appear as
`EnsureTopic`'s lookup only.

### IdClock

Goroutines call `newID`, take the mutex, and hold it through `nextTick`, its
sleep included. The clock is any element of `Times` at any moment. A ghost,
`floor`, is the last id made when a call began; `SortedByCreation` compares
the new id with it. Encoded ids are compared by timestamp modulo `Width`
(48 bits) and sequence. The random tail is left out: it decides only between
ids that tie, and no two do.

## The runs

| Run | Shows | Bounds |
| --- | --- | --- |
| `client` | a half-open node has a request in flight; doubt is reported; the refinement of `Calls`, with the default retries | 2 goroutines, 2 nodes, 2 attempts, breaker opens at 1 failure and cools in 1 tick; symmetric callers |
| `client_cautious` | at most once; the refinement of `Calls`, in which cautious errors are honest | 1 goroutine, 3 nodes, 3 attempts, threshold 2; produce retries, ack is `once` |
| `client_liveness` | calls return, probes are answered | 2 goroutines, 2 nodes, 2 attempts, success or refused dial |
| `dispatch` | everything about one message, the refinement and termination | 2 attempts per settle, 2 settles by the handler |
| `idclock` | ids sort | 2 goroutines, clock over 3 values, 3 sequence numbers |
| `batch` | everything about a batch but liveness, the refinement included | 2 messages, 1 settle by a handler |
| `batch_liveness` | the callback ends beside a handler that never returns; `dispatchBatch` returns | 2 messages, handlers settle nothing themselves |
| `settle_many` | one honest outcome per message, for ack, nack and extend: the refinement of `Outcomes` | 2 messages, 3 attempts |
| `replay` | complete, in order, nothing twice; bounded patience; it ends | 2 partitions of up to 2 records, one offset unreadable, patience 2, delays up to 2, calls up to 1 |
| `consume` | no message and no worker is lost; Consume returns, and starts nothing after | 2 workers, 1 message, 1 copy, batches of up to 2 |
| `topics` | replicas agree; a cautious delete deletes once, unless an error denied it; a conditional change is made once to a topic | 3 clients, symmetric, 2 attempts |

Why these are enough: a breaker distinguishes only its own states, and two
callers and two nodes already give a stale request, a probe and a third
party's decision at once. Three nodes
and attempts let a call come back to a node it tried. Two settle attempts
make a first doubtful and a second conclusive answer. Of two messages in a
batch one can be in hand while the other has succeeded, waits to start, is
being renewed, acked or handed back; a third would repeat one of these. Three
rounds let one message be settled, then another doubted, then the doubt be
resolved or carried into the fallback. Two partitions make a replay move on
from one, and the other change its owner or lose records meanwhile; of two
records one is unreadable. One message and one copy of it are two messages, so
both workers can be at work and a batch of two happens, made of a message and
its own copy; that two unrelated messages do not disturb each other is left to
the theorems, for which every set of messages is the same. Three clients are
one that creates, one that deletes and one whose resend meets both. Beyond the
bounds the theorems hold for every number of callers, nodes, attempts, handler
calls, goroutines, partitions, workers, messages and clients.

`stranded_node` expects a violation, of a statement of the repository the code
does not keep. `breaker_cancel_test.go:51`: a node is not left waiting "for an
answer that never comes". But `untried()` (`nodes.go:293`) claims a cooled-down
node for half-open, and the call then ends, or picks another node, without
sending it anything. Nothing ever moves it on.

Modelling met more statements that the code does not keep. No run is spent on
these; each is a short behaviour of the module named:

- `nodes.go:115` says "Half-open admits exactly one request at a time". `abandon`
  and `fail` act for whichever request ends, also one that left before the
  breaker opened: it sets a half-open node back to open, and a second probe is
  let in beside the first (`Client`: `Reply` of the older request while the
  other is in flight).
- `errors.go:198` says `Uncertain` tells whether the request may have been
  carried out. With the default retries `do` returns the last failure, or the
  context's (`client.go:242`, `:272`); an earlier one that may have been applied
  is forgotten, and only the retry event told of it.
- `consume.go:534` and `consume_batch_test.go:1124`: a renewal's 410 that meets the
  handler's own ack does not cancel the handler. The keeper reads `settled` and
  then `settling`, and the ack can set the one and drop the other in between
  (`Dispatch`: `KeeperReadsSettled`, then `Mark` and `Leave`, then the second
  read). Reading them in the other order closes it.
- `consume.go:664` says a replay "reads what exists when it starts and stops at
  the end of each partition, so it terminates on a live topic rather than
  following new writes". `readFrom` stops at the first offset that is not
  written when it asks, so it does follow new writes, and ends when producers
  pause (`ReplayEnds` rests on `MaxNext`).
- `topics.go:440` says a topic that was deleted and created again under a delete
  reports `ErrTopicChanged`. That is about one request. A resent `DeleteTopic`,
  after a lost reply, deletes the new topic and returns nil; `DeletesOne` needs
  `WithCautiousRetries`.
- `options.go:87` says "WithCautiousRetries stops the client retrying when it
  cannot tell whether the server already applied the request". The 504
  of a gateway that has passed the request on is such a case, and is `Retryable`
  (`errors.go:185`) but not `Uncertain` (`errors.go:231`), so it is sent again. A cautious delete that was
  carried out and answered 504 deletes, when resent, the topic another client has
  created since (`Topics`: `ReplyLost` with `uncertain` false, another client's
  `Answered`, then `Answered`). `DeletesOne` excepts such calls (`denied`).
- `topics.go:219`: a base version of 0, which a topic without a schema has, is left
  out of the request (`omitempty`), so the first schema cannot be conditional;
  `ConditionalOnce` is about the others.

### Fairness

`client_liveness`: each goroutine's own steps are weakly fair. That covers
scheduling, the end of a request (every attempt runs under a timeout) and of
a wait (a timer); `Tick` is weakly fair because time passes. Nothing is
assumed of `Close`, of cancellation or of which reply comes.

`dispatch`: requests end (a settle runs under a 10 s context, a renewal under
5 s) and goroutines run. `KeeperStops` is strongly fair: once `done` is
closed it is ready at every `select`, which chooses at random, so it is not
passed over for ever, though a renewal may intervene any number of times.
Nothing is assumed of the handler: `DispatchEnds` starts when it has
returned.

`batch_liveness`: goroutines run and requests end, as above. The steps of loop
and callback are strongly fair because a release waits for the round mutex,
which rounds take again and again: rounds are at least a second apart and
Go's mutex does not pass over a waiter for ever. Nothing is assumed of the
handler, of ticks or of shutdown.

`replay`: the call's own steps are weakly fair, because calls end, timers fire
and (here it is needed) the handler returns. Nothing is assumed of producers,
retention, owners or the context. The patience makes every run of failures
end, and `MaxNext` stands for producers that pause.

`consume`: the timers of the shutdown, and what a worker does without waiting
for a handler, are weakly fair; a poll is bounded by its context. Nothing is
assumed of handlers, of `Retry` or of settles, so `ConsumeReturns` holds beside
handlers that never return.

## The proofs

`tlapm` checks every leaf; no assumption is made beyond the named `ASSUME`s
on the constants and the hypotheses written in the theorems.

**`ClientProofs`.** `TypeCorrect` needs, beside the types, `AttemptsLeft`: a
call waits only while an attempt is left, which bounds `attempt`.
`DoubtReported` rests on an invariant that follows one call: as long as it has
not been warned, whatever was carried out so far is covered by its last error,
which is uncertain and about to be reported by the retry. It holds under
`SoundReplies` and gives `CautiousIsAtMostOnce` and `CautiousIsHonest`, since
in cautious mode a call with an uncertain failure never reaches the retry that
would warn. `NoNodesIsHarmless` follows a call from its start: while it has no
error it has sent nothing, and no reply makes the error it has later
`ErrNoNodes`. `ClientKeepsPromise` puts these together: step by step, `Client`
implements `Calls`, under `SoundReplies` and `SuccessIsDone` (a success was
carried out).

`HalfOpenProbed` is proved under `NoLookahead`: there is one node only, or no
operation that is retried meets a reply that moves on. Then `ready()` is only
ever called by a `pick` that sends. The hypothesis is needed, as run
`stranded_node` shows, so the theorem says that the lookahead is the *only* way
to strand a node.

**`DispatchProofs`.** The properties are not inductive. `Inv` adds `Control`
(which goroutine may be where: the keeper is gone once the worker settles),
`Counted` (`settling` is 1 exactly during the worker's ack or nack),
`Permitted` (every ack or nack in flight or late is one the verdict or the
handler allows), `Knowledge` (an answer of 410, an accepted ack or nack, and
`settled` each imply that the broker no longer holds the lease) and `Reasons`
(why a message counts as acked). The five safety theorems follow from it, and
`DispatchDelivers` shows that every step of `Dispatch` is a step or a stutter
of `Delivery` under it.

**`BatchProofs`.** The invariant comes in two layers. `Inv` follows each message
through the hands it passes: not claimed, in the loop's hand, succeeded, taken
by a sweep, sent. `Apart` says that these exclude each other, which gives
`OnceSettled`; `Released` that what is about to be settled is out of the
renewer's reach; `accounted` that no message falls between two hands; `Swept`
what a sweep leaves behind, without which `AbandonedCostsItsOwn` and
`NothingForgotten` do not follow. `Delivered` adds what was known on the way:
the verdict a message has where it is (`Judged`), that the broker carries out
only what somebody asked of it (`Wanted`), that an answered ack is at the broker
or in doubt (`Acked`), and that a success waits for its ack until it is settled
or reported (`Pending`). `SuccessNotLost` and `BatchImplementsDeliveries` rest
on it.

**`SettleManyProofs`.** The invariant adds `Doubted` (while an ack is pending,
a lease it ended, or may yet end by a late request, is one it knows may have
landed), `Reasons` (a lost lease is lost and not acked; nil is over a lease
that is spent, or in doubt), `LeasesOf` and `AttemptsLeft`. Doubt may be
dropped only with the message itself, which is why a single settle that gives
up need not record it. The refinement then needs that an outcome, once it is
there, stays (`OutcomeStays`) and that each lease moves as `Outcomes` lets it
(`LeaseMoves`).

**`ReplayProofs`.** What is left of a replay when it returns nil must be
followed backwards through all partitions. The invariant says for each
partition that every record below its offset was handed over or is gone, for
those before `part` that the offset has passed what existed at the start, and
that no partition is unassigned once reading has begun, which is what
describing first is for. For `PatienceBounds` it ties the ghost `dark` to
`elapsed`: they differ by the first failed call of a run at most. The mapping to
`LogScan` is proved action by action.

**`ConsumeProofs`.** That some copy of a message is live is not inductive: two
copies might each be about to be acked for the other's sake. The invariant
(`Kept`) says more of one of them, in fact the latest: it is live, no ack of it
is on its way, and no `Retry` that holds it has published yet. A `Retry` acks the
copy it holds only after it has published a later one (`Held`), and a success
puts the message in `handled` before its ack is sent (`Earned`).
`PoolStaysWhole` and `NothingStartsAfterReturn` follow from where workers can be
once the context has ended.

**`TopicsProofs`.** `EnsuresAgree` follows because a topic nobody deletes keeps
its generation. For `DeletesOne` the invariant counts requests: in cautious
mode one that may be carried out is the last, so a delete has removed a
topic, or has one request on its way, or neither, and never two of these. All
this as long as `Uncertain` told the truth about the call's attempts (`~denied`),
which is an exception in the property and not a restriction of the model.
`ConditionalOnce` needs nothing of the sort. It rests on the version only growing
within a generation, and is about one generation: all
writes of a conditional call wrote the version after its base.

**`IdClockProofs`.** The invariant says that no id made, and no floor, is past
the clock's own `(milli, seq)`; `Sorted` and `Distinct` follow because an
issued id is strictly past it.

**Winding down.** TLAPS does no fairness, but most of what makes the system end
is safety: a number that each step of a goroutine lowers and that nobody else's
step raises. Each of these theorems gives such a number for every size of the
system, and its bound.

| Theorem | What ends | Its own steps, at most |
| --- | --- | --- |
| `CallsAreBounded` | a call of `do`, whatever nodes and other callers do | `(3N + 4)` for each attempt |
| `SettlingIsBounded` | `settleMany`: rounds, waits, single settles | `N * Attempts + 2 * Attempts` |
| `DispatchWindsDown` | `dispatch` once the handler has returned | `4 * Attempts + 10` |
| `RoundsEnd` | a round of renewals, while which nobody can release | `3N + 1` |
| `SweepsEnd` | the callback, or the loop's own sweep | `6N + 4` |
| `BatchWindsDown` | `dispatchBatch` once its loop is over | `6N + 7` |
| `WorkersEnd` | a worker once the context has ended | 7 |

Two need a word. In `DispatchWindsDown` one step raises the number, and the
theorem names it: the keeper's `select` may choose a tick although `done` is
closed. In `WorkersEnd` two leave it as it is: the repeated attempts of one
poll or produce, which `CallsAreBounded` bounds. `CallsAreBounded` needs
`AttemptsLeft`; `SettlingIsBounded` that settling goes on only while something
is pending; `SweepsEnd` that a message is in one of a sweep's hands at a time,
so that `6N` counts every release and every answer once; `WorkersEnd` that a
worker in the loop of a batch has one (`LoopHasBatch`).

Only model-checked: the liveness properties (`ProbeIsAnswered`, `CallsReturn`,
`DispatchEnds`, `CallbackEnds`, `BatchEnds`, `ReplayEnds`, `ConsumeReturns`).
What TLC adds to the theorems above is that under the stated fairness the next
step is taken, that is, that nobody waits for a step that is never enabled;
`ReplayEnds` and `ProbeIsAnswered` have no such theorem. The other way round,
some properties are only proved, and no longer run: `SettledSpent`, `Distinct`,
`NoNodesSentNothing`, `UncertainIsHonest`, the numbers of the table, and those
of `SettleMany` other than the refinement.

## What is not modelled, and the plan

Not modelled although it decides something: the byte counts of a produce batch
(`produce_batch.go:63`), a sequential sum that unit tests reach; the sign of
`pick`'s start index on 32-bit builds (`nodes.go:274`); `Receive`, a poll in a
loop; and the listing calls, which change nothing.

How long things take is left out: a renewal is due every third of the
visibility timeout and has 5 seconds, but in the models a tick may come, and a
lease lapse, at any moment. So the safety properties do not depend on renewals
being in time, and nothing is said about how many may fail
(`consume.go:498`).

Left out for good: the HTTP transport, JSON and base64 conversions, option
parsing, logging, and the Prometheus collectors (a stateless mapping of
events onto an external library). A plain produce, topic lookup or ping is one
`do`, and `Client` is its model.
