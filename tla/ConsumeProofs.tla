--------------------------- MODULE ConsumeProofs ---------------------------
(***************************************************************************)
(* Theorems about Consume, for any number of workers, messages and copies. *)
(***************************************************************************)
EXTENDS Consume, TLAPS

live(m) == lease[m] = "ready" \/ leased(m)

\* A handler holds a message exactly while there is one to hold, and a copy is
\* stored only under a Retry.
Held == \A w \in Workers :
    /\ wpc[w] \in {"handler", "publish", "retryAck"} <=> cur[w] # None
    /\ published[w] => wpc[w] \in {"publish", "retryAck"}
    /\ wpc[w] = "retryAck" => published[w]

\* What waits for its ack after a success was one.
Earned == \A w \in Workers : \A m \in good[w] : root[m] \in handled

\* A copy that does not exist yet is nobody's.
Unmade == \A c \in Msgs : lease[c] = "unused" =>
    /\ \A w \in Workers : cur[w] # c /\ c \notin todo[w] /\ c \notin good[w]
    /\ \A op \in {"ack", "nack"} : <<op, c>> \notin pending

\* m is not about to be acked for a copy's sake.
kept(m) ==
    /\ live(m)
    /\ <<"ack", m>> \notin pending
    /\ \A w \in Workers : cur[w] = m => ~published[w]

\* The latest copy of a message that no handler has had success with is kept.
\* (That some copy is live is not inductive: two might each be acked for the
\* other's sake.)
Kept == \A r \in Roots \ handled : \E m \in Msgs : root[m] = r /\ kept(m)

Rooted == \A m \in Msgs : lease[m] # "unused" => root[m] \in Roots

Inv == TypeOK /\ Held /\ Earned /\ Unmade /\ Rooted /\ Kept

-----------------------------------------------------------------------------

LEMMA NoneIsNoMsg == None \notin Msgs
BY ConsumeAssumption

LEMMA LiveOrNot == ASSUME NEW m \in Msgs PROVE live(m) => lease[m] \notin {"unused", "acked"}
BY ConsumeAssumption DEF live, leased, Idle

LEMMA InitInv == Init => Inv
<1> SUFFICES ASSUME Init PROVE Inv
    OBVIOUS
<1> USE ConsumeAssumption DEF Init
<1>1. TypeOK
    BY DEF TypeOK, Idle, Msgs
<1>2. Held /\ Earned /\ Unmade
    BY DEF Held, Earned, Unmade, Msgs
<1>3. Rooted
    BY DEF Rooted, Msgs
<1>4. Kept
    BY DEF Kept, kept, live, Msgs
<1> QED BY <1>1, <1>2, <1>3, <1>4 DEF Inv

LEMMA OutsideInv == ASSUME Inv, Outside PROVE Inv'
<1> USE DEF Inv
<1>1. CASE Lapse
    <2>1. PICK m \in Msgs :
            /\ leased(m) /\ lease' = [lease EXCEPT ![m] = "ready"]
            /\ pending' = pending \ spent(m)
            /\ UNCHANGED <<root, caller, worker, handled>>
        BY <1>1 DEF Lapse
    <2>2. UNCHANGED <<root, ended, closed, cpc, wpc, mode, todo, good, cur, published, handled>>
        BY <2>1 DEF caller, worker
    <2>3. TypeOK'
        BY <2>1, <2>2 DEF TypeOK, Idle
    <2>4. Held' /\ Earned' /\ Rooted'
        BY <2>1, <2>2, LiveOrNot DEF Held, Earned, Rooted, live, TypeOK
    <2>5. Unmade'
        BY <2>1, <2>2 DEF Unmade, TypeOK
    <2>6. \A k \in Msgs : kept(k) => kept(k)'
        BY <2>1, <2>2 DEF kept, live, leased, TypeOK
    <2>7. Kept'
        BY <2>2, <2>6 DEF Kept
    <2> QED BY <2>3, <2>4, <2>5, <2>7
<1>2. CASE Land
    <2>1. PICK m \in Msgs, op \in {"ack", "nack"} :
            /\ <<op, m>> \in pending
            /\ lease' = [lease EXCEPT ![m] = IF op = "ack" THEN "acked" ELSE "ready"]
            /\ pending' = pending \ spent(m)
            /\ UNCHANGED <<root, caller, worker, handled>>
        BY <1>2 DEF Land
    <2>2. UNCHANGED <<root, ended, closed, cpc, wpc, mode, todo, good, cur, published, handled>>
        BY <2>1 DEF caller, worker
    <2>3. TypeOK'
        BY <2>1, <2>2 DEF TypeOK, Idle
    <2>4. lease[m] # "unused"
        BY <2>1 DEF Unmade
    <2>5. Held' /\ Earned' /\ Rooted'
        BY <2>1, <2>2, <2>4 DEF Held, Earned, Rooted, TypeOK
    <2>6. Unmade'
        BY <2>1, <2>2 DEF Unmade, TypeOK
    <2>7. \A k \in Msgs : kept(k) => kept(k)'
        <3> SUFFICES ASSUME NEW k \in Msgs, kept(k) PROVE kept(k)'
            OBVIOUS
        <3>1. <<"ack", k>> \notin pending' /\ \A w \in Workers : cur'[w] = k => ~published'[w]
            BY <2>1, <2>2 DEF kept
        <3>2. live(k)'
            <4>1. CASE k = m
                BY <2>1, <4>1 DEF kept, live, TypeOK
            <4>2. CASE k # m
                BY <2>1, <4>2 DEF kept, live, leased, TypeOK
            <4> QED BY <4>1, <4>2
        <3> QED BY <3>1, <3>2 DEF kept
    <2>8. Kept'
        BY <2>2, <2>7 DEF Kept
    <2> QED BY <2>3, <2>5, <2>6, <2>8
<1>3. CASE Cancel \/ Close
    <2>1. UNCHANGED <<lease, root, pending, cpc, wpc, mode, todo, good, cur, published, handled>>
        BY <1>3 DEF Cancel, Close, queue, worker
    <2>2. TypeOK'
        BY <1>3, <2>1 DEF Cancel, Close, TypeOK
    <2>3. Held' /\ Earned' /\ Rooted'
        BY <2>1 DEF Held, Earned, Rooted
    <2>4. Unmade'
        BY <2>1 DEF Unmade
    <2>5. Kept'
        BY <2>1 DEF Kept, kept, live, leased
    <2> QED BY <2>2, <2>3, <2>4, <2>5
<1>4. CASE Crash
    <2>1. /\ UNCHANGED <<lease, root, pending, ended, closed, mode, handled>>
          /\ cpc' = "crashed" /\ wpc' = [w \in Workers |-> "gone"]
          /\ todo' = [w \in Workers |-> {}] /\ good' = [w \in Workers |-> {}]
          /\ cur' = [w \in Workers |-> None] /\ published' = [w \in Workers |-> FALSE]
        BY <1>4 DEF Crash, queue
    <2>2. TypeOK'
        BY <2>1 DEF TypeOK
    <2>3. Held' /\ Earned' /\ Rooted'
        BY <2>1 DEF Held, Earned, Rooted
    <2>4. Unmade'
        BY <2>1, NoneIsNoMsg DEF Unmade
    <2>5. Kept'
        BY <2>1 DEF Kept, kept, live, leased
    <2> QED BY <2>2, <2>3, <2>4, <2>5
<1> QED BY <1>1, <1>2, <1>3, <1>4 DEF Outside

LEMMA ShutdownInv == ASSUME Inv, Shutdown PROVE Inv'
<1> USE DEF Inv
<1>1. UNCHANGED <<lease, root, pending, ended, closed, wpc, mode, todo, good, cur, published, handled>>
    BY DEF Shutdown, CtxDone, AllDone, GraceOver, SecondOver, queue, worker
<1>2. TypeOK'
    BY <1>1 DEF Shutdown, CtxDone, AllDone, GraceOver, SecondOver, TypeOK
<1>3. Held' /\ Earned' /\ Rooted' /\ Unmade'
    BY <1>1 DEF Held, Earned, Rooted, Unmade
<1>4. Kept'
    BY <1>1 DEF Kept, kept, live, leased
<1> QED BY <1>2, <1>3, <1>4


\* Steps that only move a worker on.
LEMMA MovesInv ==
    ASSUME Inv, NEW w \in Workers,
           \/ Top(w) \/ PollEmpty(w) \/ PollFailed(w) \/ BackedOff(w)
           \/ HandlerRetries(w) \/ Published(w)
    PROVE  Inv'
<1> USE DEF Inv
<1>1. /\ UNCHANGED <<lease, root, pending, ended, closed, cpc, mode, todo, good, cur, published,
                     handled>>
      /\ \E where \in {"top", "poll", "backoff", "gone", "publish", "retryAck"} :
            wpc' = [wpc EXCEPT ![w] = where]
    BY DEF Top, PollEmpty, PollFailed, BackedOff, HandlerRetries, Published, goTo, queue, caller
<1>2. TypeOK'
    BY <1>1 DEF TypeOK
<1>3. Held'
    <2>1. CASE HandlerRetries(w) \/ Published(w)
        BY <1>1, <2>1 DEF HandlerRetries, Published, goTo, Held, TypeOK
    <2>2. CASE Top(w) \/ PollEmpty(w) \/ PollFailed(w) \/ BackedOff(w)
        <3>1. /\ wpc[w] \in {"top", "poll", "backoff"}
              /\ \E where \in {"top", "poll", "backoff", "gone"} : wpc' = [wpc EXCEPT ![w] = where]
            BY <2>2 DEF Top, PollEmpty, PollFailed, BackedOff, goTo
        <3> QED BY <1>1, <3>1 DEF Held, TypeOK
    <2> QED BY <2>1, <2>2
<1>4. Earned' /\ Rooted' /\ Unmade'
    BY <1>1 DEF Earned, Rooted, Unmade
<1>5. Kept'
    BY <1>1 DEF Kept, kept, live, leased
<1> QED BY <1>2, <1>3, <1>4, <1>5

LEMMA PollInv == ASSUME Inv, NEW w \in Workers, PollAnswered(w) \/ PollDropped(w) PROVE Inv'
<1> USE DEF Inv
<1>1. CASE PollAnswered(w)
    <2>1. PICK S \in SUBSET Msgs :
            /\ wpc[w] = "poll" /\ taken(S)
            /\ lease' = [m \in Msgs |-> IF m \in S THEN w ELSE lease[m]]
            /\ \/ \E m \in S :
                    /\ cur' = [cur EXCEPT ![w] = m] /\ mode' = [mode EXCEPT ![w] = "single"]
                    /\ wpc' = [wpc EXCEPT ![w] = "handler"] /\ todo' = todo
               \/ /\ todo' = [todo EXCEPT ![w] = S] /\ mode' = [mode EXCEPT ![w] = "batch"]
                  /\ wpc' = [wpc EXCEPT ![w] = "loop"] /\ cur' = cur
            /\ UNCHANGED <<root, pending, ended, closed, cpc, good, published, handled>>
        BY <1>1 DEF PollAnswered, goTo, caller
    <2>2. TypeOK'
        BY <2>1 DEF TypeOK
    <2>3. Held'
        BY <2>1, NoneIsNoMsg DEF Held, TypeOK
    <2>4. \A m \in Msgs : lease'[m] = "unused" => lease[m] = "unused" /\ m \notin S
        BY <2>1, ConsumeAssumption DEF TypeOK, Idle
    <2>5. \A m \in S : lease[m] = "ready"
        BY <2>1 DEF taken
    <2>6. Earned' /\ Rooted'
        BY <2>1, <2>5 DEF Earned, Rooted, TypeOK
    <2>7. Unmade'
        BY <2>1, <2>4 DEF Unmade, TypeOK
    <2>8. \A k \in Msgs : live(k) => live(k)'
        BY <2>1 DEF live, leased
    <2>9. \A k \in Msgs : kept(k) => kept(k)'
        <3>1. ~published[w]
            BY <2>1 DEF Held
        <3> QED BY <2>1, <2>8, <3>1 DEF kept, TypeOK
    <2>10. Kept'
        BY <2>1, <2>9 DEF Kept
    <2> QED BY <2>2, <2>3, <2>6, <2>7, <2>10
<1>2. CASE PollDropped(w)
    <2>1. PICK S \in SUBSET Msgs :
            /\ taken(S) /\ lease' = [m \in Msgs |-> IF m \in S THEN "nobody" ELSE lease[m]]
            /\ UNCHANGED <<root, pending, ended, closed, cpc, wpc, mode, todo, good, cur, published,
                           handled>>
        BY <1>2 DEF PollDropped, caller, worker
    <2>2. TypeOK'
        BY <2>1 DEF TypeOK, Idle
    <2>3. \A m \in S : lease[m] = "ready"
        BY <2>1 DEF taken
    <2>4. Held' /\ Earned' /\ Rooted'
        BY <2>1, <2>3 DEF Held, Earned, Rooted
    <2>5. Unmade'
        BY <2>1 DEF Unmade
    <2>6. \A k \in Msgs : live(k) => live(k)'
        BY <2>1 DEF live, leased
    <2>7. Kept'
        BY <2>1, <2>6 DEF Kept, kept
    <2> QED BY <2>2, <2>4, <2>5, <2>7
<1> QED BY <1>1, <1>2

LEMMA LoopInv == ASSUME Inv, NEW w \in Workers, Start(w) \/ SkipLost(w) PROVE Inv'
<1> USE DEF Inv
<1>1. PICK m \in todo[w] :
        /\ wpc[w] = "loop" /\ todo' = [todo EXCEPT ![w] = @ \ {m}]
        /\ UNCHANGED <<lease, root, pending, ended, closed, cpc, mode, good, published, handled>>
        /\ \/ cur' = [cur EXCEPT ![w] = m] /\ wpc' = [wpc EXCEPT ![w] = "handler"]
           \/ UNCHANGED <<cur, wpc>>
    BY DEF Start, SkipLost, goTo, queue, caller
<1>2. m \in Msgs /\ ~published[w]
    BY <1>1 DEF TypeOK, Held
<1>3. TypeOK'
    BY <1>1, <1>2 DEF TypeOK
<1>4. Held'
    BY <1>1, <1>2, NoneIsNoMsg DEF Held, TypeOK
<1>5. Earned' /\ Rooted'
    BY <1>1 DEF Earned, Rooted
<1>6. Unmade'
    BY <1>1, <1>2 DEF Unmade, TypeOK
<1>7. \A k \in Msgs : kept(k) => kept(k)'
    BY <1>1, <1>2 DEF kept, live, leased, TypeOK
<1>8. Kept'
    BY <1>1, <1>7 DEF Kept
<1> QED BY <1>3, <1>4, <1>5, <1>6, <1>8

LEMMA RestInv == ASSUME Inv, NEW w \in Workers, Sweep(w) \/ LoopEnds(w) PROVE Inv'
<1> USE DEF Inv
<1>1. /\ UNCHANGED <<lease, root, ended, closed, cpc, cur, published, handled>>
      /\ pending' = pending \cup sent(w, "ack", good[w]) \cup sent(w, "nack", todo[w])
      /\ good' = [good EXCEPT ![w] = {}] /\ todo' = [todo EXCEPT ![w] = {}]
      /\ \/ mode' = [mode EXCEPT ![w] = "swept"] /\ wpc' = wpc
         \/ mode' = mode /\ wpc[w] = "loop" /\ wpc' = [wpc EXCEPT ![w] = "top"]
    BY DEF Sweep, LoopEnds, settleRest, goTo, caller
<1>2. good[w] \subseteq Msgs /\ todo[w] \subseteq Msgs
    BY DEF TypeOK
<1>3. TypeOK'
    <2>1. pending' \subseteq {"ack", "nack"} \X Msgs
        BY <1>1, <1>2 DEF TypeOK, sent
    <2> QED BY <1>1, <2>1 DEF TypeOK
<1>4. Held'
    BY <1>1 DEF Held, TypeOK
<1>5. Earned' /\ Rooted'
    BY <1>1 DEF Earned, Rooted, TypeOK
<1>6. Unmade'
    <2>1. \A c \in Msgs, op \in {"ack", "nack"} :
            <<op, c>> \in pending' \ pending => c \in good[w] \cup todo[w]
        BY <1>1 DEF sent
    <2> QED BY <1>1, <2>1 DEF Unmade, TypeOK
<1>7. \A k \in Msgs : <<"ack", k>> \in pending' \ pending => k \in good[w]
    BY <1>1 DEF sent
<1>8. \A k \in Msgs : kept(k) /\ root[k] \notin handled => kept(k)'
    BY <1>1, <1>7 DEF kept, live, leased, Earned
<1>9. Kept'
    BY <1>1, <1>8 DEF Kept
<1> QED BY <1>3, <1>4, <1>5, <1>6, <1>9

\* A handler that ends: its message is settled, or kept for the end of the batch.
LEMMA EndsInv ==
    ASSUME Inv, NEW w \in Workers, HandlerSucceeds(w) \/ HandlerFails(w) \/ PublishFailed(w)
    PROVE  Inv'
<1> USE DEF Inv
<1>1. /\ wpc[w] \in {"handler", "publish"}
      /\ UNCHANGED <<lease, root, ended, closed, cpc, mode, todo>>
      /\ cur' = [cur EXCEPT ![w] = None] /\ published' = [published EXCEPT ![w] = FALSE]
      /\ \E where \in {"top", "loop"} : wpc' = [wpc EXCEPT ![w] = where]
    BY DEF HandlerSucceeds, HandlerFails, PublishFailed, failed, back, goTo, caller
<1>2. cur[w] \in Msgs /\ lease[cur[w]] # "unused"
    <2>1. cur[w] \in Msgs
        BY <1>1 DEF Held, TypeOK
    <2> QED BY <2>1 DEF Unmade
<1>3. root[cur[w]] \in Roots
    BY <1>2 DEF Rooted
<1>4. /\ \/ pending' = pending
         \/ \E op \in {"ack", "nack"} : pending' = pending \cup sent(w, op, {cur[w]})
      /\ \A k \in Msgs : <<"ack", k>> \in pending' \ pending => k = cur[w] /\ root[k] \in handled'
      /\ handled \subseteq handled' /\ handled' \subseteq Roots
    <2>1. CASE HandlerSucceeds(w)
        BY <1>2, <1>3, <2>1 DEF HandlerSucceeds, sent, TypeOK
    <2>2. CASE HandlerFails(w) \/ PublishFailed(w)
        BY <2>2 DEF HandlerFails, PublishFailed, failed, sent, TypeOK
    <2> QED BY <2>1, <2>2
<1>5. \/ good' = good
      \/ good' = [good EXCEPT ![w] = @ \cup {cur[w]}] /\ root[cur[w]] \in handled'
    BY <1>2 DEF HandlerSucceeds, HandlerFails, PublishFailed
<1>6. TypeOK'
    <2>1. pending' \subseteq {"ack", "nack"} \X Msgs
        BY <1>2, <1>4 DEF TypeOK, sent
    <2>2. good' \in [Workers -> SUBSET Msgs]
        BY <1>2, <1>5 DEF TypeOK
    <2> QED BY <1>1, <1>4, <2>1, <2>2 DEF TypeOK
<1>7. Held'
    BY <1>1, NoneIsNoMsg DEF Held, TypeOK
<1>8. Earned' /\ Rooted'
    BY <1>1, <1>4, <1>5 DEF Earned, Rooted, TypeOK
<1>9. Unmade'
    <2>1. \A c \in Msgs, op \in {"ack", "nack"} : <<op, c>> \in pending' \ pending => c = cur[w]
        BY <1>4 DEF sent
    <2>2. \A v \in Workers : good'[v] \subseteq good[v] \cup {cur[w]}
        BY <1>5 DEF TypeOK
    <2>3. \A v \in Workers : cur'[v] \in {None, cur[v]}
        BY <1>1 DEF TypeOK
    <2> QED BY <1>1, <1>2, <2>1, <2>2, <2>3, NoneIsNoMsg DEF Unmade
<1>10. \A k \in Msgs : kept(k) /\ root[k] \notin handled' => kept(k)'
    BY <1>1, <1>4, NoneIsNoMsg DEF kept, live, leased, TypeOK
<1>11. Kept'
    BY <1>1, <1>4, <1>10 DEF Kept
<1> QED BY <1>6, <1>7, <1>8, <1>9, <1>11

LEMMA PublishInv == ASSUME Inv, NEW w \in Workers, PublishLands(w) PROVE Inv'
<1> USE DEF Inv
<1>1. PICK c \in Copies :
        /\ wpc[w] = "publish" /\ lease[c] = "unused"
        /\ lease' = [lease EXCEPT ![c] = "ready"]
        /\ root' = [root EXCEPT ![c] = root[cur[w]]]
        /\ published' = [published EXCEPT ![w] = TRUE]
        /\ UNCHANGED <<pending, ended, closed, cpc, wpc, mode, todo, good, cur, handled>>
    BY DEF PublishLands, copied, caller
<1>2. c \in Msgs /\ cur[w] \in Msgs /\ lease[cur[w]] # "unused" /\ c # cur[w]
    <2>1. c \in Msgs /\ cur[w] \in Msgs
        BY <1>1 DEF Msgs, Held, TypeOK
    <2> QED BY <1>1, <2>1 DEF Unmade
<1>3. TypeOK'
    BY <1>1, <1>2 DEF TypeOK, Idle
<1>4. Held'
    BY <1>1 DEF Held, TypeOK
<1>5. \A v \in Workers : c \notin good[v] /\ cur[v] # c
    BY <1>1, <1>2 DEF Unmade
<1>6. Earned'
    BY <1>1, <1>5 DEF Earned, TypeOK
<1>7. Rooted'
    BY <1>1, <1>2 DEF Rooted, TypeOK
<1>8. Unmade'
    BY <1>1, <1>2 DEF Unmade, TypeOK
<1>9. kept(c)' /\ root'[c] = root[cur[w]]
    <2>1. <<"ack", c>> \notin pending'
        BY <1>1, <1>2 DEF Unmade
    <2>2. live(c)'
        BY <1>1, <1>2 DEF live, TypeOK
    <2> QED BY <1>1, <1>2, <1>5, <2>1, <2>2 DEF kept, TypeOK
<1>10. \A k \in Msgs : kept(k) /\ k # cur[w] => kept(k)' /\ root'[k] = root[k]
    <2> SUFFICES ASSUME NEW k \in Msgs, kept(k), k # cur[w]
                 PROVE  kept(k)' /\ root'[k] = root[k]
        OBVIOUS
    <2>1. k # c
        BY <1>1, <1>2, LiveOrNot DEF kept
    <2>2. live(k)' /\ root'[k] = root[k]
        BY <1>1, <2>1 DEF kept, live, leased, TypeOK
    <2> QED BY <1>1, <2>2 DEF kept, TypeOK
<1>11. Kept'
    BY <1>1, <1>2, <1>9, <1>10 DEF Kept
<1> QED BY <1>3, <1>4, <1>6, <1>7, <1>8, <1>11

LEMMA RetryAcksInv == ASSUME Inv, NEW w \in Workers, RetryAcks(w) PROVE Inv'
<1> USE DEF Inv
<1>1. /\ wpc[w] = "retryAck" /\ published[w]
      /\ UNCHANGED <<root, ended, closed, cpc, mode, todo, good, handled>>
      /\ cur' = [cur EXCEPT ![w] = None] /\ published' = [published EXCEPT ![w] = FALSE]
      /\ \E where \in {"top", "loop"} : wpc' = [wpc EXCEPT ![w] = where]
    BY DEF RetryAcks, back, goTo, caller, Held
<1>2. cur[w] \in Msgs /\ lease[cur[w]] # "unused"
    <2>1. cur[w] \in Msgs
        BY <1>1 DEF Held, TypeOK
    <2> QED BY <2>1 DEF Unmade
<1>3. /\ lease' \in [Msgs -> Idle \cup Workers] /\ pending' \subseteq {"ack", "nack"} \X Msgs
      /\ \A m \in Msgs : m # cur[w] => lease'[m] = lease[m]
      /\ lease'[cur[w]] # "unused"
      /\ \A m \in Msgs, op \in {"ack", "nack"} : <<op, m>> \in pending' \ pending => m = cur[w]
    <2>1. CASE /\ lease' = [lease EXCEPT ![cur[w]] = "acked"]
               /\ pending' = pending \ spent(cur[w])
        BY <1>2, <2>1 DEF TypeOK, Idle
    <2>2. CASE /\ pending' = pending \cup sent(w, "ack", {cur[w]}) \cup sent(w, "nack", {cur[w]})
               /\ UNCHANGED lease
        BY <1>2, <2>2 DEF TypeOK, sent
    <2> QED BY <2>1, <2>2 DEF RetryAcks
<1>4. TypeOK'
    BY <1>1, <1>3 DEF TypeOK
<1>5. Held'
    BY <1>1, NoneIsNoMsg DEF Held, TypeOK
<1>6. Earned' /\ Rooted'
    BY <1>1, <1>2, <1>3 DEF Earned, Rooted
<1>7. Unmade'
    BY <1>1, <1>3, NoneIsNoMsg DEF Unmade, TypeOK
<1>8. \A k \in Msgs : kept(k) => kept(k)'
    <2> SUFFICES ASSUME NEW k \in Msgs, kept(k) PROVE kept(k)'
        OBVIOUS
    <2>1. k # cur[w]
        BY <1>1 DEF kept
    <2>2. live(k)' /\ <<"ack", k>> \notin pending'
        BY <1>3, <2>1 DEF kept, live, leased
    <2> QED BY <1>1, <2>2, NoneIsNoMsg DEF kept, TypeOK
<1>9. Kept'
    BY <1>1, <1>8 DEF Kept
<1> QED BY <1>4, <1>5, <1>6, <1>7, <1>9

LEMMA StepInv == ASSUME Inv, [Next]_vars PROVE Inv'
<1>1. CASE UNCHANGED vars
    <2> USE DEF Inv
    <2>1. UNCHANGED <<lease, root, pending, ended, closed, cpc, wpc, mode, todo, good, cur,
                      published, handled>>
        BY <1>1 DEF vars, queue, caller, worker
    <2>2. TypeOK'
        BY <2>1 DEF TypeOK
    <2>3. Held' /\ Earned' /\ Rooted' /\ Unmade'
        BY <2>1 DEF Held, Earned, Rooted, Unmade
    <2>4. Kept'
        BY <2>1 DEF Kept, kept, live, leased
    <2> QED BY <2>2, <2>3, <2>4
<1>2. CASE Outside \/ Shutdown
    BY <1>2, OutsideInv, ShutdownInv
<1>3. CASE \E w \in Workers : Worker(w)
    BY <1>3, MovesInv, PollInv, LoopInv, RestInv, EndsInv, PublishInv, RetryAcksInv
    DEF Worker, Prompt, Handling
<1> QED BY <1>1, <1>2, <1>3 DEF Next

LEMMA InvHolds == Spec => []Inv
BY InitInv, StepInv, PTL DEF Spec

\* The type invariant, for any number of workers and messages.
THEOREM TypeCorrect == Spec => []TypeOK
BY InvHolds, PTL DEF Inv

\* No message is lost before a handler has had success with it, whatever fails
\* in Consume and Retry (envelope.go, Retry; consume.go, worker).
THEOREM NothingLost == Spec => []NeverLost
<1>1. Inv => NeverLost
    BY DEF Inv, NeverLost, Kept, kept, live
<1> QED BY <1>1, InvHolds, PTL

-----------------------------------------------------------------------------
\* The end of Consume

\* After Consume has returned its context is over, and no poll is out.
Quiet ==
    /\ cpc \in {"grace", "second", "returned"} => ended
    /\ cpc = "returned" => \A w \in Workers : wpc[w] \notin {"poll", "backoff"}

LEMMA WorkerQuiet ==
    ASSUME Inv, PoolStaysWhole, Quiet, NEW w \in Workers, Worker(w)
    PROVE  PoolStaysWhole' /\ Quiet'
<1> USE DEF Inv
<1>1. UNCHANGED <<ended, closed, cpc>>
    BY DEF Worker, Prompt, Handling, Top, PollFailed, BackedOff, Start, SkipLost, Sweep, LoopEnds,
           PollAnswered, PollDropped, PollEmpty, HandlerSucceeds, HandlerFails, HandlerRetries,
           PublishLands, Published, PublishFailed, RetryAcks, caller
<1>2. \A v \in Workers : v # w => wpc'[v] = wpc[v]
    BY DEF Worker, Prompt, Handling, Top, PollFailed, BackedOff, Start, SkipLost, Sweep, LoopEnds,
           PollAnswered, PollDropped, PollEmpty, HandlerSucceeds, HandlerFails, HandlerRetries,
           PublishLands, Published, PublishFailed, RetryAcks, goTo, back, failed, worker, TypeOK
<1>3. wpc'[w] = "gone" => ended \/ closed \/ wpc[w] = "gone"
    <2>1. CASE Prompt(w)
        BY <2>1 DEF Prompt, Top, PollFailed, BackedOff, Start, SkipLost, Sweep, LoopEnds, goTo, TypeOK
    <2>2. CASE PollAnswered(w) \/ PollDropped(w) \/ PollEmpty(w)
        BY <2>2 DEF PollAnswered, PollDropped, PollEmpty, goTo, worker, TypeOK
    <2>3. CASE Handling(w)
        BY <2>3 DEF Handling, HandlerSucceeds, HandlerFails, HandlerRetries, PublishLands, Published,
                    PublishFailed, RetryAcks, goTo, back, failed, TypeOK
    <2> QED BY <2>1, <2>2, <2>3 DEF Worker
<1>4. wpc'[w] \in {"poll", "backoff"} => ~ended \/ wpc[w] \in {"poll", "backoff"}
    <2>1. CASE Prompt(w)
        BY <2>1 DEF Prompt, Top, PollFailed, BackedOff, Start, SkipLost, Sweep, LoopEnds, goTo, TypeOK
    <2>2. CASE PollAnswered(w) \/ PollDropped(w) \/ PollEmpty(w)
        BY <2>2 DEF PollAnswered, PollDropped, PollEmpty, goTo, worker, TypeOK
    <2>3. CASE Handling(w)
        BY <2>3 DEF Handling, HandlerSucceeds, HandlerFails, HandlerRetries, PublishLands, Published,
                    PublishFailed, RetryAcks, goTo, back, failed, TypeOK
    <2> QED BY <2>1, <2>2, <2>3 DEF Worker
<1>5. PoolStaysWhole'
    BY <1>1, <1>2, <1>3 DEF PoolStaysWhole
<1>6. Quiet'
    BY <1>1, <1>2, <1>4 DEF Quiet
<1> QED BY <1>5, <1>6

LEMMA StepQuiet ==
    ASSUME Inv, PoolStaysWhole, Quiet, [Next]_vars
    PROVE  PoolStaysWhole' /\ Quiet'
<1>1. CASE UNCHANGED vars
    BY <1>1 DEF vars, caller, worker, PoolStaysWhole, Quiet
<1>2. CASE Lapse \/ Land \/ Cancel \/ Close
    BY <1>2 DEF Lapse, Land, Cancel, Close, caller, worker, PoolStaysWhole, Quiet
<1>3. CASE Crash
    BY <1>3 DEF Crash, PoolStaysWhole, Quiet
<1>4. CASE Shutdown
    BY <1>4 DEF Shutdown, CtxDone, AllDone, GraceOver, SecondOver, worker, PoolStaysWhole, Quiet
<1>5. CASE \E w \in Workers : Worker(w)
    BY <1>5, WorkerQuiet
<1> QED BY <1>1, <1>2, <1>3, <1>4, <1>5 DEF Next, Outside

LEMMA QuietHolds == Spec => [](PoolStaysWhole /\ Quiet)
<1>1. Init => PoolStaysWhole /\ Quiet
    BY DEF Init, PoolStaysWhole, Quiet
<1> QED BY <1>1, InvHolds, StepQuiet, PTL DEF Spec

\* No failed poll, handler or settle ends a worker (consume.go, worker).
THEOREM PoolIsWhole == Spec => []PoolStaysWhole
BY QuietHolds, PTL

\* The goroutines Consume gives up on start no handler (consume.go, Consume).
THEOREM ReturnIsFinal == Spec => NothingStartsAfterReturn
<1>1. ASSUME Inv, Quiet, [Next]_vars
      PROVE  [cpc = "returned" => \A w \in Workers : wpc[w] # "handler" => wpc'[w] # "handler"]_vars
    <2> USE <1>1
    <2> SUFFICES ASSUME cpc = "returned", Next, NEW w \in Workers, wpc[w] # "handler",
                        wpc'[w] = "handler"
                 PROVE  FALSE
        OBVIOUS
    <2>1. ended /\ \A v \in Workers : wpc[v] \notin {"poll", "backoff"}
        BY DEF Quiet
    <2>2. CASE Outside
        BY <2>2 DEF Outside, Lapse, Land, Cancel, Close, Crash, worker
    <2>3. CASE Shutdown
        BY <2>3 DEF Shutdown, CtxDone, AllDone, GraceOver, SecondOver, worker
    <2>4. ASSUME NEW v \in Workers, Prompt(v) PROVE FALSE
        BY <2>1, <2>4 DEF Prompt, Top, PollFailed, BackedOff, Start, SkipLost, Sweep, LoopEnds, goTo,
                          Inv, TypeOK
    <2>5. ASSUME NEW v \in Workers, PollAnswered(v) \/ PollDropped(v) \/ PollEmpty(v) PROVE FALSE
        BY <2>1, <2>5 DEF PollAnswered, PollDropped, PollEmpty
    <2>6. ASSUME NEW v \in Workers, Handling(v) PROVE FALSE
        BY <2>6 DEF Handling, HandlerSucceeds, HandlerFails, HandlerRetries, PublishLands, Published,
                    PublishFailed, RetryAcks, goTo, back, failed, Inv, TypeOK
    <2> QED BY <2>2, <2>3, <2>4, <2>5, <2>6 DEF Next, Worker
<1> QED BY <1>1, InvHolds, QuietHolds, PTL DEF Spec, NothingStartsAfterReturn

-----------------------------------------------------------------------------
\* How far a worker is from its end once the context has ended: its next poll is
\* never sent, and its batch starts no more messages.

toGo(w) ==
    CASE wpc[w] = "gone"     -> 0
      [] wpc[w] = "top"      -> 1
      [] wpc[w] = "backoff"  -> 2
      [] wpc[w] = "loop"     -> 2
      [] wpc[w] = "retryAck" -> 3
      [] wpc[w] = "publish"  -> 4
      [] wpc[w] = "handler"  -> 5
      [] wpc[w] = "poll"     -> 7

\* The shutdown callback of its batch has still to run.
sweepDue(w) == mode[w] = "batch" /\ wpc[w] \in {"loop", "handler", "publish", "retryAck"}

workerAhead(w) == toGo(w) + IF sweepDue(w) THEN 1 ELSE 0

\* Attempts of a request that come to nothing for the worker: a reply that is
\* lost, a copy stored once more (bounded by the retry loop, see CallsAreBounded).
Repeats(w) == PollDropped(w) \/ PublishLands(w)

\* Once the context has ended, every step of a worker brings it closer to its
\* end, and nothing takes it further away.
WorkersWindDown == [][ended => \A w \in Workers :
    /\ Worker(w) /\ ~Repeats(w) => workerAhead(w)' < workerAhead(w)
    /\ workerAhead(w)' <= workerAhead(w)]_vars

\* A worker in the loop of dispatchBatch has a batch: once the context has ended,
\* the shutdown callback or the end of the loop is open to it.
LoopHasBatch == \A w \in Workers : wpc[w] = "loop" => mode[w] # "single"

\* From wherever the end of the context finds a worker, seven steps.
WorkersBounded == LoopHasBatch /\ \A w \in Workers : workerAhead(w) \in 0..7

LEMMA StepLoopHasBatch == ASSUME Inv, LoopHasBatch, [Next]_vars PROVE LoopHasBatch'
<1> SUFFICES ASSUME NEW w \in Workers, wpc'[w] = "loop" PROVE mode'[w] # "single"
    BY DEF LoopHasBatch
<1> USE DEF LoopHasBatch, Inv, TypeOK, goTo
<1>1. CASE UNCHANGED vars
    BY <1>1 DEF vars, worker
<1>2. CASE Outside
    BY <1>2 DEF Outside, Lapse, Land, Cancel, Close, Crash, worker
<1>3. CASE Shutdown
    BY <1>3 DEF Shutdown, CtxDone, AllDone, GraceOver, SecondOver, worker
<1>4. ASSUME NEW v \in Workers, Prompt(v) PROVE mode'[w] # "single"
    <2>1. CASE Top(v) \/ PollFailed(v) \/ BackedOff(v)
        BY <2>1 DEF Top, PollFailed, BackedOff
    <2>2. CASE Start(v) \/ SkipLost(v)
        BY <2>2 DEF Start, SkipLost
    <2>3. CASE Sweep(v) \/ LoopEnds(v)
        BY <2>3 DEF Sweep, LoopEnds
    <2> QED BY <1>4, <2>1, <2>2, <2>3 DEF Prompt
<1>5. ASSUME NEW v \in Workers, PollAnswered(v) \/ PollDropped(v) \/ PollEmpty(v)
      PROVE  mode'[w] # "single"
    BY <1>5 DEF PollAnswered, PollDropped, PollEmpty, worker
<1>6. ASSUME NEW v \in Workers, Handling(v) PROVE mode'[w] # "single"
    <2>1. CASE HandlerSucceeds(v) \/ HandlerFails(v) \/ HandlerRetries(v)
        BY <2>1 DEF HandlerSucceeds, HandlerFails, HandlerRetries, failed, back
    <2>2. CASE PublishLands(v) \/ Published(v) \/ PublishFailed(v)
        BY <2>2 DEF PublishLands, Published, PublishFailed, failed, back
    <2>3. CASE RetryAcks(v)
        BY <2>3 DEF RetryAcks, back
    <2> QED BY <1>6, <2>1, <2>2, <2>3 DEF Handling
<1> QED BY <1>1, <1>2, <1>3, <1>4, <1>5, <1>6 DEF Next, Worker

LEMMA AheadIsBounded == ASSUME Inv, LoopHasBatch PROVE WorkersBounded
<1> SUFFICES ASSUME NEW w \in Workers PROVE workerAhead(w) \in 0..7
    BY DEF WorkersBounded
<1> QED BY DEF workerAhead, toGo, sweepDue, Inv, TypeOK

\* A worker's own steps.
LEMMA WorkerCloser ==
    ASSUME Inv, LoopHasBatch, ended, NEW w \in Workers, Worker(w), ~Repeats(w)
    PROVE  workerAhead(w)' < workerAhead(w)
<1>0. ASSUME mode'[w] = mode[w],
             \/ wpc[w] = "top" /\ wpc'[w] = "gone"
             \/ wpc[w] = "backoff" /\ wpc'[w] \in {"top", "gone"}
             \/ wpc[w] = "poll" /\ wpc'[w] \in {"top", "gone"}
             \/ wpc[w] = "loop" /\ wpc'[w] = "top"
             \/ wpc[w] = "handler" /\ wpc'[w] \in {"top", "loop", "publish"}
             \/ wpc[w] = "publish" /\ wpc'[w] \in {"top", "loop", "retryAck"}
             \/ wpc[w] = "retryAck" /\ wpc'[w] \in {"top", "loop"}
      PROVE  workerAhead(w)' < workerAhead(w)
    BY <1>0 DEF workerAhead, toGo, sweepDue
<1> USE DEF Inv, TypeOK, goTo
<1>1. CASE Top(w) \/ PollEmpty(w)
    BY <1>0, <1>1 DEF Top, PollEmpty
<1>2. CASE PollFailed(w) \/ BackedOff(w)
    BY <1>0, <1>2 DEF PollFailed, BackedOff
<1>3. CASE Sweep(w)
    BY <1>3 DEF Sweep, workerAhead, toGo, sweepDue
<1>4. CASE LoopEnds(w)
    BY <1>0, <1>4 DEF LoopEnds
<1>5. CASE PollAnswered(w)
    BY <1>5 DEF PollAnswered, workerAhead, toGo, sweepDue
<1>6. CASE HandlerSucceeds(w) \/ HandlerFails(w)
    <2>1. wpc[w] = "handler" /\ wpc'[w] \in {"top", "loop"} /\ mode'[w] = mode[w]
        BY <1>6 DEF HandlerSucceeds, HandlerFails, failed, back
    <2> QED BY <1>0, <2>1
<1>7. CASE HandlerRetries(w) \/ Published(w)
    BY <1>0, <1>7 DEF HandlerRetries, Published
<1>8. CASE PublishFailed(w)
    BY <1>0, <1>8 DEF PublishFailed, failed, back
<1>9. CASE RetryAcks(w)
    <2>1. wpc[w] = "retryAck" /\ wpc'[w] \in {"top", "loop"} /\ mode'[w] = mode[w]
        BY <1>9 DEF RetryAcks, back
    <2> QED BY <1>0, <2>1
<1>10. ~Start(w) /\ ~SkipLost(w)
    BY DEF Start, SkipLost
<1> QED BY <1>1, <1>2, <1>3, <1>4, <1>5, <1>6, <1>7, <1>8, <1>9, <1>10
        DEF Worker, Prompt, Handling, Repeats

\* The steps of the others leave a worker where it is.
LEMMA OthersKeepAhead ==
    ASSUME Inv, [Next]_vars, NEW w \in Workers, ~Worker(w)
    PROVE  workerAhead(w)' <= workerAhead(w)
<1>1. CASE wpc'[w] = wpc[w] /\ mode'[w] = mode[w]
    BY <1>1 DEF workerAhead, toGo, sweepDue, Inv, TypeOK
<1>2. CASE Crash
    BY <1>2 DEF Crash, workerAhead, toGo, sweepDue, Inv, TypeOK
<1>3. CASE UNCHANGED vars \/ Lapse \/ Land \/ Cancel \/ Close \/ Shutdown
    <2>1. UNCHANGED worker
        BY <1>3 DEF vars, Lapse, Land, Cancel, Close, Shutdown, CtxDone, AllDone,
                    GraceOver, SecondOver
    <2> QED BY <1>1, <2>1 DEF worker
<1>4. ASSUME NEW v \in Workers, Worker(v) PROVE wpc'[w] = wpc[w] /\ mode'[w] = mode[w]
    <2>1. v # w BY <1>4
    <2> USE <2>1 DEF Inv, TypeOK, goTo
    <2>2. CASE Top(v) \/ PollFailed(v) \/ BackedOff(v) \/ PollEmpty(v)
        BY <2>2 DEF Top, PollFailed, BackedOff, PollEmpty
    <2>3. CASE Start(v) \/ SkipLost(v) \/ Sweep(v) \/ LoopEnds(v)
        BY <2>3 DEF Start, SkipLost, Sweep, LoopEnds
    <2>4. CASE PollAnswered(v) \/ PollDropped(v)
        BY <2>4 DEF PollAnswered, PollDropped, worker
    <2>5. CASE HandlerSucceeds(v) \/ HandlerFails(v) \/ HandlerRetries(v)
        BY <2>5 DEF HandlerSucceeds, HandlerFails, HandlerRetries, failed, back
    <2>6. CASE PublishLands(v) \/ Published(v) \/ PublishFailed(v) \/ RetryAcks(v)
        BY <2>6 DEF PublishLands, Published, PublishFailed, RetryAcks, failed, back
    <2> QED BY <1>4, <2>2, <2>3, <2>4, <2>5, <2>6 DEF Worker, Prompt, Handling
<1> QED BY <1>1, <1>2, <1>3, <1>4 DEF Next, Outside

LEMMA RepeatsKeepAhead ==
    ASSUME Inv, NEW w \in Workers, Repeats(w)
    PROVE  workerAhead(w)' <= workerAhead(w)
BY DEF Repeats, PollDropped, PublishLands, worker, workerAhead, toGo, sweepDue, Inv, TypeOK

\* Once the context of Consume has ended, a worker is at most seven steps of its
\* own from its end, attempts that come to nothing aside, and no step of another
\* worker, of the broker or of the program adds one: it waits for its handler,
\* for an answer or for its backoff, and for nothing else (worker, dispatchBatch).
THEOREM WorkersEnd == Spec => WorkersWindDown /\ []WorkersBounded
<1>1. Init => LoopHasBatch
    BY DEF Init, LoopHasBatch
<1>2. Inv /\ LoopHasBatch /\ [Next]_vars => LoopHasBatch'
    BY StepLoopHasBatch
<1>3. Inv /\ LoopHasBatch /\ WorkersBounded /\ WorkersBounded' /\ [Next]_vars =>
        [ended => \A w \in Workers :
            /\ Worker(w) /\ ~Repeats(w) => workerAhead(w)' < workerAhead(w)
            /\ workerAhead(w)' <= workerAhead(w)]_vars
    <2> SUFFICES ASSUME Inv, LoopHasBatch, WorkersBounded, WorkersBounded', [Next]_vars,
                        ended, NEW w \in Workers
                 PROVE  /\ Worker(w) /\ ~Repeats(w) => workerAhead(w)' < workerAhead(w)
                        /\ workerAhead(w)' <= workerAhead(w)
        OBVIOUS
    <2>1. workerAhead(w) \in 0..7 /\ workerAhead(w)' \in 0..7
        BY DEF WorkersBounded
    <2>2. CASE Worker(w) /\ ~Repeats(w)
        BY <2>1, <2>2, WorkerCloser
    <2>3. CASE Worker(w) /\ Repeats(w)
        BY <2>3, RepeatsKeepAhead
    <2>4. CASE ~Worker(w)
        BY <2>4, OthersKeepAhead
    <2> QED BY <2>2, <2>3, <2>4
<1>4. Inv /\ LoopHasBatch => WorkersBounded
    BY AheadIsBounded
<1> QED BY <1>1, <1>2, <1>3, <1>4, InvHolds, PTL DEF Spec, WorkersWindDown

=============================================================================
