---------------------------- MODULE ClientProofs ----------------------------
(***************************************************************************)
(* Theorems about Client, for any number of callers, nodes and attempts,   *)
(* any breaker setting and any set of replies.                             *)
(***************************************************************************)
EXTENDS Client, TLAPS

-----------------------------------------------------------------------------
\* The breaker's operations.

\* Every operation of the breaker leaves it in one of its states (nodes.go).
LEMMA BreakerTypes ==
    ASSUME NEW b \in BreakerType, NEW e
    PROVE  /\ afterReady(b) \in BreakerType
           /\ observe(b, e) \in BreakerType
           /\ abandon(b) \in BreakerType
           /\ cooler(b) \in BreakerType
<1> USE DEF BreakerType, States
<1>1. /\ OpenFor \in Nat /\ 0 \in 0..OpenFor /\ OpenFor \in 0..OpenFor
      /\ Threshold \in Nat /\ 0 \in 0..Threshold
      /\ FailAfter > 0 => Threshold = FailAfter /\ FailAfter \in 0..Threshold
    BY BreakerAssumption DEF Threshold
<1>2. /\ b.state \in States /\ b.failures \in 0..Threshold
      /\ b.cool \in 0..OpenFor
    OBVIOUS
<1>3. afterReady(b) \in BreakerType
    BY DEF afterReady
<1>4. abandon(b) \in BreakerType
    BY <1>1, <1>2 DEF abandon
<1>5. cooler(b) \in BreakerType
    BY <1>1, <1>2 DEF cooler
<1>6. succeed(b) \in BreakerType
    BY <1>1, <1>2 DEF succeed
<1>7. ASSUME FailAfter > 0
      PROVE  fail(b) \in BreakerType
    <2> DEFINE more == IF b.failures < FailAfter THEN b.failures + 1 ELSE FailAfter
    <2>1. more \in 0..Threshold
        BY <1>1, <1>2, <1>7
    <2> HIDE DEF more
    <2>2. fail(b) = IF b.state = "halfOpen"
                    THEN [b EXCEPT !.state = "open", !.cool = OpenFor]
                    ELSE IF more >= FailAfter
                    THEN [b EXCEPT !.state = "open", !.cool = OpenFor,
                                   !.failures = more]
                    ELSE [b EXCEPT !.failures = more]
        BY DEF fail, more
    <2> QED BY <1>1, <1>2, <2>1, <2>2
<1>8. observe(b, e) \in BreakerType
    BY <1>1, <1>6, <1>7, BreakerAssumption DEF observe, disabled
<1> QED BY <1>3, <1>4, <1>5, <1>8

-----------------------------------------------------------------------------
\* Type correctness.  A call never runs past its attempts because it waits for
\* another only while one is left.

AttemptsLeft ==
    \A c \in Callers :
        /\ pc[c] = "idle" => attempt[c] = 0
        /\ pc[c] \in {"untried", "wait"} => attempt[c] + 1 < attempts(op[c])

TypeInv == TypeOK /\ AttemptsLeft

\* Every call has at least one attempt.
LEMMA AttemptsPositive ==
    ASSUME NEW o
    PROVE  attempts(o) \in Nat /\ attempts(o) >= 1
BY ClientAssumption DEF attempts

\* Round-robin stays within the nodes.
LEMMA NodeArithmetic ==
    /\ 0 \in Nodes /\ N - 1 \in Nodes
    /\ \A a, b \in Nodes : (a + b) % N \in Nodes
    /\ \A a \in Nodes : (a + 1) % N \in Nodes
    /\ \A a \in Nodes : a # N - 1 => a + 1 \in Nodes
    /\ \A a \in Nodes : a < N - 1 => a + 1 \in Nodes
BY ClientAssumption DEF Nodes

\* The client's own errors are errors.
LEMMA PlainType ==
    ASSUME NEW o \in Ops, NEW k \in Kinds
    PROVE  Plain(k, o) \in Error
BY DEF Plain, Error, Texts

LEMMA TypeInit == Init => TypeInv
<1> SUFFICES ASSUME Init PROVE TypeInv
    OBVIOUS
<1> USE ClientAssumption DEF Init
<1>1. newNode \in BreakerType
    BY BreakerAssumption DEF newNode, BreakerType, States, Threshold
<1>2. op \in [Callers -> Ops]
    OBVIOUS
<1>3. last \in [Callers -> Error]
    BY <1>2, PlainType DEF Kinds
<1>4. \A c \in Callers : attempt[c] < attempts(op[c])
    BY AttemptsPositive
<1>5. TypeOK
    BY <1>1, <1>2, <1>3, <1>4, NodeArithmetic DEF TypeOK, PCs
<1>6. AttemptsLeft
    BY DEF AttemptsLeft
<1> QED BY <1>5, <1>6 DEF TypeInv

\* Sending a request to a node keeps the types.
LEMMA SendTypes ==
    ASSUME TypeInv, NEW c \in Callers, NEW n \in Nodes,
           pc[c] \in {"fresh", "any"}, Send(c, n)
    PROVE  TypeInv'
<1> USE DEF TypeInv, TypeOK, AttemptsLeft, Send
<1>1. brk' \in [Nodes -> BreakerType]
    BY BreakerTypes
<1>2. TypeOK'
    BY <1>1, NodeArithmetic DEF PCs
<1> QED BY <1>2

\* Returning from do keeps the types of what it touches.
LEMMA ReturnTypes ==
    ASSUME TypeInv, NEW c \in Callers, NEW e \in Error, Return(c, e)
    PROVE  /\ pc' \in [Callers -> PCs] /\ op' \in [Callers -> Ops]
           /\ ctxDone' \in [Callers -> BOOLEAN]
           /\ attempt' \in [Callers -> Nat]
           /\ \A d \in Callers : attempt'[d] < attempts(op'[d])
           /\ tried' \in [Callers -> SUBSET Nodes]
           /\ start' \in [Callers -> Nodes] /\ i' \in [Callers -> Nodes]
           /\ at' \in [Callers -> Nodes] /\ last' \in [Callers -> Error]
           /\ AttemptsLeft'
<1> USE DEF TypeInv, TypeOK, AttemptsLeft, Return
<1>1. \A d \in Callers : attempt'[d] < attempts(op'[d])
    BY AttemptsPositive
<1> QED BY <1>1, NodeArithmetic DEF PCs

LEMMA TypeStep == TypeInv /\ [Next]_vars => TypeInv'
<1> SUFFICES ASSUME TypeInv, [Next]_vars PROVE TypeInv'
    OBVIOUS
<1> USE DEF TypeInv, TypeOK
<1>1. ASSUME NEW c \in Callers, Pick(c) PROVE TypeInv'
    BY <1>1, NodeArithmetic DEF Pick, AttemptsLeft, PCs, ghosts
<1>2. ASSUME NEW c \in Callers, TakeFresh(c) PROVE TypeInv'
    BY <1>2, SendTypes, NodeArithmetic DEF TakeFresh, candidate
<1>3. ASSUME NEW c \in Callers, SkipFresh(c) PROVE TypeInv'
    <2>1. i' \in [Callers -> Nodes]
        BY <1>3, NodeArithmetic DEF SkipFresh
    <2> QED BY <1>3, <2>1 DEF SkipFresh, AttemptsLeft, PCs, nodeVars, ghosts
<1>4. ASSUME NEW c \in Callers, TakeAny(c) PROVE TypeInv'
    BY <1>4, SendTypes, NodeArithmetic DEF TakeAny, candidate
<1>5. ASSUME NEW c \in Callers, SkipAny(c) PROVE TypeInv'
    <2>1. i' \in [Callers -> Nodes]
        BY <1>5, NodeArithmetic DEF SkipAny
    <2> QED BY <1>5, <2>1 DEF SkipAny, AttemptsLeft, nodeVars, ghosts
<1>6. ASSUME NEW c \in Callers, NoNode(c) PROVE TypeInv'
    <2>1. noNode(c) \in Error
        BY PlainType DEF noNode, Kinds
    <2> QED BY <1>6, <2>1, ReturnTypes DEF NoNode, nodeVars, ghosts
<1>7. ASSUME NEW c \in Callers, NEW r \in Replies, Reply(c, r) PROVE TypeInv'
    <2>1. r.err \in Error /\ r.applied \in BOOLEAN
        BY ClientAssumption
    <2>2. brk' \in [Nodes -> BreakerType]
        BY <1>7, BreakerTypes DEF Reply, heard
    <2>3. next' \in Nodes /\ closed' \in BOOLEAN
          /\ warned' \in [Callers -> BOOLEAN] /\ applied' \in [Callers -> Nat]
        BY <1>7 DEF Reply
    <2>4. CASE Return(c, r.err)
        BY <2>1, <2>2, <2>3, <2>4, ReturnTypes
    <2>5. CASE ~Return(c, r.err)
        BY <1>7, <2>1, <2>2, <2>3, <2>5, NodeArithmetic DEF Reply, AttemptsLeft, PCs
    <2> QED BY <2>4, <2>5
<1>8. ASSUME NEW c \in Callers, GiveUp(c) PROVE TypeInv'
    BY <1>8, ReturnTypes DEF GiveUp, nodeVars, ghosts
<1>9. ASSUME NEW c \in Callers, Retry(c) PROVE TypeInv'
    <2>1. attempt[c] + 1 < attempts(op[c])
        BY <1>9, AttemptsPositive DEF Retry, stops
    <2> QED BY <1>9, <2>1, NodeArithmetic DEF Retry, RetryAfterWait, AttemptsLeft, PCs
<1>10. ASSUME NEW c \in Callers, MoveOn(c) PROVE TypeInv'
    <2>1. attempt[c] + 1 < attempts(op[c])
        BY <1>10, AttemptsPositive DEF MoveOn, stops
    <2> QED BY <1>10, <2>1 DEF MoveOn, AttemptsLeft, PCs, nodeVars, locals, ghosts
<1>11. ASSUME NEW c \in Callers, FoundUntried(c) PROVE TypeInv'
    <2>1. brk' \in [Nodes -> BreakerType]
        BY <1>11, BreakerTypes DEF FoundUntried
    <2> QED BY <1>11, <2>1, NodeArithmetic
            DEF FoundUntried, RetryAfterWait, AttemptsLeft, PCs
<1>12. ASSUME NEW c \in Callers, SkipUntried(c) PROVE TypeInv'
    <2>1. i' \in [Callers -> Nodes]
        BY <1>12, NodeArithmetic DEF SkipUntried, RetryAfterWait
    <2> QED BY <1>12, <2>1
            DEF SkipUntried, RetryAfterWait, AttemptsLeft, PCs, nodeVars, ghosts
<1>13. ASSUME NEW c \in Callers, WaitOver(c) PROVE TypeInv'
    BY <1>13 DEF WaitOver, AttemptsLeft, PCs, nodeVars, ghosts
<1>14. ASSUME NEW c \in Callers, WaitEnded(c) PROVE TypeInv'
    <2>1. Plain("ctx", op[c]) \in Error
        BY PlainType DEF Kinds
    <2> QED BY <1>14, <2>1, ReturnTypes DEF WaitEnded, nodeVars, ghosts
<1>15. ASSUME NEW c \in Callers, Cancel(c) PROVE TypeInv'
    BY <1>15 DEF Cancel, AttemptsLeft, nodeVars, ghosts
<1>16. ASSUME NEW c \in Callers, NEW o \in CallOps, Start(c, o) PROVE TypeInv'
    <2>1. o \in Ops /\ Plain("nil", o) \in Error
        BY ClientAssumption, PlainType DEF Kinds
    <2> QED BY <1>16, <2>1, AttemptsPositive
            DEF Start, AttemptsLeft, PCs, nodeVars, locals
<1>17. ASSUME NEW c \in Callers, NEW o \in CallOps, Refuse(c, o) PROVE TypeInv'
    <2>1. o \in Ops /\ Plain("closed", o) \in Error
        BY ClientAssumption, PlainType DEF Kinds
    <2> QED BY <1>17, <2>1, AttemptsPositive
            DEF Refuse, AttemptsLeft, PCs, nodeVars, locals
<1>18. CASE Close
    BY <1>18 DEF Close, AttemptsLeft, callVars, locals, ghosts
<1>19. CASE Tick
    BY <1>19, BreakerTypes DEF Tick, AttemptsLeft, callVars, locals, ghosts
<1>20. CASE UNCHANGED vars
    BY <1>20 DEF vars, nodeVars, callVars, locals, ghosts, AttemptsLeft
<1> HIDE DEF TypeInv, TypeOK
<1> QED
    BY <1>1, <1>2, <1>3, <1>4, <1>5, <1>6, <1>7, <1>8, <1>9, <1>10, <1>11, <1>12,
       <1>13, <1>14, <1>15, <1>16, <1>17, <1>18, <1>19, <1>20 DEF Next, Step

\* Client.do keeps every value within its type, and no call makes more
\* attempts than it was given (client.go, do).
THEOREM TypeCorrect == Spec => []TypeOK
<1>1. TypeInv => TypeOK
    BY DEF TypeInv
<1> QED BY <1>1, TypeInit, TypeStep, PTL DEF Spec

-----------------------------------------------------------------------------
\* Doubt: what a call knows about having been carried out.

\* Where a caller is between a failed attempt it has judged and the next reply.
Underway == {"pick", "fresh", "any", "flight", "untried", "wait"}

\* The doubt a call has met is on record: reported by a retry event, or still
\* in the error at hand.
DoubtKept ==
    \A c \in Callers :
        /\ pc[c] \in Underway /\ applied[c] >= 1 => warned[c]
        /\ applied[c] >= 2 => warned[c]
        /\ pc[c] \in {"judge", "idle"} /\ applied[c] = 1
              => warned[c] \/ last[c].kind = "nil" \/ Uncertain(last[c])
        /\ pc[c] = "judge" => last[c].kind # "nil"

\* Under WithCautiousRetries a doubt ends the call.
DoubtEnds ==
    \A c \in Callers :
        /\ pc[c] \in Underway => applied[c] = 0
        /\ applied[c] <= 1
        /\ pc[c] \in {"judge", "idle"} /\ applied[c] = 1
              => last[c].kind = "nil" \/ Uncertain(last[c])
        /\ pc[c] = "judge" => last[c].kind # "nil"

\* The steps that neither receive a reply nor judge one keep what is known;
\* where the call is stays on the same side of the reply.
Quiet(c) ==
    /\ applied' = applied /\ warned' = warned
    /\ \A d \in Callers \ {c} : pc'[d] = pc[d] /\ last'[d] = last[d]
    /\ pc[c] \in Underway
    /\ pc'[c] \in Underway \ {"untried"} \/ pc'[c] = "idle"

\* The steps of a caller that has a reply neither to receive nor to judge, and
\* those of the environment, are quiet or change nothing a doubt depends on.
LEMMA QuietSteps ==
    ASSUME TypeInv, NEW c \in Callers,
           \/ Pick(c) \/ TakeFresh(c) \/ SkipFresh(c) \/ TakeAny(c) \/ SkipAny(c)
           \/ NoNode(c) \/ WaitOver(c) \/ WaitEnded(c)
    PROVE  Quiet(c)
<1> USE DEF TypeInv, TypeOK, Quiet, Underway, ghosts
<1>1. CASE Pick(c)
    BY <1>1 DEF Pick
<1>2. CASE TakeFresh(c)
    BY <1>2 DEF TakeFresh, Send
<1>3. CASE SkipFresh(c)
    BY <1>3 DEF SkipFresh
<1>4. CASE TakeAny(c)
    BY <1>4 DEF TakeAny, Send
<1>5. CASE SkipAny(c)
    BY <1>5 DEF SkipAny
<1>6. CASE NoNode(c)
    BY <1>6 DEF NoNode, Return
<1>7. CASE WaitOver(c)
    BY <1>7 DEF WaitOver
<1>8. CASE WaitEnded(c)
    BY <1>8 DEF WaitEnded, Return
<1> QED BY <1>1, <1>2, <1>3, <1>4, <1>5, <1>6, <1>7, <1>8

\* One reply, and the verdict on it, move one caller.
LEMMA ReplySteps ==
    ASSUME TypeInv, NEW c \in Callers, NEW r \in Replies, Reply(c, r)
    PROVE  /\ pc[c] = "flight" /\ warned' = warned
           /\ \A d \in Callers \ {c} :
                 pc'[d] = pc[d] /\ last'[d] = last[d] /\ applied'[d] = applied[d]
           /\ last'[c] = r.err
           /\ pc'[c] = IF r.err.kind = "nil" THEN "idle" ELSE "judge"
           /\ applied'[c] = IF r.applied THEN applied[c] + 1 ELSE applied[c]
BY DEF TypeInv, TypeOK, Reply, Return

LEMMA JudgeSteps ==
    ASSUME TypeInv, NEW c \in Callers,
           GiveUp(c) \/ Retry(c) \/ MoveOn(c) \/ FoundUntried(c) \/ SkipUntried(c)
    PROVE  /\ applied' = applied /\ last' = last
           /\ \A d \in Callers \ {c} : pc'[d] = pc[d] /\ warned'[d] = warned[d]
           /\ warned[c] => warned'[c]
           /\ \/ pc[c] = "judge" /\ pc'[c] = "idle" /\ warned'[c] = warned[c]
              \/ /\ pc[c] = "judge" /\ ~(Cautious /\ Uncertain(last[c]))
                 /\ \/ pc'[c] = "wait" /\ (Uncertain(last[c]) => warned'[c])
                    \/ pc'[c] = "untried" /\ movesOn(last[c]) /\ ~Uncertain(last[c])
              \/ pc[c] = "untried" /\ pc'[c] \in {"untried", "wait"}
<1> USE DEF TypeInv, TypeOK, ghosts, locals
<1>1. CASE GiveUp(c)
    BY <1>1 DEF GiveUp, Return
<1>2. CASE Retry(c)
    BY <1>2 DEF Retry, RetryAfterWait, stops
<1>3. CASE MoveOn(c)
    BY <1>3 DEF MoveOn, stops, movesOn
<1>4. CASE FoundUntried(c)
    BY <1>4 DEF FoundUntried, RetryAfterWait
<1>5. CASE SkipUntried(c)
    BY <1>5 DEF SkipUntried, RetryAfterWait
<1> QED BY <1>1, <1>2, <1>3, <1>4, <1>5

\* A call that begins has been carried out by nobody.
LEMMA BeginSteps ==
    ASSUME TypeInv, NEW c \in Callers, NEW o \in CallOps, Start(c, o) \/ Refuse(c, o)
    PROVE  /\ applied'[c] = 0 /\ pc'[c] \in {"pick", "idle"}
           /\ \A d \in Callers \ {c} :
                 /\ pc'[d] = pc[d] /\ last'[d] = last[d]
                 /\ applied'[d] = applied[d] /\ warned'[d] = warned[d]
BY DEF TypeInv, TypeOK, Start, Refuse

LEMMA OutsideSteps ==
    ASSUME TypeInv, (\E c \in Callers : Cancel(c)) \/ Close \/ Tick \/ UNCHANGED vars
    PROVE  UNCHANGED <<pc, last, applied, warned>>
BY DEF Cancel, Close, Tick, vars, callVars, ghosts

LEMMA DoubtKeptStep ==
    ASSUME SoundReplies, TypeInv, DoubtKept, [Next]_vars
    PROVE  DoubtKept'
<1> USE DEF DoubtKept, Underway
<1>1. ASSUME NEW c \in Callers, Quiet(c) PROVE DoubtKept'
    BY <1>1 DEF Quiet, TypeInv, TypeOK
<1>2. ASSUME NEW c \in Callers, NEW r \in Replies, Reply(c, r) PROVE DoubtKept'
    <2>1. r.applied /\ r.err.kind # "nil" => Uncertain(r.err)
        BY DEF SoundReplies
    <2>2. \A d \in Callers : applied[d] \in Nat
        BY DEF TypeInv, TypeOK
    <2> QED BY <1>2, <2>1, <2>2, ReplySteps
<1>3. ASSUME NEW c \in Callers,
             GiveUp(c) \/ Retry(c) \/ MoveOn(c) \/ FoundUntried(c) \/ SkipUntried(c)
      PROVE  DoubtKept'
    <2>1. \A d \in Callers : applied[d] \in Nat
        BY DEF TypeInv, TypeOK
    <2> QED BY <1>3, <2>1, JudgeSteps
<1>4. ASSUME NEW c \in Callers, NEW o \in CallOps, Start(c, o) \/ Refuse(c, o)
      PROVE  DoubtKept'
    BY <1>4, BeginSteps
<1>5. CASE (\E c \in Callers : Cancel(c)) \/ Close \/ Tick \/ UNCHANGED vars
    BY <1>5, OutsideSteps
<1> HIDE DEF DoubtKept
<1> QED BY <1>1, <1>2, <1>3, <1>4, <1>5, QuietSteps DEF Next, Step

LEMMA DoubtEndsStep ==
    ASSUME SoundReplies, Cautious, TypeInv, DoubtEnds, [Next]_vars
    PROVE  DoubtEnds'
<1> USE DEF DoubtEnds, Underway
<1>1. ASSUME NEW c \in Callers, Quiet(c) PROVE DoubtEnds'
    BY <1>1 DEF Quiet, TypeInv, TypeOK
<1>2. ASSUME NEW c \in Callers, NEW r \in Replies, Reply(c, r) PROVE DoubtEnds'
    <2>1. r.applied /\ r.err.kind # "nil" => Uncertain(r.err)
        BY DEF SoundReplies
    <2> QED BY <1>2, <2>1, ReplySteps
<1>3. ASSUME NEW c \in Callers,
             GiveUp(c) \/ Retry(c) \/ MoveOn(c) \/ FoundUntried(c) \/ SkipUntried(c)
      PROVE  DoubtEnds'
    <2>1. \A d \in Callers : applied[d] \in Nat
        BY DEF TypeInv, TypeOK
    <2> QED BY <1>3, <2>1, JudgeSteps
<1>4. ASSUME NEW c \in Callers, NEW o \in CallOps, Start(c, o) \/ Refuse(c, o)
      PROVE  DoubtEnds'
    BY <1>4, BeginSteps
<1>5. CASE (\E c \in Callers : Cancel(c)) \/ Close \/ Tick \/ UNCHANGED vars
    BY <1>5, OutsideSteps
<1> HIDE DEF DoubtEnds
<1> QED BY <1>1, <1>2, <1>3, <1>4, <1>5, QuietSteps DEF Next, Step

\* Whatever the retry policy, a call that was carried out twice, or carried
\* out and then failed with an error that denies it, has emitted a retry event
\* marked Uncertain (client.go, do).
THEOREM DoubtReported == SoundReplies => (Spec => []DoubtIsReported)
<1> SUFFICES ASSUME SoundReplies PROVE Spec => []DoubtIsReported
    OBVIOUS
<1>1. Init => DoubtKept
    BY DEF Init, DoubtKept, Underway
<1>2. TypeInv /\ DoubtKept /\ [Next]_vars => DoubtKept'
    BY DoubtKeptStep
<1>3. DoubtKept => DoubtIsReported
    BY DEF DoubtKept, DoubtIsReported
<1> QED BY <1>1, <1>2, <1>3, TypeInit, TypeStep, PTL DEF Spec

\* With WithCautiousRetries no call is carried out twice (options.go:87).
THEOREM CautiousIsAtMostOnce == SoundReplies => (Spec => []CautiousAtMostOnce)
<1>1. CASE ~Cautious
    <2>1. CautiousAtMostOnce
        BY <1>1 DEF CautiousAtMostOnce
    <2> QED BY <2>1, PTL
<1>2. CASE Cautious
    <2> SUFFICES ASSUME SoundReplies PROVE Spec => []CautiousAtMostOnce
        OBVIOUS
    <2>1. Init => DoubtEnds
        BY DEF Init, DoubtEnds
    <2>2. TypeInv /\ DoubtEnds /\ [Next]_vars => DoubtEnds'
        BY <1>2, DoubtEndsStep
    <2>3. DoubtEnds => CautiousAtMostOnce
        BY DEF DoubtEnds, CautiousAtMostOnce
    <2> QED BY <2>1, <2>2, <2>3, TypeInit, TypeStep, PTL DEF Spec
<1> QED BY <1>1, <1>2

\* With WithCautiousRetries an error of a call that was carried out says so
\* (errors.go:198).
THEOREM CautiousIsHonest ==
    SoundReplies /\ Cautious => (Spec => []UncertainIsHonest)
<1> SUFFICES ASSUME SoundReplies, Cautious PROVE Spec => []UncertainIsHonest
    OBVIOUS
<1>1. Init => DoubtEnds
    BY DEF Init, DoubtEnds
<1>2. TypeInv /\ DoubtEnds /\ [Next]_vars => DoubtEnds'
    BY DoubtEndsStep
<1>3. TypeInv /\ DoubtEnds => UncertainIsHonest
    BY DEF DoubtEnds, UncertainIsHonest, TypeInv, TypeOK
<1> QED BY <1>1, <1>2, <1>3, TypeInit, TypeStep, PTL DEF Spec

-----------------------------------------------------------------------------
\* ErrNoNodes.  A call that looks for a node has sent something just when it has
\* an error, and no reply can make that error ErrNoNodes.

Searching == {"pick", "fresh", "any"}
Judging   == {"judge", "untried", "wait"}

NothingSentYet ==
    \A c \in Callers :
        /\ pc[c] = "idle" => tried[c] = {}
        /\ pc[c] # "idle" => last[c].kind # "noNodes"
        /\ pc[c] \in Searching => (last[c].kind = "nil" <=> tried[c] = {})
        /\ pc[c] \in Searching /\ last[c].kind = "nil" => applied[c] = 0
        /\ pc[c] \in Judging \cup {"flight"} => tried[c] # {}
        /\ pc[c] \in Judging => last[c].kind # "nil"

\* One caller's step: its own part of the invariant, and the others' untouched.
Moves(c) ==
    /\ \A d \in Callers \ {c} :
          pc'[d] = pc[d] /\ tried'[d] = tried[d] /\ last'[d] = last[d] /\ applied'[d] = applied[d]
    /\ \/ pc'[c] = "idle" /\ tried'[c] = {} /\ last'[c].kind # "noNodes"
       \/ /\ pc'[c] = "idle" /\ tried'[c] = {} /\ pc[c] = "any" /\ last[c].kind = "nil"
          /\ applied'[c] = applied[c]
       \/ pc'[c] = "flight" /\ last'[c] = last[c] /\ pc[c] # "idle" /\ tried'[c] # {}
       \/ /\ pc'[c] = "judge" /\ last'[c].kind \notin {"nil", "noNodes"}
          /\ pc[c] = "flight" /\ tried'[c] = tried[c]
       \/ /\ pc'[c] \in Judging /\ pc[c] \in Judging
          /\ last'[c] = last[c] /\ tried'[c] = tried[c]
       \/ /\ pc'[c] \in Searching /\ pc[c] \in Searching
          /\ last'[c] = last[c] /\ tried'[c] = tried[c] /\ applied'[c] = applied[c]
       \/ /\ pc'[c] = "pick" /\ pc[c] = "wait"
          /\ last'[c] = last[c] /\ tried'[c] = tried[c]
       \/ /\ pc'[c] = "pick" /\ last'[c].kind = "nil" /\ pc[c] = "idle"
          /\ tried'[c] = tried[c] /\ applied'[c] = 0
       \/ pc[c] = "idle" /\ pc'[c] = "idle" /\ tried'[c] = tried[c]

LEMMA StepMoves ==
    ASSUME TypeInv, NothingSentYet, NEW c \in Callers,
           Step(c) \/ \E o \in CallOps : Start(c, o) \/ Refuse(c, o)
    PROVE  Moves(c)
<1> USE DEF TypeInv, TypeOK, Moves, Searching, Judging, ghosts, locals, nodeVars
<1>1. CASE Pick(c) \/ SkipFresh(c) \/ SkipAny(c)
    BY <1>1 DEF Pick, SkipFresh, SkipAny
<1>2. CASE TakeFresh(c) \/ TakeAny(c)
    <2>1. /\ pc[c] # "idle" /\ pc' = [pc EXCEPT ![c] = "flight"]
          /\ last' = last /\ applied' = applied
          /\ tried' = [tried EXCEPT ![c] = tried[c] \cup {candidate(c)}]
        BY <1>2 DEF TakeFresh, TakeAny, Send
    <2>2. tried'[c] # {}
        BY <2>1
    <2> QED BY <2>1, <2>2
<1>3. CASE NoNode(c)
    <2>1. last[c].kind # "nil" => noNode(c).kind # "noNodes"
        BY <1>3 DEF NoNode, noNode, NothingSentYet
    <2>2. /\ pc' = [pc EXCEPT ![c] = "idle"] /\ tried' = [tried EXCEPT ![c] = {}]
          /\ last' = [last EXCEPT ![c] = noNode(c)] /\ applied' = applied /\ pc[c] = "any"
        BY <1>3 DEF NoNode, Return
    <2> QED BY <2>1, <2>2
<1>4. ASSUME NEW r \in Replies, Reply(c, r) PROVE Moves(c)
    <2>1. r.err.kind \in {"nil", "api", "conn"}
        BY ClientAssumption
    <2>2. \A d \in Callers \ {c} : applied'[d] = applied[d]
        BY <1>4 DEF Reply
    <2> QED BY <1>4, <2>1, <2>2 DEF Reply, Return
<1>5. CASE GiveUp(c)
    <2>1. last[c].kind # "noNodes"
        BY <1>5 DEF GiveUp, NothingSentYet
    <2> QED BY <1>5, <2>1 DEF GiveUp, Return
<1>6. CASE Retry(c) \/ MoveOn(c) \/ FoundUntried(c) \/ SkipUntried(c)
    BY <1>6 DEF Retry, MoveOn, FoundUntried, SkipUntried, RetryAfterWait
<1>7. CASE WaitOver(c)
    BY <1>7 DEF WaitOver
<1>8. CASE WaitEnded(c)
    <2>1. Plain("ctx", op[c]).kind = "ctx"
        BY DEF Plain
    <2> QED BY <1>8, <2>1 DEF WaitEnded, Return
<1>9. ASSUME NEW o \in CallOps, Start(c, o) PROVE Moves(c)
    <2>1. Plain("nil", o).kind = "nil"
        BY DEF Plain
    <2> QED BY <1>9, <2>1 DEF Start
<1>10. ASSUME NEW o \in CallOps, Refuse(c, o) PROVE Moves(c)
    BY <1>10 DEF Refuse
<1> QED BY <1>1, <1>2, <1>3, <1>4, <1>5, <1>6, <1>7, <1>8, <1>9, <1>10 DEF Step

LEMMA MovesKeep ==
    ASSUME TypeInv, NothingSentYet, NEW c \in Callers, Moves(c)
    PROVE  /\ NothingSentYet'
           /\ \A d \in Callers :
                 pc[d] # "idle" /\ pc'[d] = "idle" /\ last'[d].kind = "noNodes"
                   => tried[d] = {} /\ applied'[d] = 0
BY DEF NothingSentYet, Moves, Searching, Judging

LEMMA SentStep ==
    ASSUME TypeInv, NothingSentYet, [Next]_vars
    PROVE  /\ NothingSentYet'
           /\ \A c \in Callers :
                 pc[c] # "idle" /\ pc'[c] = "idle" /\ last'[c].kind = "noNodes"
                   => tried[c] = {} /\ applied'[c] = 0
<1>1. CASE (\E c \in Callers : Cancel(c)) \/ Close \/ Tick \/ UNCHANGED vars
    <2>1. UNCHANGED <<pc, last, applied, tried>>
        BY <1>1 DEF Cancel, Close, Tick, vars, callVars, ghosts, locals
    <2> QED BY <2>1 DEF NothingSentYet
<1>2. CASE \E c \in Callers : Step(c) \/ \E o \in CallOps : Start(c, o) \/ Refuse(c, o)
    BY <1>2, StepMoves, MovesKeep
<1> QED BY <1>1, <1>2 DEF Next

\* ErrNoNodes means that nothing was sent (client.go do, nodes.go pick).
THEOREM NoNodesIsHarmless == Spec => NoNodesSentNothing
<1> DEFINE Sent == \A c \in Callers :
          pc[c] # "idle" /\ pc'[c] = "idle" /\ last'[c].kind = "noNodes"
            => tried[c] = {} /\ applied'[c] = 0
<1>1. Init => NothingSentYet
    BY DEF Init, NothingSentYet, Searching, Judging
<1>2. TypeInv /\ NothingSentYet /\ [Next]_vars => NothingSentYet' /\ [Sent]_vars
    BY SentStep
<1>3. TypeInv /\ [Next]_vars => TypeInv'
    BY TypeStep
<1> QED BY <1>1, <1>2, <1>3, TypeInit, PTL DEF Spec, NoNodesSentNothing

-----------------------------------------------------------------------------
\* The half-open breaker.

\* The lookahead for an untried node never finds one: there is no other node, or
\* a reply that would start it only ever meets a call on its one attempt.
NoLookahead == N = 1 \/ \A r \in Replies : movesOn(r.err) => attempts(r.op) = 1

NeverFinds ==
    \A c \in Callers :
        /\ pc[c] = "untried" => N = 1
        /\ pc[c] = "judge" /\ movesOn(last[c]) => N = 1 \/ attempts(op[c]) = 1

ProbeInv ==
    /\ NeverFinds
    /\ HalfOpenHasProbe
    /\ disabled => \A n \in Nodes : brk[n].state # "halfOpen"

\* No operation but ready leaves a breaker half-open, and ready only that of an
\* enabled one.
LEMMA BreakerStates ==
    ASSUME NEW b \in BreakerType, NEW e, disabled => b.state # "halfOpen"
    PROVE  /\ observe(b, e).state # "halfOpen"
           /\ abandon(b).state # "halfOpen"
           /\ cooler(b).state = b.state
           /\ disabled => afterReady(b).state # "halfOpen"
BY BreakerAssumption DEF BreakerType, States, observe, abandon, cooler, afterReady,
                         succeed, fail, disabled

LEMMA ProbeStep ==
    ASSUME NoLookahead, TypeInv, NothingSentYet, ProbeInv, [Next]_vars
    PROVE  ProbeInv'
<1> USE DEF ProbeInv, NeverFinds, HalfOpenHasProbe, InFlight, TypeInv, TypeOK
<1>1. ASSUME NEW c \in Callers, NEW n \in Nodes, pc[c] # "flight", Send(c, n)
      PROVE  ProbeInv'
    BY <1>1, BreakerStates DEF Send
<1>2. ASSUME NEW c \in Callers, NEW r \in Replies, Reply(c, r) PROVE ProbeInv'
    <2>1. brk'[at[c]].state # "halfOpen"
        BY <1>2, BreakerStates DEF Reply, heard
    <2>2. \A n \in Nodes \ {at[c]} : brk'[n] = brk[n]
        BY <1>2 DEF Reply
    <2>3. \A d \in Callers \ {c} : pc'[d] = pc[d] /\ at'[d] = at[d] /\ last'[d] = last[d]
        BY <1>2 DEF Reply, Return
    <2>4. /\ pc[c] = "flight" /\ pc'[c] \in {"idle", "judge"} /\ last'[c] = r.err
          /\ op' = op /\ r.op = op[c]
        BY <1>2 DEF Reply, Return
    <2>5. NeverFinds'
        BY <2>3, <2>4 DEF NoLookahead
    <2>6. ASSUME NEW n \in Nodes, brk'[n].state = "halfOpen"
          PROVE  ~disabled /\ \E d \in Callers : InFlight(d, n)'
        <3>1. n # at[c] /\ brk[n].state = "halfOpen"
            BY <2>1, <2>2, <2>6
        <3>2. PICK d \in Callers : InFlight(d, n)
            BY <3>1
        <3>3. d # c
            BY <3>1, <3>2
        <3> QED BY <2>3, <3>1, <3>2, <3>3
    <2> QED BY <2>5, <2>6
<1>3. ASSUME NEW c \in Callers, brk' = brk, pc[c] # "flight",
             pc'[c] \notin {"untried", "judge"},
             \A d \in Callers \ {c} :
                pc'[d] = pc[d] /\ at'[d] = at[d] /\ last'[d] = last[d] /\ op'[d] = op[d]
      PROVE  ProbeInv'
    BY <1>3
<1>4. ASSUME NEW c \in Callers, Step(c) PROVE ProbeInv'
    <2>1. CASE Pick(c)
        BY <1>3, <2>1 DEF Pick
    <2>2. CASE TakeFresh(c)
        BY <1>1, <2>2, NodeArithmetic DEF TakeFresh, candidate
    <2>3. CASE SkipFresh(c)
        BY <1>3, <2>3 DEF SkipFresh, nodeVars
    <2>4. CASE TakeAny(c)
        BY <1>1, <2>4, NodeArithmetic DEF TakeAny, candidate
    <2>5. CASE SkipAny(c)
        BY <1>3, <2>5 DEF SkipAny, nodeVars
    <2>6. CASE NoNode(c)
        BY <1>3, <2>6 DEF NoNode, Return, nodeVars
    <2>7. CASE GiveUp(c)
        BY <1>3, <2>7 DEF GiveUp, Return, nodeVars
    <2>8. CASE Retry(c)
        BY <1>3, <2>8 DEF Retry, RetryAfterWait
    <2>9. CASE MoveOn(c)
        <3>1. /\ pc' = [pc EXCEPT ![c] = "untried"] /\ pc[c] = "judge" /\ movesOn(last[c])
              /\ UNCHANGED <<brk, op, at, last>>
            BY <2>9 DEF MoveOn, nodeVars, locals
        <3>2. attempts(op[c]) # 1
            BY <2>9 DEF MoveOn, stops
        <3> QED BY <3>1, <3>2
    <2>10. CASE FoundUntried(c)
        <3>1. pc[c] = "untried" /\ i[c] \notin tried[c] /\ tried[c] # {}
            BY <2>10 DEF FoundUntried, isFresh, NothingSentYet, Judging
        <3>2. Nodes = {0}
            BY <3>1 DEF Nodes
        <3> QED BY <3>1, <3>2
    <2>11. CASE SkipUntried(c)
        <3>1. /\ pc[c] = "untried" /\ pc' = [pc EXCEPT ![c] = pc'[c]]
              /\ UNCHANGED <<brk, op, at, last>>
            BY <2>11 DEF SkipUntried, RetryAfterWait, nodeVars
        <3> QED BY <3>1
    <2>12. CASE WaitOver(c)
        BY <1>3, <2>12 DEF WaitOver, nodeVars
    <2>13. CASE WaitEnded(c)
        BY <1>3, <2>13 DEF WaitEnded, Return, nodeVars
    <2> QED BY <1>2, <1>4, <2>1, <2>2, <2>3, <2>4, <2>5, <2>6, <2>7, <2>8, <2>9,
               <2>10, <2>11, <2>12, <2>13 DEF Step
<1>5. ASSUME NEW c \in Callers, Cancel(c) PROVE ProbeInv'
    BY <1>5 DEF Cancel, nodeVars
<1>6. ASSUME NEW c \in Callers, NEW o \in CallOps, Start(c, o) \/ Refuse(c, o)
      PROVE  ProbeInv'
    <2>1. /\ brk' = brk /\ at' = at /\ pc[c] = "idle" /\ pc'[c] \in {"idle", "pick"}
          /\ \A d \in Callers \ {c} : pc'[d] = pc[d] /\ last'[d] = last[d] /\ op'[d] = op[d]
        BY <1>6 DEF Start, Refuse, nodeVars, locals
    <2> QED BY <1>3, <2>1
<1>7. CASE Close
    BY <1>7 DEF Close, callVars, locals
<1>8. CASE Tick
    BY <1>8, BreakerStates DEF Tick, callVars, locals
<1>9. CASE UNCHANGED vars
    BY <1>9 DEF vars, nodeVars, callVars, locals
<1> HIDE DEF ProbeInv
<1> QED BY <1>4, <1>5, <1>6, <1>7, <1>8, <1>9 DEF Next

\* A half-open node is waiting for the answer of a request in flight, however
\* calls overlap, fail, are cancelled or come late, as long as the lookahead
\* finds no node: the client has one only, or whatever is answered with a reply
\* that moves on has one attempt only (nodes.go, ready, abandon and untried).
THEOREM HalfOpenProbed == NoLookahead => (Spec => []HalfOpenHasProbe)
<1> SUFFICES ASSUME NoLookahead PROVE Spec => []HalfOpenHasProbe
    OBVIOUS
<1> DEFINE Known == TypeInv /\ NothingSentYet /\ ProbeInv
<1>1. Init => Known
    BY TypeInit DEF Init, NothingSentYet, Searching, Judging, ProbeInv, NeverFinds,
                    HalfOpenHasProbe, newNode
<1>2. Known /\ [Next]_vars => Known'
    BY TypeStep, SentStep, ProbeStep
<1>3. Known => HalfOpenHasProbe
    BY DEF ProbeInv
<1> HIDE DEF Known
<1> QED BY <1>1, <1>2, <1>3, PTL DEF Spec

-----------------------------------------------------------------------------
\* The promise of do.

\* untried is only asked about a node that could not serve the request.
UntriedMovesOn == \A c \in Callers : pc[c] = "untried" => movesOn(last[c])

LEMMA UntriedStep ==
    ASSUME TypeInv, UntriedMovesOn, [Next]_vars
    PROVE  UntriedMovesOn'
<1> USE DEF UntriedMovesOn
<1>1. ASSUME NEW c \in Callers, Quiet(c) PROVE UntriedMovesOn'
    BY <1>1 DEF Quiet, TypeInv, TypeOK, Underway
<1>2. ASSUME NEW c \in Callers, NEW r \in Replies, Reply(c, r) PROVE UntriedMovesOn'
    BY <1>2, ReplySteps
<1>3. ASSUME NEW c \in Callers,
             GiveUp(c) \/ Retry(c) \/ MoveOn(c) \/ FoundUntried(c) \/ SkipUntried(c)
      PROVE  UntriedMovesOn'
    BY <1>3, JudgeSteps
<1>4. ASSUME NEW c \in Callers, NEW o \in CallOps, Start(c, o) \/ Refuse(c, o)
      PROVE  UntriedMovesOn'
    BY <1>4, BeginSteps
<1>5. CASE (\E c \in Callers : Cancel(c)) \/ Close \/ Tick \/ UNCHANGED vars
    BY <1>5, OutsideSteps
<1> HIDE DEF UntriedMovesOn
<1> QED BY <1>1, <1>2, <1>3, <1>4, <1>5, QuietSteps DEF Next, Step

\* What a caller's own step shows of it.
LEMMA OwnPart ==
    ASSUME NEW c \in Callers,
           \A d \in Callers \ {c} :
              pc'[d] = pc[d] /\ tried'[d] = tried[d] /\ last'[d] = last[d]
    PROVE  /\ Phase' = [Phase EXCEPT ![c] = Phase'[c]]
           /\ Result' = [Result EXCEPT ![c] = Result'[c]]
           /\ Phase'[c] = Phase[c] => Phase' = Phase
           /\ Result'[c] = Result[c] => Result' = Result
<1>1. \A d \in Callers \ {c} : Phase'[d] = Phase[d] /\ Result'[d] = Result[d]
    BY DEF Phase, Result
<1>2. /\ Phase = [d \in Callers |-> Phase[d]] /\ Phase' = [d \in Callers |-> Phase'[d]]
      /\ Result = [d \in Callers |-> Result[d]] /\ Result' = [d \in Callers |-> Result'[d]]
    BY DEF Phase, Result
<1> QED BY <1>1, <1>2

\* As long as a call goes on, and nothing is carried out or reported, nothing shows.
LEMMA NothingShows ==
    ASSUME NEW c \in Callers, applied' = applied, warned' = warned,
           \A d \in Callers \ {c} :
              pc'[d] = pc[d] /\ tried'[d] = tried[d] /\ last'[d] = last[d],
           pc[c] # "idle" /\ pc'[c] # "idle", tried[c] = {} <=> tried'[c] = {}
    PROVE  [Promise!Next]_(Promise!vars)
<1>1. Phase'[c] = Phase[c] /\ Result'[c] = Result[c]
    BY DEF Phase, Result
<1>2. Phase' = Phase /\ Result' = Result
    BY <1>1, OwnPart
<1> QED BY <1>2 DEF Promise!vars

\* A request is the first of its call, or one more.
LEMMA SendShows ==
    ASSUME TypeInv, NEW c \in Callers, TakeFresh(c) \/ TakeAny(c)
    PROVE  [Promise!Next]_(Promise!vars)
<1>1. /\ pc[c] \in {"fresh", "any"} /\ pc' = [pc EXCEPT ![c] = "flight"] /\ last' = last
      /\ tried' = [tried EXCEPT ![c] = tried[c] \cup {candidate(c)}]
      /\ applied' = applied /\ warned' = warned
    BY DEF TakeFresh, TakeAny, Send
<1>2. \A d \in Callers \ {c} :
          pc'[d] = pc[d] /\ tried'[d] = tried[d] /\ last'[d] = last[d]
    BY <1>1 DEF TypeInv, TypeOK
<1>3. pc'[c] = "flight" /\ tried'[c] # {}
    BY <1>1 DEF TypeInv, TypeOK
<1>4. CASE tried[c] = {}
    <2>1. /\ Phase[c] = "unsent" /\ Phase'[c] = "sent"
          /\ Result'[c] = Result[c]
        BY <1>1, <1>3, <1>4 DEF Phase, Result
    <2>2. Phase' = [Phase EXCEPT ![c] = "sent"] /\ Result' = Result
        BY <1>2, <2>1, OwnPart
    <2>3. Promise!Send(c)
        BY <1>1, <2>1, <2>2 DEF Promise!Send
    <2> QED BY <2>3 DEF Promise!Next
<1>5. CASE tried[c] # {}
    BY <1>1, <1>2, <1>3, <1>5, NothingShows
<1> QED BY <1>4, <1>5

\* A reply: success, carried out, or neither.
LEMMA ReplyShows ==
    ASSUME SuccessIsDone, TypeInv, DoubtKept, NothingSentYet,
           NEW c \in Callers, NEW r \in Replies, Reply(c, r)
    PROVE  [Promise!Next]_(Promise!vars)
<1>1. /\ pc[c] = "flight" /\ warned' = warned /\ last'[c] = r.err
      /\ applied' = [applied EXCEPT ![c] = IF r.applied THEN @ + 1 ELSE @]
      /\ pc'[c] = IF r.err.kind = "nil" THEN "idle" ELSE "judge"
      /\ r.err.kind # "nil" => tried'[c] = tried[c]
    BY DEF Reply, Return, TypeInv, TypeOK
<1>2. \A d \in Callers \ {c} :
          pc'[d] = pc[d] /\ tried'[d] = tried[d] /\ last'[d] = last[d]
    BY DEF Reply, Return, TypeInv, TypeOK
<1>3. tried[c] # {} /\ (applied[c] = 0 \/ warned[c])
    BY <1>1 DEF NothingSentYet, DoubtKept, Underway, TypeInv, TypeOK
<1>4. Phase[c] = "sent" /\ Result[c] = "none"
    BY <1>1, <1>3 DEF Phase, Result
<1>5. CASE r.err.kind = "nil"
    <2>1. applied' = [applied EXCEPT ![c] = @ + 1]
        BY <1>1, <1>5 DEF SuccessIsDone
    <2>2. Phase'[c] = "idle" /\ Result'[c] = "ok"
        BY <1>1, <1>5 DEF Phase, Result, Verdict
    <2>3. Promise!Succeed(c)
        BY <1>1, <1>2, <1>3, <1>4, <2>1, <2>2, OwnPart
           DEF Promise!Succeed, Promise!carriedOut, Promise!returns
    <2> QED BY <2>3 DEF Promise!Next
<1>6. CASE r.err.kind # "nil" /\ r.applied
    <2>1. Phase'[c] = "sent" /\ Result'[c] = "none"
        BY <1>1, <1>3, <1>6 DEF Phase, Result
    <2>2. Phase' = Phase /\ Result' = Result
        BY <1>2, <1>4, <2>1, OwnPart
    <2>3. Promise!CarryOut(c)
        BY <1>1, <1>3, <1>4, <1>6, <2>2 DEF Promise!CarryOut, Promise!carriedOut
    <2> QED BY <2>3 DEF Promise!Next
<1>7. CASE r.err.kind # "nil" /\ ~r.applied
    <2>1. applied' = applied
        BY <1>1, <1>7 DEF TypeInv, TypeOK
    <2> QED BY <1>1, <1>2, <1>3, <1>7, <2>1, NothingShows
<1> QED BY <1>5, <1>6, <1>7

\* An error ends a call: ErrNoNodes one that sent nothing, any other one that
\* did, and the truth of it rests on the doubt that is kept.
LEMMA FailureShows ==
    ASSUME TypeInv, DoubtKept', NEW c \in Callers, NEW e,
           pc[c] # "idle", Return(c, e), applied' = applied, warned' = warned,
           e.kind # "nil", e.kind = "noNodes" <=> tried[c] = {}
    PROVE  [Promise!Next]_(Promise!vars)
<1>1. /\ pc'[c] = "idle" /\ last'[c] = e /\ tried'[c] = {}
      /\ \A d \in Callers \ {c} :
            pc'[d] = pc[d] /\ tried'[d] = tried[d] /\ last'[d] = last[d]
    BY DEF Return, TypeInv, TypeOK
<1>2. Phase'[c] = "idle" /\ Result'[c] = Verdict(e)
    BY <1>1 DEF Phase, Result
<1>3. Promise!returns(c, Verdict(e))
    BY <1>1, <1>2, OwnPart DEF Promise!returns
<1>4. CASE tried[c] = {}
    <2>1. Phase[c] = "unsent" /\ Verdict(e) = "noNodes"
        BY <1>4 DEF Phase, Verdict
    <2>2. Promise!NoNodes(c)
        BY <1>3, <2>1 DEF Promise!NoNodes
    <2> QED BY <2>2 DEF Promise!Next
<1>5. CASE tried[c] # {}
    <2>1. Phase[c] = "sent"
        BY <1>5 DEF Phase
    <2>2. Verdict(e) = IF Uncertain(e) THEN "unsure" ELSE "error"
        BY <1>5 DEF Verdict
    <2>3. applied[c] \in Nat
        BY DEF TypeInv, TypeOK
    <2>4. ~Uncertain(e) => applied[c] = 0 \/ warned[c]
        BY <1>1, <2>3 DEF DoubtKept
    <2>5. Promise!Fail(c, Verdict(e))
        BY <1>3, <2>1, <2>2, <2>4 DEF Promise!Fail
    <2> QED BY <2>2, <2>5 DEF Promise!Next
<1> QED BY <1>4, <1>5

\* The steps that can end a call without a reply.
LEMMA EndingShows ==
    ASSUME TypeInv, DoubtKept, DoubtKept', NothingSentYet, NEW c \in Callers,
           NoNode(c) \/ GiveUp(c) \/ WaitEnded(c)
    PROVE  [Promise!Next]_(Promise!vars)
<1>1. CASE NoNode(c)
    <2>1. pc[c] = "any" /\ Return(c, noNode(c)) /\ applied' = applied /\ warned' = warned
        BY <1>1 DEF NoNode, ghosts
    <2>2. noNode(c).kind # "nil" /\ (noNode(c).kind = "noNodes" <=> tried[c] = {})
        <3>1. CASE last[c].kind = "nil"
            <4>1. noNode(c).kind = "noNodes"
                BY <3>1 DEF noNode, Plain
            <4> QED BY <2>1, <3>1, <4>1 DEF NothingSentYet, Searching
        <3>2. CASE last[c].kind # "nil"
            BY <2>1, <3>2 DEF noNode, NothingSentYet, Searching
        <3> QED BY <3>1, <3>2
    <2> QED BY <2>1, <2>2, FailureShows
<1>2. CASE GiveUp(c)
    <2>1. pc[c] = "judge" /\ Return(c, last[c]) /\ applied' = applied /\ warned' = warned
        BY <1>2 DEF GiveUp, ghosts
    <2>2. last[c].kind \notin {"nil", "noNodes"} /\ tried[c] # {}
        BY <2>1 DEF NothingSentYet, Judging
    <2> QED BY <2>1, <2>2, FailureShows
<1>3. CASE WaitEnded(c)
    <2>1. /\ pc[c] = "wait" /\ Return(c, Plain("ctx", op[c]))
          /\ applied' = applied /\ warned' = warned
        BY <1>3 DEF WaitEnded, ghosts
    <2>2. Plain("ctx", op[c]).kind = "ctx" /\ tried[c] # {}
        BY <2>1 DEF Plain, NothingSentYet, Judging
    <2> QED BY <2>1, <2>2, FailureShows
<1> QED BY <1>1, <1>2, <1>3

\* Deciding on a retry shows nothing, or the warning; none in cautious mode.
LEMMA RetryShows ==
    ASSUME TypeInv, NothingSentYet, UntriedMovesOn, NEW c \in Callers,
           Retry(c) \/ MoveOn(c) \/ FoundUntried(c) \/ SkipUntried(c)
    PROVE  [Promise!Next]_(Promise!vars)
<1>1. /\ pc[c] \in {"judge", "untried"} /\ pc'[c] \in {"untried", "wait"}
      /\ applied' = applied /\ tried' = tried /\ last' = last
      /\ \A d \in Callers \ {c} : pc'[d] = pc[d]
    BY DEF Retry, MoveOn, FoundUntried, SkipUntried, RetryAfterWait, TypeInv, TypeOK,
           locals, ghosts
<1>2. warned' = warned \/ warned' = [warned EXCEPT ![c] = @ \/ Uncertain(last[c])]
    BY DEF Retry, MoveOn, FoundUntried, SkipUntried, RetryAfterWait, ghosts
<1>3. Cautious => ~Uncertain(last[c])
    BY <1>1 DEF Retry, MoveOn, FoundUntried, SkipUntried, stops, UntriedMovesOn, movesOn
<1>4. tried[c] # {}
    BY <1>1 DEF NothingSentYet, Judging
<1>5. CASE warned' = warned
    BY <1>1, <1>5, NothingShows
<1>6. CASE warned' # warned
    <2>1. warned' = [warned EXCEPT ![c] = TRUE] /\ ~Cautious
        <3>1. CASE Uncertain(last[c])
            BY <1>2, <1>3, <1>6, <3>1
        <3>2. CASE ~Uncertain(last[c])
            <4>1. [warned EXCEPT ![c] = @ \/ Uncertain(last[c])] = warned
                BY <3>2 DEF TypeInv, TypeOK
            <4> QED BY <1>2, <1>6, <4>1
        <3> QED BY <3>1, <3>2
    <2>2. Phase[c] = "sent" /\ Phase'[c] = "sent" /\ Result'[c] = Result[c]
        BY <1>1, <1>4 DEF Phase, Result
    <2>3. Phase' = Phase /\ Result' = Result
        BY <1>1, <2>2, OwnPart
    <2>4. Promise!Warn(c)
        BY <1>1, <2>1, <2>2, <2>3 DEF Promise!Warn
    <2> QED BY <2>4 DEF Promise!Next
<1> QED BY <1>5, <1>6

LEMMA BeginShows ==
    ASSUME TypeInv, NothingSentYet, NEW c \in Callers, NEW o \in CallOps,
           Start(c, o) \/ Refuse(c, o)
    PROVE  [Promise!Next]_(Promise!vars)
<1>1. /\ pc[c] = "idle" /\ tried[c] = {} /\ tried' = tried
      /\ applied' = [applied EXCEPT ![c] = 0] /\ warned' = [warned EXCEPT ![c] = FALSE]
      /\ \A d \in Callers \ {c} :
            pc'[d] = pc[d] /\ tried'[d] = tried[d] /\ last'[d] = last[d]
    BY DEF Start, Refuse, locals, NothingSentYet, TypeInv, TypeOK
<1>2. Phase[c] = "idle"
    BY <1>1 DEF Phase
<1>3. CASE Start(c, o)
    <2>1. Phase'[c] = "unsent" /\ Result'[c] = "none"
        BY <1>1, <1>3 DEF Start, Phase, Result, TypeInv, TypeOK
    <2>2. Promise!Begin(c)
        BY <1>1, <1>2, <2>1, OwnPart DEF Promise!Begin, Promise!begins
    <2> QED BY <2>2 DEF Promise!Next
<1>4. CASE Refuse(c, o)
    <2>1. pc'[c] = "idle" /\ last'[c] = Plain("closed", o)
        BY <1>4 DEF Refuse, TypeInv, TypeOK
    <2>2. Verdict(Plain("closed", o)) = "error"
        BY DEF Verdict, Plain, Uncertain
    <2>3. Phase'[c] = "idle" /\ Result'[c] = "error"
        BY <2>1, <2>2 DEF Phase, Result
    <2>4. Promise!Refuse(c)
        BY <1>1, <1>2, <2>3, OwnPart DEF Promise!Refuse, Promise!begins
    <2> QED BY <2>4 DEF Promise!Next
<1> QED BY <1>3, <1>4

LEMMA OutsideShows ==
    ASSUME (\E c \in Callers : Cancel(c)) \/ Close \/ Tick \/ UNCHANGED vars
    PROVE  UNCHANGED Promise!vars
<1>1. UNCHANGED <<pc, tried, last, applied, warned>>
    BY DEF Cancel, Close, Tick, vars, callVars, locals, ghosts
<1> QED BY <1>1 DEF Promise!vars, Phase, Result

LEMMA StepIsPromised ==
    ASSUME SoundReplies, SuccessIsDone, TypeInv, DoubtKept, NothingSentYet, UntriedMovesOn,
           [Next]_vars
    PROVE  [Promise!Next]_(Promise!vars)
<1>1. DoubtKept'
    BY DoubtKeptStep
<1>2. ASSUME NEW c \in Callers, Pick(c) \/ SkipFresh(c) \/ SkipAny(c) \/ WaitOver(c)
      PROVE  [Promise!Next]_(Promise!vars)
    <2>1. /\ pc[c] # "idle" /\ pc'[c] # "idle"
          /\ applied' = applied /\ warned' = warned /\ tried' = tried /\ last' = last
          /\ \A d \in Callers \ {c} : pc'[d] = pc[d]
        BY <1>2 DEF Pick, SkipFresh, SkipAny, WaitOver, TypeInv, TypeOK, ghosts
    <2> QED BY <2>1, NothingShows
<1>3. ASSUME NEW c \in Callers, Step(c) PROVE [Promise!Next]_(Promise!vars)
    BY <1>1, <1>2, <1>3, SendShows, ReplyShows, EndingShows, RetryShows DEF Step
<1>4. CASE (\E c \in Callers : Cancel(c)) \/ Close \/ Tick \/ UNCHANGED vars
    BY <1>4, OutsideShows
<1> QED BY <1>3, <1>4, BeginShows DEF Next

\* do keeps its promise to every caller: while others share its nodes, a second
\* carrying out is announced, and never comes in cautious mode; nil means done;
\* an error that denies it is right, or announced; and ErrNoNodes is what the
\* calls return that sent nothing (client.go do; errors.go:198; options.go:87).
THEOREM ClientKeepsPromise ==
    SoundReplies /\ SuccessIsDone => (Spec => CallsAsPromised)
<1> SUFFICES ASSUME SoundReplies, SuccessIsDone PROVE Spec => CallsAsPromised
    OBVIOUS
<1> DEFINE Known == TypeInv /\ DoubtKept /\ NothingSentYet /\ UntriedMovesOn
<1>1. Init => Known
    BY TypeInit DEF Init, DoubtKept, Underway, NothingSentYet, Searching, Judging,
                    UntriedMovesOn
<1>2. Known /\ [Next]_vars => Known'
    BY TypeStep, DoubtKeptStep, UntriedStep, SentStep
<1>3. Init => Promise!Init
    BY DEF Init, Promise!Init, Phase, Result, Verdict, Plain
<1>4. Known /\ [Next]_vars => [Promise!Next]_(Promise!vars)
    BY StepIsPromised
<1> HIDE DEF Known
<1> QED BY <1>1, <1>2, <1>3, <1>4, PTL DEF Spec, CallsAsPromised, Promise!Spec

-----------------------------------------------------------------------------
\* How long a call can take.

\* The steps one attempt can still take: pick asks every node twice at most,
\* untried once.
Lap == 3 * N + 4

stage(c) ==
    CASE pc[c] = "pick"    -> Lap
      [] pc[c] = "fresh"   -> 3 * N + 3 - i[c]
      [] pc[c] = "any"     -> 2 * N + 3 - i[c]
      [] pc[c] = "flight"  -> N + 3
      [] pc[c] = "judge"   -> N + 2
      [] pc[c] = "untried" -> N + 1 - i[c]
      [] OTHER             -> 1

\* The steps its call can still take.
work(c) ==
    IF pc[c] = "idle" THEN 0 ELSE (attempts(op[c]) - 1 - attempt[c]) * Lap + stage(c)

\* Every step a call takes brings it nearer to its return, and no step of
\* anybody else takes it farther away.
WorkShrinks ==
    [][\A c \in Callers :
          /\ Step(c) => work(c)' < work(c)
          /\ pc[c] # "idle" => work(c)' <= work(c)]_vars

WorkBounded == \A c \in Callers : work(c) \in 0..(attempts(op[c]) * Lap)

\* One more attempt is one more lap.
LEMMA Laps ==
    ASSUME NEW a \in Nat
    PROVE  a * Lap \in Nat /\ (a + 1) * Lap = a * Lap + Lap /\ Lap \in Nat /\ Lap > 1
BY ClientAssumption DEF Lap

LEMMA StageBounds ==
    ASSUME TypeInv, NEW c \in Callers
    PROVE  stage(c) \in 1..Lap
<1>1. N \in Nat \ {0} /\ i[c] \in 0..(N - 1)
    BY ClientAssumption DEF TypeInv, TypeOK, Nodes
<1> QED BY <1>1 DEF stage, Lap

\* A step ends the call, starts its next attempt, or brings this one on.
LEMMA StepBringsOn ==
    ASSUME TypeInv, NEW c \in Callers, Step(c)
    PROVE  /\ pc[c] # "idle" /\ op' = op
           /\ \A d \in Callers \ {c} :
                 pc'[d] = pc[d] /\ i'[d] = i[d] /\ attempt'[d] = attempt[d]
           /\ \/ pc'[c] = "idle"
              \/ attempt'[c] = attempt[c] /\ pc'[c] # "idle" /\ stage(c)' < stage(c)
              \/ attempt'[c] = attempt[c] + 1 /\ pc'[c] = "pick" /\ pc[c] = "wait"
<1>1. N \in Nat \ {0} /\ i[c] \in 0..(N - 1)
    BY ClientAssumption DEF TypeInv, TypeOK, Nodes
<1> USE DEF TypeInv, TypeOK, locals, ghosts, nodeVars
<1>2. CASE Pick(c)
    <2>1. /\ pc[c] = "pick" /\ pc' = [pc EXCEPT ![c] = "fresh"]
          /\ UNCHANGED <<op, i, attempt>>
        BY <1>2 DEF Pick
    <2> QED BY <1>1, <2>1 DEF stage, Lap
<1>3. CASE TakeFresh(c) \/ TakeAny(c)
    <2>1. /\ pc[c] \in {"fresh", "any"} /\ pc' = [pc EXCEPT ![c] = "flight"]
          /\ i' = [i EXCEPT ![c] = 0] /\ UNCHANGED <<op, attempt>>
        BY <1>3 DEF TakeFresh, TakeAny, Send
    <2> QED BY <1>1, <2>1 DEF stage, Lap
<1>4. CASE SkipFresh(c)
    <2>1. /\ pc[c] = "fresh" /\ UNCHANGED <<op, attempt>>
          /\ i' = [i EXCEPT ![c] = IF @ = N - 1 THEN 0 ELSE @ + 1]
          /\ pc' = [pc EXCEPT ![c] = IF i[c] = N - 1 THEN "any" ELSE "fresh"]
        BY <1>4 DEF SkipFresh
    <2> QED BY <1>1, <2>1 DEF stage, Lap
<1>5. CASE SkipAny(c)
    <2>1. /\ pc[c] = "any" /\ i' = [i EXCEPT ![c] = @ + 1]
          /\ UNCHANGED <<pc, op, attempt>>
        BY <1>5 DEF SkipAny
    <2> QED BY <1>1, <2>1 DEF stage, Lap
<1>6. CASE NoNode(c) \/ GiveUp(c) \/ WaitEnded(c)
    BY <1>6 DEF NoNode, GiveUp, WaitEnded, Return
<1>7. ASSUME NEW r \in Replies, Reply(c, r)
      PROVE  /\ pc[c] = "flight" /\ op' = op
             /\ \A d \in Callers \ {c} :
                   pc'[d] = pc[d] /\ i'[d] = i[d] /\ attempt'[d] = attempt[d]
             /\ \/ pc'[c] = "idle"
                \/ pc'[c] = "judge" /\ attempt'[c] = attempt[c]
    BY <1>7 DEF Reply, Return
<1>8. CASE \E r \in Replies : Reply(c, r)
    BY <1>1, <1>7, <1>8 DEF stage, Lap
<1>9. CASE Retry(c) \/ FoundUntried(c) \/ (SkipUntried(c) /\ RetryAfterWait(c))
    <2>1. /\ pc[c] \in {"judge", "untried"} /\ pc' = [pc EXCEPT ![c] = "wait"]
          /\ i' = [i EXCEPT ![c] = 0] /\ UNCHANGED <<op, attempt>>
        BY <1>9 DEF Retry, FoundUntried, SkipUntried, RetryAfterWait
    <2> QED BY <1>1, <2>1 DEF stage, Lap
<1>10. CASE MoveOn(c)
    <2>1. /\ pc[c] = "judge" /\ pc' = [pc EXCEPT ![c] = "untried"]
          /\ UNCHANGED <<op, i, attempt>>
        BY <1>10 DEF MoveOn
    <2> QED BY <1>1, <2>1 DEF stage, Lap
<1>11. CASE SkipUntried(c) /\ ~RetryAfterWait(c)
    <2>1. /\ pc[c] = "untried" /\ i' = [i EXCEPT ![c] = @ + 1]
          /\ UNCHANGED <<pc, op, attempt>>
        BY <1>11 DEF SkipUntried
    <2> QED BY <1>1, <2>1 DEF stage, Lap
<1>12. CASE WaitOver(c)
    BY <1>12 DEF WaitOver
<1> HIDE DEF TypeInv, TypeOK
<1> QED BY <1>2, <1>3, <1>4, <1>5, <1>6, <1>8, <1>9, <1>10, <1>11, <1>12 DEF Step

LEMMA WorkTypes ==
    ASSUME TypeInv, NEW c \in Callers
    PROVE  /\ work(c) \in 0..(attempts(op[c]) * Lap)
           /\ pc[c] # "idle" => work(c) > 0
<1> DEFINE a == attempts(op[c]) - 1 - attempt[c]
           n == attempts(op[c]) - 1
<1>1. a \in Nat /\ n \in Nat /\ a <= n /\ attempts(op[c]) = n + 1
    BY AttemptsPositive DEF TypeInv, TypeOK
<1>2. stage(c) \in 1..Lap
    BY StageBounds
<1>3. /\ pc[c] # "idle" => work(c) = a * Lap + stage(c)
      /\ pc[c] = "idle" => work(c) = 0
    BY DEF work
<1> HIDE DEF a, n
<1>4. /\ a * Lap \in Nat /\ n * Lap \in Nat /\ Lap \in Nat
      /\ (n + 1) * Lap = n * Lap + Lap
    BY <1>1, Laps
<1>5. a * Lap <= n * Lap
    <2>1. \A x, y, z \in Nat : x <= y => x * z <= y * z
        OBVIOUS
    <2> QED BY <1>1, <1>4, <2>1
<1> QED BY <1>1, <1>2, <1>3, <1>4, <1>5

LEMMA OwnWork ==
    ASSUME TypeInv, TypeInv', NEW c \in Callers, Step(c)
    PROVE  work(c)' \in Nat /\ work(c)' < work(c)
<1> DEFINE a == attempts(op[c]) - 1 - attempt[c]
<1>0. a \in Nat
    BY AttemptsPositive DEF TypeInv, TypeOK
<1>1. /\ pc[c] # "idle" /\ op' = op
      /\ work(c) = a * Lap + stage(c)
      /\ stage(c) \in 1..Lap /\ Lap \in Nat
      /\ pc'[c] # "idle" => stage(c)' \in 1..Lap
    <2>1. pc[c] # "idle" /\ op' = op
        BY StepBringsOn
    <2>2. stage(c) \in 1..Lap /\ Lap \in Nat
        BY StageBounds, Laps
    <2>3. i'[c] \in 0..(N - 1) /\ N \in Nat
        BY ClientAssumption DEF TypeInv, TypeOK, Nodes
    <2>4. stage(c)' \in 1..Lap
        BY <2>3 DEF stage, Lap
    <2> QED BY <2>1, <2>2, <2>4 DEF work
<1>2. CASE pc'[c] = "idle"
    <2>1. work(c)' = 0
        BY <1>2 DEF work
    <2> HIDE DEF a
    <2> QED BY <1>0, <1>1, <2>1, Laps
<1>3. CASE attempt'[c] = attempt[c] /\ pc'[c] # "idle" /\ stage(c)' < stage(c)
    <2>1. work(c)' = a * Lap + stage(c)'
        BY <1>1, <1>3 DEF work
    <2> HIDE DEF a
    <2>2. a * Lap \in Nat
        BY <1>0, Laps
    <2>3. stage(c) \in Nat /\ stage(c)' \in Nat /\ stage(c)' < stage(c)
        BY <1>1, <1>3
    <2>4. \A x, y, z \in Nat : y < z => x + y \in Nat /\ x + y < x + z
        OBVIOUS
    <2> QED BY <1>1, <2>1, <2>2, <2>3, <2>4
<1>4. CASE attempt'[c] = attempt[c] + 1 /\ pc'[c] = "pick" /\ pc[c] = "wait"
    <2>1. a - 1 \in Nat /\ a = (a - 1) + 1
        BY <1>1, <1>4, AttemptsPositive DEF TypeInv, TypeOK
    <2>2. stage(c) = 1 /\ stage(c)' = Lap
        BY <1>4 DEF stage
    <2>3. attempts(op'[c]) - 1 - attempt'[c] = a - 1
        BY <1>1, <1>4, AttemptsPositive DEF TypeInv, TypeOK
    <2>4. work(c)' = (a - 1) * Lap + Lap
        BY <1>4, <2>2, <2>3 DEF work
    <2> HIDE DEF a
    <2>5. a * Lap = (a - 1) * Lap + Lap /\ (a - 1) * Lap \in Nat
        BY <2>1, Laps
    <2> QED BY <1>1, <2>2, <2>4, <2>5
<1> QED BY <1>2, <1>3, <1>4, StepBringsOn

\* A step of somebody else leaves a call where it is.
LEMMA OthersWork ==
    ASSUME TypeInv, [Next]_vars, NEW c \in Callers, pc[c] # "idle", ~Step(c)
    PROVE  work(c)' = work(c)
<1>1. /\ pc'[c] = pc[c] /\ i'[c] = i[c] /\ attempt'[c] = attempt[c] /\ op'[c] = op[c]
    <2>1. CASE \E d \in Callers : Step(d)
        BY <2>1, StepBringsOn
    <2>2. CASE \E d \in Callers, o \in CallOps : Start(d, o) \/ Refuse(d, o)
        BY <2>2 DEF Start, Refuse, locals, TypeInv, TypeOK
    <2>3. CASE (\E d \in Callers : Cancel(d)) \/ Close \/ Tick \/ UNCHANGED vars
        BY <2>3 DEF Cancel, Close, Tick, vars, callVars, locals
    <2> QED BY <2>1, <2>2, <2>3 DEF Next
<1> QED BY <1>1 DEF work, stage

\* A call takes at most (3N + 4) steps for each of its attempts, whatever the
\* nodes answer and however often others open, probe and close their breakers
\* meanwhile: it can be kept waiting, but never sent round for ever (client.go
\* do, nodes.go pick and untried).
THEOREM CallsAreBounded == Spec => WorkShrinks /\ []WorkBounded
<1>1. TypeInv /\ TypeInv' /\ [Next]_vars =>
          [\A c \in Callers :
              /\ Step(c) => work(c)' < work(c)
              /\ pc[c] # "idle" => work(c)' <= work(c)]_vars
    <2> SUFFICES ASSUME TypeInv, TypeInv', [Next]_vars, NEW c \in Callers
                 PROVE  /\ Step(c) => work(c)' < work(c)
                        /\ pc[c] # "idle" => work(c)' <= work(c)
        OBVIOUS
    <2>1. work(c) \in Int
        BY WorkTypes, AttemptsPositive, Laps
    <2>2. CASE Step(c)
        BY <2>1, <2>2, OwnWork
    <2>3. CASE ~Step(c)
        BY <2>1, <2>3, OthersWork
    <2> QED BY <2>2, <2>3
<1>2. TypeInv => WorkBounded
    BY WorkTypes DEF WorkBounded
<1> QED BY <1>1, <1>2, TypeInit, TypeStep, PTL DEF Spec, WorkShrinks

=============================================================================
