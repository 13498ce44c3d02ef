------------------------------ MODULE Breaker -------------------------------
(***************************************************************************)
(* The circuit breaker of one node (nodes.go): the operations that run     *)
(* under the node's mutex, each as a function from the breaker's state to  *)
(* its next state.                                                         *)
(*                                                                         *)
(* openedAt is kept as `cool`, the cooldown still to run: it is OpenFor    *)
(* when the breaker opens now, 0 when openedAt is openFor or more ago.     *)
(* A closed breaker's openedAt is never read before it is set again, so    *)
(* cool is 0 then.  failures is only ever compared with failAfter, so it   *)
(* saturates there.  lastError, which only Health shows, is left out.      *)
(***************************************************************************)
EXTENDS Integers, Errors

CONSTANTS
    FailAfter,  \* config.breakAfter: consecutive failures that open it; <= 0 disables it
    OpenFor     \* config.breakFor: the cooldown, in ticks

ASSUME BreakerAssumption == FailAfter \in Int /\ OpenFor \in Nat

Threshold == IF FailAfter > 0 THEN FailAfter ELSE 0

States == {"closed", "open", "halfOpen"}

BreakerType == [state : States, failures : 0..Threshold, cool : 0..OpenFor]

newNode == [state |-> "closed", failures |-> 0, cool |-> 0]

disabled == FailAfter <= 0

\* The answer of ready ...
ready(b) == disabled \/ b.state = "closed" \/ (b.state = "open" /\ b.cool = 0)

\* ... and what asking does: a breaker whose cooldown has passed is half-open.
afterReady(b) ==
    IF ~disabled /\ b.state = "open" /\ b.cool = 0
    THEN [b EXCEPT !.state = "halfOpen"]
    ELSE b

succeed(b) == [b EXCEPT !.state = "closed", !.failures = 0, !.cool = 0]

\* The probe of a half-open node failed, or one more failure in a row.
fail(b) ==
    LET more == IF b.failures < FailAfter THEN b.failures + 1 ELSE FailAfter
    IN  IF b.state = "halfOpen"
        THEN [b EXCEPT !.state = "open", !.cool = OpenFor]
        ELSE IF more >= FailAfter
        THEN [b EXCEPT !.state = "open", !.cool = OpenFor, !.failures = more]
        ELSE [b EXCEPT !.failures = more]

\* observe: record how a request turned out.
observe(b, e) ==
    IF disabled THEN b
    ELSE IF nodeFault(e) THEN fail(b) ELSE succeed(b)

\* Mutant: the breaker keeps its state, half-open included.
abandonKeepsProbe(b) == b

\* abandon: the caller stopped waiting; a half-open probe is handed back.
abandon(b) ==
    IF ~disabled /\ b.state = "halfOpen"
    THEN [b EXCEPT !.state = "open", !.cool = 0]
    ELSE b

\* Time passes (external: the clock).
cooler(b) == [b EXCEPT !.cool = IF @ = 0 THEN 0 ELSE @ - 1]

=============================================================================
