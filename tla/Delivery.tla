------------------------------ MODULE Delivery ------------------------------
(***************************************************************************)
(* What Consume promises about one delivered message: the broker's lease   *)
(* on it ends once and for all, by an ack only if the handler succeeded or *)
(* asked for one, by a nack only if it asked for one or failed and is to   *)
(* be requeued, and otherwise by lapsing.                                  *)
(***************************************************************************)
CONSTANT Requeue  \* a failed message is handed back, not left to lapse

VARIABLES
    lease,    \* the broker's view of the receipt handle
    verdict,  \* what the handler returned
    asked     \* what the handler itself asked the broker for

vars == <<lease, verdict, asked>>

Init == lease \in {"held", "none"} /\ verdict = "running" /\ asked = {}

\* The handler calls Ack, Nack or Extend on its message.
Ask(o) ==
    /\ verdict = "running"
    /\ asked' = asked \cup {o}
    /\ UNCHANGED <<lease, verdict>>

HandlerReturns(v) ==
    /\ verdict = "running"
    /\ verdict' = v
    /\ UNCHANGED <<lease, asked>>

Acked ==
    /\ lease = "held"
    /\ verdict = "ok" \/ "ack" \in asked
    /\ lease' = "acked"
    /\ UNCHANGED <<verdict, asked>>

Requeued ==
    /\ lease = "held"
    /\ (Requeue /\ verdict = "err") \/ "nack" \in asked
    /\ lease' = "requeued"
    /\ UNCHANGED <<verdict, asked>>

Lapsed == lease = "held" /\ lease' = "lapsed" /\ UNCHANGED <<verdict, asked>>

Next ==
    \/ \E o \in {"ack", "nack", "extend"} : Ask(o)
    \/ \E v \in {"ok", "err"} : HandlerReturns(v)
    \/ Acked \/ Requeued \/ Lapsed

Spec == Init /\ [][Next]_vars

=============================================================================
