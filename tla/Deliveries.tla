---------------------------- MODULE Deliveries -----------------------------
(***************************************************************************)
(* What Consume promises about the messages of a batch: each is started at *)
(* most once, its lease ends once and for all, by an ack only if its       *)
(* handler succeeded or asked for one, by a nack only if the handler asked *)
(* for one, or failed and is to be requeued, or will never be started.     *)
(***************************************************************************)
CONSTANTS
    Messages,
    Requeue  \* a failed message is handed back, not left to lapse

VARIABLES
    lease,    \* the broker's view of each receipt handle
    verdict,  \* how far the handler got with each message
    asked     \* what the handler itself asked the broker for

vars == <<lease, verdict, asked>>

Init ==
    /\ lease = [m \in Messages |-> "held"]
    /\ verdict = [m \in Messages |-> "unstarted"]
    /\ asked = [m \in Messages |-> {}]

\* A message handed back is not started.
Start(m) ==
    /\ verdict[m] = "unstarted" /\ lease[m] # "requeued"
    /\ verdict' = [verdict EXCEPT ![m] = "running"]
    /\ UNCHANGED <<lease, asked>>

Ask(m, o) ==
    /\ verdict[m] = "running"
    /\ asked' = [asked EXCEPT ![m] = @ \cup {o}]
    /\ UNCHANGED <<lease, verdict>>

HandlerReturns(m, v) ==
    /\ verdict[m] = "running"
    /\ verdict' = [verdict EXCEPT ![m] = v]
    /\ UNCHANGED <<lease, asked>>

MayAck(m)  == verdict[m] = "ok" \/ "ack" \in asked[m]
MayNack(m) ==
    \/ verdict[m] = "unstarted"
    \/ Requeue /\ verdict[m] = "err"
    \/ "nack" \in asked[m]

LeaseEnds(m) ==
    /\ lease[m] = "held"
    /\ \/ MayAck(m)  /\ lease' = [lease EXCEPT ![m] = "acked"]
       \/ MayNack(m) /\ lease' = [lease EXCEPT ![m] = "requeued"]
       \/ lease' = [lease EXCEPT ![m] = "lapsed"]
    /\ UNCHANGED <<verdict, asked>>

Next == \E m \in Messages :
    \/ Start(m) \/ LeaseEnds(m)
    \/ \E o \in {"ack", "nack", "extend"} : Ask(m, o)
    \/ \E v \in {"ok", "err"} : HandlerReturns(m, v)

Spec == Init /\ [][Next]_vars

=============================================================================
