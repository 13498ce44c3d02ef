----------------------------- MODULE Outcomes ------------------------------
(***************************************************************************)
(* What a settle of several messages promises for each of them, however    *)
(* many requests it takes: its outcome comes once, nil only when the       *)
(* broker is done with the handle (or, for an extend, nothing is), a lost  *)
(* lease only when it is one, and never for an ack that was carried out.   *)
(***************************************************************************)
CONSTANT Messages

VARIABLES
    op,      \* "ack", "nack" or "extend"
    lease,   \* the broker's view of each receipt handle
    outcome  \* message -> "pending", "ok", "gone" or "failed"

vars == <<op, lease, outcome>>

Init ==
    /\ op \in {"ack", "nack", "extend"}
    /\ lease = [m \in Messages |-> "held"]
    /\ outcome = [m \in Messages |-> "pending"]

\* The lease stands, lapses, or ends as the settle asked.
LeaseStep(m) ==
    \/ lease'[m] = lease[m]
    \/ lease[m] = "held" /\ lease'[m] = "lapsed"
    \/ lease[m] = "held" /\ op = "ack" /\ lease'[m] = "acked"
    \/ lease[m] = "held" /\ op = "nack" /\ lease'[m] = "requeued"

OutcomeStep(m) ==
    \/ outcome'[m] = outcome[m]
    \/ /\ outcome[m] = "pending"
       /\ \/ outcome'[m] = "failed"
          \/ outcome'[m] = "ok" /\ (op # "extend" => lease'[m] # "held")
          \/ outcome'[m] = "gone" /\ lease'[m] \notin {"held", "acked"}

Next ==
    /\ op' = op
    /\ DOMAIN lease' = Messages /\ DOMAIN outcome' = Messages
    /\ \A m \in Messages : LeaseStep(m) /\ OutcomeStep(m)

Spec == Init /\ [][Next]_vars

=============================================================================
