------------------------------- MODULE Calls --------------------------------
(***************************************************************************)
(* What Client.do promises the goroutines that call it, however many       *)
(* requests a call takes and whichever nodes they meet: a server carries   *)
(* the call out a second time only after a retry event has said that the   *)
(* first may have been carried out, and never in cautious mode; success    *)
(* means that it was carried out; an error that denies it is either right  *)
(* or preceded by such an event; ErrNoNodes is the answer of the calls     *)
(* that sent nothing, and of no other.                                     *)
(***************************************************************************)
EXTENDS Naturals

CONSTANTS
    Callers,  \* goroutines that share the client
    Cautious  \* WithCautiousRetries

VARIABLES
    phase,   \* caller -> "idle", "unsent" or "sent"
    done,    \* caller -> how often servers carried the call out
    warned,  \* caller -> a retry event marked Uncertain was emitted
    result   \* caller -> "none", "ok", "noNodes", "unsure" or "error"

vars == <<phase, done, warned, result>>

Init ==
    /\ phase = [c \in Callers |-> "idle"]
    /\ done = [c \in Callers |-> 0]
    /\ warned = [c \in Callers |-> FALSE]
    /\ result = [c \in Callers |-> "ok"]

begins(c, to, r) ==
    /\ phase[c] = "idle"
    /\ phase' = [phase EXCEPT ![c] = to]
    /\ result' = [result EXCEPT ![c] = r]
    /\ done' = [done EXCEPT ![c] = 0]
    /\ warned' = [warned EXCEPT ![c] = FALSE]

\* A call begins, or is refused by a closed client.
Begin(c)  == begins(c, "unsent", "none")
Refuse(c) == begins(c, "idle", "error")

Send(c) ==
    /\ phase[c] = "unsent"
    /\ phase' = [phase EXCEPT ![c] = "sent"]
    /\ UNCHANGED <<done, warned, result>>

\* A server carries it out.
carriedOut(c) ==
    /\ phase[c] = "sent"
    /\ done[c] = 0 \/ warned[c]
    /\ done' = [done EXCEPT ![c] = @ + 1]

CarryOut(c) == carriedOut(c) /\ UNCHANGED <<phase, warned, result>>

\* The retry event that says so.
Warn(c) ==
    /\ phase[c] = "sent" /\ ~Cautious
    /\ warned' = [warned EXCEPT ![c] = TRUE]
    /\ UNCHANGED <<phase, done, result>>

returns(c, r) ==
    /\ phase' = [phase EXCEPT ![c] = "idle"]
    /\ result' = [result EXCEPT ![c] = r]
    /\ UNCHANGED warned

Succeed(c) == carriedOut(c) /\ returns(c, "ok")

\* Nothing was sent: no node would take it.
NoNodes(c) == phase[c] = "unsent" /\ returns(c, "noNodes") /\ UNCHANGED done

\* An error: one that leaves open whether the call was carried out, or one
\* that denies it.
Fail(c, r) ==
    /\ phase[c] = "sent"
    /\ r = "error" => done[c] = 0 \/ warned[c]
    /\ returns(c, r)
    /\ UNCHANGED done

Next == \E c \in Callers :
    \/ Begin(c) \/ Refuse(c) \/ Send(c) \/ CarryOut(c) \/ Warn(c)
    \/ Succeed(c) \/ NoNodes(c) \/ \E r \in {"unsure", "error"} : Fail(c, r)

Spec == Init /\ [][Next]_vars

=============================================================================
