----------------------------- MODULE SettleMany -----------------------------
(***************************************************************************)
(* Settling several messages of one topic (consume_batch.go: settleMany,   *)
(* ackBatch; message.go: settleFrom, which it falls back to).              *)
(*                                                                         *)
(* A round is one request for all the messages still pending.  The broker  *)
(* processes each handle on its own; the reply brings a status for each,   *)
(* or is lost, or is unreadable, or the request is turned down as a whole. *)
(* A broker without the batch form answers 400, and the messages are then  *)
(* settled one at a time.                                                  *)
(*                                                                         *)
(* External: the broker (lease), the network, the end of the context, and  *)
(* time.  As everywhere in the client, an error that Uncertain does not    *)
(* cover is taken to mean that nothing was done.                           *)
(***************************************************************************)
EXTENDS Integers

CONSTANTS
    N,        \* len(msgs)
    Attempts  \* config.attempts

ASSUME SettleManyAssumption == N \in Nat \ {0} /\ Attempts \in Nat \ {0}

Messages == 1..N

VARIABLES
    op,       \* the operation
    lease,    \* broker: message -> the state of its receipt handle
    late,     \* messages for which a request given up on may still arrive
    pc,       \* where settleMany is
    pending,  \* messages without a final outcome
    may,      \* mayHaveLanded
    attempt,  \* attempts made: rounds or, in the fallback, for one message
    errs,     \* message -> its error so far
    settled   \* messages marked settled

vars == <<op, lease, late, pc, pending, may, attempt, errs, settled>>

Ops      == {"ack", "nack", "extend"}
\* A handle's status: 204, 410, one that is Uncertain, one that is certain and
\* worth a retry, any other.
Statuses == {"ok", "gone", "unsure", "refused", "rejected"}

\* Besides statuses ("ok" is nil): none yet, and what spoils or ends it all.
Errs == Statuses \cup {"none", "unreadable", "ctx"}

Init ==
    /\ op \in Ops
    /\ lease = [m \in Messages |-> "held"]
    /\ late = {}
    /\ pc = IF N = 1 THEN "single" ELSE "round"
    /\ pending = Messages
    /\ may = {}
    /\ attempt = 0
    /\ errs = [m \in Messages |-> "none"]
    /\ settled = {}

-----------------------------------------------------------------------------
\* The broker (external).

spent == IF op = "ack" THEN "acked" ELSE "requeued"

\* The leases once the broker has processed the handles of D.
processed(D) ==
    [m \in Messages |-> IF m \in D /\ lease[m] = "held" /\ op # "extend"
                        THEN spent ELSE lease[m]]

\* A handle gets 204 while the broker holds it and 410 afterwards.
possible(m, s) ==
    /\ s = "ok" => lease[m] = "held"
    /\ s = "gone" => lease[m] # "held"

\* Requests for the messages of D without a conclusive answer: any of them were
\* processed, will be, or never are; those of C certainly were.
Processing(C, D) == \E E \in SUBSET D, L \in SUBSET D :
    /\ lease' = processed(C \cup E)
    /\ late' = late \cup L

Lapse ==
    /\ \E m \in Messages :
          lease[m] = "held" /\ lease' = [lease EXCEPT ![m] = "lapsed"]
    /\ UNCHANGED <<op, late, pc, pending, may, attempt, errs, settled>>

Land ==
    /\ \E m \in late : lease' = processed({m}) /\ late' = late \ {m}
    /\ UNCHANGED <<op, pc, pending, may, attempt, errs, settled>>

-----------------------------------------------------------------------------
\* settledBy: an extend settles nothing.

marked(M) == IF op = "extend" THEN settled ELSE settled \cup M

\* The errors once e has been set for all of M.
setErr(M, e) == [m \in Messages |-> IF m \in M THEN e ELSE errs[m]]

\* A 204; or, for an ack only, a 410 after an attempt that may have landed.
accepted(m, s) == s = "ok" \/ (op = "ack" /\ m \in may /\ s = "gone")

retryable(s) == s \in {"unsure", "refused", "unreadable"}

\* The loop's head: another round waits, unless attempts or messages ran out.
roundEnds(M) == IF attempt + 1 < Attempts /\ M # {} THEN "wait" ELSE "done"

-----------------------------------------------------------------------------
\* Rounds: ackBatch and what is made of its result.

\* The messages the next round takes up.
stillPending(s) == {m \in pending : ~accepted(m, s[m]) /\ retryable(s[m])}

\* A status for each handle.
Results ==
    /\ pc = "round"
    /\ \E s \in [pending -> Statuses] :
          LET unsure == {m \in pending : s[m] = "unsure"}
              done   == {m \in pending : accepted(m, s[m])}
          IN /\ \A m \in pending : possible(m, s[m])
             /\ Processing({m \in pending : s[m] = "ok"}, unsure)
             /\ settled' = marked(done)
             /\ errs' = [m \in Messages |-> IF m \notin pending THEN errs[m]
                                            ELSE IF m \in done THEN "ok" ELSE s[m]]
             /\ may' = may \cup unsure
             /\ pending' = stillPending(s)
             /\ pc' = roundEnds(pending')
    /\ attempt' = attempt + 1
    /\ UNCHANGED op

\* errBatchReply: 200, so the handles were processed, but not with what result.
Unreadable ==
    /\ pc = "round"
    /\ \E D \in SUBSET pending : lease' = processed(D)
    /\ errs' = setErr(pending, "unreadable")
    /\ may' = may \cup pending
    /\ pc' = roundEnds(pending)
    /\ attempt' = attempt + 1
    /\ UNCHANGED <<op, late, pending, settled>>

\* The request failed and may have been carried out, for any of the messages.
RoundUnsure ==
    /\ pc = "round"
    /\ Processing({}, pending)
    /\ errs' = setErr(pending, "unsure")
    /\ may' = may \cup pending
    /\ pc' = roundEnds(pending)
    /\ attempt' = attempt + 1
    /\ UNCHANGED <<op, pending, settled>>

\* It was turned down as a whole, for now.
RoundRefused ==
    /\ pc = "round"
    /\ errs' = setErr(pending, "refused")
    /\ pc' = roundEnds(pending)
    /\ attempt' = attempt + 1
    /\ UNCHANGED <<op, lease, late, pending, may, settled>>

\* It was turned down for good, or the client is closed.
RoundRejected ==
    /\ pc = "round"
    /\ errs' = setErr(pending, "rejected")
    /\ pc' = "done"
    /\ UNCHANGED <<op, lease, late, pending, may, attempt, settled>>

\* Mutant: the fallback starts from all messages again.
FallBackForAll ==
    /\ pc = "round"
    /\ pc' = "single"
    /\ attempt' = 0
    /\ pending' = Messages
    /\ UNCHANGED <<op, lease, late, may, errs, settled>>

\* ErrBadRequest: perhaps a broker without batches.  One at a time.
FallBack ==
    /\ pc = "round"
    /\ pc' = "single"
    /\ attempt' = 0
    /\ UNCHANGED <<op, lease, late, pending, may, errs, settled>>

\* wait
WaitOver ==
    /\ pc = "wait"
    /\ pc' = "round"
    /\ UNCHANGED <<op, lease, late, pending, may, attempt, errs, settled>>

\* The context ended first.
WaitEnded ==
    /\ pc = "wait"
    /\ errs' = setErr(pending, "ctx")
    /\ pc' = "done"
    /\ UNCHANGED <<op, lease, late, pending, may, attempt, settled>>

-----------------------------------------------------------------------------
\* settleFrom, for the messages pending in turn.

first(m) == m \in pending /\ \A k \in pending : m <= k

\* settleFrom returns e for m, and the next message's turn comes.
Concluded(m, e) ==
    /\ errs' = [errs EXCEPT ![m] = e]
    /\ pending' = pending \ {m}
    /\ attempt' = 0
    /\ pc' = IF pending' = {} THEN "done" ELSE "single"

\* The answer settles it.
SingleAccepted(m, s) ==
    /\ accepted(m, s)
    /\ Processing(IF s = "ok" THEN {m} ELSE {}, {})
    /\ settled' = marked({m})
    /\ Concluded(m, "ok")
    /\ UNCHANGED may

\* It does not, and it is the last: no error to retry, no attempt left, or the
\* context has ended.
SingleFailed(m, s) ==
    /\ ~accepted(m, s)
    /\ Processing({}, IF s = "unsure" THEN {m} ELSE {})
    /\ \/ Concluded(m, s)
       \/ retryable(s) /\ Concluded(m, "ctx")
    /\ UNCHANGED <<may, settled>>

SingleRetried(m, s) ==
    /\ ~accepted(m, s) /\ retryable(s) /\ attempt + 1 < Attempts
    /\ Processing({}, IF s = "unsure" THEN {m} ELSE {})
    /\ may' = IF s = "unsure" THEN may \cup {m} ELSE may
    /\ attempt' = attempt + 1
    /\ UNCHANGED <<pc, pending, errs, settled>>

Single ==
    /\ pc = "single"
    /\ \E m \in Messages, s \in Statuses :
          /\ first(m) /\ possible(m, s)
          /\ SingleAccepted(m, s) \/ SingleFailed(m, s) \/ SingleRetried(m, s)
    /\ UNCHANGED op

-----------------------------------------------------------------------------

Round == Results \/ Unreadable \/ RoundUnsure \/ RoundRefused \/ RoundRejected

Returned == pc = "done" /\ UNCHANGED vars

Next == Round \/ FallBack \/ WaitOver \/ WaitEnded \/ Single \/ Lapse \/ Land \/ Returned

Spec == Init /\ [][Next]_vars

-----------------------------------------------------------------------------
\* Properties

TypeOK ==
    /\ op \in Ops
    /\ lease \in [Messages -> {"held", "acked", "requeued", "lapsed"}]
    /\ late \subseteq Messages
    /\ pc \in {"round", "wait", "single", "done"}
    /\ pending \subseteq Messages /\ may \subseteq Messages
    /\ attempt \in 0..Attempts
    /\ errs \in [Messages -> Errs]
    /\ settled \subseteq Messages

\* A message's outcome, once it has one.
outcome == [m \in Messages |->
    IF pc # "done" /\ m \in pending THEN "pending"
    ELSE IF errs[m] \in {"ok", "gone"} THEN errs[m] ELSE "failed"]

\* A message that was settled has no request sent for it again, by the next
\* round or by the fallback (settleMany's next).
SendsOnlyUnsettled == pending \cap settled = {}

\* An ack the broker carried out is never reported as a lost lease: whichever
\* attempt did it, its 410 gets the benefit of the doubt (settleMany's doc).
AckedIsNotLost == \A m \in Messages : outcome[m] = "gone" => lease[m] # "acked"

\* When settleMany returns nil for an ack, the broker acked the message, or an
\* attempt before it could not be told from one that did.
NilIsHonest == \A m \in Messages :
    outcome[m] = "ok" /\ op # "extend" => lease[m] = spent \/ (op = "ack" /\ m \in may)

\* Whatever the rounds, each message gets what the abstract settle allows.
Promise == INSTANCE Outcomes WITH op <- op, lease <- lease, outcome <- outcome
SettlesAsPromised == Promise!Spec

=============================================================================
