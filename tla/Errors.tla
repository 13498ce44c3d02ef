------------------------------- MODULE Errors -------------------------------
(***************************************************************************)
(* What the client makes of a failed request (errors.go, and the two      *)
(* classifications of client.go and nodes.go that decide what the retry    *)
(* loop and the circuit breaker do with it).                               *)
(*                                                                         *)
(* An error is a record.  Its kind says which Go error it is: "api" is an  *)
(* *Error (a reply with a failing status), "conn" a *ConnError (no reply), *)
(* the others are the bare sentinels and the context's own error.  The     *)
(* server's message is abstracted to the texts the client looks for in it. *)
(***************************************************************************)
EXTENDS Naturals

TopicWrites == {"create topic", "delete topic", "set schema"}
Produces    == {"produce", "produce batch"}
Reads       == {"read", "topic", "topics", "ping"}
Settles     == {"ack", "nack", "extend", "ack batch", "nack batch", "extend batch"}
Ops         == TopicWrites \cup Produces \cup Reads \cup Settles \cup {"consume"}

\* The message texts the client tells apart; "other" is any other text.
Texts == {"other", "outcomeUnknown", "storedNothing",
          "letterCase", "topicChanged", "delayedChild"}

Kinds == {"nil", "api", "conn", "noNodes", "unavailable", "closed", "ctx"}

Error == [kind : Kinds, op : Ops, status : Nat, text : Texts, reached : BOOLEAN]

\* A reply the server sent that is not a success.
APIError(op, status, text) ==
    [kind |-> "api", op |-> op, status |-> status, text |-> text, reached |-> TRUE]

\* A request that got no (complete) reply.
ConnError(op, reached) ==
    [kind |-> "conn", op |-> op, status |-> 0, text |-> "other", reached |-> reached]

\* nil, a sentinel (ErrNoNodes, ErrClosed) or ctx.Err().
Plain(kind, op) ==
    [kind |-> kind, op |-> op, status |-> 0, text |-> "other", reached |-> FALSE]

-----------------------------------------------------------------------------

\* readOnly: an operation that changes nothing on the server.
readOnly(op) == op \in Reads

\* storedNothing: the broker's own produce 503s, sent before anything is written.
storedNothing(text) == text = "storedNothing"

Retryable(e) ==
    CASE e.kind = "api"  -> e.status \in {429, 503, 421, 408, 502, 504, 500}
      [] e.kind = "conn" -> TRUE
      [] OTHER           -> e.kind \in {"noNodes", "unavailable"}

\* Mutant: a produce 503 is always taken for the broker's own.
uncertain503ButProduce(e) == e.text = "outcomeUnknown" \/ e.op \in TopicWrites

\* The part of Uncertain about a 503: what it means depends on the message
\* and then on the operation.
uncertain503(e) ==
    \/ e.text = "outcomeUnknown"
    \/ e.op \in Produces /\ ~storedNothing(e.text)
    \/ e.op \in TopicWrites

Uncertain(e) ==
    /\ ~readOnly(e.op)
    /\ \/ e.kind = "conn" /\ e.reached
       \/ e.kind = "api" /\ e.status \in {500, 502}
       \/ e.kind = "api" /\ e.status = 503 /\ uncertain503(e)

\* movesOn: the failure is about the node that answered, not the cluster.
movesOn(e) == e.kind = "api" /\ e.status = 503 /\ ~Uncertain(e)

\* nodeFault: the failure counts against the node's circuit breaker.
nodeFault(e) ==
    \/ e.kind = "conn"
    \/ e.kind = "api" /\ e.status \in {500, 502, 503, 504}

-----------------------------------------------------------------------------

\* statusError: the sentinel of a status.
statusError(status) ==
    CASE status \in {400, 415} -> "ErrBadRequest"
      [] status = 401          -> "ErrUnauthenticated"
      [] status = 403          -> "ErrForbidden"
      [] status = 404          -> "ErrNotFound"
      [] status = 409          -> "ErrExists"
      [] status = 410          -> "ErrLeaseLost"
      [] status = 413          -> "ErrTooLarge"
      [] status = 429          -> "ErrThrottled"
      [] status \in {503, 421} -> "ErrUnavailable"
      [] OTHER -> IF status >= 500 THEN "ErrServer" ELSE "ErrBadRequest"

\* errorKind: the sentinels errors.Is finds in a reply; a 409 is refined by
\* its message.
errorKind(e) ==
    CASE e.status = 409 /\ e.text = "letterCase"   -> {"ErrNameTaken", "ErrExists"}
      [] e.status = 409 /\ e.text = "topicChanged" -> {"ErrTopicChanged", "ErrExists"}
      [] e.status = 409 /\ e.text = "delayedChild" -> {"ErrBadRequest"}
      [] OTHER -> {statusError(e.status)}

\* errors.Is(err, sentinel)
Is(e, sentinel) ==
    CASE e.kind = "api"     -> sentinel \in errorKind(e)
      [] e.kind = "noNodes" -> sentinel = "ErrNoNodes"
      [] e.kind = "closed"  -> sentinel = "ErrClosed"
      [] e.kind = "unavailable" -> sentinel = "ErrUnavailable"
      [] OTHER              -> FALSE

=============================================================================
