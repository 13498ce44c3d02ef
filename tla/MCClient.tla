------------------------------ MODULE MCClient ------------------------------
(***************************************************************************)
(* Instances of Client for TLC: what a broker, a proxy and the network can *)
(* answer, per operation.  A reply's applied says whether a server carries *)
(* the request out, now or (a request still on its way when the client     *)
(* gave up) later.                                                         *)
(***************************************************************************)
EXTENDS Client, TLC

CallerSymmetry == Permutations(Callers)

R(o, e, ap) == [op |-> o, err |-> e, applied |-> ap]

\* Both outcomes of a request nobody can tell the fate of.
Either(o, e) == {R(o, e, TRUE), R(o, e, FALSE)}

\* A write (produce, topic write): done, cut off in flight, refused by a dial.
Basic(o) ==
    {R(o, Plain("nil", o), TRUE), R(o, ConnError(o, FALSE), FALSE)}
    \cup Either(o, ConnError(o, TRUE))

\* Replies that say nothing about the node.
Refusals(o) == {R(o, APIError(o, 404, "other"), FALSE),
                R(o, APIError(o, 429, "other"), FALSE)}

\* A produce: a proxy's 503 may have passed it on, the broker's own stored nothing.
ProduceReplies ==
    Basic("produce") \cup Either("produce", APIError("produce", 503, "other"))
    \cup {R("produce", APIError("produce", 503, "storedNothing"), FALSE)}

\* An ack: the router's 503 declined before anything could act; 500 did not.
AckReplies ==
    {R("ack", Plain("nil", "ack"), TRUE),
     R("ack", APIError("ack", 503, "other"), FALSE)}
    \cup Either("ack", APIError("ack", 500, "other"))

\* No reply that moves on: the untried lookahead never runs.
SteadyReplies == Basic("produce") \cup Refusals("produce")

MixedReplies == ProduceReplies \cup AckReplies

\* The least that opens, probes and closes a breaker.
LiveReplies == {R("produce", Plain("nil", "produce"), TRUE),
                R("produce", ConnError("produce", FALSE), FALSE)}

MovingReplies == {R("produce", Plain("nil", "produce"), TRUE),
                  R("produce", ConnError("produce", FALSE), FALSE),
                  R("produce", APIError("produce", 503, "storedNothing"), FALSE)}

=============================================================================
