------------------------------- MODULE Topics -------------------------------
(***************************************************************************)
(* Writes to one topic name by clients that race each other: CreateTopic,  *)
(* EnsureTopic, DeleteTopic and SetSchema (topics.go) over client.do's     *)
(* resends.  A reply may be lost, and a request may reach the leader after *)
(* its sender gave up on it, so a resend can meet its own change.  Nothing *)
(* is assumed of the error that is seen instead: Uncertain covers a broken *)
(* connection, 500, 502 and 503, but not a gateway's 504 or 408 for a      *)
(* request it has passed on (errors.go:221).                               *)
(*                                                                         *)
(* External: the broker, one topic at a time carried out by its leader.    *)
(* A deleted topic that is created again is another generation.            *)
(***************************************************************************)
EXTENDS FiniteSets, Naturals

CONSTANTS
    Clients,
    Attempts   \* cfg.attempts

ASSUME TopicsAssumption == Attempts \in Nat \ {0}

Ops == {"create", "ensure", "delete", "set"}

VARIABLES
    topic,     \* broker: generation under this name, 0 if there is none
    made,      \* broker: generations so far
    version,   \* broker: schema version, 0 if the topic has no schema
    taken,     \* broker: the name is taken in another letter case
    late,      \* client -> its requests still on their way
    cautious,  \* cfg.cautious
    op,        \* client -> the one call it makes
    base,      \* client -> WithSchemaBaseVersion, 0 without
    pc,        \* client -> where its call is
    tries,     \* client -> attempts that failed
    result,    \* client -> "nil" or the error of its call
    got,       \* client -> generation it was returned
    denied,    \* ghost, client -> Uncertain denied an attempt of its call
               \* that was, or may yet be, carried out
    deleted,   \* ghost, client -> generations its call removed
    wrote      \* ghost, client -> <<generation, version>> its call wrote

broker == <<topic, made, version>>
choice == <<taken, cautious, op>>
ghosts == <<deleted, wrote>>
vars == <<broker, choice, late, base, pc, tries, result, got, denied, ghosts>>

Init ==
    /\ topic \in {0, 1} /\ made = topic
    /\ version \in 0..topic
    /\ taken \in BOOLEAN /\ (taken => topic = 0)
    /\ late = [c \in Clients |-> 0]
    /\ cautious \in BOOLEAN
    /\ op \in [Clients -> Ops]
    /\ base = [c \in Clients |-> 0]
    /\ pc = [c \in Clients |-> "idle"]
    /\ tries = [c \in Clients |-> 0]
    /\ result = [c \in Clients |-> "none"]
    /\ got = [c \in Clients |-> 0]
    /\ denied = [c \in Clients |-> FALSE]
    /\ deleted = [c \in Clients |-> {}] /\ wrote = [c \in Clients |-> {}]

-----------------------------------------------------------------------------
\* The leader (external).

\* Mutant: the base version is left out of the request.
baseLeftOut(c) == 0

\* schema_base_version, which omitempty leaves out when it is 0.
baseSent(c) == base[c]

answer(c) ==
    CASE op[c] \in {"create", "ensure"} ->
            IF taken THEN "taken" ELSE IF topic # 0 THEN "exists" ELSE "nil"
      [] op[c] = "delete" -> "nil"
      [] op[c] = "set" ->
            IF topic = 0 THEN "notFound"
            ELSE IF baseSent(c) \notin {0, version} THEN "exists" ELSE "nil"

Created ==
    /\ topic' = made + 1 /\ made' = made + 1
    /\ version' \in {0, 1}
    /\ UNCHANGED ghosts

Removed(c) ==
    /\ topic' = 0
    /\ deleted' = [deleted EXCEPT ![c] = @ \cup ({topic} \ {0})]
    /\ UNCHANGED <<made, version, wrote>>

Written(c) ==
    /\ version' = version + 1
    /\ wrote' = [wrote EXCEPT ![c] = @ \cup {<<topic, version + 1>>}]
    /\ UNCHANGED <<topic, made, deleted>>

\* A request of c is carried out.
Apply(c) ==
    IF answer(c) # "nil" THEN UNCHANGED <<broker, ghosts>>
    ELSE \/ op[c] \in {"create", "ensure"} /\ Created
         \/ op[c] = "delete" /\ Removed(c)
         \/ op[c] = "set" /\ Written(c)

Straggler(c) ==
    /\ late[c] > 0
    /\ late' = [late EXCEPT ![c] = @ - 1]
    /\ Apply(c)
    /\ UNCHANGED <<choice, base, pc, tries, result, got, denied>>

-----------------------------------------------------------------------------
\* A call

Return(c, r) ==
    /\ pc' = [pc EXCEPT ![c] = "done"]
    /\ result' = [result EXCEPT ![c] = r]

\* A schema is set with or without the version the caller has read.
Begin(c) ==
    /\ pc[c] = "idle"
    /\ pc' = [pc EXCEPT ![c] = "send"]
    /\ \E b \in {0, version} :
          base' = [base EXCEPT ![c] = IF op[c] = "set" THEN b ELSE 0]
    /\ UNCHANGED <<broker, choice, late, tries, result, got, denied, ghosts>>

\* Mutant: a lookup that fails is not looked at.
LookedUpAnyway(c) ==
    /\ pc[c] = "lookup"
    /\ Return(c, "nil")
    /\ \E g \in {0, topic} : got' = [got EXCEPT ![c] = g]
    /\ UNCHANGED <<broker, choice, late, base, tries, denied, ghosts>>

\* EnsureTopic's look at what is there; should it fail, the error is the create's.
LookedUp(c) ==
    /\ pc[c] = "lookup"
    /\ \/ topic # 0 /\ Return(c, "nil") /\ got' = [got EXCEPT ![c] = topic]
       \/ Return(c, "exists") /\ UNCHANGED got
    /\ UNCHANGED <<broker, choice, late, base, tries, denied, ghosts>>

\* A reply.  Of the conflicts EnsureTopic takes ErrExists for success only.
Answered(c) ==
    /\ pc[c] = "send"
    /\ Apply(c)
    /\ got' = [got EXCEPT ![c] = IF answer(c) = "nil" THEN topic' ELSE 0]
    /\ IF op[c] = "ensure" /\ answer(c) = "exists"
       THEN pc' = [pc EXCEPT ![c] = "lookup"] /\ UNCHANGED result
       ELSE Return(c, answer(c))
    /\ UNCHANGED <<choice, late, base, tries, denied>>

\* The topic changed twice under the request (409): not carried out.
Changed(c) ==
    /\ pc[c] = "send" /\ op[c] \in {"delete", "set"}
    /\ Return(c, "changed")
    /\ UNCHANGED <<broker, choice, late, base, tries, got, denied, ghosts>>

\* Mutant: what may have been carried out is sent again all the same.
againAnyway(c, uncertain) ==
    /\ tries' = [tries EXCEPT ![c] = @ + 1]
    /\ \/ tries'[c] < Attempts /\ UNCHANGED <<pc, result>>
       \/ Return(c, "failed")

\* Mutant: one attempt too many.
againOnceMore(c, uncertain) ==
    /\ tries' = [tries EXCEPT ![c] = @ + 1]
    /\ \/ tries[c] < Attempts /\ ~(cautious /\ uncertain) /\ UNCHANGED <<pc, result>>
       \/ Return(c, "failed")

\* client.do after an attempt without an answer, which the end of the context
\* may always turn into its last.
again(c, uncertain) ==
    /\ tries' = [tries EXCEPT ![c] = @ + 1]
    /\ \/ tries'[c] < Attempts /\ ~(cautious /\ uncertain) /\ UNCHANGED <<pc, result>>
       \/ Return(c, "failed")

\* After one that was, or may yet be, carried out, with any error.
againInDoubt(c) == \E uncertain \in BOOLEAN :
    /\ again(c, uncertain)
    /\ denied' = [denied EXCEPT ![c] = @ \/ ~uncertain]

\* Carried out, and the reply lost.
ReplyLost(c) ==
    /\ pc[c] = "send"
    /\ Apply(c)
    /\ againInDoubt(c)
    /\ UNCHANGED <<choice, late, base, got>>

\* Given up on, and still on its way.
Astray(c) ==
    /\ pc[c] = "send"
    /\ late' = [late EXCEPT ![c] = @ + 1]
    /\ againInDoubt(c)
    /\ UNCHANGED <<broker, choice, base, got, ghosts>>

\* Never arrived.
NotSent(c) ==
    /\ pc[c] = "send"
    /\ \E uncertain \in BOOLEAN : again(c, uncertain)
    /\ UNCHANGED <<broker, choice, late, base, got, denied, ghosts>>

Next == \E c \in Clients :
    \/ Begin(c) \/ Answered(c) \/ Changed(c) \/ LookedUp(c)
    \/ ReplyLost(c) \/ Astray(c) \/ NotSent(c) \/ Straggler(c)

Spec == Init /\ [][Next]_vars

-----------------------------------------------------------------------------
\* Properties

TypeOK ==
    /\ topic \in Nat /\ made \in Nat /\ version \in Nat
    /\ topic <= made
    /\ taken \in BOOLEAN /\ cautious \in BOOLEAN
    /\ late \in [Clients -> Nat]
    /\ op \in [Clients -> Ops]
    /\ base \in [Clients -> Nat]
    /\ pc \in [Clients -> {"idle", "send", "lookup", "done"}]
    /\ tries \in [Clients -> 0..Attempts]
    /\ result \in [Clients -> {"none", "nil", "exists", "taken", "notFound", "changed", "failed"}]
    /\ got \in [Clients -> Nat]
    /\ denied \in [Clients -> BOOLEAN]
    /\ deleted \in [Clients -> SUBSET Nat]
    /\ wrote \in [Clients -> SUBSET (Nat \X Nat)]

\* Replicas that race each other to create a topic nobody deletes all get the
\* one that is there, their own or another's (EnsureTopic's doc, topics.go:348).
EnsuresAgree ==
    (\A c \in Clients : op[c] # "delete") =>
        \A c \in Clients : op[c] = "ensure" /\ result[c] = "nil" => got[c] = topic /\ topic # 0

\* With cautious retries one DeleteTopic removes one topic, never also the one
\* that somebody has created again since, unless Uncertain has denied an attempt
\* that was carried out: do resends a delete after a gateway's 504, and the
\* resend removes the new topic (client.go:251, DeleteTopic, errors.go:231).
DeletesOne ==
    cautious => \A c \in Clients : denied[c] \/ Cardinality(deleted[c]) <= 1

\* However often it is sent, and whatever Uncertain says, a schema change that
\* names its base version is made once to a topic: a resend that meets its own
\* change, or another's, changes nothing (WithSchemaBaseVersion, topics.go:219).
\* A topic deleted and created again is another one, to which the change can be
\* made once more; a base version of 0 is never sent, and not covered.
ConditionalOnce ==
    \A c \in Clients : base[c] # 0 =>
        \A v, w \in wrote[c] : v[1] = w[1] => v = w

=============================================================================
