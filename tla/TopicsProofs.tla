---------------------------- MODULE TopicsProofs ----------------------------
(***************************************************************************)
(* Theorems about Topics, for any number of clients and of attempts.       *)
(***************************************************************************)
EXTENDS Topics, FiniteSetTheorems, TLAPS

Results == {"none", "nil", "exists", "taken", "notFound", "changed", "failed"}

\* TypeOK, and what a call has done before it begins and before it ends.
Fresh == \A c \in Clients :
    /\ pc[c] = "idle" => late[c] = 0 /\ wrote[c] = {} /\ base[c] = 0 /\ tries[c] = 0
    /\ pc[c] = "send" => tries[c] < Attempts
    /\ pc[c] = "lookup" => op[c] = "ensure"
    /\ result[c] = "none" <=> pc[c] # "done"

\* With cautious retries a request that may be carried out is the last, as long
\* as Uncertain has said so of each.
LastDelete == cautious => \A c \in Clients : op[c] = "delete" /\ ~denied[c] =>
    \/ deleted[c] = {} /\ late[c] = 0
    \/ deleted[c] = {} /\ late[c] = 1 /\ pc[c] = "done"
    \/ (\E g \in Nat : deleted[c] = {g}) /\ late[c] = 0 /\ pc[c] = "done"

OnlyDeletes == \A c \in Clients : op[c] # "delete" => deleted[c] = {}

\* A conditional change writes the version after its base, or none.
NextVersion == \A c \in Clients : base[c] # 0 =>
    \A v \in wrote[c] : v = <<v[1], base[c] + 1>>

Inv == TypeOK /\ Fresh /\ LastDelete /\ OnlyDeletes /\ NextVersion /\ EnsuresAgree

-----------------------------------------------------------------------------

LEMMA InitInv == Init => Inv
<1> SUFFICES ASSUME Init PROVE Inv
    OBVIOUS
<1> USE TopicsAssumption DEF Init
<1>1. topic \in Nat /\ made \in Nat /\ version \in Nat /\ topic <= made
    OBVIOUS
<1>2. TypeOK
    BY <1>1 DEF TypeOK
<1>3. Fresh /\ LastDelete /\ OnlyDeletes /\ NextVersion /\ EnsuresAgree
    BY DEF Fresh, LastDelete, OnlyDeletes, NextVersion, EnsuresAgree
<1> QED BY <1>2, <1>3 DEF Inv

\* What carrying out a request does to the broker and the ghosts.
LEMMA Applied ==
    ASSUME TypeOK, NEW c \in Clients, Apply(c)
    PROVE  /\ topic' \in Nat /\ made' \in Nat /\ version' \in Nat /\ topic' <= made'
           /\ op[c] # "delete" /\ topic # 0 => topic' = topic
           /\ answer(c) = "nil" /\ op[c] \in {"create", "ensure"} => topic' # 0
           /\ \/ UNCHANGED deleted
              \/ /\ op[c] = "delete"
                 /\ deleted' = [deleted EXCEPT ![c] = @ \cup ({topic} \ {0})]
           /\ \/ UNCHANGED wrote
              \/ /\ base[c] # 0 => version = base[c]
                 /\ wrote' = [wrote EXCEPT ![c] = @ \cup {<<topic, version + 1>>}]
<1> USE DEF TypeOK
<1>1. CASE answer(c) # "nil"
    BY <1>1 DEF Apply, broker, ghosts
<1>2. CASE answer(c) = "nil" /\ op[c] \in {"create", "ensure"} /\ Created
    <2>1. topic = 0
        BY <1>2 DEF answer
    <2> QED BY <1>2, <2>1 DEF Created, ghosts
<1>3. CASE answer(c) = "nil" /\ op[c] = "delete" /\ Removed(c)
    BY <1>3 DEF Removed
<1>4. CASE answer(c) = "nil" /\ op[c] = "set" /\ Written(c)
    <2>1. base[c] # 0 => version = base[c]
        BY <1>4 DEF answer, baseSent
    <2> QED BY <1>4, <2>1 DEF Written
<1> QED BY <1>1, <1>2, <1>3, <1>4 DEF Apply

\* A request is carried out on time, late or with its reply lost: what that
\* leaves of the invariant, whatever becomes of the call.
LEMMA AppliedInv ==
    ASSUME Inv, NEW c \in Clients, Apply(c), pc[c] # "idle",
           UNCHANGED <<choice, base>>,
           late' \in [Clients -> Nat], pc'[c] # "idle",
           \A d \in Clients \ {c} : late'[d] = late[d] /\ pc'[d] = pc[d],
           denied' \in [Clients -> BOOLEAN],
           \A d \in Clients \ {c} : denied'[d] = denied[d],
           cautious /\ op[c] = "delete" /\ ~denied'[c] =>
               late'[c] = 0 /\ pc'[c] = "done" /\ deleted[c] = {}
    PROVE  /\ deleted' \in [Clients -> SUBSET Nat] /\ wrote' \in [Clients -> SUBSET (Nat \X Nat)]
           /\ LastDelete' /\ OnlyDeletes' /\ NextVersion'
           /\ \A d \in Clients \ {c} : wrote'[d] = wrote[d]
<1> USE DEF Inv, choice
<1>1. TypeOK
    OBVIOUS
<1>2. /\ \/ UNCHANGED deleted
         \/ /\ op[c] = "delete"
            /\ deleted' = [deleted EXCEPT ![c] = @ \cup ({topic} \ {0})]
      /\ \/ UNCHANGED wrote
         \/ /\ base[c] # 0 => version = base[c]
            /\ wrote' = [wrote EXCEPT ![c] = @ \cup {<<topic, version + 1>>}]
    BY <1>1, Applied
<1>3. deleted' \in [Clients -> SUBSET Nat] /\ wrote' \in [Clients -> SUBSET (Nat \X Nat)]
    <2>1. topic \in Nat /\ version + 1 \in Nat
        BY DEF TypeOK
    <2>2. deleted' \in [Clients -> SUBSET Nat]
        BY <1>2, <2>1 DEF TypeOK
    <2>3. wrote' \in [Clients -> SUBSET (Nat \X Nat)]
        BY <1>2, <2>1 DEF TypeOK
    <2> QED BY <2>2, <2>3
<1>4. \A d \in Clients \ {c} : wrote'[d] = wrote[d] /\ deleted'[d] = deleted[d]
    BY <1>2 DEF TypeOK
<1>5. NextVersion'
    BY <1>2 DEF NextVersion, TypeOK
<1>6. LastDelete'
    <2> SUFFICES ASSUME cautious, op[c] = "delete", ~denied'[c] PROVE LastDelete'
        BY <1>2, <1>4 DEF LastDelete
    <2>1. deleted'[c] = {} \/ \E g \in Nat : deleted'[c] = {g}
        BY <1>2 DEF TypeOK
    <2> QED BY <1>4, <2>1 DEF LastDelete
<1>7. OnlyDeletes'
    BY <1>2, <1>4 DEF OnlyDeletes
<1> QED BY <1>3, <1>4, <1>5, <1>6, <1>7

\* A straggler.
LEMMA StragglerInv == ASSUME Inv, NEW c \in Clients, Straggler(c) PROVE Inv'
<1> USE DEF Inv
<1>1. /\ late[c] > 0 /\ late' = [late EXCEPT ![c] = @ - 1] /\ Apply(c)
      /\ UNCHANGED <<taken, cautious, op, base, pc, tries, result, got, denied>>
    BY DEF Straggler, choice
<1>2. late' \in [Clients -> Nat] /\ \A d \in Clients \ {c} : late'[d] = late[d]
    BY <1>1 DEF TypeOK
<1>3. pc[c] # "idle"
    BY <1>1 DEF Fresh, TypeOK
<1>4. cautious /\ op[c] = "delete" /\ ~denied[c]
        => late[c] = 1 /\ pc[c] = "done" /\ deleted[c] = {}
    BY <1>1 DEF LastDelete, TypeOK
<1>5. /\ cautious /\ op[c] = "delete" /\ ~denied'[c]
            => late'[c] = 0 /\ pc'[c] = "done" /\ deleted[c] = {}
      /\ denied' = denied /\ denied \in [Clients -> BOOLEAN]
    BY <1>1, <1>4 DEF TypeOK
<1>6. /\ deleted' \in [Clients -> SUBSET Nat] /\ wrote' \in [Clients -> SUBSET (Nat \X Nat)]
      /\ LastDelete' /\ OnlyDeletes' /\ NextVersion'
      /\ \A d \in Clients \ {c} : wrote'[d] = wrote[d]
    BY <1>1, <1>2, <1>3, <1>5, AppliedInv DEF choice
<1>7. /\ topic' \in Nat /\ made' \in Nat /\ version' \in Nat /\ topic' <= made'
      /\ op[c] # "delete" /\ topic # 0 => topic' = topic
    BY <1>1, Applied
<1>8. TypeOK'
    BY <1>1, <1>2, <1>6, <1>7 DEF TypeOK
<1>9. Fresh'
    BY <1>1, <1>2, <1>3, <1>6 DEF Fresh
<1>10. EnsuresAgree'
    BY <1>1, <1>7 DEF EnsuresAgree
<1> QED BY <1>6, <1>8, <1>9, <1>10

\* An attempt that fails leaves the call trying or failed.
LEMMA Again ==
    ASSUME Inv, NEW c \in Clients, pc[c] = "send", NEW u \in BOOLEAN, again(c, u)
    PROVE  /\ tries' \in [Clients -> 0..Attempts]
           /\ \A d \in Clients \ {c} : tries'[d] = tries[d] /\ pc'[d] = pc[d] /\ result'[d] = result[d]
           /\ \/ pc'[c] = "send" /\ tries'[c] < Attempts /\ result'[c] = result[c] /\ ~(cautious /\ u)
              \/ pc'[c] = "done" /\ result'[c] = "failed"
           /\ pc' \in [Clients -> {"idle", "send", "lookup", "done"}]
           /\ result' \in [Clients -> Results]
<1>1. Attempts \in Nat /\ tries[c] < Attempts
    BY TopicsAssumption DEF Inv, Fresh
<1>2. tries' = [tries EXCEPT ![c] = @ + 1] /\ tries' \in [Clients -> 0..Attempts]
    BY <1>1 DEF again, Inv, TypeOK
<1>3. CASE tries'[c] < Attempts /\ ~(cautious /\ u) /\ UNCHANGED <<pc, result>>
    BY <1>2, <1>3 DEF Inv, TypeOK, Results
<1>4. CASE Return(c, "failed")
    <2>1. /\ pc' = [pc EXCEPT ![c] = "done"] /\ result' = [result EXCEPT ![c] = "failed"]
        BY <1>4 DEF Return
    <2>2. /\ pc' \in [Clients -> {"idle", "send", "lookup", "done"}]
          /\ result' \in [Clients -> Results]
        BY <2>1 DEF Inv, TypeOK, Results
    <2> QED BY <1>2, <2>1, <2>2 DEF Inv, TypeOK
<1> QED BY <1>3, <1>4 DEF again

\* And what became of it, if it may have been carried out, is denied or the last.
LEMMA AgainInDoubt ==
    ASSUME Inv, NEW c \in Clients, pc[c] = "send", againInDoubt(c)
    PROVE  /\ tries' \in [Clients -> 0..Attempts]
           /\ \A d \in Clients \ {c} : tries'[d] = tries[d] /\ pc'[d] = pc[d] /\ result'[d] = result[d]
           /\ \/ pc'[c] = "send" /\ tries'[c] < Attempts /\ result'[c] = result[c]
                 /\ (cautious => denied'[c])
              \/ pc'[c] = "done" /\ result'[c] = "failed"
           /\ pc' \in [Clients -> {"idle", "send", "lookup", "done"}]
           /\ result' \in [Clients -> Results]
           /\ denied' \in [Clients -> BOOLEAN]
           /\ \A d \in Clients : denied[d] => denied'[d]
           /\ \A d \in Clients \ {c} : denied'[d] = denied[d]
<1>1. PICK u \in BOOLEAN :
        again(c, u) /\ denied' = [denied EXCEPT ![c] = denied[c] \/ ~u]
    BY DEF againInDoubt
<1>2. denied \in [Clients -> BOOLEAN]
    BY DEF Inv, TypeOK
<1>3. /\ denied' \in [Clients -> BOOLEAN]
      /\ denied'[c] = (denied[c] \/ ~u)
      /\ \A d \in Clients \ {c} : denied'[d] = denied[d]
    BY <1>1, <1>2
<1>4. (\A d \in Clients : denied[d] => denied'[d]) /\ (~u => denied'[c])
    BY <1>3
<1> QED BY <1>1, <1>3, <1>4, Again

LEMMA ReplyLostInv == ASSUME Inv, NEW c \in Clients, ReplyLost(c) PROVE Inv'
<1> USE DEF Inv
<1>1. /\ pc[c] = "send" /\ Apply(c) /\ againInDoubt(c)
      /\ UNCHANGED <<taken, cautious, op, late, base, got>>
    BY DEF ReplyLost, choice
<1>2. /\ tries' \in [Clients -> 0..Attempts]
      /\ \A d \in Clients \ {c} : tries'[d] = tries[d] /\ pc'[d] = pc[d] /\ result'[d] = result[d]
      /\ \/ pc'[c] = "send" /\ tries'[c] < Attempts /\ result'[c] = result[c]
            /\ (cautious => denied'[c])
         \/ pc'[c] = "done" /\ result'[c] = "failed"
      /\ pc' \in [Clients -> {"idle", "send", "lookup", "done"}]
      /\ result' \in [Clients -> Results]
      /\ denied' \in [Clients -> BOOLEAN]
      /\ \A d \in Clients : denied[d] => denied'[d]
      /\ \A d \in Clients \ {c} : denied'[d] = denied[d]
    BY <1>1, AgainInDoubt
<1>3. cautious /\ op[c] = "delete" /\ ~denied'[c] => late'[c] = 0 /\ pc'[c] = "done" /\ deleted[c] = {}
    BY <1>1, <1>2 DEF LastDelete
<1>4. /\ deleted' \in [Clients -> SUBSET Nat] /\ wrote' \in [Clients -> SUBSET (Nat \X Nat)]
      /\ LastDelete' /\ OnlyDeletes' /\ NextVersion'
      /\ \A d \in Clients \ {c} : wrote'[d] = wrote[d]
    <2>1. late' \in [Clients -> Nat] /\ pc'[c] # "idle" /\ pc[c] # "idle"
        BY <1>1, <1>2 DEF TypeOK
    <2> QED BY <1>1, <1>2, <1>3, <2>1, AppliedInv DEF choice
<1>5. /\ topic' \in Nat /\ made' \in Nat /\ version' \in Nat /\ topic' <= made'
      /\ op[c] # "delete" /\ topic # 0 => topic' = topic
    BY <1>1, Applied
<1>6. TypeOK'
    BY <1>1, <1>2, <1>4, <1>5 DEF TypeOK, Results
<1>7. Fresh'
    BY <1>1, <1>2, <1>4 DEF Fresh
<1>8. EnsuresAgree'
    BY <1>1, <1>2, <1>5 DEF EnsuresAgree, Fresh
<1> QED BY <1>4, <1>6, <1>7, <1>8

LEMMA AnsweredInv == ASSUME Inv, NEW c \in Clients, Answered(c) PROVE Inv'
<1> USE DEF Inv
<1>1. /\ pc[c] = "send" /\ Apply(c)
      /\ got' = [got EXCEPT ![c] = IF answer(c) = "nil" THEN topic' ELSE 0]
      /\ UNCHANGED <<taken, cautious, op, late, base, tries, denied>>
    BY DEF Answered, choice
<1>2. /\ \A d \in Clients \ {c} : pc'[d] = pc[d] /\ result'[d] = result[d]
      /\ \/ pc'[c] = "lookup" /\ op[c] = "ensure" /\ result'[c] = result[c]
         \/ pc'[c] = "done" /\ result'[c] = answer(c)
      /\ pc' \in [Clients -> {"idle", "send", "lookup", "done"}]
      /\ result' \in [Clients -> Results]
    <2>1. answer(c) \in Results \ {"none"}
        BY DEF answer, Results, TypeOK, Ops
    <2>2. CASE pc' = [pc EXCEPT ![c] = "lookup"] /\ op[c] = "ensure" /\ UNCHANGED result
        BY <2>2 DEF TypeOK, Results
    <2>3. CASE Return(c, answer(c))
        BY <2>1, <2>3 DEF Return, TypeOK, Results
    <2> QED BY <2>2, <2>3 DEF Answered
<1>3. /\ topic' \in Nat /\ made' \in Nat /\ version' \in Nat /\ topic' <= made'
      /\ op[c] # "delete" /\ topic # 0 => topic' = topic
      /\ answer(c) = "nil" /\ op[c] \in {"create", "ensure"} => topic' # 0
    BY <1>1, Applied
<1>4. /\ cautious /\ op[c] = "delete" /\ ~denied'[c]
            => late'[c] = 0 /\ pc'[c] = "done" /\ deleted[c] = {}
      /\ denied' = denied /\ denied \in [Clients -> BOOLEAN]
    BY <1>1, <1>2 DEF LastDelete, TypeOK
<1>5. /\ deleted' \in [Clients -> SUBSET Nat] /\ wrote' \in [Clients -> SUBSET (Nat \X Nat)]
      /\ LastDelete' /\ OnlyDeletes' /\ NextVersion'
      /\ \A d \in Clients \ {c} : wrote'[d] = wrote[d]
    <2>1. late' \in [Clients -> Nat] /\ pc'[c] # "idle" /\ pc[c] # "idle"
        BY <1>1, <1>2 DEF TypeOK
    <2> QED BY <1>1, <1>2, <1>4, <2>1, AppliedInv DEF choice
<1>6. got' \in [Clients -> Nat] /\ \A d \in Clients \ {c} : got'[d] = got[d]
    BY <1>1, <1>3 DEF TypeOK
<1>7. TypeOK'
    BY <1>1, <1>2, <1>3, <1>5, <1>6 DEF TypeOK, Results
<1>8. Fresh'
    <2>1. answer(c) # "none"
        BY DEF answer, TypeOK, Ops
    <2> QED BY <1>1, <1>2, <1>5, <2>1 DEF Fresh
<1>9. EnsuresAgree'
    <2> SUFFICES ASSUME \A d \in Clients : op[d] # "delete",
                        NEW d \in Clients, op[d] = "ensure", result'[d] = "nil"
                 PROVE  got'[d] = topic' /\ topic' # 0
        BY <1>1 DEF EnsuresAgree
    <2>1. CASE d = c
        <3>1. answer(c) = "nil"
            BY <1>1, <1>2, <2>1 DEF Fresh
        <3> QED BY <1>1, <1>3, <2>1, <3>1 DEF TypeOK
    <2>2. CASE d # c
        BY <1>2, <1>3, <1>6, <2>2 DEF EnsuresAgree
    <2> QED BY <2>1, <2>2
<1> QED BY <1>5, <1>7, <1>8, <1>9

\* The steps that reach no broker, or only ask it.
LEMMA QuietInv ==
    ASSUME Inv, NEW c \in Clients,
           Begin(c) \/ Changed(c) \/ LookedUp(c) \/ Astray(c) \/ NotSent(c)
    PROVE  Inv'
<1> USE DEF Inv
<1>1. UNCHANGED <<topic, made, version, taken, cautious, op, deleted, wrote>>
    BY DEF Begin, Changed, LookedUp, Astray, NotSent, broker, choice, ghosts
<1>2. CASE Begin(c)
    <2>1. /\ pc[c] = "idle" /\ pc' = [pc EXCEPT ![c] = "send"]
          /\ \E b \in {0, version} :
                base' = [base EXCEPT ![c] = IF op[c] = "set" THEN b ELSE 0]
          /\ UNCHANGED <<late, tries, result, got, denied>>
        BY <1>2 DEF Begin
    <2>2. TypeOK'
        BY <1>1, <2>1 DEF TypeOK
    <2>3. Fresh'
        BY <1>1, <2>1, TopicsAssumption DEF Fresh, TypeOK
    <2>4. LastDelete' /\ OnlyDeletes' /\ EnsuresAgree'
        BY <1>1, <2>1 DEF LastDelete, OnlyDeletes, EnsuresAgree, Fresh, TypeOK
    <2>5. NextVersion'
        BY <1>1, <2>1 DEF NextVersion, Fresh, TypeOK
    <2> QED BY <2>2, <2>3, <2>4, <2>5
<1>3. CASE Changed(c) \/ LookedUp(c)
    <2>1. /\ pc[c] \in {"send", "lookup"} /\ UNCHANGED <<late, base, tries, denied>>
          /\ pc' = [pc EXCEPT ![c] = "done"]
          /\ \/ result' = [result EXCEPT ![c] = "nil"] /\ topic # 0
                /\ got' = [got EXCEPT ![c] = topic]
             \/ \E r \in {"exists", "changed"} : result' = [result EXCEPT ![c] = r] /\ got' = got
        BY <1>3 DEF Changed, LookedUp, Return
    <2>2. TypeOK'
        BY <1>1, <2>1 DEF TypeOK
    <2>3. Fresh'
        BY <1>1, <2>1 DEF Fresh, TypeOK
    <2>4. LastDelete'
        BY <1>1, <2>1 DEF LastDelete, TypeOK
    <2>5. OnlyDeletes' /\ NextVersion' /\ EnsuresAgree'
        BY <1>1, <2>1 DEF OnlyDeletes, NextVersion, EnsuresAgree, TypeOK
    <2> QED BY <2>2, <2>3, <2>4, <2>5
<1>4. CASE Astray(c) \/ NotSent(c)
    <2>1. /\ pc[c] = "send" /\ UNCHANGED <<base, got>>
          /\ \/ late' = late
             \/ late' = [late EXCEPT ![c] = @ + 1]
                /\ (pc'[c] = "done" \/ (cautious => denied'[c]))
          /\ tries' \in [Clients -> 0..Attempts]
          /\ \A d \in Clients \ {c} : tries'[d] = tries[d] /\ pc'[d] = pc[d] /\ result'[d] = result[d]
          /\ \/ pc'[c] = "send" /\ tries'[c] < Attempts /\ result'[c] = result[c]
             \/ pc'[c] = "done" /\ result'[c] = "failed"
          /\ pc' \in [Clients -> {"idle", "send", "lookup", "done"}]
          /\ result' \in [Clients -> Results]
          /\ denied' \in [Clients -> BOOLEAN]
          /\ \A d \in Clients : denied[d] => denied'[d]
          /\ \A d \in Clients \ {c} : denied'[d] = denied[d]
        <3>1. CASE Astray(c)
            BY <3>1, AgainInDoubt DEF Astray
        <3>2. CASE NotSent(c)
            BY <3>2, Again DEF NotSent, TypeOK
        <3> QED BY <1>4, <3>1, <3>2
    <2>2. late' \in [Clients -> Nat] /\ \A d \in Clients \ {c} : late'[d] = late[d]
        BY <2>1 DEF TypeOK
    <2>3. TypeOK'
        BY <1>1, <2>1, <2>2 DEF TypeOK, Results
    <2>4. Fresh'
        BY <1>1, <2>1, <2>2 DEF Fresh
    <2>5. LastDelete'
        BY <1>1, <2>1, <2>2 DEF LastDelete, TypeOK
    <2>6. OnlyDeletes' /\ NextVersion' /\ EnsuresAgree'
        BY <1>1, <2>1 DEF OnlyDeletes, NextVersion, EnsuresAgree, Fresh
    <2> QED BY <2>3, <2>4, <2>5, <2>6
<1> QED BY <1>2, <1>3, <1>4

LEMMA StepInv == ASSUME Inv, [Next]_vars PROVE Inv'
<1>1. CASE UNCHANGED vars
    BY <1>1 DEF Inv, vars, broker, choice, ghosts, TypeOK, Fresh, LastDelete, OnlyDeletes,
                NextVersion, EnsuresAgree
<1>2. CASE Next
    BY <1>2, StragglerInv, ReplyLostInv, AnsweredInv, QuietInv DEF Next
<1> QED BY <1>1, <1>2

LEMMA InvHolds == Spec => []Inv
BY InitInv, StepInv, PTL DEF Spec

\* The type invariant, for any number of clients and attempts.
THEOREM TypeCorrect == Spec => []TypeOK
BY InvHolds, PTL DEF Inv

\* Replicas that race to create a topic agree on the one there is (topics.go,
\* EnsureTopic).
THEOREM EnsureAgrees == Spec => []EnsuresAgree
BY InvHolds, PTL DEF Inv

\* With cautious retries a DeleteTopic removes at most one topic, unless
\* Uncertain denied an attempt of it that was carried out, or yet may be
\* (client.go, do; topics.go, DeleteTopic; errors.go, Uncertain).
THEOREM DeleteIsOne == Spec => []DeletesOne
<1>1. Inv => DeletesOne
    <2> SUFFICES ASSUME Inv, cautious, NEW c \in Clients, ~denied[c]
                 PROVE  Cardinality(deleted[c]) <= 1
        BY DEF DeletesOne
    <2>1. deleted[c] = {} \/ \E g \in Nat : deleted[c] = {g}
        BY DEF Inv, LastDelete, OnlyDeletes
    <2>2. CASE deleted[c] = {}
        <3>1. Cardinality({}) = 0
            BY FS_EmptySet
        <3> QED BY <2>2, <3>1
    <2>3. CASE \E g \in Nat : deleted[c] = {g}
        <3>1. PICK g \in Nat : deleted[c] = {g}
            BY <2>3
        <3>2. Cardinality({g}) = 1
            BY FS_Singleton
        <3> QED BY <3>1, <3>2
    <2> QED BY <2>1, <2>2, <2>3
<1> QED BY <1>1, InvHolds, PTL

\* A schema change that names its base is made at most once to a topic
\* (topics.go, SetSchema).
THEOREM ConditionalIsOnce == Spec => []ConditionalOnce
<1>1. Inv => ConditionalOnce
    <2> SUFFICES ASSUME Inv, NEW c \in Clients, base[c] # 0,
                        NEW v \in wrote[c], NEW w \in wrote[c], v[1] = w[1]
                 PROVE  v = w
        BY DEF ConditionalOnce
    <2> QED BY DEF Inv, NextVersion
<1> QED BY <1>1, InvHolds, PTL

=============================================================================
