-------------------------- MODULE ApiClient_proofs --------------------------
(***************************************************************************)
(* What the client promises of its writes, proved for any number of        *)
(* commands and attempts and any number of writes still on their way.      *)
(*                                                                         *)
(* NoDuplicate is not inductive: it says nothing of the writes that have   *)
(* yet to arrive.  The invariant does, one command at a time: a create or  *)
(* patch that was carried out, or may be any moment, is one its command    *)
(* will not send again (Once), for Retry and ReRead pass by the answers    *)
(* after which that is possible.                                           *)
(***************************************************************************)
EXTENDS ApiClient, TLAPS

\* The command sends nothing more.
Spent(c) ==
    \/ pc[c] = "over"
    \/ pc[c] = "deciding" /\ phase[c] = "write" /\ answer[c] \in {"ok", "fault", "dropped"}

OnItsWay(c) == \E r \in late : r[1] = c

\* What was, or may yet be, carried out for a request that is no PUT: one write.
Once(c) ==
    kind[c] \in {"create", "patch"} =>
        /\ writes[c] <= 1
        /\ writes[c] = 1 => Spent(c) /\ ~OnItsWay(c)
        /\ OnItsWay(c) => Spent(c)
        /\ \A r, s \in late : r[1] = c /\ s[1] = c => r = s

\* What the answer at hand, and then the outcome, says of the write.
Informed(c) ==
    /\ outcome[c] # "none" => pc[c] = "over"
    /\ pc[c] = "deciding" /\ phase[c] = "write" /\ answer[c] = "ok" => writes[c] >= 1
    /\ answer[c] = "conflict" => pc[c] = "deciding" /\ phase[c] = "write"
    /\ outcome[c] = "done" => writes[c] >= 1
    /\ outcome[c] = "conflict" /\ kind[c] = "patch" => writes[c] = 0 /\ ~OnItsWay(c)

\* How many requests the present Do may send.
Allowed(c) == MaxAttempts + (IF refreshed[c] THEN 1 ELSE 0)

\* A request about to be sent is one of those, and one sent was.
WithinAttempts(c) ==
    /\ sent[c] <= Allowed(c)
    /\ pc[c] \in {"ready", "sending", "renewing"} => sent[c] < Allowed(c)

Sound(c) == Once(c) /\ Informed(c) /\ WithinAttempts(c)

IInv == TypeOK /\ \A c \in Commands : Sound(c)

----------------------------------------------------------------------------
LEMMA Initially == Init => IInv
<1> SUFFICES ASSUME Init PROVE IInv
  OBVIOUS
<1>1. TypeOK
  BY ClientAssumption DEF Init, TypeOK, First, Answers, Outcomes
<1>2. ASSUME NEW c \in Commands PROVE Sound(c)
  BY ClientAssumption DEF Init, Sound, Once, Informed, WithinAttempts, Allowed, OnItsWay
<1> QED BY <1>1, <1>2 DEF IInv

----------------------------------------------------------------------------
(* A command's step concerns that command alone. *)

\* Nothing that is known of command d changes.
Untouched(d) ==
    /\ UNCHANGED <<kind[d], pc[d], phase[d], sent[d], refreshed[d], answer[d], outcome[d], writes[d]>>
    /\ \A r \in late \union late' : r[1] = d => r \in late /\ r \in late'

LEMMA UntouchedIsSound ==
    ASSUME NEW d \in Commands, Sound(d), Untouched(d)
    PROVE  Sound(d)'
<1>1. OnItsWay(d)' <=> OnItsWay(d)
  BY DEF Untouched, OnItsWay
<1>2. Spent(d)' <=> Spent(d)
  BY DEF Untouched, Spent
<1>3. Once(d)'
  BY <1>1, <1>2 DEF Sound, Once, Untouched
<1>4. Informed(d)'
  BY <1>1 DEF Sound, Informed, Untouched
<1>5. WithinAttempts(d)'
  BY DEF Sound, WithinAttempts, Allowed, Untouched
<1> QED BY <1>3, <1>4, <1>5 DEF Sound

----------------------------------------------------------------------------
(* The steps *)

\* What Answer does to c, whichever of the tenant's steps it is part of.
AnswerTo(c, a) ==
    /\ pc[c] = "sending" /\ pc'[c] = "deciding" /\ answer'[c] = a
    /\ sent'[c] = sent[c] + 1 /\ sent[c] < Allowed(c)
    /\ UNCHANGED <<kind, phase, refreshed, retried, outcome>>
    /\ outcome[c] = "none" /\ ~Spent(c)
    /\ \A d \in Commands \ {c} : UNCHANGED <<pc[d], answer[d], sent[d]>>
    /\ pc' \in [Commands -> {"ready", "sending", "deciding", "renewing", "over"}]
    /\ answer' \in [Commands -> Answers]
    /\ sent' \in [Commands -> 0 .. MaxAttempts + 1]

LEMMA AnswerMoves ==
    ASSUME IInv, NEW c \in Commands, NEW a \in Answers, Answer(c, a)
    PROVE  AnswerTo(c, a)
<1>1. /\ pc[c] = "sending" /\ pc' = [pc EXCEPT ![c] = "deciding"]
      /\ answer' = [answer EXCEPT ![c] = a] /\ sent' = [sent EXCEPT ![c] = @ + 1]
      /\ UNCHANGED <<kind, phase, refreshed, retried, outcome>>
  BY DEF Answer, Goes
<1>2. Sound(c) /\ TypeOK
  BY DEF IInv
<1>3. sent[c] < Allowed(c) /\ outcome[c] = "none"
  BY <1>1, <1>2 DEF Sound, WithinAttempts, Informed
<1>4. Allowed(c) <= MaxAttempts + 1 /\ Allowed(c) \in Nat
  BY ClientAssumption DEF Allowed
<1>5. sent[c] + 1 \in 0 .. MaxAttempts + 1
  BY <1>2, <1>3, <1>4, ClientAssumption DEF TypeOK
<1> QED BY <1>1, <1>2, <1>3, <1>5 DEF TypeOK, Spent, AnswerTo

LEMMA CountedAnswer ==
    ASSUME IInv, NEW c \in Commands, NEW a \in Answers, AnswerTo(c, a)
    PROVE  WithinAttempts(c)'
<1>1. Allowed(c)' = Allowed(c) /\ Allowed(c) \in Nat
  BY ClientAssumption DEF Allowed, AnswerTo
<1>2. sent[c] \in Nat
  BY DEF IInv, TypeOK
<1> QED BY <1>1, <1>2 DEF WithinAttempts, AnswerTo

\* An answer that goes with no write.
LEMMA QuietAnswer ==
    ASSUME IInv, NEW c \in Commands, NEW a \in Answers, Answer(c, a),
           UNCHANGED tenant, version' \in [Commands -> Nat],
           phase[c] = "write" => a # "ok",
           a = "conflict" => phase[c] = "write" /\ kind[c] # "create"
    PROVE  IInv'
<1>0. TypeOK /\ Sound(c) /\ \A d \in Commands : Sound(d)
  BY DEF IInv
<1>1. AnswerTo(c, a)
  BY AnswerMoves
<1>2. TypeOK'
  BY <1>0, <1>1 DEF TypeOK, tenant, AnswerTo
<1>3. WithinAttempts(c)'
  BY <1>1, CountedAnswer
<1>4. OnItsWay(c)' <=> OnItsWay(c)
  BY DEF OnItsWay, tenant
<1>5. Once(c)'
  BY <1>0, <1>1, <1>4 DEF Sound, Once, tenant, AnswerTo
<1>6. Informed(c)'
  BY <1>1 DEF Informed, AnswerTo
<1>7. \A d \in Commands \ {c} : Untouched(d)
  BY <1>1 DEF Untouched, tenant, AnswerTo
<1> QED BY <1>0, <1>2, <1>3, <1>5, <1>6, <1>7, UntouchedIsSound DEF IInv, Sound

LEMMA WriteStep ==
    ASSUME IInv, NEW c \in Commands, NEW a \in {"ok", "fault", "dropped"}, Answer(c, a),
           phase[c] = "write", CarryOut(c), UNCHANGED <<version, late>>
    PROVE  IInv'
<1>0. TypeOK /\ Sound(c) /\ \A d \in Commands : Sound(d)
  BY DEF IInv
<1>1. AnswerTo(c, a)
  BY AnswerMoves DEF Answers
<1>2. writes' = [writes EXCEPT ![c] = @ + 1] /\ current' \in Nat
  BY <1>0 DEF CarryOut, TypeOK
<1>3. writes[c] \in Nat /\ writes'[c] = writes[c] + 1
  BY <1>0, <1>2 DEF TypeOK
<1>4. TypeOK'
  BY <1>0, <1>1, <1>2 DEF TypeOK, AnswerTo
<1>5. WithinAttempts(c)'
  BY <1>1, CountedAnswer DEF Answers
<1>6. Once(c)'
  <2>1. Spent(c)'
    BY <1>1 DEF Spent, AnswerTo
  <2>2. OnItsWay(c)' <=> OnItsWay(c)
    BY DEF OnItsWay
  <2>3. CASE kind[c] \in {"create", "patch"}
    <3>1. writes[c] = 0 /\ ~OnItsWay(c)
      BY <1>0, <1>1, <1>3, <2>3 DEF Sound, Once, AnswerTo
    <3> QED BY <1>0, <1>1, <1>3, <2>1, <2>2, <3>1 DEF Sound, Once, AnswerTo
  <2> QED BY <1>1, <2>3 DEF Once, AnswerTo
<1>7. Informed(c)'
  BY <1>1, <1>3 DEF Informed, AnswerTo
<1>8. \A d \in Commands \ {c} : Untouched(d)
  BY <1>0, <1>1, <1>2 DEF Untouched, TypeOK, AnswerTo
<1> QED BY <1>0, <1>4, <1>5, <1>6, <1>7, <1>8, UntouchedIsSound DEF IInv, Sound

LEMMA DelayStep ==
    ASSUME IInv, NEW c \in Commands, Delay(c)
    PROVE  IInv'
<1>0. TypeOK /\ Sound(c) /\ \A d \in Commands : Sound(d)
  BY DEF IInv
<1>1. AnswerTo(c, "dropped")
  <2>1. Answer(c, "dropped")
    BY DEF Delay
  <2> QED BY <2>1, AnswerMoves DEF Answers
<1>2. /\ phase[c] = "write" /\ UNCHANGED <<version, current, writes>>
      /\ late' = late \union {<<c, version[c]>>} /\ version[c] \in Nat
  BY <1>0 DEF Delay, TypeOK
<1>3. TypeOK'
  BY <1>0, <1>1, <1>2 DEF TypeOK, AnswerTo
<1>4. WithinAttempts(c)'
  BY <1>1, CountedAnswer DEF Answers
<1>5. Once(c)'
  <2>1. Spent(c)'
    BY <1>1, <1>2 DEF Spent, AnswerTo
  <2>2. CASE kind[c] \in {"create", "patch"}
    <3>1. ~OnItsWay(c) /\ writes[c] # 1 /\ writes[c] <= 1
      BY <1>0, <1>1, <2>2 DEF Sound, Once, AnswerTo
    <3>2. \A r \in late' : r[1] = c => r = <<c, version[c]>>
      BY <1>2, <3>1 DEF OnItsWay
    <3> QED BY <1>1, <1>2, <2>1, <3>1, <3>2 DEF Once, AnswerTo
  <2> QED BY <1>1, <2>2 DEF Once, AnswerTo
<1>6. Informed(c)'
  BY <1>1 DEF Informed, AnswerTo
<1>7. \A d \in Commands \ {c} : Untouched(d)
  BY <1>1, <1>2 DEF Untouched, AnswerTo
<1> QED BY <1>0, <1>3, <1>4, <1>5, <1>6, <1>7, UntouchedIsSound DEF IInv, Sound

LEMMA TenantStep ==
    ASSUME IInv, NEW c \in Commands, Tenant(c)
    PROVE  IInv'
<1>0. TypeOK
  BY DEF IInv
<1>1. CASE Read(c)
  <2>1. /\ Answer(c, "ok") /\ UNCHANGED tenant /\ phase[c] = "read"
        /\ version' \in [Commands -> Nat]
    BY <1>0, <1>1 DEF Read, TypeOK
  <2> QED BY <2>1, QuietAnswer DEF Answers
<1>2. CASE Write(c)
  <2>1. PICK a \in {"ok", "fault", "dropped"} : Answer(c, a)
    BY <1>2 DEF Write
  <2>2. phase[c] = "write" /\ CarryOut(c) /\ UNCHANGED <<version, late>>
    BY <1>2 DEF Write
  <2> QED BY <2>1, <2>2, WriteStep
<1>3. CASE Conflict(c)
  <2>1. /\ Answer(c, "conflict") /\ UNCHANGED tenant
        /\ phase[c] = "write" /\ kind[c] # "create" /\ version' \in [Commands -> Nat]
    BY <1>0, <1>3 DEF Conflict, Accepts, TypeOK
  <2> QED BY <2>1, QuietAnswer DEF Answers
<1>4. CASE Deny(c)
  <2>1. PICK a \in {"unauthorized", "throttled", "fault", "dropped"} : Answer(c, a)
    BY <1>4 DEF Deny
  <2>2. UNCHANGED tenant /\ version' \in [Commands -> Nat]
    BY <1>0, <1>4 DEF Deny, TypeOK
  <2> QED BY <2>1, <2>2, QuietAnswer DEF Answers
<1>5. CASE Delay(c)
  BY <1>5, DelayStep
<1> QED BY <1>1, <1>2, <1>3, <1>4, <1>5 DEF Tenant

\* However a call returns, what it kept is gone.
LEMMA FinishStep ==
    ASSUME IInv, NEW c \in Commands, NEW how \in {"done", "conflict", "failed"}, Finish(c, how),
           how = "done" => writes[c] >= 1,
           how = "conflict" /\ kind[c] = "patch" => writes[c] = 0 /\ ~OnItsWay(c)
    PROVE  IInv'
<1>0. TypeOK /\ Sound(c) /\ \A d \in Commands : Sound(d)
  BY DEF IInv
<1>1. TypeOK'
  BY <1>0, ClientAssumption DEF Finish, TypeOK, First, Answers, Outcomes, tenant
<1>2. /\ pc'[c] = "over" /\ outcome'[c] = how /\ sent'[c] = 0 /\ answer'[c] = "none"
      /\ refreshed'[c] = FALSE /\ UNCHANGED <<kind, tenant>>
      /\ \A d \in Commands \ {c} :
           UNCHANGED <<pc[d], phase[d], sent[d], refreshed[d], answer[d], outcome[d]>>
  BY <1>0 DEF Finish, TypeOK
<1>3. OnItsWay(c)' <=> OnItsWay(c)
  BY <1>2 DEF OnItsWay, tenant
<1>4. Once(c)'
  BY <1>0, <1>2, <1>3 DEF Sound, Once, Spent, tenant
<1>5. Informed(c)'
  BY <1>2, <1>3 DEF Informed, tenant
<1>6. WithinAttempts(c)'
  BY <1>2, ClientAssumption DEF WithinAttempts, Allowed
<1>7. \A d \in Commands \ {c} : Untouched(d)
  BY <1>2 DEF Untouched, tenant
<1> QED BY <1>0, <1>1, <1>4, <1>5, <1>6, <1>7, UntouchedIsSound DEF IInv, Sound

\* A create or patch that may have been carried out does not go on to be sent again.
LEMMA GoesOn ==
    ASSUME IInv, NEW c \in Commands, TypeOK', WithinAttempts(c)',
           pc[c] # "over", pc'[c] \in {"sending", "renewing"}, answer'[c] # "conflict",
           kind[c] \in {"create", "patch"} => ~Spent(c),
           UNCHANGED <<kind, outcome, tenant>>,
           \A d \in Commands \ {c} :
             UNCHANGED <<pc[d], phase[d], sent[d], refreshed[d], answer[d]>>
    PROVE  IInv'
<1>0. Sound(c) /\ \A d \in Commands : Sound(d)
  BY DEF IInv
<1>1. OnItsWay(c)' <=> OnItsWay(c)
  BY DEF OnItsWay, tenant
<1>2. Once(c)'
  BY <1>0, <1>1 DEF Sound, Once, tenant
<1>3. Informed(c)'
  BY <1>0 DEF Sound, Informed
<1>4. \A d \in Commands \ {c} : Untouched(d)
  BY DEF Untouched, tenant
<1> QED BY <1>0, <1>2, <1>3, <1>4, UntouchedIsSound DEF IInv, Sound

\* UpdateVersioned goes on to its other request, unless it wrote or may have written.
LEMMA NextDoStep ==
    ASSUME IInv, NEW c \in Commands, NEW p \in {"read", "write"}, NextDo(c, p), ~Spent(c),
           UNCHANGED <<version, outcome, tenant>>, retried' \in [Commands -> BOOLEAN] \/ UNCHANGED retried
    PROVE  IInv'
<1>1. TypeOK /\ retried' \in [Commands -> BOOLEAN]
  BY DEF IInv, TypeOK
<1>2. /\ pc[c] = "deciding" /\ pc' = [pc EXCEPT ![c] = "sending"]
      /\ phase' = [phase EXCEPT ![c] = p] /\ sent' = [sent EXCEPT ![c] = 0]
      /\ refreshed' = [refreshed EXCEPT ![c] = FALSE]
      /\ answer' = [answer EXCEPT ![c] = "none"] /\ UNCHANGED kind
  BY DEF NextDo, Goes
<1>3. TypeOK'
  <2>1. phase' \in [Commands -> {"read", "write"}] /\ answer' \in [Commands -> Answers]
    BY <1>1, <1>2 DEF TypeOK, Answers
  <2>2. sent' \in [Commands -> 0 .. MaxAttempts + 1]
    BY <1>1, <1>2, ClientAssumption DEF TypeOK
  <2>3. refreshed' \in [Commands -> BOOLEAN]
    BY <1>1, <1>2 DEF TypeOK
  <2>4. pc' \in [Commands -> {"ready", "sending", "deciding", "renewing", "over"}]
    BY <1>1, <1>2 DEF TypeOK
  <2> QED BY <1>1, <1>2, <2>1, <2>2, <2>3, <2>4 DEF TypeOK, tenant
<1>4. pc'[c] = "sending" /\ sent'[c] = 0 /\ refreshed'[c] = FALSE /\ answer'[c] = "none"
  BY <1>1, <1>2 DEF TypeOK
<1>5. WithinAttempts(c)'
  BY <1>4, ClientAssumption DEF WithinAttempts, Allowed
<1>6. \A d \in Commands \ {c} : UNCHANGED <<pc[d], phase[d], sent[d], refreshed[d], answer[d]>>
  BY <1>1, <1>2 DEF TypeOK
<1> QED BY <1>2, <1>3, <1>4, <1>5, <1>6, GoesOn

LEMMA ClientStep ==
    ASSUME IInv, NEW c \in Commands, Client(c)
    PROVE  IInv'
<1>0. TypeOK /\ Sound(c) /\ sent[c] \in Nat /\ Allowed(c) \in Nat
  BY ClientAssumption DEF IInv, TypeOK, Allowed
<1>1. CASE Begin(c)
  <2>1. /\ pc[c] = "ready" /\ pc' = [pc EXCEPT ![c] = "sending"]
        /\ version' = [version EXCEPT ![c] = IF kind[c] = "ifVersion" THEN current ELSE 0]
        /\ UNCHANGED <<kind, phase, sent, refreshed, retried, answer, outcome, tenant>>
    BY <1>1 DEF Begin, Goes
  <2>2. TypeOK'
    BY <1>0, <2>1 DEF TypeOK, tenant
  <2>3. WithinAttempts(c)'
    BY <1>0, <2>1 DEF Sound, WithinAttempts, Allowed
  <2>4. answer'[c] # "conflict"
    BY <1>0, <2>1 DEF Sound, Informed
  <2>5. /\ pc[c] # "over" /\ pc'[c] \in {"sending", "renewing"}
        /\ \A d \in Commands \ {c} :
             UNCHANGED <<pc[d], phase[d], sent[d], refreshed[d], answer[d]>>
    BY <1>0, <2>1 DEF TypeOK
  <2>6. ~Spent(c)
    BY <2>1 DEF Spent
  <2> QED BY <2>1, <2>2, <2>3, <2>4, <2>5, <2>6, GoesOn
<1>2. CASE Retry(c)
  <2>1. /\ pc[c] = "deciding" /\ pc' = [pc EXCEPT ![c] = "sending"]
        /\ answer' = [answer EXCEPT ![c] = "none"] /\ sent[c] < MaxAttempts
        /\ UNCHANGED <<kind, phase, sent, refreshed, retried, version, outcome, tenant>>
    BY <1>2 DEF Retry, Again, Goes, request
  <2>2. TypeOK'
    BY <1>0, <2>1 DEF TypeOK, tenant, Answers
  <2>3. WithinAttempts(c)'
    BY <1>0, <2>1, ClientAssumption DEF WithinAttempts, Allowed
  <2>4. kind[c] \in {"create", "patch"} => ~Spent(c)
    BY <1>2, <2>1 DEF Retry, Idempotent, Spent
  <2>5. /\ pc[c] # "over" /\ pc'[c] \in {"sending", "renewing"}
        /\ \A d \in Commands \ {c} :
             UNCHANGED <<pc[d], phase[d], sent[d], refreshed[d], answer[d]>>
    BY <1>0, <2>1 DEF TypeOK
  <2>6. answer'[c] # "conflict"
    BY <1>0, <2>1 DEF TypeOK
  <2> QED BY <2>1, <2>2, <2>3, <2>4, <2>5, <2>6, GoesOn
<1>3. CASE Renew(c)
  <2>1. /\ pc[c] = "deciding" /\ pc' = [pc EXCEPT ![c] = "renewing"]
        /\ answer[c] = "unauthorized" /\ answer' = [answer EXCEPT ![c] = "none"]
        /\ ~refreshed[c] /\ refreshed' = [refreshed EXCEPT ![c] = TRUE]
        /\ UNCHANGED <<kind, phase, sent, retried, version, outcome, tenant>>
    BY <1>3 DEF Renew, Goes
  <2>2. TypeOK'
    BY <1>0, <2>1 DEF TypeOK, tenant, Answers
  <2>3. WithinAttempts(c)'
    <3>1. refreshed'[c] /\ sent[c] <= MaxAttempts
      BY <1>0, <2>1, ClientAssumption DEF TypeOK, Sound, WithinAttempts, Allowed
    <3> QED BY <1>0, <2>1, <3>1, ClientAssumption DEF WithinAttempts, Allowed
  <2>4. /\ pc[c] # "over" /\ pc'[c] \in {"sending", "renewing"}
        /\ \A d \in Commands \ {c} :
             UNCHANGED <<pc[d], phase[d], sent[d], refreshed[d], answer[d]>>
    BY <1>0, <2>1 DEF TypeOK
  <2>5. ~Spent(c)
    BY <2>1 DEF Spent
  <2>6. answer'[c] # "conflict"
    BY <1>0, <2>1 DEF TypeOK
  <2> QED BY <2>1, <2>2, <2>3, <2>4, <2>5, <2>6, GoesOn
<1>4. CASE Renewed(c)
  <2>1. /\ pc[c] = "renewing" /\ pc' = [pc EXCEPT ![c] = "sending"]
        /\ UNCHANGED <<kind, phase, sent, refreshed, retried, version, answer, outcome, tenant>>
    BY <1>4 DEF Renewed, Goes, request
  <2>2. TypeOK'
    BY <1>0, <2>1 DEF TypeOK, tenant
  <2>3. WithinAttempts(c)'
    BY <1>0, <2>1 DEF Sound, WithinAttempts, Allowed
  <2>4. answer'[c] # "conflict"
    BY <1>0, <2>1 DEF Sound, Informed
  <2>5. /\ pc[c] # "over" /\ pc'[c] \in {"sending", "renewing"}
        /\ \A d \in Commands \ {c} :
             UNCHANGED <<pc[d], phase[d], sent[d], refreshed[d], answer[d]>>
    BY <1>0, <2>1 DEF TypeOK
  <2>6. ~Spent(c)
    BY <2>1 DEF Spent
  <2> QED BY <2>1, <2>2, <2>3, <2>4, <2>5, <2>6, GoesOn
<1>5. CASE Put(c)
  <2>1. NextDo(c, "write") /\ UNCHANGED <<retried, version, outcome, tenant>>
    BY <1>5 DEF Put
  <2>2. ~Spent(c)
    BY <1>5 DEF Put, NextDo, Goes, Spent
  <2> QED BY <2>1, <2>2, NextDoStep
<1>6. CASE ReRead(c)
  <2>1. NextDo(c, "read") /\ UNCHANGED <<version, outcome, tenant>>
    BY <1>6 DEF ReRead
  <2>2. retried' \in [Commands -> BOOLEAN]
    BY <1>0, <1>6 DEF ReRead, TypeOK
  <2>3. ~Spent(c)
    BY <1>6 DEF ReRead, NextDo, Goes, Spent
  <2> QED BY <2>1, <2>2, <2>3, NextDoStep
<1>7. CASE RenewFails(c) \/ Fail(c)
  <2>1. Finish(c, "failed")
    BY <1>7 DEF RenewFails, Fail
  <2> QED BY <2>1, FinishStep
<1>8. CASE Succeed(c)
  <2>1. Finish(c, "done") /\ writes[c] >= 1
    BY <1>0, <1>8 DEF Succeed, Sound, Informed
  <2> QED BY <2>1, FinishStep
<1>9. CASE GiveUp(c)
  <2>1. Finish(c, "conflict") /\ pc[c] = "deciding" /\ answer[c] = "conflict"
    BY <1>9 DEF GiveUp
  <2>2. kind[c] = "patch" => writes[c] = 0 /\ ~OnItsWay(c)
    BY <1>0, <2>1 DEF TypeOK, Sound, Once, Spent
  <2> QED BY <2>1, <2>2, FinishStep
<1> QED
  BY <1>1, <1>2, <1>3, <1>4, <1>5, <1>6, <1>7, <1>8, <1>9 DEF Client

\* A write that was given up on arrives: its command is not at work on it any more.
LEMMA ArriveStep ==
    ASSUME IInv, NEW r \in late, Arrive(r[1], r[2])
    PROVE  IInv'
<1> DEFINE c == r[1]
<1>0. /\ TypeOK /\ \A d \in Commands : Sound(d)
      /\ c \in Commands /\ r = <<c, r[2]>>
  BY DEF IInv, TypeOK
<1>1. /\ late' = late \ {r} /\ current' \in Nat
      /\ UNCHANGED <<pc, kind, phase, sent, refreshed, retried, version, answer, outcome>>
      /\ writes' = writes \/ writes' = [writes EXCEPT ![c] = @ + 1]
  BY <1>0 DEF Arrive, CarryOut, request, TypeOK
<1> HIDE DEF c
<1>2. TypeOK'
  BY <1>0, <1>1 DEF TypeOK
<1>3. Sound(c) /\ OnItsWay(c) /\ writes[c] \in Nat /\ writes'[c] \in {writes[c], writes[c] + 1}
  BY <1>0, <1>1 DEF OnItsWay, TypeOK, c
<1>4. \A s \in late' : s \in late /\ s # r
  BY <1>1
<1>5. Spent(c)' <=> Spent(c)
  BY <1>1 DEF Spent
<1>6. Once(c)'
  <2>1. CASE kind[c] \in {"create", "patch"}
    <3>1. /\ writes[c] = 0 /\ Spent(c)
          /\ \A s, t \in late : s[1] = c /\ t[1] = c => s = t
      BY <1>3, <2>1 DEF Sound, Once
    <3>2. ~OnItsWay(c)'
      BY <1>4, <3>1 DEF OnItsWay, c
    <3> QED BY <1>3, <1>4, <1>5, <3>1, <3>2 DEF Once
  <2> QED BY <1>1, <2>1 DEF Once
<1>7. Informed(c)'
  <2>1. outcome[c] = "conflict" => kind[c] # "patch"
    BY <1>3 DEF Sound, Informed
  <2> QED BY <1>1, <1>3, <2>1 DEF Sound, Informed
<1>8. WithinAttempts(c)'
  BY <1>1, <1>3 DEF Sound, WithinAttempts, Allowed
<1>9. \A d \in Commands \ {c} : Untouched(d)
  BY <1>0, <1>1 DEF Untouched, TypeOK, c
<1> QED BY <1>0, <1>2, <1>6, <1>7, <1>8, <1>9, UntouchedIsSound DEF IInv, Sound

LEMMA Preserved == IInv /\ [Next]_vars => IInv'
<1> SUFFICES ASSUME IInv, [Next]_vars PROVE IInv'
  OBVIOUS
<1>1. ASSUME NEW c \in Commands, Tenant(c) \/ Client(c) PROVE IInv'
  BY <1>1, TenantStep, ClientStep
<1>2. ASSUME NEW r \in late, Arrive(r[1], r[2]) PROVE IInv'
  BY <1>2, ArriveStep
<1>3. CASE UNCHANGED vars
  <2>1. TypeOK'
    BY <1>3 DEF IInv, TypeOK, vars
  <2>2. \A c \in Commands : Untouched(c)
    BY <1>3 DEF vars, Untouched
  <2> QED BY <2>1, <2>2, UntouchedIsSound DEF IInv
<1> QED BY <1>1, <1>2, <1>3 DEF Next

----------------------------------------------------------------------------
(* The theorems *)

\* IInv holds throughout: every command knows of its request what the answers allow.
THEOREM Invariant == Spec => []IInv
BY Initially, Preserved, PTL DEF Spec

\* Every variable keeps its type.
THEOREM TypeCorrect == Spec => []TypeOK
<1>1. IInv => TypeOK
  BY DEF IInv
<1> QED BY <1>1, Invariant, PTL

\* No create and no patch is carried out twice, however many commands there are, attempts
\* they may make and answers the network loses, and whenever a lost request arrives after
\* all (retryable, idempotent, and the one re-read of UpdateVersioned).
THEOREM NothingIsDoneTwice == Spec => []NoDuplicate
<1>1. IInv => NoDuplicate
  BY DEF IInv, Sound, Once, NoDuplicate
<1> QED BY <1>1, Invariant, PTL

\* A command says it succeeded only if it wrote, and that a patch met a conflict only if
\* the patch was not, and will not be, carried out.
THEOREM OutcomesAreTrue == Spec => []ReportsTheTruth
<1>1. IInv => ReportsTheTruth
  BY DEF IInv, Sound, Informed, ReportsTheTruth
<1> QED BY <1>1, Invariant, PTL

\* One Do never sends more than MaxAttempts requests, or one more after it renewed the token.
THEOREM AttemptsAreBounded == Spec => []AttemptsBounded
<1>1. IInv => AttemptsBounded
  <2> SUFFICES ASSUME IInv, NEW c \in Commands
               PROVE  sent[c] <= MaxAttempts + 1 /\ (sent[c] > MaxAttempts => refreshed[c])
    BY DEF AttemptsBounded
  <2>1. WithinAttempts(c) /\ sent[c] \in Nat
    BY ClientAssumption DEF IInv, Sound, TypeOK
  <2> QED BY <2>1, ClientAssumption DEF WithinAttempts, Allowed
<1> QED BY <1>1, Invariant, PTL
============================================================================
