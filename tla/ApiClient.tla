------------------------------ MODULE ApiClient ------------------------------
(***************************************************************************)
(* The client's requests (internal/client): commands that create, patch or *)
(* replace one entity of the tenant through Client.Do, which retries, and  *)
(* UpdateVersioned, which reads a version, writes it back and takes a 409  *)
(* for somebody else's write.                                              *)
(*                                                                         *)
(* The tenant is known by what fft relies on: a write of the version it    *)
(* holds goes through and makes the next one, any other version is a 409,  *)
(* and a 401 or a 429 changed nothing.  An answer may get lost, as may a   *)
(* request; one the client gave up on may also arrive later.               *)
(***************************************************************************)
EXTENDS Naturals, FiniteSets

CONSTANTS
    Commands,     \* the commands under way, in one process or several
    Used,         \* the kinds of commands there are
    MaxAttempts,  \* Retry.MaxAttempts
    MaxLate       \* bound: writes still on their way at a time

Kinds == {"create", "patch", "replace", "ifVersion"}

ASSUME ClientAssumption ==
    /\ Used \subseteq Kinds
    /\ MaxAttempts \in Nat \ {0}
    /\ MaxLate \in Nat

VARIABLES
    kind,       \* what each command does, chosen by the user
    pc,         \* where a command is in Do
    phase,      \* the request it is at: the read or the write
    sent,       \* Do's sent
    refreshed,  \* Do's refreshed
    retried,    \* UpdateVersioned's retried
    version,    \* the version a command sends
    answer,     \* what its last attempt got
    outcome,    \* how it ended
    current,    \* the tenant's version of the entity
    writes,     \* history: how often the tenant carried out a command's write
    late        \* writes given up on that are still on their way

request == <<kind, phase, sent, refreshed, retried, version>>
tenant == <<current, writes, late>>
vars == <<kind, pc, phase, sent, refreshed, retried, version, answer, outcome,
          current, writes, late>>

Answers == {"none", "ok", "conflict", "unauthorized", "throttled", "fault", "dropped"}
Outcomes == {"none", "done", "conflict", "failed"}

TypeOK ==
    /\ kind \in [Commands -> Used]
    /\ pc \in [Commands -> {"ready", "sending", "deciding", "renewing", "over"}]
    /\ phase \in [Commands -> {"read", "write"}]
    /\ sent \in [Commands -> 0 .. MaxAttempts + 1]
    /\ refreshed \in [Commands -> BOOLEAN]
    /\ retried \in [Commands -> BOOLEAN]
    /\ version \in [Commands -> Nat]
    /\ answer \in [Commands -> Answers]
    /\ outcome \in [Commands -> Outcomes]
    /\ current \in Nat
    /\ writes \in [Commands -> Nat]
    /\ late \subseteq Commands \X Nat

\* A create and a write under --if-version read nothing first.
First(c) == IF kind[c] \in {"patch", "replace"} THEN "read" ELSE "write"

Init ==
    /\ kind \in [Commands -> Used]
    /\ pc = [c \in Commands |-> "ready"]
    /\ phase = [c \in Commands |-> First(c)]
    /\ sent = [c \in Commands |-> 0]
    /\ refreshed = [c \in Commands |-> FALSE]
    /\ retried = [c \in Commands |-> FALSE]
    /\ version = [c \in Commands |-> 0]
    /\ answer = [c \in Commands |-> "none"]
    /\ outcome = [c \in Commands |-> "none"]
    /\ current = 1
    /\ writes = [c \in Commands |-> 0]
    /\ late = {}

\* Mistaken variant: every method may be sent twice.
AnyMethod(c) == TRUE

\* idempotent: a GET and a PUT are, a POST and a PATCH are not.
Idempotent(c) == phase[c] = "read" \/ kind[c] \in {"replace", "ifVersion"}

Goes(c, from, to) == pc[c] = from /\ pc' = [pc EXCEPT ![c] = to]

\* The call returns, and what it kept is gone.
Finish(c, how) ==
    /\ pc' = [pc EXCEPT ![c] = "over"]
    /\ outcome' = [outcome EXCEPT ![c] = how]
    /\ phase' = [phase EXCEPT ![c] = First(c)]
    /\ sent' = [sent EXCEPT ![c] = 0]
    /\ refreshed' = [refreshed EXCEPT ![c] = FALSE]
    /\ retried' = [retried EXCEPT ![c] = FALSE]
    /\ version' = [version EXCEPT ![c] = 0]
    /\ answer' = [answer EXCEPT ![c] = "none"]
    /\ UNCHANGED <<kind, tenant>>

----------------------------------------------------------------------------
(* The tenant *)

\* A create makes an entity of its own and always goes through; a write must send the version there is.
Accepts(c, v) == kind[c] = "create" \/ v = current

CarryOut(c) ==
    /\ current' = IF kind[c] = "create" THEN current ELSE current + 1
    /\ writes' = [writes EXCEPT ![c] = @ + 1]

\* Mistaken variant: the attempt is not counted.
AnswerUncounted(c, a) ==
    /\ Goes(c, "sending", "deciding")
    /\ answer' = [answer EXCEPT ![c] = a]
    /\ UNCHANGED <<kind, phase, sent, refreshed, retried, outcome>>

Answer(c, a) ==
    /\ Goes(c, "sending", "deciding")
    /\ answer' = [answer EXCEPT ![c] = a]
    /\ sent' = [sent EXCEPT ![c] = @ + 1]
    /\ UNCHANGED <<kind, phase, refreshed, retried, outcome>>

\* A read, with the version the entity has.
Read(c) ==
    /\ phase[c] = "read"
    /\ Answer(c, "ok")
    /\ version' = [version EXCEPT ![c] = current]
    /\ UNCHANGED tenant

\* The write is carried out, and its answer comes back, or gets lost on the way.
Write(c) ==
    /\ phase[c] = "write"
    /\ Accepts(c, version[c])
    /\ CarryOut(c)
    /\ \E a \in {"ok", "fault", "dropped"} : Answer(c, a)
    /\ UNCHANGED <<version, late>>

Conflict(c) ==
    /\ phase[c] = "write"
    /\ ~Accepts(c, version[c])
    /\ Answer(c, "conflict")
    /\ UNCHANGED <<version, tenant>>

\* Nothing happened.
Deny(c) ==
    /\ \E a \in {"unauthorized", "throttled", "fault", "dropped"} : Answer(c, a)
    /\ UNCHANGED <<version, tenant>>

\* The connection dies before the request is carried out.
Delay(c) ==
    /\ phase[c] = "write"
    /\ Cardinality(late) < MaxLate
    /\ Answer(c, "dropped")
    /\ late' = late \union {<<c, version[c]>>}
    /\ UNCHANGED <<version, current, writes>>

Arrive(c, v) ==
    /\ late' = late \ {<<c, v>>}
    /\ IF Accepts(c, v)
         THEN CarryOut(c)
         ELSE UNCHANGED <<current, writes>>
    /\ UNCHANGED <<pc, request, answer, outcome>>

----------------------------------------------------------------------------
(* Do *)

\* A --if-version names the version there is, which another may have replaced.
Begin(c) ==
    /\ Goes(c, "ready", "sending")
    /\ version' = [version EXCEPT ![c] = IF kind[c] = "ifVersion" THEN current ELSE 0]
    /\ UNCHANGED <<kind, phase, sent, refreshed, retried, answer, outcome, tenant>>

Again(c) ==
    /\ Goes(c, "deciding", "sending")
    /\ answer' = [answer EXCEPT ![c] = "none"]
    /\ UNCHANGED <<request, outcome, tenant>>

\* A dropped connection, a fault or a throttle, attempts left, and a wait no
\* longer than MaxWait.
Retry(c) ==
    /\ sent[c] < MaxAttempts
    /\ \/ answer[c] = "throttled"
       \/ answer[c] \in {"fault", "dropped"} /\ Idempotent(c)
    /\ Again(c)

\* The reactive 401 gets one chance, whatever the attempts.
Renew(c) ==
    /\ answer[c] = "unauthorized"
    /\ ~refreshed[c]
    /\ Goes(c, "deciding", "renewing")
    /\ answer' = [answer EXCEPT ![c] = "none"]
    /\ refreshed' = [refreshed EXCEPT ![c] = TRUE]
    /\ UNCHANGED <<kind, phase, sent, retried, version, outcome, tenant>>

Renewed(c) ==
    /\ Goes(c, "renewing", "sending")
    /\ UNCHANGED <<request, answer, outcome, tenant>>

RenewFails(c) ==
    /\ pc[c] = "renewing"
    /\ Finish(c, "failed")

\* Do returns an error: the attempts are used up, the failure is not one to retry,
\* the tenant asks for a longer wait than MaxWait, nobody can renew the token, or
\* the user's ^C or --timeout ends an attempt or the wait after it, which may be at
\* any time.  A 409 of the write is for UpdateVersioned to decide.
Fail(c) ==
    /\ pc[c] = "deciding"
    /\ answer[c] \notin {"ok", "conflict"}
    /\ Finish(c, "failed")

----------------------------------------------------------------------------
(* UpdateVersioned *)

NextDo(c, p) ==
    /\ phase' = [phase EXCEPT ![c] = p]
    /\ sent' = [sent EXCEPT ![c] = 0]
    /\ refreshed' = [refreshed EXCEPT ![c] = FALSE]
    /\ answer' = [answer EXCEPT ![c] = "none"]
    /\ Goes(c, "deciding", "sending")
    /\ UNCHANGED kind

\* The read succeeded: the change is applied to it and written.
Put(c) ==
    /\ phase[c] = "read"
    /\ answer[c] = "ok"
    /\ NextDo(c, "write")
    /\ UNCHANGED <<retried, version, outcome, tenant>>

Succeed(c) ==
    /\ pc[c] = "deciding"
    /\ phase[c] = "write"
    /\ answer[c] = "ok"
    /\ Finish(c, "done")

\* One 409 is answered by reading again.
ReRead(c) ==
    /\ answer[c] = "conflict"
    /\ kind[c] # "ifVersion"
    /\ ~retried[c]
    /\ NextDo(c, "read")
    /\ retried' = [retried EXCEPT ![c] = TRUE]
    /\ UNCHANGED <<version, outcome, tenant>>

GiveUp(c) ==
    /\ pc[c] = "deciding"
    /\ answer[c] = "conflict"
    /\ kind[c] = "ifVersion" \/ retried[c]
    /\ Finish(c, "conflict")

----------------------------------------------------------------------------
Tenant(c) == Read(c) \/ Write(c) \/ Conflict(c) \/ Deny(c) \/ Delay(c)

Client(c) ==
    \/ Begin(c)
    \/ Retry(c)
    \/ Renew(c)
    \/ Renewed(c)
    \/ RenewFails(c)
    \/ Fail(c)
    \/ Put(c)
    \/ Succeed(c)
    \/ ReRead(c)
    \/ GiveUp(c)

Next ==
    \/ \E c \in Commands : Tenant(c) \/ Client(c)
    \/ \E r \in late : Arrive(r[1], r[2])

\* An attempt comes to an end, by the tenant's answer or by a timeout, and the
\* client goes on from there.
Spec == Init /\ [][Next]_vars /\ \A c \in Commands : WF_vars(Tenant(c) \/ Client(c))

----------------------------------------------------------------------------
(* Properties *)

\* A create or a patch is carried out at most once, however often it was sent
\* and whenever what was given up on arrives.
NoDuplicate ==
    \A c \in Commands : kind[c] \in {"create", "patch"} => writes[c] <= 1

\* A command that reports success wrote, and one told of a conflict did not.
\* For a PUT the second half is not so: see ConflictMeansUnwritten.
ReportsTheTruth ==
    \A c \in Commands :
        /\ outcome[c] = "done" => writes[c] >= 1
        /\ outcome[c] = "conflict" /\ kind[c] = "patch" => writes[c] = 0

\* One Do sends MaxAttempts requests, and one more after a 401.
AttemptsBounded ==
    \A c \in Commands :
        sent[c] <= MaxAttempts + 1 /\ (sent[c] > MaxAttempts => refreshed[c])

\* A 409 means that somebody else wrote in between.
ConflictMeansUnwritten ==
    \A c \in Commands : outcome[c] = "conflict" => writes[c] = 0

\* Every command ends.
CommandsEnd == \A c \in Commands : <>(pc[c] = "over")

=============================================================================
