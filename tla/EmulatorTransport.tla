-------------------------- MODULE EmulatorTransport --------------------------
(***************************************************************************)
(* How the local emulator delivers an event to the child process of a      *)
(* transport component (internal/emulator/transport_process.go), and how a *)
(* mutation's event fans out to every subscription (eventing.go).          *)
(*                                                                         *)
(* A mutation's handler first asks the child to plan each matching         *)
(* subscription, one after the other, then sends to all of them at once.   *)
(* Every question is a round trip under the transport's mutex: the answer  *)
(* read next is taken for this question's if it carries its number.  A     *)
(* watchdog goroutine beside each round trip kills a child that does not   *)
(* answer in time; a select that finds both the answer's done channel      *)
(* closed and its timer expired picks either, so it may also fire late.    *)
(***************************************************************************)
EXTENDS Naturals, Sequences, FiniteSets

CONSTANTS Emits,    \* the mutations whose event is delivered, one emit each
          Subs,     \* the subscriptions that match, all served by this child
          Boot,     \* the caller that says hello when the transport is made
          Nobody    \* the holder of a free mutex

ASSUME CallersAreDistinct == Nobody # Boot /\ {Boot, Nobody} \intersect (Emits \X Subs) = {}

VARIABLES
  closed,    \* processTransport.closed: no delivery is started any more
  mu,        \* the caller that holds processTransport.mu
  nextID,    \* the number of the last question
  straggler, \* a watchdog outlives its round trip and has not looked at done yet
  inOpen,    \* our end of the child's stdin is open
  killed,    \* the child's context is cancelled
  child,     \* "up" or "gone"
  holds,     \* what a process the child started keeps open: its stdout, its stderr
  inp, out,  \* the pipes: questions not yet read, answers not yet read
  call,      \* each caller's round trip
  phase,     \* each emit: idle, plan, send, done
  late,      \* the emits whose publish timeout has passed
  stopping,  \* Close was called: at shutdown, or after a failed hello
  reap,      \* the wait for the child's exit: no, waiting, done
  did,       \* history: the callers whose last question the child did and confirmed
  rude,      \* history: the child broke the protocol
  cause      \* history: whom the first fail blames: a child gone or silent, or a rude one

transportVars ==
  <<closed, mu, nextID, straggler, inOpen, killed, child, holds, inp, out, call,
    phase, late, stopping, reap, did, rude, cause>>

pipes   == <<inp, out, did>>
process == <<child, holds, rude>>
fate    == <<closed, inOpen, killed, straggler, cause>>
emits   == <<phase, late>>
ending  == <<stopping, reap>>

Callers == {Boot} \union (Emits \X Subs)
NoCall  == [at |-> "idle", op |-> "none", id |-> 0, res |-> "none"]
LastID  == 1 + 2 * Cardinality(Emits \X Subs)
OfEmit(e) == {e} \X Subs

TransportInit ==
  /\ closed = FALSE /\ mu = Nobody /\ nextID = 0 /\ straggler = FALSE
  /\ inOpen = TRUE /\ killed = FALSE /\ child = "up" /\ holds \in SUBSET {"stdout", "stderr"}
  /\ inp = <<>> /\ out = <<>>
  /\ call = [c \in Callers |->
               IF c = Boot THEN [NoCall EXCEPT !.at = "gate", !.op = "hello"] ELSE NoCall]
  /\ phase = [e \in Emits |-> "idle"] /\ late = {}
  /\ stopping = FALSE /\ reap = "no"
  /\ did = {} /\ rude = FALSE /\ cause = "none"

------------------------------------------------------------------------------
(* One round trip: do and fail.                                            *)

\* A fail that marks the child dead and leaves killing it to somebody else.
FailMarksOnly(why) ==
  /\ closed' = TRUE /\ cause' = IF closed THEN cause ELSE why
  /\ UNCHANGED <<inOpen, killed, straggler>>

\* The first failure marks the transport closed, kills the child and closes its stdin.
Fail(why) ==
  IF closed THEN UNCHANGED fate
  ELSE closed' = TRUE /\ killed' = TRUE /\ inOpen' = FALSE /\ straggler' = FALSE /\ cause' = why

Goto(c, from, to) == call[c].at = from /\ call' = [call EXCEPT ![c].at = to]
Return(c, res) == call' = [call EXCEPT ![c].at = "end", ![c].res = res]
Unlocked(c, res) == Return(c, res) /\ mu' = Nobody
\* An answer is taken; its watchdog may be late to see done, which matters while the
\* transport is not closed.
Answered(c, r) ==
  /\ Unlocked(c, IF r.ok THEN "ok" ELSE "refused")
  /\ straggler' = ~closed /\ UNCHANGED <<closed, inOpen, killed, cause>>

\* The check before the mutex: a dead transport answers at once.
Gate(c) ==
  /\ call[c].at = "gate"
  /\ IF closed THEN Return(c, "closed") ELSE Goto(c, "gate", "lock")
  /\ UNCHANGED <<mu, nextID, pipes, process, fate, emits, ending>>

\* The question gets its number and its watchdog.
Number(c) ==
  /\ nextID' = nextID + 1 /\ did' = did \ {c}
  /\ call' = [call EXCEPT ![c].at = "write", ![c].id = nextID + 1]

\* A round trip that does not wait for the one under way.
LockUnpaired(c) ==
  /\ call[c].at = "lock" /\ nextID < LastID
  /\ IF closed THEN Return(c, "closed") /\ UNCHANGED <<mu, nextID, did>>
     ELSE mu' = c /\ Number(c)
  /\ UNCHANGED <<inp, out, process, fate, emits, ending>>

\* The mutex, and the second check under it.
Lock(c) ==
  /\ call[c].at = "lock" /\ mu = Nobody
  /\ IF closed THEN Return(c, "closed") /\ UNCHANGED <<mu, nextID, did>>
     ELSE mu' = c /\ Number(c)
  /\ UNCHANGED <<inp, out, process, fate, emits, ending>>

\* Encode: a closed stdin or an exited child is a write error.
Write(c) ==
  /\ call[c].at = "write"
  /\ IF inOpen /\ child = "up"
     THEN /\ inp' = Append(inp, [id |-> call[c].id, by |-> c, op |-> call[c].op])
          /\ Goto(c, "write", "read")
          /\ UNCHANGED <<mu, fate>>
     ELSE Fail("gone") /\ Unlocked(c, "error") /\ UNCHANGED inp
  /\ UNCHANGED <<nextID, out, did, process, emits, ending>>

\* The read side ends: everybody who holds the pipe's other end is gone.
AtEOF == child = "gone" /\ "stdout" \notin holds

\* Our end is closed, with whatever was in the pipe: Wait does that when it returns, and
\* WaitDelay does a while after the kill if the child's stderr is still held open.
Torn == reap = "done" \/ (child = "gone" /\ killed /\ "stderr" \in holds)

\* An answer read and taken without a look at its number.
ReadAnyAnswer(c) ==
  /\ call[c].at = "read" /\ out # <<>> /\ Head(out).sound
  /\ Answered(c, Head(out)) /\ out' = Tail(out)
  /\ UNCHANGED <<nextID, inp, did, process, emits, ending>>

\* Scan, decode, and the check of the answer's number.
Read(c) ==
  /\ call[c].at = "read"
  /\ \/ /\ out # <<>> /\ out' = Tail(out)
        /\ LET r == Head(out)
               own == r.sound /\ r.id = call[c].id
           IN  \/ ~own /\ Fail("rude") /\ Unlocked(c, "error")
               \/ own /\ Answered(c, r)
     \/ /\ Torn \/ (out = <<>> /\ AtEOF)
        /\ Fail("gone") /\ Unlocked(c, "error") /\ UNCHANGED out
  /\ UNCHANGED <<nextID, inp, did, process, emits, ending>>

\* time.After wins the select, in time or late; once the transport is closed it does nothing.
WatchdogFires ==
  /\ ~closed /\ (mu # Nobody \/ straggler)
  /\ Fail("gone")
  /\ UNCHANGED <<mu, nextID, pipes, process, call, emits, ending>>

\* done wins the select.
WatchdogEnds ==
  /\ straggler /\ straggler' = FALSE
  /\ UNCHANGED <<mu, nextID, pipes, process, closed, inOpen, killed, cause, call, emits, ending>>

------------------------------------------------------------------------------
(* The emitter: plan each subscription in turn, then send to all of them.  *)

\* A mutation commits while the transport is registered, and its event is planned.
Begin(e) ==
  /\ phase[e] = "idle" /\ call[Boot].res = "ok" /\ ~stopping
  /\ phase' = [phase EXCEPT ![e] = "plan"]
  /\ UNCHANGED <<mu, nextID, pipes, process, fate, call, late, ending>>

AskPlan(e, s) ==
  /\ phase[e] = "plan" /\ call[<<e, s>>].op = "none"
  /\ \A c \in OfEmit(e) : call[c].at \in {"idle", "end"}
  /\ call' = [call EXCEPT ![<<e, s>>].op = "plan", ![<<e, s>>].at = "gate"]
  /\ UNCHANGED <<mu, nextID, pipes, process, fate, emits, ending>>

Planned(e) == {c \in OfEmit(e) : call[c].op = "plan" /\ call[c].res = "ok"}

\* The publish timeout starts here, and every planned delivery gets its goroutine.
FanOut(e) ==
  /\ phase[e] = "plan"
  /\ \A c \in OfEmit(e) : call[c].at = "end"
  /\ phase' = [phase EXCEPT ![e] = IF Planned(e) = {} THEN "done" ELSE "send"]
  /\ call' = [c \in Callers |-> IF c \in Planned(e)
                THEN [at |-> "ctx", op |-> "send", id |-> 0, res |-> "none"] ELSE call[c]]
  /\ UNCHANGED <<mu, nextID, pipes, process, fate, late, ending>>

Deadline(e) ==
  /\ phase[e] = "send" /\ e \notin late /\ late' = late \union {e}
  /\ UNCHANGED <<mu, nextID, pipes, process, fate, call, phase, ending>>

\* send looks at the shared context once, before it queues for the mutex.
CheckContext(e, s) ==
  LET c == <<e, s>> IN
  /\ call[c].at = "ctx"
  /\ IF e \in late THEN Return(c, "late") ELSE Goto(c, "ctx", "gate")
  /\ UNCHANGED <<mu, nextID, pipes, process, fate, emits, ending>>

\* wg.Wait: the handler answers the mutation.
EmitEnds(e) ==
  /\ phase[e] = "send" /\ \A c \in OfEmit(e) : call[c].at = "end"
  /\ phase' = [phase EXCEPT ![e] = "done"]
  /\ UNCHANGED <<mu, nextID, pipes, process, fate, call, late, ending>>

------------------------------------------------------------------------------
(* Close, and the child.                                                   *)

\* A Close that takes a transport fail has marked for one already shut down.
CloseUnlessFailed ==
  /\ ~stopping /\ stopping' = TRUE
  /\ IF closed THEN UNCHANGED <<closed, inOpen, straggler, reap>>
     ELSE closed' = TRUE /\ inOpen' = FALSE /\ straggler' = FALSE /\ reap' = "waiting"
  /\ UNCHANGED <<mu, nextID, killed, cause, pipes, process, call, emits>>

\* The latch, stdin, and the wait for the exit, whether or not fail came first.
Close ==
  /\ ~stopping /\ stopping' = TRUE
  /\ closed' = TRUE /\ inOpen' = FALSE /\ straggler' = FALSE /\ reap' = "waiting"
  /\ UNCHANGED <<mu, nextID, killed, cause, pipes, process, call, emits>>

\* A child that did not say hello is closed at once.
Abandon == call[Boot].at = "end" /\ call[Boot].res # "ok" /\ Close

\* The server stops; requests it would not wait for longer may still be under way.
Shutdown == call[Boot].res = "ok" /\ Close

\* childGrace passes without an exit.
Grace ==
  /\ reap = "waiting" /\ ~killed /\ killed' = TRUE
  /\ UNCHANGED <<closed, mu, nextID, straggler, inOpen, cause, pipes, process, call, emits, ending>>

\* cmd.Wait returns after the exit; a process on the child's stderr delays it by WaitDelay.
Reaped ==
  /\ reap = "waiting" /\ child = "gone"
  /\ reap' = "done" /\ killed' = TRUE
  /\ UNCHANGED <<closed, mu, nextID, straggler, inOpen, cause, pipes, process, call, emits, stopping>>

\* The child reads a question, does it or refuses, and answers.
ChildAnswers(ok) ==
  /\ child = "up" /\ inp # <<>>
  /\ LET q == Head(inp) IN
     /\ out' = Append(out, [sound |-> TRUE, id |-> q.id, ok |-> ok])
     /\ did' = IF ok /\ call[q.by].id = q.id THEN did \union {q.by} ELSE did
  /\ inp' = Tail(inp)
  /\ UNCHANGED <<mu, nextID, process, fate, call, emits, ending>>

\* It writes something that is no frame, or the answer to a question it was not asked.
ChildMisbehaves(sound) ==
  /\ child = "up" /\ ~rude /\ rude' = TRUE
  /\ out' = Append(out, [sound |-> sound, id |-> 0, ok |-> TRUE])
  /\ UNCHANGED <<mu, nextID, inp, did, child, holds, fate, call, emits, ending>>

\* It exits of itself, crashes, or dies of the kill.
ChildExits ==
  /\ child = "up" /\ child' = "gone"
  /\ UNCHANGED <<mu, nextID, pipes, holds, rude, fate, call, emits, ending>>

Do(c) == Gate(c) \/ Lock(c) \/ Write(c) \/ Read(c)
Emitter(e) == FanOut(e) \/ EmitEnds(e) \/ \E s \in Subs : AskPlan(e, s) \/ CheckContext(e, s)

Terminated == stopping /\ reap = "done" /\ \A e \in Emits : phase[e] \in {"idle", "done"}

\* A process the child started keeps its stdout open, and no stderr that WaitDelay sees.
Orphaned == holds = {"stdout"}

\* The one state the emulator cannot leave: hello waits at the pipe of such an orphan,
\* and Close, which would close our end, comes after hello.
Wedged == Orphaned /\ child = "gone" /\ call[Boot].at = "read" /\ out = <<>>

TransportNext ==
  \/ \E c \in Callers : Gate(c) \/ Lock(c) \/ Write(c) \/ Read(c)
  \/ WatchdogFires \/ WatchdogEnds
  \/ \E e \in Emits : Begin(e) \/ FanOut(e) \/ Deadline(e) \/ EmitEnds(e)
  \/ \E e \in Emits, s \in Subs : AskPlan(e, s) \/ CheckContext(e, s)
  \/ Abandon \/ Shutdown \/ Grace \/ Reaped
  \/ \E b \in BOOLEAN : ChildAnswers(b) \/ ChildMisbehaves(b)
  \/ ChildExits
  \/ (Terminated \/ Wedged) /\ UNCHANGED transportVars

\* The goroutines run, a timer fires while its round trip is open, the system ends what
\* it killed; the child owes nothing, and nobody has to stop the server.
Fairness ==
  /\ \A c \in Callers : WF_transportVars(Do(c))
  /\ WF_transportVars(mu # Nobody /\ WatchdogFires)
  /\ \A e \in Emits : WF_transportVars(Emitter(e))
  /\ WF_transportVars(Abandon) /\ WF_transportVars(Grace) /\ WF_transportVars(Reaped)
  /\ WF_transportVars(killed /\ ChildExits)

TransportSpec == TransportInit /\ [][TransportNext]_transportVars /\ Fairness

------------------------------------------------------------------------------
(* Properties.                                                             *)

\* Every variable has its type.
TransportTypeOK ==
  /\ closed \in BOOLEAN /\ inOpen \in BOOLEAN /\ killed \in BOOLEAN /\ straggler \in BOOLEAN
  /\ holds \subseteq {"stdout", "stderr"} /\ stopping \in BOOLEAN /\ rude \in BOOLEAN
  /\ mu \in Callers \union {Nobody} /\ nextID \in Nat
  /\ child \in {"up", "gone"} /\ reap \in {"no", "waiting", "done"}
  /\ inp \in Seq([id : Nat, by : Callers, op : {"hello", "plan", "send"}])
  /\ out \in Seq([sound : BOOLEAN, id : Nat, ok : BOOLEAN])
  /\ call \in [Callers -> [at : {"idle", "ctx", "gate", "lock", "write", "read", "end"},
                           op : {"none", "hello", "plan", "send"}, id : Nat,
                           res : {"none", "ok", "refused", "closed", "late", "error"}]]
  /\ phase \in [Emits -> {"idle", "plan", "send", "done"}] /\ late \subseteq Emits
  /\ cause \in {"none", "gone", "rude"} /\ did \subseteq Callers

\* What an emit counts as published was done by the child, for this very question, even
\* when a stray answer, a late watchdog or a shutdown came between (do, lines 229 to 289).
PublishedWasConfirmed ==
  \A c \in Callers : call[c].res = "ok" => c \in did

\* A child is given up for speaking out of turn only if it did: concurrent deliveries never
\* take each other's answers (the mutex that pairs questions and answers).
BlamedOnlyIfRude == cause = "rude" => rude

\* Unless a process the child left behind keeps its stdout open, and not its stderr, every
\* mutation whose event is delivered gets its answer, whatever the child does (the
\* watchdog's kill, and WaitDelay, which closes our ends of the pipes after it).
MutationsAnswered == \A e \in Emits : (phase[e] = "plan" /\ ~Orphaned) ~> (phase[e] = "done")

\* Close reaps the child, also one fail had already killed, and lets go of every mutation
\* that waits for it, also one that reads a pipe a grandchild holds.
CloseReleases ==
  stopping ~> (reap = "done" /\ \A e \in Emits : phase[e] \in {"idle", "done"})

\* A child that stops answering holds the lock no longer than its watchdog allows, as the
\* comment in do has it.
LockLetGo == (mu # Nobody) ~> (mu = Nobody)

\* No round trip of a delivery begins once the emit's shared deadline has passed, as the
\* comment above send's check has it.
NoSendAfterDeadline ==
  [][\A e \in late, s \in Subs :
       call[<<e, s>>].op = "send" /\ call[<<e, s>>].at = "lock" => call'[<<e, s>>].at # "write"]_transportVars
==============================================================================
