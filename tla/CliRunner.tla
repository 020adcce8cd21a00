----------------------------- MODULE CliRunner -----------------------------
(***************************************************************************)
(* The TUI's command runner (cmd/fft/tui_runner.go): the goroutine of each *)
(* accepted run, from Start to its last event, beside the UI that starts,  *)
(* cancels and answers runs and reads their events, and Close.             *)
(*                                                                         *)
(* A run waits for the exclusive run started before it, for a slot, and    *)
(* for the config file's lock, in that order, and can be cancelled at each *)
(* of them.  Go's RWMutex keeps new readers out once a writer waits, so a  *)
(* writer announces itself before the readers have drained.                *)
(*                                                                         *)
(* What a command does is left out, but for the questions it asks and for  *)
(* whether it ends on its own: a streaming run serves until it is stopped. *)
(***************************************************************************)
EXTENDS Naturals, FiniteSets

CONSTANTS
    MaxRuns,        \* bounds the RunIDs handed out
    Slots,          \* runnerSlots
    Buffer,         \* runnerEventBuffer
    MaxQuestions,   \* bounds the questions asked
    MaxCancels,     \* bounds the runs the user cancels
    FirstKinds,     \* bounds the kinds the first run may be of
    Kinds           \* bounds those of the runs after it

Runs == 1 .. MaxRuns
Questions == 1 .. MaxQuestions
AllKinds == {"plain", "stream", "alone", "config"}

ASSUME RunnerAssumption ==
    /\ MaxRuns \in Nat
    /\ Slots \in Nat \ {0}
    /\ Buffer \in Nat \ {0}
    /\ MaxQuestions \in Nat
    /\ MaxCancels \in Nat
    /\ FirstKinds \subseteq AllKinds
    /\ Kinds \subseteq AllKinds

VARIABLES
    started,        \* r.nextID: the runs 1 .. started exist
    kind,           \* what classify and the invocation make of a run
    lastExclusive,  \* r.lastExclusive: the run whose done it is, 0 for nil
    after,          \* job.after, likewise
    pc,             \* where a run's goroutine is
    cancelled,      \* runs whose context the user cancelled
    slots,          \* r.slots: the runs that hold one
    writer,         \* r.config: the writer that holds or awaits it, 0 for none
    readers,        \* r.config: the readers that hold it
    closed,         \* r.closed
    stopped,        \* r.ctx is done
    eventsClosed,   \* r.events is closed
    buffered,       \* the events in r.events
    nextQuestion,   \* r.nextQuestion
    asking,         \* the pendingQuestion a run last asked, 0 for none
    asker,          \* the run that asked a question
    registered,     \* r.questions: the question on record for a run, 0 for none
    answer,         \* the one slot of the answer channel of the question a run asks
    acted,          \* history: questions a command went on after
    approved,       \* history: questions the user said yes to while they were open
    withdrawn,      \* history: questions whose run was cancelled while it asked
    spared          \* history: runs cancelled before their command began

schedule == <<started, kind, lastExclusive, after>>
locks == <<slots, writer, readers>>
lifecycle == <<closed, stopped, eventsClosed>>
asked == <<nextQuestion, asking, asker, registered, answer, acted, approved, withdrawn>>
vars == <<started, kind, lastExclusive, after, pc, cancelled, slots, writer,
          readers, closed, stopped, eventsClosed, buffered, nextQuestion,
          asking, asker, registered, answer, acted, approved, withdrawn, spared>>

Waiting == {"launched", "behind", "slotless", "slotted", "announcing",
            "locking", "draining", "locked"}
Commanding == {"executing", "posing", "asking"}
Ending == {"ending", "unlocking", "finishing", "leaving"}

TypeOK ==
    /\ started \in 0 .. MaxRuns
    /\ kind \in [Runs -> AllKinds]
    /\ lastExclusive \in 0 .. MaxRuns
    /\ after \in [Runs -> 0 .. MaxRuns]
    /\ pc \in [Runs -> {"new", "gone"} \union Waiting \union Commanding \union Ending]
    /\ cancelled \subseteq Runs
    /\ slots \subseteq Runs
    /\ writer \in 0 .. MaxRuns
    /\ readers \subseteq Runs
    /\ closed \in BOOLEAN
    /\ stopped \in BOOLEAN
    /\ eventsClosed \in BOOLEAN
    /\ buffered \in 0 .. Buffer
    /\ nextQuestion \in 0 .. MaxQuestions
    /\ asking \in [Runs -> 0 .. MaxQuestions]
    /\ asker \in [Questions -> 0 .. MaxRuns]
    /\ registered \in [Runs -> 0 .. MaxQuestions]
    /\ answer \in [Runs -> {"none", "yes", "no"}]
    /\ acted \subseteq Questions
    /\ approved \subseteq Questions
    /\ withdrawn \subseteq Questions
    /\ spared \subseteq Runs

Init ==
    /\ started = 0
    /\ kind = [i \in Runs |-> "plain"]
    /\ lastExclusive = 0
    /\ after = [i \in Runs |-> 0]
    /\ pc = [i \in Runs |-> "new"]
    /\ cancelled = {}
    /\ slots = {}
    /\ writer = 0
    /\ readers = {}
    /\ closed = FALSE
    /\ stopped = FALSE
    /\ eventsClosed = FALSE
    /\ buffered = 0
    /\ nextQuestion = 0
    /\ asking = [i \in Runs |-> 0]
    /\ asker = [q \in Questions |-> 0]
    /\ registered = [i \in Runs |-> 0]
    /\ answer = [i \in Runs |-> "none"]
    /\ acted = {}
    /\ approved = {}
    /\ withdrawn = {}
    /\ spared = {}

Exclusive(i) == kind[i] \in {"alone", "config"}
RewritesConfig(i) == kind[i] = "config"
CtxDone(i) == stopped \/ i \in cancelled
Goes(i, from, to) == pc[i] = from /\ pc' = [pc EXCEPT ![i] = to]

----------------------------------------------------------------------------
(* The UI, and Close *)

\* Mistaken variant: an exclusive run waits for the runs it overtook, only.
QueueUnchained(i, k) ==
    /\ kind' = [kind EXCEPT ![i] = k]
    /\ after' = [after EXCEPT ![i] = 0]
    /\ lastExclusive' = IF k \in {"alone", "config"} THEN i ELSE lastExclusive

\* What Start decides about run i under r.mu: an exclusive run takes its place
\* behind the one started before it.
Queue(i, k) ==
    /\ kind' = [kind EXCEPT ![i] = k]
    /\ IF k \in {"alone", "config"}
         THEN /\ after' = [after EXCEPT ![i] = lastExclusive]
              /\ lastExclusive' = i
         ELSE UNCHANGED <<after, lastExclusive>>

\* Mistaken variant: Start does not look whether the runner was closed.
StartUnchecked(k) ==
    /\ started < MaxRuns
    /\ started' = started + 1
    /\ Queue(started + 1, k)
    /\ pc' = [pc EXCEPT ![started + 1] = "launched"]
    /\ UNCHANGED <<cancelled, locks, lifecycle, buffered, asked, spared>>

Start(k) ==
    /\ ~closed
    /\ started < MaxRuns
    /\ started' = started + 1
    /\ Queue(started + 1, k)
    /\ pc' = [pc EXCEPT ![started + 1] = "launched"]
    /\ UNCHANGED <<cancelled, locks, lifecycle, buffered, asked, spared>>

\* The history of a context that ends: which runs it comes in time for.
CutOff(runs) ==
    /\ spared' = spared \union {i \in runs : pc[i] \in Waiting}
    /\ withdrawn' = withdrawn \union
                      {asking[i] : i \in {j \in runs : pc[j] \in {"posing", "asking"}}}
    /\ UNCHANGED <<nextQuestion, asking, asker, registered, answer, acted, approved>>

\* A run that has ended has no cancel func on record any more.
Cancel(i) ==
    /\ pc[i] \notin {"new", "gone"}
    /\ i \notin cancelled
    /\ Cardinality(cancelled) < MaxCancels
    /\ cancelled' = cancelled \union {i}
    /\ CutOff({i})
    /\ UNCHANGED <<schedule, pc, locks, lifecycle, buffered>>

\* The user answers question q of run i, having heard of it, perhaps twice and
\* perhaps after it was answered or withdrawn.  The deletion under r.mu and the
\* send on the answer's own channel are one step: nobody else can take or fill
\* that channel's one slot in between.
Answer(i, q, yes) ==
    /\ ~ (asking[i] = q /\ pc[i] = "posing")
    /\ approved' = IF yes /\ asking[i] = q /\ pc[i] = "asking"
                     THEN approved \union {q} ELSE approved
    /\ IF registered[i] = q
         THEN /\ registered' = [registered EXCEPT ![i] = 0]
              /\ answer' = [answer EXCEPT ![i] = IF yes THEN "yes" ELSE "no"]
         ELSE UNCHANGED <<registered, answer>>
    /\ UNCHANGED <<schedule, pc, cancelled, locks, lifecycle, buffered,
                   nextQuestion, asking, asker, acted, withdrawn, spared>>

\* The UI reads the events until it quits, which is when it closes the runner.
ReadEvent ==
    /\ ~closed
    /\ buffered > 0
    /\ buffered' = buffered - 1
    /\ UNCHANGED <<schedule, pc, cancelled, locks, lifecycle, asked, spared>>

CloseRunner ==
    /\ ~closed
    /\ closed' = TRUE
    /\ UNCHANGED <<schedule, pc, cancelled, locks, stopped, eventsClosed,
                   buffered, asked, spared>>

\* Close calls r.stop; the context `fft tui` runs under may also end by itself.
Stop ==
    /\ ~stopped
    /\ stopped' = TRUE
    /\ CutOff(1 .. started)
    /\ UNCHANGED <<schedule, pc, cancelled, locks, closed, eventsClosed, buffered>>

\* r.wg.Wait() returns once every goroutine has called wg.Done.
CloseEvents ==
    /\ closed
    /\ stopped
    /\ ~eventsClosed
    /\ \A i \in Runs : pc[i] \in {"new", "gone"}
    /\ eventsClosed' = TRUE
    /\ UNCHANGED <<schedule, pc, cancelled, locks, closed, stopped, buffered,
                   asked, spared>>

----------------------------------------------------------------------------
(* A run's goroutine: waiting its turn *)

\* Mistaken variant: the second select of emit without its ctx.Done case.
EmitForever ==
    /\ buffered < Buffer
    /\ buffered' = buffered + 1

\* emit: room in the buffer wins; a full one blocks until it is read from, or
\* drops the event once the runner is stopped.
Emit ==
    \/ /\ buffered < Buffer
       /\ buffered' = buffered + 1
    \/ /\ buffered = Buffer
       /\ stopped
       /\ UNCHANGED buffered

EmitQueued(i) ==
    /\ Goes(i, "launched", IF after[i] = 0 THEN "slotless" ELSE "behind")
    /\ Emit
    /\ UNCHANGED <<schedule, cancelled, locks, lifecycle, asked, spared>>

\* <-j.after: the exclusive run before this one has closed its done.
FollowOn(i) ==
    /\ Goes(i, "behind", "slotless")
    /\ pc[after[i]] = "gone"
    /\ UNCHANGED <<schedule, cancelled, locks, lifecycle, buffered, asked, spared>>

TakeSlot(i) ==
    /\ Goes(i, "slotless", "slotted")
    /\ Cardinality(slots) < Slots
    /\ slots' = slots \union {i}
    /\ UNCHANGED <<schedule, cancelled, writer, readers, lifecycle, buffered,
                   asked, spared>>

\* Cancelled while it waited: it ends without having been executed.
GiveUp(i) ==
    /\ CtxDone(i)
    /\ Goes(i, "behind", "finishing") \/ Goes(i, "slotless", "finishing")
    /\ UNCHANGED <<schedule, cancelled, locks, lifecycle, buffered, asked, spared>>

\* A cancel and a free slot can arrive together.
CheckSlotted(i) ==
    /\ Goes(i, "slotted", IF CtxDone(i) THEN "finishing" ELSE "announcing")
    /\ UNCHANGED <<schedule, cancelled, locks, lifecycle, buffered, asked, spared>>

EmitRunning(i) ==
    /\ Goes(i, "announcing", "locking")
    /\ Emit
    /\ UNCHANGED <<schedule, cancelled, locks, lifecycle, asked, spared>>

----------------------------------------------------------------------------
(* execute: the config file's lock, and the command under it *)

\* config.Lock, until it has the writers' mutex and keeps new readers out
AnnounceWriter(i) ==
    /\ Exclusive(i)
    /\ writer = 0
    /\ Goes(i, "locking", "draining")
    /\ writer' = i
    /\ UNCHANGED <<schedule, cancelled, slots, readers, lifecycle, buffered,
                   asked, spared>>

\* Mistaken variant: the readers there are may go on.
DrainNoReaders(i) ==
    /\ Goes(i, "draining", "locked")
    /\ UNCHANGED <<schedule, cancelled, locks, lifecycle, buffered, asked, spared>>

DrainReaders(i) ==
    /\ Goes(i, "draining", "locked")
    /\ readers = {}
    /\ UNCHANGED <<schedule, cancelled, locks, lifecycle, buffered, asked, spared>>

ReadLock(i) ==
    /\ kind[i] = "plain"
    /\ writer = 0
    /\ Goes(i, "locking", "locked")
    /\ readers' = readers \union {i}
    /\ UNCHANGED <<schedule, cancelled, slots, writer, lifecycle, buffered,
                   asked, spared>>

\* A streaming run deliberately goes unlocked.
NoLock(i) ==
    /\ kind[i] = "stream"
    /\ Goes(i, "locking", "locked")
    /\ UNCHANGED <<schedule, cancelled, locks, lifecycle, buffered, asked, spared>>

\* Mistaken variant: no look at the context after the wait for the lock.
BeginUnchecked(i) ==
    /\ Goes(i, "locked", "executing")
    /\ UNCHANGED <<schedule, cancelled, locks, lifecycle, buffered, asked, spared>>

\* The wait for the lock can outlast a cancel.
Begin(i) ==
    /\ Goes(i, "locked", IF CtxDone(i) THEN "ending" ELSE "executing")
    /\ UNCHANGED <<schedule, cancelled, locks, lifecycle, buffered, asked, spared>>

\* confirmer: the question is on record before the UI hears of it.
Ask(i) ==
    /\ Goes(i, "executing", "posing")
    /\ nextQuestion < MaxQuestions
    /\ nextQuestion' = nextQuestion + 1
    /\ asking' = [asking EXCEPT ![i] = nextQuestion + 1]
    /\ asker' = [asker EXCEPT ![nextQuestion + 1] = i]
    /\ registered' = [registered EXCEPT ![i] = nextQuestion + 1]
    /\ answer' = [answer EXCEPT ![i] = "none"]
    /\ UNCHANGED <<schedule, cancelled, locks, lifecycle, buffered, acted,
                   approved, withdrawn, spared>>

EmitQuestion(i) ==
    /\ Goes(i, "posing", "asking")
    /\ Emit
    /\ UNCHANGED <<schedule, cancelled, locks, lifecycle, asked, spared>>

Unregister(i) ==
    registered' = [registered EXCEPT ![i] = IF @ = asking[i] THEN 0 ELSE @]

\* Mistaken variant: a command that was answered at all goes on.
TakeEitherAnswer(i) ==
    /\ answer[i] # "none"
    /\ Goes(i, "asking", "executing")
    /\ acted' = acted \union {asking[i]}
    /\ answer' = [answer EXCEPT ![i] = "none"]
    /\ Unregister(i)
    /\ UNCHANGED <<schedule, cancelled, locks, lifecycle, buffered, nextQuestion,
                   asking, asker, approved, withdrawn, spared>>

\* The answer arrives first, and an earlier cancel outweighs it.  A command that
\* gets a no, or an error, ends.
TakeAnswer(i) ==
    /\ answer[i] # "none"
    /\ IF answer[i] = "yes" /\ ~CtxDone(i)
         THEN /\ Goes(i, "asking", "executing")
              /\ acted' = acted \union {asking[i]}
         ELSE /\ Goes(i, "asking", "ending")
              /\ UNCHANGED acted
    /\ answer' = [answer EXCEPT ![i] = "none"]
    /\ Unregister(i)
    /\ UNCHANGED <<schedule, cancelled, locks, lifecycle, buffered, nextQuestion,
                   asking, asker, approved, withdrawn, spared>>

\* The run's context ends first.
Withdraw(i) ==
    /\ CtxDone(i)
    /\ Goes(i, "asking", "ending")
    /\ answer' = [answer EXCEPT ![i] = "none"]
    /\ Unregister(i)
    /\ UNCHANGED <<schedule, cancelled, locks, lifecycle, buffered, nextQuestion,
                   asking, asker, acted, approved, withdrawn, spared>>

\* The flush of a streaming run's output never blocks, and goes on while the
\* command waits for an answer.  The last one, when it has returned, is one of them.
Flush(i) ==
    /\ kind[i] = "stream"
    /\ pc[i] \in Commanding
    /\ buffered < Buffer
    /\ buffered' = buffered + 1
    /\ UNCHANGED <<schedule, pc, cancelled, locks, lifecycle, asked, spared>>

\* The command returns, whatever its context says.
End(i) ==
    /\ Goes(i, "executing", "ending")
    /\ UNCHANGED <<schedule, cancelled, locks, lifecycle, buffered, asked, spared>>

----------------------------------------------------------------------------
(* The deferred calls, in the order they run *)

\* execute's own: the tokens are forgotten before the lock is released.
ForgetTokens(i) ==
    /\ RewritesConfig(i)
    /\ Goes(i, "ending", "unlocking")
    /\ UNCHANGED <<schedule, cancelled, locks, lifecycle, buffered, asked, spared>>

KeepTokens(i) ==
    /\ ~RewritesConfig(i)
    /\ Goes(i, "ending", "unlocking")
    /\ UNCHANGED <<schedule, cancelled, locks, lifecycle, buffered, asked, spared>>

\* Mistaken variant: the lock of a run that was stopped stays taken.
UnlockUnlessCut(i) ==
    /\ Goes(i, "unlocking", "finishing")
    /\ writer' = IF writer = i /\ ~CtxDone(i) THEN 0 ELSE writer
    /\ readers' = readers \ {i}
    /\ UNCHANGED <<schedule, cancelled, slots, lifecycle, buffered, asked, spared>>

Unlock(i) ==
    /\ Goes(i, "unlocking", "finishing")
    /\ writer' = IF writer = i THEN 0 ELSE writer
    /\ readers' = readers \ {i}
    /\ UNCHANGED <<schedule, cancelled, slots, lifecycle, buffered, asked, spared>>

EmitDone(i) ==
    /\ Goes(i, "finishing", "leaving")
    /\ Emit
    /\ UNCHANGED <<schedule, cancelled, locks, lifecycle, asked, spared>>

\* run's own: the slot, close(j.done), the cancel func, and wg.Done.  They are
\* one step here, since nothing a run does depends on two of them.
Leave(i) ==
    /\ Goes(i, "leaving", "gone")
    /\ slots' = slots \ {i}
    /\ UNCHANGED <<schedule, cancelled, writer, readers, lifecycle, buffered,
                   asked, spared>>

----------------------------------------------------------------------------
Wait(i) ==
    \/ EmitQueued(i)
    \/ FollowOn(i)
    \/ TakeSlot(i)
    \/ GiveUp(i)
    \/ CheckSlotted(i)
    \/ EmitRunning(i)
    \/ AnnounceWriter(i)
    \/ DrainReaders(i)
    \/ ReadLock(i)
    \/ NoLock(i)
    \/ Begin(i)

Command(i) ==
    \/ Ask(i)
    \/ EmitQuestion(i)
    \/ TakeAnswer(i)
    \/ Withdraw(i)
    \/ Flush(i)
    \/ End(i)

Finish(i) ==
    \/ ForgetTokens(i)
    \/ KeepTokens(i)
    \/ Unlock(i)
    \/ EmitDone(i)
    \/ Leave(i)

Run(i) == Wait(i) \/ Command(i) \/ Finish(i)

UI ==
    \/ \E k \in (IF started = 0 THEN FirstKinds ELSE Kinds) : Start(k)
    \/ \E i \in Runs : Cancel(i)
    \/ \E q \in 1 .. nextQuestion, yes \in BOOLEAN : Answer(asker[q], q, yes)
    \/ ReadEvent
    \/ CloseRunner

Next == UI \/ Stop \/ CloseEvents \/ \E i \in Runs : Run(i)

EmitAny(i) == EmitQueued(i) \/ EmitRunning(i) \/ EmitQuestion(i) \/ EmitDone(i)

EndInTime(i) == End(i) /\ (kind[i] # "stream" \/ CtxDone(i))

\* Goroutines run, and a command ends: a plain one by itself, a streaming one
\* once its context is done.  A Go channel serves its blocked senders in order,
\* ahead of a send that would not block, which makes sending an event strongly
\* fair.  Close, once called, goes on to stop the runs.  The UI reads the events
\* for as long as it is up; it need not answer or cancel anything.
Fairness ==
    /\ \A i \in Runs :
        /\ SF_vars(EmitAny(i))
        /\ WF_vars(Wait(i) \/ Finish(i) \/ TakeAnswer(i) \/ Withdraw(i))
        /\ WF_vars(EndInTime(i))
    /\ WF_vars(closed /\ Stop)
    /\ WF_vars(CloseEvents)
    /\ WF_vars(ReadEvent)

Spec == Init /\ [][Next]_vars
FairSpec == Spec /\ Fairness

----------------------------------------------------------------------------
(* Properties *)

Executing(i) == pc[i] \in Commanding

\* An exclusive command executes with no other command beside it, a streaming
\* one excepted: no two commands read the config file and write it back at once.
ExclusiveRunsAlone ==
    \A i, j \in Runs :
        i # j /\ Exclusive(i) /\ Executing(i) /\ Executing(j) => kind[j] = "stream"

\* A run cancelled at any moment before its command began, while it was waiting
\* for its turn, a slot or the lock, never begins it: it has sent nothing.
CancelledNeverBegins == \A i \in spared : ~Executing(i)

\* An exclusive command executes after every exclusive run started before it.
ExclusivesInOrder ==
    \A i, j \in Runs :
        i < j /\ Exclusive(i) /\ Exclusive(j) /\ Executing(j) => pc[i] = "gone"

\* Two exclusive commands execute out of the order they were started in only if
\* an exclusive run between them was cancelled.
InOrderUnlessCancelled ==
    \A i, j \in Runs :
        i < j /\ Exclusive(i) /\ Exclusive(j) /\ Executing(j) =>
            \/ pc[i] = "gone"
            \/ stopped
            \/ \E k \in cancelled : i < k /\ k < j /\ Exclusive(k)

\* Once the events are closed no goroutine is left that would send one, and
\* none is started.
NoEventAfterClose == eventsClosed => \A i \in Runs : pc[i] \in {"new", "gone"}

\* A command goes on after a question only if the user said yes to that very
\* question, and not if its run was cancelled before it took the answer.
ActsOnItsOwnYes == acted \subseteq approved \ withdrawn

\* Close returns, although nobody reads the events or answers any more.
CloseReturns == closed ~> eventsClosed

\* A run that is no stream ends, unless streams hold every slot or the user
\* leaves a question open.
RunsEnd ==
    \A i \in Runs :
        (pc[i] # "new" /\ kind[i] # "stream") ~>
            \/ pc[i] = "gone"
            \/ \E j \in Runs : pc[j] = "asking"
            \/ Cardinality({j \in slots : kind[j] = "stream"}) = Slots

=============================================================================
