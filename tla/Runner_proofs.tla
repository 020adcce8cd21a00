--------------------------- MODULE Runner_proofs ---------------------------
(***************************************************************************)
(* The runner alone (CliRunner), and then with the token table that its    *)
(* commands use (RunnerSession).                                           *)
(*                                                                         *)
(* What holds of the runner for any number of runs, slots, questions and   *)
(* events, and whatever the kinds of run.  The invariant has four parts    *)
(* beside the types, inductive one by one given the types and the queue:   *)
(*   Queue    the chain of exclusive runs, and how far a run is past it;   *)
(*   Lock     who holds the config file's lock;                            *)
(*   Cut      what a cancel that came in time leaves a run no way to do;   *)
(*   Asked    which question a run's answer belongs to.                    *)
(***************************************************************************)
EXTENDS RunnerSession, FiniteSetTheorems, TLAPS

PCs == {"new", "gone"} \union Waiting \union Commanding \union Ending

\* Past the run before it: its turn has come, and its command has not ended.
Past == {"slotless", "slotted", "announcing", "locking", "draining", "locked",
         "ending", "unlocking"} \union Commanding
Done == {"finishing", "leaving", "gone"}

\* The states in which an exclusive run has the lock or keeps new readers out,
\* and those in which a run holds the lock.
Claims == {"draining", "locked", "ending", "unlocking"} \union Commanding
Holds == Claims \ {"draining"}

----------------------------------------------------------------------------
(* The invariant *)

NewRuns == \A i \in Runs : pc[i] = "new" <=> i > started

LastExclusive ==
    /\ lastExclusive <= started
    /\ lastExclusive # 0 => Exclusive(lastExclusive)
    /\ \A k \in 1 .. started : Exclusive(k) => k <= lastExclusive

Chain ==
    \A j \in 1 .. started :
        /\ after[j] # 0 => Exclusive(j)
        /\ after[j] # 0 => after[j] < j /\ Exclusive(after[j])
        /\ \A k \in Runs : k < j /\ Exclusive(j) /\ Exclusive(k) => k <= after[j]

NotQueued == \A j \in Runs : j > started => after[j] = 0

Behind == \A j \in Runs : pc[j] = "behind" => after[j] # 0

\* Exclusive run i is out of the way of j, or a run cut off since excuses it.
Cleared(i, j, last) ==
    \/ pc[i] = "gone"
    \/ stopped
    \/ \E k \in cancelled : i < k /\ k <= last /\ Exclusive(k)

InTurn ==
    \A i, j \in Runs :
        i < j /\ Exclusive(i) /\ Exclusive(j) =>
            /\ pc[j] \in Past => Cleared(i, j, j - 1)
            /\ pc[j] \in Done => Cleared(i, j, j)

QueueInv == NewRuns /\ LastExclusive /\ Chain /\ NotQueued /\ Behind /\ InTurn

WriterClaims ==
    /\ writer # 0 => Exclusive(writer) /\ pc[writer] \in Claims
    /\ \A i \in Runs : Exclusive(i) /\ pc[i] \in Claims => writer = i
    /\ \A i \in Runs : pc[i] = "draining" => Exclusive(i)

ReadersHold == \A i \in Runs : kind[i] = "plain" /\ pc[i] \in Holds => i \in readers

WriterAlone == \A i \in Runs : Exclusive(i) /\ pc[i] \in Holds => readers = {}

LockInv == WriterClaims /\ ReadersHold /\ WriterAlone

SparedStopped == \A i \in spared : CtxDone(i)

EventsLast == eventsClosed => closed

CutInv == SparedStopped /\ CancelledNeverBegins /\ EventsLast /\ NoEventAfterClose

Asks(i) == pc[i] \in {"posing", "asking"}

OneAsker ==
    /\ \A i \in Runs : asking[i] <= nextQuestion
    /\ \A i, j \in Runs : i # j /\ asking[i] # 0 => asking[i] # asking[j]
    /\ \A i \in Runs : Asks(i) => asking[i] # 0
    /\ \A q \in 1 .. nextQuestion : asker[q] \in Runs

ItsAnswer ==
    \A i \in Runs :
        /\ registered[i] # 0 => Asks(i) /\ registered[i] = asking[i]
        /\ answer[i] = "yes" => asking[i] \in approved

OldQuestions ==
    /\ \A q \in acted \union withdrawn : q <= nextQuestion
    /\ \A i \in Runs : Asks(i) => asking[i] \notin acted
    /\ \A i \in Runs : Asks(i) /\ asking[i] \in withdrawn => CtxDone(i)

AskedInv == OneAsker /\ ItsAnswer /\ OldQuestions /\ ActsOnItsOwnYes

\* The types rest on AskedInv: what CutOff withdraws is a question.
RunnerInv == TypeOK /\ QueueInv /\ LockInv /\ CutInv /\ AskedInv

\* TypeOK in two parts: what SMT reasons about, and the flags, which it does not.
Flags == closed \in BOOLEAN /\ stopped \in BOOLEAN /\ eventsClosed \in BOOLEAN

Types ==
    /\ started \in 0 .. MaxRuns
    /\ kind \in [Runs -> AllKinds]
    /\ lastExclusive \in 0 .. MaxRuns
    /\ after \in [Runs -> 0 .. MaxRuns]
    /\ pc \in [Runs -> PCs]
    /\ cancelled \subseteq Runs
    /\ slots \subseteq Runs
    /\ writer \in 0 .. MaxRuns
    /\ readers \subseteq Runs
    /\ buffered \in 0 .. Buffer
    /\ nextQuestion \in 0 .. MaxQuestions
    /\ asking \in [Runs -> 0 .. MaxQuestions]
    /\ asker \in [Questions -> 0 .. MaxRuns]
    /\ registered \in [Runs -> 0 .. MaxQuestions]
    /\ answer \in [Runs -> {"none", "yes", "no"}]
    /\ acted \subseteq Questions
    /\ approved \subseteq Questions
    /\ withdrawn \subseteq Questions
    /\ spared \subseteq Runs

LEMMA TypeParts == TypeOK <=> Types /\ Flags
  BY Zenon DEF TypeOK, Types, Flags, PCs

----------------------------------------------------------------------------
(* What a step of one run's goroutine does to its place *)

\* The steps of a goroutine, as far as the order of the runs depends on them
Edge(i, t) ==
    \/ pc[i] = "launched" /\ after[i] = 0 /\ t = "slotless"
    \/ pc[i] = "launched" /\ after[i] # 0 /\ t = "behind"
    \/ pc[i] = "behind" /\ pc[after[i]] = "gone" /\ t = "slotless"
    \/ pc[i] = "behind" /\ CtxDone(i) /\ t = "finishing"
    \/ pc[i] \in Past /\ t \in Past /\ (t \in Commanding => pc[i] \in Commanding \/ ~CtxDone(i))
    \/ pc[i] \in Past /\ t = "finishing"
    \/ pc[i] = "finishing" /\ t = "leaving"
    \/ pc[i] = "leaving" /\ t = "gone"

\* A goroutine moves along an edge, or not at all, and schedules nobody.
LEMMA RunMoves ==
    ASSUME NEW i \in Runs, Run(i)
    PROVE  /\ UNCHANGED <<schedule, cancelled, lifecycle, spared>>
           /\ \/ UNCHANGED pc /\ pc[i] \in Commanding
              \/ \E t \in PCs : Edge(i, t) /\ pc' = [pc EXCEPT ![i] = t]
<1> USE DEF Goes, Edge, Past, PCs, Waiting, Commanding, Ending
<1>1. CASE EmitQueued(i)
  BY <1>1 DEF EmitQueued
<1>2. CASE FollowOn(i)
  BY <1>2 DEF FollowOn
<1>3. CASE TakeSlot(i)
  BY <1>3 DEF TakeSlot
<1>4. CASE GiveUp(i)
  BY <1>4 DEF GiveUp
<1>5. CASE CheckSlotted(i)
  BY <1>5 DEF CheckSlotted
<1>6. CASE EmitRunning(i)
  BY <1>6 DEF EmitRunning
<1>7. CASE AnnounceWriter(i)
  BY <1>7 DEF AnnounceWriter
<1>8. CASE DrainReaders(i)
  BY <1>8 DEF DrainReaders
<1>9. CASE ReadLock(i)
  BY <1>9 DEF ReadLock
<1>10. CASE NoLock(i)
  BY <1>10 DEF NoLock
<1>11. CASE Begin(i)
  BY <1>11 DEF Begin
<1>12. CASE Ask(i)
  BY <1>12 DEF Ask
<1>13. CASE EmitQuestion(i)
  BY <1>13 DEF EmitQuestion
<1>14. CASE TakeAnswer(i)
  BY <1>14 DEF TakeAnswer
<1>15. CASE Withdraw(i)
  BY <1>15 DEF Withdraw
<1>16. CASE Flush(i)
  BY <1>16 DEF Flush
<1>17. CASE End(i)
  BY <1>17 DEF End
<1>18. CASE ForgetTokens(i) \/ KeepTokens(i)
  BY <1>18 DEF ForgetTokens, KeepTokens
<1>19. CASE Unlock(i)
  BY <1>19 DEF Unlock
<1>20. CASE EmitDone(i)
  BY <1>20 DEF EmitDone
<1>21. CASE Leave(i)
  BY <1>21 DEF Leave
<1>22. QED
  BY <1>1, <1>2, <1>3, <1>4, <1>5, <1>6, <1>7, <1>8, <1>9, <1>10, <1>11, <1>12,
     <1>13, <1>14, <1>15, <1>16, <1>17, <1>18, <1>19, <1>20, <1>21
     DEF Run, Wait, Command, Finish

\* The steps that take or give back a slot or the lock
LEMMA RunLocks ==
    ASSUME NEW i \in Runs, Run(i)
    PROVE  TakeSlot(i) \/ Leave(i) \/ AnnounceWriter(i) \/ ReadLock(i) \/ Unlock(i)
           \/ UNCHANGED locks
  BY DEF Run, Wait, Command, Finish, EmitQueued, FollowOn, GiveUp, CheckSlotted, EmitRunning,
     DrainReaders, NoLock, Begin, Ask, EmitQuestion, TakeAnswer, Withdraw, Flush, End,
     ForgetTokens, KeepTokens, EmitDone

\* A step is one of a goroutine, or one of these.
LEMMA Steps ==
    ASSUME [Next]_vars
    PROVE  \/ \E i \in Runs : Run(i)
           \/ \E k \in AllKinds : Start(k)
           \/ \E i \in Runs : Cancel(i)
           \/ \E q \in 1 .. nextQuestion, yes \in BOOLEAN : Answer(asker[q], q, yes)
           \/ ReadEvent
           \/ CloseRunner
           \/ Stop
           \/ CloseEvents
           \/ UNCHANGED vars
  BY RunnerAssumption DEF Next, UI

----------------------------------------------------------------------------
(* The initial states *)

LEMMA Start0 == Init => RunnerInv
<1> SUFFICES ASSUME Init PROVE RunnerInv
  OBVIOUS
<1> USE RunnerAssumption DEF Init, Runs, Questions, AllKinds
<1>1. TypeOK
  <2>1. Types
    BY DEF Types, PCs
  <2>2. Flags
    BY Zenon DEF Flags
  <2>3. QED
    BY <2>1, <2>2, TypeParts
<1>2. QueueInv
  BY DEF QueueInv, NewRuns, LastExclusive, Chain, NotQueued, Behind, InTurn, Exclusive, Past, Done,
         Commanding
<1>3. LockInv
  BY DEF LockInv, WriterClaims, ReadersHold, WriterAlone, Exclusive, Claims, Holds, Commanding
<1>4. CutInv
  BY DEF CutInv, SparedStopped, CancelledNeverBegins, EventsLast, NoEventAfterClose
<1>5. AskedInv
  BY DEF AskedInv, OneAsker, ItsAnswer, OldQuestions, ActsOnItsOwnYes, Asks
<1>6. QED
  BY <1>1, <1>2, <1>3, <1>4, <1>5 DEF RunnerInv

----------------------------------------------------------------------------
(* The types *)

\* A context's end withdraws questions that were asked.
LEMMA CutOffTypes ==
    ASSUME Types, OneAsker, NEW R \in SUBSET Runs, CutOff(R)
    PROVE  /\ spared' \subseteq Runs
           /\ withdrawn' \subseteq Questions
           /\ UNCHANGED <<nextQuestion, asking, asker, registered, answer, acted, approved>>
           /\ \A q \in withdrawn' \ withdrawn :
                \E i \in R : Asks(i) /\ asking[i] = q /\ q <= nextQuestion
<1>1. \A j \in Runs : Asks(j) => asking[j] \in Questions /\ asking[j] <= nextQuestion
  BY RunnerAssumption DEF Types, PCs, OneAsker, Questions, Runs
<1>2. QED
  BY <1>1 DEF CutOff, Types, Asks

\* Sending an event never writes past the buffer.
LEMMA EmitTypes ==
    ASSUME Types, Emit
    PROVE  buffered' \in 0 .. Buffer
  BY RunnerAssumption DEF Emit, Types

LEMMA KeepsTypes ==
    ASSUME Types, OneAsker, [Next]_vars
    PROVE  Types'
<1> USE RunnerAssumption DEF schedule, locks, lifecycle, asked
<1>1. ASSUME NEW i \in Runs, Run(i)
      PROVE  Types'
  <2>1. /\ UNCHANGED <<schedule, cancelled, lifecycle, spared>>
        /\ pc' \in [Runs -> PCs]
    BY <1>1, RunMoves DEF Types, PCs
  <2>2. slots' \subseteq Runs /\ writer' \in 0 .. MaxRuns /\ readers' \subseteq Runs
    <3>1. CASE TakeSlot(i) \/ Leave(i)
      BY <3>1 DEF Types, TakeSlot, Leave
    <3>2. CASE AnnounceWriter(i) \/ ReadLock(i) \/ Unlock(i)
      <4>1. i \in 0 .. MaxRuns /\ 0 \in 0 .. MaxRuns
        BY DEF Runs
      <4>2. QED
        BY <3>2, <4>1 DEF Types, AnnounceWriter, ReadLock, Unlock
    <3>3. CASE UNCHANGED locks
      BY <3>3 DEF Types
    <3>4. QED
      BY <1>1, <3>1, <3>2, <3>3, RunLocks
  <2>3. buffered' \in 0 .. Buffer
    BY <1>1, EmitTypes DEF Types, Run, Wait, Command, Finish, EmitQueued, FollowOn,
       TakeSlot, GiveUp, CheckSlotted, EmitRunning, AnnounceWriter, DrainReaders, ReadLock,
       NoLock, Begin, Ask, EmitQuestion, TakeAnswer, Withdraw, Flush, End, ForgetTokens,
       KeepTokens, Unlock, EmitDone, Leave
  <2>4. CASE Ask(i)
    <3>1. nextQuestion + 1 \in Questions
      BY <2>4 DEF Ask, Types, Questions
    <3>2. /\ asking' \in [Runs -> 0 .. MaxQuestions]
          /\ registered' \in [Runs -> 0 .. MaxQuestions]
      BY <2>4, <3>1 DEF Ask, Types, Questions
    <3>3. asker' \in [Questions -> 0 .. MaxRuns]
      BY <2>4, <3>1 DEF Ask, Types, Runs
    <3>4. answer' \in [Runs -> {"none", "yes", "no"}]
      BY <2>4 DEF Ask, Types
    <3>5. QED
      BY <2>1, <2>2, <2>3, <2>4, <3>1, <3>2, <3>3, <3>4 DEF Ask, Types, Questions
  <2>5. CASE TakeAnswer(i)
    <3>1. asking[i] \in Questions
      BY <2>5 DEF Types, OneAsker, Asks, TakeAnswer, Goes, Questions, Runs
    <3>2. QED
      BY <2>1, <2>2, <2>3, <2>5, <3>1 DEF TakeAnswer, Unregister, Types, PCs
  <2>6. CASE Withdraw(i)
    BY <2>1, <2>2, <2>3, <2>6 DEF Withdraw, Unregister, Types, PCs
  <2>7. CASE UNCHANGED asked
    BY <2>1, <2>2, <2>3, <2>7 DEF Types, PCs
  <2>8. QED
    BY <1>1, <2>4, <2>5, <2>6, <2>7 DEF Run, Wait, Command, Finish, EmitQueued, FollowOn,
       TakeSlot, GiveUp, CheckSlotted, EmitRunning, AnnounceWriter, DrainReaders, ReadLock,
       NoLock, Begin, EmitQuestion, Flush, End, ForgetTokens, KeepTokens, Unlock, EmitDone,
       Leave
<1>2. ASSUME NEW k \in AllKinds, Start(k)
      PROVE  Types'
  <2>1. started + 1 \in Runs /\ k \in AllKinds
    BY <1>2 DEF Types, Start, Runs
  <2>2. kind' \in [Runs -> AllKinds] /\ pc' \in [Runs -> PCs]
    BY <1>2, <2>1 DEF Types, Start, Queue, PCs, Waiting
  <2>3. after' \in [Runs -> 0 .. MaxRuns] /\ lastExclusive' \in 0 .. MaxRuns
    <3>1. started + 1 \in 0 .. MaxRuns
      BY <2>1 DEF Runs
    <3>2. CASE k \in {"alone", "config"}
      BY <1>2, <2>1, <3>1, <3>2 DEF Types, Start, Queue
    <3>3. CASE k \notin {"alone", "config"}
      BY <1>2, <3>3 DEF Types, Start, Queue
    <3>4. QED
      BY <3>2, <3>3
  <2>4. started' \in 0 .. MaxRuns
    BY <1>2, <2>1 DEF Start, Runs
  <2>5. QED
    BY <1>2, <2>2, <2>3, <2>4 DEF Types, Start
<1>3. ASSUME NEW i \in Runs, Cancel(i)
      PROVE  Types'
  <2>1. {i} \in SUBSET Runs /\ CutOff({i})
    BY <1>3 DEF Cancel
  <2>2. QED
    BY <1>3, <2>1, CutOffTypes DEF Types, Cancel
<1>4. ASSUME NEW q \in 1 .. nextQuestion, NEW yes \in BOOLEAN, Answer(asker[q], q, yes)
      PROVE  Types'
  <2>1. q \in Questions /\ asker[q] \in Runs
    BY DEF Types, Questions, OneAsker
  <2>2. approved' \subseteq Questions
    BY <1>4, <2>1 DEF Types, Answer
  <2>3. /\ registered' \in [Runs -> 0 .. MaxQuestions]
        /\ answer' \in [Runs -> {"none", "yes", "no"}]
    BY <1>4, <2>1 DEF Types, Answer
  <2>4. QED
    BY <1>4, <2>2, <2>3 DEF Types, Answer
<1>5. CASE Stop
  <2>1. 1 .. started \in SUBSET Runs /\ CutOff(1 .. started)
    BY <1>5 DEF Types, Stop, Runs
  <2>2. QED
    BY <1>5, <2>1, CutOffTypes DEF Types, Stop
<1>6. CASE ReadEvent \/ CloseRunner \/ CloseEvents \/ UNCHANGED vars
  <2>1. CASE ReadEvent
    BY <2>1 DEF Types, ReadEvent
  <2>2. CASE CloseRunner \/ CloseEvents \/ UNCHANGED vars
    BY <2>2 DEF Types, CloseRunner, CloseEvents, vars
  <2>3. QED
    BY <1>6, <2>1, <2>2
<1>7. QED
  BY <1>1, <1>2, <1>3, <1>4, <1>5, <1>6, Steps

----------------------------------------------------------------------------
(* The order of the exclusive runs *)

LEMMA RunKeepsTurn ==
    ASSUME Types, QueueInv, NEW r \in Runs, Run(r)
    PROVE  InTurn'
<1> USE RunnerAssumption
<1>0. /\ UNCHANGED <<started, kind, lastExclusive, after, cancelled, stopped>>
      /\ \/ UNCHANGED pc
         \/ \E t \in PCs : Edge(r, t) /\ pc' = [pc EXCEPT ![r] = t]
  BY RunMoves DEF schedule, lifecycle
<1> SUFFICES ASSUME NEW i \in Runs, NEW j \in Runs, i < j, Exclusive(i), Exclusive(j)
             PROVE  /\ pc'[j] \in Past => Cleared(i, j, j - 1)'
                    /\ pc'[j] \in Done => Cleared(i, j, j)'
  BY <1>0 DEF InTurn, Exclusive
<1>1. ASSUME NEW last \in Nat, Cleared(i, j, last)
      PROVE  Cleared(i, j, last)'
  <2>1. CASE pc[i] = "gone"
    BY <1>0, <2>1 DEF Cleared, Edge, Types, Past, Commanding
  <2>2. CASE stopped
    BY <1>0, <2>2 DEF Cleared
  <2>3. CASE \E k \in cancelled : i < k /\ k <= last /\ Exclusive(k)
    BY <1>0, <2>3 DEF Cleared, Exclusive
  <2>4. QED
    BY <1>1, <2>1, <2>2, <2>3 DEF Cleared
<1>2. /\ pc[j] \in Past => Cleared(i, j, j - 1)
      /\ pc[j] \in Done => Cleared(i, j, j)
  BY DEF QueueInv, InTurn
<1>3. j \in Nat /\ j - 1 \in Nat /\ i \in Nat \ {0}
  BY DEF Runs
<1>4. CASE pc'[j] = pc[j]
  BY <1>1, <1>2, <1>3, <1>4
<1>5. ASSUME NEW t \in PCs, r = j, Edge(j, t), pc' = [pc EXCEPT ![j] = t]
      PROVE  /\ t \in Past => Cleared(i, j, j - 1)
             /\ t \in Done => Cleared(i, j, j)
  <2>1. j \in 1 .. started
    <3>1. pc[j] # "new"
      BY <1>5 DEF Edge, Past, Commanding
    <3>2. QED
      BY <3>1 DEF QueueInv, NewRuns, Types, Runs
  <2>2. Cleared(i, j, j - 1) => Cleared(i, j, j)
    BY <1>3 DEF Cleared, Types, Runs
  <2>3. i <= after[j]
    BY <2>1 DEF QueueInv, Chain
  <2>4. CASE pc[j] = "launched"
    BY <1>3, <1>5, <2>3, <2>4 DEF Edge, Past, Done, Commanding
  <2>5. CASE pc[j] = "behind" /\ pc[after[j]] = "gone" /\ t = "slotless"
    <3>1. after[j] \in Runs /\ after[j] < j /\ Exclusive(after[j])
      <4>1. after[j] \in 0 .. MaxRuns /\ after[j] # 0
        BY <1>3, <2>3 DEF Types
      <4>2. QED
        BY <2>1, <4>1 DEF QueueInv, Chain, Runs
    <3>2. CASE i = after[j]
      BY <2>5, <3>2 DEF Cleared, Done, Past, Commanding
    <3>3. CASE i < after[j]
      <4>1. Cleared(i, after[j], after[j])
        BY <2>5, <3>1, <3>3 DEF QueueInv, InTurn, Done
      <4>2. Cleared(i, j, j - 1)
        BY <1>3, <3>1, <4>1 DEF Cleared, Types, Runs
      <4>3. QED
        BY <4>2, <2>2
    <3>4. QED
      BY <1>3, <2>3, <3>1, <3>2, <3>3 DEF Runs
  <2>6. CASE pc[j] = "behind" /\ CtxDone(j) /\ t = "finishing"
    BY <1>3, <2>6 DEF CtxDone, Cleared, Past, Commanding
  <2>7. CASE pc[j] \in Past \union Done
    BY <1>2, <1>5, <2>2, <2>7 DEF Edge, Past, Done, Commanding
  <2>8. QED
    BY <1>5, <2>4, <2>5, <2>6, <2>7 DEF Edge, Past, Done, Commanding
<1>6. QED
  BY <1>0, <1>1, <1>3, <1>4, <1>5 DEF Types

LEMMA StartKeepsQueue ==
    ASSUME Types, QueueInv, NEW k \in AllKinds, Start(k)
    PROVE  QueueInv'
<1> USE RunnerAssumption
<1>n. PICK n \in Runs : n = started + 1
  BY DEF Start, Types, Runs
<1>0. /\ n \in Runs /\ n = started + 1 /\ started \in Nat /\ n > started /\ started' = n
      /\ pc' = [pc EXCEPT ![n] = "launched"]
      /\ kind' = [kind EXCEPT ![n] = k]
      /\ pc[n] = "new"
      /\ UNCHANGED <<cancelled, stopped>>
  BY <1>n DEF Start, Queue, QueueInv, NewRuns, Types, Runs, lifecycle
<1>1. \A i \in Runs : i # n => /\ pc'[i] = pc[i]
                               /\ Exclusive(i)' <=> Exclusive(i)
  BY <1>0 DEF Types, Exclusive
<1>2. /\ pc'[n] = "launched" /\ (Exclusive(n)' <=> k \in {"alone", "config"})
      /\ IF k \in {"alone", "config"}
           THEN after' = [after EXCEPT ![n] = lastExclusive] /\ lastExclusive' = n
           ELSE UNCHANGED <<after, lastExclusive>>
  <2>1. pc'[n] = "launched" /\ kind'[n] = k
    BY <1>0 DEF Types
  <2>2. Exclusive(n)' <=> k \in {"alone", "config"}
    BY <2>1 DEF Exclusive
  <2>3. Queue(n, k)
    BY <1>n DEF Start
  <2>4. IF k \in {"alone", "config"}
          THEN after' = [after EXCEPT ![n] = lastExclusive] /\ lastExclusive' = n
          ELSE UNCHANGED <<after, lastExclusive>>
    BY <2>3 DEF Queue
  <2>5. QED
    BY <2>1, <2>2, <2>4
<1>3. NewRuns'
  <2>1. ASSUME NEW i \in Runs PROVE pc'[i] = "new" <=> i > started'
    <3>1. CASE i = n
      BY <1>0, <1>2, <3>1
    <3>2. CASE i # n
      BY <1>0, <1>1, <3>2 DEF QueueInv, NewRuns, Runs
    <3>3. QED
      BY <3>1, <3>2
  <2>2. QED
    BY <2>1 DEF NewRuns
<1>4. LastExclusive'
  <2>1. \A i \in 1 .. started : i \in Runs /\ i # n
    BY <1>0 DEF Types, Runs
  <2>2. lastExclusive # 0 => lastExclusive \in 1 .. started
    BY DEF QueueInv, LastExclusive, Types
  <2>3. \A i \in 1 .. n : i = n \/ i \in 1 .. started
    BY <1>0
  <2>4. CASE k \in {"alone", "config"}
    BY <1>0, <1>2, <2>4 DEF LastExclusive
  <2>5. CASE k \notin {"alone", "config"}
    BY <1>0, <1>1, <1>2, <2>1, <2>2, <2>3, <2>5 DEF QueueInv, LastExclusive, Types
  <2>6. QED
    BY <2>4, <2>5
<1>5. Chain'
  <2>1. ASSUME NEW j \in 1 .. started'
        PROVE  /\ after'[j] # 0 => Exclusive(j)'
               /\ after'[j] # 0 => after'[j] < j /\ Exclusive(after[j])'
               /\ \A l \in Runs : l < j /\ Exclusive(j)' /\ Exclusive(l)' => l <= after'[j]
    <3>1. CASE j \in 1 .. started
      <4>1. j \in Runs /\ j # n /\ after'[j] = after[j] /\ after[j] \in Nat
        <5>1. j \in Runs /\ j # n
          BY <1>0, <3>1 DEF Types, Runs
        <5>2. after'[j] = after[j]
          BY <1>0, <1>2, <5>1 DEF Types
        <5>3. QED
          BY <5>1, <5>2 DEF Types
      <4>2. \A l \in Runs : l < j => l # n
        BY <1>0, <3>1 DEF Runs
      <4>3. after[j] # 0 => after[j] \in Runs /\ after[j] # n
        <5>1. after[j] # 0 => after[j] < j
          BY <3>1 DEF QueueInv, Chain
        <5>2. after[j] \in 0 .. MaxRuns
          BY <4>1 DEF Types
        <5>3. QED
          BY <1>0, <3>1, <5>1, <5>2 DEF Runs
      <4>4. PICK a \in Nat : a = after[j]
        BY <4>1
      <4>5. /\ a # 0 => Exclusive(j) /\ a < j /\ Exclusive(a)
            /\ \A l \in Runs : l < j /\ Exclusive(j) /\ Exclusive(l) => l <= a
        BY <3>1, <4>4 DEF QueueInv, Chain
      <4>6. /\ Exclusive(j)' <=> Exclusive(j)
            /\ a # 0 => (Exclusive(a)' <=> Exclusive(a))
            /\ \A l \in Runs : l < j => (Exclusive(l)' <=> Exclusive(l))
        BY <1>1, <4>1, <4>2, <4>3, <4>4
      <4>7. a # 0 => Exclusive(after[j])'
        <5>1. ASSUME a # 0 PROVE kind'[a] \in {"alone", "config"}
          BY <4>5, <4>6, <5>1 DEF Exclusive
        <5>2. QED
          BY <4>1, <4>4, <5>1 DEF Exclusive
      <4>8. QED
        BY <4>1, <4>4, <4>5, <4>6, <4>7
    <3>2. CASE j = n
      <4>1. \A l \in Runs : l < n => l \in 1 .. started /\ l # n
        BY <1>0 DEF Runs
      <4>2. lastExclusive # 0 => lastExclusive \in 1 .. started /\ lastExclusive \in Runs
                                   /\ lastExclusive < n /\ Exclusive(lastExclusive)
        BY <1>0 DEF QueueInv, LastExclusive, Types, Runs
      <4>3. \A l \in 1 .. started : Exclusive(l) => l <= lastExclusive
        BY DEF QueueInv, LastExclusive
      <4>4. CASE k \in {"alone", "config"}
        <5>1. after'[n] = lastExclusive /\ Exclusive(n)'
          BY <1>0, <1>2, <4>4 DEF Types
        <5>2. lastExclusive # 0 => Exclusive(lastExclusive)'
          BY <1>0, <1>1, <1>2, <4>2, <4>4 DEF Exclusive
        <5>3. QED
          BY <1>1, <3>2, <4>1, <4>2, <4>3, <5>1, <5>2
      <4>5. CASE k \notin {"alone", "config"}
        <5>1. after'[n] = 0 /\ ~Exclusive(n)'
          BY <1>0, <1>2, <4>5 DEF QueueInv, NotQueued
        <5>2. QED
          BY <3>2, <5>1
      <4>6. QED
        BY <4>4, <4>5
    <3>3. QED
      BY <1>0, <3>1, <3>2
  <2>2. QED
    BY <2>1 DEF Chain
<1>6. Behind'
  BY <1>0, <1>1, <1>2 DEF QueueInv, Behind, Types
<1>7. InTurn'
  <2>1. SUFFICES ASSUME NEW i \in Runs, NEW j \in Runs, i < j, Exclusive(i)', Exclusive(j)',
                        pc'[j] \in Past \union Done
                 PROVE  /\ pc'[j] \in Past => Cleared(i, j, j - 1)'
                        /\ pc'[j] \in Done => Cleared(i, j, j)'
    BY DEF InTurn
  <2>2. j # n /\ i # n /\ j <= started
    BY <1>0, <1>1, <1>2, <2>1 DEF QueueInv, NewRuns, Past, Done, Commanding, Runs
  <2>3. ASSUME NEW last \in Nat, last <= j, Cleared(i, j, last)
        PROVE  Cleared(i, j, last)'
    BY <1>0, <1>1, <2>2, <2>3 DEF Cleared, Types, Runs
  <2>4. QED
    BY <1>1, <2>1, <2>2, <2>3 DEF QueueInv, InTurn, Runs
<1>8. NotQueued'
  BY <1>0, <1>2 DEF QueueInv, NotQueued, Types, Runs
<1>9. QED
  BY <1>3, <1>4, <1>5, <1>6, <1>7, <1>8 DEF QueueInv

LEMMA KeepsQueue ==
    ASSUME Types, QueueInv, [Next]_vars
    PROVE  QueueInv'
<1>1. ASSUME NEW r \in Runs, Run(r)
      PROVE  QueueInv'
  <2>1. /\ UNCHANGED <<started, kind, lastExclusive, after>>
        /\ \/ UNCHANGED pc
           \/ \E t \in PCs : Edge(r, t) /\ pc' = [pc EXCEPT ![r] = t]
    BY <1>1, RunMoves DEF schedule
  <2>2. NewRuns' /\ Behind'
    BY <2>1 DEF QueueInv, NewRuns, Behind, Edge, Past, Commanding, Types
  <2>3. LastExclusive' /\ Chain' /\ NotQueued'
    BY <2>1 DEF QueueInv, LastExclusive, Chain, NotQueued, Exclusive
  <2>4. QED
    BY <1>1, <2>2, <2>3, RunKeepsTurn DEF QueueInv
<1>2. ASSUME NEW k \in AllKinds, Start(k)
      PROVE  QueueInv'
  BY <1>2, StartKeepsQueue
<1>3. ASSUME /\ UNCHANGED <<started, kind, lastExclusive, after, pc>>
             /\ cancelled \subseteq cancelled'
             /\ stopped => stopped'
      PROVE  QueueInv'
  <2>1. \A i, j, last : Cleared(i, j, last) => Cleared(i, j, last)'
    BY <1>3 DEF Cleared, Exclusive
  <2>2. QED
    BY <1>3, <2>1 DEF QueueInv, NewRuns, LastExclusive, Chain, NotQueued, Behind, InTurn, Exclusive
<1>4. ASSUME NEW i \in Runs, Cancel(i)
      PROVE  QueueInv'
  BY <1>3, <1>4 DEF Cancel, schedule, lifecycle
<1>5. ASSUME NEW q \in 1 .. nextQuestion, NEW yes \in BOOLEAN, Answer(asker[q], q, yes)
      PROVE  QueueInv'
  BY <1>3, <1>5 DEF Answer, schedule, lifecycle
<1>6. CASE Stop
  BY <1>3, <1>6 DEF Stop, schedule
<1>7. CASE ReadEvent \/ CloseRunner \/ CloseEvents \/ UNCHANGED vars
  BY <1>3, <1>7 DEF ReadEvent, CloseRunner, CloseEvents, schedule, lifecycle, vars
<1>8. QED
  BY <1>1, <1>2, <1>4, <1>5, <1>6, <1>7, Steps

----------------------------------------------------------------------------
(* The config file's lock *)

\* A goroutine's step leaves the lock alone, and its own claim on it too, unless
\* the readers have drained;
Steady(r) ==
    /\ UNCHANGED <<writer, readers>>
    /\ pc[r] \in Claims => pc'[r] \in Claims
    /\ pc'[r] # "draining"
    /\ pc'[r] \in Claims => pc[r] \in Claims \/ kind[r] = "stream"
    /\ pc'[r] \in Holds =>
        pc[r] \in Holds \/ kind[r] = "stream" \/ (pc[r] = "draining" /\ readers = {})

\* or it announces a writer;
Announces(r) ==
    /\ Exclusive(r) /\ writer = 0 /\ writer' = r /\ UNCHANGED readers
    /\ pc[r] = "locking" /\ pc'[r] = "draining"

\* or it lets a reader in;
LetsIn(r) ==
    /\ kind[r] = "plain" /\ writer = 0 /\ UNCHANGED writer
    /\ readers' = readers \union {r}
    /\ pc[r] = "locking" /\ pc'[r] = "locked"

\* or it gives the lock back.
Releases(r) ==
    /\ writer' = IF writer = r THEN 0 ELSE writer
    /\ readers' = readers \ {r}
    /\ pc[r] = "unlocking" /\ pc'[r] = "finishing"

LEMMA LockMoves ==
    ASSUME Types, NEW r \in Runs, Run(r)
    PROVE  Steady(r) \/ Announces(r) \/ LetsIn(r) \/ Releases(r)
<1> USE DEF Goes, Claims, Holds, Commanding, Types, locks, Steady, Announces, LetsIn, Releases
<1>1. CASE AnnounceWriter(r)
  BY <1>1 DEF AnnounceWriter
<1>2. CASE ReadLock(r)
  BY <1>2 DEF ReadLock
<1>3. CASE Unlock(r)
  BY <1>3 DEF Unlock
<1>4. CASE DrainReaders(r)
  BY <1>4 DEF DrainReaders
<1>5. CASE NoLock(r)
  BY <1>5 DEF NoLock
<1>6. CASE TakeSlot(r) \/ Leave(r)
  BY <1>6 DEF TakeSlot, Leave
<1>7. CASE EmitQueued(r) \/ FollowOn(r) \/ GiveUp(r) \/ CheckSlotted(r) \/ EmitRunning(r)
  BY <1>7 DEF EmitQueued, FollowOn, GiveUp, CheckSlotted, EmitRunning
<1>8. CASE Begin(r) \/ Ask(r) \/ EmitQuestion(r) \/ TakeAnswer(r) \/ Withdraw(r)
  BY <1>8 DEF Begin, Ask, EmitQuestion, TakeAnswer, Withdraw
<1>9. CASE Flush(r) \/ End(r)
  BY <1>9 DEF Flush, End
<1>10. CASE ForgetTokens(r) \/ KeepTokens(r) \/ EmitDone(r)
  BY <1>10 DEF ForgetTokens, KeepTokens, EmitDone
<1>11. QED
  BY <1>1, <1>2, <1>3, <1>4, <1>5, <1>6, <1>7, <1>8, <1>9, <1>10
     DEF Run, Wait, Command, Finish

LEMMA RunKeepsLock ==
    ASSUME Types, LockInv, NEW r \in Runs, Run(r)
    PROVE  LockInv'
<1>1. UNCHANGED kind /\ \A i \in Runs : i # r => pc'[i] = pc[i]
  BY RunMoves DEF schedule, Types
<1>2. /\ \A i \in Runs : i # 0
      /\ writer # 0 => writer \in Runs
  BY DEF Runs, Types
<1>3. Holds \subseteq Claims /\ "draining" \notin Holds /\ "draining" \in Claims
  BY DEF Holds, Claims
<1>4. /\ {"locking", "finishing"} \intersect Claims = {}
      /\ {"locked", "unlocking"} \subseteq Holds
  BY DEF Claims, Holds, Commanding
<1> USE <1>1, <1>2, <1>3, <1>4
        DEF LockInv, WriterClaims, ReadersHold, WriterAlone, Exclusive
<1>5. CASE Steady(r)
  BY <1>5 DEF Steady
<1>6. CASE Announces(r)
  BY <1>6 DEF Announces
<1>7. CASE LetsIn(r)
  BY <1>7 DEF LetsIn
<1>8. CASE Releases(r)
  BY <1>8 DEF Releases
<1>9. QED
  BY <1>5, <1>6, <1>7, <1>8, LockMoves

LEMMA KeepsLock ==
    ASSUME Types, QueueInv, LockInv, [Next]_vars
    PROVE  LockInv'
<1>1. ASSUME NEW r \in Runs, Run(r)
      PROVE  LockInv'
  BY <1>1, RunKeepsLock
<1>2. ASSUME NEW k \in AllKinds, Start(k)
      PROVE  LockInv'
  <2>1. PICK n \in Runs : n = started + 1
    BY <1>2, RunnerAssumption DEF Start, Types, Runs
  <2>2. /\ pc[n] = "new" /\ pc'[n] = "launched"
        /\ \A i \in Runs : i # n => pc'[i] = pc[i] /\ kind'[i] = kind[i]
        /\ UNCHANGED <<writer, readers>>
    BY <1>2, <2>1 DEF Start, Queue, QueueInv, NewRuns, Types, Runs, locks
  <2>3. pc'[n] \notin Claims /\ pc'[n] \notin Holds /\ pc[n] \notin Claims
    BY <2>2 DEF Claims, Holds, Commanding
  <2>4. writer # 0 => writer \in Runs
    BY DEF Types, Runs
  <2>5. QED
    BY <2>2, <2>3, <2>4 DEF LockInv, WriterClaims, ReadersHold, WriterAlone, Exclusive
<1>3. CASE UNCHANGED <<kind, pc, writer, readers>>
  BY <1>3 DEF LockInv, WriterClaims, ReadersHold, WriterAlone, Exclusive
<1>4. ASSUME NEW i \in Runs, Cancel(i)
      PROVE  LockInv'
  BY <1>3, <1>4 DEF Cancel, schedule, locks
<1>5. ASSUME NEW q \in 1 .. nextQuestion, NEW yes \in BOOLEAN, Answer(asker[q], q, yes)
      PROVE  LockInv'
  BY <1>3, <1>5 DEF Answer, schedule, locks
<1>6. CASE ReadEvent \/ CloseRunner \/ Stop \/ CloseEvents \/ UNCHANGED vars
  BY <1>3, <1>6 DEF ReadEvent, CloseRunner, Stop, CloseEvents, schedule, locks, vars
<1>7. QED
  BY <1>1, <1>2, <1>4, <1>5, <1>6, Steps

\* A writer drains the readers and lets no reader in, so whoever executes beside
\* an exclusive command holds no lock: it is a stream.
LEMMA LockSuffices ==
    ASSUME Types, LockInv
    PROVE  ExclusiveRunsAlone
<1>1. \A i \in Runs : Executing(i) => pc[i] \in Holds /\ pc[i] \in Claims
  BY DEF Executing, Holds, Claims, Commanding
<1>2. \A j \in Runs : kind[j] = "stream" \/ kind[j] = "plain" \/ Exclusive(j)
  BY DEF Types, AllKinds, Exclusive
<1>3. QED
  BY <1>1, <1>2 DEF ExclusiveRunsAlone, LockInv, WriterClaims, ReadersHold, WriterAlone

----------------------------------------------------------------------------
(* Cancels that came in time, and the end of the events *)

LEMMA KeepsCut ==
    ASSUME Types, QueueInv, CutInv, [Next]_vars
    PROVE  CutInv'
<1> USE DEF CutInv, SparedStopped, CancelledNeverBegins, EventsLast, NoEventAfterClose,
            CtxDone, Executing
<1>0. /\ Waiting \intersect Commanding = {}
      /\ "launched" \notin Commanding /\ "executing" \notin {"new", "gone"}
      /\ \A i \in Runs, t \in PCs : Edge(i, t) => pc[i] \notin {"new", "gone"}
  BY DEF Waiting, Commanding, Edge, Past
<1>1. ASSUME NEW r \in Runs, Run(r)
      PROVE  CutInv'
  <2>1. UNCHANGED <<spared, cancelled, closed, stopped, eventsClosed>>
    BY <1>1, RunMoves DEF lifecycle
  <2>2. CASE UNCHANGED pc
    BY <2>1, <2>2
  <2>3. ASSUME NEW t \in PCs, Edge(r, t), pc' = [pc EXCEPT ![r] = t]
        PROVE  CutInv'
    <3>1. \A i \in Runs : pc'[i] = IF i = r THEN t ELSE pc[i]
      BY <2>3 DEF Types
    <3>2. t \in Commanding => pc[r] \in Commanding \/ ~CtxDone(r)
      BY <2>3 DEF Edge, Commanding
    <3>3. CancelledNeverBegins'
      BY <2>1, <3>1, <3>2 DEF Types
    <3>4. ~eventsClosed
      BY <1>0, <2>3
    <3>5. QED
      BY <2>1, <3>3, <3>4
  <2>4. QED
    BY <1>1, <2>2, <2>3, RunMoves
<1>2. ASSUME NEW k \in AllKinds, Start(k)
      PROVE  CutInv'
  <2>1. /\ ~closed /\ UNCHANGED <<spared, cancelled, closed, stopped, eventsClosed>>
        /\ pc' = [pc EXCEPT ![started + 1] = "launched"]
    BY <1>2 DEF Start, lifecycle
  <2>2. CancelledNeverBegins'
    BY <1>0, <2>1 DEF Types
  <2>3. QED
    BY <2>1, <2>2
<1>3. ASSUME NEW i \in Runs, Cancel(i)
      PROVE  CutInv'
  <2>1. /\ cancelled' = cancelled \union {i}
        /\ spared' = spared \union {j \in {i} : pc[j] \in Waiting}
        /\ UNCHANGED <<pc, closed, stopped, eventsClosed>>
    BY <1>3 DEF Cancel, CutOff, lifecycle
  <2>2. QED
    BY <1>0, <2>1
<1>4. CASE Stop
  <2>1. /\ stopped' = TRUE
        /\ spared' = spared \union {j \in 1 .. started : pc[j] \in Waiting}
        /\ UNCHANGED <<pc, closed, eventsClosed>>
    BY <1>4 DEF Stop, CutOff
  <2>2. QED
    BY <1>0, <2>1
<1>5. ASSUME NEW q \in 1 .. nextQuestion, NEW yes \in BOOLEAN, Answer(asker[q], q, yes)
      PROVE  CutInv'
  BY <1>5 DEF Answer, lifecycle
<1>6. CASE CloseRunner
  BY <1>6 DEF CloseRunner
<1>7. CASE CloseEvents
  BY <1>7 DEF CloseEvents
<1>8. CASE ReadEvent \/ UNCHANGED vars
  BY <1>8 DEF ReadEvent, vars, lifecycle
<1>9. QED
  BY <1>1, <1>2, <1>3, <1>4, <1>5, <1>6, <1>7, <1>8, Steps

----------------------------------------------------------------------------
(* Questions and their answers *)

LEMMA RunKeepsAsked ==
    ASSUME Types, AskedInv, NEW r \in Runs, Run(r)
    PROVE  AskedInv'
<1> USE DEF AskedInv, OneAsker, ItsAnswer, OldQuestions, ActsOnItsOwnYes, Asks, CtxDone, Goes
<1>1. CASE Ask(r)
  <2>1. PICK n \in Nat : n = nextQuestion + 1
    BY DEF Types
  <2>2. /\ pc' = [pc EXCEPT ![r] = "posing"]
        /\ nextQuestion' = n /\ n > nextQuestion
        /\ asking' = [asking EXCEPT ![r] = n]
        /\ asker' = [asker EXCEPT ![n] = r]
        /\ registered' = [registered EXCEPT ![r] = n]
        /\ answer' = [answer EXCEPT ![r] = "none"]
        /\ UNCHANGED <<cancelled, stopped, acted, approved, withdrawn>>
    BY <1>1, <2>1 DEF Ask, Types, lifecycle
  <2>3. /\ n \notin acted \union withdrawn
        /\ \A i \in Runs : asking[i] # n /\ asking[i] \in Nat
    BY <2>2 DEF Types
  <2>4. OneAsker'
    <3>1. n \in Questions
      BY <1>1, <2>1, RunnerAssumption DEF Ask, Types, Questions
    <3>2. ASSUME NEW q \in 1 .. n PROVE asker'[q] \in Runs
      <4>1. CASE q = n
        BY <2>2, <3>1, <4>1 DEF Types
      <4>2. CASE q # n
        <5>1. q \in 1 .. nextQuestion /\ asker'[q] = asker[q]
          <6>1. q \in 1 .. nextQuestion
            BY <2>1, <4>2 DEF Types
          <6>2. asker'[q] = asker[q]
            BY <2>2, <4>2 DEF Types
          <6>3. QED
            BY <6>1, <6>2
        <5>2. QED
          BY <5>1
      <4>3. QED
        BY <4>1, <4>2
    <3>3. QED
      BY <2>1, <2>2, <2>3, <3>2 DEF Types
  <2>5. ItsAnswer'
    <3>1. registered'[r] = n /\ asking'[r] = n /\ answer'[r] = "none" /\ pc'[r] = "posing"
      BY <2>2 DEF Types
    <3>2. \A i \in Runs : i # r => /\ registered'[i] = registered[i] /\ asking'[i] = asking[i]
                                   /\ answer'[i] = answer[i] /\ pc'[i] = pc[i]
      BY <2>2 DEF Types
    <3>3. UNCHANGED approved
      BY <2>2
    <3>4. QED
      BY <3>1, <3>2, <3>3
  <2>6. OldQuestions' /\ ActsOnItsOwnYes'
    BY <2>1, <2>2, <2>3 DEF Types, Questions
  <2>7. QED
    BY <2>4, <2>5, <2>6
<1>2. CASE TakeAnswer(r)
  <2>1. /\ UNCHANGED <<nextQuestion, asking, asker, approved, withdrawn, cancelled, stopped>>
        /\ registered' = [registered EXCEPT ![r] = IF @ = asking[r] THEN 0 ELSE @]
        /\ answer' = [answer EXCEPT ![r] = "none"]
        /\ pc[r] = "asking"
        /\ \/ pc' = [pc EXCEPT ![r] = "ending"] /\ UNCHANGED acted
           \/ /\ pc' = [pc EXCEPT ![r] = "executing"]
              /\ acted' = acted \union {asking[r]}
              /\ answer[r] = "yes" /\ ~CtxDone(r)
    BY <1>2 DEF TakeAnswer, Unregister, lifecycle
  <2>2. OneAsker' /\ ItsAnswer'
    BY <2>1 DEF Types
  <2>3. OldQuestions' /\ ActsOnItsOwnYes'
    <3>1. asking[r] # 0 /\ asking[r] <= nextQuestion /\ \A i \in Runs : Asks(i)' => Asks(i) /\ i # r
      BY <2>1 DEF Types
    <3>2. asking[r] \in acted' => asking[r] \in approved \ withdrawn
      BY <2>1, <3>1
    <3>3. QED
      BY <2>1, <3>1, <3>2
  <2>4. QED
    BY <2>2, <2>3
<1>3. CASE Withdraw(r)
  BY <1>3 DEF Withdraw, Unregister, Types, lifecycle
<1>4. CASE EmitQuestion(r)
  BY <1>4 DEF EmitQuestion, Types, lifecycle, asked
<1>5. ASSUME UNCHANGED asked, ~Ask(r), ~EmitQuestion(r), ~TakeAnswer(r), ~Withdraw(r)
      PROVE  AskedInv'
  <2>1. UNCHANGED <<cancelled, stopped>> /\ \A i \in Runs : Asks(i)' = Asks(i)
    BY <1>5 DEF Run, Wait, Command, Finish, EmitQueued, FollowOn, TakeSlot, GiveUp, CheckSlotted,
       EmitRunning, AnnounceWriter, DrainReaders, ReadLock, NoLock, Begin, TakeAnswer, Withdraw,
       Flush, End, ForgetTokens, KeepTokens, Unlock, EmitDone, Leave, lifecycle, Types
  <2>2. QED
    BY <1>5, <2>1 DEF asked
<1>6. QED
  BY <1>1, <1>2, <1>3, <1>4, <1>5 DEF Run, Wait, Command, Finish, EmitQueued, FollowOn,
     TakeSlot, GiveUp, CheckSlotted, EmitRunning, AnnounceWriter, DrainReaders, ReadLock,
     NoLock, Begin, Flush, End, ForgetTokens, KeepTokens, Unlock, EmitDone, Leave

\* A context that ends withdraws what its run asks, which no command acted on.
LEMMA CutKeepsAsked ==
    ASSUME Types, AskedInv, NEW R \in SUBSET Runs, CutOff(R), UNCHANGED pc,
           cancelled \subseteq cancelled', stopped => stopped',
           \A i \in R : CtxDone(i)'
    PROVE  AskedInv'
<1> USE DEF AskedInv, OneAsker, ItsAnswer, OldQuestions, ActsOnItsOwnYes, Asks
<1>1. /\ UNCHANGED <<pc, nextQuestion, asking, asker, registered, answer, acted, approved>>
      /\ \A q \in withdrawn' \ withdrawn : \E i \in R : Asks(i) /\ asking[i] = q /\ q <= nextQuestion
  BY CutOffTypes
<1>2. OneAsker' /\ ItsAnswer'
  BY <1>1
<1>3. \A q \in withdrawn' : q <= nextQuestion /\ (q \in withdrawn \/ q \notin acted)
  BY <1>1
<1>4. ASSUME NEW i \in Runs, Asks(i), asking[i] \in withdrawn'
      PROVE  CtxDone(i)'
  <2>1. CASE asking[i] \in withdrawn
    BY <1>4, <2>1 DEF CtxDone
  <2>2. CASE asking[i] \notin withdrawn
    BY <1>1, <1>4, <2>2
  <2>3. QED
    BY <2>1, <2>2
<1>5. QED
  BY <1>1, <1>2, <1>3, <1>4

LEMMA KeepsAsked ==
    ASSUME Types, QueueInv, AskedInv, [Next]_vars
    PROVE  AskedInv'
<1>1. ASSUME NEW r \in Runs, Run(r)
      PROVE  AskedInv'
  BY <1>1, RunKeepsAsked
<1>2. ASSUME NEW k \in AllKinds, Start(k)
      PROVE  AskedInv'
  <2>1. UNCHANGED asked /\ UNCHANGED <<cancelled, stopped>>
    BY <1>2 DEF Start, lifecycle
  <2>2. \A i \in Runs : Asks(i)' = Asks(i)
    BY <1>2 DEF Start, Asks, Types, QueueInv, NewRuns
  <2>3. QED
    BY <2>1, <2>2 DEF asked, AskedInv, OneAsker, ItsAnswer, OldQuestions, ActsOnItsOwnYes, CtxDone
<1>3. ASSUME NEW i \in Runs, Cancel(i)
      PROVE  AskedInv'
  <2>1. /\ {i} \in SUBSET Runs /\ CutOff({i}) /\ UNCHANGED <<pc, stopped>>
        /\ cancelled' = cancelled \union {i}
    BY <1>3 DEF Cancel, lifecycle
  <2>2. QED
    BY <2>1, CutKeepsAsked DEF CtxDone
<1>4. CASE Stop
  <2>1. /\ 1 .. started \in SUBSET Runs /\ CutOff(1 .. started) /\ UNCHANGED <<pc, cancelled>>
        /\ stopped' = TRUE
    BY <1>4, RunnerAssumption DEF Stop, Types, Runs, schedule
  <2>2. QED
    BY <2>1, CutKeepsAsked DEF CtxDone
<1>5. ASSUME NEW q \in 1 .. nextQuestion, NEW yes \in BOOLEAN, Answer(asker[q], q, yes)
      PROVE  AskedInv'
  <2>1. PICK i \in Runs : i = asker[q]
    BY DEF AskedInv, OneAsker
  <2>0. registered[i] = q => asking[i] = q /\ pc[i] \in {"posing", "asking"}
    BY <2>1 DEF AskedInv, ItsAnswer, Asks
  <2>2. /\ q # 0
        /\ UNCHANGED <<pc, cancelled, stopped, nextQuestion, asking, asker, acted, withdrawn>>
        /\ approved \subseteq approved'
        /\ \/ UNCHANGED <<registered, answer>>
           \/ /\ registered[i] = q
              /\ registered' = [registered EXCEPT ![i] = 0]
              /\ \/ answer' = [answer EXCEPT ![i] = "no"]
                 \/ answer' = [answer EXCEPT ![i] = "yes"] /\ q \in approved'
    BY <1>5, <2>0, <2>1 DEF Answer, lifecycle
  <2>3. ItsAnswer'
    BY <2>2 DEF AskedInv, ItsAnswer, Asks, Types
  <2>4. QED
    BY <2>2, <2>3 DEF AskedInv, OneAsker, OldQuestions, ActsOnItsOwnYes, Asks, CtxDone
<1>6. CASE ReadEvent \/ CloseRunner \/ CloseEvents \/ UNCHANGED vars
  <2>1. UNCHANGED <<asked, pc, cancelled, stopped>>
    BY <1>6 DEF ReadEvent, CloseRunner, CloseEvents, vars, asked, lifecycle
  <2>2. QED
    BY <2>1 DEF asked, AskedInv, OneAsker, ItsAnswer, OldQuestions, ActsOnItsOwnYes, Asks, CtxDone
<1>7. QED
  BY <1>1, <1>2, <1>3, <1>4, <1>5, <1>6, Steps

----------------------------------------------------------------------------
(* The flags *)

LEMMA KeepsFlags ==
    ASSUME Flags, [Next]_vars
    PROVE  Flags'
<1>1. ASSUME NEW r \in Runs, Run(r)
      PROVE  Flags'
  <2>1. UNCHANGED lifecycle
    BY <1>1, RunMoves
  <2>2. closed' = closed /\ stopped' = stopped /\ eventsClosed' = eventsClosed
    BY <2>1 DEF lifecycle
  <2>3. QED
    BY Zenon, <2>2 DEF Flags
<1>2. CASE UNCHANGED lifecycle
  <2>1. closed' = closed /\ stopped' = stopped /\ eventsClosed' = eventsClosed
    BY <1>2 DEF lifecycle
  <2>2. QED
    BY Zenon, <2>1 DEF Flags
<1>3. CASE CloseRunner
  BY Zenon, <1>3 DEF CloseRunner, Flags
<1>4. CASE Stop
  BY Zenon, <1>4 DEF Stop, Flags
<1>5. CASE CloseEvents
  BY Zenon, <1>5 DEF CloseEvents, Flags
<1>6. QED
  BY <1>1, <1>2, <1>3, <1>4, <1>5, Steps DEF Start, Cancel, Answer, ReadEvent, vars, lifecycle

\* Every step of the runner keeps the invariant.
LEMMA KeepsRunner == RunnerInv /\ [Next]_vars => RunnerInv'
<1> SUFFICES ASSUME RunnerInv, [Next]_vars
             PROVE  RunnerInv'
  OBVIOUS
<1>1. Types /\ Flags
  BY TypeParts DEF RunnerInv
<1>2. TypeOK'
  <2>1. Types' /\ Flags'
    BY <1>1, KeepsTypes, KeepsFlags DEF RunnerInv, AskedInv
  <2>2. QED
    BY Zenon, <2>1 DEF TypeOK, Types, Flags, PCs
<1>3. QueueInv' /\ LockInv' /\ CutInv' /\ AskedInv'
  BY <1>1, KeepsQueue, KeepsLock, KeepsCut, KeepsAsked DEF RunnerInv
<1>4. QED
  BY <1>2, <1>3 DEF RunnerInv

----------------------------------------------------------------------------
(* The theorems *)

\* Every state of the runner satisfies the invariant.
THEOREM Invariant == Spec => []RunnerInv
  BY Start0, KeepsRunner, PTL DEF Spec

\* Every variable keeps its type, and the event buffer its bound.
THEOREM TypeCorrect == Spec => []TypeOK
<1>1. RunnerInv => TypeOK
  BY DEF RunnerInv
<1>2. QED
  BY <1>1, Invariant, PTL

\* An exclusive command executes beside no other but a stream (execute's lock).
THEOREM ExclusivesAreAlone == Spec => []ExclusiveRunsAlone
<1>1. RunnerInv => ExclusiveRunsAlone
  BY LockSuffices, TypeParts DEF RunnerInv
<1>2. QED
  BY <1>1, Invariant, PTL

\* A run cancelled in time never begins its command (run's and execute's checks).
THEOREM CancelledInTime == Spec => []CancelledNeverBegins
<1>1. RunnerInv => CancelledNeverBegins
  BY DEF RunnerInv, CutInv
<1>2. QED
  BY <1>1, Invariant, PTL

\* Exclusive commands execute in the order they were started in, but for those
\* a cancelled one stood between (Start's chain of job.after).
THEOREM ExclusivesInTurn == Spec => []InOrderUnlessCancelled
<1>1. RunnerInv => InOrderUnlessCancelled
  <2> SUFFICES ASSUME RunnerInv,
                      NEW i \in Runs, NEW j \in Runs,
                      i < j, Exclusive(i), Exclusive(j), Executing(j)
               PROVE  \/ pc[i] = "gone"
                      \/ stopped
                      \/ \E k \in cancelled : i < k /\ k < j /\ Exclusive(k)
    BY DEF InOrderUnlessCancelled
  <2>1. Cleared(i, j, j - 1)
    BY DEF RunnerInv, QueueInv, InTurn, Past, Executing
  <2>2. cancelled \subseteq Runs
    BY DEF RunnerInv, TypeOK
  <2>3. QED
    BY <2>1, <2>2 DEF Cleared, Runs
<1>2. QED
  BY <1>1, Invariant, PTL

\* Nothing is left to send an event once Close has closed them.
THEOREM ClosedForGood == Spec => []NoEventAfterClose
<1>1. RunnerInv => NoEventAfterClose
  BY DEF RunnerInv, CutInv
<1>2. QED
  BY <1>1, Invariant, PTL

\* A command acts on the yes to its own question, and on none it withdrew.
THEOREM OnlyItsOwnYes == Spec => []ActsOnItsOwnYes
<1>1. RunnerInv => ActsOnItsOwnYes
  BY DEF RunnerInv, AskedInv
<1>2. QED
  BY <1>1, Invariant, PTL

----------------------------------------------------------------------------
(***************************************************************************)
(* A session, proved from what its two parts were proved to do: a step of  *)
(* the session is a step of the runner or none, so RunnerInv holds of it;  *)
(* it is a step of the token table or none, so SessionTokens' invariant    *)
(* does too.  The second needs the first: two commands rewrite the config  *)
(* file at once unless the lock keeps them apart.                          *)
(*                                                                         *)
(* SignsAsCurrentAccount takes the three together.  The lock keeps the     *)
(* account of a command's project as it was when the command asked for its *)
(* source (Settled), which the table did not build from older credentials, *)
(* and nobody builds from newer ones than there are (NoneNewer).           *)
(***************************************************************************)


Rewriting == \E i \in Runs : AtWork(i)

P == INSTANCE SessionTokens_proofs WITH
    Callers <- Runs,
    Keys <- Projects,
    None <- 0,
    MaxForgets <- MaxSetProjects + MaxRuns,
    pc <- callPC,
    asked <- askedFor,
    rewriting <- Rewriting

----------------------------------------------------------------------------
(* The invariant *)

\* The config commands whose forget lies behind them, or that gave up before it.
Forgotten == {i \in Runs : RewritesConfig(i)
                           /\ pc[i] \in {"unlocking", "finishing", "leaving", "gone"}}

\* A generation begins with SetProject, or at the end of a config command.
Generations ==
    /\ setProjects \in 0 .. MaxSetProjects
    /\ generation <= setProjects + Cardinality(Forgotten)

\* A run asks for its source when its command has begun.
CallsLate == \A i \in Runs : callPC[i] # "idle" => pc[i] \notin {"new"} \union Waiting

NoneNewer == \A c \in Runs : outcome[c] = "source" => builtFrom[c] <= account[key[c]]

\* The command read the config file and keeps those that rewrite it out.
Reads(i) == kind[i] # "stream" /\ ~RewritesConfig(i) /\ Executing(i)

Settled == \A i \in Runs : Reads(i) /\ callPC[i] # "idle" => askedFor[i] = account[key[i]]

SessionInv ==
    RunnerInv /\ P!IInv /\ Generations /\ CallsLate /\ NoneNewer /\ Settled

----------------------------------------------------------------------------
(* The steps of a session, seen from the runner *)

\* A step of the session is a step of the runner or leaves it alone.
LEMMA StepsOfTheRunner == SessionNext => [Next]_vars
<1> SUFFICES ASSUME SessionNext PROVE [Next]_vars
  OBVIOUS
<1>1. CASE RunnerStep
  BY <1>1 DEF RunnerStep, Next, Run, Finish
<1>2. ASSUME UNCHANGED runner PROVE [Next]_vars
  BY <1>2 DEF runner, vars
<1>3. ASSUME NEW i \in Runs, Forget(i) PROVE [Next]_vars
  BY <1>3 DEF Forget, Next, Run, Finish
<1> QED
  BY <1>1, <1>2, <1>3 DEF SessionNext, SetProject, CallSource, InsideSource, RewriteConfig

\* Where a run goes that does not forget the tokens.
Moves(j) ==
    \/ UNCHANGED <<pc[j], kind[j]>>
    \/ pc[j] = "new" /\ pc'[j] = "launched"
    \/ /\ UNCHANGED kind[j]
       /\ \/ pc[j] \in Waiting /\ pc'[j] \in Waiting \union {"finishing"}
          \/ pc[j] = "locked" /\ pc'[j] \in {"executing", "ending"}
          \/ pc[j] \in Commanding /\ pc'[j] \in Commanding \union {"ending"}
          \/ pc[j] = "ending" /\ ~RewritesConfig(j) /\ pc'[j] = "unlocking"
          \/ <<pc[j], pc'[j]>> \in {<<"unlocking", "finishing">>, <<"finishing", "leaving">>,
                                   <<"leaving", "gone">>}

LEMMA RunnerMoves ==
    ASSUME RunnerInv, RunnerStep, NEW j \in Runs
    PROVE  Moves(j)
<1>1. pc \in [Runs -> PCs] /\ kind \in [Runs -> AllKinds] /\ started \in Nat
  BY RunnerAssumption DEF RunnerInv, TypeOK, PCs
<1>2. ASSUME NEW k, Start(k) PROVE Moves(j)
  <2>1. /\ started + 1 \in Runs /\ pc[started + 1] = "new"
        /\ pc' = [pc EXCEPT ![started + 1] = "launched"]
        /\ kind' = [kind EXCEPT ![started + 1] = k]
    BY <1>1, <1>2, RunnerAssumption DEF Start, Queue, RunnerInv, QueueInv, NewRuns, Runs
  <2> QED BY <1>1, <2>1 DEF Moves
<1>3. ASSUME UNCHANGED <<pc, kind>> PROVE Moves(j)
  BY <1>3 DEF Moves
<1>4. CASE UI
  BY <1>2, <1>3, <1>4 DEF UI, Cancel, Answer, ReadEvent, CloseRunner, schedule
<1>5. ASSUME NEW i \in Runs, Wait(i) PROVE Moves(j)
  <2>1. UNCHANGED kind
    BY <1>5, RunMoves DEF Run, schedule
  <2>2. \/ pc[i] \in Waiting /\ pc' \in {[pc EXCEPT ![i] = t] : t \in Waiting \union {"finishing"}}
        \/ pc[i] = "locked" /\ pc' \in {[pc EXCEPT ![i] = t] : t \in {"executing", "ending"}}
    BY <1>5 DEF Wait, EmitQueued, FollowOn, TakeSlot, GiveUp, CheckSlotted, EmitRunning,
                AnnounceWriter, DrainReaders, ReadLock, NoLock, Begin, Goes, Waiting
  <2> QED BY <1>1, <2>1, <2>2 DEF Moves
<1>6. ASSUME NEW i \in Runs, Command(i) PROVE Moves(j)
  <2>1. UNCHANGED kind
    BY <1>6, RunMoves DEF Run, schedule
  <2>2. \/ UNCHANGED pc
        \/ /\ pc[i] \in Commanding
           /\ pc' \in {[pc EXCEPT ![i] = t] : t \in Commanding \union {"ending"}}
    BY <1>6 DEF Command, Ask, EmitQuestion, TakeAnswer, Withdraw, Flush, End, Goes, Commanding
  <2> QED BY <1>1, <2>1, <2>2 DEF Moves
<1>7. ASSUME NEW i \in Runs, KeepTokens(i) \/ Unlock(i) \/ EmitDone(i) \/ Leave(i)
      PROVE  Moves(j)
  <2>1. UNCHANGED kind
    BY <1>7, RunMoves DEF Run, Finish, schedule
  <2>2. \/ pc[i] = "ending" /\ ~RewritesConfig(i) /\ pc' = [pc EXCEPT ![i] = "unlocking"]
        \/ pc[i] = "unlocking" /\ pc' = [pc EXCEPT ![i] = "finishing"]
        \/ pc[i] = "finishing" /\ pc' = [pc EXCEPT ![i] = "leaving"]
        \/ pc[i] = "leaving" /\ pc' = [pc EXCEPT ![i] = "gone"]
    BY <1>7 DEF KeepTokens, Unlock, EmitDone, Leave, Goes
  <2> QED BY <1>1, <2>1, <2>2 DEF Moves
<1> QED BY <1>4, <1>5, <1>6, <1>7 DEF RunnerStep

\* What the lock keeps apart.
LEMMA NoneReadsWhileRewriting ==
    ASSUME RunnerInv, NEW i \in Runs, Reads(i)
    PROVE  ~Rewriting
<1>1. kind \in [Runs -> AllKinds] /\ LockInv
  BY DEF RunnerInv, TypeOK
<1>2. pc[i] \in Holds /\ pc[i] \in Claims /\ (kind[i] = "plain" \/ Exclusive(i))
  BY <1>1 DEF Reads, RewritesConfig, Executing, Holds, Claims, Commanding, Exclusive, AllKinds
<1>3. ASSUME NEW j \in Runs, AtWork(j) PROVE FALSE
  <2>1. pc[j] \in Holds /\ pc[j] \in Claims /\ Exclusive(j) /\ i # j
    BY <1>3 DEF AtWork, RewritesConfig, Holds, Claims, Commanding, Exclusive, Reads
  <2> QED BY <1>1, <1>2, <2>1 DEF LockInv, WriterClaims, ReadersHold, WriterAlone
<1> QED BY <1>3 DEF Rewriting

LEMMA OneRewrites ==
    ASSUME RunnerInv, NEW i \in Runs, NEW j \in Runs, AtWork(i), AtWork(j)
    PROVE  i = j
<1>1. LockInv
  BY DEF RunnerInv
<1>2. \A k \in {i, j} : Exclusive(k) /\ pc[k] \in Claims
  BY DEF AtWork, RewritesConfig, Claims, Commanding, Exclusive
<1> QED BY <1>1, <1>2 DEF LockInv, WriterClaims

----------------------------------------------------------------------------
(* The steps of a session, seen from the token table *)

\* What the table's specification assumes of its constants.
LEMMA TableAssumptions ==
    0 \notin Runs /\ MaxSetProjects + MaxRuns \in Nat /\ MaxRewrites \in Nat
BY RunnerAssumption, SessionAssumption DEF Runs

\* P is T, and its proofs.
LEMMA SameTable == (T!Init => P!Init) /\ ([T!Next]_(T!vars) => [P!Next]_(P!vars))
<1>1. T!Init => P!Init
  BY DEF T!Init, P!Init, Rewriting
<1>2. ASSUME NEW c \in Runs, T!Source(c) PROVE P!Source(c)
  BY <1>2 DEF T!Source, P!Source, T!FindKept, P!FindKept, T!JoinBuild, P!JoinBuild,
              T!StartBuild, P!StartBuild, T!Ask, P!Ask, T!tokens, P!tokens, T!store, P!store,
              Rewriting
<1>3. ASSUME NEW c \in Runs, T!Proceed(c) PROVE P!Proceed(c)
  BY <1>3 DEF T!Proceed, P!Proceed, T!Build, P!Build, T!Publish, P!Publish, T!Close, P!Close,
              T!Wake, P!Wake, T!Unregister, P!Unregister, T!Keep, P!Keep,
              T!tokens, P!tokens, T!store, P!store, Rewriting
<1>4. ASSUME T!Environment PROVE P!Environment
  BY <1>4 DEF T!Environment, P!Environment, T!SwitchProject, P!SwitchProject, T!BeginRewrite,
              P!BeginRewrite, T!Rewrite, P!Rewrite, T!FinishRewrite, P!FinishRewrite,
              T!Forget, P!Forget, T!tokens, P!tokens, T!calls, P!calls, T!store, P!store,
              Rewriting
<1>5. T!vars' = T!vars => P!vars' = P!vars
  BY DEF T!vars, P!vars, Rewriting
<1> QED
  BY <1>1, <1>2, <1>3, <1>4, <1>5 DEF T!Next, P!Next

\* The table's invariant in the terms that the session needs.
LEMMA TableInvariant ==
    ASSUME P!IInv
    PROVE  /\ generation \in Nat
           /\ account \in [Projects -> Nat] /\ builtFrom \in [Runs -> Nat]
           /\ askedFor \in [Runs -> Nat] /\ callPC \in [Runs -> P!Locations]
           /\ key \in [Runs -> Projects \union {0}] /\ outcome \in [Runs -> P!Outcomes]
           /\ \A c \in Runs : callPC[c] # "idle" =>
                 key[c] \in Projects /\ build[c] \in Runs /\ key[build[c]] = key[c]
           /\ \A c \in Runs : callPC[c] = "idle" => outcome[c] = "pending"
           /\ \A c \in Runs : callPC[c] # "idle" /\ outcome[build[c]] = "source"
                => builtFrom[build[c]] >= askedFor[c]
BY DEF P!IInv, P!TypeOK, P!Placed, P!Builders, P!RecentEnough

LEMMA RunsAreMany == IsFiniteSet(Runs) /\ Cardinality(Runs) = MaxRuns
<1>1. 1 \in Int /\ MaxRuns \in Int /\ MaxRuns \in Nat
  BY RunnerAssumption
<1>2. IsFiniteSet(1 .. MaxRuns)
      /\ Cardinality(1 .. MaxRuns) = IF 1 > MaxRuns THEN 0 ELSE MaxRuns - 1 + 1
  BY <1>1, FS_Interval
<1> QED BY <1>1, <1>2 DEF Runs

\* A run that has not forgotten yet leaves room for its forget.
LEMMA RoomToForget ==
    ASSUME NEW i \in Runs \ Forgotten, Generations, generation \in Nat
    PROVE  generation < MaxSetProjects + MaxRuns
<1>1. Forgotten \subseteq Runs /\ Forgotten # Runs
  BY DEF Forgotten
<1>2. Cardinality(Forgotten) \in Nat /\ Cardinality(Forgotten) < MaxRuns
  BY <1>1, RunsAreMany, FS_Subset, FS_CardinalityType
<1> QED BY <1>2, RunnerAssumption, SessionAssumption DEF Generations

\* The rewrite is on from when a config command begins.
LEMMA RunnerStepOnTable ==
    ASSUME SessionInv, RunnerStep
    PROVE  T!Next \/ UNCHANGED T!vars
<1>1. /\ RunnerInv /\ Generations /\ generation \in Nat
      /\ \A j \in Runs : Moves(j)
  BY RunnerMoves, TableInvariant DEF SessionInv
<1>2. UNCHANGED session
  BY DEF RunnerStep
<1>3. \A j \in Runs : AtWork(j) => AtWork(j)'
  BY <1>1 DEF AtWork, RewritesConfig, Moves, Waiting, Commanding
<1>4. ASSUME NEW j \in Runs, AtWork(j)', ~AtWork(j) PROVE j \notin Forgotten
  <2>1. pc[j] = "locked"
    BY <1>1, <1>4 DEF AtWork, RewritesConfig, Moves, Waiting, Commanding
  <2> QED BY <2>1 DEF Forgotten
<1>5. CASE Rewriting' = Rewriting
  BY <1>2, <1>5 DEF T!vars, session, Rewriting
<1>6. CASE Rewriting' # Rewriting
  <2>1. ~Rewriting /\ Rewriting'
    BY <1>3, <1>6 DEF Rewriting
  <2>2. generation < MaxSetProjects + MaxRuns
    BY <1>1, <1>4, <2>1, RoomToForget DEF Rewriting
  <2>3. T!BeginRewrite
    BY <1>2, <2>1, <2>2 DEF T!BeginRewrite, T!calls, T!tokens, session, Rewriting
  <2> QED BY <2>3 DEF T!Next, T!Environment
<1> QED BY <1>5, <1>6

\* A config command forgets the tokens when no other is at work.
LEMMA ForgetOnTable ==
    ASSUME SessionInv, NEW i \in Runs, Forget(i)
    PROVE  T!FinishRewrite
<1>1. RunnerInv /\ pc \in [Runs -> PCs]
  BY DEF SessionInv, RunnerInv, TypeOK, PCs
<1>2. /\ RewritesConfig(i) /\ pc[i] = "ending" /\ pc' = [pc EXCEPT ![i] = "unlocking"]
      /\ UNCHANGED kind /\ T!Forget
      /\ UNCHANGED <<callPC, key, build, begun, outcome, builtFrom, account, askedFor>>
  BY DEF Forget, ForgetTokens, Goes, schedule
<1>3. Rewriting
  BY <1>2 DEF Rewriting, AtWork
<1>4. ~Rewriting'
  <2>1. ASSUME NEW j \in Runs, AtWork(j)' PROVE FALSE
    <3>1. j # i
      BY <1>1, <1>2, <2>1 DEF AtWork, Commanding
    <3>2. AtWork(i) /\ AtWork(j)
      BY <1>1, <1>2, <2>1, <3>1 DEF AtWork, RewritesConfig
    <3> QED BY <1>1, <3>1, <3>2, OneRewrites
  <2> QED BY <2>1 DEF Rewriting
<1> QED BY <1>2, <1>3, <1>4 DEF T!FinishRewrite, T!calls, Rewriting

\* Every step of the session is a step of the table or leaves it alone.
LEMMA StepsOfTheTable == SessionInv /\ [SessionNext]_all => [T!Next]_(T!vars)
<1> SUFFICES ASSUME SessionInv, [SessionNext]_all PROVE [T!Next]_(T!vars)
  OBVIOUS
<1>1. CASE RunnerStep
  BY <1>1, RunnerStepOnTable
<1>2. CASE SetProject
  BY <1>2 DEF SetProject, T!Next, T!Environment
<1>3. ASSUME NEW i \in Runs, CallSource(i) \/ InsideSource(i) PROVE T!Next
  BY <1>3 DEF CallSource, InsideSource, T!Next
<1>4. ASSUME NEW i \in Runs, RewriteConfig(i) PROVE T!Next
  BY <1>4 DEF RewriteConfig, T!Next, T!Environment
<1>5. ASSUME NEW i \in Runs, Forget(i) PROVE T!Next
  BY <1>5, ForgetOnTable DEF T!Next, T!Environment
<1>6. CASE UNCHANGED all
  BY <1>6 DEF all, runner, session, T!vars, AtWork, RewritesConfig
<1> QED BY <1>1, <1>2, <1>3, <1>4, <1>5, <1>6 DEF SessionNext

----------------------------------------------------------------------------
(* The invariant holds *)

LEMMA InitSession == SessionInit => SessionInv
<1> SUFFICES ASSUME SessionInit PROVE SessionInv
  OBVIOUS
<1>1. RunnerInv
  BY Start0 DEF SessionInit
<1>2. P!IInv
  BY TableAssumptions, SameTable, P!InitIInv DEF SessionInit
<1>3. Generations
  <2>1. generation = 0 /\ setProjects = 0
    BY DEF SessionInit, T!Init
  <2>2. Forgotten \subseteq Runs
    BY DEF Forgotten
  <2>3. Cardinality(Forgotten) \in Nat
    BY <2>2, RunsAreMany, FS_Subset, FS_CardinalityType
  <2> QED BY <2>1, <2>3, SessionAssumption DEF Generations
<1>4. CallsLate /\ NoneNewer /\ Settled
  BY DEF SessionInit, T!Init, CallsLate, NoneNewer, Settled
<1> QED BY <1>1, <1>2, <1>3, <1>4 DEF SessionInv

\* What SessionInv adds to its parts' invariants, after a step of the runner.
LEMMA RunnerStepKeeps ==
    ASSUME SessionInv, RunnerStep
    PROVE  Generations' /\ CallsLate' /\ NoneNewer' /\ Settled'
<1>1. /\ \A j \in Runs : Moves(j)
      /\ UNCHANGED <<generation, callPC, key, outcome, builtFrom, account, askedFor, setProjects>>
      /\ generation \in Nat
  BY RunnerMoves, TableInvariant DEF SessionInv, RunnerStep, session
<1>2. Generations'
  <2>1. Forgotten \subseteq Forgotten' /\ Forgotten' \subseteq Runs
    BY <1>1 DEF Forgotten, Moves, RewritesConfig, Waiting, Commanding
  <2>2. /\ Cardinality(Forgotten) <= Cardinality(Forgotten')
        /\ Cardinality(Forgotten) \in Nat /\ Cardinality(Forgotten') \in Nat
    <3>1. IsFiniteSet(Forgotten') /\ IsFiniteSet(Forgotten)
      BY <2>1, RunsAreMany, FS_Subset
    <3> QED BY <2>1, <3>1, FS_Subset, FS_CardinalityType
  <2> QED BY <1>1, <2>2, SessionAssumption DEF SessionInv, Generations
<1>3. CallsLate'
  BY <1>1 DEF SessionInv, CallsLate, Moves, Waiting, Commanding
<1>4. NoneNewer'
  BY <1>1 DEF SessionInv, NoneNewer
<1>5. Settled'
  <2>1. ASSUME NEW j \in Runs, Reads(j)', callPC[j] # "idle" PROVE Reads(j)
    BY <1>1, <2>1 DEF SessionInv, CallsLate, Reads, RewritesConfig, Executing, Moves, Waiting,
                      Commanding
  <2> QED BY <1>1, <2>1 DEF SessionInv, Settled
<1> QED BY <1>2, <1>3, <1>4, <1>5

\* A call asks for the account as it is: whoever reads the config file keeps those
\* that rewrite it out.
LEMMA SourceKeeps ==
    ASSUME SessionInv, NEW i \in Runs, CallSource(i)
    PROVE  Generations' /\ CallsLate' /\ NoneNewer' /\ Settled'
<1>1. /\ RunnerInv /\ P!IInv /\ pc[i] = "executing"
      /\ UNCHANGED <<started, kind, pc, setProjects>>
  BY DEF SessionInv, CallSource, runner
<1>2. PICK k \in Projects, to \in {"returned", "waiting", "building"} :
          /\ callPC[i] = "idle" /\ callPC' = [callPC EXCEPT ![i] = to]
          /\ key' = [key EXCEPT ![i] = k]
          /\ askedFor' = [askedFor EXCEPT ![i] = IF Rewriting THEN 0 ELSE account[k]]
          /\ UNCHANGED <<generation, outcome, builtFrom, account>>
  BY DEF CallSource, T!Source, T!FindKept, T!JoinBuild, T!StartBuild, T!Ask, T!tokens, T!store,
         Rewriting
<1>3. Generations'
  BY <1>1, <1>2 DEF SessionInv, Generations, Forgotten, RewritesConfig
<1>4. CallsLate'
  BY <1>1, <1>2, TableInvariant DEF SessionInv, CallsLate, Waiting
<1>5. NoneNewer'
  BY <1>1, <1>2, TableInvariant DEF SessionInv, NoneNewer
<1>6. Settled'
  <2>1. ASSUME NEW j \in Runs, Reads(j)', callPC'[j] # "idle"
        PROVE  askedFor'[j] = account'[key'[j]]
    <3>1. Reads(j) /\ ~Rewriting
      BY <1>1, <2>1, NoneReadsWhileRewriting DEF Reads, RewritesConfig, Executing
    <3> QED
      BY <1>1, <1>2, <2>1, <3>1, TableInvariant DEF SessionInv, Settled
  <2> QED BY <2>1 DEF Settled
<1> QED BY <1>3, <1>4, <1>5, <1>6

\* A build takes the credentials there are.
LEMMA InsideKeeps ==
    ASSUME SessionInv, NEW i \in Runs, InsideSource(i)
    PROVE  Generations' /\ CallsLate' /\ NoneNewer' /\ Settled'
<1>1. /\ RunnerInv /\ P!IInv
      /\ UNCHANGED <<started, kind, pc, setProjects>>
  BY DEF SessionInv, InsideSource, runner
<1>2. /\ callPC[i] # "idle" /\ \E to : callPC' = [callPC EXCEPT ![i] = to]
      /\ UNCHANGED <<generation, key, account, askedFor>>
      /\ \/ UNCHANGED <<outcome, builtFrom>>
         \/ /\ outcome' = [outcome EXCEPT ![i] = "source"]
            /\ builtFrom' = [builtFrom EXCEPT ![i] = account[key[i]]]
         \/ outcome' = [outcome EXCEPT ![i] = "error"] /\ UNCHANGED builtFrom
  BY DEF InsideSource, T!Proceed, T!Build, T!Publish, T!Close, T!Wake, T!tokens, T!store
<1>3. Generations'
  BY <1>1, <1>2 DEF SessionInv, Generations, Forgotten, RewritesConfig
<1>4. CallsLate'
  BY <1>1, <1>2, TableInvariant DEF SessionInv, CallsLate
<1>5. NoneNewer'
  <2>1. account[key[i]] \in Nat
    BY <1>1, <1>2, TableInvariant
  <2> QED BY <1>1, <1>2, <2>1, TableInvariant DEF SessionInv, NoneNewer
<1>6. Settled'
  BY <1>1, <1>2, TableInvariant DEF SessionInv, Settled, Reads, RewritesConfig, Executing
<1> QED BY <1>3, <1>4, <1>5, <1>6

\* While credentials are replaced no command relies on them.
LEMMA RewriteKeeps ==
    ASSUME SessionInv, NEW i \in Runs, RewriteConfig(i)
    PROVE  Generations' /\ CallsLate' /\ NoneNewer' /\ Settled'
<1>1. /\ RunnerInv /\ P!IInv
      /\ UNCHANGED <<started, kind, pc, setProjects>>
  BY DEF SessionInv, RewriteConfig, runner
<1>2. PICK k \in Projects : account' = [account EXCEPT ![k] = @ + 1]
  BY DEF RewriteConfig, T!Rewrite
<1>3. /\ Rewriting
      /\ UNCHANGED <<generation, key, callPC, askedFor, outcome, builtFrom>>
  BY DEF RewriteConfig, T!Rewrite, T!calls, T!tokens, Rewriting
<1>4. Generations'
  BY <1>1, <1>3 DEF SessionInv, Generations, Forgotten, RewritesConfig
<1>5. CallsLate'
  BY <1>1, <1>3 DEF SessionInv, CallsLate
<1>6. NoneNewer'
  BY <1>1, <1>2, <1>3, TableInvariant DEF SessionInv, NoneNewer, P!Outcomes
<1>7. Settled'
  BY <1>1, <1>3, NoneReadsWhileRewriting DEF Settled, Reads, RewritesConfig, Executing
<1> QED BY <1>4, <1>5, <1>6, <1>7

\* A forget touches no call and no account.
LEMMA ForgetKeeps ==
    ASSUME SessionInv, SetProject \/ \E i \in Runs : Forget(i)
    PROVE  Generations' /\ CallsLate' /\ NoneNewer' /\ Settled'
<1>1. /\ RunnerInv /\ generation \in Nat /\ pc \in [Runs -> PCs]
  BY TableInvariant DEF SessionInv, RunnerInv, TypeOK, PCs
<1>2. /\ generation' = generation + 1
      /\ UNCHANGED <<kind, callPC, key, outcome, builtFrom, account, askedFor>>
  BY DEF SetProject, T!SwitchProject, Forget, T!Forget, T!calls, T!store, ForgetTokens, schedule,
         runner
<1>3. IsFiniteSet(Forgotten) /\ Cardinality(Forgotten) \in Nat
  BY RunsAreMany, FS_Subset, FS_CardinalityType DEF Forgotten
<1>4. CASE SetProject
  <2>1. UNCHANGED pc /\ setProjects < MaxSetProjects /\ setProjects' = setProjects + 1
    BY <1>4 DEF SetProject, runner
  <2>2. Forgotten' = Forgotten
    BY <1>2, <2>1 DEF Forgotten, RewritesConfig
  <2>3. Generations'
    BY <1>1, <1>2, <1>3, <2>1, <2>2, SessionAssumption DEF SessionInv, Generations
  <2> QED
    BY <1>2, <2>1, <2>3 DEF SessionInv, CallsLate, NoneNewer, Settled, Reads, RewritesConfig,
                            Executing
<1>5. ASSUME NEW i \in Runs, Forget(i)
      PROVE  Generations' /\ CallsLate' /\ NoneNewer' /\ Settled'
  <2>1. /\ RewritesConfig(i) /\ pc[i] = "ending" /\ pc' = [pc EXCEPT ![i] = "unlocking"]
        /\ UNCHANGED setProjects
    BY <1>5 DEF Forget, ForgetTokens, Goes
  <2>2. Forgotten' = Forgotten \union {i} /\ i \notin Forgotten
    BY <1>1, <1>2, <2>1 DEF Forgotten, RewritesConfig
  <2>3. Cardinality(Forgotten') = Cardinality(Forgotten) + 1
    BY <1>3, <2>2, FS_AddElement
  <2>4. Generations'
    BY <1>1, <1>2, <1>3, <2>1, <2>3, SessionAssumption DEF SessionInv, Generations
  <2>5. CallsLate' /\ NoneNewer'
    BY <1>1, <1>2, <2>1 DEF SessionInv, CallsLate, NoneNewer, Waiting
  <2>6. Settled'
    BY <1>1, <1>2, <2>1 DEF SessionInv, Settled, Reads, RewritesConfig, Executing, Commanding
  <2> QED BY <2>4, <2>5, <2>6
<1> QED BY <1>4, <1>5

LEMMA NextSession == SessionInv /\ [SessionNext]_all => SessionInv'
<1> SUFFICES ASSUME SessionInv, [SessionNext]_all PROVE SessionInv'
  OBVIOUS
<1>1. RunnerInv'
  <2>1. [Next]_vars
    BY StepsOfTheRunner DEF all, runner, vars
  <2> QED BY <2>1, KeepsRunner DEF SessionInv
<1>2. P!IInv'
  <2>1. [P!Next]_(P!vars)
    BY StepsOfTheTable, SameTable
  <2> QED BY <2>1, TableAssumptions, P!NextIInv DEF SessionInv
<1>3. Generations' /\ CallsLate' /\ NoneNewer' /\ Settled'
  <2>1. CASE SessionNext
    BY <2>1, RunnerStepKeeps, SourceKeeps, InsideKeeps, RewriteKeeps, ForgetKeeps DEF SessionNext
  <2>2. CASE UNCHANGED all
    BY <2>2 DEF all, runner, session, SessionInv, Generations, Forgotten, CallsLate, NoneNewer,
                Settled, Reads, RewritesConfig, Executing
  <2> QED BY <2>1, <2>2
<1> QED BY <1>1, <1>2, <1>3 DEF SessionInv

----------------------------------------------------------------------------
(* The theorems *)

\* SessionInv holds in every state of a session: the runner's invariant and the token
\* table's hold together, and what the lock says about the accounts.
THEOREM SessionInvariant == SessionSpec => []SessionInv
BY InitSession, NextSession, PTL DEF SessionSpec

\* A session does with the runner nothing that CliRunner's specification does not:
\* what is proved of the runner holds when its commands use the tokens.
THEOREM SessionRunsTheRunner == SessionSpec => Spec
<1>1. SessionInit => Init
  BY DEF SessionInit
<1>2. [SessionNext]_all => [Next]_vars
  BY StepsOfTheRunner DEF all, runner, vars
<1> QED BY <1>1, <1>2, PTL DEF SessionSpec, Spec

\* TokensAreUsedAsSpecified: the runner refines SessionTokens' environment.  Config
\* commands rewrite one at a time, each forgets before it lets go of the file, and the
\* runs' calls of source are the table's callers.
THEOREM TokensUsedAsSpecified == SessionSpec => TokensAreUsedAsSpecified
<1>1. SessionInit => T!Init
  BY DEF SessionInit
<1>2. SessionInv /\ [SessionNext]_all => [T!Next]_(T!vars)
  BY StepsOfTheTable
<1> QED
  BY <1>1, <1>2, SessionInvariant, PTL DEF SessionSpec, TokensAreUsedAsSpecified

\* SignsAsCurrentAccount: a command under the config lock signs its requests with a
\* source built from the credentials that the store holds now.
THEOREM SignsAsWhoItShould == SessionSpec => []SignsAsCurrentAccount
<1>1. SessionInv => SignsAsCurrentAccount
  <2> SUFFICES ASSUME SessionInv, NEW i \in Runs, Reads(i), T!Holds(i)
               PROVE  builtFrom[build[i]] = account[key[i]]
    BY DEF SignsAsCurrentAccount, Reads
  <2>1. callPC[i] # "idle" /\ outcome[build[i]] = "source"
    BY DEF T!Holds
  <2>2. /\ key[i] \in Projects /\ build[i] \in Runs /\ key[build[i]] = key[i]
        /\ builtFrom[build[i]] >= askedFor[i]
        /\ builtFrom[build[i]] \in Nat /\ account[key[i]] \in Nat
    BY <2>1, TableInvariant DEF SessionInv
  <2>3. askedFor[i] = account[key[i]]
    BY <2>1 DEF SessionInv, Settled
  <2>4. builtFrom[build[i]] <= account[key[i]]
    BY <2>1, <2>2 DEF SessionInv, NoneNewer
  <2> QED BY <2>2, <2>3, <2>4
<1> QED BY <1>1, SessionInvariant, PTL

=============================================================================
