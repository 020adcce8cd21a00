------------------------------- MODULE History -------------------------------
(***************************************************************************)
(* The command history (internal/history/history.go): a file of lines that *)
(* any number of fft processes append to without a lock, and that an       *)
(* append which leaves it over its limit replaces by its newest lines.     *)
(* Only compaction takes a lock, a flock that dies with its process; Clear *)
(* takes none. An appender that opened the file before it was replaced or  *)
(* removed still writes, to a file that no path leads to any more.  Lines  *)
(* have one size: an entry that is over the limit by itself is left out.   *)
(***************************************************************************)
EXTENDS Naturals, Sequences, FiniteSets, SequencesExt, Sublists

CONSTANTS Procs,      \* the fft processes
          Nobody,     \* the holder of a free lock
          Limit,      \* MaxBytes, in lines
          MaxWrites   \* bound: the writes of a behaviour

ASSUME HalfIsSome == Limit \in Nat /\ Limit >= 2
ASSUME NobodyIsNoProcess == Nobody \notin Procs

VARIABLES
  lines,   \* the file at the path, a line each: the number of its entry, 0 for a broken line
  torn,    \* its last line has no end: a write was cut short
  proc,    \* each process's Append or Clear
  lock,    \* the holder of the lock file's flock
  written, \* the writes so far; an entry is known by the number of its write
  excused, \* history: the entries that a race, a torn line, a clear or an error cost
  settled  \* history: an append that nobody disturbed was the last to do anything

vars == <<lines, torn, proc, lock, written, excused, settled>>

Idle == [at |-> "idle"]
Init ==
  /\ lines = <<>> /\ torn = FALSE /\ proc = [p \in Procs |-> Idle] /\ lock = Nobody
  /\ written = 0 /\ excused = {} /\ settled = FALSE

Keep == Limit \div 2
At(p, at) == proc[p].at = at
Goto(p, to) == proc' = [proc EXCEPT ![p].at = to]
Compacting == \E q \in Procs : At(q, "rename")

\* Whoever else is at work, or starts, disturbs an append.
Disturbed(procs, p) == [q \in Procs |-> IF q = p \/ procs[q] = Idle THEN procs[q] ELSE [procs[q] EXCEPT !.alone = FALSE]]

\* Append, or compact, returns nil.
Return(p) == proc' = [proc EXCEPT ![p] = Idle] /\ settled' = proc[p].alone

\* The path leads to another file, or none: the handles open now lead elsewhere.
Swapped(procs) == [q \in Procs |-> IF procs[q].at = "write" THEN [procs[q] EXCEPT !.fresh = FALSE] ELSE procs[q]]

------------------------------------------------------------------------------
(* Append.                                                                 *)

Open(p) ==
  /\ proc[p] = Idle /\ written < MaxWrites
  /\ proc' = Disturbed([proc EXCEPT ![p] =
       [at |-> "write", fresh |-> TRUE, size |-> Len(lines), data |-> <<>>,
        alone |-> \A q \in Procs : proc[q] = Idle]], p)
  /\ settled' = FALSE /\ UNCHANGED <<lines, torn, lock, written, excused>>

\* One write of one line: whole at the end of the file, or after what an unfinished
\* line holds there, and then the two are one broken line.
Write(p) ==
  LET n == written + 1 IN
  /\ At(p, "write") /\ written < MaxWrites /\ written' = n
  /\ IF proc[p].fresh
     THEN /\ lines' = IF torn THEN [lines EXCEPT ![Len(lines)] = 0] ELSE Append(lines, n)
          /\ torn' = FALSE
     ELSE UNCHANGED <<lines, torn>>
  /\ excused' = IF ~proc[p].fresh \/ torn \/ Compacting THEN excused \cup {n} ELSE excused
  /\ IF proc[p].size + 1 > Limit THEN Goto(p, "lock") /\ UNCHANGED settled ELSE Return(p)
  /\ UNCHANGED lock

\* The disk is full: the line, or the part of it that was written, is an error.
WriteCutShort(p) ==
  /\ At(p, "write") /\ written < MaxWrites /\ written' = written + 1
  /\ IF proc[p].fresh /\ ~torn THEN lines' = Append(lines, 0) /\ torn' = TRUE
     ELSE UNCHANGED <<lines, torn>>
  /\ excused' = excused \cup {written'} /\ proc' = [proc EXCEPT ![p] = Idle]
  /\ UNCHANGED <<lock, settled>>

------------------------------------------------------------------------------
(* compact.                                                                *)

TryLock(p) ==
  /\ At(p, "lock") /\ lock = Nobody /\ lock' = p /\ Goto(p, "read")
  /\ UNCHANGED <<lines, torn, written, excused, settled>>

\* Another process keeps the lock for as long as this one would wait.
SkipTurn(p) ==
  /\ At(p, "lock") /\ lock # Nobody /\ Return(p)
  /\ UNCHANGED <<lines, torn, lock, written, excused>>

\* Under the lock the file is looked at again: it may have become small enough.
ReadFile(p) ==
  /\ At(p, "read")
  /\ proc' = [proc EXCEPT ![p].data = lines, ![p].at = IF Len(lines) <= Limit THEN "unlock" ELSE "rename"]
  /\ UNCHANGED <<lines, torn, lock, written, excused, settled>>

Entries(s) == Sublist(s, Nat \ {0})

\* The first lines are kept, and not the last.
OldestOf(data) == Entries(SubSeq(data, 1, Keep))
NewestOf(data) == Entries(SubSeq(data, Len(data) - Keep + 1, Len(data)))

\* The newest lines, broken ones left out, are renamed into place.
Rename(p) ==
  /\ At(p, "rename")
  /\ lines' = NewestOf(proc[p].data) /\ torn' = FALSE
  /\ proc' = [Swapped(proc) EXCEPT ![p].at = "unlock"]
  /\ UNCHANGED <<lock, written, excused, settled>>

\* A CompactError: the entry is written all the same, the file as it was.
RenameFails(p) ==
  /\ At(p, "rename") /\ proc' = [proc EXCEPT ![p].at = "unlock", ![p].alone = FALSE]
  /\ UNCHANGED <<lines, torn, lock, written, excused, settled>>

Unlock(p) ==
  /\ At(p, "unlock") /\ lock' = Nobody /\ Return(p)
  /\ UNCHANGED <<lines, torn, written, excused>>

------------------------------------------------------------------------------
\* Clear removes the file at the path, an empty one too, whoever is compacting it.
Clear(p) ==
  /\ proc[p] = Idle
  /\ lines' = <<>> /\ torn' = FALSE /\ excused' = 1..written
  /\ proc' = Disturbed(Swapped(proc), p) /\ settled' = FALSE
  /\ UNCHANGED <<lock, written>>

\* A lock that a file would be, and that outlives its process.
DieLocked(p) ==
  /\ proc[p] # Idle /\ proc' = [proc EXCEPT ![p] = Idle]
  /\ settled' = FALSE /\ UNCHANGED <<lines, torn, lock, written, excused>>

\* The process is killed; its flock goes with it.
Die(p) ==
  /\ proc[p] # Idle /\ proc' = [proc EXCEPT ![p] = Idle]
  /\ lock' = IF lock = p THEN Nobody ELSE lock
  /\ settled' = FALSE /\ UNCHANGED <<lines, torn, written, excused>>

Next ==
  \E p \in Procs :
    \/ Open(p) \/ Write(p) \/ WriteCutShort(p) \/ TryLock(p) \/ SkipTurn(p) \/ ReadFile(p)
    \/ Rename(p) \/ RenameFails(p) \/ Unlock(p) \/ Clear(p) \/ Die(p)

Spec == Init /\ [][Next]_vars

------------------------------------------------------------------------------
(* The history has lost no entry but those that compaction is for, the     *)
(* oldest, with at least half a file of newer ones written since, and      *)
(* those whose write fell between a compaction's read and its rename, or   *)
(* went to a file opened before a rename or a clear took it off the path,  *)
(* behind a torn line, or before a clear; and it keeps their order.        *)
OnlyRacesLose ==
  /\ \A n \in 1..written \ (excused \cup Range(lines)) :
       /\ written - n >= Keep
       /\ \A m \in Range(lines) \ {0} : m > n
  /\ \A i, j \in DOMAIN lines : i < j /\ 0 \notin {lines[i], lines[j]} => lines[i] < lines[j]

(* "A cost paid in bytes": whatever was killed, skipped or raced before,   *)
(* the first append that nobody disturbs leaves the file within its limit, *)
(* so that no dead process's lock keeps it growing for ever.               *)
QuietAppendCompacts == settled => Len(lines) <= Limit

(* A process that holds the lock is compacting, and no other is.           *)
LockIsHeld ==
  \A p \in Procs : proc[p].at \in {"read", "rename", "unlock"} <=> lock = p

(* "One bad line never costs the rest": an entry whose append succeeded    *)
(* with nobody else about is there to be read. It is not after a write     *)
(* that was cut short, whose unfinished line it is glued to.               *)
BadLineCostsItself == settled => written \in Range(lines)
=============================================================================
