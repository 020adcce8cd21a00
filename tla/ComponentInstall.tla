-------------------------- MODULE ComponentInstall --------------------------
(***************************************************************************)
(* `fft component install`, `upgrade` and `remove`: how the directory of   *)
(* one component under the component root is replaced and deleted          *)
(* (internal/component).  A new tree is staged beside it under a name that *)
(* discovery passes over; the swap is two renames, with the old tree under *)
(* a third name in between.  Nothing keeps two commands apart: they meet   *)
(* in the file system, where each call is one step.  A process dies at     *)
(* any of them.                                                            *)
(*                                                                         *)
(* A process runs one command.  What the tree that process c staged holds  *)
(* is tree[c], wherever the tree has been moved to since.                  *)
(***************************************************************************)
EXTENDS Naturals, FiniteSets

CONSTANTS
  Procs,      \* the processes that install, upgrade or remove the component
  None,       \* no tree
  MaxFaults   \* bounds the renames that fail although nothing is in their way

ASSUME NoneIsNoProcess == None \notin Procs
ASSUME FaultBound == MaxFaults \in Nat

VARIABLES
  at,        \* where each process is
  dir,       \* the tree that is <root>/<name>
  staging,   \* the processes whose .staging- directory exists
  old,       \* the tree that each process moved aside, to <name>.old-...
  tree,      \* the files each process's tree holds
  held,      \* the tree each removal has open
  faults,    \* the renames that failed
  working,   \* history: the component was installed
  removed,   \* history: a removal has begun to delete
  cut        \* history: a process was killed between its two renames

disk == <<dir, staging, old, tree>>
vars == <<at, dir, staging, old, tree, held, faults, working, removed, cut>>

\* The manifest makes a directory a component, the executable an installed one.
Files == {"manifest", "exec"}
Complete(t) == t # None /\ tree[t] = Files
Found == dir # None /\ "manifest" \in tree[dir]

Init ==
  /\ at = [c \in Procs |-> "start"]
  /\ dir = None /\ staging = {} /\ old = [c \in Procs |-> None]
  /\ tree = [c \in Procs |-> {}] /\ held = [c \in Procs |-> None]
  /\ faults = 0
  /\ working = FALSE /\ removed = FALSE /\ cut = FALSE

Goes(c, from, to) == at[c] = from /\ at' = [at EXCEPT ![c] = to]
Ends(c, from) == Goes(c, from, "ended")
\* RemoveAll(staged): that it may fail, which nothing looks at, is left out.
Unstage(c) == staging' = staging \ {c}

\* A rename onto a directory, or of one that is gone, fails; so may any other.
Fails(blocked) ==
  \/ blocked /\ UNCHANGED faults
  \/ faults < MaxFaults /\ faults' = faults + 1

------------------------------------------------------------------------------
(* Prepare, and the question                                               *)

\* An upgrade is an install of what the registry says is there.
Prepare(c) ==
  /\ Goes(c, "start", "staging")
  /\ staging' = staging \union {c}
  /\ UNCHANGED <<dir, old, tree, held, faults, working, removed, cut>>

\* The download is verified, unpacked and found to hold a manifest and its
\* executable; whatever fails takes the staging directory with it.
Stage(c) ==
  /\ \/ Goes(c, "staging", "asking") /\ tree' = [tree EXCEPT ![c] = Files] /\ UNCHANGED staging
     \/ Ends(c, "staging") /\ Unstage(c) /\ UNCHANGED tree
  /\ UNCHANGED <<dir, old, held, faults, working, removed, cut>>

\* Mistaken variant: a no leaves what was staged.
ConfirmKeeping(c) ==
  /\ (Goes(c, "asking", "committing") \/ Ends(c, "asking"))
  /\ UNCHANGED <<disk, held, faults, working, removed, cut>>

\* A no, and a question that could not be asked, discard.
Confirm(c) ==
  /\ \/ Goes(c, "asking", "committing") /\ UNCHANGED staging
     \/ Ends(c, "asking") /\ Unstage(c)
  /\ UNCHANGED <<dir, old, tree, held, faults, working, removed, cut>>

------------------------------------------------------------------------------
(* Commit, which takes its staging directory with it however it ends       *)

\* The mode and the manifest are set in the staged tree; then Commit looks whether there
\* is a tree to move aside.
Look(c) ==
  /\ \/ Goes(c, "committing", IF dir = None THEN "swapping" ELSE "aside") /\ UNCHANGED staging
     \/ Ends(c, "committing") /\ Unstage(c)
  /\ UNCHANGED <<dir, old, tree, held, faults, working, removed, cut>>

\* Mistaken variant: the old tree is deleted before the new one is in place.
MoveAsideDeleting(c) ==
  /\ \/ /\ dir # None /\ Goes(c, "aside", "swapping")
        /\ dir' = None /\ UNCHANGED <<old, staging, faults>>
     \/ Ends(c, "aside") /\ Unstage(c) /\ Fails(dir = None) /\ UNCHANGED <<dir, old>>
  /\ UNCHANGED <<tree, held, working, removed, cut>>

MoveAside(c) ==
  /\ \/ /\ dir # None /\ Goes(c, "aside", "swapping")
        /\ old' = [old EXCEPT ![c] = dir] /\ dir' = None
        /\ UNCHANGED <<staging, faults>>
     \/ Ends(c, "aside") /\ Unstage(c) /\ Fails(dir = None) /\ UNCHANGED <<dir, old>>
  /\ UNCHANGED <<tree, held, working, removed, cut>>

\* Mistaken variant: what was moved aside is not put back.
SwapOrLeave(c) ==
  /\ \/ /\ dir = None /\ Goes(c, "swapping", IF old[c] = None THEN "ended" ELSE "sweeping")
        /\ dir' = c /\ Unstage(c) /\ working' = TRUE
        /\ UNCHANGED faults
     \/ /\ Ends(c, "swapping") /\ Unstage(c) /\ Fails(dir # None)
        /\ UNCHANGED <<dir, working>>
  /\ UNCHANGED <<old, tree, held, removed, cut>>

Swap(c) ==
  /\ \/ /\ dir = None /\ Goes(c, "swapping", IF old[c] = None THEN "ended" ELSE "sweeping")
        /\ dir' = c /\ Unstage(c) /\ working' = TRUE
        /\ UNCHANGED faults
     \/ /\ Fails(dir # None) /\ UNCHANGED <<dir, working>>
        /\ IF old[c] = None THEN Ends(c, "swapping") /\ Unstage(c)
                            ELSE Goes(c, "swapping", "puttingBack") /\ UNCHANGED staging
  /\ UNCHANGED <<old, tree, held, removed, cut>>

\* Whether it worked is not looked at.
PutBack(c) ==
  /\ Ends(c, "puttingBack") /\ Unstage(c)
  /\ \/ dir = None /\ dir' = old[c] /\ old' = [old EXCEPT ![c] = None] /\ UNCHANGED faults
     \/ Fails(dir # None) /\ UNCHANGED <<dir, old>>
  /\ UNCHANGED <<tree, held, working, removed, cut>>

\* The old tree is deleted, or what can be deleted of it.
Sweep(c) ==
  /\ Ends(c, "sweeping")
  /\ \E left \in SUBSET tree[old[c]] :
       /\ tree' = [tree EXCEPT ![old[c]] = left]
       /\ old' = [old EXCEPT ![c] = IF left = {} THEN None ELSE @]
  /\ UNCHANGED <<dir, staging, held, faults, working, removed, cut>>

------------------------------------------------------------------------------
(* Remove                                                                  *)

\* A component that has its executable is installed, and may be removed.
AskRemove(c) ==
  /\ Complete(dir) /\ Goes(c, "start", "removing")
  /\ UNCHANGED <<disk, held, faults, working, removed, cut>>

\* The answer, and the look for a manifest.
ConfirmRemove(c) ==
  /\ \/ Found /\ Goes(c, "removing", "opening")
     \/ Ends(c, "removing")
  /\ UNCHANGED <<disk, held, faults, working, removed, cut>>

\* RemoveAll opens whatever has the name by now.
Open(c) ==
  /\ IF dir = None THEN Ends(c, "opening") /\ UNCHANGED <<held, removed>>
                   ELSE /\ Goes(c, "opening", "deleting")
                        /\ held' = [held EXCEPT ![c] = dir] /\ removed' = TRUE
  /\ UNCHANGED <<disk, faults, working, cut>>

\* One file after another, in the order the directory lists them.
Delete(c) ==
  /\ at[c] = "deleting" /\ \E f \in tree[held[c]] : tree' = [tree EXCEPT ![held[c]] = @ \ {f}]
  /\ UNCHANGED <<at, dir, staging, old, held, faults, working, removed, cut>>

\* The directory goes by its name, if it is empty; an error leaves what is left.
DeleteDir(c) ==
  /\ Ends(c, "deleting")
  /\ \/ dir # None /\ tree[held[c]] = {} /\ tree[dir] = {} /\ dir' = None
     \/ UNCHANGED dir
  /\ UNCHANGED <<staging, old, tree, held, faults, working, removed, cut>>

------------------------------------------------------------------------------
\* Between the renames there is no component, for as long as that takes.
Between(c) == at[c] \in {"swapping", "puttingBack"} /\ old[c] # None

Kill(c) ==
  /\ at[c] \notin {"start", "ended", "killed"} /\ at' = [at EXCEPT ![c] = "killed"]
  /\ cut' = (cut \/ Between(c))
  /\ UNCHANGED <<disk, held, faults, working, removed>>

Next ==
  \E c \in Procs :
    \/ Prepare(c) \/ Stage(c) \/ Confirm(c)
    \/ Look(c) \/ MoveAside(c) \/ Swap(c) \/ PutBack(c) \/ Sweep(c)
    \/ AskRemove(c) \/ ConfirmRemove(c) \/ Open(c) \/ Delete(c) \/ DeleteDir(c)
    \/ Kill(c)

Spec == Init /\ [][Next]_vars

------------------------------------------------------------------------------
(* Properties                                                              *)

(* "Never half of each": once a component was installed, a whole tree of   *)
(* it, old or new, is on the disk at every moment until somebody removes   *)
(* it, whatever fails, whoever is killed and however many install it at a  *)
(* time: the old tree goes only when another one has its place.            *)
NothingIsLost ==
  working /\ ~removed => \E t \in {dir} \union {old[c] : c \in Procs} : Complete(t)

(* "A failed upgrade leaves the working version in place": unless somebody *)
(* was killed between his renames, or is between them, an installed        *)
(* component stays installed under its name.                               *)
FailedUpgradeKeepsWorking ==
  working /\ ~removed /\ ~cut /\ (\A c \in Procs : ~Between(c)) => Complete(dir)

(* "From here every path must either commit or discard": a command that    *)
(* was not killed leaves no staging directory behind.                      *)
StagingIsDiscarded == \A c \in Procs : at[c] = "ended" => c \notin staging

(* "... leaves at worst a directory called <name>.old-... that the next    *)
(* install cleans up": an install that begins after a process was killed   *)
(* and that puts its tree in place leaves none of the dead process's. It   *)
(* does not hold: nothing looks for such a directory.                      *)
NextInstallCleansUp ==
  \A c, d \in Procs :
    [](at[d] = "killed" /\ at[c] = "start" => [](at[c] = "ended" /\ dir = c => old[d] = None))
=============================================================================
