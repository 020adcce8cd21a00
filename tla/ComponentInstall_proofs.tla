----------------------- MODULE ComponentInstall_proofs -----------------------
(***************************************************************************)
(* What holds of a component's directory for any number of commands that   *)
(* install, upgrade and remove it side by side.  The argument is about     *)
(* where the trees are: no tree is in two places, so what one command      *)
(* deletes is never what another has put, or may put, in place.            *)
(***************************************************************************)
EXTENDS ComponentInstall, TLAPS

Trees  == Procs \union {None}
Steps  == {"start", "staging", "asking", "committing", "aside", "swapping", "puttingBack", "sweeping",
           "removing", "opening", "deleting", "ended", "killed"}
Staged == {"staging", "asking", "committing", "aside", "swapping", "puttingBack", "killed"}
Early  == {"start", "staging", "asking", "committing", "aside"}
Ready  == {"asking", "committing", "aside", "swapping"}

Types ==
  /\ at \in [Procs -> Steps]
  /\ dir \in Trees
  /\ staging \subseteq Procs
  /\ old \in [Procs -> Trees]
  /\ tree \in [Procs -> SUBSET Files]
  /\ held \in [Procs -> Trees]
  /\ faults \in Nat

\* A command that is no longer at work on its staging directory has none.
Tidy == \A c \in staging : at[c] \in Staged

\* What a process staged is in place only once it has swapped, and no tree is twice on the
\* disk.
Placed(t) == t # None => at[t] \in {"sweeping", "ended", "killed"}
Apart ==
  /\ Placed(dir)
  /\ \A c \in Procs : Placed(old[c]) /\ (old[c] # None => old[c] # dir)
  /\ \A c, d \in Procs : c # d /\ old[c] # None => old[c] # old[d]
  /\ \A c \in Procs : at[c] = "sweeping" => old[c] # None
  /\ \A c \in Procs : at[c] \in Early => old[c] = None

\* As long as nobody removes, a tree is whole unless it is one that is being swept.
Whole ==
  /\ \A c \in Procs : at[c] = "deleting" => removed
  /\ ~removed => /\ \A c \in Procs : at[c] \in Ready => tree[c] = Files
                 /\ dir # None => tree[dir] = Files
                 /\ \A c \in Procs : Between(c) => tree[old[c]] = Files

\* A tree that was moved aside and that its command is not about to delete.
Kept(c) == Complete(old[c]) /\ at[c] # "sweeping"
Somewhere == working /\ ~removed => dir # None \/ \E c \in Procs : Kept(c)

IInv == Types /\ Tidy /\ Apart /\ Whole /\ Somewhere

\* The last rename that may fail is not the last that can bring a tree into place.
Returning ==
  working /\ ~removed /\ ~cut =>
    \/ dir # None
    \/ \E c \in Procs : at[c] = "swapping" /\ old[c] # None
    \/ faults >= MaxFaults /\ \E c \in Procs : at[c] = "puttingBack" /\ old[c] # None

OneFault == MaxFaults \in {0, 1}

----------------------------------------------------------------------------
LEMMA Initially == Init => IInv /\ Returning
BY NoneIsNoProcess
DEF Init, IInv, Returning, Types, Tidy, Apart, Placed, Whole, Between, Somewhere, Trees, Steps, Ready, Early

LEMMA Gone ==
  ASSUME Types, NEW c \in Procs, NEW from \in Steps, NEW to \in Steps, Goes(c, from, to)
  PROVE  /\ at' \in [Procs -> Steps] /\ at[c] = from /\ at'[c] = to
         /\ \A d \in Procs : d # c => at'[d] = at[d]
BY DEF Goes, Types

\* Preparing, asking and committing up to the renames.
LEMMA BeforeStep ==
  ASSUME IInv, NEW c \in Procs, Prepare(c) \/ Stage(c) \/ Confirm(c) \/ Look(c)
  PROVE  IInv' /\ (Returning => Returning')
<1>1. PICK from \in {"start", "staging", "asking", "committing"},
           to \in {"staging", "asking", "committing", "swapping", "aside", "ended"} :
        /\ Goes(c, from, to)
        /\ to = "swapping" => dir = None
        /\ to \in Ready => tree'[c] = Files \/ (from \in {"asking", "committing"} /\ tree' = tree)
        /\ to = "ended" => staging' = staging \ {c}
        /\ staging' \subseteq staging \union {c}
        /\ tree' = tree \/ (tree' = [tree EXCEPT ![c] = Files] /\ from = "staging")
  <2>1. CASE Prepare(c)
    BY <2>1 DEF Prepare, Ready
  <2>2. CASE Stage(c)
    <3>1. tree \in [Procs -> SUBSET Files]
      BY DEF IInv, Types
    <3>2. CASE Goes(c, "staging", "asking") /\ tree' = [tree EXCEPT ![c] = Files] /\ UNCHANGED staging
      <4>1. tree'[c] = Files
        BY <3>1, <3>2
      <4> QED BY <3>2, <4>1
    <3>3. CASE Ends(c, "staging") /\ Unstage(c) /\ UNCHANGED tree
      BY <3>3 DEF Ends, Unstage, Ready
    <3> QED BY <2>2, <3>2, <3>3 DEF Stage
  <2>3. CASE Confirm(c)
    BY <2>3 DEF Confirm, Ends, Unstage, Ready
  <2>4. CASE Look(c)
    BY <2>4 DEF Look, Ends, Unstage, Ready
  <2> QED BY <2>1, <2>2, <2>3, <2>4
<1>2. UNCHANGED <<dir, old, held, faults, working, removed, cut>>
  BY DEF Prepare, Stage, Confirm, Look
<1>3. /\ at' \in [Procs -> Steps] /\ at[c] = from /\ at'[c] = to
      /\ \A d \in Procs : d # c => at'[d] = at[d]
  BY <1>1, Gone DEF IInv, Steps
<1>4. Types'
  BY <1>1, <1>2, <1>3 DEF IInv, Types
<1>5. Tidy'
  BY <1>1, <1>3 DEF IInv, Types, Tidy, Staged
<1>6. \A t \in Trees : Placed(t) => t # c /\ Placed(t)'
  BY <1>1, <1>3, NoneIsNoProcess DEF Placed, Trees
<1>7. Apart'
  BY <1>1, <1>2, <1>3, <1>6 DEF IInv, Types, Apart, Early
<1>8. \A t \in Procs : t # c => tree'[t] = tree[t]
  BY <1>1 DEF IInv, Types
<1>9. \A d \in Procs : old[d] # c /\ dir # c /\ (old[d] # None => old[d] \in Procs)
  BY <1>6 DEF IInv, Apart, Types, Trees
<1>10. old[c] = None
  BY <1>1, <1>3 DEF IInv, Apart, Early
<1>11. Whole'
  <2>1. \A d \in Procs : at'[d] = "deleting" => removed'
    BY <1>1, <1>2, <1>3 DEF IInv, Whole
  <2>2. ASSUME ~removed, NEW d \in Procs, at'[d] \in Ready PROVE tree'[d] = Files
    BY <1>1, <1>2, <1>3, <1>8, <2>2 DEF IInv, Whole, Ready
  <2>3. ~removed /\ dir # None => tree'[dir] = Files
    BY <1>2, <1>8, <1>9 DEF IInv, Whole, Types, Trees
  <2>4. ASSUME ~removed, NEW d \in Procs, Between(d)' PROVE tree'[old[d]] = Files
    BY <1>2, <1>3, <1>8, <1>9, <1>10, <2>4 DEF IInv, Whole, Between
  <2> QED BY <1>2, <2>1, <2>2, <2>3, <2>4 DEF Whole
<1>12. Somewhere'
  <2>1. \A d \in Procs : Kept(d) => Kept(d)'
    BY <1>1, <1>2, <1>3, <1>8, <1>9 DEF Kept, Complete
  <2> QED BY <1>2, <2>1 DEF IInv, Somewhere
<1>13. ASSUME Returning PROVE Returning'
  BY <1>1, <1>2, <1>3, <1>10, <1>13 DEF Returning
<1> QED BY <1>4, <1>5, <1>7, <1>11, <1>12, <1>13 DEF IInv

LEMMA AsideStep ==
  ASSUME IInv, NEW c \in Procs, MoveAside(c)
  PROVE  IInv' /\ (Returning => Returning')
<1>1. CASE /\ dir # None /\ Goes(c, "aside", "swapping")
           /\ old' = [old EXCEPT ![c] = dir] /\ dir' = None
           /\ UNCHANGED <<staging, faults>>
  <2>1. UNCHANGED <<tree, held, working, removed, cut>>
    BY DEF MoveAside
  <2>2. /\ at' \in [Procs -> Steps] /\ at[c] = "aside" /\ at'[c] = "swapping"
        /\ \A d \in Procs : d # c => at'[d] = at[d]
    BY <1>1, Gone DEF IInv, Steps
  <2>3. old'[c] = dir /\ old[c] = None /\ \A d \in Procs : d # c => old'[d] = old[d]
    BY <1>1, <2>2 DEF IInv, Types, Apart, Early
  <2>4. Types'
    BY <1>1, <2>1, <2>2 DEF IInv, Types, Trees
  <2>5. Tidy'
    BY <1>1, <2>2 DEF IInv, Types, Tidy, Staged
  <2>6. Apart'
    <3>1. \A t \in Trees : Placed(t) => Placed(t)'
      BY <2>2, NoneIsNoProcess DEF Placed, Trees
    <3>2. dir \in Trees /\ \A d \in Procs : old[d] \in Trees
      BY DEF IInv, Types
    <3> QED BY <1>1, <2>2, <2>3, <3>1, <3>2 DEF IInv, Apart, Early, Placed
  <2>7. Whole'
    BY <1>1, <2>1, <2>2, <2>3 DEF IInv, Whole, Ready, Between
  <2>8. Kept(c)' \/ removed
    BY <1>1, <2>1, <2>2, <2>3 DEF IInv, Whole, Kept, Complete
  <2>9. Somewhere'
    BY <2>1, <2>8 DEF Somewhere
  <2>10. Returning'
    BY <1>1, <2>2, <2>3 DEF Returning
  <2> QED BY <2>4, <2>5, <2>6, <2>7, <2>9, <2>10 DEF IInv
<1>2. CASE Ends(c, "aside") /\ Unstage(c) /\ Fails(dir = None) /\ UNCHANGED <<dir, old>>
  <2>1. UNCHANGED <<dir, old, tree, held, working, removed, cut>> /\ staging' = staging \ {c}
    BY <1>2 DEF MoveAside, Unstage
  <2>2. /\ at' \in [Procs -> Steps] /\ at[c] = "aside" /\ at'[c] = "ended"
        /\ \A d \in Procs : d # c => at'[d] = at[d]
    BY <1>2, Gone DEF IInv, Steps, Ends
  <2>3. faults' \in Nat /\ faults' >= faults
    BY <1>2 DEF IInv, Types, Fails
  <2>4. Types' /\ Tidy'
    BY <2>1, <2>2, <2>3 DEF IInv, Types, Tidy, Staged
  <2>5. Apart'
    BY <2>1, <2>2, NoneIsNoProcess DEF IInv, Types, Trees, Apart, Early, Placed
  <2>6. Whole'
    BY <2>1, <2>2 DEF IInv, Whole, Ready, Between
  <2>7. Somewhere'
    BY <2>1, <2>2 DEF IInv, Somewhere, Kept, Complete
  <2>8. Returning => Returning'
    <3>1. MaxFaults <= faults => MaxFaults <= faults'
      BY <1>2, <2>3, FaultBound DEF IInv, Types
    <3> QED BY <2>1, <2>2, <3>1 DEF Returning
  <2> QED BY <2>4, <2>5, <2>6, <2>7, <2>8 DEF IInv
<1> QED BY <1>1, <1>2 DEF MoveAside

LEMMA SwapStep ==
  ASSUME IInv, NEW c \in Procs, Swap(c)
  PROVE  IInv' /\ (OneFault => (Returning => Returning'))
<1>1. UNCHANGED <<old, tree, held, removed, cut>>
  BY DEF Swap
<1>2. PICK to \in {"ended", "sweeping", "puttingBack"} :
        /\ Goes(c, "swapping", to)
        /\ to = "ended" => old[c] = None
        /\ to \in {"sweeping", "puttingBack"} => old[c] # None
        /\ staging' = IF to = "puttingBack" THEN staging ELSE staging \ {c}
        /\ \/ /\ dir = None /\ dir' = c /\ working' /\ UNCHANGED faults
              /\ to # "puttingBack"
           \/ /\ UNCHANGED <<dir, working>> /\ Fails(dir # None)
              /\ to # "sweeping"
  BY DEF Swap, Ends, Unstage
<1>3. /\ at' \in [Procs -> Steps] /\ at[c] = "swapping" /\ at'[c] = to
      /\ \A d \in Procs : d # c => at'[d] = at[d]
  BY <1>2, Gone DEF IInv, Steps
<1>4. faults' \in Nat /\ faults' >= faults
  BY <1>2 DEF Fails, IInv, Types
<1>5. Types'
  BY <1>1, <1>2, <1>3, <1>4 DEF IInv, Types, Trees
<1>6. Tidy'
  BY <1>2, <1>3 DEF IInv, Types, Tidy, Staged
<1>7. \A t \in Trees : Placed(t) => t # c /\ Placed(t)'
  BY <1>3, NoneIsNoProcess DEF Placed, Trees
<1>8. dir \in Trees /\ \A d \in Procs : old[d] \in Trees /\ old[d] # c
  BY <1>7 DEF IInv, Types, Apart
<1>9. Apart'
  <2>1. Placed(dir)'
    <3>1. CASE UNCHANGED dir
      BY <1>7, <1>8, <3>1 DEF IInv, Apart, Placed
    <3>2. CASE dir' = c /\ to # "puttingBack"
      BY <1>3, <3>2 DEF Placed
    <3> QED BY <1>2, <3>1, <3>2
  <2>2. \A d \in Procs : old[d] # None => old[d] # dir'
    BY <1>2, <1>8 DEF IInv, Apart
  <2>3. \A d \in Procs : Placed(old[d])'
    BY <1>1, <1>7, <1>8 DEF IInv, Apart, Placed
  <2>4. \A d \in Procs : /\ at'[d] = "sweeping" => old[d] # None
                         /\ at'[d] \in Early => old[d] = None
    BY <1>2, <1>3 DEF IInv, Apart, Early
  <2> QED BY <1>1, <2>1, <2>2, <2>3, <2>4 DEF IInv, Apart
<1>10. Whole'
  BY <1>1, <1>2, <1>3 DEF IInv, Whole, Ready, Between
<1>11. Somewhere'
  <2>1. \A d \in Procs : UNCHANGED dir /\ Kept(d) => Kept(d)'
    BY <1>1, <1>2, <1>3, NoneIsNoProcess DEF Kept, Complete
  <2> QED BY <1>1, <1>2, <2>1, NoneIsNoProcess DEF IInv, Somewhere
<1>12. ASSUME OneFault, Returning PROVE Returning'
  <2>1. CASE dir' = c
    BY <2>1, NoneIsNoProcess DEF Returning
  <2>2. CASE UNCHANGED <<dir, working>> /\ Fails(dir # None) /\ to = "ended"
    <3>1. MaxFaults <= faults => MaxFaults <= faults'
      BY <1>4, FaultBound DEF IInv, Types
    <3> QED BY <1>1, <1>2, <1>3, <1>12, <2>2, <3>1 DEF Returning
  <2>3. CASE UNCHANGED <<dir, working>> /\ Fails(dir # None) /\ to = "puttingBack"
    <3>1. dir # None \/ faults' >= MaxFaults
      BY <1>12, <2>3 DEF OneFault, Fails, IInv, Types
    <3> QED BY <1>1, <1>2, <1>3, <2>3, <3>1 DEF Returning
  <2> QED BY <1>2, <2>1, <2>2, <2>3
<1> QED BY <1>5, <1>6, <1>9, <1>10, <1>11, <1>12 DEF IInv

LEMMA PutBackStep ==
  ASSUME IInv, NEW c \in Procs, PutBack(c)
  PROVE  IInv' /\ (Returning => Returning')
<1>1. UNCHANGED <<tree, held, working, removed, cut>> /\ staging' = staging \ {c}
  BY DEF PutBack, Unstage
<1>2. /\ at' \in [Procs -> Steps] /\ at[c] = "puttingBack" /\ at'[c] = "ended"
      /\ \A d \in Procs : d # c => at'[d] = at[d]
  BY Gone DEF PutBack, Ends, IInv, Steps
<1>3. \A t \in Trees : Placed(t) => Placed(t)'
  BY <1>2, NoneIsNoProcess DEF Placed, Trees
<1>4. dir \in Trees /\ \A d \in Procs : old[d] \in Trees
  BY DEF IInv, Types
<1>5. Tidy'
  BY <1>1, <1>2 DEF IInv, Types, Tidy, Staged
<1>6. CASE dir = None /\ dir' = old[c] /\ old' = [old EXCEPT ![c] = None] /\ UNCHANGED faults
  <2>1. old'[c] = None /\ \A d \in Procs : d # c => old'[d] = old[d]
    BY <1>6 DEF IInv, Types
  <2>2. Types'
    BY <1>1, <1>2, <1>4, <1>6 DEF IInv, Types, Trees
  <2>3. Apart'
    BY <1>2, <1>3, <1>4, <1>6, <2>1 DEF IInv, Apart, Early, Placed
  <2>4. Whole'
    BY <1>1, <1>2, <1>6, <2>1 DEF IInv, Whole, Ready, Between
  <2>5. Somewhere'
    <3>1. \A d \in Procs : d # c /\ Kept(d) => Kept(d)'
      BY <1>1, <1>2, <2>1 DEF Kept, Complete
    <3>2. Kept(c) => dir' # None
      BY <1>6 DEF Kept, Complete
    <3> QED BY <1>1, <1>6, <3>1, <3>2 DEF IInv, Somewhere
  <2>6. ASSUME Returning PROVE Returning'
    BY <1>1, <1>2, <1>6, <2>1, <2>6 DEF Returning
  <2> QED BY <1>5, <2>2, <2>3, <2>4, <2>5, <2>6 DEF IInv
<1>7. CASE Fails(dir # None) /\ UNCHANGED <<dir, old>>
  <2>1. faults' \in Nat
    BY <1>7 DEF IInv, Types, Fails
  <2>2. Types'
    BY <1>1, <1>2, <1>7, <2>1 DEF IInv, Types
  <2>3. Apart'
    BY <1>2, <1>3, <1>4, <1>7 DEF IInv, Apart, Early, Placed
  <2>4. Whole'
    BY <1>1, <1>2, <1>7 DEF IInv, Whole, Ready, Between
  <2>5. Somewhere'
    BY <1>1, <1>2, <1>7 DEF IInv, Somewhere, Kept, Complete
  <2>6. ASSUME Returning PROVE Returning'
    <3>1. dir # None \/ faults < MaxFaults
      BY <1>7 DEF Fails
    <3>2. ~(faults < MaxFaults /\ faults >= MaxFaults)
      BY FaultBound DEF IInv, Types
    <3> QED BY <1>1, <1>2, <1>7, <2>6, <3>1, <3>2 DEF Returning
  <2> QED BY <1>5, <2>2, <2>3, <2>4, <2>5, <2>6 DEF IInv
<1> QED BY <1>6, <1>7 DEF PutBack

LEMMA SweepStep ==
  ASSUME IInv, NEW c \in Procs, Sweep(c)
  PROVE  IInv' /\ (Returning => Returning')
<1>1. PICK left \in SUBSET tree[old[c]] :
        /\ tree' = [tree EXCEPT ![old[c]] = left]
        /\ old' = [old EXCEPT ![c] = IF left = {} THEN None ELSE @]
  BY DEF Sweep
<1>2. UNCHANGED <<dir, staging, held, faults, working, removed, cut>>
  BY DEF Sweep
<1>3. /\ at' \in [Procs -> Steps] /\ at[c] = "sweeping" /\ at'[c] = "ended"
      /\ \A d \in Procs : d # c => at'[d] = at[d]
  BY Gone DEF Sweep, Ends, IInv, Steps
<1>4. PICK t \in Procs : t = old[c]
  BY <1>3 DEF IInv, Types, Trees, Apart
<1>5. /\ old'[c] \in {None, t}
      /\ \A d \in Procs : d # c => old'[d] = old[d] /\ old[d] # t
      /\ dir # t
  BY <1>1, <1>4, NoneIsNoProcess DEF IInv, Types, Apart
<1>6. \A d \in Procs : d # t => tree'[d] = tree[d]
  BY <1>1, <1>4 DEF IInv, Types
<1>7. Types'
  <2>1. tree[t] \in SUBSET Files
    BY DEF IInv, Types
  <2>2. left \in SUBSET Files
    BY <1>4, <2>1
  <2> QED BY <1>1, <1>2, <1>3, <1>4, <2>2 DEF IInv, Types, Trees
<1>8. Tidy'
  BY <1>2, <1>3 DEF IInv, Types, Tidy, Staged
<1>9. Apart'
  <2>1. \A u \in Trees : Placed(u) => Placed(u)'
    BY <1>3, NoneIsNoProcess DEF Placed, Trees
  <2>2. dir \in Trees /\ \A d \in Procs : old[d] \in Trees
    BY DEF IInv, Types
  <2>3. \A d \in Procs : old'[d] \in {None, old[d]}
    BY <1>4, <1>5
  <2> QED BY <1>2, <1>3, <1>5, <2>1, <2>2, <2>3 DEF IInv, Apart, Early, Placed
<1>10. Whole'
  <2>1. at[t] \notin Ready
    BY <1>4, NoneIsNoProcess DEF IInv, Apart, Placed, Ready
  <2>2. \A d \in Procs : at'[d] = "deleting" => removed'
    BY <1>2, <1>3 DEF IInv, Whole
  <2>3. ASSUME ~removed, NEW d \in Procs, at'[d] \in Ready PROVE tree'[d] = Files
    BY <1>2, <1>3, <1>6, <2>1, <2>3 DEF IInv, Whole, Ready
  <2>4. ~removed /\ dir # None => tree'[dir] = Files
    BY <1>5, <1>6 DEF IInv, Whole, Types, Trees
  <2>5. ASSUME ~removed, NEW d \in Procs, Between(d)' PROVE tree'[old'[d]] = Files
    <3>1. d # c /\ Between(d) /\ old[d] \in Procs
      BY <1>3, <1>5, <2>5 DEF Between, IInv, Types, Trees
    <3> QED BY <1>5, <1>6, <2>5, <3>1 DEF IInv, Whole
  <2> QED BY <1>2, <2>2, <2>3, <2>4, <2>5 DEF Whole
<1>11. Somewhere'
  <2>1. ASSUME NEW d \in Procs, Kept(d) PROVE Kept(d)'
    <3>1. d # c /\ old[d] \in Procs
      BY <1>3, <2>1 DEF Kept, Complete, IInv, Types, Trees
    <3> QED BY <1>3, <1>5, <1>6, <2>1, <3>1 DEF Kept, Complete
  <2> QED BY <1>2, <2>1 DEF IInv, Somewhere
<1>12. ASSUME Returning PROVE Returning'
  BY <1>2, <1>3, <1>5, <1>12 DEF Returning
<1> QED BY <1>7, <1>8, <1>9, <1>10, <1>11, <1>12 DEF IInv

\* Asking, and opening what is then to be deleted.
LEMMA AskingStep ==
  ASSUME IInv, NEW c \in Procs, AskRemove(c) \/ ConfirmRemove(c) \/ Open(c)
  PROVE  IInv' /\ (Returning => Returning')
<1>1. PICK from \in {"start", "removing", "opening"}, to \in {"removing", "opening", "deleting", "ended"} :
        /\ Goes(c, from, to)
        /\ to = "deleting" => removed'
  BY DEF AskRemove, ConfirmRemove, Open, Ends
<1>2. UNCHANGED <<disk, faults, working, cut>> /\ (removed => removed')
  BY DEF AskRemove, ConfirmRemove, Open
<1>3. held' \in [Procs -> Trees]
  BY DEF IInv, Types, AskRemove, ConfirmRemove, Open
<1>4. /\ at' \in [Procs -> Steps] /\ at[c] = from /\ at'[c] = to
      /\ \A d \in Procs : d # c => at'[d] = at[d]
  BY <1>1, Gone DEF IInv, Steps
<1>5. Types' /\ Tidy'
  BY <1>1, <1>2, <1>3, <1>4 DEF IInv, Types, Tidy, Staged, disk
<1>6. Apart'
  <2>1. \A t \in Trees : Placed(t) => Placed(t)'
    BY <1>1, <1>4, NoneIsNoProcess DEF Placed, Trees
  <2>2. dir \in Trees /\ \A d \in Procs : old[d] \in Trees
    BY DEF IInv, Types
  <2> QED BY <1>1, <1>2, <1>4, <2>1, <2>2 DEF IInv, Apart, Early, Placed, disk
<1>7. Whole'
  BY <1>1, <1>2, <1>4 DEF IInv, Whole, Ready, Between, disk
<1>8. Somewhere'
  BY <1>1, <1>2, <1>4 DEF IInv, Somewhere, Kept, Complete, disk
<1>9. ASSUME Returning PROVE Returning'
  BY <1>1, <1>2, <1>4, <1>9 DEF Returning, disk
<1> QED BY <1>5, <1>6, <1>7, <1>8, <1>9 DEF IInv

\* Once a removal deletes, nothing is promised of what the trees hold.
LEMMA DeletingStep ==
  ASSUME IInv, NEW c \in Procs, Delete(c) \/ DeleteDir(c)
  PROVE  IInv' /\ Returning'
<1>1. /\ at[c] = "deleting" /\ at' \in [Procs -> Steps]
      /\ \A d \in Procs : at'[d] = at[d] \/ at'[d] = "ended"
  BY Gone DEF Delete, DeleteDir, Ends, IInv, Types, Steps
<1>2. removed /\ removed'
  BY <1>1 DEF IInv, Whole, Delete, DeleteDir
<1>3. UNCHANGED <<staging, old, held, faults>> /\ (dir' = dir \/ dir' = None)
  BY DEF Delete, DeleteDir
<1>4. \A d \in Procs : at'[d] # at[d] => d = c
  BY <1>1, Gone DEF Delete, DeleteDir, Ends, IInv, Types, Steps
<1>5. tree' \in [Procs -> SUBSET Files]
  <2>1. CASE Delete(c)
    <3>1. PICK f \in tree[held[c]] : tree' = [tree EXCEPT ![held[c]] = @ \ {f}]
      BY <2>1 DEF Delete
    <3> QED BY <3>1 DEF IInv, Types
  <2>2. CASE DeleteDir(c)
    BY <2>2 DEF DeleteDir, IInv, Types
  <2> QED BY <2>1, <2>2
<1>6. Types'
  BY <1>1, <1>3, <1>5 DEF IInv, Types, Trees
<1>7. Tidy'
  BY <1>1, <1>3, <1>4 DEF IInv, Types, Tidy, Staged
<1>8. Apart'
  <2>1. \A t \in Trees : Placed(t) => Placed(t)'
    BY <1>1, NoneIsNoProcess DEF Placed, Trees
  <2>2. dir \in Trees /\ \A d \in Procs : old[d] \in Trees
    BY DEF IInv, Types
  <2>3. Placed(dir)'
    BY <1>3, <2>1, <2>2 DEF IInv, Apart, Placed
  <2>4. \A d \in Procs : Placed(old[d])'
    BY <1>3, <2>1, <2>2 DEF IInv, Apart, Placed
  <2> QED BY <1>1, <1>3, <2>3, <2>4 DEF IInv, Apart, Early
<1>9. Whole' /\ Somewhere' /\ Returning'
  BY <1>2 DEF Whole, Somewhere, Returning
<1> QED BY <1>6, <1>7, <1>8, <1>9 DEF IInv

LEMMA KillStep ==
  ASSUME IInv, NEW c \in Procs, Kill(c)
  PROVE  IInv' /\ (Returning => Returning')
<1>1. UNCHANGED <<dir, staging, old, tree, held, faults, working, removed>>
  BY DEF Kill, disk
<1>2. /\ at' \in [Procs -> Steps] /\ at'[c] = "killed"
      /\ at[c] \notin {"start", "ended", "killed"}
      /\ \A d \in Procs : d # c => at'[d] = at[d]
  BY DEF Kill, IInv, Types, Steps
<1>3. Types' /\ Tidy'
  BY <1>1, <1>2 DEF IInv, Types, Tidy, Staged
<1>4. Apart'
  <2>1. \A t \in Trees : Placed(t) => Placed(t)'
    BY <1>2, NoneIsNoProcess DEF Placed, Trees
  <2>2. dir \in Trees /\ \A d \in Procs : old[d] \in Trees
    BY DEF IInv, Types
  <2> QED BY <1>1, <1>2, <2>1, <2>2 DEF IInv, Apart, Early, Placed
<1>5. Whole' /\ Somewhere'
  BY <1>1, <1>2 DEF IInv, Whole, Ready, Between, Somewhere, Kept, Complete
<1>6. ASSUME Returning PROVE Returning'
  <2>1. Between(c) => cut'
    BY DEF Kill
  <2>2. cut => cut'
    BY DEF Kill
  <2>3. CASE ~Between(c)
    BY <1>1, <1>2, <1>6, <2>2, <2>3 DEF Returning, Between
  <2> QED BY <2>1, <2>3 DEF Returning
<1> QED BY <1>3, <1>4, <1>5, <1>6 DEF IInv

LEMMA Invariant ==
  ASSUME IInv, [Next]_vars
  PROVE  IInv' /\ (OneFault => (Returning => Returning'))
<1>1. CASE Next
  <2>1. PICK c \in Procs :
          \/ Prepare(c) \/ Stage(c) \/ Confirm(c)
          \/ Look(c) \/ MoveAside(c) \/ Swap(c) \/ PutBack(c) \/ Sweep(c)
          \/ AskRemove(c) \/ ConfirmRemove(c) \/ Open(c) \/ Delete(c) \/ DeleteDir(c)
          \/ Kill(c)
    BY <1>1 DEF Next
  <2> QED BY <2>1, BeforeStep, AsideStep, SwapStep, PutBackStep, SweepStep, AskingStep, DeletingStep, KillStep
<1>2. CASE UNCHANGED vars
  <2>1. UNCHANGED <<at, dir, staging, old, tree, held, faults, working, removed, cut>>
    BY <1>2 DEF vars
  <2> QED BY <2>1
          DEF IInv, Types, Tidy, Apart, Placed, Whole, Between, Somewhere, Kept, Complete, Returning
<1> QED BY <1>1, <1>2

\* Where the trees are, and what they hold, at every moment of any commands.
THEOREM Inductive == Spec => []IInv
BY Initially, Invariant, PTL DEF Spec

----------------------------------------------------------------------------
(* However many install, whatever fails and whoever is killed: a component *)
(* that was installed is whole on the disk, in its place or set aside,     *)
(* until somebody removes it (commit in internal/component/install.go).    *)
THEOREM OneTreeIsAlwaysWhole == Spec => []NothingIsLost
<1>1. ASSUME IInv PROVE NothingIsLost
  <2>1. ASSUME working, ~removed, dir # None PROVE Complete(dir)
    BY <1>1, <2>1 DEF IInv, Whole, Complete
  <2> QED BY <1>1, <2>1 DEF IInv, Somewhere, Kept, NothingIsLost
<1> QED BY <1>1, Inductive, PTL

(* A command that ended, however it ended, left no staging directory.      *)
THEOREM EveryPathDiscards == Spec => []StagingIsDiscarded
<1>1. ASSUME IInv PROVE StagingIsDiscarded
  BY <1>1 DEF IInv, Tidy, Staged, StagingIsDiscarded
<1> QED BY <1>1, Inductive, PTL

(* With at most one rename that fails for no reason of its own, an install *)
(* that does not succeed leaves the component that worked under its name.  *)
(* With two, the one that puts it back may fail, and nobody looks.         *)
THEOREM WorkingVersionStays == OneFault => (Spec => []FailedUpgradeKeepsWorking)
<1> SUFFICES ASSUME OneFault PROVE Spec => []FailedUpgradeKeepsWorking
  OBVIOUS
<1>1. ASSUME IInv, Returning PROVE FailedUpgradeKeepsWorking
  <2>1. ASSUME working, ~removed, ~cut, \A c \in Procs : ~Between(c) PROVE Complete(dir)
    <3>1. dir # None
      BY <1>1, <2>1 DEF Returning, Between
    <3> QED BY <1>1, <2>1, <3>1 DEF IInv, Whole, Complete
  <2> QED BY <2>1 DEF FailedUpgradeKeepsWorking
<1>2. Spec => []Returning
  <2>1. Init => Returning
    BY Initially
  <2>2. IInv /\ Returning /\ [Next]_vars => Returning'
    BY Invariant
  <2> QED BY <2>1, <2>2, Inductive, PTL DEF Spec
<1> QED BY <1>1, <1>2, Inductive, PTL
============================================================================
