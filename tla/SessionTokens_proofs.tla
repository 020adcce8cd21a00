----------------------- MODULE SessionTokens_proofs ------------------------
(***************************************************************************)
(* What SessionTokens promises its callers, proved for every set of        *)
(* callers and keys and every number of rewrites and forgets.             *)
(*                                                                         *)
(* NoOldAccount is not inductive: a call may find a source kept, or join a *)
(* build, that others made.  IInv says what the table may hold (Registered,*)
(* Kept), that a build of the present generation is still in the table     *)
(* (StillRegistered), and that outside a rewrite whatever was built in the *)
(* present generation is built from the present credentials (Current).     *)
(***************************************************************************)
EXTENDS SessionTokens, TLAPS

\* A call that has begun names its key and a build of that key.
Placed ==
    \A c \in Callers : pc[c] # "idle" =>
        /\ key[c] \in Keys
        /\ build[c] \in Callers
        /\ pc[build[c]] # "idle"
        /\ key[build[c]] = key[c]
        /\ asked[c] <= account[key[c]]

\* A builder uses its own build, and its outcome is set by Build alone.
Builders ==
    \A c \in Callers :
        /\ pc[c] \in {"building", "built", "published"} => build[c] = c
        /\ pc[c] \in {"idle", "building", "waiting"} => outcome[c] = "pending"
        /\ begun[c] <= generation

Registered ==
    \A k \in Keys : building[k] # None =>
        /\ key[building[k]] = k
        /\ UnderWay(building[k])
        /\ begun[building[k]] = generation

StillRegistered ==
    \A c \in Callers :
        UnderWay(c) /\ begun[c] = generation => building[key[c]] = c

Kept ==
    \A k \in Keys : sources[k] # None =>
        /\ key[sources[k]] = k
        /\ outcome[sources[k]] = "source"
        /\ begun[sources[k]] = generation
        /\ pc[sources[k]] \in {"published", "returned"}

Current ==
    ~rewriting =>
        \A c \in Callers :
            outcome[c] = "source" /\ begun[c] = generation
                => builtFrom[c] = account[key[c]]

\* NoOldAccount, already before the call returns.
RecentEnough ==
    \A c \in Callers :
        pc[c] # "idle" /\ outcome[build[c]] = "source"
            => builtFrom[build[c]] >= asked[c]

IInv ==
    /\ TypeOK
    /\ Placed
    /\ Builders
    /\ Registered
    /\ StillRegistered
    /\ Kept
    /\ Current
    /\ RecentEnough
    /\ OneBuildPerGeneration

----------------------------------------------------------------------------
\* The table starts empty and no call has begun.
LEMMA InitIInv == Init => IInv
<1> SUFFICES ASSUME Init
             PROVE  IInv
  OBVIOUS
<1> USE NoneIsNoCaller DEF Init
<1>1. TypeOK
  BY DEF TypeOK, Locations, Outcomes
<1>2. Placed /\ Builders
  BY DEF Placed, Builders
<1>3. Registered /\ StillRegistered /\ Kept /\ OneBuildPerGeneration
  BY DEF Registered, StillRegistered, Kept, OneBuildPerGeneration, UnderWay
<1>4. Current /\ RecentEnough
  BY DEF Current, RecentEnough
<1>5. QED
  BY <1>1, <1>2, <1>3, <1>4 DEF IInv

\* A call that finds a kept source takes one of the present generation.
LEMMA FindKeptIInv ==
    ASSUME IInv, NEW c \in Callers, NEW k \in Keys, FindKept(c, k)
    PROVE  IInv'
<1> USE NoneIsNoCaller
    DEF IInv, FindKept, Ask, tokens, store
<1>1. TypeOK'
  BY DEF TypeOK, Locations, Outcomes
<1>2. Placed'
  BY DEF TypeOK, Placed, Kept, Locations
<1>3. Builders' /\ Registered' /\ StillRegistered' /\ Kept'
  BY DEF TypeOK, Builders, Registered, StillRegistered, Kept, UnderWay
<1>4. Current'
  BY DEF TypeOK, Builders, Current
<1>5. RecentEnough'
  BY DEF TypeOK, RecentEnough, Current, Kept, Placed
<1>6. OneBuildPerGeneration'
  BY DEF TypeOK, OneBuildPerGeneration, UnderWay
<1>7. QED
  BY <1>1, <1>2, <1>3, <1>4, <1>5, <1>6 DEF IInv

\* A call that joins a build waits for one of the present generation.
LEMMA JoinBuildIInv ==
    ASSUME IInv, NEW c \in Callers, NEW k \in Keys, JoinBuild(c, k)
    PROVE  IInv'
<1> USE NoneIsNoCaller
    DEF IInv, JoinBuild, Ask, tokens, store
<1>1. TypeOK'
  BY DEF TypeOK, Locations, Outcomes
<1>2. Placed'
  BY DEF TypeOK, Placed, Registered, UnderWay, Locations
<1>3. Builders' /\ Registered' /\ StillRegistered' /\ Kept'
  BY DEF TypeOK, Builders, Registered, StillRegistered, Kept, UnderWay
<1>4. Current'
  BY DEF TypeOK, Builders, Current
<1>5. RecentEnough'
  BY DEF TypeOK, RecentEnough, Current, Registered, Placed
<1>6. OneBuildPerGeneration'
  BY DEF TypeOK, OneBuildPerGeneration, UnderWay
<1>7. QED
  BY <1>1, <1>2, <1>3, <1>4, <1>5, <1>6 DEF IInv

\* A call that builds finds no other build of its key in this generation.
LEMMA StartBuildIInv ==
    ASSUME IInv, NEW c \in Callers, NEW k \in Keys, StartBuild(c, k)
    PROVE  IInv'
<1> USE NoneIsNoCaller
    DEF IInv, StartBuild, Ask, store
<1>1. TypeOK'
  BY DEF TypeOK, Locations, Outcomes
<1>2. Placed'
  BY DEF TypeOK, Placed, Locations
<1>3. Builders'
  BY DEF TypeOK, Builders, Locations
<1>4. Registered' /\ StillRegistered'
  BY DEF TypeOK, Registered, StillRegistered, UnderWay
<1>5. Kept'
  BY DEF TypeOK, Kept
<1>6. Current'
  BY DEF TypeOK, Builders, Current
<1>7. RecentEnough'
  BY DEF TypeOK, RecentEnough, Builders
<1>8. OneBuildPerGeneration'
  BY DEF TypeOK, OneBuildPerGeneration, UnderWay, StillRegistered
<1>9. QED
  BY <1>1, <1>2, <1>3, <1>4, <1>5, <1>6, <1>7, <1>8 DEF IInv

\* The credentials are read after every caller of this build has asked.
LEMMA BuildIInv ==
    ASSUME IInv, NEW c \in Callers, Build(c)
    PROVE  IInv'
<1> USE NoneIsNoCaller
    DEF IInv, Build, tokens, store
<1>1. TypeOK'
  BY DEF TypeOK, Placed, Locations, Outcomes
<1>2. Placed'
  BY DEF TypeOK, Placed, Locations
<1>3. Builders' /\ Registered' /\ StillRegistered'
  BY DEF TypeOK, Builders, Registered, StillRegistered, UnderWay
<1>4. Kept'
  BY DEF TypeOK, Kept
<1>5. Current'
  BY DEF TypeOK, Placed, Current
<1>6. RecentEnough'
  BY DEF TypeOK, RecentEnough, Placed
<1>7. OneBuildPerGeneration'
  BY DEF TypeOK, OneBuildPerGeneration, UnderWay
<1>8. QED
  BY <1>1, <1>2, <1>3, <1>4, <1>5, <1>6, <1>7 DEF IInv

\* A build leaves the table only as itself, and is kept only if no forget
\* has come since it began.
LEMMA PublishIInv ==
    ASSUME IInv, NEW c \in Callers, Publish(c)
    PROVE  IInv'
<1> USE NoneIsNoCaller
    DEF IInv, Publish, Unregister, Keep, store
<1>1. TypeOK'
  BY DEF TypeOK, Locations, Outcomes
<1>2. Placed' /\ Builders'
  BY DEF TypeOK, Placed, Builders
<1>3. Registered' /\ StillRegistered'
  BY DEF TypeOK, Placed, Registered, StillRegistered, UnderWay
<1>4. Kept'
  BY DEF TypeOK, Placed, Kept
<1>5. Current' /\ RecentEnough'
  BY DEF TypeOK, Current, RecentEnough
<1>6. OneBuildPerGeneration'
  BY DEF TypeOK, OneBuildPerGeneration, UnderWay
<1>7. QED
  BY <1>1, <1>2, <1>3, <1>4, <1>5, <1>6 DEF IInv

\* Returning changes nothing in the table.
LEMMA ReturnIInv ==
    ASSUME IInv, NEW c \in Callers, Close(c) \/ Wake(c)
    PROVE  IInv'
<1> USE NoneIsNoCaller
    DEF IInv, Close, Wake, tokens, store
<1>1. TypeOK'
  BY DEF TypeOK, Locations, Outcomes
<1>2. Placed' /\ Builders'
  BY DEF TypeOK, Placed, Builders
<1>3. Registered' /\ StillRegistered' /\ Kept'
  BY DEF TypeOK, Registered, StillRegistered, Kept, UnderWay
<1>4. Current' /\ RecentEnough'
  BY DEF TypeOK, Current, RecentEnough
<1>5. OneBuildPerGeneration'
  BY DEF TypeOK, OneBuildPerGeneration, UnderWay
<1>6. QED
  BY <1>1, <1>2, <1>3, <1>4, <1>5 DEF IInv

\* A forget leaves nothing of the present generation behind, so the rewrite
\* that called for it may end with it.
LEMMA ForgetIInv ==
    ASSUME IInv, Forget, UNCHANGED <<calls, account>>, rewriting' \in BOOLEAN
    PROVE  IInv'
<1> USE NoneIsNoCaller
    DEF IInv, Forget, calls
<1>1. TypeOK'
  BY DEF TypeOK
<1>2. Placed' /\ Builders'
  BY DEF TypeOK, Placed, Builders
<1>3. Registered' /\ StillRegistered' /\ Kept'
  BY DEF TypeOK, Builders, Registered, StillRegistered, Kept, UnderWay
<1>4. Current' /\ RecentEnough'
  BY DEF TypeOK, Builders, Current, RecentEnough
<1>5. OneBuildPerGeneration'
  BY DEF TypeOK, OneBuildPerGeneration, UnderWay
<1>6. QED
  BY <1>1, <1>2, <1>3, <1>4, <1>5 DEF IInv

\* While credentials are being rewritten, nothing is promised of the builds.
LEMMA RewriteIInv ==
    ASSUME IInv, BeginRewrite \/ \E k \in Keys : Rewrite(k)
    PROVE  IInv'
<1> USE NoneIsNoCaller
    DEF IInv, BeginRewrite, Rewrite, calls, tokens
<1>1. TypeOK'
  <2>1. CASE BeginRewrite
    BY <2>1 DEF TypeOK
  <2>2. ASSUME NEW k \in Keys, Rewrite(k)
        PROVE  TypeOK'
    BY <2>2 DEF TypeOK
  <2>3. QED
    BY <2>1, <2>2
<1>2. Placed' /\ Builders'
  BY DEF TypeOK, Placed, Builders
<1>3. Registered' /\ StillRegistered' /\ Kept'
  BY DEF TypeOK, Registered, StillRegistered, Kept, UnderWay
<1>4. Current' /\ RecentEnough'
  BY DEF TypeOK, Current, RecentEnough
<1>5. OneBuildPerGeneration'
  BY DEF TypeOK, OneBuildPerGeneration, UnderWay
<1>6. QED
  BY <1>1, <1>2, <1>3, <1>4, <1>5 DEF IInv

\* No step of the session breaks the invariant.
LEMMA NextIInv == IInv /\ [Next]_vars => IInv'
<1> SUFFICES ASSUME IInv, [Next]_vars
             PROVE  IInv'
  OBVIOUS
<1>1. ASSUME NEW c \in Callers, Source(c)
      PROVE  IInv'
  BY <1>1, FindKeptIInv, JoinBuildIInv, StartBuildIInv DEF Source
<1>2. ASSUME NEW c \in Callers, Proceed(c)
      PROVE  IInv'
  BY <1>2, BuildIInv, PublishIInv, ReturnIInv DEF Proceed
<1>3. CASE SwitchProject
  <2>1. rewriting' \in BOOLEAN
    BY <1>3 DEF SwitchProject, store, IInv, TypeOK
  <2>2. QED
    BY <1>3, <2>1, ForgetIInv DEF SwitchProject, store
<1>4. CASE FinishRewrite
  <2>1. rewriting' \in BOOLEAN
    BY <1>4 DEF FinishRewrite
  <2>2. QED
    BY <1>4, <2>1, ForgetIInv DEF FinishRewrite
<1>5. CASE BeginRewrite \/ \E k \in Keys : Rewrite(k)
  BY <1>5, RewriteIInv
<1>6. CASE UNCHANGED vars
  BY <1>6 DEF vars, IInv, TypeOK, Placed, Builders, Registered, StillRegistered,
              Kept, Current, RecentEnough, OneBuildPerGeneration, UnderWay
<1>7. QED
  BY <1>1, <1>2, <1>3, <1>4, <1>5, <1>6 DEF Next, Environment

----------------------------------------------------------------------------
\* The inductive invariant holds in every reachable state.
THEOREM Invariant == Spec => []IInv
BY InitIInv, NextIInv, PTL DEF Spec

\* Every reachable state gives each variable a value of its type.
THEOREM TypeCorrect == Spec => []TypeOK
<1>1. IInv => TypeOK
  BY DEF IInv
<1>2. QED
  BY <1>1, Invariant, PTL

\* No call that asks outside a rewrite returns a source built from the
\* credentials of an account that had been replaced before it asked.
THEOREM NeverAnOldAccount == Spec => []NoOldAccount
<1>1. IInv => NoOldAccount
  BY DEF IInv, RecentEnough, NoOldAccount, Holds
<1>2. QED
  BY <1>1, Invariant, PTL

\* At most one build per key and generation is under way.
THEOREM SingleBuild == Spec => []OneBuildPerGeneration
<1>1. IInv => OneBuildPerGeneration
  BY DEF IInv
<1>2. QED
  BY <1>1, Invariant, PTL

\* A kept entry is a source that was built for its key.
THEOREM KeptAreSources == Spec => []OnlySourcesAreKept
<1>1. IInv => OnlySourcesAreKept
  BY DEF IInv, Kept, OnlySourcesAreKept
<1>2. QED
  BY <1>1, Invariant, PTL
=============================================================================
