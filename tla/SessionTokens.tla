--------------------------- MODULE SessionTokens ---------------------------
(***************************************************************************)
(* The token sources a `fft tui` session shares between its runs           *)
(* (cmd/fft/tui_tokens.go).  A source is built from the credential store   *)
(* at most once per project and generation: the first caller builds, the   *)
(* callers that ask meanwhile wait for that build, later ones find the     *)
(* source kept.  forget() starts a new generation, in which nothing of an  *)
(* earlier one may be handed to a new caller.                              *)
(*                                                                         *)
(* Each element of Callers stands for one call of sessionTokens.source, so *)
(* a caller also names the tokenBuild it may create.  The two critical     *)
(* sections of source, the build between them and the close of the done    *)
(* channel after them are separate steps: forget and the other callers run *)
(* in between.                                                             *)
(*                                                                         *)
(* The credential store is reduced to a version per key, which a command   *)
(* that rewrites the config file advances before the runner forgets the    *)
(* tokens (cliRunner.execute).                                             *)
(***************************************************************************)
EXTENDS Naturals

CONSTANTS
    Callers,       \* the calls of sessionTokens.source
    Keys,          \* the tokenKeys
    None,          \* nil
    MaxRewrites,   \* bounds the rewrites of one key's credentials
    MaxForgets     \* bounds the generations in which a forget is called for

ASSUME NoneIsNoCaller == None \notin Callers

ASSUME BoundsAreNaturals == MaxRewrites \in Nat /\ MaxForgets \in Nat

VARIABLES
    sources,     \* t.sources: the build whose source is kept for a key
    building,    \* t.building: the build in progress for a key
    generation,  \* t.generation
    pc,          \* where a call of source is
    key,         \* the key a call asks for
    build,       \* the build a call made, joined or found kept
    begun,       \* tokenBuild.generation
    outcome,     \* tokenBuild.src and .err
    builtFrom,   \* the version of the credentials the source was built from
    account,     \* the version of the credentials the store holds for a key
    rewriting,   \* a command that rewrites the config file has not forgotten yet
    asked        \* history: the version a call may rely on, 0 for none

tokens == <<sources, building, generation>>
calls == <<pc, key, build, begun, outcome, builtFrom, asked>>
store == <<account, rewriting>>
vars == <<sources, building, generation, pc, key, build, begun, outcome,
          builtFrom, asked, account, rewriting>>

Locations == {"idle", "building", "built", "published", "waiting", "returned"}
Outcomes == {"pending", "source", "error"}

TypeOK ==
    /\ sources \in [Keys -> Callers \union {None}]
    /\ building \in [Keys -> Callers \union {None}]
    /\ generation \in Nat
    /\ pc \in [Callers -> Locations]
    /\ key \in [Callers -> Keys \union {None}]
    /\ build \in [Callers -> Callers \union {None}]
    /\ begun \in [Callers -> Nat]
    /\ outcome \in [Callers -> Outcomes]
    /\ builtFrom \in [Callers -> Nat]
    /\ account \in [Keys -> Nat]
    /\ rewriting \in BOOLEAN
    /\ asked \in [Callers -> Nat]

Init ==
    /\ sources = [k \in Keys |-> None]
    /\ building = [k \in Keys |-> None]
    /\ generation = 0
    /\ pc = [c \in Callers |-> "idle"]
    /\ key = [c \in Callers |-> None]
    /\ build = [c \in Callers |-> None]
    /\ begun = [c \in Callers |-> 0]
    /\ outcome = [c \in Callers |-> "pending"]
    /\ builtFrom = [c \in Callers |-> 0]
    /\ account = [k \in Keys |-> 1]
    /\ rewriting = FALSE
    /\ asked = [c \in Callers |-> 0]

----------------------------------------------------------------------------
(* source: the first critical section *)

\* The call asks for k and will use build b.  While a command rewrites the
\* credentials it may get either account; otherwise it must get the current one.
Ask(c, k, b, location) ==
    /\ pc[c] = "idle"
    /\ pc' = [pc EXCEPT ![c] = location]
    /\ key' = [key EXCEPT ![c] = k]
    /\ build' = [build EXCEPT ![c] = b]
    /\ asked' = [asked EXCEPT ![c] = IF rewriting THEN 0 ELSE account[k]]
    /\ UNCHANGED <<outcome, builtFrom, store>>

FindKept(c, k) ==
    /\ sources[k] # None
    /\ Ask(c, k, sources[k], "returned")
    /\ UNCHANGED <<begun, tokens>>

JoinBuild(c, k) ==
    /\ sources[k] = None
    /\ building[k] # None
    /\ Ask(c, k, building[k], "waiting")
    /\ UNCHANGED <<begun, tokens>>

StartBuild(c, k) ==
    /\ sources[k] = None
    /\ building[k] = None
    /\ Ask(c, k, c, "building")
    /\ begun' = [begun EXCEPT ![c] = generation]
    /\ building' = [building EXCEPT ![k] = c]
    /\ UNCHANGED <<sources, generation>>

----------------------------------------------------------------------------
(* source: the build, the second critical section, and the done channel *)

\* build(): reads the credential store without the lock, and may fail.
Build(c) ==
    /\ pc[c] = "building"
    /\ pc' = [pc EXCEPT ![c] = "built"]
    /\ \/ /\ outcome' = [outcome EXCEPT ![c] = "source"]
          /\ builtFrom' = [builtFrom EXCEPT ![c] = account[key[c]]]
       \/ /\ outcome' = [outcome EXCEPT ![c] = "error"]
          /\ UNCHANGED builtFrom
    /\ UNCHANGED <<key, build, begun, asked, tokens, store>>

\* Mistaken variant: the delete without its comparison.
UnregisterAny(c) ==
    building' = [building EXCEPT ![key[c]] = None]

\* A forget may have cleared this build, and a later caller begun another.
Unregister(c) ==
    building' = IF building[key[c]] = c THEN [building EXCEPT ![key[c]] = None]
                                        ELSE building

\* Mistaken variant: a build of an earlier generation is kept.
KeepAny(c) ==
    sources' = IF outcome[c] = "source" THEN [sources EXCEPT ![key[c]] = c]
                                        ELSE sources

Keep(c) ==
    sources' = IF outcome[c] = "source" /\ begun[c] = generation
                 THEN [sources EXCEPT ![key[c]] = c]
                 ELSE sources

Publish(c) ==
    /\ pc[c] = "built"
    /\ pc' = [pc EXCEPT ![c] = "published"]
    /\ Unregister(c)
    /\ Keep(c)
    /\ UNCHANGED <<generation, key, build, begun, outcome, builtFrom, asked, store>>

\* Mistaken variant: the channel of a forgotten build is never closed.
CloseIfCurrent(c) ==
    /\ pc[c] = "published"
    /\ begun[c] = generation
    /\ pc' = [pc EXCEPT ![c] = "returned"]
    /\ UNCHANGED <<key, build, begun, outcome, builtFrom, asked, tokens, store>>

\* close(b.done), and the builder's own return.
Close(c) ==
    /\ pc[c] = "published"
    /\ pc' = [pc EXCEPT ![c] = "returned"]
    /\ UNCHANGED <<key, build, begun, outcome, builtFrom, asked, tokens, store>>

\* <-b.done
Wake(c) ==
    /\ pc[c] = "waiting"
    /\ pc[build[c]] = "returned"
    /\ pc' = [pc EXCEPT ![c] = "returned"]
    /\ UNCHANGED <<key, build, begun, outcome, builtFrom, asked, tokens, store>>

----------------------------------------------------------------------------
(* forget, and the commands that make it necessary *)

Forget ==
    /\ generation' = generation + 1
    /\ sources' = [k \in Keys |-> None]
    /\ building' = [k \in Keys |-> None]

\* SetProject or SetEmulator: nothing about the credentials changed.
SwitchProject ==
    /\ generation < MaxForgets
    /\ Forget
    /\ UNCHANGED <<calls, store>>

\* A command that rewrites the config file has it to itself from here ...
BeginRewrite ==
    /\ ~rewriting
    /\ generation < MaxForgets
    /\ rewriting' = TRUE
    /\ UNCHANGED <<calls, tokens, account>>

\* ... may replace what the store holds for a project ...
Rewrite(k) ==
    /\ rewriting
    /\ account[k] <= MaxRewrites
    /\ account' = [account EXCEPT ![k] = @ + 1]
    /\ UNCHANGED <<calls, tokens, rewriting>>

\* ... and the runner forgets the tokens before it releases the file.
FinishRewrite ==
    /\ rewriting
    /\ rewriting' = FALSE
    /\ Forget
    /\ UNCHANGED <<calls, account>>

----------------------------------------------------------------------------
Source(c) == \E k \in Keys : FindKept(c, k) \/ JoinBuild(c, k) \/ StartBuild(c, k)

Proceed(c) == Build(c) \/ Publish(c) \/ Close(c) \/ Wake(c)

Environment ==
    \/ SwitchProject
    \/ BeginRewrite
    \/ \E k \in Keys : Rewrite(k)
    \/ FinishRewrite

Next == (\E c \in Callers : Source(c) \/ Proceed(c)) \/ Environment

\* A goroutine inside source goes on: build() ends (the store answers, or the
\* user answers the keychain's dialog), and a closed channel wakes its waiters.
\* Nothing obliges anyone to call source, or to switch or rewrite a project.
Spec == Init /\ [][Next]_vars /\ \A c \in Callers : WF_vars(Proceed(c))

----------------------------------------------------------------------------
(* Properties *)

Holds(c) == pc[c] = "returned" /\ outcome[build[c]] = "source"

\* A call that asks while no such command is at work never returns a source built
\* from credentials older than those of the moment it asked, however builds,
\* waits, rewrites and forgets interleave: no run signs in as whoever the
\* project used to be.
NoOldAccount == \A c \in Callers : Holds(c) => builtFrom[build[c]] >= asked[c]

UnderWay(c) == pc[c] \in {"building", "built"}

\* Two builds for one key are under way together only across a forget: within
\* a generation the callers raise one keychain dialog, not one each.
OneBuildPerGeneration ==
    \A c, d \in Callers :
        /\ UnderWay(c)
        /\ UnderWay(d)
        /\ key[c] = key[d]
        /\ begun[c] = begun[d]
        => c = d

\* What is kept for a key is a source: a failed build is retried by the next
\* caller, and never answers one that did not wait for it.
OnlySourcesAreKept ==
    \A k \in Keys : sources[k] # None =>
        /\ outcome[sources[k]] = "source"
        /\ key[sources[k]] = k

\* Every call returns: a forget that drops a build from the table does not
\* strand the callers waiting on it.
EveryCallReturns == \A c \in Callers : pc[c] # "idle" ~> pc[c] = "returned"

=============================================================================
