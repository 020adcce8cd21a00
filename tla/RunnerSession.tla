--------------------------- MODULE RunnerSession ---------------------------
(***************************************************************************)
(* The runner and the token sources its runs share: CliRunner's goroutines *)
(* call SessionTokens' source while their command executes, the commands   *)
(* that rewrite the config file replace the credentials a source is built  *)
(* from, and the runner's deferred forget runs before it releases the file.*)
(*                                                                         *)
(* A run makes one call of source (Deps.tokenSource), so runs are callers. *)
(***************************************************************************)
EXTENDS CliRunner

CONSTANTS
    Projects,         \* the projects the runs act on
    MaxRewrites,      \* bounds the rewrites of one project's credentials
    MaxSetProjects,   \* bounds the calls of SetProject and SetEmulator
    MaxPerKind        \* bounds the runs of one kind

ASSUME SessionAssumption == MaxRewrites \in Nat /\ MaxSetProjects \in Nat

VARIABLES
    setProjects,      \* the calls of SetProject and SetEmulator so far
    sources, building, generation, callPC, key, build, begun, outcome,
    builtFrom, account, askedFor

runner == <<started, kind, lastExclusive, after, pc, cancelled, slots, writer,
            readers, closed, stopped, eventsClosed, buffered, nextQuestion,
            asking, asker, registered, answer, acted, approved, withdrawn, spared>>
session == <<sources, building, generation, callPC, key, build, begun, outcome,
             builtFrom, account, askedFor>>
all == <<runner, session, setProjects>>

\* A config command is at work from when it has the file to itself until the
\* runner has forgotten the tokens.
AtWork(i) == RewritesConfig(i) /\ pc[i] \in Commanding \union {"ending"}

T == INSTANCE SessionTokens WITH
    Callers <- Runs,
    Keys <- Projects,
    None <- 0,
    MaxForgets <- MaxSetProjects + MaxRuns,
    pc <- callPC,
    asked <- askedFor,
    rewriting <- \E i \in Runs : AtWork(i)

SessionInit ==
    /\ Init
    /\ T!Init
    /\ setProjects = 0

InSource(i) == callPC[i] \notin {"idle", "returned"}

----------------------------------------------------------------------------
\* The session is not over yet: what Close does is CliRunner's matter.
Bounded ==
    /\ ~closed
    /\ \A k \in Kinds :
        Cardinality({i \in 1 .. started : kind[i] = k}) <= MaxPerKind

\* The runner's steps that leave the tokens alone.  A command that is inside
\* source is blocked there: it neither ends nor asks anything.
RunnerStep ==
    /\ \/ UI
       \/ \E i \in Runs :
            \/ Wait(i)
            \/ Command(i) /\ ~InSource(i)
            \/ KeepTokens(i)
            \/ Unlock(i)
            \/ EmitDone(i)
            \/ Leave(i)
    /\ Bounded'
    /\ UNCHANGED <<session, setProjects>>

\* Deps.tokenSource, for the project the run took at Start
CallSource(i) ==
    /\ pc[i] = "executing"
    /\ UNCHANGED <<runner, setProjects>>
    /\ T!Source(i)

InsideSource(i) ==
    /\ UNCHANGED <<runner, setProjects>>
    /\ T!Proceed(i)

\* `fft project add --force`, `fft project remove` and the like
RewriteConfig(i) ==
    /\ RewritesConfig(i)
    /\ pc[i] = "executing"
    /\ ~InSource(i)
    /\ UNCHANGED <<runner, setProjects>>
    /\ \E k \in Projects : T!Rewrite(k)

\* Mistaken variant: what was built under the old config file stays.
ForgetNothing(i) ==
    /\ ForgetTokens(i)
    /\ UNCHANGED <<setProjects, session>>

Forget(i) ==
    /\ ForgetTokens(i)
    /\ UNCHANGED setProjects
    /\ T!Forget
    /\ UNCHANGED <<callPC, key, build, begun, outcome, builtFrom, account, askedFor>>

\* SetProject and SetEmulator forget outside r.mu, and whatever runs are doing.
SetProject ==
    /\ setProjects < MaxSetProjects
    /\ setProjects' = setProjects + 1
    /\ UNCHANGED runner
    /\ T!SwitchProject

SessionNext ==
    \/ RunnerStep
    \/ SetProject
    \/ \E i \in Runs :
        CallSource(i) \/ InsideSource(i) \/ RewriteConfig(i) \/ Forget(i)

SessionSpec == SessionInit /\ [][SessionNext]_all

----------------------------------------------------------------------------
(* Properties *)

\* A command that read the config file under its lock signs its requests with a
\* source built from the credentials the store holds, for as long as it executes:
\* no run picks up a source from before a command replaced them, and none has
\* them replaced under it.  (Whose tokens a source serves is TokenCache's.)
SignsAsCurrentAccount ==
    \A i \in Runs :
        kind[i] # "stream" /\ ~RewritesConfig(i) /\ Executing(i) /\ T!Holds(i)
            => builtFrom[build[i]] = account[key[i]]

\* The runner uses the token table only as SessionTokens describes, so what is
\* proved of it holds in a session.
TokensAreUsedAsSpecified == T!Init /\ [][T!Next]_(T!vars)

=============================================================================
