----------------------------- MODULE TokenCache -----------------------------
(***************************************************************************)
(* The id token of one project (internal/auth/cache.go): the calls of      *)
(* Token and Renew in each fft process, the token each process caches in   *)
(* memory under its mutex, the three entries they all keep in the          *)
(* credential store, and Google, which refreshes, signs in, refuses and is *)
(* unreachable.  A process that finds no password but an id token serves   *)
(* that one as it is.                                                      *)
(*                                                                         *)
(* A token is known by the mint that made it.  Every mint yields a refresh *)
(* token, an id token and an expiry, so memory and the store hold three    *)
(* mint numbers each; 0 is an entry that is not there.  A password is      *)
(* known by the account it signs in to.  Tokens go stale (less than Leeway *)
(* left) in the order they were minted in, for they live equally long.     *)
(***************************************************************************)
EXTENDS Naturals

CONSTANTS
    Procs,      \* fft processes; one that ends is another that starts
    Calls,      \* the goroutines that call Token and Renew
    Home,       \* the process of a goroutine
    Accounts,   \* whom a project may sign in as
    None,       \* no account, no goroutine
    MaxMints,   \* bounds the tokens minted
    MaxAdds     \* bounds the runs of `fft project add --force`

Mints == 1 .. MaxMints
Entries == [refresh : 0 .. MaxMints, id : 0 .. MaxMints, exp : 0 .. MaxMints]
NoToken == [refresh |-> 0, id |-> 0, exp |-> 0]

ASSUME CacheAssumption ==
    /\ Home \in [Calls -> Procs]
    /\ Accounts # {}
    /\ None \notin Accounts \union Calls
    /\ MaxMints \in Nat
    /\ MaxAdds \in Nat

VARIABLES
    stored,      \* the project's refreshToken, idToken and idTokenExp entries
    password,    \* its password entry: the account it is the password of, or None
    configured,  \* the account whose email the config file names
    readOnly,    \* the store is the environment's: Set answers ErrReadOnly
    memory,      \* c.token of each process
    loaded,      \* c.loaded
    email,       \* s.email: the account configured when the process started
    source,      \* what newTokenSource made of the store then
    holder,      \* who holds c.mu
    pc,          \* where a goroutine's call is
    renewing,    \* goroutines whose call is Renew
    served,      \* the id token a goroutine's last call returned
    minted,      \* the mints so far
    owner,       \* the account each was for
    stale,       \* the mints up to this one have less than Leeway left
    dead,        \* mints whose refresh token Google has invalidated
    refusal,     \* history: the refresh token a call had refused, 0 for none
    adds,        \* the runs of project add --force so far
    adding       \* the account one has stored the password of already

store == <<stored, password, readOnly>>
process == <<memory, loaded, email, source>>
google == <<minted, owner, stale, dead>>
project == <<configured, adds, adding>>
vars == <<stored, password, configured, readOnly, memory, loaded, email, source,
          holder, pc, renewing, served, minted, owner, stale, dead, refusal, adds,
          adding>>

Loading == {"readId", "readRefresh", "readExp"}
Saving == {"setRefresh", "setId", "setExp"}
Inside == Loading \union Saving \union {"deciding", "refreshing", "signing"}

TypeOK ==
    /\ stored \in Entries
    /\ password \in Accounts \union {None}
    /\ configured \in Accounts
    /\ readOnly \in BOOLEAN
    /\ memory \in [Procs -> Entries]
    /\ loaded \in [Procs -> BOOLEAN]
    /\ email \in [Procs -> Accounts]
    /\ source \in [Procs -> {"firebase", "static", "none"}]
    /\ holder \in [Procs -> Calls \union {None}]
    /\ pc \in [Calls -> {"idle", "locking"} \union Inside]
    /\ renewing \subseteq Calls
    /\ served \in [Calls -> 0 .. MaxMints]
    /\ minted \in 0 .. MaxMints
    /\ owner \in [Mints -> Accounts]
    /\ stale \in 0 .. minted
    /\ dead \subseteq Mints
    /\ refusal \in [Calls -> 0 .. MaxMints]
    /\ adds \in 0 .. MaxAdds
    /\ adding \in Accounts \union {None}

\* A project that was just added: a password and no tokens.
Init ==
    /\ stored = NoToken
    /\ configured \in Accounts
    /\ password = configured
    /\ readOnly \in BOOLEAN
    /\ memory = [p \in Procs |-> NoToken]
    /\ loaded = [p \in Procs |-> FALSE]
    /\ email = [p \in Procs |-> configured]
    /\ source = [p \in Procs |-> "firebase"]
    /\ holder = [p \in Procs |-> None]
    /\ pc = [c \in Calls |-> "idle"]
    /\ renewing = {}
    /\ served = [c \in Calls |-> 0]
    /\ minted = 0
    /\ owner = [n \in Mints |-> configured]
    /\ stale = 0
    /\ dead = {}
    /\ refusal = [c \in Calls |-> 0]
    /\ adds = 0
    /\ adding = None

\* Mistaken variant: an expiry that cannot be parsed is one that never comes.
FreshAnyway(token) == token.id # 0

\* Token.Fresh
Fresh(token) == token.id # 0 /\ token.exp > stale

Token(c) == memory[Home[c]]
Goes(c, from, to) == pc[c] = from /\ pc' = [pc EXCEPT ![c] = to]

\* The call returns, with an id token or, as 0, an error, and unlocks c.mu.
Return(c, id) ==
    /\ pc' = [pc EXCEPT ![c] = "idle"]
    /\ served' = [served EXCEPT ![c] = id]
    /\ holder' = [holder EXCEPT ![Home[c]] = None]
    /\ refusal' = [refusal EXCEPT ![c] = 0]
    /\ UNCHANGED renewing

----------------------------------------------------------------------------
(* Token and Renew *)

Call(c) ==
    /\ Goes(c, "idle", "locking")
    /\ \/ source[Home[c]] # "none" /\ renewing' = renewing \ {c}
       \/ source[Home[c]] = "firebase" /\ renewing' = renewing \union {c}
    /\ UNCHANGED <<store, process, google, project, holder, served, refusal>>

\* A static source has a token and nothing else.
ServeStatic(c) ==
    /\ source[Home[c]] = "static"
    /\ pc[c] = "locking"
    /\ Return(c, Token(c).id)
    /\ UNCHANGED <<store, process, google, project>>

\* Mistaken variant: c.mu is not taken.
LockNothing(c) ==
    /\ Goes(c, "locking", IF loaded[Home[c]] THEN "deciding" ELSE "readId")
    /\ UNCHANGED <<store, process, google, project, holder, renewing, served, refusal>>

\* c.mu.Lock, and ensureLoaded if the process has not loaded the token yet
Lock(c) ==
    /\ source[Home[c]] = "firebase"
    /\ holder[Home[c]] = None
    /\ holder' = [holder EXCEPT ![Home[c]] = c]
    /\ Goes(c, "locking", IF loaded[Home[c]] THEN "deciding" ELSE "readId")
    /\ UNCHANGED <<store, process, google, project, renewing, served, refusal>>

\* loadToken: one Get after the other, while other processes write.  An entry that
\* cannot be read, or parsed, is one that is not there.
ReadId(c) ==
    /\ Goes(c, "readId", "readRefresh")
    /\ \E v \in {stored.id, 0} : memory' = [memory EXCEPT ![Home[c]].id = v]
    /\ UNCHANGED <<store, loaded, email, source, google, project,
                   holder, renewing, served, refusal>>

ReadRefresh(c) ==
    /\ Goes(c, "readRefresh", "readExp")
    /\ \E v \in {stored.refresh, 0} : memory' = [memory EXCEPT ![Home[c]].refresh = v]
    /\ UNCHANGED <<store, loaded, email, source, google, project,
                   holder, renewing, served, refusal>>

ReadExp(c) ==
    /\ Goes(c, "readExp", "deciding")
    /\ \E v \in {stored.exp, 0} : memory' = [memory EXCEPT ![Home[c]].exp = v]
    /\ loaded' = [loaded EXCEPT ![Home[c]] = TRUE]
    /\ UNCHANGED <<store, email, source, google, project,
                   holder, renewing, served, refusal>>

\* Token returns the cached token while it is fresh; Renew mints regardless.
ServeCached(c) ==
    /\ pc[c] = "deciding"
    /\ c \notin renewing
    /\ Fresh(Token(c))
    /\ Return(c, Token(c).id)
    /\ UNCHANGED <<store, process, google, project>>

MustMint(c) ==
    /\ c \in renewing \/ ~Fresh(Token(c))
    /\ Goes(c, "deciding", IF Token(c).refresh # 0 THEN "refreshing" ELSE "signing")
    /\ UNCHANGED <<store, process, google, project, holder, renewing, served, refusal>>

\* Google answers with a new token for account a, and renew caches it in memory.
Minted(c, a) ==
    LET n == minted + 1 IN
    /\ minted < MaxMints
    /\ minted' = n
    /\ owner' = [owner EXCEPT ![n] = a]
    /\ memory' = [memory EXCEPT ![Home[c]] = [refresh |-> n, id |-> n, exp |-> n]]
    /\ pc' = [pc EXCEPT ![c] = "setRefresh"]
    /\ refusal' = [refusal EXCEPT ![c] = 0]
    /\ UNCHANGED <<store, loaded, email, source, stale, dead, project,
                   holder, renewing, served>>

Refresh(c) ==
    /\ pc[c] = "refreshing"
    /\ Token(c).refresh \notin dead
    /\ Minted(c, owner[Token(c).refresh])

\* Mistaken variant: an unreachable Google counts as a refusal.
UnreachableIsRefusal(c) ==
    /\ Goes(c, "refreshing", "signing")
    /\ UNCHANGED <<store, process, google, project, holder, renewing, served, refusal>>

\* Any answer that is neither a token nor a 5xx counts as a refusal: that the
\* token is dead, but as well that the key is wrong, that there were too many
\* requests, or that a proxy on the way will not have them.
Refused(c) ==
    /\ Goes(c, "refreshing", "signing")
    /\ refusal' = [refusal EXCEPT ![c] = Token(c).refresh]
    /\ UNCHANGED <<store, process, google, project, holder, renewing, served>>

\* Mistaken variant: the error is returned past the unlock.
UnreachableLocked(c) ==
    /\ pc[c] \in {"refreshing", "signing"}
    /\ pc' = [pc EXCEPT ![c] = "idle"]
    /\ served' = [served EXCEPT ![c] = 0]
    /\ UNCHANGED <<store, process, google, project, holder, renewing, refusal>>

\* Google is unreachable, or answers something that is no refusal.
Unreachable(c) ==
    /\ pc[c] \in {"refreshing", "signing"}
    /\ Return(c, 0)
    /\ UNCHANGED <<store, process, google, project>>

\* SignIn with the address the process started with and the password stored now
SignIn(c) ==
    /\ pc[c] = "signing"
    /\ password = email[Home[c]]
    /\ Minted(c, email[Home[c]])

\* No password, one that cannot be read, or one Google refuses: a ReauthError.
Reauthenticate(c) ==
    /\ pc[c] = "signing"
    /\ Return(c, 0)
    /\ UNCHANGED <<store, process, google, project>>

----------------------------------------------------------------------------
(* saveToken *)

\* Mistaken variant: the expiry is written before the token it is the expiry of.
SetExpFirst(c) ==
    /\ ~readOnly
    /\ Goes(c, "setRefresh", "setId")
    /\ stored' = [stored EXCEPT !.refresh = Token(c).refresh, !.exp = Token(c).exp]
    /\ UNCHANGED <<password, readOnly, process, google, project,
                   holder, renewing, served, refusal>>

SetRefresh(c) ==
    /\ ~readOnly
    /\ Goes(c, "setRefresh", "setId")
    /\ stored' = [stored EXCEPT !.refresh = Token(c).refresh]
    /\ UNCHANGED <<password, readOnly, process, google, project,
                   holder, renewing, served, refusal>>

SetId(c) ==
    /\ Goes(c, "setId", "setExp")
    /\ stored' = [stored EXCEPT !.id = Token(c).id]
    /\ UNCHANGED <<password, readOnly, process, google, project,
                   holder, renewing, served, refusal>>

SetExp(c) ==
    /\ pc[c] = "setExp"
    /\ stored' = [stored EXCEPT !.exp = Token(c).exp]
    /\ Return(c, Token(c).id)
    /\ UNCHANGED <<password, readOnly, process, google, project>>

\* A read-only store is no error ...
SaveNothing(c) ==
    /\ readOnly
    /\ pc[c] = "setRefresh"
    /\ Return(c, Token(c).id)
    /\ UNCHANGED <<store, process, google, project>>

\* ... any other failure is, and leaves the entries written so far.
SaveFails(c) ==
    /\ ~readOnly
    /\ pc[c] \in Saving
    /\ Return(c, 0)
    /\ UNCHANGED <<store, process, google, project>>

----------------------------------------------------------------------------
(* Time, Google, the end of a process, and `fft project add --force` *)

\* An id token outlives the three writes that save it.
Age ==
    /\ stale < minted
    /\ \A c \in Calls : pc[c] \in Saving => Token(c).id # stale + 1
    /\ stale' = stale + 1
    /\ UNCHANGED <<store, process, project, holder, pc, renewing, served, refusal,
                   minted, owner, dead>>

\* Google invalidates what an account has signed in with so far.
Revoke(a) ==
    /\ dead' = dead \union {n \in 1 .. minted : owner[n] = a}
    /\ UNCHANGED <<store, process, project, holder, pc, renewing, served, refusal,
                   minted, owner, stale>>

\* newTokenSource: no password leaves the stored id token, as it is.
NewSource ==
    IF password # None THEN "firebase"
    ELSE IF stored.id # 0 THEN "static"
    ELSE "none"

\* A process ends, or is killed anywhere, and another starts.
Restart(p) ==
    /\ source' = [source EXCEPT ![p] = NewSource]
    /\ memory' = [memory EXCEPT ![p] =
                    IF NewSource = "static" THEN [NoToken EXCEPT !.id = stored.id]
                                            ELSE NoToken]
    /\ loaded' = [loaded EXCEPT ![p] = FALSE]
    /\ email' = [email EXCEPT ![p] = configured]
    /\ holder' = [holder EXCEPT ![p] = None]
    /\ pc' = [c \in Calls |-> IF Home[c] = p THEN "idle" ELSE pc[c]]
    /\ served' = [c \in Calls |-> IF Home[c] = p THEN 0 ELSE served[c]]
    /\ refusal' = [c \in Calls |-> IF Home[c] = p THEN 0 ELSE refusal[c]]
    /\ UNCHANGED <<store, google, project, renewing>>

\* persistProject: the secrets first, ...
AddSecrets(a) ==
    /\ ~readOnly
    /\ adds < MaxAdds
    /\ adding = None
    /\ adds' = adds + 1
    /\ adding' = a
    /\ password' = a
    /\ UNCHANGED <<stored, readOnly, configured, process, google, holder, pc,
                   renewing, served, refusal>>

\* ... the config file second ...
AddConfig ==
    /\ adding # None
    /\ configured' = adding
    /\ adding' = None
    /\ UNCHANGED <<store, adds, process, google, holder, pc, renewing, served, refusal>>

\* ... and, if either fails, no secret is left: DeleteAll.  It is one step, for a
\* load that runs into it finds what a failing one finds.
AddFails ==
    /\ adding # None
    /\ adding' = None
    /\ password' = None
    /\ stored' = NoToken
    /\ UNCHANGED <<readOnly, configured, adds, process, google, holder, pc,
                   renewing, served, refusal>>

----------------------------------------------------------------------------
Proceed(c) ==
    \/ ServeStatic(c)
    \/ Lock(c)
    \/ ReadId(c)
    \/ ReadRefresh(c)
    \/ ReadExp(c)
    \/ ServeCached(c)
    \/ MustMint(c)
    \/ Refresh(c)
    \/ Refused(c)
    \/ Unreachable(c)
    \/ SignIn(c)
    \/ Reauthenticate(c)
    \/ SetRefresh(c)
    \/ SetId(c)
    \/ SetExp(c)
    \/ SaveNothing(c)
    \/ SaveFails(c)

Next ==
    \/ \E c \in Calls : Call(c) \/ Proceed(c)
    \/ Age
    \/ \E a \in Accounts : Revoke(a) \/ AddSecrets(a)
    \/ \E p \in Procs : Restart(p)
    \/ AddConfig
    \/ AddFails

Spec == Init /\ [][Next]_vars

\* A goroutine inside a call goes on, and c.mu, which hands itself to whoever has
\* waited longest, starves nobody.
FairSpec ==
    /\ Spec
    /\ \A c \in Calls : WF_vars(Proceed(c)) /\ SF_vars(Lock(c))

----------------------------------------------------------------------------
(* Properties *)

Returns(c) == pc[c] \in Inside /\ pc'[c] = "idle" /\ served'[c] # 0

\* No stored expiry is later than that of the id token stored with it: whatever
\* write failed or was the last before a crash, and whatever was deleted between
\* two of them, no expiry vouches for a stale token.
ExpiryNeverVouches == stored.id # 0 => stored.exp <= stored.id

\* Token and Renew of a source that can renew its token return no id token with
\* less than Leeway left.
ServesFresh == [][\A c \in Calls : Returns(c) => served'[c] > stale']_vars

\* Goroutines of one process that find the token stale mint one between them.
\* Only Renew replaces a token that is still fresh.
OneMintPerExpiry ==
    [][\A c \in Calls :
        pc[c] \in {"refreshing", "signing"} /\ pc'[c] = "setRefresh" /\ c \notin renewing
            => ~Fresh(Token(c))]_vars

\* The password is sent to Google only by a process that has no refresh token, or
\* by a call that had the very one its process has refused: not after a timeout,
\* nor for what another call, or an earlier one, was answered.
PasswordIsLastResort ==
    \A c \in Calls :
        pc[c] = "signing" => Token(c).refresh = 0 \/ Token(c).refresh = refusal[c]

\* The password is sent to Google only if no refresh token is left that Google
\* would renew: what mint's comment takes a refusal to mean.
PasswordOnlyForDeadToken ==
    \A c \in Calls :
        pc[c] = "signing" => Token(c).refresh = 0 \/ Token(c).refresh \in dead

\* A process started for an account signs its requests as that account.
ServesItsAccount ==
    \A c \in Calls : served[c] # 0 => owner[served[c]] = email[Home[c]]

\* Every call returns, unless its process is killed over and over.
EveryCallReturns == \A c \in Calls : pc[c] = "locking" ~> pc[c] = "idle"

=============================================================================
