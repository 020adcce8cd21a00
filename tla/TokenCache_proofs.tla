-------------------------- MODULE TokenCache_proofs --------------------------
(***************************************************************************)
(* What the token cache promises, proved for any number of processes,      *)
(* goroutines, accounts and mints.                                         *)
(*                                                                         *)
(* The mutex of a process makes the token in its memory the holder's alone *)
(* (Locked), which is all that PasswordIsLastResort and OneMintPerExpiry   *)
(* need.  What the store says needs more: no other process writes it while *)
(* this one does.  OneProcess states that: with two processes neither      *)
(* ExpiryNeverVouches nor ServesFresh holds, for one can write its older   *)
(* id token over the other's and leave the other's expiry.                 *)
(***************************************************************************)
EXTENDS TokenCache, TLAPS

Minting == {"refreshing", "signing"}

\* Whoever is between lock and unlock holds the mutex of its process.
Locked(c) == pc[c] \in Inside => holder[Home[c]] = c /\ source[Home[c]] = "firebase"

\* A call goes to Google with a token that is stale, unless it is a Renew's, and with
\* the password only if there is no refresh token or the one there is was refused it.
LastResort(c) ==
    /\ pc[c] \in Minting /\ c \notin renewing => ~Fresh(Token(c))
    /\ pc[c] = "refreshing" => Token(c).refresh # 0
    /\ pc[c] = "signing" => Token(c).refresh = 0 \/ Token(c).refresh = refusal[c]

CacheInv == TypeOK /\ \A c \in Calls : Locked(c) /\ LastResort(c)

----------------------------------------------------------------------------
(* One process *)

OneProcess == \A c, d \in Calls : Home[c] = Home[d]

\* Nothing is later than the last mint.
Minted0 ==
    /\ stored.id <= minted /\ stored.exp <= minted
    /\ \A p \in Procs : memory[p].id <= minted /\ memory[p].exp <= minted

\* The token is loaded once, before anything else is done with it, and until its
\* expiry is read it has none.
LoadedFirst ==
    /\ \A c \in Calls : pc[c] \in Inside => (loaded[Home[c]] <=> pc[c] \notin Loading)
    /\ \A p \in Procs : ~loaded[p] => memory[p].exp = 0

\* The expiry a process keeps or goes on to read is never later than its token's.
LoadedWhole ==
    /\ \A p \in Procs : memory[p].id # 0 => memory[p].exp <= memory[p].id
    /\ \A c \in Calls : pc[c] \in {"readRefresh", "readExp"} /\ Token(c).id # 0
         => stored.exp <= Token(c).id

\* What is saved is the latest mint, which stays fresh until it is saved.
SavesLatest ==
    \A c \in Calls :
        /\ pc[c] \in Saving => Token(c).id = minted /\ Token(c).exp = minted /\ minted > stale
        /\ pc[c] = "setExp" => stored.id \in {0, minted}

StoreInv == Minted0 /\ LoadedFirst /\ LoadedWhole /\ SavesLatest /\ ExpiryNeverVouches
----------------------------------------------------------------------------
(* What holds in every process *)

LEMMA InitCache == Init => CacheInv
<1> SUFFICES ASSUME Init PROVE CacheInv
  OBVIOUS
<1>1. TypeOK
  BY CacheAssumption DEF Init, TypeOK, NoToken, Entries, Mints
<1>2. \A c \in Calls : Locked(c) /\ LastResort(c)
  BY DEF Init, Locked, LastResort, Minting, Inside, Loading, Saving
<1> QED BY <1>1, <1>2 DEF CacheInv

\* A call in the middle of nothing that the step is about.
LEMMA Bystander ==
    ASSUME CacheInv, NEW d \in Calls, UNCHANGED <<pc[d], source[Home[d]]>>,
           d \in renewing' <=> d \in renewing,
           pc[d] \in Inside => UNCHANGED <<holder[Home[d]], memory[Home[d]]>>,
           stale' \in Nat, stale <= stale', UNCHANGED refusal[d]
    PROVE  Locked(d)' /\ LastResort(d)'
<1>1. Locked(d) /\ LastResort(d) /\ Home[d] \in Procs /\ stale \in Nat /\ Token(d) \in Entries
  BY CacheAssumption DEF CacheInv, TypeOK, Token
<1>2. Locked(d)'
  BY <1>1 DEF Locked
<1>3. pc[d] \in Minting => Token(d)' = Token(d)
  BY DEF Minting, Inside, Token
<1>4. ~Fresh(Token(d)) /\ Token(d)' = Token(d) => ~Fresh(Token(d))'
  BY <1>1 DEF Fresh, Entries
<1>5. LastResort(d)'
  BY <1>1, <1>3, <1>4 DEF LastResort, Minting
<1> QED BY <1>2, <1>5

\* Calls of one process are inside one at a time.
LEMMA OneInside ==
    ASSUME CacheInv, NEW c \in Calls, NEW d \in Calls, c # d,
           pc[c] \in Inside, pc[d] \in Inside
    PROVE  Home[c] # Home[d]
BY DEF CacheInv, Locked

\* A call returns and lets go of the mutex.
LEMMA ReturnStep ==
    ASSUME CacheInv, NEW c \in Calls, NEW id \in 0 .. MaxMints, Return(c, id),
           pc[c] \in Inside \/ source[Home[c]] = "static",
           UNCHANGED <<process, google, project, password, readOnly>>, stored' \in Entries
    PROVE  CacheInv'
<1>1. TypeOK /\ Home[c] \in Procs
  BY CacheAssumption DEF CacheInv, TypeOK
<1>2. /\ pc' = [pc EXCEPT ![c] = "idle"] /\ served' = [served EXCEPT ![c] = id]
      /\ holder' = [holder EXCEPT ![Home[c]] = None] /\ UNCHANGED renewing
      /\ refusal' = [refusal EXCEPT ![c] = 0]
  BY DEF Return
<1>3. TypeOK'
  <2>1. 0 \in 0 .. MaxMints
    BY CacheAssumption
  <2>2. served' \in [Calls -> 0 .. MaxMints] /\ refusal' \in [Calls -> 0 .. MaxMints]
    BY <1>1, <1>2, <2>1 DEF TypeOK
  <2> QED BY <1>1, <1>2, <2>2 DEF TypeOK, process, google, project
<1>4. Locked(c)' /\ LastResort(c)'
  BY <1>1, <1>2 DEF Locked, LastResort, TypeOK, Inside, Loading, Saving, Minting
<1>5. ASSUME NEW d \in Calls \ {c} PROVE Locked(d)' /\ LastResort(d)'
  <2>1. pc[d] \in Inside => Home[d] # Home[c]
    BY OneInside DEF CacheInv, Locked
  <2>2. pc[d] \in Inside => UNCHANGED <<holder[Home[d]], memory[Home[d]]>>
    BY <1>1, <1>2, <2>1, CacheAssumption DEF TypeOK, process
  <2>3. UNCHANGED <<pc[d], source[Home[d]], stale, refusal[d]>> /\ stale \in Nat
    BY <1>1, <1>2 DEF TypeOK, process, google
  <2> QED BY <1>2, <2>2, <2>3, Bystander
<1> QED BY <1>3, <1>4, <1>5 DEF CacheInv

\* A call goes on inside, and changes at most the memory of its own process.
LEMMA InsideStep ==
    ASSUME CacheInv, NEW c \in Calls, NEW to \in Inside, pc[c] \in Inside,
           pc' = [pc EXCEPT ![c] = to],
           NEW token \in Entries, memory' = [memory EXCEPT ![Home[c]] = token],
           UNCHANGED <<password, readOnly, email, source, stale, holder, renewing, served>>,
           UNCHANGED project, UNCHANGED dead,
           stored' \in Entries, loaded' \in [Procs -> BOOLEAN],
           minted' \in 0 .. MaxMints, minted <= minted', owner' \in [Mints -> Accounts],
           NEW r \in 0 .. MaxMints, refusal' = [refusal EXCEPT ![c] = r],
           LastResort(c)'
    PROVE  CacheInv'
<1>1. TypeOK /\ Home[c] \in Procs /\ Locked(c)
  BY CacheAssumption DEF CacheInv, TypeOK
<1>2. TypeOK'
  BY <1>1 DEF TypeOK, project
<1>3. Locked(c)'
  BY <1>1 DEF Locked, TypeOK
<1>4. ASSUME NEW d \in Calls \ {c} PROVE Locked(d)' /\ LastResort(d)'
  <2>1. pc[d] \in Inside => Home[d] # Home[c]
    BY OneInside
  <2>2. pc[d] \in Inside => UNCHANGED <<holder[Home[d]], memory[Home[d]]>>
    BY <1>1, <2>1, CacheAssumption DEF TypeOK
  <2>3. UNCHANGED <<pc[d], source[Home[d]], stale, refusal[d]>> /\ stale \in Nat
    BY <1>1 DEF TypeOK
  <2> QED BY <2>2, <2>3, Bystander
<1> QED BY <1>2, <1>3, <1>4 DEF CacheInv

LEMMA LockStep ==
    ASSUME CacheInv, NEW c \in Calls, Lock(c)
    PROVE  CacheInv'
<1>1. TypeOK /\ Home[c] \in Procs /\ None \notin Calls
  BY CacheAssumption DEF CacheInv, TypeOK
<1>2. PICK to \in {"deciding", "readId"} : pc' = [pc EXCEPT ![c] = to]
  BY DEF Lock, Goes
<1>3. /\ source[Home[c]] = "firebase" /\ holder[Home[c]] = None
      /\ holder' = [holder EXCEPT ![Home[c]] = c]
      /\ UNCHANGED <<store, process, google, project, renewing, served, refusal>>
  BY DEF Lock
<1>4. TypeOK'
  BY <1>1, <1>2, <1>3 DEF TypeOK, store, process, google, project, Inside, Loading
<1>5. Locked(c)' /\ LastResort(c)'
  BY <1>1, <1>2, <1>3 DEF TypeOK, Locked, LastResort, Minting, process
<1>6. ASSUME NEW d \in Calls \ {c} PROVE Locked(d)' /\ LastResort(d)'
  <2>1. pc[d] \in Inside => Home[d] # Home[c]
    BY <1>1, <1>3 DEF CacheInv, Locked
  <2>2. pc[d] \in Inside => UNCHANGED <<holder[Home[d]], memory[Home[d]]>>
    BY <1>1, <1>3, <2>1, CacheAssumption DEF TypeOK, process
  <2>3. UNCHANGED <<pc[d], source[Home[d]], stale, refusal[d], renewing>> /\ stale \in Nat
    BY <1>1, <1>2, <1>3 DEF TypeOK, process, google
  <2> QED BY <2>2, <2>3, Bystander
<1> QED BY <1>4, <1>5, <1>6 DEF CacheInv

LEMMA CallStep ==
    ASSUME CacheInv, NEW c \in Calls, Call(c)
    PROVE  CacheInv'
<1>1. TypeOK
  BY DEF CacheInv
<1>2. /\ pc' = [pc EXCEPT ![c] = "locking"]
      /\ renewing' = renewing \ {c} \/ renewing' = renewing \union {c}
      /\ UNCHANGED <<store, process, google, project, holder, served, refusal>>
  BY DEF Call, Goes
<1>3. TypeOK'
  BY <1>1, <1>2 DEF TypeOK, store, process, google, project
<1>4. Locked(c)' /\ LastResort(c)'
  BY <1>1, <1>2 DEF TypeOK, Locked, LastResort, Minting, Inside, Loading, Saving
<1>5. ASSUME NEW d \in Calls \ {c} PROVE Locked(d)' /\ LastResort(d)'
  <2>1. /\ UNCHANGED <<pc[d], source[Home[d]], stale, refusal[d], holder[Home[d]], memory[Home[d]]>>
        /\ stale \in Nat /\ (d \in renewing' <=> d \in renewing)
    BY <1>1, <1>2 DEF TypeOK, process, google
  <2> QED BY <2>1, Bystander
<1> QED BY <1>3, <1>4, <1>5 DEF CacheInv

\* An entry is read, or found missing, or not to be made sense of.
LEMMA LoadStep ==
    ASSUME CacheInv, NEW c \in Calls, ReadId(c) \/ ReadRefresh(c) \/ ReadExp(c)
    PROVE  CacheInv'
<1>1. TypeOK /\ Home[c] \in Procs /\ Token(c) \in Entries /\ stored \in Entries
  BY CacheAssumption DEF CacheInv, TypeOK, Token
<1>2. /\ UNCHANGED <<store, email, source, google, project, holder, renewing, served, refusal>>
      /\ loaded' \in [Procs -> BOOLEAN]
  BY <1>1 DEF ReadId, ReadRefresh, ReadExp, TypeOK
<1>3. PICK to \in {"readRefresh", "readExp", "deciding"} : pc' = [pc EXCEPT ![c] = to]
  BY DEF ReadId, ReadRefresh, ReadExp, Goes
<1>4. pc[c] \in Inside /\ to \in Inside
  BY DEF ReadId, ReadRefresh, ReadExp, Goes, Inside, Loading
<1>5. PICK token \in Entries : memory' = [memory EXCEPT ![Home[c]] = token]
  <2>1. CASE ReadId(c)
    <3>1. PICK v \in {stored.id, 0} : memory' = [memory EXCEPT ![Home[c]].id = v]
      BY <2>1 DEF ReadId
    <3> DEFINE token == [Token(c) EXCEPT !.id = v]
    <3>2. token \in Entries
      BY <1>1, CacheAssumption DEF Entries
    <3>3. memory' = [memory EXCEPT ![Home[c]] = token]
      BY <1>1, <3>1 DEF TypeOK, Token
    <3> QED BY <3>2, <3>3
  <2>2. CASE ReadRefresh(c)
    <3>1. PICK v \in {stored.refresh, 0} : memory' = [memory EXCEPT ![Home[c]].refresh = v]
      BY <2>2 DEF ReadRefresh
    <3> DEFINE token == [Token(c) EXCEPT !.refresh = v]
    <3>2. token \in Entries
      BY <1>1, CacheAssumption DEF Entries
    <3>3. memory' = [memory EXCEPT ![Home[c]] = token]
      BY <1>1, <3>1 DEF TypeOK, Token
    <3> QED BY <3>2, <3>3
  <2>3. CASE ReadExp(c)
    <3>1. PICK v \in {stored.exp, 0} : memory' = [memory EXCEPT ![Home[c]].exp = v]
      BY <2>3 DEF ReadExp
    <3> DEFINE token == [Token(c) EXCEPT !.exp = v]
    <3>2. token \in Entries
      BY <1>1, CacheAssumption DEF Entries
    <3>3. memory' = [memory EXCEPT ![Home[c]] = token]
      BY <1>1, <3>1 DEF TypeOK, Token
    <3> QED BY <3>2, <3>3
  <2> QED BY <2>1, <2>2, <2>3
<1>6. LastResort(c)'
  BY <1>1, <1>3 DEF TypeOK, LastResort, Minting
<1>7. /\ minted' \in 0 .. MaxMints /\ minted <= minted' /\ owner' \in [Mints -> Accounts]
      /\ stored' \in Entries /\ UNCHANGED <<password, readOnly, stale, dead>>
  BY <1>1, <1>2 DEF TypeOK, google, store
<1>8. refusal[c] \in 0 .. MaxMints /\ refusal' = [refusal EXCEPT ![c] = refusal[c]]
  BY <1>1, <1>2 DEF TypeOK
<1> QED BY <1>2, <1>3, <1>4, <1>5, <1>6, <1>7, <1>8, InsideStep

\* A step that leaves the memory alone.
LEMMA OnlyOn ==
    ASSUME CacheInv, NEW c \in Calls, NEW to \in Inside, Goes(c, pc[c], to), pc[c] \in Inside,
           NEW r \in 0 .. MaxMints, refusal' = [refusal EXCEPT ![c] = r],
           UNCHANGED <<process, google, project, holder, renewing, served, password, readOnly>>,
           stored' \in Entries, LastResort(c)'
    PROVE  CacheInv'
<1>1. TypeOK /\ Home[c] \in Procs /\ Token(c) \in Entries
  BY CacheAssumption DEF CacheInv, TypeOK, Token
<1>2. memory' = [memory EXCEPT ![Home[c]] = Token(c)]
  BY <1>1 DEF TypeOK, Token, process
<1>3. /\ minted' \in 0 .. MaxMints /\ minted <= minted' /\ owner' \in [Mints -> Accounts]
      /\ UNCHANGED <<stale, dead, email, source>> /\ loaded' \in [Procs -> BOOLEAN]
  BY <1>1 DEF TypeOK, google, process
<1>4. pc' = [pc EXCEPT ![c] = to]
  BY DEF Goes
<1> QED BY <1>1, <1>2, <1>3, <1>4, InsideStep

LEMMA DecideStep ==
    ASSUME CacheInv, NEW c \in Calls, MustMint(c) \/ Refused(c)
    PROVE  CacheInv'
<1>1. /\ TypeOK /\ LastResort(c) /\ UNCHANGED <<Token(c), stale, renewing>>
      /\ UNCHANGED <<process, google, project, holder, renewing, served, password, readOnly>>
      /\ stored' \in Entries
  BY DEF CacheInv, TypeOK, MustMint, Refused, store, process, google, Token
<1>2. CASE MustMint(c)
  <2>1. PICK to \in Minting : Goes(c, "deciding", to) /\ (to = "refreshing" <=> Token(c).refresh # 0)
    BY <1>2 DEF MustMint, Minting
  <2>2. c \in renewing \/ ~Fresh(Token(c))
    BY <1>2 DEF MustMint
  <2>3. pc'[c] = to /\ pc[c] = "deciding"
    BY <1>1, <2>1 DEF Goes, TypeOK
  <2>4. LastResort(c)'
    BY <1>1, <2>1, <2>2, <2>3 DEF LastResort, Minting, Fresh
  <2>5. refusal[c] \in 0 .. MaxMints /\ refusal' = [refusal EXCEPT ![c] = refusal[c]]
    BY <1>1, <1>2 DEF MustMint, TypeOK
  <2> QED BY <1>1, <2>1, <2>3, <2>4, <2>5, OnlyOn DEF Inside, Minting
<1>3. CASE Refused(c)
  <2>0. Token(c).refresh \in 0 .. MaxMints
    BY <1>1, CacheAssumption DEF TypeOK, Token, Entries
  <2>1. Goes(c, "refreshing", "signing") /\ refusal' = [refusal EXCEPT ![c] = Token(c).refresh]
    BY <1>3 DEF Refused
  <2>2. pc'[c] = "signing" /\ pc[c] = "refreshing" /\ refusal'[c] = Token(c).refresh
    BY <1>1, <2>1 DEF Goes, TypeOK
  <2>3. LastResort(c)'
    BY <1>1, <2>1, <2>2 DEF LastResort, Minting, Fresh
  <2> QED BY <1>1, <2>0, <2>1, <2>2, <2>3, OnlyOn DEF Inside
<1> QED BY <1>2, <1>3

LEMMA MintedStep ==
    ASSUME CacheInv, NEW c \in Calls, Refresh(c) \/ SignIn(c)
    PROVE  CacheInv'
<1>1. /\ TypeOK /\ LastResort(c) /\ Home[c] \in Procs /\ Token(c) \in Entries
      /\ pc[c] \in Minting
  BY CacheAssumption DEF CacheInv, TypeOK, Token, Refresh, SignIn, Minting
<1>2. PICK a \in Accounts : Minted(c, a)
  <2>1. CASE Refresh(c)
    <3>1. Token(c).refresh \in Mints
      BY <1>1, <2>1, CacheAssumption DEF Refresh, LastResort, Entries, Mints
    <3>2. owner[Token(c).refresh] \in Accounts
      BY <1>1, <3>1 DEF TypeOK
    <3> QED BY <2>1, <3>2 DEF Refresh
  <2>2. CASE SignIn(c)
    BY <1>1, <2>2 DEF SignIn, TypeOK
  <2> QED BY <2>1, <2>2
<1> DEFINE n == minted + 1
           token == [refresh |-> n, id |-> n, exp |-> n]
<1>3. n \in 0 .. MaxMints /\ minted \in Nat
  BY <1>1, <1>2, CacheAssumption DEF Minted, TypeOK
<1>4. token \in Entries
  BY <1>3 DEF Entries
<1>5. /\ pc' = [pc EXCEPT ![c] = "setRefresh"] /\ minted' = n
      /\ owner' = [owner EXCEPT ![n] = a] /\ memory' = [memory EXCEPT ![Home[c]] = token]
      /\ refusal' = [refusal EXCEPT ![c] = 0] /\ 0 \in 0 .. MaxMints
      /\ UNCHANGED <<store, loaded, email, source, stale, dead, project, holder, renewing, served>>
  BY <1>2, CacheAssumption DEF Minted
<1> HIDE DEF token
<1>6. LastResort(c)'
  BY <1>1, <1>5 DEF TypeOK, LastResort, Minting
<1>7. minted' \in 0 .. MaxMints /\ minted <= minted'
  BY <1>3, <1>5
<1>8. owner' \in [Mints -> Accounts]
  <2>1. owner \in [Mints -> Accounts]
    BY <1>1 DEF TypeOK
  <2> HIDE DEF n
  <2> QED BY <1>5, <2>1
<1>9. /\ stored' \in Entries /\ loaded' \in [Procs -> BOOLEAN]
      /\ UNCHANGED <<password, readOnly, email, source, stale, holder, renewing, served, dead>>
      /\ UNCHANGED project
  BY <1>1, <1>5 DEF TypeOK, store
<1>10. pc[c] \in Inside /\ "setRefresh" \in Inside
  BY <1>1 DEF Inside, Minting, Saving
<1> QED BY <1>4, <1>5, <1>6, <1>7, <1>8, <1>9, <1>10, InsideStep

\* An entry is written and there is another to write.
LEMMA SaveStep ==
    ASSUME CacheInv, NEW c \in Calls, SetRefresh(c) \/ SetId(c)
    PROVE  CacheInv'
<1>1. /\ TypeOK /\ Token(c) \in Entries /\ stored \in Entries
      /\ UNCHANGED <<process, google, project, holder, renewing, served, password, readOnly>>
  BY CacheAssumption DEF CacheInv, TypeOK, Token, SetRefresh, SetId
<1>2. stored' \in Entries
  BY <1>1 DEF SetRefresh, SetId, Entries
<1>3. /\ Goes(c, pc[c], IF pc[c] = "setRefresh" THEN "setId" ELSE "setExp")
      /\ pc[c] \in {"setRefresh", "setId"}
  BY DEF SetRefresh, SetId, Goes
<1>4. LastResort(c)'
  BY <1>1, <1>3 DEF TypeOK, LastResort, Minting, Goes
<1>5. /\ (IF pc[c] = "setRefresh" THEN "setId" ELSE "setExp") \in Inside
      /\ pc[c] \in Inside
  BY <1>3 DEF Inside, Saving
<1>6. refusal[c] \in 0 .. MaxMints /\ refusal' = [refusal EXCEPT ![c] = refusal[c]]
  BY <1>1 DEF TypeOK, SetRefresh, SetId
<1> QED BY <1>1, <1>2, <1>3, <1>4, <1>5, <1>6, OnlyOn

\* Each way a call returns.
LEMMA LeaveStep ==
    ASSUME CacheInv, NEW c \in Calls,
           \/ ServeStatic(c) \/ ServeCached(c) \/ Unreachable(c) \/ Reauthenticate(c)
           \/ SetExp(c) \/ SaveNothing(c) \/ SaveFails(c)
    PROVE  CacheInv'
<1>1. /\ TypeOK /\ Token(c) \in Entries /\ stored \in Entries
      /\ Token(c).id \in 0 .. MaxMints /\ 0 \in 0 .. MaxMints
  BY CacheAssumption DEF CacheInv, TypeOK, Token, Entries
<1>2. PICK id \in {Token(c).id, 0} : Return(c, id)
  BY DEF ServeStatic, ServeCached, Unreachable, Reauthenticate, SetExp, SaveNothing, SaveFails
<1>3. /\ pc[c] \in Inside \/ source[Home[c]] = "static"
      /\ UNCHANGED <<process, google, project, password, readOnly>>
  BY DEF ServeStatic, ServeCached, Unreachable, Reauthenticate, SetExp, SaveNothing,
         SaveFails, Inside, Saving, store
<1>4. stored' = stored \/ stored' = [stored EXCEPT !.exp = Token(c).exp]
  BY DEF ServeStatic, ServeCached, Unreachable, Reauthenticate, SetExp, SaveNothing,
         SaveFails, store
<1>5. stored' \in Entries
  BY <1>1, <1>4 DEF Entries
<1> QED BY <1>1, <1>2, <1>3, <1>5, ReturnStep

\* Time, Google and `fft project add` leave every call where it is.
LEMMA OutsideStep ==
    ASSUME CacheInv,
           \/ Age \/ AddConfig \/ AddFails
           \/ \E a \in Accounts : Revoke(a) \/ AddSecrets(a)
    PROVE  CacheInv'
<1>1. TypeOK
  BY DEF CacheInv
<1>2. UNCHANGED <<process, holder, pc, renewing, served, refusal, minted, owner, readOnly>>
  BY DEF Age, Revoke, AddSecrets, AddConfig, AddFails, store, google
<1>3. stale' \in 0 .. minted /\ stale <= stale' /\ stale' \in Nat
  BY <1>1 DEF Age, Revoke, AddSecrets, AddConfig, AddFails, google, TypeOK
<1>4. dead' \subseteq Mints
  <2>1. dead' = dead \/ \E a \in Accounts : dead' = dead \union {n \in 1 .. minted : owner[n] = a}
    BY DEF Age, Revoke, AddSecrets, AddConfig, AddFails, google
  <2>2. 1 .. minted \subseteq Mints /\ dead \subseteq Mints
    BY <1>1, CacheAssumption DEF TypeOK, Mints
  <2> QED BY <2>1, <2>2
<1>5. /\ stored' \in Entries /\ password' \in Accounts \union {None}
      /\ configured' \in Accounts /\ adding' \in Accounts \union {None}
  BY <1>1, CacheAssumption DEF Age, Revoke, AddSecrets, AddConfig, AddFails, store, project,
         TypeOK, NoToken, Entries
<1>6. adds' \in 0 .. MaxAdds
  BY <1>1, CacheAssumption DEF Age, Revoke, AddSecrets, AddConfig, AddFails, project, TypeOK
<1>7. TypeOK'
  BY <1>1, <1>2, <1>3, <1>4, <1>5, <1>6 DEF TypeOK, process
<1>8. ASSUME NEW d \in Calls PROVE Locked(d)' /\ LastResort(d)'
  BY <1>2, <1>3, Bystander DEF process
<1> QED BY <1>7, <1>8 DEF CacheInv

LEMMA RestartStep ==
    ASSUME CacheInv, NEW p \in Procs, Restart(p)
    PROVE  CacheInv'
<1>1. /\ TypeOK /\ stored \in Entries
  BY DEF CacheInv, TypeOK
<1>2. /\ source' = [source EXCEPT ![p] = NewSource]
      /\ loaded' = [loaded EXCEPT ![p] = FALSE] /\ email' = [email EXCEPT ![p] = configured]
      /\ holder' = [holder EXCEPT ![p] = None]
      /\ pc' = [c \in Calls |-> IF Home[c] = p THEN "idle" ELSE pc[c]]
      /\ served' = [c \in Calls |-> IF Home[c] = p THEN 0 ELSE served[c]]
      /\ refusal' = [c \in Calls |-> IF Home[c] = p THEN 0 ELSE refusal[c]]
      /\ UNCHANGED <<store, google, project, renewing>>
  BY DEF Restart
<1>3. PICK token \in Entries : memory' = [memory EXCEPT ![p] = token]
  <2>1. NoToken \in Entries /\ [NoToken EXCEPT !.id = stored.id] \in Entries
    BY <1>1, CacheAssumption DEF NoToken, Entries
  <2> QED BY <2>1 DEF Restart
<1>4. NewSource \in {"firebase", "static", "none"}
  BY DEF NewSource
<1>5. TypeOK'
  <2>1. /\ stored' \in Entries /\ password' \in Accounts \union {None}
        /\ configured' \in Accounts /\ readOnly' \in BOOLEAN /\ renewing' \subseteq Calls
    BY <1>1, <1>2 DEF TypeOK, store, project
  <2>2. /\ memory' \in [Procs -> Entries] /\ loaded' \in [Procs -> BOOLEAN]
        /\ email' \in [Procs -> Accounts] /\ source' \in [Procs -> {"firebase", "static", "none"}]
    BY <1>1, <1>2, <1>3, <1>4 DEF TypeOK
  <2>3. /\ holder' \in [Procs -> Calls \union {None}]
        /\ pc' \in [Calls -> {"idle", "locking"} \union Inside]
    BY <1>1, <1>2 DEF TypeOK
  <2>4. /\ served' \in [Calls -> 0 .. MaxMints]
        /\ refusal' \in [Calls -> 0 .. MaxMints]
    BY <1>1, <1>2, CacheAssumption DEF TypeOK
  <2>5. /\ minted' \in 0 .. MaxMints /\ owner' \in [Mints -> Accounts] /\ stale' \in 0 .. minted'
        /\ dead' \subseteq Mints /\ adds' \in 0 .. MaxAdds /\ adding' \in Accounts \union {None}
    BY <1>1, <1>2 DEF TypeOK, google, project
  <2> QED BY <2>1, <2>2, <2>3, <2>4, <2>5 DEF TypeOK
<1>6. ASSUME NEW d \in Calls PROVE Locked(d)' /\ LastResort(d)'
  <2>1. CASE Home[d] = p
    BY <1>2, <2>1 DEF Locked, LastResort, Minting, Inside, Loading, Saving
  <2>2. CASE Home[d] # p
    <3>1. Home[d] \in Procs /\ stale \in Nat
      BY <1>1, CacheAssumption DEF TypeOK
    <3>2. UNCHANGED <<pc[d], source[Home[d]], holder[Home[d]], memory[Home[d]]>>
      BY <1>1, <1>2, <1>3, <2>2, <3>1 DEF TypeOK
    <3>3. UNCHANGED <<stale, refusal[d], renewing>>
      BY <1>2, <2>2 DEF google
    <3> QED BY <3>1, <3>2, <3>3, Bystander
  <2> QED BY <2>1, <2>2
<1> QED BY <1>5, <1>6 DEF CacheInv

LEMMA NextCache == CacheInv /\ [Next]_vars => CacheInv'
<1> SUFFICES ASSUME CacheInv, [Next]_vars PROVE CacheInv'
  OBVIOUS
<1>1. ASSUME NEW c \in Calls, Proceed(c) PROVE CacheInv'
  BY <1>1, LeaveStep, LockStep, LoadStep, DecideStep, MintedStep, SaveStep DEF Proceed
<1>2. CASE Age \/ AddConfig \/ AddFails \/ \E a \in Accounts : Revoke(a) \/ AddSecrets(a)
  BY <1>2, OutsideStep
<1>3. CASE UNCHANGED vars
  BY <1>3 DEF vars, CacheInv, TypeOK, Locked, LastResort, Token, Fresh
<1>4. ASSUME NEW c \in Calls, Call(c) PROVE CacheInv'
  BY <1>4, CallStep
<1>5. ASSUME NEW p \in Procs, Restart(p) PROVE CacheInv'
  BY <1>5, RestartStep
<1> QED BY <1>1, <1>2, <1>3, <1>4, <1>5 DEF Next

----------------------------------------------------------------------------
(* Any number of processes *)

\* CacheInv holds throughout: every process' token is touched under its mutex alone.
THEOREM CacheInvariant == Spec => []CacheInv
BY InitCache, NextCache, PTL DEF Spec

\* TypeOK: every variable of the cache keeps its type.
THEOREM TypeCorrect == Spec => []TypeOK
<1>1. CacheInv => TypeOK
  BY DEF CacheInv
<1> QED BY <1>1, CacheInvariant, PTL

\* PasswordIsLastResort: Google is sent the password (mint in cache.go) only by a
\* process without a refresh token, or by a call that had this very one refused.
THEOREM PasswordComesLast == Spec => []PasswordIsLastResort
<1>1. CacheInv => PasswordIsLastResort
  BY DEF CacheInv, LastResort, PasswordIsLastResort
<1> QED BY <1>1, CacheInvariant, PTL

\* OneMintPerExpiry: whoever waits for c.mu finds the fresh token of whoever held it;
\* no call of Token mints over a token that is still fresh.
THEOREM MintsWhenStale == Spec => OneMintPerExpiry
<1> DEFINE Sparing == \A c \in Calls :
        pc[c] \in {"refreshing", "signing"} /\ pc'[c] = "setRefresh" /\ c \notin renewing
            => ~Fresh(Token(c))
<1>1. CacheInv => Sparing
  BY DEF CacheInv, LastResort, Minting
<1>2. CacheInv /\ [Next]_vars => [Sparing]_vars
  BY <1>1
<1> QED BY <1>2, CacheInvariant, PTL DEF Spec, OneMintPerExpiry

----------------------------------------------------------------------------
(* One process *)

LEMMA InitStore == Init => StoreInv
<1> SUFFICES ASSUME Init PROVE StoreInv
  OBVIOUS
<1>1. /\ \A p \in Procs : memory[p].id = 0 /\ memory[p].exp = 0
      /\ stored.id = 0 /\ stored.exp = 0 /\ minted = 0
      /\ \A c \in Calls : pc[c] = "idle"
  BY DEF Init, NoToken
<1> QED
  BY <1>1 DEF StoreInv, Minted0, LoadedFirst, LoadedWhole, SavesLatest, ExpiryNeverVouches,
              Inside, Loading, Saving

\* With one process nobody else is inside while one is.
LEMMA Alone ==
    ASSUME CacheInv, OneProcess, NEW c \in Calls, pc[c] \in Inside, NEW d \in Calls \ {c}
    PROVE  pc[d] \notin Inside
BY OneInside DEF OneProcess

\* A step that touches neither a token nor the clock, and does not take a call to
\* where it would have to have touched one.
LEMMA StoreUntouched ==
    ASSUME CacheInv, StoreInv, UNCHANGED <<memory, loaded, stored, minted, stale>>,
           \A c \in Calls :
               /\ pc'[c] \in Inside => (loaded[Home[c]] <=> pc'[c] \notin Loading)
               /\ pc'[c] \in {"readRefresh", "readExp"} \union Saving => pc'[c] = pc[c]
    PROVE  StoreInv'
<1>1. Minted0' /\ LoadedFirst' /\ ExpiryNeverVouches'
  BY DEF StoreInv, Minted0, LoadedFirst, ExpiryNeverVouches
<1>2. LoadedWhole'
  BY DEF StoreInv, LoadedWhole, Token
<1>3. SavesLatest'
  BY DEF StoreInv, SavesLatest, Token, Saving
<1> QED BY <1>1, <1>2, <1>3 DEF StoreInv

\* What StoreInv says of the store and of one call's process.
Own(c) ==
    /\ stored.id <= minted /\ stored.exp <= minted
    /\ Token(c).id <= minted /\ Token(c).exp <= minted
    /\ pc[c] \in Inside => (loaded[Home[c]] <=> pc[c] \notin Loading)
    /\ ~loaded[Home[c]] => Token(c).exp = 0
    /\ Token(c).id # 0 => Token(c).exp <= Token(c).id
    /\ pc[c] \in {"readRefresh", "readExp"} /\ Token(c).id # 0 => stored.exp <= Token(c).id
    /\ pc[c] \in Saving => Token(c).id = minted /\ Token(c).exp = minted /\ minted > stale
    /\ pc[c] = "setExp" => stored.id \in {0, minted}
    /\ ExpiryNeverVouches

LEMMA OwnHolds == ASSUME CacheInv, StoreInv, NEW c \in Calls PROVE Own(c)
<1>1. Home[c] \in Procs
  BY CacheAssumption
<1> QED
  BY <1>1 DEF Own, StoreInv, Minted0, LoadedFirst, LoadedWhole, SavesLatest, Token

\* A step of the one call that is inside has its own process and the store to see to.
LEMMA StoreStep ==
    ASSUME CacheInv, StoreInv, OneProcess, NEW c \in Calls, pc[c] \in Inside,
           \A d \in Calls \ {c} : UNCHANGED pc[d],
           \A p \in Procs \ {Home[c]} : UNCHANGED <<memory[p], loaded[p]>>,
           minted' \in Nat, minted <= minted', Own(c)'
    PROVE  StoreInv'
<1>1. Home[c] \in Procs /\ minted \in Nat
  BY CacheAssumption DEF CacheInv, TypeOK
<1>2. \A p \in Procs : memory[p].id \in Nat /\ memory[p].exp \in Nat
  <2>1. \A p \in Procs : memory[p] \in Entries
    BY DEF CacheInv, TypeOK
  <2> QED BY <2>1, CacheAssumption DEF Entries
<1>3. \A d \in Calls \ {c} : pc'[d] \notin Inside
  BY Alone
<1>4. Minted0'
  BY <1>1, <1>2 DEF StoreInv, Minted0, Own, Token
<1>5. LoadedFirst'
  BY <1>3 DEF StoreInv, LoadedFirst, Own, Token
<1>6. LoadedWhole'
  BY <1>3 DEF StoreInv, LoadedWhole, Own, Token, Inside, Loading
<1>7. SavesLatest'
  BY <1>3 DEF SavesLatest, Own, Inside, Saving
<1>8. ExpiryNeverVouches'
  BY DEF Own
<1> QED BY <1>4, <1>5, <1>6, <1>7, <1>8 DEF StoreInv

\* What those steps touch.
LEMMA OthersStay ==
    ASSUME CacheInv, NEW c \in Calls, NEW to, pc' = [pc EXCEPT ![c] = to],
           NEW token, memory' = [memory EXCEPT ![Home[c]] = token],
           NEW read, loaded' = [loaded EXCEPT ![Home[c]] = read]
    PROVE  /\ \A d \in Calls \ {c} : UNCHANGED pc[d]
           /\ \A p \in Procs \ {Home[c]} : UNCHANGED <<memory[p], loaded[p]>>
           /\ pc'[c] = to /\ Token(c)' = token /\ loaded'[Home[c]] = read
BY CacheAssumption DEF CacheInv, TypeOK, Token

\* Entries are compared by number.
LEMMA Numbers ==
    ASSUME CacheInv, NEW c \in Calls
    PROVE  /\ stored.id \in Nat /\ stored.exp \in Nat
           /\ Token(c).id \in Nat /\ Token(c).exp \in Nat
           /\ minted \in Nat /\ stale \in Nat /\ stale <= minted
<1>1. stored \in Entries /\ Token(c) \in Entries
  BY CacheAssumption DEF CacheInv, TypeOK, Token
<1>2. minted \in Nat /\ stale \in Nat /\ stale <= minted
  BY CacheAssumption DEF CacheInv, TypeOK
<1> QED BY <1>1, <1>2, CacheAssumption DEF Entries

\* Reading an entry.  Until the expiry is read the token has none, and while a
\* process reads, the expiry in the store only goes away.
LEMMA StoreLoads ==
    ASSUME CacheInv, StoreInv, OneProcess, NEW c \in Calls,
           ReadId(c) \/ ReadRefresh(c) \/ ReadExp(c)
    PROVE  StoreInv'
<1>1. /\ TypeOK /\ Home[c] \in Procs /\ Token(c) \in Entries
  BY CacheAssumption DEF CacheInv, TypeOK, Token
<1>2. /\ pc[c] \in Inside /\ pc[c] \in Loading
      /\ UNCHANGED <<stored, minted, stale>>
  BY DEF ReadId, ReadRefresh, ReadExp, Goes, Inside, Loading, store, google
<1>3. Own(c)
  BY OwnHolds
<1>4. ~loaded[Home[c]] /\ Token(c).exp = 0
  BY <1>2, <1>3 DEF Own
<1>5. minted' \in Nat /\ minted <= minted'
  BY <1>2, Numbers
<1>6. CASE ReadId(c)
  <2>1. PICK v \in {stored.id, 0} : memory' = [memory EXCEPT ![Home[c]].id = v]
    BY <1>6 DEF ReadId
  <2> DEFINE token == [Token(c) EXCEPT !.id = v]
  <2>2. token.id = v /\ token.exp = 0
    BY <1>1, <1>4 DEF Entries
  <2>3. memory' = [memory EXCEPT ![Home[c]] = token]
    BY <1>1, <2>1 DEF TypeOK, Token
  <2>4. pc' = [pc EXCEPT ![c] = "readRefresh"] /\ loaded' = [loaded EXCEPT ![Home[c]] = FALSE]
    BY <1>1, <1>4, <1>6 DEF ReadId, Goes, TypeOK
  <2> HIDE DEF token
  <2>5. /\ \A d \in Calls \ {c} : UNCHANGED pc[d]
        /\ \A p \in Procs \ {Home[c]} : UNCHANGED <<memory[p], loaded[p]>>
        /\ pc'[c] = "readRefresh" /\ Token(c)' = token /\ loaded'[Home[c]] = FALSE
    BY <2>3, <2>4, OthersStay
  <2>6. Own(c)'
    BY <1>2, <1>3, <2>2, <2>5, Numbers DEF Own, ExpiryNeverVouches, Loading, Saving
  <2> QED BY <1>2, <1>5, <2>5, <2>6, StoreStep
<1>7. CASE ReadRefresh(c)
  <2>1. PICK v \in {stored.refresh, 0} : memory' = [memory EXCEPT ![Home[c]].refresh = v]
    BY <1>7 DEF ReadRefresh
  <2> DEFINE token == [Token(c) EXCEPT !.refresh = v]
  <2>2. token.id = Token(c).id /\ token.exp = 0
    BY <1>1, <1>4 DEF Entries
  <2>3. memory' = [memory EXCEPT ![Home[c]] = token]
    BY <1>1, <2>1 DEF TypeOK, Token
  <2>4. /\ pc' = [pc EXCEPT ![c] = "readExp"] /\ loaded' = [loaded EXCEPT ![Home[c]] = FALSE]
        /\ pc[c] = "readRefresh"
    BY <1>1, <1>4, <1>7 DEF ReadRefresh, Goes, TypeOK
  <2> HIDE DEF token
  <2>5. /\ \A d \in Calls \ {c} : UNCHANGED pc[d]
        /\ \A p \in Procs \ {Home[c]} : UNCHANGED <<memory[p], loaded[p]>>
        /\ pc'[c] = "readExp" /\ Token(c)' = token /\ loaded'[Home[c]] = FALSE
    BY <2>3, <2>4, OthersStay
  <2>6. Own(c)'
    BY <1>2, <1>3, <2>2, <2>4, <2>5, Numbers DEF Own, ExpiryNeverVouches, Loading, Saving
  <2> QED BY <1>2, <1>5, <2>5, <2>6, StoreStep
<1>8. CASE ReadExp(c)
  <2>1. PICK v \in {stored.exp, 0} : memory' = [memory EXCEPT ![Home[c]].exp = v]
    BY <1>8 DEF ReadExp
  <2> DEFINE token == [Token(c) EXCEPT !.exp = v]
  <2>2. token.id = Token(c).id /\ token.exp = v
    BY <1>1 DEF Entries
  <2>3. memory' = [memory EXCEPT ![Home[c]] = token]
    BY <1>1, <2>1 DEF TypeOK, Token
  <2>4. /\ pc' = [pc EXCEPT ![c] = "deciding"] /\ loaded' = [loaded EXCEPT ![Home[c]] = TRUE]
        /\ pc[c] = "readExp"
    BY <1>8 DEF ReadExp, Goes
  <2> HIDE DEF token
  <2>5. /\ \A d \in Calls \ {c} : UNCHANGED pc[d]
        /\ \A p \in Procs \ {Home[c]} : UNCHANGED <<memory[p], loaded[p]>>
        /\ pc'[c] = "deciding" /\ Token(c)' = token /\ loaded'[Home[c]] = TRUE
    BY <2>3, <2>4, OthersStay
  <2>6. Own(c)'
    BY <1>2, <1>3, <2>2, <2>4, <2>5, Numbers DEF Own, ExpiryNeverVouches, Loading, Saving
  <2> QED BY <1>2, <1>5, <2>5, <2>6, StoreStep
<1> QED BY <1>6, <1>7, <1>8

\* A mint is later than whatever is in the store.
LEMMA StoreMints ==
    ASSUME CacheInv, StoreInv, OneProcess, NEW c \in Calls, Refresh(c) \/ SignIn(c)
    PROVE  StoreInv'
<1>1. /\ TypeOK /\ pc[c] \in Inside /\ pc[c] \notin Loading
  BY DEF CacheInv, Refresh, SignIn, Inside, Loading
<1>2. Own(c)
  BY OwnHolds
<1> DEFINE n == minted + 1
           token == [refresh |-> n, id |-> n, exp |-> n]
<1>3. /\ pc' = [pc EXCEPT ![c] = "setRefresh"] /\ minted' = n
      /\ memory' = [memory EXCEPT ![Home[c]] = token]
      /\ UNCHANGED <<stored, loaded, stale>>
  BY DEF Refresh, SignIn, Minted, store
<1>4. token.id = n /\ token.exp = n
  OBVIOUS
<1>5. loaded' = [loaded EXCEPT ![Home[c]] = TRUE]
  BY <1>1, <1>2, <1>3 DEF TypeOK, Own
<1>6. n \in Nat /\ minted <= n /\ n > stale /\ n <= n /\ stored.id <= n /\ stored.exp <= n
  BY <1>2, Numbers DEF Own
<1> HIDE DEF n, token
<1>7. /\ \A d \in Calls \ {c} : UNCHANGED pc[d]
      /\ \A p \in Procs \ {Home[c]} : UNCHANGED <<memory[p], loaded[p]>>
      /\ pc'[c] = "setRefresh" /\ Token(c)' = token /\ loaded'[Home[c]] = TRUE
  BY <1>3, <1>5, OthersStay
<1>8. Own(c)'
  BY <1>2, <1>3, <1>4, <1>6, <1>7 DEF Own, ExpiryNeverVouches, Loading, Saving
<1> QED BY <1>1, <1>3, <1>6, <1>7, <1>8, StoreStep

\* The three writes: the id token goes to the store before the expiry does.
LEMMA StoreSaves ==
    ASSUME CacheInv, StoreInv, OneProcess, NEW c \in Calls,
           SetRefresh(c) \/ SetId(c) \/ SetExp(c)
    PROVE  StoreInv'
<1>1. TypeOK /\ Home[c] \in Procs /\ stored \in Entries
  BY CacheAssumption DEF CacheInv, TypeOK
<1>2. /\ pc[c] \in Inside /\ pc[c] \in Saving /\ pc[c] \notin Loading
      /\ UNCHANGED <<memory, loaded, minted, stale>>
  BY DEF SetRefresh, SetId, SetExp, Goes, Inside, Loading, Saving, process, google
<1>3. Own(c)
  BY OwnHolds
<1>4. memory' = [memory EXCEPT ![Home[c]] = Token(c)] /\ loaded' = [loaded EXCEPT ![Home[c]] = TRUE]
  BY <1>1, <1>2, <1>3 DEF TypeOK, Token, Own
<1>5. minted' \in Nat /\ minted <= minted'
  BY <1>2, Numbers
<1>6. CASE SetRefresh(c)
  <2>1. /\ pc' = [pc EXCEPT ![c] = "setId"] /\ stored' = [stored EXCEPT !.refresh = Token(c).refresh]
    BY <1>6 DEF SetRefresh, Goes
  <2>2. stored'.id = stored.id /\ stored'.exp = stored.exp
    BY <1>1, <2>1 DEF Entries
  <2>3. /\ \A d \in Calls \ {c} : UNCHANGED pc[d]
        /\ \A p \in Procs \ {Home[c]} : UNCHANGED <<memory[p], loaded[p]>>
        /\ pc'[c] = "setId" /\ Token(c)' = Token(c) /\ loaded'[Home[c]] = TRUE
    BY <1>4, <2>1, OthersStay
  <2>4. Own(c)'
    BY <1>2, <1>3, <2>2, <2>3 DEF Own, ExpiryNeverVouches, Loading, Saving
  <2> QED BY <1>2, <1>5, <2>3, <2>4, StoreStep
<1>7. CASE SetId(c)
  <2>1. /\ pc' = [pc EXCEPT ![c] = "setExp"] /\ stored' = [stored EXCEPT !.id = Token(c).id]
    BY <1>7 DEF SetId, Goes
  <2>2. stored'.id = Token(c).id /\ stored'.exp = stored.exp
    BY <1>1, <2>1 DEF Entries
  <2>3. /\ \A d \in Calls \ {c} : UNCHANGED pc[d]
        /\ \A p \in Procs \ {Home[c]} : UNCHANGED <<memory[p], loaded[p]>>
        /\ pc'[c] = "setExp" /\ Token(c)' = Token(c) /\ loaded'[Home[c]] = TRUE
    BY <1>4, <2>1, OthersStay
  <2>4. Own(c)'
    BY <1>2, <1>3, <2>2, <2>3 DEF Own, ExpiryNeverVouches, Loading, Saving
  <2> QED BY <1>2, <1>5, <2>3, <2>4, StoreStep
<1>8. CASE SetExp(c)
  <2>1. /\ pc' = [pc EXCEPT ![c] = "idle"] /\ stored' = [stored EXCEPT !.exp = Token(c).exp]
        /\ pc[c] = "setExp"
    BY <1>8 DEF SetExp, Return
  <2>2. stored'.id = stored.id /\ stored'.exp = Token(c).exp
    BY <1>1, <2>1 DEF Entries
  <2>3. /\ \A d \in Calls \ {c} : UNCHANGED pc[d]
        /\ \A p \in Procs \ {Home[c]} : UNCHANGED <<memory[p], loaded[p]>>
        /\ pc'[c] = "idle" /\ Token(c)' = Token(c) /\ loaded'[Home[c]] = TRUE
    BY <1>4, <2>1, OthersStay
  <2>4. Own(c)'
    BY <1>2, <1>3, <2>1, <2>2, <2>3, Numbers DEF Own, ExpiryNeverVouches, Loading, Saving, Inside
  <2> QED BY <1>2, <1>5, <2>3, <2>4, StoreStep
<1> QED BY <1>6, <1>7, <1>8

\* The steps of a call that read and write neither store nor memory.
LEMMA StoreIdles ==
    ASSUME CacheInv, StoreInv, NEW c \in Calls,
           \/ Call(c) \/ ServeStatic(c) \/ Lock(c) \/ ServeCached(c) \/ MustMint(c)
           \/ Refused(c) \/ Unreachable(c) \/ Reauthenticate(c) \/ SaveNothing(c) \/ SaveFails(c)
    PROVE  StoreInv'
<1>1. TypeOK /\ Own(c)
  BY OwnHolds DEF CacheInv
<1>2. UNCHANGED <<memory, loaded, stored, minted, stale>>
  BY DEF Call, ServeStatic, Lock, ServeCached, MustMint, Refused, Unreachable, Reauthenticate,
         SaveNothing, SaveFails, store, process, google
<1>3. PICK to \in {"idle", "locking", "readId", "deciding", "refreshing", "signing"} :
          pc' = [pc EXCEPT ![c] = to]
  BY DEF Call, ServeStatic, Lock, ServeCached, MustMint, Refused, Unreachable, Reauthenticate,
         SaveNothing, SaveFails, Goes, Return
<1>4. to \in Inside => (loaded[Home[c]] <=> to \notin Loading)
  <2>1. CASE Lock(c)
    <3>1. /\ pc' = [pc EXCEPT ![c] = IF loaded[Home[c]] THEN "deciding" ELSE "readId"]
          /\ loaded[Home[c]] \in BOOLEAN
      BY <1>1, <2>1, CacheAssumption DEF Lock, Goes, TypeOK
    <3>2. to = IF loaded[Home[c]] THEN "deciding" ELSE "readId"
      BY <1>1, <1>3, <3>1 DEF TypeOK
    <3> QED BY <3>1, <3>2 DEF Loading
  <2>2. CASE MustMint(c) \/ Refused(c)
    <3>1. pc[c] \in {"deciding", "refreshing"} /\ pc'[c] \in {"refreshing", "signing"}
      BY <1>1, <2>2 DEF MustMint, Refused, Goes, TypeOK
    <3>2. to \in {"refreshing", "signing"}
      BY <1>1, <1>3, <3>1 DEF TypeOK
    <3> QED BY <1>1, <3>1, <3>2 DEF Own, Inside, Loading
  <2>3. CASE ~Lock(c) /\ ~(MustMint(c) \/ Refused(c))
    <3>1. pc'[c] \in {"idle", "locking"}
      BY <1>1, <2>3 DEF Call, ServeStatic, ServeCached, Unreachable, Reauthenticate,
                        SaveNothing, SaveFails, Goes, Return, TypeOK
    <3>2. to \in {"idle", "locking"}
      BY <1>1, <1>3, <3>1 DEF TypeOK
    <3> QED BY <3>2 DEF Inside, Loading, Saving
  <2> QED BY <2>1, <2>2, <2>3
<1>5. ASSUME NEW d \in Calls
      PROVE  /\ pc'[d] \in Inside => (loaded[Home[d]] <=> pc'[d] \notin Loading)
             /\ pc'[d] \in {"readRefresh", "readExp"} \union Saving => pc'[d] = pc[d]
  <2>1. Own(d) /\ (d # c => pc'[d] = pc[d]) /\ (d = c => pc'[d] = to)
    BY <1>1, <1>3, OwnHolds DEF TypeOK
  <2> QED BY <1>3, <1>4, <2>1 DEF Own, Saving
<1> QED BY <1>2, <1>5, StoreUntouched

\* Time, Google and `fft project add`.  A token being saved does not go stale.
LEMMA StoreWaits ==
    ASSUME CacheInv, StoreInv,
           \/ Age \/ AddConfig \/ AddFails
           \/ \E a \in Accounts : Revoke(a) \/ AddSecrets(a)
           \/ UNCHANGED vars
    PROVE  StoreInv'
<1>1. UNCHANGED <<memory, loaded, pc, minted>>
  BY DEF Age, AddConfig, AddFails, Revoke, AddSecrets, vars, process, google
<1>2. CASE stored' = stored /\ stale' = stale
  <2>1. \A c \in Calls : pc[c] \in Inside => (loaded[Home[c]] <=> pc[c] \notin Loading)
    BY DEF StoreInv, LoadedFirst
  <2> QED BY <1>1, <1>2, <2>1, StoreUntouched
<1>3. CASE Age
  <2>1. /\ stale < minted /\ stale' = stale + 1 /\ UNCHANGED stored
        /\ \A c \in Calls : pc[c] \in Saving => Token(c).id # stale + 1
    BY <1>3 DEF Age, store
  <2>2. minted \in Nat /\ stale \in Nat
    BY CacheAssumption DEF CacheInv, TypeOK
  <2>3. Minted0' /\ LoadedFirst' /\ LoadedWhole' /\ ExpiryNeverVouches'
    BY <1>1, <2>1 DEF StoreInv, Minted0, LoadedFirst, LoadedWhole, ExpiryNeverVouches, Token
  <2>4. SavesLatest'
    BY <1>1, <2>1, <2>2 DEF StoreInv, SavesLatest, Token
  <2> QED BY <2>3, <2>4 DEF StoreInv
<1>4. CASE AddFails
  <2>1. stored'.id = 0 /\ stored'.exp = 0 /\ UNCHANGED stale
    BY <1>4 DEF AddFails, NoToken, google
  <2>2. minted \in Nat /\ \A c \in Calls : Token(c).id \in Nat
    BY Numbers, CacheAssumption DEF CacheInv, TypeOK
  <2>3. Minted0' /\ LoadedFirst' /\ ExpiryNeverVouches'
    BY <1>1, <2>1, <2>2 DEF StoreInv, Minted0, LoadedFirst, ExpiryNeverVouches
  <2>4. LoadedWhole'
    BY <1>1, <2>1, <2>2 DEF StoreInv, LoadedWhole, Token
  <2>5. SavesLatest'
    BY <1>1, <2>1 DEF StoreInv, SavesLatest, Token
  <2> QED BY <2>3, <2>4, <2>5 DEF StoreInv
<1>5. Age \/ AddFails \/ (stored' = stored /\ stale' = stale)
  BY DEF Age, AddConfig, AddFails, Revoke, AddSecrets, vars, store, google
<1> QED BY <1>2, <1>3, <1>4, <1>5

\* A process that starts has at most a stored id token, and no expiry.
LEMMA StoreRestarts ==
    ASSUME CacheInv, StoreInv, NEW p \in Procs, Restart(p)
    PROVE  StoreInv'
<1>1. TypeOK /\ minted \in Nat /\ stored.id \in Nat /\ stored.id <= minted
  <2>1. TypeOK /\ minted \in Nat /\ stored \in Entries
    BY CacheAssumption DEF CacheInv, TypeOK
  <2>2. stored.id \in Nat
    BY <2>1, CacheAssumption DEF Entries
  <2> QED BY <2>1, <2>2 DEF StoreInv, Minted0
<1>2. /\ loaded' = [loaded EXCEPT ![p] = FALSE]
      /\ pc' = [c \in Calls |-> IF Home[c] = p THEN "idle" ELSE pc[c]]
      /\ UNCHANGED <<stored, minted, stale>>
  BY DEF Restart, store, google
<1>3. PICK token :
        /\ memory' = [memory EXCEPT ![p] = token]
        /\ token.id \in {0, stored.id} /\ token.exp = 0
  <2> DEFINE token == IF NewSource = "static" THEN [NoToken EXCEPT !.id = stored.id] ELSE NoToken
  <2>1. memory' = [memory EXCEPT ![p] = token]
    BY DEF Restart
  <2>2. token.id \in {0, stored.id} /\ token.exp = 0
    BY DEF NoToken
  <2> HIDE DEF token
  <2> QED BY <2>1, <2>2
<1>4. /\ \A q \in Procs \ {p} : UNCHANGED <<memory[q], loaded[q]>>
      /\ memory'[p] = token /\ loaded'[p] = FALSE
  BY <1>1, <1>2, <1>3 DEF TypeOK
<1>5. ASSUME NEW c \in Calls
      PROVE  /\ pc'[c] = "idle" \/ (pc'[c] = pc[c] /\ Home[c] # p)
             /\ Home[c] \in Procs
  BY <1>2, CacheAssumption
<1>6. Minted0' /\ ExpiryNeverVouches'
  BY <1>1, <1>2, <1>3, <1>4 DEF StoreInv, Minted0, ExpiryNeverVouches
<1>7. LoadedFirst'
  BY <1>3, <1>4, <1>5 DEF StoreInv, LoadedFirst, Inside, Loading, Saving
<1>8. LoadedWhole'
  BY <1>1, <1>2, <1>3, <1>4, <1>5 DEF StoreInv, LoadedWhole, Token
<1>9. SavesLatest'
  BY <1>2, <1>4, <1>5 DEF StoreInv, SavesLatest, Token, Saving
<1> QED BY <1>6, <1>7, <1>8, <1>9 DEF StoreInv

LEMMA NextStore == OneProcess /\ CacheInv /\ StoreInv /\ [Next]_vars => StoreInv'
<1> SUFFICES ASSUME OneProcess, CacheInv, StoreInv, [Next]_vars PROVE StoreInv'
  OBVIOUS
<1>1. ASSUME NEW c \in Calls, Call(c) \/ Proceed(c) PROVE StoreInv'
  BY <1>1, StoreIdles, StoreLoads, StoreMints, StoreSaves DEF Proceed
<1>2. ASSUME NEW p \in Procs, Restart(p) PROVE StoreInv'
  BY <1>2, StoreRestarts
<1>3. CASE \/ Age \/ AddConfig \/ AddFails
           \/ \E a \in Accounts : Revoke(a) \/ AddSecrets(a)
           \/ UNCHANGED vars
  BY <1>3, StoreWaits
<1> QED BY <1>1, <1>2, <1>3 DEF Next

\* StoreInv holds while one process uses the project at a time.
THEOREM StoreInvariant == OneProcess => (Spec => [](CacheInv /\ StoreInv))
<1> SUFFICES ASSUME OneProcess PROVE Spec => [](CacheInv /\ StoreInv)
  OBVIOUS
<1>1. Init => CacheInv /\ StoreInv
  BY InitCache, InitStore
<1>2. CacheInv /\ StoreInv /\ [Next]_vars => (CacheInv /\ StoreInv)'
  BY NextCache, NextStore
<1> QED BY <1>1, <1>2, PTL DEF Spec

\* ExpiryNeverVouches: whatever saveToken wrote before it failed or the process died,
\* and whatever DeleteAll took away meanwhile, no expiry in the store is later than
\* that of the id token there.
THEOREM StaleIsNeverVouchedFor == OneProcess => (Spec => []ExpiryNeverVouches)
<1> SUFFICES ASSUME OneProcess PROVE Spec => []ExpiryNeverVouches
  OBVIOUS
<1>1. CacheInv /\ StoreInv => ExpiryNeverVouches
  BY DEF StoreInv
<1> QED BY <1>1, StoreInvariant, PTL

\* How a call that renews can end.
LEMMA ReturnsFresh ==
    ASSUME CacheInv, StoreInv, [Next]_vars, NEW c \in Calls, Returns(c)
    PROVE  served'[c] > stale'
<1>1. /\ TypeOK /\ Own(c) /\ Home[c] \in Procs
      /\ pc[c] \in Inside /\ pc'[c] = "idle" /\ served'[c] # 0
  BY OwnHolds, CacheAssumption DEF CacheInv, Returns
<1>2. pc[c] # "idle" /\ pc[c] # "locking"
  BY <1>1 DEF Inside, Loading, Saving
<1>3. CASE ServeCached(c)
  <2>1. served'[c] = Token(c).id /\ UNCHANGED stale /\ Fresh(Token(c))
    BY <1>1, <1>3 DEF ServeCached, Return, TypeOK, google
  <2> QED BY <1>1, <2>1, Numbers DEF Own, Fresh
<1>4. CASE SetExp(c) \/ SaveNothing(c)
  <2>1. served'[c] = Token(c).id /\ UNCHANGED stale /\ pc[c] \in Saving
    BY <1>1, <1>4 DEF SetExp, SaveNothing, Return, TypeOK, google, Saving
  <2> QED BY <1>1, <2>1, Numbers DEF Own
<1>5. ~(Unreachable(c) \/ Reauthenticate(c) \/ SaveFails(c))
  BY <1>1 DEF Unreachable, Reauthenticate, SaveFails, Return, TypeOK
<1>6. \A p \in Procs : ~Restart(p)
  <2>1. ASSUME NEW p \in Procs, Restart(p) PROVE FALSE
    <3>1. /\ pc'[c] = IF Home[c] = p THEN "idle" ELSE pc[c]
          /\ served'[c] = IF Home[c] = p THEN 0 ELSE served[c]
      BY <2>1 DEF Restart
    <3> QED BY <1>1, <1>2, <3>1
  <2> QED BY <2>1
<1>7. ASSUME NEW d \in Calls, Call(d) \/ Proceed(d) PROVE d = c
  <2>1. \E to : pc' = [pc EXCEPT ![d] = to]
    BY <1>7 DEF Call, Proceed, ServeStatic, Lock, ReadId, ReadRefresh, ReadExp, ServeCached,
                MustMint, Refresh, Refused, Unreachable, SignIn, Reauthenticate, SetRefresh,
                SetId, SetExp, SaveNothing, SaveFails, Minted, Goes, Return
  <2> QED BY <1>1, <1>2, <2>1 DEF TypeOK
<1>8. ~(Call(c) \/ ServeStatic(c) \/ Lock(c))
  BY <1>2 DEF Call, ServeStatic, Lock, Goes
<1>9. ~(\/ ReadId(c) \/ ReadRefresh(c) \/ ReadExp(c) \/ MustMint(c) \/ Refresh(c) \/ Refused(c)
        \/ SignIn(c) \/ SetRefresh(c) \/ SetId(c))
  BY <1>1 DEF ReadId, ReadRefresh, ReadExp, MustMint, Refresh, Refused, SignIn, SetRefresh,
              SetId, Minted, Goes, TypeOK
<1>10. ~(Age \/ AddConfig \/ AddFails \/ UNCHANGED vars
         \/ \E a \in Accounts : Revoke(a) \/ AddSecrets(a))
  <2>1. pc' # pc
    BY <1>1, <1>2
  <2> QED BY <2>1 DEF Age, AddConfig, AddFails, Revoke, AddSecrets, vars
<1> QED BY <1>3, <1>4, <1>5, <1>6, <1>7, <1>8, <1>9, <1>10 DEF Next, Proceed

\* ServesFresh: Token and Renew hand out no id token with less than Leeway left,
\* cached, loaded or minted.
THEOREM ServedIsFresh == OneProcess => (Spec => ServesFresh)
<1> SUFFICES ASSUME OneProcess PROVE Spec => ServesFresh
  OBVIOUS
<1> DEFINE Fresher == \A c \in Calls : Returns(c) => served'[c] > stale'
<1>1. CacheInv /\ StoreInv /\ [Next]_vars => [Fresher]_vars
  BY ReturnsFresh
<1> QED BY <1>1, StoreInvariant, PTL DEF Spec, ServesFresh

=============================================================================
