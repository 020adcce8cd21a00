----------------------- MODULE ProjectCommands_proofs -----------------------
(***************************************************************************)
(* What holds of the project commands of one shell or session, one after   *)
(* the other, for any set of project names.  Two shells at a time save     *)
(* over each other's config, so the theorems assume a process alone.       *)
(***************************************************************************)
EXTENDS ProjectCommands, TLAPS

Places == {"consent", "verify", "password", "apiKey", "save", "rollback", "failed", "sweep",
           "deleteOwn", "deleteOther", "saveRemoval"}
Errors == {"none", "absent", "refused", "mixed", "swept", "unreachable"}
Configs == [names : SUBSET Names, ro : SUBSET Names, file : BOOLEAN]
Commands == [at : Places, cmd : {"add", "remove", "use", "readonly"}, n : Names, ro : BOOLEAN,
             yes : BOOLEAN, switched : BOOLEAN, err : Errors, explicit : BOOLEAN,
             cfg : Configs, store : Stores]

\* One process at most runs project commands.
Alone == \A c, d \in Procs : c = d

Active(c) == proc[c] # Idle

----------------------------------------------------------------------------
(* The invariant *)

Types ==
  /\ config \in Configs /\ config.ro \subseteq config.names
  /\ secrets \in [Stores -> SUBSET (Names \X Kinds)]
  /\ proc \in [Procs -> Commands \union {Idle}]
  /\ warned \subseteq Names /\ lost \subseteq Names

\* A command works on the config as it is, until it has saved it.
Current == \A c \in Procs : Active(c) /\ proc[c].at # "sweep" => proc[c].cfg = config

\* Which command can be where, and what it knows there.
AddPlaces    == {"verify", "password", "apiKey", "rollback", "failed", "sweep"}
RemovePlaces == {"deleteOwn", "deleteOther", "saveRemoval"}
Course ==
  \A c \in Procs : Active(c) =>
    /\ proc[c].at \in AddPlaces => proc[c].cmd = "add"
    /\ proc[c].at \in RemovePlaces => proc[c].cmd = "remove" /\ proc[c].n \in warned /\ proc[c].yes
    /\ proc[c].cmd = "remove" => proc[c].at \in RemovePlaces \union {"consent"}
    /\ proc[c].cmd # "add" => proc[c].n \in config.names /\ ~proc[c].switched
    /\ proc[c].at = "consent" => ~proc[c].switched

\* The store a command writes to is the one it named, or the one the config names.
Chosen ==
  \A c \in Procs : Active(c) =>
    proc[c].store = IF proc[c].switched \/ proc[c].explicit THEN "file" ELSE Looks(proc[c].cfg)

\* What an add has stored by the time it goes on.
Stored ==
  \A c \in Procs : Active(c) /\ proc[c].cmd = "add" =>
    /\ proc[c].at = "apiKey" => <<proc[c].n, "password">> \in secrets[proc[c].store]
    /\ proc[c].at = "save" => Complete(proc[c].store, proc[c].n)
    /\ proc[c].at = "sweep" => config.file = TRUE

Reach == Types /\ Current /\ Course /\ Chosen /\ Stored /\ NamedIsReachable

----------------------------------------------------------------------------
LEMMA OtherStore == Other("keyring") = "file" /\ Other("file") = "keyring"
BY DEF Other, Stores

\* A command starts with the config it loads, and nothing asked, stored or switched.
Fresh(c, p) ==
  /\ p \in Commands /\ p.cfg = config /\ ~p.yes /\ ~p.switched
  /\ p.store = (IF p.explicit THEN "file" ELSE Looks(config))

LEMMA Started ==
  ASSUME Types, NEW c \in Procs, NEW cmd \in {"add", "remove", "use", "readonly"},
         NEW n \in Names, NEW at \in Places, NEW ro \in BOOLEAN, Start(c, cmd, n, at, ro)
  PROVE  /\ Fresh(c, proc'[c]) /\ proc'[c].cmd = cmd /\ proc'[c].n = n /\ proc'[c].at = at
         /\ proc'[c].ro = ro /\ proc'[c].err = "none"
         /\ proc' \in [Procs -> Commands \union {Idle}]
<1>1. PICK explicit \in BOOLEAN : proc' = [proc EXCEPT ![c] =
      [at |-> at, cmd |-> cmd, n |-> n, ro |-> ro, yes |-> FALSE, switched |-> FALSE, err |-> "none",
       explicit |-> explicit, cfg |-> config, store |-> IF explicit THEN "file" ELSE Looks(config)]]
  BY DEF Start
<1> DEFINE p == [at |-> at, cmd |-> cmd, n |-> n, ro |-> ro, yes |-> FALSE, switched |-> FALSE,
                 err |-> "none", explicit |-> explicit, cfg |-> config,
                 store |-> IF explicit THEN "file" ELSE Looks(config)]
<1>2. (IF explicit THEN "file" ELSE Looks(config)) \in Stores
  BY DEF Looks, Stores
<1>3. p \in Commands
  BY <1>2 DEF Commands, Types, Errors
<1>4. proc'[c] = p /\ proc' \in [Procs -> Commands \union {Idle}]
  BY <1>1, <1>3 DEF Types
<1>5. /\ p.cfg = config /\ p.yes = FALSE /\ p.switched = FALSE /\ p.explicit = explicit
      /\ p.store = (IF explicit THEN "file" ELSE Looks(config))
      /\ p.cmd = cmd /\ p.n = n /\ p.at = at /\ p.ro = ro /\ p.err = "none"
  OBVIOUS
<1> QED BY <1>3, <1>4, <1>5 DEF Fresh

LEMMA IdleIsNoCommand == Idle \notin Commands
BY DEF Idle, Commands

\* What a step leaves of a command: all but its place, or its place and one thing more.
Same(p, q) ==
  /\ q.cmd = p.cmd /\ q.n = p.n /\ q.ro = p.ro /\ q.explicit = p.explicit /\ q.cfg = p.cfg

LEMMA Went ==
  ASSUME Types, NEW c \in Procs, Active(c), NEW to \in Places, Goto(c, to)
  PROVE  /\ proc' \in [Procs -> Commands \union {Idle}] /\ proc'[c] \in Commands
         /\ Same(proc[c], proc'[c]) /\ proc'[c].at = to /\ proc'[c].yes = proc[c].yes
         /\ proc'[c].switched = proc[c].switched /\ proc'[c].err = proc[c].err
         /\ proc'[c].store = proc[c].store
<1>1. proc[c] \in Commands
  BY DEF Types, Active
<1>2. proc' = [proc EXCEPT ![c] = [proc[c] EXCEPT !.at = to]]
  BY DEF Goto
<1>3. [proc[c] EXCEPT !.at = to] \in Commands
  BY <1>1 DEF Commands
<1> QED BY <1>1, <1>2, <1>3 DEF Types, Same, Commands

LEMMA WentOnError ==
  ASSUME Types, NEW c \in Procs, Active(c), NEW to \in Places, NEW e \in Errors,
         proc' = [proc EXCEPT ![c].at = to, ![c].err = e]
  PROVE  /\ proc' \in [Procs -> Commands \union {Idle}] /\ proc'[c] \in Commands
         /\ Same(proc[c], proc'[c]) /\ proc'[c].at = to /\ proc'[c].yes = proc[c].yes
         /\ proc'[c].switched = proc[c].switched /\ proc'[c].err = e
         /\ proc'[c].store = proc[c].store
<1>1. proc[c] \in Commands
  BY DEF Types, Active
<1> DEFINE p == [proc[c] EXCEPT !.at = to, !.err = e]
<1>2. proc' = [proc EXCEPT ![c] = p]
  OBVIOUS
<1>3. /\ p \in Commands /\ Same(proc[c], p) /\ p.at = to /\ p.yes = proc[c].yes
      /\ p.switched = proc[c].switched /\ p.err = e /\ p.store = proc[c].store
  BY <1>1 DEF Commands, Same
<1> HIDE DEF p
<1>4. proc'[c] = p /\ proc' \in [Procs -> Commands \union {Idle}]
  BY <1>2, <1>3 DEF Types
<1> QED BY <1>3, <1>4

LEMMA Ended ==
  ASSUME Types, NEW c \in Procs, End(c)
  PROVE  proc' \in [Procs -> Commands \union {Idle}] /\ ~Active(c)'
BY DEF Types, End, Active

\* With a process alone, what holds of a command before and after holds of all.
Command == Current /\ Course /\ Chosen /\ Stored

LEMMA Nothing ==
  ASSUME Alone, NEW c \in Procs, ~Active(c)'
  PROVE  Command'
<1>1. \A d \in Procs : d = c
  BY DEF Alone
<1>2. \A d \in Procs : ~Active(d)'
  BY <1>1
<1> QED BY <1>2 DEF Command, Current, Course, Chosen, Stored

\* A command that starts.
LEMMA StartStep ==
  ASSUME Alone, Reach, NEW c \in Procs, NEW n \in Names,
         Add(c, n) \/ Remove(c, n) \/ Use(c, n) \/ ReadOnly(c, n)
  PROVE  Reach'
<1>1. PICK cmd \in {"add", "remove", "use", "readonly"}, at \in {"consent", "verify", "save"},
           ro \in BOOLEAN :
        /\ Start(c, cmd, n, at, ro)
        /\ cmd # "add" => n \in config.names
        /\ at = "save" => cmd \in {"use", "readonly"}
        /\ at = "verify" => cmd = "add"
        /\ cmd = "remove" => at = "consent"
  <2>1. CASE Add(c, n)
    <3>1. PICK flag \in {"none", "on", "off"} :
            LET was == n \in config.names /\ n \in config.ro IN
            Start(c, "add", n, IF was /\ flag = "off" THEN "consent" ELSE "verify",
                  flag = "on" \/ (was /\ flag = "none"))
      BY <2>1 DEF Add
    <3> QED BY <3>1
  <2>2. CASE Remove(c, n)
    BY <2>2 DEF Remove
  <2>3. CASE Use(c, n)
    <3>1. Start(c, "use", n, "save", n \in config.ro) /\ n \in config.names
      BY <2>3 DEF Use
    <3>2. (n \in config.ro) \in BOOLEAN
      OBVIOUS
    <3> QED BY <3>1, <3>2
  <2>4. CASE ReadOnly(c, n)
    BY <2>4 DEF ReadOnly
  <2> QED BY <2>1, <2>2, <2>3, <2>4
<1>2. UNCHANGED <<config, secrets, warned, lost>>
  BY DEF Add, Remove, Use, ReadOnly
<1>3. /\ Fresh(c, proc'[c]) /\ proc'[c].cmd = cmd /\ proc'[c].n = n /\ proc'[c].at = at
      /\ proc' \in [Procs -> Commands \union {Idle}]
  BY <1>1, Started DEF Reach, Places
<1>4. Types'
  BY <1>2, <1>3 DEF Reach, Types
<1>5. \A d \in Procs : d = c
  BY DEF Alone
<1>6. Command'
  BY <1>1, <1>2, <1>3, <1>5
  DEF Command, Current, Course, Chosen, Stored, Fresh, AddPlaces, RemovePlaces, Looks
<1>7. NamedIsReachable'
  BY <1>2 DEF Reach, NamedIsReachable, Complete, Looks
<1> QED BY <1>4, <1>6, <1>7 DEF Reach, Command

LEMMA ConsentStep ==
  ASSUME Alone, Reach, NEW c \in Procs, Consent(c)
  PROVE  Reach'
<1>0. /\ Active(c) /\ proc[c].at = "consent" /\ proc[c] \in Commands
      /\ UNCHANGED <<config, secrets, lost>> /\ \A d \in Procs : d = c
  BY DEF Consent, Active, Idle, Alone, Reach, Types
<1>1. CASE End(c) /\ UNCHANGED warned
  <2>1. Types' /\ ~Active(c)'
    BY <1>0, <1>1, Ended DEF Reach, Types
  <2>2. NamedIsReachable'
    BY <1>0, <1>1 DEF Reach, NamedIsReachable, Complete, Looks
  <2> QED BY <2>1, <2>2, Nothing DEF Reach, Command
<1>2. CASE ~(End(c) /\ UNCHANGED warned)
  <2> DEFINE to == CASE proc[c].cmd = "add" -> "verify" [] proc[c].cmd = "remove" -> "deleteOwn" [] OTHER -> "save"
             p == [proc[c] EXCEPT !.yes = TRUE, !.at = to]
  <2>1. /\ proc' = [proc EXCEPT ![c] = p]
        /\ warned' = IF proc[c].cmd = "remove" THEN warned \cup {proc[c].n} ELSE warned
    BY <1>2 DEF Consent
  <2>2. /\ to \in Places
        /\ proc[c].cmd = "add" => to = "verify"
        /\ proc[c].cmd = "remove" => to = "deleteOwn"
        /\ proc[c].cmd \notin {"add", "remove"} => to = "save"
    BY DEF Places
  <2> HIDE DEF to
  <2>3. /\ p \in Commands /\ Same(proc[c], p) /\ p.at = to /\ p.yes = TRUE
        /\ p.switched = proc[c].switched /\ p.store = proc[c].store
    BY <1>0, <2>2 DEF Commands, Same
  <2> HIDE DEF p
  <2>4. proc'[c] = p /\ proc' \in [Procs -> Commands \union {Idle}]
    BY <2>1, <2>3 DEF Reach, Types
  <2>5. Types'
    BY <1>0, <2>1, <2>4 DEF Reach, Types, Commands
  <2>6. Command'
    <3>1. /\ Same(proc[c], proc'[c]) /\ proc'[c].at = to /\ proc'[c].yes = TRUE
          /\ proc'[c].switched = proc[c].switched /\ proc'[c].store = proc[c].store
      BY <2>3, <2>4
    <3>2. Current' /\ Chosen'
      BY <1>0, <3>1 DEF Reach, Current, Chosen, Same, Looks
    <3>3. proc[c].cmd = "remove" => proc[c].n \in warned'
      BY <2>1
    <3>4. \/ proc[c].cmd = "add" /\ to = "verify"
          \/ proc[c].cmd = "remove" /\ to = "deleteOwn"
          \/ proc[c].cmd \in {"use", "readonly"} /\ to = "save"
      BY <1>0, <2>2 DEF Commands
    <3>5. Course'
      BY <1>0, <3>1, <3>3, <3>4 DEF Reach, Course, Same, AddPlaces, RemovePlaces
    <3>6. Stored'
      BY <1>0, <3>1, <3>4 DEF Stored, Same
    <3> QED BY <3>2, <3>5, <3>6 DEF Command
  <2>7. NamedIsReachable'
    BY <1>0, <2>1 DEF Reach, NamedIsReachable, Complete, Looks
  <2> QED BY <2>5, <2>6, <2>7 DEF Reach, Command
<1> QED BY <1>1, <1>2

LEMMA VerifyStep ==
  ASSUME Alone, Reach, NEW c \in Procs, Verify(c)
  PROVE  Reach'
<1>0. /\ Active(c) /\ proc[c].at = "verify" /\ proc[c].cmd = "add"
      /\ UNCHANGED <<config, secrets, warned, lost>> /\ \A d \in Procs : d = c
  BY DEF Verify, Active, Idle, Alone, Reach, Course, AddPlaces
<1>1. NamedIsReachable'
  BY <1>0 DEF Reach, NamedIsReachable, Complete, Looks
<1>2. CASE End(c)
  <2>1. Types' /\ ~Active(c)'
    BY <1>0, <1>2, Ended DEF Reach, Types
  <2> QED BY <1>1, <2>1, Nothing DEF Reach, Command
<1>3. CASE Goto(c, "password")
  <2>1. /\ proc' \in [Procs -> Commands \union {Idle}]
        /\ Same(proc[c], proc'[c]) /\ proc'[c].at = "password"
        /\ proc'[c].switched = proc[c].switched /\ proc'[c].store = proc[c].store
    BY <1>0, <1>3, Went DEF Reach, Places
  <2>2. Types'
    BY <1>0, <2>1 DEF Reach, Types
  <2>3. Command'
    BY <1>0, <2>1
    DEF Reach, Command, Current, Course, Chosen, Stored, Same, AddPlaces, RemovePlaces, Looks
  <2> QED BY <1>1, <2>2, <2>3 DEF Reach, Command
<1> QED BY <1>2, <1>3 DEF Verify

\* A credential stored: the add goes on, or fails before or after its first one.
LEMMA SetStep ==
  ASSUME Alone, Reach, NEW c \in Procs, SetPassword(c) \/ SetAPIKey(c)
  PROVE  Reach'
<1> DEFINE p == proc[c]
<1>0. /\ Active(c) /\ p.at \in {"password", "apiKey"} /\ p.cmd = "add" /\ p \in Commands
      /\ UNCHANGED <<config, warned, lost>> /\ \A d \in Procs : d = c
  BY DEF SetPassword, SetAPIKey, Active, Idle, Alone, Reach, Types, Course, AddPlaces
<1>1. PICK kind \in Kinds, then \in {"apiKey", "save"}, else \in {"failed", "rollback"} :
        /\ Set(c, kind, then, else)
        /\ p.at = "password" => kind = "password" /\ then = "apiKey"
        /\ p.at = "apiKey" => kind = "apiKey" /\ then = "save"
  <2>1. CASE SetPassword(c)
    BY <2>1 DEF SetPassword, Kinds
  <2>2. CASE SetAPIKey(c)
    BY <2>2 DEF SetAPIKey, Kinds
  <2> QED BY <2>1, <2>2
<1>2. CASE /\ secrets' = [secrets EXCEPT ![p.store] = @ \cup {<<p.n, kind>>}]
           /\ Goto(c, then)
  <2>1. /\ proc' \in [Procs -> Commands \union {Idle}]
        /\ Same(p, proc'[c]) /\ proc'[c].at = then
        /\ proc'[c].switched = p.switched /\ proc'[c].store = p.store
    BY <1>0, <1>2, Went DEF Reach, Places
  <2>2. p.store \in Stores /\ p.n \in Names
    BY <1>0 DEF Commands
  <2>3. Types'
    BY <1>0, <1>2, <2>1, <2>2 DEF Reach, Types
  <2>4. \A s \in Stores : secrets[s] \subseteq secrets'[s]
    BY <1>2, <2>2 DEF Reach, Types
  <2>5. <<p.n, kind>> \in secrets'[p.store]
    BY <1>2, <2>2 DEF Reach, Types
  <2>6. p.at = "apiKey" => Complete(p.store, p.n)'
    BY <1>0, <1>1, <2>1, <2>2, <2>4, <2>5 DEF Reach, Stored, Complete, Of, Kinds, Same
  <2>7. Stored'
    BY <1>0, <1>1, <2>1, <2>5, <2>6 DEF Stored, Same, Complete
  <2>8. Current' /\ Chosen' /\ Course'
    BY <1>0, <2>1 DEF Reach, Current, Chosen, Course, Same, AddPlaces, RemovePlaces, Looks
  <2>9. NamedIsReachable'
    BY <1>0, <2>4 DEF Reach, NamedIsReachable, Complete, Looks, Stores
  <2> QED BY <2>3, <2>7, <2>8, <2>9 DEF Reach
<1>3. CASE /\ \E e \in Failures(p.store) : proc' = [proc EXCEPT ![c].at = else, ![c].err = e]
           /\ UNCHANGED secrets
  <2>1. PICK e \in Errors : proc' = [proc EXCEPT ![c].at = else, ![c].err = e]
    BY <1>3 DEF Failures, Errors
  <2>2. /\ proc' \in [Procs -> Commands \union {Idle}]
        /\ Same(p, proc'[c]) /\ proc'[c].at = else
        /\ proc'[c].switched = p.switched /\ proc'[c].store = p.store
    BY <1>0, <2>1, WentOnError DEF Reach, Places
  <2>3. Types'
    BY <1>0, <1>3, <2>2 DEF Reach, Types
  <2>4. Command'
    BY <1>0, <1>3, <2>2
    DEF Reach, Command, Current, Chosen, Course, Stored, Same, AddPlaces, RemovePlaces, Looks
  <2>5. NamedIsReachable'
    BY <1>0, <1>3 DEF Reach, NamedIsReachable, Complete, Looks
  <2> QED BY <2>3, <2>4, <2>5 DEF Reach, Command
<1> QED BY <1>1, <1>2, <1>3 DEF Set

\* What a deletion leaves behind and says is of one of the known kinds, and a deletion
\* takes nothing of another store and nothing of another name.
LEMMA Deleted ==
  ASSUME NEW s \in Stores, NEW d \in Sweeps(s)
  PROVE  d.left \subseteq Kinds /\ d.err \in {"none", "absent", "refused", "mixed"}
BY DEF Sweeps, Deletions, Failures

LEMMA DeletedOnly ==
  ASSUME Types, NEW s \in Stores, NEW n \in Names, NEW d \in Sweeps(s), Delete(s, n, d)
  PROVE  /\ secrets' \in [Stores -> SUBSET (Names \X Kinds)]
         /\ \A t \in Stores, m \in Names : m # n \/ t # s => (Complete(t, m) => Complete(t, m)')
<1>1. secrets' = [secrets EXCEPT ![s] = @ \ ({n} \X (Kinds \ d.left))]
  BY DEF Delete
<1>2. \A t \in Stores : t # s => secrets'[t] = secrets[t]
  BY <1>1 DEF Types
<1>3. secrets'[s] = secrets[s] \ ({n} \X (Kinds \ d.left))
  BY <1>1 DEF Types
<1>4. ASSUME NEW t \in Stores, NEW m \in Names, m # n \/ t # s, Complete(t, m)
      PROVE  Complete(t, m)'
  <2>1. CASE t # s
    BY <1>2, <1>4, <2>1 DEF Complete, Of
  <2>2. CASE t = s /\ m # n
    BY <1>3, <1>4, <2>2 DEF Complete, Of
  <2> QED BY <1>4, <2>1, <2>2
<1>5. secrets' \in [Stores -> SUBSET (Names \X Kinds)]
  BY <1>1 DEF Types
<1> QED BY <1>4, <1>5

LEMMA JoinedIsAnError ==
  ASSUME NEW e \in Errors, NEW f \in Errors
  PROVE  Joined(e, f) \in Errors
<1>1. CASE e = f
  BY <1>1 DEF Joined
<1>2. CASE e # f /\ "none" \in {e, f}
  <2>1. \E x \in {e, f} : x # "none"
    BY <1>2
  <2>2. (CHOOSE x \in {e, f} : x # "none") \in {e, f}
    BY <2>1
  <2> QED BY <1>2, <2>2 DEF Joined
<1>3. CASE e # f /\ "none" \notin {e, f}
  BY <1>3 DEF Joined, Errors
<1> QED BY <1>1, <1>2, <1>3

\* The config is saved, by an add, a use or a read-only, or the save fails.
LEMMA SaveStep ==
  ASSUME Alone, Reach, NEW c \in Procs, Save(c)
  PROVE  Reach'
<1> DEFINE p == proc[c]
<1>0. /\ Active(c) /\ p.at = "save" /\ p \in Commands /\ p.cfg = config /\ p.cmd # "remove"
      /\ UNCHANGED secrets /\ \A d \in Procs : d = c
  BY DEF Save, Active, Idle, Alone, Reach, Types, Course, Current, RemovePlaces
<1>1. CASE /\ config' = Upsert(p)
           /\ IF p.switched THEN Goto(c, "sweep") ELSE End(c)
           /\ warned' = IF p.cmd = "add" THEN (warned \ {p.n}) \cup Elsewhere(p) ELSE warned
           /\ lost' = IF p.cmd = "add" THEN lost \ {p.n} ELSE lost
  <2>1. /\ config'.names = config.names \cup {p.n}
        /\ config'.ro = (IF p.ro THEN config.ro \cup {p.n} ELSE config.ro \ {p.n})
        /\ config'.file = (config.file \/ p.switched)
        /\ config' \in Configs
    BY <1>0, <1>1 DEF Upsert, Commands, Configs, Reach, Types
  <2>2. warned' \subseteq Names /\ lost' \subseteq Names
    BY <1>0, <1>1 DEF Elsewhere, Commands, Configs, Reach, Types
  <2>3. NamedIsReachable'
    <3>1. CASE p.cmd # "add"
      <4>1. p.n \in config.names /\ ~p.switched
        BY <1>0, <3>1 DEF Reach, Course
      <4>2. Looks(config') = Looks(config) /\ config'.names = config.names
        BY <2>1, <4>1 DEF Looks, Reach, Types, Configs
      <4>3. secrets' = secrets /\ warned' = warned /\ lost' = lost
        BY <1>0, <1>1, <3>1
      <4> QED BY <4>2, <4>3 DEF Reach, NamedIsReachable, Complete
    <3>2. CASE p.cmd = "add"
      <4>1. Complete(p.store, p.n)
        BY <1>0, <3>2 DEF Reach, Stored
      <4>2. p.store = IF p.switched \/ p.explicit THEN "file" ELSE Looks(config)
        BY <1>0 DEF Reach, Chosen
      <4>3. Looks(config') = IF config.file \/ p.switched THEN "file" ELSE "keyring"
        BY <2>1 DEF Looks
      <4>4. Upsert(p).file = (config.file \/ p.switched)
        BY <1>0 DEF Upsert
      <4>5. ASSUME NEW m \in config'.names \ (warned' \cup lost') PROVE Complete(Looks(config'), m)
        <5>1. CASE m = p.n
          <6>1. ~(p.explicit /\ ~Upsert(p).file)
            BY <1>1, <3>2, <4>5, <5>1 DEF Elsewhere
          <6> QED BY <4>1, <4>2, <4>3, <4>4, <5>1, <6>1 DEF Looks
        <5>2. CASE m # p.n
          <6>1. m \in config.names /\ m \notin warned /\ m \notin lost /\ ~p.switched
            BY <1>0, <1>1, <2>1, <3>2, <4>5, <5>2 DEF Elsewhere
          <6> QED BY <4>3, <6>1 DEF Reach, NamedIsReachable, Looks
        <5> QED BY <5>1, <5>2
      <4> QED BY <1>0, <4>5 DEF NamedIsReachable, Complete
    <3> QED BY <3>1, <3>2
  <2>4. CASE p.switched
    <3>1. /\ proc' \in [Procs -> Commands \union {Idle}]
          /\ Same(p, proc'[c]) /\ proc'[c].at = "sweep"
          /\ proc'[c].switched = p.switched /\ proc'[c].store = p.store
      BY <1>0, <1>1, <2>4, Went DEF Reach, Places
    <3>2. p.cmd = "add"
      BY <1>0, <2>4 DEF Reach, Course
    <3>3. config'.file = TRUE
      BY <1>0, <2>1, <2>4 DEF Commands
    <3>4. Types'
      BY <1>0, <2>1, <2>2, <3>1 DEF Reach, Types
    <3>5. Current' /\ Stored'
      BY <1>0, <3>1, <3>2, <3>3 DEF Current, Stored, Same
    <3>6. Course' /\ Chosen'
      BY <1>0, <3>1, <3>2 DEF Reach, Course, Chosen, Same, AddPlaces, RemovePlaces, Looks
    <3> QED BY <2>3, <3>4, <3>5, <3>6 DEF Reach
  <2>5. CASE ~p.switched
    <3>1. proc' \in [Procs -> Commands \union {Idle}] /\ ~Active(c)'
      BY <1>1, <2>5, Ended DEF Reach
    <3>2. Types'
      BY <1>0, <2>1, <2>2, <3>1 DEF Reach, Types
    <3> QED BY <2>3, <3>1, <3>2, Nothing DEF Reach, Command
  <2> QED BY <2>4, <2>5
<1>2. CASE /\ IF p.cmd = "add" THEN proc' = [proc EXCEPT ![c].at = "rollback", ![c].err = "refused"] ELSE End(c)
           /\ UNCHANGED <<config, warned, lost>>
  <2>1. NamedIsReachable'
    BY <1>0, <1>2 DEF Reach, NamedIsReachable, Complete, Looks
  <2>2. CASE p.cmd = "add"
    <3>1. /\ proc' \in [Procs -> Commands \union {Idle}]
          /\ Same(p, proc'[c]) /\ proc'[c].at = "rollback"
          /\ proc'[c].switched = p.switched /\ proc'[c].store = p.store
      BY <1>0, <1>2, <2>2, WentOnError DEF Reach, Places, Errors
    <3>2. Types'
      BY <1>0, <1>2, <3>1 DEF Reach, Types
    <3>3. Command'
      BY <1>0, <1>2, <2>2, <3>1
      DEF Reach, Command, Current, Chosen, Course, Stored, Same, AddPlaces, RemovePlaces, Looks
    <3> QED BY <2>1, <3>2, <3>3 DEF Reach, Command
  <2>3. CASE p.cmd # "add"
    <3>1. Types' /\ ~Active(c)'
      BY <1>0, <1>2, <2>3, Ended DEF Reach, Types
    <3> QED BY <2>1, <3>1, Nothing DEF Reach, Command
  <2> QED BY <2>2, <2>3
<1> QED BY <1>1, <1>2 DEF Save

\* The rollback of an add takes the project's secrets: a project that the config still
\* names is lost, if that is the store the config points at.
LEMMA RollbackStep ==
  ASSUME Alone, Reach, NEW c \in Procs, Rollback(c)
  PROVE  Reach'
<1> DEFINE p == proc[c]
<1>0. /\ Active(c) /\ p.at = "rollback" /\ p \in Commands /\ p.cfg = config /\ p.cmd = "add"
      /\ UNCHANGED config /\ \A d \in Procs : d = c
  BY DEF Rollback, Active, Idle, Alone, Reach, Types, Course, Current, AddPlaces
<1>1. PICK d \in Deletions(p.store) :
       /\ Delete(p.store, p.n, d)
       /\ proc' = [proc EXCEPT ![c].at = "failed", ![c].err = Joined(p.err, d.err)]
       /\ warned' = IF d.err # "none" THEN warned \cup {p.n} ELSE warned
       /\ lost' = IF p.n \in p.cfg.names /\ p.store = Looks(p.cfg) THEN lost \cup {p.n} ELSE lost
  BY DEF Rollback
<1>2. p.store \in Stores /\ p.n \in Names /\ d \in Sweeps(p.store)
  BY <1>0 DEF Commands, Sweeps
<1>3. Joined(p.err, d.err) \in Errors
  <2>1. d.err \in Errors /\ p.err \in Errors
    BY <1>0, <1>2, Deleted DEF Errors, Commands
  <2> QED BY <2>1, JoinedIsAnError
<1>4. /\ secrets' \in [Stores -> SUBSET (Names \X Kinds)]
      /\ \A t \in Stores, m \in Names : m # p.n \/ t # p.store => (Complete(t, m) => Complete(t, m)')
  BY <1>1, <1>2, DeletedOnly DEF Reach
<1>5. /\ proc' \in [Procs -> Commands \union {Idle}]
      /\ Same(p, proc'[c]) /\ proc'[c].at = "failed"
      /\ proc'[c].switched = p.switched /\ proc'[c].store = p.store
  BY <1>0, <1>1, <1>3, WentOnError DEF Reach, Places
<1>6. Types'
  BY <1>0, <1>1, <1>2, <1>4, <1>5 DEF Reach, Types
<1>7. Command'
  BY <1>0, <1>5
  DEF Reach, Command, Current, Chosen, Course, Stored, Same, AddPlaces, RemovePlaces, Looks
<1>8. NamedIsReachable'
  <2> SUFFICES ASSUME NEW m \in config.names \ (warned' \cup lost') PROVE Complete(Looks(config), m)'
    BY <1>0 DEF NamedIsReachable, Looks
  <2>1. m \in Names /\ m \notin warned /\ m \notin lost /\ (m # p.n \/ Looks(config) # p.store)
    BY <1>0, <1>1 DEF Reach, Types, Configs
  <2>2. Looks(config) \in Stores /\ UNCHANGED Looks(config)
    BY <1>0 DEF Looks, Stores
  <2>3. Complete(Looks(config), m)
    BY <2>1 DEF Reach, NamedIsReachable
  <2> QED BY <1>4, <2>1, <2>2, <2>3 DEF Complete
<1> QED BY <1>6, <1>7, <1>8 DEF Reach, Command

LEMMA SwitchStep ==
  ASSUME Alone, Reach, NEW c \in Procs, Switch(c)
  PROVE  Reach'
<1> DEFINE p == proc[c]
<1>0. /\ Active(c) /\ p.at = "failed" /\ p \in Commands /\ p.cmd = "add"
      /\ UNCHANGED <<config, secrets, warned, lost>> /\ \A d \in Procs : d = c
  BY DEF Switch, Active, Idle, Alone, Reach, Types, Course, AddPlaces
<1>1. NamedIsReachable'
  BY <1>0 DEF Reach, NamedIsReachable, Complete, Looks
<1>2. CASE End(c)
  <2>1. Types' /\ ~Active(c)'
    BY <1>0, <1>2, Ended DEF Reach, Types
  <2> QED BY <1>1, <2>1, Nothing DEF Reach, Command
<1>3. CASE proc' = [proc EXCEPT ![c].switched = TRUE, ![c].store = "file", ![c].at = "password"]
  <2> DEFINE q == [proc[c] EXCEPT !.switched = TRUE, !.store = "file", !.at = "password"]
  <2>1. proc' = [proc EXCEPT ![c] = q]
    BY <1>3
  <2>2. /\ q \in Commands /\ Same(p, q) /\ q.at = "password" /\ q.switched = TRUE /\ q.store = "file"
    BY <1>0 DEF Commands, Same, Places, Stores
  <2> HIDE DEF q
  <2>3. proc'[c] = q /\ proc' \in [Procs -> Commands \union {Idle}]
    BY <2>1, <2>2 DEF Reach, Types
  <2>4. Types'
    BY <1>0, <2>3 DEF Reach, Types
  <2>5. Command'
    BY <1>0, <2>2, <2>3
    DEF Reach, Command, Current, Chosen, Course, Stored, Same, AddPlaces, RemovePlaces, Looks
  <2> QED BY <1>1, <2>4, <2>5 DEF Reach, Command
<1> QED BY <1>2, <1>3 DEF Switch

LEMMA SweepStep ==
  ASSUME Alone, Reach, NEW c \in Procs, SweepPrevious(c)
  PROVE  Reach'
<1> DEFINE p == proc[c]
<1>0. /\ Active(c) /\ p.at = "sweep" /\ p \in Commands /\ p.cmd = "add" /\ End(c)
      /\ UNCHANGED <<config, warned, lost>> /\ config.file = TRUE
  <2>1. p.at = "sweep" /\ End(c) /\ UNCHANGED <<config, warned, lost>>
    BY DEF SweepPrevious
  <2>2. Active(c) /\ p \in Commands
    BY <2>1 DEF Active, Idle, Reach, Types
  <2>3. p.cmd = "add"
    BY <2>1, <2>2 DEF Reach, Course, AddPlaces
  <2>4. config.file = TRUE
    BY <2>1, <2>2, <2>3 DEF Reach, Stored
  <2> QED BY <2>1, <2>2, <2>3, <2>4
<1>1. PICK d \in Sweeps("keyring") : Delete("keyring", p.n, d)
  BY DEF SweepPrevious
<1>2. p.n \in Names /\ "keyring" \in Stores /\ "file" \in Stores
  BY <1>0 DEF Commands, Stores
<1>3. /\ secrets' \in [Stores -> SUBSET (Names \X Kinds)]
      /\ \A t \in Stores, m \in Names : m # p.n \/ t # "keyring" => (Complete(t, m) => Complete(t, m)')
  BY <1>1, <1>2, DeletedOnly DEF Reach
<1>4. proc' \in [Procs -> Commands \union {Idle}] /\ ~Active(c)'
  BY <1>0, Ended DEF Reach
<1>5. Types'
  BY <1>0, <1>3, <1>4 DEF Reach, Types
<1>6. NamedIsReachable'
  <2> SUFFICES ASSUME NEW m \in config.names \ (warned \cup lost) PROVE Complete("file", m)'
    BY <1>0 DEF NamedIsReachable, Looks
  <2>1. m \in Names /\ Complete("file", m)
    BY <1>0 DEF Reach, Types, Configs, NamedIsReachable, Looks
  <2> QED BY <1>2, <1>3, <2>1
<1> QED BY <1>4, <1>5, <1>6, Nothing DEF Reach, Command

\* A removal: its user knows, from the yes on, that the credentials go.
LEMMA DeleteStep ==
  ASSUME Alone, Reach, NEW c \in Procs, DeleteOwn(c) \/ DeleteOther(c)
  PROVE  Reach'
<1> DEFINE p == proc[c]
<1>0. /\ Active(c) /\ p.at \in RemovePlaces /\ p \in Commands /\ p.cmd = "remove" /\ p.yes
      /\ p.n \in warned /\ UNCHANGED <<config, warned, lost>> /\ \A d \in Procs : d = c
  BY DEF DeleteOwn, DeleteOther, Active, Idle, Alone, Reach, Types, Course, RemovePlaces
<1>1. p.n \in Names /\ p.store \in Stores /\ Other(p.store) \in Stores
  BY <1>0, OtherStore DEF Commands, Stores
<1>2. \E s \in Stores : \E d \in Sweeps(s) : Delete(s, p.n, d)
  BY <1>1 DEF DeleteOwn, DeleteOther, Sweeps
<1>3. /\ secrets' \in [Stores -> SUBSET (Names \X Kinds)]
      /\ \A t \in Stores, m \in Names : m # p.n => (Complete(t, m) => Complete(t, m)')
  BY <1>1, <1>2, DeletedOnly DEF Reach
<1>4. NamedIsReachable'
  <2> SUFFICES ASSUME NEW m \in config.names \ (warned \cup lost) PROVE Complete(Looks(config), m)'
    BY <1>0 DEF NamedIsReachable, Looks
  <2>1. m \in Names /\ m # p.n /\ Complete(Looks(config), m)
    BY <1>0 DEF Reach, Types, Configs, NamedIsReachable
  <2>2. Looks(config) \in Stores /\ UNCHANGED Looks(config)
    BY <1>0 DEF Looks, Stores
  <2> QED BY <1>3, <2>1, <2>2 DEF Complete
<1>5. CASE End(c)
  <2>1. Types' /\ ~Active(c)'
    BY <1>0, <1>3, <1>5, Ended DEF Reach, Types
  <2> QED BY <1>4, <2>1, Nothing DEF Reach, Command
<1>6. CASE \E to \in {"deleteOther", "saveRemoval"}, e \in Errors :
             \/ Goto(c, to)
             \/ proc' = [proc EXCEPT ![c].at = to, ![c].err = e]
  <2>1. PICK to \in {"deleteOther", "saveRemoval"} :
          /\ proc' \in [Procs -> Commands \union {Idle}]
          /\ Same(p, proc'[c]) /\ proc'[c].at = to /\ proc'[c].yes = p.yes
          /\ proc'[c].switched = p.switched /\ proc'[c].store = p.store
    <3>1. PICK to \in {"deleteOther", "saveRemoval"}, e \in Errors :
             \/ Goto(c, to)
             \/ proc' = [proc EXCEPT ![c].at = to, ![c].err = e]
      BY <1>6
    <3>2. to \in Places /\ Types
      BY DEF Places, Reach
    <3>3. CASE Goto(c, to)
      BY <1>0, <3>2, <3>3, Went
    <3>4. CASE proc' = [proc EXCEPT ![c].at = to, ![c].err = e]
      BY <1>0, <3>2, <3>4, WentOnError
    <3> QED BY <3>1, <3>3, <3>4
  <2>2. Types'
    BY <1>0, <1>3, <2>1 DEF Reach, Types
  <2>3. Current' /\ Chosen'
    BY <1>0, <2>1 DEF Reach, Current, Chosen, Same, RemovePlaces, Looks
  <2>4. Course'
    BY <1>0, <2>1 DEF Reach, Course, Same, AddPlaces, RemovePlaces
  <2>5. Stored'
    BY <1>0, <2>1 DEF Stored, Same
  <2>6. Command'
    BY <2>3, <2>4, <2>5 DEF Command
  <2> QED BY <1>4, <2>2, <2>6 DEF Reach, Command
<1>7. End(c) \/ \E to \in {"deleteOther", "saveRemoval"}, e \in Errors :
                  Goto(c, to) \/ proc' = [proc EXCEPT ![c].at = to, ![c].err = e]
  <2>1. CASE DeleteOwn(c)
    BY <2>1 DEF DeleteOwn, Errors
  <2>2. CASE DeleteOther(c)
    <3>1. PICK d \in Sweeps(Other(p.store)) :
            proc' = [proc EXCEPT ![c].at = "saveRemoval", ![c].err = Outcome(d)]
      BY <2>2 DEF DeleteOther
    <3>2. Outcome(d) \in Errors
      BY DEF Outcome, Errors
    <3> QED BY <3>1, <3>2
  <2> QED BY <2>1, <2>2
<1> QED BY <1>5, <1>6, <1>7

LEMMA SaveRemovalStep ==
  ASSUME Alone, Reach, NEW c \in Procs, SaveRemoval(c)
  PROVE  Reach'
<1> DEFINE p == proc[c]
<1>0. /\ Active(c) /\ p.at = "saveRemoval" /\ p \in Commands /\ p.cfg = config /\ End(c)
      /\ UNCHANGED secrets
  BY DEF SaveRemoval, Active, Idle, Reach, Types, Current
<1>1. proc' \in [Procs -> Commands \union {Idle}] /\ ~Active(c)'
  BY <1>0, Ended DEF Reach
<1>2. CASE /\ config' = Without(p) /\ lost' = lost \ {p.n}
           /\ warned' = IF p.err = "swept" THEN warned \ {p.n} ELSE warned
  <2>1. /\ config'.names = config.names \ {p.n} /\ config'.ro = config.ro \ {p.n}
        /\ config'.file = config.file /\ config' \in Configs
    BY <1>0, <1>2 DEF Without, Reach, Types, Configs
  <2>2. Types'
    BY <1>0, <1>1, <1>2, <2>1 DEF Reach, Types
  <2>3. NamedIsReachable'
    BY <1>0, <1>2, <2>1 DEF Reach, NamedIsReachable, Complete, Looks
  <2> QED BY <1>1, <2>2, <2>3, Nothing DEF Reach, Command
<1>3. CASE UNCHANGED <<config, warned, lost>>
  <2>1. Types'
    BY <1>0, <1>1, <1>3 DEF Reach, Types
  <2>2. NamedIsReachable'
    BY <1>0, <1>3 DEF Reach, NamedIsReachable, Complete, Looks
  <2> QED BY <1>1, <2>1, <2>2, Nothing DEF Reach, Command
<1> QED BY <1>2, <1>3 DEF SaveRemoval

LEMMA CrashStep ==
  ASSUME Alone, Reach, NEW c \in Procs, Crash(c)
  PROVE  Reach'
<1>1. proc[c] \in Commands /\ End(c) /\ UNCHANGED <<config, secrets, lost>>
  BY DEF Crash, Reach, Types
<1>2. warned \subseteq warned' /\ warned' \subseteq Names
  BY <1>1 DEF Crash, Reach, Types, Commands
<1>3. proc' \in [Procs -> Commands \union {Idle}] /\ ~Active(c)'
  BY <1>1, Ended DEF Reach
<1>4. Types'
  BY <1>1, <1>2, <1>3 DEF Reach, Types
<1>5. NamedIsReachable'
  BY <1>1, <1>2 DEF Reach, NamedIsReachable, Complete, Looks
<1> QED BY <1>3, <1>4, <1>5, Nothing DEF Reach, Command

LEMMA Begin ==
  ASSUME Init
  PROVE  Reach
<1>1. Types
  BY DEF Init, Types, Configs
<1>2. \A c \in Procs : ~Active(c)
  BY DEF Init, Active
<1>3. NamedIsReachable
  BY DEF Init, NamedIsReachable
<1> QED BY <1>1, <1>2, <1>3 DEF Reach, Current, Course, Chosen, Stored

LEMMA Preserved ==
  ASSUME Alone, Reach, [Next]_vars
  PROVE  Reach'
<1>1. CASE UNCHANGED vars
  BY <1>1 DEF vars, Reach, Types, Current, Course, Chosen, Stored, NamedIsReachable, Active,
              Complete, Looks
<1>2. ASSUME NEW c \in Procs, NEW n \in Names, Add(c, n) \/ Remove(c, n) \/ Use(c, n) \/ ReadOnly(c, n)
      PROVE  Reach'
  BY <1>2, StartStep
<1>3. ASSUME NEW c \in Procs,
             \/ Consent(c) \/ Verify(c) \/ SetPassword(c) \/ SetAPIKey(c) \/ Save(c) \/ Rollback(c)
             \/ Switch(c) \/ SweepPrevious(c) \/ DeleteOwn(c) \/ DeleteOther(c) \/ SaveRemoval(c)
             \/ Crash(c)
      PROVE  Reach'
  BY <1>3, ConsentStep, VerifyStep, SetStep, SaveStep, RollbackStep, SwitchStep, SweepStep,
     DeleteStep, SaveRemovalStep, CrashStep
<1> QED BY <1>1, <1>2, <1>3 DEF Next

\* With one shell or session at work, at any step of an add, a use, a removal or a change of
\* the read-only mark, and whatever fails in it (persistProject, retryWithoutKeyring,
\* runProjectRemove), a project that the config names has its credentials where fft looks,
\* unless the user was told otherwise or a failed `add --force` of that project took them.
THEOREM EveryNameIsReachable ==
  Alone => (Spec => []NamedIsReachable)
<1>1. SUFFICES ASSUME Alone PROVE Spec => []NamedIsReachable
  OBVIOUS
<1>2. Init => Reach
  BY Begin
<1>3. Reach /\ [Next]_vars => Reach'
  BY <1>1, Preserved
<1>4. Reach => NamedIsReachable
  BY DEF Reach
<1> QED BY <1>2, <1>3, <1>4, PTL DEF Spec

----------------------------------------------------------------------------
(* What is left in the stores, and the read-only mark                      *)

Clean(s, n) == secrets[s] \intersect Of(n) = {}

\* An add that has begun to store its credentials answers for what it stores.
InHand(c, s, n) ==
  /\ Active(c) /\ proc[c].cmd = "add" /\ proc[c].n = n /\ proc[c].store = s
  /\ proc[c].at \in {"apiKey", "save", "rollback"}

Unstranded ==
  \A n \in Names \ (config.names \cup warned) : \A s \in Stores :
    Clean(s, n) \/ \E c \in Procs : InHand(c, s, n)

\* How far a removal has come: what it reports at its end is true.
Swept ==
  \A c \in Procs : Active(c) /\ proc[c].at \in {"deleteOther", "saveRemoval"} =>
    /\ Clean(proc[c].store, proc[c].n)
    /\ proc[c].at = "saveRemoval" /\ proc[c].err = "swept" => Clean(Other(proc[c].store), proc[c].n)

\* A command that would take the mark off has asked.
Asked ==
  \A c \in Procs :
    Active(c) /\ proc[c].at # "consent" /\ proc[c].n \in proc[c].cfg.ro /\ ~proc[c].ro => proc[c].yes

Tidy == Unstranded /\ Swept

LEMMA DeletedClean ==
  ASSUME Types, NEW s \in Stores, NEW n \in Names, NEW d \in Sweeps(s), Delete(s, n, d)
  PROVE  /\ \A t \in Stores, m \in Names : Clean(t, m) => Clean(t, m)'
         /\ d.err = "none" => Clean(s, n)'
<1>1. secrets' = [secrets EXCEPT ![s] = @ \ ({n} \X (Kinds \ d.left))]
  BY DEF Delete
<1>2. \A t \in Stores : secrets'[t] \subseteq secrets[t]
  BY <1>1 DEF Types
<1>3. ASSUME d.err = "none" PROVE Clean(s, n)'
  <2>1. d.left = {}
    BY <1>3 DEF Sweeps, Deletions, Failures
  <2>2. secrets'[s] = secrets[s] \ ({n} \X Kinds)
    BY <1>1, <2>1 DEF Types
  <2> QED BY <2>2 DEF Clean, Of
<1> QED BY <1>2, <1>3 DEF Clean, Of

\* A command that has ended owes nothing if it held nothing.
LEMMA EndedTidy ==
  ASSUME Alone, Unstranded, NEW c \in Procs, ~Active(c)',
         UNCHANGED <<config, warned, lost>>,
         \A t \in Stores, m \in Names : Clean(t, m) => Clean(t, m)',
         \A t \in Stores, m \in Names : ~InHand(c, t, m)
  PROVE  Tidy'
<1>1. \A d \in Procs : d = c
  BY DEF Alone
<1>2. Unstranded'
  BY <1>1 DEF Unstranded
<1>3. Swept'
  BY <1>1 DEF Swept
<1> QED BY <1>2, <1>3 DEF Tidy

LEMMA StartTidy ==
  ASSUME Alone, Reach, Unstranded, NEW c \in Procs, NEW n \in Names,
         Add(c, n) \/ Remove(c, n) \/ Use(c, n) \/ ReadOnly(c, n)
  PROVE  Tidy'
<1>1. \A d \in Procs : d = c
  BY DEF Alone
<1>2. /\ UNCHANGED <<config, secrets, warned, lost>> /\ ~Active(c)
      /\ \E cmd \in {"add", "remove", "use", "readonly"}, at \in {"consent", "verify", "save"},
            ro \in BOOLEAN : Start(c, cmd, n, at, ro) /\ (at = "save" => cmd # "add")
  <2>1. UNCHANGED <<config, secrets, warned, lost>> /\ ~Active(c)
    BY DEF Add, Remove, Use, ReadOnly, Active
  <2>2. CASE Add(c, n)
    BY <2>1, <2>2 DEF Add
  <2>3. CASE Remove(c, n)
    BY <2>1, <2>3 DEF Remove
  <2>4. CASE Use(c, n)
    <3>1. Start(c, "use", n, "save", n \in config.ro) /\ (n \in config.ro) \in BOOLEAN
      BY <2>4 DEF Use
    <3> QED BY <2>1, <3>1
  <2>5. CASE ReadOnly(c, n)
    BY <2>1, <2>5 DEF ReadOnly
  <2> QED BY <2>2, <2>3, <2>4, <2>5
<1>3. /\ proc'[c].at \in {"consent", "verify", "save"}
      /\ proc'[c].at = "save" => proc'[c].cmd # "add"
  BY <1>2, Started DEF Reach, Places
<1>4. Unstranded'
  BY <1>1, <1>2 DEF Unstranded, InHand, Clean, Of
<1>5. Swept'
  BY <1>1, <1>3 DEF Swept
<1> QED BY <1>4, <1>5 DEF Tidy

LEMMA ConsentTidy ==
  ASSUME Alone, Reach, Unstranded, NEW c \in Procs, Consent(c) \/ Verify(c) \/ Switch(c)
  PROVE  Tidy'
<1>1. \A d \in Procs : d = c
  BY DEF Alone
<1>2. /\ UNCHANGED <<config, secrets, lost>> /\ warned \subseteq warned'
      /\ proc[c].at \in {"consent", "verify", "failed"} /\ Active(c) /\ proc[c] \in Commands
  BY DEF Consent, Verify, Switch, Goto, Active, Idle, Reach, Types
<1>3. \A t \in Stores, m \in Names : ~InHand(c, t, m)
  BY <1>2 DEF InHand
<1>4. \A m \in Names \ (config'.names \cup warned') : \A s \in Stores : Clean(s, m)'
  BY <1>1, <1>2, <1>3 DEF Unstranded, Clean, Of
<1>5. Swept'
  <2>1. CASE Active(c)'
    <3>1. \E to \in {"verify", "save", "deleteOwn", "password"} : proc'[c].at = to
      <4>1. CASE Consent(c)
        <5>1. ~End(c)
          BY <2>1, Ended DEF Reach
        <5>2. PICK to \in {"verify", "save", "deleteOwn"} :
                proc' = [proc EXCEPT ![c].yes = TRUE, ![c].at = to]
          BY <4>1, <5>1 DEF Consent
        <5> QED BY <1>2, <5>2 DEF Reach, Types, Commands
      <4>2. CASE Verify(c)
        <5>1. Goto(c, "password")
          BY <2>1, <4>2, Ended DEF Verify, Reach
        <5> QED BY <1>2, <5>1, Went DEF Reach, Places
      <4>3. CASE Switch(c)
        <5>1. proc' = [proc EXCEPT ![c].switched = TRUE, ![c].store = "file", ![c].at = "password"]
          BY <2>1, <4>3, Ended DEF Switch, Reach
        <5> QED BY <1>2, <5>1 DEF Reach, Types, Commands
      <4> QED BY <4>1, <4>2, <4>3
    <3> QED BY <1>1, <3>1 DEF Swept
  <2>2. CASE ~Active(c)'
    BY <1>1, <2>2 DEF Swept
  <2> QED BY <2>1, <2>2
<1> QED BY <1>4, <1>5 DEF Tidy, Unstranded

LEMMA SetTidy ==
  ASSUME Alone, Reach, Unstranded, NEW c \in Procs, SetPassword(c) \/ SetAPIKey(c)
  PROVE  Tidy'
<1> DEFINE p == proc[c]
<1>0. /\ Active(c) /\ p.at \in {"password", "apiKey"} /\ p.cmd = "add" /\ p \in Commands
      /\ UNCHANGED <<config, warned, lost>> /\ \A d \in Procs : d = c
  BY DEF SetPassword, SetAPIKey, Active, Idle, Alone, Reach, Types, Course, AddPlaces
<1>1. PICK kind \in Kinds, then \in {"apiKey", "save"}, else \in {"failed", "rollback"} :
        /\ Set(c, kind, then, else)
        /\ p.at = "apiKey" => else = "rollback"
  <2>1. CASE SetPassword(c)
    BY <2>1 DEF SetPassword, Kinds
  <2>2. CASE SetAPIKey(c)
    BY <2>2 DEF SetAPIKey, Kinds
  <2> QED BY <2>1, <2>2
<1>2. CASE /\ secrets' = [secrets EXCEPT ![p.store] = @ \cup {<<p.n, kind>>}]
           /\ Goto(c, then)
  <2>1. /\ proc'[c] \in Commands /\ Same(p, proc'[c]) /\ proc'[c].at = then
        /\ proc'[c].store = p.store
    BY <1>0, <1>2, Went DEF Reach, Places
  <2>2. Active(c)'
    BY <2>1, IdleIsNoCommand DEF Active
  <2>3. p.store \in Stores /\ p.n \in Names
    BY <1>0 DEF Commands
  <2>4. secrets'[p.store] = secrets[p.store] \cup {<<p.n, kind>>}
    BY <1>2, <2>3 DEF Reach, Types
  <2>5. \A t \in Stores : t # p.store => secrets'[t] = secrets[t]
    BY <1>2, <2>3 DEF Reach, Types
  <2>6. \A t \in Stores, m \in Names : m # p.n \/ t # p.store => (Clean(t, m) => Clean(t, m)')
    BY <2>4, <2>5 DEF Clean, Of
  <2>7. ASSUME NEW s \in Stores, NEW m \in Names, s = p.store, m = p.n
        PROVE  InHand(c, s, m)'
    BY <1>0, <2>1, <2>2, <2>7 DEF InHand, Same
  <2>8. Unstranded'
    <3> SUFFICES ASSUME NEW m \in Names \ (config.names \cup warned), NEW s \in Stores
                 PROVE  Clean(s, m)' \/ InHand(c, s, m)'
      BY <1>0 DEF Unstranded
    <3>1. CASE s = p.store /\ m = p.n
      BY <2>7, <3>1
    <3>2. CASE ~(s = p.store /\ m = p.n)
      <4>1. ~InHand(c, s, m)
        BY <3>2 DEF InHand
      <4>2. Clean(s, m)
        BY <1>0, <4>1 DEF Unstranded
      <4> QED BY <2>6, <3>2, <4>2
    <3> QED BY <3>1, <3>2
  <2>9. Swept'
    BY <1>0, <2>1 DEF Swept
  <2> QED BY <2>8, <2>9 DEF Tidy
<1>3. CASE /\ \E e \in Failures(p.store) : proc' = [proc EXCEPT ![c].at = else, ![c].err = e]
           /\ UNCHANGED secrets
  <2>1. PICK e \in Errors : proc' = [proc EXCEPT ![c].at = else, ![c].err = e]
    BY <1>3 DEF Failures, Errors
  <2>2. /\ proc'[c] \in Commands /\ Same(p, proc'[c]) /\ proc'[c].at = else
        /\ proc'[c].store = p.store
    BY <1>0, <2>1, WentOnError DEF Reach, Places
  <2>3. Active(c)'
    BY <2>2, IdleIsNoCommand DEF Active
  <2>4. \A s \in Stores, m \in Names : InHand(c, s, m) => InHand(c, s, m)'
    BY <1>0, <1>1, <2>2, <2>3 DEF InHand, Same
  <2>5. \A s \in Stores, m \in Names : Clean(s, m) => Clean(s, m)'
    BY <1>3 DEF Clean, Of
  <2>6. Unstranded'
    BY <1>0, <2>4, <2>5 DEF Unstranded
  <2>7. Swept'
    BY <1>0, <2>2 DEF Swept
  <2> QED BY <2>6, <2>7 DEF Tidy
<1> QED BY <1>1, <1>2, <1>3 DEF Set

LEMMA SaveTidy ==
  ASSUME Alone, Reach, Unstranded, NEW c \in Procs, Save(c)
  PROVE  Tidy'
<1> DEFINE p == proc[c]
<1>0. /\ Active(c) /\ p.at = "save" /\ p \in Commands /\ p.cfg = config
      /\ UNCHANGED secrets /\ \A d \in Procs : d = c
  BY DEF Save, Active, Idle, Alone, Reach, Types, Current
<1>1. \A s \in Stores, m \in Names : Clean(s, m) => Clean(s, m)'
  BY <1>0 DEF Clean, Of
<1>2. CASE /\ config' = Upsert(p)
           /\ IF p.switched THEN Goto(c, "sweep") ELSE End(c)
           /\ warned' = IF p.cmd = "add" THEN (warned \ {p.n}) \cup Elsewhere(p) ELSE warned
           /\ lost' = IF p.cmd = "add" THEN lost \ {p.n} ELSE lost
  <2>1. config'.names = config.names \cup {p.n}
    BY <1>0, <1>2 DEF Upsert
  <2>2. \A m \in Names \ (config'.names \cup warned') : m \notin config.names /\ m \notin warned /\ m # p.n
    BY <1>2, <2>1
  <2>3. \A m \in Names \ (config'.names \cup warned') : \A s \in Stores : Clean(s, m)'
    BY <1>0, <1>1, <2>2 DEF Unstranded, InHand
  <2>4. Swept'
    <3>1. CASE p.switched
      <4>1. proc'[c].at = "sweep"
        BY <1>0, <1>2, <3>1, Went DEF Reach, Places
      <4> QED BY <1>0, <4>1 DEF Swept
    <3>2. CASE ~p.switched
      <4>1. ~Active(c)'
        BY <1>2, <3>2, Ended DEF Reach
      <4> QED BY <1>0, <4>1 DEF Swept
    <3> QED BY <3>1, <3>2
  <2> QED BY <2>3, <2>4 DEF Tidy, Unstranded
<1>3. CASE /\ IF p.cmd = "add" THEN proc' = [proc EXCEPT ![c].at = "rollback", ![c].err = "refused"] ELSE End(c)
           /\ UNCHANGED <<config, warned, lost>>
  <2>1. CASE p.cmd = "add"
    <3>1. /\ proc'[c] \in Commands /\ Same(p, proc'[c]) /\ proc'[c].at = "rollback"
          /\ proc'[c].store = p.store
      BY <1>0, <1>3, <2>1, WentOnError DEF Reach, Places, Errors
    <3>2. Active(c)'
      BY <3>1, IdleIsNoCommand DEF Active
    <3>3. \A s \in Stores, m \in Names : InHand(c, s, m) => InHand(c, s, m)'
      BY <3>1, <3>2 DEF InHand, Same
    <3>4. Unstranded'
      BY <1>0, <1>1, <1>3, <3>3 DEF Unstranded
    <3>5. Swept'
      BY <1>0, <3>1 DEF Swept
    <3> QED BY <3>4, <3>5 DEF Tidy
  <2>2. CASE p.cmd # "add"
    <3>1. ~Active(c)'
      BY <1>3, <2>2, Ended DEF Reach
    <3>2. \A s \in Stores, m \in Names : ~InHand(c, s, m)
      BY <2>2 DEF InHand
    <3> QED BY <1>1, <1>3, <3>1, <3>2, EndedTidy
  <2> QED BY <2>1, <2>2
<1> QED BY <1>2, <1>3 DEF Save

LEMMA RollbackTidy ==
  ASSUME Alone, Reach, Unstranded, NEW c \in Procs, Rollback(c)
  PROVE  Tidy'
<1> DEFINE p == proc[c]
<1>0. /\ Active(c) /\ p.at = "rollback" /\ p \in Commands /\ UNCHANGED config
      /\ \A d \in Procs : d = c
  BY DEF Rollback, Active, Idle, Alone, Reach, Types
<1>1. PICK d \in Deletions(p.store) :
       /\ Delete(p.store, p.n, d)
       /\ proc' = [proc EXCEPT ![c].at = "failed", ![c].err = Joined(p.err, d.err)]
       /\ warned' = IF d.err # "none" THEN warned \cup {p.n} ELSE warned
       /\ lost' = IF p.n \in p.cfg.names /\ p.store = Looks(p.cfg) THEN lost \cup {p.n} ELSE lost
  BY DEF Rollback
<1>2. p.store \in Stores /\ p.n \in Names /\ d \in Sweeps(p.store)
  BY <1>0 DEF Commands, Sweeps
<1>3. /\ \A t \in Stores, m \in Names : Clean(t, m) => Clean(t, m)'
      /\ d.err = "none" => \A t \in Stores, m \in Names : t = p.store /\ m = p.n => Clean(t, m)'
  <2>1. PICK t \in Stores, m \in Names : t = p.store /\ m = p.n
    BY <1>2
  <2>2. d \in Sweeps(t) /\ Delete(t, m, d) /\ Types
    BY <1>1, <1>2, <2>1 DEF Reach
  <2> QED BY <2>1, <2>2, DeletedClean
<1>4. \A m \in Names \ (config'.names \cup warned') : \A s \in Stores : Clean(s, m)'
  <2> SUFFICES ASSUME NEW m \in Names \ (config.names \cup warned'), NEW s \in Stores
               PROVE  Clean(s, m)'
    BY <1>0
  <2>1. m \in Names \ (config.names \cup warned)
    BY <1>1
  <2>2. CASE InHand(c, s, m)
    <3>1. m = p.n /\ s = p.store
      BY <2>2 DEF InHand
    <3>2. d.err = "none"
      BY <1>1, <3>1
    <3> QED BY <1>3, <3>1, <3>2
  <2>3. CASE ~InHand(c, s, m)
    BY <1>0, <1>3, <2>1, <2>3 DEF Unstranded
  <2> QED BY <2>2, <2>3
<1>5. Swept'
  <2>1. proc'[c].at = "failed"
    BY <1>0, <1>1 DEF Reach, Types, Commands
  <2> QED BY <1>0, <2>1 DEF Swept
<1> QED BY <1>4, <1>5 DEF Tidy, Unstranded

LEMMA SweepTidy ==
  ASSUME Alone, Reach, Unstranded, NEW c \in Procs, SweepPrevious(c)
  PROVE  Tidy'
<1> DEFINE p == proc[c]
<1>1. /\ Active(c) /\ p.at = "sweep" /\ p \in Commands /\ End(c) /\ UNCHANGED <<config, warned, lost>>
  BY DEF SweepPrevious, Active, Idle, Reach, Types
<1>2. PICK d \in Sweeps("keyring") : Delete("keyring", p.n, d)
  BY DEF SweepPrevious
<1>3. \A t \in Stores, m \in Names : Clean(t, m) => Clean(t, m)'
  BY <1>1, <1>2, DeletedClean DEF Reach, Commands, Stores
<1>4. ~Active(c)' /\ \A s \in Stores, m \in Names : ~InHand(c, s, m)
  BY <1>1, Ended DEF Reach, InHand
<1> QED BY <1>1, <1>3, <1>4, EndedTidy

LEMMA DeleteTidy ==
  ASSUME Alone, Reach, Tidy, NEW c \in Procs, DeleteOwn(c) \/ DeleteOther(c)
  PROVE  Tidy'
<1> DEFINE p == proc[c]
<1>0. /\ Active(c) /\ p.at \in RemovePlaces /\ p \in Commands /\ p.cmd = "remove"
      /\ UNCHANGED <<config, warned, lost>> /\ \A d \in Procs : d = c
  BY DEF DeleteOwn, DeleteOther, Active, Idle, Alone, Reach, Types, Course, RemovePlaces
<1>1. p.n \in Names /\ p.store \in Stores /\ Other(p.store) \in Stores
  BY <1>0, OtherStore DEF Commands, Stores
<1>2. \A s \in Stores, m \in Names : ~InHand(c, s, m)
  BY <1>0 DEF InHand
<1> PICK own \in Stores, other \in Stores, n \in Names :
      own = p.store /\ other = Other(p.store) /\ n = p.n
  BY <1>1
<1>3. CASE DeleteOwn(c)
  <2>1. PICK d \in Deletions(p.store) :
          Delete(own, n, d) /\ IF d.err = "none" THEN Goto(c, "deleteOther") ELSE End(c)
    BY <1>3 DEF DeleteOwn
  <2>2. /\ \A t \in Stores, m \in Names : Clean(t, m) => Clean(t, m)'
        /\ d.err = "none" => Clean(own, n)'
    BY <2>1, DeletedClean DEF Reach, Sweeps
  <2>3. CASE d.err = "none"
    <3>1. Same(p, proc'[c]) /\ proc'[c].at = "deleteOther" /\ proc'[c].store = p.store
      BY <1>0, <2>1, <2>3, Went DEF Reach, Places
    <3>2. Swept'
      BY <1>0, <2>2, <2>3, <3>1 DEF Swept, Same
    <3>3. Unstranded'
      BY <1>0, <1>2, <2>2 DEF Tidy, Unstranded
    <3> QED BY <3>2, <3>3 DEF Tidy
  <2>4. CASE d.err # "none"
    BY <1>0, <1>2, <2>1, <2>2, <2>4, Ended, EndedTidy DEF Reach, Tidy
  <2> QED BY <2>3, <2>4
<1>4. CASE DeleteOther(c)
  <2>1. PICK d \in Sweeps(other) :
          /\ Delete(other, n, d)
          /\ proc' = [proc EXCEPT ![c].at = "saveRemoval", ![c].err = Outcome(d)]
    BY <1>4 DEF DeleteOther
  <2>2. /\ \A t \in Stores, m \in Names : Clean(t, m) => Clean(t, m)'
        /\ d.err = "none" => Clean(other, n)'
    BY <2>1, DeletedClean DEF Reach
  <2>3. Outcome(d) \in Errors /\ (Outcome(d) = "swept" => d.err = "none")
    BY DEF Outcome, Errors
  <2>4. /\ Same(p, proc'[c]) /\ proc'[c].at = "saveRemoval" /\ proc'[c].store = p.store
        /\ proc'[c].err = Outcome(d)
    BY <1>0, <2>1, <2>3, WentOnError DEF Reach, Places
  <2>5. Clean(own, n)
    BY <1>0, <1>4 DEF Tidy, Swept, DeleteOther
  <2>6. Swept'
    BY <1>0, <1>1, <2>2, <2>3, <2>4, <2>5 DEF Swept, Same
  <2>7. Unstranded'
    BY <1>0, <1>2, <2>2 DEF Tidy, Unstranded
  <2> QED BY <2>6, <2>7 DEF Tidy
<1> QED BY <1>3, <1>4

LEMMA SaveRemovalTidy ==
  ASSUME Alone, Reach, Tidy, NEW c \in Procs, SaveRemoval(c)
  PROVE  Tidy'
<1> DEFINE p == proc[c]
<1>0. /\ Active(c) /\ p.at = "saveRemoval" /\ p \in Commands /\ p.cfg = config /\ End(c)
      /\ UNCHANGED secrets /\ p.n \in warned /\ \A d \in Procs : d = c
  BY DEF SaveRemoval, Active, Idle, Alone, Reach, Types, Current, Course, RemovePlaces
<1>1. ~Active(c)' /\ \A s \in Stores, m \in Names : ~InHand(c, s, m)
  BY <1>0, Ended DEF Reach, InHand
<1>2. \A t \in Stores, m \in Names : Clean(t, m) => Clean(t, m)'
  BY <1>0 DEF Clean, Of
<1>3. CASE /\ config' = Without(p) /\ lost' = lost \ {p.n}
           /\ warned' = IF p.err = "swept" THEN warned \ {p.n} ELSE warned
  <2>1. config'.names = config.names \ {p.n}
    BY <1>0, <1>3 DEF Without, Reach, Types, Configs
  <2>2. p.err = "swept" => \A s \in Stores : Clean(s, p.n)
    BY <1>0, OtherStore DEF Tidy, Swept, Stores, Commands
  <2>3. ASSUME NEW m \in Names \ (config'.names \cup warned'), NEW s \in Stores
        PROVE  Clean(s, m)'
    <3>1. CASE m = p.n
      <4>1. p.err = "swept"
        BY <1>0, <1>3, <2>3, <3>1
      <4> QED BY <1>2, <2>2, <3>1, <4>1
    <3>2. CASE m # p.n
      <4>1. m \in Names \ (config.names \cup warned)
        BY <1>3, <2>1, <2>3, <3>2
      <4> QED BY <1>0, <1>1, <1>2, <4>1 DEF Tidy, Unstranded
    <3> QED BY <3>1, <3>2
  <2>4. Swept'
    BY <1>0, <1>1 DEF Swept
  <2> QED BY <2>3, <2>4 DEF Tidy, Unstranded
<1>4. CASE UNCHANGED <<config, warned, lost>>
  BY <1>1, <1>2, <1>4, EndedTidy DEF Tidy
<1> QED BY <1>3, <1>4 DEF SaveRemoval

LEMMA CrashTidy ==
  ASSUME Alone, Reach, Unstranded, NEW c \in Procs, Crash(c)
  PROVE  Tidy'
<1>1. /\ Active(c) /\ End(c) /\ UNCHANGED <<config, secrets, lost>> /\ \A d \in Procs : d = c
  BY DEF Crash, Active, Alone
<1>2. ~Active(c)'
  BY <1>1, Ended DEF Reach
<1>3. \A t \in Stores, m \in Names : Clean(t, m) => Clean(t, m)'
  BY <1>1 DEF Clean, Of
<1>4. ASSUME NEW m \in Names \ (config'.names \cup warned'), NEW s \in Stores
      PROVE  Clean(s, m)'
  <2>1. m \in Names \ (config.names \cup warned)
    BY <1>1, <1>4 DEF Crash
  <2>2. ~InHand(c, s, m)
    BY <1>4 DEF InHand, Crash
  <2> QED BY <1>1, <1>3, <2>1, <2>2 DEF Unstranded
<1>5. Swept'
  BY <1>1, <1>2 DEF Swept
<1> QED BY <1>4, <1>5 DEF Tidy, Unstranded

LEMMA TidyPreserved ==
  ASSUME Alone, Reach, Tidy, [Next]_vars
  PROVE  Tidy'
<1>0. Unstranded
  BY DEF Tidy
<1>1. CASE UNCHANGED vars
  BY <1>1 DEF vars, Tidy, Unstranded, Swept, InHand, Active, Clean, Of
<1>2. ASSUME NEW c \in Procs, NEW n \in Names, Add(c, n) \/ Remove(c, n) \/ Use(c, n) \/ ReadOnly(c, n)
      PROVE  Tidy'
  BY <1>0, <1>2, StartTidy
<1>3. ASSUME NEW c \in Procs,
             \/ Consent(c) \/ Verify(c) \/ SetPassword(c) \/ SetAPIKey(c) \/ Save(c) \/ Rollback(c)
             \/ Switch(c) \/ SweepPrevious(c) \/ DeleteOwn(c) \/ DeleteOther(c) \/ SaveRemoval(c)
             \/ Crash(c)
      PROVE  Tidy'
  BY <1>0, <1>3, ConsentTidy, SetTidy, SaveTidy, RollbackTidy, SweepTidy, DeleteTidy,
     SaveRemovalTidy, CrashTidy
<1> QED BY <1>1, <1>2, <1>3 DEF Next

\* Between commands a credential of a name no project has is there only with the user's
\* knowledge: what an add that failed stored, it has taken back, and a removal that says
\* so has left none in either store (rollbackSecrets, sweepOtherStore, sweepPreviousStore).
THEOREM NothingIsStranded ==
  Alone => (Spec => []NothingStranded)
<1>1. SUFFICES ASSUME Alone PROVE Spec => []NothingStranded
  OBVIOUS
<1>2. Init => Reach /\ Tidy
  BY Begin DEF Init, Tidy, Unstranded, Swept, Active, Clean
<1>3. Reach /\ Tidy /\ [Next]_vars => Reach' /\ Tidy'
  BY <1>1, Preserved, TidyPreserved
<1>4. Tidy => NothingStranded
  BY DEF Tidy, Unstranded, NothingStranded, InHand, Active, Clean
<1> QED BY <1>2, <1>3, <1>4, PTL DEF Spec

----------------------------------------------------------------------------
\* A command under way keeps what it is about, and the answer it was given.
LEMMA Onward ==
  ASSUME Reach, NEW c \in Procs, Active(c)',
         \/ Verify(c) \/ SetPassword(c) \/ SetAPIKey(c) \/ Save(c) \/ Rollback(c) \/ Switch(c)
         \/ SweepPrevious(c) \/ DeleteOwn(c) \/ DeleteOther(c) \/ SaveRemoval(c) \/ Crash(c)
  PROVE  /\ Active(c) /\ proc[c].at # "consent"
         /\ Same(proc[c], proc'[c]) /\ proc'[c].yes = proc[c].yes
<1>1. /\ Active(c) /\ proc[c] \in Commands /\ Types /\ ~End(c)
  BY Ended DEF Verify, SetPassword, SetAPIKey, Set, Save, Rollback, Switch, SweepPrevious,
     DeleteOwn, DeleteOther, SaveRemoval, Crash, Active, Idle, Reach, Types
<1>2. CASE Verify(c) \/ SetPassword(c) \/ SetAPIKey(c) \/ Save(c) \/ DeleteOwn(c) \/ DeleteOther(c)
  <2>1. proc[c].at # "consent"
    BY <1>2 DEF Verify, SetPassword, SetAPIKey, Save, DeleteOwn, DeleteOther
  <2>2. \E to \in Places : Goto(c, to) \/ \E e \in Errors : proc' = [proc EXCEPT ![c].at = to, ![c].err = e]
    <3>1. CASE Verify(c)
      BY <1>1, <3>1 DEF Verify, Places
    <3>2. CASE SetPassword(c) \/ SetAPIKey(c)
      BY <3>2 DEF SetPassword, SetAPIKey, Set, Failures, Places, Errors
    <3>3. CASE Save(c)
      BY <1>1, <3>3 DEF Save, Places, Errors
    <3>4. CASE DeleteOwn(c)
      BY <1>1, <3>4 DEF DeleteOwn, Places
    <3>5. CASE DeleteOther(c)
      <4>1. \A d : Outcome(d) \in Errors
        BY DEF Outcome, Errors
      <4> QED BY <3>5, <4>1 DEF DeleteOther, Places
    <3> QED BY <1>2, <3>1, <3>2, <3>3, <3>4, <3>5
  <2> QED BY <1>1, <2>1, <2>2, Went, WentOnError
<1>3. CASE Rollback(c)
  <2>1. PICK d \in Deletions(proc[c].store) :
          proc' = [proc EXCEPT ![c].at = "failed", ![c].err = Joined(proc[c].err, d.err)]
    BY <1>3 DEF Rollback
  <2>2. d.err \in Errors /\ proc[c].err \in Errors
    BY <1>1, Deleted DEF Errors, Commands, Sweeps
  <2>3. Joined(proc[c].err, d.err) \in Errors
    BY <2>2, JoinedIsAnError
  <2> QED BY <1>1, <1>3, <2>1, <2>3, WentOnError DEF Rollback, Places
<1>4. CASE Switch(c)
  <2> DEFINE q == [proc[c] EXCEPT !.switched = TRUE, !.store = "file", !.at = "password"]
  <2>1. proc' = [proc EXCEPT ![c] = q] /\ proc[c].at = "failed"
    BY <1>1, <1>4 DEF Switch
  <2>2. Same(proc[c], q) /\ q.yes = proc[c].yes
    BY <1>1 DEF Commands, Same
  <2> HIDE DEF q
  <2>3. proc'[c] = q
    BY <1>1, <2>1 DEF Types
  <2> QED BY <1>1, <2>1, <2>2, <2>3
<1>5. CASE SweepPrevious(c) \/ SaveRemoval(c) \/ Crash(c)
  BY <1>1, <1>5 DEF SweepPrevious, SaveRemoval, Crash
<1> QED BY <1>2, <1>3, <1>4, <1>5

LEMMA AskedPreserved ==
  ASSUME Alone, Reach, Asked, [Next]_vars
  PROVE  Asked'
<1>1. CASE UNCHANGED vars
  BY <1>1 DEF vars, Asked, Active
<1>2. ASSUME NEW c \in Procs, NEW n \in Names, Add(c, n) \/ Remove(c, n) \/ Use(c, n) \/ ReadOnly(c, n)
      PROVE  Asked'
  <2>1. \A d \in Procs : d = c
    BY DEF Alone
  <2>2. PICK cmd \in {"add", "remove", "use", "readonly"}, at \in {"consent", "verify", "save"},
             ro \in BOOLEAN :
          Start(c, cmd, n, at, ro) /\ (at = "consent" \/ (n \in config.ro => ro))
    <3>1. n \in config.ro => n \in config.names
      BY DEF Reach, Types
    <3>2. CASE Add(c, n)
      <4>1. PICK flag \in {"none", "on", "off"} :
              LET was == n \in config.names /\ n \in config.ro IN
              Start(c, "add", n, IF was /\ flag = "off" THEN "consent" ELSE "verify",
                    flag = "on" \/ (was /\ flag = "none"))
        BY <3>2 DEF Add
      <4> QED BY <3>1, <4>1
    <3>3. CASE Remove(c, n)
      BY <3>3 DEF Remove
    <3>4. CASE Use(c, n)
      <4>1. Start(c, "use", n, "save", n \in config.ro) /\ (n \in config.ro) \in BOOLEAN
        BY <3>4 DEF Use
      <4> QED BY <4>1
    <3>5. CASE ReadOnly(c, n)
      BY <3>5 DEF ReadOnly
    <3> QED BY <1>2, <3>2, <3>3, <3>4, <3>5
  <2>3. /\ proc'[c].n = n /\ proc'[c].at = at /\ proc'[c].ro = ro /\ proc'[c].cfg = config
    BY <2>2, Started DEF Reach, Places, Fresh
  <2> QED BY <2>1, <2>2, <2>3 DEF Asked
<1>3. ASSUME NEW c \in Procs, Consent(c)
      PROVE  Asked'
  <2>1. \A d \in Procs : d = c
    BY DEF Alone
  <2>2. CASE Active(c)'
    <3>1. ~End(c) /\ proc[c] \in Commands
      BY <1>3, <2>2, Ended DEF Reach, Types, Consent, Idle
    <3>2. \E to \in {"verify", "save", "deleteOwn"} :
             proc' = [proc EXCEPT ![c].yes = TRUE, ![c].at = to]
      BY <1>3, <3>1 DEF Consent
    <3>3. proc'[c].yes = TRUE
      BY <3>1, <3>2 DEF Reach, Types, Commands
    <3> QED BY <2>1, <3>3 DEF Asked
  <2>3. CASE ~Active(c)'
    BY <2>1, <2>3 DEF Asked
  <2> QED BY <2>2, <2>3
<1>4. ASSUME NEW c \in Procs,
             \/ Verify(c) \/ SetPassword(c) \/ SetAPIKey(c) \/ Save(c) \/ Rollback(c) \/ Switch(c)
             \/ SweepPrevious(c) \/ DeleteOwn(c) \/ DeleteOther(c) \/ SaveRemoval(c) \/ Crash(c)
      PROVE  Asked'
  <2>1. \A d \in Procs : d = c
    BY DEF Alone
  <2>2. Active(c)' => /\ Active(c) /\ proc[c].at # "consent"
                      /\ Same(proc[c], proc'[c]) /\ proc'[c].yes = proc[c].yes
    BY <1>4, Onward
  <2> QED BY <2>1, <2>2 DEF Asked, Same
<1> QED BY <1>1, <1>2, <1>3, <1>4 DEF Next

\* Only a save changes which projects are read-only, and it changes its own project's mark.
LEMMA MarkComesOff ==
  ASSUME Reach, Asked, [Next]_vars, NEW n \in config.ro \ config'.ro
  PROVE  \E c \in Procs : proc[c] # Idle /\ proc[c].n = n /\ proc[c].yes
<1>1. config' # config
  OBVIOUS
<1>2. PICK c \in Procs : Save(c) \/ SaveRemoval(c)
  BY <1>1 DEF Next, vars, Add, Remove, Use, ReadOnly, Consent, Verify, SetPassword, SetAPIKey, Rollback,
     Switch, SweepPrevious, DeleteOwn, DeleteOther, Crash
<1>3. /\ Active(c) /\ proc[c] \in Commands /\ proc[c].cfg = config
      /\ proc[c].at \in {"save", "saveRemoval"}
  BY <1>2 DEF Save, SaveRemoval, Active, Idle, Reach, Types, Current
<1>4. CASE Save(c)
  <2>1. config' = Upsert(proc[c])
    BY <1>1, <1>4 DEF Save
  <2>2. config'.ro = (IF proc[c].ro THEN config.ro \cup {proc[c].n} ELSE config.ro \ {proc[c].n})
    BY <1>3, <2>1 DEF Upsert
  <2>3. proc[c].n = n /\ ~proc[c].ro
    BY <2>2
  <2>4. proc[c].yes
    BY <1>3, <2>3 DEF Asked
  <2> QED BY <1>3, <2>3, <2>4 DEF Active
<1>5. CASE SaveRemoval(c)
  <2>1. config' = Without(proc[c]) /\ proc[c].at = "saveRemoval"
    BY <1>1, <1>5 DEF SaveRemoval
  <2>2. config'.ro = config.ro \ {proc[c].n}
    BY <1>3, <2>1 DEF Without, Reach, Types, Configs
  <2>3. proc[c].n = n /\ proc[c].yes
    BY <1>3, <2>1, <2>2 DEF Reach, Course, RemovePlaces
  <2> QED BY <1>3, <2>3 DEF Active
<1> QED BY <1>2, <1>4, <1>5

\* The read-only mark of a project comes off only by a command on that project which was
\* answered yes (runProjectAdd, runProjectUse, runProjectReadOnly, confirmWritable).
THEOREM MarkNeedsConsent ==
  Alone => (Spec => ReadOnlyComesOffByConsent)
<1>1. SUFFICES ASSUME Alone PROVE Spec => ReadOnlyComesOffByConsent
  OBVIOUS
<1> DEFINE A == \A n \in config.ro \ config'.ro :
                  \E c \in Procs : proc[c] # Idle /\ proc[c].n = n /\ proc[c].yes
<1>2. Init => Reach /\ Asked
  BY Begin DEF Init, Asked, Active
<1>3. Reach /\ Asked /\ [Next]_vars => Reach' /\ Asked'
  BY <1>1, Preserved, AskedPreserved
<1>4. Reach /\ Asked /\ [Next]_vars => [A]_config
  BY MarkComesOff
<1> QED BY <1>2, <1>3, <1>4, PTL DEF Spec, ReadOnlyComesOffByConsent
============================================================================
