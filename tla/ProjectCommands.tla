--------------------------- MODULE ProjectCommands ---------------------------
(***************************************************************************)
(* `fft project add`, `remove`, `use` and `read-only` (cmd/fft): what they *)
(* do to the config file and to the two credential stores, the keychain    *)
(* and the 0600 file.  There is no transaction over the three: a command   *)
(* orders its writes so that a failure, or its own death, half-way does    *)
(* the least harm, and says what it could not do.  A command reads the     *)
(* config file once, when it starts, and saves it whole.                   *)
(*                                                                         *)
(* A command process runs one command after another; with one of them, a   *)
(* session whose runner lets these commands run alone; with two, two shells.*)
(***************************************************************************)
EXTENDS Naturals, FiniteSets

CONSTANTS Procs,  \* the processes that run project commands
          Names   \* the names projects can have

VARIABLES
  config,   \* the config file: the projects, the read-only ones, settings.noKeyring
  secrets,  \* each store's entries
  proc,     \* each process's command
  warned,   \* history: the names whose credentials the user knows not to be where fft looks
  lost      \* history: the configured names whose credentials a failed add took, and did not say so

vars == <<config, secrets, proc, warned, lost>>

Kinds  == {"password", "apiKey"}
Stores == {"keyring", "file"}
Other(s) == CHOOSE t \in Stores : t # s

\* A keychain is missing, or there and says no; a file can only say no.
Failures(s) == IF s = "keyring" THEN {"absent", "refused"} ELSE {"refused"}

Idle == [at |-> "idle"]
Init ==
  /\ config = [names |-> {}, ro |-> {}, file |-> FALSE]
  /\ secrets = [s \in Stores |-> {}]
  /\ proc = [c \in Procs |-> Idle] /\ warned = {} /\ lost = {}

Of(n) == {n} \X Kinds
Complete(s, n) == Of(n) \subseteq secrets[s]
Looks(cfg) == IF cfg.file THEN "file" ELSE "keyring"

Goto(c, to) == proc' = [proc EXCEPT ![c].at = to]
End(c)      == proc' = [proc EXCEPT ![c] = Idle]

------------------------------------------------------------------------------
(* Deleting and storing secrets.                                           *)

\* errors.Join of what failed: errors.Is finds the sentinel in any member.
Joined(e, f) == IF e = f THEN e ELSE IF "none" \in {e, f} THEN CHOOSE x \in {e, f} : x # "none" ELSE "mixed"
IsUnavailable(e)   == e \in {"absent", "mixed"}
OnlyUnavailable(e) == e = "absent"

\* secrets.DeleteAll goes on after a failure: any of the kinds may be left, and why.
Deletions(s) ==
  {[left |-> {}, err |-> "none"]} \cup
  {[left |-> l, err |-> e] : l \in SUBSET Kinds \ {{}}, e \in Failures(s)} \cup
  (IF s = "keyring" THEN {[left |-> Kinds, err |-> "mixed"]} ELSE {})

\* The store that is not in use may also not be found at all.
Sweeps(s) == Deletions(s) \cup {[left |-> Kinds, err |-> "absent"]}

Delete(s, n, d) ==
  secrets' = [secrets EXCEPT ![s] = @ \ ({n} \X (Kinds \ d.left))]

\* Store.Set of one kind, and where the command goes from there.
Set(c, kind, then, else) ==
  LET p == proc[c] IN
  \/ /\ secrets' = [secrets EXCEPT ![p.store] = @ \cup {<<p.n, kind>>}]
     /\ Goto(c, then)
  \/ /\ \E e \in Failures(p.store) : proc' = [proc EXCEPT ![c].at = else, ![c].err = e]
     /\ UNCHANGED secrets

------------------------------------------------------------------------------
(* A command starts: it loads the config and picks the store.              *)

\* --no-keyring names the file store for this command; else the setting decides.
Start(c, cmd, n, at, ro) ==
  \E explicit \in BOOLEAN :
    proc' = [proc EXCEPT ![c] =
      [at |-> at, cmd |-> cmd, n |-> n, ro |-> ro, yes |-> FALSE, switched |-> FALSE, err |-> "none",
       explicit |-> explicit, cfg |-> config, store |-> IF explicit THEN "file" ELSE Looks(config)]]

\* An add that rebuilds the project from its flags and forgets what it was.
AddFromFlags(c, n) ==
  /\ proc[c] = Idle
  /\ \E flag \in {"none", "on", "off"} : Start(c, "add", n, "verify", flag = "on")
  /\ UNCHANGED <<config, secrets, warned, lost>>

\* runProjectAdd: a name that exists needs --force, a read-only one stays so unless asked.
Add(c, n) ==
  /\ proc[c] = Idle
  /\ \E flag \in {"none", "on", "off"} :
       LET was == n \in config.names /\ n \in config.ro IN
       Start(c, "add", n, IF was /\ flag = "off" THEN "consent" ELSE "verify",
             flag = "on" \/ (was /\ flag = "none"))
  /\ UNCHANGED <<config, secrets, warned, lost>>

Remove(c, n) ==
  /\ proc[c] = Idle /\ n \in config.names
  /\ Start(c, "remove", n, "consent", FALSE)
  /\ UNCHANGED <<config, secrets, warned, lost>>

Use(c, n) ==
  /\ proc[c] = Idle /\ n \in config.names
  /\ Start(c, "use", n, "save", n \in config.ro)
  /\ UNCHANGED <<config, secrets, warned, lost>>

\* runProjectReadOnly: nothing to do for a project that is so already; --off asks.
ReadOnly(c, n) ==
  /\ proc[c] = Idle /\ n \in config.names
  /\ Start(c, "readonly", n, IF n \in config.ro THEN "consent" ELSE "save", n \notin config.ro)
  /\ UNCHANGED <<config, secrets, warned, lost>>

\* confirmRemoval, confirmWritable: no ends the command with nothing changed.
Consent(c) ==
  /\ proc[c].at = "consent"
  /\ \/ End(c) /\ UNCHANGED warned
     \/ /\ proc' = [proc EXCEPT ![c].yes = TRUE, ![c].at =
             CASE proc[c].cmd = "add" -> "verify" [] proc[c].cmd = "remove" -> "deleteOwn" [] OTHER -> "save"]
        /\ warned' = IF proc[c].cmd = "remove" THEN warned \cup {proc[c].n} ELSE warned
  /\ UNCHANGED <<config, secrets, lost>>

\* Nothing is written before the credentials have signed in.
Verify(c) ==
  /\ proc[c].at = "verify" /\ (Goto(c, "password") \/ End(c))
  /\ UNCHANGED <<config, secrets, warned, lost>>

------------------------------------------------------------------------------
(* persistProject and retryWithoutKeyring.                                 *)

SetPassword(c) ==
  /\ proc[c].at = "password" /\ Set(c, "password", "apiKey", "failed")
  /\ UNCHANGED <<config, warned, lost>>

SetAPIKey(c) ==
  /\ proc[c].at = "apiKey" /\ Set(c, "apiKey", "save", "rollback")
  /\ UNCHANGED <<config, warned, lost>>

\* What the command makes of the config it loaded.
Upsert(p) ==
  [names |-> p.cfg.names \cup {p.n},
   ro    |-> IF p.ro THEN p.cfg.ro \cup {p.n} ELSE p.cfg.ro \ {p.n},
   file  |-> p.cfg.file \/ p.switched]
Without(p) == [p.cfg EXCEPT !.names = @ \ {p.n}, !.ro = @ \ {p.n}]

\* Whom the save of an add leaves with credentials elsewhere: with --no-keyring the
\* project itself; after a switch, as the question says, the other projects.
Elsewhere(p) ==
  (IF p.explicit /\ ~Upsert(p).file THEN {p.n} ELSE {}) \cup
  (IF p.switched THEN p.cfg.names \ {p.n} ELSE {})

\* SaveConfig replaces the file whole, or fails and leaves it.
Save(c) ==
  LET p == proc[c] IN
  /\ p.at = "save"
  /\ \/ /\ config' = Upsert(p)
        /\ IF p.switched THEN Goto(c, "sweep") ELSE End(c)
        /\ warned' = IF p.cmd = "add" THEN (warned \ {p.n}) \cup Elsewhere(p) ELSE warned
        /\ lost' = IF p.cmd = "add" THEN lost \ {p.n} ELSE lost
     \/ /\ IF p.cmd = "add" THEN proc' = [proc EXCEPT ![c].at = "rollback", ![c].err = "refused"] ELSE End(c)
        /\ UNCHANGED <<config, warned, lost>>
  /\ UNCHANGED secrets

\* The rollback takes all the project's secrets and reports those it could not take.  Of
\* a project that was there before the add (--force) it takes those it had: no word of that.
Rollback(c) ==
  LET p == proc[c] IN
  /\ p.at = "rollback"
  /\ \E d \in Deletions(p.store) :
       /\ Delete(p.store, p.n, d)
       /\ proc' = [proc EXCEPT ![c].at = "failed", ![c].err = Joined(p.err, d.err)]
       /\ warned' = IF d.err # "none" THEN warned \cup {p.n} ELSE warned
       /\ lost' = IF p.n \in p.cfg.names /\ p.store = Looks(p.cfg) THEN lost \cup {p.n} ELSE lost
  /\ UNCHANGED config

\* An add that switches the store for itself and does not save the setting.
SwitchUnsaved(c) ==
  /\ proc[c].at = "failed"
  /\ \/ End(c)
     \/ /\ IsUnavailable(proc[c].err) /\ proc[c].store = "keyring"
        /\ proc' = [proc EXCEPT ![c].store = "file", ![c].at = "password"]
  /\ UNCHANGED <<config, secrets, warned, lost>>

\* retryWithoutKeyring: with no keychain, and a yes, once more into the file.
Switch(c) ==
  /\ proc[c].at = "failed"
  /\ \/ End(c)
     \/ /\ IsUnavailable(proc[c].err) /\ ~proc[c].switched
        /\ proc' = [proc EXCEPT ![c].switched = TRUE, ![c].store = "file", ![c].at = "password"]
  /\ UNCHANGED <<config, secrets, warned, lost>>

\* The keychain that went away half-way is emptied once the file has the credentials.
SweepPrevious(c) ==
  /\ proc[c].at = "sweep" /\ End(c)
  /\ \E d \in Sweeps("keyring") : Delete("keyring", proc[c].n, d)
  /\ UNCHANGED <<config, warned, lost>>

------------------------------------------------------------------------------
(* runProjectRemove: the secrets first, in both stores, then the config.   *)

DeleteOwn(c) ==
  /\ proc[c].at = "deleteOwn"
  /\ \E d \in Deletions(proc[c].store) :
       /\ Delete(proc[c].store, proc[c].n, d)
       /\ IF d.err = "none" THEN Goto(c, "deleteOther") ELSE End(c)
  /\ UNCHANGED <<config, warned, lost>>

\* A sweep that takes a mixed failure for a store that is not there, and that for an empty one.
OutcomeCoarse(d) == IF d.err = "none" \/ IsUnavailable(d.err) THEN "swept" ELSE "refused"

\* sweepResult: a store that could not be opened is not an empty one.
Outcome(d) == IF d.err = "none" THEN "swept" ELSE IF OnlyUnavailable(d.err) THEN "unreachable" ELSE "refused"

DeleteOther(c) ==
  /\ proc[c].at = "deleteOther"
  /\ \E d \in Sweeps(Other(proc[c].store)) :
       /\ Delete(Other(proc[c].store), proc[c].n, d)
       /\ proc' = [proc EXCEPT ![c].at = "saveRemoval", ![c].err = Outcome(d)]
  /\ UNCHANGED <<config, warned, lost>>

\* The credentials are said to be gone only when the sweep of both stores was clean.
SaveRemoval(c) ==
  LET p == proc[c] IN
  /\ p.at = "saveRemoval" /\ End(c)
  /\ \/ /\ config' = Without(p) /\ lost' = lost \ {p.n}
        /\ warned' = IF p.err = "swept" THEN warned \ {p.n} ELSE warned
     \/ UNCHANGED <<config, warned, lost>>
  /\ UNCHANGED secrets

\* The process is killed, and the user sees it; nothing is written up to Verify.
Crash(c) ==
  /\ proc[c] # Idle /\ End(c)
  /\ warned' = IF proc[c].at \in {"consent", "verify"} \/ proc[c].cmd \in {"use", "readonly"}
               THEN warned ELSE warned \cup {proc[c].n}
  /\ UNCHANGED <<config, secrets, lost>>

------------------------------------------------------------------------------
Next ==
  \E c \in Procs :
    \/ \E n \in Names : Add(c, n) \/ Remove(c, n) \/ Use(c, n) \/ ReadOnly(c, n)
    \/ Consent(c) \/ Verify(c) \/ SetPassword(c) \/ SetAPIKey(c) \/ Save(c) \/ Rollback(c)
    \/ Switch(c) \/ SweepPrevious(c) \/ DeleteOwn(c) \/ DeleteOther(c) \/ SaveRemoval(c) \/ Crash(c)

Spec == Init /\ [][Next]_vars

------------------------------------------------------------------------------
(* Between commands, a credential of a name that no project has is there   *)
(* only with the user's knowledge: its command was killed, or reported     *)
(* what it could not delete. A remove that says "and its stored            *)
(* credentials" has left none in either store, and an add that failed none *)
(* "for a later add of the same name to silently inherit".                 *)
NothingStranded ==
  (\A c \in Procs : proc[c] = Idle) =>
    \A s \in Stores : \A n \in Names \ (config.names \cup warned) :
      secrets[s] \intersect Of(n) = {}

(* At any step of any command, a configured project has a password and an  *)
(* API key in the store the config file points at, unless the user was     *)
(* told, or said, otherwise, or an `add --force` of that very project that *)
(* failed after its first write took them with what it had stored itself.  *)
(* No other command, failure, switch of stores or death does that, and no  *)
(* command does it to a project it is not about without saying so.         *)
NamedIsReachable ==
  \A n \in config.names \ (warned \cup lost) : Complete(Looks(config), n)

(* "There is no moment in which the config names a project it cannot       *)
(* reach", and "if a keychain write fails we have written nothing": what   *)
(* persistProject says of itself, without the exception above. A failed    *)
(* `add --force` breaks it: its rollback deletes the credentials that were *)
(* there, and reports only why it failed.                                  *)
NoProjectWithoutCredentials ==
  \A n \in config.names \ warned : Complete(Looks(config), n)

(* The read-only mark of a project comes off only by a command on that     *)
(* project whose question about it was answered yes: no other command, a   *)
(* re-add that does not mention it included, takes it off in passing.      *)
ReadOnlyComesOffByConsent ==
  [][\A n \in config.ro \ config'.ro : 
       \E c \in Procs : proc[c] # Idle /\ proc[c].n = n /\ proc[c].yes]_config
=============================================================================
