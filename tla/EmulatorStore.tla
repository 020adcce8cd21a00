---------------------------- MODULE EmulatorStore ----------------------------
(***************************************************************************)
(* One collection of the emulator's in-memory tenant (store.go), the       *)
(* request handlers that change it and announce each change as an event    *)
(* (handlers.go, eventing.go), and the client's walks over its pages:      *)
(* SearchAll by an offset cursor, ListAll by the last id seen              *)
(* (pagination.go, internal/client search.go and list.go).                 *)
(*                                                                         *)
(* Every Store method holds the lock for its whole body and is one step;   *)
(* a handler calls several of them, and emits after the last has let go.   *)
(* Ids come from the store's counter, so insertion order is id order and   *)
(* no id is given twice.  A seed whose entities carry ids in the counter's *)
(* own form is left out: of such an entity, once it is deleted, the        *)
(* counter would give the id again.                                        *)
(***************************************************************************)
EXTENDS Naturals, SequencesExt

CONSTANTS Clients,      \* who changes entities
          MaxID,        \* bound: entities ever created
          MaxVersion,   \* bound: writes of one entity
          MaxChanges,   \* bound: changes made beside the walk
          MaxEntities,  \* maxEntitiesPerCollection
          Size,         \* the page size the walk asks for
          Caps,         \* the page sizes a server may silently cap at
          MaxItems      \* how many items a walk yields

ASSUME BoundsAreSound ==
  /\ {MaxID, MaxEntities, MaxItems} \subseteq Nat
  /\ MaxVersion \in Nat \ {0} /\ Size \in Nat \ {0} /\ Caps \subseteq Nat \ {0}

VARIABLES
  order,    \* Store.order: the ids, in insertion order
  ver,      \* each entity's version, kept when it is deleted; 0 for none yet
  h,        \* each client's request
  events,   \* history: the bag of events delivered
  cap, honest,  \* what the server walked over does: cap pages, count right
  kind,     \* the walk: "search" or "list"
  at,       \* walk, end, truncated, error
  after,    \* the walk's cursor: an offset, or the last id seen
  got,      \* what the walk has yielded
  stayed,   \* history: the entities there since the walk began
  shrunk    \* history: an entity was deleted since the walk began

tenant == <<order, ver>>
walk   == <<kind, at, after, got>>
server == <<cap, honest>>
vars   == <<order, ver, h, events, server, walk, stayed, shrunk>>

Ids      == 1 .. MaxID
Idle     == [at |-> "idle", op |-> "none", id |-> 0, v |-> 0]
Live     == ToSet(order)
Created  == {i \in Ids : ver[i] # 0}

\* The collection may be seeded, and the walk begins before anything changes.
Init ==
  /\ \E n \in 0 .. MaxEntities : n <= MaxID /\ order = [i \in 1 .. n |-> i]
  /\ ver = [i \in Ids |-> IF i \in ToSet(order) THEN 1 ELSE 0]
  /\ h = [c \in Clients |-> Idle] /\ events = EmptyBag
  /\ kind \in {"search", "list"} /\ cap \in Caps /\ honest \in {TRUE, kind = "search"}
  /\ at = "walk" /\ after = 0 /\ got = <<>>
  /\ stayed = ToSet(order) /\ shrunk = FALSE

------------------------------------------------------------------------------
(* The handlers.                                                           *)

Busy == {c \in Clients : h[c].at # "idle"}
MayAsk(c) == c \notin Busy /\ BagCardinality(events) + Cardinality(Busy) < MaxChanges

Announce(c, op, i, v) == h' = [h EXCEPT ![c] = [at |-> "emit", op |-> op, id |-> i, v |-> v]]

\* create: the next free id and version 1; a full collection answers 507.
Create(c) ==
  /\ MayAsk(c) /\ Len(order) < MaxEntities
  /\ \E i \in Ids \ Created :
       /\ \A j \in Ids \ Created : i <= j
       /\ order' = Append(order, i) /\ ver' = [ver EXCEPT ![i] = 1]
       /\ Announce(c, "created", i, 1)
  /\ UNCHANGED <<events, server, walk, stayed, shrunk>>

\* resolve finds the id; without it the answer is 404.
Resolve(c, op, i) ==
  /\ MayAsk(c) /\ i \in Live
  /\ h' = [h EXCEPT ![c] = [at |-> "resolved", op |-> op, id |-> i, v |-> 0]]
  /\ UNCHANGED <<tenant, events, server, walk, stayed, shrunk>>

\* Store.Update: 404, 409, or the next version; want is 0 where the body carries none.
Update(c, want) ==
  LET i == h[c].id IN
  /\ h[c].at = "resolved" /\ h[c].op = "update"
  /\ IF i \notin Live \/ want \notin {0, ver[i]}
     THEN h' = [h EXCEPT ![c] = Idle] /\ UNCHANGED ver
     ELSE /\ ver[i] < MaxVersion
          /\ ver' = [ver EXCEPT ![i] = @ + 1] /\ Announce(c, "updated", i, ver[i] + 1)
  /\ UNCHANGED <<order, events, server, walk, stayed, shrunk>>

\* remove reads the entity for its event before it deletes it.
ReadDoomed(c) ==
  LET i == h[c].id IN
  /\ h[c].at = "resolved" /\ h[c].op = "remove"
  /\ h' = [h EXCEPT ![c].at = "read", ![c].v = IF i \in Live THEN ver[i] ELSE 0]
  /\ UNCHANGED <<tenant, events, server, walk, stayed, shrunk>>

\* A remove that does not ask Delete whether the entity was there.
DeleteUnasked(c) ==
  LET i == h[c].id IN
  /\ h[c].at = "read" /\ Announce(c, "deleted", i, h[c].v)
  /\ order' = RemoveFirst(order, i)
  /\ stayed' = stayed \ {i} /\ shrunk' = TRUE
  /\ UNCHANGED <<ver, events, server, walk>>

\* Store.Delete: of two removes, the second finds nothing, answers 404 and emits nothing.
Delete(c) ==
  LET i == h[c].id IN
  /\ h[c].at = "read"
  /\ IF i \in Live
     THEN /\ order' = RemoveFirst(order, i)
          /\ stayed' = stayed \ {i} /\ shrunk' = TRUE
          /\ Announce(c, "deleted", i, h[c].v)
     ELSE h' = [h EXCEPT ![c] = Idle] /\ UNCHANGED <<order, stayed, shrunk>>
  /\ UNCHANGED <<ver, events, server, walk>>

\* The event goes out, with the lock long released, and the request is answered.
Emit(c) ==
  /\ h[c].at = "emit" /\ h' = [h EXCEPT ![c] = Idle]
  /\ events' = events (+) SetToBag({[op |-> h[c].op, id |-> h[c].id, v |-> h[c].v]})
  /\ UNCHANGED <<tenant, server, walk, stayed, shrunk>>

------------------------------------------------------------------------------
(* The pages.                                                              *)

Least(a, b) == IF a <= b THEN a ELSE b
PageFrom(start) == SubSeq(order, start + 1, Least(start + Least(Size, cap), Len(order)))

\* A page that begins with the last item of the page before.
SearchPageOverlapping == PageFrom(IF after = 0 THEN 0 ELSE Least(after, Len(order)) - 1)

\* paginateCursor: the cursor is an offset into the collection as it is now.
SearchPage == PageFrom(Least(after, Len(order)))
SearchEnd  == Least(after, Len(order)) + Len(SearchPage)

\* A page that begins with the entity it should begin after.
StartAtID == LET at0 == SelectInSeq(order, LAMBDA i : i = after) IN IF at0 = 0 THEN 0 ELSE at0 - 1

\* paginateAfterID: after that id, or from the top when it is not there any more.
StartAfterID == SelectInSeq(order, LAMBDA i : i = after)
ListPage == PageFrom(StartAfterID)

\* The total of a list's envelope; a server whose count is nonsense may answer any number.
Totals == IF honest THEN {Len(order)} ELSE 0 .. MaxID + 1

\* The items of a page a walk may still yield, and whether maxItems cuts it off.
Room == MaxItems - Len(got)
Taken(page) == SubSeq(page, 1, Least(Room, Len(page)))
Cut(page) == Room < Len(page)

Stop(how) == at' = how /\ UNCHANGED after
GoOn(next) == after' = next /\ UNCHANGED at

\* SearchAll: until there is no next page; a cursor that does not advance is an error.
SearchNext ==
  /\ at = "walk" /\ kind = "search"
  /\ got' = got \o Taken(SearchPage)
  /\ \/ Cut(SearchPage) /\ Stop("truncated")
     \/ ~Cut(SearchPage) /\ SearchEnd >= Len(order) /\ Stop("end")
     \/ ~Cut(SearchPage) /\ SearchEnd < Len(order)
          /\ IF SearchEnd = after THEN Stop("error") ELSE GoOn(SearchEnd)
  /\ UNCHANGED <<tenant, h, events, server, kind, stayed, shrunk>>

\* The end of a list taken from the page's length alone, or from the count alone.
OverWhenShort(page, total) == Len(page) < Size
OverByCount(page, total) == page # <<>> /\ Len(page) < Size /\ Len(got) + Len(page) >= total

\* The end of a list: an empty page, or a short one once as many were seen as were counted.
Over(page, total) == page = <<>> \/ (Len(page) < Size /\ Len(got) + Len(page) >= total)

\* ListAll: the next page starts after the last id of this one.
ListNext ==
  /\ at = "walk" /\ kind = "list"
  /\ got' = got \o Taken(ListPage)
  /\ \/ Cut(ListPage) /\ Stop("truncated")
     \/ ~Cut(ListPage) /\ \E total \in Totals :
          IF Over(ListPage, total) THEN Stop("end")
          ELSE LET next == IF ListPage = <<>> THEN after ELSE Last(ListPage)
               IN  IF ListPage # <<>> /\ next = after THEN Stop("error") ELSE GoOn(next)
  /\ UNCHANGED <<tenant, h, events, server, kind, stayed, shrunk>>

Next ==
  \/ \E c \in Clients :
       \/ Create(c) \/ ReadDoomed(c) \/ Delete(c) \/ Emit(c)
       \/ \E i \in Ids, op \in {"update", "remove"} : Resolve(c, op, i)
       \/ \E want \in 0 .. MaxVersion : Update(c, want)
  \/ SearchNext
  \/ ListNext

\* A walk goes on while its pages are answered; nobody has to change anything.
Spec == Init /\ [][Next]_vars /\ WF_vars(SearchNext) /\ WF_vars(ListNext)

------------------------------------------------------------------------------
(* Properties.                                                             *)

\* Every variable has its type.
TypeOK ==
  /\ order \in Seq(Ids) /\ ver \in [Ids -> 0 .. MaxVersion]
  /\ h \in [Clients -> [at : {"idle", "resolved", "read", "emit"}, id : 0 .. MaxID,
                         op : {"none", "update", "remove", "created", "updated", "deleted"},
                         v : 0 .. MaxVersion]]
  /\ kind \in {"search", "list"} /\ at \in {"walk", "end", "truncated", "error"}
  /\ got \in Seq(Ids) /\ stayed \subseteq Live /\ shrunk \in BOOLEAN

\* How often an event was delivered, or is about to be.
Said(op, i, v) ==
  LET e == [op |-> op, id |-> i, v |-> v]
  IN  (IF BagIn(e, events) THEN events[e] ELSE 0)
        + Cardinality({c \in Clients : h[c] = [at |-> "emit", op |-> op, id |-> i, v |-> v]})

\* Whatever two requests do beside each other, each version an entity reached is announced
\* by one event, and each deletion by one (it carries what the remove read, perhaps an
\* older version): a consumer that gets the events in another order, for they go out
\* after the lock is released, can still put the versions in order.
EachChangeOnce ==
  \A i \in Created :
    /\ Said("created", i, 1) <= 1
    /\ \A v \in 2 .. ver[i] : Said("updated", i, v) = 1
    /\ \E d \in 0 .. MaxVersion : \A v \in 0 .. MaxVersion :
         Said("deleted", i, v) = (IF i \notin Live /\ v = d THEN 1 ELSE 0)

\* A search never yields an entity twice, whatever is created or deleted between its
\* pages; a list may, but only after an entity it had yielded was deleted, for then it
\* may have to start again from the top.
NothingTwice ==
  \/ IsInjective(got)
  \/ kind = "list" /\ ~(ToSet(got) \subseteq Live)

\* A walk that ends without saying it was cut off has yielded every entity that was there
\* all along: a search if nothing was deleted between its pages; a list of a server that
\* counts right if nothing was deleted, or if the server does not cap its pages.
WholeAnswer ==
  (at = "end" /\ (shrunk => kind = "list" /\ cap >= Size) /\ (kind = "list" => honest))
    => stayed \subseteq ToSet(got)

\* The errors for a cursor that does not advance are never raised at such a server, whatever
\* happens between two pages.
NoFalseAlarm == at # "error"

\* A walk ends, also at a server whose total is nonsense.
WalkEnds == <>(at # "walk")
==============================================================================
