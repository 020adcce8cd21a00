-------------------------- MODULE Emulator_proofs --------------------------
(***************************************************************************)
(* The local emulator: its store (EmulatorStore), and then the delivery of *)
(* its events through a transport process (EmulatorTransport).             *)
(*                                                                         *)
(* What the emulator's store promises to the consumers of its events, and  *)
(* its pages to a walk, proved for any number of clients, entities and     *)
(* writes, any page size and any cap of the server.                        *)
(*                                                                         *)
(* Both rest on the order of the collection (Counted): ids are counted up, *)
(* so what is created later comes after all that a walk has seen.  The     *)
(* events need one thing more, that each version and each deletion has its *)
(* one announcement from the step that makes it on (Told).  A walk needs   *)
(* that all it yielded lies before the place it goes on from, and, where   *)
(* nothing was deleted, that it is all that lies there.                    *)
(***************************************************************************)
EXTENDS EmulatorStore, EmulatorTransport, FiniteSetTheorems, SequenceTheorems, TLAPS

Ordered(s) == \A j, k \in 1 .. Len(s) : j < k => s[j] < s[k]

----------------------------------------------------------------------------
(* The invariant *)

Versions == 0 .. MaxVersion

\* Ids are counted up, the collection keeps their order, and a request is about an
\* entity that was there once.
Counted ==
    /\ Ordered(order) /\ Live \subseteq Created
    /\ \A i \in Created, j \in Ids : j < i => j \in Created
    /\ \A c \in Clients : h[c].at # "idle" => h[c].id \in Created

\* The events said, or about to be said, of an entity.
Told(i) ==
    /\ Said("created", i, 1) <= (IF i \in Created THEN 1 ELSE 0)
    /\ \A v \in Versions : Said("updated", i, v) = (IF v \in 2 .. ver[i] THEN 1 ELSE 0)
    /\ \E d \in Versions : \A v \in Versions :
         Said("deleted", i, v) = (IF i \in Created \ Live /\ v = d THEN 1 ELSE 0)

\* A list may start again from the top only once an entity it yielded is gone.
Yielded ==
    /\ ToSet(got) \subseteq Created
    /\ Ordered(got) \/ (kind = "list" /\ ~(ToSet(got) \subseteq Live))

\* What comes after the offset of a search comes after all it has yielded.
SearchGoesOn ==
    at = "walk" /\ kind = "search" =>
      \A k \in 1 .. Len(order) : after < k => \A g \in ToSet(got) : g < order[k]

\* A list goes on after what it yielded last, and has all that was there up to it.
ListGoesOn ==
    at = "walk" /\ kind = "list" =>
      /\ after = IF got = <<>> THEN 0 ELSE Last(got)
      /\ \A s \in stayed : s <= after => s \in ToSet(got)

\* As long as nothing is deleted, a walk has the first entities of the collection.
Undisturbed ==
    at = "walk" /\ ~shrunk =>
      /\ Len(got) <= Len(order) /\ \A k \in 1 .. Len(got) : got[k] = order[k]
      /\ kind = "search" => after = Len(got)

Emitting == {c \in Clients : h[c].at = "emit"}

Typed ==
    /\ TypeOK /\ after \in Nat /\ cap \in Caps
    /\ IsABag(events) /\ IsFiniteSet(Emitting)

StoreInv == Typed /\ Counted /\ \A i \in Ids : Told(i)

WalkInv ==
    /\ Yielded /\ SearchGoesOn /\ ListGoesOn /\ Undisturbed
    /\ WholeAnswer /\ NoFalseAlarm

IInv == StoreInv /\ WalkInv

----------------------------------------------------------------------------
(* Sequences of ids *)

\* In an ordered sequence an element has one place, which SelectInSeq finds.
LEMMA Place ==
  ASSUME NEW S \in SUBSET Nat, NEW s \in Seq(S), Ordered(s), NEW e \in Nat
  PROVE  LET p == SelectInSeq(s, LAMBDA j : j = e)
         IN  IF e \in ToSet(s) THEN p \in 1 .. Len(s) /\ s[p] = e ELSE p = 0
<1> DEFINE I == {j \in 1 .. Len(s) : s[j] = e}
<1>1. SelectInSeq(s, LAMBDA j : j = e) = IF I # {} THEN Min(I) ELSE 0
  BY DEF SelectInSeq
<1>2. CASE e \in ToSet(s)
  <2>1. PICK p \in 1 .. Len(s) : s[p] = e
    BY <1>2 DEF ToSet
  <2>2. \A q \in I : q = p
    BY <2>1 DEF Ordered
  <2>3. I = {p}
    BY <2>1, <2>2
  <2>4. Min(I) = p
    BY <2>3 DEF Min
  <2> QED BY <1>1, <1>2, <2>1, <2>3, <2>4
<1>3. CASE e \notin ToSet(s)
  <2>1. I = {}
    BY <1>3 DEF ToSet
  <2> QED BY <1>1, <1>3, <2>1
<1> QED BY <1>2, <1>3

\* Removing an element of an ordered sequence closes the gap it leaves.
LEMMA Removed ==
  ASSUME NEW S \in SUBSET Nat, NEW s \in Seq(S), Ordered(s), NEW e \in ToSet(s)
  PROVE  \E p \in 1 .. Len(s) :
           /\ s[p] = e
           /\ RemoveFirst(s, e) \in Seq(S)
           /\ Len(RemoveFirst(s, e)) = Len(s) - 1
           /\ \A k \in 1 .. Len(s) - 1 :
                RemoveFirst(s, e)[k] = (IF k < p THEN s[k] ELSE s[k + 1])
<1> DEFINE p == SelectInSeq(s, LAMBDA j : j = e)
           u == SubSeq(s, 1, p - 1)
           w == SubSeq(s, p + 1, Len(s))
<1>1. e \in Nat
  <2>1. PICK q \in 1 .. Len(s) : s[q] = e
    BY DEF ToSet
  <2> QED BY <2>1, ElementOfSeq
<1>2. p \in 1 .. Len(s) /\ s[p] = e
  BY <1>1, Place
<1>3. RemoveFirst(s, e) = u \o w
  BY <1>2 DEF RemoveFirst, RemoveAt
<1> HIDE DEF p
<1>4. u \in Seq(S) /\ Len(u) = p - 1 /\ \A k \in 1 .. p - 1 : u[k] = s[k]
  BY <1>2
<1>5. /\ w \in Seq(S) /\ Len(w) = Len(s) - p
      /\ \A k \in 1 .. Len(s) - p : w[k] = s[p + k]
  BY <1>2
<1> HIDE DEF u, w
<1> DEFINE r == u \o w
<1>6. /\ r \in Seq(S)
      /\ Len(r) = Len(u) + Len(w)
      /\ \A k \in 1 .. Len(u) + Len(w) : r[k] = IF k <= Len(u) THEN u[k] ELSE w[k - Len(u)]
  BY <1>4, <1>5, ConcatProperties
<1> HIDE DEF r
<1>7. Len(r) = Len(s) - 1
  BY <1>2, <1>4, <1>5, <1>6
<1>8. ASSUME NEW k \in 1 .. Len(s) - 1
      PROVE  r[k] = (IF k < p THEN s[k] ELSE s[k + 1])
  <2>1. r[k] = IF k <= p - 1 THEN u[k] ELSE w[k - (p - 1)]
    BY <1>2, <1>4, <1>5, <1>6
  <2>2. CASE k < p
    BY <1>2, <1>4, <2>1, <2>2
  <2>3. CASE k >= p
    <3>1. k - (p - 1) \in 1 .. Len(s) - p
      BY <1>2, <2>3
    <3> DEFINE j == k - (p - 1)
    <3>2. w[j] = s[p + j]
      BY <1>5, <3>1
    <3>3. p + j = k + 1
      BY <1>2
    <3> QED BY <1>2, <2>1, <2>3, <3>2, <3>3
  <2> QED BY <1>2, <2>2, <2>3
<1> QED BY <1>2, <1>3, <1>6, <1>7, <1>8 DEF r

LEMMA RemovedSet ==
  ASSUME NEW S \in SUBSET Nat, NEW s \in Seq(S), Ordered(s), NEW e \in ToSet(s)
  PROVE  /\ Ordered(RemoveFirst(s, e))
         /\ ToSet(RemoveFirst(s, e)) = ToSet(s) \ {e}
<1> DEFINE r == RemoveFirst(s, e)
<1>1. PICK p \in 1 .. Len(s) :
           /\ s[p] = e /\ r \in Seq(S) /\ Len(r) = Len(s) - 1
           /\ \A k \in 1 .. Len(s) - 1 : r[k] = (IF k < p THEN s[k] ELSE s[k + 1])
  BY Removed
<1> HIDE DEF r
<1>2. DOMAIN r = 1 .. Len(s) - 1 /\ DOMAIN s = 1 .. Len(s) /\ Len(s) \in Nat
  BY <1>1
<1>3. \A k \in 1 .. Len(s) - 1 : \E m \in 1 .. Len(s) : m # p /\ r[k] = s[m]
  BY <1>1, <1>2
<1>4. \A m \in 1 .. Len(s) : m # p => \E k \in 1 .. Len(s) - 1 : r[k] = s[m]
  <2>1. ASSUME NEW m \in 1 .. Len(s), m < p PROVE m \in 1 .. Len(s) - 1 /\ r[m] = s[m]
    BY <1>1, <1>2, <2>1
  <2>2. ASSUME NEW m \in 1 .. Len(s), m > p
        PROVE  m - 1 \in 1 .. Len(s) - 1 /\ r[m - 1] = s[m]
    <3>1. m - 1 \in 1 .. Len(s) - 1 /\ ~(m - 1 < p) /\ (m - 1) + 1 = m
      BY <1>2, <2>2
    <3> QED BY <1>1, <3>1
  <2> QED BY <1>2, <2>1, <2>2
<1>5. ASSUME NEW m \in 1 .. Len(s), m # p PROVE s[m] # e
  <2>1. s[m] \in Nat /\ s[p] \in Nat
    BY ElementOfSeq
  <2>2. m < p \/ p < m
    BY <1>5
  <2> QED BY <1>1, <2>1, <2>2 DEF Ordered
<1>6. ToSet(r) = ToSet(s) \ {e}
  <2>1. ASSUME NEW x \in ToSet(r) PROVE x \in ToSet(s) \ {e}
    <3>1. PICK k \in 1 .. Len(s) - 1 : r[k] = x
      BY <1>1, <1>2 DEF ToSet
    <3>2. PICK m \in 1 .. Len(s) : m # p /\ x = s[m]
      BY <1>3, <3>1
    <3>3. x # e
      BY <1>5, <3>2
    <3>4. x \in ToSet(s)
      BY <1>2, <3>2 DEF ToSet
    <3> QED BY <3>3, <3>4
  <2>2. ASSUME NEW x \in ToSet(s), x # e PROVE x \in ToSet(r)
    <3>1. PICK m \in 1 .. Len(s) : s[m] = x
      BY <1>2 DEF ToSet
    <3>2. PICK k \in 1 .. Len(s) - 1 : r[k] = s[m]
      BY <1>1, <1>4, <2>2, <3>1
    <3> QED BY <1>1, <1>2, <3>1, <3>2 DEF ToSet
  <2> QED BY <2>1, <2>2
<1>7. ASSUME NEW j \in 1 .. Len(r), NEW k \in 1 .. Len(r), j < k PROVE r[j] < r[k]
  <2> DEFINE place(q) == IF q < p THEN q ELSE q + 1
  <2>1. j \in 1 .. Len(s) - 1 /\ k \in 1 .. Len(s) - 1
    BY <1>1
  <2>2. place(j) \in 1 .. Len(s) /\ place(k) \in 1 .. Len(s) /\ place(j) < place(k)
    BY <1>2, <1>7, <2>1
  <2>3. r[j] = s[place(j)] /\ r[k] = s[place(k)]
    BY <1>1, <2>1
  <2> HIDE DEF place
  <2> QED BY <2>2, <2>3 DEF Ordered
<1> QED BY <1>6, <1>7 DEF r, Ordered

----------------------------------------------------------------------------
(* Events *)

Event(op, i, v) == [op |-> op, id |-> i, v |-> v]
Due(op, i, v) == [at |-> "emit", op |-> op, id |-> i, v |-> v]
Senders(op, i, v) == {c \in Clients : h[c] = Due(op, i, v)}
Delivered(op, i, v) == IF BagIn(Event(op, i, v), events) THEN events[Event(op, i, v)] ELSE 0

LEMMA SaidIs ==
  \A op, i, v : Said(op, i, v) = Delivered(op, i, v) + Cardinality(Senders(op, i, v))
BY DEF Said, Delivered, Senders, Event, Due

LEMMA SaidNext ==
  \A op, i, v : Said(op, i, v)' = Delivered(op, i, v)' + Cardinality(Senders(op, i, v)')
BY DEF Said, Delivered, Senders, Event, Due

LEMMA SendersCount ==
  ASSUME Typed, NEW op, NEW i, NEW v
  PROVE  /\ IsFiniteSet(Senders(op, i, v)) /\ Cardinality(Senders(op, i, v)) \in Nat
         /\ Delivered(op, i, v) \in Nat
<1>1. Senders(op, i, v) \subseteq Emitting
  BY DEF Senders, Emitting, Due
<1>2. IsFiniteSet(Senders(op, i, v))
  BY <1>1, FS_Subset DEF Typed
<1>3. Delivered(op, i, v) \in Nat
  BY DEF Typed, IsABag, Delivered, BagIn, BagToSet
<1> QED BY <1>2, <1>3, FS_CardinalityType

LEMMA SaidIsNat == ASSUME Typed, NEW op, NEW i, NEW v PROVE Said(op, i, v) \in Nat
BY SaidIs, SendersCount

\* A step of a client that is not about to emit, before or after, says nothing.
LEMMA Silent ==
  ASSUME NEW c \in Clients, NEW r, h' = [h EXCEPT ![c] = r], events' = events, TypeOK,
         h[c].at # "emit", r.at # "emit", NEW op, NEW i, NEW v
  PROVE  Said(op, i, v)' = Said(op, i, v)
<1>1. Due(op, i, v).at = "emit"
  BY DEF Due
<1>2. \A d \in Clients : h'[d] = Due(op, i, v) <=> h[d] = Due(op, i, v)
  BY <1>1 DEF TypeOK
<1>3. Senders(op, i, v)' = Senders(op, i, v)
  BY <1>2 DEF Senders, Due
<1>4. Delivered(op, i, v)' = Delivered(op, i, v)
  BY DEF Delivered, Event
<1> QED BY <1>3, <1>4, SaidIs, SaidNext

\* An announcement is said once more, everything else as often as before.
LEMMA Announcing ==
  ASSUME Typed, NEW c \in Clients, NEW o, NEW j, NEW w, Announce(c, o, j, w),
         events' = events, h[c].at # "emit", NEW op, NEW i, NEW v
  PROVE  Said(op, i, v)' = Said(op, i, v) + (IF op = o /\ i = j /\ v = w THEN 1 ELSE 0)
<1>1. /\ h' = [h EXCEPT ![c] = Due(o, j, w)] /\ c \in DOMAIN h
      /\ DOMAIN h = Clients /\ Due(op, i, v).at = "emit"
      /\ Due(o, j, w) = Due(op, i, v) <=> op = o /\ i = j /\ v = w
  BY DEF Announce, Due, Typed, TypeOK
<1>2. Delivered(op, i, v)' = Delivered(op, i, v)
  BY DEF Delivered, Event
<1>3. CASE op = o /\ i = j /\ v = w
  <2>1. Senders(op, i, v)' = Senders(op, i, v) \union {c}
    BY <1>1, <1>3 DEF Senders, Due
  <2>2. c \notin Senders(op, i, v)
    BY <1>1 DEF Senders
  <2>3. Cardinality(Senders(op, i, v)') = Cardinality(Senders(op, i, v)) + 1
    BY <2>1, <2>2, SendersCount, FS_AddElement
  <2> QED BY <1>2, <1>3, <2>3, SaidIs, SaidNext, SendersCount
<1>4. CASE ~(op = o /\ i = j /\ v = w)
  <2>1. Senders(op, i, v)' = Senders(op, i, v)
    BY <1>1, <1>4 DEF Senders, Due
  <2> QED BY <1>2, <1>4, <2>1, SaidIs, SaidNext, SendersCount
<1> QED BY <1>3, <1>4

\* When an event goes out it was said already.
LEMMA Emitted ==
  ASSUME Typed, NEW c \in Clients, Emit(c), NEW op, NEW i, NEW v
  PROVE  Said(op, i, v)' = Said(op, i, v)
<1> DEFINE e == Event(h[c].op, h[c].id, h[c].v)
<1>1. /\ h[c] = Due(h[c].op, h[c].id, h[c].v) /\ h' = [h EXCEPT ![c] = Idle]
      /\ DOMAIN h = Clients /\ events' = events (+) SetToBag({e})
      /\ Due(op, i, v).at = "emit" /\ Idle.at = "idle"
  BY DEF Emit, Due, Typed, TypeOK, Event, Idle
<1>2. h[c] = Due(op, i, v) <=> e = Event(op, i, v)
  BY <1>1 DEF Due, Event
<1>3. CASE e = Event(op, i, v)
  <2>1. Senders(op, i, v)' = Senders(op, i, v) \ {c} /\ c \in Senders(op, i, v)
    BY <1>1, <1>2, <1>3 DEF Senders, Due
  <2>2. Cardinality(Senders(op, i, v)') = Cardinality(Senders(op, i, v)) - 1
    BY <2>1, SendersCount, FS_RemoveElement
  <2>3. Delivered(op, i, v)' = Delivered(op, i, v) + 1
    BY <1>1, <1>3 DEF Delivered, SetToBag, BagIn, BagToSet, Event, Typed, IsABag, (+)
  <2> QED BY <2>2, <2>3, SaidIs, SaidNext, SendersCount
<1>4. CASE e # Event(op, i, v)
  <2>1. Senders(op, i, v)' = Senders(op, i, v)
    BY <1>1, <1>2, <1>4 DEF Senders, Due
  <2>2. Delivered(op, i, v)' = Delivered(op, i, v)
    BY <1>1, <1>4 DEF Delivered, SetToBag, BagIn, BagToSet, Event, Typed, IsABag, (+)
  <2> QED BY <2>1, <2>2, SaidIs, SaidNext
<1> QED BY <1>3, <1>4

----------------------------------------------------------------------------
(* The collection *)

LEMMA IdsAreNaturals == Ids \in SUBSET Nat /\ 0 \notin Ids
BY DEF Ids

\* In an ordered sequence of ids places and ids are in the same order.
LEMMA Rising ==
  ASSUME NEW s \in Seq(Ids), Ordered(s), NEW j \in 1 .. Len(s), NEW k \in 1 .. Len(s)
  PROVE  s[j] \in Nat /\ s[k] \in Nat /\ (j <= k <=> s[j] <= s[k])
<1>1. s[j] \in Nat /\ s[k] \in Nat
  <2>1. s[j] \in Ids /\ s[k] \in Ids
    BY ElementOfSeq
  <2> QED BY <2>1 DEF Ids
<1>2. j < k \/ j = k \/ k < j
  OBVIOUS
<1> QED BY <1>1, <1>2 DEF Ordered

LEMMA OrderIs ==
  ASSUME TypeOK
  PROVE  /\ order \in Seq(Ids) /\ Len(order) \in Nat /\ DOMAIN order = 1 .. Len(order)
         /\ Live \subseteq Ids
         /\ \A k \in 1 .. Len(order) : order[k] \in Ids /\ order[k] \in Live
<1>1. order \in Seq(Ids)
  BY DEF TypeOK
<1> QED BY <1>1, LenProperties, ElementOfSeq DEF Live, ToSet

\* A created entity goes to the end, and its id is later than any before it.
LEMMA Grows ==
  ASSUME StoreInv, NEW c \in Clients, Create(c)
  PROVE  \E i \in Ids \ Created :
           /\ order' = Append(order, i) /\ ver' = [ver EXCEPT ![i] = 1]
           /\ Announce(c, "created", i, 1) /\ Live' = Live \union {i}
           /\ Created' = Created \union {i} /\ \A j \in Created : j < i
           /\ Len(order') = Len(order) + 1 /\ order'[Len(order) + 1] = i
           /\ \A k \in 1 .. Len(order) : order'[k] = order[k]
           /\ \A j \in Ids : j < i => j \in Created
<1>0. TypeOK /\ Counted
  BY DEF StoreInv, Typed
<1>1. PICK i \in Ids \ Created :
         /\ \A j \in Ids \ Created : i <= j
         /\ order' = Append(order, i) /\ ver' = [ver EXCEPT ![i] = 1]
         /\ Announce(c, "created", i, 1)
  BY DEF Create
<1>2. /\ Len(order') = Len(order) + 1 /\ order'[Len(order) + 1] = i
      /\ \A k \in 1 .. Len(order) : order'[k] = order[k]
      /\ DOMAIN order' = 1 .. Len(order) + 1
  BY <1>0, <1>1, OrderIs
<1>3. Live' = Live \union {i}
  <2>1. DOMAIN order = 1 .. Len(order) /\ Len(order) \in Nat
    BY <1>0, OrderIs
  <2>2. ASSUME NEW x \in Live' PROVE x \in Live \union {i}
    <3>1. PICK k \in 1 .. Len(order) + 1 : order'[k] = x
      BY <1>2 DEF Live, ToSet
    <3>2. CASE k = Len(order) + 1
      BY <1>2, <3>1, <3>2
    <3>3. CASE k \in 1 .. Len(order)
      BY <1>2, <2>1, <3>1, <3>3 DEF Live, ToSet
    <3> QED BY <2>1, <3>2, <3>3
  <2>3. ASSUME NEW x \in Live PROVE x \in Live'
    <3>1. PICK k \in 1 .. Len(order) : order[k] = x
      BY <2>1 DEF Live, ToSet
    <3>2. k \in DOMAIN order' /\ order'[k] = x
      BY <1>2, <2>1, <3>1
    <3> QED BY <3>2 DEF Live, ToSet
  <2>4. i \in Live'
    <3>1. Len(order) + 1 \in DOMAIN order'
      BY <1>2, <2>1
    <3> QED BY <1>2, <3>1 DEF Live, ToSet
  <2> QED BY <2>2, <2>3, <2>4
<1>4. Created' = Created \union {i}
  BY <1>0, <1>1 DEF Created, TypeOK
<1>5. \A j \in Created : j < i
  <2> SUFFICES ASSUME NEW j \in Created PROVE j < i
    OBVIOUS
  <2>1. i < j => i \in Created
    BY <1>0, <1>1 DEF Counted
  <2>2. j # i /\ j \in Ids /\ i \in Ids
    BY <1>1 DEF Created
  <2> QED BY <1>1, <2>1, <2>2, IdsAreNaturals
<1>6. \A j \in Ids : j < i => j \in Created
  BY <1>1, IdsAreNaturals
<1> QED BY <1>1, <1>2, <1>3, <1>4, <1>5, <1>6

\* A deleted entity leaves a gap that closes.
LEMMA Shrinks ==
  ASSUME TypeOK, Counted, NEW i \in Live, order' = RemoveFirst(order, i)
  PROVE  /\ order' \in Seq(Ids) /\ Ordered(order') /\ Live' = Live \ {i}
         /\ \A k \in 1 .. Len(order') :
              \E m \in 1 .. Len(order) : k <= m /\ order'[k] = order[m]
<1>1. order \in Seq(Ids) /\ Ordered(order) /\ i \in ToSet(order)
  BY DEF TypeOK, Counted, Live
<1>2. Ordered(order') /\ ToSet(order') = ToSet(order) \ {i}
  BY <1>1, RemovedSet, IdsAreNaturals
<1>3. PICK p \in 1 .. Len(order) :
         /\ order' \in Seq(Ids) /\ Len(order') = Len(order) - 1
         /\ \A k \in 1 .. Len(order) - 1 :
              order'[k] = (IF k < p THEN order[k] ELSE order[k + 1])
  <2> DEFINE r == RemoveFirst(order, i)
  <2>1. \E p \in 1 .. Len(order) :
           /\ order[p] = i
           /\ r \in Seq(Ids)
           /\ Len(r) = Len(order) - 1
           /\ \A k \in 1 .. Len(order) - 1 :
                r[k] = (IF k < p THEN order[k] ELSE order[k + 1])
    <3> HIDE DEF Ids
    <3> QED BY <1>1, Removed, IdsAreNaturals
  <2> HIDE DEF r
  <2>2. order' = r
    BY DEF r
  <2> QED BY <2>1, <2>2
<1>4. Len(order) \in Nat
  BY <1>1
<1> QED BY <1>2, <1>3, <1>4 DEF Live

\* A request's record, and that of an announcement.
Requests ==
    [at : {"idle", "resolved", "read", "emit"}, id : 0 .. MaxID,
     op : {"none", "update", "remove", "created", "updated", "deleted"}, v : Versions]

\* What is said of an entity stands while it is said, and stays as it is.
LEMMA ToldKept ==
  ASSUME NEW i \in Ids, Told(i), \A op, v : Said(op, i, v)' = Said(op, i, v),
         ver'[i] = ver[i], i \in Live <=> i \in Live'
  PROVE  Told(i)'
<1>1. i \in Created <=> i \in Created'
  BY DEF Created
<1> QED BY <1>1 DEF Told

\* A client's request changes hands; nothing else does.
LEMMA RequestTyped ==
  ASSUME Typed, NEW c \in Clients, NEW r \in Requests, h' = [h EXCEPT ![c] = r]
  PROVE  h' \in [Clients -> Requests] /\ IsFiniteSet(Emitting')
<1>1. h \in [Clients -> Requests]
  BY DEF Typed, TypeOK, Requests, Versions
<1>2. Emitting' \subseteq Emitting \union {c}
  BY <1>1 DEF Emitting
<1>3. IsFiniteSet(Emitting \union {c})
  BY FS_AddElement DEF Typed
<1> QED BY <1>1, <1>2, <1>3, FS_Subset

LEMMA CreateStore ==
  ASSUME StoreInv, NEW c \in Clients, Create(c)
  PROVE  StoreInv'
<1>0. Typed /\ TypeOK /\ Counted
  BY DEF StoreInv, Typed
<1>1. PICK i \in Ids \ Created :
           /\ order' = Append(order, i) /\ ver' = [ver EXCEPT ![i] = 1]
           /\ Announce(c, "created", i, 1) /\ Live' = Live \union {i}
           /\ Created' = Created \union {i} /\ \A j \in Created : j < i
           /\ Len(order') = Len(order) + 1 /\ order'[Len(order) + 1] = i
           /\ \A k \in 1 .. Len(order) : order'[k] = order[k]
           /\ \A j \in Ids : j < i => j \in Created
  BY Grows
<1>2. h[c].at = "idle" /\ UNCHANGED <<events, server, walk, stayed, shrunk>>
  BY DEF Create, MayAsk, Busy
<1>3. Typed'
  <2>1. order' \in Seq(Ids) /\ ver' \in [Ids -> Versions] /\ stayed' \subseteq Live'
    BY <1>0, <1>1, <1>2, BoundsAreSound DEF TypeOK, Versions
  <2>2. Due("created", i, 1) \in Requests /\ h' = [h EXCEPT ![c] = Due("created", i, 1)]
    BY <1>1, BoundsAreSound DEF Due, Requests, Announce, Versions, Ids
  <2>3. h' \in [Clients -> Requests] /\ IsFiniteSet(Emitting')
    BY <1>0, <2>2, RequestTyped
  <2> QED
    BY <1>0, <1>2, <2>1, <2>3 DEF Typed, TypeOK, walk, server, Requests, Versions
<1>4. Counted'
  <2>1. Ordered(order')
    <3> SUFFICES ASSUME NEW j \in 1 .. Len(order'), NEW k \in 1 .. Len(order'), j < k
                 PROVE  order'[j] < order'[k]
      BY DEF Ordered
    <3>1. Len(order) \in Nat /\ j \in 1 .. Len(order) /\ order[j] \in Live
      BY <1>0, <1>1, OrderIs
    <3>2. CASE k = Len(order) + 1
      BY <1>0, <1>1, <3>1, <3>2 DEF Counted
    <3>3. CASE k \in 1 .. Len(order)
      BY <1>0, <1>1, <3>1, <3>3 DEF Counted, Ordered
    <3> QED BY <1>1, <3>1, <3>2, <3>3
  <2>2. Live' \subseteq Created'
    BY <1>0, <1>1 DEF Counted
  <2>3. \A j \in Created', k \in Ids : k < j => k \in Created'
    BY <1>0, <1>1 DEF Counted
  <2>4. \A d \in Clients : h'[d].at # "idle" => h'[d].id \in Created'
    BY <1>0, <1>1 DEF Counted, Announce, TypeOK
  <2> QED BY <2>1, <2>2, <2>3, <2>4 DEF Counted
<1>5. \A op, j, v :
        Said(op, j, v)' = Said(op, j, v) + (IF op = "created" /\ j = i /\ v = 1 THEN 1 ELSE 0)
  BY <1>0, <1>1, <1>2, Announcing
<1>6. ASSUME NEW j \in Ids PROVE Told(j)'
  <2>1. Told(j)
    BY DEF StoreInv
  <2>2. CASE j # i
    <3>1. \A op, v : Said(op, j, v)' = Said(op, j, v)
      BY <1>0, <1>5, <2>2, SaidIsNat
    <3> QED BY <1>0, <1>1, <2>1, <2>2, <3>1, ToldKept DEF TypeOK
  <2>3. CASE j = i
    <3>1. j \in Created' /\ j \notin Created /\ j \in Live' /\ ver[j] = 0 /\ ver'[j] = 1
      BY <1>0, <1>1, <2>3 DEF Created, TypeOK
    <3>2. Said("created", j, 1)' <= 1
      BY <1>0, <1>5, <2>1, <2>3, <3>1, SaidIsNat DEF Told
    <3>3. \A v \in Versions : Said("updated", j, v)' = 0
      BY <1>0, <1>5, <2>1, <3>1, SaidIsNat DEF Told
    <3>4. \A v \in Versions : Said("deleted", j, v)' = 0
      BY <1>0, <1>5, <2>1, <3>1, SaidIsNat DEF Told
    <3>5. 0 \in Versions
      BY BoundsAreSound DEF Versions
    <3> QED BY <3>1, <3>2, <3>3, <3>4, <3>5 DEF Told
  <2> QED BY <2>2, <2>3
<1> QED BY <1>3, <1>4, <1>6 DEF StoreInv

rest == <<server, walk, stayed, shrunk>>

\* A client that only gets on with its request, and emits nothing yet.
LEMMA SilentStore ==
  ASSUME StoreInv, NEW c \in Clients, NEW r \in Requests, h' = [h EXCEPT ![c] = r],
         h[c].at # "emit", r.at # "emit", r.at # "idle" => r.id \in Created,
         UNCHANGED <<tenant, events, rest>>
  PROVE  StoreInv'
<1>0. Typed /\ TypeOK /\ Counted
  BY DEF StoreInv, Typed
<1>1. UNCHANGED <<Live, Created>>
  BY DEF Live, Created, tenant
<1>2. Typed'
  <2>1. h' \in [Clients -> Requests] /\ IsFiniteSet(Emitting')
    BY <1>0, RequestTyped
  <2> QED BY <1>0, <1>1, <2>1
    DEF Typed, TypeOK, tenant, rest, walk, server, Requests, Versions
<1>3. Counted'
  BY <1>0, <1>1 DEF Counted, tenant, Ordered, TypeOK
<1>4. \A op, i, v : Said(op, i, v)' = Said(op, i, v)
  BY <1>0, Silent
<1>5. \A i \in Ids : Told(i)'
  BY <1>1, <1>4, ToldKept DEF tenant, StoreInv
<1> QED BY <1>2, <1>3, <1>5 DEF StoreInv

LEMMA IdleIsSilent == Idle \in Requests /\ Idle.at = "idle"
BY BoundsAreSound DEF Idle, Requests, Versions

LEMMA ResolveStore ==
  ASSUME StoreInv, NEW c \in Clients, NEW op \in {"update", "remove"}, NEW i \in Ids,
         Resolve(c, op, i)
  PROVE  StoreInv'
<1> DEFINE r == [at |-> "resolved", op |-> op, id |-> i, v |-> 0]
<1>1. r \in Requests
  BY BoundsAreSound DEF Requests, Versions, Ids
<1>2. h[c].at = "idle" /\ i \in Created
  BY DEF Resolve, MayAsk, Busy, StoreInv, Counted
<1>3. h' = [h EXCEPT ![c] = r] /\ UNCHANGED <<tenant, events, rest>>
  BY DEF Resolve, rest
<1> QED BY <1>1, <1>2, <1>3, SilentStore

LEMMA ReadDoomedStore ==
  ASSUME StoreInv, NEW c \in Clients, ReadDoomed(c)
  PROVE  StoreInv'
<1> DEFINE r == [h[c] EXCEPT !.at = "read",
                             !.v = IF h[c].id \in Live THEN ver[h[c].id] ELSE 0]
<1>0. TypeOK /\ Counted /\ h[c] \in Requests
  BY DEF StoreInv, Typed, TypeOK, Requests, Versions
<1>1. Live \subseteq Ids /\ ver \in [Ids -> Versions] /\ 0 \in Versions
  BY <1>0, OrderIs, BoundsAreSound DEF TypeOK, Versions
<1>2. r \in Requests /\ r.at = "read" /\ r.id = h[c].id
  BY <1>0, <1>1 DEF Requests
<1>3. h[c].at = "resolved" /\ h[c].id \in Created
  BY <1>0 DEF ReadDoomed, Counted
<1>4. h' = [h EXCEPT ![c] = r] /\ UNCHANGED <<tenant, events, rest>>
  BY <1>0 DEF ReadDoomed, rest, TypeOK
<1> QED BY <1>2, <1>3, <1>4, SilentStore

LEMMA UpdateStore ==
  ASSUME StoreInv, NEW c \in Clients, NEW want, Update(c, want)
  PROVE  StoreInv'
<1> DEFINE i == h[c].id
           w == ver[i] + 1
<1>0. Typed /\ TypeOK /\ Counted
  BY DEF StoreInv, Typed
<1>1. h[c].at = "resolved" /\ UNCHANGED <<order, events, server, walk, stayed, shrunk>>
  BY DEF Update
<1>2. CASE i \notin Live \/ want \notin {0, ver[i]}
  <2>1. h' = [h EXCEPT ![c] = Idle] /\ UNCHANGED <<tenant, events, rest>>
    BY <1>1, <1>2 DEF Update, tenant, rest
  <2> QED BY <1>1, <2>1, IdleIsSilent, SilentStore
<1>3. CASE i \in Live /\ want \in {0, ver[i]}
  <2>1. /\ ver[i] < MaxVersion /\ ver' = [ver EXCEPT ![i] = @ + 1]
        /\ Announce(c, "updated", i, w)
    BY <1>3 DEF Update
  <2>2. i \in Ids /\ i \in Created /\ ver[i] \in Versions /\ ver[i] # 0
    BY <1>0, <1>3, OrderIs DEF Counted, Created, TypeOK, Versions
  <2>3. w \in Versions /\ w \in Nat /\ ver' \in [Ids -> Versions] /\ ver'[i] = w
    BY <1>0, <2>1, <2>2, BoundsAreSound DEF Versions, TypeOK
  <2>4. UNCHANGED <<Live, Created>>
    BY <1>0, <1>1, <2>1, <2>2, <2>3, BoundsAreSound DEF Live, Created, Versions, TypeOK
  <2> HIDE DEF i, w
  <2>5. Typed'
    <3>1. Due("updated", i, w) \in Requests /\ h' = [h EXCEPT ![c] = Due("updated", i, w)]
      BY <2>1, <2>2, <2>3 DEF Due, Requests, Announce, Ids
    <3>2. h' \in [Clients -> Requests] /\ IsFiniteSet(Emitting')
      BY <1>0, <3>1, RequestTyped
    <3> QED
      BY <1>0, <1>1, <2>3, <2>4, <3>2 DEF Typed, TypeOK, walk, server, Requests, Versions
  <2>6. Counted'
    BY <1>0, <1>1, <2>1, <2>2, <2>4 DEF Counted, Announce, TypeOK, Ordered
  <2>7. \A op, j, v :
          Said(op, j, v)' = Said(op, j, v) + (IF op = "updated" /\ j = i /\ v = w THEN 1 ELSE 0)
    BY <1>0, <1>1, <2>1, Announcing
  <2>8. ASSUME NEW j \in Ids PROVE Told(j)'
    <3>1. Told(j)
      BY DEF StoreInv
    <3>2. CASE j # i
      <4>1. \A op, v : Said(op, j, v)' = Said(op, j, v)
        BY <1>0, <2>7, <3>2, SaidIsNat
      <4> QED BY <1>0, <2>1, <2>4, <3>1, <3>2, <4>1, ToldKept DEF TypeOK
    <3>3. CASE j = i
      <4>1. \A v \in Versions : /\ Said("created", j, v)' = Said("created", j, v)
                                /\ Said("deleted", j, v)' = Said("deleted", j, v)
        BY <1>0, <2>7, SaidIsNat
      <4>2. Said("created", j, 1)' = Said("created", j, 1)
        BY <1>0, <2>7, SaidIsNat
      <4>3. ASSUME NEW v \in Versions
            PROVE  Said("updated", j, v)' = (IF v \in 2 .. ver'[j] THEN 1 ELSE 0)
        <5>1. Said("updated", j, v) = (IF v \in 2 .. ver[j] THEN 1 ELSE 0)
          BY <3>1 DEF Told
        <5>2. ver[j] \in Nat /\ ver[j] # 0 /\ w = ver[j] + 1 /\ ver'[j] = w /\ v \in Nat
          BY <2>2, <2>3, <3>3, BoundsAreSound DEF w, Versions
        <5>3. CASE v = w
          BY <2>7, <3>3, <5>1, <5>2, <5>3
        <5>4. CASE v # w
          BY <2>7, <3>3, <5>1, <5>2, <5>4
        <5> QED BY <5>3, <5>4
      <4> QED BY <2>4, <3>1, <4>1, <4>2, <4>3 DEF Told
    <3> QED BY <3>2, <3>3
  <2> QED BY <2>5, <2>6, <2>8 DEF StoreInv
<1> QED BY <1>2, <1>3

LEMMA DeleteStore ==
  ASSUME StoreInv, NEW c \in Clients, Delete(c)
  PROVE  StoreInv'
<1> DEFINE i == h[c].id
           w == h[c].v
<1>0. Typed /\ TypeOK /\ Counted
  BY DEF StoreInv, Typed
<1>1. h[c].at = "read" /\ UNCHANGED <<ver, events, server, walk>>
  BY DEF Delete
<1>2. CASE i \notin Live
  <2>1. h' = [h EXCEPT ![c] = Idle] /\ UNCHANGED <<tenant, events, rest>>
    BY <1>1, <1>2 DEF Delete, tenant, rest
  <2> QED BY <1>1, <2>1, IdleIsSilent, SilentStore
<1>3. CASE i \in Live
  <2>1. /\ order' = RemoveFirst(order, i) /\ stayed' = stayed \ {i} /\ shrunk' = TRUE
        /\ Announce(c, "deleted", i, w)
    BY <1>3 DEF Delete
  <2>2. i \in Ids /\ i \in Created /\ w \in Versions
    BY <1>0, <1>3, OrderIs DEF Counted, TypeOK, Versions
  <2>3. order' \in Seq(Ids) /\ Ordered(order') /\ Live' = Live \ {i} /\ Created' = Created
    BY <1>0, <1>1, <1>3, <2>1, Shrinks DEF Created
  <2> HIDE DEF i, w
  <2>4. Typed'
    <3>1. Due("deleted", i, w) \in Requests /\ h' = [h EXCEPT ![c] = Due("deleted", i, w)]
      BY <2>1, <2>2 DEF Due, Requests, Announce, Ids
    <3>2. h' \in [Clients -> Requests] /\ IsFiniteSet(Emitting')
      BY <1>0, <3>1, RequestTyped
    <3> QED
      BY <1>0, <1>1, <2>1, <2>3, <3>2 DEF Typed, TypeOK, walk, server, Requests, Versions
  <2>5. Counted'
    BY <1>0, <2>1, <2>2, <2>3 DEF Counted, Announce, TypeOK
  <2>6. \A op, j, v :
          Said(op, j, v)' = Said(op, j, v) + (IF op = "deleted" /\ j = i /\ v = w THEN 1 ELSE 0)
    BY <1>0, <1>1, <2>1, Announcing
  <2>7. ASSUME NEW j \in Ids PROVE Told(j)'
    <3>1. Told(j)
      BY DEF StoreInv
    <3>2. CASE j # i
      <4>1. \A op, v : Said(op, j, v)' = Said(op, j, v)
        BY <1>0, <2>6, <3>2, SaidIsNat
      <4> QED BY <1>1, <2>3, <3>1, <3>2, <4>1, ToldKept
    <3>3. CASE j = i
      <4>1. \A v \in Versions : Said("updated", j, v)' = Said("updated", j, v)
        BY <1>0, <2>6, SaidIsNat
      <4>2. Said("created", j, 1)' = Said("created", j, 1)
        BY <1>0, <2>6, SaidIsNat
      <4>3. \A v \in Versions : Said("deleted", j, v)' = (IF v = w THEN 1 ELSE 0)
        <5>1. \A v \in Versions : Said("deleted", j, v) = 0
          BY <1>3, <3>1, <3>3 DEF Told, i
        <5> QED BY <2>6, <3>3, <5>1
      <4>4. j \in Created' \ Live' /\ j \in Created
        BY <2>2, <2>3, <3>3
      <4> QED BY <1>1, <2>2, <3>1, <4>1, <4>2, <4>3, <4>4 DEF Told
    <3> QED BY <3>2, <3>3
  <2> QED BY <2>4, <2>5, <2>7 DEF StoreInv
<1> QED BY <1>2, <1>3

LEMMA EmitStore ==
  ASSUME StoreInv, NEW c \in Clients, Emit(c)
  PROVE  StoreInv'
<1>0. Typed /\ TypeOK /\ Counted
  BY DEF StoreInv, Typed
<1>1. h' = [h EXCEPT ![c] = Idle] /\ UNCHANGED <<tenant, rest>>
  BY DEF Emit, rest
<1>2. UNCHANGED <<Live, Created>>
  BY <1>1 DEF Live, Created, tenant
<1>3. Typed'
  <2>1. h' \in [Clients -> Requests] /\ IsFiniteSet(Emitting')
    BY <1>0, <1>1, IdleIsSilent, RequestTyped
  <2>2. IsABag(events')
    <3> DEFINE e == [op |-> h[c].op, id |-> h[c].id, v |-> h[c].v]
    <3>1. events' = events (+) SetToBag({e})
      BY DEF Emit
    <3> HIDE DEF e
    <3> QED BY <1>0, <3>1 DEF Typed, IsABag, SetToBag, (+)
  <2> QED BY <1>0, <1>1, <1>2, <2>1, <2>2
    DEF Typed, TypeOK, tenant, rest, walk, server, Requests, Versions
<1>4. Counted'
  BY <1>0, <1>1, <1>2, IdleIsSilent DEF Counted, tenant, Ordered, TypeOK
<1>5. \A op, i, v : Said(op, i, v)' = Said(op, i, v)
  BY <1>0, Emitted
<1>6. \A i \in Ids : Told(i)'
  BY <1>1, <1>2, <1>5, ToldKept DEF tenant, StoreInv
<1> QED BY <1>3, <1>4, <1>6 DEF StoreInv

----------------------------------------------------------------------------
(* The walk, while others change the collection *)

LEMMA WalkWaits ==
  ASSUME WalkInv, Created \subseteq Created', UNCHANGED <<order, rest>>
  PROVE  WalkInv'
<1>1. UNCHANGED <<order, kind, at, after, got, cap, honest, stayed, shrunk>> /\ Live' = Live
  BY DEF rest, walk, server, Live
<1>2. Yielded'
  BY <1>1 DEF WalkInv, Yielded, Ordered
<1>3. SearchGoesOn' /\ ListGoesOn' /\ Undisturbed' /\ WholeAnswer' /\ NoFalseAlarm'
  BY <1>1 DEF WalkInv, SearchGoesOn, ListGoesOn, Undisturbed, WholeAnswer, NoFalseAlarm
<1> QED BY <1>2, <1>3 DEF WalkInv

LEMMA CreateWalk ==
  ASSUME StoreInv, WalkInv, NEW c \in Clients, Create(c)
  PROVE  WalkInv'
<1>0. TypeOK /\ Counted /\ Len(order) \in Nat
  BY OrderIs DEF StoreInv, Typed
<1>1. PICK i \in Ids \ Created :
           /\ Live' = Live \union {i} /\ Created' = Created \union {i} /\ \A j \in Created : j < i
           /\ Len(order') = Len(order) + 1 /\ order'[Len(order) + 1] = i
           /\ \A k \in 1 .. Len(order) : order'[k] = order[k]
  BY Grows
<1>2. UNCHANGED <<kind, at, after, got, cap, honest, stayed, shrunk>>
  BY DEF Create, walk, server
<1>3. Yielded'
  BY <1>1, <1>2 DEF WalkInv, Yielded, Ordered
<1>4. SearchGoesOn'
  <2> SUFFICES ASSUME at = "walk", kind = "search", NEW k \in 1 .. Len(order'), after < k,
                      NEW g \in ToSet(got)
               PROVE  g < order'[k]
    BY <1>2 DEF SearchGoesOn
  <2>1. CASE k = Len(order) + 1
    BY <1>1, <2>1 DEF WalkInv, Yielded
  <2>2. CASE k \in 1 .. Len(order)
    BY <1>1, <2>2 DEF WalkInv, SearchGoesOn
  <2> QED BY <1>0, <1>1, <2>1, <2>2
<1>5. Undisturbed'
  <2>1. Len(got) \in Nat
    BY <1>0 DEF TypeOK
  <2> QED BY <1>0, <1>1, <1>2, <2>1 DEF WalkInv, Undisturbed
<1>6. ListGoesOn' /\ WholeAnswer' /\ NoFalseAlarm'
  BY <1>2 DEF WalkInv, ListGoesOn, WholeAnswer, NoFalseAlarm
<1> QED BY <1>3, <1>4, <1>5, <1>6 DEF WalkInv

LEMMA DeleteWalk ==
  ASSUME StoreInv, WalkInv, NEW c \in Clients, Delete(c)
  PROVE  WalkInv'
<1> DEFINE i == h[c].id
<1>0. TypeOK /\ Counted
  BY DEF StoreInv, Typed
<1>1. UNCHANGED <<ver, kind, at, after, got, cap, honest>> /\ Created' = Created
  BY DEF Delete, walk, server, Created
<1>2. CASE i \notin Live
  BY <1>1, <1>2, WalkWaits DEF Delete, rest, walk, server
<1>3. CASE i \in Live
  <2>1. order' = RemoveFirst(order, i) /\ stayed' = stayed \ {i} /\ shrunk' = TRUE
    BY <1>3 DEF Delete
  <2> HIDE DEF i
  <2>2. /\ Live' = Live \ {i} /\ order' \in Seq(Ids)
        /\ \A k \in 1 .. Len(order') :
             \E m \in 1 .. Len(order) : k <= m /\ order'[k] = order[m]
    BY <1>0, <1>3, <2>1, Shrinks
  <2>3. Yielded'
    BY <1>1, <2>2 DEF WalkInv, Yielded, Ordered
  <2>4. SearchGoesOn'
    <3> SUFFICES ASSUME at = "walk", kind = "search", NEW k \in 1 .. Len(order'), after < k,
                        NEW g \in ToSet(got)
                 PROVE  g < order'[k]
      BY <1>1 DEF SearchGoesOn
    <3>1. PICK m \in 1 .. Len(order) : k <= m /\ order'[k] = order[m]
      BY <2>2
    <3>2. after < m
      BY <3>1 DEF StoreInv, Typed
    <3> QED BY <3>1, <3>2 DEF WalkInv, SearchGoesOn
  <2>5. ListGoesOn'
    BY <1>1, <2>1 DEF WalkInv, ListGoesOn
  <2>6. Undisturbed'
    BY <2>1 DEF Undisturbed
  <2>7. WholeAnswer' /\ NoFalseAlarm'
    BY <1>1, <2>1 DEF WalkInv, WholeAnswer, NoFalseAlarm
  <2> QED BY <2>3, <2>4, <2>5, <2>6, <2>7 DEF WalkInv
<1> QED BY <1>2, <1>3

----------------------------------------------------------------------------
(* Pages *)

\* A page is what follows its start, as long as the server gives it, and never empty
\* before the end.
LEMMA PageIs ==
  ASSUME TypeOK, cap \in Caps, NEW start \in 0 .. Len(order)
  PROVE  LET page == PageFrom(start) IN
           /\ page \in Seq(Ids) /\ Len(page) \in Nat
           /\ Len(page) <= Len(order) - start
           /\ Len(page) = Len(order) - start \/ Len(page) = Least(Size, cap)
           /\ Least(Size, cap) \in Nat \ {0}
           /\ \A k \in 1 .. Len(page) : page[k] = order[start + k]
<1> DEFINE n == Least(Size, cap)
           end == Least(start + n, Len(order))
<1>1. n \in Nat \ {0}
  BY BoundsAreSound DEF Least
<1>2. order \in Seq(Ids) /\ Len(order) \in Nat
  BY OrderIs
<1> HIDE DEF n
<1>3. end \in start .. Len(order) /\ (end = Len(order) \/ end = start + n)
  BY <1>1, <1>2 DEF Least
<1> HIDE DEF end
<1>4. PageFrom(start) = SubSeq(order, start + 1, end)
  BY DEF PageFrom, end, n
<1> DEFINE p == SubSeq(order, start + 1, end)
<1>5. /\ p \in Seq(Ids)
      /\ Len(p) = (IF start + 1 <= end THEN end - (start + 1) + 1 ELSE 0)
      /\ \A k \in 1 .. end - (start + 1) + 1 : p[k] = order[(start + 1) + k - 1]
  <2>1. ASSUME NEW k \in start + 1 .. end PROVE order[k] \in Ids
    <3>1. k \in 1 .. Len(order)
      BY <1>2, <1>3
    <3> QED BY <3>1, OrderIs
  <2> QED BY <1>2, <1>3, <2>1, SubSeqProperties
<1> HIDE DEF p
<1>6. Len(p) = end - start
  BY <1>2, <1>3, <1>5
<1>7. ASSUME NEW k \in 1 .. Len(p) PROVE p[k] = order[start + k]
  <2>1. k \in 1 .. end - (start + 1) + 1 /\ (start + 1) + k - 1 = start + k
    BY <1>2, <1>3, <1>6
  <2> QED BY <1>5, <2>1
<1> QED BY <1>1, <1>2, <1>3, <1>4, <1>5, <1>6, <1>7 DEF n, p

\* What is left of a page once maxItems is reached is cut off.
LEMMA Joined ==
  ASSUME TypeOK, NEW page \in Seq(Ids)
  PROVE  \E n \in 0 .. Len(page) :
           LET next == got \o Taken(page) IN
           /\ ~Cut(page) => n = Len(page)
           /\ next \in Seq(Ids) /\ Len(next) = Len(got) + n
           /\ \A k \in 1 .. Len(got) : next[k] = got[k]
           /\ \A k \in 1 .. n : next[Len(got) + k] = page[k]
           /\ ToSet(next) = ToSet(got) \union {page[k] : k \in 1 .. n}
<1> DEFINE m == Least(Room, Len(page))
           n == IF 1 <= m THEN m ELSE 0
           t == SubSeq(page, 1, m)
           next == got \o t
<1>1. got \in Seq(Ids) /\ Len(got) \in Nat /\ Len(page) \in Nat
  BY DEF TypeOK
<1>2. m \in Int /\ m <= Len(page) /\ (~Cut(page) => m = Len(page))
  BY <1>1, BoundsAreSound DEF Least, Room, Cut
<1>3. Taken(page) = t
  BY DEF Taken
<1> HIDE DEF m
<1>4. n \in 0 .. Len(page) /\ (~Cut(page) => n = Len(page))
  BY <1>1, <1>2
<1>5. t \in Seq(Ids) /\ Len(t) = n /\ \A k \in 1 .. n : t[k] = page[k]
  <2>1. ASSUME NEW k \in 1 .. m PROVE page[k] \in Ids
    <3>1. k \in 1 .. Len(page)
      BY <1>1, <1>2
    <3> QED BY <3>1, ElementOfSeq
  <2>2. /\ t \in Seq(Ids) /\ Len(t) = (IF 1 <= m THEN m - 1 + 1 ELSE 0)
        /\ \A k \in 1 .. m - 1 + 1 : t[k] = page[1 + k - 1]
    BY <1>2, <2>1, SubSeqProperties
  <2>3. ASSUME NEW k \in 1 .. n PROVE t[k] = page[k]
    <3>1. k \in 1 .. m - 1 + 1 /\ 1 + k - 1 = k
      BY <1>2
    <3> QED BY <2>2, <3>1
  <2> QED BY <1>2, <2>2, <2>3
<1> HIDE DEF n, t
<1>6. /\ next \in Seq(Ids) /\ Len(next) = Len(got) + n
      /\ \A k \in 1 .. Len(got) + n :
           next[k] = IF k <= Len(got) THEN got[k] ELSE t[k - Len(got)]
  BY <1>1, <1>5, ConcatProperties
<1> HIDE DEF next
<1>7. \A k \in 1 .. Len(got) : next[k] = got[k]
  BY <1>1, <1>4, <1>6
<1>8. ASSUME NEW k \in 1 .. n PROVE next[Len(got) + k] = page[k]
  <2>1. Len(got) + k \in 1 .. Len(got) + n /\ ~(Len(got) + k <= Len(got))
        /\ Len(got) + k - Len(got) = k
    BY <1>1, <1>4
  <2> QED BY <1>5, <1>6, <2>1
<1>9. ToSet(next) = ToSet(got) \union {page[k] : k \in 1 .. n}
  <2>1. DOMAIN next = 1 .. Len(got) + n /\ DOMAIN got = 1 .. Len(got)
    BY <1>1, <1>6, LenProperties
  <2>2. ASSUME NEW x \in ToSet(next) PROVE x \in ToSet(got) \union {page[k] : k \in 1 .. n}
    <3>1. PICK k \in 1 .. Len(got) + n : next[k] = x
      BY <2>1 DEF ToSet
    <3>2. CASE k <= Len(got)
      BY <1>1, <1>7, <2>1, <3>1, <3>2 DEF ToSet
    <3>3. CASE k > Len(got)
      <4>1. k - Len(got) \in 1 .. n /\ Len(got) + (k - Len(got)) = k
        BY <1>1, <1>4, <3>3
      <4> QED BY <1>8, <3>1, <4>1
    <3> QED BY <1>1, <1>4, <3>2, <3>3
  <2>3. ToSet(got) \subseteq ToSet(next)
    BY <1>1, <1>4, <1>7, <2>1 DEF ToSet
  <2>4. ASSUME NEW k \in 1 .. n PROVE page[k] \in ToSet(next)
    <3>1. Len(got) + k \in 1 .. Len(got) + n
      BY <1>1, <1>4
    <3> QED BY <1>8, <2>1, <3>1 DEF ToSet
  <2> QED BY <2>2, <2>3, <2>4
<1> QED BY <1>3, <1>4, <1>6, <1>7, <1>8, <1>9 DEF next

\* Every entity of the collection comes before the page, or is on it, or comes after it.
LEMMA OnPage ==
  ASSUME TypeOK, cap \in Caps, NEW start \in 0 .. Len(order), NEW k \in 1 .. Len(order),
         start < k, k <= start + Len(PageFrom(start))
  PROVE  \E m \in 1 .. Len(PageFrom(start)) : PageFrom(start)[m] = order[k]
<1> DEFINE page == PageFrom(start)
<1>1. /\ Len(page) \in Nat /\ \A m \in 1 .. Len(page) : page[m] = order[start + m]
      /\ Len(order) \in Nat
  BY PageIs, OrderIs
<1> HIDE DEF page
<1>2. k - start \in 1 .. Len(page) /\ start + (k - start) = k
  BY <1>1 DEF page
<1>3. page[k - start] = order[k]
  BY <1>1, <1>2
<1> QED BY <1>2, <1>3 DEF page

\* A page whose items come after all that was yielded keeps the yield in order.
LEMMA YieldGrows ==
  ASSUME StoreInv, WalkInv, NEW start \in 0 .. Len(order),
         got' = got \o Taken(PageFrom(start)), UNCHANGED <<order, ver, kind>>,
         \/ /\ Ordered(got)
            /\ \A k \in 1 .. Len(order), g \in ToSet(got) : start < k => g < order[k]
         \/ kind = "list" /\ ~(ToSet(got) \subseteq Live)
  PROVE  Yielded'
<1> DEFINE page == PageFrom(start)
<1>0. TypeOK /\ Counted /\ cap \in Caps /\ Len(order) \in Nat /\ Len(got) \in Nat
  BY OrderIs DEF StoreInv, Typed, TypeOK
<1>1. UNCHANGED <<Live, Created, kind>>
  BY DEF Live, Created
<1>2. /\ page \in Seq(Ids) /\ Len(page) \in Nat /\ Len(page) <= Len(order) - start
      /\ \A k \in 1 .. Len(page) : page[k] = order[start + k]
  BY <1>0, PageIs
<1> HIDE DEF page
<1>3. PICK n \in 0 .. Len(page) :
           /\ got' \in Seq(Ids) /\ Len(got') = Len(got) + n
           /\ \A k \in 1 .. Len(got) : got'[k] = got[k]
           /\ \A k \in 1 .. n : got'[Len(got) + k] = page[k]
           /\ ToSet(got') = ToSet(got) \union {page[k] : k \in 1 .. n}
  BY <1>0, <1>2, Joined DEF page
<1>4. \A k \in 1 .. n : /\ start + k \in 1 .. Len(order) /\ start < start + k
                        /\ page[k] = order[start + k]
  BY <1>0, <1>2
<1>5. ToSet(got') \subseteq Created'
  BY <1>0, <1>1, <1>3, <1>4, OrderIs DEF Counted, WalkInv, Yielded
<1>6. ASSUME Ordered(got),
             \A k \in 1 .. Len(order), g \in ToSet(got) : start < k => g < order[k]
      PROVE  Ordered(got')
  <2> SUFFICES ASSUME NEW j \in 1 .. Len(got'), NEW k \in 1 .. Len(got'), j < k
               PROVE  got'[j] < got'[k]
    BY DEF Ordered
  <2>1. CASE k <= Len(got)
    BY <1>0, <1>3, <1>6, <2>1 DEF Ordered
  <2>2. CASE k > Len(got)
    <3> DEFINE b == k - Len(got)
    <3>1. b \in 1 .. n /\ Len(got) + b = k
      BY <1>0, <1>3, <2>2
    <3>2. got'[k] = order[start + b] /\ start + b \in 1 .. Len(order) /\ start < start + b
      BY <1>3, <1>4, <3>1
    <3>3. CASE j <= Len(got)
      <4>1. got'[j] \in ToSet(got)
        BY <1>0, <1>3, <3>3, LenProperties DEF TypeOK, ToSet
      <4> QED BY <1>6, <3>2, <4>1
    <3>4. CASE j > Len(got)
      <4> DEFINE a == j - Len(got)
      <4>1. a \in 1 .. n /\ Len(got) + a = j /\ start + a < start + b
        BY <1>0, <1>3, <3>1, <3>4
      <4>2. got'[j] = order[start + a] /\ start + a \in 1 .. Len(order)
        BY <1>3, <1>4, <4>1
      <4> QED BY <1>0, <3>2, <4>1, <4>2 DEF Counted, Ordered
    <3> QED BY <1>0, <1>3, <3>3, <3>4
  <2> QED BY <1>0, <1>3, <2>1, <2>2
<1>7. ToSet(got) \subseteq ToSet(got')
  BY <1>3
<1> QED BY <1>1, <1>5, <1>6, <1>7 DEF Yielded

\* As long as nothing is deleted, the next page begins after what was yielded.
LEMMA PrefixGrows ==
  ASSUME TypeOK, cap \in Caps, got' = got \o Taken(PageFrom(Len(got))), UNCHANGED order,
         Len(got) <= Len(order), \A k \in 1 .. Len(got) : got[k] = order[k]
  PROVE  /\ Len(got') <= Len(order) /\ \A k \in 1 .. Len(got') : got'[k] = order[k]
         /\ ~Cut(PageFrom(Len(got))) => Len(got') = Len(got) + Len(PageFrom(Len(got)))
         /\ Len(got') >= Len(order) => Live \subseteq ToSet(got')
<1> DEFINE start == Len(got)
           page == PageFrom(start)
<1>0. Len(order) \in Nat /\ start \in 0 .. Len(order)
  BY OrderIs DEF TypeOK
<1>2. /\ page \in Seq(Ids) /\ Len(page) \in Nat /\ Len(page) <= Len(order) - start
      /\ \A k \in 1 .. Len(page) : page[k] = order[start + k]
  BY <1>0, PageIs
<1> HIDE DEF page
<1>3. PICK n \in 0 .. Len(page) :
           /\ ~Cut(page) => n = Len(page)
           /\ got' \in Seq(Ids) /\ Len(got') = Len(got) + n
           /\ \A k \in 1 .. Len(got) : got'[k] = got[k]
           /\ \A k \in 1 .. n : got'[Len(got) + k] = page[k]
  BY <1>0, <1>2, Joined DEF page
<1>4. Len(got') <= Len(order)
  BY <1>0, <1>2, <1>3
<1>5. ASSUME NEW k \in 1 .. Len(got') PROVE got'[k] = order[k]
  <2>1. CASE k <= start
    BY <1>0, <1>3, <2>1
  <2>2. CASE k > start
    <3>1. k - start \in 1 .. n /\ start + (k - start) = k
      BY <1>0, <1>3, <2>2
    <3> QED BY <1>0, <1>2, <1>3, <3>1
  <2> QED BY <1>0, <1>3, <2>1, <2>2
<1>6. ASSUME Len(got') >= Len(order) PROVE Live \subseteq ToSet(got')
  <2>1. Len(got') = Len(order)
    BY <1>0, <1>3, <1>4, <1>6
  <2>2. DOMAIN got' = 1 .. Len(got') /\ DOMAIN order = 1 .. Len(order)
    BY <1>3, LenProperties, OrderIs
  <2>3. ASSUME NEW x \in Live PROVE x \in ToSet(got')
    <3>1. PICK k \in 1 .. Len(order) : order[k] = x
      BY <2>2 DEF Live, ToSet
    <3> QED BY <1>5, <2>1, <2>2, <3>1 DEF ToSet
  <2> QED BY <2>3
<1> QED BY <1>3, <1>4, <1>5, <1>6 DEF page

----------------------------------------------------------------------------
(* The search *)

LEMMA SearchWalk ==
  ASSUME StoreInv, WalkInv, SearchNext
  PROVE  WalkInv' /\ after' \in Nat
<1> DEFINE start == Least(after, Len(order))
           page == PageFrom(start)
           end == start + Len(page)
<1>0. /\ TypeOK /\ Counted /\ cap \in Caps /\ after \in Nat
      /\ Len(order) \in Nat /\ Len(got) \in Nat
  BY OrderIs DEF StoreInv, Typed, TypeOK
<1>1. start \in 0 .. Len(order) /\ start <= after /\ (start = after \/ start = Len(order))
  BY <1>0 DEF Least
<1>2. /\ at = "walk" /\ kind = "search" /\ got' = got \o Taken(page)
      /\ UNCHANGED <<order, ver, cap, honest, kind, stayed, shrunk>>
      /\ \/ Cut(page) /\ Stop("truncated")
         \/ ~Cut(page) /\ end >= Len(order) /\ Stop("end")
         \/ ~Cut(page) /\ end < Len(order) /\ IF end = after THEN Stop("error") ELSE GoOn(end)
  BY DEF SearchNext, SearchPage, SearchEnd, tenant, server
<1>3. /\ Len(page) \in Nat /\ page \in Seq(Ids) /\ Len(page) <= Len(order) - start
      /\ Len(page) = Len(order) - start \/ Len(page) = Least(Size, cap)
      /\ Least(Size, cap) \in Nat \ {0}
      /\ \A k \in 1 .. Len(page) : page[k] = order[start + k]
  BY <1>0, <1>1, PageIs
<1>4. \A k \in 1 .. Len(order), g \in ToSet(got) : start < k => g < order[k]
  BY <1>0, <1>1, <1>2 DEF WalkInv, SearchGoesOn
<1>5. Ordered(got)
  BY <1>2 DEF WalkInv, Yielded
<1>6. Yielded'
  BY <1>1, <1>2, <1>4, <1>5, YieldGrows
<1>7. PICK n \in 0 .. Len(page) :
           ToSet(got') = ToSet(got) \union {page[k] : k \in 1 .. n}
  BY <1>0, <1>2, <1>3, Joined
<1>8. ~shrunk => /\ after = Len(got) /\ start = Len(got)
                 /\ Len(got') <= Len(order) /\ \A k \in 1 .. Len(got') : got'[k] = order[k]
                 /\ ~Cut(page) => Len(got') = Len(got) + Len(page)
                 /\ Len(got') >= Len(order) => Live \subseteq ToSet(got')
  <2> SUFFICES ASSUME ~shrunk
               PROVE  /\ after = Len(got) /\ start = Len(got)
                      /\ Len(got') <= Len(order) /\ \A k \in 1 .. Len(got') : got'[k] = order[k]
                      /\ ~Cut(page) => Len(got') = Len(got) + Len(page)
                      /\ Len(got') >= Len(order) => Live \subseteq ToSet(got')
    OBVIOUS
  <2>1. /\ after = Len(got) /\ Len(got) <= Len(order)
        /\ \A k \in 1 .. Len(got) : got[k] = order[k]
    BY <1>2 DEF WalkInv, Undisturbed
  <2>2. start = Len(got)
    BY <1>0, <2>1 DEF Least
  <2> HIDE DEF start
  <2> QED BY <1>0, <1>2, <2>1, <2>2, PrefixGrows
<1> HIDE DEF page, start
<1>9. CASE Cut(page) /\ Stop("truncated")
  <2>1. at' = "truncated" /\ after' = after
    BY <1>9 DEF Stop
  <2> QED BY <1>0, <1>6, <2>1
    DEF WalkInv, SearchGoesOn, ListGoesOn, Undisturbed, WholeAnswer, NoFalseAlarm
<1>10. CASE ~Cut(page) /\ end >= Len(order) /\ Stop("end")
  <2>1. at' = "end" /\ after' = after
    BY <1>10 DEF Stop
  <2>2. ~shrunk => Live \subseteq ToSet(got')
    BY <1>8, <1>10
  <2>3. stayed \subseteq Live
    BY <1>0 DEF TypeOK
  <2>4. WholeAnswer'
    BY <1>2, <2>2, <2>3 DEF WholeAnswer
  <2> QED BY <1>0, <1>6, <2>1, <2>4
    DEF WalkInv, SearchGoesOn, ListGoesOn, Undisturbed, NoFalseAlarm
<1>11. CASE ~Cut(page) /\ end < Len(order) /\ IF end = after THEN Stop("error") ELSE GoOn(end)
  <2>1. start = after /\ end # after /\ end \in Nat
    BY <1>0, <1>1, <1>3, <1>11
  <2>2. at' = at /\ after' = end
    BY <1>11, <2>1 DEF GoOn
  <2>3. SearchGoesOn'
    <3> SUFFICES ASSUME NEW k \in 1 .. Len(order), end < k, NEW g \in ToSet(got')
                 PROVE  g < order[k]
      BY <1>2, <2>2 DEF SearchGoesOn
    <3>1. CASE g \in ToSet(got)
      BY <1>0, <1>1, <1>3, <1>4, <3>1
    <3>2. CASE \E m \in 1 .. n : g = page[m]
      <4>1. PICK m \in 1 .. n : g = page[m]
        BY <3>2
      <4>2. m \in 1 .. Len(page)
        BY <1>3
      <4>3. g = order[start + m]
        BY <1>3, <4>1, <4>2
      <4>4. start + m \in 1 .. Len(order) /\ start + m < k
        BY <1>0, <1>1, <1>3, <4>2
      <4> QED BY <1>0, <4>3, <4>4 DEF Counted, Ordered
    <3> QED BY <1>7, <3>1, <3>2
  <2>4. Undisturbed'
    BY <1>2, <1>8, <1>11, <2>2 DEF Undisturbed
  <2>5. ListGoesOn' /\ WholeAnswer' /\ NoFalseAlarm'
    BY <1>2, <2>2 DEF ListGoesOn, WholeAnswer, NoFalseAlarm
  <2> QED BY <1>6, <2>1, <2>2, <2>3, <2>4, <2>5 DEF WalkInv
<1> QED BY <1>2, <1>9, <1>10, <1>11

----------------------------------------------------------------------------
(* The list *)

\* A list goes on after the place of the last id, or from the top without it.
LEMMA StartIs ==
  ASSUME TypeOK, Counted, after \in Nat
  PROVE  IF after \in Live
         THEN StartAfterID \in 1 .. Len(order) /\ order[StartAfterID] = after
         ELSE StartAfterID = 0
<1>1. order \in Seq(Ids) /\ Ordered(order)
  BY DEF TypeOK, Counted
<1> HIDE DEF Ids
<1> QED BY <1>1, Place, IdsAreNaturals DEF StartAfterID, Live

LEMMA ListWalk ==
  ASSUME StoreInv, WalkInv, ListNext
  PROVE  WalkInv' /\ after' \in Nat
<1> DEFINE start == StartAfterID
           page == PageFrom(start)
<1>0. /\ TypeOK /\ Counted /\ cap \in Caps /\ after \in Nat
      /\ Len(order) \in Nat /\ Len(got) \in Nat /\ DOMAIN got = 1 .. Len(got)
      /\ \A k \in 1 .. Len(got) : got[k] \in Ids /\ got[k] \in ToSet(got)
      /\ \A k \in 1 .. Len(order) : order[k] \in Ids /\ order[k] \in Live
  <2>1. TypeOK /\ Counted /\ cap \in Caps /\ after \in Nat /\ got \in Seq(Ids)
    BY DEF StoreInv, Typed, TypeOK
  <2>2. \A k \in 1 .. Len(got) : got[k] \in Ids /\ got[k] \in ToSet(got)
    BY <2>1, LenProperties, ElementOfSeq DEF ToSet
  <2> QED BY <2>1, <2>2, OrderIs, LenProperties
<1>1. /\ start \in 0 .. Len(order)
      /\ IF after \in Live THEN start # 0 /\ order[start] = after ELSE start = 0
  BY <1>0, StartIs
<1>2. /\ at = "walk" /\ kind = "list" /\ got' = got \o Taken(page)
      /\ UNCHANGED <<order, ver, cap, honest, kind, stayed, shrunk>>
      /\ \/ Cut(page) /\ Stop("truncated")
         \/ ~Cut(page) /\ \E total \in Totals :
              IF Over(page, total) THEN Stop("end")
              ELSE LET next == IF page = <<>> THEN after ELSE Last(page)
                   IN  IF page # <<>> /\ next = after THEN Stop("error") ELSE GoOn(next)
  BY DEF ListNext, ListPage, tenant, server
<1>3. /\ Len(page) \in Nat /\ page \in Seq(Ids) /\ Len(page) <= Len(order) - start
      /\ Len(page) = Len(order) - start \/ Len(page) = Least(Size, cap)
      /\ Least(Size, cap) \in Nat \ {0}
      /\ \A k \in 1 .. Len(page) : page[k] = order[start + k]
  BY <1>0, <1>1, PageIs
<1>4. /\ after = IF got = <<>> THEN 0 ELSE got[Len(got)]
      /\ \A s \in stayed : s <= after => s \in ToSet(got)
  BY <1>2 DEF WalkInv, ListGoesOn, Last
<1>5. got = <<>> <=> Len(got) = 0
  BY <1>0, EmptySeq DEF TypeOK
<1>6. Yielded'
  <2>1. ASSUME Ordered(got), ToSet(got) \subseteq Live,
               NEW k \in 1 .. Len(order), NEW g \in ToSet(got), start < k
        PROVE  g < order[k]
    <3>1. PICK m \in 1 .. Len(got) : got[m] = g
      BY <1>0 DEF ToSet
    <3>2. after = got[Len(got)] /\ Len(got) \in 1 .. Len(got)
      BY <1>0, <1>4, <1>5, <3>1
    <3>3. g <= after /\ after \in Live
      <4>1. m <= Len(got)
        OBVIOUS
      <4>2. got[m] <= got[Len(got)]
        BY <1>0, <2>1, <3>2, <4>1, Rising DEF TypeOK
      <4>3. got[Len(got)] \in Live
        BY <1>0, <2>1, <3>2
      <4> QED BY <3>1, <3>2, <4>2, <4>3
    <3>4. after < order[k]
      BY <1>0, <1>1, <2>1, <3>3 DEF Counted, Ordered
    <3>5. g \in Nat /\ order[k] \in Nat
      BY <1>0, <3>1 DEF Ids
    <3> QED BY <1>0, <3>3, <3>4, <3>5
  <2>2. Ordered(got) \/ ~(ToSet(got) \subseteq Live)
    BY DEF WalkInv, Yielded
  <2> HIDE DEF start
  <2> QED BY <1>1, <1>2, <2>1, <2>2, YieldGrows
<1>7. PICK n \in 0 .. Len(page) :
           /\ ~Cut(page) => n = Len(page)
           /\ got' \in Seq(Ids) /\ Len(got') = Len(got) + n
           /\ \A k \in 1 .. n : got'[Len(got) + k] = page[k]
           /\ ToSet(got') = ToSet(got) \union {page[k] : k \in 1 .. n}
  BY <1>0, <1>2, <1>3, Joined
<1>8. ~shrunk => /\ start = Len(got)
                 /\ Len(got') <= Len(order) /\ \A k \in 1 .. Len(got') : got'[k] = order[k]
                 /\ ~Cut(page) => Len(got') = Len(got) + Len(page)
                 /\ Len(got') >= Len(order) => Live \subseteq ToSet(got')
  <2> SUFFICES ASSUME ~shrunk
               PROVE  /\ start = Len(got)
                      /\ Len(got') <= Len(order) /\ \A k \in 1 .. Len(got') : got'[k] = order[k]
                      /\ ~Cut(page) => Len(got') = Len(got) + Len(page)
                      /\ Len(got') >= Len(order) => Live \subseteq ToSet(got')
    OBVIOUS
  <2>1. Len(got) <= Len(order) /\ \A k \in 1 .. Len(got) : got[k] = order[k]
    BY <1>2 DEF WalkInv, Undisturbed
  <2>2. CASE Len(got) = 0
    <3>1. after = 0 /\ after \notin Live
      BY <1>4, <1>5, <2>2, IdsAreNaturals, OrderIs, <1>0
    <3> QED BY <1>0, <1>1, <1>2, <2>1, <2>2, <3>1, PrefixGrows
  <2>3. CASE Len(got) # 0
    <3>1. Len(got) \in 1 .. Len(order) /\ after = order[Len(got)] /\ after \in Live
      BY <1>0, <1>4, <1>5, <2>1, <2>3
    <3>2. start = Len(got)
      <4>1. order[start] = order[Len(got)] /\ start \in 1 .. Len(order)
        BY <1>0, <1>1, <3>1
      <4> HIDE DEF start
      <4>2. order[Len(got)] <= order[Len(got)]
        BY <1>0, <3>1, Rising DEF Counted, TypeOK
      <4>3. start <= Len(got) /\ Len(got) <= start
        BY <1>0, <3>1, <4>1, <4>2, Rising DEF Counted, TypeOK
      <4>4. start \in Nat /\ Len(got) \in Nat
        BY <1>0, <4>1
      <4> QED BY <4>3, <4>4
    <3> HIDE DEF start
    <3> QED BY <1>0, <1>2, <2>1, <3>2, PrefixGrows
  <2> QED BY <2>2, <2>3
\* What stayed and comes no later than the end of the page was yielded.
<1>9. ASSUME n = Len(page), NEW k \in 1 .. Len(order), k <= start + Len(page), order[k] \in stayed
      PROVE  order[k] \in ToSet(got')
  <2>1. CASE start < k
    <3>1. \E m \in 1 .. Len(page) : page[m] = order[k]
      <4> HIDE DEF start
      <4> QED BY <1>0, <1>1, <1>9, <2>1, OnPage
    <3> QED BY <1>7, <1>9, <3>1
  <2>2. CASE k <= start
    <3>1. after \in Live /\ order[start] = after /\ start \in 1 .. Len(order)
      BY <1>0, <1>1, <2>2
    <3>2. order[k] <= after
      BY <1>0, <2>2, <3>1, Rising DEF Counted, TypeOK
    <3> QED BY <1>4, <1>7, <1>9, <3>2
  <2> QED BY <1>0, <1>1, <2>1, <2>2
<1>10. \A s \in stayed : \E k \in 1 .. Len(order) : s = order[k]
  <2>1. stayed \subseteq Live /\ DOMAIN order = 1 .. Len(order)
    BY <1>0, OrderIs DEF TypeOK
  <2> QED BY <2>1 DEF Live, ToSet
<1> HIDE DEF page, start
<1>11. CASE Cut(page) /\ Stop("truncated")
  <2>1. at' = "truncated" /\ after' = after
    BY <1>11 DEF Stop
  <2> QED BY <1>0, <1>6, <2>1
    DEF WalkInv, SearchGoesOn, ListGoesOn, Undisturbed, WholeAnswer, NoFalseAlarm
<1>12. ASSUME ~Cut(page), NEW total \in Totals, Over(page, total), Stop("end")
       PROVE  WalkInv' /\ after' \in Nat
  <2>1. at' = "end" /\ after' = after
    BY <1>12 DEF Stop
  <2>2. page = <<>> => Len(page) = 0
    OBVIOUS
  <2>3. ASSUME honest, shrunk => cap >= Size PROVE stayed \subseteq ToSet(got')
    <3>1. total = Len(order)
      BY <1>12, <2>3 DEF Totals
    <3>2. CASE ~shrunk
      <4>1. Len(got') >= Len(order)
        BY <1>0, <1>3, <1>8, <1>12, <2>2, <3>1, <3>2 DEF Over
      <4> QED BY <1>0, <1>8, <3>2, <4>1 DEF TypeOK
    <3>3. CASE cap >= Size
      <4>1. Least(Size, cap) = Size
        BY <3>3 DEF Least
      <4>2. Len(page) < Size
        BY <1>3, <1>12, <2>2, <4>1 DEF Over
      <4>3. start + Len(page) = Len(order)
        BY <1>0, <1>1, <1>3, <4>1, <4>2
      <4> QED BY <1>0, <1>7, <1>9, <1>10, <1>12, <4>3
    <3> QED BY <2>3, <3>2, <3>3
  <2>4. WholeAnswer'
    BY <1>2, <2>3 DEF WholeAnswer
  <2> QED BY <1>0, <1>6, <2>1, <2>4
    DEF WalkInv, SearchGoesOn, ListGoesOn, Undisturbed, NoFalseAlarm
<1>13. ASSUME ~Cut(page), NEW total \in Totals, ~Over(page, total),
              LET next == IF page = <<>> THEN after ELSE Last(page)
              IN  IF page # <<>> /\ next = after THEN Stop("error") ELSE GoOn(next)
       PROVE  WalkInv' /\ after' \in Nat
  <2>1. page # <<>> /\ Len(page) \in 1 .. Len(page) /\ n = Len(page)
    BY <1>3, <1>7, <1>13, EmptySeq DEF Over
  <2> DEFINE last == start + Len(page)
  <2>2. Last(page) = order[last] /\ last \in 1 .. Len(order) /\ start < last
    BY <1>0, <1>1, <1>3, <2>1 DEF Last
  <2>3. order[last] # after
    <3>1. CASE after \in Live
      <4>1. order[start] < order[last] /\ order[start] = after /\ order[start] \in Nat
        BY <1>0, <1>1, <2>2, <3>1, IdsAreNaturals DEF Counted, Ordered
      <4> QED BY <4>1
    <3>2. CASE after \notin Live
      BY <1>0, <2>2, <3>2
    <3> QED BY <3>1, <3>2
  <2>4. at' = "walk" /\ after' = order[last] /\ after' \in Nat
    BY <1>0, <1>2, <1>13, <2>1, <2>2, <2>3, IdsAreNaturals DEF GoOn
  <2>5. ListGoesOn'
    <3>1. Len(got') = Len(got) + Len(page) /\ got' # <<>> /\ Last(got') = order[last]
      <4>1. Len(got') = Len(got) + Len(page) /\ Len(got') # 0
        BY <1>0, <1>7, <2>1
      <4>2. got'[Len(got) + Len(page)] = page[Len(page)]
        BY <1>7, <2>1
      <4> QED BY <2>2, <4>1, <4>2 DEF Last
    <3>2. ASSUME NEW s \in stayed, s <= order[last] PROVE s \in ToSet(got')
      <4>1. PICK k \in 1 .. Len(order) : s = order[k]
        BY <1>10
      <4>2. k <= last
        BY <1>0, <2>2, <3>2, <4>1, Rising DEF Counted, TypeOK
      <4> QED BY <1>9, <2>1, <4>1, <4>2
    <3> QED BY <1>2, <2>4, <3>1, <3>2 DEF ListGoesOn
  <2>6. Undisturbed'
    BY <1>2, <1>8 DEF Undisturbed
  <2>7. SearchGoesOn' /\ WholeAnswer' /\ NoFalseAlarm'
    BY <1>2, <2>4 DEF SearchGoesOn, WholeAnswer, NoFalseAlarm
  <2> QED BY <1>6, <2>4, <2>5, <2>6, <2>7 DEF WalkInv
<1> QED BY <1>2, <1>11, <1>12, <1>13

----------------------------------------------------------------------------
(* The invariant holds throughout *)

\* A page changes nothing in the collection.
LEMMA WalkStore ==
  ASSUME StoreInv, WalkInv, SearchNext \/ ListNext
  PROVE  StoreInv'
<1>0. Typed /\ TypeOK /\ Counted /\ Len(order) \in Nat
  BY OrderIs DEF StoreInv, Typed
<1>1. UNCHANGED <<order, ver, h, events, cap, honest, kind, stayed, shrunk>>
  BY DEF SearchNext, ListNext, tenant, server
<1>2. UNCHANGED <<Live, Created, Emitting>>
  BY <1>1 DEF Live, Created, Emitting
<1>3. \E start \in 0 .. Len(order) : got' = got \o Taken(PageFrom(start))
  <2>1. Least(after, Len(order)) \in 0 .. Len(order)
    BY <1>0 DEF Least, Typed
  <2>2. StartAfterID \in 0 .. Len(order)
    BY <1>0, StartIs DEF Typed
  <2> QED BY <2>1, <2>2 DEF SearchNext, ListNext, SearchPage, ListPage
<1>4. got' \in Seq(Ids)
  <2>1. PICK start \in 0 .. Len(order) : got' = got \o Taken(PageFrom(start))
    BY <1>3
  <2>2. PageFrom(start) \in Seq(Ids)
    BY <1>0, PageIs DEF Typed
  <2> QED BY <1>0, <2>1, <2>2, Joined
<1>5. at' \in {"walk", "end", "truncated", "error"}
  BY <1>0 DEF SearchNext, ListNext, Stop, GoOn, TypeOK
<1>6. Typed'
  BY <1>0, <1>1, <1>2, <1>4, <1>5, SearchWalk, ListWalk DEF Typed, TypeOK
<1>7. Counted'
  BY <1>0, <1>1, <1>2 DEF Counted, Ordered
<1>8. \A op, i, v : Said(op, i, v)' = Said(op, i, v)
  BY <1>1 DEF Said
<1>9. \A i \in Ids : Told(i)'
  BY <1>1, <1>2, <1>8, ToldKept DEF StoreInv
<1> QED BY <1>6, <1>7, <1>9 DEF StoreInv

LEMMA Initially == Init => IInv
<1> SUFFICES ASSUME Init PROVE IInv
  OBVIOUS
<1>1. PICK n \in 0 .. MaxEntities : n <= MaxID /\ order = [i \in 1 .. n |-> i]
  BY DEF Init
<1>2. /\ order \in Seq(Ids) /\ Len(order) = n /\ Live = 1 .. n
      /\ \A i \in 1 .. n : order[i] = i
  <2>1. n \in Nat /\ \A i \in 1 .. n : i \in Ids
    BY <1>1, BoundsAreSound DEF Ids
  <2>2. order \in Seq(Ids) /\ Len(order) = n /\ \A i \in 1 .. n : order[i] = i
    BY <1>1, <2>1
  <2>3. DOMAIN order = 1 .. n
    BY <1>1
  <2> QED BY <2>2, <2>3 DEF Live, ToSet
<1>3. /\ ver = [i \in Ids |-> IF i \in Live THEN 1 ELSE 0] /\ h = [c \in Clients |-> Idle]
      /\ events = EmptyBag /\ kind \in {"search", "list"} /\ cap \in Caps
      /\ at = "walk" /\ after = 0 /\ got = <<>> /\ stayed = Live /\ shrunk = FALSE
  BY DEF Init, Live
<1>4. n \in Nat /\ Live \subseteq Ids /\ Created = Live
  BY <1>1, <1>2, <1>3, BoundsAreSound DEF Created, Ids
<1>5. Emitting = {} /\ \A c \in Clients : h[c] = Idle
  BY <1>3, IdleIsSilent DEF Emitting
<1>6. Typed
  <2>1. h \in [Clients -> Requests]
    BY <1>3, IdleIsSilent
  <2>2. ver \in [Ids -> Versions]
    BY <1>3, BoundsAreSound DEF Versions
  <2>3. IsABag(events)
    BY <1>3 DEF IsABag, EmptyBag, SetToBag
  <2>4. got \in Seq(Ids)
    BY <1>3
  <2> QED
    BY <1>2, <1>3, <1>5, <2>1, <2>2, <2>3, <2>4, FS_EmptySet
    DEF Typed, TypeOK, Requests, Versions
<1>7. Counted
  BY <1>2, <1>4, <1>5, IdleIsSilent DEF Counted, Ordered, Ids
<1>8. \A op, i, v : Said(op, i, v) = 0
  <2> SUFFICES ASSUME NEW op, NEW i, NEW v PROVE Said(op, i, v) = 0
    OBVIOUS
  <2>1. Senders(op, i, v) = {}
    BY <1>5, IdleIsSilent DEF Senders, Due
  <2>2. Delivered(op, i, v) = 0
    BY <1>3 DEF Delivered, BagIn, BagToSet, EmptyBag, SetToBag
  <2> QED BY <2>1, <2>2, SaidIs, FS_EmptySet
<1>9. ASSUME NEW i \in Ids PROVE Told(i)
  <2>1. \A v : v \notin 2 .. ver[i]
    BY <1>3
  <2>2. 0 \in Versions
    BY BoundsAreSound DEF Versions
  <2> QED BY <1>4, <1>8, <2>1, <2>2 DEF Told
<1>10. WalkInv
  <2>1. Len(got) = 0 /\ ToSet(got) = {} /\ DOMAIN got = {}
    BY <1>3 DEF ToSet
  <2>2. \A s \in stayed : ~(s <= 0)
    BY <1>2, <1>3, <1>4
  <2>3. Yielded /\ SearchGoesOn
    BY <2>1 DEF Yielded, Ordered, SearchGoesOn
  <2>4. ListGoesOn /\ Undisturbed
    BY <1>2, <1>3, <1>4, <2>1, <2>2 DEF ListGoesOn, Undisturbed
  <2> QED BY <1>3, <2>3, <2>4 DEF WalkInv, WholeAnswer, NoFalseAlarm
<1> QED BY <1>6, <1>7, <1>9, <1>10 DEF IInv, StoreInv

LEMMA Preserved == IInv /\ [Next]_vars => IInv'
<1> SUFFICES ASSUME StoreInv, WalkInv, [Next]_vars PROVE StoreInv' /\ WalkInv'
  BY DEF IInv
<1>1. ASSUME NEW c \in Clients, Create(c) PROVE StoreInv' /\ WalkInv'
  BY <1>1, CreateStore, CreateWalk
<1>2. ASSUME NEW c \in Clients, NEW i \in Ids, NEW op \in {"update", "remove"},
             Resolve(c, op, i)
      PROVE  StoreInv' /\ WalkInv'
  <2>1. UNCHANGED <<order, ver, rest>>
    BY <1>2 DEF Resolve, tenant, rest
  <2>2. Created' = Created
    BY <2>1 DEF Created
  <2> QED BY <1>2, <2>1, <2>2, ResolveStore, WalkWaits
<1>3. ASSUME NEW c \in Clients, NEW want, Update(c, want) PROVE StoreInv' /\ WalkInv'
  <2>1. UNCHANGED <<order, rest>>
    BY <1>3 DEF Update, rest
  <2>2. Created \subseteq Created'
    <3>1. ver \in [Ids -> Versions]
      BY DEF StoreInv, Typed, TypeOK, Versions
    <3>2. \A i \in Ids : ver[i] # 0 => ver'[i] # 0
      BY <1>3, <3>1, BoundsAreSound DEF Update, Versions
    <3> QED BY <3>2 DEF Created
  <2> QED BY <1>3, <2>1, <2>2, UpdateStore, WalkWaits
<1>4. ASSUME NEW c \in Clients, ReadDoomed(c) PROVE StoreInv' /\ WalkInv'
  <2>1. UNCHANGED <<order, ver, rest>>
    BY <1>4 DEF ReadDoomed, tenant, rest
  <2>2. Created' = Created
    BY <2>1 DEF Created
  <2> QED BY <1>4, <2>1, <2>2, ReadDoomedStore, WalkWaits
<1>5. ASSUME NEW c \in Clients, Delete(c) PROVE StoreInv' /\ WalkInv'
  BY <1>5, DeleteStore, DeleteWalk
<1>6. ASSUME NEW c \in Clients, Emit(c) PROVE StoreInv' /\ WalkInv'
  <2>1. UNCHANGED <<order, ver, rest>>
    BY <1>6 DEF Emit, tenant, rest
  <2>2. Created' = Created
    BY <2>1 DEF Created
  <2> QED BY <1>6, <2>1, <2>2, EmitStore, WalkWaits
<1>7. CASE SearchNext
  BY <1>7, WalkStore, SearchWalk
<1>8. CASE ListNext
  BY <1>8, WalkStore, ListWalk
<1>9. CASE UNCHANGED vars
  <2>1. UNCHANGED <<order, ver, h, events, server, walk, stayed, shrunk, rest, tenant>>
    BY <1>9 DEF vars, rest, tenant
  <2>2. UNCHANGED <<Live, Created, Emitting>>
    BY <2>1 DEF Live, Created, Emitting
  <2>3. Typed' /\ Counted'
    BY <2>1, <2>2 DEF StoreInv, Typed, TypeOK, Counted, Ordered, walk, server
  <2>4. \A op, i, v : Said(op, i, v)' = Said(op, i, v)
    BY <2>1 DEF Said
  <2>5. \A i \in Ids : Told(i)'
    BY <2>1, <2>2, <2>4, ToldKept DEF StoreInv
  <2> QED BY <2>1, <2>2, <2>3, <2>5, WalkWaits DEF StoreInv
<1> QED BY <1>1, <1>2, <1>3, <1>4, <1>5, <1>6, <1>7, <1>8, <1>9 DEF Next

----------------------------------------------------------------------------
(* The theorems *)

\* IInv holds throughout: the collection is in the order of its ids, each change of it is
\* told of once, and a walk has what comes before the place it goes on from.
THEOREM Invariant == Spec => []IInv
BY Initially, Preserved, PTL DEF Spec

\* Every variable keeps its type.
THEOREM TypeCorrect == Spec => []TypeOK
<1>1. IInv => TypeOK
  BY DEF IInv, StoreInv, Typed
<1> QED BY <1>1, Invariant, PTL

\* EachChangeOnce: whatever requests are handled beside each other, and however late their
\* events go out (handlers.go emits after the store's lock is released), every version
\* and every deletion is announced by one event.
THEOREM ChangesAreToldOnce == Spec => []EachChangeOnce
<1>1. IInv => EachChangeOnce
  <2> SUFFICES ASSUME IInv, NEW i \in Created
               PROVE  /\ Said("created", i, 1) <= 1
                      /\ \A v \in 2 .. ver[i] : Said("updated", i, v) = 1
                      /\ \E d \in Versions : \A v \in Versions :
                           Said("deleted", i, v) = (IF i \notin Live /\ v = d THEN 1 ELSE 0)
    BY DEF EachChangeOnce, Versions
  <2>1. Told(i) /\ i \in Ids /\ ver[i] \in Versions
    BY DEF IInv, StoreInv, Typed, TypeOK, Created, Versions
  <2>2. \A v \in 2 .. ver[i] : v \in Versions
    BY <2>1, BoundsAreSound DEF Versions
  <2> QED BY <2>1, <2>2 DEF Told
<1> QED BY <1>1, Invariant, PTL

\* NothingTwice: no search yields an entity twice, for any page size and whatever is
\* created or deleted between two pages (paginateCursor); a list only after an entity
\* it had yielded is gone (paginateAfterID starts from the top then).
THEOREM NothingIsYieldedTwice == Spec => []NothingTwice
<1>1. IInv => NothingTwice
  <2> SUFFICES ASSUME IInv, Ordered(got) PROVE IsInjective(got)
    BY DEF IInv, WalkInv, Yielded, NothingTwice
  <2>1. got \in Seq(Ids) /\ DOMAIN got = 1 .. Len(got)
    BY LenProperties DEF IInv, StoreInv, Typed, TypeOK
  <2>2. ASSUME NEW j \in 1 .. Len(got), NEW k \in 1 .. Len(got), got[j] = got[k]
        PROVE  j = k
    <3> HIDE DEF Ids
    <3>1. got[j] <= got[k] /\ got[k] <= got[j]
      BY <2>1, <2>2, Rising
    <3>2. j <= k /\ k <= j
      BY <2>1, <3>1, Rising
    <3> QED BY <3>2
  <2> QED BY <2>1, <2>2 DEF IsInjective
<1> QED BY <1>1, Invariant, PTL

\* WholeAnswer: a walk that ends without a word has every entity that was there all
\* along, unless what was deleted meanwhile, or the server, excuses it (SearchAll, ListAll).
THEOREM AnswersAreWhole == Spec => []WholeAnswer
<1>1. IInv => WholeAnswer
  BY DEF IInv, WalkInv
<1> QED BY <1>1, Invariant, PTL

\* NoFalseAlarm: the walks never take a page of the emulator for a cursor that does not
\* advance.
THEOREM NoAlarmIsFalse == Spec => []NoFalseAlarm
<1>1. IInv => NoFalseAlarm
  BY DEF IInv, WalkInv
<1> QED BY <1>1, Invariant, PTL

----------------------------------------------------------------------------
(***************************************************************************)
(* Delivery, for any number of mutations and subscriptions, whatever the   *)
(* child does and whenever a watchdog fires.  The invariant says that the  *)
(* mutex makes of the two pipes a conversation: one question is open at    *)
(* most, and what is in the pipes belongs to it, until the child speaks    *)
(* out of turn.                                                            *)
(***************************************************************************)


Places    == {"idle", "ctx", "gate", "lock", "write", "read", "end"}
Results   == {"none", "ok", "refused", "closed", "late", "error"}
Trips     == [at : Places, op : {"none", "hello", "plan", "send"}, id : Nat, res : Results]
Questions == [id : Nat, by : Callers, op : {"hello", "plan", "send"}]
Answers   == [sound : BOOLEAN, id : Nat, ok : BOOLEAN]

----------------------------------------------------------------------------
(* The invariant *)

\* TransportTypeOK in two parts: what SMT reasons about, and the flags, which it does not.
Flags ==
  /\ closed \in BOOLEAN /\ inOpen \in BOOLEAN /\ killed \in BOOLEAN /\ straggler \in BOOLEAN
  /\ holds \subseteq {"stdout", "stderr"} /\ stopping \in BOOLEAN /\ rude \in BOOLEAN

Types ==
  /\ mu \in Callers \union {Nobody} /\ nextID \in Nat
  /\ inp \in Seq(Questions) /\ out \in Seq(Answers)
  /\ call \in [Callers -> Trips]
  /\ did \subseteq Callers

\* The rest of the state, on which the properties do not depend.
Others ==
  /\ child \in {"up", "gone"} /\ reap \in {"no", "waiting", "done"}
  /\ phase \in [Emits -> {"idle", "plan", "send", "done"}] /\ late \subseteq Emits
  /\ cause \in {"none", "gone", "rude"}

Open(c) == call[c].at \in {"write", "read"}

\* Whoever is between the number and the answer holds the mutex, and nobody else.
OneOpen == \A c \in Callers : Open(c) <=> mu = c

Pending == {"ctx", "gate", "lock", "write", "read"}

\* A question that is open has the newest number and no result yet.
Unfinished ==
  /\ \A c \in Callers : Open(c) => call[c].id = nextID /\ nextID > 0
  /\ \A c \in Callers : call[c].at \in Pending => call[c].res = "none"
  /\ \A c \in Callers : call[c].op = "none" => call[c].res = "none"
  /\ \A c \in Callers : call[c].at \in Pending => call[c].op # "none"

\* What the pipes hold was numbered, and the number tells whose it is.
Numbered ==
  /\ \A k \in 1 .. Len(inp) : inp[k].id <= nextID
  /\ \A k \in 1 .. Len(out) : out[k].id <= nextID
  /\ \A k \in 1 .. Len(inp) : \A c \in Callers :
       Open(c) /\ inp[k].id = call[c].id => inp[k].by = c
  /\ \A k \in 1 .. Len(out) : \A c \in Callers :
       Open(c) /\ out[k].id = call[c].id /\ out[k].ok = TRUE => c \in did

Conversation == OneOpen /\ Unfinished /\ Numbered /\ PublishedWasConfirmed

TransportInv == Types /\ Conversation

----------------------------------------------------------------------------
\* Before the handshake nobody has spoken, and the invariant holds.
THEOREM TransportInitially == TransportInit => TransportInv
<1> SUFFICES ASSUME TransportInit PROVE TransportInv
  OBVIOUS
<1>1. Nobody \notin Callers
  BY CallersAreDistinct DEF Callers
<1>2. Types
  <2>1. NoCall \in Trips /\ [NoCall EXCEPT !.at = "gate", !.op = "hello"] \in Trips
    BY DEF NoCall, Trips, Places, Results
  <2>2. call \in [Callers -> Trips]
    BY <2>1 DEF TransportInit
  <2>3. mu \in Callers \union {Nobody} /\ nextID \in Nat /\ did \subseteq Callers
    BY DEF TransportInit
  <2>4. inp \in Seq(Questions) /\ out \in Seq(Answers)
    BY DEF TransportInit
  <2> QED BY <2>2, <2>3, <2>4 DEF Types
<1>3. Conversation
  BY <1>1 DEF TransportInit, Conversation, OneOpen, Unfinished, Pending, Numbered, Open, Callers, NoCall,
    PublishedWasConfirmed
<1> QED BY <1>2, <1>3 DEF TransportInv

----------------------------------------------------------------------------
(* The steps *)

\* Most steps touch none of what the invariant speaks of.
LEMMA Frame ==
  ASSUME TransportInv, UNCHANGED <<mu, nextID, inp, out, did, call>>
  PROVE  TransportInv'
BY DEF TransportInv, Types, Conversation, OneOpen, Unfinished, Pending, Numbered, Open, PublishedWasConfirmed

\* A caller that is not in the middle of a question and counts nothing as published.
Rested(trip) ==
  /\ trip.at \notin {"write", "read"} /\ trip.res # "ok"
  /\ trip.at \in Pending => trip.res = "none" /\ trip.op # "none"
  /\ trip.op = "none" => trip.res = "none"

\* What an assignment to fields of a round trip makes of it.
LEMMA TripEdits ==
  ASSUME NEW trip \in Trips, NEW to \in Places
  PROVE  /\ [trip EXCEPT !.at = to] \in Trips
         /\ \A res \in Results : [trip EXCEPT !.at = to, !.res = res] \in Trips
         /\ \A id \in Nat : [trip EXCEPT !.at = to, !.id = id] \in Trips
         /\ [trip EXCEPT !.op = "plan", !.at = to] \in Trips
<1>1. [trip EXCEPT !.at = to] \in Trips
  BY DEF Trips
<1>2. \A res \in Results : [trip EXCEPT !.at = to, !.res = res] \in Trips
  BY DEF Trips
<1>3. \A id \in Nat : [trip EXCEPT !.at = to, !.id = id] \in Trips
  BY DEF Trips
<1>4. [trip EXCEPT !.op = "plan", !.at = to] \in Trips
  BY DEF Trips
<1> QED BY <1>1, <1>2, <1>3, <1>4

LEMMA CallEdited ==
  ASSUME TransportInv, NEW c \in Callers, NEW trip \in Trips, call' = [call EXCEPT ![c] = trip]
  PROVE  call' \in [Callers -> Trips]
BY DEF TransportInv, Types

\* The steps before the mutex and around it concern their callers alone.
LEMMA QuietMove ==
  ASSUME TransportInv, UNCHANGED <<mu, nextID, inp, out, did>>, call' \in [Callers -> Trips],
         \A c \in Callers : call'[c] = call[c] \/ (~Open(c) /\ Rested(call'[c]))
  PROVE  TransportInv'
<1>1. Types'
  BY DEF TransportInv, Types
<1>2. \A c \in Callers : Open(c)' <=> Open(c)
  BY DEF Open, Rested
<1>3. \A c \in Callers : Open(c) => call'[c] = call[c]
  OBVIOUS
<1>4. OneOpen'
  BY <1>2 DEF TransportInv, Conversation, OneOpen
<1>5. Unfinished'
  BY <1>2, <1>3 DEF TransportInv, Conversation, Unfinished, Rested
<1>6. Numbered'
  BY <1>2, <1>3 DEF TransportInv, Conversation, Numbered
<1>7. PublishedWasConfirmed'
  BY DEF TransportInv, Conversation, PublishedWasConfirmed, Rested
<1> QED BY <1>1, <1>4, <1>5, <1>6, <1>7 DEF TransportInv, Conversation

LEMMA InPipe == Types => \A k \in 1 .. Len(inp) : inp[k] \in Questions /\ inp[k].id \in Nat
<1> SUFFICES ASSUME Types, NEW k \in 1 .. Len(inp) PROVE inp[k] \in Questions /\ inp[k].id \in Nat
  OBVIOUS
<1>1. inp[k] \in Questions
  BY DEF Types
<1> QED BY <1>1 DEF Questions

LEMMA OutPipe == Types => \A k \in 1 .. Len(out) : out[k] \in Answers /\ out[k].id \in Nat
<1> SUFFICES ASSUME Types, NEW k \in 1 .. Len(out) PROVE out[k] \in Answers /\ out[k].id \in Nat
  OBVIOUS
<1>1. out[k] \in Answers
  BY DEF Types
<1> QED BY <1>1 DEF Answers

LEMMA LockStep ==
  ASSUME TransportInv, NEW c \in Callers, Lock(c)
  PROVE  TransportInv'
<1>1. CASE closed
  <2>1. /\ call' = [call EXCEPT ![c].at = "end", ![c].res = "closed"] /\ call[c].at = "lock"
        /\ UNCHANGED <<mu, nextID, inp, out, did>>
    BY <1>1 DEF Lock, Return, pipes
  <2>2. Types'
    <3>1. call' \in [Callers -> Trips]
      <4> DEFINE moved == [call[c] EXCEPT !.at = "end", !.res = "closed"]
      <4>1. call[c] \in Trips
        BY DEF TransportInv, Types
      <4>2. moved \in Trips
        BY <4>1, TripEdits DEF Places, Results
      <4>3. call' = [call EXCEPT ![c] = moved]
        BY <2>1 DEF TransportInv, Types
      <4> HIDE DEF moved
      <4> QED BY <4>2, <4>3, CallEdited
    <3> QED BY <2>1, <3>1 DEF TransportInv, Types
  <2>3. Conversation'
    BY <2>1 DEF TransportInv, Types, Trips, Conversation, OneOpen, Unfinished, Pending, Numbered, Open, PublishedWasConfirmed
  <2> QED BY <2>2, <2>3 DEF TransportInv
<1>2. CASE ~closed
  <2>1. /\ call[c].at = "lock" /\ mu = Nobody /\ mu' = c
        /\ nextID' = nextID + 1 /\ did' = did \ {c}
        /\ call' = [call EXCEPT ![c].at = "write", ![c].id = nextID + 1]
        /\ UNCHANGED <<inp, out>>
    BY <1>2 DEF Lock, Number
  <2>2. Types'
    <3>1. nextID + 1 \in Nat
      BY DEF TransportInv, Types
    <3>2. call' \in [Callers -> Trips]
      <4> DEFINE moved == [call[c] EXCEPT !.at = "write", !.id = nextID + 1]
      <4>1. call[c] \in Trips
        BY DEF TransportInv, Types
      <4>2. moved \in Trips
        BY <4>1, <3>1, TripEdits DEF Places, Results
      <4>3. call' = [call EXCEPT ![c] = moved]
        BY <2>1 DEF TransportInv, Types
      <4> HIDE DEF moved
      <4> QED BY <4>2, <4>3, CallEdited
    <3> QED BY <2>1, <3>1, <3>2 DEF TransportInv, Types
  <2>3. Nobody \notin Callers
    BY CallersAreDistinct DEF Callers
  <2>4. \A d \in Callers : ~Open(d)
    BY <2>1, <2>3 DEF TransportInv, Conversation, OneOpen
  <2>5. \A d \in Callers : Open(d)' <=> d = c
    BY <2>1, <2>4 DEF Open, TransportInv, Types, Trips
  <2>6. OneOpen'
    BY <2>1, <2>5 DEF OneOpen
  <2>7. Unfinished'
    <3>1. /\ call[c].op # "none" /\ call[c].res = "none"
          /\ call'[c].at = "write" /\ call'[c].id = nextID' /\ nextID' > 0
          /\ call'[c].op # "none" /\ call'[c].res = "none"
      BY <2>1 DEF TransportInv, Types, Trips, Conversation, Unfinished, Pending
    <3>2. \A d \in Callers \ {c} : call'[d] = call[d]
      BY <2>1 DEF TransportInv, Types
    <3> QED BY <3>1, <3>2, <2>5 DEF TransportInv, Conversation, Unfinished
  <2>8. Numbered'
    <3>1. \A k \in 1 .. Len(inp) : inp[k].id <= nextID /\ inp[k].id \in Nat
      BY InPipe DEF TransportInv, Conversation, Numbered
    <3>2. \A k \in 1 .. Len(out) : out[k].id <= nextID /\ out[k].id \in Nat
      BY OutPipe DEF TransportInv, Conversation, Numbered
    <3>3. call'[c].id = nextID + 1 /\ nextID \in Nat
      BY <2>1 DEF TransportInv, Types, Trips
    <3>4. \A k \in 1 .. Len(inp) : inp[k].id < nextID'
      BY <2>1, <3>1, <3>3
    <3>5. \A k \in 1 .. Len(out) : out[k].id < nextID'
      BY <2>1, <3>2, <3>3
    <3>6. \A d \in Callers : Open(d)' => call'[d].id = nextID'
      BY <2>1, <2>5, <3>3
    <3>7. /\ \A k \in 1 .. Len(inp) : inp[k].id <= nextID'
          /\ \A k \in 1 .. Len(out) : out[k].id <= nextID'
      BY <2>1, <3>1, <3>2, <3>3
    <3>8. \A k \in 1 .. Len(inp) : inp[k].id # nextID'
      BY <3>1, <3>4
    <3>9. \A k \in 1 .. Len(out) : out[k].id # nextID'
      BY <3>2, <3>5
    <3> QED BY <2>1, <3>6, <3>7, <3>8, <3>9 DEF Numbered
  <2>9. PublishedWasConfirmed'
    <3>1. call'[c].res # "ok" /\ \A d \in Callers \ {c} : call'[d] = call[d]
      BY <2>1 DEF TransportInv, Types, Trips, Conversation, Unfinished, Pending
    <3> QED BY <2>1, <3>1 DEF TransportInv, Conversation, PublishedWasConfirmed
  <2> QED BY <2>2, <2>6, <2>7, <2>8, <2>9 DEF TransportInv, Conversation
<1> QED BY <1>1, <1>2

LEMMA GateStep ==
  ASSUME TransportInv, NEW c \in Callers, Gate(c)
  PROVE  TransportInv'
<1>1. /\ UNCHANGED <<mu, nextID, inp, out, did>> /\ call[c].at = "gate"
      /\ \/ call' = [call EXCEPT ![c].at = "end", ![c].res = "closed"]
         \/ call' = [call EXCEPT ![c].at = "lock"]
  BY DEF Gate, Return, Goto, pipes
<1>2. call' \in [Callers -> Trips]
  <2>1. CASE call' = [call EXCEPT ![c].at = "end", ![c].res = "closed"]
    <3> DEFINE moved == [call[c] EXCEPT !.at = "end", !.res = "closed"]
    <3>1. call[c] \in Trips
      BY DEF TransportInv, Types
    <3>2. moved \in Trips
      BY <3>1, TripEdits DEF Places, Results
    <3>3. call' = [call EXCEPT ![c] = moved]
      BY <2>1 DEF TransportInv, Types
    <3> HIDE DEF moved
    <3> QED BY <3>2, <3>3, CallEdited
  <2>2. CASE call' = [call EXCEPT ![c].at = "lock"]
    <3> DEFINE moved == [call[c] EXCEPT !.at = "lock"]
    <3>1. call[c] \in Trips
      BY DEF TransportInv, Types
    <3>2. moved \in Trips
      BY <3>1, TripEdits DEF Places, Results
    <3>3. call' = [call EXCEPT ![c] = moved]
      BY <2>2 DEF TransportInv, Types
    <3> HIDE DEF moved
    <3> QED BY <3>2, <3>3, CallEdited
  <2> QED BY <1>1, <2>1, <2>2
<1>3. ~Open(c) /\ Rested(call'[c]) /\ \A d \in Callers \ {c} : call'[d] = call[d]
  BY <1>1 DEF TransportInv, Types, Trips, Conversation, Unfinished, Pending, Open, Rested
<1> QED BY <1>1, <1>2, <1>3, QuietMove

LEMMA AskPlanStep ==
  ASSUME TransportInv, NEW e \in Emits, NEW s \in Subs, AskPlan(e, s)
  PROVE  TransportInv'
<1> DEFINE c == <<e, s>>
<1>0. c \in Callers /\ c \in OfEmit(e)
  BY DEF Callers, OfEmit
<1>1. /\ UNCHANGED <<mu, nextID, inp, out, did>>
      /\ call[c].at \in {"idle", "end"} /\ call[c].op = "none"
      /\ call' = [call EXCEPT ![c].op = "plan", ![c].at = "gate"]
  BY <1>0 DEF AskPlan, pipes
<1> HIDE DEF c
<1>2. call' \in [Callers -> Trips]
  <2> DEFINE moved == [call[c] EXCEPT !.op = "plan", !.at = "gate"]
  <2>1. call[c] \in Trips
    BY <1>0 DEF TransportInv, Types
  <2>2. moved \in Trips
    BY <2>1, TripEdits DEF Places, Results
  <2>3. call' = [call EXCEPT ![c] = moved]
    BY <1>1 DEF TransportInv, Types
  <2> HIDE DEF moved
  <2> QED BY <1>0, <2>2, <2>3, CallEdited
<1>3. ~Open(c) /\ Rested(call'[c]) /\ \A d \in Callers \ {c} : call'[d] = call[d]
  BY <1>0, <1>1 DEF TransportInv, Types, Trips, Conversation, Unfinished, Pending, Open, Rested
<1> QED BY <1>0, <1>1, <1>2, <1>3, QuietMove

LEMMA CheckContextStep ==
  ASSUME TransportInv, NEW e \in Emits, NEW s \in Subs, CheckContext(e, s)
  PROVE  TransportInv'
<1> DEFINE c == <<e, s>>
<1>0. c \in Callers
  BY DEF Callers
<1>1. /\ UNCHANGED <<mu, nextID, inp, out, did>> /\ call[c].at = "ctx"
      /\ \/ call' = [call EXCEPT ![c].at = "end", ![c].res = "late"]
         \/ call' = [call EXCEPT ![c].at = "gate"]
  BY DEF CheckContext, Return, Goto, pipes
<1> HIDE DEF c
<1>2. call' \in [Callers -> Trips]
  <2>1. CASE call' = [call EXCEPT ![c].at = "end", ![c].res = "late"]
    <3> DEFINE moved == [call[c] EXCEPT !.at = "end", !.res = "late"]
    <3>1. call[c] \in Trips
      BY <1>0 DEF TransportInv, Types
    <3>2. moved \in Trips
      BY <3>1, TripEdits DEF Places, Results
    <3>3. call' = [call EXCEPT ![c] = moved]
      BY <2>1 DEF TransportInv, Types
    <3> HIDE DEF moved
    <3> QED BY <1>0, <3>2, <3>3, CallEdited
  <2>2. CASE call' = [call EXCEPT ![c].at = "gate"]
    <3> DEFINE moved == [call[c] EXCEPT !.at = "gate"]
    <3>1. call[c] \in Trips
      BY <1>0 DEF TransportInv, Types
    <3>2. moved \in Trips
      BY <3>1, TripEdits DEF Places, Results
    <3>3. call' = [call EXCEPT ![c] = moved]
      BY <2>2 DEF TransportInv, Types
    <3> HIDE DEF moved
    <3> QED BY <1>0, <3>2, <3>3, CallEdited
  <2> QED BY <1>1, <2>1, <2>2
<1>3. ~Open(c) /\ Rested(call'[c]) /\ \A d \in Callers \ {c} : call'[d] = call[d]
  BY <1>0, <1>1 DEF TransportInv, Types, Trips, Conversation, Unfinished, Pending, Open, Rested
<1> QED BY <1>0, <1>1, <1>2, <1>3, QuietMove

LEMMA FanOutStep ==
  ASSUME TransportInv, NEW e \in Emits, FanOut(e)
  PROVE  TransportInv'
<1> DEFINE sending == [at |-> "ctx", op |-> "send", id |-> 0, res |-> "none"]
<1>1. /\ UNCHANGED <<mu, nextID, inp, out, did>>
      /\ \A c \in Planned(e) : c \in Callers /\ call[c].at = "end"
      /\ call' = [c \in Callers |-> IF c \in Planned(e) THEN sending ELSE call[c]]
  BY DEF FanOut, Planned, OfEmit, Callers, pipes
<1>2. sending \in Trips /\ Rested(sending)
  BY DEF Trips, Places, Results, Rested, Pending
<1> HIDE DEF sending
<1>3. call' \in [Callers -> Trips]
  BY <1>1, <1>2 DEF TransportInv, Types
<1>4. \A c \in Callers : call'[c] = call[c] \/ (~Open(c) /\ Rested(call'[c]))
  BY <1>1, <1>2 DEF Open
<1> QED BY <1>1, <1>3, <1>4, QuietMove

\* The end of a round trip, with or without an answer taken from the pipe.
LEMMA UnlockStep ==
  ASSUME TransportInv, NEW c \in Callers, Open(c),
         NEW res \in Results, res = "ok" => c \in did, Unlocked(c, res),
         UNCHANGED <<nextID, inp, did>>, out' = out \/ (out # <<>> /\ out' = Tail(out))
  PROVE  TransportInv'
<1>1. /\ call' = [call EXCEPT ![c].at = "end", ![c].res = res] /\ mu' = Nobody
      /\ \A d \in Callers \ {c} : call'[d] = call[d]
  BY DEF Unlocked, Return, TransportInv, Types
<1>2. call'[c].at = "end" /\ call'[c].res = res /\ call'[c].op = call[c].op
  BY <1>1 DEF TransportInv, Types, Trips
<1>3. call' \in [Callers -> Trips]
  <2> DEFINE ended == [call[c] EXCEPT !.at = "end", !.res = res]
  <2>1. call[c] \in Trips
    BY DEF TransportInv, Types
  <2>2. ended \in Trips
    BY <2>1 DEF Trips, Places
  <2>3. call' = [call EXCEPT ![c] = ended]
    BY <1>1 DEF TransportInv, Types
  <2> HIDE DEF ended
  <2> QED BY <2>2, <2>3 DEF TransportInv, Types
<1>4. Types'
  <2>1. out' \in Seq(Answers)
    BY DEF TransportInv, Types
  <2>2. mu' \in Callers \union {Nobody}
    BY <1>1
  <2> QED BY <1>3, <2>1, <2>2 DEF TransportInv, Types
<1>5. \A d \in Callers : ~Open(d)'
  BY <1>1, <1>2 DEF TransportInv, Conversation, OneOpen, Open
<1>6. Nobody \notin Callers
  BY CallersAreDistinct DEF Callers
<1>7. OneOpen'
  BY <1>1, <1>5, <1>6 DEF OneOpen
<1>8. call[c].op # "none"
  BY DEF TransportInv, Conversation, Unfinished, Open, Pending
<1>9. Unfinished'
  BY <1>1, <1>2, <1>5, <1>8 DEF TransportInv, Conversation, Unfinished, Pending
<1>10. \A k \in 1 .. Len(out') : out'[k].id <= nextID
  <2>1. CASE out' = out
    BY <2>1 DEF TransportInv, Conversation, Numbered
  <2>2. CASE out # <<>> /\ out' = Tail(out)
    <3>1. out \in Seq(Answers)
      BY DEF TransportInv, Types
    <3>2. \A k \in 1 .. Len(out') : k + 1 \in 1 .. Len(out) /\ out'[k] = out[k + 1]
      BY <2>2, <3>1
    <3> QED BY <3>2 DEF TransportInv, Conversation, Numbered
  <2> QED BY <2>1, <2>2
<1>11. Numbered'
  BY <1>5, <1>10 DEF TransportInv, Conversation, Numbered
<1>12. PublishedWasConfirmed'
  BY <1>1, <1>2 DEF TransportInv, Conversation, PublishedWasConfirmed
<1> QED BY <1>4, <1>7, <1>9, <1>11, <1>12 DEF TransportInv, Conversation

LEMMA WriteStep ==
  ASSUME TransportInv, NEW c \in Callers, Write(c)
  PROVE  TransportInv'
<1>1. call[c].at = "write" /\ Open(c) /\ UNCHANGED <<nextID, out, did>>
  BY DEF Write, Open
<1>2. CASE inOpen /\ child = "up"
  <2> DEFINE q == [id |-> call[c].id, by |-> c, op |-> call[c].op]
  <2>1. inp' = Append(inp, q) /\ call' = [call EXCEPT ![c].at = "read"] /\ UNCHANGED mu
    BY <1>2 DEF Write, Goto
  <2>2. q \in Questions /\ q.id = nextID /\ q.by = c
    BY <1>1 DEF TransportInv, Types, Trips, Questions, Conversation, Unfinished, Pending
  <2> HIDE DEF q
  <2>3. call' \in [Callers -> Trips]
    <3> DEFINE moved == [call[c] EXCEPT !.at = "read"]
    <3>1. call[c] \in Trips
      BY DEF TransportInv, Types
    <3>2. moved \in Trips
      BY <3>1, TripEdits DEF Places, Results
    <3>3. call' = [call EXCEPT ![c] = moved]
      BY <2>1 DEF TransportInv, Types
    <3> HIDE DEF moved
    <3> QED BY <3>2, <3>3, CallEdited
  <2>4. Types'
    BY <1>1, <2>1, <2>2, <2>3 DEF TransportInv, Types
  <2>5. /\ call'[c].at = "read" /\ call'[c].id = call[c].id
        /\ call'[c].op = call[c].op /\ call'[c].res = call[c].res
        /\ \A d \in Callers \ {c} : call'[d] = call[d]
    BY <2>1 DEF TransportInv, Types, Trips
  <2>6. \A d \in Callers : Open(d)' <=> Open(d)
    BY <1>1, <2>5 DEF Open
  <2>7. OneOpen'
    BY <2>1, <2>6 DEF TransportInv, Conversation, OneOpen
  <2>8. Unfinished'
    BY <1>1, <2>5, <2>6 DEF TransportInv, Conversation, Unfinished, Pending
  <2>9. \A d \in Callers : Open(d)' => d = c
    BY <1>1, <2>6 DEF TransportInv, Conversation, OneOpen
  <2>10. \A k \in 1 .. Len(inp') : inp'[k] = q \/ (k \in 1 .. Len(inp) /\ inp'[k] = inp[k])
    BY <2>1, <2>2 DEF TransportInv, Types
  <2>11. /\ \A k \in 1 .. Len(inp') : inp'[k].id <= nextID'
         /\ \A k \in 1 .. Len(inp') : \A d \in Callers :
              Open(d)' /\ inp'[k].id = call'[d].id => inp'[k].by = d
    <3>1. nextID' = nextID /\ nextID \in Nat
      BY <1>1 DEF TransportInv, Types
    <3> QED BY <3>1, <2>2, <2>5, <2>6, <2>9, <2>10 DEF TransportInv, Conversation, Numbered
  <2>12. Numbered'
    BY <1>1, <2>5, <2>6, <2>11 DEF TransportInv, Conversation, Numbered
  <2>13. PublishedWasConfirmed'
    BY <1>1, <2>5 DEF TransportInv, Conversation, PublishedWasConfirmed
  <2> QED BY <2>4, <2>7, <2>8, <2>12, <2>13 DEF TransportInv, Conversation
<1>3. CASE ~(inOpen /\ child = "up")
  <2>1. Unlocked(c, "error") /\ UNCHANGED inp
    BY <1>3 DEF Write
  <2> QED BY <1>1, <2>1, UnlockStep DEF Results
<1> QED BY <1>2, <1>3

LEMMA ReadStep ==
  ASSUME TransportInv, NEW c \in Callers, Read(c)
  PROVE  TransportInv'
<1>1. Open(c) /\ UNCHANGED <<nextID, inp, did>>
  BY DEF Read, Open
<1>2. CASE /\ out # <<>> /\ out' = Tail(out)
           /\ Unlocked(c, "error")
  BY <1>1, <1>2, UnlockStep DEF Results
<1>3. CASE Unlocked(c, "error") /\ UNCHANGED out
  BY <1>1, <1>3, UnlockStep DEF Results
<1>4. CASE /\ out # <<>> /\ out' = Tail(out)
           /\ Head(out).id = call[c].id /\ Answered(c, Head(out))
  <2>1. 1 \in 1 .. Len(out) /\ Head(out) = out[1]
    BY <1>4 DEF TransportInv, Types
  <2>2. CASE Head(out).ok
    <3>1. c \in did
      BY <1>1, <1>4, <2>1, <2>2 DEF TransportInv, Conversation, Numbered
    <3>2. Unlocked(c, "ok")
      BY <1>4, <2>2 DEF Answered
    <3> QED BY <1>1, <1>4, <3>1, <3>2, UnlockStep DEF Results
  <2>3. CASE ~Head(out).ok
    <3>1. Unlocked(c, "refused")
      BY <1>4, <2>3 DEF Answered
    <3> QED BY <1>1, <1>4, <3>1, UnlockStep DEF Results
  <2> QED BY <2>2, <2>3
<1> QED BY <1>2, <1>3, <1>4 DEF Read

LEMMA ChildAnswersStep ==
  ASSUME TransportInv, NEW ok \in BOOLEAN, ChildAnswers(ok)
  PROVE  TransportInv'
<1> DEFINE q == Head(inp)
           r == [sound |-> TRUE, id |-> q.id, ok |-> ok]
<1>1. /\ inp # <<>> /\ inp' = Tail(inp) /\ out' = Append(out, r)
      /\ did' = (IF ok /\ call[q.by].id = q.id THEN did \union {q.by} ELSE did)
      /\ UNCHANGED <<mu, nextID, call>>
  BY DEF ChildAnswers
<1>2. q = inp[1] /\ 1 \in 1 .. Len(inp)
  BY <1>1 DEF TransportInv, Types
<1>3. q \in Questions /\ q.id \in Nat /\ q.by \in Callers
  BY <1>2, InPipe DEF TransportInv, Questions
<1>4. r \in Answers /\ r.id = q.id
  BY <1>3 DEF Answers
<1>5. Types'
  <2>1. inp' \in Seq(Questions)
    BY <1>1 DEF TransportInv, Types
  <2>2. out' \in Seq(Answers)
    BY <1>1, <1>4 DEF TransportInv, Types
  <2>3. did' \subseteq Callers
    BY <1>1, <1>3 DEF TransportInv, Types
  <2> QED BY <1>1, <2>1, <2>2, <2>3 DEF TransportInv, Types
<1>6. OneOpen' /\ Unfinished'
  BY <1>1 DEF TransportInv, Conversation, OneOpen, Unfinished, Open
<1>7. did \subseteq did'
  BY <1>1
<1>8. PublishedWasConfirmed'
  BY <1>1, <1>7 DEF TransportInv, Conversation, PublishedWasConfirmed
<1>9. \A c \in Callers : Open(c) /\ q.id = call[c].id => q.by = c
  BY <1>2 DEF TransportInv, Conversation, Numbered
<1>10. ASSUME NEW c \in Callers, Open(c), r.id = call[c].id, r.ok = TRUE
       PROVE  c \in did'
  <2>1. q.by = c
    BY <1>4, <1>9, <1>10
  <2>2. ok
    BY <1>10
  <2> QED BY <1>1, <1>4, <1>10, <2>1, <2>2
<1> HIDE DEF r
<1>11. \A k \in 1 .. Len(inp') : k + 1 \in 1 .. Len(inp) /\ inp'[k] = inp[k + 1]
  BY <1>1 DEF TransportInv, Types
<1>12. \A k \in 1 .. Len(out') : out'[k] = r \/ (k \in 1 .. Len(out) /\ out'[k] = out[k])
  BY <1>1, <1>4 DEF TransportInv, Types
<1>13. q.id <= nextID
  BY <1>2 DEF TransportInv, Conversation, Numbered
<1>14. \A c \in Callers : Open(c)' <=> Open(c)
  BY <1>1 DEF Open
<1>15. /\ \A k \in 1 .. Len(inp') : inp'[k].id <= nextID
       /\ \A k \in 1 .. Len(inp') : \A c \in Callers :
            Open(c) /\ inp'[k].id = call[c].id => inp'[k].by = c
  BY <1>11 DEF TransportInv, Conversation, Numbered
<1>16. /\ \A k \in 1 .. Len(out') : out'[k].id <= nextID
       /\ \A k \in 1 .. Len(out') : \A c \in Callers :
            Open(c) /\ out'[k].id = call[c].id /\ out'[k].ok = TRUE => c \in did'
  BY <1>4, <1>7, <1>10, <1>12, <1>13 DEF TransportInv, Conversation, Numbered
<1>17. Numbered'
  BY <1>1, <1>14, <1>15, <1>16 DEF Numbered
<1> QED BY <1>5, <1>6, <1>8, <1>17 DEF TransportInv, Conversation

LEMMA ChildMisbehavesStep ==
  ASSUME TransportInv, NEW sound \in BOOLEAN, ChildMisbehaves(sound)
  PROVE  TransportInv'
<1> DEFINE r == [sound |-> sound, id |-> 0, ok |-> TRUE]
<1>1. out' = Append(out, r) /\ UNCHANGED <<mu, nextID, inp, did, call>>
  BY DEF ChildMisbehaves
<1>2. r \in Answers /\ r.id = 0
  BY DEF Answers
<1> HIDE DEF r
<1>3. Types'
  BY <1>1, <1>2 DEF TransportInv, Types
<1>4. OneOpen' /\ Unfinished' /\ PublishedWasConfirmed'
  BY <1>1 DEF TransportInv, Conversation, OneOpen, Unfinished, Open, PublishedWasConfirmed
<1>5. \A k \in 1 .. Len(out') : out'[k] = r \/ (k \in 1 .. Len(out) /\ out'[k] = out[k])
  BY <1>1, <1>2 DEF TransportInv, Types
<1>6. \A c \in Callers : Open(c) => call[c].id # 0
  BY DEF TransportInv, Types, Conversation, Unfinished
<1>7. 0 <= nextID
  BY DEF TransportInv, Types
<1>8. Numbered'
  BY <1>1, <1>2, <1>5, <1>6, <1>7 DEF TransportInv, Conversation, Numbered, Open
<1> QED BY <1>3, <1>4, <1>8 DEF TransportInv, Conversation

\* The conversation goes on, whatever happens.
THEOREM TransportPreserved == TransportInv /\ [TransportNext]_transportVars => TransportInv'
<1> SUFFICES ASSUME TransportInv, [TransportNext]_transportVars PROVE TransportInv'
  OBVIOUS
<1>1. ASSUME NEW c \in Callers, Gate(c) PROVE TransportInv'
  BY <1>1, GateStep
<1>2. ASSUME NEW c \in Callers, Lock(c) PROVE TransportInv'
  BY <1>2, LockStep
<1>3. ASSUME NEW c \in Callers, Write(c) PROVE TransportInv'
  BY <1>3, WriteStep
<1>4. ASSUME NEW c \in Callers, Read(c) PROVE TransportInv'
  BY <1>4, ReadStep
<1>5. CASE WatchdogFires \/ WatchdogEnds
  BY <1>5, Frame DEF WatchdogFires, WatchdogEnds, pipes
<1>6. ASSUME NEW e \in Emits, Begin(e) \/ Deadline(e) \/ EmitEnds(e) PROVE TransportInv'
  BY <1>6, Frame DEF Begin, Deadline, EmitEnds, pipes
<1>7. ASSUME NEW e \in Emits, FanOut(e) PROVE TransportInv'
  BY <1>7, FanOutStep
<1>8. ASSUME NEW e \in Emits, NEW s \in Subs, AskPlan(e, s) PROVE TransportInv'
  BY <1>8, AskPlanStep
<1>9. ASSUME NEW e \in Emits, NEW s \in Subs, CheckContext(e, s) PROVE TransportInv'
  BY <1>9, CheckContextStep
<1>10. CASE Abandon \/ Shutdown \/ Grace \/ Reaped
  BY <1>10, Frame DEF Abandon, Shutdown, Close, Grace, Reaped, pipes
<1>11. ASSUME NEW ok \in BOOLEAN, ChildAnswers(ok) PROVE TransportInv'
  BY <1>11, ChildAnswersStep
<1>12. ASSUME NEW sound \in BOOLEAN, ChildMisbehaves(sound) PROVE TransportInv'
  BY <1>12, ChildMisbehavesStep
<1>13. CASE ChildExits
  BY <1>13, Frame DEF ChildExits, pipes
<1>14. CASE UNCHANGED transportVars
  BY <1>14, Frame DEF transportVars
<1> QED
  BY <1>1, <1>2, <1>3, <1>4, <1>5, <1>6, <1>7, <1>8, <1>9, <1>10, <1>11, <1>12, <1>13, <1>14
  DEF TransportNext

----------------------------------------------------------------------------
(* Whom fail blames *)

Reading(c) == call[c].at = "read"

\* c's question, or the sound answer to it, is all that the two pipes hold.
Waiting(c) ==
  \/ out = <<>> /\ Len(inp) = 1 /\ inp[1].id = call[c].id
  \/ inp = <<>> /\ Len(out) = 1 /\ out[1].sound /\ out[1].id = call[c].id

\* As long as the transport is in use and the child polite, the pipes hold nothing else.
Paired ==
  ~closed /\ ~rude =>
    /\ \A c \in Callers : Reading(c) => Waiting(c)
    /\ (\A c \in Callers : ~Reading(c)) => inp = <<>> /\ out = <<>>

Polite == Paired /\ BlamedOnlyIfRude

\* A step that leaves the pipes and the readers alone, or ends the transport's use.
LEMMA PoliteFrame ==
  ASSUME TransportInv, Polite, UNCHANGED rude,
         cause' = cause \/ cause' = "gone",
         closed' = TRUE \/ (UNCHANGED <<closed, inp, out>>
                            /\ \A c \in Callers : /\ Reading(c)' <=> Reading(c)
                                                  /\ Reading(c) => call'[c] = call[c])
  PROVE  Polite'
<1>1. BlamedOnlyIfRude'
  BY DEF Polite, BlamedOnlyIfRude
<1>2. CASE closed' = TRUE
  BY <1>1, <1>2 DEF Polite, Paired
<1>3. CASE /\ UNCHANGED <<closed, inp, out>>
           /\ \A c \in Callers : /\ Reading(c)' <=> Reading(c)
                                 /\ Reading(c) => call'[c] = call[c]
  <2>1. \A c \in Callers : Reading(c) => (Waiting(c)' <=> Waiting(c))
    BY <1>3 DEF Waiting
  <2>2. Paired'
    BY <1>3, <2>1 DEF Polite, Paired
  <2> QED BY <1>1, <2>2 DEF Polite
<1> QED BY <1>2, <1>3

LEMMA PoliteWrite ==
  ASSUME TransportInv, Polite, NEW c \in Callers, Write(c)
  PROVE  Polite'
<1>1. CASE inOpen /\ child = "up"
  <2> DEFINE q == [id |-> call[c].id, by |-> c, op |-> call[c].op]
  <2>1. /\ inp' = Append(inp, q) /\ call[c].at = "write" /\ call' = [call EXCEPT ![c].at = "read"]
        /\ UNCHANGED <<closed, rude, cause, out>>
    BY <1>1 DEF Write, Goto, fate, process
  <2>2. q.id = call[c].id
    OBVIOUS
  <2> HIDE DEF q
  <2>3. \A d \in Callers : ~Reading(d)
    BY <2>1 DEF TransportInv, Conversation, OneOpen, Open, Reading
  <2>4. \A d \in Callers : Reading(d)' => d = c
    BY <2>1, <2>3 DEF Reading, TransportInv, Types, Trips
  <2>5. call'[c].id = call[c].id /\ Reading(c)'
    BY <2>1 DEF Reading, TransportInv, Types, Trips
  <2>6. ASSUME ~closed, ~rude PROVE Waiting(c)'
    <3>1. inp = <<>> /\ out = <<>>
      BY <2>3, <2>6 DEF Polite, Paired
    <3>2. out' = <<>> /\ Len(inp') = 1 /\ inp'[1] = q
      BY <2>1, <3>1
    <3> QED BY <2>2, <2>5, <3>2 DEF Waiting
  <2>7. Paired'
    BY <2>1, <2>4, <2>5, <2>6 DEF Paired
  <2>8. BlamedOnlyIfRude'
    BY <2>1 DEF Polite, BlamedOnlyIfRude
  <2> QED BY <2>7, <2>8 DEF Polite
<1>2. CASE ~(inOpen /\ child = "up")
  <2>1. Fail("gone") /\ UNCHANGED rude
    BY <1>2 DEF Write, process
  <2>2. closed' = TRUE \/ (closed /\ closed' = closed)
    BY <2>1 DEF Fail, fate
  <2>3. cause' = cause \/ cause' = "gone"
    BY <2>1 DEF Fail, fate
  <2>4. BlamedOnlyIfRude'
    BY <2>1, <2>3 DEF Polite, BlamedOnlyIfRude
  <2>5. Paired'
    BY <2>2 DEF Paired
  <2> QED BY <2>4, <2>5 DEF Polite
<1> QED BY <1>1, <1>2

LEMMA PoliteRead ==
  ASSUME TransportInv, Polite, NEW c \in Callers, Read(c)
  PROVE  Polite'
<1>0. Reading(c) /\ UNCHANGED <<inp, rude>>
  BY DEF Read, Reading, process
<1>1. CASE /\ out # <<>>
           /\ ~(Head(out).sound /\ Head(out).id = call[c].id) /\ Fail("rude")
  <2>1. closed' = TRUE \/ (closed /\ closed' = closed /\ cause' = cause)
    BY <1>1 DEF Fail, fate
  <2>2. Paired'
    BY <2>1 DEF Paired
  <2>3. CASE closed
    <3>1. cause' = cause
      BY <1>1, <2>3 DEF Fail, fate
    <3> QED BY <1>0, <2>2, <3>1 DEF Polite, BlamedOnlyIfRude
  <2>4. CASE rude
    BY <1>0, <2>2, <2>4 DEF Polite, BlamedOnlyIfRude
  <2>5. CASE ~closed /\ ~rude
    <3>1. Waiting(c)
      BY <1>0, <2>5 DEF Polite, Paired
    <3>2. Len(out) = 1 /\ out[1].sound /\ out[1].id = call[c].id
      BY <1>1, <3>1 DEF Waiting
    <3>3. Head(out) = out[1]
      BY <3>2 DEF TransportInv, Types
    <3> QED BY <1>1, <3>2, <3>3
  <2> QED BY <2>3, <2>4, <2>5
<1>2. CASE /\ out # <<>> /\ out' = Tail(out) /\ Answered(c, Head(out))
  <2>1. /\ UNCHANGED <<closed, cause>> /\ call'[c].at = "end"
        /\ \A d \in Callers \ {c} : call'[d] = call[d]
    BY <1>2 DEF Answered, Unlocked, Return, TransportInv, Types, Trips
  <2>2. \A d \in Callers : ~Reading(d)'
    BY <1>0, <2>1 DEF TransportInv, Conversation, OneOpen, Open, Reading
  <2>3. ASSUME ~closed, ~rude PROVE inp' = <<>> /\ out' = <<>>
    <3>1. inp = <<>> /\ Len(out) = 1
      BY <1>0, <1>2, <2>3 DEF Polite, Paired, Waiting
    <3> QED BY <1>0, <1>2, <3>1 DEF TransportInv, Types
  <2>4. Paired'
    BY <1>0, <2>1, <2>2, <2>3 DEF Paired
  <2> QED BY <1>0, <2>1, <2>4 DEF Polite, BlamedOnlyIfRude
<1>3. CASE Fail("gone")
  <2>1. closed' = TRUE \/ (closed /\ closed' = closed)
    BY <1>3 DEF Fail, fate
  <2>2. cause' = cause \/ cause' = "gone"
    BY <1>3 DEF Fail, fate
  <2>3. Paired'
    BY <2>1 DEF Paired
  <2> QED BY <1>0, <2>2, <2>3 DEF Polite, BlamedOnlyIfRude
<1> QED BY <1>1, <1>2, <1>3 DEF Read

LEMMA PoliteAnswers ==
  ASSUME TransportInv, Polite, NEW ok \in BOOLEAN, ChildAnswers(ok)
  PROVE  Polite'
<1> DEFINE r == [sound |-> TRUE, id |-> Head(inp).id, ok |-> ok]
<1>1. /\ inp # <<>> /\ inp' = Tail(inp) /\ out' = Append(out, r)
      /\ UNCHANGED <<call, closed, rude, cause>>
  BY DEF ChildAnswers, process, fate
<1>2. r.sound /\ r.id = Head(inp).id
  OBVIOUS
<1> HIDE DEF r
<1>3. ASSUME ~closed, ~rude, NEW c \in Callers, Reading(c) PROVE Waiting(c)'
  <2>1. out = <<>> /\ Len(inp) = 1 /\ inp[1].id = call[c].id
    BY <1>1, <1>3 DEF Polite, Paired, Waiting
  <2>2. inp' = <<>> /\ out' = <<r>> /\ Head(inp) = inp[1]
    BY <1>1, <2>1 DEF TransportInv, Types
  <2> QED BY <1>1, <1>2, <2>1, <2>2 DEF Waiting
<1>4. Paired'
  BY <1>1, <1>3 DEF Polite, Paired, Reading
<1> QED BY <1>1, <1>4 DEF Polite, BlamedOnlyIfRude

LEMMA PoliteLock ==
  ASSUME TransportInv, Polite, NEW c \in Callers, Lock(c)
  PROVE  Polite'
<1>1. /\ call[c].at = "lock" /\ UNCHANGED <<inp, out, closed, rude, cause>>
      /\ \/ call' = [call EXCEPT ![c].at = "end", ![c].res = "closed"]
         \/ call' = [call EXCEPT ![c].at = "write", ![c].id = nextID + 1]
  BY DEF Lock, Return, Number, process, fate
<1>2. \A d \in Callers : /\ Reading(d)' <=> Reading(d)
                         /\ Reading(d) => call'[d] = call[d]
  BY <1>1 DEF Reading, TransportInv, Types, Trips
<1> QED BY <1>1, <1>2, PoliteFrame

\* No step of a polite child leaves something in the pipes that is nobody's answer, and
\* none blames it.
THEOREM PolitePreserved == TransportInv /\ Polite /\ [TransportNext]_transportVars => Polite'
<1> SUFFICES ASSUME TransportInv, Polite, [TransportNext]_transportVars PROVE Polite'
  OBVIOUS
<1>1. ASSUME NEW c \in Callers, Gate(c) PROVE Polite'
  <2>1. /\ call[c].at = "gate" /\ UNCHANGED <<inp, out, closed, rude, cause>>
        /\ \/ call' = [call EXCEPT ![c].at = "end", ![c].res = "closed"]
           \/ call' = [call EXCEPT ![c].at = "lock"]
    BY <1>1 DEF Gate, Return, Goto, pipes, process, fate
  <2>2. \A d \in Callers : /\ Reading(d)' <=> Reading(d)
                           /\ Reading(d) => call'[d] = call[d]
    BY <2>1 DEF Reading, TransportInv, Types, Trips
  <2> QED BY <2>1, <2>2, PoliteFrame
<1>2. ASSUME NEW c \in Callers, Lock(c) PROVE Polite'
  BY <1>2, PoliteLock
<1>3. ASSUME NEW c \in Callers, Write(c) PROVE Polite'
  BY <1>3, PoliteWrite
<1>4. ASSUME NEW c \in Callers, Read(c) PROVE Polite'
  BY <1>4, PoliteRead
<1>5. CASE WatchdogFires
  <2>1. closed' = TRUE /\ cause' = "gone" /\ UNCHANGED rude
    BY <1>5 DEF WatchdogFires, Fail, process
  <2> QED BY <2>1, PoliteFrame
<1>6. CASE /\ UNCHANGED <<closed, rude, cause, inp, out, call>>
  BY <1>6, PoliteFrame DEF Reading
<1>7. ASSUME NEW e \in Emits, FanOut(e) PROVE Polite'
  <2>1. /\ UNCHANGED <<inp, out, closed, rude, cause>>
        /\ \A c \in Callers : call'[c] = call[c] \/ (call[c].at = "end" /\ call'[c].at = "ctx")
    BY <1>7 DEF FanOut, Planned, OfEmit, Callers, pipes, process, fate
  <2>2. \A c \in Callers : /\ Reading(c)' <=> Reading(c)
                           /\ Reading(c) => call'[c] = call[c]
    BY <2>1 DEF Reading
  <2> QED BY <2>1, <2>2, PoliteFrame
<1>8. ASSUME NEW e \in Emits, NEW s \in Subs, AskPlan(e, s) PROVE Polite'
  <2> DEFINE c == <<e, s>>
  <2>1. /\ c \in Callers /\ call[c].at \in {"idle", "end"}
        /\ call' = [call EXCEPT ![c].op = "plan", ![c].at = "gate"]
        /\ UNCHANGED <<inp, out, closed, rude, cause>>
    BY <1>8 DEF AskPlan, Callers, OfEmit, pipes, process, fate
  <2> HIDE DEF c
  <2>2. \A d \in Callers : /\ Reading(d)' <=> Reading(d)
                           /\ Reading(d) => call'[d] = call[d]
    BY <2>1 DEF Reading, TransportInv, Types, Trips
  <2> QED BY <2>1, <2>2, PoliteFrame
<1>9. ASSUME NEW e \in Emits, NEW s \in Subs, CheckContext(e, s) PROVE Polite'
  <2> DEFINE c == <<e, s>>
  <2>1. /\ c \in Callers /\ call[c].at = "ctx"
        /\ \/ call' = [call EXCEPT ![c].at = "end", ![c].res = "late"]
           \/ call' = [call EXCEPT ![c].at = "gate"]
        /\ UNCHANGED <<inp, out, closed, rude, cause>>
    BY <1>9 DEF CheckContext, Return, Goto, Callers, pipes, process, fate
  <2> HIDE DEF c
  <2>2. \A d \in Callers : /\ Reading(d)' <=> Reading(d)
                           /\ Reading(d) => call'[d] = call[d]
    BY <2>1 DEF Reading, TransportInv, Types, Trips
  <2> QED BY <2>1, <2>2, PoliteFrame
<1>10. CASE Abandon \/ Shutdown
  <2>1. closed' = TRUE /\ UNCHANGED <<rude, cause>>
    BY <1>10 DEF Abandon, Shutdown, Close, process
  <2> QED BY <2>1, PoliteFrame
<1>11. ASSUME NEW ok \in BOOLEAN, ChildAnswers(ok) PROVE Polite'
  BY <1>11, PoliteAnswers
<1>12. ASSUME NEW sound \in BOOLEAN, ChildMisbehaves(sound) PROVE Polite'
  <2>1. rude' = TRUE
    BY <1>12 DEF ChildMisbehaves
  <2> QED BY <2>1 DEF Polite, Paired, BlamedOnlyIfRude
<1>13. ASSUME NEW e \in Emits, Begin(e) \/ Deadline(e) \/ EmitEnds(e) PROVE Polite'
  BY <1>6, <1>13 DEF Begin, Deadline, EmitEnds, pipes, process, fate
<1>14. CASE WatchdogEnds \/ Grace \/ Reaped \/ ChildExits \/ UNCHANGED transportVars
  BY <1>6, <1>14 DEF WatchdogEnds, Grace, Reaped, ChildExits, transportVars, pipes, process, fate
<1> QED
  BY <1>1, <1>2, <1>3, <1>4, <1>5, <1>7, <1>8, <1>9, <1>10, <1>11, <1>12, <1>13, <1>14
  DEF TransportNext

----------------------------------------------------------------------------
(* The theorems *)

\* What a round trip may do to the transport's fate.
LEMMA FateTypes ==
  ASSUME Flags, Others,
         \/ Fail("gone") \/ Fail("rude") \/ UNCHANGED fate
         \/ straggler' = ~closed /\ UNCHANGED <<closed, inOpen, killed, cause>>,
         UNCHANGED <<process, emits, ending>>
  PROVE  Flags' /\ Others'
<1>1. /\ closed' \in BOOLEAN /\ inOpen' \in BOOLEAN /\ killed' \in BOOLEAN
      /\ straggler' \in BOOLEAN /\ cause' \in {"none", "gone", "rude"}
  <2>1. CASE Fail("gone")
    BY <2>1 DEF Fail, Flags, Others, fate
  <2>2. CASE Fail("rude")
    BY <2>2 DEF Fail, Flags, Others, fate
  <2>3. CASE UNCHANGED fate
    BY <2>3 DEF Flags, Others, fate
  <2>4. CASE straggler' = ~closed /\ UNCHANGED <<closed, inOpen, killed, cause>>
    BY <2>4 DEF Flags, Others
  <2> QED BY <2>1, <2>2, <2>3, <2>4
<1>2. Flags'
  BY <1>1 DEF Flags, process, ending
<1>3. Others'
  BY <1>1 DEF Others, process, emits, ending
<1> QED BY <1>2, <1>3

\* Every variable keeps its type, however many mutations and subscriptions there are.
THEOREM TransportTypeCorrect == TransportSpec => []TransportTypeOK
<1>1. TransportInit => Flags /\ Others
  BY DEF TransportInit, Flags, Others
<1>2. Flags /\ Others /\ [TransportNext]_transportVars => Flags' /\ Others'
  <2> SUFFICES ASSUME Flags, Others, [TransportNext]_transportVars PROVE Flags' /\ Others'
    OBVIOUS
  <2>1. ASSUME NEW c \in Callers, Gate(c) \/ Lock(c) PROVE Flags' /\ Others'
    BY <2>1 DEF Gate, Lock, Flags, Others, process, fate, emits, ending
  <2>2. ASSUME NEW c \in Callers, Write(c) PROVE Flags' /\ Others'
    <3>1. (Fail("gone") \/ UNCHANGED fate) /\ UNCHANGED <<process, emits, ending>>
      BY <2>2 DEF Write
    <3> QED BY <3>1, FateTypes
  <2>3. ASSUME NEW c \in Callers, Read(c) PROVE Flags' /\ Others'
    <3>1. /\ \/ Fail("gone") \/ Fail("rude")
             \/ straggler' = ~closed /\ UNCHANGED <<closed, inOpen, killed, cause>>
          /\ UNCHANGED <<process, emits, ending>>
      BY <2>3 DEF Read, Answered
    <3> QED BY <3>1, FateTypes
  <2>4. CASE WatchdogFires \/ WatchdogEnds
    <3>1. CASE WatchdogFires
      <4>1. Fail("gone") /\ UNCHANGED <<process, emits, ending>>
        BY <3>1 DEF WatchdogFires
      <4> QED BY <4>1, FateTypes
    <3>2. CASE WatchdogEnds
      <4>1. /\ straggler' = FALSE /\ UNCHANGED <<closed, inOpen, killed, cause>>
            /\ UNCHANGED <<process, emits, ending>>
        BY <3>2 DEF WatchdogEnds
      <4>2. Flags'
        BY <4>1 DEF Flags, process, ending
      <4>3. Others'
        BY <4>1 DEF Others, process, emits, ending
      <4> QED BY <4>2, <4>3
    <3> QED BY <2>4, <3>1, <3>2
  <2>5. ASSUME NEW e \in Emits, Begin(e) \/ EmitEnds(e) PROVE Flags' /\ Others'
    BY <2>5 DEF Begin, EmitEnds, Flags, Others, process, fate, emits, ending
  <2>6. ASSUME NEW e \in Emits, FanOut(e) PROVE Flags' /\ Others'
    BY <2>6 DEF FanOut, Flags, Others, process, fate, emits, ending
  <2>7. ASSUME NEW e \in Emits, Deadline(e) PROVE Flags' /\ Others'
    BY <2>7 DEF Deadline, Flags, Others, process, fate, emits, ending
  <2>8. ASSUME NEW e \in Emits, NEW s \in Subs, AskPlan(e, s) \/ CheckContext(e, s)
        PROVE  Flags' /\ Others'
    BY <2>8 DEF AskPlan, CheckContext, Flags, Others, process, fate, emits, ending
  <2>9. CASE Abandon \/ Shutdown
    BY <2>9 DEF Abandon, Shutdown, Close, Flags, Others, process, emits
  <2>10. CASE Grace \/ Reaped
    BY <2>10 DEF Grace, Reaped, Flags, Others, process, emits, ending
  <2>11. ASSUME NEW ok \in BOOLEAN, ChildAnswers(ok) \/ ChildMisbehaves(ok) PROVE Flags' /\ Others'
    <3>1. rude' \in BOOLEAN /\ UNCHANGED <<child, holds, fate, emits, ending>>
      BY <2>11 DEF ChildAnswers, ChildMisbehaves, Flags, process
    <3>2. Flags'
      BY <3>1 DEF Flags, fate, ending
    <3>3. Others'
      BY <3>1 DEF Others, fate, emits, ending
    <3> QED BY <3>2, <3>3
  <2>12. CASE ChildExits
    BY <2>12 DEF ChildExits, Flags, Others, process, fate, emits, ending
  <2>13. CASE UNCHANGED transportVars
    BY <2>13 DEF transportVars, Flags, Others
  <2> QED
    BY <2>1, <2>2, <2>3, <2>4, <2>5, <2>6, <2>7, <2>8, <2>9, <2>10, <2>11, <2>12, <2>13 DEF TransportNext
<1>3. TransportInv /\ Flags /\ Others => TransportTypeOK
  BY DEF TransportInv, Types, Flags, Others, TransportTypeOK, Trips, Places, Results, Questions, Answers
<1> QED BY <1>1, <1>2, <1>3, TransportInitially, TransportPreserved, PTL DEF TransportSpec

\* What an emit counts as published was confirmed by the child for that question, for any
\* number of mutations and subscriptions (the pairing of questions and answers in do).
THEOREM OnlyConfirmedIsPublished == TransportSpec => []PublishedWasConfirmed
<1>1. TransportInv => PublishedWasConfirmed
  BY DEF TransportInv, Conversation
<1> QED BY <1>1, TransportInitially, TransportPreserved, PTL DEF TransportSpec

\* fail blames the child for speaking out of turn only when it did: concurrent deliveries
\* never take each other's answers.
THEOREM NoPoliteChildIsBlamed == TransportSpec => []BlamedOnlyIfRude
<1>1. TransportInit => Polite
  BY DEF TransportInit, Polite, Paired, BlamedOnlyIfRude, Reading, NoCall, Callers
<1>2. Polite => BlamedOnlyIfRude
  BY DEF Polite
<1> QED BY <1>1, <1>2, TransportInitially, TransportPreserved, PolitePreserved, PTL DEF TransportSpec
============================================================================
