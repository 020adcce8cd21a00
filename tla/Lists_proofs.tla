---------------------------- MODULE Lists_proofs ----------------------------
(***************************************************************************)
(* What is computed over lists of any length, and what the two components  *)
(* that compute it promise by it: the command history, which keeps the     *)
(* newest lines of its file, and the bulk upserts, which split a file into *)
(* requests and reckon from each answer what has failed.                   *)
(*                                                                         *)
(* The first part is induction: over the numbers, from a least element;    *)
(* hence what a fold is, step by step; hence what Sublist has of a list.   *)
(*                                                                         *)
(* The history's invariant says that its file, and what a compaction has   *)
(* read of it, account for every entry: those it lacks are excused, or are *)
(* older than all it has and than half a file of entries. It is inductive  *)
(* because a write is excused while anyone is about to rename.             *)
(*                                                                         *)
(* That of an upsert says that nothing of a request is written before it   *)
(* is sent, and that what is told of one that was sent once is so. It      *)
(* needs that requests share no entry, and, of the reckoning by count,     *)
(* that as many entries of a key come behind w others as it has over w.    *)
(***************************************************************************)
EXTENDS History, BulkUpsert, FiniteSetTheorems, WellFoundedInduction, TLAPS

----------------------------------------------------------------------------
(* Induction, folds and sublists *)

Less == {p \in Nat \X Nat : p[1] < p[2]}

\* Going down in the numbers comes to an end.
LEMMA LessWF == IsWellFoundedOn(Less, Nat)
  BY NatLessThanWellFounded, Zenon DEF OpToRel, Less

\* A set of numbers that has one has a least one.
LEMMA LeastElement ==
    ASSUME NEW S \in SUBSET Nat, S # {}
    PROVE  \E x \in S : \A y \in S : x <= y
<1>2. PICK x \in S : \A y \in S : ~(<<y, x>> \in Less)
  BY LessWF, WFMin
<1>4. ASSUME NEW y \in S PROVE x <= y
  <2>1. <<y, x>> \notin Less
    BY <1>2
  <2>2. x \in Nat /\ y \in Nat
    OBVIOUS
  <2>3. ~(y < x)
    BY <2>1, <2>2 DEF Less
  <2>4. QED
    BY <2>2, <2>3
<1>3. QED
  BY <1>4

\* What holds of 0, and of k + 1 if of k, holds up to n. A property is a set here: one
\* that is a parameter could not be given a value.
LEMMA Induction ==
    ASSUME NEW n \in Nat, NEW S, 0 \in S,
           \A k \in 0 .. n - 1 : k \in S => k + 1 \in S
    PROVE  \A k \in 0 .. n : k \in S
<1> DEFINE Bad == {k \in 0 .. n : k \notin S}
<1>1. SUFFICES ASSUME Bad # {} PROVE FALSE
  OBVIOUS
<1>2. PICK k \in Bad : \A m \in Bad : k <= m
  <2>1. Bad \in SUBSET Nat
    OBVIOUS
  <2>2. QED
    BY <1>1, <2>1, LeastElement
<1>3. k # 0 /\ k - 1 \in 0 .. n - 1 /\ k - 1 \notin Bad
  BY <1>2
<1>4. k \in S
  BY <1>3
<1>5. QED
  BY <1>4

\* Max is what its name says.
LEMMA MaxOfNumbers ==
    ASSUME NEW n \in Nat, NEW T \in SUBSET (1 .. n), T # {}
    PROVE  /\ Max(T) \in T
           /\ \A y \in T : y <= Max(T)
<1> DEFINE Above == {n - x : x \in T}
<1>1. PICK a \in Above : \A b \in Above : a <= b
  <2>1. Above \in SUBSET Nat /\ Above # {}
    OBVIOUS
  <2>2. QED
    BY <2>1, LeastElement
<1>2. PICK x \in T : a = n - x
  OBVIOUS
<1>3. \A y \in T : x >= y
  <2>1. TAKE y \in T
  <2>2. n - y \in Above
    OBVIOUS
  <2>3. QED
    BY <1>1, <1>2, <2>2
<1>4. \E m \in T : \A y \in T : m >= y
  BY <1>3
<1>5. QED
  BY <1>4 DEF Max

\* g is the fold with step over each subset of 1 .. k, its greatest number last.
Folds(g, k, A, base, step) ==
    /\ g \in [SUBSET (1 .. k) -> A]
    /\ g[{}] = base
    /\ \A T \in SUBSET (1 .. k) : T # {} => g[T] = step[<<g[T \ {Max(T)}], Max(T)>>]

\* The fold over the numbers up to k goes on to k + 1.
LEMMA FoldsOneMore ==
    ASSUME NEW n \in Nat, NEW A, NEW base \in A, NEW step \in [A \X (1 .. n) -> A],
           NEW k \in 0 .. n - 1, NEW g, Folds(g, k, A, base, step)
    PROVE  \E h : Folds(h, k + 1, A, base, step)
<1> DEFINE h == [T \in SUBSET (1 .. k + 1) |->
                   IF k + 1 \in T THEN step[<<g[T \ {k + 1}], k + 1>>] ELSE g[T]]
<1>1. \A T \in SUBSET (1 .. k + 1) :
        /\ T \ {k + 1} \in SUBSET (1 .. k)
        /\ k + 1 \notin T => T \in SUBSET (1 .. k)
  OBVIOUS
<1>2. \A T \in SUBSET (1 .. k) : g[T] \in A
  BY DEF Folds
<1>3. h \in [SUBSET (1 .. k + 1) -> A]
  <2>1. SUFFICES ASSUME NEW T \in SUBSET (1 .. k + 1)
                 PROVE  (IF k + 1 \in T THEN step[<<g[T \ {k + 1}], k + 1>>] ELSE g[T]) \in A
    OBVIOUS
  <2>2. <<g[T \ {k + 1}], k + 1>> \in A \X (1 .. n)
    BY <1>1, <1>2
  <2>3. step[<<g[T \ {k + 1}], k + 1>>] \in A
    BY <2>2
  <2>4. QED
    BY <1>1, <1>2, <2>3
<1>4. h[{}] = base
  BY DEF Folds
<1>5. ASSUME NEW T \in SUBSET (1 .. k + 1), T # {}
      PROVE  h[T] = step[<<h[T \ {Max(T)}], Max(T)>>]
  <2>1. k + 1 \in Nat
    OBVIOUS
  <2>2. /\ Max(T) \in T
        /\ \A y \in T : y <= Max(T)
    BY <2>1, <1>5, MaxOfNumbers
  <2>3. CASE k + 1 \in T
    <3>1. Max(T) \in 1 .. k + 1 /\ k + 1 <= Max(T)
      BY <2>2, <2>3
    <3>2. Max(T) = k + 1
      BY <3>1
    <3>3. h[T \ {k + 1}] = g[T \ {k + 1}]
      OBVIOUS
    <3>4. h[T] = step[<<g[T \ {k + 1}], k + 1>>]
      BY <2>3
    <3>5. QED
      BY <3>2, <3>3, <3>4
  <2>4. CASE k + 1 \notin T
    <3>1. T \in SUBSET (1 .. k) /\ T \ {Max(T)} \in SUBSET (1 .. k)
      BY <1>1, <2>4
    <3>2. h[T] = g[T] /\ h[T \ {Max(T)}] = g[T \ {Max(T)}]
      <4>1. T \ {Max(T)} \in SUBSET (1 .. k + 1) /\ k + 1 \notin T \ {Max(T)}
        BY <2>4
      <4>2. QED
        BY <4>1, <2>4
    <3>3. g[T] = step[<<g[T \ {Max(T)}], Max(T)>>]
      BY <3>1, <1>5 DEF Folds
    <3>4. QED
      BY <3>2, <3>3
  <2>5. QED
    BY <2>3, <2>4
<1> HIDE DEF h
<1>6. QED
  BY <1>3, <1>4, <1>5 DEF Folds

\* So there is a fold, whatever its step.
LEMMA FoldExists ==
    ASSUME NEW n \in Nat, NEW A, NEW base \in A, NEW step \in [A \X (1 .. n) -> A]
    PROVE  \E g : Folds(g, n, A, base, step)
<1> DEFINE S == {k \in 0 .. n : \E g : Folds(g, k, A, base, step)}
<1>1. 0 \in S
  <2> DEFINE g == [T \in SUBSET (1 .. 0) |-> base]
  <2>1. SUBSET (1 .. 0) = {{}}
    OBVIOUS
  <2>2. Folds(g, 0, A, base, step)
    BY <2>1 DEF Folds
  <2> HIDE DEF g
  <2>3. 0 \in 0 .. n
    OBVIOUS
  <2>4. QED
    BY <2>2, <2>3
<1>2. \A k \in 0 .. n - 1 : k \in S => k + 1 \in S
  BY FoldsOneMore
<1> HIDE DEF S
<1>3. \A k \in 0 .. n : k \in S
  BY <1>1, <1>2, Induction
<1>4. n \in S
  BY <1>3
<1>5. QED
  BY <1>4 DEF S

\* Of an iterator, that it takes a step wherever the rest of the set has a value.
Iterates(g, n, A, base, step) ==
    /\ g[{}] = base
    /\ \A T \in SUBSET (1 .. n) : T # {} /\ g[T \ {Max(T)}] \in A
         => g[T] = step[<<g[T \ {Max(T)}], Max(T)>>]

\* r[k] is the value after k steps, from base on to last.
Runs(r, n, A, base, step, last) ==
    /\ r \in [0 .. n -> A]
    /\ r[0] = base
    /\ \A k \in 1 .. n : r[k] = step[<<r[k - 1], k>>]
    /\ r[n] = last

\* An iterator on the whole set is reached in n steps.
LEMMA IteratorRuns ==
    ASSUME NEW n \in Nat, NEW A, NEW base \in A, NEW step \in [A \X (1 .. n) -> A], NEW g,
           Iterates(g, n, A, base, step)
    PROVE  \E r : Runs(r, n, A, base, step, g[1 .. n])
<1> DEFINE S == {k \in 0 .. n : g[1 .. k] \in A}
           r == [k \in 0 .. n |-> g[1 .. k]]
<1>1. g[1 .. 0] = base
  <2>1. 1 .. 0 = {}
    OBVIOUS
  <2>2. QED
    BY <2>1 DEF Iterates
<1>2. ASSUME NEW k \in 1 .. n, g[1 .. k - 1] \in A
      PROVE  g[1 .. k] = step[<<g[1 .. k - 1], k>>] /\ g[1 .. k] \in A
  <2>1. k \in 1 .. k /\ 1 .. k \in SUBSET (1 .. n)
    OBVIOUS
  <2>2. Max(1 .. k) \in 1 .. k /\ \A y \in 1 .. k : y <= Max(1 .. k)
    BY ONLY <2>1, n \in Nat, MaxOfNumbers
  <2>3. Max(1 .. k) = k
    BY <2>1, <2>2
  <2>4. (1 .. k) \ {k} = 1 .. k - 1
    OBVIOUS
  <2>5. g[1 .. k] = step[<<g[1 .. k - 1], k>>]
    BY <1>2, <2>1, <2>3, <2>4 DEF Iterates
  <2>6. <<g[1 .. k - 1], k>> \in A \X (1 .. n)
    BY <1>2
  <2>7. QED
    BY <2>5, <2>6
<1>3. \A k \in 0 .. n : k \in S
  <2>1. 0 \in S
    BY <1>1
  <2>2. ASSUME NEW k \in 0 .. n - 1, k \in S PROVE k + 1 \in S
    <3>1. k + 1 \in 1 .. n /\ k + 1 \in 0 .. n /\ (k + 1) - 1 = k
      OBVIOUS
    <3>2. g[1 .. (k + 1) - 1] \in A
      BY <2>2, <3>1
    <3>3. g[1 .. k + 1] \in A
      BY <1>2, <3>1, <3>2
    <3>4. QED
      BY <3>1, <3>3
  <2> HIDE DEF S
  <2>3. QED
    BY <2>1, <2>2, Induction
<1>4. r \in [0 .. n -> A]
  BY <1>3
<1>5. ASSUME NEW k \in 1 .. n PROVE r[k] = step[<<r[k - 1], k>>]
  <2>1. k - 1 \in 0 .. n /\ k \in 0 .. n
    OBVIOUS
  <2>2. g[1 .. k - 1] \in A
    BY <1>3, <2>1
  <2>3. QED
    BY <1>2, <2>1, <2>2
<1>6. r[0] = base /\ r[n] = g[1 .. n]
  BY <1>1
<1> HIDE DEF r
<1>7. QED
  BY <1>4, <1>5, <1>6 DEF Runs

\* r[k] is what the first k elements of s have in S, in order.
Selects(r, s, X, S) ==
    /\ r \in [0 .. Len(s) -> Seq(X)]
    /\ r[0] = <<>>
    /\ \A k \in 1 .. Len(s) : r[k] = IF s[k] \in S THEN Append(r[k - 1], s[k]) ELSE r[k - 1]

\* The fold that Sublist is, as a run through the sequence.
LEMMA SublistSelects ==
    ASSUME NEW X, NEW s \in Seq(X), NEW S
    PROVE  \E r : Selects(r, s, X, S) /\ Sublist(s, S) = r[Len(s)]
<1> DEFINE n == Len(s)
           A == Seq(X)
           step == [p \in A \X (1 .. n) |->
                      IF s[p[2]] \in S THEN Append(p[1], s[p[2]]) ELSE p[1]]
           F(it) == [T \in SUBSET DOMAIN s |->
                       IF T = {} THEN <<>>
                       ELSE IF s[Max(T)] \in S THEN Append(it[T \ {Max(T)}], s[Max(T)])
                                               ELSE it[T \ {Max(T)}]]
           iter == CHOOSE it : it = F(it)
<1>1. Sublist(s, S) = iter[DOMAIN s]
  BY Zenon DEF Sublist, FoldLeft, MapThenFoldSet
<1>2. n \in Nat /\ DOMAIN s = 1 .. n /\ <<>> \in A
  OBVIOUS
<1>3. \A a \in A, x \in 1 .. n :
        /\ step[<<a, x>>] = IF s[x] \in S THEN Append(a, s[x]) ELSE a
        /\ step[<<a, x>>] \in A
  OBVIOUS
<1>4. step \in [A \X (1 .. n) -> A]
  OBVIOUS
<1>5. \E it : it = F(it)
  <2>1. PICK g : Folds(g, n, A, <<>>, step)
    <3> HIDE DEF step, A, n
    <3>1. QED
      BY <1>2, <1>4, FoldExists
  <2>2. ASSUME NEW T \in SUBSET (1 .. n), T # {}
        PROVE  g[T] = IF s[Max(T)] \in S THEN Append(g[T \ {Max(T)}], s[Max(T)]) ELSE g[T \ {Max(T)}]
    <3>1. Max(T) \in 1 .. n
      BY <1>2, <2>2, MaxOfNumbers
    <3>2. T \ {Max(T)} \in SUBSET (1 .. n)
      OBVIOUS
    <3>3. g[T \ {Max(T)}] \in A /\ g[T] = step[<<g[T \ {Max(T)}], Max(T)>>]
      BY <2>1, <2>2, <3>2 DEF Folds
    <3> HIDE DEF step, A, n
    <3>4. QED
      BY <1>3, <3>1, <3>3
  <2>3. g = F(g)
    BY <1>2, <2>1, <2>2 DEF Folds
  <2>4. QED
    BY <2>3
<1>6. iter = F(iter)
  BY <1>5, Zenon
<1> HIDE DEF iter
<1>7. iter[{}] = <<>>
  BY <1>6
<1>8. ASSUME NEW T \in SUBSET (1 .. n), T # {}, iter[T \ {Max(T)}] \in A
      PROVE  iter[T] = step[<<iter[T \ {Max(T)}], Max(T)>>]
  <2>1. Max(T) \in 1 .. n
    BY <1>2, <1>8, MaxOfNumbers
  <2>2. iter[T] = IF s[Max(T)] \in S THEN Append(iter[T \ {Max(T)}], s[Max(T)])
                                      ELSE iter[T \ {Max(T)}]
    BY <1>2, <1>6, <1>8
  <2> HIDE DEF step, A, n
  <2>3. QED
    BY <1>3, <1>8, <2>1, <2>2
<1> DEFINE base == <<>>
<1>9. Iterates(iter, n, A, base, step)
  <2> HIDE DEF step, A, n, F
  <2>1. QED
    BY <1>7, <1>8 DEF Iterates
<1>10. PICK r : Runs(r, n, A, base, step, iter[1 .. n])
  <2>1. base \in A
    BY <1>2
  <2> HIDE DEF step, A, n, F, base
  <2>2. QED
    BY <1>2, <1>4, <1>9, <2>1, IteratorRuns
<1>11. ASSUME NEW k \in 1 .. n
       PROVE  r[k] = IF s[k] \in S THEN Append(r[k - 1], s[k]) ELSE r[k - 1]
  <2>1. k - 1 \in 0 .. n
    OBVIOUS
  <2> HIDE DEF step, A
  <2>2. r[k - 1] \in A
    BY <1>10, <2>1 DEF Runs
  <2>3. QED
    BY <1>3, <1>10, <2>2 DEF Runs
<1>12. QED
  BY <1>1, <1>2, <1>10, <1>11 DEF Selects, Runs

\* h says where in the first k elements of s those of t come from: t has those in S.
From(h, t, s, S, k) ==
    /\ h \in [1 .. Len(t) -> 1 .. k]
    /\ \A i, j \in 1 .. Len(t) : i < j => h[i] < h[j]
    /\ \A i \in 1 .. Len(t) : t[i] = s[h[i]] /\ t[i] \in S
    /\ \A m \in 1 .. k : s[m] \in S => \E i \in 1 .. Len(t) : h[i] = m

\* The next element is in the set: it is the last of the sublist.
LEMMA OneMoreSelected ==
    ASSUME NEW X, NEW s \in Seq(X), NEW S, NEW k \in 0 .. Len(s) - 1, NEW t \in Seq(X),
           NEW h, From(h, t, s, S, k), s[k + 1] \in S
    PROVE  \E g : From(g, Append(t, s[k + 1]), s, S, k + 1)
<1> DEFINE u == Append(t, s[k + 1])
           g == [i \in 1 .. Len(u) |-> IF i = Len(u) THEN k + 1 ELSE h[i]]
<1>1. Len(t) \in Nat /\ Len(u) = Len(t) + 1 /\ u[Len(u)] = s[k + 1]
  OBVIOUS
<1>2. \A i \in 1 .. Len(t) : u[i] = t[i] /\ g[i] = h[i] /\ h[i] \in 1 .. k /\ i \in 1 .. Len(u)
  <2>1. TAKE i \in 1 .. Len(t)
  <2>2. i \in 1 .. Len(u) /\ i # Len(u)
    BY <1>1
  <2>3. u[i] = t[i]
    OBVIOUS
  <2>4. h[i] \in 1 .. k
    BY DEF From
  <2> HIDE DEF u
  <2>5. QED
    BY <2>2, <2>3, <2>4
<1>3. g[Len(u)] = k + 1
  BY <1>1
<1>4. \A i \in 1 .. Len(u) : i = Len(u) \/ i \in 1 .. Len(t)
  BY <1>1
<1>5. g \in [1 .. Len(u) -> 1 .. k + 1]
  <2> HIDE DEF u
  <2>1. ASSUME NEW i \in 1 .. Len(u)
        PROVE  (IF i = Len(u) THEN k + 1 ELSE h[i]) \in 1 .. k + 1
    <3>1. CASE i = Len(u)
      BY <3>1
    <3>2. CASE i \in 1 .. Len(t) /\ i # Len(u)
      <4>1. h[i] \in 1 .. k
        BY <1>2, <3>2
      <4>2. QED
        BY <4>1, <3>2
    <3>3. QED
      BY <1>4, <3>1, <3>2
  <2>2. QED
    BY <2>1
<1> HIDE DEF g, u
<1>6. ASSUME NEW i \in 1 .. Len(u), NEW j \in 1 .. Len(u), i < j
      PROVE  g[i] < g[j]
  <2>1. i \in 1 .. Len(t)
    BY <1>1, <1>6
  <2>2. CASE j = Len(u)
    BY <1>2, <1>3, <2>1, <2>2
  <2>3. CASE j \in 1 .. Len(t)
    BY <1>2, <1>6, <2>1, <2>3 DEF From
  <2>4. QED
    BY <1>4, <2>2, <2>3
<1>7. \A i \in 1 .. Len(u) : u[i] = s[g[i]] /\ u[i] \in S
  <2>1. TAKE i \in 1 .. Len(u)
  <2>2. CASE i = Len(u)
    BY <1>1, <1>3, <2>2
  <2>3. CASE i \in 1 .. Len(t)
    BY <1>2, <2>3 DEF From
  <2>4. QED
    BY <1>4, <2>2, <2>3
<1>8. \A m \in 1 .. k + 1 : s[m] \in S => \E i \in 1 .. Len(u) : g[i] = m
  <2>1. SUFFICES ASSUME NEW m \in 1 .. k + 1, s[m] \in S
                 PROVE  \E i \in 1 .. Len(u) : g[i] = m
    OBVIOUS
  <2>2. CASE m = k + 1
    BY <1>1, <1>3, <2>2
  <2>3. CASE m \in 1 .. k
    <3>1. PICK i \in 1 .. Len(t) : h[i] = m
      BY <2>1, <2>3 DEF From
    <3>2. QED
      BY <1>2, <3>1
  <2>4. QED
    BY <2>2, <2>3
<1>9. From(g, u, s, S, k + 1)
  BY <1>5, <1>6, <1>7, <1>8 DEF From
<1>10. QED
  BY <1>9 DEF u

\* It is not: the sublist stays as it is.
LEMMA OneMoreLeftOut ==
    ASSUME NEW X, NEW s \in Seq(X), NEW S, NEW k \in 0 .. Len(s) - 1, NEW t \in Seq(X),
           NEW h, From(h, t, s, S, k), s[k + 1] \notin S
    PROVE  From(h, t, s, S, k + 1)
<1>1. h \in [1 .. Len(t) -> 1 .. k + 1]
  BY DEF From
<1>2. \A m \in 1 .. k + 1 : m = k + 1 \/ m \in 1 .. k
  OBVIOUS
<1>3. QED
  BY <1>1, <1>2 DEF From

\* Sublist(s, S) has the elements of s that are in S, in the order they have in s.
LEMMA SublistFrom ==
    ASSUME NEW X, NEW s \in Seq(X), NEW S
    PROVE  /\ Sublist(s, S) \in Seq(X)
           /\ \E h : From(h, Sublist(s, S), s, S, Len(s))
<1>1. PICK r : Selects(r, s, X, S) /\ Sublist(s, S) = r[Len(s)]
  BY SublistSelects
<1>2. Len(s) \in Nat
  OBVIOUS
<1> DEFINE Done == {k \in 0 .. Len(s) : \E h : From(h, r[k], s, S, k)}
<1>3. 0 \in Done
  <2> DEFINE h == [i \in 1 .. 0 |-> i]
  <2>1. r[0] = <<>> /\ Len(r[0]) = 0
    BY <1>1 DEF Selects
  <2>2. From(h, r[0], s, S, 0)
    BY <2>1 DEF From
  <2>3. QED
    BY <1>2, <2>2
<1>4. \A k \in 0 .. Len(s) - 1 : k \in Done => k + 1 \in Done
  <2>1. SUFFICES ASSUME NEW k \in 0 .. Len(s) - 1, k \in Done PROVE k + 1 \in Done
    OBVIOUS
  <2>2. PICK h : From(h, r[k], s, S, k)
    BY <2>1
  <2>3. k \in 0 .. Len(s) /\ k + 1 \in 1 .. Len(s) /\ k + 1 \in 0 .. Len(s) /\ (k + 1) - 1 = k
    BY <1>2
  <2>4. /\ r[k] \in Seq(X)
        /\ r[k + 1] = IF s[k + 1] \in S THEN Append(r[k], s[k + 1]) ELSE r[k]
    BY <1>1, <2>3 DEF Selects
  <2>5. \E g : From(g, r[k + 1], s, S, k + 1)
    BY <2>2, <2>4, OneMoreSelected, OneMoreLeftOut
  <2>6. QED
    BY <2>3, <2>5
<1> HIDE DEF Done
<1>5. \A k \in 0 .. Len(s) : k \in Done
  BY <1>2, <1>3, <1>4, Induction
<1>6. \E h : From(h, r[Len(s)], s, S, Len(s))
  BY <1>2, <1>5 DEF Done
<1>7. r[Len(s)] \in Seq(X)
  BY <1>1, <1>2 DEF Selects
<1>8. QED
  BY <1>1, <1>6, <1>7

----------------------------------------------------------------------------
(* The history file *)

\* The record of an Append under way.
Working == [at : {"write", "lock", "read", "rename", "unlock"}, fresh : BOOLEAN,
            size : Nat, data : Seq(Nat), alone : BOOLEAN]

HistoryTypeOK ==
    /\ lines \in Seq(Nat)
    /\ torn \in BOOLEAN
    /\ proc \in [Procs -> {Idle} \union Working]
    /\ lock \in Procs \union {Nobody}
    /\ written \in Nat
    /\ excused \in SUBSET (1 .. written)
    /\ settled \in BOOLEAN

\* The entries of a file s are in order; each was followed by no more lines than
\* writes; and those that s lacks are excused, or older than all it has and than what
\* a compaction keeps.
InOrder(s) == \A i, j \in DOMAIN s : i < j /\ 0 \notin {s[i], s[j]} => s[i] < s[j]
Dated(s) == \A i \in DOMAIN s : s[i] # 0 => Len(s) - i <= written - s[i]
LostAreOld(s) ==
    \A n \in 1 .. written \ (excused \union Range(s)) :
        /\ written - n >= Keep
        /\ \A m \in Range(s) \ {0} : m > n
Accounted(s) == InOrder(s) /\ Dated(s) /\ LostAreOld(s)

\* A line without its end is the last one, and unreadable.
TornLine == torn => lines # <<>> /\ lines[Len(lines)] = 0

\* What a compaction has read is as good as the file: a write since then is excused.
ToRename == \A p \in Procs : At(p, "rename") => Accounted(proc[p].data) /\ Len(proc[p].data) > Limit

\* An append that nobody disturbed is the only one, and knows the file as it is.
Undisturbed ==
    \A p \in Procs : proc[p] # Idle /\ proc[p].alone =>
        /\ \A q \in Procs \ {p} : proc[q] = Idle
        /\ At(p, "write") => proc[p].fresh /\ proc[p].size = Len(lines)
        /\ At(p, "unlock") => Len(lines) <= Limit

\* Where such an append was the last to do anything, nobody is at work.
Settled == settled => Len(lines) <= Limit /\ \A q \in Procs : proc[q] = Idle

HistoryInv ==
    /\ HistoryTypeOK
    /\ LockIsHeld
    /\ Accounted(lines)
    /\ TornLine
    /\ ToRename
    /\ Undisturbed
    /\ Settled

USE DEF At, Idle

\* What a process at work may be set to.
LEMMA AtWork ==
    ASSUME HistoryTypeOK, NEW p \in Procs, proc[p] # Idle
    PROVE  /\ proc[p] \in Working
           /\ proc[p].alone \in BOOLEAN
           /\ proc[p].data \in Seq(Nat)
           /\ \A x \in {"write", "lock", "read", "rename", "unlock"} :
                [proc EXCEPT ![p].at = x] \in [Procs -> {Idle} \union Working]
<1>1. proc[p] \in Working
  BY DEF HistoryTypeOK
<1>2. \A x \in {"write", "lock", "read", "rename", "unlock"} : [proc[p] EXCEPT !.at = x] \in Working
  BY <1>1 DEF Working
<1>3. QED
  BY <1>1, <1>2 DEF HistoryTypeOK, Working

\* A process that returns, or dies, has no type to lose.
LEMMA AtRest ==
    ASSUME HistoryTypeOK, NEW p \in Procs
    PROVE  [proc EXCEPT ![p] = Idle] \in [Procs -> {Idle} \union Working]
  BY DEF HistoryTypeOK

\* What one process does to the others' records keeps them records.
LEMMA DisturbedType ==
    ASSUME NEW procs \in [Procs -> {Idle} \union Working], NEW p \in Procs
    PROVE  /\ Disturbed(procs, p) \in [Procs -> {Idle} \union Working]
           /\ Swapped(procs) \in [Procs -> {Idle} \union Working]
<1>1. ASSUME NEW q \in Procs, procs[q] # Idle
      PROVE  /\ [procs[q] EXCEPT !.alone = FALSE] \in Working
             /\ [procs[q] EXCEPT !.fresh = FALSE] \in Working
  BY <1>1 DEF Working
<1>2. QED
  BY <1>1 DEF Disturbed, Swapped

\* What is kept of a file is a file.
LEMMA NewestOfType ==
    ASSUME NEW s \in Seq(Nat), Keep <= Len(s)
    PROVE  NewestOf(s) \in Seq(Nat)
<1>1. Keep \in Nat
  BY HalfIsSome DEF Keep
<1>2. SubSeq(s, Len(s) - Keep + 1, Len(s)) \in Seq(Nat)
  BY <1>1
<1>3. QED
  BY <1>2, SublistFrom DEF NewestOf, Entries

\* A line is added, or an unfinished one becomes the broken line that it counted as.
LEMMA WriteLines ==
    ASSUME HistoryTypeOK, TornLine, NEW p \in Procs, Write(p)
    PROVE  /\ proc[p] # Idle
           /\ written' = written + 1
           /\ \/ lines' = lines /\ torn' = torn /\ ~proc[p].fresh
              \/ lines' = lines /\ torn' = FALSE /\ torn
              \/ lines' = Append(lines, written + 1) /\ torn' = FALSE /\ ~torn
           /\ excused' = excused \/ excused' = excused \union {written + 1}
<1>1. proc[p] # Idle /\ written' = written + 1
  BY DEF Write
<1>2. excused' = excused \/ excused' = excused \union {written + 1}
  BY DEF Write
<1>3. torn => [lines EXCEPT ![Len(lines)] = 0] = lines
  BY DEF HistoryTypeOK, TornLine
<1>4. QED
  BY <1>1, <1>2, <1>3 DEF Write

\* Every step keeps the types.
LEMMA TypeStep ==
    ASSUME HistoryTypeOK, TornLine, ToRename, [Next]_vars
    PROVE  HistoryTypeOK'
<1> USE DEF HistoryTypeOK
<1>1. CASE UNCHANGED vars
  BY <1>1 DEF vars
<1>2. ASSUME NEW p \in Procs, Open(p) PROVE HistoryTypeOK'
  <2> DEFINE new == [at |-> "write", fresh |-> TRUE, size |-> Len(lines), data |-> <<>>,
                     alone |-> \A q \in Procs : proc[q] = Idle]
  <2>1. new \in Working
    BY DEF Working
  <2> HIDE DEF new
  <2>2. [proc EXCEPT ![p] = new] \in [Procs -> {Idle} \union Working]
    BY <2>1
  <2>3. proc' = Disturbed([proc EXCEPT ![p] = new], p)
    BY <1>2 DEF Open, new
  <2>4. proc' \in [Procs -> {Idle} \union Working]
    BY <2>2, <2>3, DisturbedType
  <2>5. QED
    BY <1>2, <2>4 DEF Open
<1>3. ASSUME NEW p \in Procs, Write(p) PROVE HistoryTypeOK'
  <2>1. proc[p] # Idle
    BY <1>3 DEF Write
  <2>2. proc' \in [Procs -> {Idle} \union Working] /\ settled' \in BOOLEAN
    BY <1>3, <2>1, AtWork, AtRest DEF Write, Goto, Return
  <2>3. lines' \in Seq(Nat)
    <3>1. Append(lines, written + 1) \in Seq(Nat)
      OBVIOUS
    <3>2. QED
      BY <1>3, <3>1, WriteLines
  <2>4. written' \in Nat /\ excused' \in SUBSET (1 .. written')
    <3>1. /\ written' = written + 1
          /\ excused' = excused \/ excused' = excused \union {written + 1}
      BY <1>3, WriteLines
    <3>2. excused' \subseteq excused \union {written + 1}
      BY <3>1
    <3>3. excused \union {written + 1} \subseteq 1 .. written + 1
      OBVIOUS
    <3>4. QED
      BY <3>1, <3>2, <3>3
  <2>5. lock' = lock
    BY <1>3 DEF Write
  <2>6. torn' \in BOOLEAN
    <3>1. torn' = torn \/ torn' = FALSE
      BY <1>3, WriteLines
    <3>2. QED
      BY <3>1
  <2>7. QED
    BY <2>2, <2>3, <2>4, <2>5, <2>6
<1>4. ASSUME NEW p \in Procs, WriteCutShort(p) PROVE HistoryTypeOK'
  <2>1. proc' \in [Procs -> {Idle} \union Working]
    BY <1>4, AtRest DEF WriteCutShort
  <2>2. lines' \in Seq(Nat)
    <3>1. Append(lines, 0) \in Seq(Nat)
      OBVIOUS
    <3>2. lines' = lines \/ lines' = Append(lines, 0)
      BY <1>4 DEF WriteCutShort
    <3>3. QED
      BY <3>1, <3>2
  <2>3. written' \in Nat /\ torn' \in BOOLEAN /\ lock' = lock /\ settled' = settled
    <3>1. torn' = TRUE \/ torn' = torn
      BY <1>4 DEF WriteCutShort
    <3>2. written' = written + 1 /\ lock' = lock /\ settled' = settled
      BY <1>4 DEF WriteCutShort
    <3>3. torn' \in BOOLEAN
      BY <3>1
    <3>4. QED
      BY <3>2, <3>3
  <2>4. excused' \in SUBSET (1 .. written')
    <3>1. excused' = excused \union {written + 1} /\ written' = written + 1
      BY <1>4 DEF WriteCutShort
    <3>2. QED
      BY <3>1
  <2>5. QED
    BY <2>1, <2>2, <2>3, <2>4
<1>5. ASSUME NEW p \in Procs, TryLock(p) PROVE HistoryTypeOK'
  <2>1. proc' \in [Procs -> {Idle} \union Working]
    <3>1. proc[p] # Idle
      BY <1>5 DEF TryLock
    <3>2. QED
      BY <1>5, <3>1, AtWork DEF TryLock, Goto
  <2>2. QED
    BY <1>5, <2>1 DEF TryLock
<1>6. ASSUME NEW p \in Procs, SkipTurn(p) PROVE HistoryTypeOK'
  <2>1. proc' \in [Procs -> {Idle} \union Working] /\ settled' \in BOOLEAN
    <3>1. proc[p] # Idle
      BY <1>6 DEF SkipTurn
    <3>2. QED
      BY <1>6, <3>1, AtWork, AtRest DEF SkipTurn, Return
  <2>2. QED
    BY <1>6, <2>1 DEF SkipTurn
<1>7. ASSUME NEW p \in Procs, ReadFile(p) PROVE HistoryTypeOK'
  <2>1. proc[p] \in Working
    BY <1>7, AtWork DEF ReadFile
  <2>2. [proc[p] EXCEPT !.data = lines, !.at = IF Len(lines) <= Limit THEN "unlock" ELSE "rename"] \in Working
    BY <2>1 DEF Working
  <2>3. QED
    BY <1>7, <2>2 DEF ReadFile
<1>8. ASSUME NEW p \in Procs, Rename(p) PROVE HistoryTypeOK'
  <2>1. proc[p] \in Working /\ Keep <= Len(proc[p].data)
    BY <1>8, AtWork, HalfIsSome DEF Rename, ToRename, Keep, Working
  <2>2. lines' \in Seq(Nat)
    BY <1>8, <2>1, NewestOfType DEF Rename, Working
  <2>3. Swapped(proc) \in [Procs -> {Idle} \union Working]
    BY DisturbedType
  <2>4. Swapped(proc)[p] = proc[p]
    BY <1>8 DEF Rename, Swapped
  <2>5. [proc[p] EXCEPT !.at = "unlock"] \in Working
    BY <2>1 DEF Working
  <2>6. proc' \in [Procs -> {Idle} \union Working]
    BY <1>8, <2>3, <2>4, <2>5 DEF Rename
  <2>7. QED
    BY <1>8, <2>2, <2>6 DEF Rename
<1>9. ASSUME NEW p \in Procs, RenameFails(p) PROVE HistoryTypeOK'
  <2>1. proc[p] \in Working
    BY <1>9, AtWork DEF RenameFails
  <2>2. [proc[p] EXCEPT !.at = "unlock", !.alone = FALSE] \in Working
    BY <2>1 DEF Working
  <2>3. QED
    BY <1>9, <2>2 DEF RenameFails
<1>10. ASSUME NEW p \in Procs, Unlock(p) PROVE HistoryTypeOK'
  <2>1. proc' \in [Procs -> {Idle} \union Working] /\ settled' \in BOOLEAN
    <3>1. proc[p] # Idle
      BY <1>10 DEF Unlock
    <3>2. QED
      BY <1>10, <3>1, AtWork, AtRest DEF Unlock, Return
  <2>2. QED
    BY <1>10, <2>1 DEF Unlock
<1>11. ASSUME NEW p \in Procs, Clear(p) PROVE HistoryTypeOK'
  <2>1. proc' \in [Procs -> {Idle} \union Working]
    BY <1>11, DisturbedType DEF Clear
  <2>2. lines' \in Seq(Nat) /\ torn' \in BOOLEAN /\ excused' \in SUBSET (1 .. written')
    <3>1. lines' = <<>> /\ torn' = FALSE
      BY <1>11 DEF Clear
    <3>2. excused' = 1 .. written /\ written' = written
      BY <1>11 DEF Clear
    <3>3. excused' \in SUBSET (1 .. written')
      BY <3>2
    <3>4. <<>> \in Seq(Nat)
      OBVIOUS
    <3>5. lines' \in Seq(Nat) /\ torn' \in BOOLEAN
      BY ONLY <3>1, <3>4
    <3>6. QED
      BY <3>3, <3>5
  <2>3. written' = written /\ lock' = lock /\ settled' \in BOOLEAN
    BY <1>11 DEF Clear
  <2>4. QED
    BY <2>1, <2>2, <2>3
<1>12. ASSUME NEW p \in Procs, Die(p) PROVE HistoryTypeOK'
  BY <1>12 DEF Die
<1>13. QED
  BY <1>1, <1>2, <1>3, <1>4, <1>5, <1>6, <1>7, <1>8, <1>9, <1>10, <1>11, <1>12 DEF Next

\* What p does leaves another process where it is; if it starts something, that
\* one is no longer alone, and if it replaces the file, a handle leads elsewhere.
Stays(q) ==
    /\ proc'[q].at = proc[q].at
    /\ proc[q] = Idle <=> proc'[q] = Idle
    /\ proc[q] # Idle =>
         /\ proc'[q].data = proc[q].data
         /\ proc'[q].size = proc[q].size
         /\ proc'[q].alone => proc[q].alone

StepBy(p) ==
    \/ Open(p) \/ Write(p) \/ WriteCutShort(p) \/ TryLock(p) \/ SkipTurn(p) \/ ReadFile(p)
    \/ Rename(p) \/ RenameFails(p) \/ Unlock(p) \/ Clear(p) \/ Die(p)

\* No step moves another process.
LEMMA OthersStay ==
    ASSUME HistoryTypeOK, NEW p \in Procs, StepBy(p), NEW q \in Procs \ {p}
    PROVE  Stays(q)
<1> USE DEF HistoryTypeOK
<1>1. \A pr \in [Procs -> {Idle} \union Working] :
        pr[q] # Idle => /\ [pr[q] EXCEPT !.alone = FALSE] \in Working
                        /\ [pr[q] EXCEPT !.fresh = FALSE] \in Working
  BY DEF Working
<1>2. proc[q] # Idle => proc[q] \in Working /\ proc[q].alone \in BOOLEAN
  BY DEF Working
<1>3. CASE Open(p)
  <2> DEFINE new == [at |-> "write", fresh |-> TRUE, size |-> Len(lines), data |-> <<>>,
                     alone |-> \A r \in Procs : proc[r] = Idle]
  <2> HIDE DEF new
  <2>1. proc'[q] = IF proc[q] = Idle THEN proc[q] ELSE [proc[q] EXCEPT !.alone = FALSE]
    BY <1>3 DEF Open, Disturbed, new
  <2>2. QED
    BY <1>1, <1>2, <2>1 DEF Stays, Working
<1>4. CASE Clear(p)
  <2> DEFINE away == IF proc[q].at = "write" THEN [proc[q] EXCEPT !.fresh = FALSE] ELSE proc[q]
  <2>1. proc'[q] = IF away = Idle THEN away ELSE [away EXCEPT !.alone = FALSE]
    BY <1>4 DEF Clear, Disturbed, Swapped
  <2>2. CASE proc[q] = Idle
    BY <2>1, <2>2 DEF Stays
  <2>3. CASE proc[q] # Idle
    <3>1. away \in Working /\ away.at = proc[q].at /\ away.data = proc[q].data /\ away.size = proc[q].size
      BY <1>1, <1>2, <2>3 DEF Working
    <3> HIDE DEF away
    <3>2. proc'[q] = [away EXCEPT !.alone = FALSE] /\ proc'[q].alone = FALSE
      BY <2>1, <3>1 DEF Working
    <3>3. QED
      BY <1>2, <2>3, <3>1, <3>2 DEF Stays, Working
  <2>4. QED
    BY <2>2, <2>3
<1>5. CASE Rename(p)
  <2>1. proc'[q] = IF proc[q].at = "write" THEN [proc[q] EXCEPT !.fresh = FALSE] ELSE proc[q]
    BY <1>5 DEF Rename, Swapped
  <2>2. QED
    BY <1>1, <1>2, <2>1 DEF Stays, Working
<1>6. CASE Write(p) \/ WriteCutShort(p) \/ TryLock(p) \/ SkipTurn(p) \/ ReadFile(p)
           \/ RenameFails(p) \/ Unlock(p) \/ Die(p)
  <2>1. proc'[q] = proc[q]
    BY <1>6 DEF Write, WriteCutShort, TryLock, SkipTurn, ReadFile, RenameFails, Unlock, Die, Goto, Return
  <2>2. QED
    BY <2>1 DEF Stays
<1>7. QED
  BY <1>3, <1>4, <1>5, <1>6 DEF StepBy

\* Where p's step takes p, and what it does to the lock.
OwnStep(p) ==
    \/ proc[p].at = "idle" /\ proc'[p].at \in {"idle", "write"} /\ lock' = lock
    \/ proc[p].at = "write" /\ proc'[p].at \in {"idle", "lock"} /\ lock' = lock
    \/ proc[p].at = "lock" /\ proc'[p].at = "read" /\ lock = Nobody /\ lock' = p
    \/ proc[p].at = "lock" /\ proc'[p].at = "idle" /\ lock' = lock
    \/ proc[p].at = "read" /\ proc'[p].at \in {"rename", "unlock"} /\ lock' = lock
    \/ proc[p].at = "rename" /\ proc'[p].at = "unlock" /\ lock' = lock
    \/ proc[p].at = "unlock" /\ proc'[p].at = "idle" /\ lock' = Nobody
    \/ proc[p].at # "idle" /\ proc'[p].at = "idle" /\ lock' = IF lock = p THEN Nobody ELSE lock

\* Each action is one of these.
LEMMA OwnSteps ==
    ASSUME HistoryTypeOK, NEW p \in Procs, StepBy(p)
    PROVE  OwnStep(p)
<1>1. proc \in [Procs -> {Idle} \union Working] /\ p \in DOMAIN proc
  BY DEF HistoryTypeOK
<1>2. proc[p] # Idle => proc[p] \in Working /\ proc[p].at # "idle"
  BY <1>1 DEF Working
<1>3. CASE Open(p)
  <2> DEFINE new == [at |-> "write", fresh |-> TRUE, size |-> Len(lines), data |-> <<>>,
                     alone |-> \A r \in Procs : proc[r] = Idle]
  <2>1. new.at = "write"
    OBVIOUS
  <2> HIDE DEF new
  <2>2. proc'[p] = new
    BY <1>1, <1>3 DEF Open, Disturbed, new
  <2>3. QED
    BY <1>3, <2>1, <2>2 DEF Open, OwnStep
<1>4. CASE Clear(p)
  <2>1. proc'[p] = proc[p]
    BY <1>1, <1>4 DEF Clear, Disturbed, Swapped
  <2>2. QED
    BY <1>4, <2>1 DEF Clear, OwnStep
<1>5. CASE Write(p)
  <2>1. proc'[p].at = "lock" \/ proc'[p] = Idle
    BY <1>1, <1>2, <1>5 DEF Write, Goto, Return, Working
  <2>2. QED
    BY <1>5, <2>1 DEF Write, OwnStep
<1>6. CASE WriteCutShort(p)
  BY <1>1, <1>6 DEF WriteCutShort, OwnStep
<1>7. CASE TryLock(p)
  BY <1>1, <1>2, <1>7 DEF TryLock, OwnStep, Goto, Working
<1>8. CASE SkipTurn(p)
  BY <1>1, <1>8 DEF SkipTurn, OwnStep, Return
<1>9. CASE ReadFile(p)
  BY <1>1, <1>2, <1>9 DEF ReadFile, OwnStep, Working
<1>10. CASE Rename(p)
  <2>1. Swapped(proc)[p] = proc[p] /\ p \in DOMAIN Swapped(proc)
    BY <1>1, <1>10 DEF Rename, Swapped
  <2>2. proc'[p] = [proc[p] EXCEPT !.at = "unlock"]
    BY <1>10, <2>1 DEF Rename
  <2>3. QED
    BY <1>2, <1>10, <2>2 DEF Rename, OwnStep, Working
<1>11. CASE RenameFails(p)
  BY <1>1, <1>2, <1>11 DEF RenameFails, OwnStep, Working
<1>12. CASE Unlock(p)
  BY <1>1, <1>12 DEF Unlock, OwnStep, Return
<1>13. CASE Die(p)
  BY <1>1, <1>2, <1>13 DEF Die, OwnStep
<1>14. QED
  BY <1>3, <1>4, <1>5, <1>6, <1>7, <1>8, <1>9, <1>10, <1>11, <1>12, <1>13 DEF StepBy

\* The lock and the place past it change together.
LEMMA LockStep ==
    ASSUME HistoryTypeOK, LockIsHeld, [Next]_vars
    PROVE  LockIsHeld'
<1>1. CASE UNCHANGED vars
  BY <1>1 DEF vars, LockIsHeld
<1>2. ASSUME NEW p \in Procs, StepBy(p) PROVE LockIsHeld'
  <2>1. \A q \in Procs \ {p} : proc'[q].at = proc[q].at
    BY <1>2, OthersStay DEF Stays
  <2>2. OwnStep(p)
    BY <1>2, OwnSteps
  <2>3. QED
    BY <2>1, <2>2, NobodyIsNoProcess DEF LockIsHeld, OwnStep
<1>3. QED
  BY <1>1, <1>2 DEF Next, StepBy

----------------------------------------------------------------------------
(* What the steps do to the lines *)

\* Every number in a file in which all is accounted for was written; one more
\* write is the newest.
LEMMA OneMoreWritten ==
    ASSUME NEW s \in Seq(Nat), HistoryTypeOK, Dated(s)
    PROVE  \A i \in DOMAIN s : s[i] <= written
<1>1. TAKE i \in DOMAIN s
<1>2. Len(s) \in Nat /\ i \in 1 .. Len(s) /\ s[i] \in Nat /\ written \in Nat
  BY DEF HistoryTypeOK
<1>3. s[i] # 0 => Len(s) - i <= written - s[i]
  BY DEF Dated
<1>4. QED
  BY <1>2, <1>3

\* A write that is excused, or that finds the file's place in s, leaves s accounted for.
LEMMA AccountedLater ==
    ASSUME NEW s \in Seq(Nat), HistoryTypeOK, Accounted(s),
           written' = written + 1, excused' = excused \union {written + 1}
    PROVE  Accounted(s)'
<1>1. Len(s) \in Nat /\ written \in Nat /\ DOMAIN s = 1 .. Len(s) /\ \A i \in DOMAIN s : s[i] \in Nat
  BY DEF HistoryTypeOK
<1>2. InOrder(s)'
  BY DEF Accounted, InOrder
<1>3. Dated(s)'
  BY <1>1 DEF Accounted, Dated
<1>4. LostAreOld(s)'
  <2>1. Keep \in Nat
    BY HalfIsSome DEF Keep
  <2>2. SUFFICES ASSUME NEW n \in 1 .. written', n \notin excused', n \notin Range(s)
                 PROVE  written' - n >= Keep /\ \A m \in Range(s) \ {0} : m > n
    BY DEF LostAreOld
  <2>3. n \in 1 .. written /\ n \notin excused
    BY <1>1, <2>2
  <2>4. written - n >= Keep /\ \A m \in Range(s) \ {0} : m > n
    BY <2>2, <2>3 DEF Accounted, LostAreOld
  <2>5. QED
    BY <1>1, <2>1, <2>3, <2>4
<1>5. QED
  BY <1>2, <1>3, <1>4 DEF Accounted

\* The entry just written may be appended, and so may the part of one that is excused.
LEMMA AccountedAppend ==
    ASSUME HistoryTypeOK, Accounted(lines), NEW x \in {0, written + 1},
           written' = written + 1, lines' = Append(lines, x),
           \/ x = written + 1 /\ excused \subseteq excused'
           \/ excused' = excused \union {written + 1}
    PROVE  Accounted(lines)'
<1>1. /\ Len(lines) \in Nat /\ written \in Nat /\ DOMAIN lines = 1 .. Len(lines)
      /\ \A i \in DOMAIN lines : lines[i] \in Nat
      /\ lines \in Seq(Nat)
      /\ x \in Nat
  BY DEF HistoryTypeOK
<1>2. /\ Len(lines') = Len(lines) + 1
      /\ DOMAIN lines' = 1 .. Len(lines) + 1
      /\ \A i \in 1 .. Len(lines) : lines'[i] = lines[i]
      /\ lines'[Len(lines) + 1] = x
  BY <1>1
<1>3. \A i \in 1 .. Len(lines) : lines[i] <= written
  BY <1>1, OneMoreWritten DEF Accounted
<1>4. InOrder(lines)'
  <2>1. SUFFICES ASSUME NEW i \in DOMAIN lines', NEW j \in DOMAIN lines', i < j,
                        lines'[i] # 0, lines'[j] # 0
                 PROVE  lines'[i] < lines'[j]
    BY DEF InOrder
  <2>2. i \in 1 .. Len(lines) /\ lines'[i] = lines[i] /\ lines[i] \in Nat
    BY <1>1, <1>2, <2>1
  <2>3. CASE j \in 1 .. Len(lines)
    BY <1>1, <1>2, <2>1, <2>2, <2>3 DEF Accounted, InOrder
  <2>4. CASE j = Len(lines) + 1
    BY <1>1, <1>2, <1>3, <2>1, <2>2, <2>4
  <2>5. QED
    BY <1>1, <1>2, <2>3, <2>4
<1>5. Dated(lines)'
  <2>1. SUFFICES ASSUME NEW i \in DOMAIN lines', lines'[i] # 0
                 PROVE  Len(lines') - i <= written' - lines'[i]
    BY DEF Dated
  <2>2. CASE i \in 1 .. Len(lines)
    <3>1. Len(lines) - i <= written - lines[i] /\ lines[i] \in Nat
      BY <1>1, <1>2, <2>1, <2>2 DEF Accounted, Dated
    <3>2. QED
      BY <1>1, <1>2, <2>2, <3>1
  <2>3. CASE i = Len(lines) + 1
    BY <1>1, <1>2, <2>1, <2>3
  <2>4. QED
    BY <1>1, <1>2, <2>2, <2>3
<1>6. LostAreOld(lines)'
  <2>1. Keep \in Nat
    BY HalfIsSome DEF Keep
  <2>2. SUFFICES ASSUME NEW n \in 1 .. written', n \notin excused', n \notin Range(lines')
                 PROVE  written' - n >= Keep /\ \A m \in Range(lines') \ {0} : m > n
    BY DEF LostAreOld
  <2>3. n # written + 1
    <3>1. x = written + 1 => written + 1 \in Range(lines')
      BY <1>1, <1>2 DEF Range
    <3>2. QED
      BY <2>2, <3>1
  <2>4. n \in 1 .. written /\ n \notin excused /\ n \notin Range(lines)
    <3>1. Range(lines) \subseteq Range(lines')
      BY <1>1, <1>2 DEF Range
    <3>2. QED
      BY <1>1, <2>2, <2>3, <3>1
  <2>5. written - n >= Keep /\ \A m \in Range(lines) \ {0} : m > n
    BY <2>4 DEF Accounted, LostAreOld
  <2>6. \A m \in Range(lines') : m \in Range(lines) \/ m = x
    BY <1>1, <1>2 DEF Range
  <2>7. QED
    BY <1>1, <2>1, <2>4, <2>5, <2>6
<1>7. QED
  BY <1>4, <1>5, <1>6 DEF Accounted

\* Of the elements after the i-th, no more are in t than in s.
LEMMA NoMoreAfter ==
    ASSUME NEW h, NEW t, NEW s, NEW S, NEW k \in Nat, Len(t) \in Nat, From(h, t, s, S, k),
           NEW i \in 1 .. Len(t)
    PROVE  Len(t) - i <= k - h[i]
<1> DEFINE n == Len(t)
           D == {d \in 0 .. n - 1 : h[n - d] <= k - d}
<1>1. \A j \in 1 .. n : h[j] \in 1 .. k
  BY DEF From
<1>2. 0 \in D
  BY <1>1
<1>3. \A d \in 0 .. (n - 1) - 1 : d \in D => d + 1 \in D
  <2>1. SUFFICES ASSUME NEW d \in 0 .. (n - 1) - 1, d \in D PROVE d + 1 \in D
    OBVIOUS
  <2>2. n - d \in 1 .. n /\ n - (d + 1) \in 1 .. n /\ n - (d + 1) < n - d
    OBVIOUS
  <2>3. h[n - (d + 1)] < h[n - d]
    BY <2>2 DEF From
  <2>4. QED
    BY <1>1, <2>1, <2>2, <2>3
<1>4. n - 1 \in Nat /\ n - i \in 0 .. n - 1
  OBVIOUS
<1>5. \A d \in 0 .. n - 1 : d \in D
  <2> HIDE DEF D
  <2>1. QED
    BY <1>2, <1>3, <1>4, Induction
<1>6. n - (n - i) = i /\ h[n - (n - i)] <= k - (n - i)
  <2>1. n - i \in D
    <3> HIDE DEF D
    <3>1. QED
      BY <1>4, <1>5
  <2>2. QED
    BY <2>1
<1>7. QED
  BY <1>1, <1>6

\* What is kept of a file that grew too long loses only entries that half a file of
\* newer ones follows.
LEMMA NewestAccounted ==
    ASSUME NEW s \in Seq(Nat), HistoryTypeOK, Accounted(s), Len(s) > Limit
    PROVE  Accounted(NewestOf(s))
<1> DEFINE L == Len(s)
           K == Keep
           tail == SubSeq(s, L - K + 1, L)
           t == Sublist(tail, Nat \ {0})
<1>1. K \in Nat /\ L \in Nat /\ K <= L /\ written \in Nat
  BY HalfIsSome DEF Keep, HistoryTypeOK
<1> HIDE DEF K
<1>2. /\ tail \in Seq(Nat) /\ Len(tail) = K
      /\ \A i \in 1 .. K : tail[i] = s[L - K + i] /\ L - K + i \in 1 .. L
  BY <1>1
<1> HIDE DEF tail
<1>3. t \in Seq(Nat) /\ \E h : From(h, t, tail, Nat \ {0}, K)
  BY <1>2, SublistFrom
<1>4. PICK h : From(h, t, tail, Nat \ {0}, K)
  BY <1>3
<1>5. Len(t) \in Nat /\ DOMAIN t = 1 .. Len(t)
  BY <1>3
<1> HIDE DEF t
<1>6. ASSUME NEW i \in 1 .. Len(t)
      PROVE  /\ h[i] \in 1 .. K
             /\ t[i] = s[L - K + h[i]]
             /\ t[i] \in Nat /\ t[i] # 0
             /\ L - K + h[i] \in 1 .. L
             /\ Len(t) - i <= K - h[i]
  <2>1. h[i] \in 1 .. K /\ t[i] = tail[h[i]] /\ t[i] \in Nat \ {0}
    BY <1>4 DEF From
  <2>2. Len(t) - i <= K - h[i]
    BY <1>1, <1>4, <1>5, NoMoreAfter
  <2>3. QED
    BY <1>2, <2>1, <2>2
<1>7. DOMAIN s = 1 .. L /\ \A i \in 1 .. L : s[i] \in Nat
  OBVIOUS
<1>8. InOrder(t)
  <2>1. SUFFICES ASSUME NEW i \in 1 .. Len(t), NEW j \in 1 .. Len(t), i < j PROVE t[i] < t[j]
    BY <1>5 DEF InOrder
  <2>2. h[i] < h[j] /\ h[i] \in 1 .. K /\ h[j] \in 1 .. K
    BY <1>4, <1>6, <2>1 DEF From
  <2>3. L - K + h[i] < L - K + h[j]
    BY <1>1, <2>2
  <2>4. QED
    BY <1>6, <1>7, <2>3 DEF Accounted, InOrder
<1>9. Dated(t)
  <2>1. SUFFICES ASSUME NEW i \in 1 .. Len(t) PROVE Len(t) - i <= written - t[i]
    BY <1>5 DEF Dated
  <2>2. /\ h[i] \in 1 .. K /\ L - K + h[i] \in 1 .. L /\ t[i] = s[L - K + h[i]]
        /\ t[i] \in Nat /\ t[i] # 0 /\ Len(t) - i <= K - h[i]
    BY <1>6
  <2>3. PICK x \in 1 .. L : x = L - K + h[i]
    BY <2>2
  <2>4. s[x] = t[i]
    BY <2>2, <2>3
  <2>5. L - x <= written - t[i]
    BY <1>7, <2>2, <2>4 DEF Accounted, Dated
  <2>6. L - x = K - h[i]
    BY <1>1, <2>2, <2>3
  <2>7. QED
    <3>1. Len(t) - i <= L - x
      BY <2>2, <2>6
    <3>2. Len(t) - i \in Int /\ L - x \in Int /\ written - t[i] \in Int
      BY <1>1, <1>5, <2>2
    <3>3. QED
      BY ONLY <2>5, <3>1, <3>2
<1>10. LostAreOld(t)
  <2>1. SUFFICES ASSUME NEW n \in 1 .. written, n \notin excused, n \notin Range(t)
                 PROVE  written - n >= K /\ \A m \in Range(t) \ {0} : m > n
    BY DEF LostAreOld, K
  <2>2. \A m \in Range(t) : \E i \in 1 .. Len(t) : m = t[i]
    BY <1>5 DEF Range
  <2>3. CASE n \notin Range(s)
    <3>1. written - n >= K /\ \A m \in Range(s) \ {0} : m > n
      BY <2>1, <2>3 DEF Accounted, LostAreOld, K
    <3>2. Range(t) \subseteq Range(s)
      <4>1. SUFFICES ASSUME NEW i \in 1 .. Len(t) PROVE t[i] \in Range(s)
        BY <2>2
      <4>2. L - K + h[i] \in DOMAIN s /\ t[i] = s[L - K + h[i]]
        BY <1>6, <1>7
      <4>3. QED
        BY <4>2 DEF Range
    <3>3. QED
      BY <3>1, <3>2
  <2>4. CASE n \in Range(s)
    <3>1. PICK i \in 1 .. L : n = s[i]
      BY <1>7, <2>4 DEF Range
    <3>2. i <= L - K
      <4>1. SUFFICES ASSUME i > L - K PROVE FALSE
        BY <1>1
      <4>2. i - (L - K) \in 1 .. K /\ L - K + (i - (L - K)) = i
        BY <1>1, <4>1
      <4>3. tail[i - (L - K)] = n /\ n \in Nat \ {0}
        BY <1>2, <3>1, <4>2
      <4>4. \E j \in 1 .. Len(t) : h[j] = i - (L - K)
        BY <1>4, <4>2, <4>3 DEF From
      <4>5. n \in Range(t)
        BY <1>4, <1>5, <4>3, <4>4 DEF From, Range
      <4>6. QED
        BY <2>1, <4>5
    <3>3. L - i <= written - n
      BY <1>7, <3>1 DEF Accounted, Dated
    <3>4. \A j \in 1 .. Len(t) : t[j] > n
      <4>1. TAKE j \in 1 .. Len(t)
      <4>2. i < L - K + h[j]
        <5>1. h[j] \in 1 .. K
          BY <1>6
        <5>2. i \in Int /\ i <= L - K /\ L \in Int /\ K \in Int
          BY <1>1, <3>2
        <5>3. QED
          BY ONLY <5>1, <5>2
      <4>3. L - K + h[j] \in 1 .. L /\ s[L - K + h[j]] # 0 /\ s[i] # 0
        <5>1. n # 0
          OBVIOUS
        <5>2. s[i] # 0
          BY <3>1, <5>1
        <5>3. t[j] = s[L - K + h[j]] /\ t[j] # 0 /\ L - K + h[j] \in 1 .. L
          BY <1>6
        <5>4. QED
          BY <5>2, <5>3
      <4>4. s[i] < s[L - K + h[j]]
        BY <1>7, <4>2, <4>3 DEF Accounted, InOrder
      <4>5. QED
        BY <1>6, <1>7, <3>1, <4>4
    <3>5. written - n >= K
      BY <1>1, <3>2, <3>3
    <3>6. QED
      BY <2>2, <3>4, <3>5
  <2>5. QED
    BY <2>3, <2>4
<1>11. QED
  BY <1>8, <1>9, <1>10 DEF Accounted, NewestOf, Entries, t, tail, K

\* What a compaction has read stays accounted for, whatever happens to the file.
LEMMA DataStays ==
    ASSUME NEW s \in Seq(Nat), HistoryTypeOK, Accounted(s),
           \/ written' = written /\ excused' = excused
           \/ written' = written + 1 /\ excused' = excused \union {written + 1}
           \/ written' = written /\ excused' = 1 .. written
    PROVE  Accounted(s)'
<1>1. CASE written' = written /\ excused' = excused
  BY <1>1 DEF Accounted, InOrder, Dated, LostAreOld
<1>2. CASE written' = written + 1 /\ excused' = excused \union {written + 1}
  BY <1>2, AccountedLater
<1>3. CASE written' = written /\ excused' = 1 .. written
  <2>1. InOrder(s)' /\ Dated(s)'
    BY <1>3 DEF Accounted, InOrder, Dated
  <2>2. LostAreOld(s)'
    BY <1>3 DEF LostAreOld
  <2>3. QED
    BY <2>1, <2>2 DEF Accounted
<1>4. QED
  BY <1>1, <1>2, <1>3

\* Every step leaves the file accounted for, and an unfinished line at its end.
LEMMA AccountStep ==
    ASSUME HistoryTypeOK, Accounted(lines), TornLine, ToRename, NEW p \in Procs, StepBy(p)
    PROVE  Accounted(lines)' /\ TornLine'
<1>1. CASE UNCHANGED <<lines, torn, written, excused>>
  BY <1>1 DEF Accounted, InOrder, Dated, LostAreOld, TornLine
<1>2. CASE Write(p)
  <2>1. /\ proc[p] # Idle /\ written' = written + 1
        /\ \/ lines' = lines /\ torn' = torn /\ ~proc[p].fresh
           \/ lines' = lines /\ torn' = FALSE /\ torn
           \/ lines' = Append(lines, written + 1) /\ torn' = FALSE /\ ~torn
        /\ excused' = excused \/ excused' = excused \union {written + 1}
    BY <1>2, WriteLines
  <2>2. CASE lines' = lines /\ (torn \/ ~proc[p].fresh)
    <3>1. excused' = excused \union {written + 1}
      BY <1>2, <2>2 DEF Write
    <3>2. PICK s \in Seq(Nat) : s = lines
      BY DEF HistoryTypeOK
    <3>3. Accounted(s)
      BY <3>2
    <3>4. InOrder(s)' /\ Dated(s)' /\ LostAreOld(s)'
      BY <2>1, <3>1, <3>3, AccountedLater DEF Accounted
    <3>5. Accounted(lines)'
      BY <2>2, <3>2, <3>4 DEF Accounted, InOrder, Dated, LostAreOld
    <3>6. TornLine'
      <4>1. torn' => torn
        BY <2>1
      <4>2. QED
        BY <2>2, <4>1 DEF TornLine
    <3>7. QED
      BY <3>5, <3>6
  <2>3. CASE lines' = Append(lines, written + 1) /\ torn' = FALSE
    <3>1. excused \subseteq excused'
      BY <2>1
    <3>2. Accounted(lines)'
      BY <2>1, <2>3, <3>1, AccountedAppend
    <3>3. QED
      BY <2>3, <3>2 DEF TornLine
  <2>4. QED
    BY <2>1, <2>2, <2>3
<1>3. CASE WriteCutShort(p)
  <2>1. /\ written' = written + 1 /\ excused' = excused \union {written + 1}
        /\ \/ lines' = Append(lines, 0) /\ torn' = TRUE
           \/ lines' = lines /\ torn' = torn
    BY <1>3 DEF WriteCutShort
  <2>2. CASE lines' = Append(lines, 0) /\ torn' = TRUE
    <3>1. Accounted(lines)'
      BY <2>1, <2>2, AccountedAppend
    <3>2. lines' # <<>> /\ lines'[Len(lines')] = 0
      <4>1. Len(lines) \in Nat /\ Len(lines') = Len(lines) + 1 /\ lines'[Len(lines) + 1] = 0
        BY <2>2 DEF HistoryTypeOK
      <4>2. lines' # <<>>
        BY <2>2 DEF HistoryTypeOK
      <4>3. QED
        BY <4>1, <4>2
    <3>3. QED
      BY <3>1, <3>2 DEF TornLine
  <2>3. CASE lines' = lines /\ torn' = torn
    <3>2. PICK s \in Seq(Nat) : s = lines
      BY DEF HistoryTypeOK
    <3>3. Accounted(s)
      BY <3>2
    <3>4. InOrder(s)' /\ Dated(s)' /\ LostAreOld(s)'
      BY <2>1, <3>3, AccountedLater DEF Accounted
    <3>5. Accounted(lines)'
      BY <2>3, <3>2, <3>4 DEF Accounted, InOrder, Dated, LostAreOld
    <3>6. QED
      BY <2>3, <3>5 DEF TornLine
  <2>4. QED
    BY <2>1, <2>2, <2>3
<1>4. CASE Clear(p)
  <2>1. lines' = <<>> /\ torn' = FALSE /\ excused' = 1 .. written /\ written' = written
    BY <1>4 DEF Clear
  <2>2. QED
    BY <2>1 DEF Accounted, InOrder, Dated, LostAreOld, TornLine
<1>5. CASE Rename(p)
  <2>1. /\ lines' = NewestOf(proc[p].data) /\ torn' = FALSE
        /\ written' = written /\ excused' = excused
        /\ At(p, "rename")
    BY <1>5 DEF Rename
  <2>2. proc[p].data \in Seq(Nat)
    <3>1. proc[p] # Idle
      BY <2>1
    <3>2. QED
      BY <3>1, AtWork
  <2>3. Accounted(proc[p].data) /\ Len(proc[p].data) > Limit
    BY <2>1 DEF ToRename
  <2>4. PICK s \in Seq(Nat) : s = proc[p].data
    BY <2>2
  <2>5. Accounted(NewestOf(s))
    BY <2>3, <2>4, NewestAccounted
  <2>6. PICK t : t = NewestOf(s)
    OBVIOUS
  <2>7. lines' = t /\ Accounted(t)
    BY <2>1, <2>4, <2>5, <2>6
  <2>8. QED
    BY <2>1, <2>7 DEF Accounted, InOrder, Dated, LostAreOld, TornLine
<1>6. StepBy(p) => \/ UNCHANGED <<lines, torn, written, excused>> \/ Write(p) \/ WriteCutShort(p)
                   \/ Clear(p) \/ Rename(p)
  BY DEF StepBy, Open, TryLock, SkipTurn, ReadFile, RenameFails, Unlock, Die
<1>7. QED
  BY <1>1, <1>2, <1>3, <1>4, <1>5, <1>6

\* While a file is being compacted, what is written to it is excused.
LEMMA ToRenameStep ==
    ASSUME HistoryTypeOK, Accounted(lines), ToRename, NEW p \in Procs, StepBy(p)
    PROVE  ToRename'
<1>1. SUFFICES ASSUME NEW q \in Procs, At(q, "rename")'
               PROVE  Accounted(proc[q].data)' /\ (Len(proc[q].data) > Limit)'
  BY DEF ToRename
<1>2. CASE q = p
  <2>1. ReadFile(p)
    <3>1. OwnStep(p) /\ proc'[p].at = "rename"
      BY <1>1, <1>2, OwnSteps
    <3>2. At(p, "read") /\ lock' = lock
      BY <3>1 DEF OwnStep
    <3>3. proc[p] # Idle
      BY <3>2
    <3>4. ~Die(p)
      <4>1. Die(p) => proc'[p] = Idle
        BY DEF Die, HistoryTypeOK
      <4>2. QED
        BY <3>1, <4>1
    <3>5. QED
      BY <3>2, <3>3, <3>4 DEF StepBy, Open, Write, WriteCutShort, TryLock, SkipTurn, Rename, RenameFails, Unlock, Clear
  <2>2. proc[p] \in Working /\ p \in DOMAIN proc
    BY <2>1, AtWork DEF ReadFile, HistoryTypeOK
  <2>3. proc'[p] = [proc[p] EXCEPT !.data = lines, !.at = IF Len(lines) <= Limit THEN "unlock" ELSE "rename"]
    BY <2>1, <2>2 DEF ReadFile
  <2>4. proc'[p].data = lines /\ ~(Len(lines) <= Limit)
    BY <1>1, <1>2, <2>2, <2>3 DEF Working
  <2>5. Len(lines) > Limit
    <3>1. Len(lines) \in Nat /\ Limit \in Nat
      BY HalfIsSome DEF HistoryTypeOK
    <3>2. QED
      BY <2>4, <3>1
  <2>6. written' = written /\ excused' = excused
    BY <2>1 DEF ReadFile
  <2>7. QED
    BY <1>2, <2>4, <2>5, <2>6 DEF Accounted, InOrder, Dated, LostAreOld
<1>3. CASE q # p
  <2>1. proc'[q].at = proc[q].at /\ (proc[q] # Idle => proc'[q].data = proc[q].data)
    BY <1>3, OthersStay DEF Stays
  <2>2. At(q, "rename")
    BY <1>1, <2>1
  <2>3. proc[q] # Idle
    BY <2>2
  <2>4. PICK s \in Seq(Nat) : s = proc[q].data
    BY <2>3, AtWork
  <2>5. Accounted(s) /\ Len(s) > Limit /\ proc'[q].data = s
    BY <2>1, <2>2, <2>3, <2>4 DEF ToRename
  <2>6. \/ written' = written /\ excused' = excused
        \/ written' = written + 1 /\ excused' = excused \union {written + 1}
        \/ written' = written /\ excused' = 1 .. written
    <3>1. Write(p) => written' = written + 1 /\ excused' = excused \union {written + 1}
      <4>1. Compacting
        BY <2>2 DEF Compacting
      <4>2. QED
        BY <4>1 DEF Write
    <3>2. QED
      BY <3>1 DEF StepBy, Open, WriteCutShort, TryLock, SkipTurn, ReadFile, Rename, RenameFails, Unlock, Clear, Die
  <2>7. InOrder(s)' /\ Dated(s)' /\ LostAreOld(s)'
    BY <2>5, <2>6, DataStays DEF Accounted
  <2>8. QED
    BY <2>5, <2>7 DEF Accounted, InOrder, Dated, LostAreOld
<1>4. QED
  BY <1>2, <1>3

\* What is kept of a file is within the limit.
LEMMA NewestIsHalf ==
    ASSUME NEW s \in Seq(Nat), Len(s) > Limit
    PROVE  Len(NewestOf(s)) <= Limit
<1> DEFINE tail == SubSeq(s, Len(s) - Keep + 1, Len(s))
           t == Sublist(tail, Nat \ {0})
<1>1. Keep \in Nat /\ Limit \in Nat /\ Keep <= Limit /\ Len(s) \in Nat
  BY HalfIsSome DEF Keep
<1>2. tail \in Seq(Nat) /\ Len(tail) = Keep
  BY <1>1
<1> HIDE DEF tail
<1>3. t \in Seq(Nat) /\ \E h : From(h, t, tail, Nat \ {0}, Keep)
  BY <1>2, SublistFrom
<1>4. PICK h : From(h, t, tail, Nat \ {0}, Keep)
  BY <1>3
<1> HIDE DEF t
<1>5. Len(t) \in Nat
  BY <1>3
<1>6. Len(t) # 0 => Len(t) - 1 <= Keep - h[1] /\ h[1] \in 1 .. Keep
  <2>1. SUFFICES ASSUME Len(t) # 0 PROVE Len(t) - 1 <= Keep - h[1] /\ h[1] \in 1 .. Keep
    OBVIOUS
  <2>2. 1 \in 1 .. Len(t)
    BY <1>5, <2>1
  <2>3. Len(t) - 1 <= Keep - h[1]
    BY <1>1, <1>4, <1>5, <2>2, NoMoreAfter
  <2>4. QED
    BY <1>4, <2>2, <2>3 DEF From
<1>7. Len(t) <= Limit
  BY <1>1, <1>5, <1>6
<1>8. QED
  BY <1>7 DEF NewestOf, Entries, t, tail

\* Who has been alone all along finds the file as it left it.
LEMMA UndisturbedStep ==
    ASSUME HistoryTypeOK, ToRename, Undisturbed, NEW p \in Procs, StepBy(p)
    PROVE  Undisturbed'
<1>0. proc \in [Procs -> {Idle} \union Working] /\ p \in DOMAIN proc
  BY DEF HistoryTypeOK
<1>1. SUFFICES ASSUME NEW q \in Procs, proc'[q] # Idle, proc'[q].alone
               PROVE  /\ \A r \in Procs \ {q} : proc'[r] = Idle
                      /\ proc'[q].at = "write" => proc'[q].fresh /\ proc'[q].size = Len(lines')
                      /\ proc'[q].at = "unlock" => Len(lines') <= Limit
  BY DEF Undisturbed
<1>2. q = p
  <2>1. SUFFICES ASSUME q # p PROVE FALSE
    OBVIOUS
  <2>2. proc[q] # Idle /\ proc[q].alone
    BY <1>1, <2>1, OthersStay DEF Stays
  <2>3. proc[p] = Idle
    BY <2>1, <2>2 DEF Undisturbed
  <2>4. Open(p) \/ Clear(p)
    BY <2>3 DEF StepBy, Write, WriteCutShort, TryLock, SkipTurn, ReadFile, Rename, RenameFails, Unlock, Die
  <2>5. proc'[q].alone = FALSE
    <3>1. proc[q] \in Working
      BY <1>0, <2>2
    <3>2. CASE Open(p)
      <4> DEFINE new == [at |-> "write", fresh |-> TRUE, size |-> Len(lines), data |-> <<>>,
                         alone |-> \A r \in Procs : proc[r] = Idle]
      <4> HIDE DEF new
      <4>1. proc'[q] = [proc[q] EXCEPT !.alone = FALSE]
        BY <1>0, <2>1, <2>2, <3>2 DEF Open, Disturbed, new
      <4>2. QED
        BY <3>1, <4>1 DEF Working
    <3>3. CASE Clear(p)
      <4> DEFINE away == IF proc[q].at = "write" THEN [proc[q] EXCEPT !.fresh = FALSE] ELSE proc[q]
      <4>1. away \in Working /\ away # Idle
        <5>1. [proc[q] EXCEPT !.fresh = FALSE] \in Working
          BY <3>1 DEF Working
        <5>2. away \in Working
          BY <3>1, <5>1
        <5>3. QED
          BY <5>2 DEF Working
      <4>2. proc'[q] = IF away = Idle THEN away ELSE [away EXCEPT !.alone = FALSE]
        BY <1>0, <2>1, <3>3 DEF Clear, Disturbed, Swapped
      <4> HIDE DEF away
      <4>3. QED
        BY <4>1, <4>2 DEF Working
    <3>4. QED
      BY <2>4, <3>2, <3>3
  <2>6. QED
    BY <1>1, <2>5
<1>3. CASE Open(p)
  <2> DEFINE new == [at |-> "write", fresh |-> TRUE, size |-> Len(lines), data |-> <<>>,
                     alone |-> \A r \in Procs : proc[r] = Idle]
  <2>1. /\ new.at = "write" /\ new.fresh /\ new.size = Len(lines)
        /\ new.alone = \A r \in Procs : proc[r] = Idle
    OBVIOUS
  <2> HIDE DEF new
  <2>2. proc'[p] = new
    BY <1>0, <1>3 DEF Open, Disturbed, new
  <2>3. \A r \in Procs : proc[r] = Idle
    BY <1>1, <1>2, <2>1, <2>2
  <2>4. \A r \in Procs \ {p} : proc'[r] = Idle
    BY <2>3, OthersStay DEF Stays
  <2>5. lines' = lines
    BY <1>3 DEF Open
  <2>6. QED
    BY <1>2, <2>1, <2>2, <2>4, <2>5
<1>4. CASE ~Open(p)
  <2>1. /\ proc[p] \in Working /\ proc[p].alone
        /\ proc'[p].at # "write"
        /\ proc'[p].at = "unlock" => (ReadFile(p) /\ Len(lines) <= Limit) \/ Rename(p)
    <3>1. CASE Write(p)
      <4>1. proc[p] \in Working
        BY <1>0, <3>1 DEF Write
      <4>2. proc'[p] = [proc[p] EXCEPT !.at = "lock"] \/ proc'[p] = Idle
        BY <1>0, <3>1 DEF Write, Goto, Return
      <4>3. QED
        BY <1>1, <1>2, <4>1, <4>2 DEF Working
    <3>2. CASE TryLock(p)
      <4>1. proc[p] \in Working
        BY <1>0, <3>2 DEF TryLock
      <4>2. proc'[p] = [proc[p] EXCEPT !.at = "read"]
        BY <1>0, <3>2 DEF TryLock, Goto
      <4>3. QED
        BY <1>1, <1>2, <4>1, <4>2 DEF Working
    <3>3. CASE ReadFile(p)
      <4>1. proc[p] \in Working
        BY <1>0, <3>3 DEF ReadFile
      <4>2. proc'[p] = [proc[p] EXCEPT !.data = lines, !.at = IF Len(lines) <= Limit THEN "unlock" ELSE "rename"]
        BY <1>0, <3>3 DEF ReadFile
      <4>3. proc'[p].at # "write" /\ (proc'[p].at = "unlock" => Len(lines) <= Limit) /\ proc'[p].alone = proc[p].alone
        BY <4>1, <4>2 DEF Working
      <4>4. QED
        BY <1>1, <1>2, <3>3, <4>1, <4>3
    <3>4. CASE Rename(p)
      <4>1. proc[p] \in Working
        BY <1>0, <3>4 DEF Rename
      <4>2. Swapped(proc)[p] = proc[p] /\ p \in DOMAIN Swapped(proc)
        BY <1>0, <3>4 DEF Rename, Swapped
      <4>3. proc'[p] = [proc[p] EXCEPT !.at = "unlock"]
        BY <3>4, <4>2 DEF Rename
      <4>4. QED
        BY <1>1, <1>2, <3>4, <4>1, <4>3 DEF Working
    <3>5. CASE RenameFails(p)
      <4>1. proc[p] \in Working
        BY <1>0, <3>5 DEF RenameFails
      <4>2. proc'[p] = [proc[p] EXCEPT !.at = "unlock", !.alone = FALSE]
        BY <1>0, <3>5 DEF RenameFails
      <4>3. proc'[p].alone = FALSE
        BY <4>1, <4>2 DEF Working
      <4>4. QED
        BY <1>1, <1>2, <4>3
    <3>6. CASE WriteCutShort(p) \/ SkipTurn(p) \/ Unlock(p) \/ Clear(p) \/ Die(p)
      <4>1. proc'[p] = Idle
        <5>1. Clear(p) => proc'[p] = Idle
          BY <1>0 DEF Clear, Disturbed, Swapped
        <5>2. QED
          BY <1>0, <3>6, <5>1 DEF WriteCutShort, SkipTurn, Unlock, Die, Return
      <4>2. QED
        BY <1>1, <1>2, <4>1
    <3>7. QED
      BY <1>4, <3>1, <3>2, <3>3, <3>4, <3>5, <3>6 DEF StepBy
  <2>2. proc[p] # Idle
    BY <2>1 DEF Working
  <2>3. \A r \in Procs \ {p} : proc'[r] = Idle
    BY <2>1, <2>2, OthersStay DEF Undisturbed, Stays
  <2>4. Rename(p) => Len(lines') <= Limit
    <3>1. SUFFICES ASSUME Rename(p) PROVE Len(lines') <= Limit
      OBVIOUS
    <3>2. Len(proc[p].data) > Limit
      BY <3>1 DEF Rename, ToRename
    <3>3. QED
      BY <2>2, <3>1, <3>2, AtWork, NewestIsHalf DEF Rename
  <2>5. ReadFile(p) => lines' = lines
    BY DEF ReadFile
  <2>6. QED
    BY <1>2, <2>1, <2>3, <2>4, <2>5
<1>5. QED
  BY <1>3, <1>4

\* An append returns undisturbed only when the file is within its limit.
LEMMA SettledStep ==
    ASSUME HistoryTypeOK, LockIsHeld, Undisturbed, Settled, NEW p \in Procs, StepBy(p)
    PROVE  Settled'
<1>0. proc \in [Procs -> {Idle} \union Working] /\ p \in DOMAIN proc /\ Limit \in Nat
  BY HalfIsSome DEF HistoryTypeOK
<1>1. SUFFICES ASSUME settled' PROVE Len(lines') <= Limit /\ \A q \in Procs : proc'[q] = Idle
  BY DEF Settled
<1>2. proc[p] # Idle
  <2>1. ~Open(p) /\ ~Clear(p)
    BY <1>1, Zenon DEF Open, Clear
  <2>2. QED
    BY <2>1 DEF StepBy, Write, WriteCutShort, TryLock, SkipTurn, ReadFile, Rename, RenameFails, Unlock, Die
<1>3. ~settled
  BY <1>2 DEF Settled
<1>4. proc[p].alone /\ proc'[p] = Idle /\ (Write(p) \/ SkipTurn(p) \/ Unlock(p))
  BY <1>0, <1>1, <1>3
     DEF StepBy, Open, Write, WriteCutShort, TryLock, SkipTurn, ReadFile, Rename, RenameFails, Unlock, Clear, Die, Return
<1>5. /\ \A q \in Procs \ {p} : proc[q] = Idle
      /\ At(p, "write") => proc[p].fresh /\ proc[p].size = Len(lines)
      /\ At(p, "unlock") => Len(lines) <= Limit
  BY <1>2, <1>4 DEF Undisturbed
<1>6. \A q \in Procs : proc'[q] = Idle
  BY <1>4, <1>5, OthersStay DEF Stays
<1>7. Len(lines') <= Limit
  <2>1. CASE Write(p)
    <3>1. proc[p].size + 1 <= Limit
      <4>1. ~(proc[p].size + 1 > Limit)
        BY <1>1, <1>3, <2>1 DEF Write
      <4>2. proc[p].size \in Nat
        BY <1>0, <1>2 DEF Working
      <4>3. QED
        BY <1>0, <4>1, <4>2
    <3>2. At(p, "write") /\ Len(lines) + 1 <= Limit
      BY <1>5, <2>1, <3>1 DEF Write
    <3>3. lines' = Append(lines, written + 1) \/ lines' = [lines EXCEPT ![Len(lines)] = 0] \/ lines' = lines
      BY <2>1 DEF Write
    <3>4. Len(lines') <= Len(lines) + 1
      BY <3>3 DEF HistoryTypeOK
    <3>5. Len(lines) \in Nat /\ Len(lines') \in Nat
      BY <3>3 DEF HistoryTypeOK
    <3>6. QED
      BY <1>0, <3>2, <3>4, <3>5
  <2>2. CASE SkipTurn(p)
    <3>1. lock \in Procs /\ At(p, "lock")
      BY <2>2 DEF SkipTurn, HistoryTypeOK
    <3>2. proc[lock].at \in {"read", "rename", "unlock"}
      BY <3>1 DEF LockIsHeld
    <3>3. lock # p /\ proc[lock] # Idle
      BY <3>1, <3>2
    <3>4. QED
      BY <1>5, <3>1, <3>3
  <2>3. CASE Unlock(p)
    BY <1>5, <2>3 DEF Unlock
  <2>4. QED
    BY <1>4, <2>1, <2>2, <2>3
<1>8. QED
  BY <1>6, <1>7

----------------------------------------------------------------------------

\* The invariant holds of an empty history.
LEMMA HistoryInitially == Init => HistoryInv
<1>1. SUFFICES ASSUME Init PROVE HistoryInv
  OBVIOUS
<1>2. HistoryTypeOK
  <2>1. <<>> \in Seq(Nat) /\ 0 \in Nat /\ {} \in SUBSET (1 .. 0) /\ FALSE \in BOOLEAN
    OBVIOUS
  <2>2. [p \in Procs |-> Idle] \in [Procs -> {Idle} \union Working]
    OBVIOUS
  <2>3. lines = <<>> /\ torn = FALSE /\ proc = [p \in Procs |-> Idle] /\ lock = Nobody
        /\ written = 0 /\ excused = {} /\ settled = FALSE
    BY <1>1 DEF Init
  <2> HIDE DEF Idle
  <2>4. QED
    BY <2>1, <2>2, <2>3 DEF HistoryTypeOK
<1>3. LockIsHeld
  BY <1>1, NobodyIsNoProcess DEF Init, LockIsHeld
<1>4. Accounted(lines)
  BY <1>1 DEF Init, Accounted, InOrder, Dated, LostAreOld
<1>5. TornLine /\ ToRename /\ Undisturbed /\ Settled
  BY <1>1 DEF Init, TornLine, ToRename, Undisturbed, Settled
<1>6. QED
  BY <1>2, <1>3, <1>4, <1>5 DEF HistoryInv

\* Every step keeps the invariant.
LEMMA HistoryPreserved == HistoryInv /\ [Next]_vars => HistoryInv'
<1>1. SUFFICES ASSUME HistoryInv, [Next]_vars PROVE HistoryInv'
  OBVIOUS
<1> USE <1>1 DEF HistoryInv
<1>2. HistoryTypeOK' /\ LockIsHeld'
  BY TypeStep, LockStep
<1>3. CASE UNCHANGED vars
  <2>1. Accounted(lines)' /\ TornLine'
    BY <1>3 DEF vars, Accounted, InOrder, Dated, LostAreOld, TornLine
  <2>2. ToRename'
    BY <1>3 DEF vars, ToRename, Accounted, InOrder, Dated, LostAreOld
  <2>3. Undisturbed' /\ Settled'
    BY <1>3 DEF vars, Undisturbed, Settled
  <2>4. QED
    BY <1>2, <2>1, <2>2, <2>3
<1>4. ASSUME NEW p \in Procs, StepBy(p) PROVE HistoryInv'
  BY <1>2, <1>4, AccountStep, ToRenameStep, UndisturbedStep, SettledStep
<1>5. QED
  BY <1>3, <1>4 DEF Next, StepBy

\* What the four theorems below are part of.
THEOREM HistoryInvariant == Spec => []HistoryInv
<1>1. QED
  BY HistoryInitially, HistoryPreserved, PTL DEF Spec

\* Every process's append is where its record says, and an entry excused was written.
THEOREM HistoryTypes == Spec => []HistoryTypeOK
<1>1. HistoryInv => HistoryTypeOK
  BY DEF HistoryInv
<1>2. QED
  BY <1>1, HistoryInvariant, PTL

\* Whatever dies or is skipped, the one process past the lock is the one that holds it.
THEOREM CompactionIsAlone == Spec => []LockIsHeld
<1>1. HistoryInv => LockIsHeld
  BY DEF HistoryInv
<1>2. QED
  BY <1>1, HistoryInvariant, PTL

\* The history loses only its oldest entries and those that a race, a torn line or a
\* clear cost, and keeps their order.
THEOREM HistoryLosesOnlyToRaces == Spec => []OnlyRacesLose
<1>1. HistoryInv => OnlyRacesLose
  BY DEF HistoryInv, Accounted, InOrder, LostAreOld, OnlyRacesLose
<1>2. QED
  BY <1>1, HistoryInvariant, PTL

\* An append that nobody disturbed leaves the file within its limit.
THEOREM QuietAppendsCompact == Spec => []QuietAppendCompacts
<1>1. HistoryInv => QuietAppendCompacts
  BY DEF HistoryInv, Settled, QuietAppendCompacts
<1>2. QED
  BY <1>1, HistoryInvariant, PTL

----------------------------------------------------------------------------
(* Splitting a file into requests *)

\* A request is a list of positions; f may be split if it is n entries that each fit.
Numbers == Seq(Nat)
MaySplit(f, n) == DOMAIN f = 1 .. n /\ \A i \in 1 .. n : f[i].cost \in 1 .. Budget

\* What chunkUpsert does with the k-th entry: into the last request, or a new one.
Joined(f, c, k) ==
    IF c # <<>> /\ Fits(f, Append(Last(c), k))
    THEN [c EXCEPT ![Len(c)] = Append(@, k)]
    ELSE Append(c, <<k>>)

\* w[k] is the first k entries split.
Splitting(w, f, n) ==
    /\ w \in [0 .. n -> Seq(Numbers)]
    /\ w[0] = <<>>
    /\ \A k \in 1 .. n : w[k] = Joined(f, w[k - 1], k)

\* A step of the split makes requests of requests.
LEMMA JoinedType ==
    ASSUME NEW f, NEW c \in Seq(Numbers), NEW k \in Nat
    PROVE  Joined(f, c, k) \in Seq(Numbers)
<1> USE DEF Numbers
<1>1. <<k>> \in Numbers /\ Append(c, <<k>>) \in Seq(Numbers)
  OBVIOUS
<1>2. ASSUME c # <<>> PROVE [c EXCEPT ![Len(c)] = Append(@, k)] \in Seq(Numbers)
  <2>1. Len(c) \in DOMAIN c /\ c[Len(c)] \in Numbers
    BY <1>2
  <2>2. Append(c[Len(c)], k) \in Numbers
    BY <2>1
  <2> HIDE DEF Numbers
  <2>3. QED
    BY <2>1, <2>2
<1>3. QED
  BY <1>1, <1>2 DEF Joined

\* The fold that Split is, as a run through the entries.
LEMMA SplitIsSplitting ==
    ASSUME NEW n \in Nat, NEW f, DOMAIN f = 1 .. n
    PROVE  \E w : Splitting(w, f, n) /\ Split(f) = w[n]
<1> DEFINE s == [i \in DOMAIN f |-> i]
           A == Seq(Numbers)
           step == [p \in A \X (1 .. n) |-> Joined(f, p[1], p[2])]
           F(it) == [T \in SUBSET DOMAIN s |->
                       IF T = {} THEN <<>>
                       ELSE IF /\ it[T \ {Max(T)}] # <<>>
                               /\ Fits(f, Append(Last(it[T \ {Max(T)}]), s[Max(T)]))
                            THEN [it[T \ {Max(T)}] EXCEPT ![Len(it[T \ {Max(T)}])] = Append(@, s[Max(T)])]
                            ELSE Append(it[T \ {Max(T)}], <<s[Max(T)]>>)]
           iter == CHOOSE it : it = F(it)
<1>1. Split(f) = iter[DOMAIN s]
  BY Zenon DEF Split, FoldLeft, MapThenFoldSet
<1>2. DOMAIN s = 1 .. n /\ <<>> \in A /\ \A i \in 1 .. n : s[i] = i
  OBVIOUS
<1>3. \A a \in A, x \in 1 .. n : step[<<a, x>>] = Joined(f, a, x) /\ step[<<a, x>>] \in A
  BY JoinedType
<1>4. step \in [A \X (1 .. n) -> A]
  BY JoinedType
<1> HIDE DEF s
<1>5. \E it : it = F(it)
  <2>1. PICK g : Folds(g, n, A, <<>>, step)
    <3> HIDE DEF step, A
    <3>1. QED
      BY <1>2, <1>4, FoldExists
  <2>2. ASSUME NEW T \in SUBSET (1 .. n), T # {}
        PROVE  g[T] = IF /\ g[T \ {Max(T)}] # <<>>
                         /\ Fits(f, Append(Last(g[T \ {Max(T)}]), s[Max(T)]))
                      THEN [g[T \ {Max(T)}] EXCEPT ![Len(g[T \ {Max(T)}])] = Append(@, s[Max(T)])]
                      ELSE Append(g[T \ {Max(T)}], <<s[Max(T)]>>)
    <3>1. Max(T) \in 1 .. n /\ s[Max(T)] = Max(T)
      BY <1>2, <2>2, MaxOfNumbers
    <3>2. T \ {Max(T)} \in SUBSET (1 .. n)
      OBVIOUS
    <3>3. g[T \ {Max(T)}] \in A /\ g[T] = step[<<g[T \ {Max(T)}], Max(T)>>]
      BY <2>1, <2>2, <3>2 DEF Folds
    <3> HIDE DEF step, A
    <3>4. g[T] = Joined(f, g[T \ {Max(T)}], s[Max(T)])
      BY <1>3, <3>1, <3>3
    <3>5. QED
      BY <3>4, Zenon DEF Joined
  <2>3. g = F(g)
    BY <1>2, <2>1, <2>2 DEF Folds
  <2>4. QED
    BY <2>3
<1>6. iter = F(iter)
  BY <1>5, Zenon
<1> HIDE DEF iter
<1>7. iter[{}] = <<>>
  BY <1>6
<1>8. ASSUME NEW T \in SUBSET (1 .. n), T # {}, iter[T \ {Max(T)}] \in A
      PROVE  iter[T] = step[<<iter[T \ {Max(T)}], Max(T)>>]
  <2>1. Max(T) \in 1 .. n /\ s[Max(T)] = Max(T)
    BY <1>2, <1>8, MaxOfNumbers
  <2>2. iter[T] = F(iter)[T]
    BY <1>6
  <2>3. iter[T] = Joined(f, iter[T \ {Max(T)}], s[Max(T)])
    BY <1>2, <1>8, <2>2, Zenon DEF Joined
  <2> HIDE DEF step, A, F
  <2>4. QED
    BY <1>3, <1>8, <2>1, <2>3
<1> DEFINE base == <<>>
<1>9. Iterates(iter, n, A, base, step)
  <2> HIDE DEF step, A, F
  <2>1. QED
    BY <1>7, <1>8 DEF Iterates
<1>10. PICK r : Runs(r, n, A, base, step, iter[1 .. n])
  <2>1. base \in A
    BY <1>2
  <2> HIDE DEF step, A, F, base
  <2>2. QED
    BY <1>4, <1>9, <2>1, IteratorRuns
<1>11. ASSUME NEW k \in 1 .. n
       PROVE  r[k] = Joined(f, r[k - 1], k)
  <2>1. k - 1 \in 0 .. n
    OBVIOUS
  <2> HIDE DEF step, A
  <2>2. r[k - 1] \in A
    BY <1>10, <2>1 DEF Runs
  <2>3. QED
    BY <1>3, <1>10, <2>2 DEF Runs
<1>12. QED
  BY <1>1, <1>2, <1>10, <1>11 DEF Splitting, Runs

\* c cuts the numbers up to k into runs: e says where each one ends.
Cuts(e, c, k) ==
    /\ e \in [0 .. Len(c) -> 0 .. k]
    /\ e[0] = 0
    /\ e[Len(c)] = k
    /\ \A r, q \in 0 .. Len(c) : r < q => e[r] < e[q]
    /\ \A r \in 1 .. Len(c) : c[r] = [j \in 1 .. e[r] - e[r - 1] |-> e[r - 1] + j]

\* Each request fits, and not with the next one's first entry.
Packed(f, c) ==
    /\ \A r \in 1 .. Len(c) : Fits(f, c[r])
    /\ \A r \in 1 .. Len(c) : r < Len(c) => ~Fits(f, Append(c[r], c[r + 1][1]))

\* No entry is too large for a request of its own.
LEMMA OneEntryFits ==
    ASSUME NEW f, NEW k, f[k].cost \in 1 .. Budget
    PROVE  Fits(f, <<k>>)
<1>1. Range(<<k>>) = {k}
  BY DEF Range
<1>2. Costs(f, <<k>>) = {f[k].cost}
  BY <1>1 DEF Costs
<1> DEFINE m == CHOOSE x \in Costs(f, <<k>>) : \A c \in Costs(f, <<k>>) : c <= x
<1>3. m = f[k].cost
  BY <1>2
<1>4. Product(f, <<k>>) = 1 * m
  BY DEF Product
<1> HIDE DEF m
<1>5. QED
  BY <1>3, <1>4, BudgetIsEnough DEF Fits

\* What the runs of a cut are like.
LEMMA CutRuns ==
    ASSUME NEW k \in Nat, NEW c \in Seq(Numbers), NEW e, Cuts(e, c, k), NEW r \in 1 .. Len(c)
    PROVE  /\ e[r - 1] \in 0 .. k /\ e[r] \in 0 .. k /\ e[r - 1] < e[r]
           /\ r - 1 \in 0 .. Len(c) /\ r \in 0 .. Len(c)
           /\ Len(c[r]) = e[r] - e[r - 1]
           /\ DOMAIN c[r] = 1 .. e[r] - e[r - 1]
           /\ \A j \in 1 .. e[r] - e[r - 1] : c[r][j] = e[r - 1] + j
           /\ c[r] # <<>>
           /\ c[r][1] = e[r - 1] + 1
           /\ c[r] \in Numbers
<1>1. r - 1 \in 0 .. Len(c) /\ r \in 0 .. Len(c) /\ r - 1 < r /\ Len(c) \in Nat
  OBVIOUS
<1>2. e[r - 1] \in 0 .. k /\ e[r] \in 0 .. k /\ e[r - 1] < e[r]
  BY <1>1 DEF Cuts
<1>3. c[r] = [j \in 1 .. e[r] - e[r - 1] |-> e[r - 1] + j]
  BY DEF Cuts
<1>4. DOMAIN c[r] = 1 .. e[r] - e[r - 1] /\ \A j \in 1 .. e[r] - e[r - 1] : c[r][j] = e[r - 1] + j
  BY <1>3
<1>5. c[r] \in Numbers
  OBVIOUS
<1>6. Len(c[r]) = e[r] - e[r - 1]
  <2>1. e[r] - e[r - 1] \in Nat
    BY <1>2
  <2>2. Len(c[r]) \in Nat /\ DOMAIN c[r] = 1 .. Len(c[r])
    BY <1>5 DEF Numbers
  <2>3. 1 .. Len(c[r]) = 1 .. e[r] - e[r - 1]
    BY <1>4, <2>2
  <2> HIDE DEF Numbers
  <2>4. QED
    BY ONLY <2>1, <2>2, <2>3
<1>7. 1 \in 1 .. e[r] - e[r - 1]
  BY <1>2
<1>8. c[r] # <<>> /\ c[r][1] = e[r - 1] + 1
  <2>1. c[r][1] = e[r - 1] + 1
    BY <1>4, <1>7
  <2>2. Len(c[r]) # 0
    BY <1>2, <1>6
  <2>3. QED
    BY <2>1, <2>2
<1>9. QED
  BY <1>1, <1>2, <1>4, <1>5, <1>6, <1>8

\* The next entry fits into the last request.
LEMMA CutGrows ==
    ASSUME NEW k \in Nat, NEW c \in Seq(Numbers), NEW e, Cuts(e, c, k), c # <<>>,
           NEW f, Packed(f, c), Fits(f, Append(Last(c), k + 1))
    PROVE  LET d == [c EXCEPT ![Len(c)] = Append(@, k + 1)]
           IN  d # <<>> /\ Packed(f, d) /\ \E g : Cuts(g, d, k + 1)
<1> DEFINE L == Len(c)
           d == [c EXCEPT ![Len(c)] = Append(@, k + 1)]
           g == [e EXCEPT ![L] = k + 1]
<1>1. L \in Nat /\ L \in 1 .. L /\ L \in 0 .. L /\ L - 1 \in 0 .. L /\ DOMAIN c = 1 .. L
  OBVIOUS
<1>2. d \in Seq(Numbers) /\ Len(d) = L
  <2>1. Append(c[L], k + 1) \in Numbers
    BY <1>1 DEF Numbers
  <2>2. QED
    BY <1>1, <2>1
<1>3. d[L] = Append(c[L], k + 1) /\ \A r \in 1 .. L : r # L => d[r] = c[r]
  BY <1>1
<1>4. d # <<>>
  BY <1>1, <1>2
<1> HIDE DEF d
<1>5. /\ e[L] = k /\ e[L - 1] \in 0 .. k /\ e[L - 1] < k
      /\ Len(c[L]) = k - e[L - 1]
      /\ \A j \in 1 .. k - e[L - 1] : c[L][j] = e[L - 1] + j
      /\ c[L] \in Numbers
  <2>1. e[L] = k
    BY DEF Cuts
  <2>2. QED
    BY <1>1, <2>1, CutRuns
<1>6. d[L] = [j \in 1 .. (k + 1) - e[L - 1] |-> e[L - 1] + j]
  <2>1. d[L] \in Seq(Nat) /\ Len(d[L]) = (k + 1) - e[L - 1]
    BY <1>3, <1>5 DEF Numbers
  <2>2. \A j \in 1 .. (k + 1) - e[L - 1] : d[L][j] = e[L - 1] + j
    BY <1>3, <1>5 DEF Numbers
  <2>3. d[L] = [j \in 1 .. Len(d[L]) |-> d[L][j]]
    BY <2>1
  <2>4. QED
    BY <2>1, <2>2, <2>3
<1>7. g \in [0 .. L -> 0 .. k + 1] /\ g[L] = k + 1 /\ \A r \in 0 .. L : r # L => g[r] = e[r]
  <2>1. e \in [0 .. L -> 0 .. k]
    BY DEF Cuts
  <2>2. k + 1 \in 0 .. k + 1 /\ \A x \in 0 .. k : x \in 0 .. k + 1
    OBVIOUS
  <2>3. QED
    BY <1>1, <2>1, <2>2
<1> HIDE DEF g
<1>8. \A r \in 0 .. L : e[r] \in 0 .. k
  BY DEF Cuts
<1>9. Cuts(g, d, k + 1)
  <2>1. g[0] = 0
    <3>1. 0 \in 0 .. L /\ 0 # L
      BY <1>1
    <3>2. QED
      BY <1>7, <3>1 DEF Cuts
  <2>2. ASSUME NEW r \in 0 .. L, NEW q \in 0 .. L, r < q PROVE g[r] < g[q]
    <3>0. r # L
      <4>1. q <= L /\ r < q /\ L \in Int /\ r \in Int /\ q \in Int
        BY <2>2, L \in Nat
      <4>2. QED
        BY ONLY <4>1
    <3>1. r # L /\ g[r] = e[r]
      BY <1>7, <3>0
    <3>2. CASE q = L
      BY <1>7, <1>8, <3>1, <3>2
    <3>3. CASE q # L
      BY <1>7, <2>2, <3>1, <3>3 DEF Cuts
    <3>4. QED
      BY <3>2, <3>3
  <2>3. ASSUME NEW r \in 1 .. L PROVE d[r] = [j \in 1 .. g[r] - g[r - 1] |-> g[r - 1] + j]
    <3>0. r - 1 \in 0 .. L /\ r - 1 # L
      BY <1>1
    <3>1. r - 1 \in 0 .. L /\ r - 1 # L /\ g[r - 1] = e[r - 1]
      BY <1>7, <3>0
    <3>2. CASE r = L
      BY <1>6, <1>7, <3>1, <3>2
    <3>3. CASE r # L
      <4>1. r \in 0 .. L /\ g[r] = e[r]
        BY <1>7, <3>3
      <4>2. d[r] = c[r]
        BY <1>3, <3>3
      <4>3. QED
        BY <3>1, <4>1, <4>2 DEF Cuts
    <3>4. QED
      BY <3>2, <3>3
  <2>4. QED
    BY <1>2, <1>7, <2>1, <2>2, <2>3 DEF Cuts
<1>10. Packed(f, d)
  <2>1. Last(c) = c[L]
    BY DEF Last
  <2>2. ASSUME NEW r \in 1 .. L PROVE Fits(f, d[r])
    BY <1>3, <2>1, <2>2 DEF Packed
  <2>3. ASSUME NEW r \in 1 .. L, r < L PROVE ~Fits(f, Append(d[r], d[r + 1][1]))
    <3>0. r + 1 \in 1 .. L /\ r # L
      <4>1. r >= 1 /\ r < L /\ L \in Int /\ r \in Int
        BY <2>3, L \in Nat
      <4>2. QED
        BY ONLY <4>1
    <3>1. r + 1 \in 1 .. L /\ d[r] = c[r]
      BY <1>3, <3>0
    <3>2. c[r + 1][1] = d[r + 1][1]
      <4>1. CASE r + 1 = L
        <5>1. 1 \in 1 .. k - e[L - 1] /\ 1 \in 1 .. Len(c[L])
          BY <1>5
        <5>2. d[L][1] = c[L][1]
          BY <1>3, <1>5, <5>1 DEF Numbers
        <5>3. QED
          BY <4>1, <5>2
      <4>2. CASE r + 1 # L
        BY <1>3, <3>1, <4>2
      <4>3. QED
        BY <4>1, <4>2
    <3>3. QED
      BY <2>3, <3>1, <3>2 DEF Packed
  <2>4. QED
    BY <1>2, <2>2, <2>3 DEF Packed
<1>11. QED
  BY <1>4, <1>9, <1>10 DEF d

\* It does not, and begins the next one.
LEMMA CutEnds ==
    ASSUME NEW k \in Nat, NEW c \in Seq(Numbers), NEW e, Cuts(e, c, k),
           NEW f, Packed(f, c), Fits(f, <<k + 1>>),
           c # <<>> => ~Fits(f, Append(Last(c), k + 1))
    PROVE  LET d == Append(c, <<k + 1>>)
           IN  d # <<>> /\ Packed(f, d) /\ \E g : Cuts(g, d, k + 1)
<1> DEFINE L == Len(c)
           d == Append(c, <<k + 1>>)
           g == [r \in 0 .. L + 1 |-> IF r = L + 1 THEN k + 1 ELSE e[r]]
<1>1. L \in Nat /\ DOMAIN c = 1 .. L /\ L \in 0 .. L
  OBVIOUS
<1>2. <<k + 1>> \in Numbers
  BY DEF Numbers
<1>3. /\ d \in Seq(Numbers) /\ Len(d) = L + 1 /\ d[L + 1] = <<k + 1>>
      /\ \A r \in 1 .. L : d[r] = c[r]
      /\ d # <<>>
  BY <1>1, <1>2
<1> HIDE DEF d
<1>4. \A r \in 0 .. L : e[r] \in 0 .. k
  BY DEF Cuts
<1>5. g \in [0 .. L + 1 -> 0 .. k + 1]
  <2>1. \A r \in 0 .. L + 1 : r # L + 1 => r \in 0 .. L
    BY <1>1
  <2>2. \A r \in 0 .. L + 1 : (IF r = L + 1 THEN k + 1 ELSE e[r]) \in 0 .. k + 1
    BY <1>4, <2>1
  <2>3. QED
    BY <2>2
<1>6. g[L + 1] = k + 1 /\ \A r \in 0 .. L : g[r] = e[r]
  BY <1>1
<1> HIDE DEF g
<1>7. \A r \in 0 .. L + 1 : r = L + 1 \/ r \in 0 .. L
  BY <1>1
<1>8. Cuts(g, d, k + 1)
  <2>1. g[0] = 0
    BY <1>1, <1>6 DEF Cuts
  <2>2. ASSUME NEW r \in 0 .. L + 1, NEW q \in 0 .. L + 1, r < q PROVE g[r] < g[q]
    <3>1. r \in 0 .. L /\ g[r] = e[r]
      BY <1>1, <1>6, <2>2
    <3>2. CASE q = L + 1
      BY <1>4, <1>6, <3>1, <3>2
    <3>3. CASE q \in 0 .. L
      BY <1>6, <2>2, <3>1, <3>3 DEF Cuts
    <3>4. QED
      BY <1>7, <3>2, <3>3
  <2>3. ASSUME NEW r \in 1 .. L + 1 PROVE d[r] = [j \in 1 .. g[r] - g[r - 1] |-> g[r - 1] + j]
    <3>1. r - 1 \in 0 .. L /\ g[r - 1] = e[r - 1]
      BY <1>1, <1>6
    <3>2. CASE r = L + 1
      <4>1. g[r - 1] = k /\ g[r] = k + 1
        BY <1>1, <1>6, <3>1, <3>2 DEF Cuts
      <4>2. [j \in 1 .. 1 |-> k + j] = <<k + 1>>
        OBVIOUS
      <4>3. g[r] - g[r - 1] = 1
        BY <4>1
      <4>4. QED
        BY <1>3, <3>2, <4>1, <4>2, <4>3
    <3>3. CASE r \in 1 .. L
      <4>1. r \in 0 .. L /\ g[r] = e[r] /\ d[r] = c[r]
        BY <1>3, <1>6, <3>3
      <4>2. QED
        BY <3>1, <3>3, <4>1 DEF Cuts
    <3>4. QED
      BY <1>1, <3>2, <3>3
  <2>4. QED
    BY <1>3, <1>5, <1>6, <2>1, <2>2, <2>3 DEF Cuts
<1>9. Packed(f, d)
  <2>1. ASSUME NEW r \in 1 .. L + 1 PROVE Fits(f, d[r])
    <3>1. CASE r = L + 1
      BY <1>3, <3>1
    <3>2. CASE r \in 1 .. L
      BY <1>3, <3>2 DEF Packed
    <3>3. QED
      BY <1>1, <3>1, <3>2
  <2>2. ASSUME NEW r \in 1 .. L + 1, r < L + 1 PROVE ~Fits(f, Append(d[r], d[r + 1][1]))
    <3>1. r \in 1 .. L /\ d[r] = c[r]
      BY <1>1, <1>3, <2>2
    <3>2. CASE r = L
      <4>1. c # <<>> /\ Last(c) = c[L] /\ d[r + 1][1] = k + 1
        BY <1>1, <1>3, <3>1, <3>2 DEF Last
      <4>2. QED
        BY <3>1, <3>2, <4>1
    <3>3. CASE r < L
      <4>1. r + 1 \in 1 .. L
        BY <1>1, <3>1, <3>3
      <4>2. QED
        BY <1>3, <3>1, <3>3, <4>1 DEF Packed
    <3>4. r = L \/ r < L
      <4>1. r <= L /\ L \in Int /\ r \in Int
        BY <3>1, L \in Nat
      <4>2. QED
        BY ONLY <4>1
    <3>5. QED
      BY <3>2, <3>3, <3>4
  <2>3. QED
    BY <1>3, <2>1, <2>2 DEF Packed
<1>10. QED
  BY <1>3, <1>8, <1>9 DEF d

\* c is the first k entries of f, in order, split into requests.
IsSplit(f, c, k) ==
    /\ c \in Seq(Numbers)
    /\ Packed(f, c)
    /\ \E e : Cuts(e, c, k)

\* chunkUpsert cuts a file of any length into packed requests.
LEMMA SplitCuts ==
    ASSUME NEW n \in Nat, NEW f, MaySplit(f, n)
    PROVE  IsSplit(f, Split(f), n)
<1>1. PICK w : Splitting(w, f, n) /\ Split(f) = w[n]
  BY SplitIsSplitting DEF MaySplit
<1> DEFINE Done == {k \in 0 .. n : IsSplit(f, w[k], k)}
<1>2. 0 \in Done
  <2>1. w[0] = <<>> /\ Len(w[0]) = 0 /\ w[0] \in Seq(Numbers)
    BY <1>1 DEF Splitting
  <2> DEFINE e == [i \in 0 .. 0 |-> 0]
  <2>2. Cuts(e, w[0], 0)
    BY <2>1 DEF Cuts
  <2>3. Packed(f, w[0])
    BY <2>1 DEF Packed
  <2> HIDE DEF e
  <2>4. IsSplit(f, w[0], 0)
    BY <2>1, <2>2, <2>3 DEF IsSplit
  <2>5. QED
    BY <2>4
<1>3. \A k \in 0 .. n - 1 : k \in Done => k + 1 \in Done
  <2>1. SUFFICES ASSUME NEW k \in 0 .. n - 1, k \in Done PROVE k + 1 \in Done
    OBVIOUS
  <2>2. k \in Nat /\ k + 1 \in 1 .. n /\ k + 1 \in 0 .. n /\ (k + 1) - 1 = k
    OBVIOUS
  <2>3. w[k + 1] = Joined(f, w[k], k + 1) /\ w[k + 1] \in Seq(Numbers)
    BY <1>1, <2>2 DEF Splitting
  <2>4. IsSplit(f, w[k], k)
    BY <2>1
  <2>5. PICK c : c = w[k]
    OBVIOUS
  <2>6. c \in Seq(Numbers) /\ Packed(f, c)
    BY <2>4, <2>5 DEF IsSplit
  <2>7. PICK e : Cuts(e, c, k)
    BY <2>4, <2>5 DEF IsSplit
  <2>8. Fits(f, <<k + 1>>)
    BY <2>2, OneEntryFits DEF MaySplit
  <2>9. CASE c # <<>> /\ Fits(f, Append(Last(c), k + 1))
    <3> DEFINE d == [c EXCEPT ![Len(c)] = Append(@, k + 1)]
    <3>1. Packed(f, d) /\ \E g : Cuts(g, d, k + 1)
      BY <2>2, <2>6, <2>7, <2>9, CutGrows
    <3>2. w[k + 1] = d
      BY <2>3, <2>5, <2>9 DEF Joined
    <3> HIDE DEF d
    <3>3. IsSplit(f, w[k + 1], k + 1)
      BY <2>3, <3>1, <3>2 DEF IsSplit
    <3>4. QED
      BY <2>2, <3>3
  <2>10. CASE ~(c # <<>> /\ Fits(f, Append(Last(c), k + 1)))
    <3> DEFINE d == Append(c, <<k + 1>>)
    <3>1. Packed(f, d) /\ \E g : Cuts(g, d, k + 1)
      BY <2>2, <2>6, <2>7, <2>8, <2>10, CutEnds
    <3>2. w[k + 1] = d
      BY <2>3, <2>5, <2>10 DEF Joined
    <3> HIDE DEF d
    <3>3. IsSplit(f, w[k + 1], k + 1)
      BY <2>3, <3>1, <3>2 DEF IsSplit
    <3>4. QED
      BY <2>2, <3>3
  <2>11. QED
    BY <2>9, <2>10
<1> HIDE DEF Done
<1>4. n \in Done
  BY <1>2, <1>3, Induction
<1>5. QED
  BY <1>1, <1>4 DEF Done

\* st is s and, behind it, t.
IsBoth(st, s, t) ==
    /\ Len(st) = Len(s) + Len(t)
    /\ \A j \in 1 .. Len(s) : st[j] = s[j]
    /\ \A j \in 1 .. Len(t) : st[Len(s) + j] = t[j]

\* What the prover knows of \o, under a name.
LEMMA Concatenated ==
    ASSUME NEW X, NEW s \in Seq(X), NEW t \in Seq(X)
    PROVE  s \o t \in Seq(X) /\ IsBoth(s \o t, s, t)
<1>1. s \o t \in Seq(X) /\ Len(s \o t) = Len(s) + Len(t) /\ \A j \in 1 .. Len(s) : (s \o t)[j] = s[j]
  OBVIOUS
<1>2. ASSUME NEW j \in 1 .. Len(t) PROVE (s \o t)[Len(s) + j] = t[j]
  <2>1. Len(s) \in Nat /\ Len(t) \in Nat
    OBVIOUS
  <2>2. Len(s) + j \in 1 .. Len(s) + Len(t) /\ ~(Len(s) + j <= Len(s)) /\ (Len(s) + j) - Len(s) = j
    BY <2>1
  <2>3. QED
    BY <2>1, <2>2
<1>3. QED
  BY <1>1, <1>2 DEF IsBoth

\* One after the other, the requests are the numbers up to k.
LEMMA CutsFlatten ==
    ASSUME NEW k \in Nat \ {0}, NEW c \in Seq(Numbers), NEW e, Cuts(e, c, k)
    PROVE  /\ c # <<>> /\ Len(c) \in Nat \ {0}
           /\ FlattenSeq(c) = [i \in 1 .. k |-> i]
<1> DEFINE L == Len(c)
           F(fl) == [i \in 1 .. L |-> IF i = 1 THEN c[i] ELSE fl[i - 1] \o c[i]]
           G == [i \in 1 .. L |-> [j \in 1 .. e[i] |-> j]]
           flat == CHOOSE fl : fl = F(fl)
<1>1. L \in Nat /\ L # 0 /\ c # <<>>
  <2>1. L \in Nat
    OBVIOUS
  <2>2. L # 0
    <3>1. e[0] = 0 /\ e[L] = k
      BY DEF Cuts
    <3>2. QED
      BY <3>1
  <2>3. QED
    BY <2>1, <2>2
<1>2. FlattenSeq(c) = flat[L]
  BY <1>1, Zenon DEF FlattenSeq
<1>3. ASSUME NEW i \in 1 .. L
      PROVE  [j \in 1 .. e[i] |-> j] = IF i = 1 THEN c[i] ELSE [j \in 1 .. e[i - 1] |-> j] \o c[i]
  <2>1. /\ e[i - 1] \in 0 .. k /\ e[i] \in 0 .. k /\ e[i - 1] < e[i]
        /\ Len(c[i]) = e[i] - e[i - 1]
        /\ \A j \in 1 .. e[i] - e[i - 1] : c[i][j] = e[i - 1] + j
        /\ c[i] = [j \in 1 .. e[i] - e[i - 1] |-> e[i - 1] + j]
        /\ c[i] \in Numbers
    <3>1. c[i] = [j \in 1 .. e[i] - e[i - 1] |-> e[i - 1] + j]
      BY DEF Cuts
    <3> HIDE DEF L
    <3>2. i \in 1 .. Len(c)
      BY DEF L
    <3>3. QED
      BY <3>1, <3>2, CutRuns
  <2>2. CASE i = 1
    <3>1. e[i - 1] = 0
      BY <2>2 DEF Cuts
    <3>2. c[i] = [j \in 1 .. e[i] - 0 |-> 0 + j]
      BY <2>1, <3>1
    <3>3. e[i] - 0 = e[i] /\ \A j \in 1 .. e[i] : 0 + j = j
      BY <2>1
    <3>4. QED
      BY <2>2, <3>2, <3>3
  <2>3. CASE i # 1
    <3> DEFINE a == [j \in 1 .. e[i - 1] |-> j]
    <3>1. a \in Seq(Nat) /\ Len(a) = e[i - 1] /\ c[i] \in Seq(Nat)
      <4>1. e[i - 1] \in Nat
        BY <2>1
      <4>2. a \in Seq(Nat) /\ Len(a) = e[i - 1]
        BY <4>1
      <4>3. QED
        BY <2>1, <4>2 DEF Numbers
    <3>2. \A j \in 1 .. e[i - 1] : a[j] = j
      OBVIOUS
    <3> HIDE DEF a
    <3>3. a \o c[i] \in Seq(Nat) /\ Len(a \o c[i]) = e[i]
      BY <2>1, <3>1
    <3>4. \A j \in 1 .. e[i] : (a \o c[i])[j] = j
      <4>1. TAKE j \in 1 .. e[i]
      <4>2. CASE j \in 1 .. e[i - 1]
        BY <2>1, <3>1, <3>2, <4>2
      <4>3. CASE j \notin 1 .. e[i - 1]
        <5>1. j - e[i - 1] \in 1 .. e[i] - e[i - 1] /\ e[i - 1] + (j - e[i - 1]) = j
          BY <2>1, <4>3
        <5>2. c[i][j - e[i - 1]] = j
          BY <2>1, <5>1
        <5>3. \A x \in 1 .. Len(c[i]) : (a \o c[i])[Len(a) + x] = c[i][x]
          <6>1. PICK b \in Seq(Nat) : b = c[i]
            BY <3>1
          <6>2. IsBoth(a \o b, a, b)
            BY <3>1, Concatenated
          <6>3. \A x \in 1 .. Len(b) : (a \o b)[Len(a) + x] = b[x]
            BY <6>2, Zenon DEF IsBoth
          <6>4. QED
            BY <6>1, <6>3
        <5>4. PICK x \in 1 .. Len(c[i]) : x = j - e[i - 1]
          BY <2>1, <5>1
        <5>5. (a \o c[i])[Len(a) + x] = j
          BY <5>2, <5>3, <5>4
        <5>6. Len(a) + x = j
          BY <2>1, <3>1, <5>1, <5>4
        <5>7. QED
          BY <5>5, <5>6
      <4>4. QED
        BY <4>2, <4>3
    <3>5. a \o c[i] = [j \in 1 .. Len(a \o c[i]) |-> (a \o c[i])[j]]
      BY <3>3
    <3>6. a \o c[i] = [j \in 1 .. e[i] |-> j]
      BY <3>3, <3>4, <3>5
    <3>7. QED
      BY <2>3, <3>6 DEF a
  <2>4. QED
    BY <2>2, <2>3
<1>4. G = F(G)
  <2>1. ASSUME NEW i \in 1 .. L PROVE G[i] = F(G)[i]
    <3>1. CASE i = 1
      BY <1>3, <3>1
    <3>2. CASE i # 1
      <4>1. i - 1 \in 1 .. L
        BY <1>1, <3>2
      <4>2. G[i - 1] = [j \in 1 .. e[i - 1] |-> j]
        BY <4>1
      <4>3. F(G)[i] = G[i - 1] \o c[i]
        BY <3>2
      <4>4. QED
        BY <1>3, <3>2, <4>2, <4>3
    <3>3. QED
      BY <3>1, <3>2
  <2>2. QED
    BY <2>1
<1>5. flat = F(flat)
  <2> HIDE DEF G
  <2>1. QED
    BY <1>4, Zenon
<1> HIDE DEF flat
<1> DEFINE Done == {d \in 0 .. L - 1 : flat[d + 1] = [j \in 1 .. e[d + 1] |-> j]}
<1>6. 0 \in Done
  <2>1. 1 \in 1 .. L /\ 0 \in 0 .. L - 1 /\ 0 + 1 = 1
    BY <1>1
  <2>2. flat[1] = c[1]
    BY <1>5, <2>1
  <2>3. flat[1] = [j \in 1 .. e[1] |-> j]
    BY <1>3, <2>1, <2>2
  <2>4. QED
    BY <2>1, <2>3
<1>7. \A d \in 0 .. (L - 1) - 1 : d \in Done => d + 1 \in Done
  <2>1. SUFFICES ASSUME NEW d \in 0 .. (L - 1) - 1, d \in Done PROVE d + 1 \in Done
    OBVIOUS
  <2>2. d + 1 \in 0 .. L - 1 /\ (d + 1) + 1 \in 1 .. L /\ (d + 1) + 1 # 1 /\ ((d + 1) + 1) - 1 = d + 1
    BY <1>1
  <2>3. flat[(d + 1) + 1] = flat[d + 1] \o c[(d + 1) + 1]
    <3>1. F(flat)[(d + 1) + 1] = flat[((d + 1) + 1) - 1] \o c[(d + 1) + 1]
      BY <2>2
    <3> HIDE DEF F
    <3>2. QED
      BY <1>5, <2>2, <3>1
  <2>4. flat[d + 1] = [j \in 1 .. e[d + 1] |-> j]
    BY <2>1
  <2>5. flat[(d + 1) + 1] = [j \in 1 .. e[(d + 1) + 1] |-> j]
    BY <1>3, <2>2, <2>3, <2>4
  <2>6. QED
    BY <2>2, <2>5
<1>8. L - 1 \in Done
  <2> HIDE DEF Done
  <2>1. L - 1 \in Nat /\ L - 1 \in 0 .. L - 1
    BY <1>1
  <2>2. QED
    BY <1>6, <1>7, <2>1, Induction
<1>9. flat[L] = [j \in 1 .. e[L] |-> j]
  <2>1. (L - 1) + 1 = L
    BY <1>1
  <2>2. QED
    BY <1>8, <2>1
<1>10. QED
  BY <1>1, <1>2, <1>9 DEF Cuts

\* A file is a sequence of stocks, or one of listings, that has entries.
LEMMA Files ==
    ASSUME NEW f \in StockFiles \union ListingFiles
    PROVE  \E n \in Nat \ {0} :
             /\ MaySplit(f, n)
             /\ \/ \A i \in 1 .. n : f[i].op = "listing"
                \/ \A i \in 1 .. n : f[i].op # "listing"
<1>1. Budget \in Nat /\ 1 \in 1 .. Budget /\ \A x \in 1 .. MaxCost : x \in 1 .. Budget
  BY BudgetIsEnough
<1>2. CASE f \in StockFiles
  <2>1. PICK n \in 1 .. MaxEntries : f \in [1 .. n -> Creates \union Updates]
    BY <1>2 DEF StockFiles
  <2>2. \A x \in Creates \union Updates : x.cost = 1 /\ x.op # "listing"
    BY DEF Creates, Updates
  <2>3. \A i \in 1 .. n : f[i].cost \in 1 .. Budget /\ f[i].op # "listing"
    BY <1>1, <2>1, <2>2
  <2>4. n \in Nat \ {0} /\ DOMAIN f = 1 .. n
    BY <2>1
  <2>5. QED
    BY <2>3, <2>4 DEF MaySplit
<1>3. CASE f \in ListingFiles
  <2>1. PICK n \in 1 .. MaxEntries : f \in [1 .. n -> Listings]
    BY <1>3 DEF ListingFiles
  <2>2. \A x \in Listings : x.cost \in 1 .. MaxCost /\ x.op = "listing"
    BY DEF Listings
  <2>3. \A i \in 1 .. n : f[i].cost \in 1 .. Budget /\ f[i].op = "listing"
    BY <1>1, <2>1, <2>2
  <2>4. n \in Nat \ {0} /\ DOMAIN f = 1 .. n
    BY <2>1
  <2>5. QED
    BY <2>3, <2>4 DEF MaySplit
<1>4. QED
  BY <1>2, <1>3

\* The requests of a file are what RequestsFit says.
LEMMA SplitFits ==
    ASSUME file \in StockFiles \union ListingFiles, chunks = Split(file)
    PROVE  RequestsFit
<1>1. PICK n \in Nat \ {0} : MaySplit(file, n)
  BY Files
<1>2. IsSplit(file, chunks, n)
  BY <1>1, SplitCuts
<1>3. PICK e : Cuts(e, chunks, n)
  BY <1>2 DEF IsSplit
<1>4. chunks \in Seq(Numbers) /\ Packed(file, chunks) /\ DOMAIN chunks = 1 .. Len(chunks)
  BY <1>2 DEF IsSplit
<1>5. FlattenSeq(chunks) = [i \in DOMAIN file |-> i]
  BY <1>1, <1>3, <1>4, CutsFlatten DEF MaySplit
<1>6. \A r \in 1 .. Len(chunks) : chunks[r] # <<>>
  BY <1>3, <1>4, CutRuns
<1>7. QED
  BY <1>4, <1>5, <1>6 DEF RequestsFit, Packed

----------------------------------------------------------------------------
(* Reckoning what has failed *)

Below(A, i) == {j \in A : j < i}
FromRank(A, w) == {i \in A : Cardinality(Below(A, i)) >= w}

\* Of a finite set of numbers, those that w others or more precede are all but the w least.
LEMMA AllButLeast ==
    ASSUME NEW n \in Nat, NEW A \in SUBSET (1 .. n), NEW w \in Nat, w <= Cardinality(A)
    PROVE  Cardinality(FromRank(A, w)) = Cardinality(A) - w
<1> DEFINE T == FromRank(A, w)
<1>1. IsFiniteSet(A) /\ \A S \in SUBSET A : IsFiniteSet(S) /\ Cardinality(S) \in Nat
  <2>1. IsFiniteSet(1 .. n)
    BY FS_Interval
  <2>2. \A S \in SUBSET (1 .. n) : IsFiniteSet(S)
    BY <2>1, FS_Subset
  <2>3. QED
    BY <2>2, FS_CardinalityType
<1>2. T \subseteq A /\ \A i \in A : i \in T <=> Cardinality(Below(A, i)) >= w
  BY DEF FromRank
<1> HIDE DEF T
<1>3. Cardinality(A) \in Nat /\ Cardinality(T) \in Nat /\ Cardinality(A \ T) \in Nat
  BY <1>1, <1>2
<1>4. Cardinality(A \ T) <= w
  <2>1. CASE A \ T = {}
    BY <1>3, <2>1, FS_EmptySet
  <2>2. CASE A \ T # {}
    <3> DEFINE m == Max(A \ T)
    <3>1. m \in A \ T /\ \A y \in A \ T : y <= m
      BY <2>2, MaxOfNumbers
    <3> HIDE DEF m
    <3>2. Below(A, m) \in SUBSET A /\ m \notin Below(A, m) /\ A \ T \subseteq Below(A, m) \union {m}
      <4>1. A \subseteq Int /\ m \in Int
        BY <3>1
      <4>2. \A y \in A \ T : y = m \/ y < m
        BY <3>1, <4>1
      <4>3. Below(A, m) \in SUBSET A /\ m \notin Below(A, m)
        BY <4>1 DEF Below
      <4>4. \A y \in A \ T : y = m \/ y \in Below(A, m)
        BY <4>2, Zenon DEF Below
      <4>5. QED
        BY <4>3, <4>4
    <3>3. /\ IsFiniteSet(Below(A, m) \union {m})
          /\ Cardinality(Below(A, m) \union {m}) = Cardinality(Below(A, m)) + 1
      BY <1>1, <3>2, FS_AddElement
    <3>4. Cardinality(A \ T) <= Cardinality(Below(A, m)) + 1
      BY <3>2, <3>3, FS_Subset
    <3>5. Cardinality(Below(A, m)) \in Nat /\ ~(Cardinality(Below(A, m)) >= w)
      BY <1>1, <1>2, <3>1, <3>2
    <3>6. QED
      BY <1>3, <3>4, <3>5
  <2>3. QED
    BY <2>1, <2>2
<1>5. Cardinality(A \ T) >= w
  <2>1. CASE T = {}
    <3>1. A \ T = A
      BY <2>1
    <3>2. QED
      BY <1>3, <3>1
  <2>2. CASE T # {}
    <3>1. PICK i \in T : \A y \in T : i <= y
      <4>1. T \in SUBSET Nat
        BY <1>2
      <4>2. QED
        BY <2>2, <4>1, LeastElement
    <3>2. Below(A, i) \subseteq A \ T
      <4>1. A \subseteq Int /\ i \in Int
        BY <1>2, <3>1
      <4>2. \A y \in A : y < i => y \notin T
        BY <3>1, <4>1
      <4>3. QED
        BY <4>2 DEF Below
    <3>3. Cardinality(Below(A, i)) >= w
      BY <1>2, <3>1
    <3>4. Cardinality(Below(A, i)) <= Cardinality(A \ T)
      BY <1>1, <3>2, FS_Subset
    <3>5. Cardinality(Below(A, i)) \in Nat
      BY <1>1, <3>2
    <3>6. QED
      BY <1>3, <3>3, <3>4, <3>5
  <2>3. QED
    BY <2>1, <2>2
<1>6. Cardinality(A \ T) = Cardinality(A) - Cardinality(A \cap T)
  BY <1>1, FS_Difference
<1>7. A \cap T = T
  BY <1>2
<1>8. Cardinality(T) = Cardinality(A) - w
  <2>1. Cardinality(A \ T) = Cardinality(A) - Cardinality(T)
    BY <1>6, <1>7
  <2>2. Cardinality(A \ T) = w
    BY <1>3, <1>4, <1>5
  <2>3. QED
    BY ONLY <1>3, <2>1, <2>2, w \in Nat
<1>9. QED
  BY <1>8 DEF T

\* s has each of its numbers once, and they are those of S.
Lists(s, S) ==
    /\ s \in Numbers
    /\ Range(s) = S
    /\ \A i, j \in DOMAIN s : s[i] = s[j] => i = j

\* A sublist of an increasing sequence has each element of the set once.
LEMMA SublistLists ==
    ASSUME NEW c \in Numbers, \A i, j \in DOMAIN c : i < j => c[i] < c[j],
           NEW S \in SUBSET Range(c)
    PROVE  Lists(Sublist(c, S), S)
<1> DEFINE t == Sublist(c, S)
<1>1. c \in Seq(Nat) /\ Len(c) \in Nat /\ DOMAIN c = 1 .. Len(c) /\ \A i \in DOMAIN c : c[i] \in Nat
  BY DEF Numbers
<1>2. t \in Seq(Nat) /\ \E h : From(h, t, c, S, Len(c))
  BY <1>1, SublistFrom
<1>3. PICK h : From(h, t, c, S, Len(c))
  BY <1>2
<1> HIDE DEF t
<1>4. Len(t) \in Nat /\ DOMAIN t = 1 .. Len(t)
  BY <1>2
<1>5. Range(t) = S
  <2>1. ASSUME NEW x \in Range(t) PROVE x \in S
    BY <1>3, <1>4 DEF From, Range
  <2>2. ASSUME NEW x \in S PROVE x \in Range(t)
    <3>1. PICK m \in 1 .. Len(c) : x = c[m]
      BY <1>1 DEF Range
    <3>2. PICK i \in 1 .. Len(t) : h[i] = m
      BY <1>3, <3>1 DEF From
    <3>3. t[i] = x
      BY <1>3, <3>1, <3>2 DEF From
    <3>4. QED
      BY <1>4, <3>3 DEF Range
  <2>3. QED
    BY <2>1, <2>2
<1>6. ASSUME NEW i \in 1 .. Len(t), NEW j \in 1 .. Len(t), i < j PROVE t[i] < t[j]
  <2>1. h[i] \in 1 .. Len(c) /\ h[j] \in 1 .. Len(c) /\ h[i] < h[j] /\ t[i] = c[h[i]] /\ t[j] = c[h[j]]
    BY <1>3, <1>6 DEF From
  <2>2. QED
    BY <1>1, <2>1
<1>7. ASSUME NEW i \in 1 .. Len(t), NEW j \in 1 .. Len(t), t[i] = t[j] PROVE i = j
  <2>1. t[i] \in Nat /\ t[j] \in Nat
    BY <1>2
  <2>2. ~(i < j) /\ ~(j < i)
    BY <1>6, <1>7, <2>1
  <2>3. QED
    BY <1>4, <2>2
<1>8. QED
  BY <1>2, <1>4, <1>5, <1>7 DEF Lists, Numbers, t

ReportRow == [key : Articles \union StockIDs, status : {"written", "failed", "unknown"}]

FailedRow(k) == [key |-> k, status |-> "failed"]
FailedRows(rows, k) == {j \in DOMAIN rows : rows[j] = FailedRow(k)}

\* The rows from the m-th on call failed the entries that u has, those before it none.
Blames(rows, m, u) ==
    /\ rows \in Seq(ReportRow)
    /\ Len(rows) = m + Len(u)
    /\ \A j \in 1 .. m : rows[j].status # "failed"
    /\ \A j \in 1 .. Len(u) : rows[m + j] = Row(u[j], "failed")

\* The rows that call an entry of k failed are as many as the entries of k they list.
LEMMA RowsCount ==
    ASSUME NEW rows, NEW m \in Nat, NEW u, NEW S, Lists(u, S), IsFiniteSet(S), Blames(rows, m, u), NEW k
    PROVE  Cardinality(FailedRows(rows, k)) = Cardinality({i \in S : file[i].key = k})
<1> DEFINE R == FailedRows(rows, k)
           T == {i \in S : file[i].key = k}
           b == [i \in T |-> m + CHOOSE j \in DOMAIN u : u[j] = i]
<1>1. /\ u \in Seq(Nat) /\ Len(u) \in Nat /\ DOMAIN u = 1 .. Len(u)
      /\ \A i \in S : \E j \in DOMAIN u : u[j] = i
      /\ \A j \in DOMAIN u : u[j] \in S
  BY DEF Lists, Numbers, Range
<1>2. DOMAIN rows = 1 .. m + Len(u)
  BY <1>1 DEF Blames
<1>3. \A i \in T : b[i] - m \in 1 .. Len(u) /\ u[b[i] - m] = i /\ b[i] \in m + 1 .. m + Len(u)
  <2>1. TAKE i \in T
  <2> DEFINE j == CHOOSE x \in DOMAIN u : u[x] = i
  <2>2. j \in 1 .. Len(u) /\ u[j] = i
    BY <1>1
  <2>3. b[i] = m + j
    OBVIOUS
  <2> HIDE DEF j, b
  <2>4. b[i] - m = j
    BY <2>2, <2>3
  <2>5. QED
    BY <1>1, <2>2, <2>3, <2>4
<1>4. \A j \in 1 .. Len(u) : rows[m + j] = FailedRow(k) <=> file[u[j]].key = k
  <2>1. TAKE j \in 1 .. Len(u)
  <2>2. rows[m + j] = [key |-> file[u[j]].key, status |-> "failed"]
    BY DEF Blames, Row
  <2>3. \A x : [key |-> x, status |-> "failed"] = [key |-> k, status |-> "failed"] <=> x = k
    <3>1. TAKE x
    <3>2. [key |-> x, status |-> "failed"].key = x /\ [key |-> k, status |-> "failed"].key = k
      OBVIOUS
    <3>3. QED
      BY <3>2, Zenon
  <2>4. QED
    BY <2>2, <2>3 DEF FailedRow
<1>5. b \in [T -> R]
  <2>1. SUFFICES ASSUME NEW i \in T PROVE b[i] \in R
    OBVIOUS
  <2>2. b[i] - m \in 1 .. Len(u) /\ u[b[i] - m] = i /\ b[i] \in m + 1 .. m + Len(u)
    BY <1>3
  <2> HIDE DEF b
  <2>3. m + (b[i] - m) = b[i] /\ b[i] \in 1 .. m + Len(u)
    BY <1>1, <2>2
  <2>4. file[u[b[i] - m]].key = k
    BY <2>2
  <2>5. rows[m + (b[i] - m)] = FailedRow(k)
    BY <1>4, <2>2, <2>4
  <2>6. QED
    BY <1>2, <2>3, <2>5 DEF FailedRows
<1>6. \A i, j \in T : b[i] = b[j] => i = j
  <2> HIDE DEF b
  <2>1. QED
    BY <1>3
<1>7. \A r \in R : \E i \in T : b[i] = r
  <2>1. TAKE r \in R
  <2>2. r \in 1 .. m + Len(u) /\ rows[r] = FailedRow(k)
    BY <1>2 DEF FailedRows
  <2>3. r \notin 1 .. m
    BY <2>2 DEF Blames, FailedRow
  <2>4. PICK j \in 1 .. Len(u) : r = m + j
    <3>1. r - m \in 1 .. Len(u) /\ r = m + (r - m)
      BY <1>1, <2>2, <2>3
    <3>2. QED
      BY <3>1
  <2>5. file[u[j]].key = k /\ u[j] \in S
    BY <1>1, <1>4, <2>2, <2>4
  <2>6. u[j] \in T
    BY <2>5
  <2>7. u[b[u[j]] - m] = u[j] /\ b[u[j]] - m \in 1 .. Len(u) /\ b[u[j]] \in m + 1 .. m + Len(u)
    BY <1>3, <2>6
  <2> HIDE DEF b
  <2>8. b[u[j]] - m = j
    BY <1>1, <2>7 DEF Lists
  <2>9. b[u[j]] = r
    BY <2>4, <2>7, <2>8
  <2>10. QED
    BY <2>6, <2>9
<1> HIDE DEF b
<1>8. b \in Bijection(T, R)
  BY <1>5, <1>6, <1>7 DEF Bijection, Injection, Surjection, IsInjective
<1>9. IsFiniteSet(T)
  <2>1. T \in SUBSET S
    OBVIOUS
  <2> HIDE DEF T
  <2>2. QED
    BY <2>1, FS_Subset
<1> HIDE DEF T, R
<1>10. ExistsBijection(T, R)
  BY <1>8 DEF ExistsBijection
<1>11. Cardinality(R) = Cardinality(T)
  BY <1>9, <1>10, FS_Bijection
<1>12. QED
  BY <1>11 DEF T, R

\* A request names entries of the file, in their order.
IsRequest(c) ==
    /\ c \in Numbers /\ c # <<>>
    /\ \A i, j \in DOMAIN c : i < j => c[i] < c[j]
    /\ Range(c) \subseteq DOMAIN file

\* The entries of k that a tenant which has written the set done leaves out of c.
LeftOut(c, done, k) == {i \in Range(c) : file[i].key = k /\ i \notin done}

\* What rows say of the request c is no more, and of stocks no less, than what is so.
Tells(rows, c, done) ==
    /\ rows \in Seq(ReportRow)
    /\ \A k : Cardinality(FailedRows(rows, k)) <= Cardinality(LeftOut(c, done, k))
    /\ IsStock /\ (\A j \in DOMAIN rows : rows[j].status # "unknown") =>
         \A k : Cardinality(FailedRows(rows, k)) >= Cardinality(LeftOut(c, done, k))

\* A key is an article's or a stock's.
LEMMA KeysOfFile ==
    ASSUME file \in StockFiles \union ListingFiles
    PROVE  \A i \in DOMAIN file : file[i].key \in Articles \union StockIDs
<1>1. \A x \in Creates \union Updates \union Listings : x.key \in Articles \union StockIDs
  BY DEF Creates, Updates, Listings
<1>2. CASE file \in StockFiles
  <2>1. PICK n \in 1 .. MaxEntries : file \in [1 .. n -> Creates \union Updates]
    BY <1>2 DEF StockFiles
  <2>2. QED
    BY <1>1, <2>1
<1>3. CASE file \in ListingFiles
  <2>1. PICK n \in 1 .. MaxEntries : file \in [1 .. n -> Listings]
    BY <1>3 DEF ListingFiles
  <2>2. QED
    BY <1>1, <2>1
<1>4. QED
  BY <1>2, <1>3

\* The requests of a file share no entry.
LEMMA Requests ==
    ASSUME file \in StockFiles \union ListingFiles, chunks = Split(file)
    PROVE  /\ Len(chunks) \in Nat \ {0} /\ DOMAIN chunks = 1 .. Len(chunks)
           /\ \A r \in DOMAIN chunks : IsRequest(chunks[r])
           /\ \A r, q \in DOMAIN chunks : \A i \in Range(chunks[r]) : i \in Range(chunks[q]) => r = q
           /\ \E n \in Nat \ {0} : DOMAIN file = 1 .. n
<1>1. PICK n \in Nat \ {0} : MaySplit(file, n)
  BY Files
<1>2. IsSplit(file, chunks, n)
  BY <1>1, SplitCuts
<1>3. PICK e : Cuts(e, chunks, n)
  BY <1>2 DEF IsSplit
<1>4. chunks \in Seq(Numbers) /\ DOMAIN chunks = 1 .. Len(chunks)
  BY <1>2 DEF IsSplit
<1>5. Len(chunks) \in Nat \ {0}
  BY <1>3, <1>4, CutsFlatten
<1>6. ASSUME NEW r \in 1 .. Len(chunks)
      PROVE  /\ IsRequest(chunks[r])
             /\ \A i \in Range(chunks[r]) : i \in Nat /\ e[r - 1] < i /\ i <= e[r]
             /\ e[r - 1] \in Nat /\ e[r] \in Nat
  <2>1. /\ e[r - 1] \in 0 .. n /\ e[r] \in 0 .. n /\ e[r - 1] < e[r]
        /\ DOMAIN chunks[r] = 1 .. e[r] - e[r - 1]
        /\ \A j \in 1 .. e[r] - e[r - 1] : chunks[r][j] = e[r - 1] + j
        /\ chunks[r] # <<>> /\ chunks[r] \in Numbers
    <3>1. PICK c : c = chunks
      OBVIOUS
    <3>2. n \in Nat /\ c \in Seq(Numbers) /\ Cuts(e, c, n) /\ r \in 1 .. Len(c)
      BY <1>3, <1>4, <3>1
    <3> HIDE DEF Numbers
    <3>3. /\ e[r - 1] \in 0 .. n /\ e[r] \in 0 .. n /\ e[r - 1] < e[r]
          /\ DOMAIN c[r] = 1 .. e[r] - e[r - 1]
          /\ \A j \in 1 .. e[r] - e[r - 1] : c[r][j] = e[r - 1] + j
          /\ c[r] # <<>> /\ c[r] \in Numbers
      BY <3>2, CutRuns
    <3>4. QED
      BY <3>1, <3>3
  <2>2. \A i, j \in DOMAIN chunks[r] : i < j => chunks[r][i] < chunks[r][j]
    BY <2>1
  <2>3. ASSUME NEW i \in Range(chunks[r])
        PROVE  i \in 1 .. n /\ e[r - 1] < i /\ i <= e[r]
    <3>1. PICK j \in 1 .. e[r] - e[r - 1] : i = chunks[r][j]
      BY <2>1 DEF Range
    <3>2. i = e[r - 1] + j
      BY <2>1, <3>1
    <3>3. QED
      BY <2>1, <3>2
  <2>4. IsRequest(chunks[r])
    BY <1>1, <2>1, <2>2, <2>3 DEF IsRequest, MaySplit
  <2>5. QED
    BY <2>1, <2>3, <2>4
<1>7. ASSUME NEW r \in 1 .. Len(chunks), NEW q \in 1 .. Len(chunks), r < q,
             NEW i \in Range(chunks[r]), i \in Range(chunks[q])
      PROVE  FALSE
  <2>1. e[r] <= e[q - 1]
    <3>1. r \in 0 .. Len(chunks) /\ q - 1 \in 0 .. Len(chunks) /\ (r = q - 1 \/ r < q - 1)
      BY <1>5, <1>7
    <3>2. r < q - 1 => e[r] < e[q - 1]
      BY <1>3, <3>1 DEF Cuts
    <3>3. e[r] \in Nat /\ e[q - 1] \in Nat
      BY <1>6
    <3>4. QED
      BY <3>1, <3>2, <3>3
  <2>2. i \in Nat /\ i <= e[r] /\ e[q - 1] < i /\ e[r] \in Nat /\ e[q - 1] \in Nat
    BY <1>6, <1>7
  <2>3. QED
    BY <2>1, <2>2
<1>8. ASSUME NEW r \in 1 .. Len(chunks), NEW q \in 1 .. Len(chunks),
             NEW i \in Range(chunks[r]), i \in Range(chunks[q])
      PROVE  r = q
  <2>1. ~(r < q) /\ ~(q < r)
    BY <1>7, <1>8
  <2>2. QED
    BY <2>1
<1>9. QED
  BY <1>1, <1>4, <1>5, <1>6, <1>8 DEF MaySplit

\* All(u, status) has a row of each entry that u lists.
LEMMA RowsOf ==
    ASSUME file \in StockFiles \union ListingFiles, NEW u \in Numbers, Range(u) \subseteq DOMAIN file,
           NEW status \in {"written", "failed", "unknown"}
    PROVE  /\ All(u, status) \in Seq(ReportRow)
           /\ Len(All(u, status)) = Len(u)
           /\ Len(u) \in Nat /\ DOMAIN u = 1 .. Len(u)
           /\ \A j \in 1 .. Len(u) : All(u, status)[j] = Row(u[j], status) /\ All(u, status)[j].status = status
<1>1. Len(u) \in Nat /\ DOMAIN u = 1 .. Len(u)
  BY DEF Numbers
<1>2. \A j \in 1 .. Len(u) : Row(u[j], status) \in ReportRow
  BY <1>1, KeysOfFile DEF Row, ReportRow, Range
<1>3. All(u, status) = [j \in 1 .. Len(u) |-> Row(u[j], status)]
  BY <1>1 DEF All
<1>4. \A j \in 1 .. Len(u) : Row(u[j], status).status = status
  BY DEF Row
<1> HIDE DEF ReportRow
<1>5. QED
  BY <1>1, <1>2, <1>3, <1>4

\* So that its entries can be counted.
LEMMA ChunkIsFinite ==
    ASSUME file \in StockFiles \union ListingFiles, NEW c, IsRequest(c)
    PROVE  \E n \in Nat : Range(c) \subseteq 1 .. n /\ IsFiniteSet(Range(c))
                          /\ \A S \in SUBSET Range(c) : IsFiniteSet(S) /\ Cardinality(S) \in Nat
<1>1. PICK n \in Nat : DOMAIN file = 1 .. n
  BY Files DEF MaySplit
<1>2. Range(c) \subseteq 1 .. n
  BY <1>1 DEF IsRequest
<1>3. IsFiniteSet(1 .. n)
  BY FS_Interval
<1>4. \A S \in SUBSET (1 .. n) : IsFiniteSet(S)
  BY <1>3, FS_Subset
<1>5. \A S \in SUBSET (1 .. n) : IsFiniteSet(S) /\ Cardinality(S) \in Nat
  BY <1>4, FS_CardinalityType
<1>6. QED
  BY <1>2, <1>5

\* The entries that the report calls failed, by the set of keys answered.
NotNamed(c, done) == {i \in Range(c) : \A j \in done : file[j].key # file[i].key}

\* The same by how often each key was answered.
NotCounted(c, done) ==
    {i \in Range(c) : Cardinality(Before(c, i)) >= Cardinality({j \in done : file[j].key = file[i].key})}

\* Counting the answers of a key finds as many failed entries as the tenant left out,
\* though not which.
LEMMA CountedIsLeftOut ==
    ASSUME file \in StockFiles \union ListingFiles, NEW c, IsRequest(c), NEW done \in SUBSET Range(c), NEW k
    PROVE  Cardinality({i \in NotCounted(c, done) : file[i].key = k}) = Cardinality(LeftOut(c, done, k))
<1> DEFINE A == {i \in Range(c) : file[i].key = k}
           D == {j \in done : file[j].key = k}
           w == Cardinality(D)
<1>1. PICK n \in Nat : /\ Range(c) \subseteq 1 .. n /\ IsFiniteSet(Range(c))
                       /\ \A S \in SUBSET Range(c) : IsFiniteSet(S) /\ Cardinality(S) \in Nat
  BY ChunkIsFinite
<1>2. A \in SUBSET (1 .. n) /\ D \in SUBSET A /\ A \in SUBSET Range(c) /\ D \in SUBSET Range(c)
  BY <1>1
<1>3. \A i \in A : Before(c, i) = Below(A, i)
  BY DEF Before, Below
<1>4. \A i \in A : {j \in done : file[j].key = file[i].key} = D
  OBVIOUS
<1>5. {i \in NotCounted(c, done) : file[i].key = k} = FromRank(A, w)
  <2>1. {i \in NotCounted(c, done) : file[i].key = k}
          = {i \in A : Cardinality(Before(c, i)) >= Cardinality({j \in done : file[j].key = file[i].key})}
    BY Zenon DEF NotCounted
  <2>2. \A i \in A : Cardinality(Before(c, i)) >= Cardinality({j \in done : file[j].key = file[i].key})
                       <=> Cardinality(Below(A, i)) >= w
    BY <1>3, <1>4
  <2> HIDE DEF A, w
  <2>3. QED
    BY <2>1, <2>2 DEF FromRank
<1>6. LeftOut(c, done, k) = A \ D
  BY DEF LeftOut
<1> HIDE DEF A, D
<1>7. w \in Nat /\ w <= Cardinality(A) /\ IsFiniteSet(A)
  BY <1>1, <1>2, FS_Subset
<1>8. Cardinality(A \ D) = Cardinality(A) - w
  <2>1. A \cap D = D
    BY <1>2
  <2>2. QED
    BY <1>7, <2>1, FS_Difference
<1> HIDE DEF w
<1>9. Cardinality(FromRank(A, w)) = Cardinality(A) - w
  BY <1>2, <1>7, AllButLeast
<1>10. QED
  BY <1>5, <1>6, <1>8, <1>9

\* The report of a request that was answered.
LEMMA ReconcileTells ==
    ASSUME file \in StockFiles \union ListingFiles, NEW c, IsRequest(c), NEW done \in SUBSET Range(c)
    PROVE  Tells(Reconcile(c, done), c, done)
<1> DEFINE stock == file[c[1]].op # "listing"
           S == IF stock THEN NotCounted(c, done) ELSE NotNamed(c, done)
           a == Sublist(c, done)
           u == Sublist(c, S)
           wr == All(a, "written")
           fr == All(u, "failed")
           rows == Reconcile(c, done)
<1>1. PICK n \in Nat : /\ Range(c) \subseteq 1 .. n /\ IsFiniteSet(Range(c))
                       /\ \A T \in SUBSET Range(c) : IsFiniteSet(T) /\ Cardinality(T) \in Nat
  BY ChunkIsFinite
<1>2. NotCounted(c, done) \in SUBSET Range(c) /\ NotNamed(c, done) \in SUBSET Range(c)
  BY DEF NotCounted, NotNamed
<1>3. S \in SUBSET Range(c)
  BY <1>2
<1>4. rows = wr \o fr
  <2>1. Unnamed(c, done) = u
    BY Zenon DEF Unnamed, UnnamedBySet, UnnamedByCount, NotCounted, NotNamed
  <2>2. QED
    BY <2>1, Zenon DEF Reconcile
<1> HIDE DEF S
<1>5. Lists(a, done) /\ Lists(u, S)
  BY <1>3, SublistLists DEF IsRequest
<1>6. a \in Numbers /\ u \in Numbers /\ Range(a) \subseteq DOMAIN file /\ Range(u) \subseteq DOMAIN file
  BY <1>3, <1>5 DEF Lists, IsRequest
<1> HIDE DEF a, u
<1>7. /\ wr \in Seq(ReportRow) /\ Len(wr) = Len(a) /\ Len(a) \in Nat
      /\ \A j \in 1 .. Len(a) : wr[j].status = "written"
  BY <1>6, RowsOf
<1>8. /\ fr \in Seq(ReportRow) /\ Len(fr) = Len(u)
      /\ \A j \in 1 .. Len(u) : fr[j] = Row(u[j], "failed")
  BY <1>6, RowsOf
<1> HIDE DEF wr, fr, rows
<1>9. rows \in Seq(ReportRow) /\ IsBoth(rows, wr, fr)
  BY <1>4, <1>7, <1>8, Concatenated
<1>10. Blames(rows, Len(a), u)
  <2>1. /\ Len(rows) = Len(a) + Len(u)
        /\ \A j \in 1 .. Len(a) : rows[j] = wr[j]
        /\ \A j \in 1 .. Len(u) : rows[Len(a) + j] = fr[j]
    BY <1>7, <1>8, <1>9, Zenon DEF IsBoth
  <2>2. QED
    BY <1>7, <1>8, <1>9, <2>1 DEF Blames, ReportRow
<1>11. \A k : Cardinality(FailedRows(rows, k)) = Cardinality({i \in S : file[i].key = k})
  BY <1>1, <1>3, <1>5, <1>7, <1>10, RowsCount
<1>12. \A k : {i \in NotNamed(c, done) : file[i].key = k} \subseteq LeftOut(c, done, k)
  BY DEF NotNamed, LeftOut
<1>13. \A k : /\ Cardinality({i \in S : file[i].key = k}) <= Cardinality(LeftOut(c, done, k))
              /\ stock => Cardinality({i \in S : file[i].key = k}) >= Cardinality(LeftOut(c, done, k))
  <2>1. TAKE k
  <2>2. LeftOut(c, done, k) \in SUBSET Range(c)
    BY DEF LeftOut
  <2>3. IsFiniteSet(LeftOut(c, done, k)) /\ Cardinality(LeftOut(c, done, k)) \in Nat
    BY <1>1, <2>2
  <2> HIDE DEF stock
  <2>4. CASE stock
    <3>1. S = NotCounted(c, done)
      BY <2>4 DEF S
    <3>2. Cardinality({i \in S : file[i].key = k}) = Cardinality(LeftOut(c, done, k))
      BY <3>1, CountedIsLeftOut
    <3>3. QED
      BY <2>3, <3>2
  <2>5. CASE ~stock
    <3>1. S = NotNamed(c, done)
      BY <2>5 DEF S
    <3>2. {i \in S : file[i].key = k} \subseteq LeftOut(c, done, k)
      BY <1>12, <3>1
    <3>3. Cardinality({i \in S : file[i].key = k}) <= Cardinality(LeftOut(c, done, k))
      BY <2>3, <3>2, FS_Subset
    <3>4. QED
      BY <2>5, <3>3
  <2>6. QED
    BY <2>4, <2>5
<1>14. IsStock => stock
  <2>1. PICK m \in Nat \ {0} : /\ MaySplit(file, m)
                               /\ \/ \A i \in 1 .. m : file[i].op = "listing"
                                  \/ \A i \in 1 .. m : file[i].op # "listing"
    BY Files
  <2>2. 1 \in DOMAIN c
    BY DEF IsRequest, Numbers
  <2>3. c[1] \in 1 .. m /\ 1 \in 1 .. m
    BY <2>1, <2>2 DEF IsRequest, Range, MaySplit
  <2>4. QED
    BY <2>1, <2>3 DEF IsStock
<1> HIDE DEF stock
<1>15. QED
  BY <1>9, <1>11, <1>13, <1>14 DEF Tells, rows

\* A request that is all refused, or of which nothing is known.
LEMMA AllTells ==
    ASSUME file \in StockFiles \union ListingFiles, NEW c, IsRequest(c), NEW done \in SUBSET Range(c)
    PROVE  /\ Tells(All(c, "failed"), c, {})
           /\ Tells(All(c, "unknown"), c, done)
<1>1. PICK n \in Nat : /\ Range(c) \subseteq 1 .. n /\ IsFiniteSet(Range(c))
                       /\ \A T \in SUBSET Range(c) : IsFiniteSet(T) /\ Cardinality(T) \in Nat
  BY ChunkIsFinite
<1>2. c \in Numbers /\ c # <<>> /\ Range(c) \subseteq DOMAIN file /\ Len(c) \in Nat /\ DOMAIN c = 1 .. Len(c)
  BY DEF IsRequest, Numbers
<1>3. \A k, w : LeftOut(c, w, k) \in SUBSET Range(c)
  BY DEF LeftOut
<1>4. Lists(c, Range(c))
  <2>1. \A i \in DOMAIN c : c[i] \in Nat
    BY <1>2 DEF Numbers
  <2>2. ASSUME NEW i \in 1 .. Len(c), NEW j \in 1 .. Len(c), c[i] = c[j] PROVE i = j
    <3>1. ~(i < j) /\ ~(j < i)
      BY <1>2, <2>1, <2>2 DEF IsRequest
    <3>2. QED
      BY <3>1
  <2>3. QED
    BY <1>2, <2>2 DEF Lists
<1>5. Tells(All(c, "failed"), c, {})
  <2> DEFINE rows == All(c, "failed")
  <2>1. /\ rows \in Seq(ReportRow) /\ Len(rows) = Len(c)
        /\ \A j \in 1 .. Len(c) : rows[j] = Row(c[j], "failed")
    BY <1>2, RowsOf
  <2> HIDE DEF rows
  <2>2. Blames(rows, 0, c)
    <3>1. \A j \in 1 .. Len(c) : 0 + j = j
      OBVIOUS
    <3>2. Len(rows) = 0 + Len(c)
      BY <1>2, <2>1
    <3>3. QED
      BY <2>1, <3>1, <3>2 DEF Blames, ReportRow
  <2>3. ASSUME NEW k PROVE Cardinality(FailedRows(rows, k)) = Cardinality(LeftOut(c, {}, k))
    <3>1. LeftOut(c, {}, k) = {i \in Range(c) : file[i].key = k}
      BY DEF LeftOut
    <3>2. 0 \in Nat
      OBVIOUS
    <3>3. QED
      BY <1>1, <1>4, <2>2, <3>1, <3>2, RowsCount
  <2>4. \A k : Cardinality(LeftOut(c, {}, k)) \in Nat
    BY <1>1, <1>3
  <2>5. QED
    BY <2>1, <2>3, <2>4 DEF Tells, rows
<1>6. Tells(All(c, "unknown"), c, done)
  <2> DEFINE rows == All(c, "unknown")
  <2>1. /\ rows \in Seq(ReportRow) /\ Len(rows) = Len(c)
        /\ \A j \in 1 .. Len(c) : rows[j].status = "unknown"
    BY <1>2, RowsOf
  <2> HIDE DEF rows
  <2>2. DOMAIN rows = 1 .. Len(c) /\ 1 \in 1 .. Len(c)
    BY <1>2, <2>1 DEF Numbers
  <2>3. \A k : FailedRows(rows, k) = {}
    BY <2>1, <2>2 DEF FailedRows, FailedRow
  <2>4. \A k : Cardinality(FailedRows(rows, k)) = 0 /\ Cardinality(LeftOut(c, done, k)) \in Nat
    BY <1>1, <1>3, <2>3, FS_EmptySet
  <2>5. QED
    BY <2>1, <2>2, <2>4 DEF Tells, rows
<1>7. QED
  BY <1>5, <1>6

----------------------------------------------------------------------------
(* The report of a run *)

UpsertTypeOK ==
    /\ file \in StockFiles \union ListingFiles
    /\ chunks = Split(file)
    /\ sent \in Nat
    /\ landed \in [DOMAIN file -> Nat]
    /\ reports \in Seq(Seq(ReportRow))
    /\ Len(reports) <= Len(chunks)
    /\ at \in {"sending", "done", "aborted"}
    /\ at = "sending" => Len(reports) < Len(chunks)

\* Nothing of a request is written before it is sent.
Untouched ==
    \A r \in DOMAIN chunks : r > Now \/ (r = Now /\ sent = 0) =>
      \A i \in Range(chunks[r]) : landed[i] = 0

\* What the report of a request says of it is true, unless it was sent twice or is in doubt.
Honest(r) ==
    /\ r \notin resent => \A k \in Keys : Rows(r, k, "failed") <= Unwritten(r, k)
    /\ IsStock /\ Undisputed(r) => \A k \in Keys : Rows(r, k, "failed") >= Unwritten(r, k)

UpsertInv == UpsertTypeOK /\ Untouched /\ \A r \in DOMAIN reports : Honest(r)

\* Where a run is in the requests.
LEMMA WhileSending ==
    ASSUME UpsertTypeOK
    PROVE  /\ Len(reports) \in Nat /\ DOMAIN reports = 1 .. Len(reports) /\ Now \in Nat /\ Now = Len(reports) + 1
           /\ Len(chunks) \in Nat /\ DOMAIN chunks = 1 .. Len(chunks)
           /\ \A r \in DOMAIN reports : r \in DOMAIN chunks /\ r < Now
           /\ at = "sending" => Now \in DOMAIN chunks /\ Now <= Len(chunks) /\ IsRequest(Chunk)
           /\ \A r, q \in DOMAIN chunks : \A i \in Range(chunks[r]) : i \in Range(chunks[q]) => r = q
           /\ \A r \in DOMAIN chunks : Range(chunks[r]) \subseteq DOMAIN file
<1>1. /\ Len(chunks) \in Nat \ {0} /\ DOMAIN chunks = 1 .. Len(chunks)
      /\ \A r \in DOMAIN chunks : IsRequest(chunks[r])
      /\ \A r, q \in DOMAIN chunks : \A i \in Range(chunks[r]) : i \in Range(chunks[q]) => r = q
  BY Requests DEF UpsertTypeOK
<1>2. Len(reports) \in Nat /\ DOMAIN reports = 1 .. Len(reports) /\ Len(reports) <= Len(chunks)
  BY DEF UpsertTypeOK
<1>3. Now \in Nat /\ Now = Len(reports) + 1
  BY <1>2 DEF Now
<1>4. \A r \in DOMAIN reports : r \in DOMAIN chunks /\ r < Now
  BY <1>1, <1>2, <1>3
<1>5. at = "sending" => Now \in DOMAIN chunks /\ Now <= Len(chunks)
  BY <1>1, <1>2, <1>3 DEF UpsertTypeOK
<1>6. at = "sending" => IsRequest(Chunk)
  BY <1>1, <1>5 DEF Chunk
<1>7. \A r \in DOMAIN chunks : Range(chunks[r]) \subseteq DOMAIN file
  BY <1>1 DEF IsRequest
<1>8. QED
  BY <1>1, <1>2, <1>3, <1>4, <1>5, <1>6, <1>7

\* Carrying out entries of the present request leaves those of others as they are.
LEMMA OthersLanded ==
    ASSUME UpsertTypeOK, at = "sending", file' = file, chunks' = chunks,
           NEW done \in SUBSET Range(Chunk),
           landed' = [i \in DOMAIN file |-> IF i \in done THEN landed[i] + 1 ELSE landed[i]]
    PROVE  /\ landed' \in [DOMAIN file -> Nat]
           /\ \A r \in DOMAIN chunks \ {Now} :
                /\ \A i \in Range(chunks[r]) : landed'[i] = landed[i]
                /\ \A k : Unwritten(r, k)' = Unwritten(r, k)
<1>1. landed' \in [DOMAIN file -> Nat]
  BY DEF UpsertTypeOK
<1>2. ASSUME NEW r \in DOMAIN chunks \ {Now}, NEW i \in Range(chunks[r]) PROVE landed'[i] = landed[i]
  <2>1. i \in DOMAIN file /\ i \notin Range(chunks[Now])
    BY WhileSending
  <2>2. i \notin done
    BY <2>1 DEF Chunk
  <2>3. QED
    BY <2>1, <2>2
<1>3. ASSUME NEW r \in DOMAIN chunks \ {Now}, NEW k PROVE Unwritten(r, k)' = Unwritten(r, k)
  <2>1. {i \in Range(chunks[r]) : file[i].key = k /\ landed'[i] = 0}
          = {i \in Range(chunks[r]) : file[i].key = k /\ landed[i] = 0}
    BY <1>2
  <2>2. QED
    BY <2>1 DEF Unwritten
<1>4. QED
  BY <1>1, <1>2, <1>3

\* A request that is settled is told of as it was carried out, and the others as before.
LEMMA SettleStep ==
    ASSUME UpsertInv, Send, NEW done \in SUBSET Range(Chunk), CarryOut(done),
           NEW rows, Tells(rows, Chunk, done), Settle(rows)
    PROVE  UpsertInv'
<1>1. at = "sending" /\ file' = file /\ chunks' = chunks /\ resent \subseteq resent' /\ (sent > 0 => Now \in resent')
  <2>1. resent' = IF sent > 0 THEN resent \union {Now} ELSE resent
    BY DEF Send
  <2>2. QED
    BY <2>1 DEF Send
<1>2. UpsertTypeOK
  BY DEF UpsertInv
<1>3. landed' = [i \in DOMAIN file |-> IF i \in done THEN landed[i] + 1 ELSE landed[i]]
  BY DEF CarryOut
<1>4. /\ landed' \in [DOMAIN file -> Nat]
      /\ \A r \in DOMAIN chunks \ {Now} :
           /\ \A i \in Range(chunks[r]) : landed'[i] = landed[i]
           /\ \A k : Unwritten(r, k)' = Unwritten(r, k)
  BY <1>1, <1>2, <1>3, OthersLanded
<1>5. reports' = Append(reports, rows) /\ sent' = 0 /\ at' = IF Now = Len(chunks) THEN "done" ELSE at
  BY DEF Settle
<1>6. rows \in Seq(ReportRow) /\ reports \in Seq(Seq(ReportRow))
  BY <1>2 DEF Tells, UpsertTypeOK
<1>7. /\ Len(reports) \in Nat /\ DOMAIN reports = 1 .. Len(reports) /\ Now \in Nat /\ Now = Len(reports) + 1
      /\ Len(chunks) \in Nat /\ DOMAIN chunks = 1 .. Len(chunks)
      /\ \A r \in DOMAIN reports : r \in DOMAIN chunks /\ r < Now
      /\ Now \in DOMAIN chunks /\ Now <= Len(chunks)
      /\ IsRequest(Chunk)
  BY <1>1, <1>2, WhileSending
<1>8. /\ reports' \in Seq(Seq(ReportRow)) /\ Len(reports') = Now /\ DOMAIN reports' = 1 .. Now
      /\ reports'[Now] = rows
      /\ \A r \in DOMAIN reports : reports'[r] = reports[r]
  <2> DEFINE X == Seq(ReportRow)
  <2> HIDE DEF X
  <2>1. reports \in Seq(X) /\ rows \in X
    BY <1>6 DEF X
  <2>2. /\ Append(reports, rows) \in Seq(X) /\ Len(Append(reports, rows)) = Len(reports) + 1
        /\ Append(reports, rows)[Len(reports) + 1] = rows
        /\ \A r \in 1 .. Len(reports) : Append(reports, rows)[r] = reports[r]
    BY <2>1
  <2>3. /\ reports' \in Seq(X) /\ Len(reports') = Now /\ reports'[Now] = rows
        /\ \A r \in DOMAIN reports : reports'[r] = reports[r]
    BY <1>5, <1>7, <2>2
  <2>4. DOMAIN reports' = 1 .. Now
    BY <2>3
  <2>5. QED
    BY <2>3, <2>4 DEF X
<1>9. Now' = Now + 1
  BY <1>8 DEF Now
<1>10. UpsertTypeOK'
  <2>1. at' \in {"sending", "done", "aborted"} /\ (at' = "sending" => Now < Len(chunks))
    <3>1. CASE Now = Len(chunks)
      BY <1>5, <3>1
    <3>2. CASE Now # Len(chunks)
      <4>1. at' = at /\ Now < Len(chunks)
        <5>1. at' = at
          BY <1>5, <3>2
        <5>2. Now < Len(chunks)
          <6>1. Now \in Nat /\ Len(chunks) \in Nat /\ Now <= Len(chunks)
            BY <1>7
          <6>2. QED
            BY ONLY <3>2, <6>1
        <5>3. QED
          BY <5>1, <5>2
      <4>2. QED
        BY <1>1, <4>1
    <3>3. QED
      BY <3>1, <3>2
  <2>2. chunks' = Split(file') /\ file' \in StockFiles \union ListingFiles
    <3>1. chunks = Split(file) /\ file \in StockFiles \union ListingFiles
      BY <1>2 DEF UpsertTypeOK
    <3>2. QED
      BY <1>1, <3>1
  <2>3. sent' \in Nat /\ landed' \in [DOMAIN file' -> Nat]
    BY <1>1, <1>4, <1>5
  <2>4. Len(reports') <= Len(chunks') /\ (at' = "sending" => Len(reports') < Len(chunks'))
    BY <1>1, <1>7, <1>8, <2>1
  <2> HIDE DEF ReportRow
  <2>5. QED
    BY <1>8, <2>1, <2>2, <2>3, <2>4 DEF UpsertTypeOK
<1>11. Untouched'
  <2>1. SUFFICES ASSUME NEW r \in DOMAIN chunks, r > Now + 1 \/ r = Now + 1, NEW i \in Range(chunks[r])
                 PROVE  landed'[i] = 0
    BY <1>1, <1>9 DEF Untouched
  <2>2. r > Now /\ r # Now
    BY <1>7, <2>1
  <2>3. landed[i] = 0
    BY <2>2 DEF UpsertInv, Untouched
  <2>4. QED
    BY <1>4, <2>2, <2>3
<1>12. IsStock' = IsStock /\ Keys' = Keys
  BY <1>1 DEF IsStock, Keys
<1>13. ASSUME NEW r \in DOMAIN reports PROVE Honest(r)'
  <2>1. r \in DOMAIN chunks \ {Now} /\ reports'[r] = reports[r]
    BY <1>7, <1>8
  <2>2. \A k : Unwritten(r, k)' = Unwritten(r, k) /\ Rows(r, k, "failed")' = Rows(r, k, "failed")
    <3>1. \A k : Unwritten(r, k)' = Unwritten(r, k)
      BY <1>4, <2>1
    <3>2. \A k : Rows(r, k, "failed")' = Rows(r, k, "failed")
      BY <2>1 DEF Rows
    <3>3. QED
      BY <3>1, <3>2
  <2>3. (r \notin resent' => r \notin resent) /\ (Undisputed(r)' => Undisputed(r))
    BY <1>1, <2>1 DEF Undisputed
  <2>4. Honest(r)
    BY DEF UpsertInv
  <2>5. QED
    BY <1>12, <2>2, <2>3, <2>4 DEF Honest
<1>14. ASSUME NEW n \in Nat, n = Now PROVE Honest(n)'
  <2>1. CASE n \in resent'
    BY <2>1 DEF Honest, Undisputed
  <2>2. CASE n \notin resent'
    <3>1. sent = 0
      <4>1. ~(sent > 0) /\ sent \in Nat
        BY <1>1, <1>2, <1>14, <2>2 DEF UpsertTypeOK
      <4>2. QED
        BY <4>1
    <3>2. \A i \in Range(Chunk) : landed[i] = 0
      BY <1>7, <3>1 DEF UpsertInv, Untouched, Chunk
    <3>3. \A i \in Range(Chunk) : landed'[i] = 0 <=> i \notin done
      <4>1. Range(Chunk) \subseteq DOMAIN file
        BY <1>7 DEF IsRequest
      <4>2. QED
        BY <1>3, <3>2, <4>1
    <3>4. chunks'[n] = Chunk /\ reports'[n] = rows
      BY <1>1, <1>8, <1>14 DEF Chunk
    <3>5. ASSUME NEW k PROVE Unwritten(n, k)' = Cardinality(LeftOut(Chunk, done, k))
      <4>1. {i \in Range(Chunk) : file[i].key = k /\ landed'[i] = 0} = LeftOut(Chunk, done, k)
        BY <3>3 DEF LeftOut
      <4>2. QED
        BY <1>1, <3>4, <4>1 DEF Unwritten
    <3>6. \A k : Rows(n, k, "failed")' = Cardinality(FailedRows(rows, k))
      BY <3>4 DEF Rows, FailedRows, FailedRow
    <3>7. Undisputed(n)' => \A j \in DOMAIN rows : rows[j].status # "unknown"
      BY <3>4 DEF Undisputed
    <3>8. QED
      BY <1>12, <3>5, <3>6, <3>7 DEF Honest, Tells
  <2>3. QED
    BY <2>1, <2>2
<1>15. \A r \in DOMAIN reports' : r \in DOMAIN reports \/ (r \in Nat /\ r = Now)
  BY <1>7, <1>8
<1>16. \A r \in DOMAIN reports' : Honest(r)'
  BY <1>13, <1>14, <1>15
<1>17. QED
  BY <1>10, <1>11, <1>16 DEF UpsertInv

\* The invariant holds of a run that has sent nothing.
LEMMA UpsertInitially == UpsertInit => UpsertInv
<1>1. SUFFICES ASSUME UpsertInit PROVE UpsertInv
  OBVIOUS
<1>2. reports = <<>> /\ sent = 0 /\ at = "sending" /\ file \in StockFiles \union ListingFiles /\ chunks = Split(file)
  BY <1>1 DEF UpsertInit
<1>3. Len(chunks) \in Nat \ {0} /\ \A r \in DOMAIN chunks : Range(chunks[r]) \subseteq DOMAIN file
  BY <1>2, Requests DEF IsRequest
<1>4. landed = [i \in DOMAIN file |-> 0]
  BY <1>1 DEF UpsertInit
<1>5. UpsertTypeOK
  <2>1. reports \in Seq(Seq(ReportRow)) /\ Len(reports) = 0
    BY <1>2
  <2>2. landed \in [DOMAIN file -> Nat]
    BY <1>4
  <2> HIDE DEF ReportRow
  <2>3. Len(reports) <= Len(chunks) /\ Len(reports) < Len(chunks)
    BY <1>3, <2>1
  <2>4. QED
    BY <1>2, <2>1, <2>2, <2>3 DEF UpsertTypeOK
<1>6. Untouched
  BY <1>3, <1>4 DEF Untouched
<1>7. \A r \in DOMAIN reports : Honest(r)
  BY <1>2
<1>8. QED
  BY <1>5, <1>6, <1>7 DEF UpsertInv

\* A 2xx keeps it.
LEMMA AcceptedStep == UpsertInv /\ Accepted => UpsertInv'
<1>1. SUFFICES ASSUME UpsertInv, Accepted PROVE UpsertInv'
  OBVIOUS
<1>2. Send
  BY <1>1 DEF Accepted
<1>3. PICK done \in SUBSET Range(Chunk) :
        CarryOut(done) /\ (Settle(Reconcile(Chunk, done)) \/ Settle(All(Chunk, "unknown")))
  BY <1>1 DEF Accepted
<1>4. IsRequest(Chunk) /\ file \in StockFiles \union ListingFiles
  BY <1>1, <1>2, WhileSending DEF Send, UpsertInv, UpsertTypeOK
<1>5. Tells(Reconcile(Chunk, done), Chunk, done) /\ Tells(All(Chunk, "unknown"), Chunk, done)
  BY <1>4, ReconcileTells, AllTells
<1>6. CASE Settle(Reconcile(Chunk, done))
  BY <1>1, <1>2, <1>3, <1>5, <1>6, SettleStep
<1>7. CASE Settle(All(Chunk, "unknown"))
  BY <1>1, <1>2, <1>3, <1>5, <1>7, SettleStep
<1>8. QED
  BY <1>3, <1>6, <1>7

\* So does a refusal.
LEMMA RejectedStep == UpsertInv /\ Rejected => UpsertInv'
<1>1. SUFFICES ASSUME UpsertInv, Rejected PROVE UpsertInv'
  OBVIOUS
<1>2. Send /\ Settle(All(Chunk, "failed")) /\ landed' = landed
  BY <1>1 DEF Rejected
<1>3. IsRequest(Chunk) /\ file \in StockFiles \union ListingFiles /\ landed \in [DOMAIN file -> Nat]
  BY <1>1, <1>2, WhileSending DEF Send, UpsertInv, UpsertTypeOK
<1>4. {} \in SUBSET Range(Chunk) /\ CarryOut({})
  <2>1. landed = [i \in DOMAIN file |-> landed[i]]
    BY <1>3
  <2>2. \A i : i \notin {}
    OBVIOUS
  <2>3. landed' = [i \in DOMAIN file |-> IF i \in {} THEN landed[i] + 1 ELSE landed[i]]
    BY <1>2, <2>1, <2>2
  <2>4. QED
    BY <2>3 DEF CarryOut
<1>5. Tells(All(Chunk, "failed"), Chunk, {})
  BY <1>3, AllTells
<1>6. QED
  BY <1>1, <1>2, <1>4, <1>5, SettleStep

\* And an answer that is lost.
LEMMA LostStep == UpsertInv /\ Lost => UpsertInv'
<1>1. SUFFICES ASSUME UpsertInv, Lost PROVE UpsertInv'
  OBVIOUS
<1>2. /\ at = "sending" /\ file' = file /\ chunks' = chunks /\ reports' = reports /\ resent \subseteq resent'
      /\ sent' = sent + 1 /\ at' = IF sent' = MaxSends THEN "aborted" ELSE at
  <2>1. resent' = IF sent > 0 THEN resent \union {Now} ELSE resent
    BY <1>1 DEF Lost, Send
  <2>2. QED
    BY <1>1, <2>1 DEF Lost, Send
<1>3. UpsertTypeOK
  BY <1>1 DEF UpsertInv
<1>4. PICK done \in SUBSET Range(Chunk) : CarryOut(done)
  <2>1. PICK done \in {{}, Range(Chunk)} : CarryOut(done)
    BY <1>1 DEF Lost
  <2>2. done \in SUBSET Range(Chunk)
    OBVIOUS
  <2>3. QED
    BY <2>1, <2>2
<1>5. /\ landed' \in [DOMAIN file -> Nat]
      /\ \A r \in DOMAIN chunks \ {Now} :
           /\ \A i \in Range(chunks[r]) : landed'[i] = landed[i]
           /\ \A k : Unwritten(r, k)' = Unwritten(r, k)
  BY <1>2, <1>3, <1>4, OthersLanded DEF CarryOut
<1>6. sent' \in Nat /\ sent' # 0 /\ Now' = Now
  BY <1>2, <1>3 DEF UpsertTypeOK, Now
<1>7. UpsertTypeOK'
  <2>1. /\ chunks' = Split(file') /\ file' \in StockFiles \union ListingFiles
        /\ reports' \in Seq(Seq(ReportRow)) /\ Len(reports') <= Len(chunks') /\ Len(reports') < Len(chunks')
    <3> HIDE DEF ReportRow
    <3>1. /\ chunks = Split(file) /\ file \in StockFiles \union ListingFiles
          /\ reports \in Seq(Seq(ReportRow)) /\ Len(reports) <= Len(chunks) /\ Len(reports) < Len(chunks)
      BY <1>2, <1>3 DEF UpsertTypeOK
    <3>2. QED
      BY <1>2, <3>1
  <2>2. at' \in {"sending", "done", "aborted"} /\ landed' \in [DOMAIN file' -> Nat]
    BY <1>2, <1>5
  <2> HIDE DEF ReportRow
  <2>3. QED
    BY <1>6, <2>1, <2>2 DEF UpsertTypeOK
<1>8. Untouched'
  <2>1. SUFFICES ASSUME NEW r \in DOMAIN chunks, r > Now, NEW i \in Range(chunks[r])
                 PROVE  landed'[i] = 0
    BY <1>2, <1>6 DEF Untouched
  <2>2. r # Now
    BY <1>3, <2>1, WhileSending
  <2>3. landed[i] = 0
    BY <1>1, <2>1 DEF UpsertInv, Untouched
  <2>4. QED
    BY <1>5, <2>2, <2>3
<1>9. ASSUME NEW r \in DOMAIN reports PROVE Honest(r)'
  <2>1. r \in DOMAIN chunks \ {Now}
    BY <1>3, WhileSending
  <2>2. \A k : Unwritten(r, k)' = Unwritten(r, k)
    BY <1>5, <2>1
  <2>3. \A k : Rows(r, k, "failed")' = Rows(r, k, "failed")
    BY <1>2 DEF Rows
  <2>4. (r \notin resent' => r \notin resent) /\ (Undisputed(r)' => Undisputed(r))
    BY <1>2 DEF Undisputed
  <2>5. IsStock' = IsStock /\ Keys' = Keys
    BY <1>2 DEF IsStock, Keys
  <2>6. Honest(r)
    BY <1>1 DEF UpsertInv
  <2>7. QED
    BY <2>2, <2>3, <2>4, <2>5, <2>6 DEF Honest
<1>10. QED
  BY <1>2, <1>7, <1>8, <1>9 DEF UpsertInv

\* A run that stops where it is keeps it too.
LEMMA SameUpsert ==
    ASSUME UpsertInv, file' = file, chunks' = chunks, sent' = sent, resent' = resent, landed' = landed,
           reports' = reports, at' = at \/ at' = "aborted"
    PROVE  UpsertInv'
<1>1. UpsertTypeOK'
  <2> HIDE DEF ReportRow
  <2>1. QED
    BY DEF UpsertInv, UpsertTypeOK
<1>2. Now' = Now /\ IsStock' = IsStock /\ Keys' = Keys
  BY DEF Now, IsStock, Keys
<1>3. Untouched'
  BY <1>2 DEF UpsertInv, Untouched
<1>4. \A r : Undisputed(r)' = Undisputed(r)
  BY DEF Undisputed
<1>5. \A r, k : Unwritten(r, k)' = Unwritten(r, k) /\ Rows(r, k, "failed")' = Rows(r, k, "failed")
  BY DEF Unwritten, Rows
<1>6. \A r \in DOMAIN reports' : Honest(r)'
  BY <1>2, <1>4, <1>5 DEF UpsertInv, Honest
<1>7. QED
  BY <1>1, <1>3, <1>6 DEF UpsertInv

\* Every step keeps the invariant.
LEMMA UpsertPreserved == UpsertInv /\ [UpsertNext]_upsertVars => UpsertInv'
<1>1. SUFFICES ASSUME UpsertInv, [UpsertNext]_upsertVars PROVE UpsertInv'
  OBVIOUS
<1>2. CASE Accepted
  BY <1>1, <1>2, AcceptedStep
<1>3. CASE Rejected
  BY <1>1, <1>3, RejectedStep
<1>4. CASE Lost
  BY <1>1, <1>4, LostStep
<1>5. CASE Abort
  BY <1>1, <1>5, SameUpsert DEF Abort
<1>6. CASE UNCHANGED upsertVars
  BY <1>1, <1>6, SameUpsert DEF upsertVars
<1>7. QED
  BY <1>1, <1>2, <1>3, <1>4, <1>5, <1>6 DEF UpsertNext

\* What the four theorems below are part of.
THEOREM UpsertInvariant == UpsertSpec => []UpsertInv
<1>1. QED
  BY UpsertInitially, UpsertPreserved, PTL DEF UpsertSpec

\* The report is of requests that were made, and a run that goes on has one left to send.
THEOREM UpsertTypes == UpsertSpec => []UpsertTypeOK
<1>1. UpsertInv => UpsertTypeOK
  BY DEF UpsertInv
<1>2. QED
  BY <1>1, UpsertInvariant, PTL

\* Whatever the file, no request is too large, and none could take the next one's first entry.
THEOREM UpsertRequestsFit == UpsertSpec => []RequestsFit
<1>1. UpsertInv => RequestsFit
  BY SplitFits DEF UpsertInv, UpsertTypeOK
<1>2. QED
  BY <1>1, UpsertInvariant, PTL

\* Of no key does the report call more entries failed than were left out.
THEOREM FailedMayBeResent == UpsertSpec => []FailedIsSafeToResend
<1>1. UpsertInv => FailedIsSafeToResend
  BY DEF UpsertInv, Honest, FailedIsSafeToResend
<1>2. QED
  BY <1>1, UpsertInvariant, PTL

\* Of no stock does it call fewer failed, unless it says that it does not know.
THEOREM NoStockIsDroppedUnsaid == UpsertSpec => []DroppedStocksAreReported
<1>1. UpsertInv => DroppedStocksAreReported
  BY DEF UpsertInv, Honest, DroppedStocksAreReported
<1>2. QED
  BY <1>1, UpsertInvariant, PTL

----------------------------------------------------------------------------
(* What is made twice *)

\* Only Do's own retry makes anything twice: an entry of a request that was sent once is
\* carried out once at most.
TwiceOnlyIfResent ==
    \A r \in DOMAIN chunks \ resent : \A i \in Range(chunks[r]) : landed[i] <= 1

\* A step that sends may carry out the entries of the request it sends, and no others.
LEMMA SentOnce ==
    ASSUME UpsertInv, TwiceOnlyIfResent, Send, NEW done \in SUBSET Range(Chunk), CarryOut(done)
    PROVE  TwiceOnlyIfResent'
<1>1. UpsertTypeOK
  BY DEF UpsertInv
<1>2. /\ at = "sending" /\ file' = file /\ chunks' = chunks
      /\ resent' = IF sent > 0 THEN resent \union {Now} ELSE resent
  BY DEF Send
<1>3. landed' = [i \in DOMAIN file |-> IF i \in done THEN landed[i] + 1 ELSE landed[i]]
  BY DEF CarryOut
<1>4. \A r \in DOMAIN chunks \ {Now} : \A i \in Range(chunks[r]) : landed'[i] = landed[i]
  BY <1>1, <1>2, <1>3, OthersLanded
<1>5. SUFFICES ASSUME NEW r \in DOMAIN chunks \ resent', NEW i \in Range(chunks[r])
               PROVE  landed'[i] <= 1
  BY <1>2 DEF TwiceOnlyIfResent
<1>6. r \notin resent
  BY <1>2
<1>7. CASE r # Now
  BY <1>4, <1>6, <1>7 DEF TwiceOnlyIfResent
<1>8. CASE r = Now
  <2>1. sent = 0
    BY <1>1, <1>2, <1>5, <1>8 DEF UpsertTypeOK
  <2>2. landed[i] = 0
    BY <1>5, <1>8, <2>1 DEF UpsertInv, Untouched
  <2>3. i \in DOMAIN file
    BY <1>1, <1>5, WhileSending
  <2>4. QED
    BY <1>3, <2>2, <2>3
<1>9. QED
  BY <1>7, <1>8

\* Every step keeps to it.
LEMMA OncePreserved ==
    UpsertInv /\ TwiceOnlyIfResent /\ [UpsertNext]_upsertVars => TwiceOnlyIfResent'
<1>1. SUFFICES ASSUME UpsertInv, TwiceOnlyIfResent, [UpsertNext]_upsertVars
               PROVE  TwiceOnlyIfResent'
  OBVIOUS
<1>2. CASE Accepted
  <2>1. Send /\ \E done \in SUBSET Range(Chunk) : CarryOut(done)
    BY <1>2 DEF Accepted
  <2>2. QED
    BY <1>1, <2>1, SentOnce
<1>3. CASE Rejected
  <2>1. /\ chunks' = chunks /\ landed' = landed
        /\ resent' = IF sent > 0 THEN resent \union {Now} ELSE resent
    BY <1>3 DEF Rejected, Send
  <2>2. QED
    BY <1>1, <2>1 DEF TwiceOnlyIfResent
<1>4. CASE Lost
  <2>1. Send /\ \E done \in {{}, Range(Chunk)} : CarryOut(done)
    BY <1>4 DEF Lost
  <2>2. \E done \in SUBSET Range(Chunk) : CarryOut(done)
    BY <2>1
  <2>3. QED
    BY <1>1, <2>1, <2>2, SentOnce
<1>5. CASE Abort \/ UNCHANGED upsertVars
  BY <1>1, <1>5 DEF Abort, upsertVars, TwiceOnlyIfResent
<1>6. QED
  BY <1>1, <1>2, <1>3, <1>4, <1>5 DEF UpsertNext

\* Nothing of a request that was sent once is made twice: whatever breaks
\* StocksAreMadeOnce, Do's second send of a PUT does.
THEOREM MadeTwiceOnlyIfResent == UpsertSpec => []TwiceOnlyIfResent
<1>1. UpsertInit => TwiceOnlyIfResent
  <2>1. SUFFICES ASSUME UpsertInit PROVE TwiceOnlyIfResent
    OBVIOUS
  <2>2. UpsertInv /\ landed = [i \in DOMAIN file |-> 0]
    BY <2>1, UpsertInitially DEF UpsertInit
  <2>3. \A r \in DOMAIN chunks : Range(chunks[r]) \subseteq DOMAIN file
    BY <2>2, WhileSending DEF UpsertInv
  <2>4. QED
    BY <2>2, <2>3 DEF TwiceOnlyIfResent
<1>2. QED
  BY <1>1, OncePreserved, UpsertInvariant, PTL DEF UpsertSpec
=============================================================================
