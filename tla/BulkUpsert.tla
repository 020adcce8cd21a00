------------------------------ MODULE BulkUpsert ------------------------------
(***************************************************************************)
(* `fft stock upsert` and `fft listing upsert` (cmd/fft): the entries of a *)
(* file are split into requests the API accepts, the requests are sent one *)
(* after the other, and a report says of every entry what became of it.    *)
(* The answer names only what was written, so the report is reckoned from  *)
(* what was sent and what was answered; and a user re-sends what it calls  *)
(* failed, which for a stock without an id makes a second one if the first *)
(* was written after all.                                                  *)
(***************************************************************************)
EXTENDS Naturals, Sequences, FiniteSets, SequencesExt, Sublists

CONSTANTS Articles,   \* tenant article ids
          StockIDs,   \* ids of stocks that exist already
          Budget,     \* maxStockUpsert; maxBulkBudget for listings
          MaxCost,    \* the most facilities a listing names (MaxCost <= Budget: else a usage error)
          MaxEntries, \* entries of a file
          MaxSends    \* attempts of one request (client.maxAttempts)

ASSUME BudgetIsEnough == Budget \in Nat /\ MaxCost \in 1..Budget

VARIABLES
  file,    \* the entries
  chunks,  \* the requests: sequences of positions in the file
  sent,    \* how often the present request has been sent
  resent,  \* history: the requests that were sent more than once
  landed,  \* history: how often the tenant carried out each entry
  reports, \* the rows of each request that is settled
  at       \* "sending", "done", "aborted"

upsertVars == <<file, chunks, sent, resent, landed, reports, at>>

Creates  == [op : {"create"}, key : Articles, cost : {1}]
Updates  == [op : {"update"}, key : StockIDs, cost : {1}]
Listings == [op : {"listing"}, key : Articles, cost : 1..MaxCost]

\* parseStockEntries refuses a stock that is named twice; parseUpsertEntries has no such rule.
StockFiles ==
  {f \in UNION {[1..n -> Creates \cup Updates] : n \in 1..MaxEntries} :
     \A i, j \in DOMAIN f : f[i].op = "update" /\ f[i] = f[j] => i = j}
ListingFiles == UNION {[1..n -> Listings] : n \in 1..MaxEntries}

------------------------------------------------------------------------------
(* Splitting.                                                              *)

Costs(f, chunk) == {f[i].cost : i \in Range(chunk)}
Product(f, chunk) == Len(chunk) * (CHOOSE m \in Costs(f, chunk) : \A c \in Costs(f, chunk) : c <= m)
Fits(f, chunk) == Product(f, chunk) <= Budget

\* Splitting by the sum of the costs, the laxer reading of the budget.
SplitBySum(f) ==
  FoldLeft(LAMBDA acc, i :
             IF acc # <<>> /\ FoldLeft(LAMBDA sum, j : sum + f[j].cost, f[i].cost, Last(acc)) <= Budget
             THEN [acc EXCEPT ![Len(acc)] = Append(@, i)]
             ELSE Append(acc, <<i>>),
           <<>>, [i \in DOMAIN f |-> i])

\* chunkUpsert: an entry that would break the budget begins the next request. With
\* every cost 1, as a stock's, this is slices.Chunk.
Split(f) ==
  FoldLeft(LAMBDA acc, i :
             IF acc # <<>> /\ Fits(f, Append(Last(acc), i))
             THEN [acc EXCEPT ![Len(acc)] = Append(@, i)]
             ELSE Append(acc, <<i>>),
           <<>>, [i \in DOMAIN f |-> i])

UpsertInit ==
  /\ file \in StockFiles \cup ListingFiles
  /\ chunks = Split(file)
  /\ sent = 0 /\ resent = {} /\ reports = <<>> /\ at = "sending"
  /\ landed = [i \in DOMAIN file |-> 0]

------------------------------------------------------------------------------
(* The report of a request.                                                *)

Now == Len(reports) + 1
Chunk == chunks[Now]
Row(i, status) == [key |-> file[i].key, status |-> status]
All(chunk, status) == [j \in DOMAIN chunk |-> Row(chunk[j], status)]
Before(chunk, i) == {j \in Range(chunk) : j < i /\ file[j].key = file[i].key}

\* upsertChunkResults: an entry whose key the answer does not name has failed.
UnnamedBySet(chunk, written) ==
  Sublist(chunk, {i \in Range(chunk) : \A j \in written : file[j].key # file[i].key})

\* stockChunkResults: each answered result accounts for one entry of its key, the first
\* that is left.
UnnamedByCount(chunk, written) ==
  Sublist(chunk, {i \in Range(chunk) :
    Cardinality(Before(chunk, i)) >= Cardinality({j \in written : file[j].key = file[i].key})})

UnnamedAlwaysBySet(chunk, written) == UnnamedBySet(chunk, written)
Unnamed(chunk, written) ==
  IF file[chunk[1]].op = "listing" THEN UnnamedBySet(chunk, written) ELSE UnnamedByCount(chunk, written)

Reconcile(chunk, written) ==
  All(Sublist(chunk, written), "written") \o All(Unnamed(chunk, written), "failed")

------------------------------------------------------------------------------
(* Sending.                                                                *)

\* Do may send a PUT again; resent remembers it.
Send ==
  /\ at = "sending"
  /\ resent' = IF sent > 0 THEN resent \cup {Now} ELSE resent
  /\ UNCHANGED <<file, chunks>>

\* The tenant carries out some of the entries of a request, or none.
CarryOut(written) ==
  landed' = [i \in DOMAIN file |-> IF i \in written THEN landed[i] + 1 ELSE landed[i]]

\* What is known of the request goes into the report, and the next one is due.
Settle(rows) ==
  /\ reports' = Append(reports, rows) /\ sent' = 0
  /\ at' = IF Now = Len(chunks) THEN "done" ELSE at

\* A 2xx whose body cannot be read, taken for a failure.
AcceptedUnreadIsFailed ==
  /\ Send
  /\ \E written \in SUBSET Range(Chunk) :
       /\ CarryOut(written)
       /\ Settle(Reconcile(Chunk, written)) \/ Settle(All(Chunk, "failed"))

\* A 2xx: what was written is answered, or the answer cannot be read.
Accepted ==
  /\ Send
  /\ \E written \in SUBSET Range(Chunk) :
       /\ CarryOut(written)
       /\ Settle(Reconcile(Chunk, written)) \/ Settle(All(Chunk, "unknown"))

\* chunkRejected: a 400, 404, 409 or 422 is about these entries; none of them is written.
Rejected == Send /\ Settle(All(Chunk, "failed")) /\ UNCHANGED landed

\* The answer is lost, or a 5xx: the entries may have been written. Do sends them again.
Lost ==
  /\ Send /\ sent' = sent + 1
  /\ \E written \in {{}, Range(Chunk)} : CarryOut(written)
  /\ at' = IF sent' = MaxSends THEN "aborted" ELSE at
  /\ UNCHANGED reports

\* A token refused, a rate limit or the command's timeout: the run stops here, and
\* reportAborted prints what there is.
Abort ==
  /\ at = "sending" /\ at' = "aborted"
  /\ UNCHANGED <<file, chunks, sent, resent, landed, reports>>

UpsertNext == Accepted \/ Rejected \/ Lost \/ Abort

UpsertSpec == UpsertInit /\ [][UpsertNext]_upsertVars

------------------------------------------------------------------------------
Rows(r, k, status) == Cardinality({j \in DOMAIN reports[r] : reports[r][j] = [key |-> k, status |-> status]})
Unwritten(r, k)    == Cardinality({i \in Range(chunks[r]) : file[i].key = k /\ landed[i] = 0})
Undisputed(r)      == r \notin resent /\ \A j \in DOMAIN reports[r] : reports[r][j].status # "unknown"
IsStock            == file[1].op # "listing"
Keys               == {file[i].key : i \in DOMAIN file}

(* What is called FAILED may be sent again: of no key does the report call *)
(* more entries failed than the tenant has left out, however many entries  *)
(* share the key and wherever the run stopped. (Of a request that was sent *)
(* twice the report can be wrong: see StocksAreMadeOnce.)                  *)
FailedIsSafeToResend ==
  \A r \in DOMAIN reports \ resent : \A k \in Keys : Rows(r, k, "failed") <= Unwritten(r, k)

(* A stock the API accepted and silently left out is reported, also when   *)
(* another entry of its article, or an update beside a create, was written.*)
DroppedStocksAreReported ==
  IsStock => \A r \in DOMAIN reports : Undisputed(r) =>
    \A k \in Keys : Rows(r, k, "failed") >= Unwritten(r, k)

(* No request is refused for its size, whichever way the API reckons it,   *)
(* and none is lost, reordered or sent with fewer entries than would fit.  *)
RequestsFit ==
  /\ FlattenSeq(chunks) = [i \in DOMAIN file |-> i]
  /\ \A r \in DOMAIN chunks :
       /\ chunks[r] # <<>> /\ Fits(file, chunks[r])
       /\ r < Len(chunks) => ~Fits(file, Append(chunks[r], chunks[r + 1][1]))

(* "Re-sending a stock entry that has no id creates a second stock", so    *)
(* fft never does it by itself. Its client does: the upsert is a PUT, and  *)
(* a PUT whose answer was lost is sent again.                              *)
StocksAreMadeOnce == \A i \in DOMAIN file : file[i].op = "create" => landed[i] <= 1

(* The same as DroppedStocksAreReported for listings, where it fails: one  *)
(* answer for an article accounts for every entry of that article.         *)
DroppedListingsAreReported ==
  ~IsStock => \A r \in DOMAIN reports : Undisputed(r) =>
    \A k \in Keys : Rows(r, k, "failed") >= Unwritten(r, k)
=============================================================================
