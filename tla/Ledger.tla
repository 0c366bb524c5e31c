------------------------------- MODULE Ledger -------------------------------
(***************************************************************************)
(* The transactions of one account: what a sync fetches, how normalizeBatch*)
(* identifies it, upsertTransactions and reconcilePending, row by row, next *)
(* to a bank whose purchases go from pending to settled on their own.      *)
(*                                                                         *)
(* A purchase is what really happened; the program never sees it, only the *)
(* bank's reports on it.  A row remembers the purchase whose report made   *)
(* it (field of), which no action reads.                                   *)
(*                                                                         *)
(* Abstractions.  The look of a report stands for its amount, description  *)
(* and merchant: what the fingerprint hashes and what `matches` compares.  *)
(* A look never changes, so of the fields hasChanges compares the status   *)
(* and the booked date are left.  Time is counted in days; a timestamp is  *)
(* a day and a rank within it.  The window of the settled fetch covers     *)
(* everything (SyncWindow is about the window).  Of the export to Actual,  *)
(* which has a module of its own, the writes to the rows and what arrives  *)
(* in Actual are kept, both in one step.                                   *)
(***************************************************************************)
EXTENDS Integers, FiniteSets

CONSTANTS
  Purchases,
  Look,         \* what a report on a purchase looks like
  Rank,         \* order of purchases made on the same day
  PendingId,    \* providerTransactionId while pending, None if it has none
  SettledId,    \* providerTransactionId once settled
  Midnights,    \* environment: how many midnights may fall into one sync
  Prompt,       \* environment: purchases that are not pending, and do not
                \* settle, later than LastDay
  MatchWindow,  \* MATCH_WINDOW_DAYS
  PendingExpiry,\* config.pendingExpiryDays
  HasExporter,  \* deps.actualExporter is configured
  MaxDay,       \* bound on the calendar
  None

ASSUME PurchasesAssumption == IsFiniteSet(Purchases)
ASSUME LedgerAssumption ==
  /\ Rank \in [Purchases -> Nat]
  /\ \A p, q \in Purchases : Rank[p] = Rank[q] => p = q
  /\ Prompt \subseteq Purchases
  /\ MatchWindow \in Nat /\ PendingExpiry \in Nat /\ MaxDay \in Nat
  /\ Midnights \in 0..PendingExpiry
  /\ HasExporter \in BOOLEAN

VARIABLES
  today,
  life,      \* bank: where each purchase is
  madeOn,    \* bank: the day it was made
  bookedOn,  \* bank: the date it reports for it
  leftOn,    \* bank: the day it left the pending feed
  rows,      \* table transactions, of this account
  actual,    \* Actual: <<imported_id, cleared>> of its entries
  phase,     \* what syncOneAccount does
  batch,     \* the reports fetched and not yet stored
  seen,      \* seenPendingIds
  todo,      \* pendings the loop of reconcilePending has not reached
  settled,   \* the settled rows it loaded
  claimed,   \* claimedSettledIds
  told,      \* history: <<purchase, status>> of the reports of the latest batch
  still,     \* history: has the bank stood still since the first fetch of the
             \* sync under way ("maybe"), or of a completed one ("yes")?
  nights     \* history: midnights in the sync under way, or in the latest one

bank   == <<today, life, madeOn, bookedOn, leftOn>>
memory == <<batch, seen, todo, settled, claimed>>
vars   == <<bank, rows, actual, phase, memory, told, still, nights>>

Lives == {"none", "pending", "limbo", "settled"}

Init ==
  /\ today = 0
  /\ life = [p \in Purchases |-> "none"]
  /\ madeOn = [p \in Purchases |-> 0]
  /\ bookedOn = [p \in Purchases |-> 0]
  /\ leftOn = [p \in Purchases |-> 0]
  /\ rows = {}
  /\ actual = {}
  /\ phase = "idle"
  /\ batch = {} /\ seen = {}
  /\ todo = {} /\ settled = {} /\ claimed = {}
  /\ told = {}
  /\ still = "no"
  /\ nights = 0

-----------------------------------------------------------------------------
(***************************************************************************)
(* The bank.                                                               *)
(***************************************************************************)

\* The history of a completed sync ends with the first change of the bank.
BankMoves ==
  /\ still' = "no"
  /\ phase' = IF phase = "done" THEN "idle" ELSE phase
  /\ told' = IF phase = "done" THEN {} ELSE told
  /\ UNCHANGED <<rows, actual, memory>>

\* A card authorization, or a payment that is settled at once.
Buy(p) ==
  /\ life[p] = "none"
  /\ \E fate \in {"pending", "settled"} : life' = [life EXCEPT ![p] = fate]
  /\ madeOn' = [madeOn EXCEPT ![p] = today]
  /\ bookedOn' = [bookedOn EXCEPT ![p] = today]
  /\ BankMoves
  /\ UNCHANGED <<today, nights, leftOn>>

\* The bank stops reporting an authorization: it was declined or has expired,
\* or its settlement is not there yet.
Vanish(p) ==
  /\ life[p] = "pending"
  /\ life' = [life EXCEPT ![p] = "limbo"]
  /\ leftOn' = [leftOn EXCEPT ![p] = today]
  /\ BankMoves
  /\ UNCHANGED <<today, nights, madeOn, bookedOn>>

\* A prompt purchase settles before its row could expire, even if the sync that
\* fetched its pending report lasts beyond midnight.
LastDay(p) == madeOn[p] + PendingExpiry - Midnights

\* It settles, with the date of the purchase or of the settlement.
Settle(p) ==
  /\ life[p] \in {"pending", "limbo"}
  /\ p \in Prompt => today <= LastDay(p)
  /\ life' = [life EXCEPT ![p] = "settled"]
  /\ \E day \in {madeOn[p], today} : bookedOn' = [bookedOn EXCEPT ![p] = day]
  /\ leftOn' = [leftOn EXCEPT ![p] = IF life[p] = "pending" THEN today ELSE @]
  /\ BankMoves
  /\ UNCHANGED <<today, nights, madeOn>>

\* Midnight may fall into a sync.
NextDay ==
  /\ today < MaxDay
  /\ \A p \in Prompt : life[p] = "pending" => today < LastDay(p)
  /\ \/ phase \in {"idle", "done"} /\ nights' = 0
     \/ phase \notin {"idle", "done"} /\ nights < Midnights /\ nights' = nights + 1
  /\ today' = today + 1
  /\ BankMoves
  /\ UNCHANGED <<life, madeOn, bookedOn, leftOn>>

\* What the bank reports of a purchase: see mapTransaction.
Report(p, status) ==
  [id     |-> IF status = "PENDING" THEN PendingId[p] ELSE SettledId[p],
   status |-> status,
   look   |-> Look[p],
   booked |-> bookedOn[p],
   rank   |-> Rank[p],
   hash   |-> None,
   of     |-> p]

SettledFeed == {Report(p, "SETTLED") : p \in {q \in Purchases : life[q] = "settled"}}
PendingFeed == {Report(p, "PENDING") : p \in {q \in Purchases : life[q] = "pending"}}

-----------------------------------------------------------------------------
(***************************************************************************)
(* syncOneAccount: two fetches, normalizeBatch.                            *)
(***************************************************************************)

\* Mutant: the pending transactions are fetched first.
Feed_PendingFirst(n) == IF n = 1 THEN PendingFeed ELSE SettledFeed

Feed(n) == IF n = 1 THEN SettledFeed ELSE PendingFeed

\* The order of the sorted batch among reports with the same fingerprint.
Before(u, tx) ==
  \/ u.rank < tx.rank
  \/ u.rank = tx.rank /\ u.status = "SETTLED" /\ tx.status = "PENDING"

Fingerprint(tx) == <<tx.look, tx.booked>>

RawHash(tx, reports) ==
  IF tx.id # None
  THEN <<tx.id>>
  ELSE <<Fingerprint(tx),
         Cardinality({u \in reports : /\ u.id = None
                                      /\ Fingerprint(u) = Fingerprint(tx)
                                      /\ Before(u, tx)})>>

NormalizeBatch(reports) == {[tx EXCEPT !.hash = RawHash(tx, reports)] : tx \in reports}

FetchFirst ==
  /\ phase \in {"idle", "done"}
  /\ phase' = "fetch"
  /\ batch' = Feed(1)
  /\ still' = IF still = "yes" THEN "yes" ELSE "maybe"
  /\ told' = {}
  /\ nights' = 0
  /\ UNCHANGED <<bank, rows, actual, seen, todo, settled, claimed>>

FetchSecond ==
  /\ phase = "fetch"
  /\ phase' = "upsert"
  /\ batch' = NormalizeBatch(batch \cup Feed(2))
  /\ told' = {<<tx.of, tx.status>> : tx \in batch'}
  /\ seen' = {tx.id : tx \in {u \in batch' : u.status = "PENDING"}} \ {None}
  /\ UNCHANGED <<bank, rows, actual, todo, settled, claimed, still, nights>>

-----------------------------------------------------------------------------
(***************************************************************************)
(* upsertTransactions.                                                     *)
(***************************************************************************)

\* The unique keys (account, provider id) and (account, raw hash).
Existing(tx) ==
  IF tx.id # None THEN {r \in rows : r.id = tx.id}
                  ELSE {r \in rows : r.hash = tx.hash}

\* Mutant: the status is not among the compared fields.
HasChanges_NoStatus(r, tx) == r.booked # tx.booked

HasChanges(r, tx) == r.status # tx.status \/ r.booked # tx.booked

NewRow(tx) ==
  [id |-> tx.id, hash |-> tx.hash, status |-> tx.status, look |-> tx.look,
   at |-> tx.booked, rank |-> tx.rank, booked |-> tx.booked,
   updated |-> today, deleted |-> FALSE, news |-> TRUE, of |-> tx.of]

\* Mutant: a row that was soft-deleted is taken for a missing one.
Upserted_Resurrect(tx) ==
  LET live == {r \in Existing(tx) : ~r.deleted} IN
  IF live = {} THEN rows \cup {NewRow(tx)}
  ELSE {IF r \in live /\ HasChanges(r, tx)
        THEN [r EXCEPT !.status = tx.status, !.booked = tx.booked,
                       !.updated = today, !.news = TRUE]
        ELSE r : r \in rows}

\* Mutant: a row that settles does not count as changed since its import.
Upserted_NoNews(tx) ==
  IF Existing(tx) = {} THEN rows \cup {NewRow(tx)}
  ELSE {IF r \in Existing(tx) /\ ~r.deleted /\ HasChanges(r, tx)
        THEN [r EXCEPT !.status = tx.status, !.booked = tx.booked, !.updated = today]
        ELSE r : r \in rows}

\* Soft-deleted rows stay deleted.
Upserted(tx) ==
  IF Existing(tx) = {} THEN rows \cup {NewRow(tx)}
  ELSE {IF r \in Existing(tx) /\ ~r.deleted /\ HasChanges(r, tx)
        THEN [r EXCEPT !.status = tx.status, !.booked = tx.booked,
                       !.updated = today, !.news = TRUE]
        ELSE r : r \in rows}

\* The batch is [...settled, ...pending].
Upsert(tx) ==
  /\ phase = "upsert"
  /\ tx \in batch
  /\ tx.status = "PENDING" => \A u \in batch : u.status = "PENDING"
  /\ rows' = Upserted(tx)
  /\ batch' = batch \ {tx}
  /\ UNCHANGED <<bank, actual, phase, seen, todo, settled, claimed, told, still, nights>>

-----------------------------------------------------------------------------
(***************************************************************************)
(* reconcilePending.                                                       *)
(***************************************************************************)
Live(status) == {r \in rows : r.status = status /\ ~r.deleted}

\* Mutant: one pending row per sync.
LoadRows_OneOnly ==
  /\ phase = "upsert"
  /\ batch = {}
  /\ phase' = "reconcile"
  /\ \E set \in {{r} : r \in Live("PENDING")} \cup {{}} :
       /\ set = {} => Live("PENDING") = {}
       /\ todo' = set
  /\ settled' = Live("SETTLED")
  /\ claimed' = {}
  /\ UNCHANGED <<bank, rows, actual, batch, seen, told, still, nights>>

LoadRows ==
  /\ phase = "upsert"
  /\ batch = {}
  /\ phase' = "reconcile"
  /\ todo' = Live("PENDING")
  /\ settled' = Live("SETTLED")
  /\ claimed' = {}
  /\ UNCHANGED <<bank, rows, actual, batch, seen, told, still, nights>>

\* orderBy: { timestamp: "asc" }
Earliest(r, set) ==
  r \in set /\ \A s \in set : r.at < s.at \/ (r.at = s.at /\ r.rank <= s.rank)

Distance(x, y) == IF x > y THEN x - y ELSE y - x

\* Mutant: the dates must be equal.
Matches_SameDay(pending, s) ==
  pending.look = s.look /\ pending.booked = s.booked

Matches(pending, s) ==
  pending.look = s.look /\ Distance(pending.booked, s.booked) <= MatchWindow

Twins(pending) == {s \in settled \ claimed : Matches(pending, s)}

\* Mutant: the pending row survives the merge.
Merge_KeepsPending(pending) ==
  \E twin \in Twins(pending) :
    /\ Earliest(twin, Twins(pending))
    /\ claimed' = claimed \cup {twin}
    /\ rows' = (rows \ {twin}) \cup {[twin EXCEPT !.deleted = TRUE]}

Merge(pending) ==
  \E twin \in Twins(pending) :
    /\ Earliest(twin, Twins(pending))
    /\ claimed' = claimed \cup {twin}
    /\ rows' = (rows \ {pending}) \cup {[pending EXCEPT !.deleted = TRUE]}

\* Mutant: a day too late.
Stale_Late(pending) ==
  /\ pending.id \notin seen
  /\ today - pending.updated > PendingExpiry + 1

\* Mutant: every old pending expires.
Stale_IgnoresSeen(pending) == today - pending.updated > PendingExpiry

\* updatedAt moves when an upsert finds a change and when an export writes: a
\* pending that is still reported, unchanged, grows old all the same.
Stale(pending) ==
  /\ pending.id \notin seen
  /\ today - pending.updated > PendingExpiry

Expire(pending) ==
  /\ Twins(pending) = {}
  /\ rows' = IF Stale(pending)
             THEN (rows \ {pending}) \cup {[pending EXCEPT !.deleted = TRUE]}
             ELSE rows
  /\ UNCHANGED claimed

Reconcile(pending) ==
  /\ phase = "reconcile"
  /\ Earliest(pending, todo)
  /\ Merge(pending) \/ Expire(pending)
  /\ todo' = todo \ {pending}
  /\ UNCHANGED <<bank, actual, phase, batch, seen, settled, told, still, nights>>

Forget == batch' = {} /\ seen' = {} /\ todo' = {} /\ settled' = {} /\ claimed' = {}

\* The cursor is moved and syncOneAccount returns.
Finish ==
  /\ phase = "reconcile"
  /\ todo = {}
  /\ phase' = "done"
  /\ still' = IF still = "no" THEN "no" ELSE "yes"
  /\ Forget
  /\ UNCHANGED <<bank, rows, actual, told, nights>>

\* A fetch or a query fails, or the process dies: what is stored stays.
Fail ==
  /\ phase \notin {"idle", "done"}
  /\ phase' = "idle"
  /\ still' = IF still = "yes" THEN "yes" ELSE "no"
  /\ Forget
  /\ told' = {}
  /\ nights' = 0
  /\ UNCHANGED <<bank, rows, actual>>

-----------------------------------------------------------------------------
(***************************************************************************)
(* exportAccounts, at the end of a run.  The sync of another account of    *)
(* the connection is followed by an export of this account's rows too.     *)
(***************************************************************************)

\* News is a row never imported, failed, or with updated_at > imported_at.
NeedsExport == {r \in rows : r.news /\ ~r.deleted}

\* toImportTransaction: the entry of a row that is there is updated.
Sent(r)     == <<r.hash, r.status = "SETTLED">>
Import(set) == {e \in actual : \A r \in set : e[1] # r.hash} \cup {Sent(r) : r \in set}

\* Rows are marked one by one once all are imported: a crash leaves some.
ExportSucceeds ==
  \E marked \in SUBSET NeedsExport :
    /\ actual' = Import(NeedsExport)
    /\ rows' = (rows \ marked)
                 \cup {[r EXCEPT !.news = FALSE, !.updated = today] : r \in marked}

\* Mutant: the rows count as imported all the same.
ExportFails_Marks ==
  \E arrived \in SUBSET NeedsExport :
    /\ actual' = Import(arrived)
    /\ rows' = (rows \ NeedsExport)
                 \cup {[r EXCEPT !.news = FALSE, !.updated = today] : r \in NeedsExport}

\* IMPORT_ERROR for all of them; what had arrived in Actual stays there.
ExportFails ==
  \E arrived \in SUBSET NeedsExport :
    /\ actual' = Import(arrived)
    /\ rows' = (rows \ NeedsExport)
                 \cup {[r EXCEPT !.updated = today] : r \in NeedsExport}

Export ==
  /\ HasExporter
  /\ phase \in {"idle", "done"}
  /\ NeedsExport # {}
  /\ ExportSucceeds \/ ExportFails
  /\ UNCHANGED <<bank, phase, memory, told, still, nights>>

Bank == (\E p \in Purchases : Buy(p) \/ Vanish(p) \/ Settle(p)) \/ NextDay

Sync ==
  \/ FetchFirst
  \/ FetchSecond
  \/ \E tx \in batch : Upsert(tx)
  \/ LoadRows
  \/ \E pending \in todo : Reconcile(pending)
  \/ Finish
  \/ Fail

Next == Bank \/ Sync \/ Export

Spec == Init /\ [][Next]_vars

-----------------------------------------------------------------------------
TypeOK ==
  /\ today \in Nat
  /\ life \in [Purchases -> Lives]
  /\ phase \in {"idle", "fetch", "upsert", "reconcile", "done"}
  /\ \A r, s \in rows : r.hash = s.hash => r = s

\* The purchases the latest batch reported with this status.
Told(status) == {p \in Purchases : <<p, status>> \in told}

\* Principle 4.1 of the product spec: what the bank has reported as settled is
\* in the table, exactly once per purchase, when the sync is over.
SettledExact ==
  phase = "done" =>
    \A k \in {Look[p] : p \in Purchases} :
      Cardinality({r \in Live("SETTLED") : r.look = k})
        = Cardinality({p \in Told("SETTLED") : Look[p] = k})

\* Section 15: pending and settled reports of one purchase are not counted
\* twice: when a sync is over, there are not more rows than purchases of a
\* look, provided they settled close enough to their dates to be recognized.
NoDoubleCount ==
  phase = "done" =>
    \A k \in {Look[p] : p \in Purchases} :
      LET alike == {p \in Purchases : Look[p] = k}
      IN  (\A p \in alike : bookedOn[p] - madeOn[p] <= MatchWindow) =>
            Cardinality({r \in rows : r.look = k /\ ~r.deleted})
              <= Cardinality({p \in alike : life[p] # "none"})

\* From the bank to Actual: what a sync was told is settled has an entry there,
\* cleared, once no row needs an export any more, whatever failed on the way and
\* whatever was sent of the purchase before (section 27, "Keep locally and retry
\* Actual import"; docs/actual-setup.md:51 on the cleared flag).
SettledArrives ==
  HasExporter /\ phase = "done" /\ NeedsExport = {} =>
    \A p \in Told("SETTLED") :
      \E r \in Live("SETTLED") : r.look = Look[p] /\ <<r.hash, TRUE>> \in actual

\* Section 15: pending transactions that never settle do not linger, as long as
\* no failing export restarts their expiry.  A sync that lasts beyond midnight may
\* store a report that is older by as many days.
GoneDoNotLinger ==
  phase = "done" =>
    \A r \in Live("PENDING") :
      life[r.of] = "limbo" =>
        (today - nights) - leftOn[r.of] <= PendingExpiry + Midnights

\* pending-reconciler.test.ts:156, "keeps pendings still reported by the
\* provider, however old": what the sync was told is pending, under an id, has
\* its row when it is over, or a settled row it was taken for.
ReportedIsKept ==
  phase = "done" =>
    \A p \in Told("PENDING") :
      PendingId[p] # None =>
        \E r \in rows : /\ r.look = Look[p] /\ ~r.deleted
                        /\ r.id = PendingId[p] \/ r.status = "SETTLED"

\* A settled row is never undone: not deleted, and not pending again.
SettledStays ==
  [][\A r \in Live("SETTLED") : \E s \in Live("SETTLED")' : s.hash = r.hash]_vars

\* Section 20: a sync of an account whose bank has not changed since the last
\* completed sync changes nothing, whatever was exported in between.
Idempotent == [][still = "yes" /\ Sync => rows' = rows]_vars

-----------------------------------------------------------------------------
(***************************************************************************)
(* What the documentation says and the code does not do.                   *)
(***************************************************************************)

\* spec.md:92, "Once a transaction has been successfully downloaded, the
\* application should retain it locally indefinitely": what the bank reports
\* as settled in a completed sync has a settled row that is not deleted.
DownloadedIsRetained ==
  phase = "done" =>
    \A k \in {Look[p] : p \in Purchases} :
      Cardinality({r \in Live("SETTLED") : r.look = k})
        >= Cardinality({p \in Told("SETTLED") : Look[p] = k})

\* docs/actual-setup.md:51, "Pending transactions arrive uncleared; when they
\* settle, the next export updates the cleared flag": when a sync and its export
\* are over, Actual has one entry for a purchase, and not one for its pending
\* and one for its settled row.
OneEntryPerPurchase ==
  phase = "done" /\ NeedsExport = {} =>
    \A k \in {Look[p] : p \in Purchases} :
      Cardinality({r \in rows : r.look = k /\ \E e \in actual : e[1] = r.hash})
        <= Cardinality({p \in Purchases : Look[p] = k /\ life[p] # "none"})
=============================================================================
