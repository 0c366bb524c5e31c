---------------------------- MODULE LedgerProofs ----------------------------
(***************************************************************************)
(* What the bank has settled is in the table, once, and what it still      *)
(* reports is not lost, for any purchases, dates, failures and exports.    *)
(*                                                                         *)
(* The rows change in three ways only: an upsert stores a report, the      *)
(* reconciler drops a pending row, an export marks a row (RowSteps).       *)
(* Rows are found by their hash, so the rest rests on hashes: those of     *)
(* purchases that can be told apart are their own (KeyInv).  On top of it, *)
(* what is settled is stored (StoreInv), what is pending is kept or        *)
(* expires (TakenFor, Expired), the pending row of a settled purchase is   *)
(* merged (MergeInv), and a sync that has nothing to do does nothing       *)
(* (StillInv).                                                             *)
(***************************************************************************)
EXTENDS Ledger, Sequences, FunctionTheorems, FiniteSetTheorems, TLAPS

Phases    == {"idle", "fetch", "upsert", "reconcile", "done"}
Statuses  == {"PENDING", "SETTLED"}
Ids       == {PendingId[p] : p \in Purchases} \cup {SettledId[p] : p \in Purchases}
Looks     == {Look[p] : p \in Purchases}
Prints    == (Looks \X Nat) \X Nat
RawHashes == {<<id>> : id \in Ids} \cup Prints

Tx  == [id : Ids, status : Statuses, look : Looks, booked : Nat, rank : Nat,
        hash : RawHashes \cup {None}, of : Purchases]
Row == [id : Ids, hash : RawHashes, status : Statuses, look : Looks, at : Nat,
        rank : Nat, booked : Nat, updated : Nat, deleted : BOOLEAN,
        news : BOOLEAN, of : Purchases]

\* The raw hash of a row or a normalized report.
Hashed(x) == IF x.id # None THEN x.hash = <<x.id>> ELSE x.hash \in Prints

BankType ==
  /\ today \in Nat
  /\ nights \in 0..Midnights /\ nights <= today
  /\ life \in [Purchases -> Lives]
  /\ madeOn \in [Purchases -> Nat]
  /\ bookedOn \in [Purchases -> Nat]
  /\ leftOn \in [Purchases -> Nat]

RowType ==
  /\ rows \subseteq Row
  /\ \A r \in rows : Hashed(r)
  /\ \A r, s \in rows : r.hash = s.hash => r = s

SyncType ==
  /\ phase \in Phases
  /\ batch \subseteq Tx
  /\ phase = "fetch" => IsFiniteSet(batch)
  /\ phase = "upsert" => \A tx \in batch : Hashed(tx)
  /\ phase # "upsert" /\ phase # "fetch" => batch = {}
  /\ phase # "reconcile" => todo = {}
  /\ todo \subseteq Live("PENDING")
  /\ phase = "reconcile" => settled \subseteq Live("SETTLED")

TInv == BankType /\ RowType /\ SyncType

-----------------------------------------------------------------------------
(***************************************************************************)
(* Reports and hashes.                                                     *)
(***************************************************************************)

\* The hash of an id is not the hash of a fingerprint.
LEMMA HashKinds ==
  ASSUME NEW i, NEW t \in Prints
  PROVE  t # <<i>>
<1>1. PICK print \in Looks \X Nat, n \in Nat : t = <<print, n>>
  BY DEF Prints
<1>2. Len(<<i>>) = 1 /\ Len(<<print, n>>) = 2
  OBVIOUS
<1> QED
  BY <1>1, <1>2

LEMMA ReportType ==
  ASSUME BankType, NEW p \in Purchases, NEW status \in Statuses
  PROVE  /\ Report(p, status) \in Tx
         /\ Report(p, status).of = p /\ Report(p, status).status = status
BY LedgerAssumption DEF Report, Tx, BankType, Ids, Looks

LEMMA FeedType ==
  ASSUME BankType, NEW n
  PROVE  Feed(n) \subseteq Tx /\ IsFiniteSet(Feed(n))
<1>1. ASSUME NEW set \in SUBSET Purchases, NEW status \in Statuses
      PROVE  /\ {Report(p, status) : p \in set} \subseteq Tx
             /\ IsFiniteSet({Report(p, status) : p \in set})
  <2> DEFINE reports == {Report(p, status) : p \in set}
             f == [p \in set |-> Report(p, status)]
  <2>1. IsFiniteSet(set)
    BY PurchasesAssumption, FS_Subset
  <2>2. f \in Surjection(set, reports)
    BY DEF Surjection
  <2>3. IsFiniteSet(reports)
    BY <2>1, <2>2, FS_Surjection DEF ExistsSurjection
  <2> QED
    BY <2>3, ReportType
<1>2. SettledFeed \subseteq Tx /\ IsFiniteSet(SettledFeed)
  BY <1>1 DEF SettledFeed, Statuses
<1>3. PendingFeed \subseteq Tx /\ IsFiniteSet(PendingFeed)
  BY <1>1 DEF PendingFeed, Statuses
<1> QED
  BY <1>2, <1>3 DEF Feed

\* The index of a report among those of its fingerprint.
Index(tx, reports) ==
  Cardinality({u \in reports : /\ u.id = None
                               /\ Fingerprint(u) = Fingerprint(tx)
                               /\ Before(u, tx)})

\* What normalizeBatch makes of a report.
LEMMA Normalized ==
  ASSUME NEW reports \in SUBSET Tx, IsFiniteSet(reports), NEW tx \in reports
  PROVE  /\ Index(tx, reports) \in Nat
         /\ RawHash(tx, reports) =
              IF tx.id # None THEN <<tx.id>>
                              ELSE <<<<tx.look, tx.booked>>, Index(tx, reports)>>
         /\ RawHash(tx, reports) \in RawHashes
         /\ [tx EXCEPT !.hash = RawHash(tx, reports)] \in Tx
         /\ Hashed([tx EXCEPT !.hash = RawHash(tx, reports)])
<1> DEFINE n == Index(tx, reports)
           hash == RawHash(tx, reports)
<1>1. n \in Nat
  <2>1. IsFiniteSet({u \in reports : /\ u.id = None
                                     /\ Fingerprint(u) = Fingerprint(tx)
                                     /\ Before(u, tx)})
    BY FS_Subset
  <2> QED
    BY <2>1, FS_CardinalityType DEF Index
<1>3. hash = IF tx.id # None THEN <<tx.id>> ELSE <<<<tx.look, tx.booked>>, n>>
  BY DEF RawHash, Index, Fingerprint
<1> HIDE DEF n, hash
<1>4. tx.id \in Ids /\ tx.look \in Looks /\ tx.booked \in Nat
  BY DEF Tx
<1>5. hash \in RawHashes /\ (tx.id = None => hash \in Prints)
  BY <1>1, <1>3, <1>4 DEF RawHashes, Prints
<1>6. /\ [tx EXCEPT !.hash = hash] \in Tx /\ [tx EXCEPT !.hash = hash].id = tx.id
      /\ [tx EXCEPT !.hash = hash].hash = hash
  BY <1>5 DEF Tx
<1> QED
  BY <1>1, <1>3, <1>5, <1>6 DEF Hashed, n, hash

\* The reports stay the same but for their hash.
LEMMA NormalizedType ==
  ASSUME NEW reports \in SUBSET Tx, IsFiniteSet(reports)
  PROVE  /\ NormalizeBatch(reports) \subseteq Tx
         /\ \A tx \in NormalizeBatch(reports) : Hashed(tx)
BY Normalized DEF NormalizeBatch

\* An upsert finds the row with the hash of the report.
LEMMA ExistingByHash ==
  ASSUME RowType, NEW tx \in Tx, Hashed(tx)
  PROVE  Existing(tx) = {r \in rows : r.hash = tx.hash}
<1>1. ASSUME NEW r \in rows, tx.id # None PROVE r.id = tx.id <=> r.hash = tx.hash
  <2>1. tx.hash = <<tx.id>> /\ r.id # None => r.hash = <<r.id>>
    BY <1>1 DEF Hashed, RowType
  <2>2. CASE r.id = None
    <3>1. r.hash \in Prints
      BY <2>2 DEF Hashed, RowType
    <3> QED
      BY <1>1, <2>2, <3>1, HashKinds DEF Hashed
  <2>3. CASE r.id # None
    <3>1. r.hash = <<r.id>> /\ tx.hash = <<tx.id>>
      BY <1>1, <2>3 DEF Hashed, RowType
    <3>2. <<r.id>> = <<tx.id>> <=> r.id = tx.id
      OBVIOUS
    <3> QED
      BY <3>1, <3>2
  <2> QED
    BY <2>2, <2>3
<1> QED
  BY <1>1 DEF Existing

-----------------------------------------------------------------------------
(***************************************************************************)
(* How the rows change.                                                    *)
(***************************************************************************)

\* An upsert stores a report in the row r.
Stored(r, s) ==
  \E tx \in batch :
    /\ Upsert(tx) /\ r \in Existing(tx)
    /\ ~r.deleted /\ ~s.deleted /\ s.status = tx.status /\ s.booked = tx.booked
    /\ s.updated = today /\ s.news

\* The reconciler drops r.
Dropped(r, s) ==
  /\ Reconcile(r) /\ r \in todo
  /\ ~r.deleted /\ s.deleted /\ s.status = r.status /\ s.booked = r.booked
  /\ s.updated = r.updated /\ s.news = r.news
  /\ Twins(r) # {} \/ Stale(r)

\* An export marks r.
Marked(r, s) ==
  /\ Export
  /\ ~r.deleted /\ ~s.deleted /\ s.status = r.status /\ s.booked = r.booked
  /\ s.updated = today
  /\ s.news \/ Sent(r) \in actual'

\* What may become of a row.
Becomes(r, s) ==
  /\ s \in Row
  /\ s.id = r.id /\ s.hash = r.hash /\ s.look = r.look /\ s.of = r.of
  /\ s = r \/ Stored(r, s) \/ Dropped(r, s) \/ Marked(r, s)

\* The step maps each row to its successor, and adds those of new.
Maps(f, new) ==
  /\ f \in [rows -> Row]
  /\ \A r \in rows : Becomes(r, f[r])
  /\ rows' = {f[r] : r \in rows} \cup new
  /\ new = {} \/ \E tx \in batch : Upsert(tx) /\ Existing(tx) = {} /\ new = {NewRow(tx)}

LEMMA RowsStay ==
  ASSUME TInv, rows' = rows
  PROVE  \E f, new : Maps(f, new)
<1> DEFINE f == [r \in rows |-> r]
<1>1. f \in [rows -> Row] /\ rows = {f[r] : r \in rows}
  BY DEF TInv, RowType
<1>2. Maps(f, {})
  BY <1>1 DEF Maps, Becomes, TInv, RowType
<1> QED
  BY <1>2

LEMMA UpsertMaps ==
  ASSUME TInv, NEW tx \in batch, Upsert(tx)
  PROVE  \E f, new : Maps(f, new)
<1>1. rows' = Upserted(tx) /\ tx \in Tx /\ rows \subseteq Row /\ today \in Nat
  BY DEF Upsert, TInv, SyncType, RowType, BankType
<1>2. CASE Existing(tx) = {}
  <2> DEFINE f == [r \in rows |-> r]
  <2>1. f \in [rows -> Row] /\ rows = {f[r] : r \in rows}
    BY <1>1
  <2>2. rows' = {f[r] : r \in rows} \cup {NewRow(tx)}
    BY <1>1, <1>2, <2>1 DEF Upserted
  <2>3. Maps(f, {NewRow(tx)})
    BY <1>1, <1>2, <2>1, <2>2 DEF Maps, Becomes
  <2> QED
    BY <2>3
<1>3. CASE Existing(tx) # {}
  <2> DEFINE new == [r \in rows |-> [r EXCEPT !.status = tx.status, !.booked = tx.booked,
                                              !.updated = today, !.news = TRUE]]
             hit == {r \in Existing(tx) : ~r.deleted /\ HasChanges(r, tx)}
             f == [r \in rows |-> IF r \in hit THEN new[r] ELSE r]
  <2>1. ASSUME NEW r \in rows
        PROVE  /\ new[r] \in Row
               /\ new[r].id = r.id /\ new[r].hash = r.hash /\ new[r].look = r.look
               /\ new[r].of = r.of /\ new[r].deleted = r.deleted
               /\ new[r].status = tx.status /\ new[r].booked = tx.booked
               /\ new[r].updated = today /\ new[r].news
    BY <1>1 DEF Row, Tx
  <2>2. \A r \in rows : r \in hit => Becomes(r, new[r])
    BY <2>1 DEF Becomes, Stored
  <2>3. f \in [rows -> Row] /\ \A r \in rows : Becomes(r, f[r])
    <3> HIDE DEF new, hit
    <3> QED
      BY <1>1, <2>1, <2>2 DEF Becomes
  <2>4. \A r \in rows :
          f[r] = IF r \in Existing(tx) /\ ~r.deleted /\ HasChanges(r, tx)
                 THEN [r EXCEPT !.status = tx.status, !.booked = tx.booked,
                                !.updated = today, !.news = TRUE]
                 ELSE r
    OBVIOUS
  <2>5. rows' = {f[r] : r \in rows}
    <3> HIDE DEF f
    <3> QED
      BY <1>1, <1>3, <2>4 DEF Upserted
  <2> HIDE DEF f
  <2>6. Maps(f, {})
    BY <2>3, <2>5 DEF Maps
  <2> QED
    BY <2>6
<1> QED
  BY <1>2, <1>3

LEMMA ReconcileMaps ==
  ASSUME TInv, NEW pending \in todo, Reconcile(pending)
  PROVE  \E f, new : Maps(f, new)
<1> DEFINE dead == [pending EXCEPT !.deleted = TRUE]
           f == [r \in rows |-> IF r = pending THEN dead ELSE r]
<1>1. pending \in rows /\ rows \subseteq Row /\ pending \in Row
  BY DEF TInv, SyncType, RowType, Live
<1>2. CASE rows' = rows
  BY <1>2, RowsStay
<1>3. CASE rows' # rows
  <2>1. rows' = (rows \ {pending}) \cup {dead} /\ (Twins(pending) # {} \/ Stale(pending))
    BY <1>3 DEF Reconcile, Merge, Expire
  <2>2. /\ dead \in Row
        /\ dead.id = pending.id /\ dead.hash = pending.hash /\ dead.look = pending.look
        /\ dead.of = pending.of /\ dead.deleted
        /\ dead.status = pending.status /\ dead.updated = pending.updated
        /\ dead.news = pending.news /\ dead.booked = pending.booked /\ ~pending.deleted
    BY <1>1 DEF Row, TInv, SyncType, Live
  <2>3. Becomes(pending, dead)
    BY <2>1, <2>2 DEF Becomes, Dropped
  <2> HIDE DEF dead
  <2>4. f \in [rows -> Row] /\ \A r \in rows : Becomes(r, f[r])
    BY <1>1, <2>2, <2>3 DEF Becomes
  <2>5. rows' = {f[r] : r \in rows}
    BY <1>1, <2>1
  <2> HIDE DEF f
  <2>6. Maps(f, {})
    BY <2>4, <2>5 DEF Maps
  <2> QED
    BY <2>6
<1> QED
  BY <1>2, <1>3

LEMMA ExportMaps ==
  ASSUME TInv, Export
  PROVE  \E f, new : Maps(f, new)
<1>1. rows \subseteq Row /\ today \in Nat
  BY DEF TInv, RowType, BankType
<1>2. PICK marked \in SUBSET NeedsExport, kept \in BOOLEAN :
        /\ rows' = (rows \ marked)
                     \cup {[r EXCEPT !.news = kept, !.updated = today] : r \in marked}
        /\ kept \/ \A r \in NeedsExport : Sent(r) \in actual'
  <2>1. CASE ExportSucceeds
    <3>1. PICK marked \in SUBSET NeedsExport :
            /\ actual' = Import(NeedsExport)
            /\ rows' = (rows \ marked)
                         \cup {[r EXCEPT !.news = FALSE, !.updated = today] : r \in marked}
      BY <2>1 DEF ExportSucceeds
    <3>2. \A r \in NeedsExport : Sent(r) \in actual'
      BY <3>1 DEF Import
    <3> QED
      BY <3>1, <3>2
  <2>2. CASE ExportFails
    <3>1. rows' = (rows \ NeedsExport)
                    \cup {[r EXCEPT !.updated = today] : r \in NeedsExport}
      BY <2>2 DEF ExportFails
    <3>2. \A r \in NeedsExport :
            [r EXCEPT !.updated = today] = [r EXCEPT !.news = TRUE, !.updated = today]
      BY <1>1 DEF NeedsExport, Row
    <3> DEFINE failed == [r \in NeedsExport |-> [r EXCEPT !.updated = today]]
    <3>5. rows' = (rows \ NeedsExport) \cup {failed[r] : r \in NeedsExport}
      BY <3>1
    <3>6. \A r \in NeedsExport : failed[r] = [r EXCEPT !.news = TRUE, !.updated = today]
      BY <3>2
    <3> HIDE DEF failed
    <3>3. rows' = (rows \ NeedsExport)
                    \cup {[r EXCEPT !.news = TRUE, !.updated = today] : r \in NeedsExport}
      BY <3>5, <3>6
    <3>4. NeedsExport \in SUBSET NeedsExport /\ TRUE \in BOOLEAN
      OBVIOUS
    <3> QED
      BY <3>3, <3>4
  <2> QED
    BY <2>1, <2>2 DEF Export
<1> DEFINE new == [r \in rows |-> [r EXCEPT !.news = kept, !.updated = today]]
           f == [r \in rows |-> IF r \in marked THEN new[r] ELSE r]
<1>3. \A r \in marked : r \in rows /\ r.news /\ ~r.deleted /\ (kept \/ Sent(r) \in actual')
  BY <1>2 DEF NeedsExport
<1>4. ASSUME NEW r \in marked
      PROVE  /\ new[r] \in Row
             /\ new[r].id = r.id /\ new[r].hash = r.hash /\ new[r].look = r.look
             /\ new[r].of = r.of /\ new[r].deleted = r.deleted
             /\ new[r].status = r.status /\ new[r].booked = r.booked
             /\ new[r].updated = today /\ new[r].news = kept
  BY <1>1, <1>3 DEF Row
<1>7. rows' = (rows \ marked) \cup {new[r] : r \in marked}
  <2>1. \A r \in marked : new[r] = [r EXCEPT !.news = kept, !.updated = today]
    BY <1>3
  <2> HIDE DEF new
  <2> QED
    BY <1>2, <2>1
<1> HIDE DEF new
<1>5. \A r \in marked : Becomes(r, new[r])
  BY <1>3, <1>4 DEF Becomes, Marked
<1>6. f \in [rows -> Row] /\ \A r \in rows : Becomes(r, f[r])
  BY <1>1, <1>4, <1>5 DEF Becomes
<1>8. rows' = {f[r] : r \in rows}
  BY <1>3, <1>7
<1> HIDE DEF f
<1>9. Maps(f, {})
  BY <1>6, <1>8 DEF Maps
<1> QED
  BY <1>9

LEMMA RowSteps ==
  ASSUME TInv, [Next]_vars
  PROVE  \E f, new : Maps(f, new)
<1>1. CASE \E tx \in batch : Upsert(tx)
  BY <1>1, UpsertMaps
<1>2. CASE \E pending \in todo : Reconcile(pending)
  BY <1>2, ReconcileMaps
<1>3. CASE Export
  BY <1>3, ExportMaps
<1>4. CASE Bank \/ FetchFirst \/ FetchSecond \/ LoadRows \/ Finish \/ Fail \/ UNCHANGED vars
  <2>1. rows' = rows
    BY <1>4 DEF Bank, Buy, Vanish, Settle, NextDay, BankMoves, FetchFirst, FetchSecond,
                LoadRows, Finish, Fail, vars
  <2> QED
    BY <2>1, RowsStay
<1> QED
  BY <1>1, <1>2, <1>3, <1>4 DEF Next, Sync

-----------------------------------------------------------------------------
(***************************************************************************)
(* Type correctness.                                                       *)
(***************************************************************************)

\* A row that an upsert adds.
LEMMA NewRowType ==
  ASSUME BankType, NEW tx \in Tx, Hashed(tx)
  PROVE  /\ NewRow(tx) \in Row /\ Hashed(NewRow(tx))
         /\ NewRow(tx).hash = tx.hash /\ NewRow(tx).id = tx.id /\ NewRow(tx).of = tx.of
         /\ NewRow(tx).look = tx.look /\ NewRow(tx).status = tx.status
         /\ NewRow(tx).updated = today /\ ~NewRow(tx).deleted /\ NewRow(tx).news
<1>1. tx.hash \in RawHashes
  BY DEF Hashed, RawHashes, Tx
<1> QED
  BY <1>1 DEF NewRow, Row, Tx, BankType, Hashed

LEMMA BankTypeStep == BankType /\ [Next]_vars => BankType'
<1> SUFFICES ASSUME BankType, [Next]_vars PROVE BankType'
  OBVIOUS
<1>1. CASE \E p \in Purchases : Buy(p)
  BY <1>1 DEF BankType, Buy, Lives
<1>2. CASE \E p \in Purchases : Vanish(p)
  BY <1>2 DEF BankType, Vanish, Lives
<1>3. CASE \E p \in Purchases : Settle(p)
  <2>0. PICK p \in Purchases : Settle(p)
    BY <1>3
  <2>1. PICK day \in {madeOn[p], today} :
          /\ life' = [life EXCEPT ![p] = "settled"]
          /\ bookedOn' = [bookedOn EXCEPT ![p] = day]
          /\ leftOn' = [leftOn EXCEPT ![p] = IF life[p] = "pending" THEN today ELSE leftOn[p]]
          /\ UNCHANGED <<today, nights, madeOn>>
    BY <2>0 DEF Settle
  <2>2. day \in Nat
    BY <2>1 DEF BankType
  <2>3. (IF life[p] = "pending" THEN today ELSE leftOn[p]) \in Nat
    BY DEF BankType
  <2> QED
    BY <2>1, <2>2, <2>3 DEF BankType, Lives
<1>4. CASE NextDay
  BY <1>4, LedgerAssumption DEF BankType, NextDay
<1>5. CASE Sync \/ Export \/ UNCHANGED vars
  <2>1. UNCHANGED bank /\ nights' \in {nights, 0}
    BY <1>5 DEF Sync, FetchFirst, FetchSecond, Upsert, LoadRows, Reconcile, Finish, Fail,
                Export, vars
  <2> QED
    BY <2>1, LedgerAssumption DEF bank, BankType
<1> QED
  BY <1>1, <1>2, <1>3, <1>4, <1>5 DEF Next, Bank

LEMMA RowTypeStep == TInv /\ [Next]_vars => RowType'
<1> SUFFICES ASSUME TInv, [Next]_vars PROVE RowType'
  OBVIOUS
<1>1. PICK f, new : Maps(f, new)
  BY RowSteps
<1>2. \A r \in rows : f[r] \in Row /\ f[r].hash = r.hash /\ f[r].id = r.id
  BY <1>1 DEF Maps, Becomes
<1>3. \A r \in rows : Hashed(f[r])
  BY <1>2 DEF TInv, RowType, Hashed
<1>4. \A r, s \in rows : f[r].hash = f[s].hash => f[r] = f[s]
  BY <1>2 DEF TInv, RowType
<1>5. rows' = {f[r] : r \in rows} \cup new
  BY <1>1 DEF Maps
<1>6. CASE new = {}
  <2>1. rows' = {f[r] : r \in rows}
    BY <1>5, <1>6
  <2>2. \A s \in rows' : \E r \in rows : s = f[r]
    BY <2>1
  <2> QED
    BY <1>2, <1>3, <1>4, <2>2 DEF RowType, Hashed
<1>7. CASE new # {}
  <2>1. PICK tx \in batch : Upsert(tx) /\ Existing(tx) = {} /\ new = {NewRow(tx)}
    BY <1>1, <1>7 DEF Maps
  <2>2. tx \in Tx /\ Hashed(tx)
    BY <2>1 DEF TInv, SyncType, Upsert
  <2>3. /\ NewRow(tx) \in Row /\ Hashed(NewRow(tx)) /\ NewRow(tx).hash = tx.hash
    BY <2>2, NewRowType DEF TInv
  <2>4. \A r \in rows : r.hash # tx.hash
    BY <2>1, <2>2, ExistingByHash DEF TInv
  <2>5. \A s \in rows' : s = NewRow(tx) \/ \E r \in rows : s = f[r]
    BY <1>5, <2>1
  <2> QED
    BY <1>2, <1>3, <1>4, <2>3, <2>4, <2>5 DEF RowType, Hashed
<1> QED
  BY <1>6, <1>7

LEMMA SyncTypeStep == TInv /\ [Next]_vars => SyncType'
<1> SUFFICES ASSUME TInv, [Next]_vars PROVE SyncType'
  OBVIOUS
<1> USE DEF TInv
<1>1. CASE Bank
  BY <1>1 DEF SyncType, Bank, Buy, Vanish, Settle, NextDay, BankMoves, memory, Phases,
              Live, Hashed
<1>2. CASE FetchFirst
  <2>1. Feed(1) \subseteq Tx /\ IsFiniteSet(Feed(1))
    BY FeedType
  <2> QED
    BY <1>2, <2>1 DEF SyncType, FetchFirst, Phases, Live
<1>3. CASE FetchSecond
  <2> DEFINE reports == batch \cup Feed(2)
  <2>1. reports \subseteq Tx /\ IsFiniteSet(reports)
    BY <1>3, FeedType, FS_Union DEF SyncType, FetchSecond
  <2>2. batch' = NormalizeBatch(reports) /\ phase' = "upsert" /\ UNCHANGED <<rows, todo>>
        /\ phase = "fetch"
    BY <1>3 DEF FetchSecond
  <2> HIDE DEF reports
  <2>3. batch' \subseteq Tx /\ \A tx \in batch' : Hashed(tx)
    BY <2>1, <2>2, NormalizedType
  <2> QED
    BY <2>2, <2>3 DEF SyncType, Phases, Live, Hashed
<1>4. CASE \E tx \in batch : Upsert(tx)
  <2>1. /\ phase = "upsert" /\ phase' = "upsert" /\ batch' \subseteq batch /\ todo' = todo
    BY <1>4 DEF Upsert
  <2>2. todo = {}
    BY <2>1 DEF SyncType
  <2> QED
    BY <2>1, <2>2 DEF SyncType, Hashed
<1>5. CASE LoadRows
  BY <1>5 DEF SyncType, LoadRows, Phases, Live
<1>6. CASE \E pending \in todo : Reconcile(pending)
  <2>1. PICK pending \in todo : Reconcile(pending)
    BY <1>6
  <2>2. /\ phase = "reconcile" /\ UNCHANGED <<phase, batch, settled>>
        /\ todo' = todo \ {pending} /\ rows \ {pending} \subseteq rows'
    BY <2>1 DEF Reconcile, Merge, Expire
  <2>3. pending.status = "PENDING"
    BY DEF SyncType, Live
  <2> QED
    BY <2>2, <2>3 DEF SyncType, Live
<1>7. CASE Finish \/ Fail
  BY <1>7 DEF SyncType, Finish, Fail, Forget, Phases, Live
<1>8. CASE Export
  <2>1. phase \in {"idle", "done"} /\ UNCHANGED <<phase, memory>>
    BY <1>8 DEF Export
  <2> QED
    BY <2>1 DEF SyncType, memory
<1>9. CASE UNCHANGED vars
  BY <1>9 DEF SyncType, vars, memory, Live, Hashed
<1> QED
  BY <1>1, <1>2, <1>3, <1>4, <1>5, <1>6, <1>7, <1>8, <1>9 DEF Next, Sync

\* The type invariant with what it needs: the hash of a row or a report fits its id,
\* and the loop of reconcilePending has live pending rows before it.
THEOREM Typed == Spec => []TInv
<1>1. Init => TInv
  <2> SUFFICES ASSUME Init PROVE TInv
    OBVIOUS
  <2>1. BankType
    BY LedgerAssumption DEF Init, BankType, Lives
  <2>2. RowType /\ SyncType
    BY DEF Init, RowType, SyncType, Phases, Live
  <2> QED
    BY <2>1, <2>2 DEF TInv
<1>2. TInv /\ [Next]_vars => TInv'
  BY BankTypeStep, RowTypeStep, SyncTypeStep DEF TInv
<1> QED
  BY <1>1, <1>2, PTL DEF Spec

\* The variables keep their types and no two rows have the same raw hash, whatever
\* ids and looks the bank's reports have.
THEOREM TypeCorrect == Spec => []TypeOK
<1>1. TInv => TypeOK
  BY DEF TInv, BankType, RowType, SyncType, TypeOK, Phases
<1> QED
  BY <1>1, Typed, PTL

-----------------------------------------------------------------------------
(***************************************************************************)
(* Purchases that can be told apart.  The hashes of a purchase are then    *)
(* its own, and its occurrence index is always 0.                          *)
(***************************************************************************)
IdOf(p, status) == IF status = "PENDING" THEN PendingId[p] ELSE SettledId[p]

\* No two purchases share an id, and those without one do not look alike.
Distinguishable ==
  \A p, q \in Purchases : p # q =>
    \A s, t \in Statuses : IdOf(p, s) = IdOf(q, t) =>
      IdOf(p, s) = None /\ Look[p] # Look[q]

\* The raw hash of the reports with this status, once there are any.
Key(p, status) ==
  IF IdOf(p, status) # None THEN <<IdOf(p, status)>>
  ELSE <<<<Look[p], IF status = "PENDING" THEN madeOn[p] ELSE bookedOn[p]>>, 0>>

\* Until it settles, a purchase has the date on which it was made.
Dates ==
  \A p \in Purchases :
    /\ life[p] \in {"pending", "limbo"} => bookedOn[p] = madeOn[p]
    /\ life[p] # "none" => madeOn[p] <= today

\* A row has the hash of the reports of its purchase; a settled one is of a
\* settled purchase, and not deleted.
Keyed(r) ==
  /\ r.look = Look[r.of] /\ r.hash = Key(r.of, r.status)
  /\ life[r.of] # "none" /\ madeOn[r.of] <= r.updated /\ r.updated <= today
  /\ r.status = "SETTLED" => life[r.of] = "settled" /\ ~r.deleted

\* Between the fetches: the settled reports, of every settled row among others.
Fetched ==
  phase = "fetch" =>
    /\ \A tx \in batch : life[tx.of] = "settled" /\ tx = Report(tx.of, "SETTLED")
    /\ \A r \in rows : r.status = "SETTLED" => \E tx \in batch : tx.of = r.of

Underway == phase \in {"upsert", "reconcile", "done"}

\* No purchase is reported twice.
Telling ==
  /\ ~Underway => told = {}
  /\ \A p \in Told("SETTLED") : life[p] = "settled" /\ p \notin Told("PENDING")
  /\ \A p \in Told("PENDING") : life[p] # "none"

\* The reports still to be stored.
Reported ==
  phase = "upsert" =>
    \A tx \in batch :
      /\ tx.of \in Told(tx.status) /\ tx.look = Look[tx.of]
      /\ tx.id = IdOf(tx.of, tx.status) /\ tx.hash = Key(tx.of, tx.status)

\* A sync was told of all it knows to be settled, or that is pending still.
Known ==
  Underway => \A r \in rows :
    /\ r.status = "SETTLED" => r.of \in Told("SETTLED")
    /\ life[r.of] = "pending" => r.of \in Told("PENDING")

KeyInv == Dates /\ (\A r \in rows : Keyed(r)) /\ Fetched /\ Telling /\ Reported /\ Known

LEMMA KeysDiffer ==
  ASSUME Distinguishable, NEW p \in Purchases, NEW q \in Purchases, p # q,
         NEW s \in Statuses, NEW t \in Statuses
  PROVE  Key(p, s) # Key(q, t)
<1> DEFINE x == IdOf(p, s)
           y == IdOf(q, t)
           u == <<Look[p], IF s = "PENDING" THEN madeOn[p] ELSE bookedOn[p]>>
           v == <<Look[q], IF t = "PENDING" THEN madeOn[q] ELSE bookedOn[q]>>
<1>1. x # y \/ (x = None /\ Look[p] # Look[q])
  BY DEF Distinguishable
<1>2. u = v => Look[p] = Look[q]
  OBVIOUS
<1>3. /\ Key(p, s) = IF x # None THEN <<x>> ELSE <<u, 0>>
      /\ Key(q, t) = IF y # None THEN <<y>> ELSE <<v, 0>>
  BY DEF Key
<1> HIDE DEF x, y, u, v
<1>4. /\ <<x>> # <<v, 0>> /\ <<y>> # <<u, 0>>
      /\ <<x>> = <<y>> => x = y
      /\ <<u, 0>> = <<v, 0>> => u = v
  <2>1. Len(<<x>>) = 1 /\ Len(<<y>>) = 1 /\ Len(<<u, 0>>) = 2 /\ Len(<<v, 0>>) = 2
    OBVIOUS
  <2> QED
    BY <2>1
<1> QED
  BY <1>1, <1>2, <1>3, <1>4

\* What the bank never takes back.
LEMMA BankSteps ==
  ASSUME TInv, [Next]_vars, NEW p \in Purchases
  PROVE  /\ life[p] # "none" => life'[p] # "none" /\ madeOn'[p] = madeOn[p]
         /\ life[p] = "settled" => life'[p] = "settled" /\ bookedOn'[p] = bookedOn[p]
         /\ life'[p] = "pending" => life[p] \in {"none", "pending"}
         /\ life'[p] = "limbo" =>
              \/ life[p] = "limbo" /\ leftOn'[p] = leftOn[p]
              \/ life[p] = "pending" /\ leftOn'[p] = today
         /\ life'[p] = "settled" /\ life[p] # "settled" /\ p \in Prompt =>
              today - madeOn'[p] <= PendingExpiry - Midnights
         /\ today' >= today
<1>0. BankType
  BY DEF TInv
<1>1. ASSUME NEW q \in Purchases, Buy(q)
      PROVE  /\ UNCHANGED <<today, leftOn>> /\ life[q] = "none"
             /\ \A x \in Purchases \ {q} :
                  life'[x] = life[x] /\ madeOn'[x] = madeOn[x] /\ bookedOn'[x] = bookedOn[x]
             /\ life'[q] \in {"pending", "settled"}
             /\ today - madeOn'[q] <= PendingExpiry - Midnights
  BY <1>0, <1>1, LedgerAssumption DEF Buy, BankType
<1>2. ASSUME NEW q \in Purchases, Vanish(q)
      PROVE  /\ UNCHANGED <<today, madeOn, bookedOn>> /\ life[q] = "pending"
             /\ \A x \in Purchases \ {q} : life'[x] = life[x] /\ leftOn'[x] = leftOn[x]
             /\ life'[q] = "limbo" /\ leftOn'[q] = today
  BY <1>0, <1>2 DEF Vanish, BankType
<1>3. ASSUME NEW q \in Purchases, Settle(q)
      PROVE  /\ UNCHANGED <<today, madeOn>> /\ life[q] \in {"pending", "limbo"}
             /\ \A x \in Purchases \ {q} :
                  life'[x] = life[x] /\ leftOn'[x] = leftOn[x] /\ bookedOn'[x] = bookedOn[x]
             /\ life'[q] = "settled"
             /\ q \in Prompt => today - madeOn[q] <= PendingExpiry - Midnights
  BY <1>0, <1>3, LedgerAssumption DEF Settle, BankType, LastDay
<1>4. CASE NextDay
  BY <1>0, <1>4 DEF NextDay, BankType
<1>5. CASE Sync \/ Export \/ UNCHANGED vars
  <2>1. UNCHANGED <<today, life, madeOn, bookedOn, leftOn>>
    BY <1>5 DEF Sync, FetchFirst, FetchSecond, Upsert, LoadRows, Reconcile, Finish, Fail,
                Export, vars, bank
  <2> QED
    BY <1>0, <2>1 DEF BankType
<1>6. CASE \E q \in Purchases : Buy(q)
  BY <1>0, <1>1, <1>6 DEF BankType
<1>7. CASE \E q \in Purchases : Vanish(q)
  BY <1>0, <1>2, <1>7 DEF BankType
<1>8. CASE \E q \in Purchases : Settle(q)
  BY <1>0, <1>3, <1>8 DEF BankType
<1> QED
  BY <1>4, <1>5, <1>6, <1>7, <1>8 DEF Next, Bank

\* The day a sync began, and how far it is from today.
LEMMA SyncDays ==
  ASSUME TInv, [Next]_vars
  PROVE  /\ today \in Nat /\ nights \in Nat /\ Midnights \in Nat /\ PendingExpiry \in Nat
         /\ nights <= Midnights /\ nights <= today
         /\ today' \in Nat /\ nights' \in Nat
         /\ FetchFirst \/ phase' = "idle" \/ today' - nights' = today - nights
<1>1. /\ today \in Nat /\ nights \in Nat /\ Midnights \in Nat /\ PendingExpiry \in Nat
      /\ nights <= Midnights /\ nights <= today
  BY LedgerAssumption DEF TInv, BankType
<1>2. today' \in Nat /\ nights' \in Nat
  BY <1>1, BankTypeStep DEF TInv, BankType
<1>3. CASE \E p \in Purchases : Buy(p) \/ Vanish(p) \/ Settle(p)
  BY <1>1, <1>2, <1>3 DEF Buy, Vanish, Settle
<1>4. CASE NextDay
  <2>1. /\ today' = today + 1
        /\ phase' = IF phase = "done" THEN "idle" ELSE phase
        /\ phase \in {"idle", "done"} \/ nights' = nights + 1
    BY <1>4 DEF NextDay, BankMoves
  <2>2. CASE phase \in {"idle", "done"}
    BY <1>1, <1>2, <2>1, <2>2
  <2>3. CASE nights' = nights + 1
    BY <1>1, <1>2, <2>1, <2>3
  <2> QED
    BY <2>1, <2>2, <2>3
<1>5. CASE Sync \/ Export \/ UNCHANGED vars
  BY <1>1, <1>2, <1>5 DEF Sync, FetchSecond, Upsert, LoadRows, Reconcile, Finish, Fail,
                          Export, vars, bank
<1> QED
  BY <1>1, <1>2, <1>3, <1>4, <1>5 DEF Next, Bank

LEMMA DatesStep == TInv /\ Dates /\ [Next]_vars => Dates'
<1> SUFFICES ASSUME TInv, Dates, [Next]_vars PROVE Dates'
  OBVIOUS
<1> USE DEF TInv, BankType
<1>1. ASSUME NEW p \in Purchases, Buy(p) PROVE Dates'
  BY <1>1 DEF Dates, Buy
<1>2. ASSUME NEW p \in Purchases, Vanish(p) PROVE Dates'
  BY <1>2 DEF Dates, Vanish
<1>3. ASSUME NEW p \in Purchases, Settle(p) PROVE Dates'
  BY <1>3 DEF Dates, Settle
<1>4. CASE NextDay
  BY <1>4 DEF Dates, NextDay
<1>5. CASE Sync \/ Export \/ UNCHANGED vars
  <2>1. UNCHANGED bank
    BY <1>5 DEF Sync, FetchFirst, FetchSecond, Upsert, LoadRows, Reconcile, Finish, Fail,
                Export, vars
  <2> QED
    BY <2>1 DEF bank, Dates
<1> QED
  BY <1>1, <1>2, <1>3, <1>4, <1>5 DEF Next, Bank

\* A key does not change once a report can have it.
LEMMA KeysStay ==
  ASSUME TInv, [Next]_vars, NEW p \in Purchases, life[p] # "none",
         NEW status \in Statuses, status = "SETTLED" => life[p] = "settled"
  PROVE  Key(p, status)' = Key(p, status)
<1>1. madeOn'[p] = madeOn[p] /\ (status = "SETTLED" => bookedOn'[p] = bookedOn[p])
  BY BankSteps
<1> QED
  BY <1>1 DEF Key, IdOf, Statuses

\* The row that a report finds is of the same purchase.
LEMMA SamePurchase ==
  ASSUME Distinguishable, TInv, KeyInv, NEW tx \in batch, Upsert(tx),
         NEW r \in Existing(tx)
  PROVE  r \in rows /\ r.of = tx.of /\ r.hash = tx.hash
<1>1. tx \in Tx /\ Hashed(tx) /\ phase = "upsert"
  BY DEF Upsert, TInv, SyncType
<1>2. r \in rows /\ r.hash = tx.hash
  BY <1>1, ExistingByHash DEF TInv
<1>3. r.hash = Key(r.of, r.status) /\ tx.hash = Key(tx.of, tx.status)
  BY <1>1, <1>2 DEF KeyInv, Keyed, Reported
<1>4. r.of \in Purchases /\ tx.of \in Purchases /\ r.status \in Statuses /\ tx.status \in Statuses
  BY <1>1, <1>2 DEF TInv, RowType, Row, Tx
<1> QED
  BY <1>2, <1>3, <1>4, KeysDiffer

\* What is known of a report when it is stored.
LEMMA Storing ==
  ASSUME TInv, KeyInv, NEW tx \in batch, Upsert(tx)
  PROVE  /\ phase = "upsert" /\ UNCHANGED <<bank, told, phase, actual>>
         /\ tx \in Tx /\ Hashed(tx) /\ tx.of \in Purchases /\ tx.status \in Statuses
         /\ tx.of \in Told(tx.status) /\ tx.look = Look[tx.of]
         /\ tx.hash = Key(tx.of, tx.status) /\ life[tx.of] # "none"
         /\ tx.status = "SETTLED" => life[tx.of] = "settled"
<1>1. /\ phase = "upsert" /\ UNCHANGED <<bank, told, phase, actual>>
      /\ tx \in Tx /\ Hashed(tx)
  BY DEF Upsert, TInv, SyncType
<1>2. /\ tx.of \in Told(tx.status) /\ tx.look = Look[tx.of]
      /\ tx.hash = Key(tx.of, tx.status)
  BY <1>1 DEF KeyInv, Reported
<1>3. tx.of \in Purchases /\ tx.status \in Statuses
  BY <1>1 DEF Tx
<1>4. life[tx.of] # "none" /\ (tx.status = "SETTLED" => life[tx.of] = "settled")
  BY <1>2, <1>3 DEF KeyInv, Telling, Statuses
<1> QED
  BY <1>1, <1>2, <1>3, <1>4

\* The rows after a step, each with the row or the report it comes from.
LEMMA Origins ==
  ASSUME TInv, [Next]_vars, NEW s \in rows'
  PROVE  \/ \E r \in rows : Becomes(r, s)
         \/ \E tx \in batch : Upsert(tx) /\ Existing(tx) = {} /\ s = NewRow(tx)
<1>1. PICK f, new : Maps(f, new)
  BY RowSteps
<1> QED
  BY <1>1 DEF Maps

LEMMA Fates ==
  ASSUME TInv, [Next]_vars, NEW r \in rows
  PROVE  \E s \in rows' : Becomes(r, s)
<1>1. PICK f, new : Maps(f, new)
  BY RowSteps
<1> QED
  BY <1>1 DEF Maps

\* A row keeps its status, or gets that of a report of its purchase.
LEMMA StatusFrom ==
  ASSUME Distinguishable, TInv, KeyInv, [Next]_vars, NEW r \in rows, NEW s, Becomes(r, s),
         s.status # r.status
  PROVE  /\ phase = "upsert" /\ UNCHANGED <<bank, told, phase>>
         /\ r.of \in Told(s.status) /\ r.look = Look[r.of]
         /\ r.hash = Key(r.of, s.status) /\ s.status \in Statuses
         /\ ~s.deleted /\ s.updated = today
<1>1. Stored(r, s)
  BY DEF Becomes, Dropped, Marked
<1>2. PICK tx \in batch : /\ Upsert(tx) /\ r \in Existing(tx) /\ s.status = tx.status
                          /\ ~s.deleted /\ s.updated = today
  BY <1>1 DEF Stored
<1>3. r.of = tx.of /\ r.hash = tx.hash
  BY <1>2, SamePurchase
<1>4. /\ phase = "upsert" /\ UNCHANGED <<bank, told, phase>>
      /\ tx.of \in Told(tx.status) /\ tx.status \in Statuses
      /\ tx.hash = Key(tx.of, tx.status)
  BY <1>2, Storing
<1>5. r.look = Look[r.of]
  BY DEF KeyInv, Keyed
<1> QED
  BY <1>2, <1>3, <1>4, <1>5

LEMMA KeyedStep ==
  ASSUME Distinguishable, TInv, KeyInv, [Next]_vars, NEW s \in rows'
  PROVE  Keyed(s)'
<1>1. ASSUME NEW r \in rows, Becomes(r, s) PROVE Keyed(s)'
  <2>1. /\ Keyed(r) /\ r \in Row /\ r.of \in Purchases /\ r.status \in Statuses
        /\ s.of = r.of /\ s.hash = r.hash /\ s.look = r.look /\ s \in Row
    BY <1>1 DEF KeyInv, TInv, RowType, Row, Becomes
  <2>2. /\ today \in Nat /\ today' >= today /\ madeOn \in [Purchases -> Nat]
        /\ madeOn[r.of] <= today /\ r.updated \in Nat
    BY <2>1, BankSteps DEF TInv, BankType, KeyInv, Dates, Keyed, Row
  <2>3. madeOn'[s.of] <= s.updated /\ s.updated <= today'
    <3>1. madeOn'[s.of] = madeOn[r.of] /\ madeOn[r.of] <= r.updated /\ r.updated <= today
      BY <2>1, BankSteps DEF Keyed
    <3>2. s.updated \in {r.updated, today} /\ madeOn[r.of] \in Nat /\ today' \in Nat
      BY <1>1, <2>1, <2>2, BankTypeStep
         DEF Becomes, Stored, Dropped, Marked, TInv, BankType
    <3> QED
      BY <2>2, <3>1, <3>2, SMT
  <2>4. CASE s.status = r.status
    <3>1. Key(s.of, s.status)' = Key(r.of, r.status)
      BY <2>1, <2>4, KeysStay DEF Keyed
    <3>2. s.status = "SETTLED" => ~s.deleted
      BY <1>1, <2>1, <2>4 DEF Becomes, Stored, Dropped, Marked, Keyed, TInv, SyncType, Live
    <3> QED
      BY <2>1, <2>3, <2>4, <3>1, <3>2, BankSteps DEF Keyed
  <2>5. CASE s.status # r.status
    <3>1. /\ UNCHANGED bank /\ r.hash = Key(r.of, s.status) /\ r.of \in Told(s.status)
          /\ ~s.deleted /\ s.status \in Statuses
      BY <1>1, <2>5, StatusFrom
    <3>2. s.status = "SETTLED" => life[r.of] = "settled"
      BY <3>1 DEF KeyInv, Telling
    <3>3. Key(s.of, s.status)' = Key(r.of, s.status)
      BY <2>1, <3>1, <3>2, KeysStay DEF Keyed
    <3> QED
      BY <2>1, <2>3, <3>1, <3>2, <3>3, BankSteps DEF Keyed
  <2> QED
    BY <2>4, <2>5
<1>2. ASSUME NEW tx \in batch, Upsert(tx), s = NewRow(tx) PROVE Keyed(s)'
  <2>1. /\ UNCHANGED bank /\ tx \in Tx /\ Hashed(tx) /\ tx.of \in Purchases
        /\ tx.status \in Statuses /\ tx.look = Look[tx.of]
        /\ tx.hash = Key(tx.of, tx.status) /\ life[tx.of] # "none"
        /\ tx.status = "SETTLED" => life[tx.of] = "settled"
    BY <1>2, Storing
  <2>2. /\ s.hash = tx.hash /\ s.of = tx.of /\ s.look = tx.look /\ s.status = tx.status
        /\ s.updated = today /\ ~s.deleted
    BY <1>2, <2>1, NewRowType DEF TInv
  <2>3. Key(s.of, s.status)' = Key(tx.of, tx.status)
    BY <2>1, <2>2, KeysStay
  <2>4. madeOn[tx.of] <= today /\ today <= today
    BY <2>1 DEF KeyInv, Dates, TInv, BankType
  <2> QED
    BY <2>1, <2>2, <2>3, <2>4 DEF Keyed, bank
<1> QED
  BY <1>1, <1>2, Origins

-----------------------------------------------------------------------------
(***************************************************************************)
(* What a sync was told.                                                   *)
(***************************************************************************)

\* A step of the bank during a sync, or between two.
LEMMA BankMoved ==
  ASSUME Bank
  PROVE  /\ UNCHANGED <<rows, actual, memory>>
         /\ \/ phase' = phase /\ told' = told
            \/ phase = "done" /\ phase' = "idle" /\ told' = {}
<1>1. BankMoves
  BY DEF Bank, Buy, Vanish, Settle, NextDay
<1> QED
  BY <1>1 DEF BankMoves

\* The steps that leave what was fetched alone.
LEMMA FetchedKept ==
  ASSUME [Next]_vars, phase' = "fetch", ~FetchFirst
  PROVE  phase = "fetch" /\ UNCHANGED <<rows, batch, told>>
<1>1. CASE Bank
  BY <1>1, BankMoved DEF memory
<1>2. CASE UNCHANGED vars
  BY <1>2 DEF vars, memory
<1> QED
  BY <1>1, <1>2 DEF Next, Sync, FetchSecond, Upsert, LoadRows, Reconcile, Finish, Fail, Export

LEMMA FetchedStep ==
  ASSUME TInv, KeyInv, [Next]_vars
  PROVE  Fetched'
<1> SUFFICES ASSUME phase' = "fetch" PROVE Fetched'
  BY DEF Fetched
<1>0. \A r \in rows : r.of \in Purchases
  BY DEF TInv, RowType, Row
<1>1. CASE FetchFirst
  <2>1. batch' = SettledFeed /\ UNCHANGED <<rows, life, bookedOn>>
    BY <1>1 DEF FetchFirst, Feed, bank
  <2>2. \A tx \in batch' :
          /\ tx.of \in Purchases /\ life'[tx.of] = "settled"
          /\ tx = Report(tx.of, "SETTLED")'
    BY <2>1 DEF SettledFeed, Report
  <2>3. ASSUME NEW r \in rows, r.status = "SETTLED" PROVE \E tx \in batch' : tx.of = r.of
    <3>1. life[r.of] = "settled" /\ r.of \in Purchases
      BY <1>0, <2>3 DEF KeyInv, Keyed
    <3>2. Report(r.of, "SETTLED") \in batch' /\ Report(r.of, "SETTLED").of = r.of
      BY <2>1, <3>1 DEF SettledFeed, Report
    <3> QED
      BY <3>2
  <2> QED
    BY <2>1, <2>2, <2>3 DEF Fetched
<1>2. CASE ~FetchFirst
  <2>1. phase = "fetch" /\ UNCHANGED <<rows, batch>>
    BY <1>2, FetchedKept
  <2>2. ASSUME NEW tx \in batch
        PROVE  life'[tx.of] = "settled" /\ tx = Report(tx.of, "SETTLED")'
    <3>1. life[tx.of] = "settled" /\ tx = Report(tx.of, "SETTLED") /\ tx.of \in Purchases
      BY <2>1 DEF KeyInv, Fetched, TInv, SyncType, Tx
    <3>2. life'[tx.of] = "settled" /\ bookedOn'[tx.of] = bookedOn[tx.of]
      BY <3>1, BankSteps
    <3>3. Report(tx.of, "SETTLED")' = Report(tx.of, "SETTLED")
      BY <3>2 DEF Report
    <3> QED
      BY <3>1, <3>2, <3>3
  <2> QED
    BY <2>1, <2>2 DEF KeyInv, Fetched
<1> QED
  BY <1>1, <1>2

\* The reports a sync fetches are of different purchases.
LEMMA BothFeeds ==
  ASSUME TInv, KeyInv, FetchSecond, NEW tx \in batch \cup Feed(2)
  PROVE  /\ tx.of \in Purchases /\ tx.status \in Statuses /\ tx = Report(tx.of, tx.status)
         /\ tx.status = "SETTLED" => life[tx.of] = "settled"
         /\ tx.status = "PENDING" => life[tx.of] = "pending"
         /\ tx.look = Look[tx.of] /\ tx.id = IdOf(tx.of, tx.status)
         /\ tx.rank = Rank[tx.of] /\ tx.booked = bookedOn[tx.of]
<1>1. CASE tx \in batch
  <2>1. tx = Report(tx.of, "SETTLED") /\ life[tx.of] = "settled" /\ tx \in Tx
    BY <1>1 DEF FetchSecond, KeyInv, Fetched, TInv, SyncType
  <2>2. tx.of \in Purchases
    BY <2>1 DEF Tx
  <2> QED
    BY <2>1, <2>2 DEF Report, IdOf, Statuses
<1>2. CASE tx \in Feed(2)
  <2>1. PICK p \in Purchases : life[p] = "pending" /\ tx = Report(p, "PENDING")
    BY <1>2 DEF Feed, PendingFeed
  <2> QED
    BY <2>1 DEF Report, IdOf, Statuses
<1> QED
  BY <1>1, <1>2

\* What the second fetch tells.
LEMMA Tells ==
  ASSUME TInv, KeyInv, FetchSecond
  PROVE  /\ told' = {<<tx.of, tx.status>> : tx \in batch \cup Feed(2)}
         /\ \A p \in Purchases :
              /\ p \in Told("SETTLED")' <=> \E tx \in batch : tx.of = p
              /\ p \in Told("PENDING")' <=> life[p] = "pending"
<1> DEFINE reports == batch \cup Feed(2)
<1>1. batch' = NormalizeBatch(reports) /\ told' = {<<tx.of, tx.status>> : tx \in batch'}
  BY DEF FetchSecond
<1>2. \A tx \in reports : tx \in Tx
  BY FeedType DEF TInv, SyncType
<1> DEFINE new == [tx \in reports |-> [tx EXCEPT !.hash = RawHash(tx, reports)]]
<1>3. \A tx \in reports : new[tx].of = tx.of /\ new[tx].status = tx.status
  BY <1>2 DEF Tx
<1>7. batch' = {new[tx] : tx \in reports}
  BY <1>1 DEF NormalizeBatch
<1> HIDE DEF new
<1>4. told' = {<<tx.of, tx.status>> : tx \in reports}
  <2> HIDE DEF reports
  <2>1. ASSUME NEW x \in told' PROVE \E tx \in reports : x = <<tx.of, tx.status>>
    <3>1. PICK u \in batch' : x = <<u.of, u.status>>
      BY <1>1
    <3>2. PICK tx \in reports : u = new[tx]
      BY <1>7, <3>1
    <3> QED
      BY <1>3, <3>1, <3>2
  <2>2. ASSUME NEW tx \in reports PROVE <<tx.of, tx.status>> \in told'
    <3>1. new[tx] \in batch' /\ new[tx].of = tx.of /\ new[tx].status = tx.status
      BY <1>3, <1>7
    <3> QED
      BY <1>1, <3>1
  <2>3. \A x \in told' : x \in {<<tx.of, tx.status>> : tx \in reports}
    BY <2>1
  <2>4. {<<tx.of, tx.status>> : tx \in reports} \subseteq told'
    BY <2>2
  <2> QED
    BY <2>3, <2>4
<1>5. ASSUME NEW p \in Purchases
      PROVE  p \in Told("SETTLED")' <=> \E tx \in batch : tx.of = p
  <2>1. ASSUME <<p, "SETTLED">> \in told' PROVE \E tx \in batch : tx.of = p
    <3>1. PICK tx \in reports : tx.of = p /\ tx.status = "SETTLED"
      BY <1>4, <2>1
    <3>2. tx \notin Feed(2)
      BY <3>1 DEF Feed, PendingFeed, Report
    <3> QED
      BY <3>1, <3>2
  <2>2. ASSUME NEW tx \in batch, tx.of = p PROVE <<p, "SETTLED">> \in told'
    <3>1. tx.status = "SETTLED"
      BY DEF KeyInv, Fetched, FetchSecond, Report
    <3> QED
      BY <1>4, <2>2, <3>1
  <2> QED
    BY <2>1, <2>2 DEF Told
<1>6. ASSUME NEW p \in Purchases
      PROVE  p \in Told("PENDING")' <=> life[p] = "pending"
  <2>1. ASSUME <<p, "PENDING">> \in told' PROVE life[p] = "pending"
    <3>1. PICK tx \in reports : tx.of = p /\ tx.status = "PENDING"
      BY <1>4, <2>1
    <3> QED
      BY <3>1, BothFeeds
  <2>2. ASSUME life[p] = "pending" PROVE <<p, "PENDING">> \in told'
    <3>1. Report(p, "PENDING") \in reports
      BY <2>2 DEF Feed, PendingFeed
    <3>2. Report(p, "PENDING").of = p /\ Report(p, "PENDING").status = "PENDING"
      BY DEF Report
    <3> QED
      BY <1>4, <3>1, <3>2
  <2> QED
    BY <2>1, <2>2 DEF Told
<1> QED
  BY <1>4, <1>5, <1>6

\* What was told stays, until the sync is over.
LEMMA ToldKept ==
  ASSUME [Next]_vars, Underway', ~FetchSecond
  PROVE  Underway /\ told' = told
<1>1. CASE Bank
  BY <1>1, BankMoved DEF Underway
<1>2. CASE UNCHANGED vars
  BY <1>2 DEF vars, Underway
<1> QED
  BY <1>1, <1>2 DEF Next, Sync, FetchFirst, Upsert, LoadRows, Reconcile, Finish, Fail, Export,
                    Underway

LEMMA TellingStep ==
  ASSUME TInv, KeyInv, [Next]_vars
  PROVE  Telling'
<1>1. CASE FetchSecond
  <2>1. phase' = "upsert" /\ UNCHANGED bank
    BY <1>1 DEF FetchSecond
  <2>2. \A p \in Purchases :
          /\ p \in Told("SETTLED")' => life[p] = "settled"
          /\ p \in Told("PENDING")' <=> life[p] = "pending"
    BY <1>1, Tells DEF KeyInv, Fetched, FetchSecond
  <2> QED
    BY <2>1, <2>2 DEF Telling, Underway, Told, bank
<1>2. CASE ~FetchSecond /\ Underway'
  <2>1. Underway /\ told' = told
    BY <1>2, ToldKept
  <2> QED
    BY <1>2, <2>1, BankSteps DEF KeyInv, Telling, Told
<1>3. CASE ~Underway'
  <2>1. told' = {}
    <3>1. CASE Bank
      BY <1>3, <3>1, BankMoved DEF KeyInv, Telling, Underway
    <3>2. CASE Export \/ UNCHANGED vars
      BY <1>3, <3>2 DEF KeyInv, Telling, Underway, Export, vars
    <3>3. CASE Sync
      BY <1>3, <3>3 DEF KeyInv, Telling, Underway, Sync, FetchFirst, FetchSecond, Upsert,
                        LoadRows, Reconcile, Finish, Fail
    <3> QED
      BY <3>1, <3>2, <3>3 DEF Next
  <2> QED
    BY <1>3, <2>1 DEF Telling, Told
<1> QED
  BY <1>1, <1>2, <1>3

\* A report without an id is alone with its fingerprint.
LEMMA AloneWithPrint ==
  ASSUME Distinguishable, TInv, KeyInv, FetchSecond,
         NEW tx \in batch \cup Feed(2), tx.id = None
  PROVE  Index(tx, batch \cup Feed(2)) = 0
<1> DEFINE reports == batch \cup Feed(2)
<1>1. ASSUME NEW u \in reports, u.id = None, Fingerprint(u) = Fingerprint(tx), Before(u, tx)
      PROVE  FALSE
  <2>1. u.look = tx.look
    BY <1>1 DEF Fingerprint
  <2>2. /\ u.of \in Purchases /\ u.status \in Statuses /\ u = Report(u.of, u.status)
        /\ u.status = "SETTLED" => life[u.of] = "settled"
        /\ u.status = "PENDING" => life[u.of] = "pending"
        /\ u.look = Look[u.of] /\ u.id = IdOf(u.of, u.status) /\ u.rank = Rank[u.of]
    BY BothFeeds
  <2>3. /\ tx.of \in Purchases /\ tx.status \in Statuses /\ tx = Report(tx.of, tx.status)
        /\ tx.status = "SETTLED" => life[tx.of] = "settled"
        /\ tx.status = "PENDING" => life[tx.of] = "pending"
        /\ tx.look = Look[tx.of] /\ tx.id = IdOf(tx.of, tx.status) /\ tx.rank = Rank[tx.of]
    BY BothFeeds
  <2>4. u.of = tx.of
    <3>1. IdOf(u.of, u.status) = IdOf(tx.of, tx.status) /\ Look[u.of] = Look[tx.of]
      BY <1>1, <2>1, <2>2, <2>3
    <3> QED
      BY <2>2, <2>3, <3>1 DEF Distinguishable
  <2>5. u.status = tx.status
    BY <2>2, <2>3, <2>4 DEF Statuses
  <2>6. u.rank = tx.rank /\ u.rank \in Nat
    BY <2>2, <2>3, <2>4, LedgerAssumption
  <2> QED
    BY <1>1, <2>5, <2>6 DEF Before, Statuses
<1>2. {u \in reports : /\ u.id = None
                       /\ Fingerprint(u) = Fingerprint(tx)
                       /\ Before(u, tx)} = {}
  BY <1>1
<1> QED
  BY <1>2, FS_EmptySet DEF Index

\* normalizeBatch gives every report its key.
LEMMA HashIsKey ==
  ASSUME Distinguishable, TInv, KeyInv, FetchSecond, NEW tx \in batch \cup Feed(2)
  PROVE  RawHash(tx, batch \cup Feed(2)) = Key(tx.of, tx.status)
<1> DEFINE reports == batch \cup Feed(2)
<1>1. reports \in SUBSET Tx /\ IsFiniteSet(reports)
  BY FeedType, FS_Union DEF TInv, SyncType, FetchSecond
<1>2. /\ tx.of \in Purchases /\ tx.status \in Statuses
      /\ tx.status = "PENDING" => life[tx.of] = "pending"
      /\ tx.look = Look[tx.of] /\ tx.id = IdOf(tx.of, tx.status)
      /\ tx.booked = bookedOn[tx.of]
  BY BothFeeds
<1>3. tx.booked = IF tx.status = "PENDING" THEN madeOn[tx.of] ELSE bookedOn[tx.of]
  BY <1>2 DEF KeyInv, Dates
<1>4. RawHash(tx, reports) =
        IF tx.id # None THEN <<tx.id>> ELSE <<<<tx.look, tx.booked>>, Index(tx, reports)>>
  BY <1>1, Normalized
<1> QED
  BY <1>2, <1>3, <1>4, AloneWithPrint DEF Key

LEMMA ReportedStep ==
  ASSUME Distinguishable, TInv, KeyInv, [Next]_vars
  PROVE  Reported'
<1> SUFFICES ASSUME phase' = "upsert", NEW u \in batch'
             PROVE  /\ u.of \in Told(u.status)' /\ u.look = Look[u.of]
                    /\ u.id = IdOf(u.of, u.status) /\ u.hash = Key(u.of, u.status)'
  BY DEF Reported, IdOf
<1>1. CASE FetchSecond
  <2> DEFINE reports == batch \cup Feed(2)
             new == [tx \in reports |-> [tx EXCEPT !.hash = RawHash(tx, reports)]]
  <2>1. batch' = {new[tx] : tx \in reports} /\ UNCHANGED <<life, madeOn, bookedOn>>
    BY <1>1 DEF FetchSecond, NormalizeBatch, bank
  <2>2. PICK tx \in reports : u = new[tx]
    BY <2>1
  <2>3. tx \in Tx
    BY FeedType DEF TInv, SyncType
  <2>4. /\ u.of = tx.of /\ u.status = tx.status /\ u.look = tx.look /\ u.id = tx.id
        /\ u.hash = RawHash(tx, reports)
    BY <2>2, <2>3 DEF Tx
  <2> HIDE DEF new, reports
  <2>5. /\ tx.of \in Purchases /\ tx.status \in Statuses
        /\ tx.look = Look[tx.of] /\ tx.id = IdOf(tx.of, tx.status)
    BY <1>1, <2>2, BothFeeds DEF reports
  <2>6. u.hash = Key(tx.of, tx.status)
    BY <1>1, <2>2, <2>4, HashIsKey DEF reports
  <2>7. Key(u.of, u.status)' = Key(tx.of, tx.status)
    BY <2>1, <2>4 DEF Key, IdOf
  <2>8. <<tx.of, tx.status>> \in told'
    BY <1>1, <2>2, Tells DEF reports
  <2> QED
    BY <2>4, <2>5, <2>6, <2>7, <2>8 DEF Told
<1>2. CASE ~FetchSecond
  <2>1. phase = "upsert" /\ u \in batch /\ told' = told
    <3>1. CASE Bank
      BY <1>2, <3>1, BankMoved DEF memory
    <3>2. CASE UNCHANGED vars
      BY <3>2 DEF vars, memory
    <3>3. CASE Export
      BY <3>3 DEF Export
    <3> QED
      BY <1>2, <3>1, <3>2, <3>3
         DEF Next, Sync, FetchFirst, Upsert, LoadRows, Reconcile, Finish, Fail
  <2>2. /\ u.of \in Told(u.status) /\ u.look = Look[u.of]
        /\ u.id = IdOf(u.of, u.status) /\ u.hash = Key(u.of, u.status)
    BY <2>1 DEF KeyInv, Reported
  <2>3. u.of \in Purchases /\ u.status \in Statuses
    BY <2>1 DEF TInv, SyncType, Tx
  <2>4. life[u.of] # "none" /\ (u.status = "SETTLED" => life[u.of] = "settled")
    BY <2>2, <2>3 DEF KeyInv, Telling, Statuses
  <2>5. Key(u.of, u.status)' = Key(u.of, u.status)
    BY <2>3, <2>4, KeysStay
  <2> QED
    BY <2>1, <2>2, <2>5 DEF Told
<1> QED
  BY <1>1, <1>2

LEMMA KnownStep ==
  ASSUME Distinguishable, TInv, KeyInv, [Next]_vars
  PROVE  Known'
<1> SUFFICES ASSUME Underway', NEW s \in rows'
             PROVE  /\ s.status = "SETTLED" => s.of \in Told("SETTLED")'
                    /\ life'[s.of] = "pending" => s.of \in Told("PENDING")'
  BY DEF Known
<1>0. \A r \in rows : r.of \in Purchases /\ r.status \in Statuses /\ Keyed(r)
  BY DEF TInv, RowType, Row, KeyInv
<1>1. CASE FetchSecond
  <2>1. UNCHANGED <<rows, life>> /\ phase = "fetch"
    BY <1>1 DEF FetchSecond, bank
  <2>2. s.status = "SETTLED" => \E tx \in batch : tx.of = s.of
    BY <2>1 DEF KeyInv, Fetched
  <2> QED
    BY <1>0, <1>1, <2>1, <2>2, Tells
<1>2. CASE ~FetchSecond
  <2>1. Underway /\ told' = told
    BY <1>2, ToldKept
  <2>2. ASSUME NEW r \in rows, Becomes(r, s)
        PROVE  /\ s.status = "SETTLED" => s.of \in Told("SETTLED")'
               /\ life'[s.of] = "pending" => s.of \in Told("PENDING")'
    <3>1. s.of = r.of /\ (life'[r.of] = "pending" => life[r.of] = "pending")
      BY <1>0, <2>2, BankSteps DEF Becomes, Keyed
    <3>2. s.status # r.status => r.of \in Told(s.status)
      BY <2>2, StatusFrom
    <3> QED
      BY <2>1, <3>1, <3>2 DEF KeyInv, Known, Told
  <2>3. ASSUME NEW tx \in batch, Upsert(tx), s = NewRow(tx)
        PROVE  /\ s.status = "SETTLED" => s.of \in Told("SETTLED")'
               /\ life'[s.of] = "pending" => s.of \in Told("PENDING")'
    <3>1. /\ UNCHANGED life /\ tx.of \in Told(tx.status) /\ tx.status \in Statuses
          /\ tx.status = "SETTLED" => life[tx.of] = "settled"
      BY <2>3, Storing DEF bank
    <3>2. s.of = tx.of /\ s.status = tx.status
      BY <2>3 DEF NewRow
    <3> QED
      BY <2>1, <3>1, <3>2 DEF Told, Statuses
  <2> QED
    BY <2>2, <2>3, Origins
<1> QED
  BY <1>1, <1>2

LEMMA KeyStep == Distinguishable /\ TInv /\ KeyInv /\ [Next]_vars => KeyInv'
<1> SUFFICES ASSUME Distinguishable, TInv, KeyInv, [Next]_vars PROVE KeyInv'
  OBVIOUS
<1>1. Dates'
  BY DatesStep DEF KeyInv
<1>2. \A s \in rows' : Keyed(s)'
  BY KeyedStep
<1> QED
  BY <1>1, <1>2, FetchedStep, TellingStep, ReportedStep, KnownStep DEF KeyInv

LEMMA KeyInit == Init => KeyInv
<1> SUFFICES ASSUME Init PROVE KeyInv
  OBVIOUS
<1>1. phase = "idle" /\ rows = {} /\ told = {} /\ \A p \in Purchases : life[p] = "none"
  BY DEF Init
<1> QED
  BY <1>1 DEF KeyInv, Dates, Fetched, Telling, Reported, Known, Underway, Told

\* Every row has the hash of the reports on the purchase it was made for, and belongs
\* to what the sync was told: normalizeBatch and upsertTransactions mix nothing up.
THEOREM KeysHold == Distinguishable => (Spec => [](TInv /\ KeyInv))
<1> SUFFICES ASSUME Distinguishable PROVE Spec => [](TInv /\ KeyInv)
  OBVIOUS
<1>1. TInv /\ KeyInv /\ [Next]_vars => KeyInv'
  BY KeyStep
<1> QED
  BY <1>1, KeyInit, Typed, PTL DEF Spec

LEMMA SettledKept ==
  ASSUME Distinguishable, TInv, KeyInv, [Next]_vars, NEW r \in Live("SETTLED")
  PROVE  \E s \in Live("SETTLED")' : s.hash = r.hash /\ s.of = r.of /\ s.look = r.look
<1>1. r \in rows /\ r.status = "SETTLED" /\ ~r.deleted
  BY DEF Live
<1>2. PICK s \in rows' : Becomes(r, s)
  BY <1>1, Fates
<1>3. s.status = "SETTLED"
  <2> SUFFICES ASSUME s.status # r.status PROVE s.status = "SETTLED"
    BY <1>1
  <2>1. phase = "upsert" /\ r.of \in Told(s.status) /\ s.status \in Statuses
    BY <1>1, <1>2, StatusFrom
  <2>2. r.of \in Told("SETTLED")
    BY <1>1, <2>1 DEF KeyInv, Known, Underway
  <2>3. r.of \notin Told("PENDING")
    BY <2>2 DEF KeyInv, Telling, Told
  <2> QED
    BY <2>1, <2>3 DEF Statuses
<1>4. ~s.deleted
  BY <1>1, <1>2 DEF Becomes, Stored, Dropped, Marked, TInv, SyncType, Live
<1> QED
  BY <1>2, <1>3, <1>4 DEF Live, Becomes

\* A settled row is never undone, whatever the bank does next, whatever fails and
\* however often the account is synchronized and exported.
THEOREM SettledRowsStay == Distinguishable => (Spec => SettledStays)
<1> SUFFICES ASSUME Distinguishable PROVE Spec => SettledStays
  OBVIOUS
<1>1. TInv /\ KeyInv /\ [Next]_vars =>
        [\A r \in Live("SETTLED") : \E s \in Live("SETTLED")' : s.hash = r.hash]_vars
  <2> SUFFICES ASSUME TInv, KeyInv, [Next]_vars, NEW r \in Live("SETTLED")
               PROVE  \E s \in Live("SETTLED")' : s.hash = r.hash
    OBVIOUS
  <2> QED
    BY SettledKept
<1> QED
  BY <1>1, KeysHold, PTL DEF Spec, SettledStays

-----------------------------------------------------------------------------
(***************************************************************************)
(* What was settled is in the table, once.  A soft-deleted row must not    *)
(* have the hash of a settlement to come, or upsertTransactions would take *)
(* the settlement for the deleted row (DownloadedIsRetained, which fails). *)
(* Settlements under a new identity are safe, and so are those that come   *)
(* in time, of a purchase that no other can be taken for.                  *)
(***************************************************************************)
NewIdentity(p)  == PendingId[p] # SettledId[p]
Unmistakable(p) == p \in Prompt /\ \A q \in Purchases : Look[q] = Look[p] => q = p
Settles         == \A p \in Purchases : NewIdentity(p) \/ Unmistakable(p)

\* No settlement has, or will have, the hash of a deleted row.
Buried(r) ==
  r.deleted =>
    /\ life[r.of] = "settled" => r.hash # Key(r.of, "SETTLED")
    /\ life[r.of] # "settled" =>
         NewIdentity(r.of) \/ today - madeOn[r.of] > PendingExpiry

\* A sync has the settled report of p in hand.
InHand(p) == IF phase = "fetch" THEN \E tx \in batch : tx.of = p ELSE p \in Told("SETTLED")

\* What settles behind a sync's back settles in time for a sync that lasts long.
InTime ==
  phase \in {"fetch", "upsert", "reconcile"} =>
    \A p \in Prompt :
      life[p] = "settled" /\ ~InHand(p) =>
        (today - nights) - madeOn[p] <= PendingExpiry - Midnights

\* What was told is still to be stored, or has its row.
Covered(status) ==
  Underway => \A p \in Told(status) :
    \/ \E tx \in batch : tx.of = p /\ tx.status = status
    \/ \E r \in rows : r.of = p /\ r.status = status

StoreInv == (\A r \in rows : Buried(r)) /\ InTime /\ Covered("SETTLED")

LEMMA NewKey ==
  ASSUME NEW p \in Purchases, NewIdentity(p)
  PROVE  Key(p, "PENDING") # Key(p, "SETTLED")
<1> DEFINE x == PendingId[p]
           y == SettledId[p]
           u == <<Look[p], madeOn[p]>>
           v == <<Look[p], bookedOn[p]>>
<1>1. /\ Key(p, "PENDING") = IF x # None THEN <<x>> ELSE <<u, 0>>
      /\ Key(p, "SETTLED") = IF y # None THEN <<y>> ELSE <<v, 0>>
      /\ x # y
  BY DEF Key, IdOf, NewIdentity
<1> HIDE DEF x, y, u, v
<1>2. <<x>> # <<v, 0>> /\ <<y>> # <<u, 0>> /\ (<<x>> = <<y>> => x = y)
  <2>1. Len(<<x>>) = 1 /\ Len(<<y>>) = 1 /\ Len(<<u, 0>>) = 2 /\ Len(<<v, 0>>) = 2
    OBVIOUS
  <2> QED
    BY <2>1
<1> QED
  BY <1>1, <1>2

LEMMA NewKeyNext ==
  ASSUME NEW p \in Purchases, NewIdentity(p)
  PROVE  Key(p, "PENDING")' # Key(p, "SETTLED")'
<1> DEFINE x == PendingId[p]
           y == SettledId[p]
           u == <<Look[p], madeOn'[p]>>
           v == <<Look[p], bookedOn'[p]>>
<1>1. /\ Key(p, "PENDING")' = IF x # None THEN <<x>> ELSE <<u, 0>>
      /\ Key(p, "SETTLED")' = IF y # None THEN <<y>> ELSE <<v, 0>>
      /\ x # y
  BY DEF Key, IdOf, NewIdentity
<1> HIDE DEF x, y, u, v
<1>2. <<x>> # <<v, 0>> /\ <<y>> # <<u, 0>> /\ (<<x>> = <<y>> => x = y)
  <2>1. Len(<<x>>) = 1 /\ Len(<<y>>) = 1 /\ Len(<<u, 0>>) = 2 /\ Len(<<v, 0>>) = 2
    OBVIOUS
  <2> QED
    BY <2>1
<1> QED
  BY <1>1, <1>2

\* After an upsert the report has its row, unless a deleted one has its hash.
LEMMA UpsertStores ==
  ASSUME Distinguishable, TInv, KeyInv, [Next]_vars, NEW tx \in batch, Upsert(tx)
  PROVE  \E s \in rows' : /\ s.of = tx.of /\ s.hash = tx.hash
                          /\ s.status = tx.status \/ (s \in rows /\ s.deleted)
<1>1. rows' = Upserted(tx) /\ tx \in Tx /\ rows \subseteq Row
  BY DEF Upsert, TInv, SyncType, RowType
<1>2. CASE Existing(tx) = {}
  <2>1. NewRow(tx) \in rows'
    BY <1>1, <1>2 DEF Upserted
  <2>2. NewRow(tx).of = tx.of /\ NewRow(tx).hash = tx.hash /\ NewRow(tx).status = tx.status
    BY DEF NewRow
  <2> QED
    BY <2>1, <2>2
<1>3. CASE Existing(tx) # {}
  <2>1. PICK r \in Existing(tx) : r \in rows /\ r.of = tx.of /\ r.hash = tx.hash
    BY <1>3, SamePurchase
  <2> DEFINE new == [r EXCEPT !.status = tx.status, !.booked = tx.booked,
                              !.updated = today, !.news = TRUE]
  <2>2. (IF ~r.deleted /\ HasChanges(r, tx) THEN new ELSE r) \in rows'
    BY <1>1, <1>3, <2>1 DEF Upserted
  <2>3. new.of = r.of /\ new.hash = r.hash /\ new.status = tx.status
    BY <1>1, <2>1 DEF Row
  <2> HIDE DEF new
  <2>4. CASE ~r.deleted /\ HasChanges(r, tx)
    BY <2>1, <2>2, <2>3, <2>4
  <2>5. CASE ~r.deleted /\ ~HasChanges(r, tx)
    <3>1. r.status = tx.status
      BY <2>5 DEF HasChanges
    <3> QED
      BY <2>1, <2>2, <2>5, <3>1
  <2>6. CASE r.deleted
    BY <2>1, <2>2, <2>6
  <2> QED
    BY <2>4, <2>5, <2>6
<1> QED
  BY <1>2, <1>3

\* A row of what was told, with the status that was told, stays one.
LEMMA ToldRowsStay ==
  ASSUME Distinguishable, TInv, KeyInv, [Next]_vars, NEW r \in rows,
         r.status \in Statuses, Underway, r.of \in Told(r.status)
  PROVE  \E s \in rows' : s.of = r.of /\ s.status = r.status
<1>1. PICK s \in rows' : Becomes(r, s)
  BY Fates
<1>2. s.status = r.status
  <2> SUFFICES ASSUME s.status # r.status PROVE FALSE
    OBVIOUS
  <2>1. r.of \in Told(s.status) /\ s.status \in Statuses
    BY <1>1, StatusFrom
  <2> QED
    BY <2>1 DEF KeyInv, Telling, Statuses
<1> QED
  BY <1>1, <1>2 DEF Becomes

LEMMA CoveredStep ==
  ASSUME Distinguishable, TInv, KeyInv, [Next]_vars, NEW status \in Statuses,
         Covered(status),
         status = "SETTLED" => \A r \in rows : Buried(r)
  PROVE  Covered(status)'
<1> SUFFICES ASSUME Underway', NEW p \in Told(status)'
             PROVE  \/ \E tx \in batch' : tx.of = p /\ tx.status = status
                    \/ \E r \in rows' : r.of = p /\ r.status = status
  BY DEF Covered
<1>1. CASE FetchSecond
  <2>1. <<p, status>> \in {<<tx.of, tx.status>> : tx \in batch'}
    BY <1>1 DEF FetchSecond, Told
  <2> QED
    BY <2>1
<1>2. CASE ~FetchSecond
  <2>1. Underway /\ told' = told
    BY <1>2, ToldKept
  <2>2. p \in Told(status)
    BY <2>1 DEF Told
  <2>3. ASSUME NEW r \in rows, r.of = p, r.status = status
        PROVE  \E s \in rows' : s.of = p /\ s.status = status
    BY <2>1, <2>2, <2>3, ToldRowsStay
  <2>4. ASSUME NEW tx \in batch, tx.of = p, tx.status = status, Upsert(tx)
        PROVE  \E s \in rows' : s.of = p /\ s.status = status
    <3>1. PICK s \in rows' : /\ s.of = tx.of /\ s.hash = tx.hash
                             /\ s.status = tx.status \/ (s \in rows /\ s.deleted)
      BY <2>4, UpsertStores
    <3>2. s \in rows /\ s.deleted => s.status = status
      <4> SUFFICES ASSUME s \in rows, s.deleted PROVE s.status = status
        OBVIOUS
      <4>1. s.status = "PENDING"
        <5>1. s.status \in Statuses /\ Keyed(s)
          BY DEF TInv, RowType, Row, KeyInv
        <5> QED
          BY <5>1 DEF Keyed, Statuses
      <4>2. status # "SETTLED"
        <5> SUFFICES ASSUME status = "SETTLED" PROVE FALSE
          OBVIOUS
        <5>1. tx.hash = Key(tx.of, "SETTLED") /\ life[tx.of] = "settled"
          BY <2>4, Storing
        <5> QED
          BY <3>1, <5>1 DEF Buried
      <4> QED
        BY <4>1, <4>2 DEF Statuses
    <3> QED
      BY <2>4, <3>1, <3>2
  <2>5. ASSUME NEW tx \in batch, tx \notin batch' PROVE Upsert(tx)
    <3>1. phase \in {"upsert", "fetch"}
      BY <2>5 DEF TInv, SyncType
    <3>2. phase = "upsert"
      BY <2>1, <3>1 DEF Underway
    <3>3. ~Bank /\ ~UNCHANGED vars
      BY <2>5, BankMoved DEF memory, vars
    <3> QED
      BY <1>2, <2>5, <3>2, <3>3
         DEF Next, Sync, Underway, FetchFirst, Upsert, LoadRows, Reconcile, Finish, Fail, Export
  <2> QED
    BY <2>1, <2>2, <2>3, <2>4, <2>5 DEF Covered
<1> QED
  BY <1>1, <1>2

LEMMA InTimeStep ==
  ASSUME TInv, KeyInv, InTime, [Next]_vars
  PROVE  InTime'
<1> SUFFICES ASSUME phase' \in {"fetch", "upsert", "reconcile"}, NEW p \in Prompt,
                    life'[p] = "settled", ~InHand(p)'
             PROVE  (today' - nights') - madeOn'[p] <= PendingExpiry - Midnights
  BY DEF InTime
<1>0. p \in Purchases /\ BankType
  BY LedgerAssumption DEF TInv
<1>1. CASE FetchFirst
  <2>1. /\ phase' = "fetch" /\ batch' = SettledFeed /\ life' = life
    BY <1>1 DEF FetchFirst, Feed, bank
  <2>2. Report(p, "SETTLED") \in batch' /\ Report(p, "SETTLED").of = p
    BY <1>0, <2>1 DEF SettledFeed, Report
  <2> QED
    BY <2>1, <2>2 DEF InHand
<1>2. CASE ~FetchFirst
  <2>1. phase \in {"fetch", "upsert", "reconcile"} /\ ~InHand(p)
    <3>1. CASE FetchSecond
      <4>1. phase = "fetch" /\ phase' = "upsert"
        BY <3>1 DEF FetchSecond
      <4>2. p \notin Told("SETTLED")'
        BY <4>1 DEF InHand, Told
      <4> QED
        BY <1>0, <3>1, <4>1, <4>2, Tells DEF InHand
    <3>2. CASE Bank
      BY <3>2, BankMoved DEF InHand, Told, memory
    <3>3. CASE UNCHANGED vars
      BY <3>3 DEF InHand, Told, vars, memory
    <3>4. CASE Export
      BY <3>4 DEF Export
    <3> QED
      BY <1>2, <3>1, <3>2, <3>3, <3>4
         DEF Next, Sync, Upsert, LoadRows, Reconcile, Finish, Fail, InHand, Told
  <2>2. today' - nights' = today - nights
    BY <1>2, SyncDays
  <2>3. CASE life[p] = "settled"
    <3>1. /\ (today - nights) - madeOn[p] <= PendingExpiry - Midnights
          /\ madeOn'[p] = madeOn[p]
      BY <1>0, <2>1, <2>3, BankSteps DEF InTime
    <3> QED
      BY <2>2, <3>1
  <2>4. CASE life[p] # "settled"
    <3>1. today - madeOn'[p] <= PendingExpiry - Midnights
      BY <1>0, <2>4, BankSteps
    <3>2. madeOn'[p] \in Nat
      BY <1>0, BankTypeStep DEF BankType
    <3> QED
      BY <2>2, <3>1, <3>2, SyncDays, SMT
  <2> QED
    BY <2>3, <2>4
<1> QED
  BY <1>1, <1>2

\* A pending row that the reconciler drops is not what a settlement will be taken
\* for: the settlement has another hash, or it is there, or it is too late.
LEMMA DroppedIsBuried ==
  ASSUME Distinguishable, Settles, TInv, KeyInv, StoreInv, NEW r \in todo, Reconcile(r),
         Twins(r) # {} \/ Stale(r)
  PROVE  /\ life[r.of] = "settled" => r.hash # Key(r.of, "SETTLED")
         /\ life[r.of] # "settled" => NewIdentity(r.of) \/ today - madeOn[r.of] > PendingExpiry
<1>1. /\ r \in rows /\ r.status = "PENDING" /\ r \in Row /\ r.of \in Purchases
      /\ phase = "reconcile" /\ batch = {}
  BY DEF TInv, SyncType, RowType, Live, Row, Reconcile
<1>2. /\ r.hash = Key(r.of, "PENDING") /\ madeOn[r.of] <= r.updated /\ r.look = Look[r.of]
  BY <1>1 DEF KeyInv, Keyed
<1>3. CASE NewIdentity(r.of)
  BY <1>1, <1>2, <1>3, NewKey
<1>4. CASE ~NewIdentity(r.of)
  <2>1. r.of \in Prompt /\ \A q \in Purchases : Look[q] = r.look => q = r.of
    BY <1>1, <1>2, <1>4 DEF Settles, Unmistakable
  <2>2. CASE r.of \in Told("SETTLED")
    <3>1. PICK t \in rows : t.of = r.of /\ t.status = "SETTLED"
      BY <1>1, <2>2 DEF StoreInv, Covered, Underway
    <3>2. t.hash = Key(r.of, "SETTLED") /\ life[r.of] = "settled"
      BY <3>1 DEF KeyInv, Keyed
    <3>3. t # r
      BY <1>1, <3>1
    <3> QED
      BY <1>1, <3>1, <3>2, <3>3 DEF TInv, RowType
  <2>3. CASE r.of \notin Told("SETTLED")
    <3>1. Twins(r) = {}
      <4> SUFFICES ASSUME NEW s \in Twins(r) PROVE FALSE
        OBVIOUS
      <4>1. s \in rows /\ s.status = "SETTLED" /\ s.look = r.look
        BY <1>1 DEF Twins, Matches, TInv, SyncType, Live
      <4>2. s.of \in Purchases /\ Look[s.of] = r.look
        BY <4>1 DEF TInv, RowType, Row, KeyInv, Keyed
      <4>3. s.of \in Told("SETTLED")
        BY <1>1, <4>1 DEF KeyInv, Known, Underway
      <4> QED
        BY <2>1, <2>3, <4>2, <4>3
    <3>2. today - r.updated > PendingExpiry
      BY <3>1 DEF Stale
    <3>3. today \in Nat /\ r.updated \in Nat /\ madeOn[r.of] \in Nat /\ PendingExpiry \in Nat
      BY <1>1, LedgerAssumption DEF TInv, BankType, Row
    <3>4. today - madeOn[r.of] > PendingExpiry
      BY <1>2, <3>2, <3>3, SMT
    <3>5. life[r.of] # "settled"
      <4> SUFFICES ASSUME life[r.of] = "settled" PROVE FALSE
        OBVIOUS
      <4>1. (today - nights) - madeOn[r.of] <= PendingExpiry - Midnights
        BY <1>1, <2>1, <2>3 DEF StoreInv, InTime, InHand
      <4>2. nights \in Nat /\ Midnights \in Nat /\ nights <= Midnights
        BY LedgerAssumption DEF TInv, BankType
      <4> QED
        BY <3>3, <3>4, <4>1, <4>2, SMT
    <3> QED
      BY <3>4, <3>5
  <2> QED
    BY <2>2, <2>3
<1> QED
  BY <1>3, <1>4

LEMMA BuriedStep ==
  ASSUME Distinguishable, Settles, TInv, KeyInv, StoreInv, [Next]_vars, NEW s \in rows'
  PROVE  Buried(s)'
<1>1. CASE \E tx \in batch : s = NewRow(tx)
  BY <1>1 DEF NewRow, Buried
<1>2. ASSUME NEW r \in rows, Becomes(r, s) PROVE Buried(s)'
  <2> SUFFICES ASSUME s.deleted PROVE Buried(s)'
    BY DEF Buried
  <2>1. /\ r \in Row /\ r.of \in Purchases /\ s.of = r.of /\ s.hash = r.hash
        /\ Keyed(r) /\ Buried(r)
    BY <1>2 DEF TInv, RowType, Row, Becomes, KeyInv, StoreInv
  <2>2. r.status = "PENDING"
    <3> SUFFICES ASSUME r.status = "SETTLED" PROVE FALSE
      BY <2>1 DEF Row, Statuses
    <3>1. ~r.deleted
      BY <2>1 DEF Keyed
    <3>2. r \in todo
      BY <1>2, <3>1 DEF Becomes, Stored, Dropped, Marked
    <3> QED
      BY <3>2 DEF TInv, SyncType, Live
  <2>3. /\ life[r.of] = "settled" => r.hash # Key(r.of, "SETTLED")
        /\ life[r.of] # "settled" =>
             NewIdentity(r.of) \/ today - madeOn[r.of] > PendingExpiry
    <3>1. CASE r.deleted
      BY <2>1, <3>1 DEF Buried
    <3>2. CASE ~r.deleted
      <4>1. Reconcile(r) /\ r \in todo /\ (Twins(r) # {} \/ Stale(r))
        BY <1>2, <3>2 DEF Becomes, Stored, Dropped, Marked
      <4> QED
        BY <4>1, DroppedIsBuried
    <3> QED
      BY <3>1, <3>2
  <2>4. life[r.of] # "none" /\ r.hash = Key(r.of, "PENDING")
    BY <2>1, <2>2 DEF Keyed
  <2>5. madeOn'[r.of] = madeOn[r.of] /\ today' >= today
    BY <2>1, <2>4, BankSteps
  <2>6. /\ today \in Nat /\ today' \in Nat /\ madeOn[r.of] \in Nat /\ PendingExpiry \in Nat
    BY <2>1, BankTypeStep, LedgerAssumption DEF TInv, BankType
  <2>7. CASE life[r.of] = "settled"
    <3>1. Key(r.of, "SETTLED")' = Key(r.of, "SETTLED") /\ life'[r.of] = "settled"
      BY <2>1, <2>7, KeysStay, BankSteps DEF Statuses
    <3>2. Key(s.of, "SETTLED")' = Key(r.of, "SETTLED")
      BY <2>1, <3>1
    <3> QED
      BY <2>1, <2>3, <2>7, <3>1, <3>2 DEF Buried
  <2>8. CASE life[r.of] # "settled" /\ life'[r.of] # "settled"
    BY <2>1, <2>3, <2>5, <2>6, <2>8, SMT DEF Buried
  <2>9. CASE life[r.of] # "settled" /\ life'[r.of] = "settled"
    <3>1. NewIdentity(r.of)
      <4> SUFFICES ASSUME ~NewIdentity(r.of) PROVE FALSE
        OBVIOUS
      <4>1. r.of \in Prompt
        BY <2>1 DEF Settles, Unmistakable
      <4>2. today - madeOn[r.of] > PendingExpiry
        BY <2>3, <2>9
      <4>3. today - madeOn[r.of] <= PendingExpiry - Midnights
        BY <2>1, <2>5, <2>9, <4>1, BankSteps
      <4> QED
        BY <2>6, <4>2, <4>3, SyncDays, SMT
    <3>2. Key(r.of, "PENDING")' = Key(r.of, "PENDING")
      BY <2>1, <2>4, KeysStay DEF Statuses
    <3>3. Key(r.of, "PENDING")' # Key(r.of, "SETTLED")'
      BY <2>1, <3>1, NewKeyNext
    <3>4. Key(s.of, "SETTLED")' = Key(r.of, "SETTLED")'
      BY <2>1
    <3> QED
      BY <2>1, <2>4, <2>9, <3>2, <3>3, <3>4 DEF Buried
  <2> QED
    BY <2>7, <2>8, <2>9
<1> QED
  BY <1>1, <1>2, Origins

LEMMA StoreStep ==
  ASSUME Distinguishable, Settles, TInv, KeyInv, StoreInv, [Next]_vars
  PROVE  StoreInv'
<1>1. \A s \in rows' : Buried(s)'
  BY BuriedStep
<1>2. InTime'
  BY InTimeStep DEF StoreInv
<1>3. Covered("SETTLED")'
  BY CoveredStep DEF StoreInv, Statuses
<1> QED
  BY <1>1, <1>2, <1>3 DEF StoreInv

LEMMA StoreInit == Init => StoreInv
<1> SUFFICES ASSUME Init PROVE StoreInv
  OBVIOUS
<1> QED
  BY DEF Init, StoreInv, InTime, Covered, Underway

\* Every report of a settled purchase is stored, and stays so, until the next sync.
THEOREM StoreHolds == Distinguishable /\ Settles => (Spec => [](TInv /\ KeyInv /\ StoreInv))
<1> SUFFICES ASSUME Distinguishable, Settles PROVE Spec => [](TInv /\ KeyInv /\ StoreInv)
  OBVIOUS
<1>1. TInv /\ KeyInv /\ StoreInv /\ [Next]_vars => StoreInv'
  BY StoreStep
<1> QED
  BY <1>1, StoreInit, KeysHold, PTL DEF Spec

\* Each settled row is the only one of its purchase.
LEMMA OneRowEach ==
  ASSUME TInv, KeyInv, NEW r \in Live("SETTLED"), NEW s \in Live("SETTLED"), r.of = s.of
  PROVE  r = s
<1>1. r \in rows /\ s \in rows /\ r.status = s.status
  BY DEF Live
<1>2. r.hash = s.hash
  BY <1>1 DEF KeyInv, Keyed
<1> QED
  BY <1>1, <1>2 DEF TInv, RowType

\* What a completed sync was told is settled, and the settled rows.
LEMMA ToldAndStored ==
  ASSUME TInv, KeyInv, Covered("SETTLED"), phase = "done"
  PROVE  /\ \A p \in Told("SETTLED") :
              \E r \in Live("SETTLED") : r.of = p /\ r.look = Look[p]
         /\ \A r \in Live("SETTLED") : r.of \in Told("SETTLED") /\ r.look = Look[r.of]
<1>1. batch = {}
  BY DEF TInv, SyncType
<1>2. ASSUME NEW p \in Told("SETTLED")
      PROVE  \E r \in Live("SETTLED") : r.of = p /\ r.look = Look[p]
  <2>1. PICK r \in rows : r.of = p /\ r.status = "SETTLED"
    BY <1>1 DEF Covered, Underway
  <2>2. ~r.deleted /\ r.look = Look[p]
    BY <2>1 DEF KeyInv, Keyed
  <2> QED
    BY <2>1, <2>2 DEF Live
<1>3. ASSUME NEW r \in Live("SETTLED")
      PROVE  r.of \in Told("SETTLED") /\ r.look = Look[r.of]
  BY DEF KeyInv, Keyed, Known, Underway, Live
<1> QED
  BY <1>2, <1>3

\* When a sync is over, the settled rows of a look are as many as the purchases of
\* that look that the bank reported as settled: none is lost and none is doubled.
THEOREM SettledOnce == Distinguishable /\ Settles => (Spec => []SettledExact)
<1> SUFFICES ASSUME Distinguishable, Settles PROVE Spec => []SettledExact
  OBVIOUS
<1>1. ASSUME TInv, KeyInv, StoreInv PROVE SettledExact
  <2> SUFFICES ASSUME phase = "done", NEW k
               PROVE  Cardinality({r \in Live("SETTLED") : r.look = k})
                        = Cardinality({p \in Told("SETTLED") : Look[p] = k})
    BY DEF SettledExact
  <2> DEFINE R == {r \in Live("SETTLED") : r.look = k}
             T == {p \in Told("SETTLED") : Look[p] = k}
             of == [r \in R |-> r.of]
  <2>1. /\ \A p \in Told("SETTLED") :
             \E r \in Live("SETTLED") : r.of = p /\ r.look = Look[p]
        /\ \A r \in Live("SETTLED") : r.of \in Told("SETTLED") /\ r.look = Look[r.of]
    BY <1>1, ToldAndStored DEF StoreInv
  <2>2. of \in [R -> T]
    BY <2>1
  <2>3. \A r, s \in R : of[r] = of[s] => r = s
    BY <1>1, OneRowEach
  <2>4. \A p \in T : \E r \in R : of[r] = p
    BY <2>1
  <2>5. IsFiniteSet(T)
    <3>1. T \subseteq Purchases
      BY DEF Told
    <3> QED
      BY <3>1, PurchasesAssumption, FS_Subset
  <2> HIDE DEF R, T, of
  <2>6. of \in Bijection(R, T)
    BY <2>2, <2>3, <2>4 DEF Bijection, Injection, Surjection, IsInjective
  <2>7. ExistsBijection(R, T) /\ ExistsBijection(T, R)
    BY <2>6, Fun_ExistsBijSymmetric DEF ExistsBijection
  <2>8. Cardinality(T) = Cardinality(R)
    BY <2>5, <2>7, FS_Bijection
  <2> QED
    BY <2>8 DEF R, T
<1> QED
  BY <1>1, StoreHolds, PTL

-----------------------------------------------------------------------------
(***************************************************************************)
(* From the bank to Actual.                                                *)
(***************************************************************************)

\* A row without news is in Actual as it is in the table.
Arrived == \A r \in rows : ~r.news => Sent(r) \in actual

\* An import touches the entries of the rows it sends, and no others.
LEMMA ImportKeeps ==
  ASSUME NEW set \in SUBSET rows, TInv, NEW r \in rows, r \notin set, Sent(r) \in actual
  PROVE  Sent(r) \in Import(set)
<1>1. \A s \in set : s.hash # r.hash
  BY DEF TInv, RowType
<1>2. Sent(r)[1] = r.hash
  BY DEF Sent
<1> QED
  BY <1>1, <1>2 DEF Import

LEMMA EntriesStay ==
  ASSUME TInv, [Next]_vars, NEW r \in rows, ~r.news, Sent(r) \in actual
  PROVE  Sent(r) \in actual'
<1>1. CASE Bank
  BY <1>1, BankMoved
<1>2. CASE Export
  <2>1. PICK set \in SUBSET NeedsExport : actual' = Import(set)
    BY <1>2 DEF Export, ExportSucceeds, ExportFails
  <2>2. set \in SUBSET rows /\ r \notin set
    BY <2>1 DEF NeedsExport
  <2> QED
    BY <2>1, <2>2, ImportKeeps
<1>3. CASE Sync \/ UNCHANGED vars
  BY <1>3 DEF Sync, FetchFirst, FetchSecond, Upsert, LoadRows, Reconcile, Finish, Fail, vars
<1> QED
  BY <1>1, <1>2, <1>3 DEF Next

LEMMA ArrivedStep ==
  ASSUME TInv, Arrived, [Next]_vars
  PROVE  Arrived'
<1> SUFFICES ASSUME NEW s \in rows', ~s.news PROVE Sent(s) \in actual'
  BY DEF Arrived, Sent
<1>1. ASSUME NEW tx \in batch, s = NewRow(tx) PROVE FALSE
  BY <1>1 DEF NewRow
<1>2. ASSUME NEW r \in rows, Becomes(r, s) PROVE Sent(s) \in actual'
  <2>1. CASE Marked(r, s)
    BY <1>2, <2>1 DEF Becomes, Marked, Sent
  <2>2. CASE s = r \/ Dropped(r, s)
    <3>1. ~r.news /\ Sent(s) = Sent(r)
      BY <1>2, <2>2 DEF Becomes, Dropped, Sent
    <3> QED
      BY <3>1, EntriesStay DEF Arrived
  <2> QED
    BY <1>2, <2>1, <2>2 DEF Becomes, Stored
<1> QED
  BY <1>1, <1>2, Origins

\* What a completed sync was told is settled is in Actual, cleared, once no row needs
\* an export, whatever exports failed, and however they were cut short, on the way.
THEOREM SettledReachesActual ==
  Distinguishable /\ Settles => (Spec => []SettledArrives)
<1> SUFFICES ASSUME Distinguishable, Settles PROVE Spec => []SettledArrives
  OBVIOUS
<1>1. Init => Arrived
  BY DEF Init, Arrived
<1>2. TInv /\ Arrived /\ [Next]_vars => Arrived'
  BY ArrivedStep
<1>3. ASSUME TInv, KeyInv, StoreInv, Arrived PROVE SettledArrives
  <2> SUFFICES ASSUME phase = "done", NeedsExport = {}, NEW p \in Told("SETTLED")
               PROVE  \E r \in Live("SETTLED") : r.look = Look[p] /\ <<r.hash, TRUE>> \in actual
    BY DEF SettledArrives
  <2>1. PICK r \in Live("SETTLED") : r.of = p /\ r.look = Look[p]
    BY <1>3, ToldAndStored DEF StoreInv
  <2>2. ~r.news
    BY DEF Live, NeedsExport
  <2>3. <<r.hash, TRUE>> \in actual
    BY <1>3, <2>2 DEF Arrived, Live, Sent
  <2> QED
    BY <2>1, <2>3
<1> QED
  BY <1>1, <1>2, <1>3, StoreHolds, PTL DEF Spec

-----------------------------------------------------------------------------
(***************************************************************************)
(* Pending rows: what is still reported is kept, what is gone expires.     *)
(***************************************************************************)

\* A row has the id of the reports of its purchase.
LEMMA RowIds ==
  ASSUME TInv, KeyInv, NEW r \in rows
  PROVE  r.id = IdOf(r.of, r.status)
<1> DEFINE x == IdOf(r.of, r.status)
           u == <<Look[r.of], IF r.status = "PENDING" THEN madeOn[r.of] ELSE bookedOn[r.of]>>
<1>1. r.hash = IF x # None THEN <<x>> ELSE <<u, 0>>
  BY DEF KeyInv, Keyed, Key
<1>2. IF r.id # None THEN r.hash = <<r.id>> ELSE r.hash \in Prints
  BY DEF TInv, RowType, Hashed
<1> HIDE DEF x, u
<1>3. <<r.id>> # <<u, 0>> /\ (<<r.id>> = <<x>> => r.id = x)
  <2>1. Len(<<r.id>>) = 1 /\ Len(<<u, 0>>) = 2
    OBVIOUS
  <2> QED
    BY <2>1
<1>4. r.hash \in Prints => r.hash # <<x>>
  BY HashKinds
<1>5. r.id = x
  BY <1>1, <1>2, <1>3, <1>4
<1> QED
  BY <1>5 DEF x

\* seenPendingIds holds the ids of all that was told to be pending.
Seen ==
  phase \in {"upsert", "reconcile"} =>
    seen = {PendingId[p] : p \in Told("PENDING")} \ {None}

LEMMA SeenStep ==
  ASSUME Distinguishable, TInv, KeyInv, Seen, [Next]_vars
  PROVE  Seen'
<1> SUFFICES ASSUME phase' \in {"upsert", "reconcile"}
             PROVE  seen' = {PendingId[p] : p \in Told("PENDING")'} \ {None}
  BY DEF Seen
<1>1. CASE FetchSecond
  <2>1. /\ phase' = "upsert" /\ told' = {<<tx.of, tx.status>> : tx \in batch'}
        /\ seen' = {tx.id : tx \in {u \in batch' : u.status = "PENDING"}} \ {None}
    BY <1>1 DEF FetchSecond
  <2>2. \A tx \in batch' : tx.id = IdOf(tx.of, tx.status)
    BY <2>1, ReportedStep DEF Reported, IdOf
  <2>3. \A tx \in batch' : tx.status = "PENDING" => tx.id = PendingId[tx.of]
    BY <2>2 DEF IdOf
  <2>4. \A p \in Told("PENDING")' : \E tx \in batch' : tx.of = p /\ tx.status = "PENDING"
    <3> SUFFICES ASSUME NEW p, <<p, "PENDING">> \in told'
                 PROVE  \E tx \in batch' : tx.of = p /\ tx.status = "PENDING"
      BY DEF Told
    <3> QED
      BY <2>1
  <2>5. \A tx \in batch' : tx.status = "PENDING" => tx.of \in Told("PENDING")'
    BY <2>1, ReportedStep DEF Reported, Told
  <2>6. \A x \in seen' : x # None /\ \E p \in Told("PENDING")' : x = PendingId[p]
    BY <2>1, <2>3, <2>5
  <2>7. \A p \in Told("PENDING")' : PendingId[p] # None => PendingId[p] \in seen'
    BY <2>1, <2>3, <2>4
  <2> QED
    BY <2>6, <2>7
<1>2. CASE ~FetchSecond
  <2>1. phase \in {"upsert", "reconcile"} /\ seen' = seen /\ told' = told
    <3>1. CASE Bank
      BY <3>1, BankMoved DEF memory
    <3>2. CASE UNCHANGED vars
      BY <3>2 DEF vars, memory
    <3>3. CASE Export
      BY <3>3 DEF Export
    <3> QED
      BY <1>2, <3>1, <3>2, <3>3
         DEF Next, Sync, FetchFirst, Upsert, LoadRows, Reconcile, Finish, Fail
  <2> QED
    BY <2>1 DEF Seen, Told
<1> QED
  BY <1>1, <1>2

\* A row dropped although its purchase is reported as pending, under an id, has been
\* taken for a settled row.
TakenFor(r) ==
  /\ r.deleted
  /\ PendingId[r.of] # None
  /\ life[r.of] = "pending" \/ r.of \in Told("PENDING")
  => \E s \in Live("SETTLED") : s.look = r.look

LEMMA TakenForStep ==
  ASSUME Distinguishable, TInv, KeyInv, Seen, \A r \in rows : TakenFor(r),
         [Next]_vars, NEW s \in rows'
  PROVE  TakenFor(s)'
<1> SUFFICES ASSUME s.deleted, PendingId[s.of] # None,
                    life'[s.of] = "pending" \/ s.of \in Told("PENDING")'
             PROVE  \E t \in Live("SETTLED")' : t.look = s.look
  BY DEF TakenFor
<1>1. ASSUME NEW tx \in batch, s = NewRow(tx) PROVE FALSE
  BY <1>1 DEF NewRow
<1>2. ASSUME NEW r \in rows, Becomes(r, s)
      PROVE  \E t \in Live("SETTLED")' : t.look = s.look
  <2>1. /\ s.of = r.of /\ s.look = r.look /\ r.of \in Purchases /\ Keyed(r)
        /\ r.status \in Statuses
    BY <1>2 DEF Becomes, TInv, RowType, Row, KeyInv
  <2>2. life[r.of] = "pending" \/ r.of \in Told("PENDING")
    <3>1. CASE life'[r.of] = "pending"
      BY <2>1, <3>1, BankSteps DEF Keyed
    <3>2. CASE r.of \in Told("PENDING")' /\ FetchSecond
      BY <2>1, <3>2, Tells
    <3>3. CASE r.of \in Told("PENDING")' /\ ~FetchSecond
      <4>1. Underway'
        BY <3>3, TellingStep DEF Telling, Told
      <4> QED
        BY <3>3, <4>1, ToldKept DEF Told
    <3> QED
      BY <2>1, <3>1, <3>2, <3>3
  <2>3. \E t \in Live("SETTLED") : t.look = r.look
    <3>1. CASE r.deleted
      BY <2>1, <2>2, <3>1 DEF TakenFor
    <3>2. CASE ~r.deleted
      <4>1. Reconcile(r) /\ r \in todo /\ (Twins(r) # {} \/ Stale(r))
        BY <1>2, <3>2 DEF Becomes, Stored, Dropped, Marked
      <4>2. phase = "reconcile" /\ r.status = "PENDING"
        BY <4>1 DEF Reconcile, TInv, SyncType, Live
      <4>3. r.of \in Told("PENDING") /\ r.id = PendingId[r.of]
        BY <2>2, <4>2, RowIds DEF KeyInv, Known, Underway, IdOf
      <4>4. ~Stale(r)
        BY <2>1, <4>2, <4>3 DEF Seen, Stale
      <4>5. PICK t \in Twins(r) : TRUE
        BY <4>1, <4>4
      <4> QED
        BY <4>2, <4>5 DEF Twins, Matches, TInv, SyncType
    <3> QED
      BY <3>1, <3>2
  <2>4. PICK t \in Live("SETTLED") : t.look = r.look
    BY <2>3
  <2> QED
    BY <2>1, <2>4, SettledKept
<1> QED
  BY <1>1, <1>2, Origins

\* A purchase that a completed sync was told is pending, under an id, has its row, or
\* a settled row it was taken for, however old it is.
THEOREM ReportedRowsKept == Distinguishable => (Spec => []ReportedIsKept)
<1> SUFFICES ASSUME Distinguishable PROVE Spec => []ReportedIsKept
  OBVIOUS
<1> DEFINE Kept == Seen /\ (\A r \in rows : TakenFor(r)) /\ Covered("PENDING")
<1>1. Init => Kept
  <2> SUFFICES ASSUME Init PROVE Kept
    OBVIOUS
  <2>1. phase = "idle" /\ rows = {}
    BY DEF Init
  <2> QED
    BY <2>1 DEF Seen, Covered, Underway
<1>2. TInv /\ KeyInv /\ Kept /\ [Next]_vars => Kept'
  <2> SUFFICES ASSUME TInv, KeyInv, Kept, [Next]_vars PROVE Kept'
    OBVIOUS
  <2>1. Seen'
    BY SeenStep
  <2>2. \A s \in rows' : TakenFor(s)'
    BY TakenForStep
  <2>3. Covered("PENDING")'
    BY CoveredStep DEF Statuses
  <2> QED
    BY <2>1, <2>2, <2>3
<1>3. ASSUME TInv, KeyInv, Kept PROVE ReportedIsKept
  <2> SUFFICES ASSUME phase = "done", NEW p \in Told("PENDING"), PendingId[p] # None
               PROVE  \E r \in rows : /\ r.look = Look[p] /\ ~r.deleted
                                      /\ r.id = PendingId[p] \/ r.status = "SETTLED"
    BY DEF ReportedIsKept
  <2>1. batch = {}
    BY <1>3 DEF TInv, SyncType
  <2>2. PICK r \in rows : r.of = p /\ r.status = "PENDING"
    BY <1>3, <2>1 DEF Covered, Underway
  <2>3. r.look = Look[p] /\ r.id = PendingId[p]
    BY <1>3, <2>2, RowIds DEF KeyInv, Keyed, IdOf
  <2>4. CASE r.deleted
    <3>1. PICK s \in Live("SETTLED") : s.look = r.look
      BY <1>3, <2>2, <2>4 DEF TakenFor
    <3> QED
      BY <2>3, <3>1 DEF Live
  <2> QED
    BY <2>2, <2>3, <2>4
<1> QED
  BY <1>1, <1>2, <1>3, KeysHold, PTL DEF Spec

\* Nothing has written to a row since its purchase left the pending feed, but the
\* sync that had fetched its report before.
Untouched ==
  \A r \in rows : life[r.of] = "limbo" => r.updated <= leftOn[r.of] + Midnights

\* What left the feed behind a sync's back did so since the sync began.
JustLeft ==
  Underway => \A p \in Told("PENDING") : life[p] = "limbo" => leftOn[p] >= today - nights

\* The rows the loop has passed, and kept.
Expired ==
  phase \in {"reconcile", "done"} =>
    \A r \in Live("PENDING") \ todo :
      life[r.of] = "limbo" => (today - nights) - leftOn[r.of] <= PendingExpiry + Midnights

LEMMA JustLeftStep ==
  ASSUME TInv, KeyInv, JustLeft, [Next]_vars
  PROVE  JustLeft'
<1> SUFFICES ASSUME Underway', NEW p \in Purchases, p \in Told("PENDING")',
                    life'[p] = "limbo"
             PROVE  leftOn'[p] >= today' - nights'
  BY DEF JustLeft, Told
<1>1. CASE FetchSecond
  <2>1. life[p] = "pending" /\ life' = life
    BY <1>1, Tells DEF FetchSecond, bank
  <2> QED
    BY <2>1
<1>2. CASE ~FetchSecond
  <2>1. Underway /\ told' = told
    BY <1>2, ToldKept
  <2>2. today' - nights' = today - nights
    BY <2>1, SyncDays DEF Underway, FetchFirst
  <2>3. leftOn'[p] = today \/ leftOn'[p] >= today - nights
    BY <2>1, BankSteps DEF JustLeft, Told
  <2> QED
    BY <2>2, <2>3, SyncDays
<1> QED
  BY <1>1, <1>2

\* What a sync stores is of purchases that had not left the feed before it began.
LEMMA StoredSinceBegin ==
  ASSUME TInv, KeyInv, JustLeft, NEW tx \in batch, Upsert(tx), life[tx.of] = "limbo"
  PROVE  leftOn[tx.of] >= today - nights /\ UNCHANGED bank
<1>1. /\ tx.of \in Told(tx.status) /\ tx.status \in Statuses /\ UNCHANGED bank
      /\ tx.status = "SETTLED" => life[tx.of] = "settled" /\ phase = "upsert"
      /\ phase = "upsert"
  BY Storing
<1>2. tx.status = "PENDING"
  BY <1>1 DEF Statuses
<1> QED
  BY <1>1, <1>2 DEF JustLeft, Underway

LEMMA UntouchedStep ==
  ASSUME Distinguishable, ~HasExporter, TInv, KeyInv, JustLeft, Untouched, [Next]_vars
  PROVE  Untouched'
<1> SUFFICES ASSUME NEW s \in rows', life'[s.of] = "limbo"
             PROVE  s.updated <= leftOn'[s.of] + Midnights
  BY DEF Untouched
<1>0. /\ today \in Nat /\ leftOn \in [Purchases -> Nat] /\ nights \in Nat
      /\ Midnights \in Nat /\ nights <= Midnights
  BY LedgerAssumption DEF TInv, BankType
<1>1. ASSUME NEW tx \in batch, Upsert(tx), s = NewRow(tx)
      PROVE  s.updated <= leftOn'[s.of] + Midnights
  <2>1. s.of = tx.of /\ s.updated = today
    BY <1>1 DEF NewRow
  <2>2. UNCHANGED bank
    BY <1>1, Storing
  <2>3. tx.of \in Purchases /\ life[tx.of] = "limbo"
    BY <1>1, <2>1, <2>2, Storing DEF bank
  <2>4. leftOn[tx.of] >= today - nights /\ leftOn[tx.of] \in Nat
    BY <1>0, <1>1, <2>3, StoredSinceBegin
  <2>5. leftOn' = leftOn
    BY <2>2 DEF bank
  <2> QED
    BY <1>0, <2>1, <2>4, <2>5
<1>2. ASSUME NEW r \in rows, Becomes(r, s)
      PROVE  s.updated <= leftOn'[s.of] + Midnights
  <2>1. /\ s.of = r.of /\ r.of \in Purchases /\ r.updated \in Nat
        /\ r.updated <= today /\ s.updated \in {r.updated, today}
    BY <1>2 DEF Becomes, Stored, Dropped, Marked, TInv, RowType, Row, KeyInv, Keyed
  <2>2. \/ life[r.of] = "limbo" /\ leftOn'[r.of] = leftOn[r.of]
        \/ life[r.of] = "pending" /\ leftOn'[r.of] = today
    BY <2>1, BankSteps
  <2>3. CASE life[r.of] = "limbo" /\ leftOn'[r.of] = leftOn[r.of]
    <3>1. s.updated = r.updated \/ leftOn[r.of] >= today - nights
      <4>1. ASSUME NEW tx \in batch, Upsert(tx), r \in Existing(tx)
            PROVE  leftOn[r.of] >= today - nights
        <5>1. tx.of = r.of
          BY <4>1, SamePurchase
        <5> QED
          BY <2>3, <4>1, <5>1, StoredSinceBegin
      <4>2. ~Export
        BY DEF Export
      <4> QED
        BY <1>2, <4>1, <4>2 DEF Becomes, Stored, Dropped, Marked
    <3> QED
      BY <1>0, <2>1, <2>3, <3>1 DEF Untouched
  <2>4. CASE leftOn'[r.of] = today
    BY <1>0, <2>1, <2>4
  <2> QED
    BY <2>2, <2>3, <2>4
<1> QED
  BY <1>1, <1>2, Origins

\* A row that the loop passes and keeps is still reported, or has not expired.
LEMMA PassedIsFresh ==
  ASSUME Distinguishable, TInv, KeyInv, Seen, JustLeft, Untouched,
         NEW r \in todo, Reconcile(r), r \in rows', life[r.of] = "limbo"
  PROVE  (today - nights) - leftOn[r.of] <= PendingExpiry + Midnights
<1>1. /\ r \in rows /\ r.status = "PENDING" /\ ~r.deleted /\ r.of \in Purchases
      /\ phase = "reconcile" /\ r.updated \in Nat
  BY DEF TInv, SyncType, RowType, Row, Live, Reconcile
<1>2. /\ today \in Nat /\ leftOn[r.of] \in Nat /\ PendingExpiry \in Nat
      /\ nights \in Nat /\ Midnights \in Nat /\ r.updated <= leftOn[r.of] + Midnights
  BY <1>1, LedgerAssumption DEF TInv, BankType, Untouched
<1>3. ~Stale(r)
  <2>1. r # [r EXCEPT !.deleted = TRUE]
    BY <1>1 DEF TInv, RowType, Row
  <2> QED
    BY <2>1 DEF Reconcile, Merge, Expire
<1>4. CASE r.id \in seen
  <2>1. PICK p \in Told("PENDING") : r.id = PendingId[p] /\ r.id # None
    BY <1>1, <1>4 DEF Seen
  <2>2. IdOf(r.of, "PENDING") = IdOf(p, "PENDING") /\ p \in Purchases
    BY <1>1, <2>1, RowIds DEF IdOf, Told
  <2>3. p = r.of
    BY <1>1, <2>1, <2>2 DEF Distinguishable, Statuses, IdOf
  <2>4. leftOn[r.of] >= today - nights
    BY <1>1, <2>1, <2>3 DEF JustLeft, Underway
  <2> QED
    BY <1>2, <2>4
<1>5. CASE r.id \notin seen
  <2>1. ~(today - r.updated > PendingExpiry)
    BY <1>3, <1>5 DEF Stale
  <2> QED
    BY <1>1, <1>2, <2>1
<1> QED
  BY <1>4, <1>5

LEMMA ExpiredStep ==
  ASSUME Distinguishable, ~HasExporter, TInv, KeyInv, Seen, JustLeft, Untouched, Expired,
         [Next]_vars
  PROVE  Expired'
<1> SUFFICES ASSUME phase' \in {"reconcile", "done"}, NEW s \in rows',
                    s.status = "PENDING", ~s.deleted, s \notin todo', life'[s.of] = "limbo"
             PROVE  (today' - nights') - leftOn'[s.of] <= PendingExpiry + Midnights
  BY DEF Expired, Live
<1>0. /\ today \in Nat /\ nights \in Nat /\ Midnights \in Nat /\ leftOn \in [Purchases -> Nat]
      /\ PendingExpiry \in Nat /\ \A r \in rows : r.of \in Purchases
  BY LedgerAssumption DEF TInv, BankType, RowType, Row
<1>1. CASE LoadRows
  BY <1>1 DEF LoadRows, Live
<1>2. CASE \E pending \in todo : Reconcile(pending)
  <2>1. PICK r \in todo : Reconcile(r)
    BY <1>2
  <2>2. /\ phase = "reconcile" /\ todo' = todo \ {r} /\ UNCHANGED bank /\ nights' = nights
        /\ rows' \subseteq rows \cup {[r EXCEPT !.deleted = TRUE]} /\ r \in Row
    BY <2>1 DEF Reconcile, Merge, Expire, TInv, SyncType, RowType, Live
  <2>3. s # [r EXCEPT !.deleted = TRUE]
    BY <2>2 DEF Row
  <2>4. CASE s = r
    BY <2>1, <2>2, <2>4, PassedIsFresh DEF bank
  <2>5. CASE s # r
    BY <2>2, <2>3, <2>5 DEF Expired, Live, bank
  <2> QED
    BY <2>4, <2>5
<1>3. CASE Bank
  <2>1. UNCHANGED <<phase, rows, todo>> /\ today' - nights' = today - nights
    BY <1>3, BankMoved, SyncDays DEF memory, Bank, Buy, Vanish, Settle, NextDay, FetchFirst
  <2>2. s \in Live("PENDING") \ todo /\ s.of \in Purchases
    BY <1>0, <2>1 DEF Live
  <2>3. CASE life[s.of] = "limbo" /\ leftOn'[s.of] = leftOn[s.of]
    BY <2>1, <2>2, <2>3 DEF Expired
  <2>4. CASE leftOn'[s.of] = today
    BY <1>0, <2>1, <2>4
  <2> QED
    BY <2>2, <2>3, <2>4, BankSteps
<1>4. CASE Finish
  BY <1>4 DEF Finish, Forget, Expired, Live, bank
<1>5. CASE UNCHANGED vars
  BY <1>5 DEF vars, bank, memory, Expired, Live
<1> QED
  BY <1>1, <1>2, <1>3, <1>4, <1>5
     DEF Next, Sync, FetchFirst, FetchSecond, Upsert, Fail, Export

\* When a sync is over, no pending row is left of a purchase that left the pending feed
\* more than PendingExpiry days ago, as long as no export writes to the rows, give or
\* take the midnights that fall into a sync.
THEOREM GoneRowsExpire == Distinguishable /\ ~HasExporter => (Spec => []GoneDoNotLinger)
<1> SUFFICES ASSUME Distinguishable, ~HasExporter PROVE Spec => []GoneDoNotLinger
  OBVIOUS
<1> DEFINE Leaving == Seen /\ JustLeft /\ Untouched /\ Expired
<1>1. Init => Leaving
  <2> SUFFICES ASSUME Init PROVE Leaving
    OBVIOUS
  <2>1. phase = "idle" /\ rows = {}
    BY DEF Init
  <2> QED
    BY <2>1 DEF Seen, JustLeft, Underway, Untouched, Expired
<1>2. TInv /\ KeyInv /\ Leaving /\ [Next]_vars => Leaving'
  BY SeenStep, JustLeftStep, UntouchedStep, ExpiredStep
<1>3. TInv /\ KeyInv /\ Leaving => GoneDoNotLinger
  BY DEF TInv, SyncType, Expired, GoneDoNotLinger
<1> QED
  BY <1>1, <1>2, <1>3, KeysHold, PTL DEF Spec

-----------------------------------------------------------------------------
(***************************************************************************)
(* A pending and a settled row of one purchase are merged.  When purchases *)
(* look alike the reconciler may take one for another, and which rows are  *)
(* left depends on the order of a greedy matching; here no two are alike.  *)
(***************************************************************************)
NoneAlike == \A p, q \in Purchases : Look[p] = Look[q] => p = q

DayOf(p, status) == IF status = "PENDING" THEN madeOn[p] ELSE bookedOn[p]

\* Rows and reports have the dates the bank has.
BankDates ==
  /\ \A p \in Purchases : life[p] = "settled" => madeOn[p] <= bookedOn[p]
  /\ \A r \in rows : r.booked = DayOf(r.of, r.status)
  /\ phase = "upsert" => \A tx \in batch : tx.booked = DayOf(tx.of, tx.status)

\* What the reconciler works with.
Claims ==
  /\ phase = "reconcile" => settled = Live("SETTLED")
  /\ phase # "reconcile" => claimed = {}
  /\ \A s \in claimed : \A r \in Live("PENDING") : r.look # s.look

NoTwin(r) == \A s \in Live("SETTLED") : ~Matches(r, s)

\* The rows the loop has passed, and kept, have no twin.
Passed == phase \in {"reconcile", "done"} => \A r \in Live("PENDING") \ todo : NoTwin(r)

LEMMA DaysStay ==
  ASSUME TInv, [Next]_vars, NEW p \in Purchases, life[p] # "none",
         NEW status \in Statuses, status = "SETTLED" => life[p] = "settled"
  PROVE  DayOf(p, status)' = DayOf(p, status)
<1>1. madeOn'[p] = madeOn[p] /\ (status = "SETTLED" => bookedOn'[p] = bookedOn[p])
  BY BankSteps
<1> QED
  BY <1>1 DEF DayOf, Statuses

\* A settlement is not booked before the purchase.
LEMMA SettledLater ==
  ASSUME TInv, KeyInv, BankDates, [Next]_vars, NEW p \in Purchases, life'[p] = "settled"
  PROVE  madeOn'[p] <= bookedOn'[p]
<1> USE DEF TInv, BankType
<1>1. CASE life[p] = "settled"
  <2>1. madeOn'[p] = madeOn[p] /\ bookedOn'[p] = bookedOn[p]
    BY <1>1, BankSteps
  <2> QED
    BY <1>1, <2>1 DEF BankDates
<1>2. CASE life[p] # "settled"
  <2>1. CASE \E q \in Purchases : Buy(q)
    BY <1>2, <2>1 DEF Buy
  <2>2. CASE \E q \in Purchases : Vanish(q)
    BY <1>2, <2>2 DEF Vanish
  <2>3. CASE \E q \in Purchases : Settle(q)
    <3>1. PICK q \in Purchases : Settle(q)
      BY <2>3
    <3>2. q = p /\ life[p] \in {"pending", "limbo"} /\ madeOn' = madeOn
      BY <1>2, <3>1 DEF Settle
    <3>3. bookedOn'[p] \in {madeOn[p], today}
      BY <3>1, <3>2 DEF Settle
    <3>4. madeOn[p] <= today
      BY <3>2 DEF KeyInv, Dates
    <3> QED
      BY <3>2, <3>3, <3>4
  <2>4. CASE NextDay \/ Sync \/ Export \/ UNCHANGED vars
    <3>1. life' = life
      BY <2>4 DEF NextDay, Sync, FetchFirst, FetchSecond, Upsert, LoadRows, Reconcile, Finish,
                  Fail, Export, vars, bank
    <3> QED
      BY <1>2, <3>1
  <2> QED
    BY <2>1, <2>2, <2>3, <2>4 DEF Next, Bank
<1> QED
  BY <1>1, <1>2

LEMMA BankDatesStep ==
  ASSUME Distinguishable, TInv, KeyInv, BankDates, [Next]_vars
  PROVE  BankDates'
<1>1. ASSUME NEW s \in rows' PROVE s.booked = DayOf(s.of, s.status)'
  <2>1. ASSUME NEW tx \in batch, Upsert(tx)
        PROVE  /\ tx.booked = DayOf(tx.of, tx.status) /\ UNCHANGED bank
    BY <2>1, Storing DEF BankDates
  <2>2. ASSUME NEW tx \in batch, Upsert(tx), s = NewRow(tx)
        PROVE  s.booked = DayOf(s.of, s.status)'
    <3>1. s.booked = tx.booked /\ s.of = tx.of /\ s.status = tx.status
      BY <2>2 DEF NewRow
    <3> QED
      BY <2>1, <2>2, <3>1 DEF DayOf, bank
  <2>3. ASSUME NEW r \in rows, Becomes(r, s)
        PROVE  s.booked = DayOf(s.of, s.status)'
    <3>1. /\ s.of = r.of /\ r.of \in Purchases /\ r.status \in Statuses /\ Keyed(r)
          /\ r.booked = DayOf(r.of, r.status)
      BY <2>3 DEF Becomes, TInv, RowType, Row, KeyInv, BankDates
    <3>2. CASE Stored(r, s)
      <4>1. PICK tx \in batch : /\ Upsert(tx) /\ r \in Existing(tx)
                                /\ s.status = tx.status /\ s.booked = tx.booked
        BY <3>2 DEF Stored
      <4>2. r.of = tx.of
        BY <4>1, SamePurchase
      <4> QED
        BY <2>1, <3>1, <4>1, <4>2 DEF DayOf, bank
    <3>3. CASE ~Stored(r, s)
      <4>1. s.booked = r.booked /\ s.status = r.status
        BY <2>3, <3>3 DEF Becomes, Dropped, Marked
      <4>2. DayOf(r.of, r.status)' = DayOf(r.of, r.status)
        BY <3>1, DaysStay DEF Keyed
      <4>3. DayOf(s.of, s.status)' = DayOf(r.of, r.status)'
        BY <3>1, <4>1
      <4> QED
        BY <3>1, <4>1, <4>2, <4>3
    <3> QED
      BY <3>2, <3>3
  <2> QED
    BY <2>2, <2>3, Origins
<1>2. ASSUME phase' = "upsert", NEW u \in batch' PROVE u.booked = DayOf(u.of, u.status)'
  <2>1. CASE FetchSecond
    <3> DEFINE reports == batch \cup Feed(2)
               new == [tx \in reports |-> [tx EXCEPT !.hash = RawHash(tx, reports)]]
    <3>1. batch' = {new[tx] : tx \in reports} /\ UNCHANGED <<madeOn, bookedOn>>
      BY <2>1 DEF FetchSecond, NormalizeBatch, bank
    <3>2. PICK tx \in reports : u = new[tx]
      BY <3>1
    <3>3. tx \in Tx
      BY FeedType DEF TInv, SyncType
    <3>4. u.of = tx.of /\ u.status = tx.status /\ u.booked = tx.booked
      BY <3>2, <3>3 DEF Tx
    <3> HIDE DEF new, reports
    <3>5. /\ tx.of \in Purchases /\ tx.booked = bookedOn[tx.of]
          /\ tx.status = "PENDING" => life[tx.of] = "pending"
      BY <2>1, <3>2, BothFeeds DEF reports
    <3>6. tx.booked = DayOf(tx.of, tx.status)
      BY <3>5 DEF DayOf, KeyInv, Dates
    <3> QED
      BY <3>1, <3>4, <3>6 DEF DayOf
  <2>2. CASE ~FetchSecond
    <3>1. phase = "upsert" /\ u \in batch
      <4>1. CASE Bank
        BY <1>2, <4>1, BankMoved DEF memory
      <4>2. CASE UNCHANGED vars
        BY <1>2, <4>2 DEF vars, memory
      <4>3. CASE Export
        BY <1>2, <4>3 DEF Export
      <4> QED
        BY <1>2, <2>2, <4>1, <4>2, <4>3
           DEF Next, Sync, FetchFirst, Upsert, LoadRows, Reconcile, Finish, Fail
    <3>2. /\ u.of \in Purchases /\ u.status \in Statuses /\ u.of \in Told(u.status)
          /\ u.booked = DayOf(u.of, u.status)
      BY <3>1 DEF KeyInv, Reported, BankDates, TInv, SyncType, Tx
    <3>3. life[u.of] # "none" /\ (u.status = "SETTLED" => life[u.of] = "settled")
      BY <3>2 DEF KeyInv, Telling, Statuses
    <3> QED
      BY <3>2, <3>3, DaysStay
  <2> QED
    BY <2>1, <2>2
<1>3. \A p \in Purchases : (life[p] = "settled" => madeOn[p] <= bookedOn[p])'
  BY SettledLater
<1> QED
  BY <1>1, <1>2, <1>3 DEF BankDates

\* While nothing is stored, a row keeps all that the reconciler compares.
LEMMA Calm ==
  ASSUME TInv, [Next]_vars, ~\E tx \in batch : Upsert(tx), NEW s \in rows'
  PROVE  \E r \in rows : /\ Becomes(r, s) /\ s.look = r.look /\ s.booked = r.booked
                         /\ s.status = r.status /\ (~s.deleted => ~r.deleted)
                         /\ s.updated # r.updated => s.updated = today
<1>1. PICK r \in rows : Becomes(r, s)
  BY Origins
<1> QED
  BY <1>1 DEF Becomes, Stored, Dropped, Marked

\* A settled row stays as it is while the reconciler is at work.
LEMMA SettledSame ==
  ASSUME TInv, NEW r \in todo, Reconcile(r)
  PROVE  Live("SETTLED")' = Live("SETTLED")
<1>1. rows' = rows \/ rows' = (rows \ {r}) \cup {[r EXCEPT !.deleted = TRUE]}
  BY DEF Reconcile, Merge, Expire
<1>2. r \in Row /\ r.status = "PENDING"
  BY DEF TInv, SyncType, RowType, Live
<1>3. [r EXCEPT !.deleted = TRUE].deleted
  BY <1>2 DEF Row
<1> QED
  BY <1>1, <1>2, <1>3 DEF Live

LEMMA ClaimsStep ==
  ASSUME NoneAlike, TInv, KeyInv, Claims, [Next]_vars
  PROVE  Claims'
<1>1. CASE \E pending \in todo : Reconcile(pending)
  <2>1. PICK r \in todo : Reconcile(r)
    BY <1>1
  <2>2. /\ phase = "reconcile" /\ phase' = "reconcile" /\ settled' = settled
        /\ r \in rows /\ r.status = "PENDING" /\ r \in Row
    BY <2>1 DEF Reconcile, TInv, SyncType, RowType, Live
  <2>3. settled' = Live("SETTLED")'
    BY <2>1, <2>2, SettledSame DEF Claims
  <2>4. ASSUME NEW s \in claimed', NEW t \in Live("PENDING")'
        PROVE  t.look # s.look
    <3>1. t \in Live("PENDING") /\ (rows' # rows => t # r)
      <4>1. rows' = rows \/ rows' = (rows \ {r}) \cup {[r EXCEPT !.deleted = TRUE]}
        BY <2>1 DEF Reconcile, Merge, Expire
      <4>2. [r EXCEPT !.deleted = TRUE].deleted
        BY <2>2 DEF Row
      <4> QED
        BY <2>4, <4>1, <4>2 DEF Live
    <3>2. CASE s \in claimed
      BY <3>1, <3>2 DEF Claims
    <3>3. CASE s \notin claimed
      <4>1. s \in Twins(r) /\ rows' = (rows \ {r}) \cup {[r EXCEPT !.deleted = TRUE]}
        BY <2>1, <2>4, <3>3 DEF Reconcile, Merge, Expire
      <4>2. s.look = r.look
        BY <4>1 DEF Twins, Matches
      <4>3. t # r
        BY <2>2, <2>4, <4>1 DEF Live, Row
      <4>4. t \in rows /\ t.status = "PENDING" /\ t.of \in Purchases /\ r.of \in Purchases
        BY <2>2, <3>1 DEF Live, TInv, RowType, Row
      <4>5. Keyed(t) /\ Keyed(r)
        BY <2>2, <4>4 DEF KeyInv
      <4>6. t.hash # r.hash
        BY <2>2, <4>3, <4>4 DEF TInv, RowType
      <4>7. t.of # r.of
        BY <2>2, <4>4, <4>5, <4>6 DEF Keyed
      <4> QED
        BY <4>2, <4>4, <4>5, <4>7 DEF Keyed, NoneAlike
    <3> QED
      BY <3>2, <3>3
  <2> QED
    BY <2>2, <2>3, <2>4 DEF Claims
<1>2. CASE LoadRows
  BY <1>2 DEF LoadRows, Claims, Live
<1>3. CASE \E tx \in batch : Upsert(tx)
  BY <1>3 DEF Upsert, Claims
<1>4. CASE Bank
  <2>1. /\ UNCHANGED <<rows, settled, claimed>>
        /\ phase' = phase \/ (phase = "done" /\ phase' = "idle")
    BY <1>4, BankMoved DEF memory
  <2> QED
    BY <2>1 DEF Claims, Live
<1>5. CASE FetchFirst \/ FetchSecond \/ Finish \/ Fail \/ Export
  BY <1>5 DEF FetchFirst, FetchSecond, Finish, Fail, Forget, Export, memory, Claims
<1>6. CASE UNCHANGED vars
  BY <1>6 DEF vars, memory, Claims, Live
<1> QED
  BY <1>1, <1>2, <1>3, <1>4, <1>5, <1>6 DEF Next, Sync

\* A row without a twin gets none while nothing is stored.
LEMMA NoTwinKept ==
  ASSUME TInv, [Next]_vars, ~\E tx \in batch : Upsert(tx), NEW s, NEW r \in rows,
         s.look = r.look, s.booked = r.booked, NoTwin(r)
  PROVE  NoTwin(s)'
<1> SUFFICES ASSUME NEW t \in Live("SETTLED")' PROVE ~Matches(s, t)
  BY DEF NoTwin, Matches, Distance
<1>1. PICK u \in rows : /\ t.look = u.look /\ t.booked = u.booked
                        /\ u.status = "SETTLED" /\ ~u.deleted
  BY Calm DEF Live
<1>2. u \in Live("SETTLED")
  BY <1>1 DEF Live
<1>3. ~Matches(r, u)
  BY <1>2 DEF NoTwin
<1>4. Matches(s, t) <=> Matches(r, u)
  BY <1>1 DEF Matches, Distance
<1> QED
  BY <1>3, <1>4

LEMMA PassedStep ==
  ASSUME TInv, KeyInv, Claims, Passed, [Next]_vars
  PROVE  Passed'
<1> SUFFICES ASSUME phase' \in {"reconcile", "done"}, NEW s \in Live("PENDING")', s \notin todo'
             PROVE  NoTwin(s)'
  BY DEF Passed
<1>1. CASE \E pending \in todo : Reconcile(pending)
  <2>1. PICK r \in todo : Reconcile(r)
    BY <1>1
  <2>2. /\ phase = "reconcile" /\ todo' = todo \ {r} /\ r \in Row
        /\ rows' = rows \/ rows' = (rows \ {r}) \cup {[r EXCEPT !.deleted = TRUE]}
        /\ Twins(r) # {} => rows' # rows
    <3>1. r \in Row /\ r \in rows /\ ~r.deleted
      BY DEF TInv, SyncType, RowType, Live
    <3>2. r # [r EXCEPT !.deleted = TRUE]
      BY <3>1 DEF Row
    <3> QED
      BY <2>1, <3>1, <3>2 DEF Reconcile, Merge, Expire
  <2>3. s \in Live("PENDING") /\ (s = r => rows' = rows)
    <3>1. [r EXCEPT !.deleted = TRUE].deleted /\ ~r.deleted
      BY <2>2 DEF Row, TInv, SyncType, Live
    <3> QED
      BY <2>2, <3>1 DEF Live
  <2>4. NoTwin(s)
    <3>1. CASE s # r
      BY <2>2, <2>3, <3>1 DEF Passed
    <3>2. CASE s = r
      <4>1. Twins(s) = {} /\ settled = Live("SETTLED")
        BY <2>2, <2>3, <3>2 DEF Claims
      <4>2. ASSUME NEW t \in Live("SETTLED"), Matches(s, t) PROVE FALSE
        <5>1. t \in claimed
          BY <4>1, <4>2 DEF Twins
        <5>2. s.look # t.look
          BY <2>3, <5>1 DEF Claims
        <5> QED
          BY <4>2, <5>2 DEF Matches
      <4> QED
        BY <4>2 DEF NoTwin
    <3> QED
      BY <3>1, <3>2
  <2> QED
    BY <2>1, <2>4, SettledSame DEF NoTwin, Matches, Distance
<1>2. CASE LoadRows
  BY <1>2 DEF LoadRows, Live
<1>3. CASE Bank \/ Finish \/ Export \/ UNCHANGED vars
  <2>1. phase \in {"reconcile", "done"} /\ ~\E tx \in batch : Upsert(tx)
    <3>1. CASE Bank
      BY <3>1, BankMoved DEF Upsert
    <3> QED
      BY <1>3, <3>1 DEF Finish, Export, vars, Upsert
  <2>2. todo = {} \/ (rows' = rows /\ todo' = todo)
    <3>1. CASE Bank
      BY <3>1, BankMoved DEF memory
    <3> QED
      BY <1>3, <3>1 DEF Finish, Export, vars, memory, TInv, SyncType
  <2>3. PICK r \in rows : /\ s.look = r.look /\ s.booked = r.booked
                          /\ r.status = "PENDING" /\ ~r.deleted
                          /\ rows' = rows => s = r
    <3>1. CASE rows' = rows
      BY <3>1 DEF Live
    <3>2. CASE rows' # rows
      BY <2>1, <3>2, Calm DEF Live
    <3> QED
      BY <3>1, <3>2
  <2>4. r \in Live("PENDING") \ todo
    BY <2>2, <2>3 DEF Live
  <2>5. NoTwin(r)
    BY <2>1, <2>4 DEF Passed
  <2> QED
    BY <2>1, <2>3, <2>5, NoTwinKept
<1> QED
  BY <1>1, <1>2, <1>3 DEF Next, Sync, FetchFirst, FetchSecond, Upsert, Fail

MergeInv == BankDates /\ Claims /\ Passed

LEMMA MergeInit == Init => MergeInv
<1> SUFFICES ASSUME Init PROVE MergeInv
  OBVIOUS
<1>1. /\ phase = "idle" /\ rows = {} /\ claimed = {}
      /\ \A p \in Purchases : life[p] = "none"
  BY DEF Init
<1> QED
  BY <1>1 DEF MergeInv, BankDates, Claims, Passed

LEMMA MergeStep ==
  ASSUME Distinguishable, NoneAlike, TInv, KeyInv, MergeInv, [Next]_vars
  PROVE  MergeInv'
<1>1. BankDates' /\ Claims' /\ Passed'
  BY BankDatesStep, ClaimsStep, PassedStep DEF MergeInv
<1> QED
  BY <1>1 DEF MergeInv

\* When a sync is over, a purchase that settled close enough to its date has one row,
\* whether the bank changed its id or not: its pending row is gone.
THEOREM CountedOnce == Distinguishable /\ NoneAlike => (Spec => []NoDoubleCount)
<1> SUFFICES ASSUME Distinguishable, NoneAlike PROVE Spec => []NoDoubleCount
  OBVIOUS
<1>1. ASSUME TInv, KeyInv, MergeInv PROVE NoDoubleCount
  <2> SUFFICES ASSUME phase = "done", NEW k,
                      \A p \in {q \in Purchases : Look[q] = k} :
                        bookedOn[p] - madeOn[p] <= MatchWindow
               PROVE  Cardinality({r \in rows : r.look = k /\ ~r.deleted})
                        <= Cardinality({p \in {q \in Purchases : Look[q] = k} :
                                          life[p] # "none"})
    BY DEF NoDoubleCount
  <2> DEFINE R == {r \in rows : r.look = k /\ ~r.deleted}
             T == {p \in {q \in Purchases : Look[q] = k} : life[p] # "none"}
             of == [r \in R |-> r.of]
  <2>1. of \in [R -> T]
    BY <1>1 DEF TInv, RowType, Row, KeyInv, Keyed
  <2>2. ASSUME NEW r \in Live("PENDING"), NEW s \in Live("SETTLED"), r.of = s.of, r.look = k,
               s.look = k
        PROVE  FALSE
    <3>1. /\ r \in rows /\ s \in rows /\ r.status = "PENDING" /\ s.status = "SETTLED"
          /\ r.of \in Purchases /\ Look[r.of] = k /\ life[s.of] = "settled"
      BY <1>1, <2>2 DEF Live, TInv, RowType, Row, KeyInv, Keyed
    <3>2. /\ r.booked = madeOn[r.of] /\ s.booked = bookedOn[r.of]
          /\ madeOn[r.of] <= bookedOn[r.of]
      BY <1>1, <2>2, <3>1 DEF MergeInv, BankDates, DayOf
    <3>3. /\ madeOn[r.of] \in Nat /\ bookedOn[r.of] \in Nat /\ MatchWindow \in Nat
          /\ bookedOn[r.of] - madeOn[r.of] <= MatchWindow
      BY <1>1, <3>1, LedgerAssumption DEF TInv, BankType
    <3>4. Matches(r, s)
      BY <2>2, <3>2, <3>3 DEF Matches, Distance
    <3>5. NoTwin(r)
      BY <1>1 DEF MergeInv, Passed, TInv, SyncType
    <3> QED
      BY <3>4, <3>5 DEF NoTwin
  <2>3. ASSUME NEW r \in R, NEW s \in R, r.of = s.of PROVE r = s
    <3>1. r.status \in Statuses /\ s.status \in Statuses
      BY <1>1 DEF TInv, RowType, Row
    <3>2. r.status = s.status
      BY <2>2, <2>3, <3>1 DEF Statuses, Live
    <3>3. r.hash = s.hash
      BY <1>1, <2>3, <3>2 DEF KeyInv, Keyed
    <3> QED
      BY <1>1, <3>3 DEF TInv, RowType
  <2>4. \A r, s \in R : of[r] = of[s] => r = s
    BY <2>3
  <2>5. IsFiniteSet(T)
    BY PurchasesAssumption, FS_Subset
  <2> HIDE DEF R, T, of
  <2>6. of \in Injection(R, T)
    BY <2>1, <2>4 DEF Injection, IsInjective
  <2>7. Cardinality(R) <= Cardinality(T)
    BY <2>5, <2>6, FS_Injection
  <2> QED
    BY <2>7 DEF R, T
<1> QED
  BY <1>1, MergeInit, MergeStep, KeysHold, PTL DEF Spec

-----------------------------------------------------------------------------
(***************************************************************************)
(* A sync that comes after a completed one, with nothing new at the bank,  *)
(* changes nothing.                                                        *)
(***************************************************************************)

\* While the bank stands still, a sync is told all there is, and no more.
AllTold ==
  still # "no" =>
    /\ phase = "fetch" =>
         \A p \in Purchases : life[p] = "settled" => \E tx \in batch : tx.of = p
    /\ Underway => \A p \in Purchases :
         /\ life[p] = "settled" => p \in Told("SETTLED")
         /\ p \in Told("PENDING") <=> life[p] = "pending"

\* An upsert of this report of p finds a row and has nothing to change.
Held(p, status) ==
  \E r \in rows : /\ r.of = p /\ r.hash = Key(p, status)
                  /\ r.deleted \/ r.status = status

\* What was told is still to be stored, or held.
Delivered(status) ==
  Underway => \A p \in Told(status) :
    (\E tx \in batch : tx.of = p /\ tx.status = status) \/ Held(p, status)

Aging(r) == today - r.updated <= PendingExpiry

\* The rows the loop has passed, and kept, are reported or have not expired, as long
\* as no midnight ages them.
PassedFresh ==
  phase = "reconcile" /\ still # "no" =>
    \A r \in Live("PENDING") \ todo : r.id \in seen \/ Aging(r)

PendingIds == {PendingId[p] : p \in {q \in Purchases : life[q] = "pending"}} \ {None}

\* What a completed sync leaves, until the bank moves.
Quiet ==
  still = "yes" =>
    /\ \A p \in Purchases : /\ life[p] = "pending" => Held(p, "PENDING")
                            /\ life[p] = "settled" => Held(p, "SETTLED")
    /\ \A r \in Live("PENDING") : NoTwin(r) /\ (r.id \in PendingIds \/ Aging(r))

LEMMA StandingStill ==
  ASSUME [Next]_vars, still' # "no"
  PROVE  /\ ~Bank /\ UNCHANGED bank
         /\ still # "no" \/ FetchFirst
         /\ still' = "yes" => still = "yes" \/ Finish
<1>1. ~Bank
  BY DEF Bank, Buy, Vanish, Settle, NextDay, BankMoves
<1> QED
  BY <1>1 DEF Next, Sync, FetchFirst, FetchSecond, Upsert, LoadRows, Reconcile, Finish, Fail,
              Export, vars

LEMMA AllToldStep ==
  ASSUME TInv, KeyInv, AllTold, [Next]_vars
  PROVE  AllTold'
<1> SUFFICES ASSUME still' # "no" PROVE AllTold'
  BY DEF AllTold
<1>1. ~Bank /\ life' = life /\ (still # "no" \/ FetchFirst)
  BY StandingStill DEF bank
<1>2. ASSUME phase' = "fetch", NEW p \in Purchases, life[p] = "settled"
      PROVE  \E tx \in batch' : tx.of = p
  <2>1. CASE FetchFirst
    <3>1. batch' = SettledFeed
      BY <2>1 DEF FetchFirst, Feed
    <3>2. Report(p, "SETTLED") \in batch' /\ Report(p, "SETTLED").of = p
      BY <1>2, <3>1 DEF SettledFeed, Report
    <3> QED
      BY <3>2
  <2>2. CASE ~FetchFirst
    <3>1. phase = "fetch" /\ batch' = batch
      BY <1>2, <2>2, FetchedKept
    <3> QED
      BY <1>1, <1>2, <2>2, <3>1 DEF AllTold
  <2> QED
    BY <2>1, <2>2
<1>3. ASSUME Underway', NEW p \in Purchases
      PROVE  /\ life[p] = "settled" => p \in Told("SETTLED")'
             /\ p \in Told("PENDING")' <=> life[p] = "pending"
  <2>1. CASE FetchSecond
    <3>1. still # "no" /\ phase = "fetch"
      BY <1>1, <2>1 DEF FetchSecond, FetchFirst
    <3> QED
      BY <2>1, <3>1, Tells DEF AllTold
  <2>2. CASE ~FetchSecond
    <3>1. Underway /\ told' = told
      BY <1>3, <2>2, ToldKept
    <3>2. still # "no"
      BY <1>1, <1>3 DEF FetchFirst, Underway
    <3> QED
      BY <3>1, <3>2 DEF AllTold, Told
  <2> QED
    BY <2>1, <2>2
<1> QED
  BY <1>1, <1>2, <1>3 DEF AllTold

LEMMA DeliveredStep ==
  ASSUME Distinguishable, TInv, KeyInv, [Next]_vars, NEW status \in Statuses,
         Delivered(status)
  PROVE  Delivered(status)'
<1> SUFFICES ASSUME Underway', NEW p \in Told(status)'
             PROVE  (\E tx \in batch' : tx.of = p /\ tx.status = status) \/ Held(p, status)'
  BY DEF Delivered
<1>1. CASE FetchSecond
  <2>1. <<p, status>> \in {<<tx.of, tx.status>> : tx \in batch'}
    BY <1>1 DEF FetchSecond, Told
  <2> QED
    BY <2>1
<1>2. CASE ~FetchSecond
  <2>1. Underway /\ told' = told
    BY <1>2, ToldKept
  <2>2. p \in Told(status) /\ p \in Purchases
    BY <2>1 DEF Told
  <2>3. life[p] # "none" /\ (status = "SETTLED" => life[p] = "settled")
    BY <2>2 DEF KeyInv, Telling, Statuses
  <2>4. Key(p, status)' = Key(p, status)
    BY <2>2, <2>3, KeysStay
  <2>5. ASSUME Held(p, status) PROVE Held(p, status)'
    <3>1. PICK r \in rows : /\ r.of = p /\ r.hash = Key(p, status)
                            /\ r.deleted \/ r.status = status
      BY <2>5 DEF Held
    <3>2. PICK s \in rows' : Becomes(r, s)
      BY Fates
    <3>3. s.deleted \/ s.status = status
      <4>1. CASE r.deleted
        BY <3>2, <4>1 DEF Becomes, Stored, Dropped, Marked
      <4>2. CASE r.status = status /\ s.status # r.status
        <5>1. p \in Told(s.status) /\ s.status \in Statuses
          BY <3>1, <3>2, <4>2, StatusFrom
        <5> QED
          BY <2>2, <4>2, <5>1 DEF KeyInv, Telling, Statuses
      <4> QED
        BY <3>1, <4>1, <4>2
    <3> QED
      BY <2>4, <3>1, <3>2, <3>3 DEF Held, Becomes
  <2>6. ASSUME NEW tx \in batch, tx.of = p, tx.status = status, Upsert(tx)
        PROVE  Held(p, status)'
    <3>1. PICK s \in rows' : /\ s.of = tx.of /\ s.hash = tx.hash
                             /\ s.status = tx.status \/ (s \in rows /\ s.deleted)
      BY <2>6, UpsertStores
    <3>2. tx.hash = Key(p, status)
      BY <2>6, Storing
    <3> QED
      BY <2>4, <2>6, <3>1, <3>2 DEF Held
  <2>7. ASSUME NEW tx \in batch, tx \notin batch' PROVE Upsert(tx)
    <3>1. phase = "upsert"
      BY <2>1, <2>7 DEF TInv, SyncType, Underway
    <3>2. ~Bank /\ ~UNCHANGED vars
      BY <2>7, BankMoved DEF memory, vars
    <3> QED
      BY <1>2, <2>7, <3>1, <3>2
         DEF Next, Sync, Underway, FetchFirst, Upsert, LoadRows, Reconcile, Finish, Fail, Export
  <2> QED
    BY <2>1, <2>2, <2>5, <2>6, <2>7 DEF Delivered
<1> QED
  BY <1>1, <1>2

LEMMA PassedFreshStep ==
  ASSUME TInv, PassedFresh, [Next]_vars
  PROVE  PassedFresh'
<1> SUFFICES ASSUME phase' = "reconcile", still' # "no",
                    NEW s \in Live("PENDING")', s \notin todo'
             PROVE  s.id \in seen' \/ Aging(s)'
  BY DEF PassedFresh, Aging
<1>0. ~Bank /\ (still # "no" \/ FetchFirst)
  BY StandingStill
<1>1. CASE \E pending \in todo : Reconcile(pending)
  <2>1. PICK r \in todo : Reconcile(r)
    BY <1>1
  <2>2. /\ phase = "reconcile" /\ todo' = todo \ {r} /\ seen' = seen /\ today' = today
        /\ r \in rows /\ r \in Row /\ ~r.deleted
        /\ rows' = rows \/ rows' = (rows \ {r}) \cup {[r EXCEPT !.deleted = TRUE]}
    BY <2>1 DEF Reconcile, Merge, Expire, TInv, SyncType, RowType, Live, bank
  <2>3. [r EXCEPT !.deleted = TRUE].deleted /\ r # [r EXCEPT !.deleted = TRUE]
    BY <2>2 DEF Row
  <2>4. s \in Live("PENDING") /\ (s = r => rows' = rows)
    BY <2>2, <2>3 DEF Live
  <2>5. CASE s # r
    BY <1>0, <2>1, <2>2, <2>4, <2>5 DEF PassedFresh, Aging, Reconcile, FetchFirst
  <2>6. CASE s = r
    <3>1. ~Stale(r)
      BY <2>1, <2>2, <2>3, <2>4, <2>6 DEF Reconcile, Merge, Expire
    <3>2. today \in Nat /\ r.updated \in Nat /\ PendingExpiry \in Nat
      BY <2>2, LedgerAssumption DEF TInv, BankType, Row
    <3> QED
      BY <2>2, <2>6, <3>1, <3>2 DEF Stale, Aging
  <2> QED
    BY <2>5, <2>6
<1>2. CASE LoadRows
  BY <1>2 DEF LoadRows, Live
<1>3. CASE UNCHANGED vars
  BY <1>3 DEF vars, memory, bank, PassedFresh, Live, Aging
<1> QED
  BY <1>0, <1>1, <1>2, <1>3
     DEF Next, Sync, FetchFirst, FetchSecond, Upsert, Finish, Fail, Export

StillInv ==
  /\ Seen /\ AllTold /\ Delivered("PENDING") /\ Delivered("SETTLED")
  /\ PassedFresh /\ Quiet

LEMMA QuietUpsert ==
  ASSUME Distinguishable, TInv, KeyInv, BankDates, AllTold, Quiet, still = "yes",
         NEW tx \in batch, Upsert(tx)
  PROVE  rows' = rows
<1>1. /\ phase = "upsert" /\ tx \in Tx /\ Hashed(tx) /\ tx.of \in Purchases
      /\ tx.status \in Statuses /\ tx.of \in Told(tx.status)
      /\ tx.hash = Key(tx.of, tx.status)
      /\ tx.status = "SETTLED" => life[tx.of] = "settled"
  BY Storing
<1>2. tx.status = "PENDING" => life[tx.of] = "pending"
  BY <1>1 DEF AllTold, Underway
<1>3. Held(tx.of, tx.status)
  BY <1>1, <1>2 DEF Quiet, Statuses
<1>4. PICK r \in rows : /\ r.of = tx.of /\ r.hash = tx.hash
                        /\ r.deleted \/ r.status = tx.status
  BY <1>1, <1>3 DEF Held
<1>5. Existing(tx) = {r}
  <2>1. Existing(tx) = {x \in rows : x.hash = tx.hash}
    BY <1>1, ExistingByHash DEF TInv
  <2> QED
    BY <1>4, <2>1 DEF TInv, RowType
<1>6. r.deleted \/ ~HasChanges(r, tx)
  <2>1. r.booked = DayOf(r.of, r.status) /\ tx.booked = DayOf(tx.of, tx.status)
    BY <1>1 DEF BankDates
  <2> QED
    BY <1>4, <2>1 DEF HasChanges
<1>7. \A x \in rows : ~(x \in Existing(tx) /\ ~x.deleted /\ HasChanges(x, tx))
  BY <1>5, <1>6
<1>8. rows' = {IF x \in Existing(tx) /\ ~x.deleted /\ HasChanges(x, tx)
               THEN [x EXCEPT !.status = tx.status, !.booked = tx.booked,
                              !.updated = today, !.news = TRUE]
               ELSE x : x \in rows}
  BY <1>5 DEF Upsert, Upserted
<1> QED
  BY <1>7, <1>8

LEMMA QuietReconcile ==
  ASSUME TInv, Seen, AllTold, Quiet, still = "yes", NEW r \in todo, Reconcile(r)
  PROVE  rows' = rows
<1>1. /\ phase = "reconcile" /\ r \in Live("PENDING") /\ r \in Row
      /\ settled \subseteq Live("SETTLED")
  BY DEF Reconcile, TInv, SyncType, RowType, Live
<1>2. NoTwin(r) /\ (r.id \in PendingIds \/ Aging(r))
  BY <1>1 DEF Quiet
<1>3. Twins(r) = {}
  BY <1>1, <1>2 DEF Twins, NoTwin
<1>4. ~Stale(r)
  <2>1. CASE r.id \in PendingIds
    <3>1. PICK p \in Purchases : life[p] = "pending" /\ r.id = PendingId[p] /\ r.id # None
      BY <2>1 DEF PendingIds
    <3>2. p \in Told("PENDING")
      BY <1>1, <3>1 DEF AllTold, Underway
    <3>3. r.id \in seen
      BY <1>1, <3>1, <3>2 DEF Seen
    <3> QED
      BY <3>3 DEF Stale
  <2>2. CASE Aging(r)
    <3>1. today \in Nat /\ r.updated \in Nat /\ PendingExpiry \in Nat
      BY <1>1, LedgerAssumption DEF TInv, BankType, Row
    <3> QED
      BY <2>2, <3>1 DEF Stale, Aging
  <2> QED
    BY <1>2, <2>1, <2>2
<1> QED
  BY <1>3, <1>4 DEF Reconcile, Merge, Expire

LEMMA QuietSync ==
  ASSUME Distinguishable, TInv, KeyInv, BankDates, StillInv, still = "yes", Sync
  PROVE  rows' = rows
<1>1. CASE \E tx \in batch : Upsert(tx)
  BY <1>1, QuietUpsert DEF StillInv
<1>2. CASE \E pending \in todo : Reconcile(pending)
  BY <1>2, QuietReconcile DEF StillInv
<1>3. CASE FetchFirst \/ FetchSecond \/ LoadRows \/ Finish \/ Fail
  BY <1>3 DEF FetchFirst, FetchSecond, LoadRows, Finish, Fail
<1> QED
  BY <1>1, <1>2, <1>3 DEF Sync

LEMMA QuietStep ==
  ASSUME Distinguishable, TInv, KeyInv, MergeInv, StillInv, [Next]_vars
  PROVE  Quiet'
<1> SUFFICES ASSUME still' = "yes" PROVE Quiet'
  BY DEF Quiet
<1>1. /\ ~Bank /\ UNCHANGED <<today, life, madeOn, bookedOn>>
      /\ still = "yes" \/ Finish
  BY StandingStill DEF bank
<1>2. CASE Finish
  <2>1. /\ phase = "reconcile" /\ todo = {} /\ batch = {} /\ rows' = rows /\ still # "no"
    BY <1>1, <1>2 DEF Finish, TInv, SyncType
  <2>2. ASSUME NEW p \in Purchases
        PROVE  /\ life[p] = "pending" => Held(p, "PENDING")
               /\ life[p] = "settled" => Held(p, "SETTLED")
    BY <2>1 DEF StillInv, AllTold, Delivered, Underway
  <2>3. ASSUME NEW r \in Live("PENDING")
        PROVE  NoTwin(r) /\ (r.id \in PendingIds \/ Aging(r))
    <3>1. NoTwin(r) /\ (r.id \in seen \/ Aging(r))
      BY <2>1 DEF MergeInv, Passed, StillInv, PassedFresh
    <3>2. ASSUME r.id \in seen PROVE r.id \in PendingIds
      <4>1. PICK p \in Told("PENDING") : r.id = PendingId[p] /\ r.id # None
        BY <2>1, <3>2 DEF StillInv, Seen
      <4>2. p \in Purchases /\ life[p] = "pending"
        BY <2>1, <4>1 DEF StillInv, AllTold, Underway, Told
      <4> QED
        BY <4>1, <4>2 DEF PendingIds
    <3> QED
      BY <3>1, <3>2
  <2> QED
    BY <1>1, <2>1, <2>2, <2>3
       DEF Quiet, Held, Key, NoTwin, Matches, Distance, Live, PendingIds, Aging
<1>3. CASE still = "yes" /\ ~Export
  <2>1. rows' = rows
    BY <1>1, <1>3, QuietSync DEF Next, vars, MergeInv
  <2> QED
    BY <1>1, <1>3, <2>1
       DEF StillInv, Quiet, Held, Key, NoTwin, Matches, Distance, Live, PendingIds, Aging
<1>4. CASE still = "yes" /\ Export
  <2>1. ~\E tx \in batch : Upsert(tx)
    BY <1>4 DEF Export, Upsert
  <2>2. ASSUME NEW p \in Purchases, NEW status \in Statuses, Held(p, status)
        PROVE  Held(p, status)'
    <3>1. PICK r \in rows : /\ r.of = p /\ r.hash = Key(p, status)
                            /\ r.deleted \/ r.status = status
      BY <2>2 DEF Held
    <3>2. PICK s \in rows' : Becomes(r, s)
      BY Fates
    <3>3. /\ s.of = p /\ s.hash = r.hash /\ (s.deleted \/ s.status = status)
      BY <2>1, <3>1, <3>2 DEF Becomes, Stored, Dropped, Marked
    <3>4. Key(p, status)' = Key(p, status)
      BY <1>1 DEF Key, IdOf
    <3> QED
      BY <3>1, <3>3, <3>4 DEF Held
  <2>3. ASSUME NEW s \in Live("PENDING")'
        PROVE  NoTwin(s)' /\ (s.id \in PendingIds \/ today - s.updated <= PendingExpiry)
    <3>1. PICK r \in rows : /\ Becomes(r, s) /\ s.look = r.look /\ s.booked = r.booked
                            /\ r.status = "PENDING" /\ ~r.deleted
                            /\ s.updated # r.updated => s.updated = today
      BY <2>1, Calm DEF Live
    <3>2. NoTwin(r) /\ (r.id \in PendingIds \/ Aging(r))
      BY <1>4, <3>1 DEF StillInv, Quiet, Live
    <3>3. NoTwin(s)'
      BY <2>1, <3>1, <3>2, NoTwinKept
    <3>4. today \in Nat /\ PendingExpiry \in Nat
      BY LedgerAssumption DEF TInv, BankType
    <3>5. s.id = r.id
      BY <3>1 DEF Becomes
    <3> QED
      BY <3>1, <3>2, <3>3, <3>4, <3>5 DEF Aging
  <2>4. \A p \in Purchases : /\ life[p] = "pending" => Held(p, "PENDING")'
                             /\ life[p] = "settled" => Held(p, "SETTLED")'
    BY <1>4, <2>2 DEF StillInv, Quiet, Statuses
  <2> QED
    BY <1>1, <2>3, <2>4 DEF Quiet, PendingIds, Aging
<1> QED
  BY <1>1, <1>2, <1>3, <1>4

LEMMA StillStep ==
  ASSUME Distinguishable, TInv, KeyInv, MergeInv, StillInv, [Next]_vars
  PROVE  StillInv'
<1>1. Seen' /\ AllTold' /\ PassedFresh' /\ Quiet'
  BY SeenStep, AllToldStep, PassedFreshStep, QuietStep DEF StillInv
<1>2. Delivered("PENDING")' /\ Delivered("SETTLED")'
  BY DeliveredStep DEF StillInv, Statuses
<1> QED
  BY <1>1, <1>2 DEF StillInv

LEMMA StillInit == Init => StillInv
<1> SUFFICES ASSUME Init PROVE StillInv
  OBVIOUS
<1>1. phase = "idle" /\ still = "no"
  BY DEF Init
<1> QED
  BY <1>1 DEF StillInv, Seen, AllTold, Delivered, Underway, PassedFresh, Quiet

\* A sync after a completed one, with nothing new at the bank, changes no row, on
\* whichever of its steps it fails and whatever was exported in between.
THEOREM SyncIsIdempotent == Distinguishable /\ NoneAlike => (Spec => Idempotent)
<1> SUFFICES ASSUME Distinguishable, NoneAlike PROVE Spec => Idempotent
  OBVIOUS
<1>1. TInv /\ KeyInv /\ MergeInv /\ [Next]_vars => MergeInv'
  BY MergeStep
<1>2. TInv /\ KeyInv /\ MergeInv /\ StillInv /\ [Next]_vars => StillInv'
  BY StillStep
<1>3. TInv /\ KeyInv /\ MergeInv /\ StillInv /\ [Next]_vars =>
        [still = "yes" /\ Sync => rows' = rows]_vars
  BY QuietSync DEF MergeInv
<1> QED
  BY <1>1, <1>2, <1>3, MergeInit, StillInit, KeysHold, PTL DEF Spec, Idempotent
=============================================================================
