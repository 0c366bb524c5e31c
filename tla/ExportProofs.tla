---------------------------- MODULE ExportProofs ----------------------------
(***************************************************************************)
(* What no export selects any more is in Actual, and nothing is there      *)
(* twice, for any connections, accounts, rows and failures.                *)
(*                                                                         *)
(* MarkedIsThere relates the rows to Actual.  It is kept because a batch   *)
(* stays the truth about its rows for as long as the export is under way   *)
(* (Batches: the lock of the connection), because the account of Actual    *)
(* in hand is the one that is linked (Linking), and because the rows whose *)
(* bookkeeping is still to come were imported (Importing).                 *)
(***************************************************************************)
EXTENDS Export, FiniteSetTheorems, TLAPS

\* The states in which the exporter is at work on one account.
AtAccount == {"list", "create", "store", "import", "book", "error"}

\* A batch holds the present versions of live rows of its own connection.
Batches(c) ==
  /\ pc[c] = "idle" => job[c] = IdleJob
  /\ \A r \in Rows : job[c].batch[r] > 0 =>
       /\ ConnectionOfRow(r) = c
       /\ row[r].version = job[c].batch[r]
       /\ ~row[r].deleted

\* The account in hand is of this connection; it has no link while one is
\* looked for, and afterwards the link is the account of Actual in hand.
Linking(c) ==
  /\ \A a \in job[c].todo : ConnectionOf[a] = c
  /\ pc[c] \in AtAccount => job[c].acct \in Accounts /\ ConnectionOf[job[c].acct] = c
  /\ pc[c] \in {"list", "create", "store"} => link[job[c].acct] = None
  /\ pc[c] \in {"store", "import", "book"} => job[c].book \in Books
  /\ pc[c] \in {"import", "book"} => link[job[c].acct] = job[c].book

\* The rows still to be marked are in Actual as the batch has them.
Importing(c) ==
  pc[c] = "book" =>
    \A r \in job[c].left :
      r \in Batch(c) /\ entry[job[c].book][r] = job[c].batch[r]

\* An entry is in the account of Actual to which its row's account is linked.
EntriesLinked ==
  \A b \in Books, r \in Rows : entry[b][r] > 0 => link[AccountOf[r]] = b

\* A row that is not there yet is news when it comes.
Unborn == \A r \in Rows : row[r].version = 0 => row[r].newer

Exporters == \A c \in Connections : Batches(c) /\ Linking(c) /\ Importing(c)

IInv == TypeOK /\ Unborn /\ Exporters /\ MarkedIsThere /\ EntriesLinked

LEMMA Constants ==
  /\ \A r \in Rows : AccountOf[r] \in Accounts /\ ConnectionOfRow(r) \in Connections
  /\ None \notin Books /\ None \notin Accounts /\ None \notin Rows
  /\ NoName = <<None, None>>
BY ConnectionOfAssumption, AccountOfAssumption, ExportNoneAssumption
   DEF ConnectionOfRow, NoName

LEMMA IdleJobType == IdleJob \in Job
BY DEF IdleJob, Job, NoName

-----------------------------------------------------------------------------
(***************************************************************************)
(* Type correctness, one action after the other.                           *)
(***************************************************************************)
LEMMA InitType == Init => TypeOK
<1> SUFFICES ASSUME Init PROVE TypeOK
  OBVIOUS
<1>1. listed \subseteq Accounts /\ session \in BOOLEAN /\ exports \in Nat
  BY DEF Init
<1>2. row \in [Rows -> Row]
  BY DEF Init, NoRow, Row, ImportStatus
<1>3. link \in [Accounts -> Books \cup {None}] /\ entry \in [Books -> [Rows -> Nat]]
  BY DEF Init
<1>4. books \in [Books -> TargetNames \cup {NoName, OtherName}]
  BY UserNamesAssumption DEF Init
<1>5. pc \in [Connections -> PcValues] /\ job \in [Connections -> Job]
  BY IdleJobType DEF Init, PcValues
<1> QED
  BY <1>1, <1>2, <1>3, <1>4, <1>5 DEF TypeOK

\* What the fields of a row are.
LEMMA RowFields ==
  ASSUME NEW old \in Row
  PROVE  /\ old.version \in Nat
         /\ [old EXCEPT !.version = 1] \in Row
         /\ [old EXCEPT !.version = old.version + 1, !.newer = TRUE] \in Row
         /\ [old EXCEPT !.deleted = TRUE, !.newer = TRUE] \in Row
         /\ [old EXCEPT !.import = "IMPORT_ERROR", !.newer = TRUE] \in Row
         /\ \A newer \in BOOLEAN, id \in Rows \cup {None} :
              [old EXCEPT !.import = "IMPORTED", !.newer = newer, !.aid = id] \in Row
<1>1. old.version \in Nat /\ old.version + 1 \in Nat /\ 1 \in Nat
  BY DEF Row
<1> DEFINE v == old.version + 1
<1> HIDE DEF v
<1>2. \A n \in Nat : [old EXCEPT !.version = n] \in Row
  BY DEF Row
<1>3. \A n \in Nat : [old EXCEPT !.version = n, !.newer = TRUE] \in Row
  BY DEF Row
<1>4. [old EXCEPT !.deleted = TRUE, !.newer = TRUE] \in Row
  BY DEF Row
<1>5. [old EXCEPT !.import = "IMPORT_ERROR", !.newer = TRUE] \in Row
  BY DEF Row, ImportStatus
<1>6. \A newer \in BOOLEAN, id \in Rows \cup {None} :
        [old EXCEPT !.import = "IMPORTED", !.newer = newer, !.aid = id] \in Row
  BY DEF Row, ImportStatus
<1> QED
  BY <1>1, <1>2, <1>3, <1>4, <1>5, <1>6

\* One row is replaced.
LEMMA SetRow ==
  ASSUME TypeOK, NEW r \in Rows, NEW new \in Row, row' = [row EXCEPT ![r] = new]
  PROVE  /\ row' \in [Rows -> Row] /\ row'[r] = new
         /\ \A s \in Rows \ {r} : row'[s] = row[s]
BY DEF TypeOK

\* One exporter moves.
LEMMA SetJob ==
  ASSUME TypeOK, NEW c \in Connections, NEW new \in Job, NEW p \in PcValues,
         job' = [job EXCEPT ![c] = new], pc' = [pc EXCEPT ![c] = p]
  PROVE  /\ job' \in [Connections -> Job] /\ pc' \in [Connections -> PcValues]
         /\ job'[c] = new /\ pc'[c] = p
         /\ \A d \in Connections \ {c} : job'[d] = job[d] /\ pc'[d] = pc[d]
BY DEF TypeOK

\* The local records the actions make.
LEMMA JobFields ==
  ASSUME NEW j \in Job
  PROVE  /\ j.batch \in [Rows -> Nat] /\ j.todo \subseteq Accounts
         /\ j.left \subseteq Rows /\ j.added \subseteq Rows
         /\ j.acct \in Accounts \cup {None} /\ j.book \in Books \cup {None}
         /\ j.name \in TargetNames \cup {NoName}
         /\ \A a \in Accounts, b \in Books : [j EXCEPT !.acct = a, !.book = b] \in Job
         /\ \A a \in Accounts, n \in TargetNames : [j EXCEPT !.acct = a, !.name = n] \in Job
         /\ \A b \in Books : [j EXCEPT !.book = b] \in Job
         /\ \A some, more \in SUBSET Rows : [j EXCEPT !.left = some, !.added = more] \in Job
BY DEF Job

-----------------------------------------------------------------------------
(***************************************************************************)
(* An exporter that does not move is not disturbed by the others.          *)
(***************************************************************************)
LEMMA Undisturbed ==
  ASSUME IInv, NEW d \in Connections, pc'[d] = pc[d], job'[d] = job[d],
         \A r \in Rows : ConnectionOfRow(r) = d =>
           row'[r].version = row[r].version /\ row'[r].deleted = row[r].deleted,
         \A a \in Accounts : ConnectionOf[a] = d => link'[a] = link[a],
         \A b \in Books, r \in Rows :
           ConnectionOfRow(r) = d => entry'[b][r] = entry[b][r]
  PROVE  Batches(d)' /\ Linking(d)' /\ Importing(d)'
<1> USE DEF IInv, Exporters
<1>1. Batches(d) /\ Linking(d) /\ Importing(d)
  OBVIOUS
<1>2. Batches(d)'
  BY <1>1 DEF Batches, ConnectionOfRow
<1>3. Linking(d)'
  BY <1>1 DEF Linking, AtAccount
<1>4. Importing(d)'
  <2> SUFFICES ASSUME pc[d] = "book", NEW r \in job[d].left
               PROVE  (r \in Batch(d))' /\ entry'[job[d].book][r] = job[d].batch[r]
    BY DEF Importing
  <2>1. r \in Batch(d) /\ entry[job[d].book][r] = job[d].batch[r]
    BY <1>1 DEF Importing
  <2>2. r \in Rows /\ job[d].batch[r] > 0
    BY <2>1 DEF Batch
  <2>3. ConnectionOfRow(r) = d /\ job[d].book \in Books
    BY <1>1, <2>2 DEF Batches, Linking
  <2> QED
    BY <2>1, <2>2, <2>3 DEF Batch
<1> QED
  BY <1>2, <1>3, <1>4

\* A step that leaves the rows, the links and Actual's entries alone.
LEMMA Quiet ==
  ASSUME IInv, TypeOK', UNCHANGED <<row, link, entry>>,
         \A c \in Connections :
           \/ pc'[c] = pc[c] /\ job'[c] = job[c]
           \/ Batches(c)' /\ Linking(c)' /\ Importing(c)'
  PROVE  IInv'
<1>1. Exporters'
  <2> SUFFICES ASSUME NEW c \in Connections
               PROVE  Batches(c)' /\ Linking(c)' /\ Importing(c)'
    BY DEF Exporters
  <2> QED
    BY Undisturbed
<1>2. MarkedIsThere' /\ EntriesLinked' /\ Unborn'
  BY DEF IInv, MarkedIsThere, EntriesLinked, Unborn, Live, NeedsExport
<1> QED
  BY <1>1, <1>2 DEF IInv

\* An exporter that has nothing left in hand.
LEMMA AtRest ==
  ASSUME NEW c \in Connections, pc'[c] \in {"idle", "close"}, job'[c] = IdleJob
  PROVE  Batches(c)' /\ Linking(c)' /\ Importing(c)'
<1>1. \A r \in Rows : ~(IdleJob.batch[r] > 0)
  BY SMT DEF IdleJob
<1>2. IdleJob.todo = {}
  BY DEF IdleJob
<1> QED
  BY <1>1, <1>2 DEF Batches, Linking, Importing, AtAccount

-----------------------------------------------------------------------------
(***************************************************************************)
(* The sync before the export.                                             *)
(***************************************************************************)

\* A row changes while no exporter of its connection is under way, and is
\* news from then on.
LEMMA RowStep ==
  ASSUME IInv, NEW r \in Rows, NEW new \in Row, row' = [row EXCEPT ![r] = new],
         new.newer, pc[ConnectionOfRow(r)] = "idle",
         UNCHANGED <<listed, link, books, entry, session, pc, job, exports>>
  PROVE  IInv'
<1> USE DEF IInv
<1>1. /\ row' \in [Rows -> Row] /\ row'[r] = new
      /\ \A s \in Rows \ {r} : row'[s] = row[s]
  BY SetRow
<1>2. TypeOK'
  BY <1>1 DEF TypeOK
<1>3. Exporters'
  <2> SUFFICES ASSUME NEW d \in Connections
               PROVE  Batches(d)' /\ Linking(d)' /\ Importing(d)'
    BY DEF Exporters
  <2>1. CASE d = ConnectionOfRow(r)
    <3>1. pc'[d] = "idle" /\ job'[d] = IdleJob
      BY <2>1 DEF Exporters, Batches
    <3> QED
      BY <3>1, AtRest
  <2>2. CASE d # ConnectionOfRow(r)
    <3>1. \A s \in Rows : ConnectionOfRow(s) = d =>
            row'[s].version = row[s].version /\ row'[s].deleted = row[s].deleted
      BY <1>1, <2>2
    <3> QED
      BY <3>1, Undisturbed
  <2> QED
    BY <2>1, <2>2
<1>4. MarkedIsThere' /\ Unborn' /\ EntriesLinked'
  BY <1>1 DEF MarkedIsThere, Unborn, EntriesLinked, NeedsExport, Live
<1> QED
  BY <1>2, <1>3, <1>4

LEMMA InsertStep ==
  ASSUME IInv, NEW r \in Rows, Insert(r)
  PROVE  IInv'
<1> DEFINE new == [row[r] EXCEPT !.version = 1]
<1>1. row[r] \in Row
  BY DEF IInv, TypeOK
<1>2. new \in Row
  BY <1>1, RowFields
<1>3. row' = [row EXCEPT ![r] = new]
  BY DEF Insert
<1>4. new.newer
  BY <1>1 DEF Insert, IInv, Unborn, Row
<1> HIDE DEF new
<1> QED
  BY <1>2, <1>3, <1>4, RowStep DEF Insert, actual

LEMMA ChangeStep ==
  ASSUME IInv, NEW r \in Rows, Change(r)
  PROVE  IInv'
<1> DEFINE new == [row[r] EXCEPT !.version = row[r].version + 1, !.newer = TRUE]
<1>1. row[r] \in Row
  BY DEF IInv, TypeOK
<1>2. new \in Row
  BY <1>1, RowFields
<1>3. row' = [row EXCEPT ![r] = new]
  BY DEF Change
<1>4. new.newer
  BY <1>1 DEF Row
<1> HIDE DEF new
<1> QED
  BY <1>2, <1>3, <1>4, RowStep DEF Change, actual

LEMMA SoftDeleteStep ==
  ASSUME IInv, NEW r \in Rows, SoftDelete(r)
  PROVE  IInv'
<1> DEFINE new == [row[r] EXCEPT !.deleted = TRUE, !.newer = TRUE]
<1>1. row[r] \in Row
  BY DEF IInv, TypeOK
<1>2. new \in Row
  BY <1>1, RowFields
<1>3. row' = [row EXCEPT ![r] = new]
  BY DEF SoftDelete
<1>4. new.newer
  BY <1>1 DEF Row
<1> HIDE DEF new
<1> QED
  BY <1>2, <1>3, <1>4, RowStep DEF SoftDelete, actual

\* Steps that neither the rows nor the exporters see.
LEMMA OutsideStep ==
  ASSUME IInv, \/ \E a \in Accounts : Discover(a)
               \/ \E b \in Books : UserRenames(b)
  PROVE  IInv'
<1>1. UNCHANGED <<row, link, entry, pc, job, session, exports>>
  BY DEF Discover, UserRenames, database, actual
<1>2. listed' \subseteq Accounts
  BY DEF IInv, TypeOK, Discover, UserRenames, database
<1>3. books' \in [Books -> TargetNames \cup {NoName, OtherName}]
  BY DEF IInv, TypeOK, Discover, UserRenames, actual
<1>4. TypeOK'
  BY <1>1, <1>2, <1>3 DEF IInv, TypeOK
<1> QED
  BY <1>1, <1>4, Quiet

LEMMA CrashStep ==
  ASSUME IInv, Crash
  PROVE  IInv'
<1>1. /\ session' = FALSE /\ UNCHANGED <<listed, row, link, books, entry, exports>>
      /\ \A c \in Connections : pc'[c] = "idle" /\ job'[c] = IdleJob
  BY DEF Crash, database, actual
<1>2. pc' \in [Connections -> PcValues] /\ job' \in [Connections -> Job]
  BY IdleJobType DEF Crash, PcValues
<1>3. TypeOK'
  BY <1>1, <1>2 DEF IInv, TypeOK
<1>4. \A c \in Connections : Batches(c)' /\ Linking(c)' /\ Importing(c)'
  BY <1>1, AtRest
<1> QED
  BY <1>1, <1>3, <1>4, Quiet

-----------------------------------------------------------------------------
(***************************************************************************)
(* The exporter: steps that write neither rows, nor links, nor entries.    *)
(***************************************************************************)

\* The locals stay: Open, EndLoop, NoMatch, LinkFails and BookFails.
LEMMA MoveStep ==
  ASSUME IInv, NEW c \in Connections,
         \/ Open(c) \/ EndLoop(c) \/ NoMatch(c) \/ LinkFails(c) \/ BookFails(c)
  PROVE  IInv'
<1> USE DEF IInv
<1>1. PICK p \in {"account", "close", "create", "error"} :
        /\ pc' = [pc EXCEPT ![c] = p]
        /\ pc[c] # "idle"
        /\ p = "create" => pc[c] = "list"
        /\ p = "error" => pc[c] \in AtAccount
  BY DEF Open, EndLoop, NoMatch, LinkFails, BookFails, AtAccount
<1>2. /\ UNCHANGED <<listed, row, link, books, entry, job, exports>>
      /\ session' \in BOOLEAN
  BY DEF Open, EndLoop, NoMatch, LinkFails, BookFails, database, actual, TypeOK
<1>3. /\ pc' \in [Connections -> PcValues] /\ pc'[c] = p
      /\ \A d \in Connections \ {c} : pc'[d] = pc[d]
  BY <1>1 DEF TypeOK, PcValues
<1>4. TypeOK'
  BY <1>2, <1>3 DEF TypeOK
<1>5. Batches(c)' /\ Linking(c)' /\ Importing(c)'
  <2>1. Batches(c) /\ Linking(c)
    BY DEF Exporters
  <2>2. Batches(c)'
    BY <1>1, <1>2, <1>3, <2>1 DEF Batches, ConnectionOfRow
  <2>3. Linking(c)'
    BY <1>1, <1>2, <1>3, <2>1 DEF Linking, AtAccount
  <2>4. Importing(c)'
    BY <1>1, <1>3 DEF Importing
  <2> QED
    BY <2>2, <2>3, <2>4
<1> QED
  BY <1>2, <1>3, <1>4, <1>5, Quiet

\* The locals are forgotten: OpenFails, Close and MarkErrorFails.
LEMMA ReturnStep ==
  ASSUME IInv, NEW c \in Connections, OpenFails(c) \/ Close(c) \/ MarkErrorFails(c)
  PROVE  IInv'
<1>1. PICK p \in {"idle", "close"} :
        pc' = [pc EXCEPT ![c] = p] /\ job' = [job EXCEPT ![c] = IdleJob]
  BY DEF OpenFails, Close, MarkErrorFails
<1>2. /\ UNCHANGED <<listed, row, link, books, entry, exports>>
      /\ session' \in BOOLEAN
  BY DEF OpenFails, Close, MarkErrorFails, database, actual, IInv, TypeOK
<1>3. p \in PcValues
  BY DEF PcValues
<1>4. /\ job' \in [Connections -> Job] /\ pc' \in [Connections -> PcValues]
      /\ job'[c] = IdleJob /\ pc'[c] = p
      /\ \A d \in Connections \ {c} : job'[d] = job[d] /\ pc'[d] = pc[d]
  BY <1>1, <1>3, IdleJobType, SetJob DEF IInv
<1>5. TypeOK'
  BY <1>2, <1>4 DEF IInv, TypeOK
<1>6. Batches(c)' /\ Linking(c)' /\ Importing(c)'
  BY <1>4, AtRest
<1> QED
  BY <1>2, <1>4, <1>5, <1>6, Quiet

LEMMA BeginStep ==
  ASSUME IInv, NEW c \in Connections, NEW scope \in Scopes(c), Begin(c, scope)
  PROVE  IInv'
<1> USE DEF IInv
<1> DEFINE rows == {r \in Rows : AccountOf[r] \in scope /\ NeedsExport(r)}
           versions == [r \in Rows |-> IF r \in rows THEN row[r].version ELSE 0]
           new == [IdleJob EXCEPT !.batch = versions,
                                  !.todo = {AccountOf[r] : r \in rows}]
<1>1. versions \in [Rows -> Nat]
  BY DEF TypeOK, Row
<1>2. {AccountOf[r] : r \in rows} \subseteq Accounts
  BY Constants
<1>3. /\ new \in Job /\ new.batch = versions /\ new.todo = {AccountOf[r] : r \in rows}
  BY <1>1, <1>2, IdleJobType DEF Job
<1>4. /\ pc' = [pc EXCEPT ![c] = "open"] /\ job' = [job EXCEPT ![c] = new]
      /\ UNCHANGED <<listed, row, link, books, entry, session>> /\ exports' \in Nat
  BY DEF Begin, database, actual, TypeOK
<1>5. \A a \in scope : ConnectionOf[a] = c
  BY DEF Scopes
<1>6. \A r \in Rows : versions[r] > 0 =>
        ConnectionOfRow(r) = c /\ versions[r] = row[r].version /\ ~row[r].deleted
  BY <1>5, SMT DEF ConnectionOfRow, NeedsExport, Live
<1>7. \A a \in new.todo : ConnectionOf[a] = c
  BY <1>3, <1>5
<1> HIDE DEF new, versions
<1>8. /\ job' \in [Connections -> Job] /\ pc' \in [Connections -> PcValues]
      /\ job'[c] = new /\ pc'[c] = "open"
      /\ \A d \in Connections \ {c} : job'[d] = job[d] /\ pc'[d] = pc[d]
  BY <1>3, <1>4, SetJob DEF PcValues
<1>9. TypeOK'
  BY <1>4, <1>8 DEF TypeOK
<1>10. Batches(c)' /\ Linking(c)' /\ Importing(c)'
  <2>1. Batches(c)'
    BY <1>3, <1>4, <1>6, <1>8 DEF Batches, ConnectionOfRow
  <2>2. Linking(c)' /\ Importing(c)'
    BY <1>7, <1>8 DEF Linking, Importing, AtAccount
  <2> QED
    BY <2>1, <2>2
<1> QED
  BY <1>4, <1>8, <1>9, <1>10, Quiet

LEMMA NextAccountStep ==
  ASSUME IInv, NEW c \in Connections, NEW a \in Accounts, NextAccount(c, a)
  PROVE  IInv'
<1> USE DEF IInv
<1>1. /\ pc[c] = "account" /\ a \in job[c].todo
      /\ UNCHANGED <<listed, row, link, books, entry, session, exports>>
  BY DEF NextAccount, database, actual
<1>2. Batches(c) /\ Linking(c) /\ job[c] \in Job /\ ConnectionOf[a] = c
  BY <1>1 DEF Exporters, Linking, TypeOK
<1>3. PICK new \in Job, p \in {"import", "list"} :
        /\ job' = [job EXCEPT ![c] = new] /\ pc' = [pc EXCEPT ![c] = p]
        /\ new.batch = job[c].batch /\ new.todo = job[c].todo /\ new.acct = a
        /\ p = "import" => new.book \in Books /\ link[a] = new.book
        /\ p = "list" => link[a] = None
  <2>1. CASE link[a] # None
    <3> DEFINE new == [job[c] EXCEPT !.acct = a, !.book = link[a]]
    <3>1. link[a] \in Books
      BY <2>1 DEF TypeOK
    <3>2. new \in Job
      BY <1>2, <3>1, JobFields
    <3>3. job' = [job EXCEPT ![c] = new] /\ pc' = [pc EXCEPT ![c] = "import"]
      BY <2>1 DEF NextAccount
    <3>4. new.batch = job[c].batch /\ new.todo = job[c].todo /\ new.acct = a
          /\ new.book = link[a]
      BY <1>2 DEF Job
    <3> HIDE DEF new
    <3> QED
      BY <3>1, <3>2, <3>3, <3>4
  <2>2. CASE link[a] = None
    <3> DEFINE new == [job[c] EXCEPT !.acct = a, !.name = TargetName(a)]
    <3>1. TargetName(a) \in TargetNames
      BY DEF TargetName, TargetNames
    <3>2. new \in Job
      BY <1>2, <3>1, JobFields
    <3>3. job' = [job EXCEPT ![c] = new] /\ pc' = [pc EXCEPT ![c] = "list"]
      BY <2>2 DEF NextAccount
    <3>4. new.batch = job[c].batch /\ new.todo = job[c].todo /\ new.acct = a
      BY <1>2 DEF Job
    <3> HIDE DEF new
    <3> QED
      BY <2>2, <3>2, <3>3, <3>4
  <2> QED
    BY <2>1, <2>2
<1>4. /\ job' \in [Connections -> Job] /\ pc' \in [Connections -> PcValues]
      /\ job'[c] = new /\ pc'[c] = p
      /\ \A d \in Connections \ {c} : job'[d] = job[d] /\ pc'[d] = pc[d]
  BY <1>3, SetJob DEF PcValues
<1>5. TypeOK'
  BY <1>1, <1>4 DEF TypeOK
<1>6. Batches(c)' /\ Linking(c)' /\ Importing(c)'
  <2>1. Batches(c)'
    BY <1>1, <1>2, <1>3, <1>4 DEF Batches, ConnectionOfRow
  <2>2. Linking(c)' /\ Importing(c)'
    BY <1>1, <1>2, <1>3, <1>4 DEF Linking, Importing, AtAccount
  <2> QED
    BY <2>1, <2>2
<1> QED
  BY <1>1, <1>4, <1>5, <1>6, Quiet

LEMMA FindBookStep ==
  ASSUME IInv, NEW c \in Connections, NEW b \in Books, MatchBook(c, b) \/ CreateBook(c, b)
  PROVE  IInv'
<1> USE DEF IInv
<1> DEFINE new == [job[c] EXCEPT !.book = b]
<1>1. /\ pc[c] \in {"list", "create"}
      /\ UNCHANGED <<listed, row, link, entry, session, exports>>
      /\ job' = [job EXCEPT ![c] = new] /\ pc' = [pc EXCEPT ![c] = "store"]
  BY DEF MatchBook, CreateBook, database, actual
<1>2. Batches(c) /\ Linking(c) /\ job[c] \in Job
  BY DEF Exporters, TypeOK
<1>3. /\ new \in Job /\ new.batch = job[c].batch /\ new.todo = job[c].todo
      /\ new.acct = job[c].acct /\ new.book = b
  BY <1>2, JobFields DEF Job
<1>4. books' \in [Books -> TargetNames \cup {NoName, OtherName}]
  <2>1. job[c].name \in TargetNames \cup {NoName}
    BY <1>2, JobFields
  <2>2. books \in [Books -> TargetNames \cup {NoName, OtherName}]
    BY DEF TypeOK
  <2>3. books' = books \/ books' = [books EXCEPT ![b] = job[c].name]
    BY DEF MatchBook, CreateBook, actual
  <2> QED
    BY <2>1, <2>2, <2>3
<1> HIDE DEF new
<1>5. /\ job' \in [Connections -> Job] /\ pc' \in [Connections -> PcValues]
      /\ job'[c] = new /\ pc'[c] = "store"
      /\ \A d \in Connections \ {c} : job'[d] = job[d] /\ pc'[d] = pc[d]
  BY <1>1, <1>3, SetJob DEF PcValues
<1>6. TypeOK'
  BY <1>1, <1>4, <1>5 DEF TypeOK
<1>7. Batches(c)' /\ Linking(c)' /\ Importing(c)'
  <2>1. Batches(c)'
    BY <1>1, <1>2, <1>3, <1>5 DEF Batches, ConnectionOfRow
  <2>2. Linking(c)' /\ Importing(c)'
    BY <1>1, <1>2, <1>3, <1>5 DEF Linking, Importing, AtAccount
  <2> QED
    BY <2>1, <2>2
<1> QED
  BY <1>1, <1>5, <1>6, <1>7, Quiet

\* The account at hand is done with; its rows leave the batch.
LEMMA Done ==
  ASSUME IInv, NEW c \in Connections, AccountDone(c), pc[c] # "idle",
         \A r \in Rows : row'[r].version = row[r].version
                           /\ row'[r].deleted = row[r].deleted
  PROVE  /\ job' \in [Connections -> Job] /\ pc' \in [Connections -> PcValues]
         /\ \A d \in Connections \ {c} : job'[d] = job[d] /\ pc'[d] = pc[d]
         /\ Batches(c)' /\ Linking(c)' /\ Importing(c)'
<1> USE DEF IInv
<1> DEFINE batch == [r \in Rows |-> IF r \in Batch(c) THEN 0 ELSE job[c].batch[r]]
           new == [IdleJob EXCEPT !.batch = batch, !.todo = job[c].todo \ {job[c].acct}]
<1>1. Batches(c) /\ Linking(c) /\ job[c] \in Job
  BY DEF Exporters, TypeOK
<1>2. job[c].batch \in [Rows -> Nat] /\ job[c].todo \subseteq Accounts
  BY <1>1, JobFields
<1>3. batch \in [Rows -> Nat] /\ \A r \in Rows : batch[r] > 0 => batch[r] = job[c].batch[r]
  BY <1>2
<1> HIDE DEF batch
<1>4. new \in Job /\ new.batch = batch /\ new.todo = job[c].todo \ {job[c].acct}
  BY <1>2, <1>3, IdleJobType DEF Job
<1>5. job' = [job EXCEPT ![c] = new] /\ pc' = [pc EXCEPT ![c] = "account"]
  BY DEF AccountDone, batch
<1> HIDE DEF new
<1>6. /\ job' \in [Connections -> Job] /\ pc' \in [Connections -> PcValues]
      /\ job'[c] = new /\ pc'[c] = "account"
      /\ \A d \in Connections \ {c} : job'[d] = job[d] /\ pc'[d] = pc[d]
  BY <1>4, <1>5, SetJob DEF PcValues
<1>7. Batches(c)'
  BY <1>1, <1>3, <1>4, <1>6 DEF Batches, ConnectionOfRow
<1>8. Linking(c)' /\ Importing(c)'
  BY <1>1, <1>4, <1>6 DEF Linking, Importing, AtAccount
<1> QED
  BY <1>6, <1>7, <1>8

LEMMA BookedStep ==
  ASSUME IInv, NEW c \in Connections, Booked(c)
  PROVE  IInv'
<1>1. /\ AccountDone(c) /\ pc[c] # "idle"
      /\ UNCHANGED <<listed, row, link, books, entry, session, exports>>
  BY DEF Booked, database, actual
<1>2. /\ job' \in [Connections -> Job] /\ pc' \in [Connections -> PcValues]
      /\ \A d \in Connections \ {c} : job'[d] = job[d] /\ pc'[d] = pc[d]
      /\ Batches(c)' /\ Linking(c)' /\ Importing(c)'
  BY <1>1, Done
<1>3. TypeOK'
  BY <1>1, <1>2 DEF IInv, TypeOK
<1> QED
  BY <1>1, <1>2, <1>3, Quiet

-----------------------------------------------------------------------------
(***************************************************************************)
(* The exporter: steps that write a link, entries or rows.                 *)
(***************************************************************************)

\* The rows of other connections, and their accounts, are not touched by a
\* step that stays in the batch or the account at hand.
LEMMA OthersStay ==
  ASSUME IInv, NEW c \in Connections,
         \A d \in Connections \ {c} : pc'[d] = pc[d] /\ job'[d] = job[d],
         Batches(c)', Linking(c)', Importing(c)',
         \A r \in Rows : row'[r].version = row[r].version
                           /\ row'[r].deleted = row[r].deleted,
         \A a \in Accounts : ConnectionOf[a] # c => link'[a] = link[a],
         \A b \in Books, r \in Rows :
           ConnectionOfRow(r) # c => entry'[b][r] = entry[b][r]
  PROVE  Exporters'
<1> SUFFICES ASSUME NEW d \in Connections
             PROVE  Batches(d)' /\ Linking(d)' /\ Importing(d)'
  BY DEF Exporters
<1>1. CASE d = c
  BY <1>1
<1>2. CASE d # c
  BY <1>2, Undisturbed
<1> QED
  BY <1>1, <1>2

LEMMA StoreLinkStep ==
  ASSUME IInv, NEW c \in Connections, StoreLink(c)
  PROVE  IInv'
<1> USE DEF IInv
<1> DEFINE a == job[c].acct
           b == job[c].book
<1>1. /\ pc[c] = "store" /\ pc' = [pc EXCEPT ![c] = "import"]
      /\ link' = [link EXCEPT ![a] = b]
      /\ UNCHANGED <<listed, row, books, entry, session, job, exports>>
  BY DEF StoreLink, actual
<1>2. Batches(c) /\ Linking(c)
  BY DEF Exporters
<1>3. a \in Accounts /\ ConnectionOf[a] = c /\ b \in Books /\ link[a] = None
  BY <1>1, <1>2 DEF Linking, AtAccount
<1> HIDE DEF a, b
<1>4. /\ link' \in [Accounts -> Books \cup {None}] /\ link'[a] = b
      /\ \A d \in Accounts \ {a} : link'[d] = link[d]
  BY <1>1, <1>3 DEF TypeOK
<1>5. /\ pc' \in [Connections -> PcValues] /\ pc'[c] = "import"
      /\ \A d \in Connections \ {c} : pc'[d] = pc[d]
  BY <1>1 DEF TypeOK, PcValues
<1>6. TypeOK'
  BY <1>1, <1>4, <1>5 DEF TypeOK
<1>7. Exporters'
  <2>1. Batches(c)'
    BY <1>1, <1>2, <1>5 DEF Batches, ConnectionOfRow
  <2>2. Linking(c)' /\ Importing(c)'
    BY <1>1, <1>2, <1>3, <1>4, <1>5 DEF Linking, Importing, AtAccount, a, b
  <2> QED
    BY <1>1, <1>3, <1>4, <1>5, <2>1, <2>2, OthersStay
<1>8. MarkedIsThere'
  BY <1>1, <1>3, <1>4, Constants DEF MarkedIsThere, Live, NeedsExport
<1>9. EntriesLinked'
  BY <1>1, <1>3, <1>4, Constants DEF EntriesLinked
<1> QED
  BY <1>1, <1>6, <1>7, <1>8, <1>9 DEF Unborn

\* Actual is given rows of the batch of the account at hand.
LEMMA GivenRows ==
  ASSUME IInv, NEW c \in Connections, pc[c] = "import",
         NEW rows \in SUBSET Batch(c), entry' = Given(c, rows),
         UNCHANGED <<row, link>>
  PROVE  /\ job[c].book \in Books /\ job[c].acct \in Accounts
         /\ link[job[c].acct] = job[c].book
         /\ entry' \in [Books -> [Rows -> Nat]]
         /\ \A r \in rows : entry'[job[c].book][r] = job[c].batch[r]
         /\ \A x \in Books, r \in Rows :
              ConnectionOfRow(r) # c => entry'[x][r] = entry[x][r]
         /\ MarkedIsThere' /\ EntriesLinked'
<1> USE DEF IInv
<1> DEFINE b == job[c].book
           a == job[c].acct
<1>1. Batches(c) /\ Linking(c) /\ job[c].batch \in [Rows -> Nat]
  BY JobFields DEF Exporters, TypeOK
<1>2. b \in Books /\ a \in Accounts /\ link[a] = b
  BY <1>1 DEF Linking, AtAccount
<1>3. \A r \in rows : /\ r \in Rows /\ AccountOf[r] = a /\ job[c].batch[r] > 0
                      /\ ConnectionOfRow(r) = c /\ row[r].version = job[c].batch[r]
  BY <1>1 DEF Batch, Batches
<1>4. entry \in [Books -> [Rows -> Nat]]
  BY DEF TypeOK
<1>5. entry' = [entry EXCEPT ![b] = [r \in Rows |-> IF r \in rows THEN job[c].batch[r]
                                                                  ELSE entry[b][r]]]
  BY DEF Given
<1> HIDE DEF a, b
<1>6. [r \in Rows |-> IF r \in rows THEN job[c].batch[r] ELSE entry[b][r]] \in [Rows -> Nat]
  BY <1>1, <1>2, <1>4
<1>7. entry' \in [Books -> [Rows -> Nat]]
  BY <1>4, <1>5, <1>6
<1>8. \A x \in Books, r \in Rows :
        entry'[x][r] = IF x = b /\ r \in rows THEN job[c].batch[r] ELSE entry[x][r]
  BY <1>2, <1>4, <1>5
<1>9. MarkedIsThere'
  <2> SUFFICES ASSUME NEW r \in Rows, Live(r), ~NeedsExport(r)
               PROVE  /\ link[AccountOf[r]] # None
                      /\ entry'[link[AccountOf[r]]][r] = row[r].version
    BY DEF MarkedIsThere, Live, NeedsExport
  <2>1. link[AccountOf[r]] # None /\ entry[link[AccountOf[r]]][r] = row[r].version
    BY DEF MarkedIsThere
  <2>2. link[AccountOf[r]] \in Books
    BY <2>1, Constants DEF TypeOK
  <2> QED
    BY <1>3, <1>8, <2>1, <2>2
<1>10. EntriesLinked'
  <2> SUFFICES ASSUME NEW x \in Books, NEW r \in Rows, entry'[x][r] > 0
               PROVE  link[AccountOf[r]] = x
    BY DEF EntriesLinked
  <2>1. CASE x = b /\ r \in rows
    BY <1>2, <1>3, <2>1
  <2>2. CASE ~(x = b /\ r \in rows)
    BY <1>8, <2>2 DEF EntriesLinked
  <2> QED
    BY <2>1, <2>2
<1> QED
  BY <1>2, <1>3, <1>7, <1>8, <1>9, <1>10 DEF a, b

LEMMA ImportStep ==
  ASSUME IInv, NEW c \in Connections, Import(c)
  PROVE  IInv'
<1> USE DEF IInv
<1> DEFINE given == {r \in Batch(c) : entry[job[c].book][r] = 0}
           new == [job[c] EXCEPT !.left = Batch(c), !.added = given]
<1>1. /\ pc[c] = "import" /\ entry' = Given(c, Batch(c))
      /\ job' = [job EXCEPT ![c] = new] /\ pc' = [pc EXCEPT ![c] = "book"]
      /\ UNCHANGED <<listed, row, link, books, session, exports>>
  BY DEF Import, database
<1>2. Batches(c) /\ Linking(c) /\ job[c] \in Job
  BY DEF Exporters, TypeOK
<1>3. /\ new \in Job /\ new.batch = job[c].batch /\ new.todo = job[c].todo
      /\ new.acct = job[c].acct /\ new.book = job[c].book /\ new.left = Batch(c)
  <2>1. Batch(c) \in SUBSET Rows /\ given \in SUBSET Rows
    BY DEF Batch
  <2> HIDE DEF given
  <2> QED
    BY <1>2, <2>1, JobFields DEF Job
<1> HIDE DEF new
<1>4. /\ job[c].book \in Books /\ link[job[c].acct] = job[c].book
      /\ entry' \in [Books -> [Rows -> Nat]]
      /\ \A r \in Batch(c) : entry'[job[c].book][r] = job[c].batch[r]
      /\ \A x \in Books, r \in Rows :
           ConnectionOfRow(r) # c => entry'[x][r] = entry[x][r]
      /\ MarkedIsThere' /\ EntriesLinked'
  BY <1>1, GivenRows
<1>5. /\ job' \in [Connections -> Job] /\ pc' \in [Connections -> PcValues]
      /\ job'[c] = new /\ pc'[c] = "book"
      /\ \A d \in Connections \ {c} : job'[d] = job[d] /\ pc'[d] = pc[d]
  BY <1>1, <1>3, SetJob DEF PcValues
<1>6. TypeOK'
  BY <1>1, <1>4, <1>5 DEF TypeOK
<1>7. Exporters'
  <2>1. Batches(c)'
    BY <1>1, <1>2, <1>3, <1>5 DEF Batches, ConnectionOfRow
  <2>2. Linking(c)'
    BY <1>1, <1>2, <1>3, <1>4, <1>5 DEF Linking, AtAccount
  <2>3. Batch(c)' = Batch(c)
    BY <1>3, <1>5 DEF Batch
  <2>4. Importing(c)'
    BY <1>3, <1>4, <1>5, <2>3 DEF Importing
  <2> QED
    BY <1>1, <1>4, <1>5, <2>1, <2>2, <2>4, OthersStay
<1> QED
  BY <1>1, <1>4, <1>6, <1>7 DEF Unborn

LEMMA ImportFailsStep ==
  ASSUME IInv, NEW c \in Connections, ImportFails(c)
  PROVE  IInv'
<1> USE DEF IInv
<1>1. PICK rows \in SUBSET Batch(c) : entry' = Given(c, rows)
  BY DEF ImportFails
<1>2. /\ pc[c] = "import" /\ pc' = [pc EXCEPT ![c] = "error"]
      /\ UNCHANGED <<listed, row, link, books, session, job, exports>>
  BY DEF ImportFails, database
<1>3. Batches(c) /\ Linking(c)
  BY DEF Exporters
<1>4. /\ entry' \in [Books -> [Rows -> Nat]]
      /\ \A x \in Books, r \in Rows :
           ConnectionOfRow(r) # c => entry'[x][r] = entry[x][r]
      /\ MarkedIsThere' /\ EntriesLinked'
  BY <1>1, <1>2, GivenRows
<1>5. /\ pc' \in [Connections -> PcValues] /\ pc'[c] = "error"
      /\ \A d \in Connections \ {c} : pc'[d] = pc[d]
  BY <1>2 DEF TypeOK, PcValues
<1>6. TypeOK'
  BY <1>2, <1>4, <1>5 DEF TypeOK
<1>7. Exporters'
  <2>1. Batches(c)'
    BY <1>2, <1>3, <1>5 DEF Batches, ConnectionOfRow
  <2>2. Linking(c)' /\ Importing(c)'
    BY <1>2, <1>3, <1>5 DEF Linking, Importing, AtAccount
  <2> QED
    BY <1>2, <1>4, <1>5, <2>1, <2>2, OthersStay
<1> QED
  BY <1>2, <1>4, <1>6, <1>7 DEF Unborn

LEMMA BookRowStep ==
  ASSUME IInv, NEW c \in Connections, BookRow(c)
  PROVE  IInv'
<1> USE DEF IInv
<1>0. PICK r \in First(job[c].left), newer \in BOOLEAN :
        \E id \in NextId(c, r) :
          /\ row' = [row EXCEPT ![r].import = "IMPORTED", ![r].newer = newer, ![r].aid = id]
          /\ job' = [job EXCEPT ![c].left = @ \ {r}, ![c].added = @ \ {id}]
  BY DEF BookRow
<1>1. PICK id \in NextId(c, r) :
        /\ row' = [row EXCEPT ![r].import = "IMPORTED", ![r].newer = newer, ![r].aid = id]
        /\ job' = [job EXCEPT ![c].left = @ \ {r}, ![c].added = @ \ {id}]
  BY <1>0
<1> DEFINE marked == [row[r] EXCEPT !.import = "IMPORTED", !.newer = newer, !.aid = id]
           new == [job[c] EXCEPT !.left = job[c].left \ {r}, !.added = job[c].added \ {id}]
<1>2. /\ pc[c] = "book"
      /\ UNCHANGED <<listed, link, books, entry, session, pc, exports>>
  BY DEF BookRow, actual
<1>3. Batches(c) /\ Linking(c) /\ Importing(c) /\ job[c] \in Job
  BY DEF Exporters, TypeOK
<1>4. r \in job[c].left /\ r \in Batch(c) /\ entry[job[c].book][r] = job[c].batch[r]
  BY <1>2, <1>3 DEF First, Importing
<1>5. /\ r \in Rows /\ AccountOf[r] = job[c].acct /\ row[r].version = job[c].batch[r]
      /\ job[c].batch[r] > 0
  BY <1>3, <1>4 DEF Batch, Batches
<1>6. link[AccountOf[r]] = job[c].book /\ job[c].book \in Books
  BY <1>2, <1>3, <1>5 DEF Linking
<1>7. row[r] \in Row /\ row[r].aid \in Rows \cup {None}
  BY <1>5 DEF TypeOK, Row
<1>8. id \in Rows \cup {None}
  BY <1>3, <1>7, JobFields DEF NextId, First
<1>9. /\ marked \in Row /\ marked.version = row[r].version
      /\ marked.deleted = row[r].deleted
  BY <1>7, <1>8, RowFields DEF Row
<1>10. /\ new \in Job /\ new.batch = job[c].batch /\ new.todo = job[c].todo
       /\ new.acct = job[c].acct /\ new.book = job[c].book
       /\ new.left \subseteq job[c].left
  <2> DEFINE some == job[c].left \ {r}
             more == job[c].added \ {id}
  <2>1. some \in SUBSET Rows /\ more \in SUBSET Rows /\ some \subseteq job[c].left
    BY <1>3, JobFields
  <2> HIDE DEF some, more
  <2>2. new = [job[c] EXCEPT !.left = some, !.added = more]
    BY DEF some, more
  <2> HIDE DEF new
  <2> QED
    BY <1>3, <2>1, <2>2, JobFields DEF Job
<1>11. row' = [row EXCEPT ![r] = marked] /\ job' = [job EXCEPT ![c] = new]
  BY <1>1
<1> HIDE DEF marked, new
<1>12. /\ row' \in [Rows -> Row] /\ row'[r] = marked
       /\ \A s \in Rows \ {r} : row'[s] = row[s]
  BY <1>5, <1>9, <1>11, SetRow
<1>13. /\ job' \in [Connections -> Job] /\ job'[c] = new
       /\ \A d \in Connections \ {c} : job'[d] = job[d]
  BY <1>10, <1>11 DEF TypeOK
<1>14. TypeOK'
  BY <1>2, <1>12, <1>13 DEF TypeOK
<1>15. \A s \in Rows : row'[s].version = row[s].version /\ row'[s].deleted = row[s].deleted
  BY <1>9, <1>12
<1>16. Exporters'
  <2>1. Batches(c)'
    BY <1>2, <1>3, <1>10, <1>13, <1>15 DEF Batches, ConnectionOfRow
  <2>2. Linking(c)'
    BY <1>2, <1>3, <1>10, <1>13 DEF Linking, AtAccount
  <2>3. Batch(c)' = Batch(c)
    BY <1>10, <1>13 DEF Batch
  <2>4. Importing(c)'
    BY <1>2, <1>3, <1>10, <1>13, <2>3 DEF Importing
  <2> QED
    BY <1>2, <1>13, <1>15, <2>1, <2>2, <2>4, OthersStay
<1>17. MarkedIsThere'
  <2> SUFFICES ASSUME NEW s \in Rows, Live(s)', ~NeedsExport(s)'
               PROVE  /\ link[AccountOf[s]] # None
                      /\ entry[link[AccountOf[s]]][s] = row'[s].version
    BY <1>2 DEF MarkedIsThere
  <2>1. CASE s = r
    BY <1>4, <1>5, <1>6, <1>15, <2>1, Constants
  <2>2. CASE s # r
    <3>1. row'[s] = row[s]
      BY <1>12, <2>2
    <3>2. Live(s) /\ ~NeedsExport(s)
      BY <3>1 DEF Live, NeedsExport
    <3> QED
      BY <3>1, <3>2 DEF MarkedIsThere
  <2> QED
    BY <2>1, <2>2
<1>18. Unborn'
  <2>1. row[r].version # 0
    BY <1>5
  <2> QED
    BY <1>12, <1>15, <2>1 DEF Unborn
<1>19. EntriesLinked'
  BY <1>2 DEF EntriesLinked
<1> QED
  BY <1>14, <1>16, <1>17, <1>18, <1>19

LEMMA MarkErrorStep ==
  ASSUME IInv, NEW c \in Connections, MarkError(c)
  PROVE  IInv'
<1> USE DEF IInv
<1>1. /\ pc[c] = "error" /\ AccountDone(c)
      /\ UNCHANGED <<listed, link, books, entry, session, exports>>
  BY DEF MarkError, actual
<1>2. \A r \in Rows :
        row'[r] = IF r \in Batch(c)
                  THEN [row[r] EXCEPT !.import = "IMPORT_ERROR", !.newer = TRUE]
                  ELSE row[r]
  BY DEF MarkError
<1>3. \A r \in Rows : row[r] \in Row
  BY DEF TypeOK
<1>4. \A r \in Rows : row'[r] \in Row
  BY <1>2, <1>3, RowFields
<1>5. row' \in [Rows -> Row]
  BY <1>4 DEF MarkError
<1>6. \A r \in Rows : row'[r].version = row[r].version /\ row'[r].deleted = row[r].deleted
  BY <1>2, <1>3 DEF Row
<1>7. \A r \in Rows : row'[r] = row[r] \/ row'[r].newer
  BY <1>2, <1>3 DEF Row
<1>8. /\ job' \in [Connections -> Job] /\ pc' \in [Connections -> PcValues]
      /\ \A d \in Connections \ {c} : job'[d] = job[d] /\ pc'[d] = pc[d]
      /\ Batches(c)' /\ Linking(c)' /\ Importing(c)'
  BY <1>1, <1>6, Done
<1>9. TypeOK'
  BY <1>1, <1>5, <1>8 DEF TypeOK
<1>10. Exporters'
  BY <1>1, <1>6, <1>8, OthersStay
<1>11. MarkedIsThere' /\ Unborn' /\ EntriesLinked'
  BY <1>1, <1>6, <1>7 DEF MarkedIsThere, Unborn, EntriesLinked, Live, NeedsExport
<1> QED
  BY <1>9, <1>10, <1>11

-----------------------------------------------------------------------------
(***************************************************************************)
(* The theorems.                                                           *)
(***************************************************************************)
LEMMA InitIInv == Init => IInv
<1> SUFFICES ASSUME Init PROVE IInv
  OBVIOUS
<1>1. TypeOK
  BY InitType
<1>2. \A r \in Rows : row[r] = NoRow
  BY DEF Init
<1>3. Unborn /\ MarkedIsThere
  BY <1>2 DEF Unborn, MarkedIsThere, Live, NoRow
<1>4. EntriesLinked
  BY DEF Init, EntriesLinked
<1>5. Exporters
  <2> SUFFICES ASSUME NEW c \in Connections
               PROVE  Batches(c) /\ Linking(c) /\ Importing(c)
    BY DEF Exporters
  <2>1. pc[c] = "idle" /\ job[c] = IdleJob
    BY DEF Init
  <2>2. (\A r \in Rows : ~(IdleJob.batch[r] > 0)) /\ IdleJob.todo = {}
    BY SMT DEF IdleJob
  <2> QED
    BY <2>1, <2>2 DEF Batches, Linking, Importing, AtAccount
<1> QED
  BY <1>1, <1>3, <1>4, <1>5 DEF IInv

LEMMA StutterStep == IInv /\ UNCHANGED vars => IInv'
<1> SUFFICES ASSUME IInv, UNCHANGED vars PROVE IInv'
  OBVIOUS
<1>1. UNCHANGED <<listed, row, link, books, entry, session, pc, job, exports>>
  BY DEF vars, database, actual
<1>2. TypeOK'
  BY <1>1 DEF IInv, TypeOK
<1> QED
  BY <1>1, <1>2, Quiet

LEMMA ExporterStep ==
  ASSUME IInv, NEW c \in Connections, Step(c)
  PROVE  IInv'
BY MoveStep, ReturnStep, NextAccountStep, FindBookStep, BookedStep, StoreLinkStep,
   ImportStep, ImportFailsStep, BookRowStep, MarkErrorStep DEF Step

LEMMA NextStep == IInv /\ [Next]_vars => IInv'
<1> SUFFICES ASSUME IInv, [Next]_vars PROVE IInv'
  OBVIOUS
<1>1. CASE Sync
  BY <1>1, OutsideStep, InsertStep, ChangeStep, SoftDeleteStep, BeginStep DEF Sync
<1>2. CASE \E c \in Connections : Step(c)
  BY <1>2, ExporterStep
<1>3. CASE (\E b \in Books : UserRenames(b)) \/ Crash
  BY <1>3, OutsideStep, CrashStep
<1>4. CASE UNCHANGED vars
  BY <1>4, StutterStep
<1> QED
  BY <1>1, <1>2, <1>3, <1>4 DEF Next

THEOREM Inductive == Spec => []IInv
BY InitIInv, NextStep, PTL DEF Spec

\* Rows, links, the accounts of Actual and the locals keep their types.
THEOREM TypeCorrect == Spec => []TypeOK
<1>1. IInv => TypeOK
  BY DEF IInv
<1> QED
  BY <1>1, Inductive, PTL

\* What no export would select any more is in Actual as it is now.
THEOREM MarkedRowsAreThere == Spec => []MarkedIsThere
<1>1. IInv => MarkedIsThere
  BY DEF IInv
<1> QED
  BY <1>1, Inductive, PTL

\* A row has an entry in one account of Actual at most.
THEOREM NothingTwice == Spec => []OncePerRow
<1>1. IInv => OncePerRow
  <2> SUFFICES ASSUME IInv, NEW r \in Rows
               PROVE  Cardinality({b \in Books : entry[b][r] > 0}) <= 1
    BY DEF OncePerRow
  <2> DEFINE there == {b \in Books : entry[b][r] > 0}
  <2>1. there \subseteq {link[AccountOf[r]]}
    BY DEF IInv, EntriesLinked
  <2> SUFFICES Cardinality(there) <= 1
    OBVIOUS
  <2> HIDE DEF there
  <2>2. CASE there = {}
    BY <2>2, FS_EmptySet, SMT
  <2>3. CASE there # {}
    <3>1. there = {link[AccountOf[r]]}
      BY <2>1, <2>3
    <3>2. Cardinality(there) = 1
      BY <3>1, FS_Singleton
    <3> QED
      BY <3>2, SMT
  <2> QED
    BY <2>2, <2>3
<1> QED
  BY <1>1, Inductive, PTL

-----------------------------------------------------------------------------
(***************************************************************************)
(* What is sent is news.                                                   *)
(***************************************************************************)

\* Entries change in an import only, and then to what the batch has.
LEMMA EntriesChange ==
  ASSUME IInv, [Next]_vars
  PROVE  \/ entry' = entry
         \/ \E c \in Connections : \E rows \in SUBSET Batch(c) :
              pc[c] = "import" /\ entry' = Given(c, rows) /\ UNCHANGED <<row, link>>
<1>1. CASE Sync
  BY <1>1 DEF Sync, Discover, Insert, Change, SoftDelete, Begin, actual
<1>2. ASSUME NEW c \in Connections, Step(c)
      PROVE  \/ entry' = entry
             \/ \E rows \in SUBSET Batch(c) :
                  pc[c] = "import" /\ entry' = Given(c, rows) /\ UNCHANGED <<row, link>>
  <2>1. CASE Import(c)
    BY <2>1 DEF Import, database
  <2>2. CASE ImportFails(c)
    BY <2>2 DEF ImportFails, database
  <2>3. CASE \/ Open(c) \/ OpenFails(c) \/ EndLoop(c) \/ NoMatch(c) \/ StoreLink(c)
             \/ LinkFails(c) \/ Close(c)
    BY <2>3 DEF Open, OpenFails, EndLoop, NoMatch, StoreLink, LinkFails, Close, actual
  <2>4. CASE \/ \E a \in Accounts : NextAccount(c, a)
             \/ \E b \in Books : MatchBook(c, b) \/ CreateBook(c, b)
    BY <2>4 DEF NextAccount, MatchBook, CreateBook, actual
  <2>5. CASE BookRow(c) \/ Booked(c) \/ BookFails(c) \/ MarkError(c) \/ MarkErrorFails(c)
    BY <2>5 DEF BookRow, Booked, BookFails, MarkError, MarkErrorFails, actual
  <2> QED
    BY <1>2, <2>1, <2>2, <2>3, <2>4, <2>5 DEF Step
<1>3. CASE (\E b \in Books : UserRenames(b)) \/ Crash \/ UNCHANGED vars
  BY <1>3 DEF UserRenames, Crash, vars, actual
<1> QED
  BY <1>1, <1>2, <1>3 DEF Next

\* A row is changed by a sync, and by the bookkeeping of its exporter, which
\* leaves its version as it is.
LEMMA VersionsGrow ==
  ASSUME IInv, [Next]_vars, NEW r \in Rows
  PROVE  row'[r].version >= row[r].version
<1>0. row \in [Rows -> Row] /\ row[r].version \in Nat
  BY RowFields DEF IInv, TypeOK
<1>1. row \in [Rows -> Row] /\ row[r].version \in Nat /\ row[r].version >= row[r].version
  BY <1>0, SMT
<1>2. ASSUME NEW s \in Rows, Insert(s) \/ Change(s) \/ SoftDelete(s)
      PROVE  row'[r].version >= row[r].version
  <2>1. CASE Insert(s)
    BY <1>1, <2>1 DEF Insert, Row
  <2>2. CASE Change(s)
    BY <1>1, <2>2 DEF Change, Row
  <2>3. CASE SoftDelete(s)
    BY <1>1, <2>3 DEF SoftDelete, Row
  <2> QED
    BY <1>2, <2>1, <2>2, <2>3
<1>3. ASSUME NEW c \in Connections, Step(c)
      PROVE  row'[r].version = row[r].version
  <2>1. CASE BookRow(c)
    BY <1>1, <2>1 DEF BookRow, Row
  <2>2. CASE MarkError(c)
    BY <1>1, <2>2 DEF MarkError, Row
  <2>3. CASE \/ Open(c) \/ OpenFails(c) \/ EndLoop(c) \/ NoMatch(c) \/ StoreLink(c)
             \/ LinkFails(c) \/ Close(c) \/ Import(c) \/ ImportFails(c)
             \/ Booked(c) \/ BookFails(c) \/ MarkErrorFails(c)
    BY <2>3 DEF Open, OpenFails, EndLoop, NoMatch, StoreLink, LinkFails, Close, Import,
                ImportFails, Booked, BookFails, MarkErrorFails, database
  <2>4. CASE \/ \E a \in Accounts : NextAccount(c, a)
             \/ \E b \in Books : MatchBook(c, b) \/ CreateBook(c, b)
    BY <2>4 DEF NextAccount, MatchBook, CreateBook, database
  <2> QED
    BY <1>3, <2>1, <2>2, <2>3, <2>4 DEF Step
<1>4. CASE \/ \E a \in Accounts : Discover(a)
           \/ \E c \in Connections : \E scope \in Scopes(c) : Begin(c, scope)
           \/ \E b \in Books : UserRenames(b)
           \/ Crash \/ UNCHANGED vars
  BY <1>1, <1>4 DEF Discover, Begin, UserRenames, Crash, vars, database
<1> QED
  BY <1>1, <1>2, <1>3, <1>4 DEF Next, Sync

\* Actual has no version of a row that the database does not have yet.
Sent == \A b \in Books, r \in Rows : entry[b][r] <= row[r].version

\* What an import sends is the row as it is, and live.
LEMMA SentIsCurrent ==
  ASSUME IInv, [Next]_vars, NEW b \in Books, NEW r \in Rows,
         entry'[b][r] # entry[b][r]
  PROVE  entry'[b][r] = row[r].version /\ row[r].version > 0 /\ ~row[r].deleted
<1>1. PICK c \in Connections, rows \in SUBSET Rows :
        rows \subseteq Batch(c) /\ entry' = Given(c, rows)
  BY EntriesChange DEF Batch
<1>2. entry \in [Books -> [Rows -> Nat]]
  BY DEF IInv, TypeOK
<1>3. r \in rows /\ entry'[b][r] = job[c].batch[r]
  BY <1>1, <1>2 DEF Given
<1>4. r \in Batch(c)
  BY <1>1, <1>3
<1> QED
  BY <1>3, <1>4 DEF IInv, Exporters, Batches, Batch

LEMMA SentStep == IInv /\ Sent /\ [Next]_vars => Sent'
<1> SUFFICES ASSUME IInv, Sent, [Next]_vars, NEW b \in Books, NEW r \in Rows
             PROVE  entry'[b][r] <= row'[r].version
  BY DEF Sent
<1>1. /\ row[r].version \in Nat /\ entry[b][r] \in Nat
      /\ entry[b][r] <= row[r].version
  BY RowFields DEF IInv, TypeOK, Sent
<1>2. row'[r].version >= row[r].version
  BY VersionsGrow
<1>3. row'[r].version \in Nat
  BY NextStep, RowFields DEF IInv, TypeOK
<1>4. entry'[b][r] \in {entry[b][r], row[r].version}
  BY SentIsCurrent
<1> QED
  BY <1>1, <1>2, <1>3, <1>4, SMT

\* What Actual is given moves forward, and only while the row is live.
THEOREM OnlyNewsIsSent == Spec => SendsOnlyNews
<1>1. Init => Sent
  <2> SUFFICES ASSUME Init, NEW b \in Books, NEW r \in Rows
               PROVE  entry[b][r] <= row[r].version
    BY DEF Sent
  <2>1. entry[b][r] = 0 /\ row[r].version = 0
    BY DEF Init, NoRow
  <2> QED
    BY <2>1, SMT
<1>2. IInv /\ Sent /\ [Next]_vars =>
        [\A b \in Books, r \in Rows :
           entry'[b][r] # entry[b][r] => entry'[b][r] > entry[b][r] /\ Live(r)]_vars
  <2> SUFFICES ASSUME IInv, Sent, [Next]_vars, NEW b \in Books, NEW r \in Rows,
                      entry'[b][r] # entry[b][r]
               PROVE  entry'[b][r] > entry[b][r] /\ Live(r)
    OBVIOUS
  <2>1. entry'[b][r] = row[r].version /\ row[r].version > 0 /\ ~row[r].deleted
    BY SentIsCurrent
  <2>2. /\ row[r].version \in Nat /\ entry[b][r] \in Nat
        /\ entry[b][r] <= row[r].version
    BY RowFields DEF IInv, TypeOK, Sent
  <2> QED
    BY <2>1, <2>2, SMT DEF Live
<1> QED
  BY <1>1, <1>2, SentStep, Inductive, PTL DEF Spec, SendsOnlyNews

-----------------------------------------------------------------------------
(***************************************************************************)
(* Actual's ids.                                                           *)
(***************************************************************************)

\* An id in use is the id of an entry.
Used == \A s \in Rows : row[s].aid # None => \E b \in Books : entry[b][row[s].aid] > 0

\* The ids an exporter has yet to hand out are of its own entries, and free.
Handing(c) ==
  pc[c] = "book" =>
    \A id \in job[c].added :
      /\ ConnectionOfRow(id) = c
      /\ entry[job[c].book][id] > 0
      /\ \A s \in Rows : row[s].aid # id

IdInv == Used /\ (\A c \in Connections : Handing(c)) /\ IdsDistinct

LEMMA EntriesStay ==
  ASSUME IInv, [Next]_vars, NEW b \in Books, NEW r \in Rows, entry[b][r] > 0
  PROVE  entry'[b][r] > 0
BY SentIsCurrent

\* But for an import and the bookkeeping, the ids stay where they are.
LEMMA IdsStay ==
  ASSUME IInv, [Next]_vars, \A c \in Connections : ~BookRow(c) /\ ~Import(c)
  PROVE  /\ \A s \in Rows : row'[s].aid = row[s].aid
         /\ \A c \in Connections :
              pc'[c] = "book" => pc[c] = "book" /\ job'[c] = job[c]
<1>1. row \in [Rows -> Row] /\ pc \in [Connections -> PcValues] /\ job \in [Connections -> Job]
  BY DEF IInv, TypeOK
<1>2. ASSUME NEW s \in Rows, Insert(s) \/ Change(s) \/ SoftDelete(s)
      PROVE  (\A r \in Rows : row'[r].aid = row[r].aid) /\ UNCHANGED <<pc, job>>
  <2>1. CASE Insert(s)
    BY <1>1, <2>1 DEF Insert, Row
  <2>2. CASE Change(s)
    BY <1>1, <2>2 DEF Change, Row
  <2>3. CASE SoftDelete(s)
    BY <1>1, <2>3 DEF SoftDelete, Row
  <2> QED
    BY <1>2, <2>1, <2>2, <2>3
<1>3. ASSUME NEW d \in Connections, NEW scope, Begin(d, scope)
      PROVE  /\ row' = row
             /\ \A c \in Connections :
                  pc'[c] = "book" => pc[c] = "book" /\ job'[c] = job[c]
  BY <1>1, <1>3 DEF Begin, database
<1>4. ASSUME NEW d \in Connections, Step(d)
      PROVE  /\ \A r \in Rows : row'[r].aid = row[r].aid
             /\ \A c \in Connections :
                  pc'[c] = "book" => pc[c] = "book" /\ job'[c] = job[c]
  <2>1. CASE Open(d) \/ EndLoop(d) \/ NoMatch(d) \/ StoreLink(d) \/ LinkFails(d)
    BY <1>1, <2>1 DEF Open, EndLoop, NoMatch, StoreLink, LinkFails, database
  <2>2. CASE ImportFails(d) \/ BookFails(d)
    BY <1>1, <2>2 DEF ImportFails, BookFails, database
  <2>3. CASE OpenFails(d) \/ Close(d) \/ MarkErrorFails(d)
    BY <1>1, <2>3 DEF OpenFails, Close, MarkErrorFails, database
  <2>4. CASE \E a \in Accounts : NextAccount(d, a)
    BY <1>1, <2>4 DEF NextAccount, database
  <2>5. CASE \E b \in Books : MatchBook(d, b) \/ CreateBook(d, b)
    BY <1>1, <2>5 DEF MatchBook, CreateBook, database
  <2>6. CASE Booked(d)
    BY <1>1, <2>6 DEF Booked, AccountDone, database
  <2>7. CASE MarkError(d)
    <3>1. \A r \in Rows : row'[r].aid = row[r].aid
      BY <1>1, <2>7 DEF MarkError, Row
    <3>2. /\ pc' = [pc EXCEPT ![d] = "account"]
          /\ \A c \in Connections \ {d} : job'[c] = job[c]
      BY <1>1, <2>7 DEF MarkError, AccountDone
    <3> QED
      BY <1>1, <3>1, <3>2
  <2> QED
    BY <1>4, <2>1, <2>2, <2>3, <2>4, <2>5, <2>6, <2>7 DEF Step
<1>5. CASE \E a \in Accounts : Discover(a)
  BY <1>5 DEF Discover
<1>6. CASE \E b \in Books : UserRenames(b)
  BY <1>6 DEF UserRenames, database
<1>7. CASE Crash
  BY <1>1, <1>7 DEF Crash, database
<1>8. CASE UNCHANGED vars
  BY <1>8 DEF vars, database
<1> QED
  BY <1>2, <1>3, <1>4, <1>5, <1>6, <1>7, <1>8 DEF Next, Sync

\* An id that is None, or a row.
LEMMA AidType ==
  ASSUME IInv, NEW s \in Rows
  PROVE  row[s].aid \in Rows \cup {None}
BY DEF IInv, TypeOK, Row

LEMMA ImportKeepsIds ==
  ASSUME IInv, IdInv, [Next]_vars, NEW c \in Connections, Import(c)
  PROVE  IdInv'
<1>1. pc[c] = "import" /\ entry' = Given(c, Batch(c)) /\ UNCHANGED <<row, link>>
  BY DEF Import, database
<1>2. /\ job[c].book \in Books /\ link[job[c].acct] = job[c].book
      /\ \A r \in Batch(c) : entry'[job[c].book][r] = job[c].batch[r]
  <2>1. Batch(c) \in SUBSET Batch(c)
    OBVIOUS
  <2> QED
    BY <1>1, <2>1, GivenRows
<1>3. job[c] \in Job /\ Batches(c)
  BY DEF IInv, TypeOK, Exporters
<1>4. /\ pc' = [pc EXCEPT ![c] = "book"]
      /\ job'[c].book = job[c].book
      /\ job'[c].added = {r \in Batch(c) : entry[job[c].book][r] = 0}
      /\ \A d \in Connections \ {c} : job'[d] = job[d] /\ pc'[d] = pc[d]
  BY <1>3 DEF Import, IInv, TypeOK, Job
<1>5. Used'
  <2> SUFFICES ASSUME NEW s \in Rows, row[s].aid # None
               PROVE  \E b \in Books : entry'[b][row[s].aid] > 0
    BY <1>1 DEF Used
  <2> QED
    BY AidType, EntriesStay DEF IdInv, Used
<1>6. ASSUME NEW d \in Connections PROVE Handing(d)'
  <2>1. CASE d # c
    <3> SUFFICES ASSUME pc[d] = "book", NEW id \in job[d].added
                 PROVE  /\ ConnectionOfRow(id) = d /\ entry'[job[d].book][id] > 0
                        /\ \A s \in Rows : row[s].aid # id
      BY <1>1, <1>4, <2>1 DEF Handing, ConnectionOfRow
    <3>1. /\ ConnectionOfRow(id) = d /\ entry[job[d].book][id] > 0
          /\ \A s \in Rows : row[s].aid # id
      BY DEF IdInv, Handing
    <3>2. id \in Rows /\ job[d].book \in Books
      BY JobFields DEF IInv, TypeOK, Exporters, Linking
    <3> QED
      BY <3>1, <3>2, EntriesStay
  <2>2. CASE d = c
    <3> SUFFICES ASSUME NEW id \in Batch(c), entry[job[c].book][id] = 0
                 PROVE  /\ ConnectionOfRow(id) = c /\ entry'[job[c].book][id] > 0
                        /\ \A s \in Rows : row[s].aid # id
      BY <1>1, <1>4, <2>2 DEF Handing, ConnectionOfRow
    <3>1. id \in Rows /\ job[c].batch[id] > 0 /\ AccountOf[id] = job[c].acct
      BY DEF Batch
    <3>2. ConnectionOfRow(id) = c
      BY <1>3, <3>1 DEF Batches
    <3>3. ASSUME NEW s \in Rows, row[s].aid = id PROVE FALSE
      <4>1. id # None
        BY <3>1, Constants
      <4>2. PICK b \in Books : entry[b][id] > 0
        BY <3>3, <4>1 DEF IdInv, Used
      <4>3. link[job[c].acct] = b
        BY <3>1, <4>2 DEF IInv, EntriesLinked
      <4>4. entry[job[c].book][id] > 0
        BY <1>2, <4>2, <4>3
      <4> QED
        BY <4>4, SMT
    <3> QED
      BY <1>2, <3>1, <3>2, <3>3
  <2> QED
    BY <2>1, <2>2
<1>7. IdsDistinct'
  BY <1>1 DEF IdInv, IdsDistinct
<1> QED
  BY <1>5, <1>6, <1>7 DEF IdInv

LEMMA BookRowKeepsIds ==
  ASSUME IInv, IdInv, [Next]_vars, NEW c \in Connections, BookRow(c)
  PROVE  IdInv'
<1>1. PICK r \in First(job[c].left), newer \in BOOLEAN :
        \E id \in NextId(c, r) :
          /\ row' = [row EXCEPT ![r].import = "IMPORTED", ![r].newer = newer, ![r].aid = id]
          /\ job' = [job EXCEPT ![c].left = @ \ {r}, ![c].added = @ \ {id}]
  BY DEF BookRow
<1>2. PICK id \in NextId(c, r) :
        /\ row' = [row EXCEPT ![r].import = "IMPORTED", ![r].newer = newer, ![r].aid = id]
        /\ job' = [job EXCEPT ![c].left = @ \ {r}, ![c].added = @ \ {id}]
  BY <1>1
<1>3. pc[c] = "book" /\ UNCHANGED <<entry, pc>>
  BY DEF BookRow, actual
<1>4. job[c] \in Job /\ row \in [Rows -> Row]
  BY DEF IInv, TypeOK
<1>5. r \in Rows
  BY <1>4, JobFields DEF First
<1>6. row'[r].aid = id /\ \A s \in Rows \ {r} : row'[s].aid = row[s].aid
  BY <1>2, <1>4, <1>5 DEF Row
<1>7. /\ job'[c].added = job[c].added \ {id} /\ job'[c].book = job[c].book
      /\ \A d \in Connections \ {c} : job'[d] = job[d]
  BY <1>2, <1>4 DEF IInv, TypeOK, Job
<1>8. job[c].book \in Books
  BY <1>3 DEF IInv, Exporters, Linking
<1>9. CASE job[c].added = {}
  <2>1. id = row[r].aid
    BY <1>2, <1>9 DEF NextId
  <2>2. \A s \in Rows : row'[s].aid = row[s].aid
    BY <1>6, <2>1
  <2>3. \A d \in Connections : job'[d].added = job[d].added /\ job'[d].book = job[d].book
    BY <1>7, <1>9
  <2> QED
    BY <1>3, <2>2, <2>3 DEF IdInv, Used, Handing, IdsDistinct, ConnectionOfRow
<1>10. CASE job[c].added # {}
  <2>1. id \in job[c].added
    BY <1>2, <1>10 DEF NextId, First
  <2>2. /\ ConnectionOfRow(id) = c /\ entry[job[c].book][id] > 0
        /\ \A s \in Rows : row[s].aid # id
    BY <1>3, <2>1 DEF IdInv, Handing
  <2>3. Used'
    BY <1>3, <1>6, <1>8, <2>2 DEF IdInv, Used
  <2>4. ASSUME NEW d \in Connections PROVE Handing(d)'
    <3> SUFFICES ASSUME pc[d] = "book", NEW other \in job'[d].added
                 PROVE  /\ ConnectionOfRow(other) = d /\ entry[job'[d].book][other] > 0
                        /\ \A s \in Rows : row'[s].aid # other
      BY <1>3 DEF Handing, ConnectionOfRow
    <3>1. other \in job[d].added /\ job'[d].book = job[d].book
      BY <1>7
    <3>2. /\ ConnectionOfRow(other) = d /\ entry[job[d].book][other] > 0
          /\ \A s \in Rows : row[s].aid # other
      BY <3>1 DEF IdInv, Handing
    <3>3. other # id
      BY <1>7, <2>2, <3>2
    <3> QED
      BY <1>6, <3>1, <3>2, <3>3
  <2>5. IdsDistinct'
    BY <1>6, <2>2 DEF IdInv, IdsDistinct
  <2> QED
    BY <2>3, <2>4, <2>5 DEF IdInv
<1> QED
  BY <1>9, <1>10

LEMMA IdStep == IInv /\ IdInv /\ [Next]_vars => IdInv'
<1> SUFFICES ASSUME IInv, IdInv, [Next]_vars PROVE IdInv'
  OBVIOUS
<1>1. CASE \E c \in Connections : BookRow(c) \/ Import(c)
  BY <1>1, BookRowKeepsIds, ImportKeepsIds
<1>2. CASE \A c \in Connections : ~BookRow(c) /\ ~Import(c)
  <2>1. /\ \A s \in Rows : row'[s].aid = row[s].aid
        /\ \A c \in Connections : pc'[c] = "book" => pc[c] = "book" /\ job'[c] = job[c]
    BY <1>2, IdsStay
  <2>2. Used'
    BY <2>1, AidType, EntriesStay DEF IdInv, Used
  <2>3. ASSUME NEW d \in Connections PROVE Handing(d)'
    <3> SUFFICES ASSUME pc'[d] = "book", NEW id \in job[d].added, pc[d] = "book"
                 PROVE  /\ ConnectionOfRow(id) = d /\ entry'[job[d].book][id] > 0
                        /\ \A s \in Rows : row'[s].aid # id
      BY <2>1 DEF Handing, ConnectionOfRow
    <3>1. /\ ConnectionOfRow(id) = d /\ entry[job[d].book][id] > 0
          /\ \A s \in Rows : row[s].aid # id
      BY DEF IdInv, Handing
    <3>2. id \in Rows /\ job[d].book \in Books
      BY JobFields DEF IInv, TypeOK, Exporters, Linking
    <3> QED
      BY <2>1, <3>1, <3>2, EntriesStay
  <2>4. IdsDistinct'
    BY <2>1 DEF IdInv, IdsDistinct
  <2> QED
    BY <2>2, <2>3, <2>4 DEF IdInv
<1> QED
  BY <1>1, <1>2

\* An id of Actual is stored in one row at most.
THEOREM IdsStayDistinct == Spec => []IdsDistinct
<1>1. Init => IdInv
  <2> SUFFICES ASSUME Init PROVE IdInv
    OBVIOUS
  <2>1. /\ \A s \in Rows : row[s].aid = None
        /\ \A c \in Connections : pc[c] = "idle"
    BY DEF Init, NoRow
  <2> QED
    BY <2>1 DEF IdInv, Used, Handing, IdsDistinct
<1>2. IdInv => IdsDistinct
  BY DEF IdInv
<1> QED
  BY <1>1, <1>2, IdStep, Inductive, PTL DEF Spec
=============================================================================
