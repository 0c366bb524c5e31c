------------------------------- MODULE Export -------------------------------
(***************************************************************************)
(* The export to Actual Budget: ActualExportService, ensureAccountLink and *)
(* RealActualGateway (integrations/actual), called by runSync at the end   *)
(* of a sync, under the lock of its connection.                            *)
(*                                                                         *)
(* An exporter is the export a sync of one connection makes.  Exporters of *)
(* different connections run concurrently and share the budget session of  *)
(* @actual-app/api, a singleton of its module: whoever closes it closes it *)
(* for all.                                                                *)
(*                                                                         *)
(* Abstractions.  The content of a row is its version, a counter of the    *)
(* changes made to it; `newer` is the comparison updated_at > imported_at, *)
(* the only use the code makes of the two times, and TRUE in a row that    *)
(* was never imported, where it is not asked.  Actual is external: it      *)
(* has accounts (books) with a name and, in each, the entries it was given *)
(* under an imported_id, which is the id of the row.  Which fields of an   *)
(* entry the user's edits protect, and its fuzzy matching, are Actual's    *)
(* own.  The budget file is cached in dataDir, so what was imported stays  *)
(* there when the process dies; its synchronization with the server is     *)
(* left to Actual.  An account keeps the name it was discovered with.      *)
(***************************************************************************)
EXTENDS Naturals, FiniteSets

CONSTANTS
  Connections,   \* rows of table connections, one exporter each
  Accounts,      \* rows of table accounts
  ConnectionOf,  \* accounts.connection_id
  AccountName,   \* accounts.name
  Currency,      \* accounts.currency
  Rows,          \* rows of table transactions
  AccountOf,     \* transactions.account_id
  Position,      \* the order of the rows by timestamp
  Books,         \* ids available to the accounts of Actual
  UserNames,     \* names of accounts the user may have made in Actual
  MaxVersion,    \* bound: versions of each row
  MaxExports,    \* bound: exports in a behaviour
  None

ASSUME ConnectionOfAssumption == ConnectionOf \in [Accounts -> Connections]
ASSUME AccountOfAssumption    == AccountOf \in [Rows -> Accounts]
ASSUME PositionAssumption ==
  /\ Position \in [Rows -> Nat]
  /\ \A r, s \in Rows : Position[r] = Position[s] => r = s
ASSUME ExportBoundAssumption  ==
  MaxVersion \in [Rows -> Nat] /\ MaxExports \in Nat
ASSUME ExportNoneAssumption   ==
  None \notin Books \cup Accounts \cup Rows \cup {AccountName[a] : a \in Accounts}

\* A name in Actual: an account's name, or the name with the currency.
TargetNames == {AccountName[a] : a \in Accounts}
                 \X ({Currency[a] : a \in Accounts} \cup {None})
NoName      == <<None, None>>   \* the id is not in use
OtherName   == <<"other", None>> \* a name no account of the database has

ASSUME UserNamesAssumption == UserNames \subseteq TargetNames
ASSUME OtherNameAssumption == OtherName \notin TargetNames \cup {NoName}

VARIABLES
  listed,   \* the accounts discovered so far
  row,      \* table transactions
  link,     \* table actual_account_links: account -> Actual account
  books,    \* Actual: the name of each of its accounts
  entry,    \* Actual: entry[b][r] is the version it was given of row r, or 0
  session,  \* the singleton has a budget open
  pc,       \* where each exporter is
  job,      \* the local variables of each exporter
  exports   \* exports begun so far

database == <<listed, row, link>>
actual   == <<books, entry>>
vars     == <<database, actual, session, pc, job, exports>>

ImportStatus == {"NOT_IMPORTED", "IMPORTED", "IMPORT_ERROR"}

\* Actual's id of an entry is named by the row it was made for.
Row    == [version : Nat, import : ImportStatus, newer : BOOLEAN,
           aid : Rows \cup {None}, deleted : BOOLEAN]
NoRow  == [version |-> 0, import |-> "NOT_IMPORTED", newer |-> TRUE,
           aid |-> None, deleted |-> FALSE]

Job == [batch : [Rows -> Nat],            \* rows: the versions read, 0 if not in it
        todo : SUBSET Accounts,           \* byAccount: the accounts still to come
        acct : Accounts \cup {None},      \* accountId
        name : TargetNames \cup {NoName}, \* targetName
        book : Books \cup {None},         \* actualAccountId
        added : SUBSET Rows,              \* addedIds
        left : SUBSET Rows]               \* rows the bookkeeping has not reached
IdleJob == [batch |-> [r \in Rows |-> 0], todo |-> {}, acct |-> None,
            name |-> NoName, book |-> None, added |-> {}, left |-> {}]

PcValues == {"idle", "open", "account", "list", "create", "store", "import",
             "book", "error", "close"}

\* The user may have made accounts in Actual before.
Init ==
  /\ listed = {}
  /\ row = [r \in Rows |-> NoRow]
  /\ link = [a \in Accounts |-> None]
  /\ books \in [Books -> UserNames \cup {NoName}]
  /\ \A b, d \in Books : b # d /\ books[b] = books[d] => books[b] = NoName
  /\ entry = [b \in Books |-> [r \in Rows |-> 0]]
  /\ session = FALSE
  /\ pc = [c \in Connections |-> "idle"]
  /\ job = [c \in Connections |-> IdleJob]
  /\ exports = 0

-----------------------------------------------------------------------------
(***************************************************************************)
(* What a sync does to the rows before it exports.  It holds the lock of   *)
(* the connection from its first write to the end of the export, so no     *)
(* exporter of this connection is under way.                               *)
(***************************************************************************)
ConnectionOfRow(r) == ConnectionOf[AccountOf[r]]
Live(r) == row[r].version > 0 /\ ~row[r].deleted

Discover(a) ==
  /\ a \notin listed
  /\ listed' = listed \cup {a}
  /\ UNCHANGED <<row, link, actual, session, pc, job, exports>>

Insert(r) ==
  /\ pc[ConnectionOfRow(r)] = "idle"
  /\ AccountOf[r] \in listed
  /\ row[r].version = 0
  /\ row' = [row EXCEPT ![r].version = 1]
  /\ UNCHANGED <<listed, link, actual, session, pc, job, exports>>

\* Mutant: a second sync of the connection runs during the export.
Change_Unlocked(r) ==
  /\ Live(r)
  /\ row[r].version < MaxVersion[r]
  /\ row' = [row EXCEPT ![r].version = @ + 1, ![r].newer = TRUE]
  /\ UNCHANGED <<listed, link, actual, session, pc, job, exports>>

\* An update by upsertTransactions or by a merge; Prisma moves updated_at.
Change(r) ==
  /\ pc[ConnectionOfRow(r)] = "idle"
  /\ Live(r)
  /\ row[r].version < MaxVersion[r]
  /\ row' = [row EXCEPT ![r].version = @ + 1, ![r].newer = TRUE]
  /\ UNCHANGED <<listed, link, actual, session, pc, job, exports>>

SoftDelete(r) ==
  /\ pc[ConnectionOfRow(r)] = "idle"
  /\ Live(r)
  /\ row' = [row EXCEPT ![r].deleted = TRUE, ![r].newer = TRUE]
  /\ UNCHANGED <<listed, link, actual, session, pc, job, exports>>

-----------------------------------------------------------------------------
(***************************************************************************)
(* exportAccounts: the batch and the session.                              *)
(***************************************************************************)

\* Mutant: the query has no condition on deleted_at.
NeedsExport_Deleted(r) ==
  row[r].version > 0 /\ (row[r].import # "IMPORTED" \/ row[r].newer)

NeedsExport(r) == Live(r) /\ (row[r].import # "IMPORTED" \/ row[r].newer)

\* pendingRows.  Without such a row the service returns at once and opens
\* nothing, which changes no state.
Begin(c, scope) ==
  /\ pc[c] = "idle"
  /\ exports < MaxExports
  /\ exports' = exports + 1
  /\ LET rows == {r \in Rows : AccountOf[r] \in scope /\ NeedsExport(r)}
     IN  /\ rows # {}
         /\ job' = [job EXCEPT ![c] =
              [IdleJob EXCEPT
                 !.batch = [r \in Rows |-> IF r \in rows THEN row[r].version ELSE 0],
                 !.todo = {AccountOf[r] : r \in rows}]]
  /\ pc' = [pc EXCEPT ![c] = "open"]
  /\ UNCHANGED <<database, actual, session>>

Open(c) ==
  /\ pc[c] = "open"
  /\ session' = TRUE
  /\ pc' = [pc EXCEPT ![c] = "account"]
  /\ UNCHANGED <<database, actual, job, exports>>

\* init or downloadBudget throws: this is before the try block, so nothing
\* is closed, and the budget may or may not have been opened.
OpenFails(c) ==
  /\ pc[c] = "open"
  /\ session' \in BOOLEAN
  /\ pc' = [pc EXCEPT ![c] = "idle"]
  /\ job' = [job EXCEPT ![c] = IdleJob]
  /\ UNCHANGED <<database, actual, exports>>

\* finally: the session ends for every exporter, unless shutdown throws.
Close(c) ==
  /\ pc[c] = "close"
  /\ session' \in {FALSE, session}
  /\ pc' = [pc EXCEPT ![c] = "idle"]
  /\ job' = [job EXCEPT ![c] = IdleJob]
  /\ UNCHANGED <<database, actual, exports>>

-----------------------------------------------------------------------------
(***************************************************************************)
(* The loop over the accounts: ensureAccountLink.                          *)
(***************************************************************************)

\* Mutant: accounts of the same name are not told apart.
TargetName_NoCurrency(a) == <<AccountName[a], None>>

\* The currency tells accounts of the same name apart.
TargetName(a) ==
  IF \E d \in listed \ {a} : AccountName[d] = AccountName[a]
  THEN <<AccountName[a], Currency[a]>>
  ELSE <<AccountName[a], None>>

\* The account's link, or the name to look for.
NextAccount(c, a) ==
  /\ pc[c] = "account"
  /\ a \in job[c].todo
  /\ IF link[a] # None
     THEN /\ job' = [job EXCEPT ![c].acct = a, ![c].book = link[a]]
          /\ pc' = [pc EXCEPT ![c] = "import"]
     ELSE /\ job' = [job EXCEPT ![c].acct = a, ![c].name = TargetName(a)]
          /\ pc' = [pc EXCEPT ![c] = "list"]
  /\ UNCHANGED <<database, actual, session, exports>>

EndLoop(c) ==
  /\ pc[c] = "account"
  /\ job[c].todo = {}
  /\ pc' = [pc EXCEPT ![c] = "close"]
  /\ UNCHANGED <<database, actual, session, job, exports>>

\* Mutant: only a created account is linked, a matched one is found again.
MatchBook_NoLink(c, b) ==
  /\ pc[c] = "list"
  /\ session
  /\ books[b] = job[c].name
  /\ job' = [job EXCEPT ![c].book = b]
  /\ pc' = [pc EXCEPT ![c] = "import"]
  /\ UNCHANGED <<database, actual, session, exports>>

\* Whether the account found is linked already is not asked.
MatchBook(c, b) ==
  /\ pc[c] = "list"
  /\ session
  /\ books[b] = job[c].name
  /\ job' = [job EXCEPT ![c].book = b]
  /\ pc' = [pc EXCEPT ![c] = "store"]
  /\ UNCHANGED <<database, actual, session, exports>>

NoMatch(c) ==
  /\ pc[c] = "list"
  /\ session
  /\ \A b \in Books : books[b] # job[c].name
  /\ pc' = [pc EXCEPT ![c] = "create"]
  /\ UNCHANGED <<database, actual, session, job, exports>>

CreateBook(c, b) ==
  /\ pc[c] = "create"
  /\ session
  /\ books[b] = NoName
  /\ books' = [books EXCEPT ![b] = job[c].name]
  /\ job' = [job EXCEPT ![c].book = b]
  /\ pc' = [pc EXCEPT ![c] = "store"]
  /\ UNCHANGED <<database, entry, session, exports>>

\* Mutant: the link stores the name of the account.
StoreLink_Name(c) ==
  /\ pc[c] = "store"
  /\ link' = [link EXCEPT ![job[c].acct] = job[c].name]
  /\ pc' = [pc EXCEPT ![c] = "import"]
  /\ UNCHANGED <<listed, row, actual, session, job, exports>>

StoreLink(c) ==
  /\ pc[c] = "store"
  /\ link' = [link EXCEPT ![job[c].acct] = job[c].book]
  /\ pc' = [pc EXCEPT ![c] = "import"]
  /\ UNCHANGED <<listed, row, actual, session, job, exports>>

\* A call of Actual fails, always so when another exporter has closed the
\* session, or a query does.
LinkFails(c) ==
  /\ pc[c] \in {"list", "create", "store"}
  /\ pc' = [pc EXCEPT ![c] = "error"]
  /\ UNCHANGED <<database, actual, session, job, exports>>

-----------------------------------------------------------------------------
(***************************************************************************)
(* The loop over the accounts: the import and its bookkeeping.             *)
(***************************************************************************)

\* The batch of the account at hand.
Batch(c) == {r \in Rows : job[c].batch[r] > 0 /\ AccountOf[r] = job[c].acct}

\* Actual updates the entry that carries the imported_id, or adds one.
Given(c, rows) ==
  [entry EXCEPT ![job[c].book] =
     [r \in Rows |-> IF r \in rows THEN job[c].batch[r]
                                   ELSE entry[job[c].book][r]]]

\* Only the ids of the entries Actual has added are in the answer.
Import(c) ==
  /\ pc[c] = "import"
  /\ session
  /\ entry' = Given(c, Batch(c))
  /\ job' = [job EXCEPT
       ![c].left = Batch(c),
       ![c].added = {r \in Batch(c) : entry[job[c].book][r] = 0}]
  /\ pc' = [pc EXCEPT ![c] = "book"]
  /\ UNCHANGED <<database, books, session, exports>>

\* Actual reports errors, or dies on the way: some of the rows may be in.
ImportFails(c) ==
  /\ pc[c] = "import"
  /\ \E rows \in SUBSET Batch(c) :
       /\ rows # {} => session
       /\ entry' = Given(c, rows)
  /\ pc' = [pc EXCEPT ![c] = "error"]
  /\ UNCHANGED <<database, books, session, job, exports>>

\* The first of some rows, as a set; empty if there are none.
First(rows) == {r \in rows : \A s \in rows : Position[r] <= Position[s]}

\* The id that shift() takes from the answer; without one the row's stays.
NextId(c, r) == IF job[c].added = {} THEN {row[r].aid} ELSE First(job[c].added)

\* The loop goes on with the accounts still to come, and with their rows.
AccountDone(c) ==
  /\ job' = [job EXCEPT ![c] =
       [IdleJob EXCEPT
          !.batch = [r \in Rows |-> IF r \in Batch(c) THEN 0 ELSE job[c].batch[r]],
          !.todo = job[c].todo \ {job[c].acct}]]
  /\ pc' = [pc EXCEPT ![c] = "account"]

\* Mutant: the answer is read without being consumed.
BookRow_NoShift(c) ==
  /\ pc[c] = "book"
  /\ \E r \in First(job[c].left), newer \in BOOLEAN : \E id \in NextId(c, r) :
       /\ row' = [row EXCEPT ![r].import = "IMPORTED", ![r].newer = newer,
                             ![r].aid = id]
       /\ job' = [job EXCEPT ![c].left = @ \ {r}]
  /\ UNCHANGED <<listed, link, actual, session, pc, exports>>

\* One row is marked, with the next id of the answer, whatever row that id
\* was given for.  The two calls of now() may be a millisecond apart: the row
\* may then count as changed since its import.
BookRow(c) ==
  /\ pc[c] = "book"
  /\ \E r \in First(job[c].left), newer \in BOOLEAN : \E id \in NextId(c, r) :
       /\ row' = [row EXCEPT ![r].import = "IMPORTED", ![r].newer = newer,
                             ![r].aid = id]
       /\ job' = [job EXCEPT ![c].left = @ \ {r}, ![c].added = @ \ {id}]
  /\ UNCHANGED <<listed, link, actual, session, pc, exports>>

Booked(c) ==
  /\ pc[c] = "book"
  /\ job[c].left = {}
  /\ AccountDone(c)
  /\ UNCHANGED <<database, actual, session, exports>>

BookFails(c) ==
  /\ pc[c] = "book"
  /\ pc' = [pc EXCEPT ![c] = "error"]
  /\ UNCHANGED <<database, actual, session, job, exports>>

\* The catch block: the whole batch of the account is marked, the rows that
\* are in Actual included; updateMany moves updated_at.
MarkError(c) ==
  /\ pc[c] = "error"
  /\ row' = [r \in Rows |-> IF r \in Batch(c)
                            THEN [row[r] EXCEPT !.import = "IMPORT_ERROR", !.newer = TRUE]
                            ELSE row[r]]
  /\ AccountDone(c)
  /\ UNCHANGED <<listed, link, actual, session, exports>>

\* The update fails too: the exception leaves the loop.
MarkErrorFails(c) ==
  /\ pc[c] = "error"
  /\ pc' = [pc EXCEPT ![c] = "close"]
  /\ job' = [job EXCEPT ![c] = IdleJob]
  /\ UNCHANGED <<database, actual, session, exports>>

-----------------------------------------------------------------------------
\* The user renames or closes an account in Actual.
UserRenames(b) ==
  /\ books[b] \in TargetNames
  /\ books' = [books EXCEPT ![b] = OtherName]
  /\ UNCHANGED <<database, entry, session, pc, job, exports>>

Crash ==
  /\ \E c \in Connections : pc[c] # "idle"
  /\ session' = FALSE
  /\ pc' = [c \in Connections |-> "idle"]
  /\ job' = [c \in Connections |-> IdleJob]
  /\ UNCHANGED <<database, actual, exports>>

\* A sync covers the accounts of its connection, or one of them.
Scopes(c) ==
  LET mine == {a \in listed : ConnectionOf[a] = c}
  IN  {mine} \cup {{a} : a \in mine}

Step(c) ==
  \/ Open(c) \/ OpenFails(c)
  \/ \E a \in Accounts : NextAccount(c, a)
  \/ EndLoop(c)
  \/ \E b \in Books : MatchBook(c, b) \/ CreateBook(c, b)
  \/ NoMatch(c) \/ StoreLink(c) \/ LinkFails(c)
  \/ Import(c) \/ ImportFails(c)
  \/ BookRow(c) \/ Booked(c) \/ BookFails(c)
  \/ MarkError(c) \/ MarkErrorFails(c)
  \/ Close(c)

Sync == \/ \E a \in Accounts : Discover(a)
        \/ \E r \in Rows : Insert(r) \/ Change(r) \/ SoftDelete(r)
        \/ \E c \in Connections : \E scope \in Scopes(c) : Begin(c, scope)

Next == \/ Sync
        \/ \E c \in Connections : Step(c)
        \/ \E b \in Books : UserRenames(b)
        \/ Crash

Spec == Init /\ [][Next]_vars

-----------------------------------------------------------------------------
(***************************************************************************)
(* What must hold.                                                         *)
(***************************************************************************)

\* Rows, links, the accounts of Actual and the locals keep their types.
TypeOK ==
  /\ listed \subseteq Accounts
  /\ row \in [Rows -> Row]
  /\ link \in [Accounts -> Books \cup {None}]
  /\ books \in [Books -> TargetNames \cup {NoName, OtherName}]
  /\ entry \in [Books -> [Rows -> Nat]]
  /\ session \in BOOLEAN
  /\ pc \in [Connections -> PcValues]
  /\ job \in [Connections -> Job]
  /\ exports \in Nat

\* A row that no export would select any more is in Actual as it is now, in
\* the account it is linked to: nothing that failed, crashed or changed on the
\* way is taken for exported (spec.md, section 26, "Import failures must be
\* retryable").
MarkedIsThere ==
  \A r \in Rows :
    Live(r) /\ ~NeedsExport(r) =>
      /\ link[AccountOf[r]] # None
      /\ entry[link[AccountOf[r]]][r] = row[r].version

\* "A transaction must not be duplicated in Actual after repeated
\* synchronization" (spec.md, section 26): whatever fails, is repeated or is
\* renamed by the user, a row has an entry in one account of Actual at most.
OncePerRow ==
  \A r \in Rows : Cardinality({b \in Books : entry[b][r] > 0}) <= 1

\* account-linker.ts:29, "Disambiguate with the currency so each gets its own
\* Actual account": two accounts are never linked to one account of Actual.
OwnBook ==
  \A a, d \in Accounts : a # d /\ link[a] # None => link[a] # link[d]

\* An id of Actual is stored in one row at most, over all exports, the
\* incomplete ones included.
IdsDistinct ==
  \A r, s \in Rows : r # s /\ row[r].aid # None => row[r].aid # row[s].aid

\* What Actual is given of a row only moves forward, and only while the row is
\* live: no stale batch is sent over a newer one, nor a row deleted meanwhile
\* (export-service.test.ts, "never exports soft-deleted rows").
SendsOnlyNews ==
  [][\A b \in Books, r \in Rows :
       entry'[b][r] # entry[b][r] => entry'[b][r] > entry[b][r] /\ Live(r)]_vars
=============================================================================
