# TLA+ specifications of moneta

moneta downloads bank transactions from TrueLayer into PostgreSQL and exports
them to Actual Budget. This directory holds specifications of the parts of it
that are hard to test: concurrent sync passes over shared connections, failures
between two queries, the window a sync fetches, the reconciliation of pending
with settled transactions, racing OAuth callbacks and token refreshes, retries
against the life of a token, and an export that fails and is repeated. TLC checks
them on small instances; TLAPS proves the theorems of the `*Proofs` modules for
all of them.

Paths below are relative to `src/apps/server/src/` unless they say otherwise.

## 1. Inventory

| Component | State it keeps | Operations | What makes it correct |
|---|---|---|---|
| `SyncEngine` (`services/sync/sync-engine.ts`) | lock set `running`; rows of `sync_runs`, `sync_errors`; `lastSuccessfulSync` of accounts and connections; connection status | `syncAll`, `syncAccount`, `syncConnection`, `runSync`, `syncOneAccount` | one sync per connection; no lock leaks; verdicts agree with the errors; one account's failure does not stop the others; every pass ends |
| window and cursor (same file, `syncOneAccount`) | `accounts.last_successful_sync` | choose `[from, to]`, fetch, move the cursor | no transaction falls between two windows |
| `normalizeBatch` (`services/sync/normalize.ts`) | none | identity of a report | equal reports get equal hashes, different purchases different ones |
| `upsertTransactions` (`services/sync/transaction-store.ts`) | rows of `transactions` | insert, update, skip | every downloaded transaction is stored once and kept |
| `reconcilePending` (`services/reconciliation/pending-reconciler.ts`) | `deleted_at` of the rows | merge a pending with its settled twin, expire a vanished one | nothing counted twice, nothing lingers, nothing lost; repeatable |
| `ConnectionService` (`services/connections/connection-service.ts`) | rows of `connections` (status, encrypted credentials), `accounts`, `auth_state:*` settings | `createAuthSession`, `handleCallback`, `getValidAccessToken`, `discoverAccounts`, `disableConnection` | an auth state is used once; credentials stay with their connection; the newest refresh token is stored; a finished discovery is complete; the status tells the truth |
| `RetryingBankingProvider` (`providers/retrying-provider.ts`) | attempt counter of a call | retry of transient failures | bounded; ends; the waits do not outlast the token they were begun with |
| `TrueLayerProvider`, `mapper` (`providers/truelayer/`) | none | HTTP calls, conversions | which answer is which error |
| `ActualExportService`, `ensureAccountLink`, gateway (`integrations/actual/`) | `import_status`, `imported_at`, `actual_transaction_id`; link rows; the budget session of a module-level singleton | export one batch per account | every row gets to Actual, once, in its latest state |
| scheduler, sync routes (`jobs/scheduler.ts`, `routes/sync.ts`) | none | start passes | a failing pass never ends the process |
| status and UI routes, config, crypto, Prisma client | none | read-only or pure | not specified |

How they interact. The cron tick and `POST /sync` call `syncAll`, `POST
/sync/:accountId` calls `syncAccount`; each call is an asynchronous task of its
own. The tasks share the database and, inside the one process, the set
`running`. For each account a task asks the `ConnectionService` for an access
token (which may refresh and store tokens, or set `REAUTH_REQUIRED`), fetches
through the retrying provider, normalizes, upserts and reconciles, and moves the
account's cursor; then it exports and gives the run its verdict. Meanwhile the
user may finish a reauthorization, disable a connection, and the bank may
withdraw a consent or settle a purchase. Nothing restarts a run after a crash.

The hard behaviours, each at its line, are the `hazards` of `PROJECT.json`.

## 2. Modules

| Module | Models | Kind |
|---|---|---|
| `RunLog` | what `sync_runs` promises its readers | abstract specification |
| `SyncEngine` | the engine, its callers, the connection row, the bank's consents | detailed specification, implements `RunLog` |
| `SyncWindow` | window and cursor of one account | detailed specification |
| `Ledger` | normalization, upsert and reconciliation of one account next to a bank, with what the export writes into the same rows | detailed specification |
| `Export` | `exportAccounts`, `ensureAccountLink` and the Actual gateway, for concurrent exports of several connections | detailed specification |
| `Connections` | auth sessions, callbacks, discovery, token refresh | detailed specification |
| `Retry` | the requests of one account with their retries, on a clock | detailed specification |
| `MCSyncEngine`, `MCSyncWindow`, `MCLedger`, `MCExport`, `MCConnections`, `MCRetry` | instances for TLC | |
| `SyncEngineProofs`, `SyncBooksProofs` (on top of it), `SyncWindowProofs`, `LedgerProofs`, `ExportProofs`, `LinkProofs` (on top of it), `ConnectionsProofs`, `RetryProofs` | theorems | proofs |

The modules overlap where the components interact, each taking from its
neighbours what its own properties need. `SyncEngine` has the refresh and the
callbacks only as far as they change the status and say which consent is stored;
`Connections` has them query by query, with a sync reduced to what it does to the
connection row, one per connection because of the engine's lock. A request and its
retries are one step in `SyncEngine`; `Retry` opens that step. Likewise a refusal by a
data endpoint comes from a dead consent in `SyncEngine`; `Retry` has the one that comes
from a lapsed token. An export is one outcome in
`SyncEngine`, one step with its writes in `Ledger`, and await by await in `Export`.

### `SyncEngine`

One action is the code between two awaits of one task: JavaScript runs it
without interruption. `pc[t]` names the await a task is at; `job[t]` holds the
locals of `runSync`.

| `pc` | the task waits for or is about to | code |
|---|---|---|
| `next` | take the next connection of the queue (`Acquire`, `RejectBusy`, `EndPass`) | lines 79-103 |
| `load`, `create`, `select` | connection row, run row, accounts | 106-125 |
| `loop` | next account, or leave the loop | 127-128, 159-161 |
| `token`, `persist` | `getValidAccessToken`: refresh, store the refreshed tokens | `connection-service.ts` 95-126 |
| `fetch` | the rest of `syncOneAccount` | 217-265 |
| `record`, `flip` | catch block: error row, `REAUTH_REQUIRED` | 136-155 |
| `export`, `finish`, `touch` | export, verdict, `lastSuccessfulSync` | 159-206 |

Database: `status`, `stored` (which consent's tokens are stored), `lastSync`,
`cursor`, `runs`, `syncErrors`. Bank: `issued`, `honoured`. Callbacks that have
stored credentials and are still discovering accounts: `discovering`. Memory
(lost in a crash): `running`, `pc`, `job`, `discovering`.

Failures: any bank call fails with any of `BankFaults` (`AccountFails`); a dead
consent is refused at the refresh (`TokenRejected`) or at a data endpoint
(`FetchUnauthorized`); any query outside the loop's `try` block fails
(`DatabaseFails`) and leaves the run `RUNNING`; the process dies (`Crash`, which
is also what `shutdown` in `index.ts` does to passes under way).

The timestamps `lastSuccessfulSync` are represented by the run that wrote them,
so that properties can say whose success a timestamp shows. `runs[r].targets` is
the selection of accounts, kept as history.

### `SyncWindow`

Time is a counter. The bank posts a transaction at any time with a date up to
`Lag` in the past; a sync takes at most `MaxDuration` from the `to` of its
window to its end. The cursor becomes the time of the *end* of the sync
(line 263), not `to`. A sync may fail at any point and then has stored any part
of what it fetched. `horizon` remembers how far back the first sync looked.

### `Ledger`

A *purchase* is what happened in the world; the bank goes on its own from
pending to settled (or lets a pending vanish, for good or until it settles),
and reports it with an id or without. The program sees reports only. `rows` is
the table; the field `of` remembers whose report made a row, which only
properties read. One sync is `FetchFirst` (settled), `FetchSecond` (pending,
then `normalizeBatch`), one `Upsert` per report, `LoadRows`, one `Reconcile` per
pending, `Finish`; the bank moves in between, and `Fail` ends a sync anywhere
(failed call or query, crash). Midnight may fall into a sync (`NextDay`), at most
`Midnights` times; `nights` counts them. What the environment promises in days, that a
`Prompt` purchase settles before it would expire, allows for them (`LastDay`).

A report's `look` stands for amount, description and merchant. `Matches` compares it
as a whole: the code compares merchants, or without one descriptions, so the model
assumes that a purchase has the same ones in its pending and its settled report. Of
the fields `hasChanges` compares, the status and the booked date can change here.

With `HasExporter`, an export may follow a sync: `ExportSucceeds` puts the rows that
need it into `actual`, as the `imported_id` and the cleared flag that `Sent` reads off
the row (`Import` replaces an entry of the same id), and stamps them, `ExportFails` does so for some part of them
(the accounts before the failure, or rows imported but not booked) and sets
`IMPORT_ERROR` on others, which moves `updated_at` as `updateMany` does. A row's
`news` says that it was never imported or has changed since.

### `Export`

One action is the code between two awaits of one exporter; `pc[c]` names the await:

| `pc` | about to | code (`export-service.ts` unless said otherwise) |
|---|---|---|
| `idle` | select the rows that need an export (`Begin`) | lines 43-60 |
| `open`, `close` | the gateway's session | `actual-gateway.ts` 27-42, lines 85 and 118-120 |
| `account` | next account, look up its link (`NextAccount`, `EndLoop`) | 87-89 |
| `list`, `create`, `store` | `ensureAccountLink` | `account-linker.ts` |
| `import` | the import of one account (`Import`, `ImportFails`) | 90-94 |
| `book` | one update per row, ids handed out in order (`BookRow`) | 95-108 |
| `error` | `IMPORT_ERROR` for the account's batch (`MarkError`) | 110-116 |

`row` is the table with a version counter instead of contents; `entry[b][r]` is the
version of row `r` that Actual's account `b` was given. `session` is one flag, for
`@actual-app/api` is one module-level singleton: an exporter that finishes closes
it under the other. A sync of the same connection changes rows only while its own
exporter is idle, because the engine's lock covers the export too; the mutant
`Change_Unlocked` drops that, and `MarkedIsThere` breaks. The user may have
accounts in Actual and rename them; a crash loses `session`, `pc` and `job`.

### `Connections`

`conn`, `accounts` and `auth` are the tables; `code`, `newest` and `alive` are the
bank's side: the code of each session, the number of the newest refresh token of
each grant, and the grants it honours. A callback `t` goes through `FindState`,
`DeleteState` (lines 203-215), `ExchangeCode`, `StoreReauth` or `StoreNew` (71-89),
`ListAccounts`, one `UpsertAccount` per account, `FinishDiscovery` (128-177). Between
any two of these another callback, a sync or `DELETE` may come in. A sync reads the
status once (`BeginSync`, `sync-engine.ts:109`); then its refreshes (`BeginRefresh`,
`RefreshAnswered`, `PersistTokens`, lines 95-126) no longer test it, and a refused
refresh or a refused request (`RefreshRejected`, `DataRefused`) writes
`REAUTH_REQUIRED` whatever the row says by then (`MarkReauth`). The discovery after
an exchange also asks for a valid token; it would refresh only if the bank gave the new
token less than the 60 seconds of headroom to live, and that is left out.
`CallbackFails` ends a callback anywhere with what it has stored by then;
`ExchangeLost` and `RefreshLost` are answers that got lost, after which
`RetryingBankingProvider` sends the used code or the replaced token again; `Crash`
ends everything under way. `mislaid` records the grants of which a token never
reached the database, so that `TokenUsable` can except exactly those.

### `Retry`

One account's requests share the access token that `getValidAccessToken` checked
before the first. `phase` is where the account is, `stage` the request at hand (0 is
the refresh), `attempt` the loop variable of `withRetry`. `Due` holds the partial
sums of `delaysMs`. `expiresAt` is what the code believes, with the headroom taken
off; `death` is when the bank lets the token lapse. `lost` adds up what the failures
of requests with this token may have cost, an attempt and a wait each. `Tick` lets time pass only while
something is waited for and not overdue, so `MaxCall` is the assumption on the
network (the code sets no timeout) and a timer fires when it is due.

### `RunLog` and the refinement

`RunLog` is the table `sync_runs` as `GET /sync/runs` and the dashboard see it: a
connection has at most one run in progress, a verdict is given once, by the task
that opened the run, and a lost run stays `RUNNING`. `SyncEngine` implements it
with `log <- LogRows`, `open <- OpenRuns` (the runs that tasks are working on);
the property is `KeepsRunLog`.

## 3. Runs

| Run | Instance | Shows |
|---|---|---|
| `engine_safety` | 1 connection, 2 accounts, 2 tasks, 2 passes, 2 run ids, 2 consents, exporter on | the nine invariants of the engine |
| `engine_live` | the same with 1 consent, without symmetry, `FairSpec` | every pass ends |
| `engine_runs` | 2 connections with 1 account each, 2 tasks, 4 run ids | locks of different connections, refinement of `RunLog` |
| `engine_reauth` | as `engine_runs` with 2 consents | **violation** of `ReauthIsReal` |
| `window` | 2 transactions, lag 1, duration 1, overlap 2, clock to 6 | `NothingMissed` and its inductive strengthening |
| `ledger_distinct` | 2 purchases that can be told apart, one with a lasting id, one without id, both prompt to settle, expiry 2, a midnight in each sync, exporter on | exactness, arrival in Actual, repeatability |
| `ledger_twins` | 2 identical purchases whose ids change, expiry 1, a midnight in each sync, no exporter | exactness and no double counting under merges, no lingering, reported pendings are kept |
| `ledger_retained` | 1 purchase that keeps its id | **violation** of `DownloadedIsRetained` |
| `ledger_exported` | 1 purchase whose id changes, exporter on | **violation** of `OneEntryPerPurchase` |
| `export` | 2 connections with an account each (one name, two currencies), 3 rows, 2 books, 2 exports | what Actual has and what the database believes it has |
| `connections` | 2 connections, 2 sessions, 2 callbacks, 2 bank accounts, 2 tokens per grant | racing callbacks and refreshes |
| `retry` | 3 requests, waits 0, 1, 4, 16 in sum (tens of seconds), headroom 6, calls up to 1 | refusals, duration, end of the requests |

### The properties

Engine. `OneSyncPerConnection` is the lock of section 36 of `src/spec.md`;
`NoLeakedLock` says that every exit, exceptional or not, drops exactly its own
lock. `VerdictTruthful` relates `sync_runs` to `sync_errors` and to the accounts
written; `EveryAccountAttempted` is section 19; `NoHammering` and
`DeadConsentSurfaces` are section 27; `ProcessedIsFresh` says no other sync has
moved the cursor of an account a run still counts as its own; `LastSyncTruthful`
says whose success the connection's timestamp shows. `PassEnds` is liveness.

Ledger. `SettledExact`: after a sync, what this sync was told is settled is
stored as settled and live, one row per purchase. `NoDoubleCount`: never more
live rows than purchases, as long as purchases settle within the match window.
`SettledArrives`: once no row needs an export, everything settled is in Actual as
cleared, whatever failed on the way; that it was sent while pending does not count.
`ReportedIsKept`: a pending the bank still reports under an id is not expired.
`GoneDoNotLinger`: a pending the bank has dropped is gone after the expiry, give or
take the midnights in a sync. `SettledStays`: no step deletes a settled row or makes it
pending. `Idempotent`: a sync of a bank that stood still since a completed sync
changes no row, whatever was exported in between.

Export. `MarkedIsThere`: a row that no export would select is in Actual as it is
now, in the account it is linked to; this is what makes a failed export safe to
forget. `OncePerRow`: repeated exports never put a row into two accounts of Actual.
`OwnBook`: accounts of one name and different currencies keep apart.
`IdsDistinct`: no id of Actual is stored in two rows. `SendsOnlyNews` (every step):
what Actual has of a row never goes back to an older version, and changes only while
the row is live (sending the same version again is not seen).

Connections. `StateUsedOnce`: of all callbacks with a state one at most uses its
code. `CredentialsMatch`: a connection's credentials come from a session for it, or
from the one that made it, and are nobody else's. `DiscoveredIsComplete`: a
connection that shows the time of its discovery has all accounts. `TokenUsable`:
the stored refresh token is the bank's newest of its grant, unless a refresh is
about to store it or an answer or a write was lost.

Retry. `RefusedOnlyIfLate`: a live consent is refused only when the requests with one
token took longer than the life the headroom guarantees, and when their number and the
failures among them account for that (`~Fits`). `DurationBounded`: an
account takes no more than `Requests` full schedules; `MaxDuration` of `SyncWindow`
rests on such a bound. `RequestsEnd` is liveness.

### What the violations show

1. `ReauthIsReal`: `connection-service.ts:119` and `sync-engine.ts:151` write
   `REAUTH_REQUIRED` whatever the row says by then. A sync that was refused with an
   old consent takes a connection the user has just reauthorized out of service
   (and in the same way would undo the `DISABLED` of a `DELETE`).
2. `DownloadedIsRetained`: a pending older than the expiry that settles between the
   two fetches is in neither answer, is soft-deleted, and its settled report, with
   the same id, is skipped for ever (`transaction-store.ts:77`).
3. `OneEntryPerPurchase`: a pending that was exported and settles under another id
   leaves its entry in Actual, because a soft-deleted row is never exported again
   (`export-service.ts:47`); `docs/actual-setup.md:51` has the next export update
   the cleared flag, and `spec.md:635` asks for a flag for the user's review.

### Limits of what holds

* `SettledExact` holds in `ledger_distinct` because every purchase there is
  `Prompt` (case 2 cannot happen) and no two look alike. In `ledger_twins` it holds
  because the ids change at settlement, so a settled report never meets a row made
  for a pending. The theorem needs one or the other of every purchase (`Settles`):
  for two prompt purchases that look alike and keep their ids TLC finds a state in
  which a settled one has no row (the other one's pending was taken for it, and its
  own settled report then meets the deleted row).
* Two purchases that look alike on one day, and have no id, are outside of what the
  program can do: the occurrence index of a report (`normalize.ts:51`) depends on
  the other reports in its batch, so when one of the two leaves the feed the other
  gets its hash. On such an instance TLC finds `SettledStays` and `SettledExact`
  violated; the theorems about `Ledger` assume `Distinguishable`, and are satisfied
  by both passing instances.
* `Idempotent` is checked for purchases that differ. With identical ones it fails:
  claims of settled rows last for one run (line 59 of the reconciler), so a second
  sync may take the other pending for the same settled row.
* `ReportedIsKept` is about pendings with an id; the reconciler never counts one
  without id as seen, and expires it while it is still reported.
* `GoneDoNotLinger` is checked without exporter. A failing export moves
  `updated_at` and with it the expiry: with `HasExporter` TLC finds a pending that
  lingers for as long as exports fail.
* `OwnBook` needs different currencies. With the same name and currency both
  accounts are linked to one account of Actual.
* `NoDoubleCount` bounds the live rows from above. That a settled row swallows a twin
  is `SettledExact`'s subject, and that is restricted as said above.
* `ReportedIsKept` passes over a pending that was taken for the settled row of another
  purchase that looks alike; the program cannot tell them apart.
* The days of `GoneDoNotLinger` are those a sync saw when it began: a sync that lasts
  past midnight may expire a row up to `Midnights` days late.
* The comment at `truelayer-provider.ts:28` says that requests "never race" the expiry.
  The waits of one request add up to 155 seconds, the headroom is 60, so with retries
  they do, and a live consent is then taken for a dead one. What holds is
  `RefusedOnlyIfLate`, and `HeadroomSuffices` for what fits (`Fits`): 60 seconds cover
  the three requests if each takes up to 15, and one retry after 5 seconds besides if
  each attempt takes up to 10. The wait of 30 seconds fits if attempts take up to 4,
  that of 120 never.
* `CredentialsMatch` does not say which of two grants of one connection is kept: a
  refresh of the older one that is stored after a reauthorization overwrites the newer.
* `IdsDistinct` says the ids are different, not that each is on its own row:
  `export-service.ts` hands them out by position.

### Bounds, and why they are enough

* Two tasks: every conflict in the engine is between two calls; a third waits at
  the same lock. `MaxPasses = 2` lets one task make two passes in a row (what
  the first left behind matters to the second) or two tasks one each. There are
  as many run ids as runs that two passes can open.
* Two accounts on one connection give SUCCESS, PARTIAL and FAILED and a loop
  that is cut short; two connections give a pass with a rest to give up.
* `MaxConsents = 2`: one reauthorization per connection, enough for a stale task
  to meet a newer consent.
* `BankFaults = {"http_5xx"}`: the engine treats all transient and permanent
  failures other than a dead consent alike, but for the type it records.
* Deadlock is not checked: a behaviour ends when the passes, the consents or the
  calendar are used up.
* `SyncWindow`: with the overlap one tick smaller TLC finds a violation, so the
  bound of the theorem is tight and the instance reaches the case.
* `Ledger`: match window 1 and expiry 1 over days 0 to 3 reach both sides of
  each limit, with one midnight in a sync. `ledger_distinct` has expiry 2: a prompt
  purchase has until the expiry less the midnights to settle, and with 1 it would have
  no day to wait. Two purchases are the least with which a twin can be mistaken.
* `Export`: two connections, because exports of one never overlap; one account
  with two rows, because ids are handed out by position within an account; one row
  that changes after it was exported; two exports are one and its repetition, or
  two at the same time. Two books suffice to be shared, found or made anew.
* `Connections`: two callbacks of one session or of two, on one connection or two;
  a token that is replaced once. A refresh needs no second instance per connection,
  for the engine's lock excludes it.
* `Retry`: the unit is ten seconds, so the waits of 5, 30 and 120 seconds are 1, 3 and
  12 and the headroom 6; all attempts of all three requests are there. A
  token lives 8, two more than its headroom, and lapses under any of the requests, with
  and without retries.

Symmetry: `engine_safety` and `engine_runs` permute the tasks, `window` the
transactions, `export` the books, `connections` all of its sets; nothing in these
modules distinguishes their elements, and no liveness is checked there.

### Fairness

`FairSpec` assumes weak fairness of `Step(t)` for every task: each awaited
promise settles, because bank calls have a bounded number of retries, database
calls return or fail, and the exporter's calls answer or throw; and the event
loop runs every callback that is ready. It does not assume that anything
succeeds, and no fairness is assumed of starts, of the user, of the bank or of
crashes.

`Retry` has weak fairness of its whole next-state relation: time goes on. That a
request is then answered or fails, and that a wait ends, follows from `Tick`, which
passes neither `MaxCall` nor the due time of a timer. `Ledger`, `Export`, `Connections`
and `SyncWindow` state safety only and assume no fairness.

## 4. Proofs

`SyncEngineProofs`, for any set of connections, accounts, tasks and run ids, and
any bounds, from the named assumptions of `SyncEngine` on its constants:

* `TypeCorrect`: `TypeOK`, which is inductive only together with `Shape`: a task
  past its lock holds a connection, past `create` a run, between `token` and
  `record` an account.
* `MutualExclusion` and `LocksAreExact`: `OneSyncPerConnection` and
  `NoLeakedLock`. Neither is inductive alone: a task may enter because the set
  says the connection is free, which means something only if the set is exact,
  and an exit drops only its own lock only if no other task has the same
  connection. `Locks` is their conjunction. Four lemmas treat the ways a step can
  touch the lock (entering, leaving, staying), and each action is one of them.
* `ImplementsRunLog`: `Spec => KeepsRunLog`. The invariant `Owned` says that a
  task in the middle of a run owns a `RUNNING` row of its own connection; with
  `Locks`, two tasks own different rows. Each engine action is then an `Open`, a
  `Close`, a `Lose` or a stutter of the run log.
* `LastSyncCorrect`: `LastSyncTruthful`, from `Owned` and from the refinement: a
  row that is a SUCCESS stays one, so only the writers of `lastSync` remain.

`SyncBooksProofs` goes on about the bookkeeping of a run. `Books` says what a task
knows (`TaskBooks`: `done`, `failed`, the account in hand and `todo` partition the
selection, and `failed` are exactly the accounts with an error row of this run) and
what a row says once it has a verdict (`RowBooks`). The parts need each other: a
verdict is computed from the locals of a task and compared with rows that tasks have
inserted. That `failed` is disjoint from what is ahead had to be added, for without it
an account could fail twice. `VerdictsTruthful`, `AccountsAttempted` and
`DeadConsentAskedOnce` follow. `Cursors` (a task works on accounts of the connection
it has locked, so no other moves their cursors) gives `ProcessedStaysFresh`; `Grants`
(the consent in hand was issued before, and is older than the latest if the connection
is ACTIVE after it proved dead) gives `DeadConsentsSurface`.

`SyncWindowProofs`: if `Overlap >= Lag + MaxDuration`, then `Spec => []WindowInv`
(`WindowCorrect`) and so `Spec => []NothingMissed` (`NoGap`). What the sync under way
was not sent is older than its window or was posted late, dated no more than `Lag`
before `to`; since `clock <= to + MaxDuration`, the next window reaches it.

`LedgerProofs`, for any finite set of purchases, any ids and looks, dates, failures
and exports. First `RowSteps`: whatever the step, there is a function from the rows
before to the rows after, and each row is the same, stored into, dropped or marked;
no more than one row is new. `TypeCorrect` follows for every value of the constants,
with the uniqueness of raw hashes. The rest is about what rows mean, and takes
premises on the bank's data (the constants), each needed (see the limits above):

| Premise | Says |
|---|---|
| `Distinguishable` | no two purchases share an id, and those without an id do not look alike |
| `Settles` | every purchase settles under a new id (or gets or loses one), or else is `Prompt` and looks like no other |
| `NoneAlike` | no two purchases look alike |
| `~HasExporter` | nothing but syncs writes to the rows |

* `KeyInv`: under `Distinguishable` every row and every report has the raw hash of
  its purchase (`Key`), the occurrence index is 0, settled rows are of settled
  purchases, and a sync in progress was told of every settled row there is. The last
  part is what the order of the two fetches is for (settled first): no batch has
  the pending report of a purchase with a settled row. `SettledRowsStay` follows.
* `StoreInv`: a deleted row never has the hash of a settlement that is there or to
  come (`Buried`), for the settlement has another id, or comes too late to come at
  all; and what was told is to be stored or has its row (`Covered`). `Buried` alone is
  not inductive: a purchase may settle behind a sync's back, and its row must not
  expire then (`InTime`). `SettledOnce` counts with a bijection between purchases and
  rows; `SettledReachesActual` adds that a row without news is in Actual as it is
  (`Arrived`), cleared or not, which is why a step that settles a row must leave news.
* `Seen` and `TakenFor` (a dropped row of a reported purchase was taken for a settled
  row that is still there) give `ReportedRowsKept`; `JustLeft`, `Untouched` and
  `Expired` follow a purchase out of the feed and give `GoneRowsExpire`.
* `MergeInv`: rows have the bank's dates, a claimed settled row leaves no pending of
  its look, and what the loop has passed has no twin. It gives `CountedOnce`. With
  purchases that look alike the loop is a greedy matching whose claims last for one
  run; that it leaves no more rows than purchases stays with TLC (`ledger_twins`).
* `StillInv`: while the bank stands still a sync is told exactly what there is, and a
  completed one has left nothing to store, merge or expire. It gives
  `SyncIsIdempotent`.

`ExportProofs`, for any connections, accounts, rows, names and Actual accounts. `IInv` is
`TypeOK` with `Unborn` (nothing is known of a row that does not exist), `Exporters`
(what an exporter has in hand at each await: its batch holds versions that are
still current, because the lock keeps the rows from changing; the link it is about
to store or has read; what it has just imported is in Actual), `MarkedIsThere` and
`EntriesLinked` (where a row has an entry, its account is linked, or about to be).
One lemma per action shows that it is kept, and that an exporter that does not
move is not disturbed. `MarkedRowsAreThere` and `NothingTwice` follow at once. On top
of it, `Sent` (no entry is newer than its row) gives `OnlyNewsIsSent`, and `IdInv`
(the ids an exporter still has to hand out are in no row, and fit those that
wait) gives `IdsStayDistinct`.

`LinkProofs` adds `OwnBook` (`EveryAccountHasItsBook`), under the premise that accounts
of one name differ in currency (`CurrenciesDiffer`), which `account-linker.ts` takes
for granted. `ensureAccountLink` finds an account of Actual by name, so `LinkInv` is
about names: what is looked for is a name of the account in hand (`Sought`), what is
linked has such a name or was renamed (`Named`), the plain name is used on behalf of one
account at most, because any second one was discovered before it looks (`OnePlain`), and
what is linked or about to be belongs to one account (`OneHolder`).

`ConnectionsProofs`, for any connections, sessions, callbacks, accounts and tokens. The
invariants are stacked, each proved with the help of those below it:
`Typed` (`TypeOK` with what is in hand at each await); `Once`, which relates the
number of callbacks that got through to the row of the state (`UsedOnce`); `InHand`:
callbacks that got through have different states; `Credentials`: a grant is held, in
the row or by a refresh, for one connection, and by no callback that has yet to
store it (`CredentialsCorrect`); `Discovery`: what a discovery has dealt with is in
the table (`DiscoveryComplete`); `Tokens`: what a callback or a refresh is about to
store is the bank's newest (`NewestTokenStored`). The last needs `Credentials`: only
because no two connections share a grant does a refresh of one not outdate the other.

`RetryProofs`, for any schedule. `OnTime` places the request at hand in its schedule,
`Begun` says how late it was sent first, `Charged` that the time since the first request
is paid for by the requests before, the failures (`lost`) and the attempt at hand,
`Covered` and `Stamps` what is known of the token's life. From them `RefusalsAreLate` and
`RequestsAreBounded`, and `HeadroomSuffices`: as long as the requests and failures so far
fit into the headroom no token lapses under a request (`TokenOutlivesRequests`), and
where the headroom covers the requests alone, as 60 seconds do, only a retry can cost a
live consent (`OnlyRetriesCostConsent`).

Assumed are only the named assumptions on the constants in each module. Two are less
obvious than the rest: the set of purchases is finite (`PurchasesAssumption`; otherwise
counting them means nothing), and the user renames an account of Actual only to a name
that no account of the database has (`OtherNameAssumption`).

Only model-checked: `NoDoubleCount` for purchases that look alike, and, as liveness
under fairness is out of the prover's reach, `PassEnds` and `RequestsEnd`.

## 5. Not modelled

* Counters of a run, balances, raw payloads, messages: written, never read back
  by the code that is modelled.
* The transactions' own conversion in `mapper.ts` (amounts, currencies, dates) and the
  JSON and URLs of `truelayer-provider.ts`: pure functions.
* An answer to a refresh without `refresh_token`, which stores an empty string:
  whether the bank ever sends one cannot be seen in the repository.
* Of Actual: how it merges an import with the user's own entries, which edits it
  protects, and its synchronization with the server.
* Status and UI routes, configuration, encryption, the Prisma client: pure or
  read-only.

## 6. Plan

1. Proofs: `NoDoubleCount` for purchases that look alike, with an invariant that
   compares counts per look (merged, live pending and settled rows) instead of rows;
   `GoneDoNotLinger` with an exporter whose exports do not fail.
2. A bound on how long a pending may linger while exports fail, if one is ever
   promised.
3. Two syncs of one account in `Ledger`, should the lock ever leave the process.

## 7. Running

    tlc -workers 2 -config MCSyncEngine_safety.cfg MCSyncEngine.tla
    tlapm SyncEngineProofs.tla

A definition whose name has an underscore (`Acquire_Untested`) is a mutant: a
plausible mistake in the definition before the underscore. `PROJECT.json` lists
which property each of them breaks.
