----------------------------- MODULE SyncEngine -----------------------------
(***************************************************************************)
(* The SyncEngine of moneta: syncAll, syncAccount, syncConnection and      *)
(* runSync (services/sync/sync-engine.ts), driven by the cron tick and by  *)
(* the two POST /sync routes, on top of the connection status and the      *)
(* credentials that ConnectionService keeps.                               *)
(*                                                                         *)
(* A task is one asynchronous call of syncAll or syncAccount.  Tasks share *)
(* the database and the in-memory lock set `running`; a task runs from one *)
(* await to the next without interruption, so every action below is the    *)
(* code between two awaits.  A crash loses the memory and keeps the rows.  *)
(*                                                                         *)
(* Abstractions.  A consent generation stands for one set of tokens        *)
(* obtained by one user authorization; a refresh keeps the generation.     *)
(* Everything syncOneAccount does with transactions (balance, fetches,     *)
(* upserts, reconciliation) is one step here: the Ledger and SyncWindow    *)
(* modules take it apart.  The timestamps lastSuccessfulSync of accounts   *)
(* and connections are represented by the run that wrote them.  A data     *)
(* request is refused only for a dead consent: module Retry has the access *)
(* token that may lapse while the retries of an account wait.              *)
(***************************************************************************)
EXTENDS Naturals, FiniteSets

CONSTANTS
  Connections,      \* rows of table connections
  Accounts,         \* rows of table accounts, all active
  Owner,            \* accounts.connection_id
  Tasks,            \* concurrent calls of syncAll / syncAccount
  RunIds,           \* identifiers available to sync_runs.id
  BankFaults,       \* the failures of a bank call, other than a dead consent
  HasExporter,      \* deps.actualExporter is configured
  MaxPasses,        \* bound: calls of syncAll / syncAccount in a behaviour
  MaxConsents,      \* bound: user authorizations per connection
  None

ASSUME OwnerAssumption == Owner \in [Accounts -> Connections]
ASSUME NoneAssumption ==
  None \notin Connections \cup Accounts \cup RunIds
ASSUME FaultAssumption ==
  BankFaults \subseteq {"http_429", "http_5xx", "http_4xx", "network", "other"}
ASSUME ExporterAssumption == HasExporter \in BOOLEAN
ASSUME BoundAssumption == MaxPasses \in Nat /\ MaxConsents \in Nat

VARIABLES
  status,      \* connections.status
  stored,      \* the consent generation in connections.encrypted_credentials
  lastSync,    \* connections.last_successful_sync: the run that wrote it,
               \* None if it was discoverAccounts
  cursor,      \* accounts.last_successful_sync: the run that wrote it
  runs,        \* table sync_runs
  syncErrors,  \* table sync_errors: <<run, account, error type>>
  issued,      \* bank: generations issued to each connection so far
  honoured,    \* bank: the generations it still accepts
  discovering, \* callbacks in discoverAccounts, after they stored credentials
  running,     \* SyncEngine.running, the per-connection lock
  pc,          \* where each task is
  job,         \* the local variables of each task
  passes       \* calls of syncAll / syncAccount so far

database == <<status, stored, lastSync, cursor, runs, syncErrors>>
consents == <<issued, honoured, discovering>>
memory   == <<running, pc, job>>
vars     == <<database, consents, memory, passes>>

(***************************************************************************)
(* The values rows and local variables take.                               *)
(***************************************************************************)
ConnectionStatus == {"ACTIVE", "REAUTH_REQUIRED", "DISABLED"}
Verdicts         == {"SUCCESS", "PARTIAL", "FAILED"}
BankErrorTypes   == {"AUTHORIZATION_EXPIRED", "RATE_LIMIT", "INVALID_RESPONSE",
                     "PROVIDER_UNAVAILABLE", "NETWORK_ERROR", "UNKNOWN"}
SyncErrorType    == BankErrorTypes \cup {"ACTUAL_ERROR"}
Faults           == BankFaults \cup {"reauth"}

\* targets is not a column: it records which accounts the run selected.
RunRow == [conn : Connections \cup {None},
           status : Verdicts \cup {"RUNNING", "NONE"},
           targets : SUBSET Accounts,
           processed : SUBSET Accounts]
NoRow  == [conn |-> None, status |-> "NONE", targets |-> {}, processed |-> {}]

Job == [queue : SUBSET Connections,          \* connections still to be synced
        only : Accounts \cup {None},         \* onlyAccountId
        conn : Connections \cup {None},      \* connectionId whose lock is held
        run : RunIds \cup {None},            \* run.id
        targets : SUBSET Accounts,           \* accounts
        todo : SUBSET Accounts,              \* accounts the loop has not reached
        acct : Accounts \cup {None},         \* account
        grant : Nat,                         \* generation of the tokens in hand
        done : SUBSET Accounts,              \* accountsProcessed
        failed : SUBSET Accounts,            \* failures
        sawReauth : BOOLEAN,
        fault : Faults \cup {None}]          \* the error caught by the loop
IdleJob == [queue |-> {}, only |-> None, conn |-> None, run |-> None,
            targets |-> {}, todo |-> {}, acct |-> None, grant |-> 0,
            done |-> {}, failed |-> {}, sawReauth |-> FALSE, fault |-> None]

PcValues == {"idle", "next", "load", "create", "select", "loop", "token",
             "persist", "fetch", "record", "flip", "export", "finish", "touch"}

\* runSync is executing: the task is between its lock and the finally block.
Locked == PcValues \ {"idle", "next"}

Init ==
  /\ status = [c \in Connections |-> "ACTIVE"]
  /\ stored = [c \in Connections |-> 1]
  /\ lastSync = [c \in Connections |-> None]
  /\ cursor = [a \in Accounts |-> None]
  /\ runs = [r \in RunIds |-> NoRow]
  /\ syncErrors = {}
  /\ issued = [c \in Connections |-> 1]
  /\ honoured = [c \in Connections |-> {1}]
  /\ discovering = [c \in Connections |-> 0]
  /\ running = {}
  /\ pc = [t \in Tasks |-> "idle"]
  /\ job = [t \in Tasks |-> IdleJob]
  /\ passes = 0

-----------------------------------------------------------------------------
(***************************************************************************)
(* Starting: the cron tick and POST /sync call syncAll; POST               *)
(* /sync/:accountId calls syncAccount.                                     *)
(***************************************************************************)

\* findMany has no orderBy: the queue is a set and is served in any order.
StartSyncAll(t) ==
  /\ pc[t] = "idle"
  /\ passes < MaxPasses
  /\ passes' = passes + 1
  /\ pc' = [pc EXCEPT ![t] = "next"]
  /\ job' = [job EXCEPT ![t] =
               [IdleJob EXCEPT !.queue = {c \in Connections : status[c] = "ACTIVE"}]]
  /\ UNCHANGED <<database, consents, running>>

StartSyncAccount(t, a) ==
  /\ pc[t] = "idle"
  /\ passes < MaxPasses
  /\ passes' = passes + 1
  /\ pc' = [pc EXCEPT ![t] = "next"]
  /\ job' = [job EXCEPT ![t] =
               [IdleJob EXCEPT !.queue = {Owner[a]}, !.only = a]]
  /\ UNCHANGED <<database, consents, running>>

\* Mutant: no finally block around runSync.
ThrowOut_KeepsLock(t) ==
  /\ pc' = [pc EXCEPT ![t] = "idle"]
  /\ job' = [job EXCEPT ![t] = IdleJob]
  /\ UNCHANGED running

\* An exception that leaves runSync: finally drops the lock, and it leaves the
\* loop of syncAll too, so the connections still in the queue are given up.
ThrowOut(t) ==
  /\ running' = running \ {job[t].conn}
  /\ pc' = [pc EXCEPT ![t] = "idle"]
  /\ job' = [job EXCEPT ![t] = IdleJob]

\* runSync returns: finally drops the lock and syncAll takes the next one.
ReturnFromRun(t) ==
  /\ running' = running \ {job[t].conn}
  /\ pc' = [pc EXCEPT ![t] = "next"]
  /\ job' = [job EXCEPT ![t] =
               [IdleJob EXCEPT !.queue = job[t].queue, !.only = job[t].only]]

\* Mutant: the lock is taken without a test.
Acquire_Untested(t, c) ==
  /\ pc[t] = "next"
  /\ c \in job[t].queue
  /\ running' = running \cup {c}
  /\ pc' = [pc EXCEPT ![t] = "load"]
  /\ job' = [job EXCEPT ![t].queue = @ \ {c}, ![t].conn = c]
  /\ UNCHANGED <<database, consents, passes>>

\* syncConnection, free: the test and the insertion have no await in between.
Acquire(t, c) ==
  /\ pc[t] = "next"
  /\ c \in job[t].queue
  /\ c \notin running
  /\ running' = running \cup {c}
  /\ pc' = [pc EXCEPT ![t] = "load"]
  /\ job' = [job EXCEPT ![t].queue = @ \ {c}, ![t].conn = c]
  /\ UNCHANGED <<database, consents, passes>>

\* Mutant: the test is inside the try block, so finally drops another's lock.
RejectBusy_Unlocks(t, c) ==
  /\ pc[t] = "next"
  /\ c \in job[t].queue
  /\ c \in running
  /\ running' = running \ {c}
  /\ pc' = [pc EXCEPT ![t] = "idle"]
  /\ job' = [job EXCEPT ![t] = IdleJob]
  /\ UNCHANGED <<database, consents, passes>>

\* syncConnection, busy: SyncInProgressError ends the whole pass.
RejectBusy(t, c) ==
  /\ pc[t] = "next"
  /\ c \in job[t].queue
  /\ c \in running
  /\ pc' = [pc EXCEPT ![t] = "idle"]
  /\ job' = [job EXCEPT ![t] = IdleJob]
  /\ UNCHANGED <<database, consents, running, passes>>

EndPass(t) ==
  /\ pc[t] = "next"
  /\ job[t].queue = {}
  /\ pc' = [pc EXCEPT ![t] = "idle"]
  /\ job' = [job EXCEPT ![t] = IdleJob]
  /\ UNCHANGED <<database, consents, running, passes>>

-----------------------------------------------------------------------------
(***************************************************************************)
(* runSync: the run row and the accounts.                                  *)
(***************************************************************************)
LoadActive(t) ==
  /\ pc[t] = "load"
  /\ status[job[t].conn] = "ACTIVE"
  /\ pc' = [pc EXCEPT ![t] = "create"]
  /\ UNCHANGED <<database, consents, running, job, passes>>

\* The connection stopped being ACTIVE after syncAll listed it.
LoadInactive(t) ==
  /\ pc[t] = "load"
  /\ status[job[t].conn] # "ACTIVE"
  /\ ThrowOut(t)
  /\ UNCHANGED <<database, consents, passes>>

\* Mutant: a run left RUNNING by a crash is taken up again.
UnusedRuns_Resume == {r \in RunIds : runs[r].status \in {"NONE", "RUNNING"}}

UnusedRuns == {r \in RunIds : runs[r].status = "NONE"}

\* The id is a uuid: any identifier no row has.
CreateRun(t) ==
  /\ pc[t] = "create"
  /\ UnusedRuns # {}
  /\ LET r == CHOOSE u \in UnusedRuns : TRUE
     IN  /\ runs' = [runs EXCEPT ![r] =
                       [NoRow EXCEPT !.conn = job[t].conn, !.status = "RUNNING"]]
         /\ job' = [job EXCEPT ![t].run = r]
  /\ pc' = [pc EXCEPT ![t] = "select"]
  /\ UNCHANGED <<status, stored, lastSync, cursor, syncErrors, consents, running, passes>>

SelectedAccounts(t) ==
  {a \in Accounts : /\ Owner[a] = job[t].conn
                    /\ job[t].only \in {None, a}}

SelectAccounts(t) ==
  /\ pc[t] = "select"
  /\ runs' = [runs EXCEPT ![job[t].run].targets = SelectedAccounts(t)]
  /\ job' = [job EXCEPT ![t].targets = SelectedAccounts(t),
                        ![t].todo = SelectedAccounts(t)]
  /\ pc' = [pc EXCEPT ![t] = "loop"]
  /\ UNCHANGED <<status, stored, lastSync, cursor, syncErrors, consents, running, passes>>

-----------------------------------------------------------------------------
(***************************************************************************)
(* runSync: the loop over the accounts, with syncOneAccount and the        *)
(* catch block.                                                            *)
(***************************************************************************)

\* Mutant: the loop does not break on a dead consent.
BeginAccount_NoBreak(t, a) ==
  /\ pc[t] = "loop"
  /\ a \in job[t].todo
  /\ job' = [job EXCEPT ![t].todo = @ \ {a}, ![t].acct = a,
                        ![t].grant = stored[job[t].conn]]
  /\ pc' = [pc EXCEPT ![t] = "token"]
  /\ UNCHANGED <<database, consents, running, passes>>

\* getValidAccessToken reads the stored credentials.
BeginAccount(t, a) ==
  /\ pc[t] = "loop"
  /\ ~job[t].sawReauth
  /\ a \in job[t].todo
  /\ job' = [job EXCEPT ![t].todo = @ \ {a}, ![t].acct = a,
                        ![t].grant = stored[job[t].conn]]
  /\ pc' = [pc EXCEPT ![t] = "token"]
  /\ UNCHANGED <<database, consents, running, passes>>

TokenStillFresh(t) ==
  /\ pc[t] = "token"
  /\ pc' = [pc EXCEPT ![t] = "fetch"]
  /\ UNCHANGED <<database, consents, running, job, passes>>

TokenRefreshed(t) ==
  /\ pc[t] = "token"
  /\ job[t].grant \in honoured[job[t].conn]
  /\ pc' = [pc EXCEPT ![t] = "persist"]
  /\ UNCHANGED <<database, consents, running, job, passes>>

\* The refreshed tokens overwrite whatever is stored by now.
PersistTokens(t) ==
  /\ pc[t] = "persist"
  /\ stored' = [stored EXCEPT ![job[t].conn] = job[t].grant]
  /\ pc' = [pc EXCEPT ![t] = "fetch"]
  /\ UNCHANGED <<status, lastSync, cursor, runs, syncErrors, consents, running, job, passes>>

\* The refresh grant is rejected: the service flips the status and rethrows.
TokenRejected(t) ==
  /\ pc[t] = "token"
  /\ job[t].grant \notin honoured[job[t].conn]
  /\ status' = [status EXCEPT ![job[t].conn] = "REAUTH_REQUIRED"]
  /\ job' = [job EXCEPT ![t].fault = "reauth"]
  /\ pc' = [pc EXCEPT ![t] = "record"]
  /\ UNCHANGED <<stored, lastSync, cursor, runs, syncErrors, consents, running, passes>>

\* A data endpoint answers 401 or 403.
FetchUnauthorized(t) ==
  /\ pc[t] = "fetch"
  /\ job[t].grant \notin honoured[job[t].conn]
  /\ job' = [job EXCEPT ![t].fault = "reauth"]
  /\ pc' = [pc EXCEPT ![t] = "record"]
  /\ UNCHANGED <<database, consents, running, passes>>

\* Any other failure of syncOneAccount, the database's included.
AccountFails(t, f) ==
  /\ pc[t] \in {"token", "persist", "fetch"}
  /\ job' = [job EXCEPT ![t].fault = f]
  /\ pc' = [pc EXCEPT ![t] = "record"]
  /\ UNCHANGED <<database, consents, running, passes>>

AccountSynced(t) ==
  /\ pc[t] = "fetch"
  /\ job[t].grant \in honoured[job[t].conn]
  /\ cursor' = [cursor EXCEPT ![job[t].acct] = job[t].run]
  /\ job' = [job EXCEPT ![t].done = @ \cup {job[t].acct}, ![t].acct = None]
  /\ pc' = [pc EXCEPT ![t] = "loop"]
  /\ UNCHANGED <<status, stored, lastSync, runs, syncErrors, consents, running, passes>>

\* Mutant: an error type that the enum of sync_errors does not have.
ClassifyError_Raw(fault) ==
  IF fault = "reauth" THEN "AUTHORIZATION_EXPIRED" ELSE fault

ClassifyError(fault) ==
  CASE fault = "reauth"   -> "AUTHORIZATION_EXPIRED"
    [] fault = "http_429" -> "RATE_LIMIT"
    [] fault = "http_5xx" -> "PROVIDER_UNAVAILABLE"
    [] fault = "http_4xx" -> "INVALID_RESPONSE"
    [] fault = "network"  -> "NETWORK_ERROR"
    [] OTHER              -> "UNKNOWN"

\* Mutant: a failed account is tried again in the same run.
RecordError_Retries(t) ==
  /\ pc[t] = "record"
  /\ LET type == ClassifyError(job[t].fault)
         auth == type = "AUTHORIZATION_EXPIRED"
     IN  /\ syncErrors' = syncErrors \cup {<<job[t].run, job[t].acct, type>>}
         /\ job' = [job EXCEPT ![t].todo = @ \cup {job[t].acct},
                               ![t].acct = None,
                               ![t].fault = None,
                               ![t].sawReauth = auth]
         /\ pc' = [pc EXCEPT ![t] = IF auth THEN "flip" ELSE "loop"]
  /\ UNCHANGED <<status, stored, lastSync, cursor, runs, consents, running, passes>>

RecordError(t) ==
  /\ pc[t] = "record"
  /\ LET type == ClassifyError(job[t].fault)
         auth == type = "AUTHORIZATION_EXPIRED"
     IN  /\ syncErrors' = syncErrors \cup {<<job[t].run, job[t].acct, type>>}
         /\ job' = [job EXCEPT ![t].failed = @ \cup {job[t].acct},
                               ![t].acct = None,
                               ![t].fault = None,
                               ![t].sawReauth = auth]
         /\ pc' = [pc EXCEPT ![t] = IF auth THEN "flip" ELSE "loop"]
  /\ UNCHANGED <<status, stored, lastSync, cursor, runs, consents, running, passes>>

\* Mutant: the status is left to getValidAccessToken.
MarkReauth_Skipped(t) ==
  /\ pc[t] = "flip"
  /\ pc' = [pc EXCEPT ![t] = "loop"]
  /\ UNCHANGED <<database, consents, running, job, passes>>

\* Unconditional: whatever the status has become by now is overwritten.
MarkReauth(t) ==
  /\ pc[t] = "flip"
  /\ status' = [status EXCEPT ![job[t].conn] = "REAUTH_REQUIRED"]
  /\ pc' = [pc EXCEPT ![t] = "loop"]
  /\ UNCHANGED <<stored, lastSync, cursor, runs, syncErrors, consents, running, job, passes>>

-----------------------------------------------------------------------------
(***************************************************************************)
(* runSync: the export and the verdict.                                    *)
(***************************************************************************)
\* Mutant: the first failure ends the loop.
LoopOver_AtFailure(t) ==
  pc[t] = "loop" /\ (job[t].failed # {} \/ job[t].todo = {})

LoopOver(t) == pc[t] = "loop" /\ (job[t].sawReauth \/ job[t].todo = {})

LeaveLoop(t) ==
  /\ LoopOver(t)
  /\ pc' = [pc EXCEPT ![t] = IF HasExporter /\ job[t].done # {}
                             THEN "export" ELSE "finish"]
  /\ UNCHANGED <<database, consents, running, job, passes>>

ExportSucceeds(t) ==
  /\ pc[t] = "export"
  /\ pc' = [pc EXCEPT ![t] = "finish"]
  /\ UNCHANGED <<database, consents, running, job, passes>>

\* Rows that failed to import and an exporter that threw leave the same row.
ExportFails(t) ==
  /\ pc[t] = "export"
  /\ syncErrors' = syncErrors \cup {<<job[t].run, None, "ACTUAL_ERROR">>}
  /\ pc' = [pc EXCEPT ![t] = "finish"]
  /\ UNCHANGED <<status, stored, lastSync, cursor, runs, consents, running, job, passes>>

\* Mutant: a run that processed something is a SUCCESS.
Verdict_AnyDone(t) == IF job[t].done # {} THEN "SUCCESS" ELSE "FAILED"

Verdict(t) ==
  IF job[t].failed = {} THEN "SUCCESS"
  ELSE IF job[t].done # {} THEN "PARTIAL" ELSE "FAILED"

\* Mutant: the connection is touched whatever the verdict.
FinishRun_AlwaysTouch(t) ==
  /\ pc[t] = "finish"
  /\ runs' = [runs EXCEPT ![job[t].run].status = Verdict(t),
                          ![job[t].run].processed = job[t].done]
  /\ pc' = [pc EXCEPT ![t] = "touch"]
  /\ UNCHANGED <<status, stored, lastSync, cursor, syncErrors, consents, running, job, passes>>

\* The run row gets its verdict; a run that is not a SUCCESS returns at once.
FinishRun(t) ==
  /\ pc[t] = "finish"
  /\ runs' = [runs EXCEPT ![job[t].run].status = Verdict(t),
                          ![job[t].run].processed = job[t].done]
  /\ IF Verdict(t) = "SUCCESS"
     THEN pc' = [pc EXCEPT ![t] = "touch"] /\ UNCHANGED <<running, job>>
     ELSE ReturnFromRun(t)
  /\ UNCHANGED <<status, stored, lastSync, cursor, syncErrors, consents, passes>>

\* Mutant: the update has no where clause.
TouchConnection_All(t) ==
  /\ pc[t] = "touch"
  /\ lastSync' = [c \in Connections |-> job[t].run]
  /\ ReturnFromRun(t)
  /\ UNCHANGED <<status, stored, cursor, runs, syncErrors, consents, passes>>

TouchConnection(t) ==
  /\ pc[t] = "touch"
  /\ lastSync' = [lastSync EXCEPT ![job[t].conn] = job[t].run]
  /\ ReturnFromRun(t)
  /\ UNCHANGED <<status, stored, cursor, runs, syncErrors, consents, passes>>

\* A query outside the loop's try block fails: the run stays RUNNING.
DatabaseFails(t) ==
  /\ pc[t] \in Locked \ {"loop", "token", "persist", "fetch"}
  /\ ThrowOut(t)
  /\ UNCHANGED <<database, consents, passes>>

-----------------------------------------------------------------------------
(***************************************************************************)
(* Around the engine.                                                      *)
(***************************************************************************)

\* handleCallback of a reauthorization: the code is exchanged, and one update
\* stores the new credentials and sets ACTIVE.
Reauthorize(c) ==
  /\ issued[c] < MaxConsents
  /\ issued' = [issued EXCEPT ![c] = @ + 1]
  /\ honoured' = [honoured EXCEPT ![c] = @ \cup {issued[c] + 1}]
  /\ stored' = [stored EXCEPT ![c] = issued[c] + 1]
  /\ status' = [status EXCEPT ![c] = "ACTIVE"]
  /\ discovering' = [discovering EXCEPT ![c] = @ + 1]
  /\ UNCHANGED <<lastSync, cursor, runs, syncErrors, memory, passes>>

\* discoverAccounts ends: it writes last_successful_sync at the end, or fails
\* before that.  The tokens just obtained need no refresh.
EndDiscovery(c) ==
  /\ discovering[c] > 0
  /\ discovering' = [discovering EXCEPT ![c] = @ - 1]
  /\ \E failed \in BOOLEAN :
       lastSync' = IF failed THEN lastSync ELSE [lastSync EXCEPT ![c] = None]
  /\ UNCHANGED <<status, stored, cursor, runs, syncErrors, issued, honoured, memory, passes>>

\* DELETE /connections/:id.
DisableConnection(c) ==
  /\ status' = [status EXCEPT ![c] = "DISABLED"]
  /\ UNCHANGED <<stored, lastSync, cursor, runs, syncErrors, consents, memory, passes>>

\* The consent lapses or is withdrawn at the bank.
RevokeConsent(c, g) ==
  /\ g \in honoured[c]
  /\ honoured' = [honoured EXCEPT ![c] = @ \ {g}]
  /\ UNCHANGED <<database, issued, discovering, memory, passes>>

\* The process dies, or exits on a signal while a task is under way.
Crash ==
  /\ \/ \E t \in Tasks : pc[t] # "idle"
     \/ \E c \in Connections : discovering[c] > 0
  /\ running' = {}
  /\ pc' = [t \in Tasks |-> "idle"]
  /\ job' = [t \in Tasks |-> IdleJob]
  /\ discovering' = [c \in Connections |-> 0]
  /\ UNCHANGED <<database, issued, honoured, passes>>

Start(t) == StartSyncAll(t) \/ (\E a \in Accounts : StartSyncAccount(t, a))

Step(t) ==
  \/ \E c \in Connections : Acquire(t, c) \/ RejectBusy(t, c)
  \/ EndPass(t)
  \/ LoadActive(t)
  \/ LoadInactive(t)
  \/ CreateRun(t)
  \/ SelectAccounts(t)
  \/ \E a \in Accounts : BeginAccount(t, a)
  \/ TokenStillFresh(t)
  \/ TokenRefreshed(t)
  \/ PersistTokens(t)
  \/ TokenRejected(t)
  \/ FetchUnauthorized(t)
  \/ \E f \in BankFaults : AccountFails(t, f)
  \/ AccountSynced(t)
  \/ RecordError(t)
  \/ MarkReauth(t)
  \/ LeaveLoop(t)
  \/ ExportSucceeds(t)
  \/ ExportFails(t)
  \/ FinishRun(t)
  \/ TouchConnection(t)
  \/ DatabaseFails(t)

Environment ==
  \/ \E c \in Connections :
       \/ Reauthorize(c)
       \/ EndDiscovery(c)
       \/ DisableConnection(c)
       \/ \E g \in honoured[c] : RevokeConsent(c, g)
  \/ Crash

Next == (\E t \in Tasks : Start(t) \/ Step(t)) \/ Environment

Spec == Init /\ [][Next]_vars

\* Every awaited promise settles, so a task that can move does.
FairSpec == Spec /\ \A t \in Tasks : WF_vars(Step(t))

-----------------------------------------------------------------------------
(***************************************************************************)
(* What must hold.                                                         *)
(***************************************************************************)

\* Every row and every local variable holds a value of its column or type.
TypeOK ==
  /\ status \in [Connections -> ConnectionStatus]
  /\ stored \in [Connections -> Nat]
  /\ lastSync \in [Connections -> RunIds \cup {None}]
  /\ cursor \in [Accounts -> RunIds \cup {None}]
  /\ runs \in [RunIds -> RunRow]
  /\ syncErrors \subseteq RunIds \X (Accounts \cup {None}) \X SyncErrorType
  /\ issued \in [Connections -> Nat]
  /\ honoured \in [Connections -> SUBSET Nat]
  /\ discovering \in [Connections -> Nat]
  /\ running \subseteq Connections
  /\ pc \in [Tasks -> PcValues]
  /\ job \in [Tasks -> Job]
  /\ passes \in Nat

\* Section 36 of the product spec: two syncs never work on one connection at
\* the same time, whether they come from the cron tick or from a request.
OneSyncPerConnection ==
  \A t, u \in Tasks :
    t # u /\ pc[t] \in Locked /\ pc[u] \in Locked => job[t].conn # job[u].conn

\* The in-memory lock set holds exactly the connections under sync: no exit of
\* runSync, exceptional or not, leaves a connection locked until a restart,
\* and none unlocks a connection another task is working on.
NoLeakedLock ==
  running = {job[t].conn : t \in {u \in Tasks : pc[u] \in Locked}}

\* The accounts for which a run recorded an error of the bank side.
Errored(r) ==
  {a \in Accounts : \E type \in BankErrorTypes : <<r, a, type>> \in syncErrors}

\* The verdict in sync_runs agrees with the rows in sync_errors and with the
\* accounts the run wrote: SUCCESS hides no failure and skips no account,
\* FAILED synced nothing, PARTIAL did both.
VerdictTruthful ==
  \A r \in RunIds :
    /\ runs[r].status \in Verdicts => runs[r].processed \cap Errored(r) = {}
    /\ runs[r].status = "SUCCESS" =>
         runs[r].processed = runs[r].targets /\ Errored(r) = {}
    /\ runs[r].status = "PARTIAL" => runs[r].processed # {} /\ Errored(r) # {}
    /\ runs[r].status = "FAILED"  => runs[r].processed = {} /\ Errored(r) # {}

\* The accounts whose failure told the run that the authorization is gone.
Unauthorized(r) ==
  {a \in Accounts : <<r, a, "AUTHORIZATION_EXPIRED">> \in syncErrors}

\* Section 19: one account failing does not stop the others.  A finished run
\* has tried every account it selected, except after a dead authorization.
EveryAccountAttempted ==
  \A r \in RunIds :
    runs[r].status \in Verdicts /\ Unauthorized(r) = {} =>
      runs[r].targets \subseteq runs[r].processed \cup Errored(r)

\* "No point hammering a dead consent": a run learns at most once that its
\* authorization is gone; it does not ask again for the next account.
NoHammering ==
  \A r \in RunIds : Cardinality(Unauthorized(r)) <= 1

\* An account counts as processed by a running sync only if its cursor is the
\* one this sync wrote: no other task has moved the cursor meanwhile.
ProcessedIsFresh ==
  \A t \in Tasks : \A a \in job[t].done : cursor[a] = job[t].run

\* The time of the last successful sync shown for a connection comes from its
\* discovery or from a run of this connection that ended as a SUCCESS.
LastSyncTruthful ==
  \A c \in Connections :
    lastSync[c] # None =>
      runs[lastSync[c]].conn = c /\ runs[lastSync[c]].status = "SUCCESS"

\* Section 27, "Authorization expired: set REAUTH_REQUIRED".  Once a run has
\* seen a dead authorization and left the catch block, the connection is not
\* ACTIVE any more, unless the user has authorized it anew.
DeadConsentSurfaces ==
  \A t \in Tasks :
    /\ job[t].sawReauth
    /\ pc[t] # "flip"
    /\ status[job[t].conn] = "ACTIVE"
    => issued[job[t].conn] > job[t].grant

\* The program counters at which a task works on a run that has no verdict.
InRun == Locked \ {"load", "create", "touch"}

LogRows  == [r \in RunIds |-> [conn |-> runs[r].conn, status |-> runs[r].status]]
OpenRuns == {job[t].run : t \in {u \in Tasks : pc[u] \in InRun}}

Log == INSTANCE RunLog WITH log <- LogRows, open <- OpenRuns

\* The engine keeps the promise of RunLog: no connection has two runs in
\* progress, and a verdict is given once, by the task that opened the run.
KeepsRunLog == Log!Spec

\* Every pass of the engine comes to an end, whatever the bank answers.
PassEnds == \A t \in Tasks : pc[t] # "idle" ~> pc[t] = "idle"

-----------------------------------------------------------------------------
(***************************************************************************)
(* What the documentation says and the code does not do.                   *)
(***************************************************************************)

\* banking-provider.ts:60, "Authorization is gone for good - the user must
\* reconnect": a connection in REAUTH_REQUIRED holds no working consent.
ReauthIsReal ==
  \A c \in Connections :
    status[c] = "REAUTH_REQUIRED" => stored[c] \notin honoured[c]
=============================================================================
