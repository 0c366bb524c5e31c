-------------------------- MODULE SyncEngineProofs --------------------------
(***************************************************************************)
(* Proofs about SyncEngine, for any connections, accounts, tasks and       *)
(* bounds.                                                                 *)
(***************************************************************************)
EXTENDS SyncEngine, TLAPS

\* The local variables a task holds at each program counter.
Shape ==
  \A t \in Tasks :
    /\ pc[t] \in Locked => job[t].conn \in Connections
    /\ pc[t] \in Locked \ {"load", "create"} => job[t].run \in RunIds
    /\ pc[t] \in {"token", "persist", "fetch", "record"} => job[t].acct \in Accounts

Typed == TypeOK /\ Shape

-----------------------------------------------------------------------------
(* Updates of the local variables stay within their type. *)

LEMMA IdleJobType == IdleJob \in Job
  BY DEF Job, IdleJob

LEMMA QueueType ==
  ASSUME NEW q \in SUBSET Connections, NEW a \in Accounts \cup {None}
  PROVE  /\ [IdleJob EXCEPT !.queue = q] \in Job
         /\ [IdleJob EXCEPT !.queue = q, !.only = a] \in Job
  BY DEF Job, IdleJob

LEMMA JobType ==
  ASSUME NEW j \in Job
  PROVE  /\ \A q \in SUBSET Connections : \A c \in Connections :
              [j EXCEPT !.queue = q, !.conn = c] \in Job
         /\ \A r \in RunIds : [j EXCEPT !.run = r] \in Job
         /\ \A s \in SUBSET Accounts : [j EXCEPT !.targets = s, !.todo = s] \in Job
         /\ \A s \in SUBSET Accounts : \A a \in Accounts : \A g \in Nat :
              [j EXCEPT !.todo = s, !.acct = a, !.grant = g] \in Job
         /\ \A f \in Faults : [j EXCEPT !.fault = f] \in Job
         /\ \A s \in SUBSET Accounts : [j EXCEPT !.done = s, !.acct = None] \in Job
         /\ \A s \in SUBSET Accounts : \A b \in BOOLEAN :
              [j EXCEPT !.failed = s, !.acct = None, !.fault = None, !.sawReauth = b]
                \in Job
<1>1. \A q \in SUBSET Connections : \A c \in Connections :
        [j EXCEPT !.queue = q, !.conn = c] \in Job
  BY DEF Job
<1>2. \A r \in RunIds : [j EXCEPT !.run = r] \in Job
  BY DEF Job
<1>3. \A s \in SUBSET Accounts : [j EXCEPT !.targets = s, !.todo = s] \in Job
  BY DEF Job
<1>4. \A s \in SUBSET Accounts : \A a \in Accounts : \A g \in Nat :
        [j EXCEPT !.todo = s, !.acct = a, !.grant = g] \in Job
  BY DEF Job
<1>5. \A f \in Faults : [j EXCEPT !.fault = f] \in Job
  BY DEF Job
<1>6. \A s \in SUBSET Accounts : [j EXCEPT !.done = s, !.acct = None] \in Job
  BY DEF Job
<1>7. \A s \in SUBSET Accounts : \A b \in BOOLEAN :
        [j EXCEPT !.failed = s, !.acct = None, !.fault = None, !.sawReauth = b] \in Job
  BY DEF Job
<1> QED BY <1>1, <1>2, <1>3, <1>4, <1>5, <1>6, <1>7

LEMMA JobFields ==
  ASSUME NEW j \in Job
  PROVE  /\ j.queue \in SUBSET Connections
         /\ j.only \in Accounts \cup {None}
         /\ j.todo \in SUBSET Accounts
         /\ j.done \in SUBSET Accounts
         /\ j.failed \in SUBSET Accounts
         /\ j.grant \in Nat
  BY DEF Job

\* Leaving runSync, by an exception or not, keeps the types.
LEMMA ExitTyped ==
  ASSUME Typed, NEW t \in Tasks, ThrowOut(t) \/ ReturnFromRun(t)
  PROVE  /\ running' \subseteq Connections
         /\ pc' \in [Tasks -> PcValues]
         /\ job' \in [Tasks -> Job]
         /\ pc'[t] \notin Locked
         /\ \A u \in Tasks \ {t} : pc'[u] = pc[u] /\ job'[u] = job[u]
<1>1. job[t] \in Job
  BY DEF Typed, TypeOK
<1>2. CASE ThrowOut(t)
  BY <1>2, IdleJobType DEF ThrowOut, Typed, TypeOK, PcValues, Locked
<1>3. CASE ReturnFromRun(t)
  <2>1. [IdleJob EXCEPT !.queue = job[t].queue, !.only = job[t].only] \in Job
    BY <1>1, JobFields, QueueType
  <2> QED BY <1>3, <2>1 DEF ReturnFromRun, Typed, TypeOK, PcValues, Locked
<1> QED BY <1>2, <1>3

-----------------------------------------------------------------------------
LEMMA InitTyped == Init => Typed
  BY OwnerAssumption, IdleJobType
  DEF Init, Typed, TypeOK, Shape, Locked, PcValues, ConnectionStatus, RunRow, NoRow,
      Verdicts

LEMMA StartTyped ==
  ASSUME Typed, NEW t \in Tasks, Start(t)
  PROVE  Typed'
<1> USE DEF Typed, TypeOK, Shape, Locked, PcValues, database, consents, memory
<1>1. CASE StartSyncAll(t)
  <2>1. [IdleJob EXCEPT !.queue = {c \in Connections : status[c] = "ACTIVE"}] \in Job
    BY QueueType
  <2> QED BY <1>1, <2>1 DEF StartSyncAll
<1>2. ASSUME NEW a \in Accounts, StartSyncAccount(t, a)
      PROVE  Typed'
  <2>1. [IdleJob EXCEPT !.queue = {Owner[a]}, !.only = a] \in Job
    BY QueueType, OwnerAssumption
  <2> QED BY <1>2, <2>1 DEF StartSyncAccount
<1> QED BY <1>1, <1>2 DEF Start

LEMMA StepTyped ==
  ASSUME Typed, NEW t \in Tasks, Step(t)
  PROVE  Typed'
<1> USE DEF Typed, TypeOK, Shape, Locked, PcValues, database, consents, memory
<1>0. job[t] \in Job
  OBVIOUS
<1>1. ASSUME NEW c \in Connections, Acquire(t, c)
      PROVE  Typed'
  <2>1. [job[t] EXCEPT !.queue = @ \ {c}, !.conn = c] \in Job
    BY <1>0, JobType, JobFields
  <2> QED BY <1>1, <2>1 DEF Acquire
<1>2. ASSUME NEW c \in Connections, RejectBusy(t, c)
      PROVE  Typed'
  BY <1>2, IdleJobType DEF RejectBusy
<1>3. CASE EndPass(t)
  BY <1>3, IdleJobType DEF EndPass
<1>4. CASE LoadActive(t)
  BY <1>4 DEF LoadActive
<1>5. CASE LoadInactive(t)
  BY <1>5, ExitTyped DEF LoadInactive
<1>6. CASE CreateRun(t)
  <2> DEFINE r == CHOOSE u \in UnusedRuns : TRUE
             row == [NoRow EXCEPT !.conn = job[t].conn, !.status = "RUNNING"]
  <2>1. r \in RunIds
    BY <1>6 DEF CreateRun, UnusedRuns
  <2>2. row \in RunRow
    BY <1>6 DEF CreateRun, RunRow, NoRow
  <2>3. [job[t] EXCEPT !.run = r] \in Job
    BY <1>0, <2>1, JobType
  <2>4. /\ runs' = [runs EXCEPT ![r] = row]
        /\ job' = [job EXCEPT ![t].run = r]
        /\ pc[t] = "create" /\ pc' = [pc EXCEPT ![t] = "select"]
        /\ UNCHANGED <<status, stored, lastSync, cursor, syncErrors, consents, running, passes>>
    BY <1>6 DEF CreateRun
  <2> HIDE DEF r, row
  <2> QED BY <2>1, <2>2, <2>3, <2>4
<1>7. CASE SelectAccounts(t)
  <2> DEFINE s == SelectedAccounts(t)
  <2>1. s \in SUBSET Accounts
    BY DEF SelectedAccounts
  <2>2. [job[t] EXCEPT !.targets = s, !.todo = s] \in Job
    BY <1>0, <2>1, JobType
  <2>3. [runs[job[t].run] EXCEPT !.targets = s] \in RunRow
    <3>1. runs[job[t].run] \in RunRow
      BY <1>7 DEF SelectAccounts
    <3>2. \A old \in RunRow : [old EXCEPT !.targets = s] \in RunRow
      BY <2>1 DEF RunRow
    <3> QED BY <3>1, <3>2
  <2> HIDE DEF s
  <2> QED BY <1>7, <2>2, <2>3 DEF SelectAccounts, s
<1>8. ASSUME NEW a \in Accounts, BeginAccount(t, a)
      PROVE  Typed'
  <2>1. [job[t] EXCEPT !.todo = @ \ {a}, !.acct = a, !.grant = stored[job[t].conn]]
        \in Job
    BY <1>8, <1>0, JobType, JobFields DEF BeginAccount
  <2> QED BY <1>8, <2>1 DEF BeginAccount
<1>9. CASE TokenStillFresh(t)
  BY <1>9 DEF TokenStillFresh
<1>10. CASE TokenRefreshed(t)
  BY <1>10 DEF TokenRefreshed
<1>11. CASE PersistTokens(t)
  BY <1>11, <1>0, JobFields DEF PersistTokens
<1>12. CASE TokenRejected(t)
  <2>1. [job[t] EXCEPT !.fault = "reauth"] \in Job
    BY <1>0, JobType DEF Faults
  <2> QED BY <1>12, <2>1 DEF TokenRejected, ConnectionStatus
<1>13. CASE FetchUnauthorized(t)
  <2>1. [job[t] EXCEPT !.fault = "reauth"] \in Job
    BY <1>0, JobType DEF Faults
  <2> QED BY <1>13, <2>1 DEF FetchUnauthorized
<1>14. ASSUME NEW f \in BankFaults, AccountFails(t, f)
       PROVE  Typed'
  <2>1. [job[t] EXCEPT !.fault = f] \in Job
    BY <1>0, JobType DEF Faults
  <2> QED BY <1>14, <2>1 DEF AccountFails
<1>15. CASE AccountSynced(t)
  <2>0. pc[t] = "fetch" /\ job[t].acct \in Accounts
    BY <1>15 DEF AccountSynced
  <2>1. [job[t] EXCEPT !.done = @ \cup {job[t].acct}, !.acct = None] \in Job
    <3>1. job[t].done \cup {job[t].acct} \in SUBSET Accounts
      BY <1>0, <2>0, JobFields
    <3> QED BY <1>0, <3>1, JobType
  <2>2. job' \in [Tasks -> Job]
    BY <1>15, <2>1 DEF AccountSynced
  <2>3. cursor' \in [Accounts -> RunIds \cup {None}]
    BY <1>15 DEF AccountSynced
  <2>4. \A u \in Tasks : /\ job'[u].conn = job[u].conn
                         /\ job'[u].run = job[u].run
                         /\ pc'[u] = (IF u = t THEN "loop" ELSE pc[u])
                         /\ u # t => job'[u] = job[u]
    BY <1>15 DEF AccountSynced, Job
  <2>5. Shape'
    BY <2>0, <2>4 DEF Shape
  <2> QED BY <1>15, <2>2, <2>3, <2>4, <2>5 DEF AccountSynced
<1>16. CASE RecordError(t)
  <2> DEFINE type == ClassifyError(job[t].fault)
             auth == type = "AUTHORIZATION_EXPIRED"
  <2>1. type \in SyncErrorType /\ auth \in BOOLEAN
    BY DEF ClassifyError, SyncErrorType, BankErrorTypes
  <2>2. [job[t] EXCEPT !.failed = @ \cup {job[t].acct}, !.acct = None,
                       !.fault = None, !.sawReauth = auth] \in Job
    <3>1. job[t].failed \cup {job[t].acct} \in SUBSET Accounts
      BY <1>16, <1>0, JobFields DEF RecordError
    <3> HIDE DEF auth
    <3> QED BY <1>0, <2>1, <3>1, JobType
  <2>3. /\ syncErrors' = syncErrors \cup {<<job[t].run, job[t].acct, type>>}
        /\ job' = [job EXCEPT ![t].failed = @ \cup {job[t].acct}, ![t].acct = None,
                              ![t].fault = None, ![t].sawReauth = auth]
        /\ pc[t] = "record" /\ pc' = [pc EXCEPT ![t] = IF auth THEN "flip" ELSE "loop"]
        /\ UNCHANGED <<status, stored, lastSync, cursor, runs, consents, running, passes>>
    BY <1>16 DEF RecordError
  <2> HIDE DEF type, auth
  <2> QED BY <2>1, <2>2, <2>3
<1>17. CASE MarkReauth(t)
  BY <1>17 DEF MarkReauth, ConnectionStatus
<1>18. CASE LeaveLoop(t)
  BY <1>18 DEF LeaveLoop, LoopOver
<1>19. CASE ExportSucceeds(t)
  BY <1>19 DEF ExportSucceeds
<1>20. CASE ExportFails(t)
  BY <1>20 DEF ExportFails, SyncErrorType
<1>21. CASE FinishRun(t)
  <2> DEFINE row == [runs[job[t].run] EXCEPT !.status = Verdict(t),
                                         !.processed = job[t].done]
  <2>0. Verdict(t) \in Verdicts
    BY DEF Verdict, Verdicts
  <2>1. row \in RunRow
    <3>1. runs[job[t].run] \in RunRow /\ job[t].done \in SUBSET Accounts
      BY <1>21, <1>0, JobFields DEF FinishRun
    <3>2. \A v \in Verdicts : \A s \in SUBSET Accounts : \A old \in RunRow :
            [old EXCEPT !.status = v, !.processed = s] \in RunRow
      BY DEF RunRow
    <3> QED BY <2>0, <3>1, <3>2
  <2>2. runs' \in [RunIds -> RunRow]
    BY <1>21, <2>1 DEF FinishRun
  <2>3. CASE Verdict(t) = "SUCCESS"
    BY <1>21, <2>2, <2>3 DEF FinishRun
  <2>4. CASE Verdict(t) # "SUCCESS"
    BY <1>21, <2>2, <2>4, ExitTyped DEF FinishRun
  <2> QED BY <2>3, <2>4
<1>22. CASE TouchConnection(t)
  BY <1>22, ExitTyped DEF TouchConnection
<1>23. CASE DatabaseFails(t)
  BY <1>23, ExitTyped DEF DatabaseFails
<1> QED
  BY <1>1, <1>2, <1>3, <1>4, <1>5, <1>6, <1>7, <1>8, <1>9, <1>10, <1>11, <1>12,
     <1>13, <1>14, <1>15, <1>16, <1>17, <1>18, <1>19, <1>20, <1>21, <1>22, <1>23
  DEF Step

LEMMA EnvironmentTyped ==
  ASSUME Typed, Environment
  PROVE  Typed'
<1> USE DEF Typed, TypeOK, Shape, Locked, PcValues, database, consents, memory
<1>1. ASSUME NEW c \in Connections, Reauthorize(c)
      PROVE  Typed'
  BY <1>1 DEF Reauthorize, ConnectionStatus
<1>2. ASSUME NEW c \in Connections, DisableConnection(c)
      PROVE  Typed'
  BY <1>2 DEF DisableConnection, ConnectionStatus
<1>3. ASSUME NEW c \in Connections, NEW g \in honoured[c], RevokeConsent(c, g)
      PROVE  Typed'
  BY <1>3 DEF RevokeConsent
<1>4. CASE Crash
  BY <1>4, IdleJobType DEF Crash
<1>5. ASSUME NEW c \in Connections, EndDiscovery(c)
      PROVE  Typed'
  BY <1>5 DEF EndDiscovery
<1> QED BY <1>1, <1>2, <1>3, <1>4, <1>5 DEF Environment

LEMMA TypedInvariant == Spec => []Typed
<1>1. Typed /\ [Next]_vars => Typed'
  <2>1. Typed /\ UNCHANGED vars => Typed'
    BY DEF Typed, TypeOK, Shape, vars, database, consents, memory
  <2> QED BY <2>1, StartTyped, StepTyped, EnvironmentTyped DEF Next
<1> QED BY InitTyped, <1>1, PTL DEF Spec

\* Every row and every local variable keeps a value of its column or type,
\* whatever the interleaving of tasks, callbacks and crashes.
THEOREM TypeCorrect == Spec => []TypeOK
<1>1. Typed => TypeOK
  BY DEF Typed
<1> QED BY <1>1, TypedInvariant, PTL

-----------------------------------------------------------------------------
(***************************************************************************)
(* The locks.  A step of a task enters runSync, leaves it, or does neither *)
(* and then touches neither the lock set nor the connection it holds.      *)
(***************************************************************************)
Locks == OneSyncPerConnection /\ NoLeakedLock

\* The other tasks keep their program counters and their local variables.
OthersKeep(t) == \A u \in Tasks \ {t} : pc'[u] = pc[u] /\ job'[u] = job[u]

LEMMA Entering ==
  ASSUME Locks, NEW t \in Tasks, NEW c \in Connections, OthersKeep(t),
         pc[t] \notin Locked, pc'[t] \in Locked, job'[t].conn = c,
         c \notin running, running' = running \cup {c}
  PROVE  Locks'
<1>1. \A u \in Tasks \ {t} : pc[u] \in Locked => job[u].conn # c
  BY DEF Locks, NoLeakedLock
<1>2. OneSyncPerConnection'
  BY <1>1 DEF Locks, OneSyncPerConnection, OthersKeep
<1>3. NoLeakedLock'
  BY DEF Locks, NoLeakedLock, OthersKeep
<1> QED BY <1>2, <1>3 DEF Locks

LEMMA Leaving ==
  ASSUME Locks, NEW t \in Tasks, OthersKeep(t),
         pc[t] \in Locked, pc'[t] \notin Locked,
         running' = running \ {job[t].conn}
  PROVE  Locks'
<1>1. \A u \in Tasks \ {t} : pc[u] \in Locked => job[u].conn # job[t].conn
  BY DEF Locks, OneSyncPerConnection
<1>2. OneSyncPerConnection'
  BY DEF Locks, OneSyncPerConnection, OthersKeep
<1>3. NoLeakedLock'
  BY <1>1 DEF Locks, NoLeakedLock, OthersKeep
<1> QED BY <1>2, <1>3 DEF Locks

LEMMA Staying ==
  ASSUME Locks, NEW t \in Tasks, OthersKeep(t), running' = running,
         \/ pc[t] \in Locked /\ pc'[t] \in Locked /\ job'[t].conn = job[t].conn
         \/ pc[t] \notin Locked /\ pc'[t] \notin Locked
  PROVE  Locks'
<1>1. OneSyncPerConnection'
  BY DEF Locks, OneSyncPerConnection, OthersKeep
<1>2. NoLeakedLock'
  BY DEF Locks, NoLeakedLock, OthersKeep
<1> QED BY <1>1, <1>2 DEF Locks

LEMMA InitLocks == Init => Locks
  BY DEF Init, Locks, OneSyncPerConnection, NoLeakedLock, Locked, PcValues

LEMMA StartLocks ==
  ASSUME Typed, Locks, NEW t \in Tasks, Start(t)
  PROVE  Locks'
<1>1. OthersKeep(t) /\ running' = running /\ pc[t] \notin Locked /\ pc'[t] \notin Locked
  BY DEF Start, StartSyncAll, StartSyncAccount, Typed, TypeOK, OthersKeep, Locked
<1> QED BY <1>1, Staying

LEMMA StepLocks ==
  ASSUME Typed, Locks, NEW t \in Tasks, Step(t)
  PROVE  Locks'
<1> USE DEF Typed, TypeOK, OthersKeep, Locked, PcValues, database, consents, memory
<1>1. ASSUME NEW c \in Connections, Acquire(t, c)
      PROVE  Locks'
  <2>1. pc[t] \notin Locked /\ pc'[t] \in Locked
    BY <1>1 DEF Acquire
  <2>2. job'[t].conn = c /\ running' = running \cup {c} /\ c \notin running
    BY <1>1 DEF Acquire, Job
  <2> QED BY <1>1, <2>1, <2>2, Entering DEF Acquire
<1>2. ASSUME NEW c \in Connections, RejectBusy(t, c)
      PROVE  Locks'
  BY <1>2, Staying DEF RejectBusy
<1>3. CASE EndPass(t)
  BY <1>3, Staying DEF EndPass
<1>4. CASE LoadActive(t)
  BY <1>4, Staying DEF LoadActive
<1>5. CASE LoadInactive(t)
  BY <1>5, ExitTyped, Leaving DEF LoadInactive, ThrowOut, ReturnFromRun
<1>6. CASE CreateRun(t)
  <2> DEFINE r == CHOOSE u \in UnusedRuns : TRUE
  <2>1. /\ job' = [job EXCEPT ![t].run = r] /\ running' = running
        /\ pc[t] = "create" /\ pc' = [pc EXCEPT ![t] = "select"]
    BY <1>6 DEF CreateRun
  <2> HIDE DEF r
  <2> QED BY <2>1, Staying DEF Job
<1>7. CASE SelectAccounts(t)
  <2>1. job'[t].conn = job[t].conn /\ OthersKeep(t)
    BY <1>7 DEF SelectAccounts, Job
  <2> QED BY <1>7, <2>1, Staying DEF SelectAccounts
<1>8. ASSUME NEW a \in Accounts, BeginAccount(t, a)
      PROVE  Locks'
  <2>1. job'[t].conn = job[t].conn /\ OthersKeep(t)
    BY <1>8 DEF BeginAccount, Job
  <2> QED BY <1>8, <2>1, Staying DEF BeginAccount
<1>9. CASE TokenStillFresh(t)
  BY <1>9, Staying DEF TokenStillFresh
<1>10. CASE TokenRefreshed(t)
  BY <1>10, Staying DEF TokenRefreshed
<1>11. CASE PersistTokens(t)
  BY <1>11, Staying DEF PersistTokens
<1>12. CASE TokenRejected(t)
  <2>1. job'[t].conn = job[t].conn /\ OthersKeep(t)
    BY <1>12 DEF TokenRejected, Job
  <2> QED BY <1>12, <2>1, Staying DEF TokenRejected
<1>13. CASE FetchUnauthorized(t)
  <2>1. job'[t].conn = job[t].conn /\ OthersKeep(t)
    BY <1>13 DEF FetchUnauthorized, Job
  <2> QED BY <1>13, <2>1, Staying DEF FetchUnauthorized
<1>14. ASSUME NEW f \in BankFaults, AccountFails(t, f)
       PROVE  Locks'
  <2>1. job'[t].conn = job[t].conn /\ OthersKeep(t)
    BY <1>14 DEF AccountFails, Job
  <2> QED BY <1>14, <2>1, Staying DEF AccountFails
<1>15. CASE AccountSynced(t)
  <2>1. job'[t].conn = job[t].conn /\ OthersKeep(t)
    BY <1>15 DEF AccountSynced, Job
  <2> QED BY <1>15, <2>1, Staying DEF AccountSynced
<1>16. CASE RecordError(t)
  <2>1. job'[t].conn = job[t].conn /\ OthersKeep(t)
    BY <1>16 DEF RecordError, Job
  <2> QED BY <1>16, <2>1, Staying DEF RecordError
<1>17. CASE MarkReauth(t)
  BY <1>17, Staying DEF MarkReauth
<1>18. CASE LeaveLoop(t)
  BY <1>18, Staying DEF LeaveLoop, LoopOver
<1>19. CASE ExportSucceeds(t)
  BY <1>19, Staying DEF ExportSucceeds
<1>20. CASE ExportFails(t)
  BY <1>20, Staying DEF ExportFails
<1>21. CASE FinishRun(t)
  <2>1. CASE Verdict(t) = "SUCCESS"
    BY <1>21, <2>1, Staying DEF FinishRun
  <2>2. CASE Verdict(t) # "SUCCESS"
    BY <1>21, <2>2, ExitTyped, Leaving DEF FinishRun, ReturnFromRun
  <2> QED BY <2>1, <2>2
<1>22. CASE TouchConnection(t)
  BY <1>22, ExitTyped, Leaving DEF TouchConnection, ThrowOut, ReturnFromRun
<1>23. CASE DatabaseFails(t)
  BY <1>23, ExitTyped, Leaving DEF DatabaseFails, ThrowOut, ReturnFromRun
<1> QED
  BY <1>1, <1>2, <1>3, <1>4, <1>5, <1>6, <1>7, <1>8, <1>9, <1>10, <1>11, <1>12,
     <1>13, <1>14, <1>15, <1>16, <1>17, <1>18, <1>19, <1>20, <1>21, <1>22, <1>23
  DEF Step

LEMMA EnvironmentLocks ==
  ASSUME Typed, Locks, Environment
  PROVE  Locks'
<1>1. CASE UNCHANGED memory
  BY <1>1 DEF Locks, OneSyncPerConnection, NoLeakedLock, memory
<1>2. CASE Crash
  BY <1>2 DEF Crash, Locks, OneSyncPerConnection, NoLeakedLock, Locked, PcValues
<1> QED
  BY <1>1, <1>2 DEF Environment, Reauthorize, EndDiscovery, DisableConnection,
                   RevokeConsent

LEMMA LocksInvariant == Spec => []Locks
<1>1. Typed /\ Locks /\ [Next]_vars => Locks'
  <2>1. Locks /\ UNCHANGED vars => Locks'
    BY DEF Locks, OneSyncPerConnection, NoLeakedLock, vars, memory
  <2> QED BY <2>1, StartLocks, StepLocks, EnvironmentLocks DEF Next
<1> QED BY InitLocks, <1>1, TypedInvariant, PTL DEF Spec

\* The per-connection lock of section 36 of the product spec: two syncs never
\* work on one connection at the same time.
THEOREM MutualExclusion == Spec => []OneSyncPerConnection
<1>1. Locks => OneSyncPerConnection
  BY DEF Locks
<1> QED BY <1>1, LocksInvariant, PTL

\* No exit of runSync leaves a lock behind or drops another task's lock.
THEOREM LocksAreExact == Spec => []NoLeakedLock
<1>1. Locks => NoLeakedLock
  BY DEF Locks
<1> QED BY <1>1, LocksInvariant, PTL

-----------------------------------------------------------------------------
(***************************************************************************)
(* The run rows.  A task that works on a run owns its row: the row is      *)
(* RUNNING and names the connection whose lock the task holds, so by the   *)
(* locks no other task works on it.                                        *)
(***************************************************************************)
Owned ==
  \A t \in Tasks :
    /\ pc[t] \in InRun => /\ runs[job[t].run].status = "RUNNING"
                          /\ runs[job[t].run].conn = job[t].conn
    /\ pc[t] = "touch" => /\ runs[job[t].run].status = "SUCCESS"
                          /\ runs[job[t].run].conn = job[t].conn

\* What a step may do to the run log.
LogStep == Log!Next \/ UNCHANGED <<LogRows, OpenRuns>>

LEMMA DistinctRuns ==
  ASSUME Locks, Owned, NEW t \in Tasks, NEW u \in Tasks, t # u,
         pc[t] \in InRun, pc[u] \in InRun \cup {"touch"}
  PROVE  job[t].run # job[u].run
  BY DEF Locks, OneSyncPerConnection, Owned, InRun, Locked, PcValues

\* A step that leaves the rows alone and does not end the work on a run.
LEMMA RunsKept ==
  ASSUME Typed, Owned, NEW t \in Tasks, OthersKeep(t), runs' = runs,
         \/ /\ pc[t] \in InRun /\ pc'[t] \in InRun
            /\ job'[t].run = job[t].run /\ job'[t].conn = job[t].conn
         \/ pc[t] \notin InRun /\ pc'[t] \notin InRun \cup {"touch"}
  PROVE  Owned' /\ LogStep
<1>1. Owned'
  BY DEF Owned, OthersKeep, InRun, Locked, PcValues
<1>2. LogRows' = LogRows
  BY DEF LogRows
<1>3. OpenRuns' = OpenRuns
  BY DEF OpenRuns, OthersKeep
<1> QED BY <1>1, <1>2, <1>3 DEF LogStep

\* A step that gives a run up.
LEMMA RunLost ==
  ASSUME Typed, Locks, Owned, NEW t \in Tasks, OthersKeep(t), runs' = runs,
         pc[t] \in InRun, pc'[t] \notin InRun \cup {"touch"}
  PROVE  Owned' /\ LogStep
<1>1. Owned'
  BY DEF Owned, OthersKeep
<1>2. LogRows' = LogRows
  BY DEF LogRows
<1>3. \A u \in Tasks \ {t} : pc[u] \in InRun => job[u].run # job[t].run
  BY DistinctRuns
<1>4. OpenRuns' = OpenRuns \ {job[t].run}
  BY <1>3 DEF OpenRuns, OthersKeep
<1>5. {job[t].run} \in SUBSET OpenRuns
  BY DEF OpenRuns
<1>6. Log!Lose({job[t].run})
  BY <1>2, <1>4 DEF Log!Lose
<1> QED BY <1>1, <1>5, <1>6 DEF LogStep, Log!Next

LEMMA InitRuns == Init => Owned /\ LastSyncTruthful /\ Log!Init
<1> SUFFICES ASSUME Init PROVE Owned /\ LastSyncTruthful /\ Log!Init
  OBVIOUS
<1>1. Owned /\ LastSyncTruthful
  BY DEF Init, Owned, LastSyncTruthful, InRun, Locked, PcValues
<1>2. LogRows = [r \in RunIds |-> [conn |-> None, status |-> "NONE"]]
  BY DEF Init, LogRows, NoRow
<1>3. OpenRuns = {}
  BY DEF Init, OpenRuns, InRun, Locked, PcValues
<1> QED BY <1>1, <1>2, <1>3 DEF Log!Init, Log!NoRun

LEMMA StartRuns ==
  ASSUME Typed, Owned, NEW t \in Tasks, Start(t)
  PROVE  Owned' /\ LogStep
<1>1. OthersKeep(t) /\ runs' = runs
  BY DEF Start, StartSyncAll, StartSyncAccount, Typed, TypeOK, OthersKeep, database
<1>2. pc[t] \notin InRun /\ pc'[t] \notin InRun \cup {"touch"}
  BY DEF Start, StartSyncAll, StartSyncAccount, Typed, TypeOK, InRun, Locked, PcValues
<1> QED BY <1>1, <1>2, RunsKept

LEMMA StepRuns ==
  ASSUME Typed, Locks, Owned, NEW t \in Tasks, Step(t)
  PROVE  Owned' /\ LogStep
<1> USE DEF Typed, TypeOK, Shape, OthersKeep, InRun, Locked, PcValues, database, consents, memory
<1>1. ASSUME NEW c \in Connections, Acquire(t, c)
      PROVE  Owned' /\ LogStep
  <2>1. pc[t] \notin InRun /\ pc'[t] \notin InRun \cup {"touch"}
    BY <1>1 DEF Acquire
  <2> QED BY <1>1, <2>1, RunsKept DEF Acquire
<1>2. ASSUME NEW c \in Connections, RejectBusy(t, c)
      PROVE  Owned' /\ LogStep
  BY <1>2, RunsKept DEF RejectBusy
<1>3. CASE EndPass(t)
  BY <1>3, RunsKept DEF EndPass
<1>4. CASE LoadActive(t)
  BY <1>4, RunsKept DEF LoadActive
<1>5. CASE LoadInactive(t)
  <2>1. pc[t] \notin InRun /\ pc'[t] \notin InRun \cup {"touch"}
    BY <1>5 DEF LoadInactive, ThrowOut
  <2> QED BY <1>5, <2>1, ExitTyped, RunsKept DEF LoadInactive
<1>6. CASE CreateRun(t)
  <2> DEFINE r == CHOOSE u \in UnusedRuns : TRUE
             c == job[t].conn
             row == [NoRow EXCEPT !.conn = c, !.status = "RUNNING"]
  <2>1. r \in RunIds /\ runs[r].status = "NONE" /\ c \in Connections
    BY <1>6 DEF CreateRun, UnusedRuns
  <2>2. row.conn = c /\ row.status = "RUNNING"
    BY DEF NoRow
  <2>3. /\ runs' = [runs EXCEPT ![r] = row]
        /\ job' = [job EXCEPT ![t].run = r]
        /\ pc[t] = "create" /\ pc' = [pc EXCEPT ![t] = "select"]
    BY <1>6 DEF CreateRun
  <2> HIDE DEF r, row, c
  <2>4. job'[t].run = r /\ job'[t].conn = job[t].conn /\ OthersKeep(t)
    BY <2>1, <2>3 DEF Job
  <2>5. \A u \in Tasks : pc[u] \in InRun \cup {"touch"} => job[u].run # r
    BY <2>1 DEF Owned
  <2>6. Owned'
    BY <2>1, <2>2, <2>3, <2>4, <2>5 DEF Owned, c
  <2>7. LogRows' = [LogRows EXCEPT ![r] = [conn |-> c, status |-> "RUNNING"]]
    BY <2>1, <2>2, <2>3 DEF LogRows
  <2>8. OpenRuns' = OpenRuns \cup {r}
    BY <2>3, <2>4 DEF OpenRuns
  <2>9. \A q \in OpenRuns : LogRows[q].conn # c
    <3> SUFFICES ASSUME NEW u \in Tasks, pc[u] \in InRun
                 PROVE  LogRows[job[u].run].conn # c
      BY DEF OpenRuns
    <3>1. job[u].conn # c
      BY <2>3 DEF Locks, OneSyncPerConnection, c
    <3> QED BY <3>1 DEF Owned, LogRows
  <2>10. LogRows[r].status = "NONE"
    BY <2>1 DEF LogRows
  <2>11. Log!Open(r, c)
    BY <2>7, <2>8, <2>9, <2>10 DEF Log!Open
  <2> QED BY <2>1, <2>6, <2>11 DEF LogStep, Log!Next
<1>7. CASE SelectAccounts(t)
  <2> DEFINE s == SelectedAccounts(t)
  <2>1. /\ runs' = [runs EXCEPT ![job[t].run].targets = s]
        /\ job' = [job EXCEPT ![t].targets = s, ![t].todo = s]
        /\ pc[t] = "select" /\ pc' = [pc EXCEPT ![t] = "loop"]
    BY <1>7 DEF SelectAccounts
  <2> HIDE DEF s
  <2>2. \A r \in RunIds : runs'[r].status = runs[r].status /\ runs'[r].conn = runs[r].conn
    BY <2>1 DEF RunRow
  <2>3. job'[t].run = job[t].run /\ job'[t].conn = job[t].conn /\ OthersKeep(t)
    BY <2>1 DEF Job
  <2>4. Owned'
    BY <2>1, <2>2, <2>3 DEF Owned
  <2>5. LogRows' = LogRows
    BY <2>2 DEF LogRows
  <2>6. OpenRuns' = OpenRuns
    BY <2>1, <2>3 DEF OpenRuns
  <2> QED BY <2>4, <2>5, <2>6 DEF LogStep
<1>8. ASSUME NEW a \in Accounts, BeginAccount(t, a)
      PROVE  Owned' /\ LogStep
  <2>1. /\ job'[t].run = job[t].run /\ job'[t].conn = job[t].conn
        /\ OthersKeep(t)
    BY <1>8 DEF BeginAccount, Job
  <2>2. pc[t] \in InRun /\ pc'[t] \in InRun /\ runs' = runs
    BY <1>8 DEF BeginAccount
  <2> QED BY <2>1, <2>2, RunsKept
<1>9. CASE TokenStillFresh(t)
  BY <1>9, RunsKept DEF TokenStillFresh
<1>10. CASE TokenRefreshed(t)
  BY <1>10, RunsKept DEF TokenRefreshed
<1>11. CASE PersistTokens(t)
  BY <1>11, RunsKept DEF PersistTokens
<1>12. CASE TokenRejected(t)
  <2>1. /\ job'[t].run = job[t].run /\ job'[t].conn = job[t].conn
        /\ OthersKeep(t)
    BY <1>12 DEF TokenRejected, Job
  <2>2. pc[t] \in InRun /\ pc'[t] \in InRun /\ runs' = runs
    BY <1>12 DEF TokenRejected
  <2> QED BY <2>1, <2>2, RunsKept
<1>13. CASE FetchUnauthorized(t)
  <2>1. /\ job'[t].run = job[t].run /\ job'[t].conn = job[t].conn
        /\ OthersKeep(t)
    BY <1>13 DEF FetchUnauthorized, Job
  <2>2. pc[t] \in InRun /\ pc'[t] \in InRun /\ runs' = runs
    BY <1>13 DEF FetchUnauthorized
  <2> QED BY <2>1, <2>2, RunsKept
<1>14. ASSUME NEW f \in BankFaults, AccountFails(t, f)
       PROVE  Owned' /\ LogStep
  <2>1. /\ job'[t].run = job[t].run /\ job'[t].conn = job[t].conn
        /\ OthersKeep(t)
    BY <1>14 DEF AccountFails, Job
  <2>2. pc[t] \in InRun /\ pc'[t] \in InRun /\ runs' = runs
    BY <1>14 DEF AccountFails
  <2> QED BY <2>1, <2>2, RunsKept
<1>15. CASE AccountSynced(t)
  <2>1. /\ job'[t].run = job[t].run /\ job'[t].conn = job[t].conn
        /\ OthersKeep(t)
    BY <1>15 DEF AccountSynced, Job
  <2>2. pc[t] \in InRun /\ pc'[t] \in InRun /\ runs' = runs
    BY <1>15 DEF AccountSynced
  <2> QED BY <2>1, <2>2, RunsKept
<1>16. CASE RecordError(t)
  <2>1. /\ job'[t].run = job[t].run /\ job'[t].conn = job[t].conn
        /\ OthersKeep(t)
    BY <1>16 DEF RecordError, Job
  <2>2. pc[t] \in InRun /\ pc'[t] \in InRun /\ runs' = runs
    BY <1>16 DEF RecordError
  <2> QED BY <2>1, <2>2, RunsKept
<1>17. CASE MarkReauth(t)
  BY <1>17, RunsKept DEF MarkReauth
<1>18. CASE LeaveLoop(t)
  BY <1>18, RunsKept DEF LeaveLoop, LoopOver
<1>19. CASE ExportSucceeds(t)
  BY <1>19, RunsKept DEF ExportSucceeds
<1>20. CASE ExportFails(t)
  BY <1>20, RunsKept DEF ExportFails
<1>21. CASE FinishRun(t)
  <2> DEFINE r == job[t].run
             v == Verdict(t)
  <2>1. v \in Log!Verdicts
    BY DEF Verdict, Log!Verdicts
  <2>2. r \in RunIds /\ pc[t] \in InRun /\ runs[r].status = "RUNNING"
        /\ runs[r].conn = job[t].conn
    BY <1>21 DEF FinishRun, Owned
  <2>3. runs' = [runs EXCEPT ![r].status = v, ![r].processed = job[t].done]
    BY <1>21 DEF FinishRun
  <2>4. /\ OthersKeep(t)
        /\ pc'[t] \notin InRun
        /\ pc'[t] = "touch" => v = "SUCCESS" /\ job'[t] = job[t]
    <3>1. CASE Verdict(t) = "SUCCESS"
      BY <1>21, <3>1 DEF FinishRun
    <3>2. CASE Verdict(t) # "SUCCESS"
      BY <1>21, <3>2, ExitTyped DEF FinishRun, ReturnFromRun
    <3> QED BY <3>1, <3>2
  <2> HIDE DEF v
  <2>5. \A u \in Tasks \ {t} : pc[u] \in InRun \cup {"touch"} => job[u].run # r
    BY <2>2, DistinctRuns
  <2>6. /\ runs'[r].status = v /\ runs'[r].conn = runs[r].conn
        /\ \A q \in RunIds \ {r} : runs'[q] = runs[q]
    BY <2>2, <2>3 DEF RunRow
  <2>7. Owned'
    BY <2>2, <2>4, <2>5, <2>6 DEF Owned
  <2>8. LogRows' = [LogRows EXCEPT ![r].status = v]
    BY <2>2, <2>6 DEF LogRows
  <2>9. OpenRuns' = OpenRuns \ {r} /\ r \in OpenRuns
    BY <2>2, <2>4, <2>5 DEF OpenRuns
  <2>10. Log!Close(r, v)
    BY <2>8, <2>9 DEF Log!Close
  <2> QED BY <2>1, <2>7, <2>9, <2>10 DEF LogStep, Log!Next
<1>22. CASE TouchConnection(t)
  <2>1. pc[t] \notin InRun /\ pc'[t] \notin InRun \cup {"touch"}
    BY <1>22 DEF TouchConnection, ReturnFromRun
  <2> QED BY <1>22, <2>1, ExitTyped, RunsKept DEF TouchConnection
<1>23. CASE DatabaseFails(t)
  <2>1. pc'[t] \notin InRun \cup {"touch"}
    BY <1>23 DEF DatabaseFails, ThrowOut
  <2>2. CASE pc[t] \in InRun
    BY <1>23, <2>1, <2>2, ExitTyped, RunLost DEF DatabaseFails
  <2>3. CASE pc[t] \notin InRun
    BY <1>23, <2>1, <2>3, ExitTyped, RunsKept DEF DatabaseFails
  <2> QED BY <2>2, <2>3
<1> QED
  BY <1>1, <1>2, <1>3, <1>4, <1>5, <1>6, <1>7, <1>8, <1>9, <1>10, <1>11, <1>12,
     <1>13, <1>14, <1>15, <1>16, <1>17, <1>18, <1>19, <1>20, <1>21, <1>22, <1>23
  DEF Step

LEMMA EnvironmentRuns ==
  ASSUME Typed, Owned, Environment
  PROVE  Owned' /\ LogStep
<1>1. CASE UNCHANGED <<memory, runs>>
  BY <1>1 DEF Owned, LogStep, LogRows, OpenRuns, memory
<1>2. CASE Crash
  <2>1. runs' = runs /\ \A t \in Tasks : pc'[t] = "idle"
    BY <1>2 DEF Crash, database
  <2>2. Owned'
    BY <2>1 DEF Owned, InRun, Locked, PcValues
  <2>3. LogRows' = LogRows
    BY <2>1 DEF LogRows
  <2>4. OpenRuns' = OpenRuns \ OpenRuns
    BY <2>1 DEF OpenRuns, InRun, Locked, PcValues
  <2>5. Log!Lose(OpenRuns)
    BY <2>3, <2>4 DEF Log!Lose
  <2> QED BY <2>2, <2>5 DEF LogStep, Log!Next
<1> QED
  BY <1>1, <1>2 DEF Environment, Reauthorize, EndDiscovery, DisableConnection,
                   RevokeConsent, database

LEMMA RunStep ==
  ASSUME Typed, Locks, Owned, [Next]_vars
  PROVE  Owned' /\ LogStep
<1>1. CASE UNCHANGED vars
  BY <1>1 DEF Owned, LogStep, LogRows, OpenRuns, vars, memory, database
<1> QED BY <1>1, StartRuns, StepRuns, EnvironmentRuns DEF Next

LEMMA OwnedInvariant == Spec => [](Typed /\ Locks /\ Owned) /\ Log!Spec
<1>1. Typed /\ Locks /\ Owned /\ [Next]_vars => Owned' /\ LogStep
  BY RunStep
<1>2. LogStep => [Log!Next]_<<LogRows, OpenRuns>>
  BY DEF LogStep
<1>3. Init => Owned /\ Log!Init
  BY InitRuns
<1> QED BY <1>1, <1>2, <1>3, TypedInvariant, LocksInvariant, PTL DEF Spec, Log!Spec

\* The engine implements RunLog: at most one run in progress per connection,
\* and every verdict is given once, to a run in progress, and never changed.
THEOREM ImplementsRunLog == Spec => KeepsRunLog
  BY OwnedInvariant, PTL DEF KeepsRunLog

-----------------------------------------------------------------------------
(***************************************************************************)
(* lastSuccessfulSync of a connection: by RunLog a SUCCESS stays one, so   *)
(* only the steps that write the column are left to look at.               *)
(***************************************************************************)
LEMMA SuccessKept ==
  ASSUME Typed, Owned, LogStep,
         NEW r \in RunIds, runs[r].status = "SUCCESS"
  PROVE  runs'[r].status = "SUCCESS" /\ runs'[r].conn = runs[r].conn
<1>1. LogRows[r] = [conn |-> runs[r].conn, status |-> "SUCCESS"]
  BY DEF LogRows
<1>2. r \notin OpenRuns
  BY DEF OpenRuns, Owned
<1>3. LogRows'[r] = LogRows[r]
  BY <1>1, <1>2 DEF LogStep, Log!Next, Log!Open, Log!Close, Log!Lose, LogRows
<1>4. LogRows'[r] = [conn |-> runs'[r].conn, status |-> runs'[r].status]
  BY DEF LogRows
<1> QED BY <1>1, <1>3, <1>4

LEMMA LastSyncWritten ==
  ASSUME Typed, Owned, [Next]_vars, NEW c \in Connections, lastSync'[c] # lastSync[c]
  PROVE  \/ lastSync'[c] = None
         \/ \E t \in Tasks : /\ pc[t] = "touch" /\ job[t].conn = c
                             /\ runs' = runs /\ lastSync'[c] = job[t].run
<1> USE DEF database
<1>1. CASE \E d \in Connections : EndDiscovery(d)
  BY <1>1 DEF EndDiscovery, Typed, TypeOK
<1>2. ASSUME NEW t \in Tasks, TouchConnection(t)
      PROVE  /\ pc[t] = "touch" /\ job[t].conn = c
             /\ runs' = runs /\ lastSync'[c] = job[t].run
  <2>1. pc[t] = "touch" /\ lastSync' = [lastSync EXCEPT ![job[t].conn] = job[t].run]
    BY <1>2 DEF TouchConnection
  <2> QED BY <1>2, <2>1 DEF TouchConnection, Typed, TypeOK
<1>3. ASSUME NEW t \in Tasks, Step(t), ~TouchConnection(t)
      PROVE  lastSync' = lastSync
  BY <1>3 DEF Step, Acquire, RejectBusy, EndPass, LoadActive, LoadInactive, CreateRun,
       SelectAccounts, BeginAccount, TokenStillFresh, TokenRefreshed, PersistTokens,
       TokenRejected, FetchUnauthorized, AccountFails, AccountSynced, RecordError,
       MarkReauth, LeaveLoop, ExportSucceeds, ExportFails, FinishRun, DatabaseFails
<1>4. ASSUME NEW t \in Tasks, Start(t)
      PROVE  lastSync' = lastSync
  BY <1>4 DEF Start, StartSyncAll, StartSyncAccount
<1>5. ASSUME Environment, ~\E d \in Connections : EndDiscovery(d)
      PROVE  lastSync' = lastSync
  BY <1>5 DEF Environment, Reauthorize, DisableConnection, RevokeConsent, Crash
<1> QED BY <1>1, <1>2, <1>3, <1>4, <1>5 DEF Next, vars

\* The last successful sync shown for a connection is a discovery, or a run of
\* this very connection that ended, and for ever counts, as a SUCCESS.
THEOREM LastSyncCorrect == Spec => []LastSyncTruthful
<1>1. ASSUME Typed, Typed', Owned, LogStep, LastSyncTruthful, [Next]_vars
      PROVE  LastSyncTruthful'
  <2> SUFFICES ASSUME NEW c \in Connections, lastSync'[c] # None
               PROVE  runs'[lastSync'[c]].conn = c /\ runs'[lastSync'[c]].status = "SUCCESS"
    BY DEF LastSyncTruthful
  <2>1. CASE lastSync'[c] = lastSync[c]
    <3>1. lastSync[c] \in RunIds /\ runs[lastSync[c]].status = "SUCCESS"
          /\ runs[lastSync[c]].conn = c
      BY <1>1, <2>1 DEF Typed, TypeOK, LastSyncTruthful
    <3> QED BY <1>1, <2>1, <3>1, SuccessKept
  <2>2. CASE lastSync'[c] # lastSync[c]
    <3>1. PICK t \in Tasks : /\ pc[t] = "touch" /\ job[t].conn = c
                             /\ runs' = runs /\ lastSync'[c] = job[t].run
      BY <1>1, <2>2, LastSyncWritten
    <3> QED BY <1>1, <3>1 DEF Owned
  <2> QED BY <2>1, <2>2
<1>2. Typed /\ Locks /\ Owned /\ [Next]_vars => LogStep
  BY RunStep
<1>3. Init => LastSyncTruthful
  BY InitRuns
<1> QED BY <1>1, <1>2, <1>3, OwnedInvariant, TypedInvariant, PTL DEF Spec
=============================================================================
