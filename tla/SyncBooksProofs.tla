--------------------------- MODULE SyncBooksProofs ---------------------------
(***************************************************************************)
(* The bookkeeping of a run of SyncEngine: its error rows, its counts of   *)
(* accounts and its verdict agree, for any accounts, tasks and faults.     *)
(* From them and from the tokens follow what a run says of dead consents   *)
(* and what the cursors of two runs of an account say of each other.       *)
(***************************************************************************)
EXTENDS SyncEngineProofs, FiniteSetTheorems

\* The accounts with an error row of this run, and those of them whose row says
\* that the authorization is gone.
FailedIn(r, errors) ==
  {a \in Accounts : \E type \in BankErrorTypes : <<r, a, type>> \in errors}
DeadIn(r, errors) == {a \in Accounts : <<r, a, "AUTHORIZATION_EXPIRED">> \in errors}

AtAccount == {"token", "persist", "fetch", "record"}

\* The program counters at which the locals of runSync count for a run.
Working == (InRun \ {"select"}) \cup {"touch"}

\* The accounts the loop of a task has still to settle.
Ahead(t) == job[t].todo \cup (IF pc[t] \in AtAccount THEN {job[t].acct} ELSE {})

\* The locals of a task partition the accounts of its run, and its failures are
\* the error rows of the run.
TaskBooks(t) ==
  /\ pc[t] \notin Working =>
       job[t].done = {} /\ job[t].failed = {} /\ job[t].sawReauth = FALSE
  /\ pc[t] = "select" => /\ FailedIn(job[t].run, syncErrors) = {}
                         /\ DeadIn(job[t].run, syncErrors) = {}
  /\ pc[t] \in Working =>
       /\ runs[job[t].run].targets = job[t].targets
       /\ job[t].targets = job[t].done \cup job[t].failed \cup Ahead(t)
       /\ job[t].done \cap (job[t].failed \cup Ahead(t)) = {}
       /\ job[t].failed \cap Ahead(t) = {}
       /\ FailedIn(job[t].run, syncErrors) = job[t].failed
       /\ job[t].sawReauth <=> DeadIn(job[t].run, syncErrors) # {}
  /\ pc[t] \in AtAccount => job[t].acct \notin job[t].todo /\ job[t].sawReauth = FALSE
  /\ pc[t] \in {"export", "finish"} => job[t].sawReauth \/ job[t].todo = {}

\* What a row of sync_runs and the error rows that name it say together.
RowBooks(r) ==
  LET row    == runs[r]
      failed == FailedIn(r, syncErrors)
      dead   == DeadIn(r, syncErrors)
  IN  /\ row.status = "NONE" => failed = {} /\ dead = {}
      /\ \A a, b \in dead : a = b
      /\ row.status \in Verdicts =>
           /\ row.processed \cap failed = {}
           /\ dead = {} => row.targets \subseteq row.processed \cup failed
      /\ row.status = "SUCCESS" => row.processed = row.targets /\ failed = {}
      /\ row.status = "PARTIAL" => row.processed # {} /\ failed # {}
      /\ row.status = "FAILED"  => row.processed = {} /\ failed # {}

Books == (\A t \in Tasks : TaskBooks(t)) /\ (\A r \in RunIds : RowBooks(r))

-----------------------------------------------------------------------------
(* What an insertion into sync_errors changes. *)

\* A failed import has no account and is no failure of the bank.
LEMMA ImportErrors ==
  ASSUME NEW errors, NEW r, NEW new, new = errors \cup {<<r, None, "ACTUAL_ERROR">>}
  PROVE  \A q : /\ FailedIn(q, new) = FailedIn(q, errors)
                /\ DeadIn(q, new) = DeadIn(q, errors)
  BY DEF FailedIn, DeadIn, BankErrorTypes

-----------------------------------------------------------------------------
(* Frames: what is left to show of a step that disturbs little. *)

\* A step that writes neither sync_runs nor sync_errors.
LEMMA QuietBooks ==
  ASSUME Books, NEW t \in Tasks, OthersKeep(t), runs' = runs, syncErrors' = syncErrors,
         TaskBooks(t)'
  PROVE  Books'
<1>1. ASSUME NEW u \in Tasks, u # t
      PROVE  TaskBooks(u)'
  BY <1>1 DEF Books, TaskBooks, Ahead, OthersKeep
<1>2. ASSUME NEW r \in RunIds
      PROVE  RowBooks(r)'
  BY <1>2 DEF Books, RowBooks
<1> QED BY <1>1, <1>2 DEF Books

\* A step that writes the row of run q, or error rows of it, and nothing else,
\* when no other task works on that run.
LEMMA RunBooks ==
  ASSUME Typed, Books, NEW t \in Tasks, OthersKeep(t), NEW q \in RunIds,
         \A r \in RunIds \ {q} : /\ runs'[r] = runs[r]
                                 /\ FailedIn(r, syncErrors') = FailedIn(r, syncErrors)
                                 /\ DeadIn(r, syncErrors') = DeadIn(r, syncErrors),
         \A u \in Tasks \ {t} : pc[u] \in InRun \cup {"touch"} => job[u].run # q,
         TaskBooks(t)', RowBooks(q)'
  PROVE  Books'
<1>1. ASSUME NEW u \in Tasks, u # t
      PROVE  TaskBooks(u)'
  <2>1. pc'[u] = pc[u] /\ job'[u] = job[u] /\ TaskBooks(u)
    BY <1>1 DEF OthersKeep, Books
  <2>2. CASE pc[u] \in InRun \cup {"touch"}
    <3>1. job[u].run \in RunIds \ {q}
      BY <1>1, <2>2 DEF Typed, Shape, InRun, Locked, PcValues
    <3> QED BY <2>1, <3>1 DEF TaskBooks, Ahead
  <2>3. CASE pc[u] \notin InRun \cup {"touch"}
    BY <2>1, <2>3 DEF TaskBooks, Working, AtAccount, InRun, Locked, PcValues
  <2> QED BY <2>2, <2>3
<1>2. ASSUME NEW r \in RunIds, r # q
      PROVE  RowBooks(r)'
  BY <1>2 DEF Books, RowBooks
<1> QED BY <1>1, <1>2 DEF Books

\* Leaving runSync forgets the books of the task.
LEMMA ExitBooks ==
  ASSUME Typed, NEW t \in Tasks, ThrowOut(t) \/ ReturnFromRun(t)
  PROVE  TaskBooks(t)'
<1>1. pc'[t] \in {"idle", "next"}
  BY DEF ThrowOut, ReturnFromRun, Typed, TypeOK
<1>2. job'[t].done = {} /\ job'[t].failed = {} /\ job'[t].sawReauth = FALSE
  <2>1. CASE ThrowOut(t)
    BY <2>1 DEF ThrowOut, IdleJob, Typed, TypeOK
  <2>2. CASE ReturnFromRun(t)
    BY <2>2 DEF ReturnFromRun, IdleJob, Typed, TypeOK
  <2> QED BY <2>1, <2>2
<1> QED
  BY <1>1, <1>2 DEF TaskBooks, Working, AtAccount, InRun, Locked, PcValues

-----------------------------------------------------------------------------
LEMMA InitBooks == Init => Books
<1> SUFFICES ASSUME Init PROVE Books
  OBVIOUS
<1>1. \A r \in RunIds : FailedIn(r, syncErrors) = {} /\ DeadIn(r, syncErrors) = {}
  BY DEF Init, FailedIn, DeadIn
<1>2. \A t \in Tasks : TaskBooks(t)
  BY DEF Init, IdleJob, TaskBooks, Working, AtAccount, InRun, Locked, PcValues
<1>3. \A r \in RunIds : RowBooks(r)
  BY <1>1 DEF Init, RowBooks, NoRow, Verdicts
<1> QED BY <1>2, <1>3 DEF Books

LEMMA StartBooks ==
  ASSUME Typed, Books, NEW t \in Tasks, Start(t)
  PROVE  Books'
<1>1. OthersKeep(t) /\ runs' = runs /\ syncErrors' = syncErrors /\ pc'[t] = "next"
  BY DEF Start, StartSyncAll, StartSyncAccount, Typed, TypeOK, OthersKeep, database
<1>2. job'[t].done = {} /\ job'[t].failed = {} /\ job'[t].sawReauth = FALSE
  BY DEF Start, StartSyncAll, StartSyncAccount, Typed, TypeOK, IdleJob
<1>3. TaskBooks(t)'
  BY <1>1, <1>2 DEF TaskBooks, Working, AtAccount, InRun, Locked, PcValues
<1> QED BY <1>1, <1>3, QuietBooks

LEMMA StepBooks ==
  ASSUME Typed, Locks, Owned, Books, NEW t \in Tasks, Step(t)
  PROVE  Books'
<1> USE DEF OthersKeep, Working, AtAccount, InRun, Locked, PcValues, database
<1>0. /\ job[t] \in Job /\ job \in [Tasks -> Job] /\ pc \in [Tasks -> PcValues]
      /\ TaskBooks(t)
  BY DEF Typed, TypeOK, Books
<1>1. ASSUME NEW c \in Connections, Acquire(t, c)
      PROVE  Books'
  <2>1. TaskBooks(t)'
    BY <1>0, <1>1 DEF Acquire, TaskBooks, Job
  <2> QED BY <1>0, <1>1, <2>1, QuietBooks DEF Acquire
<1>2. ASSUME NEW c \in Connections, RejectBusy(t, c)
      PROVE  Books'
  <2>1. TaskBooks(t)'
    BY <1>0, <1>2 DEF RejectBusy, TaskBooks, IdleJob
  <2> QED BY <1>0, <1>2, <2>1, QuietBooks DEF RejectBusy
<1>3. CASE EndPass(t)
  <2>1. TaskBooks(t)'
    BY <1>0, <1>3 DEF EndPass, TaskBooks, IdleJob
  <2> QED BY <1>0, <1>3, <2>1, QuietBooks DEF EndPass
<1>4. CASE LoadActive(t)
  <2>1. TaskBooks(t)'
    BY <1>0, <1>4 DEF LoadActive, TaskBooks
  <2> QED BY <1>0, <1>4, <2>1, QuietBooks DEF LoadActive
<1>5. CASE LoadInactive(t)
  BY <1>0, <1>5, ExitBooks, ExitTyped, QuietBooks DEF LoadInactive
<1>6. CASE CreateRun(t)
  <2> DEFINE row == [NoRow EXCEPT !.conn = job[t].conn, !.status = "RUNNING"]
  <2>1. PICK r \in UnusedRuns :
          /\ runs' = [runs EXCEPT ![r] = row] /\ syncErrors' = syncErrors
          /\ job' = [job EXCEPT ![t].run = r]
          /\ pc[t] = "create" /\ pc' = [pc EXCEPT ![t] = "select"]
    BY <1>6 DEF CreateRun
  <2>2. row.status = "RUNNING"
    BY DEF NoRow
  <2>3. r \in RunIds /\ runs[r].status = "NONE"
    BY DEF UnusedRuns
  <2> HIDE DEF row
  <2>4. FailedIn(r, syncErrors) = {} /\ DeadIn(r, syncErrors) = {}
    BY <2>3 DEF Books, RowBooks
  <2>5. /\ job'[t].run = r /\ job'[t].done = job[t].done
        /\ job'[t].failed = job[t].failed /\ job'[t].sawReauth = job[t].sawReauth
        /\ OthersKeep(t) /\ pc'[t] = "select"
    BY <1>0, <2>1, <2>3 DEF Job
  <2>6. TaskBooks(t)'
    BY <1>0, <2>1, <2>4, <2>5 DEF TaskBooks
  <2>7. RowBooks(r)'
    BY <2>1, <2>2, <2>3, <2>4 DEF RowBooks, Typed, TypeOK, Verdicts
  <2>8. \A u \in Tasks : pc[u] \in InRun \cup {"touch"} => job[u].run # r
    BY <2>3 DEF Owned
  <2>9. \A q \in RunIds \ {r} : runs'[q] = runs[q]
    BY <2>1 DEF Typed, TypeOK
  <2> QED BY <2>1, <2>3, <2>5, <2>6, <2>7, <2>8, <2>9, RunBooks
<1>7. CASE SelectAccounts(t)
  <2> DEFINE s == SelectedAccounts(t)
  <2>0. PICK r \in RunIds : r = job[t].run
    BY <1>7 DEF SelectAccounts, Typed, Shape
  <2>1. /\ runs' = [runs EXCEPT ![r].targets = s] /\ syncErrors' = syncErrors
        /\ job' = [job EXCEPT ![t].targets = s, ![t].todo = s]
        /\ pc[t] = "select" /\ pc' = [pc EXCEPT ![t] = "loop"]
    BY <1>7, <2>0 DEF SelectAccounts
  <2>2. runs[r].status = "RUNNING"
    BY <2>0, <2>1 DEF Owned
  <2> HIDE DEF s
  <2>3. /\ job'[t].run = r /\ job'[t].targets = s /\ job'[t].todo = s
        /\ job'[t].done = {} /\ job'[t].failed = {} /\ job'[t].sawReauth = FALSE
        /\ OthersKeep(t) /\ pc'[t] = "loop"
    BY <1>0, <2>0, <2>1 DEF Job, TaskBooks
  <2>4. /\ runs'[r].targets = s /\ runs'[r].status = "RUNNING"
        /\ \A q \in RunIds \ {r} : runs'[q] = runs[q]
    BY <2>1, <2>2 DEF Typed, TypeOK, RunRow
  <2>5. FailedIn(r, syncErrors) = {} /\ DeadIn(r, syncErrors) = {}
    BY <1>0, <2>0, <2>1 DEF TaskBooks
  <2>6. TaskBooks(t)'
    BY <2>1, <2>3, <2>4, <2>5 DEF TaskBooks, Ahead
  <2>7. RowBooks(r)'
    BY <2>1, <2>4, <2>5 DEF RowBooks, Verdicts
  <2>8. \A u \in Tasks \ {t} : pc[u] \in InRun \cup {"touch"} => job[u].run # r
    BY <2>0, <2>1, DistinctRuns
  <2> QED BY <2>1, <2>2, <2>3, <2>4, <2>6, <2>7, <2>8, RunBooks
<1>8. ASSUME NEW a \in Accounts, BeginAccount(t, a)
      PROVE  Books'
  <2>1. TaskBooks(t)'
    BY <1>0, <1>8 DEF BeginAccount, TaskBooks, Ahead, Job
  <2> QED BY <1>0, <1>8, <2>1, QuietBooks DEF BeginAccount
<1>9. CASE TokenStillFresh(t)
  <2>1. TaskBooks(t)'
    BY <1>0, <1>9 DEF TokenStillFresh, TaskBooks, Ahead
  <2> QED BY <1>0, <1>9, <2>1, QuietBooks DEF TokenStillFresh
<1>10. CASE TokenRefreshed(t)
  <2>1. TaskBooks(t)'
    BY <1>0, <1>10 DEF TokenRefreshed, TaskBooks, Ahead
  <2> QED BY <1>0, <1>10, <2>1, QuietBooks DEF TokenRefreshed
<1>11. CASE PersistTokens(t)
  <2>1. TaskBooks(t)'
    BY <1>0, <1>11 DEF PersistTokens, TaskBooks, Ahead
  <2> QED BY <1>0, <1>11, <2>1, QuietBooks DEF PersistTokens
<1>12. CASE TokenRejected(t)
  <2>1. TaskBooks(t)'
    BY <1>0, <1>12 DEF TokenRejected, TaskBooks, Ahead, Job
  <2> QED BY <1>0, <1>12, <2>1, QuietBooks DEF TokenRejected
<1>13. CASE FetchUnauthorized(t)
  <2>1. TaskBooks(t)'
    BY <1>0, <1>13 DEF FetchUnauthorized, TaskBooks, Ahead, Job
  <2> QED BY <1>0, <1>13, <2>1, QuietBooks DEF FetchUnauthorized
<1>14. ASSUME NEW f \in BankFaults, AccountFails(t, f)
       PROVE  Books'
  <2>1. TaskBooks(t)'
    BY <1>0, <1>14 DEF AccountFails, TaskBooks, Ahead, Job
  <2> QED BY <1>0, <1>14, <2>1, QuietBooks DEF AccountFails
<1>15. CASE AccountSynced(t)
  <2>0. PICK r \in RunIds, a \in Accounts : r = job[t].run /\ a = job[t].acct
    BY <1>15 DEF AccountSynced, Typed, Shape
  <2>1. /\ job' = [job EXCEPT ![t].done = @ \cup {a}, ![t].acct = None]
        /\ pc[t] = "fetch" /\ pc'[t] = "loop"
        /\ runs' = runs /\ syncErrors' = syncErrors /\ OthersKeep(t)
    BY <1>0, <1>15, <2>0 DEF AccountSynced
  <2>2. /\ job'[t].run = r /\ job'[t].targets = job[t].targets
        /\ job'[t].todo = job[t].todo /\ job'[t].done = job[t].done \cup {a}
        /\ job'[t].failed = job[t].failed /\ job'[t].sawReauth = job[t].sawReauth
    BY <1>0, <2>0, <2>1 DEF Job
  <2>3. TaskBooks(t)'
    <3>1. /\ job[t].targets = job[t].done \cup job[t].failed \cup job[t].todo \cup {a}
          /\ job[t].done \cap (job[t].failed \cup job[t].todo \cup {a}) = {}
          /\ job[t].failed \cap (job[t].todo \cup {a}) = {}
          /\ a \notin job[t].todo
      BY <1>0, <2>0, <2>1 DEF TaskBooks, Ahead
    <3>2. a \notin job[t].failed
      BY <3>1
    <3>3. Ahead(t)' = job[t].todo
      BY <2>1, <2>2 DEF Ahead
    <3>4. /\ job'[t].targets = job'[t].done \cup job'[t].failed \cup Ahead(t)'
          /\ job'[t].done \cap (job'[t].failed \cup Ahead(t)') = {}
          /\ job'[t].failed \cap Ahead(t)' = {}
      BY <2>2, <3>1, <3>2, <3>3
    <3>5. /\ runs'[r].targets = job'[t].targets
          /\ FailedIn(r, syncErrors') = job'[t].failed
          /\ job'[t].sawReauth <=> DeadIn(r, syncErrors') # {}
      BY <1>0, <2>0, <2>1, <2>2 DEF TaskBooks
    <3> QED BY <2>1, <2>2, <3>4, <3>5 DEF TaskBooks
  <2> QED BY <2>1, <2>3, QuietBooks
<1>16. CASE RecordError(t)
  <2> DEFINE type == ClassifyError(job[t].fault)
             auth == type = "AUTHORIZATION_EXPIRED"
  <2>0. PICK r \in RunIds, a \in Accounts : r = job[t].run /\ a = job[t].acct
    BY <1>16 DEF RecordError, Typed, Shape
  <2>1. /\ syncErrors' = syncErrors \cup {<<r, a, type>>} /\ runs' = runs
        /\ job' = [job EXCEPT ![t].failed = @ \cup {a}, ![t].acct = None,
                              ![t].fault = None, ![t].sawReauth = auth]
        /\ pc[t] = "record" /\ pc' = [pc EXCEPT ![t] = IF auth THEN "flip" ELSE "loop"]
    BY <1>16, <2>0 DEF RecordError
  <2>12. syncErrors' = syncErrors \cup {<<r, a, type>>}
    BY <2>1
  <2>2. type \in BankErrorTypes /\ auth \in BOOLEAN
    BY DEF ClassifyError, BankErrorTypes
  <2>3. runs[r].status = "RUNNING"
    BY <2>0, <2>1 DEF Owned
  <2>4. auth <=> type = "AUTHORIZATION_EXPIRED"
    OBVIOUS
  <2> HIDE DEF type, auth
  <2>5. /\ job'[t].run = r /\ job'[t].targets = job[t].targets
        /\ job'[t].todo = job[t].todo /\ job'[t].done = job[t].done
        /\ job'[t].failed = job[t].failed \cup {a} /\ job'[t].sawReauth = auth
        /\ OthersKeep(t) /\ pc'[t] \in {"flip", "loop"}
    BY <1>0, <2>0, <2>1, <2>2 DEF Job
  <2>6. /\ FailedIn(r, syncErrors') = FailedIn(r, syncErrors) \cup {a}
        /\ auth => DeadIn(r, syncErrors') = DeadIn(r, syncErrors) \cup {a}
        /\ ~auth => DeadIn(r, syncErrors') = DeadIn(r, syncErrors)
    <3>1. FailedIn(r, syncErrors') = FailedIn(r, syncErrors) \cup {a}
      BY <2>12, <2>2 DEF FailedIn
    <3>2. auth => DeadIn(r, syncErrors') = DeadIn(r, syncErrors) \cup {a}
      BY <2>12, <2>4 DEF DeadIn
    <3>3. ~auth => DeadIn(r, syncErrors') = DeadIn(r, syncErrors)
      BY <2>12, <2>4 DEF DeadIn
    <3> QED BY <3>1, <3>2, <3>3
  <2>7. DeadIn(r, syncErrors) = {}
    BY <1>0, <2>0, <2>1 DEF TaskBooks
  <2>8. TaskBooks(t)'
    <3>1. /\ job[t].targets = job[t].done \cup job[t].failed \cup job[t].todo \cup {a}
          /\ job[t].done \cap (job[t].failed \cup job[t].todo \cup {a}) = {}
          /\ job[t].failed \cap (job[t].todo \cup {a}) = {} /\ a \notin job[t].todo
          /\ runs[r].targets = job[t].targets /\ FailedIn(r, syncErrors) = job[t].failed
      BY <1>0, <2>0, <2>1 DEF TaskBooks, Ahead
    <3>2. Ahead(t)' = job[t].todo
      BY <2>5 DEF Ahead
    <3>3. /\ runs'[r].targets = job'[t].targets
          /\ FailedIn(r, syncErrors') = job'[t].failed
      BY <2>1, <2>5, <2>6, <3>1
    <3>4. job'[t].targets = job'[t].done \cup job'[t].failed \cup Ahead(t)'
      BY <2>5, <3>1, <3>2
    <3>5. /\ job'[t].done \cap (job'[t].failed \cup Ahead(t)') = {}
          /\ job'[t].failed \cap Ahead(t)' = {}
      BY <2>5, <3>1, <3>2
    <3>6. job'[t].sawReauth <=> DeadIn(r, syncErrors') # {}
      BY <2>2, <2>5, <2>6, <2>7
    <3> QED BY <2>5, <3>3, <3>4, <3>5, <3>6 DEF TaskBooks
  <2>9. RowBooks(r)'
    BY <2>1, <2>3, <2>6, <2>7 DEF RowBooks, Verdicts
  <2>10. \A u \in Tasks \ {t} : pc[u] \in InRun \cup {"touch"} => job[u].run # r
    BY <2>0, <2>1, DistinctRuns
  <2>11. \A q \in RunIds \ {r} : /\ FailedIn(q, syncErrors') = FailedIn(q, syncErrors)
                                 /\ DeadIn(q, syncErrors') = DeadIn(q, syncErrors)
    BY <2>12 DEF FailedIn, DeadIn
  <2> QED BY <2>1, <2>3, <2>5, <2>8, <2>9, <2>10, <2>11, RunBooks
<1>17. CASE MarkReauth(t)
  <2>1. TaskBooks(t)'
    BY <1>0, <1>17 DEF MarkReauth, TaskBooks, Ahead
  <2> QED BY <1>0, <1>17, <2>1, QuietBooks DEF MarkReauth
<1>18. CASE LeaveLoop(t)
  <2>1. TaskBooks(t)'
    BY <1>0, <1>18 DEF LeaveLoop, LoopOver, TaskBooks, Ahead
  <2> QED BY <1>0, <1>18, <2>1, QuietBooks DEF LeaveLoop
<1>19. CASE ExportSucceeds(t)
  <2>1. TaskBooks(t)'
    BY <1>0, <1>19 DEF ExportSucceeds, TaskBooks, Ahead
  <2> QED BY <1>0, <1>19, <2>1, QuietBooks DEF ExportSucceeds
<1>20. CASE ExportFails(t)
  <2>0. PICK r \in RunIds : r = job[t].run
    BY <1>20 DEF ExportFails, Typed, Shape
  <2>1. /\ syncErrors' = syncErrors \cup {<<r, None, "ACTUAL_ERROR">>} /\ runs' = runs
        /\ job' = job /\ OthersKeep(t)
        /\ pc[t] = "export" /\ pc'[t] = "finish"
    BY <1>0, <1>20, <2>0 DEF ExportFails
  <2>2. syncErrors' = syncErrors \cup {<<r, None, "ACTUAL_ERROR">>}
    BY <2>1
  <2>3. \A q \in RunIds : /\ FailedIn(q, syncErrors') = FailedIn(q, syncErrors)
                          /\ DeadIn(q, syncErrors') = DeadIn(q, syncErrors)
    BY <2>2, ImportErrors
  <2>4. TaskBooks(t)'
    BY <1>0, <2>0, <2>1, <2>3 DEF TaskBooks, Ahead
  <2>5. RowBooks(r)'
    BY <2>1, <2>3 DEF Books, RowBooks
  <2>6. \A u \in Tasks \ {t} : pc[u] \in InRun \cup {"touch"} => job[u].run # r
    BY <2>0, <2>1, DistinctRuns
  <2> QED BY <2>1, <2>3, <2>4, <2>5, <2>6, RunBooks
<1>21. CASE FinishRun(t)
  <2>0. PICK r \in RunIds, v \in Verdicts : r = job[t].run /\ v = Verdict(t)
    BY <1>21 DEF FinishRun, Typed, Shape, Verdict, Verdicts
  <2>1. /\ runs' = [runs EXCEPT ![r].status = v, ![r].processed = job[t].done]
        /\ syncErrors' = syncErrors /\ pc[t] = "finish"
    BY <1>21, <2>0 DEF FinishRun
  <2>2. runs[r] \in RunRow
    BY DEF Typed, TypeOK
  <2>3. /\ v \in Verdicts
        /\ v = "SUCCESS" <=> job[t].failed = {}
        /\ v = "PARTIAL" <=> job[t].failed # {} /\ job[t].done # {}
        /\ v = "FAILED" <=> job[t].failed # {} /\ job[t].done = {}
    BY <2>0 DEF Verdict, Verdicts
  <2>4. OthersKeep(t) /\ TaskBooks(t)'
    <3>1. CASE v = "SUCCESS"
      <4>1. job' = job /\ pc' = [pc EXCEPT ![t] = "touch"]
        BY <1>21, <2>0, <3>1 DEF FinishRun
      <4>2. runs'[r].targets = runs[r].targets
        BY <2>1, <2>2 DEF RunRow, Typed, TypeOK
      <4> QED BY <1>0, <2>0, <2>1, <2>2, <4>1, <4>2 DEF TaskBooks, Ahead
    <3>2. CASE v # "SUCCESS"
      BY <1>21, <2>0, <3>2, ExitBooks, ExitTyped DEF FinishRun
    <3> QED BY <3>1, <3>2
  <2>5. /\ runs'[r].status = v /\ runs'[r].processed = job[t].done
        /\ runs'[r].targets = job[t].targets
        /\ \A q \in RunIds \ {r} : runs'[q] = runs[q]
    BY <1>0, <2>0, <2>1, <2>2 DEF TaskBooks, RunRow, Typed, TypeOK
  <2>6. /\ FailedIn(r, syncErrors) = job[t].failed
        /\ job[t].targets = job[t].done \cup job[t].failed \cup job[t].todo
        /\ job[t].done \cap job[t].failed = {}
        /\ DeadIn(r, syncErrors) = {} => job[t].todo = {}
    BY <1>0, <2>0, <2>1 DEF TaskBooks, Ahead
  <2>7. DeadIn(r, syncErrors) \subseteq FailedIn(r, syncErrors)
    BY DEF DeadIn, FailedIn, BankErrorTypes
  <2>8. \A a, b \in DeadIn(r, syncErrors) : a = b
    BY DEF Books, RowBooks
  <2>9. RowBooks(r)'
    BY <2>1, <2>3, <2>5, <2>6, <2>7, <2>8 DEF RowBooks, Verdicts
  <2>10. \A u \in Tasks \ {t} : pc[u] \in InRun \cup {"touch"} => job[u].run # r
    BY <2>0, <2>1, DistinctRuns
  <2> QED BY <2>1, <2>2, <2>4, <2>5, <2>9, <2>10, RunBooks
<1>22. CASE TouchConnection(t)
  BY <1>0, <1>22, ExitBooks, ExitTyped, QuietBooks DEF TouchConnection
<1>23. CASE DatabaseFails(t)
  BY <1>0, <1>23, ExitBooks, ExitTyped, QuietBooks DEF DatabaseFails
<1> QED
  BY <1>1, <1>2, <1>3, <1>4, <1>5, <1>6, <1>7, <1>8, <1>9, <1>10, <1>11, <1>12,
     <1>13, <1>14, <1>15, <1>16, <1>17, <1>18, <1>19, <1>20, <1>21, <1>22, <1>23
  DEF Step

LEMMA BooksInvariant == Spec => [](Typed /\ Locks /\ Owned /\ Books)
<1>1. Typed /\ Locks /\ Owned /\ Books /\ [Next]_vars => Books'
  <2> SUFFICES ASSUME Typed, Locks, Owned, Books, [Next]_vars
               PROVE  Books'
    OBVIOUS
  <2>1. CASE UNCHANGED vars
    BY <2>1 DEF Books, TaskBooks, RowBooks, Ahead, vars, memory, database
  <2>2. CASE Environment
    <3>1. runs' = runs /\ syncErrors' = syncErrors
      BY <2>2 DEF Environment, Reauthorize, EndDiscovery, DisableConnection,
                  RevokeConsent, Crash, database
    <3>2. \A r \in RunIds : RowBooks(r)'
      BY <3>1 DEF Books, RowBooks
    <3>3. CASE Crash
      <4>1. \A t \in Tasks : pc'[t] = "idle" /\ job'[t] = IdleJob
        BY <3>3 DEF Crash
      <4>2. \A t \in Tasks : TaskBooks(t)'
        BY <4>1 DEF TaskBooks, IdleJob, Working, AtAccount, InRun, Locked, PcValues
      <4> QED BY <3>2, <4>2 DEF Books
    <3>4. CASE UNCHANGED memory
      <4>1. \A t \in Tasks : TaskBooks(t)'
        BY <3>1, <3>4 DEF Books, TaskBooks, Ahead, memory
      <4> QED BY <3>2, <4>1 DEF Books
    <3> QED
      BY <2>2, <3>3, <3>4 DEF Environment, Reauthorize, EndDiscovery, DisableConnection,
                              RevokeConsent
  <2> QED BY <2>1, <2>2, StartBooks, StepBooks DEF Next
<1> QED BY InitBooks, <1>1, OwnedInvariant, TypedInvariant, LocksInvariant, PTL DEF Spec

\* The verdict of every run agrees with its error rows and with the accounts it
\* synced, however runs, failures, crashes and requests interleave: no failure
\* hides behind a SUCCESS, and nothing was synced behind a FAILED.
THEOREM VerdictsTruthful == Spec => []VerdictTruthful
<1>1. Books => VerdictTruthful
  BY DEF Books, RowBooks, VerdictTruthful, FailedIn, Errored
<1> QED BY <1>1, BooksInvariant, PTL

\* One account failing does not stop the others: a run with a verdict has tried
\* every account it selected, or has met a dead authorization.
THEOREM AccountsAttempted == Spec => []EveryAccountAttempted
<1>1. Books => EveryAccountAttempted
  BY DEF Books, RowBooks, EveryAccountAttempted, FailedIn, DeadIn, Errored, Unauthorized
<1> QED BY <1>1, BooksInvariant, PTL

\* No run learns twice that its authorization is gone.
THEOREM DeadConsentAskedOnce == Spec => []NoHammering
<1>1. ASSUME Books, NEW r \in RunIds
      PROVE  Cardinality(Unauthorized(r)) <= 1
  <2>1. \A a, b \in Unauthorized(r) : a = b
    BY <1>1 DEF Books, RowBooks, DeadIn, Unauthorized
  <2>2. CASE Unauthorized(r) = {}
    BY <2>2, FS_EmptySet
  <2>3. CASE Unauthorized(r) # {}
    <3>1. PICK a : Unauthorized(r) = {a}
      BY <2>1, <2>3
    <3> QED BY <3>1, FS_Singleton
  <2> QED BY <2>2, <2>3
<1>2. Books => NoHammering
  BY <1>1 DEF NoHammering
<1> QED BY <1>2, BooksInvariant, PTL

-----------------------------------------------------------------------------
(***************************************************************************)
(* The cursors and the consents of the tasks at work.                      *)
(***************************************************************************)

\* A task works on accounts of the connection it has locked, and the cursors of
\* those it has done are the ones it wrote.
Cursors ==
  \A t \in Tasks :
    pc[t] \in Working => /\ \A a \in job[t].targets : Owner[a] = job[t].conn
                         /\ \A a \in job[t].done : cursor[a] = job[t].run

\* The tokens in hand are of a consent issued before, and of an earlier one than
\* the latest if a connection is ACTIVE after it turned out to be dead.
Grants ==
  /\ \A c \in Connections : stored[c] <= issued[c]
  /\ \A t \in Tasks :
       /\ pc[t] \in AtAccount => job[t].grant <= issued[job[t].conn]
       /\ pc[t] \in Working /\ job[t].sawReauth =>
            /\ job[t].grant <= issued[job[t].conn]
            /\ pc[t] # "flip" /\ status[job[t].conn] = "ACTIVE" =>
                 job[t].grant < issued[job[t].conn]

\* A step that only moves a task at work: what the invariants speak of is kept.
Moves(t) ==
  pc'[t] \in Working =>
    /\ pc[t] \in Working
    /\ job'[t].conn = job[t].conn /\ job'[t].run = job[t].run
    /\ job'[t].targets = job[t].targets /\ job'[t].done = job[t].done
    /\ job'[t].grant = job[t].grant /\ job'[t].sawReauth = job[t].sawReauth
    /\ pc'[t] \in AtAccount => pc[t] \in AtAccount

LEMMA StepMoves ==
  ASSUME Typed, NEW t \in Tasks, Step(t), ~SelectAccounts(t),
         \A a \in Accounts : ~BeginAccount(t, a), ~AccountSynced(t), ~RecordError(t)
  PROVE  Moves(t)
<1> USE DEF Moves, Working, AtAccount, InRun, Locked, PcValues
<1>0. job[t] \in Job /\ job \in [Tasks -> Job] /\ pc \in [Tasks -> PcValues]
  BY DEF Typed, TypeOK
<1>1. ASSUME NEW c \in Connections, Acquire(t, c) \/ RejectBusy(t, c)
      PROVE  Moves(t)
  BY <1>0, <1>1 DEF Acquire, RejectBusy
<1>2. CASE EndPass(t) \/ LoadActive(t) \/ CreateRun(t)
  BY <1>0, <1>2 DEF EndPass, LoadActive, CreateRun
<1>3. CASE LoadInactive(t) \/ TouchConnection(t) \/ DatabaseFails(t)
  BY <1>3, ExitTyped DEF LoadInactive, TouchConnection, DatabaseFails
<1>4. CASE TokenStillFresh(t) \/ TokenRefreshed(t) \/ PersistTokens(t)
  BY <1>0, <1>4 DEF TokenStillFresh, TokenRefreshed, PersistTokens
<1>5. CASE TokenRejected(t)
  BY <1>0, <1>5 DEF TokenRejected, Job
<1>6. CASE FetchUnauthorized(t)
  BY <1>0, <1>6 DEF FetchUnauthorized, Job
<1>7. ASSUME NEW f \in BankFaults, AccountFails(t, f)
      PROVE  Moves(t)
  BY <1>0, <1>7 DEF AccountFails, Job
<1>8. CASE MarkReauth(t)
  BY <1>0, <1>8 DEF MarkReauth
<1>9. CASE LeaveLoop(t) \/ ExportSucceeds(t) \/ ExportFails(t)
  BY <1>0, <1>9 DEF LeaveLoop, LoopOver, ExportSucceeds, ExportFails
<1>10. CASE FinishRun(t)
  <2>1. CASE Verdict(t) = "SUCCESS"
    BY <1>0, <1>10, <2>1 DEF FinishRun
  <2>2. CASE Verdict(t) # "SUCCESS"
    BY <1>10, <2>2, ExitTyped DEF FinishRun
  <2> QED BY <2>1, <2>2
<1> QED
  BY <1>1, <1>2, <1>3, <1>4, <1>5, <1>6, <1>7, <1>8, <1>9, <1>10 DEF Step

\* A step of a task is a step of no other.
LEMMA StepOthers ==
  ASSUME Typed, NEW t \in Tasks, Step(t)
  PROVE  OthersKeep(t)
<1>1. CASE \/ LoadInactive(t) \/ TouchConnection(t) \/ DatabaseFails(t)
           \/ FinishRun(t) /\ Verdict(t) # "SUCCESS"
  BY <1>1, ExitTyped DEF LoadInactive, TouchConnection, DatabaseFails, FinishRun, OthersKeep
<1>2. CASE FinishRun(t) /\ Verdict(t) = "SUCCESS"
  BY <1>2 DEF FinishRun, OthersKeep, Typed, TypeOK
<1> QED
  BY <1>1, <1>2 DEF Step, OthersKeep, Typed, TypeOK, Acquire, RejectBusy, EndPass,
    LoadActive, CreateRun, SelectAccounts, BeginAccount, TokenStillFresh, TokenRefreshed,
    PersistTokens, TokenRejected, FetchUnauthorized, AccountFails, AccountSynced,
    RecordError, MarkReauth, LeaveLoop, ExportSucceeds, ExportFails

\* Of the columns, a step of a task other than AccountSynced leaves the cursors;
\* it makes no connection ACTIVE, and stores no tokens but those it holds.
LEMMA StepColumns ==
  ASSUME Typed, NEW t \in Tasks, Step(t)
  PROVE  /\ ~AccountSynced(t) => cursor' = cursor
         /\ issued' = issued
         /\ \A c \in Connections : status'[c] = "ACTIVE" => status[c] = "ACTIVE"
         /\ stored' = stored \/ PersistTokens(t)
<1> USE DEF Step, Acquire, RejectBusy, EndPass, LoadActive, LoadInactive, CreateRun,
      SelectAccounts, BeginAccount, TokenStillFresh, TokenRefreshed, PersistTokens,
      FetchUnauthorized, AccountFails, AccountSynced, RecordError, LeaveLoop,
      ExportSucceeds, ExportFails, FinishRun, TouchConnection, DatabaseFails,
      database, consents
<1>1. CASE TokenRejected(t) \/ MarkReauth(t)
  BY <1>1 DEF TokenRejected, MarkReauth, Typed, TypeOK
<1>2. CASE ~TokenRejected(t) /\ ~MarkReauth(t)
  <2>1. ~AccountSynced(t) => cursor' = cursor
    BY <1>2
  <2>2. issued' = issued /\ status' = status
    BY <1>2
  <2>3. stored' = stored \/ PersistTokens(t)
    BY <1>2
  <2> QED BY <2>1, <2>2, <2>3
<1> QED BY <1>1, <1>2

LEMMA StepCursors ==
  ASSUME Typed, Locks, Books, Cursors, NEW t \in Tasks, Step(t)
  PROVE  Cursors'
<1> USE DEF Working, AtAccount, InRun, Locked, PcValues
<1>0. /\ job[t] \in Job /\ job \in [Tasks -> Job] /\ pc \in [Tasks -> PcValues]
      /\ OthersKeep(t)
  BY StepOthers DEF Typed, TypeOK
<1>1. CASE AccountSynced(t)
  <2>0. PICK r \in RunIds, a \in Accounts : r = job[t].run /\ a = job[t].acct
    BY <1>1 DEF AccountSynced, Typed, Shape
  <2>1. /\ job' = [job EXCEPT ![t].done = @ \cup {a}, ![t].acct = None]
        /\ cursor' = [cursor EXCEPT ![a] = r]
        /\ pc[t] = "fetch" /\ pc'[t] = "loop"
    BY <1>0, <1>1, <2>0 DEF AccountSynced
  <2>2. /\ job'[t].run = r /\ job'[t].targets = job[t].targets
        /\ job'[t].done = job[t].done \cup {a} /\ job'[t].conn = job[t].conn
    BY <1>0, <2>0, <2>1 DEF Job
  <2>3. cursor'[a] = r /\ \A b \in Accounts \ {a} : cursor'[b] = cursor[b]
    BY <2>1 DEF Typed, TypeOK
  <2>4. a \in job[t].targets /\ Owner[a] = job[t].conn
    BY <2>0, <2>1 DEF Books, TaskBooks, Ahead, Cursors
  <2>5. \A b \in job[t].done : b \in Accounts
    BY <1>0, JobFields
  <2>6. ASSUME NEW u \in Tasks \ {t}, pc[u] \in Working, NEW b \in job[u].done
        PROVE  b \in Accounts \ {a}
    <3>1. b \in job[u].targets /\ b \in Accounts
      BY <2>6, JobFields DEF Books, TaskBooks, Typed, TypeOK
    <3>2. job[u].conn # job[t].conn
      BY <2>1, <2>6 DEF Locks, OneSyncPerConnection
    <3> QED BY <2>4, <2>6, <3>1, <3>2 DEF Cursors
  <2>7. ASSUME NEW u \in Tasks \ {t}, pc'[u] \in Working
        PROVE  /\ \A b \in job'[u].targets : Owner[b] = job'[u].conn
               /\ \A b \in job'[u].done : cursor'[b] = job'[u].run
    <3>1. pc'[u] = pc[u] /\ job'[u] = job[u]
      BY <1>0 DEF OthersKeep
    <3> QED BY <2>3, <2>6, <2>7, <3>1 DEF Cursors
  <2>8. /\ \A b \in job'[t].targets : Owner[b] = job'[t].conn
        /\ \A b \in job'[t].done : cursor'[b] = job'[t].run
    BY <2>0, <2>1, <2>2, <2>3, <2>5 DEF Cursors
  <2> QED BY <2>7, <2>8 DEF Cursors
<1>2. CASE ~AccountSynced(t)
  <2>1. cursor' = cursor
    BY <1>2, StepColumns
  <2>2. ASSUME NEW u \in Tasks \ {t}, pc'[u] \in Working
        PROVE  /\ \A b \in job'[u].targets : Owner[b] = job'[u].conn
               /\ \A b \in job'[u].done : cursor'[b] = job'[u].run
    BY <1>0, <2>1, <2>2 DEF OthersKeep, Cursors
  <2>3. ASSUME pc'[t] \in Working
        PROVE  /\ \A b \in job'[t].targets : Owner[b] = job'[t].conn
               /\ \A b \in job'[t].done : cursor'[b] = job'[t].run
    <3>1. CASE Moves(t)
      BY <2>1, <2>3, <3>1 DEF Moves, Cursors
    <3>2. CASE SelectAccounts(t)
      <4>1. /\ job'[t].targets = SelectedAccounts(t) /\ job'[t].conn = job[t].conn
            /\ job'[t].done = job[t].done /\ pc[t] = "select"
        BY <1>0, <3>2 DEF SelectAccounts, Job
      <4>2. job[t].done = {}
        BY <4>1 DEF Books, TaskBooks
      <4> QED BY <4>1, <4>2 DEF SelectedAccounts
    <3>3. ASSUME NEW a \in Accounts, BeginAccount(t, a)
          PROVE  /\ \A b \in job'[t].targets : Owner[b] = job'[t].conn
                 /\ \A b \in job'[t].done : cursor'[b] = job'[t].run
      <4>1. /\ job'[t].targets = job[t].targets /\ job'[t].conn = job[t].conn
            /\ job'[t].done = job[t].done /\ job'[t].run = job[t].run /\ pc[t] = "loop"
        BY <1>0, <3>3 DEF BeginAccount, Job
      <4> QED BY <2>1, <4>1 DEF Cursors
    <3>4. CASE RecordError(t)
      <4>1. /\ job'[t].targets = job[t].targets /\ job'[t].conn = job[t].conn
            /\ job'[t].done = job[t].done /\ job'[t].run = job[t].run /\ pc[t] = "record"
        BY <1>0, <3>4 DEF RecordError, Job
      <4> QED BY <2>1, <4>1 DEF Cursors
    <3> QED BY <1>2, <3>1, <3>2, <3>3, <3>4, StepMoves
  <2> QED BY <2>2, <2>3 DEF Cursors
<1> QED BY <1>1, <1>2

LEMMA StepGrants ==
  ASSUME Typed, Books, Grants, NEW t \in Tasks, Step(t)
  PROVE  Grants'
<1> USE DEF Working, AtAccount, InRun, Locked, PcValues
<1>0. /\ job[t] \in Job /\ job \in [Tasks -> Job] /\ pc \in [Tasks -> PcValues]
      /\ OthersKeep(t) /\ issued' = issued
      /\ \A c \in Connections : status'[c] = "ACTIVE" => status[c] = "ACTIVE"
  BY StepOthers, StepColumns DEF Typed, TypeOK
<1>1. \A c \in Connections : stored'[c] <= issued'[c]
  <2>1. CASE stored' = stored
    BY <1>0, <2>1 DEF Grants
  <2>2. CASE PersistTokens(t)
    BY <1>0, <2>2 DEF PersistTokens, Grants, Typed, TypeOK
  <2> QED BY <2>1, <2>2, StepColumns
<1>2. ASSUME NEW u \in Tasks
      PROVE  /\ pc'[u] \in AtAccount => job'[u].grant <= issued'[job'[u].conn]
             /\ pc'[u] \in Working /\ job'[u].sawReauth =>
                  /\ job'[u].grant <= issued'[job'[u].conn]
                  /\ pc'[u] # "flip" /\ status'[job'[u].conn] = "ACTIVE" =>
                       job'[u].grant < issued'[job'[u].conn]
  <2>1. CASE u # t
    <3>1. pc'[u] = pc[u] /\ job'[u] = job[u]
      BY <1>0, <2>1 DEF OthersKeep
    <3>2. pc[u] \in Working => job[u].conn \in Connections
      BY DEF Typed, Shape
    <3> QED BY <1>0, <3>1, <3>2 DEF Grants
  <2>2. CASE u = t /\ Moves(t)
    <3>1. pc[t] \in Working => job[t].conn \in Connections
      BY DEF Typed, Shape
    <3>2. CASE pc[t] # "flip"
      BY <1>0, <2>2, <3>1, <3>2 DEF Moves, Grants
    <3>3. CASE pc[t] = "flip"
      <4>1. MarkReauth(t) \/ DatabaseFails(t)
        BY <3>3 DEF Step, Acquire, RejectBusy, EndPass, LoadActive, LoadInactive, CreateRun,
             SelectAccounts, BeginAccount, TokenStillFresh, TokenRefreshed, PersistTokens,
             TokenRejected, FetchUnauthorized, AccountFails, AccountSynced, RecordError,
             LeaveLoop, LoopOver, ExportSucceeds, ExportFails, FinishRun, TouchConnection
      <4>2. CASE MarkReauth(t)
        <5>1. status'[job[t].conn] = "REAUTH_REQUIRED"
          BY <3>1, <3>3, <4>2 DEF MarkReauth, Typed, TypeOK
        <5>2. job' = job /\ pc'[t] = "loop"
          BY <1>0, <4>2 DEF MarkReauth
        <5> QED BY <1>0, <2>2, <3>3, <5>1, <5>2 DEF Grants
      <4>3. CASE DatabaseFails(t)
        BY <2>2, <4>3, ExitTyped DEF DatabaseFails
      <4> QED BY <4>1, <4>2, <4>3
    <3> QED BY <3>2, <3>3
  <2>3. CASE u = t /\ SelectAccounts(t)
    <3>1. job'[t].sawReauth = job[t].sawReauth /\ pc[t] = "select" /\ pc'[t] = "loop"
      BY <1>0, <2>3 DEF SelectAccounts, Job
    <3>2. job[t].sawReauth = FALSE
      BY <3>1 DEF Books, TaskBooks
    <3> QED BY <2>3, <3>1, <3>2
  <2>4. ASSUME NEW a \in Accounts, BeginAccount(t, a), u = t
        PROVE  /\ pc'[u] \in AtAccount => job'[u].grant <= issued'[job'[u].conn]
               /\ pc'[u] \in Working => job'[u].sawReauth = FALSE
    <3>1. /\ job'[t].grant = stored[job[t].conn] /\ job'[t].conn = job[t].conn
          /\ job'[t].sawReauth = job[t].sawReauth /\ job[t].sawReauth = FALSE
          /\ pc[t] = "loop"
      BY <1>0, <2>4 DEF BeginAccount, Job
    <3>2. job[t].conn \in Connections
      BY <3>1 DEF Typed, Shape
    <3> QED BY <1>0, <2>4, <3>1, <3>2 DEF Grants
  <2>5. CASE u = t /\ AccountSynced(t)
    <3>1. /\ job'[t].sawReauth = job[t].sawReauth /\ pc[t] = "fetch" /\ pc'[t] = "loop"
      BY <1>0, <2>5 DEF AccountSynced, Job
    <3>2. job[t].sawReauth = FALSE
      BY <3>1 DEF Books, TaskBooks
    <3> QED BY <2>5, <3>1, <3>2
  <2>6. CASE u = t /\ RecordError(t)
    <3> DEFINE auth == ClassifyError(job[t].fault) = "AUTHORIZATION_EXPIRED"
    <3>0. auth \in BOOLEAN
      OBVIOUS
    <3>1. /\ job' = [job EXCEPT ![t].failed = @ \cup {job[t].acct}, ![t].acct = None,
                               ![t].fault = None, ![t].sawReauth = auth]
          /\ pc[t] = "record" /\ pc' = [pc EXCEPT ![t] = IF auth THEN "flip" ELSE "loop"]
      BY <2>6 DEF RecordError
    <3> HIDE DEF auth
    <3>2. /\ job'[t].grant = job[t].grant /\ job'[t].conn = job[t].conn
          /\ job'[t].sawReauth = auth
      BY <1>0, <3>0, <3>1 DEF Job
    <3>3. auth => pc'[t] = "flip"
      BY <1>0, <3>1
    <3>4. ~auth => pc'[t] = "loop"
      BY <1>0, <3>1
    <3> QED BY <1>0, <2>6, <3>0, <3>1, <3>2, <3>3, <3>4 DEF Grants
  <2> QED BY <2>1, <2>2, <2>3, <2>4, <2>5, <2>6, StepMoves
<1> QED BY <1>1, <1>2 DEF Grants

\* The environment: only Reauthorize makes a connection ACTIVE, and it issues a
\* new generation of the consent.
LEMMA EnvironmentGrants ==
  ASSUME Typed, Grants, Environment
  PROVE  Grants'
<1> USE DEF Working, AtAccount, InRun, Locked, PcValues
<1>0. \A t \in Tasks : job[t] \in Job /\ (pc[t] \in Locked => job[t].conn \in Connections)
  BY DEF Typed, TypeOK, Shape
<1>1. ASSUME NEW c \in Connections, Reauthorize(c)
      PROVE  Grants'
  <2>1. /\ issued' = [issued EXCEPT ![c] = @ + 1]
        /\ stored' = [stored EXCEPT ![c] = issued[c] + 1]
        /\ status' = [status EXCEPT ![c] = "ACTIVE"]
        /\ pc' = pc /\ job' = job
    BY <1>1 DEF Reauthorize, memory
  <2>2. /\ issued'[c] = issued[c] + 1 /\ stored'[c] = issued[c] + 1
        /\ \A d \in Connections \ {c} : /\ issued'[d] = issued[d] /\ stored'[d] = stored[d]
                                      /\ status'[d] = status[d]
        /\ \A d \in Connections : issued[d] \in Nat
    BY <2>1 DEF Typed, TypeOK
  <2>3. \A d \in Connections : stored'[d] <= issued'[d]
    BY <2>2 DEF Grants
  <2>4. ASSUME NEW t \in Tasks
        PROVE  /\ pc'[t] \in AtAccount => job'[t].grant <= issued'[job'[t].conn]
               /\ pc'[t] \in Working /\ job'[t].sawReauth =>
                    /\ job'[t].grant <= issued'[job'[t].conn]
                    /\ pc'[t] # "flip" /\ status'[job'[t].conn] = "ACTIVE" =>
                         job'[t].grant < issued'[job'[t].conn]
    <3>1. job[t].grant \in Nat
      BY <1>0, JobFields
    <3>2. CASE job[t].conn = c
      BY <1>0, <2>1, <2>2, <3>1, <3>2 DEF Grants
    <3>3. CASE job[t].conn # c
      BY <1>0, <2>1, <2>2, <3>3 DEF Grants
    <3> QED BY <3>2, <3>3
  <2> QED BY <2>3, <2>4 DEF Grants
<1>2. ASSUME NEW c \in Connections, DisableConnection(c)
      PROVE  Grants'
  BY <1>0, <1>2 DEF DisableConnection, Grants, Typed, TypeOK, memory, consents
<1>3. ASSUME NEW c \in Connections, EndDiscovery(c) \/ \E g \in honoured[c] : RevokeConsent(c, g)
      PROVE  Grants'
  BY <1>3 DEF EndDiscovery, RevokeConsent, Grants, memory, database
<1>4. CASE Crash
  BY <1>4 DEF Crash, Grants, database
<1> QED BY <1>1, <1>2, <1>3, <1>4 DEF Environment

LEMMA WorkInvariant == Spec => [](Typed /\ Books /\ Cursors /\ Grants)
<1>1. ASSUME Typed, Locks, Books, Cursors, Grants, [Next]_vars
      PROVE  Cursors' /\ Grants'
  <2>1. CASE UNCHANGED vars
    BY <1>1, <2>1 DEF Cursors, Grants, vars, memory, database, consents
  <2>2. ASSUME NEW t \in Tasks, Start(t)
        PROVE  Cursors' /\ Grants'
    <3>1. OthersKeep(t) /\ UNCHANGED <<database, consents>> /\ pc'[t] = "next"
      BY <1>1, <2>2 DEF Start, StartSyncAll, StartSyncAccount, Typed, TypeOK, OthersKeep
    <3>2. Cursors'
      BY <1>1, <3>1 DEF Cursors, OthersKeep, Working, InRun, Locked, PcValues, database
    <3>3. Grants'
      BY <1>1, <3>1 DEF Grants, OthersKeep, Working, InRun, Locked, PcValues, AtAccount,
                       database, consents
    <3> QED BY <3>2, <3>3
  <2>3. CASE Environment
    <3>1. cursor' = cursor
      BY <2>3 DEF Environment, Reauthorize, EndDiscovery, DisableConnection,
                  RevokeConsent, Crash, database
    <3>2. Crash => Cursors'
      BY DEF Crash, Cursors, Working, InRun, Locked, PcValues
    <3>3. UNCHANGED memory => Cursors'
      BY <1>1, <3>1 DEF Cursors, memory
    <3>4. Cursors'
      BY <2>3, <3>2, <3>3 DEF Environment, Reauthorize, EndDiscovery, DisableConnection,
                              RevokeConsent
    <3> QED BY <1>1, <2>3, <3>4, EnvironmentGrants
  <2> QED BY <1>1, <2>1, <2>2, <2>3, StepCursors, StepGrants DEF Next
<1>2. Init => Cursors /\ Grants
  BY DEF Init, Cursors, Grants, Working, InRun, Locked, PcValues, AtAccount
<1> QED BY <1>1, <1>2, BooksInvariant, PTL DEF Spec

\* The cursor of every account a running sync counts as processed is the one this
\* sync wrote: no other task moves it before the run has its verdict.
THEOREM ProcessedStaysFresh == Spec => []ProcessedIsFresh
<1>1. Books /\ Cursors => ProcessedIsFresh
  BY DEF Books, TaskBooks, Cursors, ProcessedIsFresh
<1> QED BY <1>1, WorkInvariant, PTL

\* A consent that turned out to be dead leaves the connection not ACTIVE, unless
\* the user has granted a newer one.
THEOREM DeadConsentsSurface == Spec => []DeadConsentSurfaces
<1>1. ASSUME Typed, Books, Grants, NEW t \in Tasks, job[t].sawReauth, pc[t] # "flip",
             status[job[t].conn] = "ACTIVE"
      PROVE  issued[job[t].conn] > job[t].grant
  <2>1. pc[t] \in Working
    BY <1>1 DEF Books, TaskBooks
  <2>2. job[t].conn \in Connections
    BY <1>1, <2>1 DEF Typed, Shape, Working, InRun, Locked, PcValues
  <2>3. issued[job[t].conn] \in Nat /\ job[t].grant \in Nat
    BY <1>1, <2>2, JobFields DEF Typed, TypeOK
  <2>4. job[t].grant < issued[job[t].conn]
    BY <1>1, <2>1 DEF Grants
  <2> QED BY <2>3, <2>4
<1>2. Typed /\ Books /\ Grants => DeadConsentSurfaces
  BY <1>1 DEF DeadConsentSurfaces
<1> QED BY <1>2, WorkInvariant, PTL
=============================================================================
