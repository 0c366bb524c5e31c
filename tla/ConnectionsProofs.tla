------------------------- MODULE ConnectionsProofs -------------------------
(***************************************************************************)
(* States are used once, credentials stay with their connection, finished  *)
(* discoveries are complete, and the newest refresh token is stored, for   *)
(* any connections, sessions, callbacks and accounts of the bank.          *)
(***************************************************************************)
EXTENDS Connections, TLAPS

\* A callback under way has a state, past the store a connection, and a refresh
\* under way has the grant of a row.
Shape ==
  /\ \A t \in Callbacks :
       /\ pc[t] # "idle" => task[t].state \in States
       /\ pc[t] \in {"list", "upsert"} => task[t].conn \in Connections
  /\ \A c \in Connections :
       /\ conn[c].exists => conn[c].grant \in States
       /\ sync[c].pc \in {"refresh", "persist"} => sync[c].grant \in States

Typed == TypeOK /\ Shape

LEMMA IdleTypes ==
  /\ NoConn \in ConnRow /\ NoAuth \in AuthRow
  /\ IdleTask \in Task
  /\ \A p \in {"idle", "running", "refused"} : NoRefresh(p) \in Refresh
BY DEF NoConn, ConnRow, ConnectionStatus, NoAuth, AuthRow, IdleTask, Task,
       NoRefresh, Refresh

LEMMA InitTyped == Init => Typed
BY IdleTypes DEF Init, Typed, TypeOK, Shape, PcValues, NoConn, NoRefresh

LEMMA SessionTyped ==
  ASSUME Typed, NEW s \in States, Session(s) \/ RevokeConsent(s)
  PROVE  Typed'
<1>1. ASSUME NEW target \in Connections \cup {None}, CreateAuthSession(s, target)
      PROVE  Typed'
  <2>1. [row |-> "present", old |-> FALSE, target |-> target] \in AuthRow
    BY DEF AuthRow
  <2> QED BY <1>1, <2>1 DEF CreateAuthSession, Typed, TypeOK, Shape, bank, history
<1>2. CASE UserAuthorizes(s)
  BY <1>2 DEF UserAuthorizes, Typed, TypeOK, Shape, database, history
<1>3. CASE SessionAges(s)
  <2>1. [auth[s] EXCEPT !.old = TRUE] \in AuthRow
    BY DEF Typed, TypeOK, AuthRow
  <2> QED BY <1>3, <2>1 DEF SessionAges, Typed, TypeOK, Shape, bank, history
<1>4. CASE RevokeConsent(s)
  BY <1>4 DEF RevokeConsent, Typed, TypeOK, Shape, database, history
<1> QED BY <1>1, <1>2, <1>3, <1>4 DEF Session

\* What the records are that the steps make of the old ones.
LEMMA TaskFields ==
  ASSUME NEW old \in Task
  PROVE  /\ \A s \in States : [old EXCEPT !.state = s] \in Task
         /\ \A c \in Connections : [old EXCEPT !.conn = c] \in Task
         /\ \A set \in SUBSET BankAccounts : [old EXCEPT !.todo = set] \in Task
         /\ old.todo \in SUBSET BankAccounts
BY DEF Task

LEMMA AuthFields ==
  ASSUME NEW old \in AuthRow
  PROVE  [old EXCEPT !.row = "deleted"] \in AuthRow /\ [old EXCEPT !.old = TRUE] \in AuthRow
BY DEF AuthRow

LEMMA ConnFields ==
  ASSUME NEW old \in ConnRow
  PROVE  /\ \A status \in ConnectionStatus : [old EXCEPT !.status = status] \in ConnRow
         /\ \A s \in States, n \in Nat :
              /\ [old EXCEPT !.grant = s, !.token = n] \in ConnRow
              /\ [old EXCEPT !.status = "ACTIVE", !.token = n, !.grant = s] \in ConnRow
              /\ [NoConn EXCEPT !.exists = TRUE, !.token = n, !.grant = s] \in ConnRow
         /\ [old EXCEPT !.discovered = TRUE] \in ConnRow
<1>1. \A status \in ConnectionStatus : [old EXCEPT !.status = status] \in ConnRow
  BY DEF ConnRow
<1>2. \A s \in States, n \in Nat : [old EXCEPT !.grant = s, !.token = n] \in ConnRow
  BY DEF ConnRow
<1>3. \A s \in States, n \in Nat :
        [old EXCEPT !.status = "ACTIVE", !.token = n, !.grant = s] \in ConnRow
  BY DEF ConnRow, ConnectionStatus
<1>4. \A s \in States, n \in Nat :
        [NoConn EXCEPT !.exists = TRUE, !.token = n, !.grant = s] \in ConnRow
  BY DEF ConnRow, ConnectionStatus, NoConn
<1>5. [old EXCEPT !.discovered = TRUE] \in ConnRow
  BY DEF ConnRow
<1> QED BY <1>1, <1>2, <1>3, <1>4, <1>5

\* One row of connections is replaced, one callback gets new locals.
LEMMA SetConn ==
  ASSUME TypeOK, NEW c \in Connections, NEW new \in ConnRow,
         conn' = [conn EXCEPT ![c] = new]
  PROVE  /\ conn' \in [Connections -> ConnRow] /\ conn'[c] = new
         /\ \A d \in Connections \ {c} : conn'[d] = conn[d]
BY DEF TypeOK

LEMMA SetTask ==
  ASSUME TypeOK, NEW t \in Callbacks, NEW new \in Task, NEW p \in PcValues,
         task' = [task EXCEPT ![t] = new], pc' = [pc EXCEPT ![t] = p]
  PROVE  /\ task' \in [Callbacks -> Task] /\ pc' \in [Callbacks -> PcValues]
         /\ task'[t] = new /\ pc'[t] = p
         /\ \A u \in Callbacks \ {t} : task'[u] = task[u] /\ pc'[u] = pc[u]
BY DEF TypeOK

LEMMA ReturnTyped ==
  ASSUME Typed, NEW t \in Callbacks, Return(t), UNCHANGED <<conn, sync>>
  PROVE  /\ pc' \in [Callbacks -> PcValues]
         /\ task' \in [Callbacks -> Task]
         /\ Shape'
BY IdleTypes DEF Return, Typed, TypeOK, Shape, PcValues

LEMMA StateTyped ==
  ASSUME Typed, NEW t \in Callbacks,
         \/ \E s \in States : FindState(t, s)
         \/ DeleteState(t) \/ DeleteLoses(t)
         \/ ExchangeCode(t) \/ ExchangeLost(t)
  PROVE  Typed'
<1>1. ASSUME NEW s \in States, FindState(t, s) PROVE Typed'
  <2> DEFINE new == [task[t] EXCEPT !.state = s]
  <2>1. new \in Task /\ new.state = s /\ "delete" \in PcValues
    <3>1. task[t] \in Task
      BY DEF Typed, TypeOK
    <3>2. new \in Task
      BY <3>1, TaskFields
    <3>3. new.state = s /\ "delete" \in PcValues
      BY <3>1 DEF Task, PcValues
    <3> QED BY <3>2, <3>3
  <2>2. task' = [task EXCEPT ![t] = new] /\ pc' = [pc EXCEPT ![t] = "delete"]
    BY <1>1 DEF FindState
  <2> HIDE DEF new
  <2>3. /\ task' \in [Callbacks -> Task] /\ pc' \in [Callbacks -> PcValues]
        /\ task'[t] = new /\ pc'[t] = "delete"
        /\ \A u \in Callbacks \ {t} : task'[u] = task[u] /\ pc'[u] = pc[u]
    BY <2>1, <2>2, SetTask DEF Typed
  <2> QED BY <1>1, <2>1, <2>3 DEF FindState, Typed, TypeOK, Shape, database, bank, history
<1>2. CASE DeleteState(t)
  <2>1. task[t].state \in States
    BY <1>2 DEF DeleteState, Typed, Shape
  <2>2. auth' \in [States -> AuthRow]
    <3>1. [auth[task[t].state] EXCEPT !.row = "deleted"] \in AuthRow
      BY <2>1, AuthFields DEF Typed, TypeOK
    <3> QED BY <1>2, <2>1, <3>1 DEF DeleteState, Typed, TypeOK
  <2>4. passed' \in [States -> Nat]
    BY <1>2, <2>1 DEF DeleteState, Typed, TypeOK
  <2>3. /\ pc' \in [Callbacks -> PcValues]
        /\ task' \in [Callbacks -> Task]
        /\ Shape'
    <3>1. CASE auth[task[t].state].old
      BY <1>2, <3>1, ReturnTyped DEF DeleteState
    <3>2. CASE ~auth[task[t].state].old
      BY <1>2, <3>2 DEF DeleteState, Typed, TypeOK, Shape, PcValues
    <3> QED BY <3>1, <3>2
  <2> QED BY <1>2, <2>2, <2>3, <2>4 DEF DeleteState, Typed, TypeOK, bank
<1>3. CASE DeleteLoses(t)
  BY <1>3, ReturnTyped DEF DeleteLoses, Typed, TypeOK, database, bank, history
<1>4. CASE ExchangeCode(t)
  BY <1>4 DEF ExchangeCode, Redeem, Typed, TypeOK, Shape, PcValues, database, history
<1>5. CASE ExchangeLost(t)
  BY <1>5 DEF ExchangeLost, Redeem, Typed, TypeOK, Shape, PcValues, database, history
<1> QED BY <1>1, <1>2, <1>3, <1>4, <1>5

LEMMA StoreTyped ==
  ASSUME Typed, NEW t \in Callbacks, NEW c \in Connections,
         StoreReauth(t, c) \/ StoreNew(t, c)
  PROVE  Typed'
<1>1. task[t].state \in States
  BY DEF StoreReauth, StoreNew, Typed, Shape
<1>2. PICK new \in ConnRow : /\ conn' = [conn EXCEPT ![c] = new]
                             /\ new.grant = task[t].state
  <2>1. CASE StoreReauth(t, c)
    <3> DEFINE new == [conn[c] EXCEPT !.status = "ACTIVE", !.token = 1,
                                      !.grant = task[t].state]
    <3>1. new \in ConnRow /\ new.grant = task[t].state
      <4>1. conn[c] \in ConnRow
        BY DEF Typed, TypeOK
      <4>2. new \in ConnRow
        BY <1>1, <4>1, ConnFields
      <4>3. new.grant = task[t].state
        BY <4>1 DEF ConnRow
      <4> QED BY <4>2, <4>3
    <3>2. conn' = [conn EXCEPT ![c] = new]
      BY <2>1 DEF StoreReauth
    <3> QED BY <3>1, <3>2
  <2>2. CASE StoreNew(t, c)
    <3> DEFINE new == [NoConn EXCEPT !.exists = TRUE, !.token = 1, !.grant = task[t].state]
    <3>1. new \in ConnRow /\ new.grant = task[t].state
      BY <1>1, ConnFields DEF Typed, TypeOK, NoConn
    <3>2. conn' = [conn EXCEPT ![c] = new]
      BY <2>2 DEF StoreNew
    <3> QED BY <3>1, <3>2
  <2> QED BY <2>1, <2>2
<1>3. /\ conn' \in [Connections -> ConnRow] /\ conn'[c] = new
      /\ \A d \in Connections \ {c} : conn'[d] = conn[d]
  BY <1>2, SetConn DEF Typed
<1> DEFINE here == [task[t] EXCEPT !.conn = c]
<1>4. here \in Task /\ here.state = task[t].state /\ here.conn = c /\ "list" \in PcValues
  BY TaskFields DEF Typed, TypeOK, Task, PcValues
<1>5. task' = [task EXCEPT ![t] = here] /\ pc' = [pc EXCEPT ![t] = "list"]
  BY DEF StoreReauth, StoreNew
<1> HIDE DEF here
<1>6. /\ task' \in [Callbacks -> Task] /\ pc' \in [Callbacks -> PcValues]
      /\ task'[t] = here /\ pc'[t] = "list"
      /\ \A u \in Callbacks \ {t} : task'[u] = task[u] /\ pc'[u] = pc[u]
  BY <1>4, <1>5, SetTask DEF Typed
<1>7. UNCHANGED <<accounts, auth, bank, sync, history>>
  BY DEF StoreReauth, StoreNew
<1> QED BY <1>1, <1>2, <1>3, <1>4, <1>6, <1>7 DEF Typed, TypeOK, Shape, bank, history

LEMMA DiscoveryTyped ==
  ASSUME Typed, NEW t \in Callbacks,
         \/ ListAccounts(t)
         \/ \E a \in BankAccounts : UpsertAccount(t, a)
         \/ FinishDiscovery(t) \/ CallbackFails(t)
  PROVE  Typed'
<1>1. CASE ListAccounts(t)
  <2>1. task' \in [Callbacks -> Task]
    BY <1>1, TaskFields DEF ListAccounts, Typed, TypeOK
  <2> QED BY <1>1, <2>1 DEF ListAccounts, Typed, TypeOK, Shape, PcValues, Task,
                            database, bank, history
<1>2. ASSUME NEW a \in BankAccounts, UpsertAccount(t, a) PROVE Typed'
  <2>1. task' \in [Callbacks -> Task]
    BY <1>2, TaskFields DEF UpsertAccount, Typed, TypeOK
  <2>2. accounts' \subseteq Connections \X BankAccounts
    BY <1>2 DEF UpsertAccount, Typed, TypeOK, Shape
  <2> QED BY <1>2, <2>1, <2>2 DEF UpsertAccount, Typed, TypeOK, Shape, Task, bank, history
<1>3. CASE FinishDiscovery(t)
  <2>1. task[t].conn \in Connections
    BY <1>3 DEF FinishDiscovery, Typed, Shape
  <2> DEFINE new == [conn[task[t].conn] EXCEPT !.discovered = TRUE]
  <2>3. /\ new \in ConnRow /\ new.exists = conn[task[t].conn].exists
        /\ new.grant = conn[task[t].conn].grant
    <3>1. conn[task[t].conn] \in ConnRow
      BY <2>1 DEF Typed, TypeOK
    <3>2. new \in ConnRow
      BY <3>1, ConnFields
    <3>3. /\ new.exists = conn[task[t].conn].exists
          /\ new.grant = conn[task[t].conn].grant
      BY <3>1 DEF ConnRow
    <3> QED BY <3>2, <3>3
  <2>4. conn' = [conn EXCEPT ![task[t].conn] = new]
    BY <1>3 DEF FinishDiscovery
  <2> HIDE DEF new
  <2>2. /\ conn' \in [Connections -> ConnRow]
        /\ \A c \in Connections : conn'[c].exists => conn'[c].grant \in States
    BY <2>1, <2>3, <2>4 DEF Typed, TypeOK, Shape
  <2> QED BY <1>3, <2>2, IdleTypes
          DEF FinishDiscovery, Return, Typed, TypeOK, Shape, PcValues, bank, history
<1>4. CASE CallbackFails(t)
  BY <1>4, ReturnTyped DEF CallbackFails, Typed, TypeOK, database, bank, history
<1> QED BY <1>1, <1>2, <1>3, <1>4

LEMMA RefreshTyped ==
  ASSUME Typed, NEW c \in Connections, RunSync(c)
  PROVE  Typed'
<1>1. CASE BeginRefresh(c)
  <2>1. [pc |-> "refresh", grant |-> conn[c].grant, token |-> conn[c].token] \in Refresh
    BY DEF Typed, TypeOK, ConnRow, Refresh
  <2> QED BY <1>1, <2>1 DEF BeginRefresh, Typed, TypeOK, Shape, database, bank, history
<1>2. CASE RefreshAnswered(c)
  <2>1. sync[c].grant \in States /\ sync[c].token \in Nat
    BY <1>2 DEF RefreshAnswered, Typed, TypeOK, Shape, Refresh
  <2>2. PICK token \in {sync[c].token, sync[c].token + 1} :
          /\ newest' = [newest EXCEPT ![sync[c].grant] = token]
          /\ sync' = [sync EXCEPT ![c].pc = "persist", ![c].token = token]
    BY <1>2 DEF RefreshAnswered
  <2> DEFINE new == [sync[c] EXCEPT !.pc = "persist", !.token = token]
  <2>3. token \in Nat
    BY <2>1, <2>2
  <2>4. new \in Refresh /\ new.grant = sync[c].grant
    BY <2>3 DEF Typed, TypeOK, Refresh
  <2>5. sync' = [sync EXCEPT ![c] = new]
    BY <2>2
  <2>6. newest' \in [States -> Nat]
    BY <2>1, <2>2, <2>3 DEF Typed, TypeOK
  <2> HIDE DEF new
  <2> QED BY <1>2, <2>1, <2>4, <2>5, <2>6
          DEF RefreshAnswered, Typed, TypeOK, Shape, database, history
<1>3. CASE RefreshLost(c)
  <2>1. sync[c].grant \in States /\ sync[c].token \in Nat
    BY <1>3 DEF RefreshLost, Typed, TypeOK, Shape, Refresh
  <2> QED BY <1>3, <2>1 DEF RefreshLost, Typed, TypeOK, Shape, database
<1>4. CASE RefreshRejected(c)
  <2>1. conn' \in [Connections -> ConnRow]
    BY <1>4, ConnFields DEF RefreshRejected, Typed, TypeOK, ConnectionStatus
  <2> QED BY <1>4, <2>1, IdleTypes
          DEF RefreshRejected, Typed, TypeOK, Shape, ConnRow, NoRefresh, bank, history
<1>5. CASE PersistTokens(c)
  <2>1. sync[c].grant \in States /\ sync[c].token \in Nat
    BY <1>5 DEF PersistTokens, Typed, TypeOK, Shape, Refresh
  <2>2. conn' \in [Connections -> ConnRow]
    BY <1>5, <2>1, ConnFields DEF PersistTokens, Typed, TypeOK
  <2> QED BY <1>5, <2>1, <2>2, IdleTypes
          DEF PersistTokens, Typed, TypeOK, Shape, ConnRow, NoRefresh, bank, history
<1>6. CASE RefreshFails(c)
  BY <1>6, IdleTypes DEF RefreshFails, Unsaved, Typed, TypeOK, Shape, NoRefresh, database, bank
<1>7. CASE BeginSync(c) \/ DataRefused(c) \/ EndSync(c)
  <2>1. PICK p \in {"idle", "running", "refused"} : sync' = [sync EXCEPT ![c] = NoRefresh(p)]
    BY <1>7 DEF BeginSync, DataRefused, EndSync
  <2>2. UNCHANGED <<database, bank, pc, task, history>>
    BY <1>7 DEF BeginSync, DataRefused, EndSync
  <2> QED BY <2>1, <2>2, IdleTypes
          DEF Typed, TypeOK, Shape, NoRefresh, database, bank, history
<1>8. CASE MarkReauth(c)
  <2>1. conn' \in [Connections -> ConnRow]
    BY <1>8, ConnFields DEF MarkReauth, Typed, TypeOK, ConnectionStatus
  <2> QED BY <1>8, <2>1, IdleTypes
          DEF MarkReauth, Typed, TypeOK, Shape, ConnRow, NoRefresh, bank, history
<1> QED BY <1>1, <1>2, <1>3, <1>4, <1>5, <1>6, <1>7, <1>8 DEF RunSync, RefreshTokens

LEMMA OutsideTyped ==
  ASSUME Typed, (\E c \in Connections : DisableConnection(c)) \/ Crash
  PROVE  Typed'
<1>1. ASSUME NEW c \in Connections, DisableConnection(c) PROVE Typed'
  <2>1. conn' \in [Connections -> ConnRow]
    BY <1>1, ConnFields DEF DisableConnection, Typed, TypeOK, ConnectionStatus
  <2> QED BY <1>1, <2>1
          DEF DisableConnection, Typed, TypeOK, Shape, ConnRow, bank, history
<1>2. CASE Crash
  BY <1>2, IdleTypes DEF Crash, Unsaved, Typed, TypeOK, Shape, PcValues, NoRefresh,
                         database, bank
<1> QED BY <1>1, <1>2

LEMMA CallbackTyped ==
  ASSUME Typed, NEW t \in Callbacks, HandleCallback(t)
  PROVE  Typed'
BY StateTyped, StoreTyped, DiscoveryTyped DEF HandleCallback

LEMMA StutterTyped == Typed /\ UNCHANGED vars => Typed'
BY DEF Typed, TypeOK, Shape, vars, database, bank, history

LEMMA NextTyped == Typed /\ [Next]_vars => Typed'
BY SessionTyped, CallbackTyped, RefreshTyped, OutsideTyped, StutterTyped DEF Next

LEMMA TypedInvariant == Spec => []Typed
BY InitTyped, NextTyped, PTL DEF Spec

\* The rows, the bank's records and the locals keep their types: TypeOK,
\* together with where a callback or a refresh has a state or a row in hand.
THEOREM TypeCorrect == Spec => []TypeOK
BY TypedInvariant, PTL DEF Typed

-----------------------------------------------------------------------------
(***************************************************************************)
(* What a group of actions leaves alone.                                   *)
(***************************************************************************)
LEMMA CallbackFrame ==
  ASSUME NEW t \in Callbacks, HandleCallback(t)
  PROVE  /\ UNCHANGED <<sync, mislaid>>
         /\ DeleteState(t) \/ UNCHANGED <<auth, passed>>
BY DEF HandleCallback, FindState, DeleteState, DeleteLoses, ExchangeCode, ExchangeLost,
       Redeem, StoreReauth, StoreNew, ListAccounts, UpsertAccount, FinishDiscovery,
       CallbackFails, Return, database, bank, history

LEMMA RefreshFrame ==
  ASSUME NEW c \in Connections,
         RunSync(c) \/ DisableConnection(c)
  PROVE  UNCHANGED <<accounts, auth, code, alive, pc, task, passed>>
BY DEF RunSync, BeginSync, RefreshTokens, BeginRefresh, RefreshAnswered, RefreshLost,
       RefreshRejected, PersistTokens, RefreshFails, DataRefused, MarkReauth, EndSync,
       DisableConnection, database, bank, history

LEMMA SessionFrame ==
  ASSUME NEW s \in States, Session(s) \/ RevokeConsent(s)
  PROVE  UNCHANGED <<conn, accounts, newest, pc, task, sync, passed, mislaid>>
BY DEF Session, CreateAuthSession, UserAuthorizes, SessionAges, RevokeConsent,
       database, bank, history

LEMMA CrashFrame ==
  ASSUME Crash
  PROVE  /\ UNCHANGED <<conn, accounts, auth, newest, passed>>
         /\ \A t \in Callbacks : pc'[t] = "idle"
         /\ \A c \in Connections : sync'[c].pc = "idle"
BY DEF Crash, NoRefresh, database, bank

\* A session is only ever made from an unused state, and a deleted one stays.
LEMMA SessionKeeps ==
  ASSUME Typed, NEW s \in States, Session(s) \/ RevokeConsent(s), NEW r \in States
  PROVE  /\ auth[r].row = "deleted" => auth'[r] = auth[r]
         /\ auth'[r].row = "deleted" => auth[r].row = "deleted"
<1>1. ASSUME NEW target \in Connections \cup {None}, CreateAuthSession(s, target)
      PROVE  /\ auth[r].row = "deleted" => auth'[r] = auth[r]
             /\ auth'[r].row = "deleted" => auth[r].row = "deleted"
  BY <1>1 DEF CreateAuthSession, Typed, TypeOK
<1>2. CASE SessionAges(s)
  BY <1>2 DEF SessionAges, Typed, TypeOK, AuthRow
<1>3. CASE UserAuthorizes(s) \/ RevokeConsent(s)
  BY <1>3 DEF UserAuthorizes, RevokeConsent, database
<1> QED BY <1>1, <1>2, <1>3 DEF Session

-----------------------------------------------------------------------------
(***************************************************************************)
(* A state is used once.                                                   *)
(***************************************************************************)

\* The row of a state is there until a callback gets through with it.
Once == \A s \in States :
          passed[s] <= 1 /\ (auth[s].row # "deleted" => passed[s] = 0)

LEMMA OnceStep == Typed /\ Once /\ [Next]_vars => Once'
<1> SUFFICES ASSUME Typed, Once, [Next]_vars PROVE Once'
  OBVIOUS
<1>1. ASSUME NEW s \in States, Session(s) \/ RevokeConsent(s) PROVE Once'
  BY <1>1, SessionFrame, SessionKeeps DEF Once
<1>2. ASSUME NEW t \in Callbacks, HandleCallback(t) PROVE Once'
  <2>1. CASE DeleteState(t)
    <3>1. task[t].state \in States /\ auth[task[t].state].row = "present"
      BY <2>1 DEF DeleteState, Typed, Shape
    <3>2. auth'[task[t].state].row = "deleted"
      BY <2>1, <3>1 DEF DeleteState, Typed, TypeOK, AuthRow
    <3>3. \A s \in States \ {task[t].state} : auth'[s] = auth[s] /\ passed'[s] = passed[s]
      BY <2>1, <3>1 DEF DeleteState, Typed, TypeOK
    <3>4. passed'[task[t].state] \in {0, 1}
      BY <2>1, <3>1 DEF DeleteState, Typed, TypeOK, Once
    <3> QED BY <3>2, <3>3, <3>4 DEF Once
  <2>2. CASE UNCHANGED <<auth, passed>>
    BY <2>2 DEF Once
  <2> QED BY <1>2, <2>1, <2>2, CallbackFrame
<1>3. ASSUME NEW c \in Connections,
             RunSync(c) \/ DisableConnection(c)
      PROVE  Once'
  BY <1>3, RefreshFrame DEF Once
<1>4. CASE Crash
  BY <1>4, CrashFrame DEF Once
<1>5. CASE UNCHANGED vars
  BY <1>5 DEF Once, vars, database, history
<1> QED BY <1>1, <1>2, <1>3, <1>4, <1>5 DEF Next

\* Of all callbacks with a state, concurrent or not, one at most goes on to use
\* the session's code: the row is found by any number, and deleted by one.
THEOREM UsedOnce == Spec => []StateUsedOnce
<1>1. Init => Once
  BY DEF Init, Once
<1>2. Once => StateUsedOnce
  BY DEF Once, StateUsedOnce
<1> QED BY <1>1, <1>2, TypedInvariant, OnceStep, PTL DEF Spec

-----------------------------------------------------------------------------
(***************************************************************************)
(* The callbacks that got through have different states.                   *)
(***************************************************************************)
Holding == {"exchange", "store", "list", "upsert"}

InHand ==
  /\ \A t \in Callbacks : pc[t] \in Holding => auth[task[t].state].row = "deleted"
  /\ \A t, u \in Callbacks :
       pc[t] \in Holding /\ pc[u] \in Holding /\ task[t].state = task[u].state => t = u

\* Only DeleteState brings a callback a state it did not have, and no step of a
\* callback moves another.
LEMMA CallbackMoves ==
  ASSUME Typed, NEW t \in Callbacks, HandleCallback(t)
  PROVE  /\ \A u \in Callbacks \ {t} : pc'[u] = pc[u] /\ task'[u] = task[u]
         /\ pc'[t] \in Holding => /\ task'[t].state = task[t].state
                                  /\ pc[t] \in Holding \/ DeleteState(t)
<1>1. ASSUME NEW s \in States, FindState(t, s)
      PROVE  /\ \A u \in Callbacks \ {t} : pc'[u] = pc[u] /\ task'[u] = task[u]
             /\ pc'[t] \notin Holding
  BY <1>1 DEF FindState, Typed, TypeOK, Holding
<1>2. CASE DeleteLoses(t) \/ FinishDiscovery(t) \/ CallbackFails(t)
  BY <1>2 DEF DeleteLoses, FinishDiscovery, CallbackFails, Return, Typed, TypeOK, Holding
<1>3. CASE DeleteState(t)
  BY <1>3 DEF DeleteState, Return, Typed, TypeOK, Holding
<1>4. CASE ExchangeCode(t) \/ ExchangeLost(t)
  BY <1>4 DEF ExchangeCode, ExchangeLost, Typed, TypeOK, Holding
<1>5. ASSUME NEW c \in Connections, StoreReauth(t, c) \/ StoreNew(t, c)
      PROVE  /\ \A u \in Callbacks \ {t} : pc'[u] = pc[u] /\ task'[u] = task[u]
             /\ task'[t].state = task[t].state /\ pc[t] \in Holding
  BY <1>5 DEF StoreReauth, StoreNew, Typed, TypeOK, Task, Holding
<1>6. CASE ListAccounts(t)
  BY <1>6 DEF ListAccounts, Typed, TypeOK, Task, Holding
<1>7. ASSUME NEW a \in BankAccounts, UpsertAccount(t, a)
      PROVE  /\ \A u \in Callbacks \ {t} : pc'[u] = pc[u] /\ task'[u] = task[u]
             /\ task'[t].state = task[t].state /\ pc[t] \in Holding
  BY <1>7 DEF UpsertAccount, Typed, TypeOK, Task, Holding
<1> QED BY <1>1, <1>2, <1>3, <1>4, <1>5, <1>6, <1>7 DEF HandleCallback

LEMMA InHandStep == Typed /\ InHand /\ [Next]_vars => InHand'
<1> SUFFICES ASSUME Typed, InHand, [Next]_vars PROVE InHand'
  OBVIOUS
<1>0. \A t \in Callbacks : pc[t] \in Holding => task[t].state \in States
  BY DEF Typed, Shape, Holding
<1>1. ASSUME NEW s \in States, Session(s) \/ RevokeConsent(s) PROVE InHand'
  BY <1>0, <1>1, SessionFrame, SessionKeeps DEF InHand
<1>2. ASSUME NEW t \in Callbacks, HandleCallback(t) PROVE InHand'
  <2>1. CASE DeleteState(t)
    <3>1. task[t].state \in States /\ auth[task[t].state].row = "present"
      BY <2>1 DEF DeleteState, Typed, Shape
    <3>2. /\ auth'[task[t].state].row = "deleted"
          /\ \A s \in States \ {task[t].state} : auth'[s] = auth[s]
      BY <2>1, <3>1 DEF DeleteState, Typed, TypeOK, AuthRow
    <3>3. \A u \in Callbacks : pc[u] \in Holding => task[u].state # task[t].state
      BY <3>1 DEF InHand
    <3> QED BY <1>0, <1>2, <3>2, <3>3, CallbackMoves DEF InHand
  <2>2. CASE UNCHANGED auth /\ ~DeleteState(t)
    BY <1>2, <2>2, CallbackMoves DEF InHand
  <2> QED BY <1>2, <2>1, <2>2, CallbackFrame
<1>3. ASSUME NEW c \in Connections,
             RunSync(c) \/ DisableConnection(c)
      PROVE  InHand'
  BY <1>3, RefreshFrame DEF InHand
<1>4. CASE Crash
  BY <1>4, CrashFrame DEF InHand, Holding
<1>5. CASE UNCHANGED vars
  BY <1>5 DEF InHand, vars, database
<1> QED BY <1>1, <1>2, <1>3, <1>4, <1>5 DEF Next

LEMMA InHandInvariant == Spec => []InHand
<1>1. Init => InHand
  BY DEF Init, InHand, Holding
<1> QED BY <1>1, TypedInvariant, InHandStep, PTL DEF Spec

-----------------------------------------------------------------------------
(***************************************************************************)
(* Credentials stay with their connection.                                 *)
(***************************************************************************)

\* A connection has a grant in its row, or a sync has it in hand.
Holds(c, s) == \/ conn[c].exists /\ conn[c].grant = s
               \/ sync[c].pc \in {"refresh", "persist"} /\ sync[c].grant = s

Rows ==
  /\ \A c \in Connections : /\ ~conn[c].exists => conn[c].grant = None
                            /\ sync[c].pc \in {"refresh", "persist"} => conn[c].exists
  /\ \A s \in States : auth[s].target # None => conn[auth[s].target].exists

Credentials ==
  /\ \A c \in Connections, s \in States :
       Holds(c, s) => auth[s].row = "deleted" /\ auth[s].target \in {c, None}
  /\ \A c, d \in Connections, s \in States : Holds(c, s) /\ Holds(d, s) => c = d
  /\ \A t \in Callbacks, c \in Connections :
       pc[t] \in {"exchange", "store"} => ~Holds(c, task[t].state)

\* A callback that stores gives its state to one connection that may have it;
\* every other step leaves every connection with some of the grants it had.
LEMMA NoneIsNoConnection == None \notin Connections
BY ConnectionNoneAssumption

LEMMA StoreGives ==
  ASSUME Typed, Rows, NEW t \in Callbacks, NEW c \in Connections,
         StoreReauth(t, c) \/ StoreNew(t, c)
  PROVE  /\ Rows'
         /\ \A d \in Connections, s \in States :
              Holds(d, s)' => Holds(d, s) \/ (d = c /\ s = task[t].state)
         /\ pc[t] = "store" /\ pc'[t] = "list" /\ task[t].state \in States
         /\ auth[task[t].state].target \in {c, None}
         /\ UNCHANGED <<auth, newest, sync>>
         /\ conn'[c].token = 1 /\ conn'[c].grant = task[t].state
         /\ \A d \in Connections \ {c} : conn'[d] = conn[d]
         /\ conn'[c].discovered => conn[c].discovered
<1>1. pc[t] = "store" /\ pc'[t] = "list" /\ task[t].state \in States
  BY DEF StoreReauth, StoreNew, Typed, TypeOK, Shape
<1>2. auth[task[t].state].target \in {c, None} /\ UNCHANGED <<auth, newest, sync>>
  BY DEF StoreReauth, StoreNew, bank
<1>3. /\ conn'[c].exists /\ conn'[c].token = 1 /\ conn'[c].grant = task[t].state
      /\ \A d \in Connections \ {c} : conn'[d] = conn[d]
      /\ conn'[c].discovered => conn[c].discovered
  <2>1. CASE StoreReauth(t, c)
    <3>1. conn[c].exists
      BY <1>1, <2>1, NoneIsNoConnection DEF StoreReauth, Rows
    <3>2. conn' = [conn EXCEPT ![c] = [conn[c] EXCEPT !.status = "ACTIVE", !.token = 1,
                                                      !.grant = task[t].state]]
      BY <2>1 DEF StoreReauth
    <3>3. conn \in [Connections -> ConnRow]
      BY DEF Typed, TypeOK
    <3> QED BY <3>1, <3>2, <3>3 DEF ConnRow
  <2>2. CASE StoreNew(t, c)
    BY <2>2 DEF StoreNew, Typed, TypeOK, NoConn
  <2> QED BY <2>1, <2>2
<1>4. \A s \in States : auth[s].target \in Connections \cup {None}
  BY DEF Typed, TypeOK, AuthRow
<1>5. Rows'
  BY <1>2, <1>3, <1>4 DEF Rows
<1>6. \A d \in Connections, s \in States :
        Holds(d, s)' => Holds(d, s) \/ (d = c /\ s = task[t].state)
  BY <1>2, <1>3 DEF Holds
<1> QED BY <1>1, <1>2, <1>3, <1>5, <1>6

LEMMA CallbackKeeps ==
  ASSUME Typed, Rows, NEW t \in Callbacks, HandleCallback(t),
         ~\E c \in Connections : StoreReauth(t, c) \/ StoreNew(t, c)
  PROVE  /\ Rows'
         /\ \A d \in Connections, s \in States : Holds(d, s)' => Holds(d, s)
<1>1. \A c \in Connections : conn'[c].exists = conn[c].exists /\ conn'[c].grant = conn[c].grant
  <2>1. CASE FinishDiscovery(t)
    <3>1. task[t].conn \in Connections
      BY <2>1 DEF FinishDiscovery, Typed, Shape
    <3> QED BY <2>1, <3>1 DEF FinishDiscovery, Typed, TypeOK, ConnRow
  <2>2. CASE UNCHANGED conn
    BY <2>2
  <2>3. FinishDiscovery(t) \/ UNCHANGED conn
    BY DEF HandleCallback, FindState, DeleteState, DeleteLoses, ExchangeCode, ExchangeLost,
           ListAccounts, UpsertAccount, CallbackFails, database
  <2> QED BY <2>1, <2>2, <2>3
<1>2. \A s \in States : auth'[s].target = auth[s].target
  <2>1. CASE DeleteState(t)
    BY <2>1 DEF DeleteState, Typed, TypeOK, Shape, AuthRow
  <2> QED BY <2>1, CallbackFrame
<1>3. \A s \in States : auth[s].target \in Connections \cup {None}
  BY DEF Typed, TypeOK, AuthRow
<1>4. UNCHANGED sync
  BY CallbackFrame
<1>5. Rows'
  BY <1>1, <1>2, <1>3, <1>4 DEF Rows
<1>6. \A d \in Connections, s \in States : Holds(d, s)' => Holds(d, s)
  BY <1>1, <1>4 DEF Holds
<1> QED BY <1>5, <1>6

LEMMA RefreshKeeps ==
  ASSUME Typed, Rows, NEW c \in Connections,
         RunSync(c) \/ DisableConnection(c)
  PROVE  /\ Rows'
         /\ \A d \in Connections, s \in States : Holds(d, s)' => Holds(d, s)
         /\ \A d \in Connections \ {c} : conn'[d] = conn[d] /\ sync'[d] = sync[d]
<1>1. \A d \in Connections \ {c} : conn'[d] = conn[d] /\ sync'[d] = sync[d]
  BY DEF RunSync, BeginSync, RefreshTokens, BeginRefresh, RefreshAnswered, RefreshLost,
         RefreshRejected, PersistTokens, RefreshFails, DataRefused, MarkReauth, EndSync,
         DisableConnection, Typed, TypeOK, database
<1>2. /\ conn'[c].exists = conn[c].exists
      /\ sync'[c].pc \in {"refresh", "persist"} => conn[c].exists
      /\ \/ conn'[c].grant = conn[c].grant
         \/ conn[c].exists /\ sync[c].pc \in {"refresh", "persist"} /\ conn'[c].grant = sync[c].grant
      /\ sync'[c].pc \in {"refresh", "persist"} =>
           \/ conn[c].exists /\ sync'[c].grant = conn[c].grant
           \/ sync[c].pc \in {"refresh", "persist"} /\ sync'[c].grant = sync[c].grant
  <2>0. conn \in [Connections -> ConnRow] /\ sync \in [Connections -> Refresh]
    BY DEF Typed, TypeOK
  <2>1. CASE BeginRefresh(c)
    <3>1. conn' = conn /\ conn[c].exists
      BY <2>1 DEF BeginRefresh, database
    <3>2. sync'[c].grant = conn[c].grant
      BY <2>0, <2>1 DEF BeginRefresh
    <3> QED BY <3>1, <3>2
  <2>2. CASE RefreshAnswered(c)
    <3>1. conn' = conn /\ sync[c].pc \in {"refresh", "persist"}
      BY <2>2 DEF RefreshAnswered, database
    <3>2. PICK token \in {sync[c].token, sync[c].token + 1} :
            sync' = [sync EXCEPT ![c].pc = "persist", ![c].token = token]
      BY <2>2 DEF RefreshAnswered
    <3>3. sync'[c].grant = sync[c].grant
      BY <2>0, <3>2 DEF Refresh
    <3> QED BY <3>1, <3>3 DEF Rows
  <2>3. CASE RefreshLost(c)
    <3>1. conn' = conn /\ sync' = sync /\ sync[c].pc \in {"refresh", "persist"}
      BY <2>3 DEF RefreshLost, database
    <3> QED BY <3>1 DEF Rows
  <2>4. CASE RefreshRejected(c)
    <3>1. conn'[c].exists = conn[c].exists /\ conn'[c].grant = conn[c].grant
      BY <2>0, <2>4 DEF RefreshRejected, ConnRow
    <3>2. sync'[c].pc \notin {"refresh", "persist"}
      BY <2>0, <2>4 DEF RefreshRejected, NoRefresh
    <3> QED BY <3>1, <3>2
  <2>5. CASE RefreshFails(c)
    <3>1. conn' = conn
      BY <2>5 DEF RefreshFails, database
    <3>2. sync'[c].pc \notin {"refresh", "persist"}
      BY <2>0, <2>5 DEF RefreshFails, NoRefresh
    <3> QED BY <3>1, <3>2
  <2>6. CASE PersistTokens(c)
    <3>1. /\ conn'[c].exists = conn[c].exists /\ conn'[c].grant = sync[c].grant
          /\ sync[c].pc \in {"refresh", "persist"}
      BY <2>0, <2>6 DEF PersistTokens, ConnRow
    <3>2. sync'[c].pc \notin {"refresh", "persist"}
      BY <2>0, <2>6 DEF PersistTokens, NoRefresh
    <3> QED BY <3>1, <3>2 DEF Rows
  <2>7. CASE DisableConnection(c)
    <3>1. conn'[c].exists = conn[c].exists /\ conn'[c].grant = conn[c].grant
      BY <2>0, <2>7 DEF DisableConnection, ConnRow
    <3>2. sync' = sync /\ conn[c].exists
      BY <2>7 DEF DisableConnection
    <3> QED BY <3>1, <3>2
  <2>8. CASE BeginSync(c) \/ DataRefused(c) \/ MarkReauth(c) \/ EndSync(c)
    <3>1. conn'[c].exists = conn[c].exists /\ conn'[c].grant = conn[c].grant
      BY <2>0, <2>8 DEF BeginSync, DataRefused, MarkReauth, EndSync, ConnRow, database
    <3>2. sync'[c].pc \notin {"refresh", "persist"}
      BY <2>0, <2>8 DEF BeginSync, DataRefused, MarkReauth, EndSync, NoRefresh
    <3> QED BY <3>1, <3>2
  <2> QED BY <2>1, <2>2, <2>3, <2>4, <2>5, <2>6, <2>7, <2>8 DEF RunSync, RefreshTokens
<1>3. \A s \in States : auth[s].target \in Connections \cup {None} /\ auth'[s] = auth[s]
  BY RefreshFrame DEF Typed, TypeOK, AuthRow
<1>4. Rows'
  <2>1. ASSUME NEW d \in Connections
        PROVE  /\ ~conn'[d].exists => conn'[d].grant = None
               /\ sync'[d].pc \in {"refresh", "persist"} => conn'[d].exists
    BY <1>1, <1>2 DEF Rows
  <2>2. \A d \in Connections : conn[d].exists => conn'[d].exists
    BY <1>1, <1>2
  <2>3. \A s \in States : auth'[s].target # None => conn'[auth'[s].target].exists
    BY <1>3, <2>2 DEF Rows
  <2> QED BY <2>1, <2>3 DEF Rows
<1>5. \A d \in Connections, s \in States : Holds(d, s)' => Holds(d, s)
  BY <1>1, <1>2 DEF Holds
<1> QED BY <1>1, <1>4, <1>5

LEMMA SessionRows ==
  ASSUME Typed, Rows, NEW s \in States, Session(s) \/ RevokeConsent(s)
  PROVE  Rows'
<1>1. UNCHANGED <<conn, sync>>
  BY SessionFrame
<1>2. ASSUME NEW r \in States
      PROVE  \/ auth'[r].target = auth[r].target
             \/ auth'[r].target # None => conn[auth'[r].target].exists
  <2>1. ASSUME NEW target \in Connections \cup {None}, CreateAuthSession(s, target)
        PROVE  \/ auth'[r].target = auth[r].target
               \/ auth'[r].target # None => conn[auth'[r].target].exists
    BY <2>1 DEF CreateAuthSession, Typed, TypeOK
  <2>2. CASE SessionAges(s)
    BY <2>2 DEF SessionAges, Typed, TypeOK, AuthRow
  <2>3. CASE UserAuthorizes(s) \/ RevokeConsent(s)
    BY <2>3 DEF UserAuthorizes, RevokeConsent, database
  <2> QED BY <2>1, <2>2, <2>3 DEF Session
<1> QED BY <1>1, <1>2 DEF Rows

LEMMA CredentialsStep ==
  Typed /\ InHand /\ Rows /\ Credentials /\ [Next]_vars => Rows' /\ Credentials'
<1> SUFFICES ASSUME Typed, InHand, Rows, Credentials, [Next]_vars
             PROVE  Rows' /\ Credentials'
  OBVIOUS
<1>1. ASSUME NEW s \in States, Session(s) \/ RevokeConsent(s) PROVE Rows' /\ Credentials'
  <2>1. \A d \in Connections, r \in States : Holds(d, r)' => Holds(d, r)
    BY <1>1, SessionFrame DEF Holds
  <2>2. \A r \in States : auth[r].row = "deleted" => auth'[r] = auth[r]
    BY <1>1, SessionKeeps
  <2>3. \A t \in Callbacks : pc[t] \in {"exchange", "store"} => task[t].state \in States
    BY DEF Typed, Shape
  <2> QED BY <1>1, <2>1, <2>2, <2>3, SessionFrame, SessionRows DEF Credentials
<1>2. ASSUME NEW t \in Callbacks, HandleCallback(t) PROVE Rows' /\ Credentials'
  <2>0. \A u \in Callbacks : pc[u] # "idle" => task[u].state \in States
    BY DEF Typed, Shape
  <2>1. ASSUME NEW c \in Connections, StoreReauth(t, c) \/ StoreNew(t, c)
        PROVE  Rows' /\ Credentials'
    <3>1. /\ \A d \in Connections, r \in States :
               Holds(d, r)' => Holds(d, r) \/ (d = c /\ r = task[t].state)
          /\ pc[t] = "store" /\ pc'[t] = "list" /\ task[t].state \in States
          /\ auth[task[t].state].target \in {c, None} /\ UNCHANGED auth /\ Rows'
      BY <2>1, StoreGives
    <3>2. auth[task[t].state].row = "deleted"
      BY <3>1 DEF InHand, Holding
    <3>3. \A d \in Connections : ~Holds(d, task[t].state)
      BY <3>1 DEF Credentials
    <3>4. \A u \in Callbacks \ {t} : pc[u] \in Holding => task[u].state # task[t].state
      BY <3>1 DEF InHand, Holding
    <3>5. \A u \in Callbacks \ {t} : pc'[u] = pc[u] /\ task'[u] = task[u]
      BY <1>2, CallbackMoves
    <3> QED BY <2>0, <3>1, <3>2, <3>3, <3>4, <3>5 DEF Credentials, Holding
  <2>2. CASE ~\E c \in Connections : StoreReauth(t, c) \/ StoreNew(t, c)
    <3>1. Rows' /\ \A d \in Connections, r \in States : Holds(d, r)' => Holds(d, r)
      BY <1>2, <2>2, CallbackKeeps
    <3>2. /\ \A r \in States : /\ auth'[r].target = auth[r].target
                               /\ auth[r].row = "deleted" => auth'[r].row = "deleted"
          /\ DeleteState(t) => auth[task[t].state].row = "present"
      <4>1. CASE DeleteState(t)
        BY <2>0, <4>1 DEF DeleteState, Typed, TypeOK, AuthRow
      <4> QED BY <1>2, <4>1, CallbackFrame
    <3>3. \A u \in Callbacks : pc'[u] \in {"exchange", "store"} =>
            /\ task'[u].state = task[u].state /\ task[u].state \in States
            /\ \A d \in Connections : ~Holds(d, task[u].state)
      <4>1. ASSUME NEW u \in Callbacks \ {t}, pc'[u] \in {"exchange", "store"}
            PROVE  /\ task'[u].state = task[u].state /\ task[u].state \in States
                   /\ \A d \in Connections : ~Holds(d, task[u].state)
        BY <1>2, <2>0, <4>1, CallbackMoves DEF Credentials
      <4>2. ASSUME pc'[t] \in {"exchange", "store"}
            PROVE  /\ task'[t].state = task[t].state /\ task[t].state \in States
                   /\ \A d \in Connections : ~Holds(d, task[t].state)
        <5>1. DeleteState(t) \/ pc[t] \in {"exchange", "store"}
          BY <1>2, <2>2, <4>2
             DEF HandleCallback, FindState, DeleteLoses, ExchangeCode, ExchangeLost,
                 ListAccounts, UpsertAccount, FinishDiscovery, CallbackFails, Return,
                 Typed, TypeOK
        <5>2. task'[t].state = task[t].state
          BY <1>2, <4>2, CallbackMoves DEF Holding
        <5>3. CASE DeleteState(t)
          BY <2>0, <3>2, <5>2, <5>3 DEF Credentials, DeleteState
        <5>4. CASE pc[t] \in {"exchange", "store"}
          BY <2>0, <5>2, <5>4 DEF Credentials
        <5> QED BY <5>1, <5>3, <5>4
      <4> QED BY <4>1, <4>2
    <3> QED BY <3>1, <3>2, <3>3 DEF Credentials
  <2> QED BY <2>1, <2>2
<1>3. ASSUME NEW c \in Connections,
             RunSync(c) \/ DisableConnection(c)
      PROVE  Rows' /\ Credentials'
  <2>1. \A t \in Callbacks : pc[t] \in {"exchange", "store"} => task[t].state \in States
    BY DEF Typed, Shape
  <2> QED BY <1>3, <2>1, RefreshFrame, RefreshKeeps DEF Credentials
<1>4. CASE Crash
  <2>1. \A d \in Connections, r \in States : Holds(d, r)' => Holds(d, r)
    BY <1>4, CrashFrame DEF Holds
  <2> QED BY <1>4, <2>1, CrashFrame DEF Credentials, Rows
<1>5. CASE UNCHANGED vars
  BY <1>5 DEF Credentials, Rows, Holds, vars, database
<1> QED BY <1>1, <1>2, <1>3, <1>4, <1>5 DEF Next

LEMMA CredentialsInvariant == Spec => [](Rows /\ Credentials)
<1>1. Init => Rows /\ Credentials
  BY DEF Init, Rows, Credentials, Holds, NoConn, NoRefresh, NoAuth
<1> QED BY <1>1, TypedInvariant, InHandInvariant, CredentialsStep, PTL DEF Spec

\* The credentials of a connection come from a session for it, or from the one
\* session that made it, and no two connections share them.
THEOREM CredentialsCorrect == Spec => []CredentialsMatch
<1>1. Typed /\ Rows /\ Credentials => CredentialsMatch
  <2> SUFFICES ASSUME Typed, Rows, Credentials, NEW c \in Connections, conn[c].exists
               PROVE  /\ conn[c].grant # None
                      /\ auth[conn[c].grant].target \in {c, None}
                      /\ \A d \in Connections \ {c} : conn[d].grant # conn[c].grant
    BY DEF CredentialsMatch
  <2>1. conn[c].grant \in States /\ conn[c].grant # None
    BY ConnectionNoneAssumption DEF Typed, Shape
  <2>2. Holds(c, conn[c].grant)
    BY DEF Holds
  <2>3. auth[conn[c].grant].target \in {c, None}
    BY <2>1, <2>2 DEF Credentials
  <2>4. ASSUME NEW d \in Connections \ {c}, conn[d].grant = conn[c].grant PROVE FALSE
    <3>1. conn[d].exists
      BY <2>1, <2>4 DEF Rows
    <3> QED BY <2>1, <2>2, <2>4, <3>1 DEF Credentials, Holds
  <2> QED BY <2>1, <2>3, <2>4
<1> QED BY <1>1, TypedInvariant, CredentialsInvariant, PTL

-----------------------------------------------------------------------------
(***************************************************************************)
(* A finished discovery is complete.                                       *)
(***************************************************************************)

\* What a discovery has dealt with is in the table.
Discovery ==
  \A t \in Callbacks : pc[t] = "upsert" =>
    \A a \in BankAccounts \ task[t].todo : <<task[t].conn, a>> \in accounts

LEMMA DiscoveryStep ==
  Typed /\ Rows /\ Discovery /\ DiscoveredIsComplete /\ [Next]_vars
    => Discovery' /\ DiscoveredIsComplete'
<1> SUFFICES ASSUME Typed, Rows, Discovery, DiscoveredIsComplete, [Next]_vars
             PROVE  Discovery' /\ DiscoveredIsComplete'
  OBVIOUS
<1>1. ASSUME NEW s \in States, Session(s) \/ RevokeConsent(s)
      PROVE  Discovery' /\ DiscoveredIsComplete'
  BY <1>1, SessionFrame DEF Discovery, DiscoveredIsComplete
<1>2. ASSUME NEW t \in Callbacks, HandleCallback(t)
      PROVE  Discovery' /\ DiscoveredIsComplete'
  <2>0. \A u \in Callbacks \ {t} : pc'[u] = pc[u] /\ task'[u] = task[u]
    BY <1>2, CallbackMoves
  <2>1. ASSUME NEW a \in BankAccounts, UpsertAccount(t, a)
        PROVE  Discovery' /\ DiscoveredIsComplete'
    <3>1. accounts' = accounts \cup {<<task[t].conn, a>>} /\ conn' = conn
      BY <2>1 DEF UpsertAccount
    <3>2. pc[t] = "upsert" /\ task'[t].todo = task[t].todo \ {a} /\ task'[t].conn = task[t].conn
      BY <2>1 DEF UpsertAccount, Typed, TypeOK, Task
    <3>3. ASSUME NEW u \in Callbacks, pc'[u] = "upsert",
                 NEW b \in BankAccounts \ task'[u].todo
          PROVE  <<task'[u].conn, b>> \in accounts'
      <4>1. CASE u = t
        BY <3>1, <3>2, <3>3, <4>1 DEF Discovery
      <4>2. CASE u # t
        BY <2>0, <3>1, <3>3, <4>2 DEF Discovery
      <4> QED BY <4>1, <4>2
    <3> QED BY <3>1, <3>3 DEF Discovery, DiscoveredIsComplete
  <2>2. CASE FinishDiscovery(t)
    <3>1. /\ task[t].conn \in Connections /\ accounts' = accounts /\ pc'[t] = "idle"
          /\ pc[t] = "upsert" /\ task[t].todo = {}
      BY <2>2 DEF FinishDiscovery, Return, Typed, TypeOK, Shape
    <3>2. \A c \in Connections \ {task[t].conn} : conn'[c] = conn[c]
      BY <2>2, <3>1 DEF FinishDiscovery, Typed, TypeOK
    <3>3. \A a \in BankAccounts : <<task[t].conn, a>> \in accounts
      BY <3>1 DEF Discovery
    <3> QED BY <2>0, <3>1, <3>2, <3>3 DEF Discovery, DiscoveredIsComplete
  <2>3. ASSUME NEW c \in Connections, StoreReauth(t, c) \/ StoreNew(t, c)
        PROVE  Discovery' /\ DiscoveredIsComplete'
    <3>1. /\ \A d \in Connections \ {c} : conn'[d] = conn[d]
          /\ conn'[c].discovered => conn[c].discovered
          /\ pc'[t] = "list"
      BY <2>3, StoreGives
    <3>2. accounts' = accounts
      BY <2>3 DEF StoreReauth, StoreNew
    <3> QED BY <2>0, <3>1, <3>2 DEF Discovery, DiscoveredIsComplete
  <2>4. CASE ListAccounts(t)
    <3>1. conn' = conn /\ accounts' = accounts /\ task'[t].todo = BankAccounts
      BY <2>4 DEF ListAccounts, Typed, TypeOK, Task, database
    <3> QED BY <2>0, <3>1 DEF Discovery, DiscoveredIsComplete
  <2>5. ASSUME \/ \E s \in States : FindState(t, s)
               \/ DeleteState(t) \/ DeleteLoses(t) \/ ExchangeCode(t) \/ ExchangeLost(t)
               \/ CallbackFails(t)
        PROVE  Discovery' /\ DiscoveredIsComplete'
    <3>1. conn' = conn /\ accounts' = accounts
      BY <2>5 DEF FindState, DeleteState, DeleteLoses, ExchangeCode, ExchangeLost,
                  CallbackFails, database
    <3>2. pc'[t] # "upsert"
      BY <2>5 DEF FindState, DeleteState, DeleteLoses, ExchangeCode, ExchangeLost,
                  CallbackFails, Return, Typed, TypeOK
    <3> QED BY <2>0, <3>1, <3>2 DEF Discovery, DiscoveredIsComplete
  <2> QED BY <1>2, <2>1, <2>2, <2>3, <2>4, <2>5 DEF HandleCallback
<1>3. ASSUME NEW c \in Connections,
             RunSync(c) \/ DisableConnection(c)
      PROVE  Discovery' /\ DiscoveredIsComplete'
  <2>1. UNCHANGED <<accounts, pc, task>>
    BY <1>3, RefreshFrame
  <2>2. \A d \in Connections : conn'[d].discovered = conn[d].discovered
    BY <1>3 DEF RunSync, BeginSync, RefreshTokens, BeginRefresh, RefreshAnswered,
                RefreshLost, RefreshRejected, PersistTokens, RefreshFails, DataRefused,
                MarkReauth, EndSync, DisableConnection, Typed, TypeOK, ConnRow, database
  <2> QED BY <2>1, <2>2 DEF Discovery, DiscoveredIsComplete
<1>4. CASE Crash
  BY <1>4, CrashFrame DEF Discovery, DiscoveredIsComplete
<1>5. CASE UNCHANGED vars
  BY <1>5 DEF Discovery, DiscoveredIsComplete, vars, database
<1> QED BY <1>1, <1>2, <1>3, <1>4, <1>5 DEF Next

\* A connection that shows the time of its discovery has all the accounts the
\* discovery was told of: a discovery that fails half way shows no time.
THEOREM DiscoveryComplete == Spec => []DiscoveredIsComplete
<1>1. Init => Discovery /\ DiscoveredIsComplete
  BY DEF Init, Discovery, DiscoveredIsComplete, NoConn
<1> QED BY <1>1, TypedInvariant, CredentialsInvariant, DiscoveryStep, PTL DEF Spec

-----------------------------------------------------------------------------
(***************************************************************************)
(* The newest refresh token is the one that is stored.                     *)
(***************************************************************************)

\* A callback or a refresh has the newest token of its grant in hand.
Tokens ==
  /\ \A t \in Callbacks : pc[t] = "store" => newest[task[t].state] = 1
  /\ \A c \in Connections :
       sync[c].pc = "persist" => sync[c].token = newest[sync[c].grant]

\* The row of a connection and the refresh of it, as TokenUsable relates them.
Fresh(c) ==
  conn[c].exists /\ conn[c].grant \notin mislaid =>
    \/ conn[c].token = newest[conn[c].grant]
    \/ /\ sync[c].pc = "persist"
       /\ sync[c].grant = conn[c].grant
       /\ sync[c].token = newest[conn[c].grant]

LEMMA TokenUsableIsFresh == TokenUsable <=> \A c \in Connections : Fresh(c)
BY DEF TokenUsable, Fresh

\* A connection that keeps its row, its refresh and the bank's number of its
\* grant stays fresh.
LEMMA FreshKept ==
  ASSUME NEW c \in Connections, Fresh(c), mislaid \subseteq mislaid',
         conn'[c].exists = conn[c].exists, conn'[c].grant = conn[c].grant,
         conn'[c].token = conn[c].token, sync'[c] = sync[c],
         conn[c].exists => newest'[conn[c].grant] = newest[conn[c].grant]
  PROVE  Fresh(c)'
BY DEF Fresh

LEMMA RedeemTokens ==
  ASSUME Typed, InHand, Credentials, Tokens, TokenUsable, NEW t \in Callbacks,
         ExchangeCode(t) \/ ExchangeLost(t)
  PROVE  Tokens' /\ TokenUsable'
<1> DEFINE s == task[t].state
<1>1. /\ s \in States /\ pc[t] = "exchange" /\ newest' = [newest EXCEPT ![s] = 1]
      /\ UNCHANGED <<conn, sync, task, mislaid>>
      /\ pc' = [pc EXCEPT ![t] = "store"] \/ pc' = pc
  BY DEF ExchangeCode, ExchangeLost, Redeem, Typed, Shape, database, history
<1> HIDE DEF s
<1>2. newest'[s] = 1 /\ \A r \in States \ {s} : newest'[r] = newest[r]
  BY <1>1 DEF Typed, TypeOK
<1>3. \A c \in Connections : ~Holds(c, s)
  BY <1>1 DEF Credentials, s
<1>4. \A u \in Callbacks : pc'[u] = "store" => u = t \/ pc[u] = "store"
  BY <1>1 DEF Typed, TypeOK
<1>5. ASSUME NEW u \in Callbacks, pc'[u] = "store" PROVE newest'[task'[u].state] = 1
  <2>1. CASE u = t
    BY <1>1, <1>2, <2>1 DEF s
  <2>2. CASE pc[u] = "store"
    <3>1. task[u].state \in States /\ newest[task[u].state] = 1
      BY <2>2 DEF Tokens, Typed, Shape
    <3> QED BY <1>1, <1>2, <3>1
  <2> QED BY <1>4, <1>5, <2>1, <2>2
<1>6. ASSUME NEW c \in Connections, sync'[c].pc = "persist"
      PROVE  sync'[c].token = newest'[sync'[c].grant]
  <2>1. sync[c].grant \in States /\ sync[c].grant # s
    BY <1>1, <1>3, <1>6 DEF Holds, Typed, Shape
  <2> QED BY <1>1, <1>2, <1>6, <2>1 DEF Tokens
<1>7. ASSUME NEW c \in Connections PROVE Fresh(c)'
  <2>1. conn[c].exists => newest'[conn[c].grant] = newest[conn[c].grant]
    BY <1>2, <1>3 DEF Holds, Typed, Shape
  <2> QED BY <1>1, <2>1, FreshKept, TokenUsableIsFresh
<1>8. TokenUsable'
  BY <1>7 DEF TokenUsable, Fresh
<1> QED BY <1>5, <1>6, <1>8 DEF Tokens

LEMMA StoreTokens ==
  ASSUME Typed, Rows, Credentials, Tokens, TokenUsable, NEW t \in Callbacks,
         NEW c \in Connections, HandleCallback(t), StoreReauth(t, c) \/ StoreNew(t, c)
  PROVE  Tokens' /\ TokenUsable'
<1>1. /\ pc[t] = "store" /\ pc'[t] = "list" /\ UNCHANGED <<newest, sync>>
      /\ conn'[c].token = 1 /\ conn'[c].grant = task[t].state
      /\ \A d \in Connections \ {c} : conn'[d] = conn[d]
  BY StoreGives
<1>2. \A u \in Callbacks \ {t} : pc'[u] = pc[u] /\ task'[u] = task[u]
  BY CallbackMoves
<1>3. mislaid' = mislaid
  BY CallbackFrame
<1>4. Tokens'
  BY <1>1, <1>2 DEF Tokens
<1>5. Fresh(c)'
  BY <1>1 DEF Fresh, Tokens
<1>6. \A d \in Connections \ {c} : Fresh(d)'
  BY <1>1, <1>3, FreshKept, TokenUsableIsFresh
<1>7. TokenUsable'
  BY <1>5, <1>6 DEF TokenUsable, Fresh
<1> QED BY <1>4, <1>7

\* The other steps of a callback do not touch tokens.
LEMMA QuietTokens ==
  ASSUME Typed, Tokens, TokenUsable, NEW t \in Callbacks, HandleCallback(t),
         ~(ExchangeCode(t) \/ ExchangeLost(t)),
         ~\E c \in Connections : StoreReauth(t, c) \/ StoreNew(t, c)
  PROVE  Tokens' /\ TokenUsable'
<1>1. UNCHANGED <<newest, sync, mislaid>>
  BY CallbackFrame
     DEF HandleCallback, FindState, DeleteState, DeleteLoses, ListAccounts,
         UpsertAccount, FinishDiscovery, CallbackFails, bank
<1>2. pc'[t] # "store"
  BY DEF HandleCallback, FindState, DeleteState, DeleteLoses, ListAccounts,
         UpsertAccount, FinishDiscovery, CallbackFails, Return, Typed, TypeOK
<1>3. \A u \in Callbacks \ {t} : pc'[u] = pc[u] /\ task'[u] = task[u]
  BY CallbackMoves
<1>4. \A c \in Connections : /\ conn'[c].exists = conn[c].exists
                             /\ conn'[c].grant = conn[c].grant
                             /\ conn'[c].token = conn[c].token
  <2>1. CASE FinishDiscovery(t)
    <3>1. task[t].conn \in Connections
      BY <2>1 DEF FinishDiscovery, Typed, Shape
    <3> QED BY <2>1, <3>1 DEF FinishDiscovery, Typed, TypeOK, ConnRow
  <2>2. CASE UNCHANGED conn
    BY <2>2
  <2>3. FinishDiscovery(t) \/ UNCHANGED conn
    BY DEF HandleCallback, FindState, DeleteState, DeleteLoses,
           ListAccounts, UpsertAccount, CallbackFails, database
  <2> QED BY <2>1, <2>2, <2>3
<1>5. Tokens'
  BY <1>1, <1>2, <1>3 DEF Tokens
<1>6. \A c \in Connections : Fresh(c)'
  BY <1>1, <1>4, FreshKept, TokenUsableIsFresh
<1> QED BY <1>5, <1>6 DEF TokenUsable, Fresh

\* A refresh moves the bank's number of the grant it holds, and of no other.
LEMMA RefreshMoves ==
  ASSUME Typed, NEW c \in Connections,
         RunSync(c) \/ DisableConnection(c)
  PROVE  /\ mislaid \subseteq mislaid'
         /\ \/ newest' = newest
            \/ /\ sync[c].pc \in {"refresh", "persist"}
               /\ \A r \in States \ {sync[c].grant} : newest'[r] = newest[r]
<1>1. CASE RefreshAnswered(c)
  BY <1>1 DEF RefreshAnswered, Typed, TypeOK, Shape, history
<1>2. CASE RefreshLost(c)
  BY <1>2 DEF RefreshLost, Typed, TypeOK, Shape
<1>3. CASE ~RefreshAnswered(c) /\ ~RefreshLost(c)
  BY <1>3 DEF RunSync, BeginSync, RefreshTokens, BeginRefresh, RefreshRejected,
              PersistTokens, RefreshFails, DataRefused, MarkReauth, EndSync,
              DisableConnection, bank, history
<1> QED BY <1>1, <1>2, <1>3

\* The connection whose tokens are refreshed.
LEMMA RefreshedFresh ==
  ASSUME Typed, Rows, Tokens, NEW c \in Connections, Fresh(c),
         RunSync(c) \/ DisableConnection(c)
  PROVE  /\ Fresh(c)'
         /\ sync'[c].pc = "persist" => sync'[c].token = newest'[sync'[c].grant]
<1>0. /\ conn \in [Connections -> ConnRow] /\ sync \in [Connections -> Refresh]
      /\ newest \in [States -> Nat]
  BY DEF Typed, TypeOK
<1>1. CASE BeginRefresh(c)
  <2>1. /\ UNCHANGED <<conn, newest, mislaid>> /\ sync[c].pc = "running"
        /\ sync'[c].pc = "refresh"
    BY <1>0, <1>1 DEF BeginRefresh, database, bank, history
  <2> QED BY <2>1 DEF Fresh
<1>2. CASE RefreshAnswered(c)
  <2>1. sync[c].grant \in States /\ UNCHANGED <<conn, mislaid>> /\ sync[c].pc = "refresh"
        /\ sync[c].token \in Nat
    BY <1>0, <1>2 DEF RefreshAnswered, Typed, Shape, Refresh, database, history
  <2>2. PICK token \in {sync[c].token, sync[c].token + 1} :
          /\ newest' = [newest EXCEPT ![sync[c].grant] = token]
          /\ sync' = [sync EXCEPT ![c].pc = "persist", ![c].token = token]
    BY <1>2 DEF RefreshAnswered
  <2>3. /\ sync'[c].pc = "persist" /\ sync'[c].token = token
        /\ sync'[c].grant = sync[c].grant
    BY <1>0, <2>2 DEF Refresh
  <2>4. /\ newest'[sync[c].grant] = token
        /\ \A r \in States \ {sync[c].grant} : newest'[r] = newest[r]
    BY <1>0, <2>1, <2>2
  <2>5. CASE conn[c].grant = sync[c].grant
    BY <2>1, <2>3, <2>4, <2>5 DEF Fresh
  <2>6. CASE conn[c].grant # sync[c].grant /\ conn[c].exists
    <3>1. conn[c].grant \in States
      BY <2>6 DEF Typed, Shape
    <3> QED BY <2>1, <2>3, <2>4, <2>6, <3>1 DEF Fresh
  <2>7. CASE ~conn[c].exists
    BY <2>1, <2>3, <2>4, <2>7 DEF Fresh
  <2> QED BY <2>5, <2>6, <2>7
<1>3. CASE RefreshLost(c)
  <2>1. /\ sync[c].grant \in States /\ UNCHANGED <<conn, sync>>
        /\ sync[c].pc = "refresh" /\ mislaid' = mislaid \cup {sync[c].grant}
    BY <1>3 DEF RefreshLost, Typed, Shape, database
  <2>2. \A r \in States \ {sync[c].grant} : newest'[r] = newest[r]
    BY <1>0, <1>3 DEF RefreshLost
  <2>3. conn[c].exists => conn[c].grant \in States
    BY DEF Typed, Shape
  <2> QED BY <2>1, <2>2, <2>3 DEF Fresh
<1>4. CASE RefreshRejected(c)
  <2>1. /\ conn'[c].exists = conn[c].exists /\ conn'[c].grant = conn[c].grant
        /\ conn'[c].token = conn[c].token /\ sync[c].pc = "refresh"
        /\ UNCHANGED <<newest, mislaid>>
    BY <1>0, <1>4 DEF RefreshRejected, ConnRow, bank, history
  <2>2. sync'[c].pc # "persist"
    BY <1>0, <1>4 DEF RefreshRejected, NoRefresh
  <2> QED BY <2>1, <2>2 DEF Fresh
<1>5. CASE PersistTokens(c)
  <2>1. /\ conn'[c].grant = sync[c].grant /\ conn'[c].token = sync[c].token
        /\ sync[c].pc = "persist" /\ UNCHANGED <<newest, mislaid>>
    BY <1>0, <1>5 DEF PersistTokens, ConnRow, bank, history
  <2>2. sync'[c].pc # "persist"
    BY <1>0, <1>5 DEF PersistTokens, NoRefresh
  <2> QED BY <2>1, <2>2 DEF Fresh, Tokens
<1>6. CASE RefreshFails(c)
  <2>1. /\ UNCHANGED <<conn, newest>>
        /\ mislaid' = mislaid \cup {sync[d].grant : d \in Unsaved({c})}
    BY <1>6 DEF RefreshFails, database, bank
  <2>2. sync'[c].pc # "persist"
    BY <1>0, <1>6 DEF RefreshFails, NoRefresh
  <2>3. CASE c \in Unsaved({c})
    BY <2>1, <2>2, <2>3 DEF Fresh
  <2>4. CASE c \notin Unsaved({c})
    BY <2>1, <2>2, <2>4 DEF Fresh, Unsaved
  <2> QED BY <2>3, <2>4
<1>7. CASE DisableConnection(c)
  <2>1. /\ conn'[c].exists = conn[c].exists /\ conn'[c].grant = conn[c].grant
        /\ conn'[c].token = conn[c].token
    BY <1>0, <1>7 DEF DisableConnection, ConnRow
  <2>2. UNCHANGED <<newest, sync, mislaid>>
    BY <1>7 DEF DisableConnection, bank, history
  <2> QED BY <2>1, <2>2 DEF Fresh, Tokens
<1>8. CASE BeginSync(c) \/ DataRefused(c) \/ MarkReauth(c) \/ EndSync(c)
  <2>1. /\ conn'[c].exists = conn[c].exists /\ conn'[c].grant = conn[c].grant
        /\ conn'[c].token = conn[c].token
    BY <1>0, <1>8 DEF BeginSync, DataRefused, MarkReauth, EndSync, ConnRow, database
  <2>2. UNCHANGED <<newest, mislaid>> /\ sync[c].pc # "persist"
    BY <1>8 DEF BeginSync, DataRefused, MarkReauth, EndSync, bank, history
  <2>3. sync'[c].pc # "persist"
    BY <1>0, <1>8 DEF BeginSync, DataRefused, MarkReauth, EndSync, NoRefresh
  <2> QED BY <2>1, <2>2, <2>3 DEF Fresh
<1> QED BY <1>1, <1>2, <1>3, <1>4, <1>5, <1>6, <1>7, <1>8 DEF RunSync, RefreshTokens

LEMMA RefreshTokensStep ==
  ASSUME Typed, Rows, Credentials, Tokens, TokenUsable, NEW c \in Connections,
         RunSync(c) \/ DisableConnection(c)
  PROVE  Tokens' /\ TokenUsable'
<1>1. /\ UNCHANGED <<pc, task>> /\ mislaid \subseteq mislaid'
      /\ \/ newest' = newest
         \/ /\ sync[c].pc \in {"refresh", "persist"}
            /\ \A r \in States \ {sync[c].grant} : newest'[r] = newest[r]
  BY RefreshFrame, RefreshMoves
<1>2. \A d \in Connections \ {c} : conn'[d] = conn[d] /\ sync'[d] = sync[d]
  BY RefreshKeeps
<1>3. ASSUME NEW d \in Connections \ {c}, NEW s \in States, Holds(d, s)
      PROVE  newest'[s] = newest[s]
  <2>1. CASE sync[c].pc \in {"refresh", "persist"} /\ s = sync[c].grant
    BY <1>3, <2>1 DEF Credentials, Holds
  <2> QED BY <1>1, <2>1
<1>4. ASSUME NEW t \in Callbacks, pc'[t] = "store" PROVE newest'[task'[t].state] = 1
  <2>1. /\ task[t].state \in States /\ newest[task[t].state] = 1
        /\ ~Holds(c, task[t].state)
    BY <1>1, <1>4 DEF Tokens, Credentials, Typed, Shape
  <2> QED BY <1>1, <2>1 DEF Holds
<1>5. ASSUME NEW d \in Connections \ {c}, sync'[d].pc = "persist"
      PROVE  sync'[d].token = newest'[sync'[d].grant]
  <2>1. Holds(d, sync[d].grant) /\ sync[d].grant \in States
    BY <1>2, <1>5 DEF Holds, Typed, Shape
  <2> QED BY <1>2, <1>3, <1>5, <2>1 DEF Tokens
<1>6. ASSUME NEW d \in Connections \ {c} PROVE Fresh(d)'
  <2>1. conn[d].exists => newest'[conn[d].grant] = newest[conn[d].grant]
    BY <1>3 DEF Holds, Typed, Shape
  <2> QED BY <1>1, <1>2, <2>1, FreshKept, TokenUsableIsFresh
<1>7. Fresh(c)' /\ (sync'[c].pc = "persist" => sync'[c].token = newest'[sync'[c].grant])
  BY RefreshedFresh, TokenUsableIsFresh
<1>8. Tokens'
  BY <1>4, <1>5, <1>7 DEF Tokens
<1>9. TokenUsable'
  BY <1>6, <1>7 DEF TokenUsable, Fresh
<1> QED BY <1>8, <1>9

LEMMA CrashTokens ==
  ASSUME Typed, Tokens, TokenUsable, Crash
  PROVE  Tokens' /\ TokenUsable'
<1>1. /\ UNCHANGED <<conn, newest>>
      /\ \A t \in Callbacks : pc'[t] = "idle"
      /\ \A c \in Connections : sync'[c].pc = "idle"
  BY CrashFrame
<1>2. mislaid' = mislaid \cup {sync[d].grant : d \in Unsaved(Connections)}
  BY DEF Crash
<1>3. ASSUME NEW c \in Connections PROVE Fresh(c)'
  <2>1. CASE c \in Unsaved(Connections)
    BY <1>1, <1>2, <2>1, TokenUsableIsFresh DEF Fresh
  <2>2. CASE c \notin Unsaved(Connections)
    BY <1>1, <1>2, <2>2, TokenUsableIsFresh DEF Fresh, Unsaved
  <2> QED BY <2>1, <2>2
<1> QED BY <1>1, <1>3 DEF Tokens, TokenUsable, Fresh

LEMMA TokensStep ==
  Typed /\ InHand /\ Rows /\ Credentials /\ Tokens /\ TokenUsable /\ [Next]_vars
    => Tokens' /\ TokenUsable'
<1> SUFFICES ASSUME Typed, InHand, Rows, Credentials, Tokens, TokenUsable, [Next]_vars
             PROVE  Tokens' /\ TokenUsable'
  OBVIOUS
<1>1. ASSUME NEW s \in States, Session(s) \/ RevokeConsent(s)
      PROVE  Tokens' /\ TokenUsable'
  BY <1>1, SessionFrame DEF Tokens, TokenUsable
<1>2. ASSUME NEW t \in Callbacks, HandleCallback(t) PROVE Tokens' /\ TokenUsable'
  BY <1>2, RedeemTokens, StoreTokens, QuietTokens
<1>3. ASSUME NEW c \in Connections,
             RunSync(c) \/ DisableConnection(c)
      PROVE  Tokens' /\ TokenUsable'
  BY <1>3, RefreshTokensStep
<1>4. CASE Crash
  BY <1>4, CrashTokens
<1>5. CASE UNCHANGED vars
  BY <1>5 DEF Tokens, TokenUsable, vars, database, bank, history
<1> QED BY <1>1, <1>2, <1>3, <1>4, <1>5 DEF Next

\* The stored refresh token is the bank's newest of its grant, unless a refresh
\* is about to store it or an answer or a write was lost.
THEOREM NewestTokenStored == Spec => []TokenUsable
<1>1. Init => Tokens /\ TokenUsable
  BY DEF Init, Tokens, TokenUsable, NoConn, NoRefresh
<1> QED BY <1>1, TypedInvariant, InHandInvariant, CredentialsInvariant, TokensStep, PTL
        DEF Spec
=============================================================================
